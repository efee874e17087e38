--------------------------- MODULE RemoteDelivery ---------------------------
(***************************************************************************)
(* deliver_remote (crates/funmail-delivery/src/remote.rs): one mail is     *)
(* offered to the addresses of the recipient's MX hosts, in order, until   *)
(* one of them takes it.  Each address is one SMTP dialogue                *)
(* (try_smtp_delivery) with a server that answers as it likes, late, or    *)
(* not at all, and a connection that may break at any point.               *)
(*                                                                         *)
(* Only the reply lines matter: their code, and the character after it.    *)
(***************************************************************************)
EXTENDS Integers, Sequences

CONSTANTS
  NumHosts,   \* bound: MX hosts of the domain
  MaxAddrs,   \* bound: IPv4 addresses of one host
  MaxUnread   \* bound: lines sent and not yet read; a server that has sent as many waits

ASSUME NumHostsAssumption == NumHosts \in Nat
ASSUME MaxAddrsAssumption == MaxAddrs \in Nat
ASSUME MaxUnreadAssumption == MaxUnread \in Nat \ {0}

VARIABLES
  (* the caller *)
  pc,         \* what deliver_remote is doing; during a dialogue, the command
              \* whose answer it reads
  host,       \* number of the MX host it is at
  addr,       \* number of the address of that host, of addrs
  addrs,      \* IPv4 addresses of that host
  lastError,  \* kind of last_error: only the last one decides the verdict
  result,
  (* the connection and the server at its other end *)
  link,       \* "closed", "open", or "broken": nothing more will arrive
  wire,       \* reply lines sent and not yet read
  asked,      \* the command the server has yet to answer, "none" when it waits
  saying,     \* the command it has begun to answer, in a reply that is not at its end
  offersTls,  \* its answer to EHLO lists STARTTLS
  (* history *)
  took,       \* <<host, address>> of the servers that took the message
  tried,      \* <<host, address>> a connection was tried to
  unsettled,  \* those of took that the caller left with an error all the same
  refused,    \* <<host, address>> of those that sent a 5xx or 450; <<0, 0>>: there is no MX host
  strayed     \* a line was taken for the answer to a command it does not answer

vars == <<pc, host, addr, addrs, lastError, result, link, wire, asked, saying, offersTls,
          took, tried, unsettled, refused, strayed>>
caller  == <<host, addr, addrs, lastError, result>>
history == <<took, tried, unsettled, refused, strayed>>
----------------------------------------------------------------------------
Commands == {"greet", "ehlo", "starttls", "ehlo2", "mail", "rcpt", "data", "body"}

\* The code that the caller waits for after each command
Expected(c) == CASE c \in {"greet", "starttls"} -> 220
                 [] c = "data" -> 354
                 [] OTHER -> 250

\* Mutant: nobody waits for the answer to the message itself
FollowingUnconfirmed(c) == CASE c = "greet" -> "ehlo"
                             [] c = "ehlo" -> IF offersTls THEN "starttls" ELSE "mail"
                             [] c = "starttls" -> "tls"
                             [] c = "ehlo2" -> "mail"
                             [] c = "mail" -> "rcpt"
                             [] c = "rcpt" -> "data"
                             [] OTHER -> "quit"

\* What it sends once it has that code
Following(c) == CASE c = "greet" -> "ehlo"
                  [] c = "ehlo" -> IF offersTls THEN "starttls" ELSE "mail"
                  [] c = "starttls" -> "tls"
                  [] c = "ehlo2" -> "mail"
                  [] c = "mail" -> "rcpt"
                  [] c = "rcpt" -> "data"
                  [] c = "data" -> "body"
                  [] OTHER -> "quit"

Codes == {220, 250, 354, 421, 450, 550}

\* The character after the code: a blank ends a reply, a dash announces another
\* line; a code that stands alone ends a reply too, but not for this caller.
Line == [code : Codes, sep : {"blank", "dash", "alone"}, to : Commands]

Reply(c, code, sep) == [code |-> code, sep |-> sep, to |-> c]

Target == <<host, addr>>

TypeOK ==
  /\ pc \in Commands \cup {"mx", "resolve", "connect", "tls", "done"}
  /\ host \in 0 .. NumHosts
  /\ addr \in 0 .. MaxAddrs
  /\ addrs \in 0 .. MaxAddrs
  /\ lastError \in {"none", "temp", "perm"}
  /\ result \in {"none", "sent", "temp", "perm"}
  /\ link \in {"closed", "open", "broken"}
  /\ wire \in Seq(Line)
  /\ asked \in Commands \cup {"none", "tls"}
  /\ saying \in Commands \cup {"none"}
  /\ offersTls \in BOOLEAN
  /\ took \subseteq (0 .. NumHosts) \X (0 .. MaxAddrs)
  /\ tried \subseteq (0 .. NumHosts) \X (0 .. MaxAddrs)
  /\ unsettled \subseteq took
  /\ refused \subseteq (0 .. NumHosts) \X (0 .. MaxAddrs)
  /\ strayed \in BOOLEAN
----------------------------------------------------------------------------
Init ==
  /\ pc = "mx"
  /\ host = 0 /\ addr = 0 /\ addrs = 0
  /\ lastError = "none"
  /\ result = "none"
  /\ link = "closed"
  /\ wire = <<>>
  /\ asked = "none" /\ saying = "none"
  /\ offersTls = FALSE
  /\ took = {} /\ tried = {} /\ unsettled = {}
  /\ refused = {}
  /\ strayed = FALSE

Return(r) == pc' = "done" /\ result' = r

\* Mutant: the other addresses of the host are not tried
AdvanceHost(error) ==
  /\ lastError' = error
  /\ IF host < NumHosts
     THEN /\ pc' = "resolve" /\ host' = host + 1 /\ addr' = 0 /\ addrs' = 0
          /\ UNCHANGED result
     ELSE Return(error) /\ UNCHANGED <<host, addr, addrs>>

\* Mutant: a temporary error brings the same address once more
AdvanceAgain(error) ==
  /\ lastError' = error
  /\ IF error = "temp" \/ addr < addrs
     THEN /\ pc' = "connect" /\ addr' = IF error = "temp" THEN addr ELSE addr + 1
          /\ UNCHANGED <<host, addrs, result>>
     ELSE IF host < NumHosts
     THEN /\ pc' = "resolve" /\ host' = host + 1 /\ addr' = 0 /\ addrs' = 0
          /\ UNCHANGED result
     ELSE Return(error) /\ UNCHANGED <<host, addr, addrs>>

\* Mutant: once permanent, always permanent
AdvanceSticky(error) ==
  LET e == IF lastError = "perm" THEN "perm" ELSE error
  IN  /\ lastError' = e
      /\ IF addr < addrs
         THEN pc' = "connect" /\ addr' = addr + 1 /\ UNCHANGED <<host, addrs, result>>
         ELSE IF host < NumHosts
         THEN /\ pc' = "resolve" /\ host' = host + 1 /\ addr' = 0 /\ addrs' = 0
              /\ UNCHANGED result
         ELSE Return(e) /\ UNCHANGED <<host, addr, addrs>>

\* The next address of this host, or the next host, or the end of the list.
\* The caller forgets what the earlier addresses answered.
Advance(error) ==
  /\ lastError' = error
  /\ IF addr < addrs
     THEN pc' = "connect" /\ addr' = addr + 1 /\ UNCHANGED <<host, addrs, result>>
     ELSE IF host < NumHosts
     THEN /\ pc' = "resolve" /\ host' = host + 1 /\ addr' = 0 /\ addrs' = 0
          /\ UNCHANGED result
     ELSE Return(error) /\ UNCHANGED <<host, addr, addrs>>

HangUp ==
  /\ link' = "closed" /\ wire' = <<>>
  /\ asked' = "none" /\ saying' = "none" /\ offersTls' = FALSE

\* is_permanent_smtp_error of "All MX hosts failed: ..." with this code in it
Verdict(code) == IF code \in {550, 450} THEN "perm" ELSE "temp"

\* dns::lookup_mx: a list of hosts, an empty one, or an error
LookupMx ==
  /\ pc = "mx"
  /\ \/ NumHosts > 0 /\ pc' = "resolve" /\ host' = 1 /\ UNCHANGED <<result, refused>>
     \/ Return("perm") /\ refused' = {Target} /\ UNCHANGED host
     \/ Return("temp") /\ UNCHANGED <<host, refused>>
  /\ UNCHANGED <<addr, addrs, lastError, link, wire, asked, saying, offersTls, took, tried,
                 unsettled, strayed>>

\* dns::lookup_a: k addresses; none, or an error, and the host is skipped
Resolve(k) ==
  /\ pc = "resolve"
  /\ IF k = 0
     THEN Advance("temp")
     ELSE pc' = "connect" /\ addrs' = k /\ addr' = 1 /\ UNCHANGED <<host, lastError, result>>
  /\ UNCHANGED <<link, wire, asked, saying, offersTls, history>>

\* TcpStream::connect with its timeout of 10 seconds
Connect ==
  /\ pc = "connect"
  /\ tried' = tried \cup {Target}
  /\ \/ /\ link' = "open" /\ asked' = "greet" /\ pc' = "greet"
        /\ offersTls' \in BOOLEAN
        /\ UNCHANGED <<caller, wire, saying>>
     \/ Advance("temp") /\ UNCHANGED <<link, wire, asked, saying, offersTls>>
  /\ UNCHANGED <<took, unsettled, refused, strayed>>
----------------------------------------------------------------------------
(* read_smtp_response, read_smtp_response_collect and the greeting *)

Reading == pc \in Commands

Giving(error) ==
  /\ Advance(error)
  /\ HangUp
  /\ unsettled' = IF Target \in took THEN unsettled \cup {Target} ELSE unsettled

\* Mutant: any positive code will do
CompleteOnAnyPositive(c, line) ==
  /\ line.code \in {220, 250, 354}
  /\ c = "greet" \/ line.sep = "blank"

\* The reply is over: the greeting after one line, the others after a line with
\* the expected code and a blank.
Complete(c, line) ==
  /\ line.code = Expected(c)
  /\ c = "greet" \/ line.sep = "blank"

\* Mutant: the list goes on after a success
ProceedToTheNext ==
  /\ Reading /\ wire # <<>>
  /\ Complete(pc, Head(wire))
  /\ strayed' = (strayed \/ Head(wire).to # pc)
  /\ UNCHANGED <<took, tried, refused, unsettled>>
  /\ \/ /\ Following(pc) # "quit"
        /\ pc' = Following(pc)
        /\ asked' = Following(pc)
        /\ wire' = Tail(wire)
        /\ UNCHANGED <<caller, link, saying, offersTls>>
     \/ Following(pc) = "quit" /\ Advance("temp") /\ HangUp

\* A line that ends the reply: send the next command.  Sending fails only on a
\* broken connection, and need not fail even then.
Proceed ==
  /\ Reading /\ wire # <<>>
  /\ Complete(pc, Head(wire))
  /\ strayed' = (strayed \/ Head(wire).to # pc)
  /\ UNCHANGED <<took, tried, refused>>
  /\ \/ /\ Following(pc) # "quit"
        /\ pc' = Following(pc)
        /\ asked' = Following(pc)
        /\ wire' = Tail(wire)
        /\ UNCHANGED <<caller, link, saying, offersTls, unsettled>>
     \/ /\ Following(pc) = "quit"
        /\ Return("sent")
        /\ HangUp
        /\ UNCHANGED <<host, addr, addrs, lastError, unsettled>>
     \/ link = "broken" /\ Giving("temp")    \* so too when QUIT cannot be sent

\* A line with the expected code that does not end the reply
ReadOn ==
  /\ Reading /\ wire # <<>>
  /\ Head(wire).code = Expected(pc)
  /\ ~Complete(pc, Head(wire))
  /\ wire' = Tail(wire)
  /\ UNCHANGED <<pc, caller, link, asked, saying, offersTls, history>>

\* Any other line ends the dialogue
Refuse ==
  /\ Reading /\ wire # <<>>
  /\ Head(wire).code # Expected(pc)
  /\ ~Complete(pc, Head(wire))
  /\ refused' = IF Head(wire).code \in {450, 550} THEN refused \cup {Target} ELSE refused
  /\ Giving(Verdict(Head(wire).code))
  /\ UNCHANGED <<took, tried, strayed>>

\* Mutant: end of file is read again and again
ReadEndIgnored == Reading /\ wire = <<>> /\ link = "broken" /\ UNCHANGED vars

\* End of file, or a read error
ReadEnd ==
  /\ Reading /\ wire = <<>> /\ link = "broken"
  /\ Giving("temp")
  /\ UNCHANGED <<took, tried, refused, strayed>>

\* upgrade_to_tls: lines already buffered are dropped with the plain reader
UpgradeTls ==
  /\ pc = "tls"
  /\ \/ /\ link = "open"
        /\ pc' = "ehlo2" /\ asked' = "ehlo2" /\ wire' = <<>>
        /\ UNCHANGED <<caller, link, saying, offersTls, unsettled>>
     \/ Giving("temp")
  /\ UNCHANGED <<took, tried, refused, strayed>>
----------------------------------------------------------------------------
(* The server: it answers a command when it has it, with one reply, line by line.  How many lines *)
(* a reply has is up to the server.                                                              *)

\* A reply of one line: with the code the command asks for, or with an error
Replies(c) ==
  {Reply(c, Expected(c), "blank"), Reply(c, Expected(c), "alone"),
   Reply(c, 421, "blank"), Reply(c, 450, "blank"), Reply(c, 550, "blank")}

CanSend == link = "open" /\ Len(wire) < MaxUnread

\* It takes the message, and only then says so
ServerTake ==
  /\ link = "open" /\ asked = "body" /\ Target \notin took
  /\ took' = took \cup {Target}
  /\ UNCHANGED <<pc, caller, link, wire, asked, saying, offersTls, tried, unsettled, refused, strayed>>

\* The first line of a reply that has more of them
ServerBegin ==
  /\ CanSend
  /\ saying = "none" /\ asked \in Commands
  /\ asked = "body" => Target \in took
  /\ wire' = Append(wire, Reply(asked, Expected(asked), "dash"))
  /\ saying' = asked /\ asked' = "none"
  /\ UNCHANGED <<pc, caller, link, offersTls, history>>

\* Another one, and not the last; nothing obliges a server to come to the last
ServerMore ==
  /\ CanSend
  /\ saying # "none"
  /\ wire' = Append(wire, Reply(saying, Expected(saying), "dash"))
  /\ UNCHANGED <<pc, caller, link, asked, saying, offersTls, history>>

\* The last line, or the only one
ServerReply ==
  /\ CanSend
  /\ \/ /\ saying # "none"
        /\ \E sep \in {"blank", "alone"} : wire' = Append(wire, Reply(saying, Expected(saying), sep))
        /\ saying' = "none" /\ UNCHANGED asked
     \/ /\ saying = "none" /\ asked \in Commands
        /\ \E r \in Replies(asked) :
             /\ asked = "body" => (Target \in took <=> r.code = 250)
             /\ wire' = Append(wire, r)
        /\ asked' = "none" /\ UNCHANGED saying
  /\ UNCHANGED <<pc, caller, link, offersTls, history>>

\* It closes, it loses patience, or the network breaks
Break ==
  /\ link = "open"
  /\ link' = "broken"
  /\ UNCHANGED <<pc, caller, wire, asked, saying, offersTls, history>>

Finished == pc = "done" /\ UNCHANGED vars

Caller == LookupMx \/ (\E k \in 0 .. MaxAddrs : Resolve(k)) \/ Connect
          \/ Proceed \/ ReadOn \/ Refuse \/ ReadEnd \/ UpgradeTls

\* What brings the dialogue on: the server takes the message, ends a reply, or the connection ends
ServerEnds == ServerTake \/ ServerReply \/ Break

Server == ServerEnds \/ ServerBegin \/ ServerMore

Next == Caller \/ Server \/ Finished

Spec == Init /\ [][Next]_vars

\* The code puts no timeout on its reads and no limit on the lines of a reply: that a dialogue moves
\* on is up to the other end.  This is what a server of the kind that is not in Stalled of
\* DeliveryQueue does: it comes to the end of its replies, or closes.
FairSpec == Spec /\ WF_vars(Caller) /\ WF_vars(ServerEnds)
=============================================================================
