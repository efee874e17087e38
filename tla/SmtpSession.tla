---------------------------- MODULE SmtpSession ----------------------------
(***************************************************************************)
(* funmail-smtp: the sessions of the SMTP and submission ports             *)
(* (crates/funmail-smtp/src/session.rs) and the cached list of local       *)
(* domains they share (store.rs, reloaded by main.rs).  A session takes    *)
(* commands until DATA, and then writes the rows that the delivery engine  *)
(* works from: one row of mail_queue and one of mail_logs per recipient,   *)
(* each by a statement of its own.                                         *)
(*                                                                         *)
(* Clients send any command the session can answer, and may go away at any *)
(* point.  Of the commands, those are left out that change nothing the     *)
(* session reads again: HELO, EHLO, NOOP, VRFY, HELP, and what is refused. *)
(***************************************************************************)
EXTENDS Integers, Sequences

CONSTANTS
  Sessions,       \* sessions at a time
  Mails,          \* bound: the mails written to the queue directory
  Rcpts,          \* recipient addresses
  Domains,        \* their domains
  DomainOf,       \* domain of each address
  MaxRecipients,  \* max_recipients of a mail
  MaxAdmin        \* bound: changes the administrator makes

ASSUME DomainOfAssumption == DomainOf \in [Rcpts -> Domains]
ASSUME NoneAssumption     == "none" \notin Mails
ASSUME BoundsAssumption   == MaxRecipients \in Nat /\ MaxAdmin \in Nat

VARIABLES
  (* database *)
  domains,    \* enabled domains
  rows,       \* mail_queue, without what the delivery engine makes of it
  logs,       \* mail_logs
  (* process *)
  store,      \* the domains DomainStore holds
  ses,        \* the sessions
  (* history *)
  begun,      \* mails for which DATA was accepted
  wanted,     \* the recipients the client had named for each, in order
  confirmed,  \* mails for which it has seen 250
  cut,        \* mails whose data ended with the connection
  changes     \* how often the administrator has interfered

vars == <<domains, rows, logs, store, ses, begun, wanted, confirmed, cut, changes>>
----------------------------------------------------------------------------
(* A session.  In all states but "command", "data" and "closed" it is in   *)
(* handle_data.                                                            *)

Writing == {"save", "queue", "log", "answer"}

Row == [mail : Mails, at : 1 .. MaxRecipients, to : Rcpts]

Session ==
  [pc         : {"closed", "command", "data"} \cup Writing,
   link       : {"up", "eof", "error"},  \* the client's side of the connection
   submission : BOOLEAN,
   tls        : BOOLEAN,
   auth       : BOOLEAN,
   from       : BOOLEAN,                 \* whether mail_from is set
   rcpts      : Seq(Rcpts),
   mail       : Mails \cup {"none"},     \* the mail it writes
   next       : Nat,                     \* the recipient whose row is next
   ok         : BOOLEAN,                 \* handle_data returns Ok
   named      : Seq(Rcpts),              \* history: recipients the client has been
                                         \* told 250 for since the last reset
   reloaded   : BOOLEAN]                 \* history: store has changed since the first one

TypeOK ==
  /\ domains \subseteq Domains
  /\ rows \subseteq [mail : Mails, at : 1 .. MaxRecipients, to : Rcpts, outbound : BOOLEAN]
  /\ logs \subseteq Row
  /\ store \subseteq Domains
  /\ ses \in [Sessions -> Session]
  /\ begun \subseteq Mails
  /\ wanted \in [Mails -> Seq(Rcpts)]
  /\ confirmed \subseteq begun
  /\ cut \subseteq begun
  /\ changes \in 0 .. MaxAdmin

Fresh(submission, tls) ==
  [pc |-> "command", link |-> "up", submission |-> submission, tls |-> tls, auth |-> FALSE,
   from |-> FALSE, rcpts |-> <<>>, mail |-> "none", next |-> 0, ok |-> FALSE,
   named |-> <<>>, reloaded |-> FALSE]

Closed == [Fresh(FALSE, FALSE) EXCEPT !.pc = "closed"]

\* Mutant: the recipients are not cleared
ResetPartly(x) ==
  [x EXCEPT !.from = FALSE, !.mail = "none", !.next = 0, !.ok = FALSE,
            !.named = <<>>, !.reloaded = FALSE]

\* reset(): the end of a transaction, for the client too
Reset(x) ==
  [x EXCEPT !.from = FALSE, !.rcpts = <<>>, !.mail = "none", !.next = 0, !.ok = FALSE,
            !.named = <<>>, !.reloaded = FALSE]

Become(s, x) == ses' = [ses EXCEPT ![s] = x]

database == <<domains, changes>>
written  == <<rows, logs>>
account  == <<begun, wanted, confirmed, cut>>

\* s waits for a command, and its client is there to send one
Ready(s) ==
  /\ ses[s].pc = "command" /\ ses[s].link = "up"
  /\ UNCHANGED <<database, store, written, account>>

Init ==
  /\ domains \in SUBSET Domains /\ store = domains
  /\ rows = {} /\ logs = {}
  /\ ses = [s \in Sessions |-> Closed]
  /\ begun = {} /\ confirmed = {} /\ cut = {}
  /\ wanted = [m \in Mails |-> <<>>]
  /\ changes = 0
----------------------------------------------------------------------------
(* The connection *)

\* A session on port 25, on 587, or on the port with implicit TLS
Connect(s) ==
  /\ ses[s].pc = "closed"
  /\ \E kind \in {<<FALSE, FALSE>>, <<TRUE, FALSE>>, <<TRUE, TRUE>>} :
       Become(s, Fresh(kind[1], kind[2]))
  /\ UNCHANGED <<database, store, written, account>>

\* The client closes, or the connection breaks
Break(s) ==
  /\ ses[s].pc # "closed" /\ ses[s].link = "up"
  /\ \E l \in {"eof", "error"} : Become(s, [ses[s] EXCEPT !.link = l])
  /\ UNCHANGED <<database, store, written, account>>

\* No command comes any more; within DATA only an error ends the session
Close(s) ==
  /\ \/ ses[s].pc = "command" /\ ses[s].link # "up"
     \/ ses[s].pc = "data" /\ ses[s].link = "error"
  /\ Become(s, Closed)
  /\ UNCHANGED <<database, store, written, account>>
----------------------------------------------------------------------------
(* process_command *)

Quit(s) == Ready(s) /\ Become(s, Closed)

\* Mutant: the recipients outlive the upgrade
StartTlsKeeping(s) ==
  /\ Ready(s) /\ ~ses[s].tls
  /\ \/ Become(s, [ses[s] EXCEPT !.tls = TRUE, !.auth = FALSE, !.named = <<>>,
                                !.reloaded = FALSE])
     \/ Become(s, Closed)

\* The upgrade forgets all that was said before; if it fails the session ends
StartTls(s) ==
  /\ Ready(s) /\ ~ses[s].tls
  /\ \/ Become(s, [Reset(ses[s]) EXCEPT !.tls = TRUE, !.auth = FALSE])
     \/ Become(s, Closed)

\* AUTH is offered on the submission ports, and on port 25 after STARTTLS
MayAuthenticate(s) == ses[s].submission \/ ses[s].tls

\* A dialogue of up to three lines that ends with 235.  A failed one changes
\* nothing; not even an earlier success is taken back.
Auth(s) ==
  /\ Ready(s)
  /\ MayAuthenticate(s)
  /\ Become(s, [ses[s] EXCEPT !.auth = TRUE])

\* MAIL leaves the recipients of an unfinished transaction in place
Mail(s) ==
  /\ Ready(s)
  /\ ses[s].submission => ses[s].auth
  /\ Become(s, [ses[s] EXCEPT !.from = TRUE])

\* A recipient must be local or the sender authenticated.  A local one must have an
\* enabled mailbox, too: the table is not modelled, so it may be refused at any time,
\* and a refusal changes nothing.
Accepts(s, r) == DomainOf[r] \in store \/ ses[s].auth

Rcpt(s, r) ==
  /\ Ready(s)
  /\ ses[s].from
  /\ Accepts(s, r)
  /\ Len(ses[s].rcpts) < MaxRecipients
  /\ Become(s, [ses[s] EXCEPT !.rcpts = Append(@, r), !.named = Append(@, r)])

Rset(s) == Ready(s) /\ Become(s, Reset(ses[s]))

\* 354; the mail gets a name of its own (the code draws it when it writes the file)
Data(s, m) ==
  /\ ses[s].pc = "command" /\ ses[s].link = "up"
  /\ ses[s].from /\ ses[s].rcpts # <<>>
  /\ m \notin begun
  /\ Become(s, [ses[s] EXCEPT !.pc = "data", !.mail = m])
  /\ begun' = begun \cup {m}
  /\ wanted' = [wanted EXCEPT ![m] = ses[s].named]
  /\ UNCHANGED <<database, store, written, confirmed, cut>>

\* The line with the dot, or the end of the connection: both end the data
EndData(s) ==
  /\ ses[s].pc = "data" /\ ses[s].link \in {"up", "eof"}
  /\ Become(s, [ses[s] EXCEPT !.pc = "save"])
  /\ cut' = IF ses[s].link = "eof" THEN cut \cup {ses[s].mail} ELSE cut
  /\ UNCHANGED <<database, store, written, begun, wanted, confirmed>>
----------------------------------------------------------------------------
(* handle_data *)

Fail(x) == [x EXCEPT !.pc = "answer", !.ok = FALSE]

\* Limits of size, the spam filter, and the file in the queue directory; the loop
\* over the recipients begins
Save(s) ==
  /\ ses[s].pc = "save"
  /\ \/ Become(s, [ses[s] EXCEPT !.pc = "queue", !.next = 1])
     \/ Become(s, Fail(ses[s]))
  /\ UNCHANGED <<database, store, written, account>>

\* The end of a round of a loop over the recipients
Step(x, end) ==
  IF x.next < Len(x.rcpts)
  THEN [x EXCEPT !.next = @ + 1]
  ELSE [x EXCEPT !.pc = end, !.next = IF end = "log" THEN 1 ELSE 0, !.ok = end = "answer"]

Key(x) == [mail |-> x.mail, at |-> x.next, to |-> x.rcpts[x.next]]

\* Mutant: an error of the INSERT is passed over
QueueRowIgnoring(s) ==
  /\ ses[s].pc = "queue"
  /\ LET x == ses[s]
         row == [mail |-> x.mail, at |-> x.next, to |-> x.rcpts[x.next],
                 outbound |-> DomainOf[x.rcpts[x.next]] \notin store]
     IN  rows' \in {rows, rows \cup {row}} /\ Become(s, Step(x, "log"))
  /\ UNCHANGED <<database, store, logs, account>>

\* INSERT INTO mail_queue; its direction is decided anew.  After the last one the
\* delivery engine is notified (DeliveryQueue!Notify).
QueueRow(s) ==
  /\ ses[s].pc = "queue"
  /\ LET x == ses[s]
         row == [mail |-> x.mail, at |-> x.next, to |-> x.rcpts[x.next],
                 outbound |-> DomainOf[x.rcpts[x.next]] \notin store]
     IN  \/ rows' = rows \cup {row} /\ Become(s, Step(x, "log"))
         \/ UNCHANGED rows /\ Become(s, Fail(x))
  /\ UNCHANGED <<database, store, logs, account>>

\* INSERT INTO mail_logs.  After the last one an authenticated sender gets a copy
\* (Mailbox!CopySent, Mailbox!CountSent), whose errors do not count.
LogRow(s) ==
  /\ ses[s].pc = "log"
  /\ LET x == ses[s]
     IN  \/ logs' = logs \cup {Key(x)} /\ Become(s, Step(x, "answer"))
         \/ UNCHANGED logs /\ Become(s, Fail(x))
  /\ UNCHANGED <<database, store, rows, account>>

\* Mutant: whatever became of the rows
AnswerAnyway(s) ==
  /\ ses[s].pc = "answer"
  /\ Become(s, [Reset(ses[s]) EXCEPT !.pc = "command"])
  /\ confirmed' = IF ses[s].link = "up" THEN confirmed \cup {ses[s].mail} ELSE confirmed
  /\ UNCHANGED <<database, store, written, begun, wanted, cut>>

\* 250 or 451.  Whether the client still sees it is up to the network.
Answer(s) ==
  /\ ses[s].pc = "answer"
  /\ Become(s, [Reset(ses[s]) EXCEPT !.pc = "command"])
  /\ confirmed' = IF ses[s].ok /\ ses[s].link = "up" THEN confirmed \cup {ses[s].mail}
                                                     ELSE confirmed
  /\ UNCHANGED <<database, store, written, begun, wanted, cut>>
----------------------------------------------------------------------------
(* Around the sessions *)

\* DomainStore::reload, every 15 seconds; when it fails the list stays.  It reads the
\* table and then takes the lock: a list that is outdated by then is no other case
\* than one that is outdated because the next reload is yet to come.
Reload ==
  /\ store' = domains
  /\ ses' = [s \in Sessions |->
              [ses[s] EXCEPT !.reloaded = @ \/ (ses[s].rcpts # <<>> /\ store # domains)]]
  /\ UNCHANGED <<database, written, account>>

\* The process stops and starts again: what was written stays, nobody is answered
Restart ==
  /\ \E s \in Sessions : ses[s].pc # "closed"
  /\ ses' = [s \in Sessions |-> Closed]
  /\ store' = domains
  /\ UNCHANGED <<database, written, account>>

\* The administrator enables or disables a domain
Administer ==
  /\ changes < MaxAdmin /\ changes' = changes + 1
  /\ \E d \in Domains : domains' = (domains \ {d}) \cup ({d} \ domains)
  /\ UNCHANGED <<store, ses, written, account>>

Work(s) ==
  \/ Connect(s) \/ Break(s) \/ Close(s)
  \/ Quit(s) \/ StartTls(s) \/ Auth(s) \/ Mail(s) \/ Rset(s)
  \/ (\E r \in Rcpts : Rcpt(s, r)) \/ (\E m \in Mails : Data(s, m))
  \/ EndData(s) \/ Save(s) \/ QueueRow(s) \/ LogRow(s) \/ Answer(s)

Next == (\E s \in Sessions : Work(s)) \/ Reload \/ Restart \/ Administer

Spec == Init /\ [][Next]_vars
=============================================================================
