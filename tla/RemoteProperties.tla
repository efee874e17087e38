-------------------------- MODULE RemoteProperties --------------------------
(***************************************************************************)
(* What deliver_remote guarantees, stated over RemoteDelivery.             *)
(***************************************************************************)
EXTENDS RemoteDelivery

Attempt == INSTANCE DeliveryAttempt WITH handed <- took # {}

\* Ok only after some server took the message: deliver_remote keeps the contract
\* that deliver_one's queue update relies on.
KeepsContract == Attempt!Spec

\* A second server takes the message only after the dialogue with the first one
\* ended in an error although that server had taken it: its answer was lost, or
\* had a form the caller does not recognise, or QUIT could not be sent after it.
TakenTwiceOnlyAfterError == took \ unsettled \subseteq {Target}

\* No answer is mistaken for another one: a command counts as accepted only on a
\* line that the server sent for it, also with a greeting of several lines, of
\* which only the first is read as the greeting.
AnswersMatch == ~strayed

\* An error is returned only after every address of the host at hand was tried,
\* and every host was reached: nothing ends the list early.
ListExhausted ==
  result \in {"temp", "perm"} /\ tried # {} =>
    /\ host = NumHosts /\ addr = addrs
    /\ \A t \in tried : \A a \in 1 .. t[2] : <<t[1], a>> \in tried

\* A permanent verdict, on which the mail bounces without another attempt, means that the last
\* server it was tried at refused it: with a 5xx, with "450 mailbox unavailable", which the search
\* for words takes for one, or that there is no server.  A refusal before, by another server, does
\* not suffice, nor does a connection that breaks.
PermanentHasReason == result = "perm" => Target \in refused

\* The call returns, as long as the other end comes to the end of its replies or closes.
Returns == <>(result # "none")

\* How much of the call is left, the most important first: it has yet to return; hosts after this one;
\* whether this one is to be resolved; addresses after this one; commands; whether the connection is
\* whole; whether an answer is due; whether one is to be ended; whether the message can still be taken;
\* lines to read.
CommandsLeft(c) ==
  CASE c = "connect" -> 9 [] c = "greet" -> 8 [] c = "ehlo" -> 7 [] c = "starttls" -> 6
    [] c = "tls" -> 5 [] c = "ehlo2" -> 4 [] c = "mail" -> 3 [] c = "rcpt" -> 2 [] c = "data" -> 1
    [] OTHER -> 0

Flag(p) == IF p THEN 1 ELSE 0

Ahead ==
  <<Flag(result = "none"), NumHosts - host, Flag(pc = "resolve"), addrs - addr, CommandsLeft(pc),
    Flag(link = "open"), Flag(asked # "none"), Flag(saying # "none"), Flag(Target \notin took), Len(wire)>>

\* x comes before y in the order of the first number in which they differ
Before(x, y) ==
  \E i \in 1 .. 10 : x[i] < y[i] /\ \A j \in 1 .. i - 1 : x[j] = y[j]

\* One line more of a reply that is not at its end, and nothing else
AnotherLine ==
  /\ saying # "none" /\ saying' = saying
  /\ Len(wire') = Len(wire) + 1
  /\ \A i \in 1 .. 9 : Ahead'[i] = Ahead[i]

\* The call and its peers never go round in circles: each step, of the caller, a server or the network,
\* leaves less ahead, but for one: a server sends another line of a reply that has begun and does not end
\* it.  So a call takes infinitely many steps only when from some time on nothing happens but that one
\* server sends line after line of one reply and the caller reads them: the loops over hosts, addresses
\* and commands end by themselves, whatever the servers do.
GoesForward == [][Before(Ahead', Ahead) \/ AnotherLine]_vars

\* A hypothesis of the proof about liveness, ENABLED being out of tlapm's reach: until the call
\* returns somebody can act.  As long as a connection is open, it can break; and without one
\* the branches of the caller leave no gap.
CallPossible ==
  /\ result = "none" /\ link # "open" => ENABLED <<Caller>>_vars
  /\ link = "open" => ENABLED <<ServerEnds>>_vars

\* The call never stands still: sooner or later there is less ahead than before.
GetsOn == \A v \in [1 .. 10 -> Nat] : (result = "none" /\ Ahead = v) ~> Before(Ahead, v)
=============================================================================
