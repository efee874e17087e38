--------------------------- MODULE MailSubmission ---------------------------
(***************************************************************************)
(* What a session that accepts mail promises the two that read its tables: *)
(* the client, and the delivery engine.  A mail is written down recipient  *)
(* by recipient in the order of their naming, the queue before the log; it *)
(* may stop anywhere, but then it is never confirmed.                      *)
(***************************************************************************)
EXTENDS Integers, Sequences

CONSTANTS Mails, Rcpts

VARIABLES
  wanted,     \* the recipients named for each mail, empty before
  queued,     \* entries of the queue
  logged,     \* entries of the log
  confirmed   \* mails the client knows to be accepted

vars == <<wanted, queued, logged, confirmed>>

\* What an entry says is whose it is: the mail, and the recipient with his place in the list.
\* It may say more than that.
Due(e) == e.at \in 1 .. Len(wanted[e.mail]) /\ e.to = wanted[e.mail][e.at]

\* There is an entry of m for each of the first n places, and for no other
UpTo(table, m, n) == {e.at : e \in {f \in table : f.mail = m}} = 1 .. n

Init ==
  /\ wanted = [m \in Mails |-> <<>>]
  /\ queued = {} /\ logged = {} /\ confirmed = {}

\* The recipients of a mail are named once, all of them
Name(m) ==
  /\ wanted[m] = <<>>
  /\ wanted'[m] # <<>>
  /\ wanted' \in [Mails -> Seq(Rcpts)]
  /\ \A n \in Mails \ {m} : wanted'[n] = wanted[n]
  /\ UNCHANGED <<queued, logged, confirmed>>

\* The next place in the queue
Queue(e) ==
  /\ Due(e)
  /\ UpTo(queued, e.mail, e.at - 1) /\ UpTo(logged, e.mail, 0)
  /\ queued' = queued \cup {e}
  /\ UNCHANGED <<wanted, logged, confirmed>>

\* The next place in the log, when the queue is complete
Log(e) ==
  /\ Due(e)
  /\ UpTo(logged, e.mail, e.at - 1) /\ UpTo(queued, e.mail, Len(wanted[e.mail]))
  /\ logged' = logged \cup {e}
  /\ UNCHANGED <<wanted, queued, confirmed>>

\* The answer, when both are
Confirm(m) ==
  /\ wanted[m] # <<>>
  /\ UpTo(queued, m, Len(wanted[m])) /\ UpTo(logged, m, Len(wanted[m]))
  /\ confirmed' = confirmed \cup {m}
  /\ UNCHANGED <<wanted, queued, logged>>

Next ==
  \/ \E m \in Mails : Name(m)
  \/ \E e \in queued' \ queued : Queue(e)
  \/ \E e \in logged' \ logged : Log(e)
  \/ \E m \in confirmed' \ confirmed : Confirm(m)

Spec == Init /\ [][Next]_vars
=============================================================================
