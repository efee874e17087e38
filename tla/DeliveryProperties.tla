------------------------- MODULE DeliveryProperties -------------------------
(***************************************************************************)
(* What the delivery engine must guarantee, stated over DeliveryQueue.     *)
(***************************************************************************)
EXTENDS DeliveryQueue

\* A row in 'delivering' is in the hands of a worker that has yet to write the
\* outcome: nothing else ever moves it on, so without an owner it would stay
\* there for ever.  Only a stopped engine or a refused write leaves one behind
\* (process_pending_mail, deliver_one, and the recovery in main).
OwnedWhileDelivering ==
  \A m \in Mails :
    row[m] = "delivering" =>
      \/ ~up
      \/ m \in lostWrite
      \/ \E l \in Loops : work[l][m] \in Holding

\* No false receipt: whatever the loops do to each other, a row or a log entry
\* that says 'delivered' stands for a message really handed over, and one that
\* says 'bounced' for a verdict some worker reached (deliver_one).
HonestOutcome ==
  \A m \in Mails :
    /\ "delivered" \in {row[m], log[m]} => copies[m] > 0
    /\ "bounced" \in {row[m], log[m]} => gaveUp[m] # "no"

\* Why: a worker that is about to record an outcome has it in hand
OutcomeInHand ==
  \A l \in Loops, m \in Mails :
    /\ work[l][m] \in {"sent", "logDelivered"} => copies[m] > 0
    /\ work[l][m] = "logBounced" => gaveUp[m] # "no"

\* The full budget of retries: a message is never given up as exhausted before
\* it has been deferred max_retries times, though loops that hold the same row
\* overwrite each other's retry_count (deliver_one).
FullBudget ==
  \A m \in Mails : gaveUp[m] = "exhausted" => defers[m] = MaxRetries

\* Why: retry_count, and every copy of it a worker holds, counts deferrals that
\* really happened, however stale it is
CountsDeferrals ==
  \A m \in Mails :
    /\ retries[m] <= defers[m]
    /\ \A l \in Loops : seen[l][m] <= defers[m]

\* Once the log has an outcome it keeps it: a duplicate delivery, a retry by the
\* administrator or a late bounce does not rewrite history (the status = 'queued'
\* condition of the three updates of mail_logs).
LogWrittenOnce ==
  [][\A m \in Mails : log[m] \notin {"none", "queued"} => log'[m] = log[m]]_vars

\* Who is responsible for a message: the abstract view of its row
CustodyOf(m) ==
  IF ingest[m] = "new" THEN "new"
  ELSE IF row[m] = "none" THEN "released"
  ELSE IF row[m] = "quarantined" THEN "quarantined"
  ELSE "accepted"

Custody == INSTANCE MailCustody WITH
  custody   <- [m \in Mails |-> CustodyOf(m)],
  handed    <- {m \in Mails : copies[m] > 0},
  refused   <- {m \in Mails : gaveUp[m] # "no"},
  withdrawn <- withdrawn

\* Why: the loops never hold a message that is quarantined or not accepted yet
OnlyAcceptedHeld ==
  \A m \in Mails :
    /\ ingest[m] = "new" => row[m] = "none"
    /\ ingest[m] = "new" \/ row[m] = "quarantined" =>
         \A l \in Loops : m \notin batch[l] /\ work[l][m] = "off"

\* A message is let go only after it was handed over, refused or withdrawn, and a
\* quarantined one is handed over only after the administrator released it: every
\* step of loops, administrator, clean-up and crashes keeps the contract.
KeepsCustody == Custody!Spec

Settled(m) == row[m] \in {"none", "delivered", "bounced", "quarantined"}

\* Every message ends up settled for good: neither the duplicates of the three
\* loops, nor a stop of the engine, nor an operator's retry make it circulate for ever.
EventuallySettled ==
  \A m \in Mails : <>[](ingest[m] = "new" \/ Settled(m))

\* A log entry that exists before its message is settled gets the outcome, unless
\* the engine stops meanwhile.  (One that is inserted after that never gets it.)
LogCatchesUp ==
  \A m \in Mails :
    (log[m] = "queued" /\ row[m] \in {"pending", "deferred"})
      ~> (log[m] # "queued" \/ m \in withdrawn \/ ~up)

Answered(l, m) == work[l][m] \in Running \ {"sending"}

\* A worker of deliver_one that has a permit comes to its end, with the row and the log written as far
\* as the database and a stop of the engine let it, unless the other server never answers.
WorkersFinish ==
  \A l \in Loops, m \in Mails :
    (work[l][m] \in Running /\ (m \in Stalled => Answered(l, m))) ~> work[l][m] = "off"

\* A hypothesis of the proofs about liveness, ENABLED being out of tlapm's reach: a worker has a next
\* statement, and a stopped engine can start.  The guards of Try, Record and Start leave no gap, so it
\* holds by their shape.
EnginePossible ==
  /\ \A l \in Loops, m \in Mails :
       /\ work[l][m] = "sending" => ENABLED <<Try(l, m)>>_vars
       /\ Answered(l, m) => ENABLED <<Record(l, m)>>_vars
  /\ ~up => ENABLED <<Start>>_vars

\* The delivery has begun, and its outcome is not in the row yet
Trying == Holding \ {"spawned"}

\* A delivery that was begun does not leave its row as it was: the outcome arrives there, unless the
\* other server never answers, the engine stops or the statement is refused.  Whatever other loops and
\* the administrator do to the row meanwhile, at that moment it is neither pending nor in delivery.
OutcomesArrive ==
  \A l \in Loops, m \in Mails :
    (work[l][m] \in Trying /\ (m \in Stalled => Answered(l, m)))
      ~> (row[m] \notin {"pending", "delivering"} \/ m \in lostWrite \/ ~up)

\* And then the log: the report of the worker arrives there too, unless a statement is refused (it
\* need not be this one) or the engine stops.
OutcomesLogged ==
  \A l \in Loops, m \in Mails : \A f \in 0 .. MaxDbFaults :
    (work[l][m] \in {"logDelivered", "logBounced"} /\ faults = f)
      ~> (log[m] # "queued" \/ faults > f \/ ~up)

\* A message that a stop has caught in delivery is taken up again by the recovery in main, unless that
\* statement is refused.
RecoveryComes ==
  \A m \in Mails : (~up /\ row[m] = "delivering") ~> (row[m] # "delivering" \/ m \in lostWrite)

\* What the contract comes to: there is no row any more for a message that was accepted only when
\* it was handed over, given up with a verdict, or withdrawn by the administrator.
NothingLost ==
  \A m \in Mails : ingest[m] # "new" /\ row[m] = "none" =>
    copies[m] > 0 \/ gaveUp[m] # "no" \/ m \in withdrawn

\* The message is decided or gone, and no worker is about to tell the log
Lagging(m) ==
  /\ log[m] = "queued" /\ row[m] \in {"none", "delivered", "bounced"}
  /\ ~\E l \in Loops : work[l][m] \in {"logDelivered", "logBounced"}

\* The log falls behind for four reasons only: its entry comes after the decision, the administrator
\* deletes the message, the engine stops, or the database refuses a statement.  Nothing that the three
\* loops do to each other is a reason.
LogLagsForReason ==
  [][\A m \in Mails : ~Lagging(m) /\ Lagging(m)' =>
       log[m] # "queued" \/ m \in withdrawn' \/ ~up' \/ faults' # faults]_vars

----------------------------------------------------------------------------
(* Claims of comments in the code that its behaviour does not keep *)

\* main.rs:217-218: the scan takes the rows atomically, so that LISTEN and the
\* poll do not deliver a message twice.
NoDuplicateDelivery == \A m \in Mails : copies[m] <= 1

\* main.rs:243: a slow message does not block the others.
NotBlockedBySlowMail ==
  \A m \in Mails \ Stalled : row[m] = "pending" ~> row[m] # "pending"
=============================================================================
