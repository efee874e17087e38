--------------------------- MODULE DeliveryQueue ---------------------------
(***************************************************************************)
(* The delivery engine (crates/funmail-delivery/src/main.rs) working on    *)
(* the mail_queue and mail_logs tables, with the other writers of those    *)
(* tables: the process that accepts a message, the administrator's queue   *)
(* operations and the hourly clean-up.                                     *)
(*                                                                         *)
(* A mail is one row of mail_queue: one message for one recipient.  Every  *)
(* SQL statement is one step, because the code runs each in a transaction  *)
(* of its own; between two statements anything else may happen.            *)
(*                                                                         *)
(* Three loops run side by side in the engine.  "listen" wakes on a        *)
(* notification, "poll" every second, "retry" every 30 seconds; each calls *)
(* process_pending_mail, which waits for all the workers it spawned.       *)
(***************************************************************************)
EXTENDS Integers, FiniteSets

CONSTANTS
  Mails,            \* row ids (BIGSERIAL), so numbers in order of insertion
  MaxRetries,       \* delivery_config.max_retries
  SkipBounceRetry,  \* delivery_config.skip_bounce_retry
  WorkerCount,      \* --worker-count
  BatchLimit,       \* LIMIT of the pending scan (100 in the code)
  RetryLimit,       \* LIMIT of the deferred scan (50 in the code)
  Arrivals,         \* which of the outcomes of acceptance below are considered
  Stalled,          \* mails whose remote host may accept and then never answer
  ListenOutcomes,   \* what LISTEN at start-up may give: TRUE, or FALSE ("poll only")
  MaxCrashes,       \* bound: how often the engine stops
  MaxDbFaults,      \* bound: how many statements of the engine fail
  MaxOperator,      \* bound: how many times the administrator intervenes
  MaxDisturbances   \* bound: how many of these three together

ASSUME MailsAssumption      == Mails \subseteq Nat /\ IsFiniteSet(Mails)
ASSUME MaxRetriesAssumption == MaxRetries \in Nat
ASSUME SkipAssumption       == SkipBounceRetry \in BOOLEAN
ASSUME LimitsAssumption     == /\ WorkerCount \in Nat \ {0}
                               /\ BatchLimit \in Nat \ {0}
                               /\ RetryLimit \in Nat \ {0}
\* The status of the new row, and whether the message was found to be bad.  With
\* the action "mark" a bad message is delivered, with "quarantine" it is kept.
Arrival == {<<"pending", FALSE>>, <<"pending", TRUE>>, <<"quarantined", TRUE>>}

ASSUME ArrivalsAssumption   == Arrivals \subseteq Arrival
ASSUME StalledAssumption    == Stalled \subseteq Mails
ASSUME ListenAssumption     == ListenOutcomes \subseteq BOOLEAN
ASSUME BoundsAssumption     == /\ MaxCrashes \in Nat
                               /\ MaxDbFaults \in Nat
                               /\ MaxOperator \in Nat
                               /\ MaxDisturbances \in Nat

VARIABLES
  (* the database *)
  row,        \* mail_queue.status of each id, "none" when there is no row
  retries,    \* mail_queue.retry_count
  due,        \* the ids whose next_retry_at has passed
  log,        \* mail_logs.status of the message, "none" when there is no row
  (* the process that accepts the message *)
  ingest,     \* how far it is with each id
  flagged,    \* the ids it found to be spam or infected
  (* the engine *)
  up,         \* the process runs
  listening,  \* LISTEN mail_new succeeded at start-up
  notes,      \* notifications sent and not yet received
  pc,         \* where each loop is
  batch,      \* the ids each loop has selected
  work,       \* the worker of each loop for each id
  seen,       \* the retry_count that worker has read
  (* history *)
  copies,     \* times the message was handed to its recipient, up to CopyCap
  defers,     \* times it was deferred, up to MaxRetries
  gaveUp,     \* why the engine bounced it last
  withdrawn,  \* the ids the administrator deleted
  lostWrite,  \* the ids whose final status the database refused to record
  crashes, faults, operator   \* how much of each bound is used

dbVars     == <<row, retries, due, log>>
ingestVars == <<ingest, flagged>>
loopVars   == <<pc, batch>>
workVars   == <<work, seen>>
engineVars == <<up, listening, notes, pc, batch, work, seen>>
history    == <<copies, defers, gaveUp, withdrawn, lostWrite>>
bounds     == <<crashes, faults, operator>>
vars == <<row, retries, due, log, ingest, flagged, up, listening, notes, pc,
          batch, work, seen, copies, defers, gaveUp, withdrawn, lostWrite,
          crashes, faults, operator>>
----------------------------------------------------------------------------
(* Types *)

Loops == {"listen", "poll", "retry"}

RowStatus == {"none", "pending", "delivering", "deferred", "bounced",
              "delivered", "quarantined"}

LogStatus == {"none", "queued", "flagged", "delivered", "bounced"}

\* "spawned" waits for a permit; "sending" is inside deliver_local or
\* deliver_remote; "sent", "temp" and "perm" hold its result; "tempRead" and
\* "permRead" have read retry_count; the last two still owe the log its update.
Stages == {"off", "spawned", "sending", "sent", "temp", "perm", "tempRead",
           "permRead", "logDelivered", "logBounced"}

\* The worker holds the mail and has not yet written the outcome to its row.
Holding == {"spawned", "sending", "sent", "temp", "perm", "tempRead", "permRead"}

\* The worker holds one of the permits of its batch.
Running == Stages \ {"off", "spawned"}

CopyCap == 2   \* bound: "handed over more than once" is all that is told apart

Plus1(n, cap) == IF n < cap THEN n + 1 ELSE n

TypeOK ==
  /\ row \in [Mails -> RowStatus]
  /\ retries \in [Mails -> 0 .. MaxRetries]
  /\ due \subseteq Mails
  /\ log \in [Mails -> LogStatus]
  /\ ingest \in [Mails -> {"new", "inserted", "notified", "done"}]
  /\ flagged \subseteq Mails
  /\ up \in BOOLEAN
  /\ listening \in BOOLEAN
  /\ notes \in Nat
  /\ pc \in [Loops -> {"idle", "requeue", "scan", "mark", "join"}]
  /\ batch \in [Loops -> SUBSET Mails]
  /\ work \in [Loops -> [Mails -> Stages]]
  /\ seen \in [Loops -> [Mails -> 0 .. MaxRetries]]
  /\ copies \in [Mails -> 0 .. CopyCap]
  /\ defers \in [Mails -> 0 .. MaxRetries]
  /\ gaveUp \in [Mails -> {"no", "permanent", "exhausted"}]
  /\ withdrawn \subseteq Mails
  /\ lostWrite \subseteq Mails
  /\ crashes \in 0 .. MaxCrashes
  /\ faults \in 0 .. MaxDbFaults
  /\ operator \in 0 .. MaxOperator
----------------------------------------------------------------------------
(* Helpers *)

With(st) == {m \in Mails : row[m] = st}

\* ORDER BY created_at ASC LIMIT k (priority is 0 in every row the code inserts)
Oldest(S, k) == {m \in S : Cardinality({n \in S : n < m}) < k}

\* UPDATE mail_queue SET status = st WHERE id = ANY(S): no effect on a deleted row
SetRows(S, st) ==
  row' = [m \in Mails |-> IF m \in S /\ row[m] # "none" THEN st ELSE row[m]]

\* Mutant: without the condition on the status
SetLogAlways(m, st) ==
  log' = IF log[m] # "none" THEN [log EXCEPT ![m] = st] ELSE log

\* UPDATE mail_logs SET status = st WHERE ... AND status = 'queued'
SetLog(m, st) ==
  log' = IF log[m] = "queued" THEN [log EXCEPT ![m] = st] ELSE log

Move(l, m, from, to) ==
  /\ work[l][m] = from
  /\ work' = [work EXCEPT ![l][m] = to]

\* What the bounds allow has happened
Disturbed == crashes + faults + operator >= MaxDisturbances

\* A statement whose error the code discards: it is executed, or it is not
\* and one of the faults the model allows is used up.
Fault == faults < MaxDbFaults /\ ~Disturbed /\ faults' = faults + 1
NoFault == UNCHANGED faults
----------------------------------------------------------------------------
Init ==
  /\ row = [m \in Mails |-> "none"]
  /\ retries = [m \in Mails |-> 0]
  /\ due = {}
  /\ log = [m \in Mails |-> "none"]
  /\ ingest = [m \in Mails |-> "new"]
  /\ flagged = {}
  /\ up = TRUE
  /\ listening \in ListenOutcomes
  /\ notes = 0
  /\ pc = [l \in Loops |-> "idle"]
  /\ batch = [l \in Loops |-> {}]
  /\ work = [l \in Loops |-> [m \in Mails |-> "off"]]
  /\ seen = [l \in Loops |-> [m \in Mails |-> 0]]
  /\ copies = [m \in Mails |-> 0]
  /\ defers = [m \in Mails |-> 0]
  /\ gaveUp = [m \in Mails |-> "no"]
  /\ withdrawn = {}
  /\ lostWrite = {}
  /\ crashes = 0
  /\ faults = 0
  /\ operator = 0
----------------------------------------------------------------------------
(* Accepting a message: the queue row first, then the notification, then   *)
(* the log row (SmtpSession::handle_data, send_mail).                      *)

\* INSERT INTO mail_queue.  A quarantined message is not announced.
InsertRow(m, st, bad) ==
  /\ <<st, bad>> \in Arrivals
  /\ ingest[m] = "new"
  /\ row' = [row EXCEPT ![m] = st]
  /\ flagged' = IF bad THEN flagged \cup {m} ELSE flagged
  /\ ingest' = [ingest EXCEPT ![m] = IF st = "pending" THEN "inserted" ELSE "notified"]
  /\ UNCHANGED <<retries, due, log, engineVars, history, bounds>>

\* SELECT pg_notify('mail_new', '1'): heard only by an engine that listens
Notify(m) ==
  /\ ingest[m] = "inserted"
  /\ ingest' = [ingest EXCEPT ![m] = "notified"]
  /\ notes' = IF up /\ listening THEN notes + 1 ELSE notes
  /\ UNCHANGED <<dbVars, flagged, up, listening, loopVars, workVars, history, bounds>>

\* INSERT INTO mail_logs
InsertLog(m) ==
  /\ ingest[m] = "notified"
  /\ ingest' = [ingest EXCEPT ![m] = "done"]
  /\ log' = [log EXCEPT ![m] = IF m \in flagged THEN "flagged" ELSE "queued"]
  /\ UNCHANGED <<row, retries, due, flagged, engineVars, history, bounds>>

\* The accepting process stops, or its INSERT INTO mail_logs fails
AbandonLog(m) ==
  /\ ingest[m] \in {"inserted", "notified"}
  /\ ingest' = [ingest EXCEPT ![m] = "done"]
  /\ UNCHANGED <<dbVars, flagged, engineVars, history, bounds>>
----------------------------------------------------------------------------
(* process_pending_mail *)

\* The position from which loop l starts the scan
MayScan(l) ==
  \/ l = "poll"   /\ pc[l] = "idle"
  \/ l = "listen" /\ pc[l] = "idle" /\ listening /\ notes > 0
  \/ l = "retry"  /\ pc[l] = "scan"

\* SELECT ... WHERE status = 'pending' ... FOR UPDATE SKIP LOCKED, outside any
\* transaction: the row locks are gone when the statement returns.
Scan(l) ==
  /\ up
  /\ MayScan(l)
  /\ LET found == Oldest(With("pending"), BatchLimit)
     IN  /\ batch' = [batch EXCEPT ![l] = found]
         /\ pc' = [pc EXCEPT ![l] = IF found = {} THEN "idle" ELSE "mark"]
  /\ notes' = IF l = "listen" THEN notes - 1 ELSE notes
  /\ UNCHANGED <<dbVars, ingestVars, up, listening, workVars, history, bounds>>

\* UPDATE mail_queue SET status = 'delivering' WHERE id = ANY(ids), whatever
\* their status is by now; then a worker is spawned for each entry.
MarkDelivering(l) ==
  /\ pc[l] = "mark"
  /\ \/ SetRows(batch[l], "delivering") /\ NoFault
     \/ Fault /\ UNCHANGED row
  /\ work' = [work EXCEPT ![l] = [m \in Mails |->
                IF m \in batch[l] THEN "spawned" ELSE work[l][m]]]
  /\ pc' = [pc EXCEPT ![l] = "join"]
  /\ UNCHANGED <<retries, due, log, ingestVars, up, listening, notes, batch,
                 seen, history, crashes, operator>>

\* All handles have been awaited
Join(l) ==
  /\ pc[l] = "join"
  /\ \A m \in Mails : work[l][m] = "off"
  /\ pc' = [pc EXCEPT ![l] = "idle"]
  /\ batch' = [batch EXCEPT ![l] = {}]
  /\ UNCHANGED <<dbVars, ingestVars, up, listening, notes, workVars, history, bounds>>
----------------------------------------------------------------------------
(* deliver_one, in the worker of loop l for mail m *)

\* A permit of the semaphore made for this batch
Acquire(l, m) ==
  /\ Cardinality({n \in Mails : work[l][n] \in Running}) < WorkerCount
  /\ Move(l, m, "spawned", "sending")
  /\ UNCHANGED <<dbVars, ingestVars, up, listening, notes, loopVars, seen, history, bounds>>

\* deliver_local or deliver_remote returns.  Ok means the message was handed
\* over; an error may come before or after that (Mailbox and RemoteDelivery
\* show where).
Attempt(l, m, result, handed) ==
  /\ Move(l, m, "sending", result)
  /\ result = "sent" => handed
  /\ copies' = [copies EXCEPT ![m] = IF handed THEN Plus1(@, CopyCap) ELSE @]
  /\ UNCHANGED <<dbVars, ingestVars, up, listening, notes, loopVars, seen,
                 defers, gaveUp, withdrawn, lostWrite, bounds>>

\* Mutant: a temporary error is taken for a success
RecordDeliveredOnError(l, m) ==
  /\ Move(l, m, "sent", "logDelivered") \/ Move(l, m, "temp", "logDelivered")
  /\ SetRows({m}, "delivered")
  /\ UNCHANGED <<retries, due, log, ingestVars, up, listening, notes, loopVars, seen,
                 history, bounds>>

\* UPDATE mail_queue SET status = 'delivered' WHERE id = $1
RecordDelivered(l, m) ==
  /\ Move(l, m, "sent", "logDelivered")
  /\ \/ SetRows({m}, "delivered") /\ NoFault /\ UNCHANGED lostWrite
     \/ Fault /\ lostWrite' = lostWrite \cup {m} /\ UNCHANGED row
  /\ UNCHANGED <<retries, due, log, ingestVars, up, listening, notes, loopVars, seen,
                 copies, defers, gaveUp, withdrawn, crashes, operator>>

\* SELECT retry_count FROM mail_queue WHERE id = $1, .unwrap_or(0)
ReadRetries(l, m) ==
  /\ \/ Move(l, m, "temp", "tempRead")
     \/ Move(l, m, "perm", "permRead")
  /\ \/ seen' = [seen EXCEPT ![l][m] = IF row[m] = "none" THEN 0 ELSE retries[m]] /\ NoFault
     \/ seen' = [seen EXCEPT ![l][m] = 0] /\ Fault
  /\ UNCHANGED <<dbVars, ingestVars, up, listening, notes, loopVars, history,
                 crashes, operator>>

\* Mutant: given up one deferral too early
ExhaustedEarly(l, m) == work[l][m] \in {"tempRead", "permRead"} /\ seen[l][m] + 1 >= MaxRetries

Hopeless(l, m)  == work[l][m] = "permRead" /\ SkipBounceRetry
Exhausted(l, m) == work[l][m] \in {"tempRead", "permRead"} /\ seen[l][m] >= MaxRetries

\* Mutant: the log is not told of the bounce
BounceUnlogged(l, m) ==
  /\ Hopeless(l, m) \/ Exhausted(l, m)
  /\ work' = [work EXCEPT ![l][m] = "off"]
  /\ seen' = [seen EXCEPT ![l][m] = 0]
  /\ gaveUp' = [gaveUp EXCEPT ![m] = IF Hopeless(l, m) THEN "permanent" ELSE "exhausted"]
  /\ SetRows({m}, "bounced")
  /\ UNCHANGED <<retries, due, log, ingestVars, up, listening, notes, loopVars,
                 copies, defers, withdrawn, lostWrite, bounds>>

\* UPDATE mail_queue SET status = 'bounced' WHERE id = $1
Bounce(l, m) ==
  /\ Hopeless(l, m) \/ Exhausted(l, m)
  /\ work' = [work EXCEPT ![l][m] = "logBounced"]
  /\ seen' = [seen EXCEPT ![l][m] = 0]
  /\ gaveUp' = [gaveUp EXCEPT ![m] = IF Hopeless(l, m) THEN "permanent" ELSE "exhausted"]
  /\ \/ SetRows({m}, "bounced") /\ NoFault /\ UNCHANGED lostWrite
     \/ Fault /\ lostWrite' = lostWrite \cup {m} /\ UNCHANGED row
  /\ UNCHANGED <<retries, due, log, ingestVars, up, listening, notes, loopVars,
                 copies, defers, withdrawn, crashes, operator>>

\* Mutant: retry_count is not written
DeferUncounted(l, m) ==
  /\ work[l][m] \in {"tempRead", "permRead"}
  /\ ~(Hopeless(l, m) \/ Exhausted(l, m))
  /\ work' = [work EXCEPT ![l][m] = "off"]
  /\ seen' = [seen EXCEPT ![l][m] = 0]
  /\ SetRows({m}, "deferred")
  /\ due' = due \ {m}
  /\ UNCHANGED <<retries, log, ingestVars, up, listening, notes, loopVars, history, bounds>>

\* UPDATE mail_queue SET status = 'deferred', retry_count = $2, next_retry_at = $3
Defer(l, m) ==
  /\ work[l][m] \in {"tempRead", "permRead"}
  /\ ~(Hopeless(l, m) \/ Exhausted(l, m))
  /\ work' = [work EXCEPT ![l][m] = "off"]
  /\ seen' = [seen EXCEPT ![l][m] = 0]
  /\ \/ /\ SetRows({m}, "deferred")
        /\ retries' = IF row[m] = "none" THEN retries
                      ELSE [retries EXCEPT ![m] = seen[l][m] + 1]
        /\ due' = due \ {m}
        /\ defers' = [defers EXCEPT ![m] = Plus1(@, MaxRetries)]
        /\ NoFault /\ UNCHANGED lostWrite
     \/ /\ Fault
        /\ lostWrite' = lostWrite \cup {m}
        /\ UNCHANGED <<row, retries, due, defers>>
  /\ UNCHANGED <<log, ingestVars, up, listening, notes, loopVars, copies, gaveUp,
                 withdrawn, crashes, operator>>

\* UPDATE mail_logs SET status = ... WHERE data_path, to_addr AND status = 'queued'
RecordLog(l, m) ==
  /\ work[l][m] \in {"logDelivered", "logBounced"}
  /\ work' = [work EXCEPT ![l][m] = "off"]
  /\ \/ SetLog(m, IF work[l][m] = "logDelivered" THEN "delivered" ELSE "bounced") /\ NoFault
     \/ Fault /\ UNCHANGED log
  /\ UNCHANGED <<row, retries, due, ingestVars, up, listening, notes, loopVars, seen,
                 history, crashes, operator>>
----------------------------------------------------------------------------
(* process_retry_mail *)

DueRows == With("deferred") \cap due

\* SELECT ... WHERE status = 'deferred' AND next_retry_at <= NOW() LIMIT 50
ScanDue(S) ==
  /\ up
  /\ pc["retry"] = "idle"
  /\ S \subseteq DueRows /\ S # {}
  /\ S = DueRows \/ Cardinality(S) = RetryLimit
  /\ Cardinality(S) <= RetryLimit
  /\ batch' = [batch EXCEPT !["retry"] = S]
  /\ pc' = [pc EXCEPT !["retry"] = "requeue"]
  /\ UNCHANGED <<dbVars, ingestVars, up, listening, notes, workVars, history, bounds>>

\* UPDATE mail_queue SET status = 'pending' WHERE id = $1, once per selected id
Requeue(m) ==
  /\ pc["retry"] = "requeue"
  /\ m \in batch["retry"]
  /\ \/ SetRows({m}, "pending") /\ NoFault
     \/ Fault /\ UNCHANGED row
  /\ batch' = [batch EXCEPT !["retry"] = @ \ {m}]
  /\ pc' = [pc EXCEPT !["retry"] = IF batch["retry"] = {m} THEN "scan" ELSE "requeue"]
  /\ UNCHANGED <<retries, due, log, ingestVars, up, listening, notes, workVars,
                 history, crashes, operator>>

\* next_retry_at passes
Elapse(m) ==
  /\ row[m] = "deferred" /\ m \notin due
  /\ due' = due \cup {m}
  /\ UNCHANGED <<row, retries, log, ingestVars, engineVars, history, bounds>>
----------------------------------------------------------------------------
(* The administrator and the hourly clean-up *)

UseOperator == operator < MaxOperator /\ ~Disturbed /\ operator' = operator + 1

\* DELETE FROM mail_queue WHERE id = $1
DeleteEntry(m) ==
  /\ row[m] # "none"
  /\ row' = [row EXCEPT ![m] = "none"]
  /\ withdrawn' = withdrawn \cup {m}
  /\ UseOperator
  /\ UNCHANGED <<retries, due, log, ingestVars, engineVars, copies, defers, gaveUp,
                 lostWrite, crashes, faults>>

\* UPDATE mail_queue SET status = 'pending', retry_count = 0, next_retry_at = NULL
RetryEntry(m) ==
  /\ row[m] # "none"
  /\ row' = [row EXCEPT ![m] = "pending"]
  /\ retries' = [retries EXCEPT ![m] = 0]
  /\ due' = due \ {m}
  /\ UseOperator
  /\ UNCHANGED <<log, ingestVars, engineVars, history, crashes, faults>>

\* Mutant: the clean-up also takes deferred rows
ExpireDeferred(m) ==
  /\ row[m] \in {"delivered", "bounced", "deferred"}
  /\ row' = [row EXCEPT ![m] = "none"]
  /\ UNCHANGED <<retries, due, log, ingestVars, engineVars, history, bounds>>

\* DELETE FROM mail_queue WHERE status IN ('delivered', 'bounced') AND older than 7 days
Expire(m) ==
  /\ row[m] \in {"delivered", "bounced"}
  /\ row' = [row EXCEPT ![m] = "none"]
  /\ UNCHANGED <<retries, due, log, ingestVars, engineVars, history, bounds>>
----------------------------------------------------------------------------
(* The engine process *)

\* It is killed, or told to stop: nothing is awaited
Crash ==
  /\ up
  /\ crashes < MaxCrashes /\ ~Disturbed
  /\ crashes' = crashes + 1
  /\ up' = FALSE
  /\ listening' = FALSE
  /\ notes' = 0
  /\ pc' = [l \in Loops |-> "idle"]
  /\ batch' = [l \in Loops |-> {}]
  /\ work' = [l \in Loops |-> [m \in Mails |-> "off"]]
  /\ seen' = [l \in Loops |-> [m \in Mails |-> 0]]
  /\ UNCHANGED <<dbVars, ingestVars, history, faults, operator>>

\* Mutant: no recovery of the rows left in 'delivering'
StartUnrecovered ==
  /\ ~up
  /\ up' = TRUE
  /\ listening' \in ListenOutcomes
  /\ UNCHANGED <<dbVars, ingestVars, notes, loopVars, workVars, history, bounds>>

\* main: rows left in 'delivering' go back to 'pending' before the loops start
Start ==
  /\ ~up
  /\ up' = TRUE
  /\ listening' \in ListenOutcomes
  /\ \/ SetRows(With("delivering"), "pending") /\ NoFault /\ lostWrite' = {}
     \/ Fault /\ lostWrite' = With("delivering") /\ UNCHANGED row
  /\ UNCHANGED <<retries, due, log, ingestVars, notes, loopVars, workVars,
                 copies, defers, gaveUp, withdrawn, crashes, operator>>

\* PgListener::recv fails: what was sent meanwhile is not delivered
LoseNotes ==
  /\ up /\ notes > 0
  /\ notes' = 0
  /\ UNCHANGED <<dbVars, ingestVars, up, listening, loopVars, workVars, history, bounds>>
----------------------------------------------------------------------------
Accept(m) ==
  \/ \E st \in {"pending", "quarantined"}, bad \in BOOLEAN : InsertRow(m, st, bad)
  \/ Notify(m)
  \/ InsertLog(m)
  \/ AbandonLog(m)

Try(l, m) ==
  \E result \in {"sent", "temp", "perm"}, handed \in BOOLEAN : Attempt(l, m, result, handed)

\* The statements that follow the delivery
Record(l, m) ==
  \/ RecordDelivered(l, m)
  \/ ReadRetries(l, m)
  \/ Bounce(l, m)
  \/ Defer(l, m)
  \/ RecordLog(l, m)

Worker(l, m) == Acquire(l, m) \/ Try(l, m) \/ Record(l, m)

Loop(l) ==
  \/ Scan(l)
  \/ MarkDelivering(l)
  \/ Join(l)

RetryScan ==
  \/ \E S \in SUBSET Mails : ScanDue(S)
  \/ \E m \in Mails : Requeue(m)

Admin(m) == DeleteEntry(m) \/ RetryEntry(m)

Next ==
  \/ \E m \in Mails : Accept(m) \/ Elapse(m) \/ Admin(m) \/ Expire(m)
  \/ \E l \in Loops : Loop(l)
  \/ \E l \in Loops, m \in Mails : Worker(l, m)
  \/ RetryScan
  \/ Crash
  \/ Start
  \/ LoseNotes

Spec == Init /\ [][Next]_vars

(* Tokio runs every ready task, a supervisor restarts the engine, and time *)
(* passes.  A delivery attempt returns unless its remote host stalls: the  *)
(* code puts a timeout on the connection and none on the answers.  Nothing *)
(* is assumed of the administrator, the clean-up, or new mail.             *)
WorkerGoesOn(l, m) ==
  /\ WF_vars(Acquire(l, m))
  /\ m \notin Stalled => WF_vars(Try(l, m))
  /\ WF_vars(Record(l, m))

Fairness ==
  /\ WF_vars(Start)
  /\ WF_vars(RetryScan)
  /\ \A m \in Mails : WF_vars(Elapse(m)) /\ WF_vars(Notify(m) \/ InsertLog(m) \/ AbandonLog(m))
  /\ \A l \in Loops : WF_vars(Loop(l))
  /\ \A l \in Loops, m \in Mails : WorkerGoesOn(l, m)

FairSpec == Spec /\ Fairness
============================================================================
