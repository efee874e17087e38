--------------------------- MODULE DeliveryProofs ---------------------------
(***************************************************************************)
(* Proofs, for any set of mails and any bounds, of the safety properties   *)
(* of DeliveryProperties.                                                  *)
(***************************************************************************)
EXTENDS DeliveryProperties, TLAPS

\* No step of any actor takes a variable out of its type
LEMMA TypeStep == TypeOK /\ [Next]_vars => TypeOK'
<1> USE MaxRetriesAssumption, BoundsAssumption, ListenAssumption DEF Loops, RowStatus,
        LogStatus, Stages, CopyCap
<1> SUFFICES ASSUME TypeOK, [Next]_vars PROVE TypeOK'
  OBVIOUS
<1> USE DEF TypeOK
<1>1. ASSUME NEW m \in Mails, Accept(m) PROVE TypeOK'
  <2> USE DEF dbVars, loopVars, workVars, engineVars, history, bounds
  <2>1. ASSUME NEW st \in {"pending", "quarantined"}, NEW bad \in BOOLEAN, InsertRow(m, st, bad)
        PROVE  TypeOK'
    BY <2>1 DEF InsertRow
  <2>2. CASE Notify(m)
    BY <2>2 DEF Notify
  <2>3. CASE InsertLog(m)
    BY <2>3 DEF InsertLog
  <2>4. CASE AbandonLog(m)
    BY <2>4 DEF AbandonLog
  <2>5. QED
    BY <1>1, <2>1, <2>2, <2>3, <2>4 DEF Accept
<1>2. ASSUME NEW m \in Mails, Elapse(m) \/ Admin(m) \/ Expire(m) PROVE TypeOK'
  BY <1>2 DEF Elapse, Admin, DeleteEntry, RetryEntry, UseOperator, Expire, ingestVars,
     engineVars, history, bounds
<1>3. ASSUME NEW l \in Loops, Loop(l) PROVE TypeOK'
  <2>1. CASE Scan(l)
    <3>1. notes' \in Nat
      BY <2>1 DEF Scan, MayScan
    <3>2. QED
      BY <2>1, <3>1 DEF Scan, MayScan, Oldest, With, dbVars, ingestVars, workVars,
         history, bounds
  <2>2. CASE MarkDelivering(l)
    BY <2>2 DEF MarkDelivering, SetRows, NoFault, Fault, ingestVars, history
  <2>3. CASE Join(l)
    BY <2>3 DEF Join, dbVars, ingestVars, workVars, history, bounds
  <2>4. QED
    BY <1>3, <2>1, <2>2, <2>3 DEF Loop
<1>4. ASSUME NEW l \in Loops, NEW m \in Mails, Worker(l, m) PROVE TypeOK'
  <2> USE DEF Move, SetRows, SetLog, NoFault, Fault, dbVars, ingestVars, loopVars, history, bounds
  <2>1. CASE Acquire(l, m)
    BY <2>1 DEF Acquire
  <2>2. CASE Try(l, m)
    BY <2>2 DEF Try, Attempt, Plus1
  <2>3. CASE RecordDelivered(l, m)
    BY <2>3 DEF RecordDelivered
  <2>4. CASE ReadRetries(l, m)
    <3>1. seen' \in [Loops -> [Mails -> 0 .. MaxRetries]]
      <4>1. (IF row[m] = "none" THEN 0 ELSE retries[m]) \in 0 .. MaxRetries /\ 0 \in 0 .. MaxRetries
        OBVIOUS
      <4>2. QED
        BY <2>4, <4>1 DEF ReadRetries
    <3>2. work' \in [Loops -> [Mails -> Stages]]
      BY <2>4 DEF ReadRetries
    <3>3. QED
      BY <2>4, <3>1, <3>2 DEF ReadRetries
  <2>5. CASE Bounce(l, m)
    BY <2>5 DEF Bounce
  <2>6. CASE Defer(l, m)
    BY <2>6 DEF Defer, Exhausted, Hopeless, Plus1
  <2>7. CASE RecordLog(l, m)
    BY <2>7 DEF RecordLog
  <2>8. QED
    BY <1>4, <2>1, <2>2, <2>3, <2>4, <2>5, <2>6, <2>7 DEF Worker, Record
<1>5. ASSUME RetryScan PROVE TypeOK'
  BY <1>5 DEF RetryScan, ScanDue, Requeue, SetRows, NoFault, Fault, dbVars, ingestVars,
     workVars, history, bounds
<1>6. ASSUME Crash \/ Start \/ LoseNotes PROVE TypeOK'
  <2> USE DEF dbVars, ingestVars, loopVars, workVars, history, bounds
  <2>1. CASE Crash
    <3>1. crashes' \in 0 .. MaxCrashes
      BY <2>1 DEF Crash
    <3>2. work' \in [Loops -> [Mails -> Stages]] /\ seen' \in [Loops -> [Mails -> 0 .. MaxRetries]]
      BY <2>1 DEF Crash
    <3>3. QED
      BY <2>1, <3>1, <3>2 DEF Crash
  <2>2. CASE Start
    BY <2>2 DEF Start, SetRows, With, NoFault, Fault
  <2>3. CASE LoseNotes
    BY <2>3 DEF LoseNotes
  <2>4. QED
    BY <1>6, <2>1, <2>2, <2>3
<1>7. CASE UNCHANGED vars
  BY <1>7 DEF vars
<1>8. QED
  BY <1>1, <1>2, <1>3, <1>4, <1>5, <1>6, <1>7 DEF Next

\* The variables keep their types under every interleaving of the loops; in
\* particular retry_count never passes max_retries, because a worker writes
\* what it read plus one only when what it read is below the maximum (deliver_one).
THEOREM TypeCorrect == Spec => []TypeOK
<1>1. Init => TypeOK
  BY MaxRetriesAssumption, BoundsAssumption, ListenAssumption
     DEF Init, TypeOK, Loops, RowStatus, LogStatus, Stages, CopyCap
<1>2. QED
  BY <1>1, TypeStep, PTL DEF Spec
----------------------------------------------------------------------------
\* Changing one entry of a table leaves the others alone
LEMMA OneEntry ==
  ASSUME NEW L, NEW M, NEW S, NEW f \in [L -> [M -> S]], NEW l \in L, NEW m \in M, NEW v
  PROVE  \A k \in L, n \in M :
           [f EXCEPT ![l][m] = v][k][n] = IF k = l /\ n = m THEN v ELSE f[k][n]
OBVIOUS

\* A worker is at one stage and a step of it moves that worker only: the stages
\* follow each other as in deliver_one.
LEMMA WorkerStages ==
  ASSUME TypeOK, NEW l \in Loops, NEW m \in Mails, Worker(l, m)
  PROVE  /\ \A k \in Loops, n \in Mails : k # l \/ n # m => work'[k][n] = work[k][n]
         /\ Acquire(l, m) => work[l][m] = "spawned" /\ work'[l][m] = "sending"
         /\ Try(l, m) => work[l][m] = "sending" /\ work'[l][m] \in {"sent", "temp", "perm"}
         /\ RecordDelivered(l, m) => work[l][m] = "sent" /\ work'[l][m] = "logDelivered"
         /\ ReadRetries(l, m) => /\ work[l][m] \in {"temp", "perm"}
                                 /\ work'[l][m] \in {"tempRead", "permRead"}
         /\ Bounce(l, m) => /\ work[l][m] \in {"tempRead", "permRead"}
                            /\ work'[l][m] = "logBounced"
         /\ Defer(l, m) => work[l][m] \in {"tempRead", "permRead"} /\ work'[l][m] = "off"
         /\ RecordLog(l, m) => /\ work[l][m] \in {"logDelivered", "logBounced"}
                               /\ work'[l][m] = "off"
<1> DEFINE To(v) == work' = [work EXCEPT ![l][m] = v]
<1>1. \A v : To(v) => \A k \in Loops, n \in Mails :
                        work'[k][n] = IF k = l /\ n = m THEN v ELSE work[k][n]
  <2>1. work \in [Loops -> [Mails -> Stages]]
    BY DEF TypeOK
  <2>2. QED
    BY <2>1, OneEntry
<1> HIDE DEF To
<1>2. Acquire(l, m) => work[l][m] = "spawned" /\ To("sending")
  BY DEF Acquire, Move, To
<1>3. Try(l, m) => work[l][m] = "sending" /\ \E v \in {"sent", "temp", "perm"} : To(v)
  BY DEF Try, Attempt, Move, To
<1>4. RecordDelivered(l, m) => work[l][m] = "sent" /\ To("logDelivered")
  BY DEF RecordDelivered, Move, To
<1>5. ReadRetries(l, m) => /\ work[l][m] \in {"temp", "perm"}
                          /\ \E v \in {"tempRead", "permRead"} : To(v)
  BY DEF ReadRetries, Move, To
<1>6. Bounce(l, m) => work[l][m] \in {"tempRead", "permRead"} /\ To("logBounced")
  BY DEF Bounce, Hopeless, Exhausted, To
<1>7. Defer(l, m) => work[l][m] \in {"tempRead", "permRead"} /\ To("off")
  BY DEF Defer, To
<1>8. RecordLog(l, m) => work[l][m] \in {"logDelivered", "logBounced"} /\ To("off")
  BY DEF RecordLog, To
<1>9. \E v : To(v)
  BY <1>2, <1>3, <1>4, <1>5, <1>6, <1>7, <1>8 DEF Worker, Record
<1>10. QED
  BY <1>1, <1>2, <1>3, <1>4, <1>5, <1>6, <1>7, <1>8, <1>9

\* The three statements that write an outcome to the row either set it (unless
\* the row is gone) or are refused, and then the refusal is on record.
LEMMA Recording ==
  ASSUME TypeOK, NEW l \in Loops, NEW m \in Mails,
         RecordDelivered(l, m) \/ Bounce(l, m) \/ Defer(l, m)
  PROVE  \/ /\ \E st \in {"delivered", "bounced", "deferred"} : SetRows({m}, st)
            /\ lostWrite' = lostWrite
         \/ row' = row /\ lostWrite' = lostWrite \cup {m}
<1>1. CASE RecordDelivered(l, m)
  BY <1>1 DEF RecordDelivered
<1>2. CASE Bounce(l, m)
  BY <1>2 DEF Bounce
<1>3. CASE Defer(l, m)
  BY <1>3 DEF Defer
<1>4. QED
  BY <1>1, <1>2, <1>3

\* A row in 'delivering' has a worker that will write its outcome, unless the
\* engine is down or the database refused the write: the loops overlap, but the
\* one that marks a row last also delivers it after that.
THEOREM DeliveringIsOwned == Spec => []OwnedWhileDelivering
<1>1. Init => OwnedWhileDelivering
  BY DEF Init, OwnedWhileDelivering
<1>2. TypeOK /\ OwnedWhileDelivering /\ [Next]_vars => OwnedWhileDelivering'
  <2> SUFFICES ASSUME TypeOK, OwnedWhileDelivering, [Next]_vars,
                      NEW n \in Mails, row'[n] = "delivering", up', n \notin lostWrite'
               PROVE  \E k \in Loops : work'[k][n] \in Holding
    BY DEF OwnedWhileDelivering
  <2>0. ASSUME row[n] = "delivering", up, n \notin lostWrite
        PROVE  \E k \in Loops : work[k][n] \in Holding
    BY <2>0 DEF OwnedWhileDelivering
  <2> USE DEF TypeOK, Holding
  <2>1. ASSUME NEW m \in Mails, Accept(m) \/ Elapse(m) \/ Admin(m) \/ Expire(m)
        PROVE  \E k \in Loops : work'[k][n] \in Holding
    <3> USE DEF engineVars, history
    <3>1. work' = work /\ up' = up /\ lostWrite' = lostWrite
      BY <2>1 DEF Accept, InsertRow, Notify, InsertLog, AbandonLog, workVars, Elapse, Admin,
         DeleteEntry, RetryEntry, Expire
    <3>2. row[n] = "delivering"
      <4>1. ASSUME NEW st \in {"pending", "quarantined"}, NEW bad \in BOOLEAN, InsertRow(m, st, bad)
            PROVE  row[n] = "delivering"
        BY <4>1 DEF InsertRow
      <4>2. CASE Notify(m) \/ InsertLog(m) \/ AbandonLog(m) \/ Elapse(m)
        BY <4>2 DEF Notify, InsertLog, AbandonLog, Elapse, dbVars
      <4>3. CASE Admin(m) \/ Expire(m)
        BY <4>3 DEF Admin, DeleteEntry, RetryEntry, Expire
      <4>4. QED
        BY <2>1, <4>1, <4>2, <4>3 DEF Accept
    <3>3. QED
      BY <2>0, <3>1, <3>2
  <2>2. ASSUME NEW l \in Loops, Loop(l) PROVE \E k \in Loops : work'[k][n] \in Holding
    <3>1. CASE Scan(l) \/ Join(l)
      BY <2>0, <3>1 DEF Scan, Join, dbVars, workVars, history
    <3>2. CASE MarkDelivering(l)
      <4>1. CASE n \in batch[l]
        <5>1. work'[l][n] = "spawned"
          BY <3>2, <4>1 DEF MarkDelivering
        <5>2. QED
          BY <5>1
      <4>2. CASE n \notin batch[l]
        <5>1. row[n] = "delivering" /\ up /\ n \notin lostWrite
          BY <3>2, <4>2 DEF MarkDelivering, SetRows, history
        <5>2. PICK k \in Loops : work[k][n] \in Holding
          BY <2>0, <5>1
        <5>3. work'[k][n] = work[k][n]
          BY <3>2, <4>2 DEF MarkDelivering
        <5>4. QED
          BY <5>2, <5>3
      <4>3. QED
        BY <4>1, <4>2
    <3>3. QED
      BY <2>2, <3>1, <3>2 DEF Loop
  <2>3. ASSUME NEW l \in Loops, NEW m \in Mails, Worker(l, m)
        PROVE  \E k \in Loops : work'[k][n] \in Holding
    <3>1. up' = up
      BY <2>3 DEF Worker, Record, Acquire, Try, Attempt, RecordDelivered, ReadRetries, Bounce, Defer,
         RecordLog
    <3>2. row[n] = "delivering" /\ n \notin lostWrite
      <4> USE DEF SetRows, dbVars, history
      <4>1. CASE Acquire(l, m) \/ Try(l, m) \/ ReadRetries(l, m) \/ RecordLog(l, m)
        BY <4>1 DEF Acquire, Try, Attempt, ReadRetries, RecordLog
      <4>2. CASE RecordDelivered(l, m) \/ Bounce(l, m) \/ Defer(l, m)
        BY <4>2, Recording
      <4>3. QED
        BY <2>3, <4>1, <4>2 DEF Worker, Record
    <3>3. PICK k \in Loops : work[k][n] \in Holding
      BY <2>0, <3>1, <3>2
    <3>4. work'[k][n] \in Holding
      <4>1. CASE RecordDelivered(l, m) \/ Bounce(l, m) \/ Defer(l, m)
        <5>1. m # n
          <6> SUFFICES ASSUME m = n PROVE FALSE
            OBVIOUS
          <6>1. CASE row' = row /\ lostWrite' = lostWrite \cup {m}
            BY <6>1
          <6>2. ASSUME NEW st \in {"delivered", "bounced", "deferred"}, SetRows({m}, st)
                PROVE  FALSE
            BY <3>2, <6>2 DEF SetRows
          <6>3. QED
            BY <4>1, <6>1, <6>2, Recording
        <5>2. QED
          BY <2>3, <3>3, <5>1, WorkerStages
      <4>2. CASE Acquire(l, m) \/ Try(l, m) \/ ReadRetries(l, m) \/ RecordLog(l, m)
        <5>1. CASE k = l /\ n = m
          BY <2>3, <3>3, <4>2, <5>1, WorkerStages
        <5>2. CASE k # l \/ n # m
          BY <2>3, <3>3, <5>2, WorkerStages
        <5>3. QED
          BY <5>1, <5>2
      <4>3. QED
        BY <2>3, <4>1, <4>2 DEF Worker, Record
    <3>5. QED
      BY <3>4
  <2>4. ASSUME RetryScan PROVE \E k \in Loops : work'[k][n] \in Holding
    BY <2>0, <2>4 DEF RetryScan, ScanDue, Requeue, SetRows, dbVars, workVars, history
  <2>5. CASE Crash
    BY <2>5 DEF Crash
  <2>6. CASE Start
    BY <2>6 DEF Start, SetRows, With
  <2>7. CASE LoseNotes
    BY <2>0, <2>7 DEF LoseNotes, dbVars, workVars, history
  <2>8. CASE UNCHANGED vars
    BY <2>0, <2>8 DEF vars
  <2>9. QED
    BY <2>1, <2>2, <2>3, <2>4, <2>5, <2>6, <2>7, <2>8 DEF Next
<1>3. QED
  BY <1>1, <1>2, TypeCorrect, PTL DEF Spec
----------------------------------------------------------------------------
\* What the steps of the environment and of the loops leave alone
LEMMA OutsideWorkers ==
  ASSUME TypeOK, [Next]_vars,
         ~\E l \in Loops, m \in Mails : Worker(l, m)
  PROVE  UNCHANGED <<copies, defers, gaveUp>>
<1> USE DEF history
<1>1. ASSUME NEW m \in Mails, Accept(m) \/ Elapse(m) \/ Admin(m) \/ Expire(m)
      PROVE  UNCHANGED <<copies, defers, gaveUp>>
  BY <1>1 DEF Accept, InsertRow, Notify, InsertLog, AbandonLog, Elapse, Admin,
     DeleteEntry, RetryEntry, Expire
<1>2. ASSUME NEW l \in Loops, Loop(l) PROVE UNCHANGED <<copies, defers, gaveUp>>
  BY <1>2 DEF Loop, Scan, MarkDelivering, Join
<1>3. CASE RetryScan \/ Crash \/ Start \/ LoseNotes \/ UNCHANGED vars
  BY <1>3 DEF RetryScan, ScanDue, Requeue, Crash, Start, LoseNotes, vars
<1>4. QED
  BY <1>1, <1>2, <1>3 DEF Next

\* Outside the workers themselves, a worker only appears (spawned) or is killed
LEMMA WorkersAppear ==
  ASSUME TypeOK, [Next]_vars,
         ~\E l \in Loops, m \in Mails : Worker(l, m),
         NEW k \in Loops, NEW n \in Mails
  PROVE  /\ work'[k][n] \in {work[k][n], "spawned", "off"}
         /\ work'[k][n] = "spawned" => work[k][n] = "spawned" \/ n \in batch[k]
         /\ seen'[k][n] \in {seen[k][n], 0}
<1> USE DEF TypeOK
<1>1. ASSUME NEW m \in Mails, Accept(m) \/ Elapse(m) \/ Admin(m) \/ Expire(m)
      PROVE  work' = work /\ seen' = seen
  BY <1>1 DEF Accept, InsertRow, Notify, InsertLog, AbandonLog, Elapse, Admin,
     DeleteEntry, RetryEntry, Expire, engineVars, workVars
<1>2. ASSUME NEW l \in Loops, Scan(l) \/ Join(l) PROVE work' = work /\ seen' = seen
  BY <1>2 DEF Scan, Join, workVars
<1>3. ASSUME NEW l \in Loops, MarkDelivering(l)
      PROVE  /\ work'[k][n] = IF k = l /\ n \in batch[k] THEN "spawned" ELSE work[k][n]
             /\ seen' = seen
  BY <1>3 DEF MarkDelivering
<1>4. CASE RetryScan \/ Start \/ LoseNotes \/ UNCHANGED vars
  BY <1>4 DEF RetryScan, ScanDue, Requeue, Start, LoseNotes, vars, workVars
<1>5. CASE Crash
  BY <1>5 DEF Crash
<1>6. QED
  BY <1>1, <1>2, <1>3, <1>4, <1>5 DEF Next, Loop

\* Only a worker writes an outcome, to the row or to the log
LEMMA OutcomesByWorkers ==
  ASSUME TypeOK, [Next]_vars,
         ~\E l \in Loops, m \in Mails : Worker(l, m),
         NEW n \in Mails
  PROVE  /\ row'[n] \in {row[n], "none", "pending", "delivering", "quarantined"}
         /\ log'[n] \in {log[n], "queued", "flagged"}
<1> USE DEF TypeOK, dbVars, SetRows
<1>1. ASSUME NEW m \in Mails, Accept(m)
      PROVE  /\ row'[n] \in {row[n], "none", "pending", "delivering", "quarantined"}
             /\ log'[n] \in {log[n], "queued", "flagged"}
  BY <1>1 DEF Accept, InsertRow, Notify, InsertLog, AbandonLog
<1>2. ASSUME NEW m \in Mails, Elapse(m) \/ Admin(m) \/ Expire(m)
      PROVE  /\ row'[n] \in {row[n], "none", "pending", "delivering", "quarantined"}
             /\ log'[n] \in {log[n], "queued", "flagged"}
  BY <1>2 DEF Elapse, Admin, DeleteEntry, RetryEntry, Expire
<1>3. ASSUME NEW l \in Loops, Loop(l)
      PROVE  /\ row'[n] \in {row[n], "none", "pending", "delivering", "quarantined"}
             /\ log'[n] \in {log[n], "queued", "flagged"}
  BY <1>3 DEF Loop, Scan, MarkDelivering, Join
<1>4. CASE RetryScan \/ Crash \/ Start \/ LoseNotes \/ UNCHANGED vars
  BY <1>4 DEF RetryScan, ScanDue, Requeue, Crash, Start, LoseNotes, vars, With
<1>5. QED
  BY <1>1, <1>2, <1>3, <1>4 DEF Next

\* What a worker does to the rows, the log and the history of its mail
LEMMA WorkerEffects ==
  ASSUME TypeOK, NEW l \in Loops, NEW m \in Mails, Worker(l, m), NEW n \in Mails
  PROVE  /\ copies'[n] >= copies[n]
         /\ Try(l, m) /\ work'[l][m] = "sent" => copies'[m] > 0
         /\ defers'[n] >= defers[n]
         /\ gaveUp'[n] # gaveUp[n] => n = m /\ Bounce(l, m)
         /\ Bounce(l, m) => gaveUp'[m] \in {"permanent", "exhausted"}
         /\ row'[n] # row[n] => /\ n = m /\ row[n] # "none"
                               /\ \/ RecordDelivered(l, m) /\ row'[n] = "delivered"
                                  \/ Bounce(l, m) /\ row'[n] = "bounced"
                                  \/ Defer(l, m) /\ row'[n] = "deferred"
         /\ log'[n] # log[n] => /\ n = m /\ RecordLog(l, m) /\ log[n] = "queued"
                               /\ log'[n] = IF work[l][m] = "logDelivered"
                                            THEN "delivered" ELSE "bounced"
<1> USE DEF TypeOK, SetRows, CopyCap, dbVars, history
<1>1. CASE Acquire(l, m)
  <2>1. UNCHANGED <<copies, defers, gaveUp, row, log>> /\ ~Try(l, m) /\ ~Bounce(l, m)
    BY <1>1 DEF Acquire, Try, Attempt, Bounce, Hopeless, Exhausted, Move
  <2>2. QED
    BY <2>1
<1>2. CASE Try(l, m)
  <2>1. PICK result \in {"sent", "temp", "perm"}, handed \in BOOLEAN : Attempt(l, m, result, handed)
    BY <1>2 DEF Try
  <2>2. UNCHANGED <<defers, gaveUp, row, log>> /\ work' = [work EXCEPT ![l][m] = result]
    BY <2>1 DEF Attempt, Move
  <2>3. copies'[n] >= copies[n]
    BY <2>1 DEF Attempt, Plus1
  <2>4. work'[l][m] = result
    BY <2>2, OneEntry
  <2>5. result = "sent" => copies'[m] > 0
    BY <2>1 DEF Attempt, Plus1
  <2>6. ~Bounce(l, m)
    BY <2>1 DEF Attempt, Bounce, Hopeless, Exhausted, Move
  <2>7. QED
    BY <2>2, <2>3, <2>4, <2>5, <2>6
<1>3. CASE RecordDelivered(l, m)
  <2>1. UNCHANGED <<copies, defers, gaveUp, log>> /\ ~Try(l, m) /\ ~Bounce(l, m)
    BY <1>3 DEF RecordDelivered, Try, Attempt, Bounce, Hopeless, Exhausted, Move
  <2>2. row'[n] # row[n] => n = m /\ row[n] # "none" /\ row'[n] = "delivered"
    BY <1>3 DEF RecordDelivered
  <2>3. QED
    BY <1>3, <2>1, <2>2
<1>4. CASE ReadRetries(l, m)
  <2>1. UNCHANGED <<copies, defers, gaveUp, row, log>> /\ ~Try(l, m) /\ ~Bounce(l, m)
    BY <1>4 DEF ReadRetries, Try, Attempt, Bounce, Hopeless, Exhausted, Move
  <2>2. QED
    BY <2>1
<1>5. CASE Bounce(l, m)
  <2>1. UNCHANGED <<copies, defers, log>> /\ ~Try(l, m)
    BY <1>5 DEF Bounce, Try, Attempt, Hopeless, Exhausted, Move
  <2>2. row'[n] # row[n] => n = m /\ row[n] # "none" /\ row'[n] = "bounced"
    BY <1>5 DEF Bounce
  <2>3. /\ gaveUp'[n] # gaveUp[n] => n = m
        /\ gaveUp'[m] \in {"permanent", "exhausted"}
    BY <1>5 DEF Bounce
  <2>4. QED
    BY <1>5, <2>1, <2>2, <2>3
<1>6. CASE Defer(l, m)
  <2>1. UNCHANGED <<copies, gaveUp, log>> /\ ~Try(l, m) /\ ~Bounce(l, m)
    BY <1>6 DEF Defer, Try, Attempt, Bounce, Hopeless, Exhausted, Move
  <2>2. row'[n] # row[n] => n = m /\ row[n] # "none" /\ row'[n] = "deferred"
    BY <1>6 DEF Defer
  <2>3. defers'[n] >= defers[n]
    BY <1>6, MaxRetriesAssumption DEF Defer, Plus1
  <2>4. QED
    BY <1>6, <2>1, <2>2, <2>3
<1>7. CASE RecordLog(l, m)
  <2>1. UNCHANGED <<copies, defers, gaveUp, row>> /\ ~Try(l, m) /\ ~Bounce(l, m)
    BY <1>7 DEF RecordLog, Try, Attempt, Bounce, Hopeless, Exhausted, Move
  <2>2. log'[n] # log[n] => /\ n = m /\ log[n] = "queued"
                            /\ log'[n] = IF work[l][m] = "logDelivered"
                                         THEN "delivered" ELSE "bounced"
    BY <1>7 DEF RecordLog, SetLog
  <2>3. QED
    BY <1>7, <2>1, <2>2
<1>8. QED
  BY <1>1, <1>2, <1>3, <1>4, <1>5, <1>6, <1>7 DEF Worker, Record
----------------------------------------------------------------------------
\* A queue row or a log entry never reports a hand-over that did not happen or
\* a bounce nobody decided, whichever worker wrote it (deliver_one).
THEOREM OutcomesAreHonest == Spec => []HonestOutcome
<1> DEFINE Inv == HonestOutcome /\ OutcomeInHand
<1>1. Init => Inv
  BY DEF Init, HonestOutcome, OutcomeInHand
<1>2. TypeOK /\ Inv /\ [Next]_vars => Inv'
  <2> SUFFICES ASSUME TypeOK, HonestOutcome, OutcomeInHand, [Next]_vars PROVE Inv'
    OBVIOUS
  <2>1. CASE ~\E l \in Loops, m \in Mails : Worker(l, m)
    <3>1. UNCHANGED <<copies, gaveUp>>
      BY <2>1, OutsideWorkers
    <3>2. HonestOutcome'
      BY <2>1, <3>1, OutcomesByWorkers DEF HonestOutcome
    <3>3. OutcomeInHand'
      <4> SUFFICES ASSUME NEW k \in Loops, NEW n \in Mails
                   PROVE  /\ work'[k][n] \in {"sent", "logDelivered"} => copies'[n] > 0
                          /\ work'[k][n] = "logBounced" => gaveUp'[n] # "no"
        BY DEF OutcomeInHand
      <4>1. work'[k][n] \in {work[k][n], "spawned", "off"}
        BY <2>1, WorkersAppear
      <4>2. QED
        BY <3>1, <4>1 DEF OutcomeInHand
    <3>4. QED
      BY <3>2, <3>3
  <2>2. ASSUME NEW l \in Loops, NEW m \in Mails, Worker(l, m) PROVE Inv'
    <3>1. \A n \in Mails : /\ copies'[n] >= copies[n]
                           /\ gaveUp[n] # "no" => gaveUp'[n] # "no"
      BY <2>2, WorkerEffects
    <3>2. ASSUME NEW n \in Mails PROVE copies[n] > 0 => copies'[n] > 0
      <4>1. copies[n] \in Int /\ copies'[n] \in Int
        <5>1. TypeOK'
          BY TypeStep
        <5>2. QED
          BY <5>1 DEF TypeOK
      <4>2. QED
        BY <3>1, <4>1
    <3>3. OutcomeInHand'
      <4> SUFFICES ASSUME NEW k \in Loops, NEW n \in Mails
                   PROVE  /\ work'[k][n] \in {"sent", "logDelivered"} => copies'[n] > 0
                          /\ work'[k][n] = "logBounced" => gaveUp'[n] # "no"
        BY DEF OutcomeInHand
      <4>1. CASE k = l /\ n = m
        <5>1. work'[l][m] = "sent" => copies'[m] > 0
          BY <2>2, WorkerStages, WorkerEffects DEF Worker, Record
        <5>2. work'[l][m] = "logDelivered" => work[l][m] = "sent"
          BY <2>2, WorkerStages DEF Worker, Record
        <5>3. work'[l][m] = "logBounced" => Bounce(l, m)
          BY <2>2, WorkerStages DEF Worker, Record
        <5>4. QED
          BY <2>2, <3>2, <4>1, <5>1, <5>2, <5>3, WorkerEffects DEF OutcomeInHand
      <4>2. CASE k # l \/ n # m
        BY <2>2, <3>1, <3>2, <4>2, WorkerStages DEF OutcomeInHand
      <4>3. QED
        BY <4>1, <4>2
    <3>4. HonestOutcome'
      <4> SUFFICES ASSUME NEW n \in Mails
                   PROVE  /\ "delivered" \in {row'[n], log'[n]} => copies'[n] > 0
                          /\ "bounced" \in {row'[n], log'[n]} => gaveUp'[n] # "no"
        BY DEF HonestOutcome
      <4>1. CASE row'[n] = row[n] /\ log'[n] = log[n]
        BY <3>1, <3>2, <4>1 DEF HonestOutcome
      <4>2. CASE row'[n] # row[n]
        <5>1. n = m /\ log'[n] = log[n]
          BY <2>2, <4>2, WorkerEffects, WorkerStages
        <5>2. RecordDelivered(l, m) => copies[m] > 0
          BY <2>2, WorkerStages DEF OutcomeInHand
        <5>3. QED
          BY <2>2, <3>1, <3>2, <4>2, <5>1, <5>2, WorkerEffects DEF HonestOutcome
      <4>3. CASE log'[n] # log[n]
        <5>1. n = m /\ row'[n] = row[n]
          BY <2>2, <4>3, WorkerEffects, WorkerStages
        <5>2. /\ work[l][m] = "logDelivered" => copies[m] > 0
              /\ work[l][m] = "logBounced" => gaveUp[m] # "no"
          BY DEF OutcomeInHand
        <5>3. QED
          BY <2>2, <3>1, <3>2, <4>3, <5>1, <5>2, WorkerEffects, WorkerStages DEF HonestOutcome
      <4>4. QED
        BY <4>1, <4>2, <4>3
    <3>5. QED
      BY <3>3, <3>4
  <2>3. QED
    BY <2>1, <2>2
<1>3. QED
  BY <1>1, <1>2, TypeCorrect, PTL DEF Spec

\* The log is written once: the three updates of mail_logs only touch an entry
\* that is still 'queued', and an entry is inserted once.
THEOREM LogIsWrittenOnce == Spec => LogWrittenOnce
<1> DEFINE Inserted == \A m \in Mails : ingest[m] # "done" => log[m] = "none"
<1>1. Init => Inserted
  BY DEF Init
<1>2. TypeOK /\ Inserted /\ [Next]_vars =>
        Inserted' /\ \A n \in Mails : log[n] \notin {"none", "queued"} => log'[n] = log[n]
  <2> SUFFICES ASSUME TypeOK, Inserted, [Next]_vars
               PROVE  Inserted' /\ \A n \in Mails : log[n] \notin {"none", "queued"} => log'[n] = log[n]
    OBVIOUS
  <2> USE DEF TypeOK, dbVars, ingestVars
  <2>1. ASSUME NEW m \in Mails, Accept(m)
        PROVE  Inserted' /\ \A n \in Mails : log[n] \notin {"none", "queued"} => log'[n] = log[n]
    <3>1. CASE log' = log
      BY <2>1, <3>1 DEF Accept, InsertRow, Notify, InsertLog, AbandonLog
    <3>2. CASE InsertLog(m)
      BY <3>2 DEF InsertLog
    <3>3. QED
      BY <2>1, <3>1, <3>2 DEF Accept, InsertRow, Notify, AbandonLog
  <2>2. ASSUME NEW m \in Mails, Elapse(m) \/ Admin(m) \/ Expire(m) PROVE UNCHANGED <<log, ingest>>
    BY <2>2 DEF Elapse, Admin, DeleteEntry, RetryEntry, Expire
  <2>3. ASSUME NEW l \in Loops, Loop(l) PROVE UNCHANGED <<log, ingest>>
    BY <2>3 DEF Loop, Scan, MarkDelivering, Join
  <2>4. ASSUME NEW l \in Loops, NEW m \in Mails, Worker(l, m)
        PROVE  Inserted' /\ \A n \in Mails : log[n] \notin {"none", "queued"} => log'[n] = log[n]
    <3>1. ingest' = ingest
      BY <2>4 DEF Worker, Record, Acquire, Try, Attempt, RecordDelivered, ReadRetries, Bounce, Defer,
         RecordLog
    <3>2. \A n \in Mails : log'[n] # log[n] => log[n] = "queued"
      BY <2>4, WorkerEffects
    <3>3. QED
      BY <3>1, <3>2
  <2>5. CASE RetryScan \/ Crash \/ Start \/ LoseNotes \/ UNCHANGED vars
    BY <2>5 DEF RetryScan, ScanDue, Requeue, Crash, Start, LoseNotes, vars
  <2>6. QED
    BY <2>1, <2>2, <2>3, <2>4, <2>5 DEF Next
<1>3. [\A n \in Mails : log[n] \notin {"none", "queued"} => log'[n] = log[n]]_vars
      <=> [\A m \in Mails : log[m] \notin {"none", "queued"} => log'[m] = log[m]]_vars
  OBVIOUS
<1> HIDE DEF Inserted
<1>4. QED
  BY <1>1, <1>2, <1>3, TypeCorrect, PTL DEF Spec, LogWrittenOnce
----------------------------------------------------------------------------
\* What the workers do to retry_count and to the copies of it they hold
LEMMA RetryCounts ==
  ASSUME TypeOK, CountsDeferrals, NEW l \in Loops, NEW m \in Mails, Worker(l, m)
  PROVE  CountsDeferrals'
<1> USE MaxRetriesAssumption DEF TypeOK, CountsDeferrals, history, dbVars
<1>1. CASE Acquire(l, m) \/ Try(l, m) \/ RecordDelivered(l, m) \/ RecordLog(l, m)
  BY <1>1 DEF Acquire, Try, Attempt, RecordDelivered, RecordLog
<1>2. CASE ReadRetries(l, m)
  <2>1. UNCHANGED <<retries, defers>>
    BY <1>2 DEF ReadRetries
  <2>2. PICK v \in {0, retries[m]} : seen' = [seen EXCEPT ![l][m] = v]
    BY <1>2 DEF ReadRetries
  <2>3. \A k \in Loops, n \in Mails :
          seen'[k][n] = IF k = l /\ n = m THEN v ELSE seen[k][n]
    BY <2>2, OneEntry
  <2>4. v <= defers[m]
    BY <2>2
  <2>5. QED
    BY <2>1, <2>3, <2>4
<1>3. CASE Bounce(l, m)
  <2>1. UNCHANGED <<retries, defers>> /\ seen' = [seen EXCEPT ![l][m] = 0]
    BY <1>3 DEF Bounce
  <2>2. \A k \in Loops, n \in Mails : seen'[k][n] = IF k = l /\ n = m THEN 0 ELSE seen[k][n]
    BY <2>1, OneEntry
  <2>3. QED
    BY <2>1, <2>2
<1>4. CASE Defer(l, m)
  <2>1. seen' = [seen EXCEPT ![l][m] = 0]
    BY <1>4 DEF Defer
  <2>2. \A k \in Loops, n \in Mails : seen'[k][n] = IF k = l /\ n = m THEN 0 ELSE seen[k][n]
    BY <2>1, OneEntry
  <2>3. seen[l][m] < MaxRetries /\ seen[l][m] <= defers[m]
    BY <1>4 DEF Defer, Exhausted
  <2>4. \A n \in Mails : defers'[n] >= defers[n] /\ retries'[n] <= defers'[n]
    <3>1. /\ seen[l][m] \in Nat /\ MaxRetries \in Nat
          /\ \A n \in Mails : defers[n] \in 0 .. MaxRetries /\ retries[n] \in Nat
      OBVIOUS
    <3>2. CASE UNCHANGED <<retries, defers>>
      BY <3>1, <3>2
    <3>3. CASE UNCHANGED retries /\ defers' = [defers EXCEPT ![m] = Plus1(@, MaxRetries)]
      BY <3>1, <3>3 DEF Plus1
    <3>4. CASE /\ retries' = [retries EXCEPT ![m] = seen[l][m] + 1]
               /\ defers' = [defers EXCEPT ![m] = Plus1(@, MaxRetries)]
      BY <2>3, <3>1, <3>4 DEF Plus1
    <3>5. QED
      BY <1>4, <3>2, <3>3, <3>4 DEF Defer
  <2>5. \A n \in Mails : defers'[n] \in 0 .. MaxRetries
    BY <1>4 DEF Defer, Plus1
  <2>6. ASSUME NEW k \in Loops, NEW n \in Mails PROVE seen'[k][n] <= defers'[n]
    BY <2>2, <2>4, <2>5
  <2>7. QED
    BY <2>4, <2>6
<1>5. QED
  BY <1>1, <1>2, <1>3, <1>4 DEF Worker, Record

\* No message is bounced as exhausted before it was deferred max_retries times:
\* a stale retry_count is too low, never too high (deliver_one).
THEOREM BudgetIsFull == Spec => []FullBudget
<1> DEFINE Inv == FullBudget /\ CountsDeferrals
<1>1. Init => Inv
  BY DEF Init, FullBudget, CountsDeferrals
<1>2. TypeOK /\ Inv /\ [Next]_vars => Inv'
  <2> SUFFICES ASSUME TypeOK, FullBudget, CountsDeferrals, [Next]_vars PROVE Inv'
    OBVIOUS
  <2>1. CASE ~\E l \in Loops, m \in Mails : Worker(l, m)
    <3>1. UNCHANGED <<defers, gaveUp>>
      BY <2>1, OutsideWorkers
    <3>2. \A n \in Mails : retries'[n] \in {retries[n], 0}
      <4> USE DEF TypeOK, dbVars
      <4>1. ASSUME NEW m \in Mails, Accept(m) \/ Elapse(m) \/ Admin(m) \/ Expire(m)
            PROVE  \A n \in Mails : retries'[n] \in {retries[n], 0}
        BY <4>1 DEF Accept, InsertRow, Notify, InsertLog, AbandonLog, Elapse, Admin,
           DeleteEntry, RetryEntry, Expire
      <4>2. ASSUME NEW l \in Loops, Loop(l) PROVE retries' = retries
        BY <4>2 DEF Loop, Scan, MarkDelivering, Join
      <4>3. CASE RetryScan \/ Crash \/ Start \/ LoseNotes \/ UNCHANGED vars
        BY <4>3 DEF RetryScan, ScanDue, Requeue, Crash, Start, LoseNotes, vars
      <4>4. QED
        BY <2>1, <4>1, <4>2, <4>3 DEF Next
    <3>3. \A k \in Loops, n \in Mails : seen'[k][n] \in {seen[k][n], 0}
      BY <2>1, WorkersAppear
    <3>4. CountsDeferrals'
      <4>1. \A n \in Mails : defers'[n] = defers[n] /\ defers[n] >= 0
        BY <3>1, MaxRetriesAssumption DEF TypeOK
      <4>2. QED
        BY <3>2, <3>3, <4>1 DEF CountsDeferrals
    <3>5. QED
      BY <3>1, <3>4 DEF FullBudget
  <2>2. ASSUME NEW l \in Loops, NEW m \in Mails, Worker(l, m) PROVE Inv'
    <3>1. CountsDeferrals'
      BY <2>2, RetryCounts
    <3>2. \A n \in Mails : defers[n] = MaxRetries => defers'[n] = MaxRetries
      <4>1. \A n \in Mails : defers[n] \in 0 .. MaxRetries /\ defers'[n] \in 0 .. MaxRetries
        BY TypeStep DEF TypeOK
      <4>2. \A n \in Mails : defers'[n] >= defers[n]
        BY <2>2, WorkerEffects
      <4>3. QED
        BY <4>1, <4>2, MaxRetriesAssumption
    <3>3. Bounce(l, m) /\ gaveUp'[m] = "exhausted" => defers[m] = MaxRetries
      <4> SUFFICES ASSUME Bounce(l, m), gaveUp'[m] = "exhausted" PROVE defers[m] = MaxRetries
        OBVIOUS
      <4>1. seen[l][m] >= MaxRetries
        BY DEF Bounce, Exhausted, TypeOK
      <4>2. seen[l][m] <= defers[m] /\ seen[l][m] \in 0 .. MaxRetries /\ defers[m] \in 0 .. MaxRetries
        BY DEF CountsDeferrals, TypeOK
      <4>3. QED
        BY <4>1, <4>2, MaxRetriesAssumption
    <3>4. FullBudget'
      <4> SUFFICES ASSUME NEW n \in Mails, gaveUp'[n] = "exhausted"
                   PROVE  defers'[n] = MaxRetries
        BY DEF FullBudget
      <4>1. CASE gaveUp'[n] = gaveUp[n]
        BY <3>2, <4>1 DEF FullBudget
      <4>2. CASE gaveUp'[n] # gaveUp[n]
        BY <2>2, <3>2, <3>3, <4>2, WorkerEffects
      <4>3. QED
        BY <4>1, <4>2
    <3>5. QED
      BY <3>1, <3>4
  <2>3. QED
    BY <2>1, <2>2
<1>3. QED
  BY <1>1, <1>2, TypeCorrect, PTL DEF Spec
----------------------------------------------------------------------------
\* The loops select and hold accepted messages only, and a row exists only for
\* an accepted message.
LEMMA HeldAreAccepted == Spec => []OnlyAcceptedHeld
<1>1. Init => OnlyAcceptedHeld
  BY DEF Init, OnlyAcceptedHeld
<1>2. TypeOK /\ OnlyAcceptedHeld /\ [Next]_vars => OnlyAcceptedHeld'
  <2> SUFFICES ASSUME TypeOK, OnlyAcceptedHeld, [Next]_vars, NEW n \in Mails
               PROVE  /\ ingest'[n] = "new" => row'[n] = "none"
                      /\ ingest'[n] = "new" \/ row'[n] = "quarantined" =>
                           \A k \in Loops : n \notin batch'[k] /\ work'[k][n] = "off"
    BY DEF OnlyAcceptedHeld
  <2>0. /\ ingest[n] = "new" => row[n] = "none"
        /\ ingest[n] = "new" \/ row[n] = "quarantined" =>
             \A k \in Loops : n \notin batch[k] /\ work[k][n] = "off"
    BY DEF OnlyAcceptedHeld
  <2> DEFINE Kept == /\ ingest'[n] = "new" => row'[n] = "none"
                     /\ ingest'[n] = "new" \/ row'[n] = "quarantined" =>
                          \A k \in Loops : n \notin batch'[k] /\ work'[k][n] = "off"
  <2> USE DEF TypeOK, dbVars, ingestVars, loopVars, workVars, engineVars, SetRows
  <2>1. ASSUME NEW m \in Mails, NEW st \in {"pending", "quarantined"}, NEW bad \in BOOLEAN,
               InsertRow(m, st, bad)
        PROVE  Kept
    BY <2>0, <2>1 DEF InsertRow
  <2>2. ASSUME NEW m \in Mails, Notify(m) \/ InsertLog(m) \/ AbandonLog(m) \/ Elapse(m)
        PROVE  Kept
    BY <2>0, <2>2 DEF Notify, InsertLog, AbandonLog, Elapse
  <2>3. ASSUME NEW m \in Mails, Admin(m) \/ Expire(m) PROVE Kept
    BY <2>0, <2>3 DEF Admin, DeleteEntry, RetryEntry, Expire
  <2>4. ASSUME NEW l \in Loops, Scan(l) PROVE Kept
    BY <2>0, <2>4 DEF Scan, Oldest, With
  <2>5. ASSUME NEW l \in Loops, MarkDelivering(l) PROVE Kept
    <3>1. ingest' = ingest /\ batch' = batch
      BY <2>5 DEF MarkDelivering
    <3>2. \A k \in Loops : work'[k][n] = IF k = l /\ n \in batch[l] THEN "spawned" ELSE work[k][n]
      BY <2>5 DEF MarkDelivering
    <3>3. row'[n] = row[n] \/ (n \in batch[l] /\ row[n] # "none" /\ row'[n] = "delivering")
      BY <2>5 DEF MarkDelivering
    <3>4. QED
      BY <2>0, <3>1, <3>2, <3>3
  <2>6. ASSUME NEW l \in Loops, Join(l) PROVE Kept
    BY <2>0, <2>6 DEF Join
  <2>7. ASSUME NEW l \in Loops, NEW m \in Mails, Worker(l, m) PROVE Kept
    <3>1. ingest' = ingest /\ batch' = batch
      BY <2>7 DEF Worker, Record, Acquire, Try, Attempt, RecordDelivered, ReadRetries, Bounce, Defer,
         RecordLog
    <3>2. \/ row'[n] = row[n]
          \/ row[n] # "none" /\ row'[n] \in {"delivered", "bounced", "deferred"}
      BY <2>7, WorkerEffects
    <3>3. work[l][m] # "off"
      BY <2>7, WorkerStages DEF Worker, Record
    <3>4. \A k \in Loops : (k = l /\ n = m) \/ work'[k][n] = work[k][n]
      BY <2>7, WorkerStages
    <3>5. QED
      BY <2>0, <3>1, <3>2, <3>3, <3>4
  <2>8. ASSUME RetryScan PROVE Kept
    <3>1. ASSUME NEW S \in SUBSET Mails, ScanDue(S) PROVE Kept
      BY <2>0, <3>1 DEF ScanDue, DueRows, With
    <3>2. ASSUME NEW m \in Mails, Requeue(m) PROVE Kept
      <4>1. ingest' = ingest /\ work' = work
        BY <3>2 DEF Requeue
      <4>2. \A k \in Loops : batch'[k] \subseteq batch[k]
        BY <3>2 DEF Requeue
      <4>3. row'[n] = row[n] \/ (row[n] # "none" /\ row'[n] = "pending")
        BY <3>2 DEF Requeue
      <4>4. QED
        BY <2>0, <4>1, <4>2, <4>3
    <3>3. QED
      BY <2>8, <3>1, <3>2 DEF RetryScan
  <2>9. ASSUME Crash PROVE Kept
    BY <2>0, <2>9 DEF Crash
  <2>10. ASSUME Start PROVE Kept
    BY <2>0, <2>10 DEF Start, With
  <2>11. ASSUME LoseNotes \/ UNCHANGED vars PROVE Kept
    BY <2>0, <2>11 DEF LoseNotes, vars
  <2> HIDE DEF Kept
  <2>12. Kept
    BY <2>1, <2>2, <2>3, <2>4, <2>5, <2>6, <2>7, <2>8, <2>9, <2>10, <2>11
       DEF Next, Accept, Loop
  <2>13. QED
    BY <2>12 DEF Kept
<1>3. QED
  BY <1>1, <1>2, TypeCorrect, PTL DEF Spec

\* A step that leaves the abstract view of every message alone
LEMMA ViewUnchanged ==
  ASSUME \A n \in Mails : CustodyOf(n)' = CustodyOf(n),
         UNCHANGED <<copies, gaveUp, withdrawn>>
  PROVE  UNCHANGED Custody!vars
BY DEF Custody!vars

\* ... and one that changes it for one message
LEMMA ViewOfOne ==
  ASSUME NEW m \in Mails, NEW c, CustodyOf(m)' = c,
         \A n \in Mails : n # m => CustodyOf(n)' = CustodyOf(n)
  PROVE  [n \in Mails |-> CustodyOf(n)]' = [[n \in Mails |-> CustodyOf(n)] EXCEPT ![m] = c]
OBVIOUS

\* The delivery queue keeps its contract: at every step of the three loops, the
\* accepting process, the administrator, the clean-up and a restart, a message is
\* let go only after it was handed over, refused or withdrawn.
THEOREM CustodyIsKept == Spec => KeepsCustody
<1>1. Init => Custody!Init
  BY DEF Init, Custody!Init, CustodyOf
<1>2. TypeOK /\ HonestOutcome /\ OnlyAcceptedHeld /\ [Next]_vars => [Custody!Next]_(Custody!vars)
  <2> SUFFICES ASSUME TypeOK, HonestOutcome, OnlyAcceptedHeld, [Next]_vars
               PROVE  [Custody!Next]_(Custody!vars)
    OBVIOUS
  <2> USE DEF TypeOK, dbVars, ingestVars, history, SetRows
  <2>1. ASSUME NEW m \in Mails, NEW st \in {"pending", "quarantined"}, NEW bad \in BOOLEAN,
               InsertRow(m, st, bad)
        PROVE  Custody!Next
    <3>1. /\ CustodyOf(m) = "new"
          /\ CustodyOf(m)' = IF st = "quarantined" THEN "quarantined" ELSE "accepted"
          /\ \A n \in Mails : n # m => CustodyOf(n)' = CustodyOf(n)
      BY <2>1 DEF InsertRow, CustodyOf
    <3>2. UNCHANGED <<copies, gaveUp, withdrawn>>
      BY <2>1 DEF InsertRow
    <3>3. Custody!Accept(m) \/ Custody!Quarantine(m)
      BY <3>1, <3>2, ViewOfOne DEF Custody!Accept, Custody!Quarantine
    <3>4. QED
      BY <3>3 DEF Custody!Next
  <2>2. ASSUME NEW m \in Mails, Notify(m) \/ InsertLog(m) \/ AbandonLog(m) \/ Elapse(m)
        PROVE  UNCHANGED Custody!vars
    BY <2>2, ViewUnchanged DEF Notify, InsertLog, AbandonLog, Elapse, CustodyOf
  <2>3. ASSUME NEW m \in Mails, DeleteEntry(m) PROVE Custody!Next
    <3>1. /\ CustodyOf(m) \in {"accepted", "quarantined"} /\ CustodyOf(m)' = "released"
          /\ \A n \in Mails : n # m => CustodyOf(n)' = CustodyOf(n)
      BY <2>3 DEF DeleteEntry, CustodyOf, OnlyAcceptedHeld
    <3>2. UNCHANGED <<copies, gaveUp>> /\ withdrawn' = withdrawn \cup {m}
      BY <2>3 DEF DeleteEntry
    <3>3. Custody!Withdraw(m)
      BY <3>1, <3>2, ViewOfOne DEF Custody!Withdraw
    <3>4. QED
      BY <3>3 DEF Custody!Next
  <2>4. ASSUME NEW m \in Mails, RetryEntry(m) PROVE [Custody!Next]_(Custody!vars)
    <3>1. /\ CustodyOf(m) \in {"accepted", "quarantined"} /\ CustodyOf(m)' = "accepted"
          /\ \A n \in Mails : n # m => CustodyOf(n)' = CustodyOf(n)
      BY <2>4 DEF RetryEntry, CustodyOf, OnlyAcceptedHeld
    <3>2. UNCHANGED <<copies, gaveUp, withdrawn>>
      BY <2>4 DEF RetryEntry
    <3>3. CASE CustodyOf(m) = "quarantined"
      <4>1. Custody!Release(m)
        BY <3>1, <3>2, <3>3, ViewOfOne DEF Custody!Release
      <4>2. QED
        BY <4>1 DEF Custody!Next
    <3>4. CASE CustodyOf(m) = "accepted"
      BY <3>1, <3>2, <3>4, ViewUnchanged
    <3>5. QED
      BY <3>1, <3>3, <3>4
  <2>5. ASSUME NEW m \in Mails, Expire(m) PROVE Custody!Next
    <3>1. /\ CustodyOf(m) = "accepted" /\ CustodyOf(m)' = "released"
          /\ \A n \in Mails : n # m => CustodyOf(n)' = CustodyOf(n)
      BY <2>5 DEF Expire, CustodyOf, OnlyAcceptedHeld
    <3>2. UNCHANGED <<copies, gaveUp, withdrawn>>
      BY <2>5 DEF Expire
    <3>3. copies[m] > 0 \/ gaveUp[m] # "no"
      BY <2>5 DEF Expire, HonestOutcome
    <3>4. Custody!Forget(m)
      BY <3>1, <3>2, <3>3, ViewOfOne DEF Custody!Forget
    <3>5. QED
      BY <3>4 DEF Custody!Next
  <2>6. ASSUME NEW l \in Loops, Loop(l) PROVE UNCHANGED Custody!vars
    <3>1. \A n \in Mails : n \in batch[l] => row[n] # "quarantined"
      BY DEF OnlyAcceptedHeld
    <3>2. CASE Scan(l) \/ Join(l)
      BY <3>2, ViewUnchanged DEF Scan, Join, CustodyOf
    <3>3. CASE MarkDelivering(l)
      <4>1. ingest' = ingest /\ UNCHANGED <<copies, gaveUp, withdrawn>>
        BY <3>3 DEF MarkDelivering
      <4>2. \A n \in Mails :
              \/ row'[n] = row[n]
              \/ row[n] \notin {"none", "quarantined"} /\ row'[n] = "delivering"
        BY <3>1, <3>3 DEF MarkDelivering
      <4>3. QED
        BY <4>1, <4>2, ViewUnchanged DEF CustodyOf
    <3>4. QED
      BY <2>6, <3>2, <3>3 DEF Loop
  <2>7. ASSUME NEW l \in Loops, NEW m \in Mails, Worker(l, m)
        PROVE  [Custody!Next]_(Custody!vars)
    <3>1. work[l][m] # "off"
      BY <2>7, WorkerStages DEF Worker, Record
    <3>2. ingest[m] # "new" /\ row[m] # "quarantined"
      BY <3>1 DEF OnlyAcceptedHeld
    <3>3. CustodyOf(m) \in {"accepted", "released"}
      BY <3>2 DEF CustodyOf
    <3>4. \A n \in Mails : CustodyOf(n)' = CustodyOf(n)
      <4>1. ingest' = ingest
        BY <2>7 DEF Worker, Record, Acquire, Try, Attempt, RecordDelivered, ReadRetries, Bounce, Defer,
           RecordLog
      <4>2. \A n \in Mails :
              \/ row'[n] = row[n]
              \/ /\ n = m /\ row[n] # "none"
                 /\ row'[n] \in {"delivered", "bounced", "deferred"}
        BY <2>7, WorkerEffects
      <4>3. QED
        BY <3>2, <4>1, <4>2 DEF CustodyOf
    <3>5. CASE Try(l, m)
      <4>1. PICK result \in {"sent", "temp", "perm"}, over \in BOOLEAN : Attempt(l, m, result, over)
        BY <3>5 DEF Try
      <4>2. UNCHANGED <<gaveUp, withdrawn>>
        BY <4>1 DEF Attempt
      <4>3. CASE ~over
        BY <3>4, <4>1, <4>2, <4>3, ViewUnchanged DEF Attempt
      <4>4. CASE over
        <5>1. {n \in Mails : copies'[n] > 0} = {n \in Mails : copies[n] > 0} \cup {m}
          BY <4>1, <4>4 DEF Attempt, Plus1, CopyCap
        <5>2. Custody!HandOver(m)
          BY <3>3, <3>4, <4>2, <5>1 DEF Custody!HandOver
        <5>3. QED
          BY <5>2 DEF Custody!Next
      <4>5. QED
        BY <4>3, <4>4
    <3>6. CASE Bounce(l, m)
      <4>1. UNCHANGED <<copies, withdrawn>>
        BY <3>6 DEF Bounce
      <4>2. {n \in Mails : gaveUp'[n] # "no"} = {n \in Mails : gaveUp[n] # "no"} \cup {m}
        BY <3>6 DEF Bounce
      <4>3. Custody!Refuse(m)
        BY <3>3, <3>4, <4>1, <4>2 DEF Custody!Refuse
      <4>4. QED
        BY <4>3 DEF Custody!Next
    <3>7. CASE ~Try(l, m) /\ ~Bounce(l, m)
      <4>1. UNCHANGED <<copies, gaveUp, withdrawn>>
        BY <2>7, <3>7 DEF Worker, Record, Acquire, RecordDelivered, ReadRetries, Defer, RecordLog
      <4>2. QED
        BY <3>4, <4>1, ViewUnchanged
    <3>8. QED
      BY <3>5, <3>6, <3>7
  <2>8. CASE RetryScan
    <3>1. \A l \in Loops, n \in Mails : n \in batch[l] => row[n] # "quarantined"
      BY DEF OnlyAcceptedHeld
    <3>2. QED
      BY <2>8, <3>1, ViewUnchanged DEF RetryScan, ScanDue, Requeue, CustodyOf, Loops
  <2>9. CASE Crash \/ Start \/ LoseNotes \/ UNCHANGED vars
    BY <2>9, ViewUnchanged DEF Crash, Start, LoseNotes, vars, With, CustodyOf
  <2>10. QED
    BY <2>1, <2>2, <2>3, <2>4, <2>5, <2>6, <2>7, <2>8, <2>9 DEF Next, Accept, Admin
<1>3. QED
  BY <1>1, <1>2, TypeCorrect, OutcomesAreHonest, HeldAreAccepted, PTL
     DEF Spec, KeepsCustody, Custody!Spec

\* A message that is gone was decided about or withdrawn: a consequence of the contract alone, so it
\* holds of whatever implements it.
THEOREM NothingIsLost == Spec => []NothingLost
<1> DEFINE Kept == \A m \in Mails :
                     CustodyOf(m) = "released" => copies[m] > 0 \/ gaveUp[m] # "no" \/ m \in withdrawn
<1>1. Custody!Init => Kept
  <2> SUFFICES ASSUME Custody!Init, NEW m \in Mails PROVE CustodyOf(m) # "released"
    OBVIOUS
  <2>1. [n \in Mails |-> CustodyOf(n)][m] = "new"
    BY Zenon DEF Custody!Init
  <2> QED
    BY <2>1
<1>2. Kept /\ [Custody!Next]_(Custody!vars) => Kept'
  <2> SUFFICES ASSUME Kept, [Custody!Next]_(Custody!vars), NEW n \in Mails, CustodyOf(n)' = "released"
               PROVE  copies'[n] > 0 \/ gaveUp'[n] # "no" \/ n \in withdrawn'
    OBVIOUS
  <2> DEFINE custody == [m \in Mails |-> CustodyOf(m)]
             handed  == {m \in Mails : copies[m] > 0}
             refused == {m \in Mails : gaveUp[m] # "no"}
  <2>0. /\ custody[n] = "released" => n \in handed \cup refused \cup withdrawn
        /\ custody'[n] = "released"
    OBVIOUS
  <2> SUFFICES n \in handed' \cup refused' \cup withdrawn'
    OBVIOUS
  <2>1. CASE UNCHANGED Custody!vars
    <3>1. UNCHANGED <<custody, handed, refused, withdrawn>>
      BY <2>1 DEF Custody!vars
    <3> HIDE DEF custody, handed, refused
    <3> QED
      BY <2>0, <3>1
  <2>2. ASSUME NEW m \in Mails,
               \/ Custody!Accept(m) \/ Custody!Quarantine(m) \/ Custody!Release(m)
        PROVE  n \in handed' \cup refused' \cup withdrawn'
    <3>1. /\ custody' = [custody EXCEPT ![m] = "accepted"] \/ custody' = [custody EXCEPT ![m] = "quarantined"]
          /\ UNCHANGED <<handed, refused, withdrawn>>
      BY <2>2 DEF Custody!Accept, Custody!Quarantine, Custody!Release
    <3>2. custody = [x \in Mails |-> custody[x]]
      OBVIOUS
    <3> HIDE DEF custody, handed, refused
    <3> QED
      BY <2>0, <3>1, <3>2
  <2>3. ASSUME NEW m \in Mails, Custody!HandOver(m) \/ Custody!Refuse(m)
        PROVE  n \in handed' \cup refused' \cup withdrawn'
    <3>1. /\ custody' = custody /\ withdrawn' = withdrawn
          /\ handed \subseteq handed' /\ refused \subseteq refused'
      BY <2>3 DEF Custody!HandOver, Custody!Refuse
    <3> HIDE DEF custody, handed, refused
    <3> QED
      BY <2>0, <3>1
  <2>4. ASSUME NEW m \in Mails, Custody!Forget(m) \/ Custody!Withdraw(m)
        PROVE  n \in handed' \cup refused' \cup withdrawn'
    <3>1. /\ custody' = [custody EXCEPT ![m] = "released"]
          /\ UNCHANGED <<handed, refused>> /\ withdrawn \subseteq withdrawn'
          /\ m \in handed \cup refused \cup withdrawn'
      BY <2>4 DEF Custody!Forget, Custody!Withdraw
    <3>2. custody = [x \in Mails |-> custody[x]]
      OBVIOUS
    <3> HIDE DEF custody, handed, refused
    <3> QED
      BY <2>0, <3>1, <3>2
  <2> QED
    BY <2>1, <2>2, <2>3, <2>4 DEF Custody!Next
<1>3. Kept => NothingLost
  BY DEF NothingLost, CustodyOf
<1> HIDE DEF Kept
<1> QED
  BY <1>1, <1>2, <1>3, CustodyIsKept, PTL DEF KeepsCustody, Custody!Spec
----------------------------------------------------------------------------
(* The log *)

Reports == {"logDelivered", "logBounced"}

\* A loop has workers only while it waits for them
WorkersAwaited ==
  \A l \in Loops : pc[l] # "join" => \A m \in Mails : work[l][m] = "off"

LEMMA AwaitedStep == TypeOK /\ WorkersAwaited /\ [Next]_vars => WorkersAwaited'
<1> SUFFICES ASSUME TypeOK, WorkersAwaited, [Next]_vars PROVE WorkersAwaited'
  OBVIOUS
<1> USE DEF WorkersAwaited
<1>1. ASSUME NEW m \in Mails, Accept(m) \/ Elapse(m) \/ Admin(m) \/ Expire(m)
      PROVE  UNCHANGED <<pc, work>>
  BY <1>1 DEF Accept, InsertRow, Notify, InsertLog, AbandonLog, Elapse, Admin, DeleteEntry,
     RetryEntry, Expire, engineVars, loopVars, workVars
<1>2. ASSUME NEW l \in Loops, Loop(l) PROVE WorkersAwaited'
  <2>1. CASE Scan(l)
    BY <2>1 DEF Scan, MayScan, workVars, TypeOK
  <2>2. CASE MarkDelivering(l)
    BY <2>2 DEF MarkDelivering, TypeOK
  <2>3. CASE Join(l)
    BY <2>3 DEF Join, workVars, TypeOK
  <2> QED
    BY <1>2, <2>1, <2>2, <2>3 DEF Loop
<1>3. ASSUME NEW l \in Loops, NEW m \in Mails, Worker(l, m) PROVE WorkersAwaited'
  <2>1. pc' = pc
    BY <1>3 DEF Worker, Record, Acquire, Try, Attempt, RecordDelivered, ReadRetries, Bounce, Defer,
       RecordLog, loopVars
  <2>2. work[l][m] # "off"
    BY <1>3, WorkerStages DEF Worker, Record
  <2> QED
    BY <1>3, <2>1, <2>2, WorkerStages
<1>4. CASE RetryScan
  BY <1>4 DEF RetryScan, ScanDue, Requeue, workVars, TypeOK
<1>5. CASE Crash
  BY <1>5 DEF Crash
<1>6. CASE Start \/ LoseNotes \/ UNCHANGED vars
  BY <1>6 DEF Start, LoseNotes, vars, loopVars, workVars
<1> QED
  BY <1>1, <1>2, <1>3, <1>4, <1>5, <1>6 DEF Next

\* Nobody but itself keeps a worker from its report, unless the engine stops
LEMMA ReportsKept ==
  ASSUME TypeOK, WorkersAwaited, [Next]_vars, up',
         ~\E l \in Loops, m \in Mails : Worker(l, m),
         NEW k \in Loops, NEW n \in Mails, work[k][n] \in Reports
  PROVE  work'[k][n] \in Reports
<1>1. ASSUME NEW m \in Mails, Accept(m) \/ Elapse(m) \/ Admin(m) \/ Expire(m)
      PROVE  work' = work
  BY <1>1 DEF Accept, InsertRow, Notify, InsertLog, AbandonLog, Elapse, Admin, DeleteEntry,
     RetryEntry, Expire, engineVars, workVars
<1>2. ASSUME NEW l \in Loops, Loop(l) PROVE work'[k][n] = work[k][n]
  <2>1. CASE Scan(l) \/ Join(l)
    BY <2>1 DEF Scan, Join, workVars
  <2>2. CASE MarkDelivering(l)
    <3>1. k # l
      BY <2>2 DEF MarkDelivering, WorkersAwaited, Reports
    <3> QED
      BY <2>2, <3>1 DEF MarkDelivering, TypeOK
  <2> QED
    BY <1>2, <2>1, <2>2 DEF Loop
<1>3. CASE RetryScan \/ Start \/ LoseNotes \/ UNCHANGED vars
  BY <1>3 DEF RetryScan, ScanDue, Requeue, Start, LoseNotes, vars, workVars
<1>4. ~Crash
  BY DEF Crash
<1> QED
  BY <1>1, <1>2, <1>3, <1>4 DEF Next

\* A row goes away when it is decided, or is withdrawn
LEMMA RowsGo ==
  ASSUME TypeOK, [Next]_vars, NEW n \in Mails, row'[n] = "none", row[n] # "none"
  PROVE  row[n] \in {"delivered", "bounced"} \/ n \in withdrawn'
<1> USE DEF TypeOK, dbVars, SetRows
<1>1. ASSUME NEW m \in Mails, Accept(m) \/ Elapse(m) PROVE FALSE
  BY <1>1 DEF Accept, InsertRow, Notify, InsertLog, AbandonLog, Elapse
<1>2. ASSUME NEW m \in Mails, Admin(m) \/ Expire(m)
      PROVE  row[n] \in {"delivered", "bounced"} \/ n \in withdrawn'
  BY <1>2 DEF Admin, DeleteEntry, RetryEntry, Expire
<1>3. ASSUME NEW l \in Loops, Loop(l) PROVE FALSE
  BY <1>3 DEF Loop, Scan, MarkDelivering, Join
<1>4. ASSUME NEW l \in Loops, NEW m \in Mails, Worker(l, m) PROVE FALSE
  BY <1>4, WorkerEffects
<1>5. CASE RetryScan \/ Crash \/ Start \/ LoseNotes \/ UNCHANGED vars
  BY <1>5 DEF RetryScan, ScanDue, Requeue, Crash, Start, LoseNotes, vars, With
<1> QED
  BY <1>1, <1>2, <1>3, <1>4, <1>5 DEF Next

LEMMA LagStep ==
  ASSUME TypeOK, WorkersAwaited, [Next]_vars, NEW n \in Mails, ~Lagging(n), Lagging(n)'
  PROVE  log[n] # "queued" \/ n \in withdrawn' \/ ~up' \/ faults' # faults
<1> SUFFICES ASSUME log[n] = "queued", n \notin withdrawn', up', faults' = faults PROVE FALSE
  OBVIOUS
<1>1. /\ log'[n] = "queued" /\ row'[n] \in {"none", "delivered", "bounced"}
      /\ \A l \in Loops : work'[l][n] \notin Reports
  BY DEF Lagging, Reports
<1>2. row[n] \in {"none", "delivered", "bounced"} => \E l \in Loops : work[l][n] \in Reports
  BY DEF Lagging, Reports
<1>3. CASE ~\E l \in Loops, m \in Mails : Worker(l, m)
  <2>1. row'[n] \in {row[n], "none", "pending", "delivering", "quarantined"}
    BY <1>3, OutcomesByWorkers
  <2>2. row[n] \in {"none", "delivered", "bounced"}
    BY <1>1, <2>1, RowsGo
  <2> QED
    BY <1>1, <1>2, <1>3, <2>2, ReportsKept
<1>4. ASSUME NEW l \in Loops, NEW m \in Mails, Worker(l, m) PROVE FALSE
  <2>1. CASE row'[n] # row[n]
    <3>1. n = m /\ (RecordDelivered(l, m) \/ Bounce(l, m))
      BY <1>1, <1>4, <2>1, WorkerEffects
    <3>2. work'[l][n] \in Reports
      BY <1>4, <3>1, WorkerStages DEF Reports
    <3> QED
      BY <1>1, <3>2
  <2>2. CASE row'[n] = row[n]
    <3>1. PICK k \in Loops : work[k][n] \in Reports
      BY <1>1, <1>2, <2>2
    <3>2. k = l /\ n = m
      BY <1>1, <1>4, <3>1, WorkerStages
    <3>3. RecordLog(l, m)
      BY <1>4, <3>1, <3>2, WorkerStages DEF Worker, Record, Reports
    <3>4. ~Fault
      <4>1. faults \in Nat
        BY BoundsAssumption DEF TypeOK
      <4> QED
        BY <4>1 DEF Fault
    <3>5. log'[m] \in {"delivered", "bounced"}
      BY <3>2, <3>3, <3>4 DEF RecordLog, SetLog, TypeOK
    <3> QED
      BY <1>1, <3>2, <3>5
  <2> QED
    BY <2>1, <2>2
<1> QED
  BY <1>3, <1>4

\* The log falls behind a message only for the reasons given: the safety half of LogCatchesUp, for any
\* mails and bounds.
THEOREM LogLagsOnlyForReason == Spec => LogLagsForReason
<1>1. Init => WorkersAwaited
  BY DEF Init, WorkersAwaited
<1>2. TypeOK /\ WorkersAwaited /\ [Next]_vars =>
        [\A m \in Mails : ~Lagging(m) /\ Lagging(m)' =>
           log[m] # "queued" \/ m \in withdrawn' \/ ~up' \/ faults' # faults]_vars
  BY LagStep
<1> QED
  BY <1>1, <1>2, AwaitedStep, TypeCorrect, PTL DEF Spec, LogLagsForReason
----------------------------------------------------------------------------
(* A worker comes to its end *)

\* A stage is left by a step of the worker itself, or the engine stops
LEMMA LeftAlone ==
  ASSUME TypeOK, WorkersAwaited, [Next]_vars, NEW l \in Loops, NEW m \in Mails,
         work[l][m] \in Running, work'[l][m] # work[l][m]
  PROVE  Worker(l, m) \/ Crash
<1>1. ASSUME NEW k \in Loops, NEW n \in Mails, Worker(k, n) PROVE k = l /\ n = m
  BY <1>1, WorkerStages
<1>2. ASSUME NEW n \in Mails, Accept(n) \/ Elapse(n) \/ Admin(n) \/ Expire(n)
      PROVE  FALSE
  BY <1>2 DEF Accept, InsertRow, Notify, InsertLog, AbandonLog, Elapse, Admin, DeleteEntry,
     RetryEntry, Expire, engineVars, workVars
<1>3. ASSUME NEW k \in Loops, Loop(k) PROVE FALSE
  <2>1. CASE Scan(k) \/ Join(k)
    BY <2>1 DEF Scan, Join, workVars
  <2>2. CASE MarkDelivering(k)
    <3>1. k # l
      BY <2>2 DEF MarkDelivering, WorkersAwaited, Running
    <3> QED
      BY <2>2, <3>1 DEF MarkDelivering, TypeOK
  <2> QED
    BY <1>3, <2>1, <2>2 DEF Loop
<1>4. ~(RetryScan \/ Start \/ LoseNotes \/ UNCHANGED vars)
  BY DEF RetryScan, ScanDue, Requeue, Start, LoseNotes, vars, workVars
<1> QED
  BY <1>1, <1>2, <1>3, <1>4 DEF Next

\* A worker with a permit only goes on, and only by its own steps, or the engine stops.
LEMMA WorkerOnward ==
  ASSUME TypeOK, WorkersAwaited, [Next]_vars, NEW l \in Loops, NEW m \in Mails, work[l][m] \in Running
  PROVE  \/ work'[l][m] \in {work[l][m], "off"}
         \/ Try(l, m) /\ work[l][m] = "sending" /\ work'[l][m] \in {"sent", "temp", "perm"}
         \/ /\ Record(l, m)
            /\ \/ work[l][m] \in {"temp", "perm"} /\ work'[l][m] \in {"tempRead", "permRead"}
               \/ work[l][m] \in {"sent", "tempRead", "permRead"} /\ work'[l][m] \in Reports
<1>1. CASE Worker(l, m)
  BY <1>1, WorkerStages DEF Worker, Record, Running, Reports
<1>2. CASE Crash
  BY <1>2 DEF Crash
<1> QED
  BY <1>1, <1>2, LeftAlone

\* What its statements do to it
LEMMA RecordMoves ==
  ASSUME TypeOK, NEW l \in Loops, NEW m \in Mails, Record(l, m)
  PROVE  /\ work[l][m] \in {"temp", "perm"} => work'[l][m] \in {"tempRead", "permRead"}
         /\ work[l][m] \in {"sent", "tempRead", "permRead"} => work'[l][m] \in Reports \cup {"off"}
         /\ work[l][m] \in Reports => work'[l][m] = "off"
BY WorkerStages DEF Worker, Record, Reports

LEMMA FairIsDelivery ==
  FairSpec => [][Next]_vars /\ [](TypeOK /\ WorkersAwaited)
<1>1. Init => WorkersAwaited
  BY DEF Init, WorkersAwaited
<1> QED
  BY <1>1, AwaitedStep, TypeCorrect, PTL DEF FairSpec, Spec

LEMMA FairWorkers == FairSpec => \A l \in Loops, m \in Mails : WorkerGoesOn(l, m)
  BY PTL DEF FairSpec, Fairness

\* What weak fairness says where there is something to do
LEMMA RecordComes ==
  ASSUME NEW l \in Loops, NEW m \in Mails
  PROVE  FairSpec /\ []EnginePossible => []<>~Answered(l, m) \/ []<><<Record(l, m)>>_vars
<1>1. FairSpec => WorkerGoesOn(l, m)
  BY FairWorkers
<1>2. EnginePossible => (Answered(l, m) => ENABLED <<Record(l, m)>>_vars)
  BY DEF EnginePossible
<1> HIDE DEF EnginePossible, Answered, FairSpec
<1> QED
  BY <1>1, <1>2, PTL DEF WorkerGoesOn

LEMMA AttemptComes ==
  ASSUME NEW l \in Loops, NEW m \in Mails, m \notin Stalled
  PROVE  FairSpec /\ []EnginePossible => []<>~(work[l][m] = "sending") \/ []<><<Try(l, m)>>_vars
<1> DEFINE Sending == work[l][m] = "sending"
<1>1. FairSpec => WorkerGoesOn(l, m)
  BY FairWorkers
<1>2. EnginePossible => (Sending => ENABLED <<Try(l, m)>>_vars)
  BY DEF EnginePossible
<1> HIDE DEF EnginePossible, FairSpec, Sending
<1>3. FairSpec /\ []EnginePossible => []<>~Sending \/ []<><<Try(l, m)>>_vars
  BY <1>1, <1>2, PTL DEF WorkerGoesOn
<1> QED
  BY <1>3 DEF Sending

\* A worker with a permit ends, for any mails, limits and bounds, unless the other server never answers.
\* That it has a statement to execute is a hypothesis here.
THEOREM WorkersEnd == FairSpec /\ []EnginePossible => WorkersFinish
<1> DEFINE Sending(l, m)  == work[l][m] = "sending"
           Result(l, m)   == work[l][m] \in {"temp", "perm"}
           Decided(l, m)  == work[l][m] \in {"sent", "tempRead", "permRead"}
           Report(l, m)   == work[l][m] \in Reports
           Off(l, m)      == work[l][m] = "off"
           Going(l, m)    == work[l][m] \in Running /\ (m \in Stalled => Answered(l, m))
<1>1. ASSUME NEW l \in Loops, NEW m \in Mails
      PROVE  FairSpec /\ []EnginePossible => (Going(l, m) ~> Off(l, m))
  <2> DEFINE Inv == TypeOK /\ WorkersAwaited
  <2>1. Inv /\ Report(l, m) /\ [Next]_vars => Report(l, m)' \/ Off(l, m)'
    BY WorkerOnward DEF Reports, Running, Stages
  <2>2. Inv /\ Report(l, m) /\ <<Record(l, m)>>_vars => Off(l, m)'
    BY RecordMoves
  <2>3. Inv /\ Decided(l, m) /\ [Next]_vars => Decided(l, m)' \/ Report(l, m)' \/ Off(l, m)'
    BY WorkerOnward DEF Reports, Running, Stages
  <2>4. Inv /\ Decided(l, m) /\ <<Record(l, m)>>_vars => Report(l, m)' \/ Off(l, m)'
    BY RecordMoves
  <2>5. Inv /\ Result(l, m) /\ [Next]_vars => Result(l, m)' \/ Decided(l, m)' \/ Off(l, m)'
    BY WorkerOnward DEF Reports, Running, Stages
  <2>6. Inv /\ Result(l, m) /\ <<Record(l, m)>>_vars => Decided(l, m)'
    BY RecordMoves
  <2>7. Inv /\ Sending(l, m) /\ [Next]_vars => Sending(l, m)' \/ Result(l, m)' \/ Decided(l, m)' \/ Off(l, m)'
    BY WorkerOnward DEF Reports, Running, Stages
  <2>8. Inv /\ Sending(l, m) /\ <<Try(l, m)>>_vars => Result(l, m)' \/ Decided(l, m)'
    BY WorkerStages DEF Worker
  <2>9. Report(l, m) \/ Decided(l, m) \/ Result(l, m) <=> Answered(l, m)
    BY DEF Answered, Running, Stages, Reports
  <2>10. m \in Stalled => (Going(l, m) => Answered(l, m))
    OBVIOUS
  <2>11. Going(l, m) => Answered(l, m) \/ Sending(l, m)
    BY DEF Answered
  <2>12. CASE m \in Stalled
    <3>1. Going(l, m) => Answered(l, m)
      BY <2>10, <2>12
    <3> HIDE DEF Going, Sending, Result, Decided, Report, Off, Inv, FairSpec, EnginePossible
    <3> QED
      BY <2>1, <2>2, <2>3, <2>4, <2>5, <2>6, <2>9, <3>1, RecordComes, FairIsDelivery, PTL DEF Inv
  <2>13. CASE m \notin Stalled
    <3>1. FairSpec /\ []EnginePossible => []<>~Sending(l, m) \/ []<><<Try(l, m)>>_vars
      BY <2>13, AttemptComes
    <3> HIDE DEF Going, Sending, Result, Decided, Report, Off, Inv, FairSpec, EnginePossible
    <3> QED
      BY <2>1, <2>2, <2>3, <2>4, <2>5, <2>6, <2>7, <2>8, <2>9, <2>11, <3>1, RecordComes,
         FairIsDelivery, PTL DEF Inv
  <2> QED
    BY <2>12, <2>13
<1> HIDE DEF FairSpec, EnginePossible
<1> QED
  BY <1>1 DEF WorkersFinish
-----------------------------------------------------------------------------
(* What it has to tell arrives *)

\* The worker that goes on to the log, or ends, has written the row
LEMMA WrittenStep ==
  ASSUME TypeOK, WorkersAwaited, [Next]_vars, NEW l \in Loops, NEW m \in Mails,
         work[l][m] \in Trying, work'[l][m] \notin Trying
  PROVE  row'[m] \notin {"pending", "delivering"} \/ m \in lostWrite' \/ ~up'
<1>1. work[l][m] \in Running /\ work'[l][m] # work[l][m]
  BY DEF Trying, Holding, Running, Stages
<1>2. CASE Worker(l, m)
  <2>1. RecordDelivered(l, m) \/ Bounce(l, m) \/ Defer(l, m)
    BY <1>2, WorkerStages DEF Worker, Record, Trying, Holding
  <2>2. CASE \E st \in {"delivered", "bounced", "deferred"} : SetRows({m}, st)
    <3>1. PICK st \in {"delivered", "bounced", "deferred"} : SetRows({m}, st)
      BY <2>2
    <3>2. row'[m] = IF row[m] # "none" THEN st ELSE row[m]
      BY <3>1 DEF SetRows
    <3> QED
      BY <3>2
  <2> QED
    BY <2>1, <2>2, Recording
<1>3. Crash => ~up'
  BY DEF Crash
<1> QED
  BY <1>1, <1>2, <1>3, LeftAlone

LEMMA FaultsGrow == TypeOK /\ [Next]_vars => faults' >= faults
<1> SUFFICES ASSUME TypeOK, [Next]_vars PROVE faults' >= faults
  OBVIOUS
<1>1. faults \in Nat
  BY BoundsAssumption DEF TypeOK
<1>2. CASE UNCHANGED faults \/ Fault
  BY <1>1, <1>2 DEF Fault
<1>3. ASSUME NEW m \in Mails, Accept(m) \/ Elapse(m) \/ Admin(m) \/ Expire(m)
      PROVE  UNCHANGED faults
  BY <1>3 DEF Accept, InsertRow, Notify, InsertLog, AbandonLog, Elapse, Admin, DeleteEntry,
     RetryEntry, Expire, UseOperator, bounds
<1>4. ASSUME NEW l \in Loops, Loop(l) PROVE UNCHANGED faults \/ Fault
  BY <1>4 DEF Loop, Scan, MarkDelivering, Join, NoFault, bounds
<1>5. ASSUME NEW l \in Loops, NEW m \in Mails, Worker(l, m) PROVE UNCHANGED faults \/ Fault
  BY <1>5 DEF Worker, Acquire, Try, Attempt, Record, RecordDelivered, ReadRetries, Bounce, Defer,
     RecordLog, NoFault, bounds
<1>6. CASE RetryScan \/ Crash \/ Start \/ LoseNotes
  <2>1. UNCHANGED faults \/ Fault
    BY <1>6 DEF RetryScan, ScanDue, Requeue, Crash, Start, LoseNotes, NoFault, bounds
  <2> QED
    BY <2>1, <1>2
<1>7. CASE UNCHANGED vars
  BY <1>2, <1>7 DEF vars
<1> QED
  BY <1>2, <1>3, <1>4, <1>5, <1>6, <1>7 DEF Next

\* The last statement of a worker
LEMMA LoggedStep ==
  ASSUME TypeOK, WorkersAwaited, [Next]_vars, NEW l \in Loops, NEW m \in Mails,
         work[l][m] \in Reports, work'[l][m] \notin Reports
  PROVE  log'[m] # "queued" \/ faults' > faults \/ ~up'
<1>1. work[l][m] \in Running /\ work'[l][m] # work[l][m]
  BY DEF Reports, Running, Stages
<1>2. CASE Worker(l, m)
  <2>1. RecordLog(l, m)
    BY <1>2, WorkerStages DEF Worker, Record, Reports
  <2>2. faults \in Nat
    BY BoundsAssumption DEF TypeOK
  <2> QED
    BY <2>1, <2>2 DEF RecordLog, SetLog, Fault, TypeOK
<1>3. Crash => ~up'
  BY DEF Crash
<1> QED
  BY <1>1, <1>2, <1>3, LeftAlone

\* Only the recovery ends a stop
LEMMA DownStep ==
  ASSUME TypeOK, [Next]_vars, ~up, NEW m \in Mails, row[m] = "delivering"
  PROVE  \/ ~up' /\ row'[m] = "delivering"
         \/ row'[m] # "delivering" \/ m \in lostWrite'
<1>1. CASE ~up'
  BY <1>1
<1>2. CASE Start
  BY <1>2 DEF Start, SetRows, With
<1>3. CASE ~Start /\ up'
  <2>1. ASSUME NEW n \in Mails, Accept(n) \/ Elapse(n) \/ Admin(n) \/ Expire(n) PROVE FALSE
    BY <1>3, <2>1 DEF Accept, InsertRow, Notify, InsertLog, AbandonLog, Elapse, Admin, DeleteEntry,
       RetryEntry, Expire, engineVars
  <2>2. ASSUME NEW l \in Loops, Loop(l) PROVE FALSE
    BY <1>3, <2>2 DEF Loop, Scan, MarkDelivering, Join
  <2>3. ASSUME NEW l \in Loops, NEW n \in Mails, Worker(l, n) PROVE FALSE
    BY <1>3, <2>3 DEF Worker, Acquire, Try, Attempt, Record, RecordDelivered, ReadRetries, Bounce,
       Defer, RecordLog
  <2>4. ~(RetryScan \/ Crash \/ LoseNotes \/ UNCHANGED vars)
    BY <1>3 DEF RetryScan, ScanDue, Requeue, Crash, LoseNotes, vars
  <2> QED
    BY <1>3, <2>1, <2>2, <2>3, <2>4 DEF Next
<1> QED
  BY <1>1, <1>2, <1>3

\* The outcome of a delivery that was begun arrives in its row, for any mails, limits and bounds
THEOREM OutcomesAreWritten == FairSpec /\ []EnginePossible => OutcomesArrive
<1> DEFINE Begun(l, m)   == work[l][m] \in Trying /\ (m \in Stalled => Answered(l, m))
           Going(l, m)   == work[l][m] \in Running /\ (m \in Stalled => Answered(l, m))
           Off(l, m)     == work[l][m] = "off"
           Tries(l, m)   == work[l][m] \in Trying
           Written(m)    == row[m] \notin {"pending", "delivering"} \/ m \in lostWrite \/ ~up
           Inv           == TypeOK /\ WorkersAwaited
<1>1. ASSUME NEW l \in Loops, NEW m \in Mails
      PROVE  FairSpec /\ []EnginePossible => (Begun(l, m) ~> Written(m))
  <2>1. FairSpec /\ []EnginePossible => (Going(l, m) ~> Off(l, m))
    <3> HIDE DEF FairSpec, EnginePossible
    <3> QED
      BY WorkersEnd DEF WorkersFinish
  <2>2. Begun(l, m) => Going(l, m) /\ Tries(l, m)
    BY DEF Trying, Holding, Running, Stages
  <2>3. Off(l, m) => ~Tries(l, m)
    BY DEF Trying, Holding
  <2>4. Inv /\ Tries(l, m) /\ [Next]_vars => Tries(l, m)' \/ Written(m)'
    BY WrittenStep
  <2> HIDE DEF Begun, Going, Off, Tries, Written, Inv, FairSpec, EnginePossible
  <2> QED
    BY <2>1, <2>2, <2>3, <2>4, FairIsDelivery, PTL DEF Inv
<1> HIDE DEF FairSpec, EnginePossible
<1> QED
  BY <1>1 DEF OutcomesArrive

\* And its report in the log
THEOREM OutcomesAreLogged == FairSpec /\ []EnginePossible => OutcomesLogged
<1> DEFINE Going(l, m)      == work[l][m] \in Running /\ (m \in Stalled => Answered(l, m))
           Off(l, m)        == work[l][m] = "off"
           Reporting(l, m, f) == work[l][m] \in {"logDelivered", "logBounced"} /\ faults = f
           Yet(l, m, f) == work[l][m] \in Reports /\ faults >= f
           Logged(m, f)     == log[m] # "queued" \/ faults > f \/ ~up
           Inv              == TypeOK /\ WorkersAwaited
<1>1. ASSUME NEW l \in Loops, NEW m \in Mails, NEW f \in 0 .. MaxDbFaults
      PROVE  FairSpec /\ []EnginePossible => (Reporting(l, m, f) ~> Logged(m, f))
  <2>1. FairSpec /\ []EnginePossible => (Going(l, m) ~> Off(l, m))
    <3> HIDE DEF FairSpec, EnginePossible
    <3> QED
      BY WorkersEnd DEF WorkersFinish
  <2>2. Reporting(l, m, f) => Going(l, m) /\ Yet(l, m, f)
    BY BoundsAssumption DEF Answered, Running, Stages, Reports
  <2>3. Off(l, m) => ~Yet(l, m, f)
    BY DEF Reports
  <2>4. Inv /\ Yet(l, m, f) /\ [Next]_vars => Yet(l, m, f)' \/ Logged(m, f)'
    <3> SUFFICES ASSUME Inv, Yet(l, m, f), [Next]_vars
                 PROVE  Yet(l, m, f)' \/ Logged(m, f)'
      OBVIOUS
    <3>1. faults \in Nat /\ faults' \in Nat /\ f \in Nat
      BY BoundsAssumption, TypeStep DEF TypeOK
    <3>2. faults' >= f
      BY <3>1, FaultsGrow
    <3>3. CASE work'[l][m] \in Reports
      BY <3>2, <3>3
    <3>4. CASE work'[l][m] \notin Reports
      BY <3>1, <3>4, LoggedStep
    <3> QED
      BY <3>3, <3>4
  <2> HIDE DEF Reporting, Yet, Going, Off, Logged, Inv, FairSpec, EnginePossible
  <2> QED
    BY <2>1, <2>2, <2>3, <2>4, FairIsDelivery, PTL DEF Inv
<1> HIDE DEF FairSpec, EnginePossible
<1> QED
  BY <1>1 DEF OutcomesLogged

\* What a stop has left in delivery is taken up again
THEOREM RecoveryFollows == FairSpec /\ []EnginePossible => RecoveryComes
<1> DEFINE Left(m) == ~up /\ row[m] = "delivering"
           Recovered(m) == row[m] # "delivering" \/ m \in lostWrite
<1>1. ASSUME NEW m \in Mails
      PROVE  FairSpec /\ []EnginePossible => (Left(m) ~> Recovered(m))
  <2>1. TypeOK /\ Left(m) /\ [Next]_vars => Left(m)' \/ Recovered(m)'
    BY DownStep
  <2>2. Left(m) /\ <<Start>>_vars => Recovered(m)'
    BY DEF Start, SetRows, With
  <2>3. FairSpec => WF_vars(Start)
    BY PTL DEF FairSpec, Fairness
  <2>4. EnginePossible => (Left(m) => ENABLED <<Start>>_vars)
    BY DEF EnginePossible
  <2> HIDE DEF Left, Recovered, FairSpec, EnginePossible
  <2> QED
    BY <2>1, <2>2, <2>3, <2>4, FairIsDelivery, PTL
<1> HIDE DEF FairSpec, EnginePossible
<1> QED
  BY <1>1 DEF RecoveryComes
=============================================================================
