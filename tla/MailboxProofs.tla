--------------------------- MODULE MailboxProofs ---------------------------
(***************************************************************************)
(* Proofs about Mailbox: types, the contract of deliver_local, forwarding, *)
(* the quota and used_bytes.  Any number of calls, sessions and forward    *)
(* addresses, any quota, any number of faults and changes.                 *)
(***************************************************************************)
EXTENDS MailboxProperties, FiniteSetTheorems, TLAPS

\* What CountNew may read is at least nothing and at most all of new/
LEMMA FilesCounted ==
  ASSUME TypeOK
  PROVE  /\ IsFiniteSet(new) /\ Cardinality(new) \in Nat
         /\ Cardinality(new \ partial) \in Nat
<1>1. IsFiniteSet(new)
  BY SetsAssumption, FS_Subset DEF TypeOK
<1>2. IsFiniteSet(new \ partial)
  BY <1>1, FS_Subset
<1> QED
  BY <1>1, <1>2, FS_CardinalityType

\* Finitely many files wait for their addition
LEMMA WaitingCounts == Waiting \in Nat
<1>1. IsFiniteSet({c \in Calls : pc[c] \in {"writing", "count"}})
  BY SetsAssumption, FS_Subset
<1> QED
  BY <1>1, FS_CardinalityType DEF Waiting

\* One step of any process keeps every variable in its type
LEMMA TypeStep == TypeOK /\ [Next]_vars => TypeOK'
<1> USE BoundsAssumption
<1> SUFFICES ASSUME TypeOK, [Next]_vars PROVE TypeOK'
  OBVIOUS
<1> USE DEF TypeOK, store, delivery, pop, counting, excess, bounds, Fault, At, Return
<1>1. ASSUME NEW c \in Calls, Deliver(c) PROVE TypeOK'
  <2>1. CASE Fail(c)
    BY <2>1 DEF Fail
  <2>2. CASE CheckMailbox(c)
    BY <2>2 DEF CheckMailbox
  <2>3. CASE CheckQuota(c)
    BY <2>3 DEF CheckQuota
  <2>4. CASE StartWrite(c)
    BY <2>4 DEF StartWrite
  <2>5. CASE FinishWrite(c)
    BY <2>5 DEF FinishWrite
  <2>6. CASE AddUsed(c)
    BY <2>6 DEF AddUsed
  <2>7. CASE LookupForwards(c)
    BY <2>7 DEF LookupForwards
  <2>8. ASSUME NEW a \in Forwards, InsertForward(c, a) PROVE TypeOK'
    BY <2>8 DEF InsertForward
  <2> QED
    BY <1>1, <2>1, <2>2, <2>3, <2>4, <2>5, <2>6, <2>7, <2>8 DEF Deliver
<1>2. ASSUME NEW s \in Sessions, Pop3(s) PROVE TypeOK'
  <2>1. CASE Authenticate(s)
    BY <2>1 DEF Authenticate
  <2>2. CASE Unmark(s)
    BY <2>2 DEF Unmark
  <2>3. CASE Quit(s)
    BY <2>3 DEF Quit
  <2>4. CASE Close(s)
    BY <2>4 DEF Close
  <2>5. ASSUME NEW c \in Calls, Mark(s, c) PROVE TypeOK'
    BY <2>5 DEF Mark
  <2>6. ASSUME NEW c \in Calls, Remove(s, c) PROVE TypeOK'
    BY <2>6 DEF Remove
  <2> QED
    BY <1>2, <2>1, <2>2, <2>3, <2>4, <2>5, <2>6 DEF Pop3
<1>3. CASE CopySent
  BY <1>3 DEF CopySent
<1>4. CASE CountSent
  <2>1. copying' \in BOOLEAN
    BY <1>4, Zenon DEF CountSent
  <2>2. /\ used' \in Nat /\ slipped' \in Nat /\ faults' \in 0 .. MaxFaults
        /\ UNCHANGED <<account, new, partial, sent, queued, delivery, pop, counting,
                       stored, unseen, excess, recounts, changes>>
    BY <1>4 DEF CountSent
  <2> QED
    BY <2>1, <2>2
<1>5. CASE Recount
  <2>1. CASE StartRecount
    BY <2>1 DEF StartRecount
  <2>2. CASE CountNew
    <3>1. PICK k \in Cardinality(new \ partial) .. Cardinality(new) :
            total' = k /\ unseen' = unseen + Cardinality(new) - k
      BY <2>2 DEF CountNew
    <3>2. total' \in Nat /\ unseen' \in Nat
      BY <3>1, FilesCounted
    <3> QED
      BY <2>2, <3>2 DEF CountNew
  <2>3. CASE CountSentDir
    BY <2>3 DEF CountSentDir
  <2>4. CASE StoreCount
    BY <2>4, WaitingCounts DEF StoreCount
  <2> QED
    BY <1>5, <2>1, <2>2, <2>3, <2>4 DEF Recount
<1>6. ASSUME NEW state \in {"enabled", "disabled", "gone"}, Change(state) PROVE TypeOK'
  BY <1>6 DEF Change
<1>7. CASE UNCHANGED vars
  BY <1>7 DEF vars
<1> QED
  BY <1>1, <1>2, <1>3, <1>4, <1>5, <1>6, <1>7 DEF Next

\* Every reachable state is well typed; used_bytes and the history counters stay
\* natural numbers, though the recount subtracts what it did not see.
THEOREM TypeCorrect == Spec => []TypeOK
<1>1. Init => TypeOK
  <2>1. Init => copying \in BOOLEAN
    BY Zenon DEF Init
  <2> QED
    BY <2>1, BoundsAssumption DEF Init, TypeOK
<1> QED
  BY <1>1, TypeStep, PTL DEF Spec
----------------------------------------------------------------------------
(* The contract of deliver_local *)

\* The processes that are not calls of deliver_local leave its variables alone
LEMMA OutsideCalls ==
  ASSUME [Next]_vars, ~\E c \in Calls : Deliver(c)
  PROVE  UNCHANGED <<pc, result, stored, queued>>
<1> USE DEF store, delivery, pop, counting, bounds
<1>1. ASSUME NEW s \in Sessions, Pop3(s) PROVE UNCHANGED <<pc, result, stored, queued>>
  BY <1>1 DEF Pop3, Authenticate, Mark, Unmark, Quit, Remove, Close
<1>2. CASE CopySent \/ CountSent
  BY <1>2 DEF CopySent, CountSent
<1>3. CASE Recount
  BY <1>3 DEF Recount, StartRecount, CountNew, CountSentDir, StoreCount
<1>4. ASSUME NEW state \in {"enabled", "disabled", "gone"}, Change(state)
      PROVE  UNCHANGED <<pc, result, stored, queued>>
  BY <1>4 DEF Change
<1>5. CASE UNCHANGED vars
  BY <1>5 DEF vars
<1> QED
  BY <1>1, <1>2, <1>3, <1>4, <1>5 DEF Next

\* What one step of a call does to that call, and that it does nothing to another
LEMMA CallSteps ==
  ASSUME TypeOK, NEW c \in Calls, Deliver(c)
  PROVE  /\ \A d \in Calls : d # c => /\ pc'[d] = pc[d] /\ result'[d] = result[d]
                                      /\ queued'[d] = queued[d]
                                      /\ d \in stored' <=> d \in stored
         /\ pc[c] # "done"
         /\ stored \subseteq stored'
         /\ pc'[c] = "done" => result'[c] \in {"sent", "temp", "perm"}
         /\ \/ pc'[c] # "done" /\ result'[c] = result[c]
            \/ pc'[c] = "done" /\ result'[c] # "sent" /\ UNCHANGED stored
            \/ pc'[c] = "done" /\ pc[c] \in {"lookup", "forward"} /\ UNCHANGED stored
         /\ pc'[c] \in {"count", "lookup", "forward"} =>
              c \in stored' \/ pc[c] \in {"count", "lookup", "forward"}
<1> USE DEF TypeOK, At, Return, Fault, store, delivery, pop, counting, bounds
<1>1. CASE Fail(c)
  BY <1>1 DEF Fail
<1>2. CASE CheckMailbox(c)
  BY <1>2 DEF CheckMailbox
<1>3. CASE CheckQuota(c)
  BY <1>3 DEF CheckQuota
<1>4. CASE StartWrite(c)
  BY <1>4 DEF StartWrite
<1>5. CASE FinishWrite(c)
  BY <1>5 DEF FinishWrite
<1>6. CASE AddUsed(c)
  BY <1>6 DEF AddUsed
<1>7. CASE LookupForwards(c)
  BY <1>7 DEF LookupForwards
<1>8. ASSUME NEW a \in Forwards, InsertForward(c, a)
      PROVE  /\ \A d \in Calls : d # c => pc'[d] = pc[d] /\ result'[d] = result[d]
                                          /\ queued'[d] = queued[d]
             /\ pc[c] = "forward" /\ UNCHANGED stored
             /\ \/ pc'[c] = "forward" /\ result'[c] = result[c]
                \/ pc'[c] = "done" /\ result'[c] = "sent"
  BY <1>8 DEF InsertForward
<1> QED
  BY <1>1, <1>2, <1>3, <1>4, <1>5, <1>6, <1>7, <1>8 DEF Deliver

\* A call past the write has stored its mail, and keeps its result
LEMMA StoredInvariant == Spec => []StoredOnceWritten
<1>1. Init => StoredOnceWritten
  BY DEF Init, StoredOnceWritten
<1>2. TypeOK /\ StoredOnceWritten /\ [Next]_vars => StoredOnceWritten'
  <2> SUFFICES ASSUME TypeOK, StoredOnceWritten, [Next]_vars PROVE StoredOnceWritten'
    OBVIOUS
  <2>1. CASE ~\E c \in Calls : Deliver(c)
    BY <2>1, OutsideCalls DEF StoredOnceWritten
  <2>2. ASSUME NEW c \in Calls, Deliver(c) PROVE StoredOnceWritten'
    BY <2>2, CallSteps DEF StoredOnceWritten
  <2> QED
    BY <2>1, <2>2
<1> QED
  BY <1>1, <1>2, TypeCorrect, PTL DEF Spec

\* deliver_local implements DeliveryAttempt: whatever fails and whatever the other
\* processes do, Ok is returned only after the mail was completely written.
THEOREM ContractIsKept == Spec => KeepsContract
<1> DEFINE Step == \A c \in Calls : Attempt(c)!Next \/ UNCHANGED Attempt(c)!vars
<1>1. Init => \A c \in Calls : Attempt(c)!Init
  BY DEF Init, Attempt!Init
<1>2. TypeOK /\ StoredOnceWritten /\ [Next]_vars => Step
  <2> SUFFICES ASSUME TypeOK, StoredOnceWritten, [Next]_vars, NEW c \in Calls
               PROVE  Attempt(c)!Next \/ UNCHANGED Attempt(c)!vars
    BY DEF Step
  <2> USE DEF Attempt!vars
  <2>1. CASE ~\E d \in Calls : Deliver(d)
    BY <2>1, OutsideCalls
  <2>2. ASSUME NEW d \in Calls, Deliver(d), d # c
        PROVE  UNCHANGED Attempt(c)!vars
    <3>1. result'[c] = result[c] /\ (c \in stored' <=> c \in stored)
      BY <2>2, CallSteps
    <3> QED
      BY <3>1
  <2>3. ASSUME Deliver(c)
        PROVE  Attempt(c)!Next \/ UNCHANGED Attempt(c)!vars
    <3>1. result[c] = "none"
      BY <2>3, CallSteps DEF StoredOnceWritten
    <3>2. CASE pc'[c] # "done"
      <4>1. result'[c] = result[c] /\ stored \subseteq stored'
        BY <2>3, <3>2, CallSteps
      <4>2. (c \in stored' <=> c \in stored) \/ (c \in stored') = TRUE
        BY <4>1, Zenon
      <4> QED
        BY <3>1, <4>1, <4>2 DEF Attempt!Next, Attempt!HandOver
    <3>3. CASE pc'[c] = "done"
      <4>1. /\ UNCHANGED stored
            /\ result'[c] # "sent" \/ pc[c] \in {"lookup", "forward"}
        BY <2>3, <3>3, CallSteps
      <4>2. result'[c] = "sent" => c \in stored
        BY <4>1 DEF StoredOnceWritten
      <4>3. result'[c] \in {"sent", "temp", "perm"}
        BY <2>3, <3>3, CallSteps
      <4> QED
        BY <3>1, <4>1, <4>2, <4>3 DEF Attempt!Next, Attempt!Return
    <3> QED
      BY <3>2, <3>3
  <2> QED
    BY <2>1, <2>2, <2>3
<1> QED
  BY <1>1, <1>2, TypeCorrect, StoredInvariant, PTL DEF Spec, KeepsContract
----------------------------------------------------------------------------
(* Forwards *)

\* A mailbox that was deleted does not come back
LEMMA GoneForGood ==
  ASSUME [Next]_vars, account = "gone"
  PROVE  account' = "gone"
<1> USE DEF store
<1>1. ASSUME NEW c \in Calls, Deliver(c) PROVE UNCHANGED account
  BY <1>1 DEF Deliver, Fail, CheckMailbox, CheckQuota, StartWrite, FinishWrite, AddUsed,
              LookupForwards, InsertForward
<1>2. ASSUME NEW s \in Sessions, Pop3(s) PROVE UNCHANGED account
  BY <1>2 DEF Pop3, Authenticate, Mark, Unmark, Quit, Remove, Close
<1>3. CASE CopySent \/ CountSent
  BY <1>3 DEF CopySent, CountSent
<1>4. CASE Recount
  BY <1>4 DEF Recount, StartRecount, CountNew, CountSentDir, StoreCount
<1>5. ASSUME NEW state \in {"enabled", "disabled", "gone"}, Change(state) PROVE FALSE
  BY <1>5 DEF Change
<1>6. CASE UNCHANGED vars
  BY <1>6 DEF vars
<1> QED
  BY <1>1, <1>2, <1>3, <1>4, <1>5, <1>6 DEF Next

\* Ok also means that every forward row was inserted, unless the mailbox is gone:
\* an INSERT that fails ends the call with an error (deliver_local).
THEOREM ForwardsAreAll == Spec => []ForwardsAll
<1> DEFINE NoneYet == \A c \in Calls : pc[c] \notin {"forward", "done"} => queued[c] = {}
           Inv == ForwardsAll /\ NoneYet
<1>1. Init => Inv
  BY DEF Init, ForwardsAll
<1>2. TypeOK /\ StoredOnceWritten /\ Inv /\ [Next]_vars => Inv'
  <2> SUFFICES ASSUME TypeOK, StoredOnceWritten, Inv, [Next]_vars PROVE Inv'
    OBVIOUS
  <2>1. CASE ~\E c \in Calls : Deliver(c)
    <3>1. account = "gone" => account' = "gone"
      BY <2>1, GoneForGood
    <3> QED
      BY <2>1, <3>1, OutsideCalls DEF ForwardsAll
  <2>2. ASSUME NEW c \in Calls, Deliver(c) PROVE Inv'
    <3>1. account = "gone" => account' = "gone"
      BY GoneForGood
    <3>2. /\ pc'[c] \notin {"forward", "done"} => queued'[c] = {}
          /\ result'[c] = "sent" => queued'[c] = Forwards \/ (queued'[c] = {} /\ account = "gone")
      <4> USE DEF TypeOK, StoredOnceWritten, At, Return, store, delivery
      <4>1. CASE Fail(c)
        BY <4>1 DEF Fail
      <4>2. CASE CheckMailbox(c)
        BY <4>2 DEF CheckMailbox
      <4>3. CASE CheckQuota(c)
        BY <4>3 DEF CheckQuota
      <4>4. CASE StartWrite(c)
        BY <4>4 DEF StartWrite
      <4>5. CASE FinishWrite(c)
        BY <4>5 DEF FinishWrite
      <4>6. CASE AddUsed(c)
        BY <4>6 DEF AddUsed
      <4>7. CASE LookupForwards(c)
        BY <4>7 DEF LookupForwards
      <4>8. ASSUME NEW a \in Forwards, InsertForward(c, a)
            PROVE  pc'[c] \in {"forward", "done"}
                   /\ (result'[c] = "sent" => queued'[c] = Forwards)
        BY <4>8 DEF InsertForward
      <4> QED
        BY <2>2, <4>1, <4>2, <4>3, <4>4, <4>5, <4>6, <4>7, <4>8 DEF Deliver
    <3> QED
      BY <2>2, <3>1, <3>2, CallSteps DEF ForwardsAll
  <2> QED
    BY <2>1, <2>2
<1> HIDE DEF Inv
<1>3. Spec => []Inv
  BY <1>1, <1>2, TypeCorrect, StoredInvariant, PTL DEF Spec
<1> QED
  BY <1>3, PTL DEF Inv

----------------------------------------------------------------------------
(* Numbers of calls at a stage *)

\* The calls whose stage is in A
In(A) == {c \in Calls : pc[c] \in A}

Checked == {"write"}                 \* past the quota check, nothing written yet
Pending == {"writing", "count"}      \* written or being written, not counted
Active  == {"quota", "write", "writing", "count", "lookup", "forward"}

\* There are finitely many
LEMMA InSizes ==
  ASSUME NEW A
  PROVE  IsFiniteSet(In(A)) /\ Cardinality(In(A)) \in Nat
<1>1. IsFiniteSet(In(A))
  BY SetsAssumption, FS_Subset DEF In
<1> QED
  BY <1>1, FS_CardinalityType

\* One call moves from one stage to another
LEMMA InMoves ==
  ASSUME NEW c \in Calls, \A d \in Calls : d # c => pc'[d] = pc[d], NEW A
  PROVE  /\ Cardinality(In(A)') \in Nat
         /\ pc[c] \in A /\ pc'[c] \notin A => Cardinality(In(A)') = Cardinality(In(A)) - 1
         /\ pc[c] \notin A /\ pc'[c] \in A => Cardinality(In(A)') = Cardinality(In(A)) + 1
         /\ (pc[c] \in A <=> pc'[c] \in A) => Cardinality(In(A)') = Cardinality(In(A))
<1>1. IsFiniteSet(In(A)) /\ Cardinality(In(A)) \in Nat
  BY InSizes
<1>2. IsFiniteSet(In(A)')
  BY SetsAssumption, FS_Subset DEF In
<1>3. Cardinality(In(A)') \in Nat
  BY <1>2, FS_CardinalityType
<1>4. CASE pc[c] \in A /\ pc'[c] \notin A
  <2>1. In(A)' = In(A) \ {c} /\ c \in In(A)
    BY <1>4 DEF In
  <2> QED
    BY <1>1, <1>3, <1>4, <2>1, FS_RemoveElement
<1>5. CASE pc[c] \notin A /\ pc'[c] \in A
  <2>1. In(A)' = In(A) \cup {c} /\ c \notin In(A)
    BY <1>5 DEF In
  <2> QED
    BY <1>1, <1>3, <1>5, <2>1, FS_AddElement
<1>6. CASE pc[c] \in A <=> pc'[c] \in A
  <2>1. In(A)' = In(A)
    BY <1>6 DEF In
  <2> QED
    BY <1>1, <1>3, <1>6, <2>1
<1> QED
  BY <1>3, <1>4, <1>5, <1>6

\* Calls that have passed the check and are not counted yet all run
LEMMA InFits == Cardinality(In(Checked)) + Cardinality(In(Pending)) <= Cardinality(In(Active))
<1>1. In(Checked) \cap In(Pending) = {} /\ In(Checked) \cup In(Pending) \subseteq In(Active)
  BY DEF In, Checked, Pending, Active
<1>2. /\ IsFiniteSet(In(Checked)) /\ Cardinality(In(Checked)) \in Nat
      /\ IsFiniteSet(In(Pending)) /\ Cardinality(In(Pending)) \in Nat
      /\ IsFiniteSet(In(Active)) /\ Cardinality(In(Active)) \in Nat
  BY InSizes
<1>3. Cardinality(In(Checked) \cup In(Pending)) <= Cardinality(In(Active))
  BY <1>1, <1>2, FS_Subset
<1>4. Cardinality(In(Checked) \cup In(Pending)) =
        Cardinality(In(Checked)) + Cardinality(In(Pending)) - 0
  BY <1>1, <1>2, FS_Union, FS_EmptySet
<1> QED
  BY <1>2, <1>3, <1>4
----------------------------------------------------------------------------
(* The quota: the invariant *)

Files     == Cardinality(new)
Admitted  == Cardinality(In(Checked))
Uncounted == Cardinality(In(Pending))
Running   == Cardinality(In(Active))
Copying   == IF copying THEN 1 ELSE 0

\* Calls that passed the check of the quota already have their place; what a recount
\* will store is short by what it could not see; the calls that run are at most
\* Workers.
QuotaInv ==
  /\ Running <= Workers
  /\ copying => sent > 0
  /\ Files + sent <= used + Uncounted + Copying + slipped
  /\ recount = "sent" => Files <= total + unseen
  /\ recount = "store" => Files + sent <= total + unseen
  /\ Quota > 0 /\ account # "gone" => Files + Admitted <= Quota + Workers - 1 + slipped

Shift(a, u, r) ==
  /\ Admitted' = Admitted + a
  /\ Uncounted' = Uncounted + u
  /\ Running' = Running + r

\* How the move of one call changes the numbers of calls
LEMMA StageMoves ==
  ASSUME NEW c \in Calls, \A d \in Calls : d # c => pc'[d] = pc[d]
  PROVE  LET from == pc[c]  to == pc'[c]
         IN  /\ from = "idle"    /\ to = "quota"   => Shift(0, 0, 1)
             /\ from = "idle"    /\ to = "done"    => Shift(0, 0, 0)
             /\ from = "quota"   /\ to = "write"   => Shift(1, 0, 0)
             /\ from = "write"   /\ to = "writing" => Shift(-1, 1, 0)
             /\ from = "writing" /\ to = "count"   => Shift(0, 0, 0)
             /\ from = "count"   /\ to = "lookup"  => Shift(0, -1, 0)
             /\ from \in {"lookup", "forward"} /\ to = "forward"       => Shift(0, 0, 0)
             /\ from \in {"quota", "lookup", "forward"} /\ to = "done" => Shift(0, 0, -1)
             /\ from = "write" /\ to = "done"                => Shift(-1, 0, -1)
             /\ from \in {"writing", "count"} /\ to = "done" => Shift(0, -1, -1)
<1> DEFINE Moved(A) ==
             /\ Cardinality(In(A)') \in Nat
             /\ pc[c] \in A /\ pc'[c] \notin A => Cardinality(In(A)') = Cardinality(In(A)) - 1
             /\ pc[c] \notin A /\ pc'[c] \in A => Cardinality(In(A)') = Cardinality(In(A)) + 1
             /\ (pc[c] \in A <=> pc'[c] \in A) => Cardinality(In(A)') = Cardinality(In(A))
<1>1. Moved(Checked) /\ Moved(Pending) /\ Moved(Active)
  BY InMoves DEF Checked, Pending, Active
<1>2. /\ Cardinality(In(Checked)) \in Nat /\ Cardinality(In(Pending)) \in Nat
      /\ Cardinality(In(Active)) \in Nat
  BY InSizes
<1> QED
  BY <1>1, <1>2 DEF Shift, Admitted, Uncounted, Running, Checked, Pending, Active

\* All these numbers are natural numbers, and what was admitted and is not counted runs
LEMMA Sizes ==
  ASSUME TypeOK
  PROVE  /\ Admitted \in Nat /\ Uncounted \in Nat /\ Running \in Nat /\ Files \in Nat /\ Copying \in Nat
         /\ used \in Nat /\ sent \in Nat /\ slipped \in Nat /\ unseen \in Nat /\ total \in Nat
         /\ Admitted + Uncounted <= Running
  BY InSizes, InFits, FilesCounted, BoundsAssumption
     DEF Admitted, Uncounted, Running, Files, Copying, TypeOK, Checked, Pending, Active

\* ... in the next state, too
LEMMA FitsNext == (Admitted + Uncounted <= Running)'
<1>1. Admitted + Uncounted <= Running
  BY InFits DEF Admitted, Uncounted, Running, Checked, Pending, Active
<1> QED
  BY <1>1, PTL

\* Adding a file, and removing one
LEMMA FilesChange ==
  ASSUME TypeOK, NEW c \in Calls
  PROVE  /\ new' = new \cup {c} => Files' \in Nat /\ Files' <= Files + 1
         /\ new' = new \ {c} => Files' \in Nat /\ Files' <= Files
<1>1. IsFiniteSet(new) /\ Cardinality(new) \in Nat
  BY FilesCounted
<1>2. /\ Cardinality(new \cup {c}) \in Nat /\ Cardinality(new \cup {c}) <= Cardinality(new) + 1
  BY <1>1, FS_AddElement
<1>3. IsFiniteSet(new \ {c}) /\ Cardinality(new \ {c}) <= Cardinality(new)
  BY <1>1, FS_RemoveElement
<1>4. Cardinality(new \ {c}) \in Nat
  BY <1>3, FS_CardinalityType
<1> QED
  BY <1>2, <1>3, <1>4 DEF Files

\* Every step of every process keeps the invariant
LEMMA QuotaStep == TypeOK /\ QuotaInv /\ [Next]_vars => QuotaInv'
<1> SUFFICES ASSUME TypeOK, QuotaInv, [Next]_vars PROVE QuotaInv'
  OBVIOUS
<1>1. ASSUME NEW c \in Calls, Deliver(c) PROVE QuotaInv'
  <2> USE DEF At, Return, store, delivery, pop, counting, bounds
  <2>m. \A d \in Calls : d # c => pc'[d] = pc[d]
    BY <1>1, CallSteps
  <2> DEFINE Same == UNCHANGED <<account, used, sent, copying, recount, total, Files>>
  <2>1. CASE Fail(c)
    <3>1. /\ pc[c] \in {"idle", "quota", "write", "lookup", "forward"} /\ pc'[c] = "done"
          /\ Same /\ UNCHANGED <<slipped, unseen>>
      BY <2>1 DEF Fail, Files, TypeOK
    <3> QED
      BY <3>1, <2>m, StageMoves, Sizes, QuotaAssumption, WorkersAssumption DEF Shift, QuotaInv, Copying
  <2>2. CASE CheckMailbox(c)
    <3>1. /\ pc[c] = "idle" /\ pc'[c] \in {"quota", "done"}
          /\ Cardinality(Busy) < Workers
          /\ Same /\ UNCHANGED <<slipped, unseen>>
      BY <2>2 DEF CheckMailbox, Files, TypeOK
    <3>2. Busy = In(Active)
      BY DEF Busy, In, Active, TypeOK
    <3>3. Running < Workers
      BY <3>1, <3>2 DEF Running
    <3> QED
      BY <3>1, <3>3, <2>m, StageMoves, Sizes, QuotaAssumption, WorkersAssumption DEF Shift, QuotaInv, Copying
  <2>3. CASE CheckQuota(c)
    <3>1. /\ pc[c] = "quota" /\ pc'[c] \in {"write", "done"}
          /\ pc'[c] = "write" => account = "gone" \/ (Quota > 0 /\ used < Quota)
          /\ Same /\ UNCHANGED <<slipped, unseen>>
      BY <2>3 DEF CheckQuota, HasRoom, Files, TypeOK
    <3>2. UNCHANGED Copying
      BY <3>1 DEF Copying
    <3>3. Copying <= sent
      BY Sizes DEF QuotaInv, Copying
    <3>4. CASE pc'[c] = "done"
      BY <3>1, <3>2, <3>4, <2>m, StageMoves, Sizes, QuotaAssumption, WorkersAssumption DEF Shift, QuotaInv
    <3>5. CASE pc'[c] = "write"
      <4>1. Admitted' = Admitted + 1 /\ Uncounted' = Uncounted /\ Running' = Running
        BY <3>1, <3>5, <2>m, StageMoves, Sizes DEF Shift
      <4>2. Admitted' + Uncounted' <= Running'
        BY FitsNext
      <4>3. Quota > 0 /\ account # "gone" => Files + Admitted' <= Quota + Workers - 1 + slipped
        BY <3>1, <3>3, <3>5, <4>1, <4>2, Sizes, QuotaAssumption, WorkersAssumption DEF QuotaInv
      <4> QED
        BY <3>1, <3>2, <4>1, <4>3, Sizes, QuotaAssumption, WorkersAssumption DEF QuotaInv
    <3> QED
      BY <3>1, <3>4, <3>5
  <2>4. CASE StartWrite(c)
    <3>1. /\ pc[c] = "write" /\ pc'[c] = "writing"
          /\ new' = new \cup {c}
          /\ recount \in {"sent", "store"} => unseen' = unseen + 1
          /\ UNCHANGED <<account, used, sent, copying, recount, total, slipped>>
      BY <2>4 DEF StartWrite, TypeOK
    <3>2. Files' \in Nat /\ Files' <= Files + 1
      BY <3>1, FilesChange
    <3>3. UNCHANGED Copying
      BY <3>1 DEF Copying
    <3>4. Admitted' = Admitted - 1 /\ Uncounted' = Uncounted + 1 /\ Running' = Running
      BY <3>1, <2>m, StageMoves, Sizes DEF Shift
    <3> QED
      BY <3>1, <3>2, <3>3, <3>4, Sizes, QuotaAssumption, WorkersAssumption DEF QuotaInv
  <2>5. CASE FinishWrite(c)
    <3>1. /\ pc[c] = "writing" /\ Same /\ UNCHANGED unseen
          /\ \/ pc'[c] = "count" /\ UNCHANGED slipped
             \/ pc'[c] = "done" /\ slipped' = slipped + 1
      BY <2>5 DEF FinishWrite, Files, TypeOK
    <3>2. UNCHANGED Copying
      BY <3>1 DEF Copying
    <3> QED
      BY <3>1, <3>2, <2>m, StageMoves, Sizes, QuotaAssumption, WorkersAssumption DEF Shift, QuotaInv
  <2>6. CASE AddUsed(c)
    <3>1. /\ pc[c] = "count"
          /\ UNCHANGED <<account, sent, copying, recount, total, unseen, Files>>
          /\ \/ pc'[c] = "lookup" /\ used' = used + 1 /\ slipped' = slipped
             \/ pc'[c] \in {"lookup", "done"} /\ used' = used /\ slipped' = slipped + 1
      BY <2>6 DEF AddUsed, Files, TypeOK
    <3>2. UNCHANGED Copying
      BY <3>1 DEF Copying
    <3> QED
      BY <3>1, <3>2, <2>m, StageMoves, Sizes, QuotaAssumption, WorkersAssumption DEF Shift, QuotaInv
  <2>7. CASE LookupForwards(c)
    <3>1. /\ pc[c] = "lookup" /\ pc'[c] \in {"forward", "done"}
          /\ Same /\ UNCHANGED <<slipped, unseen>>
      BY <2>7 DEF LookupForwards, Files, TypeOK
    <3> QED
      BY <3>1, <2>m, StageMoves, Sizes, QuotaAssumption, WorkersAssumption DEF Shift, QuotaInv, Copying
  <2>8. ASSUME NEW a \in Forwards, InsertForward(c, a) PROVE QuotaInv'
    <3>1. /\ pc[c] = "forward" /\ pc'[c] \in {"forward", "done"}
          /\ Same /\ UNCHANGED <<slipped, unseen>>
      BY <2>8 DEF InsertForward, Files, TypeOK
    <3> QED
      BY <3>1, <2>m, StageMoves, Sizes, QuotaAssumption, WorkersAssumption DEF Shift, QuotaInv, Copying
  <2> QED
    BY <1>1, <2>1, <2>2, <2>3, <2>4, <2>5, <2>6, <2>7, <2>8 DEF Deliver
<1>2. ASSUME NEW s \in Sessions, Pop3(s) PROVE QuotaInv'
  <2>1. /\ UNCHANGED <<pc, account, used, sent, copying, recount, total, slipped, unseen>>
        /\ new' = new \/ \E c \in Calls : new' = new \ {c}
    BY <1>2 DEF Pop3, Authenticate, Mark, Unmark, Quit, Remove, Close, store, delivery,
                counting, bounds
  <2>2. UNCHANGED <<Admitted, Uncounted, Running, Copying>>
    BY <2>1 DEF Admitted, Uncounted, Running, Copying, In
  <2>3. Files' \in Nat /\ Files' <= Files
    BY <2>1, FilesChange, Sizes DEF Files
  <2> QED
    BY <2>1, <2>2, <2>3, Sizes, QuotaAssumption, WorkersAssumption DEF QuotaInv
<1>3. CASE CopySent
  <2>1. /\ UNCHANGED <<pc, account, used, new, recount, total, slipped>>
        /\ ~copying /\ copying' /\ sent' = sent + 1
        /\ IF recount = "store" THEN unseen' = unseen + 1 ELSE unseen' = unseen
    BY <1>3 DEF CopySent, delivery, counting, bounds
  <2>2. UNCHANGED <<Admitted, Uncounted, Running, Files>> /\ Copying = 0 /\ Copying' = 1
    BY <2>1 DEF Admitted, Uncounted, Running, Files, Copying, In
  <2> QED
    BY <2>1, <2>2, Sizes, QuotaAssumption, WorkersAssumption DEF QuotaInv
<1>4. CASE CountSent
  <2>1. /\ UNCHANGED <<pc, account, sent, new, recount, total, unseen>>
        /\ copying /\ ~copying'
        /\ \/ used' = used + 1 /\ slipped' = slipped
           \/ used' = used /\ slipped' = slipped + 1
    BY <1>4 DEF CountSent, delivery, counting
  <2>2. UNCHANGED <<Admitted, Uncounted, Running, Files>> /\ Copying = 1 /\ Copying' = 0
    BY <2>1 DEF Admitted, Uncounted, Running, Files, Copying, In
  <2> QED
    BY <2>1, <2>2, Sizes, QuotaAssumption, WorkersAssumption DEF QuotaInv
<1>5. CASE Recount
  <2>0. UNCHANGED <<pc, account, sent, new, copying>>
    BY <1>5 DEF Recount, StartRecount, CountNew, CountSentDir, StoreCount, store, delivery
  <2>1. /\ UNCHANGED <<account, sent, copying>>
        /\ UNCHANGED <<Admitted, Uncounted, Running, Files, Copying>>
    BY <2>0 DEF Admitted, Uncounted, Running, Files, Copying, In
  <2>2. CASE StartRecount
    <3>1. UNCHANGED <<used, slipped>> /\ recount' = "new"
      BY <2>2 DEF StartRecount, store
    <3> QED
      BY <2>1, <3>1, Sizes, QuotaAssumption, WorkersAssumption DEF QuotaInv
  <2>3. CASE CountNew
    <3>1. UNCHANGED <<used, slipped>> /\ recount' = "sent"
      BY <2>3 DEF CountNew, store
    <3>2. PICK k \in Cardinality(new \ partial) .. Cardinality(new) :
            total' = k /\ unseen' = unseen + Files - k
      BY <2>3 DEF CountNew, Files
    <3>3. Files <= total' + unseen'
      BY <3>2, Sizes, FilesCounted
    <3> QED
      BY <2>1, <3>1, <3>3, Sizes, QuotaAssumption, WorkersAssumption DEF QuotaInv
  <2>4. CASE CountSentDir
    <3>1. UNCHANGED <<used, slipped, unseen>> /\ recount = "sent" /\ recount' = "store"
          /\ total' = total + sent
      BY <2>4 DEF CountSentDir, store
    <3> QED
      BY <2>1, <3>1, Sizes, QuotaAssumption, WorkersAssumption DEF QuotaInv
  <2>5. CASE StoreCount
    <3>1. /\ recount = "store" /\ recount' = "off"
          /\ \/ UNCHANGED <<used, slipped>>
             \/ used' = total /\ slipped' = slipped + unseen
      BY <2>5 DEF StoreCount
    <3> QED
      BY <2>1, <3>1, Sizes, QuotaAssumption, WorkersAssumption DEF QuotaInv
  <2> QED
    BY <1>5, <2>2, <2>3, <2>4, <2>5 DEF Recount
<1>6. ASSUME NEW state \in {"enabled", "disabled", "gone"}, Change(state) PROVE QuotaInv'
  <2>1. /\ UNCHANGED <<pc, used, sent, new, copying, recount, total, slipped, unseen>>
        /\ account # "gone"
    BY <1>6 DEF Change, delivery, counting
  <2>2. UNCHANGED <<Admitted, Uncounted, Running, Files, Copying>>
    BY <2>1 DEF Admitted, Uncounted, Running, Files, Copying, In
  <2> QED
    BY <2>1, <2>2 DEF QuotaInv
<1>7. CASE UNCHANGED vars
  BY <1>7 DEF vars, QuotaInv, Admitted, Uncounted, Running, Files, Copying, In
<1> QED
  BY <1>1, <1>2, <1>3, <1>4, <1>5, <1>6, <1>7 DEF Next

\* So it holds in every reachable state
LEMMA QuotaHolds == Spec => []QuotaInv
<1>1. Init => QuotaInv
  <2> SUFFICES ASSUME Init PROVE QuotaInv
    OBVIOUS
  <2>1. In(Checked) = {} /\ In(Pending) = {} /\ In(Active) = {} /\ new = {}
    BY DEF Init, In, Checked, Pending, Active
  <2>2. Admitted = 0 /\ Uncounted = 0 /\ Running = 0 /\ Files = 0
    BY <2>1, FS_EmptySet DEF Admitted, Uncounted, Running, Files
  <2>3. ~copying /\ Copying = 0
    BY DEF Init, Copying
  <2> QED
    BY <2>2, <2>3, QuotaAssumption, WorkersAssumption DEF Init, QuotaInv
<1> QED
  BY <1>1, QuotaStep, TypeCorrect, PTL DEF Spec

\* The quota is overshot by less than the number of calls that run at a time (and by
\* what used_bytes has missed), for any number of calls.
THEOREM OvershootIsBounded == Spec => []OvershootBounded
<1>1. TypeOK /\ QuotaInv => OvershootBounded
  BY Sizes, QuotaAssumption, WorkersAssumption DEF QuotaInv, OvershootBounded, Files
<1> QED
  BY <1>1, QuotaHolds, TypeCorrect, PTL

\* Calls between write and addition, and the copy
LEMMA WaitingParts == Waiting = Uncounted + Copying
BY DEF Waiting, Uncounted, Copying, In, Pending

\* What is in the mailbox is counted, about to be counted, or known to have slipped.
THEOREM FilesAreCounted == Spec => []CountedOrPending
<1>1. TypeOK /\ QuotaInv => CountedOrPending
  BY Sizes, WaitingParts DEF QuotaInv, CountedOrPending, Files
<1> QED
  BY <1>1, QuotaHolds, TypeCorrect, PTL
----------------------------------------------------------------------------
(* The other way round: used_bytes is not too high *)

\* Who has not started to write has no file; the sum of a recount is not above what is there, or was
\* until QUIT removed it
ExcessInv ==
  /\ \A c \in Calls : pc[c] \in {"idle", "quota", "write"} => c \notin new
  /\ used + Uncounted + Copying <= Files + sent + removed + twice
  /\ recount = "sent" => total <= Files + removed
  /\ recount = "store" => total <= Files + sent + removed

\* A file more, a file less
LEMMA FilesExact ==
  ASSUME TypeOK, NEW c \in Calls
  PROVE  /\ c \notin new /\ new' = new \cup {c} => Files' = Files + 1
         /\ c \in new /\ new' = new \ {c} => Files' = Files - 1
         /\ c \notin new /\ new' = new \ {c} => Files' = Files
<1>1. IsFiniteSet(new) /\ Cardinality(new) \in Nat
  BY FilesCounted
<1>2. c \notin new => Cardinality(new \cup {c}) = Cardinality(new) + 1 /\ new \ {c} = new
  BY <1>1, FS_AddElement
<1>3. c \in new => Cardinality(new \ {c}) = Cardinality(new) - 1
  BY <1>1, FS_RemoveElement
<1> QED
  BY <1>2, <1>3 DEF Files

LEMMA ExcessStep == TypeOK /\ ExcessInv /\ [Next]_vars => ExcessInv'
<1> SUFFICES ASSUME TypeOK, ExcessInv, [Next]_vars PROVE ExcessInv'
  OBVIOUS
<1>t. removed \in Nat /\ twice \in Nat
  BY DEF TypeOK
<1>1. ASSUME NEW c \in Calls, Deliver(c) PROVE ExcessInv'
  <2> USE DEF At, Return, store, delivery, pop, counting, excess, bounds
  <2>m. \A d \in Calls : d # c => pc'[d] = pc[d]
    BY <1>1, CallSteps
  <2>w. ASSUME new' = new, pc'[c] \in {"idle", "quota", "write"} => pc[c] \in {"idle", "quota", "write"}
        PROVE  \A d \in Calls : pc'[d] \in {"idle", "quota", "write"} => d \notin new'
    BY <2>m, <2>w DEF ExcessInv
  <2> DEFINE Same == UNCHANGED <<sent, new, copying, recount, total, removed, twice>>
             Calm == Same /\ used' = used /\ Files' = Files /\ Copying' = Copying
  <2>1. CASE Fail(c) \/ CheckMailbox(c) \/ CheckQuota(c) \/ LookupForwards(c) \/ \E a \in Forwards : InsertForward(c, a)
    <3>1. Same /\ used' = used
      BY <2>1 DEF Fail, CheckMailbox, CheckQuota, LookupForwards, InsertForward
    <3>2. Files' = Files /\ Copying' = Copying
      BY <3>1 DEF Files, Copying
    <3>3. /\ pc[c] \in {"idle", "quota", "write", "lookup", "forward"}
          /\ pc'[c] \in {"done", "quota", "write", "forward"}
          /\ pc[c] = "idle" => pc'[c] \in {"quota", "done"}
          /\ pc[c] = "quota" => pc'[c] \in {"write", "done"}
          /\ pc[c] = "write" => pc'[c] = "done"
          /\ pc[c] \in {"lookup", "forward"} => pc'[c] \in {"forward", "done"}
      BY <2>1 DEF Fail, CheckMailbox, CheckQuota, LookupForwards, InsertForward, TypeOK
    <3>4. Uncounted' = Uncounted
      BY <3>3, <2>m, StageMoves, Sizes DEF Shift
    <3> QED
      BY <3>1, <3>2, <3>3, <3>4, <2>w DEF ExcessInv
  <2>2. CASE StartWrite(c)
    <3>1. /\ pc[c] = "write" /\ pc'[c] = "writing"
          /\ new' = new \cup {c}
          /\ UNCHANGED <<used, sent, copying, recount, total, removed, twice>>
      BY <2>2 DEF StartWrite, TypeOK
    <3>2. c \notin new /\ Files' = Files + 1
      BY <3>1, FilesExact DEF ExcessInv
    <3>3. Copying' = Copying
      BY <3>1 DEF Copying
    <3>4. Uncounted' = Uncounted + 1
      BY <3>1, <2>m, StageMoves, Sizes DEF Shift
    <3>5. \A d \in Calls : pc'[d] \in {"idle", "quota", "write"} => d \notin new'
      BY <2>m, <3>1 DEF ExcessInv
    <3> QED
      BY <1>t, <3>1, <3>2, <3>3, <3>4, <3>5, Sizes DEF ExcessInv
  <2>3. CASE FinishWrite(c)
    <3>1. pc[c] = "writing" /\ pc'[c] \in {"count", "done"} /\ Same /\ used' = used
      BY <2>3 DEF FinishWrite, TypeOK
    <3>2. Files' = Files /\ Copying' = Copying
      BY <3>1 DEF Files, Copying
    <3>3. Uncounted' <= Uncounted /\ Uncounted' \in Int
      BY <3>1, <2>m, StageMoves, Sizes DEF Shift
    <3> QED
      BY <1>t, <3>1, <3>2, <3>3, <2>w, Sizes DEF ExcessInv
  <2>4. CASE AddUsed(c)
    <3>1. /\ pc[c] = "count" /\ pc'[c] \in {"lookup", "done"} /\ Same
          /\ used' \in {used, used + 1}
      BY <2>4 DEF AddUsed, TypeOK
    <3>2. Files' = Files /\ Copying' = Copying
      BY <3>1 DEF Files, Copying
    <3>3. Uncounted' = Uncounted - 1
      BY <3>1, <2>m, StageMoves, Sizes DEF Shift
    <3> QED
      BY <1>t, <3>1, <3>2, <3>3, <2>w, Sizes DEF ExcessInv
  <2> QED
    BY <1>1, <2>1, <2>2, <2>3, <2>4 DEF Deliver
<1>2. ASSUME NEW s \in Sessions, Pop3(s) PROVE ExcessInv'
  <2> USE DEF store, delivery, counting, excess, bounds
  <2>1. UNCHANGED <<pc, used, sent, copying, recount, total, twice>>
    BY <1>2 DEF Pop3, Authenticate, Mark, Unmark, Quit, Remove, Close
  <2>2. UNCHANGED <<Uncounted, Copying>>
    BY <2>1 DEF Uncounted, Copying, In
  <2>3. ASSUME NEW c \in Calls, Remove(s, c) PROVE Files' + removed' = Files + removed /\ new' \subseteq new /\ removed' \in Nat
    BY <1>t, <2>3, FilesExact, Sizes DEF Remove
  <2>4. CASE UNCHANGED <<new, removed>>
    BY <2>1, <2>2, <2>4 DEF ExcessInv, Files
  <2>5. ASSUME NEW c \in Calls, Remove(s, c) PROVE ExcessInv'
    <3>1. Files' \in Nat
      BY <2>5, FilesChange DEF Remove
    <3> QED
      BY <1>t, <2>1, <2>2, <2>3, <2>5, <3>1, Sizes DEF ExcessInv
  <2> QED
    BY <1>2, <2>4, <2>5 DEF Pop3, Authenticate, Mark, Unmark, Quit, Close
<1>3. CASE CopySent \/ CountSent
  <2>1. /\ UNCHANGED <<pc, new, recount, total, removed, twice>>
        /\ \/ ~copying /\ copying' /\ sent' = sent + 1 /\ used' = used
           \/ copying /\ ~copying' /\ sent' = sent /\ used' \in {used, used + 1}
    BY <1>3 DEF CopySent, CountSent, delivery, counting, excess, bounds
  <2>2. UNCHANGED <<Uncounted, Files>>
    BY <2>1 DEF Uncounted, Files, In
  <2> QED
    BY <1>t, <2>1, <2>2, Sizes DEF ExcessInv, Copying
<1>4. CASE Recount
  <2>1. UNCHANGED <<pc, sent, new, copying, removed>>
    BY <1>4 DEF Recount, StartRecount, CountNew, CountSentDir, StoreCount, store, delivery, excess
  <2>2. UNCHANGED <<Uncounted, Files, Copying>>
    BY <2>1 DEF Uncounted, Files, Copying, In
  <2>3. CASE StartRecount
    BY <2>1, <2>2, <2>3 DEF StartRecount, ExcessInv, store, excess
  <2>4. CASE CountNew
    <3>1. PICK k \in Cardinality(new \ partial) .. Files : total' = k
      BY <2>4 DEF CountNew, Files
    <3>2. total' <= Files + removed
      BY <1>t, <3>1, Sizes, FilesCounted
    <3> QED
      BY <2>1, <2>2, <2>4, <3>2 DEF CountNew, ExcessInv, store, excess
  <2>5. CASE CountSentDir
    <3>1. /\ recount = "sent" /\ recount' = "store" /\ total' = total + sent
          /\ UNCHANGED <<used, twice>>
      BY <2>5 DEF CountSentDir, store, excess
    <3>2. total' <= Files + sent + removed
      BY <1>t, <3>1, Sizes DEF ExcessInv
    <3> QED
      BY <2>1, <2>2, <3>1, <3>2 DEF ExcessInv
  <2>6. CASE StoreCount
    <3>1. /\ recount = "store" /\ recount' = "off"
          /\ \/ UNCHANGED <<used, twice>>
             \/ used' = total /\ twice' = twice + Uncounted + Copying
      BY <1>t, <2>6, WaitingParts, Sizes DEF StoreCount
    <3>2. used' + Uncounted + Copying <= Files + sent + removed + twice'
      BY <1>t, <3>1, Sizes DEF ExcessInv
    <3> QED
      BY <2>1, <2>2, <3>1, <3>2 DEF ExcessInv
  <2> QED
    BY <1>4, <2>3, <2>4, <2>5, <2>6 DEF Recount
<1>5. ASSUME UNCHANGED <<pc, used, new, sent, copying, recount, total, excess>> PROVE ExcessInv'
  BY <1>5 DEF ExcessInv, Uncounted, Files, Copying, In, excess
<1>6. ASSUME NEW state \in {"enabled", "disabled", "gone"}, Change(state) PROVE ExcessInv'
  BY <1>5, <1>6 DEF Change, delivery, counting
<1>7. CASE UNCHANGED vars
  BY <1>5, <1>7 DEF vars, excess
<1> QED
  BY <1>1, <1>2, <1>3, <1>4, <1>6, <1>7 DEF Next

\* used_bytes exceeds what the mailbox holds by no more than what QUIT has removed and what a recount
\* found written and not yet added, for any number of calls, sessions and recounts.
THEOREM OvercountIsBounded == Spec => []NeverOvercounted
<1>1. Init => ExcessInv
  <2> SUFFICES ASSUME Init PROVE ExcessInv
    OBVIOUS
  <2>1. In(Pending) = {} /\ new = {}
    BY DEF Init, In, Pending
  <2>2. Uncounted = 0 /\ Files = 0
    BY <2>1, FS_EmptySet DEF Uncounted, Files
  <2>3. ~copying /\ Copying = 0
    BY DEF Init, Copying
  <2> QED
    BY <2>1, <2>2, <2>3 DEF Init, ExcessInv
<1>2. TypeOK /\ ExcessInv => NeverOvercounted
  <2> SUFFICES ASSUME TypeOK, ExcessInv PROVE NeverOvercounted
    OBVIOUS
  <2>1. removed \in Nat /\ twice \in Nat
    BY DEF TypeOK
  <2> QED
    BY <2>1, Sizes DEF ExcessInv, NeverOvercounted, Files
<1> QED
  BY <1>1, <1>2, ExcessStep, TypeCorrect, PTL DEF Spec
=============================================================================
