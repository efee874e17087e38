--------------------------- MODULE WebmailProofs ---------------------------
(***************************************************************************)
(* Proofs about WebmailAccess, for any limits, any number of calls and of  *)
(* captchas, and any time: that blocks run and are not made in haste, and  *)
(* what limits and captchas let through.                                   *)
(***************************************************************************)
EXTENDS WebmailProperties, FiniteSetTheorems, TLAPS

\* The types of what blocks and captchas depend on
BlockTyped ==
  /\ now \in Times
  /\ blockUntil \in Nat
  /\ call \in [Calls -> Call]

\* Nobody is on the way in a block who has not been let in before
InBefore == now < blockUntil => \A c \in Calls : Pending(c) => call[c].before

LEMMA TimesAreNat == Times \subseteq Nat /\ \A k \in Kinds : BlockOf(k) \in Nat
  BY LimitsAssumption DEF Times, BlockOf, Kinds

\* A call that is over, and the first of one
LEMMA OverTyped ==
  ASSUME BlockTyped, NEW c \in Calls
  PROVE  /\ Over(c) \in Call /\ Over(c).at = "ended" /\ Over(c).solved = call[c].solved
         /\ Over(c).kind = call[c].kind /\ Over(c).touched = call[c].touched
         /\ \A n \in Times : LET x == [Over(c) EXCEPT !.touched = n]
                             IN  /\ x \in Call /\ x.at = "ended" /\ x.solved = call[c].solved
                                 /\ x.kind = call[c].kind /\ x.touched = n
         /\ LET x == [Over(c) EXCEPT !.touched = 0]
            IN  /\ x \in Call /\ x.at = "ended" /\ x.solved = call[c].solved
                /\ x.touched = 0
<1> DEFINE x == call[c]
           y == [x EXCEPT !.at = "ended", !.before = FALSE, !.overtaken = FALSE]
<1>1. x \in Call
  BY DEF BlockTyped
<1>2. y \in Call /\ y.at = "ended" /\ y.solved = x.solved /\ y.kind = x.kind /\ y.touched = x.touched
  <2> HIDE DEF x
  <2> QED
    BY <1>1 DEF Call
<1>3. y = Over(c)
  BY DEF Over
<1>4. Times \subseteq 0 .. MaxTime /\ 0 \in 0 .. MaxTime
  BY LimitsAssumption DEF Times
<1> HIDE DEF x, y
<1>5. \A n \in 0 .. MaxTime : LET z == [y EXCEPT !.touched = n]
                              IN  /\ z \in Call /\ z.at = "ended" /\ z.solved = x.solved
                                  /\ z.kind = x.kind /\ z.touched = n
  BY <1>2 DEF Call
<1> QED
  BY <1>2, <1>3, <1>4, <1>5 DEF x

Begun(k, n) ==
  [Unused EXCEPT !.kind = k, !.at = IF k = "register" THEN "in" ELSE "outcome", !.touched = n]

LEMMA BegunTyped ==
  ASSUME NEW k \in Kinds, NEW n \in Times
  PROVE  /\ Begun(k, n) \in Call /\ Begun(k, n).solved = "none"
         /\ Begun(k, n).at = IF k = "register" THEN "in" ELSE "outcome"
         /\ Begun(k, n).kind = k /\ Begun(k, n).touched = n /\ ~Begun(k, n).overtaken
<1>1. Unused \in Call /\ Unused.solved = "none" /\ ~Unused.overtaken
  BY LimitsAssumption DEF Unused, Call, Kinds
<1>2. Times \subseteq 0 .. MaxTime
  BY LimitsAssumption DEF Times
<1> DEFINE at == IF k = "register" THEN "in" ELSE "outcome"
<1>3. at \in {"in", "outcome"}
  OBVIOUS
<1>4. Begun(k, n) = [Unused EXCEPT !.kind = k, !.at = at, !.touched = n]
  BY DEF Begun
<1> HIDE DEF at
<1>5. /\ Begun(k, n) \in Call /\ Begun(k, n).solved = "none" /\ Begun(k, n).at = at
      /\ Begun(k, n).kind = k /\ Begun(k, n).touched = n /\ ~Begun(k, n).overtaken
  BY <1>1, <1>2, <1>3, <1>4 DEF Call
<1> QED
  BY <1>5 DEF at

\* The ways in which the calls change.  One of them goes on as x,
LEMMA BecomeTyped ==
  ASSUME BlockTyped, NEW c \in Calls, NEW x \in Call, Become(c, x)
  PROVE  /\ call' \in [Calls -> Call]
         /\ \A d \in Calls : call'[d] = IF d = c THEN x ELSE call[d]
  BY DEF Become, BlockTyped

\* or does so and begins a block.
LEMMA BlockedTyped ==
  ASSUME BlockTyped, NEW c \in Calls, NEW x \in Call, NEW k \in Kinds, Blocked(c, x, k)
  PROVE  /\ call' \in [Calls -> Call] /\ blockUntil' \in Nat
         /\ call'[c] = x
         /\ \A d \in Calls : d # c =>
              /\ call'[d].at = call[d].at /\ call'[d].solved = call[d].solved
              /\ call'[d].kind = call[d].kind /\ call'[d].touched = call[d].touched
              /\ call'[d].overtaken = call[d].overtaken
              /\ Pending(d) => call'[d].before
<1> DEFINE b(d) == call[d].before \/ Pending(d)
           y(d) == [call[d] EXCEPT !.before = b(d)]
<1>1. \A d \in Calls : b(d) \in BOOLEAN /\ (Pending(d) => b(d))
  BY Zenon DEF b
<1>2. \A d \in Calls : /\ y(d) \in Call /\ y(d).at = call[d].at /\ y(d).solved = call[d].solved
                       /\ y(d).kind = call[d].kind /\ y(d).touched = call[d].touched
                       /\ y(d).overtaken = call[d].overtaken
                       /\ b(d) => y(d).before
  <2> SUFFICES ASSUME NEW d \in Calls
               PROVE  /\ y(d) \in Call /\ y(d).at = call[d].at /\ y(d).solved = call[d].solved
                      /\ y(d).kind = call[d].kind /\ y(d).touched = call[d].touched
                      /\ y(d).overtaken = call[d].overtaken
                      /\ b(d) => y(d).before
    OBVIOUS
  <2>1. call[d] \in Call /\ b(d) \in BOOLEAN
    BY <1>1 DEF BlockTyped
  <2> HIDE DEF b
  <2> QED
    BY <2>1 DEF Call
<1>3. call' = [d \in Calls |-> IF d = c THEN x ELSE y(d)]
  BY DEF Blocked
<1>4. blockUntil' \in Nat
  BY TimesAreNat DEF Blocked, BlockTyped
<1> HIDE DEF b, y
<1> QED
  BY <1>1, <1>2, <1>3, <1>4

LEMMA RegisteredTyped ==
  ASSUME BlockTyped, NEW c \in Calls, Registered(c)
  PROVE  /\ call' \in [Calls -> Call]
         /\ call'[c].at = "ended"
         /\ \A d \in Calls : /\ call'[d].solved = call[d].solved
                            /\ call'[d].kind = call[d].kind /\ call'[d].touched = call[d].touched
         /\ \A d \in Calls : d # c => /\ call'[d].at = call[d].at
                                      /\ Pending(d) => call'[d].overtaken
<1> DEFINE b(d) == call[d].overtaken \/ Pending(d)
           y(d) == [call[d] EXCEPT !.overtaken = b(d)]
<1>1. \A d \in Calls : b(d) \in BOOLEAN /\ (Pending(d) => b(d))
  BY Zenon DEF b
<1>2. \A d \in Calls : /\ y(d) \in Call /\ y(d).solved = call[d].solved
                       /\ y(d).kind = call[d].kind /\ y(d).touched = call[d].touched
                       /\ y(d).at = call[d].at /\ (b(d) => y(d).overtaken)
  <2> SUFFICES ASSUME NEW d \in Calls
               PROVE  /\ y(d) \in Call /\ y(d).solved = call[d].solved
                      /\ y(d).kind = call[d].kind /\ y(d).touched = call[d].touched
                      /\ y(d).at = call[d].at /\ (b(d) => y(d).overtaken)
    OBVIOUS
  <2>1. call[d] \in Call /\ b(d) \in BOOLEAN
    BY <1>1 DEF BlockTyped
  <2> HIDE DEF b
  <2> QED
    BY <2>1 DEF Call
<1>3. call' = [d \in Calls |-> IF d = c THEN Over(c) ELSE y(d)]
  BY DEF Registered
<1> HIDE DEF b, y
<1> QED
  BY <1>1, <1>2, <1>3, OverTyped
-----------------------------------------------------------------------------
(* Blocks *)

BlockInv == BlockTyped /\ InBefore

\* The three outcomes of the check: refused in a block, refused with a new one, or let in
LEMMA CheckOutcomes ==
  ASSUME NEW c \in Calls, Check(c)
  PROVE  /\ call[c].at = "unused" /\ now' = now
         /\ \E k \in Kinds :
              \/ now < blockUntil /\ End(c) /\ UNCHANGED blockUntil
              \/ ~(now < blockUntil) /\ Blocked(c, Over(c), k)
              \/ /\ ~(now < blockUntil) /\ UNCHANGED blockUntil
                 /\ Become(c, Begun(k, now))
<1>1. PICK k \in Kinds :
        \/ StillBlocked /\ End(c) /\ UNCHANGED blockUntil
        \/ ~StillBlocked /\ Blocked(c, Over(c), k)
        \/ /\ ~StillBlocked /\ UNCHANGED blockUntil
           /\ Become(c, Begun(k, now))
  BY DEF Check, Begun
<1> QED
  BY <1>1 DEF Check, StillBlocked

\* What an outcome of a call does to the blocks
LEMMA BlockStepOf ==
  ASSUME BlockInv, NEW c \in Calls,
         \/ Check(c) \/ LoggedIn(c) \/ Failed(c) \/ Drop(c)
         \/ SuccessLimit(c) \/ Answer(c) \/ Insert(c) \/ Registered(c)
  PROVE  /\ BlockInv'
         /\ blockUntil' < blockUntil /\ now < blockUntil =>
              Pending(c) /\ call[c].before /\ call'[c].at = "ended"
<1>0. BlockTyped /\ InBefore /\ call[c] \in Call /\ now \in Nat /\ blockUntil \in Nat /\ call \in [Calls -> Call]
  BY TimesAreNat DEF BlockInv, BlockTyped
<1>p. \A d \in Calls : Pending(d) <=> call[d].at \in {"in", "captcha", "insert", "outcome"}
  BY DEF Pending
<1>q. \A d \in Calls : Pending(d)' <=> call'[d].at \in {"in", "captcha", "insert", "outcome"}
  BY DEF Pending
\* The call ends, and with it perhaps a block
<1>e. ASSUME End(c), now' = now, blockUntil' \in {0, blockUntil}, blockUntil' = 0 => Pending(c)
      PROVE  /\ BlockInv'
             /\ blockUntil' < blockUntil /\ now < blockUntil =>
                  Pending(c) /\ call[c].before /\ call'[c].at = "ended"
  <2>1. /\ call' \in [Calls -> Call]
        /\ \A d \in Calls : call'[d] = IF d = c THEN Over(c) ELSE call[d]
    BY <1>0, <1>e, OverTyped, BecomeTyped DEF End
  <2>2. call'[c].at = "ended"
    BY <1>0, <2>1, OverTyped
  <2>3. BlockTyped'
    BY <1>0, <1>e, <2>1 DEF BlockTyped
  <2>4. InBefore'
    BY <1>0, <1>e, <1>p, <1>q, <2>1, <2>2 DEF InBefore
  <2>5. blockUntil' < blockUntil => blockUntil' = 0
    BY <1>0, <1>e
  <2> QED
    BY <1>0, <1>e, <2>2, <2>3, <2>4, <2>5 DEF InBefore, BlockInv
\* The call goes on
<1>g. ASSUME NEW x \in Call, Become(c, x), Pending(c), x.before = call[c].before,
             now' = now, blockUntil' = blockUntil
      PROVE  BlockInv' /\ ~(blockUntil' < blockUntil)
  <2>1. /\ call' \in [Calls -> Call]
        /\ \A d \in Calls : call'[d] = IF d = c THEN x ELSE call[d]
    BY <1>0, <1>g, BecomeTyped
  <2>2. BlockTyped'
    BY <1>0, <1>g, <2>1 DEF BlockTyped
  <2>3. InBefore'
    BY <1>0, <1>g, <1>p, <1>q, <2>1 DEF InBefore
  <2> QED
    BY <1>0, <1>g, <2>2, <2>3 DEF BlockInv
\* The call ends in a new block
<1>b. ASSUME NEW x \in Call, NEW k \in Kinds, Blocked(c, x, k), x.at = "ended", now' = now
      PROVE  BlockInv' /\ call'[c].at = "ended"
  <2>1. /\ call' \in [Calls -> Call] /\ blockUntil' \in Nat
        /\ call'[c] = x
        /\ \A d \in Calls : d # c => call'[d].at = call[d].at /\ (Pending(d) => call'[d].before)
    BY <1>0, <1>b, BlockedTyped
  <2>2. BlockTyped'
    BY <1>0, <1>b, <2>1 DEF BlockTyped
  <2>3. InBefore'
    BY <1>b, <1>p, <1>q, <2>1 DEF InBefore
  <2> QED
    BY <1>b, <2>1, <2>2, <2>3 DEF BlockInv
<1>1. CASE Check(c)
  <2>1. PICK k \in Kinds :
          \/ now < blockUntil /\ End(c) /\ UNCHANGED blockUntil
          \/ ~(now < blockUntil) /\ Blocked(c, Over(c), k)
          \/ /\ ~(now < blockUntil) /\ UNCHANGED blockUntil
             /\ Become(c, Begun(k, now))
    BY <1>1, CheckOutcomes
  <2>2. now' = now
    BY <1>1, CheckOutcomes
  <2>3. CASE now < blockUntil /\ End(c) /\ UNCHANGED blockUntil
    <3>1. blockUntil' # 0 /\ blockUntil' = blockUntil
      BY <1>0, <2>3
    <3> QED
      BY <1>e, <2>2, <2>3, <3>1
  <2>4. CASE ~(now < blockUntil) /\ Blocked(c, Over(c), k)
    BY <1>0, <1>b, <2>2, <2>4, OverTyped
  <2>5. CASE /\ ~(now < blockUntil) /\ UNCHANGED blockUntil
             /\ Become(c, Begun(k, now))
    <3>1. Begun(k, now) \in Call
      BY <1>0, BegunTyped DEF BlockTyped
    <3>2. Become(c, Begun(k, now))
      BY <2>5
    <3>3. call' \in [Calls -> Call]
      BY <1>0, <3>1, <3>2, BecomeTyped
    <3> QED
      BY <1>0, <2>2, <2>5, <3>3 DEF BlockInv, BlockTyped, InBefore
  <2> QED
    BY <2>1, <2>3, <2>4, <2>5
<1>2. CASE LoggedIn(c)
  BY <1>2, <1>e, <1>p DEF LoggedIn
<1>3. CASE Failed(c)
  <2>1. Pending(c) /\ now' = now
    BY <1>3, <1>p DEF Failed
  <2> DEFINE x == [Over(c) EXCEPT !.touched = now]
  <2>2. x \in Call /\ x.at = "ended"
    BY <1>0, OverTyped DEF BlockTyped
  <2> HIDE DEF x
  <2>3. Blocked(c, x, "login") \/ (Become(c, x) /\ UNCHANGED blockUntil)
    BY <1>3 DEF Failed, x
  <2>4. CASE Blocked(c, x, "login")
    <3>1. "login" \in Kinds
      BY DEF Kinds
    <3> QED
      BY <1>0, <1>b, <2>1, <2>2, <2>4, <3>1 DEF InBefore
  <2>5. CASE Become(c, x) /\ UNCHANGED blockUntil
    <3>1. /\ call' \in [Calls -> Call]
          /\ \A d \in Calls : call'[d] = IF d = c THEN x ELSE call[d]
      BY <1>0, <2>2, <2>5, BecomeTyped
    <3>2. InBefore'
      BY <1>0, <1>p, <1>q, <2>1, <2>2, <2>5, <3>1 DEF InBefore
    <3> QED
      BY <1>0, <2>1, <2>5, <3>1, <3>2 DEF BlockInv, BlockTyped
  <2> QED
    BY <2>3, <2>4, <2>5
<1>4. CASE Drop(c)
  BY <1>4, <1>e DEF Drop, counter
<1>5. CASE SuccessLimit(c) \/ Insert(c)
  <2>1. PICK at \in {"captcha", "outcome"} : Become(c, [call[c] EXCEPT !.at = at])
    BY <1>5 DEF SuccessLimit, Insert
  <2>2. now' = now /\ blockUntil' = blockUntil /\ Pending(c)
    BY <1>5, <1>p DEF SuccessLimit, Insert, counter
  <2> DEFINE x == [call[c] EXCEPT !.at = at]
  <2>3. x \in Call /\ x.before = call[c].before
    <3> DEFINE y == call[c]
    <3>1. y \in Call
      BY <1>0
    <3> HIDE DEF y
    <3>2. [y EXCEPT !.at = at] \in Call /\ [y EXCEPT !.at = at].before = y.before
      BY <3>1 DEF Call
    <3> QED
      BY <3>2 DEF y
  <2> HIDE DEF x
  <2>4. Become(c, x)
    BY <2>1 DEF x
  <2> QED
    BY <1>g, <2>2, <2>3, <2>4
<1>6. CASE Answer(c)
  <2>1. PICK k \in Captchas : Become(c, [call[c] EXCEPT !.at = "insert", !.solved = k]) \/ End(c)
    BY <1>6 DEF Answer
  <2>2. now' = now /\ blockUntil' = blockUntil /\ Pending(c)
    BY <1>6, <1>p DEF Answer, counter
  <2>3. CASE End(c)
    BY <1>e, <2>2, <2>3
  <2>4. CASE Become(c, [call[c] EXCEPT !.at = "insert", !.solved = k])
    <3> DEFINE y == call[c]
               x == [y EXCEPT !.at = "insert", !.solved = k]
    <3>1. y \in Call
      BY <1>0
    <3> HIDE DEF y
    <3>2. x \in Call /\ x.before = y.before
      BY <3>1 DEF Call
    <3> HIDE DEF x
    <3>3. Become(c, x)
      BY <2>4 DEF x, y
    <3> QED
      BY <1>g, <2>2, <3>2, <3>3 DEF y
  <2> QED
    BY <2>1, <2>3, <2>4
<1>7. CASE Registered(c)
  <2>1. /\ call' \in [Calls -> Call] /\ call'[c].at = "ended"
        /\ blockUntil' = 0 /\ now' = now /\ Pending(c)
    BY <1>0, <1>7, <1>p, RegisteredTyped DEF Registered
  <2> QED
    BY <1>0, <2>1 DEF BlockInv, BlockTyped, InBefore
<1> QED
  BY <1>1, <1>2, <1>3, <1>4, <1>5, <1>6, <1>7

LEMMA BlockStep ==
  ASSUME BlockInv, [Next]_vars
  PROVE  /\ BlockInv'
         /\ blockUntil' < blockUntil /\ now < blockUntil =>
              \/ \E c \in Calls : Pending(c) /\ call[c].before /\ call'[c].at = "ended"
              \/ Restart
<1>0. now \in Nat /\ blockUntil \in Nat /\ ~(blockUntil < blockUntil)
  BY TimesAreNat DEF BlockInv, BlockTyped
<1>1. CASE \E c \in Calls :
             \/ Check(c) \/ LoggedIn(c) \/ Failed(c) \/ Drop(c)
             \/ SuccessLimit(c) \/ Answer(c) \/ Insert(c) \/ Registered(c)
  BY <1>1, BlockStepOf
<1>2. ASSUME UNCHANGED <<now, counter, call>>
      PROVE  BlockInv' /\ ~(blockUntil' < blockUntil)
  BY <1>0, <1>2 DEF BlockInv, BlockTyped, InBefore, Pending, counter
<1>3. CASE \E k \in Captchas : Issue(k) \/ CutOff(k) \/ Cleanup(k) \/ Verify(k) \/ Expire(k)
  BY <1>2, <1>3 DEF Issue, CutOff, Cleanup, Verify, Expire
<1>4. CASE Tick
  <2>1. now' \in Times /\ now' = now + 1
    BY <1>0, <1>4, LimitsAssumption DEF Tick, Times, BlockInv, BlockTyped
  <2>2. blockUntil' = blockUntil /\ call' = call
    BY <1>4 DEF Tick, counter
  <2> QED
    BY <1>0, <2>1, <2>2 DEF BlockInv, BlockTyped, InBefore, Pending
<1>5. CASE Restart
  <2>1. now' = now /\ blockUntil' = 0
    BY <1>5 DEF Restart
  <2>2. call' = [c \in Calls |->
          IF call[c].at = "unused" THEN call[c] ELSE [Over(c) EXCEPT !.touched = 0]]
    BY <1>5 DEF Restart
  <2>3. call' \in [Calls -> Call]
    BY <2>2, OverTyped DEF BlockInv, BlockTyped
  <2> QED
    BY <1>0, <1>5, <2>1, <2>3 DEF BlockInv, BlockTyped, InBefore
<1>6. CASE UNCHANGED vars
  BY <1>2, <1>6 DEF vars
<1> QED
  BY <1>1, <1>2, <1>3, <1>4, <1>5, <1>6 DEF Next

LEMMA BlockInit == Init => BlockInv
<1> SUFFICES ASSUME Init PROVE BlockInv
  OBVIOUS
<1>1. Unused \in Call
  BY LimitsAssumption DEF Unused, Call, Kinds
<1> QED
  BY <1>1, LimitsAssumption DEF Init, BlockInv, BlockTyped, InBefore, Times

\* Nobody gets in during a block: whatever lifts or shortens it had been let in before it
THEOREM BlocksRun == Spec => BlockRuns
<1>1. Init => BlockInv
  BY BlockInit
<1>2. BlockInv /\ [Next]_vars => BlockInv'
  BY BlockStep
<1>3. BlockInv /\ [Next]_vars =>
        [blockUntil' < blockUntil /\ now < blockUntil =>
           \/ \E c \in Calls : Pending(c) /\ call[c].before /\ call'[c].at = "ended"
           \/ Restart]_vars
  BY BlockStep
<1> QED
  BY <1>1, <1>2, <1>3, PTL DEF Spec, BlockRuns
-----------------------------------------------------------------------------
(* Captchas *)

States == {"new", "fresh", "stale", "answered", "gone"}

\* What calls have solved is used up, and each of them has solved one of its own
Solved ==
  /\ \A c \in Calls : call[c].solved # "none" => captcha[call[c].solved] = "answered"
  /\ \A c, d \in Calls : c # d /\ call[c].solved # "none" => call[c].solved # call[d].solved

\* The store outgrows its limit by no more than what has not been cleaned up after
StoreBounded ==
  /\ captcha \in [Captchas -> States]
  /\ cleaning \subseteq Captchas /\ uncleaned \subseteq Captchas
  /\ Cardinality(Settled) <= MaxStored

CaptchaInv == BlockTyped /\ Solved /\ StoreBounded

LEMMA FiniteStore ==
  /\ IsFiniteSet(Stored) /\ Cardinality(Stored) \in Nat
  /\ IsFiniteSet(Settled) /\ Cardinality(Settled) \in Nat
  /\ \A S \in SUBSET Captchas : IsFiniteSet(S) /\ Cardinality(S) \in Nat
  /\ MaxStored \in Nat
<1>1. \A S \in SUBSET Captchas : IsFiniteSet(S) /\ Cardinality(S) \in Nat
  BY FS_Subset, FS_CardinalityType, LimitsAssumption
<1>2. Stored \in SUBSET Captchas /\ Settled \in SUBSET Captchas
  BY DEF Stored, Settled
<1> QED
  BY <1>1, <1>2, LimitsAssumption

\* A step that leaves what calls have solved alone, and what is used up,
LEMMA SolvedKept ==
  ASSUME Solved,
         \A d \in Calls : call'[d].solved \in {call[d].solved, "none"},
         \A k : captcha[k] = "answered" => captcha'[k] = "answered"
  PROVE  Solved'
  BY DEF Solved

\* and one that puts nothing into the store, or what has still to be cleaned up after
LEMMA StoreKept ==
  ASSUME StoreBounded, cleaning' \subseteq Captchas, uncleaned' \subseteq Captchas,
         captcha' \in [Captchas -> States],
         cleaning \cup uncleaned \subseteq cleaning' \cup uncleaned',
         \A k \in Captchas : InStore(k)' => InStore(k) \/ k \in cleaning'
  PROVE  StoreBounded'
<1>1. Settled' \subseteq Settled
  BY DEF Settled, Stored
<1>2. Cardinality(Settled') <= Cardinality(Settled) /\ Cardinality(Settled') \in Nat
  BY <1>1, FiniteStore, FS_Subset, FS_CardinalityType
<1>3. Cardinality(Settled') <= MaxStored
  BY <1>2, FiniteStore DEF StoreBounded
<1> HIDE DEF Settled
<1> QED
  BY <1>3 DEF StoreBounded

\* A call that goes on or ends leaves what the others have solved alone
LEMMA SolvedByOthers ==
  ASSUME BlockTyped, NEW c \in Calls, NEW x \in Call, x.solved \in {call[c].solved, "none"},
         Become(c, x) \/ \E k \in Kinds : Blocked(c, x, k)
  PROVE  /\ call' \in [Calls -> Call]
         /\ \A d \in Calls : call'[d].solved \in {call[d].solved, "none"}
<1>1. CASE Become(c, x)
  BY <1>1, BecomeTyped
<1>2. CASE \E k \in Kinds : Blocked(c, x, k)
  BY <1>2, BlockedTyped
<1> QED
  BY <1>1, <1>2

\* Calls that leave the captchas alone
LEMMA OtherCalls ==
  ASSUME BlockTyped, NEW c \in Calls,
         \/ Check(c) \/ LoggedIn(c) \/ Failed(c) \/ Drop(c)
         \/ SuccessLimit(c) \/ Insert(c) \/ Registered(c)
  PROVE  /\ \A d \in Calls : call'[d].solved \in {call[d].solved, "none"}
         /\ captcha' = captcha /\ cleaning' = cleaning /\ uncleaned' = uncleaned
<1>0. call[c] \in Call /\ now \in Times /\ Over(c) \in Call /\ Over(c).solved = call[c].solved
  BY OverTyped DEF BlockTyped
<1>e. ASSUME End(c)
      PROVE  \A d \in Calls : call'[d].solved \in {call[d].solved, "none"}
  BY <1>0, <1>e, SolvedByOthers DEF End
<1>1. CASE Check(c)
  <2>1. PICK k \in Kinds :
          \/ now < blockUntil /\ End(c) /\ UNCHANGED blockUntil
          \/ ~(now < blockUntil) /\ Blocked(c, Over(c), k)
          \/ /\ ~(now < blockUntil) /\ UNCHANGED blockUntil
             /\ Become(c, Begun(k, now))
    BY <1>1, CheckOutcomes
  <2>2. captcha' = captcha /\ cleaning' = cleaning /\ uncleaned' = uncleaned
    BY <1>1 DEF Check
  <2>3. CASE End(c)
    BY <1>e, <2>2, <2>3
  <2>4. CASE Blocked(c, Over(c), k)
    BY <1>0, <2>2, <2>4, SolvedByOthers
  <2>5. CASE Become(c, Begun(k, now))
    <3>1. Begun(k, now) \in Call /\ Begun(k, now).solved = "none"
      BY <1>0, BegunTyped
    <3>2. Become(c, Begun(k, now))
      BY <2>5
    <3> QED
      BY <2>2, <3>1, <3>2, SolvedByOthers
  <2> QED
    BY <2>1, <2>3, <2>4, <2>5
<1>2. CASE LoggedIn(c)
  BY <1>2, <1>e DEF LoggedIn
<1>3. CASE Failed(c)
  <2> DEFINE x == [Over(c) EXCEPT !.touched = now]
  <2>1. x \in Call /\ x.solved = call[c].solved
    BY <1>0, OverTyped
  <2> HIDE DEF x
  <2>2. Blocked(c, x, "login") \/ Become(c, x)
    BY <1>3 DEF Failed, x
  <2>3. "login" \in Kinds
    BY DEF Kinds
  <2> QED
    BY <1>3, <2>1, <2>2, <2>3, SolvedByOthers DEF Failed
<1>4. CASE Drop(c)
  BY <1>4, <1>e DEF Drop
<1>5. CASE SuccessLimit(c) \/ Insert(c)
  <2>1. PICK at \in {"captcha", "outcome"} : Become(c, [call[c] EXCEPT !.at = at])
    BY <1>5 DEF SuccessLimit, Insert
  <2> DEFINE y == call[c]
             x == [y EXCEPT !.at = at]
  <2>2. x \in Call /\ x.solved = y.solved
    <3>1. y \in Call
      BY <1>0
    <3> HIDE DEF y
    <3> QED
      BY <3>1 DEF Call
  <2>3. Become(c, x)
    BY <2>1
  <2> HIDE DEF x
  <2> QED
    BY <1>5, <2>2, <2>3, SolvedByOthers DEF SuccessLimit, Insert
<1>6. CASE Registered(c)
  BY <1>6, RegisteredTyped DEF Registered
<1> QED
  BY <1>1, <1>2, <1>3, <1>4, <1>5, <1>6

\* An answer that is right: the captcha was in the store, so no other call has solved it
LEMMA AnswerStep ==
  ASSUME CaptchaInv, NEW c \in Calls, Answer(c)
  PROVE  Solved' /\ StoreBounded'
<1>0. BlockTyped /\ Solved /\ StoreBounded /\ call[c] \in Call /\ captcha \in [Captchas -> States]
  BY DEF CaptchaInv, BlockTyped, StoreBounded
<1>1. PICK k \in Captchas :
        /\ InStore(k)
        /\ TakeOut(k)
        /\ \/ captcha[k] = "fresh" /\ Become(c, [call[c] EXCEPT !.at = "insert", !.solved = k])
           \/ End(c)
  BY <1>0 DEF Answer
<1>2. /\ captcha' \in [Captchas -> States]
      /\ \A j \in Captchas : captcha'[j] = IF j = k THEN "answered" ELSE captcha[j]
  BY <1>0, <1>1 DEF TakeOut, States
<1>3. StoreBounded'
  <2>1. cleaning' = cleaning /\ uncleaned' = uncleaned
    BY DEF Answer
  <2>2. \A j \in Captchas : InStore(j)' => InStore(j)
    BY <1>2 DEF InStore
  <2> QED
    BY <1>0, <1>2, <2>1, <2>2, StoreKept DEF StoreBounded
<1>4. CASE End(c)
  <2>1. \A d \in Calls : call'[d].solved \in {call[d].solved, "none"}
    BY <1>0, <1>4, OverTyped, SolvedByOthers DEF End
  <2>2. \A d \in Calls : call[d].solved \in Captchas \cup {"none"}
    BY <1>0 DEF BlockTyped, Call
  <2> QED
    BY <1>0, <1>2, <1>3, <2>1, <2>2 DEF Solved
<1>5. CASE Become(c, [call[c] EXCEPT !.at = "insert", !.solved = k])
  <2> DEFINE y == call[c]
             x == [y EXCEPT !.at = "insert", !.solved = k]
  <2>1. x \in Call /\ x.solved = k
    <3>1. y \in Call
      BY <1>0
    <3> HIDE DEF y
    <3> QED
      BY <3>1 DEF Call
  <2>2. Become(c, x)
    BY <1>5
  <2> HIDE DEF x
  <2>3. \A d \in Calls : call'[d].solved = IF d = c THEN k ELSE call[d].solved
    BY <1>0, <2>1, <2>2, BecomeTyped
  <2>4. \A d \in Calls : call[d].solved # k \/ k = "none"
    BY <1>0, <1>1 DEF Solved, InStore
  <2>5. \A d \in Calls : call[d].solved \in Captchas \cup {"none"}
    BY <1>0 DEF BlockTyped, Call
  <2> QED
    BY <1>0, <1>2, <1>3, <2>3, <2>4, <2>5 DEF Solved
<1> QED
  BY <1>1, <1>4, <1>5

\* One captcha more is stored, and is to be cleaned up after
LEMMA IssueStep ==
  ASSUME StoreBounded, NEW k \in Captchas, Issue(k)
  PROVE  StoreBounded'
<1>1. /\ captcha' \in [Captchas -> States]
      /\ \A j \in Captchas : captcha'[j] = IF j = k THEN "fresh" ELSE captcha[j]
      /\ cleaning' = cleaning \cup {k} /\ uncleaned' = uncleaned
  BY DEF Issue, StoreBounded, States
<1>2. \A j \in Captchas : InStore(j)' => InStore(j) \/ j \in cleaning'
  BY <1>1 DEF InStore
<1> QED
  BY <1>1, <1>2, StoreKept DEF StoreBounded

\* After a clean-up the store is within its limit
LEMMA CleanupStep ==
  ASSUME StoreBounded, NEW k \in Captchas, Cleanup(k)
  PROVE  StoreBounded'
<1>1. /\ captcha' \in [Captchas -> States]
      /\ \A j \in Captchas :
           captcha'[j] = IF captcha[j] = "stale" \/ (Overfull /\ InStore(j)) THEN "gone" ELSE captcha[j]
      /\ cleaning' = cleaning \ {k} /\ uncleaned' = {}
  BY DEF Cleanup, StoreBounded, States
<1>2. Settled' \subseteq Stored /\ (Overfull => Settled' = {})
  BY <1>1 DEF Settled, Stored, InStore
<1>3. Cardinality(Settled') <= Cardinality(Stored) /\ Cardinality(Settled') \in Nat
  BY <1>2, FiniteStore, FS_Subset, FS_CardinalityType
<1>4. Cardinality(Settled') <= MaxStored
  <2>1. CASE Overfull
    BY <1>2, <2>1, FiniteStore, FS_EmptySet
  <2>2. CASE ~Overfull
    BY <1>3, <2>2, FiniteStore DEF Overfull
  <2> QED
    BY <2>1, <2>2
<1>5. cleaning' \subseteq Captchas /\ uncleaned' \subseteq Captchas
  BY <1>1 DEF StoreBounded
<1> HIDE DEF Settled, Overfull
<1> QED
  BY <1>1, <1>4, <1>5 DEF StoreBounded

LEMMA RestartStep ==
  ASSUME CaptchaInv, Restart
  PROVE  Solved' /\ StoreBounded'
<1>0. BlockTyped /\ Solved /\ StoreBounded
  BY DEF CaptchaInv
<1>1. /\ captcha' \in [Captchas -> States]
      /\ \A k \in Captchas : captcha'[k] = IF InStore(k) THEN "gone" ELSE captcha[k]
      /\ cleaning' = {} /\ uncleaned' = {}
  BY <1>0 DEF Restart, StoreBounded, States
<1>2. Settled' = {}
  BY <1>1 DEF Settled, Stored, InStore
<1>3. Cardinality(Settled') = 0
  BY <1>2, FS_EmptySet
<1>4. StoreBounded'
  <2> HIDE DEF Settled
  <2> QED
    BY <1>1, <1>3, FiniteStore DEF StoreBounded
<1>5. \A c \in Calls : call'[c].solved = call[c].solved
  <2>1. call' = [c \in Calls |->
          IF call[c].at = "unused" THEN call[c] ELSE [Over(c) EXCEPT !.touched = 0]]
    BY DEF Restart
  <2> QED
    BY <1>0, <2>1, OverTyped
<1>6. \A c \in Calls : call[c].solved \in Captchas \cup {"none"}
  BY <1>0 DEF BlockTyped, Call
<1>7. Solved'
  BY <1>0, <1>1, <1>5, <1>6 DEF Solved, InStore
<1> QED
  BY <1>4, <1>7

LEMMA CaptchaStep ==
  ASSUME CaptchaInv, BlockTyped', [Next]_vars
  PROVE  CaptchaInv'
<1> SUFFICES Solved' /\ StoreBounded'
  BY DEF CaptchaInv
<1>0. BlockTyped /\ Solved /\ StoreBounded
  BY DEF CaptchaInv
<1>s. \A c \in Calls : call[c].solved \in Captchas \cup {"none"}
  BY <1>0 DEF BlockTyped, Call
<1>u. ASSUME \A d \in Calls : call'[d].solved \in {call[d].solved, "none"}, UNCHANGED <<captcha, cleaning, uncleaned>>
      PROVE  Solved' /\ StoreBounded'
  BY <1>0, <1>u DEF Solved, StoreBounded, Settled, Stored, InStore
\* Captchas go out of the store and nothing else
<1>o. ASSUME call' = call, cleaning' = cleaning, uncleaned' = uncleaned, NEW k \in Captchas, NEW s \in {"answered", "stale"},
             InStore(k), captcha' = [captcha EXCEPT ![k] = s]
      PROVE  Solved' /\ StoreBounded'
  <2>1. /\ captcha' \in [Captchas -> States]
        /\ \A j \in Captchas : captcha'[j] = IF j = k THEN s ELSE captcha[j]
    BY <1>0, <1>o DEF StoreBounded, States
  <2>2. \A j \in Captchas : InStore(j)' => InStore(j)
    BY <1>o, <2>1 DEF InStore
  <2>3. Solved'
    BY <1>0, <1>s, <1>o, <2>1 DEF Solved, InStore
  <2> QED
    BY <1>0, <1>o, <2>1, <2>2, <2>3, StoreKept DEF StoreBounded
<1>1. CASE \E c \in Calls :
             \/ Check(c) \/ LoggedIn(c) \/ Failed(c) \/ Drop(c)
             \/ SuccessLimit(c) \/ Insert(c) \/ Registered(c)
  BY <1>0, <1>1, <1>u, OtherCalls
<1>2. CASE \E c \in Calls : Answer(c)
  BY <1>2, AnswerStep
<1>3. CASE \E k \in Captchas : Issue(k)
  <2>1. PICK k \in Captchas : Issue(k)
    BY <1>3
  <2>2. Solved'
    <3>1. \A j \in Captchas : captcha[j] = "answered" => captcha'[j] = "answered"
      BY <1>0, <2>1 DEF Issue, StoreBounded
    <3> QED
      BY <1>0, <1>s, <2>1, <3>1 DEF Issue, Solved
  <2> QED
    BY <1>0, <2>1, <2>2, IssueStep
<1>4. CASE \E k \in Captchas : Cleanup(k)
  <2>1. PICK k \in Captchas : Cleanup(k)
    BY <1>4
  <2>2. Solved'
    <3>1. \A j \in Captchas : captcha[j] = "answered" => captcha'[j] = "answered"
      BY <1>0, <2>1 DEF Cleanup, StoreBounded, InStore
    <3> QED
      BY <1>0, <1>s, <2>1, <3>1 DEF Cleanup, Solved
  <2> QED
    BY <1>0, <2>1, <2>2, CleanupStep
<1>5. CASE \E k \in Captchas : Verify(k)
  BY <1>5, <1>o DEF Verify, TakeOut
<1>6. CASE \E k \in Captchas : Expire(k)
  BY <1>6, <1>o DEF Expire, InStore
<1>7. CASE Tick
  BY <1>7, <1>u DEF Tick
<1>10. CASE \E k \in Captchas : CutOff(k)
  <2>1. PICK k \in Captchas : CutOff(k)
    BY <1>10
  <2>2. /\ captcha' = captcha /\ call' = call /\ cleaning' = cleaning \ {k}
        /\ uncleaned' = uncleaned \cup {k}
    BY <2>1 DEF CutOff
  <2>3. StoreBounded'
    BY <1>0, <2>2, StoreKept DEF StoreBounded, InStore
  <2> QED
    BY <1>0, <2>2, <2>3 DEF Solved
<1>8. CASE Restart
  BY <1>8, RestartStep
<1>9. CASE UNCHANGED vars
  BY <1>9, <1>u DEF vars
<1> QED
  BY <1>1, <1>2, <1>3, <1>4, <1>5, <1>6, <1>7, <1>8, <1>9, <1>10 DEF Next

LEMMA CaptchaInit == Init => CaptchaInv
<1> SUFFICES ASSUME Init PROVE CaptchaInv
  OBVIOUS
<1>1. Settled = {}
  BY DEF Init, Settled, Stored, InStore
<1>2. Cardinality(Settled) = 0
  BY <1>1, FS_EmptySet
<1>3. StoreBounded
  <2> HIDE DEF Settled
  <2> QED
    BY <1>1, <1>2, FiniteStore DEF Init, StoreBounded, States
<1>4. Solved
  BY DEF Init, Solved, Unused
<1> QED
  BY <1>3, <1>4, BlockInit DEF CaptchaInv, BlockInv

\* No captcha lets two registrations pass, and the store is over its limit only by captchas after
\* which nobody has cleaned up yet, cut off or not
THEOREM CaptchasAreHeld == Spec => []CaptchasHold
<1>1. Init => CaptchaInv /\ BlockInv
  BY CaptchaInit, BlockInit
<1>2. CaptchaInv /\ BlockInv /\ [Next]_vars => CaptchaInv' /\ BlockInv'
  BY BlockStep, CaptchaStep DEF BlockInv
<1>3. CaptchaInv => CaptchasHold
  BY DEF CaptchaInv, Solved, StoreBounded, CaptchasHold
<1> QED
  BY <1>1, <1>2, <1>3, PTL DEF Spec
-----------------------------------------------------------------------------
(* What stands in the lists *)

\* Who has noted something, in a call of one of these kinds, and when
Theirs(marks, kinds) ==
  \A x \in marks :
    /\ call[x.by].at # "unused"
    /\ call[x.by].kind \in kinds
    /\ x.time <= call[x.by].touched
    /\ x.part = "outcome" => call[x.by].at = "ended"

\* Each part of a call is counted once
OneEach(marks) == \A x, y \in marks : x.by = y.by /\ x.part = y.part => x = y

Logins == {"login", "admin"}

CountInv ==
  /\ BlockTyped
  /\ tries \subseteq Mark /\ Theirs(tries, Logins) /\ OneEach(tries)
  /\ signups \subseteq Mark /\ Theirs(signups, {"register"}) /\ OneEach(signups)
  /\ \A x \in signups : x.part = "check"
  /\ \A c \in Calls : call[c].touched <= now

LEMMA FiniteCalls ==
  /\ IsFiniteSet(Calls)
  /\ \A C \in SUBSET Calls : IsFiniteSet(C) /\ Cardinality(C) \in Nat
<1>1. IsFiniteSet(Calls)
  BY FS_Interval, LimitsAssumption DEF Calls
<1> QED
  BY <1>1, FS_Subset, FS_CardinalityType

\* Two marks for each call at most, and one if only the check has made them
LEMMA TwiceEach ==
  ASSUME NEW marks, marks \subseteq Mark, OneEach(marks),
         NEW C \in SUBSET Calls, \A x \in marks : x.by \in C
  PROVE  /\ IsFiniteSet(marks) /\ Cardinality(marks) \in Nat
         /\ Cardinality(marks) <= 2 * Cardinality(C)
<1> DEFINE Parts == {"check", "outcome"}
           f == [x \in marks |-> <<x.by, x.part>>]
<1>1. IsFiniteSet(Parts) /\ Cardinality(Parts) = 2
  <2>1. IsFiniteSet({"check"}) /\ Cardinality({"check"}) = 1
    BY FS_Singleton
  <2>2. Parts = {"check"} \cup {"outcome"}
    OBVIOUS
  <2> QED
    BY <2>1, <2>2, FS_AddElement
<1>2. IsFiniteSet(C) /\ Cardinality(C) \in Nat
  BY FiniteCalls
<1>3. IsFiniteSet(C \X Parts) /\ Cardinality(C \X Parts) = Cardinality(C) * 2
  BY <1>1, <1>2, FS_Product
<1>4. f \in Injection(marks, C \X Parts)
  <2>1. f \in [marks -> C \X Parts]
    BY DEF Mark
  <2>2. \A x, y \in marks : f[x] = f[y] => x = y
    BY DEF OneEach
  <2> QED
    BY <2>1, <2>2 DEF Injection, IsInjective
<1>5. IsFiniteSet(marks) /\ Cardinality(marks) <= Cardinality(C \X Parts)
  BY <1>3, <1>4, FS_Injection
<1> QED
  BY <1>2, <1>3, <1>5, FS_CardinalityType

LEMMA OnceEach ==
  ASSUME NEW marks, marks \subseteq Mark, OneEach(marks), \A x \in marks : x.part = "check",
         NEW C \in SUBSET Calls, \A x \in marks : x.by \in C
  PROVE  Cardinality(marks) <= Cardinality(C)
<1> DEFINE f == [x \in marks |-> x.by]
<1>1. f \in Injection(marks, C)
  BY DEF Injection, IsInjective, OneEach
<1>2. IsFiniteSet(C)
  BY FiniteCalls
<1> QED
  BY <1>1, <1>2, FS_Injection

\* How a step of c changes the calls: what counts of the others stays, and c itself, unless it
\* comes in, keeps its kind and is touched now or not at all
LEMMA CallMoves ==
  ASSUME BlockTyped, NEW c \in Calls,
         \/ Check(c) \/ LoggedIn(c) \/ Failed(c) \/ Drop(c)
         \/ SuccessLimit(c) \/ Answer(c) \/ Insert(c) \/ Registered(c)
  PROVE  /\ call' \in [Calls -> Call] /\ now' = now
         /\ \A d \in Calls : d # c =>
              /\ call'[d].at = call[d].at /\ call'[d].kind = call[d].kind
              /\ call'[d].touched = call[d].touched
              /\ Registered(c) \/ call'[d].overtaken = call[d].overtaken
              /\ Registered(c) /\ Pending(d) => call'[d].overtaken
         /\ call[c].at # "ended" /\ call'[c].at # "unused"
         /\ Check(c) => /\ call[c].at = "unused"
                        /\ call'[c].touched \in {call[c].touched, now}
                        /\ \/ call'[c].at = "ended"
                           \/ \E k \in Kinds : call'[c] = Begun(k, now)
         /\ ~Check(c) => /\ call[c].at # "unused" /\ call'[c].kind = call[c].kind
                         /\ call'[c].touched \in {call[c].touched, now}
<1>0. call[c] \in Call /\ now \in Times /\ call \in [Calls -> Call]
  BY DEF BlockTyped
<1>o. /\ Over(c) \in Call /\ Over(c).at = "ended"
      /\ Over(c).kind = call[c].kind /\ Over(c).touched = call[c].touched
  BY OverTyped
<1> DEFINE Rest == \A d \in Calls : d # c =>
              /\ call'[d].at = call[d].at /\ call'[d].kind = call[d].kind
              /\ call'[d].touched = call[d].touched
              /\ call'[d].overtaken = call[d].overtaken
<1>m. ASSUME NEW x \in Call, Become(c, x) \/ \E k \in Kinds : Blocked(c, x, k)
      PROVE  call' \in [Calls -> Call] /\ call'[c] = x /\ Rest
  <2>1. CASE Become(c, x)
    BY <1>0, <2>1, BecomeTyped
  <2>2. CASE \E k \in Kinds : Blocked(c, x, k)
    BY <1>0, <2>2, BlockedTyped
  <2> QED
    BY <1>m, <2>1, <2>2
<1> HIDE DEF Rest
<1>1. ASSUME Check(c)
      PROVE  /\ call' \in [Calls -> Call] /\ now' = now /\ Rest /\ call[c].at = "unused"
             /\ call'[c].at # "unused" /\ call'[c].touched \in {call[c].touched, now}
             /\ \/ call'[c].at = "ended"
                \/ \E k \in Kinds : call'[c] = Begun(k, now)
  <2>1. PICK k \in Kinds :
          \/ now < blockUntil /\ End(c) /\ UNCHANGED blockUntil
          \/ ~(now < blockUntil) /\ Blocked(c, Over(c), k)
          \/ /\ ~(now < blockUntil) /\ UNCHANGED blockUntil
             /\ Become(c, Begun(k, now))
    BY <1>1, CheckOutcomes DEF Begun
  <2>2. now' = now /\ call[c].at = "unused"
    BY <1>1, CheckOutcomes
  <2>3. CASE Become(c, Over(c)) \/ Blocked(c, Over(c), k)
    BY <1>m, <1>o, <2>2, <2>3
  <2>4. CASE Become(c, Begun(k, now))
    <3>1. Begun(k, now) \in Call /\ Begun(k, now).at # "unused" /\ Begun(k, now).touched = now
      BY <1>0, BegunTyped
    <3> QED
      BY <1>m, <2>2, <2>4, <3>1
  <2> QED
    BY <2>1, <2>3, <2>4 DEF End
<1>e. ASSUME End(c) PROVE call' \in [Calls -> Call] /\ call'[c] = Over(c) /\ Rest
  BY <1>e, <1>m, <1>o DEF End
<1>g. ASSUME NEW at \in {"captcha", "outcome", "insert"}, NEW k \in Captchas \cup {call[c].solved},
             Become(c, [call[c] EXCEPT !.at = at, !.solved = k])
      PROVE  /\ call' \in [Calls -> Call] /\ Rest /\ call'[c].at # "unused"
             /\ call'[c].kind = call[c].kind /\ call'[c].touched = call[c].touched
  <2> DEFINE y == call[c]
             x == [y EXCEPT !.at = at, !.solved = k]
  <2>1. x \in Call /\ x.at = at /\ x.kind = y.kind /\ x.touched = y.touched
    <3>1. y \in Call /\ k \in Captchas \cup {"none"}
      BY <1>0, <1>g DEF Call
    <3> HIDE DEF y
    <3> QED
      BY <3>1 DEF Call
  <2>2. Become(c, x)
    BY <1>g
  <2> HIDE DEF x
  <2> QED
    BY <1>m, <2>1, <2>2
<1>2. ASSUME LoggedIn(c) \/ Drop(c) \/ SuccessLimit(c) \/ Answer(c) \/ Insert(c)
      PROVE  /\ call' \in [Calls -> Call] /\ now' = now /\ Rest
             /\ call'[c].at # "unused" /\ call'[c].kind = call[c].kind
             /\ call'[c].touched = call[c].touched
  <2>1. now' = now
    BY <1>2 DEF LoggedIn, Drop, SuccessLimit, Answer, Insert
  <2>2. CASE End(c)
    BY <1>e, <1>o, <2>1, <2>2
  <2>3. CASE SuccessLimit(c) \/ Insert(c)
    <3>1. PICK at \in {"captcha", "outcome"} : Become(c, [call[c] EXCEPT !.at = at])
      BY <2>3 DEF SuccessLimit, Insert
    <3>2. [call[c] EXCEPT !.at = at] = [call[c] EXCEPT !.at = at, !.solved = call[c].solved]
      BY <1>0 DEF Call
    <3>3. Become(c, [call[c] EXCEPT !.at = at, !.solved = call[c].solved])
      BY <3>1, <3>2
    <3> QED
      BY <1>g, <2>1, <3>3
  <2>4. CASE Answer(c)
    <3>1. PICK k \in Captchas : Become(c, [call[c] EXCEPT !.at = "insert", !.solved = k]) \/ End(c)
      BY <2>4 DEF Answer
    <3>2. CASE Become(c, [call[c] EXCEPT !.at = "insert", !.solved = k])
      BY <1>g, <2>1, <3>2
    <3> QED
      BY <2>2, <3>1, <3>2
  <2> QED
    BY <1>2, <2>2, <2>3, <2>4 DEF LoggedIn, Drop
<1>3. ASSUME Failed(c)
      PROVE  /\ call' \in [Calls -> Call] /\ now' = now /\ Rest
             /\ call'[c].at # "unused" /\ call'[c].kind = call[c].kind /\ call'[c].touched = now
  <2> DEFINE x == [Over(c) EXCEPT !.touched = now]
  <2>1. x \in Call /\ x.at = "ended" /\ x.kind = call[c].kind /\ x.touched = now
    BY <1>0, OverTyped
  <2> HIDE DEF x
  <2>2. Blocked(c, x, "login") \/ Become(c, x)
    BY <1>3 DEF Failed, x
  <2>3. "login" \in Kinds /\ now' = now
    BY <1>3 DEF Kinds, Failed
  <2> QED
    BY <1>m, <2>1, <2>2, <2>3
<1>4. ASSUME Registered(c)
      PROVE  /\ call' \in [Calls -> Call] /\ now' = now /\ call'[c].at = "ended"
             /\ call'[c].kind = call[c].kind /\ call'[c].touched = call[c].touched
             /\ \A d \in Calls : d # c =>
                  /\ call'[d].at = call[d].at /\ call'[d].kind = call[d].kind
                  /\ call'[d].touched = call[d].touched
                  /\ Pending(d) => call'[d].overtaken
  <2>1. now' = now
    BY <1>4 DEF Registered
  <2>2. call' \in [Calls -> Call] /\ call'[c].at = "ended"
    BY <1>4, RegisteredTyped
  <2>3. \A d \in Calls : call'[d].kind = call[d].kind /\ call'[d].touched = call[d].touched
    BY <1>4, RegisteredTyped
  <2>4. \A d \in Calls : d # c => call'[d].at = call[d].at /\ (Pending(d) => call'[d].overtaken)
    BY <1>4, RegisteredTyped
  <2> QED
    BY <2>1, <2>2, <2>3, <2>4
<1>5. Check(c) => ~Registered(c)
  BY DEF Check, Registered
<1>6. LoggedIn(c) \/ Failed(c) \/ Drop(c) \/ SuccessLimit(c) \/ Answer(c) \/ Insert(c) \/ Registered(c)
        => call[c].at \notin {"unused", "ended"}
  BY DEF LoggedIn, Failed, Drop, SuccessLimit, Answer, Insert, Registered, Pending
<1>7. CASE Check(c)
  BY <1>1, <1>5, <1>7 DEF Rest
<1>8. CASE Registered(c)
  BY <1>4, <1>5, <1>6, <1>8
<1>9. CASE ~Check(c) /\ ~Registered(c)
  BY <1>2, <1>3, <1>6, <1>9 DEF Rest
<1> QED
  BY <1>7, <1>8, <1>9

\* The lists after a step of c: what has been in them, or less, and at most one mark of c more
LEMMA ListMoves ==
  ASSUME BlockTyped, NEW c \in Calls,
         \/ Check(c) \/ LoggedIn(c) \/ Failed(c) \/ Drop(c)
         \/ SuccessLimit(c) \/ Answer(c) \/ Insert(c) \/ Registered(c)
  PROVE  /\ \/ tries' \subseteq tries
            \/ /\ tries' \subseteq tries \cup {Noted(c, "check")} /\ call[c].at = "unused"
               /\ \E k \in Logins : call'[c] = Begun(k, now)
            \/ /\ tries' \subseteq tries \cup {Noted(c, "outcome")} /\ Failed(c)
               /\ call'[c] = [Over(c) EXCEPT !.touched = now]
         /\ \/ signups' \subseteq signups
            \/ /\ signups' \subseteq signups \cup {Noted(c, "check")} /\ call[c].at = "unused"
               /\ call'[c] = Begun("register", now)
<1>0. \A k, n : Become(c, Begun(k, n)) => call'[c] = Begun(k, n)
  BY DEF Become, BlockTyped
<1>1. CASE Check(c)
  <2>1. PICK k \in Kinds :
          LET recent == Recent(Attempts(k), WindowOf(k))
          IN  \/ SetAttempts(k, recent)
              \/ SetAttempts(k, {})
              \/ SetAttempts(k, recent \cup {Noted(c, "check")}) /\ Become(c, Begun(k, now))
    BY <1>1 DEF Check, Begun
  <2>2. call[c].at = "unused"
    BY <1>1 DEF Check
  <2>3. Recent(Attempts(k), WindowOf(k)) \subseteq Attempts(k)
    BY DEF Recent
  <2>4. CASE k = "register"
    BY <1>0, <2>1, <2>2, <2>3, <2>4 DEF Attempts, SetAttempts
  <2>5. CASE k # "register"
    <3>1. k \in Logins
      BY <2>5 DEF Kinds, Logins
    <3> QED
      BY <1>0, <2>1, <2>2, <2>3, <2>5, <3>1 DEF Attempts, SetAttempts
  <2> QED
    BY <2>4, <2>5
<1>2. CASE LoggedIn(c) \/ Registered(c)
  BY <1>2 DEF LoggedIn, Registered
<1>3. CASE Failed(c)
  <2>1. signups' = signups
    BY <1>3 DEF Failed
  <2> DEFINE x == [Over(c) EXCEPT !.touched = now]
  <2>2. \/ tries' = {}
        \/ tries' = Recent(tries, Window) \cup {Noted(c, "outcome")} /\ Become(c, x)
    BY <1>3 DEF Failed
  <2>3. Become(c, x) => call'[c] = x
    BY DEF Become, BlockTyped
  <2>4. Recent(tries, Window) \subseteq tries
    BY DEF Recent
  <2> HIDE DEF x
  <2> QED
    BY <1>3, <2>1, <2>2, <2>3, <2>4 DEF x
<1>4. CASE Drop(c) \/ SuccessLimit(c) \/ Answer(c) \/ Insert(c)
  BY <1>4 DEF Drop, SuccessLimit, Answer, Insert, counter
<1> QED
  BY <1>1, <1>2, <1>3, <1>4

LEMMA NotedTyped ==
  ASSUME BlockTyped, NEW c \in Calls, NEW part \in {"check", "outcome"}
  PROVE  /\ Noted(c, part) \in Mark /\ Noted(c, part).by = c
         /\ Noted(c, part).part = part /\ Noted(c, part).time = now
  BY DEF Noted, Mark, BlockTyped

\* A list that has no more in it than before
LEMMA FewerMarks ==
  ASSUME CountInv, NEW c \in Calls,
         \/ Check(c) \/ LoggedIn(c) \/ Failed(c) \/ Drop(c)
         \/ SuccessLimit(c) \/ Answer(c) \/ Insert(c) \/ Registered(c),
         NEW marks, marks \subseteq Mark, NEW kinds, Theirs(marks, kinds)
  PROVE  \A x \in marks :
           /\ call'[x.by].at # "unused"
           /\ call'[x.by].kind \in kinds
           /\ x.time <= call'[x.by].touched
           /\ x.part = "outcome" => call'[x.by].at = "ended"
<1> SUFFICES ASSUME NEW x \in marks
             PROVE  /\ call'[x.by].at # "unused"
                    /\ call'[x.by].kind \in kinds
                    /\ x.time <= call'[x.by].touched
                    /\ x.part = "outcome" => call'[x.by].at = "ended"
  OBVIOUS
<1>1. x.by \in Calls /\ x.time \in Nat /\ now \in Nat /\ call[x.by] \in Call
  BY TimesAreNat DEF Mark, CountInv, BlockTyped
<1>2. /\ call[x.by].at # "unused" /\ call[x.by].kind \in kinds
      /\ x.time <= call[x.by].touched
      /\ x.part = "outcome" => call[x.by].at = "ended"
  BY DEF Theirs
<1>3. call[x.by].touched \in Nat /\ call[x.by].touched <= now
  BY <1>1, LimitsAssumption DEF Call, CountInv
<1>4. CASE x.by # c
  BY <1>1, <1>2, <1>4, CallMoves DEF CountInv
<1>5. CASE x.by = c
  <2>1. ~Check(c) /\ x.part # "outcome"
    BY <1>2, <1>5, CallMoves DEF CountInv
  <2> QED
    BY <1>1, <1>2, <1>3, <1>5, <2>1, CallMoves DEF CountInv
<1> QED
  BY <1>4, <1>5

LEMMA CountStepOf ==
  ASSUME CountInv, NEW c \in Calls,
         \/ Check(c) \/ LoggedIn(c) \/ Failed(c) \/ Drop(c)
         \/ SuccessLimit(c) \/ Answer(c) \/ Insert(c) \/ Registered(c)
  PROVE  /\ tries' \subseteq Mark /\ Theirs(tries, Logins)' /\ OneEach(tries)'
         /\ signups' \subseteq Mark /\ Theirs(signups, {"register"})' /\ OneEach(signups)'
         /\ \A x \in signups' : x.part = "check"
         /\ \A d \in Calls : call'[d].touched <= now'
<1>0. /\ BlockTyped /\ call \in [Calls -> Call] /\ now \in Nat /\ now \in Times
      /\ tries \subseteq Mark /\ Theirs(tries, Logins) /\ OneEach(tries)
      /\ signups \subseteq Mark /\ Theirs(signups, {"register"}) /\ OneEach(signups)
      /\ \A x \in signups : x.part = "check"
      /\ \A d \in Calls : call[d].touched <= now
  BY TimesAreNat DEF CountInv, BlockTyped
<1>t. /\ \A x \in tries :
           /\ call'[x.by].at # "unused"
           /\ call'[x.by].kind \in Logins
           /\ x.time <= call'[x.by].touched
           /\ x.part = "outcome" => call'[x.by].at = "ended"
      /\ \A x \in signups :
           /\ call'[x.by].at # "unused"
           /\ call'[x.by].kind \in {"register"}
           /\ x.time <= call'[x.by].touched
           /\ x.part = "outcome" => call'[x.by].at = "ended"
  BY <1>0, FewerMarks
<1>1. \A d \in Calls : call'[d].touched <= now'
  <2>1. now' = now /\ now <= now
    BY <1>0, CallMoves
  <2>2. \A d \in Calls : call'[d].touched \in {call[d].touched, now}
    BY <1>0, CallMoves
  <2> QED
    BY <1>0, <2>1, <2>2
\* A mark of c that was not there, as c had not come so far
<1>2. ASSUME call[c].at = "unused"
      PROVE  (\A x \in tries : x.by # c) /\ (\A x \in signups : x.by # c)
  BY <1>0, <1>2 DEF Theirs
<1>3. ASSUME NEW k \in Kinds
      PROVE  /\ Begun(k, now).at \notin {"unused"} /\ Begun(k, now).kind = k
             /\ Begun(k, now).touched = now
  BY <1>0, BegunTyped
<1>4. Noted(c, "check") \in Mark /\ Noted(c, "outcome") \in Mark
  BY <1>0, NotedTyped
<1>n. /\ Noted(c, "check").by = c /\ Noted(c, "check").part = "check" /\ Noted(c, "check").time = now
      /\ Noted(c, "outcome").by = c /\ Noted(c, "outcome").part = "outcome" /\ Noted(c, "outcome").time = now
  BY <1>0, NotedTyped
<1>l. Logins \subseteq Kinds /\ "register" \in Kinds
  BY DEF Logins, Kinds
<1>5. /\ tries' \subseteq Mark /\ OneEach(tries)'
      /\ \A x \in tries' : /\ call'[x.by].at # "unused" /\ call'[x.by].kind \in Logins
                           /\ x.time <= call'[x.by].touched
                           /\ x.part = "outcome" => call'[x.by].at = "ended"
  <2>1. CASE tries' \subseteq tries
    BY <1>0, <1>t, <2>1 DEF OneEach
  <2>2. CASE /\ tries' \subseteq tries \cup {Noted(c, "check")} /\ call[c].at = "unused"
             /\ \E k \in Logins : call'[c] = Begun(k, now)
    <3>1. PICK k \in Logins : call'[c] = Begun(k, now)
      BY <1>0, <2>2
    <3>2. call'[c].at # "unused" /\ call'[c].kind \in Logins /\ call'[c].touched = now /\ now <= now
      BY <1>0, <1>3, <1>l, <3>1
    <3>3. OneEach(tries)'
      BY <1>0, <1>2, <1>n, <2>2 DEF OneEach
    <3> SUFFICES ASSUME NEW x \in tries'
                 PROVE  /\ x \in Mark
                        /\ call'[x.by].at # "unused" /\ call'[x.by].kind \in Logins
                        /\ x.time <= call'[x.by].touched
                        /\ x.part = "outcome" => call'[x.by].at = "ended"
      BY <3>3
    <3>a. CASE x \in tries
      BY <1>0, <1>t, <3>a
    <3>b. CASE x = Noted(c, "check")
      BY <1>4, <1>n, <3>b, <3>2
    <3> QED
      BY <2>2, <3>a, <3>b
  <2>3. CASE /\ tries' \subseteq tries \cup {Noted(c, "outcome")} /\ Failed(c)
             /\ call'[c] = [Over(c) EXCEPT !.touched = now]
    <3>1. /\ call'[c].at = "ended" /\ call'[c].kind = call[c].kind /\ call'[c].touched = now
          /\ now <= now
      <4> DEFINE x == [Over(c) EXCEPT !.touched = now]
      <4>1. x.at = "ended" /\ x.kind = call[c].kind /\ x.touched = now
        BY <1>0, OverTyped
      <4>2. call'[c] = x
        BY <2>3
      <4> HIDE DEF x
      <4> QED
        BY <1>0, <4>1, <4>2
    <3>2. call[c].kind \in Logins /\ call[c].at = "outcome"
      BY <2>3 DEF Failed, Logins
    <3>3. \A x \in tries : x.by = c => x.part # "outcome"
      BY <1>0, <3>2 DEF Theirs
    <3>4. OneEach(tries)'
      BY <1>0, <1>n, <2>3, <3>3 DEF OneEach
    <3> SUFFICES ASSUME NEW x \in tries'
                 PROVE  /\ x \in Mark
                        /\ call'[x.by].at # "unused" /\ call'[x.by].kind \in Logins
                        /\ x.time <= call'[x.by].touched
                        /\ x.part = "outcome" => call'[x.by].at = "ended"
      BY <3>4
    <3>a. CASE x \in tries
      BY <1>0, <1>t, <3>a
    <3>b. CASE x = Noted(c, "outcome")
      BY <1>4, <1>n, <3>b, <3>1, <3>2
    <3> QED
      BY <2>3, <3>a, <3>b
  <2> QED
    BY <1>0, <2>1, <2>2, <2>3, ListMoves
<1>6. /\ signups' \subseteq Mark /\ OneEach(signups)'
      /\ \A x \in signups' : /\ call'[x.by].at # "unused" /\ call'[x.by].kind \in {"register"}
                             /\ x.time <= call'[x.by].touched
                             /\ x.part = "outcome" => call'[x.by].at = "ended"
      /\ \A x \in signups' : x.part = "check"
  <2>1. CASE signups' \subseteq signups
    BY <1>0, <1>t, <2>1 DEF OneEach
  <2>2. CASE /\ signups' \subseteq signups \cup {Noted(c, "check")} /\ call[c].at = "unused"
             /\ call'[c] = Begun("register", now)
    <3>1. /\ call'[c].at # "unused" /\ call'[c].kind \in {"register"} /\ call'[c].touched = now
          /\ now <= now
      BY <1>0, <1>3, <1>l, <2>2
    <3>2. OneEach(signups)'
      BY <1>0, <1>2, <1>n, <2>2 DEF OneEach
    <3> SUFFICES ASSUME NEW x \in signups'
                 PROVE  /\ x \in Mark
                        /\ call'[x.by].at # "unused" /\ call'[x.by].kind \in {"register"}
                        /\ x.time <= call'[x.by].touched
                        /\ x.part = "outcome" => call'[x.by].at = "ended"
                        /\ x.part = "check"
      BY <3>2
    <3>a. CASE x \in signups
      BY <1>0, <1>t, <3>a
    <3>b. CASE x = Noted(c, "check")
      BY <1>4, <1>n, <3>b, <3>1
    <3> QED
      BY <2>2, <3>a, <3>b
  <2> QED
    BY <1>0, <2>1, <2>2, ListMoves
<1> QED
  BY <1>1, <1>5, <1>6 DEF Theirs

LEMMA CountStep ==
  ASSUME CountInv, BlockTyped', [Next]_vars
  PROVE  CountInv'
<1>0. now \in Nat /\ \A d \in Calls : call[d].touched \in Nat
  BY TimesAreNat, LimitsAssumption DEF CountInv, BlockTyped, Call
<1>1. CASE \E c \in Calls :
             \/ Check(c) \/ LoggedIn(c) \/ Failed(c) \/ Drop(c)
             \/ SuccessLimit(c) \/ Answer(c) \/ Insert(c) \/ Registered(c)
  BY <1>1, CountStepOf DEF CountInv
<1>2. ASSUME UNCHANGED <<counter, call>>, now' \in {now, now + 1}
      PROVE  CountInv'
  BY <1>0, <1>2 DEF CountInv, Theirs, OneEach, counter
<1>3. CASE \E k \in Captchas : Issue(k) \/ CutOff(k) \/ Cleanup(k) \/ Verify(k) \/ Expire(k)
  BY <1>2, <1>3 DEF Issue, CutOff, Cleanup, Verify, Expire
<1>4. CASE Tick
  BY <1>2, <1>4 DEF Tick
<1>5. CASE Restart
  <2>1. tries' = {} /\ signups' = {} /\ now' = now
    BY <1>5 DEF Restart
  <2>2. \A d \in Calls : call'[d].touched \in {call[d].touched, 0}
    <3>1. call' = [d \in Calls |->
            IF call[d].at = "unused" THEN call[d] ELSE [Over(d) EXCEPT !.touched = 0]]
      BY <1>5 DEF Restart
    <3> QED
      BY <3>1, OverTyped DEF CountInv
  <2>3. \A d \in Calls : call'[d].touched <= now'
    BY <1>0, <2>1, <2>2 DEF CountInv
  <2> QED
    BY <2>1, <2>3 DEF CountInv, Theirs, OneEach
<1>6. CASE UNCHANGED vars
  BY <1>2, <1>6 DEF vars
<1> QED
  BY <1>1, <1>3, <1>4, <1>5, <1>6 DEF Next

\* A list that is long enough for a block stands for enough calls
LEMMA MarksStandForCalls ==
  ASSUME CountInv, call' \in [Calls -> Call], now' = now, NEW k \in Kinds,
         NEW marks, marks \subseteq Mark, OneEach(marks), Reached(marks, k),
         \A x \in marks : /\ (call'[x.by].kind = "register") = (k = "register")
                          /\ x.time <= call'[x.by].touched /\ call'[x.by].touched <= now
                          /\ x.time = now \/ now - x.time < WindowOf(k),
         k = "register" => \A x \in marks : x.part = "check"
  PROVE  LET n == Cardinality(CountedWith(k)')
         IN  IF k = "register" THEN n >= RegisterMax ELSE 2 * n >= MaxOf(k)
<1> DEFINE C == CountedWith(k)'
<1>1. C \in SUBSET Calls
  BY DEF CountedWith
<1>2. \A x \in marks : x.by \in C
  <2> SUFFICES ASSUME NEW x \in marks PROVE x.by \in C
    OBVIOUS
  <2>1. x.by \in Calls /\ x.time \in Times /\ call'[x.by] \in Call
    BY DEF Mark
  <2>2. x.time \in Nat /\ x.time > 0 /\ call'[x.by].touched \in Nat /\ now \in Nat /\ WindowOf(k) \in Nat
    BY <2>1, LimitsAssumption, TimesAreNat DEF Call, Times, CountInv, BlockTyped, WindowOf
  <2>3. call'[x.by].touched > 0
        /\ (call'[x.by].touched = now' \/ now' - call'[x.by].touched < WindowOf(k))
    BY <2>1, <2>2
  <2> QED
    BY <2>1, <2>3 DEF CountedWith
<1>3. Cardinality(C) \in Nat
  BY <1>1, FiniteCalls
<1> HIDE DEF C
<1>4. Cardinality(marks) \in Nat /\ Cardinality(marks) <= 2 * Cardinality(C)
  BY <1>1, <1>2, TwiceEach
<1>5. MaxOf(k) \in Nat /\ Cardinality(marks) >= MaxOf(k)
  BY LimitsAssumption DEF MaxOf, Kinds, Reached
<1>6. CASE k = "register"
  <2>1. Cardinality(marks) <= Cardinality(C)
    BY <1>1, <1>2, <1>6, OnceEach
  <2>2. MaxOf(k) = RegisterMax
    BY <1>6 DEF MaxOf
  <2> QED
    BY <1>3, <1>4, <1>5, <1>6, <2>1, <2>2 DEF C
<1>7. CASE k # "register"
  BY <1>3, <1>4, <1>5, <1>7 DEF C
<1> QED
  BY <1>6, <1>7

Earned ==
  blockUntil' # blockUntil /\ blockUntil' > now =>
    \E k \in Kinds :
      /\ blockUntil' = now + BlockOf(k)
      /\ LET n == Cardinality(CountedWith(k)')
         IN  IF k = "register" THEN n >= RegisterMax ELSE 2 * n >= MaxOf(k)

LEMMA CheckEarned ==
  ASSUME CountInv, NEW c \in Calls, Check(c), blockUntil' # blockUntil
  PROVE  Earned
<1>0. /\ BlockTyped /\ now \in Nat
      /\ tries \subseteq Mark /\ Theirs(tries, Logins) /\ OneEach(tries)
      /\ signups \subseteq Mark /\ Theirs(signups, {"register"}) /\ OneEach(signups)
      /\ \A x \in signups : x.part = "check"
  BY TimesAreNat DEF CountInv, BlockTyped
<1>1. PICK k \in Kinds : /\ Reached(Recent(Attempts(k), WindowOf(k)), k)
                         /\ blockUntil' = now + BlockOf(k)
  BY DEF Check, Blocked
<1>2. call[c].at = "unused" /\ call' \in [Calls -> Call] /\ now' = now
  BY <1>0, CallMoves
<1> DEFINE marks == Recent(Attempts(k), WindowOf(k))
<1>3. marks \subseteq Mark /\ OneEach(marks) /\ \A x \in marks : now - x.time < WindowOf(k)
  BY <1>0 DEF Recent, Attempts, OneEach
<1>4. k = "register" => \A x \in marks : x.part = "check"
  BY <1>0 DEF Recent, Attempts
<1>5. ASSUME NEW x \in marks
      PROVE  /\ (call'[x.by].kind = "register") = (k = "register")
             /\ x.time <= call'[x.by].touched
  <2>1. CASE k = "register"
    <3>1. x \in signups
      BY <2>1 DEF Recent, Attempts
    <3> QED
      BY <1>0, <2>1, <3>1, FewerMarks
  <2>2. CASE k # "register"
    <3>1. x \in tries
      BY <2>2 DEF Recent, Attempts
    <3> QED
      BY <1>0, <2>2, <3>1, FewerMarks DEF Logins
  <2> QED
    BY <2>1, <2>2
<1>t. \A d \in Calls : call'[d].touched <= now
  BY <1>2, CountStepOf
<1>m. \A x \in marks : x.by \in Calls
  BY <1>3 DEF Mark
<1> HIDE DEF marks
<1>6. LET n == Cardinality(CountedWith(k)')
      IN  IF k = "register" THEN n >= RegisterMax ELSE 2 * n >= MaxOf(k)
  BY <1>1, <1>2, <1>3, <1>4, <1>5, <1>t, <1>m, MarksStandForCalls DEF marks
<1> QED
  BY <1>1, <1>6 DEF Earned

LEMMA FailedEarned ==
  ASSUME CountInv, NEW c \in Calls, Failed(c), blockUntil' # blockUntil
  PROVE  Earned
<1>0. /\ BlockTyped /\ now \in Nat /\ now <= now
      /\ tries \subseteq Mark /\ Theirs(tries, Logins) /\ OneEach(tries)
  BY TimesAreNat DEF CountInv, BlockTyped
<1> DEFINE marks == Recent(tries, Window) \cup {Noted(c, "outcome")}
           k == "login"
<1>1. /\ Reached(marks, k) /\ blockUntil' = now + BlockOf(k)
      /\ call[c].at = "outcome" /\ call[c].kind = "login"
      /\ Blocked(c, [Over(c) EXCEPT !.touched = now], k)
  BY DEF Failed, Blocked
<1>2. call' \in [Calls -> Call] /\ now' = now /\ call'[c].kind = "login" /\ ~Check(c)
  <2>1. ~Check(c)
    BY <1>1 DEF Check
  <2> QED
    BY <1>0, <1>1, <2>1, CallMoves
<1>3. call'[c].touched = now
  <2> DEFINE x == [Over(c) EXCEPT !.touched = now]
  <2>1. x \in Call /\ x.touched = now
    BY <1>0, OverTyped DEF BlockTyped
  <2>2. call'[c] = x
    BY <1>1 DEF Blocked
  <2> HIDE DEF x
  <2> QED
    BY <2>1, <2>2
<1>n. /\ Noted(c, "outcome") \in Mark /\ Noted(c, "outcome").by = c
      /\ Noted(c, "outcome").part = "outcome" /\ Noted(c, "outcome").time = now
  BY <1>0, NotedTyped
<1>w. WindowOf(k) = Window /\ k \in Kinds /\ k # "register"
  BY DEF WindowOf, Kinds
<1>4. marks \subseteq Mark
  BY <1>0, <1>n DEF Recent
<1>5. OneEach(marks)
  <2>1. \A x \in tries : x.by = c => x.part # "outcome"
    BY <1>0, <1>1 DEF Theirs
  <2> QED
    BY <1>0, <1>n, <2>1 DEF OneEach, Recent
<1>6. \A x \in marks : /\ (call'[x.by].kind = "register") = (k = "register")
                       /\ x.time <= call'[x.by].touched /\ call'[x.by].touched <= now
                       /\ x.time = now \/ now - x.time < WindowOf(k)
  <2> SUFFICES ASSUME NEW x \in marks
               PROVE  /\ call'[x.by].kind # "register"
                      /\ x.time <= call'[x.by].touched /\ call'[x.by].touched <= now
                      /\ x.time = now \/ now - x.time < WindowOf(k)
    BY <1>w
  <2>1. call'[x.by].touched <= now
    BY <1>2, <1>4, CountStepOf DEF Mark
  <2>2. CASE x \in Recent(tries, Window)
    <3>1. x \in tries /\ now - x.time < Window
      BY <2>2 DEF Recent
    <3> QED
      BY <1>0, <1>w, <2>1, <3>1, FewerMarks DEF Logins
  <2>3. CASE x = Noted(c, "outcome")
    BY <1>0, <1>2, <1>3, <1>n, <2>1, <2>3
  <2> QED
    BY <2>2, <2>3
<1> HIDE DEF marks
<1>7. LET n == Cardinality(CountedWith(k)')
      IN  IF k = "register" THEN n >= RegisterMax ELSE 2 * n >= MaxOf(k)
  BY <1>1, <1>2, <1>4, <1>5, <1>6, <1>w, MarksStandForCalls
<1> QED
  BY <1>1, <1>7, <1>w DEF Earned

LEMMA EarnedStep ==
  ASSUME CountInv, [Next]_vars
  PROVE  Earned
<1> SUFFICES ASSUME blockUntil' # blockUntil, blockUntil' > now PROVE Earned
  BY DEF Earned
<1>0. now \in Nat /\ ~(0 > now)
  BY TimesAreNat DEF CountInv, BlockTyped
<1>1. CASE \E c \in Calls : Check(c)
  BY <1>1, CheckEarned
<1>2. CASE \E c \in Calls : Failed(c)
  BY <1>2, FailedEarned
<1>3. CASE \E c \in Calls : LoggedIn(c) \/ Registered(c)
  BY <1>0, <1>3 DEF LoggedIn, Registered
<1>4. CASE \E c \in Calls : Drop(c) \/ SuccessLimit(c) \/ Answer(c) \/ Insert(c)
  BY <1>4 DEF Drop, SuccessLimit, Answer, Insert, counter
<1>5. CASE \/ \E k \in Captchas : Issue(k) \/ CutOff(k) \/ Cleanup(k) \/ Verify(k) \/ Expire(k)
           \/ Tick \/ UNCHANGED vars
  BY <1>5 DEF Issue, CutOff, Cleanup, Verify, Expire, Tick, counter, vars
<1>6. CASE Restart
  BY <1>0, <1>6 DEF Restart
<1> QED
  BY <1>1, <1>2, <1>3, <1>4, <1>5, <1>6 DEF Next

LEMMA CountInit == Init => CountInv
<1> SUFFICES ASSUME Init PROVE CountInv
  OBVIOUS
<1>1. now = 1 /\ \A c \in Calls : call[c].touched = 0
  BY DEF Init, Unused
<1> QED
  BY <1>1, BlockInit DEF Init, CountInv, Theirs, OneEach, BlockInv

\* A block stands for at least half as many logins in the window as the limit says, and for no
\* fewer registrations, however the calls of webmail and administration overlap
THEOREM BlocksAreEarned == Spec => NoHastyBlock
<1>1. Init => CountInv /\ BlockInv
  BY CountInit, BlockInit
<1>2. CountInv /\ BlockInv /\ [Next]_vars => CountInv' /\ BlockInv'
  BY BlockStep, CountStep DEF BlockInv
<1>3. CountInv /\ [Next]_vars =>
        [blockUntil' # blockUntil /\ blockUntil' > now =>
           \E k \in Kinds :
             /\ blockUntil' = now + BlockOf(k)
             /\ LET n == Cardinality(CountedWith(k)')
                IN  IF k = "register" THEN n >= RegisterMax ELSE 2 * n >= MaxOf(k)]_vars
  BY EarnedStep DEF Earned
<1> QED
  BY <1>1, <1>2, <1>3, PTL DEF Spec, NoHastyBlock
-----------------------------------------------------------------------------
(* Registrations that succeed *)

\* Has passed the limit on successes, and nobody has succeeded since
Sure(c) ==
  /\ call[c].at \in {"captcha", "insert"} \/ (call[c].at = "outcome" /\ call[c].kind = "register")
  /\ ~call[c].overtaken

Roomy == \A c \in Calls : Sure(c) => Cardinality(Recent(successes, Window)) < SuccessMax

RoomInv ==
  /\ BlockTyped
  /\ successes \subseteq Mark /\ IsFiniteSet(successes)
  /\ Roomy

\* As time goes by there is no less room
LEMMA RoomStays ==
  ASSUME RoomInv, successes' \subseteq successes, now' \in {now, now + 1}
  PROVE  /\ successes' \subseteq Mark /\ IsFiniteSet(successes')
         /\ Cardinality(Recent(successes, Window)') \in Nat
         /\ \A c \in Calls : Sure(c) => Cardinality(Recent(successes, Window)') < SuccessMax
<1>0. now \in Nat /\ \A x \in successes : x.time \in Nat
  BY TimesAreNat DEF RoomInv, BlockTyped, Mark
<1>1. Recent(successes, Window)' \subseteq Recent(successes, Window)
  BY <1>0, LimitsAssumption DEF Recent
<1>2. IsFiniteSet(Recent(successes, Window))
  BY FS_Subset DEF Recent, RoomInv
<1>3. /\ Cardinality(Recent(successes, Window)') <= Cardinality(Recent(successes, Window))
      /\ Cardinality(Recent(successes, Window)') \in Nat
      /\ Cardinality(Recent(successes, Window)) \in Nat
  BY <1>1, <1>2, FS_Subset, FS_CardinalityType
<1>4. IsFiniteSet(successes')
  BY FS_Subset DEF RoomInv
<1> QED
  BY <1>3, <1>4, LimitsAssumption DEF RoomInv, Roomy

\* Whoever is sure after a step has been so before, except who has just passed the limit
LEMMA SureMoves ==
  ASSUME BlockTyped, NEW c \in Calls,
         \/ Check(c) \/ LoggedIn(c) \/ Failed(c) \/ Drop(c)
         \/ SuccessLimit(c) \/ Answer(c) \/ Insert(c) \/ Registered(c)
  PROVE  /\ ~SuccessLimit(c) /\ ~Registered(c) => \A d \in Calls : Sure(d)' => Sure(d)
         /\ SuccessLimit(c) => \A d \in Calls : d # c /\ Sure(d)' => Sure(d)
         /\ Registered(c) => \A d \in Calls : ~Sure(d)'
<1>1. \A d \in Calls : d # c /\ ~Registered(c) /\ Sure(d)' => Sure(d)
  BY CallMoves DEF Sure
<1>2. ASSUME Registered(c) PROVE \A d \in Calls : ~Sure(d)'
  <2>1. /\ call'[c].at = "ended"
        /\ \A d \in Calls : d # c => /\ call'[d].at = call[d].at
                                     /\ Pending(d) => call'[d].overtaken
    BY <1>2, RegisteredTyped
  <2> QED
    BY <2>1 DEF Sure, Pending
<1>3. ASSUME Check(c) \/ LoggedIn(c) \/ Failed(c) \/ Drop(c), ~Registered(c), Sure(c)'
      PROVE  FALSE
  <2>1. CASE Check(c)
    <3>1. \A k \in Kinds : Begun(k, now).at = (IF k = "register" THEN "in" ELSE "outcome")
                           /\ Begun(k, now).kind = k
      BY BegunTyped DEF BlockTyped
    <3>2. call'[c].at = "ended" \/ \E k \in Kinds : call'[c] = Begun(k, now)
      BY <2>1, CallMoves
    <3> QED
      BY <1>3, <3>1, <3>2 DEF Sure
  <2>2. CASE End(c)
    <3>1. call'[c] = Over(c)
      BY <2>2 DEF End, Become, BlockTyped
    <3> QED
      BY <1>3, <3>1, OverTyped DEF Sure
  <2>3. CASE Failed(c)
    <3> DEFINE x == [Over(c) EXCEPT !.touched = now]
    <3>1. x.at = "ended"
      BY OverTyped DEF BlockTyped
    <3>2. call'[c] = x
      BY <2>3 DEF Failed, Blocked, Become, BlockTyped
    <3> HIDE DEF x
    <3> QED
      BY <1>3, <3>1, <3>2 DEF Sure
  <2> QED
    BY <1>3, <2>1, <2>2, <2>3 DEF LoggedIn, Drop
<1>4. ASSUME Answer(c) \/ Insert(c), Sure(c)' PROVE Sure(c)
  <2>1. CASE End(c)
    <3>1. call'[c] = Over(c)
      BY <2>1 DEF End, Become, BlockTyped
    <3> QED
      BY <1>4, <3>1, OverTyped DEF Sure
  <2>2. CASE \E at \in {"insert", "outcome"}, k \in Captchas \cup {call[c].solved} :
               Become(c, [call[c] EXCEPT !.at = at, !.solved = k])
    <3>1. PICK at \in {"insert", "outcome"}, k \in Captchas \cup {call[c].solved} :
            call'[c] = [call[c] EXCEPT !.at = at, !.solved = k]
      BY <2>2 DEF Become, BlockTyped
    <3>2. call[c] \in Call
      BY DEF BlockTyped
    <3>3. call'[c].overtaken = call[c].overtaken
      BY <3>1, <3>2 DEF Call
    <3>4. call[c].at \in {"captcha", "insert"}
      BY <1>4 DEF Answer, Insert
    <3> QED
      BY <1>4, <3>3, <3>4 DEF Sure
  <2>3. ASSUME Insert(c) PROVE Become(c, [call[c] EXCEPT !.at = "outcome", !.solved = call[c].solved])
    <3>1. call[c] \in Call
      BY DEF BlockTyped
    <3>2. [call[c] EXCEPT !.at = "outcome"] = [call[c] EXCEPT !.at = "outcome", !.solved = call[c].solved]
      BY <3>1 DEF Call
    <3> QED
      BY <2>3, <3>2 DEF Insert
  <2> QED
    BY <1>4, <2>1, <2>2, <2>3 DEF Answer
<1>5. CASE Registered(c)
  BY <1>2, <1>5 DEF Registered, SuccessLimit
<1>6. CASE ~Registered(c)
  BY <1>1, <1>3, <1>4, <1>6
<1> QED
  BY <1>5, <1>6

LEMMA RegisteredRoom ==
  ASSUME RoomInv, NEW c \in Calls, Registered(c)
  PROVE  /\ successes' \subseteq Mark /\ IsFiniteSet(successes')
         /\ ~call[c].overtaken => Cardinality(successes') <= SuccessMax
<1> DEFINE recent == Recent(successes, Window)
           x == Noted(c, "outcome")
<1>1. successes' \subseteq recent \cup {x}
  BY DEF Registered, Recent
<1>2. recent \subseteq Mark /\ IsFiniteSet(recent) /\ x \in Mark
  BY FS_Subset, NotedTyped DEF RoomInv, Recent
<1> HIDE DEF recent, x
<1>3. IsFiniteSet(recent \cup {x}) /\ Cardinality(recent \cup {x}) <= Cardinality(recent) + 1
  <2>1. Cardinality(recent) \in Nat
    BY <1>2, FS_CardinalityType
  <2>2. /\ IsFiniteSet(recent \cup {x})
        /\ Cardinality(recent \cup {x}) = IF x \in recent THEN Cardinality(recent) ELSE Cardinality(recent) + 1
    BY <1>2, FS_AddElement
  <2> QED
    BY <2>1, <2>2
<1>4. IsFiniteSet(successes') /\ Cardinality(successes') <= Cardinality(recent \cup {x})
  BY <1>1, <1>3, FS_Subset
<1>n. /\ Cardinality(successes') \in Nat /\ Cardinality(recent) \in Nat
      /\ Cardinality(recent \cup {x}) \in Nat
  BY <1>2, <1>3, <1>4, FS_CardinalityType
<1>5. ~call[c].overtaken => Cardinality(recent) < SuccessMax
  BY DEF RoomInv, Roomy, Sure, Registered, recent
<1> QED
  BY <1>1, <1>2, <1>3, <1>4, <1>5, <1>n, LimitsAssumption

LEMMA RoomStep ==
  ASSUME RoomInv, BlockTyped', [Next]_vars
  PROVE  RoomInv'
<1>0. BlockTyped /\ Roomy /\ successes \subseteq successes
  BY DEF RoomInv
<1>s. ASSUME successes' \subseteq successes, now' \in {now, now + 1},
             \A d \in Calls : Sure(d)' => Sure(d)
      PROVE  RoomInv'
  BY <1>s, RoomStays DEF RoomInv, Roomy
<1>1. CASE \E c \in Calls : /\ Check(c) \/ LoggedIn(c) \/ Failed(c) \/ Drop(c) \/ Answer(c) \/ Insert(c)
                            /\ ~SuccessLimit(c) /\ ~Registered(c)
  <2>1. successes' = successes /\ now' = now
    BY <1>1 DEF Check, LoggedIn, Failed, Drop, Answer, Insert, counter
  <2> QED
    BY <1>0, <1>1, <1>s, <2>1, SureMoves
<1>2. CASE \E c \in Calls : SuccessLimit(c)
  <2>1. PICK c \in Calls : SuccessLimit(c)
    BY <1>2
  <2>2. successes' = successes /\ now' = now /\ Cardinality(Recent(successes, Window)) < SuccessMax
    BY <2>1 DEF SuccessLimit, Room, counter
  <2>3. \A d \in Calls : d # c /\ Sure(d)' => Sure(d)
    BY <1>0, <2>1, SureMoves
  <2> QED
    BY <2>2, <2>3, RoomStays DEF RoomInv, Roomy, Recent
<1>3. CASE \E c \in Calls : Registered(c)
  BY <1>0, <1>3, RegisteredRoom, SureMoves DEF RoomInv, Roomy
<1>4. ASSUME UNCHANGED <<successes, call>>, now' \in {now, now + 1}
      PROVE  RoomInv'
  BY <1>0, <1>4, <1>s DEF Sure
<1>5. CASE \/ \E k \in Captchas : Issue(k) \/ CutOff(k) \/ Cleanup(k) \/ Verify(k) \/ Expire(k)
           \/ Tick \/ UNCHANGED vars
  BY <1>4, <1>5 DEF Issue, CutOff, Cleanup, Verify, Expire, Tick, vars, counter
<1>6. CASE Restart
  <2>1. /\ successes' = {} /\ now' = now
        /\ call' = [d \in Calls |->
             IF call[d].at = "unused" THEN call[d] ELSE [Over(d) EXCEPT !.touched = 0]]
    BY <1>6 DEF Restart
  <2>2. \A d \in Calls : call'[d].at \in {"unused", "ended"}
    BY <1>0, <2>1, OverTyped
  <2> QED
    BY <1>s, <2>1, <2>2 DEF Sure
<1> QED
  BY <1>1, <1>2, <1>3, <1>5, <1>6 DEF Next

LEMMA RoomInit == Init => RoomInv
<1> SUFFICES ASSUME Init PROVE RoomInv
  OBVIOUS
<1>1. \A c \in Calls : ~Sure(c)
  BY DEF Init, Unused, Sure
<1>2. successes = {} /\ IsFiniteSet({})
  BY FS_EmptySet DEF Init
<1> QED
  BY <1>1, <1>2, BlockInit DEF RoomInv, Roomy, BlockInv

\* No more registrations succeed within the window than the limit says, unless one overtakes
\* another between its check and its record
THEOREM RegistrationsAreBounded == Spec => RegistrationsBounded
<1>1. Init => RoomInv /\ BlockInv
  BY RoomInit, BlockInit
<1>2. RoomInv /\ BlockInv /\ [Next]_vars => RoomInv' /\ BlockInv'
  BY BlockStep, RoomStep DEF BlockInv
<1>3. RoomInv /\ [Next]_vars =>
        [\A c \in Calls : Registered(c) /\ ~call[c].overtaken =>
           Cardinality(successes') <= SuccessMax]_vars
  BY RegisteredRoom
<1> QED
  BY <1>1, <1>2, <1>3, PTL DEF Spec, RegistrationsBounded
-----------------------------------------------------------------------------
\* Lists, blocks, calls and captchas are what they are said to be
THEOREM TypeCorrect == Spec => []TypeOK
<1>1. Init => CountInv /\ BlockInv /\ RoomInv /\ CaptchaInv
  BY CountInit, BlockInit, RoomInit, CaptchaInit
<1>2. CountInv /\ BlockInv /\ RoomInv /\ CaptchaInv /\ [Next]_vars =>
        CountInv' /\ BlockInv' /\ RoomInv' /\ CaptchaInv'
  BY BlockStep, CountStep, RoomStep, CaptchaStep DEF BlockInv
<1>3. CountInv /\ RoomInv /\ CaptchaInv => TypeOK
  BY DEF CountInv, RoomInv, CaptchaInv, StoreBounded, States, BlockTyped, TypeOK
<1> QED
  BY <1>1, <1>2, <1>3, PTL DEF Spec
=============================================================================
