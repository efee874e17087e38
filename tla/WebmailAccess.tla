--------------------------- MODULE WebmailAccess ---------------------------
(***************************************************************************)
(* Who gets in: the limits on logins and registrations and the captchas of *)
(* the webmail (funmail-admin: api/webmail_routes.rs), and the login of    *)
(* the administration, which shares the counter (api/auth_routes.rs).      *)
(*                                                                         *)
(* The counter is that of one address; every other address has its own.    *)
(* A call takes the lock of the counter when it comes in and again when    *)
(* its outcome is known, and others come between.  The lists of instants   *)
(* are sets here, as nothing depends on their order; each instant carries  *)
(* by whom and when in the call it was noted, so that equal ones count     *)
(* apart.  Not modelled: the change of the limits while calls run,         *)
(* passwords, the mailbox itself.                                          *)
(***************************************************************************)
EXTENDS Integers, FiniteSets

CONSTANTS
  Window, LoginMax, RegisterMax, SuccessMax, Block,  \* RateLimitConfig
  AdminWindow, AdminMax, AdminBlock,                 \* ADMIN_...
  Captchas,                                          \* ids; none is given twice
  MaxStored,                                         \* CAPTCHA_MAX_STORED
  MaxCalls, MaxTime                                  \* bounds: calls, clock

ASSUME LimitsAssumption ==
  /\ {LoginMax, RegisterMax, SuccessMax, AdminMax, MaxStored, MaxCalls} \subseteq Nat
  /\ {Window, Block, AdminWindow, AdminBlock} \subseteq Nat /\ MaxTime \in Nat \ {0}
  /\ IsFiniteSet(Captchas)

Calls == 1 .. MaxCalls
Times == 1 .. MaxTime
Kinds == {"login", "register", "admin"}

VARIABLES
  now,          \* the clock
  tries,        \* login_attempts of the address, of webmail and administration
  signups,      \* register_attempts
  successes,    \* register_successes
  blockUntil,   \* last_block_until, or 0
  call,         \* the calls
  captcha,      \* captcha_store, and what became of the captchas before
  cleaning,     \* captchas whose get_captcha has not cleaned up yet
  uncleaned     \* history: those whose get_captcha ended before that, since the last clean-up

counter == <<tries, signups, successes, blockUntil>>
vars == <<now, counter, call, captcha, cleaning, uncleaned>>
----------------------------------------------------------------------------
\* An instant in one of the lists
Mark == [by : Calls, part : {"check", "outcome"}, time : Times]

Call ==
  [kind      : Kinds,
   at        : {"unused", "in", "captcha", "insert", "outcome", "ended"},
   touched   : 0 .. MaxTime,                 \* history: when it was counted last
   before    : BOOLEAN,                      \* history: let in before the last block
   overtaken : BOOLEAN,                      \* history: another registration has succeeded since
   solved    : Captchas \cup {"none"}]       \* history: its captcha, when answered well

TypeOK ==
  /\ now \in Times
  /\ tries \subseteq Mark /\ signups \subseteq Mark /\ successes \subseteq Mark
  /\ blockUntil \in Nat
  /\ call \in [Calls -> Call]
  /\ captcha \in [Captchas -> {"new", "fresh", "stale", "answered", "gone"}]
  /\ cleaning \subseteq Captchas /\ uncleaned \subseteq Captchas

Unused ==
  [kind |-> "login", at |-> "unused", touched |-> 0, before |-> FALSE, overtaken |-> FALSE,
   solved |-> "none"]

Init ==
  /\ now = 1
  /\ tries = {} /\ signups = {} /\ successes = {}
  /\ blockUntil = 0
  /\ call = [c \in Calls |-> Unused]
  /\ captcha = [k \in Captchas |-> "new"]
  /\ cleaning = {} /\ uncleaned = {}

WindowOf(k) == IF k = "admin" THEN AdminWindow ELSE Window
BlockOf(k)  == IF k = "admin" THEN AdminBlock ELSE Block
MaxOf(k)    == CASE k = "login" -> LoginMax [] k = "register" -> RegisterMax [] k = "admin" -> AdminMax

Recent(marks, w) == {x \in marks : now - x.time < w}
Noted(c, part) == [by |-> c, part |-> part, time |-> now]
Pending(c) == call[c].at \in {"in", "captcha", "insert", "outcome"}

\* The attempts that a call of kind k counts with; the others are left alone
Attempts(k) == IF k = "register" THEN signups ELSE tries

SetAttempts(k, marks) ==
  IF k = "register" THEN signups' = marks /\ UNCHANGED tries
                    ELSE tries' = marks /\ UNCHANGED signups

\* c is on its way as x, and a new block begins
Blocked(c, x, k) ==
  /\ blockUntil' = now + BlockOf(k)
  /\ call' = [d \in Calls |-> IF d = c THEN x ELSE [call[d] EXCEPT !.before = @ \/ Pending(d)]]

Become(c, x) == call' = [call EXCEPT ![c] = x]
Over(c) == [call[c] EXCEPT !.at = "ended", !.before = FALSE, !.overtaken = FALSE]
End(c) == Become(c, Over(c))
----------------------------------------------------------------------------
(* check_and_record, and the same in the login of the administration *)

\* Mutant: a block is not looked at
StillBlockedNever == FALSE

StillBlocked == now < blockUntil

\* Mutant: one attempt too few
ReachedEarly(marks, k) == Cardinality(marks) + 1 >= MaxOf(k)

Reached(marks, k) == Cardinality(marks) >= MaxOf(k)

\* A call comes in
Check(c) ==
  /\ call[c].at = "unused" /\ \A d \in Calls : d < c => call[d].at # "unused"
  /\ \E k \in Kinds :
       LET recent == Recent(Attempts(k), WindowOf(k))
       IN  \/ /\ StillBlocked
              /\ SetAttempts(k, recent)
              /\ End(c)
              /\ UNCHANGED blockUntil
           \/ /\ ~StillBlocked /\ Reached(recent, k)
              /\ SetAttempts(k, {})
              /\ Blocked(c, Over(c), k)
           \/ /\ ~StillBlocked /\ ~Reached(recent, k)
              /\ SetAttempts(k, recent \cup {Noted(c, "check")})
              /\ Become(c, [Unused EXCEPT !.kind = k, !.at = IF k = "register" THEN "in" ELSE "outcome",
                                          !.touched = now])
              /\ UNCHANGED blockUntil
  /\ UNCHANGED <<now, successes, captcha, cleaning, uncleaned>>
----------------------------------------------------------------------------
(* The outcome of a login *)

\* The password is right: record_success, and the same in the administration
LoggedIn(c) ==
  /\ call[c].at = "outcome" /\ call[c].kind # "register"
  /\ tries' = {} /\ blockUntil' = 0
  /\ End(c)
  /\ UNCHANGED <<now, signups, successes, captcha, cleaning, uncleaned>>

\* record_failure, which does not look whether a block runs: the check has counted the login once,
\* here it is counted again
Failed(c) ==
  /\ call[c].at = "outcome" /\ call[c].kind = "login"
  /\ LET counted == Recent(tries, Window) \cup {Noted(c, "outcome")}
         ended   == [Over(c) EXCEPT !.touched = now]
     IN  IF Reached(counted, "login")
         THEN tries' = {} /\ Blocked(c, ended, "login")
         ELSE tries' = counted /\ Become(c, ended) /\ UNCHANGED blockUntil
  /\ UNCHANGED <<now, signups, successes, captcha, cleaning, uncleaned>>

\* The administration counts no failure; and any call may end on the way, refused, with an error
\* of the database, or with the connection
Drop(c) ==
  /\ Pending(c)
  /\ End(c)
  /\ UNCHANGED <<now, counter, captcha, cleaning, uncleaned>>
----------------------------------------------------------------------------
(* register *)

\* Mutant: one too many
RoomFor(n) == n <= SuccessMax

Room(n) == n < SuccessMax

\* Under another lock than the check, and long before the success is recorded
SuccessLimit(c) ==
  /\ call[c].at = "in"
  /\ Room(Cardinality(Recent(successes, Window)))
  /\ Become(c, [call[c] EXCEPT !.at = "captcha"])
  /\ UNCHANGED <<now, counter, captcha, cleaning, uncleaned>>

\* Mutant: a captcha that was answered well stays
AnswerAndKeep(k) == UNCHANGED captcha

\* Whatever the answer, the captcha is used up
TakeOut(k) == captcha' = [captcha EXCEPT ![k] = "answered"]

InStore(k) == captcha[k] \in {"fresh", "stale"}

Answer(c) ==
  /\ call[c].at = "captcha"
  /\ \E k \in Captchas :
       /\ InStore(k)
       /\ TakeOut(k)
       /\ \/ captcha[k] = "fresh" /\ Become(c, [call[c] EXCEPT !.at = "insert", !.solved = k])
          \/ End(c)
  /\ UNCHANGED <<now, counter, cleaning, uncleaned>>

\* The domain takes registrations, the name is free, and the row of the mailbox goes in
Insert(c) ==
  /\ call[c].at = "insert"
  /\ Become(c, [call[c] EXCEPT !.at = "outcome"])
  /\ UNCHANGED <<now, counter, captcha, cleaning, uncleaned>>

\* record_success
Registered(c) ==
  /\ call[c].at = "outcome" /\ call[c].kind = "register"
  /\ signups' = {} /\ blockUntil' = 0
  /\ successes' = Recent(successes \cup {Noted(c, "outcome")}, Window)
  /\ call' = [d \in Calls |->
       IF d = c THEN Over(c)
       ELSE [call[d] EXCEPT !.overtaken = @ \/ Pending(d)]]
  /\ UNCHANGED <<now, tries, captcha, cleaning, uncleaned>>
----------------------------------------------------------------------------
(* Captchas *)

Stored == {k \in Captchas : InStore(k)}

\* get_captcha puts it into the store, and cleans up in a second step, for which it waits for the
\* lock once more
Issue(k) ==
  /\ captcha[k] = "new"
  /\ captcha' = [captcha EXCEPT ![k] = "fresh"]
  /\ cleaning' = cleaning \cup {k}
  /\ UNCHANGED <<now, counter, call, uncleaned>>

\* The connection ends while it waits, and with it the handler: the captcha is stored, and the
\* clean-up is left to the next get_captcha
CutOff(k) ==
  /\ k \in cleaning
  /\ cleaning' = cleaning \ {k}
  /\ uncleaned' = uncleaned \cup {k}
  /\ UNCHANGED <<now, counter, call, captcha>>

\* Mutant: one too many
OverfullLate == Cardinality(Stored) > MaxStored + 1

Overfull == Cardinality(Stored) > MaxStored

\* cleanup_captcha: all, those that are being read included, or the expired
Cleanup(k) ==
  /\ k \in cleaning
  /\ captcha' = [j \in Captchas |->
       IF captcha[j] = "stale" \/ (Overfull /\ InStore(j)) THEN "gone" ELSE captcha[j]]
  /\ cleaning' = cleaning \ {k}
  /\ uncleaned' = {}
  /\ UNCHANGED <<now, counter, call>>

\* verify_captcha, and a registration whose captcha is not there, use one up like an answer
Verify(k) ==
  /\ InStore(k)
  /\ TakeOut(k)
  /\ UNCHANGED <<now, counter, call, cleaning, uncleaned>>

\* CAPTCHA_TTL has passed
Expire(k) ==
  /\ captcha[k] = "fresh"
  /\ captcha' = [captcha EXCEPT ![k] = "stale"]
  /\ UNCHANGED <<now, counter, call, cleaning, uncleaned>>
----------------------------------------------------------------------------
Tick ==
  /\ now < MaxTime
  /\ now' = now + 1
  /\ UNCHANGED <<counter, call, captcha, cleaning, uncleaned>>

\* Counter and store are in the memory of funmail-admin
Restart ==
  /\ \E c \in Calls : call[c].at # "unused"
  /\ tries' = {} /\ signups' = {} /\ successes' = {} /\ blockUntil' = 0
  /\ call' = [c \in Calls |->
       IF call[c].at = "unused" THEN call[c] ELSE [Over(c) EXCEPT !.touched = 0]]
  /\ captcha' = [k \in Captchas |-> IF InStore(k) THEN "gone" ELSE captcha[k]]
  /\ cleaning' = {} /\ uncleaned' = {}
  /\ UNCHANGED now

Next ==
  \/ \E c \in Calls :
       \/ Check(c) \/ LoggedIn(c) \/ Failed(c) \/ Drop(c)
       \/ SuccessLimit(c) \/ Answer(c) \/ Insert(c) \/ Registered(c)
  \/ \E k \in Captchas : Issue(k) \/ CutOff(k) \/ Cleanup(k) \/ Verify(k) \/ Expire(k)
  \/ Tick
  \/ Restart

Spec == Init /\ [][Next]_vars
=============================================================================
