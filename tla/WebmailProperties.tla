------------------------- MODULE WebmailProperties -------------------------
(***************************************************************************)
(* What holds of the limits, the registrations and the captchas however    *)
(* the calls overlap, stated over WebmailAccess.                           *)
(***************************************************************************)
EXTENDS WebmailAccess

\* The calls that a call of kind k counts with, begun or failed within its window, or just now
CountedWith(k) ==
  {c \in Calls : /\ (call[c].kind = "register") = (k = "register")
                 /\ call[c].touched > 0
                 /\ call[c].touched = now \/ now - call[c].touched < WindowOf(k)}

\* A failed login counts twice, and the administration counts its logins together with those of
\* the webmail: a new block still stands for at least half as many logins in the window as the
\* limit says, one for registrations for no fewer than it says.
NoHastyBlock ==
  [][blockUntil' # blockUntil /\ blockUntil' > now =>
       \E k \in Kinds :
         /\ blockUntil' = now + BlockOf(k)
         /\ LET n == Cardinality(CountedWith(k)')
            IN  IF k = "register" THEN n >= RegisterMax ELSE 2 * n >= MaxOf(k)]_vars

\* A block is lifted or cut short before its time only by the outcome of a call that had been let
\* in before the block began, or by a restart: nobody gets in during a block, whichever of the
\* three kinds of calls has set it.
BlockRuns ==
  [][blockUntil' < blockUntil /\ now < blockUntil =>
       \/ \E c \in Calls : Pending(c) /\ call[c].before /\ call'[c].at = "ended"
       \/ Restart]_vars

\* No more registrations succeed in the window than the limit says, unless one overtakes another
\* between its check and its record, which are far apart.
RegistrationsBounded ==
  [][\A c \in Calls : Registered(c) /\ ~call[c].overtaken => Cardinality(successes') <= SuccessMax]_vars

\* What is in the store, but for the captchas whose get_captcha has still to clean up, or ended before
\* it could, since anyone has cleaned up
Settled == Stored \ (cleaning \cup uncleaned)

\* A captcha lets one registration pass, however many are sent with it at the same time.  The store,
\* which is cleaned up in a second step after each insertion, goes over its limit only by captchas
\* after which nobody has cleaned up yet: those whose get_captcha is still to do so, and those whose
\* get_captcha was cut off there, until another one cleans up.
CaptchasHold ==
  /\ \A c, d \in Calls : c # d /\ call[c].solved # "none" => call[c].solved # call[d].solved
  /\ Cardinality(Settled) <= MaxStored
=============================================================================
