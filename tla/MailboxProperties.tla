------------------------- MODULE MailboxProperties -------------------------
(***************************************************************************)
(* What the processes that share a mailbox must guarantee, over Mailbox.   *)
(***************************************************************************)
EXTENDS Mailbox

Attempt(c) == INSTANCE DeliveryAttempt WITH
  handed <- c \in stored,
  result <- result[c]

\* Ok only after the mail was completely written: deliver_local keeps the contract
\* that deliver_one's queue update relies on, whatever fails or changes meanwhile.
KeepsContract ==
  /\ \A c \in Calls : Attempt(c)!Init
  /\ [][\A c \in Calls : Attempt(c)!Next \/ UNCHANGED Attempt(c)!vars]_vars

\* Why: a call that has got past the write has its mail in the mailbox, and only a
\* call that has ended has a result
StoredOnceWritten ==
  \A c \in Calls :
    /\ pc[c] \in {"count", "lookup", "forward"} => c \in stored
    /\ result[c] # "none" => pc[c] = "done"

\* Ok also means that the mail is on its way to every forward address, or to none
\* because the mailbox is gone: no error in the loop of INSERTs is passed over.
ForwardsAll ==
  \A c \in Calls :
    result[c] = "sent" => queued[c] = Forwards \/ (queued[c] = {} /\ account = "gone")

\* The check of the quota and the addition to used_bytes are far apart, and each
\* running call may pass between them: the mailbox gets fuller than its quota, but
\* by less than the number of calls that run at a time (and what used_bytes has
\* missed, on errors and during a recount).
OvershootBounded ==
  Quota > 0 /\ account # "gone" =>
    Cardinality(new) <= Quota + Workers - 1 + slipped

\* Why: what is in new/ is counted, or about to be, or known to have slipped
CountedOrPending ==
  Cardinality(new) + sent <= used + Waiting + slipped

\* The other way round, used_bytes is not more than what is stored, but for the mails that QUIT has
\* removed without taking them off, and for the files that a recount may have counted before their
\* writer did: it stores its sum while calls and copies stand between their write and their addition,
\* and these then add the same file once more.  So nothing but POP3, or a recount that meets a delivery
\* half way, lets a mailbox refuse mail before its time.
NeverOvercounted == used <= Cardinality(new) + sent + removed + twice
----------------------------------------------------------------------------
(* A claim of a comment in the code that its behaviour does not keep *)

\* db.rs:298: used_bytes goes down when mails are deleted; so a mail should be
\* refused for the quota only while the mailbox is full.
RefusedOnlyWhenFull ==
  [][\A c \in Calls :
       pc[c] = "quota" /\ result'[c] = "temp" /\ faults' = faults
         => Cardinality(new) + sent >= Quota]_vars
=============================================================================
