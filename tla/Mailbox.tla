------------------------------ MODULE Mailbox ------------------------------
(***************************************************************************)
(* One mailbox: its Maildir, its row of the table mailboxes, and the       *)
(* processes that share them without a lock: calls of deliver_local        *)
(* (crates/funmail-delivery/src/local.rs), POP3 sessions, the copies of    *)
(* sent mail, the administrator, and the recount that funmail-admin makes  *)
(* when it starts.                                                         *)
(*                                                                         *)
(* Every file has the size of one unit, in which the quota is given too:   *)
(* the checks compare totals only.                                         *)
(***************************************************************************)
EXTENDS Integers, FiniteSets

CONSTANTS
  Calls,       \* calls of deliver_local for this mailbox, each of one mail
  Workers,     \* how many of them the delivery engine runs at a time
  Sessions,    \* POP3 sessions of its owner
  Quota,       \* quota_mb, 0 means that the mailbox takes no mail
  Forwards,    \* the addresses in forward_to
  MaxSent,     \* bound: copies of sent mail
  MaxRecounts, \* bound: how often funmail-admin starts
  MaxFaults,   \* bound: how many statements or writes of deliver_local fail
  MaxAdmin     \* bound: how often the administrator changes the mailbox

ASSUME SetsAssumption    == IsFiniteSet(Calls) /\ IsFiniteSet(Forwards)
ASSUME WorkersAssumption == Workers \in Nat \ {0}
ASSUME QuotaAssumption   == Quota \in Nat
ASSUME BoundsAssumption  == /\ MaxSent \in Nat
                            /\ MaxRecounts \in Nat
                            /\ MaxFaults \in Nat
                            /\ MaxAdmin \in Nat

VARIABLES
  (* shared *)
  account,    \* the row: "enabled", "disabled", or "gone"
  used,       \* used_bytes
  new,        \* the mails in new/, by the call that wrote them
  partial,    \* those of new that are not completely written (yet)
  sent,       \* number of files in Sent/new
  queued,     \* the addresses each call has queued a forward row for
  (* deliver_local *)
  pc, result,
  (* the copy of a sent mail: copied, and not yet added to used_bytes *)
  copying,
  (* POP3 sessions *)
  session,    \* "closed", "open", or "quitting"
  listed,     \* the mails the session read when it was authenticated
  marked,     \* those of listed that are marked as deleted
  (* recalc_all_used_bytes *)
  recount,    \* "off", "new" and "sent": what is read next, "store"
  total,      \* what it has counted
  (* history *)
  stored,     \* the calls whose mail was completely written
  slipped,    \* units that used_bytes has missed, also if a recount found them later
  unseen,     \* files written since the running recount has passed their directory
  removed,    \* how many mails QUIT has removed
  twice,      \* files that were not added to used_bytes yet when a recount stored its sum
  recounts, faults, changes   \* how much of each bound is used

store    == <<account, used, new, partial, sent, queued>>
delivery == <<pc, result>>
pop      == <<session, listed, marked>>
counting == <<recount, total>>
excess   == <<removed, twice>>
bounds   == <<recounts, faults, changes>>
vars == <<account, used, new, partial, sent, queued, pc, result, copying, session,
          listed, marked, recount, total, stored, slipped, unseen, removed, twice,
          recounts, faults, changes>>

TypeOK ==
  /\ account \in {"enabled", "disabled", "gone"}
  /\ used \in Nat
  /\ new \subseteq Calls
  /\ partial \subseteq new
  /\ sent \in 0 .. MaxSent
  /\ queued \in [Calls -> SUBSET Forwards]
  /\ pc \in [Calls -> {"idle", "quota", "write", "writing", "count", "lookup",
                       "forward", "done"}]
  /\ result \in [Calls -> {"none", "sent", "temp", "perm"}]
  /\ copying \in BOOLEAN
  /\ session \in [Sessions -> {"closed", "open", "quitting"}]
  /\ listed \in [Sessions -> SUBSET Calls]
  /\ marked \in [Sessions -> SUBSET Calls]
  /\ recount \in {"off", "new", "sent", "store"}
  /\ total \in Nat
  /\ stored \subseteq Calls
  /\ slipped \in Nat
  /\ unseen \in Nat
  /\ removed \in Nat
  /\ twice \in Nat
  /\ recounts \in 0 .. MaxRecounts
  /\ faults \in 0 .. MaxFaults
  /\ changes \in 0 .. MaxAdmin

Init ==
  /\ account = "enabled"
  /\ used = 0 /\ sent = 0 /\ new = {} /\ partial = {}
  /\ queued = [c \in Calls |-> {}]
  /\ pc = [c \in Calls |-> "idle"]
  /\ result = [c \in Calls |-> "none"]
  /\ copying = FALSE
  /\ session = [s \in Sessions |-> "closed"]
  /\ listed = [s \in Sessions |-> {}]
  /\ marked = [s \in Sessions |-> {}]
  /\ recount = "off" /\ total = 0
  /\ stored = {} /\ slipped = 0 /\ unseen = 0
  /\ removed = 0 /\ twice = 0
  /\ recounts = 0 /\ faults = 0 /\ changes = 0
----------------------------------------------------------------------------
(* deliver_local.  "?" on each step: an error ends the call there. *)

At(c, here, there) == pc[c] = here /\ pc' = [pc EXCEPT ![c] = there]

Return(c, r) ==
  /\ pc' = [pc EXCEPT ![c] = "done"]
  /\ result' = [result EXCEPT ![c] = r]

Fault == faults < MaxFaults /\ faults' = faults + 1

\* A statement or a read of the call at c fails before it changed anything
Fail(c) ==
  /\ pc[c] \in {"idle", "quota", "write", "lookup", "forward"}
  /\ Fault
  /\ Return(c, "temp")
  /\ UNCHANGED <<excess, store, copying, pop, counting, stored, slipped, unseen,
                 recounts, changes>>

\* Between the check of the mailbox and the end of the call
Busy == {c \in Calls : pc[c] \notin {"idle", "done"}}

\* SELECT COUNT(*) of the enabled mailbox; "Mailbox not found" is permanent
CheckMailbox(c) ==
  /\ Cardinality(Busy) < Workers
  /\ IF account = "enabled"
     THEN At(c, "idle", "quota") /\ UNCHANGED result
     ELSE pc[c] = "idle" /\ Return(c, "perm")
  /\ UNCHANGED <<excess, store, copying, pop, counting, stored, slipped, unseen, bounds>>

\* Mutant: the comparison lets one more through
HasRoomInclusive == Quota > 0 /\ used <= Quota

HasRoom == Quota > 0 /\ used < Quota

\* SELECT used_bytes, quota_mb; a row that is gone meanwhile is not checked
CheckQuota(c) ==
  /\ pc[c] = "quota"
  /\ IF account = "gone" \/ HasRoom
     THEN At(c, "quota", "write") /\ UNCHANGED result
     ELSE Return(c, "temp")
  /\ UNCHANGED <<excess, store, copying, pop, counting, stored, slipped, unseen, bounds>>

\* fs::write straight into new/: the file is there before its data
StartWrite(c) ==
  /\ At(c, "write", "writing")
  /\ new' = new \cup {c}
  /\ partial' = partial \cup {c}
  /\ unseen' = IF recount \in {"sent", "store"} THEN unseen + 1 ELSE unseen
  /\ UNCHANGED <<excess, account, used, sent, queued, result, copying, pop, counting, stored,
                 slipped, bounds>>

\* Mutant: the error of the write is discarded
FinishWriteIgnored(c) ==
  /\ At(c, "writing", "count")
  /\ \/ partial' = partial \ {c} /\ stored' = stored \cup {c} /\ UNCHANGED faults
     \/ Fault /\ UNCHANGED <<partial, stored>>
  /\ UNCHANGED <<excess, account, used, new, sent, queued, result, copying, pop, counting, slipped,
                 unseen, recounts, changes>>

\* It is complete; or the disk is full and the beginning of it stays
FinishWrite(c) ==
  /\ pc[c] = "writing"
  /\ \/ /\ At(c, "writing", "count")
        /\ partial' = partial \ {c}
        /\ stored' = stored \cup {c}
        /\ UNCHANGED <<result, faults, slipped>>
     \/ Fault /\ Return(c, "temp") /\ slipped' = slipped + 1 /\ UNCHANGED <<partial, stored>>
  /\ UNCHANGED <<excess, account, used, new, sent, queued, copying, pop, counting, unseen, recounts, changes>>

\* Mutant: the delivered mail is not counted
AddUsedNot(c) ==
  /\ At(c, "count", "lookup")
  /\ UNCHANGED <<excess, store, result, copying, pop, counting, stored, slipped, unseen, bounds>>

\* UPDATE mailboxes SET used_bytes = GREATEST(used_bytes + size, 0)
AddUsed(c) ==
  /\ pc[c] = "count"
  /\ \/ /\ At(c, "count", "lookup")
        /\ used' = IF account = "gone" THEN used ELSE used + 1
        /\ slipped' = IF account = "gone" THEN slipped + 1 ELSE slipped
        /\ UNCHANGED <<result, faults>>
     \/ Fault /\ Return(c, "temp") /\ slipped' = slipped + 1 /\ UNCHANGED used
  /\ UNCHANGED <<excess, account, new, partial, sent, queued, copying, pop, counting, stored,
                 unseen, recounts, changes>>

\* SELECT forward_to; nothing is forwarded for a mailbox that is gone
LookupForwards(c) ==
  /\ pc[c] = "lookup"
  /\ IF account = "gone" \/ Forwards = {}
     THEN Return(c, "sent")
     ELSE At(c, "lookup", "forward") /\ UNCHANGED result
  /\ UNCHANGED <<excess, store, copying, pop, counting, stored, slipped, unseen, bounds>>

\* Mutant: the first forward address ends the loop
InsertForwardOnce(c, a) ==
  /\ pc[c] = "forward"
  /\ a \notin queued[c]
  /\ queued' = [queued EXCEPT ![c] = @ \cup {a}]
  /\ Return(c, "sent")
  /\ UNCHANGED <<excess, account, used, new, partial, sent, copying, pop, counting, stored,
                 slipped, unseen, bounds>>

\* INSERT INTO mail_queue, once per address
InsertForward(c, a) ==
  /\ pc[c] = "forward"
  /\ a \notin queued[c]
  /\ queued' = [queued EXCEPT ![c] = @ \cup {a}]
  /\ IF queued'[c] = Forwards THEN Return(c, "sent") ELSE UNCHANGED delivery
  /\ UNCHANGED <<excess, account, used, new, partial, sent, copying, pop, counting, stored,
                 slipped, unseen, bounds>>
----------------------------------------------------------------------------
(* The copy of a sent mail in Sent/new (handle_data, send_mail) *)

CopySent ==
  /\ ~copying /\ sent < MaxSent
  /\ sent' = sent + 1
  /\ copying' = TRUE
  /\ unseen' = IF recount = "store" THEN unseen + 1 ELSE unseen
  /\ UNCHANGED <<excess, account, used, new, partial, queued, delivery, pop, counting, stored,
                 slipped, bounds>>

\* Its error is discarded
CountSent ==
  /\ copying
  /\ copying' = FALSE
  /\ \/ account # "gone" /\ used' = used + 1 /\ UNCHANGED <<slipped, faults>>
     \/ account = "gone" /\ slipped' = slipped + 1 /\ UNCHANGED <<used, faults>>
     \/ Fault /\ slipped' = slipped + 1 /\ UNCHANGED used
  /\ UNCHANGED <<excess, account, new, partial, sent, queued, delivery, pop, counting, stored,
                 unseen, recounts, changes>>
----------------------------------------------------------------------------
(* A POP3 session (crates/funmail-pop3/src/main.rs) *)

\* PASS: the files of new/ are read.  It can be given again, and the marks are lost.
Authenticate(s) ==
  /\ session[s] \in {"closed", "open"}
  /\ account = "enabled"
  /\ session' = [session EXCEPT ![s] = "open"]
  /\ listed' = [listed EXCEPT ![s] = new]
  /\ marked' = [marked EXCEPT ![s] = {}]
  /\ UNCHANGED <<excess, store, delivery, copying, counting, stored, slipped, unseen, bounds>>

\* DELE and RSET
Mark(s, c) ==
  /\ session[s] = "open" /\ c \in listed[s]
  /\ marked' = [marked EXCEPT ![s] = @ \cup {c}]
  /\ UNCHANGED <<excess, store, delivery, copying, session, listed, counting, stored,
                 slipped, unseen, bounds>>

Unmark(s) ==
  /\ session[s] = "open"
  /\ marked' = [marked EXCEPT ![s] = {}]
  /\ UNCHANGED <<excess, store, delivery, copying, session, listed, counting, stored,
                 slipped, unseen, bounds>>

Quit(s) ==
  /\ session[s] = "open"
  /\ session' = [session EXCEPT ![s] = "quitting"]
  /\ UNCHANGED <<excess, store, delivery, copying, listed, marked, counting, stored,
                 slipped, unseen, bounds>>

\* remove_file, of each marked mail that is still there.  used_bytes stays.
Remove(s, c) ==
  /\ session[s] = "quitting" /\ c \in marked[s]
  /\ marked' = [marked EXCEPT ![s] = @ \ {c}]
  /\ new' = new \ {c}
  /\ partial' = partial \ {c}
  /\ removed' = IF c \in new THEN removed + 1 ELSE removed
  /\ UNCHANGED <<account, used, sent, queued, delivery, copying, session, listed,
                 counting, stored, slipped, unseen, twice, bounds>>

\* The end of QUIT; or the connection is closed, and nothing is removed
Close(s) ==
  /\ session[s] = "open" \/ (session[s] = "quitting" /\ marked[s] = {})
  /\ session' = [session EXCEPT ![s] = "closed"]
  /\ listed' = [listed EXCEPT ![s] = {}]
  /\ marked' = [marked EXCEPT ![s] = {}]
  /\ UNCHANGED <<excess, store, delivery, copying, counting, stored, slipped, unseen, bounds>>
----------------------------------------------------------------------------
(* recalc_all_used_bytes: dir_size of one directory after the other, then  *)
(* an UPDATE with the sum, whatever was added to used_bytes meanwhile.     *)

StartRecount ==
  /\ recount = "off" /\ recounts < MaxRecounts
  /\ recount' = "new"
  /\ total' = 0
  /\ unseen' = 0
  /\ recounts' = recounts + 1
  /\ UNCHANGED <<excess, store, delivery, copying, pop, stored, slipped, faults, changes>>

\* A file that is being written counts with what it has
CountNew ==
  /\ recount = "new"
  /\ recount' = "sent"
  /\ \E k \in Cardinality(new \ partial) .. Cardinality(new) :
       /\ total' = k
       /\ unseen' = unseen + Cardinality(new) - k
  /\ UNCHANGED <<excess, store, delivery, copying, pop, stored, slipped, bounds>>

CountSentDir ==
  /\ recount = "sent"
  /\ recount' = "store"
  /\ total' = total + sent
  /\ UNCHANGED <<excess, store, delivery, copying, pop, stored, slipped, unseen, bounds>>

\* Written to new/ or Sent/new, and not added to used_bytes yet
Waiting ==
  Cardinality({c \in Calls : pc[c] \in {"writing", "count"}}) + (IF copying THEN 1 ELSE 0)

\* Mutant: the sum is added to used_bytes, as the size of a mail is
StoreCountAdded ==
  /\ recount = "store"
  /\ recount' = "off"
  /\ total' = 0
  /\ used' = used + total
  /\ slipped' = slipped + unseen /\ unseen' = 0
  /\ twice' = twice + Waiting
  /\ UNCHANGED <<account, new, partial, sent, queued, delivery, copying, pop, stored, removed, bounds>>

StoreCount ==
  /\ recount = "store"
  /\ recount' = "off"
  /\ total' = 0
  /\ IF account = "gone"
     THEN UNCHANGED <<used, slipped, unseen, twice>>
     ELSE used' = total /\ slipped' = slipped + unseen /\ unseen' = 0 /\ twice' = twice + Waiting
  /\ UNCHANGED <<account, new, partial, sent, queued, delivery, copying, pop, stored, removed, bounds>>
----------------------------------------------------------------------------
\* update_mailbox and delete_mailbox: the row only, the files stay
Change(state) ==
  /\ changes < MaxAdmin
  /\ changes' = changes + 1
  /\ account # "gone" /\ account # state
  /\ account' = state
  /\ UNCHANGED <<excess, used, new, partial, sent, queued, delivery, copying, pop, counting,
                 stored, slipped, unseen, recounts, faults>>

Deliver(c) ==
  \/ Fail(c)
  \/ CheckMailbox(c)
  \/ CheckQuota(c)
  \/ StartWrite(c)
  \/ FinishWrite(c)
  \/ AddUsed(c)
  \/ LookupForwards(c)
  \/ \E a \in Forwards : InsertForward(c, a)

Pop3(s) ==
  \/ Authenticate(s)
  \/ Unmark(s)
  \/ Quit(s)
  \/ Close(s)
  \/ \E c \in Calls : Mark(s, c) \/ Remove(s, c)

Recount == StartRecount \/ CountNew \/ CountSentDir \/ StoreCount

Next ==
  \/ \E c \in Calls : Deliver(c)
  \/ \E s \in Sessions : Pop3(s)
  \/ CopySent \/ CountSent
  \/ Recount
  \/ \E state \in {"enabled", "disabled", "gone"} : Change(state)

Spec == Init /\ [][Next]_vars
=============================================================================
