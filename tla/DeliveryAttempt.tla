-------------------------- MODULE DeliveryAttempt --------------------------
(***************************************************************************)
(* What deliver_one may rely on when it calls deliver_local or             *)
(* deliver_remote for one mail: Ok is returned only after the message was  *)
(* handed over.  An error promises nothing: the hand-over may have         *)
(* happened, even more than once.  DeliveryQueue!Attempt is this contract  *)
(* seen as one step.                                                       *)
(***************************************************************************)
VARIABLES
  handed,   \* the message was handed over at least once
  result    \* "none" until the call returns, then "sent", "temp" or "perm"

vars == <<handed, result>>

Init == handed = FALSE /\ result = "none"

HandOver == result = "none" /\ handed' = TRUE /\ UNCHANGED result

Return(r) ==
  /\ result = "none"
  /\ r = "sent" => handed
  /\ result' = r
  /\ UNCHANGED handed

Next == HandOver \/ \E r \in {"sent", "temp", "perm"} : Return(r)

Spec == Init /\ [][Next]_vars
=============================================================================
