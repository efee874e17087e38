---------------------------- MODULE MailCustody ----------------------------
(***************************************************************************)
(* What a mail server owes every message it has accepted: it keeps it      *)
(* until it has handed it over, has given it up with a verdict, or an      *)
(* administrator has withdrawn it.  Handing over more than once is allowed *)
(* (delivery is at least once); letting go of a message nobody has decided *)
(* about is not.                                                           *)
(***************************************************************************)
CONSTANT Mails

VARIABLES
  custody,    \* who is responsible for each message
  handed,     \* messages handed to the recipient at least once
  refused,    \* messages given up with a verdict
  withdrawn   \* messages an administrator removed

vars == <<custody, handed, refused, withdrawn>>

Init ==
  /\ custody = [m \in Mails |-> "new"]
  /\ handed = {}
  /\ refused = {}
  /\ withdrawn = {}

Accept(m) ==
  /\ custody[m] = "new"
  /\ custody' = [custody EXCEPT ![m] = "accepted"]
  /\ UNCHANGED <<handed, refused, withdrawn>>

\* Kept aside until an administrator releases it
Quarantine(m) ==
  /\ custody[m] = "new"
  /\ custody' = [custody EXCEPT ![m] = "quarantined"]
  /\ UNCHANGED <<handed, refused, withdrawn>>

Release(m) ==
  /\ custody[m] = "quarantined"
  /\ custody' = [custody EXCEPT ![m] = "accepted"]
  /\ UNCHANGED <<handed, refused, withdrawn>>

\* A quarantined message is not handed over; one that has been let go still
\* may be, by a delivery that was under way.
HandOver(m) ==
  /\ custody[m] \in {"accepted", "released"}
  /\ handed' = handed \cup {m}
  /\ UNCHANGED <<custody, refused, withdrawn>>

Refuse(m) ==
  /\ custody[m] \in {"accepted", "released"}
  /\ refused' = refused \cup {m}
  /\ UNCHANGED <<custody, handed, withdrawn>>

\* Letting go of a message that has been decided about
Forget(m) ==
  /\ custody[m] = "accepted"
  /\ m \in handed \cup refused
  /\ custody' = [custody EXCEPT ![m] = "released"]
  /\ UNCHANGED <<handed, refused, withdrawn>>

Withdraw(m) ==
  /\ custody[m] \in {"accepted", "quarantined"}
  /\ custody' = [custody EXCEPT ![m] = "released"]
  /\ withdrawn' = withdrawn \cup {m}
  /\ UNCHANGED <<handed, refused>>

Next ==
  \E m \in Mails :
    \/ Accept(m)
    \/ Quarantine(m)
    \/ Release(m)
    \/ HandOver(m)
    \/ Refuse(m)
    \/ Forget(m)
    \/ Withdraw(m)

Spec == Init /\ [][Next]_vars
============================================================================
