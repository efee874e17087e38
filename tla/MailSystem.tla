----------------------------- MODULE MailSystem -----------------------------
(***************************************************************************)
(* The SMTP server and the delivery engine together.  They share the table *)
(* mail_queue: an INSERT of handle_data is what makes a row a message of   *)
(* the engine.  Of the engine only its contract is used here, MailCustody, *)
(* which DeliveryQueue implements; the engine has messages of other        *)
(* sources as well (webmail, forwards, notices).                           *)
(***************************************************************************)
EXTENDS SmtpProperties

VARIABLES
  custody, handed, refused, withdrawn   \* as in MailCustody, for each row there may be

Engine == INSTANCE MailCustody WITH Mails <- Row

\* A row that is written is pending or quarantined from then on: the engine has it.
RowsReachEngine ==
  [][\A row \in rows' \ rows : custody'[KeyOf(row)] \in {"accepted", "quarantined"}]_<<vars, Engine!vars>>

System == Spec /\ Engine!Spec /\ RowsReachEngine

\* What becomes of k: it is in the queue, or it has come to one of its ends
InCustody(k) == custody[k] \in {"accepted", "quarantined"}
Decided(k) == k \in handed \cup refused \cup withdrawn

\* Every recipient that a client named for a mail it has seen 250 for (Ordered; also under an earlier MAIL
\* that came to no DATA) is served: the server has his
\* mail still, or has handed it over, has given it up with a verdict, or an administrator has taken it out.
\* This is what the 250 means to the client, and no component promises it alone.
NamedAreServed ==
  \A m \in confirmed : \A k \in Ordered(m) : InCustody(k) \/ Decided(k)
=============================================================================
