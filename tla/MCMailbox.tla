----------------------------- MODULE MCMailbox -----------------------------
(* The calls and the forward addresses are interchangeable.                 *)
EXTENDS MailboxProperties, TLC

Symmetry == Permutations(Calls) \cup Permutations(Forwards)
=============================================================================
