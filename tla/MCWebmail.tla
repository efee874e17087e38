----------------------------- MODULE MCWebmail -----------------------------
(***************************************************************************)
(* The webmail for TLC.  Captchas are exchangeable: no definition chooses  *)
(* among them, and only safety is checked.                                 *)
(***************************************************************************)
EXTENDS WebmailProperties, TLC

Exchangeable == Permutations(Captchas)
=============================================================================
