-------------------------- MODULE MCAdministrators --------------------------
(* Administrators with the changes that differ for its rules. *)
EXTENDS Administrators

MCChanges ==
  {[Keep EXCEPT !.role = "viewer"], [Keep EXCEPT !.role = "admin"],
   [Keep EXCEPT !.enabled = "no"], [Keep EXCEPT !.password = TRUE],
   [Keep EXCEPT !.role = "viewer", !.enabled = "yes"]}
=============================================================================
