------------------------------- MODULE MCSmtp -------------------------------
EXTENDS SmtpProperties, TLC

CONSTANTS local, foreign, here, away

Homes == (local :> here) @@ (foreign :> away)

Symmetric == Permutations(Mails)
=============================================================================
