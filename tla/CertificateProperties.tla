----------------------- MODULE CertificateProperties -----------------------
(***************************************************************************)
(* What holds of the certificates however the tasks interleave, stated     *)
(* over Certificates.                                                      *)
(***************************************************************************)
EXTENDS Certificates

\* A domain is marked as set up only by a setup of that domain, and only when each of its hosts
\* has had a certificate since that setup began, or was the concern of another task at that time
\* (whose late report the last check of setup_cert takes for its own).  This although
\* the check looks at a map that other tasks write and earlier setups have left things in.
SetupCertified ==
  [][\A d \in Domains : ~setup[d] /\ setup'[d] =>
       \E t \in Tasks :
         /\ task[t].kind \in {"setup", "selfsigned"} /\ task[t].dom = d
         /\ Of(d) \subseteq task[t].had]_vars

\* As long as no second request for its host has been on its way, the authority finds the token
\* of a request that waits for the validation: no other task, ended, given up or before a
\* restart, takes it away.
ChallengeAnswered ==
  \A t \in Tasks : At(t, {"validate"}) /\ task[t].alone => challenge[Host(t)] = t

\* A host that is noted as having a request running is not so for ever, so that create_cert can
\* be asked again: every task reports its end.  Except for renew_cert, whose note nobody takes back.
NobodyWaitsForever ==
  \A h \in Hosts :
    (progress[h] = "running" /\ h \notin renewed) ~> (progress[h] # "running" \/ h \in renewed)

\* When there is an end to the changes the mail servers use for each host the certificate of the
\* table, and none where there is none or its key is not supported; unless one of them cannot be
\* parsed: that one keeps out all others.
CatchesUp ==
  <>[](~Readable \/ \A h \in Hosts : served[h] = Entry(h))

Stale == Readable /\ \E h \in Hosts : served[h] # Entry(h)

\* Where a background task has still to report on the host at the front of its list
Doing == {"turn", "order", "validate", "sign", "store", "done", "failed"}

\* Two hypotheses of the proofs about liveness, ENABLED being out of tlapm's reach.  The guards and
\* branches of Reload and Step leave no gap, so both hold by their shape.
ReloadPossible == Stale => ENABLED <<Reload>>_vars

StepsPossible ==
  \A t \in Tasks : InBackground(t) /\ At(t, Doing) => ENABLED <<Step(t) /\ InBackground(t)>>_vars

\* A background task gets on: of the hosts it has still to do one is taken off its list sooner or later,
\* and then it is not noted as running, unless someone has noted it again later.
TasksGetOn ==
  \A t \in Tasks, S \in SUBSET Hosts :
    (InBackground(t) /\ At(t, Doing) /\ task[t].todo = S) ~>
      /\ task[t].todo \subseteq S /\ task[t].todo # S
      /\ \A h \in S \ task[t].todo : progress[h] # "running"
=============================================================================
