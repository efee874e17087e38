---------------------------- MODULE Certificates ----------------------------
(***************************************************************************)
(* The certificates of the mail hosts: administrators ask for them, set up *)
(* a domain, renew and delete them, and a daily task renews what expires   *)
(* (funmail-admin: api/cert_routes.rs, api/domain_routes.rs, acme.rs);     *)
(* the mail servers read the table every 15 seconds (tls.rs).              *)
(*                                                                         *)
(* A task is one request of an administrator, with the background task it  *)
(* starts, or one row of the list of the daily renewal.  Its number also   *)
(* stands for what it makes: the id of a row, a certificate, a token of    *)
(* the certificate authority.  Not modelled: auto_renew, notes and expiry  *)
(* (any ACME row may be up for renewal), the flags of the DNS check (set   *)
(* up is only asked for when they are there), the texts of the progress.   *)
(***************************************************************************)
EXTENDS Integers

CONSTANTS
  Domains,     \* the local domains
  Names,       \* the names under a domain that need a certificate: mail, smtp, pop, imap
  MaxTasks     \* bound: tasks

ASSUME BoundsAssumption == Domains # {} /\ MaxTasks \in Nat

Tasks == 1 .. MaxTasks
Hosts == Domains \X Names

VARIABLES
  certs,       \* the table certs: the row of each host
  challenge,   \* acme_challenges: the task whose token is there, or 0
  setup,       \* domains.setup_completed
  progress,    \* cert_progress, in the memory of funmail-admin
  task,        \* the tasks
  served,      \* the certificates that the TLS acceptor of a mail server has
  renewed      \* history: hosts whose renewal has been noted in progress

vars == <<certs, challenge, setup, progress, task, served, renewed>>
----------------------------------------------------------------------------
Of(d) == {h \in Hosts : h[1] = d}

None == [id |-> 0, by |-> 0, acme |-> FALSE, pem |-> "good"]

\* What tls.rs can make of the PEM: cannot be parsed; a key that rustls does not support; or good
Pems == {"unreadable", "unsupported", "good"}

\* id of the row, by whom the certificate is, its issuer is ACME, its PEM
Row == [id : Tasks, by : Tasks, acme : BOOLEAN, pem : Pems] \cup {None}

Task ==
  [kind  : {"create", "setup", "selfsigned", "renew", "auto", "delete"},
   at    : {"unused", "check", "note", "survey", "mark", "turn", "order", "validate", "sign",
            "store", "done", "failed", "judge", "insert", "complete", "delete", "count",
            "reset", "ended"},
   dom   : Domains,
   todo  : SUBSET Hosts,        \* its host, or those a setup has still to do
   row   : 0 .. MaxTasks,       \* id of the row to renew or delete
   abort : BOOLEAN,             \* aborted of setup_cert
   alone : BOOLEAN,             \* history: no other task has asked for its host meanwhile
   had   : SUBSET Hosts]        \* history: hosts with a certificate, or a request, since a setup began

\* half: done without success, as finish_progress leaves it
TypeOK ==
  /\ certs \in [Hosts -> Row]
  /\ challenge \in [Hosts -> 0 .. MaxTasks]
  /\ setup \in [Domains -> BOOLEAN]
  /\ progress \in [Hosts -> {"absent", "running", "half", "done", "failed"}]
  /\ task \in [Tasks -> Task]
  /\ served \in [Hosts -> 0 .. MaxTasks]
  /\ renewed \subseteq Hosts
  /\ \A t \in Tasks :
       task[t].at \notin {"unused", "ended", "survey", "judge", "complete"} => task[t].todo # {}

Fresh ==
  [kind |-> "create", at |-> "unused", dom |-> CHOOSE d \in Domains : TRUE, todo |-> {},
   row |-> 0, abort |-> FALSE, alone |-> TRUE, had |-> {}]
Ended == [Fresh EXCEPT !.at = "ended"]

Init ==
  /\ certs = [h \in Hosts |-> None]
  /\ challenge = [h \in Hosts |-> 0]
  /\ setup = [d \in Domains |-> FALSE]
  /\ progress = [h \in Hosts |-> "absent"]
  /\ task = [t \in Tasks |-> Fresh]
  /\ served = [h \in Hosts |-> 0]
  /\ renewed = {}

At(t, where) == task[t].at \in where
\* The host of t.  A setup does one after the other, in an order that does not matter here.
Host(t) == CHOOSE h \in task[t].todo : TRUE

Left(t) == task[t].todo \ {Host(t)}

\* One request_acme_cert is on its way for the host
Asking(t, h) == At(t, {"order", "validate", "sign"}) /\ Host(t) = h

Become(t, x) == task' = [task EXCEPT ![t] = x]
Go(t, where) == Become(t, [task[t] EXCEPT !.at = where])

Report(t, p) == progress' = [progress EXCEPT ![Host(t)] = p]

\* t begins request_acme_cert for its host
Ask(t) ==
  task' = [u \in Tasks |->
    CASE u = t -> [task[t] EXCEPT !.at = "order",
                                  !.alone = \A v \in Tasks \ {t} : ~Asking(v, Host(t))]
      [] u # t /\ Asking(u, Host(t)) -> [task[u] EXCEPT !.alone = FALSE]
      [] OTHER -> task[u]]

\* t goes on as x and has put a row for h into the table, which the setups of its domain have seen
Put(t, x, h) ==
  task' = [u \in Tasks |->
    LET y == IF u = t THEN x ELSE task[u]
    IN  IF y.kind \in {"setup", "selfsigned"} /\ y.at \notin {"unused", "ended"} /\ y.dom = h[1]
        THEN [y EXCEPT !.had = @ \cup {h}] ELSE y]

\* The request of t is over without a certificate.  finish_progress finds the map locked, or not;
\* a renewal has no such report.
Fail(t) ==
  IF task[t].kind \in {"create", "setup"}
  THEN Go(t, "failed") /\ (UNCHANGED progress \/ Report(t, "half"))
  ELSE Become(t, Ended) /\ UNCHANGED progress

Clear(t) == challenge' = [challenge EXCEPT ![Host(t)] = 0]
----------------------------------------------------------------------------
(* create_cert *)

\* t is the next task, of this kind
Begin(t, x) ==
  /\ At(t, {"unused"}) /\ \A u \in Tasks : u < t => ~At(u, {"unused"})
  /\ Become(t, x)
  /\ UNCHANGED <<certs, challenge, setup, progress, served, renewed>>

Create(t) ==
  \E h \in Hosts : Begin(t, [Fresh EXCEPT !.at = "check", !.todo = {h}])

\* Is there a request for the host that is not done?
CheckRunning(t) ==
  /\ At(t, {"check"})
  /\ IF progress[Host(t)] = "running" THEN Become(t, Ended) ELSE Go(t, "note")
  /\ UNCHANGED <<certs, challenge, setup, progress, served, renewed>>

\* Under another lock than the check; renew_cert starts here
NoteRunning(t) ==
  /\ At(t, {"note"})
  /\ Report(t, "running")
  /\ Ask(t)
  /\ renewed' = IF task[t].kind = "renew" THEN renewed \cup {Host(t)} ELSE renewed
  /\ UNCHANGED <<certs, challenge, setup, served>>

\* A certificate that is brought along is stored as it is, unless there is a row for the host
Manual(t) ==
  /\ At(t, {"unused"}) /\ \A u \in Tasks : u < t => ~At(u, {"unused"})
  /\ \E h \in Hosts, pem \in Pems :
       /\ certs[h] = None
       /\ certs' = [certs EXCEPT ![h] = [id |-> t, by |-> t, acme |-> FALSE, pem |-> pem]]
       /\ Put(t, Ended, h)
  /\ UNCHANGED <<challenge, setup, progress, served, renewed>>
----------------------------------------------------------------------------
(* request_acme_cert and what its callers do with the certificate *)

\* Mutant: the tokens of other hosts are taken away
OrderAndSweep(t) ==
  /\ At(t, {"order"})
  /\ \/ challenge' = [h \in Hosts |-> IF h = Host(t) THEN t ELSE 0] /\ Go(t, "validate")
     \/ Go(t, "sign") /\ UNCHANGED challenge
  /\ UNCHANGED <<certs, setup, progress, served, renewed>>

\* The token goes to the table in place of any other of the host; or the authority knows the
\* host and asks for none
Order(t) ==
  /\ At(t, {"order"})
  /\ \/ challenge' = [challenge EXCEPT ![Host(t)] = t] /\ Go(t, "validate")
     \/ Go(t, "sign") /\ UNCHANGED challenge
  /\ UNCHANGED <<certs, setup, progress, served, renewed>>

\* get_challenge_response: the authority asks for the token and finds it
Validate(t) ==
  /\ At(t, {"validate"}) /\ challenge[Host(t)] = t
  /\ Go(t, "sign")
  /\ UNCHANGED <<certs, challenge, setup, progress, served, renewed>>

\* The authority refuses, has not decided after 120 seconds, or has no certificate to give
Refuse(t) ==
  /\ At(t, {"validate", "sign"})
  /\ Clear(t)
  /\ Fail(t)
  /\ UNCHANGED <<certs, setup, served, renewed>>

\* An error of the network or the database, the 180 seconds of request_certificate, or the end
\* of the connection on which renew_cert runs: the row of the token stays
GiveUp(t) ==
  /\ At(t, {"order", "validate", "sign"})
  /\ Fail(t)
  /\ UNCHANGED <<certs, challenge, setup, served, renewed>>

Issue(t) ==
  /\ At(t, {"sign"})
  /\ Clear(t)
  /\ Go(t, "store")
  /\ UNCHANGED <<certs, setup, progress, served, renewed>>

\* request_certificate: insert, or replace the certificate of the row there is
Store(t) ==
  /\ At(t, {"store"}) /\ task[t].kind \in {"create", "setup"}
  /\ \/ /\ certs' = [certs EXCEPT ![Host(t)] =
              [id |-> IF @ = None THEN t ELSE @.id, by |-> t, acme |-> TRUE, pem |-> "good"]]
        /\ Put(t, [task[t] EXCEPT !.at = "done"], Host(t))
        /\ UNCHANGED progress \/ Report(t, "half")
     \/ Go(t, "failed") /\ UNCHANGED <<certs, progress>>
  /\ UNCHANGED <<challenge, setup, served, renewed>>

\* renew_certificate: only the row with that id, if it is still there
Replace(t) ==
  /\ At(t, {"store"}) /\ task[t].kind \in {"renew", "auto"}
  /\ \/ /\ certs[Host(t)].id = task[t].row
        /\ certs' = [certs EXCEPT ![Host(t)].by = t, ![Host(t)].acme = TRUE, ![Host(t)].pem = "good"]
     \/ UNCHANGED certs
  /\ Become(t, Ended)
  /\ UNCHANGED <<challenge, setup, progress, served, renewed>>

\* The hosts left to a setup
NextHost(t, abort) ==
  [task[t] EXCEPT !.todo = Left(t), !.abort = abort,
                  !.at = IF Left(t) = {} THEN "judge" ELSE "turn"]

\* Mutant: only a success is reported
FinishGood(t) ==
  /\ At(t, {"done", "failed"})
  /\ IF At(t, {"done"}) THEN Report(t, "done") ELSE UNCHANGED progress
  /\ Become(t, IF task[t].kind = "setup" THEN NextHost(t, task[t].abort \/ At(t, {"failed"})) ELSE Ended)
  /\ UNCHANGED <<certs, challenge, setup, served, renewed>>

\* The background task writes the outcome into the map, whoever has written there since
Finish(t) ==
  /\ At(t, {"done", "failed"})
  /\ Report(t, task[t].at)
  /\ Become(t, IF task[t].kind = "setup" THEN NextHost(t, task[t].abort \/ At(t, {"failed"})) ELSE Ended)
  /\ UNCHANGED <<certs, challenge, setup, served, renewed>>
----------------------------------------------------------------------------
(* setup_cert *)

Setup(t) ==
  \E d \in Domains, kind \in {"setup", "selfsigned"} :
    Begin(t, [Fresh EXCEPT !.kind = kind, !.at = "survey", !.dom = d, !.todo = Of(d)])

\* u has the host to do, or is about to note it as there
Concerned(u, h) ==
  \/ h \in task[u].todo
  \/ At(u, {"mark"}) /\ task[u].dom = h[1]

Certified == {h \in Hosts : certs[h] # None}

\* Which hosts have no certificate yet?  When there is none of that kind, that is all.  An error of
\* the SELECT counts as: none of them has one.
Survey(t) ==
  /\ At(t, {"survey"})
  /\ \E missing \in {Of(task[t].dom) \ Certified, Of(task[t].dom)} :
     LET d      == task[t].dom
         others == {h \in Of(d) : \E u \in Tasks \ {t} : Concerned(u, h)}
     IN  Become(t, IF missing = {} THEN Ended
                   ELSE [task[t] EXCEPT !.todo = missing,
                                        !.at   = IF task[t].kind = "setup" THEN "mark" ELSE "insert",
                                        !.had  = others \cup (Of(d) \cap Certified)])
  /\ UNCHANGED <<certs, challenge, setup, progress, served, renewed>>

\* It does not look whether requests are running
Mark(t) ==
  /\ At(t, {"mark"})
  /\ progress' = [h \in Hosts |->
       IF h \in task[t].todo THEN "running"
       ELSE IF h[1] = task[t].dom THEN "done" ELSE progress[h]]
  /\ Go(t, "turn")
  /\ UNCHANGED <<certs, challenge, setup, served, renewed>>

\* The next host; after a failure the rest is not asked for
Turn(t) ==
  /\ At(t, {"turn"}) /\ task[t].kind = "setup"
  /\ IF task[t].abort
     THEN Report(t, "failed") /\ Become(t, NextHost(t, TRUE))
     ELSE Report(t, "running") /\ Ask(t)
  /\ UNCHANGED <<certs, challenge, setup, served, renewed>>

\* Of all hosts there are in the map, also those of other domains
AllSuccess == \A h \in Hosts : progress[h] \in {"absent", "done"}

\* Mutant: any success will do
JudgeAny(t) ==
  /\ At(t, {"judge"})
  /\ \/ /\ \E h \in Of(task[t].dom) : progress[h] = "done"
        /\ setup' = [setup EXCEPT ![task[t].dom] = TRUE]
     \/ UNCHANGED setup
  /\ Become(t, Ended)
  /\ UNCHANGED <<certs, challenge, progress, served, renewed>>

\* The end of the background task; the UPDATE may fail
Judge(t) ==
  /\ At(t, {"judge"})
  /\ \/ AllSuccess /\ setup' = [setup EXCEPT ![task[t].dom] = TRUE]
     \/ UNCHANGED setup
  /\ Become(t, Ended)
  /\ UNCHANGED <<certs, challenge, progress, served, renewed>>

\* generate_self_signed_certs: one INSERT after the other; one that fails, as when another task
\* has put in the row, ends it
SelfSign(t) ==
  /\ At(t, {"insert"})
  /\ \/ /\ certs[Host(t)] = None
        /\ certs' = [certs EXCEPT ![Host(t)] =
              [id |-> t, by |-> t, acme |-> FALSE, pem |-> "good"]]
        /\ Put(t, [task[t] EXCEPT !.todo = Left(t),
                                  !.at = IF Left(t) = {} THEN "complete" ELSE @], Host(t))
     \/ Become(t, Ended) /\ UNCHANGED certs
  /\ UNCHANGED <<challenge, setup, progress, served, renewed>>

Complete(t) ==
  /\ At(t, {"complete"})
  /\ \/ setup' = [setup EXCEPT ![task[t].dom] = TRUE]
     \/ UNCHANGED setup
  /\ Become(t, Ended)
  /\ UNCHANGED <<certs, challenge, progress, served, renewed>>
----------------------------------------------------------------------------
(* renew_cert, check_renewals, delete_cert *)

OnRow(t, kind, where) ==
  \E h \in Hosts :
    /\ certs[h] # None
    /\ kind = "delete" \/ certs[h].acme
    /\ Begin(t, [Fresh EXCEPT !.kind = kind, !.at = where, !.todo = {h}, !.row = certs[h].id])

Renew(t) == OnRow(t, "renew", "note")

\* The list of the daily task; its rows are renewed one after the other, and may be gone by then
ListRenewal(t) == OnRow(t, "auto", "turn")

NextRenewal(t) ==
  /\ At(t, {"turn"}) /\ task[t].kind = "auto"
  /\ \A u \in Tasks : task[u].kind = "auto" => ~At(u, {"order", "validate", "sign", "store"})
  /\ Ask(t)
  /\ UNCHANGED <<certs, challenge, setup, progress, served, renewed>>

Delete(t) == OnRow(t, "delete", "delete")

DeleteRow(t) ==
  /\ At(t, {"delete"})
  /\ IF certs[Host(t)].id = task[t].row
     THEN certs' = [certs EXCEPT ![Host(t)] = None] /\ Go(t, "count")
     ELSE Become(t, Ended) /\ UNCHANGED certs
  /\ UNCHANGED <<challenge, setup, progress, served, renewed>>

\* Are there certificates of the domain left?  An error counts as no.
CountRows(t) ==
  /\ At(t, {"count"})
  /\ \/ Go(t, "reset")
     \/ (\E h \in Of(Host(t)[1]) : certs[h] # None) /\ Become(t, Ended)
  /\ UNCHANGED <<certs, challenge, setup, progress, served, renewed>>

Reset(t) ==
  /\ At(t, {"reset"})
  /\ setup' = [setup EXCEPT ![Host(t)[1]] = FALSE] \/ UNCHANGED setup
  /\ Become(t, Ended)
  /\ UNCHANGED <<certs, challenge, progress, served, renewed>>
----------------------------------------------------------------------------
(* Stops; the mail servers *)

\* The administrator's connection ends, and with it the handler, at its next wait.  (Within
\* renew_cert GiveUp and Replace do as much.)
Hangup(t) ==
  /\ At(t, {"check", "note", "survey", "mark", "insert", "complete", "delete", "count", "reset"})
  /\ Become(t, Ended)
  /\ UNCHANGED <<certs, challenge, setup, progress, served, renewed>>

\* funmail-admin stops and starts.  Tasks and map are lost; challenges that have expired are removed
Restart ==
  /\ \/ \E t \in Tasks : ~At(t, {"unused", "ended"})
     \/ \E h \in Hosts : progress[h] # "absent"
  /\ task' = [t \in Tasks |-> IF At(t, {"unused"}) THEN task[t] ELSE Ended]
  /\ progress' = [h \in Hosts |-> "absent"]
  /\ renewed' = {}
  /\ challenge' = challenge \/ challenge' = [h \in Hosts |-> 0]
  /\ UNCHANGED <<certs, setup, served>>

\* CertResolver::add: what the resolver has for the host, nothing when its key is not supported
Entry(h) == IF certs[h].pem = "unsupported" THEN 0 ELSE certs[h].by

Readable == \A h \in Hosts : certs[h].pem # "unreadable"

\* Mutant: an empty table changes nothing
ReloadSome ==
  /\ Readable
  /\ \E h \in Hosts : certs[h] # None
  /\ served' = [h \in Hosts |-> Entry(h)]
  /\ UNCHANGED <<certs, challenge, setup, progress, task, renewed>>

\* Mutant: a key that is not supported ends the reload too
ReloadSupported ==
  /\ \A h \in Hosts : certs[h].pem = "good"
  /\ served' = [h \in Hosts |-> Entry(h)]
  /\ UNCHANGED <<certs, challenge, setup, progress, task, renewed>>

\* reload: one certificate that cannot be parsed and the old ones stay; without any there is no
\* acceptor.  No one else writes it, so reading the table and replacing it are one step here.
Reload ==
  /\ Readable
  /\ served' = [h \in Hosts |-> Entry(h)]
  /\ UNCHANGED <<certs, challenge, setup, progress, task, renewed>>

Start(t) ==
  \/ Create(t) \/ Manual(t) \/ Setup(t) \/ Renew(t) \/ ListRenewal(t) \/ Delete(t)

Step(t) ==
  \/ CheckRunning(t) \/ NoteRunning(t)
  \/ Order(t) \/ Validate(t) \/ Refuse(t) \/ GiveUp(t) \/ Issue(t) \/ Store(t) \/ Replace(t)
  \/ Finish(t)
  \/ Survey(t) \/ Mark(t) \/ Turn(t) \/ Judge(t) \/ SelfSign(t) \/ Complete(t)
  \/ NextRenewal(t) \/ DeleteRow(t) \/ CountRows(t) \/ Reset(t)
  \/ Hangup(t)

Next ==
  \/ \E t \in Tasks : Start(t) \/ Step(t)
  \/ Reload
  \/ Restart

Spec == Init /\ [][Next]_vars

\* What runs on without its administrator
InBackground(t) == task[t].kind \in {"create", "setup"}

\* The background tasks run on: their requests are given up after 180 seconds
TaskGoesOn(t) == WF_vars(Step(t) /\ InBackground(t))

\* The reload comes every 15 seconds
ReloadGoesOn == WF_vars(Reload)

FairSpec ==
  /\ Spec
  /\ \A t \in Tasks : TaskGoesOn(t)
  /\ ReloadGoesOn
=============================================================================
