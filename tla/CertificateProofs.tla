------------------------- MODULE CertificateProofs -------------------------
(***************************************************************************)
(* Proofs about Certificates, for any domains, any names under them and    *)
(* any number of tasks: types, that a lone request finds its token, what   *)
(* a completed setup stands for, whose the notes are, and what goes on.    *)
(***************************************************************************)
EXTENDS CertificateProperties, TLAPS

Nowhere == {"unused", "ended"}

\* The places that a task of each kind comes to; only a setup has several hosts to do
Fits(x) ==
  x.at \notin Nowhere =>
    /\ x.kind = "create" => x.at \in {"check", "note", "order", "validate", "sign", "store", "done", "failed"}
    /\ x.kind = "setup" => x.at \in {"survey", "mark", "turn", "order", "validate", "sign", "store",
                                     "done", "failed", "judge"}
    /\ x.kind = "selfsigned" => x.at \in {"survey", "insert", "complete"}
    /\ x.kind = "renew" => x.at \in {"note", "order", "validate", "sign", "store"}
    /\ x.kind = "auto" => x.at \in {"turn", "order", "validate", "sign", "store"}
    /\ x.kind = "delete" => x.at \in {"delete", "count", "reset"}
    /\ x.kind \in {"renew", "auto", "delete"} => x.row \in Tasks
    /\ x.at \notin {"survey", "judge", "complete"} => x.todo # {}
    /\ x.kind = "create" => \A g, h \in x.todo : g = h

TaskOK(x) == x \in Task /\ Fits(x)

\* Everything but the tasks
RestOK ==
  /\ certs \in [Hosts -> Row]
  /\ challenge \in [Hosts -> 0 .. MaxTasks]
  /\ setup \in [Domains -> BOOLEAN]
  /\ progress \in [Hosts -> {"absent", "running", "half", "done", "failed"}]
  /\ served \in [Hosts -> 0 .. MaxTasks]
  /\ renewed \subseteq Hosts

TInv ==
  /\ RestOK
  /\ task \in [Tasks -> Task]
  /\ \A t \in Tasks : Fits(task[t])

LEMMA InvIsTyped == TInv => TypeOK
  BY DEF TInv, RestOK, TypeOK, Fits, Nowhere, Task

LEMMA TaskNumbers == Tasks \subseteq 0 .. MaxTasks /\ 0 \in 0 .. MaxTasks /\ 0 \notin Tasks
  BY BoundsAssumption DEF Tasks

LEMMA FreshTyped == TaskOK(Fresh) /\ Fresh.at = "unused" /\ TaskOK(Ended) /\ Ended.at = "ended"
<1>1. (CHOOSE d \in Domains : TRUE) \in Domains
  BY BoundsAssumption
<1>2. Fresh \in Task
  BY <1>1, TaskNumbers DEF Fresh, Task
<1>3. Ended \in Task
  BY <1>2 DEF Ended, Task
<1> QED
  BY <1>2, <1>3 DEF Fresh, Ended, TaskOK, Fits, Nowhere

\* What a task at the front of its list names
LEMMA HostThere ==
  ASSUME TInv, NEW t \in Tasks, ~At(t, {"unused", "ended", "survey", "judge", "complete"})
  PROVE  Host(t) \in task[t].todo /\ Host(t) \in Hosts
<1>1. task[t] \in Task /\ Fits(task[t])
  BY DEF TInv
<1>2. task[t].todo # {} /\ task[t].todo \subseteq Hosts
  BY <1>1 DEF Fits, Task, At, Nowhere
<1> QED
  BY <1>2 DEF Host

\* A record with another place
LEMMA MovedRecord ==
  ASSUME NEW x \in Task,
         NEW w \in {"check", "note", "survey", "mark", "turn", "order", "validate", "sign",
            "store", "done", "failed", "judge", "insert", "complete", "delete", "count",
            "reset", "ended"}
  PROVE  LET y == [x EXCEPT !.at = w]
         IN  /\ y \in Task /\ y.at = w /\ y.kind = x.kind /\ y.dom = x.dom /\ y.todo = x.todo
             /\ y.row = x.row /\ y.had = x.had /\ y.abort = x.abort /\ y.alone = x.alone
  BY DEF Task
-----------------------------------------------------------------------------
(* The ways in which the tasks change *)

LEMMA BecomeOK ==
  ASSUME TInv, NEW t \in Tasks, NEW x, TaskOK(x), Become(t, x)
  PROVE  /\ task' \in [Tasks -> Task]
         /\ \A u \in Tasks : Fits(task'[u])
         /\ \A u \in Tasks : task'[u] = IF u = t THEN x ELSE task[u]
<1>1. task' = [task EXCEPT ![t] = x]
  BY DEF Become
<1>2. \A u \in Tasks : task'[u] = IF u = t THEN x ELSE task[u]
  BY <1>1 DEF TInv
<1> QED
  BY <1>1, <1>2 DEF TInv, TaskOK

LEMMA GoOK ==
  ASSUME TInv, NEW t \in Tasks,
         NEW w \in {"check", "note", "survey", "mark", "turn", "order", "validate", "sign",
            "store", "done", "failed", "judge", "insert", "complete", "delete", "count",
            "reset", "ended"},
         Fits([task[t] EXCEPT !.at = w]), Go(t, w)
  PROVE  /\ task' \in [Tasks -> Task]
         /\ \A u \in Tasks : Fits(task'[u])
         /\ \A u \in Tasks : task'[u] = IF u = t THEN [task[t] EXCEPT !.at = w] ELSE task[u]
<1>1. TaskOK([task[t] EXCEPT !.at = w])
  <2> DEFINE x == task[t]
  <2>1. x \in Task
    BY DEF TInv
  <2>2. Fits([x EXCEPT !.at = w])
    OBVIOUS
  <2> HIDE DEF x
  <2>3. [x EXCEPT !.at = w] \in Task
    BY <2>1 DEF Task
  <2>4. TaskOK([x EXCEPT !.at = w])
    BY <2>2, <2>3 DEF TaskOK
  <2> QED
    BY <2>4 DEF x
<1> QED
  BY <1>1, BecomeOK DEF Go

\* What Ask and Put leave as it is in a task that does not move
Same(x, y) ==
  /\ y.kind = x.kind /\ y.at = x.at /\ y.dom = x.dom /\ y.todo = x.todo /\ y.row = x.row
  /\ x.had \subseteq y.had

LEMMA AskOK ==
  ASSUME TInv, NEW t \in Tasks, ~At(t, Nowhere \cup {"survey", "judge", "complete"}),
         task[t].kind \in {"create", "setup", "renew", "auto"}, Ask(t)
  PROVE  /\ task' \in [Tasks -> Task]
         /\ \A u \in Tasks : Fits(task'[u])
         /\ \A u \in Tasks : u # t => Same(task[u], task'[u])
         /\ Same([task[t] EXCEPT !.at = "order"], task'[t])
<1> DEFINE a == \A v \in Tasks \ {t} : ~Asking(v, Host(t))
           x == [task[t] EXCEPT !.at = "order", !.alone = a]
           y(u) == [task[u] EXCEPT !.alone = FALSE]
<1>0. \A u \in Tasks : task[u] \in Task /\ Fits(task[u])
  BY DEF TInv
<1>1. a \in BOOLEAN
  BY Zenon
<1>2. x \in Task /\ Same([task[t] EXCEPT !.at = "order"], x)
  <2> HIDE DEF a
  <2> QED
    BY <1>0, <1>1 DEF Task, Same
<1>3. Fits(x)
  <2> HIDE DEF a
  <2> QED
    BY <1>0, <1>1 DEF Task, Fits, At, Nowhere
<1>4. \A u \in Tasks : y(u) \in Task /\ Fits(y(u)) /\ Same(task[u], y(u))
  BY <1>0 DEF Task, Fits, Same, Nowhere
<1>5. \A u \in Tasks : task'[u] = IF u = t THEN x
                                 ELSE IF Asking(u, Host(t)) THEN y(u) ELSE task[u]
  BY DEF Ask
<1>6. task' = [u \in Tasks |-> task'[u]]
  BY DEF Ask
<1>7. \A u \in Tasks : Same(task[u], task[u])
  BY DEF Same
<1> HIDE DEF x, y
<1> QED
  BY <1>0, <1>2, <1>3, <1>4, <1>5, <1>6, <1>7

LEMMA PutOK ==
  ASSUME TInv, NEW t \in Tasks, NEW x, TaskOK(x), NEW h \in Hosts, Put(t, x, h)
  PROVE  /\ task' \in [Tasks -> Task]
         /\ \A u \in Tasks : Fits(task'[u])
         /\ \A u \in Tasks : u # t => Same(task[u], task'[u])
         /\ Same(x, task'[t])
         /\ \A u \in Tasks : u # t /\ task'[u].alone => task[u].alone
         /\ \A u \in Tasks : /\ task'[u].kind \in {"setup", "selfsigned"}
                             /\ task'[u].at \notin Nowhere /\ task'[u].dom = h[1]
                             => h \in task'[u].had
<1> DEFINE y(u) == IF u = t THEN x ELSE task[u]
           z(u) == [y(u) EXCEPT !.had = @ \cup {h}]
           c(u) == y(u).kind \in {"setup", "selfsigned"} /\ y(u).at \notin Nowhere /\ y(u).dom = h[1]
<1>1. \A u \in Tasks : y(u) \in Task /\ Fits(y(u))
  BY DEF TInv, TaskOK
<1>2. \A u \in Tasks : task'[u] = IF c(u) THEN z(u) ELSE y(u)
  BY DEF Put, Nowhere
<1>3. \A u \in Tasks : z(u) \in Task /\ Fits(z(u)) /\ Same(y(u), z(u)) /\ h \in z(u).had
  <2> SUFFICES ASSUME NEW u \in Tasks PROVE z(u) \in Task /\ Fits(z(u)) /\ Same(y(u), z(u)) /\ h \in z(u).had
    OBVIOUS
  <2>1. y(u) \in Task /\ Fits(y(u))
    BY <1>1
  <2> HIDE DEF y
  <2> QED
    BY <2>1 DEF Task, Fits, Same, Nowhere
<1>4. task' = [u \in Tasks |-> task'[u]]
  BY DEF Put
<1>5. \A u \in Tasks : Same(y(u), task'[u]) /\ task'[u] \in Task /\ Fits(task'[u])
  <2>1. \A u \in Tasks : Same(y(u), y(u))
    BY DEF Same
  <2> HIDE DEF y, z, c
  <2> QED
    BY <1>1, <1>2, <1>3, <2>1
<1>6. \A u \in Tasks : c(u) => h \in task'[u].had
  <2> HIDE DEF y, z, c
  <2> QED
    BY <1>2, <1>3
<1>7. \A u \in Tasks : /\ task'[u].kind \in {"setup", "selfsigned"}
                       /\ task'[u].at \notin Nowhere /\ task'[u].dom = h[1]
                       => c(u)
  BY <1>5 DEF Same
<1>8. \A u \in Tasks : u # t /\ task'[u].alone => task[u].alone
  <2>1. \A u \in Tasks : z(u).alone => y(u).alone
    <3> SUFFICES ASSUME NEW u \in Tasks PROVE z(u).alone => y(u).alone
      OBVIOUS
    <3>1. y(u) \in Task
      BY <1>1
    <3> HIDE DEF y
    <3> QED
      BY <3>1 DEF Task
  <2>2. \A u \in Tasks : u # t => y(u) = task[u]
    OBVIOUS
  <2> HIDE DEF y, z, c
  <2> QED
    BY <1>2, <2>1, <2>2
<1> QED
  BY <1>4, <1>5, <1>6, <1>7, <1>8
-----------------------------------------------------------------------------
(* Types *)

\* Rows of the table
LEMMA RowsTyped ==
  ASSUME NEW t \in Tasks
  PROVE  /\ \A acme \in BOOLEAN, pem \in Pems :
              [id |-> t, by |-> t, acme |-> acme, pem |-> pem] \in Row \ {None}
         /\ \A x \in Row : /\ x.by \in 0 .. MaxTasks
                           /\ x.id \in Tasks <=> x # None
                           /\ x.id \in Tasks =>
                                /\ [id |-> x.id, by |-> t, acme |-> TRUE, pem |-> "good"] \in Row \ {None}
                                /\ [x EXCEPT !.by = t, !.acme = TRUE, !.pem = "good"] \in Row \ {None}
         /\ None \in Row /\ None.id = 0
<1> USE TaskNumbers DEF Pems
<1>1. None \in Row /\ None.id = 0 /\ None.by = 0
  BY DEF Row, None
<1>2. \A acme \in BOOLEAN, pem \in Pems :
        [id |-> t, by |-> t, acme |-> acme, pem |-> pem] \in Row \ {None}
  BY DEF Row, None
<1> SUFFICES ASSUME NEW x \in Row
             PROVE  /\ x.by \in 0 .. MaxTasks
                    /\ x.id \in Tasks <=> x # None
                    /\ x.id \in Tasks =>
                         /\ [id |-> x.id, by |-> t, acme |-> TRUE, pem |-> "good"] \in Row \ {None}
                         /\ [x EXCEPT !.by = t, !.acme = TRUE, !.pem = "good"] \in Row \ {None}
  BY <1>1, <1>2
<1>3. CASE x = None
  BY <1>1, <1>3
<1>4. CASE x \in [id : Tasks, by : Tasks, acme : BOOLEAN, pem : Pems]
  <2>1. x.id \in Tasks /\ x.by \in Tasks
    BY <1>4
  <2>2. x # None
    BY <1>1, <2>1
  <2>3. [id |-> x.id, by |-> t, acme |-> TRUE, pem |-> "good"]
          \in [id : Tasks, by : Tasks, acme : BOOLEAN, pem : Pems]
    BY <2>1
  <2>4. [x EXCEPT !.by = t, !.acme = TRUE, !.pem = "good"]
          \in [id : Tasks, by : Tasks, acme : BOOLEAN, pem : Pems]
    BY <1>4
  <2>5. \A y \in [id : Tasks, by : Tasks, acme : BOOLEAN, pem : Pems] : y \in Row \ {None}
    <3>1. \A y \in [id : Tasks, by : Tasks, acme : BOOLEAN, pem : Pems] : y.id \in Tasks
      OBVIOUS
    <3> QED
      BY <3>1, <1>1 DEF Row
  <2> QED
    BY <2>1, <2>2, <2>3, <2>4, <2>5
<1> QED
  BY <1>3, <1>4 DEF Row

\* Begin with a task that fits
LEMMA BeginOK ==
  ASSUME TInv, NEW t \in Tasks, NEW x, TaskOK(x), Begin(t, x)
  PROVE  TInv'
<1>1. task' \in [Tasks -> Task] /\ \A u \in Tasks : Fits(task'[u])
  BY BecomeOK DEF Begin
<1> QED
  BY <1>1 DEF Begin, TInv, RestOK

LEMMA FreshRecords ==
  ASSUME NEW s \in SUBSET Hosts, s # {}
  PROVE  /\ (\A g, h \in s : g = h) => TaskOK([Fresh EXCEPT !.at = "check", !.todo = s])
         /\ \A d \in Domains, kind \in {"setup", "selfsigned"} :
              TaskOK([Fresh EXCEPT !.kind = kind, !.at = "survey", !.dom = d, !.todo = s])
         /\ \A r \in Tasks :
              /\ TaskOK([Fresh EXCEPT !.kind = "renew", !.at = "note", !.todo = s, !.row = r])
              /\ TaskOK([Fresh EXCEPT !.kind = "auto", !.at = "turn", !.todo = s, !.row = r])
              /\ TaskOK([Fresh EXCEPT !.kind = "delete", !.at = "delete", !.todo = s, !.row = r])
<1>1. Fresh \in Task /\ Fresh.kind = "create"
  BY FreshTyped DEF TaskOK, Fresh
<1>2. (\A g, h \in s : g = h) => TaskOK([Fresh EXCEPT !.at = "check", !.todo = s])
  BY <1>1 DEF TaskOK, Task, Fits
<1>3. ASSUME NEW d \in Domains, NEW kind \in {"setup", "selfsigned"}
      PROVE  TaskOK([Fresh EXCEPT !.kind = kind, !.at = "survey", !.dom = d, !.todo = s])
  BY <1>1 DEF TaskOK, Task, Fits
<1>4. ASSUME NEW r \in Tasks
      PROVE  TaskOK([Fresh EXCEPT !.kind = "renew", !.at = "note", !.todo = s, !.row = r])
  BY <1>1, TaskNumbers DEF TaskOK, Task, Fits
<1>5. ASSUME NEW r \in Tasks
      PROVE  TaskOK([Fresh EXCEPT !.kind = "auto", !.at = "turn", !.todo = s, !.row = r])
  BY <1>1, TaskNumbers DEF TaskOK, Task, Fits
<1>6. ASSUME NEW r \in Tasks
      PROVE  TaskOK([Fresh EXCEPT !.kind = "delete", !.at = "delete", !.todo = s, !.row = r])
  BY <1>1, TaskNumbers DEF TaskOK, Task, Fits
<1> QED
  BY <1>2, <1>3, <1>4, <1>5, <1>6

LEMMA StartTyped ==
  ASSUME TInv, NEW t \in Tasks, Start(t)
  PROVE  TInv'
<1>1. CASE Create(t)
  <2>1. PICK h \in Hosts : Begin(t, [Fresh EXCEPT !.at = "check", !.todo = {h}])
    BY <1>1 DEF Create
  <2>2. TaskOK([Fresh EXCEPT !.at = "check", !.todo = {h}])
    BY FreshRecords
  <2> QED
    BY <2>1, <2>2, BeginOK
<1>2. CASE Manual(t)
  <2>1. PICK h \in Hosts, pem \in Pems :
          /\ certs' = [certs EXCEPT ![h] = [id |-> t, by |-> t, acme |-> FALSE, pem |-> pem]]
          /\ Put(t, Ended, h)
    BY <1>2 DEF Manual
  <2>2. task' \in [Tasks -> Task] /\ \A u \in Tasks : Fits(task'[u])
    BY <2>1, FreshTyped, PutOK
  <2>3. certs' \in [Hosts -> Row]
    <3>1. [id |-> t, by |-> t, acme |-> FALSE, pem |-> pem] \in Row
      BY RowsTyped
    <3> QED
      BY <2>1, <3>1 DEF TInv, RestOK
  <2> QED
    BY <1>2, <2>2, <2>3 DEF Manual, TInv, RestOK
<1>3. CASE Setup(t)
  <2>1. PICK d \in Domains, kind \in {"setup", "selfsigned"} :
          Begin(t, [Fresh EXCEPT !.kind = kind, !.at = "survey", !.dom = d, !.todo = Of(d)])
    BY <1>3 DEF Setup
  <2> DEFINE x == [Fresh EXCEPT !.kind = kind, !.at = "survey", !.dom = d, !.todo = Of(d)]
  <2>2. TaskOK(x)
    <3>1. Fresh \in Task /\ Of(d) \in SUBSET Hosts
      BY FreshTyped DEF TaskOK, Of
    <3> QED
      BY <3>1 DEF TaskOK, Task, Fits
  <2> QED
    BY <2>1, <2>2, BeginOK
<1>4. ASSUME NEW kind, NEW where,
             <<kind, where>> \in {<<"renew", "note">>, <<"auto", "turn">>, <<"delete", "delete">>},
             OnRow(t, kind, where)
      PROVE  TInv'
  <2>1. PICK h \in Hosts : /\ certs[h] # None
                           /\ Begin(t, [Fresh EXCEPT !.kind = kind, !.at = where, !.todo = {h},
                                                     !.row = certs[h].id])
    BY <1>4 DEF OnRow
  <2>2. certs[h] \in Row
    BY DEF TInv, RestOK
  <2>3. certs[h].id \in Tasks
    BY <2>1, <2>2, RowsTyped
  <2>4. TaskOK([Fresh EXCEPT !.kind = kind, !.at = where, !.todo = {h}, !.row = certs[h].id])
    BY <1>4, <2>3, FreshRecords
  <2> QED
    BY <2>1, <2>4, BeginOK
<1>5. Renew(t) => TInv'
  BY <1>4 DEF Renew
<1>6. ListRenewal(t) => TInv'
  BY <1>4 DEF ListRenewal
<1>7. Delete(t) => TInv'
  BY <1>4 DEF Delete
<1> QED
  BY <1>1, <1>2, <1>3, <1>5, <1>6, <1>7 DEF Start

\* A task that ends
LEMMA EndOK ==
  ASSUME TInv, NEW t \in Tasks, Become(t, Ended)
  PROVE  /\ task' \in [Tasks -> Task]
         /\ \A u \in Tasks : Fits(task'[u])
         /\ \A u \in Tasks : task'[u] = IF u = t THEN Ended ELSE task[u]
  BY FreshTyped, BecomeOK

TasksOK == task' \in [Tasks -> Task] /\ \A u \in Tasks : Fits(task'[u])

\* Where Go leads a task in a step of the model
LEMMA GoTyped ==
  ASSUME TInv, NEW t \in Tasks,
         \/ At(t, {"check"}) /\ Go(t, "note")
         \/ At(t, {"order"}) /\ (Go(t, "validate") \/ Go(t, "sign"))
         \/ At(t, {"validate"}) /\ Go(t, "sign")
         \/ At(t, {"sign"}) /\ Go(t, "store")
         \/ At(t, {"order", "validate", "sign", "store"}) /\ task[t].kind \in {"create", "setup"} /\ Go(t, "failed")
         \/ At(t, {"mark"}) /\ Go(t, "turn")
         \/ At(t, {"delete"}) /\ Go(t, "count")
         \/ At(t, {"count"}) /\ Go(t, "reset")
  PROVE  TasksOK
<1> DEFINE x == task[t]
<1>1. x \in Task /\ Fits(x)
  BY DEF TInv
<1>2. ASSUME NEW w \in {"check", "note", "survey", "mark", "turn", "order", "validate", "sign",
                        "store", "done", "failed", "judge", "insert", "complete", "delete", "count",
                        "reset", "ended"},
             \/ x.at = "check" /\ w = "note"
             \/ x.at \in {"order", "validate"} /\ w \in {"validate", "sign"}
             \/ x.at = "sign" /\ w = "store"
             \/ x.at \in {"order", "validate", "sign", "store"} /\ x.kind \in {"create", "setup"} /\ w = "failed"
             \/ x.at = "mark" /\ w = "turn"
             \/ x.at = "delete" /\ w = "count"
             \/ x.at = "count" /\ w = "reset"
      PROVE  Fits([x EXCEPT !.at = w])
  <2> HIDE DEF x
  <2>1. LET y == [x EXCEPT !.at = w]
        IN  y.at = w /\ y.kind = x.kind /\ y.todo = x.todo /\ y.row = x.row
    BY <1>1 DEF Task
  <2> QED
    BY <1>1, <1>2, <2>1 DEF Fits, Nowhere, Task
<1> QED
  BY <1>2, GoOK DEF At, TasksOK

\* The request of a task is over
LEMMA FailTyped ==
  ASSUME TInv, NEW t \in Tasks, At(t, {"order", "validate", "sign"}), Fail(t)
  PROVE  TasksOK /\ progress' \in [Hosts -> {"absent", "running", "half", "done", "failed"}]
<1>1. TasksOK
  BY GoTyped, EndOK DEF Fail, At, TasksOK
<1>2. Host(t) \in Hosts
  BY HostThere DEF At
<1> QED
  BY <1>1, <1>2 DEF Fail, Report, TInv, RestOK

\* The hosts left to a setup
LEMMA NextHostTyped ==
  ASSUME TInv, NEW t \in Tasks, task[t].kind = "setup", NEW abort \in BOOLEAN
  PROVE  LET x == NextHost(t, abort)
         IN  /\ TaskOK(x) /\ x.kind = "setup" /\ x.dom = task[t].dom /\ x.had = task[t].had
             /\ x.at \in {"turn", "judge"}
<1> DEFINE x == task[t]
           y == Left(t)
           w == IF y = {} THEN "judge" ELSE "turn"
           z == [x EXCEPT !.todo = y, !.abort = abort, !.at = w]
<1>1. x \in Task /\ x.kind = "setup" /\ y \in SUBSET Hosts
  BY DEF TInv, Left, Task
<1>2. /\ z \in Task /\ z.kind = "setup" /\ z.dom = x.dom /\ z.had = x.had
      /\ z.at = w /\ z.todo = y /\ w \in {"turn", "judge"}
  <2> HIDE DEF x, y
  <2> QED
    BY <1>1 DEF Task
<1>3. Fits(z)
  BY <1>2 DEF Fits
<1>4. z = NextHost(t, abort)
  BY DEF NextHost
<1> QED
  BY <1>2, <1>3, <1>4 DEF TaskOK

LEMMA StepTyped ==
  ASSUME TInv, NEW t \in Tasks, Step(t)
  PROVE  TInv'
<1> DEFINE Progress == {"absent", "running", "half", "done", "failed"}
<1>0. task[t] \in Task /\ Fits(task[t]) /\ \A u \in Tasks : task[u] \in Task /\ Fits(task[u])
  BY DEF TInv
<1>r. ASSUME NEW p \in Progress, Report(t, p), ~At(t, {"unused", "ended", "survey", "judge", "complete"})
      PROVE  progress' \in [Hosts -> Progress]
  <2>1. Host(t) \in Hosts
    BY <1>r, HostThere
  <2> QED
    BY <1>r, <2>1 DEF Report, TInv, RestOK
<1>c. ASSUME Clear(t), ~At(t, {"unused", "ended", "survey", "judge", "complete"})
      PROVE  challenge' \in [Hosts -> 0 .. MaxTasks]
  <2>1. Host(t) \in Hosts
    BY <1>c, HostThere
  <2> QED
    BY <1>c, <2>1, TaskNumbers DEF Clear, TInv, RestOK
<1>d. task[t].dom \in Domains
  BY <1>0 DEF Task
<1>1. CASE CheckRunning(t)
  <2>1. TasksOK
    BY <1>1, EndOK, GoTyped DEF CheckRunning, TasksOK
  <2> QED
    BY <1>1, <2>1 DEF CheckRunning, TInv, RestOK, TasksOK
<1>2. CASE NoteRunning(t)
  <2>1. At(t, {"note"}) /\ Report(t, "running") /\ Ask(t)
    BY <1>2 DEF NoteRunning
  <2>2. task[t].kind \in {"create", "renew"}
    BY <1>0, <2>1 DEF Task, Fits, At, Nowhere
  <2>3. TasksOK
    BY <2>1, <2>2, AskOK DEF TasksOK, At, Nowhere
  <2>4. progress' \in [Hosts -> Progress]
    BY <2>1, <1>r DEF At
  <2>5. Host(t) \in Hosts
    BY <2>1, HostThere DEF At
  <2>6. renewed' \subseteq Hosts
    BY <1>2, <2>5 DEF NoteRunning, TInv, RestOK
  <2> QED
    BY <1>2, <2>3, <2>4, <2>6 DEF NoteRunning, TInv, RestOK, TasksOK
<1>3. CASE Order(t)
  <2>1. TasksOK
    BY <1>3, GoTyped DEF Order
  <2>2. Host(t) \in Hosts
    BY <1>3, HostThere DEF At, Order
  <2>3. challenge' \in [Hosts -> 0 .. MaxTasks]
    BY <1>3, <2>2, TaskNumbers DEF Order, TInv, RestOK
  <2> QED
    BY <1>3, <2>1, <2>3 DEF Order, TInv, RestOK, TasksOK
<1>4. CASE Validate(t)
  <2>1. TasksOK
    BY <1>4, GoTyped DEF Validate
  <2> QED
    BY <1>4, <2>1 DEF Validate, TInv, RestOK, TasksOK
<1>5. CASE Refuse(t)
  <2>1. At(t, {"order", "validate", "sign"})
    BY <1>5 DEF Refuse, At
  <2>2. TasksOK /\ progress' \in [Hosts -> Progress]
    BY <1>5, <2>1, FailTyped DEF Refuse
  <2>3. challenge' \in [Hosts -> 0 .. MaxTasks]
    BY <1>5, <2>1, <1>c DEF Refuse, At
  <2> QED
    BY <1>5, <2>2, <2>3 DEF Refuse, TInv, RestOK, TasksOK
<1>6. CASE GiveUp(t)
  <2>1. TasksOK /\ progress' \in [Hosts -> Progress]
    BY <1>6, FailTyped DEF GiveUp
  <2> QED
    BY <1>6, <2>1 DEF GiveUp, TInv, RestOK, TasksOK
<1>7. CASE Issue(t)
  <2>1. TasksOK
    BY <1>7, GoTyped DEF Issue
  <2>2. challenge' \in [Hosts -> 0 .. MaxTasks]
    BY <1>7, <1>c DEF Issue, At
  <2> QED
    BY <1>7, <2>1, <2>2 DEF Issue, TInv, RestOK, TasksOK
<1>8. CASE Store(t)
  <2>1. /\ At(t, {"store"}) /\ task[t].kind \in {"create", "setup"}
        /\ UNCHANGED <<challenge, setup, served, renewed>>
    BY <1>8 DEF Store
  <2>2. Host(t) \in Hosts
    BY <2>1, HostThere DEF At
  <2>3. CASE Go(t, "failed") /\ UNCHANGED <<certs, progress>>
    <3>1. TasksOK
      BY <2>1, <2>3, GoTyped DEF At
    <3> QED
      BY <2>1, <2>3, <3>1 DEF TInv, RestOK, TasksOK
  <2>4. CASE /\ certs' = [certs EXCEPT ![Host(t)] =
                   [id |-> IF @ = None THEN t ELSE @.id, by |-> t, acme |-> TRUE, pem |-> "good"]]
             /\ Put(t, [task[t] EXCEPT !.at = "done"], Host(t))
             /\ UNCHANGED progress \/ Report(t, "half")
    <3>1. certs[Host(t)] \in Row
      BY <2>2 DEF TInv, RestOK
    <3>2. [id |-> IF certs[Host(t)] = None THEN t ELSE certs[Host(t)].id,
           by |-> t, acme |-> TRUE, pem |-> "good"] \in Row
      BY <3>1, RowsTyped DEF Pems
    <3>3. certs' \in [Hosts -> Row]
      BY <2>2, <2>4, <3>2 DEF TInv, RestOK
    <3>4. TaskOK([task[t] EXCEPT !.at = "done"])
      BY <1>0, <2>1 DEF Task, TaskOK, Fits, At, Nowhere
    <3>5. TasksOK
      BY <2>2, <2>4, <3>4, PutOK DEF TasksOK
    <3>6. progress' \in [Hosts -> Progress]
      BY <2>1, <2>4, <1>r DEF TInv, RestOK, At
    <3> QED
      BY <2>1, <3>3, <3>5, <3>6 DEF TInv, RestOK, TasksOK
  <2> QED
    BY <1>8, <2>3, <2>4 DEF Store
<1>9. CASE Replace(t)
  <2>1. /\ At(t, {"store"}) /\ task[t].kind \in {"renew", "auto"}
        /\ UNCHANGED <<challenge, setup, progress, served, renewed>>
        /\ Become(t, Ended)
    BY <1>9 DEF Replace
  <2>2. Host(t) \in Hosts
    BY <2>1, HostThere DEF At
  <2>3. task[t].row \in Tasks
    BY <1>0, <2>1 DEF Fits, At, Nowhere
  <2>4. certs' \in [Hosts -> Row]
    <3>1. CASE UNCHANGED certs
      BY <3>1 DEF TInv, RestOK
    <3>2. CASE certs' # certs
      <4>1. /\ certs[Host(t)].id = task[t].row
            /\ certs' = [certs EXCEPT ![Host(t)].by = t, ![Host(t)].acme = TRUE, ![Host(t)].pem = "good"]
        BY <1>9, <3>2 DEF Replace
      <4>2. certs[Host(t)] \in Row
        BY <2>2 DEF TInv, RestOK
      <4>3. [certs[Host(t)] EXCEPT !.by = t, !.acme = TRUE, !.pem = "good"] \in Row
        BY <2>3, <4>1, <4>2, RowsTyped
      <4>4. certs' = [certs EXCEPT ![Host(t)] =
                        [certs[Host(t)] EXCEPT !.by = t, !.acme = TRUE, !.pem = "good"]]
        BY <2>2, <4>1 DEF TInv, RestOK
      <4> QED
        BY <2>2, <4>3, <4>4 DEF TInv, RestOK
    <3> QED
      BY <3>1, <3>2
  <2> QED
    BY <2>1, <2>4, EndOK DEF TInv, RestOK
<1>10. CASE Finish(t)
  <2>1. /\ At(t, {"done", "failed"}) /\ Report(t, task[t].at)
        /\ UNCHANGED <<certs, challenge, setup, served, renewed>>
    BY <1>10 DEF Finish
  <2>2. progress' \in [Hosts -> Progress]
    BY <2>1, <1>r DEF At
  <2>3. TasksOK
    <3>1. CASE task[t].kind = "setup"
      <4> DEFINE a == task[t].abort \/ At(t, {"failed"})
      <4>1. a \in BOOLEAN /\ Become(t, NextHost(t, a))
        BY <1>10, <3>1, Zenon DEF Finish
      <4> HIDE DEF a
      <4> QED
        BY <3>1, <4>1, NextHostTyped, BecomeOK DEF TasksOK
    <3>2. CASE task[t].kind # "setup"
      BY <1>10, <3>2, EndOK DEF Finish, TasksOK
    <3> QED
      BY <3>1, <3>2
  <2> QED
    BY <2>1, <2>2, <2>3 DEF TInv, RestOK, TasksOK
<1>11. CASE Survey(t)
  <2> DEFINE d == task[t].dom
             others == {h \in Of(d) : \E u \in Tasks \ {t} : Concerned(u, h)}
             had == others \cup (Of(d) \cap Certified)
             x == task[t]
             w == IF x.kind = "setup" THEN "mark" ELSE "insert"
  <2>0. PICK missing \in {Of(d) \ Certified, Of(d)} :
          /\ At(t, {"survey"})
          /\ Become(t, IF missing = {} THEN Ended ELSE [x EXCEPT !.todo = missing, !.at = w, !.had = had])
          /\ UNCHANGED <<certs, challenge, setup, progress, served, renewed>>
    BY <1>11 DEF Survey
  <2> DEFINE y == [x EXCEPT !.todo = missing, !.at = w, !.had = had]
  <2>1. /\ At(t, {"survey"}) /\ Become(t, IF missing = {} THEN Ended ELSE y)
        /\ UNCHANGED <<certs, challenge, setup, progress, served, renewed>>
    BY <2>0
  <2>2. missing \in SUBSET Hosts /\ had \in SUBSET Hosts
    BY DEF Of
  <2>3. missing # {} => TaskOK(y)
    <3> HIDE DEF had
    <3> QED
      BY <1>0, <2>1, <2>2 DEF Task, TaskOK, Fits, At, Nowhere
  <2>4. TasksOK
    <3> HIDE DEF y
    <3> QED
      BY <2>1, <2>3, EndOK, BecomeOK DEF TasksOK
  <2> QED
    BY <2>1, <2>4 DEF TInv, RestOK, TasksOK
<1>12. CASE Mark(t)
  <2>1. TasksOK
    BY <1>12, GoTyped DEF Mark
  <2>2. progress' \in [Hosts -> Progress]
    BY <1>12 DEF Mark, TInv, RestOK
  <2> QED
    BY <1>12, <2>1, <2>2 DEF Mark, TInv, RestOK, TasksOK
<1>13. CASE Turn(t)
  <2>1. /\ At(t, {"turn"}) /\ task[t].kind = "setup"
        /\ UNCHANGED <<certs, challenge, setup, served, renewed>>
    BY <1>13 DEF Turn
  <2>2. progress' \in [Hosts -> Progress]
    BY <1>13, <2>1, <1>r DEF Turn, At
  <2>3. TasksOK
    <3>1. CASE Become(t, NextHost(t, TRUE))
      BY <2>1, <3>1, NextHostTyped, BecomeOK DEF TasksOK
    <3>2. CASE Ask(t)
      BY <2>1, <3>2, AskOK DEF TasksOK, At, Nowhere
    <3> QED
      BY <1>13, <3>1, <3>2 DEF Turn
  <2> QED
    BY <2>1, <2>2, <2>3 DEF TInv, RestOK, TasksOK
<1>14. CASE Judge(t) \/ Complete(t)
  <2>1. Become(t, Ended) /\ UNCHANGED <<certs, challenge, progress, served, renewed>>
    BY <1>14 DEF Judge, Complete
  <2>2. setup' \in [Domains -> BOOLEAN]
    BY <1>14, <1>d DEF Judge, Complete, TInv, RestOK
  <2> QED
    BY <2>1, <2>2, EndOK DEF TInv, RestOK
<1>15. CASE SelfSign(t)
  <2>1. At(t, {"insert"}) /\ UNCHANGED <<challenge, setup, progress, served, renewed>>
    BY <1>15 DEF SelfSign
  <2>2. CASE Become(t, Ended) /\ UNCHANGED certs
    BY <2>1, <2>2, EndOK DEF TInv, RestOK
  <2> DEFINE x == task[t]
             left == Left(t)
             w == IF left = {} THEN "complete" ELSE x.at
             y == [x EXCEPT !.todo = left, !.at = w]
  <2>3. CASE certs' = [certs EXCEPT ![Host(t)] =
                         [id |-> t, by |-> t, acme |-> FALSE, pem |-> "good"]]
             /\ Put(t, y, Host(t))
    <3>1. [id |-> t, by |-> t, acme |-> FALSE, pem |-> "good"] \in Row
      BY RowsTyped DEF Pems
    <3>2. certs' \in [Hosts -> Row]
      BY <2>3, <3>1 DEF TInv, RestOK
    <3>3. left \in SUBSET Hosts
      BY <1>0 DEF Task, Left
    <3>4. TaskOK(y)
      <4> HIDE DEF left
      <4> QED
        BY <1>0, <2>1, <3>3 DEF Task, TaskOK, Fits, At, Nowhere
    <3>5. Host(t) \in Hosts
      BY <2>1, HostThere DEF At
    <3>6. TasksOK
      <4> HIDE DEF y
      <4> QED
        BY <2>3, <3>4, <3>5, PutOK DEF TasksOK
    <3> QED
      BY <2>1, <3>2, <3>6 DEF TInv, RestOK, TasksOK
  <2> QED
    BY <1>15, <2>2, <2>3 DEF SelfSign
<1>16. CASE NextRenewal(t)
  <2>1. TasksOK
    BY <1>16, AskOK DEF NextRenewal, TasksOK, At, Nowhere
  <2> QED
    BY <1>16, <2>1 DEF NextRenewal, TInv, RestOK, TasksOK
<1>17. CASE DeleteRow(t)
  <2>1. TasksOK
    BY <1>17, EndOK, GoTyped DEF DeleteRow, TasksOK
  <2>2. certs' \in [Hosts -> Row]
    BY <1>17, RowsTyped DEF DeleteRow, TInv, RestOK
  <2> QED
    BY <1>17, <2>1, <2>2 DEF DeleteRow, TInv, RestOK, TasksOK
<1>18. CASE CountRows(t)
  <2>1. TasksOK
    BY <1>18, EndOK, GoTyped DEF CountRows, TasksOK
  <2> QED
    BY <1>18, <2>1 DEF CountRows, TInv, RestOK, TasksOK
<1>19. CASE Reset(t)
  <2>1. setup' \in [Domains -> BOOLEAN]
    BY <1>19 DEF Reset, TInv, RestOK
  <2> QED
    BY <1>19, <2>1, EndOK DEF Reset, TInv, RestOK
<1>20. CASE Hangup(t)
  BY <1>20, EndOK DEF Hangup, TInv, RestOK
<1> QED
  BY <1>1, <1>2, <1>3, <1>4, <1>5, <1>6, <1>7, <1>8, <1>9, <1>10, <1>11, <1>12, <1>13, <1>14,
     <1>15, <1>16, <1>17, <1>18, <1>19, <1>20 DEF Step

LEMMA TypeStep == TInv /\ [Next]_vars => TInv'
<1> SUFFICES ASSUME TInv, [Next]_vars PROVE TInv'
  OBVIOUS
<1>1. CASE \E t \in Tasks : Start(t) \/ Step(t)
  BY <1>1, StartTyped, StepTyped
<1>2. CASE Reload
  <2>1. \A h \in Hosts : certs[h].by \in 0 .. MaxTasks
    <3> SUFFICES ASSUME NEW h \in Hosts PROVE certs[h].by \in 0 .. MaxTasks
      OBVIOUS
    <3>1. certs[h] = None \/ certs[h].by \in Tasks
      BY DEF TInv, RestOK, Row
    <3>2. None.by = 0
      BY DEF None
    <3> QED
      BY <3>1, <3>2, TaskNumbers
  <2>2. served' \in [Hosts -> 0 .. MaxTasks]
    BY <1>2, <2>1, TaskNumbers DEF Reload, Entry
  <2> QED
    BY <1>2, <2>2 DEF Reload, TInv, RestOK
<1>3. CASE Restart
  <2>1. challenge' \in [Hosts -> 0 .. MaxTasks]
    BY <1>3, TaskNumbers DEF Restart, TInv, RestOK
  <2>2. task' \in [Tasks -> Task] /\ \A t \in Tasks : Fits(task'[t])
    BY <1>3, FreshTyped DEF Restart, TInv, TaskOK
  <2> QED
    BY <1>3, <2>1, <2>2 DEF Restart, TInv, RestOK
<1>4. CASE UNCHANGED vars
  BY <1>4 DEF vars, TInv, RestOK
<1> QED
  BY <1>1, <1>2, <1>3, <1>4 DEF Next

LEMMA TypeInit == Init => TInv
<1> SUFFICES ASSUME Init PROVE TInv
  OBVIOUS
<1>1. task \in [Tasks -> Task] /\ \A t \in Tasks : Fits(task[t])
  BY FreshTyped DEF Init, TaskOK
<1>2. None \in Row
  BY DEF Row
<1> QED
  BY <1>1, <1>2, TaskNumbers DEF Init, TInv, RestOK

\* Every reachable state is well typed; no task works on a host it has not named.
THEOREM TypeCorrect == Spec => []TypeOK
<1> QED
  BY TypeInit, TypeStep, InvIsTyped, PTL DEF Spec
-----------------------------------------------------------------------------
(* A lone request finds its token *)

Way == {"order", "validate", "sign"}
Front(x) == CHOOSE h \in x.todo : TRUE

\* Of two that ask for the same host neither is alone
Pair(x, y) ==
  x.at \in Way /\ y.at \in Way /\ Front(x) = Front(y) => ~x.alone /\ ~y.alone

Token(x, t, c) == x.at = "validate" /\ x.alone => c[Front(x)] = t

TokenInv ==
  \A t \in Tasks : /\ Token(task[t], t, challenge)
                   /\ \A u \in Tasks : u # t => Pair(task[t], task[u])

\* A task that asks for a host and did so before, or does not ask
Keeps(x, y) ==
  y.at \in Way => x.at \in Way /\ y.todo = x.todo /\ (y.alone => x.alone)

\* No task begins to ask, and the tokens of those that wait stay
LEMMA TokenKept ==
  ASSUME TokenInv,
         \A t \in Tasks : Keeps(task[t], task'[t]),
         \A t \in Tasks : task'[t].at = "validate" /\ task'[t].alone =>
           \/ task[t].at = "validate" /\ challenge'[Front(task[t])] = challenge[Front(task[t])]
           \/ challenge'[Front(task[t])] = t
  PROVE  TokenInv'
<1>1. \A t \in Tasks : task'[t].at \in Way => Front(task'[t]) = Front(task[t])
  BY DEF Keeps, Front
<1>2. ASSUME NEW t \in Tasks, NEW u \in Tasks, u # t PROVE Pair(task'[t], task'[u])
  <2>1. Pair(task[t], task[u])
    BY <1>2 DEF TokenInv
  <2>2. Keeps(task[t], task'[t]) /\ Keeps(task[u], task'[u])
    OBVIOUS
  <2> QED
    BY <1>1, <2>1, <2>2 DEF Pair, Keeps
<1>3. ASSUME NEW t \in Tasks PROVE Token(task'[t], t, challenge')
  <2>1. Token(task[t], t, challenge) /\ Keeps(task[t], task'[t])
    BY DEF TokenInv
  <2> QED
    BY <1>1, <2>1 DEF Token, Keeps, Way
<1> QED
  BY <1>2, <1>3 DEF TokenInv

\* A task begins to ask
LEMMA TokenAsked ==
  ASSUME TInv, TokenInv, NEW t \in Tasks, Ask(t), UNCHANGED challenge
  PROVE  TokenInv'
<1> DEFINE a == \A v \in Tasks \ {t} : ~Asking(v, Host(t))
           x == [task[t] EXCEPT !.at = "order", !.alone = a]
           y(u) == [task[u] EXCEPT !.alone = FALSE]
<1>0. \A u \in Tasks : task[u] \in Task
  BY DEF TInv
<1>1. /\ a \in BOOLEAN
      /\ \A v \in Tasks \ {t} : a => ~Asking(v, Host(t))
  BY Zenon
<1>2. /\ x.at = "order" /\ x.todo = task[t].todo /\ (x.alone <=> a)
  <2> HIDE DEF a
  <2> QED
    BY <1>0, <1>1 DEF Task
<1>3. \A u \in Tasks : y(u).at = task[u].at /\ y(u).todo = task[u].todo /\ ~y(u).alone
  BY <1>0 DEF Task
<1>4. \A u \in Tasks : task'[u] = IF u = t THEN x
                                 ELSE IF Asking(u, Host(t)) THEN y(u) ELSE task[u]
  BY DEF Ask
<1>5. \A u \in Tasks : Asking(u, Host(t)) <=> task[u].at \in Way /\ Front(task[u]) = Front(task[t])
  BY DEF Asking, At, Host, Front, Way
<1> HIDE DEF a, x, y
<1>6. \A u \in Tasks : u # t =>
        /\ task'[u].at = task[u].at /\ Front(task'[u]) = Front(task[u])
        /\ task[u].at \in Way /\ Front(task[u]) = Front(task[t]) => ~task'[u].alone
        /\ task'[u].alone => task[u].alone
  BY <1>3, <1>4, <1>5 DEF Front
<1>7. task'[t].at = "order" /\ Front(task'[t]) = Front(task[t])
  BY <1>2, <1>4 DEF Front
<1>8. \A u \in Tasks : u # t /\ task[u].at \in Way /\ Front(task[u]) = Front(task[t]) => ~task'[t].alone
  BY <1>1, <1>2, <1>4, <1>5
<1>9. ASSUME NEW u \in Tasks, NEW v \in Tasks, u # v PROVE Pair(task'[u], task'[v])
  <2>1. Pair(task[u], task[v]) /\ Pair(task[v], task[u])
    BY <1>9 DEF TokenInv
  <2> QED
    BY <1>6, <1>7, <1>8, <1>9, <2>1 DEF Pair
<1>10. ASSUME NEW u \in Tasks PROVE Token(task'[u], u, challenge')
  <2>1. Token(task[u], u, challenge)
    BY DEF TokenInv
  <2> QED
    BY <1>6, <1>7, <2>1 DEF Token
<1> QED
  BY <1>9, <1>10 DEF TokenInv

\* A task that leaves its request, or goes on with it; no token but one of its own host is touched
LEMMA TokenMoved ==
  ASSUME TInv, TokenInv, NEW t \in Tasks, NEW x,
         task' = [task EXCEPT ![t] = x],
         Keeps(task[t], x),
         \A h \in Hosts : challenge'[h] # challenge[h] => task[t].at \in Way /\ h = Front(task[t]),
         x.at = "validate" => challenge'[Front(task[t])] = t
  PROVE  TokenInv'
<1>1. \A u \in Tasks : task'[u] = IF u = t THEN x ELSE task[u]
  BY DEF TInv
<1>2. \A u \in Tasks : Keeps(task[u], task'[u])
  BY <1>1 DEF Keeps
<1>3. ASSUME NEW u \in Tasks, task'[u].at = "validate", task'[u].alone
      PROVE  \/ task[u].at = "validate" /\ challenge'[Front(task[u])] = challenge[Front(task[u])]
             \/ challenge'[Front(task[u])] = u
  <2>1. CASE u = t
    BY <1>1, <1>3, <2>1
  <2>2. CASE u # t
    <3>1. task[u].at = "validate" /\ task[u].alone
      BY <1>1, <1>3, <2>2
    <3>2. Front(task[u]) \in Hosts
      BY <3>1, HostThere DEF Host, Front, At
    <3>3. Pair(task[u], task[t])
      BY <2>2 DEF TokenInv
    <3> QED
      BY <3>1, <3>2, <3>3 DEF Pair, Way
  <2> QED
    BY <2>1, <2>2
<1> QED
  BY <1>2, <1>3, TokenKept

\* A task that does not ask afterwards
LEMMA TokenQuiet ==
  ASSUME TInv, TokenInv, NEW t \in Tasks, NEW x, Become(t, x), x.at \notin Way, UNCHANGED challenge
  PROVE  TokenInv'
<1>1. Keeps(task[t], x) /\ x.at # "validate"
  BY DEF Keeps, Way
<1> QED
  BY <1>1, TokenMoved DEF Become

LEMMA TokenPut ==
  ASSUME TInv, TokenInv, NEW t \in Tasks, NEW x, TaskOK(x), NEW h \in Hosts, Put(t, x, h),
         x.at \notin Way, UNCHANGED challenge
  PROVE  TokenInv'
<1>1. \A u \in Tasks : Keeps(task[u], task'[u])
  BY PutOK DEF Keeps, Same
<1>2. \A u \in Tasks : task'[u].at = "validate" => u # t /\ task[u].at = "validate"
  BY PutOK DEF Same, Way
<1> QED
  BY <1>1, <1>2, TokenKept

\* A task that goes on with its request
LEMMA TokenGo ==
  ASSUME TInv, TokenInv, NEW t \in Tasks, task[t].at \in Way,
         NEW w \in {"validate", "sign", "store", "failed"}, Go(t, w),
         \A h \in Hosts : challenge'[h] # challenge[h] => h = Host(t),
         w = "validate" => challenge'[Host(t)] = t
  PROVE  TokenInv'
<1> DEFINE x == task[t]
           y == [x EXCEPT !.at = w]
<1>1. x \in Task
  BY DEF TInv
<1>2. y.todo = x.todo /\ (y.alone => x.alone) /\ y.at = w
  <2> HIDE DEF x
  <2> QED
    BY <1>1 DEF Task
<1>3. task' = [task EXCEPT ![t] = y]
  BY DEF Go, Become
<1>4. Keeps(x, y) /\ Front(x) = Host(t)
  BY <1>2 DEF Keeps, Front, Host
<1> HIDE DEF x, y
<1> QED
  BY <1>2, <1>3, <1>4, TokenMoved DEF x

LEMMA TokenFail ==
  ASSUME TInv, TokenInv, NEW t \in Tasks, task[t].at \in Way, Fail(t),
         \A h \in Hosts : challenge'[h] # challenge[h] => h = Host(t)
  PROVE  TokenInv'
<1>1. CASE Go(t, "failed")
  BY <1>1, TokenGo
<1>2. CASE Become(t, Ended)
  <2>1. Keeps(task[t], Ended) /\ Ended.at # "validate"
    BY FreshTyped DEF Keeps, Way
  <2>2. Host(t) = Front(task[t])
    BY DEF Host, Front
  <2> QED
    BY <1>2, <2>1, <2>2, TokenMoved DEF Become
<1> QED
  BY <1>1, <1>2 DEF Fail

LEMMA TokenStart ==
  ASSUME TInv, TokenInv, NEW t \in Tasks, Start(t)
  PROVE  TokenInv'
<1>1. ASSUME NEW x, Begin(t, x), x.at \notin Way PROVE TokenInv'
  BY <1>1, TokenQuiet DEF Begin
<1>2. Fresh \in Task
  BY FreshTyped DEF TaskOK
<1>3. CASE Create(t)
  <2>1. \A s : [Fresh EXCEPT !.at = "check", !.todo = s].at \notin Way
    BY <1>2 DEF Task, Way
  <2> QED
    BY <1>1, <1>3, <2>1 DEF Create
<1>4. CASE Manual(t)
  <2>1. PICK h \in Hosts : Put(t, Ended, h)
    BY <1>4 DEF Manual
  <2> QED
    BY <1>4, <2>1, FreshTyped, TokenPut DEF Manual, Way
<1>5. CASE Setup(t)
  <2>1. \A d, k, s : [Fresh EXCEPT !.kind = k, !.at = "survey", !.dom = d, !.todo = s].at \notin Way
    BY <1>2 DEF Task, Way
  <2> QED
    BY <1>1, <1>5, <2>1 DEF Setup
<1>6. ASSUME NEW kind, NEW where, OnRow(t, kind, where), where \notin Way PROVE TokenInv'
  <2>1. \A s, r : [Fresh EXCEPT !.kind = kind, !.at = where, !.todo = s, !.row = r].at \notin Way
    BY <1>2, <1>6 DEF Task, Way
  <2> QED
    BY <1>1, <1>6, <2>1 DEF OnRow
<1>7. "note" \notin Way /\ "turn" \notin Way /\ "delete" \notin Way
  BY DEF Way
<1> QED
  BY <1>3, <1>4, <1>5, <1>6, <1>7 DEF Start, Renew, ListRenewal, Delete

LEMMA TokenStepOf ==
  ASSUME TInv, TokenInv, NEW t \in Tasks, Step(t)
  PROVE  TokenInv'
<1>0. task[t] \in Task /\ Ended.at \notin Way
  BY FreshTyped DEF TInv, Way
<1>e. ASSUME Become(t, Ended), UNCHANGED challenge PROVE TokenInv'
  BY <1>0, <1>e, TokenQuiet
<1>g. ASSUME NEW w \in {"note", "turn", "count", "reset", "store", "failed"}, Go(t, w),
             UNCHANGED challenge
      PROVE  TokenInv'
  <2> DEFINE x == [task[t] EXCEPT !.at = w]
  <2>1. x.at \notin Way
    BY <1>0 DEF Task, Way
  <2> QED
    BY <1>g, <2>1, TokenQuiet DEF Go
<1>n. ASSUME NEW a \in BOOLEAN, task[t].kind = "setup", Become(t, NextHost(t, a)), UNCHANGED challenge
      PROVE  TokenInv'
  <2>1. NextHost(t, a).at \in {"turn", "judge"}
    BY <1>n, NextHostTyped
  <2>2. NextHost(t, a).at \notin Way
    BY <2>1 DEF Way
  <2> QED
    BY <1>n, <2>2, TokenQuiet
<1>1. CASE CheckRunning(t) \/ CountRows(t) \/ DeleteRow(t) \/ Mark(t)
  BY <1>1, <1>e, <1>g DEF CheckRunning, CountRows, DeleteRow, Mark
<1>2. CASE Judge(t) \/ Complete(t) \/ Reset(t) \/ Hangup(t) \/ Replace(t)
  BY <1>2, <1>e DEF Judge, Complete, Reset, Hangup, Replace
<1>3. CASE NoteRunning(t) \/ NextRenewal(t)
  BY <1>3, TokenAsked DEF NoteRunning, NextRenewal
<1>4. CASE Order(t)
  <2>1. task[t].at \in Way /\ Host(t) \in Hosts
    BY <1>4, HostThere DEF Order, At, Way
  <2>2. CASE challenge' = [challenge EXCEPT ![Host(t)] = t] /\ Go(t, "validate")
    <3>1. \A h \in Hosts : challenge'[h] # challenge[h] => h = Host(t)
      BY <2>2 DEF TInv, RestOK
    <3>2. challenge'[Host(t)] = t
      BY <2>1, <2>2 DEF TInv, RestOK
    <3> QED
      BY <2>1, <2>2, <3>1, <3>2, TokenGo
  <2>3. CASE Go(t, "sign") /\ UNCHANGED challenge
    BY <2>1, <2>3, TokenGo
  <2> QED
    BY <1>4, <2>2, <2>3 DEF Order
<1>5. CASE Validate(t)
  <2>1. task[t].at \in Way /\ Go(t, "sign") /\ UNCHANGED challenge
    BY <1>5 DEF Validate, At, Way
  <2> QED
    BY <2>1, TokenGo
<1>6. CASE Refuse(t) \/ GiveUp(t)
  <2>1. task[t].at \in Way /\ Fail(t) /\ \A h \in Hosts : challenge'[h] # challenge[h] => h = Host(t)
    BY <1>6 DEF Refuse, GiveUp, Clear, At, Way, TInv, RestOK
  <2> QED
    BY <2>1, TokenFail
<1>7. CASE Issue(t)
  <2>1. task[t].at \in Way /\ Go(t, "store") /\ \A h \in Hosts : challenge'[h] # challenge[h] => h = Host(t)
    BY <1>7 DEF Issue, Clear, At, Way, TInv, RestOK
  <2> QED
    BY <2>1, TokenGo
<1>8. CASE Store(t)
  <2>1. At(t, {"store"}) /\ task[t].kind \in {"create", "setup"} /\ UNCHANGED challenge
    BY <1>8 DEF Store
  <2>2. CASE Go(t, "failed")
    BY <2>1, <2>2, <1>g
  <2>3. CASE Put(t, [task[t] EXCEPT !.at = "done"], Host(t))
    <3> DEFINE x == [task[t] EXCEPT !.at = "done"]
    <3>1. TaskOK(x) /\ x.at \notin Way
      BY <1>0, <2>1 DEF TInv, Task, TaskOK, Fits, At, Nowhere, Way
    <3>2. Host(t) \in Hosts
      BY <2>1, HostThere DEF At
    <3> QED
      BY <2>1, <2>3, <3>1, <3>2, TokenPut
  <2> QED
    BY <1>8, <2>2, <2>3 DEF Store
<1>9. CASE Finish(t)
  <2>1. CASE task[t].kind # "setup"
    BY <1>9, <1>e, <2>1 DEF Finish
  <2>2. CASE task[t].kind = "setup"
    <3> DEFINE a == task[t].abort \/ At(t, {"failed"})
    <3>1. a \in BOOLEAN /\ Become(t, NextHost(t, a)) /\ UNCHANGED challenge
      BY <1>9, <2>2, Zenon DEF Finish
    <3> HIDE DEF a
    <3> QED
      BY <1>n, <2>2, <3>1
  <2> QED
    BY <2>1, <2>2
<1>10. CASE Survey(t)
  <2>1. PICK x : Become(t, x) /\ UNCHANGED challenge /\ x.at \notin Way
    <3> DEFINE d == task[t].dom
               others == {h \in Of(d) : \E u \in Tasks \ {t} : Concerned(u, h)}
               had == others \cup (Of(d) \cap Certified)
               w == IF task[t].kind = "setup" THEN "mark" ELSE "insert"
    <3>0. PICK missing \in {Of(d) \ Certified, Of(d)} :
            /\ Become(t, IF missing = {} THEN Ended
                         ELSE [task[t] EXCEPT !.todo = missing, !.at = w, !.had = had])
            /\ UNCHANGED challenge
      BY <1>10 DEF Survey
    <3> DEFINE y == [task[t] EXCEPT !.todo = missing, !.at = w, !.had = had]
    <3>1. Become(t, IF missing = {} THEN Ended ELSE y) /\ UNCHANGED challenge
      BY <3>0
    <3>2. y.at \notin Way
      <4> HIDE DEF had
      <4> QED
        BY <1>0 DEF Task, Way
    <3> HIDE DEF y
    <3> QED
      BY <1>0, <3>1, <3>2
  <2> QED
    BY <2>1, TokenQuiet
<1>11. CASE Turn(t)
  BY <1>11, <1>n, TokenAsked DEF Turn
<1>12. CASE SelfSign(t)
  <2>1. At(t, {"insert"}) /\ UNCHANGED challenge /\ Host(t) \in Hosts
    BY <1>12, HostThere DEF SelfSign, At
  <2> DEFINE x == task[t]
             left == Left(t)
             w == IF left = {} THEN "complete" ELSE x.at
             y == [x EXCEPT !.todo = left, !.at = w]
  <2>2. CASE Put(t, y, Host(t))
    <3>1. TaskOK(y) /\ y.at \notin Way
      <4>1. left \in SUBSET Hosts
        BY <1>0 DEF Task, Left
      <4>2. Fits(x)
        BY DEF TInv
      <4> HIDE DEF left
      <4> QED
        BY <1>0, <2>1, <4>1, <4>2 DEF Task, TaskOK, Fits, At, Nowhere, Way
    <3> HIDE DEF y
    <3> QED
      BY <2>1, <2>2, <3>1, TokenPut
  <2> QED
    BY <1>12, <1>e, <2>1, <2>2 DEF SelfSign
<1> QED
  BY <1>1, <1>2, <1>3, <1>4, <1>5, <1>6, <1>7, <1>8, <1>9, <1>10, <1>11, <1>12 DEF Step

LEMMA TokenStep == TInv /\ TokenInv /\ [Next]_vars => TokenInv'
<1> SUFFICES ASSUME TInv, TokenInv, [Next]_vars PROVE TokenInv'
  OBVIOUS
<1>1. CASE \E t \in Tasks : Start(t) \/ Step(t)
  BY <1>1, TokenStart, TokenStepOf
<1>2. CASE Reload \/ UNCHANGED vars
  BY <1>2 DEF Reload, vars, TokenInv
<1>3. CASE Restart
  <2>1. \A t \in Tasks : task'[t].at \in Nowhere
    BY <1>3, FreshTyped DEF Restart, At, Nowhere
  <2> QED
    BY <2>1 DEF TokenInv, Token, Pair, Way, Nowhere
<1> QED
  BY <1>1, <1>2, <1>3 DEF Next

\* As long as it is alone with its host, a request finds its token where the authority looks, for any
\* number of tasks of any kinds.
THEOREM ChallengeIsAnswered == Spec => []ChallengeAnswered
<1>1. Init => TokenInv
  BY FreshTyped DEF Init, TokenInv, Token, Pair, Way
<1>2. TokenInv => ChallengeAnswered
  BY DEF TokenInv, Token, ChallengeAnswered, At, Host, Front
<1> QED
  BY <1>1, <1>2, TypeInit, TypeStep, TokenStep, PTL DEF Spec
-----------------------------------------------------------------------------
(* What a completed setup stands for *)

\* A setup that has looked which certificates are missing, and one that has noted it
Past(x) ==
  \/ x.kind = "setup" /\ x.at \in {"mark", "turn", "order", "validate", "sign", "store", "done",
                                   "failed", "judge"}
  \/ x.kind = "selfsigned" /\ x.at \in {"insert", "complete"}
Marked(x) ==
  x.kind = "setup" /\ x.at \in {"turn", "order", "validate", "sign", "store", "done", "failed", "judge"}

\* x accounts for every row of its domain,
SeesRows(x, c) == Past(x) => \A h \in Of(x.dom) : c[h] # None => h \in x.had
\* for every success in the map,
SeesMap(x, p) ==
  Marked(x) => \A h \in Of(x.dom) : p[h] # "absent" /\ (p[h] = "done" => h \in x.had)
\* for what it has not to do itself,
SeesRest(x) ==
  /\ x.at \in {"mark", "insert"} => Of(x.dom) \subseteq x.todo \cup x.had
  /\ x.at = "complete" => Of(x.dom) \subseteq x.had
\* and for the successes that y is about to report or to note
SeesDone(x, y) == Past(x) /\ y.at = "done" /\ Front(y) \in Of(x.dom) => Front(y) \in x.had
SeesMark(x, y) == Past(x) /\ y.at = "mark" /\ y.dom = x.dom => Of(x.dom) \ y.todo \subseteq x.had

SetupInv ==
  \A t \in Tasks :
    /\ SeesRows(task[t], certs) /\ SeesMap(task[t], progress) /\ SeesRest(task[t])
    /\ \A u \in Tasks : SeesDone(task[t], task[u]) /\ SeesMark(task[t], task[u])

\* A step of a setup beyond its survey, or of anything else
Follows(x, y) ==
  /\ Past(y) => Past(x) /\ y.dom = x.dom /\ x.had \subseteq y.had
  /\ y.at = "mark" => x.at = "mark" /\ y.todo = x.todo /\ y.dom = x.dom

LEMMA SetupKept ==
  ASSUME SetupInv,
         \A t \in Tasks : Follows(task[t], task'[t]) /\ SeesRest(task'[t]),
         \A t \in Tasks : task'[t].at = "done" =>
           \/ task[t].at = "done" /\ task'[t].todo = task[t].todo
           \/ \A u \in Tasks : SeesDone(task'[u], task'[t]),
         \A t \in Tasks : Marked(task'[t]) => Marked(task[t]) \/ SeesMap(task'[t], progress'),
         \A h \in Hosts : certs'[h] # None =>
           certs[h] # None \/ \A u \in Tasks : Past(task'[u]) /\ h \in Of(task'[u].dom) => h \in task'[u].had,
         \A h \in Hosts :
           /\ progress'[h] = "absent" => progress[h] = "absent"
           /\ progress'[h] = "done" =>
                \/ progress[h] = "done"
                \/ \A u \in Tasks : Marked(task'[u]) /\ h \in Of(task'[u].dom) => h \in task'[u].had
  PROVE  SetupInv'
<1>0. \A d : Of(d) \subseteq Hosts
  BY DEF Of
<1>1. ASSUME NEW t \in Tasks PROVE SeesRows(task'[t], certs')
  <2>1. SeesRows(task[t], certs) /\ Follows(task[t], task'[t])
    BY DEF SetupInv
  <2> QED
    BY <1>0, <2>1 DEF SeesRows, Follows
<1>2. ASSUME NEW t \in Tasks PROVE SeesMap(task'[t], progress')
  <2>1. SeesMap(task[t], progress) /\ Follows(task[t], task'[t])
    BY DEF SetupInv
  <2>2. Marked(task'[t]) => Past(task'[t])
    BY DEF Marked, Past
  <2> QED
    BY <1>0, <2>1, <2>2 DEF SeesMap, Follows
<1>3. ASSUME NEW t \in Tasks, NEW u \in Tasks
      PROVE  SeesDone(task'[t], task'[u]) /\ SeesMark(task'[t], task'[u])
  <2>1. /\ SeesDone(task[t], task[u]) /\ SeesMark(task[t], task[u])
        /\ Follows(task[t], task'[t]) /\ Follows(task[u], task'[u])
    BY DEF SetupInv
  <2>2. task'[u].todo = task[u].todo => Front(task'[u]) = Front(task[u])
    BY DEF Front
  <2>3. SeesDone(task'[t], task'[u])
    BY <2>1, <2>2 DEF SeesDone, Follows
  <2>4. SeesMark(task'[t], task'[u])
    BY <2>1 DEF SeesMark, Follows
  <2> QED
    BY <2>3, <2>4
<1> QED
  BY <1>1, <1>2, <1>3 DEF SetupInv

\* Same tasks
LEMMA SameFollows ==
  ASSUME NEW x, NEW y, Same(x, y)
  PROVE  /\ Follows(x, y) /\ (SeesRest(x) => SeesRest(y))
         /\ Marked(y) => Marked(x)
         /\ y.at = "done" => x.at = "done" /\ y.todo = x.todo
  BY DEF Same, Follows, Past, Marked, SeesRest

\* A step of t alone that reports nothing new
LEMMA SetupMoved ==
  ASSUME TInv, SetupInv, NEW t \in Tasks, NEW x, task' = [task EXCEPT ![t] = x],
         Follows(task[t], x), SeesRest(x),
         x.at = "done" => task[t].at = "done" /\ x.todo = task[t].todo,
         Marked(x) => Marked(task[t]),
         \A h \in Hosts : certs'[h] # None => certs[h] # None,
         \A h \in Hosts : progress'[h] = progress[h] \/ progress'[h] \in {"running", "half", "failed"}
  PROVE  SetupInv'
<1>1. \A u \in Tasks : task'[u] = IF u = t THEN x ELSE task[u]
  BY DEF TInv
<1>2. \A u \in Tasks : Same(task[u], task[u]) /\ SeesRest(task[u])
  BY DEF Same, SetupInv
<1>3. \A u \in Tasks : /\ Follows(task[u], task'[u]) /\ SeesRest(task'[u])
                       /\ Marked(task'[u]) => Marked(task[u])
                       /\ task'[u].at = "done" => task[u].at = "done" /\ task'[u].todo = task[u].todo
  BY <1>1, <1>2, SameFollows
<1> QED
  BY <1>3, SetupKept

\* A step in which t becomes something that is no setup beyond its survey
LEMMA SetupQuiet ==
  ASSUME TInv, SetupInv, NEW t \in Tasks, NEW x, Become(t, x),
         ~Past(x), x.at \notin {"mark", "insert", "complete", "done"},
         \A h \in Hosts : certs'[h] # None => certs[h] # None,
         \A h \in Hosts : progress'[h] = progress[h] \/ progress'[h] \in {"running", "half", "failed"}
  PROVE  SetupInv'
<1>1. Follows(task[t], x) /\ SeesRest(x) /\ ~Marked(x)
  BY DEF Follows, SeesRest, Past, Marked
<1> QED
  BY <1>1, SetupMoved DEF Become

LEMMA SetupAsked ==
  ASSUME TInv, SetupInv, NEW t \in Tasks, Ask(t),
         ~At(t, Nowhere \cup {"survey", "judge", "complete"}),
         task[t].kind \in {"create", "setup", "renew", "auto"},
         task[t].kind = "setup" => At(t, {"turn"}),
         UNCHANGED certs,
         \A h \in Hosts : progress'[h] = progress[h] \/ progress'[h] \in {"running", "half", "failed"}
  PROVE  SetupInv'
<1>1. \A u \in Tasks : u # t => Same(task[u], task'[u])
  BY AskOK
<1>2. Same([task[t] EXCEPT !.at = "order"], task'[t])
  BY AskOK
<1>3. task[t] \in Task
  BY DEF TInv
<1>4. /\ task'[t].at = "order" /\ task'[t].kind = task[t].kind /\ task'[t].dom = task[t].dom
      /\ task[t].had \subseteq task'[t].had
  BY <1>2, <1>3 DEF Same, Task
<1>5. Follows(task[t], task'[t]) /\ SeesRest(task'[t]) /\ (Marked(task'[t]) => Marked(task[t]))
  BY <1>4 DEF Follows, SeesRest, Past, Marked, At
<1>6. \A u \in Tasks : SeesRest(task[u])
  BY DEF SetupInv
<1>7. \A u \in Tasks : /\ Follows(task[u], task'[u]) /\ SeesRest(task'[u])
                       /\ Marked(task'[u]) => Marked(task[u])
                       /\ task'[u].at = "done" => task[u].at = "done" /\ task'[u].todo = task[u].todo
  BY <1>1, <1>4, <1>5, <1>6, SameFollows
<1> QED
  BY <1>7, SetupKept

\* A new row, which all that are concerned see
LEMMA SetupPut ==
  ASSUME TInv, SetupInv, NEW t \in Tasks, NEW x, TaskOK(x), NEW h \in Hosts, Put(t, x, h),
         Past(x) => Past(task[t]) /\ x.dom = task[t].dom /\ task[t].had \subseteq x.had,
         x.at # "mark", SeesRest(task'[t]), Marked(x) => Marked(task[t]),
         x.at = "done" => Front(x) = h,
         \A g \in Hosts : certs'[g] # None => certs[g] # None \/ g = h,
         \A g \in Hosts : progress'[g] = progress[g] \/ progress'[g] \in {"running", "half", "failed"}
  PROVE  SetupInv'
<1>1. \A u \in Tasks : u # t => Same(task[u], task'[u])
  BY PutOK
<1>2. Same(x, task'[t])
  BY PutOK
<1>3. \A u \in Tasks : Past(task'[u]) /\ h \in Of(task'[u].dom) => h \in task'[u].had
  <2>1. \A u \in Tasks : Past(task'[u]) => /\ task'[u].kind \in {"setup", "selfsigned"}
                                           /\ task'[u].at \notin Nowhere
    BY DEF Past, Nowhere
  <2>2. \A d : h \in Of(d) => d = h[1]
    BY DEF Of
  <2> QED
    BY <2>1, <2>2, PutOK
<1>4. Follows(task[t], task'[t]) /\ (Marked(task'[t]) => Marked(task[t]))
  BY <1>2 DEF Same, Follows, Past, Marked
<1>5. task'[t].at = "done" => \A u \in Tasks : SeesDone(task'[u], task'[t])
  <2>1. task'[t].at = "done" => Front(task'[t]) = h
    BY <1>2 DEF Same, Front
  <2> QED
    BY <1>3, <2>1 DEF SeesDone
<1>6. \A u \in Tasks : SeesRest(task[u])
  BY DEF SetupInv
<1>7. \A u \in Tasks : u # t =>
        /\ Follows(task[u], task'[u]) /\ SeesRest(task'[u])
        /\ Marked(task'[u]) => Marked(task[u])
        /\ task'[u].at = "done" => task[u].at = "done" /\ task'[u].todo = task[u].todo
  BY <1>1, <1>6, SameFollows
<1> QED
  BY <1>3, <1>4, <1>5, <1>7, SetupKept

LEMMA SetupStart ==
  ASSUME TInv, SetupInv, NEW t \in Tasks, Start(t)
  PROVE  SetupInv'
<1>0. Fresh \in Task /\ Fresh.kind = "create"
  BY FreshTyped DEF TaskOK, Fresh
<1>1. ASSUME NEW x, Begin(t, x), ~Past(x), x.at \notin {"mark", "insert", "complete", "done"}
      PROVE  SetupInv'
  BY <1>1, SetupQuiet DEF Begin
<1>2. CASE Create(t)
  <2>1. \A s : LET x == [Fresh EXCEPT !.at = "check", !.todo = s]
               IN  ~Past(x) /\ x.at \notin {"mark", "insert", "complete", "done"}
    BY <1>0 DEF Task, Past
  <2> QED
    BY <1>1, <1>2, <2>1 DEF Create
<1>3. CASE Manual(t)
  <2>1. PICK h \in Hosts, pem \in Pems :
          /\ certs' = [certs EXCEPT ![h] = [id |-> t, by |-> t, acme |-> FALSE, pem |-> pem]]
          /\ Put(t, Ended, h) /\ UNCHANGED progress
    BY <1>3 DEF Manual
  <2>2. \A g \in Hosts : certs'[g] # None => certs[g] # None \/ g = h
    BY <2>1 DEF TInv, RestOK
  <2>3. ~Past(Ended) /\ Ended.at = "ended" /\ ~Marked(Ended)
    BY FreshTyped DEF Past, Marked
  <2>4. task'[t].at = "ended"
    BY <2>1, <2>3, FreshTyped, PutOK DEF Same
  <2>5. SeesRest(task'[t])
    BY <2>4 DEF SeesRest
  <2> QED
    BY <2>1, <2>2, <2>3, <2>5, FreshTyped, SetupPut
<1>4. CASE Setup(t)
  <2>1. \A d, s : \A k \in {"setup", "selfsigned"} :
          LET x == [Fresh EXCEPT !.kind = k, !.at = "survey", !.dom = d, !.todo = s]
          IN  ~Past(x) /\ x.at \notin {"mark", "insert", "complete", "done"}
    BY <1>0 DEF Task, Past
  <2> QED
    BY <1>1, <1>4, <2>1 DEF Setup
<1>5. ASSUME NEW kind \in {"renew", "auto", "delete"}, NEW where \in {"note", "turn", "delete"},
             OnRow(t, kind, where)
      PROVE  SetupInv'
  <2>1. \A s, r : LET x == [Fresh EXCEPT !.kind = kind, !.at = where, !.todo = s, !.row = r]
                  IN  ~Past(x) /\ x.at \notin {"mark", "insert", "complete", "done"}
    BY <1>0 DEF Task, Past
  <2> QED
    BY <1>1, <1>5, <2>1 DEF OnRow
<1> QED
  BY <1>2, <1>3, <1>4, <1>5 DEF Start, Renew, ListRenewal, Delete

\* The three steps that tie the setups of a domain together
LEMMA SetupSurvey ==
  ASSUME TInv, SetupInv, NEW t \in Tasks, Survey(t)
  PROVE  SetupInv'
<1> DEFINE d == task[t].dom
           others == {h \in Of(d) : \E u \in Tasks \ {t} : Concerned(u, h)}
           had == others \cup (Of(d) \cap Certified)
           x == task[t]
           w == IF x.kind = "setup" THEN "mark" ELSE "insert"
<1>0. PICK missing \in {Of(d) \ Certified, Of(d)} :
        /\ At(t, {"survey"})
        /\ Become(t, IF missing = {} THEN Ended ELSE [x EXCEPT !.todo = missing, !.at = w, !.had = had])
        /\ UNCHANGED <<certs, challenge, setup, progress, served, renewed>>
  BY DEF Survey
<1> DEFINE y == [x EXCEPT !.todo = missing, !.at = w, !.had = had]
<1>1. /\ At(t, {"survey"}) /\ Become(t, IF missing = {} THEN Ended ELSE y)
      /\ UNCHANGED <<certs, challenge, setup, progress, served, renewed>>
  BY <1>0
<1>2. CASE missing = {}
  <2>1. ~Past(Ended) /\ Ended.at = "ended"
    BY FreshTyped DEF Past
  <2> QED
    BY <1>1, <1>2, <2>1, SetupQuiet
<1>3. CASE missing # {}
  <2>1. /\ y.todo = missing /\ y.had = had /\ y.dom = d /\ y.kind = x.kind
        /\ y.at = w /\ w \in {"mark", "insert"}
    <3>1. x \in Task
      BY DEF TInv
    <3> HIDE DEF x, had, w
    <3>2. y.todo = missing /\ y.had = had /\ y.dom = x.dom /\ y.kind = x.kind /\ y.at = w
      BY <3>1 DEF Task
    <3> USE DEF x, w
    <3> QED
      BY <3>2
  <2>2. \A u \in Tasks : task'[u] = IF u = t THEN y ELSE task[u]
    <3>1. task' = [task EXCEPT ![t] = y]
      BY <1>1, <1>3 DEF Become
    <3> HIDE DEF y
    <3> QED
      BY <3>1 DEF TInv
  <2>3. /\ Of(d) \subseteq missing \cup had
        /\ \A h \in Of(d) : certs[h] # None => h \in had
        /\ \A u \in Tasks : u # t => \A h \in Of(d) : Concerned(u, h) => h \in had
        /\ \A h \in Of(d) : h \notin missing => certs[h] # None
    BY DEF Certified, Of
  <2>4. ~Marked(y)
    BY <2>1 DEF Marked
  <2> HIDE DEF had, d, w, x, y
  <2>5. ASSUME NEW u \in Tasks
        PROVE  /\ SeesRows(task'[u], certs') /\ SeesMap(task'[u], progress') /\ SeesRest(task'[u])
    <3>1. SeesRows(task[u], certs) /\ SeesMap(task[u], progress) /\ SeesRest(task[u])
      BY DEF SetupInv
    <3>2. SeesRows(y, certs) /\ SeesMap(y, progress) /\ SeesRest(y)
      BY <2>1, <2>3, <2>4 DEF SeesRows, SeesMap, SeesRest
    <3> QED
      BY <1>1, <2>2, <3>1, <3>2
  <2>6. ASSUME NEW u \in Tasks, u # t
        PROVE  SeesDone(y, task[u]) /\ SeesMark(y, task[u]) /\ SeesDone(task[u], y) /\ SeesMark(task[u], y)
    <3>1. SeesDone(y, task[u])
      <4> SUFFICES ASSUME task[u].at = "done", Front(task[u]) \in Of(d) PROVE Front(task[u]) \in had
        BY <2>1 DEF SeesDone
      <4>1. Front(task[u]) \in task[u].todo
        BY HostThere DEF At, Host, Front
      <4> QED
        BY <2>3, <2>6, <4>1 DEF Concerned
    <3>2. SeesMark(y, task[u])
      <4> SUFFICES ASSUME task[u].at = "mark", task[u].dom = d PROVE Of(d) \subseteq had
        BY <2>1 DEF SeesMark
      <4>1. \A h \in Of(d) : h[1] = d
        BY DEF Of
      <4> QED
        BY <2>3, <2>6, <4>1 DEF Concerned, At
    <3>3. SeesDone(task[u], y)
      BY <2>1 DEF SeesDone
    <3>4. SeesRows(task[u], certs)
      BY DEF SetupInv
    <3>5. SeesMark(task[u], y)
      BY <2>1, <2>3, <3>4 DEF SeesMark, SeesRows
    <3> QED
      BY <3>1, <3>2, <3>3, <3>5
  <2>7. SeesDone(y, y) /\ SeesMark(y, y)
    BY <2>1, <2>3 DEF SeesDone, SeesMark
  <2>8. \A u \in Tasks, v \in Tasks : SeesDone(task[u], task[v]) /\ SeesMark(task[u], task[v])
    BY DEF SetupInv
  <2>9. \A u \in Tasks, v \in Tasks : SeesDone(task'[u], task'[v]) /\ SeesMark(task'[u], task'[v])
    BY <2>2, <2>6, <2>7, <2>8
  <2> QED
    BY <2>5, <2>9 DEF SetupInv
<1> QED
  BY <1>2, <1>3

LEMMA SetupMark ==
  ASSUME TInv, SetupInv, NEW t \in Tasks, Mark(t)
  PROVE  SetupInv'
<1> DEFINE x == task[t]
           y == [x EXCEPT !.at = "turn"]
<1>0. /\ x \in Task /\ Fits(x) /\ x.at = "mark" /\ UNCHANGED certs
      /\ \A h \in Hosts : progress'[h] = IF h \in x.todo THEN "running"
                                         ELSE IF h[1] = x.dom THEN "done" ELSE progress[h]
  BY DEF TInv, Mark, At
<1>1. \A u \in Tasks : task'[u] = IF u = t THEN y ELSE task[u]
  BY DEF Mark, Go, Become, TInv
<1>2. /\ y.at = "turn" /\ y.kind = x.kind /\ y.dom = x.dom /\ y.todo = x.todo /\ y.had = x.had
  <2> HIDE DEF x
  <2> QED
    BY <1>0 DEF Task
<1>3. x.kind = "setup"
  BY <1>0 DEF Fits, Nowhere, Task
<1>4. \A g : Of(g) = {h \in Hosts : h[1] = g}
  BY DEF Of
<1>5. SeesRest(x) /\ \A u \in Tasks : SeesMark(task[u], x) /\ SeesRest(task[u])
  BY DEF SetupInv
<1> HIDE DEF x, y
<1>6. Of(x.dom) \subseteq x.todo \cup x.had
  BY <1>0, <1>5 DEF SeesRest
<1>7. Follows(x, y) /\ SeesRest(y)
  BY <1>0, <1>2, <1>3 DEF Follows, SeesRest, Past
<1>8. SeesMap(y, progress')
  BY <1>0, <1>2, <1>4, <1>6 DEF SeesMap
<1>9. ASSUME NEW h \in Hosts, progress'[h] = "done", progress[h] # "done",
             NEW u \in Tasks, Marked(task'[u]), h \in Of(task'[u].dom)
      PROVE  h \in task'[u].had
  <2>1. h \notin x.todo /\ h[1] = x.dom
    BY <1>0, <1>9
  <2>2. CASE u = t
    BY <1>1, <1>2, <1>4, <1>6, <2>1, <2>2
  <2>3. CASE u # t
    <3>1. task'[u] = task[u] /\ Past(task[u])
      BY <1>1, <1>9, <2>3 DEF Marked, Past
    <3>2. task[u].dom = x.dom
      BY <1>4, <1>9, <2>1, <3>1
    <3> QED
      BY <1>0, <1>4, <1>5, <2>1, <3>1, <3>2 DEF SeesMark
  <2> QED
    BY <2>2, <2>3
<1>10. \A u \in Tasks : Follows(task[u], task[u])
  BY DEF Follows
<1>11. \A u \in Tasks : /\ Follows(task[u], task'[u]) /\ SeesRest(task'[u])
                        /\ Marked(task'[u]) => Marked(task[u]) \/ SeesMap(task'[u], progress')
                        /\ task'[u].at = "done" => task[u].at = "done" /\ task'[u].todo = task[u].todo
  BY <1>1, <1>2, <1>5, <1>7, <1>8, <1>10 DEF x
<1>12. \A h \in Hosts : progress'[h] = "absent" => progress[h] = "absent"
  BY <1>0
<1> QED
  BY <1>0, <1>9, <1>11, <1>12, SetupKept

LEMMA SetupFinish ==
  ASSUME TInv, SetupInv, NEW t \in Tasks, Finish(t)
  PROVE  SetupInv'
<1>0. /\ At(t, {"done", "failed"}) /\ Report(t, task[t].at) /\ UNCHANGED certs
      /\ task[t] \in Task /\ Fits(task[t]) /\ Host(t) \in Hosts /\ Host(t) = Front(task[t])
  BY HostThere DEF Finish, At, TInv, Host, Front
<1>1. PICK x : /\ Become(t, x)
               /\ Past(x) => Past(task[t]) /\ x.dom = task[t].dom /\ x.had = task[t].had
               /\ Marked(x) => Marked(task[t])
               /\ x.at \in {"ended", "turn", "judge"}
  <2>1. CASE task[t].kind # "setup"
    <3>1. Become(t, Ended) /\ ~Past(Ended) /\ ~Marked(Ended) /\ Ended.at = "ended"
      BY <2>1, FreshTyped DEF Finish, Past, Marked
    <3> QED
      BY <3>1
  <2>2. CASE task[t].kind = "setup"
    <3> DEFINE a == task[t].abort \/ At(t, {"failed"})
    <3>1. a \in BOOLEAN /\ Become(t, NextHost(t, a))
      BY <2>2, Zenon DEF Finish
    <3> HIDE DEF a
    <3>2. /\ NextHost(t, a).dom = task[t].dom /\ NextHost(t, a).had = task[t].had
          /\ NextHost(t, a).at \in {"turn", "judge"}
      BY <2>2, <3>1, NextHostTyped
    <3>3. Past(task[t]) /\ Marked(task[t])
      BY <1>0, <2>2 DEF Past, Marked, At
    <3> QED
      BY <3>1, <3>2, <3>3
  <2> QED
    BY <2>1, <2>2
<1>2. \A u \in Tasks : task'[u] = IF u = t THEN x ELSE task[u]
  BY <1>1 DEF Become, TInv
<1>3. \A h \in Hosts : progress'[h] = IF h = Host(t) THEN task[t].at ELSE progress[h]
  BY <1>0 DEF Report, TInv, RestOK
<1>4. Follows(task[t], x) /\ SeesRest(x)
  BY <1>1 DEF Follows, SeesRest
<1>5. \A u \in Tasks : SeesRest(task[u]) /\ Follows(task[u], task[u]) /\ SeesDone(task[u], task[t])
  BY DEF SetupInv, Follows
<1>6. \A u \in Tasks : /\ Follows(task[u], task'[u]) /\ SeesRest(task'[u])
                       /\ Marked(task'[u]) => Marked(task[u])
                       /\ task'[u].at = "done" => task[u].at = "done" /\ task'[u].todo = task[u].todo
  BY <1>1, <1>2, <1>4, <1>5
<1>7. ASSUME NEW h \in Hosts, progress'[h] = "done", progress[h] # "done",
             NEW u \in Tasks, Marked(task'[u]), h \in Of(task'[u].dom)
      PROVE  h \in task'[u].had
  <2>1. h = Front(task[t]) /\ task[t].at = "done"
    BY <1>0, <1>3, <1>7
  <2>2. Past(task'[u])
    BY <1>7 DEF Marked, Past
  <2>3. Past(task[u]) /\ task'[u].dom = task[u].dom /\ task[u].had \subseteq task'[u].had
    BY <1>6, <2>2 DEF Follows
  <2> QED
    BY <1>5, <1>7, <2>1, <2>3 DEF SeesDone
<1>8. \A h \in Hosts : progress'[h] = "absent" => progress[h] = "absent"
  BY <1>0, <1>3 DEF At
<1> QED
  BY <1>0, <1>6, <1>7, <1>8, SetupKept

LEMMA SetupStepOf ==
  ASSUME TInv, SetupInv, NEW t \in Tasks, Step(t)
  PROVE  SetupInv'
<1> DEFINE Reported == \A h \in Hosts : progress'[h] = progress[h] \/ progress'[h] \in {"running", "half", "failed"}
           Removed == \A h \in Hosts : certs'[h] # None => certs[h] # None
<1>0. task[t] \in Task /\ Fits(task[t]) /\ SeesRest(task[t])
  BY DEF TInv, SetupInv
<1>e. ASSUME Become(t, Ended), Reported, Removed PROVE SetupInv'
  <2>1. ~Past(Ended) /\ Ended.at = "ended"
    BY FreshTyped DEF Past
  <2> QED
    BY <1>e, <2>1, SetupQuiet
<1>g. ASSUME NEW w \in {"note", "validate", "sign", "store", "failed", "count", "reset"}, Go(t, w),
             task[t].kind \in {"setup", "selfsigned"} => Marked(task[t]),
             Reported, Removed
      PROVE  SetupInv'
  <2> DEFINE x == task[t]
             y == [x EXCEPT !.at = w]
  <2>1. y.at = w /\ y.kind = x.kind /\ y.dom = x.dom /\ y.had = x.had
    <3> HIDE DEF x
    <3> QED
      BY <1>0 DEF x, Task
  <2>2. task' = [task EXCEPT ![t] = y]
    BY <1>g DEF Go, Become
  <2>3. Marked(x) => Past(x)
    BY DEF Marked, Past
  <2> HIDE DEF y
  <2>4. Follows(x, y) /\ SeesRest(y) /\ (Marked(y) => Marked(x))
    BY <1>g, <2>1, <2>3 DEF Follows, SeesRest, Past, Marked
  <2> QED
    BY <1>g, <2>1, <2>2, <2>4, SetupMoved
<1>r. ASSUME NEW p \in {"running", "half", "failed"}, Report(t, p) PROVE Reported
  BY <1>r DEF Report, TInv, RestOK
<1>u. UNCHANGED progress => Reported
  OBVIOUS
<1>c. UNCHANGED certs => Removed
  OBVIOUS
<1>w. At(t, {"order", "validate", "sign", "store"}) => (task[t].kind \in {"setup", "selfsigned"} => Marked(task[t]))
  BY <1>0 DEF Fits, At, Nowhere, Marked
<1>o. At(t, {"check", "note", "delete", "count"}) => task[t].kind \notin {"setup", "selfsigned"}
  BY <1>0 DEF Fits, At, Nowhere
<1>k. task[t].kind \in {"create", "setup", "selfsigned", "renew", "auto", "delete"}
  BY <1>0 DEF Task
<1> HIDE DEF Reported, Removed
<1>1. CASE CheckRunning(t) \/ CountRows(t)
  BY <1>1, <1>e, <1>g, <1>o, <1>u, <1>c DEF CheckRunning, CountRows, At
<1>2. CASE DeleteRow(t)
  <2>1. Removed
    BY <1>2 DEF DeleteRow, Removed, TInv, RestOK
  <2> QED
    BY <1>2, <1>e, <1>g, <1>o, <1>u, <2>1 DEF DeleteRow, At
<1>3. CASE Judge(t) \/ Complete(t) \/ Reset(t) \/ Hangup(t)
  BY <1>3, <1>e, <1>u, <1>c DEF Judge, Complete, Reset, Hangup
<1>4. CASE Replace(t)
  <2>1. task[t].row \in Tasks
    BY <1>0, <1>4 DEF Replace, Fits, At, Nowhere
  <2>2. Removed
    <3>1. CASE UNCHANGED certs
      BY <1>c, <3>1
    <3>2. CASE ~UNCHANGED certs
      <4>1. /\ certs[Host(t)].id = task[t].row
            /\ certs' = [certs EXCEPT ![Host(t)].by = t, ![Host(t)].acme = TRUE, ![Host(t)].pem = "good"]
        BY <1>4, <3>2 DEF Replace
      <4>2. certs[Host(t)] # None
        BY <2>1, <4>1, TaskNumbers DEF None
      <4>3. \A h \in Hosts : h # Host(t) => certs'[h] = certs[h]
        BY <4>1 DEF TInv, RestOK
      <4> QED
        BY <4>2, <4>3 DEF Removed
    <3> QED
      BY <3>1, <3>2
  <2> QED
    BY <1>4, <1>e, <1>u, <2>2 DEF Replace
<1>5. CASE NoteRunning(t)
  <2>1. /\ At(t, {"note"}) /\ Ask(t) /\ UNCHANGED certs /\ Report(t, "running")
    BY <1>5 DEF NoteRunning
  <2>2. task[t].kind \in {"create", "renew"}
    BY <1>0, <2>1 DEF Task, Fits, At, Nowhere
  <2>3. Reported
    BY <1>r, <2>1
  <2> QED
    BY <2>1, <2>2, <2>3, SetupAsked DEF Reported, At, Nowhere
<1>6. CASE NextRenewal(t)
  <2>1. At(t, {"turn"}) /\ task[t].kind = "auto" /\ Ask(t) /\ UNCHANGED <<certs, progress>>
    BY <1>6 DEF NextRenewal
  <2> QED
    BY <2>1, SetupAsked DEF At, Nowhere
<1>7. CASE Turn(t)
  <2>1. At(t, {"turn"}) /\ task[t].kind = "setup" /\ UNCHANGED certs
    BY <1>7 DEF Turn
  <2>2. CASE Report(t, "running") /\ Ask(t)
    <3>1. Reported
      BY <1>r, <2>2
    <3> QED
      BY <2>1, <2>2, <3>1, SetupAsked DEF Reported, At, Nowhere
  <2>3. CASE Report(t, "failed") /\ Become(t, NextHost(t, TRUE))
    <3> DEFINE x == NextHost(t, TRUE)
    <3>1. /\ x.dom = task[t].dom /\ x.had = task[t].had /\ x.at \in {"turn", "judge"}
      BY <2>1, NextHostTyped
    <3>2. Past(task[t]) /\ Marked(task[t])
      BY <2>1 DEF Past, Marked, At
    <3> HIDE DEF x
    <3>3. Follows(task[t], x) /\ SeesRest(x) /\ x.at # "done"
      BY <3>1, <3>2 DEF Follows, SeesRest
    <3>4. task' = [task EXCEPT ![t] = x]
      BY <2>3 DEF Become, x
    <3>5. Reported
      BY <1>r, <2>3
    <3> QED
      BY <2>1, <3>2, <3>3, <3>4, <3>5, SetupMoved DEF Reported
  <2> QED
    BY <1>7, <2>2, <2>3 DEF Turn
<1>8. CASE Order(t) \/ Validate(t) \/ Issue(t)
  BY <1>8, <1>g, <1>w, <1>u, <1>c DEF Order, Validate, Issue, At
<1>9. CASE Refuse(t) \/ GiveUp(t)
  <2>1. At(t, {"order", "validate", "sign", "store"}) /\ Fail(t) /\ UNCHANGED certs
    BY <1>9 DEF Refuse, GiveUp, At
  <2>2. Reported
    BY <1>r, <1>u, <2>1 DEF Fail
  <2> QED
    BY <1>e, <1>g, <1>w, <1>c, <2>1, <2>2 DEF Fail
<1>10. CASE Store(t)
  <2>1. At(t, {"store"}) /\ task[t].kind \in {"create", "setup"}
    BY <1>10 DEF Store
  <2>2. CASE Go(t, "failed") /\ UNCHANGED <<certs, progress>>
    BY <1>g, <1>w, <1>u, <1>c, <2>1, <2>2 DEF At
  <2> DEFINE x == task[t]
             y == [x EXCEPT !.at = "done"]
             row == [id |-> IF certs[Host(t)] = None THEN t ELSE certs[Host(t)].id, by |-> t,
                     acme |-> TRUE, pem |-> "good"]
  <2>3. CASE /\ certs' = [certs EXCEPT ![Host(t)] = row]
             /\ Put(t, y, Host(t))
             /\ UNCHANGED progress \/ Report(t, "half")
    <3>1. Host(t) \in Hosts
      BY <2>1, HostThere DEF At
    <3>2. /\ y.at = "done" /\ y.kind = x.kind /\ y.dom = x.dom /\ y.had = x.had /\ y.todo = x.todo
          /\ y \in Task /\ y.row = x.row
      <4> HIDE DEF x
      <4> QED
        BY <1>0 DEF x, Task
    <3>3. TaskOK(y)
      BY <1>0, <2>1, <3>2 DEF TaskOK, Fits, At, Nowhere
    <3>4. Front(y) = Host(t)
      BY <3>2 DEF Front, Host
    <3>5. \A g \in Hosts : certs'[g] # None => certs[g] # None \/ g = Host(t)
      BY <2>3, <3>1 DEF TInv, RestOK
    <3>6. Reported
      BY <1>r, <1>u, <2>3
    <3>7. /\ Past(y) => Past(x) /\ y.dom = x.dom /\ x.had \subseteq y.had
          /\ Marked(y) => Marked(x)
      BY <1>w, <2>1, <3>2 DEF Past, Marked, At
    <3> HIDE DEF y
    <3>8. SeesRest(task'[t])
      <4>1. Same(y, task'[t])
        BY <2>3, <3>1, <3>3, PutOK
      <4> QED
        BY <3>2, <4>1 DEF Same, SeesRest
    <3> QED
      BY <2>3, <3>1, <3>2, <3>3, <3>4, <3>5, <3>6, <3>7, <3>8, SetupPut DEF Reported
  <2> QED
    BY <1>10, <2>2, <2>3 DEF Store
<1>11. CASE SelfSign(t)
  <2>1. At(t, {"insert"}) /\ UNCHANGED progress
    BY <1>11 DEF SelfSign
  <2>2. CASE Become(t, Ended) /\ UNCHANGED certs
    BY <1>e, <1>u, <1>c, <2>1, <2>2
  <2> DEFINE x == task[t]
             left == Left(t)
             w == IF left = {} THEN "complete" ELSE x.at
             y == [x EXCEPT !.todo = left, !.at = w]
  <2>3. CASE /\ certs' = [certs EXCEPT ![Host(t)] = [id |-> t, by |-> t, acme |-> FALSE, pem |-> "good"]]
             /\ Put(t, y, Host(t))
    <3>1. Host(t) \in Hosts
      BY <2>1, HostThere DEF At
    <3>2. left \in SUBSET Hosts /\ left = x.todo \ {Host(t)}
      BY <1>0 DEF Task, Left
    <3>3. /\ y.at = w /\ y.kind = x.kind /\ y.dom = x.dom /\ y.had = x.had /\ y.todo = left
          /\ y \in Task /\ y.row = x.row /\ w \in {"complete", "insert"} /\ (w = "complete" <=> left = {})
      <4>1. x.at = "insert"
        BY <2>1 DEF At
      <4> HIDE DEF x, left
      <4> QED
        BY <1>0, <3>2, <4>1 DEF x, Task
    <3>4. x.kind = "selfsigned" /\ x.at = "insert"
      BY <1>0, <1>k, <2>1 DEF Fits, At, Nowhere
    <3> HIDE DEF y, left, w
    <3>5. TaskOK(y)
      BY <3>3, <3>4 DEF TaskOK, Fits, Nowhere
    <3>6. \A g \in Hosts : certs'[g] # None => certs[g] # None \/ g = Host(t)
      BY <2>3, <3>1 DEF TInv, RestOK
    <3>7. /\ Past(y) => Past(x) /\ y.dom = x.dom /\ x.had \subseteq y.had
          /\ ~Marked(y) /\ y.at # "mark" /\ y.at # "done"
      BY <3>3, <3>4 DEF Past, Marked
    <3>8. SeesRest(task'[t])
      <4>1. /\ Same(y, task'[t])
            /\ Host(t) \in Of(x.dom) => Host(t) \in task'[t].had
        <5>1. Same(y, task'[t])
          BY <2>3, <3>1, <3>5, PutOK
        <5>2. /\ task'[t].kind \in {"setup", "selfsigned"} /\ task'[t].at \notin Nowhere
              /\ task'[t].dom = x.dom
          BY <3>3, <3>4, <5>1 DEF Same, Nowhere
        <5>3. Host(t) \in Of(x.dom) => x.dom = Host(t)[1]
          BY DEF Of
        <5>4. task'[t].dom = Host(t)[1] => Host(t) \in task'[t].had
          BY <2>3, <3>1, <3>5, <5>2, PutOK
        <5> QED
          BY <5>1, <5>2, <5>3, <5>4
      <4>2. Of(x.dom) \subseteq x.todo \cup x.had
        BY <1>0, <3>4 DEF SeesRest
      <4>3. Of(x.dom) \subseteq left \cup task'[t].had
        BY <3>2, <3>3, <4>1, <4>2 DEF Same
      <4> QED
        BY <3>3, <4>1, <4>3 DEF Same, SeesRest
    <3>9. Reported
      BY <1>u, <2>1
    <3> QED
      BY <2>3, <3>1, <3>5, <3>6, <3>7, <3>8, <3>9, SetupPut DEF Reported
  <2> QED
    BY <1>11, <2>2, <2>3 DEF SelfSign
<1> QED
  BY <1>1, <1>2, <1>3, <1>4, <1>5, <1>6, <1>7, <1>8, <1>9, <1>10, <1>11,
     SetupSurvey, SetupMark, SetupFinish DEF Step

LEMMA SetupStep == TInv /\ SetupInv /\ [Next]_vars => SetupInv'
<1> SUFFICES ASSUME TInv, SetupInv, [Next]_vars PROVE SetupInv'
  OBVIOUS
<1>1. CASE \E t \in Tasks : Start(t) \/ Step(t)
  BY <1>1, SetupStart, SetupStepOf
<1>2. CASE Reload \/ UNCHANGED vars
  BY <1>2 DEF Reload, vars, SetupInv
<1>3. CASE Restart
  <2>1. \A t \in Tasks : task'[t].at \in Nowhere
    BY <1>3, FreshTyped DEF Restart, At, Nowhere
  <2> QED
    BY <2>1 DEF SetupInv, SeesRows, SeesMap, SeesRest, SeesDone, SeesMark, Past, Marked, Nowhere
<1> QED
  BY <1>1, <1>2, <1>3 DEF Next

\* A step that completes the setup of d
LEMMA CompletingStep ==
  ASSUME TInv, SetupInv, [Next]_vars, NEW d \in Domains, ~setup[d], setup'[d]
  PROVE  \E t \in Tasks :
           /\ task[t].kind \in {"setup", "selfsigned"} /\ task[t].dom = d
           /\ Of(d) \subseteq task[t].had
<1>1. PICK t \in Tasks : Judge(t) \/ Complete(t)
  <2>1. setup' # setup
    OBVIOUS
  <2>2. PICK t \in Tasks : Start(t) \/ Step(t)
    BY <2>1 DEF Next, Reload, Restart, vars
  <2>3. ~Reset(t)
    BY DEF Reset, TInv, RestOK
  <2>4. ~Start(t)
    BY <2>1 DEF Start, Create, Manual, Setup, Renew, ListRenewal, Delete, OnRow, Begin
  <2>5. ~(CheckRunning(t) \/ NoteRunning(t) \/ Order(t) \/ Validate(t) \/ Refuse(t) \/ GiveUp(t)
          \/ Issue(t) \/ Store(t) \/ Replace(t) \/ Finish(t))
    BY <2>1 DEF CheckRunning, NoteRunning, Order, Validate, Refuse, GiveUp, Issue, Store, Replace, Finish
  <2>6. ~(Survey(t) \/ Mark(t) \/ Turn(t) \/ SelfSign(t) \/ NextRenewal(t) \/ DeleteRow(t)
          \/ CountRows(t) \/ Hangup(t))
    BY <2>1 DEF Survey, Mark, Turn, SelfSign, NextRenewal, DeleteRow, CountRows, Hangup
  <2> QED
    BY <2>2, <2>3, <2>4, <2>5, <2>6 DEF Step
<1>2. /\ task[t] \in Task /\ Fits(task[t])
      /\ SeesMap(task[t], progress) /\ SeesRest(task[t])
  BY DEF TInv, SetupInv
<1>3. task[t].dom = d
  BY <1>1 DEF Judge, Complete, TInv, RestOK
<1>4. CASE Judge(t)
  <2>1. At(t, {"judge"}) /\ AllSuccess
    BY <1>4 DEF Judge
  <2>2. Marked(task[t])
    BY <1>2, <2>1 DEF Fits, At, Nowhere, Marked, Task
  <2>3. \A h \in Of(d) : h \in Hosts
    BY DEF Of
  <2> QED
    BY <1>2, <1>3, <2>1, <2>2, <2>3 DEF SeesMap, AllSuccess, Marked
<1>5. CASE Complete(t)
  <2>1. task[t].at = "complete"
    BY <1>5 DEF Complete, At
  <2>2. task[t].kind = "selfsigned"
    BY <1>2, <2>1 DEF Fits, Nowhere, Task
  <2> QED
    BY <1>2, <1>3, <2>1, <2>2 DEF SeesRest
<1> QED
  BY <1>1, <1>4, <1>5

\* A domain is completed only by a setup of it that accounts for each of its hosts, for any number of
\* domains, names and tasks, and whatever else is written into the map.
THEOREM SetupIsCertified == Spec => SetupCertified
<1>1. Init => SetupInv
  <2> SUFFICES ASSUME Init PROVE SetupInv
    OBVIOUS
  <2>1. \A t \in Tasks : task[t].at = "unused"
    BY FreshTyped DEF Init
  <2> QED
    BY <2>1 DEF SetupInv, SeesRows, SeesMap, SeesRest, SeesDone, SeesMark, Past, Marked
<1>2. TInv /\ SetupInv /\ [Next]_vars =>
        [\A d \in Domains : ~setup[d] /\ setup'[d] =>
          \E t \in Tasks :
            /\ task[t].kind \in {"setup", "selfsigned"} /\ task[t].dom = d
            /\ Of(d) \subseteq task[t].had]_vars
  BY CompletingStep
<1> QED
  BY <1>1, <1>2, TypeInit, TypeStep, SetupStep, PTL DEF Spec, SetupCertified
-----------------------------------------------------------------------------
(* The mail servers *)

LEMMA ServedStep == [Next]_vars => served' = served \/ Reload
<1> SUFFICES ASSUME [Next]_vars PROVE served' = served \/ Reload
  OBVIOUS
<1>1. CASE \E t \in Tasks : Start(t)
  BY <1>1 DEF Start, Create, Manual, Setup, Renew, ListRenewal, Delete, OnRow, Begin
<1>2. ASSUME NEW t \in Tasks, Step(t) PROVE served' = served
  <2>1. CASE CheckRunning(t) \/ NoteRunning(t) \/ Order(t) \/ Validate(t) \/ Refuse(t) \/ GiveUp(t)
             \/ Issue(t) \/ Store(t) \/ Replace(t) \/ Finish(t)
    BY <2>1 DEF CheckRunning, NoteRunning, Order, Validate, Refuse, GiveUp, Issue, Store, Replace, Finish
  <2>2. CASE Survey(t) \/ Mark(t) \/ Turn(t) \/ Judge(t) \/ SelfSign(t) \/ Complete(t)
    BY <2>2 DEF Survey, Mark, Turn, Judge, SelfSign, Complete
  <2>3. CASE NextRenewal(t) \/ DeleteRow(t) \/ CountRows(t) \/ Reset(t) \/ Hangup(t)
    BY <2>3 DEF NextRenewal, DeleteRow, CountRows, Reset, Hangup
  <2> QED
    BY <1>2, <2>1, <2>2, <2>3 DEF Step
<1>3. CASE Restart \/ UNCHANGED vars
  BY <1>3 DEF Restart, vars
<1> QED
  BY <1>1, <1>2, <1>3 DEF Next

\* Once the table does not change any more, the mail servers come to use what is in it, for any
\* domains and any number of tasks.  That a reload is possible when it is due is a hypothesis here.
THEOREM ServersCatchUp ==
  FairSpec /\ []ReloadPossible /\ <>[][certs' = certs]_vars => CatchesUp
<1> DEFINE Right == ~Readable \/ \A h \in Hosts : served[h] = Entry(h)
<1>1. [Next]_vars /\ Right /\ [certs' = certs]_vars => Right'
  <2> SUFFICES ASSUME [Next]_vars, Right, [certs' = certs]_vars PROVE Right'
    OBVIOUS
  <2>1. certs' = certs
    BY DEF vars
  <2>2. CASE served' = served
    BY <2>1, <2>2 DEF Readable, Entry
  <2>3. CASE Reload
    BY <2>1, <2>3 DEF Reload, Entry
  <2> QED
    BY <2>2, <2>3, ServedStep
<1>2. <<Reload>>_vars => Right'
  BY DEF Reload, Entry, vars
<1>3. ~Right => Stale
  BY DEF Stale
<1>4. FairSpec => [][Next]_vars /\ WF_vars(Reload)
  BY PTL DEF FairSpec, Spec, ReloadGoesOn
<1>5. ReloadPossible => (Stale => ENABLED <<Reload>>_vars)
  BY DEF ReloadPossible
<1>6. CatchesUp <=> <>[]Right
  BY DEF CatchesUp
<1> HIDE DEF Right, Stale, FairSpec, ReloadPossible, CatchesUp
<1> QED
  BY <1>1, <1>2, <1>3, <1>4, <1>5, <1>6, PTL
-----------------------------------------------------------------------------
(* Whose the notes of running requests are *)

\* A task that will write an outcome for h: on all its ways one of its steps does
Owner(x, h) ==
  /\ x.at \in Doing
  /\ \/ x.kind = "create" /\ Front(x) = h
     \/ x.kind = "setup" /\ h \in x.todo

\* A host is noted as running only as long as there is a task that has still to report on it, except
\* for renew_cert, whose note nobody takes back: a note is never left behind by tasks that write into the
\* map for each other's hosts.
NotesOwned ==
  \A h \in Hosts :
    progress[h] = "running" /\ h \notin renewed => \E t \in Tasks : Owner(task[t], h)

\* The others stay as they are; what t does not own was noted before
LEMMA NotesKept ==
  ASSUME NotesOwned, renewed \subseteq renewed', NEW t \in Tasks,
         \A u \in Tasks : u # t => Same(task[u], task'[u]),
         \A h \in Hosts : progress'[h] = "running" /\ h \notin renewed' =>
           \/ Owner(task'[t], h)
           \/ progress[h] = "running" /\ ~Owner(task[t], h)
  PROVE  NotesOwned'
<1> SUFFICES ASSUME NEW h \in Hosts, progress'[h] = "running", h \notin renewed'
             PROVE  \E u \in Tasks : Owner(task'[u], h)
  BY DEF NotesOwned
<1>1. CASE Owner(task'[t], h)
  BY <1>1
<1>2. CASE progress[h] = "running" /\ ~Owner(task[t], h)
  <2>1. PICK u \in Tasks : Owner(task[u], h)
    BY <1>2 DEF NotesOwned
  <2>2. Same(task[u], task'[u])
    BY <1>2, <2>1
  <2>3. Owner(task'[u], h)
    BY <2>1, <2>2 DEF Same, Owner, Front
  <2> QED
    BY <2>3
<1> QED
  BY <1>1, <1>2

\* t alone changes, and it owns what it did, or it had nothing
LEMMA NotesMoved ==
  ASSUME TInv, NotesOwned, NEW t \in Tasks, NEW x, Become(t, x), renewed' = renewed,
         \A h \in Hosts : progress'[h] = "running" => progress[h] = "running",
         \A h \in Hosts : progress'[h] = "running" /\ Owner(task[t], h) => Owner(x, h)
  PROVE  NotesOwned'
<1>1. task'[t] = x /\ \A u \in Tasks : u # t => task'[u] = task[u]
  BY DEF Become, TInv
<1>2. \A u \in Tasks : u # t => Same(task[u], task'[u])
  BY <1>1 DEF Same
<1> QED
  BY <1>1, <1>2, NotesKept

LEMMA NotesStart ==
  ASSUME TInv, NotesOwned, NEW t \in Tasks, Start(t)
  PROVE  NotesOwned'
<1>1. At(t, {"unused"}) /\ UNCHANGED <<progress, renewed>>
  BY DEF Start, Create, Manual, Setup, Renew, ListRenewal, Delete, OnRow, Begin
<1>2. \A h \in Hosts : ~Owner(task[t], h)
  BY <1>1 DEF At, Owner, Doing
<1>3. \A u \in Tasks : u # t => Same(task[u], task'[u])
  <2>1. CASE Manual(t)
    BY <2>1, FreshTyped, PutOK DEF Manual
  <2>2. CASE Create(t) \/ Setup(t) \/ Renew(t) \/ ListRenewal(t) \/ Delete(t)
    <3>1. PICK x : Become(t, x)
      BY <2>2 DEF Create, Setup, Renew, ListRenewal, Delete, OnRow, Begin
    <3>2. \A u \in Tasks : u # t => task'[u] = task[u]
      BY <3>1 DEF Become, TInv
    <3> QED
      BY <3>2 DEF Same
  <2> QED
    BY <2>1, <2>2 DEF Start
<1> QED
  BY <1>1, <1>2, <1>3, NotesKept

LEMMA NotesStepOf ==
  ASSUME TInv, NotesOwned, NEW t \in Tasks, Step(t)
  PROVE  NotesOwned'
<1> DEFINE Calm == \A h \in Hosts : progress'[h] = "running" => progress[h] = "running"
<1>0. task[t] \in Task /\ Fits(task[t]) /\ Host(t) = Front(task[t])
  BY DEF TInv, Host, Front
<1>u. UNCHANGED progress => Calm
  OBVIOUS
<1>r. ASSUME NEW p, p # "running", Report(t, p) PROVE Calm
  BY <1>r DEF Report, TInv, RestOK
<1>n. At(t, {"check", "note", "survey", "mark", "judge", "insert", "complete", "delete", "count", "reset"})
        \/ task[t].kind \in {"renew", "auto"}
      => \A h \in Hosts : ~Owner(task[t], h)
  BY DEF At, Owner, Doing
<1>e. ASSUME Become(t, Ended), renewed' = renewed, Calm, \A h \in Hosts : ~Owner(task[t], h)
      PROVE  NotesOwned'
  BY <1>e, NotesMoved
<1>g. ASSUME NEW w \in {"note", "turn", "validate", "sign", "store", "failed", "count", "reset"},
             Go(t, w), renewed' = renewed, Calm,
             (\A h \in Hosts : ~Owner(task[t], h)) \/ w \in Doing
      PROVE  NotesOwned'
  <2> DEFINE x == task[t]
             y == [x EXCEPT !.at = w]
  <2>1. y.at = w /\ y.kind = x.kind /\ y.todo = x.todo
    <3> HIDE DEF x
    <3> QED
      BY <1>0 DEF x, Task
  <2>2. Become(t, y)
    BY <1>g DEF Go
  <2> HIDE DEF y
  <2>3. \A h \in Hosts : Owner(x, h) => Owner(y, h)
    BY <1>g, <2>1 DEF Owner, Front
  <2> QED
    BY <1>g, <2>2, <2>3, NotesMoved
<1>a. ASSUME Ask(t), ~At(t, Nowhere \cup {"survey", "judge", "complete"}),
             task[t].kind \in {"create", "setup", "renew", "auto"},
             renewed \subseteq renewed',
             \A h \in Hosts : progress'[h] = "running" =>
               \/ progress[h] = "running" \/ h \in renewed'
               \/ h = Host(t) /\ task[t].kind \in {"create", "setup"}
      PROVE  NotesOwned'
  <2> DEFINE x == task[t]
             y == [x EXCEPT !.at = "order"]
  <2>1. Same(y, task'[t]) /\ \A u \in Tasks : u # t => Same(task[u], task'[u])
    BY <1>a, AskOK
  <2>2. y.at = "order" /\ y.kind = x.kind /\ y.todo = x.todo
    <3> HIDE DEF x
    <3> QED
      BY <1>0 DEF x, Task
  <2>3. Host(t) \in x.todo
    BY <1>a, HostThere DEF At, Nowhere
  <2> HIDE DEF y
  <2>4. \A h \in Hosts : Owner(x, h) => Owner(task'[t], h)
    BY <2>1, <2>2 DEF Same, Owner, Doing, Front
  <2>5. x.kind \in {"create", "setup"} => Owner(task'[t], Host(t))
    BY <1>0, <2>1, <2>2, <2>3 DEF Same, Owner, Doing, Front
  <2> QED
    BY <1>a, <2>1, <2>4, <2>5, NotesKept
<1>p. ASSUME NEW x, TaskOK(x), NEW h \in Hosts, Put(t, x, h), renewed' = renewed, Calm,
             \A g \in Hosts : Owner(task[t], g) => Owner(x, g)
      PROVE  NotesOwned'
  <2>1. Same(x, task'[t]) /\ \A u \in Tasks : u # t => Same(task[u], task'[u])
    BY <1>p, PutOK
  <2>2. \A g \in Hosts : Owner(x, g) => Owner(task'[t], g)
    BY <2>1 DEF Same, Owner, Front
  <2> QED
    BY <1>p, <2>1, <2>2, NotesKept
<1>h. ASSUME NEW abort \in BOOLEAN, NEW p, p # "running", Report(t, p), Become(t, NextHost(t, abort)),
             renewed' = renewed, task[t].kind = "setup",
             ~At(t, {"unused", "ended", "survey", "judge", "complete"})
      PROVE  NotesOwned'
  <2> DEFINE x == task[t]
             left == Left(t)
             y == [x EXCEPT !.todo = left, !.abort = abort, !.at = IF left = {} THEN "judge" ELSE "turn"]
  <2>1. y.todo = left /\ y.kind = x.kind /\ (left # {} => y.at = "turn")
    <3> HIDE DEF x, left
    <3> QED
      BY <1>0 DEF x, Task
  <2>2. Become(t, y)
    BY <1>h DEF NextHost
  <2>3. left = x.todo \ {Host(t)}
    BY DEF Left
  <2>4. progress'[Host(t)] = p /\ Calm
    <3>1. Host(t) \in Hosts
      BY <1>h, HostThere
    <3> QED
      BY <1>h, <1>r, <3>1 DEF Report, TInv, RestOK
  <2> HIDE DEF y, left
  <2>5. \A h \in Hosts : progress'[h] = "running" /\ Owner(x, h) => Owner(y, h)
    BY <1>h, <2>1, <2>3, <2>4 DEF Owner, Doing
  <2> QED
    BY <1>h, <2>2, <2>4, <2>5, NotesMoved
<1> HIDE DEF Calm
<1>1. CASE CheckRunning(t) \/ DeleteRow(t) \/ CountRows(t)
  BY <1>1, <1>e, <1>g, <1>n, <1>u DEF CheckRunning, DeleteRow, CountRows, At
<1>2. CASE Judge(t) \/ Complete(t) \/ Reset(t) \/ Hangup(t)
  <2>1. At(t, {"check", "note", "survey", "mark", "judge", "insert", "complete", "delete", "count", "reset"})
    BY <1>2 DEF Judge, Complete, Reset, Hangup, At
  <2> QED
    BY <1>2, <1>e, <1>n, <1>u, <2>1 DEF Judge, Complete, Reset, Hangup
<1>3. CASE Replace(t)
  BY <1>3, <1>e, <1>n, <1>u DEF Replace
<1>4. CASE NoteRunning(t)
  <2>1. At(t, {"note"}) /\ Ask(t) /\ Report(t, "running")
        /\ renewed' = IF task[t].kind = "renew" THEN renewed \cup {Host(t)} ELSE renewed
    BY <1>4 DEF NoteRunning
  <2>2. task[t].kind \in {"create", "renew"}
    BY <1>0, <2>1 DEF Task, Fits, At, Nowhere
  <2>3. \A h \in Hosts : progress'[h] = "running" => progress[h] = "running" \/ h = Host(t)
    BY <2>1 DEF Report, TInv, RestOK
  <2> QED
    BY <1>a, <2>1, <2>2, <2>3 DEF At, Nowhere
<1>5. CASE NextRenewal(t)
  <2>1. At(t, {"turn"}) /\ task[t].kind = "auto" /\ Ask(t) /\ UNCHANGED <<progress, renewed>>
    BY <1>5 DEF NextRenewal
  <2> QED
    BY <1>a, <2>1 DEF At, Nowhere
<1>6. CASE Turn(t)
  <2>1. At(t, {"turn"}) /\ task[t].kind = "setup" /\ UNCHANGED renewed
    BY <1>6 DEF Turn
  <2>2. CASE Report(t, "running") /\ Ask(t)
    <3>1. \A h \in Hosts : progress'[h] = "running" => progress[h] = "running" \/ h = Host(t)
      BY <2>2 DEF Report, TInv, RestOK
    <3> QED
      BY <1>a, <2>1, <2>2, <3>1 DEF At, Nowhere
  <2>3. CASE Report(t, "failed") /\ Become(t, NextHost(t, TRUE))
    BY <1>h, <2>1, <2>3 DEF At
  <2> QED
    BY <1>6, <2>2, <2>3 DEF Turn
<1>7. CASE Order(t) \/ Validate(t) \/ Issue(t)
  BY <1>7, <1>g, <1>u DEF Order, Validate, Issue, Doing
<1>8. CASE Refuse(t) \/ GiveUp(t)
  <2>1. At(t, {"order", "validate", "sign"}) /\ Fail(t) /\ UNCHANGED renewed
    BY <1>8 DEF Refuse, GiveUp, At
  <2>2. CASE task[t].kind \in {"create", "setup"}
    <3>1. Go(t, "failed") /\ (UNCHANGED progress \/ Report(t, "half"))
      BY <2>1, <2>2 DEF Fail
    <3>2. Calm
      BY <1>r, <1>u, <3>1
    <3> QED
      BY <1>g, <2>1, <3>1, <3>2 DEF Doing
  <2>3. CASE task[t].kind \notin {"create", "setup"}
    <3>1. Become(t, Ended) /\ UNCHANGED progress
      BY <2>1, <2>3 DEF Fail
    <3>2. \A h \in Hosts : ~Owner(task[t], h)
      BY <2>3 DEF Owner
    <3> QED
      BY <1>e, <1>u, <2>1, <3>1, <3>2
  <2> QED
    BY <2>2, <2>3
<1>9. CASE Store(t)
  <2>1. At(t, {"store"}) /\ task[t].kind \in {"create", "setup"} /\ UNCHANGED renewed
    BY <1>9 DEF Store
  <2>2. CASE Go(t, "failed") /\ UNCHANGED <<certs, progress>>
    BY <1>g, <1>u, <2>1, <2>2 DEF Doing
  <2> DEFINE x == task[t]
             y == [x EXCEPT !.at = "done"]
  <2>3. CASE Put(t, y, Host(t)) /\ (UNCHANGED progress \/ Report(t, "half"))
    <3>1. Host(t) \in Hosts
      BY <2>1, HostThere DEF At
    <3>2. y.at = "done" /\ y.kind = x.kind /\ y.todo = x.todo /\ y \in Task /\ y.row = x.row
      <4> HIDE DEF x
      <4> QED
        BY <1>0 DEF x, Task
    <3>3. TaskOK(y)
      BY <1>0, <2>1, <3>2 DEF TaskOK, Fits, At, Nowhere
    <3>4. Calm
      BY <1>r, <1>u, <2>3
    <3> HIDE DEF y
    <3>5. \A g \in Hosts : Owner(x, g) => Owner(y, g)
      BY <3>2 DEF Owner, Doing, Front
    <3> QED
      BY <1>p, <2>1, <2>3, <3>1, <3>3, <3>4, <3>5
  <2> QED
    BY <1>9, <2>2, <2>3 DEF Store
<1>10. CASE Finish(t)
  <2>1. At(t, {"done", "failed"}) /\ Report(t, task[t].at) /\ UNCHANGED renewed
    BY <1>10 DEF Finish
  <2>2. task[t].at # "running" /\ Calm
    <3>1. task[t].at # "running"
      BY <2>1 DEF At
    <3> QED
      BY <1>r, <2>1, <3>1
  <2>3. CASE task[t].kind = "setup"
    <3> DEFINE a == task[t].abort \/ At(t, {"failed"})
    <3>1. a \in BOOLEAN /\ Become(t, NextHost(t, a))
      BY <1>10, <2>3, Zenon DEF Finish
    <3> HIDE DEF a
    <3> QED
      BY <1>h, <2>1, <2>2, <2>3, <3>1 DEF At
  <2>4. CASE task[t].kind # "setup"
    <3>1. Become(t, Ended) /\ Host(t) \in Hosts
      BY <1>10, <2>1, <2>4, HostThere DEF Finish, At
    <3>2. progress'[Host(t)] # "running"
      BY <2>1, <2>2, <3>1 DEF Report, TInv, RestOK
    <3>3. \A h \in Hosts : ~(progress'[h] = "running" /\ Owner(task[t], h))
      BY <1>0, <2>4, <3>2 DEF Owner
    <3>4. \A h \in Hosts : progress'[h] = "running" => progress[h] = "running"
      BY <2>2 DEF Calm
    <3> QED
      BY <2>1, <3>1, <3>3, <3>4, NotesMoved
  <2> QED
    BY <2>3, <2>4
<1>11. CASE Survey(t)
  <2>1. At(t, {"survey"}) /\ UNCHANGED <<progress, renewed>>
    BY <1>11 DEF Survey
  <2>2. PICK x : Become(t, x)
    BY <1>11 DEF Survey
  <2> QED
    BY <1>n, <2>1, <2>2, NotesMoved DEF At
<1>12. CASE Mark(t)
  <2> DEFINE x == task[t]
             y == [x EXCEPT !.at = "turn"]
  <2>1. At(t, {"mark"}) /\ Become(t, y) /\ UNCHANGED renewed
    BY <1>12 DEF Mark, Go
  <2>2. y.at = "turn" /\ y.kind = x.kind /\ y.todo = x.todo /\ x.kind = "setup"
    <3>1. x.kind = "setup"
      BY <1>0, <2>1 DEF Task, Fits, At, Nowhere
    <3> HIDE DEF x
    <3> QED
      BY <1>0, <3>1 DEF x, Task
  <2>3. \A h \in Hosts : progress'[h] = "running" => h \in x.todo \/ progress[h] = "running"
    BY <1>12 DEF Mark
  <2> HIDE DEF y
  <2>4. task'[t] = y /\ \A u \in Tasks : u # t => Same(task[u], task'[u])
    BY <2>1 DEF Become, TInv, Same
  <2>5. \A h \in x.todo : Owner(task'[t], h)
    BY <2>2, <2>4 DEF Owner, Doing
  <2> QED
    BY <1>n, <2>1, <2>3, <2>4, <2>5, NotesKept DEF At
<1>13. CASE SelfSign(t)
  <2>1. At(t, {"insert"}) /\ UNCHANGED <<progress, renewed>> /\ \A h \in Hosts : ~Owner(task[t], h)
    BY <1>13, <1>n DEF SelfSign, At
  <2>2. CASE Become(t, Ended)
    BY <1>e, <1>u, <2>1, <2>2
  <2> DEFINE x == task[t]
             left == Left(t)
             w == IF left = {} THEN "complete" ELSE x.at
             y == [x EXCEPT !.todo = left, !.at = w]
  <2>3. CASE Put(t, y, Host(t))
    <3>1. Host(t) \in Hosts /\ left \in SUBSET Hosts
      BY <1>0, <2>1, HostThere DEF At, Left, Task
    <3>2. TaskOK(y)
      <4> HIDE DEF left
      <4> QED
        BY <1>0, <2>1, <3>1 DEF Task, TaskOK, Fits, At, Nowhere
    <3> HIDE DEF y
    <3> QED
      BY <1>p, <1>u, <2>1, <2>3, <3>1, <3>2
  <2> QED
    BY <1>13, <2>2, <2>3 DEF SelfSign
<1> QED
  BY <1>1, <1>2, <1>3, <1>4, <1>5, <1>6, <1>7, <1>8, <1>9, <1>10, <1>11, <1>12, <1>13 DEF Step

LEMMA NotesStep == TInv /\ NotesOwned /\ [Next]_vars => NotesOwned'
<1> SUFFICES ASSUME TInv, NotesOwned, [Next]_vars PROVE NotesOwned'
  OBVIOUS
<1>1. CASE \E t \in Tasks : Start(t) \/ Step(t)
  BY <1>1, NotesStart, NotesStepOf
<1>2. CASE Reload \/ UNCHANGED vars
  BY <1>2 DEF Reload, vars, NotesOwned
<1>3. CASE Restart
  BY <1>3 DEF Restart, NotesOwned
<1> QED
  BY <1>1, <1>2, <1>3 DEF Next

\* Whatever create_cert, setup_cert and renew_cert do to each other, and however a request ends, a host
\* noted as running has a background task that is still to report on it: the safety half of
\* NobodyWaitsForever, for any domains, names and number of tasks.
THEOREM NotesAreOwned == Spec => []NotesOwned
<1>1. Init => NotesOwned
  BY DEF Init, NotesOwned
<1> QED
  BY <1>1, TypeInit, TypeStep, NotesStep, PTL DEF Spec
-----------------------------------------------------------------------------
(* That the background tasks get on *)

\* The others change nothing of a task but what it has seen
LEMMA OthersSame ==
  ASSUME TInv, [Next]_vars, NEW t \in Tasks, At(t, Doing), ~Step(t), ~Restart
  PROVE  Same(task[t], task'[t])
<1>s. ASSUME task'[t] = task[t] PROVE Same(task[t], task'[t])
  BY <1>s DEF Same
<1>b. ASSUME NEW u \in Tasks \ {t}, NEW x, Become(u, x) PROVE Same(task[t], task'[t])
  <2>1. task'[t] = task[t]
    BY <1>b DEF Become, TInv
  <2> QED
    BY <1>s, <2>1
<1>g. ASSUME NEW u \in Tasks \ {t}, NEW w, Go(u, w) PROVE Same(task[t], task'[t])
  BY <1>b, <1>g DEF Go
<1>1. ASSUME NEW u \in Tasks, Start(u) PROVE Same(task[t], task'[t])
  <2>1. u # t
    BY <1>1 DEF Start, Create, Manual, Setup, Renew, ListRenewal, Delete, OnRow, Begin, At, Doing
  <2>2. CASE Manual(u)
    BY <2>1, <2>2, FreshTyped, PutOK DEF Manual
  <2>3. CASE Create(u) \/ Setup(u) \/ Renew(u) \/ ListRenewal(u) \/ Delete(u)
    <3>1. PICK x : Become(u, x)
      BY <2>3 DEF Create, Setup, Renew, ListRenewal, Delete, OnRow, Begin
    <3> QED
      BY <1>b, <2>1, <3>1
  <2> QED
    BY <1>1, <2>2, <2>3 DEF Start
<1>2. ASSUME NEW u \in Tasks, Step(u) PROVE Same(task[t], task'[t])
  <2>0. u \in Tasks \ {t}
    BY <1>2
  <2>a. ASSUME Ask(u), ~At(u, Nowhere \cup {"survey", "judge", "complete"}),
               task[u].kind \in {"create", "setup", "renew", "auto"}
        PROVE  Same(task[t], task'[t])
    BY <2>0, <2>a, AskOK
  <2>f. Fail(u) => Same(task[t], task'[t])
    BY <1>b, <1>g, <2>0 DEF Fail
  <2>k. task[u] \in Task /\ Fits(task[u])
    BY DEF TInv
  <2>1. CASE CheckRunning(u) \/ DeleteRow(u) \/ CountRows(u) \/ Judge(u) \/ Complete(u) \/ Reset(u)
             \/ Hangup(u) \/ Replace(u)
    BY <1>b, <1>g, <2>0, <2>1 DEF CheckRunning, DeleteRow, CountRows, Judge, Complete, Reset, Hangup, Replace
  <2>2. CASE NoteRunning(u)
    <3>1. At(u, {"note"}) /\ Ask(u)
      BY <2>2 DEF NoteRunning
    <3>2. task[u].kind \in {"create", "renew"}
      BY <2>k, <3>1 DEF Task, Fits, At, Nowhere
    <3> QED
      BY <2>a, <3>1, <3>2 DEF At, Nowhere
  <2>3. CASE NextRenewal(u)
    BY <2>a, <2>3 DEF NextRenewal, At, Nowhere
  <2>4. CASE Turn(u)
    BY <1>b, <2>0, <2>a, <2>4 DEF Turn, At, Nowhere
  <2>5. CASE Order(u) \/ Validate(u) \/ Issue(u) \/ Mark(u)
    BY <1>g, <2>0, <2>5 DEF Order, Validate, Issue, Mark
  <2>6. CASE Refuse(u) \/ GiveUp(u)
    BY <2>6, <2>f DEF Refuse, GiveUp
  <2>7. CASE Store(u)
    <3> DEFINE x == task[u]
               y == [x EXCEPT !.at = "done"]
    <3>1. At(u, {"store"}) /\ task[u].kind \in {"create", "setup"}
      BY <2>7 DEF Store
    <3>2. CASE Go(u, "failed")
      BY <1>g, <2>0, <3>2
    <3>3. CASE Put(u, y, Host(u))
      <4>1. Host(u) \in Hosts
        BY <3>1, HostThere DEF At
      <4>2. y.at = "done" /\ y.kind = x.kind /\ y.todo = x.todo /\ y \in Task /\ y.row = x.row
        <5> HIDE DEF x
        <5> QED
          BY <2>k DEF x, Task
      <4>3. TaskOK(y)
        BY <2>k, <3>1, <4>2 DEF TaskOK, Fits, At, Nowhere
      <4> HIDE DEF y
      <4> QED
        BY <2>0, <3>3, <4>1, <4>3, PutOK
    <3> QED
      BY <2>7, <3>2, <3>3 DEF Store
  <2>8. CASE Finish(u)
    <3>1. PICK x : Become(u, x)
      BY <2>8 DEF Finish
    <3> QED
      BY <1>b, <2>0, <3>1
  <2>9. CASE Survey(u)
    <3>1. PICK x : Become(u, x)
      BY <2>9 DEF Survey
    <3> QED
      BY <1>b, <2>0, <3>1
  <2>10. CASE SelfSign(u)
    <3>1. At(u, {"insert"})
      BY <2>10 DEF SelfSign
    <3>2. CASE Become(u, Ended)
      BY <1>b, <2>0, <3>2
    <3> DEFINE x == task[u]
               left == Left(u)
               w == IF left = {} THEN "complete" ELSE x.at
               y == [x EXCEPT !.todo = left, !.at = w]
    <3>3. CASE Put(u, y, Host(u))
      <4>1. Host(u) \in Hosts /\ left \in SUBSET Hosts
        BY <2>k, <3>1, HostThere DEF At, Left, Task
      <4>2. TaskOK(y)
        <5> HIDE DEF left
        <5> QED
          BY <2>k, <3>1, <4>1 DEF Task, TaskOK, Fits, At, Nowhere
      <4> HIDE DEF y
      <4> QED
        BY <2>0, <3>3, <4>1, <4>2, PutOK
    <3> QED
      BY <2>10, <3>2, <3>3 DEF SelfSign
  <2> QED
    BY <1>2, <2>1, <2>2, <2>3, <2>4, <2>5, <2>6, <2>7, <2>8, <2>9, <2>10 DEF Step
<1>3. CASE Reload \/ UNCHANGED vars
  BY <1>3, <1>s DEF Reload, vars
<1> QED
  BY <1>1, <1>2, <1>3 DEF Next

\* How far a background task is from its report
Distance(x) ==
  CASE x.at = "turn" -> 6
    [] x.at = "order" -> 5
    [] x.at = "validate" -> 4
    [] x.at = "sign" -> 3
    [] x.at = "store" -> 2
    [] OTHER -> 1

\* It has these hosts to do, and is as far from the report on the first of them as that
Bound(t, S, n) == InBackground(t) /\ At(t, Doing) /\ task[t].todo = S /\ Distance(task[t]) = n

\* One of them is off its list
Reported(t, S) ==
  /\ task[t].todo \subseteq S /\ task[t].todo # S
  /\ \A h \in S \ task[t].todo : progress[h] # "running"

\* It comes nearer to its report, or reports
Nearer(t, S, n) == Reported(t, S) \/ \E k \in 1 .. n - 1 : Bound(t, S, k)

Approaches(t, S, n) == Bound(t, S, n) ~> Nearer(t, S, n)

LEMMA OwnStep ==
  ASSUME TInv, NEW t \in Tasks, NEW S, NEW n \in 1 .. 6, Bound(t, S, n), Step(t)
  PROVE  Nearer(t, S, n)'
<1>0. /\ task[t] \in Task /\ Fits(task[t]) /\ task[t].kind \in {"create", "setup"}
      /\ task[t].at \in Doing /\ task[t].todo = S /\ Distance(task[t]) = n
  BY DEF TInv, Bound, InBackground, At
<1>h. Host(t) \in S /\ Host(t) \in Hosts
  BY <1>0, HostThere DEF At, Doing
<1>y. ASSUME NEW y, Same(y, task'[t]), y.kind = task[t].kind, y.todo = S, y.at \in Doing,
             Distance(y) < n, Distance(y) \in 1 .. 6
      PROVE  Nearer(t, S, n)'
  <2>1. Bound(t, S, Distance(y))'
    BY <1>0, <1>y DEF Bound, InBackground, At, Same, Distance
  <2>2. Distance(y) \in 1 .. n - 1
    BY <1>y
  <2> HIDE DEF Bound, Distance
  <2> QED
    BY <2>1, <2>2 DEF Nearer
<1>g. ASSUME NEW w \in {"validate", "sign", "store", "failed"}, Go(t, w),
             Distance([task[t] EXCEPT !.at = w]) < n
      PROVE  Nearer(t, S, n)'
  <2> DEFINE x == task[t]
             y == [x EXCEPT !.at = w]
  <2>1. y.at = w /\ y.kind = x.kind /\ y.todo = x.todo /\ Distance(y) \in 1 .. 6
    <3> HIDE DEF x
    <3>1. y.at = w /\ y.kind = x.kind /\ y.todo = x.todo
      BY <1>0 DEF x, Task
    <3> HIDE DEF y
    <3> QED
      BY <3>1 DEF Distance
  <2>2. task'[t] = y
    BY <1>g DEF Go, Become, TInv
  <2>3. Same(y, task'[t]) /\ y.at \in Doing
    BY <2>1, <2>2 DEF Same, Doing
  <2> HIDE DEF y
  <2> QED
    BY <1>0, <1>g, <1>y, <2>1, <2>3 DEF y
<1>d. ASSUME NEW w \in {"validate", "sign", "store", "failed"},
             \/ task[t].at = "order" /\ w \in {"validate", "sign", "failed"}
             \/ task[t].at = "validate" /\ w \in {"sign", "failed"}
             \/ task[t].at = "sign" /\ w \in {"store", "failed"}
             \/ task[t].at = "store" /\ w = "failed"
      PROVE  Distance([task[t] EXCEPT !.at = w]) < n
  <2> DEFINE x == task[t]
             y == [x EXCEPT !.at = w]
  <2>1. y.at = w
    <3> HIDE DEF x
    <3> QED
      BY <1>0 DEF x, Task
  <2> HIDE DEF y
  <2>2. Distance(y) < n
    BY <1>0, <1>d, <2>1 DEF Distance
  <2> QED
    BY <2>2 DEF y
<1>l. ASSUME NEW a \in BOOLEAN, NEW p, p # "running", Report(t, p), Become(t, NextHost(t, a)),
             task[t].kind = "setup"
      PROVE  Nearer(t, S, n)'
  <2> DEFINE x == task[t]
             left == Left(t)
             y == [x EXCEPT !.todo = left, !.abort = a, !.at = IF left = {} THEN "judge" ELSE "turn"]
  <2>1. y.todo = left
    <3> HIDE DEF x, left
    <3> QED
      BY <1>0 DEF x, Task
  <2>2. task'[t] = y
    BY <1>l DEF NextHost, Become, TInv
  <2>3. left = S \ {Host(t)}
    BY <1>0 DEF Left
  <2>4. progress'[Host(t)] = p
    BY <1>h, <1>l DEF Report, TInv, RestOK
  <2>5. task'[t].todo = S \ {Host(t)}
    BY <2>1, <2>2, <2>3
  <2> QED
    BY <1>h, <1>l, <2>4, <2>5 DEF Nearer, Reported
<1>1. CASE Turn(t)
  <2>1. task[t].at = "turn" /\ task[t].kind = "setup" /\ n = 6
    BY <1>0, <1>1 DEF Turn, At, Distance
  <2>2. CASE Report(t, "failed") /\ Become(t, NextHost(t, TRUE))
    BY <1>l, <2>1, <2>2
  <2>3. CASE Ask(t)
    <3> DEFINE x == task[t]
               y == [x EXCEPT !.at = "order"]
    <3>1. Same(y, task'[t])
      BY <2>1, <2>3, AskOK DEF At, Nowhere
    <3>2. y.at = "order" /\ y.kind = x.kind /\ y.todo = x.todo
      <4> HIDE DEF x
      <4> QED
        BY <1>0 DEF x, Task
    <3> HIDE DEF y
    <3>3. Distance(y) = 5 /\ y.at \in Doing
      BY <3>2 DEF Distance, Doing
    <3> QED
      BY <1>0, <1>y, <2>1, <3>1, <3>2, <3>3
  <2> QED
    BY <1>1, <2>2, <2>3 DEF Turn
<1>2. CASE Order(t) \/ Validate(t) \/ Issue(t)
  BY <1>2, <1>d, <1>g DEF Order, Validate, Issue, At
<1>3. CASE Refuse(t) \/ GiveUp(t)
  <2>1. Go(t, "failed") /\ At(t, {"order", "validate", "sign"})
    BY <1>0, <1>3 DEF Refuse, GiveUp, Fail, At
  <2> QED
    BY <1>d, <1>g, <2>1 DEF At
<1>4. CASE Store(t)
  <2>1. task[t].at = "store" /\ n = 2
    BY <1>0, <1>4 DEF Store, At, Distance
  <2>2. CASE Go(t, "failed")
    BY <1>d, <1>g, <2>1, <2>2
  <2>3. CASE Put(t, [task[t] EXCEPT !.at = "done"], Host(t))
    <3> DEFINE x == task[t]
               y == [x EXCEPT !.at = "done"]
    <3>1. y.at = "done" /\ y.kind = x.kind /\ y.todo = x.todo /\ y \in Task /\ y.row = x.row
      <4> HIDE DEF x
      <4> QED
        BY <1>0 DEF x, Task
    <3>2. TaskOK(y)
      BY <1>0, <2>1, <3>1 DEF TaskOK, Fits, Nowhere
    <3>3. Put(t, y, Host(t))
      BY <2>3
    <3> HIDE DEF y
    <3>4. Same(y, task'[t])
      BY <1>h, <3>2, <3>3, PutOK
    <3>5. Distance(y) = 1 /\ y.at \in Doing
      BY <3>1 DEF Distance, Doing
    <3> QED
      BY <1>0, <1>y, <2>1, <3>1, <3>4, <3>5
  <2> QED
    BY <1>4, <2>2, <2>3 DEF Store
<1>5. CASE Finish(t)
  <2>1. Report(t, task[t].at) /\ task[t].at # "running"
    BY <1>5 DEF Finish, At
  <2>2. CASE task[t].kind = "setup"
    <3> DEFINE a == task[t].abort \/ At(t, {"failed"})
    <3>1. a \in BOOLEAN /\ Become(t, NextHost(t, a))
      BY <1>5, <2>2, Zenon DEF Finish
    <3> HIDE DEF a
    <3> QED
      BY <1>l, <2>1, <2>2, <3>1
  <2>3. CASE task[t].kind # "setup"
    <3>1. task'[t] = Ended
      BY <1>5, <2>3 DEF Finish, Become, TInv
    <3>2. task'[t].todo = {}
      BY <3>1 DEF Ended, Fresh
    <3>3. S = {Host(t)}
      BY <1>0, <1>h, <2>3 DEF Fits, Nowhere, Doing
    <3>4. progress'[Host(t)] # "running"
      BY <1>h, <2>1 DEF Report, TInv, RestOK
    <3> QED
      BY <3>2, <3>3, <3>4 DEF Nearer, Reported
  <2> QED
    BY <2>2, <2>3
<1>6. ~(\/ CheckRunning(t) \/ NoteRunning(t) \/ Replace(t) \/ Survey(t) \/ Mark(t) \/ Judge(t)
        \/ SelfSign(t) \/ Complete(t) \/ NextRenewal(t) \/ DeleteRow(t) \/ CountRows(t) \/ Reset(t)
        \/ Hangup(t))
  BY <1>0 DEF CheckRunning, NoteRunning, Replace, Survey, Mark, Judge, SelfSign, Complete,
     NextRenewal, DeleteRow, CountRows, Reset, Hangup, At, Doing
<1> QED
  BY <1>1, <1>2, <1>3, <1>4, <1>5, <1>6 DEF Step

\* Whatever happens, it stays where it is or comes nearer; a restart ends it
LEMMA AnyStep ==
  ASSUME TInv, [Next]_vars, NEW t \in Tasks, NEW S, NEW n \in 1 .. 6, Bound(t, S, n)
  PROVE  Bound(t, S, n)' \/ Nearer(t, S, n)'
<1>1. CASE Step(t)
  BY <1>1, OwnStep
<1>2. CASE Restart
  <2>1. task'[t] = Ended /\ Ended.todo = {} /\ progress' = [h \in Hosts |-> "absent"]
    BY <1>2 DEF Restart, Bound, At, Doing, Ended, Fresh
  <2>2. S # {} /\ S \subseteq Hosts
    BY DEF Bound, TInv, Fits, Task, At, Doing, Nowhere
  <2> QED
    BY <2>1, <2>2 DEF Nearer, Reported
<1>3. CASE ~Step(t) /\ ~Restart
  <2>1. Same(task[t], task'[t])
    BY <1>3, OthersSame DEF Bound
  <2> QED
    BY <2>1 DEF Same, Bound, InBackground, At, Distance
<1> QED
  BY <1>1, <1>2, <1>3

LEMMA FairTasks == FairSpec => \A t \in Tasks : TaskGoesOn(t)
  BY PTL DEF FairSpec

\* A background task reports on one of its hosts after the other, for any domains, names and tasks: of
\* NobodyWaitsForever only the induction over the hosts that are left to it is not proved.  That somebody
\* can act is a hypothesis here.
THEOREM TasksGoOn == FairSpec /\ []StepsPossible => TasksGetOn
<1> SUFFICES ASSUME NEW t \in Tasks, NEW S \in SUBSET Hosts
             PROVE  FairSpec /\ []StepsPossible =>
                      ((InBackground(t) /\ At(t, Doing) /\ task[t].todo = S) ~> Reported(t, S))
  BY DEF TasksGetOn, Reported
<1> DEFINE Own == Step(t) /\ InBackground(t)
           Busy == InBackground(t) /\ At(t, Doing)
<1>1. FairSpec => [][Next]_vars /\ []TInv /\ WF_vars(Own)
  <2>1. FairSpec => TaskGoesOn(t)
    BY FairTasks
  <2>2. TaskGoesOn(t) => WF_vars(Own)
    BY PTL DEF TaskGoesOn
  <2> QED
    BY <2>1, <2>2, TypeInit, TypeStep, PTL DEF FairSpec, Spec
<1>2. StepsPossible => (Busy => ENABLED <<Own>>_vars)
  BY DEF StepsPossible
<1>3. ASSUME NEW n \in {1, 2, 3, 4, 5, 6}
      PROVE  FairSpec /\ []StepsPossible => Approaches(t, S, n)
  <2>0. n \in 1 .. 6
    OBVIOUS
  <2>1. TInv /\ Bound(t, S, n) /\ [Next]_vars => Bound(t, S, n)' \/ Nearer(t, S, n)'
    BY <2>0, AnyStep
  <2>2. TInv /\ Bound(t, S, n) /\ [Next]_vars /\ <<Own>>_vars => Nearer(t, S, n)'
    BY <2>0, OwnStep
  <2>3. Bound(t, S, n) => Busy
    BY DEF Bound
  <2> HIDE DEF Own, Busy, Bound, Nearer, FairSpec, StepsPossible, TInv
  <2> QED
    BY <1>1, <1>2, <2>1, <2>2, <2>3, PTL DEF Approaches
<1> DEFINE R == Reported(t, S)
<1>4. /\ FairSpec /\ []StepsPossible => Approaches(t, S, 1)
      /\ FairSpec /\ []StepsPossible => Approaches(t, S, 2)
      /\ FairSpec /\ []StepsPossible => Approaches(t, S, 3)
      /\ FairSpec /\ []StepsPossible => Approaches(t, S, 4)
      /\ FairSpec /\ []StepsPossible => Approaches(t, S, 5)
      /\ FairSpec /\ []StepsPossible => Approaches(t, S, 6)
  <2> HIDE DEF FairSpec, StepsPossible
  <2> QED
    BY <1>3
<1>5. /\ Nearer(t, S, 1) => R
      /\ Nearer(t, S, 2) => R \/ Bound(t, S, 1)
      /\ Nearer(t, S, 3) => R \/ Bound(t, S, 1) \/ Bound(t, S, 2)
      /\ Nearer(t, S, 4) => R \/ Bound(t, S, 1) \/ Bound(t, S, 2) \/ Bound(t, S, 3)
      /\ Nearer(t, S, 5) => R \/ Bound(t, S, 1) \/ Bound(t, S, 2) \/ Bound(t, S, 3) \/ Bound(t, S, 4)
      /\ Nearer(t, S, 6) => R \/ Bound(t, S, 1) \/ Bound(t, S, 2) \/ Bound(t, S, 3) \/ Bound(t, S, 4) \/ Bound(t, S, 5)
  <2> HIDE DEF Bound, Reported
  <2>1. /\ 1 .. 1 - 1 = {} /\ 1 .. 2 - 1 = {1} /\ 1 .. 3 - 1 = {1, 2} /\ 1 .. 4 - 1 = {1, 2, 3}
        /\ 1 .. 5 - 1 = {1, 2, 3, 4} /\ 1 .. 6 - 1 = {1, 2, 3, 4, 5}
    OBVIOUS
  <2> QED
    BY <2>1 DEF Nearer
<1>6. Busy /\ task[t].todo = S => Bound(t, S, 1) \/ Bound(t, S, 2) \/ Bound(t, S, 3) \/ Bound(t, S, 4) \/ Bound(t, S, 5) \/ Bound(t, S, 6)
  BY DEF Bound, Distance
<1> HIDE DEF Bound, R, Nearer, FairSpec, StepsPossible, Busy
<1>7. FairSpec /\ []StepsPossible => ((Busy /\ task[t].todo = S) ~> R)
  BY <1>4, <1>5, <1>6, PTL DEF Approaches
<1> QED
  BY <1>7 DEF Busy, R
=============================================================================
