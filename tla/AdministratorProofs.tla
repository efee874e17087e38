------------------------ MODULE AdministratorProofs ------------------------
(***************************************************************************)
(* Proofs about Administrators, for any users, any changes and any number  *)
(* of overlapping requests: types, when the last administrator is lost,    *)
(* and that who was signed out is.                                         *)
(***************************************************************************)
EXTENDS Administrators, FiniteSetTheorems, TLAPS

\* Requests stay requests when others overtake them
LEMMA OvertakenTyped ==
  ASSUME TypeOK, NEW r \in Requests, NEW gone, Overtake(r, gone)
  PROVE  /\ req' \in [Requests -> Request]
         /\ req'[r].at = "ended"
         /\ \A q \in Requests :
              \/ req'[q].at \notin {"look", "count", "apply"}
              \/ /\ q # r /\ req[q].target \notin gone
                 /\ req'[q] = [req[q] EXCEPT !.overtaken = TRUE]
                 /\ req'[q].at = req[q].at /\ req'[q].target = req[q].target
                 /\ req'[q].overtaken
<1>1. \A q \in Requests : req[q] \in Request
  BY DEF TypeOK
<1>2. Ended \in Request
  BY UsersAssumption DEF Ended, Unused, Keep, Request, Change, Roles
<1>3. \A q \in Requests :
        LET x == [req[q] EXCEPT !.overtaken = TRUE]
        IN  x \in Request /\ x.at = req[q].at /\ x.target = req[q].target /\ x.overtaken
  BY <1>1 DEF Request
<1>4. req' = [q \in Requests |->
        IF q = r THEN Ended
        ELSE IF req[q].at \in {"look", "count", "apply"}
        THEN IF req[q].target \in gone THEN Ended ELSE [req[q] EXCEPT !.overtaken = TRUE]
        ELSE req[q]]
  BY DEF Overtake
<1>5. Ended.at = "ended"
  BY DEF Ended, Unused
<1> QED
  BY <1>1, <1>2, <1>3, <1>4, <1>5

\* Only the request r moves
LEMMA RequestStep ==
  ASSUME TypeOK, UNCHANGED <<users, token, signedOut>>, NEW r \in Requests, NEW x \in Request,
         req' = [req EXCEPT ![r] = x],
         x.at \in {"count", "apply"} => users[x.target].there
  PROVE  TypeOK'
<1>1. req' \in [Requests -> Request]
  BY DEF TypeOK
<1>2. \A q \in Requests : req'[q] = IF q = r THEN x ELSE req[q]
  BY DEF TypeOK
<1>3. \A q \in Requests : req'[q].at \in {"count", "apply"} => users'[req'[q].target].there
  BY <1>2 DEF TypeOK
<1>4. /\ users' \in [Users -> Row] /\ token' \in [Users -> Token]
      /\ signedOut' \in [Users -> BOOLEAN] /\ users'[Default].there
  BY DEF TypeOK
<1> QED
  BY <1>1, <1>3, <1>4 DEF TypeOK

LEMMA EndTyped == Ended \in Request /\ Ended.at = "ended"
<1> QED
  BY UsersAssumption DEF Ended, Unused, Keep, Request, Change, Roles

\* A request that ends, or goes on when its target is there
LEMMA MovedStep ==
  ASSUME TypeOK, UNCHANGED <<users, token, signedOut>>, NEW r \in Requests,
         NEW where \in {"count", "apply"},
         End(r) \/ (Go(r, where) /\ users[req[r].target].there)
  PROVE  TypeOK'
<1>1. req[r] \in Request
  BY DEF TypeOK
<1>2. CASE End(r)
  BY <1>2, EndTyped, RequestStep DEF End
<1>3. CASE Go(r, where) /\ users[req[r].target].there
  <2> DEFINE x == [req[r] EXCEPT !.at = where]
  <2>1. x \in Request /\ x.target = req[r].target
    BY <1>1 DEF Request
  <2>2. req' = [req EXCEPT ![r] = x]
    BY <1>3 DEF Go, TypeOK
  <2> QED
    BY <1>3, <2>1, <2>2, RequestStep
<1> QED
  BY <1>2, <1>3
-----------------------------------------------------------------------------
\* One step keeps every variable in its type
LEMMA TypeStep == TypeOK /\ [Next]_vars => TypeOK'
<1> SUFFICES ASSUME TypeOK, [Next]_vars PROVE TypeOK'
  OBVIOUS
<1> USE UsersAssumption
<1>0. \A q \in Requests : req[q] \in Request
  BY DEF TypeOK
<1>1. ASSUME NEW u \in Users, Login(u) PROVE TypeOK'
  <2>1. users[u] \in Row
    BY DEF TypeOK
  <2>2. [held |-> TRUE, role |-> users[u].role, tv |-> users[u].tv, old |-> FALSE] \in Token
    BY <2>1 DEF Row, Token
  <2> QED
    BY <1>1, <2>2 DEF Login, TypeOK
<1>2. ASSUME NEW u \in Users, Create(u) PROVE TypeOK'
  <2>1. PICK role \in Roles : users' = [users EXCEPT ![u] = Created(role)]
    BY <1>2 DEF Create
  <2>2. Created(role) \in Row /\ Created(role).there
    BY DEF Created, Row
  <2>3. users' \in [Users -> Row] /\ \A v \in Users : users[v].there => users'[v].there
    BY <2>1, <2>2 DEF TypeOK
  <2>4. \A q \in Requests : req[q].target \in Users
    BY <1>0 DEF Request
  <2> QED
    BY <1>2, <2>3, <2>4 DEF Create, TypeOK
<1>3. ASSUME NEW r \in Requests, Admit(r) PROVE TypeOK'
  <2>1. PICK a \in Users, u \in Users, kind \in {"update", "delete"}, c \in Changes \cup {Keep} :
          /\ MayWrite(a)
          /\ kind = "delete" => c = Keep
          /\ req' = [req EXCEPT ![r] =
               [kind |-> kind, at |-> "look", actor |-> a, target |-> u, change |-> c,
                stale |-> users[a].role # "admin", overtaken |-> FALSE]]
    BY <1>3 DEF Admit
  <2> DEFINE old == users[a].role # "admin"
             x == [kind |-> kind, at |-> "look", actor |-> a, target |-> u, change |-> c,
                   stale |-> old, overtaken |-> FALSE]
  <2>5. old \in BOOLEAN
    BY Zenon
  <2>6. c \in Change
    <3>1. Keep \in Change
      BY DEF Keep, Change, Roles
    <3> QED
      BY <3>1, RequestsAssumption
  <2> HIDE DEF old
  <2>2. x \in Request /\ x.at = "look"
    BY <2>5, <2>6 DEF Request
  <2> USE DEF old
  <2> HIDE DEF x
  <2>3. req' = [req EXCEPT ![r] = x]
    BY <2>1 DEF x
  <2>4. UNCHANGED <<users, token, signedOut>>
    BY <1>3 DEF Admit
  <2> QED
    BY <2>2, <2>3, <2>4, RequestStep
<1>4. ASSUME NEW r \in Requests, Look(r) PROVE TypeOK'
  <2>1. UNCHANGED <<users, token, signedOut>>
    BY <1>4 DEF Look
  <2>2. PICK where \in {"count", "apply"} :
          End(r) \/ (Go(r, where) /\ users[req[r].target].there)
    <3>1. CASE End(r)
      BY <3>1
    <3>2. CASE ~End(r)
      <4> DEFINE where == IF req[r].kind = "delete" \/ Loses(r) THEN "count" ELSE "apply"
      <4>1. Go(r, where) /\ users[req[r].target].there
        BY <1>4, <3>2, Zenon DEF Look
      <4>2. where \in {"count", "apply"}
        OBVIOUS
      <4> HIDE DEF where
      <4> QED
        BY <4>1, <4>2
    <3> QED
      BY <3>1, <3>2
  <2> QED
    BY <2>1, <2>2, MovedStep
<1>5. ASSUME NEW r \in Requests, Count(r) \/ Drop(r) PROVE TypeOK'
  <2>1. UNCHANGED <<users, token, signedOut>>
    BY <1>5 DEF Count, Drop
  <2>2. End(r) \/ (Go(r, "apply") /\ req[r].at = "count")
    BY <1>5 DEF Count, Drop
  <2>3. req[r].at = "count" => users[req[r].target].there
    BY DEF TypeOK
  <2> QED
    BY <2>1, <2>2, <2>3, MovedStep
<1>6. ASSUME NEW r \in Requests, Update(r) PROVE TypeOK'
  <2> DEFINE u == req[r].target
             c == req[r].change
  <2>1. u \in Users /\ c \in Change
    BY <1>0 DEF Request
  <2>2. users[u] \in Row
    BY <2>1 DEF TypeOK
  <2> DEFINE role == IF c.role = "keep" THEN users[u].role ELSE c.role
             on   == IF c.enabled = "keep" THEN users[u].enabled ELSE c.enabled = "yes"
             tv   == IF Invalidates(c) THEN users[u].tv + 1 ELSE users[u].tv
             row  == [users[u] EXCEPT !.role = role, !.enabled = on, !.tv = tv]
  <2>8. users' = [users EXCEPT ![u] = row]
    BY <1>6, <2>1 DEF Update, TypeOK
  <2>12. users[u].there \in BOOLEAN /\ users[u].enabled \in BOOLEAN
    BY <2>2, Zenon DEF Row
  <2>13. role \in Roles /\ tv \in Nat
    BY <2>1, <2>2 DEF Row, Change
  <2>14. on \in BOOLEAN
    BY <2>12, Zenon
  <2> HIDE DEF role, on, tv
  <2>9. row \in Row /\ row.there = users[u].there
    BY <2>2, <2>13, <2>14 DEF Row
  <2> HIDE DEF row
  <2>3. /\ users' \in [Users -> Row]
        /\ \A v \in Users : users'[v].there = users[v].there
    BY <2>1, <2>8, <2>9 DEF TypeOK
  <2>4. signedOut' \in [Users -> BOOLEAN]
    BY <1>6, Zenon DEF Update, TypeOK
  <2>5. \A q \in Requests : req'[q].at \in {"look", "count", "apply"} =>
          req'[q].at = req[q].at /\ req'[q].target = req[q].target
    <3>1. Overtake(r, {})
      BY <1>6 DEF Update
    <3> QED
      BY <3>1, OvertakenTyped
  <2>6. \A q \in Requests : req'[q].at \in {"count", "apply"} => users'[req'[q].target].there
    <3> SUFFICES ASSUME NEW q \in Requests, req'[q].at \in {"count", "apply"}
                 PROVE  users'[req'[q].target].there
      OBVIOUS
    <3>1. req[q].at \in {"count", "apply"} /\ req'[q].target = req[q].target
      BY <2>5
    <3>2. req[q].target \in Users
      BY <1>0 DEF Request
    <3> QED
      BY <2>3, <3>1, <3>2 DEF TypeOK
  <2>7. req' \in [Requests -> Request] /\ UNCHANGED token
    BY <1>6, OvertakenTyped DEF Update
  <2>10. users'[Default].there
    BY <2>3 DEF TypeOK
  <2>11. token' \in [Users -> Token]
    BY <2>7 DEF TypeOK
  <2> QED
    BY <2>3, <2>4, <2>6, <2>7, <2>10, <2>11 DEF TypeOK
<1>7. ASSUME NEW r \in Requests, Delete(r) PROVE TypeOK'
  <2> DEFINE u == req[r].target
  <2>1. u \in Users
    BY <1>0 DEF Request
  <2>2. CASE End(r) /\ UNCHANGED <<users, token, signedOut>>
    BY <2>2, MovedStep
  <2>3. CASE /\ u # Default /\ users' = [users EXCEPT ![u] = Absent]
             /\ signedOut' = [signedOut EXCEPT ![u] = FALSE]
             /\ token' = [token EXCEPT ![u].old = TRUE] /\ Overtake(r, {u})
    <3>1. Absent \in Row
      BY DEF Absent, Row, Roles
    <3>2. users' \in [Users -> Row] /\ users'[Default].there
      BY <2>1, <2>3, <3>1 DEF TypeOK
    <3>3. token[u] \in Token
      BY <2>1 DEF TypeOK
    <3>4. [token[u] EXCEPT !.old = TRUE] \in Token
      BY <3>3 DEF Token
    <3>5. token' \in [Users -> Token] /\ signedOut' \in [Users -> BOOLEAN]
      BY <2>1, <2>3, <3>4 DEF TypeOK
    <3>6. \A q \in Requests : req'[q].at \in {"look", "count", "apply"} =>
            req'[q].at = req[q].at /\ req'[q].target = req[q].target /\ req[q].target # u
      <4>1. Overtake(r, {u})
        BY <2>3
      <4> HIDE DEF u
      <4> QED
        BY <4>1, OvertakenTyped
    <3>7. \A q \in Requests : req'[q].at \in {"count", "apply"} => users'[req'[q].target].there
      BY <1>0, <2>1, <2>3, <3>6 DEF TypeOK, Request
    <3>8. req' \in [Requests -> Request]
      BY <2>3, OvertakenTyped
    <3> QED
      BY <3>2, <3>5, <3>7, <3>8 DEF TypeOK
  <2> QED
    BY <1>7, <2>2, <2>3 DEF Delete
<1>8. CASE UNCHANGED vars
  BY <1>8 DEF vars, TypeOK
<1> QED
  BY <1>1, <1>2, <1>3, <1>4, <1>5, <1>6, <1>7, <1>8 DEF Next

LEMMA TypeInit == Init => TypeOK
<1> SUFFICES ASSUME Init PROVE TypeOK
  OBVIOUS
<1> USE UsersAssumption
<1>1. Created("admin") \in Row /\ Created("admin").there /\ Absent \in Row
  BY DEF Created, Absent, Row, Roles
<1>2. Unused \in Request /\ Unused.at = "unused"
  BY DEF Unused, Keep, Request, Change, Roles
<1>3. [held |-> FALSE, role |-> "viewer", tv |-> 0, old |-> FALSE] \in Token
  BY DEF Token, Roles
<1> QED
  BY <1>1, <1>2, <1>3 DEF Init, TypeOK

\* Every reachable state is well typed; the user of the first start stays, and nobody works on a
\* row that is gone.
THEOREM TypeCorrect == Spec => []TypeOK
<1> QED
  BY TypeInit, TypeStep, PTL DEF Spec
-----------------------------------------------------------------------------
(* Who was signed out *)

\* A token for a row that is still there is not newer than the row, and older than it once its
\* user has been signed out
Versions ==
  \A u \in Users : token[u].held /\ ~token[u].old =>
    /\ users[u].there
    /\ token[u].tv <= users[u].tv
    /\ signedOut[u] => token[u].tv < users[u].tv

LEMMA VersionsStep == TypeOK /\ Versions /\ [Next]_vars => Versions'
<1> SUFFICES ASSUME TypeOK, Versions, [Next]_vars PROVE Versions'
  OBVIOUS
<1>0. /\ \A q \in Requests : req[q] \in Request
      /\ \A v \in Users : users[v] \in Row /\ token[v] \in Token
  BY DEF TypeOK
<1>1. ASSUME NEW u \in Users, Login(u) PROVE Versions'
  <2>1. users[u].tv \in Nat
    BY <1>0 DEF Row
  <2>2. token' = [token EXCEPT ![u] =
          [held |-> TRUE, role |-> users[u].role, tv |-> users[u].tv, old |-> FALSE]]
    BY <1>1 DEF Login
  <2>3. \A v \in Users : v # u => token'[v] = token[v]
    BY <2>2 DEF TypeOK
  <2>4. token'[u].tv = users[u].tv
    BY <2>2 DEF TypeOK
  <2>5. users[u].there /\ ~signedOut'[u] /\ \A v \in Users : v # u => signedOut'[v] = signedOut[v]
    BY <1>1 DEF Login, TypeOK
  <2>6. users' = users
    BY <1>1 DEF Login
  <2> QED
    BY <2>1, <2>3, <2>4, <2>5, <2>6 DEF Versions
<1>2. ASSUME NEW u \in Users, Create(u) PROVE Versions'
  <2>1. PICK role \in Roles : users' = [users EXCEPT ![u] = Created(role)]
    BY <1>2 DEF Create
  <2>2. \A v \in Users : v # u => users'[v] = users[v]
    BY <2>1 DEF TypeOK
  <2> QED
    BY <1>2, <2>2 DEF Create, Versions
<1>3. ASSUME NEW r \in Requests, Admit(r) \/ Look(r) \/ Count(r) \/ Drop(r) PROVE Versions'
  BY <1>3 DEF Admit, Look, Count, Drop, Versions
<1>4. ASSUME NEW r \in Requests, Update(r) PROVE Versions'
  <2> DEFINE u == req[r].target
             c == req[r].change
             tv == IF Invalidates(c) THEN users[u].tv + 1 ELSE users[u].tv
  <2>1. u \in Users /\ users[u].tv \in Nat /\ token[u].tv \in Nat
    BY <1>0 DEF Request, Row, Token
  <2>2. \A v \in Users : v # u => users'[v] = users[v] /\ signedOut'[v] = signedOut[v]
    BY <1>4 DEF Update, TypeOK
  <2>3. users'[u].there = users[u].there /\ users'[u].tv = tv
    BY <1>4, <1>0, <2>1 DEF Update, TypeOK, Row
  <2>4. signedOut'[u] => signedOut[u] \/ Invalidates(c)
    BY <1>4, <2>1 DEF Update, TypeOK, Invalidates
  <2>5. token' = token
    BY <1>4 DEF Update
  <2> HIDE DEF u, c
  <2> QED
    BY <2>1, <2>2, <2>3, <2>4, <2>5 DEF Versions
<1>5. ASSUME NEW r \in Requests, Delete(r) PROVE Versions'
  <2>1. CASE UNCHANGED <<users, token, signedOut>>
    BY <2>1 DEF Versions
  <2>2. CASE ~UNCHANGED <<users, token, signedOut>>
    <3> DEFINE u == req[r].target
    <3>1. u \in Users
      BY <1>0 DEF Request
    <3>2. /\ users' = [users EXCEPT ![u] = Absent]
          /\ signedOut' = [signedOut EXCEPT ![u] = FALSE]
          /\ token' = [token EXCEPT ![u].old = TRUE]
      BY <1>5, <2>2 DEF Delete
    <3>3. \A v \in Users : v # u =>
            users'[v] = users[v] /\ signedOut'[v] = signedOut[v] /\ token'[v] = token[v]
      BY <3>1, <3>2 DEF TypeOK
    <3>4. token'[u].old
      BY <1>0, <3>1, <3>2 DEF TypeOK, Token
    <3> QED
      BY <3>3, <3>4 DEF Versions
  <2> QED
    BY <2>1, <2>2
<1>6. CASE UNCHANGED vars
  BY <1>6 DEF vars, Versions
<1> QED
  BY <1>1, <1>2, <1>3, <1>4, <1>5, <1>6 DEF Next

\* Who has been disabled or has a new password is not served on an older token, whatever else the
\* administrators write meanwhile.
THEOREM SignedOutStaysOut == Spec => []SignedOutStays
<1>1. Init => Versions
  BY DEF Init, Versions
<1>2. TypeOK /\ Versions => SignedOutStays
  <2> SUFFICES ASSUME TypeOK, Versions, NEW u \in Users, signedOut[u], ~token[u].old, Valid(u)
               PROVE  FALSE
    BY DEF SignedOutStays
  <2>1. users[u] \in Row /\ token[u] \in Token
    BY DEF TypeOK
  <2>2. users[u].tv \in Nat /\ token[u].tv \in Nat
    BY <2>1 DEF Row, Token
  <2> QED
    BY <2>2 DEF Versions, Valid
<1> QED
  BY <1>1, <1>2, TypeInit, TypeStep, VersionsStep, PTL DEF Spec
-----------------------------------------------------------------------------
(* The last administrator *)

LosesBy(x) ==
  /\ users[x.target].role = "admin"
  /\ \/ x.change.role = "viewer"
     \/ x.change.enabled = "no"
     \/ x.change.enabled = "keep" /\ ~users[x.target].enabled

\* What a request that nobody has overtaken has made sure of
Sure(x) ==
  x.at \in {"look", "count", "apply"} /\ ~x.overtaken =>
    /\ ~x.stale => IsAdmin(x.actor)
    /\ x.kind = "delete" /\ x.at # "look" => x.actor # x.target
    /\ x.kind = "update" /\ x.at = "apply" /\ LosesBy(x) =>
         \E u \in Users : IsAdmin(u) /\ u # x.target

AllSure == \A r \in Requests : Sure(req[r])

\* Where only the request r moves
LEMMA SureRequestStep ==
  ASSUME TypeOK, AllSure, users' = users, NEW r \in Requests, NEW x,
         req' = [req EXCEPT ![r] = x], Sure(x)
  PROVE  AllSure'
<1>1. \A q \in Requests : req'[q] = IF q = r THEN x ELSE req[q]
  BY DEF TypeOK
<1>2. \A q \in Requests : Sure(req'[q])
  BY <1>1 DEF AllSure
<1> QED
  BY <1>2 DEF AllSure, Sure, LosesBy, IsAdmin

\* More than one: another one
LEMMA AnotherOne ==
  ASSUME NEW t, ~(Cardinality(Admins) <= 1)
  PROVE  \E u \in Users : IsAdmin(u) /\ u # t
<1> SUFFICES ASSUME \A u \in Users : IsAdmin(u) => u = t PROVE FALSE
  OBVIOUS
<1>1. Admins \subseteq {t}
  BY DEF Admins
<1>2. IsFiniteSet({t}) /\ Cardinality({t}) = 1
  BY FS_Singleton
<1>3. Cardinality(Admins) <= 1
  BY <1>1, <1>2, FS_Subset
<1> QED
  BY <1>3

LEMMA SureStep == TypeOK /\ AllSure /\ [Next]_vars => AllSure'
<1> SUFFICES ASSUME TypeOK, AllSure, [Next]_vars PROVE AllSure'
  OBVIOUS
<1>0. \A q \in Requests : req[q] \in Request
  BY DEF TypeOK
<1>1. ASSUME NEW u \in Users, Login(u) PROVE AllSure'
  BY <1>1 DEF Login, AllSure, Sure, LosesBy, IsAdmin
<1>2. ASSUME NEW u \in Users, Create(u) PROVE AllSure'
  <2>1. PICK role \in Roles : users' = [users EXCEPT ![u] = Created(role)]
    BY <1>2 DEF Create
  <2>2. \A v \in Users : v # u => users'[v] = users[v]
    BY <2>1 DEF TypeOK
  <2>3. ~users[u].there /\ req' = req
    BY <1>2 DEF Create
  <2>4. \A v \in Users : IsAdmin(v) => IsAdmin(v)'
    BY <2>2, <2>3 DEF IsAdmin
  <2>5. ASSUME NEW q \in Requests, req[q].at = "apply" PROVE LosesBy(req[q])' = LosesBy(req[q])
    <3>1. req[q].target # u /\ req[q].target \in Users
      BY <1>0, <2>3, <2>5 DEF TypeOK, Request
    <3> QED
      BY <2>2, <2>3, <3>1 DEF LosesBy
  <2>6. \A q \in Requests : req[q].actor \in Users
    BY <1>0 DEF Request
  <2> SUFFICES ASSUME NEW q \in Requests PROVE Sure(req[q])'
    BY DEF AllSure
  <2>7. Sure(req[q])
    BY DEF AllSure
  <2> QED
    BY <2>3, <2>4, <2>5, <2>6, <2>7 DEF Sure
<1>3. ASSUME NEW r \in Requests, Admit(r) PROVE AllSure'
  <2>1. PICK a \in Users, u \in Users, kind \in {"update", "delete"}, c \in Changes \cup {Keep} :
          /\ MayWrite(a)
          /\ kind = "delete" => c = Keep
          /\ req' = [req EXCEPT ![r] =
               [kind |-> kind, at |-> "look", actor |-> a, target |-> u, change |-> c,
                stale |-> users[a].role # "admin", overtaken |-> FALSE]]
    BY <1>3 DEF Admit
  <2> DEFINE x == [kind |-> kind, at |-> "look", actor |-> a, target |-> u, change |-> c,
                   stale |-> users[a].role # "admin", overtaken |-> FALSE]
  <2>2. x.at = "look" /\ x.actor = a /\ (~x.stale => users[a].role = "admin")
    BY Zenon
  <2>3. users[a].there /\ users[a].enabled
    BY <2>1 DEF MayWrite, Valid
  <2> HIDE DEF x
  <2>4. Sure(x)
    BY <2>2, <2>3 DEF Sure, IsAdmin
  <2>5. req' = [req EXCEPT ![r] = x] /\ users' = users
    BY <1>3, <2>1 DEF Admit, x
  <2> QED
    BY <2>4, <2>5, SureRequestStep
<1>4. ASSUME NEW r \in Requests, Look(r) PROVE AllSure'
  <2>1. users' = users
    BY <1>4 DEF Look
  <2>2. CASE End(r)
    BY <2>1, <2>2, EndTyped, SureRequestStep DEF End, Sure
  <2>3. CASE ~End(r)
    <3> DEFINE where == IF req[r].kind = "delete" \/ Loses(r) THEN "count" ELSE "apply"
               x == [req[r] EXCEPT !.at = where]
    <3>1. /\ Go(r, where) /\ req[r].at = "look"
          /\ req[r].kind = "delete" => req[r].actor # req[r].target
      BY <1>4, <2>3, Zenon DEF Look
    <3>2. /\ x.at = where /\ x.kind = req[r].kind /\ x.actor = req[r].actor
          /\ x.target = req[r].target /\ x.change = req[r].change
          /\ x.overtaken = req[r].overtaken /\ x.stale = req[r].stale
      BY <1>0 DEF Request
    <3>3. /\ where = "apply" /\ x.kind = "update" => ~LosesBy(x)
          /\ where \in {"count", "apply"}
      BY <3>2 DEF Loses, LosesBy
    <3>4. req' = [req EXCEPT ![r] = x]
      BY <3>1 DEF Go, TypeOK
    <3>5. Sure(req[r])
      BY DEF AllSure
    <3> HIDE DEF x, where
    <3>6. Sure(x)
      BY <3>1, <3>2, <3>3, <3>5 DEF Sure
    <3> QED
      BY <2>1, <3>4, <3>6, SureRequestStep
  <2> QED
    BY <2>2, <2>3
<1>5. ASSUME NEW r \in Requests, Count(r) PROVE AllSure'
  <2>1. users' = users
    BY <1>5 DEF Count
  <2>2. CASE End(r)
    BY <2>1, <2>2, EndTyped, SureRequestStep DEF End, Sure
  <2>3. CASE ~End(r)
    <3> DEFINE x == [req[r] EXCEPT !.at = "apply"]
    <3>1. /\ Go(r, "apply") /\ req[r].at = "count"
          /\ req[r].kind # "delete" => ~(Cardinality(Admins) <= 1)
      BY <1>5, <2>3, Zenon DEF Count
    <3>2. /\ x.at = "apply" /\ x.kind = req[r].kind /\ x.actor = req[r].actor
          /\ x.target = req[r].target /\ x.change = req[r].change
          /\ x.overtaken = req[r].overtaken /\ x.stale = req[r].stale
      BY <1>0 DEF Request
    <3>3. x.kind = "update" => \E u \in Users : IsAdmin(u) /\ u # x.target
      BY <3>1, <3>2, AnotherOne
    <3>4. req' = [req EXCEPT ![r] = x]
      BY <3>1 DEF Go, TypeOK
    <3>5. Sure(req[r])
      BY DEF AllSure
    <3> HIDE DEF x
    <3>6. Sure(x)
      BY <3>1, <3>2, <3>3, <3>5 DEF Sure
    <3> QED
      BY <2>1, <3>4, <3>6, SureRequestStep
  <2> QED
    BY <2>2, <2>3
<1>6. ASSUME NEW r \in Requests, Drop(r) PROVE AllSure'
  BY <1>6, EndTyped, SureRequestStep DEF Drop, End, Sure
<1>7. ASSUME NEW r \in Requests, NEW gone, Overtake(r, gone) PROVE AllSure'
  <2>1. \A q \in Requests : req'[q].at \in {"look", "count", "apply"} => req'[q].overtaken
    BY <1>7, OvertakenTyped
  <2> QED
    BY <2>1 DEF AllSure, Sure
<1>8. ASSUME NEW r \in Requests, Update(r) PROVE AllSure'
  BY <1>7, <1>8 DEF Update
<1>9. ASSUME NEW r \in Requests, Delete(r) PROVE AllSure'
  <2>1. CASE End(r) /\ users' = users
    BY <2>1, EndTyped, SureRequestStep DEF End, Sure
  <2>2. CASE Overtake(r, {req[r].target})
    BY <1>7, <2>2
  <2> QED
    BY <1>9, <2>1, <2>2 DEF Delete
<1>10. CASE UNCHANGED vars
  BY <1>10 DEF vars, AllSure, Sure, LosesBy, IsAdmin
<1> QED
  BY <1>1, <1>2, <1>3, <1>4, <1>5, <1>6, <1>8, <1>9, <1>10 DEF Next

\* A step that takes the last administrator
LEMMA LastStep ==
  ASSUME TypeOK, AllSure, [Next]_vars, Admins # {}, Admins' = {}
  PROVE  \E r \in Requests : req[r].at = "apply" /\ req'[r].at = "ended"
                             /\ (req[r].overtaken \/ req[r].stale)
<1>0. \A q \in Requests : req[q] \in Request
  BY DEF TypeOK
<1>1. PICK a \in Users : IsAdmin(a)
  BY DEF Admins
<1>2. \A v \in Users : ~IsAdmin(v)'
  BY DEF Admins
<1>3. CASE users' = users
  BY <1>1, <1>2, <1>3 DEF IsAdmin
<1>4. ASSUME NEW u \in Users, Create(u) PROVE FALSE
  <2>1. users'[a] = users[a]
    BY <1>1, <1>4 DEF Create, IsAdmin, TypeOK
  <2> QED
    BY <1>1, <1>2, <2>1 DEF IsAdmin
<1>5. ASSUME NEW r \in Requests, Update(r)
      PROVE  req[r].at = "apply" /\ req'[r].at = "ended" /\ req[r].overtaken
  <2> DEFINE u == req[r].target
             c == req[r].change
  <2>1. u \in Users /\ users[u] \in Row
    BY <1>0 DEF Request, TypeOK
  <2>2. req[r].at = "apply" /\ req[r].kind = "update" /\ Overtake(r, {})
    BY <1>5 DEF Update
  <2>3. \A v \in Users : v # u => users'[v] = users[v]
    BY <1>5 DEF Update, TypeOK
  <2>4. a = u
    BY <1>1, <1>2, <2>3 DEF IsAdmin
  <2>5. /\ users'[u].there = users[u].there
        /\ users'[u].role = IF c.role = "keep" THEN users[u].role ELSE c.role
    BY <1>5, <2>1 DEF Update, TypeOK, Row
  <2>6. users'[u].enabled = IF c.enabled = "keep" THEN users[u].enabled ELSE c.enabled = "yes"
    BY <1>5, <2>1 DEF Update, TypeOK, Row
  <2>7. c \in Change
    BY <1>0 DEF Request
  <2>8. LosesBy(req[r])
    BY <1>1, <1>2, <2>1, <2>4, <2>5, <2>6, <2>7 DEF LosesBy, IsAdmin, Change, Roles
  <2>9. ASSUME NEW v \in Users, IsAdmin(v), v # u PROVE FALSE
    BY <1>2, <2>3, <2>9 DEF IsAdmin
  <2>10. Sure(req[r])
    BY DEF AllSure
  <2>11. req[r].overtaken
    BY <2>2, <2>8, <2>9, <2>10 DEF Sure
  <2> QED
    BY <2>2, <2>11, OvertakenTyped
<1>6. ASSUME NEW r \in Requests, Delete(r), users' # users
      PROVE  /\ req[r].at = "apply" /\ req'[r].at = "ended"
             /\ req[r].overtaken \/ req[r].stale
  <2> DEFINE u == req[r].target
  <2>1. /\ req[r].at = "apply" /\ req[r].kind = "delete" /\ Overtake(r, {u})
        /\ users' = [users EXCEPT ![u] = Absent]
    BY <1>6 DEF Delete
  <2>2. \A v \in Users : v # u => users'[v] = users[v]
    BY <2>1 DEF TypeOK
  <2>3. ASSUME NEW v \in Users, IsAdmin(v), v # u PROVE FALSE
    BY <1>2, <2>2, <2>3 DEF IsAdmin
  <2>4. Sure(req[r]) /\ req[r].actor \in Users
    BY <1>0 DEF AllSure, Request
  <2>5. req[r].overtaken \/ req[r].stale
    BY <2>1, <2>3, <2>4 DEF Sure
  <2>6. req'[r].at = "ended"
    BY <2>1, OvertakenTyped
  <2> QED
    BY <2>1, <2>5, <2>6
<1>7. \/ users' = users
      \/ \E u \in Users : Create(u)
      \/ \E r \in Requests : Update(r) \/ Delete(r)
  BY DEF Next, vars, Login, Admit, Look, Count, Drop
<1> QED
  BY <1>3, <1>4, <1>5, <1>6, <1>7

\* The last enabled administrator is lost only by a request that another one has overtaken, or one
\* on a token whose role was out of date, whatever the number of users and of requests.
THEOREM LastAdministratorStays == Spec => AdministratorStays
<1>1. Init => AllSure
  BY DEF Init, AllSure, Sure, Unused
<1>2. TypeOK /\ AllSure /\ [Next]_vars =>
        [Admins # {} /\ Admins' = {} =>
          \E r \in Requests : req[r].at = "apply" /\ req'[r].at = "ended"
                              /\ (req[r].overtaken \/ req[r].stale)]_vars
  BY LastStep
<1> QED
  BY <1>1, <1>2, TypeInit, TypeStep, SureStep, PTL DEF Spec, AdministratorStays
=============================================================================
