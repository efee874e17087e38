--------------------------- MODULE Administrators ---------------------------
(***************************************************************************)
(* The users of the administration (funmail-admin: api/user_routes.rs,     *)
(* api/auth_routes.rs): login, the token and its version, creation, change *)
(* and deletion of users, and the rule that one administrator stays.       *)
(*                                                                         *)
(* A change request looks at the table in several statements before it     *)
(* writes, and several requests run at the same time.  Rows have ids that  *)
(* are not used again: a request whose row has been deleted meanwhile is   *)
(* over, whatever is created later under that name.  A user holds one      *)
(* token, the last.  Logging in goes through the limits of WebmailAccess.  *)
(***************************************************************************)
EXTENDS Integers, FiniteSets

CONSTANTS
  Users,        \* names
  Default,      \* the name made at the first start: admin
  Changes,      \* what updates ask for
  MaxRequests   \* bound: requests to change or delete a user

Roles == {"admin", "viewer"}

\* "keep" for a field that is not in the request
Change == [role : Roles \cup {"keep"}, enabled : {"yes", "no", "keep"}, password : BOOLEAN]

ASSUME UsersAssumption == Default \in Users /\ IsFiniteSet(Users)
ASSUME RequestsAssumption == Changes \subseteq Change /\ MaxRequests \in Nat

Requests == 1 .. MaxRequests

VARIABLES
  users,        \* the table admin_users
  token,        \* the token that each user holds
  req,          \* the requests
  signedOut     \* history: disabled or given a new password, and not logged in since

vars == <<users, token, req, signedOut>>
----------------------------------------------------------------------------
Row == [there : BOOLEAN, role : Roles, enabled : BOOLEAN, tv : Nat]

Token ==
  [held : BOOLEAN, role : Roles, tv : Nat,
   old  : BOOLEAN]     \* history: for a row that has been deleted since

Request ==
  [kind      : {"update", "delete"},
   at        : {"unused", "look", "count", "apply", "ended"},
   actor     : Users,
   target    : Users,
   change    : Change,
   stale     : BOOLEAN,     \* history: the role in the token is not the one in the table
   overtaken : BOOLEAN]     \* history: another request has written since this one came in

TypeOK ==
  /\ users \in [Users -> Row]
  /\ token \in [Users -> Token]
  /\ req \in [Requests -> Request]
  /\ signedOut \in [Users -> BOOLEAN]
  /\ users[Default].there
  /\ \A r \in Requests : req[r].at \in {"count", "apply"} => users[req[r].target].there

Absent == [there |-> FALSE, role |-> "viewer", enabled |-> FALSE, tv |-> 0]
Created(role) == [there |-> TRUE, role |-> role, enabled |-> TRUE, tv |-> 0]

Keep == [role |-> "keep", enabled |-> "keep", password |-> FALSE]

Unused ==
  [kind |-> "update", at |-> "unused", actor |-> Default, target |-> Default, change |-> Keep,
   stale |-> FALSE, overtaken |-> FALSE]
Ended == [Unused EXCEPT !.at = "ended"]

Init ==
  /\ users = [u \in Users |-> IF u = Default THEN Created("admin") ELSE Absent]
  /\ token = [u \in Users |-> [held |-> FALSE, role |-> "viewer", tv |-> 0, old |-> FALSE]]
  /\ req = [r \in Requests |-> Unused]
  /\ signedOut = [u \in Users |-> FALSE]

IsAdmin(u) == users[u].there /\ users[u].enabled /\ users[u].role = "admin"

Admins  == {u \in Users : IsAdmin(u)}
Enabled == {u \in Users : users[u].there /\ users[u].enabled}

\* verify_admin_claims: the token of u is accepted
Valid(u) ==
  /\ token[u].held
  /\ users[u].there /\ users[u].enabled
  /\ users[u].tv = token[u].tv

\* and require_admin_role, which believes the token
MayWrite(u) == Valid(u) /\ token[u].role = "admin"

Go(r, where) == req' = [req EXCEPT ![r].at = where]
End(r) == req' = [req EXCEPT ![r] = Ended]
----------------------------------------------------------------------------
Login(u) ==
  /\ users[u].there /\ users[u].enabled
  /\ token' = [token EXCEPT ![u] =
       [held |-> TRUE, role |-> users[u].role, tv |-> users[u].tv, old |-> FALSE]]
  /\ signedOut' = [signedOut EXCEPT ![u] = FALSE]
  /\ UNCHANGED <<users, req>>

\* create_user
Create(u) ==
  /\ \E a \in Users : MayWrite(a)
  /\ ~users[u].there
  /\ \E role \in Roles : users' = [users EXCEPT ![u] = Created(role)]
  /\ UNCHANGED <<token, req, signedOut>>

\* A request to change or delete a user passes the checks of the token
Admit(r) ==
  /\ req[r].at = "unused" /\ \A q \in Requests : q < r => req[q].at # "unused"
  /\ \E a \in Users, u \in Users, kind \in {"update", "delete"}, c \in Changes \cup {Keep} :
       /\ MayWrite(a)
       /\ kind = "delete" => c = Keep
       /\ req' = [req EXCEPT ![r] =
            [kind |-> kind, at |-> "look", actor |-> a, target |-> u, change |-> c,
             stale |-> users[a].role # "admin", overtaken |-> FALSE]]
  /\ UNCHANGED <<users, token, signedOut>>

\* will_lose_admin
Loses(r) ==
  /\ users[req[r].target].role = "admin"
  /\ \/ req[r].change.role = "viewer"
     \/ req[r].change.enabled = "no"
     \/ req[r].change.enabled = "keep" /\ ~users[req[r].target].enabled

\* Who asks, and the row of the target: not there, or the own one, and it is over
Look(r) ==
  /\ req[r].at = "look"
  /\ LET self == req[r].actor = req[r].target
         ok   == /\ users[req[r].actor].there /\ users[req[r].target].there
                 /\ ~(self /\ (req[r].kind = "delete" \/ req[r].change.enabled = "no"))
     IN  IF ~ok THEN End(r)
         ELSE Go(r, IF req[r].kind = "delete" \/ Loses(r) THEN "count" ELSE "apply")
  /\ UNCHANGED <<users, token, signedOut>>

\* Mutant: there is one left when there is one
CountOne(r) ==
  /\ req[r].at = "count"
  /\ IF Cardinality(IF req[r].kind = "delete" THEN Enabled ELSE Admins) < 1 THEN End(r) ELSE Go(r, "apply")
  /\ UNCHANGED <<users, token, signedOut>>

\* The last administrator stays; for a deletion all users that are enabled count
Count(r) ==
  /\ req[r].at = "count"
  /\ IF Cardinality(IF req[r].kind = "delete" THEN Enabled ELSE Admins) <= 1 THEN End(r) ELSE Go(r, "apply")
  /\ UNCHANGED <<users, token, signedOut>>

\* Others that are on their way have been overtaken; those for a row that is gone are over
Overtake(r, gone) ==
  req' = [q \in Requests |->
    CASE q = r -> Ended
      [] q # r /\ req[q].at \in {"look", "count", "apply"} ->
           IF req[q].target \in gone THEN Ended ELSE [req[q] EXCEPT !.overtaken = TRUE]
      [] OTHER -> req[q]]

\* Mutant: only a new password makes old tokens void
InvalidatesLess(c) == c.password

\* need_invalidate
Invalidates(c) == c.password \/ c.enabled = "no"

Update(r) ==
  /\ req[r].at = "apply" /\ req[r].kind = "update"
  /\ LET c == req[r].change
         u == req[r].target
     IN  /\ users' = [users EXCEPT
               ![u].role    = IF c.role = "keep" THEN @ ELSE c.role,
               ![u].enabled = IF c.enabled = "keep" THEN @ ELSE c.enabled = "yes",
               ![u].tv      = IF Invalidates(c) THEN @ + 1 ELSE @]
         /\ signedOut' = [signedOut EXCEPT ![u] = @ \/ c.password \/ c.enabled = "no"]
  /\ Overtake(r, {})
  /\ UNCHANGED token

Delete(r) ==
  /\ req[r].at = "apply" /\ req[r].kind = "delete"
  /\ IF req[r].target = Default
     THEN End(r) /\ UNCHANGED <<users, token, signedOut>>
     ELSE /\ users' = [users EXCEPT ![req[r].target] = Absent]
          /\ signedOut' = [signedOut EXCEPT ![req[r].target] = FALSE]
          /\ token' = [token EXCEPT ![req[r].target].old = TRUE]
          /\ Overtake(r, {req[r].target})

\* An error of the database, or the end of the connection or of funmail-admin
Drop(r) ==
  /\ req[r].at \in {"look", "count", "apply"}
  /\ End(r)
  /\ UNCHANGED <<users, token, signedOut>>

Next ==
  \/ \E u \in Users : Login(u) \/ Create(u)
  \/ \E r \in Requests :
       Admit(r) \/ Look(r) \/ Count(r) \/ Update(r) \/ Delete(r) \/ Drop(r)

Spec == Init /\ [][Next]_vars
----------------------------------------------------------------------------
(* Properties *)

\* The last enabled administrator is lost only by a request that another one has overtaken since
\* it came in, or one on a token whose role was out of date: the counts in update_user and
\* delete_user, though made in a statement of their own and of different sets, suffice otherwise.
AdministratorStays ==
  [][Admins # {} /\ Admins' = {} =>
       \E r \in Requests : req[r].at = "apply" /\ req'[r].at = "ended"
                           /\ (req[r].overtaken \/ req[r].stale)]_vars

\* Who has been disabled or been given a new password is not served on an older token, also when
\* enabled again before it has expired and however the writes interleave (sql/schema.sql:191).
\* The versions of a name that is created again after a deletion start anew; tokens of the row
\* before are not covered.
SignedOutStays == \A u \in Users : signedOut[u] /\ ~token[u].old => ~Valid(u)
=============================================================================
