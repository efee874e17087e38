----------------------------- MODULE ImapProofs -----------------------------
(***************************************************************************)
(* Proofs about ImapSession, for any number of sessions and of mails: what *)
(* a client has kept under a UID stays right over all listings, as long as *)
(* mails arrive in the order of their dates and none is removed.           *)
(***************************************************************************)
EXTENDS ImapProperties, FiniteSetTheorems, FunctionTheorems, TLAPS

-----------------------------------------------------------------------------
(* Numbers of mails *)

LEMMA CountMails ==
  /\ IsFiniteSet(Mails)
  /\ \A S \in SUBSET Mails : IsFiniteSet(S) /\ Cardinality(S) \in 0 .. MaxMail
<1>1. IsFiniteSet(Mails) /\ Cardinality(Mails) = MaxMail
  BY MaxMailAssumption, FS_Interval DEF Mails
<1>2. \A S \in SUBSET Mails : IsFiniteSet(S) /\ Cardinality(S) \in Nat /\ Cardinality(S) <= MaxMail
  BY <1>1, FS_Subset, FS_CardinalityType
<1> QED
  BY <1>1, <1>2, MaxMailAssumption

LEMMA UidsAreMails ==
  ASSUME NEW L \in SUBSET Mails, NEW m \in L
  PROVE  Uid(L, m) \in 1 .. Cardinality(L) /\ Uid(L, m) \in Mails
<1> DEFINE S == {k \in L : k <= m}
<1>1. S \in SUBSET L /\ S # {}
  BY DEF Mails
<1>2. IsFiniteSet(S) /\ Cardinality(S) \in Nat /\ Cardinality(S) <= Cardinality(L)
  BY <1>1, CountMails, FS_Subset, FS_CardinalityType
<1>3. Cardinality(S) # 0
  BY <1>1, <1>2, FS_EmptySet
<1>4. Uid(L, m) = Cardinality(S)
  BY DEF Uid
<1>5. Cardinality(L) \in 0 .. MaxMail
  BY CountMails
<1> HIDE DEF S
<1> QED
  BY <1>2, <1>3, <1>4, <1>5, MaxMailAssumption DEF Mails

\* A listing has a mail under each UID up to the number of its mails: different mails have
\* different UIDs.
LEMMA UidsWithoutGap ==
  ASSUME NEW L \in SUBSET Mails, NEW v \in 1 .. Cardinality(L)
  PROVE  \E m \in L : Uid(L, m) = v
<1> DEFINE N == 1 .. Cardinality(L)
           f == [m \in L |-> Uid(L, m)]
<1>1. IsFiniteSet(L) /\ Cardinality(L) \in Nat
  BY CountMails, MaxMailAssumption
<1>2. IsFiniteSet(N) /\ Cardinality(N) = Cardinality(L)
  BY <1>1, FS_Interval
<1>3. f \in [L -> N]
  BY UidsAreMails
<1>4. ASSUME NEW a \in L, NEW b \in L, a < b PROVE f[a] # f[b]
  <2> DEFINE A == {k \in L : k <= a}
             B == {k \in L : k <= b}
  <2>0. L \subseteq Nat /\ a \in Nat /\ b \in Nat
    BY MaxMailAssumption DEF Mails
  <2>1. A \in SUBSET B /\ b \in B /\ b \notin A
    <3>1. \A k \in L : k <= a => k <= b
      BY <1>4, <2>0
    <3>2. b <= b /\ ~(b <= a)
      BY <1>4, <2>0
    <3>3. A \subseteq B
      BY <3>1
    <3> QED
      BY <3>2, <3>3
  <2>2. IsFiniteSet(B)
    BY <1>1, FS_Subset
  <2>3. f[a] = Cardinality(A) /\ f[b] = Cardinality(B)
    BY DEF Uid
  <2> HIDE DEF A, B, f
  <2>4. A # B
    BY <2>1
  <2>5. Cardinality(B) = Cardinality(A) => B = A
    BY <2>1, <2>2, FS_Subset
  <2> QED
    BY <2>3, <2>4, <2>5
<1>f. \A m \in L : f[m] = Uid(L, m)
  OBVIOUS
<1> HIDE DEF f
<1>5. \A a, b \in L : f[a] = f[b] => a = b
  BY <1>4 DEF Mails
<1>6. f \in Injection(L, N)
  BY <1>3, <1>5, Fun_IsInj
<1>7. f \in Surjection(L, N)
  BY <1>2, <1>6, FS_Injection
<1>8. \A n \in N : \E m \in L : f[m] = n
  <2> HIDE DEF N
  <2> QED
    BY <1>7, Fun_SurjectionProperties
<1> QED
  BY <1>8, <1>f
-----------------------------------------------------------------------------
(* Caches and listings *)

\* What the listing L lacks of the folder F comes after it
Prefix(L, F) == L \subseteq F /\ \A m \in L, k \in F : k <= m => k \in L

KnownIn(c) == {u \in Mails : c[u] # 0}

\* c has, under the UIDs it knows, the mails that F has there, without a gap
Serves(c, F) ==
  \A u \in KnownIn(c) : c[u] \in F /\ Uid(F, c[u]) = u /\ \A v \in 1 .. u : v \in KnownIn(c)

\* UidFetch: the cache c after the answer from the listing L
FirstUnknown(c) == IF KnownIn(c) = {} THEN 1 ELSE Max(KnownIn(c)) + 1

Answers(c, L) == {Response(L, m) : m \in InRange(L, FirstUnknown(c), Cardinality(L))}

Fetched(c, L) ==
  [u \in Mails |-> IF \E r \in Answers(c, L) : r.uid = u
                   THEN (CHOOSE r \in Answers(c, L) : r.uid = u).body ELSE c[u]]

\* The mails of a listing have the same UIDs in the folder
LEMMA PrefixUids ==
  ASSUME NEW L, NEW F, Prefix(L, F), NEW m \in L
  PROVE  Uid(L, m) = Uid(F, m)
<1>1. {k \in L : k <= m} = {k \in F : k <= m}
  BY DEF Prefix
<1> QED
  BY <1>1 DEF Uid

\* What is known of 1, 2, ... without a gap ends before the first UID that is not
LEMMA KnownUpTo ==
  ASSUME NEW c, NEW F, Serves(c, F)
  PROVE  /\ FirstUnknown(c) \in Nat \ {0}
         /\ \A u : u \in KnownIn(c) <=> u \in 1 .. FirstUnknown(c) - 1
<1> DEFINE K == KnownIn(c)
           p == Cardinality(K)
<1>1. K \subseteq Mails /\ IsFiniteSet(K) /\ p \in 0 .. MaxMail /\ p \in Nat
  BY CountMails, MaxMailAssumption DEF KnownIn
<1>2. \A u \in K : u \in Nat \ {0} /\ 1 .. u \subseteq K
  BY <1>1 DEF Serves, Mails
<1> HIDE DEF K
<1>3. \A u \in K : u <= p
  <2> SUFFICES ASSUME NEW u \in K PROVE u <= p
    OBVIOUS
  <2>1. Cardinality(1 .. u) = u
    BY <1>2, FS_Interval
  <2>2. 1 .. u \in SUBSET K
    BY <1>2
  <2> QED
    BY <1>1, <2>1, <2>2, FS_Subset
<1>4. K \in SUBSET (1 .. p)
  BY <1>1, <1>2, <1>3
<1>5. IsFiniteSet(1 .. p) /\ Cardinality(1 .. p) = p
  BY <1>1, FS_Interval
<1>6. K = 1 .. p
  BY <1>4, <1>5, FS_Subset
<1>7. CASE K = {}
  <2>1. p = 0
    BY <1>7, FS_EmptySet
  <2>2. FirstUnknown(c) = 1
    BY <1>7 DEF FirstUnknown, K
  <2> HIDE DEF p
  <2> QED
    BY <1>6, <2>1, <2>2 DEF K
<1>8. CASE K # {}
  <2>1. p \in K /\ \A u \in K : p >= u
    BY <1>1, <1>6, <1>8
  <2>2. Max(K) \in K /\ \A u \in K : Max(K) >= u
    BY <2>1 DEF Max
  <2>3. Max(K) = p
    BY <1>1, <1>6, <2>1, <2>2
  <2>4. FirstUnknown(c) = p + 1
    BY <1>8, <2>3 DEF FirstUnknown, K
  <2> HIDE DEF p
  <2> QED
    BY <1>1, <1>6, <2>4 DEF K
<1> QED
  BY <1>7, <1>8

LEMMA Ranges ==
  ASSUME NEW L \in SUBSET Mails, NEW a \in Nat, NEW b \in Nat, NEW m \in L
  PROVE  m \in InRange(L, a, b) <=>
           (a <= Uid(L, m) /\ Uid(L, m) <= b) \/ (b <= Uid(L, m) /\ Uid(L, m) <= a)
<1>1. Min({a, b}) = IF a <= b THEN a ELSE b
  BY DEF Min
<1>2. Max({a, b}) = IF a <= b THEN b ELSE a
  BY DEF Max
<1>3. Uid(L, m) \in Nat
  BY UidsAreMails, MaxMailAssumption DEF Mails
<1>4. m \in InRange(L, a, b) <=> Uid(L, m) \in Min({a, b}) .. Max({a, b})
  BY DEF InRange
<1> QED
  BY <1>1, <1>2, <1>3, <1>4

\* What is fetched are mails of the listing under their UIDs
LEMMA FetchedMails ==
  ASSUME NEW L \in SUBSET Mails, NEW c, NEW u \in Mails
  PROVE  \/ /\ Fetched(c, L)[u] \in L /\ Uid(L, Fetched(c, L)[u]) = u
            /\ Fetched(c, L)[u] \in InRange(L, FirstUnknown(c), Cardinality(L))
         \/ /\ Fetched(c, L)[u] = c[u]
            /\ \A m \in InRange(L, FirstUnknown(c), Cardinality(L)) : Uid(L, m) # u
<1> DEFINE R == InRange(L, FirstUnknown(c), Cardinality(L))
           A == Answers(c, L)
           r == CHOOSE x \in A : x.uid = u
<1>1. R \subseteq L
  BY DEF InRange
<1>2. A = {[uid |-> Uid(L, m), body |-> m] : m \in R}
  BY DEF Answers, Response
<1>3. Fetched(c, L)[u] = IF \E x \in A : x.uid = u THEN r.body ELSE c[u]
  BY DEF Fetched
<1>4. CASE \E x \in A : x.uid = u
  <2>1. r \in A /\ r.uid = u
    BY <1>4
  <2> HIDE DEF A, r, R
  <2>2. PICK m \in R : r = [uid |-> Uid(L, m), body |-> m]
    BY <1>2, <2>1
  <2>3. r.body = m /\ Uid(L, m) = u
    BY <2>1, <2>2
  <2> QED
    BY <1>1, <1>3, <1>4, <2>2, <2>3 DEF R
<1>5. CASE ~ \E x \in A : x.uid = u
  <2>1. \A m \in R : Uid(L, m) # u
    <3> SUFFICES ASSUME NEW m \in R PROVE Uid(L, m) # u
      OBVIOUS
    <3> DEFINE x == [uid |-> Uid(L, m), body |-> m]
    <3>1. x \in A /\ x.uid = Uid(L, m)
      BY <1>2
    <3> HIDE DEF A, x
    <3> QED
      BY <1>5, <3>1
  <2> QED
    BY <1>3, <1>5, <2>1
<1> QED
  BY <1>4, <1>5

LEMMA FetchedTyped ==
  ASSUME NEW L \in SUBSET Mails, NEW c \in [Mails -> 0 .. MaxMail]
  PROVE  Fetched(c, L) \in [Mails -> 0 .. MaxMail]
<1> DEFINE d == Fetched(c, L)
<1>1. \A u \in Mails : d[u] \in L \/ d[u] = c[u]
  BY FetchedMails
<1>2. L \subseteq 0 .. MaxMail
  BY MaxMailAssumption DEF Mails
<1>3. d = [u \in Mails |-> d[u]]
  BY DEF Fetched
<1> HIDE DEF d
<1>4. d \in [Mails -> 0 .. MaxMail]
  BY <1>1, <1>2, <1>3
<1> QED
  BY <1>4 DEF d

\* A cache that serves for the folder still does after an answer from an earlier listing
LEMMA FetchServes ==
  ASSUME NEW F \in SUBSET Mails, NEW L, Prefix(L, F),
         NEW c \in [Mails -> 0 .. MaxMail], Serves(c, F)
  PROVE  /\ Fetched(c, L) \in [Mails -> 0 .. MaxMail]
         /\ Serves(Fetched(c, L), F)
<1> DEFINE n == FirstUnknown(c)
           N == Cardinality(L)
           R == InRange(L, n, N)
           d == Fetched(c, L)
<1>1. L \in SUBSET Mails /\ N \in 0 .. MaxMail /\ N \in Nat
  BY CountMails, MaxMailAssumption DEF Prefix
<1>2. n \in Nat \ {0} /\ \A u : u \in KnownIn(c) <=> u \in 1 .. n - 1
  BY KnownUpTo
<1>3. \A m \in L : m \in R <=> (n <= Uid(L, m) /\ Uid(L, m) <= N) \/ (N <= Uid(L, m) /\ Uid(L, m) <= n)
  BY <1>1, <1>2, Ranges
<1>4. \A m \in L : Uid(L, m) \in 1 .. N /\ Uid(L, m) = Uid(F, m) /\ m \in Mails /\ m \in F
  BY <1>1, UidsAreMails, PrefixUids DEF Prefix
<1>5. \A u \in Mails :
        \/ d[u] \in L /\ Uid(L, d[u]) = u /\ d[u] \in R
        \/ d[u] = c[u] /\ \A m \in R : Uid(L, m) # u
  BY <1>1, FetchedMails
<1>6. d \in [Mails -> 0 .. MaxMail]
  BY <1>1, FetchedTyped
<1> HIDE DEF n, N, R, d
<1>7. \A u : u \in KnownIn(c) => u \in KnownIn(d)
  BY <1>4, <1>5, MaxMailAssumption DEF KnownIn, Mails
<1>8. \A u \in KnownIn(d) : d[u] \in F /\ Uid(F, d[u]) = u
  BY <1>4, <1>5 DEF KnownIn, Serves
<1>9. ASSUME NEW u \in KnownIn(d), NEW v \in 1 .. u
      PROVE  v \in KnownIn(d)
  <2>0. u \in Mails /\ u \in Nat /\ v \in Nat /\ v >= 1 /\ v <= u
    BY <1>9, MaxMailAssumption DEF KnownIn, Mails
  <2>1. CASE v < n
    BY <1>2, <1>7, <2>0, <2>1
  <2>2. CASE n <= v
    <3>1. u \notin KnownIn(c)
      BY <1>2, <2>0, <2>2
    <3>2. d[u] \in L /\ Uid(L, d[u]) = u
      BY <1>5, <1>9, <2>0, <3>1 DEF KnownIn
    <3>3. u <= N
      BY <1>1, <1>4, <3>2
    <3>4. v \in 1 .. N /\ v \in Mails
      BY <1>1, <2>0, <3>3, MaxMailAssumption DEF Mails
    <3>5. PICK m \in L : Uid(L, m) = v
      BY <1>1, <3>4, UidsWithoutGap DEF N
    <3>6. m \in R
      BY <1>1, <1>2, <1>3, <2>0, <2>2, <3>4, <3>5
    <3>7. d[v] \in L
      BY <1>5, <3>4, <3>5, <3>6
    <3> QED
      BY <1>4, <3>4, <3>7, MaxMailAssumption DEF KnownIn, Mails
  <2> QED
    BY <1>2, <2>0, <2>1, <2>2
<1>10. Serves(d, F)
  BY <1>8, <1>9 DEF Serves
<1> QED
  BY <1>6, <1>10 DEF d

\* A later mail changes neither: it comes after all listings, and after all that is known
LEMMA LaterMail ==
  ASSUME NEW F \in SUBSET Mails, NEW m \in Mails, \A k \in F : k < m
  PROVE  /\ \A L : Prefix(L, F) => Prefix(L, F \cup {m})
         /\ \A c : Serves(c, F) => Serves(c, F \cup {m})
<1> DEFINE G == F \cup {m}
<1>0. F \subseteq Nat /\ m \in Nat
  BY MaxMailAssumption DEF Mails
<1>1. \A k \in F : {j \in G : j <= k} = {j \in F : j <= k}
  BY <1>0
<1>2. \A k \in F : Uid(G, k) = Uid(F, k)
  BY <1>1 DEF Uid
<1>3. \A L : Prefix(L, F) => Prefix(L, G)
  BY <1>0 DEF Prefix
<1> HIDE DEF G
<1>4. F \subseteq G
  BY DEF G
<1>5. \A c : Serves(c, F) => Serves(c, G)
  BY <1>2, <1>4 DEF Serves
<1> QED
  BY <1>3, <1>5 DEF G
-----------------------------------------------------------------------------
(* What the steps change *)

FolderOK == folder \subseteq existed /\ existed \subseteq Mails /\ calm \in BOOLEAN

SessionsOK == ses \in [Sessions -> Session]

\* A session goes on as x.
LEMMA Becomes ==
  ASSUME SessionsOK, NEW s \in Sessions, NEW x \in Session, Become(s, x),
         x.listing \in {ses[s].listing, {}, folder'}
  PROVE  /\ SessionsOK'
         /\ \A t \in Sessions : ses'[t].listing \in {ses[t].listing, {}, folder'}
<1>1. \A t \in Sessions : ses'[t] = IF t = s THEN x ELSE ses[t]
  BY DEF Become, SessionsOK
<1>2. SessionsOK'
  BY DEF Become, SessionsOK
<1> QED
  BY <1>1, <1>2

LEMMA FreshTyped ==
  ASSUME NEW tls \in BOOLEAN
  PROVE  /\ Fresh(tls) \in Session /\ Fresh(tls).listing = {}
         /\ Closed \in Session /\ Closed.listing = {}
<1>1. \A b \in BOOLEAN : Fresh(b) \in Session /\ Fresh(b).listing = {}
  BY MaxMailAssumption DEF Fresh, Session
<1> DEFINE y == Fresh(FALSE)
<1>2. y \in Session /\ y.listing = {}
  BY <1>1
<1>3. Closed = [y EXCEPT !.pc = "closed"]
  BY DEF Closed
<1> HIDE DEF y
<1>4. Closed \in Session /\ Closed.listing = {}
  BY <1>2, <1>3 DEF Session
<1> QED
  BY <1>1, <1>4

\* The records that the actions make of a session
LEMMA Records ==
  ASSUME NEW y \in Session, NEW F \in SUBSET Mails, NEW e \in 0 .. MaxMail
  PROVE  /\ [y EXCEPT !.tls = TRUE, !.state = "NotAuthenticated", !.account = FALSE] \in Session
         /\ [y EXCEPT !.state = "Authenticated", !.account = TRUE, !.listing = F] \in Session
         /\ [y EXCEPT !.state = "Selected", !.selected = TRUE, !.listing = F] \in Session
         /\ [y EXCEPT !.selected = TRUE, !.listing = F] \in Session
         /\ [y EXCEPT !.listing = F] \in Session
         /\ [y EXCEPT !.state = "Authenticated", !.selected = FALSE] \in Session
         /\ [y EXCEPT !.pc = "idle", !.late = FALSE, !.typed = "nothing", !.line = "empty",
                      !.exists = e] \in Session
         /\ [y EXCEPT !.late = TRUE] \in Session
         /\ \A l \in {"empty", "half", "done", "junk"} :
              /\ [y EXCEPT !.line = l] \in Session
              /\ \A h \in {"half", "all"} : [y EXCEPT !.typed = h, !.line = l] \in Session
         /\ Back(y) \in Session
         /\ [y EXCEPT !.listing = F, !.exists = e] \in Session
         /\ \A p \in {"literal", "command"} :
              /\ [y EXCEPT !.pc = p] \in Session
              /\ [y EXCEPT !.pc = p, !.listing = F] \in Session
<1>1. /\ [y EXCEPT !.tls = TRUE, !.state = "NotAuthenticated", !.account = FALSE] \in Session
      /\ [y EXCEPT !.state = "Authenticated", !.account = TRUE, !.listing = F] \in Session
      /\ [y EXCEPT !.state = "Selected", !.selected = TRUE, !.listing = F] \in Session
  BY DEF Session
<1>2. /\ [y EXCEPT !.selected = TRUE, !.listing = F] \in Session
      /\ [y EXCEPT !.listing = F] \in Session
      /\ [y EXCEPT !.state = "Authenticated", !.selected = FALSE] \in Session
  BY DEF Session
<1>3. [y EXCEPT !.pc = "idle", !.late = FALSE, !.typed = "nothing", !.line = "empty",
                !.exists = e] \in Session
  BY DEF Session
<1>4. \A l \in {"empty", "half", "done", "junk"} :
        /\ [y EXCEPT !.line = l] \in Session
        /\ \A h \in {"half", "all"} : [y EXCEPT !.typed = h, !.line = l] \in Session
  BY DEF Session
<1>5. Back(y) \in Session
  <2>1. 0 \in 0 .. MaxMail
    BY MaxMailAssumption
  <2> DEFINE E == 0 .. MaxMail
             z == [y EXCEPT !.pc = "command", !.exists = 0, !.late = FALSE, !.typed = "nothing",
                            !.line = "empty"]
  <2>2. z = Back(y)
    BY DEF Back
  <2>3. Session = [pc       : {"closed", "command", "idle", "literal"},
                   tls      : BOOLEAN,
                   state    : {"NotAuthenticated", "Authenticated", "Selected"},
                   account  : BOOLEAN,
                   selected : BOOLEAN,
                   listing  : SUBSET Mails,
                   exists   : E,
                   late     : BOOLEAN,
                   typed    : {"nothing", "half", "all"},
                   line     : {"empty", "half", "done", "junk"}]
    BY DEF Session
  <2> HIDE DEF E
  <2>4. z \in Session
    BY <2>1, <2>3 DEF E
  <2> QED
    BY <2>2, <2>4
<1>6. [y EXCEPT !.late = TRUE] \in Session /\ [y EXCEPT !.listing = F, !.exists = e] \in Session
  BY DEF Session
<1>7. \A p \in {"literal", "command"} :
        /\ [y EXCEPT !.pc = p] \in Session
        /\ [y EXCEPT !.pc = p, !.listing = F] \in Session
  BY DEF Session
<1> QED
  BY <1>1, <1>2, <1>3, <1>4, <1>5, <1>6, <1>7

LEMMA Listings ==
  ASSUME NEW y \in Session, NEW F, NEW e
  PROVE  /\ [y EXCEPT !.tls = TRUE, !.state = "NotAuthenticated", !.account = FALSE].listing = y.listing
         /\ [y EXCEPT !.state = "Authenticated", !.account = TRUE, !.listing = F].listing = F
         /\ [y EXCEPT !.state = "Selected", !.selected = TRUE, !.listing = F].listing = F
         /\ [y EXCEPT !.selected = TRUE, !.listing = F].listing = F
         /\ [y EXCEPT !.listing = F].listing = F
         /\ [y EXCEPT !.state = "Authenticated", !.selected = FALSE].listing = y.listing
         /\ [y EXCEPT !.pc = "idle", !.late = FALSE, !.typed = "nothing", !.line = "empty",
                      !.exists = e].listing = y.listing
         /\ [y EXCEPT !.late = TRUE].listing = y.listing
         /\ \A l : /\ [y EXCEPT !.line = l].listing = y.listing
                   /\ \A h : [y EXCEPT !.typed = h, !.line = l].listing = y.listing
         /\ Back(y).listing = y.listing
         /\ [y EXCEPT !.listing = F, !.exists = e].listing = F
         /\ \A p : /\ [y EXCEPT !.pc = p].listing = y.listing
                   /\ [y EXCEPT !.pc = p, !.listing = F].listing = F
  BY DEF Session, Back

\* Steps that leave the folder alone, and those that a mail may arrive in
LEMMA FolderStep ==
  ASSUME FolderOK, [Next]_vars
  PROVE  /\ FolderOK'
         /\ folder' \in SUBSET Mails
         /\ \/ UNCHANGED maildir
            \/ ~calm'
            \/ /\ calm' = calm /\ cache' = cache
               /\ \E m \in Mails : folder' = folder \cup {m} /\ \A k \in folder : k < m
<1>0. folder \in SUBSET Mails
  BY DEF FolderOK
<1>u. ASSUME UNCHANGED maildir
      PROVE  FolderOK' /\ folder' \in SUBSET Mails
  BY <1>0, <1>u DEF FolderOK, maildir
<1>a. ASSUME NEW m \in Mails, Arrives(m), cache' = cache
      PROVE  /\ FolderOK' /\ folder' \in SUBSET Mails
             /\ \/ ~calm'
                \/ /\ calm' = calm /\ cache' = cache
                   /\ \E k \in Mails : folder' = folder \cup {k} /\ \A j \in folder : j < k
  <2> DEFINE b == calm /\ \A k \in existed : k < m
  <2>1. b \in BOOLEAN
    BY Zenon DEF b
  <2>2. calm' = b
    BY <1>a DEF Arrives
  <2>3. b => calm = TRUE /\ \A k \in existed : k < m
    BY DEF FolderOK
  <2>4. folder' = folder \cup {m} /\ existed' = existed \cup {m}
    BY <1>a DEF Arrives
  <2> HIDE DEF b
  <2>5. FolderOK'
    BY <2>1, <2>2, <2>4 DEF FolderOK
  <2>6. CASE b
    <3>1. calm' = calm
      BY <2>1, <2>2, <2>3, <2>6
    <3> QED
      BY <1>a, <2>3, <2>4, <2>5, <2>6, <3>1, <1>0 DEF FolderOK
  <2>7. CASE ~b
    BY <1>0, <2>2, <2>4, <2>5, <2>7
  <2> QED
    BY <2>6, <2>7
<1>1. CASE \E s \in Sessions :
             \/ Connect(s) \/ Leave(s) \/ StartTls(s) \/ Login(s) \/ Authenticate(s)
             \/ Select(s) \/ Examine(s) \/ Reload(s) \/ CloseFolder(s) \/ UidFetch(s)
             \/ Idle(s) \/ Type(s) \/ Expire(s) \/ Hear(s) \/ Waited(s) \/ Append(s)
  BY <1>1, <1>u DEF Connect, Leave, StartTls, Login, Authenticate, Select, Examine, Reload,
       CloseFolder, UidFetch, Idle, Type, Expire, Hear, Waited, Append, Ready
<1>2. CASE \E s \in Sessions : Literal(s)
  <2>1. cache' = cache /\ ((\E m \in Mails : Arrives(m)) \/ UNCHANGED maildir)
    BY <1>2 DEF Literal
  <2> QED
    BY <1>a, <1>u, <2>1
<1>3. CASE \E m \in Mails : Deliver(m)
  BY <1>3, <1>a DEF Deliver
<1>4. CASE \E m \in Mails : Remove(m)
  BY <1>0, <1>4 DEF Remove, FolderOK
<1>5. CASE Restart \/ UNCHANGED vars
  BY <1>5, <1>u DEF Restart, vars, maildir
<1> QED
  BY <1>1, <1>2, <1>3, <1>4, <1>5 DEF Next, Work, IdleRound

LEMMA CountFolder ==
  ASSUME NEW L \in SUBSET Mails
  PROVE  Cardinality(L) \in 0 .. MaxMail /\ 0 \in 0 .. MaxMail
  BY CountMails, MaxMailAssumption

\* Whatever a session does, its listing stays, goes, or is that of the folder as it is now
LEMMA WorkStep ==
  ASSUME SessionsOK, folder \in SUBSET Mails, folder' \in SUBSET Mails, NEW s \in Sessions, Work(s)
  PROVE  /\ SessionsOK'
         /\ \A t \in Sessions : ses'[t].listing \in {ses[t].listing, {}, folder'}
<1> DEFINE y == ses[s]
           Done == /\ SessionsOK'
                   /\ \A t \in Sessions : ses'[t].listing \in {ses[t].listing, {}, folder'}
<1>0. y \in Session /\ y.listing \in SUBSET Mails
  BY DEF SessionsOK, Session
<1>b. ASSUME NEW x \in Session, Become(s, x), x.listing \in {y.listing, {}, folder'}
      PROVE  Done
  BY <1>b, Becomes
<1>c. ASSUME Become(s, Closed)
      PROVE  Done
  BY <1>b, <1>c, FreshTyped
<1>f. ASSUME UNCHANGED maildir
      PROVE  folder' = folder
  BY <1>f DEF maildir
<1>F. Found(s) \in SUBSET Mails /\ Found(s) \in {{}, folder}
  BY DEF Found
<1>n. Cardinality(Found(s)) \in 0 .. MaxMail /\ Cardinality(y.listing) \in 0 .. MaxMail /\ 0 \in 0 .. MaxMail
  BY <1>0, <1>F, CountFolder
<1> SUFFICES Done
  OBVIOUS
<1> HIDE DEF Done
<1>1. CASE Connect(s)
  BY <1>1, <1>b, FreshTyped DEF Connect
<1>2. CASE Leave(s)
  BY <1>2, <1>c DEF Leave
<1>3. CASE StartTls(s)
  <2> DEFINE x == [y EXCEPT !.tls = TRUE, !.state = "NotAuthenticated", !.account = FALSE]
  <2>1. Become(s, x) \/ Become(s, Closed)
    BY <1>3 DEF StartTls
  <2>2. x \in Session /\ x.listing = y.listing
    BY <1>0, <1>n, Records, Listings
  <2> HIDE DEF x, y
  <2> QED
    BY <1>b, <1>c, <2>1, <2>2
<1>4. CASE Login(s) \/ Authenticate(s)
  <2> DEFINE x == [y EXCEPT !.state = "Authenticated", !.account = TRUE, !.listing = folder]
  <2>1. Become(s, x) /\ folder' = folder
    BY <1>4, <1>f DEF Login, Authenticate, Ready
  <2>2. x \in Session /\ x.listing = folder
    BY <1>0, <1>n, Records, Listings
  <2> HIDE DEF x, y
  <2> QED
    BY <1>b, <2>1, <2>2
<1>5. CASE Select(s)
  <2> DEFINE x == [y EXCEPT !.state = "Selected", !.selected = TRUE, !.listing = Found(s)]
  <2>1. Become(s, x) /\ folder' = folder
    BY <1>5, <1>f DEF Select, Ready
  <2>2. x \in Session /\ x.listing = Found(s)
    BY <1>0, <1>F, <1>n, Records, Listings
  <2> HIDE DEF x, y
  <2> QED
    BY <1>b, <1>F, <2>1, <2>2
<1>6. CASE Examine(s)
  <2> DEFINE x == [y EXCEPT !.selected = TRUE, !.listing = Found(s)]
  <2>1. Become(s, x) /\ folder' = folder
    BY <1>6, <1>f DEF Examine, Ready
  <2>2. x \in Session /\ x.listing = Found(s)
    BY <1>0, <1>F, <1>n, Records, Listings
  <2> HIDE DEF x, y
  <2> QED
    BY <1>b, <1>F, <2>1, <2>2
<1>7. CASE Reload(s)
  <2> DEFINE x == [y EXCEPT !.listing = Found(s)]
  <2>1. Become(s, x) /\ folder' = folder
    BY <1>7, <1>f DEF Reload, Ready
  <2>2. x \in Session /\ x.listing = Found(s)
    BY <1>0, <1>F, <1>n, Records, Listings
  <2> HIDE DEF x, y
  <2> QED
    BY <1>b, <1>F, <2>1, <2>2
<1>8. CASE CloseFolder(s)
  <2> DEFINE x == [y EXCEPT !.state = "Authenticated", !.selected = FALSE]
  <2>1. Become(s, x)
    BY <1>8 DEF CloseFolder
  <2>2. x \in Session /\ x.listing = y.listing
    BY <1>0, <1>n, Records, Listings
  <2> HIDE DEF x, y
  <2> QED
    BY <1>b, <2>1, <2>2
<1>9. CASE UidFetch(s)
  BY <1>9 DEF UidFetch, SessionsOK, Done
<1>10. CASE Idle(s)
  <2> DEFINE e == IF y.selected THEN Cardinality(y.listing) ELSE 0
             x == [y EXCEPT !.pc = "idle", !.late = FALSE, !.typed = "nothing", !.line = "empty",
                            !.exists = e]
  <2>0. e \in 0 .. MaxMail
    BY <1>n
  <2>1. Become(s, x)
    BY <1>10 DEF Idle
  <2> HIDE DEF e
  <2>2. x \in Session /\ x.listing = y.listing
    BY <1>0, <2>0, Records, Listings
  <2> HIDE DEF x, y
  <2> QED
    BY <1>b, <2>1, <2>2
<1>11. CASE Type(s)
  <2>1. PICK h \in {"half", "all"}, l \in {"empty", "half", "done", "junk"} :
          Become(s, [y EXCEPT !.typed = h, !.line = l])
    <3>1. \/ Become(s, [y EXCEPT !.typed = "all", !.line = "done"])
          \/ Become(s, [y EXCEPT !.typed = "half", !.line = "half"])
          \/ Become(s, [y EXCEPT !.typed = "all", !.line = IF y.line = "half" THEN "done" ELSE "junk"])
      BY <1>11 DEF Type
    <3>2. (IF y.line = "half" THEN "done" ELSE "junk") \in {"done", "junk"}
      OBVIOUS
    <3> HIDE DEF y
    <3> QED
      BY <3>1, <3>2, Zenon
  <2> DEFINE x == [y EXCEPT !.typed = h, !.line = l]
  <2>2. x \in Session /\ x.listing = y.listing
    <3> HIDE DEF y
    <3> QED
      BY <1>0 DEF Session
  <2>3. Become(s, x)
    BY <2>1
  <2> HIDE DEF x, y
  <2> QED
    BY <1>b, <2>2, <2>3
<1>12. CASE Expire(s)
  <2> DEFINE x == [y EXCEPT !.late = TRUE]
  <2>1. Become(s, x)
    BY <1>12 DEF Expire
  <2>2. x \in Session /\ x.listing = y.listing
    BY <1>0, <1>n, Records, Listings
  <2> HIDE DEF x, y
  <2> QED
    BY <1>b, <2>1, <2>2
<1>13. CASE Hear(s)
  <2> DEFINE x == [y EXCEPT !.line = "empty"]
  <2>1. Become(s, x) \/ Become(s, Back(y))
    BY <1>13 DEF Hear
  <2>2. x \in Session /\ x.listing = y.listing /\ Back(y) \in Session /\ Back(y).listing = y.listing
    BY <1>0, <1>n, Records, Listings
  <2> HIDE DEF x, y
  <2> QED
    BY <1>b, <2>1, <2>2
<1>14. CASE Waited(s)
  <2> DEFINE x == [y EXCEPT !.line = "empty"]
             now == Cardinality(Found(s))
  <2>1. /\ folder' = folder
        /\ \/ Become(s, Back(x))
           \/ Become(s, [x EXCEPT !.listing = Found(s), !.exists = now])
           \/ Become(s, [x EXCEPT !.listing = Found(s)])
    BY <1>14, <1>f DEF Waited
  <2>2. x \in Session /\ x.listing = y.listing
    BY <1>0, <1>n, Records, Listings
  <2>3. now \in 0 .. MaxMail
    BY <1>n
  <2> HIDE DEF x, y, now
  <2>4. /\ Back(x) \in Session /\ Back(x).listing = x.listing
        /\ [x EXCEPT !.listing = Found(s), !.exists = now] \in Session
        /\ [x EXCEPT !.listing = Found(s)] \in Session
        /\ [x EXCEPT !.listing = Found(s), !.exists = now].listing = Found(s)
        /\ [x EXCEPT !.listing = Found(s)].listing = Found(s)
    <3>1. Back(x) \in Session /\ Back(x).listing = x.listing
      BY <2>2, <2>3, Records, Listings
    <3>2. /\ [x EXCEPT !.listing = Found(s), !.exists = now] \in Session
          /\ [x EXCEPT !.listing = Found(s)] \in Session
      BY <1>F, <2>2, <2>3, Records
    <3>3. /\ [x EXCEPT !.listing = Found(s), !.exists = now].listing = Found(s)
          /\ [x EXCEPT !.listing = Found(s)].listing = Found(s)
      BY <2>2, Listings
    <3> QED
      BY <3>1, <3>2, <3>3
  <2>5. CASE Become(s, Back(x))
    BY <1>b, <2>2, <2>4, <2>5
  <2>6. CASE Become(s, [x EXCEPT !.listing = Found(s), !.exists = now])
    BY <1>b, <1>F, <2>1, <2>4, <2>6
  <2>7. CASE Become(s, [x EXCEPT !.listing = Found(s)])
    BY <1>b, <1>F, <2>1, <2>4, <2>7
  <2> QED
    BY <2>1, <2>5, <2>6, <2>7
<1>15. CASE Append(s)
  <2> DEFINE x == [y EXCEPT !.pc = "literal"]
  <2>1. Become(s, x)
    BY <1>15 DEF Append
  <2>2. x \in Session /\ x.listing = y.listing
    BY <1>0, <1>n, Records, Listings
  <2> HIDE DEF x, y
  <2> QED
    BY <1>b, <2>1, <2>2
<1>16. CASE Literal(s)
  <2> DEFINE x == [y EXCEPT !.pc = "command"]
             G == folder'
             z == [y EXCEPT !.pc = "command", !.listing = G]
  <2>1. Become(s, z) \/ Become(s, Closed) \/ Become(s, x)
    BY <1>16 DEF Literal
  <2>0. G \in SUBSET Mails /\ G = folder'
    OBVIOUS
  <2> HIDE DEF G
  <2>2. x \in Session /\ x.listing = y.listing /\ z \in Session /\ z.listing = G
    <3> HIDE DEF y
    <3> QED
      BY <1>0, <2>0 DEF Session
  <2> HIDE DEF x, y, z
  <2> QED
    BY <1>b, <1>c, <2>0, <2>1, <2>2
<1> QED
  BY <1>1, <1>2, <1>3, <1>4, <1>5, <1>6, <1>7, <1>8, <1>9, <1>10, <1>11, <1>12, <1>13, <1>14,
     <1>15, <1>16 DEF Work, IdleRound
-----------------------------------------------------------------------------
(* Caches *)

CachesOK == cache \in [Sessions -> [Mails -> 0 .. MaxMail]]

\* In calm times all listings are beginnings of the folder, and all caches serve for it
UidInv ==
  /\ FolderOK /\ SessionsOK /\ CachesOK
  /\ calm => \A s \in Sessions : Prefix(ses[s].listing, folder) /\ Serves(cache[s], folder)

LEMMA SessionsStep ==
  ASSUME FolderOK, SessionsOK, [Next]_vars
  PROVE  /\ SessionsOK'
         /\ \A t \in Sessions : ses'[t].listing \in {ses[t].listing, {}, folder'}
<1>0. folder \in SUBSET Mails /\ folder' \in SUBSET Mails
  BY FolderStep DEF FolderOK
<1>1. CASE \E s \in Sessions : Work(s)
  BY <1>0, <1>1, WorkStep
<1>2. CASE \E m \in Mails : Deliver(m) \/ Remove(m)
  BY <1>2 DEF Deliver, Remove, SessionsOK
<1>3. CASE Restart
  BY <1>3, FreshTyped DEF Restart, SessionsOK
<1>4. CASE UNCHANGED vars
  BY <1>4 DEF vars, SessionsOK
<1> QED
  BY <1>1, <1>2, <1>3, <1>4 DEF Next

\* A client changes its cache only by fetching, which leaves the folder alone
LEMMA CacheStep ==
  ASSUME [Next]_vars
  PROVE  \/ cache' = cache
         \/ /\ folder' = folder /\ calm' = calm
            /\ \E s \in Sessions :
                 cache' = [cache EXCEPT ![s] = Fetched(cache[s], ses[s].listing)]
<1>1. CASE \E s \in Sessions : UidFetch(s)
  <2>1. PICK s \in Sessions : UidFetch(s)
    BY <1>1
  <2>2. cache' = [cache EXCEPT ![s] = Fetched(cache[s], ses[s].listing)]
    BY <2>1 DEF UidFetch, Fetched, Answers, FirstUnknown, KnownIn, Known
  <2> QED
    BY <2>1, <2>2 DEF UidFetch, maildir
<1>2. CASE \E s \in Sessions : Work(s) /\ ~UidFetch(s)
  BY <1>2 DEF Work, IdleRound, Connect, Leave, StartTls, Login, Authenticate, Select, Examine, Reload,
       CloseFolder, Idle, Type, Expire, Hear, Waited, Append, Literal, Ready
<1>3. CASE \E m \in Mails : Deliver(m) \/ Remove(m)
  BY <1>3 DEF Deliver, Remove
<1>4. CASE Restart \/ UNCHANGED vars
  BY <1>4 DEF Restart, vars
<1> QED
  BY <1>1, <1>2, <1>3, <1>4 DEF Next

\* What the invariant says of one cache carries over to the next folder
LEMMA UidStep ==
  ASSUME UidInv, [Next]_vars
  PROVE  UidInv'
<1>0. FolderOK /\ SessionsOK /\ CachesOK /\ folder \in SUBSET Mails
  BY DEF UidInv, FolderOK
<1>1. FolderOK' /\ SessionsOK'
  BY <1>0, FolderStep, SessionsStep
<1>2. \A t \in Sessions : ses'[t].listing \in {ses[t].listing, {}, folder'}
  BY <1>0, SessionsStep
<1>p. \A F : Prefix({}, F) /\ Prefix(F, F)
  BY DEF Prefix
<1>f. ASSUME NEW s \in Sessions, cache' = [cache EXCEPT ![s] = Fetched(cache[s], ses[s].listing)],
             calm
      PROVE  CachesOK' /\ \A t \in Sessions : Serves(cache'[t], folder)
  <2>1. \A t \in Sessions : cache'[t] = IF t = s THEN Fetched(cache[s], ses[s].listing) ELSE cache[t]
    BY <1>0, <1>f DEF CachesOK
  <2>2. cache[s] \in [Mails -> 0 .. MaxMail] /\ Prefix(ses[s].listing, folder) /\ Serves(cache[s], folder)
    BY <1>0, <1>f DEF CachesOK, UidInv
  <2>3. /\ Fetched(cache[s], ses[s].listing) \in [Mails -> 0 .. MaxMail]
        /\ Serves(Fetched(cache[s], ses[s].listing), folder)
    BY <1>0, <2>2, FetchServes
  <2>4. CachesOK'
    BY <1>0, <1>f, <2>3 DEF CachesOK
  <2> QED
    BY <1>f, <2>1, <2>3, <2>4 DEF UidInv
<1>3. CachesOK'
  <2>1. CASE cache' = cache
    BY <1>0, <2>1 DEF CachesOK
  <2>2. CASE \E s \in Sessions : cache' = [cache EXCEPT ![s] = Fetched(cache[s], ses[s].listing)]
    <3>1. PICK s \in Sessions : cache' = [cache EXCEPT ![s] = Fetched(cache[s], ses[s].listing)]
      BY <2>2
    <3>2. ses[s].listing \in SUBSET Mails /\ cache[s] \in [Mails -> 0 .. MaxMail]
      BY <1>0 DEF SessionsOK, Session, CachesOK
    <3>3. Fetched(cache[s], ses[s].listing) \in [Mails -> 0 .. MaxMail]
      BY <3>2, FetchedTyped
    <3> QED
      BY <1>0, <3>1, <3>3 DEF CachesOK
  <2> QED
    BY <2>1, <2>2, CacheStep
<1>4. ASSUME calm', NEW t \in Sessions
      PROVE  Prefix(ses'[t].listing, folder') /\ Serves(cache'[t], folder')
  <2>1. CASE UNCHANGED maildir
    <3>1. calm /\ folder' = folder
      BY <1>4, <2>1 DEF maildir
    <3>2. Prefix(ses'[t].listing, folder')
      BY <1>2, <1>p, <3>1 DEF UidInv
    <3> QED
      BY <1>f, <3>1, <3>2, CacheStep DEF UidInv
  <2>2. CASE /\ calm' = calm /\ cache' = cache
             /\ \E m \in Mails : folder' = folder \cup {m} /\ \A k \in folder : k < m
    <3>1. PICK m \in Mails : folder' = folder \cup {m} /\ \A k \in folder : k < m
      BY <2>2
    <3>2. Prefix(ses[t].listing, folder) /\ Serves(cache[t], folder)
      BY <1>4, <2>2 DEF UidInv
    <3>3. Prefix(ses[t].listing, folder') /\ Serves(cache[t], folder')
      BY <1>0, <3>1, <3>2, LaterMail
    <3> QED
      BY <1>2, <1>p, <2>2, <3>3
  <2> QED
    BY <1>0, <1>4, <2>1, <2>2, FolderStep
<1> QED
  BY <1>1, <1>3, <1>4 DEF UidInv

LEMMA UidInit == Init => UidInv
<1> SUFFICES ASSUME Init PROVE UidInv
  OBVIOUS
<1>0. FolderOK
  BY DEF Init, FolderOK
<1>1. Closed \in Session
  BY FreshTyped
<1>4. SessionsOK
  BY <1>1 DEF Init, SessionsOK
<1>5. CachesOK
  BY MaxMailAssumption DEF Init, CachesOK
<1>2. \A s \in Sessions : Prefix(ses[s].listing, folder)
  BY FreshTyped DEF Init, Prefix
<1>3. \A s \in Sessions : Serves(cache[s], folder)
  BY DEF Init, Serves, KnownIn
<1> QED
  BY <1>0, <1>2, <1>3, <1>4, <1>5 DEF UidInv

\* Every reachable state is well typed: no listing names a mail that has not arrived, and no
\* number that IDLE remembers is more than there can be.
THEOREM TypeCorrect == Spec => []TypeOK
<1>1. UidInv => TypeOK
  BY DEF UidInv, FolderOK, SessionsOK, CachesOK, TypeOK
<1> QED
  BY <1>1, UidInit, UidStep, PTL DEF Spec

\* For any number of sessions and mails: as long as mails arrive in the order of their dates and
\* none is removed, every mail a client has kept is the one the folder has under that UID.
THEOREM CachedUidsAreHeld == Spec => []CachedUidsHold
<1>1. UidInv => CachedUidsHold
  BY DEF UidInv, Serves, KnownIn, Known, CachedUidsHold
<1> QED
  BY <1>1, UidInit, UidStep, PTL DEF Spec
-----------------------------------------------------------------------------
(* IDLE ends, and tells of new mails *)

\* A whole line is there only when the client has typed all
LineInv == \A s \in Sessions : ses[s].pc = "idle" /\ ses[s].line \in {"done", "junk"} => ses[s].typed = "all"

IdleInv == UidInv /\ LineInv

LEMMA BecomesThat ==
  ASSUME SessionsOK, NEW s \in Sessions, NEW x, Become(s, x)
  PROVE  \A t \in Sessions : ses'[t] = IF t = s THEN x ELSE ses[t]
  BY DEF Become, SessionsOK

LEMMA BackIsOut ==
  ASSUME NEW y \in Session
  PROVE  Back(y).pc = "command" /\ Fresh(TRUE).pc = "command" /\ Fresh(FALSE).pc = "command"
         /\ Closed.pc = "closed"
  BY DEF Back, Fresh, Closed, Session

\* A round of the loop: it ends, loses a line it does not know, or tells what is new
LEMMA RoundStep ==
  ASSUME SessionsOK, folder \in SUBSET Mails, NEW s \in Sessions, IdleRound(s)
  PROVE  /\ ses[s].late \/ ses[s].line = "done" => ses'[s].pc # "idle"
         /\ ~ses[s].late /\ ses[s].line = "junk" =>
              ses'[s] = [ses[s] EXCEPT !.line = "empty"]
         /\ ~ses[s].late /\ ses[s].line \notin {"done", "junk"} =>
              /\ ~Unannounced(s)'
              /\ \E F \in SUBSET Mails, e \in 0 .. MaxMail :
                   ses'[s] = [ses[s] EXCEPT !.line = "empty", !.listing = F, !.exists = e]
<1> DEFINE y == ses[s]
<1>0. y \in Session /\ Cardinality(Found(s)) \in 0 .. MaxMail
      /\ Found(s) \in SUBSET Mails
  BY CountFolder DEF SessionsOK, Found
<1>1. CASE Hear(s)
  <2>1. /\ y.line \in {"done", "junk"}
        /\ Become(s, IF y.late \/ y.line = "done" THEN Back(y) ELSE [y EXCEPT !.line = "empty"])
    BY <1>1 DEF Hear
  <2> HIDE DEF y
  <2> QED
    BY <1>0, <2>1, BecomesThat, BackIsOut DEF y
<1>2. CASE Waited(s)
  <2> DEFINE x == [y EXCEPT !.line = "empty"]
             now == Cardinality(Found(s))
             z == IF x.late THEN Back(x)
                  ELSE IF x.selected /\ now > x.exists
                       THEN [x EXCEPT !.listing = Found(s), !.exists = now]
                       ELSE [x EXCEPT !.listing = Found(s)]
  <2>1. y.line \in {"empty", "half"} /\ Become(s, z) /\ folder' = folder
    BY <1>2 DEF Waited, maildir
  <2>2. ses'[s] = z
    BY <2>1, BecomesThat
  <2> HIDE DEF y
  <2>3. x \in Session /\ x.late = y.late /\ x.exists = y.exists /\ y.exists \in 0 .. MaxMail
    BY <1>0 DEF Session
  <2>4. CASE y.late
    BY <2>1, <2>2, <2>3, <2>4, BackIsOut DEF y
  <2>5. CASE ~y.late
    <3>1. \E e \in 0 .. MaxMail :
            /\ z = [y EXCEPT !.line = "empty", !.listing = Found(s), !.exists = e]
            /\ z.selected => ~(now > e)
            /\ z.exists = e
      <4>1. CASE x.selected /\ now > x.exists
        <5>1. z = [y EXCEPT !.line = "empty", !.listing = Found(s), !.exists = now]
          BY <1>0, <2>3, <2>5, <4>1 DEF Session
        <5>2. z.exists = now
          BY <1>0, <5>1 DEF Session
        <5>3. now \in 0 .. MaxMail /\ ~(now > now)
          BY <1>0
        <5> HIDE DEF z, now
        <5> QED
          BY <5>1, <5>2, <5>3
      <4>2. CASE ~(x.selected /\ now > x.exists)
        <5>1. z = [y EXCEPT !.line = "empty", !.listing = Found(s), !.exists = y.exists]
              /\ z.exists = y.exists /\ z.selected = x.selected
          BY <1>0, <2>3, <2>5, <4>2 DEF Session
        <5> HIDE DEF z, x
        <5> QED
          BY <1>0, <2>3, <4>2, <5>1
      <4> QED
        BY <4>1, <4>2
    <3> HIDE DEF z, x
    <3>2. ~Unannounced(s)'
      <4>1. z.account = y.account
        BY <1>0, <3>1 DEF Session
      <4>2. Found(s)' = Found(s)
        BY <2>1, <2>2, <4>1 DEF Found, y
      <4>3. Unannounced(s)' => z.selected /\ Cardinality(Found(s)') > z.exists
        BY <2>2 DEF Unannounced
      <4>4. z.selected => ~(Cardinality(Found(s)) > z.exists)
        BY <3>1
      <4>5. (Cardinality(Found(s)') > z.exists) <=> (Cardinality(Found(s)) > z.exists)
        BY <4>2
      <4> QED
        BY <4>3, <4>4, <4>5
    <3> QED
      BY <1>0, <2>1, <2>2, <2>5, <3>1, <3>2 DEF y
  <2> QED
    BY <2>4, <2>5
<1> QED
  BY <1>1, <1>2 DEF IdleRound

\* Nobody but IDLE itself brings a session into the loop
LEMMA IntoIdle ==
  ASSUME SessionsOK, NEW s \in Sessions, Work(s), ses[s].pc # "idle", ses'[s].pc = "idle"
  PROVE  ses'[s].line = "empty"
<1> DEFINE y == ses[s]
<1>0. y \in Session /\ y.pc # "idle"
  BY DEF SessionsOK
<1>b. \A x : Become(s, x) => ses'[s] = x
  BY BecomesThat
<1>c. ses'[s].pc # "closed" /\ ses'[s].pc # "command"
  OBVIOUS
<1>x. /\ [y EXCEPT !.tls = TRUE, !.state = "NotAuthenticated", !.account = FALSE].pc = y.pc
      /\ [y EXCEPT !.state = "Authenticated", !.account = TRUE, !.listing = folder].pc = y.pc
      /\ [y EXCEPT !.state = "Selected", !.selected = TRUE, !.listing = Found(s)].pc = y.pc
      /\ [y EXCEPT !.selected = TRUE, !.listing = Found(s)].pc = y.pc
      /\ [y EXCEPT !.listing = Found(s)].pc = y.pc
      /\ [y EXCEPT !.state = "Authenticated", !.selected = FALSE].pc = y.pc
      /\ \A p : /\ [y EXCEPT !.pc = p].pc = p
                /\ [y EXCEPT !.pc = p, !.listing = folder'].pc = p
      /\ \A e : [y EXCEPT !.pc = "idle", !.late = FALSE, !.typed = "nothing", !.line = "empty",
                          !.exists = e].line = "empty"
  <2> HIDE DEF y
  <2> QED
    BY <1>0 DEF Session
<1>1. CASE Connect(s) \/ Leave(s) \/ StartTls(s)
  BY <1>0, <1>1, <1>b, <1>c, <1>x, BackIsOut DEF Connect, Leave, StartTls, Fresh
<1>2. CASE Login(s) \/ Authenticate(s) \/ Select(s) \/ Examine(s) \/ Reload(s) \/ CloseFolder(s)
  BY <1>0, <1>2, <1>b, <1>x DEF Login, Authenticate, Select, Examine, Reload, CloseFolder
<1>3. CASE Idle(s)
  <2>1. PICK e : Become(s, [y EXCEPT !.pc = "idle", !.late = FALSE, !.typed = "nothing", !.line = "empty",
                                     !.exists = e])
    BY <1>3 DEF Idle
  <2> DEFINE x == [y EXCEPT !.pc = "idle", !.late = FALSE, !.typed = "nothing", !.line = "empty",
                            !.exists = e]
  <2>2. x.line = "empty" /\ Become(s, x)
    BY <1>x, <2>1
  <2> HIDE DEF x
  <2> QED
    BY <1>b, <2>2
<1>4. CASE UidFetch(s) \/ Type(s) \/ Expire(s) \/ IdleRound(s)
  BY <1>0, <1>4 DEF UidFetch, Type, Expire, IdleRound, Hear, Waited
<1>5. CASE Append(s)
  BY <1>5, <1>b, <1>x DEF Append
<1>6. CASE Literal(s)
  BY <1>0, <1>6, <1>b, <1>c, <1>x, BackIsOut DEF Literal
<1> QED
  BY <1>1, <1>2, <1>3, <1>4, <1>5, <1>6 DEF Work

\* A session stays when another works
LEMMA OthersStay ==
  ASSUME SessionsOK, NEW s \in Sessions, NEW t \in Sessions, t # s, Work(t)
  PROVE  ses'[s] = ses[s]
<1>b. \A x : Become(t, x) => ses'[s] = ses[s]
  BY BecomesThat
<1>1. CASE Connect(t) \/ Leave(t) \/ StartTls(t) \/ Login(t) \/ Authenticate(t) \/ Select(t)
  BY <1>b, <1>1 DEF Connect, Leave, StartTls, Login, Authenticate, Select
<1>2. CASE Examine(t) \/ Reload(t) \/ CloseFolder(t) \/ UidFetch(t) \/ Idle(t) \/ Append(t) \/ Literal(t)
  BY <1>b, <1>2 DEF Examine, Reload, CloseFolder, UidFetch, Idle, Append, Literal
<1>3. CASE Type(t) \/ Expire(t)
  BY <1>b, <1>3 DEF Type, Expire
<1>4. CASE Hear(t)
  BY <1>b, <1>4 DEF Hear
<1>5. CASE Waited(t)
  BY <1>b, <1>5 DEF Waited
<1> QED
  BY <1>1, <1>2, <1>3, <1>4, <1>5 DEF Work, IdleRound

\* What a step does to a session in the loop, whoever takes it
LEMMA IdleStep ==
  ASSUME UidInv, NEW s \in Sessions, ses[s].pc = "idle", [Next]_vars
  PROVE  \/ ses'[s].pc # "idle"
         \/ ses'[s] = ses[s]
         \/ IdleRound(s)
         \/ ses[s].typed # "all" /\ \E h \in {"half", "all"}, l \in {"half", "done", "junk"} :
              /\ ses'[s] = [ses[s] EXCEPT !.typed = h, !.line = l]
              /\ l \in {"done", "junk"} => h = "all"
         \/ ses'[s] = [ses[s] EXCEPT !.late = TRUE]
<1>0. SessionsOK /\ ses[s] \in Session
  BY DEF UidInv, SessionsOK
<1>1. \A t \in Sessions : t # s /\ Work(t) => ses'[s] = ses[s]
  BY <1>0, OthersStay
<1>b. \A x : Become(s, x) => ses'[s] = x
  BY <1>0, BecomesThat
<1>2. ASSUME Type(s)
      PROVE  ses[s].typed # "all" /\ \E h \in {"half", "all"}, l \in {"half", "done", "junk"} :
               /\ ses'[s] = [ses[s] EXCEPT !.typed = h, !.line = l]
               /\ l \in {"done", "junk"} => h = "all"
  <2> DEFINE l == IF ses[s].line = "half" THEN "done" ELSE "junk"
  <2>0. l \in {"half", "done", "junk"}
    OBVIOUS
  <2>1. /\ ses[s].typed # "all"
        /\ \/ ses'[s] = [ses[s] EXCEPT !.typed = "all", !.line = "done"]
           \/ ses'[s] = [ses[s] EXCEPT !.typed = "half", !.line = "half"]
           \/ ses'[s] = [ses[s] EXCEPT !.typed = "all", !.line = l]
    BY <1>2, <1>b DEF Type
  <2> HIDE DEF l
  <2> QED
    BY <2>0, <2>1
<1>3. ASSUME Expire(s) PROVE ses'[s] = [ses[s] EXCEPT !.late = TRUE]
  BY <1>3, <1>b DEF Expire
<1>4. ASSUME Leave(s) PROVE ses'[s].pc # "idle"
  BY <1>0, <1>4, <1>b, BackIsOut DEF Leave
<1>5. CASE Work(s)
  <2>1. CASE Leave(s) \/ UidFetch(s) \/ Type(s) \/ Expire(s) \/ IdleRound(s)
    BY <1>2, <1>3, <1>4, <2>1 DEF UidFetch
  <2>2. CASE \/ Connect(s) \/ StartTls(s) \/ Login(s) \/ Authenticate(s) \/ Select(s) \/ Examine(s)
             \/ Reload(s) \/ CloseFolder(s) \/ Idle(s) \/ Append(s) \/ Literal(s)
    BY <2>2 DEF Connect, StartTls, Login, Authenticate, Select, Examine, Reload, CloseFolder, Idle,
                Append, Literal, Ready
  <2> QED
    BY <1>5, <2>1, <2>2 DEF Work
<1>6. CASE Restart
  BY <1>0, <1>6, BackIsOut DEF Restart
<1>7. CASE (\E m \in Mails : Deliver(m) \/ Remove(m)) \/ UNCHANGED vars
  BY <1>7 DEF Deliver, Remove, vars
<1> QED
  BY <1>1, <1>5, <1>6, <1>7 DEF Next

\* What stays as long as a session is in the loop and no round is taken
LEMMA InLoop ==
  ASSUME UidInv, LineInv, NEW s \in Sessions, ses[s].pc = "idle", [Next]_vars, ~IdleRound(s)
  PROVE  \/ ses'[s].pc # "idle"
         \/ /\ ses[s].late => ses'[s].late
            /\ ses[s].typed = "all" => ses'[s].typed = "all" /\ ses'[s].line = ses[s].line
            /\ ses'[s].line \in {"done", "junk"} => ses'[s].typed = "all"
            /\ ses'[s].typed \in {ses[s].typed, "half", "all"}
<1> DEFINE y == ses[s]
<1>0. y \in Session /\ (y.line \in {"done", "junk"} => y.typed = "all")
  BY DEF UidInv, SessionsOK, LineInv
<1>1. \/ ses'[s].pc # "idle" \/ ses'[s] = y
      \/ y.typed # "all" /\ \E h \in {"half", "all"}, l \in {"half", "done", "junk"} :
           /\ ses'[s] = [y EXCEPT !.typed = h, !.line = l]
           /\ l \in {"done", "junk"} => h = "all"
      \/ ses'[s] = [y EXCEPT !.late = TRUE]
  BY IdleStep
<1> HIDE DEF y
<1>2. CASE ses'[s] = [y EXCEPT !.late = TRUE]
  <2>1. [y EXCEPT !.late = TRUE].late /\ [y EXCEPT !.late = TRUE].typed = y.typed
        /\ [y EXCEPT !.late = TRUE].line = y.line
    BY <1>0 DEF Session
  <2> QED
    BY <1>0, <1>2, <2>1 DEF y
<1>3. CASE y.typed # "all" /\ \E h \in {"half", "all"}, l \in {"half", "done", "junk"} :
             /\ ses'[s] = [y EXCEPT !.typed = h, !.line = l]
             /\ l \in {"done", "junk"} => h = "all"
  <2>1. PICK h \in {"half", "all"}, l \in {"half", "done", "junk"} :
          /\ ses'[s] = [y EXCEPT !.typed = h, !.line = l]
          /\ l \in {"done", "junk"} => h = "all"
    BY <1>3
  <2>2. LET x == [y EXCEPT !.typed = h, !.line = l]
        IN  x.late = y.late /\ x.typed = h /\ x.line = l
    BY <1>0 DEF Session
  <2> QED
    BY <1>3, <2>1, <2>2 DEF y
<1>4. CASE ses'[s] = y
  BY <1>0, <1>4 DEF y
<1> QED
  BY <1>1, <1>2, <1>3, <1>4 DEF y

LEMMA RoundOf ==
  ASSUME UidInv, LineInv, NEW s \in Sessions, ses[s].pc = "idle", IdleRound(s)
  PROVE  /\ ses[s].late \/ ses[s].line = "done" => ses'[s].pc # "idle"
         /\ ~ses[s].late /\ ses[s].line = "junk" =>
              ses'[s].line = "empty" /\ ses'[s].typed = "all"
         /\ ~ses[s].late /\ ses[s].line \notin {"done", "junk"} => ~Unannounced(s)'
         /\ ses'[s].pc # "idle" \/ (ses'[s].line = "empty" /\ ses'[s].typed = ses[s].typed)
<1> DEFINE y == ses[s]
<1>0. /\ y \in Session /\ (y.line \in {"done", "junk"} => y.typed = "all")
      /\ SessionsOK /\ folder \in SUBSET Mails
  BY DEF UidInv, SessionsOK, LineInv, FolderOK
<1>1. /\ y.late \/ y.line = "done" => ses'[s].pc # "idle"
      /\ ~y.late /\ y.line = "junk" => ses'[s] = [y EXCEPT !.line = "empty"]
      /\ ~y.late /\ y.line \notin {"done", "junk"} =>
           /\ ~Unannounced(s)'
           /\ \E F \in SUBSET Mails, e \in 0 .. MaxMail :
                ses'[s] = [y EXCEPT !.line = "empty", !.listing = F, !.exists = e]
  BY <1>0, RoundStep
<1>2. /\ [y EXCEPT !.line = "empty"].line = "empty" /\ [y EXCEPT !.line = "empty"].typed = y.typed
      /\ \A F, e : LET x == [y EXCEPT !.line = "empty", !.listing = F, !.exists = e]
                   IN  x.line = "empty" /\ x.typed = y.typed
  <2> HIDE DEF y
  <2> QED
    BY <1>0 DEF Session
<1> HIDE DEF y
<1>3. ~y.late /\ y.line \notin {"done", "junk"} => ses'[s].line = "empty" /\ ses'[s].typed = y.typed
  <2> SUFFICES ASSUME ~y.late, y.line \notin {"done", "junk"}
               PROVE  ses'[s].line = "empty" /\ ses'[s].typed = y.typed
    OBVIOUS
  <2>1. PICK F \in SUBSET Mails, e \in 0 .. MaxMail :
          ses'[s] = [y EXCEPT !.line = "empty", !.listing = F, !.exists = e]
    BY <1>1
  <2> DEFINE x == [y EXCEPT !.line = "empty", !.listing = F, !.exists = e]
  <2>2. ses'[s] = x /\ x.line = "empty" /\ x.typed = y.typed
    BY <1>2, <2>1
  <2> HIDE DEF x
  <2> QED
    BY <2>2
<1> QED
  BY <1>0, <1>1, <1>2, <1>3 DEF y

LEMMA IdleInvStep ==
  ASSUME UidInv, LineInv, UidInv', [Next]_vars
  PROVE  LineInv'
<1> SUFFICES ASSUME NEW s \in Sessions, ses'[s].pc = "idle", ses'[s].line \in {"done", "junk"}
             PROVE  ses'[s].typed = "all"
  BY DEF LineInv
<1>0. SessionsOK
  BY DEF UidInv
<1>1. CASE ses[s].pc = "idle"
  <2>1. CASE IdleRound(s)
    BY <1>1, <2>1, RoundOf
  <2>2. CASE ~IdleRound(s)
    BY <1>1, <2>2, InLoop
  <2> QED
    BY <2>1, <2>2
<1>2. CASE ses[s].pc # "idle"
  <2>1. CASE \E t \in Sessions : t # s /\ Work(t)
    BY <1>0, <1>2, <2>1, OthersStay
  <2>2. CASE Work(s)
    BY <1>0, <1>2, <2>2, IntoIdle
  <2>3. CASE Restart
    BY <1>0, <2>3, BackIsOut DEF Restart, UidInv, SessionsOK
  <2>4. CASE (\E m \in Mails : Deliver(m) \/ Remove(m)) \/ UNCHANGED vars
    BY <1>2, <2>4 DEF Deliver, Remove, vars
  <2> QED
    BY <2>1, <2>2, <2>3, <2>4 DEF Next
<1> QED
  BY <1>1, <1>2

LEMMA LineInvHolds == Spec => [](UidInv /\ LineInv)
<1>1. Init => LineInv
  BY BackIsOut, FreshTyped DEF Init, LineInv
<1> QED
  BY <1>1, UidInit, UidStep, IdleInvStep, PTL DEF Spec

LEMMA FairParts == FairSpec => Spec /\ \A s \in Sessions : RoundsGoOn(s)
  BY PTL DEF FairSpec

\* What weak fairness of the round says where the loop has something to do
LEMMA RoundComes ==
  ASSUME NEW s \in Sessions
  PROVE  FairSpec /\ []RoundsPossible => []<>~RoundDue(s) \/ []<><<IdleRound(s)>>_vars
<1>1. FairSpec => RoundsGoOn(s)
  BY FairParts
<1>2. RoundsPossible => (RoundDue(s) => ENABLED <<IdleRound(s)>>_vars)
  BY DEF RoundsPossible
<1> HIDE DEF RoundsPossible, RoundDue, FairSpec
<1> QED
  BY <1>1, <1>2, PTL DEF RoundsGoOn

LEMMA FairIsSpec == FairSpec => [][Next]_vars /\ [](UidInv /\ LineInv)
  BY LineInvHolds, PTL DEF FairSpec, Spec

\* IDLE ends, for any number of sessions and mails, once the client has said so or the 29 minutes
\* have passed.  That a round can be taken wherever it is due is a hypothesis here.
THEOREM IdleIsLeft == FairSpec /\ []RoundsPossible => IdleEnds
<1> DEFINE Over(s) == ses[s].pc = "idle" /\ (ses[s].late \/ ses[s].line = "done")
           Out(s)  == ses[s].pc # "idle"
<1>1. ASSUME NEW s \in Sessions
      PROVE  FairSpec /\ []RoundsPossible => (Over(s) ~> Out(s))
  <2>1. UidInv /\ LineInv /\ Over(s) /\ [Next]_vars => Over(s)' \/ Out(s)'
    <3> SUFFICES ASSUME UidInv, LineInv, Over(s), [Next]_vars PROVE Over(s)' \/ Out(s)'
      OBVIOUS
    <3>1. CASE IdleRound(s)
      BY <3>1, RoundOf
    <3>2. CASE ~IdleRound(s)
      <4>1. ses[s].line = "done" => ses[s].typed = "all"
        BY DEF LineInv
      <4> QED
        BY <3>2, <4>1, InLoop
    <3> QED
      BY <3>1, <3>2
  <2>2. UidInv /\ LineInv /\ Over(s) /\ <<IdleRound(s)>>_vars => Out(s)'
    BY RoundOf
  <2>3. Over(s) => RoundDue(s)
    BY DEF RoundDue
  <2> HIDE DEF Over, Out, FairSpec, RoundsPossible, RoundDue
  <2> QED
    BY <2>1, <2>2, <2>3, RoundComes, FairIsSpec, PTL
<1> HIDE DEF FairSpec, RoundsPossible
<1> QED
  BY <1>1 DEF IdleEnds

\* A folder that has grown is announced in IDLE, for any number of sessions and mails: a line the
\* loop does not know costs one round, and the client cannot send another.
THEOREM MailIsAnnounced == FairSpec /\ []RoundsPossible => NewMailAnnounced
<1> DEFINE New(s)   == Unannounced(s)
           Heard(s) == Unannounced(s) /\ ses[s].typed = "all" /\ ses[s].line # "junk"
           Told(s)  == ~Unannounced(s)
<1>1. ASSUME NEW s \in Sessions
      PROVE  FairSpec /\ []RoundsPossible => (New(s) ~> Told(s))
  <2>1. UidInv /\ LineInv /\ Heard(s) /\ [Next]_vars => Heard(s)' \/ Told(s)'
    <3> SUFFICES ASSUME UidInv, LineInv, Heard(s), [Next]_vars, ~Told(s)' PROVE Heard(s)'
      OBVIOUS
    <3>1. ses[s].pc = "idle" /\ ses'[s].pc = "idle"
      BY DEF Unannounced
    <3>2. CASE IdleRound(s)
      BY <3>1, <3>2, RoundOf
    <3>3. CASE ~IdleRound(s)
      BY <3>1, <3>3, InLoop
    <3> QED
      BY <3>2, <3>3
  <2>2. UidInv /\ LineInv /\ Heard(s) /\ <<IdleRound(s)>>_vars => Told(s)'
    <3> SUFFICES ASSUME UidInv, LineInv, Heard(s), IdleRound(s) PROVE Told(s)'
      OBVIOUS
    <3>1. ses[s].pc = "idle" /\ ~ses[s].late
      BY DEF Unannounced
    <3>2. ses'[s].pc # "idle" => Told(s)'
      BY DEF Unannounced
    <3> QED
      BY <3>1, <3>2, RoundOf
  <2>3. UidInv /\ LineInv /\ New(s) /\ <<IdleRound(s)>>_vars => Heard(s)' \/ Told(s)'
    <3> SUFFICES ASSUME UidInv, LineInv, New(s), IdleRound(s), ~Told(s)' PROVE Heard(s)'
      OBVIOUS
    <3>1. ses[s].pc = "idle" /\ ~ses[s].late /\ ses'[s].pc = "idle"
      BY DEF Unannounced
    <3> QED
      BY <3>1, RoundOf
  <2>4. (New(s) => RoundDue(s)) /\ (Heard(s) => New(s)) /\ (New(s) \/ Told(s))
    BY DEF Unannounced, RoundDue
  <2>5. Told(s) => ~New(s)
    OBVIOUS
  <2> HIDE DEF New, Heard, Told, FairSpec, RoundsPossible, RoundDue
  <2> QED
    BY <2>1, <2>2, <2>3, <2>4, <2>5, RoundComes, FairIsSpec, PTL
<1> HIDE DEF FairSpec, RoundsPossible
<1> QED
  BY <1>1 DEF NewMailAnnounced
=============================================================================
