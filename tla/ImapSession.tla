---------------------------- MODULE ImapSession ----------------------------
(***************************************************************************)
(* funmail-imap (crates/funmail-imap/src/main.rs): sessions over one       *)
(* folder, which other programs fill and empty.  A session answers from    *)
(* the listing it made last, in which the files have the UIDs 1 to n in    *)
(* the order of their dates; a client keeps what it has fetched under the  *)
(* UID, over all its sessions, as UIDVALIDITY never changes.               *)
(*                                                                         *)
(* Mails are numbered in the order of the listing: by date, and by the     *)
(* hash of the file name where two dates are equal.  They may arrive in    *)
(* any order, each at once: a listing made while local.rs:86 is still      *)
(* writing the file has a part of the mail, which is left out.  A client   *)
(* that has not logged in may send any command but APPEND; what it is      *)
(* shown is the folder of nobody, in which there is no mail.               *)
(*                                                                         *)
(* Of the commands, those are left out that change nothing and only show   *)
(* the listing (FETCH by number, SEARCH, STATUS, LIST), or answer OK and   *)
(* do nothing (STORE, EXPUNGE, COPY, MOVE, CREATE, DELETE, RENAME and the  *)
(* like).                                                                  *)
(***************************************************************************)
EXTENDS Integers, FiniteSets, FiniteSetsExt

CONSTANTS
  Sessions,   \* the clients, each with one connection at a time
  MaxMail     \* bound: mails that arrive

ASSUME MaxMailAssumption == MaxMail \in Nat

Mails == 1 .. MaxMail

VARIABLES
  folder,     \* the files in new/ and cur/ of the folder
  ses,        \* the sessions
  cache,      \* what each client has kept under each UID; 0 for nothing
  (* history *)
  existed,    \* mails that have arrived
  calm        \* mails have arrived in order of date, and none has been removed

vars == <<folder, ses, cache, existed, calm>>
----------------------------------------------------------------------------
Session ==
  [pc       : {"closed", "command", "idle", "literal"},
   tls      : BOOLEAN,
   state    : {"NotAuthenticated", "Authenticated", "Selected"},
   account  : BOOLEAN,                \* auth_username and auth_domain are set
   selected : BOOLEAN,                \* selected_folder is Some
   listing  : SUBSET Mails,           \* the folder in folders
   exists   : 0 .. MaxMail,           \* last_exists of IDLE
   late     : BOOLEAN,                \* max_idle has passed
   typed    : {"nothing", "half", "all"},            \* how much of DONE the client has sent
   line     : {"empty", "half", "done", "junk"}]     \* what is there for read_line

TypeOK ==
  /\ folder \subseteq existed
  /\ existed \subseteq Mails
  /\ ses \in [Sessions -> Session]
  /\ cache \in [Sessions -> [Mails -> 0 .. MaxMail]]
  /\ calm \in BOOLEAN

Fresh(tls) ==
  [pc |-> "command", tls |-> tls, state |-> "NotAuthenticated", account |-> FALSE,
   selected |-> FALSE, listing |-> {}, exists |-> 0, late |-> FALSE, typed |-> "nothing", line |-> "empty"]

Closed == [Fresh(FALSE) EXCEPT !.pc = "closed"]

Init ==
  /\ folder = {} /\ existed = {} /\ calm = TRUE
  /\ ses = [s \in Sessions |-> Closed]
  /\ cache = [s \in Sessions |-> [u \in Mails |-> 0]]

\* Mutant: counted from the other end, the latest mail first
UidReversed(L, m) == Cardinality({k \in L : k >= m})

\* The UID of m in a listing, and its sequence number
Uid(L, m) == Cardinality({k \in L : k <= m})

\* parse_seq_set: the mails of a range lo:hi, given either way round.  "*" is the highest
\* number there is.
InRange(L, lo, hi) == {m \in L : Uid(L, m) \in Min({lo, hi}) .. Max({lo, hi})}

\* build_fetch_response: what is sent of a mail, of which the UID and the body matter here.
\* Both are as they were when the listing was made, also when the file has gone since.
Response(L, m) == [uid |-> Uid(L, m), body |-> m]

Become(s, x) == ses' = [ses EXCEPT ![s] = x]

maildir == <<folder, existed, calm>>

Ready(s) == ses[s].pc = "command" /\ UNCHANGED <<maildir, cache>>

LoggedIn(s) == ses[s].state # "NotAuthenticated"

\* What load_folders finds for the account of s
Found(s) == IF ses[s].account THEN folder ELSE {}
----------------------------------------------------------------------------
(* The connection *)

\* On port 143, or with TLS from the start
Connect(s) ==
  /\ ses[s].pc = "closed"
  /\ \E tls \in BOOLEAN : Become(s, Fresh(tls))
  /\ UNCHANGED <<maildir, cache>>

\* LOGOUT, the end of the connection or an error of it, within IDLE too
Leave(s) ==
  /\ ses[s].pc \in {"command", "idle"}
  /\ Become(s, Closed)
  /\ UNCHANGED <<maildir, cache>>

\* The state goes back to the start, the listing and the name of the folder stay
StartTls(s) ==
  /\ Ready(s) /\ ~ses[s].tls
  /\ \/ Become(s, [ses[s] EXCEPT !.tls = TRUE, !.state = "NotAuthenticated", !.account = FALSE])
     \/ Become(s, Closed)
----------------------------------------------------------------------------
(* Commands.  What is refused, a wrong password included, changes nothing. *)

\* It asks for the state, which SELECT and CLOSE change also without it
Login(s) ==
  /\ Ready(s) /\ ses[s].tls /\ ~LoggedIn(s)
  /\ Become(s, [ses[s] EXCEPT !.state = "Authenticated", !.account = TRUE, !.listing = folder])

\* AUTHENTICATE PLAIN and LOGIN do not ask for the state, so a client may do it again; the
\* folder stays selected
Authenticate(s) ==
  /\ Ready(s) /\ ses[s].tls
  /\ Become(s, [ses[s] EXCEPT !.state = "Authenticated", !.account = TRUE, !.listing = folder])

\* This and the following commands do not ask for the state
Select(s) ==
  /\ Ready(s)
  /\ Become(s, [ses[s] EXCEPT !.state = "Selected", !.selected = TRUE, !.listing = Found(s)])

\* EXAMINE does not make it the state Selected
Examine(s) ==
  /\ Ready(s)
  /\ Become(s, [ses[s] EXCEPT !.selected = TRUE, !.listing = Found(s)])

\* NOOP, which tells the number of mails, and CHECK, which does not
Reload(s) ==
  /\ Ready(s)
  /\ Become(s, [ses[s] EXCEPT !.listing = Found(s)])

CloseFolder(s) ==
  /\ Ready(s)
  /\ Become(s, [ses[s] EXCEPT !.state = "Authenticated", !.selected = FALSE])

Known(s) == {u \in Mails : cache[s][u] # 0}

\* UID FETCH n:*, with n the first UID the client does not know; it keeps the answer.  When
\* there is nothing new this is the last mail again.
UidFetch(s) ==
  /\ ses[s].pc = "command" /\ ses[s].selected
  /\ LET L   == ses[s].listing
         n   == IF Known(s) = {} THEN 1 ELSE Max(Known(s)) + 1
         got == {Response(L, m) : m \in InRange(L, n, Cardinality(L))}
     IN  cache' = [cache EXCEPT ![s] = [u \in Mails |->
           IF \E r \in got : r.uid = u THEN (CHOOSE r \in got : r.uid = u).body ELSE @[u]]]
  /\ UNCHANGED <<maildir, ses>>
----------------------------------------------------------------------------
(* IDLE *)

Idle(s) ==
  /\ Ready(s)
  /\ Become(s, [ses[s] EXCEPT !.pc = "idle", !.late = FALSE, !.typed = "nothing", !.line = "empty",
                              !.exists = IF ses[s].selected THEN Cardinality(ses[s].listing) ELSE 0])

\* The client ends it with DONE, which may come in two pieces
Type(s) ==
  /\ ses[s].pc = "idle"
  /\ \/ ses[s].typed = "nothing" /\ Become(s, [ses[s] EXCEPT !.typed = "all", !.line = "done"])
     \/ ses[s].typed = "nothing" /\ Become(s, [ses[s] EXCEPT !.typed = "half", !.line = "half"])
     \/ /\ ses[s].typed = "half"
        /\ Become(s, [ses[s] EXCEPT !.typed = "all",
                                    !.line = IF @ = "half" THEN "done" ELSE "junk"])
  /\ UNCHANGED <<maildir, cache>>

\* 29 minutes go by
Expire(s) ==
  /\ ses[s].pc = "idle" /\ ~ses[s].late
  /\ Become(s, [ses[s] EXCEPT !.late = TRUE])
  /\ UNCHANGED <<maildir, cache>>

Back(x) == [x EXCEPT !.pc = "command", !.exists = 0, !.late = FALSE, !.typed = "nothing",
                     !.line = "empty"]

\* read_line has a line
Hear(s) ==
  /\ ses[s].pc = "idle" /\ ses[s].line \in {"done", "junk"}
  /\ Become(s, IF ses[s].late \/ ses[s].line = "done" THEN Back(ses[s])
                                                      ELSE [ses[s] EXCEPT !.line = "empty"])
  /\ UNCHANGED <<maildir, cache>>

\* Mutant: the loop goes on after the limit
WaitedForEver(s) ==
  /\ ses[s].pc = "idle" /\ ses[s].line \in {"empty", "half"}
  /\ LET x   == [ses[s] EXCEPT !.line = "empty", !.listing = Found(s)]
         now == Cardinality(Found(s))
     IN  Become(s, IF x.selected /\ now > x.exists THEN [x EXCEPT !.exists = now] ELSE x)
  /\ UNCHANGED <<maildir, cache>>

\* Mutant: the listing is not made anew
WaitedStale(s) ==
  /\ ses[s].pc = "idle" /\ ses[s].line \in {"empty", "half"}
  /\ LET x   == [ses[s] EXCEPT !.line = "empty"]
         now == Cardinality(x.listing)
     IN  Become(s, IF x.late THEN Back(x)
                   ELSE IF x.selected /\ now > x.exists THEN [x EXCEPT !.exists = now] ELSE x)
  /\ UNCHANGED <<maildir, cache>>

\* read_line is given up after 5 seconds, with it the half of a line it has read; a folder
\* that has grown is announced, one that has not is still listed anew
Waited(s) ==
  /\ ses[s].pc = "idle" /\ ses[s].line \in {"empty", "half"}
  /\ LET x   == [ses[s] EXCEPT !.line = "empty"]
         now == Cardinality(Found(s))
     IN  Become(s, IF x.late THEN Back(x)
                   ELSE IF x.selected /\ now > x.exists
                        THEN [x EXCEPT !.listing = Found(s), !.exists = now]
                        ELSE [x EXCEPT !.listing = Found(s)])
  /\ UNCHANGED <<maildir, cache>>

IdleRound(s) == Hear(s) \/ Waited(s)
----------------------------------------------------------------------------
(* The folder *)

\* A mail arrives.  Each mail does so once.
Arrives(m) ==
  /\ m \notin existed
  /\ folder' = folder \cup {m}
  /\ existed' = existed \cup {m}
  /\ calm' = (calm /\ \A k \in existed : k < m)

\* From funmail-delivery, or as the copy of a sent mail
Deliver(m) == Arrives(m) /\ UNCHANGED <<ses, cache>>

\* By POP3
Remove(m) ==
  /\ m \in folder
  /\ folder' = folder \ {m}
  /\ calm' = FALSE
  /\ UNCHANGED <<existed, ses, cache>>

\* APPEND waits for the literal
Append(s) ==
  /\ Ready(s) /\ LoggedIn(s) /\ ses[s].account
  /\ Become(s, [ses[s] EXCEPT !.pc = "literal"])

\* The literal, or as much as came before the end of the connection, becomes a file and is
\* counted (Mailbox!CountSent); or it cannot be written.  (It cannot while maildir_base is
\* an absolute path, as this is put into the name of the file.)
Literal(s) ==
  /\ ses[s].pc = "literal"
  /\ \/ /\ \E m \in Mails : Arrives(m)
        /\ Become(s, [ses[s] EXCEPT !.pc = "command", !.listing = folder'])
     \/ /\ \E m \in Mails : Arrives(m)
        /\ Become(s, Closed)
     \/ Become(s, [ses[s] EXCEPT !.pc = "command"]) /\ UNCHANGED maildir
     \/ Become(s, Closed) /\ UNCHANGED maildir
  /\ UNCHANGED cache

\* The process stops and starts again
Restart ==
  /\ \E s \in Sessions : ses[s].pc # "closed"
  /\ ses' = [s \in Sessions |-> Closed]
  /\ UNCHANGED <<maildir, cache>>

Work(s) ==
  \/ Connect(s) \/ Leave(s) \/ StartTls(s) \/ Login(s) \/ Authenticate(s)
  \/ Select(s) \/ Examine(s) \/ Reload(s) \/ CloseFolder(s) \/ UidFetch(s)
  \/ Idle(s) \/ Type(s) \/ Expire(s) \/ IdleRound(s)
  \/ Append(s) \/ Literal(s)

Next ==
  \/ \E s \in Sessions : Work(s)
  \/ \E m \in Mails : Deliver(m) \/ Remove(m)
  \/ Restart

Spec == Init /\ [][Next]_vars

\* read_line in IDLE returns after 5 seconds at the latest
RoundsGoOn(s) == WF_vars(IdleRound(s))

FairSpec == Spec /\ \A s \in Sessions : RoundsGoOn(s)
=============================================================================
