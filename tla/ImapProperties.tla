--------------------------- MODULE ImapProperties ---------------------------
(***************************************************************************)
(* What a session guarantees a client that keeps mails by their UID and    *)
(* waits for new ones in IDLE, stated over ImapSession.                    *)
(***************************************************************************)
EXTENDS ImapSession

\* load_folders gives UIDs anew at each listing.  As long as mails arrive in the order of
\* their dates and none is removed, they still serve a client that fetches n:* with the
\* first UID it does not know: over all listings and sessions, a UID it has kept means
\* the same mail, and it has kept the UIDs without a gap.
CachedUidsHold ==
  calm => \A s \in Sessions : \A u \in Known(s) :
    /\ cache[s][u] \in folder
    /\ Uid(folder, cache[s][u]) = u
    /\ \A v \in 1 .. u : v \in Known(s)

Unannounced(s) ==
  /\ ses[s].pc = "idle" /\ ~ses[s].late
  /\ ses[s].selected
  /\ Cardinality(Found(s)) > ses[s].exists

\* A folder that has more mails than the client in IDLE has been told of is announced to
\* it, unless the client ends IDLE or the 29 minutes pass before that: also
\* when half a line is lost, and when mails are removed meanwhile.
NewMailAnnounced == \A s \in Sessions : Unannounced(s) ~> ~Unannounced(s)

\* IDLE ends when the client says so and, should the word be lost between two rounds of
\* the loop, after 29 minutes: no connection is kept for ever in the loop.
IdleEnds ==
  \A s \in Sessions :
    (ses[s].pc = "idle" /\ (ses[s].late \/ ses[s].line = "done")) ~> ses[s].pc # "idle"

\* The loop of IDLE has something to do
RoundDue(s) ==
  /\ ses[s].pc = "idle"
  /\ \/ ses[s].line # "empty"
     \/ ses[s].late
     \/ ses[s].listing # Found(s)
     \/ ses[s].selected /\ Cardinality(Found(s)) > ses[s].exists

\* A hypothesis of the proofs about liveness, ENABLED being out of tlapm's reach: a round that is due
\* can be taken.  The actions of a round leave no gap, so it holds by their shape.
RoundsPossible == \A s \in Sessions : RoundDue(s) => ENABLED <<IdleRound(s)>>_vars
=============================================================================
