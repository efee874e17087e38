---------------------------- MODULE RemoteProofs ----------------------------
(***************************************************************************)
(* Proofs about RemoteDelivery, for any number of MX hosts, of addresses   *)
(* and of lines in a reply: types, that no answer is mistaken for another, *)
(* the contract of deliver_remote, when a message may be taken twice, that *)
(* the list of hosts is used up before an error, and what may keep a call  *)
(* from coming to its end.                                                 *)
(***************************************************************************)
EXTENDS RemoteProperties, SequenceTheorems, TLAPS

\* What reading a line leaves
LEMMA Dropped ==
  ASSUME TypeOK, wire # <<>>
  PROVE  /\ Head(wire) = wire[1] /\ Head(wire) \in Line
         /\ Tail(wire) \in Seq(Line)
         /\ Len(wire) \in Nat \ {0} /\ Len(Tail(wire)) = Len(wire) - 1
         /\ \A i \in 1 .. Len(Tail(wire)) : Tail(wire)[i] = wire[i + 1]
<1>1. wire \in Seq(Line)
  BY DEF TypeOK
<1> QED
  BY <1>1, HeadTailProperties

\* Every reply of one line is a line for its command
LEMMA ReplyShape ==
  ASSUME NEW c \in Commands
  PROVE  /\ \A r \in Replies(c) : r \in Line /\ r.to = c
         /\ \A sep \in {"blank", "dash", "alone"} :
              LET r == Reply(c, Expected(c), sep)
              IN  r \in Line /\ r.to = c /\ r.code = Expected(c) /\ r.sep = sep
<1>1. /\ Expected(c) \in Codes
      /\ \A code \in Codes : \A sep \in {"blank", "dash", "alone"} :
           LET r == Reply(c, code, sep)
           IN  r \in Line /\ r.to = c /\ r.code = code /\ r.sep = sep
  BY DEF Expected, Codes, Line, Reply
<1>2. 421 \in Codes /\ 550 \in Codes /\ 450 \in Codes
  BY DEF Codes
<1> QED
  BY <1>1, <1>2 DEF Replies

\* What a line more leaves
LEMMA Joined ==
  ASSUME TypeOK, NEW r \in Line, wire' = Append(wire, r)
  PROVE  /\ wire' \in Seq(Line)
         /\ Len(wire) \in Nat /\ Len(wire') = Len(wire) + 1
         /\ \A i \in 1 .. Len(wire') : \/ i \in 1 .. Len(wire) /\ wire'[i] = wire[i]
                                       \/ i = Len(wire) + 1 /\ wire'[i] = r
<1>1. wire \in Seq(Line)
  BY DEF TypeOK
<1> QED
  BY <1>1, AppendProperties

\* Where the caller can be after an address or a host has failed
LEMMA Moves ==
  ASSUME TypeOK, NEW error \in {"temp", "perm"}, Advance(error)
  PROVE  /\ lastError' = error
         /\ \/ /\ addr < addrs /\ pc' = "connect" /\ addr' = addr + 1
               /\ UNCHANGED <<host, addrs, result>>
            \/ /\ ~(addr < addrs) /\ host < NumHosts
               /\ pc' = "resolve" /\ host' = host + 1 /\ addr' = 0 /\ addrs' = 0
               /\ UNCHANGED result
            \/ /\ ~(addr < addrs) /\ ~(host < NumHosts)
               /\ pc' = "done" /\ result' = error /\ UNCHANGED <<host, addr, addrs>>
BY Zenon DEF Advance, Return

\* ... and that is within the types
LEMMA MovesTyped ==
  ASSUME TypeOK, NEW error \in {"temp", "perm"}, Advance(error)
  PROVE  /\ pc' \in {"connect", "resolve", "done"}
         /\ host' \in 0 .. NumHosts /\ addr' \in 0 .. MaxAddrs /\ addrs' \in 0 .. MaxAddrs
         /\ lastError' \in {"none", "temp", "perm"}
         /\ result' \in {"none", "sent", "temp", "perm"}
BY Moves, NumHostsAssumption, MaxAddrsAssumption DEF TypeOK

\* The end of a dialogue that failed
LEMMA GivingTyped ==
  ASSUME TypeOK, NEW error \in {"temp", "perm"}, Giving(error),
         took' = took, tried' = tried, refused' \subseteq (0 .. NumHosts) \X (0 .. MaxAddrs), strayed' \in BOOLEAN
  PROVE  TypeOK'
<1>1. Advance(error) /\ HangUp
  BY DEF Giving
<1>2. unsettled' \subseteq took'
  BY DEF Giving, TypeOK
<1>3. /\ offersTls' \in BOOLEAN /\ wire' \in Seq(Line) /\ link' = "closed"
      /\ asked' = "none" /\ saying' = "none"
  BY <1>1, EmptySeq DEF HangUp
<1> QED
  BY <1>1, <1>2, <1>3, MovesTyped DEF TypeOK, Commands
-----------------------------------------------------------------------------
\* One step keeps every variable in its type
LEMMA TypeStep == TypeOK /\ [Next]_vars => TypeOK'
<1> USE NumHostsAssumption, MaxAddrsAssumption
<1> SUFFICES ASSUME TypeOK, [Next]_vars PROVE TypeOK'
  OBVIOUS
<1> USE DEF caller, history
<1>1. CASE LookupMx
  <2>1. refused' \subseteq (0 .. NumHosts) \X (0 .. MaxAddrs)
    BY <1>1 DEF LookupMx, TypeOK, Target
  <2>2. host' \in 0 .. NumHosts /\ pc' \in {"resolve", "done"} /\ result' \in {"none", "perm", "temp", "sent"}
    BY <1>1 DEF LookupMx, Return, TypeOK
  <2> QED
    BY <1>1, <2>1, <2>2 DEF LookupMx, TypeOK
<1>2. ASSUME NEW k \in 0 .. MaxAddrs, Resolve(k) PROVE TypeOK'
  <2>1. CASE k = 0
    BY <1>2, <2>1, MovesTyped DEF Resolve, TypeOK
  <2>2. CASE k # 0
    BY <1>2, <2>2 DEF Resolve, TypeOK
  <2> QED
    BY <2>1, <2>2
<1>3. CASE Connect
  <2>1. tried' \subseteq (0 .. NumHosts) \X (0 .. MaxAddrs)
    BY <1>3 DEF Connect, TypeOK, Target
  <2>2. CASE Advance("temp") /\ UNCHANGED <<link, wire, asked, saying, offersTls>>
    BY <1>3, <2>1, <2>2, MovesTyped DEF Connect, TypeOK
  <2>3. CASE pc' = "greet" /\ link' = "open" /\ asked' = "greet" /\ offersTls' \in BOOLEAN
             /\ UNCHANGED <<caller, wire, saying>>
    BY <1>3, <2>1, <2>3 DEF Connect, TypeOK, Commands
  <2> QED
    BY <1>3, <2>2, <2>3 DEF Connect
<1>4. CASE Proceed
  <2>1. strayed' \in BOOLEAN
    BY <1>4, Zenon DEF Proceed, TypeOK
  <2>2. UNCHANGED <<took, tried, refused>> /\ wire # <<>> /\ pc \in Commands
    BY <1>4 DEF Proceed, Reading
  <2>3. CASE Giving("temp")
    BY <2>1, <2>2, <2>3, GivingTyped DEF TypeOK
  <2>4. CASE /\ Following(pc) # "quit" /\ pc' = Following(pc) /\ asked' = Following(pc)
             /\ wire' = Tail(wire) /\ UNCHANGED <<caller, link, saying, offersTls, unsettled>>
    <3>1. Following(pc) \in Commands \cup {"tls"}
      BY <2>2, <2>4 DEF Following, Commands
    <3> QED
      BY <2>1, <2>2, <2>4, <3>1, Dropped DEF TypeOK
  <2>5. CASE Return("sent") /\ HangUp /\ UNCHANGED <<host, addr, addrs, lastError, unsettled>>
    BY <2>1, <2>2, <2>5, EmptySeq DEF Return, HangUp, TypeOK
  <2> QED
    BY <1>4, <2>3, <2>4, <2>5, Zenon DEF Proceed
<1>5. CASE ReadOn
  BY <1>5, Dropped DEF ReadOn, TypeOK
<1>6. CASE Refuse
  <2>1. refused' \subseteq (0 .. NumHosts) \X (0 .. MaxAddrs)
    BY <1>6 DEF Refuse, TypeOK, Target
  <2>2. Verdict(Head(wire).code) \in {"temp", "perm"}
    BY DEF Verdict
  <2> QED
    BY <1>6, <2>1, <2>2, GivingTyped DEF Refuse, TypeOK
<1>7. CASE ReadEnd
  BY <1>7, GivingTyped DEF ReadEnd, TypeOK
<1>8. CASE UpgradeTls
  <2>1. CASE Giving("temp")
    BY <1>8, <2>1, GivingTyped DEF UpgradeTls, TypeOK
  <2>2. CASE pc' = "ehlo2" /\ asked' = "ehlo2" /\ wire' = <<>>
             /\ UNCHANGED <<caller, link, saying, offersTls, unsettled>>
    BY <1>8, <2>2 DEF UpgradeTls, TypeOK, Commands
  <2> QED
    BY <1>8, <2>1, <2>2 DEF UpgradeTls
<1>9. CASE ServerTake
  BY <1>9 DEF ServerTake, TypeOK, Target
<1>10. CASE ServerReply
  <2>1. CASE saying # "none"
    <3>1. saying \in Commands
      BY <2>1 DEF TypeOK
    <3>2. PICK sep \in {"blank", "alone"} : wire' = Append(wire, Reply(saying, Expected(saying), sep))
      BY <1>10, <2>1 DEF ServerReply
    <3>3. wire' \in Seq(Line)
      BY <3>1, <3>2, ReplyShape, Joined
    <3> QED
      BY <1>10, <2>1, <3>3 DEF ServerReply, TypeOK
  <2>2. CASE saying = "none"
    <3>1. PICK r \in Replies(asked) : wire' = Append(wire, r)
      BY <1>10, <2>2 DEF ServerReply
    <3>2. wire' \in Seq(Line)
      BY <1>10, <2>2, <3>1, ReplyShape, Joined DEF ServerReply
    <3> QED
      BY <1>10, <2>2, <3>2 DEF ServerReply, TypeOK
  <2> QED
    BY <2>1, <2>2
<1>13. CASE ServerBegin
  <2>1. asked \in Commands /\ wire' = Append(wire, Reply(asked, Expected(asked), "dash"))
    BY <1>13 DEF ServerBegin
  <2>2. wire' \in Seq(Line)
    BY <2>1, ReplyShape, Joined
  <2> QED
    BY <1>13, <2>1, <2>2 DEF ServerBegin, TypeOK
<1>14. CASE ServerMore
  <2>1. saying \in Commands /\ wire' = Append(wire, Reply(saying, Expected(saying), "dash"))
    BY <1>14 DEF ServerMore, TypeOK
  <2>2. wire' \in Seq(Line)
    BY <2>1, ReplyShape, Joined
  <2> QED
    BY <1>14, <2>2 DEF ServerMore, TypeOK
<1>11. CASE Break
  BY <1>11 DEF Break, TypeOK
<1>12. CASE UNCHANGED vars
  BY <1>12 DEF vars, TypeOK
<1> QED
  BY <1>1, <1>2, <1>3, <1>4, <1>5, <1>6, <1>7, <1>8, <1>9, <1>10, <1>11, <1>12, <1>13, <1>14
     DEF Next, Caller, Server, ServerEnds, Finished

\* Every reachable state of deliver_remote is well typed: it stays within the list
\* of hosts and the addresses of the host at hand.
THEOREM TypeCorrect == Spec => []TypeOK
<1>1. Init => TypeOK
  <2>1. <<>> \in Seq(Line)
    BY EmptySeq
  <2>2. 0 \in 0 .. NumHosts /\ 0 \in 0 .. MaxAddrs
    BY NumHostsAssumption, MaxAddrsAssumption
  <2> QED
    BY <2>1, <2>2, Zenon DEF Init, TypeOK, Commands
<1> QED
  BY <1>1, TypeStep, PTL DEF Spec
-----------------------------------------------------------------------------
(* No answer is mistaken for another *)

InDialogue == pc \in Commands \cup {"tls"}

\* Between dialogues nothing is on the wire
Quiet == ~InDialogue => wire = <<>> /\ asked = "none" /\ saying = "none" /\ link = "closed"

\* During one, the server has been asked nothing but the command at hand, and only the greeting may
\* go on when the next command has been sent
OneQuestion ==
  /\ pc \in Commands => asked \in {pc, "none"}
  /\ pc = "tls" => asked = "tls" /\ saying = "none"
  /\ saying = pc => asked = "none"
  /\ saying # "none" => saying = pc \/ (saying = "greet" /\ pc = "ehlo" /\ asked = pc)

\* ... and a line on the wire answers it; only the rest of a greeting may be left
\* over, at EHLO.  All lines of a reply but the last have a dash.
Answers(line) == line.to = pc \/ (pc = "ehlo" /\ line.to = "greet" /\ line.code = 220)
LinesAnswer ==
  pc \in Commands => \A i \in 1 .. Len(wire) :
    /\ Answers(wire[i])
    /\ asked = pc => wire[i].to # pc
    /\ wire[i].to = pc /\ (i < Len(wire) \/ saying = pc) => wire[i].sep = "dash" /\ wire[i].code = Expected(pc)
    /\ pc = "greet" /\ i > 1 => wire[i].code = 220

\* A server says 250 to the message only when it has taken it
TakenInv ==
  pc = "body" =>
    /\ \A i \in 1 .. Len(wire) : wire[i].code = 250 => Target \in took
    /\ saying = "body" => Target \in took

WireInv == Quiet /\ OneQuestion /\ LinesAnswer /\ TakenInv /\ AnswersMatch

\* The line that completes a reply was sent for the command at hand, and it is the
\* last one, unless it is the greeting
LEMMA CompleteLine ==
  ASSUME TypeOK, WireInv, pc \in Commands, wire # <<>>, Complete(pc, Head(wire))
  PROVE  /\ Head(wire).to = pc /\ Head(wire) = wire[1]
         /\ asked = "none"
         /\ pc # "greet" => Len(Tail(wire)) = 0 /\ saying = "none"
         /\ pc = "greet" => saying \in {"greet", "none"}
         /\ pc = "greet" => \A i \in 1 .. Len(Tail(wire)) :
                              Tail(wire)[i].to = "greet" /\ Tail(wire)[i].code = 220
<1>1. Head(wire) = wire[1] /\ Len(wire) \in Nat \ {0} /\ Len(Tail(wire)) = Len(wire) - 1
  BY Dropped
<1>2. 1 \in 1 .. Len(wire)
  BY <1>1
<1>3. wire[1].code = Expected(pc) /\ (pc = "greet" \/ wire[1].sep = "blank")
  BY <1>1 DEF Complete
<1>4. wire[1].to = pc
  <2>1. Answers(wire[1])
    BY <1>2, Zenon DEF WireInv, LinesAnswer
  <2>2. pc = "ehlo" => wire[1].code = 250
    BY <1>3 DEF Expected
  <2> QED
    BY <2>1, <2>2 DEF Answers
<1>5. asked = "none"
  BY <1>2, <1>4, Zenon DEF WireInv, LinesAnswer, OneQuestion
<1>6. pc # "greet" => Len(Tail(wire)) = 0 /\ saying = "none"
  <2>1. 1 < Len(wire) \/ saying = pc => wire[1].sep = "dash"
    BY <1>2, <1>4, Zenon DEF WireInv, LinesAnswer
  <2>2. pc # "greet" => ~(1 < Len(wire)) /\ saying # pc
    BY <1>3, <2>1, Zenon
  <2>3. saying = "none" \/ saying = pc \/ asked = pc
    BY DEF WireInv, OneQuestion
  <2>4. "none" \notin Commands
    BY DEF Commands
  <2> QED
    BY <1>1, <1>5, <2>2, <2>3, <2>4
<1>8. pc = "greet" => saying \in {"greet", "none"}
  BY DEF WireInv, OneQuestion
<1>7. ASSUME pc = "greet", NEW i \in 1 .. Len(Tail(wire))
      PROVE  Tail(wire)[i].to = "greet" /\ Tail(wire)[i].code = 220
  <2>1. i + 1 \in 1 .. Len(wire) /\ i + 1 > 1 /\ Tail(wire)[i] = wire[i + 1]
    BY <1>1, Dropped
  <2> QED
    BY <1>7, <2>1 DEF WireInv, LinesAnswer, Answers
<1> QED
  BY <1>1, <1>4, <1>5, <1>6, <1>7, <1>8

\* A dialogue that ends, and one that has nothing on the wire
LEMMA Hushed ==
  ASSUME strayed' = FALSE, saying' = "none",
         \/ pc' \notin Commands \cup {"tls"} /\ wire' = <<>> /\ asked' = "none" /\ link' = "closed"
         \/ pc' \in Commands /\ wire' = <<>> /\ asked' \in {pc', "none"}
         \/ pc' = "tls" /\ wire' = <<>> /\ asked' = "tls"
  PROVE  WireInv'
<1>1. wire' = <<>> => 1 .. Len(wire') = {}
  OBVIOUS
<1> QED
  BY <1>1 DEF WireInv, Quiet, OneQuestion, LinesAnswer, TakenInv, AnswersMatch, InDialogue,
              Commands

LEMMA GivingHushes ==
  ASSUME TypeOK, NEW error \in {"temp", "perm"}, Giving(error), strayed' = FALSE
  PROVE  WireInv'
<1>1. pc' \in {"connect", "resolve", "done"}
  BY MovesTyped DEF Giving
<1> QED
  BY <1>1, Hushed DEF Giving, HangUp, Commands
\* A server sends a line, the first, a middle or the last one of a reply, to the command c
LEMMA LineSent ==
  ASSUME TypeOK, WireInv, link = "open",
         NEW c \in Commands, c = IF saying = "none" THEN asked ELSE saying,
         NEW r \in Line, r.to = c, wire' = Append(wire, r),
         saying # "none" \/ saying' # "none" => r.code = Expected(c),
         saying' # "none" => r.sep = "dash",
         c = "body" /\ (r.code = 250 \/ saying' # "none") => Target \in took,
         saying' \in {c, "none"}, asked' = IF saying = "none" THEN "none" ELSE asked,
         pc' = pc, link' = link, strayed' = strayed, took' = took, Target' = Target
  PROVE  WireInv'
<1>1. "none" \notin Commands /\ "tls" \notin Commands /\ {"greet", "ehlo", "body"} \subseteq Commands
      /\ Expected("greet") = 220 /\ Expected("ehlo") = 250
  BY DEF Commands, Expected
<1>2. pc \in Commands /\ asked \in {pc, "none"}
      /\ (c = pc \/ (c = "greet" /\ pc = "ehlo" /\ saying = "greet" /\ asked = pc))
  BY <1>1 DEF WireInv, Quiet, OneQuestion, InDialogue
<1>3. OneQuestion'
  BY <1>1, <1>2 DEF WireInv, OneQuestion
<1>4. c = pc /\ saying = "none" => asked = pc /\ asked' = "none"
  BY <1>1, <1>2
<1>5. c = pc /\ saying # "none" => asked = "none" /\ asked' = "none"
  BY <1>1, <1>2 DEF WireInv, OneQuestion
\* What was on the wire before, and the new line behind it
<1>6. /\ Len(wire) \in Nat /\ Len(wire') = Len(wire) + 1
      /\ \A i \in 1 .. Len(wire') : \/ i \in 1 .. Len(wire) /\ wire'[i] = wire[i]
                                    \/ i = Len(wire) + 1 /\ wire'[i] = r
  BY Joined
<1>7. ASSUME NEW i \in 1 .. Len(wire)
      PROVE  /\ Answers(wire[i])
             /\ wire[i].to = pc => (c = pc /\ saying = pc) \/ (c # pc /\ asked # pc)
             /\ wire[i].to = pc => wire[i].sep = "dash" /\ wire[i].code = Expected(pc)
             /\ pc = "greet" /\ i > 1 => wire[i].code = 220
  <2>1. /\ Answers(wire[i])
        /\ asked = pc => wire[i].to # pc
        /\ wire[i].to = pc /\ saying = pc => wire[i].sep = "dash" /\ wire[i].code = Expected(pc)
        /\ pc = "greet" /\ i > 1 => wire[i].code = 220
    BY <1>2, Zenon DEF WireInv, LinesAnswer
  <2> QED
    BY <1>1, <1>2, <1>4, <2>1
<1>8. LinesAnswer'
  <2> SUFFICES ASSUME NEW i \in 1 .. Len(wire')
               PROVE  /\ Answers(wire'[i])
                      /\ asked' = pc => wire'[i].to # pc
                      /\ wire'[i].to = pc /\ (i < Len(wire') \/ saying' = pc) =>
                           wire'[i].sep = "dash" /\ wire'[i].code = Expected(pc)
                      /\ pc = "greet" /\ i > 1 => wire'[i].code = 220
    BY DEF LinesAnswer, Answers
  <2>1. CASE i \in 1 .. Len(wire) /\ wire'[i] = wire[i]
    <3>1. asked' = pc => asked = pc
      BY <1>1, <1>2
    <3>2. asked' = pc => wire[i].to # pc
      BY <1>2, <2>1, <3>1 DEF WireInv, LinesAnswer
    <3> QED
      BY <1>7, <2>1, <3>2
  <2>2. CASE i = Len(wire) + 1 /\ wire'[i] = r
    <3>1. Answers(r)
      <4>1. saying = "greet" => r.code = Expected(c)
        OBVIOUS
      <4> QED
        BY <1>1, <1>2, <4>1 DEF Answers
    <3>2. asked' = pc => r.to # pc
      BY <1>1, <1>2, <1>4, <1>5
    <3>3. ~(i < Len(wire')) /\ (saying' = pc => r.sep = "dash" /\ (r.to = pc => r.code = Expected(pc)))
      BY <1>1, <1>2, <1>6, <2>2
    <3>4. pc = "greet" /\ i > 1 => r.code = 220
      <4>1. SUFFICES ASSUME pc = "greet", i > 1 PROVE saying # "none"
        BY <1>1, <1>2
      <4>2. 1 \in 1 .. Len(wire)
        BY <1>6, <2>2, <4>1
      <4>3. wire[1].to = pc
        BY <1>1, <1>7, <4>1, <4>2 DEF Answers
      <4> QED
        BY <1>1, <1>2, <1>7, <4>1, <4>2, <4>3
    <3> QED
      BY <2>2, <3>1, <3>2, <3>3, <3>4
  <2> QED
    BY <1>6, <2>1, <2>2
<1>9. TakenInv'
  <2>1. SUFFICES ASSUME pc = "body"
                 PROVE  /\ \A i \in 1 .. Len(wire') : wire'[i].code = 250 => Target \in took
                        /\ saying' = "body" => Target \in took
    BY DEF TakenInv
  <2>2. c = "body" /\ "body" # "none"
    BY <1>2, <2>1
  <2>3. \A i \in 1 .. Len(wire) : wire[i].code = 250 => Target \in took
    BY <2>1 DEF WireInv, TakenInv
  <2> QED
    BY <1>6, <2>2, <2>3
<1> QED
  BY <1>2, <1>3, <1>8, <1>9 DEF WireInv, Quiet, AnswersMatch, InDialogue
-----------------------------------------------------------------------------
LEMMA WireStep == TypeOK /\ WireInv /\ [Next]_vars => WireInv'
<1> SUFFICES ASSUME TypeOK, WireInv, [Next]_vars PROVE WireInv'
  OBVIOUS
<1>0. strayed = FALSE
  BY DEF WireInv, AnswersMatch, TypeOK
<1> USE DEF caller, history
<1>1. CASE LookupMx
  BY <1>0, <1>1, Hushed DEF LookupMx, Return, WireInv, Quiet, InDialogue, Commands
<1>2. ASSUME NEW k \in 0 .. MaxAddrs, Resolve(k) PROVE WireInv'
  <2>1. pc' \in {"connect", "resolve", "done"}
    BY <1>2, MovesTyped DEF Resolve
  <2> QED
    BY <1>0, <1>2, <2>1, Hushed DEF Resolve, WireInv, Quiet, InDialogue, Commands
<1>3. CASE Connect
  <2>1. wire = <<>> /\ asked = "none" /\ saying = "none" /\ link = "closed" /\ strayed' = FALSE
    BY <1>0, <1>3 DEF Connect, WireInv, Quiet, InDialogue, Commands
  <2>2. CASE Advance("temp") /\ UNCHANGED <<link, wire, asked, saying, offersTls>>
    BY <2>1, <2>2, MovesTyped, Hushed DEF Commands
  <2>3. CASE pc' = "greet" /\ asked' = "greet" /\ UNCHANGED <<wire, saying>>
    BY <2>1, <2>3, Hushed DEF Commands
  <2> QED
    BY <1>3, <2>2, <2>3 DEF Connect
<1>4. CASE Proceed
  <2>1. pc \in Commands /\ wire # <<>> /\ Complete(pc, Head(wire))
    BY <1>4 DEF Proceed, Reading
  <2>2. strayed' = FALSE
    BY <1>0, <1>4, <2>1, CompleteLine, Zenon DEF Proceed
  <2>3. CASE Giving("temp")
    BY <2>2, <2>3, GivingHushes
  <2>4. CASE Return("sent") /\ HangUp
    BY <2>2, <2>4, Hushed DEF Return, HangUp, Commands
  <2>5. CASE /\ Following(pc) # "quit" /\ pc' = Following(pc) /\ asked' = Following(pc)
             /\ wire' = Tail(wire) /\ UNCHANGED <<link, saying>>
    <3>1. Following(pc) \in Commands \cup {"tls"} /\ (Following(pc) = "ehlo" <=> pc = "greet")
      BY <2>1, <2>5 DEF Following, Commands
    <3>2. CASE pc = "greet"
      <4>1. pc' = "ehlo" /\ asked' = "ehlo" /\ "ehlo" \in Commands /\ "greet" # "ehlo"
        BY <2>5, <3>1, <3>2 DEF Commands
      <4>2. \A i \in 1 .. Len(wire') : wire'[i].to = "greet" /\ wire'[i].code = 220
        BY <2>1, <2>5, <3>2, CompleteLine
      <4>3. saying' \in {"greet", "none"}
        BY <2>1, <2>5, <3>2, CompleteLine
      <4> QED
        BY <2>2, <4>1, <4>2, <4>3 DEF WireInv, Quiet, OneQuestion, LinesAnswer, Answers, TakenInv,
                                AnswersMatch, InDialogue
    <3>3. CASE pc # "greet"
      <4>1. wire' \in Seq(Line) /\ Len(wire') = 0
        BY <2>1, <2>5, <3>3, CompleteLine, Dropped
      <4>2. wire' = <<>> /\ saying' = "none"
        BY <2>1, <2>5, <3>3, <4>1, CompleteLine, EmptySeq
      <4> QED
        BY <2>2, <2>5, <3>1, <4>2, Hushed
    <3> QED
      BY <3>2, <3>3
  <2> QED
    BY <1>4, <2>3, <2>4, <2>5, Zenon DEF Proceed
<1>5. CASE ReadOn
  <2>1. pc \in Commands /\ wire # <<>> /\ pc' = pc /\ link' = link /\ asked' = asked
        /\ saying' = saying /\ strayed' = FALSE /\ wire' = Tail(wire) /\ Target' = Target /\ took' = took
    BY <1>0, <1>5 DEF ReadOn, Reading, Target
  <2>2. Len(wire') = Len(wire) - 1 /\ Len(wire) \in Nat
        /\ \A i \in 1 .. Len(wire') : i + 1 \in 1 .. Len(wire) /\ wire'[i] = wire[i + 1]
    BY <2>1, Dropped
  <2>3. LinesAnswer'
    BY <2>1, <2>2 DEF WireInv, LinesAnswer, Answers
  <2>4. TakenInv'
    BY <2>1, <2>2 DEF WireInv, TakenInv
  <2> QED
    BY <2>1, <2>3, <2>4 DEF WireInv, Quiet, OneQuestion, AnswersMatch, InDialogue
<1>6. CASE Refuse
  <2>1. Verdict(Head(wire).code) \in {"temp", "perm"}
    BY DEF Verdict
  <2> QED
    BY <1>0, <1>6, <2>1, GivingHushes DEF Refuse
<1>7. CASE ReadEnd
  BY <1>0, <1>7, GivingHushes DEF ReadEnd
<1>8. CASE UpgradeTls
  <2>1. strayed' = FALSE
    BY <1>0, <1>8 DEF UpgradeTls
  <2>2. CASE Giving("temp")
    BY <2>1, <2>2, GivingHushes
  <2>3. CASE pc' = "ehlo2" /\ asked' = "ehlo2" /\ wire' = <<>> /\ saying' = saying
    <3>1. saying = "none"
      BY <1>8 DEF UpgradeTls, WireInv, OneQuestion
    <3> QED
      BY <2>1, <2>3, <3>1, Hushed DEF Commands
  <2> QED
    BY <1>8, <2>2, <2>3 DEF UpgradeTls
<1>9. CASE ServerTake
  <2>1. pc' = pc /\ link' = link /\ asked' = asked /\ saying' = saying /\ wire' = wire
        /\ strayed' = strayed /\ Target' = Target /\ took \subseteq took'
    BY <1>9 DEF ServerTake, Target
  <2> QED
    BY <2>1 DEF WireInv, Quiet, OneQuestion, LinesAnswer, Answers, TakenInv, AnswersMatch,
                InDialogue
<1>10. CASE ServerReply
  <2>1. CASE saying # "none"
    <3>1. saying \in Commands
      BY <2>1 DEF TypeOK
    <3>2. PICK sep \in {"blank", "alone"} : wire' = Append(wire, Reply(saying, Expected(saying), sep))
      BY <1>10, <2>1 DEF ServerReply
    <3>3. /\ Reply(saying, Expected(saying), sep) \in Line
          /\ Reply(saying, Expected(saying), sep).to = saying
          /\ Reply(saying, Expected(saying), sep).code = Expected(saying)
      BY <3>1, ReplyShape
    <3>4. saying = "body" => Target \in took
      BY DEF WireInv, Quiet, OneQuestion, TakenInv, InDialogue, Commands
    <3> QED
      BY <1>10, <2>1, <3>1, <3>2, <3>3, <3>4, LineSent DEF ServerReply, CanSend, Target
  <2>2. CASE saying = "none"
    <3>1. PICK r \in Replies(asked) : /\ asked = "body" => (Target \in took <=> r.code = 250)
                                      /\ wire' = Append(wire, r)
      BY <1>10, <2>2 DEF ServerReply
    <3>2. asked \in Commands
      BY <1>10, <2>2 DEF ServerReply
    <3>3. r \in Line /\ r.to = asked
      BY <3>1, <3>2, ReplyShape
    <3> QED
      BY <1>10, <2>2, <3>1, <3>2, <3>3, LineSent DEF ServerReply, CanSend, Target
  <2> QED
    BY <2>1, <2>2
<1>13. CASE ServerBegin
  <2>1. asked \in Commands /\ wire' = Append(wire, Reply(asked, Expected(asked), "dash"))
    BY <1>13 DEF ServerBegin
  <2>2. /\ Reply(asked, Expected(asked), "dash") \in Line
        /\ Reply(asked, Expected(asked), "dash").to = asked
        /\ Reply(asked, Expected(asked), "dash").code = Expected(asked)
        /\ Reply(asked, Expected(asked), "dash").sep = "dash"
    BY <2>1, ReplyShape
  <2> QED
    BY <1>13, <2>1, <2>2, LineSent DEF ServerBegin, CanSend, Target
<1>14. CASE ServerMore
  <2>1. saying \in Commands /\ wire' = Append(wire, Reply(saying, Expected(saying), "dash"))
    BY <1>14 DEF ServerMore, TypeOK
  <2>2. /\ Reply(saying, Expected(saying), "dash") \in Line
        /\ Reply(saying, Expected(saying), "dash").to = saying
        /\ Reply(saying, Expected(saying), "dash").code = Expected(saying)
        /\ Reply(saying, Expected(saying), "dash").sep = "dash"
    BY <2>1, ReplyShape
  <2>3. saying = "body" => Target \in took
    BY DEF WireInv, Quiet, OneQuestion, TakenInv, InDialogue, Commands
  <2> QED
    BY <1>14, <2>1, <2>2, <2>3, LineSent DEF ServerMore, CanSend, Target
<1>11. CASE Break
  <2>1. pc' = pc /\ asked' = asked /\ saying' = saying /\ wire' = wire /\ strayed' = strayed
        /\ Target' = Target /\ took = took' /\ InDialogue
    BY <1>11 DEF Break, Target, WireInv, Quiet
  <2> QED
    BY <2>1 DEF WireInv, Quiet, OneQuestion, LinesAnswer, Answers, TakenInv, AnswersMatch,
                InDialogue
<1>12. CASE UNCHANGED vars
  BY <1>12 DEF vars, WireInv, Quiet, OneQuestion, LinesAnswer, Answers, TakenInv, Target,
               AnswersMatch, InDialogue
<1> QED
  BY <1>1, <1>2, <1>3, <1>4, <1>5, <1>6, <1>7, <1>8, <1>9, <1>10, <1>11, <1>12, <1>13, <1>14
     DEF Next, Caller, Server, ServerEnds, Finished

LEMMA WireHolds == Spec => [](TypeOK /\ WireInv)
<1>1. Init => WireInv
  BY DEF Init, WireInv, Quiet, OneQuestion, LinesAnswer, TakenInv, AnswersMatch, InDialogue,
         Commands
<1> QED
  BY <1>1, WireStep, TypeCorrect, PTL DEF Spec

\* A line of the server is taken only for the answer to the command it was sent
\* for, whatever the greeting looks like and wherever the connection breaks.
THEOREM AnswersAreMatched == Spec => []AnswersMatch
<1>1. WireInv => AnswersMatch
  BY DEF WireInv
<1> QED
  BY <1>1, WireHolds, PTL
-----------------------------------------------------------------------------
(* What the call knows about the servers it has been at *)

\* Every message taken elsewhere was left with an error
SettledInv ==
  /\ took \ unsettled \subseteq {Target}
  /\ pc \in {"mx", "resolve", "connect"} => took \subseteq unsettled
  /\ result = "sent" => took # {}
  /\ result # "none" <=> pc = "done"

\* The addresses of a host are tried in order, and none is left out
InOrder == \A t \in tried : \A a \in 1 .. t[2] : <<t[1], a>> \in tried
TriedInv ==
  /\ addr <= addrs
  /\ pc = "mx" => tried = {}
  /\ pc \in {"mx", "resolve"} => addr = 0 /\ addrs = 0
  /\ InOrder
  /\ pc = "connect" => \A a \in 1 .. addr - 1 : <<host, a>> \in tried
  /\ InDialogue => \A a \in 1 .. addr : <<host, a>> \in tried
  /\ pc = "done" /\ result # "sent" /\ tried # {} => host = NumHosts /\ addr = addrs

CallInv == SettledInv /\ TriedInv

\* Leaving an address, or a host without addresses, with an error
LEMMA Left ==
  ASSUME TypeOK, CallInv, pc # "done", NEW error \in {"temp", "perm"}, Advance(error),
         took' = took, took \subseteq unsettled',
         InOrder', \A a \in 1 .. addr : <<host, a>> \in tried'
  PROVE  CallInv'
<1> USE NumHostsAssumption, MaxAddrsAssumption
<1>1. addr <= addrs /\ result = "none"
  BY DEF CallInv, TriedInv, SettledInv
<1>2. pc' \in {"connect", "resolve", "done"} /\ ~InDialogue'
  BY MovesTyped DEF InDialogue, Commands
<1>3. SettledInv'
  <2>1. result' # "sent" /\ (result' # "none" <=> pc' = "done")
    BY <1>1, Moves
  <2> QED
    BY <1>2, <2>1 DEF SettledInv
<1>4. CASE pc' = "connect"
  <2>1. addr' <= addrs' /\ addr' - 1 = addr /\ host' = host
    BY <1>4, Moves DEF TypeOK
  <2> QED
    BY <1>2, <1>3, <1>4, <2>1 DEF CallInv, TriedInv
<1>5. CASE pc' = "resolve"
  BY <1>2, <1>3, <1>5, Moves DEF CallInv, TriedInv
<1>6. CASE pc' = "done"
  <2>1. /\ ~(addr < addrs) /\ ~(host < NumHosts)
        /\ host' = host /\ addr' = addr /\ addrs' = addrs
    BY <1>6, Moves
  <2>2. addr = addrs /\ host = NumHosts
    BY <1>1, <2>1 DEF TypeOK
  <2> QED
    BY <1>2, <1>3, <1>6, <2>1, <2>2 DEF CallInv, TriedInv
<1> QED
  BY <1>2, <1>4, <1>5, <1>6

\* A dialogue that ended in an error
LEMMA LeftByGiving ==
  ASSUME TypeOK, CallInv, InDialogue, NEW error \in {"temp", "perm"}, Giving(error),
         took' = took, tried' = tried
  PROVE  CallInv'
<1>1. took \subseteq unsettled'
  BY DEF Giving, CallInv, SettledInv
<1>2. InOrder' /\ \A a \in 1 .. addr : <<host, a>> \in tried'
  BY DEF CallInv, TriedInv, InOrder
<1>3. pc # "done"
  BY DEF InDialogue, Commands
<1> QED
  BY <1>1, <1>2, <1>3, Left DEF Giving

\* A dialogue that goes on
LEMMA GoesOn ==
  ASSUME TypeOK, CallInv, InDialogue, InDialogue', UNCHANGED <<caller, tried, unsettled>>,
         took' \subseteq took \cup {Target}, took \subseteq took'
  PROVE  CallInv'
<1>1. pc \notin {"mx", "resolve", "connect", "done"} /\ pc' \notin {"mx", "resolve", "connect", "done"}
  BY DEF InDialogue, Commands
<1>2. SettledInv'
  BY <1>1 DEF CallInv, SettledInv, caller, Target
<1>3. TriedInv'
  BY <1>1 DEF CallInv, TriedInv, InOrder, caller
<1> QED
  BY <1>2, <1>3 DEF CallInv

LEMMA CallStep == TypeOK /\ WireInv /\ CallInv /\ [Next]_vars => CallInv'
<1> USE NumHostsAssumption, MaxAddrsAssumption
<1> SUFFICES ASSUME TypeOK, WireInv, CallInv, [Next]_vars PROVE CallInv'
  OBVIOUS
<1>1. CASE LookupMx
  <2>1. /\ tried = {} /\ took \subseteq unsettled /\ addr <= addrs /\ result = "none"
        /\ UNCHANGED <<tried, took, unsettled, addr, addrs>>
    BY <1>1 DEF LookupMx, CallInv, SettledInv, TriedInv
  <2>2. CASE pc' = "resolve" /\ UNCHANGED result
    <3>1. addr = 0 /\ addrs = 0
      BY <1>1 DEF LookupMx, CallInv, TriedInv
    <3> QED
      BY <2>1, <2>2, <3>1 DEF CallInv, SettledInv, TriedInv, InOrder, InDialogue, Commands
  <2>3. CASE \E r \in {"perm", "temp"} : Return(r)
    BY <2>1, <2>3 DEF Return, CallInv, SettledInv, TriedInv, InOrder, InDialogue, Commands
  <2> QED
    BY <1>1, <2>2, <2>3 DEF LookupMx
<1>2. ASSUME NEW k \in 0 .. MaxAddrs, Resolve(k) PROVE CallInv'
  <2>1. /\ pc = "resolve" /\ took' = took /\ tried' = tried /\ unsettled' = unsettled
        /\ addr = 0 /\ took \subseteq unsettled /\ InOrder'
    BY <1>2 DEF Resolve, history, CallInv, SettledInv, TriedInv, InOrder
  <2>2. CASE k = 0
    BY <1>2, <2>1, <2>2, Left DEF Resolve
  <2>3. CASE k # 0
    BY <1>2, <2>1, <2>3
       DEF Resolve, CallInv, SettledInv, TriedInv, InDialogue, Commands, Target
  <2> QED
    BY <2>2, <2>3
<1>3. CASE Connect
  <2>1. /\ pc = "connect" /\ took' = took /\ unsettled' = unsettled
        /\ took \subseteq unsettled /\ tried' = tried \cup {<<host, addr>>}
    BY <1>3 DEF Connect, CallInv, SettledInv, Target
  <2>2. \A a \in 1 .. addr : <<host, a>> \in tried'
    <3>1. \A a \in 1 .. addr : a = addr \/ a \in 1 .. addr - 1
      BY DEF TypeOK
    <3> QED
      BY <2>1, <3>1 DEF CallInv, TriedInv
  <2>3. InOrder'
    <3>1. SUFFICES ASSUME NEW t \in tried', NEW a \in 1 .. t[2]
                   PROVE  <<t[1], a>> \in tried'
      BY DEF InOrder
    <3>2. CASE t \in tried
      BY <2>1, <3>2 DEF CallInv, TriedInv, InOrder
    <3>3. CASE t = <<host, addr>>
      BY <2>2, <3>3
    <3> QED
      BY <2>1, <3>2, <3>3
  <2>4. CASE Advance("temp")
    BY <2>1, <2>2, <2>3, <2>4, Left
  <2>5. CASE pc' = "greet" /\ UNCHANGED caller
    BY <2>1, <2>2, <2>3, <2>5
       DEF CallInv, SettledInv, TriedInv, InDialogue, Commands, Target, caller
  <2> QED
    BY <1>3, <2>4, <2>5 DEF Connect
<1>4. CASE Proceed
  <2>1. /\ pc \in Commands /\ wire # <<>> /\ Complete(pc, Head(wire)) /\ InDialogue
        /\ took' = took /\ tried' = tried
    BY <1>4 DEF Proceed, Reading, InDialogue
  <2>2. CASE Giving("temp")
    BY <2>1, <2>2, LeftByGiving
  <2>3. CASE /\ Following(pc) # "quit" /\ pc' = Following(pc)
             /\ UNCHANGED <<caller, link, saying, offersTls, unsettled>>
    <3>1. InDialogue'
      BY <2>1, <2>3 DEF Following, Commands, InDialogue
    <3> QED
      BY <2>1, <2>3, <3>1, GoesOn
  \* Only the answer 250 to the message itself makes a success
  <2>4. CASE /\ Following(pc) = "quit" /\ Return("sent")
             /\ UNCHANGED <<host, addr, addrs, lastError, unsettled>>
    <3>1. pc = "body" /\ Expected("body") = 250
      BY <2>1, <2>4 DEF Following, Commands, Expected
    <3>2. 1 \in 1 .. Len(wire) /\ wire[1].code = 250
      BY <2>1, <3>1, Dropped DEF Complete
    <3>3. took # {}
      BY <3>1, <3>2, Zenon DEF WireInv, TakenInv
    <3>4. pc' = "done" /\ result' = "sent"
      BY <2>4 DEF Return
    <3> QED
      BY <2>1, <2>4, <3>3, <3>4
         DEF CallInv, SettledInv, TriedInv, InOrder, InDialogue, Commands, Target
  <2> QED
    BY <1>4, <2>2, <2>3, <2>4, Zenon DEF Proceed
<1>5. CASE ReadOn
  BY <1>5, GoesOn DEF ReadOn, Reading, history, InDialogue
<1>6. CASE Refuse
  <2>1. Verdict(Head(wire).code) \in {"temp", "perm"}
    BY DEF Verdict
  <2> QED
    BY <1>6, <2>1, LeftByGiving DEF Refuse, Reading, InDialogue
<1>7. CASE ReadEnd
  BY <1>7, LeftByGiving DEF ReadEnd, Reading, InDialogue
<1>8. CASE UpgradeTls
  <2>1. CASE Giving("temp")
    BY <1>8, <2>1, LeftByGiving DEF UpgradeTls, InDialogue
  <2>2. CASE pc' = "ehlo2" /\ UNCHANGED <<caller, link, saying, offersTls, unsettled>>
    BY <1>8, <2>2, GoesOn DEF UpgradeTls, InDialogue, Commands
  <2> QED
    BY <1>8, <2>1, <2>2 DEF UpgradeTls
<1>9. CASE ServerTake
  <2>1. InDialogue /\ InDialogue'
    BY <1>9 DEF ServerTake, WireInv, Quiet, InDialogue
  <2> QED
    BY <1>9, <2>1, GoesOn DEF ServerTake
<1>10. CASE ServerReply \/ ServerBegin \/ ServerMore
  <2>1. InDialogue /\ InDialogue'
    BY <1>10 DEF ServerReply, ServerBegin, ServerMore, CanSend, WireInv, Quiet, InDialogue
  <2> QED
    BY <1>10, <2>1, GoesOn DEF ServerReply, ServerBegin, ServerMore, history
<1>11. CASE Break
  <2>1. InDialogue /\ InDialogue'
    BY <1>11 DEF Break, WireInv, Quiet, InDialogue
  <2> QED
    BY <1>11, <2>1, GoesOn DEF Break, history
<1>12. CASE UNCHANGED vars
  BY <1>12 DEF vars, CallInv, SettledInv, TriedInv, InOrder, InDialogue, Target
<1> QED
  BY <1>1, <1>2, <1>3, <1>4, <1>5, <1>6, <1>7, <1>8, <1>9, <1>10, <1>11, <1>12
     DEF Next, Caller, Server, ServerEnds, Finished

LEMMA CallHolds == Spec => [](TypeOK /\ WireInv /\ CallInv)
<1>1. Init => CallInv
  BY NumHostsAssumption, MaxAddrsAssumption
     DEF Init, CallInv, SettledInv, TriedInv, InOrder, InDialogue, Commands
<1> QED
  BY <1>1, CallStep, WireHolds, PTL DEF Spec

\* The message is offered to another server while one has it only if the dialogue
\* with that one ended in an error.
THEOREM TakenTwiceAfterError == Spec => []TakenTwiceOnlyAfterError
<1>1. CallInv => TakenTwiceOnlyAfterError
  BY DEF CallInv, SettledInv, TakenTwiceOnlyAfterError
<1> QED
  BY <1>1, CallHolds, PTL

\* An error is returned only when no address of the last host is left, and at no
\* host was an address left out.
THEOREM ListIsExhausted == Spec => []ListExhausted
<1>1. CallInv => ListExhausted
  BY DEF CallInv, SettledInv, TriedInv, InOrder, ListExhausted
<1> QED
  BY <1>1, CallHolds, PTL

\* A step to another address, or to the end, that brings the error along
LEMMA VerdictBrought ==
  ASSUME TypeOK, result = "none", NEW error \in {"temp", "perm"}, Advance(error),
         error = "perm" => Target \in refused'
  PROVE  result' = "perm" => Target' \in refused'
BY Moves, Zenon DEF Target

\* One step keeps the reason of a permanent verdict
LEMMA ReasonStep ==
  TypeOK /\ CallInv /\ PermanentHasReason /\ [Next]_vars => PermanentHasReason'
<1> SUFFICES ASSUME TypeOK, CallInv, PermanentHasReason, [Next]_vars PROVE PermanentHasReason'
  OBVIOUS
<1>1. pc # "done" => result = "none"
  BY DEF CallInv, SettledInv
<1>2. CASE LookupMx
  BY <1>2 DEF LookupMx, Return, PermanentHasReason, Target, CallInv, SettledInv
<1>3. ASSUME NEW k \in 0 .. MaxAddrs, Resolve(k) PROVE PermanentHasReason'
  BY <1>1, <1>3, VerdictBrought DEF Resolve, PermanentHasReason
<1>4. CASE Connect
  <2>1. result = "none"
    BY <1>1, <1>4 DEF Connect
  <2>2. CASE UNCHANGED caller
    BY <2>1, <2>2 DEF caller, PermanentHasReason
  <2>3. CASE Advance("temp")
    BY <2>1, <2>3, VerdictBrought DEF PermanentHasReason
  <2> QED
    BY <1>4, <2>2, <2>3 DEF Connect
<1>5. ASSUME Proceed \/ ReadEnd \/ UpgradeTls PROVE PermanentHasReason'
  <2>1. result = "none"
    BY <1>1, <1>5 DEF Proceed, ReadEnd, UpgradeTls, Reading, Commands
  <2>2. CASE Giving("temp")
    BY <2>1, <2>2, VerdictBrought DEF Giving, PermanentHasReason
  <2>3. CASE result' = result \/ result' = "sent"
    BY <2>1, <2>3 DEF PermanentHasReason
  <2> QED
    BY <1>5, <2>2, <2>3 DEF Proceed, ReadEnd, UpgradeTls, Return, caller
<1>6. CASE ReadOn \/ Server \/ Finished \/ UNCHANGED vars
  BY <1>6 DEF ReadOn, Server, ServerEnds, ServerTake, ServerReply, ServerBegin, ServerMore, Break,
              Finished, vars, caller, history,
              PermanentHasReason, Target
<1>7. CASE Refuse
  <2>1. result = "none"
    BY <1>1, <1>7 DEF Refuse, Reading, Commands
  <2>2. /\ Verdict(Head(wire).code) \in {"temp", "perm"}
        /\ Verdict(Head(wire).code) = "perm" => Target \in refused'
    BY <1>7 DEF Refuse, Verdict
  <2> QED
    BY <1>7, <2>1, <2>2, VerdictBrought DEF Refuse, Giving, PermanentHasReason
<1> QED
  BY <1>2, <1>3, <1>4, <1>5, <1>6, <1>7 DEF Next, Caller

\* A mail bounces on the word of the last server it was tried at, or for want of any.
THEOREM PermanentIsRefused == Spec => []PermanentHasReason
<1>1. Init => PermanentHasReason
  BY DEF Init, PermanentHasReason
<1> QED
  BY <1>1, ReasonStep, CallHolds, PTL DEF Spec
-----------------------------------------------------------------------------
(* The contract of deliver_one's calls *)

\* Servers and caller may do what they like: deliver_remote is an implementation
\* of DeliveryAttempt, so Ok stands for a message that a server took.
THEOREM ContractIsKept == Spec => KeepsContract
<1>1. Init => Attempt!Init
  BY DEF Init, Attempt!Init
<1>2. TypeOK /\ WireInv /\ CallInv /\ CallInv' /\ [Next]_vars => [Attempt!Next]_Attempt!vars
  <2> SUFFICES ASSUME TypeOK, WireInv, CallInv, CallInv', [Next]_vars
               PROVE  [Attempt!Next]_Attempt!vars
    OBVIOUS
  <2>1. CASE ServerTake
    <3>1. result = "none" /\ result' = result /\ took' # {}
      BY <2>1 DEF ServerTake, caller, WireInv, Quiet, InDialogue, Commands, CallInv, SettledInv
    <3> QED
      BY <3>1 DEF Attempt!Next, Attempt!HandOver
  <2>2. CASE took' = took
    <3>1. CASE result' = result
      BY <2>2, <3>1 DEF Attempt!vars
    <3>2. CASE result' # result
      <4>1. result = "none"
        <5>1. CASE pc = "done"
          <6>1. pc \notin Commands \cup {"mx", "resolve", "connect", "tls"}
            BY <5>1 DEF Commands
          <6>2. ~Caller
            BY <6>1 DEF Caller, LookupMx, Resolve, Connect, Proceed, ReadOn, Refuse, ReadEnd,
                        UpgradeTls, Reading
          <6>3. result' = result
            BY <6>2 DEF Next, Server, ServerEnds, ServerTake, ServerReply, ServerBegin, ServerMore, Break,
              Finished, vars, caller
          <6> QED
            BY <3>2, <6>3
        <5>2. CASE pc # "done"
          BY <5>2 DEF CallInv, SettledInv
        <5> QED
          BY <5>1, <5>2
      <4>2. result' \in {"sent", "temp", "perm"}
        BY <3>2, <4>1, TypeStep DEF TypeOK
      <4>3. result' = "sent" => took # {}
        BY <2>2 DEF CallInv, SettledInv
      <4> QED
        BY <2>2, <4>1, <4>2, <4>3 DEF Attempt!Next, Attempt!Return
    <3> QED
      BY <3>1, <3>2
  <2>3. ServerTake \/ took' = took
    BY DEF Next, Caller, Server, Finished, LookupMx, Resolve, Connect, Proceed, ReadOn, Refuse,
           ReadEnd, UpgradeTls, ServerEnds, ServerReply, ServerBegin, ServerMore, Break, vars, history
  <2> QED
    BY <2>1, <2>2, <2>3
<1> QED
  BY <1>1, <1>2, CallHolds, PTL DEF Spec, KeepsContract, Attempt!Spec
-----------------------------------------------------------------------------
(* The call comes to an end *)

\* Less ahead already in the first nine numbers: more than a line is over
Sooner(x, y) ==
  \E i \in 1 .. 9 : x[i] < y[i] /\ \A j \in 1 .. i - 1 : x[j] = y[j]

\* One of the nine numbers becomes less, and those before it stay
LEMMA Forward ==
  ASSUME NEW i \in 1 .. 9, Ahead'[i] < Ahead[i], \A j \in 1 .. i - 1 : Ahead'[j] = Ahead[j]
  PROVE  Sooner(Ahead', Ahead)
<1> DEFINE x == Ahead'
           y == Ahead
<1> HIDE DEF x, y
<1>1. x[i] < y[i] /\ \A j \in 1 .. i - 1 : x[j] = y[j]
  BY DEF x, y
<1>2. Sooner(x, y)
  BY <1>1 DEF Sooner
<1> QED
  BY <1>2 DEF x, y

LEMMA Parts ==
  /\ Ahead[1] = Flag(result = "none") /\ Ahead[2] = NumHosts - host
  /\ Ahead[3] = Flag(pc = "resolve") /\ Ahead[4] = addrs - addr /\ Ahead[5] = CommandsLeft(pc)
  /\ Ahead[6] = Flag(link = "open") /\ Ahead[7] = Flag(asked # "none")
  /\ Ahead[8] = Flag(saying # "none") /\ Ahead[9] = Flag(Target \notin took) /\ Ahead[10] = Len(wire)
BY DEF Ahead

LEMMA PartsNext ==
  /\ Ahead'[1] = Flag(result' = "none") /\ Ahead'[2] = NumHosts - host'
  /\ Ahead'[3] = Flag(pc' = "resolve") /\ Ahead'[4] = addrs' - addr' /\ Ahead'[5] = CommandsLeft(pc')
  /\ Ahead'[6] = Flag(link' = "open") /\ Ahead'[7] = Flag(asked' # "none")
  /\ Ahead'[8] = Flag(saying' # "none") /\ Ahead'[9] = Flag(Target' \notin took') /\ Ahead'[10] = Len(wire')
BY DEF Ahead

\* The numbers before the i-th
LEMMA Before1 == \A j \in 1 .. 1 - 1 : FALSE
OBVIOUS

\* All ten are natural numbers, and so their order is well founded
LEMMA AheadCounts == TypeOK /\ CallInv => \A i \in 1 .. 10 : Ahead[i] \in Nat
<1> SUFFICES ASSUME TypeOK, CallInv PROVE \A i \in 1 .. 10 : Ahead[i] \in Nat
  OBVIOUS
<1>1. NumHosts - host \in Nat /\ addrs - addr \in Nat
  BY NumHostsAssumption, MaxAddrsAssumption DEF TypeOK, CallInv, TriedInv
<1>2. CommandsLeft(pc) \in Nat /\ \A p \in BOOLEAN : Flag(p) \in Nat
  BY DEF CommandsLeft, Flag
<1>3. Len(wire) \in Nat
  BY DEF TypeOK
<1>4. /\ Flag(result = "none") \in Nat /\ Flag(pc = "resolve") \in Nat /\ Flag(link = "open") \in Nat
      /\ Flag(asked # "none") \in Nat /\ Flag(saying # "none") \in Nat /\ Flag(Target \notin took) \in Nat
  BY DEF Flag
<1>5. \A i \in 1 .. 10 : \/ i = 1 \/ i = 2 \/ i = 3 \/ i = 4 \/ i = 5 \/ i = 6 \/ i = 7 \/ i = 8
                          \/ i = 9 \/ i = 10
  OBVIOUS
<1> QED
  BY <1>1, <1>2, <1>3, <1>4, <1>5, Parts

LEMMA ReturnForward ==
  ASSUME CallInv, pc # "done", result' # "none"
  PROVE  Sooner(Ahead', Ahead)
<1>1. Ahead'[1] < Ahead[1]
  BY Parts, PartsNext DEF Flag, CallInv, SettledInv
<1> QED
  BY <1>1, Before1, Forward

LEMMA AdvanceForward ==
  ASSUME TypeOK, CallInv, pc \notin {"mx", "done"}, NEW error \in {"temp", "perm"}, Advance(error)
  PROVE  Sooner(Ahead', Ahead)
<1> USE NumHostsAssumption, MaxAddrsAssumption
<1>1. CASE addr < addrs /\ pc' = "connect" /\ addr' = addr + 1 /\ UNCHANGED <<host, addrs, result>>
  <2>1. pc # "resolve"
    BY <1>1 DEF CallInv, TriedInv, TypeOK
  <2>2. Ahead'[1] = Ahead[1] /\ Ahead'[2] = Ahead[2] /\ Ahead'[3] = Ahead[3]
    BY <1>1, <2>1, Parts, PartsNext DEF Flag
  <2>3. Ahead'[4] < Ahead[4]
    BY <1>1, Parts, PartsNext DEF TypeOK
  <2>4. \A j \in 1 .. 4 - 1 : j = 1 \/ j = 2 \/ j = 3
    OBVIOUS
  <2> QED
    BY <2>2, <2>3, <2>4, Forward
<1>2. CASE host < NumHosts /\ host' = host + 1 /\ UNCHANGED result
  <2>1. Ahead'[1] = Ahead[1] /\ Ahead'[2] < Ahead[2]
    BY <1>2, Parts, PartsNext DEF TypeOK
  <2>2. \A j \in 1 .. 2 - 1 : j = 1
    OBVIOUS
  <2> QED
    BY <2>1, <2>2, Forward
<1>3. CASE result' = error
  BY <1>3, ReturnForward
<1> QED
  BY <1>1, <1>2, <1>3, Moves

\* The next command
LEMMA CommandForward ==
  ASSUME UNCHANGED caller, pc # "resolve", pc' # "resolve", CommandsLeft(pc') < CommandsLeft(pc)
  PROVE  Sooner(Ahead', Ahead)
<1>1. /\ Ahead'[1] = Ahead[1] /\ Ahead'[2] = Ahead[2] /\ Ahead'[3] = Ahead[3] /\ Ahead'[4] = Ahead[4]
      /\ Ahead'[5] < Ahead[5]
  BY Parts, PartsNext DEF caller, Flag
<1>2. \A j \in 1 .. 5 - 1 : j = 1 \/ j = 2 \/ j = 3 \/ j = 4
  OBVIOUS
<1> QED
  BY <1>1, <1>2, Forward

\* Nothing comes back to the lookup of the hosts
HostUnset == pc = "mx" => host = 0

LEMMA HostUnsetStep == HostUnset /\ [Next]_vars => HostUnset'
<1> SUFFICES ASSUME HostUnset, [Next]_vars PROVE HostUnset'
  OBVIOUS
<1>1. CASE UNCHANGED <<pc, caller>>
  BY <1>1 DEF HostUnset, caller
<1>2. CASE pc' # "mx"
  BY <1>2 DEF HostUnset
<1>3. ASSUME NEW error, Advance(error) PROVE pc' # "mx"
  BY <1>3 DEF Advance, Return
<1>4. \A c \in Commands : Following(c) # "mx"
  BY DEF Commands, Following
<1>5. CASE Caller
  BY <1>1, <1>2, <1>3, <1>4, <1>5
     DEF Caller, LookupMx, Resolve, Connect, Proceed, ReadOn, Refuse, ReadEnd, UpgradeTls, Reading,
         Giving, Return
<1>6. CASE ~Caller
  BY <1>1, <1>6 DEF Next, Server, ServerEnds, ServerTake, ServerReply, ServerBegin, ServerMore, Break,
              Finished, vars, caller
<1> QED
  BY <1>5, <1>6

SameNine == \A j \in 1 .. 9 : Ahead'[j] = Ahead[j]

\* The server ends a reply, begins one or takes the message, or the connection ends
LEMMA PeerForward ==
  ASSUME TypeOK, ServerEnds \/ ServerBegin
  PROVE  Sooner(Ahead', Ahead)
<1>s. ASSUME UNCHANGED <<pc, caller>>
      PROVE  /\ Ahead'[1] = Ahead[1] /\ Ahead'[2] = Ahead[2] /\ Ahead'[3] = Ahead[3]
             /\ Ahead'[4] = Ahead[4] /\ Ahead'[5] = Ahead[5]
  BY <1>s, Parts, PartsNext DEF caller
<1>1. CASE ServerTake
  <2>1. /\ UNCHANGED <<pc, caller>> /\ UNCHANGED <<link, asked, saying>>
        /\ Target \notin took /\ took' = took \cup {Target}
    BY <1>1 DEF ServerTake
  <2>2. Ahead'[6] = Ahead[6] /\ Ahead'[7] = Ahead[7] /\ Ahead'[8] = Ahead[8]
    BY <2>1, Parts, PartsNext
  <2>3. Ahead'[9] < Ahead[9]
    <3>1. Target' = Target
      BY <2>1 DEF Target, caller
    <3> QED
      BY <2>1, <3>1, Parts, PartsNext DEF Flag
  <2>4. \A j \in 1 .. 9 - 1 : j = 1 \/ j = 2 \/ j = 3 \/ j = 4 \/ j = 5 \/ j = 6 \/ j = 7 \/ j = 8
    OBVIOUS
  <2> QED
    BY <1>s, <2>1, <2>2, <2>3, <2>4, Forward
\* The first line, or the only one: no answer is due any more
<1>2. CASE ServerBegin \/ (ServerReply /\ saying = "none")
  <2>1. UNCHANGED <<pc, caller>> /\ link' = link /\ asked # "none" /\ asked' = "none"
    BY <1>2 DEF ServerBegin, ServerReply, Commands
  <2>2. Ahead'[6] = Ahead[6] /\ Ahead'[7] < Ahead[7]
    BY <2>1, Parts, PartsNext DEF Flag
  <2>3. \A j \in 1 .. 7 - 1 : j = 1 \/ j = 2 \/ j = 3 \/ j = 4 \/ j = 5 \/ j = 6
    OBVIOUS
  <2> QED
    BY <1>s, <2>1, <2>2, <2>3, Forward
\* The last line of several: none is to be ended any more
<1>3. CASE ServerReply /\ saying # "none"
  <2>1. UNCHANGED <<pc, caller>> /\ link' = link /\ asked' = asked /\ saying # "none" /\ saying' = "none"
    BY <1>3 DEF ServerReply
  <2>2. Ahead'[6] = Ahead[6] /\ Ahead'[7] = Ahead[7] /\ Ahead'[8] < Ahead[8]
    BY <2>1, Parts, PartsNext DEF Flag
  <2>3. \A j \in 1 .. 8 - 1 : j = 1 \/ j = 2 \/ j = 3 \/ j = 4 \/ j = 5 \/ j = 6 \/ j = 7
    OBVIOUS
  <2> QED
    BY <1>s, <2>1, <2>2, <2>3, Forward
<1>4. CASE Break
  <2>1. UNCHANGED <<pc, caller>> /\ link = "open" /\ link' = "broken"
    BY <1>4 DEF Break
  <2>2. Ahead'[6] < Ahead[6]
    BY <2>1, Parts, PartsNext DEF Flag
  <2>3. \A j \in 1 .. 6 - 1 : j = 1 \/ j = 2 \/ j = 3 \/ j = 4 \/ j = 5
    OBVIOUS
  <2> QED
    BY <1>s, <2>1, <2>2, <2>3, Forward
<1> QED
  BY <1>1, <1>2, <1>3, <1>4 DEF ServerEnds

\* What a step leaves ahead: all but ReadOn and ServerMore bring more than a line to an end
LEMMA ForwardStep ==
  ASSUME TypeOK, CallInv, HostUnset, [Next]_vars, ~UNCHANGED vars
  PROVE  \/ Sooner(Ahead', Ahead)
         \/ ReadOn /\ SameNine /\ Ahead'[10] < Ahead[10]
         \/ ServerMore /\ SameNine /\ AnotherLine
<1> USE NumHostsAssumption, MaxAddrsAssumption
<1>s. ASSUME UNCHANGED <<pc, caller>>
      PROVE  /\ Ahead'[1] = Ahead[1] /\ Ahead'[2] = Ahead[2] /\ Ahead'[3] = Ahead[3]
             /\ Ahead'[4] = Ahead[4] /\ Ahead'[5] = Ahead[5]
  BY <1>s, Parts, PartsNext DEF caller
<1>n. \A j \in 1 .. 9 : j = 1 \/ j = 2 \/ j = 3 \/ j = 4 \/ j = 5 \/ j = 6 \/ j = 7 \/ j = 8 \/ j = 9
  OBVIOUS
<1>1. CASE LookupMx
  <2>1. pc = "mx"
    BY <1>1 DEF LookupMx
  <2>2. CASE \E r \in {"perm", "temp"} : Return(r)
    BY <2>1, <2>2, ReturnForward DEF Return
  <2>3. CASE NumHosts > 0 /\ host' = 1 /\ UNCHANGED result
    <3>1. host = 0
      BY <2>1 DEF HostUnset
    <3>2. Ahead'[1] = Ahead[1] /\ Ahead'[2] < Ahead[2]
      BY <2>3, <3>1, Parts, PartsNext DEF TypeOK
    <3>3. \A j \in 1 .. 2 - 1 : j = 1
      OBVIOUS
    <3> QED
      BY <3>2, <3>3, Forward
  <2> QED
    BY <1>1, <2>2, <2>3 DEF LookupMx
<1>2. ASSUME NEW k \in 0 .. MaxAddrs, Resolve(k) PROVE Sooner(Ahead', Ahead)
  <2>1. pc = "resolve"
    BY <1>2 DEF Resolve
  <2>2. CASE k = 0
    BY <1>2, <2>1, <2>2, AdvanceForward DEF Resolve
  <2>3. CASE k # 0
    <3>1. pc' = "connect" /\ UNCHANGED <<host, result>>
      BY <1>2, <2>3 DEF Resolve
    <3>2. Ahead'[1] = Ahead[1] /\ Ahead'[2] = Ahead[2] /\ Ahead'[3] < Ahead[3]
      BY <2>1, <3>1, Parts, PartsNext DEF Flag
    <3>3. \A j \in 1 .. 3 - 1 : j = 1 \/ j = 2
      OBVIOUS
    <3> QED
      BY <3>2, <3>3, Forward
  <2> QED
    BY <2>2, <2>3
<1>3. CASE Connect
  <2>1. pc = "connect"
    BY <1>3 DEF Connect
  <2>2. CASE Advance("temp")
    BY <2>1, <2>2, AdvanceForward
  <2>3. CASE pc' = "greet" /\ UNCHANGED caller
    BY <2>1, <2>3, CommandForward DEF CommandsLeft
  <2> QED
    BY <1>3, <2>2, <2>3 DEF Connect
<1>g. ASSUME NEW error \in {"temp", "perm"}, Giving(error), pc \in Commands \cup {"tls"}
      PROVE  Sooner(Ahead', Ahead)
  <2>1. pc \notin {"mx", "done"} /\ Advance(error)
    BY <1>g DEF Giving, Commands
  <2> QED
    BY <2>1, AdvanceForward
<1>4. CASE Proceed
  <2>1. pc \in Commands
    BY <1>4 DEF Proceed, Reading
  <2>2. CASE Giving("temp")
    BY <1>g, <2>1, <2>2
  <2>3. CASE Following(pc) # "quit" /\ pc' = Following(pc) /\ UNCHANGED caller
    <3>1. CommandsLeft(pc') < CommandsLeft(pc) /\ pc # "resolve" /\ pc' # "resolve"
      BY <2>1, <2>3 DEF Commands, Following, CommandsLeft
    <3> QED
      BY <2>3, <3>1, CommandForward
  <2>4. CASE Return("sent")
    BY <2>1, <2>4, ReturnForward DEF Return, Commands
  <2> QED
    BY <1>4, <2>2, <2>3, <2>4, Zenon DEF Proceed
<1>5. CASE ReadOn
  <2>1. UNCHANGED <<pc, caller>> /\ UNCHANGED <<link, asked, saying, took>> /\ wire # <<>> /\ wire' = Tail(wire)
    BY <1>5 DEF ReadOn, history
  <2>2. Ahead'[6] = Ahead[6] /\ Ahead'[7] = Ahead[7] /\ Ahead'[8] = Ahead[8]
    BY <2>1, Parts, PartsNext
  <2>3. Ahead'[9] = Ahead[9]
    BY <2>1, Parts, PartsNext DEF Target, caller
  <2>4. Ahead'[10] < Ahead[10]
    BY <2>1, Dropped, Parts, PartsNext
  <2> QED
    BY <1>5, <1>s, <2>1, <2>2, <2>3, <2>4, <1>n DEF SameNine
<1>6. CASE Refuse
  <2>1. Verdict(Head(wire).code) \in {"temp", "perm"}
    BY DEF Verdict
  <2> QED
    BY <1>6, <1>g, <2>1 DEF Refuse, Reading
<1>7. CASE ReadEnd
  BY <1>7, <1>g DEF ReadEnd, Reading
<1>8. CASE UpgradeTls
  <2>1. CASE Giving("temp")
    BY <1>8, <1>g, <2>1 DEF UpgradeTls
  <2>2. CASE pc' = "ehlo2" /\ UNCHANGED caller
    BY <1>8, <2>2, CommandForward DEF UpgradeTls, CommandsLeft
  <2> QED
    BY <1>8, <2>1, <2>2 DEF UpgradeTls
<1>9. CASE ServerEnds \/ ServerBegin
  BY <1>9, PeerForward
<1>10. CASE ServerMore
  <2>1. /\ UNCHANGED <<pc, caller>> /\ UNCHANGED <<link, asked, saying, took>> /\ saying # "none"
        /\ Len(wire') = Len(wire) + 1
    <3>1. saying \in Commands /\ wire' = Append(wire, Reply(saying, Expected(saying), "dash"))
      BY <1>10 DEF ServerMore, TypeOK
    <3> QED
      BY <1>10, <3>1, ReplyShape, Joined DEF ServerMore, history
  <2>2. Ahead'[6] = Ahead[6] /\ Ahead'[7] = Ahead[7] /\ Ahead'[8] = Ahead[8]
    BY <2>1, Parts, PartsNext
  <2>3. Ahead'[9] = Ahead[9]
    BY <2>1, Parts, PartsNext DEF Target, caller
  <2> QED
    BY <1>10, <1>s, <2>1, <2>2, <2>3, <1>n DEF SameNine, AnotherLine
<1> QED
  BY <1>1, <1>2, <1>3, <1>4, <1>5, <1>6, <1>7, <1>8, <1>9, <1>10 DEF Next, Caller, Server, Finished

\* The first nine are those of v
Nine(v) == \A j \in 1 .. 9 : Ahead[j] = v[j]

\* Less than now is less than any v that agrees with it in the first nine
LEMMA SoonerThan ==
  ASSUME NEW v, Nine(v), Sooner(Ahead', Ahead)
  PROVE  Before(Ahead', v)
<1> DEFINE x == Ahead'
           y == Ahead
<1>1. \A j \in 1 .. 9 : y[j] = v[j]
  BY DEF Nine
<1>2. Sooner(x, y)
  OBVIOUS
<1>3. Before(x, v)
  <2> HIDE DEF x, y
  <2>1. PICK i \in 1 .. 9 : x[i] < y[i] /\ \A j \in 1 .. i - 1 : x[j] = y[j]
    BY <1>2 DEF Sooner
  <2>2. i \in 1 .. 10 /\ \A j \in 1 .. i - 1 : j \in 1 .. 9
    OBVIOUS
  <2> QED
    BY <1>1, <2>1, <2>2 DEF Before
<1> QED
  BY <1>3

\* A line less to read
LEMMA LineLess ==
  ASSUME SameNine, Ahead'[10] < Ahead[10]
  PROVE  Before(Ahead', Ahead)
<1> DEFINE x == Ahead'
           y == Ahead
<1>1. x[10] < y[10] /\ \A j \in 1 .. 9 : x[j] = y[j]
  BY DEF SameNine
<1>2. Before(x, y)
  <2> HIDE DEF x, y
  <2>1. 10 \in 1 .. 10 /\ \A j \in 1 .. 10 - 1 : j \in 1 .. 9
    OBVIOUS
  <2> QED
    BY <1>1, <2>1 DEF Before
<1> QED
  BY <1>2

\* Nothing but another line leaves as much ahead as before, and that needs a connection
LEMMA LessAhead ==
  ASSUME TypeOK, CallInv, HostUnset, [Next]_vars, ~UNCHANGED vars
  PROVE  /\ Before(Ahead', Ahead) \/ AnotherLine
         /\ link # "open" => Before(Ahead', Ahead)
<1>1. Nine(Ahead)
  BY DEF Nine
<1>2. ServerMore => link = "open"
  BY DEF ServerMore, CanSend
<1> QED
  BY <1>1, <1>2, ForwardStep, SoonerThan, LineLess

\* Each step leaves less ahead, in a well-founded order (AheadCounts), except for one: a server goes on
\* with a reply that it has begun.  So a call that takes infinitely many steps is one that reads, from
\* some time on, the lines of a single reply without end; in any other case it takes finitely many steps,
\* and returns with the fairness of FairSpec.
THEOREM CallGoesForward == Spec => GoesForward /\ [](\A i \in 1 .. 10 : Ahead[i] \in Nat)
<1>1. TypeOK /\ CallInv /\ HostUnset /\ [Next]_vars => [Before(Ahead', Ahead) \/ AnotherLine]_vars
  BY LessAhead
<1>2. Init => HostUnset
  BY DEF Init, HostUnset
<1> QED
  BY <1>1, <1>2, HostUnsetStep, AheadCounts, CallHolds, PTL DEF Spec, GoesForward

\* What is ahead of a call becomes less again and again until it returns, for any number of hosts and
\* addresses, with servers that come to the end of their replies or close: as such numbers cannot become
\* less for ever, of Returns only this induction is left.  That somebody can act is a hypothesis here.
THEOREM CallGetsOn == FairSpec /\ []CallPossible => GetsOn
<1> DEFINE Inv == TypeOK /\ CallInv /\ HostUnset
           At(v) == result = "none" /\ Ahead = v
           Alone(v) == At(v) /\ link # "open"
           Talking(v) == result = "none" /\ link = "open" /\ Nine(v)
           Less(v) == Before(Ahead, v)
<1>1. FairSpec => [][Next]_vars /\ []Inv /\ WF_vars(Caller) /\ WF_vars(ServerEnds)
  <2>1. Init => HostUnset
    BY DEF Init, HostUnset
  <2> QED
    BY <2>1, HostUnsetStep, CallHolds, PTL DEF FairSpec, Spec
<1>2. CallPossible => /\ result = "none" /\ link # "open" => ENABLED <<Caller>>_vars
                      /\ link = "open" => ENABLED <<ServerEnds>>_vars
  BY DEF CallPossible
<1>3. ASSUME NEW v \in [1 .. 10 -> Nat]
      PROVE  FairSpec /\ []CallPossible => (At(v) ~> Less(v))
  <2> DEFINE Lost == Less(v)'
             KeptAlone == Alone(v)'
             KeptTalking == Talking(v)'
  <2>1. At(v) => Alone(v) \/ Talking(v)
    BY DEF Nine
  \* Without a connection there is only the caller
  <2>2. ASSUME Inv, Alone(v), [Next]_vars, ~UNCHANGED vars PROVE Lost
    BY <2>2, LessAhead DEF Before
  <2>3. Alone(v) /\ UNCHANGED vars => KeptAlone
    BY DEF vars, caller, Ahead, Target
  \* With one, lines may come and go, until the reply or the connection ends
  <2>4. ASSUME Inv, Talking(v), [Next]_vars, ~UNCHANGED vars PROVE Lost \/ KeptTalking
    <3>1. CASE Sooner(Ahead', Ahead)
      BY <2>4, <3>1, SoonerThan DEF Before
    <3>2. CASE (ReadOn \/ ServerMore) /\ SameNine
      <4>1. result' = result /\ link' = link
        BY <3>2 DEF ReadOn, ServerMore, caller
      <4>2. Nine(v)'
        BY <2>4, <3>2 DEF Nine, SameNine
      <4> QED
        BY <2>4, <4>1, <4>2
    <3> QED
      BY <2>4, <3>1, <3>2, ForwardStep
  <2>5. Talking(v) /\ UNCHANGED vars => KeptTalking
    <3>1. UNCHANGED vars => Ahead' = Ahead
      BY DEF vars, caller, Ahead, Target
    <3> QED
      BY <3>1 DEF vars, caller, Nine
  <2>6. ASSUME Inv, Talking(v), [Next]_vars, ~UNCHANGED vars, ServerEnds PROVE Lost
    BY <2>6, PeerForward, SoonerThan
  <2> HIDE DEF Inv, At, Alone, Talking, Less
  <2>7. Inv /\ Alone(v) /\ [Next]_vars => Alone(v)' \/ Less(v)'
    BY <2>2, <2>3
  <2>8. Inv /\ Alone(v) /\ [Next]_vars /\ <<Caller>>_vars => Less(v)'
    BY <2>2
  <2>9. Inv /\ Talking(v) /\ [Next]_vars => Talking(v)' \/ Less(v)'
    BY <2>4, <2>5
  <2>10. Inv /\ Talking(v) /\ [Next]_vars /\ <<ServerEnds>>_vars => Less(v)'
    BY <2>6
  <2>11. /\ Alone(v) => result = "none" /\ link # "open"
         /\ Talking(v) => link = "open"
    BY DEF Alone, Talking, At
  <2>12. /\ CallPossible /\ Alone(v) => ENABLED <<Caller>>_vars
         /\ CallPossible /\ Talking(v) => ENABLED <<ServerEnds>>_vars
    BY <1>2, <2>11
  <2> HIDE DEF FairSpec, CallPossible, Lost, KeptAlone, KeptTalking
  <2>13. FairSpec /\ []CallPossible => (Alone(v) ~> Less(v))
    BY <1>1, <2>7, <2>8, <2>12, PTL
  <2>14. FairSpec /\ []CallPossible => (Talking(v) ~> Less(v))
    BY <1>1, <2>9, <2>10, <2>12, PTL
  <2> QED
    BY <2>1, <2>13, <2>14, PTL
<1> HIDE DEF FairSpec, CallPossible
<1> QED
  BY <1>3 DEF GetsOn
=============================================================================
