----------------------------- MODULE SmtpProofs -----------------------------
(***************************************************************************)
(* Proofs about SmtpSession, for any number of sessions at a time, of      *)
(* mails, recipients and domains: types, what a 250 stands for, that       *)
(* nothing else is queued, and who may send to other servers.              *)
(***************************************************************************)
EXTENDS MailSystem, SequenceTheorems, TLAPS

\* What Become does to the sessions
LEMMA Becomes ==
  ASSUME TypeOK, NEW s \in Sessions, NEW x, Become(s, x)
  PROVE  /\ ses'[s] = x
         /\ \A t \in Sessions \ {s} : ses'[t] = ses[t]
         /\ DOMAIN ses' = Sessions
         /\ x \in Session => ses' \in [Sessions -> Session]
BY DEF TypeOK, Become

LEMMA FreshTyped ==
  /\ \A a, b \in BOOLEAN : Fresh(a, b) \in Session
  /\ Closed \in Session
<1>1. <<>> \in Seq(Rcpts)
  BY EmptySeq
<1> QED
  BY <1>1 DEF Fresh, Closed, Session, Writing

LEMMA ResetTyped ==
  ASSUME NEW x \in Session
  PROVE  Reset(x) \in Session
<1>1. <<>> \in Seq(Rcpts)
  BY EmptySeq
<1> QED
  BY <1>1 DEF Reset, Session

LEMMA FailTyped ==
  ASSUME NEW x \in Session
  PROVE  Fail(x) \in Session
BY DEF Fail, Session, Writing

LEMMA StepTyped ==
  ASSUME NEW x \in Session, NEW end \in {"log", "answer"}
  PROVE  Step(x, end) \in Session
<1>1. CASE x.next < Len(x.rcpts)
  <2>1. Step(x, end) = [x EXCEPT !.next = x.next + 1]
    BY <1>1 DEF Step
  <2> QED
    BY <2>1 DEF Session
<1>2. CASE ~(x.next < Len(x.rcpts))
  <2>1. CASE end = "log"
    <3>1. Step(x, end) = [x EXCEPT !.pc = "log", !.next = 1, !.ok = FALSE]
      BY <1>2, <2>1 DEF Step
    <3>2. [x EXCEPT !.pc = "log", !.next = 1, !.ok = FALSE] \in Session
      BY DEF Session, Writing
    <3> QED
      BY <3>1, <3>2
  <2>2. CASE end = "answer"
    <3>1. Step(x, end) = [x EXCEPT !.pc = "answer", !.next = 0, !.ok = TRUE]
      BY <1>2, <2>2 DEF Step
    <3>2. [x EXCEPT !.pc = "answer", !.next = 0, !.ok = TRUE] \in Session
      BY DEF Session, Writing
    <3> QED
      BY <3>1, <3>2
  <2> QED
    BY <2>1, <2>2
<1> QED
  BY <1>1, <1>2
----------------------------------------------------------------------------
(* Types *)

\* The number of recipients is bounded, a round of a loop has its recipient, and what
\* the client has been told is what the session holds.
Fit(x) ==
  /\ x.named = x.rcpts
  /\ Len(x.rcpts) <= MaxRecipients
  /\ x.pc \in {"command", "closed"} <=> x.mail = "none"
  /\ x.mail # "none" => x.rcpts # <<>>
  /\ x.pc \in {"queue", "log"} => x.next \in 1 .. Len(x.rcpts)

TInv == TypeOK /\ \A s \in Sessions : Fit(ses[s])

\* Each session is as good as the records that become of it.
LEMMA OneSession ==
  ASSUME TInv, NEW s \in Sessions, NEW x \in Session, Fit(x), Become(s, x)
  PROVE  ses' \in [Sessions -> Session] /\ \A t \in Sessions : Fit(ses'[t])
<1>1. ses'[s] = x /\ \A t \in Sessions \ {s} : ses'[t] = ses[t]
  BY Becomes DEF TInv
<1>2. ses' \in [Sessions -> Session]
  BY Becomes DEF TInv
<1> QED
  BY <1>1, <1>2 DEF TInv

LEMMA ClosedFit ==
  /\ \A a, b \in BOOLEAN : Fit(Fresh(a, b))
  /\ Fit(Closed)
BY BoundsAssumption, EmptySeq DEF Fit, Fresh, Closed

LEMMA ResetFit ==
  ASSUME NEW x \in Session, x.pc \in {"command", "closed"}
  PROVE  Fit(Reset(x))
<1>1. Len(<<>>) = 0
  OBVIOUS
<1> QED
  BY <1>1, BoundsAssumption DEF Fit, Reset, Session

LEMMA RcptFit ==
  ASSUME NEW x \in Session, NEW r \in Rcpts, Fit(x), x.pc = "command",
         Len(x.rcpts) < MaxRecipients
  PROVE  LET y == [x EXCEPT !.rcpts = Append(@, r), !.named = Append(@, r)]
         IN  y \in Session /\ Fit(y)
<1>1. x.rcpts \in Seq(Rcpts) /\ x.named = x.rcpts
  BY DEF Session, Fit
<1>2. Append(x.rcpts, r) \in Seq(Rcpts) /\ Len(Append(x.rcpts, r)) = Len(x.rcpts) + 1
  BY <1>1, AppendProperties
<1>3. Len(x.rcpts) + 1 <= MaxRecipients
  BY <1>1, BoundsAssumption, LenProperties
<1> QED
  BY <1>1, <1>2, <1>3 DEF Session, Fit

\* What any step of a session makes of it is typed and fit.
LEMMA Successor ==
  ASSUME TInv, NEW s \in Sessions, Work(s)
  PROVE  \E x \in Session : Become(s, x) /\ Fit(x)
<1> DEFINE y == ses[s]
<1>1. y \in Session /\ Fit(y)
  BY DEF TInv, TypeOK
<1> HIDE DEF y
<1>2. CASE Connect(s)
  <2>1. PICK kind \in {<<FALSE, FALSE>>, <<TRUE, FALSE>>, <<TRUE, TRUE>>} :
               Become(s, Fresh(kind[1], kind[2]))
    BY <1>2 DEF Connect
  <2>2. kind[1] \in BOOLEAN /\ kind[2] \in BOOLEAN
    <3>1. \A a, b : <<a, b>>[1] = a /\ <<a, b>>[2] = b
      OBVIOUS
    <3>2. CASE kind = <<FALSE, FALSE>>
      BY <3>1, <3>2, Zenon
    <3>3. CASE kind = <<TRUE, FALSE>>
      BY <3>1, <3>3, Zenon
    <3>4. CASE kind = <<TRUE, TRUE>>
      BY <3>1, <3>4, Zenon
    <3> QED
      BY <3>2, <3>3, <3>4
  <2> QED
    BY <2>1, <2>2, FreshTyped, ClosedFit
<1>3. CASE Break(s)
  <2>1. PICK l \in {"eof", "error"} : Become(s, [y EXCEPT !.link = l])
    BY <1>3 DEF Break, y
  <2>2. [y EXCEPT !.link = l] \in Session /\ Fit([y EXCEPT !.link = l])
    BY <1>1 DEF Session, Fit
  <2> QED
    BY <2>1, <2>2
<1>4. CASE Close(s) \/ Quit(s)
  BY <1>4, FreshTyped, ClosedFit DEF Close, Quit
<1>5. CASE StartTls(s)
  <2> DEFINE x == [Reset(y) EXCEPT !.tls = TRUE, !.auth = FALSE]
  <2>1. Become(s, x) \/ Become(s, Closed)
    BY <1>5 DEF StartTls, y
  <2>2. Fit(Reset(y)) /\ Reset(y) \in Session
    BY <1>1, <1>5, ResetFit, ResetTyped DEF StartTls, Ready, y
  <2>3. x \in Session /\ Fit(x)
    BY <2>2 DEF Session, Fit
  <2> QED
    BY <2>1, <2>3, FreshTyped, ClosedFit
<1>6. CASE Auth(s)
  <2>1. Become(s, [y EXCEPT !.auth = TRUE])
    BY <1>6 DEF Auth, y
  <2>2. [y EXCEPT !.auth = TRUE] \in Session /\ Fit([y EXCEPT !.auth = TRUE])
    BY <1>1 DEF Session, Fit
  <2> QED
    BY <2>1, <2>2
<1>7. CASE Mail(s)
  <2>1. Become(s, [y EXCEPT !.from = TRUE])
    BY <1>7 DEF Mail, y
  <2>2. [y EXCEPT !.from = TRUE] \in Session /\ Fit([y EXCEPT !.from = TRUE])
    BY <1>1 DEF Session, Fit
  <2> QED
    BY <2>1, <2>2
<1>8. CASE Rset(s)
  BY <1>1, <1>8, ResetFit, ResetTyped DEF Rset, Ready, y
<1>9. ASSUME NEW r \in Rcpts, Rcpt(s, r)
      PROVE  \E x \in Session : Become(s, x) /\ Fit(x)
  <2>1. Become(s, [y EXCEPT !.rcpts = Append(@, r), !.named = Append(@, r)])
    BY <1>9 DEF Rcpt, y
  <2>2. y.pc = "command" /\ Len(y.rcpts) < MaxRecipients
    BY <1>9 DEF Rcpt, Ready, y
  <2> QED
    BY <1>1, <2>1, <2>2, RcptFit
<1>10. ASSUME NEW m \in Mails, Data(s, m)
       PROVE  \E x \in Session : Become(s, x) /\ Fit(x)
  <2>1. Become(s, [y EXCEPT !.pc = "data", !.mail = m])
    BY <1>10 DEF Data, y
  <2>2. y.rcpts # <<>>
    BY <1>10 DEF Data, y
  <2>3. /\ [y EXCEPT !.pc = "data", !.mail = m] \in Session
        /\ Fit([y EXCEPT !.pc = "data", !.mail = m])
    BY <1>1, <2>2, NoneAssumption DEF Session, Fit
  <2> QED
    BY <2>1, <2>3
<1>11. CASE EndData(s)
  <2>1. Become(s, [y EXCEPT !.pc = "save"]) /\ y.pc = "data"
    BY <1>11 DEF EndData, y
  <2>2. [y EXCEPT !.pc = "save"] \in Session /\ Fit([y EXCEPT !.pc = "save"])
    BY <1>1, <2>1 DEF Session, Fit, Writing
  <2> QED
    BY <2>1, <2>2
<1>12. y.pc \in {"save", "queue", "log"} => Fail(y) \in Session /\ Fit(Fail(y))
  <2>1. Fail(y) \in Session
    BY <1>1, FailTyped
  <2>2. y.pc \in {"save", "queue", "log"} => Fit(Fail(y))
    BY <1>1 DEF Session, Fit, Fail
  <2> QED
    BY <2>1, <2>2
<1>13. ASSUME y.pc = "queue" \/ y.pc = "log", NEW end \in {"log", "answer"}
       PROVE  Step(y, end) \in Session /\ Fit(Step(y, end))
  <2>1. Step(y, end) \in Session
    BY <1>1, StepTyped
  <2>2. y.next \in 1 .. Len(y.rcpts) /\ y.mail # "none" /\ y.next \in Nat
    BY <1>1, <1>13 DEF Fit, Session
  <2>3. Len(y.rcpts) \in Nat
    BY <1>1, LenProperties DEF Session
  <2>4. Fit(Step(y, end))
    BY <1>1, <1>13, <2>2, <2>3 DEF Step, Fit, Session
  <2> QED
    BY <2>1, <2>4
<1>14. CASE Save(s)
  <2> DEFINE x == [y EXCEPT !.pc = "queue", !.next = 1]
  <2>1. y.pc = "save" /\ (Become(s, x) \/ Become(s, Fail(y)))
    BY <1>14 DEF Save, y
  <2>2. Len(y.rcpts) \in Nat /\ Len(y.rcpts) # 0
    BY <1>1, <2>1, LenProperties, EmptySeq DEF Session, Fit
  <2>3. x \in Session
    BY <1>1 DEF Session, Writing
  <2>4. Fit(x)
    BY <1>1, <2>1, <2>2 DEF Session, Fit
  <2> QED
    BY <2>4, <1>12, <2>1, <2>3
<1>15. CASE QueueRow(s)
  <2>1. y.pc = "queue" /\ (Become(s, Step(y, "log")) \/ Become(s, Fail(y)))
    BY <1>15 DEF QueueRow, y
  <2> QED
    BY <1>12, <1>13, <2>1
<1>16. CASE LogRow(s)
  <2>1. y.pc = "log" /\ (Become(s, Step(y, "answer")) \/ Become(s, Fail(y)))
    BY <1>16 DEF LogRow, y
  <2> QED
    BY <1>12, <1>13, <2>1
<1>17. CASE Answer(s)
  <2> DEFINE x == [Reset(y) EXCEPT !.pc = "command"]
  <2>1. Become(s, x)
    BY <1>17 DEF Answer, y
  <2>2. Reset(y) \in Session
    BY <1>1, ResetTyped
  <2>3. Len(<<>>) = 0
    OBVIOUS
  <2>4. x \in Session
    BY <2>2 DEF Session
  <2>5. Fit(x)
    BY <1>1, <2>3, BoundsAssumption DEF Fit, Reset, Session
  <2> QED
    BY <2>1, <2>4, <2>5
<1> QED
  BY <1>2, <1>3, <1>4, <1>5, <1>6, <1>7, <1>8, <1>9, <1>10, <1>11, <1>14, <1>15, <1>16, <1>17
     DEF Work

\* A mail that is being written has begun.
Begun == \A s \in Sessions : ses[s].mail \in begun \cup {"none"}

\* The row that QueueRow inserts
RowOf(x) ==
  [mail |-> x.mail, at |-> x.next, to |-> x.rcpts[x.next],
   outbound |-> DomainOf[x.rcpts[x.next]] \notin store]

LEMMA RowTyped ==
  ASSUME NEW x \in Session, Fit(x), x.pc \in {"queue", "log"}
  PROVE  /\ Key(x) \in Row
         /\ RowOf(x) \in [mail : Mails, at : 1 .. MaxRecipients, to : Rcpts, outbound : BOOLEAN]
<1>1. /\ x.mail \in Mails /\ x.rcpts \in Seq(Rcpts)
      /\ x.next \in 1 .. Len(x.rcpts) /\ Len(x.rcpts) <= MaxRecipients
  BY DEF Session, Fit
<1>2. x.next \in 1 .. MaxRecipients
  BY <1>1, BoundsAssumption, LenProperties
<1>3. x.rcpts[x.next] \in Rcpts
  BY <1>1, ElementOfSeq
<1> DEFINE out == DomainOf[x.rcpts[x.next]] \notin store
<1>4. out \in BOOLEAN
  BY Zenon
<1> HIDE DEF out
<1>5. /\ [mail |-> x.mail, at |-> x.next, to |-> x.rcpts[x.next], outbound |-> out]
           \in [mail : Mails, at : 1 .. MaxRecipients, to : Rcpts, outbound : BOOLEAN]
      /\ [mail |-> x.mail, at |-> x.next, to |-> x.rcpts[x.next]] \in Row
  BY <1>1, <1>2, <1>3, <1>4 DEF Row
<1> QED
  BY <1>5, Zenon DEF out, RowOf, Key

\* A round of a loop changes nothing but where the session is.
LEMMA RoundsKeep ==
  ASSUME NEW x \in Session, NEW end \in {"log", "answer"}
  PROVE  \A y \in {Step(x, end), Fail(x)} :
           /\ y.mail = x.mail /\ y.rcpts = x.rcpts /\ y.link = x.link
           /\ y.auth = x.auth /\ y.reloaded = x.reloaded
<1>1. /\ Step(x, end).mail = x.mail /\ Step(x, end).rcpts = x.rcpts
      /\ Step(x, end).link = x.link /\ Step(x, end).auth = x.auth
      /\ Step(x, end).reloaded = x.reloaded
  <2>1. CASE x.next < Len(x.rcpts)
    BY <2>1 DEF Step, Session
  <2>2. CASE ~(x.next < Len(x.rcpts))
    BY <2>2 DEF Step, Session
  <2> QED
    BY <2>1, <2>2
<1>2. /\ Fail(x).mail = x.mail /\ Fail(x).rcpts = x.rcpts /\ Fail(x).link = x.link
      /\ Fail(x).auth = x.auth /\ Fail(x).reloaded = x.reloaded
  BY DEF Fail, Session
<1> QED
  BY <1>1, <1>2

\* A command other than DATA does not begin a mail.
LEMMA CommandsKeep ==
  ASSUME TInv, NEW s \in Sessions,
         \/ Connect(s) \/ Break(s) \/ Close(s) \/ Quit(s) \/ StartTls(s) \/ Auth(s)
         \/ Mail(s) \/ Rset(s) \/ (\E r \in Rcpts : Rcpt(s, r)) \/ Save(s)
  PROVE  ses'[s].mail \in {ses[s].mail, "none"}
<1>1. ses[s] \in Session
  BY DEF TInv, TypeOK
<1>2. \A x : Become(s, x) => ses'[s] = x
  BY Becomes DEF TInv
<1>3. CASE Connect(s) \/ Close(s) \/ Quit(s) \/ StartTls(s) \/ Rset(s)
  <2>1. /\ \A a, b : Fresh(a, b).mail = "none"
        /\ Closed.mail = "none" /\ Reset(ses[s]).mail = "none"
        /\ [Reset(ses[s]) EXCEPT !.tls = TRUE, !.auth = FALSE].mail = "none"
    BY <1>1 DEF Fresh, Closed, Reset, Session
  <2>2. CASE Connect(s)
    BY <1>2, <2>1, <2>2 DEF Connect
  <2>3. CASE Close(s) \/ Quit(s)
    BY <1>2, <2>1, <2>3 DEF Close, Quit
  <2>4. CASE StartTls(s)
    <3> DEFINE x == [Reset(ses[s]) EXCEPT !.tls = TRUE, !.auth = FALSE]
    <3>1. Become(s, x) \/ Become(s, Closed)
      BY <2>4 DEF StartTls
    <3>2. x.mail = "none"
      BY <2>1
    <3> HIDE DEF x
    <3> QED
      BY <1>2, <2>1, <3>1, <3>2
  <2>5. CASE Rset(s)
    BY <1>2, <2>1, <2>5 DEF Rset
  <2> QED
    BY <1>3, <2>2, <2>3, <2>4, <2>5
<1>4. CASE Break(s) \/ Auth(s) \/ Mail(s)
  BY <1>1, <1>2, <1>4 DEF Break, Auth, Mail, Session
<1>5. CASE \E r \in Rcpts : Rcpt(s, r)
  BY <1>1, <1>2, <1>5 DEF Rcpt, Session
<1>6. CASE Save(s)
  BY <1>1, <1>2, <1>6 DEF Save, Fail, Session
<1> QED
  BY <1>3, <1>4, <1>5, <1>6

\* What a step of a session does to the mails and rows
LEMMA TypedWork ==
  ASSUME TInv, Begun, NEW s \in Sessions, Work(s)
  PROVE  TypeOK' /\ Begun'
<1>1. PICK x \in Session : Become(s, x) /\ Fit(x)
  BY Successor
<1>2. /\ ses' \in [Sessions -> Session] /\ ses'[s] = x
      /\ \A t \in Sessions \ {s} : ses'[t] = ses[t]
  BY <1>1, OneSession, Becomes DEF TInv
<1>3. TypeOK /\ ses[s] \in Session /\ Fit(ses[s])
  BY DEF TInv, TypeOK
<1>4. UNCHANGED <<domains, store, changes>>
  BY DEF Work, Connect, Break, Close, Quit, StartTls, Auth, Mail, Rset, Rcpt, Data, EndData,
         Save, QueueRow, LogRow, Answer, Ready, database
<1>5. CASE \/ Connect(s) \/ Break(s) \/ Close(s) \/ Quit(s) \/ StartTls(s) \/ Auth(s)
           \/ Mail(s) \/ Rset(s) \/ (\E r \in Rcpts : Rcpt(s, r)) \/ Save(s)
  <2>1. UNCHANGED <<rows, logs, begun, wanted, confirmed, cut>>
    BY <1>5 DEF Connect, Break, Close, Quit, StartTls, Auth, Mail, Rset, Rcpt, Save, Ready,
                written, account
  <2>2. ses'[s].mail \in {ses[s].mail, "none"}
    BY <1>5, CommandsKeep
  <2> QED
    BY <1>2, <1>3, <1>4, <2>1, <2>2 DEF TypeOK, Begun
<1>6. ASSUME NEW m \in Mails, Data(s, m)
      PROVE  TypeOK' /\ Begun'
  <2>1. /\ UNCHANGED <<rows, logs, confirmed, cut>>
        /\ begun' = begun \cup {m} /\ wanted' = [wanted EXCEPT ![m] = ses[s].named]
        /\ ses'[s] = [ses[s] EXCEPT !.pc = "data", !.mail = m]
    BY <1>6, Becomes DEF Data, written, TInv
  <2>2. ses[s].named \in Seq(Rcpts) /\ ses'[s].mail = m
    BY <1>3, <2>1 DEF Session
  <2>3. wanted' \in [Mails -> Seq(Rcpts)]
    BY <1>3, <2>1, <2>2 DEF TypeOK
  <2> QED
    BY <1>2, <1>3, <1>4, <2>1, <2>2, <2>3 DEF TypeOK, Begun
<1>7. CASE EndData(s)
  <2>1. /\ UNCHANGED <<rows, logs, begun, wanted, confirmed>>
        /\ cut' \in {cut, cut \cup {ses[s].mail}} /\ ses[s].pc = "data"
        /\ ses'[s] = [ses[s] EXCEPT !.pc = "save"]
    BY <1>7, Becomes DEF EndData, written, TInv
  <2>2. ses'[s].mail = ses[s].mail /\ ses[s].mail \in begun
    BY <1>3, <2>1 DEF Session, Fit, Begun
  <2> QED
    BY <1>2, <1>3, <1>4, <2>1, <2>2 DEF TypeOK, Begun
<1>8. CASE QueueRow(s)
  <2>1. /\ UNCHANGED <<logs, begun, wanted, confirmed, cut>> /\ ses[s].pc = "queue"
        /\ rows' \in {rows, rows \cup {RowOf(ses[s])}}
    BY <1>8 DEF QueueRow, account, RowOf
  <2>2. ses'[s].mail = ses[s].mail
    <3>1. ses'[s] \in {Step(ses[s], "log"), Fail(ses[s])}
      BY <1>8, Becomes DEF QueueRow, TInv
    <3> QED
      BY <1>3, <3>1, RoundsKeep
  <2>3. RowOf(ses[s]) \in [mail : Mails, at : 1 .. MaxRecipients, to : Rcpts, outbound : BOOLEAN]
    BY <1>3, <2>1, RowTyped
  <2> QED
    BY <1>2, <1>3, <1>4, <2>1, <2>2, <2>3 DEF TypeOK, Begun
<1>9. CASE LogRow(s)
  <2>1. /\ UNCHANGED <<rows, begun, wanted, confirmed, cut>> /\ ses[s].pc = "log"
        /\ logs' \in {logs, logs \cup {Key(ses[s])}}
    BY <1>9 DEF LogRow, account
  <2>2. ses'[s].mail = ses[s].mail
    <3>1. ses'[s] \in {Step(ses[s], "answer"), Fail(ses[s])}
      BY <1>9, Becomes DEF LogRow, TInv
    <3> QED
      BY <1>3, <3>1, RoundsKeep
  <2>3. Key(ses[s]) \in Row
    BY <1>3, <2>1, RowTyped
  <2> QED
    BY <1>2, <1>3, <1>4, <2>1, <2>2, <2>3 DEF TypeOK, Begun
<1>10. CASE Answer(s)
  <2>1. /\ UNCHANGED <<rows, logs, begun, wanted, cut>> /\ ses[s].pc = "answer"
        /\ confirmed' \in {confirmed, confirmed \cup {ses[s].mail}}
        /\ ses'[s] = [Reset(ses[s]) EXCEPT !.pc = "command"]
    BY <1>10, Becomes DEF Answer, written, TInv
  <2>2. ses'[s].mail = "none" /\ ses[s].mail \in begun
    BY <1>3, <2>1 DEF Session, Fit, Reset, Begun
  <2> QED
    BY <1>2, <1>3, <1>4, <2>1, <2>2 DEF TypeOK, Begun
<1> QED
  BY <1>5, <1>6, <1>7, <1>8, <1>9, <1>10 DEF Work

\* A reload leaves all of a session alone but its history.
LEMMA ReloadKeeps ==
  ASSUME TypeOK, Reload, NEW s \in Sessions
  PROVE  /\ ses' \in [Sessions -> Session]
         /\ \E b \in BOOLEAN : ses'[s] = [ses[s] EXCEPT !.reloaded = b]
         /\ store = domains \/ ses[s].rcpts = <<>> \/ ses'[s].reloaded
<1> DEFINE b(t) == ses[t].reloaded \/ (ses[t].rcpts # <<>> /\ store # domains)
<1>1. \A t \in Sessions : b(t) \in BOOLEAN
  BY Zenon
<1>2. ses' = [t \in Sessions |-> [ses[t] EXCEPT !.reloaded = b(t)]]
  BY DEF Reload
<1>3. store = domains \/ ses[s].rcpts = <<>> \/ b(s)
  BY Zenon
<1> HIDE DEF b
<1>4. \A t \in Sessions : ses[t] \in Session
  BY DEF TypeOK
<1>5. \A t \in Sessions : [ses[t] EXCEPT !.reloaded = b(t)] \in Session
  BY <1>1, <1>4 DEF Session
<1>6. ses'[s] = [ses[s] EXCEPT !.reloaded = b(s)]
  BY <1>2
<1>7. ses'[s].reloaded = b(s)
  BY <1>4, <1>6 DEF Session
<1>8. ses' \in [Sessions -> Session]
  BY <1>2, <1>5
<1> QED
  BY <1>1, <1>3, <1>6, <1>7, <1>8, Zenon

LEMMA TypeStep == TInv /\ Begun /\ [Next]_vars => (TInv /\ Begun)'
<1> SUFFICES ASSUME TInv, Begun, [Next]_vars
             PROVE  (TInv /\ Begun)'
  OBVIOUS
<1>1. ASSUME NEW s \in Sessions, Work(s)
      PROVE  (TInv /\ Begun)'
  <2>1. \A t \in Sessions : Fit(ses'[t])
    BY <1>1, Successor, OneSession
  <2> QED
    BY <1>1, <2>1, TypedWork DEF TInv, Fit
<1>2. CASE Reload
  <2>1. TypeOK
    BY DEF TInv
  <2>2. ASSUME NEW s \in Sessions
        PROVE  Fit(ses'[s]) /\ ses'[s].mail = ses[s].mail
    <3>1. PICK b \in BOOLEAN : ses'[s] = [ses[s] EXCEPT !.reloaded = b]
      BY <1>2, <2>1, ReloadKeeps
    <3>2. ses[s] \in Session /\ Fit(ses[s])
      BY DEF TInv, TypeOK
    <3> QED
      BY <3>1, <3>2 DEF Fit, Session
  <2>3. ses' \in [Sessions -> Session]
    <3>1. CASE Sessions = {}
      BY <1>2, <3>1 DEF Reload
    <3>2. CASE \E s \in Sessions : TRUE
      BY <1>2, <2>1, <3>2, ReloadKeeps
    <3> QED
      BY <3>1, <3>2
  <2>4. TypeOK'
    BY <1>2, <2>1, <2>3 DEF TypeOK, Reload, database, written, account
  <2>5. begun' = begun
    BY <1>2 DEF Reload, account
  <2>6. (\A s \in Sessions : Fit(ses[s]))' /\ Begun'
    BY <2>2, <2>5 DEF Begun, Fit
  <2> QED
    BY <2>4, <2>6 DEF TInv
<1>3. CASE Restart
  <2>1. ses' = [s \in Sessions |-> Closed] /\ store' = domains
        /\ UNCHANGED <<domains, changes, rows, logs, begun, wanted, confirmed, cut>>
    BY <1>3 DEF Restart, database, written, account
  <2>2. Closed.mail = "none"
    BY DEF Closed, Fresh
  <2>3. TypeOK'
    BY <2>1, FreshTyped DEF TInv, TypeOK
  <2>4. \A s \in Sessions : ses'[s] = Closed
    BY <2>1
  <2> QED
    BY <2>2, <2>3, <2>4, ClosedFit DEF TInv, Begun, Fit
<1>4. CASE Administer
  <2>1. /\ UNCHANGED <<store, ses, rows, logs, begun, wanted, confirmed, cut>>
        /\ domains' \subseteq Domains /\ changes' \in 0 .. MaxAdmin
    BY <1>4, BoundsAssumption DEF Administer, written, account, TInv, TypeOK
  <2> QED
    BY <2>1 DEF TInv, TypeOK, Begun, Fit
<1>5. CASE UNCHANGED vars
  BY <1>5 DEF vars, TInv, TypeOK, Begun, Fit
<1> QED
  BY <1>1, <1>2, <1>3, <1>4, <1>5 DEF Next

LEMMA TypeInit == Init => TInv /\ Begun
<1> SUFFICES ASSUME Init
             PROVE  TInv /\ Begun
  OBVIOUS
<1>1. <<>> \in Seq(Rcpts)
  BY EmptySeq
<1>2. Closed.mail = "none"
  BY DEF Closed, Fresh
<1>3. TypeOK
  BY <1>1, FreshTyped, BoundsAssumption DEF Init, TypeOK
<1>4. \A s \in Sessions : ses[s] = Closed
  BY DEF Init
<1> QED
  BY <1>2, <1>3, <1>4, ClosedFit DEF TInv, Begun

\* No session holds more recipients than allowed, and all that it writes is a row of
\* a recipient it has.
THEOREM TypeCorrect == Spec => []TypeOK
<1>1. TInv => TypeOK
  BY DEF TInv
<1> QED
  BY <1>1, TypeInit, TypeStep, PTL DEF Spec
----------------------------------------------------------------------------
(* What is queued *)

Queued(m, i) == \E row \in rows : row.mail = m /\ row.at = i
Logged(m, i) == \E k \in logs : k.mail = m /\ k.at = i

\* How far the session has come with its mail is what there is of it.
Held(s) ==
  /\ ses[s].mail \notin confirmed
  /\ wanted[ses[s].mail] = ses[s].rcpts
  /\ ses[s].mail \in cut => ses[s].link # "up"
  /\ ses[s].pc \in {"data", "save"} => \A i \in Nat : ~Queued(ses[s].mail, i)
  /\ ses[s].pc = "queue" =>
       \A i \in Nat : Queued(ses[s].mail, i) <=> i \in 1 .. ses[s].next - 1
  /\ ses[s].pc = "log" =>
       \A i \in 1 .. Len(ses[s].rcpts) :
         Queued(ses[s].mail, i) /\ (i < ses[s].next => Logged(ses[s].mail, i))
  /\ ses[s].pc = "answer" /\ ses[s].ok =>
       \A i \in 1 .. Len(ses[s].rcpts) : Queued(ses[s].mail, i) /\ Logged(ses[s].mail, i)

\* No two sessions write the same mail.
Owned ==
  \A s, t \in Sessions : ses[s].mail = ses[t].mail /\ ses[s].mail # "none" => s = t

Holders == \A s \in Sessions : ses[s].mail # "none" => Held(s)

\* A row is for a recipient the client has named, and the only one for it.
RowsOrdered ==
  \A row \in rows :
    /\ row.mail \in begun
    /\ row.at \in 1 .. Len(wanted[row.mail]) /\ row.to = wanted[row.mail][row.at]
    /\ \A other \in rows : other.mail = row.mail /\ other.at = row.at => other = row

LogsOrdered == \A k \in logs : k \in Row /\ \E row \in rows : KeyOf(row) = k

Finished ==
  \A m \in confirmed :
    /\ m \notin cut
    /\ \A i \in 1 .. Len(wanted[m]) : Queued(m, i) /\ Logged(m, i)

Inv == TInv /\ Begun /\ Owned /\ Holders /\ RowsOrdered /\ LogsOrdered /\ Finished

\* What another session does to mails of its own does not concern t.
LEMMA Undisturbed ==
  ASSUME Inv, NEW t \in Sessions, ses[t].mail # "none",
         \/ ses'[t] = ses[t]
         \/ \E b \in BOOLEAN : ses'[t] = [ses[t] EXCEPT !.reloaded = b],
         ses[t].mail \in confirmed' => ses[t].mail \in confirmed,
         ses[t].mail \in cut' => ses[t].mail \in cut,
         wanted'[ses[t].mail] = wanted[ses[t].mail],
         rows \subseteq rows', logs \subseteq logs',
         \A row \in rows' \ rows : row.mail # ses[t].mail
  PROVE  Held(t)'
<1>1. ses[t] \in Session /\ Held(t)
  BY DEF Inv, TInv, TypeOK, Holders
<1>2. /\ ses'[t].mail = ses[t].mail /\ ses'[t].rcpts = ses[t].rcpts
      /\ ses'[t].link = ses[t].link /\ ses'[t].pc = ses[t].pc
      /\ ses'[t].next = ses[t].next /\ (ses'[t].ok <=> ses[t].ok)
  BY <1>1 DEF Session
<1> DEFINE m == ses[t].mail
<1>3. \A i : Queued(m, i) <=> \E row \in rows' : row.mail = m /\ row.at = i
  BY DEF Queued
<1>4. \A i : Logged(m, i) => \E k \in logs' : k.mail = m /\ k.at = i
  BY DEF Logged
<1> QED
  BY <1>1, <1>2, <1>3, <1>4 DEF Held, Queued, Logged

\* A step of s that concerns its own mail at most leaves the others theirs.
LEMMA OthersHold ==
  ASSUME Inv, NEW s \in Sessions, NEW x \in Session, Become(s, x),
         x.mail \in {ses[s].mail, "none"} \/ x.mail \notin begun,
         x.mail # "none" => Held(s)',
         rows \subseteq rows', logs \subseteq logs',
         \A row \in rows' \ rows : row.mail = ses[s].mail,
         confirmed' \subseteq confirmed \cup {ses[s].mail},
         cut' \subseteq cut \cup {ses[s].mail},
         \A m \in begun : wanted'[m] = wanted[m]
  PROVE  (Owned /\ Holders)'
<1>1. ses'[s] = x /\ \A t \in Sessions \ {s} : ses'[t] = ses[t]
  BY Becomes DEF Inv, TInv
<1>2. \A t \in Sessions : ses[t].mail # "none" => ses[t].mail \in begun
  BY DEF Inv, Begun
<1>3. Owned'
  BY <1>1, <1>2 DEF Inv, Owned
<1>4. ASSUME NEW t \in Sessions \ {s}, ses'[t].mail # "none"
      PROVE  Held(t)'
  <2>1. ses'[t] = ses[t] /\ ses[t].mail # "none" /\ ses[t].mail \in begun
    BY <1>1, <1>2, <1>4
  <2>2. ses[t].mail # ses[s].mail
    BY <2>1 DEF Inv, Owned
  <2> QED
    BY <2>1, <2>2, Undisturbed
<1> QED
  BY <1>1, <1>3, <1>4 DEF Holders

\* Commands and the saving of the data write no rows.
LEMMA CommandsHold ==
  ASSUME Inv, NEW s \in Sessions,
         \/ Connect(s) \/ Break(s) \/ Close(s) \/ Quit(s) \/ StartTls(s) \/ Auth(s)
         \/ Mail(s) \/ Rset(s) \/ (\E r \in Rcpts : Rcpt(s, r)) \/ Save(s)
  PROVE  (Owned /\ Holders /\ RowsOrdered /\ LogsOrdered /\ Finished)'
<1>1. UNCHANGED <<rows, logs, begun, wanted, confirmed, cut>>
  BY DEF Connect, Break, Close, Quit, StartTls, Auth, Mail, Rset, Rcpt, Save, Ready,
         written, account
<1>2. PICK x \in Session : Become(s, x) /\ Fit(x)
  BY Successor DEF Inv, Work
<1>3. ses'[s] = x /\ ses[s] \in Session /\ Fit(ses[s])
  BY <1>2, Becomes DEF Inv, TInv, TypeOK
<1>4. x.mail \in {ses[s].mail, "none"}
  BY <1>3, CommandsKeep DEF Inv
<1>5. ASSUME x.mail # "none"
      PROVE  Held(s)'
  <2>1. ses[s].mail # "none" /\ Held(s)
    BY <1>4, <1>5 DEF Inv, Holders
  <2>2. Break(s) \/ Save(s)
    <3>1. ses[s].pc \notin {"command", "closed"}
      BY <1>3, <2>1 DEF Fit
    <3>2. Closed.mail = "none"
      BY DEF Closed, Fresh
    <3>3. ~Close(s)
      BY <1>3, <1>5, <3>2, Becomes DEF Close, Inv, TInv
    <3> QED
      BY <3>1, <3>3 DEF Connect, Quit, StartTls, Auth, Mail, Rset, Rcpt, Ready
  <2>3. CASE Break(s)
    <3>1. PICK l \in {"eof", "error"} : ses'[s] = [ses[s] EXCEPT !.link = l]
      BY <2>3, Becomes DEF Break, Inv, TInv
    <3>2. /\ ses'[s].mail = ses[s].mail /\ ses'[s].rcpts = ses[s].rcpts
          /\ ses'[s].link # "up" /\ ses'[s].pc = ses[s].pc
          /\ ses'[s].next = ses[s].next /\ (ses'[s].ok <=> ses[s].ok)
      BY <1>3, <3>1 DEF Session
    <3>3. \A i : /\ Queued(ses[s].mail, i)' <=> Queued(ses[s].mail, i)
                 /\ Logged(ses[s].mail, i)' <=> Logged(ses[s].mail, i)
      BY <1>1, <3>2 DEF Queued, Logged
    <3> QED
      BY <1>1, <2>1, <3>2, <3>3 DEF Held
  <2>4. CASE Save(s)
    <3>1. ses[s].pc = "save" /\ ses'[s] \in {[ses[s] EXCEPT !.pc = "queue", !.next = 1], Fail(ses[s])}
      BY <2>4, Becomes DEF Save, Inv, TInv
    <3>2. /\ ses'[s].mail = ses[s].mail /\ ses'[s].rcpts = ses[s].rcpts
          /\ ses'[s].link = ses[s].link
          /\ \/ ses'[s].pc = "queue" /\ ses'[s].next = 1
             \/ ses'[s].pc = "answer" /\ ~ses'[s].ok
      BY <1>3, <3>1 DEF Session, Fail
    <3>3. \A i \in Nat : ~Queued(ses[s].mail, i)
      BY <2>1, <3>1 DEF Held
    <3>4. \A i : Queued(ses[s].mail, i)' <=> Queued(ses[s].mail, i)
      BY <1>1, <3>2 DEF Queued
    <3>5. /\ ses'[s].mail \notin confirmed' /\ wanted'[ses'[s].mail] = ses'[s].rcpts
          /\ ses'[s].mail \in cut' => ses'[s].link # "up"
      BY <1>1, <2>1, <3>2 DEF Held
    <3>6. CASE ses'[s].pc = "queue" /\ ses'[s].next = 1
      <4>1. \A i \in Nat : i \notin 1 .. ses'[s].next - 1
        BY <3>6
      <4> QED
        BY <3>3, <3>4, <3>5, <3>6, <4>1 DEF Held
    <3>7. CASE ses'[s].pc = "answer" /\ ~ses'[s].ok
      BY <3>5, <3>7 DEF Held
    <3> QED
      BY <3>2, <3>6, <3>7
  <2> QED
    BY <2>2, <2>3, <2>4
<1>6. (Owned /\ Holders)'
  BY <1>1, <1>2, <1>4, <1>5, OthersHold
<1>7. (RowsOrdered /\ LogsOrdered /\ Finished)'
  BY <1>1 DEF Inv, RowsOrdered, LogsOrdered, Finished, Queued, Logged
<1> QED
  BY <1>6, <1>7

LEMMA DataHolds ==
  ASSUME Inv, NEW s \in Sessions, NEW m \in Mails, Data(s, m)
  PROVE  (Owned /\ Holders /\ RowsOrdered /\ LogsOrdered /\ Finished)'
<1> DEFINE x == [ses[s] EXCEPT !.pc = "data", !.mail = m]
<1>1. /\ UNCHANGED <<rows, logs, confirmed, cut>> /\ Become(s, x) /\ m \notin begun
      /\ begun' = begun \cup {m} /\ wanted' = [wanted EXCEPT ![m] = ses[s].named]
  BY DEF Data, written
<1>2. ses[s] \in Session /\ Fit(ses[s]) /\ TypeOK /\ TInv
  BY DEF Inv, TInv, TypeOK
<1>3. /\ x \in Session /\ x.mail = m /\ x.pc = "data" /\ x.rcpts = ses[s].rcpts
  BY <1>2 DEF Session
<1> HIDE DEF x
<1>4. ses'[s] = x
  BY <1>1, <1>2, Becomes
<1>5. m \notin confirmed /\ m \notin cut /\ \A row \in rows : row.mail # m
  BY <1>1, <1>2 DEF Inv, TypeOK, RowsOrdered
<1>6. wanted'[m] = ses[s].rcpts /\ \A n \in begun : wanted'[n] = wanted[n]
  BY <1>1, <1>2 DEF TypeOK, Fit
<1>7. Held(s)'
  BY <1>1, <1>3, <1>4, <1>5, <1>6 DEF Held, Queued
<1>8. (Owned /\ Holders)'
  BY <1>1, <1>3, <1>6, <1>7, OthersHold
<1>9. (RowsOrdered /\ LogsOrdered)'
  BY <1>1, <1>6 DEF Inv, RowsOrdered, LogsOrdered
<1>10. Finished'
  BY <1>1, <1>2, <1>6 DEF Inv, TypeOK, Finished, Queued, Logged
<1> QED
  BY <1>8, <1>9, <1>10

LEMMA EndDataHolds ==
  ASSUME Inv, NEW s \in Sessions, EndData(s)
  PROVE  (Owned /\ Holders /\ RowsOrdered /\ LogsOrdered /\ Finished)'
<1> DEFINE x == [ses[s] EXCEPT !.pc = "save"]
<1>1. /\ UNCHANGED <<rows, logs, begun, wanted, confirmed>> /\ Become(s, x)
      /\ ses[s].pc = "data"
      /\ cut' \subseteq cut \cup {ses[s].mail} /\ (ses[s].link = "up" => cut' = cut)
  BY DEF EndData, written
<1>2. ses[s] \in Session /\ Fit(ses[s]) /\ TypeOK
  BY DEF Inv, TInv, TypeOK
<1>3. /\ x \in Session /\ x.mail = ses[s].mail /\ x.pc = "save" /\ x.rcpts = ses[s].rcpts
      /\ x.link = ses[s].link
  BY <1>2 DEF Session, Writing
<1> HIDE DEF x
<1>4. ses'[s] = x
  BY <1>1, <1>2, Becomes
<1>5. ses[s].mail # "none" /\ Held(s)
  BY <1>1, <1>2 DEF Fit, Inv, Holders
<1>6. Held(s)'
  BY <1>1, <1>3, <1>4, <1>5 DEF Held, Queued
<1>7. (Owned /\ Holders)'
  BY <1>1, <1>3, <1>6, OthersHold
<1>8. (RowsOrdered /\ LogsOrdered /\ Finished)'
  BY <1>1, <1>5 DEF Inv, RowsOrdered, LogsOrdered, Finished, Queued, Logged, Held
<1> QED
  BY <1>7, <1>8

LEMMA AnswerHolds ==
  ASSUME Inv, NEW s \in Sessions, Answer(s)
  PROVE  (Owned /\ Holders /\ RowsOrdered /\ LogsOrdered /\ Finished)'
<1> DEFINE x == [Reset(ses[s]) EXCEPT !.pc = "command"]
<1>1. /\ UNCHANGED <<rows, logs, begun, wanted, cut>> /\ Become(s, x)
      /\ ses[s].pc = "answer"
      /\ \/ confirmed' = confirmed
         \/ ses[s].ok /\ ses[s].link = "up" /\ confirmed' = confirmed \cup {ses[s].mail}
  BY DEF Answer, written
<1>2. ses[s] \in Session /\ Fit(ses[s]) /\ TypeOK
  BY DEF Inv, TInv, TypeOK
<1>3. Reset(ses[s]) \in Session /\ Reset(ses[s]).mail = "none"
  BY <1>2, ResetTyped DEF Reset, Session
<1>4. x \in Session /\ x.mail = "none"
  BY <1>3 DEF Session
<1> HIDE DEF x
<1>5. ses[s].mail # "none" /\ Held(s)
  BY <1>1, <1>2 DEF Fit, Inv, Holders
<1>6. (Owned /\ Holders)'
  BY <1>1, <1>4, OthersHold
<1>7. (RowsOrdered /\ LogsOrdered)'
  BY <1>1 DEF Inv, RowsOrdered, LogsOrdered
<1>8. Finished'
  BY <1>1, <1>5 DEF Inv, Finished, Queued, Logged, Held
<1> QED
  BY <1>6, <1>7, <1>8

\* Where a round of a loop leads
LEMMA Rounds ==
  ASSUME NEW x \in Session, NEW end \in {"log", "answer"}
  PROVE  /\ x.next < Len(x.rcpts) => Step(x, end).pc = x.pc /\ Step(x, end).next = x.next + 1
         /\ ~(x.next < Len(x.rcpts)) =>
              Step(x, end).pc = end /\ (end = "log" => Step(x, end).next = 1)
         /\ Fail(x).pc = "answer" /\ ~Fail(x).ok
<1>1. CASE x.next < Len(x.rcpts)
  BY <1>1 DEF Step, Session, Fail
<1>2. CASE ~(x.next < Len(x.rcpts))
  BY <1>2 DEF Step, Session, Fail
<1> QED
  BY <1>1, <1>2

LEMMA QueueRowHolds ==
  ASSUME Inv, NEW s \in Sessions, QueueRow(s)
  PROVE  (Owned /\ Holders /\ RowsOrdered /\ LogsOrdered /\ Finished)'
<1> DEFINE y == ses[s]
<1>1. /\ UNCHANGED <<logs, begun, wanted, confirmed, cut>> /\ y.pc = "queue"
      /\ \/ rows' = rows \cup {RowOf(y)} /\ Become(s, Step(y, "log"))
         \/ rows' = rows /\ Become(s, Fail(y))
  BY DEF QueueRow, RowOf, account
<1>2. y \in Session /\ Fit(y) /\ TypeOK
  BY DEF Inv, TInv, TypeOK
<1>3. /\ y.mail # "none" /\ Held(s) /\ y.mail \in begun
      /\ y.next \in 1 .. Len(y.rcpts) /\ Len(y.rcpts) \in Nat
  BY <1>1, <1>2, LenProperties DEF Fit, Inv, Holders, Begun, Session
<1>4. \A i \in Nat : Queued(y.mail, i) <=> i \in 1 .. y.next - 1
  BY <1>1, <1>3 DEF Held
<1>5. PICK x \in {Step(y, "log"), Fail(y)} :
        /\ Become(s, x)
        /\ x = Fail(y) \/ (x = Step(y, "log") /\ rows' = rows \cup {RowOf(y)})
        /\ rows' = rows \/ rows' = rows \cup {RowOf(y)}
  BY <1>1
<1>6. /\ x \in Session /\ x.mail = y.mail /\ x.rcpts = y.rcpts /\ x.link = y.link
  BY <1>2, StepTyped, FailTyped, RoundsKeep
<1>7. ses'[s] = x
  BY <1>2, <1>5, Becomes
<1>8. /\ RowOf(y).mail = y.mail /\ RowOf(y).at = y.next /\ RowOf(y).to = y.rcpts[y.next]
  BY DEF RowOf
<1> HIDE DEF y
<1>9. Held(s)'
  <2>1. /\ x.mail \notin confirmed' /\ wanted'[x.mail] = x.rcpts
        /\ x.mail \in cut' => x.link # "up"
    BY <1>1, <1>3, <1>6 DEF Held, y
  <2>2. CASE x = Fail(y)
    BY <1>2, <1>7, <2>1, <2>2, Rounds DEF Held
  <2>3. CASE x = Step(y, "log") /\ rows' = rows \cup {RowOf(y)}
    <3>1. \A i \in Nat : Queued(x.mail, i)' <=> i \in 1 .. y.next
      <4>1. \A i : (\E row \in rows' : row.mail = y.mail /\ row.at = i) <=> Queued(y.mail, i) \/ i = y.next
        BY <1>8, <2>3 DEF Queued
      <4>2. \A i \in Nat : i \in 1 .. y.next <=> i \in 1 .. y.next - 1 \/ i = y.next
        BY <1>3
      <4> QED
        BY <1>4, <1>6, <4>1, <4>2 DEF Queued
    <3>2. CASE y.next < Len(y.rcpts)
      <4>1. x.pc = "queue" /\ x.next = y.next + 1
        BY <1>1, <1>2, <2>3, <3>2, Rounds DEF y
      <4>2. \A i \in Nat : Queued(x.mail, i)' <=> i \in 1 .. x.next - 1
        BY <1>3, <3>1, <4>1
      <4> QED
        BY <1>7, <2>1, <4>1, <4>2 DEF Held
    <3>3. CASE ~(y.next < Len(y.rcpts))
      <4>1. x.pc = "log" /\ x.next = 1
        BY <1>2, <2>3, <3>3, Rounds
      <4>2. \A i \in 1 .. Len(x.rcpts) : Queued(x.mail, i)' /\ ~(i < x.next)
        BY <1>3, <1>6, <3>1, <3>3, <4>1
      <4> QED
        BY <1>7, <2>1, <4>1, <4>2 DEF Held
    <3> QED
      BY <3>2, <3>3
  <2> QED
    BY <1>5, <2>2, <2>3
<1>10. (Owned /\ Holders)'
  BY <1>1, <1>5, <1>6, <1>8, <1>9, OthersHold DEF y
<1>11. RowsOrdered'
  <2>1. \A row \in rows : row.mail = y.mail => row.at # y.next
    <3>1. ~Queued(y.mail, y.next)
      BY <1>3, <1>4
    <3> QED
      BY <3>1 DEF Queued
  <2>2. wanted[y.mail] = y.rcpts
    BY <1>3 DEF Held, y
  <2>3. RowsOrdered
    BY DEF Inv
  <2> QED
    BY <1>1, <1>3, <1>5, <1>8, <2>1, <2>2, <2>3 DEF RowsOrdered
<1>12. LogsOrdered' /\ Finished'
  BY <1>1, <1>5 DEF Inv, LogsOrdered, Finished, Queued, Logged
<1> QED
  BY <1>10, <1>11, <1>12

LEMMA LogRowHolds ==
  ASSUME Inv, NEW s \in Sessions, LogRow(s)
  PROVE  (Owned /\ Holders /\ RowsOrdered /\ LogsOrdered /\ Finished)'
<1> DEFINE y == ses[s]
<1>1. /\ UNCHANGED <<rows, begun, wanted, confirmed, cut>> /\ y.pc = "log"
      /\ \/ logs' = logs \cup {Key(y)} /\ Become(s, Step(y, "answer"))
         \/ logs' = logs /\ Become(s, Fail(y))
  BY DEF LogRow, account
<1>2. y \in Session /\ Fit(y) /\ TypeOK
  BY DEF Inv, TInv, TypeOK
<1>3. /\ y.mail # "none" /\ Held(s) /\ y.mail \in begun
      /\ y.next \in 1 .. Len(y.rcpts) /\ Len(y.rcpts) \in Nat
  BY <1>1, <1>2, LenProperties DEF Fit, Inv, Holders, Begun, Session
<1>4. /\ \A i \in 1 .. Len(y.rcpts) :
           Queued(y.mail, i) /\ (i < y.next => Logged(y.mail, i))
      /\ wanted[y.mail] = y.rcpts
  BY <1>1, <1>3 DEF Held
<1>5. PICK x \in {Step(y, "answer"), Fail(y)} :
        /\ Become(s, x)
        /\ x = Fail(y) \/ (x = Step(y, "answer") /\ logs' = logs \cup {Key(y)})
        /\ logs' = logs \/ logs' = logs \cup {Key(y)}
  BY <1>1
<1>6. /\ x \in Session /\ x.mail = y.mail /\ x.rcpts = y.rcpts /\ x.link = y.link
  BY <1>2, StepTyped, FailTyped, RoundsKeep
<1>7. ses'[s] = x
  BY <1>2, <1>5, Becomes
<1>8. /\ Key(y).mail = y.mail /\ Key(y).at = y.next /\ Key(y).to = y.rcpts[y.next]
  BY DEF Key
<1>9. Key(y) \in Row
  BY <1>1, <1>2, RowTyped
<1> HIDE DEF y
<1>10. Held(s)'
  <2>1. /\ x.mail \notin confirmed' /\ wanted'[x.mail] = x.rcpts
        /\ x.mail \in cut' => x.link # "up"
    BY <1>1, <1>3, <1>6 DEF Held, y
  <2>2. CASE x = Fail(y)
    BY <1>2, <1>7, <2>1, <2>2, Rounds DEF Held
  <2>3. CASE x = Step(y, "answer") /\ logs' = logs \cup {Key(y)}
    <3>1. \A i \in 1 .. Len(x.rcpts) : Queued(x.mail, i)'
      BY <1>1, <1>4, <1>6 DEF Queued
    <3>2. \A i \in 1 .. y.next : Logged(x.mail, i)'
      <4>1. \A i : (\E k \in logs' : k.mail = y.mail /\ k.at = i) <=> Logged(y.mail, i) \/ i = y.next
        BY <1>8, <2>3 DEF Logged
      <4>2. \A i \in 1 .. y.next : i = y.next \/ (i \in 1 .. Len(y.rcpts) /\ i < y.next)
        BY <1>3
      <4> QED
        BY <1>4, <1>6, <4>1, <4>2 DEF Logged
    <3>3. CASE y.next < Len(y.rcpts)
      <4>1. x.pc = "log" /\ x.next = y.next + 1
        BY <1>1, <1>2, <2>3, <3>3, Rounds DEF y
      <4>2. \A i \in 1 .. Len(x.rcpts) : i < x.next => Logged(x.mail, i)'
        BY <1>3, <3>2, <4>1
      <4> QED
        BY <1>7, <2>1, <3>1, <4>1, <4>2 DEF Held
    <3>4. CASE ~(y.next < Len(y.rcpts))
      <4>1. x.pc = "answer"
        BY <1>2, <2>3, <3>4, Rounds
      <4>2. \A i \in 1 .. Len(x.rcpts) : Logged(x.mail, i)'
        BY <1>3, <1>6, <3>2, <3>4
      <4> QED
        BY <1>7, <2>1, <3>1, <4>1, <4>2 DEF Held
    <3> QED
      BY <3>3, <3>4
  <2> QED
    BY <1>5, <2>2, <2>3
<1>11. (Owned /\ Holders)'
  BY <1>1, <1>5, <1>6, <1>10, OthersHold DEF y
<1>12. LogsOrdered'
  <2>1. \E row \in rows : KeyOf(row) = Key(y)
    <3>1. PICK row \in rows : row.mail = y.mail /\ row.at = y.next
      BY <1>3, <1>4 DEF Queued
    <3>2. row.to = y.rcpts[y.next]
      BY <1>4, <3>1 DEF Inv, RowsOrdered
    <3> QED
      BY <3>1, <3>2 DEF KeyOf, Key
  <2> QED
    BY <1>1, <1>5, <1>9, <2>1 DEF Inv, LogsOrdered
<1>13. RowsOrdered' /\ Finished'
  BY <1>1, <1>5 DEF Inv, RowsOrdered, Finished, Queued, Logged
<1> QED
  BY <1>11, <1>12, <1>13

LEMMA InvInit == Init => Inv
<1> SUFFICES ASSUME Init
             PROVE  Inv
  OBVIOUS
<1>1. \A s \in Sessions : ses[s].mail = "none"
  BY DEF Init, Closed, Fresh
<1>2. rows = {} /\ logs = {} /\ confirmed = {}
  BY DEF Init
<1> QED
  BY <1>1, <1>2, TypeInit DEF Inv, Owned, Holders, RowsOrdered, LogsOrdered, Finished

LEMMA InvStep == Inv /\ [Next]_vars => Inv'
<1> SUFFICES ASSUME Inv, [Next]_vars
             PROVE  Inv'
  OBVIOUS
<1>1. (TInv /\ Begun)'
  BY TypeStep DEF Inv
<1>2. ASSUME NEW s \in Sessions, Work(s)
      PROVE  (Owned /\ Holders /\ RowsOrdered /\ LogsOrdered /\ Finished)'
  BY <1>2, CommandsHold, DataHolds, EndDataHolds, QueueRowHolds, LogRowHolds, AnswerHolds
     DEF Work
<1>3. CASE Reload
  <2>1. UNCHANGED <<rows, logs, begun, wanted, confirmed, cut>>
    BY <1>3 DEF Reload, written, account
  <2>2. \A s \in Sessions : \E b \in BOOLEAN : ses'[s] = [ses[s] EXCEPT !.reloaded = b]
    BY <1>3, ReloadKeeps DEF Inv, TInv
  <2>3. \A s \in Sessions : ses'[s].mail = ses[s].mail
    BY <2>2 DEF Inv, TInv, TypeOK, Session
  <2>4. Holders'
    BY <2>1, <2>2, <2>3, Undisturbed DEF Holders
  <2>5. (Owned /\ RowsOrdered /\ LogsOrdered /\ Finished)'
    BY <2>1, <2>3 DEF Inv, Owned, RowsOrdered, LogsOrdered, Finished, Queued, Logged
  <2> QED
    BY <1>1, <2>4, <2>5 DEF Inv
<1>4. CASE Restart
  <2>1. UNCHANGED <<rows, logs, begun, wanted, confirmed, cut>>
    BY <1>4 DEF Restart, written, account
  <2>2. \A s \in Sessions : ses'[s].mail = "none"
    BY <1>4 DEF Restart, Closed, Fresh
  <2>3. (Owned /\ Holders)'
    BY <2>2 DEF Owned, Holders
  <2>4. (RowsOrdered /\ LogsOrdered /\ Finished)'
    BY <2>1 DEF Inv, RowsOrdered, LogsOrdered, Finished, Queued, Logged
  <2> QED
    BY <1>1, <2>3, <2>4 DEF Inv
<1>5. CASE Administer \/ UNCHANGED vars
  <2>1. UNCHANGED <<rows, logs, ses, begun, wanted, confirmed, cut>>
    BY <1>5 DEF Administer, written, account, vars
  <2>2. (Owned /\ Holders /\ RowsOrdered /\ LogsOrdered /\ Finished)'
    BY <2>1 DEF Inv, Owned, Holders, Held, RowsOrdered, LogsOrdered, Finished, Queued, Logged
  <2> QED
    BY <1>1, <2>2 DEF Inv
<1> QED
  BY <1>1, <1>2, <1>3, <1>4, <1>5 DEF Next, Inv

\* What the rows of a mail are, by the invariant
LEMMA RowsNamed ==
  ASSUME Inv
  PROVE  /\ \A row \in rows :
              /\ row.mail \in Mails /\ KeyOf(row) \in Ordered(row.mail)
              /\ \A other \in rows : KeyOf(other) = KeyOf(row) => other = row
         /\ \A m \in Mails : \A i \in 1 .. Len(wanted[m]) : Queued(m, i) =>
              \E row \in Rows(m) : KeyOf(row) = [mail |-> m, at |-> i, to |-> wanted[m][i]]
<1>1. TypeOK /\ RowsOrdered
  BY DEF Inv, TInv
<1>2. ASSUME NEW row \in rows
      PROVE  /\ row.mail \in Mails /\ KeyOf(row) \in Ordered(row.mail)
             /\ \A other \in rows : KeyOf(other) = KeyOf(row) => other = row
  <2>1. /\ row.mail \in Mails /\ row.at \in 1 .. Len(wanted[row.mail])
        /\ row.to = wanted[row.mail][row.at]
    BY <1>1 DEF TypeOK, RowsOrdered
  <2>2. ASSUME NEW other \in rows, KeyOf(other) = KeyOf(row)
        PROVE  other = row
    <3>1. other.mail = row.mail /\ other.at = row.at
      BY <2>2 DEF KeyOf
    <3> QED
      BY <1>1, <3>1 DEF RowsOrdered
  <2> QED
    BY <2>1, <2>2 DEF Ordered, KeyOf
<1>3. ASSUME NEW m \in Mails, NEW i \in 1 .. Len(wanted[m]), Queued(m, i)
      PROVE  \E row \in Rows(m) : KeyOf(row) = [mail |-> m, at |-> i, to |-> wanted[m][i]]
  <2>1. PICK row \in rows : row.mail = m /\ row.at = i
    BY <1>3 DEF Queued
  <2>2. row.to = wanted[m][i]
    BY <1>1, <2>1 DEF RowsOrdered
  <2> QED
    BY <2>1, <2>2 DEF Rows, KeyOf
<1> QED
  BY <1>2, <1>3

\* 250 to the data means: a row for each recipient named since the last reset (RSET, STARTTLS,
\* the end of data, a new connection; not MAIL or EHLO), and none for another.
THEOREM QueuedIsNamed == Spec => []QueuedAsNamed
<1>1. Inv => QueuedAsNamed
  <2> SUFFICES ASSUME Inv, NEW m \in confirmed
               PROVE  {KeyOf(row) : row \in Rows(m)} = Ordered(m) /\ m \notin cut
    BY DEF QueuedAsNamed
  <2>1. m \in Mails /\ m \notin cut /\ \A i \in 1 .. Len(wanted[m]) : Queued(m, i)
    BY DEF Inv, TInv, TypeOK, Finished
  <2>2. Ordered(m) \subseteq {KeyOf(row) : row \in Rows(m)}
    BY <2>1, RowsNamed DEF Ordered
  <2>3. {KeyOf(row) : row \in Rows(m)} \subseteq Ordered(m)
    BY RowsNamed DEF Rows
  <2> QED
    BY <2>1, <2>2, <2>3
<1> QED
  BY <1>1, InvInit, InvStep, PTL DEF Spec

\* No row is for a recipient the client has not named since that reset, and no recipient
\* has two, for whatever reason the client has not seen 250.
THEOREM OnlyNamedQueued == Spec => []NothingElseQueued
<1>1. Inv => NothingElseQueued
  BY RowsNamed DEF NothingElseQueued
<1> QED
  BY <1>1, InvInit, InvStep, PTL DEF Spec

\* The log keeps step with the queue: never ahead of it, and level with it at 250.
THEOREM LogsFollow == Spec => []LoggedAsQueued
<1>1. Inv => LoggedAsQueued
  <2> SUFFICES ASSUME Inv
               PROVE  LoggedAsQueued
    OBVIOUS
  <2>1. logs \subseteq {KeyOf(row) : row \in rows}
    BY DEF Inv, LogsOrdered
  <2>2. ASSUME NEW m \in confirmed, NEW row \in Rows(m)
        PROVE  KeyOf(row) \in logs
    <3>1. row \in rows /\ row.mail = m /\ row.at \in 1 .. Len(wanted[m])
      BY DEF Rows, Inv, RowsOrdered
    <3>2. PICK k \in logs : k.mail = m /\ k.at = row.at
      BY <3>1 DEF Inv, Finished, Logged
    <3>3. PICK other \in rows : KeyOf(other) = k
      BY DEF Inv, LogsOrdered
    <3>4. other.mail = m /\ other.at = row.at
      BY <3>2, <3>3 DEF KeyOf
    <3>5. other = row
      BY <3>1, <3>4 DEF Inv, RowsOrdered
    <3> QED
      BY <3>3, <3>5
  <2> QED
    BY <2>1, <2>2 DEF LoggedAsQueued
<1> QED
  BY <1>1, InvInit, InvStep, PTL DEF Spec
----------------------------------------------------------------------------
(* The promise of MailSubmission *)

\* No entry of the log is ahead of the session, and none is for a mail before its DATA.
Level(x) ==
  /\ x.pc = "queue" => \A k \in logs : k.mail # x.mail
  /\ x.pc = "log" => \A k \in logs : k.mail = x.mail => k.at < x.next

Levels ==
  /\ \A s \in Sessions : Level(ses[s])
  /\ \A m \in Mails \ begun : wanted[m] = <<>>

\* The log has nothing that the queue has not
LEMMA LogBehind ==
  ASSUME Inv, NEW k \in logs
  PROVE  Queued(k.mail, k.at) /\ k.at \in Nat /\ k.at \in 1 .. Len(wanted[k.mail])
<1>1. PICK row \in rows : KeyOf(row) = k
  BY DEF Inv, LogsOrdered
<1>2. row.mail = k.mail /\ row.at = k.at
  BY <1>1 DEF KeyOf
<1>3. row.at \in Nat /\ row.at \in 1 .. Len(wanted[row.mail])
  BY BoundsAssumption DEF Inv, TInv, TypeOK, RowsOrdered
<1> QED
  BY <1>2, <1>3 DEF Queued

\* Of the steps of a session only those that begin or end a round of a loop matter.
LEMMA LevelOwn ==
  ASSUME Inv, Levels, NEW s \in Sessions, Work(s)
  PROVE  Level(ses[s])'
<1> DEFINE y == ses[s]
<1>1. y \in Session /\ Fit(y) /\ Level(y)
  BY DEF Inv, TInv, TypeOK, Levels
<1>2. \A x : Become(s, x) => ses'[s] = x
  BY Becomes DEF Inv, TInv
<1>3. CASE ses'[s].pc \notin {"queue", "log"}
  BY <1>3 DEF Level
<1>4. y.pc # "log" => \A k \in logs' : k \in logs
  BY DEF Work, Connect, Break, Close, Quit, StartTls, Auth, Mail, Rset, Rcpt, Data, EndData, Save,
         QueueRow, LogRow, Answer, Ready, written
<1>5. CASE Connect(s) \/ Close(s) \/ Quit(s)
  <2>1. (\A a, b : Fresh(a, b).pc = "command") /\ Closed.pc = "closed"
    BY DEF Fresh, Closed
  <2>2. ses'[s].pc \in {"command", "closed"}
    BY <1>2, <1>5, <2>1 DEF Connect, Close, Quit
  <2> QED
    BY <1>3, <2>2
<1>6. CASE Break(s)
  <2>1. PICK l \in {"eof", "error"} : ses'[s] = [y EXCEPT !.link = l]
    BY <1>2, <1>6 DEF Break
  <2>2. ses'[s].pc = y.pc /\ ses'[s].mail = y.mail /\ ses'[s].next = y.next
    BY <1>1, <2>1 DEF Session
  <2>3. logs' = logs
    BY <1>6 DEF Break, written
  <2> QED
    BY <1>1, <2>2, <2>3 DEF Level
<1>7. CASE StartTls(s) \/ Rset(s) \/ Answer(s)
  <2> DEFINE up == [Reset(y) EXCEPT !.tls = TRUE, !.auth = FALSE]
             end == [Reset(y) EXCEPT !.pc = "command"]
  <2>1. Reset(y).pc = y.pc /\ up.pc = y.pc /\ end.pc = "command" /\ Closed.pc = "closed"
    BY <1>1 DEF Reset, Session, Closed, Fresh
  <2>2. \/ y.pc = "command" /\ ses'[s] \in {up, Closed, Reset(y)}
        \/ ses'[s] = end
    BY <1>2, <1>7 DEF StartTls, Rset, Answer, Ready
  <2> QED
    BY <1>3, <2>1, <2>2
<1>8. CASE Auth(s) \/ Mail(s) \/ (\E r \in Rcpts : Rcpt(s, r)) \/ (\E m \in Mails : Data(s, m)) \/ EndData(s)
  <2>1. CASE EndData(s)
    BY <1>1, <1>2, <1>3, <2>1 DEF EndData, Session
  <2>2. CASE \E m \in Mails : Data(s, m)
    BY <1>1, <1>2, <1>3, <2>2 DEF Data, Session
  <2>3. CASE Auth(s) \/ Mail(s) \/ \E r \in Rcpts : Rcpt(s, r)
    BY <1>1, <1>2, <1>3, <2>3 DEF Auth, Mail, Rcpt, Ready, Session
  <2> QED
    BY <1>8, <2>1, <2>2, <2>3
<1>9. CASE Save(s)
  <2>1. y.pc = "save" /\ logs' = logs
    BY <1>9 DEF Save, written
  <2>2. Held(s)
    BY <1>1, <2>1 DEF Inv, Holders, Fit
  <2>3. \A k \in logs : k.mail # y.mail
    BY <2>1, <2>2, LogBehind DEF Held
  <2>4. ses'[s].mail = y.mail /\ ses'[s].pc \in {"queue", "answer"}
    BY <1>1, <1>2, <1>9 DEF Save, Fail, Session
  <2> QED
    BY <2>1, <2>3, <2>4 DEF Level
<1>10. CASE QueueRow(s)
  <2>1. y.pc = "queue" /\ logs' = logs /\ ses'[s] \in {Step(y, "log"), Fail(y)}
    BY <1>2, <1>10 DEF QueueRow
  <2>2. \A k \in logs : k.mail # y.mail
    BY <1>1, <2>1 DEF Level
  <2>3. ses'[s].mail = y.mail
    BY <1>1, <2>1, RoundsKeep
  <2> QED
    BY <2>1, <2>2, <2>3 DEF Level
<1>11. CASE LogRow(s)
  <2>1. /\ y.pc = "log"
        /\ \/ logs' = logs \cup {Key(y)} /\ ses'[s] = Step(y, "answer")
           \/ logs' = logs /\ ses'[s] = Fail(y)
    BY <1>2, <1>11 DEF LogRow
  <2>2. CASE ses'[s] = Fail(y) \/ ~(y.next < Len(y.rcpts))
    BY <1>1, <1>3, <2>1, <2>2, Rounds
  <2>3. CASE logs' = logs \cup {Key(y)} /\ ses'[s] = Step(y, "answer") /\ y.next < Len(y.rcpts)
    <3>1. ses'[s].pc = "log" /\ ses'[s].next = y.next + 1
      BY <1>1, <2>1, <2>3, Rounds
    <3>2. ses'[s].mail = y.mail
      BY <1>1, <2>3, RoundsKeep
    <3>3. y.next \in Nat /\ \A k \in logs : k.at \in Nat /\ (k.mail = y.mail => k.at < y.next)
      BY <1>1, <2>1, LogBehind DEF Session, Level
    <3>4. Key(y).at = y.next
      BY DEF Key
    <3>5. \A k \in logs' : k.mail = y.mail => k.at < y.next + 1
      BY <2>3, <3>3, <3>4
    <3> QED
      BY <3>1, <3>2, <3>5 DEF Level
  <2> QED
    BY <2>1, <2>2, <2>3
<1> QED
  BY <1>5, <1>6, <1>7, <1>8, <1>9, <1>10, <1>11 DEF Work

LEMMA LevelsStep == Inv /\ Levels /\ [Next]_vars => Levels'
<1> SUFFICES ASSUME Inv, Levels, [Next]_vars PROVE Levels'
  OBVIOUS
<1>1. TypeOK /\ \A s \in Sessions : ses[s] \in Session /\ Fit(ses[s]) /\ Level(ses[s])
  BY DEF Inv, TInv, TypeOK, Levels
<1>2. \A s \in Sessions : Level(ses[s])'
  <2>1. ASSUME NEW s \in Sessions, Work(s), NEW t \in Sessions PROVE Level(ses[t])'
    <3>1. CASE t = s
      BY <2>1, <3>1, LevelOwn
    <3>2. CASE t # s
      <4>1. ses'[t] = ses[t]
        <5>1. PICK x \in Session : Become(s, x)
          BY <2>1, Successor DEF Inv
        <5> QED
          BY <1>1, <3>2, <5>1, Becomes
      <4>2. logs' = logs \/ (logs' = logs \cup {Key(ses[s])} /\ ses[s].pc = "log")
        BY <2>1 DEF Work, Connect, Break, Close, Quit, StartTls, Auth, Mail, Rset, Rcpt, Data,
                    EndData, Save, QueueRow, LogRow, Answer, Ready, written
      <4>3. CASE ses[t].pc \notin {"queue", "log"}
        BY <4>1, <4>3 DEF Level
      <4>4. CASE ses[t].pc \in {"queue", "log"}
        <5>1. ses[t].mail # "none"
          BY <1>1, <4>4 DEF Fit
        <5>2. ses[s].mail # ses[t].mail
          BY <3>2, <5>1 DEF Inv, Owned
        <5>3. Key(ses[s]).mail = ses[s].mail
          BY DEF Key
        <5>4. \A k \in logs' : k.mail = ses[t].mail => k \in logs
          BY <4>2, <5>2, <5>3
        <5> QED
          BY <1>1, <4>1, <5>4 DEF Level
      <4> QED
        BY <4>3, <4>4
    <3> QED
      BY <3>1, <3>2
  <2>2. ASSUME Reload, NEW s \in Sessions PROVE Level(ses[s])'
    <3>1. PICK b \in BOOLEAN : ses'[s] = [ses[s] EXCEPT !.reloaded = b]
      BY <2>2, ReloadKeeps DEF Inv, TInv
    <3>2. ses'[s].pc = ses[s].pc /\ ses'[s].mail = ses[s].mail /\ ses'[s].next = ses[s].next
      BY <1>1, <3>1 DEF Session
    <3> QED
      BY <1>1, <2>2, <3>2 DEF Level, Reload, written
  <2>3. ASSUME Restart, NEW s \in Sessions PROVE Level(ses[s])'
    BY <2>3 DEF Restart, Closed, Fresh, Level
  <2>4. CASE Administer \/ UNCHANGED vars
    BY <1>1, <2>4 DEF Administer, written, vars, Level
  <2> QED
    BY <2>1, <2>2, <2>3, <2>4 DEF Next
<1>3. \A m \in Mails \ begun' : wanted'[m] = <<>>
  <2>1. CASE \E s \in Sessions, m \in Mails : Data(s, m)
    BY <1>1, <2>1 DEF Data, Levels, TypeOK
  <2>2. CASE ~\E s \in Sessions, m \in Mails : Data(s, m)
    <3>1. wanted' = wanted /\ begun' = begun
      BY <2>2 DEF Next, Work, Connect, Break, Close, Quit, StartTls, Auth, Mail, Rset, Rcpt, EndData,
                  Save, QueueRow, LogRow, Answer, Ready, Reload, Restart, Administer, account, vars
    <3> QED
      BY <3>1 DEF Levels
  <2> QED
    BY <2>1, <2>2
<1> QED
  BY <1>2, <1>3 DEF Levels

\* The places of a mail in one of the tables
LEMMA Places ==
  ASSUME Inv, NEW m \in Mails, NEW n \in Nat
  PROVE  /\ (\A i \in Nat : Queued(m, i) <=> i \in 1 .. n) => Submission!UpTo(rows, m, n)
         /\ (\A i \in Nat : Logged(m, i) <=> i \in 1 .. n) => Submission!UpTo(logs, m, n)
<1>1. \A row \in rows : row.at \in Nat
  BY BoundsAssumption DEF Inv, TInv, TypeOK
<1>2. \A k \in logs : k.at \in Nat
  BY LogBehind
<1>3. ASSUME \A i \in Nat : Queued(m, i) <=> i \in 1 .. n
      PROVE  {e.at : e \in {f \in rows : f.mail = m}} = 1 .. n
  BY <1>1, <1>3 DEF Queued
<1>4. ASSUME \A i \in Nat : Logged(m, i) <=> i \in 1 .. n
      PROVE  {e.at : e \in {f \in logs : f.mail = m}} = 1 .. n
  BY <1>2, <1>4 DEF Logged
<1> QED
  BY <1>3, <1>4 DEF Submission!UpTo

\* A complete queue or log
LEMMA Complete ==
  ASSUME Inv, NEW m \in Mails
  PROVE  /\ (\A i \in 1 .. Len(wanted[m]) : Queued(m, i)) => Submission!UpTo(rows, m, Len(wanted[m]))
         /\ (\A i \in 1 .. Len(wanted[m]) : Logged(m, i)) => Submission!UpTo(logs, m, Len(wanted[m]))
<1>1. Len(wanted[m]) \in Nat
  BY LenProperties DEF Inv, TInv, TypeOK
<1>2. \A i \in Nat : Queued(m, i) => i \in 1 .. Len(wanted[m])
  BY DEF Queued, Inv, RowsOrdered
<1>3. \A i \in Nat : Logged(m, i) => i \in 1 .. Len(wanted[m])
  BY LogBehind DEF Logged
<1>4. (\A i \in 1 .. Len(wanted[m]) : Queued(m, i)) =>
        \A i \in Nat : Queued(m, i) <=> i \in 1 .. Len(wanted[m])
  BY <1>1, <1>2
<1>5. (\A i \in 1 .. Len(wanted[m]) : Logged(m, i)) =>
        \A i \in Nat : Logged(m, i) <=> i \in 1 .. Len(wanted[m])
  BY <1>1, <1>3
<1> QED
  BY <1>1, <1>4, <1>5, Places

LEMMA QueuePromised ==
  ASSUME Inv, Levels, NEW s \in Sessions, QueueRow(s), rows' # rows
  PROVE  Submission!Next
<1> DEFINE y == ses[s]  e == RowOf(y)
<1>1. /\ y.pc = "queue" /\ rows' = rows \cup {e}
      /\ UNCHANGED <<wanted, logs, confirmed>>
  BY DEF QueueRow, RowOf, account
<1>2. y \in Session /\ Fit(y) /\ Level(y) /\ Held(s)
  BY <1>1 DEF Inv, TInv, TypeOK, Levels, Holders, Fit
<1>3. e.mail = y.mail /\ e.at = y.next /\ e.to = y.rcpts[y.next]
  BY DEF RowOf
<1>4. /\ y.mail \in Mails /\ y.next \in 1 .. Len(y.rcpts) /\ y.next \in Nat /\ Len(y.rcpts) \in Nat
      /\ wanted[y.mail] = y.rcpts
  BY <1>1, <1>2, LenProperties DEF Session, Fit, Held
<1> HIDE DEF y, e
<1>5. Submission!Due(e)
  BY <1>3, <1>4 DEF Submission!Due
<1>6. \A i \in Nat : Queued(y.mail, i) <=> i \in 1 .. y.next - 1
  BY <1>1, <1>2 DEF Held, y
<1>7. Submission!UpTo(rows, y.mail, y.next - 1)
  BY <1>4, <1>6, Places
<1>8. Submission!UpTo(logs, y.mail, 0)
  <2>1. \A i \in Nat : Logged(y.mail, i) <=> i \in 1 .. 0
    BY <1>1, <1>2 DEF Level, Logged
  <2> QED
    BY <1>4, <2>1, Places
<1>9. e \in rows' \ rows
  BY <1>1
<1> QED
  BY <1>1, <1>3, <1>5, <1>7, <1>8, <1>9 DEF Submission!Next, Submission!Queue

LEMMA LogPromised ==
  ASSUME Inv, Levels, NEW s \in Sessions, LogRow(s), logs' # logs
  PROVE  Submission!Next
<1> DEFINE y == ses[s]  e == Key(y)
<1>1. /\ y.pc = "log" /\ logs' = logs \cup {e}
      /\ UNCHANGED <<wanted, rows, confirmed>>
  BY DEF LogRow, account
<1>2. y \in Session /\ Fit(y) /\ Level(y) /\ Held(s)
  BY <1>1 DEF Inv, TInv, TypeOK, Levels, Holders, Fit
<1>3. e.mail = y.mail /\ e.at = y.next /\ e.to = y.rcpts[y.next]
  BY DEF Key
<1>4. /\ y.mail \in Mails /\ y.next \in 1 .. Len(y.rcpts) /\ y.next \in Nat /\ Len(y.rcpts) \in Nat
      /\ wanted[y.mail] = y.rcpts
  BY <1>1, <1>2, LenProperties DEF Session, Fit, Held
<1> HIDE DEF y, e
<1>5. Submission!Due(e)
  BY <1>3, <1>4 DEF Submission!Due
<1>6. \A i \in 1 .. Len(y.rcpts) : Queued(y.mail, i) /\ (i < y.next => Logged(y.mail, i))
  BY <1>1, <1>2 DEF Held, y
<1>7. Submission!UpTo(rows, y.mail, Len(wanted[y.mail]))
  BY <1>4, <1>6, Complete
<1>8. Submission!UpTo(logs, y.mail, y.next - 1)
  <2>1. \A i \in Nat : Logged(y.mail, i) => i \in 1 .. y.next - 1
    <3>1. \A k \in logs : k.at \in Nat /\ k.at >= 1
      BY LogBehind
    <3>2. \A k \in logs : k.mail = y.mail => k.at < y.next
      BY <1>1, <1>2 DEF Level
    <3> QED
      BY <1>4, <3>1, <3>2 DEF Logged
  <2>2. \A i \in 1 .. y.next - 1 : Logged(y.mail, i)
    BY <1>4, <1>6
  <2> QED
    BY <1>4, <2>1, <2>2, Places
<1>9. e \in logs' \ logs
  BY <1>1
<1> QED
  BY <1>1, <1>3, <1>5, <1>7, <1>8, <1>9 DEF Submission!Next, Submission!Log

\* A session writes mails down the way MailSubmission says, and so nothing is queued or logged out of
\* turn, and no answer is ahead of the tables.
THEOREM PromiseIsKept == Spec => KeepsPromise
<1>1. Init => Levels /\ Submission!Init
  BY DEF Init, Levels, Level, Closed, Fresh, Submission!Init
<1>2. Inv /\ Inv' /\ Levels /\ [Next]_vars => [Submission!Next]_(Submission!vars)
  <2> SUFFICES ASSUME Inv, Inv', Levels, [Next]_vars, ~UNCHANGED <<wanted, rows, logs, confirmed>>
               PROVE  Submission!Next
    BY DEF Submission!vars
  <2>1. PICK s \in Sessions :
          (\E m \in Mails : Data(s, m)) \/ QueueRow(s) \/ LogRow(s) \/ Answer(s)
    BY DEF Next, Work, Connect, Break, Close, Quit, StartTls, Auth, Mail, Rset, Rcpt, EndData,
           Save, Ready, Reload, Restart, Administer, account, written, vars
  <2>2. ses[s] \in Session /\ Fit(ses[s]) /\ TypeOK
    BY DEF Inv, TInv, TypeOK
  <2>3. ASSUME NEW m \in Mails, Data(s, m) PROVE Submission!Next
    <3>1. /\ wanted[m] = <<>> /\ wanted' = [wanted EXCEPT ![m] = ses[s].named]
          /\ UNCHANGED <<rows, logs, confirmed>> /\ ses[s].named # <<>>
      BY <2>2, <2>3 DEF Data, written, Levels, Fit
    <3>2. wanted'[m] # <<>> /\ \A n \in Mails \ {m} : wanted'[n] = wanted[n]
      BY <2>2, <3>1 DEF TypeOK
    <3>3. wanted' \in [Mails -> Seq(Rcpts)]
      BY DEF Inv, TInv, TypeOK
    <3> QED
      BY <3>1, <3>2, <3>3 DEF Submission!Next, Submission!Name
  <2>4. CASE QueueRow(s)
    BY <2>4, QueuePromised DEF QueueRow, account
  <2>5. CASE LogRow(s)
    BY <2>5, LogPromised DEF LogRow, account
  <2>6. CASE Answer(s)
    <3> DEFINE m == ses[s].mail
    <3>1. /\ ses[s].pc = "answer" /\ ses[s].ok /\ confirmed' = confirmed \cup {m}
          /\ UNCHANGED <<rows, logs, wanted>>
      BY <2>6 DEF Answer, written
    <3>2. m \in Mails /\ ses[s].rcpts # <<>> /\ Held(s)
      BY <2>2, <3>1 DEF Session, Fit, Inv, Holders
    <3>3. /\ wanted[m] = ses[s].rcpts
          /\ \A i \in 1 .. Len(wanted[m]) : Queued(m, i) /\ Logged(m, i)
      BY <3>1, <3>2 DEF Held
    <3>4. Submission!UpTo(rows, m, Len(wanted[m])) /\ Submission!UpTo(logs, m, Len(wanted[m]))
      BY <3>2, <3>3, Complete
    <3>5. m \in confirmed' \ confirmed
      BY <3>1
    <3> QED
      BY <3>1, <3>2, <3>3, <3>4, <3>5 DEF Submission!Next, Submission!Confirm
  <2> QED
    BY <2>1, <2>3, <2>4, <2>5, <2>6
<1> QED
  BY <1>1, <1>2, InvInit, InvStep, LevelsStep, PTL DEF Spec, KeepsPromise, Submission!Spec
----------------------------------------------------------------------------
(* Who may send to other servers *)

MayName(x) == x.auth \/ x.reloaded \/ \A i \in 1 .. Len(x.rcpts) : DomainOf[x.rcpts[i]] \in store

Entitled == \A s \in Sessions : MayName(ses[s])

LEMMA ResetMayName ==
  /\ \A x \in Session : MayName(Reset(x))
  /\ \A a, b \in BOOLEAN : MayName(Fresh(a, b))
  /\ MayName(Closed)
<1>1. \A i : i \notin 1 .. Len(<<>>)
  OBVIOUS
<1>2. /\ \A x \in Session : Reset(x).rcpts = <<>>
      /\ \A a, b : Fresh(a, b).rcpts = <<>>
      /\ Closed.rcpts = <<>>
  BY DEF Reset, Fresh, Closed, Session
<1> QED
  BY <1>1, <1>2 DEF MayName

LEMMA EntitledWork ==
  ASSUME TInv, Begun, Entitled, NEW s \in Sessions, Work(s)
  PROVE  \E x : Become(s, x) /\ MayName(x)
<1> DEFINE y == ses[s]
<1>1. y \in Session /\ Fit(y) /\ MayName(y)
  BY DEF TInv, TypeOK, Entitled
<1> HIDE DEF y
<1>2. CASE Connect(s)
  BY <1>2, ResetMayName DEF Connect, MayName, Fresh
<1>3. CASE Close(s) \/ Quit(s) \/ Rset(s)
  BY <1>1, <1>3, ResetMayName DEF Close, Quit, Rset, y
<1>4. CASE StartTls(s)
  <2> DEFINE x == [Reset(y) EXCEPT !.tls = TRUE, !.auth = FALSE]
  <2>1. Become(s, x) \/ Become(s, Closed)
    BY <1>4 DEF StartTls, y
  <2>2. x.rcpts = <<>>
    BY <1>1 DEF Reset, Session
  <2>3. MayName(x)
    <3>1. \A i : i \notin 1 .. Len(<<>>)
      OBVIOUS
    <3> HIDE DEF x
    <3> QED
      BY <2>2, <3>1 DEF MayName
  <2> HIDE DEF x
  <2> QED
    BY <2>1, <2>3, ResetMayName
<1>5. CASE Auth(s)
  <2>1. Become(s, [y EXCEPT !.auth = TRUE])
    BY <1>5 DEF Auth, y
  <2>2. [y EXCEPT !.auth = TRUE].auth
    BY <1>1 DEF Session
  <2> QED
    BY <2>1, <2>2 DEF MayName
<1>6. ASSUME NEW x, Become(s, x), x.rcpts = y.rcpts, x.auth = y.auth, x.reloaded = y.reloaded
      PROVE  \E z : Become(s, z) /\ MayName(z)
  BY <1>1, <1>6, Zenon DEF MayName
<1>7. CASE Break(s) \/ Mail(s) \/ EndData(s) \/ \E m \in Mails : Data(s, m)
  <2>1. \E x \in {[y EXCEPT !.link = "eof"], [y EXCEPT !.link = "error"], [y EXCEPT !.from = TRUE],
                  [y EXCEPT !.pc = "save"]} \cup {[y EXCEPT !.pc = "data", !.mail = m] : m \in Mails} :
          Become(s, x)
    BY <1>7 DEF Break, Mail, EndData, Data, y
  <2>2. \A m \in Mails :
          LET x == [y EXCEPT !.pc = "data", !.mail = m]
          IN  x.rcpts = y.rcpts /\ x.auth = y.auth /\ x.reloaded = y.reloaded
    BY <1>1 DEF Session
  <2>3. \A x \in {[y EXCEPT !.link = "eof"], [y EXCEPT !.link = "error"], [y EXCEPT !.from = TRUE],
                  [y EXCEPT !.pc = "save"]} :
          x.rcpts = y.rcpts /\ x.auth = y.auth /\ x.reloaded = y.reloaded
    BY <1>1 DEF Session
  <2> QED
    BY <1>6, <2>1, <2>2, <2>3
<1>8. CASE Save(s)
  <2>1. \E x \in {[y EXCEPT !.pc = "queue", !.next = 1], Fail(y)} : Become(s, x)
    BY <1>8 DEF Save, y
  <2>2. \A x \in {[y EXCEPT !.pc = "queue", !.next = 1], Fail(y)} :
          x.rcpts = y.rcpts /\ x.auth = y.auth /\ x.reloaded = y.reloaded
    BY <1>1 DEF Session, Fail
  <2> QED
    BY <1>6, <2>1, <2>2
<1>9. CASE QueueRow(s) \/ LogRow(s)
  <2>1. \E x \in {Step(y, "log"), Step(y, "answer"), Fail(y)} : Become(s, x)
    BY <1>9 DEF QueueRow, LogRow, y
  <2> QED
    BY <1>1, <1>6, <2>1, RoundsKeep
<1>10. CASE Answer(s)
  <2> DEFINE x == [Reset(y) EXCEPT !.pc = "command"]
  <2>1. Become(s, x)
    BY <1>10 DEF Answer, y
  <2>2. x.rcpts = <<>>
    BY <1>1 DEF Reset, Session
  <2>3. \A i : i \notin 1 .. Len(<<>>)
    OBVIOUS
  <2> HIDE DEF x
  <2> QED
    BY <2>1, <2>2, <2>3 DEF MayName
<1>11. ASSUME NEW r \in Rcpts, Rcpt(s, r)
       PROVE  \E x : Become(s, x) /\ MayName(x)
  <2> DEFINE x == [y EXCEPT !.rcpts = Append(@, r), !.named = Append(@, r)]
  <2>1. Become(s, x) /\ (DomainOf[r] \in store \/ y.auth)
    BY <1>11 DEF Rcpt, Accepts, y
  <2>2. x.rcpts = Append(y.rcpts, r) /\ (x.auth <=> y.auth) /\ (x.reloaded <=> y.reloaded)
    BY <1>1 DEF Session
  <2>3. y.rcpts \in Seq(Rcpts)
    BY <1>1 DEF Session
  <2>4. \A i \in 1 .. Len(x.rcpts) : x.rcpts[i] = r \/ (i \in 1 .. Len(y.rcpts) /\ x.rcpts[i] = y.rcpts[i])
    BY <2>2, <2>3, AppendProperties, LenProperties
  <2> HIDE DEF x
  <2> QED
    BY <1>1, <2>1, <2>2, <2>4 DEF MayName
<1> QED
  BY <1>2, <1>3, <1>4, <1>5, <1>7, <1>8, <1>9, <1>10, <1>11 DEF Work

LEMMA EntitledStep == TInv /\ Begun /\ Entitled /\ [Next]_vars => Entitled'
<1> SUFFICES ASSUME TInv, Begun, Entitled, [Next]_vars
             PROVE  Entitled'
  OBVIOUS
<1>1. ASSUME NEW s \in Sessions, Work(s)
      PROVE  Entitled'
  <2>1. PICK x : Become(s, x) /\ MayName(x)
    BY <1>1, EntitledWork
  <2>2. ses'[s] = x /\ \A t \in Sessions \ {s} : ses'[t] = ses[t]
    BY <2>1, Becomes DEF TInv
  <2>3. store' = store
    BY <1>1 DEF Work, Connect, Break, Close, Quit, StartTls, Auth, Mail, Rset, Rcpt, Data,
                EndData, Save, QueueRow, LogRow, Answer, Ready
  <2> QED
    BY <2>1, <2>2, <2>3 DEF Entitled, MayName
<1>2. CASE Reload
  <2> SUFFICES ASSUME NEW s \in Sessions
               PROVE  MayName(ses[s])'
    BY DEF Entitled
  <2>1. PICK b \in BOOLEAN : ses'[s] = [ses[s] EXCEPT !.reloaded = b]
    BY <1>2, ReloadKeeps DEF TInv
  <2>2. ses[s] \in Session /\ MayName(ses[s]) /\ store' = domains
    BY <1>2 DEF TInv, TypeOK, Entitled, Reload
  <2>3. /\ ses'[s].rcpts = ses[s].rcpts /\ (ses'[s].auth <=> ses[s].auth)
        /\ store = domains \/ ses[s].rcpts = <<>> \/ ses'[s].reloaded
    BY <1>2, <2>1, <2>2, ReloadKeeps DEF TInv, Session
  <2>4. ses[s].reloaded => ses'[s].reloaded
    BY <1>2 DEF Reload, TInv, TypeOK, Session
  <2>5. \A i : i \notin 1 .. Len(<<>>)
    OBVIOUS
  <2> QED
    BY <2>2, <2>3, <2>4, <2>5 DEF MayName
<1>3. CASE Restart
  <2>1. \A s \in Sessions : ses'[s].rcpts = <<>>
    BY <1>3 DEF Restart, Closed, Fresh
  <2>2. \A i : i \notin 1 .. Len(<<>>)
    OBVIOUS
  <2> QED
    BY <2>1, <2>2 DEF Entitled, MayName
<1>4. CASE Administer \/ UNCHANGED vars
  BY <1>4 DEF Administer, vars, Entitled, MayName
<1> QED
  BY <1>1, <1>2, <1>3, <1>4 DEF Next

\* Mail for another server is queued only by a session whose sender has authenticated,
\* or that was told before the list changed that the recipient is local.
THEOREM OutboundIsAuthenticated == Spec => OutboundAuthenticated
<1> DEFINE P == \A row \in rows' \ rows : row.outbound =>
                  \E s \in Sessions : ses[s].mail = row.mail /\ (ses[s].auth \/ ses[s].reloaded)
<1>1. Init => Entitled
  <2>1. Init => \A s \in Sessions : ses[s] = Closed
    BY DEF Init
  <2> QED
    BY <2>1, ResetMayName DEF Entitled
<1>2. TInv /\ Begun /\ Entitled /\ [Next]_vars => P
  <2> SUFFICES ASSUME TInv, Begun, Entitled, [Next]_vars,
                      NEW row \in rows' \ rows, row.outbound
               PROVE  \E s \in Sessions :
                        ses[s].mail = row.mail /\ (ses[s].auth \/ ses[s].reloaded)
    OBVIOUS
  <2>1. PICK s \in Sessions : QueueRow(s)
    BY DEF Next, Work, Connect, Break, Close, Quit, StartTls, Auth, Mail, Rset, Rcpt, Data,
           EndData, Save, LogRow, Answer, Ready, Reload, Restart, Administer, written, vars
  <2>2. row = RowOf(ses[s]) /\ ses[s].pc = "queue"
    BY <2>1 DEF QueueRow, RowOf
  <2>3. ses[s] \in Session /\ Fit(ses[s]) /\ MayName(ses[s])
    BY DEF TInv, TypeOK, Entitled
  <2>4. ses[s].next \in 1 .. Len(ses[s].rcpts)
    BY <2>2, <2>3 DEF Fit
  <2>5. row.mail = ses[s].mail
    BY <2>2 DEF RowOf
  <2>6. DomainOf[ses[s].rcpts[ses[s].next]] \notin store
    <3> DEFINE out == DomainOf[ses[s].rcpts[ses[s].next]] \notin store
    <3>1. RowOf(ses[s]).outbound = out
      BY DEF RowOf
    <3> QED
      BY <2>2, <3>1
  <2> QED
    BY <2>3, <2>4, <2>5, <2>6 DEF MayName
<1> HIDE DEF P
<1>3. Spec => [][P]_vars
  BY <1>1, <1>2, TypeInit, TypeStep, EntitledStep, PTL DEF Spec
<1> QED
  BY <1>3 DEF P, OutboundAuthenticated
-----------------------------------------------------------------------------
(* The sessions and the delivery engine together *)

\* What the contract of the engine keeps
Accounted ==
  \A k \in Row : custody[k] \in {"new", "accepted", "quarantined"} \/ Decided(k)

\* The engine has had every row that was written
TakenOver ==
  \A row \in rows : custody[KeyOf(row)] # "new"

LEMMA KeysTyped == ASSUME TypeOK, NEW row \in rows PROVE KeyOf(row) \in Row
  BY DEF TypeOK, KeyOf, Row

\* A step of the engine leaves everybody accounted for, and forgets nobody it has had
LEMMA EngineStep ==
  ASSUME Accounted, DOMAIN custody = Row, [Engine!Next]_(Engine!vars)
  PROVE  /\ Accounted' /\ DOMAIN custody' = Row
         /\ \A k \in Row : custody[k] # "new" => custody'[k] # "new"
<1>1. CASE UNCHANGED Engine!vars
  BY <1>1 DEF Engine!vars, Accounted, Decided
<1>2. ASSUME NEW n \in Row,
             \/ Engine!Accept(n) \/ Engine!Quarantine(n) \/ Engine!Release(n)
      PROVE  /\ Accounted' /\ DOMAIN custody' = Row
             /\ \A k \in Row : custody[k] # "new" => custody'[k] # "new"
  BY <1>2 DEF Engine!Accept, Engine!Quarantine, Engine!Release, Accounted, Decided
<1>3. ASSUME NEW n \in Row, Engine!HandOver(n) \/ Engine!Refuse(n)
      PROVE  /\ Accounted' /\ DOMAIN custody' = Row
             /\ \A k \in Row : custody[k] # "new" => custody'[k] # "new"
  BY <1>3 DEF Engine!HandOver, Engine!Refuse, Accounted, Decided
<1>4. ASSUME NEW n \in Row, Engine!Forget(n) \/ Engine!Withdraw(n)
      PROVE  /\ Accounted' /\ DOMAIN custody' = Row
             /\ \A k \in Row : custody[k] # "new" => custody'[k] # "new"
  BY <1>4 DEF Engine!Forget, Engine!Withdraw, Accounted, Decided
<1> QED
  BY <1>1, <1>2, <1>3, <1>4 DEF Engine!Next

\* From two contracts and what one has to do with the other: what the sessions confirm is queued as
\* named (QueuedIsNamed), what is queued the engine has, and what the engine has it lets go of only when
\* it is decided.  For any number of sessions, mails, recipients and domains.
THEOREM ConfirmedAreServed == System => []NamedAreServed
<1> DEFINE SInv == TypeOK /\ QueuedAsNamed
           EInv == Accounted /\ DOMAIN custody = Row /\ TakenOver
           All  == <<vars, Engine!vars>>
           Reach == \A row \in rows' \ rows : custody'[KeyOf(row)] \in {"accepted", "quarantined"}
<1>1. Spec => []SInv
  BY QueuedIsNamed, TypeCorrect, PTL
<1>2. Init /\ Engine!Init => EInv
  BY DEF Init, Engine!Init, Accounted, TakenOver
<1>3. SInv /\ SInv' /\ EInv /\ [Next]_vars /\ [Engine!Next]_(Engine!vars) /\ [Reach]_All => EInv'
  <2> SUFFICES ASSUME SInv, SInv', EInv, [Next]_vars, [Engine!Next]_(Engine!vars), [Reach]_All
               PROVE  EInv'
    OBVIOUS
  <2>1. Accounted' /\ DOMAIN custody' = Row /\ \A k \in Row : custody[k] # "new" => custody'[k] # "new"
    BY EngineStep
  <2>2. ASSUME NEW row \in rows' PROVE custody'[KeyOf(row)] # "new"
    <3>1. CASE row \in rows
      BY <2>1, <3>1, KeysTyped DEF TakenOver
    <3>2. CASE row \notin rows
      BY <2>2, <3>2 DEF vars
    <3> QED
      BY <3>1, <3>2
  <2> QED
    BY <2>1, <2>2 DEF TakenOver
<1>4. SInv /\ EInv => NamedAreServed
  <2> SUFFICES ASSUME SInv, EInv, NEW m \in confirmed, NEW k \in Ordered(m)
               PROVE  InCustody(k) \/ Decided(k)
    BY DEF NamedAreServed
  <2>1. PICK row \in rows : KeyOf(row) = k
    BY DEF QueuedAsNamed, Rows
  <2>2. k \in Row /\ custody[k] # "new"
    BY <2>1, KeysTyped DEF TakenOver
  <2> QED
    BY <2>2 DEF Accounted, InCustody
<1> HIDE DEF SInv, EInv, Reach, All
<1>5. RowsReachEngine => [][Reach]_All
  BY PTL DEF RowsReachEngine, Reach, All
<1> QED
  BY <1>1, <1>2, <1>3, <1>4, <1>5, PTL DEF System, Spec, Engine!Spec
=============================================================================
