--------------------------- MODULE SmtpProperties ---------------------------
(***************************************************************************)
(* What a session guarantees its client, stated over SmtpSession.          *)
(***************************************************************************)
EXTENDS SmtpSession

Rows(m) == {row \in rows : row.mail = m}

\* What the client asked for m, as keys of rows: the recipients it has been told 250 for
\* since the connection began, or since the last RSET, STARTTLS or end of data before m.
\* MAIL and EHLO end no transaction here: the recipients named under an earlier MAIL that
\* came to no DATA are among them, as rcpt_to keeps them (session.rs:344-364, 404-406).
Ordered(m) == {[mail |-> m, at |-> i, to |-> wanted[m][i]] : i \in 1 .. Len(wanted[m])}

KeyOf(row) == [mail |-> row.mail, at |-> row.at, to |-> row.to]

\* A client that has seen 250 to its data finds queued what it asked for in this sense,
\* complete: one row for each of those recipients and for nobody else, whatever other
\* sessions, reloads, failed statements and earlier mails did.
QueuedAsNamed ==
  \A m \in confirmed :
    /\ {KeyOf(row) : row \in Rows(m)} = Ordered(m)
    /\ m \notin cut

\* Also when it has not seen 250 and so does not know, nobody gets the mail that it
\* did not name in this sense, nor twice: what was named before the last RSET,
\* STARTTLS or end of data is forgotten, and a repetition by the client is the only
\* source of duplicates here.
NothingElseQueued ==
  \A row \in rows :
    /\ KeyOf(row) \in Ordered(row.mail)
    /\ \A other \in rows : KeyOf(other) = KeyOf(row) => other = row

\* The log has an entry for every queued row of a confirmed mail, and never one for
\* a recipient that was not queued: deliver_one finds the entry it updates.
LoggedAsQueued ==
  /\ logs \subseteq {KeyOf(row) : row \in rows}
  /\ \A m \in confirmed : \A row \in Rows(m) : KeyOf(row) \in logs

Submission == INSTANCE MailSubmission WITH queued <- rows, logged <- logs

\* handle_data writes a mail the way MailSubmission says, however many sessions write at once and
\* wherever one of them fails or the process stops: in the order of the RCPTs, all of the queue before
\* the log, and nothing once the log is complete, which the 250 waits for.
KeepsPromise == Submission!Spec

\* session.rs:443-447: mail for other servers is queued only for a sender who has
\* authenticated, on any port, and also if STARTTLS comes in between.  The
\* decision is made at RCPT and not again, so the list of domains may change after it.
OutboundAuthenticated ==
  [][\A row \in rows' \ rows : row.outbound =>
       \E s \in Sessions : ses[s].mail = row.mail /\ (ses[s].auth \/ ses[s].reloaded)]_vars
=============================================================================
