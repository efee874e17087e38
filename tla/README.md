# Verification of FunMail

TLA+ models of the FunMail mail server (the Rust crates under `src/crates/`), model-checked with TLC, and their safety
properties proved with TLAPS. `PROJECT.json` is the index: components, runs, the source lines every definition stands for,
mutants, hazards, findings and theorems. Paths below are relative to `src/crates/`.

## 1. The system

FunMail is five processes around one PostgreSQL database and one Maildir tree. They share no memory: they meet in
tables, in files, and in one `LISTEN/NOTIFY` channel.

| Component | State | Operations | Talks to |
|---|---|---|---|
| **Delivery engine** `funmail-delivery/src/main.rs` | `mail_queue` (status, retry_count, next_retry_at), `mail_logs`; in memory the ids each loop has selected and one worker per id | start-up recovery; three loops (LISTEN, 1 s poll, 30 s retry), each scan → mark → spawn → join; `deliver_one` | database, local and remote delivery |
| **Local delivery** `funmail-delivery/src/local.rs` | Maildir `new/`, `mailboxes.used_bytes` | check, quota, write, count, forward rows | database, files, queue (forwards) |
| **Remote delivery** `funmail-delivery/src/remote.rs`, `dns.rs` | MX and address loops, one SMTP dialogue at a time | `deliver_remote`, `try_smtp_delivery`, STARTTLS | DNS, foreign servers |
| **SMTP session** `funmail-smtp/src/session.rs` | envelope, authentication, TLS | HELO…QUIT, DATA → file, queue rows, notification, log rows, Sent copy | domain store, database, files |
| **Domain store** `funmail-smtp/src/store.rs` | cached set of local domains | reload, `is_local` | database |
| **POP3 session** `funmail-pop3/src/main.rs` | listing with marks | PASS, DELE, RSET, QUIT | Maildir |
| **IMAP session** `funmail-imap/src/main.rs` | folders, UIDs, selection, IDLE | SELECT, FETCH, STORE, EXPUNGE, APPEND, IDLE | Maildir |
| **Mailbox store** `funmail-common/src/db.rs`, `session.rs`, `mail_routes.rs` | `used_bytes`, `new/`, `Sent/new` | add, recount at the start of funmail-admin, Sent copy | all of the above |
| **Queue and log administration** `funmail-admin/src/api/queue_routes.rs`, `tasks.rs` | the two tables | delete, retry, hourly clean-up | database |
| **Webmail** `api/webmail_routes.rs`, `mail_routes.rs` | attempt windows, blocks, captcha store, token_version | login, register, list, send, delete | database, Maildir |
| **Certificates** `acme.rs`, `api/cert_routes.rs`, `api/domain_routes.rs`, `funmail-common/src/tls.rs` | progress map, challenges, certificates | request, set-up of a domain, renew, delete, reload | ACME server, database |
| **Accounts** `api/user_routes.rs`, `auth_routes.rs` | administrators | create, update, delete, login | database |
| Domains and mailboxes `api/domain_routes.rs`, `api/mailbox_routes.rs` | rows and directories | create, update, delete | database, files |
| Scanning, DKIM/SPF/DMARC, statistics, logs, settings, front ends, deployment | – | – | – |

**What is hard.** Every SQL statement is a transaction of its own, so anything may happen between two statements of
one handler. Three loops of the engine select from the same rows. Errors of the statements that record an outcome
are discarded (`let _ =`). The engine stops without waiting for its workers. Notifications are lost while the listener
reconnects. Reads from a foreign server have no timeout. Quota check, write and count are far apart. POP3 deletes by a
listing made earlier. Background tasks of the administration share a progress map. The `hazards` of `PROJECT.json`
name each at its line.

**What makes a component correct.**

* Delivery engine: no accepted message is lost or stuck; what the tables say of it is true; the retry budget is
  honoured; it is settled in the end.
* Local and remote delivery: `Ok` means handed over, because the engine then marks the row `delivered`.
* Mailbox: the quota bounds what is stored, up to what runs at the same time; used_bytes says what is stored, no less
  and no more, but for what is named.
* SMTP session: 250 after DATA means that what the client named is queued, complete and once; nothing named before a
  RSET, STARTTLS or end of DATA leaks into the next mail (MAIL and EHLO do not forget what was named); mail for other
  servers is only for those who have authenticated.
* IMAP: a UID means one mail for as long as UIDVALIDITY stays; a waiting client hears of new mail.
* Certificates: a request finds its token in place; a domain is set up when all its certificates are there; nothing is
  noted as running for ever; the servers follow the table.
* Accounts: one enabled administrator always remains; who was signed out stays so.
* Webmail: the limits count what they say; a block holds; a captcha serves once.

## 2. Modules

| Module | Models | Composed with |
|---|---|---|
| `DeliveryQueue` | delivery engine, row acceptance, queue administration, clean-up | – |
| `MailCustody` | abstract: what is owed to an accepted message | refined by `DeliveryQueue` |
| `DeliveryProperties` | the properties of `DeliveryQueue`, the refinement mapping | `DeliveryQueue`, `MailCustody` |
| `MCDelivery` | values of constants for the runs | `DeliveryProperties` |
| `DeliveryProofs` | theorems | `DeliveryProperties` |
| `DeliveryAttempt` | abstract: what `deliver_one` relies on when it calls a delivery | refined by both deliveries |
| `RemoteDelivery`, `RemoteProperties` | `deliver_remote` against a server that does as it likes | `DeliveryAttempt` |
| `RemoteProofs` | theorems | `RemoteProperties` |
| `SmtpSession`, `SmtpProperties`, `MCSmtp` | the SMTP sessions and the cached list of domains they share | `MailSubmission` |
| `MailSystem` | the SMTP sessions and the contract of the delivery engine over one table of rows; proved about, not run | `SmtpProperties`, `MailCustody` |
| `MailSubmission` | abstract: how a session writes a mail down for the delivery engine and its client | refined by `SmtpSession` |
| `SmtpProofs` | theorems | `SmtpProperties`, `MailSystem` |
| `Mailbox`, `MailboxProperties`, `MCMailbox` | one mailbox and all that share it | `DeliveryAttempt` |
| `MailboxProofs` | theorems | `MailboxProperties` |
| `ImapSession`, `ImapProperties` | IMAP sessions over a folder that others fill and empty | – |
| `ImapProofs` | theorems | `ImapProperties` |
| `Certificates`, `CertificateProperties` | the tasks of funmail-admin about certificates, the reload of the mail servers | – |
| `CertificateProofs` | theorems | `CertificateProperties` |
| `Administrators`, `MCAdministrators` | users of the administration, their tokens, overlapping changes | – |
| `AdministratorProofs` | theorems | `Administrators` |
| `WebmailAccess`, `WebmailProperties`, `MCWebmail` | windows, blocks, registrations and captchas, shared with the administration | – |
| `WebmailProofs` | theorems | `WebmailProperties` |

`DeliveryQueue!Attempt` treats a delivery as one step that may hand over the message and must have done so to return
`sent`. `DeliveryAttempt` is that contract with the call spread over time, and the two detailed models of a delivery
are shown to implement it. At the other end, `DeliveryQueue!InsertRow`, `Notify` and `InsertLog` are what
`SmtpSession!QueueRow` and `LogRow` do, seen from one row; `MailSubmission` says in which order these rows come.
So the models fit together without being multiplied into one state space; `MailSystem` puts the sessions and the contract
of the engine together over the table they share, for a proof.

### DeliveryQueue

* `row`, `retries`, `due` are `mail_queue.status`, `retry_count`, and "next_retry_at has passed"; `log` is the status
  in `mail_logs`. A mail is one row: one message for one recipient.
* `ingest` is the accepting process: `InsertRow`, `Notify`, `InsertLog`, or `AbandonLog` when it stops between them
  (`session.rs` 686–756; `mail_routes.rs` 537–596).
* `pc[l]`, `batch[l]` are each loop: `Scan` is the SELECT, `MarkDelivering` the UPDATE and the spawning, `Join` the
  end of awaiting (216–257). `ScanDue` and `Requeue` are `process_retry_mail` (430–455).
* `work[l][m]` is the worker: `Acquire` (permit), `Attempt`, `RecordDelivered`, `ReadRetries`, `Bounce`, `Defer`,
  `RecordLog` (together `Record`) – one step per statement of `deliver_one` (259–384). `seen` is the retry_count it has read.
* `Crash`, `Start` (with the recovery of `delivering` rows, which may fail), `LoseNotes`.
* `DeleteEntry`, `RetryEntry`, `Expire`: administrator and hourly clean-up.
* Every statement whose error the code discards has a second outcome in which nothing is written (`Fault`).

Abstracted: the back-off interval (`Elapse` may happen at any time after a deferral), content and addresses,
`priority` (0 in every row the code inserts), `SKIP LOCKED` (the row locks are gone when the statement returns, as it
runs outside a transaction). Each scan makes its own semaphore, so `WorkerCount` bounds the workers of one batch, not
of the process.

### SmtpSession

* `ses[s]` is `SmtpSession` of session.rs with what `run_session` knows besides: `pc` is the place in the loop
  (`command`, `data`) or in `handle_data` (`save`, `queue`, `log`, `answer`), `next` the recipient of the INSERT that is
  next, `link` the client's side of the connection. Each command that changes the session is an action; those that
  change nothing it reads again (HELO, NOOP, whatever is refused) are none. EHLO and MAIL keep the recipients named so
  far, as the code does (session.rs 344–364, 404–406): those of a MAIL that came to no DATA are queued with the next mail.
* `EndData` has the two ends of `read_line`, the dot and the end of the connection; an error closes instead (`Close`).
* `Save`, `QueueRow`, `LogRow` may each fail, and then the client gets 451 and what was inserted stays.
* `store` is `DomainStore`, read at RCPT and again for each row; `Reload` is the 15-second task, `Administer` the
  change of the table.
* `begun`, `wanted`, `confirmed`, `cut`, and in a session `named` and `reloaded`, are history: they record what the
  client has asked for and been told, so that the properties need not rely on what the session remembers. `named` goes
  back to nothing where `reset()` is called, so "named" in the properties means: since the last RSET, STARTTLS, end of data
  or start of the connection, also under an earlier MAIL.

Abstracted: the bytes of the data, the table of mailboxes asked at RCPT (which only refuses), the check of the sender
against the account, and the scanners. `max_recipients` is a constant, although the code reads it from the settings:
its column is `int4` and is read as `i64`, so that the default of 100 is always used. The name of a mail (date, time
and random letters) is taken to be new.

### RemoteDelivery

`pc` is the command whose answer is awaited; `host`, `addr`, `addrs` the two loops; `lastError` what `last_error`
implies for `is_permanent_smtp_error`. `wire` holds the reply lines that were sent and not read, each with its code
and separator, and (as history) the command it answers. `Complete`, `ReadOn`, `Refuse` and `ReadEnd` are the branches
of `read_smtp_response`; the greeting is one `read_line`. The server (`external` in the map) answers in one line
(`ServerReply`) or in any number of them (`ServerBegin`, `ServerMore`, `ServerEnds`; `saying` is the reply it has begun),
with the bare code, with 421, 450 or 550, takes the message before it says so, and may break off at any point,
so an answer may be lost after the message was taken. A reply need not end: read_smtp_response (remote.rs 279–296) reads
"250-" lines for as long as they come. What is sent and not read is at most `MaxUnread` lines, the window of the connection.

### Mailbox

`pc[c]` is one call of `deliver_local`; every `?` is a place where it may fail. The write is two steps because
`fs::write` goes straight into `new/`. `session`, `listed`, `marked` are POP3; QUIT removes one file per step.
`copying` is the Sent copy before it is counted. `recount` and `total` are `recalc_all_used_bytes`, which reads one
directory after the other and then stores the sum. `account` is the row as the administrator leaves it; deleting it
leaves the files. A stop of the engine inside a call looks to the mailbox like a failed statement or write there, so
it has no action of its own. Mails have unit size. `slipped` and `unseen` are history: what is known to be missing in
`used_bytes` because of an error or of the recount. `removed` and `twice` are history too: what POP3 has removed without
taking it off, and what was written but not yet added when a recount stored its sum, and so is added a second time.

### ImapSession

* `ses[s]` is `ImapSession` of funmail-imap/src/main.rs with the place in the program (`pc`: waiting for a command,
  in IDLE, waiting for the literal of APPEND). `listing` is what `load_folders` put into `folders` last: the set of mails,
  since UIDs and sequence numbers follow from it (`Uid`, 1 to n in order of date). `folder` is the directory.
* `cache` is the client: what it has kept under each UID over all its connections, as the constant UIDVALIDITY allows.
  `UidFetch` is its use of UID FETCH for what it does not know.
* IDLE is a loop of `read_line` with a timeout of 5 s: `Hear` has a line, `Waited` none, and then half a line is lost with
  the future that read it (`line`, `typed`). `Expire` is max_idle.
* `Arrives`, `Remove` are the other programs; mails are numbered by the order of their dates and arrive in any order.
* `account` in a session says whether auth_username is set. SELECT, EXAMINE, NOOP, CHECK, CLOSE, IDLE and UID FETCH do not
  ask for the state (main.rs 538–674, 733, 833): before the login `load_folders` finds the folder of nobody (`Found`), and
  SELECT and CLOSE set the state all the same, after which LOGIN is refused and AUTHENTICATE is not.
* `calm` is history: mails came in order and none was removed.

Abstracted: the folders other than the one at hand, flags (which nothing stores), texts of answers, the commands that
answer OK and change nothing. A mail arrives in one step: local.rs 86 writes straight into `new/`, and a listing made in
that moment has a part of the mail, which this model leaves out (`Mailbox` has the two steps). A client sends APPEND only
after its login.

### Certificates

* A *task* is one request of an administrator with the background task it starts, or one row of the daily renewal; `at`
  is its place between two waits, each action one statement or one exchange with the authority. `Turn`, `Ask`, `Order`,
  `Validate`, `Issue`, `Store`, `Finish` are the body of `setup_cert`'s loop and `create_cert`'s task.
* `progress` is `cert_progress`; `challenge` is acme_challenges with its key, the host; `certs` the table; `setup` the
  column setup_completed; `served` what `TlsCertStore::reload` has put together. A PEM is `good`, `unreadable` (one of
  those and the reload fails for all) or has a key that rustls does not support (`unsupported`: `CertResolver::add` skips
  that certificate alone, `Entry`).
* `Survey` has two outcomes, as an error of its SELECT is read as "no host has a certificate" (domain_routes.rs 649).
* `GiveUp` stands for every error and for the 180 s around a request, `Refuse` for the authority's no, `Hangup` for the end
  of the connection on which a handler runs, `Restart` for the process.
* `alone`, `had`, `renewed` are history.

Abstracted: the order in which a setup takes its hosts (they are alike), auto_renew and expiry (any ACME row may be due),
the DNS check, the two steps of the reload, which no one else writes. The four names of a domain are a constant.

### Administrators

* `users` is admin_users, `token[u]` the last JWT of u with the role and version in it. `Admit` is `verify_admin_claims`
  and `require_admin_role`, `Look` the SELECTs of the actor and the target, `Count` the SELECT COUNT, `Update` and
  `Delete` the statement that writes: other requests come between any two of them.
* `signedOut`, `stale`, `overtaken`, `old` are history. A row that has been deleted ends the requests for it, as ids are
  not used again.

### WebmailAccess

* `tries`, `signups`, `successes`, `blockUntil` are the `AttemptCounter` of one address (all calls of an address meet
  there, others do not). The vectors of instants are sets whose members say by whom and when in the call they were noted,
  as nothing depends on their order. `Check` is `check_and_record`, which the login of the administration repeats with
  limits of its own; `LoggedIn`, `Failed`, `Registered` are what follows when the outcome is known, under another lock.
* `captcha` and `cleaning` are `captcha_store` and the `get_captcha` calls between insertion and clean-up. Such a call may
  end with its connection before it has the lock for the clean-up (`CutOff`, webmail_routes.rs 601–602); `uncleaned` is
  history, the captchas it leaves until someone else cleans up.
* Time is a clock of a few instants; the age of a captcha is the action `Expire`.
* `before`, `overtaken`, `touched`, `solved` are history.

## 3. Runs

| Run | Question | Result |
|---|---|---|
| `delivery_faults` | one stop, one refused statement and one intervention of the administrator anywhere | `OwnedWhileDelivering`, `HonestOutcome`, `FullBudget`, `LogWrittenOnce`; refinement `KeepsCustody` |
| `delivery_settles` | liveness, with one stop of the engine or one intervention of the administrator (delete, retry) anywhere | `EventuallySettled`, `LogCatchesUp` |
| `delivery_duplicate` | "avoid duplicate delivery" (comment, main.rs 217) | **violated**, by two loops |
| `delivery_blocked` | "one slow mail does not block the others" (main.rs 243) | **violated**, for later batches |
| `remote_delivery` | all servers, replies of any length, broken links at every point | `TakenTwiceOnlyAfterError`, `AnswersMatch`, `ListExhausted`, `PermanentHasReason`, `KeepsContract`, `GoesForward` hold; `Returns` when the servers end their replies |
| `smtp` | commands in any order, failures, broken connections, restarts, domains changing | `QueuedAsNamed`, `NothingElseQueued`, `OutboundAuthenticated` hold; refinement `KeepsPromise` |
| `mailbox` | deliveries, POP3, Sent copy, recount, administrator, one failure | `ForwardsAll`, `OvershootBounded`, `CountedOrPending`, `NeverOvercounted`, `KeepsContract` hold |
| `mailbox_quota` | used_bytes goes down on deletion (db.rs 298) | **violated** by POP3 QUIT |
| `imap` | a client that keeps mails by UID and waits in IDLE | `CachedUidsHold` (while mails come in order and none is removed), `NewMailAnnounced`, `IdleEnds` hold |
| `certificates` | two tasks of any kind, interleaved, given up, restarted | `ChallengeAnswered`, `SetupCertified`, `NobodyWaitsForever`, `CatchesUp` hold |
| `administrators` | three overlapping changes by two users | `SignedOutStays`, `AdministratorStays` |
| `webmail` | three overlapping logins and registrations of one address | `NoHastyBlock`, `BlockRuns`, `RegistrationsBounded`, `CaptchasHold` |

Run one with `tlc -workers 2 -config <run>.cfg <module>`; the module of each run is in `PROJECT.json`.

**Bounds and why they are enough.** A mail interferes with another only through the limits of a scan and the permits of a
batch, so the safety runs of the engine use one mail and all three loops: the races are about two or three loops holding
the same id, which one id shows. `delivery_blocked` uses two mails and two permits, the least at which one can be in the
way of another. `MaxRetries` is 1: it has the states below, at and (if the code were wrong) above the limit. `MaxCrashes`,
`MaxDbFaults`, `MaxOperator`: faults are placed at every possible point, one of each kind, in any order (a stop between
two loops of which one was refused a statement, and a retry by the administrator in between). `MaxDisturbances` bounds the
three together: all of them in `delivery_faults`, one in `delivery_settles`, where liveness is checked over every place of
a stop and over every place of an intervention, not over pairs of them. The proofs remove all of these bounds from the
safety properties. `CopyCap` 2: only "more than once" is told apart. Remote: two hosts of up to two addresses, so that
each loop has a first, a next and a last round; `MaxUnread` 2, so that a line may wait behind another, while a reply goes
on without bound. Mailbox: three calls with two workers and a quota of one unit, so that calls pass the check together,
and one comes after; two forward addresses, so that the loop can stop between them; one POP3 session with arrivals during
it. Calls and forward addresses are symmetric there (no liveness is checked in that run). Deadlock is not checked for the
mailbox, which really ends when all calls are done and the bounds used up. SMTP: one session, as sessions share nothing
but the list of domains, which changes under it here too (the proofs cover any number); two mails, so that one transaction
can leak into the next; two recipients, one local and one not, and a limit of two, so that the loops have a first and a
last round with a failure in between and the limit is met; one change of the list of domains. IMAP: one session, as
sessions share nothing but the folder, which others change here too; three mails, so that one can arrive between two
others, or vanish below one that is kept. Certificates: two tasks of any kinds, as each hazard is about two that meet, two
hosts per domain, so that a setup has a first and a last round with a failure in between, and two domains, as the last
check of a setup looks at all. Administrators: two users, the least of which the last administrator can be lost to each
other; three requests, so that one can be overtaken and another repair or repeat. Webmail: three calls, so that two can
stand between the check and the record of a third; limits of one to three and four instants, so that windows of both
lengths fill, slide and empty, and a block begins while an older one's calls are under way; the two captchas are
symmetric, as no liveness is checked there. Deadlock is not checked in the last three, which end when the bounded tasks,
requests or calls are used up.

**Fairness.** `FairSpec` of `DeliveryQueue`: weak fairness of each loop, of each worker's own steps and of `Start` (Tokio
polls every ready task; a supervisor restarts the process, see `docker/`), of `Elapse` (time passes), and of the end of
acceptance. An attempt returns unless the mail is in `Stalled`: the connect has a timeout, the reads have none. Nothing is
assumed of the administrator, of the clean-up, or of new mail, and weak fairness of one disjunction per worker means that
no branch of it is forced. `RemoteDelivery`: weak fairness of the caller, and of the server – it answers, brings a reply
it has begun to its end, or closes. That is no property of the code; it characterises the hosts that are not in `Stalled`:
a server whose "250-" lines never end is one of those. `ImapSession`: weak fairness of the IDLE loop's round, as
`read_line` there has a timeout of 5 s; nothing is assumed of client or mail. `Certificates`: weak fairness of each
background task of create_cert and setup_cert (Tokio polls them, and a request is given up after 180 s) and of the reload,
which a timer starts; none of renew_cert and the daily renewal, the first of which ends with its connection, nor of
administrators. A task's step is one disjunction, so neither success nor failure is forced.

## 4. Findings

1. *Duplicate delivery* – `FOR UPDATE SKIP LOCKED` runs outside a transaction; between one loop's SELECT and its
   UPDATE another loop selects the same row, and the UPDATE does not look at the status.
2. *A slow mail blocks later ones* – a loop joins its whole batch before it scans again; a host that never answers
   keeps it there.
3. *used_bytes never goes down* – POP3 QUIT removes files without taking them off; the mailbox stays "full".

Each is a run that violates the claim of a comment, quoted in `PROJECT.json`.

Behaviour that the models contain and a maintainer should know of. The properties are stated around it, with the
exception named in them:

* A temporary answer 450 whose text says "mailbox unavailable" is taken for permanent (`is_permanent_smtp_error`);
  `PermanentHasReason` says what is left: some server did refuse.
* When the connection ends inside the data, the part that arrived is saved and queued like a mail that was finished
  (funmail-smtp/src/session.rs 195–202; `EndData`).
* IMAP UIDs follow from the listing and change with every removal and every mail whose date is earlier, while UIDVALIDITY
  stays (`CachedUidsHold`). APPEND always fails when maildir_base is an absolute path.
* The last administrator can be lost: by two requests that pass the count together, or by one whose role was taken away
  and is still in the token. The statement at the next start does not bring the user back, as the name is in use.
* The version of a token starts at 0 again when a name is created anew.
* A setup of a domain is judged by the progress of all domains, late reports of other tasks included; a failed one
  elsewhere keeps it from completing until a restart, and once all certificates are there a second setup returns before it
  gets to the completion.
* renew_cert notes its host as running and never takes that back: create_cert for it answers 409, and no setup completes,
  until a restart (`NobodyWaitsForever` excludes these hosts).
* A failed login at the webmail is counted by the check and by the record, so that half the limit blocks; a late success
  of a call let in before a block lifts it (`NoHastyBlock`, `BlockRuns`). Counters of addresses are never removed.
* A server that never ends a reply ("250-" lines without end) keeps a delivery for ever, as one that never answers does.
* used_bytes may exceed what is stored after POP3 has removed mails, and after a recount that met a delivery between its
  write and its addition (`NeverOvercounted`).
* A `get_captcha` whose connection ends before the clean-up leaves the store over its limit until the next one
  (`CaptchasHold`).
* The request for the authority's decision that precedes a renewal has no timeout (acme.rs 244).

## 5. Proofs

`DeliveryProofs` proves, for every set of mails, all limits and all bounds:

| Theorem | Invariant or argument |
|---|---|
| `TypeCorrect` | `TypeOK` is inductive; `retries` stays within `MaxRetries` because a deferral is written only from a copy below it |
| `DeliveringIsOwned` | `OwnedWhileDelivering` with `TypeOK` is inductive: a row enters `delivering` with the spawning of its worker, and a worker leaves `Holding` only by writing the row or losing the write |
| `OutcomesAreHonest` | strengthened with `OutcomeInHand`: a worker about to record an outcome has it |
| `LogIsWrittenOnce` | action property; needs that a log row does not exist before its INSERT |
| `BudgetIsFull` | strengthened with `CountsDeferrals`: however stale a copy of retry_count is, it never exceeds the deferrals that happened |
| `CustodyIsKept` | refinement of `MailCustody` step by step, from `HonestOutcome` and `OnlyAcceptedHeld` (loops hold no quarantined mail) |
| `NothingIsLost` | from `CustodyIsKept` alone: in the contract, and so in whatever implements it, a message let go of was handed over, refused or withdrawn |
| `LogLagsOnlyForReason` | the safety half of `LogCatchesUp`, from `WorkersAwaited` (a loop that is not awaiting has no workers) and `LogLagsForReason` itself: a log entry still 'queued' behind a row that is gone has a worker that is about to write it, or a stop or a refused statement has taken it |
| `WorkersEnd` | liveness, under `FairSpec` and the hypothesis that `EnginePossible` always holds: sending, then a result, then perhaps a decision, then the report to the log. Each stage is left by its own fair step (`Try`, then `Record` up to three times), and by nothing else but a stop, as a loop cannot take the worker away while it runs (`WorkersAwaited`) |
| `OutcomesAreWritten`, `OutcomesAreLogged` | from `WorkersEnd`, which says that the worker ends, and what it cannot end without: a worker leaves the stages before its outcome only by writing the row, losing the write or a stop (`WrittenStep`), and the stages of its report only by writing the log, a refused statement or a stop (`LoggedStep`) |
| `RecoveryFollows` | while the engine is down nobody but the recovery touches a row in `delivering` without taking it out (`DownStep`), and the start is fair |

`MailboxProofs` proves, for any set of calls, sessions and forward addresses, any quota and number of workers:

| Theorem | Invariant or argument |
|---|---|
| `TypeCorrect` | `TypeOK` is inductive; the sizes of finite sets keep the counters natural |
| `ContractIsKept` | refinement of `DeliveryAttempt` for each call at once, from `StoredOnceWritten`: a call beyond the write has its mail in `stored`, and `stored` only grows |
| `ForwardsAreAll` | strengthened with `NoneYet`: no row is queued before the loop of INSERTs; a mailbox that is gone stays gone |
| `OvercountIsBounded` | strengthened with `ExcessInv`: while a recount runs, its sum is no more than the files there are and those POP3 has removed since; when it is stored, only the files still to be added (`Waiting`) come on top of it |
| `OvershootIsBounded`, `FilesAreCounted` | one invariant, `QuotaInv`: files and calls admitted together are at most the quota plus `Workers` - 1. The check is passed only while `used_bytes` is below the quota; what is not in it yet belongs to calls that run, as do those admitted, and at most `Workers` run, one of them the call that is checking |

The size of `QuotaInv` is due to the recount: while it runs, the sum it will store is compared with what is there
(`unseen`), so that the moment of storing it loses nothing that is not in `slipped`. The lemmas `InMoves`, `StageMoves`
and `FitsNext` say once how the sets of calls at each stage change when one call moves.

`RemoteProofs` proves, for any number of hosts and addresses:

| Theorem | Invariant or argument |
|---|---|
| `TypeCorrect` | `TypeOK` is inductive |
| `AnswersAreMatched` | `WireInv`: outside dialogues nothing is on the wire; inside, the server owes at most one answer, and every line on the wire belongs to the command at hand or is the rest of a greeting (read during EHLO, where its code 220 cannot complete the answer) |
| `TakenTwiceAfterError`, `ListIsExhausted`, `PermanentIsRefused` | `CallInv`: when the caller is at no server, each that took the message was left with an error; addresses are tried in order without a gap |
| `CallGoesForward` | action property, and that the ten numbers of `Ahead` are natural: the safety half of `Returns`. A step of the caller moves it on in the lists or in the dialogue; what the server and the network can still do in between is counted after that. The one step that does not leave less is another line of a reply that is not at its end (`AnotherLine`) |
| `CallGetsOn` | liveness, under `FairSpec` and the hypothesis that `CallPossible` always holds: whatever is ahead of a call, there is less sooner or later, as no step leaves more (`ForwardStep`) and the caller, or the server that answers or ends its reply, takes one that leaves less |
| `ContractIsKept` | refinement of `DeliveryAttempt`: a line 250 read as the answer to the message was sent by a server that has it (`TakenInv`) |

`SmtpProofs` proves, for any number of sessions, mails, recipients and domains:

| Theorem | Invariant or argument |
|---|---|
| `TypeCorrect` | `TInv`: `TypeOK` with `Fit` of each session – its recipients are those the client was told 250 for and within the limit, and a loop stands at one of them; and `Begun`, a mail being written has begun |
| `QueuedIsNamed`, `OnlyNamedQueued`, `LogsFollow` | `Inv`: each mail is written by one session (`Owned`), and how far that session has come is exactly what there is of the mail (`Held`); every row is at the place of its recipient and alone there; a mail leaves its session confirmed only when `Held` says that it is complete |
| `PromiseIsKept` | refinement of `MailSubmission`, from `Inv` with `Levels`: the log is never ahead of the session that writes it, and a mail without its DATA has no recipients |
| `ConfirmedAreServed` | composition (`MailSystem`): from `QueuedIsNamed` a confirmed recipient has his row; a row was the engine's from its INSERT on (`RowsReachEngine`, the one thing said about the two together); and `MailCustody`, which the engine implements (`CustodyIsKept`), lets go of a message only when it is handed over, refused or withdrawn |
| `OutboundIsAuthenticated` | action property; from `Entitled`: a session that has neither authenticated nor seen the list of domains change has named local recipients only |

`Undisturbed` and `OthersHold` say once why a step of one session leaves the others' part of `Inv` alone; after them each
lemma looks at the session that moves.

`AdministratorProofs` proves, for any number of users, any changes and any number of overlapping requests:

| Theorem | Invariant or argument |
|---|---|
| `TypeCorrect` | `TypeOK` is inductive: the default user is never deleted, and a request past its look has its row there, as a deletion ends the others |
| `SignedOutStaysOut` | `Versions`: a token of a row that is still there is not newer than the row, and older once its user has been signed out |
| `LastAdministratorStays` | action property; from `AllSure`: as long as nobody has overtaken it, a request knows that its actor is an administrator (unless the role in the token was out of date), that a deletion is of someone else, and that an update that takes an administrator away leaves another one, by the count |

`ImapProofs` proves, for any number of sessions and mails:

| Theorem | Invariant or argument |
|---|---|
| `TypeCorrect` | `TypeOK` is part of `UidInv` |
| `CachedUidsAreHeld` | `UidInv`: as long as `calm`, every listing is a beginning of the folder (`Prefix`), so that a mail has the same UID in both (`PrefixUids`), and every cache serves for the folder (`Serves`). An answer closes no gap by leaving one, because the UIDs of a listing are 1 to n (`UidsWithoutGap`, by the pigeonhole principle) and what is known ends right before the first UID asked for (`KnownUpTo`); a later mail comes after all of it (`LaterMail`) |
| `IdleIsLeft`, `MailIsAnnounced` | liveness, under `FairSpec` and the hypothesis that `RoundsPossible` always holds: each has one helpful step, the round of IDLE, whose fairness `RoundsGoOn` says; an unknown line costs one round, after which the client has no other to send (`LineInv`) |

`CertificateProofs` proves, for any domains, hosts and number of tasks:

| Theorem | Invariant or argument |
|---|---|
| `TypeCorrect` | `TInv`: `TypeOK` with `Fits`, the places to which each kind of task comes, and the hosts it has named there |
| `ChallengeIsAnswered` | `TokenInv`: of two tasks on their way with the same host neither is alone, and a token is written and removed only by tasks on their way with its host |
| `SetupIsCertified` | action property; from `SetupInv`: past its survey, a setup accounts for each host of its domain – in the table, done by itself, left to another task, or a success in the map – and for every success that another task is about to report |
| `NotesAreOwned` | the safety half of `NobodyWaitsForever`: a host noted as running, other than by renew_cert, has a task that is still to report on it (`Owner`); a task that ends takes its notes with it (`NotesMoved`) |
| `ServersCatchUp` | liveness, under `FairSpec` and the hypothesis that `ReloadPossible` always holds: once the table stays as it is, one reload is enough, and no other step undoes it |
| `TasksGoOn` | liveness, under `FairSpec` and the hypothesis that `StepsPossible` always holds: a task is at one of six distances from its report (`Distance`); its own step, which is fair, brings it nearer or reports (`OwnStep`), those of the others leave it where it is (`OthersSame`), a restart takes all notes back |

`WebmailProofs` proves, for any limits, any number of calls and of captchas:

| Theorem | Invariant or argument |
|---|---|
| `BlocksRun` | action property; from `InBefore`: who is on the way while a block runs has been let in before it, since the check lets nobody in during one |
| `CaptchasAreHeld` | `Solved`: a captcha that a call has solved is used up, so another call cannot take it out of the store; `StoreBounded`: what is in the store beyond its limit was put there after the last clean-up, by calls that are still to clean up or were cut off before they could |
| `BlocksAreEarned` | action property; from `CountInv`: no call has two marks of the same part in a list, each mark is of a call that counts with the list and was touched no earlier, and only an ended call has two. So a list as long as the limit stands for half as many calls (`MarksStandForCalls`, an injection into calls and parts) |
| `RegistrationsAreBounded` | action property; from `RoomInv`: who is past the limit on successes and has not been overtaken still finds room, as the window only loses while nobody succeeds |
| `TypeCorrect` | `TypeOK` follows from these invariants together |

All of them rest only on the named ASSUMEs of the modules (finite sets, positive limits, natural bounds), which TLC
evaluates in the runs. The strengthenings were found with TLC first. In `DeliveryProofs`, lemmas on nested EXCEPT
(`OneEntry`) and on the effect of a worker's step (`WorkerStages`, `WorkerEffects`) keep the case analysis to the
actions a conjunct can be disturbed by; in `RemoteProofs` `Left`, `LeftByGiving` and `GoesOn` do so. Check with
`tlapm DeliveryProofs.tla`, and likewise the other modules named `…Proofs`.

*Liveness.* The theorems on liveness rest on steps that are fair and help at once: one step, or a chain of at most four in
`WorkersEnd` and of six in `TasksGoOn`. `tlapm` cannot expand `ENABLED`, so that these steps are possible when they are
due is a hypothesis there, in one state predicate for each kind of step (`RoundsPossible`, `ReloadPossible`,
`StepsPossible`, `EnginePossible`, `CallPossible`); no other assumption is hidden in it. The guards and branches of these
steps leave no gap, so it holds by the shape of the actions and says nothing of the code; it is no property of the runs.
Whoever wants to see TLC confirm it adds the predicate as an INVARIANT to the cfg of the component. `ServersCatchUp` says
besides that the table stays as it is in the end, which the bound on tasks makes true in the run.

*Only model-checked.* `Returns`, `EventuallySettled`, `LogCatchesUp` and `NobodyWaitsForever` need an induction over a
well-founded order or over a finite set inside a temporal formula, which the installed provers cannot do. Of these four
the steps of that induction are proved, and what is left is this:

* `Returns`: what is ahead of a call becomes less at every step but one more line of a reply (`CallGoesForward`), and
  again and again until it returns (`CallGetsOn`). Left: that ten natural numbers, compared from the first on, cannot
  become less for ever.
* `NobodyWaitsForever`: a note has an owner (`NotesAreOwned`), and an owner takes one host after the other off its list
  and its note away (`TasksGoOn`). Left: that a finite list comes to its end.
* `EventuallySettled`: a row in delivery has a worker (`DeliveringIsOwned`), whose outcome arrives in the row
  (`OutcomesAreWritten`), after a stop the recovery puts the row back (`RecoveryFollows`), and deferrals are counted up to
  `MaxRetries` (`BudgetIsFull`). Left: that the loops come round to a row that waits, and the induction over the
  deferrals.
* `LogCatchesUp`: a log that lags has a reason (`LogLagsOnlyForReason`), and a report arrives (`OutcomesAreLogged`). Left:
  as for `EventuallySettled`.

The type invariants of all modules are theorems and no longer part of the runs; neither are consequences of other
properties, as `LoggedAsQueued` (`LogsFollow`) is of `KeepsPromise`.

## 6. Not modelled, and the plan

Left out for good: virus and spam scanners and the cryptography of DKIM (external, no state), statistics, listings and
settings (single statements), front ends and deployment. Left out of modelled parts: STLS, passwords and the
read-only commands of POP3; the DKIM header; the 90-day clean-up of `mail_logs`, which the engine never reads.

Left out of the newer ones: IMAP folders other than the one at hand; the version of a mailbox's token and the pages for its
password and profile; the texts of the progress of certificates.

What would come next, in this order:

1. Log rows by file and recipient – several rows of one file (forwards, repeated recipients), `deliver_one`'s update.
2. `MailboxAdmin` – creation and deletion of mailboxes and domains with their directories, and the webmail's listing,
   deletion and sending against POP3 and deliveries.
3. Pure algorithms against reference definitions: the data reader of the SMTP session (dots, bytes read as characters),
   `is_permanent_smtp_error`, the months of `ensure_partitions` (funmail-smtp/src/main.rs 243–272) at the turn of a
   year, IMAP sequence sets.

Theorems that would come with these modules: that `deliver_one` updates a log row of its own mail only, and that the files of
deleted mailboxes are nobody's. Of what is there, a refinement of `Certificates` to one request at a time would say in one
theorem what its properties say apart.
