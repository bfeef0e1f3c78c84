# TLA+ models of the KSeF automation platform

The platform is a portal for Polish accounting firms: it issues invoices, sends
them to KSeF (the state's invoice system), retrieves what KSeF holds, watches
the statutory deadlines of invoices issued offline and prepares VAT reports
(JPK).  It is a Next.js application with a PostgreSQL database, a worker process
that runs scheduled jobs, and a stateless signing sidecar.  This directory holds
TLA+ modules for the parts of it that are concurrent, can fail half-way or have
to add up, TLC configurations that check them on small instances, and proofs for
TLAPS.

All paths below are relative to the repository; `lib/`, `app/` and `worker/` are
under `portal/src/`.

## 1. Inventory

| Part | State it keeps | Operations | Talks to | Module |
|---|---|---|---|---|
| Job queue (`lib/jobs/queue.ts`, `db/migrations/2026-09-20-job-harness.sql`) | `job_occurrences` | enqueue, claim, heartbeat, complete, fail, reapExpired, prune (`skip` has no caller) | runner, manual enqueueing | `JobQueue` |
| Runner, worker (`lib/jobs/runner.ts`, `worker/main.ts`) | the tick and the execution of each process | tickOnce, execute, loop, restart | queue, alerts, job bodies | `JobRunner` |
| Schedules (`lib/jobs/schedule.ts`) | none | dueBetween, latestDue, cron fields, zones | runner | `JobRunner` (due times) |
| Alerts (`lib/jobs/alerts.ts`) | `system_alerts`, `audit_log`, mail | raise | runner, jobs | `JobRunner`, `Notifications` |
| Invoice retrieval (`lib/jobs/invoice-retrieval.ts`) | `clients.hwm_sales`, `hwm_purchases`, sync status, `invoices` | window, page, commit, status | KSeF, runner | `InvoiceRetrieval` |
| Invoice creation (`app/api/invoices/create`, `lib/ksef-invoice-builder.ts`) | `invoices`, `offline_invoices` | issue, correct | users | `IssuedInvoices`, `VatReturns`, `Documents` |
| Sending (`app/api/ksef/send`) | `invoices`, `offline_invoices` | select, send, poll, store number or rejection, close | KSeF, users | `IssuedInvoices`, `KsefAccess` |
| Offline24 monitor (`lib/jobs/offline24-monitor.ts`, `lib/offline-markers.ts`) | `offline_invoices` flags, `invoices.jpk_marker` | select, match, mark, urgency ladder | retrieval, sending, alerts | `IssuedInvoices` |
| JPK files (`app/api/jpk/generate`, `lib/jpk-generator.ts`, `app/api/invoices/[id]/jpk-markers`, `lib/jobs/jpk-preparation.ts`) | `jpk_preparations`, markers and margins of `invoices`, `processing_status` | select, refuse, sum up, store, mark exported, edit markers | users, runner | `VatReturns`, `Documents`, `IssuedInvoices` |
| Ledger exports (`app/api/export*`, `lib/*-mapper.ts`) | none | one entry per invoice | users | `VatReturns`, `Documents` |
| JPK test gateway (`app/api/jpk/test-gateway`, `lib/jpk-gateway.ts`) | `jpk_submissions` | sign, init, put parts, finish, poll, record | the Ministry's gateway, sidecar | `JpkSubmission` |
| KSeF client (`lib/ksef-client.ts`), sidecar (`xades-sidecar/`) | the certificate cache of a process | certificates, login, sessions, query, send, UPO | KSeF | `KsefAccess`, `InvoiceRetrieval`, `IssuedInvoices` |
| KSeF credentials (`app/api/settings/ksef`, `lib/credential-crypto.ts`, `scripts/migrate-ksef-credentials.mjs`) | `clients.auth_method`, `ksef_token_encrypted` | save token or certificate, seal old rows, read | users, operator | `KsefAccess` |
| Document intake (`app/api/ocr*`, `app/api/upload`, `app/api/email/sync`) | `ocr_queue`, `invoices`, the flag `\Seen` of e-mails | scan, upload, synchronise, claim, approve, reject | users, client cap, pool, mail server | `DocumentIntake` |
| Client cap (`lib/client-cap.ts`), connection pool (`lib/db.ts`) | `clients`, `firms.max_clients`, the row lock of the firm, the connections of the process | create a client within the plan | intake, client form, billing | `ClientCap` |
| Client data (`app/api/clients/*`) | `clients` | switch the synchronisation, synchronise by hand, complete, erase | users | `InvoiceRetrieval`, `JobRunner`, `VatReturns` |
| Plans, licences (`lib/plans.ts`, `lib/entitlements.ts`, `lib/licence.ts`) | subscription columns of `firms`, `firm_licences` | install, read, repair, ask | billing, routes, worker | `Subscription`, `ClientCap` |
| Billing webhook (`app/api/billing/webhook`) | subscription columns of `firms` | Stripe events | Stripe | `Subscription` |
| Accounts (`lib/auth.ts`, `app/api/auth/*`, `app/api/team/*`, `app/api/settings`) | users, session versions, tokens, an access cache per module copy | sign in, authorise, change, reset, verify, invite, remove | users | `Accounts` |
| Migration runner (`portal/scripts/lib/migrations.mjs`) | `schema_migrations` | install, adopt, upgrade, refuse | deployment | `Installation` |
| First run (`lib/first-run.ts`) | first firm, setup token | issue, register | operator | `Installation` |
| Backups, cutover gate (`scripts/backup-*.sh`, `scripts/preflight-cutover.mjs`) | backup directories | dump, archive, verify, ship, rotate | operator | `Installation` |
| Client notifications (`lib/notifications/*`), digest, health check, mail transport (`lib/mail-transport.ts`) | flags on `offline_invoices`, `jpk_preparations`, `audit_log`, the probe of a process | mail, then flag | mail server | `Notifications` |
| Rate limits, operator console, user interface, n8n exports | counters, none | | | not modelled (section 7) |

What is hard here, and hard to test: several workers and portal processes share
nothing but single SQL statements, there are almost no transactions, and every
multi-statement operation can be cut in two by a crash, a timeout or a request
of another process.  KSeF answers late, shows invoices out of the order of their
dates and answers repeated submissions with errors; Stripe repeats events and
sends them in any order; caches live in a process, or in a copy of a module.
`PROJECT.json` lists the hazards, each at its line.

What makes each part correct:

* queue and runner: an occurrence is enqueued once, two occurrences of a job
  never run together, attempts are bounded, only the holder of a lease settles
  it, an outcome is final, everything due settles, failures are alerted;
* retrieval: no invoice is skipped for good, marks do not move back, one failing
  direction does not hold up the other;
* sending, monitor: the statutory clock stops only for invoices KSeF has and
  does stop for all of them; the marker OFF tells the truth; one row per KSeF number;
  what is overdue is announced once per tier; no invoice is exported that KSeF lacks;
* VAT: corrections of corrections add up; a file says of each invoice what was booked,
  and adds up for a reader who has only its rows; a verdict shown is the gateway's;
* access to KSeF: a login presents what was last saved for its client; a key is used
  for what it is for; sessions are ended unless a call was lost;
* intake: a document is booked once, a claim is given back, no attachment of an
  e-mail that is flagged as seen is missing; cap: no client beyond the plan in
  force; pool: nobody waits for ever;
* billing: what a firm may use was sold to it as a whole; accounts: an old password
  opens nothing, stale access ends with the cache entry, a link works once;
* installation: migrations are applied once and in order, no portal serves half a
  schema, there is one first firm, an accepted backup can be restored;
* notifications: nothing is recorded as sent that was not, repeats have a reason, and
  what is overdue is announced to the client.

## 2. Modules

| Module | Models | Kind |
|---|---|---|
| `JobQueue` | the statements of `queue.ts` as operators on `rows` and `clock` | component |
| `JobRunner` | workers interleaving these statements, with job bodies, timers, crashes and restarts | composition, state machine |
| `OccurrenceLifecycle` | what the queue promises of an occurrence, without clock, workers or retention | abstract specification |
| `JobRunnerProofs` | invariants of `JobRunner`, what its steps may never do, and that it implements `OccurrenceLifecycle` | proofs |
| `InvoiceRetrieval` | overlapping runs of the retrieval job for one client, and KSeF | state machine |
| `InvoiceRetrievalProofs` | that nothing is skipped, that a walked window is complete, that the mark only grows | proofs |
| `IssuedInvoices` | creation, sending, retrieval, monitor and JPK export of issued invoices | composition, state machine |
| `ClientCap` | `createClientWithinPlan()` statement by statement, with the firm's row lock and the connection pool | component |
| `DocumentIntake` | concurrent requests that scan, upload, synchronise, approve, reject or add a client, calling `ClientCap` | composition, state machine |
| `DocumentIntakeProofs` | invariants of both, and that the plan is kept | proofs |
| `Installation` | migrations, the first firm, backups | state machine |
| `InstallationProofs` | its four invariants | proofs |
| `Subscription` | what Stripe or a licence grants a firm | component |
| `Accounts` | sign-in, sessions and their cache, passwords, links, team; over `Subscription` | composition, state machine |
| `AccountsProofs` | its invariants, and the bound on stale access | proofs |
| `Notifications` | bodies that mail and note that they did, in worker and portal | state machine |
| `NotificationsProofs` | its two safety invariants | proofs |
| `Documents` | the arithmetic of invoices, JPK files and ledger entries | operators |
| `VatReturns` | the invoices of a period, their markers, the files made of them; over `Documents` | state machine |
| `InvoicesProofs` | invariants of `IssuedInvoices` and that its markers are final; sums over finite sets, the arithmetic of `Documents` and the invariants of `VatReturns` | proofs |
| `JpkSubmission` | one upload of a JPK file to the test gateway | component |
| `KsefAccess` | credentials, certificates, logins and sessions; over `Subscription` and `JpkSubmission` | composition, state machine |
| `KsefAccessProofs` | invariants of it and of the two components it composes | proofs |
| `MC...` | values of the constants for TLC | instances |

### JobQueue and JobRunner

`rows` is the table `job_occurrences`; a row is found by its occurrence, the pair
of job name and key that is unique in the table.  A worker's `pc` follows
`tickOnce()` (reap, alert what was reaped, enqueue what is due, claim up to
`MaxPerTick`) and `execute()` (run the body, report failed items, complete or
fail, alert the last failure).  A statement is one action; the claim is two
(`SelectCandidate` with its `FOR UPDATE SKIP LOCKED` lock, then `Claim`), because
the partial unique index decides between workers that selected different rows of
one job.  `Beat` is the interval timer, `Timeout` the timer of `execute()`, and
`AbandonedBodyEnds` a body that `Promise.race` has left behind.  `RunJob`,
`RunJobByMachine` and `SyncClient` are the requests that enqueue an occurrence by
hand: of the dashboard, of a machine with the secret, and for one client.  A crash
loses the variables of a worker and keeps the table; the process that follows is
another member of `Workers`, since `main.ts` draws a new worker id.  `tries` and
`outcome` are history variables: they remember over pruning what happened to an
occurrence.  `Raise` is `alerts.raise`, which never throws: the alert is recorded
(`raised`), or one of its two INSERTs fails, which is a fault, and the alert is written to
the log (`unrecorded`), the row being there or not; either way the caller goes on.

Abstracted: the contents of results and errors; ties in `run_after` (any order);
the licence gate of `main.ts` (it skips ticks); the mail of an alert (`Notifications`);
the number of warnings of a run, one for each failed item and one in sum, which are one
`Warning` here: that a part of them is not recorded is the same as that none is.
A graceful stop is a crash at rest.  The hourly gate of pruning is a free choice.

### InvoiceRetrieval

`job[r]` holds the variables of `syncDirection()` and `readWindow()`.  A run reads
pages of a range (`ReadPage`), narrows the range from the date of the last record
when KSeF truncates it, and commits rows and mark in one statement
(`CommitStatement`), the mark only if it is still the one the run started from.
KSeF is external: `Accept` gives an invoice a date not before the watermark,
`AdvanceWatermark` moves the point up to which everything is visible, and
`Result` is what a query shows: what is dated up to the watermark, because the
client sets `restrictToPermanentStorageHwmDate`.  Firm access, credentials and
configuration errors are `AuthenticateFails`; the two directions run in sequence
with marks of their own.  `SwitchSync` is the client's switch, which a scheduled
run obeys when it selects its clients and a manual run does not.  `since` is a
history variable.

### IssuedInvoices

`row` is the invoice as `create` inserted it, `copy` the row that retrieval
inserts when it meets the KSeF number first, `offline` the row in
`offline_invoices`.  A request of `ksef/send` is a process with one invoice (the
route treats the invoices of a request one after the other); the SELECT, the call
to KSeF, the UPDATE to sent, the poll's UPDATE and the closing of the offline row
are separate actions, and `RequestCrashes` cuts them anywhere.  `submission` and
`accepted` are KSeF's side.  A run of the monitor keeps the flags it selected at
its beginning in `seen` and treats the rows one by one.  `UploadElsewhere` stands
for a firm that uploads an offline invoice with another program.

Abstracted: the content of invoices and of the report (`VatReturns`); the urgency
thresholds are the constants `Near` and `Far`; the exclusion of firms without
access; the shadow mode of the monitor.

### ClientCap and DocumentIntake

One firm is modelled, and one process of the portal with its pool.  `call[c]` is the
transaction of a caller: it takes a connection (`Connect`), waits for the row lock
(`LockFirm`, `SELECT ... FOR UPDATE`), looks for the client, counts, inserts.
`COMMIT` and `ROLLBACK` end the lock, the `finally` gives the connection back.
`ChangePlan` is the update of `max_clients` by the billing webhook or a licence, which
waits for the same row.

`req[r]` is a request of a user; it is served once, so a repeated click is another
request.  `Approve` is the `UPDATE ... RETURNING` that claims an entry of the queue;
what follows it (the client, the invoice, the mark `completed`) are statements of
their own, each of which may fail into the `catch` that gives the claim back
(`ReleaseClaim`), and that one may fail as well.  A scan and a sync take a connection
(`TakeConnection`) and keep it while `createClientWithinPlan` takes another: hence two
terms in `ConnectionsReturned`.  A sync handles its e-mails one after the other
(`NextMessage`, `TakeAttachment`, `MessageDone`) and remembers in `failed` whether one
of the attachments was not stored.  `Crash` ends the process with every request it
serves, its locks and its pool; what was written before stays.  An entry is named
by the request that inserted it and its document, since ids are never reused.
`spilled` is a history variable: the invoices whose entry was never marked, because
that statement failed or the process died before it.

`needsManualReview()` returns true for every document, so the statements of
`app/api/ocr` and `app/api/email/sync` that book a document without review are dead
code and not modelled.  Abstracted: the extraction (a document has a number,
`NipOf`), files, rate limits and the expiry of upload links, amounts (valid or not),
the connection a plan change keeps while it waits, and answers that are lost although
PostgreSQL has committed.

### Installation

A process executes one operation at a time, and an action is one statement or one
transaction.  `migrate()` waits for the advisory lock, installs, adopts or upgrades,
walks its image's manifest and releases the lock however it ends; `recorded` is
`schema_migrations` with checksums, `executed` counts (as history) how often the SQL
of a migration took effect.  A transactional migration is one action with its row,
whose answer may be lost; a non-transactional one is two.  A process `migrated`
stands for the portal that compose starts after it.  `issueSetupToken()` is three
statements without a transaction, `registerFirstFirm()` a transaction under a lock
of its own, whose effects appear at its COMMIT.  Both backup scripts run beside
uploads, which write the file before the row; `GateAccepts` is what the cutover gate
asks of a run and `Restorable` what the restore check needs.

Abstracted: the schema is `none`, as the baseline says, or different; sizes, remotes
and the encryption of a backup; the other checks of the gate.

### Subscription and Accounts

`grant` is what the webhook or a licence check has written into `firms`.  An event of
Stripe carries the state its subscription had when it was sent, stays in `events`
when it is repeated, and is handled in any order.  A check of a licence reads
(`ReadLicence`) and repairs the columns in a later statement (`RepairColumns`), with
installations and days in between.  `sold` is the history of what was sold.

`Accounts` is one firm: its owner, members, an access cache for each copy of
`lib/auth.ts`.  A cookie is a member of `sessions` and never leaves it.  A request is
a process whose `at` names its next statement: sign-in reads hash and version
together and issues the cookie later (bcrypt lies between), a change stores the
password, then revokes, then signs its browser in again; a reset and a verification
read a token and write by id.  The cache is filled after the SELECT, so a fill under
way may store what it read before an invalidation.  Passwords are numbers in the
order in which they are stored.  Links and hashes are records, so that what a link
opens depends on what was stored of it.

### Notifications

A slot executes a body: a job of the worker or a request to the portal.  `Steps`
lists, for each kind, the statements and mails of one item, and whether
`abortIfNeeded()` stands before each.  `NextItem` selects an entry that was read when
the body began, `Deliver`, `MailFails`, `AnswerLost` (the mail went out, and `sendMail` throws
all the same), `Perform` and `StatementFails` are the step in flight.  `probe` is the promise `smtpProbe` of a process, which is kept for its life also when
it was rejected, or the fact that the transport needs none (`none`) or is not usable
at all (`off`).  `sent`, `excused` and `repeated` are history variables.

### Documents and VatReturns

`Documents` has no state: lines and totals of an FA(3) document, the difference by
rate of a correction, contributions, margins, WEW rows, control sums and declaration
of a JPK_V7M file and what each ledger format takes of an invoice.  Amounts are whole
grosze and exact; the rounding of the code is modelled, the binary fractions below
it are not.  `VatReturns` lets the operator issue, correct and patch (an edit reads
once and writes markers and margin in two statements), KSeF number or reject, copies
arrive and be classified, the route and the monthly job generate (one query), store
(which may fail) and mark exported, the client's data disappear and come back, and
the ledger be exported.

### KsefAccess and JpkSubmission

A credential is a record in a form: legacy, or sealed and bound to its client.  The
script holds the rows it has locked from its SELECT to its COMMIT.  A login follows
`lib/ksef-client.ts` call by call, in the four callers (send, synchronise, UPO,
diagnostic): certificate from the cache or from KSeF, authentication, polling,
redemption, the online session of a send, and the ends of both sessions.  What the
sidecar encrypts is a record of content and certificate, which KSeF can read if the
certificate is of the right use.  `lost` marks a session whose caller could not know
of it, whose end call failed, or which a restart or an unhandled failure left behind.

`JpkSubmission` is the upload route: the row with its status, the gateway's sessions
with the parts that were stored, and for every call that it is not carried out, or
carried out and its answer lost.  `KsefAccess` composes it with logins and with
`Subscription`, which decides whether the firm may do any of it.

## 3. Runs

| Configuration | Checks | Instance |
|---|---|---|
| `MCJobRunner_safety` | `AtMostOneRunningPerJob`, `AlertedExactlyOnce`, `PartialFailureIsReported`, `OnlyHolderSettles`, `Implements` | 2 workers, 2 occurrences of a job (a scheduled one with 2 attempts, one a user enqueues with 1), clock to 3, 1 fault |
| `MCJobRunner_liveness` | `EveryOccurrenceSettles` | 2 workers, 2 occurrences of a job (with 2 attempts and with 1), 1 fault: retries and a crashed run that blocks the other |
| `MCInvoiceRetrieval_safety` | `NothingSkipped`, `WindowIsComplete`, `MarkNeverMovesBack` | 2 overlapping runs, a scheduled and a manual one; 3 invoices, paging and truncation, 1 fault |
| `MCInvoiceRetrieval_arrival` | `EveryInvoiceArrives` | two directions, one failing for ever |
| `MCIssuedInvoices_lifecycle` | `UploadedIsAccepted`, `OffIsTruthful`, `ExportedIsAccepted`, `AlertedOncePerTier`, `OverdueIsAnnounced`, `AcceptedIsClosed` | one invoice, a send request, two overlapping monitor runs around the deadline, 1 fault |
| `MCDocumentIntake_safety` | `BooksBalance`, `OnlyFaultsStrand`, `ForeignKeysHold`, `SeenIsStored`, `GrowsWithinCap`, `ClaimEnds` | any 2 requests, 2 documents of different clients, both attached to an e-mail and one of them waiting for approval, plans for 1 and 2 clients, 3 connections, 1 fault |
| `MCDocumentIntake_pool` | `CreationEnds`, which is violated | 2 requests, 2 connections |
| `MCInstallation_safety` | `MigrationsApplyOnceInOrder`, `ServesOnlyMigrated`, `OneFirstFirm`, `BackupIsRestorable` | 3 processes, 2 images (the newer with a non-transactional migration more and an edited one), any 4 operations, 1 fault |
| `MCVatReturns_safety` | `CorrectionsAddUp`, `RowsMatchBooks`, `FileAddsUp` | up to 3 invoices, corrections and copies, any 4 requests; amounts that round |
| `MCAccounts_safety` | `SessionsFollowPassword`, `VerifyLinkWorksOnce`, `StaleAccessIsBounded` | any 3 requests, 2 at a time, an owner and 2 member ids, 2 copies of the cache, clock to 2, 1 change at Stripe |
| `MCKsefAccess_safety` | `LastSavedIsStored`, `KeysFitTheirUse`, `SessionsAreEnded`, `VerdictIsTheGateways`, `GrantWasSold` | any 3 requests: credentials, certificates replaced, at most 2 logins, JPK files in 2 parts, Stripe with 2 subscriptions or 2 licences |
| `MCNotifications_safety` | `RecordedIsSent`, `RepeatsAreExcused`, `EveryOverdueIsWarned` | a body of the worker and one of the portal, one offline invoice that falls due, 1 fault, each transport |

`Implements` is the refinement of `OccurrenceLifecycle` under the mapping `Status`
(a pruned occurrence keeps the outcome it had).  Every module has a type invariant;
those of `JobRunner` and `DocumentIntake` are proved, and the type invariants and the
inductive invariants (`IInv`) can be added to the configurations as INVARIANTs.

`MCDocumentIntake_pool` shows where the code does something else than its comments
say: as many scans as the pool has connections hold one each and wait for another,
although `lib/client-cap.ts:27-29` promises that unrelated firms stay concurrent.

### More observations

The models show other places where the code and its comments, tests or
documentation differ, or that a reader of a property should know; they have no run of their own.

Jobs and retrieval:
* a worker that dies between recording the last failure of an occurrence and raising
  its alert loses the alert, because recovery looks at running rows only
  (`lib/jobs/runner.ts:167`; `AlertedExactlyOnce` asks for one alert at most, and for
  exactly one as long as nothing failed but the recording of alerts);
* an alert that cannot be stored is only in the log of the worker: `raise` answers
  `recorded: false` (`alerts.ts:49-52`) and the runner, which does not look at the answer,
  records the result (`runner.ts:150-159`).  So a success with failed items may have no row
  in `system_alerts`, although the comment at `runner.ts:149` says that they are reported;
  what holds is the promise of `alerts.ts:8-10`, that no failure goes unlogged.
  `PartialFailureIsReported` therefore says: recorded, or logged, and the alerts that are only logged are no more than the faults
  there were; `AlertedExactlyOnce` counts a logged alert like a recorded one;
* a shadow run that crashed is never recovered once the job is moved to enabled, and
  blocks the job (`queue.ts:67`);
* a client's first run that fails before its commit is repeated from a later start
  (`invoice-retrieval.ts:227`).

Invoices:
* two requests may submit one invoice (`ksef/send/route.ts:231`); the one that is
  answered 440 (duplicate) marks it rejected, whatever the other has stored;
* an offline invoice uploaded in time and found late is marked BFK
  (`offline-markers.ts:48`); the send route closes an offline row without giving the
  invoice a marker (its number is stored);
* the creation of an offline invoice that stops between its two statements leaves an
  invoice without an offline row, which no monitor watches (`create/route.ts:228`).

Documents and clients:
* the statement that releases a claim after invalid amounts is outside the `try`: when
  it fails, the entry stays in `processing` (`ocr-queue/[id]/route.ts:63`);
* an approval whose last statement fails has inserted the invoice and gives the entry
  back to review, where a second approval books it again (`BooksBalance` counts these
  as `spilled`);
* a plan that shrinks leaves the clients there are: `GrowsWithinCap` is a property of
  steps, the invariant `Cardinality(clients) <= maxClients` does not hold;
* the erasure of a client's personal data clears `contact_email`, which
  `jpk-generator.ts:270` requires: its files are refused until an e-mail is entered again.

VAT:
* an issued invoice that KSeF rejected, or that was never sent, has neither number nor
  marker, and no route of the portal deletes it or gives it a marker: every file of its
  period is refused from then on (`jpk-generator.ts:241`);
* the upserts of the job and of the route replace each other: the job's file has purpose
  1 also when it replaces a correction made by the operator, and the route leaves the
  job's counts; a failure to save the history still marks the invoices exported;
* two corrections of one original both report the difference to that original; an
  ordinary correction of a margin original subtracts line values that were never
  reported; a margin invoice whose procedure is removed later prints its lines although
  it was booked with net 0; an FP invoice of method `sum` still feeds a WEW row;
* `jpk-markers` takes a margin that is cleared as 0, and two requests at once can leave
  a taxable margin above the gross amount, which the generator then refuses; creation
  accepts MR_T and MR_UZ without a margin, which it refuses as well;
* the Optima export reads `line.net` or `line.netAmount`, which stored lines do not have:
  invoices issued on the platform are exported with 0.00 (`optima-mapper.ts:69`), their
  corrections with the full state; a line at `0-wdt` or `0-export` fails the whole file;
  the Symfonia file writes the buyer's number for purchases too;
* `vat-mapper.ts:21-23` says the generator reads `vat_register_field`, which it computes
  again from the category (with the same result);
* at the test gateway a process that dies leaves `submitting`, a poll that gives up is
  stored as processing with a completion time, and a failing UPDATE turns an accepted
  submission into `error`: none of these is a verdict, which is what
  `VerdictIsTheGateways` asks.

KSeF:
* the UPO route does not end the session it opens, and a failing UPDATE while verdicts
  are stored leaves the send route without closing its sessions (`ksef/send/route.ts:47,
  70, 85`), where `ksef-client.ts:338-342` asks for both; a login whose poll times out
  leaves its session.  `SessionsAreEnded` says so in its exceptions;
* `sendInvoice` always declares `offlineMode: false`;
* a legacy token that looks like base64 is decoded by `decryptSecret`, while the sealing
  script takes the one format it is told;
* a licence check may write the columns of an older licence over those of one installed
  meanwhile, until the next check (within a minute); a clock before a licence's date of
  issue makes every check throw;
* saving the mailbox settings without a password reads the old ciphertext and may write
  it over one saved meanwhile.

Accounts and billing:
* `recover-admin.mjs:30-34` stores the token itself while `reset-password` looks for its
  hash: the printed link never works (`Raw` and `Hash` in `Accounts`);
* `settings/route.ts:108` stores the pending address before the old link is replaced at
  line 110: the old link can then confirm the new address, which nobody proved;
* a reset link can be confirmed by two requests at once; of two overlapping password
  changes one may keep the other's session; a second acceptance of an invitation may
  replace the password or bring back a removed member; a deactivation waits for the
  entries of other module copies and for fills under way (`StaleAccessIsBounded`);
* a `deleted` event delivered before its `checkout` leaves a dead subscription active,
  and a late older `checkout` replaces a newer one: `GrantWasSold` asks for a state that
  was sold, not for the latest.  `Subscription` leaves out that a trial ends
  (`entitlements.ts:52`), so a firm on trial may use more there than in the code.

Installation and mail:
* an entry inserted into the manifest before an applied one is executed and committed,
  the run then throws, and the next one passes (`migrations-runner.test.ts:259` tests the
  throw); the preflight's audit can never pass once a migration drops something of the
  baseline, and its pattern for `SHA256SUMS` refuses the lines `backup-local.sh` writes;
* a failed first probe of the mail server is kept for the life of the process
  (`mail-transport.ts:140-157`), which the retry `offline24.ts:66-67` counts on does not
  overcome (`EveryOverdueIsWarned` excepts it); the tier `1h` lasts an hour while the job runs every two hours;
* an alert whose audit entry fails is reported as not recorded although its row exists,
  without a time of delivery or an error (`alerts.ts`).

### Bounds

Clocks, faults, workers, runs and requests are bounded by constants that occur in
guards (`MaxClock`, `MaxFaults`, `MaxPerTick`, `MaxOps`, `MaxRequests`, `Limit`, ...).
Two workers and two occurrences of
one job are enough for every race of the queue, which are races for one row or one
job; with one fault a crash meets every step, and with a lease, a timeout and a
backoff of one unit all of them expire within the clock's bound.  Retention is
at least the lookback, as `runner.ts` and `main.ts` ask for it.  In the retrieval
runs a page holds fewer records than a window and KSeF's limit is smaller than the
set of invoices, so that paging and truncation both happen; the clock goes to 3 and a
window covers one unit, so that a run reads several windows.  In `IssuedInvoices`
invoices do not interact, apart from the order in which a monitor takes them, so one
is enough, with one request for the races between the poll, retrieval and monitor
and two monitor runs for those
between runs.  Its deadline is two units after the start and the clock goes one
beyond it, so that an invoice is first in time, then urgent, overdue and late; the
tier `urgent_1h`, which is handled like `urgent_4h`, does not occur.
In the liveness run of the queue `JobTimeout` is 0, so a body ends or is timed out
within the unit of time of its claim, which leaves fewer states and all of the orders
that matter for settling; its clock goes to 16, well beyond the last retry.
In `DocumentIntake` two requests meet in every pair of kinds, one claiming what the
other may claim, both at the last free place of the plan; a document in the backlog
and two attachments of one e-mail make the books and the sync interesting.  Three
connections for two requests stand for a portal with fewer requests than connections,
where the theorem `FewRequestsNeverExhaust` applies; the run `pool` has two for two.

`Installation` needs three processes for two runs of `migrate()` beside a portal or a
backup, and a manifest whose later entry is the non-transactional one; the day and the
retention are one unit, so that a rotation removes the older of two backups.  `Accounts`
needs two requests at a time for every race of two statements, and three in all for a
sign-in, a change and a request that uses the cookie; a cache entry lives for one
tick of a clock that reaches one, so an entry made at 0 expires.  `VatReturns` needs three
invoices for a correction of a correction, with lines at 23 and 8 percent whose taxes
round by line to something else than by sum, and a line without tax; its three patches mark an
invoice and clear its margin, enter a margin, and turn a margin into a loss, so that two of them
make a margin invoice of an ordinary one and an ordinary one of that again.  In `KsefAccess`
three requests put a login beside another and a replaced certificate, or an upload
beside a file prepared anew, or two changes of a subscription and its events in any
order; two parts and two polls let an upload be cut between parts and a poll give up.
In `Notifications` the invoice passes from the tier `4h` to `overdue` within one tick (`1h`,
which is handled like `4h`, does not occur; the proofs are of all three); the portal sends
the receivables digest, which the worker may send as well.

Deadlock is not checked: users and KSeF may stop acting, a bounded number of requests
is over at some time, and clocks stop at their bound.

### Fairness

`JobRunner!FairSpec`: the loop of a worker goes on (weak fairness of each worker's
own steps: `setInterval` and `await` continue as long as the process lives) and time
passes.  Bodies, heartbeats, pruning and users owe nothing: a body that never ends
is what the timeout is for.  `TimedTick` says that the statements following a claim
or a body take less than a unit of time, and stops time when no timer is pending,
so that the bound of the clock is not reached idly.
`InvoiceRetrieval!FairSpec`: each run goes on (the runner's liveness), and KSeF's
watermark advances; `EveryInvoiceArrives` has the premise that the client's
synchronisation is switched on from some time on.  `IssuedInvoices!FairSpec`: monitor and retrieval run again and
again, time passes; users, requests and KSeF owe nothing.
`DocumentIntake!FairSpec`: a request that is being served goes on whenever it again and
again can (strong fairness), because PostgreSQL hands a row lock, and the pool its
connections, to those that wait in the order of their arrival; new requests, plan
changes, faults and crashes owe nothing.
`Notifications!FairSpec`: a body of the worker that has begun goes on, and the worker begins the
warnings again and again in enabled mode, which is what `EveryOccurrenceSettles` gives; strong fairness, because
in the model other bodies may have its slot in between.  Requests to the portal, time,
faults and uploads owe nothing.

## 4. Proofs

Every theorem holds for all values of the constants that satisfy the named assumptions:
`QueueAssumption`, `BackoffAssumption` (a power of two is a natural number) and
`RunnerAssumption`; `IssuedAssumption` (finitely many runs of the monitor); `CapAssumption`
and `IntakeAssumption` (finitely many requests and clients, a pool that is not empty,
attachments that belong to one e-mail each); `RetrievalAssumption` (finitely many invoices,
a page holds at least one, a mark from before the first run is in its past);
`ImagesAreWellFormed` (an image brings the migrations of its manifest, in the order of their
names, and a later manifest only adds to the end); `AccountsAssumption` (a cache entry lives
at least one unit of time; what `hash()` returns of a link is not `None`);
`RatesAssumption` (23 percent, the rate of an invoice without lines, is among the rates,
and NULL is neither a number nor a rate); `ReturnsAssumption` (lines, margins and bodies
are of the shapes the routes validate; their numbers are any integers);
`SubscriptionAssumption`, `SubmissionAssumption`, `AccessAssumption` and
`NotificationsAssumption`, on the shapes of their constants. They are stated in the modules that declare the constants, and evaluated by
the runs.

`JobRunnerProofs`: `IInv` (`Invariance`, `TypeCorrect`, `OneRunningPerJob`,
`AttemptsAreBounded`, `WorkerIdFencesAttempts`) adds to the invariants `RowOK` (a row that
waits has attempts left), `HistoryOK` (the history agrees with the row, and an occurrence
whose row was pruned is too old to be enqueued again, which is where the retention must
not be shorter than the lookback) and `ExecOK` (a claim in progress holds the lock of a
waiting row that no other claim holds).  The proof goes over `RowStep`, what a statement
may do to one row, so that each action is treated once.  The refinement
(`QueueImplementsLifecycle`, `OnlyTheHolderSettles`, `OutcomesAreFinal`) rests on
`StepShape`, that a step changes at most the occurrences it names, and `OccurrenceStep`,
that what it does to one of them is a step of `OccurrenceLifecycle` or none.  Three
invariants need facts of their own beside `IInv`: `ShadowRunsApart` `ModeOK`;
`PartialFailuresAreReported` `ReportOK`, that a worker about to record a success with
failures has raised the warning, recorded or logged, so it does not matter which of several
attempts records it, and `Logged`, that each alert which was only logged has its fault; `FailuresAreAlertedOnce` `AlertOK`, that the alerts owed and raised for an occurrence
are one at most, none unless it failed, and one for every failure as long as nothing
failed but the recording of alerts.  A step is silent for an occurrence, incurs its alert or discharges it
(`AlertStep`); nothing incurs one twice because outcomes are final.

`InvoiceRetrievalProofs` (`NothingIsSkipped`, `WindowsAreComplete`, `MarksNeverMoveBack`).
`MarkOK` says that what KSeF holds of a direction up to the mark is stored and that the mark
is not beyond the watermark, behind which KSeF adds nothing; `ReadingOK` that a run has
everything before its cursor and the pages it has turned, although invoices are added and
ranges narrowed while it reads; `CommitOK` that a window handed over is whole.  A page is
the invoices of a range with ranks in an interval, and the lemmas about ranks and least
numbers say that turning pages misses none, whatever the page size.

`InvoicesProofs`, first part (`Invariance`, `UploadsAreAccepted`, `NumbersAreUnique`,
`OffMarkersAreTrue`, `ExportsAreAccepted`, `MarkersAreFinal`, `TiersAlertOnce`).  The
strengthening is `BackedByKSeF`, that what a process carries from one statement to the next
has an acceptance of KSeF behind it, and `MarkersOK`, which ties a marker to a closed
offline row.  `TiersAlertOnce` counts: until the flag of a tier is set, each of its alerts
is answered for by a run about to set it or by a fault; afterwards by a run that has
alerted and cannot again, since those that still may are among the rest (`TierOK`).

`InvoicesProofs`, second part (`CorrectedInvoicesAddUp`, `RowsSayWhatWasBooked`,
`FilesAddUp`, `ReturnsInvariant`, `BookingsNeverChange`).  It begins with sums over finite sets: the
recursive fold has a solution, a sum does not depend on the order (`FoldAny`), and whence
sums of parts, of groups, of differences and of renamed summands.  Where a proof needs
induction it takes a smallest counterexample instead (`WFMin`, over the subsets of a finite
set or the natural numbers).  The lemmas on `Documents` build on them: a document's totals
by rate, and its gross, add up to those by line (`RatesAddUp`, `GrossIs`); a file
agrees with its own rows whatever the typed books hold (`GeneratedAddsUp`), and with the books if
what is booked is the difference of the lines to those corrected (`GeneratedMatches`).
`ReturnsInv` is that condition on the books (`BookedRight`), with what it made of the files and
ledger entries there are.  It is kept because `BookingsKept`: a step writes markers,
margins, categories and status, or adds a row, and never touches what was booked.
For `CorrectedInvoicesAddUp` the chain of corrections is shown to be well defined, as the least
set closed under "corrects" (`HistoryIs`), and finite, since an invoice corrects an earlier one
(`HistoryBelow`); along it the differences cancel (`HistorySum`).

`DocumentIntakeProofs` (`Invariance`, `TypesHold`, `BooksAlwaysBalance`, `ClaimsExclude`,
`RowsNameClients`, `NothingSeenIsLost`, `CapIsKept`, `NoConnectionLeaks`,
`FewRequestsNeverExhaust`, `OnlyFaultsLeaveClaims`).  `ClaimExcludes` and `LockIsHeld` with
`ReadUnderLock` say that what was counted or claimed stays so until the statement that
relies on it; `SyncKnows` and `InsertsAreNew` do so for the sync; `Uses` counts the
connections of a request, whence `FewRequestsNeverExhaust`, whose condition the run `pool`
shows to be needed.  `OnlyFaultsLeaveClaims` goes over `Keeps`: of the steps of a request
only the two UPDATEs that fail to give a claim back lose its entry, and a crash loses as
many entries as approvals were being served.

`InstallationProofs` (`MigrationsApplyOnce`, `PortalsServeMigrated`, `OnlyOneFirstFirm`,
`BackupsAreRestorable`).  `IInv` has three parts.  `SchemaInv`: what is recorded took effect
and, in a transaction, once; effects follow the order of every manifest; and a run has
applied what precedes the version it is at (`RunOK`), which other images cannot undo
because manifests only grow.  `FirstRunInv`: who is inside the critical section has the
transaction's lock, so the count and the token it read are still so.  `BackupInv`: the
files of a directory contain what the rows of its dump name, because the dump is taken
first and the portal stores a document before its row.

`AccountsProofs` (`SessionsFollow`, `LinksWorkOnce`, `StaleAccessEnds`).  `LinkInv`: a stored
token is of a link that was not used.  `SessionInv` speaks of the cookies that were issued
and those of sign-ins under way: none is ahead of its account (`CookieOK`), and the cookie
a change hands out has no sign-in with an older password at its version (`Handed`).
`AccessInv`: what a request or a cache entry says of access was so when it was read, or was
lost at most so long before (`Known`, with the slack that each of them has).

`KsefAccessProofs` (`GrantsWereSold`, `VerdictsAreTheGateways`, `StoredIsLastSaved`,
`KeysAlwaysFit`, `SessionsEnd`).  Every step is one of a single part, so `IInv` consists of
an invariant of each: what the events and checks under way will write was sold
(`SubscriptionInv`); an upload session is of one submission and its code that of its file
(`SubmissionInv`); what the script and the routes are about to store is current
(`CredentialsInv`); a login presents a saved token and has the session open that it will
end (`LoginInv`).

`NotificationsProofs` (`RecordsAreTrue`, `RepeatsNeedExcuse`).  `BodiesOK`: what comes
after a mail in a body's list of steps is reached only by way of a mail that went out, and
a list has one entry for an invoice.  `WarnedOnce` is what makes `RepeatsAreExcused`
inductive: a warning that nothing excuses is flagged or about to be, and no body may send
it, neither from the step it is at nor from the rest of the list it has read.  The moves of
a body are treated once (`Moved`): it ends, returns to its loop, takes an entry, stays or
goes a step further, and none of these gives it a warning to send that it had not.

Only model-checked: liveness, which rests on fairness and ENABLED (`EveryOccurrenceSettles`,
`EveryInvoiceArrives`, `OverdueIsAnnounced`, `AcceptedIsClosed`, `ClaimEnds`, `EveryOverdueIsWarned`).
Every safety invariant that a run checks is also a theorem.

## 5. Abstract specifications and composition

`OccurrenceLifecycle` is the contract of the queue towards its jobs and is implemented
by `JobRunner` (checked and proved).  Elsewhere the contract is stated where it is used: the
bodies of `InvoiceRetrieval` and `Notifications` may overlap, be abandoned and be begun
again, exactly as `JobRunner` allows; `KsefAccess` and `Accounts` extend `Subscription`
instead of assuming what a firm may do; `DocumentIntake` calls `ClientCap`;
`VatReturns` uses the operators of `Documents`, and `JpkSubmission` takes the file
`VatReturns` stores as a number.  The route and the job that generate a file are both
actions of `VatReturns`; that the export mark rests on KSeF's acceptance is in `IssuedInvoices`.

## 6. Plan

1. `Schedule` as operators (fields, zones with a repeated and a skipped hour) against a
   reference definition.
2. Requests of documents with their upload links, the exclusion of firms without access
   in the jobs, the expiry of links.

No module that is to be proved about declares a RECURSIVE operator.

## 7. Not modelled

The parsing of cron expressions and daylight saving time, the rate limits (one
statement that counts; nothing else depends on it), the operator's console (a password
hash, a signed cookie and read-only pages, beside the actions on firms that `Accounts`
has), the list of features by plan, reminders of payments and requests of documents,
the deletion of an unverified firm by a later registration of its address, the expiry
of links, the search of fields in a scanned text, the parsing of FA(3) and PDF, the
cryptography of the sidecar, the inactive n8n exports in `workflows/`, and the user
interface, whose state is held by the routes.
