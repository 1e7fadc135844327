# LawOffice OS: TLA+ models and proofs

LawOffice OS is a practice management server: a Go API over PostgreSQL, an
object storage and an SMTP server, with a React client. Several API replicas
may run side by side; they share nothing but the database and the storage. What
is hard about it is in the places where two replicas, two requests, or a request
and a crash meet on the same rows. This directory models those places, checks
them with TLC on small instances and proves the most important results with
TLAPS for every value of the constants.

`PROJECT.json` is the index: it lists the components, the runs, the source lines
every definition stands for, the changes of the code each property would notice,
the hazards, the disagreements found between code and documentation, and the
theorems.

Paths below are relative to `backend/internal/` unless they begin with another
top-level directory.

## Inventory

### Components with state and concurrency

| component | state it keeps | operations | talks to | what is hard |
| --- | --- | --- | --- | --- |
| Outbound e-mail queue (`jobs/queue.go`) | table `outbound_jobs`, per worker a batch, a context, an identity and a secret | enqueue, claim, open, deliver, complete, fail, purge | SMTP sender; fed by handlers and scheduler | leases, crashes, lost answers, suspended replicas, retry, replicas with different secrets |
| Documents and versions (`service/service.go`, `repository/operations.go`) | tables `documents`, `document_versions`, stored objects | upload, add version, delete, restore | storage, scanner; triggers the extraction queue | two stores without a common transaction, numbering under concurrency |
| Text extraction (`ocr/worker.go`, `repository/extractions.go`) | tables `document_extractions`, `document_extraction_pages`, `document_chunks` | claim, complete, fail, reprocess | providers, documents, retrieval | late workers, reprocessing under way, deletion under way |
| Client portal identities (`repository/admin.go`, `http/handlers/api.go`) | `portal_users`, `portal_access`, invitations, resets, sessions | invite, accept, recover, reset, log in and out, revoke, reactivate | outbound queue | check-then-insert of logins, row locks in opposite order |
| Realtime events (`realtime/`, `Handler.Stream`, `frontend/src/hooks/useRealtime.ts`) | `realtime_events`, per replica a hub with channels and history, per browser a Last-Event-ID | publish, listen, deliver, subscribe, replay, write, reconnect | every handler that changes something | commit order against id order, fallback, full channels, reconnection to another replica |
| Matter lifecycle (`repository/admin.go`, `repository/management.go`) | `matters`, `matter_closures`, `matter_events` | create, set status, archive, reopen | tasks, deadlines, hearings, finance | count first, close later; archive again after reopening |
| Deadlines, tasks, hearings, finance | one table each | create, finish, set back | archive warnings, notifications | changes between count and commit |
| Staff identities, roles, sessions (`repository/identity.go`, `admin.go`) | `users`, `roles`, `user_roles`, `sessions` | setup, log in and out, change password, activate, assign roles | access rules | the last Owner; sessions after a change |
| Notifications and scheduler (`scheduler/scheduler.go`) | `notifications`, preferences | publish due, queue e-mails, mark | outbound queue, advisory lock | what follows after the lock is released; enqueue and mark |
| Embedding queue (`ai/embedding_worker.go`, `repository/retrieval.go`) | embedding columns of `document_chunks` | claim, complete, fail | provider, documents | a third leased queue with other rules: one request for a batch, a fence without status, attempts that start again |
| Page splitting (`repository/retrieval.go`) | none | cut a page into overlapping pieces | extraction, which stores the pieces as chunks | that the cut ends and covers the page |
| Workflows (`http/handlers/management.go`, `repository/management.go`) | `workflow_definitions`, `workflow_stages` | create, replace the stages | nothing | two lists written at the same time; creation in two transactions |
| Startup and migrations (`cmd/api/main.go`, `database/database.go`) | `schema_migrations`, an advisory lock | connect, lock, check, apply, serve | other replicas, of the same or another release | a replica killed while it migrates, releases side by side |
| Shutdown (`cmd/api/main.go`) | contexts, wait group, hub, server, pool of one process | signal, close the hub, drain, wait, close the pool | workers, streams, requests | everything stops at the same time, each at its own pace |

### Components without a protocol of their own

Matter access rules, the AI workspace, the rate limiter and other HTTP
middleware, the upload scanner, clients and contacts, custom fields and tags,
branding, search and conflict check, the audit trail, the reading of the
configuration, observability, the rest of the web client, and the deployment
scripts. None of them is modelled; see "Not modelled".

### How they interact

* An upload puts an object, inserts a version, and a trigger inserts the
  extraction row; an extraction worker writes pages and chunks; the embedding
  worker completes the chunks; retrieval reads chunks of current versions.
* Handlers and the scheduler insert rows into the outbound queue; its workers
  send them. Invitations and recovery links are such mails.
* Handlers publish an event after their change committed. PostgreSQL's NOTIFY
  carries it to the listener of each replica, the hub to the open streams.
* The archive of a matter reads the tables of tasks, deadlines, hearings and
  financial entries inside its own transaction.
* The scheduler of each replica reads tasks and deadlines, writes notifications
  and asks the outbound queue for an e-mail, under a deduplication key.
* `main` starts hub, listener, workers and server after the migrations, and
  stops them when a signal comes or the server fails.
* Replicas meet only in the database: `FOR UPDATE SKIP LOCKED`, leases with
  `locked_by`, unique indexes, row locks and two advisory locks, of the scheduler
  and of the migrations.

### What makes each part correct

* Queue: at-least-once delivery, a mail given up unsent only when the secret was
  rotated meanwhile, at most one live worker per job, a finished job never comes
  back, every job is settled, the ciphertext lives exactly as long as it is needed.
* Documents: what was acknowledged is there; numbers without gaps; the current
  version never goes back.
* Extraction: chunks belong to the stored pages; a reprocessing request wins
  over work that began before it; nothing is given up early.
* Portal: a password changes only through a reset; access is what was accepted;
  one recovery link works at a time; sessions end when they should.
* Realtime: an id a browser acknowledges covers everything before it; nothing
  is delivered twice without a reason.
* Matters: history, closure and archive state tell the same story; only work
  that came late is overlooked.
* Staff: a firm keeps an active Owner, a user holds the roles last assigned, and
  a password change or a disabled account ends sessions; each of them except for
  the races the code leaves open, which are named.
* Notifications: one per person and piece of work, one e-mail for each, and the
  e-mail comes.
* Embedding: an embedding is stored only by the worker whose claim the chunk has,
  and a chunk is tried a bounded number of times. The second is not what the code
  does.
* Page splitting: nothing but blanks is lost, a short passage is whole in one
  piece, pieces overlap no more than they should, and the loop ends.
* Workflows: the stages of a workflow are one list somebody sent.
* Startup: the schema is always a prefix of the migrations, and who serves has
  its own prefix. Shutdown: the pool is closed last, or late.

## Modules

| module | role |
| --- | --- |
| `OutboundQueue` | the queue: rows, workers, leases, contexts, time |
| `MailPromise` | what the queue promises its callers; `OutboundQueue` implements it |
| `OutboundQueueProofs` | theorems about `OutboundQueue` |
| `Documents` | uploads, versions, stored objects, deletion and restoration |
| `VersionHistory` | what readers may rely on about versions; `Documents` implements it |
| `Extraction` | extraction rows, workers, pages and chunks |
| `TextPromise` | what is promised about the text of a version; `Extraction` implements it |
| `ExtractionProofs` | theorems about `Extraction` |
| `Portal` | portal accounts, invitations, recovery, logins and sessions |
| `Realtime` | publication, hubs, listeners, streams and browsers |
| `RealtimeProofs` | theorems about `Realtime` |
| `Matters` | matters, their work, archive and reopening |
| `MattersProofs` | theorems about `Matters` |
| `Staff` | the firm's users, roles, logins, password changes, disabling and enabling |
| `IdentitiesProofs` | theorems about `Portal` and `Staff`, and about the office as a whole |
| `Notifications` | due work, the scheduler's cycles, the e-mails they ask for |
| `NotificationsProofs` | theorems about `Notifications`, and about the mailing as a whole |
| `Embedding` | the queue of chunks that get an embedding |
| `Pages` | how an extracted page is cut into pieces |
| `Workflows` | workflows and the replacement of their stages |
| `LibraryProofs` | theorems about `Documents`, `Embedding`, `Workflows`, `Pages` and the four together |
| `Startup` | migrations under the advisory lock, releases side by side |
| `Shutdown` | how one replica stops |
| `ProcessProofs` | theorems about `Startup`, `Shutdown` and a replica that does all three |
| `MCOutboundQueue`, `MCExtraction`, `MCPortal`, `MCRealtime`, `MCMatters` | model values and symmetry for one module |
| `MCEmbedding` | `Embedding` with a count of the failures that put a chunk back |
| `MCMailing` | `Notifications` and `OutboundQueue` in one run |
| `MCOffice` | `Portal`, `Staff` and `Matters` in one run |
| `MCLibrary` | `Documents`, `Pages`, `Embedding` and `Workflows` in one run |
| `MCService` | `Realtime`, `Startup` and `Shutdown` in one run |

The last four put modules that share no variable into one run. A variable `side`
says which of them moves; the others stay as they began. Interleaving them would
multiply the states and could not change a property, since each property speaks
of the variables of one module. That a behaviour of the composition is one of each
part is proved (`LibraryIsItsParts`, `OfficeIsItsParts`, `ServiceIsItsParts`,
`MailingIsItsParts`), so that the theorems about the parts hold of it. What one module may feel of another is in the
module itself, as an action that may happen at any time (`QueueMoves`,
`DueChanges`, `InsertChunk`, `ShowOrHide`, `StopListening`).

Operators introduced by a comment "Variant" are not part of any behaviour. They
say what a definition would be after a plausible slip in the code, and show that
the properties notice the change.

### OutboundQueue

One row per identity in `Jobs`; `status` is `none` before the insert and
`purged` after the deletion of old rows. A worker's cycle is `Claim`, then for
every job `OpenFails` or `Send` and one of `RecordCompleted`, `RecordFailed`,
`RecordLost`, then `Finish`. `ClaimUnanswered` is a claim whose answer never arrives,
`DropRest` the rest of a batch after the 45 second context expired, `Crash` and
`Restart` the death of a process and a new one with a fresh identity (the rows
keep the identity `Departed`).

Time is `Tick`. It ages leases and contexts and counts backoffs down. Ages
saturate at the limit they are compared with. A replica in `MayStall` may be
suspended together with its clock: its context does not age while the leases in
the database do. `SmtpAnswer` lets the server take a message and report an
error, as `mailer.go` does when the final answer or QUIT fails.

`payload` is whether the ciphertext is still in the row, `sealed` the secret it was
sealed under: that of the replica that enqueued the mail. A process that starts
takes any of `Secrets` (`Restart`), whatever the others run with and whatever is
still owed. Who has another secret than a payload was sealed under cannot open it
(`Opens`): `deliver` returns before it calls the sender, and the error goes to
`fail` like any other, so that such a row may be given up without ever having been
handed over. `mixed` remembers the mails that were owed while some replica ran under
another secret than theirs; it is what `NoMailDropped` and `KeepsPromise` excuse a
mail abandoned unsent by, and nothing else excuses one. A ciphertext that opens
yields the message that was marshalled, so `Unmarshal` does not fail here; a row
damaged in the database is not modelled.

### Documents

An upload request, its object and the version row it may create share an
identity. The request stores the object, draws a version number from what its
statement sees, and commits or fails; the unique constraint on document and
number is the guard `DrawnIsFree`. `aside` remembers the versions that did not
move the pointer because their document was deleted at that moment. `KeepsHistory`
says that the rows, read in the order of their numbers, are a `VersionHistory`. Commits may be answered with an error, in
which case the clean-up deletes the object; the storage may keep an object it
reported as failed; the process may die with the request.

### Extraction

A version is added in one step (`Documents` has the details). Leases and
backoffs are not timed: any lease may lapse at any moment, so the model covers
slow and suspended workers, and everything it allows in addition is a matter of
timing only. The completing transaction is `BeginComplete`, one `BuildChunks`
per page, `CommitComplete`: each INSERT ... SELECT of the chunks is a statement
of its own and sees the document as it is then. `requests` bounds deletions and
reprocessing requests. `KeepsText` reads a row's status as what became of the wish
for its text, and says that the queue keeps `TextPromise`.

### Portal

A password is named by what set it, an invitation or a submission of the reset
form. The transactions that lock rows are two steps each: `LockForReset` and
`CreateReset` take the account and then its tokens, `BeginSubmit` and
`CommitSubmit` the token and then the account, so each may wait for the other;
`AbortReset` and `AbortSubmit` are what PostgreSQL does to one of them. A login
is `CheckCredentials` and later `CreatePortalSession`; a revocation is `Revoke`
and later `DeleteSessions`, or `RevokeCut` when it does not get that far.
`ended` remembers the logins a reset or a revocation should have ended, `raced`
those that were in flight at that moment. Expiry only disables steps that may
as well not be taken, and is left out.

### Realtime

Events are numbered in the order in which they begin, a choice of names. Their
`ids` come from the sequence at the INSERT, their place in `log` from the
commit. A hub without database, or whose publication failed, delivers by itself
with its own counter; `space` tells the two kinds of id apart, although the
code compares them as plain numbers, and so do `Fresh` and `After`. A stream
joins the hub first and reads its replay afterwards, as `Handler.Stream` does;
`sent` is its `lastSent`, `lastId` the browser's Last-Event-ID. `issued` and
`missed` are for the properties. Streams do not influence each other or the
hub, so one browser shows what any number would.

### Matters

`CountWork` is the first statement of the archive transaction, `ArchiveMatter`
the remaining statements and the commit. They may be one step: the INSERT into
`matter_closures` takes the unique entry of the matter until the transaction
ends, and others that touch the matter wait or conflict there. Between the two
steps anything may happen, since the count locks nothing at READ COMMITTED.
`RejectArchive` is the conflict with an earlier closure. `UpdateMatterStatus`
does not look at `archived_at`, and neither does the model. Hearings are open
while they lie in the future; nothing in the code pays a financial entry.

### Staff

A request to disable a user, to change a password or to change roles is a record
in `change` that goes through stages, one per statement: `JudgeDisable`,
`Disable` and `EndSessionsOf`; `VerifyPassword`, `StorePassword` and
`EndSessionsOf`; `JudgeRoles`, `SnapshotRoles`, `DeleteRoles` and
`UpdateUserRoles`, whose last three are one transaction at READ COMMITTED (the
DELETE of one does not see what another inserts meanwhile), or `AbortRoles`. A
login is `CheckLogin` and later `IssueSession`. A request may be cut short
between any two (`SessionsKept`). `crossed` remembers the requests
judged while another was between its judgement and its write, `mixed` the users whose two assignments overlapped in the
DELETE, `spared` the logins and sessions a race or a cut left alive. A password
is the request that stored it.

### Notifications

A cycle of a replica is `BeginPublish` with the advisory lock, `CommitPublish`
(which releases it) or `RefusePublish`, `ListPending`, then for every row
`EnsureEmail` and `MarkQueued`. `LoseStatement` is an UPDATE whose mark is not
stored, `CutCycle` the end of a cycle anywhere. The row of the queue takes the
life `MailPromise` gives it, in `QueueMoves`: owed, delivered or failed, and one
day deleted, after which the deduplication key is free again. `overlong` are the
pieces of work whose title does not fit a notification.

### Embedding

`ClaimChunks` takes a batch, `EmbedBatch` is the one request for all of it,
`CompleteChunk` and `FailChunk` are what becomes of each chunk (`StoreUnnoticed`
is a completion whose answer was lost, `DropItem` the way on to the next),
`StopEmbedder` the end of a batch's 90 seconds or of the process. `InsertChunk`, `ShowOrHide` and
`DeleteChunk` are what `Extraction` and `Documents` do to the rows. Workers may be
configured with different models, as they are during a roll-out. Leases are not
timed, as in `Extraction`.

### Pages

`ReadRune` makes every page, up to `MaxPage` runes; `Trim` is the TrimSpace the
function begins with, and `CutPiece` a turn of its loop, with `start` and the pieces
so far. A rune is what it means to the cut. The loop is a state machine and not a
recursive function so that its invariant can be stated, checked and proved.

### Workflows

`BeginDelete` fixes which rows the DELETE of a transaction is about,
`DeleteStages` is the moment it gets them, `InsertStage` one INSERT with the
unique place as its guard, then `CommitStages` or `RollBackStages`.
`CreateWorkflow` is a transaction of its own, before those of its stages.

### Startup and Shutdown

`Startup`: a replica of some release takes the lock (`TakeLock`), looks at each
of its migrations (`CheckMigration`), applies what is missing in one transaction
with its row (`ApplyMigration`) and serves; `GoDown` ends it anywhere and with it
the session that holds the lock. `conflict` is a start that failed because the
row was already there.

`Shutdown`: `main` moves from `serving` through `stopping`, `draining`, `waiting`
and `closing` to `gone`. Requests, streams and workers go on meanwhile; those who
need the database hold one connection for their statement (`Acquire`).
`Deadline` is the end of the 15 seconds, which may come at any time after the
drain began. `PublishChange` is the step in which a draining request can no
longer store its event.

## Runs

Ordinary runs find no error. `queue_safety` also checks that the system never
stops; the other models stop where their bounds on requests are used up, and their
configurations say so with CHECK_DEADLOCK FALSE.

| run | instance | what it shows |
| --- | --- | --- |
| `queue_safety` | 2 jobs, 2 workers, one may be suspended, batch of 1, 1 crash, 2 secrets | leases, ciphertext, at-least-once, a mail given up unsent only after a rotation, duplicates only after uncertainty, finished rows stay finished |
| `mailing` (`MCMailing`) | mails: 1 job, 2 workers, nobody suspended, 1 crash, 2 secrets, fairness; notices: 2 subjects, 2 schedulers, a list of 1, 1 fault, 2 changes of work or preference, fairness | one live sender per job, every job is settled, `MailPromise` is implemented; one notification each, a second e-mail only after a lost mark, and every alert is mailed |
| `documents` (`MCLibrary`) | 2 documents, 4 uploads, 1 deletion; pages up to 7 runes, pieces of 4; 2 chunks, 2 embedding workers, 2 models, 3 claims; 1 workflow, 3 edits of up to 2 stages | acknowledged versions are readable, numbers without gap or duplicate, each document keeps a `VersionHistory`, whose newest version is shown unless it was added aside; short passages are whole in a piece; an embedding is stored only under the claim that asked for it; stages are one list |
| `extraction` | 1 document, 2 versions, 2 workers, 2 pages, 2 requests | the queue keeps `TextPromise`: text stays until it is wanted again, chunks are of stored pages; reprocessing is honoured, nothing given up early |
| `office` (`MCOffice`) | clients: 1 account, 2 invitations, recovery requests, submissions and logins each, 1 reactivation; staff: 2 users, Owner and one role, 2 requests, 3 logins; matters: 2, with 2 pieces of work and 2 archive requests | clients: password, access, recovery links, a session survives only through a race; staff: the last Owner, roles and sessions are lost, mixed or kept only through a race; matters: timeline, closure and archive agree, only late work is overlooked |
| `realtime` (`MCService`) | 3 events, 2 replicas, 1 browser with 2 connections, 1 fault; 3 starting replicas, 3 migrations; 2 requests, 1 stream, 2 workers of a stopping replica | no gap before an acknowledged id, repetition only in doubt; migrations in order; everything is stopped before the pool, or the 15 seconds are over |

Why the bounds are enough. Every hazard in the list needs two actors on one row
and at most one crash, fault or deletion; each instance has two of the actors
that race and one event more than the shortest scenario uses. Limits (batch,
`max_attempts`, channel, replay, history) are set to one or two, so that they
are reached; in `documents` the embedding limit is 2 and there are three claims, so
that a chunk may be claimed anew by the worker that has it in hand and by another
one. Retry needs two attempts to show both the retry and the terminal
failure; lease and work context keep the relation of the code (the context is
shorter), with one tick for the context and two for the lease. In `queue_safety` the
backoff is 0 ticks: a job that waits and a job that is due and not claimed yet allow
the same steps, except that the second one allows a claim as well, and nothing there
says that a claim comes. In `mailing`, where it matters, the backoff is counted. Of
the notices, two changes are few because the start varies: at most one subject has a
title too long for a notification, and it may be due from the beginning. With one
crash one process comes back with another secret, before or after the mail it cannot
open, or that the others cannot open. In `realtime`,
three events are needed for two commits to overtake each other while a third is
replayed; pages of 7 runes cut by 4, with an overlap of 1 and a search of 2, show a
cut at a separator, one without, three pieces and a page that is exactly one
piece. Two people and one role besides Owner are the fewest with which two
Owners can be taken away at once, three edits the fewest with which a third meets
what two others left, and three starting replicas let one wait, one migrate and
one serve. The type predicate of every module is an invariant of a run (`OfficeTypeOK`,
`LibraryTypeOK` and `ServiceTypeOK` join several), except `NoticeTypeOK`, which is
proved. For every property of
these runs `PROJECT.json` names a change of one
definition after which the run finds it violated, so the case it is about does
occur in the instance.

### Where code and documentation disagree

Six runs each check one sentence of the documentation, and TLC finds a
behaviour of the code that does not match it.

| run | sentence | what happens |
| --- | --- | --- |
| `queue_retry` | `docs/architecture.md:27`, bounded retry ends in a terminal state | taking over an abandoned lease does not look at `max_attempts`; only a recorded failure does |
| `extraction_chunks` | `docs/ocr.md:35`, success rebuilds the chunks | a document deleted while its extraction completes gets pages and no chunks, and nothing rebuilds them after a restore |
| `portal_sessions` | `docs/portal.md:13`, a reset revokes every session | a login that was checked before the reset inserts its session afterwards |
| `realtime_order` | `docs/architecture.md:43`, suppresses ids already sent | an event whose commit was overtaken by a larger id is suppressed without having been sent; so is a fallback event after a durable one |
| `matters_again` | `README.md:170`, who confirms may proceed; archived matters can be reopened | the closure of the first archive stays after reopening and is unique, so a second archive always conflicts |
| `embedding_retry` | `docs/ai-workspace.md:106`, leases and bounded retries | a chunk that was never embedded has no model, differs from the model in use and so starts its attempts again with every claim (`repository/retrieval.go:135`): a provider that always fails is asked for ever |

Noted while reading, without a run of their own:

* A deadline or task may have a title of 200 characters, a notification one of
  180: one due piece of work in between blocks the notifications of everybody as
  long as it is due (`repository/admin.go:474`). `EveryAlertIsMailed` names the
  exception.
* A version added while its document is being deleted is acknowledged but does
  not become the current one (`repository/operations.go:52`). `VersionHistory`, in
  `KeepsHistory`, names the exception.
* A request that is still being drained after the signal cannot store its event
  (`realtime/postgres.go:30`); `Shutdown` has the step.
* The archive handler writes the audit entry `matter.archived` also when the
  request only returned warnings (`http/handlers/api.go:1020`).
* Reading the notification preferences writes the audit entry of their change,
  and changing them none (`http/handlers/api.go:1097`).
* The INSERT of a party leaves out `party_type`, which is NOT NULL without a
  default (`repository/management.go:53`).
* Open hearings lead to a warning but are not part of the stored closure
  (`repository/admin.go:287`, `docs/archive.md`).

## Fairness

`mailing` assumes some; safety properties need none.

Of the queue: the ticker in `Run` calls `process` again and again, and nothing in the
loop waits without the context's deadline: hence weak fairness of `Tick`, of
`RecordLost` and of `Housekeeping`, which is `DropRest`, `Finish`, or `Restart` by
the supervisor (`restart: unless-stopped` in `compose.yml`). Strong fairness of
claiming a particular job, of `Deliver` (opening and sending it) and of `Record` (one
of the two outcome statements) says that the database and the SMTP server answer in
time again and again, not that they answer each time: without it a database that
loses every outcome would keep a job busy forever, and the documentation does not
promise otherwise. Claims are ordered by `available_at` in the code, so a due job
cannot be passed over forever; the fairness of claiming one particular job stands for
that. Replicas suspended forever are excluded in this run (`MayStall` is empty).
Nothing is assumed of the secrets: a job nobody can open is settled as failed.

Of the notices: `EveryAlertIsMailed` needs weak fairness of the cycle of each
scheduler, one formula per replica: the ticker of `run` starts a cycle every
minute, and a cycle goes from statement to statement. Faults are bounded and not
fair. Nothing is assumed of the queue, of due work or of preferences. No symmetry is
used in this run.

## Proofs

TLAPS checks every theorem for arbitrary constants under the assumptions stated
in the modules.

`OutboundQueueProofs` assumes `QueueAssumptions`: limits are positive, a work
context is not longer than a lease, and identities are distinct. The inductive
invariant `IInv` joins the type invariant with what each part of the system
knows:

* `PhaseInv`: a worker has a batch only inside a cycle, and its current job is
  one of them.
* `RowInv`: leased exactly while processing, ciphertext exactly until finished.
* `LeaseInv`: in a live context of a worker whose clock runs, every job of the
  batch is leased to that worker, with the attempt count the claim returned, and
  the lease is no older than the context. The last part is the strengthening: it
  is what makes the lease survive the next tick.
* `OutcomeInv`: a claim is never ahead of its row, and what is about to be
  recorded has happened: a success was accepted, and a failure was handed over or met
  a secret of its own.
* `SecretInv`: a replica whose secret does not open a row it has in hand, or may yet
  claim, has made the secrets mixed as far as that row is concerned. It ties the
  error of `open` to a rotation while the mail was owed.
* `CertainInv`: as long as no outcome of a job is uncertain, whoever has the job
  in hand holds its lease, and after the server took the message only a success
  is left to record.

One lemma per action shows that `IInv` is preserved, and the theorems follow:
`TypeCorrect`, `LeaseIsHeld`, `SendersAreExclusive`, `CiphertextIsKept`,
`AtLeastOnce`, `DuplicatesAreExcused`, `TerminalStays`. `QueueKeepsPromise` maps
the initial state and every step to `MailPromise` when no replica can be
suspended (with a suspended one the promise is false: a mail may go out after
its row was finished by another worker). There `mixed` becomes `locked`, the mails
some sender could not open: a start with another secret maps to `LockAway`, which
can touch owed mails only, and an insertion among replicas that disagree to a
`Request` that is locked from the beginning.

`MattersProofs` assumes finite work and that `None` is neither a matter nor a
closure. Its `IInv` adds two facts to the properties: the subject of a counted
request exists, and an unconfirmed request has, in its matter, only open work
that was opened after its count. The second is inductive and gives
`NothingElseOverlooked`; `TimelineIsFaithful` and `ArchivedIsBacked` are parts
of `IInv`.

`LibraryProofs` is about four modules. For `Documents` it assumes finite uploads,
because `VersionsAreNumbered` counts rows and the code takes their maximum. `DInv`
follows an upload and a number. `Stored`: whoever is under way has an object, and
a row belongs to a request that got as far as its transaction. `Drawn`: a drawn
number is one or follows a number the document has; another request may take it
meanwhile, in which case the unique constraint refuses this one, but rows are
never removed, so it leaves no gap. `Gapless` and `Distinct` give
`NumberedWithoutGap`; `AcknowledgedIsThere` and `CurrentIsNewest` follow from
`Stored` and `Numbered`. `DocumentsKeepHistory` is the refinement. That numbers have
no gap makes the n-th version of a document well-defined, the unique constraint
that a commit puts its version at the end; every other step leaves the history
alone, hides a document or shows it again.

For `Embedding` it assumes that more than one attempt is allowed: with a limit of
one, the first failure would be the last, also for a chunk without embedding, and
TLC shows it. `EInv` says that the holder of a chunk has the attempts of the row,
and that these are at most one until there is an embedding. `OnlyEmbeddedGivenUp` is
a part of it: whatever was given up has an embedding of some model. That is what the
code does, not what it should do; the documented bound holds of those chunks alone,
and `embedding_retry` shows the others. The first part of `EInv` is what
`EmbeddingsAreStoredUnderLease` needs: the code's fence compares only the worker's
name, yet a worker never stores an answer for a chunk that was claimed again after
its own claim. What is stored is of the model the worker runs, and an embedding is
lost only with its chunk.

For `Workflows` nothing is assumed but that identities are distinct. The edits of
one workflow are not serialized, so `WInv` speaks of all that are open: at most one
has deleted the list there is (`Emptied`), at most one is writing another, in
places nobody else has taken (`Placing`), and what an open edit has not seen was
committed since its snapshot (`Unseen`). Hence `StagesStayWhole`.

For `Pages` it assumes that a piece is longer than look-back and overlap together,
which 1800, 300 and 250 are; with equality and no look-back TLC finds a passage cut
in two. `PInv` speaks of the turns of the loop. Ink is still ahead of `start`
(`TextAhead`); a short passage that begins behind `start` is in a piece already
(`LeftBehind`, the strengthening); the pieces so far began earlier and repeat no
more than the overlap with the next (`PiecesBehind`). A turn keeps `LeftBehind`
because a passage that does not fit before the end begins in the overlap, where the
next piece starts. Hence `ShortPassagesAreWhole`, for pages of any length.
`CutGoesOn` says that every turn is the last or moves `start` ahead: with the end of
the page as the bound, the loop ends. That conclusion itself is liveness and is not
stated.

`ExtractionProofs` is about a fence. Any lease may lapse and any worker may be
late, so the invariant `XInv` says nothing of who works on a row, only of who is
named in `locked_by`: no reprocessing request overtook that worker, and its claim
returned the attempts the row has (`Fence`). What is written by a completing
transaction is written by such a worker or rolled back, which gives
`ChunksAreOfPages`, `ReprocessingWins` and `GivenUpWhenExhausted`, and as an action
property `TextIsOfLatestClaim`. `QueueKeepsText` maps the queue to `TextPromise`. A
claim, a lapse and a crash go unseen there; a worker that records an outcome under
the lease finds the row in processing, so the text was wanted; and one without the
lease changes nothing, which is what makes the promise independent of lateness.

`NotificationsProofs` assumes finitely many pieces of work, and at least one.
Whoever inserts holds the advisory lock, and what it found is unknown to the table
until it commits (`Publishing`): hence `ToldOnce`. After the commit there is no
lock, and the second result rests on `Mailing`: a row whose e-mail was asked for
is marked, about to be marked by whoever asked, or lost its mark; and once the
e-mail's row in the queue is old or deleted, so that its key no longer protects
against a second one, a row whose mark was not lost is marked and in nobody's
list. This last part (`Closed`) is the strengthening. Both follow from the steps
alone (`NoticeSafety`), without the fairness `NoticeSpec` also states, so that they
hold of the mailing, whose fairness is worded differently (`MailingIsItsParts`).

`IdentitiesProofs` is about the two kinds of accounts. For `Portal` the invariant
`PInv` says who knows what under which lock. An open invitation is the only one of
its account, which has no password yet (`Invited`): hence `OnlyResetsReplace` and
`AccessIsAccepted`. The recovery request that holds an account's row has seen every
token of that account that works (`Locked`), which gives `OneLinkWorks`. A session
that should have ended raced the change or has its deletion ahead (`Excused`).
Two theorems are about steps. `LinksAreSpentOnce`: a link that was used, replaced or
withdrawn stays so, for which a request must not bring back a link that was spent
while it held the account; `Marked` says that none of those it has marked can be.
`EachPasswordCostsALink`: whoever sets a password spends, in the same step, a live
recovery link of that account or a live invitation of an account without one.
For `Staff` there is no lock to speak of; `FInv` says what holds without one. A
request nobody crossed is the only one that is pending, and what it was judged by
still holds (`Alone`): hence `OwnerIsCrossedAway`. An assignment that is alone in
its DELETE deletes the roles as they are (`Seen`), and a login under way that
should have ended was in flight when it should (`Inflight`).

`ProcessProofs` assumes that identities are distinct. `SInv` says what `main` has
established at each of its steps, and that nothing it has waited for comes back
unless the 15 seconds were over: a drained server takes no request, a cancelled
context starts no cycle. `MInv` says what the holder of the advisory lock knows,
namely that all migrations it has passed are applied and the one it is about to
apply is not; a crash of the holder leaves a prefix, since a migration and its row
are one transaction. `MigrationsOneByOne` says the same of steps: one that changes
the schema adds the next migration, and nobody else is migrating. Both, and what
`RealtimeProofs` shows, hold of the replica of `MCService` (`ServiceIsItsParts`).

`RealtimeProofs` is the largest. `RInv` follows an event of the database a browser
has yet to get (`Awaits`), and says where it is. Once the listener of the stream's
replica has taken it, it is in the channel or in the replay, or the replay is
still to be read and the browser names a Last-Event-ID (`Taken`): that is what
joining the hub before the query is for. What was committed before a replayed
event is in the replay as well (`Complete`), and the channel has the order of the
log (`Ordered`). So when an event is written, whatever has a smaller id and did
not reach the browser was missed, or comes later in the log, which is `Overtaken`.
That an event has one id of the database, one place in the log and one delivery
by a hub alone (`Sequenced`, `Issued`) gives the second result: what is received
twice was delivered by both. Two results are about steps. A browser sees ids ascend
across its connections (`BrowsersSeeIdsAscend`), because `sent` begins with the
Last-Event-ID. And `SuppressionIsExcused` says what is left of the sentence that
`realtime_order` refutes: a durable event that is suppressed was received, missed
for a full channel or a limit, is older than the browser's first question, or was
overtaken, as long as the browser has seen ids of the database only.

Each safety property of the passing runs is stated by a theorem. Only
model-checked is liveness, and with it whatever needs ENABLED: `EveryJobSettles` and
`EveryAlertIsMailed`. `KeepsPromise` is proved for replicas that are never
suspended, which is where it holds. The runs that expect a violation have nothing to
prove. No definition is recursive, so nothing rests on induction over data.

## Abstractions common to all modules

* One firm. Every statement carries the firm's identity, and firms share no row
  the modules are about, except that the queues serve all of them alike.
* A statement or a transaction whose rows are locked or guarded by a unique
  index is one step; a transaction whose statements see other commits is several.
* Requests that are refused before they touch state are steps that change nothing.
* Wording, formats, checksums, hashing and HTTP framing are left out.
* Permission checks happen before the modelled handlers and are planned as a
  module of their own.

## Not modelled

* Matter access rules (`repository/legal.go`, `http/router/router.go`), to be
  written as operators over roles, grants and confidentiality.
* The rate limiter (`http/middleware`), a fixed window per host, and the audit
  entries handlers write after the fact and whose errors they ignore.
* The AI workspace: sequential per question; its selection and its filter of
  citations are candidates for pure operators.
* Clients, contacts, parties, notes, custom fields, tags, branding: single
  statements on rows nothing else depends on.
* Search and conflict check: text matching in SQL, read-only.
* Upload scanner, object storage, SMTP and the providers: external; modelled as
  far as their answers change what the modelled code does.
* Configuration, domain types, metrics, deployment and the web client except
  `useRealtime.ts`: I/O, declarations and rendering.

## Plan

Done: the queue with its promise; documents, extraction, embedding, page
splitting and workflows; portal and staff identities; matters and notifications;
realtime; startup and shutdown. All of them with proofs, three of them as
implementations of what they promise (`MailPromise`, `VersionHistory`,
`TextPromise`).

What is left to prove: what a session survives, as an action property of `Portal`
and `Staff`; an abstract mailbox of events that `Realtime` implements for a browser
whose ids are those of the database.

What is left of the model, in this order: `Access`, compared with
`docs/security-model.md`; `RateLimit`; a composition of `Documents`,
`Extraction` and retrieval over one document, with the property that retrieval
cites only text of the current version; audit entries in `Matters` and `Portal`.
