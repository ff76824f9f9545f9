# EAP: a TLA+ verification of the enterprise agent platform

This directory holds the formal models of the platform in `src/`: a FastAPI
backend (`src/apps/backend`), its RQ workers, and a Next.js frontend
(`src/apps/frontend`).  The specifications are checked with TLC and proved with
TLAPS.  Paths below are relative to `src/apps/backend/app` unless they say
otherwise.

## 1. The system

| Component | State | Operations | Hard behaviour | What makes it correct |
|---|---|---|---|---|
| Task pipeline (`services/task_*.py`, `workers/process_task.py`, `workers/executor.py`, `queue.py`) | `tasks` and `task_outbox` rows, RQ queue, Redis keys `task:lease:*`, `task:rescue:*` | request, approve, reject, cancel, retry; worker execution; reconcile, rescue and expiry scans | requests, workers and scans interleave; crashes between commit, enqueue and claim; duplicate deliveries; leases that lapse | legal status moves only; one dispatch per authorisation; one runner per dispatch; nothing approved is lost |
| Tool proxy and circuit breakers (`services/tool_proxy.py`, `services/dify_client.py`) | per-tool failure count, open / half-open flags | execute, debug | concurrent callers, a trial that ends without a verdict | one trial at a time, the breaker closes again |
| Refresh-token sessions (`auth/refresh.py`, `auth/routes.py`, `auth/password_change.py`) | `refresh_tokens` rows | issue, rotate, revoke a family, revoke a user | row locks against statement snapshots, replays, lost answers | one active token per family; an ended session stays ended |
| Login lockout (`auth/login_lockout.py`, `auth/local_login.py`) | count and lock in Redis, and in every process | record failure, check, clear | attempts interleave at every await; Redis fails, or executes and its reply is lost | once a store is locked, only attempts already past its check still verify |
| Rate limiter (`rate_limit.py`, `middleware/security.py`) | token buckets in Redis, in-memory twin | acquire, sweep | refill on read, expiry, eviction, fallback | burst and rate are those of one bucket |
| OIDC login (`auth/routes.py`, `auth/oidc.py`, `auth/state_store.py`) | `users` rows, one-shot states in Redis | callback | two callbacks, or a callback and a creation, insert at once | a sign-in lands on the account of its identity |
| Knowledge bases (`services/knowledge.py`, `repositories/knowledge.py`) | document rows, counters and folded status of a knowledge base; Dify datasets | create, upload, poll, list, retry, delete | two stores without a common transaction; observers race with each other, with retries and deletions | doc_count follows the rows; a completion is counted once; the folded status is that of the rows |
| Recomputation (`scripts/recompute_kb_counts.py`) | `kb_chunk_count_snapshots` rows; what a run has read and planned | recompute, roll back | runs by hand beside the API: reads, probes of Dify and the writes are moments apart; values are compared, not versions | what is written is the sum of the completed documents, no increment is overwritten, a snapshot can be undone |
| Agents (`services/agent_service.py`, `repositories/agent_repository.py`) | `agent_registry` rows and bindings; Dify apps | register, edit, test, publish, take down, archive | compensation towards Dify, optimistic version | a listed agent has its app; nothing is left in Dify; what is taken down stays down |
| Members (`services/member_service.py`) | `users` rows | create, adjust, reset password | two administrators adjust each other | a tenant keeps an administrator |
| Uploads (`uploads.py`) | semaphores, per-user slots | hold, release | deadlines while waiting, disconnects | bounds hold, slots come back |
| Dify console client (`dify_console.py`) | one cookie session | login, refresh, call | concurrent 401s, a login that fails | a retry goes out with a younger session |
| Conversations and streaming (`services/conversation.py`, `services/dify_conversation_adapter.py`, `events/run_log.py`) | conversation row, Dify conversation, approval tasks, run logs | stream, debug, list, delete, restore | the browser leaves, the stream breaks, turns overlap | an answer is in the history; the log comes before the last frame; a call asks once |
| Audit log (`events/audit.py`, `events/bus.py`) | append-only rows | append | best effort | -- |
| Frontend session (`src/apps/frontend/lib/refresh-channel.ts`, `lib/http-client.ts`, `components/auth/auth-context.tsx`) | cookie jar, access token and stamp of each tab, a Web Lock | bootstrap, refresh, sign in, sign out | tabs, reloads, lost and late answers | the browser does not conflict with itself; the session is kept |
| Frontend chat stream (`src/apps/frontend/lib/use-stream-chat.ts`, `lib/chat-stream-state.ts`) | message list, stream state | send, abort | frames after an error, heartbeat | what is shown has happened |
| Bootstrap, middleware, configuration, dashboards, pages | -- | -- | -- | wiring, read-only queries, rendering |

Interaction: the browser talks to the API; the API writes Postgres, uses Redis for
locks, counters and the queue, and calls Dify.  Workers take jobs from Redis and
call tools.  Each API replica runs the three background scans of the pipeline.
A tool call passes the circuit breaker of the process that makes it; every
authenticated call rests on a session whose tokens live in Postgres, and which the
tabs of one browser share through its cookie.  A chat turn relays Dify's stream to
the browser and may leave an approval task, which is where the task pipeline
starts.  Agents and knowledge bases are rows whose other half lives in Dify.
`PROJECT.json` lists every component, with what is left out of it, and under
`hazards` the lines where this code is hard to test.

## 2. Modules

| Module | Models | Kind |
|---|---|---|
| `TaskStatus` | statuses, `VALID_TRANSITIONS`, who may ask for what | shared operators |
| `TaskLifecycle` | what the pipeline promises about one task | abstract specification |
| `TaskDispatch` | the task pipeline: requests, outbox, queue, lease, workers, scans, faults | component; implements `TaskLifecycle` |
| `TaskDispatch_proofs` | its theorems | proofs |
| `SessionFamily` | what the refresh-token service promises of a session | abstract specification |
| `SessionTokens` | login, rotation, replay, logout, password change as transactions | component; implements `SessionFamily` |
| `CircuitBreaker` | one tool's breaker and the calls that share it | component |
| `KnowledgeDocs` | the documents of one knowledge base: upload, poll, listing, retry, deletion | component |
| `KnowledgeDocs_proofs` | its theorems and those of `RecomputeCounts`, which repairs its counter | proofs |
| `RecomputeCounts` | the recomputation of `chunk_count` and its rollback, beside the API | component |
| `TokenBucket` | what one token bucket promises | abstract specification |
| `RateLimit` | the shared bucket of a caller and the fallback of each process | component; each bucket implements `TokenBucket` |
| `LoginLockout` | counts and locks of one identifier, shared and per process | component |
| `SignIn` | password sign-in: budget, lockout, verification, counting | composes `RateLimit` and `LoginLockout` |
| `SignIn_proofs` | its theorems | proofs |
| `Members` | the accounts of a tenant and how administrators change them | component |
| `Directory` | how accounts come in: creation and the provider's callback | composes with `Members` |
| `Directory_proofs` | its theorems | proofs |
| `UploadSlots` | the in-flight limit on uploads | component |
| `ConsoleSession` | the shared session with Dify's console | component |
| `UploadPath` | an upload end to end | composes the two |
| `UploadPath_proofs` | its theorems | proofs |
| `Catalogue` | agents and knowledge bases as sagas over Postgres and Dify | component |
| `Catalogue_proofs` | its theorems | proofs |
| `Chat` | the turns of a conversation, from the browser to Dify and back | component |
| `Streams_proofs` | the theorems of `Chat` and of `CircuitBreaker`, which its streams go through | proofs |
| `BrowserSession` | the tabs of a browser against the refresh endpoint | component |
| `Sessions_proofs` | the theorems of `SessionTokens` and `BrowserSession`, the two ends of a session | proofs |
| `MC...` | symmetry sets and small definitions for TLC, one for each run or group of runs | model checking |

`PROJECT.json` maps each definition to the lines it stands for.  The names of
`CircuitBreaker`, `BrowserSession` and `RecomputeCounts` that every component has carry a
prefix (`BreakerSpec`, `BreakerFairness`, `BrowserSpec`), since a module of proofs or of a run
extends each of them together with another component.

### TaskDispatch

An action is the code between two awaits; what a process read stays in its own
record (`req`, `wk`, `scan`, `resc`, `exp`) until it uses it.

* *Requests* (`routers/tasks.py`, `services/task_service.py`).  `ReadTransition`
  / `ReadRetry` load the row and pass the guards; a refused request changes
  nothing and is left out.  `CommitTransition` / `CommitRetry` are the
  conditional UPDATE with the outbox row in the same transaction,
  `RequestConflict` its 409.  `RequestEnqueue` (or `RequestEnqueueFails`) and
  `RequestClaim` are the two halves of `_dispatch_after_commit`; `RequestCrash`
  ends the request anywhere.
* *Workers* (`workers/process_task.py`, `services/task_lease.py`).  `Dequeue`,
  `Acquire` (SET NX) or `DropDuplicate`, `Load`, `PreMove` (a task that fails
  before it starts passes through executing), `StartMove`, `CheckLease`,
  `CallEnds`, `Record`, `StopLease`.  `HeartbeatLoses` is the renewal that finds
  another owner; `JobRaises`, `StopRaised`, `ReleaseFails` and `WorkerCrash` are
  the failure paths, after which RQ sends the job again or gives it up
  (`Redeliver`).
* *Scans* (`services/task_reconcile.py`, `services/task_expiry.py`).  Each scan
  selects, then treats its rows one at a time; `ScansAbort` is a scan that fails
  in the middle.
* *Time* is abstracted: a lease, a rescue marker, a grace period or a deadline
  may pass at any moment it could (`LeaseExpires`, `MarkerExpires`, `Deadline`;
  the rescue scan takes every candidate, as if its grace had passed).  A live
  holder's lease lapses only when `LiveLeaseMayExpire` holds: renewals come three
  to a TTL, so that is a fault of Redis or of the host.
* *The queue* is a bag with at most `MaxCopies` copies of a job, taken in any
  order: more behaviours than RQ's list.
* *History*: `sent`, and `miscounted`, the tasks whose `retry_count` was written by a
  retry that another retry, and the failure of the run it started, had overtaken
  (`Outrun`).
* Left out: 100-row batches and 10-page limits, contents of results and errors,
  tenants and permissions.

### SessionTokens

A request is a Postgres transaction at READ COMMITTED.  `rowLock` and `userLock`
are its row locks, released by `Release` when it commits or rolls back.

* `VerifyPassword` and `Issue` are the login; they are two transactions' worth
  of work with nothing locked in between (`auth/local_login.py`, then
  `RefreshService.issue`).
* `Present` reads the clock and sends `SELECT ... FOR UPDATE`; whichever of
  `ClaimToken`, `InProgress` and `DetectReuse` fits the row *once it is free*
  comes next.  `late` is the clock read before the wait.  `Mint` commits claim
  and successor together.
* `Logout`, `DetectReuse` and `SetPassword` end families: `StartUpdate` takes the
  statement's snapshot, `UpdateRow` reaches its rows in any order, waiting for
  locked ones and passing over those no longer active, `CommitEnding` commits.
  A password change holds the users row first (`LockUser`), because SQLAlchemy
  flushes the new hash before it executes the UPDATE.
* `GraceEnds` lets the 30 s after a rotation pass; `Rollback` ends a request
  that fails, expires or loses its connection.
* Left out: the access tokens and their revocation registry, cookies, OIDC, the
  expiry of refresh tokens (such a request ends like `Rollback`), other accounts.
* `over` and `proven` are history variables for `EndedStaysEnded` and
  `SessionsProvePassword`.

### CircuitBreaker

`Execute` and `Debug` pass `_raise_if_circuit_open` (or are refused), `TryAgain`
is the retry loop, `Succeed` and `Fail` are the two recordings.  Nothing of the
breaker is read in between, so the back-off needs no step of its own.  `Abandon`
is every way out that records nothing.  `WindowPasses` is the recovery window, which
passes over whatever calls are in flight and marks them `outlasts` (history): a tool's
timeout has no upper limit and its retries add up, so no call is shorter than a window.
A trial is `Standing` as long as no window has passed over it.  `lost` remembers that the
standing trial which held the reservation ended without a result; the next recorded
result clears it.  `failures` is counted up to
`Threshold`, since nothing tells larger counts apart.  The API process shares
one `ToolProxy`; a worker builds one for each job, and a conversation a new Dify
client for each request, so those breakers never count further than one call.

### KnowledgeDocs

A document lives in Dify (`up`, which moves on its own: `Indexed`) and as a row
here (`row`).  `docCount`, `counted` (how often a document's segments are in
`chunk_count`) and `aggregate` are the columns of the knowledge-base row.
`rowLock` and `kbLock` are the row locks of Postgres; what a transaction writes
stays in its request's record until it commits, and is computed from what its
statements could see.

* *Upload*: `CreateUpstream` in Dify, then `CreateRow`, one transaction.  Its first
  statement takes the knowledge-base row, so its steps cannot be told apart.
* *Observation*: `Observe` asks Dify for one document (a poll) or for the page (a
  listing), `Answer` is `_answered_status` over the page; then per document
  `Skip` or `Transition` (the guarded UPDATE), `Refresh` and `Write` (the fold: its
  subqueries are read when the statement starts, its row is written when that is
  free), `Count` (a listing asks Dify for the segments); last `Commit`, or
  `NothingToCommit`.
* *Retry*: `ReadFailed`, `Restart`, `Rewind`, then the fold as above.
* *Deletion*: `ReadTracked`, `DropUpstream`, `Retire`, `ReleaseCounts`.
* `Rollback` ends a request anywhere: a failed call, a dead process, a deadlock
  that Postgres resolves.
* Left out: the number of segments (`RecomputeCounts` has it), names, errors, events;
  the retrieval test.  Creating and deleting the base itself is in `Catalogue`.

### RecomputeCounts

The script is run by hand while the API serves.  `chunks` is `chunk_count` of each
knowledge base, `recorded` the status column of each document, `held` what Dify has,
`snapshot` the rows of `kb_chunk_count_snapshots`, `holder` the row locks of the jobs.

* *A run*: `ReadBases` and `ReadDocuments` (two queries, READ COMMITTED), a `Probe` per
  completed document in the order of the lists -- Dify's segments, nothing for a 404, or
  a failure that takes the base out of the run -- then `Plan`, an `Overwrite` per base
  that differs (a compare-and-set, whose row stays locked), and `Apply`, which commits
  totals and snapshot rows together.  `Stop` is a dry run, a refused login, a dead
  process or a deadlock victim.
* *A rollback*: `ReadSnapshot`, `Restore` per row with the same guard, `RestoreCommit`;
  `StopRollback`.
* *The API* in whole transactions: `RecordStatus` (a terminal status with its segments,
  or a retry), a deletion as `AskDelete`, `Drop` and `RetireRow` (its read of the status
  is as stale as in the code, its subtraction floored at zero), `EndDelete`,
  `DropDataset` and `DeleteBase`.  Each waits for a row that a job has locked.
* A document has a fixed number of segments, and those that completed before the
  accumulator shipped are missing from the first totals (`RecomputeInit`).  Documents
  uploaded meanwhile are those that start as indexing.
* `disturbed`, `grown` and `shrunk` are history variables: which bases' completed
  documents changed since a run listed them, and which totals rose or fell since a run
  read or wrote them.

### SignIn, RateLimit and LoginLockout

One caller's login bucket and one identifier's lockout, on several processes.
Time is counted in ticks (`Tick`): a bucket stores how many ticks ago it was
written, and refills when it is read.

* `Consume` is `_consume_login_budget`: `AcquireShared` is the Lua script,
  `AcquireLocal` the process's own bucket while Redis is avoided or has raised --
  before the script ran ("failed") or after ("lost").  `StartSso` is the same rule
  spent by the middleware for a redirect, `SweepBuckets` a request of another
  caller, which evicts idle buckets.
* `Refuse` is a request without credentials.  `CheckLock`, `Verify`,
  `RecordFailure`, `ClearFailures` are the awaits of `authenticate`, each with the
  reply Redis gives; between any two of them other attempts run.
* `late` is a history variable: how many passwords were verified, since a store's
  lock was set, by attempts which that store had let through.
* `Bucket(s)` is `TokenBucket` under a refinement mapping, for the shared bucket
  and for every fallback: its level is what the stored tokens amount to now.

### Directory and Members

A request is a transaction at READ COMMITTED: `BeginUpdate`, `TakeLock` (the
advisory lock; enabling an account takes none), `ReadMember`, `CountAdmins`,
`WriteMember`, which writes only the columns that differ from what was read;
`BeginReset` and `WriteReset`; `ChangeOwnPassword`; `Fail`.  A callback
(`_resolve_user`) is `Lookup` by subject, then `Rewrite` of the address or
`CheckHeld` and `Insert`, and `Resolve` after a conflict; a creation is `CheckHeld`
and `Insert`.  The unique constraints are the guards of `Insert` and `Rewrite`.
An administrator's authority is read when the request begins, as
`get_current_user` does, and not again.

### UploadPath, UploadSlots and ConsoleSession

* *Slots*: `Arrive` enters the user's table entry, `TakeUserPermit` and
  `TakePermit` the two semaphores, `GiveUp` is the deadline, which rolls back what
  was taken (`RolledBack`), `Parse` the body, `Disconnect` the watcher that
  releases the lease early, `Finish` the end of the handler.  A lease releases
  once.
* *Console*: `Call` goes out with the session there is, or waits for the login
  lock; `EnterLogin` and `AnswerLogin` are the login under it; `Serve` is Dify,
  whose sessions `Expire`; `ReceiveRefusal` is the 401 that clears the flag and
  logs in for one more try.  `Refresh` is the scheduled job.  Sessions are numbered
  in the order of logins.
* The handler calls the console (`Begin`) while it holds its slots.

### Catalogue

A request is a saga.  Registration is `CreateApp`, `MakeKey`, `InsertAgent`; a
failure is compensated by `Undo`.  Edits carry the version their client saw:
`ReadAgent` judges the status, `WriteAgent` compares version and liveness in its
UPDATE and replaces the bindings in the same transaction.  `Archive` commits, then
deletes the app.  Knowledge bases are created likewise (`CreateDataset`,
`MakeDatasetKey`, `InsertKb`, `UndoKb`) and deleted the other way round
(`BeginDrop`, `DropDataset`, `DropRow`, which takes the bindings along).  Each call
may be refused, or answered to nobody; `Crash` ends a request anywhere.
`faulted` remembers that an answer, a cleanup or a process was lost, `unsure` an
agent whose commit looked like a failure to its request.

### Chat

A turn is `Prepare` (or `PrepareDebug`), `Post`, then a line of Dify's stream at a
time -- `Text`, `Thought`, `MessageEnd`, `ErrorEvent`, `UpstreamEnds` -- each
followed by the `Relay` of the frames it became.  `Gate` is the approval a thought
may need: the task is committed before the frame goes out.  `MessageEnd` awaits the
handlers of `conversation.completed`, and so the run log, before its frame.  The
first message names the Dify conversation, which `Relay` commits before the frame.
`Leave` is a browser that stops reading, for whatever reason; the relay notices at
the next frame.  `Crash` is the server.  Several turns may overlap (`overlap`), each
with the row as its own session read it.  Contents are abstracted to `marks`.

### BrowserSession

One cookie jar and one Web Lock for all tabs; in each tab the state of its one
refresh, its access token, its page, and the stamp in its session storage.
`Start`, `Grant` or `PassLock`, `AgeOut`, `Send`, then `Land` of the answer or `CutOff`.
Requests (`post`) live on when their document is replaced (`Reload`, keepalive);
their answers still reach the jar, or are lost (`Drop`).  `Serve` is the endpoint
with rotation, window (`WindowEnds`) and replay as `SessionTokens` has them in detail.
`Login` and `SignOut` are `loginWithPassword` and `logout` of the page; the signal to the other tabs is taken as heard at
once.  Durations are left out: every bound may pass at any moment.  `history` remembers
three things: that a bound was passed or an answer went unheard (`mishap`); that a tab took
the lock of another tab's replaced document while its rotation was still under way
(`handover`), which is how a Web Lock dies with its document and no fault; and that a
successor reached no jar before its window ended, or a window ended on a replay that was
not answered yet (`late`).

## 3. Runs

Every run but `knowledge_counts` checks for deadlock as well; in `TaskDispatch` the only
state without a successor is one where all work is done, which `Rest` marks.  In
`RecomputeCounts` everything may be over: the jobs done, the knowledge base gone.

| Run | Checks | Shows |
|---|---|---|
| `dispatch_delivery` | `OneRunnerPerDispatch`, `DeliveredWasSent`, `MoveMatchesEvent` | Two requests, two workers, a job that waits while another delivery of it runs, the three scans, and two faults, so that a repair can fail as well: no dispatch runs twice at once, none is marked delivered that was never queued, and each worker announces the move it makes. |
| `dispatch_leases` | `OnlyHolderReleases`, `ImplementsLifecycle` | The lease of a running job may lapse while the scans send the job again, the deadline passes and a request approves, rejects or cancels: the old holder never frees the new one's lease, and the task only lives a legal life with the one outbox row of its approval. |
| `dispatch_retries` | `RerunsAreCounted`, `CallsAreAuthorised`, `ImplementsLifecycle` | Two requests race each other with everything the API offers (approve, reject, cancel, retry), through up to five executions of a task with a budget of two retries and two workers whose leases may lapse: no tool is called without an authorisation that won, the count keeps to the budget, every run is in it but the one a retry starts that another retry and its failure have overtaken, and each approval and each retry that wins adds exactly one outbox row. |
| `tool_calls` | `SingleTrial`, `RunnableSettles`, `OverdueRetires`, `RowsAreDelivered`, `AdmitsAgain` | What has to happen in the end, and the breaker of a tool: with two faults anywhere, every approved task settles, every overdue approval is retired and every outbox row is delivered; beside it, three calls of a tool of any length, any of which may end unrecorded, go on being admitted unless a trial was lost, and a trial is joined by another only after it outlasted a recovery window. |
| `session_rotation` | `OneActivePerFamily`, `NoWaitCycle`, `EndingIsThorough`, `ImplementsFamily` | Two requests on two sessions of one user -- logins, rotations, replays inside and outside the grace window, logouts, a password change -- leave each session at most one usable token, none after an ending that saw it, and never wait for each other. |
| `knowledge_counts` | `DocCountIsExact`, `CompletedIsCounted`, `CountedByTransition`, `RepairIsExact`, `OverwritesOnlyReturned` | Two documents of one knowledge base, under two requests at a time that may fail between two statements, and, in behaviours of their own, under whole requests beside a run of the recomputation and its rollback: doc_count is the number of rows, no row is completed without its segments, only a move into completed adds them, once; a run writes the sum over the completed documents unless they changed meanwhile, and neither it nor its rollback overwrites an increment unless the total fell back to the value expected. |
| `sign_in` | `LateGuessesBounded`, `BucketsAreIdeal` | Two processes, each with a password attempt under way, a Redis that answers, fails or loses its reply, keys that expire and fallbacks that are swept: a lock stops all but the attempts already past its check, and every bucket, shared or fallback, stays the token bucket it stands for. |
| `member_roles` | `AdminRemains`, `LandsOnOwn`, `RoleChangeLands` | Two requests at a time -- role changes, disablings, enablings, resets, creations, callbacks of the identity provider -- on a tenant of three accounts: an active administrator is left, a role change answered with success is in the row, and nobody lands on another's account. |
| `upload_path` | `SlotsConserved`, `RetryIsFresh`, `UploadsEnd` | Two uploads of one user on one process-wide slot, whose handlers share a console session that expires and is refreshed, while clients leave and calls fail: no slot is lost or given twice, a retry never repeats the refused session, and every upload ends. |
| `catalogue` | `LiveHasApp`, `NothingLeftBehind`, `OfflineStays` | Two requests that register, edit, publish, take down and archive an agent, create and delete a knowledge base, with refused calls, lost answers, failed cleanups and a crash: a listed agent has its app, nothing is left in Dify unless an answer, a cleanup or the process was lost, and an agent taken down stays down. |
| `chat` | `RecordedBeforeShown`, `OneTaskPerCall`, `HistoryIsWhole`, `ErrorIsLast` | Two turns of one conversation that may overlap, stream, ask for approval, break, be left by the browser or die with the server: the run log comes before the last frame, a call asks once, a turn leaves nothing behind after its error, and an answer is found in the history. |
| `browser_session` | `NoSelfConflict`, `SessionKept`, `SentAwayWhenOver` | Two tabs of one browser against the refresh endpoint, with reloads, requests that outlive their document, lost and late answers, a login and a sign-out: the browser conflicts with itself only after a bound was passed, an answer went unheard or a tab took the lock of another's replaced document, it is taken for a thief only after a cookie was lost or came too late or a replay met the end of its window, and a page goes to the login only when its session is over. |

A type invariant is a theorem and is in no run; so are `TrialInFlight` of
`CircuitBreaker` and `SnapshotIsUndoable` of `RecomputeCounts`.  `knowledge_counts` has
`KnowledgeDocs` and `RecomputeCounts` side by side (`MCKnowledgeDocs`), and `tool_calls`
has `TaskDispatch` and `CircuitBreaker` (`MCToolCalls`): they share no variable, so each
behaviour moves one of them and the other stays as it began.

*Bounds.*  `TaskDispatch` is checked with one task: no guard relates two tasks,
and they share only the queue, which is a bag.  Two workers with one waiting copy
of a job are what a duplicate delivery takes; two requests what a race between
decisions takes; one fault lets a crash meet the path that repairs it, two let a repair
fail as well.  No run has all of it at once; each leaves out what its properties do not
need:

* `dispatch_delivery` and `tool_calls` have the scans and two faults, and no live lease that
  lapses, which `OneRunnerPerDispatch` and `MoveMatchesEvent` need; one authorisation, no
  retries (`MaxRetries = 0`, `MaxDispatch = 1`): they are about one dispatch and what
  repairs it.  `tool_calls` has one request, which decides nothing in what must happen.
* `dispatch_leases` has the scans and one fault, which may be the lapse of a live lease, with
  one request, so the decisions that race are those of a request, the expiry scan and the
  workers; no retries either.
* `dispatch_retries` has two requests, a budget of two retries and `MaxDispatch = 5` rows, so
  that the count can be outrun and a later retry passes the budget in rows; leases may
  lapse, and there are no scans (`Replicas = {}`), so a job is sent again by RQ only.

Scans run on one replica; that several lose no row is the theorem `NothingLost`, for any
number of them, and each safety property is a theorem for every combination of these.
`SessionTokens` has two requests, which is what a rotation against a replay, a
logout or a password change takes; two sessions, so that a password change locks
more than one row and locks can be waited for in a circle; and four tokens, for
successors of both.  Races of more requests are the theorems `OneWinner`,
`ThoroughEnding`, `FamilyRefinement` and `NoCircleOfWaits`.  `CircuitBreaker` has three callers of any
length: a trial, an older call that outlasts windows, and one more; with `Threshold = 3`
all three failures make it open, and each call may be tried three times (`Attempts = 2`).  `KnowledgeDocs` has two
documents, so that a fold can miss one and a listing can hold a lock while it
waits for the next, two requests, and one restart of each document, after which a
failure observed before it is stale; more of each are the theorems.  `RecomputeCounts`
has one base with a document of one segment and one of two, so that a sum can be
partial and a subtraction can be floored, one run and one rollback of it, one deletion
at a time (`MaxDeletions`) and totals up to three (`MaxCount`), which all segments make;
several bases, runs, rollbacks and deletions are the theorems.  `SignIn` has
two processes with one attempt each, which is what an attempt past the lock check
and a shared store against a fallback take; its buckets hold one token, so that
every acquire is at a limit; other capacities, refills and numbers of processes are
the theorems.  `Directory` has three accounts, so that two administrators can
remove each other beside a third account, and `Busy = 2` requests at a time out of
two changes and two entries; the provider's identities share addresses with each
other and with the local accounts.  `UploadPath` has one process-wide slot and two
uploads of one user, so that each waits for the other while it shares the login
lock with it, and three sessions, so that a retry can be refused again.
`Catalogue` has one agent and one knowledge base, which is all its requests share,
three apps and two datasets, and two requests; more of each are the theorems.  `Chat` has two turns with one tool
call each: a turn reads nothing of another but the row, and two turns can overlap
there; more turns and calls are the theorems.  `BrowserSession` has two tabs, three
tokens, which is two rotations or a rotation and a login, one retry of a conflict
and one request that outlives its document; more of each are the theorems.  `MaxTokens`, `MaxChanges`,
`MaxDispatch`, `MaxCopies`, `MaxFaults`, `MaxRestarts`, `Busy`, `MaxSessions`,
`MaxVersion`, `MaxCalls`, `MaxToken`, `MaxOrphans`, `MaxCount`, `MaxDeletions` are the named bounds; each appears
in the guards it caps.  Symmetry is used only where nothing but safety is checked.

*Fairness.*  `TaskDispatch!Fairness`: a request or a job that is running goes on
(weak); each scan keeps ticking, as `create_scheduler` schedules it every 15 s
(weak); Redis expires leases and markers nobody renews (weak); a job waiting on
the queue is taken some time, although workers become busy and free again
(strong -- RQ serves its list in order).  Nobody owes a decision, so requests
start under no fairness.  `CircuitBreaker!BreakerFairness`: the window passes and each
attempt is answered or runs into its timeout (weak).  `UploadPath!Fairness`: each
task of the event loop goes on, the login lock serves its waiters in order, a wait
for slots ends at its deadline, a parse and a call at their timeouts, and a handler
makes finitely many calls (strong, since the lock is free and taken in turn, and a
handler between two calls may end or call again).

### Where the code and its words disagree

Each of these is a property of its module that no run checks, because the code does
not have it.  TLC finds the behaviour when the property is put as the only
`INVARIANT` of a configuration with the constants given here.

* **`RetryBudget`** with two requests (`Tasks = {t1}`, `Workers = {w1}`,
  `Requests = {r1, r2}`, `Replicas = {}`, `MaxRetries = 1`, `MaxDispatch = 3`,
  `MaxCopies = 1`, `MaxFaults = 0`, `LiveLeaseMayExpire = FALSE`).  `retry()`
  writes `retry_count = <value read> + 1` under a condition on the status alone
  (`services/task_service.py:244`).  A retry that spans a whole re-execution which
  another retry caused finds the status failed again, resets the count, and the task
  runs once more than its budget, which line 219 says it respects.  What holds however
  many requests race is `RerunsAreCounted` (`dispatch_retries`, and `RetriesAreCounted` for
  any number of requests, tasks and crashes): the count keeps to the budget, and every run
  is in it unless such a retry has won.
* **`SessionTokens!EndedStaysEnded`** (two requests, one family, `MaxTokens = 2`,
  `MaxChanges = 0`).  A logout's UPDATE whose snapshot is older than a rotation's
  commit waits for the rotated row, passes it over, and does not see the successor:
  the session lives on, although `auth/refresh.py:176` says "Revoke every
  still-active token in a family".
* **`SessionTokens!SessionsProvePassword`** (two requests, one family,
  `MaxTokens = 1`, `MaxChanges = 1`).  A login that verified the old password may
  open its session after the password change has ended the others;
  `auth/routes.py:362` says that the next login uses the new password.
* **`CircuitBreaker!TrialAlone`** (constants of `tool_calls`).  Any failure clears
  `half_open` (`services/tool_proxy.py:360`), also that of a call older than the trial, and
  makes the next window begin; a trial that outlasts it is joined by a second one, although
  line 352 says that the trial alone is admitted.  What holds is `SingleTrial` (and
  `OneTrial`): no two trials that no window has passed over.
* **`CircuitBreaker!HalfOpenMeansTrial`** (constants of `tool_calls`).  A
  trial that raises anything but a timeout or transport error (a tool without
  endpoint, a cancelled request) is not recorded, and the breaker refuses the tool
  until the process restarts; `services/dify_client.py:41` calls the same field "True
  while a single trial request is in flight".
* **`BrowserSession!PeersKeptOut`** (constants of `browser_session`).
  `src/apps/frontend/lib/refresh-channel.ts:3` says that the refreshes are "serialised across
  tabs by a Web Lock, so the tab never races itself into `TOKEN_REFRESH_IN_PROGRESS`", and
  that a stamp takes over when a lock dies with its document; `refresh-channel.test.ts:272`
  says that the stamp alone then keeps a peer out, and tests it within one tab.  The stamp is
  in session storage, where "no other tab can see it" (`refresh-channel.ts:32`), so another
  tab that takes the freed lock presents the cookie that is being rotated and is answered
  409, with no bound passed.  It tries again and finds the successor.
* **`KnowledgeDocs!AggregateIsFolded`** (constants of `knowledge_counts`).  The UPDATE
  that folds the documents into the aggregate waits for the knowledge-base row but
  has read the documents before (`repositories/knowledge.py:237`): two requests that
  change rows at once leave `indexing` with every document finished, or `ready` with
  one indexing, until the next change, although `services/knowledge.py:408` says that
  every transition re-folds it.  The recall test asks the rows as well, so it is
  refused in the first case and not let through in the second.
* **`RecomputeCounts!IncrementSurvives`** (constants of `knowledge_counts`; as the only
  `PROPERTY`).  The UPDATE compares the total with the value the plan read
  (`scripts/recompute_kb_counts.py:221`), not what made it.  A base whose one completed
  document, of two segments, predates the accumulator has a total of 0, which a run
  reads; a document of one segment completes and adds 1; the other is deleted, and the
  subtraction is floored at zero.  The total is 0 again, so the run writes the 2 it
  summed up, although the script's line 206 says that "an increment the API committed in
  between survives instead of being overwritten".  It takes a total that rose and fell
  (`OverwritesOnlyReturned`), and the next run repairs it.
* **`Chat!TurnsAreOnRecord`** (constants of `chat`).  Only `message` frames carry the
  Dify conversation's id to the row (`services/conversation.py:380`), and an agent
  app streams `agent_message`: its turns are never in the history, and each one opens
  a conversation of its own in Dify; line 284 says that a row without an id has
  exchanged no turn.

Smaller ones are part of the models:

* A cancel that commits between the worker's move to executing and its call is
  followed by the call, although `process_task.py:5` says that a cancelled task
  never runs; its outcome is then dropped (`ImplementsLifecycle`).
* After a lease that lapsed under its holder, the second delivery announces
  approved -> executing for a row that was executing already, although
  `process_task.py:233` takes the status it read for the status it moves from;
  `MoveMatchesEvent` holds where no live lease lapses (`dispatch_delivery`, and
  `MovesMatchEvents` for any number of requests and workers).
* `task_service.py:14` says that the claim keeps the reconciler from sending the
  same row twice: the request enqueues first and claims afterwards, so it may;
  what keeps the second delivery from running is the lease.
* A `failed` read from Dify before a retry can be recorded after it, and the next
  completion counts the same segments again; a deletion that read its row before
  a poll recorded the completion leaves the segments in `chunk_count`.  Only the
  recomputation script, run by hand, rebuilds that total (`RepairIsExact`).
* A run that asks Dify for a document which a deletion has just dropped counts nothing
  for it; if it commits before that deletion, the same segments are taken off twice and
  the total is too low until the next run.  `RepairIsExact` therefore speaks of bases
  whose completed documents nobody has touched since they were listed.
* The SET of a denied acquire drops the bucket's expiry (`rate_limit.py:42`): the key
  stays until a later grant gives it a new one.  No caller can tell (`BucketsAreIdeal`).
* "While locked the password is not verified at all" (`auth/login_lockout.py:5`) holds
  up to the attempts already past the check, which `LateGuessesBounded` bounds.  In the
  fallback an expired count adds up until the next sweep.
* A callback whose peer commits the same new identity between its two lookups is
  answered 409 for its own account, although `auth/routes.py:216` means to land there.
* A disabling that was answered with success may leave the account active, when an
  enabling, which takes no lock, commits in between: `RoleChangeLands` is about roles.
* A disconnect frees the slot while the handler, and the file it holds in memory, live
  on: the limit is one on clients that wait, not on memory.
* A 401 that is older than the last login clears the flag of the new session, so one
  more login follows than `dify_console.py:272` describes.
* `services/agent_service.py:92` says that a failed registration never leaves an orphaned app:
  a lost answer, a failed cleanup or a crash does (`faulted`).  A binding made while a
  knowledge base is being deleted goes with it, although its deletion refuses bound
  ones without `cascade`; the bindings of archived agents refuse it too.
* Two first turns that overlap open two conversations in Dify; the last commit wins,
  and the other turn is in no history (`overlap`).
* Frames that carry an approval are ignored by the browser's reducer; no component
  shows the pending approval in the chat.
* Dify's ping frames are dropped by the adapter, so a browser that hears nothing else
  for 30 s takes a live stream for a dead one.
* A refresh that is answered after a sign-out in another tab gives its own tab an
  access token that lives for its 15 minutes, although `lib/auth-channel.ts` says that
  such a tab converges with its next request.  A late answer to an older session may
  overwrite the cookie of a new login.

## 4. Proofs

All theorems hold for every value of the constants that meets the named
assumptions: `BoundsAssumption`, `LeaseValuesAssumption`, `NoneAssumption`
(`TaskDispatch`), `TokenBounds`, `NoneIsNew` (`SessionTokens`),
`BreakerAssumption` (`CircuitBreaker`), `DocsAssumption`, `NoneIsNobody`
(`KnowledgeDocs`), `RecomputeAssumption`, `GoneAssumption`, `JobsAssumption` (`RecomputeCounts`), `RateAssumption`, `RedisAssumption`, `SignInAssumption` (`SignIn`),
`MembersAssumption`, `DirectoryAssumption` (`Directory`), `UploadAssumption` (`UploadPath`),
`ChatAssumption` (`Chat`), `CatalogueAssumption` (`Catalogue`), `BrowserAssumption`
(`BrowserSession`).

| Theorem | States | Argument |
|---|---|---|
| `TypeCorrect` | `TaskDispatch` : `TypeOK` | inductive with `ProcessesOK`: a busy process knows its task, and a row it sends exists |
| `LeaseExclusion` | `OneRunnerPerDispatch`, if no live lease lapses | inductive `LeaseHeld`: a running job owns its dispatch's lease key, and a key has one owner |
| `Refinement` | `ImplementsLifecycle` | inductive `Intentions`: what a process is about to write is legal from what it read; then each step is a lifecycle step or a stutter.  Needs no assumption on leases: the conditional updates carry it |
| `NothingLost` | `DeliveredWasSent` | inductive `Trail`, hop by hop: only a written row is selected, only a sent row is queued, worked on or claimed.  For any number of replicas, requests and crashes |
| `Authorised` | `CallsAreAuthorised` | `Trail` leads a running job back to a written row; `Decided` -- a task with a row has been approved -- is inherited from the life cycle through `Refinement`'s step |
| `HoldersRelease` | `OnlyHolderReleases` | from `TypeCorrect`'s invariant, step by step: whoever deletes a key compares it with its own token first, and nothing else frees one but the time to live, which counts as a fault.  Needs no assumption on leases |
| `MovesMatchEvents` | `MoveMatchesEvent`, if no live lease lapses | inductive `SeenStands` on top of `LeaseHeld`, `Trail` and `Decided`: while a worker holds its lease, only itself moves its task out of approved and executing, so the status it has read stands until it moves it; a cancel is what its UPDATE then meets.  For any number of requests |
| `RetriesAreCounted` | `RerunsAreCounted` | inductive `CountsInBudget` (a retry writes one more than a count that was below the budget) and `RowsAreCounted`: an authorisation and its count are one commit, so an approval leaves one row and each retry adds one to both, unless it is written over a failed task with a count it did not read -- which makes the task `miscounted`.  For any number of requests |
| `SessionTypeCorrect` | `SessionTokens` : `TypeOK` | inductive with `LocksOK` |
| `OneWinner` | `OneActivePerFamily` | `IInv`: a transaction that will mint holds the lock of its still active token (`LocksOK`), so the successor replaces the only active one |
| `ThoroughEnding` | `EndingIsThorough` | from the same `IInv`: a row the UPDATE has passed is locked by it or no longer active, and locks last until the commit |
| `FamilyRefinement` | `ImplementsFamily` | with one active token per family, `Current` is that token; issue, mint and ending map to Login, Refresh and End, everything else to a stutter |
| `NoCircleOfWaits` | `NoWaitCycle` | `OrderInv`: in every session the usable token is the newest, a request's row locks are its own token and the rows of its snapshot it has already passed (`LocksInTurn`), the rows its UPDATE takes are one per session and newer than a replayed token (`RowsInTurn`), and an ending concerns one session unless it changes the password (`EndsInTurn`); in a circle, the request that waits for the last row would wait for a lock behind a later one (`LastToken`).  For any set of requests |
| `BreakerTypeCorrect` | `CircuitBreaker` : `BreakerTypeOK` | inductive as it stands |
| `TrialHoldsReservation` | `TrialInFlight` | from `BreakerTypeCorrect`'s invariant, step by step: every recorded end of a call clears the reservation, only an admission makes one, no window passes while there is one, and an end that is not recorded sets `lost` if it was the standing trial's |
| `OneTrial` | `SingleTrial` | inductive `TrialStands`: while a window has passed and the reservation is free, no trial stands.  An older answer that takes the reservation from a standing trial ends the window as well, so the next trial is let through only after another window, which the first one has outlasted |
| `KnowledgeTypeCorrect` | `KnowledgeDocs` : `TypeOK` | inductive with `StepsOK`, `LocksOK` and `CreatesOK` (`KnowledgeInvariant`) |
| `DocCountExact` | `DocCountIsExact` | a row appears with `CreateRow`, whose document has none (`CreatesOK`), disappears with `ReleaseCounts`, which holds it locked (`LocksOK`), and a `Commit` neither adds nor removes one |
| `CompletedCounted` | `CompletedIsCounted` | a `Commit` that completes a row adds its segments in the same step; segments leave only with their row |
| `CountedOnce` | `CountedByTransition` | a transaction writes only rows it has locked since it found them different (`LocksOK`), so two observers cannot make the same move |
| `RecomputeTypeCorrect` | `RecomputeCounts` : `RecomputeTypeOK` | inductive with `RecomputeInv` |
| `RepairsAreExact` | `RepairIsExact` | `ListOK` in `RecomputeInv`: in a base that is neither disturbed nor blocked, what a run has found and what is left to probe are together the completed documents, all of them held by Dify; the rows it has written are locked and were planned (`WriteOK`) |
| `OverwritesOnlyWhatReturned` | `OverwritesOnlyReturned` | `WatchOK`: a total that never fell since it was read and rose once is greater than what was read (`Band`), so the compare-and-set misses it; after it has matched, the lock keeps the total (`WriteOK`).  For a rollback, the same `Band` between a snapshot row and its total (`SavedOK`), and its lock (`RollbackOK`) |
| `SnapshotsCanBeUndone` | `SnapshotIsUndoable` | `SavedOK`: a snapshot row is of a base the run had planned to change and holds locked, and every later move of its total is told |
| `SignInTypeCorrect` | `SignIn` : `TypeOK` | inductive as it stands: a count reaches the limit only as a lock |
| `LateGuessesAreBounded` | `LateGuessesBounded` | inductive with `TypeOK` (`LockInv`): whoever sets a lock is past verifying, so fewer than all requests can still be late; each one that verifies moves from those past the check into the count, and a locked store lets nobody in |
| `BucketsImplementTheIdeal` | `BucketsAreIdeal` | `TokenBucket` by refinement: a stored bucket that expires or is evicted is full by then, as an absent one is (`RateAssumption`); a charge changes one bucket, or two when a reply is lost |
| `DirectoryTypeCorrect` | `Directory` : `TypeOK` | inductive with `DInv` |
| `AnAdminAlwaysRemains` | `AdminRemains` | `Safe` in `DInv`: a request about to write under the lock is spared by another administrator or takes none away (`Spared`), since it holds the lock and every step of another request is `Gentle` |
| `SignInsLandOnTheirOwn` | `LandsOnOwn` | `Lands` in `DInv`: the account a request has found or made carries its identity, and no step takes a row, its subject or its source away (`Kept`) |
| `RoleChangesLand` | `RoleChangeLands` | `Fresh` in `DInv`: a change of role holds the lock since it read the row, so the role it compares with is still there |
| `UploadTypeCorrect` | `UploadPath` : `TypeOK` | inductive with `UInv` |
| `SlotsAreConserved` | `SlotsConserved` | `UInv`: permits left and held are counted request by request; each step moves one request from one set to another (`Books`) |
| `RetriesAreFresh` | `RetryIsFresh` | `Refused` in `UInv`: while a caller waits for its second try and the flag is up, the jar holds a younger session than the one it was refused |
| `ChatTypeCorrect` | `Chat` : `TypeOK` | inductive with `TurnsOK`, which speaks of one turn at a time |
| `RunLogsComeFirst`, `CallsAskOnce`, `ErrorsEndTurns` | `RecordedBeforeShown`, `OneTaskPerCall`, `ErrorIsLast` | `TurnsOK`: what is in `out` has been logged or filed, and a turn with an error relayed is closed |
| `HistoriesAreWhole` | `HistoryIsWhole` | inductive `Histories`: without overlap at most one turn is open, the row names what it knows, and an answer is relayed only after the id is committed |
| `CatalogueTypeCorrect` | `Catalogue` : `TypeOK` | inductive with `IInv` |
| `AgentsKeepTheirApps` | `LiveHasApp` | `AppsInv`: no two agents share an app and a live one has one (`OwnApps`); an app a request is about to insert is in Dify and nobody else's, and one it is about to delete is no live agent's (`Owns`) |
| `NoOrphans` | `NothingLeftBehind` | `AppsExact` and `DatasetsExact` in `IInv`, while nothing was lost: each app has one owner, a row or a request (`SoleApps`), and each step hands it on; likewise the datasets, but for a base whose row is about to go |
| `TakenDownStaysDown` | `OfflineStays` | `Knows` in `IInv`: a request about to write has read the version it names, and a row that still has this version still has the status that was judged |
| `BrowserTypeCorrect` | `BrowserSession` : `BrowserTypeOK` | inductive with `BrowserInv` |
| `OneRotationAtATime` | `NoSelfConflict` | `Channel` in `BrowserInv`: until a bound is passed, an answer goes unheard or a lock is taken over from another tab's replaced document, there is one request under way (`OneAtATime`), its tab holds the lock or left a stamp, and no token it or the jar holds has been rotated, but by the answer that is to replace it (`OneRotation`) |
| `NeverTakenForAThief` | `SessionKept` | `Kept` in `BrowserInv`: until a successor or a replay is `late`, each successor is known to one answer (`OneBearer`), and a dead token that a jar or an unanswered request still holds is one of a session that is over (`NoneStale`), so a replay ends nothing |
| `LoginOnlyWhenOver` | `SentAwayWhenOver` | `RefusedWhenOver` in `BrowserInv`: a session that is over stays over (`ServerAges`), from the refusal to its landing |

`KnowledgeInvariant` goes by two lemmas: a request that goes on within its
transaction changes no table and at most takes a free lock (`Moves`), and one that
ends has written only rows it had locked, or the row of its own document
(`Finishes`).

The invariant of `BrowserSession` comes in two halves that do not need each other:
`Channel` (lock and stamp, until `mishap` or `handover`) and `Kept` (the endpoint, until
`late`).  So `NeverTakenForAThief` holds also in a browser whose tabs do race each other.

Two theorems have a hypothesis on the constants, `LeaseExclusion` and `MovesMatchEvents`,
and need it: two workers run one dispatch as soon as a lease lapses under its holder.

Every safety invariant and every action property that a run checks is a theorem.  Only
model-checked is liveness: `RunnableSettles`, `OverdueRetires`, `RowsAreDelivered`,
`AdmitsAgain` and `UploadsEnd` need fairness and ENABLED, which this prover does not
treat.

## 5. Not modelled, and what is next

Not modelled: the audit log (append-only, best effort, never read back), bootstrap and
migration (run once, under a lock, mostly checks of settings), request middleware and
error wrapping, dashboards, health and metrics, configuration and schemas, and the
pages and components of the frontend.  They keep no state that another part relies on,
or are wiring.  Of the components that are modelled, `PROJECT.json` says what is left
out; what would add most is:

1. `RescueGrace`: lease, rescue grace and queue wait against a clock (the grace is
   counted from `delivered_at`, a job may wait on the queue first).
2. `confirm_tool_call` of `services/conversation.py`, composed with `TaskDispatch`: a
   second way by which a conversation decides a task.
3. The one-shot state of the provider's login (`auth/state_store.py`), before
   `Directory`'s callback; the revocation registry of access tokens.
4. `BrowserSession` over `SessionTokens` in place of its short endpoint.
5. Proofs: how far `RetryBudget` can be passed by a given number of requests, and how
   many trials can overlap when each outlasts a window.

The runs stay few: a component, or a composition, gets one passing run for all its
properties.
