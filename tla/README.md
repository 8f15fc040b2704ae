# NextLib: a TLA+ development

NextLib joins a campus library system (SLiMS) to a cloud service. A PHP plugin on
the campus, *nextlib-agent*, answers signed requests and pushes a day's aggregate
numbers to the cloud; the cloud, *nextlib-cloud*, is a Next.js web tier with
PostgreSQL and Redis plus one worker process that consumes BullMQ queues. The
interesting part of it is not any single handler but that **several unsynchronised
actors write the same rows and files**: web requests against the worker, a cron run
against a command request, a push against a pull.

This directory models that part in TLA+, checks it with TLC and proves the main
invariants with TLAPS. Paths below are relative to the repository; `cloud/` stands
for `src/nextlib-cloud/src/`, `agent/` for `src/nextlib-agent/`.

## 1. Inventory

| Component | State it keeps | Operations | Interacts with | What makes it correct |
| --- | --- | --- | --- | --- |
| Historical backfill, `cloud/lib/backfill`, `cloud/app/api/v1/backfill`, `pull-now` | `backfill_jobs` rows, BullMQ queue, `tenants.last_pull_*`, `daily_stats_v2` | start, pull-now, cancel, worker loop, stalled redelivery | agent (`/daily-aggregate`), PostgreSQL, Redis | a row never claims more than was stored; jobs settle; outcomes are kept |
| Campus push path, `agent/exporter`, `agent/cron.php`, `agent/endpoints/AgentCommand.php` | `pending_exports.json`, `backfill_state.json`, `last_export.json` | export (v1, v2), retry queue, backfill range, lock | cloud aggregate routes | nothing is dropped unsent; the state file claims only what is stored |
| Cloud ingestion, `cloud/app/api/v1,v2/aggregate` | `daily_stats`, `daily_stats_v2` | insert once, 409 on a duplicate | agent | a day is stored once and acknowledged |
| Scheduled pull, `cloud/lib/scheduler`, `daily-stats-bulk` | daily-pull schedule, `daily_stats_v2`, `last_pull_status` | pull the last 7 days of every connected tenant | agent, pushes, immediate pulls | days that are over end with their final numbers |
| Tenant configuration, `cloud/app/api/v1/tenants/[id]`, `tenant-keys`, the connection pages | `tenants`, audit log, the `.env` on the campus | edit, disconnect, delete, new secret, key rotation, download, connection test | agent zip, dashboard, pushes | nothing unlogged, no lost update, a download that works |
| WhatsApp sessions, `session-manager`, webhook, session card and QR scanner | `whatsapp_sessions`, the engine's device, the pages | init, connected, disconnected, disconnect, polling | Gowa engine | the row follows the device |
| WhatsApp messages, `message-queue`, `message-worker`, `conversation-context` | `wa-incoming` queue, Redis contexts, log | enqueue once, process by five handlers, retry | Gowa, language model, agent | one answer per message, no lost context |
| Dashboard panels, `components/analytics`, `message-stats`, knowledge base, with their routes and the agent's query endpoints | what each panel displays, requests in flight | select, retry, repeat, reopen, change an entry | PostgreSQL, agent | the data displayed are those selected; a list and its totals agree |
| Anomaly flags, `anomaly-detector`, `recompute-anomalies`, `AnomalyTagger.php` | `daily_stats_v2.anomaly_flags` | flag at a push, reset at a pull, recompute | rows of the days before | the flags are those the rules give |
| Rate limit, `cloud/lib/rate-limit.ts` | Redis counter | count in a window | every protected route | not modelled |
| Authentication, `hmac`, `crypto`, `tenant-guard`, `TokenValidator.php`, `auth/session` | tokens, sessions | sign, verify, log in and out | every request | not modelled (section 6) |
| Loan extension, `agent/endpoints/ExtendBook.php` | `loan.due_date` | read, then write | proxy | not modelled |
| Tenant creation, export of statistics, packaging, proxy, layout and static pages | none that another part races for | | | not modelled |

Hard behaviours: every `await` in a route or in the worker is a point where another
request, the worker or BullMQ runs; the worker may die between any two of them and
its job comes back; an HTTP call may take effect and its answer be lost; PHP
processes share JSON files with nothing locked; a write to such a file may fail
without anybody looking. `PROJECT.json` lists the hazards at their lines.

## 2. Modules

| Module | What it is |
| --- | --- |
| `Backfill` | historical backfill: rows, queue, requests, worker, faults |
| `BackfillLedger` | what backfill promises, without any of that machinery |
| `AgentPush` | campus push path: exporter, retry queue, backfill engine, cloud ingestion |
| `RetryOutbox` | what the retry queue promises: a bag of owed items and the two ways one leaves it |
| `WaMessages` | WhatsApp messages: webhook, queue, concurrent handlers, conversation context |
| `ReplyService` | what the message pipeline promises for a message id: bounded runs, and what one run may say |
| `DailyStats` | the values of a day and everybody who writes them: push, scheduled pull, immediate pull |
| `TenantConfig` | a tenant's row, audit log and credentials, the requests that change them, the campus's copy |
| `WaSession` | the session row, the engine's device and events, the pages that connect and disconnect |
| `Panels` | the dashboard's fetching panels, their routes and the agent's endpoints behind them |
| `AnomalyFlags` | the rules of cloud and agent, and the three writers of the flags |
| `MC...` | the instances for TLC |
| `...Proofs` | for each of the eight: inductive invariants and theorems |

The modules meet in shared state. `daily_stats_v2` appears three times, each time for
what another module leaves out: as the set of stored days (`Backfill`), as numbers
that age between a reading and its storing (`DailyStats`), as flags next to settled
numbers (`AnomalyFlags`). `SessionCreated` of `WaMessages` is the first insert of
`WaSession`; `Push` of `TenantConfig` is the accepted send of `AgentPush`.

### 2.1 Backfill

One action is the code between two awaits. A caller is a web request in flight; its
record holds the locals that survive an await.

| Code | Model |
| --- | --- |
| `backfill_jobs` (`db/schema.ts` 251-276) | `rows`; a job id without a row has status `absent`; dates are day numbers, NULL is 0 |
| start route: validation, look for an active job / insert / add | `StartCheck`, `StartInsert`, `Enqueue` |
| pull-now in mode `backfill` | `PullNowInsert`, `Enqueue` |
| cancel route: by id / running, then pending / write | `CancelById`, `CancelLookRunning`, `CancelLookPending`, `CancelWrite` |
| a request that dies at an await | `RequestAborted` |
| worker: tenant read and `running` / poll / pull / upsert / flush / pull status / final update | `WorkerStart`, `WorkerCheck`, `WorkerPull`, `WorkerStore`, `WorkerFlush`, `WorkerReport`, `WorkerFinish` |
| `buildChunks` | `ChunkEnd` and the cursor of the worker |
| a rejected handler (attempts 1) | `HandlerThrows` |
| BullMQ: hand over, complete, stalled check; a dead worker | `WorkerTake`, `WorkerAck`, `StalledCheck`, `WorkerCrash` (external) |

The columns that no property tells apart (errors, timestamps) are left out. A
request that validation turns down changes nothing and is no step. The branches of
the handler for a missing key and a missing tenant are left out: `worker.ts` refuses
to boot without the key, and the foreign key keeps a tenant that has a job.

### 2.2 AgentPush

A process is a cron run or a web request that carries an agent command. Reading a
file is one step and renaming the new contents over it another, because nothing is
held in between.

| Code | Model |
| --- | --- |
| `EnhancedExporter::export` | `BeginExport`, `Send` for v2 and then v1, `AfterExport` for what the caller does with the result |
| `sendPayload` with the cloud routes | `Post` and `Answers`: stored and acknowledged (200, or 409 when the day is there), stored with the answer lost, or neither |
| `RetryScheduler::enqueue` | `EnqueueRead`, `EnqueueWrite` |
| `processRetryQueue` | `GetDueItems`, `Retry` (highest index first) |
| `markSuccess`, `markFailed` | `MarkRead`, `MarkWrite` |
| `BackfillEngine::start` | `BackfillLock`, `BackfillInit`, `BackfillBatch`, `BackfillHalt`; `exportBatch` is the `backfill` case of `AfterExport` |
| `readQueue`, `readState` / `writeQueue`, `writeState` | `Readable` / `Written` |
| cron.php, commands `trigger_export` and `backfill`; a killed process | `Cron`, `TriggerExport`, `Backfill`, `Killed` |

With one process the queue implements `RetryOutbox`. The mapping (`Outbox`) forgets the
order of the file, the indices and the process's copy, and keeps how often each item
is there (`Copies`): a bag, because one payload can be queued twice. An item is settled
when the cloud has its payload, fails once more with its attempts counted by one, or
is given up at the last attempt; what else could happen to it in the code (an index
that has moved, a copy that is stale) would be a step the outbox does not have.

Backoff delays are abstracted to "any queued item may be due". A command's dates are
not checked for their order by the code, so `Backfill` takes any two days.

### 2.3 WaMessages

One worker process runs up to five handlers at once. A handler's record holds the
message and, inside `addMessage`, the context as it was read. A call that fails and
a crash of the worker draw on one budget, `MaxFaults`.

| Code | Model |
| --- | --- |
| webhook, `waIncomingQueue.add` with `jobId` | `Webhook`, `Add` |
| session lookup / answer and send / log rows | `Lookup`, `Send`, `Log` |
| `addMessage`, first for the sender's message, then for the answer | `AddRead`, `AddWrite`, `Trimmed` |
| the catch block: apology, throw again | `Apology` |
| BullMQ: hand over, complete, retry with a delay, stalled check, `removeOnComplete` and `removeOnFail` | `Take`, `Complete`, `Retry`, `Promote`, `StalledCheck`, `Forget` (external) |
| a dead worker, an expired context, `initSession`'s insert | `WorkerCrash`, `ContextExpires`, `SessionCreated` |

`getContext` and `processMessage` change nothing and throw nothing (every path of
`intent-handlers.ts` and `llm-client.ts` catches), so composing the answer is part of
`Send`. The queue has no order: the rate limiter, the delays and the five handlers
leave none to rely on. An event names its device by the tenant's id or by the
phone's JID; with a JID the lookup throws, because `tenant_id` is a `uuid` column
and PostgreSQL does not compare it with such a string. Group and empty messages are
no step, and a message without an id (the webhook makes one up) is a new message.

`trail` and `answered` are history variables: what the sender and the log have seen
of a message since BullMQ last forgot its id, and which messages were ever answered.

The pipeline implements `ReplyService`, in which a message goes through phases and
there are no handlers, contexts, delays or attempts counted apart from stalls. `Phases`
reads the phase from the job's status and, for an active one, from where the handler
is that has it: `read`, `write` and `return` are one phase (the run is settled), and
an active job without a handler is lost. Said once, in one place: a run answers at
most once, logs only what it answered, apologises at most once and only if it failed,
completes only when it logged or found no session, and ends by itself at most
`Attempts + MaxStalled` times.

### 2.4 DailyStats

The days of a behaviour pass one after the other and a day's number grows while it
lasts. A reading and the statement that stores it are two steps, so a reading can be
stored after a newer one. The pull and the push do not compute every column alike, so a
day has two numbers: `loans` stands for the columns both compute in the same way,
`visitors` for those each computes in its own. The campus keeps `loans`, the visitors
of `visitor_log` (`logged`, which the pull counts) and those of `visitor_count`
(`counted`, which the push counts), and they grow apart. The columns this leaves out
are listed in section 6.

| Code | Model |
| --- | --- |
| loans and visitors on the campus, the calendar, the job scheduler | `Visit` (external), `NextDay` |
| `runScheduledPull`: list of tenants and window / agent call / upsert / status / catch block / end | `ScheduleStart`, `SchedulePull`, `ScheduleUpsert`, `ScheduleReport`, `ScheduleCatch`, `ScheduleEnd` |
| a dead worker and BullMQ's redelivery | `ScheduleCrash` |
| pull-now in mode `immediate`; a chunk of a backfill does the same to a day | `PullNow`, `PullNowUpsert`, `PullNowReport` |
| `DailyAggregate.php`: the days with activity | `PulledDay`, `HasActivity`, `Answer` |
| `MetricsCollector.php`: the numbers of a push | `PushedDay` |
| `bulkUpsertDailyStatsV2` | `Upserted` |
| `POST /api/v2/aggregate` | `PushBegin`, `PushInsert` |

`ScheduleStart` assumes that no answer of an earlier day is still on its way when the
run begins. The run is scheduled two hours after the day turns and an agent call ends
within its timeout of a minute, so the guard is what the clock gives; it is the only
real-time assumption of the module.

What is claimed of a day (`Exact`) is that a stored row has the campus's number in the
columns both compute alike, and that a day which the pull finds active is stored with
everything the pull says of it. Nothing is claimed of the visitors of a day that only
the push finds. The campus's numbers only grow, and only while their day lasts:
loans and visits that are entered late or deleted in SLiMS are left out.

### 2.5 TenantConfig

One tenant, because no statement here reads or writes two. A caller is a browser page
or API client with at most one request in flight; `form` is the row as its page was
rendered.

| Code | Model |
| --- | --- |
| GET, the pages that render the row | `Load` |
| connection editor: form, public key and download | `Save`, `Credentials`; with the test button, `Editor` |
| disconnect and delete buttons of the lists | `Disconnect`, `ListButtons` |
| PATCH: read and optimistic check / a log row per field / update | `PatchRead`, `PatchAudit`, `PatchUpdate` |
| regenerate-secret, rotate-keypair: update / log row and answer | `Regenerate`, `RegenerateAnswer`, `Rotate`, `RotateAnswer` |
| agent-zip: read / secret / key pair / log row, archive, answer | `ZipRead`, `ZipUpdate`, `EnsureKey`, `GenerateKey`, `ZipAnswer` |
| test-connection: read / key pair / probe / status / log row | `TestRead`, `EnsureKey`, `GenerateKey`, `Probe`, `TestUpdate`, `TestAnswer` |
| DELETE: look / v1 rows / tenant | `DeleteCheck`, `DeleteRows`, `DeleteTenant` |
| a statement that fails, a request that dies; a tenant gone under a request | `Aborted`, `Orphaned` |
| the operator installs an archive or a secret; an accepted push | `Install`, `Push` |

The editor sends the status its page was loaded with and never `expectedUpdatedAt`;
`PatchIfUnchanged` is a client that does. `updatedAt` is a number, so two writes in
the same moment are taken to be told apart. `good` and `alone` are history variables:
the last download overlapped no other request for credentials.

### 2.6 WaSession

The row, the device and the pages change apart. A request reads the row, calls the
engine and writes the row in three steps; an event is read and stored in two.

| Code | Model |
| --- | --- |
| `initSession`: look / `gowa.login` / update or insert | `RequestQR`, `InitLogin`, `InitStore` |
| `disconnectSession`: look / logout / update | `Disconnect`, `Logout`, `DisconnectStore` |
| webhook events `connected`, `disconnected` | `HookRead`, `HookStore` |
| session card: connect, reload, refresh | `Open`, `Load`, `Rendered` |
| QR scanner: its interval and the answer of a poll | `Poll`, `Heard` |
| the engine and the phone (external) | `Scan`, `Unlink`, `Expire` |

Two facts about the engine are assumptions, because its code is not in the
repository: it emits a disconnected event when a device is logged out, and it refuses
to log in a device that is connected. Events are delivered in any order, and one that
is lost or overtaken counts as a fault, like a failed call.

### 2.7 Panels

The panels differ in a few decisions, not in structure: what they do with a late
answer, an error, an interval, a retry button. A profile records these for each
panel (`AnalyticsPanel`, `ActivityPanel`, `DeadStockPanel`, `TopBooksPanel`,
`CollectionPanel`, `MessageStats`, `KnowledgeBasePage`), and the initial state picks
one. A row is a number and an answer the sets of the rows its statements read.

| Code | Model |
| --- | --- |
| the effect that depends on the selection, with its cleanup | `Select`, `RemainingCalls` |
| a tab that is left and opened again | `Reopen` |
| retry button, interval, save/toggle/delete of an entry | `Retry`, `Repeat`, `Act` |
| `then`, `catch`, `finally` of a fetch | `Deliver`, `DeliverError` |
| `stats/route.ts`: series, then totals | `StatsRead` |
| `callAgentAnalytics` | `AgentRequest` |
| `CollectionStats.php`: classes, headline totals, types | `CollectionStats` |
| `MemberActivity.php`: loans of the months, active members | `MemberActivity` |
| `TopBooks.php`, `DeadStock.php`, as one read each | `TopBooks`, `DeadStock` |
| statistics and entries of WhatsApp | `MessagesRead`, `EntriesRead`, `EntryChanged` |
| a request that fails; rows that others store meanwhile | `Fail`, `Store` |

A selector that is not drawn cannot be used (`selects`): the member-activity panel's
error replaces its selector, so that only reopening the tab helps. What of the data at
hand a panel draws depends on its state (`draws`): most draw data or else a skeleton or
an error, `DeadStockPanel` draws its summary cards in every state and its list beside
an error, and `TopBooksPanel` its list beside an error. In these states the two show
what the selection before had, under the new selection's label, and
`DisplaysSelection` states that as an exception, next to the answer of a retry.

`ListAgreesWithTotals` compares statements only where they read the same rows: series
and totals of the stats route, classes, totals and types of the collection, loans and
active members of the member endpoint. It does not speak of `TopBooks.php`, whose list counts
a loan once for each author and whose total counts it once (81-86, 114), of `DeadStock.php`, whose
list is limited and whose summary is independent of it (83, 112), or of the members'
total, which is another table (196) and which the code itself guards with `max(0, ...)`.
The claim is for rows that are added between the statements, not for deletions.

### 2.8 AnomalyFlags

The numbers are settled (how they age is the subject of `DailyStats`), the flags are
not: a day of the campus has the numbers a push sends (`own`), the visitors a pull
counts (`logged`), the loans that are out (`lent`, which a pull stores as overdue) and
whether the pull finds it active at all (`active`, any of the eight keys of
`dayHasActivity`). `PushFlags` and `PushInsert` are the v2 route, `Pull` the upsert that empties the
flags it meets, and `ScriptStart`, `ScriptRead`, `ScriptFlags`, `ScriptUpdate`,
`ScriptDone`, `ScriptFail` the maintenance script. `Rules` are `applyRules` with the
baselines of `loadBaselines` (a mean is compared without dividing, so no rounding is
involved), `DetectAnomalies` the agent's rules which the cloud's were ported from.
`SpikesHaveHistory` speaks of loans only: a pull may replace the one day on which a
spike of visitors or of late loans rests by a row with 0.

## 3. Runs

Of the passing runs only `session` and `anomalies` check for deadlock; the others have
`CHECK_DEADLOCK FALSE`, because their systems may stop when nobody sends a request and
the bounds are used up.

| Run | Instance | Shows |
| --- | --- | --- |
| `safety` | 1 tenant, 2 jobs, 2 requests in flight, 2 crashes, 1 database error | `TypeOK`, `ProgressIsBacked`, `CompletedIsComplete`, `ImportedWithinTotal`, `DeliveredHasRow`, `SingleDelivery`, `OutcomeIsKept`, and `LedgerSpec`: `Backfill` implements `BackfillLedger` |
| `liveness` | 2 overlapping ranges, 1 crash, no database error, fairness | `QueuedJobsSettle` |
| `push_queue` | 1 process at a time, cron and commands, 4 runs, failing writes, 1 kill | `TypeOK`, `OutboxSpec`: implements `RetryOutbox` |
| `push_backfill` | 2 processes, backfills and commands, failing reads and writes, 1 kill | `ResumePositionIsBacked`, `ReleasedIsComplete` |
| `wa` | 2 messages of 1 sender, 2 handlers, 2 deliveries of each event, 1 fault, fairness | `TypeOK`, `CompletedIsAnswered`, `RepliesAreBounded`, `ContextIsTruthful`, `MessagesSettle`, `ServiceSpec`: implements `ReplyService` |
| `daily` | 2 tenants, 4 days, lookback 4, 1 client, 1 agent process, up to 1 loan and 1 visitor of each table on the first day of one tenant, 2 faults, fairness | `TypeOK`, `OkWindowIsExact`, `ClosedDaysBecomeFinal` |
| `tenant` | 2 callers, 3 bodies and every loaded status, 2 moments at which the row is written, 1 fault | `TypeOK`, `AuditCoversRow`, `CheckedReadIsFresh`, `DownloadWorks`, `RetiredStaysRetired` |
| `session` | 2 pages, 2 scans, 1 fault, fairness | `TypeOK`, `ConnectedIsOn`, `OnlyLateWritesHide`, `PollingSeesConnection` |
| `panels` | 7 profiles, 3 selections of 2 tenants, 2 requests in flight, 3 changes, 1 stored row, 1 failure, fairness | `TypeOK`, `DisplaysSelection`, `ListAgreesWithTotals`, `LoadingEnds`, `MessagesCatchUp` |
| `anomalies` | 4 days of 3 kinds (81 campuses), a window of 2, 1 push at a time, a pull of days 2 to 4, the script for 2 filters, 1 fault | `TypeOK`, `RecomputedFlags`, `SpikesHaveHistory`, `AgreesWithTagger` |

Two runs expect a violation. Each shows where the code does something else than a
comment of the repository says; `LeavesDeliveredOrExhausted` of `push_lost` is what
`OutboxSpec` of `push_queue` says of a payload, on an instance with two processes.

| Run | Refutes | In short |
| --- | --- | --- |
| `cancel` | `CancelSticks` | the worker writes `running` or a final status over `cancelled` |
| `push_lost` | `LeavesDeliveredOrExhausted` | two processes write the retry queue over each other |

**Bounds.** `MaxDay = 4` with `ChunkDays = 2` gives a job a first, an inner boundary
and a last chunk; the active days (1, 2 and 4) make one chunk full and one partial,
and `<<3, 3>>` is a one-day range that starts inside another. Two jobs suffice for
every property of a pair of jobs: a property never speaks of three. Two callers
suffice for a race between two requests; the worker is single (`CONCURRENCY = 1`).
Two crashes with `MaxStalled = 1` cover both outcomes of the stalled check. In
`AgentPush`, three days with batches of two give a full and a short batch,
`MaxRetries = 2` both outcomes of a failed retry, four runs a queue with two items
and two passes over it. `OutboxSpec` is checked with one process
because it is false with two (`push_lost`), and with reads that succeed because a
failed read makes the queue empty by itself (`RetryScheduler.php` 241).

In `WaMessages` two messages of one sender and two handlers give every interleaving
of two read-modify-writes of one context; `MaxMessages = 2` is half of what two messages
add, and entries are added one by one, so that trimming cuts a pair. Two attempts with one fault, and
with lookups that always fail because an event names its device by JID, reach every
end of a job; two deliveries repeat an event while its id is known and after it was
forgotten.

In `DailyStats` the first day is the one that is read half-way; with a lookback of
four it lies in the windows of three runs after it has ended, of which two faults may
ruin two. (With as many faults as such runs `ClosedDaysBecomeFinal` is false: the code
heals only what its lookback meets.) Two faults and two tenants are also what it takes
for one tenant's catch block to throw and to end the run before the other tenant's
turn. One loan and one visitor of each table are enough for a reading that is too low
and for visitors that only one side sees. In `TenantConfig` two writes of the row are enough for a
read that is stale by one write (one body sets the status to connected, so that the
list offers its button within them), and every property but `RetiredStaysRetired` relates
one request to one write of another. In `WaSession` one fault is a lost event, an
overtaken one or a failed call; a second scan reconnects a session that was
disconnected. In `Panels` three changes let an answer be late for the selection
before last, whichever of them reopened the tab. In `AnomalyFlags` the three kinds of
day are chosen around the thresholds: exactly twice the loans (no spike), three times
the visitors and four times the late loans (spikes).

**Fairness.** `Backfill!FairSpec`: weak fairness of the worker's steps, because the
worker process is restarted by its supervisor and a handler is one chain of awaits
that each return (the agent call has a timeout, `agent-client.ts` 217); weak fairness
of the stalled check, which BullMQ runs on a timer. No request is ever owed. A
crash is bounded by `MaxCrashes`, at most what BullMQ redelivers: past that it fails
the job and nothing touches the row again. `AgentPush!FairSpec`: a started process
takes its next step unless it is killed. `WaMessages!FairSpec`: handlers run on (the
engine and agent calls have timeouts), BullMQ hands out waiting jobs, ends delays and
runs its stalled check; webhook calls, expiry and forgetting are not owed.
`DailyStats!FairSpec`: days pass, the scheduled run and a started request go on;
visitors, pushes and requests of users are not owed. `WaSession!FairSpec`: handlers
of requests and events run on, and a scanner's interval fires; scans and clicks are
not owed. `Panels!FairSpec`: a request is answered (`queryAgent` has its timeout, the
other routes wait for the database only) and an interval fires; the user owes
nothing.

## 4. Proofs

TLC checks small instances; the theorems hold for every number of tenants, jobs,
requests, processes (one in `QueueLosesNothing` and `ImplementsOutbox`), pages, days and messages, any
calendar, window, chunk and batch size and any number of faults, from each module's
assumption about its constants alone (numbers of the right kind, sets that contain
what the code names; TLC evaluates them in every run).

`BackfillProofs` proves `TypeOK`, `ProgressIsBacked`, `CompletedIsComplete`,
`ImportedWithinTotal` and `DeliveredHasRow`. None of them is inductive: they speak of
rows, and a row is written from the worker's locals. The inductive invariant `IInv`
says of the locals what the properties say of rows:

- where the cursor is: at a chunk boundary within the range of the job at hand, with
  `lastProcessedDate` below it;
- while no chunk has failed, every active day below the cursor is stored (in `store`
  the chunk at the cursor is what is about to be added), so whatever a flush writes
  is backed;
- `totalDaysImported` is at most the number of days below the cursor, so that it can
  never exceed `totalDays`, which the row fixes at its creation;
- every job in the queue, with the worker or stalled has a row, and what the locals
  of a request name exists, because ids are inserted before they are enqueued and
  rows are never deleted.

A redelivered job starts with fresh locals over a row with old progress; the row
keeps its own conjuncts until the first flush replaces all three of its columns at
once, which is why the invariant must speak of the row and of the locals separately.

Three more results rest on `IInv`. `DeliveryInv` follows a job's one delivery from the
request that inserted its row to the wait list, the worker and the stalled set: a
request that has not enqueued yet holds a job nobody else has, and a job that was
never redelivered has not run before. That gives `SingleDelivery`, and `OutcomeIsKept`
from the last part: `WorkerStart` meets an outcome only in a redelivery.
`ImplementsLedger` proves `LedgerSpec`. The mapping (`Assigned`, `Claimed`, in
`Backfill`) reads a row's claim from its own columns, so only the steps that write
these columns or the stored days need an argument: the inserts are `Open`, the upsert
is `Store`, the two progress writes are `Claim` or `Retract` (the prefix they claim
ends inside the range because the handler's `lastProcessedDate` is behind its
frontier, and is stored because `ProgressIsBacked` holds after the step), and every
other step stutters.

`AgentPushProofs` proves `TypeOK`, `ResumePositionIsBacked` and `ReleasedIsComplete`
along the same line: `ProcOK` says of a process that the days it has done are in the
cloud, and that a v1 send in a two-version configuration follows a stored v2. The
cloud only gains payloads (`StoredGrows`), so a step of one process keeps what holds
of the others, and a write of the state file transfers a `ProcOK` fact into the file.
That argument needs no lock: it is why two backfills that both pass the lock check
(two steps in the code, `BackfillLock` and `BackfillInit`) can still not make the
file lie. `QueueLosesNothing` proves `LeavesDeliveredOrExhausted` for one process and
reads that succeed, the two conditions without which it is false. `CopyInv` says that
the process's copy of the queue is the queue, that every item it still has to try is
where it remembers it, below the one it is marking (the code goes down from the highest
index, so a removal moves none of them), and that an item marked as sent is in the
cloud. `ImplementsOutbox` proves `OutboxSpec` under the same two conditions. The mapping
counts, so the lemmas `CopiesAppend`, `CopiesWithout` and `CopiesExcept` say what the
three ways to write a sequence do to the number of places of a value; the second maps
the places of the shorter sequence one to one onto those of the longer one. From them
`OwedMarked` shows that `markSuccess` and `markFailed` are exactly one of `Settle`,
`Fail` and `GiveUp`, by `FileIsKept`: no item in the file has used up its attempts.

`WaMessagesProofs` proves all safety properties of `WaMessages`. `MessageOK`
relates a message's trail to its job: replies are counted against the runs BullMQ has
ended (`attempts + stalls`), plus one while a run is not yet counted. `HandlerOK`
carries the same counts through the steps of a run (before the send they are one
lower) and says of the context a handler has read that it is truthful; since
`answered` only grows, a context read long ago is still truthful when it is written,
which is why the lost update in `addMessage` loses entries and never invents one.
`Exclusive` says that no two handlers have one message. Every step changes one
message and the handler at work on it; `MessageStep` proves that shape once and each
action is an instance of it. `ImplementsService` proves `ServiceSpec`. A step of a run
moves the phase of one message (`GoesOn`, `GivesBack`, `FreeMoves`), because by
`Exclusive` and `HandlersOK` the handler that has a message is the only one and its
job is active; the bound on the runs is the part of `MessageOK` on attempts and stalls,
and `ForgottenIsNew` says that BullMQ counts anew when it has forgotten an id. A crash
is one step of the service for all messages at once.

`DailyStatsProofs` proves `TypeOK` and `OkWindowIsExact`. The property speaks of days
that are over, and a reading is right about exactly those: `PullOK` says of a reading
made on day *r* that an active day before *r* in it is what the pull says of that day for
good, and that it never has more loans than the campus. What is left to show is that
nothing in flight was read before the last run that ended ok, which is `okDay <= readOn` in `PullOK` and the part of `RunOK` about the
clients; it is where the guard of `ScheduleStart` is needed. A push inserts only where
no row is, and a day that is exact and has no row is one the pull finds without
activity; its loans are 0, so `PushOK` makes the pushed loans 0 as well. Its visitors
may be any number, because the push counts another table, which is why `Exact` does not
claim them.

`TenantConfigProofs` proves everything the run checks. Its `NextIsSteps` reduces the
buttons to the requests they send. `AuditInv` follows a PATCH: each field it will
write is logged or still to be logged. `FreshInv` makes `updatedAt` a name of the
fields: two forms with the row's version have the row's fields, and the version a
PATCH is about to store belongs to nobody else. `CredInv` says that a request for
credentials that is `alone` has the field to itself. Most actions touch none of that
and are dealt with at once (`Quiet`, `Unrelated`).

`WaSessionProofs` proves `TypeOK`, `ConnectedIsOn` and `OnlyLateWritesHide`.
`OrderInv` strengthens the first: while no event is lost, a disconnected device has a
disconnected event last on its way, in its handler, or stored. `LateInv` says that a
request about to write next to a connected device is late or had a failed call.

`PanelsProofs` proves `TypeOK`, `DisplaysSelection` and `ListAgreesWithTotals`.
`SelectionInv` says that in a panel that drops late answers every request that still
has a listener is for the current selection or comes from the retry button; the data a
panel holds are then those of the selection whenever it is neither loading nor in
error, and the panels that draw nothing else in these two states have no exception to make. `ListInv`
says of the statements that read the same rows that what an earlier one has read is
still there at a later one, since rows only come in between.

`AnomalyFlagsProofs` proves everything its run checks. `RepairInv` holds while no row
is stored: the days the script is done with are right, and so are the row and the
flags it holds. The other two are about values of sums, which are folds over sets. The
induction they need is made on the sets themselves: a sum that disagrees with its
recursion somewhere does so at a smallest set (`SmallestSet`, from the well-founded
order of strict inclusion among the finite sets), where taking out one element gives
the contradiction. That yields `SumOfEquation`: a sum is any one element plus the
rest. From it a sum of numbers that are not negative is positive only if one of them is
(`SumOfPositive`), and a sum is not changed by leaving out days that add nothing
(`SumOfSkip`). `SpikesRestOnHistory` then follows from `HistoryInv`, which says of every
row, every push under way and the script that a spike of loans at hand has a day with
loans behind it, also when the numbers they were computed from have been replaced;
it is inductive because the loans a pull stores are those a push stores, and because a
pull never takes a day away. For visitors and late loans the first half is false, and
nothing is claimed of them. `RulesAgree` compares the two means
cross-multiplied: the cloud divides by the rows it has and the agent by the length of
the window, the totals are equal, so the cloud's threshold is the higher one, and equal
when no day is missing.

Model-checked only: `QueuedJobsSettle`, `MessagesSettle`, `ClosedDaysBecomeFinal`,
`PollingSeesConnection`, `LoadingEnds` and `MessagesCatchUp`. They are the liveness
properties, which rest on fairness and `ENABLED` and are out of the prover's reach.
Every other property that a run checks and expects to hold is stated by a theorem.

## 5. Plan

Built: `Backfill` with `BackfillLedger`, `AgentPush` with `RetryOutbox`, `WaMessages`
with `ReplyService`, `DailyStats`,
`TenantConfig`, `WaSession`, `Panels`, `AnomalyFlags`. What is left, in order:

1. `BackfillPanel`: the page that polls the status of a job, where a late answer for
   the job before can end the polling of a new one.
2. `ExtendBook` and `RateLimit` as small modules: a read and a write of one loan; a
   counter and its expiry.
3. `AuthWindow`: the acceptance window of signed requests and of sessions.

## 6. Not modelled

The SQL of the metrics and of the analytics, wording and layout, signatures and
ciphers (library code, taken as working), the language model (its answers are data),
validation of bodies, file packaging, the proxy, the creation of tenants (one insert
under a unique index), user sessions (single inserts, lookups and deletes), the
static pages and the generated interface components. `last_export.json` is written
after an export and read by nothing that runs from `cron.php` or a command;
`BackfillEngine::getProgress` and the status routes only read. Graceful shutdown of
the worker closes it between jobs and is no step of its own; a shutdown that does not
wait is `WorkerCrash`. The handshake route is reached by no agent of this repository
(`HandshakePing.php` sends no secret hash). `triggerAgentExport`, `confirmConnection`,
`getDevices`, `getUserInfo` and `reconnect` are called by nothing.

The pull (`DailyAggregate.php`) and the push (`MetricsCollector.php`) compute most
columns of `daily_stats_v2` in different ways. Only `loan_count`, `new_member_count`
and `total_collection_size` are the same query on both sides; for the others the row
says something else according to who wrote it last, and what the properties of
`DailyStats` say of final numbers is not claimed of them beyond the pull's own daily
numbers of an active day:

- `visitor_count`, `unique_visitor_count`: `visitor_log` by `checkin_date = :d` (134-140)
  against `visitor_count` by `DATE(checkin_date)` (61-70); the metric `visitors` of the model;
- `return_count`: without and with `is_return = 1`;
- `new_biblio_count`, `new_item_count`: `input_date = :d` against `DATE(input_date)`,
  which differ when the column carries a time;
- `fines_debet_total`, `fines_credit_total`, `reservation_count`: always 0 in a pull
  (170-172), real in a push (102-118); left out;
- `total_collection_size`, `active_member_count`, `active_overdue_count`: a pull
  computes them once, as of the end of its range, and stores them on every day of it
  (49, 61), so a later pull changes those of a day that is long over; the last two are
  other queries besides (181-194 against 154-165). Left out of `DailyStats`; the
  third is `lent` against `overdue` in `AnomalyFlags`.

What the models allow, because the code does, and no property forbids:

- two active backfill jobs of one tenant: the look for one and the insert are two
  statements (`start/route.ts` 105-133), and pull-now does not look;
- an event that names its device by JID is compared with a `uuid` column
  (`message-worker.ts` 63-70): the lookup throws and the message ends as failed;
- `ensureTenantKeypair` under two first downloads hands out a key that the other one
  replaces; `DownloadWorks` is stated for downloads that overlap no other request for
  credentials;
- the optimistic check is made on the row as it was read, so a write in between is
  overwritten, and no page sends `expectedUpdatedAt`: a save may put an old status
  over the result of a connection test;
- deleting a tenant whose other rows refuse it leaves it without its v1 rows;
- after a write that hides a connection every login is refused until the device is
  unlinked, and a pending session without a scanner has no button until a reload;
- the answer of a retry is not aborted by a new selection, and the knowledge base
  shows the entries of the tenant before when a save ends late;
- the dead-stock panel's summary cards show the numbers of the threshold before under
  the new one's label while it loads and beside an error, and its list and that of the
  top books stay beside an error (`dead-stock-panel.tsx` 69-81, 124-137,
  `top-books-panel.tsx` 101-116);
- a flagged jump of visitors or of late loans may lose the day it was compared with,
  when a pull replaces that day's number by 0;
- a pull empties the flags of the days it meets and counts every loan that is out
  where the push counts late ones, so the script's repair lasts until the next pull.
