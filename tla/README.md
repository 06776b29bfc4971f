# Formal models of QTestRunner

TLA+ models of the parts of QTestRunner (`src/server`, `src/client_new`) whose
correctness depends on the order in which things happen: who gets an Agent next,
what ends a run, what becomes of an answer when the connection is lost, which
instance of a scheduled job may execute, what a late result may overwrite. TLC checks
them on small instances, TLAPS proves the central theorems for every instance.

| module | about |
| --- | --- |
| `AgentDispatch` | the queue and the slots in front of one desktop Agent |
| `ConfigTaskRun` | the runs of configuration tasks: row, stages, approvals, evidence, Agent |
| `CeleryJob` | scheduled jobs: Beat, the task page, the worker and its locks |
| `AgentSlots` | what the queue promises: a pool of slots; `AgentDispatch` implements it |
| `AgentLease` | what runs promise about their Agent: a lease; `ConfigTaskRun` implements it |
| `AgentConnection` | the websocket of one Agent: endpoints, registry, heartbeat, waits, late answers, the client's file |
| `CredentialRefresh` | one stored credential: refresh, edits, write-back |
| `StoredSecret` | what a credential promises: one secret; `CredentialRefresh` implements it |
| `TicketAiAnalysis` | AI analysis tasks of one fingerprint: execution in two processes, late answers, recovery |
| `TicketLogPull` | log pulls: submission, waiting, download, in two processes |
| `MC<module>` | values for the constants of the runs, symmetry sets |
| `<module>Proofs` | theorems and their proofs |
| `ConfigTaskRunExecutionProofs` | theorems about what the rows of a run say of its execution |

Model-check with `tlc -workers 2 -config <run>.cfg <MC module>`, prove with
`tlapm <module>Proofs.tla`. `PROJECT.json` holds the runs, the source lines of
every definition (`map`), one mutation of the code per property (`mutants`), the
disagreements found (`findings`) and the hazards the properties are aimed at.

## 1. Inventory

### The processes

The server is one FastAPI process: coroutines on one event loop, a thread pool
for synchronous handlers, and scheduler threads that open their own event loops.
Beside it run one Celery worker (`supervisord.conf`: `--pool=threads
--concurrency=8`) and Celery Beat. All share MySQL and Redis. On each test
machine runs an Agent client (`client_new`), connected to the server by one
websocket, over which the server sends requests and the Agent answers and reports
events. A browser front end and, through HTTP, the Agent call the server.

### Components

**Agent dispatch queue** (`module_qtr/service/agent_dispatch_service.py`; modelled).
Several parts of the server want an Agent at once and an Agent serves
`maxConcurrentTasks`. State, all in Redis: a list of waiting request ids, a hash
of active leases, a lock with a TTL of 5 s, and three keys for each request id
(request, state, result). Operations: queue, poll, renew, admit, send, requeue
after a broken connection, return a stored result, cancel, clean up after a
restart. Hard: every operation is several Redis commands, every `await` lets
others in, coroutines die with the process and leave their keys behind.
Correct when: admission is serial; the limit holds; no slot is forgotten; an
invocation ends after its deadline; a dead head blocks nobody; a live waiter is
not dropped; a terminal state stays.

**Configuration task runs** (`modules/configuration_task/service/task_run_service.py`,
`stage_service.py`, `evidence_status_service.py`, the event path of
`agent_controller.py`, the loop of `client_new/services/web_test_service.py`; partly modelled).
State: the run row (`status`, `business_status`, `error_code`, Agent, step
results), its stage rows with approvals, artifacts and evidence status.
Writers: the request that creates the run and waits for the Agent's answer, a
stop request, the handler of Agent events, approver and operator (thread pool),
the artifact report, the recovery job. Hard: six writers read, decide and write
later without row versions; answer and `finished` event both end a run; events
are lost; server, link or Agent fail anywhere. Correct when: a run takes an Agent
that was free when it looked, and never runs again once it has ended; SUCCESS means
executed; outcome fields agree; only a retry takes back the outcome of a stage;
approvals belong to the present round; evidence is not overstated; every run ends.
One RUNNING run per Agent, which the documents promise, is not what the code gives
(section 7).

**Scheduled jobs** (`config/celery_scheduler.py`, `module_task/celery_job_service.py`,
`module_task/celery_tasks.py`; partly modelled).
State: the rows of `celery_periodic_task`, a lock and a state key for each job in
Redis, unacknowledged messages. Operations: Beat sends due rows and commits
afterwards, the page submits a row, the worker locks, runs and cleans up, both
recover what a dead worker left. Hard: messages come back after a kill, the lock
and the key that shows its holder alive are written apart, recovery deletes by
key name only. Correct when: one instance at a time unless `allow_concurrent`; a
message is skipped only for an instance that is really there; a once job is
consumed only when submitted.

**Agent connection** (`module_qtr/controller/agent_controller.py`,
`module_qtr/service/agent_service.py`, `client_new/server/agent_server.py`; partly
modelled). State: the registry of sessions, the Agent's row, the futures of
pending requests and the chunks collected for them, late answers, on the client
the file of answers that could not be sent. Operations: accept and replace a
connection, receive, tear down, heartbeat, send and wait, answer, replay the
file. Hard: an Agent reconnects while its old session is being torn down; every
await lets the others in. Correct when: nobody waits on a connection that is gone;
an answer is delivered or kept, and where the code loses one it is known by what
mishap. `AgentDispatch` uses of it that an Agent is online or not and that a request
ends with an answer, a time-out or a lost connection; `TicketAiAnalysis` that a
late answer may reach the cache.

**Credential refresh and leases** (`modules/credential`; partly modelled). State:
the row with its secret and revision, leases. Operations: refresh (lock, lease,
exchange with the target, store, release), edit, write-back of browser state,
delete. Hard: the exchange ends the old session outside the database, and a
transaction does not see what was committed since it began. Correct when: no
saved change is lost; no dead session is stored; every call ends.

**Ticket AI analysis** (`modules/ticket/service/ai`; partly modelled). State: task
rows with two unique columns (active lock, fingerprint of success), audit rows
with the request id, the cache of late answers, a set of active tasks per
process. Operations: submit, execute, cancel, retry, enter recovery, scan, restart.
Hard: API and Celery worker execute without knowing of each other, an executor
works on the row it loaded, an answer comes hours later. Correct when: the unique
columns follow the status; one task wins; an answer is written once; waiting ends.

**Ticket log pull** (`modules/ticket/service/log_pull`; partly modelled). State: the
record's status and deadline, a set of active ids and a pool per process.
Operations: create, submit to the external platform, scan, download, parse,
stop, delete, clean up at a start. Hard: two processes write one row, some
writes look at the status and some do not. Correct when: what has ended stays
ended; the request is not repeated; the analysis is triggered once; a download
has a thread; waiting ends. Archive, index, search and text are data processing.

**Ticket synchronisation** (not modelled). Mapping and forwarding of external
tickets, with deferred post-processing.

**Identifiers** (`utils/snowflake.py`; not modelled). `get_id` changes its
fields without a lock, and the sequence it continues is the only state: two threads
in it at once can draw one number. There is no protocol around it to check.

**Web and interface test cases** (not modelled). A run has the shape of
`ConfigTaskRun` without stages and approvals; the rest is a step interpreter.

**Agent client** (mock proxy, POS tools, file transfer, user interface, and the
legacy client; not modelled). Tools of one user, input and output. The execution
loop of a run is modelled inside `ConfigTaskRun`.

**Configuration task editing, scheduling, resources** (not modelled). Row
editing; a run begins with a snapshot of the published version.

**Cache back end** (not modelled). `MemoryRedis` gives the same commands under one
lock. The models take each command as atomic, which holds for both back ends.

**Schedule parsing** (not modelled). Pure conversion; `CeleryJob` lets a periodic
job fall due at any time.

**Ticket core, statistics, export; administration; metrics, data gateway, web
front end** (not modelled). Single-transaction reads and writes and displays.

### Interactions

- Configuration runs, AI analysis and log pull reach the Agent through the
  connection; the AI analysis through the dispatch queue in front of it.
- The Agent's events come back over the websocket and are handled on the event
  loop, one after the other; artifacts come by HTTP.
- The recovery of runs (`recover_orphan_running`) and most periodic work is
  started by the scheduled jobs.

## 2. Plan

| step | module | composes / uses | abstract specification, theorems | state |
| --- | --- | --- | --- | --- |
| 1 | `AgentDispatch` | - | limit, serial admission, no leak | done |
| 2 | `ConfigTaskRun`, `AgentLease` | refinement | outcomes, approvals, what SUCCESS means; the refinement as a theorem | done |
| 3 | `CeleryJob` | - | justified skips, consumed once jobs | done |
| 4 | `AgentConnection` | - | answers are kept but for named mishaps; pending waits have an endpoint | done |
| 5 | `AgentSlots` | refined by `AgentDispatch` | pool of slots; the refinement as a theorem | done |
| 6 | `CredentialRefresh`, `StoredSecret` | refinement | no lost change, no ended session stored; the refinement as a theorem | done |
| 7 | `TicketAiAnalysis` | late answers of `AgentConnection` | index follows status, one winner | done |
| 8 | `TicketLogPull` | - | ends are final, one analysis, no repeated request | done |
| 9 | dispatch over connection | `AgentDispatch`, `AgentConnection` | an accepted answer is returned or stored | |
| 10 | ticket synchronisation | - | post-processing happens once | |

Every safety property a passing run checks is also a theorem (section 6).

Two safety theorems of `AgentDispatch` rest on assumptions on its environment
(section 6). `AgentConnection` and `AgentDispatch` are not composed: together they
exceed what TLC can search, and each takes from the other what is said above.

## 3. The modules

Common rules. Time is replaced by what it causes: a deadline passes, a TTL runs
out, nothing has happened for the recovery threshold. Payloads, prompts, names,
logs are left out; a message or result carries its outcome only. A few
definitions have a neighbour that nothing uses, "the mutated form": a plausible
bug, of which `PROJECT.json` says which property it breaks.

### AgentDispatch

A `Call` is one coroutine in `send_ai_analysis_message`; `RequestOf` gives the
request id it passes. `pc[c]` is where it stands:

```
idle -Submit-> enqueue -Enqueue-> renewDue/polling -LookUp-> tryLock -TryLock->
clean -CleanExpired-> inspect -InspectHead-> (drop -DropHead->)* lease -TakeLease-> pop -PopAndRun-> unlock
unlock -CheckToken-> (delLock -DeleteLock->) polling, or admitted: send -Send-> sent
-StoreAnswer-> answered -MarkCompleted-> completed -Finish-> returned
```

`InspectHead` goes to `unlock` without admission when it is not this request's
turn or no slot is free. `GiveUp`, `TakeCachedResult`, `GiveUpOffline` leave the loop; `Fail`, `Cancel`,
`NotConnected` with `Requeue` and `Backoff`, and `MissingMessage` are the
error paths behind the admission; `Refuse` is the early return of an offline Agent.

| variable | code |
| --- | --- |
| `lock` | dispatch lock key; its token is the invocation's uuid, so a call stands for it |
| `queue` | waiting list |
| `active`, `expired` | hash of leases and which of them are past their expiry |
| `state`, `renewed` | status in the state key; whether the queued lease in it is in force |
| `cached` | request key: who wrote it last, `NoCall` when it is gone |
| `result` | result key |
| `requeues`, `overdue`, `seen`, `admitted` | locals of the coroutine |
| `online`, `agentHas` | the Agent as `connected_agents` shows it; what it works on |

Commands that nothing can observe between are one action (a state write and the
lease written with it under the lock, for instance); the pairs that matter are
apart: judging the head and `LPOP` (`InspectHead`, `DropHead`), counting leases and
adding one, lease and pop, the `GET` and `DEL` of the lock's release
(`CheckToken`, `DeleteLock`), storing the result and marking it completed, the looks
at result and Agent with the renewal of the queued lease (`LookUp`) and the `SET NX`
behind them (`TryLock`). `Abort` is a cancellation outside the sending phase, at the
release of the lock too. `Crash` ends all coroutines and keeps the keys; `Restart` runs the start-up
clean-up, or not: the code only logs its failure. `EvictRequest` loses the
request key, which has a 24 h TTL.

### ConfigTaskRun

Whatever reads, decides and commits later is a transaction in `txn`: a record of
the operation, the run, what it is about, and what it read (`ran` of the run, `was` of
its stages, `had` of its steps, `saw` of its artifacts). The requests that wait for the
Agent keep their session over the wait: `seen` is what it sees of the artifacts when it
writes at last. Both follow from MySQL's default isolation: what a transaction has
read once it reads again until it commits. `stale` is a history variable, the runs for
which a transaction committed although run or stages had changed since it read them
(`Overtaken`). Event handlers exclude one another (`Busy`): the handler is synchronous on the event
loop. Approval, retry and recovery run in the thread pool or a scheduler thread
and overlap with it.

| actor | actions | code |
| --- | --- | --- |
| creation | `CheckAgent`, `AddRun`, `Snapshot`, `Send`, `SendFails`, `StopWaiting`, `TakeAnswer`, `Finalize` | `create_run_and_execute`, `_prepare_run`, `_finalize_*` |
| stop | `PrepareStop`, `AgentStops`, `StopUnanswered`, `FinalizeCancelled` | `stop_run` and the client's `_stop_run_case` |
| approver, operator | `CheckApproval` then `Approve` or `Reject`; `CheckRetry` then `Retry` | `stage_service.py` |
| events | `ReadEvent` then `AdvanceStage`, `RecordProgress`, `RecordFinish` | `handle_agent_run_event` and what it calls |
| artifacts | `ReportShot`, `ReportAgain` then `Reassess` | HTTP agent-report, `artifact_service.py` |
| recovery | `GoQuiet`, `CheckOrphan`, `Recover` | `recover_orphan_running` |
| Agent | `StartCase`, `Prepare` or `StartFails`, `SkipStep`, `BeginStep`, `EndStep`, `AbortRun`, `FinishCase` | `_run_case`, `_prepare_run_case` and the step loop of `web_test_service.py` |
| failures | `Restart`, `LinkBreaks`, `AgentDies` | - |

The recovery scan is modelled run by run, without its limit of 200 rows. A
repeated artifact report refreshes the evidence, the first one does not, as in
the code. `Refresh` computes the evidence from the rows as its caller sees them, which
may be older than what is committed. `Identified` are the runs whose stage rows list
the ids of their steps; for the others the handler matches by the index, and takes a
report of step i for step i + 1 too (`TakenFor`, `Latest`). `Disabled` are steps the Agent
reports as skipped without executing them. Screenshot
metadata sent as an event is read and dropped (section 7). The model leaves out
failure screenshots, the report archive, credential seed and writeback and
task editing.

`AgentLease` is what is left of it for somebody who waits for the Agent: each run is
"new", "looking", "leasing" or "over". It looks for an Agent nobody has (`Look`), takes
what it found without looking again (`Take`), and gives it back once (`GiveBack`); what
dies between the two is over (`Drop`). `ConfigTaskRun` implements it (`ImplementsLease`),
RUNNING being the lease: `CheckAgent` looks, the insertion takes, the first write of the
six operations that can end a run gives back, all others are stutters. It says what
holds with overlapping creations: no run changes its Agent or runs again.

### CeleryJob

A `Delivery` is one message to `execute_registered_job`. Beat reads the due once
rows (`ReadOnce`), sends one message per row (`SendOnce`), commits all rows
(`CommitOnce`) or fails in between (`BeatFails`); `SendPeriodic` sends a periodic
row. The page lists rows (`List`, which recovers lost ones) and submits one
(`Submit`, `Recover`, `SendManual`, `ShowQueued`); `ChangeStatus` and `Edit` change a
row. A worker thread goes through

```
Take -> TryLock -> (JudgeLock -> Reclaim -> TryLock | Skip)
     -> MarkRunning -> Announce -> Heartbeat* -> Finish -> ShowOutcome -> Release -> Clear
```

one step per Redis or database call. `lock[j]` and `state[j]` hold the boot number
of the worker that wrote the key, which stands for `WORKER_BOOT_ID`, 0 for no
key. `KillWorker` starts the next boot and returns unacknowledged messages
(`task_acks_late`). `ExpireLock`, `ExpireState`, `GrowOld` are the TTLs; a lock
held by a thread expires only with `LockMayExpire`. Redis and database calls
succeed; the schedule type of a row is fixed; rows are not created or deleted.

### AgentSlots

`phase[c]` is "new", "waiting", "working" or "ended"; an admission needs a free
slot. `AgentDispatch` implements it (`ImplementsSlots`): a call is working while it
owns a lease (`Owns`: popping, sending, answered or about to be put back, or
unlocking after its admission), ended when it has ended or stored its last state,
new when idle, waiting otherwise. It says what callers rely on without Redis, lock
and leases.

### AgentConnection

Sessions are numbered in the order of their acceptance, requests and answers
have two chunks. Every await at which another coroutine can see half of a change
ends an action.

| part | actions | code |
| --- | --- | --- |
| endpoint | `Connect`, `Announce` or `AnnounceFails`, `Receive` (with `Collect` and `Stash`), `End`, `MarkOffline` | `websocket_endpoint`, `disconnect`, `_stash_orphan_response_chunk` |
| heartbeat | `Silent`/`Judge` or `Ping`/`PingReturns`, `RemoveAgent`, `WriteOffline` | `heartbeat` task, `_remove_agent_connection` |
| calls | `Register`, `SendRest`, `TimeOut` | `_send_message_on_agent_loop` |
| client | `Answer`, `AnswerRest`, `FailToSend`, `Replay`, `ReplayRest`, `ReplayEnds`, `ClientNotices` | `_send_response_with_recovery`, `_enqueue_pending_response`, `_flush_pending_responses` |
| network | `Break`, `FallSilent` | - |

Every fault is in every run: a link breaks with or without what is under way (`Loses`),
falls silent, is taken over; a wait times out between two chunks; the heartbeat
removes who has come back meanwhile; the file is replayed while an answer is added.
`mishap` is a history variable: the requests whose answer met one of the five events
by which the code loses an answer. The registry dictionaries
change together and are one variable. Left out: several Agents on one server,
the binding of the Agent to a user, the content of messages, streaming events.

### CredentialRefresh

A secret is the target session in it and the number of user changes merged into
it. A refresh goes `Read -> Acquire -> Exchange -> Commit`/`Store -> Release`, with
`LeaseConflict`, `LockTimeout` and `MarkFailed`, `ExchangeFails`, and `Crash` with
`LeaseExpires`; an editor goes `Open -> Submit -> Save`, or `SaveFields`,
`SaveTimesOut`, `Refused`; `Delete` at any time. `view[c]` is what the transaction has
in hand: under REPEATABLE READ, and because the session returns the object it
already holds, a second read shows nothing newer (`Snapshot`, taken at `Read`);
locking reads and updates see the row. Left out: encryption, access rights, the
scheduler's choice of credentials, the shape of browser state.

`StoredSecret` is the same credential without clients, locks, leases and transactions:
`session`, `changes`, `revision`, `deleted`, and the session the target accepts. A
target opens a session at any time (`OpenSession`); a refresh puts the accepted
session in place of an ended one and nothing else (`Rotate`); a change is added to what
is stored (`Change`), or other fields change (`EditFields`). `CredentialRefresh` is mapped to
it field by field (`Secret`): `Exchange` and a failed exchange to `OpenSession`, `Store` at
its revision to `Rotate`, `Save` to `Change`, everything else to a stutter.
`ImplementsSecret` therefore says that nothing a client read before it waited ever
comes back: no write-back of an ended session, no lost change, no step of a deleted row.

### TicketAiAnalysis

`task[t]` is the committed row (status, audit record, the active lock, the
fingerprint of success, whether the recovery deadline has passed); `exec[p][t]`
where a thread of process p stands with it:

```
queued -Load-> MarkRunning -> Send -> WriteBack | FinishDuplicate | Discard
                                   | EnterPendingRecovery | RollBack -> MarkFailed
       MarkRunning -> CannotSend -> MarkFailed
       -Load-> WriteRecovered | KeepWaiting | CannotStart
       any of loaded, waiting, recovered, running -ThreadDies-> idle
```

`Check`/`Create`, `ReadForRetry`/`Retry`, `ReadForCancel`/`HoldForCancel`/`Cancel` are the
page's requests, each reading first and writing later. The scan is `List`, then
for each entry `Requeue`, `MarkExpired` or `Pass`; until its first commit it sees what
it listed (`Reread`). `RestartApi` includes `resume_pending_tasks`. Left out: prompts,
tokens, parsing of results, notifications, forced refresh (a fingerprint of its
own), tasks without a deadline, dry runs, templates.

### TicketLogPull

`record[r]` is the row (status, deadline); `exec[p][r]` where a thread of process p
(the API's pool, the worker's pool) stands:

```
queued -Load-> new/resumed -LookupNothing-> posting -Post-> posted -Accepted-> ending
               new/resumed -LookupReady-> download -StartDownload-> fetching
       -Load-> fetching, or again -StartDownload-> fetching
fetching -Fetch-> fetched -StartParsing-> parsing -Succeed-> won -TriggerAnalysis-> ending
any of these -Break-> failing -WriteException-> ending -Leave-> idle
```

`Write` is the UPDATE by id, `WriteIfOpen` the one that looks at the status. The scan
runs in the worker: `StartScan`, `QueueCreated`, `FailExpired`, the probes, `EndScan`.
A record in `halted` (its ticket has a status that stops automatic pulls: `TicketHalts`,
`TicketResumes`) is cancelled whenever the scan comes to it, in every phase and instead
of all else (`StopHit`, `CancelListed`). These cancellations (`scan.held`) are uncommitted,
and keep others from the row, until the next commit (`Committed`); a probe that raises
takes them back with the scan (`ScanFails`). A probe that finds the result commits
"downloading" (`ProbeReady`) and queues the record afterwards (`scan.found`,
`QueueFound`). `Left` are records an earlier process left behind, in "created" or with a
request at the platform and no deadline ("submitting"). A stop reads
(`CheckStop`) and writes later (`Stop`); a retry creates a record; `RestartApi` lists what
was interrupted and `FailInterrupted` fails it, also what the worker is at. `listed`
are the outcomes the platform shows for these parameters, whoever asked for them:
a match needs equal parameters and an age, not the record's own request. Left
out: a new download of a finished record (no status changes), a change of the
pool's size, the scan's limits (100 and 200 rows), two scans at once, failures of
the database.

## 4. The runs

Distinct states and seconds are those of two TLC workers.

| run | instance | checks | states | s |
| --- | --- | --- | --- | --- |
| `dispatch_slots` | 2 invocations, 1 slot, 2 requeues, 1 crash | `TypeOK`, `AdmissionIsSerial`, `ConcurrencyLimit`, `ImplementsSlots`, `AbandonedHeadIsDropped` | 400144 | 90 |
| `dispatch_retry` | 2 invocations of one request id, 1 slot, 1 requeue, 1 crash, lock TTL outstayed, request key evicted | `NoSlotLeak`, `ResultBeforeCompleted`, `EveryCallReturns` | 269033 | 65 |
| `config_lease` | 2 runs for 1 Agent, one with manual login, 1 stop, 1 lost message | `ImplementsLease` | 743167 | 41 |
| `config_writers` | 1 run, 2 stages (the second WRITE with required evidence), 2 overlapping transactions, stop, retry | `TypeOK`, `EvidenceNotOverstated`, `OutcomeIsCoherent`, `ApprovalIsFresh` | 1595786 | 111 |
| `config_recovery` | 1 run, 3 steps in 2 stages, retry, stop, 1 failure of server, link or Agent | `SuccessMeansExecuted`, `StageSuccessMeansItsSteps`, `RecoveredRunIsClosed`, `StageVerdictsStand`, `RunEnds` | 374252 | 63 |
| `celery_locks` | once row and concurrent periodic row, 2 messages, 1 failure of worker or Beat, lock TTL outstayed | `TypeOK`, `ConsumedIsSubmitted`, `SkipIsJustified` | 2612048 | 187 |
| `connection_waits` | 1 request, 2 connections, all faults | `TypeOK`, `PendingHasEndpoint`, `EndSparesSuccessor`, `LossEndsWaits` | 64146 | 13 |
| `connection_answers` | 2 requests, 3 connections, orderly ends of connections only | `AnswerKept` | 20084 | 2 |
| `credential_refresh` | 2 refreshes, 1 editor, 3 revisions, 3 sessions | `TypeOK`, `SavedChangesStay`, `ImplementsSecret`, `CallsEnd` | 49260 | 14 |
| `ai_recovery` | 2 tasks, 2 audit records, 2 requests, 3 events | `TypeOK`, `NoStrayIndexEntry`, `OneWinner`, `AnswerWrittenOnce`, `RecoveryEnds` | 524850 | 161 |
| `log_pull` | 1 record, 2 events | `OneAnalysis`, `RequestedOnce`, `DownloadHasThread`, `EndedStaysEnded`, `WaitEnds` | 592374 | 147 |
| `celery_overlap` | 1 row, 2 messages, no failure, no expiry | `OneInstance` violated | | 3 |

Between them the passing runs take every action and every disjunct of the
next-state relations.

**The bounds.** `MaxCrashes`, `RequeueLimit`, `MaxStops`, `MaxLost`, `MaxRetries`,
`InFlight`, `MaxKills`, `MaxRequests`, `Connections`, `MaxRevision`, `MaxSession`,
`MaxAudit`, `MaxRequest`, `MaxEvents`, `MaxRuns` and the sizes of the sets.

- *Dispatch.* The steps of two invocations conflict in pairs over the last free
  slot; a third one adds a longer queue, more slots add admissions that do not
  compete. Both are covered by the theorems of section 6, which hold for any
  number. One crash is followed by a complete life of the keys it left.
  `RequeueLimit` 2 reaches both branches of `NotConnected`; with 1, in
  `dispatch_retry`, an Agent that is not connected ends the call. An abandoned
  head needs ids of its own for those behind it: `dispatch_slots`.
- *Configuration runs.* The writers of one row conflict in pairs: `InFlight` is 2 and
  one run is created, of several kinds (`Run` has more members than `MaxRuns`: with and
  without step ids, with and without manual login). What relates runs is the Agent
  they look for: two in `config_overlap`. Two stages are needed for "the stages behind",
  three steps for a stage that a lost event leaves with a hole, one of them disabled.
  `config_recovery` requires no evidence: repeated artifact reports would postpone
  the recovery for ever, a run kept alive by its reporter. Its events are lost with
  the link; stops, which cannot keep a run RUNNING, are in `config_writers`.
- *Connection.* Two connections are a session and its successor, and one request is
  sent, answered and replayed between them. TLC has also finished the safety properties
  with two requests and two connections (8.5 million states: an answer added while
  another one is replayed) and all properties with one request and three connections
  (1.1 million: a session taken over before its predecessor is gone); both are too long
  for a run. `AnswersAreKept` holds for any number.
- *Credential.* Two refreshes compete for lock and lease, and a third session
  shows that one of theirs has ended.
- *AI analysis.* Tasks of one fingerprint conflict in pairs. Two audit records
  are a task and its retry; three events reach a cancel, a retry and a restart.
- *Log pull.* For safety, records with the same parameters meet in what the platform
  lists, which anybody may change in the model, and in the scan's commit: one record,
  and two events, a stop and a restart or a stop that was read before a delete. The
  theorems hold for any number. Waiting needs two records, because one that cannot be
  probed takes the rest of the scan with it: `log_wait`, where both were left behind by
  an earlier process (two records from the start exceed five minutes), and one event.
- *Jobs.* One lock, its holder and whoever judges it: two messages. Rows of
  different jobs meet only in Beat's commit and in failures, so one page request
  at a time is enough.

**Deadlock** is not checked: a finite set of invocations, runs or messages ends,
and then the system rests.

## 5. Fairness

Liveness is checked in seven runs, with weak fairness only.

- `AgentDispatch`: each coroutine's own steps (the event loop runs every ready
  coroutine), the expiry of leases and of the lock (TTLs), the restart of a killed
  server (supervisor). Nothing is asked of the Agent, of answers, of the
  connection, nor that deadlines pass: `EveryCallReturns` starts from a passed
  deadline, `AbandonedHeadIsDropped` from a waiter that polls.
- `ConfigTaskRun`: a transaction commits, a created run reaches its send or
  fails, time passes (`GoQuiet`), the recovery job keeps being scheduled
  (`CheckOrphan`). Nothing is asked of the Agent, of messages, or of whoever
  waits for the answer. So `RunEnds` rests on the recovery alone; `config_recovery`
  shows its mutation (recovery leaves the row RUNNING) to break it.
- `AgentConnection`: endpoints go on (`Announce`, `Receive` or `End`, `MarkOffline`), the
  heartbeat too, a sender sends its second chunk, a ping on a dead link fails in
  the end (TCP). Nothing is asked of the client, nor that a wait times out, so
  `LossEndsWaits` rests on endpoints and heartbeat alone.
- `CredentialRefresh`: the exchange has a time limit of 30 s, a wait for a lock
  one too, handlers go on after either.
- `TicketAiAnalysis`: the scan runs every minute and gets through its list,
  deadlines pass, a cancel's wait for a lock ends, cached answers expire. Nothing
  is asked of executors, Agents or users: `RecoveryEnds` rests on the deadline.
- `TicketLogPull`: the scan and the worker's threads go on (HTTP has time limits),
  deadlines pass. Nothing is asked of the platform, the API process, the ticket, or that
  any probe succeeds. `WaitEnds` names one exception, `TakenBack`: a stopped record beside
  one that is submitted without a deadline (section 7).
- `CeleryJob` has safety properties only: nothing in the code makes a broker
  deliver in bounded time.

## 6. What is proved

All theorems hold for every number of actors and every value of the bounds. The
constants' assumptions (`DispatchAssumption`, `ConfigTaskAssumption`,
`CeleryAssumption`, `ConnectionAssumption`, `CredentialAssumption`,
`BoundsAreNumbers`, `PullAssumption`) are evaluated by every run.

**AgentDispatch.**
- `TypesHold`: `TypeOK`, whatever the invocations, the Agent and Redis do. Two parts of
  it are not inductive alone. That a request is requeued at most `RequeueLimit` times
  needs that whoever is about to send has failed fewer times (`RetriesLeft`). That the
  waiting list holds request ids needs a fact about LREM (`WithoutKeepsOthers`):
  the list without an id is a list of ids, without that id, with every other entry.
  `Without` defines it by places, the n-th entry left being the one with n entries
  left up to it, and `PlacesAreTaken` shows by counting that there is one for every n.
- `AdmissionSerialised`, if no holder outstays the lock's TTL (`~LockMayExpire`).
- `SlotsDoNotLeak`: no assumption on ids, TTLs, crashes or eviction.
- `SlotsAreRespected`: `ConcurrencyLimit`, if request ids are fresh (every caller
  builds a new one), no holder outstays the TTL and Redis keeps the request key.
  `ConcurrencyLimit` is not inductive: nothing in it says that who is with the
  Agent has a lease. `DispatchInv` adds that owners keep an unexpired lease
  (`OwnersKeepLease`), for which the head about to be dropped must be nobody's
  (`DropSpares`), live invocations must not look like leftovers (`LiveIsCached`,
  `NobodyLivesWhenDown`), and that between the count and the new lease there stays
  room (`RoomForLease`, from serial admission). Then `RequestOf` injects the
  invocations with the Agent into the active leases, of which there are at most
  `MaxConcurrent`.
- `CompletedHasResult`: `ResultBeforeCompleted`, with no assumption.
- `QueueImplementsSlots`: the refinement of `AgentSlots`, under the assumptions of
  `SlotsAreRespected`; a step that admits finds a free slot by `RoomForLease`, every
  other step changes one caller's phase as the pool allows, or none.

**ConfigTaskRun.**
- `OutcomesAreCoherent`: whoever overwrites whom, the outcome fields agree.
- `ApprovalsAreFresh`: needs that before the snapshot there are neither stages nor
  transactions (`NothingBeforeSnapshot`), because the snapshot writes both.

In `ConfigTaskRunExecutionProofs`, what a row says of the execution:

- `TypesHold`: `TypeOK`. An Agent that steps is at a step (`Progress`), and the Agent has
  not begun while the caller has not sent (`Sent`); without the two, the position of
  the Agent is not bounded.
- `SuccessfulStagesAreExecuted`: `StageSuccessMeansItsSteps`, for any loss of events,
  any overlap of transactions and retries, disabled steps, and runs with and without step
  ids. Neither the row nor a message is evidence in itself, so `Reported` follows the
  word of the Agent: whatever is recorded, on its way, or held by a transaction since its
  read says "passed" or "skipped", the Agent has done that step. Results never change
  once they say so. Without ids a report counts for the next step too, and the property
  says no more than that.
- `SuccessfulRunsAreExecuted`: `SuccessMeansExecuted`, about the runs without manual
  login. `Carried` is the loop invariant of the Agent (its flag `ok` means that all steps
  so far are done); `Final` says that whoever carries a success, a message, the caller or
  a transaction, carries it for a run that is over and executed. A run with manual login
  breaks it (section 7), so the property leaves those out.
- `EvidenceIsNotOverstated`: an assessment is made from what its transaction sees, which
  may be old. Every view shows all stage rows of the run or none, and shows no artifact
  that is not there (`Firm`, `Views`), because a snapshot writes all rows at once
  (`Together`) and an artifact that was registered stays (`ShotsStand`).
- `RecoveredRunsStayClosed` and `VerdictsStand` (an action property), for any number of
  overlapping transactions. What a transaction decides follows from what it read
  (`Judgements`), and a run that has not been sent is not recovered (`NotYet`). Both
  properties name the exception the code has: a transaction that commits on rows which
  changed after its read. That exception does occur (section 7).
- `RunsImplementLease`: the refinement of `AgentLease`, with no assumption on creations.
  The writers that end a run do not look at its row again, so the invariant says that
  without a row there is nothing they could start from, no stage, transaction, stop,
  message or execution (`NothingBeforeRow`), a killed creation included. A step then
  inserts one row or ends one run (`OutcomesChange`), and an Agent is chosen once
  (`AgentsAreChosen`). No run checks it: nothing but the look of a creation relates
  runs, and `config_overlap` shows how little that is.

**CeleryJob.**
- `TypesHold`: the whole `TypeOK`.
- `ConsumedJobsWereSubmitted`: what Beat has sent and not yet committed is part
  of the invariant (`SentInv`).
- `SkipsAreJustified`, an action property: a key with the present boot number has
  a living thread behind it (`StateHasThread`, `LockHasThread`), and a thread that
  removed a lost lock finds it empty or newly taken (`RemovedLockIsNew`). It
  holds although the clean-ups delete keys that are not theirs.

**AgentConnection.**
- `TypesHold`; `NobodyWaitsOnAGoneEndpoint`: `PendingHasEndpoint` is inductive with the
  types, with the fact that sessions to come have no endpoint (`Ahead`), and with the
  fact that the registered one has an endpoint that has not removed it (`RegisteredServes`).
- `AnswersAreKept`: `AnswerKept`, for any number of requests and connections, with all
  faults. The property says nothing of the half of an answer that has arrived already,
  so the invariant `KeptInv` does: a link that looks open belongs to the registered
  session, and what is on the way has an endpoint that reads it (`Links`); there is
  nothing of an answer before its request was executed (`Untouched`); the last chunk
  comes behind the first, on the wire or where `Receive` looks for it, which is another
  place after the wait is cancelled (`InOrder`); and what a replay leaves out of the file
  has been sent (`Retained`). Each of the five mishaps the property excepts does lose
  an answer (section 7).

**CredentialRefresh.**
- `TypesHold`, `NoSavedChangeIsLost`, `RefreshesStoreLiveSessions`. The lock is held
  exactly during an exchange (`LockHeld`), so what a refresh was answered is what
  the target accepts until it is stored (`AnswerAccepted`); every change of the row
  takes a new revision, so whoever's revision still matches has the row's secret
  in hand (`ViewFollowsRow`).
- `RefreshesImplementSecret`: the refinement of `StoredSecret`. Beside the invariant above
  it needs that the revision stands for the session too, as long as a client has
  not been to the target (`SessionFollowsRow`), and that what an exchange
  answered is newer than what the row holds (`AnswerIsNewer`): then a `Store` always
  replaces an ended session, and a `Save` writes back the one that is there.

**TicketAiAnalysis.**
- `TypesHold`, `IndexFollowsStatus`, `OneTaskWins`: `NoStrayIndexEntry` is inductive
  with the types because every writer goes through `_mark_task_status`;
  `WinnersAgree` (two winners are the same task) because only `WriteBack` takes the
  fingerprint, and only when nobody has it.
- `LateAnswersAreWrittenOnce`: `AnswerWrittenOnce` is about tasks that were never held by
  both processes, which is where the code has no protection. Attempts of tasks have
  audit records of their own (`Attempts`), no two of them share a request, and an
  exchange under way shares it with none (`RequestsApart`, `ExchangeApart`). With
  that, an executor works alone on the last attempt of its task, the answer it
  recovers has not been written, and a task whose answer has been is not executed
  again (`Excl`).

**TicketLogPull**, for any number of records.
- `TypesHold`; `EndsAreFinal`: every write over an ended record ends it again, and
  success is only written by the statement that looks.
- `AnalysedOnce`: of the threads past a success at most one has not triggered, and
  then nothing was triggered (`Handover`).
- `RequestsAreNotRepeated`: a record that was not doubled is held by one process
  (`OneHolder`), and once requested no thread can come to a second request
  (`NoSecondRequest`), for which the status must have left "created" before the
  request goes out (`TakenUp`), and which needs that a record the scan has listed as
  waiting, or found ready, has been taken up (`Exists`).
- `DownloadsAreHeld`: `HasThread` for records in download or parsing; between the commit
  of a probe and the queue the scan itself stands for the thread.

`TicketLogPull`'s `TypeOK` is proved and in no run; the other safety properties of the
passing runs are both checked and proved.

Only model-checked: all liveness (`AbandonedHeadIsDropped`, `EveryCallReturns`,
`RunEnds`, `LossEndsWaits`, `CallsEnd`, `RecoveryEnds`, `WaitEnds`; TLAPS has no fairness or
ENABLED here). The inductive invariants
were themselves checked by TLC on the instances of the runs before they were proved.

## 7. Where code and documents disagree

With a run, which finds the trace:

- `config_overlap`: two creations look for an active run of the Agent before either
  inserts its own, and both become RUNNING (`task_run_service.py:163`; the docstring at
  line 7 promises a constraint of the database, and `web/public/docs/configuration-task.md:140`
  one run at a time).
- `celery_overlap`: a second message judges the lock of a starting instance lost,
  removes it, and both execute (`celery_tasks.py:129`, docstring 115).

Stated in a module and violated by TLC when added to a run:

- `LiveWaiterStaysQueued` in `dispatch_slots.cfg`: the head is judged, its owner
  leaves the queue, and the pop takes the next, live waiter
  (`agent_dispatch_service.py:343`; the docstring at 330 says only expired heads
  are removed). It polls to its deadline.
- `SuccessMeansExecuted` over all runs, with manual login too: the answer "waiting for login" is taken
  for the result, the run is SUCCESS with nothing executed
  (`task_run_service.py:338`, comment 335).
- `WriteStepsWaitForApproval`: a WRITE stage executes unapproved, because all steps
  are sent at once (`task_run_service.py:341`; `stage_service.py:6` says otherwise).
- `ExchangeAtItsRevision` in `credential_refresh.cfg`: the revision is "read again"
  after the lock in the transaction that has read it before, and cannot differ
  (`credential_refresh_service.py:63`, comment 62). What is stored stays right.
- `AnswerKept` without its exception, `q \notin mishap`: an answer whose chunks straddle
  the end of its wait is split (`agent_controller.py:774`); answers replayed over the new
  session before the old endpoint has cancelled its waits are dropped as somebody else's
  (733); the heartbeat removes an Agent that has reconnected meanwhile (556), and what was
  on its new link is lost; the replay saves the list it loaded over an answer added since
  (`client_new/server/agent_server.py:650`); and what is on a dead link is lost.

Reachable in the models, without a run of their own:

- The release of the dispatch lock is `GET` then `DEL`: after the TTL it may
  delete another's lock (`agent_dispatch_service.py:150`, docstring 140), and
  admission is not serial any more. `LockMayExpire` allows it.
- A request id submitted again while its first request is with the Agent can exceed
  the limit (`agent_dispatch_service.py:655`): they share one lease. Therefore
  the assumption of fresh ids.
- After a send that timed out, the row ends while the Agent goes on; the next run
  executes beside it (`task_run_service.py:354`). `ImplementsLease` is about rows.
- `stop_run` looks, waits up to 30 s for the Agent and writes CANCELLED over a run
  that finished meanwhile (`task_run_service.py:664`, docstring 661).
- A rejected run keeps business_status RUNNING (`stage_service.py:372`), which
  `OutcomeIsCoherent` excepts; a rejection also turns a run that has ended into
  CANCELLED (`stage_service.py:355`).
- Under failure strategy `continue` the stages behind a failed one are marked
  SKIPPED although their steps are executed (`stage_service.py:452`).
- `retry_stage` resets a stage that nothing executes again (`stage_service.py:475`).
- With two transactions under way, `mark_stage_running` reopens a closed stage, also
  of a run the recovery has ended meanwhile (`stage_service.py:410`, comment 434). The runs
  this can happen to are those in `stale`, the stages those a transaction has read before
  (`t.was`): without these two exceptions `config_recovery` finds the traces.
- A run whose stage rows list no step ids (`stage_service.py:287`) matches a report by its
  index, taken as 0-based and as 1-based (`task_run_service.py:718`, 771): a stage ends with
  the report of the step before its last, and a failure of the last one changes nothing.
  The docstring at 692 speaks of the completion of all steps.
- The session that waited for the Agent writes the evidence from what it saw before the
  wait (`evidence_status_service.py:72`, called by `_finalize_*`): artifacts registered during
  the run are not counted, and it stays INCOMPLETE until somebody refreshes it.
- A disabled step is reported as skipped and counts as passed (`web_test_service.py:3973`,
  `task_run_service.py:757`): a stage, or a run, of disabled steps only is SUCCESS.
- A screenshot event ends in a nested `asyncio.run`, whose error is ignored
  (`artifact_service.py:302`); the first artifact report does not refresh the evidence (283).
- "queued" is written to a job's row after the send and may cover the worker's
  "running" (`celery_job_service.py:792`); a skipped message writes "skipped" over
  the status of the instance it was skipped for (`celery_tasks.py:590`).
- An edit that rearms a once job between Beat's send and its commit is lost
  (`celery_scheduler.py:114`); after a failure of Beat a once job is sent again.
- A reconnection between the close of the old socket and the "offline" of its end is
  shown offline until the next one (`agent_controller.py:877`).
- A credential's lease can be seen only between the commit that ends the exchange
  and its release: during the exchange the row lock alone excludes others.
- Two analyses of one fingerprint execute at once: the active lock is cleared when a
  task runs, and a waiting task does not count as active
  (`ticket_ai_analysis_service.py:2953`; `ticket_do.py:516` says one at a time).
- A recovered answer is written over "canceled" (`ticket_ai_analysis_service.py:4121`;
  docstring 3457, `docs/updates/2026-09-02-ticket-ai-cancel-and-outcome.md:15`), and takes
  no fingerprint. The scan may write "expired" over "canceled" (`ticket_ai_recovery_service.py:52`).
- The request id is committed only when the task waits or succeeds, so a restart
  never finds the answer of a task that was executing; a cancel of a running task
  waits for the audit row it holds; the status "read again" behind the answer is the old one.
- A missing Agent fails a task before its cached answer is looked at; an ineligible
  provider raises outside the handler and leaves a new task with its active lock.
- A cached answer that cannot be used keeps its task waiting until it expires after
  24 h (`ticket_ai_recovery_service.py:82`).
- A pull that failed or broke is written over a stop, and over a success
  (`ticket_log_pull_service.py:4995`; the docstring at 4977 promises that a stop is
  not covered by "success" or "failed", `test_ticket_log_pull_terminal_guard.py` states
  the unconditional write). A stop may cover a success too.
- The look for a stop before the parsing (`ticket_log_pull_service.py:3095`, docstring
  3061) returns the object of the same transaction. A pull stopped before its
  request is still submitted (2943), and a row of the platform that is still in
  progress does not keep it from being requested again (2881, docstring 2866).
- A pull may be answered by the refused row of an earlier one with the same
  parameters, up to five minutes old, and fail at once.
- A pull queued while its former thread leaves is dropped (2425); as "downloading" it
  stays until the API starts again. So does one whose worker died; and the API's
  start fails what the worker is downloading.
- A "submitting" record whose thread died has no deadline: it is probed for ever and
  never submitted again. Its probe may raise in every scan, which then takes back the
  cancellations it has made, so a stopped record beside it keeps waiting, its deadline
  passed, because the stop condition comes before the deadline
  (`ticket_log_pull_service.py:2770`, 2817).
- A worker killed between the commit of "downloading" and the queue (2811) leaves a
  download without a thread until the API starts again.
- What fails behind a written success turns it into an
  exception, without analysis.

Outside the models: `_writeback_credential_after_finish` reads a column `binding.revision`
that does not exist, so credentials are not written back after a run
(`task_run_service.py:986`). The status "revoked" is tied to an exception class the
server does not define (`celery_tasks.py:311`), so a terminated job shows as failed.

## 8. What is not modelled

The components of section 1 marked so, for the reasons given there, and of the
modelled ones: payloads, prompts, logs and page layout; task, version and binding
editing, archive, credentials of a run; execution logs, termination and calendar
of jobs. MySQL transactions are taken to see what was committed when they first read
and their own writes (REPEATABLE READ, the default, which no setting of the server
changes), to lock what they write until they commit, and to write the columns the code
assigns; Redis commands to be atomic and, in `CeleryJob`, to succeed.
