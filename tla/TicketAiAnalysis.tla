--------------------------- MODULE TicketAiAnalysis ---------------------------
(***************************************************************************)
(* AI analysis tasks with one request fingerprint: creation, execution,    *)
(* cancellation, retry, and the recovery of an answer that arrives after   *)
(* the connection to the Agent was lost                                    *)
(* (modules/ticket/service/ai/ticket_ai_analysis_service.py and            *)
(* ticket_ai_recovery_service.py).                                         *)
(*                                                                         *)
(* Tasks are executed by threads of two processes: the API executes new    *)
(* and retried tasks, the Celery worker those the recovery scan queues.    *)
(* Each process knows only its own active tasks.  An executor works on the *)
(* task it loaded: within a transaction the session returns the object it  *)
(* holds, so a second query shows nothing newer.  During the exchange with *)
(* the Agent the transaction stays open and holds the lock on the audit    *)
(* row, with the request id not yet committed.                             *)
(*                                                                         *)
(* AgentDispatch models what happens to the request between the gateway    *)
(* and the Agent, AgentConnection how a late answer reaches the cache.     *)
(***************************************************************************)
EXTENDS Naturals, FiniteSets

CONSTANTS
  Task,
  MaxAudit,     \* bound: audit records, one per attempt
  MaxRequest,   \* bound: requests sent to the Agent
  MaxEvents     \* bound: requests of users and restarts of a process

ASSUME BoundsAreNumbers == MaxAudit \in Nat /\ MaxRequest \in Nat /\ MaxEvents \in Nat

Process == {"api", "worker"}
Audit == 1 .. MaxAudit
Request == 1 .. MaxRequest
Status == {"created", "running", "pending", "success", "failed", "canceled"}
Active == {"created", "running"}
Executable == Active \cup {"pending"}

VARIABLES
  task,       \* ticket_ai_analysis_task, as committed; late: the recovery
              \* deadline of a waiting task is over
  audits,     \* audit records so far
  requestOf,  \* audit record -> the request id committed in it, or 0
  sent,       \* requests sent so far
  working,    \* requests whose connection was lost, still to be answered
  cache,      \* result cache: request -> what a late answer said
  exec,       \* process, task -> its executor
  creating,   \* tasks whose creation has passed its checks
  retrying,   \* task -> what a retry has read: a task "live" or "ended"
  canceling,  \* task -> where a cancel stands, and the audit record it read
  scan,       \* the recovery scan: what is left of its list
  events,     \* requests of users and restarts so far
  written,    \* history: request -> how often its answer was written back
  shared      \* history: tasks that both processes held at once

agentVars == <<sent, working, cache>>
userVars == <<events, creating, retrying, canceling>>
history == <<written, shared>>
vars == <<task, audits, requestOf, agentVars, exec, userVars, scan, history>>

Idle == [at |-> "idle", audit |-> 0, request |-> 0]
NoCancel == [at |-> "none", audit |-> 0]
NoScan == [todo |-> {}, wrote |-> FALSE]

Init ==
  /\ task = [t \in Task |-> [status |-> "absent", audit |-> 0, lock |-> FALSE, won |-> FALSE,
                        late |-> FALSE]]
  /\ audits = 0
  /\ requestOf = [a \in Audit |-> 0]
  /\ sent = 0 /\ working = {}
  /\ cache = [q \in Request |-> "none"]
  /\ exec = [p \in Process |-> [t \in Task |-> Idle]]
  /\ events = 0 /\ creating = {}
  /\ retrying = [t \in Task |-> "none"]
  /\ canceling = [t \in Task |-> NoCancel]
  /\ scan = NoScan
  /\ written = [q \in Request |-> 0] /\ shared = {}

-----------------------------------------------------------------------------
With(status) == {t \in Task : task[t].status \in status}
Winners == {t \in Task : task[t].status = "success" /\ task[t].won}

(* _mark_task_status: every status but success gives up the fingerprint of *)
(* success, and no caller passes one for the active lock.  The mutated     *)
(* form leaves the fingerprint of success alone.                           *)
MarkedButNotTheIndex(t, status) ==
  [task EXCEPT ![t].status = status, ![t].lock = FALSE, ![t].late = FALSE]
Marked(t, status) ==
  [task EXCEPT ![t].status = status, ![t].lock = FALSE, ![t].late = FALSE,
               ![t].won = @ /\ status = "success"]

(* The exchange holds the audit row, a waiting cancel the task row.        *)
AuditFree(a) ==
  \A p \in Process, t \in Task :
    ~(exec[p][t].at \in {"exchange", "dropped"} /\ exec[p][t].audit = a)
RowFree(t) == canceling[t].at # "holds"

(* A late answer to the last committed request of an attempt is there.     *)
Reported(a, what) ==
  /\ a # 0 /\ requestOf[a] # 0
  /\ cache[requestOf[a]] \in what

(* queue_task, guarded by the active tasks of the process.                 *)
Queued(p, t) == [exec EXCEPT ![p][t] = IF @.at = "idle" THEN [@ EXCEPT !.at = "queued"] ELSE @]
Shares(p, t) ==
  shared' = IF \E o \in Process \ {p} : exec[o][t].at # "idle" THEN shared \cup {t} ELSE shared
Goes(p, t, at) == exec' = [exec EXCEPT ![p][t].at = at]
Ends(p, t) == exec' = [exec EXCEPT ![p][t] = Idle]

-----------------------------------------------------------------------------
(* An executor.                                                            *)

(* The task is read, and the cache where its audit record names a request: *)
(* only a task that waits or runs is executed; the mutated form does not   *)
(* look at its status.                                                     *)
LoadAny(p, t) ==
  LET loaded(at, q) == [at |-> at, audit |-> task[t].audit, request |-> q]
  IN  /\ exec[p][t].at = "queued"
      /\ exec' = [exec EXCEPT ![p][t] =
           IF Reported(task[t].audit, {"good"})
           THEN loaded("recovered", requestOf[task[t].audit])
           ELSE loaded(IF task[t].status = "pending" THEN "waiting" ELSE "loaded", 0)]
      /\ UNCHANGED <<task, audits, requestOf, agentVars, userVars, scan, history>>
Load(p, t) ==
  LET loaded(at, q) == [at |-> at, audit |-> task[t].audit, request |-> q]
  IN  /\ exec[p][t].at = "queued"
      /\ exec' = [exec EXCEPT ![p][t] =
           IF task[t].status \notin Executable THEN Idle
           ELSE IF Reported(task[t].audit, {"good"})
           THEN loaded("recovered", requestOf[task[t].audit])
           ELSE loaded(IF task[t].status = "pending" THEN "waiting" ELSE "loaded", 0)]
      /\ UNCHANGED <<task, audits, requestOf, agentVars, userVars, scan, history>>

(* No ticket, no repository mapping, no Agent: failed before a late answer *)
(* is asked for.                                                           *)
CannotStart(p, t) ==
  /\ exec[p][t].at \in {"loaded", "waiting", "recovered"}
  /\ RowFree(t) /\ AuditFree(exec[p][t].audit)
  /\ task' = Marked(t, "failed")
  /\ Ends(p, t)
  /\ UNCHANGED <<audits, requestOf, agentVars, userVars, scan, history>>

(* The provider is not eligible any more, a row stays locked, or the ticket *)
(* cannot be read after the commit of running: the exception ends the      *)
(* thread and leaves the task as it is.                                    *)
ThreadDies(p, t) ==
  /\ exec[p][t].at \in {"loaded", "waiting", "recovered", "running"}
  /\ Ends(p, t)
  /\ UNCHANGED <<task, audits, requestOf, agentVars, userVars, scan, history>>

(* A late answer is written back whatever the task has become; no          *)
(* fingerprint of success is taken.  The mutated form writes a status the  *)
(* others do not know.                                                     *)
WriteRecoveredAsSuch(p, t) ==
  /\ exec[p][t].at = "recovered" /\ RowFree(t) /\ AuditFree(exec[p][t].audit)
  /\ task' = Marked(t, "recovered")
  /\ written' = [written EXCEPT ![exec[p][t].request] = @ + 1]
  /\ Ends(p, t)
  /\ UNCHANGED <<audits, requestOf, agentVars, userVars, scan, shared>>
WriteRecovered(p, t) ==
  /\ exec[p][t].at = "recovered" /\ RowFree(t) /\ AuditFree(exec[p][t].audit)
  /\ task' = Marked(t, "success")
  /\ written' = [written EXCEPT ![exec[p][t].request] = @ + 1]
  /\ Ends(p, t)
  /\ UNCHANGED <<audits, requestOf, agentVars, userVars, scan, shared>>

(* No good answer yet: a waiting task goes on waiting.                     *)
KeepWaiting(p, t) ==
  /\ exec[p][t].at = "waiting"
  /\ Ends(p, t)
  /\ UNCHANGED <<task, audits, requestOf, agentVars, userVars, scan, history>>

MarkRunning(p, t) ==
  /\ exec[p][t].at = "loaded" /\ RowFree(t)
  /\ task' = Marked(t, "running")
  /\ Goes(p, t, "running")
  /\ UNCHANGED <<audits, requestOf, agentVars, userVars, scan, history>>

(* The request id goes into the audit row, uncommitted, and the request to *)
(* the gateway.  The task was read once more after the commit, before or   *)
(* after what happened since; the status "read again" behind the answer is *)
(* that one.                                                               *)
Send(p, t) ==
  /\ exec[p][t].at = "running" /\ AuditFree(exec[p][t].audit)
  /\ sent < MaxRequest
  /\ sent' = sent + 1
  /\ \E at \in {"exchange"} \cup {a \in {"dropped"} : task[t].status = "canceled"} :
       exec' = [exec EXCEPT ![p][t] = [@ EXCEPT !.at = at, !.request = sent']]
  /\ UNCHANGED <<task, audits, requestOf, working, cache, userVars, scan, history>>

(* The request cannot be built, or the audit row stays locked by another   *)
(* executor of the task.                                                   *)
CannotSend(p, t) ==
  /\ exec[p][t].at = "running"
  /\ Goes(p, t, "failing")
  /\ UNCHANGED <<task, audits, requestOf, agentVars, userVars, scan, history>>

(* The gateway returns and the status "read again" is canceled: whatever   *)
(* came back is dropped.                                                   *)
Discard(p, t) ==
  /\ exec[p][t].at = "dropped"
  /\ Ends(p, t)
  /\ UNCHANGED <<task, audits, requestOf, agentVars, userVars, scan, history>>

CommitRequest(p, t) ==
  requestOf' = [requestOf EXCEPT ![exec[p][t].audit] = exec[p][t].request]

(* The gateway returns the loss of the connection.                         *)
EnterPendingRecovery(p, t) ==
  /\ exec[p][t].at = "exchange" /\ RowFree(t)
  /\ task' = Marked(t, "pending")
  /\ CommitRequest(p, t)
  /\ working' = working \cup {exec[p][t].request}
  /\ Ends(p, t)
  /\ UNCHANGED <<audits, sent, cache, userVars, scan, history>>

(* The gateway returns an analysis.  It is written back, unless another    *)
(* task holds the fingerprint of success: the unique index finds it, a     *)
(* snapshot might not.  The mutated form goes without the index.           *)
WriteBackUnchecked(p, t) ==
  /\ exec[p][t].at = "exchange" /\ RowFree(t)
  /\ task' = [Marked(t, "success") EXCEPT ![t].won = TRUE]
  /\ CommitRequest(p, t)
  /\ written' = [written EXCEPT ![exec[p][t].request] = @ + 1]
  /\ Ends(p, t)
  /\ UNCHANGED <<audits, agentVars, userVars, scan, shared>>
WriteBack(p, t) ==
  /\ exec[p][t].at = "exchange" /\ RowFree(t)
  /\ Winners \ {t} = {}
  /\ task' = [Marked(t, "success") EXCEPT ![t].won = TRUE]
  /\ CommitRequest(p, t)
  /\ written' = [written EXCEPT ![exec[p][t].request] = @ + 1]
  /\ Ends(p, t)
  /\ UNCHANGED <<audits, agentVars, userVars, scan, shared>>

FinishDuplicate(p, t) ==
  /\ exec[p][t].at = "exchange" /\ RowFree(t)
  /\ Winners \ {t} # {}
  /\ task' = Marked(t, "canceled")
  /\ Ends(p, t)
  /\ UNCHANGED <<audits, requestOf, agentVars, userVars, scan, history>>

(* The gateway returns an error or an answer that cannot be used, or the   *)
(* database chose this transaction to end a deadlock with a cancel:        *)
(* rollback, which takes the request id with it.                           *)
RollBack(p, t) ==
  /\ exec[p][t].at = "exchange"
  /\ Goes(p, t, "failing")
  /\ UNCHANGED <<task, audits, requestOf, agentVars, userVars, scan, history>>

(* The handler of the exception writes failed, whatever the task is now.   *)
MarkFailed(p, t) ==
  /\ exec[p][t].at = "failing" /\ RowFree(t) /\ AuditFree(exec[p][t].audit)
  /\ task' = Marked(t, "failed")
  /\ Ends(p, t)
  /\ UNCHANGED <<audits, requestOf, agentVars, userVars, scan, history>>

-----------------------------------------------------------------------------
(* The Agent answers late: the answer goes to the cache, where it stays    *)
(* for a day.  No deadline is that far away.  What becomes of the answer   *)
(* to a request makes a difference only while the last attempt of a task   *)
(* that is still executable names it.                                      *)
Awaited(q) == \E t \in With(Executable) : task[t].audit # 0 /\ requestOf[task[t].audit] = q

LateAnswer(q) ==
  /\ q \in working /\ Awaited(q)
  /\ working' = working \ {q}
  /\ \E what \in {"good", "bad"} : cache' = [cache EXCEPT ![q] = what]
  /\ UNCHANGED <<task, audits, requestOf, sent, exec, userVars, scan, history>>

CacheExpires(q) ==
  /\ cache[q] # "none" /\ Awaited(q)
  /\ \A t \in With({"pending"}) : requestOf[task[t].audit] = q => task[t].late
  /\ cache' = [cache EXCEPT ![q] = "none"]
  /\ UNCHANGED <<task, audits, requestOf, sent, working, exec, userVars, scan, history>>

DeadlinePasses(t) ==
  /\ task[t].status = "pending" /\ ~task[t].late
  /\ task' = [task EXCEPT ![t].late = TRUE]
  /\ UNCHANGED <<audits, requestOf, agentVars, exec, userVars, scan, history>>

-----------------------------------------------------------------------------
(* The recovery scan.                                                      *)

List ==
  /\ scan.todo = {} /\ With({"pending"}) # {}
  /\ scan' = [todo |-> {[task |-> t, audit |-> task[t].audit, late |-> task[t].late] :
                          t \in With({"pending"})},
              wrote |-> FALSE]
  /\ UNCHANGED <<task, audits, requestOf, agentVars, exec, userVars, history>>

(* The task is "read again": after a commit of the scan that is true.  The *)
(* mutated form does not find the deadline in the context of the task.     *)
RereadWithoutDeadline(e) == [e EXCEPT !.late = FALSE]
Reread(e) ==
  IF scan.wrote THEN [e EXCEPT !.audit = task[e.task].audit, !.late = @ /\ task[e.task].late]
                ELSE e
StillPending(e) == scan.wrote => task[e.task].status = "pending"
Done(e, wrote) == scan' = [todo |-> scan.todo \ {e}, wrote |-> scan.wrote \/ wrote]

Requeue(e) ==
  /\ e \in scan.todo /\ StillPending(e)
  /\ Reported(Reread(e).audit, {"good", "bad"})
  /\ exec' = Queued("worker", e.task) /\ Shares("worker", e.task)
  /\ Done(e, FALSE)
  /\ UNCHANGED <<task, audits, requestOf, agentVars, userVars, written>>

MarkExpired(e) ==
  /\ e \in scan.todo /\ StillPending(e)
  /\ ~Reported(Reread(e).audit, {"good", "bad"}) /\ Reread(e).late
  /\ RowFree(e.task) /\ AuditFree(Reread(e).audit)
  /\ task' = Marked(e.task, "failed")
  /\ Done(e, TRUE)
  /\ UNCHANGED <<audits, requestOf, agentVars, exec, userVars, history>>

(* Nothing to do yet, no longer pending, or an exception.                  *)
Pass(e) ==
  /\ e \in scan.todo
  /\ \/ ~StillPending(e)
     \/ ~Reported(Reread(e).audit, {"good", "bad"}) /\ ~Reread(e).late
     \/ ~RowFree(e.task) \/ ~AuditFree(Reread(e).audit)
  /\ Done(e, FALSE)
  /\ UNCHANGED <<task, audits, requestOf, agentVars, exec, userVars, history>>

-----------------------------------------------------------------------------
(* Users.  A request reads, and writes later.                              *)

(* The requests of users are bounded, together with the restarts.          *)
Happens == events < MaxEvents /\ events' = events + 1

(* The checks of a submission; otherwise it gets the task that is there.   *)
Check(t) ==
  /\ Happens
  /\ t \in With({"absent"}) \ creating
  /\ Winners = {} /\ With(Active) = {}
  /\ creating' = creating \cup {t}
  /\ UNCHANGED <<task, audits, requestOf, agentVars, exec, retrying, canceling, scan, history>>

(* The unique index on the active lock lets one of several through.        *)
Create(t) ==
  /\ t \in creating
  /\ creating' = creating \ {t}
  /\ IF \E s \in Task : task[s].lock
     THEN UNCHANGED <<task, audits, exec>>
     ELSE /\ audits < MaxAudit
          /\ audits' = audits + 1
          /\ task' = [task EXCEPT ![t] = [status |-> "created", audit |-> audits', lock |-> TRUE,
                                          won |-> FALSE, late |-> FALSE]]
          /\ exec' = Queued("api", t)
  /\ UNCHANGED <<events, requestOf, agentVars, retrying, canceling, scan, history>>

(* A retry is refused for a waiting task, and given the result or the task *)
(* of another one with the fingerprint where there is one.                 *)
ReadForRetry(t) ==
  /\ Happens
  /\ retrying[t] = "none"
  /\ task[t].status \in Active \cup {"failed", "canceled"}
  /\ (Winners \cup With(Active)) \ {t} = {}
  /\ retrying' = [retrying EXCEPT ![t] = IF task[t].status \in Active THEN "live" ELSE "ended"]
  /\ UNCHANGED <<task, audits, requestOf, agentVars, exec, creating, canceling, scan, history>>

(* What it read decides: after an end there is a new audit record and the  *)
(* task starts over, otherwise it is only queued.                          *)
Restarted(t) ==
  /\ audits < MaxAudit
  /\ audits' = audits + 1
  /\ task' = [task EXCEPT ![t].status = "created", ![t].won = FALSE, ![t].late = FALSE,
                           ![t].audit = audits']

Retry(t) ==
  /\ retrying[t] # "none"
  /\ IF exec["api"][t].at # "idle"
     THEN UNCHANGED <<task, audits, exec, shared>>
     ELSE /\ RowFree(t)
          /\ IF retrying[t] = "live" THEN UNCHANGED <<task, audits>> ELSE Restarted(t)
          /\ exec' = Queued("api", t)
          /\ Shares("api", t)
  /\ retrying' = [retrying EXCEPT ![t] = "none"]
  /\ UNCHANGED <<events, requestOf, agentVars, creating, canceling, scan, written>>

ReadForCancel(t) ==
  /\ Happens
  /\ canceling[t].at = "none"
  /\ task[t].status \in Executable
  /\ canceling' = [canceling EXCEPT ![t] = [at |-> "read", audit |-> task[t].audit]]
  /\ UNCHANGED <<task, audits, requestOf, agentVars, exec, creating, retrying, scan, history>>

(* The cancel updates the task row and waits for the audit row ...         *)
HoldForCancel(t) ==
  /\ canceling[t].at = "read" /\ ~AuditFree(canceling[t].audit)
  /\ canceling' = [canceling EXCEPT ![t].at = "holds"]
  /\ UNCHANGED <<events, task, audits, requestOf, agentVars, exec, creating, retrying, scan,
                 history>>

(* ... until the wait times out or the database ends it with an error, ... *)
CancelFails(t) ==
  /\ canceling[t].at = "holds"
  /\ canceling' = [canceling EXCEPT ![t] = NoCancel]
  /\ UNCHANGED <<events, task, audits, requestOf, agentVars, exec, creating, retrying, scan,
                 history>>

(* ... or commits.                                                         *)
Cancel(t) ==
  /\ canceling[t].at # "none" /\ AuditFree(canceling[t].audit)
  /\ task' = Marked(t, "canceled")
  /\ canceling' = [canceling EXCEPT ![t] = NoCancel]
  /\ UNCHANGED <<events, audits, requestOf, agentVars, exec, creating, retrying, scan, history>>

-----------------------------------------------------------------------------
(* The API restarts: tasks that were created or running are queued where a *)
(* late answer is known, and failed otherwise.                             *)
RestartApi ==
  LET known == {t \in With(Active) : Reported(task[t].audit, {"good", "bad"})}
  IN  /\ Happens
      /\ \A t \in With(Active) \ known : AuditFree(task[t].audit) \/ exec["worker"][t].at = "idle"
      /\ task' = [t \in Task |-> IF t \in With(Active) \ known
                                 THEN [task[t] EXCEPT !.status = "failed", !.lock = FALSE,
                                                      !.won = FALSE]
                                 ELSE task[t]]
      /\ exec' = [exec EXCEPT !["api"] =
                    [t \in Task |-> IF t \in known THEN [Idle EXCEPT !.at = "queued"] ELSE Idle]]
      /\ creating' = {} /\ retrying' = [t \in Task |-> "none"]
      /\ canceling' = [t \in Task |-> NoCancel]
      /\ shared' = shared \cup {t \in known : exec["worker"][t].at # "idle"}
      /\ UNCHANGED <<audits, requestOf, agentVars, scan, written>>

(* The Celery worker restarts: its transactions are rolled back.           *)
RestartWorker ==
  /\ Happens
  /\ exec' = [exec EXCEPT !["worker"] = [t \in Task |-> Idle]]
  /\ scan' = NoScan
  /\ UNCHANGED <<task, audits, requestOf, agentVars, creating, retrying, canceling, history>>

-----------------------------------------------------------------------------
Execute(p, t) ==
  \/ Load(p, t) \/ CannotStart(p, t) \/ ThreadDies(p, t)
  \/ WriteRecovered(p, t) \/ KeepWaiting(p, t)
  \/ MarkRunning(p, t) \/ Send(p, t) \/ CannotSend(p, t)
  \/ Discard(p, t) \/ EnterPendingRecovery(p, t) \/ WriteBack(p, t)
  \/ FinishDuplicate(p, t) \/ RollBack(p, t) \/ MarkFailed(p, t)

Scan == List \/ \E e \in scan.todo : Requeue(e) \/ MarkExpired(e) \/ Pass(e)

User(t) ==
  \/ Check(t) \/ Create(t) \/ ReadForRetry(t) \/ Retry(t)
  \/ ReadForCancel(t) \/ HoldForCancel(t) \/ CancelFails(t) \/ Cancel(t)

Next ==
  \/ \E p \in Process, t \in Task : Execute(p, t)
  \/ \E t \in Task : User(t) \/ DeadlinePasses(t)
  \/ \E q \in Request : LateAnswer(q) \/ CacheExpires(q)
  \/ Scan \/ RestartApi \/ RestartWorker

Spec == Init /\ [][Next]_vars

(* Deadlines pass, a waiting cancel ends within its time limit, cached     *)
(* answers expire.                                                         *)
TimePasses ==
  \/ \E t \in Task : DeadlinePasses(t) \/ CancelFails(t) \/ Cancel(t)
  \/ \E q \in Request : CacheExpires(q)

(* The scan runs every minute and gets through its list, and time passes.  *)
(* Nothing is asked of executors, Agents and users.                        *)
Fairness ==
  /\ WF_vars(Scan)
  /\ WF_vars(TimePasses)

FairSpec == Spec /\ Fairness

-----------------------------------------------------------------------------
(* Every variable has its type; no other status is ever written.           *)
TypeOK ==
  /\ task \in [Task -> [status : Status \cup {"absent"}, audit : 0 .. MaxAudit,
                        lock : BOOLEAN, won : BOOLEAN, late : BOOLEAN]]
  /\ audits \in 0 .. MaxAudit /\ sent \in 0 .. MaxRequest
  /\ requestOf \in [Audit -> 0 .. MaxRequest]
  /\ working \subseteq 0 .. MaxRequest
  /\ cache \in [Request -> {"none", "good", "bad"}]
  /\ events \in 0 .. MaxEvents /\ creating \subseteq Task
  /\ exec \in [Process -> [Task ->
       [at : {"idle", "queued", "loaded", "waiting", "recovered", "running", "exchange",
              "dropped", "failing"},
        audit : 0 .. MaxAudit, request : 0 .. MaxRequest]]]
  /\ retrying \in [Task -> {"none", "live", "ended"}]
  /\ canceling \in [Task -> [at : {"none", "read", "holds"}, audit : 0 .. MaxAudit]]
  /\ scan \in [todo : SUBSET [task : Task, audit : 0 .. MaxAudit, late : BOOLEAN], wrote : BOOLEAN]
  /\ written \in [Request -> Nat] /\ shared \subseteq Task

(* The two unique columns follow the status, whoever writes it: only a     *)
(* success keeps the fingerprint of success, and only a task that was just *)
(* created keeps the lock that turns other submissions away.  A cancel or  *)
(* an executor that writes over what it did not read would leave an entry  *)
(* behind that refuses the fingerprint for ever.                           *)
NoStrayIndexEntry ==
  \A t \in Task : /\ task[t].won => task[t].status = "success"
                  /\ task[t].lock => task[t].status = "created"

(* However many tasks of one fingerprint run at once (the lock is gone as  *)
(* soon as they run, and a waiting task does not count as active), one     *)
(* keeps the fingerprint of success: the others end as duplicates.         *)
OneWinner == Cardinality(Winners) <= 1

(* A late answer is written back once, although the scan queues tasks from *)
(* a list that may be stale by then, answers stay in the cache for a day   *)
(* and users cancel and retry: a task that has ended is not executed       *)
(* again.  The exception is a task that both processes held at once (a     *)
(* retry queues it in the API, the scan in the worker): they know nothing  *)
(* of each other.                                                          *)
AnswerWrittenOnce == \A q \in Request : written[q] > 1 => shared # {}

(* A task that waits for a late answer ends or starts over, even if no     *)
(* executor ever runs again: the deadline does it, once a cached answer    *)
(* that cannot be used has expired.                                        *)
RecoveryEnds == \A t \in Task : task[t].status = "pending" ~> task[t].status # "pending"
=============================================================================
