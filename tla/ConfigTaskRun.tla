---------------------------- MODULE ConfigTaskRun ----------------------------
(***************************************************************************)
(* Runs of a configuration task                                            *)
(* (modules/configuration_task/service/task_run_service.py,                *)
(* stage_service.py, evidence_status_service.py) and the Agent that        *)
(* executes them (client_new/services/web_test_service.py).                *)
(*                                                                         *)
(* A run is a database row with its stage rows.  It is written by the      *)
(* request that created it, by a stop request, by the approver, by the     *)
(* operator who retries a stage, by the handler of the Agent's events and  *)
(* by the recovery job.  Each of them reads, decides, and writes later:    *)
(* what a transaction read is kept in txn (in seen, for the session of a   *)
(* request that waits for the Agent) until it commits, so another writer   *)
(* may come in between.                                                    *)
(*                                                                         *)
(* Steps, artifacts and messages carry their outcome only.  Time is what   *)
(* it causes: a wait ends (StopWaiting), a run makes no progress for the   *)
(* recovery threshold (GoQuiet).                                           *)
(***************************************************************************)
EXTENDS Naturals, Sequences, FiniteSets

CONSTANTS
  Run,              \* run ids
  Agent,            \* agent codes
  NoAgent,          \* "not chosen yet"
  Stages,           \* number of stages of the task version
  Steps,            \* number of steps of the task version
  StageOf,          \* the stage each step belongs to
  WriteStages,      \* the stages of mode WRITE
  NeedsShot,        \* the stages whose evidence policy is REQUIRED
  Disabled,         \* the steps with enabled = false
  Identified,       \* the runs whose stage rows list the ids of their steps
  Manual,           \* the runs started with manual_login_enabled
  Continue,         \* failure_strategy = "continue"?
  MaxRuns,          \* bound: runs that are created
  InFlight,         \* bound: transactions that overlap
  MaxStops,         \* bound: runs somebody asks to stop
  MaxLost,          \* bound: event messages the Agent fails to send
  MaxRetries,       \* bound: stage retries
  MaxCrashes        \* bound: restarts of the server and of the Agent

Stage == 1 .. Stages
Step  == 1 .. Steps

ASSUME ConfigTaskAssumption ==
  /\ NoAgent \notin Agent
  /\ Stages \in Nat \ {0} /\ Steps \in Nat \ {0}
  /\ StageOf \in [Step -> Stage]
  /\ \A k \in Stage : \E i \in Step : StageOf[i] = k
  /\ WriteStages \subseteq Stage /\ NeedsShot \subseteq Stage
  /\ Disabled \subseteq Step
  /\ Identified \subseteq Run /\ Manual \subseteq Run
  /\ Continue \in BOOLEAN
  /\ MaxRuns \in Nat /\ InFlight \in Nat \ {0}
  /\ MaxStops \in Nat /\ MaxLost \in Nat
  /\ MaxRetries \in Nat /\ MaxCrashes \in Nat

VARIABLES
  status,     \* run row: status, "none" before the row exists
  business,   \* run row: business_status
  code,       \* run row: error_code
  agent,      \* run row: agent_code
  steps,      \* run row: the step results in result_json
  quiet,      \* runs without an update for the recovery threshold
  stage,      \* stage rows: status, "none" before the snapshot
  approved,   \* stage rows with approved_by set, as <<run, stage>>
  evidence,   \* evidence_status of the run and of its stages
  shots,      \* registered artifact of each stage: its availability
  caller,     \* where create_run_and_execute stands for each run
  stopper,    \* where stop_run stands for each run
  seen,       \* what the sessions of these two requests see of the artifacts
  txn,        \* transactions that have read and not yet committed
  stale,      \* history: runs whose rows had changed when one committed
  exec,       \* the Agent's execution of each run
  results,    \* the step results the Agent has produced
  wire,       \* messages on their way from the Agent, oldest first
  lost, retries, crashes

rowVars    == <<status, business, code, agent, steps, quiet>>
stageVars  == <<stage, approved, evidence, shots>>
serverVars == <<caller, stopper, seen, txn, stale>>
agentVars  == <<exec, results, wire>>
counters   == <<lost, retries, crashes>>
vars == <<rowVars, stageVars, serverVars, agentVars, counters>>

Ended       == {"SUCCESS", "FAILED", "CANCELLED"}
RunStatus   == Ended \cup {"none", "RUNNING"}
\* "AGENT_SEND_FAILED" stands for "AGENT_SEND_ERROR" (an exception) as well.
ErrorCode   == {"", "EXECUTION_FAILED", "AGENT_SEND_FAILED", "RUN_CANCELLED",
                "STAGE_REJECTED", "RUN_ORPHAN_RECOVERED"}
StageEnded  == {"SUCCESS", "FAILED", "SKIPPED", "CANCELLED"}
StageOpen   == {"PENDING", "WAITING_APPROVAL"}
StageStatus == StageEnded \cup StageOpen \cup {"none", "RUNNING"}
StepStatus  == {"none", "running", "passed", "failed", "skipped"}
Evidence    == {"NOT_REQUIRED", "PENDING", "COMPLETE", "INCOMPLETE", "FAILED"}

\* "ok", "bad" and "lost" are the three ways send_message can end.
CallerState == {"idle", "checked", "added", "ready", "waiting", "ok", "bad",
                "lost", "done", "gone"}
StopState   == {"idle", "asking", "told", "done"}
Phase       == {"none", "starting", "prepared", "running", "stepping",
                "closing", "ended"}

\* Event messages of the Agent, and the answer to its run_case request.
Message == [type : {"status", "step", "shot", "finished", "answer"},
            at : Nat, outcome : StepStatus]
\* The event handler's transactions come first: it does one at a time.
EventOp == {"step", "finished", "progress"}
\* An artifact as a session sees it: "norow" before it sees stage rows.
View == [Stage -> {"norow", "none", "ONLINE", "OFFLINE"}]
Txn == [op : EventOp \cup {"approve", "reject", "retry", "recover", "report"},
        run : Run, at : Nat, outcome : StepStatus, ran : RunStatus,
        was : [Stage -> StageStatus], had : [Step -> StepStatus], saw : View]

TypeOK ==
  /\ status \in [Run -> RunStatus] /\ business \in [Run -> RunStatus]
  /\ code \in [Run -> ErrorCode]
  /\ agent \in [Run -> Agent \cup {NoAgent}]
  /\ steps \in [Run -> [Step -> StepStatus]]
  /\ quiet \subseteq Run
  /\ stage \in [Run -> [Stage -> StageStatus]]
  /\ approved \subseteq Run \X WriteStages
  /\ evidence \in [Run -> [run : Evidence, stage : [Stage -> Evidence]]]
  /\ shots \in [Run -> [Stage -> {"none", "ONLINE", "OFFLINE"}]]
  /\ caller \in [Run -> CallerState]
  /\ stopper \in [Run -> StopState]
  /\ seen \in [Run -> [answer : View, stop : View]]
  /\ \A t \in txn : t \in Txn
  /\ stale \subseteq Run
  /\ exec \in [Run -> [phase : Phase, pos : 0 .. Steps,
                       cancel : BOOLEAN, ok : BOOLEAN]]
  /\ results \in [Run -> [Step -> StepStatus]]
  /\ wire \in [Run -> Seq(Message)]
  /\ lost \in 0 .. MaxLost /\ retries \in 0 .. MaxRetries
  /\ crashes \in 0 .. MaxCrashes

NoStages == [k \in Stage |-> "none"]
NotSeen == [k \in Stage |-> "norow"]
Unseen == [answer |-> NotSeen, stop |-> NotSeen]
NoSteps == [i \in Step |-> "none"]
NotRequired == [run |-> "NOT_REQUIRED",
                stage |-> [k \in Stage |-> "NOT_REQUIRED"]]

Init ==
  /\ status = [r \in Run |-> "none"] /\ business = status
  /\ code = [r \in Run |-> ""]
  /\ agent = [r \in Run |-> NoAgent]
  /\ steps = [r \in Run |-> NoSteps]
  /\ quiet = {}
  /\ stage = [r \in Run |-> NoStages]
  /\ approved = {}
  /\ evidence = [r \in Run |-> NotRequired]
  /\ shots = [r \in Run |-> [k \in Stage |-> "none"]]
  /\ caller = [r \in Run |-> "idle"]
  /\ stopper = [r \in Run |-> "idle"]
  /\ seen = [r \in Run |-> Unseen]
  /\ txn = {} /\ stale = {}
  /\ exec = [r \in Run |-> [phase |-> "none", pos |-> 0,
                            cancel |-> FALSE, ok |-> TRUE]]
  /\ results = [r \in Run |-> NoSteps]
  /\ wire = [r \in Run |-> <<>>]
  /\ lost = 0 /\ retries = 0 /\ crashes = 0

----------------------------------------------------------------------------
(* Evidence: _calculate_stage_status and _aggregate_run_status.            *)

\* The mutated form does not ask whether the artifact can be retrieved.
AnyShotWillDo(k, own, run, shot) ==
  IF k \notin NeedsShot \/ shot = "norow" THEN "NOT_REQUIRED"
  ELSE IF shot # "none" THEN "COMPLETE"
  ELSE IF {own, run} \cap (Ended \cup StageEnded) # {} THEN "INCOMPLETE"
  ELSE "PENDING"

StageEvidence(k, own, run, shot) ==
  CASE k \notin NeedsShot \/ shot = "norow" -> "NOT_REQUIRED"
    [] k \in NeedsShot /\ shot = "OFFLINE" -> "FAILED"
    [] k \in NeedsShot /\ shot = "ONLINE" -> "COMPLETE"
    [] k \in NeedsShot /\ shot = "none" ->
         IF run \in Ended \/ own \in StageEnded THEN "INCOMPLETE" ELSE "PENDING"

Aggregate(run, found) ==
  CASE found \subseteq {"NOT_REQUIRED"} -> "NOT_REQUIRED"
    [] "FAILED" \in found -> "FAILED"
    [] "FAILED" \notin found /\ found \cap {"INCOMPLETE", "PENDING"} # {} ->
         IF run \in Ended THEN "INCOMPLETE" ELSE "PENDING"
    [] "COMPLETE" \in found /\ found \subseteq {"COMPLETE", "NOT_REQUIRED"} ->
         "COMPLETE"

\* What a transaction sees from now on: MySQL's snapshot, REPEATABLE READ.
SeenNow(r) ==
  [k \in Stage |-> IF stage[r][k] = "none" THEN "norow" ELSE shots[r][k]]

\* refresh_run_and_stages: run, own and saw are the rows as the caller's
\* transaction sees them, what it has just written included.  Stage rows it
\* does not see are not written; without any, nothing is required.
Refresh(r, run, own, saw) ==
  LET ev == [k \in Stage |-> StageEvidence(k, own[k], run, saw[k])]
  IN  evidence' = [evidence EXCEPT ![r] =
        [run |-> Aggregate(run, {ev[k] : k \in Stage}),
         stage |-> [k \in Stage |-> IF saw[k] = "norow" THEN @.stage[k] ELSE ev[k]]]]

----------------------------------------------------------------------------
(* Writes that several operations share.                                   *)

\* update_run: every update of the row renews update_time.
Touch(r) == quiet' = quiet \ {r}

\* The mutated form leaves the previous error_code in place.
KeepCode(r, verdict, why) ==
  /\ status' = [status EXCEPT ![r] = verdict]
  /\ business' = [business EXCEPT ![r] = verdict]
  /\ code' = [code EXCEPT ![r] = IF why = "" THEN @ ELSE why]
  /\ Touch(r)

\* The outcome of a run: status, business_status and error_code together.
Conclude(r, verdict, why) ==
  /\ status' = [status EXCEPT ![r] = verdict]
  /\ business' = [business EXCEPT ![r] = verdict]
  /\ code' = [code EXCEPT ![r] = why]
  /\ Touch(r)

Busy == \E t \in txn : t.op \in EventOp
Room == Cardinality(txn) < InFlight

\* Of what it has read a transaction keeps what its commit uses.
Pending(op, r, at, outcome, ran, was, had, saw) ==
  [op |-> op, run |-> r, at |-> at, outcome |-> outcome, ran |-> ran,
   was |-> IF op = "progress" THEN NoStages ELSE was,
   had |-> IF op \in {"step", "progress"} THEN had ELSE NoSteps,
   saw |-> IF op \in {"step", "finished", "recover", "report"} THEN saw ELSE NotSeen]

\* A transaction reads the rows it will decide on ...
Read(op, r, at, outcome) ==
  /\ txn' = txn \cup {Pending(op, r, at, outcome, status[r], stage[r], steps[r],
                              SeenNow(r))}
  /\ UNCHANGED stale
\* ... and commits; a handler with a second transaction goes on to it.
Committed(t) == txn' = txn \ {t}
GoOn(t) ==
  txn' = (txn \ {t}) \cup {Pending("progress", t.run, t.at, t.outcome, t.ran,
                                   t.was, t.had, t.saw)}

\* One that writes stage rows may find them or the run changed since it read.
Overtaken(t) == t.ran # status[t.run] \/ t.was # stage[t.run]
NoteStale(t) == stale' = IF Overtaken(t) THEN stale \cup {t.run} ELSE stale

StageSet(r, k, s) == stage' = [stage EXCEPT ![r][k] = s]
Moved(r, place) == caller' = [caller EXCEPT ![r] = place]

----------------------------------------------------------------------------
(* create_run_and_execute: _prepare_run in the thread pool, the send, and  *)
(* the final write in the thread pool.                                     *)

\* get_active_by_agent; the mutated form only looks at the task's own runs.
OwnRunOnly(r, a) == status[r] # "RUNNING"
AgentFree(r, a) == \A q \in Run : ~ (status[q] = "RUNNING" /\ agent[q] = a)

CheckAgent(r, a) ==
  /\ caller[r] = "idle"
  /\ Cardinality({q \in Run : caller[q] # "idle"}) < MaxRuns
  /\ AgentFree(r, a)
  /\ agent' = [agent EXCEPT ![r] = a]
  /\ Moved(r, "checked")
  /\ UNCHANGED <<status, business, code, steps, quiet, stageVars, stopper, seen, txn, stale,
                 agentVars, counters>>

AddRun(r) ==
  /\ caller[r] = "checked"
  /\ Conclude(r, "RUNNING", "")
  /\ Moved(r, "added")
  /\ UNCHANGED <<agent, steps, stageVars, stopper, seen, txn, stale, agentVars, counters>>

\* snapshot_run_stages and the second commit: a stop or the recovery job may
\* have ended the run since the first, nothing here looks.
Snapshot(r) ==
  /\ caller[r] = "added"
  /\ stage' = [stage EXCEPT ![r] = [k \in Stage |->
                 IF k \in WriteStages THEN "WAITING_APPROVAL" ELSE "PENDING"]]
  /\ Touch(r)
  /\ Moved(r, "ready")
  /\ UNCHANGED <<status, business, code, agent, steps, approved, evidence,
                 shots, stopper, seen, txn, stale, agentVars, counters>>

\* Building the message reads the row again after the commit: what the
\* session sees is settled before the wait.
SessionSees(r) == seen' = [seen EXCEPT ![r].answer = SeenNow(r)]

Send(r) ==
  /\ caller[r] = "ready"
  /\ SessionSees(r) /\ Moved(r, "waiting")
  /\ exec' = [exec EXCEPT ![r].phase = "starting"]
  /\ UNCHANGED <<rowVars, stageVars, stopper, txn, stale, results, wire, counters>>

\* The Agent is not connected or the send raises.
SendFails(r) ==
  /\ caller[r] = "ready"
  /\ SessionSees(r) /\ Moved(r, "lost")
  /\ UNCHANGED <<rowVars, stageVars, stopper, txn, stale, agentVars, counters>>

\* The wait ends without an answer while the Agent goes on.
StopWaiting(r) ==
  /\ caller[r] = "waiting"
  /\ Moved(r, "lost")
  /\ UNCHANGED <<rowVars, stageVars, stopper, seen, txn, stale, agentVars, counters>>

\* The answer completes the future of the request, if it still waits.
TakeAnswer(r) ==
  /\ ~ Busy
  /\ wire[r] # <<>> /\ Head(wire[r]).type = "answer"
  /\ wire' = [wire EXCEPT ![r] = Tail(@)]
  /\ IF caller[r] = "waiting"
       THEN Moved(r, IF Head(wire[r]).outcome = "passed" THEN "ok" ELSE "bad")
       ELSE UNCHANGED caller
  /\ UNCHANGED <<rowVars, stageVars, stopper, seen, txn, stale, exec, results, counters>>

\* _finalize_success and _finalize_failure: no look at the present status,
\* and evidence from what there was before the Agent began.
Finalize(r) ==
  /\ \/ /\ caller[r] = "ok" /\ Conclude(r, "SUCCESS", "")
        /\ steps' = [steps EXCEPT ![r] = results[r]]
     \/ /\ caller[r] = "bad" /\ Conclude(r, "FAILED", "EXECUTION_FAILED")
        /\ steps' = [steps EXCEPT ![r] = results[r]]
     \/ /\ caller[r] = "lost" /\ Conclude(r, "FAILED", "AGENT_SEND_FAILED")
        /\ UNCHANGED steps
  /\ Refresh(r, status'[r], stage[r], seen[r].answer)
  /\ seen' = [seen EXCEPT ![r].answer = NotSeen]
  /\ Moved(r, "done")
  /\ UNCHANGED <<agent, stage, approved, shots, stopper, txn, stale, agentVars,
                 counters>>

----------------------------------------------------------------------------
(* stop_run: check, ask the Agent, write CANCELLED whatever it answers.    *)

PrepareStop(r) ==
  /\ stopper[r] = "idle" /\ Cardinality({q \in Run : stopper[q] # "idle"}) < MaxStops
  /\ status[r] = "RUNNING"
  /\ stopper' = [stopper EXCEPT ![r] = "asking"]
  /\ seen' = [seen EXCEPT ![r].stop = SeenNow(r)]
  /\ UNCHANGED <<rowVars, stageVars, caller, txn, stale, agentVars, counters>>

\* _stop_run_case: an execution that is not registered yet is not found.
AgentStops(r) ==
  /\ stopper[r] = "asking"
  /\ stopper' = [stopper EXCEPT ![r] = "told"]
  /\ \/ /\ exec[r].phase \in {"running", "stepping"}
        /\ exec' = [exec EXCEPT ![r].cancel = TRUE]
     \/ /\ exec[r].phase = "prepared"
        /\ exec' = [exec EXCEPT ![r].phase = "ended"]
     \/ /\ exec[r].phase \in {"none", "starting", "closing", "ended"}
        /\ UNCHANGED exec
  /\ UNCHANGED <<rowVars, stageVars, caller, seen, txn, stale, results, wire, counters>>

\* Offline, refused or timed out: the local status is settled all the same.
StopUnanswered(r) ==
  /\ stopper[r] = "asking"
  /\ stopper' = [stopper EXCEPT ![r] = "told"]
  /\ UNCHANGED <<rowVars, stageVars, caller, seen, txn, stale, agentVars, counters>>

FinalizeCancelled(r) ==
  /\ stopper[r] = "told"
  /\ stopper' = [stopper EXCEPT ![r] = "done"]
  /\ Conclude(r, "CANCELLED", "RUN_CANCELLED")
  /\ Refresh(r, "CANCELLED", stage[r], seen[r].stop)
  /\ seen' = [seen EXCEPT ![r].stop = NotSeen]
  /\ UNCHANGED <<agent, steps, stage, approved, shots, caller, txn, stale,
                 agentVars, counters>>

----------------------------------------------------------------------------
(* approve_stage and retry_stage.                                          *)

CheckApproval(r, k, verdict) ==
  /\ Room
  /\ k \in WriteStages /\ stage[r][k] = "WAITING_APPROVAL"
  /\ Read(verdict, r, k, "none")
  /\ UNCHANGED <<rowVars, stageVars, caller, stopper, seen, agentVars, counters>>

Approve(t) ==
  /\ t.op = "approve" /\ Committed(t) /\ NoteStale(t)
  /\ StageSet(t.run, t.at, "PENDING")
  /\ approved' = approved \cup {<<t.run, t.at>>}
  /\ UNCHANGED <<rowVars, evidence, shots, caller, stopper, seen, agentVars, counters>>

\* The rejection cancels the run too: business_status and evidence are left.
Reject(t) ==
  /\ t.op = "reject" /\ Committed(t) /\ NoteStale(t)
  /\ StageSet(t.run, t.at, "CANCELLED")
  /\ approved' = approved \cup {<<t.run, t.at>>}
  /\ status' = [status EXCEPT ![t.run] = "CANCELLED"]
  /\ code' = [code EXCEPT ![t.run] = "STAGE_REJECTED"]
  /\ Touch(t.run)
  /\ UNCHANGED <<business, agent, steps, evidence, shots, caller, stopper, seen,
                 agentVars, counters>>

CheckRetry(r, k) ==
  /\ Room /\ retries < MaxRetries
  /\ stage[r][k] = "FAILED" /\ status[r] \notin Ended
  /\ Read("retry", r, k, "none")
  /\ retries' = retries + 1
  /\ UNCHANGED <<rowVars, stageVars, caller, stopper, seen, agentVars, lost, crashes>>

\* The mutated form reuses the approval of the previous round.
ReuseApproval(t) ==
  StageSet(t.run, t.at, "PENDING") /\ UNCHANGED approved

\* A WRITE stage waits for a new approval.
AskAgain(t) ==
  IF t.at \in WriteStages
    THEN /\ StageSet(t.run, t.at, "WAITING_APPROVAL")
         /\ approved' = approved \ {<<t.run, t.at>>}
    ELSE StageSet(t.run, t.at, "PENDING") /\ UNCHANGED approved

Retry(t) ==
  /\ t.op = "retry" /\ Committed(t) /\ NoteStale(t)
  /\ AskAgain(t)
  /\ evidence' = [evidence EXCEPT ![t.run].stage[t.at] = "PENDING"]
  /\ UNCHANGED <<rowVars, shots, caller, stopper, seen, agentVars, counters>>

----------------------------------------------------------------------------
(* handle_agent_run_event: synchronous code on the event loop, so one      *)
(* event at a time and no answer is taken meanwhile.                       *)

\* The transaction an event starts, unless the run has ended.
Handled == [status |-> "progress", step |-> "step", finished |-> "finished"]
Welcome(r, m) == status[r] \notin Ended /\ m.type \in DOMAIN Handled

\* A screenshot event is read and dropped: its registration asks the Agent by
\* asyncio.run, which raises inside the running event loop of the handler.
ReadEvent(r) ==
  /\ ~ Busy /\ Room
  /\ wire[r] # <<>> /\ Head(wire[r]).type # "answer"
  /\ wire' = [wire EXCEPT ![r] = Tail(@)]
  /\ LET m == Head(wire[r])
     IN  IF Welcome(r, m)
           THEN Read(Handled[m.type], r, m.at, m.outcome)
           ELSE UNCHANGED <<txn, stale>>
  /\ UNCHANGED <<rowVars, stageVars, caller, stopper, seen, exec, results, counters>>

\* The steps a report of step i counts for.  Without ids its index is taken as
\* 1-based and as 0-based, so that it counts for the next step too.
TakenFor(r, i) == IF r \in Identified THEN {i} ELSE {i, i + 1} \cap Step

\* The first stage with one of these steps.
Target(r, i) ==
  CHOOSE k \in {StageOf[j] : j \in TakenFor(r, i)} :
    \A j \in TakenFor(r, i) : k <= StageOf[j]

\* The latest result known of step j once the report of t is in: results are
\* recorded in the order of the steps, the report comes last.
Latest(t, j) ==
  IF j \in TakenFor(t.run, t.at) THEN t.outcome
  ELSE IF t.had[j] # "none" \/ t.run \in Identified \/ j = 1 THEN t.had[j]
  ELSE t.had[j - 1]

Good == {"passed", "skipped"}

\* The mutated form takes the reported step for the whole stage.
LastReportDecides(t, k) == "SUCCESS"

\* The first step of the stage that is not done decides.
StageVerdict(t, k) ==
  LET open  == {j \in Step : StageOf[j] = k /\ Latest(t, j) \notin Good}
      first == CHOOSE j \in open : \A q \in open : j <= q
  IN  IF open = {} THEN "SUCCESS"
      ELSE IF Latest(t, first) = "failed" THEN "FAILED" ELSE "RUNNING"

Judge(t) ==
  IF t.outcome \in Good THEN StageVerdict(t, Target(t.run, t.at))
  ELSE IF t.outcome = "failed" THEN "FAILED" ELSE "RUNNING"

\* mark_stage_finished on failure: the stages behind that were open when the
\* rows were read are skipped.
Judged(t, k, verdict, rows) ==
  [j \in Stage |-> IF j = k THEN verdict
                   ELSE IF verdict = "FAILED" /\ j > k /\ t.was[j] \in StageOpen
                     THEN "SKIPPED" ELSE rows[j]]

\* The mutated form lets a late step event reopen a stage.
NeverClosed(s) == s = "none"
Closed(s) == s \in StageEnded \cup {"none"}

\* _advance_stage_by_step, with the commit of its own.
AdvanceStage(t) ==
  /\ t.op = "step" /\ GoOn(t) /\ NoteStale(t)
  /\ LET k == Target(t.run, t.at)
         verdict == Judge(t)
     IN  IF Closed(t.was[k])
           THEN UNCHANGED <<stage, evidence, quiet>>
         ELSE IF verdict = "RUNNING"
           THEN /\ StageSet(t.run, k, IF t.was[k] = "RUNNING"
                                        THEN stage[t.run][k] ELSE "RUNNING")
                /\ UNCHANGED <<evidence, quiet>>
         ELSE /\ stage' = [stage EXCEPT ![t.run] = Judged(t, k, verdict, @)]
              /\ Refresh(t.run, t.ran, Judged(t, k, verdict, t.was), t.saw)
              /\ Touch(t.run)
  /\ UNCHANGED <<status, business, code, agent, steps, approved, shots, caller,
                 stopper, seen, agentVars, counters>>

\* The update of result_json at the end of the handler, as a whole.
RecordProgress(t) ==
  /\ t.op = "progress" /\ Committed(t) /\ UNCHANGED stale
  /\ IF t.at \in Step
       THEN steps' = [steps EXCEPT ![t.run] = [t.had EXCEPT ![t.at] = t.outcome]]
       ELSE steps' = [steps EXCEPT ![t.run] = t.had]
  /\ Touch(t.run)
  /\ UNCHANGED <<status, business, code, agent, stageVars, caller, stopper, seen,
                 agentVars, counters>>

RecordFinish(t) ==
  /\ t.op = "finished" /\ Committed(t) /\ UNCHANGED stale
  /\ IF t.outcome = "passed" THEN Conclude(t.run, "SUCCESS", "")
     ELSE Conclude(t.run, "FAILED", "EXECUTION_FAILED")
  /\ steps' = [steps EXCEPT ![t.run] = results[t.run]]
  /\ Refresh(t.run, status'[t.run], t.was, t.saw)
  /\ UNCHANGED <<agent, stage, approved, shots, caller, stopper, seen, agentVars,
                 counters>>

\* The report of a screenshot by request (agent_report_step_artifact): the
\* Agent is asked whether it has the file.  Only a repeated report refreshes.
Captured(r, k) ==
  \A i \in Step \ Disabled : StageOf[i] = k => results[r][i] = "passed"

ReportShot(r, k) ==
  /\ k \in NeedsShot /\ stage[r][k] # "none" /\ shots[r][k] = "none"
  /\ Captured(r, k)
  /\ \E availability \in {"ONLINE", "OFFLINE"} :
       shots' = [shots EXCEPT ![r][k] = availability]
  /\ UNCHANGED <<rowVars, stage, approved, evidence, serverVars, agentVars,
                 counters>>

ReportAgain(r, k) ==
  /\ Room /\ k \in NeedsShot /\ shots[r][k] # "none"
  /\ Read("report", r, k, "none")
  /\ UNCHANGED <<rowVars, stageVars, caller, stopper, seen, agentVars, counters>>

Reassess(t) ==
  /\ t.op = "report" /\ Committed(t) /\ UNCHANGED stale
  /\ Refresh(t.run, t.ran, t.was, t.saw) /\ Touch(t.run)
  /\ UNCHANGED <<status, business, code, agent, steps, stage, approved, shots,
                 caller, stopper, seen, agentVars, counters>>

----------------------------------------------------------------------------
(* recover_orphan_running, a periodic job.                                 *)

\* The threshold is at least a minute: neither the code between the two
\* commits of _prepare_run nor a transaction takes that long.
GoQuiet(r) ==
  /\ status[r] = "RUNNING" /\ r \notin quiet
  /\ caller[r] \notin {"added", "ready"}
  /\ \A t \in txn : t.run # r
  /\ quiet' = quiet \cup {r}
  /\ UNCHANGED <<status, business, code, agent, steps, stageVars, serverVars,
                 agentVars, counters>>

CheckOrphan(r) ==
  /\ Room /\ \A t \in txn : t.op # "recover"
  /\ status[r] = "RUNNING" /\ r \in quiet
  /\ Read("recover", r, 0, "none")
  /\ UNCHANGED <<rowVars, stageVars, caller, stopper, seen, agentVars, counters>>

\* The mutated form only closes the stage that was executing.
FailRunningStage(t, rows) ==
  [k \in Stage |-> IF t.was[k] = "RUNNING" THEN "FAILED" ELSE rows[k]]
CloseStages(t, rows) ==
  [k \in Stage |-> IF t.was[k] = "RUNNING" THEN "FAILED"
                   ELSE IF t.was[k] \in StageOpen THEN "SKIPPED"
                   ELSE rows[k]]

\* The mutated form closes the stages and forgets the run.
LeaveRunning(t) == UNCHANGED <<status, business, code, quiet>>
EndOrphan(t) == Conclude(t.run, "FAILED", "RUN_ORPHAN_RECOVERED")

Recover(t) ==
  /\ t.op = "recover" /\ Committed(t) /\ NoteStale(t)
  /\ EndOrphan(t)
  /\ stage' = [stage EXCEPT ![t.run] = CloseStages(t, @)]
  /\ Refresh(t.run, "FAILED", CloseStages(t, t.was), t.saw)
  /\ UNCHANGED <<agent, steps, approved, shots, caller, stopper, seen, agentVars,
                 counters>>

----------------------------------------------------------------------------
(* The Agent: _run_case, and _prepare_run_case for a manual login.         *)

At(r, phase) == exec' = [exec EXCEPT ![r].phase = phase]

\* Events may get lost in sending, which the Agent ignores.
Emit(r, messages) ==
  \/ wire' = [wire EXCEPT ![r] = @ \o messages] /\ UNCHANGED lost
  \/ lost < MaxLost /\ lost' = lost + 1 /\ UNCHANGED wire
Say(type, at, outcome) == [type |-> type, at |-> at, outcome |-> outcome]

\* The browser is up, the execution is registered in _active_runs.
StartCase(r) ==
  /\ exec[r].phase = "starting" /\ r \notin Manual
  /\ At(r, "running")
  /\ Emit(r, <<Say("status", 0, "running")>>)
  /\ UNCHANGED <<rowVars, stageVars, serverVars, results, retries, crashes>>

\* _prepare_run_case answers as soon as the browser waits for the login.
Prepare(r) ==
  /\ exec[r].phase = "starting" /\ r \in Manual
  /\ At(r, "prepared")
  /\ wire' = [wire EXCEPT ![r] = @ \o <<Say("status", 0, "running"),
                                        Say("answer", 0, "passed")>>]
  /\ UNCHANGED <<rowVars, stageVars, serverVars, results, counters>>

\* The launch of the browser, the login state or the start page fails:
\* web_run_error and an answer that says so follow.
StartFails(r) ==
  /\ exec[r].phase = "starting"
  /\ exec' = [exec EXCEPT ![r].phase = "closing", ![r].ok = FALSE]
  /\ UNCHANGED <<rowVars, stageVars, serverVars, results, wire, counters>>

\* The mutated form compares with one step too many.
OneStepMore(r, i, outcome) ==
  IF exec[r].cancel \/ i > Steps \/ (outcome = "failed" /\ ~ Continue)
    THEN "closing" ELSE "running"

\* Which phase follows when step i has ended like this.
After(r, i, outcome) ==
  IF exec[r].cancel \/ i = Steps \/ (outcome = "failed" /\ ~ Continue)
    THEN "closing" ELSE "running"

\* A disabled step is reported as skipped and left out.
SkipStep(r) ==
  /\ exec[r].phase = "running" /\ ~ exec[r].cancel
  /\ exec[r].pos + 1 \in Disabled
  /\ LET i == exec[r].pos + 1
     IN  /\ exec' = [exec EXCEPT ![r].phase = After(r, i, "skipped"), ![r].pos = i]
         /\ results' = [results EXCEPT ![r][i] = "skipped"]
         /\ Emit(r, <<Say("step", i, "skipped")>>)
  /\ UNCHANGED <<rowVars, stageVars, serverVars, retries, crashes>>

BeginStep(r) ==
  /\ exec[r].phase = "running" /\ ~ exec[r].cancel
  /\ exec[r].pos + 1 \notin Disabled
  /\ exec' = [exec EXCEPT ![r].phase = "stepping", ![r].pos = @ + 1]
  /\ Emit(r, <<Say("step", exec[r].pos + 1, "running")>>)
  /\ UNCHANGED <<rowVars, stageVars, serverVars, results, retries, crashes>>

EndStep(r) ==
  /\ exec[r].phase = "stepping"
  /\ \E outcome \in {"passed", "failed"} :
       LET i == exec[r].pos
           k == StageOf[i]
           last == \A j \in Step \ Disabled : StageOf[j] = k => j <= i
           shot == IF outcome = "passed" /\ last /\ k \in NeedsShot
                     THEN <<Say("shot", k, "none")>> ELSE <<>>
       IN  /\ exec[r].cancel => outcome = "failed"
           /\ exec' = [exec EXCEPT ![r].phase = After(r, i, outcome),
                                   ![r].ok = @ /\ outcome = "passed"]
           /\ results' = [results EXCEPT ![r][i] = outcome]
           /\ Emit(r, shot \o <<Say("step", i, outcome)>>)
  /\ UNCHANGED <<rowVars, stageVars, serverVars, retries, crashes>>

\* The mutated form leaves the loop as if the steps were done.
AbortQuietly(r) ==
  /\ exec[r].phase = "running" /\ exec[r].cancel
  /\ At(r, "closing")
  /\ UNCHANGED <<rowVars, stageVars, serverVars, results, wire, counters>>

\* "执行已取消" at the top of the loop.
AbortRun(r) ==
  /\ exec[r].phase = "running" /\ exec[r].cancel
  /\ exec' = [exec EXCEPT ![r].phase = "closing", ![r].ok = FALSE]
  /\ UNCHANGED <<rowVars, stageVars, serverVars, results, wire, counters>>

\* web_run_finished (or web_run_error) and then the answer.
FinishCase(r) ==
  /\ exec[r].phase = "closing"
  /\ At(r, "ended")
  /\ LET outcome == IF exec[r].ok THEN "passed" ELSE "failed"
         answer == Say("answer", 0, outcome)
     IN  \/ /\ wire' = [wire EXCEPT ![r] = @ \o <<Say("finished", 0, outcome),
                                                  answer>>]
            /\ UNCHANGED lost
         \/ /\ lost < MaxLost /\ lost' = lost + 1
            /\ wire' = [wire EXCEPT ![r] = Append(@, answer)]
  /\ UNCHANGED <<rowVars, stageVars, serverVars, results, retries, crashes>>

----------------------------------------------------------------------------
(* Failures of the environment.                                            *)

Forget(a) == wire' = [r \in Run |-> IF agent[r] = a THEN <<>> ELSE wire[r]]
Crash == crashes < MaxCrashes /\ crashes' = crashes + 1

\* Requests and transactions die with the server, the Agent goes on.
Restart ==
  /\ Crash
  /\ caller' = [r \in Run |-> IF caller[r] \in {"idle", "done"} THEN caller[r]
                              ELSE "gone"]
  /\ stopper' = [r \in Run |-> IF stopper[r] = "idle" THEN "idle" ELSE "done"]
  /\ seen' = [r \in Run |-> Unseen] /\ txn' = {}
  /\ wire' = [r \in Run |-> <<>>]
  /\ UNCHANGED <<rowVars, stageVars, stale, exec, results, lost, retries>>

\* Every request that waits for this Agent gets 5009.
LinkBreaks(a) ==
  /\ Crash /\ Forget(a)
  /\ caller' = [r \in Run |-> IF agent[r] = a /\ caller[r] = "waiting"
                                THEN "lost" ELSE caller[r]]
  /\ UNCHANGED <<rowVars, stageVars, stopper, seen, txn, stale, exec, results, lost,
                 retries>>

AgentDies(a) ==
  /\ Crash /\ Forget(a)
  /\ exec' = [r \in Run |-> IF agent[r] = a /\ exec[r].phase # "none"
                              THEN [exec[r] EXCEPT !.phase = "ended"] ELSE exec[r]]
  /\ UNCHANGED <<rowVars, stageVars, serverVars, results, lost, retries>>

----------------------------------------------------------------------------
Request(r) ==
  \/ \E a \in Agent : CheckAgent(r, a)
  \/ AddRun(r) \/ Snapshot(r) \/ Send(r) \/ SendFails(r)
  \/ StopWaiting(r) \/ TakeAnswer(r) \/ Finalize(r)
Stop(r) == PrepareStop(r) \/ AgentStops(r) \/ StopUnanswered(r) \/ FinalizeCancelled(r)
Operator(r) ==
  \E k \in Stage : \/ \E verdict \in {"approve", "reject"} : CheckApproval(r, k, verdict)
                   \/ CheckRetry(r, k) \/ ReportShot(r, k) \/ ReportAgain(r, k)
Commit(t) ==
  \/ Approve(t) \/ Reject(t) \/ Retry(t)
  \/ AdvanceStage(t) \/ RecordProgress(t) \/ RecordFinish(t)
  \/ Recover(t) \/ Reassess(t)
Execute(r) ==
  \/ StartCase(r) \/ Prepare(r) \/ StartFails(r)
  \/ SkipStep(r) \/ BeginStep(r) \/ EndStep(r) \/ AbortRun(r) \/ FinishCase(r)

Next ==
  \/ \E r \in Run : \/ Request(r) \/ Stop(r) \/ Operator(r) \/ ReadEvent(r)
                    \/ GoQuiet(r) \/ CheckOrphan(r) \/ Execute(r)
  \/ \E t \in txn : Commit(t)
  \/ Restart
  \/ \E a \in Agent : LinkBreaks(a) \/ AgentDies(a)

Spec == Init /\ [][Next]_vars

----------------------------------------------------------------------------
(* Properties.                                                             *)

\* At most one RUNNING run per Agent, as the documents promise: _prepare_run
\* looks before it inserts, but nothing makes creations exclude one another.
OneRunPerAgent ==
  \A r, q \in Run : /\ status[r] = "RUNNING" /\ status[q] = "RUNNING"
                    /\ agent[r] = agent[q]
                    => r = q

\* Whoever writes the rows, and in whatever order, they keep a lease of the
\* Agent: a run is RUNNING on one Agent that was free when it looked, from its
\* creation to its first outcome, and never again (_prepare_run).
LeasePhase == [none |-> "new", RUNNING |-> "leasing", SUCCESS |-> "over",
               FAILED |-> "over", CANCELLED |-> "over"]
\* Before the row there is the request that has looked, or died afterwards.
Looking == [r \in Run |-> CASE caller[r] = "checked" -> "looking"
                             [] caller[r] = "gone" -> "over"
                             [] OTHER -> "new"]
Leasing == [r \in Run |-> IF status[r] = "none" THEN Looking[r]
                         ELSE LeasePhase[status[r]]]
Lease == INSTANCE AgentLease WITH phase <- Leasing, on <- agent
ImplementsLease == Lease!Spec

\* What the Agent has done about step i: a disabled step is done when skipped.
Done(r, i) == results[r][i] = IF i \in Disabled THEN "skipped" ELSE "passed"

\* A run is SUCCESS only if the Agent has done every step of it, whoever
\* wrote the row: the finished event, the answer, or both after a stop.  With
\* a manual login the answer comes before the steps.
SuccessMeansExecuted ==
  \A r \in Run \ Manual :
    status[r] = "SUCCESS" => \A i \in Step : Done(r, i)

\* A stage is SUCCESS only if the Agent has done every step of it, or, where
\* the rows list no step ids, the step before: lost or repeated events never
\* end a stage earlier than that (_advance_stage_by_step).
StageSuccessMeansItsSteps ==
  \A r \in Run, k \in Stage :
    stage[r][k] = "SUCCESS" =>
      \A i \in Step : StageOf[i] = k =>
        \E j \in Step : i \in TakenFor(r, j) /\ Done(r, j)

\* Evidence is never reported complete while a required artifact is missing
\* or cannot be retrieved, whatever order refreshes and writes commit in.
EvidenceNotOverstated ==
  \A r \in Run : evidence[r].run = "COMPLETE" =>
    \A k \in NeedsShot : shots[r][k] = "ONLINE"

\* status, business_status and error_code tell one story although six
\* operations write them unconditionally; a rejected run is the exception,
\* reject leaves business_status alone.
OutcomeIsCoherent ==
  \A r \in Run :
    /\ status[r] \in {"none", "RUNNING", "SUCCESS"} => code[r] = ""
    /\ status[r] = "FAILED" => code[r] \in {"EXECUTION_FAILED",
         "AGENT_SEND_FAILED", "RUN_ORPHAN_RECOVERED"}
    /\ status[r] = "CANCELLED" => code[r] \in {"RUN_CANCELLED", "STAGE_REJECTED"}
    /\ business[r] # status[r] => code[r] = "STAGE_REJECTED"

\* A WRITE stage that may execute carries an approval, one that waits for
\* approval carries none: a retry never reuses the previous round's.
ApprovalIsFresh ==
  \A r \in Run, k \in WriteStages :
    /\ stage[r][k] = "PENDING" => <<r, k>> \in approved
    /\ stage[r][k] = "WAITING_APPROVAL" => <<r, k>> \notin approved

\* What the recovery job ended stays closed, however transactions overlap with
\* it: a stage of it can only wait, be approved or be executed again if one of
\* them committed on rows that had changed since it read them.
RecoveredRunIsClosed ==
  \A r \in Run \ stale : code[r] = "RUN_ORPHAN_RECOVERED" =>
    \A k \in Stage : stage[r][k] \in StageEnded \cup {"none"}

\* An outcome of a stage is replaced by the retry of a FAILED one, or else by a
\* transaction that read the stage before it had that outcome: a late event
\* alone never overwrites it (stage_service.py:434).
StageVerdictsStand ==
  [][\A r \in Run, k \in Stage :
       /\ stage[r][k] \in StageEnded
       /\ stage'[r][k] # stage[r][k]
       => \E t \in txn \ txn' :
            /\ t.run = r
            /\ \/ t.was[k] # stage[r][k]
               \/ /\ t.op = "retry" /\ t.at = k /\ stage[r][k] = "FAILED"
                  /\ stage'[r][k] \in StageOpen]_vars

\* The steps of a WRITE stage are executed after its approval only.
WriteStepsWaitForApproval ==
  \A r \in Run : exec[r].phase = "stepping" /\ StageOf[exec[r].pos] \in WriteStages
                 => <<r, StageOf[exec[r].pos]>> \in approved

\* Scheduling: time passes, the scheduler keeps starting the recovery job, and
\* code that waits for nothing gets on (a transaction commits, _prepare_run
\* reaches its send).  Nothing is asked of waits, messages or the Agent.
Fairness ==
  /\ WF_vars(\E t \in txn : Commit(t))
  /\ \A r \in Run : /\ WF_vars(GoQuiet(r)) /\ WF_vars(CheckOrphan(r))
                    /\ WF_vars(Snapshot(r)) /\ WF_vars(Send(r) \/ SendFails(r))
FairSpec == Spec /\ Fairness

\* No run stays RUNNING for ever, whatever became of the request that
\* created it, of the server and of the Agent.
RunEnds == \A r \in Run : status[r] = "RUNNING" ~> status[r] \in Ended

=============================================================================
