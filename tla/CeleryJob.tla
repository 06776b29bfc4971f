------------------------------ MODULE CeleryJob ------------------------------
(***************************************************************************)
(* Scheduled jobs: the rows of celery_periodic_task, the Beat process that *)
(* submits them (config/celery_scheduler.py), the page that shows and      *)
(* submits them (module_task/celery_job_service.py) and the worker that    *)
(* runs them (module_task/celery_tasks.py).                                *)
(*                                                                         *)
(* Every message is one Delivery.  One worker process with a pool of       *)
(* threads takes the messages (supervisord.conf); each database or Redis   *)
(* call of a thread is a step, the other threads run in between.  Messages *)
(* are acknowledged late: what a killed worker was doing is delivered      *)
(* again.  A boot of the worker is a number, 0 stands for "no value".      *)
(***************************************************************************)
EXTENDS Naturals, FiniteSets

CONSTANTS
  Job,            \* task_id of the rows
  NoJob,          \* "not sent yet"
  Delivery,       \* messages to execute_registered_job
  Once,           \* the jobs of schedule_type "once"
  Concurrent,     \* the jobs with allow_concurrent
  LockMayExpire,  \* can an execution outlast lock_ttl_seconds?
  MaxKills,       \* bound: failures of the worker and of Beat
  MaxRequests     \* bound: jobs with a request of the page under way

ASSUME CeleryAssumption ==
  /\ NoJob \notin Job
  /\ Once \subseteq Job /\ Concurrent \subseteq Job
  /\ LockMayExpire \in BOOLEAN
  /\ MaxKills \in Nat /\ MaxRequests \in Nat

VARIABLES
  enabled,    \* row: enabled
  consumed,   \* row: one_off_consumed
  due,        \* once jobs whose one_off_eta has passed
  last,       \* row: last_status
  aged,       \* jobs whose last_run_at is 90 seconds back
  lock,       \* celery:task:lock, the boot that set it
  state,      \* celery:task:state, the worker_boot_id in it
  of,         \* the job a message is for
  pc,         \* where the worker is with a message
  beat,       \* last_status Beat has read of the rows it is submitting
  sent,       \* those of them it has sent a message for
  api,        \* where a request of the task page stands
  boot,       \* the worker's WORKER_BOOT_ID
  failures

rowVars  == <<enabled, consumed, due, last, aged>>
keyVars  == <<lock, state>>
beatVars == <<beat, sent>>
vars == <<rowVars, keyVars, beatVars, of, pc, api, boot, failures>>

\* "ended" is any of success, failed and revoked.
Status == {"none", "queued", "running", "skipped", "ended"}
\* From taking the lock to the clean-up behind the job's function.
Holding == {"mark", "announce", "execute"}
Working == Holding \cup {"lock", "judge", "reclaim", "relock", "skip",
                         "ended", "release", "clear"}
PC == Working \cup {"unsent", "queued", "done"}
Api == {"idle", "listing", "submitting", "ready", "sent"}

\* The rows Beat is submitting.
Submitting == {j \in Job : beat[j] # "idle"}

TypeOK ==
  /\ enabled \subseteq Job /\ consumed \subseteq Once /\ due \subseteq Once
  /\ last \in [Job -> Status] /\ aged \subseteq Job
  /\ boot \in Nat \ {0} /\ failures \in 0 .. MaxKills
  /\ lock \in [Job -> 0 .. boot] /\ state \in [Job -> 0 .. boot]
  /\ of \in [Delivery -> Job \cup {NoJob}] /\ pc \in [Delivery -> PC]
  /\ \A d \in Delivery : of[d] = NoJob <=> pc[d] = "unsent"
  /\ beat \in [Job -> Status \cup {"idle"}]
  /\ sent \subseteq Submitting /\ Submitting \subseteq Once
  /\ api \in [Job -> Api]

Init ==
  /\ enabled \in SUBSET Job /\ consumed = {} /\ due = {}
  /\ last = [j \in Job |-> "none"] /\ aged = {}
  /\ lock = [j \in Job |-> 0] /\ state = [j \in Job |-> 0]
  /\ of = [d \in Delivery |-> NoJob] /\ pc = [d \in Delivery |-> "unsent"]
  /\ beat = [j \in Job |-> "idle"] /\ sent = {}
  /\ api = [j \in Job |-> "idle"]
  /\ boot = 1 /\ failures = 0

----------------------------------------------------------------------------
(* Idioms of the code.                                                     *)

Goto(d, place) == pc' = [pc EXCEPT ![d] = place]
ShowStatus(j, s) == last' = [last EXCEPT ![j] = s]
\* SET key NX EX, DEL.
Set(key, j) == [key EXCEPT ![j] = boot]
Del(key, j) == [key EXCEPT ![j] = 0]

\* celery_app.send_task.
SendTask(j) ==
  \E d \in Delivery :
    /\ pc[d] = "unsent"
    /\ of' = [of EXCEPT ![d] = j] /\ Goto(d, "queued")

----------------------------------------------------------------------------
(* Beat: _dispatch_due_one_off_tasks reads the due rows, sends one message *)
(* per row and commits all of them at the end; periodic rows only send.    *)

ReadOnce ==
  LET rows == (Once \cap enabled \cap due) \ consumed IN
  /\ Submitting = {} /\ rows # {}
  /\ beat' = [j \in Job |-> IF j \in rows THEN last[j] ELSE "idle"]
  /\ UNCHANGED <<rowVars, keyVars, of, pc, sent, api, boot, failures>>

SendOnce(j) ==
  /\ j \in Submitting \ sent
  /\ SendTask(j) /\ sent' = sent \cup {j}
  /\ UNCHANGED <<rowVars, keyVars, beat, api, boot, failures>>

\* The mutated form consumes every enabled row.
EveryEnabled == Submitting \cup enabled
ToCommit == Submitting

\* The session writes the columns it has changed: a last_status that was
\* "queued" already when the row was read is not among them.
CommitOnce ==
  /\ Submitting # {} /\ sent = Submitting
  /\ consumed' = consumed \cup ToCommit
  /\ enabled' = enabled \ ToCommit
  /\ last' = [j \in Job |-> IF j \in ToCommit /\ beat[j] # "queued"
                              THEN "queued" ELSE last[j]]
  /\ beat' = [j \in Job |-> "idle"] /\ sent' = {}
  /\ UNCHANGED <<due, aged, keyVars, of, pc, api, boot, failures>>

SendPeriodic(j) ==
  /\ j \in enabled \ Once
  /\ SendTask(j)
  /\ UNCHANGED <<rowVars, keyVars, beatVars, api, boot, failures>>

\* Beat is killed, or the commit fails: the messages are on their way.
BeatFails ==
  /\ failures < MaxKills /\ failures' = failures + 1
  /\ Submitting # {}
  /\ beat' = [j \in Job |-> "idle"] /\ sent' = {}
  /\ UNCHANGED <<rowVars, keyVars, of, pc, api, boot>>

ComesDue(j) ==
  /\ j \in Once \ due /\ due' = due \cup {j}
  /\ UNCHANGED <<enabled, consumed, last, aged, keyVars, of, pc, beatVars, api, boot,
                 failures>>

----------------------------------------------------------------------------
(* The task page.                                                          *)

ChangeStatus(j) ==
  /\ \/ enabled' = enabled \ {j} /\ UNCHANGED consumed
     \/ enabled' = enabled \cup {j} /\ consumed' = consumed \ {j}
  /\ UNCHANGED <<due, last, aged, keyVars, of, pc, beatVars, api, boot, failures>>

\* edit_job_services rearms a once job, with its one_off_eta or a new one.
Edit(j) ==
  /\ j \in Once
  /\ consumed' = consumed \ {j} /\ due' \in {due, due \ {j}}
  /\ enabled' \in {enabled \ {j}, enabled \cup {j}}
  /\ UNCHANGED <<last, aged, keyVars, of, pc, beatVars, api, boot, failures>>

\* _recover_stale_running_tasks: a row shown as running, without heartbeat.
Lost(j) == last[j] = "running" /\ state[j] = 0 /\ j \in aged

Request(j, place) == api' = [api EXCEPT ![j] = place]
Room == Cardinality({j \in Job : api[j] # "idle"}) < MaxRequests

\* Opening the list, and the start of a worker, look for lost rows ...
List(j) ==
  /\ api[j] = "idle" /\ Room /\ Lost(j)
  /\ Request(j, "listing")
  /\ UNCHANGED <<rowVars, keyVars, of, pc, beatVars, boot, failures>>

\* ... and so does execute_job_once, for its row.
Submit(j) ==
  /\ api[j] = "idle" /\ Room
  /\ Request(j, IF Lost(j) THEN "submitting" ELSE "ready")
  /\ UNCHANGED <<rowVars, keyVars, of, pc, beatVars, boot, failures>>

\* Delete the keys and write the row, by its id alone.
Recover(j) ==
  /\ api[j] \in {"listing", "submitting"}
  /\ lock' = Del(lock, j) /\ state' = Del(state, j)
  /\ ShowStatus(j, "ended")
  /\ Request(j, IF api[j] = "listing" THEN "idle" ELSE "ready")
  /\ UNCHANGED <<enabled, consumed, due, aged, of, pc, beatVars, boot, failures>>

\* Refused while the row is running and has a heartbeat.
SendManual(j) ==
  /\ api[j] = "ready"
  /\ IF last[j] = "running" /\ state[j] # 0
       THEN Request(j, "idle") /\ UNCHANGED <<of, pc>>
       ELSE Request(j, "sent") /\ SendTask(j)
  /\ UNCHANGED <<rowVars, keyVars, beatVars, boot, failures>>

\* "queued" is written after the send, whatever the worker has done by now.
ShowQueued(j) ==
  /\ api[j] = "sent"
  /\ ShowStatus(j, "queued")
  /\ Request(j, "idle")
  /\ UNCHANGED <<enabled, consumed, due, aged, keyVars, of, pc, beatVars, boot,
                 failures>>

----------------------------------------------------------------------------
(* The worker: execute_registered_job.                                     *)

Take(d) ==
  /\ pc[d] = "queued"
  /\ Goto(d, IF of[d] \in Concurrent THEN "mark" ELSE "lock")
  /\ UNCHANGED <<rowVars, keyVars, of, beatVars, api, boot, failures>>

\* SET NX; a second attempt follows the removal of a lost lock.
TryLock(d) ==
  LET j == of[d] IN
  /\ pc[d] \in {"lock", "relock"}
  /\ IF lock[j] = 0
       THEN lock' = Set(lock, j) /\ Goto(d, "mark")
       ELSE UNCHANGED lock /\ Goto(d, IF pc[d] = "lock" THEN "judge" ELSE "skip")
  /\ UNCHANGED <<rowVars, state, of, beatVars, api, boot, failures>>

\* _recover_stale_task_lock reads the state key; the mutated form does not
\* compare the boot id.
NoState(j)  == state[j] = 0
Stale(j) == state[j] # boot

JudgeLock(d) ==
  /\ pc[d] = "judge"
  /\ Goto(d, IF Stale(of[d]) THEN "reclaim" ELSE "skip")
  /\ UNCHANGED <<rowVars, keyVars, of, beatVars, api, boot, failures>>

Reclaim(d) ==
  /\ pc[d] = "reclaim"
  /\ lock' = Del(lock, of[d]) /\ state' = Del(state, of[d])
  /\ Goto(d, "relock")
  /\ UNCHANGED <<rowVars, of, beatVars, api, boot, failures>>

Skip(d) ==
  /\ pc[d] = "skip"
  /\ ShowStatus(of[d], "skipped")
  /\ Goto(d, "done")
  /\ UNCHANGED <<enabled, consumed, due, aged, keyVars, of, beatVars, api, boot,
                 failures>>

MarkRunning(d) ==
  /\ pc[d] = "mark"
  /\ ShowStatus(of[d], "running") /\ aged' = aged \ {of[d]}
  /\ Goto(d, "announce")
  /\ UNCHANGED <<enabled, consumed, due, keyVars, of, beatVars, api, boot, failures>>

\* The state key is written when the job's function is about to start.
Announce(d) ==
  /\ pc[d] = "announce"
  /\ state' = Set(state, of[d])
  /\ Goto(d, "execute")
  /\ UNCHANGED <<rowVars, lock, of, beatVars, api, boot, failures>>

Heartbeat(d) ==
  /\ pc[d] = "execute" /\ state[of[d]] # boot
  /\ state' = Set(state, of[d])
  /\ UNCHANGED <<rowVars, lock, of, pc, beatVars, api, boot, failures>>

\* The finally clause of _execute_job_inline deletes both keys, whoever set
\* them; the mutated form leaves the state key to its TTL.
DropLockOnly(j) == lock' = Del(lock, j) /\ UNCHANGED state
DropKeys(j) == lock' = Del(lock, j) /\ state' = Del(state, j)

\* An exception before the job's function ends in the same clause.
Finish(d) ==
  /\ pc[d] \in {"announce", "execute"}
  /\ DropKeys(of[d])
  /\ Goto(d, "ended")
  /\ UNCHANGED <<rowVars, of, beatVars, api, boot, failures>>

ShowOutcome(d) ==
  /\ pc[d] = "ended"
  /\ ShowStatus(of[d], "ended")
  /\ Goto(d, "release")
  /\ UNCHANGED <<enabled, consumed, due, aged, keyVars, of, beatVars, api, boot,
                 failures>>

\* The finally clause of execute_registered_job: the lock once more ...
Release(d) ==
  /\ pc[d] = "release"
  /\ lock' = IF of[d] \in Concurrent THEN lock ELSE Del(lock, of[d])
  /\ Goto(d, "clear")
  /\ UNCHANGED <<rowVars, state, of, beatVars, api, boot, failures>>

\* ... and the state key.
Clear(d) ==
  /\ pc[d] = "clear"
  /\ state' = Del(state, of[d])
  /\ Goto(d, "done")
  /\ UNCHANGED <<rowVars, lock, of, beatVars, api, boot, failures>>

----------------------------------------------------------------------------
(* Time and failures.                                                      *)

Held(j) == \E d \in Delivery : of[d] = j /\ pc[d] \in Holding

\* Heartbeats (30 s) renew the state key (90 s) as long as the job executes.
ExpireState(j) ==
  /\ state[j] # 0
  /\ \A d \in Delivery : of[d] = j => pc[d] # "execute"
  /\ state' = Del(state, j)
  /\ UNCHANGED <<rowVars, lock, of, pc, beatVars, api, boot, failures>>

ExpireLock(j) ==
  /\ lock[j] # 0 /\ (LockMayExpire \/ ~Held(j))
  /\ lock' = Del(lock, j)
  /\ UNCHANGED <<rowVars, state, of, pc, beatVars, api, boot, failures>>

\* No thread takes 90 seconds from the start of a job to its state key.
GrowOld(j) ==
  /\ last[j] = "running" /\ j \notin aged
  /\ \A d \in Delivery : of[d] = j => pc[d] # "announce"
  /\ aged' = aged \cup {j}
  /\ UNCHANGED <<enabled, consumed, due, last, keyVars, of, pc, beatVars, api, boot,
                 failures>>

\* The worker is killed and started again: unacknowledged messages return.
KillWorker ==
  /\ failures < MaxKills /\ failures' = failures + 1
  /\ boot' = boot + 1
  /\ pc' = [d \in Delivery |-> IF pc[d] \in Working THEN "queued" ELSE pc[d]]
  /\ UNCHANGED <<rowVars, keyVars, of, beatVars, api>>

----------------------------------------------------------------------------
Row(j) ==
  \/ SendOnce(j) \/ SendPeriodic(j) \/ ComesDue(j)
  \/ ChangeStatus(j) \/ Edit(j) \/ List(j) \/ Submit(j) \/ Recover(j)
  \/ SendManual(j) \/ ShowQueued(j)
  \/ ExpireState(j) \/ ExpireLock(j) \/ GrowOld(j)
Thread(d) ==
  \/ Take(d) \/ TryLock(d) \/ JudgeLock(d) \/ Reclaim(d) \/ Skip(d)
  \/ MarkRunning(d) \/ Announce(d) \/ Heartbeat(d) \/ Finish(d)
  \/ ShowOutcome(d) \/ Release(d) \/ Clear(d)

Next ==
  \/ \E j \in Job : Row(j)
  \/ \E d \in Delivery : Thread(d)
  \/ ReadOnce \/ CommitOnce \/ BeatFails \/ KillWorker

Spec == Init /\ [][Next]_vars

----------------------------------------------------------------------------
(* Properties.                                                             *)

\* A message is skipped only while another instance of its job has the lock
\* or is executing, in this worker: what a killed worker left behind never
\* makes a job skip its turn (the log of a skipped message says "已有同任务
\* 实例在执行", _recover_stale_task_lock removes what nobody holds any more).
SkipIsJustified ==
  [][\A d \in Delivery :
       pc[d] # "skip" /\ pc'[d] = "skip" =>
         \E e \in Delivery \ {d} : of[e] = of[d] /\ pc[e] \in Holding]_vars

\* A once job is consumed only when it has been submitted: Beat may fail
\* between the send and the commit, never the other way round.
ConsumedIsSubmitted ==
  \A j \in consumed : \E d \in Delivery : of[d] = j

\* A job without allow_concurrent executes at most once at a time.
OneInstance ==
  \A d, e \in Delivery :
    /\ pc[d] = "execute" /\ pc[e] = "execute"
    /\ of[d] = of[e] /\ of[d] \notin Concurrent
    => d = e
=============================================================================
