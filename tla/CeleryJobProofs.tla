--------------------------- MODULE CeleryJobProofs ---------------------------
(***************************************************************************)
(* Theorems about CeleryJob, for any jobs, messages, lock lifetimes and    *)
(* failures.                                                               *)
(***************************************************************************)
EXTENDS CeleryJob, TLAPS

\* The rows, the keys and the processes keep their types.
LEMMA TypeStep == TypeOK /\ [Next]_vars => TypeOK'
  <1> SUFFICES ASSUME TypeOK, [Next]_vars PROVE TypeOK'
    OBVIOUS
  <1> USE CeleryAssumption
      DEF TypeOK, rowVars, keyVars, beatVars, Submitting, Goto, ShowStatus,
          Set, Del, Status, PC, Working, Holding, Api, Request
  <1>1. ASSUME NEW j \in Job, SendOnce(j) PROVE TypeOK'
    BY <1>1 DEF SendOnce, SendTask
  <1>2. ASSUME NEW j \in Job, SendPeriodic(j) PROVE TypeOK'
    BY <1>2 DEF SendPeriodic, SendTask
  <1>3. ASSUME NEW j \in Job, ComesDue(j) PROVE TypeOK'
    BY <1>3 DEF ComesDue
  <1>4. ASSUME NEW j \in Job, ChangeStatus(j) PROVE TypeOK'
    BY <1>4 DEF ChangeStatus
  <1>5. ASSUME NEW j \in Job, Edit(j) PROVE TypeOK'
    BY <1>5 DEF Edit
  <1>6. ASSUME NEW j \in Job, List(j) \/ Submit(j) PROVE TypeOK'
    BY <1>6 DEF List, Submit
  <1>7. ASSUME NEW j \in Job, Recover(j) PROVE TypeOK'
    BY <1>7 DEF Recover
  <1>8. ASSUME NEW j \in Job, SendManual(j) PROVE TypeOK'
    BY <1>8 DEF SendManual, SendTask
  <1>9. ASSUME NEW j \in Job, ShowQueued(j) PROVE TypeOK'
    BY <1>9 DEF ShowQueued
  <1>10. ASSUME NEW j \in Job, ExpireState(j) \/ ExpireLock(j) PROVE TypeOK'
    BY <1>10 DEF ExpireState, ExpireLock
  <1>11. ASSUME NEW j \in Job, GrowOld(j) PROVE TypeOK'
    BY <1>11 DEF GrowOld
  <1>12. ASSUME NEW d \in Delivery, Thread(d) PROVE TypeOK'
    <2>1. CASE Take(d)
      BY <2>1 DEF Take
    <2>2. CASE TryLock(d)
      BY <2>2 DEF TryLock
    <2>3. CASE JudgeLock(d)
      BY <2>3 DEF JudgeLock
    <2>4. CASE Reclaim(d)
      BY <2>4 DEF Reclaim
    <2>5. CASE Skip(d) \/ MarkRunning(d)
      BY <2>5 DEF Skip, MarkRunning
    <2>6. CASE Announce(d) \/ Heartbeat(d)
      BY <2>6 DEF Announce, Heartbeat
    <2>7. CASE Finish(d)
      BY <2>7 DEF Finish, DropKeys
    <2>8. CASE ShowOutcome(d)
      BY <2>8 DEF ShowOutcome
    <2>9. CASE Release(d) \/ Clear(d)
      BY <2>9 DEF Release, Clear
    <2> QED
      BY <1>12, <2>1, <2>2, <2>3, <2>4, <2>5, <2>6, <2>7, <2>8, <2>9 DEF Thread
  <1>13. CASE ReadOnce
    BY <1>13 DEF ReadOnce
  <1>14. CASE CommitOnce
    BY <1>14 DEF CommitOnce, ToCommit
  <1>15. CASE BeatFails
    BY <1>15 DEF BeatFails
  <1>16. CASE KillWorker
    BY <1>16 DEF KillWorker
  <1>17. CASE UNCHANGED vars
    BY <1>17 DEF vars
  <1> QED
    BY <1>1, <1>2, <1>3, <1>4, <1>5, <1>6, <1>7, <1>8, <1>9, <1>10, <1>11,
       <1>12, <1>13, <1>14, <1>15, <1>16, <1>17 DEF Next, Row

LEMMA TypeInit == Init => TypeOK
  BY CeleryAssumption
     DEF Init, TypeOK, Submitting, Status, PC, Working, Holding, Api

\* Whatever Beat, the page, the threads of the worker and its failures do, every
\* row, key and process has its type (celery_tasks.py, celery_scheduler.py).
THEOREM TypesHold == Spec => []TypeOK
  BY TypeInit, TypeStep, PTL DEF Spec

----------------------------------------------------------------------------
\* Every row that is consumed, or about to be, has a message of its own.
SentInv == \A j \in consumed \cup sent : \E d \in Delivery : of[d] = j

\* A message keeps the job it was sent for.
LEMMA MessagesKeepTheirJob ==
  ASSUME TypeOK, [Next]_vars, NEW d \in Delivery, of[d] # NoJob
  PROVE  of'[d] = of[d]
<1> USE DEF rowVars, keyVars, beatVars
<1>1. ASSUME NEW j \in Job, SendTask(j) PROVE of'[d] = of[d]
  BY <1>1 DEF SendTask, TypeOK
<1>2. CASE \E j \in Job : Row(j)
  BY <1>1, <1>2
     DEF Row, SendOnce, SendPeriodic, SendManual, ComesDue, ChangeStatus, Edit,
         List, Submit, Recover, ShowQueued, ExpireState, ExpireLock, GrowOld
<1>3. CASE \E e \in Delivery : Thread(e)
  BY <1>3
     DEF Thread, Take, TryLock, JudgeLock, Reclaim, Skip, MarkRunning, Announce,
         Heartbeat, Finish, ShowOutcome, Release, Clear
<1>4. CASE ReadOnce \/ CommitOnce \/ BeatFails \/ KillWorker \/ UNCHANGED vars
  BY <1>4 DEF ReadOnce, CommitOnce, BeatFails, KillWorker, vars
<1>5. QED
  BY <1>2, <1>3, <1>4 DEF Next

LEMMA SentStep == TypeOK /\ SentInv /\ [Next]_vars => SentInv'
<1> SUFFICES ASSUME TypeOK, SentInv, [Next]_vars, NEW j \in (consumed \cup sent)'
             PROVE  \E d \in Delivery : of'[d] = j
  BY DEF SentInv
<1>1. CASE j \in consumed \cup sent
  <2>1. PICK d \in Delivery : of[d] = j
    BY <1>1 DEF SentInv
  <2>2. j # NoJob
    BY <1>1, CeleryAssumption DEF TypeOK, Submitting
  <2>3. QED
    BY <2>1, <2>2, MessagesKeepTheirJob
<1>2. CASE j \notin consumed \cup sent
  <2> USE DEF rowVars, keyVars, beatVars
  <2>1. CASE SendOnce(j)
    BY <2>1 DEF SendOnce, SendTask, TypeOK
  <2>2. CASE \E i \in Job : Row(i) /\ ~ SendOnce(j)
    BY <1>2, <2>2
       DEF Row, SendOnce, SendPeriodic, SendManual, ComesDue, ChangeStatus, Edit,
           List, Submit, Recover, ShowQueued, ExpireState, ExpireLock, GrowOld
  <2>3. CASE \E e \in Delivery : Thread(e)
    BY <1>2, <2>3
       DEF Thread, Take, TryLock, JudgeLock, Reclaim, Skip, MarkRunning, Announce,
           Heartbeat, Finish, ShowOutcome, Release, Clear
  <2>4. CASE CommitOnce
    BY <1>2, <2>4 DEF CommitOnce, ToCommit
  <2>5. CASE ReadOnce \/ BeatFails \/ KillWorker \/ UNCHANGED vars
    BY <1>2, <2>5 DEF ReadOnce, BeatFails, KillWorker, vars
  <2>6. QED
    BY <2>1, <2>2, <2>3, <2>4, <2>5 DEF Next
<1>3. QED
  BY <1>1, <1>2

\* Beat marks a once job consumed only after it has sent a message for it, for
\* any number of rows and wherever Beat fails (_dispatch_due_one_off_tasks).
THEOREM ConsumedJobsWereSubmitted == Spec => []ConsumedIsSubmitted
<1>1. Init => TypeOK /\ SentInv
  BY TypeInit DEF Init, SentInv
<1>2. TypeOK /\ SentInv /\ [Next]_vars => (TypeOK /\ SentInv)'
  BY TypeStep, SentStep
<1>3. TypeOK /\ SentInv => ConsumedIsSubmitted
  BY DEF SentInv, ConsumedIsSubmitted
<1>4. QED
  BY <1>1, <1>2, <1>3, PTL DEF Spec

----------------------------------------------------------------------------
\* The boot id in a key is the present one only if a thread stands behind it:
\* the state key has an executing thread, the lock one between its SET NX and
\* its clean-up.  A thread that has removed a lost lock finds the key empty or
\* taken by such a thread.
StateHasThread ==
  \A j \in Job : state[j] = boot =>
    \E e \in Delivery : of[e] = j /\ pc[e] = "execute"
LockHasThread ==
  \A j \in Job : lock[j] = boot =>
    \E e \in Delivery : of[e] = j /\ pc[e] \in Holding
RemovedLockIsNew ==
  \A d \in Delivery : pc[d] = "relock" => lock[of[d]] \in {0, boot}

KeyInv == StateHasThread /\ LockHasThread /\ RemovedLockIsNew

LEMMA KeyStep == TypeOK /\ KeyInv /\ [Next]_vars => KeyInv'
<1> SUFFICES ASSUME TypeOK, KeyInv, [Next]_vars PROVE KeyInv'
  OBVIOUS
<1> USE CeleryAssumption
    DEF TypeOK, KeyInv, StateHasThread, LockHasThread, RemovedLockIsNew,
        rowVars, keyVars, beatVars, Goto, Set, Del, PC, Working, Holding
<1>1. ASSUME NEW j \in Job, SendTask(j), UNCHANGED <<keyVars, boot>>
      PROVE  KeyInv'
  BY <1>1 DEF SendTask
<1>2. ASSUME UNCHANGED <<keyVars, boot, of, pc>> PROVE KeyInv'
  BY <1>2
<1>3. CASE \E j \in Job : Row(j)
  <2> PICK j \in Job : Row(j)
    BY <1>3
  <2>1. CASE SendOnce(j) \/ SendPeriodic(j)
    BY <1>1, <2>1 DEF SendOnce, SendPeriodic
  <2>2. CASE SendManual(j)
    BY <1>1, <1>2, <2>2 DEF SendManual
  <2>3. CASE \/ ComesDue(j) \/ ChangeStatus(j) \/ Edit(j) \/ List(j)
             \/ Submit(j) \/ ShowQueued(j) \/ GrowOld(j)
    BY <1>2, <2>3
       DEF ComesDue, ChangeStatus, Edit, List, Submit, ShowQueued, GrowOld
  <2>4. CASE Recover(j)
    BY <2>4 DEF Recover
  <2>5. CASE ExpireState(j) \/ ExpireLock(j)
    BY <2>5 DEF ExpireState, ExpireLock
  <2>6. QED
    BY <2>1, <2>2, <2>3, <2>4, <2>5 DEF Row
<1>4. CASE \E d \in Delivery : Thread(d)
  <2> PICK d \in Delivery : Thread(d)
    BY <1>4
  <2>1. CASE Take(d)
    BY <2>1 DEF Take
  <2>2. CASE TryLock(d)
    BY <2>2 DEF TryLock
  <2>3. CASE JudgeLock(d)
    BY <2>3 DEF JudgeLock
  <2>4. CASE Reclaim(d)
    BY <2>4 DEF Reclaim
  <2>5. CASE Skip(d) \/ MarkRunning(d)
    BY <2>5 DEF Skip, MarkRunning
  <2>6. CASE Announce(d) \/ Heartbeat(d)
    BY <2>6 DEF Announce, Heartbeat
  <2>7. CASE Finish(d)
    BY <2>7 DEF Finish, DropKeys
  <2>8. CASE ShowOutcome(d)
    BY <2>8 DEF ShowOutcome
  <2>9. CASE Release(d) \/ Clear(d)
    BY <2>9 DEF Release, Clear
  <2>10. QED
    BY <2>1, <2>2, <2>3, <2>4, <2>5, <2>6, <2>7, <2>8, <2>9 DEF Thread
<1>5. CASE ReadOnce \/ CommitOnce \/ BeatFails \/ UNCHANGED vars
  BY <1>2, <1>5 DEF ReadOnce, CommitOnce, BeatFails, vars
<1>6. CASE KillWorker
  BY <1>6 DEF KillWorker
<1>7. QED
  BY <1>3, <1>4, <1>5, <1>6 DEF Next

\* Whoever gives up the lock has seen it, or the state key, with the present
\* boot id, and KeyInv names the thread behind it.
LEMMA SkipStep ==
  ASSUME TypeOK, KeyInv, [Next]_vars,
         NEW d \in Delivery, pc[d] # "skip", pc'[d] = "skip"
  PROVE  \E e \in Delivery \ {d} : of[e] = of[d] /\ pc[e] \in Holding
<1> USE DEF rowVars, keyVars, beatVars, Goto, TypeOK
<1>1. JudgeLock(d) \/ TryLock(d)
  <2>1. CASE \E j \in Job : Row(j)
    BY <2>1
       DEF Row, SendOnce, SendPeriodic, SendManual, SendTask, ComesDue,
           ChangeStatus, Edit, List, Submit, Recover, ShowQueued, ExpireState,
           ExpireLock, GrowOld
  <2>2. CASE \E e \in Delivery : Thread(e)
    <3> PICK e \in Delivery : Thread(e)
      BY <2>2
    <3>1. e = d
      BY DEF Thread, Take, TryLock, JudgeLock, Reclaim, Skip, MarkRunning,
             Announce, Heartbeat, Finish, ShowOutcome, Release, Clear
    <3>2. QED
      BY <3>1
         DEF Thread, Take, Reclaim, Skip, MarkRunning, Announce, Heartbeat,
             Finish, ShowOutcome, Release, Clear
  <2>3. CASE ReadOnce \/ CommitOnce \/ BeatFails \/ KillWorker \/ UNCHANGED vars
    BY <2>3 DEF ReadOnce, CommitOnce, BeatFails, KillWorker, vars
  <2>4. QED
    BY <2>1, <2>2, <2>3 DEF Next
<1>2. of[d] \in Job
  BY <1>1 DEF JudgeLock, TryLock
<1>3. CASE JudgeLock(d)
  <2>1. pc[d] = "judge" /\ state[of[d]] = boot
    BY <1>3 DEF JudgeLock, Stale
  <2>2. PICK e \in Delivery : of[e] = of[d] /\ pc[e] = "execute"
    BY <1>2, <2>1 DEF KeyInv, StateHasThread
  <2>3. QED
    BY <2>1, <2>2 DEF Holding
<1>4. CASE TryLock(d)
  <2>1. pc[d] = "relock" /\ lock[of[d]] # 0
    BY <1>4 DEF TryLock
  <2>2. lock[of[d]] = boot
    BY <2>1 DEF KeyInv, RemovedLockIsNew
  <2>3. PICK e \in Delivery : of[e] = of[d] /\ pc[e] \in Holding
    BY <1>2, <2>2 DEF KeyInv, LockHasThread
  <2>4. QED
    BY <2>1, <2>3 DEF Holding
<1>5. QED
  BY <1>1, <1>3, <1>4

\* What a killed worker, an expired lock, a recovery or an earlier instance left
\* in Redis never makes the worker skip a message (execute_registered_job with
\* _recover_stale_task_lock), for any jobs, messages and failures.
THEOREM SkipsAreJustified == Spec => SkipIsJustified
<1>1. Init => TypeOK /\ KeyInv
  <2> SUFFICES ASSUME Init PROVE KeyInv
    BY TypeInit
  <2> QED
    BY DEF Init, KeyInv, StateHasThread, LockHasThread, RemovedLockIsNew
<1>2. TypeOK /\ KeyInv /\ [Next]_vars => (TypeOK /\ KeyInv)'
  BY TypeStep, KeyStep
<1>3. TypeOK /\ KeyInv /\ [Next]_vars
        => [\A d \in Delivery :
              pc[d] # "skip" /\ pc'[d] = "skip" =>
                \E e \in Delivery \ {d} : of[e] = of[d] /\ pc[e] \in Holding]_vars
  BY SkipStep
<1>4. QED
  BY <1>1, <1>2, <1>3, PTL DEF Spec, SkipIsJustified
=============================================================================
