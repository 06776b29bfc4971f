------------------------ MODULE TicketAiAnalysisProofs ------------------------
(***************************************************************************)
(* What holds of TicketAiAnalysis for any number of tasks, attempts,       *)
(* requests, cancels, retries and restarts.                                *)
(***************************************************************************)
EXTENDS TicketAiAnalysis, FiniteSetTheorems, TLAPS

Row == [status : Status \cup {"absent"}, audit : 0 .. MaxAudit,
        lock : BOOLEAN, won : BOOLEAN, late : BOOLEAN]
ExecutorAt == {"idle", "queued", "loaded", "waiting", "recovered", "running", "exchange",
               "dropped", "failing"}
Executor == [at : ExecutorAt, audit : 0 .. MaxAudit, request : 0 .. MaxRequest]
Entry == [task : Task, audit : 0 .. MaxAudit, late : BOOLEAN]

(* What is said of two winners is easier to keep than a count of them.     *)
WinnersAgree == \A s, t \in Winners : s = t

IInv == TypeOK /\ NoStrayIndexEntry /\ WinnersAgree

-----------------------------------------------------------------------------
(* The parts of the state the actions change through operators.            *)

LEMMA ExceptType ==
  ASSUME NEW S, NEW T, NEW f \in [S -> T], NEW x, NEW v, x \in S => v \in T
  PROVE  [f EXCEPT ![x] = v] \in [S -> T]
OBVIOUS

(* Every status that is written through Marked gives a row.                *)
LEMMA MarkedType ==
  ASSUME TypeOK, NEW t \in Task, NEW status \in Status
  PROVE  Marked(t, status) \in [Task -> Row]
<1> DEFINE r == [task[t] EXCEPT !.status = status, !.lock = FALSE, !.late = FALSE,
                               !.won = @ /\ status = "success"]
<1>1. task \in [Task -> Row]
  BY DEF TypeOK, Row
<1>2. (task[t].won /\ status = "success") \in BOOLEAN
  OBVIOUS
<1>3. r \in Row
  BY <1>1, <1>2 DEF Row
<1>4. Marked(t, status) = [task EXCEPT ![t] = r]
  BY <1>1 DEF Marked, Row
<1> QED
  BY <1>1, <1>3, <1>4

(* Queueing gives an executor, whether or not there was one.               *)
LEMMA QueuedType ==
  ASSUME TypeOK, NEW p \in Process, NEW t \in Task
  PROVE  Queued(p, t) \in [Process -> [Task -> Executor]]
<1> DEFINE f == IF exec[p][t].at = "idle" THEN [exec[p][t] EXCEPT !.at = "queued"] ELSE exec[p][t]
<1>1. exec \in [Process -> [Task -> Executor]]
  BY DEF TypeOK, Executor, ExecutorAt
<1>2. f \in Executor
  BY <1>1 DEF Executor, ExecutorAt
<1>3. Queued(p, t) = [exec EXCEPT ![p] = [exec[p] EXCEPT ![t] = f]]
  BY <1>1 DEF Queued
<1> QED
  BY <1>1, <1>2, <1>3

(* So do an end and a move.                                                *)
LEMMA ExecType ==
  ASSUME TypeOK, NEW p \in Process, NEW t \in Task, NEW x \in Executor
  PROVE  [exec EXCEPT ![p][t] = x] \in [Process -> [Task -> Executor]]
BY DEF TypeOK, Executor, ExecutorAt

LEMMA IdleType == Idle \in Executor
BY BoundsAreNumbers DEF Idle, Executor, ExecutorAt

LEMMA GoesType ==
  ASSUME TypeOK, NEW p \in Process, NEW t \in Task, NEW at \in ExecutorAt
  PROVE  [exec EXCEPT ![p][t].at = at] \in [Process -> [Task -> Executor]]
<1>1. exec \in [Process -> [Task -> Executor]]
  BY DEF TypeOK, Executor, ExecutorAt
<1>2. [exec[p][t] EXCEPT !.at = at] \in Executor
  BY <1>1 DEF Executor
<1> QED
  BY <1>1, <1>2

(* A row that is only marked keeps the index in order.                     *)
LEMMA MarkedIndex ==
  ASSUME TypeOK, NoStrayIndexEntry, WinnersAgree, NEW t \in Task, NEW status \in Status,
         task' = Marked(t, status)
  PROVE  NoStrayIndexEntry' /\ WinnersAgree'
BY DEF TypeOK, NoStrayIndexEntry, WinnersAgree, Winners, Marked

(* A row that has no entry disturbs none.                                  *)
LEMMA SameIndex ==
  ASSUME NoStrayIndexEntry, WinnersAgree, UNCHANGED task
  PROVE  NoStrayIndexEntry' /\ WinnersAgree'
BY DEF NoStrayIndexEntry, WinnersAgree, Winners

-----------------------------------------------------------------------------
(* Types.                                                                  *)

LEMMA InitTypes == Init => TypeOK
BY BoundsAreNumbers DEF Init, TypeOK, Idle, NoCancel, NoScan, Process, Status

(* Steps of an executor.                                                   *)
LEMMA ExecuteTypes ==
  ASSUME TypeOK, NEW p \in Process, NEW t \in Task, Execute(p, t)
  PROVE  TypeOK'
<1> USE DEF userVars, agentVars, history
<1>a. Ends(p, t) => exec' \in [Process -> [Task -> Executor]]
  BY IdleType, ExecType DEF Ends
<1>b. \A at \in ExecutorAt : Goes(p, t, at) => exec' \in [Process -> [Task -> Executor]]
  <2> TAKE at \in ExecutorAt
  <2>1. [exec EXCEPT ![p][t].at = at] \in [Process -> [Task -> Executor]]
    BY GoesType
  <2> QED
    BY <2>1 DEF Goes
<1>c. \A status \in Status : task' = Marked(t, status) => task' \in [Task -> Row]
  <2> TAKE status \in Status
  <2>1. Marked(t, status) \in [Task -> Row]
    BY MarkedType
  <2> QED
    BY <2>1
<1>d. {"running", "failing"} \subseteq ExecutorAt /\ {"success", "failed", "canceled", "pending", "running"} \subseteq Status
  BY DEF ExecutorAt, Status
<1>e. CommitRequest(p, t) => requestOf' \in [Audit -> 0 .. MaxRequest]
  <2>1. requestOf \in [Audit -> 0 .. MaxRequest] /\ exec[p][t].request \in 0 .. MaxRequest
    BY DEF TypeOK
  <2> QED
    BY <2>1, ExceptType DEF CommitRequest
<1>f. (written' = [written EXCEPT ![exec[p][t].request] = @ + 1]) => written' \in [Request -> Nat]
  <2>1. written \in [Request -> Nat]
    BY DEF TypeOK
  <2>2. exec[p][t].request \in Request => written[exec[p][t].request] + 1 \in Nat
    BY <2>1
  <2>3. [written EXCEPT ![exec[p][t].request] = written[exec[p][t].request] + 1] \in [Request -> Nat]
    BY <2>1, <2>2, ExceptType
  <2> QED
    BY <2>3
<1>1. CASE Load(p, t)
  <2> DEFINE loaded(at, q) == [at |-> at, audit |-> task[t].audit, request |-> q]
             x == IF task[t].status \notin Executable THEN Idle
                  ELSE IF Reported(task[t].audit, {"good"})
                  THEN loaded("recovered", requestOf[task[t].audit])
                  ELSE loaded(IF task[t].status = "pending" THEN "waiting" ELSE "loaded", 0)
  <2>1. task[t].audit \in 0 .. MaxAudit /\ requestOf \in [Audit -> 0 .. MaxRequest]
    BY DEF TypeOK
  <2>2. \A at \in ExecutorAt, q \in 0 .. MaxRequest : loaded(at, q) \in Executor
    BY <2>1 DEF Executor
  <2>3. Reported(task[t].audit, {"good"}) => requestOf[task[t].audit] \in 0 .. MaxRequest
    BY <2>1, BoundsAreNumbers DEF Reported, Audit
  <2>4. {"recovered", "waiting", "loaded"} \subseteq ExecutorAt /\ 0 \in 0 .. MaxRequest
    BY BoundsAreNumbers DEF ExecutorAt
  <2> HIDE DEF loaded
  <2>5. x \in Executor
    BY <2>2, <2>3, <2>4, IdleType
  <2>6. exec' = [exec EXCEPT ![p][t] = x]
    BY <1>1 DEF Load, loaded
  <2> HIDE DEF x
  <2>7. exec' \in [Process -> [Task -> Executor]]
    BY <2>5, <2>6, ExecType
  <2> QED
    BY <1>1, <2>7 DEF Load, TypeOK, Executor, ExecutorAt
<1>2. CASE CannotStart(p, t)
  BY <1>2, <1>a, <1>c, <1>d DEF CannotStart, TypeOK, Executor, ExecutorAt, Row
<1>3. CASE ThreadDies(p, t)
  BY <1>3, <1>a DEF ThreadDies, TypeOK, Executor, ExecutorAt
<1>4. CASE WriteRecovered(p, t)
  BY <1>4, <1>a, <1>c, <1>d, <1>f DEF WriteRecovered, TypeOK, Executor, ExecutorAt, Row
<1>5. CASE KeepWaiting(p, t)
  BY <1>5, <1>a DEF KeepWaiting, TypeOK, Executor, ExecutorAt
<1>6. CASE MarkRunning(p, t)
  BY <1>6, <1>b, <1>c, <1>d DEF MarkRunning, TypeOK, Executor, ExecutorAt, Row
<1>7. CASE Send(p, t)
  <2>1. PICK at \in {"exchange", "dropped"} :
          exec' = [exec EXCEPT ![p][t] = [@ EXCEPT !.at = at, !.request = sent']]
    BY <1>7 DEF Send
  <2>2. sent' \in 0 .. MaxRequest
    BY <1>7, BoundsAreNumbers DEF Send, TypeOK
  <2>a. exec \in [Process -> [Task -> Executor]]
    BY DEF TypeOK, Executor, ExecutorAt
  <2>b. at \in ExecutorAt
    BY DEF ExecutorAt
  <2>3. [exec[p][t] EXCEPT !.at = at, !.request = sent'] \in Executor
    <3>1. exec[p][t] \in Executor
      BY <2>a
    <3> DEFINE q == sent'
    <3>2. q \in 0 .. MaxRequest
      BY <2>2
    <3> HIDE DEF q
    <3>3. [exec[p][t] EXCEPT !.at = at, !.request = q] \in Executor
      BY <3>1, <3>2, <2>b DEF Executor
    <3> QED
      BY <3>3 DEF q
  <2>c. exec' = [exec EXCEPT ![p][t] = [exec[p][t] EXCEPT !.at = at, !.request = sent']]
    BY <2>1, <2>a
  <2>4. exec' \in [Process -> [Task -> Executor]]
    BY <2>3, <2>c, ExecType
  <2> QED
    BY <1>7, <2>2, <2>4 DEF Send, TypeOK, Executor, ExecutorAt
<1>8. CASE CannotSend(p, t)
  BY <1>8, <1>b, <1>d DEF CannotSend, TypeOK, Executor, ExecutorAt
<1>9. CASE Discard(p, t)
  BY <1>9, <1>a DEF Discard, TypeOK, Executor, ExecutorAt
<1>10. CASE EnterPendingRecovery(p, t)
  <2>1. exec[p][t].request \in 0 .. MaxRequest
    BY DEF TypeOK
  <2> QED
    BY <1>10, <1>a, <1>c, <1>d, <1>e, <2>1 DEF EnterPendingRecovery, TypeOK, Executor, ExecutorAt, Row
<1>11. CASE WriteBack(p, t)
  <2>1. Marked(t, "success") \in [Task -> Row]
    BY <1>d, MarkedType
  <2>2. task' \in [Task -> Row]
    BY <1>11, <2>1 DEF WriteBack, Row
  <2> QED
    BY <1>11, <1>a, <1>e, <1>f, <2>2 DEF WriteBack, TypeOK, Executor, ExecutorAt, Row
<1>12. CASE FinishDuplicate(p, t)
  BY <1>12, <1>a, <1>c, <1>d DEF FinishDuplicate, TypeOK, Executor, ExecutorAt, Row
<1>13. CASE RollBack(p, t)
  BY <1>13, <1>b, <1>d DEF RollBack, TypeOK, Executor, ExecutorAt
<1>14. CASE MarkFailed(p, t)
  BY <1>14, <1>a, <1>c, <1>d DEF MarkFailed, TypeOK, Executor, ExecutorAt, Row
<1> QED
  BY <1>1, <1>2, <1>3, <1>4, <1>5, <1>6, <1>7, <1>8, <1>9, <1>10, <1>11, <1>12, <1>13, <1>14
     DEF Execute

(* Late answers and deadlines.                                             *)
LEMMA TimeTypes ==
  ASSUME TypeOK,
         \/ \E t \in Task : DeadlinePasses(t)
         \/ \E q \in Request : LateAnswer(q) \/ CacheExpires(q)
  PROVE  TypeOK'
<1> USE DEF userVars, agentVars, history
<1>1. CASE \E t \in Task : DeadlinePasses(t)
  <2>1. PICK t \in Task : DeadlinePasses(t)
    BY <1>1
  <2>2. task \in [Task -> Row]
    BY DEF TypeOK, Row
  <2>3. [task[t] EXCEPT !.late = TRUE] \in Row
    BY <2>2 DEF Row
  <2>4. task' = [task EXCEPT ![t] = [task[t] EXCEPT !.late = TRUE]]
    BY <2>1, <2>2 DEF DeadlinePasses
  <2>5. task' \in [Task -> Row]
    BY <2>2, <2>3, <2>4
  <2> QED
    BY <2>1, <2>5 DEF DeadlinePasses, TypeOK, Row
<1>2. CASE \E q \in Request : LateAnswer(q)
  <2>1. PICK q \in Request, what \in {"good", "bad"} : LateAnswer(q) /\ cache' = [cache EXCEPT ![q] = what]
    BY <1>2 DEF LateAnswer
  <2>2. cache' \in [Request -> {"none", "good", "bad"}]
    BY <2>1 DEF TypeOK
  <2> QED
    BY <2>1, <2>2 DEF LateAnswer, TypeOK
<1>3. CASE \E q \in Request : CacheExpires(q)
  BY <1>3 DEF CacheExpires, TypeOK
<1> QED
  BY <1>1, <1>2, <1>3

LEMMA ScanTypes ==
  ASSUME TypeOK, Scan
  PROVE  TypeOK'
<1> USE DEF userVars, agentVars, history
<1>a. scan.todo \subseteq Entry /\ scan.wrote \in BOOLEAN
  BY DEF TypeOK, Entry
<1>b. \A e \in scan.todo, w \in BOOLEAN :
        Done(e, w) => scan' \in [todo : SUBSET Entry, wrote : BOOLEAN]
  BY <1>a DEF Done
<1>1. CASE List
  <2>1. \A t \in With({"pending"}) :
          [task |-> t, audit |-> task[t].audit, late |-> task[t].late] \in Entry
    BY DEF With, TypeOK, Entry
  <2>2. scan' \in [todo : SUBSET Entry, wrote : BOOLEAN]
    BY <1>1, <2>1 DEF List
  <2> QED
    BY <1>1, <2>2 DEF List, TypeOK, Entry
<1>2. ASSUME NEW e \in scan.todo, Requeue(e)
      PROVE  TypeOK'
  <2>1. e.task \in Task /\ "worker" \in Process
    BY <1>a DEF Entry, Process
  <2>2. exec' \in [Process -> [Task -> Executor]]
    BY <1>2, <2>1, QueuedType DEF Requeue
  <2>3. scan' \in [todo : SUBSET Entry, wrote : BOOLEAN]
    BY <1>2, <1>b DEF Requeue
  <2>4. shared' \subseteq Task
    BY <1>2, <2>1 DEF Requeue, Shares, TypeOK
  <2> QED
    BY <1>2, <2>2, <2>3, <2>4 DEF Requeue, TypeOK, Entry, Executor, ExecutorAt
<1>3. ASSUME NEW e \in scan.todo, MarkExpired(e)
      PROVE  TypeOK'
  <2>1. e.task \in Task /\ "failed" \in Status
    BY <1>a DEF Entry, Status
  <2>2. task' \in [Task -> Row]
    BY <1>3, <2>1, MarkedType DEF MarkExpired
  <2>3. scan' \in [todo : SUBSET Entry, wrote : BOOLEAN]
    BY <1>3, <1>b DEF MarkExpired
  <2> QED
    BY <1>3, <2>2, <2>3 DEF MarkExpired, TypeOK, Entry, Row
<1>4. ASSUME NEW e \in scan.todo, Pass(e)
      PROVE  TypeOK'
  <2>1. scan' \in [todo : SUBSET Entry, wrote : BOOLEAN]
    BY <1>4, <1>b DEF Pass
  <2> QED
    BY <1>4, <2>1 DEF Pass, TypeOK, Entry
<1> QED
  BY <1>1, <1>2, <1>3, <1>4 DEF Scan

LEMMA UserTypes ==
  ASSUME TypeOK, NEW t \in Task, User(t)
  PROVE  TypeOK'
<1> USE DEF userVars, agentVars, history
<1>a. Happens => events' \in 0 .. MaxEvents
  BY BoundsAreNumbers DEF Happens, TypeOK
<1>b. audits < MaxAudit /\ audits' = audits + 1 => audits' \in 0 .. MaxAudit
  BY BoundsAreNumbers DEF TypeOK
<1>c. Queued("api", t) \in [Process -> [Task -> Executor]]
  BY QueuedType DEF Process
<1>d. task \in [Task -> Row]
  BY DEF TypeOK, Row
<1>1. CASE Check(t)
  BY <1>1, <1>a DEF Check, TypeOK
<1>2. CASE Create(t)
  <2>1. task' \in [Task -> Row] /\ audits' \in 0 .. MaxAudit
    <3>1. CASE UNCHANGED <<task, audits, exec>>
      BY <3>1, <1>d DEF TypeOK
    <3>2. CASE ~UNCHANGED <<task, audits, exec>>
      <4> DEFINE r == [status |-> "created", audit |-> audits', lock |-> TRUE,
                       won |-> FALSE, late |-> FALSE]
      <4>1. audits' \in 0 .. MaxAudit
        BY <1>2, <3>2, <1>b DEF Create
      <4>2. r \in Row
        BY <4>1 DEF Row, Status
      <4>3. task' = [task EXCEPT ![t] = r]
        BY <1>2, <3>2 DEF Create
      <4> QED
        BY <4>1, <4>2, <4>3, <1>d
    <3> QED
      BY <3>1, <3>2
  <2>2. exec' \in [Process -> [Task -> Executor]]
    BY <1>2, <1>c DEF Create, TypeOK, Executor, ExecutorAt
  <2> QED
    BY <1>2, <2>1, <2>2 DEF Create, TypeOK, Row, Executor, ExecutorAt
<1>3. CASE ReadForRetry(t)
  BY <1>3, <1>a DEF ReadForRetry, TypeOK
<1>4. CASE Retry(t)
  <2>1. task' \in [Task -> Row] /\ audits' \in 0 .. MaxAudit
    <3>1. CASE UNCHANGED <<task, audits>>
      BY <3>1, <1>d DEF TypeOK
    <3>2. CASE Restarted(t)
      <4> DEFINE a == audits'
                 r == [task[t] EXCEPT !.status = "created", !.won = FALSE, !.late = FALSE, !.audit = a]
      <4>1. a \in 0 .. MaxAudit
        BY <3>2, <1>b DEF Restarted
      <4>2. task' = [task EXCEPT ![t] = r]
        BY <3>2, <1>d DEF Restarted, Row
      <4> HIDE DEF a
      <4>3. task[t] \in Row
        BY <1>d
      <4>4. r \in Row
        BY <4>1, <4>3 DEF Row, Status
      <4>5. task' \in [Task -> Row]
        BY <4>2, <4>4, <1>d
      <4> QED
        BY <4>1, <4>5 DEF a
    <3> QED
      BY <1>4, <3>1, <3>2 DEF Retry
  <2>2. exec' \in [Process -> [Task -> Executor]] /\ shared' \subseteq Task
    BY <1>4, <1>c DEF Retry, Shares, TypeOK, Executor, ExecutorAt
  <2>3. retrying' \in [Task -> {"none", "live", "ended"}]
    BY <1>4 DEF Retry, TypeOK
  <2> QED
    BY <1>4, <2>1, <2>2, <2>3 DEF Retry, TypeOK, Row, Executor, ExecutorAt
<1>5. CASE ReadForCancel(t)
  <2>1. [at |-> "read", audit |-> task[t].audit] \in [at : {"none", "read", "holds"}, audit : 0 .. MaxAudit]
    BY <1>d DEF Row
  <2> QED
    BY <1>5, <1>a, <2>1 DEF ReadForCancel, TypeOK
<1>6. CASE HoldForCancel(t)
  BY <1>6 DEF HoldForCancel, TypeOK
<1>7. CASE CancelFails(t)
  BY <1>7, BoundsAreNumbers DEF CancelFails, TypeOK, NoCancel
<1>8. CASE Cancel(t)
  <2>1. task' \in [Task -> Row]
    BY <1>8, MarkedType DEF Cancel, Status
  <2> QED
    BY <1>8, <2>1, BoundsAreNumbers DEF Cancel, TypeOK, Row, NoCancel
<1> QED
  BY <1>1, <1>2, <1>3, <1>4, <1>5, <1>6, <1>7, <1>8 DEF User

LEMMA RestartTypes ==
  ASSUME TypeOK, RestartApi \/ RestartWorker
  PROVE  TypeOK'
<1> USE DEF userVars, agentVars, history
<1>a. Happens => events' \in 0 .. MaxEvents
  BY BoundsAreNumbers DEF Happens, TypeOK
<1>b. exec \in [Process -> [Task -> Executor]]
  BY DEF TypeOK, Executor, ExecutorAt
<1>c. Idle \in Executor /\ [Idle EXCEPT !.at = "queued"] \in Executor
  BY IdleType DEF Executor, ExecutorAt
<1>1. CASE RestartApi
  <2> DEFINE known == {t \in With(Active) : Reported(task[t].audit, {"good", "bad"})}
             ended == With(Active) \ known
             threads == [t \in Task |-> IF t \in known THEN [Idle EXCEPT !.at = "queued"] ELSE Idle]
  <2>1. known \subseteq Task
    BY DEF With
  <2>2. task' = [t \in Task |-> IF t \in ended
                                THEN [task[t] EXCEPT !.status = "failed", !.lock = FALSE, !.won = FALSE]
                                ELSE task[t]]
    BY <1>1 DEF RestartApi
  <2>3. exec' = [exec EXCEPT !["api"] = threads]
    BY <1>1 DEF RestartApi
  <2>4. shared' \subseteq Task
    BY <1>1, <2>1 DEF RestartApi, TypeOK
  <2> HIDE DEF known
  <2>5. task' \in [Task -> Row]
    <3> HIDE DEF ended
    <3>1. \A t \in Task : [task[t] EXCEPT !.status = "failed", !.lock = FALSE, !.won = FALSE] \in Row
      <4> TAKE t \in Task
      <4>1. task[t] \in Row
        BY DEF TypeOK, Row
      <4> QED
        BY <4>1 DEF Row, Status
    <3> QED
      BY <2>2, <3>1 DEF TypeOK, Row
  <2>6. threads \in [Task -> Executor]
    BY <1>c
  <2> HIDE DEF threads
  <2>7. exec' \in [Process -> [Task -> Executor]]
    BY <1>b, <2>3, <2>6
  <2>8. /\ creating' = {} /\ retrying' = [t \in Task |-> "none"] /\ canceling' = [t \in Task |-> NoCancel]
        /\ events' \in 0 .. MaxEvents
        /\ UNCHANGED <<audits, requestOf, agentVars, scan, written>>
    BY <1>1, <1>a DEF RestartApi
  <2> QED
    BY <2>4, <2>5, <2>7, <2>8, BoundsAreNumbers DEF TypeOK, Row, Executor, ExecutorAt, NoCancel
<1>2. CASE RestartWorker
  <2> DEFINE threads == [t \in Task |-> Idle]
  <2>1. threads \in [Task -> Executor]
    BY <1>c
  <2>2. exec' = [exec EXCEPT !["worker"] = threads]
    BY <1>2 DEF RestartWorker
  <2> HIDE DEF threads
  <2>3. exec' \in [Process -> [Task -> Executor]]
    BY <1>b, <2>1, <2>2
  <2> QED
    BY <1>2, <1>a, <2>3 DEF RestartWorker, TypeOK, Executor, ExecutorAt, NoScan
<1> QED
  BY <1>1, <1>2

LEMMA NextTypes == TypeOK /\ [Next]_vars => TypeOK'
<1> SUFFICES ASSUME TypeOK, [Next]_vars
             PROVE  TypeOK'
  OBVIOUS
<1>1. CASE \E p \in Process, t \in Task : Execute(p, t)
  BY <1>1, ExecuteTypes
<1>2. CASE \E t \in Task : User(t)
  BY <1>2, UserTypes
<1>3. CASE \E t \in Task : DeadlinePasses(t)
  BY <1>3, TimeTypes
<1>4. CASE \E q \in Request : LateAnswer(q) \/ CacheExpires(q)
  BY <1>4, TimeTypes
<1>5. CASE Scan
  BY <1>5, ScanTypes
<1>6. CASE RestartApi \/ RestartWorker
  BY <1>6, RestartTypes
<1>7. CASE UNCHANGED vars
  BY <1>7 DEF vars, agentVars, userVars, history, TypeOK
<1> QED
  BY <1>1, <1>2, <1>3, <1>4, <1>5, <1>6, <1>7 DEF Next

(* Every variable keeps its type, whatever the bounds.                     *)
THEOREM TypesHold == Spec => []TypeOK
<1>1. Init => TypeOK
  BY InitTypes
<1>2. TypeOK /\ [Next]_vars => TypeOK'
  BY NextTypes
<1> QED
  BY <1>1, <1>2, PTL DEF Spec

-----------------------------------------------------------------------------
(* The unique columns.                                                     *)

LEMMA NextIndex == IInv /\ [Next]_vars => IInv'
<1> SUFFICES ASSUME IInv, [Next]_vars
             PROVE  NoStrayIndexEntry' /\ WinnersAgree'
  BY NextTypes DEF IInv
<1> USE DEF userVars, agentVars, history
<1>a. TypeOK /\ NoStrayIndexEntry /\ WinnersAgree
  BY DEF IInv
<1>b. UNCHANGED task => NoStrayIndexEntry' /\ WinnersAgree'
  BY <1>a, SameIndex
<1>c. \A t \in Task, status \in Status : task' = Marked(t, status) => NoStrayIndexEntry' /\ WinnersAgree'
  <2> TAKE t \in Task, status \in Status
  <2> HAVE task' = Marked(t, status)
  <2> QED
    BY <1>a, MarkedIndex
<1>d. {"success", "failed", "canceled", "pending", "running"} \subseteq Status
  BY DEF Status
<1>e. task \in [Task -> Row]
  BY <1>a DEF TypeOK, Row
<1>1. ASSUME NEW p \in Process, NEW t \in Task, Execute(p, t)
      PROVE  NoStrayIndexEntry' /\ WinnersAgree'
  <2>1. CASE WriteBack(p, t)
    <3>1. \A s \in Task \ {t} : task'[s] = task[s] /\ s \notin Winners
      BY <2>1, <1>e DEF WriteBack, Marked, Row
    <3>2. task'[t].status = "success" /\ ~task'[t].lock
      BY <2>1, <1>e DEF WriteBack, Marked, Row
    <3>3. Winners' \subseteq {t}
      BY <3>1 DEF Winners
    <3> QED
      BY <1>a, <3>1, <3>2, <3>3 DEF NoStrayIndexEntry, WinnersAgree
  <2>2. CASE UNCHANGED task
    BY <2>2, <1>b
  <2>3. CASE \E status \in Status : task' = Marked(t, status)
    BY <2>3, <1>c
  <2> QED
    BY <1>1, <1>d, <2>1, <2>2, <2>3
       DEF Execute, Load, CannotStart, ThreadDies, WriteRecovered, KeepWaiting, MarkRunning, Send,
           CannotSend, Discard, EnterPendingRecovery, FinishDuplicate, RollBack, MarkFailed
<1>2. ASSUME NEW t \in Task, User(t)
      PROVE  NoStrayIndexEntry' /\ WinnersAgree'
  <2>1. CASE Create(t) /\ ~UNCHANGED task
    <3>1. task' = [task EXCEPT ![t] = [status |-> "created", audit |-> audits', lock |-> TRUE,
                                       won |-> FALSE, late |-> FALSE]]
      BY <2>1 DEF Create
    <3>2. Winners' \subseteq Winners
      BY <3>1, <1>e DEF Winners
    <3> QED
      BY <3>1, <3>2, <1>a, <1>e DEF NoStrayIndexEntry, WinnersAgree
  <2>2. CASE Restarted(t)
    <3>1. task' = [task EXCEPT ![t] = [task[t] EXCEPT !.status = "created", !.won = FALSE,
                                                      !.late = FALSE, !.audit = audits']]
      BY <2>2, <1>e DEF Restarted, Row
    <3>2. /\ \A s \in Task \ {t} : task'[s] = task[s]
          /\ task'[t].status = "created" /\ ~task'[t].won
      BY <3>1, <1>e DEF Row
    <3>3. Winners' \subseteq Winners
      BY <3>2 DEF Winners
    <3> QED
      BY <3>2, <3>3, <1>a DEF NoStrayIndexEntry, WinnersAgree
  <2>3. CASE UNCHANGED task
    BY <2>3, <1>b
  <2>4. CASE task' = Marked(t, "canceled")
    BY <2>4, <1>c, <1>d
  <2> QED
    BY <1>2, <2>1, <2>2, <2>3, <2>4
       DEF User, Check, Create, ReadForRetry, Retry, ReadForCancel, HoldForCancel, CancelFails, Cancel
<1>3. ASSUME NEW t \in Task, DeadlinePasses(t)
      PROVE  NoStrayIndexEntry' /\ WinnersAgree'
  <2>1. \A s \in Task : /\ task'[s].status = task[s].status
                        /\ task'[s].won = task[s].won /\ task'[s].lock = task[s].lock
    BY <1>3, <1>e DEF DeadlinePasses, Row
  <2> QED
    BY <1>a, <2>1 DEF NoStrayIndexEntry, WinnersAgree, Winners
<1>4. CASE \E q \in Request : LateAnswer(q) \/ CacheExpires(q)
  BY <1>4, <1>b DEF LateAnswer, CacheExpires
<1>5. CASE Scan
  <2>1. \A e \in scan.todo : e.task \in Task
    BY <1>a DEF TypeOK
  <2> QED
    BY <1>5, <2>1, <1>b, <1>c, <1>d DEF Scan, List, Requeue, MarkExpired, Pass
<1>6. CASE RestartApi
  <2>1. \A t \in Task : \/ task'[t] = task[t]
                        \/ task'[t].status = "failed" /\ ~task'[t].lock /\ ~task'[t].won
    BY <1>6, <1>e DEF RestartApi, Row
  <2>2. Winners' \subseteq Winners
    BY <2>1 DEF Winners
  <2> QED
    BY <1>a, <2>1, <2>2 DEF NoStrayIndexEntry, WinnersAgree
<1>7. CASE RestartWorker \/ UNCHANGED vars
  BY <1>7, <1>b DEF RestartWorker, vars
<1> QED
  BY <1>1, <1>2, <1>3, <1>4, <1>5, <1>6, <1>7 DEF Next

LEMMA Inductive == Spec => []IInv
<1>1. Init => IInv
  BY InitTypes DEF Init, IInv, NoStrayIndexEntry, WinnersAgree, Winners
<1>2. IInv /\ [Next]_vars => IInv'
  BY NextIndex
<1> QED
  BY <1>1, <1>2, PTL DEF Spec

(* No executor, cancel, retry, scan or restart, however stale what it      *)
(* read, leaves an entry in a unique column that its status does not       *)
(* justify.                                                                *)
THEOREM IndexFollowsStatus == Spec => []NoStrayIndexEntry
<1>1. IInv => NoStrayIndexEntry
  BY DEF IInv
<1> QED
  BY <1>1, Inductive, PTL

(* At most one task ever holds the fingerprint of success, for any number  *)
(* of tasks.                                                               *)
THEOREM OneTaskWins == Spec => []OneWinner
<1>1. IInv => OneWinner
  <2> SUFFICES ASSUME IInv
               PROVE  Cardinality(Winners) <= 1
    BY DEF OneWinner
  <2>1. CASE Winners = {}
    BY <2>1, FS_EmptySet
  <2>2. CASE Winners # {}
    <3>1. PICK t : Winners = {t}
      BY <2>2 DEF IInv, WinnersAgree
    <3> QED
      BY <3>1, FS_Singleton
  <2> QED
    BY <2>1, <2>2
<1> QED
  BY <1>1, Inductive, PTL

-----------------------------------------------------------------------------
(* A late answer is written back once.                                     *)

(* Only a task that is there is executed, retried, canceled or listed.     *)
AbsentRests ==
  \A t \in Task : task[t].status = "absent" =>
    /\ \A p \in Process : exec[p][t].at = "idle"
    /\ retrying[t] = "none" /\ canceling[t].at = "none"
    /\ \A e \in scan.todo : e.task # t
(* Such a task has an audit record, and a record is that of one task.      *)
HasAttempt ==
  \A t \in Task : task[t].status # "absent" => task[t].audit \in 1 .. audits /\ t \notin creating
AuditsApart ==
  \A s, t \in Task :
    task[s].status # "absent" /\ task[t].status # "absent" /\ task[s].audit = task[t].audit => s = t
Attempts == TypeOK /\ AbsentRests /\ HasAttempt /\ AuditsApart

LEMMA LastAudit ==
  ASSUME Attempts
  PROVE  \A t \in Task : task[t].status # "absent" => task[t].audit \in Audit
<1>1. audits \in Nat /\ audits <= MaxAudit
  BY BoundsAreNumbers DEF Attempts, TypeOK
<1>2. 1 .. audits \subseteq Audit
  BY <1>1, BoundsAreNumbers DEF Audit
<1> QED
  BY <1>2 DEF Attempts, HasAttempt

(* A step that starts no attempt.                                          *)
SameAttempts ==
  /\ \A s \in Task : /\ task'[s].audit = task[s].audit
                     /\ task'[s].status = "absent" <=> task[s].status = "absent"
  /\ UNCHANGED audits

LEMMA MarkedEffect ==
  ASSUME TypeOK, NEW t \in Task, NEW status \in Status, task[t].status # "absent",
         task' = Marked(t, status), UNCHANGED audits
  PROVE  /\ SameAttempts
         /\ task'[t].status = status
         /\ \A s \in Task : s # t => task'[s] = task[s]
BY DEF TypeOK, Marked, SameAttempts, Status

LEMMA QueuedEffect ==
  ASSUME TypeOK, NEW p \in Process, NEW t \in Task, exec' = Queued(p, t)
  PROVE  /\ \A o \in Process, s \in Task : o # p \/ s # t => exec'[o][s] = exec[o][s]
         /\ exec'[p][t] = IF exec[p][t].at = "idle" THEN [exec[p][t] EXCEPT !.at = "queued"]
                                                  ELSE exec[p][t]
         /\ exec'[p][t].at # "idle"
<1>1. exec \in [Process -> [Task -> Executor]]
  BY DEF TypeOK, Executor, ExecutorAt
<1>2. exec[p][t].at = "idle" => [exec[p][t] EXCEPT !.at = "queued"].at = "queued"
  BY <1>1 DEF Executor
<1> DEFINE f == IF exec[p][t].at = "idle" THEN [exec[p][t] EXCEPT !.at = "queued"] ELSE exec[p][t]
<1>3. f.at # "idle"
  BY <1>2
<1>4. exec' = [exec EXCEPT ![p] = [exec[p] EXCEPT ![t] = f]]
  BY <1>1 DEF Queued
<1> HIDE DEF f
<1>5. /\ \A o \in Process, s \in Task : o # p \/ s # t => exec'[o][s] = exec[o][s]
      /\ exec'[p][t] = f
  BY <1>1, <1>4
<1> QED
  BY <1>3, <1>5 DEF f

LEMMA QueuedElsewhere ==
  ASSUME TypeOK, NEW p \in Process, NEW t \in Task, exec' = Queued(p, t)
  PROVE  \A o \in Process, s \in Task : o # p \/ s # t => exec'[o][s] = exec[o][s]
BY QueuedEffect

LEMMA QueuedFields ==
  ASSUME TypeOK, NEW p \in Process, NEW t \in Task, exec' = Queued(p, t)
  PROVE  \/ exec'[p][t] = exec[p][t]
         \/ /\ exec[p][t].at = "idle" /\ exec'[p][t].at = "queued"
            /\ exec'[p][t].request = exec[p][t].request /\ exec'[p][t].audit = exec[p][t].audit
<1> DEFINE x == [exec[p][t] EXCEPT !.at = "queued"]
<1>1. x.at = "queued" /\ x.request = exec[p][t].request /\ x.audit = exec[p][t].audit
  BY DEF TypeOK
<1>2. exec'[p][t] = IF exec[p][t].at = "idle" THEN x ELSE exec[p][t]
  BY QueuedEffect
<1> HIDE DEF x
<1> QED
  BY <1>1, <1>2

(* What one executor does is seen in its own slot only.                    *)
LEMMA SlotEffect ==
  ASSUME TypeOK, NEW p \in Process, NEW t \in Task, NEW x, exec' = [exec EXCEPT ![p][t] = x]
  PROVE  /\ exec'[p][t] = x
         /\ \A o \in Process, s \in Task : o # p \/ s # t => exec'[o][s] = exec[o][s]
BY DEF TypeOK

LEMMA GoesEffect ==
  ASSUME TypeOK, NEW p \in Process, NEW t \in Task, NEW at, Goes(p, t, at)
  PROVE  /\ exec'[p][t] = [exec[p][t] EXCEPT !.at = at]
         /\ exec'[p][t].at = at
         /\ \A o \in Process, s \in Task : o # p \/ s # t => exec'[o][s] = exec[o][s]
<1>1. exec \in [Process -> [Task -> Executor]]
  BY DEF TypeOK, Executor, ExecutorAt
<1>2. exec' = [exec EXCEPT ![p][t] = [exec[p][t] EXCEPT !.at = at]]
  BY <1>1 DEF Goes
<1> DEFINE x == [exec[p][t] EXCEPT !.at = at]
<1>3. x.at = at
  BY <1>1 DEF Executor
<1> HIDE DEF x
<1>4. exec' = [exec EXCEPT ![p][t] = x]
  BY <1>2 DEF x
<1>5. /\ exec'[p][t] = x
      /\ \A o \in Process, s \in Task : o # p \/ s # t => exec'[o][s] = exec[o][s]
  BY <1>1, <1>4
<1>6. exec'[p][t].at = at
  BY <1>3, <1>5
<1>7. exec'[p][t] = [exec[p][t] EXCEPT !.at = at]
  BY <1>5 DEF x
<1> QED
  BY <1>5, <1>6, <1>7

LEMMA GoesFields ==
  ASSUME TypeOK, NEW p \in Process, NEW t \in Task, NEW at, Goes(p, t, at)
  PROVE  /\ exec'[p][t].at = at
         /\ exec'[p][t].request = exec[p][t].request /\ exec'[p][t].audit = exec[p][t].audit
<1> DEFINE x == [exec[p][t] EXCEPT !.at = at]
<1>1. x.request = exec[p][t].request /\ x.audit = exec[p][t].audit
  BY DEF TypeOK
<1>2. exec'[p][t] = x /\ exec'[p][t].at = at
  BY GoesEffect
<1> HIDE DEF x
<1> QED
  BY <1>1, <1>2

LEMMA QuietAttempts ==
  ASSUME Attempts, TypeOK', SameAttempts, creating' \subseteq creating,
         \A s \in Task : task[s].status = "absent" =>
           /\ \A p \in Process : exec'[p][s].at = "idle"
           /\ retrying'[s] = "none" /\ canceling'[s].at = "none"
           /\ \A e \in scan'.todo : e.task # s
  PROVE  Attempts'
<1>1. AbsentRests'
  BY DEF Attempts, AbsentRests, SameAttempts
<1>2. HasAttempt'
  BY DEF Attempts, HasAttempt, SameAttempts
<1>3. AuditsApart'
  BY DEF Attempts, AuditsApart, SameAttempts
<1> QED
  BY <1>1, <1>2, <1>3 DEF Attempts

(* The one step that starts an attempt of a task: its creation or a retry. *)
LEMMA NewAttempt ==
  ASSUME Attempts, TypeOK', NEW t \in Task,
         audits' = audits + 1,
         task'[t].status = "created", task'[t].audit = audits',
         \A s \in Task : s # t => task'[s] = task[s],
         creating' \subseteq creating, t \notin creating',
         \A s \in Task : task[s].status = "absent" /\ s # t =>
           /\ \A p \in Process : exec'[p][s].at = "idle"
           /\ retrying'[s] = "none" /\ canceling'[s].at = "none",
         UNCHANGED scan
  PROVE  Attempts'
<1>1. audits \in Nat /\ audits' \in Nat
  BY BoundsAreNumbers DEF Attempts, TypeOK
<1>2. \A s \in Task : s # t => task'[s].audit # audits' \/ task'[s].status = "absent"
  BY <1>1 DEF Attempts, HasAttempt
<1>3. AbsentRests'
  BY DEF Attempts, AbsentRests
<1>4. HasAttempt'
  BY <1>1 DEF Attempts, HasAttempt
<1>5. AuditsApart'
  BY <1>2 DEF Attempts, AuditsApart
<1> QED
  BY <1>3, <1>4, <1>5 DEF Attempts

LEMMA ExecuteElsewhere ==
  ASSUME TypeOK, NEW p \in Process, NEW t \in Task, Execute(p, t)
  PROVE  \A o \in Process, s \in Task : o # p \/ s # t => exec'[o][s] = exec[o][s]
<1>1. exec \in [Process -> [Task -> Executor]]
  BY DEF TypeOK, Executor, ExecutorAt
<1>2. CASE Load(p, t)
  <2> DEFINE loaded(at, q) == [at |-> at, audit |-> task[t].audit, request |-> q]
             x == IF task[t].status \notin Executable THEN Idle
                  ELSE IF Reported(task[t].audit, {"good"})
                  THEN loaded("recovered", requestOf[task[t].audit])
                  ELSE loaded(IF task[t].status = "pending" THEN "waiting" ELSE "loaded", 0)
  <2>1. exec' = [exec EXCEPT ![p][t] = x]
    BY <1>2 DEF Load
  <2> HIDE DEF x
  <2> QED
    BY <1>1, <2>1
<1>3. CASE Send(p, t)
  <2>1. PICK at : exec' = [exec EXCEPT ![p][t] = [@ EXCEPT !.at = at, !.request = sent']]
    BY <1>3 DEF Send
  <2> DEFINE x == [exec[p][t] EXCEPT !.at = at, !.request = sent']
  <2>2. exec' = [exec EXCEPT ![p][t] = x]
    BY <1>1, <2>1
  <2> HIDE DEF x
  <2> QED
    BY <1>1, <2>2
<1>4. CASE Ends(p, t)
  BY <1>1, <1>4 DEF Ends
<1>5. CASE \E at : Goes(p, t, at)
  BY <1>5, GoesEffect
<1> QED
  BY <1>2, <1>3, <1>4, <1>5
  DEF Execute, CannotStart, ThreadDies, WriteRecovered, KeepWaiting, MarkRunning, CannotSend,
      Discard, EnterPendingRecovery, WriteBack, FinishDuplicate, RollBack, MarkFailed

LEMMA ExecuteSame ==
  ASSUME Attempts, NEW p \in Process, NEW t \in Task, Execute(p, t)
  PROVE  SameAttempts /\ \A s \in Task : s # t => task'[s] = task[s]
<1> USE DEF userVars, history
<1>0. TypeOK
  BY DEF Attempts
<1>1. exec[p][t].at # "idle" /\ UNCHANGED audits
  BY DEF Execute, Load, CannotStart, ThreadDies, WriteRecovered, KeepWaiting, MarkRunning, Send,
         CannotSend, Discard, EnterPendingRecovery, WriteBack, FinishDuplicate, RollBack, MarkFailed
<1>2. task[t].status # "absent"
  BY <1>1 DEF Attempts, AbsentRests
<1>3. CASE UNCHANGED task
  BY <1>1, <1>3 DEF SameAttempts
<1>4. CASE \E status \in Status : task' = Marked(t, status)
  BY <1>0, <1>1, <1>2, <1>4, MarkedEffect
<1>5. CASE WriteBack(p, t)
  BY <1>0, <1>1, <1>2, <1>5 DEF WriteBack, Marked, SameAttempts, TypeOK, Status
<1> QED
  BY <1>3, <1>4, <1>5
  DEF Execute, Load, CannotStart, ThreadDies, WriteRecovered, KeepWaiting, MarkRunning, Send,
      CannotSend, Discard, EnterPendingRecovery, FinishDuplicate, RollBack, MarkFailed, Status

(* Whoever ends or goes on stays within the tasks that are there.          *)
LEMMA ExecuteAttempts ==
  ASSUME Attempts, TypeOK', NEW p \in Process, NEW t \in Task, Execute(p, t)
  PROVE  Attempts'
<1> USE DEF userVars, history
<1>0. TypeOK
  BY DEF Attempts
<1>1. exec[p][t].at # "idle" /\ UNCHANGED <<audits, creating, retrying, canceling, scan>>
  BY DEF Execute, Load, CannotStart, ThreadDies, WriteRecovered, KeepWaiting, MarkRunning, Send,
         CannotSend, Discard, EnterPendingRecovery, WriteBack, FinishDuplicate, RollBack, MarkFailed
<1>2. task[t].status # "absent"
  BY <1>1 DEF Attempts, AbsentRests
<1>4. \A s \in Task : s # t => \A o \in Process : exec'[o][s] = exec[o][s]
  BY <1>0, ExecuteElsewhere
<1>5. SameAttempts
  BY ExecuteSame
<1> QED
  BY <1>1, <1>2, <1>4, <1>5, QuietAttempts DEF Attempts, AbsentRests

(* A user may start an attempt.                                            *)
LEMMA UserAttempts ==
  ASSUME Attempts, TypeOK', NEW t \in Task, User(t)
  PROVE  Attempts'
<1> USE DEF history
<1>0. TypeOK
  BY DEF Attempts
<1>1. ASSUME UNCHANGED <<task, audits, exec, scan>>, creating' \subseteq creating,
             \A s \in Task : task[s].status = "absent" =>
               retrying'[s] = "none" /\ canceling'[s].at = "none"
      PROVE  Attempts'
  BY <1>1, QuietAttempts DEF SameAttempts, Attempts, AbsentRests
<1>2. \A s \in Task : task[s].status = "absent" =>
               retrying[s] = "none" /\ canceling[s].at = "none"
  BY DEF Attempts, AbsentRests
<1>3. CASE Check(t)
  <2>1. AbsentRests'
    BY <1>3 DEF Check, Attempts, AbsentRests
  <2>2. HasAttempt'
    BY <1>3 DEF Check, Attempts, HasAttempt, With
  <2>3. AuditsApart'
    BY <1>3 DEF Check, Attempts, AuditsApart
  <2> QED
    BY <2>1, <2>2, <2>3 DEF Attempts
<1>4. CASE Create(t)
  <2>1. CASE \E s \in Task : task[s].lock
    BY <1>1, <1>2, <1>4, <2>1 DEF Create
  <2>2. CASE ~ \E s \in Task : task[s].lock
    <3>1. /\ audits' = audits + 1
          /\ task' = [task EXCEPT ![t] = [status |-> "created", audit |-> audits', lock |-> TRUE,
                                          won |-> FALSE, late |-> FALSE]]
          /\ exec' = Queued("api", t)
          /\ creating' = creating \ {t} /\ UNCHANGED <<retrying, canceling, scan>>
      BY <1>4, <2>2 DEF Create
    <3>2. /\ task'[t].status = "created" /\ task'[t].audit = audits'
          /\ \A s \in Task : s # t => task'[s] = task[s]
      BY <1>0, <3>1 DEF TypeOK
    <3>3. \A o \in Process, s \in Task : s # t => exec'[o][s] = exec[o][s]
      BY <1>0, <3>1, QueuedElsewhere DEF Process
    <3> QED
      BY <3>1, <3>2, <3>3, NewAttempt DEF Attempts, AbsentRests
  <2> QED
    BY <2>1, <2>2
<1>5. CASE ReadForRetry(t)
  <2>1. task[t].status # "absent" /\ retrying' = [retrying EXCEPT ![t] = retrying'[t]]
    BY <1>0, <1>5 DEF ReadForRetry, Active, TypeOK
  <2>2. \A s \in Task : task[s].status = "absent" => retrying'[s] = "none"
    BY <1>0, <1>2, <2>1 DEF TypeOK
  <2> QED
    BY <1>1, <1>2, <1>5, <2>2 DEF ReadForRetry
<1>6. CASE Retry(t)
  <2>1. task[t].status # "absent"
    BY <1>2, <1>6 DEF Retry
  <2>2. \A s \in Task : task[s].status = "absent" =>
          s # t /\ retrying'[s] = "none" /\ canceling'[s].at = "none"
    BY <1>0, <1>2, <1>6, <2>1 DEF Retry, TypeOK
  <2>3. CASE UNCHANGED <<task, audits, exec>>
    BY <1>1, <1>6, <2>2, <2>3 DEF Retry
  <2>4. CASE exec' = Queued("api", t)
    <3>1. \A o \in Process, s \in Task : s # t => exec'[o][s] = exec[o][s]
      BY <1>0, <2>4, QueuedElsewhere DEF Process
    <3>2. \A s \in Task : task[s].status = "absent" => \A o \in Process : exec'[o][s].at = "idle"
      BY <2>1, <3>1 DEF Attempts, AbsentRests
    <3>3. CASE UNCHANGED <<task, audits>>
      BY <1>6, <2>2, <3>2, <3>3, QuietAttempts DEF Retry, SameAttempts, Attempts, AbsentRests
    <3>4. CASE Restarted(t)
      <4>1. /\ audits' = audits + 1
            /\ task'[t].status = "created" /\ task'[t].audit = audits'
            /\ \A s \in Task : s # t => task'[s] = task[s]
        BY <1>0, <3>4 DEF Restarted, TypeOK
      <4>2. t \notin creating
        BY <2>1 DEF Attempts, HasAttempt
      <4> QED
        BY <1>6, <2>2, <3>2, <4>1, <4>2, NewAttempt DEF Retry
    <3> QED
      BY <1>6, <2>3, <3>3, <3>4 DEF Retry
  <2> QED
    BY <1>6, <2>3, <2>4 DEF Retry
<1>7. CASE ReadForCancel(t)
  <2>1. task[t].status # "absent"
    BY <1>7 DEF ReadForCancel, Executable, Active
  <2>2. \A s \in Task : task[s].status = "absent" => canceling'[s].at = "none"
    BY <1>0, <1>2, <1>7, <2>1 DEF ReadForCancel, TypeOK
  <2> QED
    BY <1>1, <1>2, <1>7, <2>2 DEF ReadForCancel
<1>8. CASE HoldForCancel(t) \/ CancelFails(t)
  <2>1. task[t].status # "absent"
    BY <1>2, <1>8 DEF HoldForCancel, CancelFails
  <2>2. \A s \in Task : task[s].status = "absent" => canceling'[s].at = "none"
    BY <1>0, <1>2, <1>8, <2>1 DEF HoldForCancel, CancelFails, TypeOK
  <2> QED
    BY <1>1, <1>2, <1>8, <2>2 DEF HoldForCancel, CancelFails
<1>9. CASE Cancel(t)
  <2>1. task[t].status # "absent"
    BY <1>2, <1>9 DEF Cancel
  <2>2. \A s \in Task : task[s].status = "absent" => canceling'[s].at = "none"
    BY <1>0, <1>2, <1>9, <2>1 DEF Cancel, TypeOK
  <2>3. SameAttempts
    BY <1>0, <1>9, <2>1, MarkedEffect DEF Cancel, Status
  <2> QED
    BY <1>9, <2>2, <2>3, QuietAttempts DEF Cancel, Attempts, AbsentRests
<1> QED
  BY <1>3, <1>4, <1>5, <1>6, <1>7, <1>8, <1>9 DEF User

(* So does nobody else.                                                    *)
LEMMA OtherAttempts ==
  ASSUME Attempts, TypeOK',
         \/ \E t \in Task : DeadlinePasses(t)
         \/ \E q \in Request : LateAnswer(q) \/ CacheExpires(q)
         \/ Scan \/ RestartApi \/ RestartWorker \/ UNCHANGED vars
  PROVE  Attempts'
<1> USE DEF history, userVars
<1>0. TypeOK
  BY DEF Attempts
<1>1. ASSUME SameAttempts, UNCHANGED <<creating, retrying, canceling>>,
             \A s \in Task : task[s].status = "absent" =>
               /\ \A p \in Process : exec'[p][s].at = "idle"
               /\ \A e \in scan'.todo : e.task # s
      PROVE  Attempts'
  BY <1>1, QuietAttempts DEF Attempts, AbsentRests
<1>2. ASSUME SameAttempts, UNCHANGED <<creating, retrying, canceling, exec, scan>>
      PROVE  Attempts'
  BY <1>1, <1>2 DEF Attempts, AbsentRests
<1>3. ASSUME NEW t \in Task, DeadlinePasses(t) PROVE Attempts'
  <2>1. SameAttempts
    BY <1>0, <1>3 DEF DeadlinePasses, SameAttempts, TypeOK
  <2> QED
    BY <1>2, <1>3, <2>1 DEF DeadlinePasses
<1>4. ASSUME NEW q \in Request, LateAnswer(q) \/ CacheExpires(q) PROVE Attempts'
  BY <1>2, <1>4 DEF LateAnswer, CacheExpires, SameAttempts
<1>5. CASE List
  <2>1. \A e \in scan'.todo : e.task \in Task /\ task[e.task].status # "absent"
    BY <1>5 DEF List, With
  <2> QED
    BY <1>1, <1>5, <2>1 DEF List, SameAttempts, Attempts, AbsentRests
<1>6. ASSUME NEW e \in scan.todo, Requeue(e) \/ MarkExpired(e) \/ Pass(e) PROVE Attempts'
  <2>1. e.task \in Task /\ task[e.task].status # "absent"
    BY <1>0 DEF TypeOK, Attempts, AbsentRests
  <2>2. scan'.todo \subseteq scan.todo
    BY <1>6 DEF Requeue, MarkExpired, Pass, Done
  <2>3. SameAttempts
    BY <1>0, <1>6, <2>1, MarkedEffect DEF Requeue, MarkExpired, Pass, SameAttempts, Status
  <2>4. \A o \in Process, s \in Task : s # e.task => exec'[o][s] = exec[o][s]
    <3>1. CASE Requeue(e)
      BY <1>0, <2>1, <3>1, QueuedElsewhere DEF Requeue, Process
    <3>2. CASE MarkExpired(e) \/ Pass(e)
      BY <3>2 DEF MarkExpired, Pass
    <3> QED
      BY <1>6, <3>1, <3>2
  <2>5. UNCHANGED <<creating, retrying, canceling>>
    BY <1>6 DEF Requeue, MarkExpired, Pass
  <2>6. \A s \in Task : task[s].status = "absent" =>
          /\ \A p \in Process : exec'[p][s].at = "idle"
          /\ \A f \in scan'.todo : f.task # s
    BY <2>1, <2>2, <2>4 DEF Attempts, AbsentRests
  <2> QED
    BY <1>1, <2>3, <2>5, <2>6
<1>7. CASE RestartApi
  <2>1. SameAttempts
    <3>1. \A s \in Task : \/ task'[s] = task[s]
                         \/ /\ s \in With(Active)
                            /\ task'[s] = [task[s] EXCEPT !.status = "failed", !.lock = FALSE, !.won = FALSE]
      BY <1>7 DEF RestartApi
    <3>2. task \in [Task -> Row]
      BY <1>0 DEF TypeOK, Row
    <3>3. \A s \in Task : task'[s].audit = task[s].audit /\ (task'[s].status = "absent" <=> task[s].status = "absent")
      BY <3>1, <3>2 DEF With, Active, Row
    <3> QED
      BY <1>7, <3>3 DEF RestartApi, SameAttempts
  <2>2. \A s \in Task : task[s].status = "absent" => \A p \in Process : exec'[p][s].at = "idle"
    <3>1. exec \in [Process -> [Task -> Executor]]
      BY <1>0 DEF TypeOK, Executor, ExecutorAt
    <3> DEFINE known == {t \in With(Active) : Reported(task[t].audit, {"good", "bad"})}
               slots == [t \in Task |-> IF t \in known THEN [Idle EXCEPT !.at = "queued"] ELSE Idle]
    <3>2. exec' = [exec EXCEPT !["api"] = slots]
      BY <1>7 DEF RestartApi
    <3>3. \A s \in Task : task[s].status = "absent" => slots[s].at = "idle"
      BY DEF With, Active, Idle
    <3> HIDE DEF slots
    <3> QED
      BY <3>1, <3>2, <3>3 DEF Attempts, AbsentRests
  <2>3. /\ creating' = {} /\ scan' = scan
        /\ \A s \in Task : retrying'[s] = "none" /\ canceling'[s].at = "none"
    BY <1>7 DEF RestartApi, NoCancel
  <2> QED
    BY <2>1, <2>2, <2>3, QuietAttempts DEF Attempts, AbsentRests
<1>8. CASE RestartWorker
  <2>1. \A s \in Task : task[s].status = "absent" => \A p \in Process : exec'[p][s].at = "idle"
    <3>1. exec \in [Process -> [Task -> Executor]]
      BY <1>0 DEF TypeOK, Executor, ExecutorAt
    <3> QED
      BY <1>8, <3>1 DEF RestartWorker, Idle, Attempts, AbsentRests
  <2>2. scan'.todo = {}
    BY <1>8 DEF RestartWorker, NoScan
  <2> QED
    BY <1>1, <1>8, <2>1, <2>2 DEF RestartWorker, SameAttempts
<1>9. CASE UNCHANGED vars
  BY <1>2, <1>9 DEF vars, SameAttempts
<1> QED
  BY <1>3, <1>4, <1>5, <1>6, <1>7, <1>8, <1>9 DEF Scan

LEMMA NextAttempts == Attempts /\ [Next]_vars => Attempts'
<1> SUFFICES ASSUME Attempts, [Next]_vars
             PROVE  Attempts'
  OBVIOUS
<1>1. TypeOK'
  BY NextTypes DEF Attempts
<1>2. CASE \E p \in Process, t \in Task : Execute(p, t)
  BY <1>1, <1>2, ExecuteAttempts
<1>3. CASE \E t \in Task : User(t)
  BY <1>1, <1>3, UserAttempts
<1>4. CASE \E t \in Task : DeadlinePasses(t)
  BY <1>1, <1>4, OtherAttempts
<1>5. CASE (\E q \in Request : LateAnswer(q) \/ CacheExpires(q)) \/ Scan \/ RestartApi
           \/ RestartWorker \/ UNCHANGED vars
  BY <1>1, <1>5, OtherAttempts
<1> QED
  BY <1>2, <1>3, <1>4, <1>5 DEF Next

LEMMA InitAttempts == Init => Attempts
<1> SUFFICES ASSUME Init
             PROVE  TypeOK /\ AbsentRests /\ HasAttempt /\ AuditsApart
  BY DEF Attempts
<1>1. \A t \in Task : task[t].status = "absent"
  BY DEF Init
<1>2. AbsentRests
  <2>1. \A p \in Process, t \in Task : exec[p][t].at = "idle"
    BY DEF Init, Idle
  <2>2. \A t \in Task : retrying[t] = "none" /\ canceling[t].at = "none"
    BY DEF Init, NoCancel
  <2>3. \A t \in Task, e \in scan.todo : e.task # t
    BY DEF Init, NoScan
  <2> QED
    BY <2>1, <2>2, <2>3 DEF AbsentRests
<1>3. HasAttempt /\ AuditsApart
  BY <1>1 DEF HasAttempt, AuditsApart
<1> QED
  BY <1>2, <1>3, InitTypes

(* No two attempts, and no attempt and an exchange, have a request in      *)
(* common: what is written back is the answer to one.                      *)
RequestsApart ==
  /\ \A a \in Audit : requestOf[a] <= sent /\ (requestOf[a] # 0 => a <= audits)
  /\ \A a, b \in Audit : requestOf[a] = requestOf[b] /\ requestOf[a] # 0 => a = b
  /\ \A q \in Request : written[q] # 0 => q <= sent
  /\ \A p \in Process, t \in Task : exec[p][t].request <= sent /\ exec[p][t].audit <= audits
ExchangeApart ==
  \A p \in Process, t \in Task : exec[p][t].at = "exchange" =>
    /\ exec[p][t].request \in Request /\ written[exec[p][t].request] = 0
    /\ \A a \in Audit : requestOf[a] # exec[p][t].request
    /\ \A o \in Process, s \in Task :
         /\ exec[o][s].at \in {"exchange", "recovered"}
         /\ exec[o][s].request = exec[p][t].request
         => o = p /\ s = t

(* A slot that starts no exchange: an answer it recovers is one that an    *)
(* audit record names.                                                     *)
NoExchange(p, t) ==
  \/ exec'[p][t] = exec[p][t]
  \/ /\ exec'[p][t].at # "exchange"
     /\ exec'[p][t].request <= sent /\ exec'[p][t].audit <= audits
     /\ exec'[p][t].at = "recovered" => \E a \in Audit : exec'[p][t].request = requestOf[a]

LEMMA QuietRequests ==
  ASSUME TypeOK, TypeOK', RequestsApart, ExchangeApart,
         UNCHANGED <<requestOf, sent, written>>, audits' \in {audits, audits + 1},
         \A p \in Process, t \in Task : NoExchange(p, t)
  PROVE  RequestsApart' /\ ExchangeApart'
<1>1. /\ audits \in Nat /\ sent \in Nat /\ audits <= audits'
      /\ \A p \in Process, t \in Task : exec'[p][t].audit \in Nat /\ exec[p][t].audit \in Nat
      /\ Audit \subseteq Nat
  BY BoundsAreNumbers DEF TypeOK, Audit
<1>2. RequestsApart'
  <2>1. \A p \in Process, t \in Task : exec'[p][t].request <= sent /\ exec'[p][t].audit <= audits
    BY DEF RequestsApart, NoExchange
  <2>2. \A a \in Audit : requestOf[a] # 0 => a <= audits'
    BY <1>1 DEF RequestsApart
  <2>3. \A p \in Process, t \in Task : exec'[p][t].audit <= audits'
    BY <1>1, <2>1
  <2> QED
    BY <2>1, <2>2, <2>3 DEF RequestsApart
<1>3. \A p \in Process, t \in Task : exec'[p][t].at = "exchange" => exec'[p][t] = exec[p][t]
  BY DEF NoExchange
<1>4. \A p \in Process, t \in Task, q \in Request :
        /\ exec'[p][t].at \in {"exchange", "recovered"} /\ exec'[p][t].request = q
        /\ \A a \in Audit : requestOf[a] # q
        => exec[p][t].at \in {"exchange", "recovered"} /\ exec[p][t].request = q
  BY DEF NoExchange
<1>5. ExchangeApart'
  BY <1>3, <1>4 DEF ExchangeApart
<1> QED
  BY <1>2, <1>5

(* An exchange is given a request of its own.                              *)
LEMMA SendRequests ==
  ASSUME TypeOK, TypeOK', RequestsApart, ExchangeApart, NEW p \in Process, NEW t \in Task, Send(p, t)
  PROVE  /\ RequestsApart' /\ ExchangeApart'
         /\ exec'[p][t].at \in {"exchange", "dropped"} /\ exec'[p][t].audit = exec[p][t].audit
<1>1. exec \in [Process -> [Task -> Executor]]
  BY DEF TypeOK, Executor, ExecutorAt
<1>2. PICK at \in {"exchange", "dropped"} :
        exec' = [exec EXCEPT ![p][t] = [exec[p][t] EXCEPT !.at = at, !.request = sent']]
  BY <1>1 DEF Send
<1> DEFINE x == [exec[p][t] EXCEPT !.at = at, !.request = sent']
<1>3. x.at = at /\ x.request = sent' /\ x.audit = exec[p][t].audit
  BY <1>1 DEF Executor
<1> HIDE DEF x
<1>4. exec' = [exec EXCEPT ![p][t] = x]
  BY <1>2 DEF x
<1>5. /\ exec'[p][t] = x
      /\ \A o \in Process, s \in Task : o # p \/ s # t => exec'[o][s] = exec[o][s]
  BY <1>1, <1>4
<1>6. /\ sent \in Nat /\ sent' = sent + 1 /\ sent' \in Request
      /\ UNCHANGED <<audits, requestOf, written>>
  BY BoundsAreNumbers DEF TypeOK, Send, history, Request
<1>7. /\ \A a \in Audit : requestOf[a] \in Nat
      /\ \A o \in Process, s \in Task : exec[o][s].request \in Nat
      /\ Request \subseteq Nat
  BY BoundsAreNumbers DEF TypeOK, Request
<1>8. RequestsApart'
  <2>1. \A o \in Process, s \in Task : exec'[o][s].request <= sent' /\ exec'[o][s].audit <= audits'
    BY <1>3, <1>5, <1>6, <1>7 DEF RequestsApart
  <2>2. \A a \in Audit : requestOf[a] <= sent'
    BY <1>6, <1>7 DEF RequestsApart
  <2>3. \A q \in Request : written[q] # 0 => q <= sent'
    BY <1>6, <1>7 DEF RequestsApart
  <2> QED
    BY <1>6, <2>1, <2>2, <2>3 DEF RequestsApart
<1>9. ExchangeApart'
  <2>1. /\ \A a \in Audit : requestOf[a] # sent'
        /\ \A o \in Process, s \in Task : exec[o][s].request # sent'
        /\ written[sent'] = 0
    BY <1>6, <1>7 DEF RequestsApart
  <2> QED
    BY <1>3, <1>5, <1>6, <2>1 DEF ExchangeApart
<1> QED
  BY <1>3, <1>5, <1>8, <1>9

(* The end of an exchange or of a recovery: the request goes to the audit  *)
(* record, or its answer is written back, or both.                         *)
LEMMA EndRequests ==
  ASSUME TypeOK, TypeOK', RequestsApart, ExchangeApart, NEW p \in Process, NEW t \in Task,
         \/ EnterPendingRecovery(p, t)
         \/ WriteBack(p, t)
         \/ WriteRecovered(p, t)
  PROVE  /\ RequestsApart' /\ ExchangeApart' /\ exec'[p][t] = Idle
         /\ \A o \in Process, s \in Task : o # p \/ s # t => exec'[o][s] = exec[o][s]
<1> USE DEF history, agentVars
<1>1. exec \in [Process -> [Task -> Executor]]
  BY DEF TypeOK, Executor, ExecutorAt
<1> DEFINE q == exec[p][t].request
           a == exec[p][t].audit
<1>2. /\ exec'[p][t] = Idle
      /\ \A o \in Process, s \in Task : o # p \/ s # t => exec'[o][s] = exec[o][s]
  BY <1>1 DEF EnterPendingRecovery, WriteBack, WriteRecovered, Ends
<1>3. /\ exec[p][t].at \in {"exchange", "recovered"} /\ UNCHANGED <<sent, audits>>
      /\ \A r \in Request : r # q => written'[r] = written[r]
  BY DEF TypeOK, EnterPendingRecovery, WriteBack, WriteRecovered
<1>4. \/ UNCHANGED requestOf
      \/ /\ exec[p][t].at = "exchange" /\ requestOf' = [requestOf EXCEPT ![a] = q]
  BY DEF EnterPendingRecovery, WriteBack, WriteRecovered, CommitRequest
<1>5. \A b \in Audit : \/ requestOf'[b] = requestOf[b]
                       \/ b = a /\ requestOf'[b] = q /\ exec[p][t].at = "exchange"
  BY <1>4 DEF TypeOK
<1>6. RequestsApart'
  <2>1. \A b \in Audit : requestOf'[b] <= sent /\ (requestOf'[b] # 0 => b <= audits)
    BY <1>5 DEF RequestsApart
  <2>2. \A b, c \in Audit : requestOf'[b] = requestOf'[c] /\ requestOf'[b] # 0 => b = c
    BY <1>5 DEF RequestsApart, ExchangeApart
  <2>3. \A r \in Request : written'[r] # 0 => r <= sent
    BY <1>3 DEF RequestsApart
  <2>4. \A o \in Process, s \in Task : exec'[o][s].request <= sent /\ exec'[o][s].audit <= audits
    <3>1. Idle.request = 0 /\ Idle.audit = 0 /\ 0 <= sent /\ 0 <= audits
      BY BoundsAreNumbers DEF Idle, TypeOK
    <3> QED
      BY <1>2, <3>1 DEF RequestsApart
  <2> QED
    BY <1>3, <2>1, <2>2, <2>3, <2>4 DEF RequestsApart
<1>7. ExchangeApart'
  <2> SUFFICES ASSUME NEW o \in Process, NEW s \in Task, exec'[o][s].at = "exchange"
               PROVE  /\ exec'[o][s].request \in Request /\ written'[exec'[o][s].request] = 0
                      /\ \A b \in Audit : requestOf'[b] # exec'[o][s].request
                      /\ \A n \in Process, u \in Task :
                           /\ exec'[n][u].at \in {"exchange", "recovered"}
                           /\ exec'[n][u].request = exec'[o][s].request
                           => n = o /\ u = s
    BY DEF ExchangeApart
  <2>1. (o # p \/ s # t) /\ exec'[o][s] = exec[o][s]
    BY <1>2 DEF Idle
  <2>2. exec[o][s].request \in Request /\ exec[o][s].request # q /\ written[exec[o][s].request] = 0
    BY <1>3, <2>1 DEF ExchangeApart
  <2>3. \A b \in Audit : requestOf'[b] # exec[o][s].request
    BY <1>5, <2>1, <2>2 DEF ExchangeApart
  <2>4. \A n \in Process, u \in Task :
          exec'[n][u].at \in {"exchange", "recovered"} => exec'[n][u] = exec[n][u]
    BY <1>2 DEF Idle
  <2> QED
    BY <1>2, <1>3, <2>1, <2>2, <2>3, <2>4 DEF ExchangeApart
<1> QED
  BY <1>2, <1>6, <1>7

(* As long as no task was held by both processes at once: an executor      *)
(* works on the last attempt of its task, alone; an answer it recovers has *)
(* not been written back; and a task whose answer has been is not executed *)
(* again.                                                                  *)
Works(p, t) == exec[p][t].at \notin {"idle", "queued"}
Alone == \A p, o \in Process, t \in Task : exec[p][t].at # "idle" /\ exec[o][t].at # "idle" => o = p
HoldsAttempt == \A p \in Process, t \in Task : Works(p, t) => exec[p][t].audit = task[t].audit
RecoversLast ==
  \A p \in Process, t \in Task : exec[p][t].at = "recovered" =>
    /\ exec[p][t].request \in Request /\ written[exec[p][t].request] = 0
    /\ exec[p][t].request = requestOf[task[t].audit]
OverOnce ==
  \A q \in Request : written[q] # 0 =>
    /\ written[q] = 1
    /\ \A t \in Task : task[t].status # "absent" /\ requestOf[task[t].audit] = q =>
         task[t].status \notin Executable /\ \A p \in Process : ~Works(p, t)
Excl == shared = {} => Alone /\ HoldsAttempt /\ RecoversLast /\ OverOnce

LEMMA AloneStays ==
  ASSUME Alone, \A p \in Process, t \in Task : exec'[p][t].at # "idle" => exec[p][t].at # "idle"
  PROVE  Alone'
BY DEF Alone

LEMMA AloneQueued ==
  ASSUME TypeOK, Alone, NEW p \in Process, NEW t \in Task, exec' = Queued(p, t),
         \A o \in Process \ {p} : exec[o][t].at = "idle"
  PROVE  Alone'
BY QueuedElsewhere DEF Alone

(* What may become of an attempt in a step that writes no answer back ...  *)
SlotGoesOn(p, t) ==
  \/ exec'[p][t] = exec[p][t]
  \/ exec'[p][t].at \in {"idle", "queued"}
  \/ /\ Works(p, t)
     /\ exec'[p][t].at # "recovered" /\ exec'[p][t].audit = exec[p][t].audit
  \/ /\ task[t].status \in Executable
     /\ exec'[p][t].audit = task[t].audit
     /\ exec'[p][t].at = "recovered" =>
          /\ exec'[p][t].request = requestOf[task[t].audit] /\ exec'[p][t].request # 0
SameAttempt(t) ==
  /\ task'[t].audit = task[t].audit
  /\ task'[t].status = "absent" <=> task[t].status = "absent"
  /\ task'[t].status \in Executable =>
       task[t].status \in Executable \/ \E p \in Process : Works(p, t)
  /\ \A p \in Process : SlotGoesOn(p, t)
(* ... and how another one begins.                                         *)
FreshAttempt(t) ==
  /\ task'[t].audit \in Audit /\ task'[t].audit > audits
  /\ \A p \in Process : exec'[p][t].at \in {"idle", "queued"}

LEMMA QuietExcl ==
  ASSUME Attempts, Attempts', RequestsApart, Excl,
         shared \subseteq shared', shared' = {} => Alone',
         UNCHANGED <<requestOf, written>>,
         \A t \in Task : SameAttempt(t) \/ FreshAttempt(t)
  PROVE  Excl'
<1> SUFFICES ASSUME shared' = {}
             PROVE  HoldsAttempt' /\ RecoversLast' /\ OverOnce'
  BY DEF Excl
<1>1. Alone /\ HoldsAttempt /\ RecoversLast /\ OverOnce
  BY DEF Excl
<1>2. /\ \A t \in Task : task[t].status # "absent" => task[t].audit \in Audit
      /\ \A t \in Task : task'[t].status # "absent" => task'[t].audit \in Audit
  BY DEF Attempts, HasAttempt, TypeOK, Audit
<1>3. audits \in Nat /\ Audit \subseteq Nat /\ \A a \in Audit : requestOf[a] \in 0 .. MaxRequest
  BY BoundsAreNumbers DEF Attempts, TypeOK, Audit
<1>4. \A t \in Task : FreshAttempt(t) => requestOf[task'[t].audit] = 0
  <2>1. \A b \in Audit : b > audits => requestOf[b] = 0
    BY <1>3 DEF RequestsApart
  <2> QED
    BY <2>1 DEF FreshAttempt
<1>5. HoldsAttempt'
  BY <1>1 DEF HoldsAttempt, Works, SameAttempt, FreshAttempt, SlotGoesOn
<1>6. \A q \in Request : q # 0
  BY BoundsAreNumbers DEF Request
<1>7. RecoversLast'
  <2> SUFFICES ASSUME NEW p \in Process, NEW t \in Task, exec'[p][t].at = "recovered"
               PROVE  /\ exec'[p][t].request \in Request /\ written[exec'[p][t].request] = 0
                      /\ exec'[p][t].request = requestOf[task'[t].audit]
    BY DEF RecoversLast
  <2>1. SameAttempt(t) /\ SlotGoesOn(p, t)
    BY DEF SameAttempt, FreshAttempt
  <2>2. CASE exec'[p][t] = exec[p][t]
    BY <1>1, <2>1, <2>2 DEF RecoversLast, SameAttempt
  <2>3. CASE /\ task[t].status \in Executable
             /\ exec'[p][t].request = requestOf[task[t].audit] /\ exec'[p][t].request # 0
    <3>1. task[t].status # "absent"
      BY <2>3 DEF Executable, Active
    <3>2. exec'[p][t].request \in Request
      <4>1. \A n \in 0 .. MaxRequest : n # 0 => n \in Request
        BY BoundsAreNumbers DEF Request
      <4> QED
        BY <1>2, <1>3, <2>3, <3>1, <4>1
    <3> QED
      BY <1>1, <2>1, <2>3, <3>1, <3>2 DEF OverOnce, SameAttempt
  <2> QED
    BY <2>1, <2>2, <2>3 DEF SlotGoesOn
<1>8. OverOnce'
  <2> SUFFICES ASSUME NEW q \in Request, written[q] # 0
               PROVE  /\ written[q] = 1
                      /\ \A t \in Task :
                           task'[t].status # "absent" /\ requestOf[task'[t].audit] = q =>
                             /\ task'[t].status \notin Executable
                             /\ \A p \in Process : exec'[p][t].at \in {"idle", "queued"}
    BY DEF OverOnce, Works
  <2>1. written[q] = 1
    BY <1>1 DEF OverOnce
  <2>2. ASSUME NEW t \in Task, task'[t].status # "absent", requestOf[task'[t].audit] = q
        PROVE  /\ task'[t].status \notin Executable
               /\ \A p \in Process : exec'[p][t].at \in {"idle", "queued"}
    <3>1. SameAttempt(t)
      BY <1>4, <1>6, <2>2
    <3>2. task[t].status # "absent" /\ requestOf[task[t].audit] = q
      BY <2>2, <3>1 DEF SameAttempt
    <3>3. task[t].status \notin Executable /\ \A p \in Process : ~Works(p, t)
      BY <1>1, <3>2 DEF OverOnce
    <3> QED
      BY <3>1, <3>3 DEF SameAttempt, SlotGoesOn, Works
  <2> QED
    BY <2>1, <2>2
<1> QED
  BY <1>5, <1>7, <1>8

(* ... and what does when it does: the answer is written back for the      *)
(* first time, and its task is over.                                       *)
LEMMA EndExcl ==
  ASSUME Attempts, Attempts', RequestsApart, ExchangeApart, Excl, NEW p \in Process, NEW t \in Task,
         \/ EnterPendingRecovery(p, t)
         \/ WriteBack(p, t)
         \/ WriteRecovered(p, t)
  PROVE  Excl'
<1> USE DEF history, agentVars
<1>0. TypeOK /\ TypeOK'
  BY DEF Attempts
<1>1. /\ exec'[p][t] = Idle
      /\ \A o \in Process, s \in Task : o # p \/ s # t => exec'[o][s] = exec[o][s]
  BY <1>0, EndRequests
<1>2. shared' = shared
  BY DEF EnterPendingRecovery, WriteBack, WriteRecovered
<1> SUFFICES ASSUME shared' = {}
             PROVE  Alone' /\ HoldsAttempt' /\ RecoversLast' /\ OverOnce'
  BY DEF Excl
<1>3. Alone /\ HoldsAttempt /\ RecoversLast /\ OverOnce
  BY <1>2 DEF Excl
<1> DEFINE q == exec[p][t].request
           a == task[t].audit
<1>4. Works(p, t) /\ exec[p][t].audit = a /\ exec[p][t].at \in {"exchange", "recovered"}
  BY <1>3 DEF HoldsAttempt, Works, EnterPendingRecovery, WriteBack, WriteRecovered
<1>5. q \in Request /\ written[q] = 0 /\ q # 0
  BY <1>3, <1>4, BoundsAreNumbers DEF ExchangeApart, RecoversLast, Request
<1>6. task[t].status # "absent"
  BY <1>4 DEF Attempts, AbsentRests, Works
<1>7. /\ \A s \in Task : task'[s].audit = task[s].audit
      /\ \A s \in Task : s # t => task'[s] = task[s]
      /\ task'[t].status = IF EnterPendingRecovery(p, t) THEN "pending" ELSE "success"
  <2>1. CASE EnterPendingRecovery(p, t)
    BY <1>0, <1>6, <2>1, MarkedEffect DEF EnterPendingRecovery, SameAttempts, Status
  <2>2. CASE ~EnterPendingRecovery(p, t) /\ WriteBack(p, t)
    BY <1>0, <2>2 DEF WriteBack, Marked, TypeOK
  <2>3. CASE ~EnterPendingRecovery(p, t) /\ WriteRecovered(p, t)
    BY <1>0, <1>6, <2>3, MarkedEffect DEF WriteRecovered, SameAttempts, Status
  <2> QED
    BY <2>1, <2>2, <2>3
<1>8. \A s \in Task : task[s].status # "absent" => task[s].audit \in Audit /\ (task[s].audit = a => s = t)
  <2>1. \A s \in Task : task[s].status # "absent" => task[s].audit \in Audit
    BY LastAudit
  <2> QED
    BY <1>6, <2>1 DEF Attempts, AuditsApart
<1>9. \A s \in Task : s # t /\ task[s].status # "absent" =>
        requestOf'[task[s].audit] = requestOf[task[s].audit] /\ requestOf[task[s].audit] # q
  <2>1. CASE exec[p][t].at = "exchange"
    <3>1. requestOf' = [requestOf EXCEPT ![a] = q]
      BY <1>4, <2>1 DEF EnterPendingRecovery, WriteBack, WriteRecovered, CommitRequest
    <3> QED
      BY <1>0, <1>8, <2>1, <3>1 DEF ExchangeApart, TypeOK
  <2>2. CASE exec[p][t].at = "recovered"
    <3>1. UNCHANGED requestOf /\ q = requestOf[a]
      BY <1>3, <2>2 DEF EnterPendingRecovery, WriteBack, WriteRecovered, RecoversLast
    <3>2. \A b \in Audit : requestOf[b] = q => b = a
      BY <1>5, <1>6, <1>8, <3>1 DEF RequestsApart
    <3> QED
      BY <1>8, <3>1, <3>2
  <2> QED
    BY <1>4, <2>1, <2>2
<1>10. /\ \A r \in Request : r # q => written'[r] = written[r]
       /\ written'[q] = IF EnterPendingRecovery(p, t) THEN 0 ELSE 1
  BY <1>0, <1>5 DEF EnterPendingRecovery, WriteBack, WriteRecovered, TypeOK
<1>11. \A o \in Process : exec'[o][t].at = "idle"
  BY <1>1, <1>3, <1>4 DEF Alone, Works, Idle
<1>12. Alone'
  BY <1>1, <1>3 DEF Alone, Idle
<1>13. HoldsAttempt'
  BY <1>1, <1>3, <1>7 DEF HoldsAttempt, Works, Idle
<1>14. RecoversLast'
  <2> SUFFICES ASSUME NEW o \in Process, NEW s \in Task, exec'[o][s].at = "recovered"
               PROVE  /\ exec'[o][s].request \in Request /\ written'[exec'[o][s].request] = 0
                      /\ exec'[o][s].request = requestOf'[task'[s].audit]
    BY DEF RecoversLast
  <2>1. s # t /\ exec'[o][s] = exec[o][s]
    BY <1>1, <1>11
  <2>2. task[s].status # "absent"
    BY <2>1 DEF Attempts, AbsentRests
  <2> QED
    BY <1>3, <1>7, <1>9, <1>10, <2>1, <2>2 DEF RecoversLast
<1>15. OverOnce'
  <2> SUFFICES ASSUME NEW r \in Request, written'[r] # 0
               PROVE  /\ written'[r] = 1
                      /\ \A s \in Task :
                           task'[s].status # "absent" /\ requestOf'[task'[s].audit] = r =>
                             /\ task'[s].status \notin Executable
                             /\ \A o \in Process : exec'[o][s].at \in {"idle", "queued"}
    BY DEF OverOnce, Works
  <2>1. written'[r] = 1
    BY <1>3, <1>10 DEF OverOnce
  <2>2. ASSUME NEW s \in Task, task'[s].status # "absent", requestOf'[task'[s].audit] = r
        PROVE  /\ task'[s].status \notin Executable
               /\ \A o \in Process : exec'[o][s].at \in {"idle", "queued"}
    <3>1. CASE s = t /\ ~EnterPendingRecovery(p, t)
      BY <1>7, <1>11, <3>1 DEF Executable, Active
    <3>2. CASE s = t /\ EnterPendingRecovery(p, t)
      <4>1. requestOf'[a] = q
        BY <1>0, <1>4, <1>6, <1>8, <3>2 DEF EnterPendingRecovery, CommitRequest, TypeOK
      <4> QED
        BY <1>7, <1>10, <2>2, <3>2, <4>1
    <3>3. CASE s # t
      <4>1. /\ task[s].status # "absent" /\ requestOf[task[s].audit] = r /\ r # q
            /\ \A o \in Process : exec'[o][s] = exec[o][s]
        BY <1>1, <1>7, <1>9, <2>2, <3>3
      <4>2. written[r] # 0
        BY <1>10, <4>1
      <4> QED
        BY <1>3, <1>7, <3>3, <4>1, <4>2 DEF OverOnce, Works
    <3> QED
      BY <3>1, <3>2, <3>3
  <2> QED
    BY <2>1, <2>2
<1> QED
  BY <1>12, <1>13, <1>14, <1>15

Exchanges == Attempts /\ RequestsApart /\ ExchangeApart /\ Excl

(* A step of one executor.                                                 *)
LEMMA QuietExecutor ==
  ASSUME Exchanges, Attempts', NEW p \in Process, NEW t \in Task, Execute(p, t),
         RequestsApart' /\ ExchangeApart', UNCHANGED <<requestOf, written, shared>>,
         SlotGoesOn(p, t), Works(p, t) \/ UNCHANGED task
  PROVE  Exchanges'
<1>1. TypeOK
  BY DEF Exchanges, Attempts
<1>2. /\ \A o \in Process, s \in Task : o # p \/ s # t => exec'[o][s] = exec[o][s]
      /\ SameAttempts /\ \A s \in Task : s # t => task'[s] = task[s]
  BY <1>1, ExecuteElsewhere, ExecuteSame DEF Exchanges
<1>3. exec[p][t].at # "idle"
  BY DEF Execute, Load, CannotStart, ThreadDies, WriteRecovered, KeepWaiting, MarkRunning, Send,
         CannotSend, Discard, EnterPendingRecovery, WriteBack, FinishDuplicate, RollBack, MarkFailed
<1>4. shared' = {} => Alone'
  BY <1>2, <1>3, AloneStays DEF Exchanges, Excl
<1>5. \A s \in Task : SameAttempt(s)
  <2> TAKE s \in Task
  <2>1. \A o \in Process : SlotGoesOn(o, s)
    BY <1>2 DEF SlotGoesOn
  <2>2. task'[s].status \in Executable =>
          task[s].status \in Executable \/ \E o \in Process : Works(o, s)
    BY <1>2
  <2> QED
    BY <1>2, <2>1, <2>2 DEF SameAttempt, SameAttempts
<1> QED
  BY <1>4, <1>5, QuietExcl DEF Exchanges

LEMMA ExecuteExchanges ==
  ASSUME Exchanges, Attempts', NEW p \in Process, NEW t \in Task, Execute(p, t)
  PROVE  Exchanges'
<1> USE DEF userVars, agentVars, history
<1>1. TypeOK /\ TypeOK'
  BY DEF Exchanges, Attempts
<1>2. \A o \in Process, s \in Task : o # p \/ s # t => exec'[o][s] = exec[o][s]
  BY <1>1, ExecuteElsewhere
<1>3. ASSUME NoExchange(p, t), UNCHANGED <<audits, requestOf, sent, written>>
      PROVE  RequestsApart' /\ ExchangeApart'
  BY <1>1, <1>2, <1>3, QuietRequests DEF Exchanges, NoExchange
<1>4. CASE EnterPendingRecovery(p, t) \/ WriteBack(p, t) \/ WriteRecovered(p, t)
  BY <1>1, <1>4, EndRequests, EndExcl DEF Exchanges
<1>5. CASE Send(p, t)
  <2>1. /\ RequestsApart' /\ ExchangeApart'
        /\ exec'[p][t].at \in {"exchange", "dropped"} /\ exec'[p][t].audit = exec[p][t].audit
    BY <1>1, <1>5, SendRequests DEF Exchanges
  <2>2. Works(p, t) /\ UNCHANGED <<requestOf, written, shared>>
    BY <1>5 DEF Send, Works
  <2> QED
    BY <2>1, <2>2, QuietExecutor DEF SlotGoesOn
<1>6. CASE Load(p, t)
  <2>1. \/ exec'[p][t] = Idle
        \/ /\ task[t].status \in Executable /\ exec'[p][t].audit = task[t].audit
           /\ \/ exec'[p][t].at \in {"waiting", "loaded"} /\ exec'[p][t].request = 0
              \/ /\ exec'[p][t].at = "recovered" /\ task[t].audit # 0
                 /\ exec'[p][t].request = requestOf[task[t].audit] /\ exec'[p][t].request # 0
    <3>1. exec \in [Process -> [Task -> Executor]]
      BY <1>1 DEF TypeOK, Executor, ExecutorAt
    <3>2. CASE task[t].status \notin Executable
      BY <1>6, <3>1, <3>2 DEF Load
    <3>3. CASE task[t].status \in Executable /\ Reported(task[t].audit, {"good"})
      <4>1. exec'[p][t] = [at |-> "recovered", audit |-> task[t].audit,
                           request |-> requestOf[task[t].audit]]
        BY <1>6, <3>1, <3>3 DEF Load
      <4> QED
        BY <3>3, <4>1 DEF Reported
    <3>4. CASE task[t].status \in Executable /\ ~Reported(task[t].audit, {"good"})
      <4>1. \E at \in {"waiting", "loaded"} :
              exec'[p][t] = [at |-> at, audit |-> task[t].audit, request |-> 0]
        BY <1>6, <3>1, <3>4 DEF Load
      <4> QED
        BY <3>4, <4>1
    <3> QED
      BY <3>2, <3>3, <3>4
  <2>2. task[t].status \in Executable => task[t].audit \in Audit /\ task[t].audit \in 1 .. audits
    BY LastAudit DEF Exchanges, Attempts, HasAttempt, Executable, Active
  <2>3. audits \in Nat /\ sent \in Nat /\ \A n \in 1 .. audits : n <= audits
    BY <1>1, BoundsAreNumbers DEF TypeOK
  <2>4. \A b \in Audit : requestOf[b] <= sent
    BY DEF Exchanges, RequestsApart
  <2>5. UNCHANGED <<task, audits, requestOf, sent, written, shared>>
    BY <1>6 DEF Load
  <2>6. CASE exec'[p][t] = Idle
    <3>1. NoExchange(p, t) /\ SlotGoesOn(p, t)
      BY <2>3, <2>6 DEF NoExchange, SlotGoesOn, Idle
    <3> QED
      BY <1>3, <2>5, <3>1, QuietExecutor
  <2>7. CASE exec'[p][t] # Idle
    <3>1. NoExchange(p, t)
      BY <2>1, <2>2, <2>3, <2>4, <2>7 DEF NoExchange
    <3>2. SlotGoesOn(p, t)
      BY <2>1, <2>7 DEF SlotGoesOn
    <3> QED
      BY <1>3, <2>5, <3>1, <3>2, QuietExecutor
  <2> QED
    BY <2>6, <2>7
<1>7. CASE \/ CannotStart(p, t) \/ ThreadDies(p, t) \/ KeepWaiting(p, t) \/ Discard(p, t)
           \/ FinishDuplicate(p, t) \/ MarkFailed(p, t)
  <2>1. Works(p, t) /\ Ends(p, t) /\ UNCHANGED <<audits, requestOf, sent, written, shared>>
    BY <1>7 DEF Works, CannotStart, ThreadDies, KeepWaiting, Discard, FinishDuplicate, MarkFailed
  <2>2. exec'[p][t] = Idle
    BY <1>1, <2>1 DEF Ends, TypeOK
  <2>3. NoExchange(p, t)
    BY <1>1, <2>2, BoundsAreNumbers DEF NoExchange, Idle, TypeOK
  <2> QED
    BY <1>3, <2>1, <2>2, <2>3, QuietExecutor DEF SlotGoesOn, Idle
<1>8. CASE MarkRunning(p, t) \/ CannotSend(p, t) \/ RollBack(p, t)
  <2>1. PICK at \in {"running", "failing"} : Goes(p, t, at)
    BY <1>8 DEF MarkRunning, CannotSend, RollBack
  <2>2. Works(p, t) /\ UNCHANGED <<audits, requestOf, sent, written, shared>>
    BY <1>8 DEF Works, MarkRunning, CannotSend, RollBack
  <2>3. /\ exec'[p][t].at \in {"running", "failing"}
        /\ exec'[p][t].request = exec[p][t].request /\ exec'[p][t].audit = exec[p][t].audit
    BY <1>1, <2>1, GoesFields
  <2>4. NoExchange(p, t)
    BY <2>3 DEF NoExchange, Exchanges, RequestsApart
  <2> QED
    BY <1>3, <2>2, <2>3, <2>4, QuietExecutor DEF SlotGoesOn
<1> QED
  BY <1>4, <1>5, <1>6, <1>7, <1>8 DEF Execute

(* A step of anybody else leaves requests and answers alone and executes   *)
(* nothing: it only queues.                                                *)
LEMMA QuietOthers ==
  ASSUME Exchanges, Attempts', UNCHANGED <<requestOf, sent, written>>,
         audits' \in {audits, audits + 1}, shared \subseteq shared', shared' = {} => Alone',
         \A p \in Process, t \in Task :
           \/ exec'[p][t] = exec[p][t]
           \/ /\ exec'[p][t].at \in {"idle", "queued"}
              /\ exec'[p][t].request <= sent /\ exec'[p][t].audit <= audits,
         shared' = {} => \A t \in Task :
           \/ /\ task'[t].audit = task[t].audit
              /\ task'[t].status = "absent" <=> task[t].status = "absent"
              /\ task'[t].status \in Executable => task[t].status \in Executable
           \/ FreshAttempt(t)
  PROVE  Exchanges'
<1>1. TypeOK /\ TypeOK'
  BY DEF Exchanges, Attempts
<1>2. \A p \in Process, t \in Task : NoExchange(p, t)
  BY DEF NoExchange
<1>3. RequestsApart' /\ ExchangeApart'
  BY <1>1, <1>2, QuietRequests DEF Exchanges
<1>4. \A p \in Process, t \in Task : SlotGoesOn(p, t)
  BY DEF SlotGoesOn
<1>5. CASE shared' = {}
  <2>1. \A t \in Task : SameAttempt(t) \/ FreshAttempt(t)
    BY <1>4, <1>5 DEF SameAttempt
  <2> QED
    BY <1>3, <2>1, QuietExcl DEF Exchanges
<1>6. CASE shared' # {}
  BY <1>3, <1>6 DEF Exchanges, Excl
<1> QED
  BY <1>5, <1>6

(* Queueing, by one who has made sure that no other process holds the task *)
(* or else leaves a trace.                                                 *)
LEMMA QueuedSlots ==
  ASSUME Exchanges, NEW p \in Process, NEW t \in Task, exec' = Queued(p, t)
  PROVE  /\ \A o \in Process, s \in Task :
              \/ exec'[o][s] = exec[o][s]
              \/ /\ exec'[o][s].at \in {"idle", "queued"}
                 /\ exec'[o][s].request <= sent /\ exec'[o][s].audit <= audits
         /\ Shares(p, t) => shared \subseteq shared' /\ (shared' = {} => Alone')
<1>1. TypeOK
  BY DEF Exchanges, Attempts
<1>2. ASSUME Shares(p, t)
      PROVE  shared \subseteq shared' /\ (shared' = {} => Alone')
  <2>1. shared \subseteq shared'
    BY <1>2 DEF Shares
  <2>2. ASSUME shared' = {} PROVE Alone'
    <3>1. Alone /\ \A o \in Process \ {p} : exec[o][t].at = "idle"
      BY <1>2, <2>1, <2>2 DEF Shares, Exchanges, Excl
    <3> QED
      BY <1>1, <3>1, AloneQueued
  <2> QED
    BY <2>1, <2>2
<1> QED
  BY <1>1, <1>2, QueuedElsewhere, QueuedFields DEF Exchanges, RequestsApart

LEMMA UserExchanges ==
  ASSUME Exchanges, Attempts', NEW t \in Task, User(t)
  PROVE  Exchanges'
<1> USE DEF history, agentVars
<1>1. TypeOK /\ TypeOK'
  BY DEF Exchanges, Attempts
<1>2. audits \in Nat /\ \A a \in 0 .. MaxAudit : a = audits + 1 => a \in Audit /\ a > audits
  BY <1>1, BoundsAreNumbers DEF TypeOK, Audit
<1>3. ASSUME UNCHANGED <<requestOf, sent, written, shared, audits, exec>>,
             \/ UNCHANGED task
             \/ /\ task' = Marked(t, "canceled") /\ task[t].status # "absent"
      PROVE  Exchanges'
  <2>1. Alone => Alone'
    BY <1>3 DEF Alone
  <2>2. \A s \in Task : /\ task'[s].audit = task[s].audit
                        /\ task'[s].status = "absent" <=> task[s].status = "absent"
                        /\ task'[s].status \in Executable => task[s].status \in Executable
    BY <1>1, <1>3, MarkedEffect DEF SameAttempts, Status, Executable, Active
  <2> QED
    BY <1>3, <2>1, <2>2, QuietOthers DEF Exchanges, Excl
<1>4. CASE \/ Check(t) \/ ReadForRetry(t) \/ ReadForCancel(t) \/ HoldForCancel(t) \/ CancelFails(t)
  BY <1>3, <1>4 DEF Check, ReadForRetry, ReadForCancel, HoldForCancel, CancelFails
<1>5. CASE Cancel(t)
  <2>1. task[t].status # "absent"
    BY <1>5 DEF Cancel, Exchanges, Attempts, AbsentRests
  <2> QED
    BY <1>3, <1>5, <2>1 DEF Cancel
<1>6. CASE Create(t)
  <2>1. CASE \E s \in Task : task[s].lock
    BY <1>3, <1>6, <2>1 DEF Create
  <2>2. CASE ~ \E s \in Task : task[s].lock
    <3>1. /\ audits' = audits + 1 /\ exec' = Queued("api", t)
          /\ task' = [task EXCEPT ![t] = [status |-> "created", audit |-> audits', lock |-> TRUE,
                                          won |-> FALSE, late |-> FALSE]]
          /\ UNCHANGED <<requestOf, sent, written, shared>>
      BY <1>6, <2>2 DEF Create
    <3>2. \A o \in Process : exec[o][t].at = "idle"
      BY <1>6 DEF Create, Exchanges, Attempts, HasAttempt, AbsentRests
    <3>3. /\ task'[t].audit = audits + 1
          /\ \A s \in Task : s # t => task'[s] = task[s]
      BY <1>1, <3>1 DEF TypeOK
    <3>4. FreshAttempt(t)
      <4>1. \A o \in Process : exec'[o][t].at \in {"idle", "queued"}
        BY <1>1, <3>1, <3>2, QueuedFields, QueuedElsewhere DEF Process
      <4>2. task'[t].audit \in 0 .. MaxAudit
        BY <1>1 DEF TypeOK
      <4> QED
        BY <1>2, <3>3, <4>1, <4>2 DEF FreshAttempt
    <3>5. shared' = {} => Alone'
      BY <1>1, <3>1, <3>2, AloneQueued DEF Exchanges, Excl, Process
    <3> QED
      BY <3>1, <3>3, <3>4, <3>5, QueuedSlots, QuietOthers DEF Process
  <2> QED
    BY <2>1, <2>2
<1>7. CASE Retry(t)
  <2>1. CASE exec["api"][t].at # "idle"
    BY <1>3, <1>7, <2>1 DEF Retry
  <2>2. CASE exec["api"][t].at = "idle"
    <3>1. /\ exec' = Queued("api", t) /\ Shares("api", t) /\ UNCHANGED <<requestOf, sent, written>>
          /\ UNCHANGED <<task, audits>> \/ Restarted(t)
      BY <1>7, <2>2 DEF Retry
    <3>2. CASE UNCHANGED <<task, audits>>
      BY <3>1, <3>2, QueuedSlots, QuietOthers DEF Process
    <3>3. CASE Restarted(t)
      <4>1. /\ audits' = audits + 1 /\ task'[t].audit = audits + 1
            /\ \A s \in Task : s # t => task'[s] = task[s]
        BY <1>1, <3>3 DEF Restarted, TypeOK
      <4>2. ASSUME shared' = {} PROVE FreshAttempt(t)
        <5>1. \A o \in Process : exec[o][t].at = "idle"
          BY <2>2, <3>1, <4>2 DEF Shares
        <5>2. \A o \in Process : exec'[o][t].at \in {"idle", "queued"}
          BY <1>1, <3>1, <5>1, QueuedFields, QueuedElsewhere DEF Process
        <5>3. task'[t].audit \in 0 .. MaxAudit
          BY <1>1 DEF TypeOK
        <5> QED
          BY <1>2, <4>1, <5>2, <5>3 DEF FreshAttempt
      <4> QED
        BY <3>1, <4>1, <4>2, QueuedSlots, QuietOthers DEF Process
    <3> QED
      BY <3>1, <3>2, <3>3
  <2> QED
    BY <2>1, <2>2
<1> QED
  BY <1>4, <1>5, <1>6, <1>7 DEF User

LEMMA OtherExchanges ==
  ASSUME Exchanges, Attempts',
         \/ \E t \in Task : DeadlinePasses(t)
         \/ \E q \in Request : LateAnswer(q) \/ CacheExpires(q)
         \/ Scan \/ RestartApi \/ RestartWorker \/ UNCHANGED vars
  PROVE  Exchanges'
<1> USE DEF history, agentVars
<1>1. TypeOK /\ TypeOK'
  BY DEF Exchanges, Attempts
<1>2. ASSUME UNCHANGED <<requestOf, sent, written, shared, audits, exec>>,
             \A s \in Task : /\ task'[s].audit = task[s].audit
                             /\ task'[s].status = "absent" <=> task[s].status = "absent"
                             /\ task'[s].status \in Executable => task[s].status \in Executable
      PROVE  Exchanges'
  <2>1. Alone => Alone'
    BY <1>2 DEF Alone
  <2> QED
    BY <1>2, <2>1, QuietOthers DEF Exchanges, Excl
<1>3. ASSUME NEW t \in Task, DeadlinePasses(t) PROVE Exchanges'
  <2>1. \A s \in Task : task'[s].audit = task[s].audit /\ task'[s].status = task[s].status
    BY <1>1, <1>3 DEF DeadlinePasses, TypeOK
  <2> QED
    BY <1>2, <1>3, <2>1 DEF DeadlinePasses
<1>4. CASE \/ \E q \in Request : LateAnswer(q) \/ CacheExpires(q)
           \/ List \/ UNCHANGED vars \/ \E e \in scan.todo : Pass(e)
  BY <1>2, <1>4 DEF LateAnswer, CacheExpires, List, Pass, vars
<1>5. ASSUME NEW e \in scan.todo, MarkExpired(e) PROVE Exchanges'
  <2>1. e.task \in Task /\ task[e.task].status # "absent"
    BY <1>1 DEF TypeOK, Exchanges, Attempts, AbsentRests
  <2>2. /\ SameAttempts /\ task'[e.task].status = "failed"
        /\ \A s \in Task : s # e.task => task'[s] = task[s]
    BY <1>1, <1>5, <2>1, MarkedEffect DEF MarkExpired, Status
  <2> QED
    BY <1>2, <1>5, <2>2 DEF MarkExpired, SameAttempts, Executable, Active
<1>6. ASSUME NEW e \in scan.todo, Requeue(e) PROVE Exchanges'
  <2>1. e.task \in Task
    BY <1>1 DEF TypeOK
  <2>2. /\ exec' = Queued("worker", e.task) /\ Shares("worker", e.task)
        /\ UNCHANGED <<task, audits, requestOf, sent, written>>
    BY <1>6 DEF Requeue
  <2> QED
    BY <2>1, <2>2, QueuedSlots, QuietOthers DEF Process
<1>7. CASE RestartApi
  <2> DEFINE known == {t \in With(Active) : Reported(task[t].audit, {"good", "bad"})}
             slots == [t \in Task |-> IF t \in known THEN [Idle EXCEPT !.at = "queued"] ELSE Idle]
  <2>1. exec \in [Process -> [Task -> Executor]]
    BY <1>1 DEF TypeOK, Executor, ExecutorAt
  <2>2. /\ exec' = [exec EXCEPT !["api"] = slots]
        /\ shared' = shared \cup {t \in known : exec["worker"][t].at # "idle"}
        /\ UNCHANGED <<requestOf, sent, written, audits>>
    BY <1>7 DEF RestartApi
  <2>3. \A t \in Task : /\ slots[t].at = IF t \in known THEN "queued" ELSE "idle"
                        /\ slots[t].request = 0 /\ slots[t].audit = 0
    <3>1. [Idle EXCEPT !.at = "queued"] = [at |-> "queued", audit |-> 0, request |-> 0]
      BY DEF Idle
    <3> QED
      BY <3>1 DEF Idle
  <2>4. \A s \in Task : /\ task'[s].audit = task[s].audit
                        /\ \/ task'[s].status = task[s].status
                           \/ task'[s].status = "failed" /\ task[s].status \in Active
    <3>1. \A s \in Task :
            \/ task'[s] = task[s]
            \/ /\ s \in With(Active)
               /\ task'[s] = [task[s] EXCEPT !.status = "failed", !.lock = FALSE, !.won = FALSE]
      BY <1>7 DEF RestartApi
    <3>2. task \in [Task -> Row]
      BY <1>1 DEF TypeOK, Row
    <3>3. ASSUME NEW s \in With(Active),
                 task'[s] = [task[s] EXCEPT !.status = "failed", !.lock = FALSE, !.won = FALSE]
          PROVE  /\ task'[s].audit = task[s].audit
                 /\ task'[s].status = "failed" /\ task[s].status \in Active
      BY <3>2, <3>3 DEF With, Row
    <3> QED
      BY <3>1, <3>3
  <2>5. known \subseteq Task
    BY DEF With
  <2> HIDE DEF slots, known
  <2>6. \A p \in Process, t \in Task : exec'[p][t] = IF p = "api" THEN slots[t] ELSE exec[p][t]
    BY <2>1, <2>2
  <2>7. shared' = {} => Alone'
    <3> SUFFICES ASSUME shared' = {}
                 PROVE  Alone'
      OBVIOUS
    <3>1. \A t \in known : exec["worker"][t].at = "idle"
      BY <2>2
    <3> QED
      BY <2>3, <2>6, <3>1 DEF Alone, Process
  <2>8. 0 <= sent /\ 0 <= audits
    BY <1>1, BoundsAreNumbers DEF TypeOK
  <2>9. \A s \in Task : /\ task'[s].audit = task[s].audit
                        /\ task'[s].status = "absent" <=> task[s].status = "absent"
                        /\ task'[s].status \in Executable => task[s].status \in Executable
    BY <2>4 DEF Executable, Active
  <2>10. \A p \in Process, t \in Task :
           \/ exec'[p][t] = exec[p][t]
           \/ /\ exec'[p][t].at \in {"idle", "queued"}
              /\ exec'[p][t].request <= sent /\ exec'[p][t].audit <= audits
    BY <2>3, <2>6, <2>8
  <2> QED
    BY <2>2, <2>7, <2>9, <2>10, QuietOthers
<1>8. CASE RestartWorker
  <2>1. exec \in [Process -> [Task -> Executor]]
    BY <1>1 DEF TypeOK, Executor, ExecutorAt
  <2>2. \A p \in Process, t \in Task : exec'[p][t] = exec[p][t] \/ exec'[p][t] = Idle
    BY <1>8, <2>1 DEF RestartWorker
  <2>3. Idle.at = "idle" /\ Idle.request <= sent /\ Idle.audit <= audits
    BY <1>1, BoundsAreNumbers DEF Idle, TypeOK
  <2>4. Alone => Alone'
    BY <2>2, <2>3, AloneStays
  <2>5. UNCHANGED <<task, audits, requestOf, sent, written, shared>>
    BY <1>8 DEF RestartWorker
  <2> QED
    BY <2>2, <2>3, <2>4, <2>5, QuietOthers DEF Exchanges, Excl
<1> QED
  BY <1>3, <1>4, <1>5, <1>6, <1>7, <1>8 DEF Scan

LEMMA InitExchanges == Init => Exchanges
<1> SUFFICES ASSUME Init
             PROVE  RequestsApart /\ ExchangeApart /\ Excl
  BY InitAttempts DEF Exchanges
<1>1. /\ \A p \in Process, t \in Task : exec[p][t] = Idle
      /\ \A a \in Audit : requestOf[a] = 0
      /\ \A q \in Request : written[q] = 0
      /\ audits = 0 /\ sent = 0
  BY DEF Init
<1>2. Idle.at = "idle" /\ Idle.audit = 0 /\ Idle.request = 0
  BY DEF Idle
<1>3. RequestsApart
  BY <1>1, <1>2 DEF RequestsApart
<1>4. ExchangeApart
  BY <1>1, <1>2 DEF ExchangeApart
<1>5. Excl
  BY <1>1, <1>2 DEF Excl, Alone, HoldsAttempt, RecoversLast, OverOnce, Works
<1> QED
  BY <1>3, <1>4, <1>5

LEMMA NextExchanges == Exchanges /\ [Next]_vars => Exchanges'
<1> SUFFICES ASSUME Exchanges, [Next]_vars
             PROVE  Exchanges'
  OBVIOUS
<1>1. Attempts'
  BY NextAttempts DEF Exchanges
<1>2. CASE \E p \in Process, t \in Task : Execute(p, t)
  BY <1>1, <1>2, ExecuteExchanges
<1>3. CASE \E t \in Task : User(t)
  BY <1>1, <1>3, UserExchanges
<1>4. CASE \E t \in Task : DeadlinePasses(t)
  BY <1>1, <1>4, OtherExchanges
<1>5. CASE (\E q \in Request : LateAnswer(q) \/ CacheExpires(q)) \/ Scan \/ RestartApi
           \/ RestartWorker \/ UNCHANGED vars
  BY <1>1, <1>5, OtherExchanges
<1> QED
  BY <1>2, <1>3, <1>4, <1>5 DEF Next

(* An answer that came after the connection was lost is written back once, *)
(* however many cancels, retries, scans and restarts there are in between, *)
(* unless both processes held a task at the same time.                     *)
THEOREM LateAnswersAreWrittenOnce == Spec => []AnswerWrittenOnce
<1>1. Exchanges => AnswerWrittenOnce
  <2> SUFFICES ASSUME Exchanges, NEW q \in Request, written[q] > 1, shared = {}
               PROVE  FALSE
    BY DEF AnswerWrittenOnce
  <2>1. written[q] # 0 => written[q] = 1
    BY DEF Exchanges, Excl, OverOnce
  <2>2. written[q] \in Nat
    BY DEF Exchanges, Attempts, TypeOK
  <2> QED
    BY <2>1, <2>2
<1> QED
  BY <1>1, InitExchanges, NextExchanges, PTL DEF Spec
=============================================================================
