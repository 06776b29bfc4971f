--------------------- MODULE ConfigTaskRunExecutionProofs ---------------------
(***************************************************************************)
(* Runs of a configuration task, for any number of runs, Agents, stages,   *)
(* steps, lost messages, restarts and overlapping transactions: what is    *)
(* written about steps, stages and runs says no more than what the Agent   *)
(* has done; what is closed stays closed but for transactions that read    *)
(* before; and the rows keep a lease of the Agent.                         *)
(***************************************************************************)
EXTENDS ConfigTaskRunProofs, FiniteSetTheorems, SequenceTheorems

USE ConfigTaskAssumption

Ran == [phase : Phase, pos : 0 .. Steps, cancel : BOOLEAN, ok : BOOLEAN]
Assessed == [run : Evidence, stage : [Stage -> Evidence]]

\* An execution goes through the steps in their order: those that are still
\* before it have no result.  Only disabled steps are skipped.
Progress ==
  \A r \in Run :
    /\ exec[r].phase \in {"none", "starting", "prepared"} => exec[r].pos = 0
    /\ exec[r].phase = "running" => exec[r].pos < Steps
    /\ exec[r].phase = "stepping" => exec[r].pos \in Step \ Disabled
    /\ \A i \in Step : results[r][i] \in Good => Done(r, i)
    /\ \A i \in Step :
         \/ /\ exec[r].phase \in {"none", "starting", "prepared", "running"}
            /\ exec[r].pos < i
         \/ exec[r].phase = "stepping" /\ exec[r].pos <= i
         => results[r][i] = "none"

\* Nothing is executed before it is sent.
Sent ==
  \A r \in Run : caller[r] \in {"idle", "checked", "added", "ready"} => exec[r].phase = "none"

Typed == TypeOK /\ Progress /\ Sent

----------------------------------------------------------------------------
(* The operators that several operations share.                            *)

\* Every refresh finds one of the five values for the run and each stage.
LEMMA RefreshTyped ==
  ASSUME TypeOK, NEW r \in Run, NEW run \in RunStatus,
         NEW own \in [Stage -> StageStatus], NEW saw \in View, Refresh(r, run, own, saw)
  PROVE  evidence' \in [Run -> Assessed]
<1> DEFINE ev == [k \in Stage |-> StageEvidence(k, own[k], run, saw[k])]
           found == {ev[k] : k \in Stage}
           per == [k \in Stage |-> IF saw[k] = "norow" THEN evidence[r].stage[k] ELSE ev[k]]
           new == [run |-> Aggregate(run, found), stage |-> per]
<1>1. \A k \in Stage : StageEvidence(k, own[k], run, saw[k]) \in Evidence
  BY DEF StageEvidence, Evidence, View
<1>2. ev \in [Stage -> Evidence]
  BY <1>1 DEF Evidence
<1>3. found \subseteq Evidence
  BY <1>2
<1>4. evidence \in [Run -> Assessed]
  BY DEF TypeOK, Assessed
<1>5. evidence[r].stage \in [Stage -> Evidence]
  BY <1>4 DEF Assessed
<1>6. evidence' = [evidence EXCEPT ![r] = new]
  BY DEF Refresh
<1> HIDE DEF ev, found
<1>7. per \in [Stage -> Evidence]
  BY <1>2, <1>5
<1> HIDE DEF per
<1>8. Aggregate(run, found) \in Evidence
  BY <1>3 DEF Aggregate, Evidence
<1>9. new \in Assessed
  BY <1>7, <1>8 DEF Assessed
<1> HIDE DEF new
<1> QED
  BY <1>4, <1>6, <1>9

LEMMA SeenTyped ==
  ASSUME TypeOK, NEW r \in Run
  PROVE  SeenNow(r) \in View
BY DEF TypeOK, SeenNow, View

LEMMA NothingTyped ==
  /\ NoStages \in [Stage -> StageStatus] /\ NoSteps \in [Step -> StepStatus]
  /\ NotSeen \in View /\ Unseen \in [answer : View, stop : View]
<1>1. NotSeen \in View
  BY DEF NotSeen, View
<1> QED
  BY <1>1 DEF NoStages, NoSteps, Unseen, StageStatus, StepStatus

LEMMA ConcludeTyped ==
  ASSUME TypeOK, NEW r \in Run, NEW verdict \in RunStatus, NEW why \in ErrorCode,
         Conclude(r, verdict, why)
  PROVE  /\ status' \in [Run -> RunStatus] /\ business' \in [Run -> RunStatus]
         /\ code' \in [Run -> ErrorCode] /\ quiet' \subseteq Run
BY DEF TypeOK, Conclude, Touch

Ops == EventOp \cup {"approve", "reject", "retry", "recover", "report"}

LEMMA WholeTyped ==
  ASSUME NEW t, Whole(t), t.op \in Ops, t.run \in Run, t.at \in Nat, t.outcome \in StepStatus,
         t.ran \in RunStatus, t.was \in [Stage -> StageStatus],
         t.had \in [Step -> StepStatus], t.saw \in View
  PROVE  t \in Txn
BY DEF Whole, Txn, Ops

LEMMA TxnFields ==
  ASSUME NEW t \in Txn
  PROVE  /\ Whole(t) /\ t.op \in Ops /\ t.run \in Run /\ t.at \in Nat /\ t.outcome \in StepStatus
         /\ t.ran \in RunStatus /\ t.was \in [Stage -> StageStatus]
         /\ t.had \in [Step -> StepStatus] /\ t.saw \in View
BY DEF Whole, Txn, Ops

LEMMA ReadTyped ==
  ASSUME TypeOK, NEW op \in Ops, NEW r \in Run, NEW at \in Nat, NEW outcome \in StepStatus,
         Read(op, r, at, outcome)
  PROVE  (\A t \in txn' : t \in Txn) /\ stale' \subseteq Run
<1>1. PICK new :
        /\ txn' = txn \cup {new} /\ Whole(new) /\ UNCHANGED stale
        /\ new.op = op /\ new.run = r /\ new.at = at
        /\ new.outcome = outcome /\ new.ran = status[r]
        /\ new.was \in {NoStages, stage[r]} /\ new.had \in {NoSteps, steps[r]}
        /\ new.saw \in {NotSeen, SeenNow(r)}
  BY ReadingAdds
<1>2. /\ status[r] \in RunStatus /\ stage[r] \in [Stage -> StageStatus]
      /\ steps[r] \in [Step -> StepStatus]
  BY DEF TypeOK
<1>3. /\ new.was \in [Stage -> StageStatus] /\ new.had \in [Step -> StepStatus]
      /\ new.saw \in View
  BY <1>1, <1>2, SeenTyped, NothingTyped
<1>4. new \in Txn
  BY <1>1, <1>2, <1>3, WholeTyped
<1> QED
  BY <1>1, <1>4 DEF TypeOK

LEMMA CommitTyped ==
  ASSUME TypeOK, NEW t \in txn, Committed(t) \/ GoOn(t)
  PROVE  \A x \in txn' : x \in Txn
<1>0. t \in Txn
  BY DEF TypeOK
<1>1. CASE Committed(t)
  BY <1>1 DEF TypeOK, Committed
<1>2. CASE GoOn(t)
  <2>1. PICK new : /\ txn' = (txn \ {t}) \cup {new} /\ Whole(new)
                   /\ new.op = "progress" /\ new.run = t.run /\ new.at = t.at
                   /\ new.outcome = t.outcome /\ new.ran = t.ran
                   /\ new.was = NoStages /\ new.had = t.had /\ new.saw = NotSeen
    BY <1>0, <1>2, TxnFields, GoingOnAdds
  <2>2. new.op \in Ops
    BY <2>1 DEF Ops, EventOp
  <2>3. new \in Txn
    BY <1>0, <2>1, <2>2, TxnFields, WholeTyped, NothingTyped
  <2> QED
    BY <2>1, <2>3 DEF TypeOK
<1> QED
  BY <1>1, <1>2

\* A view of the artifacts is taken, or given up.
LEMMA ViewsTyped ==
  ASSUME TypeOK, NEW r \in Run, NEW view \in View,
         \/ seen' = [seen EXCEPT ![r].answer = view]
         \/ seen' = [seen EXCEPT ![r].stop = view]
  PROVE  seen' \in [Run -> [answer : View, stop : View]]
<1> DEFINE one == [seen[r] EXCEPT !.answer = view]
           two == [seen[r] EXCEPT !.stop = view]
<1>1. seen \in [Run -> [answer : View, stop : View]]
  BY DEF TypeOK
<1>2. one \in [answer : View, stop : View] /\ two \in [answer : View, stop : View]
  BY <1>1
<1>3. seen' = [seen EXCEPT ![r] = one] \/ seen' = [seen EXCEPT ![r] = two]
  BY <1>1
<1> HIDE DEF one, two
<1> QED
  BY <1>1, <1>2, <1>3

LEMMA PhaseTyped ==
  ASSUME TypeOK, NEW r \in Run, NEW phase \in Phase, At(r, phase)
  PROVE  /\ exec' \in [Run -> Ran]
         /\ exec'[r].phase = phase /\ exec'[r].pos = exec[r].pos /\ exec'[r].ok = exec[r].ok
         /\ \A q \in Run : q # r => exec'[q] = exec[q]
<1> DEFINE x == [exec[r] EXCEPT !.phase = phase]
<1>1. exec \in [Run -> Ran]
  BY DEF TypeOK, Ran
<1>2. x \in Ran /\ x.phase = phase /\ x.pos = exec[r].pos /\ x.ok = exec[r].ok
  BY <1>1 DEF Ran
<1>3. exec' = [exec EXCEPT ![r] = x]
  BY <1>1 DEF At
<1> HIDE DEF x
<1> QED
  BY <1>1, <1>2, <1>3

----------------------------------------------------------------------------
LEMMA InitTyped == Init => Typed
<1> SUFFICES ASSUME Init PROVE TypeOK /\ Progress /\ Sent
  BY DEF Typed
<1>1. evidence \in [Run -> Assessed]
  BY DEF Init, NotRequired, Assessed, Evidence
<1>2. exec \in [Run -> Ran] /\ wire \in [Run -> Seq(Message)]
  <2>1. [phase |-> "none", pos |-> 0, cancel |-> FALSE, ok |-> TRUE] \in Ran
    BY DEF Ran, Phase
  <2>2. <<>> \in Seq(Message)
    OBVIOUS
  <2> QED
    BY <2>1, <2>2 DEF Init
<1>3. /\ status \in [Run -> RunStatus] /\ business \in [Run -> RunStatus]
      /\ code \in [Run -> ErrorCode] /\ agent \in [Run -> Agent \cup {NoAgent}]
      /\ steps \in [Run -> [Step -> StepStatus]] /\ results \in [Run -> [Step -> StepStatus]]
      /\ stage \in [Run -> [Stage -> StageStatus]]
  BY NothingTyped DEF Init, RunStatus, ErrorCode
<1>4. /\ shots \in [Run -> [Stage -> {"none", "ONLINE", "OFFLINE"}]]
      /\ caller \in [Run -> CallerState] /\ stopper \in [Run -> StopState]
      /\ quiet = {} /\ approved = {} /\ txn = {} /\ stale = {}
      /\ lost = 0 /\ retries = 0 /\ crashes = 0
      /\ seen \in [Run -> [answer : View, stop : View]]
  BY NothingTyped DEF Init, CallerState, StopState
<1>5. TypeOK
  BY <1>1, <1>2, <1>3, <1>4 DEF TypeOK, Assessed, Ran
<1>6. Progress
  BY DEF Init, Progress, NoSteps, Good
<1>7. Sent
  BY DEF Init, Sent
<1> QED
  BY <1>5, <1>6, <1>7

LEMMA RequestTyped ==
  ASSUME TypeOK, NEW r \in Run, Request(r)
  PROVE  TypeOK'
<1> USE DEF stageVars, agentVars, counters, rowVars, Moved, CallerState
<1>1. ASSUME NEW a \in Agent, CheckAgent(r, a) PROVE TypeOK'
  BY <1>1 DEF TypeOK, CheckAgent
<1>2. CASE AddRun(r)
  BY <1>2, ConcludeTyped DEF TypeOK, AddRun, RunStatus, ErrorCode
<1>3. CASE Snapshot(r)
  BY <1>3 DEF TypeOK, Snapshot, Touch, StageStatus, StageOpen
<1>4. CASE Send(r) \/ SendFails(r) \/ StopWaiting(r)
  <2>1. exec' \in [Run -> Ran]
    BY <1>4, PhaseTyped DEF TypeOK, Send, SendFails, StopWaiting, At, Ran, Phase
  <2>2. seen' \in [Run -> [answer : View, stop : View]]
    <3>1. SeenNow(r) \in View
      BY SeenTyped
    <3>2. seen' = seen \/ seen' = [seen EXCEPT ![r].answer = SeenNow(r)]
      BY <1>4 DEF Send, SendFails, StopWaiting, SessionSees
    <3>3. CASE seen' = seen
      BY <3>3 DEF TypeOK
    <3>4. CASE seen' = [seen EXCEPT ![r].answer = SeenNow(r)]
      BY <3>1, <3>4, ViewsTyped
    <3> QED
      BY <3>2, <3>3, <3>4
  <2>3. /\ caller' \in [Run -> CallerState]
        /\ UNCHANGED <<rowVars, stageVars, stopper, txn, stale, results, wire, lost, retries, crashes>>
    BY <1>4 DEF TypeOK, Send, SendFails, StopWaiting
  <2> QED
    BY <2>1, <2>2, <2>3 DEF TypeOK, Ran
<1>5. CASE TakeAnswer(r)
  <2>1. wire' \in [Run -> Seq(Message)]
    BY <1>5 DEF TypeOK, TakeAnswer
  <2> QED
    BY <1>5, <2>1 DEF TypeOK, TakeAnswer
<1>6. CASE Finalize(r)
  <2>1. /\ status' \in [Run -> RunStatus] /\ business' \in [Run -> RunStatus]
        /\ code' \in [Run -> ErrorCode] /\ quiet' \subseteq Run
    BY <1>6, ConcludeTyped DEF Finalize, RunStatus, Ended, ErrorCode
  <2>2. evidence' \in [Run -> Assessed]
    <3>1. /\ status'[r] \in RunStatus /\ stage[r] \in [Stage -> StageStatus]
          /\ seen[r].answer \in View
      BY <2>1 DEF TypeOK
    <3> QED
      BY <1>6, <3>1, RefreshTyped DEF Finalize
  <2>5. seen' \in [Run -> [answer : View, stop : View]]
    BY <1>6, ViewsTyped, NothingTyped DEF Finalize
  <2>3. caller' \in [Run -> CallerState] /\ steps' \in [Run -> [Step -> StepStatus]]
    BY <1>6 DEF TypeOK, Finalize
  <2>4. UNCHANGED <<stage, approved, shots, agent, stopper, txn, stale, exec, results, wire,
                    lost, retries, crashes>>
    BY <1>6 DEF Finalize
  <2> QED
    BY <2>1, <2>2, <2>3, <2>4, <2>5 DEF TypeOK, Assessed
<1> QED
  BY <1>1, <1>2, <1>3, <1>4, <1>5, <1>6 DEF Request

LEMMA StopTyped ==
  ASSUME TypeOK, NEW r \in Run, Stop(r)
  PROVE  TypeOK'
<1> USE DEF stageVars, agentVars, counters, rowVars, StopState
<1>1. CASE PrepareStop(r) \/ StopUnanswered(r)
  <2>0. \E place \in StopState : stopper' = [stopper EXCEPT ![r] = place]
    BY <1>1 DEF PrepareStop, StopUnanswered
  <2>1. stopper' \in [Run -> StopState]
    BY <2>0 DEF TypeOK
  <2>2. seen' \in [Run -> [answer : View, stop : View]]
    <3>1. SeenNow(r) \in View
      BY SeenTyped
    <3>2. seen' = seen \/ seen' = [seen EXCEPT ![r].stop = SeenNow(r)]
      BY <1>1 DEF PrepareStop, StopUnanswered
    <3>3. CASE seen' = seen
      BY <3>3 DEF TypeOK
    <3>4. CASE seen' = [seen EXCEPT ![r].stop = SeenNow(r)]
      BY <3>1, <3>4, ViewsTyped
    <3> QED
      BY <3>2, <3>3, <3>4
  <2>3. UNCHANGED <<rowVars, stageVars, caller, txn, stale, agentVars, counters>>
    BY <1>1 DEF PrepareStop, StopUnanswered
  <2> QED
    BY <2>1, <2>2, <2>3 DEF TypeOK
<1>2. CASE AgentStops(r)
  <2>1. exec \in [Run -> Ran]
    BY DEF TypeOK, Ran
  <2>2. exec' \in [Run -> Ran]
    <3>1. CASE At(r, "ended")
      BY <3>1, PhaseTyped DEF Phase
    <3>2. CASE exec' = [exec EXCEPT ![r].cancel = TRUE]
      <4>0. exec[r] \in Ran
        BY <2>1
      <4>1. [exec[r] EXCEPT !.cancel = TRUE] \in Ran
        BY ONLY <4>0 DEF Ran
      <4>2. exec' = [exec EXCEPT ![r] = [exec[r] EXCEPT !.cancel = TRUE]]
        BY <2>1, <3>2
      <4> QED
        BY <2>1, <4>1, <4>2
    <3> QED
      BY <1>2, <2>1, <3>1, <3>2 DEF AgentStops, At
  <2>3. stopper' \in [Run -> StopState]
    BY <1>2 DEF TypeOK, AgentStops
  <2> QED
    BY <1>2, <2>2, <2>3 DEF TypeOK, AgentStops, Ran
<1>3. CASE FinalizeCancelled(r)
  <2>1. /\ status' \in [Run -> RunStatus] /\ business' \in [Run -> RunStatus]
        /\ code' \in [Run -> ErrorCode] /\ quiet' \subseteq Run
    BY <1>3, ConcludeTyped DEF FinalizeCancelled, RunStatus, Ended, ErrorCode
  <2>2. evidence' \in [Run -> Assessed]
    <3>1. /\ "CANCELLED" \in RunStatus /\ stage[r] \in [Stage -> StageStatus]
          /\ seen[r].stop \in View
      BY DEF TypeOK, RunStatus, Ended
    <3> QED
      BY <1>3, <3>1, RefreshTyped DEF FinalizeCancelled
  <2>3. seen' \in [Run -> [answer : View, stop : View]]
    BY <1>3, ViewsTyped, NothingTyped DEF FinalizeCancelled
  <2>4. /\ stopper' \in [Run -> StopState]
        /\ UNCHANGED <<agent, steps, stage, approved, shots, caller, txn, stale, exec, results,
                       wire, lost, retries, crashes>>
    BY <1>3 DEF TypeOK, FinalizeCancelled
  <2> QED
    BY <2>1, <2>2, <2>3, <2>4 DEF TypeOK, Assessed
<1> QED
  BY <1>1, <1>2, <1>3 DEF Stop

LEMMA OperatorTyped ==
  ASSUME TypeOK, NEW r \in Run, Operator(r)
  PROVE  TypeOK'
<1> USE DEF stageVars, agentVars, counters, rowVars
<1>0. "none" \in StepStatus /\ Stage \subseteq Nat
  BY DEF StepStatus, Stage
<1>1. ASSUME NEW k \in Stage, NEW op \in {"approve", "reject", "retry", "report"},
             Read(op, r, k, "none"),
             UNCHANGED <<rowVars, stageVars, caller, stopper, seen, agentVars, lost, crashes>>,
             retries' \in 0 .. MaxRetries
      PROVE  TypeOK'
  <2>1. (\A t \in txn' : t \in Txn) /\ stale' \subseteq Run
    BY <1>0, <1>1, ReadTyped DEF Ops
  <2> QED
    BY <1>1, <2>1 DEF TypeOK
<1>2. ASSUME NEW k \in Stage, NEW verdict \in {"approve", "reject"}, CheckApproval(r, k, verdict)
      PROVE  TypeOK'
  BY <1>1, <1>2 DEF CheckApproval, TypeOK
<1>3. ASSUME NEW k \in Stage, CheckRetry(r, k) PROVE TypeOK'
  <2>1. retries' \in 0 .. MaxRetries
    BY <1>3 DEF CheckRetry, TypeOK
  <2> QED
    BY <1>1, <1>3, <2>1 DEF CheckRetry
<1>4. ASSUME NEW k \in Stage, ReportShot(r, k) PROVE TypeOK'
  <2>1. PICK availability \in {"ONLINE", "OFFLINE"} :
          shots' = [shots EXCEPT ![r] = [shots[r] EXCEPT ![k] = availability]]
    BY <1>4 DEF ReportShot, TypeOK
  <2>2. shots \in [Run -> [Stage -> {"none", "ONLINE", "OFFLINE"}]]
    BY DEF TypeOK
  <2>3. shots' \in [Run -> [Stage -> {"none", "ONLINE", "OFFLINE"}]]
    BY <2>1, <2>2
  <2>4. UNCHANGED <<rowVars, stage, approved, evidence, serverVars, agentVars, counters>>
    BY <1>4 DEF ReportShot
  <2> QED
    BY <2>3, <2>4 DEF TypeOK, serverVars
<1>5. ASSUME NEW k \in Stage, ReportAgain(r, k) PROVE TypeOK'
  BY <1>1, <1>5 DEF ReportAgain, TypeOK
<1> QED
  BY <1>2, <1>3, <1>4, <1>5 DEF Operator

LEMMA EventTyped ==
  ASSUME TypeOK, NEW r \in Run, ReadEvent(r)
  PROVE  TypeOK'
<1> USE DEF stageVars, agentVars, counters, rowVars
<1> DEFINE m == Head(wire[r])
<1>1. m \in Message /\ wire' \in [Run -> Seq(Message)]
  BY DEF TypeOK, ReadEvent
<1>2. m.at \in Nat /\ m.outcome \in StepStatus
  BY <1>1 DEF Message
<1>3. CASE Welcome(r, m)
  <2>1. Read(Handled[m.type], r, m.at, m.outcome)
    BY <1>3 DEF ReadEvent
  <2>2. Handled[m.type] \in Ops
    BY <1>3 DEF Welcome, Handled, Ops, EventOp
  <2> HIDE DEF m
  <2>3. (\A t \in txn' : t \in Txn) /\ stale' \subseteq Run
    BY <1>2, <2>1, <2>2, ReadTyped
  <2> QED
    BY <1>1, <2>3 DEF TypeOK, ReadEvent
<1>4. CASE ~ Welcome(r, m)
  BY <1>1, <1>4 DEF TypeOK, ReadEvent
<1> QED
  BY <1>3, <1>4

\* A change of one stage row of one run, and the rows of one run rewritten.
LEMMA StageRowTyped ==
  ASSUME stage \in [Run -> [Stage -> StageStatus]], NEW r \in Run, NEW k,
         NEW s \in StageStatus, StageSet(r, k, s)
  PROVE  /\ stage' \in [Run -> [Stage -> StageStatus]]
         /\ \A q \in Run, j \in Stage :
              stage'[q][j] = IF q = r /\ j = k THEN s ELSE stage[q][j]
<1> DEFINE row == [stage[r] EXCEPT ![k] = s]
<1>1. stage[r] \in [Stage -> StageStatus]
  OBVIOUS
<1>2. /\ row \in [Stage -> StageStatus]
      /\ \A j \in Stage : row[j] = IF j = k THEN s ELSE stage[r][j]
  BY <1>1
<1>3. stage' = [stage EXCEPT ![r] = row]
  BY DEF StageSet
<1> HIDE DEF row
<1> QED
  BY <1>2, <1>3

LEMMA CommitKeepsTypes ==
  ASSUME TypeOK, ApprovalInv, NEW t \in txn, Commit(t)
  PROVE  TypeOK'
<1> USE DEF stageVars, agentVars, counters, rowVars
<1>1. /\ t \in Txn /\ t.run \in Run /\ t.at \in Nat /\ t.outcome \in StepStatus
      /\ t.had \in [Step -> StepStatus] /\ t.was \in [Stage -> StageStatus]
      /\ t.ran \in RunStatus /\ t.saw \in View
      /\ stage \in [Run -> [Stage -> StageStatus]]
  BY DEF TypeOK, Txn
<1>b. stale' \subseteq Run /\ UNCHANGED seen
  BY <1>1 DEF TypeOK, Commit, Approve, Reject, Retry, AdvanceStage, RecordProgress,
              RecordFinish, Recover, Reassess, NoteStale
<1>2. \A x \in txn' : x \in Txn
  BY CommitTyped DEF Commit, Approve, Reject, Retry, AdvanceStage, RecordProgress,
                     RecordFinish, Recover, Reassess
<1>3. t.op \in {"approve", "reject"} => t.at \in WriteStages
  BY DEF ApprovalInv, StagesTyped
<1>4. CASE Approve(t) \/ Reject(t)
  <2>1. /\ StageSet(t.run, t.at, "PENDING") \/ StageSet(t.run, t.at, "CANCELLED")
        /\ approved' = approved \cup {<<t.run, t.at>>} /\ t.at \in WriteStages
    BY <1>3, <1>4 DEF Approve, Reject
  <2>2. stage' \in [Run -> [Stage -> StageStatus]]
    BY <1>1, <2>1, StageRowTyped DEF StageStatus, StageOpen, StageEnded
  <2>3. approved' \subseteq Run \X WriteStages
    BY <1>1, <2>1 DEF TypeOK
  <2>4. /\ status' \in [Run -> RunStatus] /\ code' \in [Run -> ErrorCode]
        /\ quiet' \subseteq Run
    <3>1. \/ UNCHANGED <<status, code, quiet>>
          \/ /\ status' = [status EXCEPT ![t.run] = "CANCELLED"]
             /\ code' = [code EXCEPT ![t.run] = "STAGE_REJECTED"] /\ Touch(t.run)
      BY <1>4 DEF Approve, Reject
    <3>2. CASE UNCHANGED <<status, code, quiet>>
      BY <3>2 DEF TypeOK
    <3>3. CASE /\ status' = [status EXCEPT ![t.run] = "CANCELLED"]
               /\ code' = [code EXCEPT ![t.run] = "STAGE_REJECTED"] /\ Touch(t.run)
      BY <1>1, <3>3 DEF TypeOK, Touch, RunStatus, Ended, ErrorCode
    <3> QED
      BY <3>1, <3>2, <3>3
  <2>5. UNCHANGED <<business, agent, steps, evidence, shots, caller, stopper, exec,
                    results, wire, lost, retries, crashes>>
    BY <1>4 DEF Approve, Reject
  <2> QED
    BY <1>2, <1>b, <2>2, <2>3, <2>4, <2>5 DEF TypeOK
<1>5. CASE Retry(t)
  <2>1. /\ StageSet(t.run, t.at, "PENDING") \/ StageSet(t.run, t.at, "WAITING_APPROVAL")
        /\ approved' \subseteq approved
    BY <1>5 DEF Retry, AskAgain
  <2>2. stage' \in [Run -> [Stage -> StageStatus]]
    BY <1>1, <2>1, StageRowTyped DEF StageStatus, StageOpen, StageEnded
  <2>3. evidence' \in [Run -> Assessed]
    <3>1. evidence \in [Run -> Assessed]
      BY DEF TypeOK, Assessed
    <3> DEFINE found == [evidence[t.run] EXCEPT !.stage[t.at] = "PENDING"]
               per   == [evidence[t.run].stage EXCEPT ![t.at] = "PENDING"]
    <3>2. per \in [Stage -> Evidence]
      BY <1>1, <3>1 DEF Assessed, Evidence
    <3> HIDE DEF per
    <3>3. evidence[t.run] \in Assessed
      BY <1>1, <3>1
    <3>4. found \in Assessed
      <4>1. [evidence[t.run] EXCEPT !.stage = per] \in Assessed
        BY <3>2, <3>3 DEF Assessed
      <4>2. found = [evidence[t.run] EXCEPT !.stage = per]
        BY DEF per
      <4> QED
        BY <4>1, <4>2
    <3>5. evidence' = [evidence EXCEPT ![t.run] = found]
      BY <1>5 DEF Retry
    <3> HIDE DEF found
    <3> QED
      BY <3>1, <3>4, <3>5
  <2>4. UNCHANGED <<status, business, code, agent, steps, quiet, shots, caller, stopper,
                    exec, results, wire, lost, retries, crashes>>
    BY <1>5 DEF Retry
  <2>5. approved' \subseteq Run \X WriteStages
    BY <2>1 DEF TypeOK
  <2> QED
    BY <1>2, <1>b, <2>2, <2>3, <2>4, <2>5 DEF TypeOK, Assessed
<1>6. CASE AdvanceStage(t)
  <2> DEFINE k == Target(t.run, t.at)
             verdict == Judge(t)
             s == IF t.was[k] = "RUNNING" THEN stage[t.run][k] ELSE "RUNNING"
  <2>1. stage' \in [Run -> [Stage -> StageStatus]]
    <3>1. CASE stage' = stage
      BY <1>1, <3>1
    <3>2. CASE StageSet(t.run, k, s)
      <4>1. CASE k \in Stage
        <5>1. s \in StageStatus
          BY <1>1, <4>1 DEF StageStatus
        <5> HIDE DEF s, k
        <5> QED
          BY <1>1, <3>2, <5>1, StageRowTyped
      <4>2. CASE k \notin Stage
        <5> HIDE DEF s, k
        <5> DEFINE row == [stage[t.run] EXCEPT ![k] = s]
        <5>1. row = stage[t.run]
          BY <1>1, <4>2
        <5>2. stage' = [stage EXCEPT ![t.run] = row]
          BY <3>2 DEF StageSet
        <5> HIDE DEF row
        <5> QED
          BY <1>1, <5>1, <5>2
      <4> QED
        BY <4>1, <4>2
    <3>3. CASE /\ verdict # "RUNNING"
               /\ stage' = [stage EXCEPT ![t.run] = Judged(t, k, verdict, @)]
      <4>1. verdict \in StageStatus
        BY <3>3 DEF Judge, StageVerdict, StageStatus, StageEnded
      <4> HIDE DEF k, verdict
      <4> DEFINE row == [j \in Stage |->
                          IF j = k THEN verdict
                          ELSE IF verdict = "FAILED" /\ j > k /\ t.was[j] \in StageOpen
                            THEN "SKIPPED" ELSE stage[t.run][j]]
      <4>2. row \in [Stage -> StageStatus]
        BY <1>1, <4>1 DEF StageStatus, StageEnded
      <4>3. stage' = [stage EXCEPT ![t.run] = row]
        BY <3>3 DEF Judged
      <4> HIDE DEF row
      <4> QED
        BY <1>1, <4>2, <4>3
    <3> QED
      BY <1>6, <3>1, <3>2, <3>3 DEF AdvanceStage
  <2>2. UNCHANGED <<status, business, code, agent, steps, approved, shots, caller, stopper,
                    exec, results, wire, lost, retries, crashes>>
    BY <1>6 DEF AdvanceStage
  <2>3. \/ evidence' = evidence
        \/ /\ verdict # "RUNNING"
           /\ Refresh(t.run, t.ran, Judged(t, k, verdict, t.was), t.saw)
    BY <1>6 DEF AdvanceStage
  <2>4. evidence' \in [Run -> Assessed]
    <3>1. CASE evidence' = evidence
      BY <3>1 DEF TypeOK, Assessed
    <3>2. CASE /\ verdict # "RUNNING"
               /\ Refresh(t.run, t.ran, Judged(t, k, verdict, t.was), t.saw)
      <4>1. verdict \in StageStatus
        BY <3>2 DEF Judge, StageVerdict, StageStatus, StageEnded
      <4> HIDE DEF k, verdict
      <4>2. Judged(t, k, verdict, t.was) \in [Stage -> StageStatus]
        BY <1>1, <4>1 DEF Judged, StageStatus, StageEnded
      <4> QED
        BY <1>1, <3>2, <4>2, RefreshTyped
    <3> QED
      BY <2>3, <3>1, <3>2
  <2>5. quiet' \subseteq quiet
    BY <1>6 DEF AdvanceStage, Touch
  <2>6. /\ quiet' \subseteq Run
        /\ UNCHANGED <<status, business, code, agent, steps>>
    BY <2>2, <2>5 DEF TypeOK
  <2> QED
    BY <1>2, <1>b, <2>1, <2>2, <2>4, <2>6 DEF TypeOK, Assessed
<1>7. CASE RecordProgress(t)
  <2>1. steps' \in [Run -> [Step -> StepStatus]]
    <3> DEFINE row == IF t.at \in Step THEN [t.had EXCEPT ![t.at] = t.outcome] ELSE t.had
    <3>1. row \in [Step -> StepStatus]
      BY <1>1
    <3>2. steps' = [steps EXCEPT ![t.run] = row]
      BY <1>7 DEF RecordProgress
    <3> HIDE DEF row
    <3> QED
      BY <1>1, <3>1, <3>2 DEF TypeOK
  <2>2. quiet' \subseteq Run
    BY <1>7 DEF RecordProgress, Touch, TypeOK
  <2>3. UNCHANGED <<status, business, code, agent, stage, approved, evidence, shots, caller,
                    stopper, exec, results, wire, lost, retries, crashes>>
    BY <1>7 DEF RecordProgress
  <2> QED
    BY <1>2, <1>b, <2>1, <2>2, <2>3 DEF TypeOK
<1>8. CASE RecordFinish(t)
  <2>1. /\ status' \in [Run -> RunStatus] /\ business' \in [Run -> RunStatus]
        /\ code' \in [Run -> ErrorCode] /\ quiet' \subseteq Run
    BY <1>1, <1>8, ConcludeTyped DEF RecordFinish, RunStatus, Ended, ErrorCode
  <2>2. evidence' \in [Run -> Assessed]
    <3>1. status'[t.run] \in RunStatus
      BY <1>1, <2>1
    <3> QED
      BY <1>1, <1>8, <3>1, RefreshTyped DEF RecordFinish
  <2>3. steps' \in [Run -> [Step -> StepStatus]]
    <3>1. steps' = [steps EXCEPT ![t.run] = results[t.run]]
      BY <1>8 DEF RecordFinish
    <3>2. /\ steps \in [Run -> [Step -> StepStatus]]
          /\ results[t.run] \in [Step -> StepStatus]
      BY <1>1 DEF TypeOK
    <3> QED
      BY <1>1, <3>1, <3>2
  <2>4. UNCHANGED <<agent, stage, approved, shots, caller, stopper, exec, results, wire, lost,
                    retries, crashes>>
    BY <1>8 DEF RecordFinish
  <2> QED
    BY <1>2, <1>b, <2>1, <2>2, <2>3, <2>4 DEF TypeOK, Assessed
<1>9. CASE Recover(t)
  <2>1. /\ status' \in [Run -> RunStatus] /\ business' \in [Run -> RunStatus]
        /\ code' \in [Run -> ErrorCode] /\ quiet' \subseteq Run
    BY <1>1, <1>9, ConcludeTyped DEF Recover, EndOrphan, RunStatus, Ended, ErrorCode
  <2>2. /\ CloseStages(t, stage[t.run]) \in [Stage -> StageStatus]
        /\ CloseStages(t, t.was) \in [Stage -> StageStatus]
    BY <1>1 DEF CloseStages, StageStatus, StageEnded
  <2>3. stage' \in [Run -> [Stage -> StageStatus]]
    <3>1. stage' = [stage EXCEPT ![t.run] = CloseStages(t, stage[t.run])]
      BY <1>9 DEF Recover
    <3> QED
      BY <1>1, <2>2, <3>1
  <2>4. evidence' \in [Run -> Assessed]
    <3>1. "FAILED" \in RunStatus
      BY DEF RunStatus, Ended
    <3> QED
      BY <1>1, <1>9, <2>2, <3>1, RefreshTyped DEF Recover
  <2>5. UNCHANGED <<agent, steps, approved, shots, caller, stopper, exec, results, wire, lost,
                    retries, crashes>>
    BY <1>9 DEF Recover
  <2> QED
    BY <1>2, <1>b, <2>1, <2>3, <2>4, <2>5 DEF TypeOK, Assessed
<1>10. CASE Reassess(t)
  <2>1. evidence' \in [Run -> Assessed]
    BY <1>1, <1>10, RefreshTyped DEF Reassess
  <2>2. quiet' \subseteq Run
    BY <1>10 DEF Reassess, Touch, TypeOK
  <2>3. UNCHANGED <<status, business, code, agent, steps, stage, approved, shots, caller, stopper,
                    exec, results, wire, lost, retries, crashes>>
    BY <1>10 DEF Reassess
  <2> QED
    BY <1>2, <1>b, <2>1, <2>2, <2>3 DEF TypeOK, Assessed
<1> QED
  BY <1>4, <1>5, <1>6, <1>7, <1>8, <1>9, <1>10 DEF Commit

----------------------------------------------------------------------------
(* What the Agent has said and the server has not yet read.                *)

InTransit(r) == {wire[r][n] : n \in DOMAIN wire[r]}

LEMMA ReadingTakesOne ==
  ASSUME wire \in [Run -> Seq(Message)], NEW r \in Run, wire[r] # <<>>,
         wire' = [wire EXCEPT ![r] = Tail(@)]
  PROVE  /\ Head(wire[r]) \in InTransit(r)
         /\ \A q \in Run : InTransit(q)' \subseteq InTransit(q)
<1>1. wire[r] \in Seq(Message) /\ Len(wire[r]) \in Nat \ {0}
  BY EmptySeq
<1>2. Head(wire[r]) \in InTransit(r)
  BY <1>1 DEF InTransit
<1>3. ASSUME NEW q \in Run, NEW m \in InTransit(q)' PROVE m \in InTransit(q)
  <2>1. CASE q = r
    <3>1. wire'[r] = Tail(wire[r])
      BY DEF InTransit
    <3>2. PICK n \in DOMAIN Tail(wire[r]) : m = Tail(wire[r])[n]
      BY <1>3, <2>1, <3>1 DEF InTransit
    <3>3. n + 1 \in DOMAIN wire[r] /\ m = wire[r][n + 1]
      BY <1>1, <3>2
    <3> QED
      BY <2>1, <3>3 DEF InTransit
  <2>2. CASE q # r
    BY <1>3, <2>2 DEF InTransit
  <2> QED
    BY <2>1, <2>2
<1> QED
  BY <1>2, <1>3

LEMMA SpeakingAdds ==
  ASSUME wire \in [Run -> Seq(Message)], NEW r \in Run, NEW messages \in Seq(Message),
         wire' = [wire EXCEPT ![r] = @ \o messages]
  PROVE  /\ wire' \in [Run -> Seq(Message)]
         /\ \A q \in Run : q # r => InTransit(q)' = InTransit(q)
         /\ InTransit(r)' \subseteq InTransit(r) \cup {messages[n] : n \in DOMAIN messages}
<1> DEFINE all == wire[r] \o messages
<1>1. wire[r] \in Seq(Message) /\ all \in Seq(Message)
  OBVIOUS
<1>2. wire' = [wire EXCEPT ![r] = all]
  OBVIOUS
<1>3. ASSUME NEW n \in DOMAIN all
      PROVE  \/ n \in DOMAIN wire[r] /\ all[n] = wire[r][n]
             \/ n - Len(wire[r]) \in DOMAIN messages /\ all[n] = messages[n - Len(wire[r])]
  BY <1>1
<1> HIDE DEF all
<1>4. wire'[r] = all /\ \A q \in Run : q # r => wire'[q] = wire[q]
  BY <1>2
<1> QED
  BY <1>1, <1>2, <1>3, <1>4 DEF InTransit

LEMMA EmittingAdds ==
  ASSUME wire \in [Run -> Seq(Message)], lost \in 0 .. MaxLost, NEW r \in Run,
         NEW messages \in Seq(Message), Emit(r, messages)
  PROVE  /\ wire' \in [Run -> Seq(Message)] /\ lost' \in 0 .. MaxLost
         /\ \A q \in Run : q # r => InTransit(q)' = InTransit(q)
         /\ InTransit(r)' \subseteq InTransit(r) \cup {messages[n] : n \in DOMAIN messages}
<1>1. CASE wire' = [wire EXCEPT ![r] = @ \o messages] /\ UNCHANGED lost
  BY <1>1, SpeakingAdds
<1>2. CASE lost < MaxLost /\ lost' = lost + 1 /\ UNCHANGED wire
  BY <1>2 DEF InTransit
<1> QED
  BY <1>1, <1>2 DEF Emit

LEMMA OneMore ==
  ASSUME NEW messages \in Seq(Message), NEW m \in Message, NEW all, all = messages \o <<m>>
  PROVE  /\ all \in Seq(Message)
         /\ \A n \in DOMAIN all : \/ n \in DOMAIN messages /\ all[n] = messages[n]
                                  \/ all[n] = m
OBVIOUS

\* Of one run's messages, those of a step that report it done, and those of
\* the whole run that do.
Reports(m, i) == m.type \in {"status", "step"} /\ m.at = i /\ m.outcome \in Good
Claims(m) == m.type \in {"finished", "answer"} /\ m.outcome = "passed"

\* What an execution step does to its own run, and that it reports a step
\* as done or the run as passed for a reason.
ExecutionStep(r) ==
  /\ exec' \in [Run -> Ran] /\ results' \in [Run -> [Step -> StepStatus]]
  /\ wire' \in [Run -> Seq(Message)] /\ lost' \in 0 .. MaxLost
  /\ \A q \in Run : q # r => /\ exec'[q] = exec[q] /\ results'[q] = results[q]
                             /\ InTransit(q)' = InTransit(q)
  /\ \A m \in InTransit(r)' : m \notin InTransit(r) =>
       /\ \A i \in Nat : Reports(m, i) => i \in Step /\ Done(r, i)'
       /\ Claims(m) => \/ r \in Manual /\ exec[r].phase = "starting"
                       \/ exec[r].phase = "closing" /\ exec[r].ok
  /\ \/ /\ exec[r].phase = "starting" /\ exec'[r].phase \in {"running", "prepared"}
        /\ exec'[r].pos = exec[r].pos /\ exec'[r].ok = exec[r].ok
        /\ results'[r] = results[r]
     \/ /\ exec[r].phase = "starting" /\ exec'[r].phase = "closing"
        /\ ~ exec'[r].ok /\ results'[r] = results[r]
     \/ /\ exec[r].phase = "running" /\ exec'[r].phase = "stepping"
        /\ exec'[r].pos = exec[r].pos + 1 /\ exec'[r].ok = exec[r].ok
        /\ exec'[r].pos \notin Disabled /\ results'[r] = results[r]
     \/ /\ exec[r].phase = "running" /\ exec'[r].pos = exec[r].pos + 1
        /\ exec'[r].pos \in Disabled /\ exec'[r].ok = exec[r].ok
        /\ results'[r] = [results[r] EXCEPT ![exec'[r].pos] = "skipped"]
        /\ \/ exec'[r].phase = "running" /\ exec'[r].pos # Steps
           \/ exec'[r].phase = "closing" /\ exec'[r].pos = Steps
     \/ /\ exec[r].phase = "stepping" /\ exec'[r].pos = exec[r].pos
        /\ \/ exec'[r].phase = "running" /\ exec[r].pos # Steps
           \/ exec'[r].phase = "closing"
        /\ \E outcome \in {"passed", "failed"} :
             /\ results'[r] = [results[r] EXCEPT ![exec[r].pos] = outcome]
             /\ exec'[r].ok = (exec[r].ok /\ outcome = "passed")
             /\ exec'[r].phase = After(r, exec[r].pos, outcome)
             /\ exec[r].cancel => outcome = "failed"
     \/ /\ exec[r].phase = "running" /\ exec'[r].phase = "closing"
        /\ ~ exec'[r].ok /\ results'[r] = results[r]
     \/ /\ exec[r].phase = "closing" /\ exec'[r].phase = "ended"
        /\ results'[r] = results[r]

LEMMA ExecutionSteps ==
  ASSUME Typed, NEW r \in Run, Execute(r)
  PROVE  ExecutionStep(r)
<1> DEFINE e == exec[r]
<1>1. /\ exec \in [Run -> Ran] /\ e \in Ran /\ results \in [Run -> [Step -> StepStatus]]
      /\ results[r] \in [Step -> StepStatus] /\ r \in Run
      /\ wire \in [Run -> Seq(Message)] /\ lost \in 0 .. MaxLost
  BY DEF Typed, TypeOK, Ran
<1>2. /\ e.phase \in Phase /\ e.pos \in 0 .. Steps /\ e.cancel \in BOOLEAN /\ e.ok \in BOOLEAN
  BY <1>1 DEF Ran
<1>3. /\ e.phase = "running" => e.pos < Steps
      /\ e.phase = "stepping" => e.pos \in Step \ Disabled
  BY DEF Typed, Progress
<1>4. Steps \in Nat /\ Stages \in Nat /\ StageOf \in [Step -> Stage]
  OBVIOUS
\* The next state of the execution, from its record.
<1>5. ASSUME NEW x \in Ran, exec' = [exec EXCEPT ![r] = x]
      PROVE  /\ exec' \in [Run -> Ran] /\ exec'[r] = x
             /\ \A q \in Run : q # r => exec'[q] = exec[q]
  BY <1>1, <1>5
<1>6. CASE StartCase(r)
  <2> DEFINE u == <<Say("status", 0, "running")>>
  <2>1. exec' \in [Run -> Ran] /\ exec'[r].phase = "running" /\ e.phase = "starting"
        /\ exec'[r].pos = e.pos /\ exec'[r].ok = e.ok /\ \A q \in Run : q # r => exec'[q] = exec[q]
    BY <1>6, PhaseTyped DEF StartCase, Typed, Phase
  <2>2. u \in Seq(Message) /\ \A n \in DOMAIN u : u[n].outcome = "running"
    BY DEF Say, Message, StepStatus
  <2>3. Emit(r, u) /\ results' = results
    BY <1>6 DEF StartCase
  <2> HIDE DEF u
  <2>4. /\ wire' \in [Run -> Seq(Message)] /\ lost' \in 0 .. MaxLost
        /\ \A q \in Run : q # r => InTransit(q)' = InTransit(q)
        /\ InTransit(r)' \subseteq InTransit(r) \cup {u[n] : n \in DOMAIN u}
    BY <1>1, <2>2, <2>3, EmittingAdds
  <2>5. \A m \in InTransit(r)' : m \notin InTransit(r) => m.outcome = "running"
    BY <2>2, <2>4
  <2> QED
    BY <1>1, <2>1, <2>3, <2>4, <2>5 DEF ExecutionStep, Reports, Claims, Good
<1>7. CASE Prepare(r)
  <2> DEFINE u == <<Say("status", 0, "running"), Say("answer", 0, "passed")>>
  <2>1. exec' \in [Run -> Ran] /\ exec'[r].phase = "prepared" /\ e.phase = "starting"
        /\ exec'[r].pos = e.pos /\ exec'[r].ok = e.ok /\ \A q \in Run : q # r => exec'[q] = exec[q]
    BY <1>7, PhaseTyped DEF Prepare, Typed, Phase
  <2>2. u \in Seq(Message) /\ \A n \in DOMAIN u : u[n].outcome = "running" \/ u[n].type = "answer"
    BY DEF Say, Message, StepStatus
  <2>3. wire' = [wire EXCEPT ![r] = @ \o u] /\ results' = results /\ r \in Manual /\ lost' = lost
    BY <1>7 DEF Prepare, counters
  <2> HIDE DEF u
  <2>4. /\ wire' \in [Run -> Seq(Message)]
        /\ \A q \in Run : q # r => InTransit(q)' = InTransit(q)
        /\ InTransit(r)' \subseteq InTransit(r) \cup {u[n] : n \in DOMAIN u}
    BY <1>1, <2>2, <2>3, SpeakingAdds
  <2>5. \A m \in InTransit(r)' : m \notin InTransit(r) => m.outcome = "running" \/ m.type = "answer"
    BY <2>2, <2>4
  <2> QED
    BY <1>1, <2>1, <2>3, <2>4, <2>5 DEF ExecutionStep, Reports, Claims, Good
<1>8. CASE BeginStep(r)
  <2> DEFINE u == <<Say("step", e.pos + 1, "running")>>
             x == [exec[r] EXCEPT !.phase = "stepping", !.pos = @ + 1]
  <2>0. e.phase = "running" /\ e.pos + 1 \notin Disabled
    BY <1>8 DEF BeginStep
  <2>1. x \in Ran /\ x.phase = "stepping" /\ x.pos = e.pos + 1 /\ x.ok = e.ok
    <3> DEFINE next == e.pos + 1
    <3>1. next \in 0 .. Steps
      BY <1>2, <1>3, <1>4, <2>0
    <3>2. x = [exec[r] EXCEPT !.phase = "stepping", !.pos = next]
      OBVIOUS
    <3> HIDE DEF next
    <3>3. x \in Ran /\ x.phase = "stepping" /\ x.pos = next /\ x.ok = e.ok
      BY <1>1, <3>1, <3>2 DEF Ran, Phase
    <3> QED
      BY <3>3 DEF next
  <2>2. u \in Seq(Message) /\ \A n \in DOMAIN u : u[n].outcome = "running"
    BY <1>2 DEF Say, Message, StepStatus
  <2>3. Emit(r, u) /\ results' = results
    BY <1>8 DEF BeginStep
  <2>4. exec' = [exec EXCEPT ![r] = x]
    BY <1>1, <1>8 DEF BeginStep
  <2> HIDE DEF u, x
  <2>5. /\ exec' \in [Run -> Ran] /\ exec'[r] = x
        /\ \A q \in Run : q # r => exec'[q] = exec[q]
    BY <1>5, <2>1, <2>4
  <2>6. /\ wire' \in [Run -> Seq(Message)] /\ lost' \in 0 .. MaxLost
        /\ \A q \in Run : q # r => InTransit(q)' = InTransit(q)
        /\ InTransit(r)' \subseteq InTransit(r) \cup {u[n] : n \in DOMAIN u}
    BY <1>1, <2>2, <2>3, EmittingAdds
  <2>7. \A m \in InTransit(r)' : m \notin InTransit(r) => m.outcome = "running"
    BY <2>2, <2>6
  <2> QED
    BY <1>1, <2>0, <2>1, <2>3, <2>5, <2>6, <2>7 DEF ExecutionStep, Reports, Claims, Good
<1>9. CASE EndStep(r)
  <2>0. e.phase = "stepping" /\ e.pos \in Step /\ e.pos \notin Disabled
    BY <1>3, <1>9 DEF EndStep
  <2>1. PICK outcome \in {"passed", "failed"}, shot \in Seq(Message) :
          /\ \A n \in DOMAIN shot : shot[n].type = "shot"
          /\ e.cancel => outcome = "failed"
          /\ exec' = [exec EXCEPT ![r].phase = After(r, e.pos, outcome), ![r].ok = @ /\ outcome = "passed"]
          /\ results' = [results EXCEPT ![r][e.pos] = outcome]
          /\ Emit(r, shot \o <<Say("step", e.pos, outcome)>>)
    <3>1. PICK outcome \in {"passed", "failed"} :
            /\ e.cancel => outcome = "failed"
            /\ exec' = [exec EXCEPT ![r].phase = After(r, e.pos, outcome), ![r].ok = @ /\ outcome = "passed"]
            /\ results' = [results EXCEPT ![r][e.pos] = outcome]
            /\ \/ Emit(r, <<Say("shot", StageOf[e.pos], "none")>> \o <<Say("step", e.pos, outcome)>>)
               \/ Emit(r, <<>> \o <<Say("step", e.pos, outcome)>>)
      BY <1>9 DEF EndStep
    <3>2. StageOf[e.pos] \in Nat
      BY <1>4, <2>0 DEF Stage
    <3> DEFINE one == <<Say("shot", StageOf[e.pos], "none")>>
    <3>3. /\ one \in Seq(Message) /\ \A n \in DOMAIN one : one[n].type = "shot"
          /\ <<>> \in Seq(Message) /\ \A n \in DOMAIN <<>> : <<>>[n].type = "shot"
      BY <3>2 DEF Say, Message, StepStatus
    <3> HIDE DEF one
    <3>4. Emit(r, one \o <<Say("step", e.pos, outcome)>>) \/ Emit(r, <<>> \o <<Say("step", e.pos, outcome)>>)
      BY <3>1 DEF one
    <3> QED
      BY <3>1, <3>3, <3>4
  <2> DEFINE last == <<Say("step", e.pos, outcome)>>
             u == shot \o last
             x == [exec[r] EXCEPT !.phase = After(r, e.pos, outcome), !.ok = @ /\ outcome = "passed"]
             row == [results[r] EXCEPT ![e.pos] = outcome]
  <2>2. last \in Seq(Message) /\ last[1] = Say("step", e.pos, outcome) /\ Len(last) = 1
    BY <2>0 DEF Say, Message, StepStatus, Step
  <2>8. Say("step", e.pos, outcome).type = "step" /\ Say("step", e.pos, outcome).at = e.pos
        /\ Say("step", e.pos, outcome).outcome = outcome
    BY DEF Say
  <2>3. /\ u \in Seq(Message)
        /\ \A n \in DOMAIN u : \/ u[n].type = "shot"
                               \/ u[n].type = "step" /\ u[n].at = e.pos /\ u[n].outcome = outcome
    <3> DEFINE m == Say("step", e.pos, outcome)
    <3>1. m \in Message
      BY <2>0 DEF Say, Message, StepStatus, Step
    <3> HIDE DEF m
    <3>2. m.type = "step" /\ m.at = e.pos /\ m.outcome = outcome
      BY <2>8 DEF m
    <3>3. \A n \in DOMAIN shot : shot[n].type = "shot"
      BY <2>1
    <3>4. u = shot \o <<m>>
      BY DEF m
    <3> HIDE DEF u, last
    <3>5. /\ u \in Seq(Message)
          /\ \A n \in DOMAIN u : (n \in DOMAIN shot /\ u[n] = shot[n]) \/ u[n] = m
      BY <3>1, <3>4, OneMore
    <3> QED
      BY <3>2, <3>3, <3>5
  <2>4. x \in Ran /\ x.phase = After(r, e.pos, outcome) /\ x.pos = e.pos /\ x.ok = (e.ok /\ outcome = "passed")
    <3>1. After(r, e.pos, outcome) \in Phase
      BY DEF After, Phase
    <3>2. (e.ok /\ outcome = "passed") \in BOOLEAN
      OBVIOUS
    <3> QED
      BY <1>1, <3>1, <3>2 DEF Ran
  <2>5. row \in [Step -> StepStatus]
    BY <1>1, <2>1 DEF StepStatus
  <2>6. exec' = [exec EXCEPT ![r] = x] /\ results' = [results EXCEPT ![r] = row] /\ Emit(r, u)
    BY <1>1, <2>1
  <2>7. row[e.pos] = outcome
    BY <1>1, <2>0
  <2>9. \/ After(r, e.pos, outcome) = "running" /\ e.pos # Steps
        \/ After(r, e.pos, outcome) = "closing"
    BY DEF After
  <2>a. row = [results[r] EXCEPT ![e.pos] = outcome]
    OBVIOUS
  <2> HIDE DEF last, u, x, row
  <2>10. /\ exec' \in [Run -> Ran] /\ exec'[r] = x
         /\ \A q \in Run : q # r => exec'[q] = exec[q]
    BY <1>5, <2>4, <2>6
  <2>11. /\ results' \in [Run -> [Step -> StepStatus]] /\ results'[r] = row
         /\ \A q \in Run : q # r => results'[q] = results[q]
    BY <1>1, <2>5, <2>6
  <2>12. /\ wire' \in [Run -> Seq(Message)] /\ lost' \in 0 .. MaxLost
         /\ \A q \in Run : q # r => InTransit(q)' = InTransit(q)
         /\ InTransit(r)' \subseteq InTransit(r) \cup {u[n] : n \in DOMAIN u}
    BY <1>1, <2>3, <2>6, EmittingAdds
  <2>13. \A m \in InTransit(r)' : m \notin InTransit(r) =>
           m.type = "shot" \/ (m.type = "step" /\ m.at = e.pos /\ m.outcome = outcome)
    <3> SUFFICES ASSUME NEW m \in InTransit(r)', m \notin InTransit(r)
                 PROVE  m.type = "shot" \/ (m.type = "step" /\ m.at = e.pos /\ m.outcome = outcome)
      OBVIOUS
    <3>1. PICK n \in DOMAIN u : m = u[n]
      BY <2>12
    <3> QED
      BY <2>3, <3>1
  <2>14. \A m \in InTransit(r)' : m \notin InTransit(r) =>
           /\ \A i \in Nat : Reports(m, i) => i \in Step /\ Done(r, i)'
           /\ ~ Claims(m)
    BY <2>0, <2>1, <2>7, <2>11, <2>13 DEF Reports, Claims, Good, Done
  <2>15. \E v \in {"passed", "failed"} :
           /\ results'[r] = [results[r] EXCEPT ![exec[r].pos] = v]
           /\ exec'[r].ok = (exec[r].ok /\ v = "passed")
           /\ exec'[r].phase = After(r, e.pos, v)
           /\ exec[r].cancel => v = "failed"
    <3> WITNESS outcome \in {"passed", "failed"}
    <3> QED
      BY <2>1, <2>4, <2>a, <2>10, <2>11
  <2> QED
    BY <2>0, <2>4, <2>9, <2>10, <2>11, <2>12, <2>14, <2>15 DEF ExecutionStep
<1>10. CASE AbortRun(r)
  <2> DEFINE x == [exec[r] EXCEPT !.phase = "closing", !.ok = FALSE]
  <2>1. x \in Ran /\ x.phase = "closing" /\ ~ x.ok
    BY <1>1 DEF Ran, Phase
  <2>2. exec' = [exec EXCEPT ![r] = x] /\ e.phase = "running"
        /\ UNCHANGED <<results, wire, lost>>
    BY <1>1, <1>10 DEF AbortRun, counters
  <2> HIDE DEF x
  <2>3. /\ exec' \in [Run -> Ran] /\ exec'[r] = x
        /\ \A q \in Run : q # r => exec'[q] = exec[q]
    BY <1>5, <2>1, <2>2
  <2>4. \A q \in Run : InTransit(q)' = InTransit(q)
    BY <2>2 DEF InTransit
  <2> QED
    BY <1>1, <2>1, <2>2, <2>3, <2>4 DEF ExecutionStep
<1>11. CASE FinishCase(r)
  <2> DEFINE outcome == IF e.ok THEN "passed" ELSE "failed"
             answer == Say("answer", 0, outcome)
             two == <<Say("finished", 0, outcome), answer>>
             one == <<answer>>
  <2>1. exec' \in [Run -> Ran] /\ exec'[r].phase = "ended" /\ e.phase = "closing"
        /\ \A q \in Run : q # r => exec'[q] = exec[q]
    BY <1>11, PhaseTyped DEF FinishCase, Typed, Phase
  <2>2. results' = results
    BY <1>11 DEF FinishCase
  <2>3. /\ two \in Seq(Message) /\ one \in Seq(Message)
        /\ \A n \in DOMAIN two : two[n].type \in {"finished", "answer"} /\ two[n].outcome = outcome
        /\ \A n \in DOMAIN one : one[n].type \in {"finished", "answer"} /\ one[n].outcome = outcome
    BY DEF Say, Message, StepStatus
  <2>4. \/ wire' = [wire EXCEPT ![r] = @ \o two] /\ lost' = lost
        \/ wire' = [wire EXCEPT ![r] = Append(@, answer)] /\ lost < MaxLost /\ lost' = lost + 1
    BY <1>11 DEF FinishCase
  <2>5. answer \in Message
    BY DEF Say, Message, StepStatus
  <2>6. Append(wire[r], answer) = wire[r] \o one
    <3> HIDE DEF answer
    <3> QED
      BY <1>1, <2>5
  <2>7. \/ wire' = [wire EXCEPT ![r] = @ \o two] /\ lost' = lost
        \/ wire' = [wire EXCEPT ![r] = @ \o one] /\ lost < MaxLost /\ lost' = lost + 1
    BY <2>4, <2>6
  <2>8. lost' \in 0 .. MaxLost
    BY <1>1, <2>7
  <2>9. outcome = "passed" => e.ok
    OBVIOUS
  <2> HIDE DEF outcome, answer, one, two
  <2>10. /\ wire' \in [Run -> Seq(Message)]
         /\ \A q \in Run : q # r => InTransit(q)' = InTransit(q)
         /\ InTransit(r)' \subseteq InTransit(r) \cup {two[n] : n \in DOMAIN two}
                                             \cup {one[n] : n \in DOMAIN one}
    <3>1. CASE wire' = [wire EXCEPT ![r] = @ \o two]
      BY <1>1, <2>3, <3>1, SpeakingAdds
    <3>2. CASE wire' = [wire EXCEPT ![r] = @ \o one]
      BY <1>1, <2>3, <3>2, SpeakingAdds
    <3> QED
      BY <2>7, <3>1, <3>2
  <2>11. \A m \in InTransit(r)' : m \notin InTransit(r) =>
            m.type \in {"finished", "answer"} /\ m.outcome = outcome
    BY <2>3, <2>10
  <2>12. \A m \in InTransit(r)' : m \notin InTransit(r) =>
           /\ \A i \in Nat : ~ Reports(m, i)
           /\ Claims(m) => e.ok
    BY <2>9, <2>11 DEF Reports, Claims
  <2> QED
    BY <1>1, <2>1, <2>2, <2>8, <2>10, <2>12 DEF ExecutionStep
<1>12. CASE StartFails(r)
  <2> DEFINE x == [exec[r] EXCEPT !.phase = "closing", !.ok = FALSE]
  <2>1. x \in Ran /\ x.phase = "closing" /\ ~ x.ok
    BY <1>1 DEF Ran, Phase
  <2>2. exec' = [exec EXCEPT ![r] = x] /\ e.phase = "starting"
        /\ UNCHANGED <<results, wire, lost>>
    BY <1>1, <1>12 DEF StartFails, counters
  <2> HIDE DEF x
  <2>3. /\ exec' \in [Run -> Ran] /\ exec'[r] = x
        /\ \A q \in Run : q # r => exec'[q] = exec[q]
    BY <1>5, <2>1, <2>2
  <2>4. \A q \in Run : InTransit(q)' = InTransit(q)
    BY <2>2 DEF InTransit
  <2> QED
    BY <1>1, <2>1, <2>2, <2>3, <2>4 DEF ExecutionStep
<1>13. CASE SkipStep(r)
  <2> DEFINE i == e.pos + 1
             m == Say("step", i, "skipped")
             phase == After(r, i, "skipped")
             x == [exec[r] EXCEPT !.phase = phase, !.pos = i]
             row == [results[r] EXCEPT ![i] = "skipped"]
  <2>0. e.phase = "running" /\ i \in Disabled /\ ~ e.cancel
    BY <1>13 DEF SkipStep
  <2>1. i \in Step /\ i \in 0 .. Steps /\ i \in Nat
    BY <1>2, <1>3, <1>4, <2>0 DEF Step
  <2>2. /\ phase \in Phase
        /\ (phase = "running" /\ i # Steps) \/ (phase = "closing" /\ i = Steps)
    BY <2>0 DEF After, Phase
  <2>3. m \in Message /\ m.type = "step" /\ m.at = i /\ m.outcome = "skipped"
    BY <2>1 DEF Say, Message, StepStatus
  <2>4. row \in [Step -> StepStatus] /\ row[i] = "skipped"
    BY <1>1, <2>1 DEF StepStatus
  <2>5. exec' = [exec EXCEPT ![r] = x]
    BY <1>1, <1>13 DEF SkipStep
  <2>6. results' = [results EXCEPT ![r] = row]
    BY <1>1, <1>13 DEF SkipStep
  <2>7. Emit(r, <<m>>)
    BY <1>13 DEF SkipStep
  <2>a. row = [results[r] EXCEPT ![i] = "skipped"]
    OBVIOUS
  <2>b. i = e.pos + 1
    OBVIOUS
  <2> HIDE DEF i, phase, m, row
  <2>8. x \in Ran /\ x.phase = phase /\ x.pos = i /\ x.ok = e.ok
    BY <1>1, <2>1, <2>2 DEF Ran
  <2> HIDE DEF x
  <2>9. /\ exec' \in [Run -> Ran] /\ exec'[r] = x
        /\ \A q \in Run : q # r => exec'[q] = exec[q]
    BY <1>5, <2>5, <2>8
  <2>10. /\ results' \in [Run -> [Step -> StepStatus]] /\ results'[r] = row
         /\ \A q \in Run : q # r => results'[q] = results[q]
    BY <1>1, <2>4, <2>6
  <2>11. <<m>> \in Seq(Message) /\ \A n \in DOMAIN <<m>> : <<m>>[n] = m
    BY <2>3
  <2>12. /\ wire' \in [Run -> Seq(Message)] /\ lost' \in 0 .. MaxLost
         /\ \A q \in Run : q # r => InTransit(q)' = InTransit(q)
         /\ InTransit(r)' \subseteq InTransit(r) \cup {<<m>>[n] : n \in DOMAIN <<m>>}
    BY <1>1, <2>7, <2>11, EmittingAdds
  <2>13. \A y \in InTransit(r)' : y \notin InTransit(r) => y = m
    BY <2>11, <2>12
  <2>14. \A y \in InTransit(r)' : y \notin InTransit(r) =>
           /\ \A j \in Nat : Reports(y, j) => j \in Step /\ Done(r, j)'
           /\ ~ Claims(y)
    BY <2>0, <2>1, <2>3, <2>4, <2>10, <2>13 DEF Reports, Claims, Done
  <2>15. /\ exec'[r].pos = exec[r].pos + 1 /\ exec'[r].pos \in Disabled
         /\ exec'[r].ok = exec[r].ok
         /\ results'[r] = [results[r] EXCEPT ![exec'[r].pos] = "skipped"]
         /\ \/ exec'[r].phase = "running" /\ exec'[r].pos # Steps
            \/ exec'[r].phase = "closing" /\ exec'[r].pos = Steps
    BY <2>0, <2>2, <2>8, <2>9, <2>10, <2>a, <2>b
  <2> QED
    BY <2>0, <2>9, <2>10, <2>12, <2>14, <2>15 DEF ExecutionStep
<1> QED
  BY <1>6, <1>7, <1>8, <1>9, <1>10, <1>11, <1>12, <1>13 DEF Execute

LEMMA OthersRest ==
  ASSUME Typed, NEW q \in Run, Execute(q), NEW r \in Run, r # q
  PROVE  exec'[r] = exec[r] /\ results'[r] = results[r] /\ InTransit(r)' = InTransit(r)
<1>1. ExecutionStep(q)
  BY ExecutionSteps
<1>2. \A x \in Run : x # q => /\ exec'[x] = exec[x] /\ results'[x] = results[x]
                              /\ InTransit(x)' = InTransit(x)
  BY <1>1 DEF ExecutionStep
<1> QED
  BY <1>2

----------------------------------------------------------------------------
(* Types and the order of the steps hold in every step.                    *)

\* Whose execution an operation touches: only the Agent's own steps produce
\* results, the others start, end or cancel an execution.
Untouched(r) ==
  /\ results'[r] = results[r] /\ InTransit(r)' \subseteq InTransit(r)
  /\ \/ exec'[r] = exec[r]
     \/ /\ exec[r].phase \in {"running", "stepping"} /\ exec'[r].phase = exec[r].phase
        /\ exec'[r].pos = exec[r].pos /\ exec'[r].ok = exec[r].ok
     \/ /\ caller[r] = "ready" /\ caller'[r] = "waiting"
        /\ exec'[r].phase = "starting" /\ exec'[r].pos = exec[r].pos
        /\ exec'[r].ok = exec[r].ok
     \/ exec[r].phase # "none" /\ exec'[r].phase = "ended"

LEMMA OnlyExecutionProduces ==
  ASSUME Typed, [Next]_vars, ~ \E q \in Run : Execute(q), NEW r \in Run
  PROVE  Untouched(r)
<1> USE DEF stageVars, agentVars, counters, rowVars, serverVars, Untouched
<1>0. /\ exec \in [Run -> Ran] /\ wire \in [Run -> Seq(Message)]
  BY DEF Typed, TypeOK, Ran
<1>1. CASE UNCHANGED <<exec, results, wire>>
  BY <1>1 DEF InTransit
<1>2. ASSUME NEW q \in Run, Send(q) PROVE Untouched(r)
  <2>1. /\ caller[q] = "ready" /\ caller' = [caller EXCEPT ![q] = "waiting"]
        /\ At(q, "starting") /\ UNCHANGED <<results, wire>>
    BY <1>2 DEF Send, Moved, At
  <2>2. /\ exec'[q].phase = "starting" /\ exec'[q].pos = exec[q].pos /\ exec'[q].ok = exec[q].ok
        /\ \A x \in Run : x # q => exec'[x] = exec[x]
    BY <2>1, PhaseTyped DEF Typed, Phase
  <2>3. caller'[q] = "waiting"
    BY <2>1 DEF Typed, TypeOK
  <2> QED
    BY <2>1, <2>2, <2>3 DEF InTransit
<1>3. ASSUME NEW q \in Run, AgentStops(q) PROVE Untouched(r)
  <2>1. UNCHANGED <<results, wire>>
    BY <1>3 DEF AgentStops
  <2>2. CASE exec[q].phase \in {"running", "stepping"} /\ exec' = [exec EXCEPT ![q].cancel = TRUE]
    <3> DEFINE x == [exec[q] EXCEPT !.cancel = TRUE]
    <3>1. exec' = [exec EXCEPT ![q] = x]
      BY <1>0, <2>2
    <3>2. x.phase = exec[q].phase /\ x.pos = exec[q].pos /\ x.ok = exec[q].ok
      BY <1>0 DEF Ran
    <3> HIDE DEF x
    <3> QED
      BY <1>0, <2>1, <2>2, <3>1, <3>2 DEF InTransit
  <2>3. CASE exec[q].phase = "prepared" /\ At(q, "ended")
    BY <2>1, <2>3, PhaseTyped DEF Typed, Phase, InTransit
  <2> QED
    BY <1>1, <1>3, <2>1, <2>2, <2>3 DEF AgentStops, At
<1>4. ASSUME NEW q \in Run, TakeAnswer(q) \/ ReadEvent(q) PROVE Untouched(r)
  <2>1. /\ wire[q] # <<>> /\ wire' = [wire EXCEPT ![q] = Tail(@)] /\ UNCHANGED <<exec, results>>
    BY <1>4 DEF TakeAnswer, ReadEvent
  <2> QED
    BY <1>0, <2>1, ReadingTakesOne
<1>5. CASE Restart
  BY <1>5 DEF Restart, InTransit
<1>6. ASSUME NEW a \in Agent, Forget(a) PROVE InTransit(r)' \subseteq InTransit(r)
  BY <1>6 DEF Forget, InTransit
<1>7. ASSUME NEW a \in Agent, LinkBreaks(a) PROVE Untouched(r)
  BY <1>6, <1>7 DEF LinkBreaks
<1>8. ASSUME NEW a \in Agent, AgentDies(a) PROVE Untouched(r)
  <2>1. \/ exec'[r] = exec[r]
        \/ exec[r].phase # "none" /\ exec'[r] = [exec[r] EXCEPT !.phase = "ended"]
    BY <1>8 DEF AgentDies
  <2>2. [exec[r] EXCEPT !.phase = "ended"].phase = "ended"
    BY <1>0 DEF Ran
  <2> QED
    BY <1>6, <1>8, <2>1, <2>2 DEF AgentDies
<1>9. ASSUME NEW q \in Run, Request(q) PROVE Untouched(r)
  BY <1>1, <1>2, <1>4, <1>9
  DEF Request, CheckAgent, AddRun, Snapshot, SendFails, StopWaiting, Finalize
<1>10. ASSUME NEW q \in Run, Stop(q) \/ Operator(q) \/ GoQuiet(q) \/ CheckOrphan(q)
       PROVE  Untouched(r)
  BY <1>1, <1>3, <1>10
  DEF Stop, PrepareStop, StopUnanswered, FinalizeCancelled, Operator, CheckApproval,
      CheckRetry, ReportShot, ReportAgain, GoQuiet, CheckOrphan
<1>11. ASSUME NEW t \in txn, Commit(t) PROVE Untouched(r)
  BY <1>1, <1>11
  DEF Commit, Approve, Reject, Retry, AdvanceStage, RecordProgress, RecordFinish, Recover, Reassess
<1> QED
  BY <1>1, <1>4, <1>5, <1>7, <1>8, <1>9, <1>10, <1>11 DEF Next, vars

\* No request goes back to the states before its send.
Unsent == {"idle", "checked", "added", "ready"}

LEMMA CallersGoOn ==
  ASSUME TypeOK, [Next]_vars, NEW r \in Run
  PROVE  /\ caller'[r] \in Unsent => caller[r] \in Unsent
         /\ Early(r)' => Early(r)
<1> DEFINE Kept == /\ caller'[r] \in Unsent => caller[r] \in Unsent
                   /\ Early(r)' => Early(r)
<1> USE DEF stageVars, agentVars, counters, rowVars, serverVars, Unsent, Early
<1>1. caller \in [Run -> CallerState]
  BY DEF TypeOK
<1>2. CASE UNCHANGED caller
  BY <1>2
<1>3. ASSUME NEW q \in Run, Request(q) PROVE Kept
  <2>1. \/ UNCHANGED caller
        \/ \E place \in CallerState : /\ caller' = [caller EXCEPT ![q] = place]
                                      /\ place \in Unsent => caller[q] \in Unsent
                                      /\ place \in {"idle", "checked", "added"} => Early(q)
    BY <1>3
    DEF Request, CheckAgent, AddRun, Snapshot, Send, SendFails, StopWaiting, TakeAnswer,
        Finalize, Moved, CallerState
  <2> QED
    BY <1>1, <1>2, <2>1
<1>4. CASE Restart \/ \E a \in Agent : LinkBreaks(a) \/ AgentDies(a)
  BY <1>1, <1>4 DEF Restart, LinkBreaks, AgentDies
<1>5. ASSUME NEW q \in Run, Stop(q) \/ Operator(q) \/ ReadEvent(q) \/ GoQuiet(q)
                            \/ CheckOrphan(q) \/ Execute(q)
      PROVE  UNCHANGED caller
  BY <1>5
  DEF Stop, PrepareStop, AgentStops, StopUnanswered, FinalizeCancelled, Operator,
      CheckApproval, CheckRetry, ReportShot, ReportAgain, ReadEvent, GoQuiet, CheckOrphan, Execute,
      StartCase, Prepare, StartFails, SkipStep, BeginStep, EndStep, AbortRun, FinishCase
<1>6. ASSUME NEW t \in txn, Commit(t) PROVE UNCHANGED caller
  BY <1>6
  DEF Commit, Approve, Reject, Retry, AdvanceStage, RecordProgress, RecordFinish, Recover, Reassess
<1> QED
  BY <1>2, <1>3, <1>4, <1>5, <1>6 DEF Next, vars

LEMMA TypesKept ==
  ASSUME Typed, ApprovalInv, [Next]_vars
  PROVE  TypeOK'
<1> USE DEF stageVars, agentVars, counters, rowVars, serverVars
<1>0. TypeOK
  BY DEF Typed
<1>1. CASE UNCHANGED vars
  BY <1>0, <1>1 DEF TypeOK, vars
<1>2. ASSUME NEW r \in Run, Execute(r) PROVE TypeOK'
  <2>1. /\ exec' \in [Run -> Ran] /\ results' \in [Run -> [Step -> StepStatus]]
        /\ wire' \in [Run -> Seq(Message)] /\ lost' \in 0 .. MaxLost
    BY <1>2, ExecutionSteps DEF ExecutionStep
  <2>2. UNCHANGED <<status, business, code, agent, steps, quiet, stage, approved, evidence,
                    shots, caller, stopper, seen, txn, stale, retries, crashes>>
    BY <1>2 DEF Execute, StartCase, Prepare, StartFails, SkipStep, BeginStep, EndStep, AbortRun, FinishCase
  <2> QED
    BY <1>0, <2>1, <2>2 DEF TypeOK, Ran
<1>3. ASSUME NEW r \in Run, GoQuiet(r) PROVE TypeOK'
  BY <1>0, <1>3 DEF TypeOK, GoQuiet
<1>4. ASSUME NEW r \in Run, CheckOrphan(r) PROVE TypeOK'
  <2>1. (\A t \in txn' : t \in Txn) /\ stale' \subseteq Run
    BY <1>0, <1>4, ReadTyped DEF CheckOrphan, StepStatus, Ops
  <2> QED
    BY <1>0, <1>4, <2>1 DEF TypeOK, CheckOrphan
<1>5. crashes < MaxCrashes /\ crashes' = crashes + 1 => crashes' \in 0 .. MaxCrashes
  BY <1>0 DEF TypeOK
<1>6. CASE Restart
  <2>1. /\ crashes' \in 0 .. MaxCrashes /\ txn' = {}
        /\ UNCHANGED <<status, business, code, agent, steps, quiet, stage, approved,
                       evidence, shots, stale, exec, results, lost, retries>>
    BY <1>5, <1>6 DEF Restart, Crash
  <2>2. /\ caller' \in [Run -> CallerState] /\ stopper' \in [Run -> StopState]
        /\ seen' \in [Run -> [answer : View, stop : View]]
    BY <1>0, <1>6, NothingTyped DEF Restart, TypeOK, CallerState, StopState
  <2>3. wire' \in [Run -> Seq(Message)]
    <3>1. <<>> \in Seq(Message)
      OBVIOUS
    <3> QED
      BY <1>6, <3>1 DEF Restart
  <2> QED
    BY <1>0, <2>1, <2>2, <2>3 DEF TypeOK
<1>7. ASSUME NEW a \in Agent, Forget(a) PROVE wire' \in [Run -> Seq(Message)]
  <2>1. <<>> \in Seq(Message) /\ wire \in [Run -> Seq(Message)]
    BY <1>0 DEF TypeOK
  <2> QED
    BY <1>7, <2>1 DEF Forget
<1>8. ASSUME NEW a \in Agent, LinkBreaks(a) PROVE TypeOK'
  <2>1. /\ crashes' \in 0 .. MaxCrashes /\ wire' \in [Run -> Seq(Message)]
        /\ UNCHANGED <<status, business, code, agent, steps, quiet, stage, approved,
                       evidence, shots, stopper, seen, txn, stale, exec, results, lost, retries>>
    BY <1>5, <1>7, <1>8 DEF LinkBreaks, Crash
  <2>2. caller' \in [Run -> CallerState]
    BY <1>0, <1>8 DEF LinkBreaks, TypeOK, CallerState
  <2> QED
    BY <1>0, <2>1, <2>2 DEF TypeOK
<1>9. ASSUME NEW a \in Agent, AgentDies(a) PROVE TypeOK'
  <2>1. /\ crashes' \in 0 .. MaxCrashes /\ wire' \in [Run -> Seq(Message)]
        /\ UNCHANGED <<status, business, code, agent, steps, quiet, stage, approved,
                       evidence, shots, caller, stopper, seen, txn, stale, results, lost, retries>>
    BY <1>5, <1>7, <1>9 DEF AgentDies, Crash
  <2>2. \A r \in Run : exec[r] \in Ran /\ [exec[r] EXCEPT !.phase = "ended"] \in Ran
    <3>1. exec \in [Run -> Ran]
      BY <1>0 DEF TypeOK, Ran
    <3> QED
      BY <3>1 DEF Ran, Phase
  <2>3. exec' \in [Run -> Ran]
    BY <1>9, <2>2 DEF AgentDies
  <2> QED
    BY <1>0, <2>1, <2>3 DEF TypeOK, Ran
<1> QED
  BY <1>0, <1>1, <1>2, <1>3, <1>4, <1>6, <1>8, <1>9, RequestTyped, StopTyped, OperatorTyped,
     EventTyped, CommitKeepsTypes
  DEF Next

LEMMA ProgressKept ==
  ASSUME Typed, ApprovalInv, [Next]_vars
  PROVE  Progress' /\ Sent'
<1> SUFFICES ASSUME NEW r \in Run
             PROVE  /\ exec'[r].phase \in {"none", "starting", "prepared"} => exec'[r].pos = 0
                    /\ exec'[r].phase = "running" => exec'[r].pos < Steps
                    /\ exec'[r].phase = "stepping" => exec'[r].pos \in Step \ Disabled
                    /\ \A i \in Step : results'[r][i] \in Good => Done(r, i)'
                    /\ \A i \in Step :
                         \/ /\ exec'[r].phase \in {"none", "starting", "prepared", "running"}
                            /\ exec'[r].pos < i
                         \/ exec'[r].phase = "stepping" /\ exec'[r].pos <= i
                         => results'[r][i] = "none"
                    /\ caller'[r] \in {"idle", "checked", "added", "ready"} =>
                         exec'[r].phase = "none"
  BY DEF Progress, Sent
<1>1. /\ exec[r] \in Ran /\ exec'[r] \in Ran
      /\ results[r] \in [Step -> StepStatus] /\ Steps \in Nat
  BY TypesKept DEF Typed, TypeOK, Ran
<1>2. /\ exec[r].pos \in 0 .. Steps /\ exec'[r].pos \in 0 .. Steps
      /\ exec[r].phase \in Phase /\ exec'[r].phase \in Phase
  BY <1>1 DEF Ran
<1>3. /\ exec[r].phase \in {"none", "starting", "prepared"} => exec[r].pos = 0
      /\ exec[r].phase = "running" => exec[r].pos < Steps
      /\ exec[r].phase = "stepping" => exec[r].pos \in Step \ Disabled
      /\ \A i \in Step :
           \/ /\ exec[r].phase \in {"none", "starting", "prepared", "running"}
              /\ exec[r].pos < i
           \/ exec[r].phase = "stepping" /\ exec[r].pos <= i
           => results[r][i] = "none"
  BY DEF Typed, Progress
<1>a. \A i \in Step : results[r][i] \in Good => Done(r, i)
  BY DEF Typed, Progress
<1>b. results'[r] = results[r] =>
        \A i \in Step : results'[r][i] \in Good => Done(r, i)'
  BY <1>a DEF Done
<1>4. caller[r] \in {"idle", "checked", "added", "ready"} => exec[r].phase = "none"
  BY DEF Typed, Sent
<1>5. caller'[r] \in Unsent => caller[r] \in Unsent
  BY CallersGoOn DEF Typed
<1>6. CASE /\ exec'[r] = exec[r] /\ results'[r] = results[r]
  BY <1>3, <1>4, <1>5, <1>6, <1>b DEF Unsent
<1>7. CASE ~ \E q \in Run : Execute(q)
  <2>1. Untouched(r)
    BY <1>7, OnlyExecutionProduces
  <2>2. CASE /\ exec[r].phase \in {"running", "stepping"} /\ exec'[r].phase = exec[r].phase
             /\ exec'[r].pos = exec[r].pos
    BY <1>3, <1>4, <1>5, <1>b, <2>1, <2>2 DEF Unsent, Untouched
  <2>3. CASE /\ caller[r] = "ready" /\ caller'[r] = "waiting"
             /\ exec'[r].phase = "starting" /\ exec'[r].pos = exec[r].pos
    BY <1>2, <1>3, <1>4, <1>b, <2>1, <2>3 DEF Untouched
  <2>4. CASE exec[r].phase # "none" /\ exec'[r].phase = "ended"
    BY <1>4, <1>5, <1>b, <2>1, <2>4 DEF Unsent, Untouched
  <2> QED
    BY <1>6, <2>1, <2>2, <2>3, <2>4 DEF Untouched
<1>8. ASSUME NEW q \in Run, Execute(q), q # r
      PROVE  exec'[r] = exec[r] /\ results'[r] = results[r]
  BY <1>8, OthersRest
<1>9. CASE Execute(r)
  <2>1. ExecutionStep(r)
    BY <1>9, ExecutionSteps
  <2>2. CASE /\ exec[r].phase = "starting" /\ exec'[r].phase \in {"running", "prepared"}
             /\ exec'[r].pos = exec[r].pos /\ results'[r] = results[r]
    BY <1>1, <1>2, <1>3, <1>4, <1>5, <1>b, <2>2 DEF Unsent
  <2>3. CASE /\ exec[r].phase = "running" /\ exec'[r].phase = "stepping"
             /\ exec'[r].pos = exec[r].pos + 1 /\ exec'[r].pos \notin Disabled
             /\ results'[r] = results[r]
    BY <1>1, <1>2, <1>3, <1>4, <1>5, <1>b, <2>3 DEF Unsent, Step
  <2>4. CASE /\ exec[r].phase = "stepping" /\ exec'[r].pos = exec[r].pos
             /\ \/ exec'[r].phase = "running" /\ exec[r].pos # Steps
                \/ exec'[r].phase = "closing"
             /\ \E outcome \in {"passed", "failed"} :
                  results'[r] = [results[r] EXCEPT ![exec[r].pos] = outcome]
    <3>1. \A i \in Step : i # exec[r].pos => results'[r][i] = results[r][i]
      BY <1>1, <2>4
    <3>2. \A i \in Step : results'[r][i] \in Good => Done(r, i)'
      BY <1>1, <1>3, <1>a, <2>4 DEF Done, Good
    <3> QED
      BY <1>1, <1>2, <1>3, <1>4, <1>5, <2>4, <3>1, <3>2 DEF Unsent, Step
  <2>5. CASE /\ exec[r].phase \in {"starting", "running", "closing"} /\ results'[r] = results[r]
             /\ exec'[r].phase \in {"closing", "ended"}
    BY <1>4, <1>5, <1>b, <2>5 DEF Unsent
  <2>6. CASE /\ exec[r].phase = "running" /\ exec'[r].pos = exec[r].pos + 1
             /\ exec'[r].pos \in Disabled
             /\ results'[r] = [results[r] EXCEPT ![exec'[r].pos] = "skipped"]
             /\ \/ exec'[r].phase = "running" /\ exec'[r].pos # Steps
                \/ exec'[r].phase = "closing" /\ exec'[r].pos = Steps
    <3>1. \A i \in Step : i # exec'[r].pos => results'[r][i] = results[r][i]
      BY <1>1, <2>6
    <3>2. \A i \in Step : results'[r][i] \in Good => Done(r, i)'
      BY <1>1, <1>3, <1>a, <2>6 DEF Done, Good
    <3>3. \A i \in Step : exec'[r].pos < i => results'[r][i] = "none"
      BY <1>1, <1>2, <1>3, <2>6, <3>1 DEF Step
    <3>4. caller'[r] \notin Unsent
      BY <1>4, <1>5, <2>6 DEF Unsent
    <3>5. exec'[r].phase = "running" => exec'[r].pos < Steps
      BY <1>1, <1>2, <2>6
    <3> QED
      BY <2>6, <3>2, <3>3, <3>4, <3>5 DEF Unsent
  <2> QED
    BY <2>1, <2>2, <2>3, <2>4, <2>5, <2>6 DEF ExecutionStep
<1> QED
  BY <1>6, <1>7, <1>8, <1>9

LEMMA TypedStep == Typed /\ ApprovalInv /\ [Next]_vars => Typed'
BY TypesKept, ProgressKept DEF Typed

LEMMA ApprovalsHold == Spec => []ApprovalInv
BY InitApprovals, ApprovalStep, PTL DEF Spec

LEMMA TypedHolds == Spec => [](Typed /\ ApprovalInv)
<1>1. Init => Typed /\ ApprovalInv
  BY InitTyped, InitApprovals
<1>2. (Typed /\ ApprovalInv) /\ [Next]_vars => (Typed /\ ApprovalInv)'
  BY TypedStep, ApprovalStep
<1> QED
  BY <1>1, <1>2, PTL DEF Spec

\* Rows, transactions, executions and messages keep their types in every
\* interleaving, which needs the order in which an execution takes its steps:
\* none begins behind the last, and none is executed before it is sent.
THEOREM TypesHold == Spec => []TypeOK
<1>1. Typed /\ ApprovalInv => TypeOK
  BY DEF Typed
<1> QED
  BY <1>1, TypedHolds, PTL

----------------------------------------------------------------------------
(* Where a change of a stage row and where a transaction come from.        *)

StageCause(r, k) ==
  \/ /\ caller[r] = "added" /\ caller'[r] = "ready"
     /\ \A j \in Stage : stage'[r][j] \in StageOpen
  \/ \E t \in txn :
       /\ t.run = r /\ t \notin txn' /\ NoteStale(t)
       /\ \/ t.op = "approve" /\ t.at = k /\ stage'[r][k] = "PENDING"
          \/ t.op = "reject" /\ t.at = k /\ stage'[r][k] = "CANCELLED"
          \/ t.op = "retry" /\ t.at = k /\ stage'[r][k] \in StageOpen
          \/ /\ t.op = "step" /\ stage'[r][k] # "none"
             /\ \/ /\ k = Target(r, t.at) /\ ~ Closed(t.was[k]) /\ stage'[r][k] = Judge(t)
                \/ /\ k # Target(r, t.at) /\ t.was[k] \in StageOpen /\ stage'[r][k] = "SKIPPED"
          \/ /\ t.op = "recover" /\ t.was[k] \in StageOpen \cup {"RUNNING"}
             /\ stage'[r][k] \in {"FAILED", "SKIPPED"}

LEMMA CommitMovesStages ==
  ASSUME TypeOK, NEW t \in txn, Commit(t), NEW r \in Run, NEW k \in Stage,
         stage'[r][k] # stage[r][k]
  PROVE  StageCause(r, k)
<1> USE DEF stageVars
<1>1. /\ t \in Txn /\ t.run \in Run /\ stage \in [Run -> [Stage -> StageStatus]]
      /\ stage[t.run] \in [Stage -> StageStatus]
  BY DEF TypeOK, Txn
<1>0. t \notin txn'
  <2>1. CASE Committed(t)
    BY <2>1 DEF Committed
  <2>2. CASE GoOn(t) /\ t.op = "step"
    <3>1. Whole(t)
      BY <1>1, TxnFields
    <3>2. PICK new : txn' = (txn \ {t}) \cup {new} /\ new.op = "progress"
      BY <2>2, <3>1, GoingOnAdds
    <3> QED
      BY <2>2, <3>2
  <2> QED
    BY <2>1, <2>2
    DEF Commit, Approve, Reject, Retry, AdvanceStage, RecordProgress, RecordFinish, Recover, Reassess
<1>a. Approve(t) \/ Reject(t) \/ Retry(t) \/ AdvanceStage(t) \/ Recover(t) => NoteStale(t)
  BY DEF Approve, Reject, Retry, AdvanceStage, Recover
<1>2. CASE Approve(t) \/ Reject(t) \/ Retry(t)
  <2>1. \E s \in StageOpen \cup {"CANCELLED"} :
          /\ StageSet(t.run, t.at, s)
          /\ \/ t.op = "approve" /\ s = "PENDING"
             \/ t.op = "reject" /\ s = "CANCELLED"
             \/ t.op = "retry" /\ s \in StageOpen
    BY <1>2 DEF Approve, Reject, Retry, AskAgain, StageOpen
  <2>2. PICK s \in StageOpen \cup {"CANCELLED"} :
          /\ StageSet(t.run, t.at, s)
          /\ \/ t.op = "approve" /\ s = "PENDING"
             \/ t.op = "reject" /\ s = "CANCELLED"
             \/ t.op = "retry" /\ s \in StageOpen
    BY <2>1
  <2>3. r = t.run /\ k = t.at /\ stage'[r][k] = s
    BY <1>1, <2>2, StageRowTyped DEF StageStatus, StageOpen, StageEnded
  <2> QED
    BY <1>0, <1>2, <1>a, <2>2, <2>3 DEF StageCause
<1>3. CASE AdvanceStage(t)
  <2> DEFINE j == Target(t.run, t.at)
             s == IF t.was[j] = "RUNNING" THEN stage[t.run][j] ELSE "RUNNING"
  <2>1. t.op = "step" /\ ~ Closed(t.was[j]) /\ Judge(t) \in {"SUCCESS", "FAILED", "RUNNING"}
    BY <1>3 DEF AdvanceStage, Judge, StageVerdict
  <2>2. CASE Judge(t) = "RUNNING" /\ StageSet(t.run, j, s)
    <3>1. /\ stage'[r] # stage[r] => r = t.run
          /\ r = t.run => stage'[r] = [stage[t.run] EXCEPT ![j] = s]
      <4> DEFINE row == [stage[t.run] EXCEPT ![j] = s]
      <4>1. stage' = [stage EXCEPT ![t.run] = row]
        BY <2>2 DEF StageSet
      <4> HIDE DEF row, s, j
      <4> QED
        BY <1>1, <4>1 DEF row
    <3>2. r = t.run /\ k = j /\ stage'[r][k] = s
      <4> HIDE DEF s, j
      <4> QED
        BY <1>1, <3>1
    <3>3. s = "RUNNING"
      BY <3>2
    <3> QED
      BY <1>0, <1>3, <1>a, <2>1, <2>2, <3>2, <3>3 DEF StageCause
  <2>3. CASE /\ Judge(t) # "RUNNING"
             /\ stage' = [stage EXCEPT ![t.run] = Judged(t, j, Judge(t), @)]
    <3> HIDE DEF j
    <3> DEFINE row == [i \in Stage |->
                        IF i = j THEN Judge(t)
                        ELSE IF Judge(t) = "FAILED" /\ i > j /\ t.was[i] \in StageOpen
                          THEN "SKIPPED" ELSE stage[t.run][i]]
    <3>1. stage' = [stage EXCEPT ![t.run] = row]
      BY <2>3 DEF Judged
    <3>2. row[k] = IF k = j THEN Judge(t)
                   ELSE IF Judge(t) = "FAILED" /\ k > j /\ t.was[k] \in StageOpen
                     THEN "SKIPPED" ELSE stage[t.run][k]
      OBVIOUS
    <3> HIDE DEF row
    <3>3. r = t.run /\ stage'[r][k] = row[k]
      BY <1>1, <3>1
    <3>4. \/ k = j /\ stage'[r][k] = Judge(t)
          \/ k # j /\ t.was[k] \in StageOpen /\ stage'[r][k] = "SKIPPED"
      BY <3>2, <3>3
    <3>5. stage'[r][k] # "none"
      BY <2>1, <3>4
    <3> QED
      BY <1>0, <1>3, <1>a, <2>1, <3>3, <3>4, <3>5 DEF StageCause, j
  <2> QED
    BY <1>3, <2>1, <2>2, <2>3 DEF AdvanceStage
<1>4. CASE Recover(t)
  <2> DEFINE closed == CloseStages(t, stage[t.run])
  <2>1. stage' = [stage EXCEPT ![t.run] = closed] /\ t.op = "recover"
    BY <1>4 DEF Recover
  <2>2. closed[k] = IF t.was[k] = "RUNNING" THEN "FAILED"
                            ELSE IF t.was[k] \in StageOpen THEN "SKIPPED"
                            ELSE stage[t.run][k]
    BY DEF CloseStages
  <2> HIDE DEF closed
  <2>3. r = t.run /\ stage'[r][k] = closed[k]
    BY <1>1, <2>1
  <2> QED
    BY <1>0, <1>4, <1>a, <2>1, <2>2, <2>3 DEF StageCause
<1>5. CASE RecordProgress(t) \/ RecordFinish(t) \/ Reassess(t)
  BY <1>5 DEF RecordProgress, RecordFinish, Reassess
<1> QED
  BY <1>2, <1>3, <1>4, <1>5 DEF Commit

LEMMA StagesMoveForAReason ==
  ASSUME TypeOK, [Next]_vars, NEW r \in Run, NEW k \in Stage, stage'[r][k] # stage[r][k]
  PROVE  StageCause(r, k)
<1> USE DEF stageVars
<1>1. UNCHANGED stage => FALSE
  OBVIOUS
<1>2. ASSUME NEW q \in Run, Snapshot(q) PROVE StageCause(r, k)
  <2> DEFINE row == [j \in Stage |-> IF j \in WriteStages THEN "WAITING_APPROVAL" ELSE "PENDING"]
  <2>1. /\ stage' = [stage EXCEPT ![q] = row] /\ caller[q] = "added"
        /\ caller' = [caller EXCEPT ![q] = "ready"]
    BY <1>2 DEF Snapshot, Moved
  <2>2. \A j \in Stage : row[j] \in StageOpen
    BY DEF StageOpen
  <2> HIDE DEF row
  <2>3. q = r /\ stage'[r] = row /\ caller'[r] = "ready"
    BY <2>1 DEF TypeOK
  <2> QED
    BY <2>1, <2>2, <2>3 DEF StageCause
<1>3. ASSUME NEW q \in Run, Request(q) PROVE Snapshot(q) \/ UNCHANGED stage
  BY <1>3
  DEF Request, CheckAgent, AddRun, Send, SendFails, StopWaiting, TakeAnswer, Finalize
<1>4. ASSUME NEW q \in Run, Stop(q) \/ Operator(q) \/ ReadEvent(q) \/ GoQuiet(q)
                            \/ CheckOrphan(q) \/ Execute(q)
      PROVE  UNCHANGED stage
  BY <1>4
  DEF Stop, PrepareStop, AgentStops, StopUnanswered, FinalizeCancelled, Operator,
      CheckApproval, CheckRetry, ReportShot, ReportAgain, ReadEvent, GoQuiet, CheckOrphan, Execute,
      StartCase, Prepare, StartFails, SkipStep, BeginStep, EndStep, AbortRun, FinishCase
<1>5. Restart \/ (\E a \in Agent : LinkBreaks(a) \/ AgentDies(a)) => UNCHANGED stage
  BY DEF Restart, LinkBreaks, AgentDies
<1>6. ~ UNCHANGED vars
  BY DEF vars
<1> QED
  BY <1>1, <1>2, <1>3, <1>4, <1>5, <1>6, CommitMovesStages DEF Next

\* A transaction that was not there has just read its rows, or is the second
\* one of the handler of a step event.
JustRead(x) ==
  /\ x.ran = status[x.run]
  /\ x.was = IF x.op = "progress" THEN NoStages ELSE stage[x.run]
  /\ x.had = IF x.op \in {"step", "progress"} THEN steps[x.run] ELSE NoSteps
  /\ x.saw \in {NotSeen, SeenNow(x.run)}
  /\ UNCHANGED <<rowVars, stageVars, caller, exec, results>>
  /\ \/ /\ x.op \in {"approve", "reject"} /\ x.at \in Stage
        /\ stage[x.run][x.at] = "WAITING_APPROVAL"
     \/ /\ x.op = "retry" /\ x.at \in Stage
        /\ stage[x.run][x.at] = "FAILED" /\ status[x.run] \notin Ended
     \/ x.op = "recover" /\ status[x.run] = "RUNNING" /\ x.run \in quiet
     \/ x.op = "report" /\ x.at \in Stage /\ shots[x.run][x.at] # "none"
     \/ /\ x.op \in EventOp /\ status[x.run] \notin Ended
        /\ \E m \in InTransit(x.run) :
             /\ x.at = m.at /\ x.outcome = m.outcome
             /\ x.op \in {"step", "progress"} => m.type \in {"status", "step"}
             /\ x.op = "finished" => m.type = "finished"

SecondOf(x) ==
  \E t \in txn : /\ t.op = "step" /\ x.op = "progress" /\ x.run = t.run /\ x.at = t.at
                 /\ x.outcome = t.outcome /\ x.was = NoStages /\ x.had = t.had
                 /\ x.saw = NotSeen

LEMMA ReadsItsRows ==
  ASSUME TypeOK, NEW op, NEW r \in Run, NEW at, NEW outcome, Read(op, r, at, outcome),
         NEW x \in txn', x \notin txn
  PROVE  /\ x.op = op /\ x.run = r /\ x.at = at /\ x.outcome = outcome
         /\ x.ran = status[r]
         /\ x.was = IF op = "progress" THEN NoStages ELSE stage[r]
         /\ x.had = IF op \in {"step", "progress"} THEN steps[r] ELSE NoSteps
         /\ x.saw \in {NotSeen, SeenNow(r)}
BY ReadingAdds

LEMMA TransactionsReadFirst ==
  ASSUME TypeOK, [Next]_vars, NEW x \in txn', x \notin txn
  PROVE  JustRead(x) \/ SecondOf(x)
<1> USE DEF agentVars, counters
<1>a. ASSUME NEW r \in Run, NEW k \in Stage, ReportAgain(r, k) PROVE JustRead(x)
  BY <1>a, ReadsItsRows DEF ReportAgain, JustRead
<1>1. ASSUME NEW r \in Run, NEW k \in Stage, NEW verdict \in {"approve", "reject"},
             CheckApproval(r, k, verdict)
      PROVE  JustRead(x)
  BY <1>1, ReadsItsRows DEF CheckApproval, JustRead
<1>2. ASSUME NEW r \in Run, NEW k \in Stage, CheckRetry(r, k) PROVE JustRead(x)
  BY <1>2, ReadsItsRows DEF CheckRetry, JustRead
<1>3. ASSUME NEW r \in Run, CheckOrphan(r) PROVE JustRead(x)
  BY <1>3, ReadsItsRows DEF CheckOrphan, JustRead
<1>4. ASSUME NEW r \in Run, ReadEvent(r) PROVE JustRead(x)
  <2> DEFINE m == Head(wire[r])
  <2>1. /\ Welcome(r, m) /\ Read(Handled[m.type], r, m.at, m.outcome)
        /\ UNCHANGED <<rowVars, stageVars, caller, exec, results>>
    BY <1>4 DEF ReadEvent
  <2>2. m \in InTransit(r)
    BY <1>4, ReadingTakesOne DEF ReadEvent, TypeOK
  <2>3. /\ status[r] \notin Ended
        /\ \/ m.type = "status" /\ Handled[m.type] = "progress"
           \/ m.type = "step" /\ Handled[m.type] = "step"
           \/ m.type = "finished" /\ Handled[m.type] = "finished"
    BY <2>1 DEF Welcome, Handled
  <2> HIDE DEF m
  <2>4. /\ x.op = Handled[m.type] /\ x.run = r /\ x.at = m.at /\ x.outcome = m.outcome
        /\ x.ran = status[r]
        /\ x.was = IF x.op = "progress" THEN NoStages ELSE stage[r]
        /\ x.had = IF x.op \in {"step", "progress"} THEN steps[r] ELSE NoSteps
        /\ x.saw \in {NotSeen, SeenNow(r)}
    BY <2>1, ReadsItsRows
  <2> QED
    BY <2>1, <2>2, <2>3, <2>4 DEF JustRead, EventOp
<1>5. ASSUME NEW t \in txn, Commit(t) PROVE SecondOf(x)
  <2>1. \/ Committed(t)
        \/ t.op = "step" /\ GoOn(t)
    BY <1>5
    DEF Commit, Approve, Reject, Retry, AdvanceStage, RecordProgress, RecordFinish, Recover, Reassess
  <2>2. Whole(t)
    BY TxnFields DEF TypeOK
  <2>3. t.op = "step" /\ GoOn(t)
    BY <2>1 DEF Committed
  <2>4. PICK new : /\ txn' = (txn \ {t}) \cup {new}
                   /\ new.op = "progress" /\ new.run = t.run /\ new.at = t.at
                   /\ new.outcome = t.outcome /\ new.was = NoStages /\ new.had = t.had
                   /\ new.saw = NotSeen
    BY <2>2, <2>3, GoingOnAdds
  <2> QED
    BY <2>3, <2>4 DEF SecondOf
<1>6. ~ (txn' \subseteq txn)
  OBVIOUS
<1>7. ASSUME NEW r \in Run, Request(r) \/ Stop(r) \/ GoQuiet(r) \/ Execute(r) PROVE UNCHANGED txn
  BY <1>7
  DEF Request, CheckAgent, AddRun, Snapshot, Send, SendFails, StopWaiting, TakeAnswer,
      Finalize, Stop, PrepareStop, AgentStops, StopUnanswered, FinalizeCancelled, GoQuiet,
      Execute, StartCase, Prepare, StartFails, SkipStep, BeginStep, EndStep, AbortRun, FinishCase, serverVars
<1>8. ASSUME NEW r \in Run, NEW k \in Stage, ReportShot(r, k) PROVE UNCHANGED txn
  BY <1>8 DEF ReportShot, serverVars
<1>9. Restart \/ (\E a \in Agent : LinkBreaks(a) \/ AgentDies(a)) => txn' \subseteq txn
  BY DEF Restart, LinkBreaks, AgentDies, serverVars
<1>10. UNCHANGED vars => UNCHANGED txn
  BY DEF vars, serverVars
<1> QED
  BY <1>a, <1>1, <1>2, <1>3, <1>4, <1>5, <1>6, <1>7, <1>8, <1>9, <1>10 DEF Next, Operator

\* Step results are written from the Agent's results, or from what a
\* transaction has read and its event reports.
LEMMA StepResultsComeFromReports ==
  ASSUME TypeOK, [Next]_vars, NEW r \in Run
  PROVE  \/ steps'[r] = steps[r]
         \/ steps'[r] = results[r] /\ UNCHANGED results
         \/ \E t \in txn :
              /\ t.op = "progress" /\ t.run = r /\ UNCHANGED results
              /\ steps'[r] = IF t.at \in Step THEN [t.had EXCEPT ![t.at] = t.outcome]
                             ELSE t.had
<1> USE DEF rowVars, agentVars
<1>1. CASE UNCHANGED steps
  BY <1>1
<1>2. steps \in [Run -> [Step -> StepStatus]] /\ \A t \in txn : t.run \in Run
  BY DEF TypeOK, Txn
<1>3. ASSUME NEW q \in Run, Finalize(q)
      PROVE  steps'[r] = steps[r] \/ (steps'[r] = results[r] /\ UNCHANGED results)
  <2>1. UNCHANGED results /\ (UNCHANGED steps \/ steps' = [steps EXCEPT ![q] = results[q]])
    BY <1>3 DEF Finalize
  <2> QED
    BY <1>2, <2>1
<1>4. ASSUME NEW t \in txn, RecordFinish(t)
      PROVE  steps'[r] = steps[r] \/ (steps'[r] = results[r] /\ UNCHANGED results)
  <2>1. UNCHANGED results /\ steps' = [steps EXCEPT ![t.run] = results[t.run]]
    BY <1>4 DEF RecordFinish
  <2> QED
    BY <1>2, <2>1
<1>5. ASSUME NEW t \in txn, RecordProgress(t)
      PROVE  \/ steps'[r] = steps[r]
             \/ /\ t.op = "progress" /\ t.run = r /\ UNCHANGED results
                /\ steps'[r] = IF t.at \in Step THEN [t.had EXCEPT ![t.at] = t.outcome]
                               ELSE t.had
  <2> DEFINE row == IF t.at \in Step THEN [t.had EXCEPT ![t.at] = t.outcome] ELSE t.had
  <2>1. t.op = "progress" /\ UNCHANGED results /\ steps' = [steps EXCEPT ![t.run] = row]
    BY <1>5 DEF RecordProgress
  <2> HIDE DEF row
  <2>2. steps'[r] = steps[r] \/ (t.run = r /\ steps'[r] = row)
    BY <1>2, <2>1
  <2> QED
    BY <2>1, <2>2 DEF row
<1>6. ASSUME NEW q \in Run, Request(q) \/ Stop(q) \/ Operator(q) \/ ReadEvent(q) \/ GoQuiet(q)
                            \/ CheckOrphan(q) \/ Execute(q)
      PROVE  Finalize(q) \/ UNCHANGED steps
  BY <1>6
  DEF Request, CheckAgent, AddRun, Snapshot, Send, SendFails, StopWaiting, TakeAnswer,
      Stop, PrepareStop, AgentStops, StopUnanswered, FinalizeCancelled, Operator,
      CheckApproval, CheckRetry, ReportShot, ReportAgain, ReadEvent, GoQuiet, CheckOrphan, Execute,
      StartCase, Prepare, StartFails, SkipStep, BeginStep, EndStep, AbortRun, FinishCase
<1>7. Restart \/ (\E a \in Agent : LinkBreaks(a) \/ AgentDies(a)) => UNCHANGED steps
  BY DEF Restart, LinkBreaks, AgentDies
<1>8. ASSUME NEW t \in txn, Commit(t)
      PROVE  RecordFinish(t) \/ RecordProgress(t) \/ UNCHANGED steps
  BY <1>8 DEF Commit, Approve, Reject, Retry, AdvanceStage, Recover, Reassess
<1> QED
  BY <1>1, <1>3, <1>4, <1>5, <1>6, <1>7, <1>8 DEF Next, vars

----------------------------------------------------------------------------
(* Whatever reports a step as done, the Agent has done it: messages, the   *)
(* row of the run, and what the transactions have read of both.            *)

Passed(r, i) == i \in Step /\ Done(r, i)

Reported ==
  /\ \A r \in Run :
       /\ \A i \in Step : steps[r][i] \in Good => Passed(r, i)
       /\ \A m \in InTransit(r), i \in Nat : Reports(m, i) => Passed(r, i)
  /\ \A t \in txn :
       /\ \A i \in Step : t.had[i] \in Good => Passed(t.run, i)
       /\ t.op \in {"step", "progress"} /\ t.outcome \in Good => Passed(t.run, t.at)

\* No step that is done is executed again.
LEMMA PassedStands ==
  ASSUME Typed, [Next]_vars, NEW r \in Run, NEW i, Passed(r, i)
  PROVE  Passed(r, i)'
<1>1. CASE ~ \E q \in Run : Execute(q)
  BY <1>1, OnlyExecutionProduces DEF Untouched, Passed, Done
<1>2. ASSUME NEW q \in Run, Execute(q), q # r PROVE Passed(r, i)'
  BY <1>2, OthersRest DEF Passed, Done
<1>3. CASE Execute(r)
  <2>0. /\ ExecutionStep(r) /\ results[r] \in [Step -> StepStatus]
        /\ exec[r].pos \in 0 .. Steps /\ exec'[r].pos \in 0 .. Steps /\ Steps \in Nat
    <3>1. ExecutionStep(r)
      BY <1>3, ExecutionSteps
    <3>2. exec \in [Run -> Ran] /\ exec' \in [Run -> Ran]
      BY <3>1 DEF ExecutionStep, Typed, TypeOK, Ran
    <3>3. results[r] \in [Step -> StepStatus] /\ Steps \in Nat
      BY DEF Typed, TypeOK
    <3> QED
      BY <3>1, <3>2, <3>3 DEF Ran
  <2>1. ASSUME NEW p \in Step, results[r][p] = "none",
               NEW v, results'[r] = [results[r] EXCEPT ![p] = v]
        PROVE  Passed(r, i)'
    BY <2>0, <2>1 DEF Passed, Done
  <2>2. CASE results'[r] = results[r]
    BY <2>2 DEF Passed, Done
  <2>3. CASE /\ exec[r].phase = "stepping"
             /\ \E outcome \in {"passed", "failed"} :
                  results'[r] = [results[r] EXCEPT ![exec[r].pos] = outcome]
    <3>1. exec[r].pos \in Step
      BY <2>3 DEF Typed, Progress
    <3>2. results[r][exec[r].pos] = "none"
      BY <2>3, <3>1 DEF Typed, Progress, Step
    <3> QED
      BY <2>1, <2>3, <3>1, <3>2
  <2>4. CASE /\ exec[r].phase = "running" /\ exec'[r].pos = exec[r].pos + 1
             /\ results'[r] = [results[r] EXCEPT ![exec'[r].pos] = "skipped"]
    <3>1. exec'[r].pos \in Step /\ exec[r].pos < exec'[r].pos
      BY <2>0, <2>4 DEF Step
    <3>2. results[r][exec'[r].pos] = "none"
      BY <2>4, <3>1 DEF Typed, Progress
    <3> QED
      BY <2>1, <2>4, <3>1, <3>2
  <2> QED
    BY <2>0, <2>2, <2>3, <2>4 DEF ExecutionStep
<1> QED
  BY <1>1, <1>2, <1>3

LEMMA ReportedInit == Init => Reported
<1> SUFFICES ASSUME Init PROVE Reported
  OBVIOUS
<1>1. \A r \in Run : wire[r] = <<>> /\ steps[r] = NoSteps
  BY DEF Init
<1>2. \A r \in Run : InTransit(r) = {} /\ \A i \in Step : steps[r][i] = "none"
  BY <1>1 DEF InTransit, NoSteps
<1> QED
  BY <1>2 DEF Init, Reported, Good

LEMMA ReportedStep == Typed /\ ApprovalInv /\ Reported /\ [Next]_vars => Reported'
<1> SUFFICES ASSUME Typed, ApprovalInv, Reported, [Next]_vars PROVE Reported'
  OBVIOUS
<1>1. TypeOK
  BY DEF Typed
<1>2. \A r \in Run : \A i : Passed(r, i) => Passed(r, i)'
  BY PassedStands
<1>3. \A t \in txn : t \in Txn /\ t.run \in Run /\ t.had \in [Step -> StepStatus]
  BY <1>1 DEF TypeOK, Txn
<1>4. ASSUME NEW r \in Run, NEW i \in Step, steps'[r][i] \in Good PROVE Passed(r, i)'
  <2>1. CASE steps'[r] = steps[r]
    BY <1>2, <1>4, <2>1 DEF Reported
  <2>2. CASE steps'[r] = results[r]
    <3>1. Done(r, i)
      BY <1>4, <2>2 DEF Typed, Progress
    <3> QED
      BY <1>2, <3>1 DEF Passed
  <2>3. ASSUME NEW t \in txn, t.op = "progress", t.run = r,
               steps'[r] = IF t.at \in Step THEN [t.had EXCEPT ![t.at] = t.outcome] ELSE t.had
        PROVE  Passed(r, i)'
    <3>1. t.had[i] \in Good \/ (t.at = i /\ t.outcome \in Good)
      BY <1>3, <1>4, <2>3
    <3> QED
      BY <1>2, <2>3, <3>1 DEF Reported
  <2> QED
    BY <1>1, <2>1, <2>2, <2>3, StepResultsComeFromReports
<1>5. ASSUME NEW r \in Run, NEW m \in InTransit(r)', NEW i \in Nat, Reports(m, i)
      PROVE  Passed(r, i)'
  <2>1. CASE m \in InTransit(r)
    BY <1>2, <1>5, <2>1 DEF Reported
  <2>2. CASE m \notin InTransit(r)
    <3>1. CASE ~ \E q \in Run : Execute(q)
      BY <1>5, <2>2, <3>1, OnlyExecutionProduces DEF Untouched
    <3>2. ASSUME NEW q \in Run, Execute(q), q # r PROVE FALSE
      BY <1>5, <2>2, <3>2, OthersRest
    <3>3. CASE Execute(r)
      <4>1. ExecutionStep(r)
        BY <3>3, ExecutionSteps
      <4>2. i \in Step /\ Done(r, i)'
        BY <1>5, <2>2, <4>1 DEF ExecutionStep
      <4> QED
        BY <4>2 DEF Passed
    <3> QED
      BY <3>1, <3>2, <3>3
  <2> QED
    BY <2>1, <2>2
<1>6. ASSUME NEW x \in txn'
      PROVE  /\ \A i \in Step : x.had[i] \in Good => Passed(x.run, i)'
             /\ x.op \in {"step", "progress"} /\ x.outcome \in Good => Passed(x.run, x.at)'
  <2>1. CASE x \in txn
    BY <1>2, <1>3, <2>1 DEF Reported
  <2>2. CASE SecondOf(x)
    <3>1. PICK t \in txn : /\ t.op = "step" /\ x.op = "progress" /\ x.run = t.run /\ x.at = t.at
                           /\ x.outcome = t.outcome /\ x.had = t.had
      BY <2>2 DEF SecondOf
    <3>2. /\ \A i \in Step : t.had[i] \in Good => Passed(t.run, i)
          /\ t.outcome \in Good => Passed(t.run, t.at)
      BY <3>1 DEF Reported
    <3> QED
      BY <1>2, <1>3, <3>1, <3>2
  <2>3. CASE JustRead(x)
    <3>1. x.run \in Run /\ x.at \in Nat
      BY TypesKept DEF TypeOK, Txn
    <3>2. \A i \in Step : x.had[i] \in Good => Passed(x.run, i)
      <4>1. x.had = steps[x.run] \/ x.had = NoSteps
        BY <2>3 DEF JustRead
      <4>2. \A i \in Step : NoSteps[i] \notin Good
        BY DEF NoSteps, Good
      <4> QED
        BY <3>1, <4>1, <4>2 DEF Reported
    <3>3. ASSUME x.op \in {"step", "progress"}, x.outcome \in Good PROVE Passed(x.run, x.at)
      <4>1. PICK m \in InTransit(x.run) :
              x.at = m.at /\ x.outcome = m.outcome /\ m.type \in {"status", "step"}
        BY <2>3, <3>3 DEF JustRead
      <4> QED
        BY <3>1, <3>3, <4>1 DEF Reported, Reports
    <3> QED
      BY <1>2, <3>1, <3>2, <3>3
  <2> QED
    BY <1>1, <2>1, <2>2, <2>3, TransactionsReadFirst
<1> QED
  BY <1>4, <1>5, <1>6 DEF Reported

\* The first step of the stage that is not known to be done decides: if there
\* is none, each is known to be, or the one whose report counts for it.
LEMMA SuccessNeedsEveryStep ==
  ASSUME NEW t \in Txn, NEW k \in Stage, t.outcome \in Good, t.at \in Step,
         StageVerdict(t, k) = "SUCCESS", NEW i \in Step, StageOf[i] = k
  PROVE  \E j \in Step : i \in TakenFor(t.run, j) /\ (j = t.at \/ t.had[j] \in Good)
<1> DEFINE open == {j \in Step : StageOf[j] = k /\ Latest(t, j) \notin Good}
<1>1. open = {}
  BY DEF StageVerdict
<1>2. Latest(t, i) \in Good
  BY <1>1
<1>3. i \in TakenFor(t.run, i)
  BY DEF TakenFor
<1>4. CASE i \in TakenFor(t.run, t.at)
  BY <1>4
<1>5. CASE t.had[i] \in Good
  BY <1>3, <1>5
<1>6. CASE i \notin TakenFor(t.run, t.at) /\ t.had[i] \notin Good
  <2>1. t.run \notin Identified /\ i # 1 /\ t.had[i - 1] \in Good
    BY <1>2, <1>6 DEF Latest
  <2>2. i - 1 \in Step /\ i \in {i - 1, (i - 1) + 1} \cap Step
    BY <2>1 DEF Step
  <2>3. i \in TakenFor(t.run, i - 1)
    BY <2>1, <2>2 DEF TakenFor
  <2> QED
    BY <2>1, <2>2, <2>3
<1> QED
  BY <1>4, <1>5, <1>6

Earned == Typed /\ ApprovalInv /\ Reported /\ StageSuccessMeansItsSteps

LEMMA EarnedStep == Earned /\ [Next]_vars => Earned'
<1> SUFFICES ASSUME Earned, [Next]_vars PROVE Earned'
  OBVIOUS
<1>0. Typed /\ ApprovalInv /\ Reported /\ TypeOK
  BY DEF Earned, Typed
<1>1. Typed' /\ ApprovalInv' /\ Reported'
  BY <1>0, TypedStep, ApprovalStep, ReportedStep
<1>2. ASSUME NEW r \in Run, NEW k \in Stage, stage'[r][k] = "SUCCESS",
             NEW i \in Step, StageOf[i] = k
      PROVE  \E j \in Step : i \in TakenFor(r, j) /\ Passed(r, j)
  <2>1. CASE stage[r][k] = "SUCCESS"
    BY <1>2, <2>1 DEF Earned, StageSuccessMeansItsSteps, Passed
  <2>2. CASE stage[r][k] # "SUCCESS"
    <3>1. StageCause(r, k)
      BY <1>0, <1>2, <2>2, StagesMoveForAReason
    <3>2. PICK t \in txn : /\ t.run = r /\ t.op = "step" /\ k = Target(r, t.at)
                           /\ Judge(t) = "SUCCESS"
      BY <1>2, <3>1 DEF StageCause, StageOpen
    <3>3. t \in Txn /\ t.outcome \in Good /\ StageVerdict(t, k) = "SUCCESS"
      BY <1>0, <3>2 DEF Judge, TypeOK
    <3>4. Passed(r, t.at)
      BY <1>0, <3>2, <3>3 DEF Reported
    <3>5. PICK j \in Step : i \in TakenFor(r, j) /\ (j = t.at \/ t.had[j] \in Good)
      BY <1>2, <3>2, <3>3, <3>4, SuccessNeedsEveryStep DEF Passed
    <3>6. Passed(r, j)
      BY <1>0, <3>2, <3>4, <3>5 DEF Reported
    <3> QED
      BY <3>5, <3>6
  <2> QED
    BY <2>1, <2>2
<1>3. \A r \in Run : \A i : Passed(r, i) => Passed(r, i)'
  BY <1>0, PassedStands
<1>4. StageSuccessMeansItsSteps'
  <2> SUFFICES ASSUME NEW r \in Run, NEW k \in Stage, stage'[r][k] = "SUCCESS",
                      NEW i \in Step, StageOf[i] = k
               PROVE  \E j \in Step : i \in TakenFor(r, j) /\ Done(r, j)'
    BY DEF StageSuccessMeansItsSteps, TakenFor
  <2>1. PICK j \in Step : i \in TakenFor(r, j) /\ Passed(r, j)
    BY <1>2
  <2> QED
    BY <1>3, <2>1 DEF Passed
<1> QED
  BY <1>1, <1>4 DEF Earned

\* A stage is SUCCESS only if the Agent has done every step of it (without
\* step ids: the step before), for any number of steps and stages and any
\* loss, delay or repetition of their events: the handler takes for done what
\* the row or its event says, and neither says so of a step that is not done.
THEOREM SuccessfulStagesAreExecuted == Spec => []StageSuccessMeansItsSteps
<1>1. Init => Earned
  <2>1. Init => StageSuccessMeansItsSteps
    <3> SUFFICES ASSUME Init, NEW r \in Run, NEW k \in Stage PROVE stage[r][k] = "none"
      BY DEF StageSuccessMeansItsSteps
    <3> QED
      BY DEF Init, NoStages
  <2> QED
    BY <2>1, InitTyped, InitApprovals, ReportedInit DEF Earned
<1>2. Earned => StageSuccessMeansItsSteps
  BY DEF Earned
<1> QED
  BY <1>1, <1>2, EarnedStep, PTL DEF Spec

----------------------------------------------------------------------------
(* A run is claimed to have passed when all of its steps are done: by the last *)
(* message, by the caller that took it, by the transaction that read it.   *)

\* An execution that is still "ok" has done the steps behind it.
Carried ==
  \A r \in Run : exec[r].ok =>
    \A i \in Step :
      \/ exec[r].phase = "running" /\ i <= exec[r].pos
      \/ exec[r].phase = "stepping" /\ i < exec[r].pos
      \/ exec[r].phase = "closing"
      => Passed(r, i)

Over(r) == exec[r].phase = "ended" /\ \A i \in Step : Passed(r, i)

\* A manual login is answered before the first step.
Final ==
  /\ \A r \in Run \ Manual :
       /\ caller[r] = "ok" \/ status[r] = "SUCCESS" => Over(r)
       /\ \A m \in InTransit(r) : Claims(m) => Over(r)
  /\ \A t \in txn :
       t.op = "finished" /\ t.outcome = "passed" /\ t.run \notin Manual => Over(t.run)

LEMMA OverStands ==
  ASSUME Typed, [Next]_vars, NEW r \in Run, Over(r)
  PROVE  Over(r)'
<1>1. \A i \in Step : Passed(r, i)'
  BY PassedStands DEF Over
<1>2. CASE ~ \E q \in Run : Execute(q)
  <2>1. Untouched(r) /\ caller[r] # "ready"
    BY <1>2, OnlyExecutionProduces DEF Over, Typed, Sent
  <2> QED
    BY <1>1, <2>1 DEF Untouched, Over
<1>3. ASSUME NEW q \in Run, Execute(q), q # r PROVE exec'[r] = exec[r]
  BY <1>3, OthersRest
<1>4. CASE Execute(r)
  BY <1>4, ExecutionSteps DEF ExecutionStep, Over
<1> QED
  BY <1>1, <1>2, <1>3, <1>4 DEF Over

LEMMA CarriedStep == Typed /\ ApprovalInv /\ Carried /\ [Next]_vars => Carried'
<1> SUFFICES ASSUME Typed, ApprovalInv, Carried, [Next]_vars, NEW r \in Run, exec'[r].ok,
                    NEW i \in Step,
                    \/ exec'[r].phase = "running" /\ i <= exec'[r].pos
                    \/ exec'[r].phase = "stepping" /\ i < exec'[r].pos
                    \/ exec'[r].phase = "closing"
             PROVE  Passed(r, i)'
  BY DEF Carried
<1>1. Passed(r, i) => Passed(r, i)'
  BY PassedStands
<1>2. /\ exec[r].ok
      /\ \/ exec[r].phase = "running" /\ i <= exec[r].pos
         \/ exec[r].phase = "stepping" /\ i < exec[r].pos
         \/ exec[r].phase = "closing"
      => Passed(r, i)
  BY DEF Carried
<1>3. CASE exec'[r] = exec[r]
  BY <1>1, <1>2, <1>3
<1>4. CASE ~ \E q \in Run : Execute(q)
  BY <1>1, <1>2, <1>3, <1>4, OnlyExecutionProduces DEF Untouched
<1>5. ASSUME NEW q \in Run, Execute(q), q # r PROVE exec'[r] = exec[r]
  BY <1>5, OthersRest
<1>6. CASE Execute(r)
  <2>1. ExecutionStep(r)
    BY <1>6, ExecutionSteps
  <2>2. /\ exec[r].pos \in 0 .. Steps /\ Steps \in Nat /\ results[r] \in [Step -> StepStatus]
        /\ exec[r].phase = "starting" => exec[r].pos = 0
        /\ exec[r].phase = "stepping" => exec[r].pos \in Step
    BY DEF Typed, TypeOK, Progress
  <2>3. CASE /\ exec[r].phase = "starting" /\ exec'[r].phase \in {"running", "prepared"}
             /\ exec'[r].pos = exec[r].pos
    BY <2>2, <2>3 DEF Step
  <2>4. CASE /\ exec[r].phase = "running" /\ exec'[r].phase = "stepping"
             /\ exec'[r].pos = exec[r].pos + 1 /\ exec'[r].ok = exec[r].ok
    BY <1>1, <1>2, <2>2, <2>4 DEF Step
  <2>5. CASE exec[r].phase = "stepping"
    <3>1. PICK outcome \in {"passed", "failed"} :
            /\ exec'[r].pos = exec[r].pos
            /\ results'[r] = [results[r] EXCEPT ![exec[r].pos] = outcome]
            /\ exec'[r].ok = (exec[r].ok /\ outcome = "passed")
            /\ exec'[r].phase = After(r, exec[r].pos, outcome)
            /\ exec[r].cancel => outcome = "failed"
      BY <2>1, <2>5 DEF ExecutionStep
    <3>2. outcome = "passed" /\ exec[r].ok
      BY <3>1
    <3>3. CASE i = exec[r].pos
      <4>1. i \notin Disabled
        BY <2>5, <3>3 DEF Typed, Progress
      <4> QED
        BY <2>2, <3>1, <3>2, <3>3, <4>1 DEF Passed, Done
    <3>4. CASE i < exec[r].pos
      BY <1>1, <1>2, <2>5, <3>2, <3>4
    <3>5. i <= exec[r].pos
      <4>1. exec'[r].phase = "running" \/ exec[r].pos = Steps
        BY <3>1, <3>2 DEF After
      <4> QED
        BY <2>2, <3>1, <4>1 DEF Step, After
    <3> QED
      BY <2>2, <3>3, <3>4, <3>5 DEF Step
  <2>6. CASE /\ exec[r].phase = "running" /\ exec'[r].pos = exec[r].pos + 1
             /\ exec'[r].pos \in Disabled /\ exec'[r].ok = exec[r].ok
             /\ results'[r] = [results[r] EXCEPT ![exec'[r].pos] = "skipped"]
             /\ \/ exec'[r].phase = "running" /\ exec'[r].pos # Steps
                \/ exec'[r].phase = "closing" /\ exec'[r].pos = Steps
    <3>1. CASE i = exec'[r].pos
      BY <2>2, <2>6, <3>1 DEF Passed, Done
    <3>2. CASE i <= exec[r].pos
      BY <1>1, <1>2, <2>6, <3>2
    <3> QED
      BY <2>2, <2>6, <3>1, <3>2 DEF Step
  <2> QED
    BY <2>1, <2>3, <2>4, <2>5, <2>6 DEF ExecutionStep
<1> QED
  BY <1>3, <1>4, <1>5, <1>6

LEMMA AnswersComeFromMessages ==
  ASSUME TypeOK, [Next]_vars, NEW r \in Run, caller'[r] = "ok", caller[r] # "ok"
  PROVE  \E m \in InTransit(r) : Claims(m)
<1>1. caller \in [Run -> CallerState] /\ wire \in [Run -> Seq(Message)]
  BY DEF TypeOK
<1>2. ASSUME NEW q \in Run, TakeAnswer(q) PROVE \E m \in InTransit(r) : Claims(m)
  <2> DEFINE m == Head(wire[q])
             place == IF m.outcome = "passed" THEN "ok" ELSE "bad"
  <2>1. m.type = "answer" /\ wire[q] # <<>> /\ wire' = [wire EXCEPT ![q] = Tail(@)]
        /\ (caller' = [caller EXCEPT ![q] = place] \/ UNCHANGED caller)
    BY <1>2 DEF TakeAnswer, Moved
  <2>2. q = r /\ m.outcome = "passed"
    BY <1>1, <2>1
  <2>3. m \in InTransit(q)
    BY <1>1, <2>1, ReadingTakesOne
  <2> QED
    BY <2>1, <2>2, <2>3 DEF Claims
<1>3. ASSUME NEW q \in Run, Request(q), ~ TakeAnswer(q) PROVE FALSE
  <2>1. \E place \in CallerState \ {"ok"} : caller' = [caller EXCEPT ![q] = place]
    BY <1>3
    DEF Request, CheckAgent, AddRun, Snapshot, Send, SendFails, StopWaiting, Finalize, Moved,
        CallerState
  <2> QED
    BY <1>1, <2>1
<1>4. CASE Restart \/ \E a \in Agent : LinkBreaks(a) \/ AgentDies(a)
  BY <1>1, <1>4 DEF Restart, LinkBreaks, AgentDies, serverVars
<1>5. ASSUME NEW q \in Run, Stop(q) \/ Operator(q) \/ ReadEvent(q) \/ GoQuiet(q)
                            \/ CheckOrphan(q) \/ Execute(q)
      PROVE  UNCHANGED caller
  BY <1>5
  DEF Stop, PrepareStop, AgentStops, StopUnanswered, FinalizeCancelled, Operator,
      CheckApproval, CheckRetry, ReportShot, ReportAgain, ReadEvent, GoQuiet, CheckOrphan, Execute,
      StartCase, Prepare, StartFails, SkipStep, BeginStep, EndStep, AbortRun, FinishCase, serverVars
<1>6. ASSUME NEW t \in txn, Commit(t) PROVE UNCHANGED caller
  BY <1>6
  DEF Commit, Approve, Reject, Retry, AdvanceStage, RecordProgress, RecordFinish, Recover, Reassess
<1>7. UNCHANGED vars => UNCHANGED caller
  BY DEF vars, serverVars
<1> QED
  BY <1>2, <1>3, <1>4, <1>5, <1>6, <1>7 DEF Next

LEMMA SuccessIsWrittenFromClaims ==
  ASSUME TypeOK, [Next]_vars, NEW r \in Run, status'[r] = "SUCCESS", status[r] # "SUCCESS"
  PROVE  \/ caller[r] = "ok"
         \/ \E t \in txn : t.run = r /\ t.op = "finished" /\ t.outcome = "passed"
<1> USE DEF rowVars
<1>1. status \in [Run -> RunStatus] /\ \A t \in txn : t.run \in Run
  BY DEF TypeOK, Txn
<1>2. ASSUME NEW q \in Run, Finalize(q) PROVE caller[r] = "ok"
  <2>1. \/ caller[q] = "ok" /\ status' = [status EXCEPT ![q] = "SUCCESS"]
        \/ status' = [status EXCEPT ![q] = "FAILED"]
    BY <1>2 DEF Finalize, Conclude
  <2> QED
    BY <1>1, <2>1
<1>3. ASSUME NEW q \in Run, NEW verdict \in {"RUNNING", "CANCELLED", "FAILED"},
             status' = [status EXCEPT ![q] = verdict]
      PROVE  FALSE
  BY <1>1, <1>3
<1>4. ASSUME NEW t \in txn, RecordFinish(t)
      PROVE  t.run = r /\ t.op = "finished" /\ t.outcome = "passed"
  <2>1. /\ t.op = "finished"
        /\ \/ t.outcome = "passed" /\ status' = [status EXCEPT ![t.run] = "SUCCESS"]
           \/ status' = [status EXCEPT ![t.run] = "FAILED"]
    BY <1>4 DEF RecordFinish, Conclude
  <2> QED
    BY <1>1, <2>1
<1>5. ASSUME NEW t \in txn, Reject(t) \/ Recover(t) PROVE FALSE
  BY <1>1, <1>3, <1>5 DEF Reject, Recover, EndOrphan, Conclude
<1>6. ASSUME NEW q \in Run, AddRun(q) \/ FinalizeCancelled(q) PROVE FALSE
  BY <1>3, <1>6 DEF AddRun, FinalizeCancelled, Conclude
<1>7. ASSUME NEW q \in Run, Request(q) \/ Stop(q) \/ Operator(q) \/ ReadEvent(q) \/ GoQuiet(q)
                            \/ CheckOrphan(q) \/ Execute(q)
      PROVE  Finalize(q) \/ AddRun(q) \/ FinalizeCancelled(q) \/ UNCHANGED status
  BY <1>7
  DEF Request, CheckAgent, Snapshot, Send, SendFails, StopWaiting, TakeAnswer,
      Stop, PrepareStop, AgentStops, StopUnanswered, Operator,
      CheckApproval, CheckRetry, ReportShot, ReportAgain, ReadEvent, GoQuiet, CheckOrphan, Execute,
      StartCase, Prepare, StartFails, SkipStep, BeginStep, EndStep, AbortRun, FinishCase
<1>8. Restart \/ (\E a \in Agent : LinkBreaks(a) \/ AgentDies(a)) => UNCHANGED status
  BY DEF Restart, LinkBreaks, AgentDies
<1>9. ASSUME NEW t \in txn, Commit(t)
      PROVE  RecordFinish(t) \/ Reject(t) \/ Recover(t) \/ UNCHANGED status
  BY <1>9 DEF Commit, Approve, Retry, AdvanceStage, RecordProgress, Reassess
<1>10. UNCHANGED status => FALSE
  OBVIOUS
<1>11. UNCHANGED vars => UNCHANGED status
  BY DEF vars
<1> QED
  BY <1>2, <1>4, <1>5, <1>6, <1>7, <1>8, <1>9, <1>10, <1>11 DEF Next

LEMMA FinalStep == Typed /\ ApprovalInv /\ Carried /\ Final /\ [Next]_vars => Final'
<1> SUFFICES ASSUME Typed, ApprovalInv, Carried, Final, [Next]_vars PROVE Final'
  OBVIOUS
<1>0. TypeOK
  BY DEF Typed
<1>1. \A r \in Run : Over(r) => Over(r)'
  BY OverStands
<1>2. ASSUME NEW r \in Run \ Manual, caller'[r] = "ok" \/ status'[r] = "SUCCESS" PROVE Over(r)'
  <2>1. CASE caller'[r] = "ok"
    BY <1>0, <1>1, <2>1, AnswersComeFromMessages DEF Final
  <2>2. CASE status'[r] = "SUCCESS"
    <3>1. \/ caller[r] = "ok" \/ status[r] = "SUCCESS"
          \/ \E t \in txn : t.run = r /\ t.op = "finished" /\ t.outcome = "passed"
      BY <1>0, <2>2, SuccessIsWrittenFromClaims
    <3> QED
      BY <1>1, <3>1 DEF Final
  <2> QED
    BY <1>2, <2>1, <2>2
<1>3. ASSUME NEW r \in Run \ Manual, NEW m \in InTransit(r)', Claims(m) PROVE Over(r)'
  <2>1. CASE m \in InTransit(r)
    BY <1>1, <1>3, <2>1 DEF Final
  <2>2. CASE m \notin InTransit(r)
    <3>1. CASE ~ \E q \in Run : Execute(q)
      BY <2>2, <3>1, OnlyExecutionProduces DEF Untouched
    <3>2. ASSUME NEW q \in Run, Execute(q), q # r PROVE FALSE
      BY <1>3, <2>2, <3>2, OthersRest
    <3>3. CASE Execute(r)
      <4>1. ExecutionStep(r)
        BY <3>3, ExecutionSteps
      <4>2. exec[r].phase = "closing" /\ exec[r].ok
        BY <1>3, <2>2, <4>1 DEF ExecutionStep
      <4>3. \A i \in Step : Passed(r, i)
        BY <4>2 DEF Carried
      <4>4. exec'[r].phase = "ended"
        BY <4>1, <4>2 DEF ExecutionStep
      <4>5. \A i \in Step : Passed(r, i)'
        BY <4>3, PassedStands
      <4> QED
        BY <4>4, <4>5 DEF Over
    <3> QED
      BY <3>1, <3>2, <3>3
  <2> QED
    BY <2>1, <2>2
<1>4. ASSUME NEW x \in txn', x.op = "finished", x.outcome = "passed", x.run \notin Manual
      PROVE  Over(x.run)'
  <2>1. x.run \in Run
    BY TypesKept DEF TypeOK, Txn
  <2>2. CASE x \in txn
    BY <1>1, <1>4, <2>1, <2>2 DEF Final
  <2>3. CASE JustRead(x)
    <3>1. PICK m \in InTransit(x.run) : x.outcome = m.outcome /\ m.type = "finished"
      BY <1>4, <2>3 DEF JustRead
    <3> QED
      BY <1>1, <1>4, <2>1, <3>1 DEF Final, Claims
  <2>4. ~ SecondOf(x)
    BY <1>4 DEF SecondOf
  <2> QED
    BY <1>0, <2>2, <2>3, <2>4, TransactionsReadFirst
<1> QED
  BY <1>2, <1>3, <1>4 DEF Final

Executed == Typed /\ ApprovalInv /\ Carried /\ Final

LEMMA ExecutedHolds == Spec => []Executed
<1>1. Init => Carried /\ Final
  <2> SUFFICES ASSUME Init PROVE Carried /\ Final
    OBVIOUS
  <2>1. \A r \in Run : /\ caller[r] = "idle" /\ status[r] = "none" /\ exec[r].phase = "none"
                       /\ wire[r] = <<>>
    BY DEF Init
  <2>2. \A r \in Run : InTransit(r) = {}
    BY <2>1 DEF InTransit
  <2> QED
    BY <2>1, <2>2 DEF Init, Carried, Final
<1>2. Init => Executed
  BY <1>1, InitTyped, InitApprovals DEF Executed
<1>3. Executed /\ [Next]_vars => Executed'
  BY TypedStep, ApprovalStep, CarriedStep, FinalStep DEF Executed
<1> QED
  BY <1>2, <1>3, PTL DEF Spec

\* SuccessMeansExecuted: a run without a manual login is SUCCESS only if the
\* Agent has done every step of it and has ended: whether the answer or the
\* finished event wrote it, after a stop, a restart or any loss of events.
THEOREM SuccessfulRunsAreExecuted == Spec => []SuccessMeansExecuted
<1>1. Executed => SuccessMeansExecuted
  BY DEF Executed, Final, Over, Passed, SuccessMeansExecuted
<1> QED
  BY <1>1, ExecutedHolds, PTL

----------------------------------------------------------------------------
(* Evidence.  A refresh takes a stage whose row it does not see for one    *)
(* that requires nothing, so it matters that the rows of a run appear      *)
(* together, and that an artifact it has seen is still there.              *)

Together ==
  /\ \A r \in Run, j, k \in Stage : stage[r][j] = "none" => stage[r][k] = "none"
  /\ \A t \in txn :
       (t.op \in {"approve", "reject", "retry"} \/ \E j \in Stage : t.was[j] # "none") =>
          \A k \in Stage : stage[t.run][k] # "none"

LEMMA TogetherStep == TypeOK /\ TypeOK' /\ Together /\ [Next]_vars => Together'
<1> SUFFICES ASSUME TypeOK, TypeOK', Together, [Next]_vars PROVE Together'
  OBVIOUS
<1>0. /\ StageOf \in [Step -> Stage]
      /\ \A t \in txn : t.run \in Run /\ t.was \in [Stage -> StageStatus]
  BY DEF TypeOK, Txn
<1>1. ASSUME NEW r \in Run, NEW k \in Stage, stage'[r][k] # stage[r][k]
      PROVE  \/ \A j \in Stage : stage'[r][j] \in StageOpen
             \/ stage'[r][k] # "none" /\ \A j \in Stage : stage[r][j] # "none"
  <2>1. StageCause(r, k)
    BY <1>1, StagesMoveForAReason
  <2>2. ASSUME NEW t \in txn, t.run = r,
               \/ t.op = "approve" /\ stage'[r][k] = "PENDING"
               \/ t.op = "reject" /\ stage'[r][k] = "CANCELLED"
               \/ t.op = "retry" /\ stage'[r][k] \in StageOpen
               \/ /\ t.op = "step" /\ stage'[r][k] # "none"
                  /\ ~ Closed(t.was[k]) \/ t.was[k] \in StageOpen
               \/ /\ t.op = "recover" /\ t.was[k] \in StageOpen \cup {"RUNNING"}
                  /\ stage'[r][k] \in {"FAILED", "SKIPPED"}
        PROVE  stage'[r][k] # "none" /\ \A j \in Stage : stage[r][j] # "none"
    BY <2>2 DEF Together, Closed, StageOpen
  <2> QED
    BY <2>1, <2>2 DEF StageCause
<1>2. \A r \in Run, k \in Stage : stage'[r][k] = "none" => stage[r][k] = "none"
  BY <1>1 DEF StageOpen
<1>3. ASSUME NEW r \in Run, NEW j \in Stage, NEW k \in Stage, stage'[r][j] = "none"
      PROVE  stage'[r][k] = "none"
  <2>1. stage[r][j] = "none" /\ stage[r][k] = "none"
    BY <1>2, <1>3 DEF Together
  <2> QED
    BY <1>1, <1>3, <2>1 DEF StageOpen
<1>4. ASSUME NEW x \in txn', NEW k \in Stage,
             x.op \in {"approve", "reject", "retry"} \/ \E j \in Stage : x.was[j] # "none"
      PROVE  stage'[x.run][k] # "none"
  <2>1. x.run \in Run
    BY DEF TypeOK, Txn
  <2>2. CASE x \in txn
    BY <1>2, <1>4, <2>1, <2>2 DEF Together
  <2>3. CASE SecondOf(x)
    BY <1>4, <2>3 DEF SecondOf, NoStages
  <2>4. CASE JustRead(x)
    <3>1. \E j \in Stage : stage[x.run][j] # "none"
      <4>1. CASE x.op \in {"approve", "reject", "retry"}
        <5>1. x.at \in Stage /\ stage[x.run][x.at] \in {"WAITING_APPROVAL", "FAILED"}
          BY <2>4, <4>1 DEF JustRead, EventOp
        <5> QED
          BY <5>1
      <4>2. CASE \E j \in Stage : x.was[j] # "none"
        BY <2>4, <4>2 DEF JustRead, NoStages
      <4> QED
        BY <1>4, <4>1, <4>2
    <3> QED
      BY <1>2, <2>1, <3>1 DEF Together
  <2> QED
    BY <2>2, <2>3, <2>4, TransactionsReadFirst
<1> QED
  BY <1>3, <1>4 DEF Together
LEMMA ShotsStand ==
  ASSUME TypeOK, [Next]_vars, NEW r \in Run, NEW k \in Stage
  PROVE  shots'[r][k] = shots[r][k] \/ (shots[r][k] = "none" /\ stage[r][k] # "none")
<1> USE DEF stageVars
<1>1. CASE UNCHANGED shots
  BY <1>1
<1>2. ASSUME NEW q \in Run, NEW j \in Stage, ReportShot(q, j)
      PROVE  shots'[r][k] = shots[r][k] \/ (shots[r][k] = "none" /\ stage[r][k] # "none")
  <2>1. CASE UNCHANGED shots
    BY <2>1
  <2>2. CASE /\ shots[q][j] = "none" /\ stage[q][j] # "none"
             /\ \E availability \in {"ONLINE", "OFFLINE"} :
                  shots' = [shots EXCEPT ![q][j] = availability]
    BY <2>2 DEF TypeOK
  <2> QED
    BY <1>2, <2>1, <2>2 DEF ReportShot
<1>3. ASSUME NEW q \in Run, Request(q) \/ Stop(q) \/ ReadEvent(q) \/ GoQuiet(q)
                            \/ CheckOrphan(q) \/ Execute(q)
      PROVE  UNCHANGED shots
  BY <1>3
  DEF Request, CheckAgent, AddRun, Snapshot, Send, SendFails, StopWaiting, TakeAnswer, Finalize,
      Stop, PrepareStop, AgentStops, StopUnanswered, FinalizeCancelled,
      ReadEvent, GoQuiet, CheckOrphan, Execute,
      StartCase, Prepare, StartFails, SkipStep, BeginStep, EndStep, AbortRun, FinishCase
<1>4. ASSUME NEW q \in Run, Operator(q)
      PROVE  UNCHANGED shots \/ \E j \in Stage : ReportShot(q, j)
  BY <1>4 DEF Operator, CheckApproval, CheckRetry, ReportAgain
<1>5. Restart \/ (\E a \in Agent : LinkBreaks(a) \/ AgentDies(a)) => UNCHANGED shots
  BY DEF Restart, LinkBreaks, AgentDies
<1>6. ASSUME NEW t \in txn, Commit(t) PROVE UNCHANGED shots
  BY <1>6
  DEF Commit, Approve, Reject, Retry, AdvanceStage, RecordProgress, RecordFinish, Recover, Reassess
<1> QED
  BY <1>1, <1>2, <1>3, <1>4, <1>5, <1>6 DEF Next, vars
\* A view of the artifacts of run r shows all of its stage rows or none, and
\* no artifact that is not there.
Firm(r, v) ==
  /\ \A j, k \in Stage : v[j] = "norow" => v[k] = "norow"
  /\ \A k \in Stage : v[k] \in {"ONLINE", "OFFLINE"} => shots[r][k] = v[k]

Views ==
  /\ \A r \in Run : Firm(r, seen[r].answer) /\ Firm(r, seen[r].stop)
  /\ \A t \in txn : Firm(t.run, t.saw)

LEMMA FirmStands ==
  ASSUME TypeOK, [Next]_vars, NEW r \in Run, NEW v, Firm(r, v)
  PROVE  Firm(r, v)'
<1>1. ASSUME NEW k \in Stage, v[k] \in {"ONLINE", "OFFLINE"} PROVE shots'[r][k] = v[k]
  <2>1. shots[r][k] = v[k] /\ shots[r][k] # "none"
    BY <1>1 DEF Firm
  <2> QED
    BY <2>1, ShotsStand
<1> QED
  BY <1>1 DEF Firm

LEMMA NewViewsAreFirm ==
  ASSUME TypeOK, Together, NEW r \in Run
  PROVE  Firm(r, NotSeen) /\ Firm(r, SeenNow(r))
<1>1. shots[r] \in [Stage -> {"none", "ONLINE", "OFFLINE"}]
  BY DEF TypeOK
<1>2. \A j, k \in Stage : stage[r][j] = "none" => stage[r][k] = "none"
  BY DEF Together
<1>3. \A k \in Stage : SeenNow(r)[k] = IF stage[r][k] = "none" THEN "norow" ELSE shots[r][k]
  BY DEF SeenNow
<1>4. Firm(r, SeenNow(r))
  BY <1>1, <1>2, <1>3 DEF Firm
<1> QED
  BY <1>4 DEF Firm, NotSeen

\* The session of a request sees what it saw, looks anew or is over.
LEMMA SessionsLook ==
  ASSUME TypeOK, [Next]_vars, NEW r \in Run
  PROVE  /\ seen'[r].answer \in {seen[r].answer, SeenNow(r), NotSeen}
         /\ seen'[r].stop \in {seen[r].stop, SeenNow(r), NotSeen}
<1> DEFINE Looks == /\ seen'[r].answer \in {seen[r].answer, SeenNow(r), NotSeen}
                    /\ seen'[r].stop \in {seen[r].stop, SeenNow(r), NotSeen}
<1> USE DEF serverVars
<1>1. seen \in [Run -> [answer : View, stop : View]]
  BY DEF TypeOK
<1>2. CASE UNCHANGED seen
  BY <1>2
<1>3. ASSUME NEW q \in Run, NEW v, v \in {SeenNow(q), NotSeen},
             \/ seen' = [seen EXCEPT ![q].answer = v]
             \/ seen' = [seen EXCEPT ![q].stop = v]
      PROVE  Looks
  <2> DEFINE one == [seen[q] EXCEPT !.answer = v]
             two == [seen[q] EXCEPT !.stop = v]
  <2>1. /\ one.answer = v /\ one.stop = seen[q].stop
        /\ two.answer = seen[q].answer /\ two.stop = v
    BY <1>1
  <2>2. seen' = [seen EXCEPT ![q] = one] \/ seen' = [seen EXCEPT ![q] = two]
    BY <1>1, <1>3
  <2> HIDE DEF one, two
  <2>3. /\ r # q => seen'[r] = seen[r]
        /\ r = q => seen'[r] \in {one, two}
    BY <1>1, <2>2
  <2> QED
    BY <1>3, <2>1, <2>3
<1>4. CASE Restart
  <2>1. seen'[r] = Unseen
    BY <1>4 DEF Restart
  <2>2. Unseen.answer = NotSeen /\ Unseen.stop = NotSeen
    BY DEF Unseen
  <2> QED
    BY <2>1, <2>2
<1>5. ASSUME NEW q \in Run, Request(q) \/ Stop(q) PROVE Looks
  <2>1. \/ UNCHANGED seen
        \/ seen' = [seen EXCEPT ![q].answer = SeenNow(q)]
        \/ seen' = [seen EXCEPT ![q].answer = NotSeen]
        \/ seen' = [seen EXCEPT ![q].stop = SeenNow(q)]
        \/ seen' = [seen EXCEPT ![q].stop = NotSeen]
    BY <1>5
    DEF Request, CheckAgent, AddRun, Snapshot, Send, SendFails, StopWaiting, TakeAnswer, Finalize,
        SessionSees, Stop, PrepareStop, AgentStops, StopUnanswered, FinalizeCancelled
  <2> QED
    BY <1>2, <1>3, <2>1
<1>6. ASSUME NEW q \in Run, Operator(q) \/ ReadEvent(q) \/ GoQuiet(q) \/ CheckOrphan(q) \/ Execute(q)
      PROVE  UNCHANGED seen
  BY <1>6
  DEF Operator, CheckApproval, CheckRetry, ReportShot, ReportAgain, ReadEvent, GoQuiet, CheckOrphan,
      Execute, StartCase, Prepare, StartFails, SkipStep, BeginStep, EndStep, AbortRun, FinishCase
<1>7. (\E a \in Agent : LinkBreaks(a) \/ AgentDies(a)) => UNCHANGED seen
  BY DEF LinkBreaks, AgentDies
<1>8. ASSUME NEW t \in txn, Commit(t) PROVE UNCHANGED seen
  BY <1>8
  DEF Commit, Approve, Reject, Retry, AdvanceStage, RecordProgress, RecordFinish, Recover, Reassess
<1> QED
  BY <1>2, <1>4, <1>5, <1>6, <1>7, <1>8 DEF Next, vars

LEMMA ViewsStep == TypeOK /\ TypeOK' /\ Together /\ Views /\ [Next]_vars => Views'
<1> SUFFICES ASSUME TypeOK, TypeOK', Together, Views, [Next]_vars PROVE Views'
  OBVIOUS
<1>1. \A r \in Run : \A v : Firm(r, v) => Firm(r, v)'
  BY FirmStands
<1>2. ASSUME NEW r \in Run PROVE Firm(r, NotSeen)' /\ Firm(r, SeenNow(r))
  BY NewViewsAreFirm, FirmStands
<1>3. ASSUME NEW r \in Run, NEW v, v \in {SeenNow(r), NotSeen} PROVE Firm(r, v)'
  BY <1>1, <1>3, NewViewsAreFirm
<1>4. ASSUME NEW r \in Run, NEW v, v \in {seen[r].answer, seen[r].stop} PROVE Firm(r, v)'
  BY <1>1, <1>4 DEF Views
<1>5. ASSUME NEW r \in Run, NEW v, v \in {seen'[r].answer, seen'[r].stop} PROVE Firm(r, v)'
  BY <1>3, <1>4, <1>5, SessionsLook
<1>6. ASSUME NEW x \in txn', NEW r \in Run, NEW v, r = x.run, v = x.saw PROVE Firm(r, v)'
  <2>1. CASE x \in txn
    BY <1>1, <1>6, <2>1 DEF Views
  <2>2. CASE JustRead(x)
    BY <1>3, <1>6, <2>2 DEF JustRead
  <2>3. CASE SecondOf(x)
    BY <1>3, <1>6, <2>3 DEF SecondOf
  <2> QED
    BY <2>1, <2>2, <2>3, TransactionsReadFirst
<1>7. \A x \in txn' : x.run \in Run
  BY DEF TypeOK, Txn
<1> QED
  BY <1>5, <1>6, <1>7 DEF Views, Firm

\* The run's evidence is what a refresh has found in one of these views.
Found(r, v) ==
  \E run, own, found :
    /\ \A k \in Stage : StageEvidence(k, own[k], run, v[k]) \in found
    /\ \A x \in found : \E k \in Stage : x = StageEvidence(k, own[k], run, v[k])
    /\ evidence'[r].run = Aggregate(run, found)

LEMMA EvidenceIsAssessed ==
  ASSUME TypeOK, [Next]_vars, NEW r \in Run
  PROVE  \/ evidence'[r].run = evidence[r].run
         \/ Found(r, seen[r].answer) \/ Found(r, seen[r].stop)
         \/ \E t \in txn : t.run = r /\ Found(r, t.saw)
<1> USE DEF stageVars
<1>1. evidence \in [Run -> Assessed] /\ \A t \in txn : t.run \in Run
  BY DEF TypeOK, Assessed, Txn
<1>2. CASE UNCHANGED evidence
  BY <1>2
<1>3. ASSUME NEW q \in Run, NEW run, NEW own, NEW v, Refresh(q, run, own, v)
      PROVE  evidence'[r].run = evidence[r].run \/ (q = r /\ Found(r, v))
  <2> DEFINE ev == [k \in Stage |-> StageEvidence(k, own[k], run, v[k])]
             all == {ev[k] : k \in Stage}
             found == Aggregate(run, all)
             per == [k \in Stage |-> IF v[k] = "norow" THEN evidence[q].stage[k] ELSE ev[k]]
             new == [run |-> found, stage |-> per]
  <2>1. evidence' = [evidence EXCEPT ![q] = new] /\ new.run = found
    BY <1>3 DEF Refresh
  <2>2. /\ \A k \in Stage : StageEvidence(k, own[k], run, v[k]) \in all
        /\ \A x \in all : \E k \in Stage : x = StageEvidence(k, own[k], run, v[k])
        /\ found = Aggregate(run, all)
    OBVIOUS
  <2> HIDE DEF new, found, all
  <2>3. r # q => evidence'[r] = evidence[r]
    BY <1>1, <2>1
  <2>4. r = q => evidence'[r].run = found
    BY <1>1, <2>1
  <2>5. Found(q, v) \/ r # q
    <3>1. CASE r = q
      BY <2>2, <2>4, <3>1 DEF Found
    <3> QED
      BY <3>1
  <2> QED
    BY <2>3, <2>5
<1>4. ASSUME NEW t \in txn, Retry(t) PROVE evidence'[r].run = evidence[r].run
  <2> DEFINE found == [evidence[t.run] EXCEPT !.stage[t.at] = "PENDING"]
  <2>1. evidence' = [evidence EXCEPT ![t.run] = found]
    BY <1>4 DEF Retry
  <2>2. found.run = evidence[t.run].run
    BY <1>1 DEF Assessed
  <2> HIDE DEF found
  <2> QED
    BY <1>1, <2>1, <2>2
<1>5. ASSUME NEW q \in Run, Request(q) \/ Stop(q) \/ Operator(q) \/ ReadEvent(q) \/ GoQuiet(q)
                            \/ CheckOrphan(q) \/ Execute(q)
      PROVE  \/ Refresh(q, status'[q], stage[q], seen[q].answer)
             \/ Refresh(q, "CANCELLED", stage[q], seen[q].stop)
             \/ UNCHANGED evidence
  BY <1>5
  DEF Request, CheckAgent, AddRun, Snapshot, Send, SendFails, StopWaiting, TakeAnswer, Finalize,
      Stop, PrepareStop, AgentStops, StopUnanswered, FinalizeCancelled, Operator,
      CheckApproval, CheckRetry, ReportShot, ReportAgain, ReadEvent, GoQuiet, CheckOrphan, Execute,
      StartCase, Prepare, StartFails, SkipStep, BeginStep, EndStep, AbortRun, FinishCase
<1>6. Restart \/ (\E a \in Agent : LinkBreaks(a) \/ AgentDies(a)) => UNCHANGED evidence
  BY DEF Restart, LinkBreaks, AgentDies
<1>7. ASSUME NEW t \in txn, Commit(t)
      PROVE  (\E run, own : Refresh(t.run, run, own, t.saw)) \/ Retry(t) \/ UNCHANGED evidence
  BY <1>7 DEF Commit, Approve, Reject, AdvanceStage, RecordProgress, RecordFinish, Recover, Reassess
<1> QED
  BY <1>1, <1>2, <1>3, <1>4, <1>5, <1>6, <1>7 DEF Next, vars

LEMMA CompleteMeansOnline ==
  ASSUME NEW r \in Run, NEW v \in View, Firm(r, v), Found(r, v),
         evidence'[r].run = "COMPLETE", NEW k \in NeedsShot
  PROVE  shots[r][k] = "ONLINE"
<1>0. PICK run, own, found :
        /\ \A j \in Stage : StageEvidence(j, own[j], run, v[j]) \in found
        /\ \A x \in found : \E j \in Stage : x = StageEvidence(j, own[j], run, v[j])
        /\ evidence'[r].run = Aggregate(run, found)
  BY DEF Found
<1> DEFINE ev(j) == StageEvidence(j, own[j], run, v[j])
<1>1. Aggregate(run, found) = "COMPLETE"
  BY <1>0
<1>2. \A j \in Stage : ev(j) \in Evidence
  BY DEF StageEvidence, Evidence, View
<1>3. k \in Stage /\ found \subseteq Evidence /\ ev(k) \in found
  BY <1>0, <1>2
<1>4. "COMPLETE" \in found /\ found \subseteq {"COMPLETE", "NOT_REQUIRED"}
  <2> HIDE DEF ev
  <2> QED
    BY <1>1, <1>3 DEF Aggregate, Evidence
<1>5. PICK j \in Stage : ev(j) = "COMPLETE"
  BY <1>0, <1>4
<1>6. v[j] # "norow"
  BY <1>5 DEF StageEvidence
<1>7. v[k] # "norow"
  BY <1>3, <1>6 DEF Firm
<1>8. ev(k) \in {"COMPLETE", "NOT_REQUIRED"}
  BY <1>3, <1>4
<1>9. v[k] = "ONLINE"
  BY <1>3, <1>7, <1>8 DEF StageEvidence, View
<1> QED
  BY <1>3, <1>9 DEF Firm

Evident == Typed /\ ApprovalInv /\ Together /\ Views /\ EvidenceNotOverstated

LEMMA EvidentStep == Evident /\ [Next]_vars => Evident'
<1> SUFFICES ASSUME Evident, [Next]_vars PROVE Evident'
  OBVIOUS
<1>1. Typed /\ ApprovalInv /\ Together /\ Views /\ TypeOK
  BY DEF Evident, Typed
<1>2. Typed' /\ ApprovalInv' /\ TypeOK'
  BY <1>1, TypedStep, ApprovalStep, TypesKept
<1>3. Together' /\ Views'
  BY <1>1, <1>2, TogetherStep, ViewsStep
<1>4. ASSUME NEW r \in Run, evidence'[r].run = "COMPLETE", NEW k \in NeedsShot
      PROVE  shots'[r][k] = "ONLINE"
  <2>0. k \in Stage /\ seen[r].answer \in View /\ seen[r].stop \in View
        /\ \A t \in txn : t.saw \in View
    BY <1>1 DEF TypeOK, Txn
  <2>2. ASSUME NEW v \in View, Firm(r, v), Found(r, v) PROVE shots[r][k] = "ONLINE"
    BY <1>4, <2>2, CompleteMeansOnline
  <2>3. Firm(r, seen[r].answer) /\ Firm(r, seen[r].stop)
        /\ \A t \in txn : t.run = r => Firm(r, t.saw)
    BY <1>1 DEF Views
  <2>4. shots[r][k] = "ONLINE"
    <3>1. CASE evidence'[r].run = evidence[r].run
      BY <1>4, <3>1 DEF Evident, EvidenceNotOverstated
    <3> QED
      BY <1>1, <2>0, <2>2, <2>3, <3>1, EvidenceIsAssessed
  <2> QED
    BY <1>1, <2>0, <2>4, ShotsStand
<1> QED
  BY <1>2, <1>3, <1>4 DEF Evident, EvidenceNotOverstated

\* Evidence is never COMPLETE while a required artifact is missing or cannot
\* be retrieved, whichever of the operations that refresh it came last and
\* however old the view of the artifacts it had: every view shows all stage
\* rows of the run or none, and an artifact that was there stays.
THEOREM EvidenceIsNotOverstated == Spec => []EvidenceNotOverstated
<1>1. Init => Together /\ Views /\ EvidenceNotOverstated
  <2> SUFFICES ASSUME Init PROVE Together /\ Views /\ EvidenceNotOverstated
    OBVIOUS
  <2>1. /\ txn = {}
        /\ \A r \in Run : /\ evidence[r] = NotRequired /\ seen[r] = Unseen
                           /\ \A k \in Stage : stage[r][k] = "none"
    BY DEF Init, NoStages
  <2>2. \A r \in Run : Firm(r, NotSeen)
    BY DEF Firm, NotSeen
  <2>3. Unseen.answer = NotSeen /\ Unseen.stop = NotSeen
    BY DEF Unseen
  <2> QED
    BY <2>1, <2>2, <2>3 DEF Together, Views, EvidenceNotOverstated, NotRequired
<1>2. Init => Evident
  BY <1>1, InitTyped, InitApprovals DEF Evident
<1>3. Evident => EvidenceNotOverstated
  BY DEF Evident
<1> QED
  BY <1>2, <1>3, EvidentStep, PTL DEF Spec

----------------------------------------------------------------------------
(* The lease of an Agent (AgentLease).                                     *)

\* Before the row of a run exists there is nothing of it: no stage, no
\* transaction, no stop, no message and no execution, also where the request
\* that should have inserted it died with the server.
NothingBeforeRow ==
  \A r \in Run :
    /\ caller[r] \in {"idle", "checked"} => status[r] = "none"
    /\ caller[r] = "checked" => agent[r] \in Agent
    /\ status[r] = "none" =>
         /\ caller[r] \in {"idle", "checked", "gone"}
         /\ stopper[r] \in {"idle", "done"}
         /\ exec[r].phase = "none" /\ InTransit(r) = {}
         /\ \A k \in Stage : stage[r][k] = "none" /\ shots[r][k] = "none"
         /\ \A t \in txn : t.run # r

LeaseKept == Typed /\ ApprovalInv /\ Inv /\ NothingBeforeRow

LEMMA Concluded ==
  ASSUME TypeOK, NEW r \in Run, NEW verdict \in Ended, NEW why, Conclude(r, verdict, why)
  PROVE  status'[r] = verdict /\ \A q \in Run : q # r => status'[q] = status[q]
BY DEF TypeOK, Conclude

\* A step that changes outcomes inserts one row or ends one run.
LEMMA OutcomesChange ==
  ASSUME LeaseKept, [Next]_vars
  PROVE  \/ UNCHANGED status
         \/ \E r \in Run : AddRun(r)
         \/ \E r \in Run : /\ status[r] # "none" /\ status'[r] \in Ended
                           /\ \A q \in Run : q # r => status'[q] = status[q]
                           /\ UNCHANGED agent
<1> DEFINE Goal == \/ UNCHANGED status
                   \/ \E r \in Run : AddRun(r)
                   \/ \E r \in Run : /\ status[r] # "none" /\ status'[r] \in Ended
                                     /\ \A q \in Run : q # r => status'[q] = status[q]
                                     /\ UNCHANGED agent
<1> SUFFICES Goal
  OBVIOUS
<1> USE DEF rowVars
<1>0. TypeOK /\ NothingBeforeRow
  BY DEF LeaseKept, Typed
<1>1. ASSUME NEW r \in Run, NEW verdict \in Ended, NEW why, Conclude(r, verdict, why),
             status[r] # "none", UNCHANGED agent
      PROVE  Goal
  <2>1. status'[r] = verdict /\ \A q \in Run : q # r => status'[q] = status[q]
    BY <1>0, <1>1, Concluded
  <2> QED
    BY <1>1, <2>1
<1> HIDE DEF Goal
<1>2. ASSUME NEW r \in Run, Request(r) PROVE Goal
  <2>1. CASE AddRun(r)
    BY <2>1 DEF Goal
  <2>2. CASE Finalize(r)
    <3>1. status[r] # "none" /\ UNCHANGED agent
      BY <1>0, <2>2 DEF Finalize, NothingBeforeRow
    <3>2. \E verdict \in Ended, why \in ErrorCode : Conclude(r, verdict, why)
      BY <2>2 DEF Finalize, Ended, ErrorCode
    <3> QED
      BY <1>1, <3>1, <3>2
  <2>3. CASE ~ AddRun(r) /\ ~ Finalize(r)
    <3>1. UNCHANGED status
      BY <1>2, <2>3 DEF Request, CheckAgent, Snapshot, Send, SendFails, StopWaiting, TakeAnswer
    <3> QED
      BY <3>1 DEF Goal
  <2> QED
    BY <2>1, <2>2, <2>3
<1>3. ASSUME NEW r \in Run, Stop(r) PROVE Goal
  <2>1. CASE FinalizeCancelled(r)
    <3>1. status[r] # "none" /\ UNCHANGED agent /\ Conclude(r, "CANCELLED", "RUN_CANCELLED")
      BY <1>0, <2>1 DEF FinalizeCancelled, NothingBeforeRow
    <3> QED
      BY <1>1, <3>1 DEF Ended
  <2>2. CASE ~ FinalizeCancelled(r)
    <3>1. UNCHANGED status
      BY <1>3, <2>2 DEF Stop, PrepareStop, AgentStops, StopUnanswered
    <3> QED
      BY <3>1 DEF Goal
  <2> QED
    BY <2>1, <2>2
<1>4. ASSUME NEW t \in txn, Commit(t) PROVE Goal
  <2>1. t.run \in Run /\ status[t.run] # "none"
    BY <1>0 DEF TypeOK, Txn, NothingBeforeRow
  <2>2. CASE RecordFinish(t) \/ Recover(t)
    <3>1. /\ \E verdict \in Ended, why \in ErrorCode : Conclude(t.run, verdict, why)
          /\ UNCHANGED agent
      BY <2>2 DEF RecordFinish, Recover, EndOrphan, Ended, ErrorCode
    <3> QED
      BY <1>1, <2>1, <3>1
  <2>3. CASE Reject(t)
    <3>1. status' = [status EXCEPT ![t.run] = "CANCELLED"] /\ UNCHANGED agent
      BY <2>3 DEF Reject
    <3>2. /\ status'[t.run] \in Ended
          /\ \A q \in Run : q # t.run => status'[q] = status[q]
      BY <1>0, <2>1, <3>1 DEF TypeOK, Ended
    <3> QED
      BY <2>1, <3>1, <3>2 DEF Goal
  <2>4. CASE Approve(t) \/ Retry(t) \/ AdvanceStage(t) \/ RecordProgress(t) \/ Reassess(t)
    <3>1. UNCHANGED status
      BY <2>4 DEF Approve, Retry, AdvanceStage, RecordProgress, Reassess
    <3> QED
      BY <3>1 DEF Goal
  <2> QED
    BY <1>4, <2>2, <2>3, <2>4 DEF Commit
<1>5. ASSUME NEW r \in Run,
             Operator(r) \/ ReadEvent(r) \/ GoQuiet(r) \/ CheckOrphan(r) \/ Execute(r)
      PROVE  UNCHANGED status
  BY <1>5
  DEF Operator, CheckApproval, CheckRetry, ReportShot, ReportAgain, ReadEvent, GoQuiet, CheckOrphan,
      Execute, StartCase, Prepare, StartFails, SkipStep, BeginStep, EndStep, AbortRun, FinishCase
<1>6. Restart \/ (\E a \in Agent : LinkBreaks(a) \/ AgentDies(a)) => UNCHANGED status
  BY DEF Restart, LinkBreaks, AgentDies
<1>7. UNCHANGED vars => UNCHANGED status
  BY DEF vars
<1>8. UNCHANGED status => Goal
  BY DEF Goal
<1> QED
  BY <1>2, <1>3, <1>4, <1>5, <1>6, <1>7, <1>8 DEF Next

\* Only its own creation chooses the Agent of a run.
LEMMA AgentsAreChosen ==
  ASSUME TypeOK, [Next]_vars, NEW r \in Run
  PROVE  agent'[r] = agent[r] \/ \E a \in Agent : CheckAgent(r, a)
<1> USE DEF rowVars
<1>0. agent \in [Run -> Agent \cup {NoAgent}]
  BY DEF TypeOK
<1>1. ASSUME NEW q \in Run, NEW a \in Agent, CheckAgent(q, a), q # r PROVE agent'[r] = agent[r]
  BY <1>0, <1>1 DEF CheckAgent
<1>2. ASSUME NEW q \in Run, Request(q), ~ \E a \in Agent : CheckAgent(q, a)
      PROVE  UNCHANGED agent
  BY <1>2 DEF Request, AddRun, Snapshot, Send, SendFails, StopWaiting, TakeAnswer, Finalize
<1>3. ASSUME NEW q \in Run, Stop(q) \/ Operator(q) \/ ReadEvent(q) \/ GoQuiet(q)
                            \/ CheckOrphan(q) \/ Execute(q)
      PROVE  UNCHANGED agent
  BY <1>3
  DEF Stop, PrepareStop, AgentStops, StopUnanswered, FinalizeCancelled, Operator,
      CheckApproval, CheckRetry, ReportShot, ReportAgain, ReadEvent, GoQuiet, CheckOrphan, Execute,
      StartCase, Prepare, StartFails, SkipStep, BeginStep, EndStep, AbortRun, FinishCase
<1>4. ASSUME NEW t \in txn, Commit(t) PROVE UNCHANGED agent
  BY <1>4
  DEF Commit, Approve, Reject, Retry, AdvanceStage, RecordProgress, RecordFinish, Recover, Reassess
<1>5. Restart \/ (\E a \in Agent : LinkBreaks(a) \/ AgentDies(a)) => UNCHANGED agent
  BY DEF Restart, LinkBreaks, AgentDies
<1>6. UNCHANGED vars => UNCHANGED agent
  BY DEF vars
<1> QED
  BY <1>1, <1>2, <1>3, <1>4, <1>5, <1>6 DEF Next

\* Where the request that creates a run gets on.
LEMMA CallersMove ==
  ASSUME TypeOK, [Next]_vars, NEW r \in Run
  PROVE  \/ caller'[r] = caller[r]
         \/ caller'[r] = "gone" /\ Restart
         \/ \E a \in Agent : CheckAgent(r, a)
         \/ AddRun(r)
         \/ /\ caller[r] \notin {"idle", "checked", "gone"}
            /\ caller'[r] \notin {"idle", "checked"}
<1> DEFINE Goal == \/ caller'[r] = caller[r]
                   \/ caller'[r] = "gone" /\ Restart
                   \/ \E a \in Agent : CheckAgent(r, a)
                   \/ AddRun(r)
                   \/ /\ caller[r] \notin {"idle", "checked", "gone"}
                      /\ caller'[r] \notin {"idle", "checked"}
<1> SUFFICES Goal
  OBVIOUS
<1> USE DEF stageVars, agentVars, counters, rowVars, serverVars
<1>1. caller \in [Run -> CallerState]
  BY DEF TypeOK
<1>2. UNCHANGED caller => Goal
  OBVIOUS
<1>3. ASSUME NEW q \in Run, Request(q) PROVE Goal
  <2>1. CASE (\E a \in Agent : CheckAgent(q, a)) \/ AddRun(q)
    <3>1. \E place : caller' = [caller EXCEPT ![q] = place]
      BY <2>1 DEF CheckAgent, AddRun, Moved
    <3> QED
      BY <1>1, <2>1, <3>1
  <2>2. CASE ~ ((\E a \in Agent : CheckAgent(q, a)) \/ AddRun(q))
    <3>1. \/ UNCHANGED caller
          \/ /\ caller[q] \notin {"idle", "checked", "gone"}
             /\ \E place \in CallerState \ {"idle", "checked"} :
                  caller' = [caller EXCEPT ![q] = place]
      BY <1>3, <2>2
      DEF Request, Snapshot, Send, SendFails, StopWaiting, TakeAnswer, Finalize, Moved, CallerState
    <3> QED
      BY <1>1, <1>2, <3>1
  <2> QED
    BY <2>1, <2>2
<1>4. CASE Restart \/ \E a \in Agent : LinkBreaks(a) \/ AgentDies(a)
  BY <1>1, <1>4 DEF Restart, LinkBreaks, AgentDies
<1>5. ASSUME NEW q \in Run, Stop(q) \/ Operator(q) \/ ReadEvent(q) \/ GoQuiet(q)
                            \/ CheckOrphan(q) \/ Execute(q)
      PROVE  UNCHANGED caller
  BY <1>5
  DEF Stop, PrepareStop, AgentStops, StopUnanswered, FinalizeCancelled, Operator,
      CheckApproval, CheckRetry, ReportShot, ReportAgain, ReadEvent, GoQuiet, CheckOrphan, Execute,
      StartCase, Prepare, StartFails, SkipStep, BeginStep, EndStep, AbortRun, FinishCase
<1>6. ASSUME NEW t \in txn, Commit(t) PROVE UNCHANGED caller
  BY <1>6
  DEF Commit, Approve, Reject, Retry, AdvanceStage, RecordProgress, RecordFinish, Recover, Reassess
<1> HIDE DEF Goal
<1> QED
  BY <1>2, <1>3, <1>4, <1>5, <1>6 DEF Next, vars

\* A stop begins on a run that is RUNNING.
LEMMA StoppersMove ==
  ASSUME TypeOK, [Next]_vars, NEW r \in Run
  PROVE  \/ stopper'[r] = stopper[r]
         \/ stopper'[r] = "done"
         \/ status[r] = "RUNNING"
         \/ stopper[r] = "asking"
<1> DEFINE Goal == \/ stopper'[r] = stopper[r]
                   \/ stopper'[r] = "done"
                   \/ status[r] = "RUNNING"
                   \/ stopper[r] = "asking"
<1> SUFFICES Goal
  OBVIOUS
<1> USE DEF stageVars, agentVars, counters, rowVars, serverVars
<1>1. stopper \in [Run -> StopState]
  BY DEF TypeOK
<1>2. UNCHANGED stopper => Goal
  OBVIOUS
<1>3. ASSUME NEW q \in Run, Stop(q) PROVE Goal
  <2>1. \E place : /\ stopper' = [stopper EXCEPT ![q] = place]
                   /\ place = "done" \/ status[q] = "RUNNING" \/ stopper[q] = "asking"
    BY <1>3 DEF Stop, PrepareStop, AgentStops, StopUnanswered, FinalizeCancelled
  <2> QED
    BY <1>1, <2>1
<1>4. Restart => Goal
  BY <1>1 DEF Restart
<1>5. (\E a \in Agent : LinkBreaks(a) \/ AgentDies(a)) => UNCHANGED stopper
  BY DEF LinkBreaks, AgentDies
<1>6. ASSUME NEW q \in Run, Request(q) \/ Operator(q) \/ ReadEvent(q) \/ GoQuiet(q)
                            \/ CheckOrphan(q) \/ Execute(q)
      PROVE  UNCHANGED stopper
  BY <1>6
  DEF Request, CheckAgent, AddRun, Snapshot, Send, SendFails, StopWaiting, TakeAnswer, Finalize,
      Operator, CheckApproval, CheckRetry, ReportShot, ReportAgain, ReadEvent, GoQuiet, CheckOrphan, Execute,
      StartCase, Prepare, StartFails, SkipStep, BeginStep, EndStep, AbortRun, FinishCase
<1>7. ASSUME NEW t \in txn, Commit(t) PROVE UNCHANGED stopper
  BY <1>7
  DEF Commit, Approve, Reject, Retry, AdvanceStage, RecordProgress, RecordFinish, Recover, Reassess
<1> HIDE DEF Goal
<1> QED
  BY <1>2, <1>3, <1>4, <1>5, <1>6, <1>7 DEF Next, vars

\* Only the insertion makes a row, and no row goes away.
LEMMA RowsAreAdded ==
  ASSUME LeaseKept, [Next]_vars, NEW r \in Run
  PROVE  /\ status'[r] = "none" => status[r] = "none"
         /\ status[r] = "none" => status'[r] = "none" \/ AddRun(r)
<1>1. status \in [Run -> RunStatus]
  BY DEF LeaseKept, Typed, TypeOK
<1>2. ASSUME NEW q \in Run, AddRun(q)
      PROVE  status'[q] = "RUNNING" /\ \A x \in Run : x # q => status'[x] = status[x]
  BY <1>1, <1>2 DEF AddRun, Conclude
<1> QED
  BY <1>2, OutcomesChange DEF Ended

LEMMA NothingBeforeRowStep == LeaseKept /\ [Next]_vars => NothingBeforeRow'
<1> SUFFICES ASSUME LeaseKept, [Next]_vars, NEW r \in Run
             PROVE  /\ caller'[r] \in {"idle", "checked"} => status'[r] = "none"
                    /\ caller'[r] = "checked" => agent'[r] \in Agent
                    /\ status'[r] = "none" =>
                         /\ caller'[r] \in {"idle", "checked", "gone"}
                         /\ stopper'[r] \in {"idle", "done"}
                         /\ exec'[r].phase = "none" /\ InTransit(r)' = {}
                         /\ \A k \in Stage : stage'[r][k] = "none" /\ shots'[r][k] = "none"
                         /\ \A t \in txn' : t.run # r
  BY DEF NothingBeforeRow
<1>0. TypeOK /\ Typed /\ NothingBeforeRow
  BY DEF LeaseKept, Typed
<1>1. /\ caller \in [Run -> CallerState] /\ agent \in [Run -> Agent \cup {NoAgent}]
  BY <1>0 DEF TypeOK
<1>2. ASSUME AddRun(r) PROVE caller'[r] = "added" /\ status'[r] = "RUNNING"
  <2>1. status \in [Run -> RunStatus]
    BY <1>0 DEF TypeOK
  <2> QED
    BY <1>1, <1>2, <2>1 DEF AddRun, Moved, Conclude
<1>3. ASSUME NEW a \in Agent, CheckAgent(r, a)
      PROVE  caller[r] = "idle" /\ caller'[r] = "checked" /\ agent'[r] = a /\ UNCHANGED status
  BY <1>1, <1>3 DEF CheckAgent, Moved
<1>4. status[r] = "none" /\ ~ AddRun(r) => status'[r] = "none"
  BY RowsAreAdded
<1>5. ASSUME caller'[r] \in {"idle", "checked"} PROVE status'[r] = "none"
  <2>1. caller[r] \in {"idle", "checked"}
    BY <1>0, <1>2, <1>3, <1>5, CallersMove
  <2>2. status[r] = "none"
    BY <1>0, <2>1 DEF NothingBeforeRow
  <2> QED
    BY <1>2, <1>4, <1>5, <2>2
<1>6. ASSUME caller'[r] = "checked" PROVE agent'[r] \in Agent
  <2>1. CASE \E a \in Agent : CheckAgent(r, a)
    BY <1>3, <2>1
  <2>2. CASE ~ \E a \in Agent : CheckAgent(r, a)
    <3>1. caller[r] = "checked"
      BY <1>0, <1>2, <1>6, <2>2, CallersMove
    <3>2. agent'[r] = agent[r]
      BY <1>0, <2>2, AgentsAreChosen
    <3> QED
      BY <1>0, <3>1, <3>2 DEF NothingBeforeRow
  <2> QED
    BY <2>1, <2>2
<1>7. ASSUME status'[r] = "none"
      PROVE  /\ caller'[r] \in {"idle", "checked", "gone"}
             /\ stopper'[r] \in {"idle", "done"}
             /\ exec'[r].phase = "none" /\ InTransit(r)' = {}
             /\ \A k \in Stage : stage'[r][k] = "none" /\ shots'[r][k] = "none"
             /\ \A t \in txn' : t.run # r
  <2>1. /\ status[r] = "none" /\ ~ AddRun(r)
        /\ caller[r] \in {"idle", "checked", "gone"} /\ stopper[r] \in {"idle", "done"}
        /\ exec[r].phase = "none" /\ InTransit(r) = {}
        /\ \A k \in Stage : stage[r][k] = "none" /\ shots[r][k] = "none"
        /\ \A t \in txn : t.run # r
    BY <1>0, <1>2, <1>7, RowsAreAdded DEF NothingBeforeRow
  <2>2. caller'[r] \in {"idle", "checked", "gone"}
    BY <1>0, <1>3, <2>1, CallersMove
  <2>3. stopper'[r] \in {"idle", "done"}
    BY <1>0, <2>1, StoppersMove
  <2>4. ~ Execute(r)
    <3>1. Execute(r) => ExecutionStep(r)
      BY <1>0, ExecutionSteps
    <3> QED
      BY <2>1, <3>1 DEF ExecutionStep
  <2>5. exec'[r].phase = "none" /\ InTransit(r)' = {}
    <3>1. CASE \E q \in Run : Execute(q)
      BY <1>0, <2>1, <2>4, <3>1, OthersRest
    <3>2. CASE ~ \E q \in Run : Execute(q)
      <4>1. Untouched(r)
        BY <1>0, <3>2, OnlyExecutionProduces
      <4> QED
        BY <2>1, <4>1 DEF Untouched
    <3> QED
      BY <3>1, <3>2
  <2>6. ASSUME NEW k \in Stage PROVE stage'[r][k] = "none" /\ shots'[r][k] = "none"
    <3>1. ~ StageCause(r, k)
      BY <2>1 DEF StageCause
    <3>2. shots'[r][k] = shots[r][k]
      BY <1>0, <2>1, ShotsStand
    <3> QED
      BY <1>0, <2>1, <3>1, <3>2, StagesMoveForAReason
  <2>7. ASSUME NEW t \in txn', t.run = r PROVE FALSE
    <3>1. t \notin txn
      BY <2>1, <2>7
    <3>2. CASE JustRead(t)
      <4>1. /\ \A k \in Stage : stage[t.run][k] = "none" /\ shots[t.run][k] = "none"
            /\ status[t.run] = "none" /\ InTransit(t.run) = {}
        BY <2>1, <2>7
      <4> QED
        BY <3>2, <4>1 DEF JustRead
    <3>3. CASE SecondOf(t)
      BY <2>1, <2>7, <3>3 DEF SecondOf
    <3> QED
      BY <1>0, <3>1, <3>2, <3>3, TransactionsReadFirst
  <2> QED
    BY <2>2, <2>3, <2>5, <2>6, <2>7
<1> QED
  BY <1>5, <1>6, <1>7

LEMMA InitLease == Init => LeaseKept
<1>1. ASSUME Init PROVE NothingBeforeRow
  <2> SUFFICES ASSUME NEW r \in Run
               PROVE  /\ status[r] = "none" /\ caller[r] = "idle" /\ stopper[r] = "idle"
                      /\ exec[r].phase = "none" /\ wire[r] = <<>>
                      /\ \A k \in Stage : stage[r][k] = "none" /\ shots[r][k] = "none"
                      /\ txn = {}
    BY DEF NothingBeforeRow, InTransit
  <2>1. stage[r] = [k \in Stage |-> "none"] /\ shots[r] = [k \in Stage |-> "none"]
    BY <1>1 DEF Init, NoStages
  <2>2. exec[r] = [phase |-> "none", pos |-> 0, cancel |-> FALSE, ok |-> TRUE]
    BY <1>1 DEF Init
  <2> QED
    BY <1>1, <2>1, <2>2 DEF Init
<1> QED
  BY <1>1, InitTyped, InitApprovals, InitInv DEF LeaseKept

LEMMA LeaseKeptStep == LeaseKept /\ [Next]_vars => LeaseKept'
BY NothingBeforeRowStep, TypedStep, ApprovalStep, InvStep DEF LeaseKept

LEMMA LeaseKeptHolds == Spec => []LeaseKept
BY InitLease, LeaseKeptStep, PTL DEF Spec

\* Where a run stands with its Agent, from its row and the request behind it.
Standing(s, c) ==
  IF s = "none" THEN CASE c = "checked" -> "looking" [] c = "gone" -> "over" [] OTHER -> "new"
  ELSE IF s = "RUNNING" THEN "leasing" ELSE "over"

LEMMA LeasingStands ==
  ASSUME TypeOK, TypeOK'
  PROVE  /\ Leasing = [r \in Run |-> Standing(status[r], caller[r])]
         /\ Leasing' = [r \in Run |-> Standing(status'[r], caller'[r])]
<1>1. /\ LeasePhase["RUNNING"] = "leasing"
      /\ \A s \in Ended : LeasePhase[s] = "over"
  BY DEF LeasePhase, Ended
<1>2. ASSUME NEW s \in RunStatus, s # "none"
      PROVE  LeasePhase[s] = IF s = "RUNNING" THEN "leasing" ELSE "over"
  BY <1>1, <1>2 DEF RunStatus
<1>3. \A r \in Run : status[r] \in RunStatus /\ status'[r] \in RunStatus
  BY DEF TypeOK
<1>4. ASSUME NEW r \in Run PROVE Leasing[r] = Standing(status[r], caller[r])
  BY <1>2, <1>3 DEF Leasing, Looking, Standing
<1>5. ASSUME NEW r \in Run PROVE Leasing'[r] = Standing(status'[r], caller'[r])
  BY <1>2, <1>3 DEF Leasing, Looking, Standing
<1>6. /\ Leasing = [r \in Run |-> Leasing[r]]
      /\ Leasing' = [r \in Run |-> Leasing'[r]]
  BY DEF Leasing
<1> QED
  BY <1>4, <1>5, <1>6

\* Whatever the code does to rows and requests, the lease takes a step of its
\* own or none.
LEMMA LeaseStep ==
  ASSUME LeaseKept, TypeOK', [Next]_vars
  PROVE  [Lease!Next]_(Lease!leaseVars)
<1> USE DEF rowVars, stageVars, serverVars
<1>0. TypeOK /\ NothingBeforeRow
  BY DEF LeaseKept, Typed
<1>1. /\ status \in [Run -> RunStatus] /\ caller \in [Run -> CallerState]
      /\ agent \in [Run -> Agent \cup {NoAgent}]
  BY <1>0 DEF TypeOK
<1>2. /\ Leasing = [r \in Run |-> Standing(status[r], caller[r])]
      /\ Leasing' = [r \in Run |-> Standing(status'[r], caller'[r])]
  BY <1>0, LeasingStands
<1>3. \A r \in Run :
        /\ caller[r] \in {"idle", "checked"} => status[r] = "none"
        /\ status[r] = "none" => caller[r] \in {"idle", "checked", "gone"}
  BY <1>0 DEF NothingBeforeRow
<1>4. ASSUME NEW r \in Run, NEW a \in Agent, CheckAgent(r, a) PROVE Lease!Look(r, a)
  <2>1. /\ caller[r] = "idle" /\ AgentFree(r, a) /\ agent' = [agent EXCEPT ![r] = a]
        /\ caller' = [caller EXCEPT ![r] = "checked"] /\ UNCHANGED status
    BY <1>4 DEF CheckAgent, Moved
  <2>2. status[r] = "none"
    BY <1>3, <2>1
  <2>3. Leasing[r] = "new"
    BY <1>2, <2>1, <2>2 DEF Standing
  <2>4. ~ Lease!Leased(a)
    <3> SUFFICES ASSUME NEW q \in Run, Leasing[q] = "leasing", agent[q] = a PROVE FALSE
      BY DEF Lease!Leased
    <3>1. status[q] = "RUNNING"
      BY <1>2 DEF Standing
    <3> QED
      BY <2>1, <3>1 DEF AgentFree
  <2>5. Leasing' = [Leasing EXCEPT ![r] = "looking"]
    BY <1>1, <1>2, <2>1, <2>2 DEF Standing
  <2> QED
    BY <2>1, <2>3, <2>4, <2>5 DEF Lease!Look, Lease!Becomes
<1>5. ASSUME NEW r \in Run, AddRun(r) PROVE Lease!Take(r)
  <2>1. /\ caller[r] = "checked" /\ caller' = [caller EXCEPT ![r] = "added"]
        /\ status' = [status EXCEPT ![r] = "RUNNING"] /\ UNCHANGED agent
    BY <1>5 DEF AddRun, Conclude, Moved
  <2>2. Leasing[r] = "looking"
    BY <1>2, <1>3, <2>1 DEF Standing
  <2>3. Leasing' = [Leasing EXCEPT ![r] = "leasing"]
    BY <1>1, <1>2, <2>1 DEF Standing
  <2> QED
    BY <2>1, <2>2, <2>3 DEF Lease!Take, Lease!Becomes
<1>6. CASE Restart
  <2> DEFINE dead == {r \in Run : caller[r] = "checked"}
  <2>1. /\ caller' = [r \in Run |-> IF caller[r] \in {"idle", "done"} THEN caller[r] ELSE "gone"]
        /\ UNCHANGED status /\ UNCHANGED agent
    BY <1>6 DEF Restart
  <2>2. \A r \in dead : Leasing[r] = "looking"
    BY <1>2, <1>3 DEF Standing
  <2>3. ASSUME NEW r \in Run PROVE Leasing'[r] = IF r \in dead THEN "over" ELSE Leasing[r]
    BY <1>2, <1>3, <2>1 DEF Standing
  <2>4. Leasing' = [r \in Run |-> IF r \in dead THEN "over" ELSE Leasing[r]]
    BY <1>2, <2>3
  <2>5. Lease!Drop(dead) /\ dead \in SUBSET Run
    BY <2>1, <2>2, <2>4 DEF Lease!Drop
  <2> QED
    BY <2>5 DEF Lease!Next
<1>7. CASE /\ ~ \E r \in Run : AddRun(r) \/ \E a \in Agent : CheckAgent(r, a)
           /\ ~ Restart
  <2>1. UNCHANGED agent
    <3>1. \A r \in Run : agent'[r] = agent[r]
      BY <1>0, <1>7, AgentsAreChosen
    <3>2. agent' \in [Run -> Agent \cup {NoAgent}]
      BY DEF TypeOK
    <3> QED
      BY <1>1, <3>1, <3>2
  <2>2. ASSUME NEW r \in Run, status[r] = "none" PROVE Leasing'[r] = Leasing[r]
    <3>1. status'[r] = "none"
      BY <1>7, <2>2, RowsAreAdded
    <3>2. caller'[r] = caller[r]
      BY <1>0, <1>3, <1>7, <2>2, CallersMove
    <3> QED
      BY <1>2, <2>2, <3>1, <3>2
  <2>3. ASSUME NEW r \in Run, status[r] # "none", status'[r] = status[r] PROVE Leasing'[r] = Leasing[r]
    BY <1>2, <2>3 DEF Standing
  <2>4. CASE UNCHANGED status
    <3>1. \A r \in Run : Leasing'[r] = Leasing[r]
      BY <2>2, <2>3, <2>4
    <3>2. UNCHANGED Leasing
      BY <1>2, <3>1
    <3> QED
      BY <2>1, <3>2 DEF Lease!leaseVars
  <2>5. ASSUME NEW r \in Run, status[r] # "none", status'[r] \in Ended,
               \A q \in Run : q # r => status'[q] = status[q]
        PROVE  Lease!GiveBack(r) \/ UNCHANGED Leasing
    <3>1. \A q \in Run : q # r => Leasing'[q] = Leasing[q]
      BY <2>2, <2>3, <2>5
    <3>2. Leasing'[r] = "over" /\ Leasing[r] \in {"leasing", "over"}
      BY <1>2, <2>5 DEF Standing, Ended
    <3>3. CASE Leasing[r] = "over"
      <4>1. \A q \in Run : Leasing'[q] = Leasing[q]
        BY <3>1, <3>2, <3>3
      <4> QED
        BY <1>2, <4>1
    <3>4. CASE Leasing[r] = "leasing"
      <4>1. Leasing' = [Leasing EXCEPT ![r] = "over"]
        BY <1>2, <3>1, <3>2
      <4> QED
        BY <2>1, <3>4, <4>1 DEF Lease!GiveBack, Lease!Becomes
    <3> QED
      BY <3>2, <3>3, <3>4
  <2>6. \/ UNCHANGED status
        \/ \E r \in Run : /\ status[r] # "none" /\ status'[r] \in Ended
                          /\ \A q \in Run : q # r => status'[q] = status[q]
    BY <1>7, OutcomesChange
  <2> QED
    BY <2>1, <2>4, <2>5, <2>6 DEF Lease!Next, Lease!leaseVars
<1> QED
  BY <1>4, <1>5, <1>6, <1>7 DEF Lease!Next

\* Whoever writes the rows of runs, in whatever order of requests, stops,
\* approvals, events, recovery and restarts, the runs keep a lease of their
\* Agents: each takes the Agent it found free when it looked, once, and gives
\* it back once.
THEOREM RunsImplementLease == Spec => ImplementsLease
<1>1. ASSUME Init PROVE Lease!Init
  <2>1. \A r \in Run : status[r] = "none" /\ caller[r] = "idle" /\ agent[r] = NoAgent
    BY <1>1 DEF Init
  <2>2. \A r \in Run : Leasing[r] = "new"
    BY <2>1 DEF Leasing, Looking
  <2>3. Leasing = [r \in Run |-> "new"]
    BY <2>2 DEF Leasing
  <2>4. agent = [r \in Run |-> NoAgent]
    BY <1>1 DEF Init
  <2> QED
    BY <2>3, <2>4 DEF Lease!Init
<1>2. LeaseKept /\ LeaseKept' /\ [Next]_vars => [Lease!Next]_(Lease!leaseVars)
  <2>1. LeaseKept' => TypeOK'
    BY DEF LeaseKept, Typed
  <2> QED
    BY <2>1, LeaseStep
<1> QED
  BY <1>1, <1>2, LeaseKeptHolds, PTL DEF Spec, ImplementsLease, Lease!Spec

----------------------------------------------------------------------------
(* What is closed.  A transaction decides on the rows it has read, which   *)
(* never change for it; what it overwrites may be another matter.          *)

Judgements ==
  \A t \in txn :
    /\ t.op \in {"approve", "reject"} => t.was[t.at] = "WAITING_APPROVAL"
    /\ t.op = "retry" => t.was[t.at] = "FAILED"
    /\ t.op \in {"retry", "step"} => t.ran \notin Ended
    /\ t.op = "recover" => ~ Early(t.run)

\* The threshold of the recovery job is longer than the code before a wait.
NotYet == \A r \in Run : Early(r) => r \notin quiet /\ code[r] # "RUN_ORPHAN_RECOVERED"

LEMMA JudgementsStep ==
  LeaseKept /\ NotYet /\ Judgements /\ TypeOK' /\ [Next]_vars => Judgements'
<1> SUFFICES ASSUME LeaseKept, NotYet, Judgements, TypeOK', [Next]_vars, NEW x \in txn'
             PROVE  /\ x.op \in {"approve", "reject"} => x.was[x.at] = "WAITING_APPROVAL"
                    /\ x.op = "retry" => x.was[x.at] = "FAILED"
                    /\ x.op \in {"retry", "step"} => x.ran \notin Ended
                    /\ x.op = "recover" => ~ Early(x.run)'
  BY DEF Judgements
<1>1. TypeOK /\ x.run \in Run
  BY DEF LeaseKept, Typed, TypeOK, Txn
<1>2. Early(x.run)' => Early(x.run)
  BY <1>1, CallersGoOn
<1>3. CASE x \in txn
  BY <1>2, <1>3 DEF Judgements
<1>4. CASE SecondOf(x)
  BY <1>4 DEF SecondOf
<1>5. CASE JustRead(x)
  BY <1>1, <1>2, <1>5 DEF JustRead, EventOp, NotYet
<1> QED
  BY <1>1, <1>3, <1>4, <1>5, TransactionsReadFirst

LEMMA OnlyRecoveryMarks ==
  ASSUME TypeOK, [Next]_vars, NEW r \in Run, code'[r] = "RUN_ORPHAN_RECOVERED",
         code[r] # "RUN_ORPHAN_RECOVERED"
  PROVE  \E t \in txn : t.run = r /\ Recover(t)
<1> USE DEF rowVars
<1>1. code \in [Run -> ErrorCode]
  BY DEF TypeOK
<1>2. ASSUME NEW q \in Run, NEW why \in ErrorCode \ {"RUN_ORPHAN_RECOVERED"},
             code' = [code EXCEPT ![q] = why]
      PROVE  FALSE
  BY <1>1, <1>2
<1>3. ASSUME NEW q \in Run, AddRun(q) \/ Finalize(q) \/ FinalizeCancelled(q) PROVE FALSE
  BY <1>2, <1>3 DEF AddRun, Finalize, FinalizeCancelled, Conclude, ErrorCode
<1>4. ASSUME NEW t \in txn, Commit(t), ~ Recover(t) PROVE FALSE
  <2>1. \/ \E why \in {"", "EXECUTION_FAILED", "STAGE_REJECTED"} : code' = [code EXCEPT ![t.run] = why]
        \/ UNCHANGED code
    BY <1>4
    DEF Commit, Approve, Reject, Retry, AdvanceStage, RecordProgress, RecordFinish,
        Reassess, Conclude
  <2> QED
    BY <1>2, <2>1 DEF TypeOK, Txn, ErrorCode
<1>5. ASSUME NEW t \in txn, Recover(t) PROVE t.run = r
  BY <1>1, <1>5 DEF Recover, EndOrphan, Conclude
<1>6. ASSUME NEW q \in Run, Request(q) \/ Stop(q) \/ Operator(q) \/ ReadEvent(q) \/ GoQuiet(q)
                            \/ CheckOrphan(q) \/ Execute(q)
      PROVE  Finalize(q) \/ AddRun(q) \/ FinalizeCancelled(q) \/ UNCHANGED code
  BY <1>6
  DEF Request, CheckAgent, Snapshot, Send, SendFails, StopWaiting, TakeAnswer,
      Stop, PrepareStop, AgentStops, StopUnanswered, Operator,
      CheckApproval, CheckRetry, ReportShot, ReportAgain, ReadEvent, GoQuiet, CheckOrphan, Execute,
      StartCase, Prepare, StartFails, SkipStep, BeginStep, EndStep, AbortRun, FinishCase
<1>7. Restart \/ (\E a \in Agent : LinkBreaks(a) \/ AgentDies(a)) => UNCHANGED code
  BY DEF Restart, LinkBreaks, AgentDies
<1>8. UNCHANGED vars => UNCHANGED code
  BY DEF vars
<1> QED
  BY <1>3, <1>4, <1>5, <1>6, <1>7, <1>8 DEF Next

\* A run that is quiet has become so after its request passed the snapshot.
LEMMA QuietIsLate ==
  ASSUME TypeOK, NothingBeforeRow, [Next]_vars, NEW r \in Run, r \in quiet', r \notin quiet
  PROVE  ~ Early(r)
<1> USE DEF rowVars, Touch, Conclude
<1>1. ASSUME NEW q \in Run, GoQuiet(q) PROVE ~ Early(r)
  BY <1>1 DEF GoQuiet, Early, NothingBeforeRow
<1>2. ASSUME NEW q \in Run, Request(q) \/ Stop(q) \/ Operator(q) \/ ReadEvent(q)
                            \/ CheckOrphan(q) \/ Execute(q)
      PROVE  quiet' \subseteq quiet
  BY <1>2
  DEF Request, CheckAgent, AddRun, Snapshot, Send, SendFails, StopWaiting, TakeAnswer, Finalize,
      Stop, PrepareStop, AgentStops, StopUnanswered, FinalizeCancelled, Operator,
      CheckApproval, CheckRetry, ReportShot, ReportAgain, ReadEvent, CheckOrphan, Execute,
      StartCase, Prepare, StartFails, SkipStep, BeginStep, EndStep, AbortRun, FinishCase
<1>3. Restart \/ (\E a \in Agent : LinkBreaks(a) \/ AgentDies(a)) => UNCHANGED quiet
  BY DEF Restart, LinkBreaks, AgentDies
<1>4. ASSUME NEW t \in txn, Commit(t) PROVE quiet' \subseteq quiet
  BY <1>4
  DEF Commit, Approve, Reject, Retry, AdvanceStage, RecordProgress, RecordFinish, Recover, Reassess, EndOrphan
<1>5. UNCHANGED vars => UNCHANGED quiet
  BY DEF vars
<1> QED
  BY <1>1, <1>2, <1>3, <1>4, <1>5 DEF Next

LEMMA NotYetStep ==
  ASSUME LeaseKept, NotYet, Judgements, [Next]_vars
  PROVE  NotYet'
<1> SUFFICES ASSUME NEW r \in Run, Early(r)'
             PROVE  r \notin quiet' /\ code'[r] # "RUN_ORPHAN_RECOVERED"
  BY DEF NotYet
<1>1. TypeOK /\ NothingBeforeRow
  BY DEF LeaseKept, Typed
<1>2. Early(r)
  BY <1>1, CallersGoOn
<1>3. r \notin quiet /\ code[r] # "RUN_ORPHAN_RECOVERED"
  BY <1>2 DEF NotYet
<1>4. r \notin quiet'
  BY <1>1, <1>2, <1>3, QuietIsLate
<1>5. ASSUME NEW t \in txn, t.run = r, Recover(t) PROVE FALSE
  BY <1>2, <1>5 DEF Recover, Judgements
<1> QED
  BY <1>1, <1>3, <1>4, <1>5, OnlyRecoveryMarks

\* Only a transaction that finds its rows changed makes a run stale, for good.
LEMMA StaleGrows ==
  ASSUME [Next]_vars
  PROVE  stale \subseteq stale'
<1> USE DEF serverVars, NoteStale, Read
<1>1. ASSUME NEW r \in Run, Request(r) \/ Stop(r) \/ Operator(r) \/ ReadEvent(r) \/ GoQuiet(r)
                            \/ CheckOrphan(r) \/ Execute(r)
      PROVE  UNCHANGED stale
  BY <1>1
  DEF Request, CheckAgent, AddRun, Snapshot, Send, SendFails, StopWaiting, TakeAnswer, Finalize,
      Stop, PrepareStop, AgentStops, StopUnanswered, FinalizeCancelled, Operator,
      CheckApproval, CheckRetry, ReportShot, ReportAgain, ReadEvent, GoQuiet, CheckOrphan, Execute,
      StartCase, Prepare, StartFails, SkipStep, BeginStep, EndStep, AbortRun, FinishCase
<1>2. ASSUME NEW t \in txn, Commit(t) PROVE stale \subseteq stale'
  BY <1>2
  DEF Commit, Approve, Reject, Retry, AdvanceStage, RecordProgress, RecordFinish, Recover, Reassess
<1>3. Restart \/ (\E a \in Agent : LinkBreaks(a) \/ AgentDies(a)) => UNCHANGED stale
  BY DEF Restart, LinkBreaks, AgentDies
<1> QED
  BY <1>1, <1>2, <1>3 DEF Next, vars

LEMMA CloseKept ==
  ASSUME NEW t \in txn, NoteStale(t), t.run \notin stale'
  PROVE  t.ran = status[t.run] /\ t.was = stage[t.run]
BY DEF NoteStale, Overtaken

Closing == LeaseKept /\ Judgements /\ NotYet /\ RecoveredRunIsClosed

LEMMA ClosedStep ==
  ASSUME Closing, [Next]_vars
  PROVE  RecoveredRunIsClosed'
<1> SUFFICES ASSUME NEW r \in Run, r \notin stale', code'[r] = "RUN_ORPHAN_RECOVERED",
                    NEW k \in Stage
             PROVE  stage'[r][k] \in StageEnded \cup {"none"}
  BY DEF RecoveredRunIsClosed
<1>1. TypeOK /\ OutcomeIsCoherent
  BY DEF Closing, LeaseKept, Typed, Inv
<1>2. r \notin stale
  BY StaleGrows
<1>3. CASE code[r] = "RUN_ORPHAN_RECOVERED"
  <2>1. stage[r][k] \in StageEnded \cup {"none"} /\ ~ Early(r)
    BY <1>2, <1>3 DEF Closing, RecoveredRunIsClosed, NotYet
  <2>2. status[r] = "FAILED"
    <3>1. status[r] \in RunStatus
      BY <1>1 DEF TypeOK
    <3>2. /\ status[r] \in {"none", "RUNNING", "SUCCESS"} => code[r] = ""
          /\ status[r] = "CANCELLED" => code[r] \in {"RUN_CANCELLED", "STAGE_REJECTED"}
      BY <1>1 DEF OutcomeIsCoherent
    <3> QED
      BY <1>3, <3>1, <3>2 DEF RunStatus, Ended
  <2>3. ASSUME stage'[r][k] # stage[r][k] PROVE FALSE
    <3>1. StageCause(r, k)
      BY <1>1, <2>3, StagesMoveForAReason
    <3>2. PICK t \in txn :
            /\ t.run = r /\ NoteStale(t)
            /\ \/ t.op \in {"approve", "reject"} /\ t.at = k
               \/ t.op \in {"retry", "step"}
               \/ t.op = "recover" /\ t.was[k] \in StageOpen \cup {"RUNNING"}
      BY <2>1, <3>1 DEF StageCause, Early
    <3>3. t.ran = "FAILED" /\ t.was = stage[r]
      BY <2>2, <3>2, CloseKept
    <3>4. /\ t.op \in {"approve", "reject"} => t.was[t.at] = "WAITING_APPROVAL"
          /\ t.op \in {"retry", "step"} => t.ran \notin Ended
      BY DEF Closing, Judgements
    <3> QED
      BY <2>1, <3>2, <3>3, <3>4 DEF StageEnded, StageOpen, Ended
  <2> QED
    BY <2>1, <2>3
<1>4. CASE code[r] # "RUN_ORPHAN_RECOVERED"
  <2>1. PICK t \in txn : t.run = r /\ Recover(t)
    BY <1>1, <1>4, OnlyRecoveryMarks
  <2>2. t.was = stage[r]
    BY <2>1, CloseKept DEF Recover
  <2> DEFINE closed == CloseStages(t, stage[r])
  <2>3. stage' = [stage EXCEPT ![r] = closed]
    BY <2>1 DEF Recover
  <2>4. closed[k] = IF stage[r][k] = "RUNNING" THEN "FAILED"
                    ELSE IF stage[r][k] \in StageOpen THEN "SKIPPED"
                    ELSE stage[r][k]
    BY <2>2 DEF CloseStages
  <2>5. stage[r][k] \in StageStatus
    BY <1>1 DEF TypeOK
  <2> HIDE DEF closed
  <2>6. stage'[r][k] = closed[k]
    BY <1>1, <2>3 DEF TypeOK
  <2> QED
    BY <2>4, <2>5, <2>6 DEF StageStatus, StageEnded
<1> QED
  BY <1>3, <1>4

\* What an outcome of a stage gives way to.
LEMMA OutcomesGiveWay ==
  ASSUME Closing, [Next]_vars, NEW r \in Run, NEW k \in Stage,
         stage[r][k] \in StageEnded, stage'[r][k] # stage[r][k]
  PROVE  \E t \in txn \ txn' :
           /\ t.run = r
           /\ \/ t.was[k] # stage[r][k]
              \/ /\ t.op = "retry" /\ t.at = k /\ stage[r][k] = "FAILED"
                 /\ stage'[r][k] \in StageOpen
<1>1. StageCause(r, k)
  BY StagesMoveForAReason DEF Closing, LeaseKept, Typed
<1>2. caller[r] # "added"
  BY DEF Closing, LeaseKept, ApprovalInv, NothingBeforeSnapshot, Early, StageEnded
<1>3. PICK t \in txn :
        /\ t.run = r /\ t \notin txn'
        /\ \/ t.op \in {"approve", "reject"} /\ t.at = k
           \/ t.op = "retry" /\ t.at = k /\ stage'[r][k] \in StageOpen
           \/ ~ Closed(t.was[k])
           \/ t.was[k] \in StageOpen \cup {"RUNNING"}
  BY <1>1, <1>2 DEF StageCause
<1>4. /\ t.op \in {"approve", "reject"} => t.was[t.at] = "WAITING_APPROVAL"
      /\ t.op = "retry" => t.was[t.at] = "FAILED"
  BY DEF Closing, Judgements
<1>5. CASE t.op \in {"approve", "reject"} /\ t.at = k
  BY <1>3, <1>4, <1>5 DEF StageEnded
<1>6. CASE t.op = "retry" /\ t.at = k /\ stage'[r][k] \in StageOpen
  BY <1>3, <1>4, <1>6
<1>7. CASE ~ Closed(t.was[k]) \/ t.was[k] \in StageOpen \cup {"RUNNING"}
  BY <1>3, <1>7 DEF Closed, StageEnded, StageOpen
<1> QED
  BY <1>3, <1>5, <1>6, <1>7

LEMMA ClosingHolds == Spec => []Closing
<1>1. Init => Judgements /\ NotYet /\ RecoveredRunIsClosed
  BY DEF Init, Judgements, NotYet, RecoveredRunIsClosed
<1>2. Init => LeaseKept
  BY InitLease
<1>3. LeaseKept /\ [Next]_vars => LeaseKept'
  BY LeaseKeptStep
<1>4. LeaseKept' => TypeOK'
  BY DEF LeaseKept, Typed
<1>5. Closing /\ [Next]_vars => Closing'
  BY <1>3, <1>4, JudgementsStep, NotYetStep, ClosedStep DEF Closing
<1> QED
  BY <1>1, <1>2, <1>5, PTL DEF Spec, Closing

\* What the recovery job has ended stays closed, whatever events, approvals,
\* retries and answers still come and however they overlap with it: a stage of
\* it moves again only where a transaction has committed on changed rows.
THEOREM RecoveredRunsStayClosed == Spec => []RecoveredRunIsClosed
<1>1. Closing => RecoveredRunIsClosed
  BY DEF Closing
<1> QED
  BY <1>1, ClosingHolds, PTL

\* A stage keeps its outcome but for a retry, which takes a FAILED one back,
\* and for transactions that have read it before it had that outcome.
THEOREM VerdictsStand == Spec => StageVerdictsStand
<1>1. Closing /\ [Next]_vars =>
        [\A r \in Run, k \in Stage :
           /\ stage[r][k] \in StageEnded
           /\ stage'[r][k] # stage[r][k]
           => \E t \in txn \ txn' :
                /\ t.run = r
                /\ \/ t.was[k] # stage[r][k]
                   \/ /\ t.op = "retry" /\ t.at = k /\ stage[r][k] = "FAILED"
                      /\ stage'[r][k] \in StageOpen]_vars
  BY OutcomesGiveWay
<1> QED
  BY <1>1, ClosingHolds, PTL DEF Spec, StageVerdictsStand

=============================================================================
