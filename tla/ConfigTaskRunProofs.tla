-------------------------- MODULE ConfigTaskRunProofs --------------------------
(***************************************************************************)
(* Runs of a configuration task, for any number of runs, Agents, stages,   *)
(* steps and overlapping transactions: every run has a coherent outcome    *)
(* and every WRITE stage the approval of its present round.                *)
(***************************************************************************)
EXTENDS ConfigTaskRun, TLAPS

RowsTyped ==
  /\ status \in [Run -> RunStatus]
  /\ business \in [Run -> RunStatus]
  /\ code \in [Run -> ErrorCode]
  /\ agent \in [Run -> Agent \cup {NoAgent}]
  /\ caller \in [Run -> CallerState]

Inv == RowsTyped /\ OutcomeIsCoherent

\* What the steps that write no outcome, Agent or caller leave alone.
decisive == <<status, business, code, agent, caller>>

USE ConfigTaskAssumption

----------------------------------------------------------------------------
LEMMA InitInv == Init => Inv
<1> SUFFICES ASSUME Init PROVE Inv
  OBVIOUS
<1>1. \A r \in Run : /\ status[r] = "none" /\ business[r] = "none"
                     /\ code[r] = "" /\ caller[r] = "idle"
  BY DEF Init
<1>2. RowsTyped
  BY DEF Init, RowsTyped, RunStatus, ErrorCode, CallerState
<1>3. OutcomeIsCoherent
  BY <1>1 DEF OutcomeIsCoherent
<1>4. QED
  BY <1>2, <1>3 DEF Inv

LEMMA NothingDecided == Inv /\ UNCHANGED decisive => Inv'
BY DEF Inv, RowsTyped, OutcomeIsCoherent, decisive

\* Ending a run with a verdict and its reason, whoever does it.
Verdict(r, verdict, why) ==
  \/ verdict = "SUCCESS" /\ why = ""
  \/ verdict = "FAILED" /\ why \in {"EXECUTION_FAILED", "AGENT_SEND_FAILED",
                                    "RUN_ORPHAN_RECOVERED"}
  \/ verdict = "CANCELLED" /\ why = "RUN_CANCELLED"

LEMMA EndingKeepsInv ==
  ASSUME Inv, NEW r, NEW verdict, NEW why, Verdict(r, verdict, why),
         Conclude(r, verdict, why), UNCHANGED agent,
         caller' \in [Run -> CallerState]
  PROVE  Inv'
<1>1. RowsTyped'
  BY DEF Inv, RowsTyped, Conclude, Verdict, RunStatus, Ended, ErrorCode
<1>2. OutcomeIsCoherent'
  BY DEF Inv, RowsTyped, OutcomeIsCoherent, Conclude, Verdict
<1>3. QED
  BY <1>1, <1>2 DEF Inv

\* The caller goes on without writing the row.
LEMMA CallerMovesOn ==
  ASSUME Inv, UNCHANGED <<status, business, code, agent>>,
         caller' \in [Run -> CallerState]
  PROVE  Inv'
BY DEF Inv, RowsTyped, OutcomeIsCoherent

----------------------------------------------------------------------------
LEMMA RequestKeepsInv ==
  ASSUME Inv, NEW r \in Run, Request(r)
  PROVE  Inv'
<1> USE DEF Inv, RowsTyped, CallerState, Moved
<1>1. ASSUME NEW a \in Agent, CheckAgent(r, a) PROVE Inv'
  <2>1. RowsTyped'
    BY <1>1 DEF CheckAgent
  <2>2. OutcomeIsCoherent'
    BY <1>1 DEF CheckAgent, OutcomeIsCoherent
  <2>3. QED
    BY <2>1, <2>2
<1>2. CASE AddRun(r)
  <2>1. RowsTyped'
    BY <1>2 DEF AddRun, Conclude, RunStatus, ErrorCode
  <2>2. OutcomeIsCoherent'
    BY <1>2 DEF AddRun, Conclude, OutcomeIsCoherent
  <2>3. QED
    BY <2>1, <2>2
<1>3. CASE Snapshot(r) \/ Send(r) \/ SendFails(r) \/ StopWaiting(r)
  BY <1>3, CallerMovesOn DEF Snapshot, Send, SendFails, StopWaiting, rowVars
<1>4. CASE TakeAnswer(r)
  BY <1>4, CallerMovesOn DEF TakeAnswer, rowVars
<1>5. CASE Finalize(r)
  BY <1>5, EndingKeepsInv DEF Finalize, Verdict
<1>6. QED
  BY <1>1, <1>2, <1>3, <1>4, <1>5 DEF Request

LEMMA StopKeepsInv ==
  ASSUME Inv, NEW r \in Run, Stop(r)
  PROVE  Inv'
<1>1. CASE PrepareStop(r) \/ AgentStops(r) \/ StopUnanswered(r)
  BY <1>1, NothingDecided DEF PrepareStop, AgentStops, StopUnanswered, decisive, rowVars
<1>2. CASE FinalizeCancelled(r)
  <2>1. Conclude(r, "CANCELLED", "RUN_CANCELLED") /\ UNCHANGED <<agent, caller>>
    BY <1>2 DEF FinalizeCancelled
  <2>2. QED
    BY <2>1, EndingKeepsInv DEF Verdict, Inv, RowsTyped
<1>3. QED
  BY <1>1, <1>2 DEF Stop

LEMMA OperatorKeepsInv ==
  ASSUME Inv, NEW r \in Run, Operator(r)
  PROVE  Inv'
<1>1. ASSUME NEW k \in Stage, NEW v \in {"approve", "reject"}, CheckApproval(r, k, v)
      PROVE  UNCHANGED decisive
  BY <1>1 DEF CheckApproval, decisive, rowVars
<1>2. ASSUME NEW k \in Stage, CheckRetry(r, k) PROVE UNCHANGED decisive
  BY <1>2 DEF CheckRetry, decisive, rowVars
<1>3. ASSUME NEW k \in Stage, ReportShot(r, k) PROVE UNCHANGED decisive
  BY <1>3 DEF ReportShot, decisive, rowVars, serverVars
<1>4. ASSUME NEW k \in Stage, ReportAgain(r, k) PROVE UNCHANGED decisive
  BY <1>4 DEF ReportAgain, decisive, rowVars
<1>5. QED
  BY <1>1, <1>2, <1>3, <1>4, NothingDecided DEF Operator

LEMMA CommitKeepsInv ==
  ASSUME Inv, NEW t \in txn, Commit(t)
  PROVE  Inv'
<1>1. CASE Approve(t) \/ Retry(t) \/ AdvanceStage(t) \/ RecordProgress(t) \/ Reassess(t)
  BY <1>1, NothingDecided
  DEF Approve, Retry, AdvanceStage, RecordProgress, Reassess, decisive, rowVars
<1>2. CASE Reject(t)
  <2>1. /\ status' = [status EXCEPT ![t.run] = "CANCELLED"]
        /\ code' = [code EXCEPT ![t.run] = "STAGE_REJECTED"]
        /\ UNCHANGED <<business, agent, caller>>
    BY <1>2 DEF Reject
  <2>2. RowsTyped'
    BY <2>1 DEF Inv, RowsTyped, RunStatus, Ended, ErrorCode
  <2>3. OutcomeIsCoherent'
    BY <2>1 DEF Inv, RowsTyped, OutcomeIsCoherent
  <2>4. QED
    BY <2>2, <2>3 DEF Inv
<1>3. CASE RecordFinish(t)
  BY <1>3, EndingKeepsInv DEF RecordFinish, Verdict, Inv, RowsTyped
<1>4. CASE Recover(t)
  BY <1>4, EndingKeepsInv DEF Recover, EndOrphan, Verdict, Inv, RowsTyped
<1>5. QED
  BY <1>1, <1>2, <1>3, <1>4 DEF Commit

LEMMA ExecuteKeepsInv ==
  ASSUME Inv, NEW r \in Run, Execute(r)
  PROVE  Inv'
<1>1. UNCHANGED decisive
  BY DEF Execute, StartCase, Prepare, StartFails, SkipStep, BeginStep, EndStep, AbortRun, FinishCase,
         decisive, rowVars, serverVars
<1>2. QED
  BY <1>1, NothingDecided

LEMMA InvStep == Inv /\ [Next]_vars => Inv'
<1> SUFFICES ASSUME Inv, [Next]_vars PROVE Inv'
  OBVIOUS
<1>1. CASE UNCHANGED vars
  BY <1>1, NothingDecided DEF vars, rowVars, serverVars, decisive
<1>2. ASSUME NEW r \in Run, ReadEvent(r) \/ GoQuiet(r) \/ CheckOrphan(r) PROVE Inv'
  BY <1>2, NothingDecided DEF ReadEvent, GoQuiet, CheckOrphan, rowVars, serverVars, decisive
<1>3. CASE Restart
  BY <1>3, CallerMovesOn DEF Restart, rowVars, Inv, RowsTyped, CallerState
<1>4. ASSUME NEW a \in Agent, LinkBreaks(a) PROVE Inv'
  BY <1>4, CallerMovesOn DEF LinkBreaks, rowVars, Inv, RowsTyped, CallerState
<1>5. ASSUME NEW a \in Agent, AgentDies(a) PROVE Inv'
  BY <1>5, NothingDecided DEF AgentDies, rowVars, serverVars, decisive
<1>6. QED
  BY <1>1, <1>2, <1>3, <1>4, <1>5, RequestKeepsInv, StopKeepsInv, OperatorKeepsInv,
     CommitKeepsInv, ExecuteKeepsInv
  DEF Next

LEMMA Invariance == Spec => []Inv
BY InitInv, InvStep, PTL DEF Spec

----------------------------------------------------------------------------
\* status, business_status and error_code of a run tell one story in every
\* interleaving of the operations that end it, overlapping transactions,
\* restarts and late answers included.
THEOREM OutcomesAreCoherent == Spec => []OutcomeIsCoherent
<1>1. Inv => OutcomeIsCoherent
  BY DEF Inv
<1>2. QED
  BY <1>1, Invariance, PTL

----------------------------------------------------------------------------
(* Approvals.  An approval is written by transactions on WRITE stages that *)
(* exist: before the snapshot there is neither a stage nor a transaction.  *)

\* The fields of a transaction are all there is of it.
Whole(t) ==
  t = [op |-> t.op, run |-> t.run, at |-> t.at, outcome |-> t.outcome,
       ran |-> t.ran, was |-> t.was, had |-> t.had, saw |-> t.saw]

StagesTyped ==
  /\ caller \in [Run -> CallerState]
  /\ stage \in [Run -> [Stage -> StageStatus]]
  /\ \A t \in txn :
       /\ Whole(t)
       /\ t.run \in Run
       /\ t.op \in {"approve", "reject"} => t.at \in WriteStages

Early(r) == caller[r] \in {"idle", "checked", "added"}

NothingBeforeSnapshot ==
  \A r \in Run : Early(r) =>
    /\ \A k \in Stage : stage[r][k] = "none" /\ <<r, k>> \notin approved
    /\ \A t \in txn : t.run = r =>
         /\ t.op \notin {"approve", "reject", "retry"}
         /\ \A k \in Stage : t.was[k] = "none"

ApprovalInv == StagesTyped /\ NothingBeforeSnapshot /\ ApprovalIsFresh

\* What becomes of the fields of a transaction that reads, or goes on.
LEMMA PendingFields ==
  ASSUME NEW op, NEW r, NEW at, NEW outcome, NEW ran, NEW was, NEW had, NEW saw,
         NEW new, new = Pending(op, r, at, outcome, ran, was, had, saw)
  PROVE  /\ Whole(new)
         /\ new.op = op /\ new.run = r /\ new.at = at /\ new.outcome = outcome
         /\ new.ran = ran
         /\ new.was = IF op = "progress" THEN NoStages ELSE was
         /\ new.had = IF op \in {"step", "progress"} THEN had ELSE NoSteps
         /\ new.saw = IF op \in {"step", "finished", "recover", "report"} THEN saw
                      ELSE NotSeen
BY DEF Pending, Whole

LEMMA ReadingAdds ==
  ASSUME NEW op, NEW r, NEW at, NEW outcome, Read(op, r, at, outcome)
  PROVE  \E new :
           /\ txn' = txn \cup {new} /\ Whole(new) /\ UNCHANGED stale
           /\ new.op = op /\ new.run = r /\ new.at = at
           /\ new.outcome = outcome /\ new.ran = status[r]
           /\ new.was = IF op = "progress" THEN NoStages ELSE stage[r]
           /\ new.had = IF op \in {"step", "progress"} THEN steps[r] ELSE NoSteps
           /\ new.saw = IF op \in {"step", "finished", "recover", "report"}
                          THEN SeenNow(r) ELSE NotSeen
BY PendingFields DEF Read

LEMMA GoingOnAdds ==
  ASSUME NEW t, Whole(t), GoOn(t)
  PROVE  \E new :
           /\ txn' = (txn \ {t}) \cup {new} /\ Whole(new)
           /\ new.op = "progress" /\ new.run = t.run /\ new.at = t.at
           /\ new.outcome = t.outcome /\ new.ran = t.ran
           /\ new.was = NoStages /\ new.had = t.had /\ new.saw = NotSeen
<1>1. PICK new : /\ txn' = (txn \ {t}) \cup {new}
                 /\ new = Pending("progress", t.run, t.at, t.outcome, t.ran, t.was,
                                  t.had, t.saw)
  BY DEF GoOn
<1>2. QED
  BY <1>1, PendingFields

LEMMA NoApprovalTouched ==
  ASSUME ApprovalInv, UNCHANGED <<stage, approved>>,
         txn' \subseteq txn, caller' \in [Run -> CallerState],
         \A q \in Run : Early(q)' => Early(q)
  PROVE  ApprovalInv'
<1>1. StagesTyped'
  BY DEF ApprovalInv, StagesTyped
<1>2. NothingBeforeSnapshot'
  BY DEF ApprovalInv, NothingBeforeSnapshot, Early
<1>3. ApprovalIsFresh'
  BY DEF ApprovalInv, ApprovalIsFresh
<1>4. QED
  BY <1>1, <1>2, <1>3 DEF ApprovalInv

\* A transaction that reads is on a run whose stages exist, or it is one of
\* those that change no approval.
LEMMA ReadingKeepsApprovals ==
  ASSUME ApprovalInv, NEW op, NEW r \in Run, NEW at, NEW outcome,
         Read(op, r, at, outcome), UNCHANGED <<stage, approved, caller>>,
         op \in {"approve", "reject"} => at \in WriteStages,
         op \in {"approve", "reject", "retry"} => \E k \in Stage : stage[r][k] # "none"
  PROVE  ApprovalInv'
<1>1. PICK new : /\ txn' = txn \cup {new} /\ Whole(new)
                 /\ new.op = op /\ new.run = r /\ new.at = at
                 /\ new.was \in {NoStages, stage[r]}
  BY ReadingAdds
<1>2. /\ new.op = op /\ new.run = r /\ new.at = at
      /\ \A k \in Stage : new.was[k] \in {"none", stage[r][k]}
  BY <1>1 DEF NoStages
<1>3. StagesTyped'
  BY <1>1, <1>2 DEF ApprovalInv, StagesTyped
<1>4. NothingBeforeSnapshot'
  <2> SUFFICES ASSUME NEW q \in Run, Early(q)'
               PROVE  /\ \A k \in Stage : stage'[q][k] = "none" /\ <<q, k>> \notin approved'
                      /\ \A x \in txn' : x.run = q =>
                           /\ x.op \notin {"approve", "reject", "retry"}
                           /\ \A k \in Stage : x.was[k] = "none"
    BY DEF NothingBeforeSnapshot
  <2>1. Early(q)
    BY DEF Early
  <2>2. /\ \A k \in Stage : stage[q][k] = "none" /\ <<q, k>> \notin approved
        /\ \A x \in txn : x.run = q =>
             /\ x.op \notin {"approve", "reject", "retry"}
             /\ \A k \in Stage : x.was[k] = "none"
    BY <2>1 DEF ApprovalInv, NothingBeforeSnapshot
  <2>3. new.run = q => /\ new.op \notin {"approve", "reject", "retry"}
                       /\ \A k \in Stage : new.was[k] = "none"
    BY <1>2, <2>2
  <2>4. QED
    BY <1>1, <2>2, <2>3
<1>5. ApprovalIsFresh'
  BY DEF ApprovalInv, ApprovalIsFresh
<1>6. QED
  BY <1>3, <1>4, <1>5 DEF ApprovalInv

\* A commit that ends its transaction or goes on to the progress update, and
\* leaves the approvals of runs that have no stages yet alone.
LEMMA CommittingKeepsTxn ==
  ASSUME ApprovalInv, NEW t \in txn, Committed(t) \/ GoOn(t)
  PROVE  \A x \in txn' :
           \/ x \in txn
           \/ /\ x.op = "progress" /\ x.run = t.run /\ Whole(x)
              /\ \A k \in Stage : x.was[k] = "none"
<1>1. CASE Committed(t)
  BY <1>1 DEF Committed
<1>2. CASE GoOn(t)
  <2>1. PICK new : /\ txn' = (txn \ {t}) \cup {new} /\ Whole(new)
                   /\ new.op = "progress" /\ new.run = t.run /\ new.was = NoStages
    BY <1>2, GoingOnAdds DEF ApprovalInv, StagesTyped
  <2>2. QED
    BY <2>1 DEF NoStages
<1>3. QED
  BY <1>1, <1>2

LEMMA CommitKeepsApprovals ==
  ASSUME ApprovalInv, NEW t \in txn, Commit(t)
  PROVE  ApprovalInv'
<1> USE DEF ApprovalInv, StagesTyped
<1>1. UNCHANGED caller /\ (Committed(t) \/ GoOn(t))
  BY DEF Commit, Approve, Reject, Retry, AdvanceStage, RecordProgress,
         RecordFinish, Recover, Reassess
<1>2. \A x \in txn' :
        /\ Whole(x)
        /\ x.run \in Run
        /\ x.op \in {"approve", "reject"} => x.at \in WriteStages
  BY <1>1, CommittingKeepsTxn
<1>3. \A r \in Run : Early(r) => \A x \in txn' : x.run = r =>
        /\ x.op \notin {"approve", "reject", "retry"}
        /\ \A k \in Stage : x.was[k] = "none"
  BY <1>1, CommittingKeepsTxn DEF NothingBeforeSnapshot
<1>4. Early(t.run) => /\ t.op \notin {"approve", "reject", "retry"}
                     /\ \A k \in Stage : t.was[k] = "none"
  BY DEF NothingBeforeSnapshot
<1>5. ASSUME stage' \in [Run -> [Stage -> StageStatus]],
             \A r \in Run : Early(r) =>
               \A k \in Stage : stage'[r][k] = "none" /\ <<r, k>> \notin approved',
             ApprovalIsFresh'
      PROVE  ApprovalInv'
  <2>1. NothingBeforeSnapshot'
    BY <1>1, <1>3, <1>5 DEF NothingBeforeSnapshot, Early
  <2>2. QED
    BY <1>1, <1>2, <1>5, <2>1
<1> USE DEF StageSet, StageStatus, StageEnded, StageOpen
<1>6. CASE Approve(t)
  <2>1. /\ ~ Early(t.run) /\ t.run \in Run
        /\ stage' = [stage EXCEPT ![t.run][t.at] = "PENDING"]
        /\ approved' = approved \cup {<<t.run, t.at>>}
    BY <1>4, <1>6 DEF Approve
  <2>2. ApprovalIsFresh'
    BY <2>1 DEF ApprovalIsFresh
  <2>3. QED
    BY <1>5, <2>1, <2>2 DEF NothingBeforeSnapshot
<1>7. CASE Reject(t)
  <2>1. /\ ~ Early(t.run) /\ t.run \in Run
        /\ stage' = [stage EXCEPT ![t.run][t.at] = "CANCELLED"]
        /\ approved' = approved \cup {<<t.run, t.at>>}
    BY <1>4, <1>7 DEF Reject
  <2>2. ApprovalIsFresh'
    BY <2>1 DEF ApprovalIsFresh
  <2>3. QED
    BY <1>5, <2>1, <2>2 DEF NothingBeforeSnapshot
<1>8. CASE Retry(t)
  <2>1. ~ Early(t.run) /\ t.run \in Run
    BY <1>4, <1>8 DEF Retry
  <2>2. CASE t.at \in WriteStages
    <3>1. /\ stage' = [stage EXCEPT ![t.run][t.at] = "WAITING_APPROVAL"]
          /\ approved' = approved \ {<<t.run, t.at>>}
      BY <1>8, <2>2 DEF Retry, AskAgain
    <3>2. ApprovalIsFresh'
      <4> SUFFICES ASSUME NEW r \in Run, NEW k \in WriteStages
                   PROVE  /\ stage'[r][k] = "PENDING" => <<r, k>> \in approved'
                          /\ stage'[r][k] = "WAITING_APPROVAL" => <<r, k>> \notin approved'
        BY DEF ApprovalIsFresh
      <4>1. CASE r = t.run /\ k = t.at
        BY <2>1, <3>1, <4>1
      <4>2. CASE ~ (r = t.run /\ k = t.at)
        <5>1. stage'[r][k] = stage[r][k] /\ <<r, k>> # <<t.run, t.at>>
          BY <2>1, <3>1, <4>2
        <5>2. QED
          BY <3>1, <5>1 DEF ApprovalIsFresh
      <4>3. QED
        BY <4>1, <4>2
    <3>3. stage' \in [Run -> [Stage -> StageStatus]]
      BY <3>1
    <3>4. QED
      BY <1>5, <2>1, <3>1, <3>2, <3>3 DEF NothingBeforeSnapshot
  <2>3. CASE t.at \notin WriteStages
    <3>1. /\ stage' = [stage EXCEPT ![t.run][t.at] = "PENDING"]
          /\ approved' = approved
      BY <1>8, <2>3 DEF Retry, AskAgain
    <3>2. ApprovalIsFresh'
      <4>1. \A r \in Run, k \in WriteStages : stage'[r][k] = stage[r][k]
        BY <2>1, <2>3, <3>1
      <4>2. approved' = approved
        BY <3>1
      <4>3. QED
        BY <4>1, <4>2 DEF ApprovalIsFresh
    <3>3. stage' \in [Run -> [Stage -> StageStatus]]
      BY <3>1
    <3>4. QED
      BY <1>5, <2>1, <3>1, <3>2, <3>3 DEF NothingBeforeSnapshot
  <2>4. QED
    BY <2>2, <2>3
<1>9. ASSUME approved' = approved,
             stage' \in [Run -> [Stage -> StageStatus]],
             \A r \in Run, k \in Stage :
               /\ stage'[r][k] \in StageEnded \cup {"RUNNING", stage[r][k]}
               /\ Early(r) => stage'[r][k] = stage[r][k]
      PROVE  ApprovalInv'
  <2>1. ApprovalIsFresh'
    BY <1>9 DEF ApprovalIsFresh
  <2>2. QED
    BY <1>5, <1>9, <2>1 DEF NothingBeforeSnapshot
<1>10. CASE RecordProgress(t) \/ RecordFinish(t) \/ Reassess(t)
  BY <1>9, <1>10 DEF RecordProgress, RecordFinish, Reassess, stageVars
<1>11. CASE Recover(t)
  <2> DEFINE closed == CloseStages(t, stage[t.run])
  <2>1. stage' = [stage EXCEPT ![t.run] = closed] /\ approved' = approved
    BY <1>11 DEF Recover
  <2>2. /\ closed \in [Stage -> StageStatus]
        /\ \A k \in Stage :
             /\ closed[k] \in StageEnded \cup {"RUNNING", stage[t.run][k]}
             /\ Early(t.run) => closed[k] = stage[t.run][k]
    BY <1>4 DEF CloseStages
  <2> HIDE DEF StageStatus, StageEnded, StageOpen, closed
  <2>3. QED
    BY <1>9, <2>1, <2>2
<1>12. CASE AdvanceStage(t)
  <2> DEFINE k == Target(t.run, t.at)
             verdict == Judge(t)
  <2>1. approved' = approved
    BY <1>12 DEF AdvanceStage
  <2>2. CASE stage' = stage
    BY <1>9, <2>1, <2>2
  <2>3. CASE /\ ~ Closed(t.was[k])
             /\ StageSet(t.run, k, IF t.was[k] = "RUNNING"
                                     THEN stage[t.run][k] ELSE "RUNNING")
    <3>1. Early(t.run) => k \notin Stage
      BY <1>4, <2>3 DEF Closed
    <3>2. /\ stage' \in [Run -> [Stage -> StageStatus]]
          /\ \A r \in Run, j \in Stage :
               stage'[r][j] = IF r = t.run /\ j = k /\ t.was[k] # "RUNNING"
                                THEN "RUNNING" ELSE stage[r][j]
      <4>1. CASE t.was[k] = "RUNNING"
        <5>1. stage' = [stage EXCEPT ![t.run][k] = stage[t.run][k]]
          BY <2>3, <4>1
        <5> HIDE DEF k
        <5>2. t.run \in Run /\ stage \in [Run -> [Stage -> StageStatus]]
          OBVIOUS
        <5>3. stage' \in [Run -> [Stage -> StageStatus]]
          BY ONLY <5>1, <5>2
        <5>4. \A r \in Run, j \in Stage : stage'[r][j] = stage[r][j]
          BY ONLY <5>1, <5>2
        <5>5. QED
          BY <4>1, <5>3, <5>4
      <4>2. CASE t.was[k] # "RUNNING"
        BY <2>3, <4>2
      <4>3. QED
        BY <4>1, <4>2
    <3>3. QED
      BY <1>9, <2>1, <3>1, <3>2
  <2>4. CASE /\ ~ Closed(t.was[k]) /\ verdict \in {"SUCCESS", "FAILED"}
             /\ stage' = [stage EXCEPT ![t.run] = Judged(t, k, verdict, @)]
    <3>1. Early(t.run) => k \notin Stage
      BY <1>4, <2>4 DEF Closed
    <3> DEFINE judged == Judged(t, k, verdict, stage[t.run])
    <3>2. /\ judged \in [Stage -> StageStatus]
          /\ \A j \in Stage :
               /\ judged[j] \in StageEnded \cup {"RUNNING", stage[t.run][j]}
               /\ Early(t.run) => judged[j] = stage[t.run][j]
      BY <1>4, <2>4, <3>1 DEF Judged
    <3>3. stage' = [stage EXCEPT ![t.run] = judged]
      BY <2>4
    <3> HIDE DEF StageStatus, StageEnded, StageOpen, judged
    <3>4. QED
      BY <1>9, <2>1, <3>2, <3>3
  <2>5. verdict \in {"SUCCESS", "FAILED", "RUNNING"}
    BY DEF Judge, StageVerdict
  <2>6. QED
    BY <1>12, <2>2, <2>3, <2>4, <2>5 DEF AdvanceStage
<1>13. QED
  BY <1>6, <1>7, <1>8, <1>10, <1>11, <1>12 DEF Commit

LEMMA InitApprovals == Init => ApprovalInv
<1> SUFFICES ASSUME Init PROVE ApprovalInv
  OBVIOUS
<1>1. StagesTyped
  BY DEF Init, NoStages, StagesTyped, CallerState, StageStatus
<1>2. NothingBeforeSnapshot
  BY DEF Init, NoStages, NothingBeforeSnapshot
<1>3. ApprovalIsFresh
  BY DEF Init, NoStages, ApprovalIsFresh
<1>4. QED
  BY <1>1, <1>2, <1>3 DEF ApprovalInv

\* The snapshot is the one step that turns a run without stages into one with.
LEMMA SnapshotKeepsApprovals ==
  ASSUME ApprovalInv, NEW r \in Run, Snapshot(r)
  PROVE  ApprovalInv'
<1> USE DEF ApprovalInv
<1>1. /\ caller[r] = "added" /\ caller' = [caller EXCEPT ![r] = "ready"]
      /\ stage' = [stage EXCEPT ![r] = [k \in Stage |->
                     IF k \in WriteStages THEN "WAITING_APPROVAL" ELSE "PENDING"]]
      /\ UNCHANGED <<approved, txn>>
  BY DEF Snapshot, Moved
<1>2. StagesTyped'
  <2>1. stage' \in [Run -> [Stage -> StageStatus]]
    BY <1>1 DEF StagesTyped, StageStatus, StageOpen
  <2>2. QED
    BY <1>1, <2>1 DEF StagesTyped, CallerState
<1>3. \A q \in Run : Early(q)' => q # r /\ Early(q) /\ stage'[q] = stage[q]
  BY <1>1 DEF Early, StagesTyped
<1>4. NothingBeforeSnapshot'
  <2> SUFFICES ASSUME NEW q \in Run, Early(q)'
               PROVE  /\ \A k \in Stage : stage'[q][k] = "none" /\ <<q, k>> \notin approved'
                      /\ \A x \in txn' : x.run = q =>
                           /\ x.op \notin {"approve", "reject", "retry"}
                           /\ \A k \in Stage : x.was[k] = "none"
    BY DEF NothingBeforeSnapshot
  <2>1. Early(q) /\ stage'[q] = stage[q]
    BY <1>3
  <2>2. /\ \A k \in Stage : stage[q][k] = "none" /\ <<q, k>> \notin approved
        /\ \A x \in txn : x.run = q =>
             /\ x.op \notin {"approve", "reject", "retry"}
             /\ \A k \in Stage : x.was[k] = "none"
    BY <2>1 DEF NothingBeforeSnapshot
  <2>3. approved' = approved /\ txn' = txn
    BY <1>1
  <2>4. QED
    BY <2>1, <2>2, <2>3
<1>5. \A k \in WriteStages : <<r, k>> \notin approved
  BY <1>1 DEF NothingBeforeSnapshot, Early
<1>6. ApprovalIsFresh'
  <2> SUFFICES ASSUME NEW q \in Run, NEW k \in WriteStages
               PROVE  /\ stage'[q][k] = "PENDING" => <<q, k>> \in approved'
                      /\ stage'[q][k] = "WAITING_APPROVAL" => <<q, k>> \notin approved'
    BY DEF ApprovalIsFresh
  <2>1. CASE q = r
    BY <1>1, <1>5, <2>1 DEF StagesTyped
  <2>2. CASE q # r
    <3>1. stage'[q] = stage[q]
      BY <1>1, <2>2 DEF StagesTyped
    <3>2. QED
      BY <1>1, <3>1 DEF ApprovalIsFresh
  <2>3. QED
    BY <2>1, <2>2
<1>7. QED
  BY <1>2, <1>4, <1>6

LEMMA RequestKeepsApprovals ==
  ASSUME ApprovalInv, NEW r \in Run, Request(r)
  PROVE  ApprovalInv'
<1> USE DEF ApprovalInv, StagesTyped, CallerState, Moved, Early
<1>1. ASSUME NEW a \in Agent, CheckAgent(r, a) PROVE ApprovalInv'
  BY <1>1, NoApprovalTouched DEF CheckAgent, stageVars
<1>2. CASE AddRun(r) \/ Send(r) \/ SendFails(r) \/ StopWaiting(r)
  BY <1>2, NoApprovalTouched DEF AddRun, Send, SendFails, StopWaiting, stageVars
<1>3. CASE TakeAnswer(r) \/ Finalize(r)
  BY <1>3, NoApprovalTouched DEF TakeAnswer, Finalize, stageVars
<1>4. CASE Snapshot(r)
  BY <1>4, SnapshotKeepsApprovals
<1>5. QED
  BY <1>1, <1>2, <1>3, <1>4 DEF Request

LEMMA OperatorKeepsApprovals ==
  ASSUME ApprovalInv, NEW r \in Run, Operator(r)
  PROVE  ApprovalInv'
<1> USE DEF ApprovalInv, StagesTyped, stageVars
<1>1. ASSUME NEW k \in Stage, NEW v \in {"approve", "reject"}, CheckApproval(r, k, v)
      PROVE  ApprovalInv'
  BY <1>1, ReadingKeepsApprovals DEF CheckApproval
<1>2. ASSUME NEW k \in Stage, CheckRetry(r, k) PROVE ApprovalInv'
  BY <1>2, ReadingKeepsApprovals DEF CheckRetry
<1>3. ASSUME NEW k \in Stage, ReportShot(r, k) PROVE ApprovalInv'
  BY <1>3, NoApprovalTouched DEF ReportShot, serverVars, Early
<1>4. ASSUME NEW k \in Stage, ReportAgain(r, k) PROVE ApprovalInv'
  BY <1>4, ReadingKeepsApprovals DEF ReportAgain
<1>5. QED
  BY <1>1, <1>2, <1>3, <1>4 DEF Operator

\* An event is never read into an approval.
LEMMA EventKeepsApprovals ==
  ASSUME ApprovalInv, NEW r \in Run, ReadEvent(r)
  PROVE  ApprovalInv'
<1> DEFINE m == Head(wire[r])
<1>1. UNCHANGED <<stage, approved, caller>>
  BY DEF ReadEvent, stageVars
<1>2. CASE Welcome(r, m)
  <2>1. Handled[m.type] \in {"progress", "step", "finished"}
    BY <1>2 DEF Welcome, Handled
  <2>2. Read(Handled[m.type], r, m.at, m.outcome)
    BY <1>2 DEF ReadEvent
  <2> HIDE DEF m
  <2>3. QED
    BY <1>1, <2>1, <2>2, ReadingKeepsApprovals
<1>3. CASE ~ Welcome(r, m)
  <2>1. txn' = txn
    BY <1>3 DEF ReadEvent
  <2>2. QED
    BY <1>1, <2>1, NoApprovalTouched DEF ApprovalInv, StagesTyped, Early
<1>4. QED
  BY <1>2, <1>3

LEMMA ApprovalStep == ApprovalInv /\ [Next]_vars => ApprovalInv'
<1> SUFFICES ASSUME ApprovalInv, [Next]_vars PROVE ApprovalInv'
  OBVIOUS
<1> USE DEF ApprovalInv, StagesTyped
<1>1. CASE UNCHANGED vars
  BY <1>1, NoApprovalTouched DEF vars, stageVars, serverVars, Early
<1>2. ASSUME NEW r \in Run, Stop(r) PROVE ApprovalInv'
  <2>1. UNCHANGED <<stage, approved, txn, caller>>
    BY <1>2 DEF Stop, PrepareStop, AgentStops, StopUnanswered, FinalizeCancelled,
                stageVars
  <2>2. QED
    BY <2>1, NoApprovalTouched DEF Early
<1>3. ASSUME NEW r \in Run, Execute(r) PROVE ApprovalInv'
  <2>1. UNCHANGED <<stage, approved, txn, caller>>
    BY <1>3 DEF Execute, StartCase, Prepare, StartFails, SkipStep, BeginStep, EndStep, AbortRun,
                FinishCase, stageVars, serverVars
  <2>2. QED
    BY <2>1, NoApprovalTouched DEF Early
<1>4. ASSUME NEW r \in Run, GoQuiet(r) PROVE ApprovalInv'
  BY <1>4, NoApprovalTouched DEF GoQuiet, stageVars, serverVars, Early
<1>5. ASSUME NEW r \in Run, CheckOrphan(r) PROVE ApprovalInv'
  BY <1>5, ReadingKeepsApprovals DEF CheckOrphan, stageVars
<1>6. CASE Restart
  BY <1>6, NoApprovalTouched DEF Restart, stageVars, CallerState, Early
<1>7. ASSUME NEW a \in Agent, LinkBreaks(a) \/ AgentDies(a) PROVE ApprovalInv'
  BY <1>7, NoApprovalTouched
  DEF LinkBreaks, AgentDies, stageVars, serverVars, CallerState, Early
<1>8. QED
  BY <1>1, <1>2, <1>3, <1>4, <1>5, <1>6, <1>7, RequestKeepsApprovals,
     OperatorKeepsApprovals, EventKeepsApprovals, CommitKeepsApprovals
  DEF Next

\* A WRITE stage that may execute has been approved, and one that waits for
\* approval carries none, for every number of stages and whatever overlaps:
\* no retry, event, recovery or second approver can leave a stale approval.
THEOREM ApprovalsAreFresh == Spec => []ApprovalIsFresh
<1>1. ApprovalInv => ApprovalIsFresh
  BY DEF ApprovalInv
<1>2. QED
  BY <1>1, InitApprovals, ApprovalStep, PTL DEF Spec
=============================================================================
