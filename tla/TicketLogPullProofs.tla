-------------------------- MODULE TicketLogPullProofs --------------------------
(***************************************************************************)
(* What holds of TicketLogPull for any number of records, stops, deletions *)
(* and restarts.                                                           *)
(***************************************************************************)
EXTENDS TicketLogPull, TLAPS

Status == Active \cup Closed \cup {"absent"}
Row == [status : Status, deadline : {"none", "set", "passed"}]
Scans == [at : {"none", "created", "expired", "polling"}, todo : SUBSET Record,
          held : SUBSET Record, found : SUBSET Record, fresh : BOOLEAN]
At == {"idle", "queued", "new", "resumed", "posting", "posted", "failing", "download", "again",
       "fetching", "fetched", "parsing", "won", "ending"}

(* The strengthening, for one record.                                      *)

(* Success is written once, and whoever wrote it has not triggered yet.    *)
Handover(r) ==
  /\ \A p \in Process : exec[p][r] = "won" => record[r].status \in Closed /\ analyses[r] = 0
  /\ exec["api"][r] = "won" => exec["worker"][r] # "won"
  /\ analyses[r] <= 1
  /\ analyses[r] = 1 => record[r].status \in Closed

(* A record that is worked on exists; it is not "created" any more once    *)
(* its request is about to go out.                                         *)
TakenUp(r) ==
  \A p \in Process :
    /\ exec[p][r] # "idle" => record[r].status # "absent"
    /\ exec[p][r] \in {"resumed", "posting", "posted"} => record[r].status # "created"

(* Unless it was doubled, a record is in one process at a time, and nobody *)
(* gets to a second request: who has read "created" has a record that the  *)
(* scan has not listed as waiting, so what the scan has found ready is not *)
(* on its way to a request again.                                          *)
OneHolder(r) == exec["api"][r] = "idle" \/ exec["worker"][r] = "idle"
NoSecondRequest(r) ==
  /\ posts[r] <= 1
  /\ posts[r] = 1 =>
       /\ record[r].status \notin {"absent", "created"}
       /\ \A p \in Process :
            /\ exec[p][r] \notin {"new", "resumed", "posting"}
            /\ exec[p][r] = "queued" => record[r].status # "submitting"
  /\ \A p \in Process :
       exec[p][r] = "new" =>
         /\ record[r].status \in {"created"} \cup Closed
         /\ r \notin scan.found
         /\ r \in scan.todo => scan.at = "created"
  /\ r \in scan.found => record[r].status # "submitting"

HasThread(r) == r \in lost \cup scan.found \/ \E p \in Process : exec[p][r] \notin {"idle", "ending"}

(* The scan lists only records that exist, and as waiting only those that  *)
(* have been taken up.                                                     *)
Exists(r) ==
  /\ r \in scan.todo => record[r].status # "absent"
  /\ r \in scan.todo /\ scan.at # "created" => record[r].status # "created"
  /\ r \in scan.found => scan.at = "polling" /\ record[r].status \notin {"absent", "created"}

RecordInv(r) ==
  /\ Handover(r)
  /\ Exists(r)
  /\ TakenUp(r)
  /\ r \in doubled \/ (OneHolder(r) /\ NoSecondRequest(r))
  /\ record[r].status \in Interrupted => HasThread(r)

IInv == TypeOK /\ \A r \in Record : RecordInv(r)

-----------------------------------------------------------------------------
(* What the operators do, record by record.                                *)

LEMMA WriteEffect ==
  ASSUME NEW f \in [Record -> Row], NEW r \in Record, NEW status \in Status
  PROVE  /\ Write(f, r, status) \in [Record -> Row]
         /\ \A x \in Record : Write(f, r, status)[x].status =
              IF x = r /\ f[r].status # "deleted" THEN status ELSE f[x].status
BY DEF Write, Row

LEMMA WriteIfOpenEffect ==
  ASSUME NEW f \in [Record -> Row], NEW r \in Record, NEW status \in Status
  PROVE  /\ WriteIfOpen(f, r, status) \in [Record -> Row]
         /\ \A x \in Record : WriteIfOpen(f, r, status)[x].status =
              IF x = r /\ f[r].status \notin Closed THEN status ELSE f[x].status
BY DEF WriteIfOpen, Row

LEMMA CommittedEffect ==
  ASSUME NEW f \in [Record -> Row]
  PROVE  /\ Committed(f) \in [Record -> Row]
         /\ \A x \in Record : Committed(f)[x].status =
              IF x \in scan.held /\ f[x].status # "deleted" THEN "cancelled" ELSE f[x].status
BY DEF Committed, Row, Status, Closed, Terminal

LEMMA GoesEffect ==
  ASSUME exec \in [Process -> [Record -> At]], NEW p \in Process, NEW r \in Record,
         NEW at \in At, Goes(p, r, at)
  PROVE  /\ exec' \in [Process -> [Record -> At]]
         /\ \A o \in Process, x \in Record :
              exec'[o][x] = IF o = p /\ x = r THEN at ELSE exec[o][x]
BY DEF Goes

LEMMA QueuedEffect ==
  ASSUME exec \in [Process -> [Record -> At]], NEW p \in Process, NEW r \in Record,
         exec' = Queued(p, r)
  PROVE  /\ exec' \in [Process -> [Record -> At]]
         /\ \A o \in Process, x \in Record :
              exec'[o][x] = IF o = p /\ x = r /\ exec[p][r] = "idle" THEN "queued"
                            ELSE exec[o][x]
BY DEF Queued, At

-----------------------------------------------------------------------------
(* Types.                                                                  *)

LEMMA Kinds ==
  /\ {"created", "submitting", "polling", "downloading", "processing", "success", "failed",
      "exception", "cancelled", "deleted", "absent"} \subseteq Status
  /\ At = {"idle", "queued", "new", "resumed", "posting", "posted", "failing", "download", "again",
           "fetching", "fetched", "parsing", "won", "ending"}
  /\ "api" \in Process /\ "worker" \in Process
BY DEF Status, Active, Closed, Terminal, At, Process

LEMMA Parts ==
  TypeOK => /\ record \in [Record -> Row]
            /\ exec \in [Process -> [Record -> At]]
BY DEF TypeOK, Row, Status, At

(* The rest of the type invariant, of the variables that steps leave alone. *)
LEMMA Rest ==
  TypeOK <=> /\ record \in [Record -> Row]
             /\ exec \in [Process -> [Record -> At]]
             /\ listed \subseteq {"ready", "refused"}
             /\ halted \subseteq Record /\ stopping \subseteq Record
             /\ doubled \subseteq Record /\ lost \subseteq Record
             /\ scan \in Scans
             /\ resume \in [todo : SUBSET Record, wrote : BOOLEAN]
             /\ events \in 0 .. MaxEvents
             /\ posts \in [Record -> Nat] /\ analyses \in [Record -> Nat]
BY DEF TypeOK, Row, Status, At, Scans

LEMMA InitTypes == Init => TypeOK
BY PullAssumption DEF Init, TypeOK, NoScan, NoResume, Active

LEMMA ExecuteTypes ==
  ASSUME TypeOK, NEW p \in Process, NEW r \in Record, Execute(p, r)
  PROVE  TypeOK'
<1> USE DEF history
<1>0. record \in [Record -> Row] /\ exec \in [Process -> [Record -> At]]
  BY Parts
<1>w. \A status \in Status : /\ Write(record, r, status) \in [Record -> Row]
                            /\ WriteIfOpen(record, r, status) \in [Record -> Row]
  BY <1>0, WriteEffect, WriteIfOpenEffect
<1>g. \A at \in At : Goes(p, r, at) => exec' \in [Process -> [Record -> At]]
  BY <1>0, GoesEffect
<1>1. CASE UNCHANGED <<listed, halted, stopping, scan, resume, events, history>>
  <2>1. record' \in [Record -> Row]
    <3>1. CASE LookupReady(p, r)
      BY <3>1, <1>w, Kinds DEF LookupReady
    <3>2. CASE LookupNothing(p, r)
      BY <3>2, <1>0, <1>w, Kinds DEF LookupNothing
    <3>3. CASE StartDownload(p, r)
      BY <3>3, <1>w, Kinds DEF StartDownload
    <3>4. CASE StartParsing(p, r)
      BY <3>4, <1>w, Kinds DEF StartParsing
    <3>5. CASE Succeed(p, r)
      BY <3>5, <1>w, Kinds DEF Succeed
    <3>6. CASE LookupRefused(p, r) \/ TooLarge(p, r) \/ WriteException(p, r)
      BY <3>6, <1>w, Kinds DEF LookupRefused, TooLarge, WriteException
    <3>7. CASE Accepted(p, r)
      BY <3>7, <1>0, Kinds DEF Accepted, Row
    <3> QED
      BY <1>0, <3>1, <3>2, <3>3, <3>4, <3>5, <3>6, <3>7
      DEF Execute, Load, Post, Fetch, TriggerAnalysis, Break, Leave
  <2>2. exec' \in [Process -> [Record -> At]]
    BY <1>g, Kinds
    DEF Execute, Load, LookupReady, LookupRefused, LookupNothing, Post, Accepted, StartDownload,
        Fetch, StartParsing, Succeed, TooLarge, TriggerAnalysis, Break, WriteException, Leave
  <2> QED
    BY <1>1, <2>1, <2>2 DEF TypeOK, Row, Status, At
<1>2. CASE Post(p, r)
  BY <1>2, <1>0, <1>g, Kinds DEF Post, TypeOK, Row, Status, At
<1>3. CASE TriggerAnalysis(p, r)
  BY <1>3, <1>0, <1>g, Kinds DEF TriggerAnalysis, TypeOK, Row, Status, At
<1> QED
  BY <1>1, <1>2, <1>3
  DEF Execute, Load, LookupReady, LookupRefused, LookupNothing, Accepted, StartDownload,
      Fetch, StartParsing, Succeed, TooLarge, Break, WriteException, Leave

LEMMA ScanTypes == ASSUME TypeOK, ScanStep PROVE TypeOK'
<1> USE DEF history
<1>0. record \in [Record -> Row] /\ exec \in [Process -> [Record -> At]]
  BY Parts
<1>w. \A r \in Record, status \in Status :
        /\ Write(record, r, status) \in [Record -> Row]
        /\ WriteIfOpen(record, r, status) \in [Record -> Row]
  BY <1>0, WriteEffect, WriteIfOpenEffect
<1>c. \A f \in [Record -> Row] : Committed(f) \in [Record -> Row]
  BY CommittedEffect
<1>q. \A r \in Record : exec' = Queued("worker", r) => exec' \in [Process -> [Record -> At]]
  BY <1>0, QueuedEffect, Kinds
<1>s. ASSUME NEW r \in Record, Commits(r) PROVE scan' \in Scans
  <2>1. scan \in Scans
    BY Rest
  <2>2. scan.todo \ {r} \in SUBSET Record
    BY <2>1 DEF Scans
  <2> QED
    BY <1>s, <2>1, <2>2 DEF Commits, Scans
<1>1. CASE StartScan
  BY <1>1 DEF StartScan, TypeOK, With, NoScan
<1>2. CASE NextPhase
  <2>1. scan \in Scans /\ Late \in SUBSET Record /\ (Waiting \ Late) \in SUBSET Record
    BY Rest DEF Waiting, Late, With
  <2>2. scan' \in Scans
    BY <1>2, <2>1 DEF NextPhase, Scans
  <2> QED
    BY <1>2, <2>2 DEF NextPhase, TypeOK, Scans
<1>3. CASE EndScan
  <2>1. record' \in [Record -> Row]
    BY <1>3, <1>0, <1>c DEF EndScan
  <2> QED
    BY <1>3, <2>1 DEF EndScan, TypeOK, NoScan, Row, Status
<1>4. ASSUME NEW r \in Record, QueueCreated(r) PROVE TypeOK'
  BY <1>4, <1>q DEF QueueCreated, Noted, TypeOK, At
<1>5. ASSUME NEW r \in Record, FailExpired(r) \/ ProbePending(r) \/ ProbeRefused(r) PROVE TypeOK'
  <2>1. record' \in [Record -> Row]
    BY <1>5, <1>0, <1>c, <1>w, Kinds DEF FailExpired, ProbePending, ProbeRefused
  <2> QED
    BY <1>5, <1>s, <2>1 DEF FailExpired, ProbePending, ProbeRefused, TypeOK, Row, Status, Scans
<1>6. ASSUME NEW r \in Record, ProbeReady(r) PROVE TypeOK'
  <2>1. record' \in [Record -> Row]
    BY <1>6, <1>0, <1>c, <1>w, Kinds DEF ProbeReady
  <2>2. scan' \in Scans
    BY <1>6, Rest DEF ProbeReady, Scans
  <2> QED
    BY <1>6, <2>1, <2>2 DEF ProbeReady, TypeOK, Row, Status, Scans
<1>7. ASSUME NEW r \in Record, QueueFound(r) PROVE TypeOK'
  BY <1>7, <1>q DEF QueueFound, Noted, TypeOK, At
<1>8. ASSUME NEW r \in Record, ScanFails(r) PROVE TypeOK'
  BY <1>8 DEF ScanFails, TypeOK, NoScan
<1>9. ASSUME NEW r \in Record, CancelListed(r) PROVE TypeOK'
  BY <1>9 DEF CancelListed, TypeOK
<1> QED
  BY <1>1, <1>2, <1>3, <1>4, <1>5, <1>6, <1>7, <1>8, <1>9 DEF ScanStep

LEMMA OtherTypes ==
  ASSUME TypeOK, Next,
         ~ ScanStep, ~ \E p \in Process, r \in Record : Execute(p, r)
  PROVE  TypeOK'
<1> USE DEF history
<1>0. record \in [Record -> Row] /\ exec \in [Process -> [Record -> At]]
  BY Parts
<1>w. \A r \in Record, status \in Status : Write(record, r, status) \in [Record -> Row]
  BY <1>0, WriteEffect
<1>h. Happens => events' \in 0 .. MaxEvents
  BY PullAssumption DEF Happens, TypeOK
<1>1. ASSUME NEW r \in Record, TicketHalts(r) \/ TicketResumes(r) PROVE TypeOK'
  BY <1>1, <1>h DEF TicketHalts, TicketResumes, TypeOK
<1>2. ASSUME NEW r \in Record, Create(r) PROVE TypeOK'
  <2>1. exec' \in [Process -> [Record -> At]]
    BY <1>2, <1>0, QueuedEffect, Kinds DEF Create
  <2>2. record' \in [Record -> Row]
    BY <1>2, <1>0, Kinds DEF Create, Row
  <2> QED
    BY <1>2, <2>1, <2>2 DEF Create, TypeOK, Row, Status, At
<1>3. ASSUME NEW r \in Record, CheckStop(r) PROVE TypeOK'
  BY <1>3, <1>h DEF CheckStop, TypeOK
<1>4. ASSUME NEW r \in Record, Stop(r) PROVE TypeOK'
  BY <1>4, <1>w, Kinds DEF Stop, TypeOK, Row, Status
<1>5. ASSUME NEW r \in Record, Delete(r) PROVE TypeOK'
  <2>1. record' = [record EXCEPT ![r].status = "deleted"]
    BY <1>5 DEF Delete
  <2>2. record' \in [Record -> Row]
    BY <1>0, <2>1 DEF Row, Status, Closed
  <2> QED
    BY <1>5, <1>h, <2>2 DEF Delete, TypeOK, Row, Status
<1>6. ASSUME NEW r \in Record, FailInterrupted(r) PROVE TypeOK'
  <2>1. record' \in [Record -> Row]
    BY <1>6, <1>0, <1>w, Kinds DEF FailInterrupted
  <2>2. resume' \in [todo : SUBSET Record, wrote : BOOLEAN]
    BY <1>6 DEF FailInterrupted, TypeOK
  <2> QED
    BY <1>6, <2>1, <2>2 DEF FailInterrupted, TypeOK, Row, Status
<1>7. ASSUME NEW r \in Record, DeadlinePasses(r) PROVE TypeOK'
  BY <1>7 DEF DeadlinePasses, TypeOK
<1>8. CASE PlatformAnswers
  BY <1>8 DEF PlatformAnswers, TypeOK
<1>9. CASE RestartApi
  BY <1>9, <1>h DEF RestartApi, TypeOK, With
<1>10. CASE KillWorker
  BY <1>10, <1>h DEF KillWorker, TypeOK, NoScan
<1> QED
  BY <1>1, <1>2, <1>3, <1>4, <1>5, <1>6, <1>7, <1>8, <1>9, <1>10 DEF Next

LEMMA NextTypes == TypeOK /\ [Next]_vars => TypeOK'
<1>1. CASE UNCHANGED vars
  BY <1>1 DEF vars, history, TypeOK
<1>2. CASE Next
  BY <1>2, ExecuteTypes, ScanTypes, OtherTypes
<1> QED
  BY <1>1, <1>2

(* Every variable keeps its type (TypeOK).                                 *)
THEOREM TypesHold == Spec => []TypeOK
BY InitTypes, NextTypes, PTL DEF Spec

-----------------------------------------------------------------------------
(* The invariant.                                                          *)

LEMMA Sets ==
  /\ Process = {"api", "worker"} /\ "api" # "worker"
  /\ Closed = {"success", "failed", "exception", "cancelled", "deleted"}
  /\ Interrupted = {"downloading", "processing"}
  /\ Active = {"created", "submitting", "polling", "downloading", "processing"}
BY DEF Process, Closed, Terminal, Interrupted, Active

LEMMA InitRecords == Init => \A r \in Record : RecordInv(r)
BY PullAssumption DEF Init, RecordInv, Exists, NoScan, Handover, TakenUp, OneHolder, NoSecondRequest, HasThread, Process,
       Interrupted

(* A record whose threads and histories a step leaves alone keeps the      *)
(* invariant if the step writes its row at most to end it.                 *)
LEMMA Frame ==
  ASSUME TypeOK, NEW r \in Record, RecordInv(r),
         \A p \in Process : exec'[p][r] = exec[p][r],
         posts'[r] = posts[r], analyses'[r] = analyses[r],
         r \in doubled => r \in doubled', r \in lost => r \in lost',
         r \in scan'.todo => r \in scan.todo /\ scan'.at = scan.at,
         r \in scan'.found => r \in scan.found /\ scan'.at = scan.at,
         r \in scan.found => r \in scan'.found \/ r \in lost',
         record'[r].status = record[r].status \/ record'[r].status \in Closed
  PROVE  RecordInv(r)'
<1> USE Sets
<1>1. record[r].status \in Closed => record'[r].status \in Closed
  OBVIOUS
<1>2. Handover(r)'
  BY <1>1 DEF RecordInv, Handover
<1>3. TakenUp(r)'
  BY DEF RecordInv, TakenUp
<1>7. Exists(r)'
  BY DEF RecordInv, Exists
<1>4. OneHolder(r) => OneHolder(r)'
  BY DEF OneHolder
<1>5. NoSecondRequest(r) => NoSecondRequest(r)'
  BY DEF NoSecondRequest
<1>6. record'[r].status \in Interrupted => HasThread(r)'
  BY DEF RecordInv, HasThread
<1> QED
  BY <1>2, <1>3, <1>4, <1>5, <1>6, <1>7 DEF RecordInv

(* A thread takes a step: what the record's row and histories become.      *)
LEMMA ExecuteRecords ==
  ASSUME IInv, NEW p \in Process, NEW r \in Record, Execute(p, r), NEW x \in Record
  PROVE  RecordInv(x)'
<1> USE Sets DEF history
<1>0. /\ TypeOK /\ record \in [Record -> Row] /\ exec \in [Process -> [Record -> At]]
      /\ posts \in [Record -> Nat] /\ analyses \in [Record -> Nat]
      /\ RecordInv(x) /\ RecordInv(r)
  BY Parts DEF IInv, TypeOK
<1>g. \A at \in At : Goes(p, r, at) =>
        \A o \in Process, y \in Record : exec'[o][y] = IF o = p /\ y = r THEN at ELSE exec[o][y]
  BY <1>0, GoesEffect
<1>w. \A status \in Status, y \in Record :
        Write(record, r, status)[y].status =
          IF y = r /\ record[r].status # "deleted" THEN status ELSE record[y].status
  BY <1>0, WriteEffect
<1>o. \A status \in Status, y \in Record :
        WriteIfOpen(record, r, status)[y].status =
          IF y = r /\ record[r].status \notin Closed THEN status ELSE record[y].status
  <2> TAKE status \in Status, y \in Record
  <2> QED
    BY <1>0, WriteIfOpenEffect
<1>1. CASE Load(p, r)
  <2> USE <1>1 DEF Load
  <2>1. CASE x # r
    BY <2>1, <1>0, <1>g, Kinds, Frame
  <2>2. CASE x = r
    BY <2>2, <1>0, <1>g, Kinds
    DEF RecordInv, Handover, Exists, TakenUp, OneHolder, NoSecondRequest, HasThread
  <2> QED
    BY <2>1, <2>2
<1>2. CASE LookupReady(p, r)
  <2> USE <1>2 DEF LookupReady
  <2>1. CASE x # r
    BY <2>1, <1>0, <1>g, <1>o, Kinds, Frame
  <2>2. CASE x = r
    BY <2>2, <1>0, <1>g, <1>o, Kinds
    DEF RecordInv, Handover, Exists, TakenUp, OneHolder, NoSecondRequest, HasThread
  <2> QED
    BY <2>1, <2>2
<1>3. CASE LookupRefused(p, r)
  <2> USE <1>3 DEF LookupRefused
  <2>1. CASE x # r
    BY <2>1, <1>0, <1>g, <1>w, Kinds, Frame
  <2>2. CASE x = r
    BY <2>2, <1>0, <1>g, <1>w, Kinds
    DEF RecordInv, Handover, Exists, TakenUp, OneHolder, NoSecondRequest, HasThread
  <2> QED
    BY <2>1, <2>2
<1>4. CASE LookupNothing(p, r)
  <2> USE <1>4 DEF LookupNothing
  <2>1. CASE x # r
    BY <2>1, <1>0, <1>g, <1>o, Kinds, Frame
  <2>2. CASE x = r
    BY <2>2, <1>0, <1>g, <1>o, Kinds
    DEF RecordInv, Handover, Exists, TakenUp, OneHolder, NoSecondRequest, HasThread
  <2> QED
    BY <2>1, <2>2
<1>5. CASE Post(p, r)
  <2> USE <1>5 DEF Post
  <2>1. CASE x # r
    BY <2>1, <1>0, <1>g, Kinds, Frame
  <2>2. CASE x = r
    BY <2>2, <1>0, <1>g, Kinds
    DEF RecordInv, Handover, Exists, TakenUp, OneHolder, NoSecondRequest, HasThread
  <2> QED
    BY <2>1, <2>2
<1>6. CASE Accepted(p, r)
  <2> USE <1>6 DEF Accepted
  <2>1. CASE x # r
    BY <2>1, <1>0, <1>g, Kinds, Frame
  <2>2. CASE x = r
    BY <2>2, <1>0, <1>g, Kinds
    DEF RecordInv, Handover, Exists, TakenUp, OneHolder, NoSecondRequest, HasThread
  <2> QED
    BY <2>1, <2>2
<1>7. CASE StartDownload(p, r)
  <2> USE <1>7 DEF StartDownload
  <2>1. CASE x # r
    BY <2>1, <1>0, <1>g, <1>o, Kinds, Frame
  <2>2. CASE x = r
    BY <2>2, <1>0, <1>g, <1>o, Kinds
    DEF RecordInv, Handover, Exists, TakenUp, OneHolder, NoSecondRequest, HasThread
  <2> QED
    BY <2>1, <2>2
<1>8. CASE Fetch(p, r)
  <2> USE <1>8 DEF Fetch
  <2>1. CASE x # r
    BY <2>1, <1>0, <1>g, Kinds, Frame
  <2>2. CASE x = r
    BY <2>2, <1>0, <1>g, Kinds
    DEF RecordInv, Handover, Exists, TakenUp, OneHolder, NoSecondRequest, HasThread
  <2> QED
    BY <2>1, <2>2
<1>9. CASE StartParsing(p, r)
  <2> USE <1>9 DEF StartParsing
  <2>1. CASE x # r
    BY <2>1, <1>0, <1>g, <1>o, Kinds, Frame
  <2>2. CASE x = r
    BY <2>2, <1>0, <1>g, <1>o, Kinds
    DEF RecordInv, Handover, Exists, TakenUp, OneHolder, NoSecondRequest, HasThread
  <2> QED
    BY <2>1, <2>2
<1>10. CASE Succeed(p, r)
  <2> USE <1>10 DEF Succeed
  <2>1. CASE x # r
    BY <2>1, <1>0, <1>g, <1>o, Kinds, Frame
  <2>2. CASE record[r].status \in Closed
    <3>1. record' = record
      BY <2>2 DEF WriteIfOpen
    <3>2. Goes(p, r, "ending")
      BY <3>1
    <3> QED
      BY <2>1, <2>2, <3>1, <3>2, <1>0, <1>g, Kinds
      DEF RecordInv, Handover, Exists, TakenUp, OneHolder, NoSecondRequest, HasThread
  <2>3. CASE record[r].status \notin Closed /\ x = r
    <3>1. record'[r].status = "success"
      BY <2>3, <1>o, Kinds
    <3>2. Goes(p, r, "won")
      BY <2>3, <3>1
    <3> QED
      BY <2>3, <3>1, <3>2, <1>0, <1>g, Kinds
      DEF RecordInv, Handover, Exists, TakenUp, OneHolder, NoSecondRequest, HasThread
  <2> QED
    BY <2>1, <2>2, <2>3
<1>11. CASE TooLarge(p, r)
  <2> USE <1>11 DEF TooLarge
  <2>1. CASE x # r
    BY <2>1, <1>0, <1>g, <1>w, Kinds, Frame
  <2>2. CASE x = r
    BY <2>2, <1>0, <1>g, <1>w, Kinds
    DEF RecordInv, Handover, Exists, TakenUp, OneHolder, NoSecondRequest, HasThread
  <2> QED
    BY <2>1, <2>2
<1>12. CASE TriggerAnalysis(p, r)
  <2> USE <1>12 DEF TriggerAnalysis
  <2>1. CASE x # r
    BY <2>1, <1>0, <1>g, Kinds, Frame
  <2>2. CASE x = r
    BY <2>2, <1>0, <1>g, Kinds
    DEF RecordInv, Handover, Exists, TakenUp, OneHolder, NoSecondRequest, HasThread
  <2> QED
    BY <2>1, <2>2
<1>13. CASE Break(p, r)
  <2> USE <1>13 DEF Break
  <2>1. CASE x # r
    BY <2>1, <1>0, <1>g, Kinds, Frame
  <2>2. CASE x = r
    BY <2>2, <1>0, <1>g, Kinds
    DEF RecordInv, Handover, Exists, TakenUp, OneHolder, NoSecondRequest, HasThread
  <2> QED
    BY <2>1, <2>2
<1>14. CASE WriteException(p, r)
  <2> USE <1>14 DEF WriteException
  <2>1. CASE x # r
    BY <2>1, <1>0, <1>g, <1>w, Kinds, Frame
  <2>2. CASE x = r
    BY <2>2, <1>0, <1>g, <1>w, Kinds
    DEF RecordInv, Handover, Exists, TakenUp, OneHolder, NoSecondRequest, HasThread
  <2> QED
    BY <2>1, <2>2
<1>15. CASE Leave(p, r)
  <2> USE <1>15 DEF Leave
  <2>1. CASE x # r
    BY <2>1, <1>0, <1>g, Kinds, Frame
  <2>2. CASE x = r
    BY <2>2, <1>0, <1>g, Kinds
    DEF RecordInv, Handover, Exists, TakenUp, OneHolder, NoSecondRequest, HasThread
  <2> QED
    BY <2>1, <2>2
<1> QED
  BY <1>1, <1>2, <1>3, <1>4, <1>5, <1>6, <1>7, <1>8, <1>9, <1>10, <1>11, <1>12, <1>13, <1>14, <1>15 DEF Execute

(* The scan: it queues records in the worker and writes what is late, has  *)
(* an outcome or is cancelled.                                             *)
LEMMA ScanRecords ==
  ASSUME IInv, ScanStep, NEW x \in Record
  PROVE  RecordInv(x)'
<1> USE DEF history
<1>0. /\ TypeOK /\ record \in [Record -> Row] /\ exec \in [Process -> [Record -> At]]
      /\ posts \in [Record -> Nat] /\ analyses \in [Record -> Nat]
      /\ RecordInv(x)
      /\ scan.todo \subseteq Record
  BY Parts DEF IInv, TypeOK
<1>w. \A r \in Record, status \in Status :
        /\ Write(record, r, status) \in [Record -> Row]
        /\ \A y \in Record : Write(record, r, status)[y].status =
             IF y = r /\ record[r].status # "deleted" THEN status ELSE record[y].status
  BY <1>0, WriteEffect
<1>o. \A r \in Record, status \in Status :
        /\ WriteIfOpen(record, r, status) \in [Record -> Row]
        /\ \A y \in Record : WriteIfOpen(record, r, status)[y].status =
             IF y = r /\ record[r].status \notin Closed THEN status ELSE record[y].status
  <2> TAKE r \in Record, status \in Status
  <2> QED
    BY <1>0, WriteIfOpenEffect
<1> USE Sets
<1>c. \A f \in [Record -> Row] : \A y \in Record :
        Committed(f)[y].status = f[y].status \/ Committed(f)[y].status = "cancelled"
  BY CommittedEffect
<1>s. scan \in Scans
  BY <1>0, Rest
<1>d. ASSUME NEW r \in Record, Turn(r), Commits(r)
      PROVE  /\ scan'.at = scan.at /\ scan.found = {} /\ scan'.found = {}
             /\ x \in scan'.todo => x \in scan.todo
  BY <1>d, <1>s DEF Commits, Turn, Scans
<1>q. ASSUME NEW r \in Record, exec' = Queued("worker", r)
      PROVE  \A o \in Process, y \in Record :
               exec'[o][y] = IF o = "worker" /\ y = r /\ exec["worker"][r] = "idle" THEN "queued"
                             ELSE exec[o][y]
  BY <1>q, <1>0, QueuedEffect, Kinds
<1>1. CASE StartScan
  <2>1. /\ scan'.at = "created" /\ scan'.found = {} /\ scan.at = "none"
        /\ x \in scan'.todo => record[x].status = "created"
        /\ UNCHANGED <<record, exec, doubled, lost, posts, analyses>>
    BY <1>1 DEF StartScan, With, NoScan
  <2>2. x \notin scan.found
    BY <1>0, <2>1 DEF RecordInv, Exists
  <2> QED
    BY <2>1, <2>2, <1>0
    DEF RecordInv, Handover, Exists, TakenUp, OneHolder, NoSecondRequest, HasThread
<1>2. CASE NextPhase
  <2>1. /\ scan'.todo = Late \/ scan'.todo = Waiting \ Late
        /\ scan.at \in {"created", "expired"} /\ scan'.found = scan.found
        /\ UNCHANGED <<record, exec, doubled, lost, posts, analyses>>
    BY <1>2, <1>s DEF NextPhase, Scans
  <2>2. x \in scan'.todo => record[x].status \in {"submitting", "polling"}
    BY <2>1 DEF Late, Waiting, With
  <2>3. x \notin scan.found
    BY <1>0, <2>1 DEF RecordInv, Exists
  <2> QED
    BY <2>1, <2>2, <2>3, <1>0
    DEF RecordInv, Handover, Exists, TakenUp, OneHolder, NoSecondRequest, HasThread
<1>3. CASE EndScan
  BY <1>3, <1>0, <1>c, Frame DEF EndScan, NoScan
<1>4. ASSUME NEW r \in Record, FailExpired(r) \/ ProbePending(r) \/ ProbeRefused(r)
      PROVE  RecordInv(x)'
  <2>1. PICK f \in [Record -> Row] : /\ record' = Committed(f)
                                     /\ f = record \/ f = Write(record, r, "failed")
    BY <1>4, <1>0, <1>w, Kinds DEF FailExpired, ProbePending, ProbeRefused
  <2>2. f[x].status = record[x].status \/ f[x].status \in Closed
    BY <2>1, <1>w, Kinds
  <2>3. record'[x].status = record[x].status \/ record'[x].status \in Closed
    <3>1. Committed(f)[x].status = f[x].status \/ Committed(f)[x].status = "cancelled"
      BY <1>c
    <3> QED
      BY <2>1, <2>2, <3>1
  <2>4. Turn(r) /\ Commits(r) /\ UNCHANGED <<exec, doubled, lost, posts, analyses>>
    BY <1>4 DEF FailExpired, ProbePending, ProbeRefused, Probed
  <2> QED
    BY <2>3, <2>4, <1>0, <1>d, Frame
<1>5. ASSUME NEW r \in Record, ScanFails(r) PROVE RecordInv(x)'
  BY <1>5, <1>0, Frame DEF ScanFails, Probed, Turn, NoScan
<1>8. ASSUME NEW r \in Record, CancelListed(r) PROVE RecordInv(x)'
  <2>1. /\ scan'.at = scan.at /\ scan'.found = scan.found
        /\ x \in scan'.todo => x \in scan.todo
        /\ UNCHANGED <<record, exec, doubled, lost, posts, analyses>>
    BY <1>8, <1>s DEF CancelListed, Scans
  <2> QED
    BY <2>1, <1>0, Frame
<1>6. ASSUME NEW r \in Record, QueueCreated(r) PROVE RecordInv(x)'
  <2>0. /\ x \in scan'.todo => x \in scan.todo
        /\ scan'.at = scan.at /\ scan'.found = scan.found /\ r \in scan.todo
        /\ UNCHANGED <<record, posts, analyses>>
    BY <1>6, <1>s DEF QueueCreated, Turn, Scans
  <2>1. CASE x # r
    BY <1>6, <2>0, <2>1, <1>0, <1>q, Frame DEF QueueCreated, Noted
  <2>2. CASE x = r
    BY <1>6, <2>0, <2>2, <1>0, <1>q, Kinds
    DEF QueueCreated, Noted, RecordInv, Handover, Exists, TakenUp, OneHolder, NoSecondRequest,
        HasThread
  <2> QED
    BY <2>1, <2>2
<1>7. ASSUME NEW r \in Record, ProbeReady(r) PROVE RecordInv(x)'
  <2>0. /\ x \in scan'.todo => x \in scan.todo
        /\ r \in scan.todo /\ scan.at = "polling" /\ scan'.at = "polling"
        /\ scan.found = {} /\ scan'.found = {r}
        /\ UNCHANGED <<exec, doubled, lost, posts, analyses>>
    BY <1>7, <1>s DEF ProbeReady, Probed, Turn, Scans
  <2>1. \/ record'[x].status = record[x].status /\ (x = r => record[x].status \in Closed)
        \/ record'[x].status \in Closed
        \/ x = r /\ record'[x].status = "downloading" /\ record[x].status \notin Closed
    <3> DEFINE f == WriteIfOpen(record, r, "downloading")
    <3>1. /\ f \in [Record -> Row]
          /\ f[x].status = IF x = r /\ record[r].status \notin Closed THEN "downloading"
                           ELSE record[x].status
      BY <1>o, Kinds
    <3>2. record' = Committed(f)
      BY <1>7 DEF ProbeReady
    <3>3. Committed(f)[x].status = f[x].status \/ Committed(f)[x].status = "cancelled"
      BY <3>1, <1>c
    <3> HIDE DEF f
    <3> QED
      BY <3>1, <3>2, <3>3
  <2>2. CASE x # r
    BY <2>0, <2>1, <2>2, <1>0, Frame
  <2>3. CASE x = r
    BY <2>0, <2>1, <2>3, <1>0, Kinds
    DEF RecordInv, Handover, Exists, TakenUp, OneHolder, NoSecondRequest, HasThread
  <2> QED
    BY <2>2, <2>3
<1>9. ASSUME NEW r \in Record, QueueFound(r) PROVE RecordInv(x)'
  <2>0. /\ scan'.todo = scan.todo /\ scan'.at = scan.at
        /\ r \in scan.found /\ scan'.found = scan.found \ {r}
        /\ UNCHANGED <<record, posts, analyses>>
    BY <1>9, <1>s DEF QueueFound, Scans
  <2>1. CASE x # r
    BY <1>9, <2>0, <2>1, <1>0, <1>q, Frame DEF QueueFound, Noted
  <2>2. CASE x = r
    BY <1>9, <2>0, <2>2, <1>0, <1>q, Kinds
    DEF QueueFound, Noted, RecordInv, Handover, Exists, TakenUp, OneHolder, NoSecondRequest,
        HasThread
  <2> QED
    BY <2>1, <2>2
<1> QED
  BY <1>1, <1>2, <1>3, <1>4, <1>5, <1>6, <1>7, <1>8, <1>9 DEF ScanStep

(* Users, restarts, the platform and time.                                 *)
LEMMA OtherRecords ==
  ASSUME IInv, Next, NEW x \in Record,
         ~ ScanStep, ~ \E p \in Process, r \in Record : Execute(p, r)
  PROVE  RecordInv(x)'
<1> USE Sets DEF history
<1>0. /\ TypeOK /\ record \in [Record -> Row] /\ exec \in [Process -> [Record -> At]]
      /\ posts \in [Record -> Nat] /\ analyses \in [Record -> Nat]
      /\ RecordInv(x)
  BY Parts DEF IInv, TypeOK
<1>w. \A r \in Record, status \in Status : \A y \in Record :
        Write(record, r, status)[y].status =
          IF y = r /\ record[r].status # "deleted" THEN status ELSE record[y].status
  BY <1>0, WriteEffect
<1>1. ASSUME NEW r \in Record, TicketHalts(r) \/ TicketResumes(r) PROVE RecordInv(x)'
  BY <1>1, <1>0, Frame DEF TicketHalts, TicketResumes
<1>2. ASSUME NEW r \in Record, Create(r) PROVE RecordInv(x)'
  <2>1. \A o \in Process, y \in Record :
          exec'[o][y] = IF o = "api" /\ y = r /\ exec["api"][r] = "idle" THEN "queued"
                        ELSE exec[o][y]
    BY <1>2, <1>0, QueuedEffect, Kinds DEF Create
  <2>2. /\ record[r].status = "absent"
        /\ record'[r].status = "created" /\ (x # r => record'[x] = record[x])
        /\ UNCHANGED <<scan, posts, analyses, doubled, lost>>
    BY <1>2, <1>0 DEF Create, Row
  <2>3. CASE x # r
    BY <2>1, <2>2, <2>3, <1>0, Frame
  <2>4. CASE x = r
    BY <2>1, <2>2, <2>4, <1>0, Kinds
    DEF RecordInv, Handover, Exists, TakenUp, OneHolder, NoSecondRequest, HasThread
  <2> QED
    BY <2>3, <2>4
<1>3. ASSUME NEW r \in Record, CheckStop(r) PROVE RecordInv(x)'
  BY <1>3, <1>0, Frame DEF CheckStop
<1>4. ASSUME NEW r \in Record, Stop(r) PROVE RecordInv(x)'
  <2>1. record'[x].status = record[x].status \/ record'[x].status \in Closed
    BY <1>4, <1>w, Kinds DEF Stop
  <2> QED
    BY <1>4, <2>1, <1>0, Frame DEF Stop
<1>5. ASSUME NEW r \in Record, Delete(r) PROVE RecordInv(x)'
  <2>1. record'[x].status = record[x].status \/ record'[x].status \in Closed
    BY <1>5, <1>0 DEF Delete, Row
  <2> QED
    BY <1>5, <2>1, <1>0, Frame DEF Delete
<1>6. ASSUME NEW r \in Record, FailInterrupted(r) PROVE RecordInv(x)'
  <2>1. record'[x].status = record[x].status \/ record'[x].status \in Closed
    BY <1>6, <1>w, Kinds DEF FailInterrupted
  <2> QED
    BY <1>6, <2>1, <1>0, Frame DEF FailInterrupted
<1>7. ASSUME NEW r \in Record, DeadlinePasses(r) PROVE RecordInv(x)'
  <2>1. record'[x].status = record[x].status
    BY <1>7, <1>0 DEF DeadlinePasses, Row
  <2> QED
    BY <1>7, <2>1, <1>0, Frame DEF DeadlinePasses
<1>8. CASE PlatformAnswers
  BY <1>8, <1>0, Frame DEF PlatformAnswers
<1>9. CASE RestartApi \/ KillWorker
  <2>1. /\ \A o \in Process : exec'[o][x] = exec[o][x] \/ (exec'[o][x] = "idle" /\ x \in lost')
        /\ \A o \in Process : exec'[o][x] = exec[o][x] \/ exec'[o][x] = "idle"
        /\ scan' = scan \/ (scan' = NoScan /\ scan.found \subseteq lost')
        /\ UNCHANGED <<record, posts, analyses, doubled>>
        /\ x \in lost => x \in lost'
    BY <1>9, <1>0 DEF RestartApi, KillWorker
  <2> QED
    BY <2>1, <1>0
    DEF NoScan, RecordInv, Handover, Exists, TakenUp, OneHolder, NoSecondRequest, HasThread
<1> QED
  BY <1>1, <1>2, <1>3, <1>4, <1>5, <1>6, <1>7, <1>8, <1>9 DEF Next

LEMMA NextInv == IInv /\ [Next]_vars => IInv'
<1> SUFFICES ASSUME IInv, [Next]_vars PROVE IInv'
  OBVIOUS
<1>1. TypeOK'
  BY NextTypes DEF IInv
<1>2. ASSUME NEW x \in Record PROVE RecordInv(x)'
  <2>1. CASE UNCHANGED vars
    BY <2>1 DEF vars, history, IInv, RecordInv, Handover, Exists, TakenUp, OneHolder,
       NoSecondRequest, HasThread
  <2>2. CASE Next
    BY <2>2, ExecuteRecords, ScanRecords, OtherRecords
  <2> QED
    BY <2>1, <2>2
<1> QED
  BY <1>1, <1>2 DEF IInv

LEMMA Always == Spec => []IInv
<1>1. Init => IInv
  BY InitTypes, InitRecords DEF IInv
<1> QED
  BY <1>1, NextInv, PTL DEF Spec

(* The analysis behind a pull is triggered once, although both processes   *)
(* may download the record: success is written only over an open status    *)
(* and in one statement, and only who wrote it triggers                    *)
(* (_process_download).                                                    *)
THEOREM AnalysedOnce == Spec => []OneAnalysis
<1>1. IInv => OneAnalysis
  BY DEF IInv, RecordInv, Handover, OneAnalysis
<1> QED
  BY <1>1, Always, PTL

(* The platform gets a request twice only of a record that was doubled     *)
(* (_process_submit, scan_pending_records).                                *)
THEOREM RequestsAreNotRepeated == Spec => []RequestedOnce
<1>1. IInv => RequestedOnce
  BY DEF IInv, TypeOK, RecordInv, NoSecondRequest, RequestedOnce
<1> QED
  BY <1>1, Always, PTL

(* A record that downloads has a thread, unless a process died with it or  *)
(* its thread was refused (queue_record).                                  *)
THEOREM DownloadsAreHeld == Spec => []DownloadHasThread
<1>1. IInv => DownloadHasThread
  BY DEF IInv, RecordInv, HasThread, DownloadHasThread, With
<1> QED
  BY <1>1, Always, PTL

-----------------------------------------------------------------------------
(* What ends a record, and that it stays so.                               *)
Stays(old, new) ==
  old \in Closed => new \in Closed /\ (new = "success" => old = "success")

LEMMA WritesEnd ==
  ASSUME NEW f \in [Record -> Row], NEW r \in Record, NEW x \in Record
  PROVE  /\ \A status \in {"failed", "exception", "cancelled"} :
              Stays(f[x].status, Write(f, r, status)[x].status)
         /\ \A status \in Status : Stays(f[x].status, WriteIfOpen(f, r, status)[x].status)
         /\ Stays(f[x].status, Committed(f)[x].status)
<1>1. ASSUME NEW status \in {"failed", "exception", "cancelled"}
      PROVE  Stays(f[x].status, Write(f, r, status)[x].status)
  BY WriteEffect, Kinds, Sets DEF Stays
<1>2. ASSUME NEW status \in Status
      PROVE  Stays(f[x].status, WriteIfOpen(f, r, status)[x].status)
  BY WriteIfOpenEffect DEF Stays
<1>3. Stays(f[x].status, Committed(f)[x].status)
  BY CommittedEffect, Sets DEF Stays
<1> QED
  BY <1>1, <1>2, <1>3

LEMMA StaysTwice == \A a, b, c : Stays(a, b) /\ Stays(b, c) => Stays(a, c)
BY DEF Stays

LEMMA NextStays ==
  ASSUME TypeOK, [Next]_vars, NEW x \in Record
  PROVE  Stays(record[x].status, record'[x].status)
<1> DEFINE Kept(f, g) == Stays(f[x].status, g[x].status)
<1>0. record \in [Record -> Row]
  BY Parts
<1>s. Kept(record, record)
  BY DEF Stays
<1>w. \A r \in Record : \A status \in {"failed", "exception", "cancelled"} :
        Kept(record, Write(record, r, status))
  BY <1>0, WritesEnd
<1>o. \A r \in Record : \A status \in Status : Kept(record, WriteIfOpen(record, r, status))
  BY <1>0, WritesEnd
<1>c. \A f \in [Record -> Row] : Kept(record, f) => Kept(record, Committed(f))
  BY WritesEnd, StaysTwice
<1>u. record' = record => Kept(record, record')
  BY DEF Stays
<1>1. ASSUME NEW p \in Process, NEW r \in Record, Execute(p, r) PROVE Kept(record, record')
  <2>1. CASE LookupReady(p, r)
    BY <2>1, <1>o, Kinds DEF LookupReady
  <2>2. CASE LookupRefused(p, r) \/ TooLarge(p, r) \/ WriteException(p, r)
    BY <2>2, <1>w DEF LookupRefused, TooLarge, WriteException
  <2>3. CASE LookupNothing(p, r)
    BY <2>3, <1>s, <1>o, Kinds DEF LookupNothing
  <2>4. CASE StartDownload(p, r)
    BY <2>4, <1>o, Kinds DEF StartDownload
  <2>5. CASE StartParsing(p, r)
    BY <2>5, <1>o, Kinds DEF StartParsing
  <2>6. CASE Succeed(p, r)
    BY <2>6, <1>o, Kinds DEF Succeed
  <2>7. CASE Accepted(p, r)
    <3>1. CASE record[r].status \in Closed
      BY <2>7, <3>1, <1>s DEF Accepted
    <3>2. CASE record[r].status \notin Closed
      BY <2>7, <3>2, <1>0 DEF Accepted, Stays
    <3> QED
      BY <3>1, <3>2
  <2>8. CASE UNCHANGED record
    BY <2>8, <1>u
  <2> QED
    BY <1>1, <2>1, <2>2, <2>3, <2>4, <2>5, <2>6, <2>7, <2>8
    DEF Execute, Load, Post, Fetch, TriggerAnalysis, Break, Leave
<1>2. CASE ScanStep
  <2>1. CASE EndScan
    <3>1. Kept(record, Committed(record))
      BY <1>0, <1>s, <1>c
    <3>2. record' = Committed(record)
      BY <2>1 DEF EndScan
    <3> QED
      BY <3>1, <3>2
  <2>2. ASSUME NEW r \in Record, FailExpired(r) \/ ProbePending(r) \/ ProbeReady(r) \/ ProbeRefused(r)
        PROVE  Kept(record, record')
    <3>1. PICK f \in [Record -> Row] : Kept(record, f) /\ record' = Committed(f)
      BY <2>2, <1>0, <1>s, <1>w, <1>o, Kinds, WriteEffect, WriteIfOpenEffect
      DEF FailExpired, ProbePending, ProbeReady, ProbeRefused
    <3> QED
      BY <3>1, <1>c
  <2>3. CASE UNCHANGED record
    BY <2>3, <1>u
  <2> QED
    BY <1>2, <2>1, <2>2, <2>3 DEF ScanStep, StartScan, NextPhase, CancelListed, QueueCreated,
       QueueFound, ScanFails
<1>3. ASSUME NEW r \in Record, Create(r) \/ Delete(r) \/ DeadlinePasses(r)
      PROVE  Kept(record, record')
  BY <1>3, <1>0 DEF Create, Delete, DeadlinePasses, Stays, Row, Closed, Terminal
<1>4. ASSUME NEW r \in Record, Stop(r) \/ FailInterrupted(r) PROVE Kept(record, record')
  BY <1>4, <1>s, <1>w DEF Stop, FailInterrupted
<1>5. CASE UNCHANGED record
  BY <1>5, <1>u
<1>6. Kept(record, record')
  BY <1>1, <1>2, <1>3, <1>4, <1>5
  DEF Next, vars, TicketHalts, TicketResumes, CheckStop, PlatformAnswers, RestartApi, KillWorker
<1> QED
  BY <1>6

(* An ended record stays ended and becomes no success: what is written     *)
(* over it by id alone ends it too, and success only by the guarded        *)
(* statement (_update_status).                                             *)
THEOREM EndsAreFinal == Spec => EndedStaysEnded
<1>1. TypeOK /\ [Next]_vars =>
        [\A r \in Record : record[r].status \in Closed =>
           /\ record'[r].status \in Closed
           /\ record'[r].status = "success" => record[r].status = "success"]_vars
  BY NextStays DEF Stays
<1> QED
  BY <1>1, TypesHold, PTL DEF Spec, EndedStaysEnded
=============================================================================
