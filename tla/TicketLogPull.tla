----------------------------- MODULE TicketLogPull -----------------------------
(***************************************************************************)
(* Log pulls with the same parameters: a record, the request to the        *)
(* external log platform, the wait for its result, download, parsing, and  *)
(* the AI analysis that follows a success                                  *)
(* (modules/ticket/service/log_pull/ticket_log_pull_service.py).           *)
(*                                                                         *)
(* A created record is queued in the thread pool of the API process; the   *)
(* scan, a scheduled job, runs in the Celery worker and queues records in  *)
(* the pool of that process.  Each process knows only its own records.     *)
(* Thread and scan write the row whenever they get to it; a status is      *)
(* guarded only inside the UPDATE that writes it, and not for all.         *)
(***************************************************************************)
EXTENDS Naturals, FiniteSets

CONSTANTS
  Record,
  Ranged,       \* records with a time range: their archive is parsed
  Left,         \* record -> status in which a process that died has left it
                \* behind before the start, or absent
  MaxEvents     \* bound: stops, deletions, ticket changes, restarts

ASSUME PullAssumption ==
  /\ Ranged \subseteq Record /\ MaxEvents \in Nat
  /\ Left \in [Record -> {"absent", "created", "submitting"}]

Process == {"api", "worker"}
Active == {"created", "submitting", "polling", "downloading", "processing"}
Terminal == {"success", "failed", "exception", "cancelled"}
Interrupted == {"downloading", "processing"}
Closed == Terminal \cup {"deleted"}

VARIABLES
  record,     \* ticket_log_pull_record: status, and poll_deadline_at ("none",
              \* "set" or "passed")
  listed,     \* outcomes of requests with these parameters that the platform lists
  exec,       \* process, record -> where its thread stands
  halted,     \* automatic records whose ticket has a status that stops them
  stopping,   \* stop requests that have read the status
  scan,       \* the scan: its phase, what is left of the list, cancellations
              \* not yet committed, the record found ready and not yet queued,
              \* whether it committed since it listed
  resume,     \* the start of the API: records listed as interrupted
  events,     \* stops, deletions, ticket changes and restarts so far
  posts,      \* history: record -> requests that reached the platform
  analyses,   \* history: record -> analyses triggered
  doubled,    \* history: records queued in one process while the other held
              \* them, or by the scan after they had been taken up
  lost        \* history: records a process died on or refused to queue

history == <<posts, analyses, doubled, lost>>
vars == <<record, listed, exec, halted, stopping, scan, resume, events, history>>

NoScan == [at |-> "none", todo |-> {}, held |-> {}, found |-> {}, fresh |-> FALSE]
NoResume == [todo |-> {}, wrote |-> FALSE]

Init ==
  /\ record = [r \in Record |-> [status |-> Left[r], deadline |-> "none"]]
  /\ listed = {} /\ halted = {}
  /\ exec = [p \in Process |-> [r \in Record |-> "idle"]]
  /\ stopping = {} /\ scan = NoScan /\ resume = NoResume
  /\ events = 0
  /\ posts = [r \in Record |-> IF Left[r] = "submitting" THEN 1 ELSE 0]
  /\ analyses = [r \in Record |-> 0]
  /\ doubled = {} /\ lost = {}

-----------------------------------------------------------------------------
With(status) == {r \in Record : record[r].status \in status}
Happens == events < MaxEvents /\ events' = events + 1

(* A cancellation of the scan locks the row until the scan commits.        *)
RowFree(r) == r \notin scan.held

(* An UPDATE by id alone: terminal states are written without a look at    *)
(* the present one.                                                        *)
Write(f, r, status) ==
  IF f[r].status = "deleted" THEN f ELSE [f EXCEPT ![r].status = status]

(* _update_record_if_not_terminal.  The mutated form is the UPDATE by id.  *)
WriteAlways(f, r, status) == Write(f, r, status)
WriteIfOpen(f, r, status) ==
  IF f[r].status \in Closed THEN f ELSE [f EXCEPT ![r].status = status]

Goes(p, r, at) == exec' = [exec EXCEPT ![p][r] = at]

(* queue_record: at most one thread for a record in a process.  The        *)
(* mutated form asks the threads of both processes.                        *)
QueuedIfNowhere(p, r) ==
  IF \A o \in Process : exec[o][r] = "idle" THEN [exec EXCEPT ![p][r] = "queued"] ELSE exec
Queued(p, r) ==
  IF exec[p][r] = "idle" THEN [exec EXCEPT ![p][r] = "queued"] ELSE exec

(* History of a record that is queued: a thread that has nothing left to   *)
(* do but to leave still keeps a new one out.                              *)
Noted(p, r, stale) ==
  /\ doubled' = IF stale \/ \E o \in Process \ {p} : exec[o][r] # "idle"
                THEN doubled \cup {r} ELSE doubled
  /\ lost' = IF exec[p][r] = "ending" THEN lost \cup {r} ELSE lost

-----------------------------------------------------------------------------
(* A thread of process p with record r.  Positions: queued; new, resumed:  *)
(* created or submitting was read; posting; posted; failing: an exception  *)
(* was caught; download, again: about to download; fetching; fetched;      *)
(* parsing; won: success was written; ending: not yet out of the pool.     *)

Load(p, r) ==
  LET next == CASE record[r].status = "created" -> "new"
                [] record[r].status = "submitting" -> "resumed"
                [] record[r].status = "downloading" -> "fetching"
                [] record[r].status = "processing" -> "again"
                [] OTHER -> "ending"
  IN  /\ exec[p][r] = "queued"
      /\ Goes(p, r, next)
      /\ UNCHANGED <<record, listed, halted, stopping, scan, resume, events, history>>

(* The newest requests with the same parameters are looked at: the own one *)
(* may match, or that of another record.                                   *)
Matched(what) == what \in listed

(* The platform is asked first.                                            *)
LookupReady(p, r) ==
  /\ exec[p][r] \in {"new", "resumed"} /\ Matched("ready") /\ RowFree(r)
  /\ record' = WriteIfOpen(record, r, "downloading")
  /\ Goes(p, r, "download")
  /\ UNCHANGED <<listed, halted, stopping, scan, resume, events, history>>

LookupRefused(p, r) ==
  /\ exec[p][r] \in {"new", "resumed"} /\ Matched("refused") /\ RowFree(r)
  /\ record' = Write(record, r, "failed")
  /\ Goes(p, r, "ending")
  /\ UNCHANGED <<listed, halted, stopping, scan, resume, events, history>>

(* Nothing that has a result.  The status is read again, and not looked    *)
(* at.  The mutated form writes no status before the request.              *)
LookupNothingUnmarked(p, r) ==
  /\ exec[p][r] \in {"new", "resumed"} /\ RowFree(r)
  /\ UNCHANGED record
  /\ Goes(p, r, IF record[r].status = "deleted" THEN "ending" ELSE "posting")
  /\ UNCHANGED <<listed, halted, stopping, scan, resume, events, history>>
LookupNothing(p, r) ==
  /\ exec[p][r] \in {"new", "resumed"} /\ RowFree(r)
  /\ record' = IF exec[p][r] = "new" THEN WriteIfOpen(record, r, "submitting") ELSE record
  /\ Goes(p, r, IF record[r].status = "deleted" THEN "ending" ELSE "posting")
  /\ UNCHANGED <<listed, halted, stopping, scan, resume, events, history>>

(* The request reaches the platform.  An answer that is lost is an         *)
(* exception (Break).                                                      *)
Post(p, r) ==
  /\ exec[p][r] = "posting"
  /\ posts' = [posts EXCEPT ![r] = @ + 1]
  /\ Goes(p, r, "posted")
  /\ UNCHANGED <<record, listed, halted, stopping, scan, resume, events, analyses, doubled, lost>>

Accepted(p, r) ==
  /\ exec[p][r] = "posted" /\ RowFree(r)
  /\ record' = IF record[r].status \in Closed THEN record
               ELSE [record EXCEPT ![r] = [status |-> "polling", deadline |-> "set"]]
  /\ Goes(p, r, "ending")
  /\ UNCHANGED <<listed, halted, stopping, scan, resume, events, history>>

(* Whoever comes from the platform's list reads afresh, whoever was queued *)
(* for a record in processing looks only for a cancellation.               *)
StartDownload(p, r) ==
  LET over == IF exec[p][r] = "download" THEN {"success", "cancelled", "deleted"}
                                         ELSE {"cancelled", "deleted"}
  IN  /\ exec[p][r] \in {"download", "again"} /\ RowFree(r)
      /\ record' = WriteIfOpen(record, r, "downloading")
      /\ Goes(p, r, IF record[r].status \in over THEN "ending" ELSE "fetching")
      /\ UNCHANGED <<listed, halted, stopping, scan, resume, events, history>>

Fetch(p, r) ==
  /\ exec[p][r] = "fetching"
  /\ Goes(p, r, "fetched")
  /\ UNCHANGED <<record, listed, halted, stopping, scan, resume, events, history>>

(* "Read again" before the parsing is the object of the same transaction:  *)
(* a stop since then is not seen.                                          *)
StartParsing(p, r) ==
  /\ exec[p][r] = "fetched" /\ r \in Ranged /\ RowFree(r)
  /\ record' = WriteIfOpen(record, r, "processing")
  /\ Goes(p, r, "parsing")
  /\ UNCHANGED <<listed, halted, stopping, scan, resume, events, history>>

Succeed(p, r) ==
  /\ exec[p][r] = IF r \in Ranged THEN "parsing" ELSE "fetched"
  /\ RowFree(r)
  /\ record' = WriteIfOpen(record, r, "success")
  /\ Goes(p, r, IF record' = record THEN "ending" ELSE "won")
  /\ UNCHANGED <<listed, halted, stopping, scan, resume, events, history>>

TooLarge(p, r) ==
  /\ exec[p][r] = "parsing" /\ RowFree(r)
  /\ record' = Write(record, r, "failed")
  /\ Goes(p, r, "ending")
  /\ UNCHANGED <<listed, halted, stopping, scan, resume, events, history>>

TriggerAnalysis(p, r) ==
  /\ exec[p][r] = "won"
  /\ analyses' = [analyses EXCEPT ![r] = @ + 1]
  /\ Goes(p, r, "ending")
  /\ UNCHANGED <<record, listed, halted, stopping, scan, resume, events, posts, doubled, lost>>

(* The platform, the archive, the storage or the work behind a success     *)
(* fails, and the handler writes exception.                                *)
Break(p, r) ==
  /\ exec[p][r] \in {"new", "resumed", "posting", "posted", "fetching", "fetched", "parsing",
                     "won"}
  /\ Goes(p, r, "failing")
  /\ UNCHANGED <<record, listed, halted, stopping, scan, resume, events, history>>

WriteException(p, r) ==
  /\ exec[p][r] = "failing" /\ RowFree(r)
  /\ record' = Write(record, r, "exception")
  /\ Goes(p, r, "ending")
  /\ UNCHANGED <<listed, halted, stopping, scan, resume, events, history>>

Leave(p, r) ==
  /\ exec[p][r] = "ending"
  /\ Goes(p, r, "idle")
  /\ UNCHANGED <<record, listed, halted, stopping, scan, resume, events, history>>

Execute(p, r) ==
  \/ Load(p, r) \/ LookupReady(p, r) \/ LookupRefused(p, r) \/ LookupNothing(p, r)
  \/ Post(p, r) \/ Accepted(p, r)
  \/ StartDownload(p, r) \/ Fetch(p, r) \/ StartParsing(p, r) \/ Succeed(p, r)
  \/ TooLarge(p, r) \/ TriggerAnalysis(p, r)
  \/ Break(p, r) \/ WriteException(p, r) \/ Leave(p, r)

-----------------------------------------------------------------------------
(* The scan.  A commit also commits the cancellations it has made.         *)

Committed(f) == [r \in Record |-> IF r \in scan.held /\ f[r].status # "deleted"
                                  THEN [f[r] EXCEPT !.status = "cancelled"] ELSE f[r]]
Commits(r) == scan' = [scan EXCEPT !.todo = @ \ {r}, !.held = {}, !.fresh = TRUE]

(* After a commit every record of the list is read again: one that is      *)
(* deleted raises.  Before, its status is the listed one.                  *)
Gone(r) == scan.fresh /\ record[r].status = "deleted"
(* cancel_record_if_stop_condition_hit: it comes before all else.          *)
StopHit(r) == r \in halted /\ (scan.fresh => record[r].status \in Active)
Turn(r) == r \in scan.todo /\ scan.found = {} /\ ~Gone(r)

StartScan ==
  /\ scan.at = "none"
  /\ scan' = [NoScan EXCEPT !.at = "created", !.todo = With({"created"})]
  /\ UNCHANGED <<record, listed, exec, halted, stopping, resume, events, history>>

CancelListed(r) ==
  /\ Turn(r) /\ StopHit(r)
  /\ scan' = [scan EXCEPT !.todo = @ \ {r}, !.held = @ \cup {r}]
  /\ UNCHANGED <<record, listed, exec, halted, stopping, resume, events, history>>

QueueCreated(r) ==
  /\ scan.at = "created" /\ Turn(r) /\ ~StopHit(r)
  /\ exec' = Queued("worker", r) /\ Noted("worker", r, record[r].status # "created")
  /\ scan' = [scan EXCEPT !.todo = @ \ {r}]
  /\ UNCHANGED <<record, listed, halted, stopping, resume, events, posts, analyses>>

(* Waiting records whose deadline is over come first.  The mutated form    *)
(* probes all of them.                                                     *)
Waiting == With({"submitting", "polling"}) \ scan.held
Late == {r \in Waiting : record[r].deadline = "passed"}
NextPhaseNoneLate ==
  /\ scan.todo = {}
  /\ \/ scan.at = "created" /\ scan' = [scan EXCEPT !.at = "expired"]
     \/ scan.at = "expired" /\ scan' = [scan EXCEPT !.at = "polling", !.todo = Waiting]
  /\ UNCHANGED <<record, listed, exec, halted, stopping, resume, events, history>>
NextPhase ==
  /\ scan.todo = {}
  /\ \/ scan.at = "created" /\ scan' = [scan EXCEPT !.at = "expired", !.todo = Late]
     \/ scan.at = "expired" /\ scan' = [scan EXCEPT !.at = "polling", !.todo = Waiting \ Late,
                                                    !.fresh = FALSE]
  /\ UNCHANGED <<record, listed, exec, halted, stopping, resume, events, history>>

FailExpired(r) ==
  /\ scan.at = "expired" /\ Turn(r) /\ ~StopHit(r)
  /\ record' = Committed(Write(record, r, "failed"))
  /\ Commits(r)
  /\ UNCHANGED <<listed, exec, halted, stopping, resume, events, history>>

Probed(r) == scan.at = "polling" /\ Turn(r) /\ ~StopHit(r)

(* No match, or the platform is still at work.                             *)
ProbePending(r) ==
  /\ Probed(r)
  /\ record' = Committed(record)
  /\ Commits(r)
  /\ UNCHANGED <<listed, exec, halted, stopping, resume, events, history>>

(* Found, and then queued, whether or not the status could be written.     *)
ProbeReady(r) ==
  /\ Probed(r) /\ Matched("ready")
  /\ record' = Committed(WriteIfOpen(record, r, "downloading"))
  /\ scan' = [scan EXCEPT !.todo = @ \ {r}, !.held = {}, !.found = {r}, !.fresh = TRUE]
  /\ UNCHANGED <<listed, exec, halted, stopping, resume, events, history>>

QueueFound(r) ==
  /\ r \in scan.found
  /\ exec' = Queued("worker", r) /\ Noted("worker", r, FALSE)
  /\ scan' = [scan EXCEPT !.found = @ \ {r}]
  /\ UNCHANGED <<record, listed, halted, stopping, resume, events, posts, analyses>>

ProbeRefused(r) ==
  /\ Probed(r) /\ Matched("refused")
  /\ record' = Committed(Write(record, r, "failed"))
  /\ Commits(r)
  /\ UNCHANGED <<listed, exec, halted, stopping, resume, events, history>>

(* An exception ends the scan and takes back what is not committed.        *)
ScanFails(r) ==
  /\ Probed(r) \/ (r \in scan.todo /\ scan.found = {} /\ Gone(r))
  /\ scan' = NoScan
  /\ UNCHANGED <<record, listed, exec, halted, stopping, resume, events, history>>

EndScan ==
  /\ scan.at = "polling" /\ scan.todo = {} /\ scan.found = {}
  /\ record' = Committed(record)
  /\ scan' = NoScan
  /\ UNCHANGED <<listed, exec, halted, stopping, resume, events, history>>

ScanStep ==
  \/ StartScan \/ NextPhase \/ EndScan
  \/ \E r \in Record : \/ CancelListed(r) \/ QueueCreated(r) \/ FailExpired(r)
                       \/ ProbePending(r) \/ ProbeReady(r) \/ QueueFound(r)
                       \/ ProbeRefused(r) \/ ScanFails(r)

-----------------------------------------------------------------------------
(* Users and the ticket status.  A retry creates a record.                 *)

Create(r) ==
  /\ record[r].status = "absent"
  /\ record' = [record EXCEPT ![r].status = "created"]
  /\ exec' = Queued("api", r)
  /\ UNCHANGED <<listed, halted, stopping, scan, resume, events, history>>

(* A stop reads the status, and writes cancelled later.                    *)
CheckStop(r) ==
  /\ Happens
  /\ record[r].status \in Active /\ r \notin stopping
  /\ stopping' = stopping \cup {r}
  /\ UNCHANGED <<record, listed, exec, halted, scan, resume, history>>

Stop(r) ==
  /\ r \in stopping /\ RowFree(r)
  /\ record' = Write(record, r, "cancelled")
  /\ stopping' = stopping \ {r}
  /\ UNCHANGED <<listed, exec, halted, scan, resume, events, history>>

(* The ticket reaches a status that stops automatic pulls, or leaves it.   *)
(* change_ticket_status also stops the records that are active, a change   *)
(* by the synchronization does not.                                        *)
TicketHalts(r) ==
  /\ Happens
  /\ record[r].status # "absent" /\ r \notin halted
  /\ halted' = halted \cup {r}
  /\ \/ UNCHANGED stopping
     \/ record[r].status \in Active /\ stopping' = stopping \cup {r}
  /\ UNCHANGED <<record, listed, exec, scan, resume, history>>

TicketResumes(r) ==
  /\ r \in halted /\ halted' = halted \ {r}
  /\ UNCHANGED <<record, listed, exec, stopping, scan, resume, events, history>>

Delete(r) ==
  /\ Happens
  /\ record[r].status \in Terminal /\ RowFree(r)
  /\ record' = [record EXCEPT ![r].status = "deleted"]
  /\ UNCHANGED <<listed, exec, halted, stopping, scan, resume, history>>

-----------------------------------------------------------------------------
(* The API starts again: what downloads or parses is failed, also when the *)
(* worker does it.  After the first write the rest is read again.          *)
RestartApi ==
  /\ Happens
  /\ lost' = lost \cup {r \in Record : exec["api"][r] # "idle"}
  /\ exec' = [exec EXCEPT !["api"] = [r \in Record |-> "idle"]]
  /\ stopping' = {}
  /\ resume' = [todo |-> With(Interrupted), wrote |-> FALSE]
  /\ UNCHANGED <<record, listed, halted, scan, posts, analyses, doubled>>

FailInterrupted(r) ==
  /\ r \in resume.todo /\ RowFree(r)
  /\ record' = IF resume.wrote /\ record[r].status \notin Interrupted THEN record
               ELSE Write(record, r, "failed")
  /\ resume' = [todo |-> resume.todo \ {r}, wrote |-> resume.wrote \/ record' # record]
  /\ UNCHANGED <<listed, exec, halted, stopping, scan, events, history>>

KillWorker ==
  /\ Happens
  /\ lost' = lost \cup scan.found \cup {r \in Record : exec["worker"][r] # "idle"}
  /\ exec' = [exec EXCEPT !["worker"] = [r \in Record |-> "idle"]]
  /\ scan' = NoScan
  /\ UNCHANGED <<record, listed, halted, stopping, resume, posts, analyses, doubled>>

(* The platform ends a request with these parameters, whoever made it;     *)
(* time passes.                                                            *)
PlatformAnswers ==
  /\ \E what \in {"ready", "refused"} \ listed : listed' = listed \cup {what}
  /\ UNCHANGED <<record, exec, halted, stopping, scan, resume, events, history>>

DeadlinePasses(r) ==
  /\ record[r].deadline = "set" /\ record[r].status \notin Closed
  /\ record' = [record EXCEPT ![r].deadline = "passed"]
  /\ UNCHANGED <<listed, exec, halted, stopping, scan, resume, events, history>>

Next ==
  \/ \E p \in Process, r \in Record : Execute(p, r)
  \/ ScanStep
  \/ \E r \in Record : \/ Create(r) \/ CheckStop(r) \/ Stop(r) \/ Delete(r)
                       \/ TicketHalts(r) \/ TicketResumes(r)
                       \/ FailInterrupted(r) \/ DeadlinePasses(r)
  \/ PlatformAnswers \/ RestartApi \/ KillWorker

Spec == Init /\ [][Next]_vars

(* The scan is scheduled every minute, the worker's threads go on (HTTP    *)
(* has time limits), deadlines pass.  Nothing is asked of the platform, of *)
(* the API process, or that a probe ever succeeds.                         *)
FairSpec ==
  /\ Spec
  /\ WF_vars(ScanStep)
  /\ \A r \in Record : WF_vars(Execute("worker", r)) /\ WF_vars(DeadlinePasses(r))

-----------------------------------------------------------------------------
TypeOK ==
  /\ record \in [Record -> [status : Active \cup Closed \cup {"absent"},
                            deadline : {"none", "set", "passed"}]]
  /\ listed \subseteq {"ready", "refused"}
  /\ exec \in [Process -> [Record -> {"idle", "queued", "new", "resumed", "posting", "posted",
                                      "failing", "download", "again", "fetching", "fetched",
                                      "parsing", "won", "ending"}]]
  /\ halted \subseteq Record /\ stopping \subseteq Record /\ doubled \subseteq Record /\ lost \subseteq Record
  /\ scan \in [at : {"none", "created", "expired", "polling"}, todo : SUBSET Record,
               held : SUBSET Record, found : SUBSET Record, fresh : BOOLEAN]
  /\ resume \in [todo : SUBSET Record, wrote : BOOLEAN]
  /\ events \in 0 .. MaxEvents
  /\ posts \in [Record -> Nat] /\ analyses \in [Record -> Nat]

(* A record that has ended stays ended, whoever still works on it, and     *)
(* none becomes a success afterwards (the guard in _update_status and its  *)
(* docstring: a stop is not covered by a late success).                    *)
EndedStaysEnded ==
  [][\A r \in Record : record[r].status \in Closed =>
       /\ record'[r].status \in Closed
       /\ record'[r].status = "success" => record[r].status = "success"]_vars

(* The analysis behind a pull is triggered once, although threads of both  *)
(* processes may download the same record (_process_download).             *)
OneAnalysis == \A r \in Record : analyses[r] <= 1

(* The platform gets the request of a record a second time only when both  *)
(* processes have had the record, or the scan has worked from a list that  *)
(* was out of date: neither a restart nor a later scan repeats it          *)
(* (_process_submit).                                                      *)
RequestedOnce == \A r \in Record : posts[r] > 1 => r \in doubled

(* Nothing looks for records that are downloading: whoever made a record   *)
(* so has a thread for it, unless a process died with it or the thread was *)
(* refused because the one before had not left the pool (queue_record); or *)
(* the scan is about to queue it.                                          *)
DownloadHasThread ==
  \A r \in With(Interrupted) :
    r \in lost \cup scan.found \/ \E p \in Process : exec[p][r] \notin {"idle", "ending"}

(* A new record is taken up, and one that waits for the platform goes on,  *)
(* fails or is cancelled, although a single probe that raises takes back   *)
(* the whole scan (scan_pending_records: what is late is failed, and       *)
(* committed, before anything is probed).  The one exception: the          *)
(* cancellation of a stopped record is not committed, and is taken back in *)
(* every scan while a record with no deadline is there to be probed.       *)
TakenBack(r) ==
  /\ r \in halted
  /\ \E s \in Record \ {r} : record[s] = [status |-> "submitting", deadline |-> "none"]
WaitEnds ==
  \A r \in Record : \A wait \in {"created", "polling"} :
    []<>(record[r].status # wait) \/ <>[]TakenBack(r)
=============================================================================
