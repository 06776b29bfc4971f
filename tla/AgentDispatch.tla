--------------------------- MODULE AgentDispatch ---------------------------
(***************************************************************************)
(* The queue in front of one desktop Agent                                 *)
(* (module_qtr/service/agent_dispatch_service.py).  Each invocation of     *)
(* send_ai_analysis_message is a coroutine, here a Call.  The coroutines   *)
(* share the Redis keys of the Agent: the waiting list, the hash of active *)
(* leases and the dispatch lock, plus the request, state and result keys   *)
(* of each request id.  Every await is a point where another coroutine     *)
(* runs, so a Redis command whose order against the others' matters is an  *)
(* action of its own.                                                      *)
(*                                                                         *)
(* Time is abstracted to the events it causes: a deadline passes           *)
(* (Elapse), a lease or the lock's TTL runs out (the Expire actions).      *)
(***************************************************************************)
EXTENDS Naturals, Sequences, FiniteSets

CONSTANTS
  Call,            \* invocations of send_ai_analysis_message
  NoCall,          \* "no invocation"
  Request,         \* request ids
  RequestOf,       \* the request id each invocation is made with
  MaxConcurrent,   \* ticket.ai.agent.maxConcurrentTasks
  RequeueLimit,    \* AGENT_AI_ANALYSIS_DISCONNECT_REQUEUE_LIMIT
  MaxCrashes,      \* bound: how often the process may be killed
  LockMayExpire,   \* can a holder stall past the 5 second lock TTL?
  MayEvict         \* can Redis lose a request key before its 24h TTL?

ASSUME DispatchAssumption ==
  /\ NoCall \notin Call
  /\ IsFiniteSet(Call)
  /\ RequestOf \in [Call -> Request]
  /\ MaxConcurrent \in Nat \ {0}
  /\ RequeueLimit \in Nat \ {0}
  /\ MaxCrashes \in Nat
  /\ LockMayExpire \in BOOLEAN
  /\ MayEvict \in BOOLEAN

VARIABLES
  pc,          \* where each invocation stands
  requeues,    \* disconnect_requeue_count of each invocation
  overdue,     \* the invocations whose deadline has passed
  seen,        \* the queue head an invocation found stale and will pop
  admitted,    \* the value _try_admit_request is about to return
  lock,        \* dispatch lock: the invocation whose token it holds
  queue,       \* waiting list of request ids
  active,      \* request ids with an active lease
  expired,     \* the active leases whose expiry time has passed
  state,       \* status field of the request's state key
  renewed,     \* requests whose queued lease is in force
  cached,      \* the invocation that last wrote the request key
  result,      \* what the request's result key holds
  online,      \* is the Agent in connected_agents?
  agentHas,    \* requests the Agent has received and not yet answered
  up,          \* is the server process running?
  crashes

callVars   == <<pc, requeues, overdue, seen, admitted>>
leaseVars  == <<active, expired>>
recordVars == <<state, renewed, cached, result>>
worldVars  == <<online, agentHas, up, crashes>>
vars == <<callVars, lock, queue, leaseVars, recordVars, worldVars>>

Status   == {"none", "queued", "running", "completed", "failed", "timeout",
             "cancelled"}
Terminal == {"completed", "failed", "timeout", "cancelled"}
Result   == {"none", "ok", "error"}

\* The steps between taking and giving up the dispatch lock.
Critical == {"clean", "inspect", "drop", "lease", "pop", "unlock"}
\* The invocation's request is being worked on by the Agent.
InFlight == {"send", "sent"}
\* The top of the while loop: "renewDue" when the queued lease must be renewed.
Waiting  == {"renewDue", "polling"}
\* The try block around the sending of an admitted request.
Sending  == InFlight \cup {"answered", "notConnected", "requeue", "backoff"}
Ended    == {"returned", "dead"}
PC == {"idle", "enqueue", "tryLock", "delLock", "completed"} \cup Waiting \cup Critical
        \cup Sending \cup Ended

RecordsTyped ==
  /\ pc \in [Call -> PC]
  /\ requeues \in [Call -> Nat]
  /\ overdue \subseteq Call
  /\ admitted \subseteq Call
  /\ lock \in Call \cup {NoCall}
  /\ active \subseteq {RequestOf[c] : c \in Call}
  /\ expired \subseteq active
  /\ state \in [Request -> Status]
  /\ renewed \subseteq Request
  /\ cached \in [Request -> Call \cup {NoCall}]
  /\ result \in [Request -> Result]
  /\ online \in BOOLEAN /\ up \in BOOLEAN
  /\ agentHas \subseteq Request
  /\ crashes \in 0 .. MaxCrashes

TypeOK ==
  /\ RecordsTyped
  /\ requeues \in [Call -> 0 .. RequeueLimit]
  /\ queue \in Seq(Request)
  /\ seen \in [Call -> Request \cup {NoCall}]

Init ==
  /\ pc = [c \in Call |-> "idle"]
  /\ requeues = [c \in Call |-> 0]
  /\ overdue = {}
  /\ seen = [c \in Call |-> NoCall]
  /\ admitted = {}
  /\ lock = NoCall
  /\ queue = <<>>
  /\ active = {} /\ expired = {}
  /\ state = [r \in Request |-> "none"]
  /\ renewed = {}
  /\ cached = [r \in Request |-> NoCall]
  /\ result = [r \in Request |-> "none"]
  /\ online = TRUE
  /\ agentHas = {}
  /\ up = TRUE
  /\ crashes = 0

----------------------------------------------------------------------------
(* Helpers, one per Redis idiom the service repeats.                       *)

Goto(c, place) == pc' = [pc EXCEPT ![c] = place]
\* The invocation returns its response.
Return(c) == Goto(c, "returned")
\* time.monotonic() >= deadline; the mutated form never compares.
NeverPast(c) == FALSE
PastDeadline(c) == c \in overdue
\* SET NX on the lock; the mutated form sets it in any case.
LockIgnored == TRUE
LockFree == lock = NoCall
\* The failed delivery just counted was the last one allowed; the mutated form
\* allows one more.
PastLimit(c) == requeues[c] > RequeueLimit
LastTry(c) == requeues[c] >= RequeueLimit
\* HLEN below the configured limit; the mutated form is off by one.
OneTooMany == Cardinality(active) <= MaxConcurrent
SlotFree == Cardinality(active) < MaxConcurrent
Mark(r, status) == state' = [state EXCEPT ![r] = status]
\* _mark_queued_state: status "queued" and a fresh 30 second queued lease.
MarkQueued(r) == Mark(r, "queued") /\ renewed' = renewed \cup {r}
\* _store_result; the mutated form keeps successful answers only.
StoreSuccess(r, answer) ==
  result' = IF answer = "ok" THEN [result EXCEPT ![r] = answer] ELSE result
StoreResult(r, answer) == result' = [result EXCEPT ![r] = answer]
\* HDEL on the active hash; the mutated form leaves the lease.
KeepSlot(r) == UNCHANGED leaseVars
FreeSlot(r) == active' = active \ {r} /\ expired' = expired \ {r}
\* LREM 0: every occurrence leaves the waiting list, the others keep their
\* order: the n-th of them is the entry with n of them up to its place.
Without(r) ==
  LET left == {i \in DOMAIN queue : queue[i] # r}
      Nth(n) == CHOOSE i \in left : Cardinality({j \in left : j <= i}) = n
  IN  [n \in 1 .. Cardinality(left) |-> queue[Nth(n)]]

\* _resolve_stale_queue_head_reason: why a queue head may be discarded.  The
\* mutated form trusts the queued lease for ever.
StaleByTimeoutOnly(r) ==
  \/ state[r] \in Terminal
  \/ r \in expired
  \/ r \notin active /\ cached[r] \in overdue
Stale(r) ==
  \/ cached[r] = NoCall
  \/ state[r] \in Terminal
  \/ r \in expired
  \/ /\ r \notin active
     /\ \/ state[r] = "queued" /\ r \notin renewed
        \/ cached[r] \in overdue
StaleHead == queue # <<>> /\ Stale(Head(queue))

----------------------------------------------------------------------------
(* Submission.                                                             *)

\* A result already cached, or an offline Agent, ends the call at once.
Refuse(c) ==
  /\ up /\ pc[c] = "idle"
  /\ result[RequestOf[c]] # "none" \/ ~online
  /\ Return(c)
  /\ UNCHANGED <<requeues, overdue, seen, admitted, lock, queue, leaseVars,
                 recordVars, worldVars>>

\* _cache_request: write the request key, then look for a state key; only a
\* request without one is put in the waiting list.
Submit(c) ==
  LET r == RequestOf[c] IN
  /\ up /\ pc[c] = "idle"
  /\ result[r] = "none" /\ online
  /\ cached' = [cached EXCEPT ![r] = c]
  /\ Goto(c, IF state[r] = "none" THEN "enqueue" ELSE "renewDue")
  /\ UNCHANGED <<requeues, overdue, seen, admitted, lock, queue, leaseVars,
                 state, renewed, result, worldVars>>

Enqueue(c) ==
  LET r == RequestOf[c] IN
  /\ pc[c] = "enqueue"
  /\ MarkQueued(r)
  /\ queue' = Append(queue, r)
  /\ Goto(c, "renewDue")
  /\ UNCHANGED <<requeues, overdue, seen, admitted, lock, leaseVars, cached,
                 result, worldVars>>

----------------------------------------------------------------------------
(* The top of the polling loop.                                            *)

\* The deadline passed while the request was waiting.
GiveUp(c) ==
  LET r == RequestOf[c] IN
  /\ pc[c] \in Waiting /\ PastDeadline(c)
  /\ queue' = Without(r)
  /\ FreeSlot(r)
  /\ Mark(r, "timeout")
  /\ Return(c)
  /\ UNCHANGED <<requeues, overdue, seen, admitted, lock, renewed, cached,
                 result, worldVars>>

\* Another invocation, or a late answer, has left a result: return it.  The
\* queue entry stays behind.
TakeCachedResult(c) ==
  /\ pc[c] \in Waiting /\ ~PastDeadline(c)
  /\ result[RequestOf[c]] # "none"
  /\ Return(c)
  /\ UNCHANGED <<requeues, overdue, seen, admitted, lock, queue, leaseVars,
                 recordVars, worldVars>>

\* The Agent went offline while the request was waiting.
GiveUpOffline(c) ==
  LET r == RequestOf[c] IN
  /\ pc[c] \in Waiting /\ ~PastDeadline(c) /\ result[r] = "none"
  /\ ~online
  /\ queue' = Without(r)
  /\ FreeSlot(r)
  /\ Mark(r, "failed")
  /\ Return(c)
  /\ UNCHANGED <<requeues, overdue, seen, admitted, lock, renewed, cached,
                 result, worldVars>>

\* No result yet and the Agent is online: renew the queued lease when it is
\* due (at every 10th second, so at an arbitrary iteration, and always on the
\* first).  Both may have changed by the time the lock is tried.
LookUp(c) ==
  LET r == RequestOf[c] IN
  /\ pc[c] \in Waiting /\ ~PastDeadline(c) /\ result[r] = "none" /\ online
  /\ \E renew \in {TRUE, pc[c] = "renewDue"} :
       IF renew THEN MarkQueued(r) ELSE UNCHANGED <<state, renewed>>
  /\ Goto(c, "tryLock")
  /\ UNCHANGED <<requeues, overdue, seen, admitted, lock, queue, leaseVars,
                 cached, result, worldVars>>

\* SET NX the lock.
TryLock(c) ==
  /\ pc[c] = "tryLock"
  /\ IF LockFree
     THEN lock' = c /\ Goto(c, "clean")
     ELSE lock' = lock /\ Goto(c, "polling")
  /\ UNCHANGED <<requeues, overdue, seen, admitted, queue, leaseVars, recordVars,
                 worldVars>>

----------------------------------------------------------------------------
(* _try_admit_request, under the dispatch lock.                            *)

\* _cleanup_expired_active_requests.
CleanExpired(c) ==
  /\ pc[c] = "clean"
  /\ active' = active \ expired /\ expired' = {}
  /\ Goto(c, "inspect")
  /\ UNCHANGED <<requeues, overdue, seen, admitted, lock, queue, recordVars,
                 worldVars>>

\* LINDEX 0 and the judgement on it; for a valid head that is ours, HLEN.
InspectHead(c) ==
  /\ pc[c] = "inspect"
  /\ \/ /\ StaleHead
        /\ seen' = [seen EXCEPT ![c] = Head(queue)]
        /\ Goto(c, "drop")
     \/ /\ ~StaleHead
        /\ Goto(c, IF /\ queue # <<>>
                      /\ Head(queue) = RequestOf[c]
                      /\ SlotFree
                   THEN "lease" ELSE "unlock")
        /\ UNCHANGED seen
  /\ UNCHANGED <<requeues, overdue, admitted, lock, queue, leaseVars,
                 recordVars, worldVars>>

\* LPOP takes whatever is first by now; HDEL takes the head that was judged.
DropHead(c) ==
  /\ pc[c] = "drop"
  /\ queue' = IF queue = <<>> THEN <<>> ELSE Tail(queue)
  /\ FreeSlot(seen[c])
  /\ seen' = [seen EXCEPT ![c] = NoCall]
  /\ Goto(c, "inspect")
  /\ UNCHANGED <<requeues, overdue, admitted, lock, recordVars, worldVars>>

TakeLease(c) ==
  /\ pc[c] = "lease"
  /\ active' = active \cup {RequestOf[c]}
  /\ expired' = expired \ {RequestOf[c]}
  /\ Goto(c, "pop")
  /\ UNCHANGED <<requeues, overdue, seen, admitted, lock, queue, recordVars,
                 worldVars>>

PopAndRun(c) ==
  /\ pc[c] = "pop"
  /\ queue' = IF queue = <<>> THEN <<>> ELSE Tail(queue)
  /\ Mark(RequestOf[c], "running")
  /\ admitted' = admitted \cup {c}
  /\ Goto(c, "unlock")
  /\ UNCHANGED <<requeues, overdue, seen, lock, leaseVars, renewed, cached,
                 result, worldVars>>

\* _release_lock compares the token and deletes the key in two commands.
CheckToken(c) ==
  /\ pc[c] = "unlock"
  /\ IF lock = c
     THEN Goto(c, "delLock") /\ UNCHANGED admitted
     ELSE /\ Goto(c, IF c \in admitted THEN "send" ELSE "polling")
          /\ admitted' = admitted \ {c}
  /\ UNCHANGED <<requeues, overdue, seen, lock, queue, leaseVars, recordVars,
                 worldVars>>

DeleteLock(c) ==
  /\ pc[c] = "delLock"
  /\ lock' = NoCall
  /\ Goto(c, IF c \in admitted THEN "send" ELSE "polling")
  /\ admitted' = admitted \ {c}
  /\ UNCHANGED <<requeues, overdue, seen, queue, leaseVars, recordVars,
                 worldVars>>

----------------------------------------------------------------------------
(* The admitted request.                                                   *)

\* Reload the message and hand it to the Agent; agent_service answers
\* WEBSOCKET_NOT_CONNECTED when the Agent is gone by now.
Send(c) ==
  LET r == RequestOf[c] IN
  /\ pc[c] = "send" /\ cached[r] # NoCall
  /\ IF online
     THEN /\ Goto(c, "sent")
          /\ agentHas' = agentHas \cup {r}
          /\ UNCHANGED requeues
     ELSE /\ Goto(c, "notConnected")
          /\ requeues' = [requeues EXCEPT ![c] = @ + 1]
          /\ UNCHANGED agentHas
  /\ UNCHANGED <<overdue, seen, admitted, lock, queue, leaseVars, recordVars,
                 online, up, crashes>>

\* The request key is gone: there is no message to send.
MissingMessage(c) ==
  /\ pc[c] = "send" /\ cached[RequestOf[c]] = NoCall
  /\ FreeSlot(RequestOf[c])
  /\ Mark(RequestOf[c], "failed")
  /\ Return(c)
  /\ UNCHANGED <<requeues, overdue, seen, admitted, lock, queue, renewed, cached,
                 result, worldVars>>

\* Any other exception while the request is being sent or accounted for.
Fail(c) ==
  LET r == RequestOf[c] IN
  /\ pc[c] \in Sending
  /\ FreeSlot(r)
  /\ queue' = Without(r)
  /\ Mark(r, "failed")
  /\ Return(c)
  /\ UNCHANGED <<requeues, overdue, seen, admitted, lock, renewed, cached,
                 result, worldVars>>

\* send_message returns: the Agent's answer, or an error response (the wait
\* timed out, the connection was lost, the payload could not be used).  Either
\* is stored as the result.
StoreAnswer(c) ==
  LET r == RequestOf[c] IN
  /\ pc[c] = "sent"
  /\ \/ r \in agentHas /\ agentHas' = agentHas \ {r} /\ StoreResult(r, "ok")
     \/ UNCHANGED agentHas /\ StoreResult(r, "error")
  /\ requeues' = [requeues EXCEPT ![c] = 0]
  /\ Goto(c, "answered")
  /\ UNCHANGED <<overdue, seen, admitted, lock, queue, leaseVars, state,
                 renewed, cached, online, up, crashes>>

MarkCompleted(c) ==
  /\ pc[c] = "answered"
  /\ Mark(RequestOf[c], "completed")
  /\ Goto(c, "completed")
  /\ UNCHANGED <<requeues, overdue, seen, admitted, lock, queue, leaseVars,
                 renewed, cached, result, worldVars>>

\* The finally clause of the sending phase.
Finish(c) ==
  /\ pc[c] = "completed"
  /\ FreeSlot(RequestOf[c])
  /\ Return(c)
  /\ UNCHANGED <<requeues, overdue, seen, admitted, lock, queue, recordVars,
                 worldVars>>

\* The coroutine itself is cancelled in the sending phase: CancelledError.
Cancel(c) ==
  LET r == RequestOf[c] IN
  /\ pc[c] \in Sending
  /\ queue' = Without(r)
  /\ FreeSlot(r)
  /\ Mark(r, "cancelled")
  /\ Return(c)
  /\ UNCHANGED <<requeues, overdue, seen, admitted, lock, renewed, cached,
                 result, worldVars>>

\* Too many failed deliveries in a row fail the request; otherwise its slot
\* is given back before it is put at the head of the waiting list again.
NotConnected(c) ==
  LET r == RequestOf[c] IN
  /\ pc[c] = "notConnected"
  /\ FreeSlot(r)
  /\ IF LastTry(c)
     THEN /\ queue' = Without(r)
          /\ Mark(r, "failed")
          /\ Return(c)
     ELSE /\ Goto(c, "requeue")
          /\ UNCHANGED <<queue, state>>
  /\ UNCHANGED <<requeues, overdue, seen, admitted, lock, renewed, cached,
                 result, worldVars>>

Requeue(c) ==
  LET r == RequestOf[c] IN
  /\ pc[c] = "requeue"
  /\ queue' = <<r>> \o queue
  /\ MarkQueued(r)
  /\ Goto(c, "backoff")
  /\ UNCHANGED <<requeues, overdue, seen, admitted, lock, leaseVars, cached,
                 result, worldVars>>

\* The continue after the back-off sleep runs the finally clause too.
Backoff(c) ==
  /\ pc[c] = "backoff"
  /\ FreeSlot(RequestOf[c])
  /\ Goto(c, "renewDue")
  /\ UNCHANGED <<requeues, overdue, seen, admitted, lock, queue, recordVars,
                 worldVars>>

CallStep(c) ==
  \/ Enqueue(c) \/ GiveUp(c) \/ TakeCachedResult(c) \/ GiveUpOffline(c)
  \/ LookUp(c) \/ TryLock(c) \/ CleanExpired(c) \/ InspectHead(c)
  \/ DropHead(c) \/ TakeLease(c) \/ PopAndRun(c) \/ CheckToken(c) \/ DeleteLock(c)
  \/ Send(c) \/ MissingMessage(c) \/ StoreAnswer(c) \/ MarkCompleted(c) \/ Finish(c)
  \/ NotConnected(c) \/ Requeue(c) \/ Backoff(c)

----------------------------------------------------------------------------
(* Time, the Agent, and the process around the coroutines.                 *)

Live(c) == pc[c] \notin {"idle"} \cup Ended

\* The time budget of an invocation runs out, whether or not it still lives.
Elapse(c) ==
  /\ pc[c] # "idle" /\ c \notin overdue
  /\ overdue' = overdue \cup {c}
  /\ UNCHANGED <<pc, requeues, seen, admitted, lock, queue, leaseVars,
                 recordVars, worldVars>>

\* A queued lease (30 s) is renewed every 10 s while someone waits on it.
ExpireQueued(r) ==
  /\ r \in renewed
  /\ \A c \in Call : RequestOf[c] = r => ~Live(c)
  /\ renewed' = renewed \ {r}
  /\ UNCHANGED <<callVars, lock, queue, leaseVars, state, cached, result,
                 worldVars>>

\* An active lease is longer (by 300 s) than the budget of the invocation that
\* took it, whose deadline has therefore passed by then.
ExpireActive(r) ==
  /\ r \in active \ expired
  /\ \A c \in Call : RequestOf[c] = r => ~Live(c)
  /\ expired' = expired \cup {r}
  /\ \E c \in Call : /\ RequestOf[c] = r /\ pc[c] # "idle"
                     /\ overdue' = overdue \cup {c}
  /\ UNCHANGED <<pc, requeues, seen, admitted, lock, queue, active, recordVars,
                 worldVars>>

ExpireLock ==
  /\ lock # NoCall
  /\ LockMayExpire \/ pc[lock] \notin Critical \cup {"delLock"}
  /\ lock' = NoCall
  /\ UNCHANGED <<callVars, queue, leaseVars, recordVars, worldVars>>

\* Redis evicts the request key.
EvictRequest(r) ==
  /\ MayEvict /\ cached[r] # NoCall
  /\ cached' = [cached EXCEPT ![r] = NoCall]
  /\ UNCHANGED <<callVars, lock, queue, leaseVars, state, renewed, result,
                 worldVars>>

\* The answer of an Agent nobody waits for is stored as the result.
LateAnswer(r) ==
  /\ up /\ online /\ r \in agentHas
  /\ \A c \in Call : RequestOf[c] = r => pc[c] # "sent"
  /\ agentHas' = agentHas \ {r}
  /\ result' = [result EXCEPT ![r] = "ok"]
  /\ UNCHANGED <<callVars, lock, queue, leaseVars, state, renewed, cached,
                 online, up, crashes>>

Connect ==
  /\ up /\ ~online /\ online' = TRUE
  /\ UNCHANGED <<callVars, lock, queue, leaseVars, recordVars, agentHas, up,
                 crashes>>

Disconnect ==
  /\ online /\ online' = FALSE
  /\ UNCHANGED <<callVars, lock, queue, leaseVars, recordVars, agentHas, up,
                 crashes>>

\* A coroutine dies of a cancellation or a Redis error outside the sending
\* phase: at most its lock is released (or deleted by the command the error
\* interrupts), its queue entry and lease stay.
Abort(c) ==
  /\ pc[c] \in Waiting \cup Critical \cup {"tryLock", "delLock"}
  /\ Goto(c, "dead")
  /\ lock' \in {lock, IF lock = c \/ pc[c] = "delLock" THEN NoCall ELSE lock}
  /\ admitted' = admitted \ {c}
  /\ UNCHANGED <<requeues, overdue, seen, queue, leaseVars, recordVars,
                 worldVars>>

\* The process is killed: its coroutines are gone, Redis is not.
Crash ==
  /\ up /\ crashes < MaxCrashes
  /\ up' = FALSE /\ online' = FALSE
  /\ crashes' = crashes + 1
  /\ pc' = [c \in Call |-> IF Live(c) THEN "dead" ELSE pc[c]]
  /\ admitted' = {}
  /\ UNCHANGED <<requeues, overdue, seen, lock, queue, leaseVars, recordVars,
                 agentHas>>

\* Startup runs cleanup_orphan_active_leases before serving; an exception in
\* it is logged and the process starts with the old leases.
Restart ==
  /\ ~up /\ up' = TRUE
  /\ \/ /\ active' = {} /\ expired' = {}
        /\ state' = [r \in Request |->
                       IF r \in active THEN "failed" ELSE state[r]]
     \/ UNCHANGED <<leaseVars, state>>
  /\ UNCHANGED <<callVars, lock, queue, renewed, cached, result, online,
                 agentHas, crashes>>

Environment ==
  \/ \E c \in Call : Elapse(c) \/ Abort(c) \/ Cancel(c) \/ Fail(c)
  \/ \E r \in Request : \/ ExpireQueued(r) \/ ExpireActive(r)
                        \/ EvictRequest(r) \/ LateAnswer(r)
  \/ ExpireLock \/ Connect \/ Disconnect \/ Crash \/ Restart

Next ==
  \/ \E c \in Call : Refuse(c) \/ Submit(c) \/ CallStep(c)
  \/ Environment

Spec == Init /\ [][Next]_vars

----------------------------------------------------------------------------
(* Safety.  Unless said otherwise: every invocation has a request id of its *)
(* own (the callers build a fresh one) and no holder outstays the lock TTL. *)

\* From the moment its lease is written until the finally clause frees it.
Holding == {"pop", "send", "sent", "answered", "notConnected"}
Owns(c) ==
  \/ pc[c] \in Holding
  \/ pc[c] \in {"unlock", "delLock"} /\ c \in admitted

\* The dispatch lock serialises admission: whoever is between taking and
\* giving up the lock holds it (_try_admit_request).
AdmissionIsSerial ==
  \A c \in Call : pc[c] \in Critical \cup {"delLock"} => lock = c

\* The Agent is never handed more requests at a time than configured
\* (send_ai_analysis_message: "queue and forward within the Agent's limit").
ConcurrencyLimit ==
  Cardinality({c \in Call : pc[c] \in InFlight}) <= MaxConcurrent

\* A request marked completed has a result to return to whoever asks again.
ResultBeforeCompleted ==
  \A r \in Request : state[r] = "completed" => result[r] # "none"

\* A slot is taken only on behalf of an invocation that is using it, or that
\* died and left its lease to the expiry: no return path forgets the slot.
NoSlotLeak ==
  \A r \in active : \E c \in Call :
    RequestOf[c] = r /\ (Owns(c) \/ pc[c] \in {"completed", "dead"})

\* Cleaning the queue head removes stale entries only: a coroutine that waits
\* and renews its lease stays in the waiting list (_cleanup_stale_queue_head).
LiveWaiterStaysQueued ==
  \A c \in Call :
    pc[c] \in Waiting /\ c \notin overdue /\ result[RequestOf[c]] = "none"
    => \E i \in DOMAIN queue : queue[i] = RequestOf[c]

----------------------------------------------------------------------------
(* The promise to the callers: a pool of slots (AgentSlots).               *)

PhaseOf(c) == CASE pc[c] = "idle" -> "new"
                [] pc[c] \in Ended \cup {"completed"} -> "ended"
                [] Owns(c) -> "working"
                [] OTHER -> "waiting"
Phase == [c \in Call |-> PhaseOf(c)]
Slots == INSTANCE AgentSlots WITH phase <- Phase

\* With leases, locks and queue out of sight, admission is a pool of slots:
\* a slot is taken only when one is free, whoever was put back waits again,
\* and nobody works after the end of its call (send_ai_analysis_message).
ImplementsSlots == Slots!Spec

----------------------------------------------------------------------------
(* Liveness.                                                               *)

\* The event loop keeps running every coroutine; TTLs run out.
Fairness ==
  /\ \A c \in Call : WF_vars(CallStep(c))
  /\ \A r \in Request : WF_vars(ExpireQueued(r)) /\ WF_vars(ExpireActive(r))
  /\ WF_vars(ExpireLock) /\ WF_vars(Restart)
FairSpec == Spec /\ Fairness

\* An invocation does not outlive its deadline for ever, whatever the queue,
\* the lock, the Agent and other invocations of the same request do.
EveryCallReturns == \A c \in Call : c \in overdue ~> pc[c] \in Ended

InLoop(c) == pc[c] \in Waiting \cup Critical \cup {"tryLock", "delLock"}
AbandonedHead(r) ==
  /\ queue # <<>> /\ Head(queue) = r
  /\ \A c \in Call : RequestOf[c] = r => pc[c] \in Ended

\* An entry whose coroutine is gone does not block those behind it: as long as
\* someone polls, it leaves the head, by the end of its queued or active lease
\* at the latest (_resolve_stale_queue_head_reason).  Only a request that is
\* running and has lost its lease waits for its deadline.
AbandonedHeadIsDropped ==
  \A c \in Call : \A r \in Request \ {RequestOf[c]} :
    AbandonedHead(r) /\ InLoop(c) /\ (state[r] = "running" => r \in active)
    ~> ~AbandonedHead(r) \/ ~InLoop(c)
=============================================================================
