------------------------ MODULE AgentDispatchProofs ------------------------
(***************************************************************************)
(* The slot limit of AgentDispatch for any number of invocations, slots,   *)
(* retries and restarts.  The limit is not inductive: it holds because     *)
(* admission is serial, because a running invocation keeps its lease, and  *)
(* because nobody who cleans the queue can judge that lease stale.         *)
(***************************************************************************)
EXTENDS AgentDispatch, FiniteSetTheorems, TLAPS

\* The callers build a fresh request id for every invocation.
FreshIds == \A c, d \in Call : RequestOf[c] = RequestOf[d] => c = d

\* A killed process leaves no coroutine behind.
NobodyLivesWhenDown == ~up => \A c \in Call : ~Live(c)

\* The request key of a live invocation is in Redis.
LiveIsCached ==
  \A c \in Call : Live(c) => cached[RequestOf[c]] # NoCall

\* What an invocation remembers of its admission: the answer it will return,
\* until the lock is released, and the head it will discard.
MemoryTyped ==
  /\ \A c \in admitted : pc[c] \in {"unlock", "delLock"}
  /\ seen = [c \in Call |-> seen[c]]

\* A running invocation has an unexpired lease and no terminal status, so
\* that its request is not stale wherever it stands in the queue.
OwnersKeepLease ==
  \A c \in Call :
    /\ Owns(c) => RequestOf[c] \in active \ expired
    /\ Owns(c) \/ pc[c] = "lease" => state[RequestOf[c]] \notin Terminal

\* The head about to be discarded does not belong to a running invocation.
DropSpares ==
  \A c, d \in Call : pc[c] = "drop" /\ Owns(d) => seen[c] # RequestOf[d]

\* There is room for the lease an invocation is about to write.
RoomForLease ==
  /\ IsFiniteSet(active)
  /\ Cardinality(active) <= MaxConcurrent
  /\ \A c \in Call : pc[c] = "lease" => Cardinality(active) < MaxConcurrent

\* The waiting list, and the heads found stale, are request ids.
QueueTyped ==
  /\ queue \in Seq(Request)
  /\ seen \in [Call -> Request \cup {NoCall}]

\* Before it is sent again, an invocation has failed fewer times than allowed.
RetriesLeft ==
  \A c \in Call :
    /\ requeues[c] <= RequeueLimit
    /\ pc[c] \notin {"notConnected"} \cup Ended => requeues[c] < RequeueLimit

USE DispatchAssumption

----------------------------------------------------------------------------
LEMMA TypingStep == RecordsTyped /\ [Next]_vars => RecordsTyped'
<1> SUFFICES ASSUME RecordsTyped, [Next]_vars PROVE RecordsTyped'
  OBVIOUS
<1> USE DEF RecordsTyped, PC, Waiting, Critical, Sending, InFlight, Ended,
            Status, Terminal, Result, Goto, Return, Mark, MarkQueued, FreeSlot,
            StoreResult, callVars, leaseVars, recordVars, worldVars
<1>1. CASE UNCHANGED vars
  BY <1>1 DEF vars
<1>2. ASSUME NEW c \in Call, Refuse(c) \/ Submit(c) \/ Enqueue(c) PROVE RecordsTyped'
  <2>1. CASE Refuse(c)
    BY <2>1 DEF Refuse
  <2>2. CASE Submit(c)
    BY <2>2 DEF Submit
  <2>3. CASE Enqueue(c)
    BY <2>3 DEF Enqueue
  <2>4. QED
    BY <1>2, <2>1, <2>2, <2>3
<1>3. ASSUME NEW c \in Call,
             \/ GiveUp(c) \/ TakeCachedResult(c) \/ GiveUpOffline(c)
             \/ LookUp(c) \/ TryLock(c)
      PROVE  RecordsTyped'
  BY <1>3 DEF GiveUp, TakeCachedResult, GiveUpOffline, LookUp, TryLock
<1>4. ASSUME NEW c \in Call,
             CleanExpired(c) \/ InspectHead(c) \/ DropHead(c) \/ TakeLease(c)
             \/ PopAndRun(c) \/ CheckToken(c) \/ DeleteLock(c)
      PROVE  RecordsTyped'
  BY <1>4 DEF CleanExpired, InspectHead, DropHead, TakeLease, PopAndRun,
              CheckToken, DeleteLock
<1>5. ASSUME NEW c \in Call,
             Send(c) \/ MissingMessage(c) \/ StoreAnswer(c) \/ MarkCompleted(c)
             \/ Finish(c) \/ NotConnected(c) \/ Requeue(c) \/ Backoff(c)
      PROVE  RecordsTyped'
  <2>1. CASE Send(c)
    BY <2>1 DEF Send
  <2>2. CASE StoreAnswer(c)
    BY <2>2 DEF StoreAnswer
  <2>3. CASE MissingMessage(c) \/ MarkCompleted(c) \/ Finish(c)
    BY <2>3 DEF MissingMessage, MarkCompleted, Finish
  <2>4. CASE Requeue(c)
    BY <2>4 DEF Requeue
  <2>5. CASE Backoff(c)
    BY <2>5 DEF Backoff
  <2>6. CASE NotConnected(c)
    <3>1. CASE LastTry(c)
      BY <2>6, <3>1 DEF NotConnected
    <3>2. CASE ~LastTry(c)
      BY <2>6, <3>2 DEF NotConnected
    <3>3. QED
      BY <3>1, <3>2
  <2>7. QED
    BY <1>5, <2>1, <2>2, <2>3, <2>4, <2>5, <2>6
<1>6. ASSUME NEW c \in Call, Elapse(c) \/ Abort(c) \/ Cancel(c) \/ Fail(c)
      PROVE  RecordsTyped'
  BY <1>6 DEF Elapse, Abort, Cancel, Fail
<1>7. ASSUME NEW r \in Request,
             ExpireQueued(r) \/ ExpireActive(r) \/ EvictRequest(r) \/ LateAnswer(r)
      PROVE  RecordsTyped'
  BY <1>7 DEF ExpireQueued, ExpireActive, EvictRequest, LateAnswer
<1>8. CASE ExpireLock \/ Connect \/ Disconnect \/ Crash \/ Restart
  <2>1. CASE ExpireLock \/ Connect \/ Disconnect
    BY <2>1 DEF ExpireLock, Connect, Disconnect
  <2>2. CASE Crash
    <3>1. pc' \in [Call -> PC]
      BY <2>2 DEF Crash
    <3>2. crashes' \in 0 .. MaxCrashes
      BY <2>2 DEF Crash
    <3>3. QED
      BY <2>2, <3>1, <3>2 DEF Crash
  <2>3. CASE Restart
    BY <2>3 DEF Restart
  <2>4. QED
    BY <1>8, <2>1, <2>2, <2>3
<1>9. QED
  BY <1>1, <1>2, <1>3, <1>4, <1>5, <1>6, <1>7, <1>8 DEF Next, CallStep, Environment

----------------------------------------------------------------------------
(* Removing a request id from the waiting list.                            *)

\* Two members of a finite set of numbers have as many members up to them only
\* if they are one.
LEMMA PlacesDiffer ==
  ASSUME NEW S \in SUBSET Nat, IsFiniteSet(S), NEW i \in S, NEW k \in S,
         Cardinality({j \in S : j <= i}) = Cardinality({j \in S : j <= k})
  PROVE  i = k
<1> DEFINE Below(m) == {j \in S : j <= m}
<1>1. ASSUME NEW m \in S PROVE IsFiniteSet(Below(m))
  BY FS_Subset
<1>2. CASE i < k
  <2>1. Below(i) \subseteq Below(k) /\ Below(i) # Below(k)
    <3>1. S \subseteq Nat /\ i \in Nat /\ k \in Nat
      OBVIOUS
    <3>2. \A j \in S : j <= i => j <= k
      BY <1>2, <3>1
    <3>3. k \in Below(k) /\ k \notin Below(i)
      BY <1>2, <3>1
    <3>4. QED
      BY <3>2, <3>3
  <2>2. QED
    BY <1>1, <2>1, FS_Subset
<1>3. CASE k < i
  <2>1. Below(k) \subseteq Below(i) /\ Below(i) # Below(k)
    <3>1. S \subseteq Nat /\ i \in Nat /\ k \in Nat
      OBVIOUS
    <3>2. \A j \in S : j <= k => j <= i
      BY <1>3, <3>1
    <3>3. i \in Below(i) /\ i \notin Below(k)
      BY <1>3, <3>1
    <3>4. QED
      BY <3>2, <3>3
  <2>2. QED
    BY <1>1, <2>1, FS_Subset
<1>4. QED
  BY <1>2, <1>3

\* The members of a finite set of numbers have the places 1 to its size.
LEMMA PlacesAreTaken ==
  ASSUME NEW S \in SUBSET Nat, IsFiniteSet(S), NEW n \in 1 .. Cardinality(S)
  PROVE  \E i \in S : Cardinality({j \in S : j <= i}) = n
<1> DEFINE Below(i) == {j \in S : j <= i}
           place == [i \in S |-> Cardinality(Below(i))]
<1>1. ASSUME NEW i \in S
      PROVE  /\ IsFiniteSet(Below(i))
             /\ Cardinality(Below(i)) \in 1 .. Cardinality(S)
  <2>1. IsFiniteSet(Below(i)) /\ Cardinality(Below(i)) <= Cardinality(S)
    BY <1>1, FS_Subset
  <2>2. Below(i) # {}
    BY <1>1
  <2>3. Cardinality(Below(i)) \in Nat /\ Cardinality(Below(i)) # 0
    BY <2>1, <2>2, FS_CardinalityType, FS_EmptySet
  <2>4. Cardinality(S) \in Nat
    BY FS_CardinalityType
  <2>5. QED
    BY <2>1, <2>3, <2>4
<1>2. place \in Injection(S, 1 .. Cardinality(S))
  <2>1. place \in [S -> 1 .. Cardinality(S)]
    BY <1>1
  <2>2. ASSUME NEW i \in S, NEW k \in S, place[i] = place[k] PROVE i = k
    BY <2>2, PlacesDiffer
  <2> HIDE DEF place
  <2>3. QED
    BY <2>1, <2>2 DEF Injection, IsInjective
<1>4. IsFiniteSet(1 .. Cardinality(S)) /\ Cardinality(1 .. Cardinality(S)) = Cardinality(S)
  <2>1. Cardinality(S) \in Nat
    BY FS_CardinalityType
  <2>2. QED
    BY <2>1, FS_Interval
<1>5. place \in Surjection(S, 1 .. Cardinality(S))
  <2> HIDE DEF place
  <2>1. QED
    BY <1>2, <1>4, FS_Injection
<1>6. PICK i \in S : place[i] = n
  <2> HIDE DEF place
  <2>1. QED
    BY <1>5 DEF Surjection
<1>7. QED
  BY <1>6

\* LREM leaves a list of request ids without the one removed, and every other
\* entry is still in it.
LEMMA WithoutKeepsOthers ==
  ASSUME queue \in Seq(Request), NEW r \in Request
  PROVE  /\ Without(r) \in Seq(Request)
         /\ \A n \in DOMAIN Without(r) : Without(r)[n] # r
         /\ \A i \in DOMAIN queue : queue[i] # r =>
              \E n \in DOMAIN Without(r) : Without(r)[n] = queue[i]
<1> DEFINE left == {i \in DOMAIN queue : queue[i] # r}
           Nth(n) == CHOOSE i \in left : Cardinality({j \in left : j <= i}) = n
<1>1. left \in SUBSET Nat /\ IsFiniteSet(left) /\ Cardinality(left) \in Nat
  <2>1. DOMAIN queue = 1 .. Len(queue) /\ Len(queue) \in Nat
    OBVIOUS
  <2>2. IsFiniteSet(DOMAIN queue)
    BY <2>1, FS_Interval
  <2>3. left \subseteq DOMAIN queue
    OBVIOUS
  <2>4. QED
    BY <2>1, <2>2, <2>3, FS_Subset, FS_CardinalityType
<1>2. Without(r) = [n \in 1 .. Cardinality(left) |-> queue[Nth(n)]]
  BY DEF Without
<1>3. ASSUME NEW n \in 1 .. Cardinality(left)
      PROVE  Nth(n) \in left /\ Cardinality({j \in left : j <= Nth(n)}) = n
  <2>1. \E i \in left : Cardinality({j \in left : j <= i}) = n
    <3> HIDE DEF left
    <3>1. QED
      BY <1>1, PlacesAreTaken
  <2>2. QED
    BY <2>1
<1>4. ASSUME NEW i \in left PROVE \E n \in 1 .. Cardinality(left) : Nth(n) = i
  <2> DEFINE n == Cardinality({j \in left : j <= i})
  <2>1. IsFiniteSet({j \in left : j <= i}) /\ n <= Cardinality(left)
    <3> HIDE DEF left
    <3>1. QED
      BY <1>1, FS_Subset
  <2>2. {j \in left : j <= i} # {}
    BY <1>1, <1>4
  <2>3. n \in 1 .. Cardinality(left)
    <3>1. n \in Nat /\ n # 0
      BY <2>1, <2>2, FS_CardinalityType, FS_EmptySet
    <3> HIDE DEF n, left
    <3>2. QED
      BY <1>1, <2>1, <3>1
  <2>4. Nth(n) \in left /\ Cardinality({j \in left : j <= Nth(n)}) = n
    BY <1>3, <2>3
  <2>5. Nth(n) = i
    BY <1>1, <1>4, <2>1, <2>4, PlacesDiffer
  <2>6. QED
    BY <2>3, <2>5
<1>5. QED
  <2>1. \A n \in 1 .. Cardinality(left) : queue[Nth(n)] \in Request /\ queue[Nth(n)] # r
    <3>1. \A n \in 1 .. Cardinality(left) : Nth(n) \in left
      BY <1>3
    <3> HIDE DEF Nth
    <3>2. QED
      BY <3>1
  <2>2. Without(r) \in Seq(Request)
    <3> HIDE DEF left, Nth
    <3>1. Without(r) \in [1 .. Cardinality(left) -> Request]
      BY <1>2, <2>1
    <3>2. QED
      BY <1>1, <3>1
  <2>3. \A n \in DOMAIN Without(r) : Without(r)[n] # r
    <3> HIDE DEF left, Nth
    <3>1. QED
      BY <1>2, <2>1
  <2>4. \A i \in DOMAIN queue : queue[i] # r =>
          \E n \in DOMAIN Without(r) : Without(r)[n] = queue[i]
    <3> SUFFICES ASSUME NEW i \in DOMAIN queue, queue[i] # r
                 PROVE  \E n \in DOMAIN Without(r) : Without(r)[n] = queue[i]
      OBVIOUS
    <3>1. i \in left
      OBVIOUS
    <3> HIDE DEF left, Nth
    <3>2. PICK n \in 1 .. Cardinality(left) : Nth(n) = i
      BY <1>4, <3>1
    <3>3. QED
      BY <1>2, <3>2
  <2>5. QED
    BY <2>2, <2>3, <2>4

LEMMA QueueTypingStep ==
  RecordsTyped /\ QueueTyped /\ [Next]_vars => QueueTyped'
<1> SUFFICES ASSUME RecordsTyped, QueueTyped, [Next]_vars PROVE QueueTyped'
  OBVIOUS
<1> USE DEF QueueTyped, callVars
<1>1. CASE UNCHANGED vars
  BY <1>1 DEF vars
<1>2. ASSUME NEW c \in Call, Enqueue(c) \/ Requeue(c) PROVE QueueTyped'
  <2>1. RequestOf[c] \in Request
    OBVIOUS
  <2>2. Append(queue, RequestOf[c]) \in Seq(Request)
        /\ <<RequestOf[c]>> \o queue \in Seq(Request)
    BY <2>1
  <2>3. QED
    BY <1>2, <2>2 DEF Enqueue, Requeue
<1>3. ASSUME NEW c \in Call, DropHead(c) \/ PopAndRun(c) PROVE QueueTyped'
  <2>1. queue # <<>> => Tail(queue) \in Seq(Request)
    OBVIOUS
  <2>2. <<>> \in Seq(Request)
    OBVIOUS
  <2>3. QED
    BY <1>3, <2>1, <2>2 DEF DropHead, PopAndRun
<1>4. ASSUME NEW c \in Call, InspectHead(c) PROVE QueueTyped'
  <2>1. queue # <<>> => Head(queue) \in Request
    OBVIOUS
  <2>2. QED
    BY <1>4, <2>1 DEF InspectHead, StaleHead
<1>5. ASSUME NEW c \in Call,
             GiveUp(c) \/ GiveUpOffline(c) \/ Fail(c) \/ Cancel(c) \/ NotConnected(c)
      PROVE  QueueTyped'
  <2>1. (queue' = Without(RequestOf[c]) \/ UNCHANGED queue) /\ UNCHANGED seen
    BY <1>5 DEF GiveUp, GiveUpOffline, Fail, Cancel, NotConnected
  <2>2. CASE UNCHANGED queue
    BY <2>1, <2>2
  <2>3. CASE queue' = Without(RequestOf[c])
    BY <2>1, <2>3, WithoutKeepsOthers
  <2>4. QED
    BY <2>1, <2>2, <2>3
<1>6. ASSUME NEW c \in Call,
             Refuse(c) \/ Submit(c) \/ TakeCachedResult(c) \/ LookUp(c) \/ TryLock(c)
             \/ CleanExpired(c) \/ TakeLease(c) \/ CheckToken(c) \/ DeleteLock(c)
             \/ Send(c) \/ MissingMessage(c) \/ StoreAnswer(c) \/ MarkCompleted(c)
             \/ Finish(c) \/ Backoff(c) \/ Elapse(c) \/ Abort(c)
      PROVE  QueueTyped'
  BY <1>6 DEF Refuse, Submit, TakeCachedResult, LookUp, TryLock, CleanExpired,
              TakeLease, CheckToken, DeleteLock, Send, MissingMessage,
              StoreAnswer, MarkCompleted, Finish, Backoff, Elapse, Abort
<1>7. ASSUME NEW r \in Request,
             ExpireQueued(r) \/ ExpireActive(r) \/ EvictRequest(r) \/ LateAnswer(r)
      PROVE  QueueTyped'
  BY <1>7 DEF ExpireQueued, ExpireActive, EvictRequest, LateAnswer
<1>8. CASE ExpireLock \/ Connect \/ Disconnect \/ Crash \/ Restart
  BY <1>8 DEF ExpireLock, Connect, Disconnect, Crash, Restart
<1>9. QED
  BY <1>1, <1>2, <1>3, <1>4, <1>5, <1>6, <1>7, <1>8 DEF Next, CallStep, Environment

\* A delivery that fails is counted, and the request of the last one allowed is
\* not sent again.
LEMMA RetriesStep ==
  RecordsTyped /\ RetriesLeft /\ [Next]_vars => RetriesLeft'
<1> SUFFICES ASSUME RecordsTyped, RetriesLeft, [Next]_vars, NEW d \in Call
             PROVE  /\ requeues'[d] <= RequeueLimit
                    /\ pc'[d] \notin {"notConnected"} \cup Ended =>
                         requeues'[d] < RequeueLimit
  BY DEF RetriesLeft
<1> USE DEF RecordsTyped, Goto, Return, callVars
<1> DEFINE Left == /\ requeues'[d] <= RequeueLimit
                   /\ pc'[d] \notin {"notConnected"} \cup Ended =>
                        requeues'[d] < RequeueLimit
<1> SUFFICES Left
  OBVIOUS
<1>1. /\ requeues[d] \in Nat /\ requeues[d] <= RequeueLimit
      /\ pc[d] \notin {"notConnected"} \cup Ended => requeues[d] < RequeueLimit
  BY DEF RetriesLeft
<1>2. UNCHANGED <<pc, requeues>> => Left
  BY <1>1
<1> HIDE DEF Left
<1>3. ASSUME NEW c \in Call, NEW p, pc' = [pc EXCEPT ![c] = p],
             UNCHANGED requeues,
             \/ pc[c] \notin {"notConnected"} \cup Ended
             \/ p \in Ended
             \/ requeues[c] < RequeueLimit
      PROVE  Left
  <2>1. CASE d = c
    BY <1>1, <1>3, <2>1 DEF Left
  <2>2. CASE d # c
    <3>1. pc'[d] = pc[d]
      BY <1>3, <2>2
    <3>2. QED
      BY <1>1, <1>3, <3>1 DEF Left
  <2>3. QED
    BY <2>1, <2>2
<1>4. ASSUME NEW c \in Call, Send(c) PROVE Left
  <2>1. CASE online
    <3>1. pc' = [pc EXCEPT ![c] = "sent"] /\ UNCHANGED requeues /\ pc[c] = "send"
      BY <1>4, <2>1 DEF Send
    <3>2. QED
      BY <1>3, <3>1 DEF Ended
  <2>2. CASE ~online
    <3>1. /\ pc[c] = "send" /\ pc' = [pc EXCEPT ![c] = "notConnected"]
          /\ requeues' = [requeues EXCEPT ![c] = @ + 1]
      BY <1>4, <2>2 DEF Send
    <3>2. CASE d = c
      BY <1>1, <3>1, <3>2 DEF Left, Ended
    <3>3. CASE d # c
      BY <1>1, <3>1, <3>3 DEF Left
    <3>4. QED
      BY <3>2, <3>3
  <2>3. QED
    BY <2>1, <2>2
<1>5. ASSUME NEW c \in Call, StoreAnswer(c) PROVE Left
  <2>1. requeues' = [requeues EXCEPT ![c] = 0] /\ pc' = [pc EXCEPT ![c] = "answered"]
    BY <1>5 DEF StoreAnswer
  <2>2. CASE d = c
    BY <2>1, <2>2 DEF Left
  <2>3. CASE d # c
    BY <1>1, <2>1, <2>3 DEF Left
  <2>4. QED
    BY <2>2, <2>3
<1>6. ASSUME NEW c \in Call, NotConnected(c) PROVE Left
  <2>1. CASE LastTry(c)
    <3>1. pc' = [pc EXCEPT ![c] = "returned"] /\ UNCHANGED requeues
      BY <1>6, <2>1 DEF NotConnected
    <3>2. QED
      BY <1>3, <3>1 DEF Ended
  <2>2. CASE ~LastTry(c)
    <3>1. pc' = [pc EXCEPT ![c] = "requeue"] /\ UNCHANGED requeues
      BY <1>6, <2>2 DEF NotConnected
    <3>2. requeues[c] < RequeueLimit
      BY <2>2 DEF LastTry
    <3>3. QED
      BY <1>3, <3>1, <3>2
  <2>3. QED
    BY <2>1, <2>2
<1>7. ASSUME NEW c \in Call,
             Refuse(c) \/ Submit(c) \/ Enqueue(c) \/ GiveUp(c) \/ TakeCachedResult(c)
             \/ GiveUpOffline(c) \/ LookUp(c) \/ TryLock(c) \/ CleanExpired(c) \/ InspectHead(c)
             \/ DropHead(c) \/ TakeLease(c) \/ PopAndRun(c) \/ CheckToken(c)
             \/ DeleteLock(c) \/ MissingMessage(c) \/ MarkCompleted(c) \/ Finish(c)
             \/ Requeue(c) \/ Backoff(c)
      PROVE  Left
  <2>1. /\ \E p : pc' = [pc EXCEPT ![c] = p]
        /\ UNCHANGED requeues
        /\ pc[c] \notin {"notConnected"} \cup Ended
    BY <1>7 DEF Refuse, Submit, Enqueue, GiveUp, TakeCachedResult, GiveUpOffline,
                LookUp, TryLock, CleanExpired, InspectHead, DropHead, TakeLease,
                PopAndRun, CheckToken, DeleteLock, MissingMessage,
                MarkCompleted, Finish, Requeue, Backoff, Waiting, Ended
  <2>2. QED
    BY <1>3, <2>1
<1>8. ASSUME NEW c \in Call, Abort(c) \/ Cancel(c) \/ Fail(c) PROVE Left
  <2>1. UNCHANGED requeues /\ \E p \in Ended : pc' = [pc EXCEPT ![c] = p]
    BY <1>8 DEF Abort, Cancel, Fail, Ended
  <2>2. QED
    BY <1>3, <2>1
<1>9. ASSUME NEW c \in Call, Elapse(c) PROVE Left
  BY <1>2, <1>9 DEF Elapse
<1>10. ASSUME NEW r \in Request,
              ExpireQueued(r) \/ ExpireActive(r) \/ EvictRequest(r) \/ LateAnswer(r)
       PROVE  Left
  BY <1>2, <1>10 DEF ExpireQueued, ExpireActive, EvictRequest, LateAnswer
<1>11. CASE ExpireLock \/ Connect \/ Disconnect \/ Restart
  BY <1>2, <1>11 DEF ExpireLock, Connect, Disconnect, Restart
<1>12. CASE Crash
  <2>1. UNCHANGED requeues /\ (pc'[d] = pc[d] \/ pc'[d] \in Ended)
    BY <1>12 DEF Crash, Ended
  <2>2. QED
    BY <1>1, <2>1 DEF Left
<1>13. CASE UNCHANGED vars
  BY <1>2, <1>13 DEF vars
<1>14. QED
  BY <1>4, <1>5, <1>6, <1>7, <1>8, <1>9, <1>10, <1>11, <1>12, <1>13
     DEF Next, CallStep, Environment

\* Whatever the invocations, the Agent and Redis do, the waiting list holds
\* request ids only, every head judged stale is one, and no request is sent
\* again after the last failed delivery allowed.
THEOREM TypesHold == Spec => []TypeOK
<1>1. Init => RecordsTyped /\ QueueTyped /\ RetriesLeft
  <2> SUFFICES ASSUME Init PROVE RecordsTyped /\ QueueTyped /\ RetriesLeft
    OBVIOUS
  <2>1. RecordsTyped
    BY DEF Init, RecordsTyped, PC, Status, Result
  <2>2. QueueTyped
    BY DEF Init, QueueTyped
  <2>3. RetriesLeft
    BY DEF Init, RetriesLeft
  <2>4. QED
    BY <2>1, <2>2, <2>3
<1>2. RecordsTyped /\ QueueTyped /\ RetriesLeft => TypeOK
  <2> SUFFICES ASSUME RecordsTyped, QueueTyped, RetriesLeft PROVE TypeOK
    OBVIOUS
  <2>1. \A c \in Call : requeues[c] \in 0 .. RequeueLimit
    BY DEF RecordsTyped, RetriesLeft
  <2>2. requeues \in [Call -> 0 .. RequeueLimit]
    BY <2>1 DEF RecordsTyped
  <2>3. QED
    BY <2>2 DEF TypeOK, QueueTyped
<1>3. QED
  BY <1>1, <1>2, TypingStep, QueueTypingStep, RetriesStep, PTL DEF Spec

----------------------------------------------------------------------------
(* The lock is held by the one invocation inside the admission code.       *)

LEMMA SerialStep ==
  ASSUME ~LockMayExpire, RecordsTyped, AdmissionIsSerial, [Next]_vars
  PROVE  AdmissionIsSerial'
<1> USE DEF RecordsTyped, AdmissionIsSerial, Critical, Waiting, Ended, Sending,
            InFlight, Goto, Return
<1>1. CASE UNCHANGED vars
  BY <1>1 DEF vars, callVars
<1>2. ASSUME NEW c \in Call, Refuse(c) \/ Submit(c) \/ Enqueue(c)
      PROVE  AdmissionIsSerial'
  BY <1>2 DEF Refuse, Submit, Enqueue
<1>3. ASSUME NEW c \in Call,
             \/ GiveUp(c) \/ TakeCachedResult(c) \/ GiveUpOffline(c)
             \/ LookUp(c) \/ TryLock(c)
      PROVE  AdmissionIsSerial'
  BY <1>3 DEF GiveUp, TakeCachedResult, GiveUpOffline, LookUp, TryLock, LockFree
<1>4. ASSUME NEW c \in Call,
             CleanExpired(c) \/ InspectHead(c) \/ DropHead(c) \/ TakeLease(c)
             \/ PopAndRun(c) \/ CheckToken(c) \/ DeleteLock(c)
      PROVE  AdmissionIsSerial'
  BY <1>4 DEF CleanExpired, InspectHead, DropHead, TakeLease, PopAndRun,
              CheckToken, DeleteLock
<1>5. ASSUME NEW c \in Call,
             Send(c) \/ MissingMessage(c) \/ StoreAnswer(c) \/ MarkCompleted(c)
             \/ Finish(c) \/ NotConnected(c) \/ Requeue(c) \/ Backoff(c)
      PROVE  AdmissionIsSerial'
  BY <1>5 DEF Send, MissingMessage, StoreAnswer, MarkCompleted, Finish,
              NotConnected, Requeue, Backoff
<1>6. ASSUME NEW c \in Call, Elapse(c) \/ Abort(c) \/ Cancel(c) \/ Fail(c)
      PROVE  AdmissionIsSerial'
  BY <1>6 DEF Elapse, Abort, Cancel, Fail
<1>7. ASSUME NEW r \in Request,
             ExpireQueued(r) \/ ExpireActive(r) \/ EvictRequest(r) \/ LateAnswer(r)
      PROVE  AdmissionIsSerial'
  BY <1>7 DEF ExpireQueued, ExpireActive, EvictRequest, LateAnswer, callVars
<1>8. CASE ExpireLock \/ Connect \/ Disconnect \/ Crash \/ Restart
  BY <1>8 DEF ExpireLock, Connect, Disconnect, Crash, Restart, Live, callVars
<1>9. QED
  BY <1>1, <1>2, <1>3, <1>4, <1>5, <1>6, <1>7, <1>8 DEF Next, CallStep, Environment

----------------------------------------------------------------------------
DispatchInv ==
  /\ RecordsTyped
  /\ AdmissionIsSerial
  /\ NobodyLivesWhenDown
  /\ LiveIsCached
  /\ MemoryTyped
  /\ OwnersKeepLease
  /\ DropSpares
  /\ RoomForLease

\* No coroutine runs without its process.
LEMMA DownStep ==
  ASSUME FreshIds, ~LockMayExpire, ~MayEvict, DispatchInv, [Next]_vars
  PROVE  NobodyLivesWhenDown'
<1> USE DEF DispatchInv, NobodyLivesWhenDown, Live, RecordsTyped, Critical, Waiting, Ended, Sending, InFlight,
            Goto, Return, leaseVars, recordVars, worldVars
<1>1. CASE UNCHANGED vars
  BY <1>1 DEF vars, callVars, leaseVars, recordVars, worldVars
<1>2. ASSUME NEW c \in Call,
             Refuse(c) \/ Submit(c) \/ Enqueue(c)
      PROVE  NobodyLivesWhenDown'
  BY <1>2 DEF Refuse, Submit, Enqueue
<1>3. ASSUME NEW c \in Call,
             \/ GiveUp(c) \/ TakeCachedResult(c) \/ GiveUpOffline(c)
             \/ LookUp(c) \/ TryLock(c)
      PROVE  NobodyLivesWhenDown'
  BY <1>3 DEF GiveUp, TakeCachedResult, GiveUpOffline, LookUp, TryLock
<1>4. ASSUME NEW c \in Call,
             CleanExpired(c) \/ InspectHead(c) \/ DropHead(c) \/ TakeLease(c)
             \/ PopAndRun(c) \/ CheckToken(c) \/ DeleteLock(c)
      PROVE  NobodyLivesWhenDown'
  BY <1>4 DEF CleanExpired, InspectHead, DropHead, TakeLease, PopAndRun,
              CheckToken, DeleteLock
<1>5. ASSUME NEW c \in Call,
             Send(c) \/ MissingMessage(c) \/ StoreAnswer(c) \/ MarkCompleted(c)
             \/ Finish(c) \/ NotConnected(c) \/ Requeue(c) \/ Backoff(c)
      PROVE  NobodyLivesWhenDown'
  BY <1>5 DEF Send, MissingMessage, StoreAnswer, MarkCompleted, Finish,
              NotConnected, Requeue, Backoff
<1>6. ASSUME NEW c \in Call,
             Elapse(c) \/ Abort(c) \/ Cancel(c) \/ Fail(c)
      PROVE  NobodyLivesWhenDown'
  BY <1>6 DEF Elapse, Abort, Cancel, Fail
<1>7. ASSUME NEW r \in Request,
             ExpireQueued(r) \/ ExpireActive(r) \/ EvictRequest(r) \/ LateAnswer(r)
      PROVE  NobodyLivesWhenDown'
  BY <1>7 DEF ExpireQueued, ExpireActive, EvictRequest, LateAnswer, callVars,
              leaseVars, recordVars, worldVars
<1>8. CASE ExpireLock \/ Connect \/ Disconnect \/ Crash \/ Restart
  BY <1>8 DEF ExpireLock, Connect, Disconnect, Crash, Restart, Live, callVars,
              leaseVars, recordVars, worldVars
<1>9. QED
  BY <1>1, <1>2, <1>3, <1>4, <1>5, <1>6, <1>7, <1>8 DEF Next, CallStep, Environment

\* A request key outlives the invocation that wrote it.
LEMMA CachedStep ==
  ASSUME FreshIds, ~LockMayExpire, ~MayEvict, DispatchInv, [Next]_vars
  PROVE  LiveIsCached'
<1> USE DEF DispatchInv, LiveIsCached, Live, RecordsTyped, Critical, Waiting, Ended, Sending, InFlight,
            Goto, Return, leaseVars, recordVars, worldVars
<1>1. CASE UNCHANGED vars
  BY <1>1 DEF vars, callVars, leaseVars, recordVars, worldVars
<1>2. ASSUME NEW c \in Call,
             Refuse(c) \/ Submit(c) \/ Enqueue(c)
      PROVE  LiveIsCached'
  BY <1>2 DEF Refuse, Submit, Enqueue
<1>3. ASSUME NEW c \in Call,
             \/ GiveUp(c) \/ TakeCachedResult(c) \/ GiveUpOffline(c)
             \/ LookUp(c) \/ TryLock(c)
      PROVE  LiveIsCached'
  BY <1>3 DEF GiveUp, TakeCachedResult, GiveUpOffline, LookUp, TryLock
<1>4. ASSUME NEW c \in Call,
             CleanExpired(c) \/ InspectHead(c) \/ DropHead(c) \/ TakeLease(c)
             \/ PopAndRun(c) \/ CheckToken(c) \/ DeleteLock(c)
      PROVE  LiveIsCached'
  BY <1>4 DEF CleanExpired, InspectHead, DropHead, TakeLease, PopAndRun,
              CheckToken, DeleteLock
<1>5. ASSUME NEW c \in Call,
             Send(c) \/ MissingMessage(c) \/ StoreAnswer(c) \/ MarkCompleted(c)
             \/ Finish(c) \/ NotConnected(c) \/ Requeue(c) \/ Backoff(c)
      PROVE  LiveIsCached'
  BY <1>5 DEF Send, MissingMessage, StoreAnswer, MarkCompleted, Finish,
              NotConnected, Requeue, Backoff
<1>6. ASSUME NEW c \in Call,
             Elapse(c) \/ Abort(c) \/ Cancel(c) \/ Fail(c)
      PROVE  LiveIsCached'
  BY <1>6 DEF Elapse, Abort, Cancel, Fail
<1>7. ASSUME NEW r \in Request,
             ExpireQueued(r) \/ ExpireActive(r) \/ EvictRequest(r) \/ LateAnswer(r)
      PROVE  LiveIsCached'
  BY <1>7 DEF ExpireQueued, ExpireActive, EvictRequest, LateAnswer, callVars,
              leaseVars, recordVars, worldVars
<1>8. CASE ExpireLock \/ Connect \/ Disconnect \/ Crash \/ Restart
  BY <1>8 DEF ExpireLock, Connect, Disconnect, Crash, Restart, Live, callVars,
              leaseVars, recordVars, worldVars
<1>9. QED
  BY <1>1, <1>2, <1>3, <1>4, <1>5, <1>6, <1>7, <1>8 DEF Next, CallStep, Environment

\* The answer is forgotten with the lock.
LEMMA MemoryStep ==
  ASSUME FreshIds, ~LockMayExpire, ~MayEvict, DispatchInv, [Next]_vars
  PROVE  MemoryTyped'
<1> USE DEF DispatchInv, MemoryTyped, Live, RecordsTyped, Critical, Waiting, Ended, Sending, InFlight,
            Goto, Return, leaseVars, recordVars, worldVars
<1>1. CASE UNCHANGED vars
  BY <1>1 DEF vars, callVars, leaseVars, recordVars, worldVars
<1>2. ASSUME NEW c \in Call,
             Refuse(c) \/ Submit(c) \/ Enqueue(c)
      PROVE  MemoryTyped'
  BY <1>2 DEF Refuse, Submit, Enqueue
<1>3. ASSUME NEW c \in Call,
             \/ GiveUp(c) \/ TakeCachedResult(c) \/ GiveUpOffline(c)
             \/ LookUp(c) \/ TryLock(c)
      PROVE  MemoryTyped'
  BY <1>3 DEF GiveUp, TakeCachedResult, GiveUpOffline, LookUp, TryLock
<1>4. ASSUME NEW c \in Call,
             CleanExpired(c) \/ InspectHead(c) \/ DropHead(c) \/ TakeLease(c)
             \/ PopAndRun(c) \/ CheckToken(c) \/ DeleteLock(c)
      PROVE  MemoryTyped'
  BY <1>4 DEF CleanExpired, InspectHead, DropHead, TakeLease, PopAndRun,
              CheckToken, DeleteLock
<1>5. ASSUME NEW c \in Call,
             Send(c) \/ MissingMessage(c) \/ StoreAnswer(c) \/ MarkCompleted(c)
             \/ Finish(c) \/ NotConnected(c) \/ Requeue(c) \/ Backoff(c)
      PROVE  MemoryTyped'
  BY <1>5 DEF Send, MissingMessage, StoreAnswer, MarkCompleted, Finish,
              NotConnected, Requeue, Backoff
<1>6. ASSUME NEW c \in Call,
             Elapse(c) \/ Abort(c) \/ Cancel(c) \/ Fail(c)
      PROVE  MemoryTyped'
  BY <1>6 DEF Elapse, Abort, Cancel, Fail
<1>7. ASSUME NEW r \in Request,
             ExpireQueued(r) \/ ExpireActive(r) \/ EvictRequest(r) \/ LateAnswer(r)
      PROVE  MemoryTyped'
  BY <1>7 DEF ExpireQueued, ExpireActive, EvictRequest, LateAnswer, callVars,
              leaseVars, recordVars, worldVars
<1>8. CASE ExpireLock \/ Connect \/ Disconnect \/ Crash \/ Restart
  BY <1>8 DEF ExpireLock, Connect, Disconnect, Crash, Restart, Live, callVars,
              leaseVars, recordVars, worldVars
<1>9. QED
  BY <1>1, <1>2, <1>3, <1>4, <1>5, <1>6, <1>7, <1>8 DEF Next, CallStep, Environment

\* Only its own invocation, the expiry or a clean-up takes a lease away.
LEMMA OwnersStep ==
  ASSUME FreshIds, ~LockMayExpire, ~MayEvict, DispatchInv, [Next]_vars
  PROVE  OwnersKeepLease'
<1> USE DEF DispatchInv, OwnersKeepLease, AdmissionIsSerial, DropSpares, NobodyLivesWhenDown,
            MemoryTyped, RecordsTyped, Critical, Waiting, Ended, Sending, InFlight,
            Goto, Return, leaseVars, recordVars, worldVars,
            Holding, Owns, Mark, MarkQueued, FreeSlot, Live, FreshIds
<1>1. CASE UNCHANGED vars
  BY <1>1 DEF vars, callVars, leaseVars, recordVars, worldVars
<1>2. ASSUME NEW c \in Call,
             Refuse(c) \/ Submit(c) \/ Enqueue(c)
      PROVE  OwnersKeepLease'
  <2>1. CASE Refuse(c)
    BY <2>1 DEF Refuse
  <2>2. CASE Submit(c)
    BY <2>2 DEF Submit
  <2>3. CASE Enqueue(c)
    BY <2>3 DEF Enqueue
  <2>4. QED
    BY <1>2, <2>1, <2>2, <2>3
<1>3. ASSUME NEW c \in Call,
             \/ GiveUp(c) \/ TakeCachedResult(c) \/ GiveUpOffline(c)
             \/ LookUp(c) \/ TryLock(c)
      PROVE  OwnersKeepLease'
  <2>1. CASE GiveUp(c)
    BY <2>1 DEF GiveUp
  <2>2. CASE TakeCachedResult(c)
    BY <2>2 DEF TakeCachedResult
  <2>3. CASE GiveUpOffline(c)
    BY <2>3 DEF GiveUpOffline
  <2>4. CASE LookUp(c)
    BY <2>4 DEF LookUp
  <2>5. CASE TryLock(c)
    BY <2>5 DEF TryLock
  <2>6. QED
    BY <1>3, <2>1, <2>2, <2>3, <2>4, <2>5
<1>4. ASSUME NEW c \in Call,
             CleanExpired(c) \/ InspectHead(c) \/ DropHead(c) \/ TakeLease(c)
             \/ PopAndRun(c) \/ CheckToken(c) \/ DeleteLock(c)
      PROVE  OwnersKeepLease'
  <2>1. CASE CleanExpired(c)
    BY <2>1 DEF CleanExpired
  <2>2. CASE InspectHead(c)
    <3>1. /\ pc' = [pc EXCEPT ![c] = pc'[c]]
          /\ pc'[c] \in {"drop", "lease", "unlock"}
          /\ pc[c] = "inspect"
          /\ UNCHANGED <<admitted, active, expired, state>>
      BY <2>2 DEF InspectHead
    <3>2. ASSUME pc'[c] = "lease" PROVE state[RequestOf[c]] \notin Terminal
      <4>1. ~StaleHead /\ queue # <<>> /\ Head(queue) = RequestOf[c]
        BY <2>2, <3>2 DEF InspectHead
      <4>2. QED
        BY <4>1 DEF StaleHead, Stale
    <3>3. c \notin admitted
      BY <3>1
    <3>4. QED
      BY <3>1, <3>2
  <2>3. CASE DropHead(c)
    BY <2>3 DEF DropHead
  <2>4. CASE TakeLease(c)
    BY <2>4 DEF TakeLease
  <2>5. CASE PopAndRun(c)
    BY <2>5 DEF PopAndRun, Terminal
  <2>6. CASE CheckToken(c)
    BY <2>6 DEF CheckToken
  <2>7. CASE DeleteLock(c)
    BY <2>7 DEF DeleteLock
  <2>8. QED
    BY <1>4, <2>1, <2>2, <2>3, <2>4, <2>5, <2>6, <2>7
<1>5. ASSUME NEW c \in Call,
             Send(c) \/ MissingMessage(c) \/ StoreAnswer(c) \/ MarkCompleted(c)
             \/ Finish(c) \/ NotConnected(c) \/ Requeue(c) \/ Backoff(c)
      PROVE  OwnersKeepLease'
  <2>1. CASE Send(c)
    BY <2>1 DEF Send
  <2>2. CASE MissingMessage(c)
    BY <2>2 DEF MissingMessage
  <2>3. CASE StoreAnswer(c)
    BY <2>3 DEF StoreAnswer
  <2>4. CASE MarkCompleted(c)
    BY <2>4 DEF MarkCompleted
  <2>5. CASE Finish(c)
    BY <2>5 DEF Finish
  <2>6. CASE NotConnected(c)
    BY <2>6 DEF NotConnected
  <2>7. CASE Requeue(c)
    BY <2>7 DEF Requeue
  <2>8. CASE Backoff(c)
    BY <2>8 DEF Backoff
  <2>9. QED
    BY <1>5, <2>1, <2>2, <2>3, <2>4, <2>5, <2>6, <2>7, <2>8
<1>6. ASSUME NEW c \in Call,
             Elapse(c) \/ Abort(c) \/ Cancel(c) \/ Fail(c)
      PROVE  OwnersKeepLease'
  <2>1. CASE Elapse(c)
    BY <2>1 DEF Elapse
  <2>2. CASE Abort(c)
    BY <2>2 DEF Abort
  <2>3. CASE Cancel(c)
    BY <2>3 DEF Cancel
  <2>4. CASE Fail(c)
    BY <2>4 DEF Fail
  <2>5. QED
    BY <1>6, <2>1, <2>2, <2>3, <2>4
<1>7. ASSUME NEW r \in Request,
             ExpireQueued(r) \/ ExpireActive(r) \/ EvictRequest(r) \/ LateAnswer(r)
      PROVE  OwnersKeepLease'
  BY <1>7 DEF ExpireQueued, ExpireActive, EvictRequest, LateAnswer, callVars,
              leaseVars, recordVars, worldVars
<1>8. CASE ExpireLock \/ Connect \/ Disconnect \/ Crash \/ Restart
  BY <1>8 DEF ExpireLock, Connect, Disconnect, Crash, Restart, Live, callVars,
              leaseVars, recordVars, worldVars
<1>9. QED
  BY <1>1, <1>2, <1>3, <1>4, <1>5, <1>6, <1>7, <1>8 DEF Next, CallStep, Environment

\* The lock keeps everyone from being admitted between judging and popping.
LEMMA DropStep ==
  ASSUME FreshIds, ~LockMayExpire, ~MayEvict, DispatchInv, [Next]_vars
  PROVE  DropSpares'
<1> USE DEF DispatchInv, OwnersKeepLease, AdmissionIsSerial, DropSpares, LiveIsCached,
            MemoryTyped, RecordsTyped, Critical, Waiting, Ended, Sending, InFlight,
            Goto, Return, leaseVars, recordVars, worldVars,
            Holding, Owns, Mark, MarkQueued, FreeSlot, Live, FreshIds
<1>1. CASE UNCHANGED vars
  BY <1>1 DEF vars, callVars, leaseVars, recordVars, worldVars
<1>2. ASSUME NEW c \in Call,
             Refuse(c) \/ Submit(c) \/ Enqueue(c)
      PROVE  DropSpares'
  <2>1. CASE Refuse(c)
    BY <2>1 DEF Refuse
  <2>2. CASE Submit(c)
    BY <2>2 DEF Submit
  <2>3. CASE Enqueue(c)
    BY <2>3 DEF Enqueue
  <2>4. QED
    BY <1>2, <2>1, <2>2, <2>3
<1>3. ASSUME NEW c \in Call,
             \/ GiveUp(c) \/ TakeCachedResult(c) \/ GiveUpOffline(c)
             \/ LookUp(c) \/ TryLock(c)
      PROVE  DropSpares'
  <2>1. CASE GiveUp(c)
    BY <2>1 DEF GiveUp
  <2>2. CASE TakeCachedResult(c)
    BY <2>2 DEF TakeCachedResult
  <2>3. CASE GiveUpOffline(c)
    BY <2>3 DEF GiveUpOffline
  <2>4. CASE LookUp(c)
    BY <2>4 DEF LookUp
  <2>5. CASE TryLock(c)
    BY <2>5 DEF TryLock
  <2>6. QED
    BY <1>3, <2>1, <2>2, <2>3, <2>4, <2>5
<1>4. ASSUME NEW c \in Call,
             CleanExpired(c) \/ InspectHead(c) \/ DropHead(c) \/ TakeLease(c)
             \/ PopAndRun(c) \/ CheckToken(c) \/ DeleteLock(c)
      PROVE  DropSpares'
  <2>1. CASE CleanExpired(c)
    BY <2>1 DEF CleanExpired
  <2>2. CASE InspectHead(c)
    <3>1. /\ pc' = [pc EXCEPT ![c] = pc'[c]]
          /\ pc'[c] \in {"drop", "lease", "unlock"}
          /\ pc[c] = "inspect"
          /\ UNCHANGED admitted
      BY <2>2 DEF InspectHead
    <3>2. ASSUME pc'[c] = "drop"
          PROVE  seen' = [seen EXCEPT ![c] = Head(queue)] /\ Stale(Head(queue))
      BY <2>2, <3>2 DEF InspectHead, StaleHead
    <3>3. ASSUME NEW d \in Call, Owns(d) PROVE ~Stale(RequestOf[d])
      BY <3>3 DEF Stale
    <3>4. QED
      BY <3>1, <3>2, <3>3
  <2>3. CASE DropHead(c)
    BY <2>3 DEF DropHead
  <2>4. CASE TakeLease(c)
    BY <2>4 DEF TakeLease
  <2>5. CASE PopAndRun(c)
    BY <2>5 DEF PopAndRun
  <2>6. CASE CheckToken(c)
    BY <2>6 DEF CheckToken
  <2>7. CASE DeleteLock(c)
    BY <2>7 DEF DeleteLock
  <2>8. QED
    BY <1>4, <2>1, <2>2, <2>3, <2>4, <2>5, <2>6, <2>7
<1>5. ASSUME NEW c \in Call,
             Send(c) \/ MissingMessage(c) \/ StoreAnswer(c) \/ MarkCompleted(c)
             \/ Finish(c) \/ NotConnected(c) \/ Requeue(c) \/ Backoff(c)
      PROVE  DropSpares'
  <2>1. CASE Send(c)
    BY <2>1 DEF Send
  <2>2. CASE MissingMessage(c)
    BY <2>2 DEF MissingMessage
  <2>3. CASE StoreAnswer(c)
    BY <2>3 DEF StoreAnswer
  <2>4. CASE MarkCompleted(c)
    BY <2>4 DEF MarkCompleted
  <2>5. CASE Finish(c)
    BY <2>5 DEF Finish
  <2>6. CASE NotConnected(c)
    BY <2>6 DEF NotConnected
  <2>7. CASE Requeue(c)
    BY <2>7 DEF Requeue
  <2>8. CASE Backoff(c)
    BY <2>8 DEF Backoff
  <2>9. QED
    BY <1>5, <2>1, <2>2, <2>3, <2>4, <2>5, <2>6, <2>7, <2>8
<1>6. ASSUME NEW c \in Call,
             Elapse(c) \/ Abort(c) \/ Cancel(c) \/ Fail(c)
      PROVE  DropSpares'
  <2>1. CASE Elapse(c)
    BY <2>1 DEF Elapse
  <2>2. CASE Abort(c)
    BY <2>2 DEF Abort
  <2>3. CASE Cancel(c)
    BY <2>3 DEF Cancel
  <2>4. CASE Fail(c)
    BY <2>4 DEF Fail
  <2>5. QED
    BY <1>6, <2>1, <2>2, <2>3, <2>4
<1>7. ASSUME NEW r \in Request,
             ExpireQueued(r) \/ ExpireActive(r) \/ EvictRequest(r) \/ LateAnswer(r)
      PROVE  DropSpares'
  BY <1>7 DEF ExpireQueued, ExpireActive, EvictRequest, LateAnswer, callVars,
              leaseVars, recordVars, worldVars
<1>8. CASE ExpireLock \/ Connect \/ Disconnect \/ Crash \/ Restart
  BY <1>8 DEF ExpireLock, Connect, Disconnect, Crash, Restart, Live, callVars,
              leaseVars, recordVars, worldVars
<1>9. QED
  BY <1>1, <1>2, <1>3, <1>4, <1>5, <1>6, <1>7, <1>8 DEF Next, CallStep, Environment

\* The number of leases never exceeds the limit.
LEMMA RoomStep ==
  ASSUME FreshIds, ~LockMayExpire, ~MayEvict, DispatchInv, [Next]_vars
  PROVE  RoomForLease'
<1> USE DEF DispatchInv, RecordsTyped, RoomForLease, Critical, Waiting, Ended,
            Sending, InFlight, Goto, Return, Mark, MarkQueued, FreeSlot,
            callVars, leaseVars, recordVars, worldVars
<1> DEFINE Shrinks ==
             /\ active' \subseteq active
             /\ \A d \in Call : pc'[d] = "lease" => pc[d] = "lease" \/ SlotFree
<1>a. Cardinality(active) \in Nat
  BY FS_CardinalityType
<1>b. ASSUME Shrinks PROVE RoomForLease'
  <2>1. IsFiniteSet(active') /\ Cardinality(active') <= Cardinality(active)
    BY <1>b, FS_Subset
  <2>2. Cardinality(active') \in Nat
    BY <2>1, FS_CardinalityType
  <2>3. QED
    BY <1>a, <1>b, <2>1, <2>2 DEF SlotFree
<1>1. CASE UNCHANGED vars
  BY <1>1, <1>b DEF vars
<1>2. ASSUME NEW c \in Call,
             Refuse(c) \/ Submit(c) \/ Enqueue(c)
      PROVE  RoomForLease'
  BY <1>b, <1>2 DEF Refuse, Submit, Enqueue
<1>3. ASSUME NEW c \in Call,
             \/ GiveUp(c) \/ TakeCachedResult(c) \/ GiveUpOffline(c)
             \/ LookUp(c) \/ TryLock(c)
      PROVE  RoomForLease'
  BY <1>b, <1>3 DEF GiveUp, TakeCachedResult, GiveUpOffline, LookUp, TryLock
<1>4. ASSUME NEW c \in Call,
             CleanExpired(c) \/ InspectHead(c) \/ DropHead(c) \/ TakeLease(c)
             \/ PopAndRun(c) \/ CheckToken(c) \/ DeleteLock(c)
      PROVE  RoomForLease'
  <2>1. CASE TakeLease(c)
    <3>1. active' = active \cup {RequestOf[c]} /\ pc' = [pc EXCEPT ![c] = "pop"]
      BY <2>1 DEF TakeLease
    <3>2. Cardinality(active) < MaxConcurrent
      BY <2>1 DEF TakeLease
    <3>3. /\ IsFiniteSet(active \cup {RequestOf[c]})
          /\ Cardinality(active \cup {RequestOf[c]}) =
               IF RequestOf[c] \in active THEN Cardinality(active)
                                         ELSE Cardinality(active) + 1
      BY FS_AddElement
    <3>4. IsFiniteSet(active') /\ Cardinality(active') <= MaxConcurrent
      BY <1>a, <3>1, <3>2, <3>3
    <3>5. \A d \in Call : pc'[d] # "lease"
      BY <2>1, <3>1 DEF TakeLease, AdmissionIsSerial
    <3>6. QED
      BY <3>4, <3>5
  <2>2. CASE InspectHead(c)
    BY <1>b, <2>2 DEF InspectHead
  <2>3. CASE CleanExpired(c) \/ DropHead(c) \/ PopAndRun(c) \/ CheckToken(c) \/ DeleteLock(c)
    BY <1>b, <2>3 DEF CleanExpired, DropHead, PopAndRun, CheckToken, DeleteLock
  <2>4. QED
    BY <1>4, <2>1, <2>2, <2>3
<1>5. ASSUME NEW c \in Call,
             Send(c) \/ MissingMessage(c) \/ StoreAnswer(c) \/ MarkCompleted(c)
             \/ Finish(c) \/ NotConnected(c) \/ Requeue(c) \/ Backoff(c)
      PROVE  RoomForLease'
  BY <1>b, <1>5 DEF Send, MissingMessage, StoreAnswer, MarkCompleted, Finish,
              NotConnected, Requeue, Backoff
<1>6. ASSUME NEW c \in Call,
             Elapse(c) \/ Abort(c) \/ Cancel(c) \/ Fail(c)
      PROVE  RoomForLease'
  BY <1>b, <1>6 DEF Elapse, Abort, Cancel, Fail
<1>7. ASSUME NEW r \in Request,
             ExpireQueued(r) \/ ExpireActive(r) \/ EvictRequest(r) \/ LateAnswer(r)
      PROVE  RoomForLease'
  BY <1>b, <1>7 DEF ExpireQueued, ExpireActive, EvictRequest, LateAnswer
<1>8. CASE ExpireLock \/ Connect \/ Disconnect \/ Crash \/ Restart
  BY <1>b, <1>8 DEF ExpireLock, Connect, Disconnect, Crash, Restart, Live
<1>9. QED
  BY <1>1, <1>2, <1>3, <1>4, <1>5, <1>6, <1>7, <1>8 DEF Next, CallStep, Environment

----------------------------------------------------------------------------
\* Requests with the Agent are at most as many as the leases they hold.
LEMMA LimitFromInv == ASSUME FreshIds, DispatchInv PROVE ConcurrencyLimit
<1> DEFINE flying == {c \in Call : pc[c] \in InFlight}
           f == [c \in flying |-> RequestOf[c]]
<1>1. f \in Injection(flying, active)
  BY DEF FreshIds, DispatchInv, RecordsTyped, OwnersKeepLease, Owns, Holding,
         InFlight, Injection, IsInjective
<1>2. IsFiniteSet(active) /\ Cardinality(active) <= MaxConcurrent
  BY DEF DispatchInv, RoomForLease
<1>3. IsFiniteSet(flying) /\ Cardinality(flying) <= Cardinality(active)
  BY <1>1, <1>2, FS_Injection
<1>4. Cardinality(flying) \in Nat /\ Cardinality(active) \in Nat
  BY <1>2, <1>3, FS_CardinalityType
<1>5. QED
  BY <1>2, <1>3, <1>4 DEF ConcurrencyLimit

LEMMA InvInductive ==
  ASSUME FreshIds, ~LockMayExpire, ~MayEvict
  PROVE  Spec => []DispatchInv
<1>1. Init => DispatchInv
  <2> SUFFICES ASSUME Init PROVE DispatchInv
    OBVIOUS
  <2>1. RecordsTyped
    BY DEF Init, RecordsTyped, PC, Status, Result
  <2>2. AdmissionIsSerial /\ NobodyLivesWhenDown /\ LiveIsCached /\ DropSpares
    BY DEF Init, AdmissionIsSerial, NobodyLivesWhenDown, LiveIsCached, DropSpares,
           Critical, Live
  <2>3. MemoryTyped /\ OwnersKeepLease
    BY DEF Init, MemoryTyped, OwnersKeepLease, Owns, Holding
  <2>4. RoomForLease
    BY FS_EmptySet DEF Init, RoomForLease
  <2>5. QED
    BY <2>1, <2>2, <2>3, <2>4 DEF DispatchInv
<1>2. DispatchInv /\ [Next]_vars => DispatchInv'
  <2> SUFFICES ASSUME DispatchInv, [Next]_vars PROVE DispatchInv'
    OBVIOUS
  <2>1. RecordsTyped'
    BY TypingStep DEF DispatchInv
  <2>2. AdmissionIsSerial'
    BY SerialStep DEF DispatchInv
  <2>3. QED
    BY <2>1, <2>2, DownStep, CachedStep, MemoryStep, OwnersStep, DropStep,
       RoomStep DEF DispatchInv
<1>3. QED
  BY <1>1, <1>2, PTL DEF Spec

\* No request beyond the configured limit is ever with the Agent, provided
\* that every invocation has its own request id, no holder outstays the lock
\* TTL and Redis keeps the request keys (send_ai_analysis_message).
THEOREM SlotsAreRespected ==
  ASSUME FreshIds, ~LockMayExpire, ~MayEvict
  PROVE  Spec => []ConcurrencyLimit
<1>1. DispatchInv => ConcurrencyLimit
  BY LimitFromInv
<1>2. QED
  BY <1>1, InvInductive, PTL

\* Admission is serial as long as no holder outstays the lock TTL, whatever
\* the request ids are (_acquire_lock, _release_lock).
THEOREM AdmissionSerialised ==
  ASSUME ~LockMayExpire PROVE Spec => []AdmissionIsSerial
<1> DEFINE Both == RecordsTyped /\ AdmissionIsSerial
<1>1. Init => Both
  BY DEF Init, RecordsTyped, PC, Status, Result, AdmissionIsSerial, Critical
<1>2. Both /\ [Next]_vars => Both'
  BY TypingStep, SerialStep
<1>3. QED
  BY <1>1, <1>2, PTL DEF Spec

\* An invocation that stops owning its lease has freed it, or died with it.
LEMMA LeakStep ==
  ASSUME RecordsTyped, NoSlotLeak, [Next]_vars
  PROVE  NoSlotLeak'
<1> USE DEF NoSlotLeak, Holding, Owns, Mark, MarkQueued, FreeSlot, RecordsTyped, Critical, Waiting, Ended, Sending, InFlight,
            Goto, Return, leaseVars, recordVars, worldVars
<1> DEFINE Uses(d) == Owns(d) \/ pc[d] \in {"completed", "dead"}
<1>a. ASSUME active' \subseteq active,
             \A d \in Call : Uses(d) => Uses(d)' \/ RequestOf[d] \notin active'
      PROVE  NoSlotLeak'
  BY <1>a
<1>1. CASE UNCHANGED vars
  BY <1>1 DEF vars, callVars, leaseVars, recordVars, worldVars
<1>2. ASSUME NEW c \in Call,
             Refuse(c) \/ Submit(c) \/ Enqueue(c)
      PROVE  NoSlotLeak'
  BY <1>a, <1>2 DEF Refuse, Submit, Enqueue
<1>3. ASSUME NEW c \in Call,
             \/ GiveUp(c) \/ TakeCachedResult(c) \/ GiveUpOffline(c)
             \/ LookUp(c) \/ TryLock(c)
      PROVE  NoSlotLeak'
  BY <1>a, <1>3 DEF GiveUp, TakeCachedResult, GiveUpOffline, LookUp, TryLock
<1>4. ASSUME NEW c \in Call,
             CleanExpired(c) \/ InspectHead(c) \/ DropHead(c) \/ TakeLease(c)
             \/ PopAndRun(c) \/ CheckToken(c) \/ DeleteLock(c)
      PROVE  NoSlotLeak'
  <2>1. CASE CleanExpired(c)
    BY <2>1 DEF CleanExpired
  <2>2. CASE InspectHead(c)
    BY <1>a, <2>2 DEF InspectHead
  <2>3. CASE DropHead(c)
    BY <1>a, <2>3 DEF DropHead
  <2>4. CASE TakeLease(c)
    BY <2>4 DEF TakeLease
  <2>5. CASE PopAndRun(c)
    BY <1>a, <2>5 DEF PopAndRun
  <2>6. CASE CheckToken(c)
    BY <1>a, <2>6 DEF CheckToken
  <2>7. CASE DeleteLock(c)
    BY <1>a, <2>7 DEF DeleteLock
  <2>8. QED
    BY <1>4, <2>1, <2>2, <2>3, <2>4, <2>5, <2>6, <2>7
<1>5. ASSUME NEW c \in Call,
             Send(c) \/ MissingMessage(c) \/ StoreAnswer(c) \/ MarkCompleted(c)
             \/ Finish(c) \/ NotConnected(c) \/ Requeue(c) \/ Backoff(c)
      PROVE  NoSlotLeak'
  BY <1>a, <1>5 DEF Send, MissingMessage, StoreAnswer, MarkCompleted, Finish,
              NotConnected, Requeue, Backoff
<1>6. ASSUME NEW c \in Call,
             Elapse(c) \/ Abort(c) \/ Cancel(c) \/ Fail(c)
      PROVE  NoSlotLeak'
  BY <1>a, <1>6 DEF Elapse, Abort, Cancel, Fail
<1>7. ASSUME NEW r \in Request,
             ExpireQueued(r) \/ ExpireActive(r) \/ EvictRequest(r) \/ LateAnswer(r)
      PROVE  NoSlotLeak'
  BY <1>a, <1>7 DEF ExpireQueued, ExpireActive, EvictRequest, LateAnswer, callVars,
              leaseVars, recordVars, worldVars
<1>8. CASE ExpireLock \/ Connect \/ Disconnect \/ Crash \/ Restart
  BY <1>a, <1>8 DEF ExpireLock, Connect, Disconnect, Crash, Restart, Live, callVars,
              leaseVars, recordVars, worldVars
<1>9. QED
  BY <1>1, <1>2, <1>3, <1>4, <1>5, <1>6, <1>7, <1>8 DEF Next, CallStep, Environment

\* No return path forgets a slot: every lease belongs to an invocation that is
\* using it or died with it, whatever the ids, the lock and the crashes.
THEOREM SlotsDoNotLeak == Spec => []NoSlotLeak
<1> DEFINE Both == RecordsTyped /\ NoSlotLeak
<1>1. Init => Both
  BY DEF Init, RecordsTyped, PC, Status, Result, NoSlotLeak
<1>2. Both /\ [Next]_vars => Both'
  BY TypingStep, LeakStep
<1>3. QED
  BY <1>1, <1>2, PTL DEF Spec

----------------------------------------------------------------------------
\* Between storing the answer and marking the request completed.
AnsweredHasResult ==
  \A c \in Call : pc[c] = "answered" => result[RequestOf[c]] # "none"

LEMMA ResultStep ==
  ASSUME RecordsTyped, AnsweredHasResult, ResultBeforeCompleted, [Next]_vars
  PROVE  (AnsweredHasResult /\ ResultBeforeCompleted)'
<1> DEFINE Goal == (AnsweredHasResult /\ ResultBeforeCompleted)'
           Kept(r) == result'[r] = result[r] \/ result'[r] # "none"
<1> USE DEF RecordsTyped, Goto, Return, Mark, MarkQueued, leaseVars, recordVars,
            worldVars, Waiting, Sending, InFlight
<1>a. ASSUME \A r \in Request : Kept(r),
             \A c \in Call : pc'[c] = "answered" =>
               pc[c] = "answered" \/ result'[RequestOf[c]] # "none",
             \A r \in Request : state'[r] = "completed" =>
               state[r] = "completed" \/ result[r] # "none"
      PROVE  Goal
  BY <1>a DEF AnsweredHasResult, ResultBeforeCompleted
<1>1. CASE UNCHANGED vars
  BY <1>a, <1>1 DEF vars, callVars
<1>2. ASSUME NEW c \in Call, Refuse(c) \/ Submit(c) \/ Enqueue(c)
      PROVE  Goal
  BY <1>a, <1>2 DEF Refuse, Submit, Enqueue
<1>3. ASSUME NEW c \in Call,
             \/ GiveUp(c) \/ TakeCachedResult(c) \/ GiveUpOffline(c)
             \/ LookUp(c) \/ TryLock(c)
      PROVE  Goal
  BY <1>a, <1>3 DEF GiveUp, TakeCachedResult, GiveUpOffline, LookUp, TryLock
<1>4. ASSUME NEW c \in Call,
             CleanExpired(c) \/ InspectHead(c) \/ DropHead(c) \/ TakeLease(c)
             \/ PopAndRun(c) \/ CheckToken(c) \/ DeleteLock(c)
      PROVE  Goal
  BY <1>a, <1>4 DEF CleanExpired, InspectHead, DropHead, TakeLease, PopAndRun,
                    CheckToken, DeleteLock
<1>5. ASSUME NEW c \in Call, StoreAnswer(c) PROVE Goal
  BY <1>a, <1>5 DEF StoreAnswer, StoreResult
<1>6. ASSUME NEW c \in Call, MarkCompleted(c) PROVE Goal
  BY <1>a, <1>6 DEF MarkCompleted, AnsweredHasResult
<1>7. ASSUME NEW c \in Call,
             Send(c) \/ MissingMessage(c) \/ Finish(c) \/ NotConnected(c)
             \/ Requeue(c) \/ Backoff(c)
      PROVE  Goal
  BY <1>a, <1>7 DEF Send, MissingMessage, Finish, NotConnected, Requeue, Backoff
<1>8. ASSUME NEW c \in Call,
             Elapse(c) \/ Abort(c) \/ Cancel(c) \/ Fail(c)
      PROVE  Goal
  BY <1>a, <1>8 DEF Elapse, Abort, Cancel, Fail, Critical
<1>9. ASSUME NEW r \in Request,
             ExpireQueued(r) \/ ExpireActive(r) \/ EvictRequest(r) \/ LateAnswer(r)
      PROVE  Goal
  BY <1>a, <1>9 DEF ExpireQueued, ExpireActive, EvictRequest, LateAnswer, callVars
<1>10. CASE ExpireLock \/ Connect \/ Disconnect \/ Crash \/ Restart
  BY <1>a, <1>10 DEF ExpireLock, Connect, Disconnect, Crash, Restart, Live, callVars
<1>11. QED
  BY <1>1, <1>2, <1>3, <1>4, <1>5, <1>6, <1>7, <1>8, <1>9, <1>10
  DEF Next, CallStep, Environment

\* A completed request has its result, whatever ids are submitted again and
\* whatever the lock, Redis and the process do (_store_result, _mark_state).
THEOREM CompletedHasResult == Spec => []ResultBeforeCompleted
<1> DEFINE Both == RecordsTyped /\ AnsweredHasResult /\ ResultBeforeCompleted
<1>1. Init => Both
  BY DEF Init, RecordsTyped, PC, Status, Result, AnsweredHasResult,
         ResultBeforeCompleted
<1>2. Both /\ [Next]_vars => Both'
  BY TypingStep, ResultStep
<1>3. QED
  BY <1>1, <1>2, PTL DEF Spec

----------------------------------------------------------------------------
(* The queue implements the pool of slots.                                 *)

\* A step that moves one invocation moves one caller of the pool.
LEMMA OneCallMoves ==
  ASSUME NEW c \in Call, RecordsTyped,
         pc' = [pc EXCEPT ![c] = pc'[c]], admitted' \ {c} = admitted \ {c}
  PROVE  Phase' = [Phase EXCEPT ![c] = PhaseOf(c)']
<1>1. ASSUME NEW d \in Call, d # c PROVE PhaseOf(d)' = PhaseOf(d)
  <2>1. pc'[d] = pc[d] /\ (d \in admitted' <=> d \in admitted)
    BY <1>1 DEF RecordsTyped
  <2>2. Owns(d)' <=> Owns(d)
    BY <2>1 DEF Owns
  <2>3. QED
    BY <2>1, <2>2 DEF PhaseOf
<1>2. QED
  BY <1>1 DEF Phase

\* The moves of the pool that need no free slot.
LEMMA MoveOfThePool ==
  ASSUME NEW c \in Call, RecordsTyped,
         pc' = [pc EXCEPT ![c] = pc'[c]], admitted' \ {c} = admitted \ {c},
         \/ PhaseOf(c)' = PhaseOf(c)
         \/ PhaseOf(c)' = "ended"
         \/ PhaseOf(c) \in {"new", "working"} /\ PhaseOf(c)' = "waiting"
  PROVE  [Slots!Next]_Phase
<1>1. Phase' = [Phase EXCEPT ![c] = PhaseOf(c)'] /\ Phase[c] = PhaseOf(c)
  BY OneCallMoves DEF Phase
<1>2. PhaseOf(c) \in {"new", "waiting", "working", "ended"}
  BY DEF PhaseOf
<1>3. CASE PhaseOf(c)' = PhaseOf(c)
  BY <1>1, <1>3 DEF Phase
<1>4. CASE PhaseOf(c)' = "ended" /\ PhaseOf(c) # "ended"
  BY <1>1, <1>2, <1>4 DEF Slots!Next, Slots!End, Slots!Move
<1>5. CASE PhaseOf(c) = "new" /\ PhaseOf(c)' = "waiting"
  BY <1>1, <1>5 DEF Slots!Next, Slots!Enter, Slots!Move
<1>6. CASE PhaseOf(c) = "working" /\ PhaseOf(c)' = "waiting"
  BY <1>1, <1>6 DEF Slots!Next, Slots!PutBack, Slots!Move
<1>7. QED
  BY <1>3, <1>4, <1>5, <1>6

\* Whoever works has a lease of its own, and there is room for one more.
LEMMA LeaseMeansSlot ==
  ASSUME FreshIds, DispatchInv, NEW c \in Call, TakeLease(c)
  PROVE  Slots!Admit(c)
<1> DEFINE owners == {d \in Call : Owns(d)}
           f == [d \in owners |-> RequestOf[d]]
<1>1. f \in Injection(owners, active)
  BY DEF FreshIds, DispatchInv, OwnersKeepLease, Injection, IsInjective
<1>2. IsFiniteSet(active) /\ Cardinality(active) < MaxConcurrent
  BY DEF DispatchInv, RoomForLease, TakeLease
<1>3. IsFiniteSet(owners) /\ Cardinality(owners) <= Cardinality(active)
  BY <1>1, <1>2, FS_Injection
<1>4. Slots!Working = owners
  BY DEF Slots!Working, Phase, PhaseOf, Owns, Holding, Ended
<1>5. Cardinality(Slots!Working) < MaxConcurrent
  BY <1>2, <1>3, <1>4, FS_CardinalityType
<1>6. pc[c] = "lease" /\ pc' = [pc EXCEPT ![c] = "pop"] /\ admitted' = admitted
  BY DEF TakeLease, Goto
<1>7. PhaseOf(c) = "waiting" /\ PhaseOf(c)' = "working"
  BY <1>6 DEF PhaseOf, Owns, Holding, Ended, DispatchInv, RecordsTyped
<1>8. Phase' = [Phase EXCEPT ![c] = "working"] /\ Phase[c] = "waiting"
  BY <1>6, <1>7, OneCallMoves DEF Phase, DispatchInv, RecordsTyped
<1>9. Slots!Move(c, {"waiting"}, "working")
  BY <1>8 DEF Slots!Move
<1>10. Slots!Cardinality(Slots!Working) = Cardinality(Slots!Working)
  BY DEF Slots!Cardinality, Cardinality
<1>11. QED
  BY <1>5, <1>9, <1>10 DEF Slots!Admit

LEMMA PoolStep ==
  ASSUME FreshIds, DispatchInv, [Next]_vars
  PROVE  [Slots!Next]_Phase
<1> USE DEF DispatchInv, RecordsTyped, MemoryTyped, Critical, Waiting, Ended,
            Sending, InFlight, Goto, Return, leaseVars, recordVars, worldVars,
            PhaseOf, Owns, Holding
<1>1. ASSUME UNCHANGED <<pc, admitted>> PROVE [Slots!Next]_Phase
  BY <1>1 DEF Phase
<1>2. ASSUME NEW c \in Call,
             Refuse(c) \/ Submit(c) \/ Enqueue(c)
      PROVE  [Slots!Next]_Phase
  BY <1>2, MoveOfThePool DEF Refuse, Submit, Enqueue
<1>3. ASSUME NEW c \in Call,
             \/ GiveUp(c) \/ TakeCachedResult(c) \/ GiveUpOffline(c)
             \/ LookUp(c) \/ TryLock(c)
      PROVE  [Slots!Next]_Phase
  BY <1>3, MoveOfThePool DEF GiveUp, TakeCachedResult, GiveUpOffline, LookUp, TryLock
<1>4. ASSUME NEW c \in Call,
             CleanExpired(c) \/ InspectHead(c) \/ DropHead(c) \/ PopAndRun(c)
             \/ CheckToken(c) \/ DeleteLock(c)
      PROVE  [Slots!Next]_Phase
  <2>1. CASE CleanExpired(c)
    BY <2>1, MoveOfThePool DEF CleanExpired
  <2>2. CASE InspectHead(c)
    BY <2>2, MoveOfThePool DEF InspectHead
  <2>3. CASE DropHead(c)
    BY <2>3, MoveOfThePool DEF DropHead
  <2>4. CASE PopAndRun(c)
    BY <2>4, MoveOfThePool DEF PopAndRun
  <2>5. CASE CheckToken(c)
    BY <2>5, MoveOfThePool DEF CheckToken
  <2>6. CASE DeleteLock(c)
    BY <2>6, MoveOfThePool DEF DeleteLock
  <2>7. QED
    BY <1>4, <2>1, <2>2, <2>3, <2>4, <2>5, <2>6
<1>5. ASSUME NEW c \in Call, TakeLease(c) PROVE [Slots!Next]_Phase
  BY <1>5, LeaseMeansSlot DEF Slots!Next
<1>6. ASSUME NEW c \in Call,
             Send(c) \/ MissingMessage(c) \/ StoreAnswer(c) \/ MarkCompleted(c)
             \/ Finish(c) \/ NotConnected(c) \/ Requeue(c) \/ Backoff(c)
      PROVE  [Slots!Next]_Phase
  <2>1. CASE Send(c)
    BY <2>1, MoveOfThePool DEF Send
  <2>2. CASE MissingMessage(c) \/ Finish(c)
    BY <2>2, MoveOfThePool DEF MissingMessage, Finish
  <2>3. CASE StoreAnswer(c)
    BY <2>3, MoveOfThePool DEF StoreAnswer
  <2>4. CASE MarkCompleted(c)
    BY <2>4, MoveOfThePool DEF MarkCompleted
  <2>5. CASE NotConnected(c)
    BY <2>5, MoveOfThePool DEF NotConnected
  <2>6. CASE Requeue(c) \/ Backoff(c)
    BY <2>6, MoveOfThePool DEF Requeue, Backoff
  <2>7. QED
    BY <1>6, <2>1, <2>2, <2>3, <2>4, <2>5, <2>6
<1>7. ASSUME NEW c \in Call,
             Elapse(c) \/ Abort(c) \/ Cancel(c) \/ Fail(c)
      PROVE  [Slots!Next]_Phase
  BY <1>1, <1>7, MoveOfThePool DEF Elapse, Abort, Cancel, Fail
<1>8. ASSUME NEW r \in Request,
             ExpireQueued(r) \/ ExpireActive(r) \/ EvictRequest(r) \/ LateAnswer(r)
      PROVE  [Slots!Next]_Phase
  BY <1>1, <1>8 DEF ExpireQueued, ExpireActive, EvictRequest, LateAnswer, callVars
<1>9. CASE ExpireLock \/ Connect \/ Disconnect \/ Restart
  BY <1>1, <1>9 DEF ExpireLock, Connect, Disconnect, Restart, callVars
<1>10. CASE Crash
  <2>1. Slots!Crash
    BY <1>10 DEF Crash, Live, Slots!Crash, Phase
  <2>2. QED
    BY <2>1 DEF Slots!Next
<1>11. QED
  BY <1>1, <1>2, <1>3, <1>4, <1>5, <1>6, <1>7, <1>8, <1>9, <1>10
  DEF Next, CallStep, Environment, vars, callVars

\* Queue, leases and lock together implement the pool of slots, under the
\* assumptions of the limit (send_ai_analysis_message).
THEOREM QueueImplementsSlots ==
  ASSUME FreshIds, ~LockMayExpire, ~MayEvict
  PROVE  Spec => ImplementsSlots
<1>1. Init => Slots!Init
  <2> SUFFICES ASSUME Init PROVE Slots!Init
    OBVIOUS
  <2>1. \A c \in Call : PhaseOf(c) = "new"
    BY DEF Init, PhaseOf, Ended, Owns, Holding
  <2>2. Phase = [c \in Call |-> "new"]
    BY <2>1 DEF Phase
  <2>3. QED
    BY <2>2 DEF Slots!Init
<1>2. DispatchInv /\ [Next]_vars => [Slots!Next]_Phase
  BY PoolStep
<1>3. QED
  BY <1>1, <1>2, InvInductive, PTL DEF Spec, ImplementsSlots, Slots!Spec
=============================================================================
