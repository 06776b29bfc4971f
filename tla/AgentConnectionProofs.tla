------------------------ MODULE AgentConnectionProofs ------------------------
(***************************************************************************)
(* Theorems about AgentConnection, for any number of connections and       *)
(* requests and any faults.                                                *)
(***************************************************************************)
EXTENDS AgentConnection, TLAPS

----------------------------------------------------------------------------
(* Types.                                                                  *)

LEMMA TypeInit == Init => TypeOK
  <1> SUFFICES ASSUME Init PROVE TypeOK
    OBVIOUS
  <1>1. ServerTyped
    <2>1. opened \in 0 .. Connections
      BY ConnectionAssumption DEF Init
    <2>2. loop \in [Session -> Loop]
      BY DEF Init, Loop
    <2> QED
      BY <2>1, <2>2 DEF Init, ServerTyped
  <1>2. RequestsTyped
    BY DEF Init, RequestsTyped, Wait
  <1>3. LinksTyped
    BY DEF Init, LinksTyped
  <1>4. ClientTyped
    BY DEF Init, ClientTyped
  <1> QED
    BY <1>1, <1>2, <1>3, <1>4 DEF TypeOK

LEMMA ServerTypes == TypeOK /\ [Next]_vars => ServerTyped'
  <1> SUFFICES ASSUME TypeOK, [Next]_vars PROVE ServerTyped'
    OBVIOUS
  <1> USE DEF TypeOK, ServerTyped, serverVars, At
  <1>1. CASE Connect
    BY <1>1, ConnectionAssumption DEF Connect, Loop, Serving, Session
  <1>2. ASSUME NEW s \in Session, Endpoint(s) PROVE ServerTyped'
    BY <1>2 DEF Endpoint, Announce, AnnounceFails, Receive, End, MarkOffline,
                Loop, Serving, Over
  <1>3. CASE Heartbeat
    BY <1>3 DEF Heartbeat, Judge, Ping, PingReturns, RemoveAgent, WriteOffline
  <1>4. ASSUME NEW q \in Request, SendMessage(q) PROVE ServerTyped'
    BY <1>4 DEF SendMessage, Register, SendRest, TimeOut
  <1>5. CASE Client
    BY <1>5 DEF Client, ReplayEnds, ClientNotices, Answer, AnswerRest, Replay,
                ReplayRest
  <1>6. CASE Network
    BY <1>6 DEF Network, Break, FallSilent
  <1>7. CASE UNCHANGED vars
    BY <1>7 DEF vars
  <1> QED
    BY <1>1, <1>2, <1>3, <1>4, <1>5, <1>6, <1>7 DEF Next

\* The message at the head of a wire.
LEMMA WireHead ==
  ASSUME LinksTyped, NEW s \in Session, wire[s] # <<>>
  PROVE  /\ Head(wire[s])[1] \in Request
         /\ Head(wire[s])[2] \in Chunk
         /\ Tail(wire[s]) \in Seq(Request \X Chunk)
  <1>1. wire[s] \in Seq(Request \X Chunk)
    BY DEF LinksTyped
  <1>2. Head(wire[s]) \in Request \X Chunk /\ Tail(wire[s]) \in Seq(Request \X Chunk)
    BY <1>1
  <1> QED
    BY <1>2

LEMMA RequestTypes == TypeOK /\ [Next]_vars => RequestsTyped'
  <1> SUFFICES ASSUME TypeOK, [Next]_vars PROVE RequestsTyped'
    OBVIOUS
  <1> USE DEF TypeOK, RequestsTyped, requestVars, cacheVars
  <1>1. CASE Connect
    BY <1>1 DEF Connect
  <1>2. ASSUME NEW s \in Session, Endpoint(s) PROVE RequestsTyped'
    <2>1. CASE Announce(s) \/ AnnounceFails(s) \/ MarkOffline(s)
      BY <2>1 DEF Announce, AnnounceFails, MarkOffline
    <2>2. CASE Receive(s)
      <3>1. PICK q \in Request, i \in Chunk :
              Stash(q, i) \/ Collect(q, i) \/ UNCHANGED <<requestVars, cacheVars>>
        BY <2>2, WireHead DEF Receive
      <3>2. CASE Stash(q, i)
        BY <3>2 DEF Stash
      <3>3. CASE Collect(q, i)
        BY <3>3 DEF Collect, Drop, Wait
      <3> QED
        BY <3>1, <3>2, <3>3
    <2>3. CASE End(s)
      BY <2>3 DEF End, Wait
    <2> QED
      BY <1>2, <2>1, <2>2, <2>3 DEF Endpoint
  <1>3. CASE Heartbeat
    BY <1>3 DEF Heartbeat, Judge, Ping, PingReturns, RemoveAgent, WriteOffline
  <1>4. ASSUME NEW q \in Request, SendMessage(q) PROVE RequestsTyped'
    BY <1>4 DEF SendMessage, Register, SendRest, TimeOut, Drop, Wait,
                ServerTyped
  <1>5. CASE Client
    BY <1>5 DEF Client, ReplayEnds, ClientNotices, Answer, AnswerRest, Replay,
                ReplayRest
  <1>6. CASE Network
    BY <1>6 DEF Network, Break, FallSilent
  <1>7. CASE UNCHANGED vars
    BY <1>7 DEF vars
  <1> QED
    BY <1>1, <1>2, <1>3, <1>4, <1>5, <1>6, <1>7 DEF Next

\* A chunk put on a wire is a chunk of a request.
LEMMA PutTyped ==
  ASSUME LinksTyped, NEW s, NEW q \in Request, NEW i \in Chunk, Put(s, q, i)
  PROVE  wire' \in [Session -> Seq(Request \X Chunk)]
  <1>1. CASE s \in Session
    <2>1. wire[s] \in Seq(Request \X Chunk) /\ <<q, i>> \in Request \X Chunk
      BY <1>1 DEF LinksTyped
    <2>2. Append(wire[s], <<q, i>>) \in Seq(Request \X Chunk)
      BY <2>1
    <2> QED
      BY <2>2 DEF LinksTyped, Put
  <1>2. CASE s \notin Session
    BY <1>2 DEF LinksTyped, Put
  <1> QED
    BY <1>1, <1>2

\* What was on the wire of a session may get lost.
LEMMA LostTyped ==
  ASSUME LinksTyped, NEW s \in Session
  PROVE  [wire EXCEPT ![s] = <<>>] \in [Session -> Seq(Request \X Chunk)]
  BY DEF LinksTyped

LEMMA LinkTypes == TypeOK /\ [Next]_vars => LinksTyped'
  <1> SUFFICES ASSUME TypeOK, [Next]_vars PROVE LinksTyped'
    OBVIOUS
  <1> USE DEF TypeOK, linkVars, Closed
  <1>0. 1 \in Chunk /\ 2 \in Chunk
    BY DEF Chunk
  <1>1. CASE Connect
    BY <1>1 DEF Connect, LinksTyped
  <1>2. ASSUME NEW s \in Session, Endpoint(s) PROVE LinksTyped'
    <2>1. CASE Receive(s)
      BY <2>1, WireHead DEF Receive, LinksTyped
    <2>2. CASE ~Receive(s)
      BY <1>2, <2>2, LostTyped DEF Endpoint, Announce, AnnounceFails, End,
                                   MarkOffline, Loses, LinksTyped
    <2> QED
      BY <2>1, <2>2
  <1>3. CASE Heartbeat
    BY <1>3 DEF Heartbeat, Judge, Ping, PingReturns, RemoveAgent, WriteOffline,
                HangUp, LinksTyped
  <1>4. ASSUME NEW q \in Request, SendMessage(q) PROVE LinksTyped'
    BY <1>4 DEF SendMessage, Register, SendRest, TimeOut, LinksTyped
  <1>5. CASE Client
    <2>1. CASE ReplayEnds \/ ClientNotices
      BY <2>1 DEF ReplayEnds, ClientNotices, LinksTyped
    <2>2. ASSUME NEW q \in Request,
                 Answer(q) \/ AnswerRest(q) \/ Replay(q) \/ ReplayRest(q)
          PROVE  LinksTyped'
      <3>1. UNCHANGED link
        BY <2>2 DEF Answer, AnswerRest, Replay, ReplayRest
      <3>2. Put(client, q, 1) \/ Put(client, q, 2) \/ UNCHANGED wire
        BY <2>2 DEF Answer, AnswerRest, Replay, ReplayRest, FailToSend,
                    PutLast
      <3>3. wire' \in [Session -> Seq(Request \X Chunk)]
        BY <3>2, <1>0, PutTyped DEF LinksTyped
      <3> QED
        BY <3>1, <3>3 DEF LinksTyped
    <2> QED
      BY <1>5, <2>1, <2>2 DEF Client
  <1>6. CASE Network
    BY <1>6, LostTyped DEF Network, Break, FallSilent, Loses, LinksTyped
  <1>7. CASE UNCHANGED vars
    BY <1>7 DEF vars, LinksTyped
  <1> QED
    BY <1>1, <1>2, <1>3, <1>4, <1>5, <1>6, <1>7 DEF Next

LEMMA ClientTypes == TypeOK /\ [Next]_vars => ClientTyped'
  <1> SUFFICES ASSUME TypeOK, [Next]_vars PROVE ClientTyped'
    OBVIOUS
  <1> USE DEF TypeOK, ClientTyped, clientVars
  <1>1. CASE Connect
    BY <1>1, ConnectionAssumption DEF Connect, ServerTyped, Session
  <1>2. ASSUME NEW s \in Session, Endpoint(s) PROVE ClientTyped'
    BY <1>2, WireHead DEF Endpoint, Announce, AnnounceFails, Receive, End,
                          MarkOffline, Loses
  <1>3. CASE Heartbeat
    BY <1>3 DEF Heartbeat, Judge, Ping, PingReturns, RemoveAgent, WriteOffline
  <1>4. ASSUME NEW q \in Request, SendMessage(q) PROVE ClientTyped'
    BY <1>4 DEF SendMessage, Register, SendRest, TimeOut
  <1>5. CASE Client
    BY <1>5 DEF Client, ReplayEnds, ClientNotices, Answer, AnswerRest, Replay,
                ReplayRest, FailToSend, PutLast, Enqueued
  <1>6. CASE Network
    BY <1>6 DEF Network, Break, FallSilent, Loses
  <1>7. CASE UNCHANGED vars
    BY <1>7 DEF vars
  <1> QED
    BY <1>1, <1>2, <1>3, <1>4, <1>5, <1>6, <1>7 DEF Next

LEMMA TypeStep == TypeOK /\ [Next]_vars => TypeOK'
  BY ServerTypes, RequestTypes, LinkTypes, ClientTypes DEF TypeOK

\* Whatever the network, the heartbeat and the two processes do, every record
\* has its type (agent_controller.py, agent_service.py, agent_server.py).
THEOREM TypesHold == Spec => []TypeOK
  BY TypeInit, TypeStep, PTL DEF Spec

----------------------------------------------------------------------------
(* Nobody waits on an endpoint that is gone.                               *)

\* Sessions that are still to come have no endpoint yet.
Ahead == \A s \in Session : s > opened => loop[s] = "none"
\* The registered session has an endpoint that has not removed it.
RegisteredServes ==
  registry # NoSession => loop[registry] \in Serving \cup {"aborted"}
\* With these two the property is inductive: an entry is made with the session
\* registered at that moment, and a new endpoint starts from "none".
WaitInv == TypeOK /\ Ahead /\ RegisteredServes /\ PendingHasEndpoint

LEMMA WaitInit == Init => WaitInv
  <1> SUFFICES ASSUME Init PROVE WaitInv
    OBVIOUS
  <1>1. TypeOK
    BY TypeInit
  <1>2. Ahead /\ RegisteredServes /\ PendingHasEndpoint
    BY DEF Init, Ahead, RegisteredServes, PendingHasEndpoint
  <1> QED
    BY <1>1, <1>2 DEF WaitInv

LEMMA WaitStep == WaitInv /\ [Next]_vars => WaitInv'
  <1> SUFFICES ASSUME WaitInv, [Next]_vars
               PROVE  Ahead' /\ RegisteredServes' /\ PendingHasEndpoint'
    BY TypeStep DEF WaitInv
  <1> USE DEF WaitInv, TypeOK, ServerTyped, RequestsTyped, Ahead,
              RegisteredServes, PendingHasEndpoint, serverVars, requestVars, At
  <1>1. CASE Connect
    BY <1>1, ConnectionAssumption DEF Connect, Session, NoSession, Serving
  <1>2. ASSUME NEW s \in Session, Endpoint(s)
        PROVE  Ahead' /\ RegisteredServes' /\ PendingHasEndpoint'
    <2>1. CASE Announce(s) \/ AnnounceFails(s) \/ MarkOffline(s)
      <3>1. /\ UNCHANGED <<opened, registry, future>>
            /\ loop' = [loop EXCEPT ![s] = loop'[s]]
        BY <2>1 DEF Announce, AnnounceFails, MarkOffline
      <3>2. \/ loop[s] \in Serving /\ loop'[s] \in Serving \cup {"aborted"}
            \/ loop[s] = "closing"
        BY <2>1 DEF Announce, AnnounceFails, MarkOffline, Serving
      <3> QED
        BY <3>1, <3>2 DEF Serving
    <2>2. CASE Receive(s)
      <3>1. PICK q \in Request, i \in Chunk :
              Stash(q, i) \/ Collect(q, i) \/ UNCHANGED <<requestVars, cacheVars>>
        BY <2>2, WireHead DEF Receive
      <3>2. \A r \in Request : future'[r] \in {future[r], NoSession}
        BY <3>1 DEF Stash, Collect, Drop
      <3>3. /\ loop[s] \in Serving
            /\ loop' = [loop EXCEPT ![s] = loop'[s]] /\ loop'[s] \in Serving
            /\ UNCHANGED <<opened, registry>>
        BY <2>2 DEF Receive, Serving
      <3> QED
        BY <3>2, <3>3 DEF Serving
    <2>3. CASE End(s)
      <3>1. /\ loop[s] \in Serving /\ UNCHANGED opened
            /\ registry' = IF registry = s THEN NoSession ELSE registry
            /\ \A t \in Session : t # s => loop'[t] = loop[t]
        BY <2>3 DEF End, Owns, Serving
      <3>2. \A q \in Request : future'[q] # NoSession
                               => future[q] # s /\ future'[q] = future[q]
        BY <2>3 DEF End, Cancelled
      <3>3. Ahead'
        BY <3>1 DEF Serving
      <3> QED
        BY <3>1, <3>2, <3>3
    <2> QED
      BY <1>2, <2>1, <2>2, <2>3 DEF Endpoint
  <1>3. CASE Heartbeat
    BY <1>3 DEF Heartbeat, Judge, Ping, PingReturns, RemoveAgent, WriteOffline
  <1>4. ASSUME NEW q \in Request, SendMessage(q)
        PROVE  Ahead' /\ RegisteredServes' /\ PendingHasEndpoint'
    BY <1>4 DEF SendMessage, Register, SendRest, TimeOut, Drop
  <1>5. CASE Client
    BY <1>5 DEF Client, ReplayEnds, ClientNotices, Answer, AnswerRest, Replay,
                ReplayRest
  <1>6. CASE Network
    BY <1>6 DEF Network, Break, FallSilent
  <1>7. CASE UNCHANGED vars
    BY <1>7 DEF vars
  <1> QED
    BY <1>1, <1>2, <1>3, <1>4, <1>5, <1>6, <1>7 DEF Next

\* For any connections, take-overs, heartbeats and faults, an entry of
\* response_futures belongs to an endpoint whose finally clause is still to
\* come and will cancel it (websocket_endpoint, send_message).
THEOREM NobodyWaitsOnAGoneEndpoint == Spec => []PendingHasEndpoint
  <1>1. WaitInv => PendingHasEndpoint
    BY DEF WaitInv
  <1> QED
    BY <1>1, WaitInit, WaitStep, PTL DEF Spec

----------------------------------------------------------------------------
(* No answer is lost but by the mishaps that AnswerKept names.             *)

\* The answer has reached the call that waits for it, or the result cache.
Kept(q) == q \in stored \/ wait[q] = "answered"
\* Its last chunk is on its way.
Sent(q) == \E s \in Session : \E i \in DOMAIN wire[s] : wire[s][i] = <<q, 2>>
\* Its first chunk is where Receive will look when the last one arrives on s,
\* or is among the first n messages on the way.
Begun(q, s) == \/ future[q] = NoSession /\ 1 \in orphan[q]
               \/ future[q] = s /\ 1 \in collected[q]
Precedes(q, s, n) == \E j \in 1 .. n : wire[s][j] = <<q, 1>>

\* A link that looks open belongs to the registered session, and its endpoint
\* still reads; messages are on their way to endpoints that serve.
Links ==
  \A s \in Session :
    /\ link[s] \in {"open", "silent"} =>
         registry = s /\ loop[s] \in {"accepted", "receiving"}
    /\ wire[s] # <<>> => loop[s] \in Serving
\* Nothing of an answer exists before the request has been executed, and it is
\* not executed before it is sent completely.
Untouched ==
  \A q \in Request :
    /\ wait[q] \in {"idle", "sending"} => task[q] \in {"none", "half"}
    /\ task[q] \in {"none", "half", "executing"} =>
         /\ q \notin outbox /\ replay[q] = "none"
         /\ \A s \in Session : \A i \in DOMAIN wire[s] : wire[s][i][1] # q
\* The client has sent the first chunk on a session and not the last one.
Halfway(q, s) == \/ task[q] = "sending" /\ via[q] = s
                 \/ replay[q] = "sending" /\ client = s
\* The last chunk of an answer comes after the first one.
Ordered(q) ==
  /\ 2 \notin orphan[q] /\ 2 \notin collected[q]
  /\ \A s \in Session : \A i \in DOMAIN wire[s] :
       wire[s][i] = <<q, 2>> => Begun(q, s) \/ Precedes(q, s, i - 1)
  /\ \A s \in Session : link[s] = "open" /\ Halfway(q, s)
                        => Begun(q, s) \/ Precedes(q, s, Len(wire[s]))
InOrder == \A q \in Request : q \notin mishap /\ ~Kept(q) => Ordered(q)
\* The file loses no answer: what is in it is replayed, and what a replay
\* leaves out has been sent.
Retained ==
  \A q \in Request :
    /\ task[q] = "sending" => via[q] # NoSession /\ loop[via[q]] # "none"
    /\ q \notin mishap =>
         /\ q \in outbox /\ Replaying => replay[q] # "none"
         /\ replay[q] = "delivered" => Kept(q) \/ Sent(q)
         /\ task[q] = "done" => q \in outbox \/ Kept(q) \/ Sent(q)
KeptInv == TypeOK /\ Ahead /\ Links /\ Untouched /\ InOrder /\ Retained

LEMMA KeptInit == Init => KeptInv
  <1> SUFFICES ASSUME Init PROVE KeptInv
    OBVIOUS
  <1>1. TypeOK
    BY TypeInit
  <1>2. \A s \in Session : DOMAIN wire[s] = {} /\ Len(wire[s]) = 0
    BY DEF Init
  <1>3. Ahead /\ Links
    BY DEF Init, Ahead, Links
  <1>4. Untouched
    BY <1>2 DEF Init, Untouched
  <1>5. InOrder
    BY <1>2 DEF Init, InOrder, Ordered, Halfway
  <1>6. Retained
    BY DEF Init, Retained
  <1> QED
    BY <1>1, <1>3, <1>4, <1>5, <1>6 DEF KeptInv

\* The heartbeat touches the registry, its links and the row only.
LEMMA HeartbeatHangsUp ==
  ASSUME KeptInv, Heartbeat
  PROVE  /\ UNCHANGED <<opened, loop, requestVars, cacheVars, wire, clientVars, mishap>>
         /\ \/ UNCHANGED <<registry, link>>
            \/ /\ registry \in Session /\ registry' = NoSession
               /\ link' = [link EXCEPT ![registry] = "closed"]
  <1>1. CASE RemoveAgent
    BY <1>1 DEF RemoveAgent, HangUp, Closed, KeptInv, TypeOK, ServerTyped
  <1>2. CASE Judge \/ Ping \/ PingReturns \/ WriteOffline
    BY <1>2 DEF Judge, Ping, PingReturns, WriteOffline, linkVars
  <1> QED
    BY <1>1, <1>2 DEF Heartbeat

\* A send of the client puts a chunk of its answer on the wire of its session,
\* or nothing.
LEMMA SendPuts ==
  ASSUME KeptInv, NEW q \in Request,
         Answer(q) \/ AnswerRest(q) \/ Replay(q) \/ ReplayRest(q)
  PROVE  /\ UNCHANGED <<serverVars, requestVars, cacheVars, link>>
         /\ mishap \subseteq mishap'
         /\ \/ UNCHANGED wire
            \/ /\ client \in Session /\ link[client] = "open"
               /\ \E i \in Chunk :
                    wire' = [wire EXCEPT ![client] = Append(@, <<q, i>>)]
  <1>1. UNCHANGED <<serverVars, requestVars, cacheVars, link>>
    BY DEF Answer, AnswerRest, Replay, ReplayRest
  <1>2. \/ UNCHANGED wire
        \/ CanSend(client) /\ \E i \in Chunk : Put(client, q, i)
    BY DEF Answer, AnswerRest, Replay, ReplayRest, FailToSend, PutLast,
           CanSend, Chunk
  <1>3. ASSUME NEW i \in Chunk, CanSend(client), Put(client, q, i)
        PROVE  \/ UNCHANGED wire
               \/ /\ client \in Session /\ link[client] = "open"
                  /\ wire' = [wire EXCEPT ![client] = Append(@, <<q, i>>)]
    BY <1>3 DEF CanSend, LinkOf, Put, KeptInv, TypeOK, ClientTyped
  <1>4. mishap \subseteq mishap'
    BY DEF Answer, AnswerRest, Replay, ReplayRest, FailToSend, PutLast
  <1> QED
    BY <1>1, <1>2, <1>3, <1>4

LEMMA ClientPuts ==
  ASSUME KeptInv, Client
  PROVE  /\ UNCHANGED <<serverVars, requestVars, cacheVars, link>>
         /\ mishap \subseteq mishap'
         /\ \/ UNCHANGED wire
            \/ /\ client \in Session /\ link[client] = "open"
               /\ \E q \in Request, i \in Chunk :
                    wire' = [wire EXCEPT ![client] = Append(@, <<q, i>>)]
  <1>1. CASE ReplayEnds \/ ClientNotices
    BY <1>1 DEF ReplayEnds, ClientNotices, linkVars
  <1> QED
    BY <1>1, SendPuts DEF Client

\* A mishap is not forgotten.
LEMMA MishapsStay ==
  ASSUME KeptInv, [Next]_vars
  PROVE  mishap \subseteq mishap'
  <1>1. CASE Connect
    BY <1>1 DEF Connect
  <1>2. CASE \E s \in Session : Endpoint(s)
    BY <1>2 DEF Endpoint, Announce, AnnounceFails, Receive, End, MarkOffline,
                Loses
  <1>3. CASE Heartbeat
    BY <1>3, HeartbeatHangsUp
  <1>4. CASE \E q \in Request : SendMessage(q)
    BY <1>4 DEF SendMessage, Register, SendRest, TimeOut
  <1>5. CASE Client
    BY <1>5, ClientPuts
  <1>6. CASE Network
    BY <1>6 DEF Network, Break, FallSilent, Loses
  <1>7. CASE UNCHANGED vars
    BY <1>7 DEF vars
  <1> QED
    BY <1>1, <1>2, <1>3, <1>4, <1>5, <1>6, <1>7 DEF Next

\* A connection that is accepted is a new one.
LEMMA FreshStart ==
  ASSUME KeptInv, Connect
  PROVE  /\ opened + 1 \in Session /\ opened \in Nat
         /\ loop[opened + 1] = "none"
         /\ wire[opened + 1] = <<>>
  <1>1. opened + 1 \in Session /\ opened \in Nat
    BY ConnectionAssumption DEF Connect, Session, KeptInv, TypeOK, ServerTyped
  <1>2. loop[opened + 1] = "none"
    BY <1>1 DEF KeptInv, Ahead
  <1> QED
    BY <1>1, <1>2 DEF KeptInv, Links, Serving

LEMMA AheadStep ==
  ASSUME KeptInv, [Next]_vars
  PROVE  /\ Ahead'
         /\ \A s \in Session : loop'[s] = "none" => loop[s] = "none"
  <1> USE DEF KeptInv, TypeOK, ServerTyped, Ahead, serverVars, At
  <1>1. CASE Connect
    BY <1>1, FreshStart DEF Connect, Session
  <1>2. ASSUME NEW s \in Session, Endpoint(s)
        PROVE  /\ Ahead'
               /\ \A t \in Session : loop'[t] = "none" => loop[t] = "none"
    BY <1>2 DEF Endpoint, Announce, AnnounceFails, Receive, End, MarkOffline
  <1>3. CASE Heartbeat
    BY <1>3, HeartbeatHangsUp
  <1>4. CASE \E q \in Request : SendMessage(q)
    BY <1>4 DEF SendMessage, Register, SendRest, TimeOut
  <1>5. CASE Client
    BY <1>5, ClientPuts
  <1>6. CASE Network
    BY <1>6 DEF Network, Break, FallSilent
  <1>7. CASE UNCHANGED vars
    BY <1>7 DEF vars
  <1> QED
    BY <1>1, <1>2, <1>3, <1>4, <1>5, <1>6, <1>7 DEF Next

LEMMA LinksStep ==
  ASSUME KeptInv, [Next]_vars
  PROVE  Links'
  <1> USE DEF KeptInv, TypeOK, ServerTyped, LinksTyped, Links, At, Closed,
              serverVars, linkVars
  <1>1. CASE Connect
    <2>1. /\ opened' = opened + 1 /\ registry' = opened + 1
          /\ loop' = [loop EXCEPT ![opened + 1] = "accepted"]
          /\ UNCHANGED wire
      BY <1>1 DEF Connect
    <2>2. \A t \in Session : t # opened + 1 => link'[t] \notin {"open", "silent"}
      BY <1>1 DEF Connect
    <2> QED
      BY <1>1, <2>1, <2>2, FreshStart DEF Serving
  <1>2. ASSUME NEW s \in Session, Endpoint(s) PROVE Links'
    <2>1. CASE Announce(s) \/ AnnounceFails(s) \/ MarkOffline(s)
      BY <2>1 DEF Announce, AnnounceFails, MarkOffline, Loses, Serving
    <2>2. CASE Receive(s)
      BY <2>2 DEF Receive, Serving
    <2>3. CASE End(s)
      <3>1. /\ link' = [link EXCEPT ![s] = "closed"]
            /\ wire' = [wire EXCEPT ![s] = <<>>]
            /\ loop' = [loop EXCEPT ![s] = loop'[s]]
            /\ registry' = IF registry = s THEN NoSession ELSE registry
        BY <2>3 DEF End, Loses, Owns
      <3> QED
        BY <3>1
    <2> QED
      BY <1>2, <2>1, <2>2, <2>3 DEF Endpoint
  <1>3. CASE Heartbeat
    BY <1>3, HeartbeatHangsUp
  <1>4. ASSUME NEW q \in Request, SendMessage(q) PROVE Links'
    BY <1>4 DEF SendMessage, Register, SendRest, TimeOut
  <1>5. CASE Client
    BY <1>5, ClientPuts DEF Serving
  <1>6. CASE Network
    BY <1>6 DEF Network, Break, FallSilent, Loses
  <1>7. CASE UNCHANGED vars
    BY <1>7 DEF vars
  <1> QED
    BY <1>1, <1>2, <1>3, <1>4, <1>5, <1>6, <1>7 DEF Next

\* The messages of a wire are numbered from 1.
LEMMA WireLength ==
  ASSUME LinksTyped, NEW s \in Session
  PROVE  Len(wire[s]) \in Nat /\ DOMAIN wire[s] = 1 .. Len(wire[s])
  BY DEF LinksTyped

\* A message put on a wire comes after all the others.
LEMMA Appended ==
  ASSUME LinksTyped, NEW s \in Session, NEW q \in Request, NEW i \in Chunk,
         wire' = [wire EXCEPT ![s] = Append(@, <<q, i>>)]
  PROVE  /\ Len(wire'[s]) = Len(wire[s]) + 1
         /\ DOMAIN wire'[s] = 1 .. Len(wire[s]) + 1
         /\ \A k \in DOMAIN wire[s] : wire'[s][k] = wire[s][k]
         /\ wire'[s][Len(wire[s]) + 1] = <<q, i>>
         /\ \A t \in Session : t # s => wire'[t] = wire[t]
  <1>1. wire[s] \in Seq(Request \X Chunk)
    BY DEF LinksTyped
  <1>2. wire'[s] = Append(wire[s], <<q, i>>)
    BY DEF LinksTyped
  <1> QED
    BY <1>1, <1>2 DEF LinksTyped

\* Every other message moves up when one is received.
LEMMA Taken ==
  ASSUME LinksTyped, NEW s \in Session, wire[s] # <<>>,
         wire' = [wire EXCEPT ![s] = Tail(@)]
  PROVE  /\ Len(wire'[s]) = Len(wire[s]) - 1
         /\ DOMAIN wire'[s] = 1 .. Len(wire[s]) - 1
         /\ \A k \in DOMAIN wire'[s] : wire'[s][k] = wire[s][k + 1]
         /\ 1 \in DOMAIN wire[s] /\ Head(wire[s]) = wire[s][1]
         /\ \A t \in Session : t # s => wire'[t] = wire[t]
  <1>1. wire[s] \in Seq(Request \X Chunk)
    BY DEF LinksTyped
  <1>2. wire'[s] = Tail(wire[s])
    BY DEF LinksTyped
  <1> QED
    BY <1>1, <1>2 DEF LinksTyped

\* Receiving, losing and closing put nothing on a wire.
LEMMA NothingNew ==
  ASSUME LinksTyped, NEW s \in Session,
         \/ wire' = wire
         \/ wire' = [wire EXCEPT ![s] = <<>>]
         \/ wire[s] # <<>> /\ wire' = [wire EXCEPT ![s] = Tail(@)],
         NEW t \in Session, NEW k \in DOMAIN wire'[t]
  PROVE  \E j \in DOMAIN wire[t] : wire'[t][k] = wire[t][j]
  <1>1. CASE wire' = wire
    BY <1>1
  <1>2. CASE wire' = [wire EXCEPT ![s] = <<>>]
    BY <1>2 DEF LinksTyped
  <1>3. CASE wire[s] # <<>> /\ wire' = [wire EXCEPT ![s] = Tail(@)]
    <2>1. Len(wire[s]) \in Nat /\ DOMAIN wire[s] = 1 .. Len(wire[s])
      BY WireLength
    <2>2. CASE t = s
      <3>1. k \in DOMAIN wire'[s] /\ DOMAIN wire'[s] = 1 .. Len(wire[s]) - 1
        BY <1>3, <2>2, Taken
      <3>2. k + 1 \in DOMAIN wire[s]
        BY <2>1, <3>1
      <3>3. wire'[s][k] = wire[s][k + 1]
        BY <1>3, <3>1, Taken
      <3> QED
        BY <2>2, <3>2, <3>3
    <2>3. CASE t # s
      BY <1>3, <2>3, Taken
    <2> QED
      BY <2>2, <2>3
  <1> QED
    BY <1>1, <1>2, <1>3

LEMMA UntouchedStep ==
  ASSUME KeptInv, [Next]_vars
  PROVE  Untouched'
  <1> USE DEF KeptInv, TypeOK, RequestsTyped, LinksTyped, ClientTyped,
              Untouched, requestVars, linkVars, clientVars
  <1>1. CASE Connect
    BY <1>1 DEF Connect
  <1>2. ASSUME NEW s \in Session, Endpoint(s) PROVE Untouched'
    <2>1. /\ \A r \in Request : wait'[r] \in {wait[r], "answered", "lost"}
          /\ UNCHANGED clientVars
      <3>1. CASE Receive(s)
        <4>1. PICK q \in Request, i \in Chunk :
                Stash(q, i) \/ Collect(q, i) \/ UNCHANGED <<requestVars, cacheVars>>
          BY <3>1, WireHead DEF Receive
        <4>2. \A r \in Request : wait'[r] \in {wait[r], "answered"}
          BY <4>1 DEF Stash, Collect
        <4> QED
          BY <3>1, <4>2 DEF Receive
      <3>2. CASE End(s)
        BY <3>2 DEF End
      <3>3. CASE Announce(s) \/ AnnounceFails(s) \/ MarkOffline(s)
        BY <3>3 DEF Announce, AnnounceFails, MarkOffline
      <3> QED
        BY <1>2, <3>1, <3>2, <3>3 DEF Endpoint
    <2>2. \/ wire' = wire
          \/ wire' = [wire EXCEPT ![s] = <<>>]
          \/ wire[s] # <<>> /\ wire' = [wire EXCEPT ![s] = Tail(@)]
      BY <1>2 DEF Endpoint, Announce, AnnounceFails, Receive, End, MarkOffline,
                  Loses
    <2>3. \A t \in Session : \A k \in DOMAIN wire'[t] :
            \E j \in DOMAIN wire[t] : wire'[t][k] = wire[t][j]
      BY <2>2, NothingNew
    <2> QED
      BY <2>1, <2>3
  <1>3. CASE Heartbeat
    BY <1>3, HeartbeatHangsUp
  <1>4. ASSUME NEW q \in Request, SendMessage(q) PROVE Untouched'
    BY <1>4 DEF SendMessage, Register, SendRest, TimeOut, Drop
  <1>5. CASE Client
    <2>1. CASE ReplayEnds \/ ClientNotices
      BY <2>1 DEF ReplayEnds, ClientNotices
    <2>2. ASSUME NEW q \in Request,
                 Answer(q) \/ AnswerRest(q) \/ Replay(q) \/ ReplayRest(q)
          PROVE  Untouched'
      <3>1. \/ UNCHANGED wire
            \/ /\ client \in Session
               /\ \E i \in Chunk :
                    wire' = [wire EXCEPT ![client] = Append(@, <<q, i>>)]
        BY <2>2, SendPuts
      <3>2. /\ wait' = wait
            /\ task'[q] \in {"sending", "done"}
            /\ \A r \in Request : r # q =>
                 /\ task'[r] = task[r] /\ replay'[r] = replay[r]
                 /\ r \in outbox' <=> r \in outbox
        BY <2>2 DEF Answer, AnswerRest, Replay, ReplayRest, FailToSend, Enqueued
      <3>3. ASSUME NEW r \in Request, r # q, NEW t \in Session,
                   \A k \in DOMAIN wire[t] : wire[t][k][1] # r,
                   NEW k \in DOMAIN wire'[t]
            PROVE  wire'[t][k][1] # r
        <4>1. CASE UNCHANGED wire
          BY <4>1, <3>3
        <4>2. CASE wire'[t] = wire[t]
          BY <4>2, <3>3
        <4>3. ASSUME NEW i \in Chunk, client \in Session, t = client,
                     wire' = [wire EXCEPT ![client] = Append(@, <<q, i>>)]
              PROVE  wire'[t][k][1] # r
          <5>1. k \in DOMAIN wire[t] \/ k = Len(wire[t]) + 1
            BY <4>3, Appended, WireLength
          <5> QED
            BY <4>3, <5>1, <3>3, Appended
        <4> QED
          BY <3>1, <4>1, <4>2, <4>3, Appended
      <3>4. ASSUME NEW r \in Request, task'[r] \in {"none", "half", "executing"}
            PROVE  /\ r \notin outbox' /\ replay'[r] = "none"
                   /\ \A t \in Session : \A k \in DOMAIN wire'[t] :
                        wire'[t][k][1] # r
        <4>1. r # q /\ task[r] \in {"none", "half", "executing"}
          BY <3>2, <3>4
        <4>2. /\ r \notin outbox /\ replay[r] = "none"
              /\ \A t \in Session : \A k \in DOMAIN wire[t] : wire[t][k][1] # r
          BY <4>1
        <4>3. r \notin outbox' /\ replay'[r] = "none"
          BY <3>2, <4>1, <4>2
        <4> QED
          BY <3>3, <4>1, <4>2, <4>3
      <3>5. ASSUME NEW r \in Request, wait'[r] \in {"idle", "sending"}
            PROVE  task'[r] \in {"none", "half"}
        BY <3>2, <3>5, <2>2 DEF Answer, AnswerRest, Replay, ReplayRest
      <3> QED
        BY <3>4, <3>5
    <2> QED
      BY <1>5, <2>1, <2>2 DEF Client
  <1>6. ASSUME NEW s \in Session, Break(s) \/ FallSilent(s) PROVE Untouched'
    <2>1. wire' = wire \/ wire' = [wire EXCEPT ![s] = <<>>]
      BY <1>6 DEF Break, FallSilent, Loses
    <2>2. \A t \in Session : \A k \in DOMAIN wire'[t] :
            \E j \in DOMAIN wire[t] : wire'[t][k] = wire[t][j]
      BY <2>1, NothingNew
    <2> QED
      BY <1>6, <2>2 DEF Break, FallSilent
  <1>7. CASE UNCHANGED vars
    BY <1>7 DEF vars
  <1> QED
    BY <1>1, <1>2, <1>3, <1>4, <1>5, <1>6, <1>7 DEF Next, Network

\* The order survives whatever puts nothing on a wire and receives nothing, as
\* long as a first chunk that has arrived stays where it is looked for.
LEMMA OrderStands ==
  ASSUME KeptInv, UNCHANGED orphan, mishap \subseteq mishap',
         \A q \in Request : Kept(q) => Kept(q)',
         \A q \in Request : collected'[q] \in {collected[q], {}},
         \A s \in Session : wire'[s] \in {wire[s], <<>>},
         \A q \in Request, s \in Session :
           /\ q \notin mishap' /\ Begun(q, s)
           /\ \/ link'[s] = "open" /\ Halfway(q, s)'
              \/ \E i \in DOMAIN wire'[s] : wire'[s][i] = <<q, 2>>
           => Begun(q, s)',
         \A q \in Request, s \in Session :
           link'[s] = "open" /\ Halfway(q, s)'
             => wire'[s] = wire[s] /\ link[s] = "open" /\ Halfway(q, s)
  PROVE  InOrder'
  <1> SUFFICES ASSUME NEW q \in Request, q \notin mishap', ~Kept(q)'
               PROVE  Ordered(q)'
    BY DEF InOrder
  <1>1. Ordered(q)
    BY DEF KeptInv, InOrder
  <1>2. ASSUME NEW s \in Session, NEW i \in DOMAIN wire'[s],
               wire'[s][i] = <<q, 2>>
        PROVE  Begun(q, s)' \/ Precedes(q, s, i - 1)'
    <2>1. wire'[s] # <<>>
      BY <1>2
    <2>2. wire'[s] = wire[s]
      BY <2>1
    <2>3. Begun(q, s) \/ Precedes(q, s, i - 1)
      BY <1>1, <1>2, <2>2 DEF Ordered
    <2> QED
      BY <1>2, <2>2, <2>3 DEF Precedes
  <1>3. ASSUME NEW s \in Session, link'[s] = "open", Halfway(q, s)'
        PROVE  Begun(q, s)' \/ Precedes(q, s, Len(wire[s]))'
    <2>1. wire'[s] = wire[s] /\ link[s] = "open" /\ Halfway(q, s)
      BY <1>3
    <2>2. Begun(q, s) \/ Precedes(q, s, Len(wire[s]))
      BY <1>1, <2>1 DEF Ordered
    <2> QED
      BY <1>3, <2>1, <2>2 DEF Precedes
  <1>4. 2 \notin orphan'[q] /\ 2 \notin collected'[q]
    BY <1>1 DEF Ordered
  <1> QED
    BY <1>2, <1>3, <1>4 DEF Ordered
\* It survives a chunk that is put on the wire of an open session, when the last
\* one of an answer follows the first.
LEMMA OrderGrows ==
  ASSUME KeptInv, NEW q \in Request, NEW i \in Chunk, mishap \subseteq mishap',
         NEW c \in Session, link[c] = "open",
         wire' = [wire EXCEPT ![c] = Append(@, <<q, i>>)],
         UNCHANGED <<future, collected, wait, orphan, stored, link>>,
         i = 2 => Halfway(q, c),
         \A r \in Request, s \in Session :
           r # q /\ Halfway(r, s)' => Halfway(r, s)
  PROVE  InOrder'
  <1> SUFFICES ASSUME NEW r \in Request, r \notin mishap', ~Kept(r)'
               PROVE  Ordered(r)'
    BY DEF InOrder
  <1>1. Ordered(r) /\ (\A s \in Session : Begun(r, s)' <=> Begun(r, s))
    BY DEF KeptInv, InOrder, Kept, Begun
  <1>2. LinksTyped
    BY DEF KeptInv, TypeOK
  <1>3. PICK n \in Nat :
        /\ n = Len(wire[c]) /\ DOMAIN wire[c] = 1 .. n
        /\ DOMAIN wire'[c] = 1 .. n + 1 /\ Len(wire'[c]) = n + 1
        /\ \A k \in 1 .. n : wire'[c][k] = wire[c][k]
        /\ wire'[c][n + 1] = <<q, i>>
    BY <1>2, Appended, WireLength
  <1>4. \A s \in Session : s # c => wire'[s] = wire[s]
    BY <1>2, Appended
  <1>5. \A s \in Session : link'[s] = "open" => s = c
    BY DEF KeptInv, Links
  <1>6. ASSUME NEW m \in 0 .. n, NEW l \in 0 .. n + 1, m <= l, Precedes(r, c, m)
        PROVE  Precedes(r, c, l)'
    <2>1. PICK j \in 1 .. m : wire[c][j] = <<r, 1>>
      BY <1>6 DEF Precedes
    <2>2. j \in 1 .. l /\ wire'[c][j] = <<r, 1>>
      BY <1>3, <1>6, <2>1
    <2> QED
      BY <2>2 DEF Precedes
  <1>7. r = q /\ i = 2 => Begun(r, c) \/ Precedes(r, c, n)
    BY <1>1, <1>3 DEF Ordered
  <1>8. r = q /\ i = 1 => Precedes(r, c, n + 1)'
    BY <1>3 DEF Precedes
  <1>9. ASSUME NEW s \in Session, NEW k \in DOMAIN wire'[s],
               wire'[s][k] = <<r, 2>>
        PROVE  Begun(r, s)' \/ Precedes(r, s, k - 1)'
    <2>1. CASE s # c
      <3>1. k \in DOMAIN wire[s] /\ wire[s][k] = <<r, 2>>
        BY <1>4, <1>9, <2>1
      <3>2. Begun(r, s) \/ Precedes(r, s, k - 1)
        BY <3>1, <1>1 DEF Ordered
      <3> QED
        BY <3>2, <1>1, <1>4, <2>1 DEF Precedes
    <2>2. CASE s = c /\ k \in 1 .. n
      <3>1. Begun(r, c) \/ Precedes(r, c, k - 1)
        BY <1>1, <1>3, <1>9, <2>2 DEF Ordered
      <3> QED
        BY <3>1, <1>1, <1>3, <1>6, <2>2
    <2>3. CASE s = c /\ k = n + 1
      <3>1. r = q /\ i = 2
        BY <1>3, <1>9, <2>3
      <3> QED
        BY <3>1, <1>1, <1>3, <1>6, <1>7, <2>3
    <2> QED
      BY <1>3, <1>9, <2>1, <2>2, <2>3
  <1>10. ASSUME NEW s \in Session, link'[s] = "open", Halfway(r, s)'
         PROVE  Begun(r, s)' \/ Precedes(r, s, Len(wire[s]))'
    <2>1. s = c /\ Len(wire'[s]) = n + 1
      BY <1>3, <1>5, <1>10
    <2>2. CASE r # q
      <3>1. Halfway(r, s)
        BY <2>2, <1>10
      <3>2. Begun(r, c) \/ Precedes(r, c, n)
        BY <3>1, <2>1, <1>1, <1>3 DEF Ordered
      <3>3. Begun(r, c)' \/ Precedes(r, c, n + 1)'
        BY <3>2, <1>1, <1>3, <1>6
      <3> QED
        BY <3>3, <2>1
    <2>3. CASE r = q
      <3>1. Begun(r, c)' \/ Precedes(r, c, n + 1)'
        BY <2>3, <1>1, <1>3, <1>6, <1>7, <1>8 DEF Chunk
      <3> QED
        BY <3>1, <2>1
    <2> QED
      BY <2>2, <2>3
  <1> QED
    BY <1>1, <1>9, <1>10 DEF Ordered

\* The arrival of a first chunk begins an answer, that of the last completes it.
LEMMA Arrival ==
  ASSUME KeptInv, NEW s \in Session, Receive(s),
         NEW q \in Request, NEW i \in Chunk, Head(wire[s]) = <<q, i>>
  PROVE  /\ \A r \in Request : r # q =>
              /\ future'[r] = future[r] /\ collected'[r] = collected[r]
              /\ orphan'[r] = orphan[r]
         /\ \A r \in Request : /\ Kept(r) => Kept(r)'
                               /\ r # q => (Kept(r)' <=> Kept(r))
         /\ q \notin mishap' /\ ~Kept(q) /\ i = 1 =>
              /\ Begun(q, s)' /\ \A t \in Session : Begun(q, t) => Begun(q, t)'
              /\ 2 \notin orphan'[q] /\ 2 \notin collected'[q]
         /\ q \notin mishap' /\ i = 2 => Kept(q)'
  <1> USE DEF KeptInv, TypeOK, RequestsTyped
  <1>1. LinksTyped /\ wire[s] # <<>> /\ wire' = [wire EXCEPT ![s] = Tail(@)]
    BY DEF Receive
  <1>2. 1 \in DOMAIN wire[s] /\ wire[s][1] = <<q, i>>
    BY <1>1, Taken
  <1>3. \/ future[q] = NoSession /\ Stash(q, i) /\ UNCHANGED mishap
        \/ future[q] = s /\ Collect(q, i) /\ UNCHANGED mishap
        \/ q \in mishap' /\ UNCHANGED <<requestVars, cacheVars>>
    BY DEF Receive
  <1>4. ASSUME q \notin mishap, ~Kept(q)
        PROVE  /\ i = 2 => Begun(q, s)
               /\ 2 \notin orphan[q] /\ 2 \notin collected[q]
    BY <1>2, <1>4 DEF InOrder, Ordered, Precedes
  <1>5. s # NoSession
    BY DEF Session, NoSession
  <1>6. CASE future[q] = NoSession /\ Stash(q, i) /\ UNCHANGED mishap
    <2>1. /\ UNCHANGED requestVars /\ stored \subseteq stored'
          /\ \A r \in Request : r # q => orphan'[r] = orphan[r]
                                         /\ (r \in stored' <=> r \in stored)
      BY <1>6 DEF Stash
    <2>2. CASE i = 1
      <3>1. orphan' = [orphan EXCEPT ![q] = orphan[q] \cup {1}] /\ UNCHANGED stored
        BY <1>6, <2>2 DEF Stash
      <3> QED
        BY <1>4, <1>6, <2>1, <2>2, <3>1 DEF Begun, Kept, requestVars
    <2>3. CASE i = 2
      <3>1. q \notin mishap /\ ~Kept(q) => orphan[q] = {1}
        BY <1>4, <1>5, <1>6, <2>3 DEF Begun, Chunk
      <3>2. q \notin mishap /\ ~Kept(q) => q \in stored'
        BY <3>1, <1>6, <2>3 DEF Stash, Chunk
      <3> QED
        BY <1>6, <2>1, <2>3, <3>2 DEF Kept, requestVars
    <2> QED
      BY <2>2, <2>3 DEF Chunk
  <1>7. CASE future[q] = s /\ Collect(q, i) /\ UNCHANGED mishap
    <2>1. /\ UNCHANGED cacheVars
          /\ wait'[q] \in {wait[q], "answered"}
          /\ \A r \in Request : r # q =>
               /\ future'[r] = future[r] /\ collected'[r] = collected[r]
               /\ wait'[r] = wait[r]
      BY <1>7 DEF Collect, Drop
    <2>2. CASE i = 1
      <3>1. /\ collected' = [collected EXCEPT ![q] = collected[q] \cup {1}]
            /\ UNCHANGED <<future, wait>>
        BY <1>7, <2>2 DEF Collect
      <3> QED
        BY <1>4, <1>5, <1>7, <2>1, <2>2, <3>1 DEF Begun, Kept, cacheVars
    <2>3. CASE i = 2
      <3>1. q \notin mishap /\ ~Kept(q) => collected[q] = {1}
        BY <1>4, <1>5, <1>7, <2>3 DEF Begun, Chunk
      <3>2. q \notin mishap /\ ~Kept(q) => wait'[q] = "answered"
        BY <3>1, <1>7, <2>3 DEF Collect, Chunk
      <3> QED
        BY <1>7, <2>1, <2>3, <3>2 DEF Kept, cacheVars
    <2> QED
      BY <2>2, <2>3 DEF Chunk
  <1>8. CASE q \in mishap' /\ UNCHANGED <<requestVars, cacheVars>>
    BY <1>8 DEF Kept, requestVars, cacheVars
  <1> QED
    BY <1>3, <1>6, <1>7, <1>8

LEMMA ReceiveOrder ==
  ASSUME KeptInv, NEW s \in Session, Receive(s)
  PROVE  InOrder'
  <1> SUFFICES ASSUME NEW r \in Request, r \notin mishap', ~Kept(r)'
               PROVE  Ordered(r)'
    BY DEF InOrder
  <1>1. LinksTyped /\ wire[s] # <<>> /\ wire' = [wire EXCEPT ![s] = Tail(@)]
    BY DEF Receive, KeptInv, TypeOK
  <1>2. PICK q \in Request, i \in Chunk : Head(wire[s]) = <<q, i>>
    <2>1. wire[s] \in Seq(Request \X Chunk)
      BY <1>1 DEF LinksTyped
    <2> QED
      BY <1>1, <2>1
  <1>3. r \notin mishap /\ UNCHANGED <<link, client, task, via, replay>>
    BY DEF Receive, clientVars
  <1>4. ~Kept(r) /\ Ordered(r)
    BY <1>2, <1>3, Arrival DEF KeptInv, InOrder
  <1>5. r = q => i = 1
    BY <1>2, Arrival DEF Chunk
  <1>6. /\ r = q => Begun(r, s)'
        /\ \A t \in Session : Begun(r, t) => Begun(r, t)'
        /\ 2 \notin orphan'[r] /\ 2 \notin collected'[r]
    <2>1. CASE r = q
      BY <1>2, <1>4, <1>5, <2>1, Arrival
    <2>2. CASE r # q
      BY <1>2, <1>4, <2>2, Arrival DEF Begun, Ordered
    <2> QED
      BY <2>1, <2>2
  <1>7. PICK n \in Nat : n = Len(wire[s]) /\ DOMAIN wire[s] = 1 .. n
    BY <1>1, WireLength
  <1>8. /\ Len(wire'[s]) = n - 1 /\ DOMAIN wire'[s] = 1 .. n - 1
        /\ \A k \in 1 .. n - 1 : wire'[s][k] = wire[s][k + 1]
        /\ 1 \in 1 .. n /\ wire[s][1] = <<q, i>>
        /\ \A t \in Session : t # s => wire'[t] = wire[t]
    BY <1>1, <1>2, <1>7, Taken
  <1>9. ASSUME NEW k \in 1 .. n, Precedes(r, s, k), r # q
        PROVE  Precedes(r, s, k - 1)'
    <2>1. PICK j \in 1 .. k : wire[s][j] = <<r, 1>>
      BY <1>9 DEF Precedes
    <2>2. j # 1
      BY <1>8, <1>9, <2>1
    <2>3. j - 1 \in 1 .. k - 1 /\ j - 1 \in 1 .. n - 1 /\ (j - 1) + 1 = j
      BY <2>1, <2>2
    <2>4. wire'[s][j - 1] = <<r, 1>>
      BY <1>8, <2>1, <2>3
    <2> QED
      BY <2>3, <2>4 DEF Precedes
  <1>10. ASSUME NEW t \in Session, NEW k \in DOMAIN wire'[t],
                wire'[t][k] = <<r, 2>>
         PROVE  Begun(r, t)' \/ Precedes(r, t, k - 1)'
    <2>1. CASE t # s
      <3>1. wire'[t] = wire[t] /\ k \in DOMAIN wire[t] /\ wire[t][k] = <<r, 2>>
        BY <1>8, <1>10, <2>1
      <3>2. Begun(r, t) \/ Precedes(r, t, k - 1)
        BY <1>4, <3>1 DEF Ordered
      <3> QED
        BY <1>6, <3>1, <3>2 DEF Precedes
    <2>2. CASE t = s /\ r # q
      <3>1. k \in 1 .. n - 1 /\ k + 1 \in 1 .. n /\ wire[s][k + 1] = <<r, 2>>
        BY <1>7, <1>8, <1>10, <2>2
      <3>2. Begun(r, s) \/ Precedes(r, s, k)
        BY <1>4, <1>7, <3>1 DEF Ordered
      <3>3. k \in 1 .. n
        BY <3>1
      <3> QED
        BY <1>6, <1>9, <2>2, <3>2, <3>3
    <2> QED
      BY <1>6, <2>1, <2>2
  <1>11. ASSUME NEW t \in Session, link'[t] = "open", Halfway(r, t)'
         PROVE  Begun(r, t)' \/ Precedes(r, t, Len(wire[t]))'
    <2>1. Begun(r, t) \/ Precedes(r, t, Len(wire[t]))
      BY <1>3, <1>4, <1>11 DEF Ordered, Halfway
    <2>2. CASE t # s
      BY <1>6, <1>8, <2>1, <2>2 DEF Precedes
    <2>3. CASE t = s /\ r # q
      <3>1. n \in 1 .. n
        BY <1>8
      <3>2. Begun(r, s)' \/ Precedes(r, s, n - 1)'
        BY <1>6, <1>7, <1>9, <2>1, <2>3, <3>1
      <3> QED
        BY <1>8, <2>3, <3>2
    <2> QED
      BY <1>6, <2>2, <2>3
  <1> QED
    BY <1>6, <1>10, <1>11 DEF Ordered

LEMMA EndpointOrder ==
  ASSUME KeptInv, NEW s \in Session, Endpoint(s)
  PROVE  InOrder'
  <1> USE DEF KeptInv, TypeOK, RequestsTyped, LinksTyped, requestVars,
              cacheVars, linkVars, clientVars
  <1>1. CASE Announce(s) \/ MarkOffline(s)
    <2>1. UNCHANGED <<requestVars, cacheVars, linkVars, clientVars, mishap>>
      BY <1>1 DEF Announce, MarkOffline
    <2> QED
      BY <2>1, OrderStands DEF Halfway, Begun, Kept
  <1>2. CASE AnnounceFails(s)
    <2>1. /\ UNCHANGED <<requestVars, cacheVars, clientVars>>
          /\ mishap \subseteq mishap'
          /\ wire' = [wire EXCEPT ![s] = <<>>]
          /\ link' = [link EXCEPT ![s] = "closed"]
      BY <1>2 DEF AnnounceFails, Loses, Closed
    <2> QED
      BY <2>1, OrderStands DEF Halfway, Begun, Kept
  <1>3. CASE Receive(s)
    BY <1>3, ReceiveOrder
  <1>4. CASE End(s)
    <2>1. /\ UNCHANGED <<cacheVars, clientVars>> /\ mishap \subseteq mishap'
          /\ wire' = [wire EXCEPT ![s] = <<>>]
          /\ link' = [link EXCEPT ![s] = "closed"]
      BY <1>4 DEF End, Loses, Closed
    <2>2. \A q \in Request :
            /\ wait[q] = "answered" => wait'[q] = "answered"
            /\ collected'[q] \in {collected[q], {}}
            /\ future[q] # s => future'[q] = future[q] /\ collected'[q] = collected[q]
      BY <1>4 DEF End, Cancelled
    <2>3. \A q \in Request : Kept(q) => Kept(q)'
      BY <2>1, <2>2 DEF Kept
    <2>4. DOMAIN wire'[s] = {} /\ link'[s] = "closed"
      BY <2>1
    <2>5. \A t \in Session : wire'[t] \in {wire[t], <<>>}
      BY <2>1
    <2>6. s # NoSession
      BY DEF Session, NoSession
    <2>7. \A q \in Request, t \in Session :
            t # s /\ Begun(q, t) => Begun(q, t)'
      BY <2>1, <2>2, <2>6 DEF Begun
    <2>8. \A q \in Request, t \in Session :
            link'[t] = "open" /\ Halfway(q, t)'
              => wire'[t] = wire[t] /\ link[t] = "open" /\ Halfway(q, t)
      BY <2>1 DEF Halfway
    <2> QED
      BY <2>1, <2>2, <2>3, <2>4, <2>5, <2>7, <2>8, OrderStands
  <1> QED
    BY <1>1, <1>2, <1>3, <1>4 DEF Endpoint

LEMMA SendMessageOrder ==
  ASSUME KeptInv, NEW q \in Request, SendMessage(q)
  PROVE  InOrder'
  <1> USE DEF KeptInv, TypeOK, RequestsTyped, LinksTyped, ClientTyped,
              requestVars, cacheVars, linkVars, clientVars
  <1>1. /\ UNCHANGED <<linkVars, cacheVars, client, via, replay>>
        /\ mishap \subseteq mishap'
        /\ \A p \in Request : collected'[p] \in {collected[p], {}}
        /\ \A p \in Request : p # q =>
             /\ future'[p] = future[p] /\ collected'[p] = collected[p]
             /\ wait'[p] = wait[p] /\ task'[p] = task[p]
        /\ wait[q] # "answered"
    BY DEF SendMessage, Register, SendRest, TimeOut, Drop
  <1>2. \A p \in Request : Kept(p) => Kept(p)'
    BY <1>1 DEF Kept
  <1>3. \A p \in Request, s \in Session : p # q =>
          (Begun(p, s)' <=> Begun(p, s)) /\ (Halfway(p, s)' <=> Halfway(p, s))
    BY <1>1 DEF Begun, Halfway
  <1>4. CASE Register(q) \/ SendRest(q)
    <2>1. wait[q] \in {"idle", "sending"} /\ task'[q] # "sending"
      BY <1>4 DEF Register, SendRest, Untouched
    <2>2. /\ replay[q] = "none"
          /\ \A s \in Session : \A i \in DOMAIN wire[s] : wire[s][i][1] # q
      BY <2>1 DEF Untouched
    <2>3. \A s \in Session : /\ ~Halfway(q, s)'
                             /\ \A i \in DOMAIN wire'[s] : wire'[s][i] # <<q, 2>>
      BY <1>1, <2>1, <2>2 DEF Halfway
    <2> QED
      BY <1>1, <1>2, <1>3, <2>3, OrderStands
  <1>5. CASE TimeOut(q)
    <2>1. UNCHANGED task /\ future'[q] = NoSession
          /\ (q \notin mishap' => collected[q] = {})
      BY <1>5 DEF TimeOut, Drop
    <2>2. \A s \in Session : /\ Halfway(q, s)' => Halfway(q, s)
                             /\ q \notin mishap' /\ Begun(q, s) => Begun(q, s)'
      BY <1>1, <2>1 DEF Begun, Halfway
    <2> QED
      BY <1>1, <1>2, <1>3, <2>2, OrderStands
  <1> QED
    BY <1>4, <1>5 DEF SendMessage

LEMMA ClientOrder ==
  ASSUME KeptInv, Client
  PROVE  InOrder'
  <1> USE DEF KeptInv, TypeOK, RequestsTyped, LinksTyped, ClientTyped,
              requestVars, cacheVars, linkVars, clientVars
  <1>1. CASE ReplayEnds \/ ClientNotices
    <2>1. /\ UNCHANGED <<requestVars, cacheVars, linkVars, task, via, mishap>>
          /\ \/ \A q \in Request : replay'[q] = "none"
             \/ client' = NoSession
      BY <1>1 DEF ReplayEnds, ClientNotices
    <2>2. \A q \in Request, s \in Session : Halfway(q, s)' => Halfway(q, s)
      BY <2>1 DEF Halfway, Session, NoSession
    <2> QED
      BY <2>1, <2>2, OrderStands DEF Begun, Kept
  <1>2. ASSUME NEW q \in Request,
               Answer(q) \/ AnswerRest(q) \/ Replay(q) \/ ReplayRest(q)
        PROVE  InOrder'
    <2>1. /\ UNCHANGED <<requestVars, cacheVars, link>>
          /\ mishap \subseteq mishap'
      BY <1>2, SendPuts
    <2>2. \A r \in Request, s \in Session :
            r # q /\ Halfway(r, s)' => Halfway(r, s)
      BY <1>2 DEF Answer, AnswerRest, Replay, ReplayRest, FailToSend, Halfway
    <2>3. CASE /\ UNCHANGED wire
               /\ \A s \in Session :
                    link[s] = "open" /\ Halfway(q, s)' => Halfway(q, s)
      BY <2>1, <2>2, <2>3, OrderStands DEF Begun, Kept
    <2>4. ASSUME client \in Session, link[client] = "open",
                 NEW i \in Chunk, Put(client, q, i), i = 2 => Halfway(q, client)
          PROVE  InOrder'
      <3>1. wire' = [wire EXCEPT ![client] = Append(@, <<q, i>>)]
        BY <2>4 DEF Put
      <3> QED
        BY <2>1, <2>2, <2>4, <3>1, OrderGrows
    <2>5. \/ /\ UNCHANGED wire
             /\ \A s \in Session : Halfway(q, s)' => Halfway(q, s)
          \/ /\ CanSend(client)
             /\ \/ Put(client, q, 1)
                \/ Put(client, q, 2) /\ Halfway(q, client)
             /\ \A s \in Session : s # client /\ Halfway(q, s)' => Halfway(q, s)
      BY <1>2 DEF Answer, AnswerRest, Replay, ReplayRest, FailToSend, PutLast,
                  CanSend, Halfway
    <2>6. CASE CanSend(client) /\ link[client] # "open"
      <3>1. CASE Put(client, q, 1) \/ Put(client, q, 2)
        BY <2>3, <2>5, <2>6, <3>1 DEF Put
      <3> QED
        BY <2>3, <2>5, <3>1
    <2>7. CASE CanSend(client) /\ link[client] = "open"
      <3>1. client \in Session
        BY <2>7 DEF CanSend, LinkOf
      <3> QED
        BY <2>3, <2>4, <2>5, <2>7, <3>1 DEF Chunk
    <2> QED
      BY <2>3, <2>5, <2>6, <2>7
  <1> QED
    BY <1>1, <1>2 DEF Client

LEMMA InOrderStep ==
  ASSUME KeptInv, [Next]_vars
  PROVE  InOrder'
  <1> USE DEF KeptInv, TypeOK, ServerTyped, RequestsTyped, LinksTyped,
              ClientTyped, requestVars, cacheVars, linkVars, clientVars
  <1>1. CASE Connect
    <2>1. UNCHANGED <<future, collected, wait, orphan, stored, wire, task, via, mishap>>
      BY <1>1 DEF Connect
    <2>2. \A q \in Request : replay'[q] \in {"todo", "none"}
      BY <1>1 DEF Connect
    <2>3. \A s \in Session : link'[s] = "open" => s = opened + 1 \/ link[s] = "open"
      BY <1>1 DEF Connect
    <2>4. ASSUME NEW q \in Request, NEW s \in Session,
                 link'[s] = "open", Halfway(q, s)'
          PROVE  link[s] = "open" /\ Halfway(q, s)
      <3>1. replay'[q] # "sending"
        BY <2>2
      <3>2. task[q] = "sending" /\ via[q] = s
        BY <2>1, <2>4, <3>1 DEF Halfway
      <3>3. loop[s] # "none"
        BY <3>2 DEF Retained
      <3>4. s # opened + 1
        BY <1>1, <3>3, FreshStart
      <3> QED
        BY <2>3, <2>4, <3>2, <3>4 DEF Halfway
    <2> QED
      BY <2>1, <2>4, OrderStands DEF Begun, Kept
  <1>2. CASE Heartbeat
    <2>1. /\ UNCHANGED <<requestVars, cacheVars, wire, clientVars, mishap>>
          /\ \A s \in Session : link'[s] = "open" => link[s] = "open"
      BY <1>2, HeartbeatHangsUp
    <2> QED
      BY <2>1, OrderStands DEF Begun, Kept, Halfway
  <1>3. ASSUME NEW s \in Session, Break(s) \/ FallSilent(s) PROVE InOrder'
    <2>1. /\ UNCHANGED <<requestVars, cacheVars, clientVars>>
          /\ mishap \subseteq mishap'
          /\ link'[s] # "open"
          /\ \A t \in Session : t # s => link'[t] = link[t] /\ wire'[t] = wire[t]
          /\ wire'[s] \in {wire[s], <<>>}
      BY <1>3 DEF Break, FallSilent, Loses, Closed
    <2> QED
      BY <2>1, OrderStands DEF Begun, Kept, Halfway
  <1>4. CASE UNCHANGED vars
    BY <1>4, OrderStands DEF vars, Begun, Kept, Halfway
  <1> QED
    BY <1>1, <1>2, <1>3, <1>4, EndpointOrder, SendMessageOrder, ClientOrder
    DEF Next, Network

\* What has arrived stays.
LEMMA KeptStays ==
  ASSUME KeptInv, [Next]_vars, NEW r \in Request, Kept(r)
  PROVE  Kept(r)'
  <1> USE DEF KeptInv, TypeOK, RequestsTyped, requestVars, cacheVars, Kept
  <1>1. CASE Connect
    BY <1>1 DEF Connect
  <1>2. ASSUME NEW s \in Session, Endpoint(s) PROVE Kept(r)'
    <2>1. CASE Announce(s) \/ AnnounceFails(s) \/ MarkOffline(s)
      BY <2>1 DEF Announce, AnnounceFails, MarkOffline
    <2>2. CASE Receive(s)
      <3>1. PICK q \in Request, i \in Chunk :
              Stash(q, i) \/ Collect(q, i) \/ UNCHANGED <<requestVars, cacheVars>>
        BY <2>2, WireHead DEF Receive
      <3> QED
        BY <3>1 DEF Stash, Collect
    <2>3. CASE End(s)
      BY <2>3 DEF End
    <2> QED
      BY <1>2, <2>1, <2>2, <2>3 DEF Endpoint
  <1>3. CASE Heartbeat
    BY <1>3, HeartbeatHangsUp
  <1>4. ASSUME NEW q \in Request, SendMessage(q) PROVE Kept(r)'
    BY <1>4 DEF SendMessage, Register, SendRest, TimeOut
  <1>5. CASE Client
    BY <1>5, ClientPuts
  <1>6. CASE Network
    BY <1>6 DEF Network, Break, FallSilent
  <1>7. CASE UNCHANGED vars
    BY <1>7 DEF vars
  <1> QED
    BY <1>1, <1>2, <1>3, <1>4, <1>5, <1>6, <1>7 DEF Next

\* A last chunk that has been sent is on its way until the answer has arrived,
\* or is lost by a mishap.
LEMMA SentIsKept ==
  ASSUME KeptInv, [Next]_vars, NEW r \in Request, r \notin mishap',
         Kept(r) \/ Sent(r)
  PROVE  Kept(r)' \/ Sent(r)'
  <1> SUFFICES ASSUME Sent(r) PROVE Kept(r)' \/ Sent(r)'
    BY KeptStays
  <1> USE DEF KeptInv, TypeOK, linkVars
  <1>0. PICK t \in Session : \E k \in DOMAIN wire[t] : wire[t][k] = <<r, 2>>
    BY DEF Sent
  <1>00. PICK k \in DOMAIN wire[t] : wire[t][k] = <<r, 2>>
    BY <1>0
  <1>1. ASSUME NEW s \in Session, Loses(s) PROVE Sent(r)'
    <2>1. t # s
      BY <1>00, <1>1 DEF Loses
    <2>2. wire'[t] = wire[t]
      BY <1>1, <2>1 DEF Loses, LinksTyped
    <2> QED
      BY <1>00, <2>2 DEF Sent
  <1>2. CASE UNCHANGED wire
    BY <1>00, <1>2 DEF Sent
  <1>3. ASSUME NEW s \in Session, Receive(s) PROVE Kept(r)' \/ Sent(r)'
    <2>1. wire[s] # <<>> /\ wire' = [wire EXCEPT ![s] = Tail(@)]
      BY <1>3 DEF Receive
    <2>2. PICK q \in Request, i \in Chunk : Head(wire[s]) = <<q, i>>
      <3>1. wire[s] \in Seq(Request \X Chunk)
        BY DEF LinksTyped
      <3> QED
        BY <2>1, <3>1
    <2>3. CASE t # s
      <3>1. wire'[t] = wire[t]
        BY <2>1, <2>3, Taken
      <3> QED
        BY <1>00, <3>1 DEF Sent
    <2>4. CASE t = s /\ k = 1
      <3>1. q = r /\ i = 2
        BY <1>00, <2>1, <2>2, <2>4, Taken
      <3> QED
        BY <1>3, <2>2, <3>1, Arrival
    <2>5. CASE t = s /\ k # 1
      <3>1. PICK n \in Nat : n = Len(wire[s]) /\ DOMAIN wire[s] = 1 .. n
        BY WireLength
      <3>2. k - 1 \in 1 .. n - 1 /\ (k - 1) + 1 = k
        BY <1>00, <2>5, <3>1
      <3>3. /\ DOMAIN wire'[s] = 1 .. n - 1
            /\ \A j \in DOMAIN wire'[s] : wire'[s][j] = wire[s][j + 1]
        BY <2>1, <3>1, Taken
      <3>4. k - 1 \in DOMAIN wire'[s] /\ wire'[s][k - 1] = <<r, 2>>
        BY <1>00, <2>5, <3>2, <3>3
      <3> QED
        BY <3>4 DEF Sent
    <2> QED
      BY <2>3, <2>4, <2>5
  <1>4. CASE Client
    <2>1. ASSUME NEW c \in Session, NEW q \in Request, NEW i \in Chunk,
                 wire' = [wire EXCEPT ![c] = Append(@, <<q, i>>)]
          PROVE  Sent(r)'
      <3>1. k \in DOMAIN wire'[t] /\ wire'[t][k] = wire[t][k]
        BY <2>1, Appended, WireLength
      <3> QED
        BY <1>00, <3>1 DEF Sent
    <2> QED
      BY <1>2, <1>4, <2>1, ClientPuts
  <1>5. CASE Heartbeat
    BY <1>2, <1>5, HeartbeatHangsUp
  <1> QED
    BY <1>1, <1>2, <1>3, <1>4, <1>5
    DEF Next, Connect, Endpoint, Announce, AnnounceFails, End, MarkOffline,
        SendMessage, Register, SendRest, TimeOut, Network, Break, FallSilent,
        vars

\* A last chunk just put on the wire is on its way, if its link is up.
LEMMA PutIsSent ==
  ASSUME KeptInv, NEW q \in Request, CanSend(client), PutLast(client, q),
         q \notin mishap'
  PROVE  Sent(q)'
  <1>1. PICK c \in Session : c = client /\ link[c] = "open"
    BY DEF CanSend, LinkOf, PutLast, KeptInv, TypeOK, ClientTyped
  <1>2. wire' = [wire EXCEPT ![c] = Append(@, <<q, 2>>)] /\ 2 \in Chunk
    BY <1>1 DEF PutLast, Put, Chunk
  <1>3. LinksTyped
    BY DEF KeptInv, TypeOK
  <1>4. PICK n \in Nat : n = Len(wire[c])
    BY <1>3, WireLength
  <1>5. /\ DOMAIN wire'[c] = 1 .. Len(wire[c]) + 1
        /\ wire'[c][Len(wire[c]) + 1] = <<q, 2>>
    BY <1>2, <1>3, Appended
  <1>6. n + 1 \in DOMAIN wire'[c] /\ wire'[c][n + 1] = <<q, 2>>
    BY <1>4, <1>5
  <1> QED
    BY <1>6 DEF Sent

\* Whoever sends an answer does so on a session that has been accepted.
LEMMA ViaStep ==
  ASSUME KeptInv, [Next]_vars, NEW q \in Request, task'[q] = "sending"
  PROVE  via'[q] # NoSession /\ loop'[via'[q]] # "none"
  <1> USE DEF KeptInv, TypeOK, ServerTyped, ClientTyped, serverVars, clientVars
  <1>1. CASE task[q] = "sending" /\ via'[q] = via[q]
    <2>1. via[q] \in Session /\ loop[via[q]] # "none"
      BY <1>1 DEF Retained
    <2> QED
      BY <1>1, <2>1, AheadStep DEF NoSession, Session
  <1>2. ASSUME NEW p \in Request, Answer(p)
        PROVE  via'[q] # NoSession /\ loop'[via'[q]] # "none"
    <2>1. CASE task[q] = "sending"
      BY <1>1, <1>2, <2>1 DEF Answer, FailToSend
    <2>2. CASE task[q] # "sending"
      <3>1. CanSend(client) /\ via'[q] = client /\ UNCHANGED loop
        BY <1>2, <2>2 DEF Answer, FailToSend
      <3>2. client \in Session /\ link[client] \in {"open", "silent"}
        BY <3>1 DEF CanSend, LinkOf
      <3>3. loop[client] # "none"
        BY <3>2 DEF Links
      <3> QED
        BY <3>1, <3>2, <3>3 DEF NoSession, Session
    <2> QED
      BY <2>1, <2>2
  <1>3. CASE ~\E p \in Request : Answer(p)
    <2>1. task[q] = "sending" /\ via'[q] = via[q]
      BY <1>3
      DEF Next, Connect, Heartbeat, Judge, Ping, PingReturns, RemoveAgent,
          WriteOffline, Client, ReplayEnds, ClientNotices, AnswerRest,
          FailToSend, Replay, ReplayRest, Network, Break, FallSilent, Endpoint,
          Announce, AnnounceFails, Receive, End, MarkOffline, SendMessage,
          Register, SendRest, TimeOut, vars
    <2> QED
      BY <1>1, <2>1
  <1> QED
    BY <1>2, <1>3

LEMMA RetainedStep ==
  ASSUME KeptInv, [Next]_vars
  PROVE  Retained'
  <1> USE DEF KeptInv, TypeOK, ClientTyped, clientVars
  <1> SUFFICES ASSUME NEW r \in Request, r \notin mishap'
               PROVE  /\ r \in outbox' /\ Replaying' => replay'[r] # "none"
                      /\ replay'[r] = "delivered" => Kept(r)' \/ Sent(r)'
                      /\ task'[r] = "done" => r \in outbox' \/ Kept(r)' \/ Sent(r)'
    BY ViaStep DEF Retained
  <1>1. Kept(r) \/ Sent(r) => Kept(r)' \/ Sent(r)'
    BY SentIsKept
  <1>2. /\ r \in outbox /\ Replaying => replay[r] # "none"
        /\ replay[r] = "delivered" => Kept(r) \/ Sent(r)
        /\ task[r] = "done" => r \in outbox \/ Kept(r) \/ Sent(r)
    BY MishapsStay DEF Retained
  <1>3. CASE /\ UNCHANGED <<outbox, replay>>
             /\ task'[r] = "done" => task[r] = "done"
    BY <1>1, <1>2, <1>3 DEF Replaying
  <1>4. CASE Connect
    BY <1>1, <1>2, <1>4 DEF Connect
  <1>5. CASE ReplayEnds
    <2>1. /\ Replaying /\ UNCHANGED task
          /\ \A q \in Request : replay'[q] = "none"
          /\ outbox' = {q \in Request : replay[q] \in {"todo", "sending"}}
      BY <1>5 DEF ReplayEnds
    <2>2. r \in outbox => r \in outbox' \/ replay[r] = "delivered"
      BY <1>2, <2>1
    <2> QED
      BY <1>1, <1>2, <2>1, <2>2 DEF Replaying
  <1>6. ASSUME NEW q \in Request, Answer(q) \/ AnswerRest(q)
        PROVE  /\ r \in outbox' /\ Replaying' => replay'[r] # "none"
               /\ replay'[r] = "delivered" => Kept(r)' \/ Sent(r)'
               /\ task'[r] = "done" => r \in outbox' \/ Kept(r)' \/ Sent(r)'
    <2>1. UNCHANGED replay /\ (Replaying' <=> Replaying)
      BY <1>6 DEF Answer, AnswerRest, Replaying
    <2>2. CASE FailToSend(q)
      BY <1>1, <1>2, <2>1, <2>2 DEF FailToSend, Enqueued
    <2>3. CASE ~FailToSend(q) /\ Answer(q)
      BY <1>1, <1>2, <2>1, <2>3 DEF Answer
    <2>4. CASE ~FailToSend(q) /\ AnswerRest(q)
      <3>1. /\ CanSend(client) /\ PutLast(client, q) /\ UNCHANGED outbox
            /\ task' = [task EXCEPT ![q] = "done"]
        BY <2>4 DEF AnswerRest, CanSend
      <3>2. r = q => Sent(q)'
        BY <3>1, PutIsSent
      <3> QED
        BY <1>1, <1>2, <2>1, <3>1, <3>2
    <2> QED
      BY <1>6, <2>2, <2>3, <2>4
  <1>7. ASSUME NEW q \in Request, Replay(q) \/ ReplayRest(q)
        PROVE  /\ r \in outbox' /\ Replaying' => replay'[r] # "none"
               /\ replay'[r] = "delivered" => Kept(r)' \/ Sent(r)'
               /\ task'[r] = "done" => r \in outbox' \/ Kept(r)' \/ Sent(r)'
    <2>1. Replaying /\ UNCHANGED <<task, outbox>>
      BY <1>7 DEF Replay, ReplayRest, Replaying
    <2>2. CASE Replay(q)
      BY <1>1, <1>2, <2>1, <2>2 DEF Replay
    <2>3. CASE ReplayRest(q)
      <3>1. CanSend(client) /\ PutLast(client, q)
            /\ replay' = [replay EXCEPT ![q] = "delivered"]
        BY <2>3 DEF ReplayRest
      <3>2. r = q => Sent(q)'
        BY <3>1, PutIsSent
      <3> QED
        BY <1>1, <1>2, <2>1, <3>1, <3>2
    <2> QED
      BY <1>7, <2>2, <2>3
  <1>8. ASSUME NEW q \in Request, SendMessage(q)
        PROVE  UNCHANGED <<outbox, replay>> /\ (task'[r] = "done" => task[r] = "done")
    BY <1>8 DEF SendMessage, Register, SendRest, TimeOut
  <1> QED
    BY <1>3, <1>4, <1>5, <1>6, <1>7, <1>8, HeartbeatHangsUp
    DEF Next, Client, ClientNotices, Network, Break, FallSilent, Endpoint,
        Announce, AnnounceFails, Receive, End, MarkOffline, vars

LEMMA KeptStep == KeptInv /\ [Next]_vars => KeptInv'
  BY TypeStep, AheadStep, LinksStep, UntouchedStep, InOrderStep, RetainedStep
  DEF KeptInv

\* For any number of requests and connections, and whatever breaks, falls
\* silent, times out or is taken over between any two steps of a send, an
\* answer or a replay: the answer of an executed request waits in the client's
\* file, is on its way to an endpoint that will read it, or has arrived, unless
\* it met one of the mishaps (_send_response_with_recovery,
\* _flush_pending_responses, handle_message, websocket_endpoint).
THEOREM AnswersAreKept == Spec => []AnswerKept
  <1>1. KeptInv => AnswerKept
    <2> SUFFICES ASSUME KeptInv, NEW q \in Request, task[q] = "done",
                        q \notin mishap, ~(q \in outbox \/ Kept(q))
                 PROVE  \E s \in Session : \E i \in DOMAIN wire[s] :
                          loop[s] \in Serving /\ wire[s][i] = <<q, 2>>
      BY DEF AnswerKept, Kept
    <2>1. PICK s \in Session : \E i \in DOMAIN wire[s] : wire[s][i] = <<q, 2>>
      BY DEF KeptInv, Retained, Sent
    <2>2. wire[s] # <<>>
      BY <2>1
    <2>3. loop[s] \in Serving
      BY <2>2 DEF KeptInv, Links
    <2> QED
      BY <2>1, <2>3
  <1> QED
    BY <1>1, KeptInit, KeptStep, PTL DEF Spec
=============================================================================
