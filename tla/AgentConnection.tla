--------------------------- MODULE AgentConnection ---------------------------
(***************************************************************************)
(* The WebSocket between the server and one desktop Agent.                  *)
(*                                                                         *)
(* Server: the endpoint coroutine of every connection, the registry of     *)
(* sessions and the heartbeat task                                         *)
(* (module_qtr/controller/agent_controller.py), and the requests that wait *)
(* for an answer (module_qtr/service/agent_service.py).  Client: the       *)
(* answers, and the file of answers that could not be sent                 *)
(* (client_new/server/agent_server.py).                                    *)
(*                                                                         *)
(* Sessions are numbered in the order of their acceptance; requests and    *)
(* answers have two chunks.  The registry dictionaries of one Agent always *)
(* change together and are one variable.  Every await at which another     *)
(* coroutine can see half of a change ends an action.                      *)
(***************************************************************************)
EXTENDS Naturals, Sequences, FiniteSets

CONSTANTS
  Request,       \* request ids, each sent once
  Connections    \* bound: how often the client connects

ASSUME ConnectionAssumption == Connections \in Nat

NoSession == 0
Session == 1 .. Connections
Chunk == 1 .. 2

VARIABLES
  opened,      \* connections accepted so far
  registry,    \* agent_connection_sessions: the session registered, or none
  tracked,     \* does agent_status hold the Agent?
  row,         \* is the database row of the Agent online?
  loop,        \* where the endpoint of each session stands
  heartbeat,   \* where the heartbeat task stands with this Agent
  future,      \* response_futures: the session each request waits on
  collected,   \* the answer chunks kept with that entry
  wait,        \* where each call of send_message stands
  orphan,      \* orphan_response_chunks
  stored,      \* requests whose answer is in the Redis result cache
  link,        \* state of the socket of each session
  wire,        \* answer chunks sent on it and not yet received
  client,      \* the session the client is connected with
  task,        \* what the client does for each request
  via,         \* the session it started sending the answer on
  outbox,      \* the file of pending answers
  replay,      \* progress of _flush_pending_responses
  mishap       \* history: requests whose answer met one of the mishaps that
               \* AnswerKept names

serverVars  == <<opened, registry, tracked, row, loop, heartbeat>>
requestVars == <<future, collected, wait>>
cacheVars   == <<orphan, stored>>
linkVars    == <<link, wire>>
clientVars  == <<client, task, via, outbox, replay>>
vars == <<serverVars, requestVars, cacheVars, linkVars, clientVars, mishap>>

\* An endpoint that has not run its finally clause yet.
Serving == {"accepted", "receiving", "leaving"}
Over == {"ended", "aborted"}
Loop == Serving \cup Over \cup {"none", "closing"}
Wait == {"idle", "sending", "waiting", "answered", "lost", "failed", "timeout"}

ServerTyped ==
  /\ opened \in 0 .. Connections
  /\ registry \in Session \cup {NoSession}
  /\ tracked \in BOOLEAN /\ row \in BOOLEAN
  /\ loop \in [Session -> Loop]
  /\ heartbeat \in {"idle", "judged", "pinging", "closing"}
RequestsTyped ==
  /\ future \in [Request -> Session \cup {NoSession}]
  /\ collected \in [Request -> SUBSET Chunk]
  /\ wait \in [Request -> Wait]
  /\ orphan \in [Request -> SUBSET Chunk]
  /\ stored \subseteq Request
LinksTyped ==
  /\ link \in [Session -> {"none", "open", "silent", "closed"}]
  /\ wire \in [Session -> Seq(Request \X Chunk)]
ClientTyped ==
  /\ client \in Session \cup {NoSession}
  /\ task \in [Request -> {"none", "half", "executing", "sending", "done"}]
  /\ via \in [Request -> Session \cup {NoSession}]
  /\ outbox \subseteq Request
  /\ replay \in [Request -> {"none", "todo", "sending", "delivered"}]
  /\ mishap \subseteq Request
TypeOK == ServerTyped /\ RequestsTyped /\ LinksTyped /\ ClientTyped

Init ==
  /\ opened = 0 /\ registry = NoSession
  /\ tracked = FALSE /\ row = FALSE
  /\ loop = [s \in Session |-> "none"]
  /\ heartbeat = "idle"
  /\ future = [q \in Request |-> NoSession]
  /\ collected = [q \in Request |-> {}]
  /\ wait = [q \in Request |-> "idle"]
  /\ orphan = [q \in Request |-> {}]
  /\ stored = {}
  /\ link = [s \in Session |-> "none"]
  /\ wire = [s \in Session |-> <<>>]
  /\ client = NoSession
  /\ task = [q \in Request |-> "none"]
  /\ via = [q \in Request |-> NoSession]
  /\ outbox = {}
  /\ replay = [q \in Request |-> "none"]
  /\ mishap = {}

----------------------------------------------------------------------------
(* Helpers.                                                                *)

At(s, place) == loop' = [loop EXCEPT ![s] = place]
Closed(s) == [link EXCEPT ![s] = "closed"]
\* The heartbeat closes the socket of the session it removes; the mutated form
\* only forgets the session.
LeaveOpen(s) == link
HangUp(s) == Closed(s)
\* owns_connection.
Owns(s) == registry = s
\* The entries the end of a session cancels; the mutated form spares those
\* of a session that has been taken over.
CancelledIfOwner(s) == {q \in Request : future[q] = s /\ registry = s}
Cancelled(s) == {q \in Request : future[q] = s}
LinkOf(s) == IF s = NoSession THEN "none" ELSE link[s]
Connected == LinkOf(registry) \in {"open", "silent"}
Drop(q) ==
  /\ future' = [future EXCEPT ![q] = NoSession]
  /\ collected' = [collected EXCEPT ![q] = {}]

\* Put a chunk on the wire; a silent link swallows it.  The mutated form counts
\* the chunks from the wrong end of the range.
PutNext(s, q, i) ==
  wire' = IF link[s] = "open" THEN [wire EXCEPT ![s] = Append(@, <<q, i + 1>>)]
                              ELSE wire
Put(s, q, i) ==
  wire' = IF link[s] = "open" THEN [wire EXCEPT ![s] = Append(@, <<q, i>>)]
                              ELSE wire
\* What is on the way on a session gets lost; an answer with its last chunk.
Loses(s) ==
  /\ wire' = [wire EXCEPT ![s] = <<>>]
  /\ mishap' = mishap \cup {q \in Request :
                               \E i \in DOMAIN wire[s] : wire[s][i] = <<q, 2>>}
\* The client's send_message raises unless its socket looks open.
CanSend(s) == client = s /\ LinkOf(s) \in {"open", "silent"}
Replaying == \E q \in Request : replay[q] # "none"
\* _enqueue_pending_response; the mutated form gives the answer up.
GiveUp(q) == outbox
Enqueued(q) == outbox \cup {q}

----------------------------------------------------------------------------
(* The endpoint of a session.                                              *)

\* accept() and connect(): the session is registered and the one before it
\* closed; the client starts replaying the file it loads now.
Connect ==
  LET s == opened + 1 IN
  /\ opened < Connections /\ client = NoSession /\ ~Replaying
  /\ opened' = s /\ registry' = s /\ tracked' = TRUE
  /\ At(s, "accepted")
  /\ link' = [t \in Session |-> CASE t = s -> "open"
                                  [] t = registry -> "closed"
                                  [] OTHER -> link[t]]
  /\ client' = s
  /\ replay' = [q \in Request |-> IF q \in outbox THEN "todo" ELSE "none"]
  /\ UNCHANGED <<row, heartbeat, requestVars, cacheVars, wire, task, via,
                 outbox, mishap>>

\* After the close of the old socket: the row is added or set online.
Announce(s) ==
  /\ loop[s] = "accepted"
  /\ row' = TRUE
  /\ At(s, "receiving")
  /\ UNCHANGED <<opened, registry, tracked, heartbeat, requestVars, cacheVars,
                 linkVars, clientVars, mishap>>

\* Writing the row raises outside the try: the endpoint is gone without its
\* finally clause, its registration stays.
AnnounceFails(s) ==
  /\ loop[s] = "accepted"
  /\ At(s, "aborted")
  /\ link' = Closed(s)
  /\ Loses(s)
  /\ UNCHANGED <<opened, registry, tracked, row, heartbeat, requestVars,
                 cacheVars, clientVars>>

\* A chunk nobody waits for: _stash_orphan_response_chunk.
Stash(q, i) ==
  LET got == orphan[q] \cup {i} IN
  /\ IF i \notin orphan[q] /\ i = 2 /\ got = Chunk
     THEN /\ orphan' = [orphan EXCEPT ![q] = {}]
          /\ stored' = stored \cup {q}
     ELSE /\ orphan' = [orphan EXCEPT ![q] = got]
          /\ UNCHANGED stored
  /\ UNCHANGED requestVars

\* A chunk for a pending entry of this session; the last one completes it.
Collect(q, i) ==
  LET got == collected[q] \cup {i} IN
  /\ IF i \notin collected[q] /\ i = 2 /\ got = Chunk
     THEN /\ Drop(q)
          /\ wait' = [wait EXCEPT ![q] = "answered"]
     ELSE /\ collected' = [collected EXCEPT ![q] = got]
          /\ UNCHANGED <<future, wait>>
  /\ UNCHANGED cacheVars

\* receive_text and the handling of one message.  A session that is no longer
\* registered notices at the top of the loop, after this message.
Receive(s) ==
  /\ loop[s] = "receiving" /\ wire[s] # <<>>
  /\ LET q == Head(wire[s])[1]
         i == Head(wire[s])[2] IN
     \/ future[q] = NoSession /\ Stash(q, i) /\ UNCHANGED mishap
     \/ future[q] = s /\ Collect(q, i) /\ UNCHANGED mishap
     \/ /\ future[q] \notin {NoSession, s}
        /\ mishap' = mishap \cup {q}
        /\ UNCHANGED <<requestVars, cacheVars>>
  /\ wire' = [wire EXCEPT ![s] = Tail(@)]
  /\ tracked' = TRUE
  /\ At(s, IF registry = s THEN "receiving" ELSE "leaving")
  /\ UNCHANGED <<opened, registry, row, heartbeat, link, clientVars>>

\* The loop ends and the finally clause runs up to its first await: the
\* pending entries of the session are cancelled, its registration is removed.
End(s) ==
  /\ \/ loop[s] = "leaving"
     \/ /\ loop[s] = "receiving" /\ link[s] = "closed"
        /\ wire[s] = <<>> \/ registry # s
  /\ wait' = [q \in Request |->
                IF q \in Cancelled(s) /\ wait[q] = "waiting" THEN "lost"
                                                             ELSE wait[q]]
  /\ future' = [q \in Request |->
                  IF q \in Cancelled(s) THEN NoSession ELSE future[q]]
  /\ collected' = [q \in Request |->
                     IF q \in Cancelled(s) THEN {} ELSE collected[q]]
  /\ IF Owns(s) THEN registry' = NoSession /\ At(s, "closing")
                ELSE UNCHANGED registry /\ At(s, "ended")
  /\ link' = Closed(s)
  /\ Loses(s)
  /\ UNCHANGED <<opened, tracked, row, heartbeat, cacheVars, clientVars>>

\* After the close of the socket, whoever is registered by now.
MarkOffline(s) ==
  /\ loop[s] = "closing"
  /\ row' = FALSE
  /\ At(s, "ended")
  /\ UNCHANGED <<opened, registry, tracked, heartbeat, requestVars, cacheVars,
                 linkVars, clientVars, mishap>>

----------------------------------------------------------------------------
(* The heartbeat task.                                                     *)

\* No message for HEARTBEAT_OFFLINE_SECONDS.
Silent ==
  /\ tracked
  /\ LinkOf(registry) \in {"none", "silent"}

\* The Agent is on the list of silent ones, behind another one whose removal
\* awaits the close of its socket.
Judge ==
  /\ heartbeat = "idle" /\ Silent
  /\ heartbeat' = "judged"
  /\ UNCHANGED <<opened, registry, tracked, row, loop, requestVars, cacheVars,
                 linkVars, clientVars, mishap>>

\* The ping on a dead link: the send blocks.
Ping ==
  /\ heartbeat = "idle"
  /\ LinkOf(registry) \in {"silent", "closed"}
  /\ heartbeat' = "pinging"
  /\ UNCHANGED <<opened, registry, tracked, row, loop, requestVars, cacheVars,
                 linkVars, clientVars, mishap>>

PingReturns ==
  /\ heartbeat = "pinging"
  /\ heartbeat' = "idle"
  /\ UNCHANGED <<opened, registry, tracked, row, loop, requestVars, cacheVars,
                 linkVars, clientVars, mishap>>

\* _remove_agent_connection, for an Agent judged silent or a ping that failed:
\* it removes the session that is registered now.
RemoveAgent ==
  /\ \/ heartbeat \in {"judged", "pinging"}
     \/ heartbeat = "idle" /\ Silent
  /\ tracked' = FALSE
  /\ IF registry = NoSession
     THEN /\ row' = FALSE
          /\ heartbeat' = "idle"
          /\ UNCHANGED <<registry, link>>
     ELSE /\ registry' = NoSession
          /\ link' = HangUp(registry)
          /\ heartbeat' = "closing"
          /\ UNCHANGED row
  /\ UNCHANGED <<opened, loop, requestVars, cacheVars, wire, clientVars, mishap>>

\* change_agent_status, after the close of the socket.
WriteOffline ==
  /\ heartbeat = "closing"
  /\ row' = FALSE
  /\ heartbeat' = "idle"
  /\ UNCHANGED <<opened, registry, tracked, loop, requestVars, cacheVars,
                 linkVars, clientVars, mishap>>

----------------------------------------------------------------------------
(* _send_message_on_agent_loop.                                            *)

\* The entry is created with the session registered now and the first chunk
\* sent on it; a closed socket fails the call.
Register(q) ==
  /\ wait[q] = "idle" /\ registry # NoSession
  /\ IF Connected
     THEN /\ future' = [future EXCEPT ![q] = registry]
          /\ wait' = [wait EXCEPT ![q] = "sending"]
          /\ task' = IF LinkOf(registry) = "open"
                     THEN [task EXCEPT ![q] = "half"] ELSE task
     ELSE /\ wait' = [wait EXCEPT ![q] = "failed"]
          /\ UNCHANGED <<future, task>>
  /\ UNCHANGED <<serverVars, collected, cacheVars, linkVars, client, via,
                 outbox, replay, mishap>>

\* The rest goes to the session registered by then.  An entry cancelled
\* meanwhile is noticed when the call starts to wait.
SendRest(q) ==
  /\ wait[q] = "sending"
  /\ IF Connected
     THEN /\ wait' = [wait EXCEPT ![q] =
                        IF future[q] = NoSession THEN "lost" ELSE "waiting"]
          /\ task' = IF LinkOf(registry) = "open" /\ task[q] = "half"
                     THEN [task EXCEPT ![q] = "executing"] ELSE task
          /\ UNCHANGED <<future, collected>>
     ELSE /\ wait' = [wait EXCEPT ![q] = "failed"]
          /\ Drop(q)
          /\ UNCHANGED task
  /\ UNCHANGED <<serverVars, cacheVars, linkVars, client, via, outbox, replay, mishap>>

\* The finally clause removes the entry and what it has collected.
TimeOut(q) ==
  /\ wait[q] = "waiting"
  /\ wait' = [wait EXCEPT ![q] = "timeout"]
  /\ Drop(q)
  /\ mishap' = IF collected[q] # {} THEN mishap \cup {q} ELSE mishap
  /\ UNCHANGED <<serverVars, cacheVars, linkVars, clientVars>>

----------------------------------------------------------------------------
(* The client.                                                             *)

\* The send of a chunk raises: the whole answer goes to the file, which a
\* replay under way will overwrite.
FailToSend(q) ==
  /\ outbox' = Enqueued(q)
  /\ task' = [task EXCEPT ![q] = "done"]
  /\ mishap' = IF Replaying THEN mishap \cup {q} ELSE mishap
  /\ UNCHANGED <<via, wire>>

\* The last chunk of an answer; a silent link swallows it.
PutLast(s, q) ==
  /\ Put(s, q, 2)
  /\ mishap' = IF link[s] = "open" THEN mishap ELSE mishap \cup {q}

\* _send_response_with_recovery: the first chunk of the answer.
Answer(q) ==
  /\ task[q] = "executing"
  /\ IF CanSend(client)
     THEN /\ Put(client, q, 1)
          /\ task' = [task EXCEPT ![q] = "sending"]
          /\ via' = [via EXCEPT ![q] = client]
          /\ UNCHANGED <<outbox, mishap>>
     ELSE FailToSend(q)
  /\ UNCHANGED <<serverVars, requestVars, cacheVars, link, client, replay>>

\* The last chunk; the end of the connection raises in a blocked send.
AnswerRest(q) ==
  /\ task[q] = "sending"
  /\ IF CanSend(via[q])
     THEN /\ PutLast(client, q)
          /\ task' = [task EXCEPT ![q] = "done"]
          /\ UNCHANGED <<via, outbox>>
     ELSE FailToSend(q)
  /\ UNCHANGED <<serverVars, requestVars, cacheVars, link, client, replay>>

\* _flush_pending_responses sends the entries it has loaded one by one.
Replay(q) ==
  /\ replay[q] = "todo" /\ CanSend(client)
  /\ \A p \in Request : replay[p] # "sending"
  /\ Put(client, q, 1)
  /\ replay' = [replay EXCEPT ![q] = "sending"]
  /\ UNCHANGED <<serverVars, requestVars, cacheVars, link, client, task, via,
                 outbox, mishap>>

ReplayRest(q) ==
  /\ replay[q] = "sending" /\ CanSend(client)
  /\ PutLast(client, q)
  /\ replay' = [replay EXCEPT ![q] = "delivered"]
  /\ UNCHANGED <<serverVars, requestVars, cacheVars, link, client, task, via,
                 outbox>>

\* All sent, or the connection is gone and every further send raises at once:
\* the file becomes what is left of the list that was loaded.
ReplayEnds ==
  /\ Replaying
  /\ \/ \A q \in Request : replay[q] \in {"none", "delivered"}
     \/ LinkOf(client) # "open"
  /\ outbox' = {q \in Request : replay[q] \in {"todo", "sending"}}
  /\ replay' = [q \in Request |-> "none"]
  /\ UNCHANGED <<serverVars, requestVars, cacheVars, linkVars, client, task,
                 via, mishap>>

\* recv raises, or the watchdog closes a silent link.
ClientNotices ==
  /\ LinkOf(client) \in {"silent", "closed"} /\ ~Replaying
  /\ client' = NoSession
  /\ UNCHANGED <<serverVars, requestVars, cacheVars, linkVars, task, via,
                 outbox, replay, mishap>>

----------------------------------------------------------------------------
(* The network.                                                            *)

\* The connection is closed in order: what was sent before can still be read.
\* A reset loses it.
Break(s) ==
  /\ link[s] = "open"
  /\ link' = Closed(s)
  /\ UNCHANGED <<wire, mishap>> \/ Loses(s)
  /\ UNCHANGED <<serverVars, requestVars, cacheVars, clientVars>>

\* The link dies and neither side is told.
FallSilent(s) ==
  /\ link[s] = "open"
  /\ link' = [link EXCEPT ![s] = "silent"]
  /\ UNCHANGED <<wire, mishap>> \/ Loses(s)
  /\ UNCHANGED <<serverVars, requestVars, cacheVars, clientVars>>

Endpoint(s) ==
  Announce(s) \/ AnnounceFails(s) \/ Receive(s) \/ End(s) \/ MarkOffline(s)
Heartbeat == Judge \/ Ping \/ PingReturns \/ RemoveAgent \/ WriteOffline
SendMessage(q) == Register(q) \/ SendRest(q) \/ TimeOut(q)
Client ==
  \/ ReplayEnds \/ ClientNotices
  \/ \E q \in Request : Answer(q) \/ AnswerRest(q) \/ Replay(q) \/ ReplayRest(q)
Network == \E s \in Session : Break(s) \/ FallSilent(s)

Next ==
  \/ Connect \/ Heartbeat \/ Client \/ Network
  \/ \E s \in Session : Endpoint(s)
  \/ \E q \in Request : SendMessage(q)

Spec == Init /\ [][Next]_vars

----------------------------------------------------------------------------
(* Properties.                                                             *)

\* A pending entry belongs to a session whose endpoint will still run its
\* finally clause, which cancels it: no call waits on a connection that is
\* already gone (websocket_endpoint's finally against send_message).  The one
\* exception is an endpoint that failed before its try block.
PendingHasEndpoint ==
  \A q \in Request :
    future[q] # NoSession => loop[future[q]] \in Serving \cup {"aborted"}

\* The answer of an executed request is not lost: it waits in the client's
\* file, is on its way to an endpoint that will read it, or has arrived.  It
\* is lost by one of five mishaps only: what is under way is lost with its
\* connection; a silent link swallows the last chunk; a chunk arrives over
\* another session than the one its call waits on; the call times out between
\* the chunks; the file is replayed when the answer is added to it.
\* Connections that break between the chunks, overlap, are taken over or
\* replayed lose nothing else (handle_message, send_message's finally,
\* _send_response_with_recovery, _flush_pending_responses).
AnswerKept ==
  \A q \in Request : task[q] = "done" /\ q \notin mishap =>
    \/ q \in outbox \/ q \in stored \/ wait[q] = "answered"
    \/ \E s \in Session : \E i \in DOMAIN wire[s] :
         loop[s] \in Serving /\ wire[s][i] = <<q, 2>>

\* The endpoints, the heartbeat and the senders go on; timeouts and the
\* client are not needed.
Fairness ==
  /\ \A s \in Session : /\ WF_vars(Announce(s)) /\ WF_vars(MarkOffline(s))
                        /\ WF_vars(Receive(s) \/ End(s))
  /\ \A q \in Request : WF_vars(SendRest(q))
  /\ WF_vars(RemoveAgent) /\ WF_vars(WriteOffline)
FairSpec == Spec /\ Fairness

\* Whoever waits on a connection that is lost, even one that fell silent, is
\* told so, whatever its own time limit is.
LossEndsWaits ==
  \A q \in Request : \A s \in Session :
    wait[q] = "waiting" /\ future[q] = s /\ link[s] # "open"
      ~> wait[q] # "waiting" \/ loop[s] = "aborted"
=============================================================================
