------------------------------ MODULE BridgeHub ------------------------------
(***************************************************************************)
(* The server's end of the bridge: the hub with its sessions and pending   *)
(* calls (pkg/bridge/hub.go), the WebSocket handler of a connection        *)
(* (controller/bridge.go), the rows of clients and sessions                *)
(* (service/bridge.go, model/bridge.go), and the executor that forwards a  *)
(* tool call and goes on to the next session when one is gone              *)
(* (pkg/mcp/executor/remote_bridge.go, pkg/mcp/proxy/bridge_client.go).    *)
(*                                                                         *)
(* What runs under Hub.mu is one action.  The exception is                 *)
(* PushToolStreamChunk, which keeps the read lock while the channel of the *)
(* stream is full: until it gives up, nobody gets the write lock.          *)
(***************************************************************************)
EXTENDS Integers, Sequences, FiniteSets

CONSTANTS
    Clients,
    Conns,         \* connections, each with the session it registers
    ClientOf,      \* ClientOf[s]: client_id of connection s
    Calls,
    Streams,       \* calls forwarded with ForwardToolStream, to one session
    StreamCap,     \* capacity of the channel of a stream (256)
    OutboundCap    \* capacity of the channel outbound of a connection (32)

ASSUME HubAssumption ==
    /\ IsFiniteSet(Conns)
    /\ ClientOf \in [Conns -> Clients]
    /\ Streams \subseteq Calls
    /\ {"none", "reply", "note"} \cap (Conns \cup Calls) = {}
    /\ StreamCap \in Nat \ {0}
    /\ OutboundCap \in Nat \ {0}

VARIABLES
    conn,       \* conn[s]: position of the handler of the connection
    admin,      \* admin[s]: position of an administrator who closes the session
    rows,       \* session rows with status online
    online,     \* client rows with status online
    stray,      \* history: clients of which, since a registration last closed their rows,
                \* a statement failed or two registrations overlapped
    sessions,   \* Hub.sessions
    byClient,   \* Hub.byClient
    pending,    \* Hub.pending: the session of the call, or "none"
    response,   \* response[c]: content of the response channel of the attempt
    pc,         \* pc[c]: position of the goroutine that forwards c
    todo,       \* todo[c]: candidate sessions that were not tried
    target,     \* target[c]: session of the current attempt, or "none"
    outbound,   \* outbound[s]: calls in the channel
    given,      \* given[c][s]: number of times the client of s was sent c
    stream,     \* stream[c]: number of chunks in the channel of the stream
    pushing,    \* pushing[s]: what the reader of s waits for: room in a stream,
                \* room in its outbound channel ("reply"), or "none"
    outcome     \* outcome[c]

vars == <<conn, admin, rows, online, stray, sessions, byClient, pending, response, pc,
          todo, target, outbound, given, stream, pushing, outcome>>
rowVars  == <<rows, online, stray>>
hubVars  == <<sessions, byClient, pending, response>>
callVars == <<pc, todo, target, outcome>>
pipeVars == <<outbound, given, stream, pushing>>

Outcomes == {"result", "not_found", "denied", "disconnected", "canceled"}
Open == {"choosing", "sending", "reading", "waiting"}

TypeOK ==
    /\ conn \in [Conns -> {"new", "upserted", "replaced", "stored", "online", "lost",
                           "closing", "dropped", "marking", "gone"}]
    /\ admin \in [Conns -> {"none", "closing", "marking", "done"}]
    /\ rows \subseteq Conns
    /\ online \subseteq Clients
    /\ stray \subseteq Clients
    /\ sessions \subseteq Conns
    /\ byClient \in [Clients -> Conns \cup {"none"}]
    /\ pending \in [Calls -> Conns \cup {"none"}]
    /\ response \in [Calls -> {"none", "result", "disconnected"}]
    /\ pc \in [Calls -> Open \cup {"idle", "ended"}]
    /\ todo \in [Calls -> SUBSET Conns]
    /\ target \in [Calls -> Conns \cup {"none"}]
    /\ outbound \in [Conns -> Seq(Calls \cup {"note"})]
    /\ \A s \in Conns : Len(outbound[s]) <= OutboundCap
    /\ given \in [Calls -> [Conns -> 0..1]]
    /\ stream \in [Calls -> 0..StreamCap]
    /\ pushing \in [Conns -> Streams \cup {"reply", "none"}]
    /\ outcome \in [Calls -> Outcomes \cup {"none"}]

Init ==
    /\ conn = [s \in Conns |-> "new"]
    /\ admin = [s \in Conns |-> "none"]
    /\ rows = {}
    /\ online = {}
    /\ stray = {}
    /\ sessions = {}
    /\ byClient = [k \in Clients |-> "none"]
    /\ pending = [c \in Calls |-> "none"]
    /\ response = [c \in Calls |-> "none"]
    /\ pc = [c \in Calls |-> "idle"]
    /\ todo = [c \in Calls |-> {}]
    /\ target = [c \in Calls |-> "none"]
    /\ outbound = [s \in Conns |-> <<>>]
    /\ given = [c \in Calls |-> [s \in Conns |-> 0]]
    /\ stream = [c \in Calls |-> 0]
    /\ pushing = [s \in Conns |-> "none"]
    /\ outcome = [c \in Calls |-> "none"]

\* The write lock can be had: no reader holds the read lock for long.
LockFree == \A s \in Conns : pushing[s] \notin Streams

ConnAt(s, from, to) == conn[s] = from /\ conn' = [conn EXCEPT ![s] = to]

\* A statement on the rows of client k reports an error.
Fails(k) == stray' = stray \cup {k}

-----------------------------------------------------------------------------
(* A connection registers: statements on the rows, then the hub.  A statement that *)
(* reports an error may have taken effect; the handler returns.                    *)

UpsertBridgeClient(s) ==
    /\ \/ ConnAt(s, "new", "upserted") /\ online' = online \cup {ClientOf[s]} /\ UNCHANGED stray
       \/ /\ ConnAt(s, "new", "gone") /\ Fails(ClientOf[s])
          /\ online' \in {online, online \cup {ClientOf[s]}}
    /\ UNCHANGED <<admin, rows, hubVars, callVars, pipeVars>>

\* CloseActiveBridgeSessionsForClient.  From here the rows of the client say what they
\* should, whatever failed before.
ReplaceSessions(s) ==
    LET others == {t \in rows : ClientOf[t] # ClientOf[s]} IN
    /\ \/ ConnAt(s, "upserted", "replaced") /\ rows' = others /\ stray' = stray \ {ClientOf[s]}
       \/ ConnAt(s, "upserted", "gone") /\ rows' \in {rows, others} /\ Fails(ClientOf[s])
    /\ UNCHANGED <<admin, online, hubVars, callVars, pipeVars>>

\* Another connection of the client has created its row in between.
Overlaps(s) == \E t \in rows \ {s} : ClientOf[t] = ClientOf[s]

\* CreateBridgeSession and MarkBridgeClientOnline.  Only a registration that overlaps
\* can close the row and have the client marked offline between the two.
CreateBridgeSession(s) ==
    /\ ConnAt(s, "replaced", "stored")
    /\ rows' = rows \cup {s}
    /\ online' = online \cup {ClientOf[s]}
    /\ stray' = IF Overlaps(s) THEN stray \cup {ClientOf[s]} ELSE stray
    /\ UNCHANGED <<admin, hubVars, callVars, pipeVars>>

\* The insert fails and the client is marked offline, unless that fails too; or
\* MarkBridgeClientOnline fails and the row of the session stays.
RegistrationFails(s) ==
    /\ ConnAt(s, "replaced", "gone")
    /\ \/ online' = online \ {ClientOf[s]} /\ UNCHANGED <<rows, stray>>
       \/ /\ Fails(ClientOf[s])
          /\ rows' \in {rows, rows \cup {s}}
          /\ online' \in {online, online \ {ClientOf[s]}}
    /\ UNCHANGED <<admin, hubVars, callVars, pipeVars>>

\* failPendingForSessionLocked, for the sessions S.
FailPending(S) ==
    /\ pending' = [c \in Calls |-> IF pending[c] \in S THEN "none" ELSE pending[c]]
    /\ response' = [c \in Calls |-> IF pending[c] \in S THEN "disconnected" ELSE response[c]]

\* The connection of the session that is replaced is not told, and will not mark the
\* client when it ends: a row it still has is one of overlapping registrations.
Register(s) ==
    LET previous == {byClient[ClientOf[s]]} \ {"none"} IN
    /\ ConnAt(s, "stored", "online")
    /\ LockFree
    /\ sessions' = (sessions \ previous) \cup {s}
    /\ byClient' = [byClient EXCEPT ![ClientOf[s]] = s]
    /\ FailPending(previous)
    /\ stray' = IF Overlaps(s) THEN stray \cup {ClientOf[s]} ELSE stray
    /\ UNCHANGED <<admin, rows, online, callVars, pipeVars>>

-----------------------------------------------------------------------------
(* A connection ends. *)

\* ReadJSON fails, or Touch on a ping because the session is no longer in the hub.
Lose(s) ==
    /\ ConnAt(s, "online", "lost")
    /\ pushing[s] = "none"
    /\ UNCHANGED <<admin, rowVars, hubVars, callVars, pipeVars>>

\* CloseSession, the part under the lock; nothing if the session is not there.
Remove(s) ==
    /\ LockFree
    /\ sessions' = sessions \ {s}
    /\ byClient' = [byClient EXCEPT ![ClientOf[s]] = IF @ = s THEN "none" ELSE @]
    /\ FailPending(sessions \cap {s})

\* CloseBridgeClientSession, deferred by the handler.
CloseSession(s) ==
    /\ conn[s] = "lost"
    /\ conn' = [conn EXCEPT ![s] = IF s \in sessions THEN "closing" ELSE "dropped"]
    /\ Remove(s)
    /\ UNCHANGED <<admin, rowVars, callVars, pipeVars>>

\* Mutant: the row is left to the next registration of the client.
MutantCloseRow(s) ==
    /\ ConnAt(s, "closing", "marking") \/ ConnAt(s, "dropped", "gone")
    /\ UNCHANGED <<admin, rowVars, hubVars, callVars, pipeVars>>

\* After an error the client is not marked.
CloseRow(s) ==
    /\ \/ /\ ConnAt(s, "closing", "marking") \/ ConnAt(s, "dropped", "gone")
          /\ rows' = rows \ {s}
          /\ UNCHANGED stray
       \/ /\ ConnAt(s, "closing", "gone") \/ ConnAt(s, "dropped", "gone")
          /\ rows' \in {rows, rows \ {s}}
          /\ Fails(ClientOf[s])
    /\ UNCHANGED <<admin, online, hubVars, callVars, pipeVars>>

\* MarkBridgeClientOfflineIfNoOnlineSession, one statement; its error is ignored.
MarkOffline(k) ==
    \/ /\ online' = IF \E s \in rows : ClientOf[s] = k THEN online ELSE online \ {k}
       /\ UNCHANGED stray
    \/ Fails(k) /\ UNCHANGED online

MarkGone(s) ==
    /\ ConnAt(s, "marking", "gone")
    /\ MarkOffline(ClientOf[s])
    /\ UNCHANGED <<admin, rows, hubVars, callVars, pipeVars>>

\* CloseBridgeSessionForAdmin: the client is told, if there is room, and closes.
AdminCloseSession(s) ==
    /\ s \in sessions
    /\ Remove(s)
    /\ admin' = [admin EXCEPT ![s] = "closing"]
    /\ outbound' = IF Len(outbound[s]) < OutboundCap
                   THEN [outbound EXCEPT ![s] = Append(@, "note")] ELSE outbound
    /\ UNCHANGED <<conn, rowVars, callVars, given, stream, pushing>>

\* The client is marked afterwards also if this fails.
AdminCloseRow(s) ==
    /\ admin[s] = "closing"
    /\ admin' = [admin EXCEPT ![s] = "marking"]
    /\ \/ rows' = rows \ {s} /\ UNCHANGED stray
       \/ Fails(ClientOf[s]) /\ UNCHANGED rows
    /\ UNCHANGED <<conn, online, hubVars, callVars, pipeVars>>

AdminMarkOffline(s) ==
    /\ admin[s] = "marking"
    /\ admin' = [admin EXCEPT ![s] = "done"]
    /\ MarkOffline(ClientOf[s])
    /\ UNCHANGED <<conn, rows, hubVars, callVars, pipeVars>>

\* The same for a session that was not in the hub when the administrator's request
\* looked there: only its row is closed.
AdminCloseAbsent(s) ==
    /\ s \in rows
    /\ rows' = rows \ {s}
    /\ UNCHANGED <<conn, admin, online, stray, hubVars, callVars, pipeVars>>

-----------------------------------------------------------------------------
(* A call: the loop over the candidates, ForwardToolCall, ForwardToolStream. *)

EndCall(c, o) ==
    /\ pc' = [pc EXCEPT ![c] = "ended"]
    /\ outcome' = [outcome EXCEPT ![c] = o]
    /\ target' = [target EXCEPT ![c] = "none"]

\* SelectSessions: all that support the tool; a tunnel has one.
SelectSessions(c) ==
    /\ pc[c] = "idle"
    /\ pc' = [pc EXCEPT ![c] = "choosing"]
    /\ \E S \in SUBSET sessions :
          /\ S # {}
          /\ IF c \in Streams THEN Cardinality(S) = 1 ELSE S = sessions
          /\ todo' = [todo EXCEPT ![c] = S]
    /\ UNCHANGED <<conn, admin, rowVars, hubVars, pipeVars, target, outcome>>

\* The call is entered as pending, with a new response channel.
Forward(c, s) ==
    /\ pc[c] = "choosing"
    /\ s \in todo[c] \cap sessions
    /\ LockFree
    /\ todo' = [todo EXCEPT ![c] = @ \ {s}]
    /\ target' = [target EXCEPT ![c] = s]
    /\ pending' = [pending EXCEPT ![c] = s]
    /\ response' = [response EXCEPT ![c] = "none"]
    /\ pc' = [pc EXCEPT ![c] = "sending"]
    /\ UNCHANGED <<conn, admin, rowVars, sessions, byClient, pipeVars, outcome>>

\* The next candidate, or the end if there is none.
GoOn(c, o) ==
    IF todo'[c] # {}
    THEN pc' = [pc EXCEPT ![c] = "choosing"] /\ UNCHANGED <<target, outcome>>
    ELSE EndCall(c, o)

\* ErrClientNotFound, or the policy of the client does not allow the tool; an
\* error of the database ends the call, whatever candidates are left.
ForwardFails(c, s) ==
    /\ pc[c] = "choosing"
    /\ s \in todo[c]
    /\ \/ /\ todo' = [todo EXCEPT ![c] = @ \ {s}]
          /\ (s \notin sessions /\ LockFree /\ GoOn(c, "not_found")) \/ GoOn(c, "denied")
       \/ todo' = [todo EXCEPT ![c] = {}] /\ EndCall(c, "denied")
    /\ UNCHANGED <<conn, admin, rowVars, hubVars, pipeVars>>

\* The first select.  The session was read before: it may be gone by now.
Send(c) ==
    LET s == target[c] IN
    /\ pc[c] = "sending"
    /\ Len(outbound[s]) < OutboundCap
    /\ outbound' = [outbound EXCEPT ![s] = Append(@, c)]
    /\ pc' = [pc EXCEPT ![c] = IF c \in Streams THEN "reading" ELSE "waiting"]
    /\ UNCHANGED <<conn, admin, rowVars, hubVars, todo, target, given, stream, pushing, outcome>>

\* Mutant: the error in the response is not looked at.
MutantReceive(c) ==
    /\ pc[c] = "waiting" \/ (pc[c] = "reading" /\ stream[c] = 0)
    /\ response[c] # "none"
    /\ EndCall(c, "result")
    /\ UNCHANGED <<conn, admin, rowVars, sessions, byClient, pending, pipeVars, todo>>
    /\ response' = [response EXCEPT ![c] = "none"]

\* The response; the loop over the chunks ends when the channel is closed and empty.
Receive(c) ==
    /\ pc[c] = "waiting" \/ (pc[c] = "reading" /\ stream[c] = 0)
    /\ response[c] # "none"
    /\ response' = [response EXCEPT ![c] = "none"]
    /\ todo' = IF response[c] = "result" THEN [todo EXCEPT ![c] = {}] ELSE todo
    /\ UNCHANGED <<conn, admin, rowVars, sessions, byClient, pending, pipeVars>>
    /\ IF response[c] = "result" THEN EndCall(c, "result") ELSE GoOn(c, "disconnected")

\* Mutant: the call stays pending.
MutantCancel(c) ==
    /\ pc[c] \in {"sending", "reading", "waiting"}
    /\ LockFree
    /\ EndCall(c, "canceled")
    /\ todo' = [todo EXCEPT ![c] = {}]
    /\ UNCHANGED <<conn, admin, rowVars, hubVars, pipeVars>>

\* The context is done, or the loop over the chunks fails: removePending.
Cancel(c) ==
    /\ pc[c] \in {"sending", "reading", "waiting"}
    /\ LockFree
    /\ pending' = [pending EXCEPT ![c] = "none"]
    /\ stream' = [stream EXCEPT ![c] = 0]
    /\ EndCall(c, "canceled")
    /\ todo' = [todo EXCEPT ![c] = {}]
    /\ response' = [response EXCEPT ![c] = "none"]
    /\ UNCHANGED <<conn, admin, rowVars, sessions, byClient, outbound, given, pushing>>

\* SendToolStreamInput: a message to the session of the pending call.
SendToolStreamInput(c) ==
    LET s == pending[c] IN
    /\ c \in Streams
    /\ pc[c] \in {"reading", "waiting"}
    /\ s \in sessions
    /\ Len(outbound[s]) < OutboundCap
    /\ outbound' = [outbound EXCEPT ![s] = Append(@, "note")]
    /\ UNCHANGED <<conn, admin, rowVars, hubVars, callVars, given, stream, pushing>>

\* The consumer of the stream takes a chunk; after the last one it waits.
Consume(c) ==
    /\ pc[c] = "reading"
    /\ stream[c] > 0
    /\ stream' = [stream EXCEPT ![c] = @ - 1]
    /\ \E p \in {"reading", "waiting"} : pc' = [pc EXCEPT ![c] = p]
    /\ UNCHANGED <<conn, admin, rowVars, hubVars, todo, target, outcome, outbound, given, pushing>>

-----------------------------------------------------------------------------
(* The writer and the reader of a connection. *)

\* writeBridgeOutbound: the message reaches the client or is lost.
Write(s) ==
    /\ conn[s] \in {"online", "lost", "closing", "dropped", "marking"}
    /\ outbound[s] # <<>>
    /\ outbound' = [outbound EXCEPT ![s] = Tail(@)]
    /\ LET c == Head(outbound[s]) IN
       \/ c \in Calls /\ given' = [given EXCEPT ![c][s] = @ + 1]
       \/ UNCHANGED given
    /\ UNCHANGED <<conn, admin, rowVars, hubVars, callVars, stream, pushing>>

\* The reader of s has a message of its client about c.  The handler would take any
\* request id from any client: that a client answers only what it was sent is an
\* assumption on the clients.
Reads(s, c) == conn[s] = "online" /\ pushing[s] = "none" /\ given[c][s] > 0

\* tool_result or tool_error of a pending call, whichever session it went to.  The
\* response is sent after the unlock; until then only the reader can reach its channel.
OnToolResult(s, c) ==
    /\ Reads(s, c)
    /\ LockFree
    /\ pending[c] # "none"
    /\ pending' = [pending EXCEPT ![c] = "none"]
    /\ response' = [response EXCEPT ![c] = "result"]
    /\ UNCHANGED <<conn, admin, rowVars, sessions, byClient, callVars, pipeVars>>

\* A result or a chunk of a call that is not pending: the reader has to say so.
OnUnknown(s, c) ==
    /\ Reads(s, c)
    /\ pending[c] = "none"
    /\ pushing' = [pushing EXCEPT ![s] = "reply"]
    /\ UNCHANGED <<conn, admin, rowVars, hubVars, callVars, outbound, given, stream>>

\* A ping of a session that is in the hub, or a message that is answered with an
\* error, such as one of an unknown type.
OnPing(s) ==
    /\ conn[s] = "online"
    /\ pushing[s] = "none"
    /\ pushing' = [pushing EXCEPT ![s] = "reply"]
    /\ UNCHANGED <<conn, admin, rowVars, hubVars, callVars, outbound, given, stream>>

\* PushToolStreamChunk takes the read lock and keeps it.
OnToolStreamChunk(s, c) ==
    /\ Reads(s, c)
    /\ c \in Streams
    /\ pending[c] # "none"
    /\ pushing' = [pushing EXCEPT ![s] = c]
    /\ UNCHANGED <<conn, admin, rowVars, hubVars, callVars, outbound, given, stream>>

Push(s) ==
    LET c == pushing[s] IN
    /\ c \in Streams
    /\ stream[c] < StreamCap
    /\ stream' = [stream EXCEPT ![c] = @ + 1]
    /\ pushing' = [pushing EXCEPT ![s] = "none"]
    /\ UNCHANGED <<conn, admin, rowVars, hubVars, callVars, outbound, given>>

\* Mutant: the timer is started when there is room.
MutantPushTimesOut(s) ==
    /\ pushing[s] \in Streams
    /\ stream[pushing[s]] < StreamCap
    /\ pushing' = [pushing EXCEPT ![s] = "reply"]
    /\ UNCHANGED <<conn, admin, rowVars, hubVars, callVars, outbound, given, stream>>

\* After thirty seconds the chunk is dropped.
PushTimesOut(s) ==
    /\ pushing[s] \in Streams
    /\ pushing' = [pushing EXCEPT ![s] = "reply"]
    /\ UNCHANGED <<conn, admin, rowVars, hubVars, callVars, outbound, given, stream>>

Reply(s) ==
    /\ pushing[s] = "reply"
    /\ Len(outbound[s]) < OutboundCap
    /\ outbound' = [outbound EXCEPT ![s] = Append(@, "note")]
    /\ pushing' = [pushing EXCEPT ![s] = "none"]
    /\ UNCHANGED <<conn, admin, rowVars, hubVars, callVars, given, stream>>

-----------------------------------------------------------------------------
Handler(s) ==
    \/ UpsertBridgeClient(s)
    \/ ReplaceSessions(s)
    \/ CreateBridgeSession(s)
    \/ RegistrationFails(s)
    \/ Register(s)
    \/ Lose(s)
    \/ CloseSession(s)
    \/ CloseRow(s)
    \/ MarkGone(s)
    \/ AdminCloseSession(s)
    \/ AdminCloseRow(s)
    \/ AdminMarkOffline(s)
    \/ AdminCloseAbsent(s)
    \/ Write(s)
    \/ Push(s)
    \/ PushTimesOut(s)
    \/ Reply(s)
    \/ OnPing(s)
    \/ \E c \in Calls : OnToolResult(s, c) \/ OnUnknown(s, c) \/ OnToolStreamChunk(s, c)

Choose(c) == \E s \in Conns : Forward(c, s) \/ ForwardFails(c, s)

Caller(c) ==
    \/ SelectSessions(c)
    \/ Choose(c)
    \/ Send(c)
    \/ Receive(c)
    \/ Cancel(c)
    \/ SendToolStreamInput(c)
    \/ Consume(c)

Next == (\E s \in Conns : Handler(s)) \/ (\E c \in Calls : Caller(c))

Spec == Init /\ [][Next]_vars

\* Calls of RemoteBridgeExecutor, whose context has a deadline.
Timed == Calls \ Streams

\* A goroutine that wants the write lock gets it, for RWMutex holds back new
\* readers; timers fire.  Nothing is assumed of connections and clients.
FairSpec ==
    /\ Spec
    /\ \A c \in Timed : SF_vars(Choose(c)) /\ SF_vars(Cancel(c)) /\ WF_vars(Receive(c))
    /\ \A s \in Conns : WF_vars(PushTimesOut(s))

-----------------------------------------------------------------------------
\* Register, CloseSession and the closing of an administrator keep the two maps
\* of the hub in step: a session is there exactly if it is the one of its client.
HubConsistent ==
    \A s \in Conns : s \in sessions <=> byClient[ClientOf[s]] = s

\* A pending call has a caller that waits for it and a session in the hub, and no
\* response; a caller whose call is no longer pending has a response to read.
\* So ForwardToolCall cannot wait for an answer that nobody will give, the
\* channel of capacity one never blocks a holder of the lock, and no entry leaks.
PendingExact ==
    \A c \in Calls :
        /\ pending[c] # "none" =>
              /\ pc[c] \in {"sending", "reading", "waiting"}
              /\ response[c] = "none"
              /\ pending[c] = target[c]
              /\ pending[c] \in sessions
        /\ pc[c] \in {"sending", "reading", "waiting"} /\ pending[c] = "none" =>
              response[c] # "none"

\* PushToolStreamChunk never sends on a channel that was closed: the stream on
\* which a reader waits is pending.
PushSafe ==
    \A s \in Conns : pushing[s] \in Streams => pending[pushing[s]] # "none"

\* Hub: its maps, pending calls and channels are consistent in every state between
\* two holders of the lock; in addition no channel holds more than its capacity.
HubInv == TypeOK /\ HubConsistent /\ PendingExact /\ PushSafe

\* A client whose connections are all closed is shown as offline, whatever the order
\* of replacement, loss and closing by an administrator.  The exceptions: registrations
\* of the client overlapped, or a statement reported an error, when registering (upsert,
\* close of old sessions, insert and both marks) or when closing (row and mark, by the
\* handler or by an administrator).  They last until the client registers again: the
\* next registration that closes its old sessions makes up for all of them.
OfflineWhenQuiet ==
    \A k \in Clients :
        /\ \A s \in Conns : ClientOf[s] = k =>
              conn[s] \in {"new", "gone"} /\ admin[s] \in {"none", "done"}
        /\ k \notin stray
        => k \notin online

Abstract == INSTANCE BridgeCalls WITH
    Sessions <- Conns,
    Answers <- {"result"},
    state <- [c \in Calls |-> IF pc[c] \in Open THEN "open" ELSE pc[c]]

\* The hub and its callers implement BridgeCalls: a call ends once and for good, with
\* an answer only if some client was sent it, and no session is sent it twice,
\* through failover, replaced connections, late answers and lost messages.
Implements == Abstract!CallsSpec

\* A call of RemoteBridgeExecutor ends, though connections stall, clients are silent
\* and a reader keeps the lock of the hub while its stream is full.
EveryCallEnds == Abstract!EveryCallEnds
=============================================================================
