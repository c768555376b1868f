----------------------------- MODULE BridgeDaemon -----------------------------
(***************************************************************************)
(* The local bridge client (tools/bridge_client_daemon.mjs): its WebSocket *)
(* to the hub with the reconnect loop, the dispatch of messages, the       *)
(* limiter of concurrent tool calls, and streamed requests of the HTTP     *)
(* tunnel with the queue that carries the request body.                    *)
(*                                                                         *)
(* The program is one JavaScript process: what runs between two awaits is  *)
(* one action.  The hub is the environment: it sends each call once, on    *)
(* the connection that is open, and the parts of a streamed body after it, *)
(* in order (service/tunnel_http.go, pkg/bridge/hub.go).                   *)
(***************************************************************************)
EXTENDS Integers, Sequences, FiniteSets, SequencesExt

CONSTANTS
    Calls,
    Uploads,          \* calls of http_tunnel.request with stream_request or websocket
    Streamed,         \* calls of http_tunnel.request with stream_response or websocket
    Sockets,          \* calls of http_tunnel.request with websocket
    Proxied,          \* calls of mcp_proxy.*, which fetch without a time limit
    Parts,            \* number of parts of a streamed body
    MaxConcurrency,   \* --max-concurrency
    MaxAttempts,      \* bound: connections opened one after the other
    MaxChunks,        \* bound: chunks of data in the response of a stream
    MaxAuditFaults,   \* bound: failed writes of the audit log
    MaxBodyErrors     \* bound: bodies whose reading fails at the hub

ASSUME DaemonAssumption ==
    /\ IsFiniteSet(Calls)
    /\ Sockets \subseteq Uploads
    /\ Uploads \subseteq Streamed
    /\ Streamed \subseteq Calls
    /\ Proxied \subseteq Calls \ Streamed
    /\ Parts \in Nat
    /\ MaxConcurrency \in Nat \ {0}
    /\ MaxAttempts \in Nat \ {0}
    /\ MaxChunks \in Nat
    /\ MaxAuditFaults \in Nat
    /\ MaxBodyErrors \in Nat

VARIABLES
    attempt,      \* number of the connection, from 1
    socket,       \* "connecting", "open", "closing" or "closed"
    wire,         \* messages of the hub on the connection, not handled yet
    sentParts,    \* sentParts[c]: items of the body the hub has sent
    connOf,       \* connOf[c]: connection on which c was sent; 0: not sent
    stage,        \* stage[c]: position of the handler of c
    queue,        \* queue[k]: calls waiting in the limiter of connection k
    active,       \* active[k]: the limiter's counter
    known,        \* connectionState.streamInputs: calls with an input queue; the
                  \* map of connection k has the calls c with connOf[c] = k
    items,        \* items[c]: items in the input queue of c
    closed,       \* calls whose input queue is closed
    body,         \* body[c]: parts the target has received
    bodyEnd,      \* bodyEnd[c]: "open", "closed", "failed", or "shut": the end
                  \* of the input has closed the WebSocket to the target
    out,          \* out[c]: messages about c the socket has taken
    auditFailed,  \* history: calls with a failed write of the audit log
    bodyErrors

vars == <<attempt, socket, wire, sentParts, connOf, stage, queue, active, known,
          items, closed, body, bodyEnd, out, auditFailed, bodyErrors>>
limiterVars == <<queue, active>>
inputVars == <<known, items, closed, body, bodyEnd>>

Attempts == 1..MaxAttempts
PartNumbers == 1..Parts
EndItem == Parts + 1       \* an item with done
ErrorItem == Parts + 2     \* an item with error_code
Items == 1..ErrorItem
Stages == {"none", "sent", "queued", "starting", "running", "responding",
           "answered", "caught", "done"}
\* The limiter counts a call from its start until its function has settled.
Counted == {"starting", "running", "responding", "answered", "caught"}
Messages == [type : {"tool_call"}, call : Calls]
              \cup [type : {"tool_stream_input"}, call : Calls, item : Items]
              \cup [type : {"close"}]
Answers == {"status", "chunk", "done", "tool_result", "tool_error"}

TypeOK ==
    /\ attempt \in Attempts
    /\ socket \in {"connecting", "open", "closing", "closed"}
    /\ wire \in Seq(Messages)
    /\ sentParts \in [Calls -> 0..EndItem]
    /\ connOf \in [Calls -> 0..MaxAttempts]
    /\ stage \in [Calls -> Stages]
    /\ queue \in [Attempts -> Seq(Calls)]
    /\ active \in [Attempts -> 0..MaxConcurrency]
    /\ known \subseteq Uploads
    /\ items \in [Calls -> Seq(Items)]
    /\ closed \subseteq Uploads
    /\ body \in [Calls -> Seq(PartNumbers)]
    /\ bodyEnd \in [Calls -> {"open", "closed", "failed", "shut"}]
    /\ out \in [Calls -> Seq(Answers)]
    /\ auditFailed \subseteq Calls
    /\ bodyErrors \in 0..MaxBodyErrors

Init ==
    /\ attempt = 1
    /\ socket = "connecting"
    /\ wire = <<>>
    /\ sentParts = [c \in Calls |-> 0]
    /\ connOf = [c \in Calls |-> 0]
    /\ stage = [c \in Calls |-> "none"]
    /\ queue = [k \in Attempts |-> <<>>]
    /\ active = [k \in Attempts |-> 0]
    /\ known = {}
    /\ items = [c \in Calls |-> <<>>]
    /\ closed = {}
    /\ body = [c \in Calls |-> <<>>]
    /\ bodyEnd = [c \in Calls |-> IF c \in Uploads THEN "open" ELSE "closed"]
    /\ out = [c \in Calls |-> <<>>]
    /\ auditFailed = {}
    /\ bodyErrors = 0

-----------------------------------------------------------------------------
(* Environment: the hub and the network. *)

\* The hub has removed the session before it sends "close".
SessionOpen == socket = "open" /\ \A i \in DOMAIN wire : wire[i].type # "close"

\* The hub forwards a call (ForwardToolCall, ForwardToolStream).
HubSendsCall(c) ==
    /\ SessionOpen
    /\ connOf[c] = 0
    /\ connOf' = [connOf EXCEPT ![c] = attempt]
    /\ stage' = [stage EXCEPT ![c] = "sent"]
    /\ wire' = Append(wire, [type |-> "tool_call", call |-> c])
    /\ UNCHANGED <<attempt, socket, sentParts, limiterVars, inputVars, out,
                   auditFailed, bodyErrors>>

\* forwardTunnelHTTPRequestBodyStream sends the next part of the body or its
\* end; an error while it reads the body is sent as the last item.  The parts for
\* a WebSocket are its frames; a close frame with a code that WebSocket.close
\* does not accept, on which inputLoop throws, is left out.
HubSendsItem(c, item) ==
    /\ SessionOpen
    /\ c \in Uploads
    /\ connOf[c] = attempt
    /\ sentParts[c] < EndItem
    /\ \/ item = sentParts[c] + 1 /\ sentParts' = [sentParts EXCEPT ![c] = item]
                                  /\ UNCHANGED bodyErrors
       \/ item = ErrorItem /\ c \notin Sockets
                           /\ sentParts' = [sentParts EXCEPT ![c] = EndItem]
                           /\ bodyErrors < MaxBodyErrors
                           /\ bodyErrors' = bodyErrors + 1
    /\ wire' = Append(wire, [type |-> "tool_stream_input", call |-> c, item |-> item])
    /\ UNCHANGED <<attempt, socket, connOf, stage, limiterVars, inputVars, out,
                   auditFailed>>

\* An administrator closes the session (Hub.CloseSession with Notify).
HubSendsClose ==
    /\ SessionOpen
    /\ wire' = Append(wire, [type |-> "close"])
    /\ UNCHANGED <<attempt, socket, sentParts, connOf, stage, limiterVars,
                   inputVars, out, auditFailed, bodyErrors>>

-----------------------------------------------------------------------------
(* The connection. *)

\* The open event: the client registers and starts its heartbeat.
OnOpen ==
    /\ socket = "connecting"
    /\ socket' = "open"
    /\ UNCHANGED <<attempt, wire, sentParts, connOf, stage, limiterVars, inputVars,
                   out, auditFailed, bodyErrors>>

\* The close event: every input queue of the connection is closed and its map
\* is emptied.  The limiter and the calls it holds go on; a call that starts
\* later puts its queue into a map that nobody closes any more.
OnSocketClose ==
    /\ socket # "closed"
    /\ socket' = "closed"
    /\ wire' = <<>>
    /\ LET streamInputs == {c \in known : connOf[c] = attempt}
       IN  /\ closed' = closed \cup streamInputs
           /\ known' = known \ streamInputs
    /\ UNCHANGED <<attempt, sentParts, connOf, stage, limiterVars, items, body,
                   bodyEnd, out, auditFailed, bodyErrors>>

\* main: the loop sleeps and calls runOnce again, with a new limiter.
Reconnect ==
    /\ socket = "closed"
    /\ attempt < MaxAttempts
    /\ attempt' = attempt + 1
    /\ socket' = "connecting"
    /\ UNCHANGED <<wire, sentParts, connOf, stage, limiterVars, inputVars, out,
                   auditFailed, bodyErrors>>

-----------------------------------------------------------------------------
(* The limiter.  Its state is a counter and a queue per connection; pump is *)
(* called whenever a call is queued and whenever one has ended.             *)

Free(k, a) == a < MaxConcurrency

\* limit(fn): queue c, then pump.
Limit(c, k) ==
    IF Free(k, active[k])
    THEN /\ stage' = [stage EXCEPT ![c] = "starting"]
         /\ active' = [active EXCEPT ![k] = @ + 1]
         /\ UNCHANGED queue
    ELSE /\ stage' = [stage EXCEPT ![c] = "queued"]
         /\ queue' = [queue EXCEPT ![k] = Append(@, c)]
         /\ UNCHANGED active

\* Mutant: pump is not called when a call has ended.
MutantRelease(c) ==
    /\ stage' = [stage EXCEPT ![c] = "done"]
    /\ active' = [active EXCEPT ![connOf[c]] = @ - 1]
    /\ UNCHANGED queue

\* finally: the function of c has settled; pump starts the next call.
Release(c) ==
    LET k == connOf[c]
    IN  IF queue[k] # <<>> /\ Free(k, active[k] - 1)
        THEN /\ stage' = [stage EXCEPT ![c] = "done", ![Head(queue[k])] = "starting"]
             /\ queue' = [queue EXCEPT ![k] = Tail(@)]
             /\ UNCHANGED active
        ELSE /\ stage' = [stage EXCEPT ![c] = "done"]
             /\ active' = [active EXCEPT ![k] = @ - 1]
             /\ UNCHANGED queue

-----------------------------------------------------------------------------
(* Dispatch: onMessage. *)

Received(type) ==
    /\ socket = "open"
    /\ wire # <<>>
    /\ Head(wire).type = type
    /\ wire' = Tail(wire)

OnToolCall ==
    /\ Received("tool_call")
    /\ Limit(Head(wire).call, attempt)
    /\ UNCHANGED <<attempt, socket, sentParts, connOf, inputVars, out, auditFailed,
                   bodyErrors>>

\* Mutant: the items are a stack.
MutantOnStreamInput ==
    /\ Received("tool_stream_input")
    /\ LET c == Head(wire).call
       IN  items' = IF c \in known /\ c \notin closed
                    THEN [items EXCEPT ![c] = <<Head(wire).item>> \o @]
                    ELSE items
    /\ UNCHANGED <<attempt, socket, sentParts, connOf, stage, limiterVars, known,
                   closed, body, bodyEnd, out, auditFailed, bodyErrors>>

\* An item for a call without an input queue is dropped with a warning; push on
\* a closed queue has no effect.
OnStreamInput ==
    /\ Received("tool_stream_input")
    /\ LET c == Head(wire).call
       IN  items' = IF c \in known /\ c \notin closed
                    THEN [items EXCEPT ![c] = Append(@, Head(wire).item)]
                    ELSE items
    /\ UNCHANGED <<attempt, socket, sentParts, connOf, stage, limiterVars, known,
                   closed, body, bodyEnd, out, auditFailed, bodyErrors>>

\* The hub asks to close: the socket is closed from this side.  What is sent
\* while the audit line is written goes to a session that is gone.  If that write
\* fails the socket stays open until the server closes it, as if the message were
\* still on its way.
OnCloseMessage ==
    /\ Received("close")
    /\ socket' = "closing"
    /\ UNCHANGED <<attempt, sentParts, connOf, stage, limiterVars, inputVars, out,
                   auditFailed, bodyErrors>>

-----------------------------------------------------------------------------
(* A tool call. *)

\* WebSocket.send: a socket that is closing or closed drops the message.
Send(c, answers) ==
    out' = IF connOf[c] = attempt /\ socket = "open"
           THEN [out EXCEPT ![c] = @ \o answers]
           ELSE out

AuditFails(c) ==
    /\ Cardinality(auditFailed) < MaxAuditFaults
    /\ auditFailed' = auditFailed \cup {c}

\* The audit line is written; then a streamed request gets its input queue and
\* its handler starts.
StartCall(c) ==
    /\ stage[c] = "starting"
    /\ stage' = [stage EXCEPT ![c] = "running"]
    /\ known' = IF c \in Uploads THEN known \cup {c} ELSE known
    /\ UNCHANGED <<attempt, socket, wire, sentParts, connOf, limiterVars, items,
                   closed, body, bodyEnd, out, auditFailed, bodyErrors>>

\* Mutant: a call that throws before its try block is never settled.
MutantStartAuditFails(c) ==
    /\ stage[c] = "starting"
    /\ AuditFails(c)
    /\ stage' = [stage EXCEPT ![c] = "done"]
    /\ UNCHANGED <<attempt, socket, wire, sentParts, connOf, limiterVars, inputVars,
                   out, bodyErrors>>

\* This write is outside the try block: the call ends without any answer.
StartAuditFails(c) ==
    /\ stage[c] = "starting"
    /\ AuditFails(c)
    /\ Release(c)
    /\ UNCHANGED <<attempt, socket, wire, sentParts, connOf, inputVars, out,
                   bodyErrors>>

\* A reader takes the next item of the queue; an item with done ends the body as
\* ended says, a closed queue without items ends it as "closed".
TakeItem(c, ended) ==
    /\ bodyEnd[c] = "open"
    /\ IF items[c] # <<>>
       THEN /\ items' = [items EXCEPT ![c] = Tail(@)]
            /\ CASE Head(items[c]) = EndItem ->
                      bodyEnd' = [bodyEnd EXCEPT ![c] = ended] /\ UNCHANGED body
                 [] Head(items[c]) = ErrorItem ->
                      bodyEnd' = [bodyEnd EXCEPT ![c] = "failed"] /\ UNCHANGED body
                 [] OTHER ->
                      body' = [body EXCEPT ![c] = Append(@, Head(items[c]))] /\ UNCHANGED bodyEnd
       ELSE /\ c \in closed
            /\ bodyEnd' = [bodyEnd EXCEPT ![c] = "closed"]
            /\ UNCHANGED <<items, body>>
    /\ UNCHANGED <<attempt, socket, wire, sentParts, connOf, stage, limiterVars,
                   known, closed, out, auditFailed, bodyErrors>>

\* The request body pulls: a closed queue ends the body like an item with done.
PullBody(c) ==
    /\ stage[c] \in {"running", "responding"}
    /\ c \in Uploads \ Sockets
    /\ TakeItem(c, "closed")

\* inputLoop of a WebSocket that is open: an item with done closes the WebSocket,
\* a closed queue does not.
PullFrame(c) ==
    /\ stage[c] = "responding"
    /\ c \in Sockets
    /\ TakeItem(c, "shut")

\* The status is sent as the first chunk.
Respond(c) ==
    /\ stage[c] = "running"
    /\ stage' = [stage EXCEPT ![c] = "responding"]
    /\ Send(c, <<"status">>)
    /\ UNCHANGED <<attempt, socket, wire, sentParts, connOf, limiterVars, inputVars,
                   auditFailed, bodyErrors>>

\* The target answers a streamed request, which may be before the body's end.
TargetResponds(c) == c \in Streamed \ Sockets /\ bodyEnd[c] # "failed" /\ Respond(c)

\* The WebSocket to the target is open.
OpenTunnel(c) == c \in Sockets /\ Respond(c)

\* inputQueue.close(); connectionState.streamInputs.delete(requestId).
DropInput(c) ==
    /\ known' = known \ {c}
    /\ closed' = IF c \in Uploads THEN closed \cup {c} ELSE closed
    /\ UNCHANGED <<items, body, bodyEnd>>

\* emitChunk: the next chunk of the response, or the next frame of a WebSocket.
SendChunk(c) ==
    /\ stage[c] = "responding"
    /\ Len(out[c]) <= MaxChunks
    /\ Send(c, <<"chunk">>)
    /\ UNCHANGED <<attempt, socket, wire, sentParts, connOf, stage, limiterVars,
                   inputVars, auditFailed, bodyErrors>>

\* A call returns its result, a stream after its chunk with done.  emitChunk has
\* sent that chunk when it returns: from there to the result every await is of a
\* promise that is settled, and no event of a socket comes in between.
Answer(c, answers) ==
    /\ Send(c, answers)
    /\ stage' = [stage EXCEPT ![c] = "answered"]
    /\ DropInput(c)
    /\ UNCHANGED <<attempt, socket, wire, sentParts, connOf, limiterVars,
                   auditFailed, bodyErrors>>

CompleteTool(c) ==
    /\ stage[c] = "running"
    /\ c \notin Streamed
    /\ Answer(c, <<"tool_result">>)

\* Mutant: the result does not wait for the chunk with done.
MutantCompleteStream(c) ==
    /\ stage[c] = "responding"
    /\ c \notin Sockets
    /\ Answer(c, <<"tool_result", "done">>)

\* The body of the response has ended.
CompleteStream(c) ==
    /\ stage[c] = "responding"
    /\ c \notin Sockets
    /\ Answer(c, <<"done", "tool_result">>)

\* The WebSocket to the target is closed, by whichever side.
TunnelCloses(c) ==
    /\ stage[c] = "responding"
    /\ c \in Sockets
    /\ Answer(c, <<"done", "tool_result">>)

CompleteCall(c) == CompleteTool(c) \/ CompleteStream(c)

\* The handler throws: a tool error, a failed request, a failed body, a timeout.
\* A WebSocket that is open has no time limit, and its error is an end like others.
FailCall(c) ==
    /\ stage[c] = "running" \/ (stage[c] = "responding" /\ c \notin Sockets)
    /\ stage' = [stage EXCEPT ![c] = "caught"]
    /\ Send(c, <<"tool_error">>)
    /\ DropInput(c)
    /\ UNCHANGED <<attempt, socket, wire, sentParts, connOf, limiterVars,
                   auditFailed, bodyErrors>>

\* The audit line after the answer is written and the function returns.
EndCall(c) ==
    /\ stage[c] \in {"answered", "caught"}
    /\ Release(c)
    /\ UNCHANGED <<attempt, socket, wire, sentParts, connOf, inputVars, out,
                   auditFailed, bodyErrors>>

\* The write after a result is inside the try block: its failure is caught and
\* sent as an error after the result.
ResultAuditFails(c) ==
    /\ stage[c] = "answered"
    /\ AuditFails(c)
    /\ stage' = [stage EXCEPT ![c] = "caught"]
    /\ Send(c, <<"tool_error">>)
    /\ UNCHANGED <<attempt, socket, wire, sentParts, connOf, limiterVars, inputVars,
                   bodyErrors>>

-----------------------------------------------------------------------------
Call(c) ==
    \/ StartCall(c)
    \/ StartAuditFails(c)
    \/ PullBody(c)
    \/ PullFrame(c)
    \/ TargetResponds(c)
    \/ OpenTunnel(c)
    \/ SendChunk(c)
    \/ CompleteCall(c)
    \/ TunnelCloses(c)
    \/ FailCall(c)
    \/ EndCall(c)
    \/ ResultAuditFails(c)

Dispatch == OnToolCall \/ OnStreamInput \/ OnCloseMessage

Next ==
    \/ \E c \in Calls : HubSendsCall(c) \/ Call(c)
    \/ \E c \in Calls, item \in Items : HubSendsItem(c, item)
    \/ HubSendsClose
    \/ OnOpen
    \/ OnSocketClose
    \/ Reconnect
    \/ Dispatch

Spec == Init /\ [][Next]_vars

\* The close of a WebSocket that the input has asked for.
CloseTunnel(c) == bodyEnd[c] = "shut" /\ TunnelCloses(c)

\* A handler ends: a file tool has bounded work, a request of the HTTP tunnel is
\* aborted at its time limit (FailCall is the timeout), a WebSocket that is closed
\* from this side closes, and the event loop runs what is ready.  Nothing of the
\* kind is assumed of a proxied call: LocalMCPProxyClient.post fetches without a
\* signal and awaits the whole body, which the MCP server may keep open.
FairSpec ==
    /\ Spec
    /\ WF_vars(Dispatch)
    /\ \A c \in Calls : /\ WF_vars(StartCall(c) \/ StartAuditFails(c))
                        /\ WF_vars(EndCall(c) \/ ResultAuditFails(c))
    /\ \A c \in Calls \ (Sockets \cup Proxied) : WF_vars(CompleteCall(c) \/ FailCall(c))
    /\ \A c \in Sockets : /\ WF_vars(OpenTunnel(c) \/ FailCall(c))
                          /\ WF_vars(PullFrame(c))
                          /\ WF_vars(CloseTunnel(c))
-----------------------------------------------------------------------------
(* Properties. *)

Holding(k) == {c \in Calls : connOf[c] = k /\ stage[c] \in Counted}

\* createLimiter: the counter is the number of calls that run, and a call waits
\* only while all slots of its connection are taken: no slot is lost when a
\* call fails, when its answer cannot be sent or when the connection is gone.
LimiterExact ==
    \A k \in Attempts :
        /\ active[k] = Cardinality(Holding(k))
        /\ queue[k] # <<>> => active[k] = MaxConcurrency
        /\ ToSet(queue[k]) = {c \in Calls : connOf[c] = k /\ stage[c] = "queued"}

IsFinal(a) == a \in {"tool_result", "tool_error"}

\* onMessage: what the hub receives about a call is a status, then data, then
\* one final answer; a second one follows only when the audit log failed after
\* the result, and nothing is streamed after a final answer.
AnswersWellFormed ==
    \A c \in Calls : \A i, j \in DOMAIN out[c] :
        i < j =>
            /\ out[c][j] # "status"
            /\ IsFinal(out[c][i]) =>
                 /\ c \in auditFailed
                 /\ <<out[c][i], out[c][j]>> = <<"tool_result", "tool_error">>
            /\ out[c][i] = "done" => IsFinal(out[c][j])

\* createStreamInputQueue: whatever is dropped, the target receives the parts of
\* a body in their order, none of them twice and none missing in between, and the
\* end only after the last part: parts are lost only before the handler has
\* started, and at the end only with the connection.  (Both losses are real: the
\* body then ends as if it were whole.)
BodyHasNoGap ==
    \A c \in Uploads :
        LET parts == body[c] \o items[c]
        IN  /\ \A i \in 1..(Len(parts) - 1) :
                  parts[i] \in PartNumbers /\ parts[i + 1] \in {parts[i] + 1, ErrorItem}
            /\ bodyEnd[c] \in {"closed", "shut"} /\ connOf[c] = attempt /\ socket = "open"
                 => body[c] = <<>> \/ Last(body[c]) = Parts

\* onMessage: an input queue is in the map only while its handler runs, so that
\* no queue outlives its call.
NoInputLeak == \A c \in known : stage[c] \in {"running", "responding"}

\* createLimiter, onMessage: the books of the daemon are right in every state; in
\* addition no more calls of a connection run than --max-concurrency allows.
DaemonInv == TypeOK /\ LimiterExact /\ NoInputLeak

\* The handler of c waits for a peer without a time limit.
Unlimited(c) ==
    \/ c \in Sockets /\ stage[c] = "responding"
    \/ c \in Proxied /\ stage[c] = "running"

\* createLimiter, onMessage: every call the daemon has received ends, also when
\* the connection is lost, the body never ends or the audit log fails, unless an
\* open WebSocket tunnel or a call of the MCP proxy holds a slot of the same
\* connection for ever; and a tunnel ends once the end of its input is in its
\* queue, with the connection or without it.
CallsEnd ==
    /\ \A c \in Calls :
          stage[c] \in {"queued", "starting"} ~>
            \/ stage[c] = "done"
            \/ \E d \in Sockets \cup Proxied : [](connOf[d] = connOf[c] /\ Unlimited(d))
    /\ \A c \in Sockets :
          stage[c] = "responding" /\ EndItem \in ToSet(items[c]) ~> stage[c] = "done"
=============================================================================
