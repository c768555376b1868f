--------------------------- MODULE BridgeHubProofs ---------------------------
(***************************************************************************)
(* Proofs about BridgeHub, for any clients, connections, calls and         *)
(* streams, and channels of any capacity: the hub is consistent, a client  *)
(* whose connections are closed is shown as offline, and the hub with its  *)
(* callers implements BridgeCalls.                                         *)
(***************************************************************************)
EXTENDS BridgeHub, TLAPS

Attempting == {"sending", "reading", "waiting"}

\* The session of a client is one of its own connections.
OwnSession == \A k \in Clients : byClient[k] # "none" => ClientOf[byClient[k]] = k

\* A caller in the middle of an attempt knows its session.
TargetKnown == \A c \in Calls : pc[c] \in Attempting => target[c] \in Conns

\* c is on its way to the client of s ...
Queued(c, s) == \E i \in 1 .. Len(outbound[s]) : outbound[s][i] = c
\* ... or it has never been.
Untouched(c, s) == ~ Queued(c, s) /\ given[c][s] = 0
Sending(c, s) == pc[c] = "sending" /\ target[c] = s

\* A call is with s at most once: as a candidate, with its sender, in the channel
\* of the connection or with the client.
OncePerSession ==
    \A c \in Calls, s \in Conns :
        /\ Queued(c, s) => given[c][s] = 0
        /\ \A i, j \in 1 .. Len(outbound[s]) : outbound[s][i] = c /\ outbound[s][j] = c => i = j
        /\ s \in todo[c] => Untouched(c, s) /\ ~ Sending(c, s)
        /\ Sending(c, s) => Untouched(c, s)
        /\ pc[c] = "idle" => Untouched(c, s)

\* A result comes from a client that was sent the call.
ResultGiven == \A c \in Calls : response[c] = "result" => \E s \in Conns : given[c][s] > 0

CallInv == HubInv /\ OwnSession /\ TargetKnown /\ OncePerSession /\ ResultGiven

\* A row that is no stray belongs to a handler that will close it, or to an
\* administrator who is about to.
RowsOwned ==
    \A s \in rows : ClientOf[s] \notin stray =>
        /\ conn[s] \in {"stored", "online", "lost", "closing", "dropped"}
        /\ \/ conn[s] \in {"online", "lost"} /\ s \notin sessions
           \/ conn[s] = "dropped"
           => admin[s] = "closing"

\* Registrations that did not overlap leave one row.
RowsSingle ==
    \A s, t \in rows : ClientOf[s] = ClientOf[t] /\ ClientOf[s] \notin stray => s = t

\* A client shown as online has a row, or somebody who will look at its rows again.
Cared(s) ==
    \/ s \in rows \/ s \in sessions
    \/ conn[s] \in {"upserted", "replaced", "stored", "closing", "marking"}
    \/ admin[s] \in {"closing", "marking"}
OnlineCared ==
    \A k \in Clients : k \in online /\ k \notin stray => \E s \in Conns : ClientOf[s] = k /\ Cared(s)

\* A session in the hub has a handler that will close it.
SessionsLive == \A s \in sessions : conn[s] \in {"online", "lost"}

RowInv == SessionsLive /\ RowsOwned /\ RowsSingle /\ OnlineCared

IInv == CallInv /\ RowInv

-----------------------------------------------------------------------------
(* The channel of a connection *)

(* What is appended comes last, and nothing else moves. *)
LEMMA AppendElements ==
    ASSUME NEW S, NEW q \in Seq(S), NEW e \in S
    PROVE  /\ Append(q, e) \in Seq(S)
           /\ Len(Append(q, e)) = Len(q) + 1
           /\ Append(q, e)[Len(q) + 1] = e
           /\ \A i \in 1 .. Len(q) : Append(q, e)[i] = q[i]
OBVIOUS

(* Without its first element, every element of a channel moves up by one. *)
LEMMA TailElements ==
    ASSUME NEW S, NEW q \in Seq(S), q # <<>>
    PROVE  /\ Tail(q) \in Seq(S)
           /\ Len(q) \in Nat \ {0}
           /\ Len(Tail(q)) = Len(q) - 1
           /\ \A i \in 1 .. Len(Tail(q)) : Tail(q)[i] = q[i + 1]
           /\ Head(q) = q[1] /\ Head(q) \in S
OBVIOUS

(* A message that is no call can be put into a channel without touching any  *)
(* call.                                                                     *)
LEMMA NoteKeeps ==
    ASSUME TypeOK, OncePerSession, NEW r \in Conns,
           outbound' = [outbound EXCEPT ![r] = Append(@, "note")],
           Len(outbound[r]) < OutboundCap,
           UNCHANGED <<pc, todo, target, given>>
    PROVE  /\ outbound' \in [Conns -> Seq(Calls \cup {"note"})]
           /\ \A s \in Conns : Len(outbound'[s]) <= OutboundCap
           /\ OncePerSession'
<1> DEFINE q == outbound[r]
<1>1. q \in Seq(Calls \cup {"note"}) /\ Len(q) \in Nat
  BY DEF TypeOK
<1>2. /\ Append(q, "note") \in Seq(Calls \cup {"note"})
      /\ Len(Append(q, "note")) = Len(q) + 1
      /\ Append(q, "note")[Len(q) + 1] = "note"
      /\ \A i \in 1 .. Len(q) : Append(q, "note")[i] = q[i]
  BY <1>1, AppendElements
<1>3. outbound'[r] = Append(q, "note") /\ \A s \in Conns \ {r} : outbound'[s] = outbound[s]
  BY DEF TypeOK
<1>4. /\ outbound' \in [Conns -> Seq(Calls \cup {"note"})]
      /\ \A s \in Conns : Len(outbound'[s]) <= OutboundCap
  BY <1>1, <1>2, <1>3, HubAssumption DEF TypeOK
<1>5. "note" \notin Calls
  BY HubAssumption
<1>6. ASSUME NEW c \in Calls, NEW s \in Conns
      PROVE  /\ Queued(c, s)' <=> Queued(c, s)
             /\ \A i, j \in 1 .. Len(outbound'[s]) :
                    outbound'[s][i] = c /\ outbound'[s][j] = c => i = j
  <2>1. CASE s = r
    <3>1. \A i \in 1 .. Len(outbound'[r]) : outbound'[r][i] = c => i \in 1 .. Len(q) /\ q[i] = c
      BY <1>1, <1>2, <1>3, <1>5
    <3>2. \A i \in 1 .. Len(q) : i \in 1 .. Len(outbound'[r]) /\ outbound'[r][i] = q[i]
      BY <1>1, <1>2, <1>3
    <3>3. QED
      BY <2>1, <3>1, <3>2 DEF Queued, OncePerSession
  <2>2. CASE s # r
    BY <2>2, <1>3 DEF Queued, OncePerSession
  <2>3. QED
    BY <2>1, <2>2
<1>7. OncePerSession'
  <2> SUFFICES ASSUME NEW c \in Calls, NEW s \in Conns
               PROVE  /\ Queued(c, s)' => given'[c][s] = 0
                      /\ \A i, j \in 1 .. Len(outbound'[s]) :
                             outbound'[s][i] = c /\ outbound'[s][j] = c => i = j
                      /\ s \in todo'[c] => Untouched(c, s)' /\ ~ Sending(c, s)'
                      /\ Sending(c, s)' => Untouched(c, s)'
                      /\ pc'[c] = "idle" => Untouched(c, s)'
    BY DEF OncePerSession
  <2>1. Untouched(c, s)' <=> Untouched(c, s)
    BY <1>6 DEF Untouched
  <2>2. Sending(c, s)' <=> Sending(c, s)
    BY DEF Sending
  <2>3. QED
    BY <1>6, <2>1, <2>2 DEF OncePerSession
<1>8. QED
  BY <1>4, <1>7

-----------------------------------------------------------------------------
(* The calls: types *)

(* An attempt that is over leaves the call to the next candidate or ends it. *)
LEMMA GoOnFacts ==
    ASSUME TypeOK, NEW c \in Calls, NEW o \in Outcomes, GoOn(c, o) \/ EndCall(c, o)
    PROVE  /\ pc' \in [Calls -> Open \cup {"idle", "ended"}]
           /\ target' \in [Calls -> Conns \cup {"none"}]
           /\ outcome' \in [Calls -> Outcomes \cup {"none"}]
           /\ pc'[c] \in {"choosing", "ended"}
           /\ \A d \in Calls \ {c} : pc'[d] = pc[d] /\ target'[d] = target[d]
<1> USE DEF TypeOK, Open
<1>1. CASE EndCall(c, o)
  BY <1>1 DEF EndCall
<1>2. CASE pc' = [pc EXCEPT ![c] = "choosing"] /\ UNCHANGED <<target, outcome>>
  BY <1>2
<1>3. QED
  BY <1>1, <1>2 DEF GoOn

(* A call that reaches a client is counted there and nowhere else. *)
LEMMA GiveFacts ==
    ASSUME TypeOK, NEW d \in Calls, NEW s \in Conns, given' = [given EXCEPT ![d][s] = @ + 1]
    PROVE  /\ given'[d][s] = given[d][s] + 1
           /\ \A c \in Calls, r \in Conns :
                  given'[c][r] = IF c = d /\ r = s THEN given[c][r] + 1 ELSE given[c][r]
           /\ \A c \in Calls, r \in Conns : given[c][r] \in 0..1
<1> USE DEF TypeOK
<1>1. given'[d] = [given[d] EXCEPT ![s] = @ + 1] /\ \A c \in Calls \ {d} : given'[c] = given[c]
  OBVIOUS
<1>2. given[d] \in [Conns -> 0..1]
  OBVIOUS
<1>3. QED
  BY <1>1, <1>2

(* Failing the pending calls of a session keeps the types. *)
LEMMA FailPendingType ==
    ASSUME TypeOK, NEW S, FailPending(S)
    PROVE  /\ pending' \in [Calls -> Conns \cup {"none"}]
           /\ response' \in [Calls -> {"none", "result", "disconnected"}]
BY DEF TypeOK, FailPending

\* The statements on the rows, which concern neither the hub nor the calls, and the
\* loss of a connection.
RowStep(s) ==
    \/ UpsertBridgeClient(s) \/ ReplaceSessions(s) \/ CreateBridgeSession(s)
    \/ RegistrationFails(s) \/ Lose(s) \/ CloseRow(s) \/ MarkGone(s)
    \/ AdminCloseRow(s) \/ AdminMarkOffline(s) \/ AdminCloseAbsent(s)

(* Such a step keeps the types of the rows and leaves the rest alone. *)
LEMMA RowStepFacts ==
    ASSUME TypeOK, NEW s \in Conns, RowStep(s)
    PROVE  /\ conn' \in [Conns -> {"new", "upserted", "replaced", "stored", "online", "lost",
                                   "closing", "dropped", "marking", "gone"}]
           /\ admin' \in [Conns -> {"none", "closing", "marking", "done"}]
           /\ rows' \subseteq Conns /\ online' \subseteq Clients /\ stray' \subseteq Clients
           /\ UNCHANGED <<hubVars, callVars, pipeVars>>
<1> USE DEF RowStep, UpsertBridgeClient, ReplaceSessions, CreateBridgeSession, RegistrationFails,
            Lose, CloseRow, MarkGone, AdminCloseRow, AdminMarkOffline, AdminCloseAbsent
<1>1. UNCHANGED <<hubVars, callVars, pipeVars>>
  OBVIOUS
<1>2. conn' \in [Conns -> {"new", "upserted", "replaced", "stored", "online", "lost",
                           "closing", "dropped", "marking", "gone"}]
  <2>1. PICK p \in {"upserted", "replaced", "stored", "lost", "marking", "gone"} :
            conn' \in {conn, [conn EXCEPT ![s] = p]}
    BY DEF ConnAt
  <2>2. QED
    BY <2>1, ZenonT(60) DEF TypeOK
<1>3. admin' \in [Conns -> {"none", "closing", "marking", "done"}]
  <2>1. CASE AdminCloseRow(s)
    BY <2>1 DEF TypeOK
  <2>2. CASE AdminMarkOffline(s)
    BY <2>2 DEF TypeOK
  <2>3. CASE UNCHANGED admin
    BY <2>3 DEF TypeOK
  <2>4. QED
    BY <2>1, <2>2, <2>3
<1>4. rows' \subseteq Conns /\ online' \subseteq Clients /\ stray' \subseteq Clients
  <2>0. ClientOf[s] \in Clients
    BY HubAssumption
  <2>1. rows' \subseteq rows \cup {s}
    BY DEF rowVars
  <2>2. online' \subseteq online \cup {ClientOf[s]}
    BY DEF MarkOffline, rowVars
  <2>3. stray' \subseteq stray \cup {ClientOf[s]}
    BY DEF MarkOffline, Fails, rowVars
  <2>4. QED
    BY <2>0, <2>1, <2>2, <2>3 DEF TypeOK
<1>5. QED
  BY <1>1, <1>2, <1>3, <1>4

(* The next-state relation, with the statements on the rows together. *)
LEMMA NextCases ==
    ASSUME Next
    PROVE  \/ \E s \in Conns :
                  \/ RowStep(s) \/ Register(s) \/ CloseSession(s) \/ AdminCloseSession(s)
                  \/ Write(s) \/ Push(s) \/ PushTimesOut(s) \/ Reply(s) \/ OnPing(s)
                  \/ \E c \in Calls :
                         OnToolResult(s, c) \/ OnUnknown(s, c) \/ OnToolStreamChunk(s, c)
           \/ \E c \in Calls :
                  \/ SelectSessions(c) \/ Send(c) \/ Receive(c) \/ Cancel(c)
                  \/ SendToolStreamInput(c) \/ Consume(c)
                  \/ \E s \in Conns : Forward(c, s) \/ ForwardFails(c, s)
BY DEF Next, Handler, Caller, Choose, RowStep

(* Every step keeps the types. *)
LEMMA TypeStep == CallInv /\ [Next]_vars => TypeOK'
<1> SUFFICES ASSUME CallInv, [Next]_vars PROVE TypeOK'
  OBVIOUS
<1> USE HubAssumption DEF CallInv, HubInv, TypeOK
<1>1. ASSUME NEW s \in Conns, RowStep(s) PROVE TypeOK'
  BY <1>1, RowStepFacts DEF hubVars, callVars, pipeVars
<1>2. ASSUME NEW s \in Conns, Register(s) PROVE TypeOK'
  <2>1. /\ pending' \in [Calls -> Conns \cup {"none"}]
        /\ response' \in [Calls -> {"none", "result", "disconnected"}]
    BY <1>2, FailPendingType DEF Register
  <2>2. QED
    BY <1>2, <2>1 DEF Register, ConnAt, callVars, pipeVars
<1>3. ASSUME NEW s \in Conns, CloseSession(s) PROVE TypeOK'
  <2>1. /\ pending' \in [Calls -> Conns \cup {"none"}]
        /\ response' \in [Calls -> {"none", "result", "disconnected"}]
    BY <1>3, FailPendingType DEF CloseSession, Remove
  <2>2. QED
    BY <1>3, <2>1 DEF CloseSession, Remove, rowVars, callVars, pipeVars
<1>4. ASSUME NEW s \in Conns, AdminCloseSession(s) PROVE TypeOK'
  <2>1. /\ pending' \in [Calls -> Conns \cup {"none"}]
        /\ response' \in [Calls -> {"none", "result", "disconnected"}]
    BY <1>4, FailPendingType DEF AdminCloseSession, Remove
  <2>2. /\ outbound' \in [Conns -> Seq(Calls \cup {"note"})]
        /\ \A r \in Conns : Len(outbound'[r]) <= OutboundCap
    <3>1. CASE Len(outbound[s]) < OutboundCap
      BY <1>4, <3>1, NoteKeeps DEF AdminCloseSession, callVars, CallInv, HubInv
    <3>2. CASE ~ (Len(outbound[s]) < OutboundCap)
      BY <1>4, <3>2 DEF AdminCloseSession
    <3>3. QED
      BY <3>1, <3>2
  <2>3. QED
    BY <1>4, <2>1, <2>2 DEF AdminCloseSession, Remove, rowVars, callVars
<1>5. ASSUME NEW s \in Conns, Write(s) PROVE TypeOK'
  <2> DEFINE q == outbound[s]
  <2>1. /\ Tail(q) \in Seq(Calls \cup {"note"})
        /\ Len(q) \in Nat \ {0}
        /\ Len(Tail(q)) = Len(q) - 1
        /\ Head(q) = q[1]
    BY <1>5, TailElements DEF Write
  <2>2. /\ outbound' \in [Conns -> Seq(Calls \cup {"note"})]
        /\ \A r \in Conns : Len(outbound'[r]) <= OutboundCap
    BY <1>5, <2>1 DEF Write
  <2>3. given' \in [Calls -> [Conns -> 0..1]]
    <3>1. CASE Head(q) \in Calls /\ given' = [given EXCEPT ![Head(q)][s] = @ + 1]
      <4>1. given[Head(q)][s] = 0
        BY <3>1, <2>1 DEF CallInv, OncePerSession, Queued
      <4>2. QED
        BY <3>1, <4>1
    <3>2. QED
      BY <1>5, <3>1 DEF Write
  <2>4. QED
    BY <1>5, <2>2, <2>3 DEF Write, rowVars, hubVars, callVars
<1>6. ASSUME NEW s \in Conns, Push(s) PROVE TypeOK'
  BY <1>6 DEF Push, rowVars, hubVars, callVars
<1>7. ASSUME NEW s \in Conns, PushTimesOut(s) PROVE TypeOK'
  BY <1>7 DEF PushTimesOut, rowVars, hubVars, callVars
<1>8. ASSUME NEW s \in Conns, Reply(s) PROVE TypeOK'
  <2>1. s \in Conns
    BY <1>8 DEF Reply
  <2>2. /\ outbound' \in [Conns -> Seq(Calls \cup {"note"})]
        /\ \A r \in Conns : Len(outbound'[r]) <= OutboundCap
    BY <1>8, <2>1, NoteKeeps DEF Reply, callVars, CallInv, HubInv
  <2>3. QED
    BY <1>8, <2>2 DEF Reply, rowVars, hubVars, callVars
<1>9. ASSUME NEW s \in Conns, OnPing(s) PROVE TypeOK'
  BY <1>9 DEF OnPing, rowVars, hubVars, callVars
<1>10. ASSUME NEW s \in Conns, NEW c \in Calls, OnToolResult(s, c) PROVE TypeOK'
  BY <1>10 DEF OnToolResult, rowVars, callVars, pipeVars
<1>11. ASSUME NEW s \in Conns, NEW c \in Calls, OnUnknown(s, c) PROVE TypeOK'
  BY <1>11 DEF OnUnknown, rowVars, hubVars, callVars
<1>12. ASSUME NEW s \in Conns, NEW c \in Calls, OnToolStreamChunk(s, c) PROVE TypeOK'
  BY <1>12 DEF OnToolStreamChunk, rowVars, hubVars, callVars
<1>13. ASSUME NEW c \in Calls, SelectSessions(c) PROVE TypeOK'
  BY <1>13 DEF SelectSessions, rowVars, hubVars, pipeVars, Open
<1>14. ASSUME NEW c \in Calls, Send(c) PROVE TypeOK'
  <2> DEFINE q == outbound[target[c]]
  <2>1. target[c] \in Conns
    BY <1>14 DEF Send, CallInv, TargetKnown, Attempting
  <2>2. Append(q, c) \in Seq(Calls \cup {"note"}) /\ Len(Append(q, c)) = Len(q) + 1
    BY <2>1, AppendElements
  <2>3. /\ outbound' \in [Conns -> Seq(Calls \cup {"note"})]
        /\ \A r \in Conns : Len(outbound'[r]) <= OutboundCap
    BY <1>14, <2>1, <2>2 DEF Send
  <2>4. pc' \in [Calls -> Open \cup {"idle", "ended"}]
    BY <1>14 DEF Send, Open
  <2>5. QED
    BY <1>14, <2>3, <2>4 DEF Send, rowVars, hubVars
<1>15. ASSUME NEW c \in Calls, Receive(c) PROVE TypeOK'
  <2>1. PICK o \in Outcomes : GoOn(c, o) \/ EndCall(c, o)
    BY <1>15 DEF Receive, Outcomes
  <2>2. /\ pc' \in [Calls -> Open \cup {"idle", "ended"}]
        /\ target' \in [Calls -> Conns \cup {"none"}]
        /\ outcome' \in [Calls -> Outcomes \cup {"none"}]
    BY <2>1, GoOnFacts
  <2>3. /\ todo' \in [Calls -> SUBSET Conns]
        /\ stream' \in [Calls -> 0..StreamCap]
        /\ pending' \in [Calls -> Conns \cup {"none"}]
        /\ response' \in [Calls -> {"none", "result", "disconnected"}]
    BY <1>15 DEF Receive, pipeVars
  <2>4. UNCHANGED <<conn, admin, rows, online, stray, sessions, byClient, outbound, given, pushing>>
    BY <1>15 DEF Receive, rowVars, pipeVars
  <2>5. QED
    BY <2>2, <2>3, <2>4
<1>16. ASSUME NEW c \in Calls, Cancel(c) PROVE TypeOK'
  <2>1. PICK o \in Outcomes : GoOn(c, o) \/ EndCall(c, o)
    BY <1>16 DEF Cancel, Outcomes
  <2>2. /\ pc' \in [Calls -> Open \cup {"idle", "ended"}]
        /\ target' \in [Calls -> Conns \cup {"none"}]
        /\ outcome' \in [Calls -> Outcomes \cup {"none"}]
    BY <2>1, GoOnFacts
  <2>3. /\ todo' \in [Calls -> SUBSET Conns]
        /\ stream' \in [Calls -> 0..StreamCap]
        /\ pending' \in [Calls -> Conns \cup {"none"}]
        /\ response' \in [Calls -> {"none", "result", "disconnected"}]
    BY <1>16 DEF Cancel, rowVars
  <2>4. UNCHANGED <<conn, admin, rows, online, stray, sessions, byClient, outbound, given, pushing>>
    BY <1>16 DEF Cancel, rowVars
  <2>5. QED
    BY <2>2, <2>3, <2>4
<1>17. ASSUME NEW c \in Calls, SendToolStreamInput(c) PROVE TypeOK'
  <2>1. pending[c] \in Conns
    BY <1>17 DEF SendToolStreamInput
  <2>2. /\ outbound' \in [Conns -> Seq(Calls \cup {"note"})]
        /\ \A r \in Conns : Len(outbound'[r]) <= OutboundCap
    BY <1>17, <2>1, NoteKeeps DEF SendToolStreamInput, callVars, CallInv, HubInv
  <2>3. QED
    BY <1>17, <2>2 DEF SendToolStreamInput, rowVars, hubVars, callVars
<1>18. ASSUME NEW c \in Calls, Consume(c) PROVE TypeOK'
  BY <1>18 DEF Consume, rowVars, hubVars, Open
<1>19. ASSUME NEW c \in Calls, NEW s \in Conns, Forward(c, s) PROVE TypeOK'
  BY <1>19 DEF Forward, rowVars, pipeVars, Open
<1>20. ASSUME NEW c \in Calls, NEW s \in Conns, ForwardFails(c, s) PROVE TypeOK'
  <2>1. PICK o \in Outcomes : GoOn(c, o) \/ EndCall(c, o)
    BY <1>20 DEF ForwardFails, Outcomes
  <2>2. /\ pc' \in [Calls -> Open \cup {"idle", "ended"}]
        /\ target' \in [Calls -> Conns \cup {"none"}]
        /\ outcome' \in [Calls -> Outcomes \cup {"none"}]
    BY <2>1, GoOnFacts
  <2>3. /\ todo' \in [Calls -> SUBSET Conns]
        /\ stream' \in [Calls -> 0..StreamCap]
        /\ pending' \in [Calls -> Conns \cup {"none"}]
        /\ response' \in [Calls -> {"none", "result", "disconnected"}]
    <3>1. PICK S \in SUBSET todo[c] : todo' = [todo EXCEPT ![c] = S]
      BY <1>20 DEF ForwardFails
    <3>2. UNCHANGED <<stream, pending, response>>
      BY <1>20 DEF ForwardFails, hubVars, pipeVars
    <3>3. QED
      BY <3>1, <3>2
  <2>4. UNCHANGED <<conn, admin, rows, online, stray, sessions, byClient, outbound, given, pushing>>
    BY <1>20 DEF ForwardFails, rowVars, hubVars, pipeVars
  <2>5. QED
    BY <2>2, <2>3, <2>4
<1>21. CASE UNCHANGED vars
  BY <1>21 DEF vars
<1>22. QED
  BY <1>1, <1>2, <1>3, <1>4, <1>5, <1>6, <1>7, <1>8, <1>9, <1>10, <1>11, <1>12, <1>13,
     <1>14, <1>15, <1>16, <1>17, <1>18, <1>19, <1>20, <1>21, NextCases

-----------------------------------------------------------------------------
(* The calls: the hub *)

(* The two maps of the hub stay in step. *)
LEMMA ConsistentStep == CallInv /\ [Next]_vars => HubConsistent' /\ OwnSession'
<1> SUFFICES ASSUME CallInv, [Next]_vars PROVE HubConsistent' /\ OwnSession'
  OBVIOUS
<1> USE HubAssumption DEF CallInv, HubInv, TypeOK, HubConsistent, OwnSession
<1>1. ASSUME NEW s \in Conns, RowStep(s) PROVE HubConsistent' /\ OwnSession'
  BY <1>1, RowStepFacts DEF hubVars, callVars, pipeVars
<1>2. ASSUME NEW s \in Conns, Register(s) PROVE HubConsistent' /\ OwnSession'
  <2> DEFINE p == byClient[ClientOf[s]]
  <2>1. /\ sessions' = (sessions \ ({p} \ {"none"})) \cup {s}
        /\ byClient' = [byClient EXCEPT ![ClientOf[s]] = s]
    BY <1>2 DEF Register
  <2>2. ASSUME NEW r \in Conns PROVE r \in sessions' <=> byClient'[ClientOf[r]] = r
    <3>1. CASE ClientOf[r] = ClientOf[s]
      <4>1. r \in sessions <=> p = r
        BY <3>1
      <4>2. byClient'[ClientOf[r]] = s
        BY <2>1, <3>1
      <4>3. QED
        BY <2>1, <4>1, <4>2
    <3>2. CASE ClientOf[r] # ClientOf[s]
      <4>1. byClient'[ClientOf[r]] = byClient[ClientOf[r]] /\ r # s
        BY <2>1, <3>2
      <4>2. r \in sessions => r # p
        <5> SUFFICES ASSUME r \in sessions, r = p PROVE FALSE
          OBVIOUS
        <5>1. byClient[ClientOf[p]] = p /\ ClientOf[p] # ClientOf[s]
          BY <3>2
        <5>2. QED
          BY <5>1 DEF OwnSession
      <4>3. QED
        BY <2>1, <4>1, <4>2
    <3>3. QED
      BY <3>1, <3>2
  <2>3. OwnSession'
    BY <2>1
  <2>4. QED
    BY <2>2, <2>3
<1>3. ASSUME NEW s \in Conns, CloseSession(s) PROVE HubConsistent' /\ OwnSession'
  BY <1>3 DEF CloseSession, Remove
<1>4. ASSUME NEW s \in Conns, AdminCloseSession(s) PROVE HubConsistent' /\ OwnSession'
  BY <1>4 DEF AdminCloseSession, Remove
<1>5. ASSUME NEW s \in Conns, Write(s) PROVE HubConsistent' /\ OwnSession'
  BY <1>5 DEF Write, hubVars
<1>6. ASSUME NEW s \in Conns, Push(s) PROVE HubConsistent' /\ OwnSession'
  BY <1>6 DEF Push, hubVars
<1>7. ASSUME NEW s \in Conns, PushTimesOut(s) PROVE HubConsistent' /\ OwnSession'
  BY <1>7 DEF PushTimesOut, hubVars
<1>8. ASSUME NEW s \in Conns, Reply(s) PROVE HubConsistent' /\ OwnSession'
  BY <1>8 DEF Reply, hubVars
<1>9. ASSUME NEW s \in Conns, OnPing(s) PROVE HubConsistent' /\ OwnSession'
  BY <1>9 DEF OnPing, hubVars
<1>10. ASSUME NEW s \in Conns, NEW c \in Calls, OnToolResult(s, c) PROVE HubConsistent' /\ OwnSession'
  BY <1>10 DEF OnToolResult
<1>11. ASSUME NEW s \in Conns, NEW c \in Calls, OnUnknown(s, c) PROVE HubConsistent' /\ OwnSession'
  BY <1>11 DEF OnUnknown, hubVars
<1>12. ASSUME NEW s \in Conns, NEW c \in Calls, OnToolStreamChunk(s, c) PROVE HubConsistent' /\ OwnSession'
  BY <1>12 DEF OnToolStreamChunk, hubVars
<1>13. ASSUME NEW c \in Calls, SelectSessions(c) PROVE HubConsistent' /\ OwnSession'
  BY <1>13 DEF SelectSessions, hubVars
<1>14. ASSUME NEW c \in Calls, Send(c) PROVE HubConsistent' /\ OwnSession'
  BY <1>14 DEF Send, hubVars
<1>15. ASSUME NEW c \in Calls, Receive(c) PROVE HubConsistent' /\ OwnSession'
  BY <1>15 DEF Receive
<1>16. ASSUME NEW c \in Calls, Cancel(c) PROVE HubConsistent' /\ OwnSession'
  BY <1>16 DEF Cancel
<1>17. ASSUME NEW c \in Calls, SendToolStreamInput(c) PROVE HubConsistent' /\ OwnSession'
  BY <1>17 DEF SendToolStreamInput, hubVars
<1>18. ASSUME NEW c \in Calls, Consume(c) PROVE HubConsistent' /\ OwnSession'
  BY <1>18 DEF Consume, hubVars
<1>19. ASSUME NEW c \in Calls, NEW s \in Conns, Forward(c, s) PROVE HubConsistent' /\ OwnSession'
  BY <1>19 DEF Forward
<1>20. ASSUME NEW c \in Calls, NEW s \in Conns, ForwardFails(c, s) PROVE HubConsistent' /\ OwnSession'
  BY <1>20 DEF ForwardFails, hubVars
<1>21. CASE UNCHANGED vars
  BY <1>21 DEF vars
<1>22. QED
  BY <1>1, <1>2, <1>3, <1>4, <1>5, <1>6, <1>7, <1>8, <1>9, <1>10, <1>11, <1>12, <1>13,
     <1>14, <1>15, <1>16, <1>17, <1>18, <1>19, <1>20, <1>21, NextCases

(* A pending call has a caller and a session; the caller knows its session. *)
LEMMA PendingStep == CallInv /\ [Next]_vars => PendingExact' /\ TargetKnown'
<1> SUFFICES ASSUME CallInv, [Next]_vars PROVE PendingExact' /\ TargetKnown'
  OBVIOUS
<1> USE HubAssumption DEF CallInv, HubInv, TypeOK, PendingExact, TargetKnown, Attempting
<1>1. ASSUME NEW s \in Conns, RowStep(s) PROVE PendingExact' /\ TargetKnown'
  BY <1>1, RowStepFacts DEF hubVars, callVars, pipeVars
<1>2. ASSUME NEW s \in Conns, Register(s) PROVE PendingExact' /\ TargetKnown'
  BY <1>2 DEF Register, callVars, FailPending
<1>3. ASSUME NEW s \in Conns, CloseSession(s) PROVE PendingExact' /\ TargetKnown'
  BY <1>3 DEF CloseSession, callVars, Remove, FailPending
<1>4. ASSUME NEW s \in Conns, AdminCloseSession(s) PROVE PendingExact' /\ TargetKnown'
  BY <1>4 DEF AdminCloseSession, callVars, Remove, FailPending
<1>5. ASSUME NEW s \in Conns, Write(s) PROVE PendingExact' /\ TargetKnown'
  BY <1>5 DEF Write, hubVars, callVars
<1>6. ASSUME NEW s \in Conns, Push(s) PROVE PendingExact' /\ TargetKnown'
  BY <1>6 DEF Push, hubVars, callVars
<1>7. ASSUME NEW s \in Conns, PushTimesOut(s) PROVE PendingExact' /\ TargetKnown'
  BY <1>7 DEF PushTimesOut, hubVars, callVars
<1>8. ASSUME NEW s \in Conns, Reply(s) PROVE PendingExact' /\ TargetKnown'
  BY <1>8 DEF Reply, hubVars, callVars
<1>9. ASSUME NEW s \in Conns, OnPing(s) PROVE PendingExact' /\ TargetKnown'
  BY <1>9 DEF OnPing, hubVars, callVars
<1>10. ASSUME NEW s \in Conns, NEW c \in Calls, OnToolResult(s, c) PROVE PendingExact' /\ TargetKnown'
  BY <1>10 DEF OnToolResult, callVars
<1>11. ASSUME NEW s \in Conns, NEW c \in Calls, OnUnknown(s, c) PROVE PendingExact' /\ TargetKnown'
  BY <1>11 DEF OnUnknown, hubVars, callVars
<1>12. ASSUME NEW s \in Conns, NEW c \in Calls, OnToolStreamChunk(s, c) PROVE PendingExact' /\ TargetKnown'
  BY <1>12 DEF OnToolStreamChunk, hubVars, callVars
<1>13. ASSUME NEW c \in Calls, SelectSessions(c) PROVE PendingExact' /\ TargetKnown'
  BY <1>13 DEF SelectSessions, hubVars
<1>14. ASSUME NEW c \in Calls, Send(c) PROVE PendingExact' /\ TargetKnown'
  BY <1>14 DEF Send, hubVars
<1>15. ASSUME NEW c \in Calls, Receive(c) PROVE PendingExact' /\ TargetKnown'
  <2>1. PICK o \in Outcomes : GoOn(c, o) \/ EndCall(c, o)
    BY <1>15 DEF Receive, Outcomes
  <2>2. /\ pc'[c] \in {"choosing", "ended"}
        /\ \A d \in Calls \ {c} : pc'[d] = pc[d] /\ target'[d] = target[d]
    BY <2>1, GoOnFacts
  <2>3. /\ pending'[c] = "none"
        /\ \A d \in Calls \ {c} : pending'[d] = pending[d] /\ response'[d] = response[d]
        /\ UNCHANGED sessions
    BY <1>15 DEF Receive
  <2>4. ASSUME NEW d \in Calls
        PROVE  /\ pending'[d] # "none" =>
                     /\ pc'[d] \in Attempting /\ response'[d] = "none"
                     /\ pending'[d] = target'[d] /\ pending'[d] \in sessions'
               /\ pc'[d] \in Attempting /\ pending'[d] = "none" => response'[d] # "none"
               /\ pc'[d] \in Attempting => target'[d] \in Conns
    <3>1. CASE d = c
      BY <2>2, <2>3, <3>1
    <3>2. CASE d # c
      <4>1. /\ pc'[d] = pc[d] /\ target'[d] = target[d]
            /\ pending'[d] = pending[d] /\ response'[d] = response[d] /\ sessions' = sessions
        BY <2>2, <2>3, <3>2
      <4>2. QED
        BY <4>1
    <3>3. QED
      BY <3>1, <3>2
  <2>5. QED
    BY <2>4
<1>16. ASSUME NEW c \in Calls, Cancel(c) PROVE PendingExact' /\ TargetKnown'
  <2>1. PICK o \in Outcomes : GoOn(c, o) \/ EndCall(c, o)
    BY <1>16 DEF Cancel, Outcomes
  <2>2. /\ pc'[c] \in {"choosing", "ended"}
        /\ \A d \in Calls \ {c} : pc'[d] = pc[d] /\ target'[d] = target[d]
    BY <2>1, GoOnFacts
  <2>3. /\ pending'[c] = "none"
        /\ \A d \in Calls \ {c} : pending'[d] = pending[d] /\ response'[d] = response[d]
        /\ UNCHANGED sessions
    BY <1>16 DEF Cancel
  <2>4. ASSUME NEW d \in Calls
        PROVE  /\ pending'[d] # "none" =>
                     /\ pc'[d] \in Attempting /\ response'[d] = "none"
                     /\ pending'[d] = target'[d] /\ pending'[d] \in sessions'
               /\ pc'[d] \in Attempting /\ pending'[d] = "none" => response'[d] # "none"
               /\ pc'[d] \in Attempting => target'[d] \in Conns
    <3>1. CASE d = c
      BY <2>2, <2>3, <3>1
    <3>2. CASE d # c
      <4>1. /\ pc'[d] = pc[d] /\ target'[d] = target[d]
            /\ pending'[d] = pending[d] /\ response'[d] = response[d] /\ sessions' = sessions
        BY <2>2, <2>3, <3>2
      <4>2. QED
        BY <4>1
    <3>3. QED
      BY <3>1, <3>2
  <2>5. QED
    BY <2>4
<1>17. ASSUME NEW c \in Calls, SendToolStreamInput(c) PROVE PendingExact' /\ TargetKnown'
  BY <1>17 DEF SendToolStreamInput, hubVars, callVars
<1>18. ASSUME NEW c \in Calls, Consume(c) PROVE PendingExact' /\ TargetKnown'
  BY <1>18 DEF Consume, hubVars
<1>19. ASSUME NEW c \in Calls, NEW s \in Conns, Forward(c, s) PROVE PendingExact' /\ TargetKnown'
  BY <1>19 DEF Forward
<1>20. ASSUME NEW c \in Calls, NEW s \in Conns, ForwardFails(c, s) PROVE PendingExact' /\ TargetKnown'
  <2>1. PICK o \in Outcomes : GoOn(c, o) \/ EndCall(c, o)
    BY <1>20 DEF ForwardFails, Outcomes
  <2>2. /\ pc'[c] \in {"choosing", "ended"}
        /\ \A d \in Calls \ {c} : pc'[d] = pc[d] /\ target'[d] = target[d]
    BY <2>1, GoOnFacts
  <2>3. /\ pending'[c] = "none"
        /\ \A d \in Calls \ {c} : pending'[d] = pending[d] /\ response'[d] = response[d]
        /\ UNCHANGED sessions
    BY <1>20 DEF ForwardFails, hubVars
  <2>4. ASSUME NEW d \in Calls
        PROVE  /\ pending'[d] # "none" =>
                     /\ pc'[d] \in Attempting /\ response'[d] = "none"
                     /\ pending'[d] = target'[d] /\ pending'[d] \in sessions'
               /\ pc'[d] \in Attempting /\ pending'[d] = "none" => response'[d] # "none"
               /\ pc'[d] \in Attempting => target'[d] \in Conns
    <3>1. CASE d = c
      BY <2>2, <2>3, <3>1
    <3>2. CASE d # c
      <4>1. /\ pc'[d] = pc[d] /\ target'[d] = target[d]
            /\ pending'[d] = pending[d] /\ response'[d] = response[d] /\ sessions' = sessions
        BY <2>2, <2>3, <3>2
      <4>2. QED
        BY <4>1
    <3>3. QED
      BY <3>1, <3>2
  <2>5. QED
    BY <2>4
<1>21. CASE UNCHANGED vars
  BY <1>21 DEF vars
<1>22. QED
  BY <1>1, <1>2, <1>3, <1>4, <1>5, <1>6, <1>7, <1>8, <1>9, <1>10, <1>11, <1>12, <1>13,
     <1>14, <1>15, <1>16, <1>17, <1>18, <1>19, <1>20, <1>21, NextCases

(* The stream a reader waits for is pending: whoever changes that needs the lock. *)
LEMMA PushStep == CallInv /\ [Next]_vars => PushSafe'
<1> SUFFICES ASSUME CallInv, [Next]_vars PROVE PushSafe'
  OBVIOUS
<1> USE HubAssumption DEF CallInv, HubInv, TypeOK, PushSafe
<1>1. ASSUME NEW s \in Conns, RowStep(s) PROVE PushSafe'
  BY <1>1, RowStepFacts DEF hubVars, callVars, pipeVars
<1>2. ASSUME NEW s \in Conns, Register(s) PROVE PushSafe'
  BY <1>2 DEF Register, pipeVars, LockFree
<1>3. ASSUME NEW s \in Conns, CloseSession(s) PROVE PushSafe'
  BY <1>3 DEF CloseSession, pipeVars, Remove, LockFree
<1>4. ASSUME NEW s \in Conns, AdminCloseSession(s) PROVE PushSafe'
  BY <1>4 DEF AdminCloseSession, Remove, LockFree
<1>5. ASSUME NEW s \in Conns, Write(s) PROVE PushSafe'
  BY <1>5 DEF Write, hubVars, callVars
<1>6. ASSUME NEW s \in Conns, Push(s) PROVE PushSafe'
  BY <1>6 DEF Push, hubVars, callVars
<1>7. ASSUME NEW s \in Conns, PushTimesOut(s) PROVE PushSafe'
  BY <1>7 DEF PushTimesOut, hubVars, callVars
<1>8. ASSUME NEW s \in Conns, Reply(s) PROVE PushSafe'
  BY <1>8 DEF Reply, hubVars, callVars
<1>9. ASSUME NEW s \in Conns, OnPing(s) PROVE PushSafe'
  BY <1>9 DEF OnPing, hubVars, callVars
<1>10. ASSUME NEW s \in Conns, NEW c \in Calls, OnToolResult(s, c) PROVE PushSafe'
  BY <1>10 DEF OnToolResult, pipeVars, LockFree
<1>11. ASSUME NEW s \in Conns, NEW c \in Calls, OnUnknown(s, c) PROVE PushSafe'
  BY <1>11 DEF OnUnknown, hubVars, callVars
<1>12. ASSUME NEW s \in Conns, NEW c \in Calls, OnToolStreamChunk(s, c) PROVE PushSafe'
  BY <1>12 DEF OnToolStreamChunk, hubVars, callVars
<1>13. ASSUME NEW c \in Calls, SelectSessions(c) PROVE PushSafe'
  BY <1>13 DEF SelectSessions, hubVars, pipeVars
<1>14. ASSUME NEW c \in Calls, Send(c) PROVE PushSafe'
  BY <1>14 DEF Send, hubVars
<1>15. ASSUME NEW c \in Calls, Receive(c) PROVE PushSafe'
  BY <1>15 DEF Receive, pipeVars
<1>16. ASSUME NEW c \in Calls, Cancel(c) PROVE PushSafe'
  BY <1>16 DEF Cancel, LockFree
<1>17. ASSUME NEW c \in Calls, SendToolStreamInput(c) PROVE PushSafe'
  BY <1>17 DEF SendToolStreamInput, hubVars, callVars
<1>18. ASSUME NEW c \in Calls, Consume(c) PROVE PushSafe'
  BY <1>18 DEF Consume, hubVars
<1>19. ASSUME NEW c \in Calls, NEW s \in Conns, Forward(c, s) PROVE PushSafe'
  BY <1>19 DEF Forward, pipeVars, LockFree
<1>20. ASSUME NEW c \in Calls, NEW s \in Conns, ForwardFails(c, s) PROVE PushSafe'
  BY <1>20 DEF ForwardFails, hubVars, pipeVars
<1>21. CASE UNCHANGED vars
  BY <1>21 DEF vars
<1>22. QED
  BY <1>1, <1>2, <1>3, <1>4, <1>5, <1>6, <1>7, <1>8, <1>9, <1>10, <1>11, <1>12, <1>13,
     <1>14, <1>15, <1>16, <1>17, <1>18, <1>19, <1>20, <1>21, NextCases

(* A result comes from a client that has the call. *)
LEMMA ResultStep == CallInv /\ [Next]_vars => ResultGiven'
<1> SUFFICES ASSUME CallInv, [Next]_vars PROVE ResultGiven'
  OBVIOUS
<1> USE DEF CallInv, HubInv, TypeOK, ResultGiven
<1>1. ASSUME NEW s \in Conns, RowStep(s) PROVE ResultGiven'
  BY <1>1, RowStepFacts DEF hubVars, callVars, pipeVars
<1>2. ASSUME NEW s \in Conns, Register(s) PROVE ResultGiven'
  BY <1>2 DEF Register, pipeVars, FailPending
<1>3. ASSUME NEW s \in Conns, CloseSession(s) PROVE ResultGiven'
  BY <1>3 DEF CloseSession, pipeVars, Remove, FailPending
<1>4. ASSUME NEW s \in Conns, AdminCloseSession(s) PROVE ResultGiven'
  BY <1>4 DEF AdminCloseSession, Remove, FailPending
<1>5. ASSUME NEW s \in Conns, Write(s) PROVE ResultGiven'
  <2>1. \A c \in Calls, r \in Conns : given[c][r] > 0 => given'[c][r] > 0
    <3>1. CASE UNCHANGED given
      BY <3>1
    <3>2. CASE ~ UNCHANGED given
      <4>1. PICK d \in Calls : given' = [given EXCEPT ![d][s] = @ + 1]
        BY <1>5, <3>2 DEF Write
      <4>2. ASSUME NEW c \in Calls, NEW r \in Conns, given[c][r] > 0 PROVE given'[c][r] > 0
        <5>1. /\ given'[c][r] = IF c = d /\ r = s THEN given[c][r] + 1 ELSE given[c][r]
              /\ given[c][r] \in 0..1
          BY <4>1, GiveFacts
        <5>2. QED
          BY <4>2, <5>1
      <4>3. QED
        BY <4>2
    <3>3. QED
      BY <3>1, <3>2
  <2>2. QED
    BY <1>5, <2>1 DEF Write, hubVars
<1>6. ASSUME NEW s \in Conns, Push(s) PROVE ResultGiven'
  BY <1>6 DEF Push, hubVars
<1>7. ASSUME NEW s \in Conns, PushTimesOut(s) PROVE ResultGiven'
  BY <1>7 DEF PushTimesOut, hubVars
<1>8. ASSUME NEW s \in Conns, Reply(s) PROVE ResultGiven'
  BY <1>8 DEF Reply, hubVars
<1>9. ASSUME NEW s \in Conns, OnPing(s) PROVE ResultGiven'
  BY <1>9 DEF OnPing, hubVars
<1>10. ASSUME NEW s \in Conns, NEW c \in Calls, OnToolResult(s, c) PROVE ResultGiven'
  BY <1>10 DEF OnToolResult, pipeVars, Reads
<1>11. ASSUME NEW s \in Conns, NEW c \in Calls, OnUnknown(s, c) PROVE ResultGiven'
  BY <1>11 DEF OnUnknown, hubVars
<1>12. ASSUME NEW s \in Conns, NEW c \in Calls, OnToolStreamChunk(s, c) PROVE ResultGiven'
  BY <1>12 DEF OnToolStreamChunk, hubVars
<1>13. ASSUME NEW c \in Calls, SelectSessions(c) PROVE ResultGiven'
  BY <1>13 DEF SelectSessions, hubVars, pipeVars
<1>14. ASSUME NEW c \in Calls, Send(c) PROVE ResultGiven'
  BY <1>14 DEF Send, hubVars
<1>15. ASSUME NEW c \in Calls, Receive(c) PROVE ResultGiven'
  BY <1>15 DEF Receive, pipeVars
<1>16. ASSUME NEW c \in Calls, Cancel(c) PROVE ResultGiven'
  BY <1>16 DEF Cancel
<1>17. ASSUME NEW c \in Calls, SendToolStreamInput(c) PROVE ResultGiven'
  BY <1>17 DEF SendToolStreamInput, hubVars
<1>18. ASSUME NEW c \in Calls, Consume(c) PROVE ResultGiven'
  BY <1>18 DEF Consume, hubVars
<1>19. ASSUME NEW c \in Calls, NEW s \in Conns, Forward(c, s) PROVE ResultGiven'
  BY <1>19 DEF Forward, pipeVars
<1>20. ASSUME NEW c \in Calls, NEW s \in Conns, ForwardFails(c, s) PROVE ResultGiven'
  BY <1>20 DEF ForwardFails, hubVars, pipeVars
<1>21. CASE UNCHANGED vars
  BY <1>21 DEF vars
<1>22. QED
  BY <1>1, <1>2, <1>3, <1>4, <1>5, <1>6, <1>7, <1>8, <1>9, <1>10, <1>11, <1>12, <1>13,
     <1>14, <1>15, <1>16, <1>17, <1>18, <1>19, <1>20, <1>21, NextCases

-----------------------------------------------------------------------------
(* The calls: no session is sent a call twice *)

\* What OncePerSession says of one call and one session.
OnceAt(c, s) ==
    /\ Queued(c, s) => given[c][s] = 0
    /\ \A i, j \in 1 .. Len(outbound[s]) : outbound[s][i] = c /\ outbound[s][j] = c => i = j
    /\ s \in todo[c] => Untouched(c, s) /\ ~ Sending(c, s)
    /\ Sending(c, s) => Untouched(c, s)
    /\ pc[c] = "idle" => Untouched(c, s)

(* It is said of every call and session. *)
LEMMA OnceEverywhere == OncePerSession <=> \A c \in Calls, s \in Conns : OnceAt(c, s)
BY DEF OncePerSession, OnceAt

(* A step that sends nothing and gives no session a new part in a call. *)
LEMMA OnceKept ==
    ASSUME OncePerSession, UNCHANGED <<outbound, given>>,
           \A c \in Calls : pc'[c] = "idle" => pc[c] = "idle",
           \A c \in Calls, s \in Conns : s \in todo'[c] => s \in todo[c],
           \A c \in Calls, s \in Conns : Sending(c, s)' => Sending(c, s)
    PROVE  OncePerSession'
<1>1. ASSUME NEW c \in Calls, NEW s \in Conns PROVE OnceAt(c, s)'
  <2>1. OnceAt(c, s)
    BY OnceEverywhere
  <2>2. Queued(c, s)' <=> Queued(c, s)
    BY DEF Queued
  <2>3. Untouched(c, s)' <=> Untouched(c, s)
    BY <2>2 DEF Untouched
  <2>4. QED
    BY <2>1, <2>2, <2>3 DEF OnceAt
<1>2. QED
  BY <1>1 DEF OncePerSession, OnceAt

(* The sender puts its call into the channel. *)
LEMMA OnceSend ==
    ASSUME CallInv, NEW c \in Calls, Send(c)
    PROVE  OncePerSession'
<1>0. PICK r \in Conns : r = target[c]
  BY DEF Send, CallInv, TargetKnown, Attempting
<1> DEFINE q == outbound[r]
<1>1. /\ r \in Conns /\ q \in Seq(Calls \cup {"note"}) /\ Len(q) \in Nat
      /\ outbound' = [outbound EXCEPT ![r] = Append(q, c)]
      /\ UNCHANGED <<todo, target, given>>
  BY <1>0 DEF Send, CallInv, HubInv, TypeOK
<1>2. /\ Len(Append(q, c)) = Len(q) + 1
      /\ Append(q, c)[Len(q) + 1] = c
      /\ \A i \in 1 .. Len(q) : Append(q, c)[i] = q[i]
  BY <1>1, AppendElements
<1>3. outbound'[r] = Append(q, c) /\ \A s \in Conns \ {r} : outbound'[s] = outbound[s]
  BY <1>1 DEF CallInv, HubInv, TypeOK
<1>4. Sending(c, r) /\ Untouched(c, r) /\ r \notin todo[c]
  <2>1. Sending(c, r)
    BY <1>0 DEF Send, Sending
  <2>2. QED
    BY <1>1, <2>1 DEF CallInv, OncePerSession
<1>5. pc'[c] \in {"reading", "waiting"} /\ \A d \in Calls \ {c} : pc'[d] = pc[d]
  BY DEF Send, CallInv, HubInv, TypeOK
<1>6. ASSUME NEW d \in Calls, NEW s \in Conns, d # c \/ s # r PROVE OnceAt(d, s)'
  <2>1. OnceAt(d, s)
    BY OnceEverywhere DEF CallInv
  <2>2. CASE s = r
    <3>1. /\ \A i \in 1 .. Len(outbound'[r]) : outbound'[r][i] = d => i \in 1 .. Len(q) /\ q[i] = d
          /\ \A i \in 1 .. Len(q) : i \in 1 .. Len(outbound'[r]) /\ outbound'[r][i] = q[i]
      BY <1>1, <1>2, <1>3, <1>6, <2>2
    <3>2. Queued(d, s)' <=> Queued(d, s)
      BY <2>2, <3>1 DEF Queued
    <3>3. Untouched(d, s)' <=> Untouched(d, s)
      BY <1>1, <3>2 DEF Untouched
    <3>4. Sending(d, s)' <=> Sending(d, s)
      BY <1>1, <1>5, <1>6, <2>2 DEF Sending
    <3>5. QED
      BY <1>1, <1>5, <1>6, <2>1, <2>2, <3>1, <3>2, <3>3, <3>4 DEF OnceAt
  <2>3. CASE s # r
    <3>1. outbound'[s] = outbound[s]
      BY <1>3, <2>3
    <3>2. Queued(d, s)' <=> Queued(d, s)
      BY <3>1 DEF Queued
    <3>3. Untouched(d, s)' <=> Untouched(d, s)
      BY <1>1, <3>2 DEF Untouched
    <3>4. Sending(d, s)' => Sending(d, s)
      BY <1>1, <1>5 DEF Sending
    <3>5. pc'[d] = "idle" => pc[d] = "idle"
      BY <1>5
    <3>6. QED
      BY <1>1, <2>1, <3>1, <3>2, <3>3, <3>4, <3>5 DEF OnceAt
  <2>4. QED
    BY <2>2, <2>3
<1>7. OnceAt(c, r)'
  <2>1. given'[c][r] = 0
    BY <1>1, <1>4 DEF Untouched
  <2>2. \A i \in 1 .. Len(outbound'[r]) : outbound'[r][i] = c => i = Len(q) + 1
    BY <1>1, <1>2, <1>3, <1>4 DEF Untouched, Queued
  <2>3. ~ Sending(c, r)' /\ pc'[c] # "idle" /\ r \notin todo'[c]
    BY <1>1, <1>4, <1>5 DEF Sending
  <2>4. QED
    BY <2>1, <2>2, <2>3 DEF OnceAt
<1>8. ASSUME NEW d \in Calls, NEW s \in Conns PROVE OnceAt(d, s)'
  BY <1>6, <1>7
<1>9. QED
  BY <1>8 DEF OncePerSession, OnceAt

(* The writer takes the first message out of the channel; if it is a call, *)
(* the client may get it.                                                  *)
LEMMA OnceWrite ==
    ASSUME CallInv, NEW r \in Conns, Write(r)
    PROVE  OncePerSession'
<1> DEFINE q == outbound[r]
<1>1. /\ q \in Seq(Calls \cup {"note"}) /\ q # <<>>
      /\ outbound' = [outbound EXCEPT ![r] = Tail(q)]
      /\ UNCHANGED <<pc, todo, target>>
  BY DEF Write, CallInv, HubInv, TypeOK, callVars
<1>2. /\ Len(q) \in Nat \ {0}
      /\ Len(Tail(q)) = Len(q) - 1
      /\ \A i \in 1 .. Len(Tail(q)) : Tail(q)[i] = q[i + 1]
      /\ Head(q) = q[1]
  BY <1>1, TailElements
<1>3. outbound'[r] = Tail(q) /\ \A s \in Conns \ {r} : outbound'[s] = outbound[s]
  BY <1>1 DEF CallInv, HubInv, TypeOK
<1>4. /\ \A d \in Calls, s \in Conns : d # Head(q) \/ s # r => given'[d][s] = given[d][s]
      /\ \A d \in Calls, s \in Conns : d = Head(q) /\ s = r => given'[d][s] \in {given[d][s], given[d][s] + 1}
  <2>1. CASE UNCHANGED given
    BY <2>1
  <2>2. CASE ~ UNCHANGED given
    <3>1. Head(q) \in Calls /\ given' = [given EXCEPT ![Head(q)][r] = @ + 1]
      BY <2>2 DEF Write
    <3>2. QED
      BY <3>1, GiveFacts DEF CallInv, HubInv
  <2>3. QED
    BY <2>1, <2>2
<1>5. ASSUME NEW d \in Calls, NEW s \in Conns PROVE OnceAt(d, s)'
  <2>1. OnceAt(d, s) /\ (Sending(d, s)' <=> Sending(d, s))
    BY <1>1, OnceEverywhere DEF CallInv, Sending
  <2>2. CASE s # r
    <3>1. outbound'[s] = outbound[s] /\ given'[d][s] = given[d][s]
      BY <1>3, <1>4, <2>2
    <3>2. Queued(d, s)' <=> Queued(d, s)
      BY <3>1 DEF Queued
    <3>3. Untouched(d, s)' <=> Untouched(d, s)
      BY <3>1, <3>2 DEF Untouched
    <3>4. QED
      BY <1>1, <2>1, <3>1, <3>2, <3>3 DEF OnceAt
  <2>3. CASE s = r
    <3>1. \A i \in 1 .. Len(outbound'[r]) :
              i + 1 \in 1 .. Len(q) /\ i + 1 # 1 /\ outbound'[r][i] = q[i + 1]
      BY <1>2, <1>3
    <3>2. Queued(d, s)' => Queued(d, s) /\ d # Head(q)
      <4> SUFFICES ASSUME NEW i \in 1 .. Len(outbound'[r]), outbound'[r][i] = d
                   PROVE  Queued(d, r) /\ d # Head(q)
        BY <2>3 DEF Queued
      <4>1. i + 1 \in 1 .. Len(q) /\ i + 1 # 1 /\ q[i + 1] = d /\ 1 \in 1 .. Len(q)
        BY <3>1, <1>2
      <4>2. q[1] # d
        BY <4>1, <2>1, <2>3 DEF OnceAt
      <4>3. QED
        BY <4>1, <4>2, <1>2 DEF Queued
    <3>3. Untouched(d, s) => d # Head(q)
      BY <1>2, <2>3 DEF Untouched, Queued
    <3>4. Untouched(d, s) => Untouched(d, s)'
      BY <1>4, <3>2, <3>3 DEF Untouched
    <3>5. Queued(d, s)' => given'[d][s] = 0
      BY <1>4, <2>1, <3>2 DEF OnceAt
    <3>6. ASSUME NEW i \in 1 .. Len(outbound'[s]), NEW j \in 1 .. Len(outbound'[s]),
                 outbound'[s][i] = d, outbound'[s][j] = d
          PROVE  i = j
      <4>1. /\ i + 1 \in 1 .. Len(q) /\ j + 1 \in 1 .. Len(q) /\ q[i + 1] = d /\ q[j + 1] = d
            /\ i \in Int /\ j \in Int
        BY <2>3, <3>1, <3>6, <1>2, <1>3
      <4>2. i + 1 = j + 1
        BY <4>1, <2>1, <2>3 DEF OnceAt
      <4>3. QED
        BY <4>1, <4>2
    <3>7. QED
      BY <1>1, <2>1, <3>4, <3>5, <3>6 DEF OnceAt
  <2>4. QED
    BY <2>2, <2>3
<1>6. QED
  BY <1>5 DEF OncePerSession, OnceAt

(* Every step keeps a call at most once with each session. *)
LEMMA OnceStep == CallInv /\ [Next]_vars => OncePerSession'
<1> SUFFICES ASSUME CallInv, [Next]_vars PROVE OncePerSession'
  OBVIOUS
<1> USE DEF CallInv, HubInv
<1>1. ASSUME NEW s \in Conns, RowStep(s) PROVE OncePerSession'
  BY <1>1, RowStepFacts, OnceKept DEF callVars, pipeVars, Sending
<1>2. ASSUME NEW s \in Conns, Register(s) PROVE OncePerSession'
  BY <1>2, OnceKept DEF Register, callVars, pipeVars, Sending
<1>3. ASSUME NEW s \in Conns, CloseSession(s) PROVE OncePerSession'
  BY <1>3, OnceKept DEF CloseSession, callVars, pipeVars, Sending
<1>4. ASSUME NEW s \in Conns, AdminCloseSession(s) PROVE OncePerSession'
  <2>1. CASE Len(outbound[s]) < OutboundCap
    BY <1>4, <2>1, NoteKeeps DEF AdminCloseSession, callVars
  <2>2. CASE ~ (Len(outbound[s]) < OutboundCap)
    BY <1>4, <2>2, OnceKept DEF AdminCloseSession, callVars, Sending
  <2>3. QED
    BY <2>1, <2>2
<1>5. ASSUME NEW s \in Conns, Write(s) PROVE OncePerSession'
  BY <1>5, OnceWrite
<1>6. ASSUME NEW s \in Conns, Push(s) PROVE OncePerSession'
  BY <1>6, OnceKept DEF Push, callVars, Sending
<1>7. ASSUME NEW s \in Conns, PushTimesOut(s) PROVE OncePerSession'
  BY <1>7, OnceKept DEF PushTimesOut, callVars, Sending
<1>8. ASSUME NEW s \in Conns, Reply(s) PROVE OncePerSession'
  BY <1>8, NoteKeeps DEF Reply, callVars
<1>9. ASSUME NEW s \in Conns, OnPing(s) PROVE OncePerSession'
  BY <1>9, OnceKept DEF OnPing, callVars, Sending
<1>10. ASSUME NEW s \in Conns, NEW c \in Calls, OnToolResult(s, c) PROVE OncePerSession'
  BY <1>10, OnceKept DEF OnToolResult, callVars, pipeVars, Sending
<1>11. ASSUME NEW s \in Conns, NEW c \in Calls, OnUnknown(s, c) PROVE OncePerSession'
  BY <1>11, OnceKept DEF OnUnknown, callVars, Sending
<1>12. ASSUME NEW s \in Conns, NEW c \in Calls, OnToolStreamChunk(s, c) PROVE OncePerSession'
  BY <1>12, OnceKept DEF OnToolStreamChunk, callVars, Sending
<1>13. ASSUME NEW c \in Calls, SelectSessions(c) PROVE OncePerSession'
  <2>1. PICK S \in SUBSET sessions : todo' = [todo EXCEPT ![c] = S]
    BY <1>13 DEF SelectSessions
  <2>2. /\ pc[c] = "idle" /\ pc'[c] = "choosing" /\ \A d \in Calls \ {c} : pc'[d] = pc[d]
        /\ UNCHANGED <<outbound, given, target>>
    BY <1>13 DEF SelectSessions, pipeVars, TypeOK
  <2>3. ASSUME NEW d \in Calls, NEW r \in Conns PROVE OnceAt(d, r)'
    <3>1. OnceAt(d, r)
      BY OnceEverywhere
    <3>2. (Queued(d, r)' <=> Queued(d, r)) /\ (Untouched(d, r)' <=> Untouched(d, r))
      BY <2>2 DEF Queued, Untouched
    <3>3. CASE d = c
      BY <2>2, <3>1, <3>2, <3>3 DEF OnceAt, Sending
    <3>4. CASE d # c
      <4>1. todo'[d] = todo[d] /\ pc'[d] = pc[d] /\ (Sending(d, r)' <=> Sending(d, r))
        BY <2>1, <2>2, <3>4 DEF Sending, TypeOK
      <4>2. QED
        BY <2>2, <3>1, <3>2, <4>1 DEF OnceAt
    <3>5. QED
      BY <3>3, <3>4
  <2>4. QED
    BY <2>3 DEF OncePerSession, OnceAt
<1>14. ASSUME NEW c \in Calls, Send(c) PROVE OncePerSession'
  BY <1>14, OnceSend
<1>15. ASSUME NEW c \in Calls, Receive(c) PROVE OncePerSession'
  <2>1. PICK o \in Outcomes : GoOn(c, o) \/ EndCall(c, o)
    BY <1>15 DEF Receive, Outcomes
  <2>2. /\ pc'[c] \in {"choosing", "ended"}
        /\ \A d \in Calls \ {c} : pc'[d] = pc[d] /\ target'[d] = target[d]
    BY <2>1, GoOnFacts
  <2>3. \A d \in Calls : todo'[d] \subseteq todo[d]
    BY <1>15 DEF Receive, TypeOK
  <2>4. UNCHANGED <<outbound, given>>
    BY <1>15 DEF Receive, pipeVars
  <2>5. ASSUME NEW d \in Calls, NEW r \in Conns, Sending(d, r)' PROVE Sending(d, r)
    BY <2>2, <2>5 DEF Sending
  <2>6. \A d \in Calls : pc'[d] = "idle" => pc[d] = "idle"
    BY <2>2
  <2>7. QED
    BY <2>3, <2>4, <2>5, <2>6, OnceKept
<1>16. ASSUME NEW c \in Calls, Cancel(c) PROVE OncePerSession'
  <2>1. PICK o \in Outcomes : GoOn(c, o) \/ EndCall(c, o)
    BY <1>16 DEF Cancel, Outcomes
  <2>2. /\ pc'[c] \in {"choosing", "ended"}
        /\ \A d \in Calls \ {c} : pc'[d] = pc[d] /\ target'[d] = target[d]
    BY <2>1, GoOnFacts
  <2>3. \A d \in Calls : todo'[d] \subseteq todo[d]
    BY <1>16 DEF Cancel, TypeOK
  <2>4. UNCHANGED <<outbound, given>>
    BY <1>16 DEF Cancel, pipeVars
  <2>5. ASSUME NEW d \in Calls, NEW r \in Conns, Sending(d, r)' PROVE Sending(d, r)
    BY <2>2, <2>5 DEF Sending
  <2>6. \A d \in Calls : pc'[d] = "idle" => pc[d] = "idle"
    BY <2>2
  <2>7. QED
    BY <2>3, <2>4, <2>5, <2>6, OnceKept
<1>17. ASSUME NEW c \in Calls, SendToolStreamInput(c) PROVE OncePerSession'
  <2>1. pending[c] \in Conns
    BY <1>17 DEF SendToolStreamInput, TypeOK
  <2>2. QED
    BY <1>17, <2>1, NoteKeeps DEF SendToolStreamInput, callVars
<1>18. ASSUME NEW c \in Calls, Consume(c) PROVE OncePerSession'
  <2>1. \A d \in Calls : pc'[d] # pc[d] => pc'[d] = "waiting"
    BY <1>18 DEF Consume, TypeOK
  <2>2. UNCHANGED <<outbound, given, todo, target>>
    BY <1>18 DEF Consume
  <2>3. QED
    BY <2>1, <2>2, OnceKept DEF Sending
<1>19. ASSUME NEW c \in Calls, NEW s \in Conns, Forward(c, s) PROVE OncePerSession'
  <2>1. /\ s \in todo[c] /\ todo'[c] = todo[c] \ {s} /\ target'[c] = s /\ pc'[c] = "sending"
        /\ \A d \in Calls \ {c} : pc'[d] = pc[d] /\ todo'[d] = todo[d] /\ target'[d] = target[d]
        /\ UNCHANGED <<outbound, given>>
    BY <1>19 DEF Forward, pipeVars, TypeOK
  <2>2. ASSUME NEW d \in Calls, NEW r \in Conns PROVE OnceAt(d, r)'
    <3>1. OnceAt(d, r)
      BY OnceEverywhere
    <3>2. (Queued(d, r)' <=> Queued(d, r)) /\ (Untouched(d, r)' <=> Untouched(d, r))
      BY <2>1 DEF Queued, Untouched
    <3>3. CASE d = c
      BY <2>1, <3>1, <3>2, <3>3 DEF OnceAt, Sending
    <3>4. CASE d # c
      BY <2>1, <3>1, <3>2, <3>4 DEF OnceAt, Sending
    <3>5. QED
      BY <3>3, <3>4
  <2>3. QED
    BY <2>2 DEF OncePerSession, OnceAt
<1>20. ASSUME NEW c \in Calls, NEW s \in Conns, ForwardFails(c, s) PROVE OncePerSession'
  <2>1. PICK o \in Outcomes : GoOn(c, o) \/ EndCall(c, o)
    BY <1>20 DEF ForwardFails, Outcomes
  <2>2. /\ pc'[c] \in {"choosing", "ended"}
        /\ \A d \in Calls \ {c} : pc'[d] = pc[d] /\ target'[d] = target[d]
    BY <2>1, GoOnFacts
  <2>3. \A d \in Calls : todo'[d] \subseteq todo[d]
    <3>1. PICK S \in SUBSET todo[c] : todo' = [todo EXCEPT ![c] = S]
      BY <1>20 DEF ForwardFails
    <3>2. QED
      BY <3>1 DEF TypeOK
  <2>4. UNCHANGED <<outbound, given>>
    BY <1>20 DEF ForwardFails, pipeVars
  <2>5. ASSUME NEW d \in Calls, NEW r \in Conns, Sending(d, r)' PROVE Sending(d, r)
    BY <2>2, <2>5 DEF Sending
  <2>6. \A d \in Calls : pc'[d] = "idle" => pc[d] = "idle"
    BY <2>2
  <2>7. QED
    BY <2>3, <2>4, <2>5, <2>6, OnceKept
<1>21. CASE UNCHANGED vars
  BY <1>21, OnceKept DEF vars, Sending
<1>22. QED
  BY <1>1, <1>2, <1>3, <1>4, <1>5, <1>6, <1>7, <1>8, <1>9, <1>10, <1>11, <1>12, <1>13,
     <1>14, <1>15, <1>16, <1>17, <1>18, <1>19, <1>20, <1>21, NextCases

(* The invariant about the calls is inductive. *)
LEMMA CallInvStep == CallInv /\ [Next]_vars => CallInv'
BY TypeStep, ConsistentStep, PendingStep, PushStep, ResultStep, OnceStep DEF CallInv, HubInv

-----------------------------------------------------------------------------
(* The rows *)

(* Calls, messages and chunks concern neither rows nor sessions. *)
LEMMA RowsUntouched ==
    ASSUME RowInv, UNCHANGED <<conn, admin, rows, online, stray, sessions>>
    PROVE  RowInv'
BY DEF RowInv, SessionsLive, RowsOwned, RowsSingle, OnlineCared, Cared

(* A client is marked offline only when it has no row, unless that fails. *)
LEMMA MarkedOffline ==
    ASSUME TypeOK, NEW k \in Clients, MarkOffline(k)
    PROVE  /\ online' \subseteq online /\ stray \subseteq stray'
           /\ k \in online' /\ k \notin stray' => \E s \in rows : ClientOf[s] = k
BY DEF MarkOffline, Fails, TypeOK

(* What happens to the rows of one client does not concern another one. *)
LEMMA OtherClients ==
    ASSUME TypeOK, RowInv, NEW s \in Conns, NEW k \in Clients, k # ClientOf[s],
           k \in online', k \notin stray',
           k \in online' => k \in online, k \in stray => k \in stray',
           UNCHANGED sessions,
           \A r \in Conns \ {s} : UNCHANGED <<conn[r], admin[r]>>,
           \A r \in Conns : ClientOf[r] = k /\ r \in rows => r \in rows'
    PROVE  \E r \in Conns : ClientOf[r] = k /\ Cared(r)'
<1>1. PICK r \in Conns : ClientOf[r] = k /\ Cared(r)
  BY DEF RowInv, OnlineCared
<1>2. r # s
  BY <1>1
<1>3. QED
  BY <1>1, <1>2 DEF Cared

(* Every step keeps the invariant about the rows. *)
LEMMA RowInvStep == IInv /\ [Next]_vars => RowInv'
<1> SUFFICES ASSUME IInv, [Next]_vars PROVE RowInv'
  OBVIOUS
<1>0. TypeOK /\ HubConsistent /\ OwnSession /\ RowInv
  BY DEF IInv, CallInv, HubInv
<1>k. \A s \in Conns : ClientOf[s] \in Clients
  BY HubAssumption
<1>t. /\ rows \subseteq Conns /\ sessions \subseteq Conns
      /\ conn \in [Conns -> {"new", "upserted", "replaced", "stored", "online", "lost",
                             "closing", "dropped", "marking", "gone"}]
      /\ admin \in [Conns -> {"none", "closing", "marking", "done"}]
  BY <1>0 DEF TypeOK
<1> USE <1>0, <1>k, <1>t
<1>a. ASSUME NEW s \in Conns, UpsertBridgeClient(s) PROVE RowInv'
  <2>1. /\ conn[s] = "new" /\ UNCHANGED <<admin, rows, sessions>>
        /\ \/ conn' = [conn EXCEPT ![s] = "upserted"] /\ online' = online \cup {ClientOf[s]} /\ stray' = stray
           \/ /\ conn' = [conn EXCEPT ![s] = "gone"] /\ stray' = stray \cup {ClientOf[s]}
              /\ online' \subseteq online \cup {ClientOf[s]}
    BY <1>a DEF UpsertBridgeClient, ConnAt, Fails, hubVars
  <2>a. \A r \in Conns \ {s} : UNCHANGED <<conn[r], admin[r]>>
    BY <2>1
  <2>b. s \notin sessions /\ (s \in rows => ClientOf[s] \in stray)
    BY <2>1 DEF RowInv, SessionsLive, RowsOwned
  <2>c. stray \subseteq stray' /\ online' \subseteq online \cup {ClientOf[s]}
    BY <2>1
  <2>2. SessionsLive' /\ RowsOwned' /\ RowsSingle'
    BY <2>1, <2>a, <2>b, <2>c DEF RowInv, SessionsLive, RowsOwned, RowsSingle
  <2>3. ASSUME NEW k \in Clients, k \in online', k \notin stray'
        PROVE  \E r \in Conns : ClientOf[r] = k /\ Cared(r)'
    <3>1. CASE k = ClientOf[s]
      BY <2>1, <2>3, <3>1 DEF Cared
    <3>2. CASE k # ClientOf[s]
      BY <2>1, <2>3, <2>a, <2>c, <3>2, OtherClients
    <3>3. QED
      BY <3>1, <3>2
  <2>4. QED
    BY <2>2, <2>3 DEF RowInv, OnlineCared
<1>1. ASSUME NEW s \in Conns, ReplaceSessions(s) PROVE RowInv'
  <2>1. /\ conn[s] = "upserted" /\ UNCHANGED <<admin, online, sessions>>
        /\ rows' \subseteq rows /\ \A t \in rows : ClientOf[t] # ClientOf[s] => t \in rows'
        /\ \/ /\ conn' = [conn EXCEPT ![s] = "replaced"] /\ stray' = stray \ {ClientOf[s]}
              /\ \A t \in rows' : ClientOf[t] # ClientOf[s]
           \/ conn' = [conn EXCEPT ![s] = "gone"] /\ stray' = stray \cup {ClientOf[s]}
    BY <1>1 DEF ReplaceSessions, ConnAt, Fails, hubVars
  <2>a. \A r \in Conns \ {s} : UNCHANGED <<conn[r], admin[r]>>
    BY <2>1
  <2>b. s \notin sessions
    BY <2>1 DEF RowInv, SessionsLive
  <2>c. \A k \in Clients \ {ClientOf[s]} : k \in stray => k \in stray'
    BY <2>1
  <2>2. SessionsLive'
    BY <2>1, <2>a, <2>b DEF RowInv, SessionsLive
  <2>3. \A r \in rows' : ClientOf[r] \notin stray' => r # s /\ ClientOf[r] \notin stray /\ r \in rows
    <3> SUFFICES ASSUME NEW r \in rows', ClientOf[r] \notin stray'
                 PROVE  r # s /\ ClientOf[r] \notin stray /\ r \in rows
      OBVIOUS
    <3>1. r \in rows /\ r \in Conns /\ ClientOf[r] \in Clients
      BY <2>1
    <3>2. ClientOf[r] # ClientOf[s]
      BY <2>1
    <3>3. QED
      BY <2>c, <3>1, <3>2
  <2>4. RowsOwned' /\ RowsSingle'
    BY <2>1, <2>3, <2>a DEF RowInv, RowsOwned, RowsSingle
  <2>5. ASSUME NEW k \in Clients, k \in online', k \notin stray'
        PROVE  \E r \in Conns : ClientOf[r] = k /\ Cared(r)'
    <3>1. CASE k = ClientOf[s]
      BY <2>1, <2>5, <3>1 DEF Cared
    <3>2. CASE k # ClientOf[s]
      BY <2>1, <2>5, <2>a, <2>c, <3>2, OtherClients
    <3>3. QED
      BY <3>1, <3>2
  <2>6. QED
    BY <2>2, <2>4, <2>5 DEF RowInv, OnlineCared
<1>2. ASSUME NEW s \in Conns, CreateBridgeSession(s) PROVE RowInv'
  <2>1. /\ conn[s] = "replaced" /\ conn' = [conn EXCEPT ![s] = "stored"]
        /\ rows' = rows \cup {s} /\ online' = online \cup {ClientOf[s]}
        /\ stray' = IF Overlaps(s) THEN stray \cup {ClientOf[s]} ELSE stray
        /\ UNCHANGED <<admin, sessions>>
    BY <1>2 DEF CreateBridgeSession, ConnAt, hubVars
  <2>2. SessionsLive' /\ RowsOwned'
    BY <2>1 DEF RowInv, SessionsLive, RowsOwned
  <2>3. RowsSingle'
    BY <2>1 DEF RowInv, RowsSingle, TypeOK, Overlaps
  <2>4. OnlineCared'
    BY <2>1 DEF RowInv, OnlineCared, Cared
  <2>5. QED
    BY <2>2, <2>3, <2>4 DEF RowInv
<1>3. ASSUME NEW s \in Conns, RegistrationFails(s) PROVE RowInv'
  <2>1. /\ conn[s] = "replaced" /\ conn' = [conn EXCEPT ![s] = "gone"]
        /\ online' \subseteq online /\ rows \subseteq rows' /\ rows' \subseteq rows \cup {s}
        /\ \/ stray' = stray /\ rows' = rows /\ ClientOf[s] \notin online'
           \/ stray' = stray \cup {ClientOf[s]}
        /\ UNCHANGED <<admin, sessions>>
    BY <1>3 DEF RegistrationFails, ConnAt, Fails, hubVars
  <2>a. \A r \in Conns \ {s} : UNCHANGED <<conn[r], admin[r]>>
    BY <2>1
  <2>b. s \notin sessions /\ (s \in rows => ClientOf[s] \in stray) /\ stray \subseteq stray'
    BY <2>1 DEF RowInv, SessionsLive, RowsOwned
  <2>c. \A r \in rows' : ClientOf[r] \notin stray' => r # s /\ ClientOf[r] \notin stray /\ r \in rows
    BY <2>1, <2>b
  <2>2. SessionsLive' /\ RowsOwned'
    BY <2>1, <2>a, <2>b, <2>c DEF RowInv, SessionsLive, RowsOwned
  <2>3. RowsSingle'
    BY <2>c DEF RowInv, RowsSingle
  <2>4. ASSUME NEW k \in Clients, k \in online', k \notin stray'
        PROVE  \E r \in Conns : ClientOf[r] = k /\ Cared(r)'
    <3>1. k # ClientOf[s]
      BY <2>1, <2>4
    <3>2. QED
      BY <2>1, <2>4, <2>a, <2>b, <3>1, OtherClients
  <2>5. QED
    BY <2>2, <2>3, <2>4 DEF RowInv, OnlineCared
<1>4. ASSUME NEW s \in Conns, Lose(s) PROVE RowInv'
  <2>1. /\ conn[s] = "online" /\ conn' = [conn EXCEPT ![s] = "lost"]
        /\ UNCHANGED <<admin, rows, online, stray, sessions>>
    BY <1>4 DEF Lose, ConnAt, rowVars, hubVars
  <2>2. SessionsLive' /\ RowsOwned' /\ RowsSingle'
    BY <2>1 DEF RowInv, SessionsLive, RowsOwned, RowsSingle
  <2>3. OnlineCared'
    BY <2>1 DEF RowInv, OnlineCared, Cared
  <2>4. QED
    BY <2>2, <2>3 DEF RowInv
<1>5. ASSUME NEW s \in Conns, CloseRow(s) PROVE RowInv'
  <2>1. /\ conn[s] \in {"closing", "dropped"}
        /\ \/ /\ conn' = [conn EXCEPT ![s] = IF conn[s] = "closing" THEN "marking" ELSE "gone"]
              /\ rows' = rows \ {s} /\ stray' = stray
           \/ /\ conn' = [conn EXCEPT ![s] = "gone"]
              /\ rows' \in {rows, rows \ {s}} /\ stray' = stray \cup {ClientOf[s]}
        /\ UNCHANGED <<admin, online, sessions>>
    BY <1>5 DEF CloseRow, ConnAt, Fails, hubVars
  <2>a. \A r \in Conns \ {s} : UNCHANGED <<conn[r], admin[r]>>
    BY <2>1
  <2>b. s \notin sessions /\ stray \subseteq stray' /\ \A r \in rows : r # s => r \in rows'
    BY <2>1 DEF RowInv, SessionsLive
  <2>c. \A r \in rows' : ClientOf[r] \notin stray' => r # s /\ ClientOf[r] \notin stray /\ r \in rows
    BY <2>1
  <2>2. SessionsLive' /\ RowsOwned' /\ RowsSingle'
    <3>1. SessionsLive'
      BY <2>1, <2>a, <2>b DEF RowInv, SessionsLive
    <3>2. RowsOwned'
      BY <2>1, <2>a, <2>c DEF RowInv, RowsOwned
    <3>3. RowsSingle'
      BY <2>c DEF RowInv, RowsSingle
    <3>4. QED
      BY <3>1, <3>2, <3>3
  <2>3. ASSUME NEW k \in Clients, k \in online', k \notin stray'
        PROVE  \E r \in Conns : ClientOf[r] = k /\ Cared(r)'
    <3>1. CASE k # ClientOf[s]
      BY <2>1, <2>3, <2>a, <2>b, <3>1, OtherClients
    <3>2. CASE k = ClientOf[s]
      <4>1. /\ k \notin stray /\ rows' = rows \ {s}
            /\ conn' = [conn EXCEPT ![s] = IF conn[s] = "closing" THEN "marking" ELSE "gone"]
        BY <2>1, <2>3, <3>2
      <4>2. PICK r \in Conns : ClientOf[r] = k /\ Cared(r)
        BY <2>1, <2>3, <4>1 DEF RowInv, OnlineCared
      <4>3. CASE r # s
        BY <2>1, <4>1, <4>2, <4>3 DEF Cared
      <4>4. CASE r = s /\ conn[s] = "closing"
        BY <4>1, <4>2, <4>4 DEF Cared
      <4>5. CASE r = s /\ conn[s] = "dropped"
        <5>1. s \notin sessions
          BY <4>5 DEF RowInv, SessionsLive
        <5>2. s \in rows => admin[s] = "closing"
          BY <3>2, <4>1, <4>5 DEF RowInv, RowsOwned
        <5>3. admin'[s] \in {"closing", "marking"}
          BY <2>1, <4>2, <4>5, <5>1, <5>2 DEF Cared
        <5>4. QED
          BY <4>2, <4>5, <5>3 DEF Cared
      <4>6. QED
        BY <2>1, <4>3, <4>4, <4>5
    <3>3. QED
      BY <3>1, <3>2
  <2>4. QED
    BY <2>2, <2>3 DEF RowInv, OnlineCared
<1>6. ASSUME NEW s \in Conns, MarkGone(s) PROVE RowInv'
  <2>1. /\ conn[s] = "marking" /\ conn' = [conn EXCEPT ![s] = "gone"]
        /\ MarkOffline(ClientOf[s]) /\ UNCHANGED <<admin, rows, sessions>>
    BY <1>6 DEF MarkGone, ConnAt, hubVars
  <2>2. /\ online' \subseteq online /\ stray \subseteq stray'
        /\ ClientOf[s] \in online' /\ ClientOf[s] \notin stray' => \E r \in rows : ClientOf[r] = ClientOf[s]
    BY <2>1, MarkedOffline
  <2>3. SessionsLive' /\ RowsOwned' /\ RowsSingle'
    BY <2>1, <2>2 DEF RowInv, SessionsLive, RowsOwned, RowsSingle
  <2>4. ASSUME NEW k \in Clients, k \in online', k \notin stray'
        PROVE  \E r \in Conns : ClientOf[r] = k /\ Cared(r)'
    <3>1. CASE k = ClientOf[s]
      BY <2>1, <2>2, <2>4, <3>1 DEF Cared
    <3>2. CASE k # ClientOf[s]
      BY <2>1, <2>2, <2>4, <3>2, OtherClients
    <3>3. QED
      BY <3>1, <3>2
  <2>5. QED
    BY <2>3, <2>4 DEF RowInv, OnlineCared
<1>7. ASSUME NEW s \in Conns, AdminCloseRow(s) PROVE RowInv'
  <2>1. /\ admin[s] = "closing" /\ admin' = [admin EXCEPT ![s] = "marking"]
        /\ \/ rows' = rows \ {s} /\ stray' = stray
           \/ rows' = rows /\ stray' = stray \cup {ClientOf[s]}
        /\ UNCHANGED <<conn, online, sessions>>
    BY <1>7 DEF AdminCloseRow, Fails, hubVars
  <2>2. SessionsLive' /\ RowsOwned' /\ RowsSingle'
    BY <2>1 DEF RowInv, SessionsLive, RowsOwned, RowsSingle
  <2>3. ASSUME NEW k \in Clients, k \in online', k \notin stray'
        PROVE  \E r \in Conns : ClientOf[r] = k /\ Cared(r)'
    <3>1. PICK r \in Conns : ClientOf[r] = k /\ Cared(r)
      BY <2>1, <2>3 DEF RowInv, OnlineCared
    <3>2. QED
      BY <2>1, <3>1 DEF Cared
  <2>4. QED
    BY <2>2, <2>3 DEF RowInv, OnlineCared
<1>8. ASSUME NEW s \in Conns, AdminMarkOffline(s) PROVE RowInv'
  <2>1. /\ admin[s] = "marking" /\ admin' = [admin EXCEPT ![s] = "done"]
        /\ MarkOffline(ClientOf[s]) /\ UNCHANGED <<conn, rows, sessions>>
    BY <1>8 DEF AdminMarkOffline, hubVars
  <2>2. /\ online' \subseteq online /\ stray \subseteq stray'
        /\ ClientOf[s] \in online' /\ ClientOf[s] \notin stray' => \E r \in rows : ClientOf[r] = ClientOf[s]
    BY <2>1, MarkedOffline
  <2>3. SessionsLive' /\ RowsOwned' /\ RowsSingle'
    BY <2>1, <2>2 DEF RowInv, SessionsLive, RowsOwned, RowsSingle
  <2>4. ASSUME NEW k \in Clients, k \in online', k \notin stray'
        PROVE  \E r \in Conns : ClientOf[r] = k /\ Cared(r)'
    <3>1. CASE k = ClientOf[s]
      BY <2>1, <2>2, <2>4, <3>1 DEF Cared
    <3>2. CASE k # ClientOf[s]
      BY <2>1, <2>2, <2>4, <3>2, OtherClients
    <3>3. QED
      BY <3>1, <3>2
  <2>5. QED
    BY <2>3, <2>4 DEF RowInv, OnlineCared
<1>b. ASSUME NEW s \in Conns, AdminCloseAbsent(s) PROVE RowInv'
  <2>1. s \in rows /\ rows' = rows \ {s} /\ UNCHANGED <<conn, admin, online, stray, sessions>>
    BY <1>b DEF AdminCloseAbsent, hubVars
  <2>2. SessionsLive' /\ RowsOwned' /\ RowsSingle'
    BY <2>1 DEF RowInv, SessionsLive, RowsOwned, RowsSingle
  <2>3. ASSUME NEW k \in Clients, k \in online', k \notin stray'
        PROVE  \E r \in Conns : ClientOf[r] = k /\ Cared(r)'
    <3>1. PICK r \in Conns : ClientOf[r] = k /\ Cared(r)
      BY <2>1, <2>3 DEF RowInv, OnlineCared
    <3>2. CASE r # s
      BY <2>1, <3>1, <3>2 DEF Cared
    <3>3. CASE r = s
      BY <2>1, <2>3, <3>1, <3>3 DEF Cared, RowInv, RowsOwned
    <3>4. QED
      BY <3>2, <3>3
  <2>4. QED
    BY <2>2, <2>3 DEF RowInv, OnlineCared
<1>9. ASSUME NEW s \in Conns, Register(s) PROVE RowInv'
  <2> DEFINE p == byClient[ClientOf[s]]
  <2>1. /\ conn[s] = "stored" /\ conn' = [conn EXCEPT ![s] = "online"]
        /\ sessions' = (sessions \ ({p} \ {"none"})) \cup {s}
        /\ stray' = IF Overlaps(s) THEN stray \cup {ClientOf[s]} ELSE stray
        /\ UNCHANGED <<admin, rows, online>>
    BY <1>9 DEF Register, ConnAt
  <2>2. \A r \in sessions : r \notin sessions' => ClientOf[r] = ClientOf[s] /\ r # s
    BY <2>1 DEF OwnSession
  <2>3. SessionsLive'
    BY <2>1 DEF RowInv, SessionsLive
  <2>4. RowsOwned'
    <3> SUFFICES ASSUME NEW r \in rows, ClientOf[r] \notin stray'
                 PROVE  /\ conn'[r] \in {"stored", "online", "lost", "closing", "dropped"}
                        /\ \/ conn'[r] \in {"online", "lost"} /\ r \notin sessions'
                           \/ conn'[r] = "dropped"
                           => admin[r] = "closing"
      BY <2>1 DEF RowsOwned
    <3>1. r \in Conns /\ ClientOf[r] \notin stray
      BY <2>1
    <3>2. CASE r = s
      BY <2>1, <3>1, <3>2
    <3>3. CASE r # s
      <4>1. r \notin sessions' => r \notin sessions
        BY <2>1, <2>2, <3>3 DEF Overlaps
      <4>2. conn'[r] = conn[r]
        BY <2>1, <3>1, <3>3
      <4>3. QED
        BY <3>1, <4>1, <4>2 DEF RowInv, RowsOwned
    <3>4. QED
      BY <3>2, <3>3
  <2>5. RowsSingle'
    BY <2>1 DEF RowInv, RowsSingle
  <2>6. ASSUME NEW k \in Clients, k \in online', k \notin stray'
        PROVE  \E r \in Conns : ClientOf[r] = k /\ Cared(r)'
    <3>1. CASE k = ClientOf[s]
      BY <2>1, <3>1 DEF Cared
    <3>2. CASE k # ClientOf[s]
      <4>1. PICK r \in Conns : ClientOf[r] = k /\ Cared(r)
        BY <2>1, <2>6 DEF RowInv, OnlineCared
      <4>2. r # s /\ (r \in sessions => r \in sessions') /\ conn'[r] = conn[r]
        BY <2>1, <2>2, <3>2, <4>1
      <4>3. QED
        BY <2>1, <4>1, <4>2 DEF Cared
    <3>3. QED
      BY <3>1, <3>2
  <2>7. QED
    BY <2>3, <2>4, <2>5, <2>6 DEF RowInv, OnlineCared
<1>10. ASSUME NEW s \in Conns, CloseSession(s) PROVE RowInv'
  <2>1. /\ conn[s] = "lost" /\ sessions' = sessions \ {s}
        /\ conn' = [conn EXCEPT ![s] = IF s \in sessions THEN "closing" ELSE "dropped"]
        /\ UNCHANGED <<admin, rows, online, stray>>
    BY <1>10 DEF CloseSession, Remove, rowVars
  <2>2. SessionsLive' /\ RowsOwned' /\ RowsSingle'
    BY <2>1 DEF RowInv, SessionsLive, RowsOwned, RowsSingle
  <2>3. ASSUME NEW k \in Clients, k \in online', k \notin stray'
        PROVE  \E r \in Conns : ClientOf[r] = k /\ Cared(r)'
    <3>1. PICK r \in Conns : ClientOf[r] = k /\ Cared(r)
      BY <2>1, <2>3 DEF RowInv, OnlineCared
    <3>2. QED
      BY <2>1, <3>1 DEF Cared
  <2>4. QED
    BY <2>2, <2>3 DEF RowInv, OnlineCared
<1>11. ASSUME NEW s \in Conns, AdminCloseSession(s) PROVE RowInv'
  <2>1. /\ sessions' = sessions \ {s} /\ admin' = [admin EXCEPT ![s] = "closing"]
        /\ UNCHANGED <<conn, rows, online, stray>>
    BY <1>11 DEF AdminCloseSession, Remove, rowVars
  <2>2. SessionsLive' /\ RowsOwned' /\ RowsSingle'
    BY <2>1 DEF RowInv, SessionsLive, RowsOwned, RowsSingle
  <2>3. ASSUME NEW k \in Clients, k \in online', k \notin stray'
        PROVE  \E r \in Conns : ClientOf[r] = k /\ Cared(r)'
    <3>1. PICK r \in Conns : ClientOf[r] = k /\ Cared(r)
      BY <2>1, <2>3 DEF RowInv, OnlineCared
    <3>2. QED
      BY <2>1, <3>1 DEF Cared
  <2>4. QED
    BY <2>2, <2>3 DEF RowInv, OnlineCared
<1>12. ASSUME NEW s \in Conns, Write(s) \/ Push(s) \/ PushTimesOut(s) \/ Reply(s) \/ OnPing(s)
       PROVE  RowInv'
  BY <1>12, RowsUntouched DEF Write, Push, PushTimesOut, Reply, OnPing, rowVars, hubVars
<1>13. ASSUME NEW s \in Conns, NEW c \in Calls,
              OnToolResult(s, c) \/ OnUnknown(s, c) \/ OnToolStreamChunk(s, c)
       PROVE  RowInv'
  BY <1>13, RowsUntouched DEF OnToolResult, OnUnknown, OnToolStreamChunk, rowVars, hubVars
<1>14. ASSUME NEW c \in Calls,
              SelectSessions(c) \/ Send(c) \/ Receive(c) \/ Cancel(c) \/ SendToolStreamInput(c)
              \/ Consume(c)
       PROVE  RowInv'
  BY <1>14, RowsUntouched DEF SelectSessions, Send, Receive, Cancel, SendToolStreamInput, Consume,
                              rowVars, hubVars
<1>15. ASSUME NEW c \in Calls, NEW s \in Conns, Forward(c, s) \/ ForwardFails(c, s) PROVE RowInv'
  BY <1>15, RowsUntouched DEF Forward, ForwardFails, rowVars, hubVars
<1>16. CASE UNCHANGED vars
  BY <1>16, RowsUntouched DEF vars
<1>17. QED
  BY <1>a, <1>1, <1>2, <1>3, <1>4, <1>5, <1>6, <1>7, <1>8, <1>b, <1>9, <1>10, <1>11, <1>12,
     <1>13, <1>14, <1>15, <1>16, NextCases DEF RowStep

-----------------------------------------------------------------------------
(* The invariant holds *)

(* The initial states satisfy the invariant. *)
LEMMA IInvInit == Init => IInv
<1> SUFFICES ASSUME Init PROVE IInv
  OBVIOUS
<1> USE HubAssumption DEF Init
<1>1. TypeOK
  BY DEF TypeOK, Open
<1>2. HubConsistent /\ OwnSession /\ PendingExact /\ PushSafe
  BY DEF HubConsistent, OwnSession, PendingExact, PushSafe
<1>3. TargetKnown /\ ResultGiven
  BY DEF TargetKnown, ResultGiven, Attempting
<1>4. OncePerSession
  BY DEF OncePerSession, Queued, Untouched, Sending
<1>5. RowInv
  BY DEF RowInv, SessionsLive, RowsOwned, RowsSingle, OnlineCared
<1>6. QED
  BY <1>1, <1>2, <1>3, <1>4, <1>5 DEF IInv, CallInv, HubInv

(* The invariant holds in every reachable state. *)
THEOREM Invariance == Spec => []IInv
<1>1. IInv /\ [Next]_vars => IInv'
  BY CallInvStep, RowInvStep DEF IInv
<1>2. QED
  BY <1>1, IInvInit, PTL DEF Spec

(* Hub: maps, pending calls, response channels and streams are consistent  *)
(* whenever the lock is free, and no channel exceeds its capacity.         *)
THEOREM HubSafe == Spec => []HubInv
<1>1. IInv => HubInv
  BY DEF IInv, CallInv
<1>2. QED
  BY <1>1, Invariance, PTL

(* A client whose connections are closed is not shown as online, whatever  *)
(* the order in which handlers, registrations and administrators write,    *)
(* unless a statement reported an error or registrations overlapped since  *)
(* it last registered.                                                     *)
THEOREM QuietIsOffline == Spec => []OfflineWhenQuiet
<1>1. IInv => OfflineWhenQuiet
  <2> SUFFICES ASSUME IInv, NEW k \in Clients, k \in online, k \notin stray,
                      \A s \in Conns : ClientOf[s] = k =>
                          conn[s] \in {"new", "gone"} /\ admin[s] \in {"none", "done"}
               PROVE  FALSE
    BY DEF OfflineWhenQuiet
  <2>1. PICK s \in Conns : ClientOf[s] = k /\ Cared(s)
    BY DEF IInv, RowInv, OnlineCared
  <2>2. s \in rows
    BY <2>1 DEF Cared, IInv, RowInv, SessionsLive
  <2>3. QED
    BY <2>1, <2>2 DEF IInv, RowInv, RowsOwned
<1>2. QED
  BY <1>1, Invariance, PTL

-----------------------------------------------------------------------------
(* The hub implements BridgeCalls *)

\* The state of a call as BridgeCalls sees it.
CallState == [c \in Calls |-> IF pc[c] \in Open THEN "open" ELSE pc[c]]

\* A step of BridgeCalls, or none.
CallsStep == Abstract!CallsNext \/ UNCHANGED <<CallState, outcome, given>>

(* Whoever moves a call between two positions of its forwarding, or not at *)
(* all, does nothing that BridgeCalls sees.                                *)
LEMMA CallStateKept ==
    ASSUME \A c \in Calls : pc'[c] = pc[c] \/ (pc[c] \in Open /\ pc'[c] \in Open)
    PROVE  CallState' = CallState
BY DEF CallState

(* A call that has an end ends once, also for BridgeCalls. *)
LEMMA EndCallEnds ==
    ASSUME TypeOK, NEW c \in Calls, NEW o \in Outcomes, pc[c] \in Open, EndCall(c, o),
           o = "result" => (\E s \in Conns : given[c][s] > 0),
           UNCHANGED given
    PROVE  Abstract!CallsNext
<1>1. CallState[c] = "open" /\ CallState' = [CallState EXCEPT ![c] = "ended"]
  BY DEF CallState, EndCall, TypeOK, Open
<1>2. outcome' = [outcome EXCEPT ![c] = o]
  BY DEF EndCall
<1>3. Abstract!End(c, o)
  BY <1>1, <1>2 DEF Abstract!End, CallState
<1>4. QED
  BY <1>3 DEF Abstract!CallsNext

(* Going on to the next candidate is not seen; ending without one is. *)
LEMMA GoOnEnds ==
    ASSUME TypeOK, NEW c \in Calls, NEW o \in Outcomes, pc[c] \in Open,
           GoOn(c, o) \/ EndCall(c, o),
           o = "result" => (\E s \in Conns : given[c][s] > 0),
           UNCHANGED given
    PROVE  CallsStep
<1>1. CASE EndCall(c, o)
  BY <1>1, EndCallEnds DEF CallsStep
<1>2. CASE pc' = [pc EXCEPT ![c] = "choosing"] /\ UNCHANGED <<target, outcome>>
  <2>1. CallState' = CallState
    BY <1>2, CallStateKept DEF TypeOK, Open
  <2>2. QED
    BY <1>2, <2>1 DEF CallsStep
<1>3. QED
  BY <1>1, <1>2 DEF GoOn

(* Every step of the hub is a step of BridgeCalls or is not seen by it. *)
LEMMA StepRefines == CallInv /\ [Next]_vars => CallsStep
<1> SUFFICES ASSUME CallInv, [Next]_vars PROVE CallsStep
  OBVIOUS
<1>0. TypeOK
  BY DEF CallInv, HubInv
<1> USE <1>0
<1>1. ASSUME UNCHANGED <<pc, outcome, given>> PROVE CallsStep
  BY <1>1, CallStateKept DEF CallsStep
<1>2. ASSUME NEW s \in Conns, RowStep(s) PROVE CallsStep
  BY <1>1, <1>2, RowStepFacts DEF callVars, pipeVars
<1>3. ASSUME NEW s \in Conns, Register(s) \/ CloseSession(s) \/ AdminCloseSession(s)
      PROVE  CallsStep
  BY <1>1, <1>3 DEF Register, CloseSession, AdminCloseSession, callVars, pipeVars
<1>4. ASSUME NEW s \in Conns, Write(s) PROVE CallsStep
  <2>1. CASE UNCHANGED given
    BY <1>1, <1>4, <2>1 DEF Write, callVars
  <2>2. CASE ~ UNCHANGED given
    <3> DEFINE q == outbound[s]
    <3>1. PICK c \in Calls : c = Head(q) /\ given' = [given EXCEPT ![c][s] = @ + 1]
      BY <1>4, <2>2 DEF Write
    <3>2. Len(q) \in Nat \ {0} /\ Head(q) = q[1]
      BY <1>4, TailElements DEF Write, TypeOK
    <3>3. Queued(c, s)
      BY <3>1, <3>2 DEF Queued
    <3>4. given[c][s] = 0 /\ pc[c] # "idle"
      BY <3>3 DEF CallInv, OncePerSession, Untouched
    <3>5. given' = [given EXCEPT ![c][s] = 1]
      BY <3>1, <3>4 DEF TypeOK
    <3>6. CallState[c] # "idle" /\ UNCHANGED <<CallState, outcome>>
      BY <1>4, <3>4, CallStateKept DEF CallState, Write, callVars
    <3>7. Abstract!Give(c, s)
      BY <3>4, <3>5, <3>6 DEF Abstract!Give, CallState
    <3>8. QED
      BY <3>7 DEF CallsStep, Abstract!CallsNext
  <2>3. QED
    BY <2>1, <2>2
<1>5. ASSUME NEW s \in Conns, Push(s) \/ PushTimesOut(s) \/ Reply(s) \/ OnPing(s) PROVE CallsStep
  BY <1>1, <1>5 DEF Push, PushTimesOut, Reply, OnPing, callVars
<1>6. ASSUME NEW s \in Conns, NEW c \in Calls,
             OnToolResult(s, c) \/ OnUnknown(s, c) \/ OnToolStreamChunk(s, c)
      PROVE  CallsStep
  BY <1>1, <1>6 DEF OnToolResult, OnUnknown, OnToolStreamChunk, callVars, pipeVars
<1>7. ASSUME NEW c \in Calls, SelectSessions(c) PROVE CallsStep
  <2>1. CallState[c] = "idle" /\ CallState' = [CallState EXCEPT ![c] = "open"]
    BY <1>7 DEF SelectSessions, CallState, TypeOK, Open
  <2>2. UNCHANGED <<outcome, given>>
    BY <1>7 DEF SelectSessions, pipeVars
  <2>3. Abstract!Begin(c)
    BY <2>1, <2>2 DEF Abstract!Begin, CallState
  <2>4. QED
    BY <2>3 DEF CallsStep, Abstract!CallsNext
<1>8. ASSUME NEW c \in Calls, Send(c) \/ Consume(c) PROVE CallsStep
  <2>1. CallState' = CallState
    BY <1>8, CallStateKept DEF Send, Consume, TypeOK, Open
  <2>2. QED
    BY <1>8, <2>1 DEF CallsStep, Send, Consume
<1>9. ASSUME NEW c \in Calls, Receive(c) PROVE CallsStep
  <2>1. pc[c] \in Open /\ UNCHANGED given
    BY <1>9 DEF Receive, Open, pipeVars
  <2>2. CASE response[c] = "result"
    BY <1>9, <2>1, <2>2, GoOnEnds DEF Receive, CallInv, ResultGiven, Outcomes
  <2>3. CASE response[c] # "result"
    BY <1>9, <2>1, <2>3, GoOnEnds DEF Receive, Outcomes
  <2>4. QED
    BY <2>2, <2>3
<1>10. ASSUME NEW c \in Calls, Cancel(c) PROVE CallsStep
  BY <1>10, GoOnEnds DEF Cancel, Open, Outcomes
<1>11. ASSUME NEW c \in Calls, SendToolStreamInput(c) PROVE CallsStep
  BY <1>1, <1>11 DEF SendToolStreamInput, callVars
<1>12. ASSUME NEW c \in Calls, NEW s \in Conns, Forward(c, s) PROVE CallsStep
  <2>1. CallState' = CallState
    BY <1>12, CallStateKept DEF Forward, TypeOK, Open
  <2>2. QED
    BY <1>12, <2>1 DEF CallsStep, Forward, pipeVars
<1>13. ASSUME NEW c \in Calls, NEW s \in Conns, ForwardFails(c, s) PROVE CallsStep
  <2>1. pc[c] \in Open /\ UNCHANGED given
    BY <1>13 DEF ForwardFails, Open, pipeVars
  <2>2. PICK o \in {"not_found", "denied"} : GoOn(c, o) \/ EndCall(c, o)
    BY <1>13 DEF ForwardFails
  <2>3. QED
    BY <2>1, <2>2, GoOnEnds DEF Outcomes
<1>14. CASE UNCHANGED vars
  BY <1>1, <1>14 DEF vars
<1>15. QED
  BY <1>2, <1>3, <1>4, <1>5, <1>6, <1>7, <1>8, <1>9, <1>10, <1>11, <1>12, <1>13, <1>14, NextCases

(* The hub, its connections and its callers implement BridgeCalls: a call  *)
(* ends once and for good, with an answer only if some client was sent it, *)
(* and no session is sent it twice.                                        *)
THEOREM HubImplementsCalls == Spec => Implements
<1>1. Init => Abstract!CallsInit
  BY DEF Init, Abstract!CallsInit, Open
<1>2. CallInv /\ [Next]_vars => [Abstract!CallsNext]_(Abstract!callVars)
  BY StepRefines DEF CallsStep, CallState, Abstract!callVars
<1>3. Spec => []CallInv
  <2>1. IInv => CallInv
    BY DEF IInv
  <2>2. QED
    BY <2>1, Invariance, PTL
<1>4. QED
  BY <1>1, <1>2, <1>3, PTL DEF Spec, Implements, Abstract!CallsSpec
=============================================================================
