-------------------------- MODULE BridgeDaemonProofs --------------------------
(***************************************************************************)
(* Proofs about BridgeDaemon, for any number of calls, connections, parts  *)
(* of a body and failures, and any --max-concurrency.                      *)
(*                                                                         *)
(* The limiter's counter is exact because a call is dispatched once, on    *)
(* the connection it was sent on.  What the target receives has no gap     *)
(* because the items on the wire continue, without a gap of their own,     *)
(* what the input queue has taken so far.                                  *)
(***************************************************************************)
EXTENDS BridgeDaemon, FiniteSetTheorems, SequenceTheorems, TLAPS

\* A call is on one connection, which is not ahead of the loop.
SentInv ==
    /\ \A c \in Calls : stage[c] = "none" <=> connOf[c] = 0
    /\ \A c \in Calls : connOf[c] <= attempt
    /\ socket = "connecting" => \A c \in Calls : connOf[c] < attempt

\* What is on the wire belongs to the connection, and a call is there once.
WireInv ==
    /\ socket \in {"connecting", "closed"} => wire = <<>>
    /\ \A i \in 1 .. Len(wire) : wire[i].type # "close" => connOf[wire[i].call] = attempt
    /\ \A i \in 1 .. Len(wire) : wire[i].type = "tool_call" => stage[wire[i].call] = "sent"
    /\ \A i, j \in 1 .. Len(wire) :
          wire[i].type = "tool_call" /\ wire[j].type = "tool_call" /\ wire[i].call = wire[j].call
            => i = j

\* No call waits twice.
QueueOnce == \A k \in Attempts : \A i, j \in 1 .. Len(queue[k]) : queue[k][i] = queue[k][j] => i = j

CallInv == DaemonInv /\ SentInv /\ WireInv /\ QueueOnce

-----------------------------------------------------------------------------
(* Answers *)

\* The status, then chunks of data.
Streaming(s) == \A i \in 1 .. Len(s) : s[i] \in {"status", "chunk"} /\ (s[i] = "status" => i = 1)

\* What was sent about a call, by the position of its handler.
AnswerInv ==
    \A c \in Calls :
        /\ stage[c] \in {"none", "sent", "queued", "starting", "running"} => out[c] = <<>>
        /\ stage[c] = "responding" => Streaming(out[c])
        /\ stage[c] = "answered" =>
              \A i \in 1 .. Len(out[c]) :
                  /\ out[c][i] # "tool_error"
                  /\ out[c][i] = "tool_result" => i = Len(out[c])

-----------------------------------------------------------------------------
(* Bodies *)

\* The i-th message on the wire is item n of c.
ItemAt(i, c, n) ==
    wire[i].type = "tool_stream_input" /\ wire[i].call = c /\ wire[i].item = n

Coming(c, n) == \E i \in 1 .. Len(wire) : ItemAt(i, c, n)

Taken(c) == body[c] \o items[c]

\* The input queue of c takes items, and m is the last it took.
LastTaken(c, m) ==
    /\ c \in known \ closed
    /\ Len(Taken(c)) > 0
    /\ m = Taken(c)[Len(Taken(c))]

InputInv ==
    \A c \in Uploads :
        /\ stage[c] \in {"none", "sent", "queued", "starting"} =>
              body[c] = <<>> /\ items[c] = <<>> /\ c \notin closed /\ bodyEnd[c] = "open"
        /\ c \in closed /\ stage[c] \in {"running", "responding"} =>
              socket = "closed" \/ connOf[c] < attempt

\* The items of c on the wire, in the order of the body and before its end.
WireSorted(c) ==
    \A i, j \in 1 .. Len(wire) : \A m, n \in Items :
        i < j /\ ItemAt(i, c, m) /\ ItemAt(j, c, n) => m < n /\ m \in PartNumbers

\* They follow what the queue took, and nothing is sent after the end.
WireFollows(c) ==
    /\ \A m, n \in Items : LastTaken(c, m) /\ Coming(c, n) => m < n /\ m \in PartNumbers
    /\ sentParts[c] < EndItem =>
          \A m \in Items : LastTaken(c, m) \/ Coming(c, m) => m <= sentParts[c]

\* Nothing is missing in between.
WireDense(c) ==
    \A m, n \in Items :
        (LastTaken(c, m) \/ Coming(c, m)) /\ m < n /\ ~ Coming(c, n) =>
            /\ \A x \in Items : Coming(c, x) /\ n < x => x = ErrorItem
            /\ sentParts[c] < EndItem => sentParts[c] < n

StreamInv == \A c \in Uploads : WireSorted(c) /\ WireFollows(c) /\ WireDense(c)

BodyInv == InputInv /\ StreamInv /\ BodyHasNoGap

-----------------------------------------------------------------------------
(* Types *)

(* The fields of a message. *)
LEMMA MessageFields ==
    ASSUME NEW msg \in Messages
    PROVE  /\ msg.type = "tool_call" => msg.call \in Calls
           /\ msg.type = "tool_stream_input" => msg.call \in Calls /\ msg.item \in Items
           /\ msg.type \in {"tool_call", "tool_stream_input", "close"}
BY DEF Messages

(* The members of a sequence, by position. *)
LEMMA SeqSet ==
    ASSUME NEW S, NEW q \in Seq(S)
    PROVE  ToSet(q) = {q[i] : i \in 1 .. Len(q)}
BY DEF ToSet

(* The first message is taken off the wire. *)
LEMMA WireTail ==
    ASSUME wire \in Seq(Messages), wire # <<>>, wire' = Tail(wire)
    PROVE  /\ wire' \in Seq(Messages) /\ Head(wire) \in Messages /\ Head(wire) = wire[1]
           /\ Len(wire) \in Nat /\ Len(wire) >= 1 /\ Len(wire') = Len(wire) - 1
           /\ \A i \in 1 .. Len(wire') : i + 1 \in 1 .. Len(wire) /\ wire'[i] = wire[i + 1]
OBVIOUS

(* A message is put at the end of the wire. *)
LEMMA WireAppend ==
    ASSUME wire \in Seq(Messages), NEW msg \in Messages, wire' = Append(wire, msg)
    PROVE  /\ wire' \in Seq(Messages)
           /\ Len(wire) \in Nat /\ Len(wire') = Len(wire) + 1
           /\ \A i \in 1 .. Len(wire) : wire'[i] = wire[i]
           /\ wire'[Len(wire) + 1] = msg
OBVIOUS

(* The constants, as the numbers that are counted with. *)
LEMMA Numbers ==
    /\ Parts \in Nat /\ EndItem \in Items /\ ErrorItem \in Items
    /\ EndItem = Parts + 1 /\ ErrorItem = Parts + 2
    /\ PartNumbers = 1 .. Parts /\ Items = 1 .. Parts + 2
    /\ MaxConcurrency \in Nat /\ MaxConcurrency >= 1
    /\ MaxAttempts \in Nat /\ MaxAttempts >= 1 /\ Attempts = 1 .. MaxAttempts
    /\ IsFiniteSet(Calls) /\ Uploads \subseteq Calls /\ Sockets \subseteq Uploads
    /\ Streamed \subseteq Calls
BY DaemonAssumption DEF EndItem, ErrorItem, PartNumbers, Items, Attempts

-----------------------------------------------------------------------------
(* The limiter *)

Waiting(k) == {c \in Calls : connOf[c] = k /\ stage[c] = "queued"}

(* A call that is counted holds a slot of its connection. *)
LEMMA SlotHeld ==
    ASSUME CallInv, NEW c \in Calls, stage[c] \in Counted
    PROVE  /\ connOf[c] \in Attempts /\ c \in Holding(connOf[c])
           /\ active[connOf[c]] \in 1 .. MaxConcurrency
<1>1. connOf[c] \in Attempts
  BY Numbers, SMTT(30) DEF CallInv, SentInv, DaemonInv, TypeOK, Counted, Attempts
<1>2. c \in Holding(connOf[c]) /\ IsFiniteSet(Holding(connOf[c]))
  <2>1. Holding(connOf[c]) \subseteq Calls
    BY DEF Holding
  <2>2. QED
    BY <2>1, Numbers, FS_Subset DEF Holding
<1>3. active[connOf[c]] = Cardinality(Holding(connOf[c])) /\ active[connOf[c]] \in 0 .. MaxConcurrency
  BY <1>1 DEF CallInv, DaemonInv, LimiterExact, TypeOK
<1>4. active[connOf[c]] # 0
  BY <1>2, <1>3, FS_EmptySet
<1>5. QED
  BY <1>1, <1>2, <1>3, <1>4, Numbers

(* The first call that waits. *)
LEMMA HeadWaits ==
    ASSUME CallInv, NEW k \in Attempts, queue[k] # <<>>
    PROVE  /\ Head(queue[k]) \in Waiting(k) /\ Head(queue[k]) \in Calls
           /\ Tail(queue[k]) \in Seq(Calls)
           /\ ToSet(queue[k]) = Waiting(k)
           /\ ToSet(Tail(queue[k])) = ToSet(queue[k]) \ {Head(queue[k])}
           /\ \A i, j \in 1 .. Len(Tail(queue[k])) :
                 Tail(queue[k])[i] = Tail(queue[k])[j] => i = j
<1> DEFINE q == queue[k]
<1>1. q \in Seq(Calls) /\ q # <<>>
  BY DEF CallInv, DaemonInv, TypeOK
<1>2. ToSet(q) = Waiting(k)
  BY DEF CallInv, DaemonInv, LimiterExact, Waiting
<1>3. \A i, j \in 1 .. Len(q) : q[i] = q[j] => i = j
  BY DEF CallInv, QueueOnce
<1> HIDE DEF q
<1>4. /\ Len(q) \in Nat /\ Len(q) >= 1 /\ Head(q) = q[1] /\ Tail(q) \in Seq(Calls)
      /\ Len(Tail(q)) = Len(q) - 1
      /\ \A i \in 1 .. Len(Tail(q)) : Tail(q)[i] = q[i + 1]
  BY <1>1
<1>5. ToSet(q) = {q[i] : i \in 1 .. Len(q)} /\ ToSet(Tail(q)) = {Tail(q)[i] : i \in 1 .. Len(Tail(q))}
  BY <1>1, <1>4, SeqSet
<1>6. Head(q) \in ToSet(q)
  BY <1>4, <1>5
<1>7. ToSet(Tail(q)) = ToSet(q) \ {Head(q)}
  <2>1. ASSUME NEW x \in ToSet(Tail(q)) PROVE x \in ToSet(q) \ {Head(q)}
    <3>1. PICK i \in 1 .. Len(Tail(q)) : x = Tail(q)[i]
      BY <1>5, <2>1
    <3>2. i + 1 \in 1 .. Len(q) /\ x = q[i + 1] /\ 1 \in 1 .. Len(q) /\ i + 1 # 1
      BY <1>4, <3>1
    <3>3. x # q[1]
      BY <1>3, <3>2
    <3>4. QED
      BY <1>4, <1>5, <3>2, <3>3
  <2>2. ASSUME NEW x \in ToSet(q) \ {Head(q)} PROVE x \in ToSet(Tail(q))
    <3>1. PICK i \in 1 .. Len(q) : x = q[i]
      BY <1>5, <2>2
    <3>2. i # 1
      BY <1>4, <2>2, <3>1
    <3>3. i - 1 \in 1 .. Len(Tail(q)) /\ (i - 1) + 1 = i
      BY <1>4, <3>1, <3>2
    <3>4. x = Tail(q)[i - 1]
      BY <1>4, <3>1, <3>3
    <3>5. QED
      BY <1>5, <3>3, <3>4
  <2>3. QED
    BY <2>1, <2>2
<1>8. ASSUME NEW i \in 1 .. Len(Tail(q)), NEW j \in 1 .. Len(Tail(q)), Tail(q)[i] = Tail(q)[j]
      PROVE  i = j
  <2>1. i + 1 \in 1 .. Len(q) /\ j + 1 \in 1 .. Len(q) /\ q[i + 1] = q[j + 1]
    BY <1>4, <1>8
  <2>2. i + 1 = j + 1
    BY <1>3, <2>1
  <2>3. QED
    BY <1>4, <2>2
<1>9. Waiting(k) \subseteq Calls
  BY DEF Waiting
<1>10. QED
  BY <1>2, <1>4, <1>6, <1>7, <1>8, <1>9 DEF q

(* What the end of a call does: the slot goes to the next call, or is free. *)
LEMMA ReleaseEffect ==
    ASSUME CallInv, NEW c \in Calls, stage[c] \in Counted, Release(c)
    PROVE  LET k == connOf[c] IN
           \/ /\ queue[k] # <<>> /\ Head(queue[k]) # c
              /\ stage' = [stage EXCEPT ![c] = "done", ![Head(queue[k])] = "starting"]
              /\ queue' = [queue EXCEPT ![k] = Tail(queue[k])]
              /\ active' = active
           \/ /\ queue[k] = <<>>
              /\ stage' = [stage EXCEPT ![c] = "done"]
              /\ active' = [active EXCEPT ![k] = active[k] - 1]
              /\ queue' = queue
<1> DEFINE k == connOf[c]
<1>1. k \in Attempts /\ active[k] \in 1 .. MaxConcurrency
  BY SlotHeld
<1>2. Free(k, active[k] - 1)
  BY <1>1, Numbers DEF Free
<1>3. queue[k] # <<>> => Head(queue[k]) # c
  <2>1. c \notin Waiting(k)
    BY DEF Waiting, Counted
  <2>2. QED
    BY <1>1, <2>1, HeadWaits
<1>4. QED
  BY <1>2, <1>3 DEF Release

(* A step that moves no call into or out of the limiter. *)
LEMMA LimiterKept ==
    ASSUME LimiterExact, UNCHANGED <<queue, active>>,
           \A k \in Attempts : Holding(k)' = Holding(k) /\ Waiting(k)' = Waiting(k)
    PROVE  LimiterExact'
BY DEF LimiterExact, Waiting

(* A call is received: it starts, or it waits for a slot. *)
LEMMA LimitKeeps ==
    ASSUME CallInv, TypeOK', NEW c \in Calls, NEW k \in Attempts, connOf[c] = k, stage[c] = "sent",
           Limit(c, k), UNCHANGED connOf
    PROVE  LimiterExact' /\ QueueOnce'
<1>1. /\ stage \in [Calls -> Stages] /\ active \in [Attempts -> 0 .. MaxConcurrency]
      /\ queue \in [Attempts -> Seq(Calls)]
  BY DEF CallInv, DaemonInv, TypeOK
<1>2. /\ LimiterExact /\ QueueOnce
  BY DEF CallInv, DaemonInv
<1>3. ASSUME NEW l \in Attempts, l # k
      PROVE  Holding(l)' = Holding(l) /\ Waiting(l)' = Waiting(l)
  <2>1. \A d \in Calls \ {c} : stage'[d] = stage[d]
    BY <1>1 DEF Limit
  <2>2. connOf[c] # l
    BY <1>3
  <2>3. QED
    BY <2>1, <2>2 DEF Holding, Waiting
<1>4. CASE Free(k, active[k])
  <2>1. /\ stage' = [stage EXCEPT ![c] = "starting"] /\ active' = [active EXCEPT ![k] = active[k] + 1]
        /\ queue' = queue
    BY <1>4 DEF Limit
  <2>2. Holding(k)' = Holding(k) \cup {c} /\ c \notin Holding(k) /\ Waiting(k)' = Waiting(k)
    BY <1>1, <2>1 DEF Holding, Waiting, Counted
  <2>3. IsFiniteSet(Holding(k))
    <3>1. Holding(k) \subseteq Calls
      BY DEF Holding
    <3>2. QED
      BY <3>1, Numbers, FS_Subset
  <2>4. Cardinality(Holding(k) \cup {c}) = Cardinality(Holding(k)) + 1
    BY <2>2, <2>3, FS_AddElement
  <2>5. queue[k] = <<>>
    BY <1>2, <1>4, Numbers DEF LimiterExact, Free
  <2>6. ASSUME NEW l \in Attempts
        PROVE  /\ active'[l] = Cardinality(Holding(l)')
               /\ queue'[l] # <<>> => active'[l] = MaxConcurrency
               /\ ToSet(queue'[l]) = Waiting(l)'
    <3>1. CASE l = k
      BY <1>1, <1>2, <2>1, <2>2, <2>4, <2>5, <3>1 DEF LimiterExact, Waiting
    <3>2. CASE l # k
      BY <1>1, <1>2, <1>3, <2>1, <3>2 DEF LimiterExact, Waiting
    <3>3. QED
      BY <3>1, <3>2
  <2>7. QueueOnce'
    BY <1>2, <2>1 DEF QueueOnce
  <2>8. QED
    BY <2>6, <2>7 DEF LimiterExact, Waiting
<1>5. CASE ~ Free(k, active[k])
  <2>1. /\ stage' = [stage EXCEPT ![c] = "queued"] /\ queue' = [queue EXCEPT ![k] = Append(queue[k], c)]
        /\ active' = active
    BY <1>5 DEF Limit
  <2>2. Holding(k)' = Holding(k) /\ Waiting(k)' = Waiting(k) \cup {c} /\ c \notin Waiting(k)
    BY <1>1, <2>1 DEF Holding, Waiting, Counted
  <2>3. active[k] = MaxConcurrency
    BY <1>1, <1>5, Numbers DEF Free
  <2>4. PICK q \in Seq(Calls) : q = queue[k]
    BY <1>1
  <2>5. /\ Len(q) \in Nat /\ Append(q, c) \in Seq(Calls) /\ Len(Append(q, c)) = Len(q) + 1
        /\ \A i \in 1 .. Len(q) : Append(q, c)[i] = q[i]
        /\ Append(q, c)[Len(q) + 1] = c
    BY <2>4
  <2>6. ToSet(q) = {q[i] : i \in 1 .. Len(q)}
        /\ ToSet(Append(q, c)) = {Append(q, c)[i] : i \in 1 .. Len(q) + 1}
    BY <2>5, SeqSet
  <2>7. ToSet(Append(q, c)) = ToSet(q) \cup {c}
    BY <2>5, <2>6
  <2>8. ToSet(q) = Waiting(k)
    BY <1>2, <2>4 DEF LimiterExact, Waiting
  <2>9. ASSUME NEW l \in Attempts
        PROVE  /\ active'[l] = Cardinality(Holding(l)')
               /\ queue'[l] # <<>> => active'[l] = MaxConcurrency
               /\ ToSet(queue'[l]) = Waiting(l)'
               /\ \A i, j \in 1 .. Len(queue'[l]) : queue'[l][i] = queue'[l][j] => i = j
    <3>1. CASE l = k
      <4>1. queue'[l] = Append(q, c)
        BY <1>1, <2>1, <2>4, <3>1
      <4>2. \A i \in 1 .. Len(q) : q[i] # c
        BY <2>2, <2>6, <2>8
      <4>3. \A i, j \in 1 .. Len(q) : q[i] = q[j] => i = j
        BY <1>2, <2>4 DEF QueueOnce
      <4>4. \A i, j \in 1 .. Len(q) + 1 : Append(q, c)[i] = Append(q, c)[j] => i = j
        BY <2>5, <4>2, <4>3
      <4>5. active'[k] = Cardinality(Holding(k)') /\ active'[k] = MaxConcurrency
        BY <1>2, <2>1, <2>2, <2>3 DEF LimiterExact
      <4>6. ToSet(queue'[k]) = Waiting(k)'
        BY <2>2, <2>7, <2>8, <3>1, <4>1
      <4>7. \A i, j \in 1 .. Len(queue'[k]) : queue'[k][i] = queue'[k][j] => i = j
        BY <2>5, <3>1, <4>1, <4>4
      <4>8. QED
        BY <3>1, <4>5, <4>6, <4>7
    <3>2. CASE l # k
      BY <1>1, <1>2, <1>3, <2>1, <3>2 DEF LimiterExact, Waiting, QueueOnce
    <3>3. QED
      BY <3>1, <3>2
  <2>10. QED
    BY <2>9 DEF LimiterExact, Waiting, QueueOnce
<1>6. QED
  BY <1>4, <1>5

(* A call has ended: its slot is handed on, or given back. *)
LEMMA ReleaseKeeps ==
    ASSUME CallInv, NEW c \in Calls, stage[c] \in Counted, Release(c), UNCHANGED connOf
    PROVE  LimiterExact' /\ QueueOnce'
<1>1. PICK k \in Attempts : k = connOf[c] /\ c \in Holding(k)
  BY SlotHeld
<1>2. /\ stage \in [Calls -> Stages] /\ active \in [Attempts -> 0 .. MaxConcurrency]
      /\ queue \in [Attempts -> Seq(Calls)]
      /\ LimiterExact /\ QueueOnce
  BY DEF CallInv, DaemonInv, TypeOK
<1>3. IsFiniteSet(Holding(k))
  <2>1. Holding(k) \subseteq Calls
    BY DEF Holding
  <2>2. QED
    BY <2>1, Numbers, FS_Subset
<1>4. Cardinality(Holding(k) \ {c}) = Cardinality(Holding(k)) - 1 /\ IsFiniteSet(Holding(k) \ {c})
  BY <1>1, <1>3, FS_RemoveElement
<1>5. CASE queue[k] # <<>>
  <2>1. PICK d \in Calls :
            /\ d = Head(queue[k]) /\ d # c /\ d \in Waiting(k)
            /\ stage' = [stage EXCEPT ![c] = "done", ![d] = "starting"]
            /\ queue' = [queue EXCEPT ![k] = Tail(queue[k])]
            /\ active' = active
    BY <1>1, <1>5, HeadWaits, ReleaseEffect
  <2>2. /\ stage'[c] = "done" /\ stage'[d] = "starting"
        /\ \A e \in Calls \ {c, d} : stage'[e] = stage[e]
    BY <1>2, <2>1
  <2>3. connOf[c] = k /\ connOf[d] = k /\ stage[d] = "queued" /\ stage[c] # "queued"
    BY <1>1, <2>1 DEF Waiting, Counted
  <2>4. /\ Holding(k)' = (Holding(k) \ {c}) \cup {d} /\ d \notin Holding(k) \ {c}
        /\ Waiting(k)' = Waiting(k) \ {d}
    BY <2>1, <2>2, <2>3 DEF Holding, Waiting, Counted
  <2>5. Cardinality(Holding(k)') = Cardinality(Holding(k))
    <3>1. Cardinality((Holding(k) \ {c}) \cup {d}) = Cardinality(Holding(k) \ {c}) + 1
      BY <1>4, <2>4, FS_AddElement
    <3>2. Cardinality(Holding(k)) \in Nat
      BY <1>3, FS_CardinalityType
    <3>3. QED
      BY <1>4, <2>4, <3>1, <3>2
  <2>6. ASSUME NEW l \in Attempts, l # k
        PROVE  Holding(l)' = Holding(l) /\ Waiting(l)' = Waiting(l)
    <3>1. connOf[c] # l /\ connOf[d] # l
      BY <2>3, <2>6
    <3>2. QED
      BY <2>2, <3>1 DEF Holding, Waiting
  <2>7. /\ ToSet(queue[k]) = Waiting(k)
        /\ ToSet(Tail(queue[k])) = ToSet(queue[k]) \ {d}
        /\ \A i, j \in 1 .. Len(Tail(queue[k])) : Tail(queue[k])[i] = Tail(queue[k])[j] => i = j
    BY <1>5, <2>1, HeadWaits
  <2>8. active[k] = MaxConcurrency
    BY <1>2, <1>5 DEF LimiterExact
  <2>9. ASSUME NEW l \in Attempts
        PROVE  /\ active'[l] = Cardinality(Holding(l)')
               /\ queue'[l] # <<>> => active'[l] = MaxConcurrency
               /\ ToSet(queue'[l]) = Waiting(l)'
               /\ \A i, j \in 1 .. Len(queue'[l]) : queue'[l][i] = queue'[l][j] => i = j
    <3>1. CASE l = k
      <4>1. queue'[k] = Tail(queue[k])
        BY <1>2, <2>1
      <4>2. active[k] = Cardinality(Holding(k))
        BY <1>2 DEF LimiterExact
      <4>3. active'[k] = Cardinality(Holding(k)') /\ active'[k] = MaxConcurrency
        BY <2>1, <2>5, <2>8, <4>2
      <4>4. ToSet(queue'[k]) = Waiting(k)'
        BY <2>4, <2>7, <4>1
      <4>5. \A i, j \in 1 .. Len(queue'[k]) : queue'[k][i] = queue'[k][j] => i = j
        BY <2>7, <4>1
      <4>6. QED
        BY <3>1, <4>3, <4>4, <4>5
    <3>2. CASE l # k
      BY <1>2, <2>1, <2>6, <3>2 DEF LimiterExact, Waiting, QueueOnce
    <3>3. QED
      BY <3>1, <3>2
  <2>10. QED
    BY <2>9 DEF LimiterExact, Waiting, QueueOnce
<1>6. CASE queue[k] = <<>>
  <2>1. /\ stage' = [stage EXCEPT ![c] = "done"] /\ queue' = queue
        /\ active' = [active EXCEPT ![k] = active[k] - 1]
    BY <1>1, <1>6, ReleaseEffect
  <2>2. Holding(k)' = Holding(k) \ {c} /\ Waiting(k)' = Waiting(k)
    BY <1>1, <1>2, <2>1 DEF Holding, Waiting, Counted
  <2>3. ASSUME NEW l \in Attempts, l # k
        PROVE  Holding(l)' = Holding(l) /\ Waiting(l)' = Waiting(l)
    <3>1. connOf[c] # l
      BY <1>1, <2>3
    <3>2. QED
      BY <1>2, <2>1, <3>1 DEF Holding, Waiting
  <2>4. ASSUME NEW l \in Attempts
        PROVE  /\ active'[l] = Cardinality(Holding(l)')
               /\ queue'[l] # <<>> => active'[l] = MaxConcurrency
               /\ ToSet(queue'[l]) = Waiting(l)'
    <3>1. CASE l = k
      BY <1>2, <1>4, <1>6, <2>1, <2>2, <3>1 DEF LimiterExact, Waiting
    <3>2. CASE l # k
      BY <1>2, <2>1, <2>3, <3>2 DEF LimiterExact, Waiting
    <3>3. QED
      BY <3>1, <3>2
  <2>5. QED
    BY <1>2, <2>1, <2>4 DEF LimiterExact, Waiting, QueueOnce
<1>7. QED
  BY <1>5, <1>6

-----------------------------------------------------------------------------
(* The steps of a handler, by what they do *)

\* Its function settles.
Ends(c) ==
    /\ stage[c] \in {"starting", "answered", "caught"}
    /\ Release(c)
    /\ auditFailed' \in {auditFailed, auditFailed \cup {c}}
    /\ UNCHANGED <<attempt, socket, wire, sentParts, connOf, inputVars, out, bodyErrors>>

\* The target takes an item of the body.
Takes(c) ==
    /\ c \in Uploads
    /\ stage[c] \in {"running", "responding"}
    /\ \E ended \in {"closed", "shut"} : TakeItem(c, ended)

\* A result is sent.
Returns(c) ==
    \/ stage[c] = "running" /\ Answer(c, <<"tool_result">>)
    \/ stage[c] = "responding" /\ Answer(c, <<"done", "tool_result">>)

(* Every step of a handler is one of eight. *)
LEMMA CallCases ==
    ASSUME NEW c \in Calls, Call(c)
    PROVE  \/ StartCall(c) \/ Ends(c) \/ Takes(c) \/ Respond(c) \/ Returns(c) \/ FailCall(c)
           \/ ResultAuditFails(c) \/ SendChunk(c)
<1>1. CASE StartAuditFails(c)
  BY <1>1 DEF StartAuditFails, AuditFails, Ends
<1>2. CASE EndCall(c)
  BY <1>2 DEF EndCall, Ends
<1>3. CASE PullBody(c)
  BY <1>3 DEF PullBody, Takes
<1>4. CASE PullFrame(c)
  BY <1>4, Numbers DEF PullFrame, Takes
<1>5. CASE TargetResponds(c) \/ OpenTunnel(c)
  BY <1>5 DEF TargetResponds, OpenTunnel
<1>6. CASE CompleteTool(c)
  BY <1>6 DEF CompleteTool, Returns
<1>7. CASE CompleteStream(c) \/ TunnelCloses(c)
  BY <1>7 DEF CompleteStream, TunnelCloses, Returns
<1>8. QED
  BY <1>1, <1>2, <1>3, <1>4, <1>5, <1>6, <1>7 DEF Call, CompleteCall

(* What the socket takes is appended to what it took before, or dropped. *)
LEMMA SendEffect ==
    ASSUME TypeOK, NEW c \in Calls, NEW answers \in Seq(Answers), Send(c, answers)
    PROVE  /\ out' \in [Calls -> Seq(Answers)]
           /\ \A d \in Calls \ {c} : out'[d] = out[d]
           /\ out'[c] = out[c] \/ out'[c] = out[c] \o answers
<1>1. out \in [Calls -> Seq(Answers)]
  BY DEF TypeOK
<1>2. out[c] \o answers \in Seq(Answers)
  BY <1>1
<1>3. out' = out \/ out' = [out EXCEPT ![c] = out[c] \o answers]
  BY DEF Send
<1>4. QED
  BY <1>1, <1>2, <1>3

(* The answers are sequences of answers. *)
LEMMA AnswerTypes ==
    /\ <<"status">> \in Seq(Answers) /\ <<"tool_error">> \in Seq(Answers)
    /\ <<"tool_result">> \in Seq(Answers) /\ <<"done", "tool_result">> \in Seq(Answers)
    /\ <<"chunk">> \in Seq(Answers)
BY DEF Answers

(* A reader takes an item of the queue: a part, or the end of the body. *)
LEMMA TakeEffect ==
    ASSUME TypeOK, NEW c \in Calls, NEW ended \in {"closed", "shut"}, TakeItem(c, ended)
    PROVE  /\ bodyEnd[c] = "open"
           /\ \/ /\ items[c] # <<>> /\ Head(items[c]) \in {EndItem, ErrorItem}
                 /\ items' = [items EXCEPT ![c] = Tail(items[c])]
                 /\ body' = body
                 /\ bodyEnd' = [bodyEnd EXCEPT ![c] =
                                    IF Head(items[c]) = EndItem THEN ended ELSE "failed"]
              \/ /\ items[c] # <<>> /\ Head(items[c]) \in PartNumbers
                 /\ items' = [items EXCEPT ![c] = Tail(items[c])]
                 /\ body' = [body EXCEPT ![c] = Append(body[c], Head(items[c]))]
                 /\ bodyEnd' = bodyEnd
              \/ /\ items[c] = <<>> /\ c \in closed
                 /\ items' = items /\ body' = body
                 /\ bodyEnd' = [bodyEnd EXCEPT ![c] = "closed"]
           /\ UNCHANGED <<attempt, socket, wire, sentParts, connOf, stage, limiterVars,
                          known, closed, out, auditFailed, bodyErrors>>
<1>1. items[c] # <<>> => Head(items[c]) \in Items
  BY DEF TypeOK
<1>2. \A n \in Items : n \in PartNumbers \/ n \in {EndItem, ErrorItem}
  BY Numbers
<1>3. ErrorItem # EndItem
  BY Numbers
<1>4. bodyEnd[c] = "open" /\ UNCHANGED <<attempt, socket, wire, sentParts, connOf, stage, limiterVars,
                          known, closed, out, auditFailed, bodyErrors>>
  BY DEF TakeItem
<1>5. CASE items[c] = <<>>
  BY <1>4, <1>5 DEF TakeItem
<1>6. CASE items[c] # <<>> /\ Head(items[c]) = EndItem
  <2>1. items' = [items EXCEPT ![c] = Tail(items[c])] /\ body' = body
        /\ bodyEnd' = [bodyEnd EXCEPT ![c] = ended]
    BY <1>3, <1>6 DEF TakeItem
  <2>2. QED
    BY <1>4, <1>6, <2>1
<1>7. CASE items[c] # <<>> /\ Head(items[c]) = ErrorItem
  <2>1. items' = [items EXCEPT ![c] = Tail(items[c])] /\ body' = body
        /\ bodyEnd' = [bodyEnd EXCEPT ![c] = "failed"]
    BY <1>3, <1>7 DEF TakeItem
  <2>2. QED
    BY <1>3, <1>4, <1>7, <2>1
<1>8. CASE items[c] # <<>> /\ Head(items[c]) \notin {EndItem, ErrorItem}
  <2>1. items' = [items EXCEPT ![c] = Tail(items[c])] /\ bodyEnd' = bodyEnd
        /\ body' = [body EXCEPT ![c] = Append(body[c], Head(items[c]))]
    BY <1>8 DEF TakeItem
  <2>2. QED
    BY <1>1, <1>2, <1>4, <1>8, <2>1
<1>9. QED
  BY <1>5, <1>6, <1>7, <1>8

(* Every step keeps the types. *)
LEMMA TypeStep == CallInv /\ [Next]_vars => TypeOK'
<1> SUFFICES ASSUME CallInv, [Next]_vars PROVE TypeOK'
  OBVIOUS
<1>0. TypeOK
  BY DEF CallInv, DaemonInv
<1> USE DEF TypeOK
<1>1. ASSUME NEW c \in Calls, HubSendsCall(c) PROVE TypeOK'
  <2>1. [type |-> "tool_call", call |-> c] \in Messages
    BY DEF Messages
  <2>2. wire' \in Seq(Messages)
    BY <1>0, <1>1, <2>1, WireAppend DEF HubSendsCall
  <2>3. connOf' \in [Calls -> 0..MaxAttempts] /\ stage' \in [Calls -> Stages]
    <3>1. attempt \in 0..MaxAttempts
      BY <1>0, Numbers
    <3>2. QED
      BY <1>0, <1>1, <3>1 DEF HubSendsCall, Stages
  <2>4. QED
    BY <1>0, <1>1, <2>2, <2>3 DEF HubSendsCall, limiterVars, inputVars
<1>2. ASSUME NEW c \in Calls, NEW item \in Items, HubSendsItem(c, item) PROVE TypeOK'
  <2>1. [type |-> "tool_stream_input", call |-> c, item |-> item] \in Messages
    BY DEF Messages
  <2>2. wire' \in Seq(Messages)
    BY <1>0, <1>2, <2>1, WireAppend DEF HubSendsItem
  <2>3. sentParts' \in [Calls -> 0..EndItem] /\ bodyErrors' \in 0..MaxBodyErrors
    <3>1. sentParts[c] \in 0..EndItem /\ sentParts[c] < EndItem
      BY <1>0, <1>2 DEF HubSendsItem
    <3>2. item = sentParts[c] + 1 => item \in 0..EndItem
      BY <3>1, Numbers
    <3>3. EndItem \in 0..EndItem
      BY Numbers
    <3>4. sentParts' \in [Calls -> 0..EndItem]
      BY <1>0, <1>2, <3>2, <3>3 DEF HubSendsItem
    <3>5. bodyErrors' \in 0..MaxBodyErrors
      BY <1>0, <1>2, DaemonAssumption, SMTT(30) DEF HubSendsItem
    <3>6. QED
      BY <3>4, <3>5
  <2>4. QED
    BY <1>0, <1>2, <2>2, <2>3 DEF HubSendsItem, limiterVars, inputVars
<1>3. CASE HubSendsClose
  <2>1. [type |-> "close"] \in Messages
    BY DEF Messages
  <2>2. wire' \in Seq(Messages)
    BY <1>0, <1>3, <2>1, WireAppend DEF HubSendsClose
  <2>3. QED
    BY <1>0, <1>3, <2>2 DEF HubSendsClose, limiterVars, inputVars
<1>4. CASE OnOpen
  BY <1>0, <1>4 DEF OnOpen, limiterVars, inputVars
<1>5. CASE OnSocketClose
  <2>1. <<>> \in Seq(Messages)
    OBVIOUS
  <2>2. QED
    BY <1>0, <1>5, <2>1 DEF OnSocketClose, limiterVars, inputVars
<1>6. CASE Reconnect
  <2>1. attempt' \in Attempts
    BY <1>0, <1>6, Numbers DEF Reconnect
  <2>2. QED
    BY <1>0, <1>6, <2>1 DEF Reconnect, limiterVars, inputVars
<1>7. ASSUME NEW t, Received(t)
      PROVE  /\ wire' \in Seq(Messages) /\ Head(wire) \in Messages
             /\ t = "tool_call" => Head(wire).call \in Calls
             /\ t = "tool_stream_input" => Head(wire).call \in Calls /\ Head(wire).item \in Items
  <2>1. wire' \in Seq(Messages) /\ Head(wire) \in Messages /\ Head(wire).type = t
    BY <1>0, <1>7, WireTail DEF Received
  <2>2. QED
    BY <2>1, MessageFields
<1>8. CASE OnToolCall
  <2>1. PICK c \in Calls : Limit(c, attempt) /\ wire' \in Seq(Messages)
    BY <1>7, <1>8 DEF OnToolCall
  <2>2. attempt \in Attempts /\ queue[attempt] \in Seq(Calls) /\ active[attempt] \in 0..MaxConcurrency
    BY <1>0
  <2>3. Free(attempt, active[attempt]) => active[attempt] + 1 \in 0..MaxConcurrency
    BY <2>2, Numbers DEF Free
  <2>4. Append(queue[attempt], c) \in Seq(Calls)
    BY <2>2
  <2>5. /\ stage' \in [Calls -> Stages] /\ queue' \in [Attempts -> Seq(Calls)]
        /\ active' \in [Attempts -> 0..MaxConcurrency]
    BY <1>0, <2>1, <2>2, <2>3, <2>4 DEF Limit, Stages
  <2>6. QED
    BY <1>0, <1>8, <2>1, <2>5 DEF OnToolCall, inputVars
<1>9. CASE OnStreamInput
  <2>1. PICK c \in Calls, n \in Items : c = Head(wire).call /\ n = Head(wire).item
                                        /\ wire' \in Seq(Messages)
    BY <1>7, <1>9 DEF OnStreamInput
  <2>2. Append(items[c], n) \in Seq(Items)
    BY <1>0
  <2>3. items' = items \/ items' = [items EXCEPT ![c] = Append(items[c], n)]
    BY <1>9, <2>1 DEF OnStreamInput
  <2>4. items' \in [Calls -> Seq(Items)]
    BY <1>0, <2>2, <2>3
  <2>5. QED
    BY <1>0, <1>9, <2>1, <2>4 DEF OnStreamInput, limiterVars
<1>10. CASE OnCloseMessage
  BY <1>0, <1>7, <1>10 DEF OnCloseMessage, limiterVars, inputVars
<1>11. ASSUME NEW c \in Calls, StartCall(c) PROVE TypeOK'
  BY <1>0, <1>11 DEF StartCall, limiterVars, Stages
<1>12. ASSUME NEW c \in Calls, Ends(c) PROVE TypeOK'
  <2>1. stage[c] \in Counted
    BY <1>12 DEF Ends, Counted
  <2>2. PICK k \in Attempts : k = connOf[c] /\ active[k] \in 1..MaxConcurrency
    BY <2>1, SlotHeld
  <2>3. /\ stage' \in [Calls -> Stages] /\ queue' \in [Attempts -> Seq(Calls)]
        /\ active' \in [Attempts -> 0..MaxConcurrency]
    <3>1. CASE queue[k] # <<>>
      <4>1. /\ Head(queue[k]) \in Calls /\ Tail(queue[k]) \in Seq(Calls)
        BY <2>2, <3>1, HeadWaits
      <4>2. /\ stage' = [stage EXCEPT ![c] = "done", ![Head(queue[k])] = "starting"]
            /\ queue' = [queue EXCEPT ![k] = Tail(queue[k])]
            /\ active' = active
        BY <1>12, <2>1, <2>2, <3>1, ReleaseEffect DEF Ends
      <4>3. QED
        BY <1>0, <4>1, <4>2 DEF Stages
    <3>2. CASE queue[k] = <<>>
      <4>1. /\ stage' = [stage EXCEPT ![c] = "done"] /\ queue' = queue
            /\ active' = [active EXCEPT ![k] = active[k] - 1]
        BY <1>12, <2>1, <2>2, <3>2, ReleaseEffect DEF Ends
      <4>2. active[k] - 1 \in 0..MaxConcurrency
        BY <2>2, Numbers
      <4>3. QED
        BY <1>0, <4>1, <4>2 DEF Stages
    <3>3. QED
      BY <3>1, <3>2
  <2>4. auditFailed' \subseteq Calls
    BY <1>0, <1>12 DEF Ends
  <2>5. QED
    BY <1>0, <1>12, <2>3, <2>4 DEF Ends, inputVars
<1>13. ASSUME NEW c \in Calls, Takes(c) PROVE TypeOK'
  <2>1. PICK ended \in {"closed", "shut"} : TakeItem(c, ended)
    BY <1>13 DEF Takes
  <2>2. /\ items' = items \/ (items[c] # <<>> /\ items' = [items EXCEPT ![c] = Tail(items[c])])
        /\ \/ body' = body
           \/ /\ Head(items[c]) \in PartNumbers
              /\ body' = [body EXCEPT ![c] = Append(body[c], Head(items[c]))]
        /\ \/ bodyEnd' = bodyEnd
           \/ \E e \in {"closed", "shut", "failed"} : bodyEnd' = [bodyEnd EXCEPT ![c] = e]
        /\ UNCHANGED <<attempt, socket, wire, sentParts, connOf, stage, limiterVars,
                       known, closed, out, auditFailed, bodyErrors>>
    BY <1>0, <2>1, TakeEffect, ZenonT(30)
  <2>3. items' \in [Calls -> Seq(Items)]
    <3>1. items[c] # <<>> => Tail(items[c]) \in Seq(Items)
      BY <1>0
    <3>2. QED
      BY <1>0, <2>2, <3>1
  <2>4. body' \in [Calls -> Seq(PartNumbers)]
    <3>1. Head(items[c]) \in PartNumbers => Append(body[c], Head(items[c])) \in Seq(PartNumbers)
      BY <1>0
    <3>2. QED
      BY <1>0, <2>2, <3>1
  <2>5. bodyEnd' \in [Calls -> {"open", "closed", "failed", "shut"}]
    BY <1>0, <2>2
  <2>6. QED
    BY <1>0, <2>2, <2>3, <2>4, <2>5 DEF limiterVars
<1>14. ASSUME NEW c \in Calls, Respond(c) PROVE TypeOK'
  <2>1. out' \in [Calls -> Seq(Answers)]
    BY <1>0, <1>14, SendEffect, AnswerTypes DEF Respond
  <2>2. QED
    BY <1>0, <1>14, <2>1 DEF Respond, limiterVars, inputVars, Stages
<1>15. ASSUME NEW c \in Calls, Returns(c) PROVE TypeOK'
  <2>1. PICK answers \in Seq(Answers) : Answer(c, answers)
    BY <1>15, AnswerTypes DEF Returns
  <2>2. out' \in [Calls -> Seq(Answers)]
    BY <1>0, <2>1, SendEffect DEF Answer
  <2>3. QED
    BY <1>0, <2>1, <2>2 DEF Answer, DropInput, limiterVars, Stages
<1>16. ASSUME NEW c \in Calls, FailCall(c) PROVE TypeOK'
  <2>1. out' \in [Calls -> Seq(Answers)]
    BY <1>0, <1>16, SendEffect, AnswerTypes DEF FailCall
  <2>2. QED
    BY <1>0, <1>16, <2>1 DEF FailCall, DropInput, limiterVars, Stages
<1>17. ASSUME NEW c \in Calls, ResultAuditFails(c) PROVE TypeOK'
  <2>1. out' \in [Calls -> Seq(Answers)]
    BY <1>0, <1>17, SendEffect, AnswerTypes DEF ResultAuditFails
  <2>2. QED
    BY <1>0, <1>17, <2>1 DEF ResultAuditFails, AuditFails, limiterVars, inputVars, Stages
<1>18. ASSUME NEW c \in Calls, SendChunk(c) PROVE TypeOK'
  <2>1. out' \in [Calls -> Seq(Answers)]
    BY <1>0, <1>18, SendEffect, AnswerTypes DEF SendChunk
  <2>2. QED
    BY <1>0, <1>18, <2>1 DEF SendChunk, limiterVars, inputVars
<1>19. CASE UNCHANGED vars
  BY <1>0, <1>19 DEF vars
<1>20. ASSUME NEW c \in Calls, Call(c) PROVE TypeOK'
  BY <1>11, <1>12, <1>13, <1>14, <1>15, <1>16, <1>17, <1>18, <1>20, CallCases
<1>21. QED
  BY <1>1, <1>2, <1>3, <1>4, <1>5, <1>6, <1>8, <1>9, <1>10, <1>19, <1>20 DEF Next, Dispatch

(* A handler leaves the connection alone, and moves calls that the daemon  *)
(* has received already.                                                   *)
LEMMA CallMoves ==
    ASSUME CallInv, NEW c \in Calls, Call(c)
    PROVE  /\ UNCHANGED <<attempt, socket, wire, sentParts, connOf, bodyErrors>>
           /\ \A d \in Calls : \/ stage'[d] = stage[d]
                               \/ stage[d] \in Counted \cup {"queued"} /\ stage'[d] \in Counted \cup {"done"}
<1>0. stage \in [Calls -> Stages]
  BY DEF CallInv, DaemonInv, TypeOK
<1> USE DEF Counted
<1>1. CASE StartCall(c)
  BY <1>0, <1>1 DEF StartCall
<1>2. CASE Ends(c)
  <2>1. stage[c] \in Counted /\ Release(c)
    BY <1>2 DEF Ends
  <2>2. PICK k \in Attempts : k = connOf[c]
    BY <2>1, SlotHeld
  <2>3. queue[k] # <<>> => Head(queue[k]) \in Calls /\ stage[Head(queue[k])] = "queued"
    BY HeadWaits DEF Waiting
  <2>4. \A d \in Calls : \/ stage'[d] = stage[d]
                         \/ stage[d] \in Counted \cup {"queued"} /\ stage'[d] \in Counted \cup {"done"}
    BY <1>0, <2>1, <2>2, <2>3, ReleaseEffect
  <2>5. QED
    BY <1>2, <2>4 DEF Ends
<1>3. CASE Takes(c)
  BY <1>3 DEF Takes, TakeItem
<1>4. CASE Respond(c)
  BY <1>0, <1>4 DEF Respond
<1>5. CASE Returns(c)
  BY <1>0, <1>5 DEF Returns, Answer
<1>6. CASE FailCall(c)
  BY <1>0, <1>6 DEF FailCall
<1>7. CASE ResultAuditFails(c)
  BY <1>0, <1>7 DEF ResultAuditFails
<1>8. CASE SendChunk(c)
  BY <1>8 DEF SendChunk
<1>9. QED
  BY <1>1, <1>2, <1>3, <1>4, <1>5, <1>6, <1>7, <1>8, CallCases

(* The call at the head of the wire has just been sent. *)
LEMMA HeadCall ==
    ASSUME CallInv, OnToolCall
    PROVE  /\ Head(wire).call \in Calls /\ Head(wire) = wire[1] /\ wire[1].type = "tool_call"
           /\ stage[Head(wire).call] = "sent" /\ connOf[Head(wire).call] = attempt
           /\ attempt \in Attempts
           /\ \A i \in 1 .. Len(wire) :
                 wire[i].type = "tool_call" /\ wire[i].call = Head(wire).call => i = 1
<1>1. /\ wire \in Seq(Messages) /\ wire # <<>> /\ wire' = Tail(wire) /\ Head(wire).type = "tool_call"
      /\ attempt \in Attempts
  BY DEF CallInv, DaemonInv, TypeOK, OnToolCall, Received
<1>2. Head(wire) \in Messages /\ Head(wire) = wire[1] /\ 1 \in 1 .. Len(wire)
  BY <1>1, WireTail
<1>3. Head(wire).call \in Calls
  BY <1>1, <1>2, MessageFields
<1>4. /\ stage[Head(wire).call] = "sent" /\ connOf[Head(wire).call] = attempt
      /\ \A i \in 1 .. Len(wire) :
            wire[i].type = "tool_call" /\ wire[i].call = Head(wire).call => i = 1
  BY <1>1, <1>2 DEF CallInv, WireInv
<1>5. QED
  BY <1>1, <1>2, <1>3, <1>4

(* The limiter's books. *)
LEMMA LimiterStep == CallInv /\ TypeOK' /\ [Next]_vars => LimiterExact' /\ QueueOnce'
<1> SUFFICES ASSUME CallInv, TypeOK', [Next]_vars PROVE LimiterExact' /\ QueueOnce'
  OBVIOUS
<1>0. /\ stage \in [Calls -> Stages] /\ connOf \in [Calls -> 0 .. MaxAttempts]
      /\ LimiterExact /\ QueueOnce
      /\ \A d \in Calls : stage[d] = "none" <=> connOf[d] = 0
  BY DEF CallInv, DaemonInv, TypeOK, SentInv
<1>a. ASSUME UNCHANGED limiterVars, connOf' = connOf,
             \A d \in Calls : /\ stage'[d] \in Counted <=> stage[d] \in Counted
                              /\ stage'[d] = "queued" <=> stage[d] = "queued"
      PROVE  LimiterExact' /\ QueueOnce'
  <2>1. \A k \in Attempts : Holding(k)' = Holding(k) /\ Waiting(k)' = Waiting(k)
    BY <1>a DEF Holding, Waiting
  <2>2. QED
    BY <1>0, <1>a, <2>1, LimiterKept DEF QueueOnce, limiterVars
<1>b. ASSUME UNCHANGED <<limiterVars, connOf, stage>> PROVE LimiterExact' /\ QueueOnce'
  BY <1>a, <1>b
<1>1. ASSUME NEW c \in Calls, HubSendsCall(c) PROVE LimiterExact' /\ QueueOnce'
  <2>1. /\ UNCHANGED limiterVars /\ stage[c] = "none" /\ stage'[c] = "sent"
        /\ \A d \in Calls \ {c} : stage'[d] = stage[d] /\ connOf'[d] = connOf[d]
    BY <1>0, <1>1 DEF HubSendsCall
  <2>2. \A k \in Attempts : Holding(k)' = Holding(k) /\ Waiting(k)' = Waiting(k)
    BY <2>1 DEF Holding, Waiting, Counted
  <2>3. QED
    BY <1>0, <2>1, <2>2, LimiterKept DEF QueueOnce, limiterVars
<1>2. CASE OnToolCall
  BY <1>2, HeadCall, LimitKeeps DEF OnToolCall
<1>3. ASSUME NEW c \in Calls, Ends(c) PROVE LimiterExact' /\ QueueOnce'
  BY <1>3, ReleaseKeeps DEF Ends, Counted
<1>4. ASSUME NEW c \in Calls, Takes(c) PROVE LimiterExact' /\ QueueOnce'
  BY <1>4, <1>b DEF Takes, TakeItem
<1>5. ASSUME NEW c \in Calls, StartCall(c) PROVE LimiterExact' /\ QueueOnce'
  BY <1>0, <1>5, <1>a DEF StartCall, Counted
<1>6. ASSUME NEW c \in Calls, Respond(c) PROVE LimiterExact' /\ QueueOnce'
  BY <1>0, <1>6, <1>a DEF Respond, Counted
<1>7. ASSUME NEW c \in Calls, Returns(c) PROVE LimiterExact' /\ QueueOnce'
  BY <1>0, <1>7, <1>a DEF Returns, Answer, Counted
<1>8. ASSUME NEW c \in Calls, FailCall(c) PROVE LimiterExact' /\ QueueOnce'
  BY <1>0, <1>8, <1>a DEF FailCall, Counted
<1>9. ASSUME NEW c \in Calls, ResultAuditFails(c) PROVE LimiterExact' /\ QueueOnce'
  BY <1>0, <1>9, <1>a DEF ResultAuditFails, Counted
<1>c. ASSUME NEW c \in Calls, SendChunk(c) PROVE LimiterExact' /\ QueueOnce'
  BY <1>b, <1>c DEF SendChunk, limiterVars
<1>10. ASSUME NEW c \in Calls, Call(c) PROVE LimiterExact' /\ QueueOnce'
  BY <1>3, <1>4, <1>5, <1>6, <1>7, <1>8, <1>9, <1>10, <1>c, CallCases
<1>11. CASE \/ \E c \in Calls, item \in Items : HubSendsItem(c, item)
            \/ HubSendsClose \/ OnOpen \/ OnSocketClose \/ Reconnect
            \/ OnStreamInput \/ OnCloseMessage \/ UNCHANGED vars
  BY <1>11, <1>b DEF HubSendsItem, HubSendsClose, OnOpen, OnSocketClose, Reconnect, OnStreamInput,
                     OnCloseMessage, vars, limiterVars
<1>12. QED
  BY <1>1, <1>2, <1>10, <1>11 DEF Next, Dispatch

(* No input queue outlives its call. *)
LEMMA LeakStep == CallInv /\ [Next]_vars => NoInputLeak'
<1> SUFFICES ASSUME CallInv, [Next]_vars PROVE NoInputLeak'
  OBVIOUS
<1>0. /\ stage \in [Calls -> Stages] /\ known \subseteq Calls /\ NoInputLeak
      /\ \A d \in Calls : stage[d] = "none" <=> connOf[d] = 0
  BY Numbers DEF CallInv, DaemonInv, TypeOK, SentInv
<1> USE DEF NoInputLeak
<1>1. ASSUME NEW c \in Calls, HubSendsCall(c) PROVE NoInputLeak'
  BY <1>0, <1>1 DEF HubSendsCall, inputVars
<1>2. CASE OnToolCall
  BY <1>0, <1>2, HeadCall DEF OnToolCall, Limit, inputVars
<1>3. ASSUME NEW c \in Calls, Ends(c) PROVE NoInputLeak'
  <2>1. PICK k \in Attempts : k = connOf[c]
    BY <1>3, SlotHeld DEF Ends, Counted
  <2>2. queue[k] # <<>> => stage[Head(queue[k])] = "queued"
    BY HeadWaits DEF Waiting
  <2>3. \A d \in Calls : stage[d] \in {"running", "responding"} => stage'[d] = stage[d]
    BY <1>0, <1>3, <2>1, <2>2, ReleaseEffect DEF Ends, Counted
  <2>4. QED
    BY <1>0, <1>3, <2>3 DEF Ends, inputVars
<1>4. ASSUME NEW c \in Calls, Takes(c) PROVE NoInputLeak'
  BY <1>0, <1>4 DEF Takes, TakeItem
<1>5. ASSUME NEW c \in Calls, StartCall(c) PROVE NoInputLeak'
  BY <1>0, <1>5 DEF StartCall
<1>6. ASSUME NEW c \in Calls, Respond(c) PROVE NoInputLeak'
  BY <1>0, <1>6 DEF Respond, inputVars
<1>7. ASSUME NEW c \in Calls, Returns(c) PROVE NoInputLeak'
  BY <1>0, <1>7 DEF Returns, Answer, DropInput
<1>8. ASSUME NEW c \in Calls, FailCall(c) PROVE NoInputLeak'
  BY <1>0, <1>8 DEF FailCall, DropInput
<1>9. ASSUME NEW c \in Calls, ResultAuditFails(c) PROVE NoInputLeak'
  BY <1>0, <1>9 DEF ResultAuditFails, inputVars
<1>c. ASSUME NEW c \in Calls, SendChunk(c) PROVE NoInputLeak'
  BY <1>0, <1>c DEF SendChunk, inputVars
<1>10. ASSUME NEW c \in Calls, Call(c) PROVE NoInputLeak'
  BY <1>3, <1>4, <1>5, <1>6, <1>7, <1>8, <1>9, <1>10, <1>c, CallCases
<1>11. CASE \/ \E c \in Calls, item \in Items : HubSendsItem(c, item)
            \/ HubSendsClose \/ OnOpen \/ OnSocketClose \/ Reconnect
            \/ OnStreamInput \/ OnCloseMessage \/ UNCHANGED vars
  BY <1>0, <1>11 DEF HubSendsItem, HubSendsClose, OnOpen, OnSocketClose, Reconnect, OnStreamInput,
                     OnCloseMessage, vars, inputVars
<1>12. QED
  BY <1>1, <1>2, <1>10, <1>11 DEF Next, Dispatch

(* Calls stay on their connection. *)
LEMMA SentStep == CallInv /\ [Next]_vars => SentInv'
<1> SUFFICES ASSUME CallInv, [Next]_vars PROVE SentInv'
  OBVIOUS
<1>0. /\ stage \in [Calls -> Stages] /\ connOf \in [Calls -> 0 .. MaxAttempts] /\ attempt \in Attempts
      /\ SentInv
  BY DEF CallInv, DaemonInv, TypeOK
<1>n. MaxAttempts \in Nat /\ Attempts = 1 .. MaxAttempts
  BY Numbers
<1> USE DEF SentInv
<1>1. ASSUME NEW c \in Calls, HubSendsCall(c) PROVE SentInv'
  BY <1>0, <1>n, <1>1 DEF HubSendsCall, SessionOpen
<1>2. CASE OnToolCall
  <2>1. PICK c \in Calls : stage[c] = "sent" /\ Limit(c, attempt)
    BY <1>2, HeadCall DEF OnToolCall
  <2>2. UNCHANGED <<connOf, attempt, socket>>
    BY <1>2 DEF OnToolCall
  <2>3. QED
    BY <1>0, <2>1, <2>2 DEF Limit
<1>3. ASSUME NEW c \in Calls, Call(c) PROVE SentInv'
  BY <1>0, <1>3, CallMoves DEF Counted
<1>4. CASE Reconnect
  BY <1>0, <1>n, <1>4 DEF Reconnect
<1>5. CASE \/ \E c \in Calls, item \in Items : HubSendsItem(c, item)
           \/ HubSendsClose \/ OnOpen \/ OnSocketClose
           \/ OnStreamInput \/ OnCloseMessage \/ UNCHANGED vars
  BY <1>0, <1>5 DEF HubSendsItem, HubSendsClose, OnOpen, OnSocketClose, OnStreamInput,
                    OnCloseMessage, vars
<1>6. QED
  BY <1>1, <1>2, <1>3, <1>4, <1>5 DEF Next, Dispatch

(* The wire carries messages of its own connection, each call once. *)
LEMMA WireStep == CallInv /\ [Next]_vars => WireInv'
<1> SUFFICES ASSUME CallInv, [Next]_vars PROVE WireInv'
  OBVIOUS
<1>0. /\ stage \in [Calls -> Stages] /\ connOf \in [Calls -> 0 .. MaxAttempts] /\ attempt \in Attempts
      /\ wire \in Seq(Messages) /\ SentInv /\ WireInv
  BY DEF CallInv, DaemonInv, TypeOK
<1>m. \A i \in 1 .. Len(wire) :
          /\ wire[i].type = "tool_call" => wire[i].call \in Calls
          /\ wire[i].type # "close" => wire[i].call \in Calls
  <2>1. \A i \in 1 .. Len(wire) : wire[i] \in Messages
    BY <1>0
  <2>2. QED
    BY <2>1, MessageFields
<1>1. ASSUME NEW c \in Calls, HubSendsCall(c) PROVE WireInv'
  <2> DEFINE msg == [type |-> "tool_call", call |-> c]
  <2>1. msg \in Messages /\ msg.type = "tool_call" /\ msg.call = c
    BY DEF Messages
  <2>2. socket = "open" /\ socket' = "open" /\ connOf[c] = 0 /\ wire' = Append(wire, msg)
        /\ attempt' = attempt
        /\ stage'[c] = "sent" /\ connOf'[c] = attempt
        /\ \A d \in Calls \ {c} : stage'[d] = stage[d] /\ connOf'[d] = connOf[d]
    BY <1>0, <1>1 DEF HubSendsCall, SessionOpen
  <2>3. /\ Len(wire) \in Nat /\ Len(wire') = Len(wire) + 1
        /\ \A i \in 1 .. Len(wire) : wire'[i] = wire[i]
        /\ wire'[Len(wire) + 1] = msg
    BY <1>0, <2>1, <2>2, WireAppend
  <2> HIDE DEF msg
  <2>4. attempt # 0
    BY <1>0, Numbers
  <2>5. \A i \in 1 .. Len(wire) : wire[i].type # "close" => wire[i].call # c
    BY <1>0, <2>2, <2>4 DEF WireInv
  <2>6. ASSUME NEW i \in 1 .. Len(wire')
        PROVE  /\ wire'[i].type # "close" => connOf'[wire'[i].call] = attempt'
               /\ wire'[i].type = "tool_call" => stage'[wire'[i].call] = "sent"
    <3>1. CASE i \in 1 .. Len(wire)
      BY <1>0, <1>m, <2>2, <2>3, <2>5, <3>1 DEF WireInv
    <3>2. CASE i = Len(wire) + 1
      BY <2>1, <2>2, <2>3, <3>2
    <3>3. QED
      BY <2>3, <3>1, <3>2
  <2>7. ASSUME NEW i \in 1 .. Len(wire'), NEW j \in 1 .. Len(wire'),
               wire'[i].type = "tool_call", wire'[j].type = "tool_call", wire'[i].call = wire'[j].call
        PROVE  i = j
    <3>1. CASE i \in 1 .. Len(wire) /\ j \in 1 .. Len(wire)
      BY <1>0, <2>3, <2>7, <3>1 DEF WireInv
    <3>2. CASE i \in 1 .. Len(wire) /\ j = Len(wire) + 1
      BY <2>1, <2>3, <2>5, <2>7, <3>2
    <3>3. CASE i = Len(wire) + 1 /\ j \in 1 .. Len(wire)
      BY <2>1, <2>3, <2>5, <2>7, <3>3
    <3>4. QED
      BY <2>3, <3>1, <3>2, <3>3
  <2>8. QED
    BY <2>2, <2>6, <2>7 DEF WireInv
<1>2. ASSUME NEW msg \in Messages, wire' = Append(wire, msg), msg.type # "tool_call",
             msg.type # "close" => connOf[msg.call] = attempt, socket = "open",
             UNCHANGED <<attempt, socket, connOf, stage>>
      PROVE  WireInv'
  <2>1. /\ Len(wire) \in Nat /\ Len(wire') = Len(wire) + 1
        /\ \A i \in 1 .. Len(wire) : wire'[i] = wire[i]
        /\ wire'[Len(wire) + 1] = msg
    BY <1>0, <1>2, WireAppend
  <2>2. ASSUME NEW i \in 1 .. Len(wire')
        PROVE  /\ wire'[i].type # "close" => connOf'[wire'[i].call] = attempt'
               /\ wire'[i].type = "tool_call" => /\ i \in 1 .. Len(wire)
                                                 /\ stage'[wire'[i].call] = "sent"
    <3>1. CASE i \in 1 .. Len(wire)
      BY <1>0, <1>2, <2>1, <3>1 DEF WireInv
    <3>2. CASE i = Len(wire) + 1
      BY <1>2, <2>1, <3>2
    <3>3. QED
      BY <2>1, <3>1, <3>2
  <2>3. QED
    BY <1>0, <1>2, <2>1, <2>2 DEF WireInv
<1>3. ASSUME NEW c \in Calls, NEW item \in Items, HubSendsItem(c, item) PROVE WireInv'
  <2> DEFINE msg == [type |-> "tool_stream_input", call |-> c, item |-> item]
  <2>1. msg \in Messages /\ msg.type = "tool_stream_input" /\ msg.call = c
    BY DEF Messages
  <2>2. QED
    BY <1>2, <1>3, <2>1 DEF HubSendsItem, SessionOpen
<1>4. CASE HubSendsClose
  <2>1. [type |-> "close"] \in Messages /\ [type |-> "close"].type = "close"
    BY DEF Messages
  <2>2. QED
    BY <1>2, <1>4, <2>1 DEF HubSendsClose, SessionOpen
<1>5. ASSUME wire # <<>>, wire' = Tail(wire), socket = "open", socket' \in {"open", "closing"},
             UNCHANGED <<attempt, connOf>>,
             \A i \in 2 .. Len(wire) : wire[i].type = "tool_call" => stage'[wire[i].call] = "sent"
      PROVE  WireInv'
  <2>1. /\ Len(wire) \in Nat /\ Len(wire) >= 1 /\ Len(wire') = Len(wire) - 1
        /\ \A i \in 1 .. Len(wire') : i + 1 \in 2 .. Len(wire) /\ i + 1 \in 1 .. Len(wire)
                                      /\ wire'[i] = wire[i + 1]
    BY <1>0, <1>5, WireTail
  <2>2. ASSUME NEW i \in 1 .. Len(wire')
        PROVE  /\ wire'[i].type # "close" => connOf'[wire'[i].call] = attempt'
               /\ wire'[i].type = "tool_call" => stage'[wire'[i].call] = "sent"
    BY <1>0, <1>5, <2>1 DEF WireInv
  <2>3. ASSUME NEW i \in 1 .. Len(wire'), NEW j \in 1 .. Len(wire'),
               wire'[i].type = "tool_call", wire'[j].type = "tool_call", wire'[i].call = wire'[j].call
        PROVE  i = j
    <3>1. i + 1 = j + 1
      BY <1>0, <2>1, <2>3, SMTT(30) DEF WireInv
    <3>2. QED
      BY <2>1, <3>1
  <2>4. QED
    BY <1>5, <2>2, <2>3 DEF WireInv
<1>6. CASE OnToolCall
  <2>1. PICK c \in Calls : /\ c = Head(wire).call /\ Limit(c, attempt)
                           /\ \A i \in 1 .. Len(wire) :
                                 wire[i].type = "tool_call" /\ wire[i].call = c => i = 1
    BY <1>6, HeadCall DEF OnToolCall
  <2>2. \A d \in Calls \ {c} : stage'[d] = stage[d]
    BY <1>0, <2>1 DEF Limit
  <2>3. ASSUME NEW i \in 2 .. Len(wire), wire[i].type = "tool_call"
        PROVE  stage'[wire[i].call] = "sent"
    <3>1. i \in 1 .. Len(wire) /\ i # 1
      BY <1>0, <2>3
    <3>2. wire[i].call \in Calls /\ wire[i].call # c
      BY <1>m, <2>1, <2>3, <3>1
    <3>3. QED
      BY <1>0, <2>2, <2>3, <3>1, <3>2 DEF WireInv
  <2>4. wire # <<>> /\ wire' = Tail(wire) /\ socket = "open" /\ socket' = "open"
        /\ UNCHANGED <<attempt, connOf>>
    BY <1>6 DEF OnToolCall, Received
  <2>5. QED
    BY <1>5, <2>3, <2>4
<1>7. CASE OnStreamInput \/ OnCloseMessage
  <2>1. wire # <<>> /\ wire' = Tail(wire) /\ socket = "open" /\ socket' \in {"open", "closing"}
        /\ UNCHANGED <<attempt, connOf, stage>>
    BY <1>7 DEF OnStreamInput, OnCloseMessage, Received
  <2>2. \A i \in 2 .. Len(wire) : i \in 1 .. Len(wire)
    BY <1>0
  <2>3. \A i \in 2 .. Len(wire) : wire[i].type = "tool_call" => stage'[wire[i].call] = "sent"
    BY <1>0, <2>1, <2>2 DEF WireInv
  <2>4. QED
    BY <1>5, <2>1, <2>3
<1>8. ASSUME NEW c \in Calls, Call(c) PROVE WireInv'
  <2>1. /\ UNCHANGED <<attempt, socket, wire, connOf>>
        /\ \A d \in Calls : stage[d] = "sent" => stage'[d] = "sent"
    BY <1>8, CallMoves DEF Counted
  <2>2. QED
    BY <1>0, <1>m, <2>1 DEF WireInv
<1>9. CASE OnOpen
  BY <1>0, <1>9 DEF OnOpen, WireInv
<1>10. CASE OnSocketClose
  <2>1. wire' = <<>>
    BY <1>10 DEF OnSocketClose
  <2>2. QED
    BY <2>1 DEF WireInv
<1>11. CASE Reconnect
  <2>1. wire = <<>> /\ wire' = <<>>
    BY <1>0, <1>11 DEF Reconnect, WireInv
  <2>2. QED
    BY <2>1 DEF WireInv
<1>12. CASE UNCHANGED vars
  BY <1>0, <1>12 DEF vars, WireInv
<1>13. QED
  BY <1>1, <1>3, <1>4, <1>6, <1>7, <1>8, <1>9, <1>10, <1>11, <1>12 DEF Next, Dispatch

(* The limiter, the wire and the input queues, at the start and in every step. *)
LEMMA InitCallInv == Init => CallInv
<1> SUFFICES ASSUME Init PROVE CallInv
  OBVIOUS
<1>1. TypeOK
  <2>1. <<>> \in Seq(Messages) /\ <<>> \in Seq(Calls) /\ <<>> \in Seq(Items)
        /\ <<>> \in Seq(PartNumbers) /\ <<>> \in Seq(Answers)
    OBVIOUS
  <2>2. 1 \in Attempts /\ 0 \in 0..EndItem /\ 0 \in 0..MaxAttempts /\ 0 \in 0..MaxConcurrency
        /\ 0 \in 0..MaxBodyErrors
    BY Numbers, DaemonAssumption
  <2>3. QED
    BY <2>1, <2>2 DEF Init, TypeOK, Stages
<1>2. LimiterExact
  <2>1. ASSUME NEW k \in Attempts
        PROVE  /\ active[k] = 0 /\ queue[k] = <<>> /\ Holding(k) = {}
               /\ {c \in Calls : connOf[c] = k /\ stage[c] = "queued"} = {}
    BY DEF Init, Holding, Counted
  <2>2. Cardinality({}) = 0
    BY FS_EmptySet
  <2>3. ToSet(<<>>) = {}
    BY DEF ToSet
  <2>4. QED
    BY <2>1, <2>2, <2>3 DEF LimiterExact
<1>3. NoInputLeak
  BY DEF Init, NoInputLeak
<1>4. SentInv /\ WireInv /\ QueueOnce
  BY DEF Init, SentInv, WireInv, QueueOnce
<1>5. QED
  BY <1>1, <1>2, <1>3, <1>4 DEF CallInv, DaemonInv

(* Every step keeps them. *)
LEMMA StepCallInv == CallInv /\ [Next]_vars => CallInv'
<1> SUFFICES ASSUME CallInv, [Next]_vars PROVE CallInv'
  OBVIOUS
<1>1. TypeOK'
  BY TypeStep
<1>2. LimiterExact' /\ QueueOnce' /\ NoInputLeak' /\ SentInv' /\ WireInv'
  BY <1>1, LimiterStep, LeakStep, SentStep, WireStep
<1>3. QED
  BY <1>1, <1>2 DEF CallInv, DaemonInv

(* The invariant of the calls, the limiters and the wire, in every state   *)
(* the daemon reaches.                                                     *)
THEOREM CallsKept == Spec => []CallInv
BY InitCallInv, StepCallInv, PTL DEF Spec

(* The limiter's counter is the number of the calls that run, a call waits *)
(* only while all slots are taken, and no input queue outlives its call.   *)
THEOREM DaemonSafe == Spec => []DaemonInv
<1>1. CallInv => DaemonInv
  BY DEF CallInv
<1>2. QED
  BY <1>1, CallsKept, PTL

-----------------------------------------------------------------------------
(* Answers *)

WellFormed(s, failed) ==
    \A i, j \in 1 .. Len(s) :
        i < j =>
            /\ s[j] # "status"
            /\ IsFinal(s[i]) => failed /\ s[i] = "tool_result" /\ s[j] = "tool_error"
            /\ s[i] = "done" => IsFinal(s[j])

AtStage(st, s) ==
    /\ st \in {"none", "sent", "queued", "starting", "running"} => s = <<>>
    /\ st = "responding" => Streaming(s)
    /\ st = "answered" =>
          \A i \in 1 .. Len(s) : s[i] # "tool_error" /\ (s[i] = "tool_result" => i = Len(s))

Good(c) == WellFormed(out[c], c \in auditFailed) /\ AtStage(stage[c], out[c])

(* The two invariants, call by call. *)
LEMMA GoodCalls == TypeOK => ((AnswerInv /\ AnswersWellFormed) <=> \A c \in Calls : Good(c))
<1> SUFFICES ASSUME TypeOK PROVE (AnswerInv /\ AnswersWellFormed) <=> \A c \in Calls : Good(c)
  OBVIOUS
<1>1. \A c \in Calls : DOMAIN out[c] = 1 .. Len(out[c])
  <2>1. \A c \in Calls : out[c] \in Seq(Answers)
    BY DEF TypeOK
  <2>2. QED
    BY <2>1, LenProperties
<1>2. AnswersWellFormed <=> \A c \in Calls : WellFormed(out[c], c \in auditFailed)
  BY <1>1 DEF AnswersWellFormed, WellFormed
<1>3. AnswerInv <=> \A c \in Calls : AtStage(stage[c], out[c])
  BY DEF AnswerInv, AtStage
<1>4. QED
  BY <1>2, <1>3 DEF Good

(* What a handler that has sent the status and data returns. *)
LEMMA ResultGood ==
    ASSUME NEW s \in Seq(Answers), Streaming(s),
           NEW t \in {<<"tool_result">>, <<"done", "tool_result">>}, NEW failed
    PROVE  WellFormed(s \o t, failed) /\ AtStage("answered", s \o t)
<1>1. t \in Seq(Answers)
  BY AnswerTypes
<1>2. /\ Len(s) \in Nat /\ Len(t) \in {1, 2}
      /\ \A i \in 1 .. Len(s) : s[i] \in {"status", "chunk"} /\ (s[i] = "status" => i = 1)
      /\ \A i \in 1 .. Len(t) :
            /\ t[i] \notin {"status", "tool_error"}
            /\ t[i] = "tool_result" <=> i = Len(t)
            /\ t[i] = "done" => i = Len(t) - 1
  <2>1. /\ Len(s) \in Nat
        /\ \A i \in 1 .. Len(s) : s[i] \in {"status", "chunk"} /\ (s[i] = "status" => i = 1)
    BY LenProperties DEF Streaming
  <2>2. CASE t = <<"tool_result">>
    <3>1. Len(t) = 1 /\ t[1] = "tool_result"
      BY <2>2
    <3>2. QED
      BY <2>1, <3>1
  <2>3. CASE t = <<"done", "tool_result">>
    <3>1. Len(t) = 2 /\ t[1] = "done" /\ t[2] = "tool_result"
      BY <2>3
    <3>2. QED
      BY <2>1, <3>1
  <2>4. QED
    BY <2>2, <2>3
<1>3. PICK x : x = s \o t
  OBVIOUS
<1>4. /\ Len(x) = Len(s) + Len(t)
      /\ \A i \in 1 .. Len(s) + Len(t) : x[i] = IF i <= Len(s) THEN s[i] ELSE t[i - Len(s)]
  BY <1>1, <1>3, ConcatProperties
<1>5. ASSUME NEW i \in 1 .. Len(x)
      PROVE  /\ x[i] = "status" => i = 1
             /\ x[i] # "tool_error"
             /\ x[i] = "tool_result" <=> i = Len(x)
             /\ x[i] = "done" => i = Len(x) - 1
             /\ i > 1 => x[i] # "status"
  <2>1. CASE i <= Len(s)
    <3>1. i \in 1 .. Len(s) /\ i < Len(x) /\ x[i] = s[i]
      BY <1>2, <1>4, <2>1
    <3>2. x[i] \in {"status", "chunk"} /\ (x[i] = "status" => i = 1)
      BY <1>2, <3>1
    <3>3. QED
      BY <3>1, <3>2
  <2>2. CASE i > Len(s)
    <3>1. PICK l \in 1 .. Len(t) : l = i - Len(s) /\ x[i] = t[l]
      BY <1>2, <1>4, <2>2
    <3>2. /\ x[i] \notin {"status", "tool_error"}
          /\ x[i] = "tool_result" <=> l = Len(t)
          /\ x[i] = "done" => l = Len(t) - 1
      BY <1>2, <3>1
    <3>3. /\ l = Len(t) <=> i = Len(x)
          /\ l = Len(t) - 1 => i = Len(x) - 1
      BY <1>2, <1>4, <3>1
    <3>4. QED
      BY <3>2, <3>3
  <2>3. QED
    BY <1>2, <2>1, <2>2
<1>6. Len(x) \in Nat
  BY <1>2, <1>4
<1>7. WellFormed(x, failed)
  <2>1. ASSUME NEW i \in 1 .. Len(x), NEW j \in 1 .. Len(x), i < j
        PROVE  /\ x[j] # "status" /\ ~ IsFinal(x[i])
               /\ x[i] = "done" => IsFinal(x[j])
    BY <1>5, <1>6, <2>1 DEF IsFinal
  <2>2. QED
    BY <2>1 DEF WellFormed
<1>8. AtStage("answered", x)
  BY <1>5 DEF AtStage
<1>9. QED
  BY <1>3, <1>7, <1>8

(* An error after the status and data, or after a result. *)
LEMMA ErrorGood ==
    ASSUME NEW s \in Seq(Answers), NEW failed, WellFormed(s, failed),
           Streaming(s) \/ (AtStage("answered", s) /\ failed)
    PROVE  WellFormed(s \o <<"tool_error">>, failed)
<1>1. PICK x : x = s \o <<"tool_error">>
  OBVIOUS
<1>2. /\ Len(x) = Len(s) + 1 /\ Len(s) \in Nat
      /\ \A i \in 1 .. Len(s) : x[i] = s[i]
      /\ x[Len(s) + 1] = "tool_error"
  <2>1. <<"tool_error">> \in Seq(Answers) /\ Len(<<"tool_error">>) = 1
    BY DEF Answers
  <2>2. QED
    BY <1>1, <2>1
<1>3. \A i \in 1 .. Len(s) : IsFinal(s[i]) => s[i] = "tool_result" /\ failed
  <2>1. CASE Streaming(s)
    BY <2>1 DEF Streaming, IsFinal
  <2>2. CASE AtStage("answered", s) /\ failed
    BY <2>2 DEF AtStage, IsFinal
  <2>3. QED
    BY <2>1, <2>2
<1>4. ASSUME NEW i \in 1 .. Len(x), NEW j \in 1 .. Len(x), i < j
      PROVE  /\ x[j] # "status"
             /\ IsFinal(x[i]) => failed /\ x[i] = "tool_result" /\ x[j] = "tool_error"
             /\ x[i] = "done" => IsFinal(x[j])
  <2>1. CASE j \in 1 .. Len(s)
    BY <1>2, <1>4, <2>1 DEF WellFormed
  <2>2. CASE j = Len(s) + 1
    BY <1>2, <1>3, <1>4, <2>2 DEF IsFinal
  <2>3. QED
    BY <1>2, <2>1, <2>2
<1>5. QED
  BY <1>1, <1>4 DEF WellFormed

(* One more chunk after the status and data. *)
LEMMA ChunkGood ==
    ASSUME NEW s \in Seq(Answers), NEW failed, Streaming(s)
    PROVE  Streaming(s \o <<"chunk">>) /\ WellFormed(s \o <<"chunk">>, failed)
<1>1. PICK x : x = s \o <<"chunk">>
  OBVIOUS
<1>2. /\ Len(x) = Len(s) + 1 /\ Len(s) \in Nat
      /\ \A i \in 1 .. Len(s) : x[i] = s[i]
      /\ x[Len(s) + 1] = "chunk"
  <2>1. <<"chunk">> \in Seq(Answers) /\ Len(<<"chunk">>) = 1
    BY DEF Answers
  <2>2. QED
    BY <1>1, <2>1
<1>3. \A i \in 1 .. Len(x) : x[i] \in {"status", "chunk"} /\ (x[i] = "status" => i = 1)
  BY <1>2 DEF Streaming
<1>4. WellFormed(x, failed)
  BY <1>2, <1>3 DEF WellFormed, IsFinal
<1>5. QED
  BY <1>1, <1>3, <1>4 DEF Streaming

(* Every step keeps the answers well formed. *)
LEMMA AnswerStep ==
    ASSUME CallInv, CallInv', AnswerInv, AnswersWellFormed, [Next]_vars
    PROVE  AnswerInv' /\ AnswersWellFormed'
<1>0. /\ TypeOK /\ TypeOK' /\ stage \in [Calls -> Stages] /\ out \in [Calls -> Seq(Answers)]
      /\ \A d \in Calls : stage[d] = "none" <=> connOf[d] = 0
  BY DEF CallInv, DaemonInv, TypeOK, SentInv
<1>g. \A c \in Calls : Good(c)
  BY <1>0, GoodCalls
<1>h. SUFFICES ASSUME NEW d \in Calls PROVE Good(d)'
  <2>1. (\A c \in Calls : Good(c))'
    BY <1>h
  <2>2. QED
    BY <1>0, <2>1, GoodCalls, PTL
<1>a. ASSUME out'[d] = out[d], stage'[d] = stage[d] \/ stage'[d] \in {"caught", "done"},
             d \in auditFailed => d \in auditFailed'
      PROVE  Good(d)'
  <2>1. WellFormed(out[d], d \in auditFailed) /\ AtStage(stage[d], out[d])
    BY <1>g DEF Good
  <2>2. WellFormed(out'[d], d \in auditFailed')
    BY <1>a, <2>1 DEF WellFormed
  <2>3. AtStage(stage'[d], out'[d])
    BY <1>a, <2>1 DEF AtStage
  <2>4. QED
    BY <2>2, <2>3 DEF Good
<1>b. ASSUME UNCHANGED <<out, auditFailed>>,
             stage'[d] = stage[d]
               \/ (/\ stage[d] \in {"none", "sent", "queued", "starting"}
                   /\ stage'[d] \in {"sent", "queued", "starting", "running"})
      PROVE  Good(d)'
  <2>1. WellFormed(out[d], d \in auditFailed) /\ AtStage(stage[d], out[d])
    BY <1>g DEF Good
  <2>2. AtStage(stage'[d], out'[d])
    BY <1>b, <2>1 DEF AtStage
  <2>3. QED
    BY <1>b, <2>1, <2>2 DEF Good
<1>1. ASSUME NEW c \in Calls, HubSendsCall(c) PROVE Good(d)'
  BY <1>0, <1>1, <1>b DEF HubSendsCall
<1>2. CASE OnToolCall
  BY <1>0, <1>2, <1>b, HeadCall DEF OnToolCall, Limit
<1>3. ASSUME NEW c \in Calls, StartCall(c) PROVE Good(d)'
  BY <1>0, <1>3, <1>b DEF StartCall
<1>4. ASSUME NEW c \in Calls, Ends(c) PROVE Good(d)'
  <2>1. PICK k \in Attempts : k = connOf[c]
    BY <1>4, SlotHeld DEF Ends, Counted
  <2>2. queue[k] # <<>> => stage[Head(queue[k])] = "queued" /\ Head(queue[k]) \in Calls
    BY HeadWaits DEF Waiting
  <2>3. \/ stage'[d] = stage[d] \/ stage'[d] = "done"
        \/ stage[d] = "queued" /\ stage'[d] = "starting"
    BY <1>0, <1>4, <2>1, <2>2, ReleaseEffect DEF Ends, Counted
  <2>4. out' = out /\ (d \in auditFailed => d \in auditFailed')
    BY <1>4 DEF Ends
  <2>5. CASE stage[d] = "queued" /\ stage'[d] = "starting"
    <3>1. out'[d] = <<>>
      BY <1>g, <2>4, <2>5 DEF Good, AtStage
    <3>2. QED
      BY <2>5, <3>1 DEF Good, AtStage, WellFormed
  <2>6. QED
    BY <1>a, <2>3, <2>4, <2>5
<1>5. ASSUME NEW c \in Calls, Takes(c) PROVE Good(d)'
  BY <1>5, <1>a DEF Takes, TakeItem
<1>6. ASSUME NEW c \in Calls, Respond(c) PROVE Good(d)'
  <2>1. stage[c] = "running" /\ stage'[c] = "responding" /\ UNCHANGED auditFailed
        /\ Send(c, <<"status">>) /\ \A e \in Calls \ {c} : stage'[e] = stage[e]
    BY <1>0, <1>6 DEF Respond
  <2>2. /\ \A e \in Calls \ {c} : out'[e] = out[e]
        /\ out'[c] = out[c] \/ out'[c] = out[c] \o <<"status">>
    BY <1>0, <2>1, SendEffect, AnswerTypes
  <2>3. CASE d # c
    BY <1>a, <2>1, <2>2, <2>3
  <2>4. CASE d = c
    <3>1. out[c] = <<>>
      BY <1>g, <2>1 DEF Good, AtStage
    <3>2. <<>> \o <<"status">> = <<"status">>
      BY AnswerTypes, ConcatEmptySeq
    <3>3. out'[c] \in {<<>>, <<"status">>}
      BY <2>2, <3>1, <3>2
    <3>4. AtStage(stage'[c], out'[c])
      <4>1. Streaming(<<>>) /\ Streaming(<<"status">>)
        BY DEF Streaming
      <4>2. QED
        BY <2>1, <3>3, <4>1 DEF AtStage
    <3>5. WellFormed(out'[c], c \in auditFailed')
      BY <3>3 DEF WellFormed
    <3>6. QED
      BY <2>4, <3>4, <3>5 DEF Good
  <2>5. QED
    BY <2>3, <2>4
<1>7. ASSUME NEW c \in Calls, Returns(c) PROVE Good(d)'
  <2>1. PICK t : t \in {<<"tool_result">>, <<"done", "tool_result">>} /\ Answer(c, t)
    BY <1>7 DEF Returns
  <2>2. stage'[c] = "answered" /\ UNCHANGED auditFailed
        /\ Send(c, t) /\ \A e \in Calls \ {c} : stage'[e] = stage[e]
    BY <1>0, <2>1 DEF Answer
  <2>3. t \in Seq(Answers)
    BY <2>1, AnswerTypes
  <2>4. /\ \A e \in Calls \ {c} : out'[e] = out[e]
        /\ out'[c] = out[c] \/ out'[c] = out[c] \o t
    BY <1>0, <2>2, <2>3, SendEffect
  <2>5. CASE d # c
    BY <1>a, <2>2, <2>4, <2>5
  <2>6. CASE d = c
    <3>1. out[c] \in Seq(Answers) /\ Streaming(out[c]) /\ WellFormed(out[c], c \in auditFailed)
      <4>1. stage[c] = "running" => out[c] = <<>>
        BY <1>g DEF Good, AtStage
      <4>2. Streaming(<<>>)
        BY DEF Streaming
      <4>3. stage[c] \in {"running", "responding"}
        BY <1>7 DEF Returns
      <4>4. QED
        BY <1>0, <1>g, <4>1, <4>2, <4>3 DEF Good, AtStage
    <3>2. WellFormed(out[c] \o t, c \in auditFailed) /\ AtStage("answered", out[c] \o t)
      BY <2>1, <3>1, ResultGood
    <3>3. AtStage("answered", out[c])
      BY <3>1 DEF Streaming, AtStage
    <3>4. QED
      BY <2>2, <2>4, <2>6, <3>1, <3>2, <3>3 DEF Good
  <2>7. QED
    BY <2>5, <2>6
<1>8. ASSUME NEW c \in Calls, FailCall(c) PROVE Good(d)'
  <2>1. stage'[c] = "caught" /\ UNCHANGED auditFailed
        /\ Send(c, <<"tool_error">>) /\ \A e \in Calls \ {c} : stage'[e] = stage[e]
    BY <1>0, <1>8 DEF FailCall
  <2>2. /\ \A e \in Calls \ {c} : out'[e] = out[e]
        /\ out'[c] = out[c] \/ out'[c] = out[c] \o <<"tool_error">>
    BY <1>0, <2>1, SendEffect, AnswerTypes
  <2>3. CASE d # c
    BY <1>a, <2>1, <2>2, <2>3
  <2>4. CASE d = c
    <3>1. Streaming(out[c]) /\ WellFormed(out[c], c \in auditFailed)
      <4>1. stage[c] = "running" => out[c] = <<>>
        BY <1>g DEF Good, AtStage
      <4>2. Streaming(<<>>)
        BY DEF Streaming
      <4>3. QED
        BY <1>8, <1>g, <4>1, <4>2 DEF Good, AtStage, FailCall
    <3>2. WellFormed(out[c] \o <<"tool_error">>, c \in auditFailed)
      BY <1>0, <3>1, ErrorGood
    <3>3. AtStage("caught", out'[c])
      BY DEF AtStage
    <3>4. QED
      BY <2>1, <2>2, <2>4, <3>1, <3>2, <3>3 DEF Good
  <2>5. QED
    BY <2>3, <2>4
<1>9. ASSUME NEW c \in Calls, ResultAuditFails(c) PROVE Good(d)'
  <2>1. stage[c] = "answered" /\ stage'[c] = "caught" /\ auditFailed' = auditFailed \cup {c}
        /\ Send(c, <<"tool_error">>) /\ \A e \in Calls \ {c} : stage'[e] = stage[e]
    BY <1>0, <1>9 DEF ResultAuditFails, AuditFails
  <2>2. /\ \A e \in Calls \ {c} : out'[e] = out[e]
        /\ out'[c] = out[c] \/ out'[c] = out[c] \o <<"tool_error">>
    BY <1>0, <2>1, SendEffect, AnswerTypes
  <2>3. CASE d # c
    BY <1>a, <2>1, <2>2, <2>3
  <2>4. CASE d = c
    <3>1. AtStage("answered", out[c]) /\ WellFormed(out[c], TRUE)
      BY <1>g, <2>1 DEF Good, WellFormed
    <3>2. WellFormed(out[c] \o <<"tool_error">>, TRUE)
      BY <1>0, <3>1, ErrorGood
    <3>3. AtStage("caught", out'[c]) /\ c \in auditFailed'
      BY <2>1 DEF AtStage
    <3>4. WellFormed(out'[c], c \in auditFailed')
      BY <2>2, <3>1, <3>2, <3>3 DEF WellFormed
    <3>5. QED
      BY <2>1, <2>4, <3>3, <3>4 DEF Good
  <2>5. QED
    BY <2>3, <2>4
<1>c. ASSUME NEW c \in Calls, SendChunk(c) PROVE Good(d)'
  <2>1. stage[c] = "responding" /\ UNCHANGED <<stage, auditFailed>> /\ Send(c, <<"chunk">>)
    BY <1>c DEF SendChunk
  <2>2. /\ \A e \in Calls \ {c} : out'[e] = out[e]
        /\ out'[c] = out[c] \/ out'[c] = out[c] \o <<"chunk">>
    BY <1>0, <2>1, SendEffect, AnswerTypes
  <2>3. CASE out'[d] = out[d]
    BY <1>a, <2>1, <2>3
  <2>4. CASE d = c /\ out'[c] = out[c] \o <<"chunk">>
    <3>1. out[c] \in Seq(Answers) /\ Streaming(out[c])
      BY <1>0, <1>g, <2>1 DEF Good, AtStage
    <3>2. Streaming(out[c] \o <<"chunk">>) /\ WellFormed(out[c] \o <<"chunk">>, c \in auditFailed)
      BY <3>1, ChunkGood
    <3>3. QED
      BY <2>1, <2>4, <3>2 DEF Good, AtStage
  <2>5. QED
    BY <2>2, <2>3, <2>4
<1>10. ASSUME NEW c \in Calls, Call(c) PROVE Good(d)'
  BY <1>3, <1>4, <1>5, <1>6, <1>7, <1>8, <1>9, <1>10, <1>c, CallCases
<1>11. CASE \/ \E c \in Calls, item \in Items : HubSendsItem(c, item)
            \/ HubSendsClose \/ OnOpen \/ OnSocketClose \/ Reconnect
            \/ OnStreamInput \/ OnCloseMessage \/ UNCHANGED vars
  BY <1>11, <1>a DEF HubSendsItem, HubSendsClose, OnOpen, OnSocketClose, Reconnect, OnStreamInput,
                     OnCloseMessage, vars
<1>12. QED
  BY <1>1, <1>2, <1>10, <1>11 DEF Next, Dispatch

(* What the hub receives about a call is a status, then data, then one     *)
(* final answer, and a second only when the audit log failed after the     *)
(* result.                                                                 *)
THEOREM AnswersSafe == Spec => []AnswersWellFormed
<1>1. Init => AnswerInv /\ AnswersWellFormed
  BY DEF Init, AnswerInv, AnswersWellFormed
<1>2. CallInv /\ CallInv' /\ (AnswerInv /\ AnswersWellFormed) /\ [Next]_vars
        => (AnswerInv /\ AnswersWellFormed)'
  BY AnswerStep
<1>3. QED
  BY <1>1, <1>2, CallsKept, PTL DEF Spec

-----------------------------------------------------------------------------
(* Bodies *)

\* The properties of one body.
NoGap(c) ==
    /\ \A i \in 1 .. (Len(Taken(c)) - 1) :
          Taken(c)[i] \in PartNumbers /\ Taken(c)[i + 1] \in {Taken(c)[i] + 1, ErrorItem}
    /\ bodyEnd[c] \in {"closed", "shut"} /\ connOf[c] = attempt /\ socket = "open"
          => body[c] = <<>> \/ Last(body[c]) = Parts

Early == {"none", "sent", "queued", "starting"}

InputOf(c) ==
    /\ stage[c] \in Early =>
          body[c] = <<>> /\ items[c] = <<>> /\ c \notin closed /\ bodyEnd[c] = "open"
    /\ c \in closed /\ stage[c] \in {"running", "responding"} =>
          socket = "closed" \/ connOf[c] < attempt

Stream(c) == WireSorted(c) /\ WireFollows(c) /\ WireDense(c)

\* msg is item n of c.
IsItem(msg, c, n) == msg.type = "tool_stream_input" /\ msg.call = c /\ msg.item = n

(* The wire grows by one message. *)
LEMMA AppendComing ==
    ASSUME TypeOK, NEW msg \in Messages, wire' = Append(wire, msg), NEW c, NEW n
    PROVE  Coming(c, n)' <=> Coming(c, n) \/ IsItem(msg, c, n)
<1>1. /\ Len(wire) \in Nat /\ Len(wire') = Len(wire) + 1
      /\ \A i \in 1 .. Len(wire) : wire'[i] = wire[i]
      /\ wire'[Len(wire) + 1] = msg
  BY WireAppend DEF TypeOK
<1>2. ASSUME Coming(c, n)' PROVE Coming(c, n) \/ IsItem(msg, c, n)
  <2>1. PICK i \in 1 .. Len(wire') : IsItem(wire'[i], c, n)
    BY <1>2 DEF Coming, ItemAt, IsItem
  <2>2. CASE i \in 1 .. Len(wire)
    BY <1>1, <2>1, <2>2 DEF Coming, ItemAt, IsItem
  <2>3. CASE i = Len(wire) + 1
    BY <1>1, <2>1, <2>3
  <2>4. QED
    BY <1>1, <2>2, <2>3
<1>3. ASSUME Coming(c, n) PROVE Coming(c, n)'
  <2>1. PICK i \in 1 .. Len(wire) : ItemAt(i, c, n)
    BY <1>3 DEF Coming
  <2>2. i \in 1 .. Len(wire') /\ wire'[i] = wire[i]
    BY <1>1
  <2>3. QED
    BY <2>1, <2>2 DEF Coming, ItemAt
<1>4. ASSUME IsItem(msg, c, n) PROVE Coming(c, n)'
  <2>1. Len(wire) + 1 \in 1 .. Len(wire') /\ wire'[Len(wire) + 1] = msg
    BY <1>1
  <2>2. QED
    BY <1>4, <2>1 DEF Coming, ItemAt, IsItem
<1>5. QED
  BY <1>2, <1>3, <1>4

(* The order on the wire stays, if the new item is after those of its call. *)
LEMMA AppendSorted ==
    ASSUME TypeOK, NEW msg \in Messages, wire' = Append(wire, msg), NEW c, WireSorted(c),
           \A m, n \in Items : Coming(c, m) /\ IsItem(msg, c, n) => m < n /\ m \in PartNumbers
    PROVE  WireSorted(c)'
<1>1. /\ Len(wire) \in Nat /\ Len(wire') = Len(wire) + 1
      /\ \A i \in 1 .. Len(wire) : wire'[i] = wire[i]
      /\ wire'[Len(wire) + 1] = msg
  BY WireAppend DEF TypeOK
<1>2. ASSUME NEW i \in 1 .. Len(wire'), NEW j \in 1 .. Len(wire'), NEW m \in Items, NEW n \in Items,
             i < j, IsItem(wire'[i], c, m), IsItem(wire'[j], c, n)
      PROVE  m < n /\ m \in PartNumbers
  <2>1. i \in 1 .. Len(wire) /\ IsItem(wire[i], c, m)
    BY <1>1, <1>2
  <2>2. CASE j \in 1 .. Len(wire)
    <3>1. IsItem(wire[j], c, n)
      BY <1>1, <1>2, <2>2
    <3>2. QED
      BY <1>2, <2>1, <2>2, <3>1 DEF WireSorted, ItemAt, IsItem
  <2>3. CASE j = Len(wire) + 1
    <3>1. Coming(c, m) /\ IsItem(msg, c, n)
      BY <1>1, <1>2, <2>1, <2>3 DEF Coming, ItemAt, IsItem
    <3>2. QED
      BY <3>1
  <2>4. QED
    BY <1>1, <2>2, <2>3
<1>3. QED
  BY <1>2 DEF WireSorted, ItemAt, IsItem

(* Its first message is taken off. *)
LEMMA TailComing ==
    ASSUME TypeOK, wire # <<>>, wire' = Tail(wire), NEW c, WireSorted(c)
    PROVE  /\ \A n : Coming(c, n) <=> Coming(c, n)' \/ ItemAt(1, c, n)
           /\ WireSorted(c)'
           /\ \A m, n \in Items : ItemAt(1, c, m) /\ Coming(c, n)' => m < n /\ m \in PartNumbers
<1>1. /\ Len(wire) \in Nat /\ Len(wire) >= 1 /\ Len(wire') = Len(wire) - 1
      /\ \A i \in 1 .. Len(wire') : i + 1 \in 1 .. Len(wire) /\ wire'[i] = wire[i + 1]
  BY WireTail DEF TypeOK
<1>2. ASSUME NEW n, Coming(c, n)'
      PROVE  \E i \in 1 .. Len(wire) : 1 < i /\ ItemAt(i, c, n)
  <2>1. PICK i \in 1 .. Len(wire') : IsItem(wire'[i], c, n)
    BY <1>2 DEF Coming, ItemAt, IsItem
  <2>2. i + 1 \in 1 .. Len(wire) /\ 1 < i + 1 /\ IsItem(wire[i + 1], c, n)
    BY <1>1, <2>1
  <2>3. QED
    BY <2>2 DEF ItemAt, IsItem
<1>3. ASSUME NEW n, Coming(c, n) PROVE Coming(c, n)' \/ ItemAt(1, c, n)
  <2>1. PICK i \in 1 .. Len(wire) : ItemAt(i, c, n)
    BY <1>3 DEF Coming
  <2>2. CASE i # 1
    <3>1. i - 1 \in 1 .. Len(wire') /\ (i - 1) + 1 = i
      BY <1>1, <2>2
    <3>2. wire'[i - 1] = wire[i]
      BY <1>1, <3>1
    <3>3. QED
      BY <2>1, <3>1, <3>2 DEF Coming, ItemAt
  <2>3. QED
    BY <2>1, <2>2
<1>4. ASSUME NEW n, Coming(c, n)' \/ ItemAt(1, c, n) PROVE Coming(c, n)
  <2>1. 1 \in 1 .. Len(wire)
    BY <1>1
  <2>2. QED
    BY <1>2, <1>4, <2>1 DEF Coming
<1>5. WireSorted(c)'
  <2>1. ASSUME NEW i \in 1 .. Len(wire'), NEW j \in 1 .. Len(wire'), NEW m \in Items, NEW n \in Items,
               i < j, IsItem(wire'[i], c, m), IsItem(wire'[j], c, n)
        PROVE  m < n /\ m \in PartNumbers
    <3>1. /\ i + 1 \in 1 .. Len(wire) /\ j + 1 \in 1 .. Len(wire) /\ i + 1 < j + 1
          /\ IsItem(wire[i + 1], c, m) /\ IsItem(wire[j + 1], c, n)
      BY <1>1, <2>1
    <3>2. ItemAt(i + 1, c, m) /\ ItemAt(j + 1, c, n)
      BY <3>1 DEF ItemAt, IsItem
    <3>3. \A k, l \in 1 .. Len(wire) :
            k < l /\ ItemAt(k, c, m) /\ ItemAt(l, c, n) => m < n /\ m \in PartNumbers
      BY Zenon DEF WireSorted
    <3>4. QED
      BY <3>1, <3>2, <3>3, Zenon
  <2>2. QED
    BY <2>1 DEF WireSorted, ItemAt, IsItem
<1>6. ASSUME NEW m \in Items, NEW n \in Items, ItemAt(1, c, m), Coming(c, n)'
      PROVE  m < n /\ m \in PartNumbers
  <2>1. PICK i \in 1 .. Len(wire) : 1 < i /\ ItemAt(i, c, n)
    BY <1>2, <1>6
  <2>2. 1 \in 1 .. Len(wire)
    BY <1>1
  <2>3. QED
    BY <1>6, <2>1, <2>2 DEF WireSorted
<1>7. QED
  BY <1>3, <1>4, <1>5, <1>6

(* A step after which the items of c on the wire are the same, and its     *)
(* queue has taken nothing new.                                            *)
LEMMA StreamKept ==
    ASSUME NEW c, Stream(c), WireSorted(c)', sentParts'[c] = sentParts[c],
           \A n \in Items : Coming(c, n)' <=> Coming(c, n),
           \A n \in Items : LastTaken(c, n)' => LastTaken(c, n)
    PROVE  Stream(c)'
<1>1. WireFollows(c)'
  BY DEF Stream, WireFollows
<1>2. WireDense(c)'
  BY DEF Stream, WireDense
<1>3. QED
  BY <1>1, <1>2 DEF Stream

(* The hub sends the next item of c. *)
LEMMA ItemSent ==
    ASSUME TypeOK, NEW c \in Uploads, Stream(c), NEW n \in Items, HubSendsItem(c, n)
    PROVE  Stream(c)'
<1> DEFINE msg == [type |-> "tool_stream_input", call |-> c, item |-> n]
           p   == sentParts[c]
<1>1. msg \in Messages /\ \A x : IsItem(msg, c, x) <=> x = n
  BY Numbers DEF Messages, IsItem
<1>2. wire' = Append(wire, msg)
  BY DEF HubSendsItem
<1> HIDE DEF msg
<1>3. \A x : Coming(c, x)' <=> Coming(c, x) \/ x = n
  BY <1>1, <1>2, AppendComing
<1>4. \A m : LastTaken(c, m)' <=> LastTaken(c, m)
  BY DEF HubSendsItem, inputVars, LastTaken, Taken
<1>5. /\ p \in Nat /\ p < EndItem
      /\ \/ n = p + 1 /\ sentParts'[c] = n
         \/ n = ErrorItem /\ sentParts'[c] = EndItem
  <2>1. c \in Calls
    BY Numbers
  <2>2. sentParts \in [Calls -> 0..EndItem] /\ p \in 0..EndItem
    BY <2>1 DEF TypeOK
  <2>3. QED
    BY <2>1, <2>2, Numbers DEF HubSendsItem
<1>6. /\ \A m, x \in Items : LastTaken(c, m) /\ Coming(c, x) => m < x /\ m \in PartNumbers
      /\ \A m \in Items : LastTaken(c, m) \/ Coming(c, m) => m <= p
  BY <1>5 DEF Stream, WireFollows
<1>7. \A m \in Items : m <= p => m < n /\ m \in PartNumbers
  BY <1>5, Numbers
<1>8. WireSorted(c)'
  <2>1. \A m, x \in Items : Coming(c, m) /\ IsItem(msg, c, x) => m < x /\ m \in PartNumbers
    BY <1>1, <1>6, <1>7
  <2>2. QED
    BY <1>1, <1>2, <2>1, AppendSorted DEF Stream
<1> HIDE DEF p
<1>9. WireFollows(c)'
  <2>1. ASSUME NEW m \in Items, NEW x \in Items, LastTaken(c, m), Coming(c, x)'
        PROVE  m < x /\ m \in PartNumbers
    BY <1>3, <1>6, <1>7, <2>1
  <2>2. ASSUME sentParts'[c] < EndItem, NEW m \in Items, LastTaken(c, m) \/ Coming(c, m)'
        PROVE  m <= sentParts'[c]
    <3>1. n = p + 1 /\ sentParts'[c] = n
      BY <1>5, <2>2, Numbers
    <3>2. QED
      BY <1>3, <1>5, <1>6, <2>2, <3>1, Numbers
  <2>3. QED
    BY <1>4, <2>1, <2>2 DEF WireFollows
<1>10. WireDense(c)'
  <2>1. ASSUME NEW m \in Items, NEW y \in Items, LastTaken(c, m) \/ Coming(c, m)', m < y, ~ Coming(c, y)'
        PROVE  /\ \A x \in Items : Coming(c, x)' /\ y < x => x = ErrorItem
               /\ sentParts'[c] < EndItem => sentParts'[c] < y
    <3>1. ~ Coming(c, y) /\ y # n
      BY <1>3, <2>1
    <3>2. CASE LastTaken(c, m) \/ Coming(c, m)
      <4>1. /\ \A x \in Items : Coming(c, x) /\ y < x => x = ErrorItem
            /\ p < y
        BY <1>5, <2>1, <3>1, <3>2 DEF Stream, WireDense, p
      <4>2. n \in {p + 1, ErrorItem} /\ n \in Nat /\ y \in Nat
        BY <1>5, Numbers
      <4>3. y < n => n = ErrorItem
        BY <1>5, <4>1, <4>2
      <4>4. sentParts'[c] < EndItem => sentParts'[c] < y
        BY <1>5, <3>1, <4>1, <4>2, Numbers
      <4>5. QED
        BY <1>3, <4>1, <4>3, <4>4
    <3>3. CASE m = n
      <4>1. n < y
        BY <2>1, <3>3
      <4>2. ASSUME NEW x \in Items, Coming(c, x)', y < x PROVE FALSE
        <5>1. x # n
          BY <4>1, <4>2, Numbers
        <5>2. x <= p
          BY <1>3, <1>6, <4>2, <5>1
        <5>3. x < n
          BY <1>7, <4>2, <5>2
        <5>4. QED
          BY <4>1, <4>2, <5>3, Numbers
      <4>3. sentParts'[c] < EndItem => sentParts'[c] < y
        BY <1>5, <4>1, Numbers
      <4>4. QED
        BY <4>2, <4>3
    <3>4. QED
      BY <1>3, <2>1, <3>2, <3>3
  <2>2. QED
    BY <1>4, <2>1 DEF WireDense
<1>11. QED
  BY <1>8, <1>9, <1>10 DEF Stream

(* What the reader has and what the queue holds, by position. *)
LEMMA TakenParts ==
    ASSUME TypeOK, NEW c \in Calls
    PROVE  /\ body[c] \in Seq(Items) /\ items[c] \in Seq(Items) /\ Taken(c) \in Seq(Items)
           /\ Len(body[c]) \in Nat /\ Len(items[c]) \in Nat
           /\ Len(Taken(c)) = Len(body[c]) + Len(items[c])
           /\ \A i \in 1 .. Len(Taken(c)) :
                 Taken(c)[i] = IF i <= Len(body[c]) THEN body[c][i] ELSE items[c][i - Len(body[c])]
<1>1. body[c] \in Seq(PartNumbers) /\ items[c] \in Seq(Items)
  BY DEF TypeOK
<1>2. \A n \in PartNumbers : n \in Items
  BY Numbers
<1>3. body[c] \in Seq(Items)
  BY <1>1, <1>2
<1> DEFINE b == body[c]
           q == items[c]
<1>4. b \in Seq(Items) /\ q \in Seq(Items) /\ Len(b) \in Nat /\ Len(q) \in Nat
  BY <1>1, <1>3
<1>5. Taken(c) = b \o q
  BY DEF Taken
<1> HIDE DEF b, q
<1>6. /\ b \o q \in Seq(Items) /\ Len(b \o q) = Len(b) + Len(q)
      /\ \A i \in 1 .. Len(b) + Len(q) : (b \o q)[i] = IF i <= Len(b) THEN b[i] ELSE q[i - Len(b)]
  BY <1>4, ConcatProperties
<1>7. QED
  BY <1>4, <1>5, <1>6 DEF b, q

(* An item that is appended to the queue is appended to the whole. *)
LEMMA AppendTaken ==
    ASSUME NEW b \in Seq(Items), NEW q \in Seq(Items), NEW n \in Items
    PROVE  b \o Append(q, n) = Append(b \o q, n)
<1> DEFINE s == b \o Append(q, n)
           t == Append(b \o q, n)
<1>1. /\ Append(q, n) \in Seq(Items) /\ Len(Append(q, n)) = Len(q) + 1
      /\ \A i \in 1 .. Len(q) : Append(q, n)[i] = q[i]
      /\ Append(q, n)[Len(q) + 1] = n
      /\ Len(b) \in Nat /\ Len(q) \in Nat
  OBVIOUS
<1>2. /\ s \in Seq(Items) /\ Len(s) = Len(b) + (Len(q) + 1)
      /\ \A i \in 1 .. Len(s) : s[i] = IF i <= Len(b) THEN b[i] ELSE Append(q, n)[i - Len(b)]
  BY <1>1, ConcatProperties
<1>3. /\ b \o q \in Seq(Items) /\ Len(b \o q) = Len(b) + Len(q)
      /\ \A i \in 1 .. Len(b \o q) : (b \o q)[i] = IF i <= Len(b) THEN b[i] ELSE q[i - Len(b)]
  BY ConcatProperties
<1>4. /\ t \in Seq(Items) /\ Len(t) = Len(b) + Len(q) + 1
      /\ \A i \in 1 .. Len(b) + Len(q) : t[i] = (b \o q)[i]
      /\ t[Len(b) + Len(q) + 1] = n
  BY <1>3
<1> HIDE DEF s, t
<1>5. ASSUME NEW i \in 1 .. Len(s) PROVE s[i] = t[i]
  <2>0. Len(s) \in Nat /\ i \in Nat /\ i >= 1 /\ i <= Len(b) + Len(q) + 1
    BY <1>1, <1>2
  <2>1. CASE i <= Len(b)
    <3>1. s[i] = b[i]
      BY <1>2, <2>1
    <3>2. i \in 1 .. Len(b) + Len(q)
      BY <1>1, <2>0, <2>1
    <3>3. t[i] = b[i]
      BY <1>3, <1>4, <2>1, <3>2
    <3>4. QED
      BY <3>1, <3>3
  <2>2. CASE i > Len(b) /\ i < Len(b) + Len(q) + 1
    <3>1. i - Len(b) \in 1 .. Len(q) /\ i \in 1 .. Len(b) + Len(q)
      BY <1>1, <2>2
    <3>2. QED
      BY <1>1, <1>2, <1>3, <1>4, <2>2, <3>1
  <2>3. CASE i = Len(b) + Len(q) + 1
    <3>1. i - Len(b) = Len(q) + 1 /\ ~ (i <= Len(b))
      BY <1>1, <2>3
    <3>2. QED
      BY <1>1, <1>2, <1>4, <2>3, <3>1
  <2>4. QED
    BY <1>1, <2>0, <2>1, <2>2, <2>3
<1>6. s = t
  BY <1>1, <1>2, <1>4, <1>5, SeqEqual
<1>7. QED
  BY <1>6 DEF s, t

(* A part that the reader takes moves from the queue to the body. *)
LEMMA MoveTaken ==
    ASSUME NEW b \in Seq(Items), NEW q \in Seq(Items), q # <<>>
    PROVE  Append(b, Head(q)) \o Tail(q) = b \o q
<1> DEFINE a == Append(b, Head(q))
           s == a \o Tail(q)
           t == b \o q
<1>1. /\ Len(b) \in Nat /\ Len(q) \in Nat /\ Len(q) >= 1 /\ Head(q) = q[1] /\ Head(q) \in Items
      /\ Tail(q) \in Seq(Items) /\ Len(Tail(q)) = Len(q) - 1
      /\ \A i \in 1 .. Len(Tail(q)) : Tail(q)[i] = q[i + 1]
  OBVIOUS
<1>2. /\ a \in Seq(Items) /\ Len(a) = Len(b) + 1 /\ a[Len(b) + 1] = q[1]
      /\ \A i \in 1 .. Len(b) : a[i] = b[i]
  BY <1>1
<1> HIDE DEF a
<1>3. /\ s \in Seq(Items) /\ Len(s) = Len(b) + Len(q)
      /\ \A i \in 1 .. Len(s) : s[i] = IF i <= Len(a) THEN a[i] ELSE Tail(q)[i - Len(a)]
  <2>1. /\ s \in Seq(Items) /\ Len(s) = Len(a) + Len(Tail(q))
        /\ \A i \in 1 .. Len(a) + Len(Tail(q)) :
              s[i] = IF i <= Len(a) THEN a[i] ELSE Tail(q)[i - Len(a)]
    BY <1>1, <1>2, ConcatProperties
  <2>2. QED
    BY <1>1, <1>2, <2>1
<1>4. /\ t \in Seq(Items) /\ Len(t) = Len(b) + Len(q)
      /\ \A i \in 1 .. Len(t) : t[i] = IF i <= Len(b) THEN b[i] ELSE q[i - Len(b)]
  BY ConcatProperties
<1> HIDE DEF s, t
<1>5. ASSUME NEW i \in 1 .. Len(s) PROVE s[i] = t[i]
  <2>1. CASE i <= Len(b)
    BY <1>1, <1>2, <1>3, <1>4, <2>1
  <2>2. CASE i = Len(b) + 1
    <3>1. i - Len(b) = 1 /\ ~ (i <= Len(b)) /\ i <= Len(a)
      BY <1>1, <1>2, <2>2
    <3>2. QED
      BY <1>1, <1>2, <1>3, <1>4, <2>2, <3>1
  <2>3. CASE i > Len(b) + 1
    <3>1. /\ i - Len(a) \in 1 .. Len(Tail(q)) /\ (i - Len(a)) + 1 = i - Len(b)
          /\ ~ (i <= Len(b)) /\ ~ (i <= Len(a))
      BY <1>1, <1>2, <1>3, <2>3
    <3>2. QED
      BY <1>1, <1>2, <1>3, <1>4, <2>3, <3>1
  <2>4. QED
    BY <1>1, <1>3, <2>1, <2>2, <2>3
<1>6. s = t
  BY <1>1, <1>3, <1>4, <1>5, SeqEqual
<1>7. QED
  BY <1>6 DEF s, t, a

(* A step that leaves the body of c alone. *)
LEMMA NoGapKept ==
    ASSUME NEW c, NoGap(c), body'[c] = body[c], items'[c] = items[c], bodyEnd'[c] = bodyEnd[c],
           bodyEnd[c] \in {"closed", "shut"} /\ connOf'[c] = attempt' /\ socket' = "open"
             => connOf[c] = attempt /\ socket = "open"
    PROVE  NoGap(c)'
BY DEF NoGap, Taken

(* An item of c arrives: the queue takes it if it is open. *)
LEMMA ItemReceived ==
    ASSUME TypeOK, NEW c \in Uploads, Stream(c), NoGap(c), NEW n \in Items,
           wire # <<>>, wire' = Tail(wire), ItemAt(1, c, n),
           UNCHANGED <<known, closed, body, bodyEnd, sentParts, connOf, attempt, socket>>,
           items'[c] = IF c \in known /\ c \notin closed THEN Append(items[c], n) ELSE items[c]
    PROVE  Stream(c)' /\ NoGap(c)'
<1>0. c \in Calls
  BY Numbers
<1>1. /\ \A x : Coming(c, x) <=> Coming(c, x)' \/ x = n
      /\ WireSorted(c)'
      /\ \A x \in Items : Coming(c, x)' => n < x /\ n \in PartNumbers
  <2>1. WireSorted(c)
    BY DEF Stream
  <2>2. \A x : ItemAt(1, c, x) <=> x = n
    BY DEF ItemAt
  <2>3. QED
    BY <2>1, <2>2, TailComing
<1>2. /\ \A m, x \in Items : LastTaken(c, m) /\ Coming(c, x) => m < x /\ m \in PartNumbers
      /\ sentParts[c] < EndItem => \A m \in Items : LastTaken(c, m) \/ Coming(c, m) => m <= sentParts[c]
  BY DEF Stream, WireFollows
<1>3. CASE c \in known \ closed
  <2> DEFINE b == body[c]
             q == items[c]
             t == Taken(c)
  <2>1. /\ b \in Seq(Items) /\ q \in Seq(Items) /\ t \in Seq(Items) /\ Len(t) \in Nat
    <3>1. b \in Seq(Items) /\ q \in Seq(Items) /\ t \in Seq(Items)
      BY <1>0, TakenParts
    <3> HIDE DEF t
    <3>2. QED
      BY <3>1
  <2>2. body'[c] \o items'[c] = Append(t, n)
    <3>1. body'[c] = b /\ items'[c] = Append(q, n)
      BY <1>3
    <3> HIDE DEF b, q
    <3>2. b \o Append(q, n) = Append(b \o q, n)
      BY <2>1, AppendTaken
    <3>3. QED
      BY <3>1, <3>2 DEF Taken, b, q
  <2> HIDE DEF t
  <2>3. /\ Len(Append(t, n)) = Len(t) + 1 /\ Append(t, n)[Len(t) + 1] = n
        /\ \A i \in 1 .. Len(t) : Append(t, n)[i] = t[i]
    BY <2>1
  <2>4. \A m : LastTaken(c, m)' <=> m = n
    <3>1. c \in known' \ closed'
      BY <1>3
    <3>2. Len(Append(t, n)) > 0
      BY <2>1, <2>3
    <3>3. QED
      BY <2>2, <2>3, <3>1, <3>2 DEF LastTaken, Taken
  <2>5. WireFollows(c)'
    <3>1. \A m, x \in Items : LastTaken(c, m)' /\ Coming(c, x)' => m < x /\ m \in PartNumbers
      BY <1>1, <2>4
    <3>2. ASSUME sentParts'[c] < EndItem, NEW m \in Items, LastTaken(c, m)' \/ Coming(c, m)'
          PROVE  m <= sentParts'[c]
      BY <1>1, <1>2, <2>4, <3>2
    <3>3. QED
      BY <3>1, <3>2 DEF WireFollows
  <2>6. WireDense(c)'
    <3>1. ASSUME NEW m \in Items, NEW y \in Items, LastTaken(c, m)' \/ Coming(c, m)', m < y,
                 ~ Coming(c, y)'
          PROVE  /\ \A x \in Items : Coming(c, x)' /\ y < x => x = ErrorItem
                 /\ sentParts'[c] < EndItem => sentParts'[c] < y
      <4>1. Coming(c, m) /\ n <= m
        BY <1>1, <2>4, <3>1, Numbers
      <4>2. ~ Coming(c, y)
        BY <1>1, <3>1, <4>1, Numbers
      <4>3. /\ \A x \in Items : Coming(c, x) /\ y < x => x = ErrorItem
            /\ sentParts[c] < EndItem => sentParts[c] < y
        BY <3>1, <4>1, <4>2 DEF Stream, WireDense
      <4>4. QED
        BY <1>1, <4>3
    <3>2. QED
      BY <3>1 DEF WireDense
  <2>7. NoGap(c)'
    <3>1. ASSUME NEW i \in 1 .. Len(t)
          PROVE  Append(t, n)[i] \in PartNumbers /\ Append(t, n)[i + 1] \in {Append(t, n)[i] + 1, ErrorItem}
      <4>1. CASE i < Len(t)
        <5>1. i \in 1 .. Len(t) - 1 /\ i + 1 \in 1 .. Len(t)
          BY <2>1, <4>1
        <5>2. t[i] \in PartNumbers /\ t[i + 1] \in {t[i] + 1, ErrorItem}
          BY <5>1 DEF NoGap, t
        <5>3. QED
          BY <2>3, <5>1, <5>2
      <4>2. CASE i = Len(t)
        <5>1. PICK m \in Items : m = t[i]
          BY <2>1
        <5>2. LastTaken(c, m)
          BY <1>3, <2>1, <4>2, <5>1 DEF LastTaken, t
        <5>3. m < n /\ m \in PartNumbers
          BY <1>1, <1>2, <5>2
        <5>4. ASSUME n # m + 1 PROVE n = ErrorItem
          <6>1. m + 1 \in Items /\ m < m + 1 /\ m + 1 < n
            BY <5>3, <5>4, Numbers
          <6>2. ~ Coming(c, m + 1)
            <7>1. ~ Coming(c, m + 1)'
              BY <1>1, <6>1, Numbers
            <7>2. QED
              BY <1>1, <5>4, <7>1
          <6>3. QED
            BY <1>1, <5>2, <6>1, <6>2 DEF Stream, WireDense
        <5>5. QED
          BY <2>3, <4>2, <5>1, <5>3, <5>4
      <4>3. QED
        BY <2>1, <4>1, <4>2
    <3>2. 1 .. Len(Append(t, n)) - 1 = 1 .. Len(t)
      BY <2>1, <2>3
    <3>3. \A i \in 1 .. (Len(Taken(c)') - 1) :
             Taken(c)'[i] \in PartNumbers /\ Taken(c)'[i + 1] \in {Taken(c)'[i] + 1, ErrorItem}
      BY <2>2, <3>1, <3>2 DEF Taken
    <3>4. bodyEnd'[c] \in {"closed", "shut"} /\ connOf'[c] = attempt' /\ socket' = "open"
             => body'[c] = <<>> \/ Last(body'[c]) = Parts
      BY DEF NoGap
    <3>5. QED
      BY <3>3, <3>4 DEF NoGap
  <2>8. QED
    BY <1>1, <2>5, <2>6, <2>7 DEF Stream
<1>4. CASE c \notin known \ closed
  <2>1. NoGap(c)'
    BY <1>4, NoGapKept
  <2>2. \A m : ~ LastTaken(c, m)'
    BY <1>4 DEF LastTaken
  <2>3. WireFollows(c)'
    BY <1>1, <1>2, <2>2 DEF WireFollows
  <2>4. WireDense(c)'
    <3>1. ASSUME NEW m \in Items, NEW y \in Items, Coming(c, m)', m < y, ~ Coming(c, y)'
          PROVE  /\ \A x \in Items : Coming(c, x)' /\ y < x => x = ErrorItem
                 /\ sentParts'[c] < EndItem => sentParts'[c] < y
      <4>1. Coming(c, m) /\ n < m
        BY <1>1, <3>1
      <4>2. ~ Coming(c, y)
        BY <1>1, <3>1, <4>1, Numbers
      <4>3. /\ \A x \in Items : Coming(c, x) /\ y < x => x = ErrorItem
            /\ sentParts[c] < EndItem => sentParts[c] < y
        BY <3>1, <4>1, <4>2 DEF Stream, WireDense
      <4>4. QED
        BY <1>1, <4>3
    <3>2. QED
      BY <2>2, <3>1 DEF WireDense
  <2>5. QED
    BY <1>1, <2>1, <2>3, <2>4 DEF Stream
<1>5. QED
  BY <1>3, <1>4

(* The reader takes an item of c. *)
LEMMA ItemTaken ==
    ASSUME TypeOK, NEW c \in Uploads, Stream(c), NoGap(c), InputOf(c), Takes(c)
    PROVE  Stream(c)' /\ NoGap(c)'
<1>0. c \in Calls
  BY Numbers
<1>1. PICK ended \in {"closed", "shut"} : TakeItem(c, ended)
  BY DEF Takes
<1>2. UNCHANGED <<attempt, socket, wire, sentParts, connOf, stage, known, closed>>
  BY <1>0, <1>1, TakeEffect
<1>3. WireSorted(c)' /\ \A n : Coming(c, n)' <=> Coming(c, n)
  BY <1>2 DEF Stream, WireSorted, Coming, ItemAt
<1> DEFINE b == body[c]
           q == items[c]
           t == Taken(c)
<1>4. /\ b \in Seq(Items) /\ q \in Seq(Items) /\ t \in Seq(Items)
      /\ Len(b) \in Nat /\ Len(q) \in Nat /\ Len(t) = Len(b) + Len(q)
      /\ \A i \in 1 .. Len(t) : t[i] = IF i <= Len(b) THEN b[i] ELSE q[i - Len(b)]
  BY <1>0, TakenParts
<1>5. \A i \in 1 .. Len(t) - 1 : t[i] \in PartNumbers /\ t[i + 1] \in {t[i] + 1, ErrorItem}
  BY DEF NoGap
<1>6. body \in [Calls -> Seq(PartNumbers)] /\ items \in [Calls -> Seq(Items)]
      /\ bodyEnd \in [Calls -> {"open", "closed", "failed", "shut"}]
  BY DEF TypeOK
<1>7. ASSUME q # <<>>, Head(q) \in PartNumbers, items' = [items EXCEPT ![c] = Tail(q)],
             body' = [body EXCEPT ![c] = Append(b, Head(q))], bodyEnd' = bodyEnd, bodyEnd[c] = "open"
      PROVE  Stream(c)' /\ NoGap(c)'
  <2>1. body'[c] = Append(b, Head(q)) /\ items'[c] = Tail(q)
    BY <1>0, <1>6, <1>7
  <2>2. Append(b, Head(q)) \o Tail(q) = b \o q
    <3> HIDE DEF b, q
    <3>1. QED
      BY <1>4, <1>7, MoveTaken
  <2>3. Taken(c)' = Taken(c)
    BY <2>1, <2>2 DEF Taken
  <2>4. NoGap(c)'
    BY <1>7, <2>3 DEF NoGap
  <2>5. \A n : LastTaken(c, n)' <=> LastTaken(c, n)
    BY <1>2, <2>3 DEF LastTaken
  <2>6. QED
    BY <1>2, <1>3, <2>4, <2>5, StreamKept
<1>8. ASSUME q # <<>>, Head(q) \in {EndItem, ErrorItem}, items' = [items EXCEPT ![c] = Tail(q)],
             body' = body,
             bodyEnd' = [bodyEnd EXCEPT ![c] = IF Head(q) = EndItem THEN ended ELSE "failed"]
      PROVE  Stream(c)' /\ NoGap(c)'
  <2>1. body'[c] = b /\ items'[c] = Tail(q) /\ bodyEnd'[c] = IF Head(q) = EndItem THEN ended ELSE "failed"
    BY <1>0, <1>6, <1>8
  <2> HIDE DEF b, q, t
  <2>2. /\ Len(q) >= 1 /\ Head(q) = q[1] /\ Tail(q) \in Seq(Items) /\ Len(Tail(q)) = Len(q) - 1
    BY <1>4, <1>8
  <2>3. Len(b) + 1 \in 1 .. Len(t) /\ t[Len(b) + 1] = Head(q)
    <3>1. Len(b) + 1 \in 1 .. Len(t) /\ ~ (Len(b) + 1 <= Len(b)) /\ (Len(b) + 1) - Len(b) = 1
      BY <1>4, <2>2
    <3>2. QED
      BY <1>4, <2>2, <3>1
  <2>4. Head(q) \notin PartNumbers /\ Head(q) \in Nat /\ EndItem # ErrorItem
    BY <1>8, Numbers
  <2>5. Len(t) = Len(b) + 1
    <3>1. ASSUME Len(t) > Len(b) + 1 PROVE FALSE
      <4>1. Len(b) + 1 \in 1 .. Len(t) - 1
        BY <1>4, <3>1
      <4>2. QED
        BY <1>5, <2>3, <2>4, <4>1
    <3>2. QED
      BY <1>4, <2>3, <3>1
  <2>6. Tail(q) = <<>>
    BY <1>4, <2>2, <2>5
  <2>7. body'[c] \o items'[c] = b
    BY <1>4, <2>1, <2>6, ConcatEmptySeq
  <2>8. ASSUME Len(b) > 0
        PROVE  /\ b[Len(b)] \in PartNumbers
               /\ Head(q) = EndItem => b[Len(b)] = Parts
    <3>1. Len(b) \in 1 .. Len(t) - 1 /\ Len(b) \in 1 .. Len(t)
      BY <1>4, <2>5, <2>8
    <3>2. t[Len(b)] = b[Len(b)]
      BY <1>4, <3>1
    <3>3. b[Len(b)] \in PartNumbers /\ Head(q) \in {b[Len(b)] + 1, ErrorItem}
      BY <1>5, <2>3, <3>1, <3>2
    <3>4. QED
      BY <2>4, <3>3, Numbers
  <2>9. NoGap(c)'
    <3>1. ASSUME NEW i \in 1 .. Len(b) - 1
          PROVE  b[i] \in PartNumbers /\ b[i + 1] \in {b[i] + 1, ErrorItem}
      <4>1. i \in 1 .. Len(t) - 1 /\ i \in 1 .. Len(t) /\ i + 1 \in 1 .. Len(t) /\ i <= Len(b) /\ i + 1 <= Len(b)
        BY <1>4, <2>5
      <4>2. t[i] = b[i] /\ t[i + 1] = b[i + 1]
        BY <1>4, <4>1
      <4>3. QED
        BY <1>5, <4>1, <4>2
    <3>2. bodyEnd'[c] \in {"closed", "shut"} => b = <<>> \/ Last(b) = Parts
      <4>1. ASSUME bodyEnd'[c] \in {"closed", "shut"}, b # <<>> PROVE Last(b) = Parts
        <5>1. Head(q) = EndItem
          BY <2>1, <4>1
        <5>2. Len(b) > 0
          BY <1>4, <4>1
        <5>3. QED
          BY <2>8, <5>1, <5>2 DEF Last
      <4>2. QED
        BY <4>1
    <3>3. \A i \in 1 .. (Len(Taken(c)') - 1) :
             Taken(c)'[i] \in PartNumbers /\ Taken(c)'[i + 1] \in {Taken(c)'[i] + 1, ErrorItem}
      BY <2>7, <3>1 DEF Taken
    <3>4. QED
      BY <2>1, <3>2, <3>3 DEF NoGap
  <2>10. CASE c \in known \ closed
    <3>1. PICK e \in Items : e = Head(q) /\ e \notin PartNumbers /\ e >= EndItem
      BY <1>8, <2>4, Numbers
    <3>2. LastTaken(c, e)
      BY <2>3, <2>5, <2>10, <3>1, <1>4 DEF LastTaken, t
    <3>3. (\A x \in Items : ~ Coming(c, x)) /\ ~ (sentParts[c] < EndItem)
      <4>1. \A x \in Items : ~ Coming(c, x)
        BY <3>1, <3>2 DEF Stream, WireFollows
      <4>2. ASSUME sentParts[c] < EndItem PROVE FALSE
        <5>1. e <= sentParts[c]
          BY <3>1, <3>2, <4>2 DEF Stream, WireFollows
        <5>2. sentParts[c] \in Nat
          BY <1>0, Numbers DEF TypeOK
        <5>3. QED
          BY <3>1, <4>2, <5>1, <5>2, Numbers
      <4>3. QED
        BY <4>1, <4>2
    <3>4. WireFollows(c)' /\ WireDense(c)'
      BY <1>2, <1>3, <3>3 DEF WireFollows, WireDense
    <3>5. QED
      BY <1>3, <2>9, <3>4 DEF Stream
  <2>11. CASE c \notin known \ closed
    <3>1. \A n : LastTaken(c, n)' => LastTaken(c, n)
      BY <1>2, <2>11 DEF LastTaken
    <3>2. QED
      BY <1>2, <1>3, <2>9, <3>1, StreamKept
  <2>12. QED
    BY <2>10, <2>11
<1>9. ASSUME c \in closed, items' = items, body' = body, bodyEnd' = [bodyEnd EXCEPT ![c] = "closed"]
      PROVE  Stream(c)' /\ NoGap(c)'
  <2>1. ~ (connOf'[c] = attempt' /\ socket' = "open")
    <3>1. socket = "closed" \/ connOf[c] < attempt
      BY <1>9 DEF InputOf, Takes
    <3>2. connOf[c] \in 0 .. MaxAttempts /\ attempt \in Attempts
      BY <1>0 DEF TypeOK
    <3>3. QED
      BY <1>2, <3>1, <3>2, Numbers
  <2>2. NoGap(c)'
    BY <1>9, <2>1 DEF NoGap, Taken
  <2>3. \A n : LastTaken(c, n)' => LastTaken(c, n)
    BY <1>2, <1>9 DEF LastTaken, Taken
  <2>4. QED
    BY <1>2, <1>3, <2>2, <2>3, StreamKept
<1>10. QED
  BY <1>0, <1>1, <1>7, <1>8, <1>9, TakeEffect

BodyOf(c) == InputOf(c) /\ Stream(c) /\ NoGap(c)

(* The invariant is that of every body. *)
LEMMA BodyParts == BodyInv <=> \A c \in Uploads : BodyOf(c)
<1>1. InputInv <=> \A c \in Uploads : InputOf(c)
  BY DEF InputInv, InputOf, Early
<1>2. StreamInv <=> \A c \in Uploads : Stream(c)
  BY DEF StreamInv, Stream
<1>3. BodyHasNoGap <=> \A c \in Uploads : NoGap(c)
  BY DEF BodyHasNoGap, NoGap, Taken
<1>4. QED
  BY <1>1, <1>2, <1>3 DEF BodyInv, BodyOf

(* A step that does not touch the body, the queue or the wire of c. *)
LEMMA BodyKept ==
    ASSUME NEW c, BodyOf(c),
           UNCHANGED <<wire, items, body, bodyEnd, sentParts, attempt, socket, connOf>>,
           c \in known' \ closed' => c \in known \ closed,
           stage'[c] \in Early => stage[c] \in Early /\ (c \in closed' => c \in closed),
           c \in closed' /\ stage'[c] \in {"running", "responding"}
             => c \in closed /\ stage[c] \in {"running", "responding"}
    PROVE  BodyOf(c)'
<1>1. WireSorted(c)' /\ \A n : Coming(c, n)' <=> Coming(c, n)
  BY DEF BodyOf, Stream, WireSorted, Coming, ItemAt
<1>2. \A n : LastTaken(c, n)' => LastTaken(c, n)
  BY DEF LastTaken, Taken
<1>3. Stream(c)'
  BY <1>1, <1>2, StreamKept DEF BodyOf
<1>4. NoGap(c)'
  BY NoGapKept DEF BodyOf
<1>5. InputOf(c)'
  BY DEF BodyOf, InputOf
<1>6. QED
  BY <1>3, <1>4, <1>5 DEF BodyOf

(* A message that is not an item of c is put on the wire or taken off it. *)
LEMMA WireKept ==
    ASSUME TypeOK, NEW c, Stream(c), UNCHANGED <<items, body, known, closed, sentParts>>,
           \/ \E msg \in Messages : wire' = Append(wire, msg) /\ \A n : ~ IsItem(msg, c, n)
           \/ wire # <<>> /\ wire' = Tail(wire) /\ \A n : ~ IsItem(Head(wire), c, n)
    PROVE  Stream(c)'
<1>1. \A n : LastTaken(c, n)' => LastTaken(c, n)
  BY DEF LastTaken, Taken
<1>2. ASSUME NEW msg \in Messages, wire' = Append(wire, msg), \A n : ~ IsItem(msg, c, n)
      PROVE  Stream(c)'
  <2>1. WireSorted(c)'
    BY <1>2, AppendSorted DEF Stream
  <2>2. \A n : Coming(c, n)' <=> Coming(c, n)
    BY <1>2, AppendComing
  <2>3. QED
    BY <1>1, <2>1, <2>2, StreamKept
<1>3. ASSUME wire # <<>>, wire' = Tail(wire), \A n : ~ IsItem(Head(wire), c, n)
      PROVE  Stream(c)'
  <2>1. WireSorted(c)' /\ \A n : Coming(c, n) <=> Coming(c, n)' \/ ItemAt(1, c, n)
    BY <1>3, TailComing DEF Stream
  <2>2. \A n : ~ ItemAt(1, c, n)
    BY <1>3, WireTail DEF ItemAt, IsItem, TypeOK
  <2>3. QED
    BY <1>1, <2>1, <2>2, StreamKept
<1>4. QED
  BY <1>2, <1>3

(* No step breaks the bodies. *)
LEMMA BodyStep == CallInv /\ BodyInv /\ [Next]_vars => BodyInv'
<1> SUFFICES ASSUME CallInv, BodyInv, [Next]_vars, NEW d \in Uploads PROVE BodyOf(d)'
  <2>1. (\A c \in Uploads : BodyOf(c))' => BodyInv'
    BY BodyParts, PTL
  <2>2. QED
    BY <2>1
<1>0. /\ TypeOK /\ d \in Calls
      /\ stage \in [Calls -> Stages] /\ connOf \in [Calls -> 0 .. MaxAttempts]
      /\ items \in [Calls -> Seq(Items)] /\ body \in [Calls -> Seq(PartNumbers)]
      /\ bodyEnd \in [Calls -> {"open", "closed", "failed", "shut"}]
      /\ sentParts \in [Calls -> 0 .. EndItem]
      /\ attempt \in Nat /\ connOf[d] \in Nat
  BY Numbers, SMTT(30) DEF CallInv, DaemonInv, TypeOK
<1>b. BodyOf(d) /\ InputOf(d) /\ Stream(d) /\ NoGap(d)
  BY BodyParts DEF BodyOf
<1>s. /\ connOf[d] <= attempt
      /\ socket = "connecting" => connOf[d] < attempt
      /\ stage[d] = "none" <=> connOf[d] = 0
      /\ d \in known => stage[d] \in {"running", "responding"}
  BY <1>0 DEF CallInv, SentInv, DaemonInv, NoInputLeak
<1>1. ASSUME NEW c \in Calls, HubSendsCall(c) PROVE BodyOf(d)'
  <2>1. /\ wire' = Append(wire, [type |-> "tool_call", call |-> c])
        /\ UNCHANGED <<attempt, socket, sentParts, known, items, closed, body, bodyEnd>>
        /\ stage[c] = "none" /\ stage' = [stage EXCEPT ![c] = "sent"]
        /\ connOf' = [connOf EXCEPT ![c] = attempt]
    BY <1>1 DEF HubSendsCall, inputVars, CallInv, SentInv
  <2>2. Stream(d)'
    <3>1. [type |-> "tool_call", call |-> c] \in Messages
      BY DEF Messages
    <3>2. \A n : ~ IsItem([type |-> "tool_call", call |-> c], d, n)
      BY DEF IsItem
    <3>3. QED
      BY <1>0, <1>b, <2>1, <3>1, <3>2, WireKept
  <2>3. CASE d = c
    <3>1. stage[d] \in Early /\ stage'[d] = "sent"
      BY <1>0, <2>1, <2>3 DEF Early
    <3>2. bodyEnd[d] = "open"
      BY <1>b, <3>1 DEF InputOf
    <3>3. InputOf(d)'
      BY <1>b, <2>1, <3>1 DEF InputOf
    <3>4. NoGap(d)'
      BY <1>b, <2>1, <3>2, NoGapKept
    <3>5. QED
      BY <2>2, <3>3, <3>4 DEF BodyOf
  <2>4. CASE d # c
    <3>1. stage'[d] = stage[d] /\ connOf'[d] = connOf[d]
      BY <1>0, <2>1, <2>4
    <3>2. InputOf(d)'
      BY <1>b, <2>1, <3>1 DEF InputOf
    <3>3. NoGap(d)'
      BY <1>b, <2>1, <3>1, NoGapKept
    <3>4. QED
      BY <2>2, <3>2, <3>3 DEF BodyOf
  <2>5. QED
    BY <2>3, <2>4
<1>2. ASSUME NEW c \in Calls, NEW n \in Items, HubSendsItem(c, n) PROVE BodyOf(d)'
  <2>1. /\ wire' = Append(wire, [type |-> "tool_stream_input", call |-> c, item |-> n])
        /\ UNCHANGED <<attempt, socket, connOf, stage, known, items, closed, body, bodyEnd>>
        /\ \A e \in Calls \ {c} : sentParts'[e] = sentParts[e]
    BY <1>0, <1>2 DEF HubSendsItem, inputVars
  <2>2. InputOf(d)'
    BY <1>b, <2>1 DEF InputOf
  <2>3. NoGap(d)'
    BY <1>b, <2>1, NoGapKept
  <2>4. CASE d = c
    BY <1>0, <1>2, <1>b, <2>2, <2>3, <2>4, ItemSent DEF BodyOf
  <2>5. CASE d # c
    <3>1. [type |-> "tool_stream_input", call |-> c, item |-> n] \in Messages
      BY DEF Messages
    <3>2. \A x : ~ IsItem([type |-> "tool_stream_input", call |-> c, item |-> n], d, x)
      BY <2>5 DEF IsItem
    <3>3. WireSorted(d)'
      BY <1>0, <1>b, <2>1, <3>1, <3>2, AppendSorted DEF Stream
    <3>4. \A x : Coming(d, x)' <=> Coming(d, x)
      BY <1>0, <2>1, <3>1, <3>2, AppendComing
    <3>5. \A x : LastTaken(d, x)' => LastTaken(d, x)
      BY <2>1 DEF LastTaken, Taken
    <3>6. sentParts'[d] = sentParts[d]
      BY <1>0, <2>1, <2>5
    <3>7. QED
      BY <1>b, <2>2, <2>3, <3>3, <3>4, <3>5, <3>6, StreamKept DEF BodyOf
  <2>6. QED
    BY <2>4, <2>5
<1>3. CASE HubSendsClose
  <2>1. [type |-> "close"] \in Messages /\ \A n : ~ IsItem([type |-> "close"], d, n)
    BY DEF Messages, IsItem
  <2>2. /\ wire' = Append(wire, [type |-> "close"])
        /\ UNCHANGED <<attempt, socket, connOf, stage, sentParts, known, items, closed, body, bodyEnd>>
    BY <1>3 DEF HubSendsClose, inputVars
  <2>3. Stream(d)'
    BY <1>0, <1>b, <2>1, <2>2, WireKept
  <2>4. InputOf(d)' /\ NoGap(d)'
    BY <1>b, <2>2, NoGapKept DEF InputOf
  <2>5. QED
    BY <2>3, <2>4 DEF BodyOf
<1>4. ASSUME \/ OnOpen \/ Reconnect PROVE BodyOf(d)'
  <2>1. UNCHANGED <<wire, connOf, stage, sentParts, known, items, closed, body, bodyEnd>>
    BY <1>4 DEF OnOpen, Reconnect, inputVars
  <2>2. Stream(d)'
    <3>1. WireSorted(d)' /\ \A n : Coming(d, n)' <=> Coming(d, n)
      BY <1>b, <2>1 DEF Stream, WireSorted, Coming, ItemAt
    <3>2. \A n : LastTaken(d, n)' => LastTaken(d, n)
      BY <2>1 DEF LastTaken, Taken
    <3>3. QED
      BY <1>b, <2>1, <3>1, <3>2, StreamKept
  <2>3. ~ (connOf'[d] = attempt' /\ socket' = "open")
    BY <1>0, <1>4, <1>s, <2>1 DEF OnOpen, Reconnect
  <2>4. NoGap(d)'
    BY <1>b, <2>1, <2>3, NoGapKept
  <2>5. connOf[d] < attempt'
    BY <1>0, <1>4, <1>s DEF OnOpen, Reconnect
  <2>6. InputOf(d)'
    BY <1>b, <2>1, <2>5 DEF InputOf
  <2>7. QED
    BY <2>2, <2>4, <2>6 DEF BodyOf
<1>5. CASE OnSocketClose
  <2>1. /\ socket' = "closed" /\ wire' = <<>>
        /\ closed \subseteq closed' /\ closed' \subseteq closed \cup known
        /\ known' \subseteq known /\ (d \in known' => connOf[d] # attempt)
        /\ UNCHANGED <<attempt, connOf, stage, sentParts, items, body, bodyEnd>>
    <3>1. PICK streamInputs : /\ streamInputs = {c \in known : connOf[c] = attempt}
                              /\ closed' = closed \cup streamInputs
                              /\ known' = known \ streamInputs
      BY <1>5 DEF OnSocketClose
    <3>2. QED
      BY <1>5, <3>1 DEF OnSocketClose
  <2>2. /\ WireSorted(d)' /\ \A n : ~ Coming(d, n)'
        /\ \A n : LastTaken(d, n)' => LastTaken(d, n)
    <3>1. WireSorted(d)'
      BY <2>1 DEF WireSorted
    <3>2. \A n : ~ Coming(d, n)'
      BY <2>1 DEF Coming
    <3>3. \A n : LastTaken(d, n)' => LastTaken(d, n)
      <4>1. Taken(d)' = Taken(d) /\ (d \in known' \ closed' => d \in known \ closed)
        BY <2>1 DEF Taken
      <4>2. QED
        BY <4>1 DEF LastTaken
    <3>4. QED
      BY <3>1, <3>2, <3>3
  <2>3. Stream(d)'
    <3>1. CASE connOf[d] = attempt
      <4>1. \A n : ~ LastTaken(d, n)'
        BY <2>1, <3>1 DEF LastTaken
      <4>2. QED
        BY <2>2, <4>1 DEF Stream, WireFollows, WireDense
    <3>2. CASE connOf[d] # attempt
      <4>1. \A n : ~ Coming(d, n)
        BY <3>2 DEF CallInv, WireInv, Coming, ItemAt
      <4>2. QED
        BY <1>b, <2>1, <2>2, <4>1, StreamKept
    <3>3. QED
      BY <3>1, <3>2
  <2>4. NoGap(d)'
    BY <1>b, <2>1, NoGapKept
  <2>5. InputOf(d)'
    BY <1>b, <1>s, <2>1 DEF InputOf, Early
  <2>6. QED
    BY <2>3, <2>4, <2>5 DEF BodyOf, Stream
<1>6. ASSUME OnToolCall \/ OnCloseMessage PROVE BodyOf(d)'
  <2>1. /\ wire # <<>> /\ wire' = Tail(wire) /\ Head(wire).type # "tool_stream_input"
        /\ socket = "open" /\ socket' \in {"open", "closing"}
        /\ UNCHANGED <<attempt, connOf, sentParts, known, items, closed, body, bodyEnd>>
    BY <1>6 DEF OnToolCall, OnCloseMessage, Received, inputVars
  <2>2. Stream(d)'
    <3>1. \A n : ~ IsItem(Head(wire), d, n)
      BY <2>1 DEF IsItem
    <3>2. QED
      BY <1>0, <1>b, <2>1, <3>1, WireKept
  <2>3. NoGap(d)'
    BY <1>b, <2>1, NoGapKept
  <2>4. stage'[d] = stage[d] \/ (stage[d] = "sent" /\ stage'[d] \in {"starting", "queued"})
    <3>1. CASE OnCloseMessage
      BY <3>1 DEF OnCloseMessage
    <3>2. CASE OnToolCall
      <4>1. PICK c \in Calls : stage[c] = "sent" /\ Limit(c, attempt)
        BY <3>2, HeadCall DEF OnToolCall
      <4>2. QED
        BY <1>0, <4>1 DEF Limit
    <3>3. QED
      BY <1>6, <3>1, <3>2
  <2>5. InputOf(d)'
    BY <1>b, <2>1, <2>4 DEF InputOf, Early
  <2>6. QED
    BY <2>2, <2>3, <2>5 DEF BodyOf
<1>7. CASE OnStreamInput
  <2>1. /\ wire # <<>> /\ wire' = Tail(wire) /\ Head(wire).type = "tool_stream_input"
        /\ UNCHANGED <<attempt, socket, connOf, stage, sentParts, known, closed, body, bodyEnd>>
    BY <1>7 DEF OnStreamInput, Received
  <2>2. Head(wire) \in Messages /\ Head(wire) = wire[1]
    BY <1>0, <2>1, WireTail DEF TypeOK
  <2>3. PICK c \in Calls, n \in Items : c = Head(wire).call /\ n = Head(wire).item
    BY <2>1, <2>2, MessageFields
  <2>4. items' = IF c \in known /\ c \notin closed
                 THEN [items EXCEPT ![c] = Append(items[c], n)] ELSE items
    BY <1>7, <2>3 DEF OnStreamInput
  <2>5. InputOf(d) => InputOf(d)'
    <3>1. d \in known \/ items'[d] = items[d]
      BY <1>0, <2>4
    <3>2. QED
      BY <1>s, <2>1, <3>1 DEF InputOf, Early
  <2>6. CASE d = c
    <3>1. ItemAt(1, d, n)
      BY <2>1, <2>2, <2>3, <2>6 DEF ItemAt
    <3>2. items'[d] = IF d \in known /\ d \notin closed THEN Append(items[d], n) ELSE items[d]
      BY <1>0, <2>4, <2>6
    <3>3. Stream(d)' /\ NoGap(d)'
      BY <1>0, <1>b, <2>1, <3>1, <3>2, ItemReceived
    <3>4. QED
      BY <1>b, <2>5, <3>3 DEF BodyOf
  <2>7. CASE d # c
    <3>1. items'[d] = items[d]
      BY <1>0, <2>4, <2>7
    <3>2. NoGap(d)'
      BY <1>b, <2>1, <3>1, NoGapKept
    <3>3. \A x : ~ ItemAt(1, d, x)
      BY <2>2, <2>3, <2>7 DEF ItemAt
    <3>4. WireSorted(d)' /\ \A x : Coming(d, x)' <=> Coming(d, x)
      BY <1>0, <1>b, <2>1, <3>3, TailComing DEF Stream
    <3>5. \A x : LastTaken(d, x)' => LastTaken(d, x)
      BY <2>1, <3>1 DEF LastTaken, Taken
    <3>6. Stream(d)'
      BY <1>b, <2>1, <3>4, <3>5, StreamKept
    <3>7. QED
      BY <1>b, <2>5, <3>2, <3>6 DEF BodyOf
  <2>8. QED
    BY <2>6, <2>7
<1>8. ASSUME NEW c \in Calls, StartCall(c) PROVE BodyOf(d)'
  <2>1. /\ stage[c] = "starting" /\ stage' = [stage EXCEPT ![c] = "running"]
        /\ known' \subseteq known \cup {c}
        /\ UNCHANGED <<attempt, socket, wire, sentParts, connOf, items, closed, body, bodyEnd>>
    BY <1>8 DEF StartCall
  <2>2. CASE d # c
    <3>1. stage'[d] = stage[d] /\ (d \in known' \ closed' => d \in known \ closed)
      BY <1>0, <2>1, <2>2
    <3>2. QED
      BY <1>b, <2>1, <3>1, BodyKept
  <2>3. CASE d = c
    <3>1. /\ body[d] = <<>> /\ items[d] = <<>> /\ d \notin closed /\ stage'[d] = "running"
      BY <1>0, <1>b, <2>1, <2>3 DEF InputOf, Early
    <3>2. Len(Taken(d)) = 0
      <4>1. <<>> \in Seq(Items) /\ Len(<<>>) = 0
        OBVIOUS
      <4>2. <<>> \o <<>> = <<>>
        BY <4>1, ConcatEmptySeq
      <4>3. QED
        BY <3>1, <4>1, <4>2 DEF Taken
    <3>3. \A n : ~ LastTaken(d, n)'
      BY <2>1, <3>2 DEF LastTaken, Taken
    <3>4. WireSorted(d)' /\ \A n : Coming(d, n)' <=> Coming(d, n)
      BY <1>b, <2>1 DEF Stream, WireSorted, Coming, ItemAt
    <3>5. Stream(d)'
      BY <1>b, <2>1, <3>3, <3>4, StreamKept
    <3>6. NoGap(d)'
      BY <1>b, <2>1, NoGapKept
    <3>7. InputOf(d)'
      BY <2>1, <3>1 DEF InputOf, Early
    <3>8. QED
      BY <3>5, <3>6, <3>7 DEF BodyOf
  <2>4. QED
    BY <2>2, <2>3
<1>9. ASSUME NEW c \in Calls, Ends(c) PROVE BodyOf(d)'
  <2>1. stage[c] \in Counted /\ connOf[c] \in Attempts
    BY <1>9, SlotHeld DEF Ends, Counted
  <2>2. queue[connOf[c]] # <<>> => stage[Head(queue[connOf[c]])] = "queued"
                                   /\ Head(queue[connOf[c]]) \in Calls
    BY <2>1, HeadWaits DEF Waiting
  <2>3. \/ stage'[d] = stage[d] \/ stage'[d] = "done"
        \/ stage[d] = "queued" /\ stage'[d] = "starting"
    BY <1>0, <1>9, <2>1, <2>2, ReleaseEffect DEF Ends
  <2>4. UNCHANGED <<attempt, socket, wire, sentParts, connOf, known, items, closed, body, bodyEnd>>
    BY <1>9 DEF Ends, inputVars
  <2>5. QED
    BY <1>b, <2>3, <2>4, BodyKept DEF Early
<1>10. ASSUME NEW c \in Calls, Takes(c) PROVE BodyOf(d)'
  <2>1. PICK ended \in {"closed", "shut"} : TakeItem(c, ended)
    BY <1>10 DEF Takes
  <2>2. /\ UNCHANGED <<attempt, socket, wire, sentParts, connOf, stage, known, closed>>
        /\ \A e \in Calls \ {c} : items'[e] = items[e] /\ body'[e] = body[e] /\ bodyEnd'[e] = bodyEnd[e]
    BY <1>0, <2>1, TakeEffect, ZenonT(60)
  <2>3. CASE d = c
    <3>1. Stream(d)' /\ NoGap(d)'
      BY <1>0, <1>10, <1>b, <2>3, ItemTaken
    <3>2. stage[d] \notin Early
      BY <1>10, <2>3 DEF Takes, Early
    <3>3. InputOf(d)'
      BY <1>b, <2>2, <3>2 DEF InputOf
    <3>4. QED
      BY <3>1, <3>3 DEF BodyOf
  <2>4. CASE d # c
    <3>1. items'[d] = items[d] /\ body'[d] = body[d] /\ bodyEnd'[d] = bodyEnd[d]
      BY <1>0, <2>2, <2>4
    <3>2. NoGap(d)'
      BY <1>b, <2>2, <3>1, NoGapKept
    <3>3. InputOf(d)'
      BY <1>b, <2>2, <3>1 DEF InputOf
    <3>4. WireSorted(d)' /\ \A n : Coming(d, n)' <=> Coming(d, n)
      BY <1>b, <2>2 DEF Stream, WireSorted, Coming, ItemAt
    <3>5. \A n : LastTaken(d, n)' => LastTaken(d, n)
      BY <2>2, <3>1 DEF LastTaken, Taken
    <3>6. Stream(d)'
      BY <1>b, <2>2, <3>4, <3>5, StreamKept
    <3>7. QED
      BY <3>2, <3>3, <3>6 DEF BodyOf
  <2>5. QED
    BY <2>3, <2>4
<1>11. ASSUME NEW c \in Calls, Respond(c) \/ ResultAuditFails(c) PROVE BodyOf(d)'
  <2>1. /\ UNCHANGED <<attempt, socket, wire, sentParts, connOf, known, items, closed, body, bodyEnd>>
        /\ \/ stage[c] = "running" /\ stage' = [stage EXCEPT ![c] = "responding"]
           \/ stage' = [stage EXCEPT ![c] = "caught"]
    BY <1>11 DEF Respond, ResultAuditFails, inputVars
  <2>2. \/ stage'[d] = stage[d] \/ stage'[d] = "caught"
        \/ stage[d] = "running" /\ stage'[d] = "responding"
    BY <1>0, <2>1
  <2>3. QED
    BY <1>b, <2>1, <2>2, BodyKept DEF Early
<1>12. ASSUME NEW c \in Calls, Returns(c) \/ FailCall(c) PROVE BodyOf(d)'
  <2>1. /\ UNCHANGED <<attempt, socket, wire, sentParts, connOf>> /\ DropInput(c)
        /\ \/ stage' = [stage EXCEPT ![c] = "answered"]
           \/ stage' = [stage EXCEPT ![c] = "caught"]
    BY <1>12 DEF Returns, Answer, FailCall
  <2>2. /\ UNCHANGED <<items, body, bodyEnd>>
        /\ d \in known' \ closed' => d \in known \ closed
        /\ d # c /\ d \in closed' => d \in closed
    BY <2>1 DEF DropInput
  <2>3. \/ d # c /\ stage'[d] = stage[d]
        \/ stage'[d] \in {"answered", "caught"}
    BY <1>0, <2>1
  <2>4. QED
    BY <1>b, <2>1, <2>2, <2>3, BodyKept DEF Early
<1>c. ASSUME NEW c \in Calls, SendChunk(c) PROVE BodyOf(d)'
  BY <1>b, <1>c, BodyKept DEF SendChunk, inputVars, Early
<1>13. ASSUME NEW c \in Calls, Call(c) PROVE BodyOf(d)'
  BY <1>8, <1>9, <1>10, <1>11, <1>12, <1>13, <1>c, CallCases
<1>14. CASE UNCHANGED vars
  BY <1>14, <1>b, BodyKept DEF vars
<1>15. QED
  BY <1>1, <1>2, <1>3, <1>4, <1>5, <1>6, <1>7, <1>13, <1>14 DEF Next, Dispatch

(* The target receives the parts of a body in their order, none twice and  *)
(* none missing in between, and the end only after the last part, however  *)
(* connections, handlers and the reader interleave.                        *)
THEOREM BodiesWhole == Spec => []BodyHasNoGap
<1>1. Init => BodyInv
  <2> SUFFICES ASSUME Init, NEW c \in Uploads PROVE BodyOf(c)
    BY BodyParts
  <2>1. /\ c \in Calls /\ wire = <<>> /\ known = {} /\ closed = {} /\ body[c] = <<>> /\ items[c] = <<>>
        /\ bodyEnd[c] = "open" /\ stage[c] = "none"
    BY Numbers DEF Init
  <2>2. \A n : ~ Coming(c, n) /\ ~ LastTaken(c, n)
    BY <2>1 DEF Coming, LastTaken
  <2>3. Stream(c)
    <3>1. WireSorted(c)
      BY <2>1 DEF WireSorted
    <3>2. QED
      BY <2>2, <3>1 DEF Stream, WireFollows, WireDense
  <2>4. Taken(c) = <<>>
    <3>1. <<>> \in Seq(Items)
      OBVIOUS
    <3>2. <<>> \o <<>> = <<>>
      BY <3>1, ConcatEmptySeq
    <3>3. QED
      BY <2>1, <3>2 DEF Taken
  <2>5. NoGap(c)
    BY <2>1, <2>4 DEF NoGap
  <2>6. InputOf(c)
    BY <2>1 DEF InputOf
  <2>7. QED
    BY <2>3, <2>5, <2>6 DEF BodyOf
<1>2. BodyInv => BodyHasNoGap
  BY DEF BodyInv
<1>3. QED
  BY <1>1, <1>2, BodyStep, CallsKept, PTL DEF Spec
=============================================================================
