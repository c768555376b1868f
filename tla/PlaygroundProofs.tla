-------------------------- MODULE PlaygroundProofs --------------------------
(***************************************************************************)
(* Proofs about Playground, for any number of requests, any callbacks of   *)
(* the browser, and any bounds.                                            *)
(*                                                                         *)
(* The callbacks of a request write to "the last message", whichever that  *)
(* is, and to references that the next request takes over.  PageInv is     *)
(* what holds whatever the user does: no key twice, the copy in            *)
(* localStorage equal to the list unless the storage failed, no text left  *)
(* in a callback whose source is done.  CalmInv holds as long as no list   *)
(* was changed under a request: the one request under way is the one whose *)
(* answer is unfinished, last in the list and held by the references, and  *)
(* a callback whose source was closed finds an answer it cannot change.    *)
(***************************************************************************)
EXTENDS Playground, WellFoundedInduction, TLAPS

\* An element of a list, and the text of an answer.
Texts == Seq((Requests \cup {"typed", "edited", "error"}) \X Nat)
Entries == [from : {"user", "assistant"}, key : {"user", "assistant"} \X Requests,
            status : {"none", "loading", "streaming", "complete", "error"}, text : Texts]
Notes == {<<Note("error")>>, <<Note("edited")>>}
InOrder(m) == \A k \in 1 .. Len(m.text) : m.text[k] = <<m.key[2], k>>
Tagged(m) == (m.from = "assistant" <=> m.status # "none") /\ m.key[1] = m.from

\* A list of messages, no key twice, and one of requests that were started.
Listed(l) ==
    /\ l \in Seq(Entries)
    /\ \A i, j \in 1 .. Len(l) : l[i].key = l[j].key => i = j
    /\ \A i \in 1 .. Len(l) : Tagged(l[i])

Started(l) == \A i \in 1 .. Len(l) : source[l[i].key[2]] # "unused"

\* The events that are left of a progress callback.
BatchOK ==
    batch # <<>> =>
       /\ batch \in Requests \X Seq(MessageEvents \cup NamedEvents)
       /\ batch[2] # <<>>
       /\ EndsLast(batch[2])
       /\ source[batch[1]] \in {"open", "done", "closed"}
       /\ source[batch[1]] = "done" =>
             \A i \in 1 .. Len(batch[2]) : batch[2][i] \notin {"chunk", "delta"}
       /\ chunks[batch[1]] + Len(batch[2]) <= MaxChunks

NoTextYet == \A r \in Requests : source[r] \in {"unused", "awaited", "answered"} => chunks[r] = 0

Keys == {"user", "assistant"} \X Requests
SourceStates == {"unused", "open", "silent", "done", "closed", "awaited", "answered"}
ScalarsOK ==
    /\ streaming \in BOOLEAN
    /\ editing \in Keys \cup {<<"none">>}
    /\ source \in [Requests -> SourceStates]
    /\ chunks \in [Requests -> 0 .. MaxChunks]
    /\ current \in Requests \cup {"none"}
    /\ complete \in BOOLEAN
    /\ changes \in 0 .. MaxChanges
    /\ disturbed \in BOOLEAN

ListsOK ==
    /\ Listed(messages) /\ Started(messages)
    /\ Listed(saved) /\ Started(saved)
    /\ faults \in 0 .. MaxSaveFaults
    /\ faults = 0 => saved = messages

PageInv == ScalarsOK /\ ListsOK /\ BatchOK /\ NoTextYet

\* The answers of a list are texts of their own requests; only the last may be unfinished.
Orderly(l) ==
    \A i \in 1 .. Len(l) :
        /\ l[i].from = "assistant" => l[i].text \in Notes \/ InOrder(l[i])
        /\ Unfinished(l[i]) => i = Len(l)

\* The last message is the answer to r, with the text that has come so far.
Shows(r) ==
    /\ messages # <<>>
    /\ Unfinished(messages[Len(messages)])
    /\ messages[Len(messages)].key[2] = r
    /\ InOrder(messages[Len(messages)])
    /\ Len(messages[Len(messages)].text) = chunks[r]

\* The requests under way are the ones whose answers are unfinished.
AnswersShown ==
    /\ \A r \in Requests : UnderWay(r) => Shows(r)
    /\ \A i \in 1 .. Len(messages) : Unfinished(messages[i]) => UnderWay(messages[i].key[2])

\* What the references say of the request that is under way.
RefsHold ==
    /\ \A r \in Requests : source[r] \in {"open", "silent"} => streaming /\ current = r /\ ~complete
    /\ \A r \in Requests : source[r] = "awaited" => ~streaming
    /\ current # "none" => source[current] \in {"open", "silent"}

\* A source that was closed in the middle of its callback.
ClosedInBatch ==
    batch # <<>> /\ source[batch[1]] # "open" =>
        /\ complete
        /\ \A r \in Requests : ~UnderWay(r)
        /\ source[batch[1]] = "closed" =>
              messages # <<>> /\ messages[Len(messages)].status = "error"

\* An answer that ended with its last event has all of its text.
AnswersWhole ==
    faults = 0 =>
        \A i \in 1 .. Len(messages) :
            messages[i].status = "complete" /\ source[messages[i].key[2]] = "done" =>
                \/ messages[i].text \in Notes
                \/ Len(messages[i].text) = chunks[messages[i].key[2]]

CalmInv ==
    /\ Orderly(messages) /\ Orderly(saved)
    /\ AnswersShown
    /\ AnswersWhole
    /\ RefsHold
    /\ ClosedInBatch

IInv == PageInv /\ (~disturbed => CalmInv)

-----------------------------------------------------------------------------
(* Lists *)

(* The keys, and so what kind of message it is, stay. *)
SameKeys(l, q) ==
    /\ q \in Seq(Entries) /\ Len(q) = Len(l)
    /\ \A i \in 1 .. Len(l) : q[i].key = l[i].key /\ Tagged(q[i])

(* A list whose keys stay still has no key twice.                          *)
LEMMA SameListed ==
    ASSUME NEW l, NEW q, Listed(l), SameKeys(l, q)
    PROVE  Listed(q)
BY DEF Listed, SameKeys

(* Its requests are still ones that were started.                          *)
LEMMA SameStarted ==
    ASSUME NEW l, NEW q, Started(l), SameKeys(l, q)
    PROVE  Started(q)
BY DEF Started, SameKeys

(* One message of a list is replaced. *)
LEMMA Replaced ==
    ASSUME NEW l, NEW q, Listed(l), NEW i \in 1 .. Len(l), NEW m \in Entries, m.key = l[i].key,
           Tagged(m), q = [l EXCEPT ![i] = m]
    PROVE  SameKeys(l, q) /\ q[i] = m /\ \A j \in 1 .. Len(l) : j # i => q[j] = l[j]
<1>1. l \in Seq(Entries) /\ Len(l) \in Nat /\ \A j \in 1 .. Len(l) : l[j] \in Entries
  BY DEF Listed
<1>2. /\ q \in Seq(Entries) /\ Len(q) = Len(l)
      /\ q[i] = m /\ \A j \in 1 .. Len(l) : j # i => q[j] = l[j]
  BY <1>1
<1>3. QED
  BY <1>2 DEF SameKeys, Listed


(* The texts that handlers write. *)
LEMMA TextTypes ==
    /\ <<>> \in Texts /\ <<Note("typed")>> \in Texts
    /\ <<Note("edited")>> \in Texts /\ <<Note("error")>> \in Texts
    /\ \A r \in Requests : <<<<r, 1>>>> \in Texts
    /\ \A t \in Texts, r \in Requests, n \in Nat : Append(t, <<r, n>>) \in Texts
BY DEF Texts, Note

(* The messages that a request starts with.                                *)
LEMMA NewEntries ==
    ASSUME NEW r \in Requests
    PROVE  /\ createLoadingAssistantMessage(r) \in Entries /\ Tagged(createLoadingAssistantMessage(r))
           /\ createLoadingAssistantMessage(r).key = <<"assistant", r>>
           /\ createLoadingAssistantMessage(r).from = "assistant"
           /\ createLoadingAssistantMessage(r).status = "loading"
           /\ createLoadingAssistantMessage(r).text = <<>>
           /\ createUserMessage(r) \in Entries /\ Tagged(createUserMessage(r))
           /\ createUserMessage(r).key = <<"user", r>>
           /\ createUserMessage(r).from = "user" /\ createUserMessage(r).status = "none"
BY TextTypes DEF createLoadingAssistantMessage, createUserMessage, Message, Entries, Tagged

(* What the callbacks of a request do to a list: nothing, or the last      *)
(* message becomes m.                                                      *)
LEMMA LastReplaced ==
    ASSUME NEW l, Listed(l), NEW m
    PROVE  /\ updateLastAssistantMessage(l, m) # l =>
                 /\ l # <<>> /\ l[Len(l)].from = "assistant"
                 /\ updateLastAssistantMessage(l, m) = [l EXCEPT ![Len(l)] = m]
           /\ l # <<>> /\ l[Len(l)].from = "assistant" =>
                 updateLastAssistantMessage(l, m) = [l EXCEPT ![Len(l)] = m]
BY DEF updateLastAssistantMessage, Last, ReplaceAt, Listed

(* The last message of a list that is not empty.                           *)
LEMMA LastEntry ==
    ASSUME NEW l, Listed(l), l # <<>>
    PROVE  /\ Len(l) \in 1 .. Len(l) /\ l[Len(l)] \in Entries /\ l[Len(l)].text \in Texts
           /\ Last(l) = l[Len(l)] /\ Tagged(l[Len(l)])
<1>1. Len(l) \in 1 .. Len(l)
  BY DEF Listed
<1>2. l[Len(l)] \in Entries /\ Tagged(l[Len(l)])
  BY <1>1 DEF Listed
<1>3. QED
  BY <1>1, <1>2 DEF Entries, Last

(* The last message of a list becomes m. *)
LastBecomes(l, q, m) ==
    /\ q = [l EXCEPT ![Len(l)] = m]
    /\ l # <<>> /\ m \in Entries /\ Tagged(m)
    /\ l[Len(l)].from = "assistant" /\ m.from = "assistant" /\ m.key = l[Len(l)].key

(* The other messages of the list stay as they are.                        *)
LEMMA BecomesEffect ==
    ASSUME NEW l, NEW q, NEW m, Listed(l), LastBecomes(l, q, m)
    PROVE  /\ SameKeys(l, q) /\ Listed(q) /\ q # <<>> /\ Len(q) = Len(l) /\ Len(l) \in Nat \ {0}
           /\ q[Len(l)] = m /\ \A j \in 1 .. Len(l) : j # Len(l) => q[j] = l[j]
<1>1. Len(l) \in 1 .. Len(l)
  BY LastEntry DEF LastBecomes
<1>a. q = [l EXCEPT ![Len(l)] = m] /\ m \in Entries /\ m.key = l[Len(l)].key /\ Tagged(m)
  BY DEF LastBecomes
<1>2. /\ SameKeys(l, q) /\ q[Len(l)] = m
      /\ \A j \in 1 .. Len(l) : j # Len(l) => q[j] = l[j]
  <2>1. l \in Seq(Entries) /\ Len(l) \in Nat /\ \A j \in 1 .. Len(l) : l[j] \in Entries
    BY DEF Listed
  <2>2. /\ q \in Seq(Entries) /\ Len(q) = Len(l)
        /\ q[Len(l)] = m /\ \A j \in 1 .. Len(l) : j # Len(l) => q[j] = l[j]
    BY <1>1, <1>a, <2>1
  <2>3. QED
    BY <1>a, <2>2 DEF SameKeys, Listed
<1>3. Listed(q) /\ Len(q) = Len(l) /\ Len(l) \in Nat \ {0}
  BY <1>1, <1>2, SameListed DEF SameKeys, Listed
<1>4. q # <<>>
  BY <1>3 DEF Listed
<1>5. QED
  BY <1>2, <1>3, <1>4

(* handleStreamUpdate *)
LEMMA UpdateEffect ==
    ASSUME NEW l, Listed(l), NEW r \in Requests, chunks[r] \in Nat
    PROVE  \/ handleStreamUpdate(l, r) = l
              /\ (l # <<>> /\ l[Len(l)].from = "assistant" => l[Len(l)].status = "error")
           \/ \E m : /\ LastBecomes(l, handleStreamUpdate(l, r), m)
                     /\ l[Len(l)].status # "error"
                     /\ m.status = "streaming" /\ m.text = Append(l[Len(l)].text, <<r, chunks[r] + 1>>)
<1>1. CASE l = <<>>
  BY <1>1 DEF handleStreamUpdate
<1>2. CASE l # <<>> /\ l[Len(l)].status = "error"
  BY <1>2, LastEntry DEF handleStreamUpdate
<1>3. CASE l # <<>> /\ l[Len(l)].status # "error" /\ l[Len(l)].from # "assistant"
  BY <1>3, LastEntry DEF handleStreamUpdate, updateLastAssistantMessage
<1>4. CASE l # <<>> /\ l[Len(l)].status # "error" /\ l[Len(l)].from = "assistant"
  <2> DEFINE last == Last(l)
             t == Append(last.text, <<r, chunks[r] + 1>>)
             m == [last EXCEPT !.status = "streaming", !.text = t]
  <2>1. last \in Entries /\ t \in Texts /\ last = l[Len(l)]
    BY <1>4, LastEntry, TextTypes
  <2>2. /\ m \in Entries /\ m.key = last.key /\ m.from = last.from
        /\ m.status = "streaming" /\ m.text = t
    <3> HIDE DEF last, t
    <3> QED
      BY <2>1 DEF Entries
  <2>4. handleStreamUpdate(l, r) = [l EXCEPT ![Len(l)] = m]
    <3>1. handleStreamUpdate(l, r) = updateLastAssistantMessage(l, m)
      BY <1>4, LastEntry, Zenon DEF handleStreamUpdate
    <3> HIDE DEF m
    <3>2. QED
      BY <1>4, <3>1, LastReplaced
  <2>5. LastBecomes(l, handleStreamUpdate(l, r), m)
    <3> HIDE DEF m
    <3>1. last.key[1] = last.from
      BY <1>4, <2>1, LastEntry DEF Tagged
    <3>2. QED
      BY <1>4, <2>1, <2>2, <2>4, <3>1 DEF LastBecomes, Tagged
  <2>6. QED
    BY <1>4, <2>1, <2>2, <2>5
<1>5. QED
  BY <1>1, <1>2, <1>3, <1>4

(* handleStreamComplete *)
LEMMA CompleteEffect ==
    ASSUME NEW l, Listed(l)
    PROVE  \/ handleStreamComplete(l) = l /\ (l # <<>> => ~Unfinished(l[Len(l)]))
           \/ \E m : /\ LastBecomes(l, handleStreamComplete(l), m)
                     /\ Unfinished(l[Len(l)])
                     /\ m.status = "complete" /\ m.text = l[Len(l)].text
<1>1. CASE l = <<>>
  BY <1>1 DEF handleStreamComplete
<1>2. CASE l # <<>> /\ l[Len(l)].status \in {"complete", "error"}
  BY <1>2, LastEntry DEF handleStreamComplete, Unfinished
<1>3. CASE l # <<>> /\ l[Len(l)].status \notin {"complete", "error"} /\ l[Len(l)].from # "assistant"
  BY <1>3, LastEntry DEF handleStreamComplete, updateLastAssistantMessage, Unfinished, Tagged
<1>4. CASE l # <<>> /\ l[Len(l)].status \notin {"complete", "error"} /\ l[Len(l)].from = "assistant"
  <2> DEFINE last == Last(l)
             m == [last EXCEPT !.status = "complete"]
  <2>1. last \in Entries /\ last = l[Len(l)]
    BY <1>4, LastEntry
  <2>2. /\ m \in Entries /\ m.key = last.key /\ m.from = last.from
        /\ m.status = "complete" /\ m.text = last.text
    <3> HIDE DEF last
    <3> QED
      BY <2>1 DEF Entries
  <2>3. Unfinished(last)
    BY <1>4, <2>1, LastEntry DEF Entries, Tagged, Unfinished
  <2>4. handleStreamComplete(l) = [l EXCEPT ![Len(l)] = m]
    <3>1. handleStreamComplete(l) = updateLastAssistantMessage(l, m)
      BY <1>4, LastEntry DEF handleStreamComplete
    <3> HIDE DEF m
    <3>2. QED
      BY <1>4, <3>1, LastReplaced
  <2>5. LastBecomes(l, handleStreamComplete(l), m)
    <3> HIDE DEF m
    <3>1. last.key[1] = last.from
      BY <1>4, <2>1, LastEntry DEF Tagged
    <3>2. QED
      BY <1>4, <2>1, <2>2, <2>4, <3>1 DEF LastBecomes, Tagged
  <2>6. QED
    BY <2>1, <2>2, <2>3, <2>5
<1>5. QED
  BY <1>1, <1>2, <1>3, <1>4

(* handleStreamError, and the answer of sendNonStreamingChat *)
LEMMA ErrorEffect ==
    ASSUME NEW l, Listed(l)
    PROVE  \/ handleStreamError(l) = l /\ (l # <<>> => l[Len(l)].from # "assistant")
           \/ \E m : /\ LastBecomes(l, handleStreamError(l), m)
                     /\ m.status = "error" /\ m.text = <<Note("error")>>
<1>1. CASE l = <<>>
  BY <1>1 DEF handleStreamError
<1>2. CASE l # <<>> /\ l[Len(l)].from # "assistant"
  BY <1>2, LastEntry DEF handleStreamError, updateLastAssistantMessage
<1>3. CASE l # <<>> /\ l[Len(l)].from = "assistant"
  <2> DEFINE last == Last(l)
             t == <<Note("error")>>
             m == [last EXCEPT !.status = "error", !.text = t]
  <2>1. last \in Entries /\ t \in Texts /\ last = l[Len(l)]
    BY <1>3, LastEntry, TextTypes
  <2>2. /\ m \in Entries /\ m.key = last.key /\ m.from = last.from
        /\ m.status = "error" /\ m.text = t
    <3> HIDE DEF last, t
    <3> QED
      BY <2>1 DEF Entries
  <2>4. handleStreamError(l) = [l EXCEPT ![Len(l)] = m]
    <3>1. handleStreamError(l) = updateLastAssistantMessage(l, m)
      BY <1>3, LastEntry DEF handleStreamError
    <3> HIDE DEF m
    <3>2. QED
      BY <1>3, <3>1, LastReplaced
  <2>5. LastBecomes(l, handleStreamError(l), m)
    <3> HIDE DEF m, t
    <3>1. last.key[1] = last.from
      BY <1>3, <2>1, LastEntry DEF Tagged
    <3>2. QED
      BY <1>3, <2>1, <2>2, <2>4, <3>1 DEF LastBecomes, Tagged
  <2>6. QED
    BY <2>2, <2>5
<1>4. QED
  BY <1>1, <1>2, <1>3

(* The answer of sendNonStreamingChat                                      *)
LEMMA AnswerEffect ==
    ASSUME NEW l, Listed(l), NEW r \in Requests
    PROVE  \/ Answered(l, r) = l /\ (l # <<>> => l[Len(l)].from # "assistant")
           \/ \E m : /\ LastBecomes(l, Answered(l, r), m)
                     /\ m.status = "complete" /\ m.text = <<<<r, 1>>>>
<1>1. CASE l = <<>>
  BY <1>1 DEF Answered
<1>2. CASE l # <<>> /\ l[Len(l)].from # "assistant"
  BY <1>2, LastEntry DEF Answered, updateLastAssistantMessage
<1>3. CASE l # <<>> /\ l[Len(l)].from = "assistant"
  <2> DEFINE last == Last(l)
             t == <<<<r, 1>>>>
             m == [last EXCEPT !.status = "complete", !.text = t]
  <2>1. last \in Entries /\ t \in Texts /\ last = l[Len(l)]
    BY <1>3, LastEntry, TextTypes
  <2>2. /\ m \in Entries /\ m.key = last.key /\ m.from = last.from
        /\ m.status = "complete" /\ m.text = t
    <3> HIDE DEF last, t
    <3> QED
      BY <2>1 DEF Entries
  <2>4. Answered(l, r) = [l EXCEPT ![Len(l)] = m]
    <3>1. Answered(l, r) = updateLastAssistantMessage(l, m)
      BY <1>3, LastEntry DEF Answered
    <3> HIDE DEF m
    <3>2. QED
      BY <1>3, <3>1, LastReplaced
  <2>5. LastBecomes(l, Answered(l, r), m)
    <3> HIDE DEF m, t
    <3>1. last.key[1] = last.from
      BY <1>3, <2>1, LastEntry DEF Tagged
    <3>2. QED
      BY <1>3, <2>1, <2>2, <2>4, <3>1 DEF LastBecomes, Tagged
  <2>6. QED
    BY <2>2, <2>5
<1>4. QED
  BY <1>1, <1>2, <1>3

(* The lists that start a request: some messages that were there, perhaps  *)
(* a message of the user, and the answer that is loading.                  *)
Opens(q, r) ==
    /\ Listed(q) /\ q # <<>>
    /\ q[Len(q)] = createLoadingAssistantMessage(r)
    /\ \A i \in 1 .. Len(q) : i # Len(q) =>
          \/ \E j \in 1 .. Len(messages) : q[i] = messages[j]
          \/ /\ q[i].from = "user"
             /\ q[i].key[2] = r \/ \E j \in 1 .. Len(messages) : q[i].key = messages[j].key

(* Any beginning of the list, with a new answer after it, has no key       *)
(* twice.                                                                  *)
LEMMA PrefixOpens ==
    ASSUME Listed(messages), Started(messages), NEW r \in Requests, source[r] = "unused",
           NEW n \in 0 .. Len(messages), NEW q \in Seq(Entries),
           \A i \in 1 .. n : /\ q[i].key = messages[i].key /\ Tagged(q[i])
                             /\ q[i] = messages[i] \/ q[i].from = "user",
           \/ Len(q) = n + 1 /\ q[n + 1] = createLoadingAssistantMessage(r)
           \/ Len(q) = n + 2 /\ q[n + 1] = createUserMessage(r)
                             /\ q[n + 2] = createLoadingAssistantMessage(r)
    PROVE  Opens(q, r)
<1>1. Len(messages) \in Nat /\ n \in Nat /\ Len(q) \in Nat /\ n <= Len(messages)
  BY DEF Listed
<1>2. \A i \in 1 .. n : i \in 1 .. Len(messages) /\ i \in 1 .. Len(q)
  BY <1>1
<1>3. \A i \in 1 .. n : q[i].key[2] # r
  BY <1>2 DEF Started
<1>4. \A i \in 1 .. Len(q) : i \in 1 .. n \/ i = n + 1 \/ i = n + 2
  BY <1>1
<1>5. /\ createLoadingAssistantMessage(r).key = <<"assistant", r>> /\ Tagged(createLoadingAssistantMessage(r))
      /\ createUserMessage(r).key = <<"user", r>> /\ Tagged(createUserMessage(r))
      /\ createUserMessage(r).from = "user"
  BY NewEntries
<1>a. ASSUME NEW i \in 1 .. Len(q), i \notin 1 .. n PROVE q[i].key[2] = r
  <2>1. CASE i = n + 1
    <3>1. \/ q[i] = createLoadingAssistantMessage(r)
          \/ q[i] = createUserMessage(r)
      BY <2>1
    <3>2. QED
      BY <1>5, <3>1
  <2>2. CASE i = n + 2
    <3>1. Len(q) # n + 1
      BY <1>1, <2>2
    <3>2. q[i] = createLoadingAssistantMessage(r)
      BY <2>2, <3>1
    <3>3. QED
      BY <1>5, <3>2
  <2>3. QED
    BY <1>4, <1>a, <2>1, <2>2
<1>6. \A i, j \in 1 .. Len(q) : q[i].key = q[j].key => i = j
  <2> SUFFICES ASSUME NEW i \in 1 .. Len(q), NEW j \in 1 .. Len(q), q[i].key = q[j].key PROVE i = j
    OBVIOUS
  <2>1. CASE i \in 1 .. n /\ j \in 1 .. n
    BY <1>2, <2>1 DEF Listed
  <2>2. CASE i \notin 1 .. n
    <3>1. q[i].key[2] = r
      BY <1>a, <2>2
    <3>2. j \notin 1 .. n
      BY <1>3, <3>1
    <3>3. QED
      BY <1>1, <1>4, <1>5, <2>2, <3>2
  <2>3. CASE j \notin 1 .. n
    <3>1. q[j].key[2] = r
      BY <1>a, <2>3
    <3>2. i \notin 1 .. n
      BY <1>3, <3>1
    <3>3. QED
      BY <1>1, <1>4, <1>5, <2>3, <3>2
  <2>4. QED
    BY <2>1, <2>2, <2>3
<1>7. \A i \in 1 .. Len(q) : Tagged(q[i])
  BY <1>4, <1>5
<1>8. q # <<>> /\ q[Len(q)] = createLoadingAssistantMessage(r)
  BY <1>1
<1>9. ASSUME NEW i \in 1 .. Len(q), i # Len(q)
      PROVE  \/ \E j \in 1 .. Len(messages) : q[i] = messages[j]
             \/ /\ q[i].from = "user"
                /\ q[i].key[2] = r \/ \E j \in 1 .. Len(messages) : q[i].key = messages[j].key
  <2>1. CASE i \in 1 .. n
    BY <1>2, <2>1
  <2>2. CASE i \notin 1 .. n
    <3>1. q[i] = createUserMessage(r)
      BY <1>1, <1>4, <1>9, <2>2
    <3>2. QED
      BY <1>5, <3>1
  <2>3. QED
    BY <2>1, <2>2
<1>10. QED
  BY <1>6, <1>7, <1>8, <1>9 DEF Opens, Listed

(* handleSendMessage and handleSuggestionClick *)
LEMMA SendOpens ==
    ASSUME Listed(messages), Started(messages), NEW r \in Requests, source[r] = "unused"
    PROVE  Opens(messages \o <<createUserMessage(r), createLoadingAssistantMessage(r)>>, r)
<1> DEFINE u == createUserMessage(r)
           a == createLoadingAssistantMessage(r)
           q == messages \o <<u, a>>
<1>1. u \in Entries /\ a \in Entries
  BY NewEntries
<1>2. messages \in Seq(Entries) /\ Len(messages) \in 0 .. Len(messages)
      /\ \A i \in 1 .. Len(messages) : Tagged(messages[i])
  BY DEF Listed
<1>3. /\ q \in Seq(Entries) /\ Len(q) = Len(messages) + 2
      /\ q[Len(messages) + 1] = u /\ q[Len(messages) + 2] = a
      /\ \A i \in 1 .. Len(messages) : q[i] = messages[i]
  <2> HIDE DEF u, a
  <2> QED
    BY <1>1, <1>2
<1>4. Opens(q, r)
  <2> HIDE DEF q
  <2> QED
    BY <1>2, <1>3, PrefixOpens
<1>5. QED
  BY <1>4

(* handleRegenerateMessage *)
LEMMA RegenerateOpens ==
    ASSUME Listed(messages), Started(messages), NEW r \in Requests, source[r] = "unused",
           NEW i \in 1 .. Len(messages)
    PROVE  Opens(Append(SubSeq(messages, 1, i - 1), createLoadingAssistantMessage(r)), r)
<1> DEFINE a == createLoadingAssistantMessage(r)
           q == Append(SubSeq(messages, 1, i - 1), a)
<1>1. a \in Entries
  BY NewEntries
<1>2. messages \in Seq(Entries) /\ Len(messages) \in Nat /\ i - 1 \in 0 .. Len(messages)
      /\ \A j \in 1 .. Len(messages) : Tagged(messages[j])
  BY DEF Listed
<1>3. /\ SubSeq(messages, 1, i - 1) \in Seq(Entries) /\ Len(SubSeq(messages, 1, i - 1)) = i - 1
      /\ \A j \in 1 .. i - 1 : SubSeq(messages, 1, i - 1)[j] = messages[j]
  BY <1>2
<1>4. /\ q \in Seq(Entries) /\ Len(q) = (i - 1) + 1 /\ q[(i - 1) + 1] = a
      /\ \A j \in 1 .. i - 1 : q[j] = messages[j] /\ j \in 1 .. Len(messages)
  <2> HIDE DEF a
  <2> QED
    BY <1>1, <1>2, <1>3
<1>5. Opens(q, r)
  <2> HIDE DEF q
  <2>1. \A j \in 1 .. i - 1 : q[j].key = messages[j].key /\ Tagged(q[j]) /\ q[j] = messages[j]
    BY <1>2, <1>4
  <2> QED
    BY <1>2, <1>4, <2>1, PrefixOpens
<1>6. QED
  BY <1>5

(* Save & Submit *)
LEMMA ResubmitOpens ==
    ASSUME Listed(messages), Started(messages), NEW r \in Requests, source[r] = "unused",
           NEW i \in 1 .. Len(messages), messages[i].from = "user"
    PROVE  Opens(Resubmitted(i, r), r)
<1> DEFINE a == createLoadingAssistantMessage(r)
           t == <<Note("edited")>>
           e == [messages[i] EXCEPT !.text = t]
           q == SubSeq(messages, 1, i - 1) \o <<e, a>>
<1>1. a \in Entries
  BY NewEntries
<1>2. /\ messages \in Seq(Entries) /\ Len(messages) \in Nat /\ i \in 0 .. Len(messages)
      /\ \A j \in 1 .. Len(messages) : Tagged(messages[j]) /\ messages[j] \in Entries
  BY DEF Listed
<1>3. e \in Entries /\ e.key = messages[i].key /\ Tagged(e) /\ e.from = "user"
  <2>1. t \in Texts /\ messages[i] \in Entries /\ Tagged(messages[i])
    BY <1>2, TextTypes
  <2> HIDE DEF t
  <2>2. QED
    BY <2>1 DEF Entries, Tagged
<1>4. /\ SubSeq(messages, 1, i - 1) \in Seq(Entries) /\ Len(SubSeq(messages, 1, i - 1)) = i - 1
      /\ \A j \in 1 .. i - 1 : SubSeq(messages, 1, i - 1)[j] = messages[j]
  BY <1>2
<1>5. /\ q \in Seq(Entries) /\ Len(q) = i + 1 /\ q[i + 1] = a /\ q[i] = e
      /\ \A j \in 1 .. i - 1 : q[j] = messages[j] /\ j \in 1 .. Len(messages)
  <2> DEFINE p == SubSeq(messages, 1, i - 1)
  <2>1. /\ p \in Seq(Entries) /\ Len(p) = i - 1 /\ a \in Entries /\ e \in Entries /\ i \in Nat \ {0}
        /\ \A j \in 1 .. i - 1 : p[j] = messages[j] /\ j \in 1 .. Len(messages)
    BY <1>1, <1>2, <1>3, <1>4
  <2> HIDE DEF a, e, p
  <2>2. /\ p \o <<e, a>> \in Seq(Entries)
        /\ Len(p \o <<e, a>>) = i + 1
        /\ (p \o <<e, a>>)[i] = e /\ (p \o <<e, a>>)[i + 1] = a
    BY <2>1
  <2>3. \A j \in 1 .. i - 1 : (p \o <<e, a>>)[j] = p[j]
    BY <2>1
  <2>4. QED
    BY <2>1, <2>2, <2>3 DEF p
<1>6. \A j \in 1 .. i : /\ q[j].key = messages[j].key /\ Tagged(q[j])
                        /\ q[j] = messages[j] \/ q[j].from = "user"
  <2> HIDE DEF q, e
  <2>1. ASSUME NEW j \in 1 .. i PROVE j = i \/ j \in 1 .. i - 1
    BY <1>2
  <2>2. QED
    BY <1>2, <1>3, <1>5, <2>1
<1>7. Resubmitted(i, r) = q
  BY DEF Resubmitted
<1>8. QED
  <2> HIDE DEF q
  <2> QED
    BY <1>2, <1>5, <1>6, <1>7, PrefixOpens

(* A set of positions has a last one. *)
LEMMA LastPosition ==
    ASSUME NEW n \in Nat, NEW S, S \subseteq 1 .. n, S # {}
    PROVE  \E i \in S : \A k \in S : k <= i
<1> DEFINE R == OpToRel(<, Nat)
           T == {n - i : i \in S}
<1>1. IsWellFoundedOn(R, Nat)
  BY NatLessThanWellFounded
<1>2. \A a, b \in Nat : a < b => <<a, b>> \in R
  <2>1. R = {ss \in Nat \X Nat : ss[1] < ss[2]}
    BY Zenon DEF OpToRel
  <2> HIDE DEF R
  <2>2. QED
    BY <2>1
<1> HIDE DEF R
<1>3. T \subseteq Nat /\ T # {}
  <2>1. PICK i : i \in S
    OBVIOUS
  <2>2. n - i \in T
    BY <2>1
  <2>3. \A j \in S : n - j \in Nat
    OBVIOUS
  <2>4. QED
    BY <2>2, <2>3
<1>4. PICK x \in T : \A y \in T : ~ (<<y, x>> \in R)
  <2> HIDE DEF T
  <2> QED
    BY <1>1, <1>3, WFMin
<1>5. PICK i \in S : x = n - i
  BY <1>4
<1>6. ASSUME NEW k \in S PROVE k <= i
  <2>1. n - k \in T /\ n - k \in Nat /\ x \in Nat /\ k \in Nat /\ i \in Nat
    BY <1>3, <1>5
  <2>2. ~(n - k < x)
    <3> HIDE DEF T
    <3> QED
      BY <1>2, <1>4, <2>1
  <2>3. QED
    BY <1>5, <2>1, <2>2
<1>7. QED
  BY <1>6

(* Changes of the list by the user that start no request: messages are     *)
(* kept, some of them with a new text.                                     *)
Keeps(q) ==
    /\ Listed(q)
    /\ \A i \in 1 .. Len(q) : \E j \in 1 .. Len(messages) :
          /\ q[i].key = messages[j].key /\ q[i].from = messages[j].from
          /\ q[i].status = messages[j].status
          /\ q[i].text = messages[j].text \/ q[i].text \in Notes

(* Saving an edit keeps every message but one text.                        *)
LEMMA SaveKeeps ==
    ASSUME Listed(messages), NEW i \in 1 .. Len(messages)
    PROVE  Keeps([messages EXCEPT ![i].text = <<Note("edited")>>])
<1> DEFINE t == <<Note("edited")>>
           e == [messages[i] EXCEPT !.text = t]
           q == [messages EXCEPT ![i] = e]
<1>1. /\ messages \in Seq(Entries) /\ Len(messages) \in Nat
      /\ \A j \in 1 .. Len(messages) : Tagged(messages[j]) /\ messages[j] \in Entries
  BY DEF Listed
<1>2. /\ e \in Entries /\ e.key = messages[i].key /\ Tagged(e) /\ e.from = messages[i].from
      /\ e.status = messages[i].status /\ e.text = t
  <2>1. t \in Texts /\ messages[i] \in Entries /\ Tagged(messages[i])
    BY <1>1, TextTypes
  <2> HIDE DEF t
  <2>2. QED
    BY <2>1 DEF Entries, Tagged
<1>3. /\ q \in Seq(Entries) /\ Len(q) = Len(messages) /\ q[i] = e
      /\ \A j \in 1 .. Len(messages) : j # i => q[j] = messages[j]
  <2> HIDE DEF e
  <2> QED
    BY <1>1, <1>2
<1>4. t \in Notes
  BY DEF Notes
<1>5. Keeps(q)
  <2> HIDE DEF q, e, t
  <2>1. SameKeys(messages, q)
    BY <1>1, <1>2, <1>3 DEF SameKeys
  <2>2. Listed(q)
    BY <2>1, SameListed
  <2>3. QED
    BY <1>2, <1>3, <1>4, <2>2 DEF Keeps
<1>6. QED
  BY <1>5

(* Deleting a message keeps the others.                                    *)
LEMMA DeleteKeeps ==
    ASSUME Listed(messages), NEW i \in 1 .. Len(messages)
    PROVE  Keeps(RemoveAt(messages, i))
<1> DEFINE n == Len(messages)
           a == SubSeq(messages, 1, i - 1)
           b == SubSeq(messages, i + 1, n)
           q == a \o b
<1>1. /\ messages \in Seq(Entries) /\ n \in Nat
      /\ \A j \in 1 .. n : Tagged(messages[j]) /\ messages[j] \in Entries
  BY DEF Listed
<1>2. a \in Seq(Entries) /\ Len(a) = i - 1 /\ \A j \in 1 .. i - 1 : a[j] = messages[j]
  BY <1>1
<1>3. b \in Seq(Entries) /\ Len(b) = n - i /\ \A j \in 1 .. n - i : b[j] = messages[j + i]
  BY <1>1
<1>4. /\ q \in Seq(Entries) /\ Len(q) = n - 1
      /\ \A j \in 1 .. i - 1 : q[j] = messages[j]
      /\ \A j \in i .. n - 1 : q[j] = messages[j + 1]
  <2> HIDE DEF a, b
  <2>1. q \in Seq(Entries) /\ Len(q) = n - 1
    <3>1. q \in Seq(Entries) /\ Len(q) = Len(a) + Len(b)
      BY <1>2, <1>3
    <3> HIDE DEF q
    <3>2. QED
      BY <1>1, <1>2, <1>3, <3>1
  <2>2. ASSUME NEW j \in 1 .. i - 1 PROVE q[j] = messages[j]
    BY <1>1, <1>2, <1>3
  <2>3. ASSUME NEW j \in i .. n - 1 PROVE q[j] = messages[j + 1]
    <3>1. j - (i - 1) \in 1 .. n - i /\ (j - (i - 1)) + i = j + 1 /\ j \in 1 .. Len(a) + Len(b) /\ j > Len(a)
      BY <1>1, <1>2, <1>3
    <3>2. q[j] = b[j - (i - 1)]
      BY <1>2, <1>3, <3>1
    <3>3. b[j - (i - 1)] = messages[(j - (i - 1)) + i]
      BY <1>3, <3>1
    <3>4. QED
      BY <3>1, <3>2, <3>3
  <2>4. QED
    BY <2>1, <2>2, <2>3
<1>5. Keeps(q)
  <2> HIDE DEF q
  <2> DEFINE at(j) == IF j < i THEN j ELSE j + 1
  <2>1. \A j \in 1 .. Len(q) : at(j) \in 1 .. n /\ q[j] = messages[at(j)]
    BY <1>1, <1>4
  <2>2. \A j, k \in 1 .. Len(q) : at(j) = at(k) => j = k
    BY <1>1, <1>4
  <2> HIDE DEF at
  <2>3. Listed(q)
    <3>1. ASSUME NEW j \in 1 .. Len(q), NEW k \in 1 .. Len(q), q[j].key = q[k].key PROVE j = k
      <4>1. at(j) = at(k)
        BY <2>1, <3>1 DEF Listed
      <4>2. QED
        BY <2>2, <4>1
    <3>2. \A j \in 1 .. Len(q) : Tagged(q[j])
      BY <1>1, <2>1 DEF Listed
    <3>3. q \in Seq(Entries)
      BY <1>4
    <3>4. QED
      BY <3>1, <3>2, <3>3 DEF Listed
  <2>4. QED
    BY <2>1, <2>3 DEF Keeps
<1>6. RemoveAt(messages, i) = q
  BY DEF RemoveAt
<1>7. QED
  BY <1>5, <1>6

(* Clearing keeps none, so nothing is added.                               *)
LEMMA ClearKeeps == Keeps(<<>>)
BY DEF Keeps, Listed

(* A list that is loaded: as it was stored, but for one unfinished answer. *)
LEMMA SanitizeEffect ==
    ASSUME NEW l, Listed(l)
    PROVE  /\ SameKeys(l, sanitizeMessagesOnLoad(l))
           /\ \A i \in 1 .. Len(l) :
                 \/ /\ sanitizeMessagesOnLoad(l)[i] = l[i]
                    /\ Unfinished(l[i]) => \E j \in 1 .. Len(l) : i < j /\ Unfinished(l[j])
                 \/ /\ Unfinished(l[i])
                    /\ sanitizeMessagesOnLoad(l)[i].status \in {"complete", "error"}
                    /\ \/ sanitizeMessagesOnLoad(l)[i].text = l[i].text
                       \/ sanitizeMessagesOnLoad(l)[i].text \in Notes
<1> DEFINE S == {i \in DOMAIN l : l[i].from = "assistant" /\ Unfinished(l[i])}
           z == CHOOSE j \in S : \A k \in S : k <= j
<1>1. /\ l \in Seq(Entries) /\ Len(l) \in Nat /\ DOMAIN l = 1 .. Len(l)
      /\ \A j \in 1 .. Len(l) : Tagged(l[j]) /\ l[j] \in Entries
  BY DEF Listed
<1>2. \A j \in 1 .. Len(l) : j \in S <=> Unfinished(l[j])
  BY <1>1 DEF Tagged, Unfinished
<1>3. CASE S = {}
  <2>1. sanitizeMessagesOnLoad(l) = l
    BY <1>3 DEF sanitizeMessagesOnLoad
  <2>2. SameKeys(l, l)
    BY <1>1 DEF SameKeys
  <2>3. QED
    BY <1>2, <1>3, <2>1, <2>2
<1>4. CASE S # {}
  <2>1. z \in S /\ \A k \in S : k <= z
    <3>1. S \subseteq 1 .. Len(l)
      BY <1>1
    <3> HIDE DEF S
    <3>2. \E j \in S : \A k \in S : k <= j
      BY <1>1, <1>4, <3>1, LastPosition
    <3>3. QED
      BY <3>2
  <2> HIDE DEF z
  <2>2. z \in 1 .. Len(l) /\ l[z] \in Entries /\ Tagged(l[z]) /\ Unfinished(l[z]) /\ l[z].from = "assistant"
    BY <1>1, <2>1
  <2> DEFINE t == <<Note("error")>>
             e == IF l[z].text # <<>> THEN [l[z] EXCEPT !.status = "complete"]
                  ELSE [l[z] EXCEPT !.status = "error", !.text = t]
             q == [l EXCEPT ![z] = e]
  <2>3. /\ e \in Entries /\ e.key = l[z].key /\ e.from = l[z].from /\ Tagged(e)
        /\ e.status \in {"complete", "error"}
        /\ e.text = l[z].text \/ e.text = t
    <3>1. t \in Texts
      BY TextTypes
    <3> HIDE DEF t
    <3>2. QED
      BY <2>2, <3>1 DEF Entries, Tagged
  <2>4. t \in Notes
    BY DEF Notes
  <2>5. /\ q \in Seq(Entries) /\ Len(q) = Len(l) /\ q[z] = e
        /\ \A j \in 1 .. Len(l) : j # z => q[j] = l[j]
    <3> HIDE DEF e
    <3> QED
      BY <1>1, <2>2, <2>3
  <2>6. sanitizeMessagesOnLoad(l) = q
    <3>1. sanitizeMessagesOnLoad(l) =
             IF l[z].text # <<>> THEN [l EXCEPT ![z].status = "complete"]
             ELSE [l EXCEPT ![z].status = "error", ![z].text = <<Note("error")>>]
      BY <1>4, Zenon DEF sanitizeMessagesOnLoad, z
    <3>2. CASE l[z].text # <<>>
      BY <3>1, <3>2, Zenon
    <3>3. CASE l[z].text = <<>>
      <4>1. [l EXCEPT ![z].status = "error", ![z].text = t] = q
        BY <1>1, <2>2, <3>3
      <4>2. QED
        BY <3>1, <3>3, <4>1, Zenon
    <3>4. QED
      BY <3>2, <3>3
  <2> HIDE DEF q, e, t
  <2>7. SameKeys(l, q)
    BY <1>1, <2>2, <2>3, <2>5 DEF SameKeys
  <2>8. ASSUME NEW i \in 1 .. Len(l), i # z, Unfinished(l[i]) PROVE i < z
    BY <1>1, <1>2, <2>1, <2>2, <2>8
  <2>9. ASSUME NEW i \in 1 .. Len(l)
        PROVE  \/ /\ q[i] = l[i]
                  /\ Unfinished(l[i]) => \E j \in 1 .. Len(l) : i < j /\ Unfinished(l[j])
               \/ /\ Unfinished(l[i]) /\ q[i].status \in {"complete", "error"}
                  /\ q[i].text = l[i].text \/ q[i].text \in Notes
    <3>1. CASE i = z
      BY <2>2, <2>3, <2>4, <2>5, <3>1
    <3>2. CASE i # z
      BY <2>2, <2>5, <2>8, <3>2
    <3>3. QED
      BY <3>1, <3>2
  <2>10. QED
    BY <2>6, <2>7, <2>9, Zenon
<1>5. QED
  BY <1>3, <1>4

-----------------------------------------------------------------------------
(* The page, whatever the user does *)

(* What every message of a list is.                                        *)
LEMMA EntryKey ==
    ASSUME NEW l, Listed(l), NEW i \in 1 .. Len(l)
    PROVE  l[i] \in Entries /\ Tagged(l[i]) /\ l[i].key \in Keys /\ l[i].key[2] \in Requests
<1>1. l[i] \in Entries /\ Tagged(l[i])
  BY DEF Listed
<1>2. l[i].key \in Keys
  BY <1>1 DEF Entries, Keys
<1>3. QED
  BY <1>1, <1>2 DEF Keys

(* The invariant of the page says at least what TypeOK does.               *)
LEMMA PageTypes == PageInv => TypeOK
<1> SUFFICES ASSUME PageInv PROVE TypeOK
  OBVIOUS
<1>1. ASSUME NEW l \in {messages, saved}, NEW i \in DOMAIN l
      PROVE  /\ l[i].key \in {"user", "assistant"} \X Requests
             /\ l[i].status \in {"none", "loading", "streaming", "complete", "error"}
             /\ \A j \in DOMAIN l : l[j].key = l[i].key => j = i
  <2>1. Listed(l)
    BY DEF PageInv, ListsOK
  <2>2. DOMAIN l = 1 .. Len(l)
    BY <2>1 DEF Listed
  <2>3. l[i] \in Entries
    BY <2>1, <2>2, EntryKey
  <2>4. QED
    BY <2>1, <2>2, <2>3 DEF Listed, Entries
<1>2. QED
  BY <1>1 DEF TypeOK, PageInv, ScalarsOK, ListsOK, Keys, SourceStates

(* No request goes back to being unused. *)
SourcesMove ==
    /\ source' \in [Requests -> SourceStates]
    /\ \A r \in Requests : source[r] # "unused" => source'[r] # "unused"

(* updateMessages *)
LEMMA ListsUpdated ==
    ASSUME ListsOK, SourcesMove, NEW q, Listed(q), Update(q),
           \A i \in 1 .. Len(q) : source'[q[i].key[2]] # "unused"
    PROVE  /\ ListsOK' /\ messages' = q /\ saved' \in {saved, q}
           /\ faults' = 0 => faults = 0 /\ saved' = q
<1>1. /\ messages' = q /\ faults \in Nat /\ MaxSaveFaults \in Nat
      /\ \/ saved' = q /\ faults' = faults
         \/ saved' = saved /\ faults < MaxSaveFaults /\ faults' = faults + 1
  BY PlaygroundAssumption DEF Update, saveMessages, ListsOK
<1>2. faults' \in 0 .. MaxSaveFaults /\ (faults' = 0 => saved' = q)
  BY <1>1 DEF ListsOK
<1>3. \A i \in 1 .. Len(saved) : source'[saved[i].key[2]] # "unused"
  BY EntryKey DEF ListsOK, Started, SourcesMove
<1>4. Started(messages)' /\ Started(saved)'
  BY <1>1, <1>3 DEF Started
<1>5. Listed(messages') /\ Listed(saved')
  BY <1>1 DEF ListsOK
<1>6. faults' = 0 => faults = 0
  BY <1>1
<1>7. QED
  BY <1>1, <1>2, <1>4, <1>5, <1>6 DEF ListsOK, Listed

(* A step that leaves the list and its copy alone.                         *)
LEMMA ListsUnchanged ==
    ASSUME ListsOK, SourcesMove, UNCHANGED <<messages, saved, faults>>
    PROVE  ListsOK'
<1>1. /\ \A i \in 1 .. Len(saved) : source'[saved[i].key[2]] # "unused"
      /\ \A i \in 1 .. Len(messages) : source'[messages[i].key[2]] # "unused"
  BY EntryKey DEF ListsOK, Started, SourcesMove
<1>2. QED
  BY <1>1 DEF ListsOK, Started, Listed

(* The keys of a list that only changed the rest of its messages. *)
LEMMA SameUpdated ==
    ASSUME ListsOK, SourcesMove, NEW q, SameKeys(messages, q), Update(q)
    PROVE  Listed(q) /\ ListsOK' /\ messages' = q /\ saved' \in {saved, q}
           /\ (faults' = 0 => faults = 0 /\ saved' = q)
<1>1. Listed(q)
  BY SameListed DEF ListsOK
<1>2. \A i \in 1 .. Len(q) : source'[q[i].key[2]] # "unused"
  BY EntryKey DEF ListsOK, Started, SourcesMove, SameKeys
<1>3. QED
  BY <1>1, <1>2, ListsUpdated

(* Whatever a callback does to the list, its keys stay. *)
LEMMA CallbackKeys ==
    ASSUME Listed(messages), NEW r \in Requests, chunks[r] \in Nat
    PROVE  /\ SameKeys(messages, messages)
           /\ SameKeys(messages, handleStreamUpdate(messages, r))
           /\ SameKeys(messages, handleStreamComplete(messages))
           /\ SameKeys(messages, handleStreamError(messages))
           /\ SameKeys(messages, Answered(messages, r))
<1>1. SameKeys(messages, messages)
  BY DEF SameKeys, Listed
<1>2. SameKeys(messages, handleStreamUpdate(messages, r))
  BY <1>1, UpdateEffect, BecomesEffect, Zenon
<1>3. SameKeys(messages, handleStreamComplete(messages))
  BY <1>1, CompleteEffect, BecomesEffect, Zenon
<1>4. SameKeys(messages, handleStreamError(messages))
  BY <1>1, ErrorEffect, BecomesEffect, Zenon
<1>5. SameKeys(messages, Answered(messages, r))
  BY <1>1, AnswerEffect, BecomesEffect, Zenon
<1>6. QED
  BY <1>1, <1>2, <1>3, <1>4, <1>5

(* What sending does: the request is open, refused or awaited, and the     *)
(* list is the new one, or that with its answer turned into an error.      *)
LEMMA SendEffect ==
    ASSUME NEW r \in Requests, NEW q, Listed(q), sendChat(r, q)
    PROVE  /\ source[r] = "unused" /\ disturbed' = (disturbed \/ InFlight)
           /\ \/ /\ streaming /\ Update(q) /\ current' = r /\ complete' = FALSE
                 /\ source' = [source EXCEPT ![r] = "open"]
              \/ /\ streaming /\ Update(handleStreamError(q)) /\ current' = "none" /\ complete' = FALSE
                 /\ source' = [source EXCEPT ![r] = "closed"]
              \/ /\ ~streaming /\ Update(q) /\ current' = current /\ complete' = complete
                 /\ source' = [source EXCEPT ![r] = "awaited"]
<1>1. CASE streaming
  BY <1>1 DEF sendChat, sendStreamingChat, closeSource
<1>2. CASE ~streaming
  BY <1>2 DEF sendChat, sendNonStreamingChat, refVars
<1>3. QED
  BY <1>1, <1>2

(* Turning the last answer into an error keeps the keys.                   *)
LEMMA ErrorKeys ==
    ASSUME NEW q, Listed(q)
    PROVE  SameKeys(q, handleStreamError(q)) /\ SameKeys(q, q)
<1>1. SameKeys(q, q)
  BY DEF SameKeys, Listed
<1>2. QED
  BY <1>1, ErrorEffect, BecomesEffect, Zenon

(* The source of one request moves on. *)
LEMMA OneSourceMoves ==
    ASSUME ScalarsOK, NEW r \in Requests, NEW s \in SourceStates \ {"unused"},
           source' = [source EXCEPT ![r] = s]
    PROVE  SourcesMove /\ source'[r] = s /\ \A o \in Requests : o # r => source'[o] = source[o]
BY DEF ScalarsOK, SourcesMove

(* A request that is started keeps the invariant of the page.              *)
LEMMA PageSend ==
    ASSUME PageInv, NEW r \in Requests, NEW q, Opens(q, r), sendChat(r, q),
           batch = <<>>, UNCHANGED <<streaming, chunks, batch>>,
           editing' \in Keys \cup {<<"none">>}, changes' \in 0 .. MaxChanges
    PROVE  PageInv'
<1> DEFINE err == handleStreamError(q)
<1>1. Listed(q) /\ SameKeys(q, err) /\ SameKeys(q, q)
  BY ErrorKeys DEF Opens
<1>2. PICK s \in {"open", "closed", "awaited"}, l \in {q, err} :
         /\ source' = [source EXCEPT ![r] = s] /\ Update(l)
         /\ current' \in Requests \cup {"none"} /\ complete' \in BOOLEAN
  <2> HIDE DEF err
  <2>1. err = handleStreamError(q)
    BY DEF err
  <2>2. current \in Requests \cup {"none"} /\ complete \in BOOLEAN
    BY DEF PageInv, ScalarsOK
  <2>3. QED
    BY <1>1, <2>1, <2>2, SendEffect
<1> HIDE DEF err
<1>3. SourcesMove /\ source'[r] = s /\ \A o \in Requests : o # r => source'[o] = source[o]
  BY <1>2, OneSourceMoves DEF PageInv, SourceStates
<1>4. ScalarsOK'
  <2>1. disturbed' \in BOOLEAN
    BY DEF sendChat, PageInv, ScalarsOK
  <2>2. QED
    BY <1>2, <1>3, <2>1 DEF PageInv, ScalarsOK, SourcesMove
<1>5. SameKeys(q, l) /\ Listed(l)
  BY <1>1, <1>2, SameListed
<1>6. ASSUME NEW i \in 1 .. Len(q) PROVE source'[q[i].key[2]] # "unused"
  <2>1. q[i].key[2] = r \/ \E j \in 1 .. Len(messages) : q[i].key = messages[j].key
    BY NewEntries DEF Opens
  <2>2. \A j \in 1 .. Len(messages) : source'[messages[j].key[2]] # "unused"
    BY <1>3, EntryKey DEF PageInv, ListsOK, Started, SourcesMove
  <2>3. QED
    BY <1>2, <1>3, <2>1, <2>2
<1>7. \A i \in 1 .. Len(l) : source'[l[i].key[2]] # "unused"
  BY <1>5, <1>6 DEF SameKeys
<1>8. ListsOK'
  BY <1>2, <1>3, <1>5, <1>7, ListsUpdated DEF PageInv
<1>9. NoTextYet'
  <2>1. source[r] = "unused"
    BY DEF sendChat
  <2>2. QED
    BY <1>3, <2>1 DEF PageInv, NoTextYet
<1>10. BatchOK'
  BY DEF BatchOK
<1>11. QED
  BY <1>4, <1>8, <1>9, <1>10 DEF PageInv

(* A step between progress callbacks that starts no request and moves      *)
(* the sources of requests under way only.                                 *)
LEMMA PageIdle ==
    ASSUME PageInv, SourcesMove, ListsOK', batch = <<>>, UNCHANGED <<streaming, chunks, batch>>,
           \A r \in Requests : source'[r] \in {"awaited", "answered", "unused"} =>
                                  source[r] \in {"awaited", "answered", "unused"},
           editing' \in Keys \cup {<<"none">>}, changes' \in 0 .. MaxChanges,
           current' \in Requests \cup {"none"}, complete' \in BOOLEAN, disturbed' \in BOOLEAN
    PROVE  PageInv'
<1>1. ScalarsOK'
  BY DEF PageInv, ScalarsOK, SourcesMove
<1>2. NoTextYet'
  BY DEF PageInv, NoTextYet
<1>3. BatchOK'
  BY DEF BatchOK
<1>4. QED
  BY <1>1, <1>2, <1>3 DEF PageInv

(* A list of messages that were there before. *)
LEMMA KeptUpdated ==
    ASSUME ListsOK, SourcesMove, NEW q, Keeps(q), Update(q)
    PROVE  /\ ListsOK' /\ messages' = q /\ saved' \in {saved, q}
           /\ faults' = 0 => faults = 0 /\ saved' = q
<1>1. ASSUME NEW i \in 1 .. Len(q) PROVE source'[q[i].key[2]] # "unused"
  <2>1. PICK j \in 1 .. Len(messages) : q[i].key = messages[j].key
    BY DEF Keeps
  <2>2. QED
    BY <2>1, EntryKey DEF ListsOK, Started, SourcesMove
<1>2. QED
  BY <1>1, ListsUpdated DEF Keeps

(* The next event of a progress callback. *)
LEMMA BatchEvent ==
    ASSUME BatchOK, ScalarsOK, batch # <<>>
    PROVE  /\ batch[1] \in Requests /\ Len(batch[2]) \in Nat \ {0} /\ chunks[batch[1]] \in Nat
           /\ Head(batch[2]) \in MessageEvents \cup NamedEvents /\ Head(batch[2]) = batch[2][1]
           /\ chunks[batch[1]] + 1 <= MaxChunks
BY PlaygroundAssumption DEF BatchOK, ScalarsOK

(* What an event does: its text is added, the answer ends, or it fails,    *)
(* or nothing happens since the stream is already over.                    *)
LEMMA DispatchEffect ==
    ASSUME Dispatch, NEW r, r = batch[1], NEW e, e = Head(batch[2])
    PROVE  /\ \/ e \in {"chunk", "delta"} /\ AppendChunk(r) /\ (e = "delta" => ~complete)
              \/ e \in {"[DONE]", "completed"} /\ Finish(r)
              \/ e \notin {"chunk", "delta"} /\ ~complete /\ HandleError(r)
              \/ complete /\ Ignored /\ e # "chunk"
           /\ chunks' = IF e \in {"chunk", "delta"} THEN [chunks EXCEPT ![r] = @ + 1] ELSE chunks
           /\ batch' = IF Len(batch[2]) = 1 THEN <<>> ELSE <<r, Tail(batch[2])>>
           /\ UNCHANGED <<streaming, editing, changes, disturbed>>
<1>1. IF e \in MessageEvents THEN HandleMessage(r, e) ELSE handleResponsesEvent(r, e)
  BY DEF Dispatch
<1>2. \/ e \in {"chunk", "delta"} /\ AppendChunk(r) /\ (e = "delta" => ~complete)
      \/ e \in {"[DONE]", "completed"} /\ Finish(r)
      \/ e \notin {"chunk", "delta"} /\ ~complete /\ HandleError(r)
      \/ complete /\ Ignored /\ e # "chunk"
  <2>1. CASE e \in MessageEvents
    <3>1. HandleMessage(r, e)
      BY <1>1, <2>1
    <3>2. QED
      BY <3>1 DEF HandleMessage
  <2>2. CASE e \notin MessageEvents
    <3>1. handleResponsesEvent(r, e)
      BY <1>1, <2>2
    <3>2. QED
      BY <2>2, <3>1 DEF handleResponsesEvent, MessageEvents
  <2>3. QED
    BY <2>1, <2>2
<1>3. QED
  BY <1>2 DEF Dispatch

(* The events that are left. *)
LEMMA TailEvents ==
    ASSUME NEW E, NEW b \in Seq(E), b # <<>>, EndsLast(b)
    PROVE  /\ Tail(b) \in Seq(E) /\ Len(Tail(b)) = Len(b) - 1 /\ Len(b) \in Nat \ {0}
           /\ \A i \in 1 .. Len(Tail(b)) : i + 1 \in 1 .. Len(b) /\ 1 < i + 1 /\ Tail(b)[i] = b[i + 1]
           /\ EndsLast(Tail(b))
           /\ b[1] \in {"[DONE]", "completed"} =>
                 \A i \in 1 .. Len(Tail(b)) : Tail(b)[i] \notin {"chunk", "delta"}
<1> DEFINE t == Tail(b)
<1>1. /\ t \in Seq(E) /\ Len(t) = Len(b) - 1 /\ Len(b) \in Nat \ {0}
      /\ \A i \in 1 .. Len(t) : i + 1 \in 1 .. Len(b) /\ 1 < i + 1 /\ t[i] = b[i + 1]
  OBVIOUS
<1>2. DOMAIN b = 1 .. Len(b) /\ DOMAIN t = 1 .. Len(t) /\ 1 \in 1 .. Len(b)
  BY <1>1
<1> HIDE DEF t
<1>3. EndsLast(t)
  <2> SUFFICES ASSUME NEW i \in 1 .. Len(t), NEW j \in 1 .. Len(t),
                      i < j, t[i] \in {"[DONE]", "completed"}
               PROVE  t[j] \notin {"chunk", "delta"}
    BY <1>2 DEF EndsLast
  <2>1. i + 1 \in 1 .. Len(b) /\ j + 1 \in 1 .. Len(b) /\ i + 1 < j + 1 /\ t[i] = b[i + 1] /\ t[j] = b[j + 1]
    BY <1>1
  <2>2. QED
    BY <1>2, <2>1 DEF EndsLast
<1>4. ASSUME b[1] \in {"[DONE]", "completed"}, NEW i \in 1 .. Len(t)
      PROVE  t[i] \notin {"chunk", "delta"}
  <2>1. i + 1 \in 1 .. Len(b) /\ 1 < i + 1 /\ t[i] = b[i + 1]
    BY <1>1
  <2>2. QED
    BY <1>2, <1>4, <2>1 DEF EndsLast
<1>5. QED
  BY <1>1, <1>3, <1>4 DEF t

(* The source of a request whose events are dispatched. *)
LEMMA DispatchSource ==
    ASSUME PageInv, Dispatch, NEW r, r = batch[1], NEW e, e = Head(batch[2])
    PROVE  /\ SourcesMove /\ \A o \in Requests : o # r => source'[o] = source[o]
           /\ source'[r] \in {"open", "done", "closed"}
           /\ source'[r] = "done" => source[r] = "done" \/ e \in {"[DONE]", "completed"}
           /\ current' \in Requests \cup {"none"} /\ complete' \in BOOLEAN
<1>1. /\ r \in Requests /\ source[r] \in {"open", "done", "closed"}
      /\ source \in [Requests -> SourceStates] /\ complete \in BOOLEAN
      /\ current \in Requests \cup {"none"}
  BY BatchEvent DEF PageInv, BatchOK, ScalarsOK, Dispatch
<1>2. \/ source' = source /\ current' = current /\ complete' = complete
      \/ /\ e \in {"[DONE]", "completed"} /\ current' = "none" /\ complete' = TRUE
         /\ source' = [source EXCEPT ![r] = IF source[r] = "open" THEN "done" ELSE source[r]]
      \/ source' = [source EXCEPT ![r] = "closed"] /\ current' = "none" /\ complete' = TRUE
  BY DispatchEffect DEF AppendChunk, Finish, HandleError, closeSource, Ignored, refVars
<1>3. PICK s \in {"open", "done", "closed"} :
         /\ source' = [source EXCEPT ![r] = s]
         /\ s = "done" => source[r] = "done" \/ e \in {"[DONE]", "completed"}
         /\ current' \in Requests \cup {"none"} /\ complete' \in BOOLEAN
  <2>1. source = [source EXCEPT ![r] = source[r]]
    BY <1>1
  <2>2. CASE source' = source /\ current' = current /\ complete' = complete
    BY <1>1, <2>1, <2>2
  <2>3. CASE source' = [source EXCEPT ![r] = "closed"] /\ current' = "none" /\ complete' = TRUE
    BY <2>3
  <2>4. CASE /\ e \in {"[DONE]", "completed"} /\ current' = "none" /\ complete' = TRUE
             /\ source' = [source EXCEPT ![r] = IF source[r] = "open" THEN "done" ELSE source[r]]
    BY <1>1, <2>4
  <2>5. QED
    BY <1>2, <2>2, <2>3, <2>4
<1>4. SourcesMove /\ source'[r] = s /\ \A o \in Requests : o # r => source'[o] = source[o]
  <2>1. s \in SourceStates \ {"unused"}
    BY <1>3 DEF SourceStates
  <2>2. QED
    BY <1>1, <1>3, <2>1, OneSourceMoves DEF PageInv
<1>5. QED
  BY <1>3, <1>4

(* An event of a callback keeps the invariant of the page.                 *)
LEMMA PageDispatch ==
    ASSUME PageInv, Dispatch
    PROVE  PageInv'
<1>0. PICK r, e : r = batch[1] /\ e = Head(batch[2])
  OBVIOUS
<1>1. /\ r \in Requests /\ Len(batch[2]) \in Nat \ {0} /\ chunks[r] \in Nat /\ batch # <<>>
      /\ e = batch[2][1] /\ chunks[r] + 1 <= MaxChunks
      /\ batch[2] \in Seq(MessageEvents \cup NamedEvents) /\ batch[2] # <<>> /\ EndsLast(batch[2])
      /\ source[r] \in {"open", "done", "closed"}
      /\ source[r] = "done" => \A i \in 1 .. Len(batch[2]) : batch[2][i] \notin {"chunk", "delta"}
      /\ chunks[r] + Len(batch[2]) <= MaxChunks
  BY <1>0, BatchEvent DEF PageInv, BatchOK, Dispatch
<1>2. /\ SourcesMove /\ \A o \in Requests : o # r => source'[o] = source[o]
      /\ source'[r] \in {"open", "done", "closed"}
      /\ source'[r] = "done" => source[r] = "done" \/ e \in {"[DONE]", "completed"}
      /\ current' \in Requests \cup {"none"} /\ complete' \in BOOLEAN
  BY <1>0, DispatchSource
<1>3. /\ chunks' \in {chunks, [chunks EXCEPT ![r] = @ + 1]}
      /\ batch' = IF Len(batch[2]) = 1 THEN <<>> ELSE <<r, Tail(batch[2])>>
      /\ UNCHANGED <<streaming, editing, changes, disturbed>>
  BY <1>0, DispatchEffect
<1>4. chunks' \in [Requests -> 0 .. MaxChunks] /\ chunks'[r] <= chunks[r] + 1
      /\ chunks'[r] \in Nat /\ \A o \in Requests : o # r => chunks'[o] = chunks[o]
  <2>1. MaxChunks \in Nat /\ chunks \in [Requests -> 0 .. MaxChunks] /\ chunks[r] + 1 \in 0 .. MaxChunks
    BY <1>1, PlaygroundAssumption DEF PageInv, ScalarsOK
  <2>2. CASE chunks' = chunks
    BY <1>1, <2>1, <2>2
  <2>3. CASE chunks' = [chunks EXCEPT ![r] = chunks[r] + 1]
    BY <1>1, <2>1, <2>3
  <2>4. QED
    BY <1>3, <2>2, <2>3
<1>5. ScalarsOK'
  BY <1>2, <1>3, <1>4 DEF PageInv, ScalarsOK, SourcesMove
<1>6. ListsOK'
  <2>1. \/ UNCHANGED <<messages, saved, faults>>
        \/ Update(handleStreamUpdate(messages, r)) \/ Update(handleStreamComplete(messages))
        \/ Update(handleStreamError(messages))
    BY <1>0, DispatchEffect DEF AppendChunk, Finish, HandleError, Ignored
  <2>2. /\ SameKeys(messages, handleStreamUpdate(messages, r))
        /\ SameKeys(messages, handleStreamComplete(messages))
        /\ SameKeys(messages, handleStreamError(messages))
    BY <1>1, CallbackKeys DEF PageInv, ListsOK
  <2>3. ListsOK
    BY DEF PageInv
  <2>4. QED
    BY <1>2, <2>1, <2>2, <2>3, SameUpdated, ListsUnchanged
<1>7. NoTextYet'
  BY <1>1, <1>2, <1>4 DEF PageInv, NoTextYet
<1>8. BatchOK'
  <2>1. CASE Len(batch[2]) = 1
    BY <1>3, <2>1 DEF BatchOK
  <2>2. CASE Len(batch[2]) # 1
    <3> DEFINE t == Tail(batch[2])
    <3>1. /\ t \in Seq(MessageEvents \cup NamedEvents) /\ Len(t) = Len(batch[2]) - 1
          /\ \A i \in 1 .. Len(t) : i + 1 \in 1 .. Len(batch[2]) /\ t[i] = batch[2][i + 1]
          /\ EndsLast(t)
          /\ e \in {"[DONE]", "completed"} => \A i \in 1 .. Len(t) : t[i] \notin {"chunk", "delta"}
      BY <1>1, TailEvents
    <3>2. batch' = <<r, t>>
      BY <1>3, <2>2
    <3> HIDE DEF t
    <3>3. batch'[1] = r /\ batch'[2] = t /\ batch' \in Requests \X Seq(MessageEvents \cup NamedEvents)
      BY <1>1, <3>1, <3>2
    <3>4. t # <<>>
      <4>1. Len(t) # 0
        BY <1>1, <2>2, <3>1
      <4>2. Len(<<>>) = 0
        OBVIOUS
      <4>3. QED
        BY <4>1, <4>2, Zenon
    <3>5. source'[r] = "done" => \A i \in 1 .. Len(t) : t[i] \notin {"chunk", "delta"}
      BY <1>1, <1>2, <3>1
    <3>6. chunks'[r] + Len(t) <= MaxChunks
      <4>1. MaxChunks \in Nat
        BY PlaygroundAssumption
      <4>2. QED
        BY <1>1, <1>4, <3>1, <4>1
    <3>7. QED
      BY <1>2, <3>1, <3>3, <3>4, <3>5, <3>6 DEF BatchOK, EndsLast
  <2>3. QED
    BY <2>1, <2>2
<1>9. QED
  BY <1>5, <1>6, <1>7, <1>8 DEF PageInv

(* No step takes the page out of its types. *)
LEMMA PageStep ==
    ASSUME PageInv, [Next]_vars
    PROVE  PageInv'
<1>0. /\ ScalarsOK /\ ListsOK /\ Listed(messages) /\ Started(messages)
      /\ Listed(saved) /\ Started(saved)
      /\ source \in [Requests -> SourceStates] /\ chunks \in [Requests -> Nat]
      /\ editing \in Keys \cup {<<"none">>} /\ <<"none">> \in Keys \cup {<<"none">>}
      /\ changes \in 0 .. MaxChanges /\ MaxChanges \in Nat /\ current \in Requests \cup {"none"}
      /\ complete \in BOOLEAN /\ disturbed \in BOOLEAN
      /\ DOMAIN messages = 1 .. Len(messages)
  BY PlaygroundAssumption DEF PageInv, ScalarsOK, ListsOK, Listed
<1>k. ASSUME UNCHANGED source PROVE SourcesMove
  BY <1>0, <1>k DEF SourcesMove
<1>1. ASSUME NEW r \in Requests, Progress(r) PROVE PageInv'
  <2>1. PICK b \in ChatBatches \cup ResponsesBatches :
            chunks[r] + Len(b) <= MaxChunks /\ batch' = <<r, b>>
    BY <1>1 DEF Progress
  <2>2. b \in Seq(MessageEvents \cup NamedEvents) /\ b # <<>> /\ EndsLast(b)
    BY PlaygroundAssumption DEF MessageEvents, NamedEvents
  <2>3. BatchOK'
    <3>1. batch'[1] = r /\ batch'[2] = b /\ batch' \in Requests \X Seq(MessageEvents \cup NamedEvents)
      BY <2>1, <2>2
    <3>2. source'[r] = "open" /\ chunks'[r] = chunks[r]
      BY <1>1 DEF Progress
    <3>3. QED
      BY <2>1, <2>2, <3>1, <3>2 DEF BatchOK, EndsLast
  <2>4. ScalarsOK' /\ NoTextYet'
    BY <1>1 DEF PageInv, ScalarsOK, NoTextYet, Progress, refVars
  <2>5. ListsOK'
    BY <1>0, <1>1, <1>k, ListsUnchanged DEF Progress
  <2>6. QED
    BY <2>3, <2>4, <2>5 DEF PageInv
<1>2. ASSUME NEW r \in Requests, ConnectionFails(r) PROVE PageInv'
  <2>1. /\ batch = <<>> /\ UNCHANGED <<streaming, chunks, batch, editing, changes, disturbed>>
        /\ source' = [source EXCEPT ![r] = "closed"]
        /\ current' \in {current, "none"} /\ complete' \in {complete, TRUE}
        /\ UNCHANGED <<messages, saved, faults>> \/ Update(handleStreamError(messages))
    BY <1>2 DEF ConnectionFails, HandleError, closeSource, refVars, Idle
  <2>2. SourcesMove /\ source'[r] = "closed" /\ \A o \in Requests : o # r => source'[o] = source[o]
    BY <1>0, <2>1, OneSourceMoves DEF SourceStates
  <2>3. ListsOK'
    <3>1. SameKeys(messages, handleStreamError(messages))
      BY <1>0, ErrorKeys
    <3>2. QED
      BY <1>0, <2>1, <2>2, <3>1, SameUpdated, ListsUnchanged
  <2>4. /\ current' \in Requests \cup {"none"} /\ complete' \in BOOLEAN /\ disturbed' \in BOOLEAN
        /\ editing' \in Keys \cup {<<"none">>} /\ changes' \in 0 .. MaxChanges
    BY <1>0, <2>1
  <2>5. QED
    BY <2>1, <2>2, <2>3, <2>4, PageIdle
<1>3. ASSUME NEW r \in Requests, ConnectionEnds(r) PROVE PageInv'
  <2>1. /\ batch = <<>> /\ UNCHANGED <<streaming, chunks, batch, editing, changes, disturbed>>
        /\ source' = [source EXCEPT ![r] = "silent"]
        /\ UNCHANGED <<current, complete, messages, saved, faults>>
    BY <1>3 DEF ConnectionEnds, refVars, Idle
  <2>2. SourcesMove /\ source'[r] = "silent" /\ \A o \in Requests : o # r => source'[o] = source[o]
    BY <1>0, <2>1, OneSourceMoves DEF SourceStates
  <2>3. ListsOK'
    BY <1>0, <2>1, <2>2, ListsUnchanged
  <2>4. QED
    BY <1>0, <2>1, <2>2, <2>3, PageIdle
<1>4. ASSUME NEW r \in Requests, Respond(r) PROVE PageInv'
  <2>1. /\ batch = <<>> /\ UNCHANGED <<streaming, chunks, batch, editing, changes, disturbed>>
        /\ source[r] = "awaited" /\ source' = [source EXCEPT ![r] = "answered"]
        /\ UNCHANGED <<current, complete>>
        /\ Update(Answered(messages, r)) \/ Update(handleStreamError(messages))
    BY <1>4 DEF Respond, refVars, Idle
  <2>2. SourcesMove /\ source'[r] = "answered" /\ \A o \in Requests : o # r => source'[o] = source[o]
    BY <1>0, <2>1, OneSourceMoves DEF SourceStates
  <2>3. ListsOK'
    <3>1. SameKeys(messages, handleStreamError(messages)) /\ SameKeys(messages, Answered(messages, r))
      BY <1>0, CallbackKeys
    <3>2. QED
      BY <1>0, <2>1, <2>2, <3>1, SameUpdated
  <2>4. QED
    BY <1>0, <2>1, <2>2, <2>3, PageIdle
<1>5. ASSUME Dispatch PROVE PageInv'
  BY <1>5, PageDispatch
<1>6. ASSUME NEW r \in Requests, handleSendMessage(r) \/ handleSuggestionClick(r) PROVE PageInv'
  <2> DEFINE q == messages \o <<createUserMessage(r), createLoadingAssistantMessage(r)>>
  <2>1. /\ batch = <<>> /\ UNCHANGED <<streaming, chunks, batch, editing, changes>>
        /\ sendChat(r, q) /\ source[r] = "unused"
    BY <1>6 DEF handleSendMessage, handleSuggestionClick, Idle, sendChat
  <2>2. Opens(q, r)
    BY <1>0, <2>1, SendOpens
  <2> HIDE DEF q
  <2>3. QED
    BY <1>0, <2>1, <2>2, PageSend
<1>7. ASSUME NEW r \in Requests, NEW i \in 1 .. Len(messages), handleRegenerateMessage(r, i)
      PROVE  PageInv'
  <2> DEFINE q == Append(SubSeq(messages, 1, i - 1), createLoadingAssistantMessage(r))
  <2>1. /\ batch = <<>> /\ UNCHANGED <<streaming, chunks, batch, editing, changes>>
        /\ sendChat(r, q) /\ source[r] = "unused"
    BY <1>7 DEF handleRegenerateMessage, Idle, sendChat
  <2>2. Opens(q, r)
    BY <1>0, <2>1, RegenerateOpens
  <2> HIDE DEF q
  <2>3. QED
    BY <1>0, <2>1, <2>2, PageSend
<1>c. ASSUME Change PROVE batch = <<>> /\ changes' \in 0 .. MaxChanges
  BY <1>0, <1>c DEF Change, Idle
<1>8. ASSUME NEW r \in Requests, NEW i \in 1 .. Len(messages), EditAndSubmit(r, i) PROVE PageInv'
  <2>1. /\ Change /\ UNCHANGED <<streaming, chunks, batch>> /\ editing' = <<"none">>
        /\ messages[i].from = "user" /\ sendChat(r, Resubmitted(i, r)) /\ source[r] = "unused"
    BY <1>8 DEF EditAndSubmit, sendChat
  <2>2. Opens(Resubmitted(i, r), r)
    BY <1>0, <2>1, ResubmitOpens
  <2>3. QED
    BY <1>0, <1>c, <2>1, <2>2, PageSend
<1>9. ASSUME NEW i \in 1 .. Len(messages), handleEditMessage(i) PROVE PageInv'
  <2>1. /\ batch = <<>> /\ UNCHANGED <<streaming, messages, saved, source, chunks, batch, current,
                                       complete, changes, faults, disturbed>>
        /\ editing' = messages[i].key
    BY <1>9 DEF handleEditMessage, Idle, refVars
  <2>2. ListsOK' /\ SourcesMove
    BY <1>0, <1>k, <2>1, ListsUnchanged
  <2>3. editing' \in Keys \cup {<<"none">>}
    BY <1>0, <2>1, EntryKey
  <2>4. QED
    BY <1>0, <2>1, <2>2, <2>3, PageIdle
<1>l. ASSUME NEW q, ChangeList(q), Keeps(q), editing' \in Keys \cup {<<"none">>} PROVE PageInv'
  <2>1. /\ Change /\ Update(q) /\ disturbed' = (disturbed \/ InFlight)
        /\ UNCHANGED <<streaming, source, chunks, batch, current, complete>>
    BY <1>l DEF ChangeList, refVars
  <2>2. SourcesMove
    BY <1>k, <2>1
  <2>3. ListsOK'
    BY <1>0, <1>l, <2>1, <2>2, KeptUpdated
  <2>4. disturbed' \in BOOLEAN
    BY <2>1
  <2>5. QED
    BY <1>0, <1>c, <1>l, <2>1, <2>2, <2>3, <2>4, PageIdle
<1>10. ASSUME NEW i \in 1 .. Len(messages), EditAndSave(i) PROVE PageInv'
  <2> DEFINE q == [messages EXCEPT ![i].text = <<Note("edited")>>]
  <2>1. ChangeList(q) /\ editing' = <<"none">>
    BY <1>10 DEF EditAndSave
  <2>2. Keeps(q)
    BY <1>0, SaveKeeps
  <2> HIDE DEF q
  <2>3. QED
    BY <1>0, <1>l, <2>1, <2>2
<1>11. ASSUME NEW i \in 1 .. Len(messages), handleDeleteMessage(i) PROVE PageInv'
  <2>1. ChangeList(RemoveAt(messages, i)) /\ editing' = editing
    BY <1>11 DEF handleDeleteMessage
  <2>2. QED
    BY <1>0, <1>l, <2>1, DeleteKeeps
<1>12. ASSUME handleClearMessages PROVE PageInv'
  <2>1. ChangeList(<<>>) /\ editing' = <<"none">>
    BY <1>12 DEF handleClearMessages
  <2>2. QED
    BY <1>0, <1>l, <2>1, ClearKeeps
<1>13. ASSUME stopGeneration PROVE PageInv'
  <2>1. /\ batch = <<>> /\ UNCHANGED <<streaming, chunks, batch, editing, changes, disturbed>>
        /\ current \in Requests /\ source' = [source EXCEPT ![current] = "closed"]
        /\ current' = "none" /\ complete' = TRUE
        /\ Update(handleStreamComplete(messages))
    BY <1>0, <1>13 DEF stopGeneration, stopStream, closeSource, Idle, Busy
  <2>2. SourcesMove /\ source'[current] = "closed"
        /\ \A o \in Requests : o # current => source'[o] = source[o]
    BY <1>0, <2>1, OneSourceMoves DEF SourceStates
  <2>3. ListsOK'
    <3>1. SameKeys(messages, handleStreamComplete(messages))
      BY <1>0, <2>1, CallbackKeys
    <3>2. QED
      BY <1>0, <2>1, <2>2, <3>1, SameUpdated
  <2>4. \A r \in Requests : source'[r] \in {"awaited", "answered", "unused"} =>
                               source[r] \in {"awaited", "answered", "unused"}
    BY <2>2
  <2>5. QED
    BY <1>0, <2>1, <2>2, <2>3, <2>4, PageIdle
<1>14. ASSUME Reload PROVE PageInv'
  <2> DEFINE q == sanitizeMessagesOnLoad(saved)
  <2>1. /\ Change /\ Update(q) /\ editing' = <<"none">> /\ current' = "none" /\ complete' = FALSE
        /\ source' = [r \in Requests |-> IF UnderWay(r) THEN "closed" ELSE source[r]]
        /\ UNCHANGED <<streaming, chunks, batch, disturbed>>
    BY <1>14 DEF Reload
  <2>2. SourcesMove
    BY <1>0, <2>1 DEF SourcesMove, SourceStates, UnderWay
  <2>3. SameKeys(saved, q) /\ Listed(q)
    BY <1>0, SanitizeEffect, SameListed
  <2>4. \A i \in 1 .. Len(q) : source'[q[i].key[2]] # "unused"
    <3> HIDE DEF q
    <3> QED
      BY <1>0, <2>2, <2>3, EntryKey DEF Started, SourcesMove, SameKeys
  <2>5. ListsOK'
    <3> HIDE DEF q
    <3> QED
      BY <1>0, <2>1, <2>2, <2>3, <2>4, ListsUpdated
  <2>6. \A r \in Requests : source'[r] \in {"awaited", "answered", "unused"} =>
                               source[r] \in {"awaited", "answered", "unused"}
    BY <2>1
  <2>7. current' \in Requests \cup {"none"} /\ complete' \in BOOLEAN /\ disturbed' \in BOOLEAN
    BY <1>0, <2>1
  <2>8. QED
    BY <1>0, <1>c, <2>1, <2>2, <2>5, <2>6, <2>7, PageIdle
<1>15. CASE UNCHANGED vars
  <2>1. ListsOK'
    BY <1>0, <1>k, <1>15, ListsUnchanged DEF vars
  <2>2. QED
    BY <1>15, <2>1 DEF vars, refVars, PageInv, ScalarsOK, BatchOK, NoTextYet, EndsLast
<1>16. QED
  BY <1>0, <1>1, <1>2, <1>3, <1>4, <1>5, <1>6, <1>7, <1>8, <1>9, <1>10, <1>11, <1>12, <1>13,
     <1>14, <1>15 DEF Next, Server, User

-----------------------------------------------------------------------------
(* One request at a time *)

(* No message is unfinished when no request is under way.                  *)
LEMMA NothingUnfinished ==
    ASSUME CalmInv, Listed(messages), \A r \in Requests : ~UnderWay(r)
    PROVE  \A i \in 1 .. Len(messages) : ~Unfinished(messages[i])
BY EntryKey DEF CalmInv, AnswersShown

(* What a list needs when no request is under way. *)
LEMMA CalmAtRest ==
    ASSUME messages' \in Seq(Entries), Orderly(messages'), Orderly(saved'), AnswersWhole',
           \A r \in Requests : ~UnderWay(r)',
           \A i \in 1 .. Len(messages') : ~Unfinished(messages'[i]),
           current' = "none", ClosedInBatch'
    PROVE  CalmInv'
<1>1. \A r \in Requests : source'[r] \notin {"open", "silent", "awaited"}
  BY DEF UnderWay
<1>2. AnswersShown'
  BY DEF AnswersShown, Unfinished
<1>3. RefsHold'
  BY <1>1 DEF RefsHold
<1>4. QED
  BY <1>2, <1>3 DEF CalmInv, Orderly, InOrder, Notes, Note, Unfinished

(* A request is started while none is under way. *)
LEMMA CalmSend ==
    ASSUME PageInv, CalmInv, NEW r \in Requests, NEW q, Opens(q, r), sendChat(r, q),
           batch = <<>>, UNCHANGED <<streaming, chunks, batch>>, ~disturbed'
    PROVE  CalmInv'
<1> DEFINE err == handleStreamError(q)
           n == Len(q)
<1>0. /\ ScalarsOK /\ ListsOK /\ Listed(messages) /\ Listed(q) /\ q # <<>> /\ n \in 1 .. n
      /\ q[n] = createLoadingAssistantMessage(r) /\ source[r] = "unused" /\ chunks[r] = 0
  <2>1. source[r] = "unused"
    BY DEF sendChat
  <2>2. Listed(q) /\ q # <<>> /\ q[n] = createLoadingAssistantMessage(r)
    BY DEF Opens
  <2>3. n \in 1 .. n
    BY <2>2, LastEntry
  <2>4. QED
    BY <2>1, <2>2, <2>3 DEF PageInv, ListsOK, NoTextYet
<1>1. \A o \in Requests : ~UnderWay(o)
  BY DEF sendChat, InFlight
<1>2. \A i \in 1 .. Len(messages) : ~Unfinished(messages[i])
  BY <1>0, <1>1, NothingUnfinished
<1>3. current = "none"
  <2>1. current # "none" => current \in Requests /\ source[current] \in {"open", "silent"}
    BY <1>0 DEF CalmInv, RefsHold, ScalarsOK
  <2>2. QED
    BY <1>1, <2>1 DEF UnderWay
<1>4. \A i \in 1 .. n : i # n =>
         /\ ~Unfinished(q[i])
         /\ q[i].from = "assistant" => \E j \in 1 .. Len(messages) : q[i] = messages[j]
  <2> SUFFICES ASSUME NEW i \in 1 .. n, i # n
               PROVE  /\ ~Unfinished(q[i])
                      /\ q[i].from = "assistant" => \E j \in 1 .. Len(messages) : q[i] = messages[j]
    OBVIOUS
  <2>1. (\E j \in 1 .. Len(messages) : q[i] = messages[j]) \/ q[i].from = "user"
    BY DEF Opens
  <2>2. CASE q[i].from = "user"
    <3>1. Tagged(q[i])
      BY <1>0, EntryKey
    <3>2. QED
      BY <2>2, <3>1 DEF Tagged, Unfinished
  <2>3. CASE \E j \in 1 .. Len(messages) : q[i] = messages[j]
    BY <1>2, <2>3
  <2>4. QED
    BY <2>1, <2>2, <2>3
<1>5. /\ q[n].text = <<>> /\ q[n].key[2] = r /\ q[n].status = "loading" /\ q[n].from = "assistant"
  BY <1>0, NewEntries
<1>6. PICK m : /\ LastBecomes(q, err, m) /\ m.status = "error" /\ m.text = <<Note("error")>>
  BY <1>0, <1>5, ErrorEffect
<1>7. /\ Listed(err) /\ Len(err) = n /\ err[n] = m /\ m.from = "assistant" /\ m.key = q[n].key
      /\ \A i \in 1 .. n : i # n => err[i] = q[i]
  <2> HIDE DEF err, n
  <2>1. m.from = "assistant" /\ m.key = q[Len(q)].key
    BY <1>6 DEF LastBecomes
  <2>2. /\ Listed(err) /\ Len(err) = Len(q) /\ err[Len(q)] = m
        /\ \A i \in 1 .. Len(q) : i # Len(q) => err[i] = q[i]
    BY <1>0, <1>6, BecomesEffect
  <2>3. QED
    BY <2>1, <2>2 DEF n
<1>8. \A i \in 1 .. Len(messages) : messages[i].from = "assistant" =>
         messages[i].text \in Notes \/ InOrder(messages[i])
  BY DEF CalmInv, Orderly
<1> DEFINE Sorted(l) == \A i \in 1 .. Len(l) : i # Len(l) =>
              /\ ~Unfinished(l[i])
              /\ l[i].from = "assistant" => \E j \in 1 .. Len(messages) : l[i] = messages[j]
<1>9. Orderly(q) /\ Sorted(q)
  <2>1. InOrder(q[n])
    BY <1>5 DEF InOrder
  <2>2. QED
    BY <1>4, <1>8, <2>1 DEF Orderly
<1>10. Orderly(err) /\ Sorted(err) /\ ~Unfinished(err[n])
  <2>1. m.text \in Notes
    BY <1>6 DEF Notes
  <2>2. ~Unfinished(err[n])
    BY <1>6, <1>7 DEF Unfinished
  <2> HIDE DEF err
  <2>3. QED
    BY <1>4, <1>7, <1>8, <2>1, <2>2 DEF Orderly
<1> HIDE DEF err
<1>11. ASSUME NEW l, l \in {q, err}, Update(l), NEW s \in {"open", "closed", "awaited"},
              source' = [source EXCEPT ![r] = s]
       PROVE  /\ messages' = l /\ Orderly(messages') /\ Orderly(saved')
              /\ AnswersWhole'
              /\ \A o \in Requests : o # r => ~UnderWay(o)'
              /\ source'[r] = s /\ \A o \in Requests : o # r => source'[o] = source[o]
  <2>1. /\ messages' = l /\ saved' \in {saved, l} /\ chunks' = chunks
        /\ faults' = 0 => faults = 0
    BY <1>0, <1>11, PlaygroundAssumption DEF Update, saveMessages, ListsOK
  <2>2. source'[r] = s /\ \A o \in Requests : o # r => source'[o] = source[o]
    BY <1>0, <1>11 DEF ScalarsOK
  <2>3. \A o \in Requests : o # r => ~UnderWay(o)'
    BY <1>1, <2>2 DEF UnderWay
  <2>4. Orderly(l) /\ Sorted(l) /\ Listed(l) /\ Len(l) = n
    BY <1>0, <1>7, <1>9, <1>10, <1>11
  <2>5. Orderly(saved)
    BY DEF CalmInv
  <2>6. AnswersWhole'
    <3> SUFFICES ASSUME faults' = 0, NEW i \in 1 .. Len(l), l[i].status = "complete",
                        source'[l[i].key[2]] = "done"
                 PROVE  l[i].text \in Notes \/ Len(l[i].text) = chunks[l[i].key[2]]
      BY <2>1, Zenon DEF AnswersWhole, Notes, Note
    <3>1. l[i].key[2] \in Requests /\ Tagged(l[i])
      BY <2>4, EntryKey
    <3>2. l[i].key[2] # r /\ source[l[i].key[2]] = "done"
      BY <1>11, <2>2, <3>1
    <3>3. i # Len(l)
      BY <1>0, <1>5, <1>7, <1>11, <2>4, <3>2
    <3>a. l[i].from = "assistant"
      BY <3>1 DEF Tagged
    <3>4. PICK j \in 1 .. Len(messages) : l[i] = messages[j]
      BY <2>4, <3>a, <3>3
    <3>5. QED
      BY <2>1, <3>2, <3>4 DEF CalmInv, AnswersWhole
  <2>7. QED
    BY <2>1, <2>2, <2>3, <2>4, <2>5, <2>6
<1>12. ASSUME Update(q), NEW s \in {"open", "awaited"}, source' = [source EXCEPT ![r] = s],
              s = "open" => streaming /\ current' = r /\ complete' = FALSE,
              s = "awaited" => ~streaming /\ current' = "none"
       PROVE  CalmInv'
  <2>1. /\ messages' = q /\ Orderly(messages') /\ Orderly(saved') /\ AnswersWhole'
        /\ \A o \in Requests : o # r => ~UnderWay(o)'
        /\ source'[r] = s /\ \A o \in Requests : o # r => source'[o] = source[o]
    BY <1>11, <1>12
  <2>2. Shows(r)'
    <3>1. Unfinished(q[n]) /\ InOrder(q[n]) /\ Len(q[n].text) = 0
      BY <1>5 DEF Unfinished, InOrder
    <3>2. QED
      BY <1>0, <1>5, <2>1, <3>1 DEF Shows, Unfinished, InOrder
  <2>3. \A i \in 1 .. Len(messages') : Unfinished(messages'[i]) => messages'[i].key[2] = r
    BY <1>4, <1>5, <2>1
  <2>4. UnderWay(r)'
    BY <2>1 DEF UnderWay
  <2>5. AnswersShown'
    BY <2>1, <2>2, <2>3, <2>4 DEF AnswersShown, Unfinished
  <2>6. RefsHold'
    BY <1>12, <2>1 DEF RefsHold, UnderWay
  <2>7. ClosedInBatch'
    BY DEF ClosedInBatch
  <2>8. QED
    BY <2>1, <2>5, <2>6, <2>7 DEF CalmInv, Orderly, InOrder, Notes, Note, Unfinished
<1>13. ASSUME Update(err), source' = [source EXCEPT ![r] = "closed"], current' = "none"
       PROVE  CalmInv'
  <2>1. /\ messages' = err /\ Orderly(messages') /\ Orderly(saved') /\ AnswersWhole'
        /\ \A o \in Requests : o # r => ~UnderWay(o)'
        /\ source'[r] = "closed"
    BY <1>11, <1>13
  <2>2. \A o \in Requests : ~UnderWay(o)'
    BY <2>1 DEF UnderWay
  <2>3. \A i \in 1 .. Len(messages') : ~Unfinished(messages'[i])
    BY <1>7, <1>10, <2>1
  <2>4. messages' \in Seq(Entries)
    BY <1>7, <2>1 DEF Listed
  <2>5. ClosedInBatch'
    BY DEF ClosedInBatch
  <2>6. QED
    BY <1>13, <2>1, <2>2, <2>3, <2>4, <2>5, CalmAtRest
<1>14. QED
  <2>1. err = handleStreamError(q)
    BY DEF err
  <2>2. QED
    BY <1>0, <1>3, <1>12, <1>13, <2>1, SendEffect


(* At most one request is under way, and its answer is the last message.   *)
LEMMA OneUnderWay ==
    ASSUME CalmInv, NEW r \in Requests, UnderWay(r)
    PROVE  Shows(r) /\ \A o \in Requests : o # r => ~UnderWay(o)
BY DEF CalmInv, AnswersShown, Shows

(* The last message, the answer to r, becomes m, and the source of r moves to s. *)
AnswerBecomes(r, q, m, s) ==
    /\ LastBecomes(messages, q, m) /\ Update(q)
    /\ source' = [source EXCEPT ![r] = s]
    /\ \A o \in Requests : o # r => chunks'[o] = chunks[o]
    /\ m.text \in Notes \/ InOrder(m)
    /\ m.status = "complete" /\ s = "done" => Len(m.text) = chunks'[r]

(* The answer to r moves to m: what the list and the copy are then.        *)
LEMMA AnswerMoves ==
    ASSUME PageInv, CalmInv, NEW r \in Requests, UnderWay(r), NEW q, NEW m,
           NEW s \in SourceStates, AnswerBecomes(r, q, m, s)
    PROVE  /\ messages' = q /\ q # <<>> /\ q \in Seq(Entries) /\ Len(q) \in 1 .. Len(q)
           /\ q[Len(q)] = m /\ m.key[2] = r
           /\ \A i \in 1 .. Len(q) : i # Len(q) => ~Unfinished(q[i])
           /\ Orderly(messages') /\ Orderly(saved') /\ AnswersWhole'
           /\ source'[r] = s
           /\ \A o \in Requests : o # r => source'[o] = source[o] /\ ~UnderWay(o)'
<1> DEFINE n == Len(messages)
<1>0. /\ LastBecomes(messages, q, m) /\ Update(q)
      /\ source' = [source EXCEPT ![r] = s]
      /\ \A o \in Requests : o # r => chunks'[o] = chunks[o]
      /\ m.text \in Notes \/ InOrder(m)
      /\ m.status = "complete" /\ s = "done" => Len(m.text) = chunks'[r]
  BY DEF AnswerBecomes
<1>1. /\ ScalarsOK /\ ListsOK /\ Listed(messages) /\ Orderly(messages) /\ Orderly(saved) /\ AnswersWhole
  BY DEF PageInv, ListsOK, CalmInv
<1>2. /\ messages # <<>> /\ messages[n].key[2] = r
      /\ \A o \in Requests : o # r => ~UnderWay(o)
  BY OneUnderWay DEF Shows
<1>3. /\ Listed(q) /\ Len(q) = n /\ q[n] = m /\ q # <<>>
      /\ \A i \in 1 .. n : i # n => q[i] = messages[i]
  BY <1>0, <1>1, BecomesEffect
<1>4. m.key = messages[n].key /\ messages[n].from = "assistant" /\ m.from = "assistant"
  BY <1>0 DEF LastBecomes
<1>5. n \in 1 .. n
  BY <1>1, <1>2, LastEntry
<1>6. \A i \in 1 .. n : i # n => ~Unfinished(q[i])
  BY <1>1, <1>3 DEF Orderly
<1>7. Orderly(q)
  <2>1. \A i \in 1 .. n : i # n /\ q[i].from = "assistant" => q[i].text \in Notes \/ InOrder(q[i])
    BY <1>1, <1>3 DEF Orderly
  <2>2. QED
    BY <1>0, <1>3, <1>4, <1>6, <2>1 DEF Orderly
<1>8. /\ messages' = q /\ saved' \in {saved, q}
      /\ faults' = 0 => faults = 0
  BY <1>0, <1>1, PlaygroundAssumption DEF Update, saveMessages, ListsOK
<1>9. source'[r] = s /\ \A o \in Requests : o # r => source'[o] = source[o]
  BY <1>0, <1>1 DEF ScalarsOK
<1>10. \A o \in Requests : o # r => ~UnderWay(o)'
  BY <1>2, <1>9 DEF UnderWay
<1>11. AnswersWhole'
  <2> SUFFICES ASSUME faults' = 0, NEW i \in 1 .. n, q[i].status = "complete",
                      source'[q[i].key[2]] = "done"
               PROVE  q[i].text \in Notes \/ Len(q[i].text) = chunks'[q[i].key[2]]
    BY <1>3, <1>8, Zenon DEF AnswersWhole, Notes, Note
  <2>1. CASE i = n
    BY <1>0, <1>2, <1>3, <1>4, <1>9, <2>1
  <2>2. CASE i # n
    <3>1. q[i] = messages[i] /\ q[i].key \in Keys /\ messages[n].key \in Keys /\ q[i].key[2] \in Requests
          /\ Tagged(q[i]) /\ Tagged(messages[n])
      BY <1>1, <1>3, <1>5, <2>2, EntryKey
    <3>2. q[i].key # messages[n].key
      BY <1>1, <1>5, <2>2, <3>1 DEF Listed
    <3>3. q[i].key[1] = messages[n].key[1]
      BY <1>4, <3>1 DEF Tagged
    <3>4. q[i].key[2] # r
      BY <1>2, <3>1, <3>2, <3>3 DEF Keys
    <3>5. source[q[i].key[2]] = "done" /\ chunks'[q[i].key[2]] = chunks[q[i].key[2]]
      BY <1>0, <1>9, <3>1, <3>4
    <3>6. QED
      BY <1>1, <1>8, <3>1, <3>5 DEF AnswersWhole
  <2>3. QED
    BY <2>1, <2>2
<1>12. QED
  BY <1>1, <1>2, <1>3, <1>4, <1>5, <1>6, <1>7, <1>8, <1>9, <1>10, <1>11 DEF Listed

(* Its text grows. *)
LEMMA AnswerGoesOn ==
    ASSUME PageInv, CalmInv, NEW r \in Requests, source[r] = "open", NEW q, NEW m,
           LastBecomes(messages, q, m), Update(q),
           UNCHANGED <<streaming, source, current, complete>>,
           \A o \in Requests : o # r => chunks'[o] = chunks[o],
           m.status = "streaming", InOrder(m), Len(m.text) = chunks'[r],
           batch' # <<>> => batch'[1] = r
    PROVE  CalmInv'
<1>1. UnderWay(r) /\ UnderWay(r)'
  BY DEF UnderWay
<1>2. source' = [source EXCEPT ![r] = "open"] /\ "open" \in SourceStates
  BY DEF PageInv, ScalarsOK, SourceStates
<1>3. /\ messages' = q /\ q # <<>> /\ q[Len(q)] = m /\ m.key[2] = r
      /\ \A i \in 1 .. Len(q) : i # Len(q) => ~Unfinished(q[i])
      /\ Orderly(messages') /\ Orderly(saved') /\ AnswersWhole'
      /\ \A o \in Requests : o # r => ~UnderWay(o)'
  <2>1. AnswerBecomes(r, q, m, "open")
    BY <1>2 DEF AnswerBecomes
  <2>2. QED
    BY <1>1, <1>2, <2>1, AnswerMoves
<1>4. Shows(r)'
  BY <1>3 DEF Shows, Unfinished, InOrder
<1>5. AnswersShown'
  BY <1>1, <1>3, <1>4 DEF AnswersShown, Unfinished
<1>6. RefsHold'
  BY DEF CalmInv, RefsHold
<1>7. ClosedInBatch'
  BY DEF ClosedInBatch
<1>8. QED
  BY <1>3, <1>5, <1>6, <1>7 DEF CalmInv, Orderly, InOrder, Notes, Note, Unfinished

(* It ends: it is complete, or shows an error. *)
Ends(r, q, m, s) ==
    /\ LastBecomes(messages, q, m) /\ Update(q)
    /\ source' = [source EXCEPT ![r] = s]
    /\ UNCHANGED chunks
    /\ m.status \in {"complete", "error"}
    /\ m.text \in Notes \/ InOrder(m)
    /\ s = "done" => m.status = "complete" /\ Len(m.text) = chunks[r]
    /\ current' = "none"
    /\ batch' # <<>> => /\ batch'[1] = r /\ complete' = TRUE
                        /\ s = "closed" => m.status = "error"

(* After the end of an answer no request is under way.                     *)
LEMMA AnswerEnds ==
    ASSUME PageInv, CalmInv, NEW r \in Requests, UnderWay(r), NEW q, NEW m,
           NEW s \in {"done", "closed", "answered"}, Ends(r, q, m, s)
    PROVE  CalmInv'
<1>1. s \in SourceStates
  BY DEF SourceStates
<1>2. /\ messages' = q /\ q # <<>> /\ q \in Seq(Entries) /\ q[Len(q)] = m
      /\ \A i \in 1 .. Len(q) : i # Len(q) => ~Unfinished(q[i])
      /\ Orderly(messages') /\ Orderly(saved') /\ AnswersWhole'
      /\ source'[r] = s
      /\ \A o \in Requests : o # r => ~UnderWay(o)'
  <2>1. AnswerBecomes(r, q, m, s)
    BY DEF AnswerBecomes, Ends
  <2>2. QED
    BY <1>1, <2>1, AnswerMoves
<1>3. \A o \in Requests : ~UnderWay(o)'
  BY <1>2 DEF UnderWay
<1>4. ~Unfinished(m)
  BY DEF Unfinished, Ends
<1>5. \A i \in 1 .. Len(messages') : ~Unfinished(messages'[i])
  BY <1>2, <1>4
<1>6. ClosedInBatch'
  BY <1>2, <1>3 DEF ClosedInBatch, UnderWay, Ends
<1>7. QED
  BY <1>2, <1>3, <1>5, <1>6, CalmAtRest DEF Ends

(* An unfinished answer fails, and the source is closed. *)
LEMMA CalmFails ==
    ASSUME PageInv, CalmInv, NEW r \in Requests, UnderWay(r), NEW s \in {"closed", "answered"},
           Update(handleStreamError(messages)), source' = [source EXCEPT ![r] = s],
           UNCHANGED chunks, current' = "none",
           batch' # <<>> => batch'[1] = r /\ complete' = TRUE
    PROVE  CalmInv'
<1> DEFINE q == handleStreamError(messages)
<1>1. Listed(messages) /\ Shows(r)
  BY OneUnderWay DEF PageInv, ListsOK
<1>2. messages # <<>> /\ messages[Len(messages)].from = "assistant"
  BY <1>1, LastEntry DEF Shows, Tagged, Unfinished
<1>3. PICK m : LastBecomes(messages, q, m) /\ m.status = "error" /\ m.text = <<Note("error")>>
  BY <1>1, <1>2, ErrorEffect
<1> HIDE DEF q
<1>4. Ends(r, q, m, s)
  <2>1. m.text \in Notes
    BY <1>3 DEF Notes
  <2>2. Update(q)
    BY DEF q
  <2>3. QED
    BY <1>3, <2>1, <2>2 DEF Ends
<1>5. QED
  BY <1>4, AnswerEnds

(* It is complete with the text that has come, by the last event or by Stop. *)
LEMMA CalmCompletes ==
    ASSUME PageInv, CalmInv, NEW r \in Requests, UnderWay(r), NEW s \in {"done", "closed"},
           Update(handleStreamComplete(messages)), source' = [source EXCEPT ![r] = s],
           UNCHANGED chunks, current' = "none",
           batch' # <<>> => batch'[1] = r /\ complete' = TRUE /\ s = "done"
    PROVE  CalmInv'
<1> DEFINE q == handleStreamComplete(messages)
<1>1. Listed(messages) /\ Shows(r)
  BY OneUnderWay DEF PageInv, ListsOK
<1>2. messages # <<>> /\ Unfinished(messages[Len(messages)])
  BY <1>1 DEF Shows
<1>3. PICK m : /\ LastBecomes(messages, q, m) /\ m.status = "complete"
               /\ m.text = messages[Len(messages)].text
  BY <1>1, <1>2, CompleteEffect
<1> HIDE DEF q
<1>4. Ends(r, q, m, s)
  <2>1. InOrder(m) /\ Len(m.text) = chunks[r]
    BY <1>1, <1>3 DEF InOrder, LastBecomes, Shows
  <2>2. Update(q)
    BY DEF q
  <2>3. QED
    BY <1>3, <2>1, <2>2 DEF Ends
<1>5. QED
  BY <1>4, AnswerEnds

(* The response of a request without streaming. *)
LEMMA CalmRespond ==
    ASSUME PageInv, CalmInv, NEW r \in Requests, Respond(r)
    PROVE  CalmInv'
<1>1. /\ batch = <<>> /\ UNCHANGED <<chunks, batch, current>>
      /\ source[r] = "awaited" /\ source' = [source EXCEPT ![r] = "answered"]
      /\ Update(Answered(messages, r)) \/ Update(handleStreamError(messages))
  BY DEF Respond, refVars, Idle
<1>2. UnderWay(r) /\ Listed(messages) /\ Shows(r)
  BY <1>1, OneUnderWay DEF UnderWay, PageInv, ListsOK
<1>3. current' = "none"
  <2>1. ~streaming
    BY <1>1 DEF CalmInv, RefsHold
  <2>2. current # "none" => current \in Requests /\ source[current] \in {"open", "silent"}
    BY DEF CalmInv, RefsHold, PageInv, ScalarsOK
  <2>3. QED
    BY <1>1, <2>1, <2>2 DEF CalmInv, RefsHold
<1>4. CASE Update(handleStreamError(messages))
  BY <1>1, <1>2, <1>3, <1>4, CalmFails
<1>5. CASE Update(Answered(messages, r))
  <2> DEFINE q == Answered(messages, r)
  <2>1. messages # <<>> /\ messages[Len(messages)].from = "assistant" /\ messages[Len(messages)].key[2] = r
    BY <1>2, LastEntry DEF Shows, Tagged, Unfinished
  <2>2. PICK m : LastBecomes(messages, q, m) /\ m.status = "complete" /\ m.text = <<<<r, 1>>>>
    BY <1>2, <2>1, AnswerEffect
  <2> HIDE DEF q
  <2>3. m.key[2] = r
    BY <2>1, <2>2 DEF LastBecomes
  <2>4. InOrder(m)
    BY <2>2, <2>3 DEF InOrder
  <2>5. Ends(r, q, m, "answered")
    <3>1. Update(q)
      BY <1>5 DEF q
    <3>2. QED
      BY <1>1, <1>3, <2>2, <2>4, <3>1 DEF Ends
  <2>6. QED
    BY <1>2, <2>5, AnswerEnds
<1>6. QED
  BY <1>1, <1>4, <1>5

(* The page holds no request when none is under way. *)
LEMMA NoneHeld ==
    ASSUME PageInv, CalmInv, \A r \in Requests : ~UnderWay(r)
    PROVE  current = "none"
BY DEF PageInv, ScalarsOK, CalmInv, RefsHold, UnderWay

(* An event of a source that is open. *)
LEMMA CalmEvent ==
    ASSUME PageInv, CalmInv, Dispatch, source[batch[1]] = "open"
    PROVE  CalmInv'
<1>0. PICK r, e : r = batch[1] /\ e = Head(batch[2])
  OBVIOUS
<1>1. /\ r \in Requests /\ chunks[r] \in Nat /\ source[r] = "open" /\ UnderWay(r)
      /\ chunks \in [Requests -> 0 .. MaxChunks]
  BY <1>0, BatchEvent DEF PageInv, ScalarsOK, Dispatch, UnderWay
<1>2. Listed(messages) /\ Shows(r) /\ ~complete
  BY <1>1, OneUnderWay DEF PageInv, ListsOK, CalmInv, RefsHold
<1>3. /\ \/ e \in {"chunk", "delta"} /\ AppendChunk(r)
         \/ e \in {"[DONE]", "completed"} /\ Finish(r)
         \/ e \notin {"chunk", "delta"} /\ HandleError(r)
      /\ chunks' = IF e \in {"chunk", "delta"} THEN [chunks EXCEPT ![r] = @ + 1] ELSE chunks
      /\ UNCHANGED streaming
  BY <1>0, <1>2, DispatchEffect
<1>4. batch' # <<>> => batch'[1] = r
  BY <1>0, DispatchEffect
<1>5. CASE e \in {"chunk", "delta"} /\ AppendChunk(r)
  <2> DEFINE q == handleStreamUpdate(messages, r)
             last == messages[Len(messages)]
  <2>1. /\ messages # <<>> /\ last.from = "assistant" /\ last.status # "error"
        /\ last.key[2] = r /\ last.text \in Texts /\ Len(last.text) = chunks[r] /\ InOrder(last)
    BY <1>2, LastEntry DEF Shows, Tagged, Unfinished
  <2>2. PICK m : /\ LastBecomes(messages, q, m) /\ m.status = "streaming"
                 /\ m.text = Append(last.text, <<r, chunks[r] + 1>>)
    <3>1. messages # <<>> /\ last.from = "assistant" /\ ~(last.status = "error")
      BY <2>1
    <3>2. \/ q = messages
             /\ (messages # <<>> /\ last.from = "assistant" => last.status = "error")
          \/ \E m : /\ LastBecomes(messages, q, m) /\ m.status = "streaming"
                    /\ m.text = Append(last.text, <<r, chunks[r] + 1>>)
      BY <1>1, <1>2, UpdateEffect, Zenon
    <3> HIDE DEF q, last
    <3>3. QED
      BY <3>1, <3>2
  <2>3. Update(q) /\ UNCHANGED <<source, current, complete>>
    BY <1>5 DEF AppendChunk, refVars
  <2>4. m.key[2] = r
    BY <2>1, <2>2 DEF LastBecomes
  <2> HIDE DEF q
  <2>5. InOrder(m) /\ Len(m.text) = chunks[r] + 1
    <3> DEFINE t == last.text
    <3>1. t \in Seq((Requests \cup {"typed", "edited", "error"}) \X Nat)
      BY <2>1 DEF Texts
    <3>2. \A k \in 1 .. Len(t) : t[k] = <<r, k>>
      BY <2>1 DEF InOrder
    <3>3. m.text = Append(t, <<r, Len(t) + 1>>) /\ Len(t) = chunks[r]
      BY <2>1, <2>2
    <3> HIDE DEF t, last
    <3>4. /\ Len(m.text) = Len(t) + 1 /\ Len(t) \in Nat
          /\ m.text[Len(t) + 1] = <<r, Len(t) + 1>>
          /\ \A k \in 1 .. Len(t) : m.text[k] = t[k]
      BY <3>1, <3>3
    <3>5. QED
      BY <2>4, <3>2, <3>3, <3>4 DEF InOrder
  <2>6. chunks'[r] = chunks[r] + 1 /\ \A o \in Requests : o # r => chunks'[o] = chunks[o]
    BY <1>1, <1>3, <1>5
  <2>7. QED
    BY <1>1, <1>3, <1>4, <2>2, <2>3, <2>5, <2>6, AnswerGoesOn
<1>6. CASE e \in {"[DONE]", "completed"} /\ Finish(r)
  <2>1. /\ Update(handleStreamComplete(messages)) /\ source' = [source EXCEPT ![r] = "done"]
        /\ UNCHANGED chunks /\ current' = "none" /\ complete' = TRUE
    BY <1>1, <1>3, <1>6 DEF Finish, closeSource
  <2>2. QED
    BY <1>1, <1>4, <2>1, CalmCompletes
<1>7. CASE e \notin {"chunk", "delta"} /\ HandleError(r)
  <2>1. /\ Update(handleStreamError(messages)) /\ source' = [source EXCEPT ![r] = "closed"]
        /\ UNCHANGED chunks /\ current' = "none" /\ complete' = TRUE
    BY <1>3, <1>7 DEF HandleError, closeSource
  <2>2. QED
    BY <1>1, <1>4, <2>1, CalmFails
<1>8. QED
  BY <1>3, <1>5, <1>6, <1>7

(* A late event, of a source that its callback closed, changes no message. *)
LEMMA LateEvent ==
    ASSUME PageInv, CalmInv, Dispatch, source[batch[1]] # "open"
    PROVE  /\ messages' = messages /\ saved' \in {saved, messages}
           /\ faults' = 0 => faults = 0
           /\ source' = source /\ current' = "none" /\ complete' = TRUE
           /\ \A r \in Requests : source[r] = "done" => chunks'[r] = chunks[r]
           /\ batch' # <<>> => batch'[1] = batch[1]
           /\ \A r \in Requests : ~UnderWay(r)
<1>0. PICK r, e : r = batch[1] /\ e = Head(batch[2])
  OBVIOUS
<1>1. /\ r \in Requests /\ chunks[r] \in Nat /\ batch # <<>> /\ e = batch[2][1] /\ Len(batch[2]) \in Nat \ {0}
      /\ chunks \in [Requests -> 0 .. MaxChunks] /\ source \in [Requests -> SourceStates]
      /\ source[r] \in {"done", "closed"} /\ Listed(messages) /\ complete \in BOOLEAN
      /\ source[r] = "done" => \A i \in 1 .. Len(batch[2]) : batch[2][i] \notin {"chunk", "delta"}
  BY <1>0, BatchEvent DEF PageInv, ScalarsOK, Dispatch, BatchOK, ListsOK
<1>2. /\ complete /\ \A o \in Requests : ~UnderWay(o)
      /\ source[r] = "closed" => messages # <<>> /\ messages[Len(messages)].status = "error"
  BY <1>0, <1>1 DEF CalmInv, ClosedInBatch
<1>3. current = "none" /\ \A i \in 1 .. Len(messages) : ~Unfinished(messages[i])
  BY <1>1, <1>2, NoneHeld, NothingUnfinished
<1>4. /\ \/ e = "chunk" /\ AppendChunk(r)
         \/ e \in {"[DONE]", "completed"} /\ Finish(r)
         \/ Ignored /\ e # "chunk"
      /\ chunks' = IF e \in {"chunk", "delta"} THEN [chunks EXCEPT ![r] = @ + 1] ELSE chunks
  BY <1>0, <1>2, DispatchEffect
<1>5. batch' # <<>> => batch'[1] = r
  BY <1>0, DispatchEffect
<1>6. source[r] = "done" => e \notin {"chunk", "delta"}
  BY <1>1
<1>7. \A o \in Requests : source[o] = "done" => chunks'[o] = chunks[o]
  BY <1>1, <1>4, <1>6
<1>8. /\ source' = source /\ current' = "none" /\ complete' = TRUE
      /\ Update(messages) \/ UNCHANGED <<messages, saved, faults>>
  <2>1. CASE e = "chunk" /\ AppendChunk(r)
    <3>1. messages # <<>> /\ messages[Len(messages)].status = "error"
      BY <1>1, <1>2, <1>6, <2>1
    <3>2. handleStreamUpdate(messages, r) = messages
      BY <1>1, <3>1, UpdateEffect
    <3>3. QED
      BY <1>1, <1>2, <1>3, <2>1, <3>2 DEF AppendChunk, refVars
  <2>2. CASE e \in {"[DONE]", "completed"} /\ Finish(r)
    <3>1. handleStreamComplete(messages) = messages
      <4>1. messages # <<>> => ~Unfinished(messages[Len(messages)])
        BY <1>1, <1>3, LastEntry
      <4>2. QED
        BY <1>1, <4>1, CompleteEffect DEF LastBecomes
    <3>2. source' = source
      BY <1>1, <2>2 DEF Finish, closeSource
    <3>3. QED
      BY <2>2, <3>1, <3>2 DEF Finish, closeSource
  <2>3. CASE Ignored
    BY <1>1, <1>2, <1>3, <2>3 DEF Ignored, refVars
  <2>4. QED
    BY <1>4, <2>1, <2>2, <2>3
<1>9. /\ messages' = messages /\ saved' \in {saved, messages}
      /\ faults' = 0 => faults = 0
  BY <1>8, PlaygroundAssumption DEF Update, saveMessages, PageInv, ListsOK
<1>10. QED
  BY <1>0, <1>2, <1>5, <1>7, <1>8, <1>9

(* An event of a callback, whether its source is still open or not.        *)
LEMMA CalmDispatch ==
    ASSUME PageInv, CalmInv, Dispatch
    PROVE  CalmInv'
<1>1. CASE source[batch[1]] = "open"
  BY <1>1, CalmEvent
<1>2. CASE source[batch[1]] # "open"
  <2>1. /\ messages' = messages /\ saved' \in {saved, messages}
        /\ faults' = 0 => faults = 0
        /\ source' = source /\ current' = "none" /\ complete' = TRUE
        /\ \A r \in Requests : source[r] = "done" => chunks'[r] = chunks[r]
        /\ batch' # <<>> => batch'[1] = batch[1]
        /\ \A r \in Requests : ~UnderWay(r)
    BY <1>2, LateEvent
  <2>2. Listed(messages) /\ messages \in Seq(Entries) /\ batch # <<>>
    BY DEF PageInv, ListsOK, Listed, Dispatch
  <2>3. Orderly(messages') /\ Orderly(saved')
    BY <2>1 DEF CalmInv
  <2>4. \A r \in Requests : ~UnderWay(r)'
    BY <2>1 DEF UnderWay
  <2>5. \A i \in 1 .. Len(messages') : ~Unfinished(messages'[i])
    BY <2>1, <2>2, NothingUnfinished
  <2>6. AnswersWhole'
    <3>1. AnswersWhole
      BY DEF CalmInv
    <3>2. \A i \in 1 .. Len(messages) : messages[i].key[2] \in Requests
      BY <2>2, EntryKey
    <3>3. QED
      BY <2>1, <3>1, <3>2 DEF AnswersWhole, Notes, Note
  <2>7. ClosedInBatch'
    BY <1>2, <2>1, <2>2, <2>4 DEF CalmInv, ClosedInBatch, UnderWay
  <2>8. QED
    BY <2>1, <2>2, <2>3, <2>4, <2>5, <2>6, <2>7, CalmAtRest
<1>3. QED
  BY <1>1, <1>2

(* Nothing but the callback or the message being edited changes. *)
LEMMA CalmSame ==
    ASSUME CalmInv, UNCHANGED <<streaming, messages, saved, faults, source, chunks, current, complete>>,
           batch' = batch \/ source[batch'[1]] = "open"
    PROVE  CalmInv'
<1>1. ClosedInBatch'
  BY DEF CalmInv, ClosedInBatch, UnderWay
<1>2. AnswersShown' /\ RefsHold' /\ AnswersWhole'
  BY DEF CalmInv, AnswersShown, Shows, UnderWay, Unfinished, InOrder, RefsHold, AnswersWhole, Notes, Note
<1>3. Orderly(messages)' /\ Orderly(saved)'
  BY DEF CalmInv, Orderly, Unfinished, InOrder, Notes, Note
<1>4. QED
  BY <1>1, <1>2, <1>3 DEF CalmInv

(* The server closes the stream without a last event. *)
LEMMA CalmSilent ==
    ASSUME PageInv, CalmInv, NEW r \in Requests, ConnectionEnds(r)
    PROVE  CalmInv'
<1>1. /\ batch = <<>> /\ source[r] = "open" /\ source' = [source EXCEPT ![r] = "silent"]
      /\ UNCHANGED <<streaming, messages, saved, faults, chunks, batch, current, complete>>
  BY DEF ConnectionEnds, refVars, Idle
<1>2. /\ source \in [Requests -> SourceStates] /\ Listed(messages)
      /\ current \in Requests \cup {"none"}
  BY DEF PageInv, ScalarsOK, ListsOK
<1>3. source'[r] = "silent" /\ \A o \in Requests : o # r => source'[o] = source[o]
  BY <1>1, <1>2
<1>4. \A o \in Requests : UnderWay(o)' <=> UnderWay(o)
  BY <1>1, <1>3 DEF UnderWay
<1>5. \A i \in 1 .. Len(messages) : messages[i].key[2] \in Requests
  BY <1>2, EntryKey
<1>6. AnswersShown'
  <2>1. \A o \in Requests : Shows(o)' <=> Shows(o)
    BY <1>1 DEF Shows, Unfinished, InOrder
  <2>2. QED
    BY <1>1, <1>4, <1>5, <2>1 DEF CalmInv, AnswersShown, Unfinished
<1>7. RefsHold'
  BY <1>1, <1>2, <1>3 DEF CalmInv, RefsHold
<1>8. AnswersWhole'
  <2>1. \A o \in Requests : source'[o] = "done" => source[o] = "done"
    BY <1>3
  <2>2. QED
    BY <1>1, <1>5, <2>1 DEF CalmInv, AnswersWhole, Notes, Note
<1>9. ClosedInBatch'
  BY <1>1 DEF ClosedInBatch
<1>10. Orderly(messages)' /\ Orderly(saved)'
  BY <1>1 DEF CalmInv, Orderly, Unfinished, InOrder, Notes, Note
<1>11. QED
  BY <1>6, <1>7, <1>8, <1>9, <1>10 DEF CalmInv

(* The user edits, deletes or clears messages while no request is under way. *)
LEMMA CalmChange ==
    ASSUME PageInv, CalmInv, NEW q, Keeps(q), ChangeList(q), ~disturbed'
    PROVE  CalmInv'
<1>1. /\ batch = <<>> /\ Update(q) /\ ~InFlight
      /\ UNCHANGED <<source, chunks, batch, current>>
  BY DEF ChangeList, Change, Idle, refVars
<1>2. Listed(messages) /\ ListsOK /\ Listed(q) /\ q \in Seq(Entries)
  BY DEF PageInv, ListsOK, Keeps, Listed
<1>3. \A r \in Requests : ~UnderWay(r)
  BY <1>1 DEF InFlight
<1>4. current' = "none" /\ \A i \in 1 .. Len(messages) : ~Unfinished(messages[i])
  BY <1>1, <1>2, <1>3, NoneHeld, NothingUnfinished
<1>5. /\ messages' = q /\ saved' \in {saved, q}
      /\ faults' = 0 => faults = 0
  BY <1>1, <1>2, PlaygroundAssumption DEF Update, saveMessages, ListsOK
<1>6. \A i \in 1 .. Len(q) : \E j \in 1 .. Len(messages) :
          /\ q[i].key = messages[j].key /\ q[i].from = messages[j].from
          /\ q[i].status = messages[j].status
          /\ q[i].text = messages[j].text \/ q[i].text \in Notes
  BY DEF Keeps
<1>7. \A i \in 1 .. Len(q) : ~Unfinished(q[i])
  BY <1>4, <1>6 DEF Unfinished
<1>8. Orderly(q)
  <2> SUFFICES ASSUME NEW i \in 1 .. Len(q), q[i].from = "assistant"
               PROVE  q[i].text \in Notes \/ InOrder(q[i])
    BY <1>7 DEF Orderly
  <2>1. PICK j \in 1 .. Len(messages) :
          /\ q[i].key = messages[j].key /\ q[i].from = messages[j].from
          /\ q[i].text = messages[j].text \/ q[i].text \in Notes
    BY <1>6
  <2>2. messages[j].text \in Notes \/ InOrder(messages[j])
    BY <2>1 DEF CalmInv, Orderly
  <2>3. QED
    BY <2>1, <2>2 DEF InOrder
<1>9. AnswersWhole'
  <2> SUFFICES ASSUME faults' = 0, NEW i \in 1 .. Len(q), q[i].status = "complete",
                      source[q[i].key[2]] = "done"
               PROVE  q[i].text \in Notes \/ Len(q[i].text) = chunks[q[i].key[2]]
    BY <1>1, <1>5, Zenon DEF AnswersWhole, Notes, Note
  <2>1. PICK j \in 1 .. Len(messages) :
          /\ q[i].key = messages[j].key /\ q[i].status = messages[j].status
          /\ q[i].text = messages[j].text \/ q[i].text \in Notes
    BY <1>6
  <2>2. QED
    BY <1>5, <2>1 DEF CalmInv, AnswersWhole
<1>10. ClosedInBatch'
  BY <1>1 DEF ClosedInBatch
<1>11. Orderly(messages') /\ Orderly(saved')
  BY <1>5, <1>8 DEF CalmInv
<1>12. \A r \in Requests : ~UnderWay(r)'
  BY <1>1, <1>3 DEF UnderWay
<1>13. QED
  BY <1>2, <1>4, <1>5, <1>7, <1>9, <1>10, <1>11, <1>12, CalmAtRest

(* The page is loaded again, whatever request was under way. *)
LEMMA CalmReload ==
    ASSUME PageInv, CalmInv, Reload
    PROVE  CalmInv'
<1> DEFINE q == sanitizeMessagesOnLoad(saved)
<1>1. /\ batch = <<>> /\ batch' = batch /\ Update(q) /\ current' = "none" /\ chunks' = chunks
      /\ source' = [r \in Requests |-> IF UnderWay(r) THEN "closed" ELSE source[r]]
  BY DEF Reload, Change, Idle
<1>2. ListsOK /\ Listed(messages) /\ Listed(saved) /\ Orderly(saved)
  BY DEF PageInv, ListsOK, CalmInv
<1>3. /\ SameKeys(saved, q)
      /\ \A i \in 1 .. Len(saved) :
            \/ /\ q[i] = saved[i]
               /\ Unfinished(saved[i]) => \E j \in 1 .. Len(saved) : i < j /\ Unfinished(saved[j])
            \/ /\ Unfinished(saved[i])
               /\ q[i].status \in {"complete", "error"}
               /\ q[i].text = saved[i].text \/ q[i].text \in Notes
  BY <1>2, SanitizeEffect
<1> HIDE DEF q
<1>4. /\ q \in Seq(Entries) /\ Len(q) = Len(saved) /\ \A i \in 1 .. Len(q) : q[i].key = saved[i].key
  BY <1>3 DEF SameKeys
<1>5. Len(saved) \in Nat
  BY <1>2 DEF Listed
<1>6. \A i \in 1 .. Len(q) : ~Unfinished(q[i])
  <2> SUFFICES ASSUME NEW i \in 1 .. Len(saved) PROVE ~Unfinished(q[i])
    BY <1>4
  <2>1. CASE q[i].status \in {"complete", "error"}
    BY <2>1 DEF Unfinished
  <2>2. CASE q[i] = saved[i] /\ (Unfinished(saved[i]) => \E j \in 1 .. Len(saved) : i < j /\ Unfinished(saved[j]))
    <3>1. Unfinished(saved[i]) => i = Len(saved)
      BY <1>2 DEF Orderly
    <3>2. QED
      BY <1>5, <2>2, <3>1
  <2>3. QED
    BY <1>3, <2>1, <2>2
<1>7. Orderly(q)
  <2> SUFFICES ASSUME NEW i \in 1 .. Len(saved), q[i].from = "assistant"
               PROVE  q[i].text \in Notes \/ InOrder(q[i])
    BY <1>4, <1>6 DEF Orderly
  <2>1. CASE q[i] = saved[i]
    BY <1>2, <2>1 DEF Orderly
  <2>2. CASE Unfinished(saved[i]) /\ (q[i].text = saved[i].text \/ q[i].text \in Notes)
    <3>1. saved[i].from = "assistant"
      BY <1>2, <2>2, EntryKey DEF Tagged, Unfinished
    <3>2. saved[i].text \in Notes \/ InOrder(saved[i])
      BY <1>2, <3>1 DEF Orderly
    <3>3. QED
      BY <1>4, <2>2, <3>2 DEF InOrder
  <2>3. QED
    BY <1>3, <2>1, <2>2
<1>8. /\ messages' = q /\ saved' \in {saved, q}
      /\ faults' = 0 => faults = 0
  BY <1>1, <1>2, PlaygroundAssumption DEF Update, saveMessages, ListsOK
<1>9. \A r \in Requests : ~UnderWay(r)' /\ (source'[r] = "done" => source[r] = "done" /\ ~UnderWay(r))
  BY <1>1 DEF UnderWay
<1>10. AnswersWhole'
  <2> SUFFICES ASSUME faults' = 0, NEW i \in 1 .. Len(q), q[i].status = "complete",
                      source'[q[i].key[2]] = "done"
               PROVE  q[i].text \in Notes \/ Len(q[i].text) = chunks[q[i].key[2]]
    BY <1>1, <1>8, Zenon DEF AnswersWhole, Notes, Note
  <2>1. saved = messages /\ faults = 0
    BY <1>2, <1>8 DEF ListsOK
  <2>2. messages[i].key = q[i].key /\ q[i].key[2] \in Requests
    BY <1>2, <1>4, <2>1, EntryKey
  <2>3. ~Unfinished(messages[i])
    BY <1>4, <1>9, <2>1, <2>2 DEF CalmInv, AnswersShown
  <2>4. q[i] = messages[i]
    BY <1>3, <1>4, <2>1, <2>3
  <2>5. QED
    BY <1>4, <1>9, <2>1, <2>2, <2>4 DEF CalmInv, AnswersWhole
<1>11. ClosedInBatch'
  BY <1>1 DEF ClosedInBatch
<1>12. Orderly(messages') /\ Orderly(saved')
  BY <1>2, <1>7, <1>8
<1>13. QED
  BY <1>1, <1>4, <1>6, <1>8, <1>9, <1>10, <1>11, <1>12, CalmAtRest

(* As long as no request is disturbed, the page stays calm. *)
LEMMA CalmStep ==
    ASSUME IInv, [Next]_vars, ~disturbed'
    PROVE  CalmInv'
<1>0. /\ PageInv /\ Listed(messages) /\ Started(messages) /\ DOMAIN messages = 1 .. Len(messages)
      /\ current \in Requests \cup {"none"}
  BY DEF IInv, PageInv, ScalarsOK, ListsOK, Listed
<1>d. ASSUME disturbed' = disturbed \/ disturbed' = (disturbed \/ InFlight) PROVE CalmInv
  BY <1>d DEF IInv
<1>1. ASSUME NEW r \in Requests, Progress(r) PROVE CalmInv'
  <2>1. /\ UNCHANGED <<streaming, messages, saved, faults, source, chunks, current, complete, disturbed>>
        /\ batch'[1] = r /\ source[r] = "open"
    BY <1>1 DEF Progress, refVars
  <2>2. QED
    BY <1>d, <2>1, CalmSame
<1>2. ASSUME NEW r \in Requests, ConnectionFails(r) PROVE CalmInv'
  <2>1. CalmInv /\ UnderWay(r) /\ ~complete
    <3>1. CalmInv /\ source[r] = "open"
      BY <1>d, <1>2 DEF ConnectionFails
    <3>2. QED
      BY <3>1 DEF CalmInv, RefsHold, UnderWay
  <2>2. /\ batch' = <<>> /\ chunks' = chunks /\ source' = [source EXCEPT ![r] = "closed"]
        /\ current' = "none" /\ Update(handleStreamError(messages))
    BY <1>2, <2>1 DEF ConnectionFails, HandleError, closeSource, Idle
  <2>3. QED
    BY <1>0, <2>1, <2>2, CalmFails
<1>3. ASSUME NEW r \in Requests, ConnectionEnds(r) PROVE CalmInv'
  <2>1. CalmInv
    BY <1>d, <1>3 DEF ConnectionEnds
  <2>2. QED
    BY <1>0, <1>3, <2>1, CalmSilent
<1>4. ASSUME NEW r \in Requests, Respond(r) PROVE CalmInv'
  <2>1. CalmInv
    BY <1>d, <1>4 DEF Respond
  <2>2. QED
    BY <1>0, <1>4, <2>1, CalmRespond
<1>5. ASSUME Dispatch PROVE CalmInv'
  <2>1. CalmInv
    BY <1>d, <1>5 DEF Dispatch
  <2>2. QED
    BY <1>0, <1>5, <2>1, CalmDispatch
<1>6. ASSUME NEW r \in Requests, handleSendMessage(r) \/ handleSuggestionClick(r) PROVE CalmInv'
  <2> DEFINE q == messages \o <<createUserMessage(r), createLoadingAssistantMessage(r)>>
  <2>1. /\ batch = <<>> /\ UNCHANGED <<streaming, chunks, batch>>
        /\ sendChat(r, q) /\ source[r] = "unused" /\ disturbed' = (disturbed \/ InFlight)
    BY <1>6 DEF handleSendMessage, handleSuggestionClick, Idle, sendChat
  <2>2. Opens(q, r)
    BY <1>0, <2>1, SendOpens
  <2> HIDE DEF q
  <2>3. QED
    BY <1>0, <1>d, <2>1, <2>2, CalmSend
<1>7. ASSUME NEW r \in Requests, NEW i \in 1 .. Len(messages), handleRegenerateMessage(r, i)
      PROVE  CalmInv'
  <2> DEFINE q == Append(SubSeq(messages, 1, i - 1), createLoadingAssistantMessage(r))
  <2>1. /\ batch = <<>> /\ UNCHANGED <<streaming, chunks, batch>>
        /\ sendChat(r, q) /\ source[r] = "unused" /\ disturbed' = (disturbed \/ InFlight)
    BY <1>7 DEF handleRegenerateMessage, Idle, sendChat
  <2>2. Opens(q, r)
    BY <1>0, <2>1, RegenerateOpens
  <2> HIDE DEF q
  <2>3. QED
    BY <1>0, <1>d, <2>1, <2>2, CalmSend
<1>8. ASSUME NEW r \in Requests, NEW i \in 1 .. Len(messages), EditAndSubmit(r, i) PROVE CalmInv'
  <2>1. /\ batch = <<>> /\ UNCHANGED <<streaming, chunks, batch>> /\ messages[i].from = "user"
        /\ sendChat(r, Resubmitted(i, r)) /\ source[r] = "unused"
        /\ disturbed' = (disturbed \/ InFlight)
    BY <1>8 DEF EditAndSubmit, sendChat, Change, Idle
  <2>2. Opens(Resubmitted(i, r), r)
    BY <1>0, <2>1, ResubmitOpens
  <2>3. QED
    BY <1>0, <1>d, <2>1, <2>2, CalmSend
<1>9. ASSUME NEW i \in 1 .. Len(messages), handleEditMessage(i) PROVE CalmInv'
  <2>1. UNCHANGED <<streaming, messages, saved, faults, source, chunks, batch, current, complete, disturbed>>
    BY <1>9 DEF handleEditMessage, refVars
  <2>2. QED
    BY <1>d, <2>1, CalmSame
<1>l. ASSUME NEW q, ChangeList(q), Keeps(q) PROVE CalmInv'
  <2>1. CalmInv
    BY <1>d, <1>l DEF ChangeList
  <2>2. QED
    BY <1>0, <1>l, <2>1, CalmChange
<1>10. ASSUME NEW i \in 1 .. Len(messages), EditAndSave(i) PROVE CalmInv'
  <2> DEFINE q == [messages EXCEPT ![i].text = <<Note("edited")>>]
  <2>1. ChangeList(q)
    BY <1>10 DEF EditAndSave
  <2>2. Keeps(q)
    BY <1>0, SaveKeeps
  <2> HIDE DEF q
  <2>3. QED
    BY <1>l, <2>1, <2>2
<1>11. ASSUME NEW i \in 1 .. Len(messages), handleDeleteMessage(i) PROVE CalmInv'
  <2>1. ChangeList(RemoveAt(messages, i))
    BY <1>11 DEF handleDeleteMessage
  <2>2. QED
    BY <1>0, <1>l, <2>1, DeleteKeeps
<1>12. ASSUME handleClearMessages PROVE CalmInv'
  <2>1. ChangeList(<<>>)
    BY <1>12 DEF handleClearMessages
  <2>2. QED
    BY <1>l, <2>1, ClearKeeps
<1>13. ASSUME stopGeneration PROVE CalmInv'
  <2>1. /\ batch' = <<>> /\ chunks' = chunks /\ current \in Requests
        /\ source' = [source EXCEPT ![current] = "closed"] /\ current' = "none"
        /\ Update(handleStreamComplete(messages)) /\ disturbed' = disturbed
    BY <1>0, <1>13 DEF stopGeneration, stopStream, closeSource, Idle, Busy
  <2>2. CalmInv /\ current # "none"
    BY <1>d, <1>13, <2>1 DEF stopGeneration, Busy
  <2>3. UnderWay(current)
    BY <2>2 DEF CalmInv, RefsHold, UnderWay
  <2>4. QED
    BY <1>0, <2>1, <2>2, <2>3, CalmCompletes
<1>14. ASSUME Reload PROVE CalmInv'
  <2>1. CalmInv
    BY <1>d, <1>14 DEF Reload
  <2>2. QED
    BY <1>0, <1>14, <2>1, CalmReload
<1>15. CASE UNCHANGED vars
  <2>1. UNCHANGED <<streaming, messages, saved, faults, source, chunks, batch, current, complete, disturbed>>
    BY <1>15 DEF vars, refVars
  <2>2. QED
    BY <1>d, <2>1, CalmSame
<1>16. QED
  BY <1>0, <1>1, <1>2, <1>3, <1>4, <1>5, <1>6, <1>7, <1>8, <1>9, <1>10, <1>11, <1>12, <1>13,
     <1>14, <1>15 DEF Next, Server, User

(* An empty page.                                                          *)
LEMMA InitIInv == Init => IInv
<1> SUFFICES ASSUME Init PROVE IInv
  OBVIOUS
<1>1. /\ messages = <<>> /\ saved = <<>> /\ Len(messages) = 0 /\ Len(saved) = 0
      /\ faults = 0 /\ batch = <<>> /\ current = "none"
      /\ \A r \in Requests : source[r] = "unused" /\ chunks[r] = 0
  BY DEF Init
<1>2. \A i \in 1 .. Len(messages), j \in 1 .. Len(saved) : FALSE
  BY <1>1
<1>3. ListsOK
  BY <1>1, PlaygroundAssumption DEF ListsOK, Listed, Started
<1>4. ScalarsOK
  <2>1. 0 \in 0 .. MaxChunks /\ 0 \in 0 .. MaxChanges
    BY PlaygroundAssumption
  <2>2. /\ source \in [Requests -> SourceStates] /\ chunks \in [Requests -> 0 .. MaxChunks]
        /\ changes \in 0 .. MaxChanges
    BY <2>1 DEF Init, SourceStates
  <2>3. /\ streaming \in BOOLEAN /\ complete \in BOOLEAN /\ disturbed \in BOOLEAN
        /\ editing \in Keys \cup {<<"none">>} /\ current \in Requests \cup {"none"}
    BY Zenon DEF Init
  <2>4. QED
    BY <2>2, <2>3 DEF ScalarsOK
<1>5. PageInv
  BY <1>1, <1>3, <1>4 DEF PageInv, BatchOK, NoTextYet
<1>6. CalmInv
  BY <1>1 DEF CalmInv, Orderly, AnswersShown, AnswersWhole, RefsHold, ClosedInBatch, UnderWay
<1>7. QED
  BY <1>5, <1>6 DEF IInv

(* Every step keeps the invariant.                                         *)
LEMMA StepIInv == IInv /\ [Next]_vars => IInv'
BY PageStep, CalmStep DEF IInv

(* The inductive invariant holds in every reachable state of the page,     *)
(* whatever the number of requests, the events of a callback and the       *)
(* bounds.                                                                 *)
THEOREM Invariance == Spec => []IInv
BY InitIInv, StepIInv, PTL DEF Spec

(* The type invariant of the page: among others, no two messages of the    *)
(* list or of its copy in localStorage ever have the same key, however     *)
(* often requests are sent again, answers are regenerated and messages     *)
(* edited or deleted.                                                      *)
THEOREM TypesHold == Spec => []TypeOK
<1>1. IInv => TypeOK
  BY PageTypes DEF IInv
<1>2. QED
  BY <1>1, Invariance, PTL

(* As long as no list was changed under a request, an answer of the list   *)
(* is the text of its own request, in order and without gaps, and if its   *)
(* stream ended with [DONE] and the storage did not fail it is all of it   *)
(* (handleStreamUpdate, handleStreamComplete).                             *)
THEOREM AnswersStayExact == Spec => []AnswersExact
<1>1. IInv => AnswersExact
  <2> SUFFICES ASSUME IInv, ~disturbed, NEW i \in 1 .. Len(messages), messages[i].from = "assistant",
                      messages[i].text \notin {<<Note("error")>>, <<Note("edited")>>}
               PROVE  /\ \A k \in 1 .. Len(messages[i].text) :
                            messages[i].text[k] = <<messages[i].key[2], k>>
                      /\ messages[i].status = "complete" /\ source[messages[i].key[2]] = "done" /\ faults = 0 =>
                            Len(messages[i].text) = chunks[messages[i].key[2]]
    <3>1. ASSUME IInv PROVE DOMAIN messages = 1 .. Len(messages) /\ Listed(messages)
      BY <3>1 DEF IInv, PageInv, ListsOK, Listed
    <3>2. ASSUME IInv, NEW i \in 1 .. Len(messages)
          PROVE  DOMAIN messages[i].text = 1 .. Len(messages[i].text)
      <4>1. messages[i].text \in Texts
        BY <3>1, <3>2, EntryKey DEF Entries
      <4>2. QED
        BY <4>1 DEF Texts
    <3>3. QED
      BY <3>1, <3>2 DEF AnswersExact
  <2>1. CalmInv /\ messages[i].text \notin Notes
    BY DEF IInv, Notes
  <2>2. InOrder(messages[i])
    BY <2>1 DEF CalmInv, Orderly
  <2>3. QED
    BY <2>1, <2>2 DEF InOrder, CalmInv, AnswersWhole
<1>2. QED
  BY <1>1, Invariance, PTL

(* An answer that is loading or streaming is the last message, its request *)
(* is under way, and the page holds its source, so stopGeneration reaches  *)
(* it: also after a reload.                                                *)
THEOREM UnfinishedStoppable == Spec => []Stoppable
<1>1. IInv => Stoppable
  <2> SUFFICES ASSUME IInv, ~disturbed, NEW i \in DOMAIN messages, Unfinished(messages[i])
               PROVE  /\ i = Len(messages) /\ UnderWay(messages[i].key[2])
                      /\ streaming => current = messages[i].key[2]
    BY DEF Stoppable
  <2>1. CalmInv /\ Listed(messages) /\ i \in 1 .. Len(messages)
    BY DEF IInv, PageInv, ListsOK, Listed
  <2>2. i = Len(messages) /\ UnderWay(messages[i].key[2]) /\ messages[i].key[2] \in Requests
    BY <2>1, EntryKey DEF CalmInv, Orderly, AnswersShown
  <2>3. QED
    BY <2>1, <2>2 DEF CalmInv, RefsHold, UnderWay
<1>2. QED
  BY <1>1, Invariance, PTL

(* A callback changes the last message only. *)
LEMMA LastOnly ==
    ASSUME Listed(messages), NEW r \in Requests, chunks[r] \in Nat,
           NEW q \in {handleStreamUpdate(messages, r), handleStreamComplete(messages),
                      handleStreamError(messages), Answered(messages, r)}
    PROVE  Len(q) = Len(messages) /\ q \in Seq(Entries)
           /\ \A i \in 1 .. Len(messages) : i # Len(messages) => q[i] = messages[i]
<1>1. q = messages \/ \E m : LastBecomes(messages, q, m)
  BY UpdateEffect, CompleteEffect, ErrorEffect, AnswerEffect
<1>2. CASE q = messages
  BY <1>2 DEF Listed
<1>3. CASE \E m : LastBecomes(messages, q, m)
  BY <1>3, BecomesEffect DEF Listed
<1>4. QED
  BY <1>1, <1>2, <1>3

Final(m) == m.status \in {"complete", "error"}
FinalKept == \A i \in 1 .. Len(messages) : Final(messages[i]) =>
                i \in DOMAIN messages' /\ messages'[i] = messages[i]

(* A callback of the request that is under way leaves final messages       *)
(* alone.                                                                  *)
LEMMA CallbackKeepsFinal ==
    ASSUME PageInv, CalmInv, NEW r \in Requests, UnderWay(r),
           NEW q \in {handleStreamUpdate(messages, r), handleStreamComplete(messages),
                      handleStreamError(messages), Answered(messages, r)},
           messages' = q
    PROVE  FinalKept
<1>1. Listed(messages) /\ chunks[r] \in Nat
  BY DEF PageInv, ListsOK, ScalarsOK
<1>2. ~Final(messages[Len(messages)])
  BY OneUnderWay DEF Shows, Unfinished, Final
<1>3. /\ Len(q) = Len(messages) /\ q \in Seq(Entries)
      /\ \A i \in 1 .. Len(messages) : i # Len(messages) => q[i] = messages[i]
  BY <1>1, LastOnly
<1>4. DOMAIN messages' = 1 .. Len(messages)
  BY <1>3
<1>5. QED
  BY <1>2, <1>3, <1>4 DEF FinalKept

(* And so does a step that leaves the list alone.                          *)
LEMMA SameKeepsFinal == ASSUME Listed(messages), messages' = messages PROVE FinalKept
BY DEF FinalKept, Listed

(* No event of a stream, nor a late one of the callback that closed it,    *)
(* changes a message that is complete or an error (isStreamCompleteRef and *)
(* the guards of handleStreamUpdate and handleStreamComplete); only the    *)
(* user does.                                                              *)
THEOREM FinalAnswersKept == Spec => FinalStaysFinal
<1> DEFINE Starts == \E r \in Requests : source[r] = "unused" /\ source'[r] # "unused"
           Keeping == ~disturbed' /\ changes' = changes =>
                        \A i \in DOMAIN messages : messages[i].status \in {"complete", "error"} =>
                          \/ i \in DOMAIN messages' /\ messages'[i] = messages[i]
                          \/ \E r \in Requests : source[r] = "unused" /\ source'[r] # "unused"
<1>1. IInv /\ [Next]_vars => [Keeping]_vars
  <2> SUFFICES ASSUME IInv, Next, ~disturbed', changes' = changes PROVE FinalKept \/ Starts
    <3>1. ASSUME IInv PROVE DOMAIN messages = 1 .. Len(messages)
      BY <3>1 DEF IInv, PageInv, ListsOK, Listed
    <3>2. QED
      BY <3>1 DEF FinalKept, Final
  <2>0. /\ PageInv /\ Listed(messages) /\ ScalarsOK /\ DOMAIN messages = 1 .. Len(messages)
        /\ current \in Requests \cup {"none"} /\ changes \in Nat
        /\ source \in [Requests -> SourceStates]
    BY PlaygroundAssumption DEF IInv, PageInv, ScalarsOK, ListsOK, Listed
  <2>d. ASSUME disturbed' = disturbed PROVE CalmInv
    BY <2>d DEF IInv
  <2>c. ~Change
    BY <2>0 DEF Change
  <2>1. ASSUME NEW r \in Requests, Progress(r) \/ ConnectionEnds(r) PROVE FinalKept
    BY <2>0, <2>1, SameKeepsFinal DEF Progress, ConnectionEnds
  <2>2. ASSUME NEW r \in Requests, ConnectionFails(r) PROVE FinalKept
    <3>1. CalmInv /\ UnderWay(r)
      BY <2>2, <2>d DEF ConnectionFails, UnderWay
    <3>2. messages' = messages \/ messages' = handleStreamError(messages)
      BY <2>2 DEF ConnectionFails, HandleError, Update
    <3>3. QED
      BY <2>0, <3>1, <3>2, SameKeepsFinal, CallbackKeepsFinal
  <2>3. ASSUME NEW r \in Requests, Respond(r) PROVE FinalKept
    <3>1. CalmInv /\ UnderWay(r)
      BY <2>3, <2>d DEF Respond, UnderWay
    <3>2. messages' = Answered(messages, r) \/ messages' = handleStreamError(messages)
      BY <2>3 DEF Respond, Update
    <3>3. QED
      BY <2>0, <3>1, <3>2, CallbackKeepsFinal
  <2>4. ASSUME Dispatch PROVE FinalKept
    <3>1. CalmInv
      BY <2>4, <2>d DEF Dispatch
    <3>2. CASE source[batch[1]] # "open"
      BY <2>0, <2>4, <3>1, <3>2, LateEvent, SameKeepsFinal
    <3>3. CASE source[batch[1]] = "open"
      <4>1. PICK r, e : r = batch[1] /\ e = Head(batch[2])
        OBVIOUS
      <4>2. r \in Requests /\ UnderWay(r)
        BY <2>0, <2>4, <3>3, <4>1, BatchEvent DEF PageInv, Dispatch, UnderWay
      <4>3. \/ messages' = messages \/ messages' = handleStreamUpdate(messages, r)
            \/ messages' = handleStreamComplete(messages) \/ messages' = handleStreamError(messages)
        BY <2>4, <4>1, DispatchEffect DEF AppendChunk, Finish, HandleError, Ignored, Update
      <4>4. QED
        BY <2>0, <3>1, <4>2, <4>3, SameKeepsFinal, CallbackKeepsFinal
    <3>4. QED
      BY <3>2, <3>3
  <2>5. ASSUME NEW r \in Requests, NEW q, sendChat(r, q) PROVE Starts
    BY <2>0, <2>5 DEF sendChat, sendStreamingChat, sendNonStreamingChat, closeSource
  <2>6. ASSUME NEW i \in DOMAIN messages, handleEditMessage(i) PROVE FinalKept
    BY <2>0, <2>6, SameKeepsFinal DEF handleEditMessage
  <2>7. ASSUME stopGeneration PROVE FinalKept
    <3>1. CalmInv /\ current \in Requests /\ current # "none"
      BY <2>0, <2>7, <2>d DEF stopGeneration, Busy
    <3>2. UnderWay(current)
      BY <3>1 DEF CalmInv, RefsHold, UnderWay
    <3>3. messages' = handleStreamComplete(messages)
      BY <2>7 DEF stopGeneration, Update
    <3>4. QED
      BY <2>0, <3>1, <3>2, <3>3, CallbackKeepsFinal
  <2>8. QED
    BY <2>c, <2>1, <2>2, <2>3, <2>4, <2>5, <2>6, <2>7
       DEF Next, Server, User, handleSendMessage, handleSuggestionClick, handleRegenerateMessage,
           EditAndSubmit, EditAndSave, handleDeleteMessage, handleClearMessages, ChangeList, Reload
<1>2. QED
  BY <1>1, Invariance, PTL DEF Spec, FinalStaysFinal
=============================================================================
