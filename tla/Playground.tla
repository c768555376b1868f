----------------------------- MODULE Playground -----------------------------
(***************************************************************************)
(* The chat of the Playground page of the web interface                    *)
(* (web/default/src/features/playground): the list of messages and its     *)
(* copy in localStorage, the requests and their events, the user.          *)
(*                                                                         *)
(* A handler runs to completion: its React updates are part of the action. *)
(* A progress callback of the SSE source may carry several events; while   *)
(* some are left nothing else happens, but a handler may close the source  *)
(* and the rest is dispatched all the same.                                *)
(***************************************************************************)
EXTENDS Integers, Sequences, SequencesExt

CONSTANTS
    Requests,
    ChatBatches,        \* events of one progress callback, chat completions
    ResponsesBatches,   \* the same for the responses endpoint
    MaxChunks,          \* bound: chunks of a request
    MaxChanges,         \* bound: deletions, edits, reloads
    MaxSaveFaults       \* bound: setItem throws (the storage is full)

MessageEvents == {"chunk", "[DONE]", "bad"}
NamedEvents == {"delta", "completed", "failed", "garbled"}

\* The server sends no text after the event that ends its answer: the relay stops
\* reading at [DONE] and writes its own last (stream_scanner.go, channel/openai/helper.go).
EndsLast(b) ==
    \A i, j \in DOMAIN b :
        i < j /\ b[i] \in {"[DONE]", "completed"} => b[j] \notin {"chunk", "delta"}

ASSUME PlaygroundAssumption ==
    /\ "none" \notin Requests
    /\ \A b \in ChatBatches : b \in Seq(MessageEvents)
    /\ \A b \in ResponsesBatches : b \in Seq(NamedEvents \cup {"[DONE]"})
    /\ \A b \in ChatBatches \cup ResponsesBatches : b # <<>> /\ EndsLast(b)
    /\ {MaxChunks, MaxChanges, MaxSaveFaults} \subseteq Nat

VARIABLES
    streaming,   \* config.stream
    messages,    \* messages of the page
    saved,       \* messages in localStorage
    editing,     \* editingMessageKey, or "none"
    source,      \* source[r]: state of the connection of request r
    chunks,      \* chunks[r]: number of chunks that arrived
    batch,       \* events left of the progress callback, with their request
    current,     \* sseSourceRef: the request whose source it holds, or "none"
    complete,    \* isStreamCompleteRef
    changes,
    faults,
    disturbed    \* history: the list was changed while a request was under way

vars == <<streaming, messages, saved, editing, source, chunks, batch, current, complete,
          changes, faults, disturbed>>
refVars == <<current, complete>>

\* A text is a sequence of chunks <<r, k>> or one note.
Note(w) == <<w, 0>>
Message(f, r, s, t) == [from |-> f, key |-> <<f, r>>, status |-> s, text |-> t]
createLoadingAssistantMessage(r) == Message("assistant", r, "loading", <<>>)
createUserMessage(r) == Message("user", r, "none", <<Note("typed")>>)

Unfinished(m) == m.status \in {"loading", "streaming"}

TypeOK ==
    /\ streaming \in BOOLEAN
    /\ \A l \in {messages, saved} : \A i \in DOMAIN l :
          /\ l[i].key \in {"user", "assistant"} \X Requests
          /\ l[i].status \in {"none", "loading", "streaming", "complete", "error"}
          /\ \A j \in DOMAIN l : l[j].key = l[i].key => j = i
    /\ editing \in ({"user", "assistant"} \X Requests) \cup {<<"none">>}
    /\ source \in [Requests -> {"unused", "open", "silent", "done", "closed", "awaited", "answered"}]
    /\ chunks \in [Requests -> 0..MaxChunks]
    /\ current \in Requests \cup {"none"}
    /\ complete \in BOOLEAN
    /\ changes \in 0..MaxChanges
    /\ faults \in 0..MaxSaveFaults
    /\ disturbed \in BOOLEAN

Init ==
    /\ streaming \in BOOLEAN
    /\ messages = <<>>
    /\ saved = <<>>
    /\ editing = <<"none">>
    /\ source = [r \in Requests |-> "unused"]
    /\ chunks = [r \in Requests |-> 0]
    /\ batch = <<>>
    /\ current = "none"
    /\ complete = FALSE
    /\ changes = 0
    /\ faults = 0
    /\ disturbed = FALSE

\* No progress callback is running: other handlers may run.
Idle == batch = <<>>
\* isGenerating, as of the last render.
Busy == current # "none"
\* A request is under way, as far as the page knows.
UnderWay(r) == source[r] \in {"open", "silent", "awaited"}
InFlight == \E r \in Requests : UnderWay(r)

\* setItem may throw, which is only logged.
saveMessages(l) ==
    \/ saved' = l /\ UNCHANGED faults
    \/ faults < MaxSaveFaults /\ faults' = faults + 1 /\ UNCHANGED saved

\* updateMessages: setMessages and saveMessages.
Update(l) == messages' = l /\ saveMessages(l)

-----------------------------------------------------------------------------
(* Changes of the last message (message-utils.ts, use-chat-handler.ts). *)

updateLastAssistantMessage(l, m) ==
    IF l # <<>> /\ Last(l).from = "assistant" THEN ReplaceAt(l, Len(l), m) ELSE l

\* Mutant: the text that came before is not kept.
MutantUpdateLosesText(l, r) ==
    IF l = <<>> \/ Last(l).status = "error" THEN l
    ELSE updateLastAssistantMessage(l, [Last(l) EXCEPT !.status = "streaming",
                                                       !.text = <<<<r, chunks[r] + 1>>>>])

\* Mutant: a message that shows an error takes the text that comes after it.
MutantHandleStreamUpdate(l, r) ==
    IF l = <<>> THEN l
    ELSE updateLastAssistantMessage(l, [Last(l) EXCEPT !.status = "streaming",
                                                       !.text = Append(@, <<r, chunks[r] + 1>>)])

handleStreamUpdate(l, r) ==
    IF l = <<>> \/ Last(l).status = "error" THEN l
    ELSE updateLastAssistantMessage(l, [Last(l) EXCEPT !.status = "streaming",
                                                       !.text = Append(@, <<r, chunks[r] + 1>>)])

handleStreamComplete(l) ==
    IF l = <<>> \/ Last(l).status \in {"complete", "error"} THEN l
    ELSE updateLastAssistantMessage(l, [Last(l) EXCEPT !.status = "complete"])

handleStreamError(l) ==
    IF l = <<>> THEN l
    ELSE updateLastAssistantMessage(l, [Last(l) EXCEPT !.status = "error", !.text = <<Note("error")>>])

-----------------------------------------------------------------------------
(* Requests (use-stream-request.ts). *)

closeSource(r, s) ==
    /\ source' = [source EXCEPT ![r] = s]
    /\ current' = "none"

\* handleError of the source of r, when the stream is not complete.
HandleError(r) ==
    /\ complete' = TRUE
    /\ Update(handleStreamError(messages))
    /\ closeSource(r, "closed")

\* Mutant: isStreamCompleteRef keeps the value of the stream before.
MutantSendStreamingChat(r, l) ==
    /\ UNCHANGED complete
    /\ \/ Update(l) /\ current' = r /\ source' = [source EXCEPT ![r] = "open"]
       \/ Update(handleStreamError(l)) /\ closeSource(r, "closed")

\* The request starts, or source.stream() throws.
sendStreamingChat(r, l) ==
    /\ complete' = FALSE
    /\ \/ Update(l) /\ current' = r /\ source' = [source EXCEPT ![r] = "open"]
       \/ Update(handleStreamError(l)) /\ closeSource(r, "closed")

sendNonStreamingChat(r, l) ==
    /\ Update(l)
    /\ source' = [source EXCEPT ![r] = "awaited"]
    /\ UNCHANGED refVars

\* updateMessages(l), then sendChat(l).
sendChat(r, l) ==
    /\ source[r] = "unused"
    /\ disturbed' = (disturbed \/ InFlight)
    /\ IF streaming THEN sendStreamingChat(r, l) ELSE sendNonStreamingChat(r, l)

\* A progress callback of an open source.  Which endpoint a request was sent to is
\* not kept: a request may have callbacks of both kinds, more than the code has.
Progress(r) ==
    /\ Idle
    /\ source[r] = "open"
    /\ \E b \in ChatBatches \cup ResponsesBatches :
          /\ chunks[r] + Len(b) <= MaxChunks
          /\ batch' = <<r, b>>
    /\ UNCHANGED <<streaming, messages, saved, editing, source, chunks, refVars, changes,
                   faults, disturbed>>

\* [DONE] or response.completed.
Finish(r) ==
    /\ complete' = TRUE
    /\ closeSource(r, IF source[r] = "open" THEN "done" ELSE source[r])
    /\ Update(handleStreamComplete(messages))

Ignored == UNCHANGED <<messages, saved, faults, source, refVars>>
AppendChunk(r) == Update(handleStreamUpdate(messages, r)) /\ UNCHANGED <<source, refVars>>

\* The handler of message looks at isStreamCompleteRef only for errors ...
HandleMessage(r, e) ==
    \/ e = "chunk" /\ AppendChunk(r)
    \/ e = "[DONE]" /\ Finish(r)
    \/ e = "bad" /\ IF complete THEN Ignored ELSE HandleError(r)

\* ... that of the named events always.
handleResponsesEvent(r, e) ==
    \/ complete /\ Ignored
    \/ ~complete /\ e = "delta" /\ AppendChunk(r)
    \/ ~complete /\ e = "completed" /\ Finish(r)
    \/ ~complete /\ e \in {"failed", "garbled"} /\ HandleError(r)

Dispatch ==
    /\ batch # <<>>
    /\ LET r == batch[1]
           e == Head(batch[2])
       IN  /\ IF e \in MessageEvents THEN HandleMessage(r, e) ELSE handleResponsesEvent(r, e)
           /\ chunks' = IF e \in {"chunk", "delta"} THEN [chunks EXCEPT ![r] = @ + 1] ELSE chunks
           /\ batch' = IF Len(batch[2]) = 1 THEN <<>> ELSE <<r, Tail(batch[2])>>
    /\ UNCHANGED <<streaming, editing, changes, disturbed>>

\* The event error, or readystatechange with another status than 200.
ConnectionFails(r) ==
    /\ Idle
    /\ source[r] = "open"
    /\ IF complete
       THEN source' = [source EXCEPT ![r] = "closed"]
            /\ UNCHANGED <<messages, saved, faults, refVars>>
       ELSE HandleError(r)
    /\ UNCHANGED <<streaming, editing, chunks, batch, changes, disturbed>>

\* The server closes a stream of status 200 without a last event: nothing is done.
ConnectionEnds(r) ==
    /\ Idle
    /\ source[r] = "open"
    /\ source' = [source EXCEPT ![r] = "silent"]
    /\ UNCHANGED <<streaming, messages, saved, editing, chunks, batch, refVars, changes,
                   faults, disturbed>>

\* The answer replaces the text of the last message, whichever that is by now.
Answered(l, r) ==
    IF l = <<>> THEN l
    ELSE updateLastAssistantMessage(l, [Last(l) EXCEPT !.status = "complete",
                                                       !.text = <<<<r, 1>>>>])

\* sendNonStreamingChat: the response, or an error.
Respond(r) ==
    /\ Idle
    /\ source[r] = "awaited"
    /\ source' = [source EXCEPT ![r] = "answered"]
    /\ \E l \in {Answered(messages, r), handleStreamError(messages)} : Update(l)
    /\ UNCHANGED <<streaming, editing, chunks, batch, refVars, changes, disturbed>>

-----------------------------------------------------------------------------
(* The user (index.tsx). *)

\* Send is disabled while an answer is being generated.
handleSendMessage(r) ==
    /\ Idle
    /\ ~Busy
    /\ sendChat(r, messages \o <<createUserMessage(r), createLoadingAssistantMessage(r)>>)
    /\ UNCHANGED <<streaming, editing, chunks, batch, changes>>

\* A suggestion is not.
handleSuggestionClick(r) ==
    /\ Idle
    /\ Busy
    /\ sendChat(r, messages \o <<createUserMessage(r), createLoadingAssistantMessage(r)>>)
    /\ UNCHANGED <<streaming, editing, chunks, batch, changes>>

handleRegenerateMessage(r, i) ==
    /\ Idle
    /\ ~Busy
    /\ messages[i].from = "assistant" /\ ~Unfinished(messages[i])
    /\ sendChat(r, Append(SubSeq(messages, 1, i - 1), createLoadingAssistantMessage(r)))
    /\ UNCHANGED <<streaming, editing, chunks, batch, changes>>

\* Where the message stands that is being edited.
EditIndex == {i \in DOMAIN messages : messages[i].key = editing}

handleEditMessage(i) ==
    /\ Idle
    /\ ~Busy
    /\ messages[i].text # <<>>
    /\ editing' = messages[i].key
    /\ UNCHANGED <<streaming, messages, saved, source, chunks, batch, refVars, changes, faults,
                   disturbed>>

Change ==
    /\ Idle
    /\ changes < MaxChanges
    /\ changes' = changes + 1

\* Mutant: the old text of the edited message is kept before it.
MutantResubmitted(i, r) ==
    SubSeq(messages, 1, i) \o
    <<[messages[i] EXCEPT !.text = <<Note("edited")>>], createLoadingAssistantMessage(r)>>

\* The messages up to the edited one, and a new answer.
Resubmitted(i, r) ==
    SubSeq(messages, 1, i - 1) \o
    <<[messages[i] EXCEPT !.text = <<Note("edited")>>], createLoadingAssistantMessage(r)>>

\* Save & Submit, which is offered while a request is under way.
EditAndSubmit(r, i) ==
    /\ Change
    /\ i \in EditIndex
    /\ messages[i].from = "user"
    /\ editing' = <<"none">>
    /\ sendChat(r, Resubmitted(i, r))
    /\ UNCHANGED <<streaming, chunks, batch>>

\* A change of the list that starts no request.
ChangeList(l) ==
    /\ Change
    /\ Update(l)
    /\ disturbed' = (disturbed \/ InFlight)
    /\ UNCHANGED <<streaming, source, chunks, batch, refVars>>

EditAndSave(i) ==
    /\ i \in EditIndex
    /\ editing' = <<"none">>
    /\ ChangeList([messages EXCEPT ![i].text = <<Note("edited")>>])

handleDeleteMessage(i) ==
    /\ ~Busy
    /\ ChangeList(RemoveAt(messages, i))
    /\ UNCHANGED editing

\* The dialog is modal and opens only when nothing is being generated.
handleClearMessages ==
    /\ ~Busy
    /\ messages # <<>>
    /\ ChangeList(<<>>)
    /\ editing' = <<"none">>

\* complete is set before close(), whose readystatechange is therefore ignored.
stopStream == complete' = TRUE /\ closeSource(current, "closed")

stopGeneration ==
    /\ Idle
    /\ Busy
    /\ stopStream
    /\ Update(handleStreamComplete(messages))
    /\ UNCHANGED <<streaming, editing, chunks, batch, changes, disturbed>>

\* Mutant: only a message that is loading is looked for.
MutantSanitizeMessagesOnLoad(l) ==
    LET S == {i \in DOMAIN l : l[i].status = "loading"} IN
    IF S = {} THEN l
    ELSE LET i == CHOOSE j \in S : \A k \in S : k <= j IN
         [l EXCEPT ![i].status = "error", ![i].text = <<Note("error")>>]

\* The last message that is loading or streaming becomes complete or an error.
sanitizeMessagesOnLoad(l) ==
    LET S == {i \in DOMAIN l : l[i].from = "assistant" /\ Unfinished(l[i])} IN
    IF S = {} THEN l
    ELSE LET i == CHOOSE j \in S : \A k \in S : k <= j IN
         IF l[i].text # <<>>
         THEN [l EXCEPT ![i].status = "complete"]
         ELSE [l EXCEPT ![i].status = "error", ![i].text = <<Note("error")>>]

\* The page is loaded again: the requests and the references are gone.
Reload ==
    /\ Change
    /\ Update(sanitizeMessagesOnLoad(saved))
    /\ editing' = <<"none">>
    /\ source' = [r \in Requests |-> IF UnderWay(r) THEN "closed" ELSE source[r]]
    /\ current' = "none"
    /\ complete' = FALSE
    /\ UNCHANGED <<streaming, chunks, batch, disturbed>>

-----------------------------------------------------------------------------
Server(r) == Progress(r) \/ ConnectionFails(r) \/ ConnectionEnds(r) \/ Respond(r)

User ==
    \/ \E r \in Requests :
          \/ handleSendMessage(r)
          \/ handleSuggestionClick(r)
          \/ \E i \in DOMAIN messages : handleRegenerateMessage(r, i) \/ EditAndSubmit(r, i)
    \/ \E i \in DOMAIN messages :
          handleEditMessage(i) \/ EditAndSave(i) \/ handleDeleteMessage(i)
    \/ handleClearMessages
    \/ stopGeneration
    \/ Reload

Next == (\E r \in Requests : Server(r)) \/ Dispatch \/ User

Spec == Init /\ [][Next]_vars

\* The server ends its streams; a callback of the browser runs to its end.
FairSpec == Spec /\ WF_vars(Dispatch) /\ \A r \in Requests : WF_vars(Server(r))

-----------------------------------------------------------------------------
(* A request that is started, or a list that is changed, while another request  *)
(* is under way breaks what follows: the callbacks of both write to the last    *)
(* message and share the references.  The page prevents it for streams, except  *)
(* for suggestions and the buttons of an edit, and not at all without streaming.*)

\* An answer is the text of its own request, in order and without gaps, and if the
\* stream ended with [DONE] it is all of it, unless the storage failed: whatever is
\* stopped, regenerated, deleted, edited, reloaded, and fails in between.
AnswersExact ==
    ~disturbed =>
        \A i \in DOMAIN messages :
            LET m == messages[i]
                r == m.key[2]
            IN  m.from = "assistant" /\ m.text \notin {<<Note("error")>>, <<Note("edited")>>} =>
                  /\ \A k \in DOMAIN m.text : m.text[k] = <<r, k>>
                  /\ m.status = "complete" /\ source[r] = "done" /\ faults = 0 =>
                        Len(m.text) = chunks[r]

\* A message that is loading or streaming is the last one, its request is the one the
\* page holds, and so it can be stopped; there is none after the page was loaded
\* again, whatever state the copy in localStorage was in.
Stoppable ==
    ~disturbed /\ Idle =>
        \A i \in DOMAIN messages : Unfinished(messages[i]) =>
            LET r == messages[i].key[2] IN
            /\ i = Len(messages)
            /\ UnderWay(r)
            /\ streaming => current = r

\* No event of a stream, nor a late one of the callback that closed it, changes an
\* answer that is complete or an error; only the user does.
FinalStaysFinal ==
    [][~disturbed' /\ changes' = changes =>
          \A i \in DOMAIN messages : messages[i].status \in {"complete", "error"} =>
              \/ i \in DOMAIN messages' /\ messages'[i] = messages[i]
              \/ \E r \in Requests : source[r] = "unused" /\ source'[r] # "unused"]_vars

\* Every answer is completed or shows an error in the end, except if the server closes
\* a stream of status 200 without its last event: the page then waits for Stop.
AnswersSettle ==
    (\E i \in DOMAIN messages : Unfinished(messages[i])) ~>
    \/ \A i \in DOMAIN messages : ~Unfinished(messages[i])
    \/ disturbed
    \/ \E r \in Requests : source[r] = "silent"
=============================================================================
