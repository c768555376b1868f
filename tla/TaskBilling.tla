----------------------------- MODULE TaskBilling -----------------------------
(***************************************************************************)
(* Billing of asynchronous tasks: submission (controller/relay.go), the    *)
(* polling loop with its timeout sweep (service/task_polling.go), refunds  *)
(* and price corrections (service/task_billing.go), the compare-and-set on *)
(* the task row (model/task.go) and the user's own query of Gemini and     *)
(* Vertex tasks (relay/relay_task.go).                                     *)
(*                                                                         *)
(* A task is paid when it is submitted.  Whoever moves its row to a final  *)
(* status corrects the price or gives it back.  The loop runs in every     *)
(* process that is not configured as a slave, for a while in two of them   *)
(* when a node is replaced; each works on copies of the rows it read.      *)
(***************************************************************************)
EXTENDS Integers, FiniteSets

CONSTANTS
    Tasks,
    Workers,     \* processes that run TaskPollingLoop
    Video,       \* tasks updated by updateVideoSingleTask; the others are Suno tasks
    Realtime,    \* Gemini and Vertex tasks, which tryRealtimeFetch updates as well
    Orphaned,    \* tasks whose channel may not be found any more
    PerCall,     \* tasks billed per call
    Estimates,   \* possible pre-consumed quotas
    Quotas,      \* possible quotas after the submission
    Prices,      \* possible final prices; 0: the adaptor makes no correction
    MaxFaults,   \* bound: failed statements and crashes
    MaxQueries   \* bound: users' queries of Gemini and Vertex tasks

ASSUME TaskAssumption ==
    /\ Video \subseteq Tasks
    /\ Realtime \subseteq Video
    /\ Orphaned \subseteq Tasks
    /\ PerCall \subseteq Tasks
    /\ Estimates \subseteq Nat
    /\ Quotas \subseteq Nat
    /\ Prices \subseteq Nat
    /\ MaxFaults \in Nat
    /\ MaxQueries \in Nat

VARIABLES
    row,         \* row[t]: tasks.status; "none", "lost": not inserted yet, or never
    full,        \* tasks with progress 100% in a row whose status is not final
    quota,       \* quota[t]: tasks.quota
    price,       \* price[t]: what the adaptor will compute on completion
    upstream,    \* upstream[t]: status of the task at the provider
    expired,     \* tasks submitted longer ago than the timeout
    phase,       \* phase[w]: position of the polling loop
    todo,        \* todo[w]: tasks of the list that are still to be handled
    copy,        \* copy[w][t]: status in the row as w read it
    item,        \* item[w]: the task being handled
    seen,        \* seen[w]: status the provider reported for it
    delta,       \* delta[w]: quota to charge, or to give back if negative
    after,       \* after[w]: where the loop goes on after the billing
    userCopy,    \* userCopy[t], userSeen[t]: the same for the user's query
    userSeen,
    queries,
    settled,     \* history: the session of the submission was settled
    fundNet,     \* history: what t took from wallet or subscription so far
    tokenNet,    \* history: what t took from the token so far
    faults

account == <<quota, price, settled, fundNet, tokenNet>>
env     == <<upstream, expired>>
worker  == <<phase, todo, copy, item, seen, delta, after>>
query   == <<userCopy, userSeen, queries>>
vars    == <<row, full, account, env, worker, query, faults>>

\* "queued" stands for NOT_START, SUBMITTED and QUEUED.  Of tasks.progress only 100%
\* decides anything, and only in a row that is not final.
Final    == {"success", "failure"}
Pending  == {"queued", "in_progress"}
Statuses == Pending \cup Final

TypeOK ==
    /\ row \in [Tasks -> Statuses \cup {"none", "lost"}]
    /\ full \subseteq Tasks
    /\ quota \in [Tasks -> Nat]
    /\ price \in [Tasks -> Nat]
    /\ upstream \in [Tasks -> Statuses]
    /\ expired \subseteq Tasks
    /\ phase \in [Workers -> {"idle", "sweep", "poll", "fetched", "fund", "token",
                           "save", "save_full"}]
    /\ todo \in [Workers -> SUBSET Tasks]
    /\ copy \in [Workers -> [Tasks -> Statuses \cup {"none", "lost"}]]
    /\ item \in [Workers -> Tasks]
    /\ seen \in [Workers -> Statuses]
    /\ delta \in [Workers -> Int]
    /\ after \in [Workers -> {"sweep", "poll", "save", "save_full"}]
    /\ userCopy \in [Tasks -> Statuses \cup {"none"}]
    /\ userSeen \in [Tasks -> Statuses]
    /\ queries \in 0 .. MaxQueries
    /\ settled \in [Tasks -> BOOLEAN]
    /\ fundNet \in [Tasks -> Int]
    /\ tokenNet \in [Tasks -> Int]
    /\ faults \in 0 .. MaxFaults

Init ==
    /\ row = [t \in Tasks |-> "none"]
    /\ full = {}
    /\ quota = [t \in Tasks |-> 0]
    /\ price = [t \in Tasks |-> 0]
    /\ upstream = [t \in Tasks |-> "queued"]
    /\ expired = {}
    /\ phase = [w \in Workers |-> "idle"]
    /\ todo = [w \in Workers |-> {}]
    /\ copy = [w \in Workers |-> [t \in Tasks |-> "none"]]
    /\ item \in [Workers -> Tasks]
    /\ seen = [w \in Workers |-> "queued"]
    /\ delta = [w \in Workers |-> 0]
    /\ after = [w \in Workers |-> "poll"]
    /\ userCopy = row
    /\ userSeen = upstream
    /\ queries = 0
    /\ settled = [t \in Tasks |-> FALSE]
    /\ fundNet = [t \in Tasks |-> 0]
    /\ tokenNet = [t \in Tasks |-> 0]
    /\ faults = 0

Fault == faults < MaxFaults /\ faults' = faults + 1


\* What GetTimedOutUnfinishedTasks and GetAllUnFinishSyncTasks select: neither final
\* nor at 100%.
Unfinished == {t \in Tasks : row[t] \in Pending} \ full

-----------------------------------------------------------------------------
(* Submission *)

\* RelayTask: the session holds the estimate e and is settled at q, unless that
\* fails for the funding or the token; the task is inserted in either case, and
\* the session stays settled when the insert fails.
SubmitTask(t) ==
    \E e \in Estimates, q \in Quotas, p \in Prices, ok \in BOOLEAN, stored \in BOOLEAN :
        /\ row[t] = "none"
        /\ faults' = faults + (IF ok THEN 0 ELSE 1) + (IF stored THEN 0 ELSE 1)
        /\ faults' <= MaxFaults
        /\ row' = [row EXCEPT ![t] = IF stored THEN "queued" ELSE "lost"]
        /\ quota' = [quota EXCEPT ![t] = q]
        /\ price' = [price EXCEPT ![t] = p]
        /\ settled' = [settled EXCEPT ![t] = ok]
        /\ \E f, k \in {e, q} :
              /\ ok => f = q /\ k = q
              /\ fundNet' = [fundNet EXCEPT ![t] = f]
              /\ tokenNet' = [tokenNet EXCEPT ![t] = k]
        /\ UNCHANGED <<full, env, worker, query>>

\* The provider works on the task, and does so whether anybody asks or not.
UpstreamMoves(t) ==
    \E s \in Statuses :
        /\ row[t] \in Statuses
        /\ \/ upstream[t] = "queued" /\ s # "queued"
           \/ upstream[t] = "in_progress" /\ s \in Final
        /\ upstream' = [upstream EXCEPT ![t] = s]
        /\ UNCHANGED <<row, full, account, expired, worker, query, faults>>

TimeoutPasses(t) ==
    /\ row[t] \in Statuses
    /\ t \notin expired
    /\ expired' = expired \cup {t}
    /\ UNCHANGED <<row, full, account, upstream, worker, query, faults>>

-----------------------------------------------------------------------------
(* The accounting of a task that was moved to a final status *)

\* settleTaskBillingOnComplete: the price after the correction.
FinalPrice(t) == IF t \in PerCall \/ price[t] = 0 THEN quota[t] ELSE price[t]

\* Mutant: only refunds are done.
MutantBill(w, t, n, next) ==
    /\ item' = [item EXCEPT ![w] = t]
    /\ delta' = [delta EXCEPT ![w] = n]
    /\ after' = [after EXCEPT ![w] = next]
    /\ phase' = [phase EXCEPT ![w] = IF n >= 0 THEN next ELSE "fund"]

\* RefundTaskQuota and RecalculateTaskQuota start with the funding; n = 0 is no work.
Bill(w, t, n, next) ==
    /\ item' = [item EXCEPT ![w] = t]
    /\ delta' = [delta EXCEPT ![w] = n]
    /\ after' = [after EXCEPT ![w] = next]
    /\ phase' = [phase EXCEPT ![w] = IF n = 0 THEN next ELSE "fund"]

\* taskAdjustFunding; on an error, reported before or after the effect, the token
\* is left alone.
AdjustFunding(w) ==
    LET charged == [fundNet EXCEPT ![item[w]] = @ + delta[w]] IN
    /\ phase[w] = "fund"
    /\ \/ /\ fundNet' = charged
          /\ phase' = [phase EXCEPT ![w] = "token"]
          /\ UNCHANGED faults
       \/ /\ Fault
          /\ fundNet' \in {fundNet, charged}
          /\ phase' = [phase EXCEPT ![w] = after[w]]
    /\ UNCHANGED <<row, full, quota, price, settled, tokenNet, env, todo, copy, item, seen, delta,
                   after, query>>

\* taskAdjustTokenQuota; nothing is done when the token was deleted.
AdjustToken(w) ==
    /\ phase[w] = "token"
    /\ \/ /\ tokenNet' = [tokenNet EXCEPT ![item[w]] = @ + delta[w]]
          /\ UNCHANGED faults
       \/ Fault /\ UNCHANGED tokenNet
    /\ phase' = [phase EXCEPT ![w] = after[w]]
    /\ UNCHANGED <<row, full, quota, price, settled, fundNet, env, todo, copy, item, seen, delta,
                   after, query>>

-----------------------------------------------------------------------------
(* TaskPollingLoop *)

\* The progress that is written with a status; done: it is 100%.
Filled(t, to, done) == IF to \in Pending /\ done THEN full \cup {t} ELSE full \ {t}

\* Mutant: the update has no condition on the status.
MutantUpdateWithStatus(t, from, to, done) ==
    /\ row' = [row EXCEPT ![t] = to]
    /\ full' = Filled(t, to, done)

\* UPDATE tasks ... WHERE id = ? AND status = from
UpdateWithStatus(t, from, to, done) ==
    /\ row' = [row EXCEPT ![t] = IF @ = from THEN to ELSE @]
    /\ full' = IF row[t] = from THEN Filled(t, to, done) ELSE full

\* The rows-affected count of that update.
Won(t, from) == row[t] = from

\* A list of tasks is read into memory ...
ReadTasks(w, ts) ==
    /\ todo' = [todo EXCEPT ![w] = ts]
    /\ copy' = [copy EXCEPT ![w] = [t \in Tasks |-> IF t \in ts THEN row[t] ELSE "none"]]

\* ... and forgotten with the other variables of a round.
EndRound(w) ==
    /\ phase' = [phase EXCEPT ![w] = "idle"]
    /\ ReadTasks(w, {})
    /\ seen' = [seen EXCEPT ![w] = "queued"]
    /\ delta' = [delta EXCEPT ![w] = 0]
    /\ after' = [after EXCEPT ![w] = "poll"]
    /\ UNCHANGED <<row, full, account, env, item, query>>

\* sweepTimedOutTasks reads its list.
StartSweep(w) ==
    /\ phase[w] = "idle"
    /\ phase' = [phase EXCEPT ![w] = "sweep"]
    /\ ReadTasks(w, Unfinished \cap expired)
    /\ UNCHANGED <<row, full, account, env, item, seen, delta, after, query, faults>>

\* One task of the list: the winner of the update gives the quota back.  After an
\* error nobody does, also if the update took effect.
SweepTask(w, t) ==
    /\ phase[w] = "sweep" /\ t \in todo[w]
    /\ todo' = [todo EXCEPT ![w] = @ \ {t}]
    /\ \/ /\ UpdateWithStatus(t, copy[w][t], "failure", TRUE)
          /\ Bill(w, t, IF Won(t, copy[w][t]) THEN -quota[t] ELSE 0, "sweep")
          /\ UNCHANGED faults
       \/ /\ Fault
          /\ UpdateWithStatus(t, copy[w][t], "failure", TRUE) \/ UNCHANGED <<row, full>>
          /\ Bill(w, t, 0, "sweep")
    /\ UNCHANGED <<account, env, copy, seen, query>>

\* The unfinished tasks are read after the sweep.
StartPoll(w) ==
    /\ phase[w] = "sweep" /\ todo[w] = {}
    /\ phase' = [phase EXCEPT ![w] = "poll"]
    /\ ReadTasks(w, Unfinished)
    /\ UNCHANGED <<row, full, account, env, item, seen, delta, after, query, faults>>

\* The channel is not found: TaskBulkUpdateByID, without a condition or a refund.
FailWithoutChannel(w, t) ==
    /\ phase[w] = "poll" /\ t \in todo[w] \cap Orphaned
    /\ todo' = [todo EXCEPT ![w] = @ \ {t}]
    /\ \/ /\ row' = [row EXCEPT ![t] = "failure"]
          /\ full' = Filled(t, "failure", TRUE)
          /\ UNCHANGED faults
       \/ UNCHANGED <<row, full>> /\ Fault
    /\ UNCHANGED <<account, env, phase, copy, item, seen, delta, after, query>>

\* FetchTask reads the provider's status; an error message in place of a status
\* counts as failure for a video task, a missing status as the old one for Suno ...
FetchTask(w, t) ==
    /\ phase[w] = "poll" /\ t \in todo[w]
    /\ todo' = [todo EXCEPT ![w] = @ \ {t}]
    /\ item' = [item EXCEPT ![w] = t]
    /\ \E s \in Statuses :
           /\ \/ s = upstream[t]
              \/ t \in Video /\ s = "failure"
              \/ t \notin Video /\ s = copy[w][t]
           /\ seen' = [seen EXCEPT ![w] = s]
    /\ phase' = [phase EXCEPT ![w] = "fetched"]
    /\ UNCHANGED <<row, full, account, env, copy, delta, after, query, faults>>

\* ... or fails, is rate-limited, cannot be parsed or has an unknown status: the
\* task waits for the next round.
FetchFails(w, t) ==
    /\ phase[w] = "poll" /\ t \in todo[w]
    /\ todo' = [todo EXCEPT ![w] = @ \ {t}]
    /\ UNCHANGED <<row, full, account, env, phase, copy, item, seen, delta, after, query, faults>>

\* Mutant: the loser of the update does the accounting as well.
MutantVideoDelta(w, t) ==
    IF seen[w] = "success" THEN FinalPrice(t) - quota[t]
    ELSE IF seen[w] = "failure" THEN -quota[t] ELSE 0

\* What the winner of the update has to charge.
VideoDelta(w, t) ==
    IF ~Won(t, copy[w][t]) THEN 0
    ELSE IF seen[w] = "success" THEN FinalPrice(t) - quota[t]
    ELSE IF seen[w] = "failure" THEN -quota[t] ELSE 0

\* updateVideoSingleTask after the fetch.  The copy is unfinished, so a final
\* status always differs from it.  The progress the provider reports is stored as it
\* is, 100% of an unfinished task included; without any change nothing is written.
UpdateVideoTask(w) ==
    LET t == item[w] IN
    /\ phase[w] = "fetched" /\ t \in Video
    /\ \/ /\ \E done \in BOOLEAN : UpdateWithStatus(t, copy[w][t], seen[w], done)
          /\ Bill(w, t, VideoDelta(w, t), "poll")
          /\ UNCHANGED faults
       \/ /\ seen[w] = copy[w][t]
          /\ Bill(w, t, 0, "poll")
          /\ UNCHANGED <<row, full, faults>>
       \/ /\ Fault
          /\ \/ \E done \in BOOLEAN : UpdateWithStatus(t, copy[w][t], seen[w], done)
             \/ UNCHANGED <<row, full>>
          /\ Bill(w, t, 0, "poll")
    /\ UNCHANGED <<account, env, todo, copy, seen, query>>

\* Mutant: a failed task is saved without a refund.
MutantUpdateSunoTask(w) ==
    /\ phase[w] = "fetched" /\ item[w] \notin Video
    /\ Bill(w, item[w], 0, IF seen[w] = "failure" THEN "save_full" ELSE "save")
    /\ UNCHANGED <<row, full, account, env, todo, copy, seen, query, faults>>

\* updateSunoTasks after the fetch: the refund comes first, then the row is saved.  A
\* reason makes it a failure whatever the status: refunded and at 100%, but the status
\* is saved as reported.  Without any change the task is left alone.
UpdateSunoTask(w) ==
    LET t == item[w] IN
    /\ phase[w] = "fetched" /\ t \notin Video
    /\ \/ seen[w] = copy[w][t] /\ Bill(w, t, 0, "poll")
       \/ seen[w] # "failure" /\ Bill(w, t, 0, "save")
       \/ Bill(w, t, -quota[t], "save_full")
    /\ UNCHANGED <<row, full, account, env, todo, copy, seen, query, faults>>

\* Task.Update: the whole row, without a condition.
SaveTask(w) ==
    /\ phase[w] \in {"save", "save_full"}
    /\ \/ /\ row' = [row EXCEPT ![item[w]] = seen[w]]
          /\ full' = Filled(item[w], seen[w], phase[w] = "save_full")
          /\ UNCHANGED faults
       \/ UNCHANGED <<row, full>> /\ Fault
    /\ phase' = [phase EXCEPT ![w] = "poll"]
    /\ UNCHANGED <<account, env, todo, copy, item, seen, delta, after, query>>

EndPoll(w) ==
    /\ phase[w] = "poll" /\ todo[w] = {}
    /\ EndRound(w)
    /\ UNCHANGED faults

\* The process dies and its successor starts over.
Crash(w) ==
    /\ phase[w] # "idle"
    /\ Fault
    /\ EndRound(w)

-----------------------------------------------------------------------------
(* tryRealtimeFetch: the user asks for the task, finished or not *)

RealtimeFetch(t) ==
    /\ t \in Realtime
    /\ row[t] \in Statuses /\ userCopy[t] = "none"
    /\ queries < MaxQueries /\ queries' = queries + 1
    /\ userCopy' = [userCopy EXCEPT ![t] = row[t]]
    /\ userSeen' = [userSeen EXCEPT ![t] = upstream[t]]
    /\ UNCHANGED <<row, full, account, env, worker, faults>>

\* The status is stored as it is, without any accounting, unless nothing changed or
\* the update fails.  The two adaptors report 100% with a final status only.
RealtimeUpdate(t) ==
    /\ userCopy[t] # "none"
    /\ UpdateWithStatus(t, userCopy[t], userSeen[t], FALSE) \/ UNCHANGED <<row, full>>
    /\ userCopy' = [userCopy EXCEPT ![t] = "none"]
    /\ userSeen' = [userSeen EXCEPT ![t] = "queued"]
    /\ UNCHANGED <<account, env, worker, queries, faults>>

-----------------------------------------------------------------------------

WorkerStep(w) ==
    \/ StartSweep(w) \/ StartPoll(w) \/ EndPoll(w)
    \/ \E t \in Tasks : \/ SweepTask(w, t) \/ FetchTask(w, t) \/ FetchFails(w, t)
                        \/ FailWithoutChannel(w, t)
    \/ UpdateVideoTask(w) \/ UpdateSunoTask(w) \/ SaveTask(w)
    \/ AdjustFunding(w) \/ AdjustToken(w)

Next ==
    \/ \E t \in Tasks : SubmitTask(t) \/ UpstreamMoves(t) \/ TimeoutPasses(t)
    \/ \E w \in Workers : WorkerStep(w) \/ Crash(w)
    \/ \E t \in Tasks : RealtimeFetch(t) \/ RealtimeUpdate(t)

Spec == Init /\ [][Next]_vars

\* The loop runs every 15 seconds, and time passes.
FairSpec ==
    /\ Spec
    /\ \A w \in Workers : WF_vars(WorkerStep(w))
    /\ \A t \in Tasks : WF_vars(TimeoutPasses(t))

-----------------------------------------------------------------------------
(* Properties *)

\* The tasks whose status is only moved by the compare-and-set of the loop.
Guarded == Video \ (Realtime \cup Orphaned)

\* What a task costs in the end.
Due(t) == CASE row[t] = "failure" -> 0
            [] row[t] = "success" -> FinalPrice(t)
            [] OTHER -> quota[t]

Billing(t) == \E w \in Workers : phase[w] \in {"fund", "token"} /\ item[w] = t

(* However many loops, sweeps and crashes meet on a task, its accounting   *)
(* is done at most once and follows the status in the row: the funding has *)
(* the submitted quota or what the final status makes due, and never a     *)
(* second refund or a correction of a refunded task.                       *)
BilledOnce ==
    \A t \in Guarded : settled[t] =>
        /\ fundNet[t] \in {quota[t], Due(t)}
        /\ tokenNet[t] \in {quota[t], Due(t)}

(* As long as no statement failed, a task that nobody is billing has been  *)
(* charged exactly what is due, on both sides: no task is left out because *)
(* both loops thought the other one would do it.                           *)
BilledExactly ==
    faults = 0 => \A t \in Guarded :
        row[t] \in Statuses /\ ~Billing(t) => fundNet[t] = Due(t) /\ tokenNet[t] = Due(t)

(* The accounting is final because the status is: no stale copy moves a    *)
(* task out of success or failure.                                         *)
FinalStaysFinal ==
    [][\A t \in Guarded : row[t] \in Final => row'[t] = row[t]]_vars


(* No task gives back more than it took.                                   *)
NoDoubleRefund == \A t \in Tasks : fundNet[t] >= 0

(* A failed task has been given its quota back once the loops are through  *)
(* with it, also a Suno task that failed by its reason only, unless a      *)
(* statement failed or a user's query moved its status.  And a save that   *)
(* fails, or a crash, between the refund and the save of a Suno task costs *)
(* at most one refund more: never two for one fault.  It needs every       *)
(* channel to be found, and for Suno tasks a single loop: two of them may  *)
(* each refund before either saves the row.                                *)
FailedTaskRefunded ==
    \A t \in Tasks \ Realtime :
        /\ faults = 0 /\ ~Billing(t) /\ (row[t] = "failure" \/ t \in full \ Video) =>
              fundNet[t] = 0
        /\ settled[t] => fundNet[t] >= -(faults * quota[t])
=============================================================================
