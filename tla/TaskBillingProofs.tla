-------------------------- MODULE TaskBillingProofs --------------------------
(***************************************************************************)
(* Proofs about TaskBilling, for any number of tasks and polling loops,    *)
(* any prices, and any number of failures, crashes and queries.            *)
(*                                                                         *)
(* That a task is billed once rests on three facts: every copy a loop      *)
(* still works on says that the task is unfinished, so that whoever wins   *)
(* the compare-and-set finds a task nobody has billed; a task in a final   *)
(* status is not moved any more; and the one loop that is billing a task   *)
(* carries exactly the difference that its status makes due.               *)
(***************************************************************************)
EXTENDS TaskBilling, TLAPS

\* Where a loop goes on after the accounting, and where it can be.
Places == {"sweep", "poll", "save", "save_full"}
Phases == {"idle", "fetched", "fund", "token"} \cup Places

\* w is in the middle of the accounting of t.
BillsTask(w, t) == phase[w] \in {"fund", "token"} /\ item[w] = t

\* Loops work on copies of unfinished tasks.
CopiesUnfinished ==
    \A w \in Workers :
        /\ \A t \in todo[w] : copy[w][t] \in Pending
        /\ phase[w] = "fetched" => copy[w][item[w]] \in Pending

\* Only Suno tasks are saved without a condition.
OnlySunoSaved ==
    \A w \in Workers :
        \/ phase[w] \in {"save", "save_full"}
        \/ phase[w] \in {"fund", "token"} /\ after[w] \in {"save", "save_full"}
        => item[w] \notin Video

OnlyRealtimeQueried == \A t \in Tasks : userCopy[t] # "none" => t \in Realtime

\* The loop that bills t is the only one, and what it has not yet charged is due.
Ledger(t) ==
    /\ \A w \in Workers : BillsTask(w, t) =>
          /\ row[t] \in Final
          /\ delta[w] = Due(t) - quota[t]
          /\ settled[t] => tokenNet[t] = quota[t]
          /\ settled[t] /\ phase[w] = "fund" => fundNet[t] = quota[t]
    /\ \A v, w \in Workers : BillsTask(v, t) /\ BillsTask(w, t) => v = w
    /\ settled[t] => fundNet[t] \in {quota[t], Due(t)} /\ tokenNet[t] \in {quota[t], Due(t)}

IInv ==
    /\ TypeOK
    /\ CopiesUnfinished
    /\ OnlySunoSaved
    /\ OnlyRealtimeQueried
    /\ \A t \in Guarded : Ledger(t)

-----------------------------------------------------------------------------
(* Init *)

(* The initial states satisfy the invariant. *)
LEMMA IInvInit == Init => IInv
<1> SUFFICES ASSUME Init PROVE IInv
  OBVIOUS
<1> USE TaskAssumption DEF Init
<1>1. TypeOK
  BY DEF TypeOK, Statuses, Pending, Final
<1>2. CopiesUnfinished /\ OnlySunoSaved /\ OnlyRealtimeQueried
  BY DEF CopiesUnfinished, OnlySunoSaved, OnlyRealtimeQueried
<1>3. ASSUME NEW t \in Guarded PROVE Ledger(t)
  BY DEF Ledger, BillsTask, Guarded
<1>4. QED
  BY <1>1, <1>2, <1>3 DEF IInv

-----------------------------------------------------------------------------
(* The steps *)

(* Starting or skipping the accounting keeps the types of the loop's variables. *)
LEMMA BillType ==
    ASSUME TypeOK, NEW w \in Workers, NEW t \in Tasks, NEW n \in Int,
           NEW next \in Places, Bill(w, t, n, next)
    PROVE  /\ item' \in [Workers -> Tasks]
           /\ delta' \in [Workers -> Int]
           /\ after' \in [Workers -> Places]
           /\ phase' \in [Workers -> Phases]
BY DEF Bill, TypeOK, Places, Phases

(* A compare-and-set to a status keeps the type of the rows. *)
LEMMA UpdateType ==
    ASSUME TypeOK, NEW t \in Tasks, NEW from, NEW to \in Statuses, NEW done,
           UpdateWithStatus(t, from, to, done)
    PROVE  row' \in [Tasks -> Statuses \cup {"none", "lost"}] /\ full' \subseteq Tasks
BY DEF UpdateWithStatus, Filled, TypeOK

(* ... and leaves the other rows alone. *)
LEMMA UpdateElsewhere ==
    ASSUME TypeOK, NEW t, NEW s \in Tasks, t # s, NEW from, NEW to, NEW done,
           UpdateWithStatus(t, from, to, done)
    PROVE  row'[s] = row[s] /\ (s \in full' <=> s \in full)
BY DEF UpdateWithStatus, Filled, TypeOK

(* Every step keeps the types. *)
LEMMA TypeStep == IInv /\ [Next]_vars => TypeOK'
<1> SUFFICES ASSUME IInv, [Next]_vars PROVE TypeOK'
  OBVIOUS
<1> USE TaskAssumption DEF IInv, TypeOK, Statuses, Pending, Final, account, env, worker, query,
        Phases, Places
<1>1. ASSUME NEW t \in Tasks, SubmitTask(t) PROVE TypeOK'
  BY <1>1 DEF SubmitTask
<1>2. ASSUME NEW t \in Tasks, UpstreamMoves(t) PROVE TypeOK'
  BY <1>2 DEF UpstreamMoves
<1>3. ASSUME NEW t \in Tasks, TimeoutPasses(t) PROVE TypeOK'
  BY <1>3 DEF TimeoutPasses
<1>4. ASSUME NEW w \in Workers, StartSweep(w) PROVE TypeOK'
  BY <1>4 DEF StartSweep, ReadTasks, Unfinished
<1>5. ASSUME NEW w \in Workers, StartPoll(w) PROVE TypeOK'
  BY <1>5 DEF StartPoll, ReadTasks, Unfinished
<1>6. ASSUME NEW w \in Workers, EndPoll(w) PROVE TypeOK'
  BY <1>6 DEF EndPoll, EndRound, ReadTasks
<1>7. ASSUME NEW w \in Workers, NEW t \in Tasks, SweepTask(w, t) PROVE TypeOK'
  <2>1. -quota[t] \in Int /\ "failure" \in Statuses
    OBVIOUS
  <2>2. PICK n \in Int : Bill(w, t, n, "sweep")
    <3>1. 0 \in Int
      OBVIOUS
    <3>2. QED
      BY <1>7, <2>1, <3>1, Zenon DEF SweepTask
  <2>3. row' \in [Tasks -> Statuses \cup {"none", "lost"}] /\ full' \subseteq Tasks
    BY <1>7, <2>1, UpdateType DEF SweepTask
  <2>4. QED
    <3>1. todo' \in [Workers -> SUBSET Tasks] /\ faults' \in 0 .. MaxFaults
      <4>1. todo' = [todo EXCEPT ![w] = todo[w] \ {t}] /\ (UNCHANGED faults \/ Fault)
        BY <1>7, Zenon DEF SweepTask
      <4>2. QED
        BY <4>1 DEF Fault
    <3>2. UNCHANGED <<account, env, copy, seen, query>>
      BY <1>7 DEF SweepTask
    <3>3. QED
      BY <2>2, <2>3, <3>1, <3>2, BillType
<1>8. ASSUME NEW w \in Workers, NEW t \in Tasks, FetchTask(w, t) PROVE TypeOK'
  BY <1>8 DEF FetchTask
<1>9. ASSUME NEW w \in Workers, NEW t \in Tasks, FetchFails(w, t) PROVE TypeOK'
  BY <1>9 DEF FetchFails
<1>10. ASSUME NEW w \in Workers, NEW t \in Tasks, FailWithoutChannel(w, t) PROVE TypeOK'
  <2>1. row' \in [Tasks -> Statuses \cup {"none", "lost"}] /\ full' \subseteq Tasks
    BY <1>10 DEF FailWithoutChannel, Filled
  <2>2. todo' \in [Workers -> SUBSET Tasks] /\ faults' \in 0 .. MaxFaults
    <3>1. todo' = [todo EXCEPT ![w] = todo[w] \ {t}] /\ (UNCHANGED faults \/ Fault)
      BY <1>10, Zenon DEF FailWithoutChannel
    <3>2. QED
      BY <3>1 DEF Fault
  <2>3. QED
    BY <1>10, <2>1, <2>2 DEF FailWithoutChannel
<1>11. ASSUME NEW w \in Workers, UpdateVideoTask(w) PROVE TypeOK'
  <2>1. VideoDelta(w, item[w]) \in Int
    BY DEF VideoDelta, FinalPrice
  <2>2. QED
    <3>1. PICK n \in Int : Bill(w, item[w], n, "poll")
      BY <1>11, <2>1 DEF UpdateVideoTask
    <3>2. row' \in [Tasks -> Statuses \cup {"none", "lost"}] /\ full' \subseteq Tasks
      BY <1>11, UpdateType DEF UpdateVideoTask
    <3>3. QED
      BY <1>11, <3>1, <3>2, BillType DEF UpdateVideoTask, Fault
<1>12. ASSUME NEW w \in Workers, UpdateSunoTask(w) PROVE TypeOK'
  <2>1. -quota[item[w]] \in Int
    OBVIOUS
  <2>2. PICK n \in Int, next \in Places : Bill(w, item[w], n, next)
    BY <1>12, <2>1 DEF UpdateSunoTask
  <2>3. QED
    BY <1>12, <2>2, BillType DEF UpdateSunoTask
<1>13. ASSUME NEW w \in Workers, SaveTask(w) PROVE TypeOK'
  <2>1. row' \in [Tasks -> Statuses \cup {"none", "lost"}] /\ full' \subseteq Tasks
    <3>1. \/ UNCHANGED <<row, full>>
          \/ /\ row' = [row EXCEPT ![item[w]] = seen[w]]
             /\ full' \in {full \cup {item[w]}, full \ {item[w]}}
      BY <1>13 DEF SaveTask, Filled
    <3>2. QED
      BY <3>1
  <2>2. phase' \in [Workers -> Phases]
    BY <1>13 DEF SaveTask
  <2>3. QED
    BY <1>13, <2>1, <2>2 DEF SaveTask, Fault
<1>14. ASSUME NEW w \in Workers, AdjustFunding(w) PROVE TypeOK'
  <2>1. [fundNet EXCEPT ![item[w]] = @ + delta[w]] \in [Tasks -> Int]
    OBVIOUS
  <2>2. phase' \in [Workers -> Phases]
    <3>1. PICK p \in {"token"} \cup Places : phase' = [phase EXCEPT ![w] = p]
      BY <1>14 DEF AdjustFunding
    <3>2. QED
      BY <3>1
  <2>3. QED
    <3>1. fundNet' \in [Tasks -> Int] /\ faults' \in 0 .. MaxFaults
      BY <1>14, <2>1 DEF AdjustFunding, Fault
    <3>2. QED
      BY <1>14, <2>2, <3>1 DEF AdjustFunding
<1>15. ASSUME NEW w \in Workers, AdjustToken(w) PROVE TypeOK'
  BY <1>15 DEF AdjustToken, Fault
<1>16. ASSUME NEW w \in Workers, Crash(w) PROVE TypeOK'
  BY <1>16 DEF Crash, Fault, EndRound, ReadTasks
<1>17. ASSUME NEW t \in Tasks, RealtimeFetch(t) PROVE TypeOK'
  BY <1>17 DEF RealtimeFetch
<1>18. ASSUME NEW t \in Tasks, RealtimeUpdate(t) PROVE TypeOK'
  <2>1. row' \in [Tasks -> Statuses \cup {"none", "lost"}] /\ full' \subseteq Tasks
    BY <1>18, UpdateType DEF RealtimeUpdate
  <2>2. QED
    BY <1>18, <2>1 DEF RealtimeUpdate
<1>19. CASE UNCHANGED vars
  BY <1>19 DEF vars
<1>20. QED
  BY <1>1, <1>2, <1>3, <1>4, <1>5, <1>6, <1>7, <1>8, <1>9, <1>10, <1>11, <1>12, <1>13, <1>14,
     <1>15, <1>16, <1>17, <1>18, <1>19 DEF Next, WorkerStep

(* A loop only works on copies of unfinished tasks, only Suno tasks are    *)
(* saved without a condition, and only Gemini and Vertex tasks are queried *)
(* at the provider by users.                                               *)
LEMMA CopiesStep ==
    IInv /\ [Next]_vars => CopiesUnfinished' /\ OnlySunoSaved' /\ OnlyRealtimeQueried'
<1> DEFINE Parts == CopiesUnfinished /\ OnlySunoSaved /\ OnlyRealtimeQueried
<1> SUFFICES ASSUME IInv, [Next]_vars PROVE Parts'
  OBVIOUS
<1> USE TaskAssumption DEF IInv, TypeOK, CopiesUnfinished, OnlySunoSaved, OnlyRealtimeQueried,
        account, env, worker, query
<1>1. ASSUME NEW t \in Tasks, SubmitTask(t) PROVE Parts'
  BY <1>1 DEF SubmitTask
<1>2. ASSUME NEW t \in Tasks, UpstreamMoves(t) \/ TimeoutPasses(t) PROVE Parts'
  BY <1>2 DEF UpstreamMoves, TimeoutPasses
<1>3. ASSUME NEW w \in Workers, StartSweep(w) PROVE Parts'
  BY <1>3 DEF StartSweep, ReadTasks, Unfinished
<1>4. ASSUME NEW w \in Workers, StartPoll(w) PROVE Parts'
  BY <1>4 DEF StartPoll, ReadTasks, Unfinished
<1>5. ASSUME NEW w \in Workers, EndPoll(w) \/ Crash(w) PROVE Parts'
  <2>1. /\ phase' = [phase EXCEPT ![w] = "idle"]
        /\ todo' = [todo EXCEPT ![w] = {}]
        /\ \A v \in Workers \ {w} : copy'[v] = copy[v] /\ after'[v] = after[v]
        /\ UNCHANGED <<item, query>>
    BY <1>5 DEF EndPoll, Crash, EndRound, ReadTasks
  <2>2. QED
    BY <2>1
<1>6. ASSUME NEW w \in Workers, NEW t \in Tasks, SweepTask(w, t) PROVE Parts'
  <2>1. PICK n : Bill(w, t, n, "sweep")
    BY <1>6 DEF SweepTask
  <2>2. QED
    BY <1>6, <2>1 DEF SweepTask, Bill
<1>7. ASSUME NEW w \in Workers, NEW t \in Tasks, FetchTask(w, t) PROVE Parts'
  BY <1>7 DEF FetchTask
<1>8. ASSUME NEW w \in Workers, NEW t \in Tasks, FetchFails(w, t) \/ FailWithoutChannel(w, t)
      PROVE Parts'
  <2>1. /\ todo' = [todo EXCEPT ![w] = @ \ {t}]
        /\ UNCHANGED <<phase, copy, item, after, query>>
    BY <1>8 DEF FetchFails, FailWithoutChannel
  <2>2. QED
    BY <2>1
<1>9. ASSUME NEW w \in Workers, UpdateVideoTask(w) PROVE Parts'
  <2>1. PICK n : Bill(w, item[w], n, "poll")
    BY <1>9 DEF UpdateVideoTask
  <2>2. QED
    BY <1>9, <2>1 DEF UpdateVideoTask, Bill
<1>10. ASSUME NEW w \in Workers, UpdateSunoTask(w) PROVE Parts'
  <2>1. PICK n : \E next \in Places : Bill(w, item[w], n, next)
    BY <1>10 DEF UpdateSunoTask, Places
  <2>2. item[w] \notin Video /\ UNCHANGED <<todo, copy, query>>
    BY <1>10 DEF UpdateSunoTask
  <2>3. CopiesUnfinished'
    <3>1. phase'[w] # "fetched" /\ \A v \in Workers \ {w} : UNCHANGED <<phase[v], item[v]>>
      BY <2>1 DEF Bill, Places
    <3>2. QED
      BY <2>2, <3>1
  <2>4. OnlySunoSaved'
    BY <2>1, <2>2 DEF Bill
  <2>5. QED
    BY <2>2, <2>3, <2>4
<1>11. ASSUME NEW w \in Workers, SaveTask(w) PROVE Parts'
  BY <1>11 DEF SaveTask
<1>12. ASSUME NEW w \in Workers, AdjustFunding(w) \/ AdjustToken(w) PROVE Parts'
  <2>1. /\ phase[w] \in {"fund", "token"}
        /\ phase' \in {[phase EXCEPT ![w] = "token"], [phase EXCEPT ![w] = after[w]]}
        /\ UNCHANGED <<todo, copy, item, after, query>>
    BY <1>12 DEF AdjustFunding, AdjustToken
  <2>2. QED
    BY <2>1, ZenonT(60)
<1>13. ASSUME NEW t \in Tasks, RealtimeFetch(t) PROVE Parts'
  BY <1>13 DEF RealtimeFetch
<1>14. ASSUME NEW t \in Tasks, RealtimeUpdate(t) PROVE Parts'
  BY <1>14 DEF RealtimeUpdate
<1>15. CASE UNCHANGED vars
  BY <1>15 DEF vars
<1>16. QED
  BY <1>1, <1>2, <1>3, <1>4, <1>5, <1>6, <1>7, <1>8, <1>9, <1>10, <1>11, <1>12, <1>13, <1>14,
     <1>15 DEF Next, WorkerStep


(* No step moves a guarded task out of a final status: every copy that is  *)
(* compared with the row is of an unfinished task.                         *)
LEMMA FinalStep ==
    ASSUME IInv, [Next]_vars, NEW s \in Guarded, row[s] \in Final
    PROVE  row'[s] = row[s] /\ UNCHANGED <<quota[s], price[s], settled[s]>>
<1> USE TaskAssumption DEF IInv, TypeOK, CopiesUnfinished, OnlySunoSaved, OnlyRealtimeQueried,
        account, env, worker, query, Guarded, Statuses, Pending, Final
<1> DEFINE Kept == row'[s] = row[s] /\ UNCHANGED <<quota[s], price[s], settled[s]>>
<1>1. ASSUME NEW t \in Tasks, SubmitTask(t) PROVE Kept
  BY <1>1 DEF SubmitTask
<1>2. ASSUME NEW t \in Tasks, UpstreamMoves(t) \/ TimeoutPasses(t) PROVE Kept
  BY <1>2 DEF UpstreamMoves, TimeoutPasses
<1>3. ASSUME NEW w \in Workers, StartSweep(w) \/ StartPoll(w) PROVE Kept
  BY <1>3 DEF StartSweep, StartPoll
<1>4. ASSUME NEW w \in Workers, EndPoll(w) \/ Crash(w) PROVE Kept
  BY <1>4 DEF EndPoll, Crash, EndRound, ReadTasks
<1>5. ASSUME NEW w \in Workers, NEW t \in Tasks, SweepTask(w, t) PROVE Kept
  <2>1. row' \in {row, [row EXCEPT ![t] = IF @ = copy[w][t] THEN "failure" ELSE @]}
    BY <1>5 DEF SweepTask, UpdateWithStatus
  <2>2. copy[w][t] \in Pending /\ UNCHANGED account
    BY <1>5 DEF SweepTask
  <2>3. QED
    BY <2>1, <2>2
<1>6. ASSUME NEW w \in Workers, NEW t \in Tasks, FetchTask(w, t) \/ FetchFails(w, t) PROVE Kept
  BY <1>6 DEF FetchTask, FetchFails
<1>7. ASSUME NEW w \in Workers, NEW t \in Tasks, FailWithoutChannel(w, t) PROVE Kept
  <2>1. t # s /\ (row' = [row EXCEPT ![t] = "failure"] \/ UNCHANGED row) /\ UNCHANGED account
    BY <1>7 DEF FailWithoutChannel
  <2>2. QED
    BY <2>1
<1>8. ASSUME NEW w \in Workers, UpdateVideoTask(w) PROVE Kept
  <2>1. \/ row' = row
        \/ row' = [row EXCEPT ![item[w]] = IF @ = copy[w][item[w]] THEN seen[w] ELSE @]
    BY <1>8 DEF UpdateVideoTask, UpdateWithStatus
  <2>2. copy[w][item[w]] \in Pending /\ UNCHANGED account
    BY <1>8 DEF UpdateVideoTask
  <2>3. QED
    BY <2>1, <2>2
<1>9. ASSUME NEW w \in Workers, UpdateSunoTask(w) PROVE Kept
  BY <1>9 DEF UpdateSunoTask
<1>10. ASSUME NEW w \in Workers, SaveTask(w) PROVE Kept
  <2>0. phase[w] \in {"save", "save_full"} /\ UNCHANGED account
    BY <1>10 DEF SaveTask
  <2>1. item[w] # s
    BY <2>0
  <2>2. row' = [row EXCEPT ![item[w]] = seen[w]] \/ UNCHANGED row
    BY <1>10 DEF SaveTask
  <2>3. QED
    BY <2>0, <2>1, <2>2
<1>11. ASSUME NEW w \in Workers, AdjustFunding(w) \/ AdjustToken(w) PROVE Kept
  BY <1>11 DEF AdjustFunding, AdjustToken
<1>12. ASSUME NEW t \in Tasks, RealtimeFetch(t) PROVE Kept
  BY <1>12 DEF RealtimeFetch
<1>13. ASSUME NEW t \in Tasks, RealtimeUpdate(t) PROVE Kept
  <2>1. t # s /\ s \in Tasks /\ UNCHANGED account
    BY <1>13 DEF RealtimeUpdate
  <2>2. row'[s] = row[s]
    BY <1>13, <2>1, UpdateElsewhere DEF RealtimeUpdate
  <2>3. QED
    BY <2>1, <2>2
<1>14. CASE UNCHANGED vars
  BY <1>14 DEF vars
<1>15. QED
  BY <1>1, <1>2, <1>3, <1>4, <1>5, <1>6, <1>7, <1>8, <1>9, <1>10, <1>11, <1>12, <1>13, <1>14
     DEF Next, WorkerStep


(* A step that changes neither the accounts, nor a row, nor who bills what, *)
(* keeps the ledger of a task.                                             *)
LEMMA LedgerKept ==
    ASSUME NEW s, Ledger(s), UNCHANGED <<row[s], quota[s], price[s], settled[s], fundNet[s], tokenNet[s]>>,
           \A w \in Workers : BillsTask(w, s)' =>
               BillsTask(w, s) /\ delta'[w] = delta[w] /\ phase'[w] = phase[w]
    PROVE  Ledger(s)'
BY DEF Ledger, BillsTask, Due, FinalPrice


(* A loop that turns to another task, or finds nothing to bill, keeps it.  *)
LEMMA BillKept ==
    ASSUME TypeOK, NEW s, Ledger(s), NEW w \in Workers, NEW t, NEW n, NEW next \in Places,
           Bill(w, t, n, next), t # s \/ n = 0, row'[s] = row[s], UNCHANGED account
    PROVE  Ledger(s)'
<1>1. ASSUME NEW v \in Workers, BillsTask(v, s)'
      PROVE  BillsTask(v, s) /\ delta'[v] = delta[v] /\ phase'[v] = phase[v]
  BY <1>1 DEF Bill, BillsTask, TypeOK, Places
<1>2. QED
  BY <1>1, LedgerKept DEF account

(* Whoever moves an unfinished task to a final status is alone with it, and *)
(* bills the difference between what is due now and what was paid.         *)
LEMMA BillStarts ==
    ASSUME TypeOK, NEW s \in Tasks, Ledger(s), row[s] \notin Final,
           NEW w \in Workers, NEW n, NEW next \in Places,
           Bill(w, s, n, next), UNCHANGED account,
           n # 0 => row'[s] \in Final /\ n = Due(s)' - quota[s]
    PROVE  Ledger(s)'
<1>1. \A v \in Workers : ~BillsTask(v, s)
  BY DEF Ledger
<1>2. \A v \in Workers : BillsTask(v, s)' => v = w /\ n # 0
  BY <1>1 DEF Bill, BillsTask, TypeOK, Places
<1>3. settled[s] => fundNet[s] = quota[s] /\ tokenNet[s] = quota[s]
  BY DEF Ledger, Due, Final
<1>4. UNCHANGED <<quota[s], settled[s], fundNet[s], tokenNet[s]>> /\ delta'[w] = n
  BY DEF account, Bill, TypeOK
<1>5. QED
  BY <1>2, <1>3, <1>4 DEF Ledger


(* Every step keeps the ledger of every guarded task. *)
LEMMA LedgerStep == IInv /\ [Next]_vars => \A s \in Guarded : Ledger(s)'
<1> SUFFICES ASSUME IInv, [Next]_vars, NEW s \in Guarded PROVE Ledger(s)'
  OBVIOUS
<1>a. TypeOK /\ Ledger(s) /\ s \in Tasks
  BY TaskAssumption DEF IInv, Guarded
<1>1. ASSUME NEW t \in Tasks, SubmitTask(t) PROVE Ledger(s)'
  <2>1. CASE t # s
    <3>1. UNCHANGED <<row[s], quota[s], price[s], settled[s], fundNet[s], tokenNet[s]>>
      BY <1>1, <1>a, <2>1 DEF SubmitTask, TypeOK
    <3>2. UNCHANGED <<phase, item, delta>>
      BY <1>1 DEF SubmitTask, worker
    <3>3. QED
      BY <1>a, <3>1, <3>2, LedgerKept DEF BillsTask
  <2>2. CASE t = s
    <3>1. \A w \in Workers : ~BillsTask(w, s)'
      BY <1>1, <1>a, <2>2 DEF SubmitTask, Ledger, BillsTask, worker, Final
    <3>2. settled'[s] => fundNet'[s] = quota'[s] /\ tokenNet'[s] = quota'[s]
      BY <1>1, <1>a, <2>2 DEF SubmitTask, TypeOK
    <3>3. QED
      BY <3>1, <3>2 DEF Ledger
  <2>3. QED
    BY <2>1, <2>2
<1>2. ASSUME NEW t \in Tasks, UpstreamMoves(t) \/ TimeoutPasses(t) PROVE Ledger(s)'
  BY <1>2, <1>a, LedgerKept DEF UpstreamMoves, TimeoutPasses, account, worker, BillsTask
<1>3. ASSUME NEW w \in Workers, StartSweep(w) \/ StartPoll(w) \/ EndPoll(w) \/ Crash(w)
      PROVE Ledger(s)'
  <2>1. UNCHANGED <<row, account, item>>
    BY <1>3 DEF StartSweep, StartPoll, EndPoll, Crash, EndRound
  <2>2. \E p \in {"sweep", "poll", "idle"} : phase' = [phase EXCEPT ![w] = p]
    BY <1>3 DEF StartSweep, StartPoll, EndPoll, Crash, EndRound
  <2>3. \A v \in Workers \ {w} : delta'[v] = delta[v]
    BY <1>3, <1>a DEF StartSweep, StartPoll, EndPoll, Crash, EndRound, TypeOK
  <2>4. QED
    BY <1>a, <2>1, <2>2, <2>3, LedgerKept DEF account, BillsTask, TypeOK
<1>4. ASSUME NEW w \in Workers, NEW t \in Tasks, SweepTask(w, t) PROVE Ledger(s)'
  <2>1. copy[w][t] \in Pending /\ UNCHANGED account
    BY <1>4 DEF SweepTask, IInv, CopiesUnfinished
  <2>2. PICK n : /\ Bill(w, t, n, "sweep")
                 /\ n # 0 => /\ n = -quota[t]
                             /\ row[t] = copy[w][t]
                             /\ UpdateWithStatus(t, copy[w][t], "failure", TRUE)
    BY <1>4 DEF SweepTask, Won
  <2>3. t # s => row'[s] = row[s]
    BY <1>4, <1>a DEF SweepTask, UpdateWithStatus, TypeOK
  <2>4. CASE t # s
    BY <1>a, <2>1, <2>2, <2>3, <2>4, BillKept DEF Places
  <2>5. CASE t = s /\ row[s] \in Final
    <3>1. n = 0
      BY <2>1, <2>2, <2>5 DEF Final, Pending
    <3>2. QED
      BY <1>a, <2>1, <2>2, <2>5, <3>1, FinalStep, BillKept DEF Places
  <2>6. CASE t = s /\ row[s] \notin Final
    <3>1. n # 0 => row'[s] \in Final /\ n = Due(s)' - quota[s]
      BY <1>a, <2>1, <2>2, <2>6 DEF UpdateWithStatus, Due, TypeOK, Final, account
    <3>2. QED
      BY <1>a, <2>1, <2>2, <2>6, <3>1, BillStarts DEF Places
  <2>7. QED
    BY <2>4, <2>5, <2>6
<1>5. ASSUME NEW w \in Workers, NEW t \in Tasks, FetchTask(w, t) PROVE Ledger(s)'
  BY <1>5, <1>a, LedgerKept DEF FetchTask, account, BillsTask, TypeOK
<1>6. ASSUME NEW w \in Workers, NEW t \in Tasks, FetchFails(w, t) PROVE Ledger(s)'
  BY <1>6, <1>a, LedgerKept DEF FetchFails, account, BillsTask, TypeOK
<1>7. ASSUME NEW w \in Workers, NEW t \in Tasks, FailWithoutChannel(w, t) PROVE Ledger(s)'
  <2>1. t # s /\ UNCHANGED <<account, phase, item, delta>>
    BY <1>7 DEF FailWithoutChannel, Guarded
  <2>2. row'[s] = row[s]
    BY <1>7, <1>a, <2>1 DEF FailWithoutChannel, TypeOK
  <2>3. QED
    BY <1>a, <2>1, <2>2, LedgerKept DEF account, BillsTask
<1>8. ASSUME NEW w \in Workers, UpdateVideoTask(w) PROVE Ledger(s)'
  <2> DEFINE t == item[w]
  <2>1. copy[w][t] \in Pending /\ UNCHANGED account
    BY <1>8 DEF UpdateVideoTask, IInv, CopiesUnfinished
  <2>2. PICK n : /\ Bill(w, t, n, "poll")
                 /\ n # 0 => /\ n = VideoDelta(w, t)
                             /\ \E done \in BOOLEAN : UpdateWithStatus(t, copy[w][t], seen[w], done)
    BY <1>8 DEF UpdateVideoTask
  <2>3. t # s => row'[s] = row[s]
    BY <1>8, <1>a DEF UpdateVideoTask, UpdateWithStatus, TypeOK
  <2>4. CASE t # s
    BY <1>a, <2>1, <2>2, <2>3, <2>4, BillKept DEF Places
  <2>5. CASE t = s /\ row[s] \in Final
    <3>1. n = 0
      BY <2>1, <2>2, <2>5 DEF Final, Pending, VideoDelta, Won
    <3>2. QED
      BY <1>a, <2>1, <2>2, <2>5, <3>1, FinalStep, BillKept DEF Places
  <2>6. CASE t = s /\ row[s] \notin Final
    <3>1. ASSUME n # 0 PROVE row'[s] \in Final /\ n = Due(s)' - quota[s]
      <4>1. row'[s] = seen[w]
        BY <1>a, <2>2, <2>6, <3>1 DEF UpdateWithStatus, VideoDelta, Won, TypeOK
      <4>2. CASE seen[w] = "success"
        BY <1>a, <2>1, <2>2, <2>6, <3>1, <4>1, <4>2 DEF VideoDelta, Due, FinalPrice, Final, account
      <4>3. CASE seen[w] = "failure"
        BY <1>a, <2>1, <2>2, <2>6, <3>1, <4>1, <4>3 DEF VideoDelta, Due, Final, TypeOK
      <4>4. QED
        BY <2>2, <3>1, <4>2, <4>3 DEF VideoDelta
    <3>2. QED
      BY <1>a, <2>1, <2>2, <2>6, <3>1, BillStarts DEF Places
  <2>7. QED
    BY <2>4, <2>5, <2>6
<1>9. ASSUME NEW w \in Workers, UpdateSunoTask(w) PROVE Ledger(s)'
  <2>1. item[w] # s /\ UNCHANGED <<row, account>>
    BY <1>9 DEF UpdateSunoTask, Guarded
  <2>2. PICK n : \E next \in Places : Bill(w, item[w], n, next)
    BY <1>9 DEF UpdateSunoTask, Places
  <2>3. QED
    BY <1>a, <2>1, <2>2, BillKept DEF Places
<1>10. ASSUME NEW w \in Workers, SaveTask(w) PROVE Ledger(s)'
  <2>1. phase[w] \in {"save", "save_full"} /\ UNCHANGED <<account, item, delta>>
    BY <1>10 DEF SaveTask
  <2>2. item[w] # s
    BY <2>1 DEF IInv, OnlySunoSaved, Guarded
  <2>3. row'[s] = row[s] /\ phase' = [phase EXCEPT ![w] = "poll"]
    BY <1>10, <1>a, <2>2 DEF SaveTask, TypeOK
  <2>4. QED
    BY <1>a, <2>1, <2>3, LedgerKept DEF account, BillsTask, TypeOK
<1>11. ASSUME NEW w \in Workers, AdjustFunding(w) PROVE Ledger(s)'
  <2>1. /\ phase[w] = "fund"
        /\ UNCHANGED <<row, quota, price, settled, tokenNet, item, delta>>
    BY <1>11 DEF AdjustFunding
  <2>2. PICK p \in {"token"} \cup Places : phase' = [phase EXCEPT ![w] = p]
    BY <1>11, <1>a DEF AdjustFunding, TypeOK, Places
  <2>3. fundNet' \in {fundNet, [fundNet EXCEPT ![item[w]] = @ + delta[w]]}
    BY <1>11 DEF AdjustFunding
  <2>4. \A v \in Workers : BillsTask(v, s)' => BillsTask(v, s) /\ (v # w => phase'[v] = phase[v])
    BY <1>a, <2>1, <2>2 DEF BillsTask, TypeOK, Places
  <2>5. CASE item[w] # s
    <3>1. fundNet'[s] = fundNet[s]
      BY <1>a, <2>3, <2>5 DEF TypeOK
    <3>2. QED
      BY <1>a, <2>1, <2>4, <2>5, <3>1, LedgerKept DEF BillsTask
  <2>6. CASE item[w] = s
    <3>1. BillsTask(w, s)
      BY <2>1, <2>6 DEF BillsTask
    <3>2. Due(s)' = Due(s) /\ quota[s] \in Int /\ Due(s) \in Int /\ delta[w] = Due(s) - quota[s]
      BY <1>a, <2>1, <3>1 DEF Due, FinalPrice, Ledger, TypeOK
    <3>3. settled[s] => fundNet'[s] \in {quota[s], Due(s)}
      BY <1>a, <2>1, <2>3, <2>6, <3>1, <3>2 DEF Ledger, TypeOK
    <3>4. \A v \in Workers : BillsTask(v, s)' => v = w /\ phase'[v] # "fund"
      BY <1>a, <2>2, <2>4, <3>1 DEF Ledger, TypeOK, Places
    <3>5. QED
      BY <1>a, <2>1, <2>4, <3>1, <3>2, <3>3, <3>4 DEF Ledger
  <2>7. QED
    BY <2>5, <2>6
<1>12. ASSUME NEW w \in Workers, AdjustToken(w) PROVE Ledger(s)'
  <2>1. /\ phase[w] = "token"
        /\ UNCHANGED <<row, quota, price, settled, fundNet, item, delta>>
    BY <1>12 DEF AdjustToken
  <2>2. PICK p \in Places : phase' = [phase EXCEPT ![w] = p]
    BY <1>12, <1>a DEF AdjustToken, TypeOK, Places
  <2>3. tokenNet' \in {tokenNet, [tokenNet EXCEPT ![item[w]] = @ + delta[w]]}
    BY <1>12 DEF AdjustToken
  <2>4. \A v \in Workers : BillsTask(v, s)' => v # w /\ BillsTask(v, s) /\ phase'[v] = phase[v]
    BY <1>a, <2>1, <2>2 DEF BillsTask, TypeOK, Places
  <2>5. CASE item[w] # s
    <3>1. tokenNet'[s] = tokenNet[s]
      BY <1>a, <2>3, <2>5 DEF TypeOK
    <3>2. QED
      BY <1>a, <2>1, <2>4, <3>1, LedgerKept
  <2>6. CASE item[w] = s
    <3>1. BillsTask(w, s)
      BY <2>1, <2>6 DEF BillsTask
    <3>2. Due(s)' = Due(s) /\ quota[s] \in Int /\ Due(s) \in Int /\ delta[w] = Due(s) - quota[s]
      BY <1>a, <2>1, <3>1 DEF Due, FinalPrice, Ledger, TypeOK
    <3>3. settled[s] => tokenNet'[s] \in {quota[s], Due(s)}
      BY <1>a, <2>1, <2>3, <2>6, <3>1, <3>2 DEF Ledger, TypeOK
    <3>4. \A v \in Workers : ~BillsTask(v, s)'
      BY <1>a, <2>4, <3>1 DEF Ledger
    <3>5. QED
      BY <1>a, <2>1, <3>2, <3>3, <3>4 DEF Ledger
  <2>7. QED
    BY <2>5, <2>6
<1>13. ASSUME NEW t \in Tasks, RealtimeFetch(t) PROVE Ledger(s)'
  BY <1>13, <1>a, LedgerKept DEF RealtimeFetch, account, worker, BillsTask
<1>14. ASSUME NEW t \in Tasks, RealtimeUpdate(t) PROVE Ledger(s)'
  <2>1. t # s /\ UNCHANGED <<account, worker>>
    BY <1>14 DEF RealtimeUpdate, IInv, OnlyRealtimeQueried, Guarded
  <2>2. row'[s] = row[s]
    BY <1>14, <1>a, <2>1 DEF RealtimeUpdate, UpdateWithStatus, TypeOK
  <2>3. QED
    BY <1>a, <2>1, <2>2, LedgerKept DEF account, worker, BillsTask
<1>15. CASE UNCHANGED vars
  BY <1>15, <1>a, LedgerKept DEF vars, account, worker, BillsTask
<1>16. QED
  BY <1>1, <1>2, <1>3, <1>4, <1>5, <1>6, <1>7, <1>8, <1>9, <1>10, <1>11, <1>12, <1>13, <1>14,
     <1>15 DEF Next, WorkerStep

-----------------------------------------------------------------------------
(* Theorems *)

(* The invariant is inductive: it holds in every state of the task billing. *)
THEOREM Inductive == Spec => []IInv
<1>1. IInv /\ [Next]_vars => IInv'
  BY TypeStep, CopiesStep, LedgerStep DEF IInv, Guarded
<1>2. QED
  BY IInvInit, <1>1, PTL DEF Spec

(* Rows, copies and positions of the loops keep their types. *)
THEOREM TypeCorrect == Spec => []TypeOK
<1>1. IInv => TypeOK
  BY DEF IInv
<1>2. QED
  BY Inductive, <1>1, PTL

(* sweepTimedOutTasks and updateVideoSingleTask, in any number of           *)
(* processes and with any failures and crashes, bill a task at most once    *)
(* and according to the status that is stored.                              *)
THEOREM BillsOnce == Spec => []BilledOnce
<1>1. IInv => BilledOnce
  BY DEF IInv, Ledger, BilledOnce
<1>2. QED
  BY Inductive, <1>1, PTL

(* No stale copy moves a task out of a final status. *)
THEOREM FinalIsFinal == Spec => FinalStaysFinal
<1>1. IInv /\ [Next]_vars => [\A t \in Guarded : row[t] \in Final => row'[t] = row[t]]_vars
  BY FinalStep
<1>2. QED
  BY Inductive, <1>1, PTL DEF Spec, FinalStaysFinal

-----------------------------------------------------------------------------
(* Behaviours without faults: what is due has been charged *)

\* A task in the table was settled; the loop that bills it has charged the funding
\* when it turns to the token; what nobody bills is charged.
Exact(t) ==
    /\ row[t] \in Statuses => settled[t]
    /\ \A w \in Workers : phase[w] = "token" /\ item[w] = t => fundNet[t] = Due(t)
    /\ row[t] \in Statuses /\ ~Billing(t) => fundNet[t] = Due(t) /\ tokenNet[t] = Due(t)

ExactInv == faults = 0 => \A t \in Guarded : Exact(t)

(* A step that leaves the accounts of a task and its billing alone. *)
LEMMA ExactKept ==
    ASSUME NEW s, Exact(s),
           UNCHANGED <<row[s], quota[s], price[s], settled[s], fundNet[s], tokenNet[s]>>,
           \A w \in Workers : BillsTask(w, s)' <=> BillsTask(w, s),
           \A w \in Workers : BillsTask(w, s)' => phase'[w] = phase[w]
    PROVE  Exact(s)'
<1>1. Due(s)' = Due(s)
  BY DEF Due, FinalPrice
<1>2. Billing(s)' <=> Billing(s)
  BY DEF Billing, BillsTask
<1>3. ASSUME NEW w \in Workers, phase'[w] = "token", item'[w] = s PROVE fundNet'[s] = Due(s)'
  BY <1>1, <1>3 DEF Exact, BillsTask
<1>4. QED
  BY <1>1, <1>2, <1>3 DEF Exact

(* A loop that bills nothing at present turns to another task, or finds    *)
(* nothing to bill.                                                        *)
LEMMA ExactIdle ==
    ASSUME TypeOK, NEW s, Exact(s), NEW w \in Workers, phase[w] \notin {"fund", "token"},
           NEW t, NEW n, NEW next \in Places, Bill(w, t, n, next),
           t # s \/ n = 0, row'[s] = row[s], UNCHANGED account
    PROVE  Exact(s)'
<1>1. ASSUME NEW v \in Workers
      PROVE  /\ BillsTask(v, s)' <=> BillsTask(v, s)
             /\ BillsTask(v, s)' => phase'[v] = phase[v]
  BY DEF Bill, BillsTask, TypeOK, Places
<1>2. QED
  BY <1>1, ExactKept DEF account

(* The loop that moved a task to its next status bills what that makes due. *)
LEMMA ExactStarts ==
    ASSUME TypeOK, NEW s \in Tasks, Ledger(s), Exact(s), row[s] \in Pending, row'[s] \in Statuses,
           NEW w \in Workers, NEW n, NEW next \in Places,
           Bill(w, s, n, next), UNCHANGED account, n = Due(s)' - quota[s]
    PROVE  Exact(s)'
<1>1. \A v \in Workers : ~BillsTask(v, s)
  BY DEF Ledger, Pending, Final
<1>2. /\ UNCHANGED <<quota[s], settled[s], fundNet[s], tokenNet[s]>>
      /\ fundNet[s] = quota[s] /\ tokenNet[s] = quota[s] /\ settled[s]
  BY <1>1 DEF account, Exact, Billing, BillsTask, Due, Pending, Statuses
<1>3. \A v \in Workers : item'[v] = s => phase'[v] # "token"
  BY <1>1 DEF Bill, BillsTask, TypeOK, Places
<1>4. n # 0 => Billing(s)'
  BY DEF Bill, Billing, TypeOK
<1>5. Due(s)' \in Int /\ quota[s] \in Int
  BY <1>2 DEF Due, FinalPrice, TypeOK, account
<1>6. QED
  BY <1>2, <1>3, <1>4, <1>5 DEF Exact

(* Every step without a fault keeps it. *)
LEMMA ExactStep == IInv /\ ExactInv /\ [Next]_vars => ExactInv'
<1> SUFFICES ASSUME IInv, ExactInv, [Next]_vars, faults' = 0, NEW s \in Guarded PROVE Exact(s)'
  BY DEF ExactInv, Guarded
<1>a. TypeOK /\ Ledger(s) /\ s \in Tasks /\ s \in Video \ (Realtime \cup Orphaned)
  BY TaskAssumption DEF IInv, Guarded
<1>b. ASSUME Fault PROVE FALSE
  BY <1>a, <1>b DEF Fault, TypeOK
<1>c. ASSUME UNCHANGED faults PROVE Exact(s)
  BY <1>c DEF ExactInv
<1>1. ASSUME NEW t \in Tasks, SubmitTask(t) PROVE Exact(s)'
  <2>1. PICK e \in Estimates, q \in Quotas, p \in Prices, ok \in BOOLEAN, stored \in BOOLEAN :
            /\ row[t] = "none"
            /\ faults' = faults + (IF ok THEN 0 ELSE 1) + (IF stored THEN 0 ELSE 1)
            /\ faults' <= MaxFaults
            /\ row' = [row EXCEPT ![t] = IF stored THEN "queued" ELSE "lost"]
            /\ quota' = [quota EXCEPT ![t] = q]
            /\ price' = [price EXCEPT ![t] = p]
            /\ settled' = [settled EXCEPT ![t] = ok]
            /\ \E f, k \in {e, q} :
                  /\ ok => f = q /\ k = q
                  /\ fundNet' = [fundNet EXCEPT ![t] = f]
                  /\ tokenNet' = [tokenNet EXCEPT ![t] = k]
            /\ UNCHANGED <<full, env, worker, query>>
    BY <1>1, ZenonT(60) DEF SubmitTask
  <2>2. ok = TRUE /\ stored = TRUE /\ UNCHANGED faults
    BY <1>a, <2>1 DEF TypeOK
  <2>3. CASE t # s
    <3>1. UNCHANGED <<row[s], quota[s], price[s], settled[s], fundNet[s], tokenNet[s]>>
      BY <1>1, <1>a, <2>3 DEF SubmitTask, TypeOK
    <3>2. UNCHANGED <<phase, item>>
      BY <1>1 DEF SubmitTask, worker
    <3>3. QED
      BY <1>c, <2>2, <3>1, <3>2, ExactKept DEF BillsTask
  <2>4. CASE t = s
    <3>1. \A w \in Workers : ~BillsTask(w, s)'
      BY <1>1, <1>a, <2>4 DEF SubmitTask, Ledger, BillsTask, worker, Final
    <3>2. row'[s] = "queued" /\ settled'[s] /\ fundNet'[s] = quota'[s] /\ tokenNet'[s] = quota'[s]
      BY <1>a, <2>1, <2>2, <2>4 DEF TypeOK
    <3>3. Due(s)' = quota'[s]
      BY <3>2 DEF Due
    <3>4. QED
      BY <3>1, <3>2, <3>3 DEF Exact, BillsTask
  <2>5. QED
    BY <2>3, <2>4
<1>2. ASSUME NEW t \in Tasks, UpstreamMoves(t) \/ TimeoutPasses(t) PROVE Exact(s)'
  BY <1>2, <1>c, ExactKept DEF UpstreamMoves, TimeoutPasses, account, worker, BillsTask
<1>3. ASSUME NEW w \in Workers, StartSweep(w) \/ StartPoll(w) \/ EndPoll(w) PROVE Exact(s)'
  <2>1. UNCHANGED <<row, account, item, faults>> /\ phase[w] \notin {"fund", "token"}
    BY <1>3 DEF StartSweep, StartPoll, EndPoll, EndRound
  <2>2. \E q \in {"sweep", "poll", "idle"} : phase' = [phase EXCEPT ![w] = q]
    BY <1>3 DEF StartSweep, StartPoll, EndPoll, EndRound
  <2>3. QED
    BY <1>a, <1>c, <2>1, <2>2, ExactKept DEF account, BillsTask, TypeOK
<1>4. ASSUME NEW w \in Workers, NEW t \in Tasks, SweepTask(w, t) PROVE Exact(s)'
  <2>1. copy[w][t] \in Pending /\ UNCHANGED account /\ phase[w] = "sweep"
    BY <1>4 DEF SweepTask, IInv, CopiesUnfinished
  <2>2. /\ UpdateWithStatus(t, copy[w][t], "failure", TRUE)
        /\ Bill(w, t, IF Won(t, copy[w][t]) THEN -quota[t] ELSE 0, "sweep")
        /\ UNCHANGED faults
    BY <1>4, <1>b DEF SweepTask
  <2>3. CASE t # s
    <3>1. row'[s] = row[s]
      BY <1>a, <2>2, <2>3 DEF UpdateWithStatus, TypeOK
    <3>2. QED
      BY <1>a, <1>c, <2>1, <2>2, <2>3, <3>1, ExactIdle DEF Places
  <2>4. CASE t = s /\ row[s] # copy[w][s]
    <3>1. row'[s] = row[s] /\ Bill(w, s, 0, "sweep")
      BY <1>a, <2>2, <2>4 DEF UpdateWithStatus, Won, TypeOK
    <3>2. QED
      BY <1>a, <1>c, <2>1, <2>2, <3>1, ExactIdle DEF Places
  <2>5. CASE t = s /\ row[s] = copy[w][s]
    <3>1. row'[s] = "failure" /\ Bill(w, s, -quota[s], "sweep") /\ row[s] \in Pending
      BY <1>a, <2>1, <2>2, <2>5 DEF UpdateWithStatus, Won, TypeOK
    <3>2. -quota[s] = Due(s)' - quota[s] /\ row'[s] \in Statuses
      BY <1>a, <3>1 DEF Due, TypeOK, Statuses, Final
    <3>3. QED
      BY <1>a, <1>c, <2>1, <2>2, <3>1, <3>2, ExactStarts DEF Places
  <2>6. QED
    BY <2>3, <2>4, <2>5
<1>5. ASSUME NEW w \in Workers, NEW t \in Tasks, FetchTask(w, t) PROVE Exact(s)'
  <2>1. UNCHANGED <<row, account, faults>> /\ phase[w] = "poll"
    BY <1>5 DEF FetchTask
  <2>2. phase' = [phase EXCEPT ![w] = "fetched"] /\ item' = [item EXCEPT ![w] = t]
    BY <1>5 DEF FetchTask
  <2>3. QED
    BY <1>a, <1>c, <2>1, <2>2, ExactKept DEF account, BillsTask, TypeOK
<1>6. ASSUME NEW w \in Workers, NEW t \in Tasks, FetchFails(w, t) PROVE Exact(s)'
  BY <1>6, <1>c, ExactKept DEF FetchFails, account, BillsTask
<1>7. ASSUME NEW w \in Workers, NEW t \in Tasks, FailWithoutChannel(w, t) PROVE Exact(s)'
  <2>1. t # s /\ UNCHANGED <<account, phase, item, faults>>
    BY <1>7, <1>a, <1>b DEF FailWithoutChannel
  <2>2. row'[s] = row[s]
    BY <1>7, <1>a, <2>1 DEF FailWithoutChannel, TypeOK
  <2>3. QED
    BY <1>c, <2>1, <2>2, ExactKept DEF account, BillsTask
<1>8. ASSUME NEW w \in Workers, UpdateVideoTask(w) PROVE Exact(s)'
  <2>0. PICK t \in Tasks : t = item[w]
    BY <1>a DEF TypeOK
  <2>1. copy[w][t] \in Pending /\ UNCHANGED account /\ phase[w] = "fetched" /\ seen[w] \in Statuses
    BY <1>8, <1>a, <2>0 DEF UpdateVideoTask, IInv, CopiesUnfinished, TypeOK
  <2>a. CASE row' = row /\ Bill(w, t, 0, "poll") /\ UNCHANGED faults
    BY <1>a, <1>c, <2>1, <2>a, ExactIdle DEF Places
  <2>b. SUFFICES ASSUME /\ \E done \in BOOLEAN : UpdateWithStatus(t, copy[w][t], seen[w], done)
                        /\ Bill(w, t, VideoDelta(w, t), "poll")
                        /\ UNCHANGED faults
                 PROVE  Exact(s)'
    BY <1>8, <1>b, <2>0, <2>a DEF UpdateVideoTask
  <2>2. /\ \E done \in BOOLEAN : UpdateWithStatus(t, copy[w][t], seen[w], done)
        /\ Bill(w, t, VideoDelta(w, t), "poll")
        /\ UNCHANGED faults
    BY <2>b
  <2>3. CASE t # s
    <3>1. row'[s] = row[s]
      BY <1>a, <2>2, <2>3 DEF UpdateWithStatus, TypeOK
    <3>2. QED
      BY <1>a, <1>c, <2>1, <2>2, <2>3, <3>1, ExactIdle DEF Places
  <2>4. CASE t = s /\ row[s] # copy[w][s]
    <3>1. row'[s] = row[s] /\ Bill(w, s, 0, "poll")
      BY <1>a, <2>2, <2>4 DEF UpdateWithStatus, VideoDelta, Won, TypeOK
    <3>2. QED
      BY <1>a, <1>c, <2>1, <2>2, <3>1, ExactIdle DEF Places
  <2>5. CASE t = s /\ row[s] = copy[w][s]
    <3>1. row'[s] = seen[w] /\ Bill(w, s, VideoDelta(w, s), "poll") /\ row[s] \in Pending
      BY <1>a, <2>1, <2>2, <2>5 DEF UpdateWithStatus, TypeOK
    <3>2. UNCHANGED <<quota[s], price[s]>> /\ quota[s] \in Nat /\ price[s] \in Nat
      BY <1>a, <2>1 DEF account, TypeOK
    <3>3. VideoDelta(w, s) = Due(s)' - quota[s]
      <4>1. CASE seen[w] = "success"
        BY <2>5, <3>1, <3>2, <4>1 DEF VideoDelta, Won, Due, FinalPrice
      <4>2. CASE seen[w] = "failure"
        BY <2>5, <3>1, <3>2, <4>2 DEF VideoDelta, Won, Due
      <4>3. CASE seen[w] \in Pending
        BY <2>5, <3>1, <3>2, <4>3 DEF VideoDelta, Won, Due, Pending
      <4>4. QED
        BY <2>1, <4>1, <4>2, <4>3 DEF Statuses, Final
    <3>4. QED
      BY <1>a, <1>c, <2>1, <2>2, <3>1, <3>3, ExactStarts DEF Places
  <2>6. QED
    BY <2>3, <2>4, <2>5
<1>9. ASSUME NEW w \in Workers, UpdateSunoTask(w) PROVE Exact(s)'
  <2>1. item[w] # s /\ UNCHANGED <<row, account, faults>> /\ phase[w] = "fetched"
    BY <1>9, <1>a DEF UpdateSunoTask
  <2>2. PICK n : \E next \in Places : Bill(w, item[w], n, next)
    BY <1>9 DEF UpdateSunoTask, Places
  <2>3. QED
    BY <1>a, <1>c, <2>1, <2>2, ExactIdle DEF Places
<1>10. ASSUME NEW w \in Workers, SaveTask(w) PROVE Exact(s)'
  <2>1. phase[w] \in {"save", "save_full"} /\ UNCHANGED <<account, item, faults>>
    BY <1>10, <1>b DEF SaveTask
  <2>2. item[w] # s
    BY <1>a, <2>1 DEF IInv, OnlySunoSaved
  <2>3. row'[s] = row[s] /\ phase' = [phase EXCEPT ![w] = "poll"]
    BY <1>10, <1>a, <2>2 DEF SaveTask, TypeOK
  <2>4. QED
    BY <1>a, <1>c, <2>1, <2>3, ExactKept DEF account, BillsTask, TypeOK
<1>11. ASSUME NEW w \in Workers, AdjustFunding(w) PROVE Exact(s)'
  <2>1. /\ phase[w] = "fund" /\ phase' = [phase EXCEPT ![w] = "token"]
        /\ fundNet' = [fundNet EXCEPT ![item[w]] = @ + delta[w]]
        /\ UNCHANGED <<row, quota, price, settled, tokenNet, item, delta, faults>>
    BY <1>11, <1>b DEF AdjustFunding
  <2>2. CASE item[w] # s
    <3>1. fundNet'[s] = fundNet[s]
      BY <1>a, <2>1, <2>2 DEF TypeOK
    <3>2. QED
      BY <1>a, <1>c, <2>1, <2>2, <3>1, ExactKept DEF BillsTask, TypeOK
  <2>3. CASE item[w] = s
    <3>1. BillsTask(w, s) /\ row[s] \in Statuses /\ settled[s]
      BY <1>a, <1>c, <2>1, <2>3 DEF BillsTask, Ledger, Exact, Statuses
    <3>2. Due(s)' = Due(s) /\ quota[s] \in Int /\ Due(s) \in Int /\ delta[w] = Due(s) - quota[s]
      BY <1>a, <2>1, <3>1 DEF Due, FinalPrice, Ledger, TypeOK
    <3>3. fundNet[s] = quota[s]
      BY <1>a, <2>1, <3>1 DEF Ledger
    <3>4. fundNet'[s] = Due(s)
      BY <1>a, <2>1, <2>3, <3>2, <3>3 DEF TypeOK
    <3>5. Billing(s)'
      BY <1>a, <2>1, <2>3 DEF Billing, TypeOK
    <3>6. QED
      BY <2>1, <3>1, <3>2, <3>4, <3>5 DEF Exact
  <2>4. QED
    BY <2>2, <2>3
<1>12. ASSUME NEW w \in Workers, AdjustToken(w) PROVE Exact(s)'
  <2>1. /\ phase[w] = "token" /\ phase' = [phase EXCEPT ![w] = after[w]]
        /\ tokenNet' = [tokenNet EXCEPT ![item[w]] = @ + delta[w]]
        /\ UNCHANGED <<row, quota, price, settled, fundNet, item, delta, faults>>
    BY <1>12, <1>b DEF AdjustToken
  <2>2. after[w] \in Places
    BY <1>a DEF TypeOK, Places
  <2>3. CASE item[w] # s
    <3>1. tokenNet'[s] = tokenNet[s]
      BY <1>a, <2>1, <2>3 DEF TypeOK
    <3>2. QED
      BY <1>a, <1>c, <2>1, <2>2, <2>3, <3>1, ExactKept DEF BillsTask, TypeOK, Places
  <2>4. CASE item[w] = s
    <3>1. BillsTask(w, s) /\ row[s] \in Statuses /\ settled[s] /\ fundNet[s] = Due(s)
      BY <1>a, <1>c, <2>1, <2>4 DEF BillsTask, Ledger, Exact, Statuses
    <3>2. Due(s)' = Due(s) /\ quota[s] \in Int /\ Due(s) \in Int /\ delta[w] = Due(s) - quota[s]
      BY <1>a, <2>1, <3>1 DEF Due, FinalPrice, Ledger, TypeOK
    <3>3. tokenNet[s] = quota[s]
      BY <1>a, <2>1, <3>1 DEF Ledger
    <3>4. tokenNet'[s] = Due(s)
      BY <1>a, <2>1, <2>4, <3>2, <3>3 DEF TypeOK
    <3>5. \A v \in Workers : phase'[v] = "token" /\ item'[v] = s => FALSE
      BY <1>a, <2>1, <2>2, <3>1 DEF Ledger, BillsTask, TypeOK, Places
    <3>6. QED
      BY <2>1, <3>1, <3>2, <3>4, <3>5 DEF Exact
  <2>5. QED
    BY <2>3, <2>4
<1>13. ASSUME NEW t \in Tasks, RealtimeFetch(t) PROVE Exact(s)'
  BY <1>13, <1>c, ExactKept DEF RealtimeFetch, account, worker, BillsTask
<1>14. ASSUME NEW t \in Tasks, RealtimeUpdate(t) PROVE Exact(s)'
  <2>1. t # s /\ UNCHANGED <<account, worker, faults>>
    BY <1>14, <1>a DEF RealtimeUpdate, IInv, OnlyRealtimeQueried
  <2>2. row'[s] = row[s]
    BY <1>14, <1>a, <2>1 DEF RealtimeUpdate, UpdateWithStatus, TypeOK
  <2>3. QED
    BY <1>c, <2>1, <2>2, ExactKept DEF account, worker, BillsTask
<1>15. ASSUME NEW w \in Workers, Crash(w) PROVE Exact(s)'
  BY <1>15, <1>b DEF Crash
<1>16. CASE UNCHANGED vars
  BY <1>16, <1>c, ExactKept DEF vars, account, worker, BillsTask
<1>17. QED
  BY <1>1, <1>2, <1>3, <1>4, <1>5, <1>6, <1>7, <1>8, <1>9, <1>10, <1>11, <1>12, <1>13, <1>14,
     <1>15, <1>16 DEF Next, WorkerStep

(* While no statement failed and no process died, a task nobody is billing *)
(* has been charged exactly what its status makes due, whoever moved it    *)
(* and however many loops met on it.                                       *)
THEOREM BillsExactly == Spec => []BilledExactly
<1>1. Init => ExactInv
  BY TaskAssumption DEF Init, ExactInv, Exact, Statuses, Pending, Final, Guarded
<1>2. Spec => []ExactInv
  BY <1>1, ExactStep, Inductive, PTL DEF Spec
<1>3. ExactInv => BilledExactly
  BY DEF ExactInv, Exact, BilledExactly
<1>4. QED
  BY <1>2, <1>3, PTL
-----------------------------------------------------------------------------
(* One loop: a Suno task that failed is refunded, and once more for each fault at most *)

Handling == {"fetched", "save", "save_full", "fund", "token"}

\* What a loop has taken off its list is not on it any more.
OffList == \A w \in Workers : phase[w] \in Handling => item[w] \notin todo[w]

\* The one loop works on the row as it is: the sweep has moved the row of the task it
\* refunds, an update will save it.
Alone(s) ==
    /\ s \in full => row[s] \in Pending
    /\ \A w \in Workers :
          /\ s \in todo[w] => row[s] = copy[w][s] /\ s \notin full
          /\ item[w] = s /\ phase[w] \in {"fetched", "save", "save_full"} =>
                row[s] \in Pending /\ s \notin full
          /\ item[w] = s /\ phase[w] = "save" => seen[w] # "failure"
          /\ item[w] = s /\ phase[w] \in {"fund", "token"} =>
                /\ delta[w] = -quota[s]
                /\ \/ row[s] = "failure" /\ after[w] = "sweep"
                   \/ row[s] \in Pending /\ s \notin full /\ after[w] = "save_full"

\* The quota of s has been given back, or the loop went on as if it had.
Refunded(s) ==
    \/ /\ row[s] = "failure" \/ s \in full
       /\ \A w \in Workers : ~(phase[w] = "fund" /\ item[w] = s)
    \/ \E w \in Workers : item[w] = s /\ phase[w] \in {"token", "save_full"}

\* What a submitted task must have paid at least; a success may have been refunded,
\* if it came with a reason.
Held(s) == IF Refunded(s) \/ row[s] = "success" THEN 0 ELSE quota[s]

\* Each fault can cost one refund.
Sums(s) ==
    /\ faults = 0 /\ row[s] \in Statuses \ {"success"} => fundNet[s] = Held(s)
    /\ settled[s] => fundNet[s] + faults * quota[s] >= Held(s)

Solo(s) == Alone(s) /\ Sums(s)

SoloInv == OffList /\ \A s \in Tasks \ Video : Solo(s)

\* One process runs TaskPollingLoop.
OneLoop == \A v, w \in Workers : v = w

\* A step leaves s and its handling alone.
Elsewhere(s) ==
    /\ UNCHANGED <<row[s], quota[s], settled[s], fundNet[s]>> /\ (s \in full' <=> s \in full)
    /\ \A w \in Workers :
          /\ s \in todo'[w] => s \in todo[w] /\ copy'[w][s] = copy[w][s]
          /\ item'[w] = s /\ phase'[w] \in Handling <=> item[w] = s /\ phase[w] \in Handling
          /\ item[w] = s /\ phase[w] \in Handling =>
                UNCHANGED <<phase[w], seen[w], delta[w], after[w]>>

(* A loop takes a task off its list before it handles it. *)
LEMMA OffListStep == IInv /\ OffList /\ [Next]_vars => OffList'
<1> SUFFICES ASSUME IInv, OffList, [Next]_vars, NEW v \in Workers, phase'[v] \in Handling
             PROVE  item'[v] \notin todo'[v]
  BY DEF OffList
<1>a. /\ phase \in [Workers -> Phases]
      /\ todo \in [Workers -> SUBSET Tasks] /\ item \in [Workers -> Tasks]
      /\ after \in [Workers -> Places]
  BY DEF IInv, TypeOK, Phases, Places
<1>b. ASSUME UNCHANGED <<phase, item, todo>> PROVE item'[v] \notin todo'[v]
  BY <1>b DEF OffList
<1>1. ASSUME NEW t \in Tasks, \/ SubmitTask(t) \/ UpstreamMoves(t) \/ TimeoutPasses(t)
                              \/ RealtimeFetch(t) \/ RealtimeUpdate(t)
      PROVE  item'[v] \notin todo'[v]
  BY <1>1, <1>b DEF SubmitTask, UpstreamMoves, TimeoutPasses, RealtimeFetch, RealtimeUpdate, worker
<1>2. ASSUME NEW w \in Workers, StartSweep(w) \/ StartPoll(w) \/ EndPoll(w) \/ Crash(w)
      PROVE  item'[v] \notin todo'[v]
  <2>1. \E q \in {"sweep", "poll", "idle"} : phase' = [phase EXCEPT ![w] = q]
    BY <1>2 DEF StartSweep, StartPoll, EndPoll, Crash, EndRound
  <2>2. v # w
    BY <1>a, <2>1 DEF Handling
  <2>3. UNCHANGED <<phase[v], item[v], todo[v]>>
    BY <1>2, <1>a, <2>2 DEF StartSweep, StartPoll, EndPoll, Crash, EndRound, ReadTasks
  <2>4. QED
    BY <2>3 DEF OffList
<1>3. ASSUME NEW w \in Workers, NEW t \in Tasks,
             SweepTask(w, t) \/ FetchTask(w, t)
      PROVE  item'[v] \notin todo'[v]
  <2>1. todo' = [todo EXCEPT ![w] = todo[w] \ {t}] /\ item' = [item EXCEPT ![w] = t]
    BY <1>3 DEF SweepTask, FetchTask, Bill
  <2>2. v # w => UNCHANGED phase[v]
    BY <1>3, <1>a DEF SweepTask, FetchTask, Bill
  <2>3. QED
    BY <1>a, <2>1, <2>2 DEF OffList
<1>4. ASSUME NEW w \in Workers, NEW t \in Tasks, FetchFails(w, t) \/ FailWithoutChannel(w, t)
      PROVE  item'[v] \notin todo'[v]
  <2>1. UNCHANGED <<phase, item>> /\ todo' = [todo EXCEPT ![w] = todo[w] \ {t}]
    BY <1>4 DEF FetchFails, FailWithoutChannel
  <2>2. QED
    BY <1>a, <2>1 DEF OffList
<1>5. ASSUME NEW w \in Workers, \/ UpdateVideoTask(w) \/ UpdateSunoTask(w) \/ SaveTask(w)
                                \/ AdjustFunding(w) \/ AdjustToken(w)
      PROVE  item'[v] \notin todo'[v]
  <2>1. UNCHANGED todo /\ phase[w] \in Handling
    BY <1>5 DEF UpdateVideoTask, UpdateSunoTask, SaveTask, AdjustFunding, AdjustToken, Handling
  <2>2. UNCHANGED item[v] /\ (v # w => UNCHANGED phase[v])
    BY <1>5, <1>a DEF UpdateVideoTask, UpdateSunoTask, SaveTask, AdjustFunding, AdjustToken, Bill
  <2>3. QED
    BY <2>1, <2>2 DEF OffList
<1>6. CASE UNCHANGED vars
  BY <1>6, <1>b DEF vars, worker
<1>7. QED
  BY <1>1, <1>2, <1>3, <1>4, <1>5, <1>6 DEF Next, WorkerStep

(* One more fault covers one more refund. *)
LEMMA Slack ==
    ASSUME NEW f \in Nat, NEW g \in Nat, NEW q \in Nat
    PROVE  /\ f * q \in Nat /\ g * q \in Nat
           /\ g > f => g * q >= f * q + q
<1>1. f * q \in Nat /\ g * q \in Nat
  OBVIOUS
<1>2. ASSUME g > f PROVE g * q >= f * q + q
  <2>1. PICK d \in Nat : g = f + 1 + d
    <3>1. g - f - 1 \in Nat /\ g = f + 1 + (g - f - 1)
      BY <1>2
    <3>2. QED
      BY <3>1
  <2>2. g * q = f * q + q + d * q /\ d * q \in Nat
    BY <2>1
  <2>3. QED
    BY <1>1, <2>2
<1>3. QED
  BY <1>1, <1>2

(* What a task must have paid is nothing or its quota. *)
LEMMA HeldType ==
    ASSUME TypeOK, NEW s \in Tasks
    PROVE  /\ Held(s) \in Nat /\ Held(s) <= quota[s] /\ quota[s] \in Nat
           /\ fundNet[s] \in Int /\ faults \in Nat /\ faults * quota[s] \in Nat
<1>1. quota[s] \in Nat /\ faults \in Nat /\ fundNet[s] \in Int
  BY TaskAssumption DEF TypeOK
<1>2. Held(s) \in {0, quota[s]}
  BY DEF Held
<1>3. faults * quota[s] \in Nat
  BY <1>1, Slack
<1>4. QED
  BY <1>1, <1>2, <1>3

(* A step that charges nothing keeps the sums if it leaves what must have  *)
(* been paid, or moves the task to success, or is a fault.                 *)
LEMMA SumsKept ==
    ASSUME TypeOK, NEW s \in Tasks, Sums(s), UNCHANGED <<quota[s], settled[s], fundNet[s]>>,
           faults' \in Nat,
           \/ /\ faults' = faults /\ Held(s)' = Held(s)
              /\ row'[s] \in Statuses \ {"success"} => row[s] \in Statuses \ {"success"}
           \/ faults' = faults /\ row'[s] = "success"
           \/ faults' > faults
    PROVE  Sums(s)'
<1>1. Held(s)' \in {0, quota[s]} /\ (row'[s] = "success" => Held(s)' = 0)
  BY DEF Held
<1>2. Held(s) \in Nat /\ quota[s] \in Nat /\ fundNet[s] \in Int /\ faults \in Nat
  BY HeldType
<1>3. CASE faults' = faults
  <2>1. faults * quota[s] \in Nat
    BY HeldType
  <2>2. QED
    BY <1>1, <1>2, <1>3, <2>1 DEF Sums
<1>4. CASE faults' > faults
  <2>1. PICK a \in Nat, b \in Nat : a = faults * quota[s] /\ b = faults' * quota[s] /\ b >= a + quota[s]
    BY <1>2, <1>4, Slack
  <2>2. settled[s] => fundNet[s] + a >= Held(s)
    BY <2>1 DEF Sums
  <2>3. settled[s] => fundNet[s] + b >= Held(s)'
    BY <1>1, <1>2, <2>1, <2>2
  <2>4. faults' # 0
    BY <1>2, <1>4
  <2>5. QED
    BY <2>1, <2>3, <2>4 DEF Sums
<1>5. QED
  BY <1>3, <1>4

(* A step that leaves a task and its handling alone, failing or not. *)
LEMMA SoloKept ==
    ASSUME TypeOK, NEW s \in Tasks, Solo(s), Elsewhere(s), faults' \in Nat, faults' >= faults
    PROVE  Solo(s)'
<1>1. Alone(s)'
  BY DEF Solo, Alone, Elsewhere, Handling
<1>2. Refunded(s)' <=> Refunded(s)
  BY DEF Refunded, Elsewhere, Handling
<1>3. Held(s)' = Held(s) /\ UNCHANGED <<row[s], quota[s], settled[s], fundNet[s]>>
  BY <1>2 DEF Held, Elsewhere
<1>4. faults' = faults \/ faults' > faults
  BY HeldType
<1>5. QED
  BY <1>1, <1>3, <1>4, SumsKept DEF Solo

(* The loop turns to another task, or finds nothing to bill. *)
LEMMA BillElsewhere ==
    ASSUME TypeOK, NEW s \in Tasks, NEW w \in Workers, NEW t, NEW n, NEW next,
           t # s, item[w] # s \/ phase[w] \notin Handling, Bill(w, t, n, next), row'[s] = row[s],
           s \in full' <=> s \in full,
           UNCHANGED <<account, copy, seen>>, \A v \in Workers : todo'[v] \subseteq todo[v]
    PROVE  Elsewhere(s)
<1>1. UNCHANGED <<row[s], quota[s], settled[s], fundNet[s]>>
  BY DEF account
<1>2. \A v \in Workers : s \in todo'[v] => s \in todo[v] /\ copy'[v][s] = copy[v][s]
  OBVIOUS
<1>3. item'[w] # s /\ \A v \in Workers \ {w} : UNCHANGED <<item[v], phase[v], delta[v], after[v]>>
  BY DEF Bill, TypeOK
<1>4. QED
  BY <1>1, <1>2, <1>3 DEF Elsewhere

(* Where one loop runs, every step keeps the sums of a Suno task. *)
LEMMA SoloStep ==
    ASSUME Orphaned \subseteq Realtime, OneLoop, IInv, TypeOK', SoloInv, [Next]_vars
    PROVE  SoloInv'
<1> SUFFICES ASSUME NEW s \in Tasks \ Video PROVE Solo(s)'
  BY OffListStep DEF SoloInv
<1>a. /\ s \in Tasks /\ s \notin Video /\ s \notin Realtime /\ s \notin Orphaned /\ TypeOK
      /\ row \in [Tasks -> Statuses \cup {"none", "lost"}] /\ quota \in [Tasks -> Nat]
      /\ fundNet \in [Tasks -> Int]
      /\ phase \in [Workers -> Phases]
      /\ todo \in [Workers -> SUBSET Tasks] /\ item \in [Workers -> Tasks]
      /\ seen \in [Workers -> Statuses] /\ delta \in [Workers -> Int]
      /\ after \in [Workers -> Places]
      /\ copy \in [Workers -> [Tasks -> Statuses \cup {"none", "lost"}]]
  BY TaskAssumption DEF IInv, TypeOK, Phases, Places
<1>b. faults \in Nat /\ faults' \in Nat
  BY TaskAssumption DEF IInv, TypeOK
<1>c. Solo(s) /\ Alone(s) /\ Sums(s)
  BY DEF SoloInv, Solo
<1>f. Fault => faults' > faults
  BY <1>b DEF Fault
<1>g. UNCHANGED faults => faults' >= faults
  BY <1>b
<1>h. Fault => faults' >= faults
  BY <1>b DEF Fault
<1>o. \A v, w \in Workers : v = w
  BY DEF OneLoop
<1>q. quota[s] \in Nat /\ (-quota[s] = 0 <=> quota[s] = 0)
  <2>1. \A n \in Nat : -n = 0 <=> n = 0
    OBVIOUS
  <2>2. quota[s] \in Nat
    BY <1>a
  <2>3. QED
    BY <2>1, <2>2
<1>p. /\ "failure" \notin Pending /\ "success" \notin Pending /\ Pending \subseteq Statuses
      /\ "none" \notin Statuses /\ "lost" \notin Statuses /\ "failure" \in Statuses
      /\ "queued" \in Pending
  BY DEF Pending, Statuses, Final
<1>1. ASSUME NEW t \in Tasks, SubmitTask(t) PROVE Solo(s)'
  <2>1. PICK e \in Estimates, q \in Quotas, p \in Prices, ok \in BOOLEAN, stored \in BOOLEAN :
            /\ row[t] = "none"
            /\ faults' = faults + (IF ok THEN 0 ELSE 1) + (IF stored THEN 0 ELSE 1)
            /\ row' = [row EXCEPT ![t] = IF stored THEN "queued" ELSE "lost"]
            /\ quota' = [quota EXCEPT ![t] = q]
            /\ settled' = [settled EXCEPT ![t] = ok]
            /\ \E f, k \in {e, q} :
                  /\ ok => f = q /\ k = q
                  /\ fundNet' = [fundNet EXCEPT ![t] = f]
            /\ UNCHANGED <<full, worker>>
    BY <1>1, ZenonT(60) DEF SubmitTask
  <2>2. faults' >= faults /\ (faults' = 0 => ok = TRUE /\ stored = TRUE)
    BY <1>b, <2>1
  <2>3. CASE t # s
    <3>1. UNCHANGED <<row[s], quota[s], settled[s], fundNet[s]>>
      BY <1>a, <2>1, <2>3 DEF TypeOK
    <3>2. Elsewhere(s)
      BY <2>1, <3>1 DEF Elsewhere, worker
    <3>3. QED
      BY <1>a, <1>b, <1>c, <2>2, <3>2, SoloKept
  <2>4. CASE t = s
    <3>1. row[s] = "none"
      BY <2>1, <2>4
    <3>2. s \notin full /\ \A w \in Workers : s \notin todo[w] /\ (item[w] = s => phase[w] \notin Handling)
      <4>1. \A w \in Workers : s \in todo[w] => row[s] \in Pending
        BY <1>c DEF Alone, IInv, CopiesUnfinished
      <4>2. QED
        BY <1>c, <1>p, <3>1, <4>1 DEF Alone, Handling
    <3>3. /\ row'[s] \in {"queued", "lost"} /\ (faults' = 0 => row'[s] = "queued")
          /\ quota'[s] \in Nat /\ (ok => fundNet'[s] = quota'[s]) /\ settled'[s] = ok
      BY <1>a, <2>1, <2>2, <2>4, TaskAssumption DEF TypeOK
    <3>4. s \notin full' /\ \A w \in Workers : s \notin todo'[w] /\ (item'[w] = s => phase'[w] \notin Handling)
      BY <2>1, <3>2 DEF worker
    <3>5. ~ Refunded(s)'
      BY <3>3, <3>4 DEF Refunded, Handling
    <3>6. Alone(s)'
      BY <3>4 DEF Alone, Handling
    <3>7. Sums(s)'
      <4>1. Held(s)' = quota'[s]
        BY <3>3, <3>5 DEF Held
      <4>2. PICK a \in Nat : a = faults' * quota'[s]
        BY <1>b, <3>3, Slack
      <4>3. quota'[s] + a >= quota'[s]
        BY <3>3
      <4>4. QED
        BY <2>2, <3>3, <4>1, <4>2, <4>3 DEF Sums
    <3>8. QED
      BY <3>6, <3>7 DEF Solo
  <2>5. QED
    BY <2>3, <2>4
<1>2. ASSUME NEW t \in Tasks, UpstreamMoves(t) \/ TimeoutPasses(t) \/ RealtimeFetch(t) PROVE Solo(s)'
  <2>1. UNCHANGED <<row, full, account, worker, faults>>
    BY <1>2 DEF UpstreamMoves, TimeoutPasses, RealtimeFetch
  <2>2. Elsewhere(s)
    BY <2>1 DEF Elsewhere, account, worker
  <2>3. QED
    BY <1>a, <1>b, <1>c, <1>g, <2>1, <2>2, SoloKept
<1>3. ASSUME NEW t \in Tasks, RealtimeUpdate(t) PROVE Solo(s)'
  <2>1. t # s /\ UNCHANGED <<account, worker, faults>>
    BY <1>3, <1>a DEF RealtimeUpdate, IInv, OnlyRealtimeQueried
  <2>2. row'[s] = row[s] /\ (s \in full' <=> s \in full)
    BY <1>3, <1>a, <2>1, UpdateElsewhere DEF RealtimeUpdate
  <2>3. Elsewhere(s)
    BY <2>1, <2>2 DEF Elsewhere, account, worker
  <2>4. QED
    BY <1>a, <1>b, <1>c, <1>g, <2>1, <2>3, SoloKept
<1>4. ASSUME NEW w \in Workers, StartSweep(w) \/ StartPoll(w) \/ EndPoll(w) PROVE Solo(s)'
  <2>1. /\ UNCHANGED <<row, full, account, item, faults>> /\ phase[w] \notin Handling
        /\ \E q \in {"sweep", "poll", "idle"} : phase' = [phase EXCEPT ![w] = q]
        /\ \E ts \in SUBSET Unfinished : ReadTasks(w, ts)
    BY <1>4 DEF StartSweep, StartPoll, EndPoll, EndRound, Handling
  <2>2. \A v \in Workers : v = w /\ phase[v] \notin Handling /\ phase'[v] \notin Handling
    BY <1>a, <1>o, <2>1 DEF Handling
  <2>3. \A v \in Workers : s \in todo'[v] => row'[s] = copy'[v][s] /\ s \notin full'
    BY <1>a, <2>1, <2>2 DEF ReadTasks, Unfinished
  <2>4. UNCHANGED <<row[s], quota[s], settled[s], fundNet[s]>>
    BY <2>1 DEF account
  <2>5. Refunded(s)' <=> Refunded(s)
    BY <2>1, <2>2 DEF Refunded, Handling
  <2>6. Alone(s)'
    BY <1>c, <2>1, <2>2, <2>3 DEF Alone, Handling
  <2>7. Held(s)' = Held(s)
    BY <2>4, <2>5 DEF Held
  <2>8. QED
    BY <1>a, <1>b, <1>c, <2>1, <2>4, <2>6, <2>7, SumsKept DEF Solo
<1>5. ASSUME NEW w \in Workers, NEW t \in Tasks, SweepTask(w, t) PROVE Solo(s)'
  <2>1. /\ phase[w] = "sweep" /\ t \in todo[w] /\ todo' = [todo EXCEPT ![w] = todo[w] \ {t}]
        /\ UNCHANGED <<account, copy, seen>>
    BY <1>5, Zenon DEF SweepTask
  <2>2. \/ /\ UpdateWithStatus(t, copy[w][t], "failure", TRUE)
           /\ Bill(w, t, IF Won(t, copy[w][t]) THEN -quota[t] ELSE 0, "sweep")
           /\ UNCHANGED faults
        \/ /\ UpdateWithStatus(t, copy[w][t], "failure", TRUE) \/ UNCHANGED <<row, full>>
           /\ Bill(w, t, 0, "sweep")
           /\ Fault
    BY <1>5, Zenon DEF SweepTask
  <2>3. CASE t # s
    <3>1. row'[s] = row[s] /\ (s \in full' <=> s \in full)
      BY <1>a, <2>2, <2>3, UpdateElsewhere
    <3>2. phase[w] \notin Handling /\ \A v \in Workers : todo'[v] \subseteq todo[v]
      BY <1>a, <2>1 DEF Handling
    <3>3. Elsewhere(s)
      BY <1>a, <2>1, <2>2, <2>3, <3>1, <3>2, BillElsewhere
    <3>4. QED
      BY <1>a, <1>b, <1>c, <1>g, <1>h, <2>2, <3>3, SoloKept
  <2>4. CASE t = s
    <3>1. row[s] = copy[w][s] /\ row[s] \in Pending /\ s \notin full
      BY <1>c, <2>1, <2>4 DEF Alone, IInv, CopiesUnfinished
    <3>2. UNCHANGED <<quota[s], settled[s], fundNet[s]>> /\ s \notin todo'[w]
      BY <1>a, <2>1, <2>4 DEF account
    <3>3. ASSUME UpdateWithStatus(s, copy[w][s], "failure", TRUE)
          PROVE  row'[s] = "failure" /\ s \notin full'
      BY <1>a, <1>p, <3>1, <3>3 DEF UpdateWithStatus, Filled
    <3>4. CASE /\ UpdateWithStatus(t, copy[w][t], "failure", TRUE)
               /\ Bill(w, t, IF Won(t, copy[w][t]) THEN -quota[t] ELSE 0, "sweep")
               /\ UNCHANGED faults
      <4>1. row'[s] = "failure" /\ s \notin full' /\ Bill(w, s, -quota[s], "sweep")
        BY <2>4, <3>1, <3>3, <3>4 DEF Won
      <4>2. /\ item'[w] = s /\ delta'[w] = -quota[s] /\ after'[w] = "sweep"
            /\ phase'[w] = IF -quota[s] = 0 THEN "sweep" ELSE "fund"
        BY <1>a, <4>1 DEF Bill
      <4>3. Alone(s)'
        BY <1>o, <3>2, <4>1, <4>2 DEF Alone
      <4>4. ~ Refunded(s)
        BY <1>o, <1>p, <2>1, <3>1 DEF Refunded
      <4>5. Refunded(s)' <=> quota[s] = 0
        BY <1>o, <1>q, <4>1, <4>2 DEF Refunded
      <4>6. Held(s)' = Held(s)
        BY <1>p, <3>1, <3>2, <4>1, <4>4, <4>5 DEF Held
      <4>7. row[s] \in Statuses \ {"success"}
        BY <1>p, <3>1
      <4>8. QED
        BY <1>a, <1>b, <1>c, <3>2, <3>4, <4>3, <4>6, <4>7, SumsKept DEF Solo
    <3>5. CASE /\ UpdateWithStatus(t, copy[w][t], "failure", TRUE) \/ UNCHANGED <<row, full>>
               /\ Bill(w, t, 0, "sweep")
               /\ Fault
      <4>1. s \notin full' /\ phase'[w] = "sweep"
        BY <1>a, <2>4, <3>1, <3>3, <3>5 DEF Bill
      <4>2. Alone(s)'
        BY <1>o, <3>2, <4>1 DEF Alone
      <4>3. QED
        BY <1>a, <1>b, <1>c, <1>f, <3>2, <3>5, <4>2, SumsKept DEF Solo
    <3>6. QED
      BY <2>2, <3>4, <3>5
  <2>5. QED
    BY <2>3, <2>4
<1>6. ASSUME NEW w \in Workers, NEW t \in Tasks, FetchTask(w, t) PROVE Solo(s)'
  <2>1. /\ phase[w] = "poll" /\ t \in todo[w] /\ todo' = [todo EXCEPT ![w] = todo[w] \ {t}]
        /\ item' = [item EXCEPT ![w] = t] /\ phase' = [phase EXCEPT ![w] = "fetched"]
        /\ UNCHANGED <<row, full, account, copy, delta, after, faults>>
    BY <1>6 DEF FetchTask
  <2>2. UNCHANGED <<row[s], quota[s], settled[s], fundNet[s]>>
    BY <2>1 DEF account
  <2>3. phase'[w] = "fetched" /\ item'[w] = t /\ (s \in todo'[w] => s \in todo[w])
    BY <1>a, <2>1
  <2>4. Refunded(s)' <=> Refunded(s)
    BY <1>o, <2>1, <2>2, <2>3 DEF Refunded
  <2>5. t = s => row[s] \in Pending /\ s \notin full
    BY <1>c, <2>1 DEF Alone, IInv, CopiesUnfinished
  <2>6. Alone(s)'
    BY <1>c, <1>o, <2>1, <2>2, <2>3, <2>5 DEF Alone
  <2>7. Held(s)' = Held(s)
    BY <2>2, <2>4 DEF Held
  <2>8. QED
    BY <1>a, <1>b, <1>c, <2>1, <2>2, <2>6, <2>7, SumsKept DEF Solo
<1>7. ASSUME NEW w \in Workers, NEW t \in Tasks, FetchFails(w, t) \/ FailWithoutChannel(w, t)
      PROVE  Solo(s)'
  <2>1. /\ todo' = [todo EXCEPT ![w] = todo[w] \ {t}]
        /\ UNCHANGED <<account, phase, item, seen, delta, after, copy>>
        /\ \/ UNCHANGED <<row, full, faults>>
           \/ /\ t \in Orphaned /\ row' = [row EXCEPT ![t] = "failure"]
              /\ full' = Filled(t, "failure", TRUE) /\ UNCHANGED faults
           \/ UNCHANGED <<row, full>> /\ Fault
    BY <1>7, Zenon DEF FetchFails, FailWithoutChannel
  <2>2. row'[s] = row[s] /\ (s \in full' <=> s \in full)
    BY <1>a, <2>1 DEF Filled
  <2>3. \A v \in Workers : s \in todo'[v] => s \in todo[v]
    BY <1>a, <2>1
  <2>4. Elsewhere(s)
    BY <2>1, <2>2, <2>3 DEF Elsewhere, account
  <2>5. QED
    BY <1>a, <1>b, <1>c, <1>g, <1>h, <2>1, <2>4, SoloKept
<1>8. ASSUME NEW w \in Workers, UpdateVideoTask(w) PROVE Solo(s)'
  <2>1. item[w] # s /\ item[w] \in Tasks /\ UNCHANGED <<account, todo, copy, seen>>
    BY <1>8, <1>a DEF UpdateVideoTask
  <2>2. /\ UNCHANGED faults \/ Fault
        /\ \E n : Bill(w, item[w], n, "poll")
        /\ \/ UNCHANGED <<row, full>>
           \/ \E done \in BOOLEAN : UpdateWithStatus(item[w], copy[w][item[w]], seen[w], done)
    BY <1>8, Zenon DEF UpdateVideoTask
  <2>3. row'[s] = row[s] /\ (s \in full' <=> s \in full)
    BY <1>a, <2>1, <2>2, UpdateElsewhere
  <2>4. Elsewhere(s)
    BY <1>a, <2>1, <2>2, <2>3, BillElsewhere
  <2>5. QED
    BY <1>a, <1>b, <1>c, <1>g, <1>h, <2>2, <2>4, SoloKept
<1>9. ASSUME NEW w \in Workers, UpdateSunoTask(w) PROVE Solo(s)'
  <2>1. phase[w] = "fetched" /\ UNCHANGED <<row, full, account, todo, copy, seen, faults>>
    BY <1>9 DEF UpdateSunoTask
  <2>2. CASE item[w] # s
    <3>1. PICK n, next : Bill(w, item[w], n, next)
      BY <1>9 DEF UpdateSunoTask
    <3>2. Elsewhere(s)
      BY <1>a, <2>1, <2>2, <3>1, BillElsewhere
    <3>3. QED
      BY <1>a, <1>b, <1>c, <1>g, <2>1, <3>2, SoloKept
  <2>3. CASE item[w] = s
    <3>1. row[s] \in Pending /\ s \notin full /\ UNCHANGED <<row[s], quota[s], settled[s], fundNet[s]>>
      BY <1>c, <2>1, <2>3 DEF Alone, account
    <3>2. s \notin todo'[w]
      BY <2>1, <2>3 DEF SoloInv, OffList, Handling
    <3>3. ~ Refunded(s)
      BY <1>o, <1>p, <2>1, <3>1 DEF Refunded
    <3>4. ASSUME Alone(s)', Refunded(s)' => quota[s] = 0 PROVE Solo(s)'
      <4>1. Held(s)' = Held(s)
        BY <1>p, <3>1, <3>3, <3>4 DEF Held
      <4>2. QED
        BY <1>a, <1>b, <1>c, <2>1, <3>1, <3>4, <4>1, SumsKept DEF Solo
    <3>5. ASSUME Bill(w, s, 0, "poll") PROVE Solo(s)'
      <4>1. item'[w] = s /\ phase'[w] = "poll"
        BY <1>a, <3>5 DEF Bill
      <4>2. ~ Refunded(s)'
        BY <1>o, <1>p, <2>1, <3>1, <4>1 DEF Refunded
      <4>3. Alone(s)'
        BY <1>o, <2>1, <3>1, <3>2, <4>1 DEF Alone
      <4>4. QED
        BY <3>4, <4>2, <4>3
    <3>6. ASSUME seen[w] # "failure", Bill(w, s, 0, "save") PROVE Solo(s)'
      <4>1. item'[w] = s /\ phase'[w] = "save" /\ seen'[w] # "failure"
        BY <1>a, <2>1, <3>6 DEF Bill
      <4>2. ~ Refunded(s)'
        BY <1>o, <1>p, <2>1, <3>1, <4>1 DEF Refunded
      <4>3. Alone(s)'
        BY <1>o, <2>1, <3>1, <3>2, <4>1 DEF Alone
      <4>4. QED
        BY <3>4, <4>2, <4>3
    <3>7. ASSUME Bill(w, s, -quota[s], "save_full") PROVE Solo(s)'
      <4>1. /\ item'[w] = s /\ delta'[w] = -quota[s] /\ after'[w] = "save_full"
            /\ phase'[w] = IF -quota[s] = 0 THEN "save_full" ELSE "fund"
        BY <1>a, <3>7 DEF Bill
      <4>2. Refunded(s)' => quota[s] = 0
        BY <1>o, <1>p, <1>q, <2>1, <3>1, <4>1 DEF Refunded
      <4>3. Alone(s)'
        BY <1>o, <2>1, <3>1, <3>2, <4>1 DEF Alone
      <4>4. QED
        BY <3>4, <4>2, <4>3
    <3>8. QED
      BY <1>9, <2>3, <3>5, <3>6, <3>7 DEF UpdateSunoTask
  <2>4. QED
    BY <2>2, <2>3
<1>10. ASSUME NEW w \in Workers, SaveTask(w) PROVE Solo(s)'
  <2>1. /\ phase[w] \in {"save", "save_full"} /\ phase' = [phase EXCEPT ![w] = "poll"]
        /\ UNCHANGED <<account, todo, copy, item, seen, delta, after>>
        /\ \/ /\ row' = [row EXCEPT ![item[w]] = seen[w]]
              /\ full' = Filled(item[w], seen[w], phase[w] = "save_full")
              /\ UNCHANGED faults
           \/ UNCHANGED <<row, full>> /\ Fault
    BY <1>10, Zenon DEF SaveTask
  <2>2. CASE item[w] # s
    <3>1. UNCHANGED <<row[s], quota[s], settled[s], fundNet[s]>> /\ (s \in full' <=> s \in full)
      BY <1>a, <2>1, <2>2 DEF account, Filled
    <3>2. \A v \in Workers : v = w /\ item[v] # s /\ item'[v] # s
      BY <1>o, <2>1, <2>2
    <3>3. Elsewhere(s)
      BY <2>1, <3>1, <3>2 DEF Elsewhere
    <3>4. QED
      BY <1>a, <1>b, <1>c, <1>g, <1>h, <2>1, <3>3, SoloKept
  <2>3. CASE item[w] = s
    <3>1. /\ row[s] \in Pending /\ s \notin full /\ UNCHANGED <<quota[s], settled[s], fundNet[s]>>
          /\ phase'[w] = "poll" /\ (phase[w] = "save" => seen[w] # "failure") /\ seen[w] \in Statuses
      BY <1>a, <1>c, <2>1, <2>3 DEF Alone, account
    <3>2. s \notin todo'[w]
      BY <2>1, <2>3 DEF SoloInv, OffList, Handling
    <3>3. ASSUME s \in full' => row'[s] \in Pending PROVE Alone(s)'
      BY <1>o, <3>1, <3>2, <3>3 DEF Alone
    <3>4. CASE UNCHANGED <<row, full>> /\ Fault
      BY <1>a, <1>b, <1>c, <1>f, <3>1, <3>3, <3>4, SumsKept DEF Solo
    <3>5. CASE /\ row' = [row EXCEPT ![item[w]] = seen[w]]
               /\ full' = Filled(item[w], seen[w], phase[w] = "save_full")
               /\ UNCHANGED faults
      <4>1. /\ row'[s] = seen[w]
            /\ s \in full' <=> seen[w] \in Pending /\ phase[w] = "save_full"
        BY <1>a, <2>3, <3>5 DEF Filled
      <4>2. Alone(s)'
        BY <3>3, <4>1
      <4>3. Refunded(s) <=> phase[w] = "save_full"
        BY <1>o, <1>p, <2>1, <2>3, <3>1 DEF Refunded
      <4>4. Refunded(s)' <=> row'[s] = "failure" \/ s \in full'
        BY <1>o, <3>1 DEF Refunded
      <4>5. CASE seen[w] = "success"
        BY <1>a, <1>b, <1>c, <3>1, <3>5, <4>1, <4>2, <4>5, SumsKept DEF Solo
      <4>6. CASE seen[w] # "success"
        <5>1. seen[w] = "failure" \/ seen[w] \in Pending
          BY <3>1, <4>6 DEF Statuses, Final
        <5>2. Refunded(s)' <=> Refunded(s)
          BY <1>p, <2>1, <3>1, <4>1, <4>3, <4>4, <5>1
        <5>3. Held(s)' = Held(s)
          BY <1>p, <3>1, <4>1, <4>6, <5>2 DEF Held
        <5>4. row[s] \in Statuses \ {"success"}
          BY <1>p, <3>1
        <5>5. QED
          BY <1>a, <1>b, <1>c, <3>1, <3>5, <4>2, <5>3, <5>4, SumsKept DEF Solo
      <4>7. QED
        BY <4>5, <4>6
    <3>6. QED
      BY <2>1, <3>4, <3>5
  <2>4. QED
    BY <2>2, <2>3
<1>11. ASSUME NEW w \in Workers, AdjustFunding(w) PROVE Solo(s)'
  <2>1. /\ phase[w] = "fund"
        /\ UNCHANGED <<row, full, quota, settled, todo, copy, item, seen, delta, after>>
        /\ \/ /\ fundNet' = [fundNet EXCEPT ![item[w]] = @ + delta[w]]
              /\ phase' = [phase EXCEPT ![w] = "token"]
              /\ UNCHANGED faults
           \/ /\ fundNet' \in {fundNet, [fundNet EXCEPT ![item[w]] = @ + delta[w]]}
              /\ phase' = [phase EXCEPT ![w] = after[w]]
              /\ Fault
    BY <1>11, Zenon DEF AdjustFunding
  <2>2. CASE item[w] # s
    <3>1. UNCHANGED <<row[s], quota[s], settled[s], fundNet[s]>>
      BY <1>a, <2>1, <2>2
    <3>2. \A v \in Workers : v = w /\ item[v] # s /\ item'[v] # s
      BY <1>o, <2>1, <2>2
    <3>3. Elsewhere(s)
      BY <2>1, <3>1, <3>2 DEF Elsewhere
    <3>4. QED
      BY <1>a, <1>b, <1>c, <1>g, <1>h, <2>1, <3>3, SoloKept
  <2>3. CASE item[w] = s
    <3>1. /\ delta[w] = -quota[s]
          /\ \/ row[s] = "failure" /\ after[w] = "sweep"
             \/ row[s] \in Pending /\ s \notin full /\ after[w] = "save_full"
      BY <1>c, <2>1, <2>3 DEF Alone
    <3>2. s \notin full
      BY <1>c, <1>p, <3>1 DEF Alone
    <3>3. s \notin todo'[w]
      BY <2>1, <2>3 DEF SoloInv, OffList, Handling
    <3>4. ~ Refunded(s) /\ row[s] \in Statuses \ {"success"}
      BY <1>o, <1>p, <2>1, <2>3, <3>1, <3>2 DEF Refunded
    <3>5. Held(s) = quota[s]
      BY <3>4 DEF Held
    <3>6. PICK a \in Nat : a = faults * quota[s] /\ (settled[s] => fundNet[s] + a >= quota[s])
      BY <1>a, <1>c, <3>5, HeldType DEF Sums
    <3>7. fundNet[s] \in Int /\ quota[s] \in Nat /\ fundNet[s] + delta[w] = fundNet[s] - quota[s]
      BY <1>a, <3>1
    <3>8. CASE /\ fundNet' = [fundNet EXCEPT ![item[w]] = @ + delta[w]]
               /\ phase' = [phase EXCEPT ![w] = "token"]
               /\ UNCHANGED faults
      <4>1. fundNet'[s] = fundNet[s] - quota[s] /\ phase'[w] = "token"
        BY <1>a, <2>3, <3>7, <3>8
      <4>2. Alone(s)'
        BY <1>o, <2>1, <2>3, <3>1, <3>2, <3>3, <4>1 DEF Alone
      <4>3. Held(s)' = 0
        BY <2>1, <2>3, <4>1 DEF Held, Refunded
      <4>4. faults = 0 => fundNet[s] = quota[s]
        BY <1>c, <3>4, <3>5 DEF Sums
      <4>5. settled[s] => fundNet[s] - quota[s] + a >= 0
        BY <3>6, <3>7
      <4>6. faults = 0 => fundNet'[s] = 0
        BY <3>7, <4>1, <4>4
      <4>7. Sums(s)'
        BY <2>1, <3>6, <3>8, <4>1, <4>3, <4>5, <4>6 DEF Sums
      <4>8. QED
        BY <4>2, <4>7 DEF Solo
    <3>9. CASE /\ fundNet' \in {fundNet, [fundNet EXCEPT ![item[w]] = @ + delta[w]]}
               /\ phase' = [phase EXCEPT ![w] = after[w]]
               /\ Fault
      <4>1. fundNet'[s] \in {fundNet[s], fundNet[s] - quota[s]} /\ phase'[w] = after[w]
        BY <1>a, <2>3, <3>7, <3>9
      <4>2. Alone(s)'
        BY <1>c, <1>o, <2>1, <2>3, <3>1, <3>2, <3>3, <4>1 DEF Alone
      <4>3. Held(s)' \in {0, quota[s]}
        BY <2>1 DEF Held
      <4>4. PICK b \in Nat : b = faults' * quota[s] /\ b >= a + quota[s]
        BY <1>b, <1>f, <3>6, <3>7, <3>9, Slack
      <4>5. settled[s] => fundNet'[s] + b >= Held(s)'
        BY <3>6, <3>7, <4>1, <4>3, <4>4
      <4>6. faults' # 0
        BY <1>b, <1>f, <3>9
      <4>7. Sums(s)'
        BY <2>1, <4>4, <4>5, <4>6 DEF Sums
      <4>8. QED
        BY <4>2, <4>7 DEF Solo
    <3>10. QED
      BY <2>1, <3>8, <3>9
  <2>4. QED
    BY <2>2, <2>3
<1>12. ASSUME NEW w \in Workers, AdjustToken(w) PROVE Solo(s)'
  <2>1. /\ phase[w] = "token" /\ phase' = [phase EXCEPT ![w] = after[w]]
        /\ UNCHANGED <<row, full, quota, settled, fundNet, todo, copy, item, seen, delta, after>>
        /\ UNCHANGED faults \/ Fault
    BY <1>12, Zenon DEF AdjustToken
  <2>2. CASE item[w] # s
    <3>1. \A v \in Workers : v = w /\ item[v] # s /\ item'[v] # s
      BY <1>o, <2>1, <2>2
    <3>2. Elsewhere(s)
      BY <2>1, <3>1 DEF Elsewhere
    <3>3. QED
      BY <1>a, <1>b, <1>c, <1>g, <1>h, <2>1, <3>2, SoloKept
  <2>3. CASE item[w] = s
    <3>1. phase'[w] = after[w]
      BY <1>a, <2>1
    <3>2. \/ row[s] = "failure" /\ after[w] = "sweep"
          \/ row[s] \in Pending /\ s \notin full /\ after[w] = "save_full"
      BY <1>c, <2>1, <2>3 DEF Alone
    <3>3. s \notin todo'[w]
      BY <2>1, <2>3 DEF SoloInv, OffList, Handling
    <3>4. Refunded(s) /\ Refunded(s)'
      BY <1>o, <2>1, <2>3, <3>1, <3>2 DEF Refunded
    <3>5. Held(s)' = Held(s)
      BY <3>4 DEF Held
    <3>6. Alone(s)'
      BY <1>c, <1>o, <2>1, <2>3, <3>1, <3>2, <3>3 DEF Alone
    <3>7. QED
      BY <1>a, <1>b, <1>c, <1>f, <2>1, <3>5, <3>6, SumsKept DEF Solo
  <2>4. QED
    BY <2>2, <2>3
<1>13. ASSUME NEW w \in Workers, Crash(w) PROVE Solo(s)'
  <2>1. /\ UNCHANGED <<row, full, account, item>> /\ Fault
        /\ phase' = [phase EXCEPT ![w] = "idle"] /\ todo' = [todo EXCEPT ![w] = {}]
    BY <1>13 DEF Crash, EndRound, ReadTasks
  <2>2. \A v \in Workers : phase'[v] = "idle" /\ todo'[v] = {}
    BY <1>a, <1>o, <2>1
  <2>3. Alone(s)'
    BY <1>c, <2>1, <2>2 DEF Alone
  <2>4. UNCHANGED <<quota[s], settled[s], fundNet[s]>>
    BY <2>1 DEF account
  <2>5. QED
    BY <1>a, <1>b, <1>c, <1>f, <2>1, <2>3, <2>4, SumsKept DEF Solo
<1>14. CASE UNCHANGED vars
  <2>1. Elsewhere(s) /\ UNCHANGED faults
    BY <1>14 DEF Elsewhere, vars, account, worker
  <2>2. QED
    BY <1>a, <1>b, <1>c, <1>g, <2>1, SoloKept
<1>15. QED
  BY <1>1, <1>2, <1>3, <1>4, <1>5, <1>6, <1>7, <1>8, <1>9, <1>10, <1>11, <1>12, <1>13, <1>14
  DEF Next, WorkerStep

(* Where one loop runs and no channel is missing, a failed task has been   *)
(* given its quota back once the loop is through with it, unless a         *)
(* statement failed or a user's query moved its status: by                 *)
(* sweepTimedOutTasks, updateVideoSingleTask or updateSunoTasks, a Suno    *)
(* task with a reason only included.  And n failed statements and crashes  *)
(* let a task be given back at most n quotas more than it paid.            *)
THEOREM FailuresRefunded ==
    ASSUME Orphaned \subseteq Realtime, OneLoop
    PROVE  Spec => []FailedTaskRefunded
<1>1. Init => SoloInv
  <2> SUFFICES ASSUME Init PROVE SoloInv
    OBVIOUS
  <2> USE DEF Init
  <2>1. OffList
    BY DEF OffList, Handling
  <2>2. ASSUME NEW s \in Tasks \ Video PROVE Alone(s) /\ Sums(s)
    <3>1. Alone(s)
      BY DEF Alone
    <3>2. Sums(s)
      BY DEF Sums, Statuses, Pending, Final
    <3>3. QED
      BY <3>1, <3>2
  <2>3. QED
    BY <2>1, <2>2 DEF SoloInv, Solo
<1>2. IInv /\ TypeOK' /\ SoloInv /\ [Next]_vars => SoloInv'
  BY SoloStep
<1>3. Spec => []SoloInv
  <2>1. IInv => TypeOK
    BY DEF IInv
  <2>2. QED
    BY <1>1, <1>2, <2>1, Inductive, PTL DEF Spec
<1>4. IInv /\ SoloInv /\ BilledExactly => FailedTaskRefunded
  <2> SUFFICES ASSUME IInv, SoloInv, BilledExactly, NEW t \in Tasks \ Realtime
               PROVE  /\ faults = 0 /\ ~Billing(t) /\ (row[t] = "failure" \/ t \in full \ Video) =>
                            fundNet[t] = 0
                      /\ settled[t] => fundNet[t] >= -(faults * quota[t])
    BY DEF FailedTaskRefunded
  <2>1. TypeOK /\ t \in Tasks
    BY DEF IInv
  <2>2. PICK a \in Nat : a = faults * quota[t]
    BY <2>1, HeldType
  <2>3. fundNet[t] \in Int /\ quota[t] \in Nat /\ Held(t) \in Nat
    BY <2>1, HeldType
  <2>4. CASE t \in Video
    <3>1. t \in Guarded
      BY <2>4 DEF Guarded
    <3>2. faults = 0 /\ ~Billing(t) /\ row[t] = "failure" => fundNet[t] = 0
      BY <3>1 DEF BilledExactly, Due, Statuses, Final
    <3>3. Due(t) \in Nat
      BY <2>1 DEF Due, FinalPrice, TypeOK
    <3>4. settled[t] => fundNet[t] \in {quota[t], Due(t)}
      BY <3>1 DEF IInv, Ledger
    <3>5. settled[t] => fundNet[t] >= -a
      BY <2>3, <3>3, <3>4
    <3>6. QED
      BY <2>2, <2>4, <3>2, <3>5
  <2>5. CASE t \notin Video
    <3>1. Alone(t) /\ Sums(t)
      BY <2>5 DEF SoloInv, Solo
    <3>2. ASSUME faults = 0, ~Billing(t), row[t] = "failure" \/ t \in full PROVE fundNet[t] = 0
      <4>1. Refunded(t)
        BY <3>2 DEF Refunded, Billing
      <4>2. row[t] \in Statuses \ {"success"}
        BY <3>1, <3>2 DEF Alone, Statuses, Final, Pending
      <4>3. QED
        BY <3>1, <3>2, <4>1, <4>2 DEF Sums, Held
    <3>3. settled[t] => fundNet[t] + a >= Held(t)
      BY <2>2, <3>1 DEF Sums
    <3>4. settled[t] => fundNet[t] >= -a
      BY <2>3, <3>3
    <3>5. QED
      BY <2>2, <3>2, <3>4
  <2>6. QED
    BY <2>4, <2>5
<1>5. QED
  BY <1>3, <1>4, Inductive, BillsExactly, PTL
=============================================================================
