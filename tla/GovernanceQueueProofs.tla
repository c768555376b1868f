------------------------ MODULE GovernanceQueueProofs ------------------------
(***************************************************************************)
(* Proofs about GovernanceQueue, for any number of requests, any size of   *)
(* the channel, any number of retries, failed statements and crashes.      *)
(*                                                                         *)
(* Four writers change an admission row in any order, so none of the       *)
(* properties follows from the row alone.  The invariant adds to each what *)
(* the writers carry with them: that a handler or a worker about to write  *)
(* "released" has relayed the request; that a retry that was granted is in *)
(* one place only, the row or the hands of the worker, until it is used    *)
(* up by a replay; and that no handler is left to write a row whose        *)
(* payload is deleted, or found to be one to delete.                       *)
(***************************************************************************)
EXTENDS GovernanceQueue, FiniteSetTheorems, TLAPS

\* Who is about to write "released" has seen the request being relayed.
WritersServed ==
    /\ \A r \in Requests : pc[r] = "releasing" => r \in served
    /\ worker.state = "succeeded" => worker.item \in served

\* A retry that was granted waits in the row, or the worker has claimed it.
InRow(r)   == IF row[r] = "retry_pending" THEN 1 ELSE 0
Claimed(r) == IF worker.state \in {"claimed", "waiting"} /\ worker.item = r THEN 1 ELSE 0
GrantsCover == \A r \in Requests : replays[r] + InRow(r) + Claimed(r) <= retries[r]

\* A payload has an admission, and the handler of a request whose payload is
\* deleted, or about to be, has ended.
DeletedAtRest ==
    \A r \in Requests :
        /\ payload[r] = "stored" => row[r] # "none"
        /\ payload[r] = "deleted" \/ r \in condemned =>
              row[r] = "released" /\ pc[r] \in {"done", "dead"}

IInv ==
    /\ QueueInv
    /\ WritersServed
    /\ ReleasedMeansServed
    /\ GrantsCover
    /\ DeletedAtRest

-----------------------------------------------------------------------------
(* The handlers that hold a slot *)

HoldingPc == {"admitting", "running"}

(* The handlers that hold a slot are finitely many.  *)
LEMMA HoldingFinite == IsFiniteSet(Holding) /\ Cardinality(Holding) \in Nat
BY QueueAssumption, FS_Subset, FS_CardinalityType DEF Holding

(* A handler that takes a slot is one more ... *)
LEMMA HoldingGrows ==
    ASSUME TypeOK, NEW r \in Requests, NEW p \in HoldingPc, pc[r] \notin HoldingPc,
           pc' = [pc EXCEPT ![r] = p]
    PROVE  Cardinality(Holding') = Cardinality(Holding) + 1
<1>1. Holding' = Holding \cup {r} /\ r \notin Holding
  BY DEF Holding, HoldingPc, TypeOK
<1>2. QED
  BY <1>1, HoldingFinite, FS_AddElement

(* ... one that gives its slot back is one less ... *)
LEMMA HoldingShrinks ==
    ASSUME TypeOK, NEW r \in Requests, NEW p, p \notin HoldingPc, pc[r] \in HoldingPc,
           pc' = [pc EXCEPT ![r] = p]
    PROVE  /\ Cardinality(Holding') = Cardinality(Holding) - 1
           /\ Cardinality(Holding) > 0
<1>1. Holding' = Holding \ {r} /\ r \in Holding
  BY DEF Holding, HoldingPc, TypeOK
<1>2. Cardinality(Holding') = Cardinality(Holding) - 1
  BY <1>1, HoldingFinite, FS_RemoveElement
<1>3. Cardinality(Holding) # 0
  BY <1>1, HoldingFinite, FS_EmptySet
<1>4. QED
  BY <1>2, <1>3, HoldingFinite

(* ... and every other move leaves the number alone. *)
LEMMA HoldingKept ==
    ASSUME TypeOK, NEW r \in Requests, NEW p, p \in HoldingPc <=> pc[r] \in HoldingPc,
           pc' = [pc EXCEPT ![r] = p]
    PROVE  Holding' = Holding
BY DEF Holding, HoldingPc, TypeOK

-----------------------------------------------------------------------------
(* Init *)

(* The worker that has nothing to do has the type of a worker. *)
LEMMA WorkerIdleType ==
    WorkerIdle \in [state : {"idle"}, todo : SUBSET Requests, item : Requests]
BY QueueAssumption DEF WorkerIdle

(* The initial states satisfy the invariant. *)
LEMMA IInvInit == Init => IInv
<1> SUFFICES ASSUME Init PROVE IInv
  OBVIOUS
<1> USE QueueAssumption DEF Init
<1>1. TypeOK
  BY WorkerIdleType DEF TypeOK, Statuses, Active
<1>2. Holding = {}
  BY DEF Holding
<1>3. SlotsExact
  BY <1>2, FS_EmptySet, WorkerIdleType DEF SlotsExact, Executing
<1>4. WritersServed /\ ReleasedMeansServed /\ DeletedAtRest
  BY WorkerIdleType DEF WritersServed, ReleasedMeansServed, DeletedAtRest
<1>5. GrantsCover
  BY WorkerIdleType DEF GrantsCover, InRow, Claimed
<1>6. QED
  BY <1>1, <1>3, <1>4, <1>5 DEF IInv, QueueInv

-----------------------------------------------------------------------------
(* The steps *)

(* A statement that sets a status changes the row of one request. *)
LEMMA WriteFacts ==
    ASSUME TypeOK, NEW r \in Requests, NEW status \in Statuses, Write(r, status)
    PROVE  /\ row' \in [Requests -> Statuses \cup {"none"}]
           /\ ended' \subseteq Requests
           /\ row'[r] = status
           /\ \A s \in Requests \ {r} : row'[s] = row[s]
BY DEF Write, TypeOK

(* A statement that may fail writes the row or leaves it. *)
LEMMA UpdateFacts ==
    ASSUME TypeOK, NEW r \in Requests, NEW status \in Statuses, UpdateAdmission(r, status)
    PROVE  /\ row' \in [Requests -> Statuses \cup {"none"}]
           /\ ended' \subseteq Requests
           /\ faults' \in 0 .. MaxFaults
           /\ row'[r] \in {row[r], status}
           /\ \A s \in Requests \ {r} : row'[s] = row[s]
<1>1. faults' \in 0 .. MaxFaults
  BY QueueAssumption DEF UpdateAdmission, Fault, TypeOK
<1>2. CASE Write(r, status)
  BY <1>1, <1>2, WriteFacts
<1>3. CASE UNCHANGED <<row, ended>>
  BY <1>1, <1>3 DEF TypeOK
<1>4. QED
  BY <1>2, <1>3 DEF UpdateAdmission

(* What the worker does to the rows: it claims or finishes its item, and only *)
(* a row that waits for it or that it is processing.                          *)
LEMMA ClaimFacts ==
    ASSUME TypeOK, NEW r \in Requests, ClaimReplay(r)
    PROVE  /\ row' \in [Requests -> Statuses \cup {"none"}]
           /\ ended' \subseteq Requests
           /\ faults' \in 0 .. MaxFaults
           /\ \A s \in Requests \ {r} : row'[s] = row[s]
           /\ row'[r] = row[r] \/ (row[r] = "retry_pending" /\ row'[r] = "replay_processing")
           /\ \/ worker'.state \in {"idle", "batch"}
              \/ /\ row[r] = "retry_pending" /\ row'[r] = "replay_processing"
                 /\ worker'.state = "claimed" /\ worker'.item = r
           /\ worker' \in [state : {"idle", "batch", "claimed"}, todo : SUBSET Requests,
                           item : Requests]
<1> USE QueueAssumption
<1>1. "replay_processing" \in Statuses
  BY DEF Statuses
<1>2. faults' \in 0 .. MaxFaults
  BY DEF ClaimReplay, Fault, TypeOK
<1>3. CASE /\ row[r] = "retry_pending"
           /\ Write(r, "replay_processing")
           /\ worker' = [state |-> "claimed", todo |-> worker.todo \ {r}, item |-> r]
  BY <1>1, <1>2, <1>3, WriteFacts DEF TypeOK
<1>4. CASE /\ worker.state = "batch"
           /\ worker' = [worker EXCEPT !.todo = @ \ {r}]
           /\ UNCHANGED <<row, ended>>
  BY <1>2, <1>4 DEF TypeOK
<1>5. CASE row[r] = "retry_pending" /\ Write(r, "replay_processing") /\ AbortBatch
  BY <1>1, <1>2, <1>5, WriteFacts, WorkerIdleType DEF AbortBatch
<1>6. CASE UNCHANGED <<row, ended>> /\ AbortBatch
  BY <1>2, <1>6, WorkerIdleType DEF AbortBatch, TypeOK
<1>7. QED
  BY <1>3, <1>4, <1>5, <1>6 DEF ClaimReplay

(* The worker finishes only the row it is processing, with the status its  *)
(* replay earned.                                                           *)
LEMMA FinishFacts ==
    ASSUME TypeOK, FinishReplay
    PROVE  /\ row' \in [Requests -> Statuses \cup {"none"}]
           /\ ended' \subseteq Requests
           /\ faults' \in 0 .. MaxFaults
           /\ \A s \in Requests \ {worker.item} : row'[s] = row[s]
           /\ \/ row'[worker.item] = row[worker.item]
              \/ /\ row[worker.item] = "replay_processing"
                 /\ row'[worker.item] = ReplayStatus
           /\ worker' \in [state : {"idle", "batch"}, todo : SUBSET Requests, item : Requests]
<1> USE QueueAssumption
<1>1. ReplayStatus \in Statuses /\ worker.item \in Requests
  BY DEF ReplayStatus, Statuses, TypeOK
<1>2. faults' \in 0 .. MaxFaults
  BY DEF FinishReplay, Fault, TypeOK
<1>3. worker' \in [state : {"idle", "batch"}, todo : SUBSET Requests, item : Requests]
  BY WorkerIdleType DEF FinishReplay, WorkerMoves, AbortBatch, TypeOK
<1>4. CASE row[worker.item] = "replay_processing" /\ Write(worker.item, ReplayStatus)
  BY <1>1, <1>2, <1>3, <1>4, WriteFacts
<1>5. CASE UNCHANGED <<row, ended>>
  BY <1>2, <1>3, <1>5 DEF TypeOK
<1>6. QED
  BY <1>4, <1>5 DEF FinishReplay

(* The status the recovery task gives is neither "released" nor one that asks *)
(* for a replay.                                                              *)
LEMMA RecoverFacts ==
    ASSUME TypeOK, NEW r \in Requests, Recover(r)
    PROVE  /\ row' \in [Requests -> Statuses \cup {"none"}]
           /\ ended' \subseteq Requests
           /\ row[r] \in {"queued", "admitted", "replay_processing"}
           /\ row'[r] \in {"canceled", "timeout"}
           /\ \A s \in Requests \ {r} : row'[s] = row[s]
<1>1. RecoveredStatus(row[r]) \in {"canceled", "timeout"} /\ {"canceled", "timeout"} \subseteq Statuses
  BY DEF RecoveredStatus, Statuses
<1>2. Write(r, RecoveredStatus(row[r]))
  BY DEF Recover
<1>3. row[r] \in {"queued", "admitted", "replay_processing"}
  BY DEF Recover, Stale
<1>4. QED
  BY <1>1, <1>2, <1>3, WriteFacts

(* Every step keeps the types; a request that runs has a slot to give back. *)
LEMMA SlotsPositive ==
    ASSUME QueueInv, NEW r \in Requests, pc[r] \in HoldingPc
    PROVE  slots > 0
<1>1. Holding # {}
  BY DEF Holding, HoldingPc
<1>2. Cardinality(Holding) # 0
  BY <1>1, HoldingFinite, FS_EmptySet
<1>3. QED
  BY <1>2, HoldingFinite DEF QueueInv, SlotsExact, Executing

(* The types. *)
LEMMA TypeStep == IInv /\ [Next]_vars => TypeOK'
<1> SUFFICES ASSUME IInv, [Next]_vars PROVE TypeOK'
  OBVIOUS
<1> USE QueueAssumption DEF IInv, QueueInv, TypeOK, history, payloads
<1>1. ASSUME NEW r \in Requests, CreateAdmission(r) PROVE TypeOK'
  BY <1>1 DEF CreateAdmission, Fault, Statuses, Active
<1>2. ASSUME NEW r \in Requests, TakeSlot(r) PROVE TypeOK'
  BY <1>2 DEF TakeSlot, SlotFree, Active
<1>3. ASSUME NEW r \in Requests, TimerFires(r) PROVE TypeOK'
  BY <1>3 DEF TimerFires, memory, Active
<1>4. ASSUME NEW r \in Requests, WaitCanceled(r) PROVE TypeOK'
  BY <1>4 DEF WaitCanceled, memory, Active
<1>5. ASSUME NEW r \in Requests, ReturnAdmitted(r) PROVE TypeOK'
  <2>1. "admitted" \in Statuses
    BY DEF Statuses
  <2>2. QED
    BY <1>5, <2>1, UpdateFacts DEF ReturnAdmitted, Active
<1>6. ASSUME NEW r \in Requests, ReturnRejected(r) PROVE TypeOK'
  <2>1. PICK status \in Statuses : UpdateAdmission(r, status)
    BY <1>6 DEF ReturnRejected, Statuses
  <2>2. QED
    BY <1>6, <2>1, UpdateFacts DEF ReturnRejected
<1>7. ASSUME NEW r \in Requests, ReturnReleased(r) PROVE TypeOK'
  <2>1. PICK status \in Statuses : UpdateAdmission(r, status)
    BY <1>7 DEF ReturnReleased, Statuses
  <2>2. QED
    BY <1>7, <2>1, UpdateFacts DEF ReturnReleased, memory
<1>8. ASSUME NEW r \in Requests, ReleaseSlot(r) PROVE TypeOK'
  <2>1. slots - 1 \in 0 .. MaxConcurrent
    BY <1>8, SlotsPositive DEF ReleaseSlot, HoldingPc
  <2>2. QED
    BY <1>8, <2>1 DEF ReleaseSlot, Active
<1>9. ASSUME NEW r \in Requests, ClientGone(r) PROVE TypeOK'
  BY <1>9 DEF ClientGone, memory
<1>10. ASSUME NEW r \in Requests, WaitPasses(r) PROVE TypeOK'
  BY <1>10 DEF WaitPasses, memory
<1>11. ASSUME NEW r \in Requests, CancelQueued(r) PROVE TypeOK'
  <2>1. "canceled" \in Statuses
    BY DEF Statuses
  <2>2. QED
    BY <1>11, <2>1, WriteFacts DEF CancelQueued
<1>12. ASSUME NEW r \in Requests, RetryAdmission(r) PROVE TypeOK'
  <2>1. "retry_pending" \in Statuses
    BY DEF Statuses
  <2>2. QED
    BY <1>12, <2>1, WriteFacts DEF RetryAdmission, memory
<1>13. ASSUME NEW r \in Requests, Recover(r) PROVE TypeOK'
  BY <1>13, RecoverFacts DEF Recover, memory
<1>14. ASSUME NEW r \in Requests, CheckPayload(r) \/ DeletePayload(r) PROVE TypeOK'
  BY <1>14 DEF CheckPayload, DeletePayload, Fault, memory
<1>15. ASSUME NEW r \in Requests, ClaimReplay(r) PROVE TypeOK'
  BY <1>15, ClaimFacts DEF ClaimReplay, memory
<1>16. CASE ReadBatch
  BY <1>16 DEF ReadBatch, memory
<1>17. CASE BuildReplay
  BY <1>17 DEF BuildReplay, WorkerMoves, memory
<1>18. CASE StartReplay
  BY <1>18 DEF StartReplay, WorkerMoves, SlotFree
<1>19. CASE EndReplay
  <2>1. slots - 1 \in 0 .. MaxConcurrent
    BY <1>19, HoldingFinite DEF EndReplay, SlotsExact, Executing
  <2>2. QED
    BY <1>19, <2>1 DEF EndReplay, WorkerMoves
<1>20. CASE FinishReplay
  BY <1>20, FinishFacts DEF FinishReplay, memory
<1>21. CASE EndBatch
  BY <1>21, WorkerIdleType DEF EndBatch, AbortBatch, memory
<1>22. CASE Crash
  BY <1>22, WorkerIdleType DEF Crash, AbortBatch, Fault, Active
<1>23. CASE UNCHANGED vars
  BY <1>23 DEF vars
<1>24. QED
  BY <1>1, <1>2, <1>3, <1>4, <1>5, <1>6, <1>7, <1>8, <1>9, <1>10, <1>11, <1>12, <1>13,
     <1>14, <1>15, <1>16, <1>17, <1>18, <1>19, <1>20, <1>21, <1>22, <1>23 DEF Next, Handler, Replay

(* The slots. *)
LEMMA SlotsStep == IInv /\ [Next]_vars => SlotsExact'
<1> SUFFICES ASSUME IInv, [Next]_vars PROVE SlotsExact'
  OBVIOUS
<1> USE DEF IInv, QueueInv, TypeOK, SlotsExact, Executing, history
<1>1. ASSUME NEW r \in Requests, CreateAdmission(r) PROVE SlotsExact'
  <2>1. Holding' = Holding
    BY <1>1, HoldingKept DEF CreateAdmission, HoldingPc
  <2>2. QED
    BY <1>1, <2>1 DEF CreateAdmission, memory
<1>2. ASSUME NEW r \in Requests, TakeSlot(r) PROVE SlotsExact'
  <2>1. Cardinality(Holding') = Cardinality(Holding) + 1
    BY <1>2, HoldingGrows DEF TakeSlot, HoldingPc
  <2>2. QED
    BY <1>2, <2>1, HoldingFinite DEF TakeSlot
<1>3. ASSUME NEW r \in Requests, TimerFires(r) PROVE SlotsExact'
  <2>1. Holding' = Holding
    BY <1>3, HoldingKept DEF TimerFires, HoldingPc
  <2>2. QED
    BY <1>3, <2>1 DEF TimerFires, memory
<1>4. ASSUME NEW r \in Requests, WaitCanceled(r) PROVE SlotsExact'
  <2>1. Holding' = Holding
    BY <1>4, HoldingKept DEF WaitCanceled, HoldingPc
  <2>2. QED
    BY <1>4, <2>1 DEF WaitCanceled, memory
<1>5. ASSUME NEW r \in Requests, ReturnAdmitted(r) PROVE SlotsExact'
  <2>1. Holding' = Holding
    BY <1>5, HoldingKept DEF ReturnAdmitted, HoldingPc
  <2>2. QED
    BY <1>5, <2>1 DEF ReturnAdmitted, memory
<1>6. ASSUME NEW r \in Requests, ReturnRejected(r) PROVE SlotsExact'
  <2>1. Holding' = Holding
    BY <1>6, HoldingKept DEF ReturnRejected, HoldingPc
  <2>2. QED
    BY <1>6, <2>1 DEF ReturnRejected, memory
<1>7. ASSUME NEW r \in Requests, ReturnReleased(r) PROVE SlotsExact'
  <2>1. Holding' = Holding
    BY <1>7, HoldingKept DEF ReturnReleased, HoldingPc
  <2>2. QED
    BY <1>7, <2>1 DEF ReturnReleased, memory
<1>8. ASSUME NEW r \in Requests, ReleaseSlot(r) PROVE SlotsExact'
  <2>1. Cardinality(Holding') = Cardinality(Holding) - 1
    BY <1>8, HoldingShrinks DEF ReleaseSlot, HoldingPc
  <2>2. QED
    BY <1>8, <2>1, HoldingFinite DEF ReleaseSlot
<1>9. ASSUME NEW r \in Requests, ClientGone(r) PROVE SlotsExact'
  <2>1. Holding' = Holding
    BY <1>9 DEF ClientGone, Holding
  <2>2. QED
    BY <1>9, <2>1 DEF ClientGone, memory
<1>10. ASSUME NEW r \in Requests, WaitPasses(r) PROVE SlotsExact'
  <2>1. Holding' = Holding
    BY <1>10 DEF WaitPasses, Holding
  <2>2. QED
    BY <1>10, <2>1 DEF WaitPasses, memory
<1>11. ASSUME NEW r \in Requests, CancelQueued(r) PROVE SlotsExact'
  <2>1. Holding' = Holding
    BY <1>11 DEF CancelQueued, Holding
  <2>2. QED
    BY <1>11, <2>1 DEF CancelQueued, memory
<1>12. ASSUME NEW r \in Requests, RetryAdmission(r) PROVE SlotsExact'
  <2>1. Holding' = Holding
    BY <1>12 DEF RetryAdmission, Holding
  <2>2. QED
    BY <1>12, <2>1 DEF RetryAdmission, memory
<1>13. ASSUME NEW r \in Requests, Recover(r) PROVE SlotsExact'
  <2>1. Holding' = Holding
    BY <1>13 DEF Recover, Holding
  <2>2. QED
    BY <1>13, <2>1 DEF Recover, memory
<1>14. ASSUME NEW r \in Requests, CheckPayload(r) \/ DeletePayload(r) PROVE SlotsExact'
  <2>1. Holding' = Holding
    BY <1>14 DEF CheckPayload, DeletePayload, Holding
  <2>2. QED
    BY <1>14, <2>1 DEF CheckPayload, DeletePayload, memory
<1>15. ASSUME NEW r \in Requests, ClaimReplay(r) PROVE SlotsExact'
  <2>1. Holding' = Holding
    BY <1>15 DEF ClaimReplay, Holding
  <2>2. QED
    BY <1>15, <2>1, ClaimFacts DEF ClaimReplay, memory
<1>16. CASE ReadBatch
  <2>1. Holding' = Holding
    BY <1>16 DEF ReadBatch, Holding
  <2>2. QED
    BY <1>16, <2>1 DEF ReadBatch, memory
<1>17. CASE BuildReplay
  <2>1. Holding' = Holding
    BY <1>17 DEF BuildReplay, Holding
  <2>2. QED
    BY <1>17, <2>1 DEF BuildReplay, WorkerMoves, memory
<1>18. CASE StartReplay
  <2>1. Holding' = Holding
    BY <1>18 DEF StartReplay, Holding
  <2>2. QED
    BY <1>18, <2>1, HoldingFinite DEF StartReplay, WorkerMoves
<1>19. CASE EndReplay
  <2>1. Holding' = Holding
    BY <1>19 DEF EndReplay, Holding
  <2>2. QED
    BY <1>19, <2>1, HoldingFinite DEF EndReplay, WorkerMoves
<1>20. CASE FinishReplay
  <2>1. Holding' = Holding
    BY <1>20 DEF FinishReplay, Holding
  <2>2. QED
    BY <1>20, <2>1, FinishFacts DEF FinishReplay, memory
<1>21. CASE EndBatch
  <2>1. Holding' = Holding
    BY <1>21 DEF EndBatch, Holding
  <2>2. QED
    BY <1>21, <2>1, WorkerIdleType DEF EndBatch, AbortBatch, memory
<1>22. CASE Crash
  <2>1. Holding' = {}
    BY <1>22 DEF Crash, Holding, Active
  <2>2. worker'.state = "idle"
    BY <1>22, WorkerIdleType DEF Crash, AbortBatch
  <2>3. QED
    BY <1>22, <2>1, <2>2, FS_EmptySet DEF Crash
<1>23. CASE UNCHANGED vars
  <2>1. Holding' = Holding
    BY <1>23 DEF Holding, vars
  <2>2. QED
    BY <1>23, <2>1 DEF vars
<1>24. QED
  BY <1>1, <1>2, <1>3, <1>4, <1>5, <1>6, <1>7, <1>8, <1>9, <1>10, <1>11, <1>12, <1>13,
     <1>14, <1>15, <1>16, <1>17, <1>18, <1>19, <1>20, <1>21, <1>22, <1>23 DEF Next, Handler, Replay

(* Who writes "released", and the rows that say so. *)
LEMMA ServedStep == IInv /\ [Next]_vars => WritersServed' /\ ReleasedMeansServed'
<1> SUFFICES ASSUME IInv, [Next]_vars PROVE WritersServed' /\ ReleasedMeansServed'
  OBVIOUS
<1> USE DEF IInv, QueueInv, TypeOK, WritersServed, ReleasedMeansServed, history
<1>1. ASSUME NEW r \in Requests, CreateAdmission(r) PROVE WritersServed' /\ ReleasedMeansServed'
  BY <1>1 DEF CreateAdmission
<1>2. ASSUME NEW r \in Requests, TakeSlot(r) PROVE WritersServed' /\ ReleasedMeansServed'
  BY <1>2 DEF TakeSlot
<1>3. ASSUME NEW r \in Requests, TimerFires(r) PROVE WritersServed' /\ ReleasedMeansServed'
  BY <1>3 DEF TimerFires
<1>4. ASSUME NEW r \in Requests, WaitCanceled(r) PROVE WritersServed' /\ ReleasedMeansServed'
  BY <1>4 DEF WaitCanceled
<1>5. ASSUME NEW r \in Requests, ReturnAdmitted(r) PROVE WritersServed' /\ ReleasedMeansServed'
  <2>1. "admitted" \in Statuses
    BY DEF Statuses
  <2>2. QED
    BY <1>5, <2>1, UpdateFacts DEF ReturnAdmitted
<1>6. ASSUME NEW r \in Requests, ReturnRejected(r) PROVE WritersServed' /\ ReleasedMeansServed'
  <2>1. PICK status \in {"timeout", "canceled"} : UpdateAdmission(r, status)
    BY <1>6 DEF ReturnRejected
  <2>2. status \in Statuses
    BY DEF Statuses
  <2>3. QED
    BY <1>6, <2>1, <2>2, UpdateFacts DEF ReturnRejected
<1>7. ASSUME NEW r \in Requests, ReturnReleased(r) PROVE WritersServed' /\ ReleasedMeansServed'
  <2>1. PICK status \in {"released", "canceled"} : UpdateAdmission(r, status)
    BY <1>7 DEF ReturnReleased
  <2>2. status \in Statuses
    BY DEF Statuses
  <2>3. QED
    BY <1>7, <2>1, <2>2, UpdateFacts DEF ReturnReleased
<1>8. ASSUME NEW r \in Requests, ReleaseSlot(r) PROVE WritersServed' /\ ReleasedMeansServed'
  BY <1>8 DEF ReleaseSlot
<1>9. ASSUME NEW r \in Requests, ClientGone(r) PROVE WritersServed' /\ ReleasedMeansServed'
  BY <1>9 DEF ClientGone
<1>10. ASSUME NEW r \in Requests, WaitPasses(r) PROVE WritersServed' /\ ReleasedMeansServed'
  BY <1>10 DEF WaitPasses
<1>11. ASSUME NEW r \in Requests, CancelQueued(r) PROVE WritersServed' /\ ReleasedMeansServed'
  <2>1. "canceled" \in Statuses
    BY DEF Statuses
  <2>2. QED
    BY <1>11, <2>1, WriteFacts DEF CancelQueued
<1>12. ASSUME NEW r \in Requests, RetryAdmission(r) PROVE WritersServed' /\ ReleasedMeansServed'
  <2>1. "retry_pending" \in Statuses
    BY DEF Statuses
  <2>2. QED
    BY <1>12, <2>1, WriteFacts DEF RetryAdmission
<1>13. ASSUME NEW r \in Requests, Recover(r) PROVE WritersServed' /\ ReleasedMeansServed'
  BY <1>13, RecoverFacts DEF Recover
<1>14. ASSUME NEW r \in Requests, CheckPayload(r) \/ DeletePayload(r)
       PROVE  WritersServed' /\ ReleasedMeansServed'
  BY <1>14 DEF CheckPayload, DeletePayload
<1>15. ASSUME NEW r \in Requests, ClaimReplay(r) PROVE WritersServed' /\ ReleasedMeansServed'
  BY <1>15, ClaimFacts DEF ClaimReplay
<1>16. CASE ReadBatch
  BY <1>16 DEF ReadBatch
<1>17. CASE BuildReplay
  BY <1>17 DEF BuildReplay, WorkerMoves
<1>18. CASE StartReplay
  BY <1>18 DEF StartReplay, WorkerMoves
<1>19. CASE EndReplay
  BY <1>19 DEF EndReplay, WorkerMoves
<1>20. CASE FinishReplay
  BY <1>20, FinishFacts DEF FinishReplay, ReplayStatus
<1>21. CASE EndBatch
  BY <1>21, WorkerIdleType DEF EndBatch, AbortBatch
<1>22. CASE Crash
  BY <1>22, WorkerIdleType DEF Crash, AbortBatch, Active
<1>23. CASE UNCHANGED vars
  BY <1>23 DEF vars
<1>24. QED
  BY <1>1, <1>2, <1>3, <1>4, <1>5, <1>6, <1>7, <1>8, <1>9, <1>10, <1>11, <1>12, <1>13,
     <1>14, <1>15, <1>16, <1>17, <1>18, <1>19, <1>20, <1>21, <1>22, <1>23 DEF Next, Handler, Replay

(* The retries that were granted. *)
LEMMA GrantsStep == IInv /\ [Next]_vars => GrantsCover'
<1> SUFFICES ASSUME IInv, [Next]_vars PROVE GrantsCover'
  OBVIOUS
<1> USE QueueAssumption DEF IInv, QueueInv, TypeOK, GrantsCover, InRow, Claimed, history
<1>1. ASSUME NEW r \in Requests, CreateAdmission(r) PROVE GrantsCover'
  BY <1>1 DEF CreateAdmission
<1>2. ASSUME NEW r \in Requests, TakeSlot(r) PROVE GrantsCover'
  BY <1>2 DEF TakeSlot
<1>3. ASSUME NEW r \in Requests, TimerFires(r) PROVE GrantsCover'
  BY <1>3 DEF TimerFires
<1>4. ASSUME NEW r \in Requests, WaitCanceled(r) PROVE GrantsCover'
  BY <1>4 DEF WaitCanceled
<1>5. ASSUME NEW r \in Requests, ReturnAdmitted(r) PROVE GrantsCover'
  <2>1. "admitted" \in Statuses
    BY DEF Statuses
  <2>2. QED
    BY <1>5, <2>1, UpdateFacts DEF ReturnAdmitted
<1>6. ASSUME NEW r \in Requests, ReturnRejected(r) PROVE GrantsCover'
  <2>1. PICK status \in {"timeout", "canceled"} : UpdateAdmission(r, status)
    BY <1>6 DEF ReturnRejected
  <2>2. status \in Statuses
    BY DEF Statuses
  <2>3. QED
    BY <1>6, <2>1, <2>2, UpdateFacts DEF ReturnRejected
<1>7. ASSUME NEW r \in Requests, ReturnReleased(r) PROVE GrantsCover'
  <2>1. PICK status \in {"released", "canceled"} : UpdateAdmission(r, status)
    BY <1>7 DEF ReturnReleased
  <2>2. status \in Statuses
    BY DEF Statuses
  <2>3. QED
    BY <1>7, <2>1, <2>2, UpdateFacts DEF ReturnReleased
<1>8. ASSUME NEW r \in Requests, ReleaseSlot(r) PROVE GrantsCover'
  BY <1>8 DEF ReleaseSlot
<1>9. ASSUME NEW r \in Requests, ClientGone(r) PROVE GrantsCover'
  BY <1>9 DEF ClientGone
<1>10. ASSUME NEW r \in Requests, WaitPasses(r) PROVE GrantsCover'
  BY <1>10 DEF WaitPasses
<1>11. ASSUME NEW r \in Requests, CancelQueued(r) PROVE GrantsCover'
  <2>1. "canceled" \in Statuses
    BY DEF Statuses
  <2>2. QED
    BY <1>11, <2>1, WriteFacts DEF CancelQueued
<1>12. ASSUME NEW r \in Requests, RetryAdmission(r) PROVE GrantsCover'
  <2>1. "retry_pending" \in Statuses
    BY DEF Statuses
  <2>2. QED
    BY <1>12, <2>1, WriteFacts DEF RetryAdmission
<1>13. ASSUME NEW r \in Requests, Recover(r) PROVE GrantsCover'
  BY <1>13, RecoverFacts DEF Recover
<1>14. ASSUME NEW r \in Requests, CheckPayload(r) \/ DeletePayload(r) PROVE GrantsCover'
  BY <1>14 DEF CheckPayload, DeletePayload
<1>15. ASSUME NEW r \in Requests, ClaimReplay(r) PROVE GrantsCover'
  BY <1>15, ClaimFacts DEF ClaimReplay
<1>16. CASE ReadBatch
  BY <1>16 DEF ReadBatch
<1>17. CASE BuildReplay
  BY <1>17 DEF BuildReplay, WorkerMoves
<1>18. CASE StartReplay
  BY <1>18 DEF StartReplay, WorkerMoves
<1>19. CASE EndReplay
  BY <1>19 DEF EndReplay, WorkerMoves
<1>20. CASE FinishReplay
  BY <1>20, FinishFacts DEF FinishReplay, ReplayStatus
<1>21. CASE EndBatch
  BY <1>21, WorkerIdleType DEF EndBatch, AbortBatch
<1>22. CASE Crash
  BY <1>22, WorkerIdleType DEF Crash, AbortBatch, Active
<1>23. CASE UNCHANGED vars
  BY <1>23 DEF vars
<1>24. QED
  BY <1>1, <1>2, <1>3, <1>4, <1>5, <1>6, <1>7, <1>8, <1>9, <1>10, <1>11, <1>12, <1>13,
     <1>14, <1>15, <1>16, <1>17, <1>18, <1>19, <1>20, <1>21, <1>22, <1>23 DEF Next, Handler, Replay

(* The payloads that were deleted. *)
LEMMA DeletedStep == IInv /\ [Next]_vars => DeletedAtRest'
<1> SUFFICES ASSUME IInv, [Next]_vars PROVE DeletedAtRest'
  OBVIOUS
<1> USE DEF IInv, QueueInv, TypeOK, DeletedAtRest, payloads
<1>1. ASSUME NEW r \in Requests, CreateAdmission(r) PROVE DeletedAtRest'
  BY <1>1 DEF CreateAdmission
<1>2. ASSUME NEW r \in Requests, TakeSlot(r) PROVE DeletedAtRest'
  BY <1>2 DEF TakeSlot
<1>3. ASSUME NEW r \in Requests, TimerFires(r) PROVE DeletedAtRest'
  BY <1>3 DEF TimerFires
<1>4. ASSUME NEW r \in Requests, WaitCanceled(r) PROVE DeletedAtRest'
  BY <1>4 DEF WaitCanceled
<1>5. ASSUME NEW r \in Requests, ReturnAdmitted(r) PROVE DeletedAtRest'
  <2>1. "admitted" \in Statuses
    BY DEF Statuses
  <2>2. QED
    BY <1>5, <2>1, UpdateFacts DEF ReturnAdmitted
<1>6. ASSUME NEW r \in Requests, ReturnRejected(r) PROVE DeletedAtRest'
  <2>1. PICK status \in {"timeout", "canceled"} : UpdateAdmission(r, status)
    BY <1>6 DEF ReturnRejected
  <2>2. status \in Statuses
    BY DEF Statuses
  <2>3. QED
    BY <1>6, <2>1, <2>2, UpdateFacts DEF ReturnRejected
<1>7. ASSUME NEW r \in Requests, ReturnReleased(r) PROVE DeletedAtRest'
  <2>1. PICK status \in {"released", "canceled"} : UpdateAdmission(r, status)
    BY <1>7 DEF ReturnReleased
  <2>2. status \in Statuses
    BY DEF Statuses
  <2>3. QED
    BY <1>7, <2>1, <2>2, UpdateFacts DEF ReturnReleased
<1>8. ASSUME NEW r \in Requests, ReleaseSlot(r) PROVE DeletedAtRest'
  BY <1>8 DEF ReleaseSlot
<1>9. ASSUME NEW r \in Requests, ClientGone(r) PROVE DeletedAtRest'
  BY <1>9 DEF ClientGone
<1>10. ASSUME NEW r \in Requests, WaitPasses(r) PROVE DeletedAtRest'
  BY <1>10 DEF WaitPasses
<1>11. ASSUME NEW r \in Requests, CancelQueued(r) PROVE DeletedAtRest'
  <2>1. "canceled" \in Statuses
    BY DEF Statuses
  <2>2. QED
    BY <1>11, <2>1, WriteFacts DEF CancelQueued
<1>12. ASSUME NEW r \in Requests, RetryAdmission(r) PROVE DeletedAtRest'
  <2>1. "retry_pending" \in Statuses
    BY DEF Statuses
  <2>2. QED
    BY <1>12, <2>1, WriteFacts DEF RetryAdmission
<1>13. ASSUME NEW r \in Requests, Recover(r) PROVE DeletedAtRest'
  BY <1>13, RecoverFacts DEF Recover
<1>14. ASSUME NEW r \in Requests, CheckPayload(r) \/ DeletePayload(r) PROVE DeletedAtRest'
  BY <1>14 DEF CheckPayload, DeletePayload, CleanupReason
<1>15. ASSUME NEW r \in Requests, ClaimReplay(r) PROVE DeletedAtRest'
  BY <1>15, ClaimFacts DEF ClaimReplay
<1>16. CASE ReadBatch
  BY <1>16 DEF ReadBatch
<1>17. CASE BuildReplay
  BY <1>17 DEF BuildReplay, WorkerMoves
<1>18. CASE StartReplay
  BY <1>18 DEF StartReplay, WorkerMoves
<1>19. CASE EndReplay
  BY <1>19 DEF EndReplay, WorkerMoves
<1>20. CASE FinishReplay
  BY <1>20, FinishFacts DEF FinishReplay, ReplayStatus
<1>21. CASE EndBatch
  BY <1>21, WorkerIdleType DEF EndBatch, AbortBatch
<1>22. CASE Crash
  BY <1>22, WorkerIdleType DEF Crash, AbortBatch, Active
<1>23. CASE UNCHANGED vars
  BY <1>23 DEF vars
<1>24. QED
  BY <1>1, <1>2, <1>3, <1>4, <1>5, <1>6, <1>7, <1>8, <1>9, <1>10, <1>11, <1>12, <1>13,
     <1>14, <1>15, <1>16, <1>17, <1>18, <1>19, <1>20, <1>21, <1>22, <1>23 DEF Next, Handler, Replay

-----------------------------------------------------------------------------
(* The theorems *)

(* The invariant holds in every reachable state. *)
THEOREM Invariance == Spec => []IInv
<1>1. IInv /\ [Next]_vars => IInv'
  BY TypeStep, SlotsStep, ServedStep, GrantsStep, DeletedStep DEF IInv, QueueInv
<1>2. QED
  BY <1>1, IInvInit, PTL DEF Spec

(* ApplyEnterpriseGovernanceQueue: whatever times out, is cancelled, fails *)
(* or dies, the elements in the channel are those of the requests and the  *)
(* replay that run, and no more run than the channel has room for.         *)
THEOREM SlotsSafe == Spec => []QueueInv
<1>1. IInv => QueueInv
  BY DEF IInv
<1>2. QED
  BY <1>1, Invariance, PTL

(* A row that says "released" is that of a request that was relayed. *)
THEOREM ReleasedServed == Spec => []ReleasedMeansServed
<1>1. IInv => ReleasedMeansServed
  BY DEF IInv
<1>2. QED
  BY <1>1, Invariance, PTL

(* The worker never executes an admission more often than an administrator *)
(* asked for.                                                              *)
THEOREM ReplaysGranted == Spec => []ReplayPerRetry
<1>1. IInv => ReplayPerRetry
  <2> SUFFICES ASSUME IInv, NEW r \in Requests PROVE replays[r] <= retries[r]
    BY DEF ReplayPerRetry
  <2>1. replays[r] + InRow(r) + Claimed(r) <= retries[r]
    BY DEF IInv, GrantsCover
  <2>2. QED
    BY <2>1, QueueAssumption DEF IInv, QueueInv, TypeOK, InRow, Claimed
<1>2. QED
  BY <1>1, Invariance, PTL

(* The payload of an admission that may still be retried or replayed is    *)
(* not deleted.                                                            *)
THEOREM PayloadsKept == Spec => []PayloadKept
<1>1. IInv => PayloadKept
  BY DEF IInv, DeletedAtRest, PayloadKept
<1>2. QED
  BY <1>1, Invariance, PTL
=============================================================================
