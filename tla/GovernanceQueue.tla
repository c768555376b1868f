--------------------------- MODULE GovernanceQueue ---------------------------
(***************************************************************************)
(* The admission queue of enterprise governance                            *)
(* (service/enterprise_governance_queue.go), the recovery of stale         *)
(* admissions (..._recovery.go), the replay worker (..._replay.go) and the *)
(* clean-up of stored payloads (..._payload_cleanup.go).                   *)
(*                                                                         *)
(* A request waits for a slot of its enterprise's channel, at most for the *)
(* queue timeout, and keeps an admission row in the database that says how *)
(* far it is.  The handler writes the row without a condition; the         *)
(* administrator, the recovery task and the replay worker write it with a  *)
(* condition on the status they saw.  Slots and cancel registrations live  *)
(* in the memory of the process.  One process and one enterprise are       *)
(* modelled; every database statement is one action.                       *)
(***************************************************************************)
EXTENDS Integers, FiniteSets

CONSTANTS
    Requests,
    LongRequests,   \* requests that may run longer than an hour
    Durable,        \* requests whose body is stored as a payload of its own
    MaxConcurrent,  \* enterprisePolicyQueueMaxConcurrent
    Retried,        \* bound: the admissions an administrator may retry ...
    MaxRetries,     \* ... and how often each
    MaxFaults       \* bound: failed statements and crashes

ASSUME QueueAssumption ==
    /\ IsFiniteSet(Requests) /\ Requests # {}
    /\ LongRequests \subseteq Requests
    /\ Durable \subseteq Requests
    /\ Retried \subseteq Requests
    /\ MaxConcurrent \in Nat \ {0}
    /\ MaxRetries \in Nat
    /\ MaxFaults \in Nat

VARIABLES
    pc,          \* pc[r]: position of the request handler
    row,         \* row[r]: status of the admission row; "none": there is none
    ended,       \* rows with a canceled_at or a released_at
    payload,     \* payload[r]: "none", "stored" or "deleted"
    condemned,   \* the payload the clean-up task has decided to delete, if any
    aged,        \* admissions as old as the queue timeout
    gone,        \* requests whose client has gone (request context done)
    slots,       \* number of elements in the channel queue.slots
    registered,  \* enterprisePolicyQueueCancelers
    signalled,   \* registrations whose done channel is closed
    worker,      \* the replay worker: state, rows of the batch, current row
    retries,     \* retries[r]: number of times a retry was granted
    replays,     \* history: replays[r]: replays that were executed
    served,      \* history: requests that were relayed, by the handler or a replay
    faults

memory   == <<slots, registered, signalled>>
payloads == <<payload, condemned>>
history  == <<retries, replays, served>>
vars == <<pc, row, ended, payloads, aged, gone, slots, registered, signalled, worker,
          retries, replays, served, faults>>

Statuses == {"queued", "admitted", "released", "timeout", "canceled",
             "retry_pending", "replay_processing"}
Active   == {"waiting", "admitting", "running", "releasing", "timing_out", "canceling"}
\* The handlers that have put an element into the channel.
Holding  == {r \in Requests : pc[r] \in {"admitting", "running"}}
WorkerIdle == [state |-> "idle", todo |-> {}, item |-> CHOOSE r \in Requests : TRUE]

TypeOK ==
    /\ pc \in [Requests -> Active \cup {"new", "done", "dead"}]
    /\ row \in [Requests -> Statuses \cup {"none"}]
    /\ ended \subseteq Requests
    /\ payload \in [Requests -> {"none", "stored", "deleted"}]
    /\ condemned \subseteq Requests
    /\ aged \subseteq Requests
    /\ gone \subseteq Requests
    /\ slots \in 0 .. MaxConcurrent
    /\ registered \subseteq Requests
    /\ signalled \subseteq Requests
    /\ worker \in [state : {"idle", "batch", "claimed", "waiting", "executing",
                            "succeeded", "failed"},
                   todo : SUBSET Requests, item : Requests]
    /\ retries \in [Requests -> 0 .. MaxRetries]
    /\ replays \in [Requests -> Nat]
    /\ served \subseteq Requests
    /\ faults \in 0 .. MaxFaults

Init ==
    /\ pc = [r \in Requests |-> "new"]
    /\ row = [r \in Requests |-> "none"]
    /\ ended = {}
    /\ payload = [r \in Requests |-> "none"]
    /\ condemned = {}
    /\ aged = {}
    /\ gone = {}
    /\ slots = 0
    /\ registered = {}
    /\ signalled = {}
    /\ worker = WorkerIdle
    /\ retries = [r \in Requests |-> 0]
    /\ replays = [r \in Requests |-> 0]
    /\ served = {}
    /\ faults = 0

Fault == faults < MaxFaults /\ faults' = faults + 1

-----------------------------------------------------------------------------
(* ApplyEnterpriseGovernanceQueue *)

\* The row is created and the wait can be cancelled; a failed insert leaves the
\* request without a row, a failed insert of the payload without a payload.
CreateAdmission(r) ==
    /\ pc[r] = "new"
    /\ pc' = [pc EXCEPT ![r] = "waiting"]
    /\ \/ /\ row' = [row EXCEPT ![r] = "queued"]
          /\ registered' = registered \cup {r}
          /\ \/ payload' = [payload EXCEPT ![r] = IF r \in Durable THEN "stored" ELSE "none"]
                /\ UNCHANGED faults
             \/ r \in Durable /\ Fault /\ UNCHANGED payload
       \/ Fault /\ UNCHANGED <<row, registered, payload>>
    /\ UNCHANGED <<ended, condemned, aged, gone, slots, signalled, worker, history>>

SlotFree == slots < MaxConcurrent

\* The cases of the select; any one that is ready may be taken.
TakeSlot(r) ==
    /\ pc[r] = "waiting"
    /\ SlotFree
    /\ slots' = slots + 1
    /\ pc' = [pc EXCEPT ![r] = "admitting"]
    /\ UNCHANGED <<row, ended, payloads, aged, gone, registered, signalled, worker, history,
                   faults>>

\* Mutant: the timer is looked at only while a slot is free.
MutantTimerFires(r) ==
    /\ pc[r] = "waiting"
    /\ r \in aged
    /\ SlotFree
    /\ pc' = [pc EXCEPT ![r] = "timing_out"]
    /\ UNCHANGED <<row, ended, payloads, aged, gone, memory, worker, history, faults>>

TimerFires(r) ==
    /\ pc[r] = "waiting"
    /\ r \in aged
    /\ pc' = [pc EXCEPT ![r] = "timing_out"]
    /\ UNCHANGED <<row, ended, payloads, aged, gone, memory, worker, history, faults>>

WaitCanceled(r) ==
    /\ pc[r] = "waiting"
    /\ r \in gone \cup signalled
    /\ pc' = [pc EXCEPT ![r] = "canceling"]
    /\ UNCHANGED <<row, ended, payloads, aged, gone, memory, worker, history, faults>>

\* The row gets a status; "canceled" and "released" come with their time.
Write(r, status) ==
    /\ row' = [row EXCEPT ![r] = status]
    /\ ended' = IF status \in {"canceled", "released"} THEN ended \cup {r} ELSE ended

\* updateEnterpriseGovernanceQueueAdmission: WHERE id = ?, nothing without a row;
\* an error is logged.
UpdateAdmission(r, status) ==
    \/ row[r] # "none" /\ Write(r, status) /\ UNCHANGED faults
    \/ row[r] = "none" /\ UNCHANGED <<row, ended, faults>>
    \/ row[r] # "none" /\ Fault /\ UNCHANGED <<row, ended>>

\* The row follows the case that was taken; then the registration is removed.
ReturnAdmitted(r) ==
    /\ pc[r] = "admitting"
    /\ UpdateAdmission(r, "admitted")
    /\ registered' = registered \ {r}
    /\ pc' = [pc EXCEPT ![r] = "running"]
    /\ UNCHANGED <<payloads, aged, gone, slots, signalled, worker, history>>

ReturnRejected(r) ==
    /\ \/ pc[r] = "timing_out" /\ UpdateAdmission(r, "timeout")
       \/ pc[r] = "canceling" /\ UpdateAdmission(r, "canceled")
    /\ registered' = registered \ {r}
    /\ pc' = [pc EXCEPT ![r] = "done"]
    /\ UNCHANGED <<payloads, aged, gone, slots, signalled, worker, history>>

\* Mutant: the release of a request whose client has gone is skipped.
MutantReleaseSlot(r) ==
    /\ pc[r] = "running"
    /\ slots' = IF r \in gone THEN slots ELSE slots - 1
    /\ served' = served \cup {r}
    /\ pc' = [pc EXCEPT ![r] = "releasing"]
    /\ UNCHANGED <<row, ended, payloads, aged, gone, registered, signalled, worker, retries,
                   replays, faults>>

\* release: the request has been relayed; the slot is given back ...
ReleaseSlot(r) ==
    /\ pc[r] = "running"
    /\ slots' = slots - 1
    /\ served' = served \cup {r}
    /\ pc' = [pc EXCEPT ![r] = "releasing"]
    /\ UNCHANGED <<row, ended, payloads, aged, gone, registered, signalled, worker, retries,
                   replays, faults>>

\* ... and the row is written after it.
ReturnReleased(r) ==
    /\ pc[r] = "releasing"
    /\ UpdateAdmission(r, IF r \in gone THEN "canceled" ELSE "released")
    /\ pc' = [pc EXCEPT ![r] = "done"]
    /\ UNCHANGED <<payloads, aged, gone, memory, worker, history>>

ClientGone(r) ==
    /\ pc[r] \in {"waiting", "running"}
    /\ r \notin gone
    /\ gone' = gone \cup {r}
    /\ UNCHANGED <<pc, row, ended, payloads, aged, memory, worker, history, faults>>

WaitPasses(r) ==
    /\ pc[r] # "new"
    /\ r \notin aged
    /\ aged' = aged \cup {r}
    /\ UNCHANGED <<pc, row, ended, payloads, gone, memory, worker, history, faults>>

-----------------------------------------------------------------------------
(* The administrator *)

\* CancelEnterpriseGovernanceQueuedAdmission, on the node of the request.
CancelQueued(r) ==
    /\ row[r] = "queued"
    /\ r \in registered
    /\ Write(r, "canceled")
    /\ signalled' = signalled \cup {r}
    /\ UNCHANGED <<pc, payloads, aged, gone, slots, registered, worker, history, faults>>

RetryAdmission(r) ==
    /\ row[r] \in {"timeout", "canceled"}
    /\ r \in Retried
    /\ retries[r] < MaxRetries
    /\ Write(r, "retry_pending")
    /\ retries' = [retries EXCEPT ![r] = @ + 1]
    /\ UNCHANGED <<pc, payloads, aged, gone, memory, worker, replays, served, faults>>

-----------------------------------------------------------------------------
(* RecoverStaleEnterpriseGovernanceQueueAdmissions *)

\* created_at, admitted_at or updated_at is too old.  A replay is stamped with
\* the start of its batch, so it can be old while it is still running.
Stale(r) ==
    \/ row[r] = "queued" /\ r \in aged
    \/ row[r] = "admitted" /\ r \notin ended
                           /\ (pc[r] \in {"done", "dead"} \/ r \in LongRequests)
    \/ row[r] = "replay_processing"

\* Mutant: a stale replay is put back into the queue of the worker.
MutantRecoveredStatus(status) ==
    IF status = "admitted" THEN "canceled"
    ELSE IF status = "replay_processing" THEN "retry_pending" ELSE "timeout"

RecoveredStatus(status) == IF status = "admitted" THEN "canceled" ELSE "timeout"

\* Mutant: only the rows of requests that are still queued are found.
MutantRecover(r) ==
    /\ Stale(r)
    /\ row[r] = "queued"
    /\ Write(r, RecoveredStatus(row[r]))
    /\ UNCHANGED <<pc, payloads, aged, gone, memory, worker, history, faults>>

\* UPDATE ... WHERE id = ? AND status = (the status that was read).
Recover(r) ==
    /\ Stale(r)
    /\ Write(r, RecoveredStatus(row[r]))
    /\ UNCHANGED <<pc, payloads, aged, gone, memory, worker, history, faults>>

-----------------------------------------------------------------------------
(* The replay worker *)

WorkerMoves(state) == worker' = [worker EXCEPT !.state = state]
AbortBatch == worker' = WorkerIdle

ReadBatch ==
    /\ worker.state = "idle"
    /\ \E r \in Requests : row[r] = "retry_pending"
    /\ worker' = [worker EXCEPT !.state = "batch",
                                !.todo = {r \in Requests : row[r] = "retry_pending"}]
    /\ UNCHANGED <<pc, row, ended, payloads, aged, gone, memory, history, faults>>

\* claimEnterpriseGovernanceQueueReplay; an error, also of the read that follows,
\* ends the batch.
ClaimReplay(r) ==
    /\ worker.state = "batch"
    /\ r \in worker.todo
    /\ \/ /\ row[r] = "retry_pending"
          /\ Write(r, "replay_processing")
          /\ worker' = [state |-> "claimed", todo |-> worker.todo \ {r}, item |-> r]
          /\ UNCHANGED faults
       \/ /\ row[r] # "retry_pending"
          /\ worker' = [worker EXCEPT !.todo = @ \ {r}]
          /\ UNCHANGED <<row, ended, faults>>
       \/ /\ row[r] = "retry_pending"
          /\ Fault
          /\ Write(r, "replay_processing") \/ UNCHANGED <<row, ended>>
          /\ AbortBatch
    /\ UNCHANGED <<pc, payloads, aged, gone, memory, history>>

\* BuildEnterpriseGovernanceQueueReplayRequest: the payload has to be there and
\* the token has to be valid.
BuildReplay ==
    /\ worker.state = "claimed"
    /\ \/ /\ worker.item \in Durable => payload[worker.item] = "stored"
          /\ WorkerMoves("waiting")
       \/ WorkerMoves("failed")
    /\ UNCHANGED <<pc, row, ended, payloads, aged, gone, memory, history, faults>>

\* The executor sends the request through the router, where it queues again.
StartReplay ==
    /\ worker.state = "waiting"
    /\ \/ /\ SlotFree
          /\ slots' = slots + 1
          /\ replays' = [replays EXCEPT ![worker.item] = @ + 1]
          /\ WorkerMoves("executing")
       \/ /\ WorkerMoves("failed")
          /\ UNCHANGED <<slots, replays>>
    /\ UNCHANGED <<pc, row, ended, payloads, aged, gone, registered, signalled, retries, served,
                   faults>>

EndReplay ==
    /\ worker.state = "executing"
    /\ slots' = slots - 1
    /\ \/ WorkerMoves("succeeded") /\ served' = served \cup {worker.item}
       \/ WorkerMoves("failed") /\ UNCHANGED served
    /\ UNCHANGED <<pc, row, ended, payloads, aged, gone, registered, signalled, retries, replays,
                   faults>>

\* Mutant: a replay without a result counts as done.
MutantReplayStatus == "released"

ReplayStatus == IF worker.state = "succeeded" THEN "released" ELSE "timeout"

\* finishEnterpriseGovernanceQueueReplay: a row that is no longer processing, or
\* an error of the update or of the audit, ends the batch.
FinishReplay ==
    LET i == worker.item IN
    /\ worker.state \in {"succeeded", "failed"}
    /\ \/ /\ row[i] = "replay_processing"
          /\ Write(i, ReplayStatus)
          /\ WorkerMoves("batch")
          /\ UNCHANGED faults
       \/ /\ row[i] # "replay_processing"
          /\ AbortBatch
          /\ UNCHANGED <<row, ended, faults>>
       \/ /\ row[i] = "replay_processing"
          /\ Fault
          /\ Write(i, ReplayStatus) \/ UNCHANGED <<row, ended>>
          /\ AbortBatch
    /\ UNCHANGED <<pc, payloads, aged, gone, memory, history>>

EndBatch ==
    /\ worker.state = "batch"
    /\ worker.todo = {}
    /\ AbortBatch
    /\ UNCHANGED <<pc, row, ended, payloads, aged, gone, memory, history, faults>>

Replay ==
    \/ ReadBatch \/ BuildReplay \/ StartReplay \/ EndReplay \/ FinishReplay \/ EndBatch
    \/ \E r \in Requests : ClaimReplay(r)

-----------------------------------------------------------------------------
(* Clean-up of payloads, and crashes *)

\* Mutant: every admission that has an end time is taken for finished.
MutantCleanupReason(r) == row[r] \in {"none", "released", "canceled"}

\* The payload has no admission ("orphaned") or its admission is released.
CleanupReason(r) == row[r] \in {"none", "released"}

\* CleanupEnterpriseGovernanceQueuePayloads takes one old payload after the other
\* (seven days later no handler of the request is left): it reads the admission ...
CheckPayload(r) ==
    /\ condemned = {}
    /\ payload[r] = "stored"
    /\ pc[r] \in {"done", "dead"}
    /\ CleanupReason(r)
    /\ condemned' = {r}
    /\ UNCHANGED <<pc, row, ended, payload, aged, gone, memory, worker, history, faults>>

\* ... and deletes the object and the row of the payload, whatever the admission
\* is by then; after an error the object may be gone.
DeletePayload(r) ==
    /\ r \in condemned
    /\ condemned' = {}
    /\ \/ payload' = [payload EXCEPT ![r] = "deleted"] /\ UNCHANGED faults
       \/ Fault /\ payload' \in {payload, [payload EXCEPT ![r] = "deleted"]}
    /\ UNCHANGED <<pc, row, ended, aged, gone, memory, worker, history>>

\* The process dies: handlers, slots, registrations, the worker and the clean-up
\* task are gone.
Crash ==
    /\ Fault
    /\ pc' = [r \in Requests |-> IF pc[r] \in Active THEN "dead" ELSE pc[r]]
    /\ slots' = 0
    /\ registered' = {}
    /\ signalled' = {}
    /\ AbortBatch
    /\ condemned' = {}
    /\ UNCHANGED <<row, ended, payload, aged, gone, history>>

-----------------------------------------------------------------------------
Handler(r) ==
    \/ TakeSlot(r) \/ TimerFires(r) \/ WaitCanceled(r)
    \/ ReturnAdmitted(r) \/ ReturnRejected(r) \/ ReturnReleased(r)

Next ==
    \/ \E r \in Requests :
          \/ CreateAdmission(r) \/ Handler(r) \/ ReleaseSlot(r) \/ ClientGone(r) \/ WaitPasses(r)
          \/ CancelQueued(r) \/ RetryAdmission(r) \/ Recover(r) \/ CheckPayload(r) \/ DeletePayload(r)
    \/ Replay
    \/ Crash

Spec == Init /\ [][Next]_vars

\* The handlers go on and a relayed request that is not long comes to its end,
\* time passes, and the recovery task and the worker run on tickers of the master
\* node.  A long request may keep its slot for ever.
FairSpec ==
    /\ Spec
    /\ \A r \in Requests : WF_vars(Handler(r)) /\ WF_vars(WaitPasses(r)) /\ WF_vars(Recover(r))
    /\ \A r \in Requests \ LongRequests : WF_vars(ReleaseSlot(r))
    /\ WF_vars(Replay)

-----------------------------------------------------------------------------
(* Properties *)

Executing == IF worker.state = "executing" THEN 1 ELSE 0

(* ApplyEnterpriseGovernanceQueue: a slot is taken exactly by the requests *)
(* and the replay that run: none is lost on a timeout, a cancellation, a   *)
(* failed statement or a client that left, and none is given back twice.   *)
SlotsExact == slots = Cardinality(Holding) + Executing

(* The slots and everything they depend on: in addition no more requests   *)
(* run than the channel has room for.                                      *)
QueueInv == TypeOK /\ SlotsExact

(* An admission is "released" only if its request was relayed, by its own  *)
(* handler or by a replay that succeeded, although handler, recovery task, *)
(* administrator and worker write the row in any order.                    *)
ReleasedMeansServed == \A r \in Requests : row[r] = "released" => r \in served

(* Each replay was asked for: no crash, recovery or aborted batch makes    *)
(* the worker execute an admission a second time by itself.                *)
ReplayPerRetry == \A r \in Requests : replays[r] <= retries[r]

(* A payload that was deleted will not be needed, although its admission   *)
(* was read in an earlier step: the admission is released for good, so     *)
(* neither a retry nor a replay can miss the body.                         *)
PayloadKept == \A r \in Requests : payload[r] = "deleted" => row[r] = "released"

(* Every request that waits is admitted, rejected or dies with its         *)
(* process, also when nobody gives back a slot.                            *)
WaitingEnds == \A r \in Requests : pc[r] = "waiting" ~> pc[r] # "waiting"

\* A row the recovery task passes over: "admitted" with a canceled_at or a
\* released_at of before, which a late handler left there.
Overlooked(r) == row[r] = "admitted" /\ r \in ended

(* No admission stays in progress: whatever dies or fails, the row reaches *)
(* an end that the administrator can act on.  The exception is the row of  *)
(* a handler that took its slot while the admission was cancelled: if the  *)
(* process dies before the release, nothing ends that row.                 *)
RowsEnd ==
    \A r \in Requests :
        row[r] \in {"queued", "admitted", "retry_pending", "replay_processing"}
            ~> row[r] \in {"released", "timeout", "canceled"} \/ Overlooked(r)
=============================================================================
