------------------------ MODULE EnterpriseQuotaCounter ------------------------
(***************************************************************************)
(* Enterprise quota counters on the database path                          *)
(* (service/enterprise_policy_counter.go and                               *)
(* service/enterprise_quota_reservation_compensation.go).                  *)
(*                                                                         *)
(* A relay request reserves its estimated usage on the counter of every    *)
(* matched policy before it is forwarded, and settles the actual usage, or *)
(* refunds the reservation, when it ends.  A reservation is an increment   *)
(* of the counter row plus an event row; every database transaction is one *)
(* action.  A process may die, a settle or refund may fail, or a handler   *)
(* may end without settling: the event then stays "reserved" until the     *)
(* compensation task of the master node releases it.  The task cannot see  *)
(* whether the request behind an old event is still running.               *)
(***************************************************************************)
EXTENDS QuotaTotals

CONSTANTS
    Requests,      \* relay requests
    Policies,      \* counter policies every request matches
    Blocking,      \* the policies whose action is to reject; the others only observe
    MaxPeriod,     \* bound: number of period changes (day or month boundaries)
    LimitValues,   \* effective limits a policy may have over time
    Estimates,     \* possible usage estimates, one amount per policy metric
    Actuals,       \* possible actual usages, one amount per policy metric
    LongRequests,  \* the requests that may outlive the staleness threshold (1800 s)
    ReadErrors     \* TRUE: the compensation's read of the counter row may fail (lock timeout)

ASSUME QuotaAssumption ==
    /\ IsFiniteSet(Requests)
    /\ IsFiniteSet(Policies)
    /\ Blocking \subseteq Policies
    /\ MaxPeriod \in Nat
    /\ LimitValues \subseteq Nat
    /\ Estimates \subseteq [Policies -> Nat]
    /\ Actuals \subseteq [Policies -> Nat]
    /\ LongRequests \subseteq Requests
    /\ ReadErrors \in BOOLEAN

VARIABLES
    period,         \* the current policy period
    limit,          \* limit[p]: policy limit plus the approved temporary grants
    pc,             \* pc[r]: where request r is in the relay handler
    estimate,       \* estimate[r]: PolicyEvaluationRequest.Estimated
    usedValue,      \* enterprise_quota_counters.used_value
    reservedValue,  \* enterprise_quota_counters.reserved_value
    status,         \* enterprise_quota_reservation_events.status, per request and policy
    amount,         \* enterprise_quota_reservation_events.reserved_value
    counter,        \* enterprise_quota_reservation_events.counter_id
    charged,        \* history: what settling added to used_value for this event
    peak            \* history: the highest limit under which a counter admitted

counters == <<usedValue, reservedValue, charged, peak>>
events   == <<status, amount, counter>>
inputs   == <<period, limit, estimate>>
vars     == <<inputs, pc, counters, events>>

Periods  == 0 .. MaxPeriod
Counters == Policies \X Periods   \* rows: unique index over policy and period start
Slots    == Requests \X Policies  \* at most one event per request and policy

Live     == {"reserved", "running", "rollback"}
Statuses == {"none", "reserved", "settled", "refunded", "compensated", "failed"}

TypeOK ==
    /\ period \in Periods
    /\ limit \in [Policies -> LimitValues]
    /\ pc \in [Requests -> Live \cup {"idle", "denied", "settled", "refunded",
                                      "leaked", "crashed"}]
    /\ estimate \in [Requests -> Estimates]
    /\ usedValue \in [Counters -> Nat]
    /\ reservedValue \in [Counters -> Nat]
    /\ status \in [Slots -> Statuses]
    /\ amount \in [Slots -> Nat]
    /\ counter \in [Slots -> Counters]
    /\ charged \in [Slots -> Nat]
    /\ peak \in [Counters -> Nat]

Init ==
    /\ period = 0
    /\ limit \in [Policies -> LimitValues]
    /\ pc = [r \in Requests |-> "idle"]
    /\ estimate \in [Requests -> Estimates]
    /\ usedValue = [c \in Counters |-> 0]
    /\ reservedValue = [c \in Counters |-> 0]
    /\ status = [s \in Slots |-> "none"]
    /\ amount = [s \in Slots |-> 0]
    /\ counter = [s \in Slots |-> <<s[2], 0>>]
    /\ charged = [s \in Slots |-> 0]
    /\ peak = [c \in Counters |-> 0]

-----------------------------------------------------------------------------
(* Reserving *)

\* Request r has something to reserve on counter c for one of the policies P.
Reserves(r, P, c) == c[1] \in P /\ c[2] = period /\ estimate[r][c[1]] > 0

\* The event row it then creates.
Creates(r, P, s) == s[1] = r /\ Reserves(r, P, <<s[2], period>>)

\* Mutant: reservations in flight are not counted.
MutantWithinLimit(r, c) == usedValue[c] + estimate[r][c[1]] <= limit[c[1]]

\* The limit check of one locked counter row.
WithinLimit(r, c) == usedValue[c] + reservedValue[c] + estimate[r][c[1]] <= limit[c[1]]

AddReservations(r, P) ==
    /\ reservedValue' = [c \in Counters |->
          IF Reserves(r, P, c) THEN reservedValue[c] + estimate[r][c[1]]
                               ELSE reservedValue[c]]
    /\ status' = [s \in Slots |-> IF Creates(r, P, s) THEN "reserved" ELSE status[s]]
    /\ amount' = [s \in Slots |-> IF Creates(r, P, s) THEN estimate[r][s[2]] ELSE amount[s]]
    /\ counter' = [s \in Slots |-> IF Creates(r, P, s) THEN <<s[2], period>> ELSE counter[s]]

\* One transaction over all blocking policies: all of them admit, or none is touched.
ReserveEnterpriseQuota(r) ==
    /\ pc[r] = "idle"
    /\ \A c \in Counters : Reserves(r, Blocking, c) => WithinLimit(r, c)
    /\ AddReservations(r, Blocking)
    /\ peak' = [c \in Counters |->
          IF Reserves(r, Blocking, c) /\ limit[c[1]] > peak[c] THEN limit[c[1]] ELSE peak[c]]
    /\ pc' = [pc EXCEPT ![r] = "reserved"]
    /\ UNCHANGED <<inputs, usedValue, charged>>

\* A policy is exceeded or the transaction fails: rolled back, request denied.
DenyEnterpriseQuota(r) ==
    /\ pc[r] = "idle"
    /\ pc' = [pc EXCEPT ![r] = "denied"]
    /\ UNCHANGED <<inputs, counters, events>>

\* The observing policies are counted without a limit check.
ReserveEnterpriseQuotaObservation(r) ==
    /\ pc[r] = "reserved"
    /\ AddReservations(r, Policies \ Blocking)
    /\ pc' = [pc EXCEPT ![r] = "running"]
    /\ UNCHANGED <<inputs, usedValue, charged, peak>>

\* The observation transaction fails: the blocking reservation has to be undone.
ObservationFails(r) ==
    /\ pc[r] = "reserved"
    /\ pc' = [pc EXCEPT ![r] = "rollback"]
    /\ UNCHANGED <<inputs, counters, events>>

-----------------------------------------------------------------------------
(* Settling and refunding *)

Clamp(n) == IF n < 0 THEN 0 ELSE n

\* Mutant: the row of the current period instead of the row that was reserved on.
MutantHolds(r, c) == status[<<r, c[1]>>] # "none" /\ c[2] = period

\* The reservation that r carries covers counter c.  It is the handler's own
\* copy: the code does not look at the event's status before it uses it.
Holds(r, c) == status[<<r, c[1]>>] # "none" /\ counter[<<r, c[1]>>] = c

\* Mutant: releases the estimate on every policy of the request, reserved or not.
MutantReleaseReservation(r) ==
    reservedValue' = [c \in Counters |->
        IF c[2] = period THEN Clamp(reservedValue[c] - estimate[r][c[1]]) ELSE reservedValue[c]]

ReleaseReservation(r) ==
    reservedValue' = [c \in Counters |->
        IF Holds(r, c) THEN Clamp(reservedValue[c] - amount[<<r, c[1]>>])
                       ELSE reservedValue[c]]

\* Mutant: the update has no condition on the status.
MutantCloseEvents(r, newStatus) ==
    status' = [s \in Slots |->
        IF s[1] = r /\ status[s] # "none" THEN newStatus ELSE status[s]]

\* UPDATE ... WHERE id = ? AND status = 'reserved'
CloseEvents(r, newStatus) ==
    status' = [s \in Slots |->
        IF s[1] = r /\ status[s] = "reserved" THEN newStatus ELSE status[s]]

\* Actual usage of zero on a metric is charged as the estimate.
ActualValue(r, p, actual) == IF actual[p] <= 0 THEN amount[<<r, p>>] ELSE actual[p]

SettleEnterpriseReservation(r) ==
    \E actual \in Actuals :
        /\ pc[r] = "running"
        /\ ReleaseReservation(r)
        /\ usedValue' = [c \in Counters |->
              IF Holds(r, c) THEN usedValue[c] + ActualValue(r, c[1], actual)
                             ELSE usedValue[c]]
        /\ charged' = [s \in Slots |->
              IF s[1] = r /\ status[s] # "none" THEN ActualValue(r, s[2], actual)
                                                ELSE charged[s]]
        /\ CloseEvents(r, "settled")
        /\ pc' = [pc EXCEPT ![r] = "settled"]
        /\ UNCHANGED <<inputs, peak, amount, counter>>

RefundEnterpriseReservation(r) ==
    /\ pc[r] \in {"running", "rollback"}
    /\ ReleaseReservation(r)
    /\ CloseEvents(r, "refunded")
    /\ pc' = [pc EXCEPT ![r] = "refunded"]
    /\ UNCHANGED <<inputs, usedValue, charged, peak, amount, counter>>

\* The settle or refund transaction fails, which is only logged, or the handler
\* (audio, realtime) has no settle call: the request is over, its events are open.
FinishUnsettled(r) ==
    /\ pc[r] \in {"running", "rollback"}
    /\ pc' = [pc EXCEPT ![r] = "leaked"]
    /\ UNCHANGED <<inputs, counters, events>>

\* The process serving r dies.
Crash(r) ==
    /\ pc[r] \in Live
    /\ pc' = [pc EXCEPT ![r] = "crashed"]
    /\ UNCHANGED <<inputs, counters, events>>

-----------------------------------------------------------------------------
(* Compensation and the environment *)

\* Mutant: only the events of crashed processes are found.
MutantStale(r) == pc[r] = "crashed" \/ r \in LongRequests

\* An event passes the staleness threshold some time after its request started,
\* and before the request ends only if the request may be that long.
Stale(r) == pc[r] \notin Live \/ r \in LongRequests

\* Mutant: the event is closed but the counter row is not saved.
MutantCompensateReservationEvent(r, p) ==
    /\ status[<<r, p>>] = "reserved"
    /\ Stale(r)
    /\ status' = [status EXCEPT ![<<r, p>>] = "compensated"]
    /\ UNCHANGED <<inputs, pc, counters, amount, counter>>

\* One transaction per stale event; the status is read again under the row lock.
CompensateReservationEvent(r, p) ==
    /\ status[<<r, p>>] = "reserved"
    /\ Stale(r)
    /\ reservedValue' = [reservedValue EXCEPT ![counter[<<r, p>>]] =
                            Clamp(@ - amount[<<r, p>>])]
    /\ status' = [status EXCEPT ![<<r, p>>] = "compensated"]
    /\ UNCHANGED <<inputs, pc, usedValue, charged, peak, amount, counter>>

\* The counter row cannot be read: the event is closed as failed, the row is left
\* alone, and no later round of the task looks at the event again.
MarkReservationFailed(r, p) ==
    /\ ReadErrors
    /\ status[<<r, p>>] = "reserved"
    /\ Stale(r)
    /\ status' = [status EXCEPT ![<<r, p>>] = "failed"]
    /\ UNCHANGED <<inputs, pc, counters, amount, counter>>

\* A grant is approved or runs out, or the policy is edited.
EffectiveLimitChanges(p) ==
    \E l \in LimitValues \ {limit[p]} :
        /\ limit' = [limit EXCEPT ![p] = l]
        /\ UNCHANGED <<period, estimate, pc, counters, events>>

\* Midnight, or the first of the month, in the policy's time zone.
PeriodRolls ==
    /\ period < MaxPeriod
    /\ period' = period + 1
    /\ UNCHANGED <<limit, estimate, pc, counters, events>>

Next ==
    \/ \E r \in Requests :
          \/ ReserveEnterpriseQuota(r)
          \/ DenyEnterpriseQuota(r)
          \/ ReserveEnterpriseQuotaObservation(r)
          \/ ObservationFails(r)
          \/ SettleEnterpriseReservation(r)
          \/ RefundEnterpriseReservation(r)
          \/ FinishUnsettled(r)
          \/ Crash(r)
    \/ \E r \in Requests, p \in Policies :
          CompensateReservationEvent(r, p) \/ MarkReservationFailed(r, p)
    \/ \E p \in Policies : EffectiveLimitChanges(p)
    \/ PeriodRolls

Spec == Init /\ [][Next]_vars

\* The compensation task runs on a one-minute ticker of the master node and takes
\* the oldest stale events first, so every stale event gets its turn.
FairSpec ==
    Spec /\ \A r \in Requests, p \in Policies : WF_vars(CompensateReservationEvent(r, p))

-----------------------------------------------------------------------------
(* Properties.  Five amounts of an event s on a counter c, and their sums  *)
(* over all events.                                                        *)

On(s, c) == counter[s] = c

\* Reserved, and released neither by the request nor by the compensation task.
Open(s) == status[s] \in {"reserved", "failed"} /\ pc[s[1]] \notin {"settled", "refunded"}

OpenAmount(s, c) == IF On(s, c) /\ Open(s) THEN amount[s] ELSE 0

\* Charged by the settled request.
ChargedAmount(s, c) == IF On(s, c) THEN charged[s] ELSE 0

\* Charged beyond its own reservation: the estimate was too low.
OverrunAmount(s, c) == IF On(s, c) THEN Clamp(charged[s] - amount[s]) ELSE 0

\* Released twice: compensated while the request was running, then released
\* again by its settle or refund.
TwiceAmount(s, c) ==
    IF On(s, c) /\ status[s] = "compensated" /\ pc[s[1]] \in {"settled", "refunded"}
    THEN amount[s] ELSE 0

\* Given up by the compensation task.
FailedAmount(s, c) == IF On(s, c) /\ status[s] = "failed" THEN amount[s] ELSE 0

OpenOn(c)          == Total(Slots, [s \in Slots |-> OpenAmount(s, c)])
ChargedOn(c)       == Total(Slots, [s \in Slots |-> ChargedAmount(s, c)])
OverrunOn(c)       == Total(Slots, [s \in Slots |-> OverrunAmount(s, c)])
ReleasedTwiceOn(c) == Total(Slots, [s \in Slots |-> TwiceAmount(s, c)])
FailedOn(c)        == Total(Slots, [s \in Slots |-> FailedAmount(s, c)])

(* No counter holds reserved quota that no unreleased event accounts for:  *)
(* a settle, a refund and the compensation task, in whatever order they    *)
(* meet, never leave a unit of reserved_value that belongs to nobody       *)
(* (clamping at zero in SettleEnterpriseReservation,                       *)
(* RefundEnterpriseReservation and the compensation included).             *)
NoPhantomReservation == \A c \in Counters : reservedValue[c] <= OpenOn(c)

(* used_value is the sum of what the requests that settled were charged,   *)
(* once each, on the counter row they reserved on, even when the period    *)
(* has changed or the reservation was compensated in the meantime.         *)
UsedIsCharged == \A c \in Counters : usedValue[c] = ChargedOn(c)

(* What a blocking policy has admitted, used and still reserved, exceeds   *)
(* the highest limit under which it admitted only by the usage beyond the  *)
(* estimates and by the reservations that were released twice.             *)
QuotaBound ==
    \A c \in Counters : c[1] \in Blocking =>
        usedValue[c] + OpenOn(c) <= peak[c] + OverrunOn(c) + ReleasedTwiceOn(c)

(* Conversely, an open reservation is missing from reserved_value only as  *)
(* far as some other reservation of the counter was released twice.        *)
OpenIsReserved ==
    \A c \in Counters : OpenOn(c) <= reservedValue[c] + ReleasedTwiceOn(c)

(* On a counter that no over-long request has reserved on, reserved_value  *)
(* is exactly the sum of the open reservations: a settle or refund after a *)
(* crash of another request, a partial failure or a compensation never     *)
(* takes away somebody else's reservation.                                 *)
ReservedIsExact ==
    \A c \in Counters :
        (\A s \in Slots : On(s, c) /\ status[s] # "none" => s[1] \notin LongRequests)
            => reservedValue[c] = OpenOn(c)

(* An event leaves "reserved" once: whoever closes it first (settle,       *)
(* refund, compensation) decides its final status, and a late settle or    *)
(* refund does not reopen or rewrite it.                                   *)
EventsCloseOnce ==
    [][\A s \in Slots : status[s] \notin {"none", "reserved"} => status'[s] = status[s]]_vars

(* Whatever dies or fails, reserved quota is eventually given back: once   *)
(* no request is being served any more, a counter keeps no more than the   *)
(* events whose row the compensation task could not read (it marks them as *)
(* failed and never releases them).                                        *)
ReservationsReleased ==
    <>[](\A r \in Requests : pc[r] \notin Live)
        => <>[](\A c \in Counters : reservedValue[c] <= FailedOn(c))
=============================================================================
