------------------------- MODULE EnterpriseQuotaRedis -------------------------
(***************************************************************************)
(* Enterprise quota counters with the Redis fast path                      *)
(* (service/enterprise_policy_counter.go), the compensation of stale       *)
(* reservations and the Redis/DB reconciler                                *)
(* (service/enterprise_policy_counter_reconciliation.go).                  *)
(*                                                                         *)
(* With the Redis counter enabled, admission is decided by a Lua script on *)
(* a Redis hash per policy and period; the database row is a mirror that   *)
(* is written afterwards, in a transaction of its own.  Every Redis        *)
(* command and every transaction is one action, so that requests, the      *)
(* compensation task and the reconciler interleave between them.  One      *)
(* period is modelled: rows and keys of different periods do not interact. *)
(* The database path itself is EnterpriseQuotaCounter.                     *)
(***************************************************************************)
EXTENDS Integers, Sequences, QuotaTotals

CONSTANTS
    Requests,
    Order,        \* the blocking policies, in the order they are evaluated
    Limit,        \* Limit[p]: effective limit of policy p
    Estimate,     \* Estimate[r]: the amount r reserves on every policy
    Actuals,      \* possible actual usages
    RowsExist,    \* TRUE: the counter rows were created earlier in the period
    Reconciler,   \* is a master node up, with the reconciler: the possible answers
    MaxFaults     \* bound: Redis errors, lost keys, failed transactions, crashes

Policies == {Order[i] : i \in 1 .. Len(Order)}

ASSUME RedisAssumption ==
    /\ IsFiniteSet(Requests)
    /\ Len(Order) \in Nat \ {0}
    /\ \A i, j \in 1 .. Len(Order) : Order[i] = Order[j] => i = j
    /\ Limit \in [Policies -> Nat]
    /\ Estimate \in [Requests -> Nat \ {0}]
    /\ Actuals \subseteq Nat
    /\ RowsExist \in BOOLEAN
    /\ Reconciler \subseteq BOOLEAN
    /\ MaxFaults \in Nat

VARIABLES
    pc,        \* pc[r]: where the request handler is
    at,        \* at[r]: position in Order of the policy being reserved
    seed,      \* seed[r]: the counter row as r read it for the Reserve script
    held,      \* held[r]: policies whose Redis counter r still has to release or settle
    viaRedis,  \* viaRedis[r]: Reservation.RedisCounterUsed
    actual,    \* actual[r]: usage of a settled request
    event,     \* event[r][p]: status of the reservation event row
    db,        \* db[p]: counter row
    redis,     \* redis[p]: Redis hash
    pending,   \* compensated events whose Redis refund is still to come
    master,    \* a master node, which runs the reconciler, is up
    scan,      \* the reconciler: state, rows read, rows or keys to visit, current item
    faults

request    == <<pc, at, seed, held, viaRedis, actual>>
vars       == <<request, event, db, redis, pending, master, scan, faults>>

Row(u, v)   == [found |-> TRUE, used |-> u, reserved |-> v]
NoRow       == [found |-> FALSE, used |-> 0, reserved |-> 0]
Hash(i, u, v) == [found |-> TRUE, initialized |-> i, used |-> u, reserved |-> v]
NoHash      == [found |-> FALSE, initialized |-> FALSE, used |-> 0, reserved |-> 0]

ScanIdle == [state |-> "idle", rows |-> [p \in Policies |-> NoRow], todo |-> {},
             item |-> Order[1], snap |-> NoRow]

Fault == faults < MaxFaults /\ faults' = faults + 1

Init ==
    /\ pc = [r \in Requests |-> "seed"]
    /\ at = [r \in Requests |-> 1]
    /\ seed = [r \in Requests |-> NoRow]
    /\ held = [r \in Requests |-> {}]
    /\ viaRedis = [r \in Requests |-> FALSE]
    /\ actual = [r \in Requests |-> 0]
    /\ event = [r \in Requests |-> [p \in Policies |-> "none"]]
    /\ db = [p \in Policies |-> IF RowsExist THEN Row(0, 0) ELSE NoRow]
    /\ redis = [p \in Policies |-> NoHash]
    /\ pending = {}
    /\ master \in Reconciler
    /\ scan = ScanIdle
    /\ faults = 0

-----------------------------------------------------------------------------
(* The Lua scripts *)

Clamp(n) == IF n < 0 THEN 0 ELSE n

\* The hash the Reserve script decides on: seeded from the row unless initialized.
Seeded(h, row) == IF h.initialized THEN h ELSE Hash(TRUE, row.used, row.reserved)

\* Mutant: reservations in flight are not counted.
MutantAllowed(h, amount, limit) == h.used + amount <= limit

Allowed(h, amount, limit) == h.used + h.reserved + amount <= limit

SettleScript(h, reserved, used) ==
    Hash(h.initialized, h.used + used, Clamp(h.reserved - reserved))

RefundScript(h, amount) ==
    Hash(h.initialized, h.used, Clamp(h.reserved - amount))

-----------------------------------------------------------------------------
(* ReserveEnterpriseQuota: Redis first, database as fallback *)

Current(r) == Order[at[r]]

\* The limit and the counter row are read before the script runs.
ReadSeed(r) ==
    /\ pc[r] = "seed"
    /\ seed' = [seed EXCEPT ![r] = db[Current(r)]]
    /\ pc' = [pc EXCEPT ![r] = "reserve"]
    /\ UNCHANGED <<at, held, viaRedis, actual, event, db, redis, pending, master, scan, faults>>

RedisReserve(r) ==
    LET p == Current(r)
        h == Seeded(redis[p], seed[r])
    IN
    /\ pc[r] = "reserve"
    /\ \/ /\ Allowed(h, Estimate[r], Limit[p])
          /\ redis' = [redis EXCEPT ![p] = [h EXCEPT !.reserved = @ + Estimate[r]]]
          /\ held' = [held EXCEPT ![r] = @ \cup {p}]
          /\ at' = [at EXCEPT ![r] = @ + 1]
          /\ pc' = [pc EXCEPT ![r] = IF at[r] = Len(Order) THEN "mirror" ELSE "seed"]
       \/ /\ ~Allowed(h, Estimate[r], Limit[p])
          /\ redis' = [redis EXCEPT ![p] = h]
          /\ pc' = [pc EXCEPT ![r] = "undo_deny"]
          /\ UNCHANGED <<held, at>>
    /\ UNCHANGED <<seed, viaRedis, actual, event, db, pending, master, scan, faults>>

\* The command fails, before or after Redis executed it; this policy's
\* reservation is not in the list that is rolled back.
RedisReserveFails(r) ==
    LET p == Current(r)
        h == Seeded(redis[p], seed[r])
    IN
    /\ pc[r] = "reserve"
    /\ Fault
    /\ \/ UNCHANGED redis
       \/ redis' = [redis EXCEPT ![p] = IF Allowed(h, Estimate[r], Limit[p])
                                         THEN [h EXCEPT !.reserved = @ + Estimate[r]] ELSE h]
    /\ pc' = [pc EXCEPT ![r] = "undo_fallback"]
    /\ UNCHANGED <<at, seed, held, viaRedis, actual, event, db, pending, master, scan>>

\* refundRedisQuotaReservations, one command; a failed one is only logged.
UndoRedis(r) ==
    \E p \in held[r] :
        /\ pc[r] \in {"undo_deny", "undo_fallback"}
        /\ held' = [held EXCEPT ![r] = @ \ {p}]
        /\ \/ redis' = [redis EXCEPT ![p] = RefundScript(@, Estimate[r])] /\ UNCHANGED faults
           \/ Fault /\ UNCHANGED redis
        /\ UNCHANGED <<pc, at, seed, viaRedis, actual, event, db, pending, master, scan>>

\* Mutant: a rejected request is answered before its earlier policies are rolled back.
MutantUndoDone(r) ==
    /\ \/ pc[r] = "undo_deny" /\ pc' = [pc EXCEPT ![r] = "denied"]
       \/ pc[r] = "undo_fallback" /\ held[r] = {} /\ pc' = [pc EXCEPT ![r] = "fallback"]
    /\ UNCHANGED <<at, seed, held, viaRedis, actual, event, db, redis, pending, master, scan, faults>>

UndoDone(r) ==
    /\ held[r] = {}
    /\ \/ pc[r] = "undo_deny" /\ pc' = [pc EXCEPT ![r] = "denied"]
       \/ pc[r] = "undo_fallback" /\ pc' = [pc EXCEPT ![r] = "fallback"]
    /\ UNCHANGED <<at, seed, held, viaRedis, actual, event, db, redis, pending, master, scan, faults>>

AddToRows(r) ==
    /\ db' = [p \in Policies |-> Row(db[p].used, db[p].reserved + Estimate[r])]
    /\ event' = [event EXCEPT ![r] = [p \in Policies |-> "reserved"]]

\* The mirror transaction; it does not check the limit again.
MirrorReservation(r) ==
    /\ pc[r] = "mirror"
    /\ AddToRows(r)
    /\ viaRedis' = [viaRedis EXCEPT ![r] = TRUE]
    /\ pc' = [pc EXCEPT ![r] = "running"]
    /\ UNCHANGED <<at, seed, held, actual, redis, pending, master, scan, faults>>

\* A read of the limit or the row, or the mirror transaction, fails.
DatabaseFails(r) ==
    /\ pc[r] \in {"seed", "mirror"}
    /\ Fault
    /\ pc' = [pc EXCEPT ![r] = "undo_fallback"]
    /\ UNCHANGED <<at, seed, held, viaRedis, actual, event, db, redis, pending, master, scan>>

\* reserveEnterpriseQuotaWithDB: checks and adds in one transaction.
FallbackReserve(r) ==
    /\ pc[r] = "fallback"
    /\ \/ /\ \A p \in Policies : Allowed(db[p], Estimate[r], Limit[p])
          /\ AddToRows(r)
          /\ pc' = [pc EXCEPT ![r] = "running"]
       \/ /\ \E p \in Policies : ~Allowed(db[p], Estimate[r], Limit[p])
          /\ pc' = [pc EXCEPT ![r] = "denied"]
          /\ UNCHANGED <<db, event>>
    /\ UNCHANGED <<at, seed, held, viaRedis, actual, redis, pending, master, scan, faults>>

FallbackFails(r) ==
    /\ pc[r] = "fallback"
    /\ Fault
    /\ pc' = [pc EXCEPT ![r] = "denied"]
    /\ UNCHANGED <<at, seed, held, viaRedis, actual, event, db, redis, pending, master, scan>>

-----------------------------------------------------------------------------
(* Settle and refund: the transaction first, then one command per policy *)

ReleaseRows(r, charge) ==
    db' = [p \in Policies |->
              Row(db[p].used + charge, Clamp(db[p].reserved - Estimate[r]))]

\* Mutant: the event rows are not closed with the counter update.
MutantCloseEvents(r, newStatus) == UNCHANGED event

CloseEvents(r, newStatus) ==
    event' = [event EXCEPT ![r] =
        [p \in Policies |-> IF event[r][p] = "reserved" THEN newStatus ELSE event[r][p]]]

\* The Redis side follows only for reservations that were made in Redis.
ThenRedis(r, state) ==
    /\ pc' = [pc EXCEPT ![r] = IF viaRedis[r] THEN state ELSE "done"]
    /\ held' = [held EXCEPT ![r] = IF viaRedis[r] THEN Policies ELSE {}]

SettleRows(r) ==
    \E a \in Actuals :
        LET charge == IF a <= 0 THEN Estimate[r] ELSE a IN
        /\ pc[r] = "running"
        /\ ReleaseRows(r, charge)
        /\ CloseEvents(r, "settled")
        /\ actual' = [actual EXCEPT ![r] = charge]
        /\ ThenRedis(r, "settling")
        /\ UNCHANGED <<at, seed, viaRedis, redis, pending, master, scan, faults>>

RefundRows(r) ==
    /\ pc[r] = "running"
    /\ ReleaseRows(r, 0)
    /\ CloseEvents(r, "refunded")
    /\ ThenRedis(r, "refunding")
    /\ UNCHANGED <<at, seed, viaRedis, actual, redis, pending, master, scan, faults>>

\* settleRedisEnterpriseReservation, refundRedisEnterpriseReservation: an error is logged.
FinishRedis(r) ==
    \E p \in held[r] :
        /\ pc[r] \in {"settling", "refunding"}
        /\ held' = [held EXCEPT ![r] = @ \ {p}]
        /\ pc' = [pc EXCEPT ![r] = IF held[r] = {p} THEN "done" ELSE @]
        /\ \/ /\ redis' = [redis EXCEPT ![p] =
                    IF pc[r] = "settling" THEN SettleScript(@, Estimate[r], actual[r])
                                          ELSE RefundScript(@, Estimate[r])]
              /\ UNCHANGED faults
           \/ Fault /\ UNCHANGED redis
        /\ UNCHANGED <<at, seed, viaRedis, actual, event, db, pending, master, scan>>

\* The process dies, or the settle or refund transaction fails.
Abandon(r) ==
    /\ pc[r] \notin {"denied", "done", "dead"}
    /\ Fault
    /\ pc' = [pc EXCEPT ![r] = "dead"]
    /\ UNCHANGED <<at, seed, held, viaRedis, actual, event, db, redis, pending, master, scan>>

RedisLosesKey(p) ==
    /\ redis[p].found
    /\ Fault
    /\ redis' = [redis EXCEPT ![p] = NoHash]
    /\ UNCHANGED <<request, event, db, pending, master, scan>>

-----------------------------------------------------------------------------
(* Compensation of the events that dead requests left open *)

CompensateRow(r, p) ==
    /\ event[r][p] = "reserved"
    /\ pc[r] = "dead"
    /\ db' = [db EXCEPT ![p].reserved = Clamp(@ - Estimate[r])]
    /\ event' = [event EXCEPT ![r][p] = "compensated"]
    /\ pending' = IF viaRedis[r] THEN pending \cup {<<r, p>>} ELSE pending
    /\ UNCHANGED <<request, redis, master, scan, faults>>

\* The counter row cannot be read: the event is closed as failed.
CompensateRowFails(r, p) ==
    /\ event[r][p] = "reserved"
    /\ pc[r] = "dead"
    /\ Fault
    /\ event' = [event EXCEPT ![r][p] = "failed"]
    /\ UNCHANGED <<request, db, redis, pending, master, scan>>

CompensateRedis(r, p) ==
    /\ <<r, p>> \in pending
    /\ pending' = pending \ {<<r, p>>}
    /\ \/ redis' = [redis EXCEPT ![p] = RefundScript(@, Estimate[r])] /\ UNCHANGED faults
       \/ Fault /\ UNCHANGED redis
    /\ UNCHANGED <<request, event, db, master, scan>>

-----------------------------------------------------------------------------
(* ReconcileEnterpriseQuotaRedisCounters: rows first, then keys without a row *)

SameValues(x, y) == x.used = y.used /\ x.reserved = y.reserved

\* All rows are read at once; the loop then works on these copies.
ReconcileReadRows ==
    /\ master
    /\ scan.state = "idle"
    /\ scan' = [scan EXCEPT !.state = "rows", !.rows = db,
                            !.todo = {p \in Policies : db[p].found}]
    /\ UNCHANGED <<request, event, db, redis, pending, master, faults>>

\* Mutant: a key that is missing in Redis is taken for an unused counter.
MutantReconcileCompare(p) ==
    /\ scan.state = "rows"
    /\ p \in scan.todo
    /\ scan' = [scan EXCEPT !.state = IF ~redis[p].found \/ SameValues(scan.rows[p], redis[p])
                                      THEN "rows" ELSE "repair",
                            !.todo = @ \ {p}, !.item = p]
    /\ UNCHANGED <<request, event, db, redis, pending, master, faults>>

\* The Redis side of one row: equal, or neither has anything (the snapshot of a
\* missing key is all zero).
ReconcileCompare(p) ==
    /\ scan.state = "rows"
    /\ p \in scan.todo
    /\ scan' = [scan EXCEPT !.state = IF SameValues(scan.rows[p], redis[p]) THEN "rows"
                                                                          ELSE "repair",
                            !.todo = @ \ {p}, !.item = p]
    /\ UNCHANGED <<request, event, db, redis, pending, master, faults>>

\* SetSnapshot with the copy of the row.
ReconcileRepair ==
    /\ scan.state = "repair"
    /\ LET row == scan.rows[scan.item] IN
       redis' = [redis EXCEPT ![scan.item] = Hash(TRUE, row.used, row.reserved)]
    /\ scan' = [scan EXCEPT !.state = "rows"]
    /\ UNCHANGED <<request, event, db, pending, master, faults>>

ReconcileScanKeys ==
    /\ scan.state = "rows"
    /\ scan.todo = {}
    /\ scan' = [scan EXCEPT !.state = "keys", !.todo = {p \in Policies : redis[p].found}]
    /\ UNCHANGED <<request, event, db, redis, pending, master, faults>>

\* A key without a row: its values are copied out of Redis ...
ReconcileOrphan(p) ==
    /\ scan.state = "keys"
    /\ p \in scan.todo
    /\ IF db[p].found \/ ~redis[p].found
       THEN scan' = [scan EXCEPT !.todo = @ \ {p}]
       ELSE scan' = [scan EXCEPT !.state = "create", !.todo = @ \ {p}, !.item = p,
                                 !.snap = Row(redis[p].used, redis[p].reserved)]
    /\ UNCHANGED <<request, event, db, redis, pending, master, faults>>

\* ... and a row with these values is created unless there is one by now.
ReconcileCreateRow ==
    /\ scan.state = "create"
    /\ db' = [db EXCEPT ![scan.item] = IF @.found THEN @ ELSE scan.snap]
    /\ scan' = [scan EXCEPT !.state = "keys"]
    /\ UNCHANGED <<request, event, redis, pending, master, faults>>

ReconcileDone ==
    /\ scan.state = "keys"
    /\ scan.todo = {}
    /\ scan' = ScanIdle
    /\ UNCHANGED <<request, event, db, redis, pending, master, faults>>

-----------------------------------------------------------------------------

RequestStep(r) ==
    \/ ReadSeed(r) \/ RedisReserve(r) \/ RedisReserveFails(r) \/ UndoRedis(r) \/ UndoDone(r)
    \/ MirrorReservation(r) \/ DatabaseFails(r) \/ FallbackReserve(r) \/ FallbackFails(r)
    \/ SettleRows(r) \/ RefundRows(r) \/ FinishRedis(r) \/ Abandon(r)

Compensation ==
    \E r \in Requests, p \in Policies :
        CompensateRow(r, p) \/ CompensateRowFails(r, p) \/ CompensateRedis(r, p)

Reconciliation ==
    \/ ReconcileReadRows \/ ReconcileScanKeys \/ ReconcileRepair \/ ReconcileCreateRow
    \/ ReconcileDone
    \/ \E p \in Policies : ReconcileCompare(p) \/ ReconcileOrphan(p)

Next ==
    \/ \E r \in Requests : RequestStep(r)
    \/ \E p \in Policies : RedisLosesKey(p)
    \/ Compensation
    \/ Reconciliation

Spec == Init /\ [][Next]_vars

\* Handlers run to their end, and the two tasks run on tickers of the master node.
FairSpec ==
    /\ Spec
    /\ \A r \in Requests : WF_vars(RequestStep(r))
    /\ WF_vars(Compensation)
    /\ WF_vars(Reconciliation)

-----------------------------------------------------------------------------
(* Properties *)

Rows   == [found : BOOLEAN, used : Nat, reserved : Nat]
Hashes == [found : BOOLEAN, initialized : BOOLEAN, used : Nat, reserved : Nat]

TypeOK ==
    /\ pc \in [Requests -> {"seed", "reserve", "undo_deny", "undo_fallback", "mirror", "fallback",
                            "running", "settling", "refunding", "denied", "done", "dead"}]
    /\ at \in [Requests -> 1 .. Len(Order) + 1]
    /\ seed \in [Requests -> Rows]
    /\ held \in [Requests -> SUBSET Policies]
    /\ viaRedis \in [Requests -> BOOLEAN]
    /\ actual \in [Requests -> Nat]
    /\ event \in [Requests -> [Policies ->
                    {"none", "reserved", "settled", "refunded", "compensated", "failed"}]]
    /\ db \in [Policies -> Rows]
    /\ redis \in [Policies -> Hashes]
    /\ pending \subseteq Requests \X Policies
    /\ master \in BOOLEAN
    /\ scan \in [state : {"idle", "rows", "repair", "keys", "create"}, rows : [Policies -> Rows],
                 todo : SUBSET Policies, item : Policies, snap : Rows]
    /\ faults \in 0 .. MaxFaults

Estimated(R) == Total(R, Estimate)
Charged(R)   == Total(R, actual)

\* Usage beyond the estimate.
Overrun(r) == Clamp(actual[r] - Estimate[r])

\* Reserved in Redis, not yet in the row; and already out of the row, not yet of Redis.
Ahead(p)  == {r \in Requests : p \in held[r] /\
                pc[r] \in {"seed", "reserve", "mirror", "undo_deny", "undo_fallback"}}
Behind(p) == {r \in Requests : p \in held[r] /\ pc[r] \in {"settling", "refunding"}}

Undisturbed == faults = 0 /\ ~master

(* Redis and the row of a counter differ exactly by the requests that are  *)
(* between their two writes: every script a request runs in Redis (seeding *)
(* included) and its transaction do the same arithmetic, once each, and a  *)
(* denied request has undone all of it.  Holds while nothing fails and no  *)
(* reconciler repairs with rows it read earlier.                           *)
MirrorLag ==
    Undisturbed => \A p \in Policies :
        /\ redis[p].reserved = db[p].reserved + Estimated(Ahead(p)) + Estimated(Behind(p))
        /\ redis[p].used = db[p].used - Charged(Behind(p))

(* What Redis admitted, committed to the row or not, stays within the      *)
(* limit up to usage beyond the estimates, although the mirror transaction *)
(* itself checks nothing.  Holds under the same condition.                 *)
AdmittedWithinLimit ==
    Undisturbed => \A p \in Policies :
        db[p].used + db[p].reserved + Estimated(Ahead(p)) <=
            Limit[p] + Total(Requests, [r \in Requests |-> Overrun(r)])

(* Whatever goes wrong in Redis (lost keys, errors before or after a       *)
(* command took effect, stale repairs) and whoever dies, the row stays the *)
(* exact sum of the reservations that nobody released and of the charged   *)
(* usage.                                                                  *)
RowsExact ==
    \A p \in Policies :
        /\ db[p].reserved = Estimated({r \in Requests : event[r][p] \in {"reserved", "failed"}})
        /\ db[p].used = Charged({r \in Requests : event[r][p] = "settled"})

(* The books, in every state: in addition no value in Redis or in a row    *)
(* goes below zero, whichever of them is released without having been      *)
(* reserved.                                                               *)
RedisInv == TypeOK /\ RowsExact

AtRest == /\ \A r \in Requests : pc[r] \in {"denied", "done", "dead"}
          /\ \A r \in Requests, p \in Policies : event[r][p] # "reserved"

(* Once every request is over and every event is closed, nothing is        *)
(* reserved in the rows any more.                                          *)
ReservedReturnsToZero == AtRest => \A p \in Policies : db[p].reserved = 0

(* After the last fault and the last request the reconciler brings Redis   *)
(* and the rows together for good: lost keys are rebuilt, rows are created *)
(* for keys that have none, and nothing keeps the two apart.               *)
RedisConverges == <>[](\A p \in Policies : SameValues(redis[p], db[p]))
=============================================================================
