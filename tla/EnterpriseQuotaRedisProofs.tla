----------------------- MODULE EnterpriseQuotaRedisProofs -----------------------
(***************************************************************************)
(* Proofs about EnterpriseQuotaRedis, for any number of requests and       *)
(* policies, any limits and amounts, and any number of faults.             *)
(*                                                                         *)
(* The rows are exact because the events say what each request has in      *)
(* them: none before the mirror transaction, a reservation on every policy *)
(* while it runs.  The lag of Redis behind the rows needs in addition what *)
(* a request holds in Redis at each position of its loop over the          *)
(* policies, and that a key which was not seeded yet belongs to a counter  *)
(* nobody has used, also when the row it will be seeded with was read      *)
(* earlier.                                                                *)
(***************************************************************************)
EXTENDS EnterpriseQuotaRedis, FiniteSetTheorems, TLAPS

-----------------------------------------------------------------------------
(***************************************************************************)
(* Totals (QuotaTotals): what a total is worth, and how it changes with    *)
(* one of its holders.                                                     *)
(***************************************************************************)

(* natural number.                                                         *)
LEMMA TotalType ==
    ASSUME NEW S, IsFiniteSet(S), NEW v, \A s \in S : v[s] \in Nat
    PROVE  IsFiniteSet(Units(S, v)) /\ Total(S, v) \in Nat
<1> DEFINE f == [s \in S |-> {s} \X (1 .. v[s])]
           T == {{s} \X (1 .. v[s]) : s \in S}
<1>1. ASSUME NEW s \in S PROVE IsFiniteSet({s} \X (1 .. v[s]))
  <2>1. IsFiniteSet(1 .. v[s])
    BY FS_Interval
  <2>2. IsFiniteSet({s})
    BY FS_Singleton
  <2>3. QED
    BY <2>1, <2>2, FS_Product
<1>2. f \in Surjection(S, T)
  BY DEF Surjection
<1>3. IsFiniteSet(T)
  BY <1>2, FS_Surjection
<1>4. IsFiniteSet(Units(S, v))
  <2>1. \A U \in T : IsFiniteSet(U)
    BY <1>1
  <2>2. IsFiniteSet(UNION T)
    BY <1>3, <2>1, FS_UNION
  <2>3. QED
    BY <2>2 DEF Units
<1> QED
  BY <1>4, FS_CardinalityType DEF Total

(* No holder, no units: the total an empty reservation table starts from.  *)
LEMMA TotalEmpty ==
    ASSUME NEW v
    PROVE  Total({}, v) = 0
<1>1. Units({}, v) = {}
  BY DEF Units
<1> QED
  BY <1>1, FS_EmptySet DEF Total

(* A total only depends on the amounts of its own holders.                 *)
LEMMA TotalSame ==
    ASSUME NEW S, NEW v, NEW w, \A s \in S : v[s] = w[s]
    PROVE  Total(S, v) = Total(S, w)
<1>1. Units(S, v) = Units(S, w)
  BY DEF Units
<1> QED
  BY <1>1 DEF Total

(* One holder contributes exactly its own amount.                          *)
LEMMA TotalOne ==
    ASSUME NEW s, NEW v, v[s] \in Nat
    PROVE  Total({s}, v) = v[s]
<1> DEFINE B == 1 .. v[s]
<1>0. v[s] \in Int /\ v[s] >= 0
  OBVIOUS
<1>1. IsFiniteSet(B) /\ Cardinality(B) = v[s]
  <2>1. 1 \in Int
    OBVIOUS
  <2>2. Cardinality(B) = IF 1 > v[s] THEN 0 ELSE v[s] - 1 + 1
    BY <1>0, <2>1, FS_Interval
  <2>3. IsFiniteSet(B)
    BY <1>0, <2>1, FS_Interval
  <2>4. (IF 1 > v[s] THEN 0 ELSE v[s] - 1 + 1) = v[s]
    BY <1>0
  <2> QED
    BY <2>2, <2>3, <2>4
<1>2. Units({s}, v) = {s} \X B
  BY DEF Units
<1>3. IsFiniteSet({s}) /\ Cardinality({s}) = 1
  BY FS_Singleton
<1>4. Cardinality({s} \X B) = 1 * v[s]
  BY <1>1, <1>3, FS_Product, ZenonT(30)
<1>5. 1 * v[s] = v[s]
  BY <1>0
<1> QED
  BY <1>2, <1>4, <1>5 DEF Total

(* A holder that joins adds its amount: what admitting a reservation does. *)
LEMMA TotalAdd ==
    ASSUME NEW S, IsFiniteSet(S), NEW s, s \notin S, NEW v,
           \A t \in S \cup {s} : v[t] \in Nat
    PROVE  Total(S \cup {s}, v) = Total(S, v) + v[s]
<1>1. Units(S \cup {s}, v) = Units(S, v) \cup Units({s}, v)
  BY DEF Units
<1>2. Units(S, v) \cap Units({s}, v) = {}
  BY DEF Units
<1>3. IsFiniteSet({s})
  BY FS_Singleton
<1>4. IsFiniteSet(Units(S, v)) /\ IsFiniteSet(Units({s}, v))
  BY <1>3, TotalType
<1>5. /\ Total(S, v) \in Nat
      /\ Total({s}, v) = v[s]
  BY TotalType, TotalOne
<1>6. Cardinality(Units(S, v) \cup Units({s}, v))
        = Cardinality(Units(S, v)) + Cardinality(Units({s}, v)) - 0
  <2>1. Cardinality(Units(S, v) \cup Units({s}, v))
          = Cardinality(Units(S, v)) + Cardinality(Units({s}, v))
              - Cardinality(Units(S, v) \cap Units({s}, v))
    BY <1>4, FS_Union
  <2>2. Cardinality(Units(S, v) \cap Units({s}, v)) = 0
    BY <1>2, FS_EmptySet
  <2>3. QED
    BY <2>1, <2>2
<1>7. Total(S \cup {s}, v) = Total(S, v) + Total({s}, v) - 0
  BY <1>1, <1>6 DEF Total
<1>8. v[s] \in Int
  OBVIOUS
<1> QED
  BY <1>5, <1>7, <1>8

(* closing a reservation does.                                             *)
LEMMA TotalRemove ==
    ASSUME NEW S, IsFiniteSet(S), NEW s \in S, NEW v,
           \A t \in S : v[t] \in Nat
    PROVE  /\ Total(S \ {s}, v) = Total(S, v) - v[s]
           /\ Total(S \ {s}, v) \in Nat
<1>1. IsFiniteSet(S \ {s})
  BY FS_RemoveElement
<1>2. S = (S \ {s}) \cup {s}
  OBVIOUS
<1>3. Total((S \ {s}) \cup {s}, v) = Total(S \ {s}, v) + v[s]
  BY <1>1, TotalAdd
<1>4. Total(S \ {s}, v) \in Nat
  BY <1>1, TotalType
<1>5. v[s] \in Int /\ Total(S, v) \in Nat
  BY TotalType
<1>6. Total(S, v) = Total(S \ {s}, v) + v[s]
  BY <1>2, <1>3
<1> QED
  BY <1>4, <1>5, <1>6

(* what one request does to the sums over all requests.                    *)
LEMMA TotalUpdate ==
    ASSUME NEW S, IsFiniteSet(S), NEW s \in S, NEW v, NEW w,
           \A t \in S : v[t] \in Nat, w[s] \in Nat,
           \A t \in S \ {s} : v[t] = w[t]
    PROVE  /\ Total(S, w) = Total(S, v) - v[s] + w[s]
           /\ Total(S, v) - v[s] \in Nat
           /\ Total(S, v) \in Nat
           /\ Total(S, w) \in Nat
<1>1. /\ Total(S \ {s}, v) = Total(S, v) - v[s]
      /\ Total(S \ {s}, v) \in Nat
  BY TotalRemove
<1>2. Total(S \ {s}, w) = Total(S, w) - w[s]
  BY TotalRemove
<1>3. Total(S \ {s}, v) = Total(S \ {s}, w)
  BY TotalSame
<1>4. Total(S, v) \in Nat /\ Total(S, w) \in Nat
  BY TotalType
<1>5. v[s] \in Int /\ w[s] \in Int
  OBVIOUS
<1> QED
  BY <1>1, <1>2, <1>3, <1>4, <1>5

(* A part of the holders has at most what all of them have.                *)
LEMMA TotalPart ==
    ASSUME NEW S, IsFiniteSet(S), NEW R \in SUBSET S, NEW v, \A s \in S : v[s] \in Nat
    PROVE  Total(R, v) <= Total(S, v) /\ Total(R, v) \in Nat /\ Total(S, v) \in Nat
<1>1. Units(R, v) \subseteq Units(S, v)
  BY DEF Units
<1>2. IsFiniteSet(Units(S, v)) /\ IsFiniteSet(R)
  BY TotalType, FS_Subset
<1>3. Cardinality(Units(R, v)) <= Cardinality(Units(S, v))
  BY <1>1, <1>2, FS_Subset
<1> QED
  BY <1>2, <1>3, TotalType DEF Total

(* The holders in a set, as amounts of all holders: the others have zero.  *)
LEMMA TotalWithin ==
    ASSUME NEW S, NEW R \in SUBSET S, NEW v
    PROVE  Total(R, v) = Total(S, [s \in S |-> IF s \in R THEN v[s] ELSE 0])
<1> DEFINE w == [s \in S |-> IF s \in R THEN v[s] ELSE 0]
<1>1. \A s \in S : s \notin R => {s} \X (1 .. w[s]) = {}
  OBVIOUS
<1>2. \A s \in R : {s} \X (1 .. w[s]) = {s} \X (1 .. v[s])
  OBVIOUS
<1>3. Units(R, v) = Units(S, w)
  <2> HIDE DEF w
  <2>1. ASSUME NEW u \in Units(S, w) PROVE u \in Units(R, v)
    BY <1>1, <1>2, <2>1 DEF Units
  <2>2. ASSUME NEW u \in Units(R, v) PROVE u \in Units(S, w)
    BY <1>2, <2>2 DEF Units
  <2>3. QED
    BY <2>1, <2>2
<1> QED
  BY <1>3 DEF Total

(* by the difference, and a holder that is counted is covered.             *)
LEMMA TotalMove ==
    ASSUME NEW S, IsFiniteSet(S), NEW s \in S, NEW R \in SUBSET S, NEW T \in SUBSET S,
           NEW v, NEW w, \A t \in S : v[t] \in Nat, w[s] \in Nat,
           \A t \in S \ {s} : v[t] = w[t] /\ (t \in R <=> t \in T)
    PROVE  /\ Total(T, w) = Total(R, v) - (IF s \in R THEN v[s] ELSE 0)
                                       + (IF s \in T THEN w[s] ELSE 0)
           /\ Total(R, v) \in Nat /\ Total(T, w) \in Nat
           /\ s \in R => Total(R, v) - v[s] \in Nat
<1> DEFINE x == [t \in S |-> IF t \in R THEN v[t] ELSE 0]
           y == [t \in S |-> IF t \in T THEN w[t] ELSE 0]
<1>1. Total(R, v) = Total(S, x) /\ Total(T, w) = Total(S, y)
  BY TotalWithin
<1>2. /\ \A t \in S : x[t] \in Nat
      /\ y[s] \in Nat
      /\ \A t \in S \ {s} : x[t] = y[t]
  OBVIOUS
<1>3. /\ Total(S, y) = Total(S, x) - x[s] + y[s]
      /\ Total(S, x) - x[s] \in Nat /\ Total(S, x) \in Nat /\ Total(S, y) \in Nat
  <2> HIDE DEF x, y
  <2> QED
    BY <1>2, TotalUpdate
<1> QED
  BY <1>1, <1>3

(* When one holder joins or leaves with its amount.                        *)
LEMMA TotalJoin ==
    ASSUME NEW S, IsFiniteSet(S), NEW s \in S, NEW R \in SUBSET S, NEW T \in SUBSET S,
           NEW v, \A t \in S : v[t] \in Nat, \A t \in S \ {s} : t \in R <=> t \in T
    PROVE  /\ Total(T, v) = Total(R, v) - (IF s \in R THEN v[s] ELSE 0)
                                       + (IF s \in T THEN v[s] ELSE 0)
           /\ Total(R, v) \in Nat /\ Total(T, v) \in Nat
           /\ s \in R => Total(R, v) - v[s] \in Nat
<1> DEFINE x == [t \in S |-> IF t \in R THEN v[t] ELSE 0]
           y == [t \in S |-> IF t \in T THEN v[t] ELSE 0]
<1>1. Total(R, v) = Total(S, x) /\ Total(T, v) = Total(S, y)
  BY TotalWithin
<1>2. /\ \A t \in S : x[t] \in Nat
      /\ y[s] \in Nat
      /\ \A t \in S \ {s} : x[t] = y[t]
  OBVIOUS
<1>3. /\ Total(S, y) = Total(S, x) - x[s] + y[s]
      /\ Total(S, x) - x[s] \in Nat /\ Total(S, x) \in Nat /\ Total(S, y) \in Nat
  <2> HIDE DEF x, y
  <2> QED
    BY <1>2, TotalUpdate
<1> QED
  BY <1>1, <1>3

(* Adding amounts holder by holder adds the totals.                        *)
LEMMA TotalPlus ==
    ASSUME NEW S, IsFiniteSet(S), NEW v, NEW w, NEW x,
           \A s \in S : v[s] \in Nat /\ w[s] \in Nat /\ x[s] = v[s] + w[s]
    PROVE  /\ Total(S, x) = Total(S, v) + Total(S, w)
           /\ Total(S, v) \in Nat /\ Total(S, w) \in Nat /\ Total(S, x) \in Nat
<1> DEFINE W == {u \in Units(S, x) : u[2] > v[u[1]]}
           f == [u \in Units(S, w) |-> <<u[1], u[2] + v[u[1]]>>]
<1>1. \A u : u \in Units(S, v) <=> \E s \in S, i \in Nat : u = <<s, i>> /\ 1 <= i /\ i <= v[s]
  BY DEF Units
<1>2. \A u : u \in Units(S, w) <=> \E s \in S, i \in Nat : u = <<s, i>> /\ 1 <= i /\ i <= w[s]
  BY DEF Units
<1>3. \A u : u \in Units(S, x) <=> \E s \in S, i \in Nat : u = <<s, i>> /\ 1 <= i /\ i <= x[s]
  BY DEF Units
<1>4. Units(S, x) = Units(S, v) \cup W
  BY <1>1, <1>3
<1>5. Units(S, v) \cap W = {}
  BY <1>1, <1>3
<1>6. f \in Bijection(Units(S, w), W)
  <2>1. f \in [Units(S, w) -> W]
    BY <1>2, <1>3
  <2>2. \A a, b \in Units(S, w) : f[a] = f[b] => a = b
    BY <1>2
  <2>3. ASSUME NEW u \in W PROVE \E a \in Units(S, w) : f[a] = u
    <3>1. PICK s \in S, i \in Nat : u = <<s, i>> /\ 1 <= i /\ i <= x[s]
      BY <1>3
    <3>2. i - v[s] \in Nat /\ 1 <= i - v[s] /\ i - v[s] <= w[s]
      BY <2>3, <3>1
    <3>3. <<s, i - v[s]>> \in Units(S, w)
      BY <1>2, <3>2
    <3>4. f[<<s, i - v[s]>>] = <<s, i - v[s] + v[s]>>
      BY <3>3
    <3>5. i - v[s] + v[s] = i
      BY <3>1
    <3>6. QED
      BY <3>1, <3>3, <3>4, <3>5
  <2> HIDE DEF f, W
  <2>4. f \in Injection(Units(S, w), W)
    BY <2>1, <2>2 DEF Injection, IsInjective
  <2>5. f \in Surjection(Units(S, w), W)
    BY <2>1, <2>3 DEF Surjection
  <2>6. QED
    BY <2>4, <2>5 DEF Bijection
<1>7. \A s \in S : x[s] \in Nat
  OBVIOUS
<1>8. /\ IsFiniteSet(Units(S, v)) /\ IsFiniteSet(Units(S, w))
      /\ Total(S, v) \in Nat /\ Total(S, w) \in Nat /\ Total(S, x) \in Nat
  BY <1>7, TotalType
<1>9. IsFiniteSet(W) /\ Cardinality(W) = Cardinality(Units(S, w))
  BY <1>6, <1>8, FS_Bijection DEF ExistsBijection
<1>10. Cardinality(Units(S, v) \cup W)
         = Cardinality(Units(S, v)) + Cardinality(W) - Cardinality(Units(S, v) \cap W)
  BY <1>8, <1>9, FS_Union
<1>11. Cardinality(Units(S, v) \cap W) = 0
  BY <1>5, FS_EmptySet
<1>12. Total(S, x) = Total(S, v) + Total(S, w) - 0
  <2> HIDE DEF W
  <2> QED
    BY <1>4, <1>9, <1>10, <1>11 DEF Total
<1> QED
  BY <1>8, <1>12

-----------------------------------------------------------------------------

\* Positions before a request has anything in the rows.
Before == {"seed", "reserve", "undo_deny", "undo_fallback", "mirror", "fallback", "denied"}

\* Positions at which what a request holds is in Redis, but not in the rows.
AheadPcs == {"seed", "reserve", "mirror", "undo_deny", "undo_fallback"}

EventInv ==
    \A r \in Requests :
        /\ pc[r] \in Before => \A p \in Policies : event[r][p] = "none"
        /\ pc[r] = "running" => \A p \in Policies : event[r][p] = "reserved"
        /\ pc[r] \in {"seed", "reserve"} => at[r] \in 1 .. Len(Order)

\* The reconciler only creates rows that do not exist, and only on a master node.
RowsKept ==
    /\ RowsExist => \A p \in Policies : db[p].found
    /\ ~master => scan.state = "idle"
    /\ RowsExist \/ ~master => RowsExact

IInv == TypeOK /\ EventInv /\ RowsKept

-----------------------------------------------------------------------------
(* Until the first fault, and without a reconciler *)

\* What a request holds in Redis at each position.
Holding(r) ==
    /\ pc[r] \notin {"undo_fallback", "fallback", "dead"}
    /\ pc[r] \in {"seed", "reserve"} => held[r] = {Order[i] : i \in 1 .. at[r] - 1}
    /\ pc[r] = "mirror" => held[r] = Policies
    /\ pc[r] = "running" => viaRedis[r]
    /\ pc[r] \notin {"settling", "done"} => actual[r] = 0

\* A key is seeded before anybody holds or has used the counter.
SeededFirst(p) ==
    /\ \A r \in Requests :
          /\ p \in held[r] => redis[p].initialized
          /\ pc[r] \notin {"seed", "reserve", "undo_deny", "denied"} => redis[p].initialized
          /\ pc[r] = "reserve" /\ Current(r) = p /\ ~redis[p].initialized =>
                seed[r].used = 0 /\ seed[r].reserved = 0
    /\ ~redis[p].initialized =>
          /\ redis[p].used = 0 /\ redis[p].reserved = 0
          /\ db[p].used = 0 /\ db[p].reserved = 0

Lag(p) ==
    /\ redis[p].reserved = db[p].reserved + Estimated(Ahead(p)) + Estimated(Behind(p))
    /\ redis[p].used = db[p].used - Charged(Behind(p))

OverrunSum == Total(Requests, [r \in Requests |-> Overrun(r)])

WithinLimit(p) ==
    db[p].used + db[p].reserved + Estimated(Ahead(p)) <= Limit[p] + OverrunSum

CalmInv ==
    Undisturbed =>
        /\ pending = {}
        /\ \A r \in Requests : Holding(r)
        /\ \A p \in Policies : SeededFirst(p) /\ Lag(p) /\ WithinLimit(p)

-----------------------------------------------------------------------------
(* Types *)

(* The policies are those of the list, each of them once. *)
LEMMA OrderFacts ==
    /\ Len(Order) \in Nat /\ Len(Order) >= 1
    /\ \A i \in 1 .. Len(Order) : Order[i] \in Policies
    /\ \A p \in Policies : \E i \in 1 .. Len(Order) : p = Order[i]
    /\ \A i, j \in 1 .. Len(Order) : Order[i] = Order[j] => i = j
BY RedisAssumption DEF Policies

(* What a request reserves. *)
LEMMA EstimateType ==
    ASSUME NEW r \in Requests
    PROVE  Estimate[r] \in Nat /\ Estimate[r] > 0
BY RedisAssumption

(* Rows have natural fields, and are built from them. *)
LEMMA RowFields ==
    ASSUME NEW h \in Rows
    PROVE  h.used \in Nat /\ h.reserved \in Nat /\ h.found \in BOOLEAN
BY DEF Rows

(* A row as an update builds it. *)
LEMMA RowBuilt ==
    ASSUME NEW u \in Nat, NEW n \in Nat
    PROVE  Row(u, n) \in Rows /\ Row(u, n).used = u /\ Row(u, n).reserved = n /\ Row(u, n).found
BY DEF Rows, Row

(* GREATEST(n, 0): what a release may leave. *)
LEMMA ClampType ==
    ASSUME NEW n \in Int
    PROVE  Clamp(n) \in Nat /\ (n >= 0 => Clamp(n) = n)
BY DEF Clamp

(* So do the hashes in Redis, and the scripts change them as they say. *)
LEMMA HashFields ==
    ASSUME NEW h \in Hashes
    PROVE  h.used \in Nat /\ h.reserved \in Nat /\ h.found \in BOOLEAN /\ h.initialized \in BOOLEAN
BY DEF Hashes

(* A hash as a script builds it. *)
LEMMA HashBuilt ==
    ASSUME NEW u \in Nat, NEW n \in Nat
    PROVE  /\ Hash(TRUE, u, n) \in Hashes
           /\ Hash(TRUE, u, n).used = u /\ Hash(TRUE, u, n).reserved = n
           /\ Hash(TRUE, u, n).initialized
BY DEF Hashes, Hash

(* A hash without fields is seeded from the row, another one is kept. *)
LEMMA SeededType ==
    ASSUME NEW h \in Hashes, NEW row \in Rows
    PROVE  /\ Seeded(h, row) \in Hashes
           /\ Seeded(h, row).initialized
           /\ h.initialized => Seeded(h, row) = h
           /\ ~h.initialized => Seeded(h, row).used = row.used /\ Seeded(h, row).reserved = row.reserved
<1>1. CASE h.initialized
  BY <1>1, HashFields DEF Seeded
<1>2. CASE ~h.initialized
  BY <1>2, RowFields, HashBuilt DEF Seeded
<1>3. QED
  BY <1>1, <1>2, HashFields

(* The reserving script adds to what is reserved and to nothing else. *)
LEMMA ReserveType ==
    ASSUME NEW h \in Hashes, NEW n \in Nat
    PROVE  LET x == [h EXCEPT !.reserved = @ + n]
           IN  /\ x \in Hashes
               /\ x.used = h.used /\ x.reserved = h.reserved + n /\ x.initialized = h.initialized
BY DEF Hashes

(* The refunding script takes the reservation off, not below zero. *)
LEMMA RefundType ==
    ASSUME NEW h \in Hashes, NEW n \in Nat
    PROVE  /\ RefundScript(h, n) \in Hashes
           /\ RefundScript(h, n).used = h.used
           /\ RefundScript(h, n).reserved = Clamp(h.reserved - n)
           /\ RefundScript(h, n).initialized = h.initialized
BY HashFields, ClampType DEF Hashes, RefundScript, Hash

(* The settling script does that too, and books the usage. *)
LEMMA SettleType ==
    ASSUME NEW h \in Hashes, NEW n \in Nat, NEW u \in Nat
    PROVE  /\ SettleScript(h, n, u) \in Hashes
           /\ SettleScript(h, n, u).used = h.used + u
           /\ SettleScript(h, n, u).reserved = Clamp(h.reserved - n)
           /\ SettleScript(h, n, u).initialized = h.initialized
BY HashFields, ClampType DEF Hashes, SettleScript, Hash

(* The two updates of the rows, by the reservation and by its release. *)
LEMMA AddRows ==
    ASSUME TypeOK, NEW r \in Requests, AddToRows(r)
    PROVE  /\ db' \in [Policies -> Rows]
           /\ \A p \in Policies : /\ db'[p].used = db[p].used
                                  /\ db'[p].reserved = db[p].reserved + Estimate[r]
                                  /\ db'[p].found
<1>1. ASSUME NEW p \in Policies
      PROVE  LET x == Row(db[p].used, db[p].reserved + Estimate[r])
             IN  /\ x \in Rows /\ x.used = db[p].used
                 /\ x.reserved = db[p].reserved + Estimate[r] /\ x.found
  <2>1. db[p].used \in Nat /\ db[p].reserved + Estimate[r] \in Nat
    BY RowFields, EstimateType DEF TypeOK
  <2>2. QED
    BY <2>1, RowBuilt
<1>2. db' = [p \in Policies |-> Row(db[p].used, db[p].reserved + Estimate[r])]
  BY DEF AddToRows
<1>3. QED
  BY <1>1, <1>2

(* The update of the rows that releases a reservation. *)
LEMMA ReleasedRows ==
    ASSUME TypeOK, NEW r \in Requests, NEW n \in Nat, ReleaseRows(r, n)
    PROVE  /\ db' \in [Policies -> Rows]
           /\ \A p \in Policies : /\ db'[p].used = db[p].used + n
                                  /\ db'[p].reserved = Clamp(db[p].reserved - Estimate[r])
                                  /\ db'[p].found
<1>1. ASSUME NEW p \in Policies
      PROVE  LET x == Row(db[p].used + n, Clamp(db[p].reserved - Estimate[r]))
             IN  /\ x \in Rows /\ x.used = db[p].used + n
                 /\ x.reserved = Clamp(db[p].reserved - Estimate[r]) /\ x.found
  <2>1. db[p].used + n \in Nat /\ db[p].reserved - Estimate[r] \in Int
    BY RowFields, EstimateType DEF TypeOK
  <2>2. QED
    BY <2>1, RowBuilt, ClampType
<1>2. db' = [p \in Policies |-> Row(db[p].used + n, Clamp(db[p].reserved - Estimate[r]))]
  BY DEF ReleaseRows
<1>3. QED
  BY <1>1, <1>2

(* The event rows of one request keep their type. *)
LEMMA ClosedType ==
    ASSUME TypeOK, NEW r \in Requests, NEW to \in {"settled", "refunded"}, CloseEvents(r, to)
    PROVE  event' \in [Requests -> [Policies ->
                    {"none", "reserved", "settled", "refunded", "compensated", "failed"}]]
<1> DEFINE row == [p \in Policies |-> IF event[r][p] = "reserved" THEN to ELSE event[r][p]]
<1>1. event[r] \in [Policies -> {"none", "reserved", "settled", "refunded", "compensated", "failed"}]
  BY DEF TypeOK
<1>2. row \in [Policies -> {"none", "reserved", "settled", "refunded", "compensated", "failed"}]
  BY <1>1
<1>3. event' = [event EXCEPT ![r] = row]
  BY DEF CloseEvents
<1> HIDE DEF row
<1>4. QED
  BY <1>2, <1>3 DEF TypeOK

(* The policy whose turn it is. *)
LEMMA CurrentType ==
    ASSUME TypeOK, EventInv, NEW r \in Requests, pc[r] \in {"seed", "reserve"}
    PROVE  /\ Current(r) \in Policies /\ Current(r) = Order[at[r]]
           /\ at[r] \in 1 .. Len(Order) /\ at[r] + 1 \in 1 .. Len(Order) + 1
BY OrderFacts DEF EventInv, Current

(* A fault is counted. *)
LEMMA FaultType == TypeOK /\ Fault => faults' \in 0 .. MaxFaults /\ faults' # 0
BY RedisAssumption DEF TypeOK, Fault

(* Every step keeps the types. *)
LEMMA TypeStep == TypeOK /\ EventInv /\ [Next]_vars => TypeOK'
<1> SUFFICES ASSUME TypeOK, EventInv, [Next]_vars PROVE TypeOK'
  OBVIOUS
<1> USE DEF TypeOK, request
<1>1. ASSUME NEW r \in Requests, ReadSeed(r) PROVE TypeOK'
  BY <1>1, CurrentType DEF ReadSeed
<1>2. ASSUME NEW r \in Requests, RedisReserve(r) PROVE TypeOK'
  <2>1. PICK p \in Policies, h \in Hashes, x \in Hashes :
            /\ p = Current(r) /\ h = Seeded(redis[p], seed[r])
            /\ x = [h EXCEPT !.reserved = @ + Estimate[r]]
            /\ at[r] + 1 \in 1 .. Len(Order) + 1
    <3>1. pc[r] = "reserve"
      BY <1>2 DEF RedisReserve
    <3>2. /\ Current(r) \in Policies /\ seed[r] \in Rows
          /\ at[r] + 1 \in 1 .. Len(Order) + 1 /\ Estimate[r] \in Nat
      BY <3>1, CurrentType, EstimateType
    <3>3. redis[Current(r)] \in Hashes
      BY <3>2
    <3>4. Seeded(redis[Current(r)], seed[r]) \in Hashes
      BY <3>2, <3>3, SeededType
    <3>5. [Seeded(redis[Current(r)], seed[r]) EXCEPT !.reserved = @ + Estimate[r]] \in Hashes
      BY <3>2, <3>4, ReserveType
    <3>6. QED
      BY <3>2, <3>4, <3>5
  <2>2. \/ redis' = [redis EXCEPT ![p] = x] /\ held' = [held EXCEPT ![r] = @ \cup {p}]
                                           /\ at' = [at EXCEPT ![r] = @ + 1]
        \/ redis' = [redis EXCEPT ![p] = h] /\ UNCHANGED <<held, at>>
    BY <1>2, <2>1 DEF RedisReserve
  <2>3. redis' \in [Policies -> Hashes]
    BY <2>2
  <2>4. held' \in [Requests -> SUBSET Policies]
    <3>1. held[r] \cup {p} \in SUBSET Policies
      OBVIOUS
    <3>2. CASE held' = [held EXCEPT ![r] = @ \cup {p}]
      BY <3>1, <3>2
    <3>3. QED
      BY <2>2, <3>2
  <2>5. at' \in [Requests -> 1 .. Len(Order) + 1]
    BY <2>1, <2>2, ZenonT(30)
  <2>6. QED
    BY <1>2, <2>3, <2>4, <2>5 DEF RedisReserve
<1>3. ASSUME NEW r \in Requests, RedisReserveFails(r) PROVE TypeOK'
  <2>1. PICK p \in Policies, h \in Hashes, x \in Hashes :
            /\ p = Current(r) /\ h = Seeded(redis[p], seed[r])
            /\ x = [h EXCEPT !.reserved = @ + Estimate[r]]
    <3>1. pc[r] = "reserve"
      BY <1>3 DEF RedisReserveFails
    <3>2. /\ Current(r) \in Policies /\ seed[r] \in Rows
          /\ at[r] + 1 \in 1 .. Len(Order) + 1 /\ Estimate[r] \in Nat
      BY <3>1, CurrentType, EstimateType
    <3>3. redis[Current(r)] \in Hashes
      BY <3>2
    <3>4. Seeded(redis[Current(r)], seed[r]) \in Hashes
      BY <3>2, <3>3, SeededType
    <3>5. [Seeded(redis[Current(r)], seed[r]) EXCEPT !.reserved = @ + Estimate[r]] \in Hashes
      BY <3>2, <3>4, ReserveType
    <3>6. QED
      BY <3>2, <3>4, <3>5
  <2>2. UNCHANGED redis \/ redis' = [redis EXCEPT ![p] = x] \/ redis' = [redis EXCEPT ![p] = h]
    BY <1>3, <2>1 DEF RedisReserveFails
  <2>3. redis' \in [Policies -> Hashes]
    BY <2>2
  <2>4. QED
    BY <1>3, <2>3, FaultType DEF RedisReserveFails
<1>4. ASSUME NEW r \in Requests, UndoRedis(r) PROVE TypeOK'
  <2>1. PICK p \in held[r] :
            /\ held' = [held EXCEPT ![r] = @ \ {p}]
            /\ \/ redis' = [redis EXCEPT ![p] = RefundScript(@, Estimate[r])] /\ UNCHANGED faults
               \/ Fault /\ UNCHANGED redis
            /\ UNCHANGED <<pc, at, seed, viaRedis, actual, event, db, pending, master, scan>>
    BY <1>4 DEF UndoRedis
  <2>2. RefundScript(redis[p], Estimate[r]) \in Hashes
    BY RefundType, EstimateType
  <2>3. redis' \in [Policies -> Hashes]
    BY <2>1, <2>2
  <2>4. held' \in [Requests -> SUBSET Policies]
    BY <2>1
  <2>5. QED
    BY <2>1, <2>3, <2>4, FaultType
<1>5. ASSUME NEW r \in Requests, UndoDone(r) PROVE TypeOK'
  BY <1>5, FaultType DEF UndoDone
<1>6. ASSUME NEW r \in Requests, MirrorReservation(r) PROVE TypeOK'
  <2>1. db' \in [Policies -> Rows]
    BY <1>6, AddRows DEF MirrorReservation
  <2>2. QED
    BY <1>6, <2>1 DEF MirrorReservation, AddToRows
<1>7. ASSUME NEW r \in Requests, DatabaseFails(r) PROVE TypeOK'
  BY <1>7, FaultType DEF DatabaseFails
<1>8. ASSUME NEW r \in Requests, FallbackReserve(r) PROVE TypeOK'
  <2>1. CASE AddToRows(r)
    <3>1. db' \in [Policies -> Rows]
      BY <2>1, AddRows
    <3>2. QED
      BY <1>8, <2>1, <3>1 DEF FallbackReserve, AddToRows
  <2>2. CASE UNCHANGED <<db, event>>
    BY <1>8, <2>2 DEF FallbackReserve
  <2>3. QED
    BY <1>8, <2>1, <2>2 DEF FallbackReserve
<1>9. ASSUME NEW r \in Requests, FallbackFails(r) PROVE TypeOK'
  BY <1>9, FaultType DEF FallbackFails
<1>10. ASSUME NEW r \in Requests, SettleRows(r) PROVE TypeOK'
  <2>1. PICK n \in Nat :
            /\ ReleaseRows(r, n)
            /\ CloseEvents(r, "settled")
            /\ actual' = [actual EXCEPT ![r] = n]
            /\ ThenRedis(r, "settling")
            /\ UNCHANGED <<at, seed, viaRedis, redis, pending, master, scan, faults>>
    BY <1>10, RedisAssumption, EstimateType DEF SettleRows
  <2>2. db' \in [Policies -> Rows]
    BY <2>1, ReleasedRows
  <2>3. event' \in [Requests -> [Policies ->
                    {"none", "reserved", "settled", "refunded", "compensated", "failed"}]]
    BY <2>1, ClosedType
  <2>4. QED
    BY <2>1, <2>2, <2>3 DEF ThenRedis
<1>11. ASSUME NEW r \in Requests, RefundRows(r) PROVE TypeOK'
  <2>1. db' \in [Policies -> Rows]
    BY <1>11, ReleasedRows DEF RefundRows
  <2>2. event' \in [Requests -> [Policies ->
                    {"none", "reserved", "settled", "refunded", "compensated", "failed"}]]
    BY <1>11, ClosedType DEF RefundRows
  <2>3. QED
    BY <1>11, <2>1, <2>2 DEF RefundRows, ThenRedis
<1>12. ASSUME NEW r \in Requests, FinishRedis(r) PROVE TypeOK'
  <2>1. PICK p \in held[r] :
            /\ held' = [held EXCEPT ![r] = @ \ {p}]
            /\ pc' = [pc EXCEPT ![r] = IF held[r] = {p} THEN "done" ELSE @]
            /\ \/ /\ redis' = [redis EXCEPT ![p] =
                          IF pc[r] = "settling" THEN SettleScript(@, Estimate[r], actual[r])
                                                ELSE RefundScript(@, Estimate[r])]
                  /\ UNCHANGED faults
               \/ Fault /\ UNCHANGED redis
            /\ UNCHANGED <<at, seed, viaRedis, actual, event, db, pending, master, scan>>
    BY <1>12 DEF FinishRedis
  <2>2. /\ RefundScript(redis[p], Estimate[r]) \in Hashes
        /\ SettleScript(redis[p], Estimate[r], actual[r]) \in Hashes
    BY RefundType, SettleType, EstimateType
  <2>3. redis' \in [Policies -> Hashes]
    BY <2>1, <2>2
  <2>4. held' \in [Requests -> SUBSET Policies]
    BY <2>1
  <2>5. QED
    BY <2>1, <2>3, <2>4, FaultType
<1>13. ASSUME NEW r \in Requests, Abandon(r) PROVE TypeOK'
  BY <1>13, FaultType DEF Abandon
<1>14. ASSUME NEW p \in Policies, RedisLosesKey(p) PROVE TypeOK'
  <2>1. NoHash \in Hashes
    BY DEF NoHash, Hashes
  <2>2. QED
    BY <1>14, <2>1, FaultType DEF RedisLosesKey
<1>15. ASSUME NEW r \in Requests, NEW p \in Policies, CompensateRow(r, p) PROVE TypeOK'
  <2>1. [db[p] EXCEPT !.reserved = Clamp(@ - Estimate[r])] \in Rows
    <3>1. db[p] \in Rows
      OBVIOUS
    <3>2. db[p].reserved - Estimate[r] \in Int
      BY <3>1, EstimateType, RowFields
    <3>3. Clamp(db[p].reserved - Estimate[r]) \in Nat
      BY <3>2, ClampType
    <3>4. QED
      BY <3>1, <3>3 DEF Rows
  <2>2. db' \in [Policies -> Rows]
    BY <1>15, <2>1 DEF CompensateRow
  <2>3. event' \in [Requests -> [Policies ->
                    {"none", "reserved", "settled", "refunded", "compensated", "failed"}]]
    BY <1>15 DEF CompensateRow
  <2>4. pending' \subseteq Requests \X Policies
    BY <1>15 DEF CompensateRow
  <2>5. QED
    BY <1>15, <2>2, <2>3, <2>4 DEF CompensateRow
<1>16. ASSUME NEW r \in Requests, NEW p \in Policies, CompensateRowFails(r, p) PROVE TypeOK'
  <2>1. event' \in [Requests -> [Policies ->
                    {"none", "reserved", "settled", "refunded", "compensated", "failed"}]]
    BY <1>16 DEF CompensateRowFails
  <2>2. QED
    BY <1>16, <2>1, FaultType DEF CompensateRowFails
<1>17. ASSUME NEW r \in Requests, NEW p \in Policies, CompensateRedis(r, p) PROVE TypeOK'
  <2>1. RefundScript(redis[p], Estimate[r]) \in Hashes
    BY RefundType, EstimateType
  <2>2. redis' \in [Policies -> Hashes]
    BY <1>17, <2>1 DEF CompensateRedis
  <2>3. pending' \subseteq Requests \X Policies
    BY <1>17 DEF CompensateRedis
  <2>4. QED
    BY <1>17, <2>2, <2>3, FaultType DEF CompensateRedis
<1>18. CASE ReconcileReadRows
  BY <1>18 DEF ReconcileReadRows
<1>19. CASE ReconcileScanKeys
  BY <1>19 DEF ReconcileScanKeys
<1>20. CASE ReconcileRepair
  <2>1. scan.item \in Policies /\ scan.rows[scan.item] \in Rows
    OBVIOUS
  <2>2. Hash(TRUE, scan.rows[scan.item].used, scan.rows[scan.item].reserved) \in Hashes
    BY <2>1, RowFields, HashBuilt
  <2>3. redis' \in [Policies -> Hashes]
    BY <1>20, <2>1, <2>2 DEF ReconcileRepair
  <2>4. QED
    BY <1>20, <2>3 DEF ReconcileRepair
<1>21. CASE ReconcileCreateRow
  <2>1. scan.item \in Policies /\ scan.snap \in Rows
    OBVIOUS
  <2>2. db' \in [Policies -> Rows]
    BY <1>21, <2>1 DEF ReconcileCreateRow
  <2>3. QED
    BY <1>21, <2>2 DEF ReconcileCreateRow
<1>22. CASE ReconcileDone
  <2>1. Order[1] \in Policies
    BY OrderFacts
  <2>2. ScanIdle \in [state : {"idle", "rows", "repair", "keys", "create"}, rows : [Policies -> Rows],
                      todo : SUBSET Policies, item : Policies, snap : Rows]
    BY <2>1 DEF ScanIdle, NoRow, Rows
  <2>3. QED
    BY <1>22, <2>2 DEF ReconcileDone
<1>23. ASSUME NEW p \in Policies, ReconcileCompare(p) PROVE TypeOK'
  BY <1>23 DEF ReconcileCompare
<1>24. ASSUME NEW p \in Policies, ReconcileOrphan(p) PROVE TypeOK'
  <2>1. Row(redis[p].used, redis[p].reserved) \in Rows
    BY HashFields, RowBuilt
  <2>2. scan' \in [state : {"idle", "rows", "repair", "keys", "create"}, rows : [Policies -> Rows],
                   todo : SUBSET Policies, item : Policies, snap : Rows]
    <3>1. CASE scan' = [scan EXCEPT !.todo = @ \ {p}]
      BY <3>1
    <3>2. CASE scan' = [scan EXCEPT !.state = "create", !.todo = @ \ {p}, !.item = p,
                                    !.snap = Row(redis[p].used, redis[p].reserved)]
      BY <2>1, <3>2
    <3>3. QED
      BY <1>24, <3>1, <3>2 DEF ReconcileOrphan
  <2>3. QED
    BY <1>24, <2>2 DEF ReconcileOrphan
<1>25. CASE UNCHANGED vars
  BY <1>25 DEF vars
<1>26. QED
  BY <1>1, <1>2, <1>3, <1>4, <1>5, <1>6, <1>7, <1>8, <1>9, <1>10, <1>11, <1>12, <1>13, <1>14, <1>15, <1>16, <1>17, <1>18, <1>19, <1>20, <1>21, <1>22, <1>23, <1>24, <1>25
  DEF Next, RequestStep, Compensation, Reconciliation

-----------------------------------------------------------------------------
(* The rows *)

OpenSet(p)    == {r \in Requests : event[r][p] \in {"reserved", "failed"}}
SettledSet(p) == {r \in Requests : event[r][p] = "settled"}

Booked(p) ==
    /\ db[p].reserved = Estimated(OpenSet(p))
    /\ db[p].used = Charged(SettledSet(p))

(* Every step keeps what the events say of a request. *)
LEMMA EventStep == TypeOK /\ EventInv /\ [Next]_vars => EventInv'
<1> SUFFICES ASSUME TypeOK, EventInv, [Next]_vars, NEW s \in Requests
             PROVE  /\ pc'[s] \in Before => \A p \in Policies : event'[s][p] = "none"
                    /\ pc'[s] = "running" => \A p \in Policies : event'[s][p] = "reserved"
                    /\ pc'[s] \in {"seed", "reserve"} => at'[s] \in 1 .. Len(Order)
  BY DEF EventInv
<1> DEFINE Goal == /\ pc'[s] \in Before => \A p \in Policies : event'[s][p] = "none"
                   /\ pc'[s] = "running" => \A p \in Policies : event'[s][p] = "reserved"
                   /\ pc'[s] \in {"seed", "reserve"} => at'[s] \in 1 .. Len(Order)
<1>a. /\ pc[s] \in Before => \A p \in Policies : event[s][p] = "none"
      /\ pc[s] = "running" => \A p \in Policies : event[s][p] = "reserved"
      /\ pc[s] \in {"seed", "reserve"} => at[s] \in 1 .. Len(Order)
  BY DEF EventInv
<1>b. /\ pc \in [Requests -> {"seed", "reserve", "undo_deny", "undo_fallback", "mirror", "fallback",
                            "running", "settling", "refunding", "denied", "done", "dead"}]
      /\ at \in [Requests -> 1 .. Len(Order) + 1]
      /\ event \in [Requests -> [Policies ->
                    {"none", "reserved", "settled", "refunded", "compensated", "failed"}]]
      /\ Len(Order) \in Nat
  BY OrderFacts DEF TypeOK
<1>c. ASSUME UNCHANGED <<pc, at, event>> PROVE Goal
  BY <1>a, <1>c
<1>1. ASSUME NEW r \in Requests, ReadSeed(r) PROVE Goal
  BY <1>1, <1>a, <1>b DEF ReadSeed, Before
<1>2. ASSUME NEW r \in Requests, RedisReserve(r) PROVE Goal
  BY <1>2, <1>a, <1>b DEF RedisReserve, Before
<1>3. ASSUME NEW r \in Requests, RedisReserveFails(r) PROVE Goal
  BY <1>3, <1>a, <1>b DEF RedisReserveFails, Before
<1>4. ASSUME NEW r \in Requests, UndoRedis(r) PROVE Goal
  BY <1>4, <1>a, <1>b DEF UndoRedis, Before
<1>5. ASSUME NEW r \in Requests, UndoDone(r) PROVE Goal
  BY <1>5, <1>a, <1>b DEF UndoDone, Before
<1>6. ASSUME NEW r \in Requests, MirrorReservation(r) PROVE Goal
  BY <1>6, <1>a, <1>b DEF MirrorReservation, AddToRows, Before
<1>7. ASSUME NEW r \in Requests, DatabaseFails(r) PROVE Goal
  BY <1>7, <1>a, <1>b DEF DatabaseFails, Before
<1>8. ASSUME NEW r \in Requests, FallbackReserve(r) PROVE Goal
  BY <1>8, <1>a, <1>b DEF FallbackReserve, AddToRows, Before
<1>9. ASSUME NEW r \in Requests, FallbackFails(r) PROVE Goal
  BY <1>9, <1>a, <1>b DEF FallbackFails, Before
<1>10. ASSUME NEW r \in Requests, SettleRows(r) PROVE Goal
  BY <1>10, <1>a, <1>b DEF SettleRows, CloseEvents, ThenRedis, Before
<1>11. ASSUME NEW r \in Requests, RefundRows(r) PROVE Goal
  BY <1>11, <1>a, <1>b DEF RefundRows, CloseEvents, ThenRedis, Before
<1>12. ASSUME NEW r \in Requests, FinishRedis(r) PROVE Goal
  BY <1>12, <1>a, <1>b DEF FinishRedis, Before
<1>13. ASSUME NEW r \in Requests, Abandon(r) PROVE Goal
  BY <1>13, <1>a, <1>b DEF Abandon, Before
<1>14. ASSUME NEW r \in Requests, NEW p \in Policies, CompensateRow(r, p) \/ CompensateRowFails(r, p)
      PROVE  Goal
  BY <1>14, <1>a, <1>b DEF CompensateRow, CompensateRowFails, Before, request
<1>15. ASSUME NEW r \in Requests, NEW p \in Policies, CompensateRedis(r, p) \/ RedisLosesKey(p)
      PROVE  Goal
  BY <1>15, <1>c DEF CompensateRedis, RedisLosesKey, request
<1>16. CASE Reconciliation \/ UNCHANGED vars
  BY <1>16, <1>c DEF Reconciliation, ReconcileReadRows, ReconcileScanKeys, ReconcileRepair,
                   ReconcileCreateRow, ReconcileDone, ReconcileCompare, ReconcileOrphan, request, vars
<1>17. CASE \E p \in Policies : RedisLosesKey(p)
  BY <1>17, <1>c DEF RedisLosesKey, request
<1>18. QED
  BY <1>1, <1>2, <1>3, <1>4, <1>5, <1>6, <1>7, <1>8, <1>9, <1>10, <1>11, <1>12, <1>13, <1>14, <1>15, <1>16, <1>17
  DEF Next, RequestStep, Compensation

(* The sums follow the events of one request. *)
LEMMA BookedMove ==
    ASSUME TypeOK, TypeOK', NEW r \in Requests, NEW p \in Policies,
           \A s \in Requests \ {r} : event'[s][p] = event[s][p] /\ actual'[s] = actual[s]
    PROVE  /\ Estimated(OpenSet(p))' = Estimated(OpenSet(p))
                 - (IF event[r][p] \in {"reserved", "failed"} THEN Estimate[r] ELSE 0)
                 + (IF event'[r][p] \in {"reserved", "failed"} THEN Estimate[r] ELSE 0)
           /\ Charged(SettledSet(p))' = Charged(SettledSet(p))
                 - (IF event[r][p] = "settled" THEN actual[r] ELSE 0)
                 + (IF event'[r][p] = "settled" THEN actual'[r] ELSE 0)
           /\ Estimated(OpenSet(p)) \in Nat /\ Charged(SettledSet(p)) \in Nat
           /\ event[r][p] \in {"reserved", "failed"} => Estimated(OpenSet(p)) - Estimate[r] \in Nat
<1> DEFINE O == OpenSet(p)
           T == SettledSet(p)
<1>1. /\ O \in SUBSET Requests /\ O' \in SUBSET Requests
      /\ T \in SUBSET Requests /\ T' \in SUBSET Requests
  BY DEF OpenSet, SettledSet
<1>2. /\ \A s \in Requests \ {r} : (s \in O <=> s \in O') /\ (s \in T <=> s \in T')
      /\ \A s \in Requests \ {r} : actual[s] = actual'[s]
      /\ r \in O <=> event[r][p] \in {"reserved", "failed"}
      /\ r \in O' <=> event'[r][p] \in {"reserved", "failed"}
      /\ r \in T <=> event[r][p] = "settled"
      /\ r \in T' <=> event'[r][p] = "settled"
  BY DEF OpenSet, SettledSet
<1>3. /\ \A s \in Requests : Estimate[s] \in Nat /\ actual[s] \in Nat
      /\ actual'[r] \in Nat /\ IsFiniteSet(Requests)
  BY RedisAssumption DEF TypeOK
<1> HIDE DEF O, T
<1>4. /\ Total(O', Estimate) = Total(O, Estimate) - (IF r \in O THEN Estimate[r] ELSE 0)
                                                + (IF r \in O' THEN Estimate[r] ELSE 0)
      /\ Total(O, Estimate) \in Nat
      /\ r \in O => Total(O, Estimate) - Estimate[r] \in Nat
  BY <1>1, <1>2, <1>3, TotalJoin
<1>5. /\ Total(T', actual') = Total(T, actual) - (IF r \in T THEN actual[r] ELSE 0)
                                             + (IF r \in T' THEN actual'[r] ELSE 0)
      /\ Total(T, actual) \in Nat
  BY <1>1, <1>2, <1>3, TotalMove
<1>6. QED
  BY <1>2, <1>4, <1>5 DEF O, T, Estimated, Charged

(* A step that leaves the rows, the events and the charges alone. *)
LEMMA BookedKept ==
    ASSUME NEW p, Booked(p), UNCHANGED <<event, actual, db>>
    PROVE  Booked(p)'
BY DEF Booked, OpenSet, SettledSet, Estimated, Charged

(* A reservation is entered. *)
LEMMA BookedAdd ==
    ASSUME TypeOK, TypeOK', EventInv, NEW r \in Requests, NEW p \in Policies, Booked(p),
           pc[r] \in Before, AddToRows(r), UNCHANGED actual
    PROVE  Booked(p)'
<1>1. event[r][p] = "none" /\ event'[r][p] = "reserved"
  BY DEF EventInv, AddToRows, TypeOK
<1>2. \A s \in Requests \ {r} : event'[s][p] = event[s][p] /\ actual'[s] = actual[s]
  BY DEF AddToRows, TypeOK
<1>3. db'[p].used = db[p].used /\ db'[p].reserved = db[p].reserved + Estimate[r]
  BY AddRows
<1>4. /\ Estimated(OpenSet(p))' = Estimated(OpenSet(p)) + Estimate[r]
      /\ Charged(SettledSet(p))' = Charged(SettledSet(p))
  BY <1>1, <1>2, BookedMove, EstimateType
<1>5. QED
  BY <1>3, <1>4 DEF Booked

(* A reservation is released, and its usage charged. *)
LEMMA BookedRelease ==
    ASSUME TypeOK, TypeOK', EventInv, NEW r \in Requests, NEW p \in Policies, Booked(p),
           pc[r] = "running", NEW n \in Nat, ReleaseRows(r, n),
           \/ CloseEvents(r, "settled") /\ actual' = [actual EXCEPT ![r] = n]
           \/ CloseEvents(r, "refunded") /\ actual' = actual /\ n = 0
    PROVE  Booked(p)' /\ db[p].reserved - Estimate[r] \in Nat
<1>1. event[r][p] = "reserved"
  BY DEF EventInv
<1>2. \/ event'[r][p] = "settled" /\ actual'[r] = n
      \/ event'[r][p] = "refunded" /\ n = 0
  <2>1. ASSUME NEW to, CloseEvents(r, to) PROVE event'[r][p] = to
    BY <1>1, <2>1 DEF CloseEvents, TypeOK
  <2>2. CASE CloseEvents(r, "settled") /\ actual' = [actual EXCEPT ![r] = n]
    BY <2>1, <2>2 DEF TypeOK
  <2>3. CASE CloseEvents(r, "refunded") /\ actual' = actual /\ n = 0
    BY <2>1, <2>3
  <2>4. QED
    BY <2>2, <2>3
<1>3. \A s \in Requests \ {r} : event'[s][p] = event[s][p] /\ actual'[s] = actual[s]
  BY DEF CloseEvents, TypeOK
<1>4. db'[p].used = db[p].used + n /\ db'[p].reserved = Clamp(db[p].reserved - Estimate[r])
  BY ReleasedRows
<1>5. /\ Estimated(OpenSet(p)) - Estimate[r] \in Nat
      /\ Estimated(OpenSet(p))' = Estimated(OpenSet(p)) - Estimate[r]
      /\ Charged(SettledSet(p))' = Charged(SettledSet(p)) + n
  BY <1>1, <1>2, <1>3, BookedMove, EstimateType
<1>6. Clamp(db[p].reserved - Estimate[r]) = db[p].reserved - Estimate[r]
  BY <1>5, ClampType DEF Booked
<1>7. QED
  BY <1>4, <1>5, <1>6 DEF Booked

(* Every step keeps the rows exact, unless a row is made up by the reconciler. *)
LEMMA BookedStep ==
    ASSUME TypeOK, TypeOK', EventInv, [Next]_vars, RowsExist \/ ~master, RowsKept,
           NEW p \in Policies
    PROVE  Booked(p)'
<1>0. Booked(p)
  BY DEF RowsKept, RowsExact, Booked, OpenSet, SettledSet
<1>2. ASSUME NEW r \in Requests, MirrorReservation(r) PROVE Booked(p)'
  BY <1>0, <1>2, BookedAdd DEF MirrorReservation, Before
<1>3. ASSUME NEW r \in Requests, FallbackReserve(r) PROVE Booked(p)'
  <2>1. CASE AddToRows(r)
    BY <1>0, <1>3, <2>1, BookedAdd DEF FallbackReserve, Before
  <2>2. CASE UNCHANGED <<db, event>>
    BY <1>0, <1>3, <2>2, BookedKept DEF FallbackReserve
  <2>3. QED
    BY <1>3, <2>1, <2>2 DEF FallbackReserve
<1>4. ASSUME NEW r \in Requests, SettleRows(r) PROVE Booked(p)'
  <2>1. PICK n \in Nat :
            /\ ReleaseRows(r, n) /\ CloseEvents(r, "settled")
            /\ actual' = [actual EXCEPT ![r] = n]
    BY <1>4, RedisAssumption, EstimateType DEF SettleRows
  <2>2. pc[r] = "running"
    BY <1>4 DEF SettleRows
  <2>3. QED
    BY <1>0, <2>1, <2>2, BookedRelease
<1>5. ASSUME NEW r \in Requests, RefundRows(r) PROVE Booked(p)'
  BY <1>0, <1>5, BookedRelease DEF RefundRows
<1>6. ASSUME NEW r \in Requests, NEW q \in Policies, CompensateRow(r, q) PROVE Booked(p)'
  <2>1. \A s \in Requests \ {r} : event'[s][p] = event[s][p] /\ actual'[s] = actual[s]
    BY <1>6 DEF CompensateRow, request, TypeOK
  <2>2. CASE q = p
    <3>1. event[r][p] = "reserved" /\ event'[r][p] = "compensated"
      BY <1>6, <2>2 DEF CompensateRow, TypeOK
    <3>2. /\ Estimated(OpenSet(p)) - Estimate[r] \in Nat
          /\ Estimated(OpenSet(p))' = Estimated(OpenSet(p)) - Estimate[r]
          /\ Charged(SettledSet(p))' = Charged(SettledSet(p))
      BY <2>1, <3>1, BookedMove, EstimateType
    <3>3. db'[p].used = db[p].used /\ db'[p].reserved = Clamp(db[p].reserved - Estimate[r])
      BY <1>6, <2>2 DEF CompensateRow, TypeOK, Rows
    <3>4. Clamp(db[p].reserved - Estimate[r]) = db[p].reserved - Estimate[r]
      BY <1>0, <3>2, ClampType DEF Booked
    <3>5. QED
      BY <1>0, <3>2, <3>3, <3>4 DEF Booked
  <2>3. CASE q # p
    <3>1. event'[r][p] = event[r][p] /\ actual'[r] = actual[r] /\ db'[p] = db[p]
      BY <1>6, <2>3 DEF CompensateRow, request, TypeOK
    <3>2. actual[r] \in Nat
      BY DEF TypeOK
    <3>3. /\ Estimated(OpenSet(p))' = Estimated(OpenSet(p))
          /\ Charged(SettledSet(p))' = Charged(SettledSet(p))
      BY <2>1, <3>1, <3>2, BookedMove, EstimateType
    <3>4. QED
      BY <1>0, <3>1, <3>3 DEF Booked
  <2>4. QED
    BY <2>2, <2>3
<1>7. ASSUME NEW r \in Requests, NEW q \in Policies, CompensateRowFails(r, q) PROVE Booked(p)'
  <2>1. \A s \in Requests \ {r} : event'[s][p] = event[s][p] /\ actual'[s] = actual[s]
    BY <1>7 DEF CompensateRowFails, request, TypeOK
  <2>2. /\ event'[r][p] = event[r][p] \/ (event[r][p] = "reserved" /\ event'[r][p] = "failed")
        /\ actual'[r] = actual[r] /\ db' = db
    BY <1>7 DEF CompensateRowFails, request, TypeOK
  <2>3. actual[r] \in Nat
    BY DEF TypeOK
  <2>4. /\ Estimated(OpenSet(p))' = Estimated(OpenSet(p))
        /\ Charged(SettledSet(p))' = Charged(SettledSet(p))
    BY <2>1, <2>2, <2>3, BookedMove, EstimateType
  <2>5. QED
    BY <1>0, <2>2, <2>4 DEF Booked
<1>8. CASE ReconcileCreateRow
  <2>1. master
    BY <1>8 DEF ReconcileCreateRow, RowsKept
  <2>2. scan.item \in Policies /\ db[scan.item].found
    BY <2>1 DEF RowsKept, TypeOK
  <2>3. db' = db
    BY <1>8, <2>2 DEF ReconcileCreateRow, TypeOK
  <2>4. QED
    BY <1>0, <1>8, <2>3, BookedKept DEF ReconcileCreateRow, request
<1>9. CASE UNCHANGED <<event, actual, db>>
  BY <1>0, <1>9, BookedKept
<1>10. ASSUME NEW r \in Requests, RequestStep(r) PROVE Booked(p)'
  BY <1>2, <1>3, <1>4, <1>5, <1>9, <1>10
  DEF RequestStep, ReadSeed, RedisReserve, RedisReserveFails, UndoRedis, UndoDone, DatabaseFails,
      FallbackFails, FinishRedis, Abandon
<1>11. CASE Compensation
  BY <1>6, <1>7, <1>9, <1>11 DEF Compensation, CompensateRedis, request
<1>12. CASE Reconciliation
  BY <1>8, <1>9, <1>12 DEF Reconciliation, ReconcileReadRows, ReconcileScanKeys, ReconcileRepair,
                          ReconcileDone, ReconcileCompare, ReconcileOrphan, request
<1>13. CASE \E q \in Policies : RedisLosesKey(q)
  BY <1>9, <1>13 DEF RedisLosesKey, request
<1>14. CASE UNCHANGED vars
  BY <1>9, <1>14 DEF vars, request
<1>15. QED
  BY <1>10, <1>11, <1>12, <1>13, <1>14 DEF Next

(* The master node and the rows that exist stay, and the reconciler only   *)
(* works on a master node.                                                 *)
LEMMA KeptStep ==
    ASSUME TypeOK, TypeOK', EventInv, RowsKept, [Next]_vars
    PROVE  /\ master' = master
           /\ ~master' => scan'.state = "idle"
           /\ RowsExist => \A p \in Policies : db'[p].found
<1> DEFINE Found == \A p \in Policies : db[p].found => db'[p].found
           Idle  == ~master => scan'.state = "idle"
<1>0. ~master => scan.state = "idle"
  BY DEF RowsKept
<1>1. ASSUME NEW r \in Requests, RequestStep(r) PROVE Found /\ Idle /\ master' = master
  <2>1. master' = master /\ scan' = scan
    BY <1>1 DEF RequestStep, ReadSeed, RedisReserve, RedisReserveFails, UndoRedis, UndoDone,
               MirrorReservation, DatabaseFails, FallbackReserve, FallbackFails, SettleRows,
               RefundRows, FinishRedis, Abandon
  <2>2. db' = db \/ AddToRows(r) \/ \E n \in Nat : ReleaseRows(r, n)
    <3>1. CASE SettleRows(r)
      BY <3>1, RedisAssumption, EstimateType DEF SettleRows
    <3>2. CASE RefundRows(r)
      BY <3>2 DEF RefundRows
    <3>3. QED
      BY <1>1, <3>1, <3>2
      DEF RequestStep, ReadSeed, RedisReserve, RedisReserveFails, UndoRedis, UndoDone,
          MirrorReservation, DatabaseFails, FallbackReserve, FallbackFails, FinishRedis, Abandon
  <2>3. Found
    BY <2>2, AddRows, ReleasedRows
  <2>4. QED
    BY <1>0, <2>1, <2>3
<1>2. ASSUME NEW r \in Requests, NEW q \in Policies,
             CompensateRow(r, q) \/ CompensateRowFails(r, q) \/ CompensateRedis(r, q)
      PROVE  Found /\ Idle /\ master' = master
  <2>1. master' = master /\ scan' = scan
    BY <1>2 DEF CompensateRow, CompensateRowFails, CompensateRedis
  <2>2. db' = db \/ db' = [db EXCEPT ![q] = [db[q] EXCEPT !.reserved = Clamp(db[q].reserved - Estimate[r])]]
    BY <1>2 DEF CompensateRow, CompensateRowFails, CompensateRedis
  <2>3. Found
    <3>1. ASSUME NEW n PROVE [db[q] EXCEPT !.reserved = n].found = db[q].found
      BY DEF TypeOK, Rows
    <3>2. db \in [Policies -> Rows]
      BY DEF TypeOK
    <3>3. ASSUME NEW p \in Policies PROVE db[p].found => db'[p].found
      BY <2>2, <3>1, <3>2, ZenonT(60)
    <3>4. QED
      BY <3>3
  <2>4. QED
    BY <1>0, <2>1, <2>3
<1>3. ASSUME Reconciliation PROVE Found /\ Idle /\ master' = master
  <2>1. master' = master
    BY <1>3 DEF Reconciliation, ReconcileReadRows, ReconcileScanKeys, ReconcileRepair,
               ReconcileCreateRow, ReconcileDone, ReconcileCompare, ReconcileOrphan
  <2>2. master
    BY <1>0, <1>3 DEF Reconciliation, ReconcileReadRows, ReconcileScanKeys, ReconcileRepair,
               ReconcileCreateRow, ReconcileDone, ReconcileCompare, ReconcileOrphan
  <2>3. Found
    BY <1>3, ZenonT(30) DEF Reconciliation, ReconcileReadRows, ReconcileScanKeys, ReconcileRepair,
               ReconcileCreateRow, ReconcileDone, ReconcileCompare, ReconcileOrphan, TypeOK, Rows
  <2>4. QED
    BY <2>1, <2>2, <2>3
<1>4. ASSUME UNCHANGED vars \/ \E q \in Policies : RedisLosesKey(q)
      PROVE  Found /\ Idle /\ master' = master
  BY <1>0, <1>4 DEF RedisLosesKey, vars
<1>5. Found /\ Idle /\ master' = master
  BY <1>1, <1>2, <1>3, <1>4 DEF Next, Compensation
<1>6. QED
  BY <1>5 DEF RowsKept

(* The inductive invariant holds at the start. *)
LEMMA InitIInv == Init => IInv
<1> SUFFICES ASSUME Init PROVE IInv
  OBVIOUS
<1>1. TypeOK
  <2>1. Order[1] \in Policies /\ Len(Order) \in Nat /\ 1 \in 1 .. Len(Order) + 1
    BY OrderFacts
  <2>2. NoRow \in Rows /\ Row(0, 0) \in Rows /\ NoHash \in Hashes
    BY DEF NoRow, Row, Rows, NoHash, Hashes
  <2>3. ScanIdle \in [state : {"idle", "rows", "repair", "keys", "create"}, rows : [Policies -> Rows],
                      todo : SUBSET Policies, item : Policies, snap : Rows]
    BY <2>1, <2>2 DEF ScanIdle
  <2>4. master \in BOOLEAN /\ faults \in 0 .. MaxFaults
    BY RedisAssumption DEF Init
  <2>5. db \in [Policies -> Rows]
    BY <2>2 DEF Init
  <2>6. QED
    BY <2>1, <2>2, <2>3, <2>4, <2>5 DEF Init, TypeOK
<1>2. EventInv
  BY OrderFacts DEF Init, EventInv
<1>3. /\ RowsExist => \A p \in Policies : db[p].found
      /\ scan.state = "idle"
  BY DEF Init, Row, ScanIdle
<1>4. ASSUME NEW p \in Policies PROVE Booked(p)
  <2>1. OpenSet(p) = {} /\ SettledSet(p) = {}
    BY DEF Init, OpenSet, SettledSet
  <2>2. db[p].reserved = 0 /\ db[p].used = 0
    BY DEF Init, Row, NoRow
  <2>3. QED
    BY <2>1, <2>2, TotalEmpty DEF Booked, Estimated, Charged
<1>5. RowsExact
  BY <1>4 DEF RowsExact, Booked, OpenSet, SettledSet
<1>6. QED
  BY <1>1, <1>2, <1>3, <1>5 DEF IInv, RowsKept

(* Every step keeps the inductive invariant. *)
LEMMA StepIInv == IInv /\ [Next]_vars => IInv'
<1> SUFFICES ASSUME IInv, [Next]_vars PROVE IInv'
  OBVIOUS
<1>1. TypeOK /\ EventInv /\ RowsKept
  BY DEF IInv
<1>2. TypeOK' /\ EventInv'
  BY <1>1, TypeStep, EventStep
<1>3. /\ master' = master
      /\ ~master' => scan'.state = "idle"
      /\ RowsExist => \A p \in Policies : db'[p].found
  BY <1>1, <1>2, KeptStep
<1>4. RowsExist \/ ~master' => RowsExact'
  <2>1. ASSUME RowsExist \/ ~master, NEW p \in Policies PROVE Booked(p)'
    BY <1>1, <1>2, <2>1, BookedStep
  <2>2. QED
    BY <1>3, <2>1 DEF RowsExact, Booked, OpenSet, SettledSet
<1>5. RowsKept'
  BY <1>3, <1>4 DEF RowsKept
<1>6. QED
  BY <1>2, <1>5 DEF IInv

(* The types, what the events say and, wherever the rows were not made up  *)
(* by the reconciler, their exactness hold in every reachable state.       *)
THEOREM Inductive == Spec => []IInv
BY InitIInv, StepIInv, PTL DEF Spec

(* Whatever fails, and however often, the rows are the exact sums of the   *)
(* open reservations and of the charged usage, provided they existed when  *)
(* the first request of the period came.  Without that condition the       *)
(* reconciler may create a row from a key that already holds reservations  *)
(* which the mirror transaction adds again (the run RedisOrphanRow).       *)
THEOREM RowsSafe ==
    ASSUME RowsExist
    PROVE  Spec => []RedisInv
<1>1. IInv => RedisInv
  BY DEF IInv, RowsKept, RedisInv
<1>2. QED
  BY <1>1, Inductive, PTL

-----------------------------------------------------------------------------
(* The lag of Redis behind the rows, while nothing fails *)

Same(r, x, y) == \A s \in Requests \ {r} : x[s] = y[s]

(* The sums follow the request that moves. *)
LEMMA LagMove ==
    ASSUME TypeOK, TypeOK', NEW r \in Requests, NEW p \in Policies,
           Same(r, pc, pc'), Same(r, held, held'), Same(r, actual, actual')
    PROVE  /\ Estimated(Ahead(p))' = Estimated(Ahead(p))
                 - (IF r \in Ahead(p) THEN Estimate[r] ELSE 0)
                 + (IF r \in Ahead(p)' THEN Estimate[r] ELSE 0)
           /\ Estimated(Behind(p))' = Estimated(Behind(p))
                 - (IF r \in Behind(p) THEN Estimate[r] ELSE 0)
                 + (IF r \in Behind(p)' THEN Estimate[r] ELSE 0)
           /\ Charged(Behind(p))' = Charged(Behind(p))
                 - (IF r \in Behind(p) THEN actual[r] ELSE 0)
                 + (IF r \in Behind(p)' THEN actual'[r] ELSE 0)
           /\ Estimated(Ahead(p)) \in Nat /\ Estimated(Behind(p)) \in Nat
           /\ Charged(Behind(p)) \in Nat
           /\ r \in Ahead(p) => Estimated(Ahead(p)) - Estimate[r] \in Nat
           /\ r \in Behind(p) => Estimated(Behind(p)) - Estimate[r] \in Nat
<1> DEFINE F == Ahead(p)
           G == Behind(p)
<1>1. /\ F \in SUBSET Requests /\ F' \in SUBSET Requests
      /\ G \in SUBSET Requests /\ G' \in SUBSET Requests
  BY DEF Ahead, Behind
<1>2. \A s \in Requests \ {r} : (s \in F <=> s \in F') /\ (s \in G <=> s \in G')
  BY DEF Ahead, Behind, Same
<1>3. /\ \A s \in Requests : Estimate[s] \in Nat /\ actual[s] \in Nat
      /\ actual'[r] \in Nat /\ IsFiniteSet(Requests)
      /\ \A s \in Requests \ {r} : actual[s] = actual'[s]
  BY RedisAssumption DEF TypeOK, Same
<1> HIDE DEF F, G
<1>4. /\ Total(F', Estimate) = Total(F, Estimate) - (IF r \in F THEN Estimate[r] ELSE 0)
                                                + (IF r \in F' THEN Estimate[r] ELSE 0)
      /\ Total(F, Estimate) \in Nat
      /\ r \in F => Total(F, Estimate) - Estimate[r] \in Nat
  BY <1>1, <1>2, <1>3, TotalJoin
<1>5. /\ Total(G', Estimate) = Total(G, Estimate) - (IF r \in G THEN Estimate[r] ELSE 0)
                                                + (IF r \in G' THEN Estimate[r] ELSE 0)
      /\ Total(G, Estimate) \in Nat
      /\ r \in G => Total(G, Estimate) - Estimate[r] \in Nat
  BY <1>1, <1>2, <1>3, TotalJoin
<1>6. /\ Total(G', actual') = Total(G, actual) - (IF r \in G THEN actual[r] ELSE 0)
                                             + (IF r \in G' THEN actual'[r] ELSE 0)
      /\ Total(G, actual) \in Nat
  <2>1. \A s \in Requests \ {r} : actual[s] = actual'[s] /\ (s \in G <=> s \in G')
    BY <1>2, <1>3
  <2>2. \A s \in Requests : actual[s] \in Nat
    BY <1>3
  <2>3. QED
    BY <1>1, <1>3, <2>1, <2>2, TotalMove
<1>7. QED
  BY <1>4, <1>5, <1>6 DEF F, G, Estimated, Charged

(* So does the usage beyond the estimates. *)
LEMMA OverrunMove ==
    ASSUME TypeOK, TypeOK', NEW r \in Requests, Same(r, actual, actual')
    PROVE  /\ OverrunSum \in Nat
           /\ OverrunSum' = OverrunSum - Clamp(actual[r] - Estimate[r])
                                       + Clamp(actual'[r] - Estimate[r])
<1> DEFINE v == [s \in Requests |-> Overrun(s)]
<1>1. /\ \A s \in Requests : v[s] \in Nat
      /\ \A s \in Requests : v'[s] \in Nat
  <2>1. ASSUME NEW s \in Requests
        PROVE  actual[s] - Estimate[s] \in Int /\ actual'[s] - Estimate[s] \in Int
    BY EstimateType DEF TypeOK
  <2>2. QED
    BY <2>1, ClampType DEF Overrun
<1>2. /\ v[r] = Clamp(actual[r] - Estimate[r])
      /\ v'[r] = Clamp(actual'[r] - Estimate[r])
      /\ \A s \in Requests \ {r} : v[s] = v'[s]
  BY DEF Overrun, Same
<1>3. OverrunSum = Total(Requests, v) /\ OverrunSum' = Total(Requests, v')
  BY DEF OverrunSum
<1> HIDE DEF v
<1>4. /\ Total(Requests, v') = Total(Requests, v) - v[r] + v'[r]
      /\ Total(Requests, v) \in Nat
  BY <1>1, <1>2, TotalUpdate, RedisAssumption
<1>5. QED
  BY <1>2, <1>3, <1>4

(* What is settled in the row and not yet in Redis is covered by what is   *)
(* still reserved for it, up to usage beyond the estimates.                *)
LEMMA ChargedCovered ==
    ASSUME TypeOK, NEW p \in Policies
    PROVE  Charged(Behind(p)) <= Estimated(Behind(p)) + OverrunSum
<1> DEFINE G == Behind(p)
           v == [s \in Requests |-> Overrun(s)]
           x == [s \in Requests |-> Estimate[s] + v[s]]
           d == [s \in Requests |-> x[s] - actual[s]]
<1>1. IsFiniteSet(Requests) /\ G \in SUBSET Requests
  BY RedisAssumption DEF Behind
<1>2. IsFiniteSet(G)
  BY <1>1, FS_Subset
<1>3. ASSUME NEW s \in Requests
      PROVE  /\ Estimate[s] \in Nat /\ actual[s] \in Nat /\ v[s] \in Nat
             /\ x[s] = Estimate[s] + v[s] /\ d[s] \in Nat /\ x[s] = actual[s] + d[s]
  <2>1. Estimate[s] \in Nat /\ actual[s] \in Nat
    BY EstimateType DEF TypeOK
  <2>2. v[s] = Clamp(actual[s] - Estimate[s])
    BY DEF Overrun
  <2>3. v[s] \in Nat /\ v[s] >= actual[s] - Estimate[s]
    BY <2>1, <2>2 DEF Clamp
  <2>4. QED
    BY <2>1, <2>3
<1>4. OverrunSum = Total(Requests, v)
  BY DEF OverrunSum
<1> HIDE DEF G, v, x, d
<1>5. /\ \A s \in G : Estimate[s] \in Nat /\ v[s] \in Nat /\ x[s] = Estimate[s] + v[s]
      /\ \A s \in G : actual[s] \in Nat /\ d[s] \in Nat /\ x[s] = actual[s] + d[s]
  BY <1>1, <1>3
<1>6. Total(G, x) = Total(G, Estimate) + Total(G, v) /\ Total(G, Estimate) \in Nat
  BY <1>2, <1>5, TotalPlus
<1>7. Total(G, x) = Total(G, actual) + Total(G, d) /\ Total(G, d) \in Nat /\ Total(G, actual) \in Nat
  BY <1>2, <1>5, TotalPlus
<1>8. Total(G, v) <= Total(Requests, v) /\ Total(G, v) \in Nat /\ Total(Requests, v) \in Nat
  BY <1>1, <1>3, TotalPart
<1>9. QED
  BY <1>4, <1>6, <1>7, <1>8 DEF G, Estimated, Charged

(* The steps that are left when nothing has failed and no reconciler runs. *)
CalmStep(r) ==
    \/ ReadSeed(r) \/ RedisReserve(r) \/ UndoRedis(r) \/ UndoDone(r) \/ MirrorReservation(r)
    \/ SettleRows(r) \/ RefundRows(r) \/ FinishRedis(r)

(* Nothing else can happen while the system stays undisturbed. *)
LEMMA CalmNext ==
    ASSUME IInv, CalmInv, [Next]_vars, Undisturbed'
    PROVE  /\ Undisturbed /\ faults' = faults
           /\ pending = {} /\ pending' = {}
           /\ UNCHANGED vars \/ \E r \in Requests : CalmStep(r)
<1>1. TypeOK /\ TypeOK' /\ EventInv /\ RowsKept
  BY StepIInv DEF IInv
<1>2. master' = master /\ ~master
  BY <1>1, KeptStep DEF Undisturbed
<1>3. faults' = 0 /\ ~Fault
  BY <1>1, FaultType DEF Undisturbed
<1>4. faults = 0
  <2>1. faults' = faults \/ Fault
    BY ZenonT(60) DEF Next, RequestStep, Compensation, Reconciliation, ReadSeed, RedisReserve,
           RedisReserveFails, UndoRedis, UndoDone, MirrorReservation, DatabaseFails,
           FallbackReserve, FallbackFails, SettleRows, RefundRows, FinishRedis, Abandon,
           RedisLosesKey, CompensateRow, CompensateRowFails, CompensateRedis, ReconcileReadRows,
           ReconcileScanKeys, ReconcileRepair, ReconcileCreateRow, ReconcileDone,
           ReconcileCompare, ReconcileOrphan, vars
  <2>2. QED
    BY <1>3, <2>1
<1>5. Undisturbed
  BY <1>2, <1>4 DEF Undisturbed
<1>6. pending = {} /\ \A r \in Requests : pc[r] \notin {"undo_fallback", "fallback", "dead"}
  BY <1>5 DEF CalmInv, Holding
<1>7. ~Reconciliation
  BY <1>1, <1>2 DEF RowsKept, Reconciliation, ReconcileReadRows, ReconcileScanKeys,
         ReconcileRepair, ReconcileCreateRow, ReconcileDone, ReconcileCompare, ReconcileOrphan
<1>8. ~Compensation
  BY <1>6 DEF Compensation, CompensateRow, CompensateRowFails, CompensateRedis
<1>9. ASSUME NEW r \in Requests, RequestStep(r) PROVE CalmStep(r)
  BY <1>3, <1>6, <1>9 DEF RequestStep, CalmStep, RedisReserveFails, DatabaseFails,
                         FallbackReserve, FallbackFails, Abandon
<1>10. ~\E p \in Policies : RedisLosesKey(p)
  BY <1>3 DEF RedisLosesKey
<1>11. UNCHANGED vars \/ \E r \in Requests : CalmStep(r)
  BY <1>7, <1>8, <1>9, <1>10 DEF Next
<1>12. pending' = pending
  BY <1>11 DEF CalmStep, vars, ReadSeed, RedisReserve, UndoRedis, UndoDone, MirrorReservation,
               SettleRows, RefundRows, FinishRedis
<1>13. QED
  BY <1>3, <1>4, <1>5, <1>6, <1>11, <1>12

(* Adding the current policy to the ones before it. *)
LEMMA HeldNext ==
    ASSUME NEW n \in 1 .. Len(Order)
    PROVE  /\ {Order[i] : i \in 1 .. n - 1} \cup {Order[n]} = {Order[i] : i \in 1 .. (n + 1) - 1}
           /\ n = Len(Order) => {Order[i] : i \in 1 .. (n + 1) - 1} = Policies
           /\ Order[n] \notin {Order[i] : i \in 1 .. n - 1}
<1>1. Len(Order) \in Nat /\ n \in Nat /\ n >= 1 /\ n <= Len(Order)
  BY OrderFacts
<1>2. 1 .. (n + 1) - 1 = (1 .. n - 1) \cup {n}
  BY <1>1
<1>3. Order[n] \notin {Order[i] : i \in 1 .. n - 1}
  BY <1>1, OrderFacts
<1>4. n = Len(Order) => 1 .. (n + 1) - 1 = 1 .. Len(Order)
  BY <1>1
<1>5. QED
  BY <1>2, <1>3, <1>4 DEF Policies

(* What the Reserve script does to the counter of the current policy, and  *)
(* to no other.                                                            *)
LEMMA ReserveEffect ==
    ASSUME TypeOK, EventInv, NEW r \in Requests, RedisReserve(r),
           Holding(r), \A p \in Policies : SeededFirst(p)
    PROVE  \E c \in Policies :
              /\ c = Order[at[r]] /\ at[r] \in 1 .. Len(Order) /\ c \notin held[r]
              /\ \A p \in Policies \ {c} : redis'[p] = redis[p]
              /\ redis'[c].initialized
              /\ redis'[c].used = redis[c].used
              /\ \/ /\ redis'[c].reserved = redis[c].reserved + Estimate[r]
                    /\ redis[c].used + redis[c].reserved + Estimate[r] <= Limit[c]
                    /\ held' = [held EXCEPT ![r] = held[r] \cup {c}]
                    /\ at' = [at EXCEPT ![r] = at[r] + 1]
                    /\ pc' = [pc EXCEPT ![r] = IF at[r] = Len(Order) THEN "mirror" ELSE "seed"]
                 \/ /\ redis'[c].reserved = redis[c].reserved
                    /\ held' = held /\ at' = at
                    /\ pc' = [pc EXCEPT ![r] = "undo_deny"]
<1>1. pc[r] = "reserve"
  BY DEF RedisReserve
<1>2. PICK c \in Policies : c = Current(r) /\ c = Order[at[r]] /\ at[r] \in 1 .. Len(Order)
  BY <1>1, CurrentType
<1>3. c \notin held[r]
  BY <1>1, <1>2, HeldNext DEF Holding
<1>4. redis[c] \in Hashes /\ seed[r] \in Rows /\ Estimate[r] \in Nat
  BY EstimateType DEF TypeOK
<1>5. PICK h \in Hashes : h = Seeded(redis[c], seed[r]) /\ h.initialized
  BY <1>4, SeededType
<1>6. h.used = redis[c].used /\ h.reserved = redis[c].reserved
  <2>1. ~redis[c].initialized =>
            /\ redis[c].used = 0 /\ redis[c].reserved = 0
            /\ seed[r].used = 0 /\ seed[r].reserved = 0
    BY <1>1, <1>2 DEF SeededFirst
  <2>2. QED
    BY <1>4, <1>5, <2>1, SeededType
<1>7. PICK x \in Hashes : /\ x = [h EXCEPT !.reserved = @ + Estimate[r]]
                          /\ x.used = h.used /\ x.reserved = h.reserved + Estimate[r]
                          /\ x.initialized
  <2> DEFINE y == [h EXCEPT !.reserved = @ + Estimate[r]]
  <2>1. /\ y \in Hashes /\ y.used = h.used /\ y.reserved = h.reserved + Estimate[r]
        /\ y.initialized = h.initialized
    BY <1>4, ReserveType
  <2> HIDE DEF y
  <2>2. y.initialized
    BY <1>5, <2>1
  <2>3. QED
    BY <2>1, <2>2 DEF y
<1>8. redis \in [Policies -> Hashes]
  BY DEF TypeOK
<1>9. \/ /\ redis' = [redis EXCEPT ![c] = x]
         /\ Allowed(h, Estimate[r], Limit[c])
         /\ held' = [held EXCEPT ![r] = held[r] \cup {c}]
         /\ at' = [at EXCEPT ![r] = at[r] + 1]
         /\ pc' = [pc EXCEPT ![r] = IF at[r] = Len(Order) THEN "mirror" ELSE "seed"]
      \/ /\ redis' = [redis EXCEPT ![c] = h]
         /\ held' = held /\ at' = at
         /\ pc' = [pc EXCEPT ![r] = "undo_deny"]
  BY <1>2, <1>5, <1>7 DEF RedisReserve
<1>10. /\ \A p \in Policies \ {c} : redis'[p] = redis[p]
       /\ redis'[c].initialized /\ redis'[c].used = redis[c].used
  BY <1>5, <1>6, <1>7, <1>8, <1>9
<1>11. CASE redis' = [redis EXCEPT ![c] = x] /\ Allowed(h, Estimate[r], Limit[c])
            /\ held' = [held EXCEPT ![r] = held[r] \cup {c}]
            /\ at' = [at EXCEPT ![r] = at[r] + 1]
            /\ pc' = [pc EXCEPT ![r] = IF at[r] = Len(Order) THEN "mirror" ELSE "seed"]
  <2>1. redis'[c].reserved = redis[c].reserved + Estimate[r]
    BY <1>6, <1>7, <1>8, <1>11
  <2>2. redis[c].used + redis[c].reserved + Estimate[r] <= Limit[c]
    BY <1>6, <1>11 DEF Allowed
  <2>3. QED
    BY <1>2, <1>3, <1>10, <1>11, <2>1, <2>2
<1>12. CASE redis' = [redis EXCEPT ![c] = h] /\ held' = held /\ at' = at
            /\ pc' = [pc EXCEPT ![r] = "undo_deny"]
  <2>1. redis'[c].reserved = redis[c].reserved
    BY <1>6, <1>8, <1>12
  <2>2. QED
    BY <1>2, <1>3, <1>10, <1>12, <2>1
<1>13. QED
  BY <1>9, <1>11, <1>12

(* What a rollback does. *)
LEMMA UndoEffect ==
    ASSUME TypeOK, NEW r \in Requests, UndoRedis(r), faults' = faults
    PROVE  \E c \in Policies :
              /\ c \in held[r] /\ pc[r] \in {"undo_deny", "undo_fallback"}
              /\ held' = [held EXCEPT ![r] = held[r] \ {c}]
              /\ \A p \in Policies \ {c} : redis'[p] = redis[p]
              /\ redis'[c].initialized = redis[c].initialized
              /\ redis'[c].used = redis[c].used
              /\ redis'[c].reserved = Clamp(redis[c].reserved - Estimate[r])
              /\ UNCHANGED <<pc, at, seed, viaRedis, actual, event, db>>
<1>1. ~Fault
  BY DEF Fault, TypeOK
<1>2. PICK c \in held[r] :
          /\ pc[r] \in {"undo_deny", "undo_fallback"}
          /\ held' = [held EXCEPT ![r] = @ \ {c}]
          /\ redis' = [redis EXCEPT ![c] = RefundScript(@, Estimate[r])]
          /\ UNCHANGED <<pc, at, seed, viaRedis, actual, event, db>>
  BY <1>1 DEF UndoRedis
<1>3. c \in Policies /\ redis \in [Policies -> Hashes] /\ redis[c] \in Hashes
  BY DEF TypeOK
<1>4. PICK x \in Hashes : /\ x = RefundScript(redis[c], Estimate[r])
                          /\ x.used = redis[c].used
                          /\ x.reserved = Clamp(redis[c].reserved - Estimate[r])
                          /\ x.initialized = redis[c].initialized
  BY <1>3, RefundType, EstimateType
<1>5. redis' = [redis EXCEPT ![c] = x]
  BY <1>2, <1>4
<1>6. QED
  BY <1>2, <1>3, <1>4, <1>5

(* What the Redis side of a settlement or a refund does. *)
LEMMA FinishEffect ==
    ASSUME TypeOK, NEW r \in Requests, FinishRedis(r), faults' = faults, Holding(r)
    PROVE  \E c \in Policies :
              /\ c \in held[r] /\ pc[r] \in {"settling", "refunding"}
              /\ held' = [held EXCEPT ![r] = held[r] \ {c}]
              /\ pc' = [pc EXCEPT ![r] = IF held[r] = {c} THEN "done" ELSE pc[r]]
              /\ \A p \in Policies \ {c} : redis'[p] = redis[p]
              /\ redis'[c].initialized = redis[c].initialized
              /\ redis'[c].used = redis[c].used + actual[r]
              /\ redis'[c].reserved = Clamp(redis[c].reserved - Estimate[r])
              /\ UNCHANGED <<at, seed, viaRedis, actual, event, db>>
<1>1. ~Fault
  BY DEF Fault, TypeOK
<1>2. PICK c \in held[r] :
          /\ pc[r] \in {"settling", "refunding"}
          /\ held' = [held EXCEPT ![r] = @ \ {c}]
          /\ pc' = [pc EXCEPT ![r] = IF held[r] = {c} THEN "done" ELSE @]
          /\ redis' = [redis EXCEPT ![c] =
                IF pc[r] = "settling" THEN SettleScript(@, Estimate[r], actual[r])
                                      ELSE RefundScript(@, Estimate[r])]
          /\ UNCHANGED <<at, seed, viaRedis, actual, event, db>>
  BY <1>1 DEF FinishRedis
<1>3. c \in Policies /\ redis \in [Policies -> Hashes] /\ redis[c] \in Hashes /\ actual[r] \in Nat
  BY DEF TypeOK
<1>4. pc[r] = "refunding" => actual[r] = 0
  BY DEF Holding
<1>5. PICK x \in Hashes : /\ x = IF pc[r] = "settling"
                                 THEN SettleScript(redis[c], Estimate[r], actual[r])
                                 ELSE RefundScript(redis[c], Estimate[r])
                          /\ x.used = redis[c].used + actual[r]
                          /\ x.reserved = Clamp(redis[c].reserved - Estimate[r])
                          /\ x.initialized = redis[c].initialized
  <2>1. CASE pc[r] = "settling"
    BY <1>3, <2>1, SettleType, EstimateType
  <2>2. CASE pc[r] = "refunding"
    <3>1. redis[c].used = redis[c].used + actual[r]
      BY <1>3, <1>4, <2>2, HashFields
    <3>2. QED
      BY <1>3, <2>2, <3>1, RefundType, EstimateType, SMTT(30)
  <2>3. QED
    BY <1>2, <2>1, <2>2
<1>6. redis' = [redis EXCEPT ![c] = x]
  BY <1>2, <1>5
<1>7. pc' = [pc EXCEPT ![r] = IF held[r] = {c} THEN "done" ELSE pc[r]]
  BY <1>2
<1>8. QED
  BY <1>2, <1>3, <1>5, <1>6, <1>7

(* A request only changes its own variables. *)
LEMMA CalmLocal ==
    ASSUME TypeOK, NEW r \in Requests, CalmStep(r)
    PROVE  /\ Same(r, pc, pc') /\ Same(r, at, at') /\ Same(r, seed, seed')
           /\ Same(r, held, held') /\ Same(r, viaRedis, viaRedis') /\ Same(r, actual, actual')
<1> USE DEF Same, TypeOK
<1>1. CASE ReadSeed(r) \/ UndoDone(r)
  BY <1>1 DEF ReadSeed, UndoDone
<1>2. CASE RedisReserve(r)
  BY <1>2 DEF RedisReserve
<1>3. CASE UndoRedis(r)
  BY <1>3 DEF UndoRedis
<1>4. CASE MirrorReservation(r)
  BY <1>4 DEF MirrorReservation
<1>5. CASE SettleRows(r)
  BY <1>5 DEF SettleRows, ThenRedis
<1>6. CASE RefundRows(r)
  BY <1>6 DEF RefundRows, ThenRedis
<1>7. CASE FinishRedis(r)
  BY <1>7 DEF FinishRedis
<1>8. QED
  BY <1>1, <1>2, <1>3, <1>4, <1>5, <1>6, <1>7 DEF CalmStep

(* Without a fault a running request was admitted by Redis, so that its    *)
(* settlement or refund goes on there.                                     *)
LEMMA CloseEffect ==
    ASSUME TypeOK, NEW r \in Requests, SettleRows(r) \/ RefundRows(r), Holding(r)
    PROVE  \E n \in Nat :
              /\ pc[r] = "running" /\ actual[r] = 0
              /\ ReleaseRows(r, n)
              /\ pc'[r] \in {"settling", "refunding"} /\ held'[r] = Policies
              /\ actual'[r] = n
              /\ \/ /\ CloseEvents(r, "settled") /\ actual' = [actual EXCEPT ![r] = n]
                    /\ pc'[r] = "settling"
                 \/ CloseEvents(r, "refunded") /\ actual' = actual /\ n = 0
              /\ UNCHANGED <<at, seed, viaRedis, redis>>
<1>1. pc[r] = "running" /\ viaRedis[r] /\ actual[r] = 0
  BY DEF SettleRows, RefundRows, Holding
<1>2. /\ \A a \in Actuals : a \in Nat
      /\ Estimate[r] \in Nat
      /\ actual \in [Requests -> Nat]
      /\ DOMAIN pc = Requests /\ DOMAIN held = Requests
  BY <1>1, RedisAssumption, EstimateType DEF TypeOK
<1>3. CASE SettleRows(r)
  <2>1. PICK a \in Actuals :
            LET charge == IF a <= 0 THEN Estimate[r] ELSE a IN
            /\ ReleaseRows(r, charge)
            /\ CloseEvents(r, "settled")
            /\ actual' = [actual EXCEPT ![r] = charge]
            /\ ThenRedis(r, "settling")
            /\ UNCHANGED <<at, seed, viaRedis, redis>>
    BY <1>3 DEF SettleRows
  <2>2. PICK n \in Nat : n = IF a <= 0 THEN Estimate[r] ELSE a
    BY <1>2
  <2>3. /\ ReleaseRows(r, n) /\ CloseEvents(r, "settled") /\ actual' = [actual EXCEPT ![r] = n]
        /\ ThenRedis(r, "settling") /\ UNCHANGED <<at, seed, viaRedis, redis>>
    BY <2>1, <2>2
  <2>4. pc'[r] = "settling" /\ held'[r] = Policies
    BY <1>1, <2>3 DEF ThenRedis, TypeOK
  <2>5. actual'[r] = n
    BY <1>2, <2>3
  <2>6. QED
    BY <1>1, <2>3, <2>4, <2>5
<1>4. CASE RefundRows(r)
  <2>1. /\ ReleaseRows(r, 0) /\ CloseEvents(r, "refunded") /\ actual' = actual
        /\ ThenRedis(r, "refunding") /\ UNCHANGED <<at, seed, viaRedis, redis>>
    BY <1>4 DEF RefundRows
  <2>2. pc'[r] = "refunding" /\ held'[r] = Policies
    BY <1>1, <2>1 DEF ThenRedis, TypeOK
  <2>3. QED
    BY <1>1, <2>1, <2>2
<1>5. QED
  BY <1>3, <1>4

(* Every calm step keeps what the requests hold. *)
LEMMA HoldingStep ==
    ASSUME TypeOK, EventInv, NEW r \in Requests, CalmStep(r), faults' = faults,
           \A s \in Requests : Holding(s), \A p \in Policies : SeededFirst(p),
           NEW s \in Requests
    PROVE  Holding(s)'
<1>1. CASE s # r
  <2>1. /\ pc'[s] = pc[s] /\ at'[s] = at[s] /\ held'[s] = held[s]
        /\ viaRedis'[s] = viaRedis[s] /\ actual'[s] = actual[s]
    BY <1>1, CalmLocal DEF Same
  <2>2. QED
    BY <2>1 DEF Holding
<1>2. CASE s = r
  <2>0. Holding(r)
    OBVIOUS
  <2>a. /\ DOMAIN pc = Requests /\ DOMAIN at = Requests /\ DOMAIN held = Requests
        /\ DOMAIN viaRedis = Requests
    BY DEF TypeOK
  <2>1. CASE ReadSeed(r)
    <3>1. pc[r] = "seed" /\ pc'[r] = "reserve" /\ UNCHANGED <<at, held, viaRedis, actual>>
      BY <2>1, <2>a DEF ReadSeed
    <3>2. QED
      BY <1>2, <2>0, <3>1 DEF Holding
  <2>2. CASE RedisReserve(r)
    <3>1. PICK c \in Policies :
              /\ c = Order[at[r]] /\ at[r] \in 1 .. Len(Order)
              /\ \/ /\ held' = [held EXCEPT ![r] = held[r] \cup {c}]
                    /\ at' = [at EXCEPT ![r] = at[r] + 1]
                    /\ pc' = [pc EXCEPT ![r] = IF at[r] = Len(Order) THEN "mirror" ELSE "seed"]
                 \/ /\ held' = held /\ at' = at
                    /\ pc' = [pc EXCEPT ![r] = "undo_deny"]
      BY <2>2, ReserveEffect
    <3>2. pc[r] = "reserve" /\ UNCHANGED <<viaRedis, actual>>
      BY <2>2 DEF RedisReserve
    <3>3. CASE /\ held' = [held EXCEPT ![r] = held[r] \cup {c}]
               /\ at' = [at EXCEPT ![r] = at[r] + 1]
               /\ pc' = [pc EXCEPT ![r] = IF at[r] = Len(Order) THEN "mirror" ELSE "seed"]
      <4>1. /\ held'[r] = held[r] \cup {c} /\ at'[r] = at[r] + 1
            /\ pc'[r] = IF at[r] = Len(Order) THEN "mirror" ELSE "seed"
        BY <2>a, <3>3
      <4>2. held[r] = {Order[i] : i \in 1 .. at[r] - 1}
        BY <2>0, <3>2 DEF Holding
      <4>3. /\ held'[r] = {Order[i] : i \in 1 .. (at[r] + 1) - 1}
            /\ pc'[r] = "mirror" => held'[r] = Policies
        BY <3>1, <4>1, <4>2, HeldNext
      <4>4. actual'[r] = 0
        BY <2>0, <3>2 DEF Holding
      <4>5. pc'[r] \in {"mirror", "seed"}
        BY <4>1
      <4>6. held'[r] = {Order[i] : i \in 1 .. at'[r] - 1}
        BY <4>1, <4>3
      <4>7. QED
        BY <1>2, <4>3, <4>4, <4>5, <4>6 DEF Holding
    <3>4. CASE pc' = [pc EXCEPT ![r] = "undo_deny"]
      <4>1. pc'[r] = "undo_deny"
        BY <2>a, <3>4
      <4>2. QED
        BY <1>2, <2>0, <3>2, <4>1 DEF Holding
    <3>5. QED
      BY <3>1, <3>3, <3>4
  <2>3. CASE UndoRedis(r)
    <3>1. pc[r] = "undo_deny" /\ UNCHANGED <<pc, at, viaRedis, actual>>
      BY <2>0, <2>3, UndoEffect DEF Holding
    <3>2. QED
      BY <1>2, <2>0, <3>1 DEF Holding
  <2>4. CASE UndoDone(r)
    <3>1. pc[r] = "undo_deny" /\ pc'[r] = "denied" /\ UNCHANGED actual
      BY <2>0, <2>4, <2>a DEF UndoDone, Holding
    <3>2. QED
      BY <1>2, <2>0, <3>1 DEF Holding
  <2>5. CASE MirrorReservation(r)
    <3>1. pc[r] = "mirror" /\ pc'[r] = "running" /\ viaRedis'[r] /\ UNCHANGED actual
      BY <2>5, <2>a DEF MirrorReservation
    <3>2. QED
      BY <1>2, <2>0, <3>1 DEF Holding
  <2>6. CASE SettleRows(r) \/ RefundRows(r)
    <3>1. \/ pc'[r] = "settling"
          \/ pc'[r] = "refunding" /\ actual'[r] = 0
      BY <2>0, <2>6, CloseEffect
    <3>2. QED
      BY <1>2, <3>1 DEF Holding
  <2>7. CASE FinishRedis(r)
    <3>1. /\ pc[r] \in {"settling", "refunding"} /\ pc'[r] \in {"done", pc[r]}
          /\ UNCHANGED actual
      BY <2>0, <2>7, <2>a, FinishEffect
    <3>2. QED
      BY <1>2, <2>0, <3>1 DEF Holding
  <2>8. QED
    BY <2>1, <2>2, <2>3, <2>4, <2>5, <2>6, <2>7 DEF CalmStep
<1>3. QED
  BY <1>1, <1>2

(* Every calm step keeps the keys seeded before the counters are used. *)
LEMMA SeededStep ==
    ASSUME TypeOK, EventInv, NEW r \in Requests, CalmStep(r), faults' = faults,
           \A s \in Requests : Holding(s), \A p \in Policies : SeededFirst(p),
           NEW p \in Policies
    PROVE  SeededFirst(p)'
<1> DEFINE Unused == {"seed", "reserve", "undo_deny", "denied"}
           Goal ==
              /\ redis[p].initialized => redis'[p].initialized
              /\ ~redis'[p].initialized => redis'[p] = redis[p] /\ db'[p] = db[p]
              /\ p \in held'[r] => redis'[p].initialized
              /\ pc'[r] \notin Unused => redis'[p].initialized
              /\ pc'[r] = "reserve" /\ Order[at'[r]] = p /\ ~redis'[p].initialized =>
                    seed'[r].used = 0 /\ seed'[r].reserved = 0
<1>0. /\ Holding(r)
      /\ p \in held[r] => redis[p].initialized
      /\ pc[r] \notin Unused => redis[p].initialized
      /\ ~redis[p].initialized => db[p].used = 0 /\ db[p].reserved = 0
  BY DEF SeededFirst
<1>a. /\ DOMAIN pc = Requests /\ DOMAIN at = Requests /\ DOMAIN held = Requests
      /\ DOMAIN seed = Requests
  BY DEF TypeOK
<1>1. ASSUME ReadSeed(r) PROVE Goal
  <2>1. /\ pc[r] = "seed" /\ pc'[r] = "reserve" /\ seed'[r] = db[Order[at[r]]]
        /\ UNCHANGED <<at, held, redis, db>>
    BY <1>1, <1>a DEF ReadSeed, Current
  <2>2. QED
    BY <1>0, <2>1
<1>2. ASSUME RedisReserve(r) PROVE Goal
  <2>1. PICK c \in Policies :
            /\ c = Order[at[r]] /\ at[r] \in 1 .. Len(Order)
            /\ \A q \in Policies \ {c} : redis'[q] = redis[q]
            /\ redis'[c].initialized
            /\ \/ /\ held' = [held EXCEPT ![r] = held[r] \cup {c}]
                  /\ pc' = [pc EXCEPT ![r] = IF at[r] = Len(Order) THEN "mirror" ELSE "seed"]
               \/ held' = held /\ pc' = [pc EXCEPT ![r] = "undo_deny"]
    BY <1>0, <1>2, ReserveEffect
  <2>2. pc[r] = "reserve" /\ db' = db
    BY <1>2 DEF RedisReserve
  <2>3. CASE p = c
    <3>1. pc'[r] # "reserve"
      BY <1>a, <2>1
    <3>2. QED
      BY <2>1, <2>3, <3>1
  <2>4. CASE p # c
    <3>1. redis'[p] = redis[p]
      BY <2>1, <2>4
    <3>2. p \in held'[r] => p \in held[r]
      BY <1>a, <2>1, <2>4
    <3>3. pc'[r] = "mirror" => p \in held[r]
      <4>1. pc'[r] = "mirror" => at[r] = Len(Order)
        BY <1>a, <2>1
      <4>2. held[r] = {Order[i] : i \in 1 .. at[r] - 1}
        BY <1>0, <2>2 DEF Holding
      <4>3. QED
        BY <2>1, <2>4, <4>1, <4>2, HeldNext
    <3>4. pc'[r] \in {"mirror", "seed", "undo_deny"}
      BY <1>a, <2>1
    <3>5. QED
      BY <1>0, <2>2, <3>1, <3>2, <3>3, <3>4
  <2>5. QED
    BY <2>3, <2>4
<1>3. ASSUME UndoRedis(r) PROVE Goal
  <2>1. PICK c \in Policies :
            /\ c \in held[r] /\ held' = [held EXCEPT ![r] = held[r] \ {c}]
            /\ \A q \in Policies \ {c} : redis'[q] = redis[q]
            /\ redis'[c].initialized = redis[c].initialized
            /\ UNCHANGED <<pc, at, seed, db>>
            /\ pc[r] \in {"undo_deny", "undo_fallback"}
    BY <1>3, UndoEffect
  <2>2. held'[r] = held[r] \ {c}
    BY <1>a, <2>1
  <2>3. CASE p = c
    BY <1>0, <2>1, <2>2, <2>3
  <2>4. CASE p # c
    BY <1>0, <2>1, <2>2, <2>4
  <2>5. QED
    BY <2>3, <2>4
<1>4. ASSUME UndoDone(r) PROVE Goal
  <2>1. pc[r] = "undo_deny" /\ pc'[r] = "denied" /\ UNCHANGED <<held, redis, db>>
    BY <1>0, <1>4, <1>a DEF UndoDone, Holding
  <2>2. QED
    BY <1>0, <2>1
<1>5. ASSUME MirrorReservation(r) PROVE Goal
  <2>1. pc[r] = "mirror" /\ pc'[r] = "running" /\ UNCHANGED <<held, redis>>
    BY <1>5, <1>a DEF MirrorReservation
  <2>2. QED
    BY <1>0, <2>1
<1>6. ASSUME SettleRows(r) \/ RefundRows(r) PROVE Goal
  <2>1. pc[r] = "running" /\ pc'[r] \in {"settling", "refunding"} /\ UNCHANGED redis
    BY <1>0, <1>6, CloseEffect
  <2>2. QED
    BY <1>0, <2>1
<1>7. ASSUME FinishRedis(r) PROVE Goal
  <2>1. PICK c \in Policies :
            /\ c \in held[r] /\ pc[r] \in {"settling", "refunding"}
            /\ pc' = [pc EXCEPT ![r] = IF held[r] = {c} THEN "done" ELSE pc[r]]
            /\ \A q \in Policies \ {c} : redis'[q] = redis[q]
            /\ redis'[c].initialized = redis[c].initialized
    BY <1>0, <1>7, FinishEffect
  <2>2. pc'[r] \in {"done", "settling", "refunding"} /\ redis[p].initialized
    BY <1>0, <1>a, <2>1
  <2>3. redis'[p].initialized
    BY <2>1, <2>2
  <2>4. QED
    BY <2>2, <2>3
<1>8. Goal
  BY <1>1, <1>2, <1>3, <1>4, <1>5, <1>6, <1>7 DEF CalmStep
<1>9. ASSUME NEW s \in Requests
      PROVE  /\ p \in held'[s] => redis'[p].initialized
             /\ pc'[s] \notin Unused => redis'[p].initialized
             /\ pc'[s] = "reserve" /\ Current(s)' = p /\ ~redis'[p].initialized =>
                   seed'[s].used = 0 /\ seed'[s].reserved = 0
  <2>1. CASE s = r
    BY <1>8, <2>1 DEF Current
  <2>2. CASE s # r
    <3>1. pc'[s] = pc[s] /\ at'[s] = at[s] /\ held'[s] = held[s] /\ seed'[s] = seed[s]
      BY <2>2, CalmLocal DEF Same
    <3>2. QED
      BY <1>8, <3>1 DEF SeededFirst, Current
  <2>3. QED
    BY <2>1, <2>2
<1>10. ~redis'[p].initialized =>
          /\ redis'[p].used = 0 /\ redis'[p].reserved = 0
          /\ db'[p].used = 0 /\ db'[p].reserved = 0
  BY <1>8 DEF SeededFirst
<1>11. QED
  BY <1>9, <1>10 DEF SeededFirst

(* Every calm step keeps the lag exact, and the limit. *)
LEMMA LagStep ==
    ASSUME TypeOK, TypeOK', EventInv, NEW r \in Requests, CalmStep(r), faults' = faults,
           \A s \in Requests : Holding(s), \A q \in Policies : SeededFirst(q),
           NEW p \in Policies, Booked(p), Lag(p), WithinLimit(p)
    PROVE  Lag(p)' /\ WithinLimit(p)'
<1> DEFINE RA  == redis[p].reserved
           RU  == redis[p].used
           DA  == db[p].reserved
           DU  == db[p].used
           EA  == Estimated(Ahead(p))
           EB  == Estimated(Behind(p))
           CB  == Charged(Behind(p))
           e   == Estimate[r]
           OS  == OverrunSum
           inA == r \in Ahead(p)
           inB == r \in Behind(p)
           Goal == /\ RA' = DA' + EA' + EB'
                   /\ RU' = DU' - CB'
                   /\ DU' + DA' + EA' <= Limit[p] + OS'
<1>1. /\ RA = DA + EA + EB
      /\ RU = DU - CB
      /\ DU + DA + EA <= Limit[p] + OS
  BY DEF Lag, WithinLimit
<1>2. /\ RA \in Nat /\ RU \in Nat /\ DA \in Nat /\ DU \in Nat /\ e \in Nat /\ Limit[p] \in Nat
      /\ actual[r] \in Nat /\ actual'[r] \in Nat
  BY EstimateType, RedisAssumption, HashFields, RowFields DEF TypeOK
<1>3. Same(r, pc, pc') /\ Same(r, held, held') /\ Same(r, actual, actual')
  BY CalmLocal
<1>4. /\ EA' = EA - (IF inA THEN e ELSE 0) + (IF inA' THEN e ELSE 0)
      /\ EB' = EB - (IF inB THEN e ELSE 0) + (IF inB' THEN e ELSE 0)
      /\ CB' = CB - (IF inB THEN actual[r] ELSE 0) + (IF inB' THEN actual'[r] ELSE 0)
      /\ EA \in Nat /\ EB \in Nat /\ CB \in Nat
      /\ inA => EA - e \in Nat
      /\ inB => EB - e \in Nat
  BY <1>3, LagMove
<1>5. /\ OS \in Nat
      /\ OS' = OS - Clamp(actual[r] - e) + Clamp(actual'[r] - e)
  BY <1>3, OverrunMove
<1>6. actual'[r] = actual[r] => OS' = OS
  <2>1. Clamp(actual[r] - e) \in Nat
    BY <1>2, ClampType
  <2>2. QED
    BY <1>5, <2>1
<1>7. CB <= EB + OS
  BY ChargedCovered
<1>8. /\ inA <=> p \in held[r] /\ pc[r] \in AheadPcs
      /\ inA' <=> p \in held'[r] /\ pc'[r] \in AheadPcs
      /\ inB <=> p \in held[r] /\ pc[r] \in {"settling", "refunding"}
      /\ inB' <=> p \in held'[r] /\ pc'[r] \in {"settling", "refunding"}
  BY DEF Ahead, Behind, AheadPcs
<1>9. /\ DOMAIN pc = Requests /\ DOMAIN at = Requests /\ DOMAIN held = Requests
  BY DEF TypeOK
<1>10. Holding(r)
  OBVIOUS
<1> HIDE DEF RA, RU, DA, DU, EA, EB, CB, e, OS, inA, inB
\* A step that moves no request and leaves this counter alone.
<1>11. ASSUME inA' <=> inA, inB' <=> inB, actual'[r] = actual[r],
              RA' = RA, RU' = RU, DA' = DA, DU' = DU
       PROVE  Goal
  <2>1. EA' = EA /\ EB' = EB /\ CB' = CB /\ OS' = OS
    BY <1>2, <1>4, <1>6, <1>11
  <2>2. QED
    BY <1>1, <1>11, <2>1
<1>12. ASSUME ReadSeed(r) PROVE Goal
  <2>1. pc[r] = "seed" /\ pc'[r] = "reserve" /\ UNCHANGED <<held, actual, redis, db>>
    BY <1>9, <1>12 DEF ReadSeed
  <2>2. /\ (inA' <=> inA) /\ (inB' <=> inB) /\ actual'[r] = actual[r]
        /\ RA' = RA /\ RU' = RU /\ DA' = DA /\ DU' = DU
    BY <1>8, <2>1 DEF AheadPcs, RA, RU, DA, DU
  <2>3. QED
    BY <1>11, <2>2
<1>13. ASSUME UndoDone(r) PROVE Goal
  <2>1. held[r] = {} /\ UNCHANGED <<held, actual, redis, db>>
    BY <1>13 DEF UndoDone
  <2>2. /\ (inA' <=> inA) /\ (inB' <=> inB) /\ actual'[r] = actual[r]
        /\ RA' = RA /\ RU' = RU /\ DA' = DA /\ DU' = DU
    BY <1>8, <2>1 DEF RA, RU, DA, DU
  <2>3. QED
    BY <1>11, <2>2
<1>14. ASSUME RedisReserve(r) PROVE Goal
  <2>1. PICK c \in Policies :
            /\ c \notin held[r]
            /\ \A q \in Policies \ {c} : redis'[q] = redis[q]
            /\ redis'[c].used = redis[c].used
            /\ \/ /\ redis'[c].reserved = redis[c].reserved + Estimate[r]
                  /\ redis[c].used + redis[c].reserved + Estimate[r] <= Limit[c]
                  /\ held' = [held EXCEPT ![r] = held[r] \cup {c}]
                  /\ pc' = [pc EXCEPT ![r] = IF at[r] = Len(Order) THEN "mirror" ELSE "seed"]
               \/ /\ redis'[c].reserved = redis[c].reserved
                  /\ held' = held
                  /\ pc' = [pc EXCEPT ![r] = "undo_deny"]
    BY <1>10, <1>14, ReserveEffect
  <2>2. pc[r] = "reserve" /\ UNCHANGED <<actual, db>>
    BY <1>14 DEF RedisReserve
  <2>3. pc'[r] \in {"mirror", "seed", "undo_deny"}
    BY <1>9, <2>1
  <2>4. DA' = DA /\ DU' = DU /\ actual'[r] = actual[r] /\ ~inB /\ ~inB'
    BY <1>8, <2>2, <2>3 DEF DA, DU
  <2>5. CASE p # c
    <3>1. (p \in held'[r] <=> p \in held[r]) /\ redis'[p] = redis[p]
      BY <1>9, <2>1, <2>5
    <3>2. (inA' <=> inA) /\ RA' = RA /\ RU' = RU
      BY <1>8, <2>2, <2>3, <3>1 DEF AheadPcs, RA, RU
    <3>3. QED
      BY <1>11, <2>4, <3>2
  <2>6. CASE p = c /\ held' = held
    <3>1. RA' = RA /\ RU' = RU
      <4>1. held' # [held EXCEPT ![r] = held[r] \cup {c}]
        BY <1>9, <2>1, <2>6
      <4>2. QED
        BY <2>1, <2>6, <4>1 DEF RA, RU
    <3>2. inA' <=> inA
      BY <1>8, <2>1, <2>6
    <3>3. QED
      BY <1>11, <2>4, <3>1, <3>2
  <2>7. CASE p = c /\ held' # held
    <3>1. /\ RA' = RA + e /\ RU' = RU /\ RU + RA + e <= Limit[p]
          /\ held'[r] = held[r] \cup {c}
      BY <1>9, <2>1, <2>7 DEF RA, RU, e
    <3>2. ~inA /\ inA'
      BY <1>8, <1>9, <2>1, <2>3, <2>7, <3>1 DEF AheadPcs
    <3>3. EA' = EA + e /\ EB' = EB /\ CB' = CB /\ OS' = OS
      BY <1>2, <1>4, <1>6, <2>4, <3>2
    <3>4. QED
      BY <1>1, <1>2, <1>4, <1>5, <1>7, <2>4, <3>1, <3>3
  <2>8. QED
    BY <2>5, <2>6, <2>7
<1>15. ASSUME UndoRedis(r) PROVE Goal
  <2>1. PICK c \in Policies :
            /\ c \in held[r] /\ pc[r] \in {"undo_deny", "undo_fallback"}
            /\ held' = [held EXCEPT ![r] = held[r] \ {c}]
            /\ \A q \in Policies \ {c} : redis'[q] = redis[q]
            /\ redis'[c].used = redis[c].used
            /\ redis'[c].reserved = Clamp(redis[c].reserved - Estimate[r])
            /\ UNCHANGED <<pc, actual, db>>
    BY <1>15, UndoEffect
  <2>2. held'[r] = held[r] \ {c}
    BY <1>9, <2>1
  <2>3. DA' = DA /\ DU' = DU /\ actual'[r] = actual[r] /\ ~inB /\ ~inB'
    BY <1>8, <2>1 DEF DA, DU
  <2>4. CASE p # c
    <3>1. (inA' <=> inA) /\ RA' = RA /\ RU' = RU
      BY <1>8, <2>1, <2>2, <2>4 DEF RA, RU
    <3>2. QED
      BY <1>11, <2>3, <3>1
  <2>5. CASE p = c
    <3>1. RA' = Clamp(RA - e) /\ RU' = RU
      BY <2>1, <2>5 DEF RA, RU, e
    <3>2. inA /\ ~inA'
      BY <1>8, <2>1, <2>2, <2>5 DEF AheadPcs
    <3>3. EA' = EA - e /\ EB' = EB /\ CB' = CB /\ OS' = OS /\ EA - e \in Nat
      BY <1>2, <1>4, <1>6, <2>3, <3>2
    <3>4. RA - e \in Nat
      BY <1>1, <1>2, <1>4, <3>3
    <3>5. RA' = RA - e
      BY <3>1, <3>4, ClampType
    <3>6. QED
      BY <1>1, <1>2, <1>4, <1>5, <2>3, <3>1, <3>3, <3>5
  <2>6. QED
    BY <2>4, <2>5
<1>16. ASSUME MirrorReservation(r) PROVE Goal
  <2>1. pc[r] = "mirror" /\ pc'[r] = "running" /\ UNCHANGED <<held, actual, redis>> /\ AddToRows(r)
    BY <1>9, <1>16 DEF MirrorReservation
  <2>2. DA' = DA + e /\ DU' = DU
    BY <2>1, AddRows DEF DA, DU, e
  <2>3. held[r] = Policies
    BY <1>10, <2>1 DEF Holding
  <2>4. inA /\ ~inA' /\ ~inB /\ ~inB'
    BY <1>8, <2>1, <2>3 DEF AheadPcs
  <2>5. RA' = RA /\ RU' = RU /\ actual'[r] = actual[r]
    BY <2>1 DEF RA, RU
  <2>6. EA' = EA - e /\ EB' = EB /\ CB' = CB /\ OS' = OS
    BY <1>2, <1>4, <1>6, <2>4, <2>5
  <2>7. QED
    BY <1>1, <1>2, <1>4, <1>5, <2>2, <2>5, <2>6
<1>17. ASSUME SettleRows(r) \/ RefundRows(r) PROVE Goal
  <2>1. PICK n \in Nat :
            /\ pc[r] = "running" /\ actual[r] = 0
            /\ ReleaseRows(r, n)
            /\ pc'[r] \in {"settling", "refunding"} /\ held'[r] = Policies
            /\ actual'[r] = n
            /\ \/ CloseEvents(r, "settled") /\ actual' = [actual EXCEPT ![r] = n]
               \/ CloseEvents(r, "refunded") /\ actual' = actual /\ n = 0
            /\ UNCHANGED redis
    BY <1>10, <1>17, CloseEffect
  <2>2. DA - e \in Nat
    BY <2>1, BookedRelease DEF DA, e
  <2>3. DU' = DU + n /\ DA' = Clamp(DA - e)
    BY <2>1, ReleasedRows DEF DU, DA, e
  <2>4. DA' = DA - e
    BY <2>2, <2>3, ClampType
  <2>5. ~inA /\ ~inA' /\ ~inB /\ inB'
    BY <1>8, <2>1 DEF AheadPcs
  <2>6. EA' = EA /\ EB' = EB + e /\ CB' = CB + n
    BY <1>2, <1>4, <2>1, <2>5
  <2>7. RA' = RA /\ RU' = RU
    BY <2>1 DEF RA, RU
  <2>8. OS' = OS + Clamp(n - e)
    <3>1. Clamp(actual[r] - e) = 0
      BY <1>2, <2>1 DEF Clamp
    <3>2. Clamp(actual'[r] - e) = Clamp(n - e)
      BY <2>1
    <3>3. Clamp(n - e) \in Nat
      BY <1>2, <2>1, ClampType
    <3>4. QED
      BY <1>5, <3>1, <3>2, <3>3
  <2>9. n - e <= Clamp(n - e) /\ Clamp(n - e) \in Nat
    BY <1>2, <2>1 DEF Clamp
  <2>10. QED
    BY <1>1, <1>2, <1>4, <1>5, <2>1, <2>3, <2>4, <2>6, <2>7, <2>8, <2>9
<1>18. ASSUME FinishRedis(r) PROVE Goal
  <2>1. PICK c \in Policies :
            /\ c \in held[r] /\ pc[r] \in {"settling", "refunding"}
            /\ held' = [held EXCEPT ![r] = held[r] \ {c}]
            /\ pc' = [pc EXCEPT ![r] = IF held[r] = {c} THEN "done" ELSE pc[r]]
            /\ \A q \in Policies \ {c} : redis'[q] = redis[q]
            /\ redis'[c].used = redis[c].used + actual[r]
            /\ redis'[c].reserved = Clamp(redis[c].reserved - Estimate[r])
            /\ UNCHANGED <<actual, db>>
    BY <1>10, <1>18, FinishEffect
  <2>2. held'[r] = held[r] \ {c} /\ pc'[r] = IF held[r] = {c} THEN "done" ELSE pc[r]
    BY <1>9, <2>1
  <2>3. DA' = DA /\ DU' = DU /\ actual'[r] = actual[r] /\ ~inA /\ ~inA'
    BY <1>8, <2>1, <2>2 DEF DA, DU, AheadPcs
  <2>4. CASE p # c
    <3>1. RA' = RA /\ RU' = RU
      BY <2>1, <2>4 DEF RA, RU
    <3>2. inB' <=> inB
      BY <1>8, <2>1, <2>2, <2>4
    <3>3. QED
      BY <1>11, <2>3, <3>1, <3>2
  <2>5. CASE p = c
    <3>1. RA' = Clamp(RA - e) /\ RU' = RU + actual[r]
      BY <2>1, <2>5 DEF RA, RU, e
    <3>2. inB /\ ~inB'
      BY <1>8, <2>1, <2>2, <2>5
    <3>3. EA' = EA /\ EB' = EB - e /\ CB' = CB - actual[r] /\ OS' = OS /\ EB - e \in Nat
      BY <1>2, <1>4, <1>6, <2>3, <3>2
    <3>4. RA - e \in Nat
      BY <1>1, <1>2, <1>4, <3>3
    <3>5. RA' = RA - e
      BY <3>1, <3>4, ClampType
    <3>6. QED
      BY <1>1, <1>2, <1>4, <1>5, <2>3, <3>1, <3>3, <3>5
  <2>6. QED
    BY <2>4, <2>5
<1>19. Goal
  BY <1>12, <1>13, <1>14, <1>15, <1>16, <1>17, <1>18 DEF CalmStep
<1>20. QED
  BY <1>19 DEF Lag, WithinLimit, RA, RU, DA, DU, EA, EB, CB, OS

(* What holds until the first fault holds at the start. *)
LEMMA InitCalmInv == Init => CalmInv
<1> SUFFICES ASSUME Init PROVE CalmInv
  OBVIOUS
<1>1. IInv
  BY InitIInv
<1>2. ASSUME NEW r \in Requests PROVE Holding(r)
  <2>1. {Order[i] : i \in 1 .. 1 - 1} = {}
    OBVIOUS
  <2>2. QED
    BY <2>1 DEF Init, Holding
<1>3. ASSUME NEW p \in Policies PROVE SeededFirst(p) /\ Lag(p) /\ WithinLimit(p)
  <2>1. /\ redis[p].used = 0 /\ redis[p].reserved = 0 /\ db[p].used = 0 /\ db[p].reserved = 0
    BY DEF Init, NoHash, Row, NoRow
  <2>2. SeededFirst(p)
    BY <2>1 DEF Init, SeededFirst, NoRow
  <2>3. Ahead(p) = {} /\ Behind(p) = {}
    BY DEF Init, Ahead, Behind
  <2>4. Estimated(Ahead(p)) = 0 /\ Estimated(Behind(p)) = 0 /\ Charged(Behind(p)) = 0
    BY <2>3, TotalEmpty DEF Estimated, Charged
  <2>5. OverrunSum \in Nat
    <3> DEFINE v == [s \in Requests |-> Overrun(s)]
    <3>1. \A s \in Requests : v[s] \in Nat
      <4>1. ASSUME NEW s \in Requests PROVE actual[s] - Estimate[s] \in Int
        BY <1>1, EstimateType DEF IInv, TypeOK
      <4>2. QED
        BY <4>1, ClampType DEF Overrun
    <3> HIDE DEF v
    <3>2. Total(Requests, v) \in Nat
      BY <3>1, TotalType, RedisAssumption
    <3>3. QED
      BY <3>2 DEF v, OverrunSum
  <2>6. Limit[p] \in Nat
    BY RedisAssumption
  <2>7. QED
    BY <2>1, <2>2, <2>4, <2>5, <2>6 DEF Lag, WithinLimit
<1>4. pending = {}
  BY DEF Init
<1>5. QED
  BY <1>2, <1>3, <1>4 DEF CalmInv

(* Every step keeps it, or is a fault. *)
LEMMA StepCalmInv == IInv /\ CalmInv /\ [Next]_vars => CalmInv'
<1> SUFFICES ASSUME IInv, CalmInv, [Next]_vars, Undisturbed'
             PROVE  /\ pending' = {}
                    /\ \A s \in Requests : Holding(s)'
                    /\ \A p \in Policies : SeededFirst(p)' /\ Lag(p)' /\ WithinLimit(p)'
  BY DEF CalmInv
<1>1. /\ Undisturbed /\ faults' = faults /\ pending' = {}
      /\ UNCHANGED vars \/ \E r \in Requests : CalmStep(r)
  BY CalmNext
<1>2. TypeOK /\ TypeOK' /\ EventInv
  BY StepIInv DEF IInv
<1>3. /\ \A s \in Requests : Holding(s)
      /\ \A p \in Policies : SeededFirst(p) /\ Lag(p) /\ WithinLimit(p)
  BY <1>1 DEF CalmInv
<1>4. ASSUME NEW p \in Policies PROVE Booked(p)
  BY <1>1 DEF IInv, RowsKept, Undisturbed, RowsExact, Booked, OpenSet, SettledSet
<1>5. CASE UNCHANGED vars
  BY <1>1, <1>3, <1>5 DEF vars, request, Holding, SeededFirst, Lag, WithinLimit, Current, Ahead,
                         Behind, Estimated, Charged, OverrunSum, Overrun
<1>6. ASSUME NEW r \in Requests, CalmStep(r)
      PROVE  /\ \A s \in Requests : Holding(s)'
             /\ \A p \in Policies : SeededFirst(p)' /\ Lag(p)' /\ WithinLimit(p)'
  <2>1. ASSUME NEW s \in Requests PROVE Holding(s)'
    BY <1>1, <1>2, <1>3, <1>6, HoldingStep
  <2>2. ASSUME NEW p \in Policies PROVE SeededFirst(p)'
    BY <1>1, <1>2, <1>3, <1>6, SeededStep
  <2>3. ASSUME NEW p \in Policies PROVE Lag(p)' /\ WithinLimit(p)'
    BY <1>1, <1>2, <1>3, <1>4, <1>6, LagStep
  <2>4. QED
    BY <2>1, <2>2, <2>3
<1>7. QED
  BY <1>1, <1>5, <1>6

(* What the requests hold in Redis, the seeding of the keys and the two    *)
(* properties below hold until the first fault, where no reconciler runs.  *)
THEOREM CalmInductive == Spec => []CalmInv
<1>1. Init => CalmInv
  BY InitCalmInv
<1>2. IInv /\ CalmInv /\ [Next]_vars => CalmInv'
  BY StepCalmInv
<1>3. QED
  BY <1>1, <1>2, Inductive, PTL DEF Spec

(* Redis and the rows differ exactly by the requests between the two       *)
(* writes: every script and its transaction do the same arithmetic.        *)
THEOREM LagExact == Spec => []MirrorLag
<1>1. CalmInv => MirrorLag
  BY DEF CalmInv, MirrorLag, Lag
<1>2. QED
  BY <1>1, CalmInductive, PTL

(* What Redis admitted stays within the limit up to usage beyond the       *)
(* estimates, although the mirror transaction checks nothing.              *)
THEOREM AdmissionsWithinLimit == Spec => []AdmittedWithinLimit
<1>1. CalmInv => AdmittedWithinLimit
  BY DEF CalmInv, AdmittedWithinLimit, WithinLimit, OverrunSum
<1>2. QED
  BY <1>1, CalmInductive, PTL
=============================================================================
