--------------------- MODULE EnterpriseQuotaCounterProofs ---------------------
(***************************************************************************)
(* Proofs for EnterpriseQuotaCounter, for any number of requests and       *)
(* policies, any limits, estimates and actual usages.                      *)
(***************************************************************************)
EXTENDS EnterpriseQuotaCounter, FiniteSetTheorems, TLAPS

-----------------------------------------------------------------------------
(***************************************************************************)
(* Totals (QuotaTotals): what a total is worth, and how it changes with    *)
(* one of its holders.                                                     *)
(***************************************************************************)

(* natural number.                                                         *)
LEMMA TotalType ==
    ASSUME NEW S, IsFiniteSet(S), NEW v, \A s \in S : v[s] \in Nat
    PROVE  IsFiniteSet(Units(S, v)) /\ Total(S, v) \in Nat
<1> DEFINE f == [s \in S |-> {s} \X (1 .. v[s])]
           T == {{s} \X (1 .. v[s]) : s \in S}
<1>1. ASSUME NEW s \in S PROVE IsFiniteSet({s} \X (1 .. v[s]))
  <2>1. IsFiniteSet(1 .. v[s])
    BY FS_Interval
  <2>2. IsFiniteSet({s})
    BY FS_Singleton
  <2>3. QED
    BY <2>1, <2>2, FS_Product
<1>2. f \in Surjection(S, T)
  BY DEF Surjection
<1>3. IsFiniteSet(T)
  BY <1>2, FS_Surjection
<1>4. IsFiniteSet(Units(S, v))
  <2>1. \A U \in T : IsFiniteSet(U)
    BY <1>1
  <2>2. IsFiniteSet(UNION T)
    BY <1>3, <2>1, FS_UNION
  <2>3. QED
    BY <2>2 DEF Units
<1> QED
  BY <1>4, FS_CardinalityType DEF Total

(* A total only depends on the amounts of its own holders.                 *)
LEMMA TotalSame ==
    ASSUME NEW S, NEW v, NEW w, \A s \in S : v[s] = w[s]
    PROVE  Total(S, v) = Total(S, w)
<1>1. Units(S, v) = Units(S, w)
  BY DEF Units
<1> QED
  BY <1>1 DEF Total

(* One holder contributes exactly its own amount.                          *)
LEMMA TotalOne ==
    ASSUME NEW s, NEW v, v[s] \in Nat
    PROVE  Total({s}, v) = v[s]
<1> DEFINE B == 1 .. v[s]
<1>0. v[s] \in Int /\ v[s] >= 0
  OBVIOUS
<1>1. IsFiniteSet(B) /\ Cardinality(B) = v[s]
  <2>1. 1 \in Int
    OBVIOUS
  <2>2. Cardinality(B) = IF 1 > v[s] THEN 0 ELSE v[s] - 1 + 1
    BY <1>0, <2>1, FS_Interval
  <2>3. IsFiniteSet(B)
    BY <1>0, <2>1, FS_Interval
  <2>4. (IF 1 > v[s] THEN 0 ELSE v[s] - 1 + 1) = v[s]
    BY <1>0
  <2> QED
    BY <2>2, <2>3, <2>4
<1>2. Units({s}, v) = {s} \X B
  BY DEF Units
<1>3. IsFiniteSet({s}) /\ Cardinality({s}) = 1
  BY FS_Singleton
<1>4. Cardinality({s} \X B) = 1 * v[s]
  BY <1>1, <1>3, FS_Product, ZenonT(30)
<1>5. 1 * v[s] = v[s]
  BY <1>0
<1> QED
  BY <1>2, <1>4, <1>5 DEF Total

(* A holder that joins adds its amount: what admitting a reservation does. *)
LEMMA TotalAdd ==
    ASSUME NEW S, IsFiniteSet(S), NEW s, s \notin S, NEW v,
           \A t \in S \cup {s} : v[t] \in Nat
    PROVE  Total(S \cup {s}, v) = Total(S, v) + v[s]
<1>1. Units(S \cup {s}, v) = Units(S, v) \cup Units({s}, v)
  BY DEF Units
<1>2. Units(S, v) \cap Units({s}, v) = {}
  BY DEF Units
<1>3. IsFiniteSet({s})
  BY FS_Singleton
<1>4. IsFiniteSet(Units(S, v)) /\ IsFiniteSet(Units({s}, v))
  BY <1>3, TotalType
<1>5. /\ Total(S, v) \in Nat
      /\ Total({s}, v) = v[s]
  BY TotalType, TotalOne
<1>6. Cardinality(Units(S, v) \cup Units({s}, v))
        = Cardinality(Units(S, v)) + Cardinality(Units({s}, v)) - 0
  <2>1. Cardinality(Units(S, v) \cup Units({s}, v))
          = Cardinality(Units(S, v)) + Cardinality(Units({s}, v))
              - Cardinality(Units(S, v) \cap Units({s}, v))
    BY <1>4, FS_Union
  <2>2. Cardinality(Units(S, v) \cap Units({s}, v)) = 0
    BY <1>2, FS_EmptySet
  <2>3. QED
    BY <2>1, <2>2
<1>7. Total(S \cup {s}, v) = Total(S, v) + Total({s}, v) - 0
  BY <1>1, <1>6 DEF Total
<1>8. v[s] \in Int
  OBVIOUS
<1> QED
  BY <1>5, <1>7, <1>8

(* closing a reservation does.                                             *)
LEMMA TotalRemove ==
    ASSUME NEW S, IsFiniteSet(S), NEW s \in S, NEW v,
           \A t \in S : v[t] \in Nat
    PROVE  /\ Total(S \ {s}, v) = Total(S, v) - v[s]
           /\ Total(S \ {s}, v) \in Nat
<1>1. IsFiniteSet(S \ {s})
  BY FS_RemoveElement
<1>2. S = (S \ {s}) \cup {s}
  OBVIOUS
<1>3. Total((S \ {s}) \cup {s}, v) = Total(S \ {s}, v) + v[s]
  BY <1>1, TotalAdd
<1>4. Total(S \ {s}, v) \in Nat
  BY <1>1, TotalType
<1>5. v[s] \in Int /\ Total(S, v) \in Nat
  BY TotalType
<1>6. Total(S, v) = Total(S \ {s}, v) + v[s]
  BY <1>2, <1>3
<1> QED
  BY <1>4, <1>5, <1>6

(* what one request does to the sums over all requests.                    *)
LEMMA TotalUpdate ==
    ASSUME NEW S, IsFiniteSet(S), NEW s \in S, NEW v, NEW w,
           \A t \in S : v[t] \in Nat, w[s] \in Nat,
           \A t \in S \ {s} : v[t] = w[t]
    PROVE  /\ Total(S, w) = Total(S, v) - v[s] + w[s]
           /\ Total(S, v) - v[s] \in Nat
           /\ Total(S, v) \in Nat
           /\ Total(S, w) \in Nat
<1>1. /\ Total(S \ {s}, v) = Total(S, v) - v[s]
      /\ Total(S \ {s}, v) \in Nat
  BY TotalRemove
<1>2. Total(S \ {s}, w) = Total(S, w) - w[s]
  BY TotalRemove
<1>3. Total(S \ {s}, v) = Total(S \ {s}, w)
  BY TotalSame
<1>4. Total(S, v) \in Nat /\ Total(S, w) \in Nat
  BY TotalType
<1>5. v[s] \in Int /\ w[s] \in Int
  OBVIOUS
<1> QED
  BY <1>1, <1>2, <1>3, <1>4, <1>5

(* Holders that have nothing sum to nothing.                               *)
LEMMA TotalZero ==
    ASSUME NEW S, NEW v, \A s \in S : v[s] = 0
    PROVE  Total(S, v) = 0
<1>1. Units(S, v) = {}
  BY DEF Units
<1> QED
  BY <1>1, FS_EmptySet DEF Total

-----------------------------------------------------------------------------

USE QuotaAssumption

(* Every step keeps the types.                                             *)
LEMMA TypeStep == TypeOK /\ [Next]_vars => TypeOK'
<1> SUFFICES ASSUME TypeOK, [Next]_vars
             PROVE  TypeOK'
  OBVIOUS
<1> USE DEF TypeOK, Live, inputs, counters, events
<1>1. \A c \in Counters : c[1] \in Policies /\ c[2] \in Periods
  BY DEF Counters
<1>2. \A s \in Slots : s[1] \in Requests /\ s[2] \in Policies
  BY DEF Slots
<1>3. \A r \in Requests, p \in Policies : <<r, p>> \in Slots
  BY DEF Slots
<1>4. \A r \in Requests, p \in Policies : estimate[r][p] \in Nat
  OBVIOUS
<1>6. ASSUME NEW r \in Requests, NEW P, AddReservations(r, P)
      PROVE  /\ reservedValue' \in [Counters -> Nat]
             /\ status' \in [Slots -> Statuses]
             /\ amount' \in [Slots -> Nat]
             /\ counter' \in [Slots -> Counters]
  <2>1. \A c \in Counters : reservedValue[c] + estimate[r][c[1]] \in Nat
    <3>1. \A c \in Counters : reservedValue[c] \in Nat /\ estimate[r][c[1]] \in Nat
      BY <1>1, <1>4
    <3> QED
      BY <3>1
  <2>2. \A s \in Slots : <<s[2], period>> \in Counters /\ estimate[r][s[2]] \in Nat
    BY <1>2, <1>4 DEF Counters
  <2> QED
    BY <1>6, <2>1, <2>2 DEF AddReservations, Statuses
<1>7. ASSUME NEW r \in Requests, ReleaseReservation(r)
      PROVE  reservedValue' \in [Counters -> Nat]
  <2>1. \A c \in Counters : reservedValue[c] \in Nat /\ amount[<<r, c[1]>>] \in Nat
    BY <1>1, <1>3
  <2>2. \A c \in Counters : Clamp(reservedValue[c] - amount[<<r, c[1]>>]) \in Nat
    BY <2>1 DEF Clamp
  <2> QED
    BY <1>7, <2>2 DEF ReleaseReservation
<1>8. ASSUME NEW r \in Requests, NEW st \in Statuses, CloseEvents(r, st)
      PROVE  status' \in [Slots -> Statuses]
  BY <1>8 DEF CloseEvents
<1>9. CASE UNCHANGED vars
  BY <1>9 DEF vars
<1>10. ASSUME NEW r \in Requests, ReserveEnterpriseQuota(r)
       PROVE  TypeOK'
  <2>1. \A c \in Counters : limit[c[1]] \in Nat
    BY <1>1
  <2> QED
    BY <1>10, <1>6, <2>1 DEF ReserveEnterpriseQuota
<1>11. ASSUME NEW r \in Requests, DenyEnterpriseQuota(r)
       PROVE  TypeOK'
  BY <1>11 DEF DenyEnterpriseQuota
<1>12. ASSUME NEW r \in Requests, ReserveEnterpriseQuotaObservation(r)
       PROVE  TypeOK'
  BY <1>12, <1>6 DEF ReserveEnterpriseQuotaObservation
<1>13. ASSUME NEW r \in Requests, ObservationFails(r)
       PROVE  TypeOK'
  BY <1>13 DEF ObservationFails
<1>14. ASSUME NEW r \in Requests, SettleEnterpriseReservation(r)
       PROVE  TypeOK'
  <2>1. PICK actual \in Actuals :
          /\ ReleaseReservation(r)
          /\ usedValue' = [c \in Counters |->
                IF Holds(r, c) THEN usedValue[c] + ActualValue(r, c[1], actual)
                               ELSE usedValue[c]]
          /\ charged' = [s \in Slots |->
                IF s[1] = r /\ status[s] # "none"
                THEN ActualValue(r, s[2], actual) ELSE charged[s]]
          /\ CloseEvents(r, "settled")
          /\ pc' = [pc EXCEPT ![r] = "settled"]
          /\ UNCHANGED <<inputs, peak, amount, counter>>
    BY <1>14 DEF SettleEnterpriseReservation
  <2>2. \A p \in Policies : ActualValue(r, p, actual) \in Nat
    BY <1>3 DEF ActualValue
  <2>3. usedValue' \in [Counters -> Nat]
    BY <2>1, <2>2, <1>1
  <2>4. charged' \in [Slots -> Nat]
    BY <2>1, <2>2, <1>2
  <2> QED
    BY <2>1, <2>3, <2>4, <1>7, <1>8 DEF Statuses
<1>15. ASSUME NEW r \in Requests, RefundEnterpriseReservation(r)
       PROVE  TypeOK'
  BY <1>15, <1>7, <1>8 DEF RefundEnterpriseReservation, Statuses
<1>16. ASSUME NEW r \in Requests, FinishUnsettled(r)
       PROVE  TypeOK'
  BY <1>16 DEF FinishUnsettled
<1>17. ASSUME NEW r \in Requests, Crash(r)
       PROVE  TypeOK'
  BY <1>17 DEF Crash
<1>18. ASSUME NEW r \in Requests, NEW p \in Policies, CompensateReservationEvent(r, p)
       PROVE  TypeOK'
  <2>1. Clamp(reservedValue[counter[<<r, p>>]] - amount[<<r, p>>]) \in Nat
    <3>1. reservedValue[counter[<<r, p>>]] \in Nat /\ amount[<<r, p>>] \in Nat
      BY <1>3
    <3> QED
      BY <3>1 DEF Clamp
  <2>2. status' \in [Slots -> Statuses]
    BY <1>18, <1>3 DEF CompensateReservationEvent, Statuses
  <2> QED
    BY <1>18, <2>1, <2>2 DEF CompensateReservationEvent
<1>19. ASSUME NEW p \in Policies, EffectiveLimitChanges(p)
       PROVE  TypeOK'
  BY <1>19 DEF EffectiveLimitChanges
<1>20. CASE PeriodRolls
  BY <1>20 DEF PeriodRolls, Periods
<1>21. ASSUME NEW r \in Requests, NEW p \in Policies, MarkReservationFailed(r, p)
       PROVE  TypeOK'
  <2>1. status' \in [Slots -> Statuses]
    BY <1>21, <1>3 DEF MarkReservationFailed, Statuses
  <2> QED
    BY <1>21, <2>1 DEF MarkReservationFailed
<1> QED
  BY <1>9, <1>10, <1>11, <1>12, <1>13, <1>14, <1>15, <1>16, <1>17, <1>18, <1>19, <1>20, <1>21
     DEF Next

(* The type invariant of the counter rows, event rows and request states.  *)
THEOREM TypeCorrect == Spec => []TypeOK
<1>1. Init => TypeOK
  BY DEF Init, TypeOK, Periods, Counters, Slots, Statuses, Live
<1> QED
  BY <1>1, TypeStep, PTL DEF Spec

-----------------------------------------------------------------------------
(* How events follow their requests: which statuses an event may have in   *)
(* which state of the handler.  None of the sums below is inductive        *)
(* without it.                                                             *)
EventInv ==
    \A s \in Slots :
        /\ counter[s][1] = s[2]
        /\ status[s] = "none" => amount[s] = 0 /\ charged[s] = 0
        /\ charged[s] # 0 => pc[s[1]] = "settled"
        /\ pc[s[1]] \in {"idle", "denied"} => status[s] = "none"
        /\ pc[s[1]] = "reserved" /\ s[2] \notin Blocking => status[s] = "none"
        /\ status[s] = "reserved" => pc[s[1]] \notin {"settled", "refunded"}
        /\ status[s] \in {"settled", "refunded"} => pc[s[1]] \in {"settled", "refunded"}
        /\ status[s] = "compensated" /\ s[1] \notin LongRequests => pc[s[1]] \in {"leaked", "crashed"}

(* Every step keeps events and requests in line.                           *)
LEMMA EventStep == TypeOK /\ EventInv /\ [Next]_vars => EventInv'
<1> SUFFICES ASSUME TypeOK, EventInv, [Next]_vars
             PROVE  EventInv'
  OBVIOUS
<1> USE DEF TypeOK, EventInv, Live, inputs, counters, events
<1>1. \A s \in Slots : s[1] \in Requests /\ s[2] \in Policies /\ s = <<s[1], s[2]>>
  BY DEF Slots
<1>2. \A r \in Requests, p \in Policies : <<r, p>> \in Slots
  BY DEF Slots
<1>3. CASE UNCHANGED vars
  BY <1>3 DEF vars
<1>4. ASSUME NEW r \in Requests, ReserveEnterpriseQuota(r)
      PROVE  EventInv'
  BY <1>4, <1>1 DEF ReserveEnterpriseQuota, AddReservations, Creates, Reserves
<1>5. ASSUME NEW r \in Requests, DenyEnterpriseQuota(r)
      PROVE  EventInv'
  BY <1>5, <1>1 DEF DenyEnterpriseQuota
<1>6. ASSUME NEW r \in Requests, ReserveEnterpriseQuotaObservation(r)
      PROVE  EventInv'
  BY <1>6, <1>1 DEF ReserveEnterpriseQuotaObservation, AddReservations, Creates, Reserves
<1>7. ASSUME NEW r \in Requests, ObservationFails(r)
      PROVE  EventInv'
  BY <1>7, <1>1 DEF ObservationFails
<1>8. ASSUME NEW r \in Requests, SettleEnterpriseReservation(r)
      PROVE  EventInv'
  BY <1>8, <1>1 DEF SettleEnterpriseReservation, CloseEvents
<1>9. ASSUME NEW r \in Requests, RefundEnterpriseReservation(r)
      PROVE  EventInv'
  BY <1>9, <1>1 DEF RefundEnterpriseReservation, CloseEvents
<1>10. ASSUME NEW r \in Requests, FinishUnsettled(r)
       PROVE  EventInv'
  BY <1>10, <1>1 DEF FinishUnsettled
<1>11. ASSUME NEW r \in Requests, Crash(r)
       PROVE  EventInv'
  BY <1>11, <1>1 DEF Crash
<1>12. ASSUME NEW r \in Requests, NEW p \in Policies, CompensateReservationEvent(r, p)
       PROVE  EventInv'
  BY <1>12, <1>1, <1>2 DEF CompensateReservationEvent, Stale
<1>13. ASSUME NEW p \in Policies, EffectiveLimitChanges(p)
       PROVE  EventInv'
  BY <1>13 DEF EffectiveLimitChanges
<1>14. CASE PeriodRolls
  BY <1>14 DEF PeriodRolls
<1>15. ASSUME NEW r \in Requests, NEW p \in Policies, MarkReservationFailed(r, p)
       PROVE  EventInv'
  BY <1>15, <1>1, <1>2 DEF MarkReservationFailed
<1> QED
  BY <1>3, <1>4, <1>5, <1>6, <1>7, <1>8, <1>9, <1>10, <1>11, <1>12, <1>13, <1>14, <1>15 DEF Next

-----------------------------------------------------------------------------
(* There are finitely many events, so the sums are natural numbers.        *)
LEMMA SlotsFinite == IsFiniteSet(Slots)
BY FS_Product DEF Slots

(* The amounts of one event are quota amounts.                             *)
LEMMA AmountsType ==
    ASSUME TypeOK, NEW s \in Slots, NEW c \in Counters
    PROVE  /\ OpenAmount(s, c) \in Nat
           /\ ChargedAmount(s, c) \in Nat
           /\ OverrunAmount(s, c) \in Nat
           /\ TwiceAmount(s, c) \in Nat
<1>1. 0 \in Nat /\ amount[s] \in Nat /\ charged[s] \in Nat
  BY DEF TypeOK
<1>2. Clamp(charged[s] - amount[s]) \in Nat
  BY <1>1 DEF Clamp
<1> QED
  BY <1>1, <1>2 DEF OpenAmount, Open, ChargedAmount, OverrunAmount, TwiceAmount

(* Nothing but the events, their charges and the request states enters the *)
(* sums.                                                                   *)
LEMMA SumsFrame ==
    ASSUME UNCHANGED <<events, charged, pc>>, NEW c
    PROVE  /\ OpenOn(c)' = OpenOn(c)
           /\ ChargedOn(c)' = ChargedOn(c)
           /\ OverrunOn(c)' = OverrunOn(c)
           /\ ReleasedTwiceOn(c)' = ReleasedTwiceOn(c)
BY DEF events, OpenOn, ChargedOn, OverrunOn, ReleasedTwiceOn, OpenAmount, Open, ChargedAmount,
       OverrunAmount, TwiceAmount, On

(* A step of one request changes the sums of a counter by what it does to  *)
(* the one event that the request can have on that counter.                *)
LEMMA SumsStep ==
    ASSUME TypeOK, TypeOK', EventInv, EventInv',
           NEW r \in Requests, NEW c \in Counters,
           \A s \in Slots : s[1] # r =>
               /\ status'[s] = status[s]
               /\ amount'[s] = amount[s]
               /\ counter'[s] = counter[s]
               /\ charged'[s] = charged[s]
               /\ pc'[s[1]] = pc[s[1]]
    PROVE  LET s == <<r, c[1]>> IN
           /\ OpenOn(c)' = OpenOn(c) - OpenAmount(s, c) + OpenAmount(s, c)'
           /\ ChargedOn(c)' = ChargedOn(c) - ChargedAmount(s, c) + ChargedAmount(s, c)'
           /\ OverrunOn(c)' = OverrunOn(c) - OverrunAmount(s, c) + OverrunAmount(s, c)'
           /\ ReleasedTwiceOn(c)' = ReleasedTwiceOn(c) - TwiceAmount(s, c) + TwiceAmount(s, c)'
           /\ OpenOn(c) - OpenAmount(s, c) \in Nat
           /\ OpenOn(c) \in Nat /\ ChargedOn(c) \in Nat
           /\ OverrunOn(c) \in Nat /\ ReleasedTwiceOn(c) \in Nat
<1> DEFINE s == <<r, c[1]>>
           open == [t \in Slots |-> OpenAmount(t, c)]
           chg  == [t \in Slots |-> ChargedAmount(t, c)]
           over == [t \in Slots |-> OverrunAmount(t, c)]
           twice == [t \in Slots |-> TwiceAmount(t, c)]
<1>1. s \in Slots
  BY DEF Slots, Counters
<1>2. ASSUME NEW t \in Slots \ {s}
      PROVE  /\ OpenAmount(t, c)' = OpenAmount(t, c)
             /\ ChargedAmount(t, c)' = ChargedAmount(t, c)
             /\ OverrunAmount(t, c)' = OverrunAmount(t, c)
             /\ TwiceAmount(t, c)' = TwiceAmount(t, c)
  <2>1. CASE t[1] # r
    BY <2>1 DEF OpenAmount, Open, ChargedAmount, OverrunAmount, TwiceAmount, On
  <2>2. CASE t[1] = r
    <3>1. t[2] # c[1]
      BY <2>2 DEF Slots
    <3>2. ~On(t, c) /\ ~On(t, c)'
      BY <3>1 DEF EventInv, On
    <3> QED
      BY <3>2 DEF OpenAmount, Open, ChargedAmount, OverrunAmount, TwiceAmount
  <2> QED
    BY <2>1, <2>2
<1>3. /\ OpenAmount(s, c) \in Nat /\ OpenAmount(s, c)' \in Nat
      /\ ChargedAmount(s, c) \in Nat /\ ChargedAmount(s, c)' \in Nat
      /\ OverrunAmount(s, c) \in Nat /\ OverrunAmount(s, c)' \in Nat
      /\ TwiceAmount(s, c) \in Nat /\ TwiceAmount(s, c)' \in Nat
  <2>1. \A t \in Slots : amount'[t] \in Nat /\ charged'[t] \in Nat
    BY DEF TypeOK
  <2>2. Clamp(charged'[s] - amount'[s]) \in Nat
    BY <1>1, <2>1 DEF Clamp
  <2>3. 0 \in Nat
    OBVIOUS
  <2> QED
    BY <1>1, <2>1, <2>2, <2>3, AmountsType
       DEF OpenAmount, Open, ChargedAmount, OverrunAmount, TwiceAmount, On
<1>4. /\ Total(Slots, open') = Total(Slots, open) - open[s] + open'[s]
      /\ Total(Slots, open) - open[s] \in Nat
      /\ Total(Slots, open) \in Nat
  <2>1. \A t \in Slots \ {s} : open[t] = open'[t]
    BY <1>2
  <2>2. open'[s] \in Nat
    BY <1>1, <1>3
  <2>3. \A t \in Slots : open[t] \in Nat
    BY AmountsType
  <2> HIDE DEF open, s
  <2> QED
    BY <1>1, <2>1, <2>2, <2>3, SlotsFinite, TotalUpdate
<1>5. /\ Total(Slots, chg') = Total(Slots, chg) - chg[s] + chg'[s]
      /\ Total(Slots, chg) \in Nat
  <2>1. \A t \in Slots \ {s} : chg[t] = chg'[t]
    BY <1>2
  <2>2. chg'[s] \in Nat
    BY <1>1, <1>3
  <2>3. \A t \in Slots : chg[t] \in Nat
    BY AmountsType
  <2> HIDE DEF chg, s
  <2> QED
    BY <1>1, <2>1, <2>2, <2>3, SlotsFinite, TotalUpdate
<1>6. /\ Total(Slots, over') = Total(Slots, over) - over[s] + over'[s]
      /\ Total(Slots, over) \in Nat
  <2>1. \A t \in Slots \ {s} : over[t] = over'[t]
    BY <1>2
  <2>2. over'[s] \in Nat
    BY <1>1, <1>3
  <2>3. \A t \in Slots : over[t] \in Nat
    BY AmountsType
  <2> HIDE DEF over, s
  <2> QED
    BY <1>1, <2>1, <2>2, <2>3, SlotsFinite, TotalUpdate
<1>7. /\ Total(Slots, twice') = Total(Slots, twice) - twice[s] + twice'[s]
      /\ Total(Slots, twice) \in Nat
  <2>1. \A t \in Slots \ {s} : twice[t] = twice'[t]
    BY <1>2
  <2>2. twice'[s] \in Nat
    BY <1>1, <1>3
  <2>3. \A t \in Slots : twice[t] \in Nat
    BY AmountsType
  <2> HIDE DEF twice, s
  <2> QED
    BY <1>1, <2>1, <2>2, <2>3, SlotsFinite, TotalUpdate
<1> QED
  BY <1>1, <1>4, <1>5, <1>6, <1>7 DEF OpenOn, ChargedOn, OverrunOn, ReleasedTwiceOn

-----------------------------------------------------------------------------
(* The books of one counter row: the row against the sums over its events. *)
Books(c) ==
    /\ reservedValue[c] <= OpenOn(c)
    /\ OpenOn(c) <= reservedValue[c] + ReleasedTwiceOn(c)
    /\ usedValue[c] = ChargedOn(c)
    /\ c[1] \in Blocking =>
          usedValue[c] + OpenOn(c) <= peak[c] + OverrunOn(c) + ReleasedTwiceOn(c)

IInv == TypeOK /\ EventInv /\ \A c \in Counters : Books(c)

(* The sums are zero before the first request.                             *)
LEMMA IInvInit == Init => IInv
<1> SUFFICES ASSUME Init
             PROVE  IInv
  OBVIOUS
<1>1. TypeOK
  BY DEF Init, TypeOK, Periods, Counters, Slots, Statuses, Live
<1>2. EventInv
  BY DEF Init, EventInv, Slots
<1>3. ASSUME NEW c \in Counters
      PROVE  Books(c)
  <2>1. \A s \in Slots : /\ OpenAmount(s, c) = 0
                        /\ ChargedAmount(s, c) = 0
                        /\ OverrunAmount(s, c) = 0
                        /\ TwiceAmount(s, c) = 0
    BY DEF Init, OpenAmount, Open, ChargedAmount, OverrunAmount, TwiceAmount, Clamp
  <2>2. OpenOn(c) = 0 /\ ChargedOn(c) = 0 /\ OverrunOn(c) = 0 /\ ReleasedTwiceOn(c) = 0
    BY <2>1, TotalZero DEF OpenOn, ChargedOn, OverrunOn, ReleasedTwiceOn
  <2> QED
    BY <2>2 DEF Books, Init
<1> QED
  BY <1>1, <1>2, <1>3 DEF IInv

(* Admitting a reservation keeps the books: the limit check looks at the   *)
(* row, and the row is short only by what was released twice.              *)
LEMMA BooksReserve ==
    ASSUME IInv, TypeOK', EventInv', NEW r \in Requests, NEW c \in Counters,
           \/ ReserveEnterpriseQuota(r)
           \/ ReserveEnterpriseQuotaObservation(r)
    PROVE  Books(c)'
<1> DEFINE s == <<r, c[1]>>
           P == IF pc[r] = "idle" THEN Blocking ELSE Policies \ Blocking
<1> USE DEF IInv, inputs, counters, events
<1>1. s \in Slots /\ c[1] \in Policies /\ c = <<c[1], c[2]>>
  BY DEF Slots, Counters
<1>2. AddReservations(r, P) /\ UNCHANGED <<usedValue, charged, period, estimate, limit>>
  BY DEF ReserveEnterpriseQuota, ReserveEnterpriseQuotaObservation
<1>3. pc[r] \in {"idle", "reserved"} /\ pc'[r] \in {"reserved", "running"}
  BY DEF ReserveEnterpriseQuota, ReserveEnterpriseQuotaObservation, TypeOK
<1>4. c[1] \in P => status[s] = "none"
  BY <1>1, <1>3 DEF EventInv
<1>5. \A t \in Slots : t[1] # r =>
        /\ status'[t] = status[t]
        /\ amount'[t] = amount[t]
        /\ counter'[t] = counter[t]
        /\ charged'[t] = charged[t]
        /\ pc'[t[1]] = pc[t[1]]
  <2>1. \A q \in Requests : q # r => pc'[q] = pc[q]
    BY DEF ReserveEnterpriseQuota, ReserveEnterpriseQuotaObservation, TypeOK
  <2> QED
    BY <1>2, <2>1 DEF AddReservations, Creates, Slots
<1>6. /\ OpenOn(c)' = OpenOn(c) - OpenAmount(s, c) + OpenAmount(s, c)'
      /\ ChargedOn(c)' = ChargedOn(c) - ChargedAmount(s, c) + ChargedAmount(s, c)'
      /\ OverrunOn(c)' = OverrunOn(c) - OverrunAmount(s, c) + OverrunAmount(s, c)'
      /\ ReleasedTwiceOn(c)' = ReleasedTwiceOn(c) - TwiceAmount(s, c) + TwiceAmount(s, c)'
      /\ OpenOn(c) \in Nat /\ ChargedOn(c) \in Nat
      /\ OverrunOn(c) \in Nat /\ ReleasedTwiceOn(c) \in Nat
  BY <1>5, SumsStep
<1>7. /\ reservedValue[c] \in Nat /\ usedValue[c] \in Nat /\ peak[c] \in Nat
      /\ estimate[r][c[1]] \in Nat /\ limit[c[1]] \in Nat
  BY <1>1 DEF TypeOK
<1>8. Books(c) /\ usedValue'[c] = usedValue[c]
  BY <1>2
<1>9. CASE Reserves(r, P, c)
  <2>1. Creates(r, P, s) /\ c[1] \in P /\ c = <<c[1], period>>
    BY <1>1, <1>9 DEF Creates, Reserves
  <2>2. /\ OpenAmount(s, c) = 0 /\ OpenAmount(s, c)' = estimate[r][c[1]]
        /\ ChargedAmount(s, c) = 0 /\ ChargedAmount(s, c)' = 0
        /\ OverrunAmount(s, c) = 0 /\ OverrunAmount(s, c)' = 0
        /\ TwiceAmount(s, c) = 0 /\ TwiceAmount(s, c)' = 0
    <3>1. /\ status[s] = "none" /\ charged[s] = 0 /\ amount[s] = 0
          /\ status'[s] = "reserved" /\ charged'[s] = 0
          /\ amount'[s] = estimate[r][c[1]] /\ counter'[s] = c
      BY <1>1, <1>2, <1>4, <2>1 DEF AddReservations, EventInv
    <3>2. Clamp(0 - 0) = 0 /\ Clamp(0 - estimate[r][c[1]]) = 0
      BY <1>7 DEF Clamp
    <3> QED
      BY <1>3, <3>1, <3>2 DEF OpenAmount, Open, ChargedAmount, OverrunAmount, TwiceAmount, On
  <2>3. reservedValue'[c] = reservedValue[c] + estimate[r][c[1]]
    BY <1>2, <1>9 DEF AddReservations
  <2>4. c[1] \in Blocking =>
          /\ usedValue[c] + reservedValue[c] + estimate[r][c[1]] <= limit[c[1]]
          /\ limit[c[1]] <= peak'[c] /\ peak'[c] \in Nat
    <3>1. SUFFICES ASSUME c[1] \in Blocking
                   PROVE  /\ usedValue[c] + reservedValue[c] + estimate[r][c[1]] <= limit[c[1]]
                          /\ limit[c[1]] <= peak'[c] /\ peak'[c] \in Nat
      OBVIOUS
    <3>2. pc[r] = "idle" /\ P = Blocking /\ ReserveEnterpriseQuota(r)
      BY <2>1, <3>1 DEF ReserveEnterpriseQuotaObservation, ReserveEnterpriseQuota
    <3> QED
      BY <1>7, <1>9, <3>2 DEF ReserveEnterpriseQuota, WithinLimit
  <2> QED
    BY <1>6, <1>7, <1>8, <2>2, <2>3, <2>4 DEF Books
<1>10. CASE ~Reserves(r, P, c)
  <2>1. reservedValue'[c] = reservedValue[c]
    BY <1>2, <1>10 DEF AddReservations
  <2>2. peak'[c] = peak[c]
    <3>1. CASE ReserveEnterpriseQuota(r)
      BY <3>1, <1>10 DEF ReserveEnterpriseQuota, TypeOK
    <3>2. CASE ReserveEnterpriseQuotaObservation(r)
      BY <3>2 DEF ReserveEnterpriseQuotaObservation
    <3> QED
      BY <3>1, <3>2
  <2>3. /\ OpenAmount(s, c)' = OpenAmount(s, c)
        /\ ChargedAmount(s, c)' = ChargedAmount(s, c)
        /\ OverrunAmount(s, c)' = OverrunAmount(s, c)
        /\ TwiceAmount(s, c)' = TwiceAmount(s, c)
    <3>1. CASE Creates(r, P, s)
      <4>1. c[1] \in P /\ status[s] = "none" /\ charged'[s] = 0 /\ charged[s] = 0 /\ amount[s] = 0
        BY <1>1, <1>2, <1>4, <3>1 DEF Creates, Reserves, EventInv
      <4>2. counter'[s] = <<c[1], period>> /\ counter'[s] # c
        BY <1>1, <1>2, <1>10, <3>1 DEF AddReservations, Creates, Reserves
      <4>3. Clamp(0 - 0) = 0
        BY DEF Clamp
      <4> QED
        BY <4>1, <4>2, <4>3 DEF OpenAmount, Open, ChargedAmount, OverrunAmount, TwiceAmount, On
    <3>2. CASE ~Creates(r, P, s)
      <4>1. /\ status'[s] = status[s] /\ amount'[s] = amount[s]
            /\ counter'[s] = counter[s] /\ charged'[s] = charged[s]
        BY <1>1, <1>2, <3>2 DEF AddReservations
      <4>2. pc[s[1]] \notin {"settled", "refunded"} /\ pc'[s[1]] \notin {"settled", "refunded"}
        BY <1>3
      <4> QED
        BY <4>1, <4>2 DEF OpenAmount, Open, ChargedAmount, OverrunAmount, TwiceAmount, On
    <3> QED
      BY <3>1, <3>2
  <2>4. /\ OpenAmount(s, c) \in Int /\ ChargedAmount(s, c) \in Int
        /\ OverrunAmount(s, c) \in Int /\ TwiceAmount(s, c) \in Int
    BY <1>1, AmountsType
  <2> QED
    BY <1>6, <1>7, <1>8, <2>1, <2>2, <2>3, <2>4 DEF Books
<1> QED
  BY <1>9, <1>10

(* A settle or a refund keeps the books, whether the event is still open   *)
(* or was compensated before, and whatever the actual usage is.  Value is  *)
(* what the step charges: nothing for a refund.                            *)
LEMMA BooksRelease ==
    ASSUME IInv, TypeOK', EventInv', NEW r \in Requests, NEW c \in Counters,
           NEW value \in [Policies -> Nat], NEW newStatus \in {"settled", "refunded"},
           pc[r] \in {"running", "rollback"},
           ReleaseReservation(r), CloseEvents(r, newStatus),
           pc' = [pc EXCEPT ![r] = newStatus],
           UNCHANGED <<inputs, peak, amount, counter>>,
           \A d \in Counters : usedValue'[d] =
               IF Holds(r, d) THEN usedValue[d] + value[d[1]] ELSE usedValue[d],
           \A t \in Slots : charged'[t] =
               IF t[1] = r /\ status[t] # "none" THEN value[t[2]] ELSE charged[t]
    PROVE  Books(c)'
<1> DEFINE s == <<r, c[1]>>
<1> USE DEF IInv, inputs
<1>1. s \in Slots /\ c[1] \in Policies
  BY DEF Slots, Counters
<1>2. \A t \in Slots : t[1] # r =>
        /\ status'[t] = status[t]
        /\ amount'[t] = amount[t]
        /\ counter'[t] = counter[t]
        /\ charged'[t] = charged[t]
        /\ pc'[t[1]] = pc[t[1]]
  BY DEF CloseEvents, TypeOK, Slots
<1>3. /\ OpenOn(c)' = OpenOn(c) - OpenAmount(s, c) + OpenAmount(s, c)'
      /\ ChargedOn(c)' = ChargedOn(c) - ChargedAmount(s, c) + ChargedAmount(s, c)'
      /\ OverrunOn(c)' = OverrunOn(c) - OverrunAmount(s, c) + OverrunAmount(s, c)'
      /\ ReleasedTwiceOn(c)' = ReleasedTwiceOn(c) - TwiceAmount(s, c) + TwiceAmount(s, c)'
      /\ OpenOn(c) - OpenAmount(s, c) \in Nat
      /\ OpenOn(c) \in Nat /\ ChargedOn(c) \in Nat
      /\ OverrunOn(c) \in Nat /\ ReleasedTwiceOn(c) \in Nat
  BY <1>2, SumsStep
<1>4. /\ reservedValue[c] \in Nat /\ usedValue[c] \in Nat /\ peak[c] \in Nat
      /\ amount[s] \in Nat /\ value[c[1]] \in Nat
  BY <1>1 DEF TypeOK
<1>5. Books(c) /\ peak'[c] = peak[c] /\ charged[s] = 0 /\ pc'[r] = newStatus
  BY <1>1 DEF EventInv, TypeOK
<1>6. status[s] \in {"none", "reserved", "compensated", "failed"}
  BY <1>1 DEF TypeOK, EventInv, Statuses
<1>7. CASE Holds(r, c)
  <2>1. /\ status[s] \in {"reserved", "compensated", "failed"}
        /\ counter[s] = c /\ counter'[s] = c /\ amount'[s] = amount[s]
        /\ charged'[s] = value[c[1]]
        /\ usedValue'[c] = usedValue[c] + value[c[1]]
        /\ reservedValue'[c] = Clamp(reservedValue[c] - amount[s])
    BY <1>1, <1>6, <1>7 DEF Holds, ReleaseReservation
  <2>2. /\ ChargedAmount(s, c) = 0 /\ ChargedAmount(s, c)' = value[c[1]]
        /\ OverrunAmount(s, c) = 0
        /\ OverrunAmount(s, c)' = Clamp(value[c[1]] - amount[s])
        /\ TwiceAmount(s, c) = 0
    <3>1. Clamp(0 - amount[s]) = 0
      BY <1>4 DEF Clamp
    <3> QED
      BY <1>5, <2>1, <3>1 DEF ChargedAmount, OverrunAmount, TwiceAmount, On
  <2>3. CASE status[s] \in {"reserved", "failed"}
    <3>1. status'[s] \in {newStatus, "failed"}
      BY <1>1, <2>3 DEF CloseEvents
    <3>2. /\ OpenAmount(s, c) = amount[s] /\ OpenAmount(s, c)' = 0
          /\ TwiceAmount(s, c)' = 0
      BY <1>5, <2>1, <2>3, <3>1 DEF OpenAmount, Open, TwiceAmount, On
    <3> QED
      BY <1>3, <1>4, <1>5, <2>1, <2>2, <3>2 DEF Books, Clamp
  <2>4. CASE status[s] = "compensated"
    <3>1. status'[s] = "compensated"
      BY <1>1, <2>4 DEF CloseEvents
    <3>2. /\ OpenAmount(s, c) = 0 /\ OpenAmount(s, c)' = 0
          /\ TwiceAmount(s, c)' = amount[s]
      BY <1>5, <2>1, <2>4, <3>1 DEF OpenAmount, Open, TwiceAmount, On
    <3> QED
      BY <1>3, <1>4, <1>5, <2>1, <2>2, <3>2 DEF Books, Clamp
  <2> QED
    BY <2>1, <2>3, <2>4
<1>8. CASE ~Holds(r, c)
  <2>1. reservedValue'[c] = reservedValue[c] /\ usedValue'[c] = usedValue[c]
    BY <1>8 DEF ReleaseReservation
  <2>2. /\ OpenAmount(s, c) = 0 /\ OpenAmount(s, c)' = 0
        /\ ChargedAmount(s, c) = 0 /\ ChargedAmount(s, c)' = 0
        /\ OverrunAmount(s, c) = 0 /\ OverrunAmount(s, c)' = 0
        /\ TwiceAmount(s, c) = 0 /\ TwiceAmount(s, c)' = 0
    <3>1. CASE counter[s] # c
      BY <3>1 DEF OpenAmount, Open, ChargedAmount, OverrunAmount, TwiceAmount, On
    <3>2. CASE status[s] = "none"
      <4>1. status'[s] = "none" /\ charged'[s] = 0 /\ amount[s] = 0 /\ amount'[s] = 0
        BY <1>1, <1>5, <3>2 DEF CloseEvents, EventInv
      <4>2. Clamp(0 - 0) = 0
        BY DEF Clamp
      <4> QED
        BY <1>5, <3>2, <4>1, <4>2
           DEF OpenAmount, Open, ChargedAmount, OverrunAmount, TwiceAmount, On
    <3> QED
      BY <1>8, <3>1, <3>2 DEF Holds
  <2> QED
    BY <1>3, <1>4, <1>5, <2>1, <2>2 DEF Books
<1> QED
  BY <1>7, <1>8

(* Compensating an open event takes its amount out of the row and of the   *)
(* open sum alike.                                                         *)
LEMMA BooksCompensate ==
    ASSUME IInv, TypeOK', EventInv', NEW r \in Requests, NEW p \in Policies,
           NEW c \in Counters, CompensateReservationEvent(r, p)
    PROVE  Books(c)'
<1> DEFINE s == <<r, c[1]>>
<1> USE DEF IInv, inputs
<1>1. s \in Slots /\ <<r, p>> \in Slots
  BY DEF Slots, Counters
<1>2. \A t \in Slots : t[1] # r =>
        /\ status'[t] = status[t]
        /\ amount'[t] = amount[t]
        /\ counter'[t] = counter[t]
        /\ charged'[t] = charged[t]
        /\ pc'[t[1]] = pc[t[1]]
  BY <1>1 DEF CompensateReservationEvent, TypeOK
<1>3. /\ OpenOn(c)' = OpenOn(c) - OpenAmount(s, c) + OpenAmount(s, c)'
      /\ ChargedOn(c)' = ChargedOn(c) - ChargedAmount(s, c) + ChargedAmount(s, c)'
      /\ OverrunOn(c)' = OverrunOn(c) - OverrunAmount(s, c) + OverrunAmount(s, c)'
      /\ ReleasedTwiceOn(c)' = ReleasedTwiceOn(c) - TwiceAmount(s, c) + TwiceAmount(s, c)'
      /\ OpenOn(c) - OpenAmount(s, c) \in Nat
      /\ OpenOn(c) \in Nat /\ ChargedOn(c) \in Nat
      /\ OverrunOn(c) \in Nat /\ ReleasedTwiceOn(c) \in Nat
  BY <1>2, SumsStep
<1>4. /\ reservedValue[c] \in Nat /\ usedValue[c] \in Nat /\ peak[c] \in Nat
      /\ amount[s] \in Nat
  BY <1>1 DEF TypeOK
<1>5. /\ Books(c) /\ peak'[c] = peak[c] /\ usedValue'[c] = usedValue[c]
      /\ amount'[s] = amount[s] /\ charged'[s] = charged[s] /\ counter'[s] = counter[s]
      /\ pc'[s[1]] = pc[s[1]]
  BY DEF CompensateReservationEvent
<1>6. /\ ChargedAmount(s, c)' = ChargedAmount(s, c)
      /\ OverrunAmount(s, c)' = OverrunAmount(s, c)
  BY <1>5 DEF ChargedAmount, OverrunAmount, On
<1>7. /\ OpenAmount(s, c) \in Int /\ ChargedAmount(s, c) \in Int
      /\ OverrunAmount(s, c) \in Int /\ TwiceAmount(s, c) \in Int
  BY <1>1, AmountsType
<1>8. CASE counter[<<r, p>>] = c
  <2>1. p = c[1] /\ <<r, p>> = s
    BY <1>1, <1>8 DEF EventInv
  <2>2. status[s] = "reserved" /\ status'[s] = "compensated" /\ counter[s] = c
    BY <1>1, <1>8, <2>1 DEF CompensateReservationEvent, TypeOK
  <2>3. pc[s[1]] \notin {"settled", "refunded"}
    BY <1>1, <2>2 DEF EventInv
  <2>4. reservedValue'[c] = Clamp(reservedValue[c] - amount[s])
    BY <1>8, <2>1 DEF CompensateReservationEvent, TypeOK
  <2>5. /\ OpenAmount(s, c) = amount[s] /\ OpenAmount(s, c)' = 0
        /\ TwiceAmount(s, c) = 0 /\ TwiceAmount(s, c)' = 0
    BY <1>5, <2>2, <2>3 DEF OpenAmount, Open, TwiceAmount, On
  <2> QED
    BY <1>3, <1>4, <1>5, <1>6, <1>7, <2>4, <2>5 DEF Books, Clamp
<1>9. CASE counter[<<r, p>>] # c
  <2>1. reservedValue'[c] = reservedValue[c]
    BY <1>9 DEF CompensateReservationEvent, TypeOK
  <2>2. OpenAmount(s, c)' = OpenAmount(s, c) /\ TwiceAmount(s, c)' = TwiceAmount(s, c)
    <3>1. CASE p = c[1]
      BY <1>5, <1>9, <3>1 DEF OpenAmount, Open, TwiceAmount, On
    <3>2. CASE p # c[1]
      <4>1. status'[s] = status[s]
        BY <1>1, <3>2 DEF CompensateReservationEvent, TypeOK
      <4> QED
        BY <1>5, <4>1 DEF OpenAmount, Open, TwiceAmount, On
    <3> QED
      BY <3>1, <3>2
  <2> QED
    BY <1>3, <1>4, <1>5, <1>6, <1>7, <2>1, <2>2 DEF Books
<1> QED
  BY <1>8, <1>9

(* Marking an event as failed changes neither the row nor what is open.    *)
LEMMA BooksFailed ==
    ASSUME IInv, TypeOK', EventInv', NEW r \in Requests, NEW p \in Policies,
           NEW c \in Counters, MarkReservationFailed(r, p)
    PROVE  Books(c)'
<1> DEFINE s == <<r, c[1]>>
<1> USE DEF IInv, inputs, counters
<1>1. s \in Slots /\ <<r, p>> \in Slots
  BY DEF Slots, Counters
<1>2. \A t \in Slots : t[1] # r =>
        /\ status'[t] = status[t]
        /\ amount'[t] = amount[t]
        /\ counter'[t] = counter[t]
        /\ charged'[t] = charged[t]
        /\ pc'[t[1]] = pc[t[1]]
  BY <1>1 DEF MarkReservationFailed, TypeOK
<1>3. /\ OpenOn(c)' = OpenOn(c) - OpenAmount(s, c) + OpenAmount(s, c)'
      /\ ChargedOn(c)' = ChargedOn(c) - ChargedAmount(s, c) + ChargedAmount(s, c)'
      /\ OverrunOn(c)' = OverrunOn(c) - OverrunAmount(s, c) + OverrunAmount(s, c)'
      /\ ReleasedTwiceOn(c)' = ReleasedTwiceOn(c) - TwiceAmount(s, c) + TwiceAmount(s, c)'
      /\ OpenOn(c) - OpenAmount(s, c) \in Nat
      /\ OpenOn(c) \in Nat /\ ChargedOn(c) \in Nat
      /\ OverrunOn(c) \in Nat /\ ReleasedTwiceOn(c) \in Nat
  BY <1>2, SumsStep
<1>4. UNCHANGED <<pc, amount, counter, charged, usedValue, reservedValue, peak>>
  BY DEF MarkReservationFailed
<1>5. \/ status'[s] = status[s]
      \/ status[s] = "reserved" /\ status'[s] = "failed"
  BY <1>1 DEF MarkReservationFailed, TypeOK
<1>6. /\ OpenAmount(s, c)' = OpenAmount(s, c)
      /\ ChargedAmount(s, c)' = ChargedAmount(s, c)
      /\ OverrunAmount(s, c)' = OverrunAmount(s, c)
      /\ TwiceAmount(s, c)' = TwiceAmount(s, c)
  BY <1>4, <1>5 DEF OpenAmount, Open, ChargedAmount, OverrunAmount, TwiceAmount, On
<1>7. /\ OpenAmount(s, c) \in Int /\ ChargedAmount(s, c) \in Int
      /\ OverrunAmount(s, c) \in Int /\ TwiceAmount(s, c) \in Int
  BY <1>1, AmountsType
<1> QED
  BY <1>3, <1>4, <1>6, <1>7 DEF Books

(* The steps that only move a request along: a denial, a failure or a      *)
(* crash leaves rows and sums as they are.                                 *)
LEMMA BooksQuiet ==
    ASSUME IInv, TypeOK', EventInv', NEW r \in Requests, NEW c \in Counters,
           UNCHANGED <<counters, events>>,
           pc[r] \notin {"settled", "refunded"},
           NEW state, state \notin {"settled", "refunded"},
           pc' = [pc EXCEPT ![r] = state]
    PROVE  Books(c)'
<1> DEFINE s == <<r, c[1]>>
<1> USE DEF IInv, counters, events
<1>1. s \in Slots
  BY DEF Slots, Counters
<1>2. \A t \in Slots : t[1] # r =>
        /\ status'[t] = status[t]
        /\ amount'[t] = amount[t]
        /\ counter'[t] = counter[t]
        /\ charged'[t] = charged[t]
        /\ pc'[t[1]] = pc[t[1]]
  BY DEF TypeOK, Slots
<1>3. /\ OpenOn(c)' = OpenOn(c) - OpenAmount(s, c) + OpenAmount(s, c)'
      /\ ChargedOn(c)' = ChargedOn(c) - ChargedAmount(s, c) + ChargedAmount(s, c)'
      /\ OverrunOn(c)' = OverrunOn(c) - OverrunAmount(s, c) + OverrunAmount(s, c)'
      /\ ReleasedTwiceOn(c)' = ReleasedTwiceOn(c) - TwiceAmount(s, c) + TwiceAmount(s, c)'
      /\ OpenOn(c) - OpenAmount(s, c) \in Nat
      /\ OpenOn(c) \in Nat /\ ChargedOn(c) \in Nat
      /\ OverrunOn(c) \in Nat /\ ReleasedTwiceOn(c) \in Nat
  BY <1>2, SumsStep
<1>4. /\ OpenAmount(s, c)' = OpenAmount(s, c)
      /\ ChargedAmount(s, c)' = ChargedAmount(s, c)
      /\ OverrunAmount(s, c)' = OverrunAmount(s, c)
      /\ TwiceAmount(s, c)' = TwiceAmount(s, c)
  BY DEF OpenAmount, Open, ChargedAmount, OverrunAmount, TwiceAmount, On, TypeOK
<1>5. /\ OpenAmount(s, c) \in Int /\ ChargedAmount(s, c) \in Int
      /\ OverrunAmount(s, c) \in Int /\ TwiceAmount(s, c) \in Int
  BY <1>1, AmountsType
<1> QED
  BY <1>3, <1>4, <1>5 DEF Books

(* The inductive invariant is preserved by every step.                     *)
LEMMA IInvStep == IInv /\ [Next]_vars => IInv'
<1> SUFFICES ASSUME IInv, [Next]_vars
             PROVE  IInv'
  OBVIOUS
<1>1. TypeOK' /\ EventInv'
  BY TypeStep, EventStep DEF IInv
<1> SUFFICES ASSUME NEW c \in Counters
             PROVE  Books(c)'
  BY <1>1 DEF IInv, Counters, Periods
<1>2. ASSUME UNCHANGED <<counters, events, pc>>
      PROVE  Books(c)'
  <2>1. UNCHANGED <<events, charged, pc>> /\ UNCHANGED <<usedValue, reservedValue, peak>>
    BY <1>2 DEF counters
  <2> QED
    BY <2>1, SumsFrame DEF Books, IInv
<1>3. CASE UNCHANGED vars
  BY <1>2, <1>3 DEF vars
<1>4. ASSUME NEW r \in Requests, ReserveEnterpriseQuota(r) \/ ReserveEnterpriseQuotaObservation(r)
      PROVE  Books(c)'
  BY <1>1, <1>4, BooksReserve
<1>5. ASSUME NEW r \in Requests, DenyEnterpriseQuota(r)
      PROVE  Books(c)'
  BY <1>1, <1>5, BooksQuiet DEF DenyEnterpriseQuota
<1>6. ASSUME NEW r \in Requests, ObservationFails(r)
      PROVE  Books(c)'
  BY <1>1, <1>6, BooksQuiet DEF ObservationFails
<1>7. ASSUME NEW r \in Requests, FinishUnsettled(r)
      PROVE  Books(c)'
  <2>1. pc[r] \notin {"settled", "refunded"}
    BY <1>7 DEF FinishUnsettled
  <2> QED
    BY <1>1, <1>7, <2>1, BooksQuiet DEF FinishUnsettled
<1>8. ASSUME NEW r \in Requests, Crash(r)
      PROVE  Books(c)'
  <2>1. pc[r] \notin {"settled", "refunded"}
    BY <1>8 DEF Crash, Live
  <2> QED
    BY <1>1, <1>8, <2>1, BooksQuiet DEF Crash
<1>9. ASSUME NEW r \in Requests, SettleEnterpriseReservation(r)
      PROVE  Books(c)'
  <2>1. PICK actual \in Actuals :
          /\ pc[r] = "running"
          /\ ReleaseReservation(r)
          /\ usedValue' = [d \in Counters |->
                IF Holds(r, d) THEN usedValue[d] + ActualValue(r, d[1], actual)
                               ELSE usedValue[d]]
          /\ charged' = [t \in Slots |->
                IF t[1] = r /\ status[t] # "none" THEN ActualValue(r, t[2], actual)
                                                  ELSE charged[t]]
          /\ CloseEvents(r, "settled")
          /\ pc' = [pc EXCEPT ![r] = "settled"]
          /\ UNCHANGED <<inputs, peak, amount, counter>>
    BY <1>9 DEF SettleEnterpriseReservation
  <2> DEFINE value == [p \in Policies |-> ActualValue(r, p, actual)]
  <2>2. value \in [Policies -> Nat]
    BY DEF ActualValue, IInv, TypeOK, Slots
  <2>3. \A d \in Counters : usedValue'[d] =
          IF Holds(r, d) THEN usedValue[d] + value[d[1]] ELSE usedValue[d]
    BY <2>1 DEF Counters
  <2>4. \A t \in Slots : charged'[t] =
          IF t[1] = r /\ status[t] # "none" THEN value[t[2]] ELSE charged[t]
    BY <2>1 DEF Slots
  <2> HIDE DEF value
  <2> QED
    BY <1>1, <2>1, <2>2, <2>3, <2>4, BooksRelease
<1>10. ASSUME NEW r \in Requests, RefundEnterpriseReservation(r)
       PROVE  Books(c)'
  <2> DEFINE value == [p \in Policies |-> 0]
  <2>1. value \in [Policies -> Nat]
    OBVIOUS
  <2>2. \A d \in Counters : usedValue'[d] =
          IF Holds(r, d) THEN usedValue[d] + value[d[1]] ELSE usedValue[d]
    <3>1. \A d \in Counters : value[d[1]] = 0 /\ usedValue[d] \in Nat
      BY DEF Counters, IInv, TypeOK
    <3> QED
      BY <1>10, <3>1 DEF RefundEnterpriseReservation
  <2>3. \A t \in Slots : charged'[t] =
          IF t[1] = r /\ status[t] # "none" THEN value[t[2]] ELSE charged[t]
    <3>1. \A t \in Slots : t[1] = r => charged[t] = 0 /\ value[t[2]] = 0
      BY <1>10 DEF RefundEnterpriseReservation, IInv, EventInv, Slots
    <3> QED
      BY <1>10, <3>1 DEF RefundEnterpriseReservation
  <2> HIDE DEF value
  <2> QED
    BY <1>1, <1>10, <2>1, <2>2, <2>3, BooksRelease DEF RefundEnterpriseReservation
<1>11. ASSUME NEW r \in Requests, NEW p \in Policies, CompensateReservationEvent(r, p)
       PROVE  Books(c)'
  BY <1>1, <1>11, BooksCompensate
<1>12. ASSUME NEW p \in Policies, EffectiveLimitChanges(p)
       PROVE  Books(c)'
  BY <1>2, <1>12 DEF EffectiveLimitChanges
<1>13. CASE PeriodRolls
  BY <1>2, <1>13 DEF PeriodRolls
<1>14. ASSUME NEW r \in Requests, NEW p \in Policies, MarkReservationFailed(r, p)
       PROVE  Books(c)'
  BY <1>1, <1>14, BooksFailed
<1> QED
  BY <1>3, <1>4, <1>5, <1>6, <1>7, <1>8, <1>9, <1>10, <1>11, <1>12, <1>13, <1>14 DEF Next

(* The inductive invariant holds in every reachable state.                 *)
THEOREM Inductive == Spec => []IInv
BY IInvInit, IInvStep, PTL DEF Spec

-----------------------------------------------------------------------------
(* Every reserved unit belongs to an open event: clamping, partial         *)
(* failures and compensation never leave quota reserved for nobody.        *)
THEOREM NoPhantom == Spec => []NoPhantomReservation
<1>1. IInv => NoPhantomReservation
  BY DEF IInv, Books, NoPhantomReservation
<1> QED
  BY <1>1, Inductive, PTL

(* used_value is the sum of the charges of the settled requests.           *)
THEOREM UsedExact == Spec => []UsedIsCharged
<1>1. IInv => UsedIsCharged
  BY DEF IInv, Books, UsedIsCharged
<1> QED
  BY <1>1, Inductive, PTL

(* Open reservations are missing from the row only by double releases.     *)
THEOREM OpenReserved == Spec => []OpenIsReserved
<1>1. IInv => OpenIsReserved
  BY DEF IInv, Books, OpenIsReserved
<1> QED
  BY <1>1, Inductive, PTL

(* The quota guarantee of a blocking policy, for any number of concurrent  *)
(* requests: the admitted usage exceeds the limit only by what estimates   *)
(* missed and by what was released twice.                                  *)
THEOREM QuotaHolds == Spec => []QuotaBound
<1>1. IInv => QuotaBound
  BY DEF IInv, Books, QuotaBound
<1> QED
  BY <1>1, Inductive, PTL

(* Where all requests end before they count as stale, nothing is ever      *)
(* released twice and reserved_value is exact.                             *)
THEOREM ReservedExact == Spec => []ReservedIsExact
<1>1. IInv => ReservedIsExact
  <2> SUFFICES ASSUME IInv, NEW c \in Counters,
                      \A s \in Slots : On(s, c) /\ status[s] # "none" => s[1] \notin LongRequests
               PROVE  reservedValue[c] = OpenOn(c)
    BY DEF ReservedIsExact
  <2>1. \A s \in Slots : TwiceAmount(s, c) = 0
    BY DEF IInv, EventInv, TwiceAmount
  <2>2. ReleasedTwiceOn(c) = 0
    BY <2>1, TotalZero DEF ReleasedTwiceOn
  <2>3. \A s \in Slots : OpenAmount(s, c) \in Nat
    BY AmountsType DEF IInv
  <2>4. OpenOn(c) \in Nat /\ reservedValue[c] \in Nat
    BY <2>3, SlotsFinite, TotalType DEF OpenOn, IInv, TypeOK
  <2> QED
    BY <2>2, <2>4 DEF IInv, Books
<1> QED
  BY <1>1, Inductive, PTL

(* A closed event is never reopened or closed again.                       *)
THEOREM CloseOnce == Spec => EventsCloseOnce
<1> DEFINE Once == \A s \in Slots :
              status[s] \notin {"none", "reserved"} => status'[s] = status[s]
<1>1. IInv /\ [Next]_vars => [Once]_vars
  <2> SUFFICES ASSUME IInv, Next, NEW s \in Slots, status[s] \notin {"none", "reserved"}
               PROVE  status'[s] = status[s]
    OBVIOUS
  <2> USE DEF events
  <2>1. ASSUME NEW r \in Requests, ReserveEnterpriseQuota(r) \/ ReserveEnterpriseQuotaObservation(r)
        PROVE  status'[s] = status[s]
    <3>1. s[1] = r => pc[r] \in {"idle", "reserved"}
      BY <2>1 DEF ReserveEnterpriseQuota, ReserveEnterpriseQuotaObservation
    <3>2. PICK P \in {Blocking, Policies \ Blocking} :
            /\ AddReservations(r, P)
            /\ s[1] = r /\ s[2] \in P => status[s] = "none"
      BY <2>1, <3>1 DEF ReserveEnterpriseQuota, ReserveEnterpriseQuotaObservation, IInv, EventInv
    <3> QED
      BY <3>2 DEF AddReservations, Creates, Reserves
  <2>2. ASSUME NEW r \in Requests, SettleEnterpriseReservation(r) \/ RefundEnterpriseReservation(r)
        PROVE  status'[s] = status[s]
    BY <2>2 DEF SettleEnterpriseReservation, RefundEnterpriseReservation, CloseEvents
  <2>3. ASSUME NEW r \in Requests, NEW p \in Policies, CompensateReservationEvent(r, p)
        PROVE  status'[s] = status[s]
    BY <2>3 DEF CompensateReservationEvent, IInv, TypeOK
  <2>5. ASSUME NEW r \in Requests, NEW p \in Policies, MarkReservationFailed(r, p)
        PROVE  status'[s] = status[s]
    BY <2>5 DEF MarkReservationFailed, IInv, TypeOK
  <2>4. ASSUME UNCHANGED events
        PROVE  status'[s] = status[s]
    BY <2>4
  <2> QED
    BY <2>1, <2>2, <2>3, <2>4, <2>5 DEF Next, DenyEnterpriseQuota, ObservationFails, FinishUnsettled,
       Crash, EffectiveLimitChanges, PeriodRolls
<1>2. Spec => [][Once]_vars
  BY <1>1, Inductive, PTL DEF Spec
<1> QED
  BY <1>2 DEF EventsCloseOnce
=============================================================================
