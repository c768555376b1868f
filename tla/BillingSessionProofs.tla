------------------------- MODULE BillingSessionProofs -------------------------
(***************************************************************************)
(* Proofs about BillingSession, for any number of requests, any balances,  *)
(* prices and preferences, and any number of failures and resets.          *)
(*                                                                         *)
(* The limits of the token and of the subscription rest on the difference  *)
(* that is still to be settled having the right sign when it is added to   *)
(* or taken from an account without a check, and NoGain rests on every     *)
(* session being backed, at every step, by what it took before.  Both are  *)
(* in Ledger, which says for each position of the handler what the request *)
(* has taken so far.                                                       *)
(***************************************************************************)
EXTENDS BillingSession, FiniteSetTheorems, TLAPS

-----------------------------------------------------------------------------
(***************************************************************************)
(* Totals (QuotaTotals): what a total is worth, and how it changes with    *)
(* one of its holders.                                                     *)
(***************************************************************************)

(* natural number.                                                         *)
LEMMA TotalType ==
    ASSUME NEW S, IsFiniteSet(S), NEW v, \A s \in S : v[s] \in Nat
    PROVE  IsFiniteSet(Units(S, v)) /\ Total(S, v) \in Nat
<1> DEFINE f == [s \in S |-> {s} \X (1 .. v[s])]
           T == {{s} \X (1 .. v[s]) : s \in S}
<1>1. ASSUME NEW s \in S PROVE IsFiniteSet({s} \X (1 .. v[s]))
  <2>1. IsFiniteSet(1 .. v[s])
    BY FS_Interval
  <2>2. IsFiniteSet({s})
    BY FS_Singleton
  <2>3. QED
    BY <2>1, <2>2, FS_Product
<1>2. f \in Surjection(S, T)
  BY DEF Surjection
<1>3. IsFiniteSet(T)
  BY <1>2, FS_Surjection
<1>4. IsFiniteSet(Units(S, v))
  <2>1. \A U \in T : IsFiniteSet(U)
    BY <1>1
  <2>2. IsFiniteSet(UNION T)
    BY <1>3, <2>1, FS_UNION
  <2>3. QED
    BY <2>2 DEF Units
<1> QED
  BY <1>4, FS_CardinalityType DEF Total

(* A total only depends on the amounts of its own holders.                 *)
LEMMA TotalSame ==
    ASSUME NEW S, NEW v, NEW w, \A s \in S : v[s] = w[s]
    PROVE  Total(S, v) = Total(S, w)
<1>1. Units(S, v) = Units(S, w)
  BY DEF Units
<1> QED
  BY <1>1 DEF Total

(* One holder contributes exactly its own amount.                          *)
LEMMA TotalOne ==
    ASSUME NEW s, NEW v, v[s] \in Nat
    PROVE  Total({s}, v) = v[s]
<1> DEFINE B == 1 .. v[s]
<1>0. v[s] \in Int /\ v[s] >= 0
  OBVIOUS
<1>1. IsFiniteSet(B) /\ Cardinality(B) = v[s]
  <2>1. 1 \in Int
    OBVIOUS
  <2>2. Cardinality(B) = IF 1 > v[s] THEN 0 ELSE v[s] - 1 + 1
    BY <1>0, <2>1, FS_Interval
  <2>3. IsFiniteSet(B)
    BY <1>0, <2>1, FS_Interval
  <2>4. (IF 1 > v[s] THEN 0 ELSE v[s] - 1 + 1) = v[s]
    BY <1>0
  <2> QED
    BY <2>2, <2>3, <2>4
<1>2. Units({s}, v) = {s} \X B
  BY DEF Units
<1>3. IsFiniteSet({s}) /\ Cardinality({s}) = 1
  BY FS_Singleton
<1>4. Cardinality({s} \X B) = 1 * v[s]
  BY <1>1, <1>3, FS_Product, ZenonT(30)
<1>5. 1 * v[s] = v[s]
  BY <1>0
<1> QED
  BY <1>2, <1>4, <1>5 DEF Total

(* A holder that joins adds its amount: what admitting a reservation does. *)
LEMMA TotalAdd ==
    ASSUME NEW S, IsFiniteSet(S), NEW s, s \notin S, NEW v,
           \A t \in S \cup {s} : v[t] \in Nat
    PROVE  Total(S \cup {s}, v) = Total(S, v) + v[s]
<1>1. Units(S \cup {s}, v) = Units(S, v) \cup Units({s}, v)
  BY DEF Units
<1>2. Units(S, v) \cap Units({s}, v) = {}
  BY DEF Units
<1>3. IsFiniteSet({s})
  BY FS_Singleton
<1>4. IsFiniteSet(Units(S, v)) /\ IsFiniteSet(Units({s}, v))
  BY <1>3, TotalType
<1>5. /\ Total(S, v) \in Nat
      /\ Total({s}, v) = v[s]
  BY TotalType, TotalOne
<1>6. Cardinality(Units(S, v) \cup Units({s}, v))
        = Cardinality(Units(S, v)) + Cardinality(Units({s}, v)) - 0
  <2>1. Cardinality(Units(S, v) \cup Units({s}, v))
          = Cardinality(Units(S, v)) + Cardinality(Units({s}, v))
              - Cardinality(Units(S, v) \cap Units({s}, v))
    BY <1>4, FS_Union
  <2>2. Cardinality(Units(S, v) \cap Units({s}, v)) = 0
    BY <1>2, FS_EmptySet
  <2>3. QED
    BY <2>1, <2>2
<1>7. Total(S \cup {s}, v) = Total(S, v) + Total({s}, v) - 0
  BY <1>1, <1>6 DEF Total
<1>8. v[s] \in Int
  OBVIOUS
<1> QED
  BY <1>5, <1>7, <1>8

(* closing a reservation does.                                             *)
LEMMA TotalRemove ==
    ASSUME NEW S, IsFiniteSet(S), NEW s \in S, NEW v,
           \A t \in S : v[t] \in Nat
    PROVE  /\ Total(S \ {s}, v) = Total(S, v) - v[s]
           /\ Total(S \ {s}, v) \in Nat
<1>1. IsFiniteSet(S \ {s})
  BY FS_RemoveElement
<1>2. S = (S \ {s}) \cup {s}
  OBVIOUS
<1>3. Total((S \ {s}) \cup {s}, v) = Total(S \ {s}, v) + v[s]
  BY <1>1, TotalAdd
<1>4. Total(S \ {s}, v) \in Nat
  BY <1>1, TotalType
<1>5. v[s] \in Int /\ Total(S, v) \in Nat
  BY TotalType
<1>6. Total(S, v) = Total(S \ {s}, v) + v[s]
  BY <1>2, <1>3
<1> QED
  BY <1>4, <1>5, <1>6

(* what one request does to the sums over all requests.                    *)
LEMMA TotalUpdate ==
    ASSUME NEW S, IsFiniteSet(S), NEW s \in S, NEW v, NEW w,
           \A t \in S : v[t] \in Nat, w[s] \in Nat,
           \A t \in S \ {s} : v[t] = w[t]
    PROVE  /\ Total(S, w) = Total(S, v) - v[s] + w[s]
           /\ Total(S, v) - v[s] \in Nat
           /\ Total(S, v) \in Nat
           /\ Total(S, w) \in Nat
<1>1. /\ Total(S \ {s}, v) = Total(S, v) - v[s]
      /\ Total(S \ {s}, v) \in Nat
  BY TotalRemove
<1>2. Total(S \ {s}, w) = Total(S, w) - w[s]
  BY TotalRemove
<1>3. Total(S \ {s}, v) = Total(S \ {s}, w)
  BY TotalSame
<1>4. Total(S, v) \in Nat /\ Total(S, w) \in Nat
  BY TotalType
<1>5. v[s] \in Int /\ w[s] \in Int
  OBVIOUS
<1> QED
  BY <1>1, <1>2, <1>3, <1>4, <1>5

(* Holders that have nothing sum to nothing.                               *)
LEMMA TotalZero ==
    ASSUME NEW S, NEW v, \A s \in S : v[s] = 0
    PROVE  Total(S, v) = 0
<1>1. Units(S, v) = {}
  BY DEF Units
<1> QED
  BY <1>1, FS_EmptySet DEF Total

-----------------------------------------------------------------------------

\* What a refund or rollback of r gives back to the token.
Held(r) == IF r \in Playground THEN 0 ELSE tokenConsumed[r]

Unfunded == {"new", "wallet", "subscription", "token", "take", "fund", "rollback_short"}
Open     == Settling \cup Refunding \cup {"running", "settle_failed"}

\* What the token and the session's own fields say at each position.
TokenLedger(r) ==
    /\ tokenNet[r] >= 0
    /\ pc[r] \in {"new", "wallet", "subscription", "token", "take"} => tokenConsumed[r] = 0
    /\ pc[r] = "fund" => tokenConsumed[r] = effective[r]
    /\ pc[r] \in Open => tokenConsumed[r] = preConsumed[r] /\ preConsumed[r] = effective[r]
    /\ pc[r] \in Open \cup {"fund", "rollback_short", "rollback_error"} => tokenNet[r] >= Held(r)
    /\ pc[r] \in {"settle_fund", "settle_undo"} /\ tokenAdjusted[r] =>
          /\ actual[r] > preConsumed[r]
          /\ r \notin Playground
          /\ tokenNet[r] >= actual[r]
    /\ pc[r] = "settle_fund" /\ ~tokenAdjusted[r] =>
          actual[r] <= preConsumed[r] \/ ~HardLimit \/ r \in Playground
    /\ pc[r] = "settle_undo" => tokenAdjusted[r]
    /\ pc[r] \in PreConsuming \cup {"running"} => ~tokenAdjusted[r]
    /\ pc[r] = "settle_token" =>
          r \notin Playground /\ (HardLimit => actual[r] <= preConsumed[r])

\* What the funding source says at each position.
FundLedger(r) ==
    /\ fundNet[r] >= 0
    /\ record[r] = "consumed" => fundNet[r] = effective[r]
    /\ record[r] = "settled" => fundNet[r] = actual[r]
    /\ record[r] = "refunded" => fundNet[r] = 0
    /\ pc[r] \in Unfunded => fundNet[r] = 0 /\ record[r] = "none"
    /\ pc[r] \in {"running", "settle_fund"} =>
          /\ fundNet[r] = preConsumed[r]
          /\ source[r] = "subscription" => record[r] = "consumed"
    /\ pc[r] \in Open \cup {"settled", "refunded", "unsettled"} /\ source[r] = "wallet" =>
          record[r] = "none"
    /\ pc[r] \in {"token", "take", "fund"} \cup Open /\ r \in PerCall /\ source[r] = "wallet" =>
          effective[r] <= quota[r]
    /\ pc[r] \in {"settle_fund", "settle_undo", "settle_failed"} /\ r \in PerCall =>
          actual[r] = quota[r]
    /\ pc[r] \in {"settle_undo", "settle_failed"} /\ r \in PerCall /\ source[r] = "wallet" =>
          fundNet[r] >= preConsumed[r]
    /\ pc[r] = "refund_fund" /\ source[r] = "wallet" => fundNet[r] >= preConsumed[r]
    /\ pc[r] = "refund_token" \/ pc[r] \in Final \/ tries[r] < MaxAttempts

IInv ==
    /\ TypeOK
    /\ HardLimitHolds
    /\ SubscriptionWithinTotal
    /\ \A r \in Requests : TokenLedger(r)
    /\ \A r \in Requests : FundLedger(r)

-----------------------------------------------------------------------------
(* Init *)

(* The initial states satisfy the invariant. *)
LEMMA IInvInit == Init => IInv
<1> SUFFICES ASSUME Init PROVE IInv
  OBVIOUS
<1> USE BillingAssumption DEF Init
<1>1. TypeOK
  <2>1. active \in BOOLEAN /\ due \in BOOLEAN
    OBVIOUS
  <2>2. /\ tries \in [Requests -> 0 .. MaxAttempts]
        /\ failures \in [Requests -> 0 .. MaxFailures]
        /\ born \in [Requests -> 0 .. MaxPeriod]
        /\ period \in 0 .. MaxPeriod
    OBVIOUS
  <2>3. userQuota \in Int /\ remainQuota \in Int
    OBVIOUS
  <2>4. quota \in [Requests -> Nat]
    OBVIOUS
  <2>5. /\ tokenAdjusted \in [Requests -> BOOLEAN]
        /\ fundNet \in [Requests -> Int]
        /\ tokenNet \in [Requests -> Int]
    OBVIOUS
  <2>6. QED
    BY <2>1, <2>2, <2>3, <2>4, <2>5 DEF TypeOK, PreConsuming
<1>2. HardLimitHolds /\ SubscriptionWithinTotal
  BY DEF HardLimitHolds, SubscriptionWithinTotal
<1>3. ASSUME NEW r \in Requests PROVE TokenLedger(r)
  BY DEF TokenLedger, PreConsuming, Open, Settling, Refunding, Held
<1>4. ASSUME NEW r \in Requests PROVE FundLedger(r)
  BY DEF FundLedger, Unfunded, Open, Settling, Refunding, Final
<1>5. QED
  BY <1>1, <1>2, <1>3, <1>4 DEF IInv

-----------------------------------------------------------------------------
(* The steps *)

(* Every step keeps the types. *)
LEMMA TypeStep == IInv /\ [Next]_vars => TypeOK'
<1> SUFFICES ASSUME IInv, [Next]_vars PROVE TypeOK'
  OBVIOUS
<1> USE BillingAssumption DEF IInv, TypeOK, PreConsuming, Settling, Refunding, Final, FundLedger, Goto, Fails, session, wallet, token, sub, vars
<1>1. ASSUME NEW r \in Requests, NewBillingSession(r) PROVE TypeOK'
  BY <1>1 DEF NewBillingSession
<1>2. ASSUME NEW r \in Requests, TryWallet(r) PROVE TypeOK'
  BY <1>2 DEF TryWallet, Trusted
<1>3. ASSUME NEW r \in Requests, TrySubscription(r) PROVE TypeOK'
  BY <1>3 DEF TrySubscription
<1>4. ASSUME NEW r \in Requests, CheckToken(r) PROVE TypeOK'
  BY <1>4 DEF CheckToken
<1>5. ASSUME NEW r \in Requests, TakeToken(r) PROVE TypeOK'
  BY <1>5 DEF TakeToken, ChargeToken, EnoughToken
<1>6. ASSUME NEW r \in Requests, TakeTokenFails(r) PROVE TypeOK'
  BY <1>6 DEF TakeTokenFails, ChargeToken, EnoughToken
<1>7. ASSUME NEW r \in Requests, PreConsumeWallet(r) PROVE TypeOK'
  BY <1>7 DEF PreConsumeWallet, ChargeWallet, PreConsumed
<1>8. ASSUME NEW r \in Requests, PreConsumeSubscription(r) PROVE TypeOK'
  <2>1. amountUsed' \in Nat /\ fundNet' \in [Requests -> Int] /\ born' \in [Requests -> 0 .. MaxPeriod]
    BY <1>8 DEF PreConsumeSubscription, PreConsumeUserSubscription, UsedAfterReset
  <2>2. lateRelease' \in Nat /\ lateCharge' \in Nat
    BY <1>8 DEF PreConsumeSubscription, PreConsumeUserSubscription
  <2>3. QED
    BY <1>8, <2>1, <2>2 DEF PreConsumeSubscription, PreConsumeUserSubscription, PreConsumed
<1>9. ASSUME NEW r \in Requests, SubscriptionShort(r) PROVE TypeOK'
  BY <1>9 DEF SubscriptionShort
<1>10. ASSUME NEW r \in Requests, PreConsumeFails(r) PROVE TypeOK'
  <2>0. Fails(r) /\ Goto(r, "rollback_error") /\ UNCHANGED <<session, token, active>>
    BY <1>10 DEF PreConsumeFails
  <2>1. CASE PreConsumeUserSubscription(r) /\ UNCHANGED wallet
    <3>1. amountUsed' \in Nat /\ fundNet' \in [Requests -> Int] /\ born' \in [Requests -> 0 .. MaxPeriod]
      BY <2>1 DEF PreConsumeUserSubscription, UsedAfterReset
    <3>2. lateRelease' \in Nat /\ lateCharge' \in Nat
      BY <2>1 DEF PreConsumeUserSubscription
    <3>3. due' \in BOOLEAN /\ active' \in BOOLEAN /\ period' \in 0 .. MaxPeriod
      BY <2>0, <2>1 DEF PreConsumeUserSubscription
    <3>4. /\ record' \in [Requests -> {"none", "consumed", "settled", "refunded"}]
          /\ failures' \in [Requests -> 0 .. MaxFailures]
      BY <2>0, <2>1 DEF PreConsumeUserSubscription
    <3>5. pc' \in [Requests -> PreConsuming \cup Settling \cup Refunding \cup Final
                                 \cup {"running", "settle_failed"}]
      BY <2>0
    <3>6. UNCHANGED <<session, token, wallet>>
      BY <2>0, <2>1
    <3>7. QED
      BY <3>1, <3>2, <3>3, <3>4, <3>5, <3>6
  <2>2. CASE ChargeWallet(r, effective[r]) /\ UNCHANGED <<sub, record>>
    BY <2>0, <2>2 DEF ChargeWallet
  <2>3. CASE UNCHANGED <<wallet, sub, record, fundNet>>
    BY <2>0, <2>3
  <2>4. QED
    BY <1>10, <2>1, <2>2, <2>3 DEF PreConsumeFails
<1>11. ASSUME NEW r \in Requests, RollbackToken(r) PROVE TypeOK'
  BY <1>11 DEF RollbackToken, ChargeToken
<1>12. ASSUME NEW r \in Requests, NEW price \in Prices(r), Settle(r, price) PROVE TypeOK'
  <2>1. price \in Nat /\ Delta(r, price) \in Int
    BY DEF Prices, Delta
  <2>2. actual' \in [Requests -> Nat]
    BY <1>12, <2>1 DEF Settle
  <2>3. tokenAdjusted' \in [Requests -> BOOLEAN]
    BY <1>12 DEF Settle
  <2>4. remainQuota' \in Int /\ tokenNet' \in [Requests -> Int]
    BY <1>12, <2>1 DEF Settle, ChargeToken
  <2>5. pc' \in [Requests -> PreConsuming \cup Settling \cup Refunding \cup Final
                               \cup {"running", "settle_failed"}]
    BY <1>12 DEF Settle
  <2>6. UNCHANGED <<quota, source, effective, preConsumed, tokenConsumed, tries,
                    wallet, sub, active, record, failures, fundNet>>
    BY <1>12 DEF Settle
  <2>7. QED
    BY <2>2, <2>3, <2>4, <2>5, <2>6
<1>13. ASSUME NEW r \in Requests, NEW price \in Prices(r), SettleFirstFails(r, price) PROVE TypeOK'
  BY <1>13 DEF SettleFirstFails, TokenFirst, Delta, EnoughToken, ChargeToken, Prices
<1>14. ASSUME NEW r \in Requests, SettleWallet(r) PROVE TypeOK'
  BY <1>14 DEF SettleWallet, ChargeWallet, Delta, AfterFunding
<1>15. ASSUME NEW r \in Requests, SettleSubscription(r) PROVE TypeOK'
  BY <1>15 DEF SettleSubscription, SettleSubscriptionPreConsume, ChargeSubscription, Clamp, Fits, Delta, AfterFunding
<1>16. ASSUME NEW r \in Requests, SettleSubscriptionExceeds(r) PROVE TypeOK'
  BY <1>16 DEF SettleSubscriptionExceeds, Delta, AfterFundingError
<1>17. ASSUME NEW r \in Requests, SettleFundingFails(r) PROVE TypeOK'
  BY <1>17, SMTT(30) DEF SettleFundingFails, ChargeWallet, SettleSubscriptionPreConsume, ChargeSubscription, Clamp, Fits, Delta, AfterFundingError
<1>18. ASSUME NEW r \in Requests, SettleUndoToken(r) PROVE TypeOK'
  BY <1>18 DEF SettleUndoToken, ChargeToken, Delta
<1>19. ASSUME NEW r \in Requests, SettleToken(r) PROVE TypeOK'
  BY <1>19 DEF SettleToken, ChargeToken, Delta
<1>20. ASSUME NEW r \in Requests, LeaveUnsettled(r) PROVE TypeOK'
  BY <1>20 DEF LeaveUnsettled
<1>21. ASSUME NEW r \in Requests, Refund(r) PROVE TypeOK'
  BY <1>21 DEF Refund, NeedsRefund
<1>22. ASSUME NEW r \in Requests, RefundWallet(r) PROVE TypeOK'
  BY <1>22 DEF RefundWallet, ChargeWallet
<1>23. ASSUME NEW r \in Requests, RefundSubscription(r) PROVE TypeOK'
  BY <1>23 DEF RefundSubscription, RefundSubscriptionPreConsume, ChargeSubscription, Clamp
<1>24. ASSUME NEW r \in Requests, RefundSubscriptionFails(r) PROVE TypeOK'
  BY <1>24 DEF RefundSubscriptionFails
<1>25. ASSUME NEW r \in Requests, RefundToken(r) PROVE TypeOK'
  BY <1>25 DEF RefundToken, ChargeToken
<1>26. ASSUME NEW r \in Requests, Crash(r) PROVE TypeOK'
  BY <1>26 DEF Crash
<1>27. CASE ResetTimePasses
  BY <1>27 DEF ResetTimePasses
<1>28. CASE ResetDueSubscriptions
  BY <1>28 DEF ResetDueSubscriptions
<1>29. CASE ExpireDueSubscriptions
  BY <1>29 DEF ExpireDueSubscriptions
<1>30. CASE UNCHANGED vars
  BY <1>30
<1>31. QED
  BY <1>1, <1>2, <1>3, <1>4, <1>5, <1>6, <1>7, <1>8, <1>9, <1>10, <1>11, <1>12, <1>13, <1>14, <1>15, <1>16, <1>17, <1>18, <1>19, <1>20, <1>21, <1>22, <1>23, <1>24, <1>25, <1>26, <1>27, <1>28, <1>29, <1>30 DEF Next, Step

(* Every step keeps the limits of the token and of the subscription. *)
LEMMA AccountsStep == IInv /\ [Next]_vars => HardLimitHolds' /\ SubscriptionWithinTotal'
<1> SUFFICES ASSUME IInv, [Next]_vars PROVE HardLimitHolds' /\ SubscriptionWithinTotal'
  OBVIOUS
<1> USE BillingAssumption DEF IInv, TypeOK, HardLimitHolds, SubscriptionWithinTotal, TokenLedger, PreConsuming, Open, Settling, Refunding, Held, Goto, Fails, session, wallet, token, sub, vars
<1>1. ASSUME NEW r \in Requests, NewBillingSession(r) PROVE HardLimitHolds' /\ SubscriptionWithinTotal'
  BY <1>1 DEF NewBillingSession
<1>2. ASSUME NEW r \in Requests, TryWallet(r) PROVE HardLimitHolds' /\ SubscriptionWithinTotal'
  BY <1>2 DEF TryWallet, Trusted
<1>3. ASSUME NEW r \in Requests, TrySubscription(r) PROVE HardLimitHolds' /\ SubscriptionWithinTotal'
  BY <1>3 DEF TrySubscription
<1>4. ASSUME NEW r \in Requests, CheckToken(r) PROVE HardLimitHolds' /\ SubscriptionWithinTotal'
  BY <1>4 DEF CheckToken
<1>5. ASSUME NEW r \in Requests, TakeToken(r) PROVE HardLimitHolds' /\ SubscriptionWithinTotal'
  BY <1>5 DEF TakeToken, ChargeToken, EnoughToken
<1>6. ASSUME NEW r \in Requests, TakeTokenFails(r) PROVE HardLimitHolds' /\ SubscriptionWithinTotal'
  BY <1>6 DEF TakeTokenFails, ChargeToken, EnoughToken
<1>7. ASSUME NEW r \in Requests, PreConsumeWallet(r) PROVE HardLimitHolds' /\ SubscriptionWithinTotal'
  BY <1>7 DEF PreConsumeWallet, ChargeWallet, PreConsumed
<1>8. ASSUME NEW r \in Requests, PreConsumeSubscription(r) PROVE HardLimitHolds' /\ SubscriptionWithinTotal'
  BY <1>8 DEF PreConsumeSubscription, PreConsumeUserSubscription, UsedAfterReset, Fits, PreConsumed
<1>9. ASSUME NEW r \in Requests, SubscriptionShort(r) PROVE HardLimitHolds' /\ SubscriptionWithinTotal'
  BY <1>9 DEF SubscriptionShort
<1>10. ASSUME NEW r \in Requests, PreConsumeFails(r) PROVE HardLimitHolds' /\ SubscriptionWithinTotal'
  BY <1>10 DEF PreConsumeFails, ChargeWallet, PreConsumeUserSubscription, UsedAfterReset, Fits
<1>11. ASSUME NEW r \in Requests, RollbackToken(r) PROVE HardLimitHolds' /\ SubscriptionWithinTotal'
  BY <1>11 DEF RollbackToken, ChargeToken
<1>12. ASSUME NEW r \in Requests, NEW price \in Prices(r), Settle(r, price) PROVE HardLimitHolds' /\ SubscriptionWithinTotal'
  BY <1>12 DEF Settle, TokenFirst, Delta, EnoughToken, ChargeToken, Prices
<1>13. ASSUME NEW r \in Requests, NEW price \in Prices(r), SettleFirstFails(r, price) PROVE HardLimitHolds' /\ SubscriptionWithinTotal'
  BY <1>13 DEF SettleFirstFails, TokenFirst, Delta, EnoughToken, ChargeToken, Prices
<1>14. ASSUME NEW r \in Requests, SettleWallet(r) PROVE HardLimitHolds' /\ SubscriptionWithinTotal'
  BY <1>14 DEF SettleWallet, ChargeWallet, Delta, AfterFunding
<1>15. ASSUME NEW r \in Requests, SettleSubscription(r) PROVE HardLimitHolds' /\ SubscriptionWithinTotal'
  BY <1>15 DEF SettleSubscription, SettleSubscriptionPreConsume, ChargeSubscription, Clamp, Fits, Delta, AfterFunding
<1>16. ASSUME NEW r \in Requests, SettleSubscriptionExceeds(r) PROVE HardLimitHolds' /\ SubscriptionWithinTotal'
  BY <1>16 DEF SettleSubscriptionExceeds, Delta, AfterFundingError
<1>17. ASSUME NEW r \in Requests, SettleFundingFails(r) PROVE HardLimitHolds' /\ SubscriptionWithinTotal'
  BY <1>17 DEF SettleFundingFails, ChargeWallet, SettleSubscriptionPreConsume, ChargeSubscription, Clamp, Fits, Delta, AfterFundingError
<1>18. ASSUME NEW r \in Requests, SettleUndoToken(r) PROVE HardLimitHolds' /\ SubscriptionWithinTotal'
  BY <1>18 DEF SettleUndoToken, ChargeToken, Delta
<1>19. ASSUME NEW r \in Requests, SettleToken(r) PROVE HardLimitHolds' /\ SubscriptionWithinTotal'
  BY <1>19 DEF SettleToken, ChargeToken, Delta
<1>20. ASSUME NEW r \in Requests, LeaveUnsettled(r) PROVE HardLimitHolds' /\ SubscriptionWithinTotal'
  BY <1>20 DEF LeaveUnsettled
<1>21. ASSUME NEW r \in Requests, Refund(r) PROVE HardLimitHolds' /\ SubscriptionWithinTotal'
  BY <1>21 DEF Refund, NeedsRefund
<1>22. ASSUME NEW r \in Requests, RefundWallet(r) PROVE HardLimitHolds' /\ SubscriptionWithinTotal'
  BY <1>22 DEF RefundWallet, ChargeWallet
<1>23. ASSUME NEW r \in Requests, RefundSubscription(r) PROVE HardLimitHolds' /\ SubscriptionWithinTotal'
  BY <1>23 DEF RefundSubscription, RefundSubscriptionPreConsume, ChargeSubscription, Clamp
<1>24. ASSUME NEW r \in Requests, RefundSubscriptionFails(r) PROVE HardLimitHolds' /\ SubscriptionWithinTotal'
  BY <1>24 DEF RefundSubscriptionFails
<1>25. ASSUME NEW r \in Requests, RefundToken(r) PROVE HardLimitHolds' /\ SubscriptionWithinTotal'
  BY <1>25 DEF RefundToken, ChargeToken
<1>26. ASSUME NEW r \in Requests, Crash(r) PROVE HardLimitHolds' /\ SubscriptionWithinTotal'
  BY <1>26 DEF Crash
<1>27. CASE ResetTimePasses
  BY <1>27 DEF ResetTimePasses
<1>28. CASE ResetDueSubscriptions
  BY <1>28 DEF ResetDueSubscriptions
<1>29. CASE ExpireDueSubscriptions
  BY <1>29 DEF ExpireDueSubscriptions
<1>30. CASE UNCHANGED vars
  BY <1>30
<1>31. QED
  BY <1>1, <1>2, <1>3, <1>4, <1>5, <1>6, <1>7, <1>8, <1>9, <1>10, <1>11, <1>12, <1>13, <1>14, <1>15, <1>16, <1>17, <1>18, <1>19, <1>20, <1>21, <1>22, <1>23, <1>24, <1>25, <1>26, <1>27, <1>28, <1>29, <1>30 DEF Next, Step

(* Every step keeps the token side of the ledger. *)
LEMMA TokenLedgerStep == IInv /\ [Next]_vars => \A s \in Requests : TokenLedger(s)'
<1> SUFFICES ASSUME IInv, [Next]_vars, NEW s \in Requests PROVE TokenLedger(s)'
  OBVIOUS
<1> USE BillingAssumption DEF IInv, TypeOK, TokenLedger, PreConsuming, Open, Settling, Refunding, Held, Goto, Fails, session, wallet, token, sub, vars
<1>1. ASSUME NEW r \in Requests, NewBillingSession(r) PROVE TokenLedger(s)'
  BY <1>1 DEF NewBillingSession
<1>2. ASSUME NEW r \in Requests, TryWallet(r) PROVE TokenLedger(s)'
  BY <1>2 DEF TryWallet, Trusted
<1>3. ASSUME NEW r \in Requests, TrySubscription(r) PROVE TokenLedger(s)'
  BY <1>3 DEF TrySubscription
<1>4. ASSUME NEW r \in Requests, CheckToken(r) PROVE TokenLedger(s)'
  BY <1>4 DEF CheckToken
<1>5. ASSUME NEW r \in Requests, TakeToken(r) PROVE TokenLedger(s)'
  BY <1>5 DEF TakeToken, ChargeToken, EnoughToken
<1>6. ASSUME NEW r \in Requests, TakeTokenFails(r) PROVE TokenLedger(s)'
  BY <1>6 DEF TakeTokenFails, ChargeToken, EnoughToken
<1>7. ASSUME NEW r \in Requests, PreConsumeWallet(r) PROVE TokenLedger(s)'
  BY <1>7 DEF PreConsumeWallet, ChargeWallet, PreConsumed
<1>8. ASSUME NEW r \in Requests, PreConsumeSubscription(r) PROVE TokenLedger(s)'
  BY <1>8 DEF PreConsumeSubscription, PreConsumeUserSubscription, UsedAfterReset, Fits, PreConsumed
<1>9. ASSUME NEW r \in Requests, SubscriptionShort(r) PROVE TokenLedger(s)'
  BY <1>9 DEF SubscriptionShort
<1>10. ASSUME NEW r \in Requests, PreConsumeFails(r) PROVE TokenLedger(s)'
  BY <1>10 DEF PreConsumeFails, ChargeWallet, PreConsumeUserSubscription, UsedAfterReset, Fits
<1>11. ASSUME NEW r \in Requests, RollbackToken(r) PROVE TokenLedger(s)'
  BY <1>11 DEF RollbackToken, ChargeToken
<1>12. ASSUME NEW r \in Requests, NEW price \in Prices(r), Settle(r, price) PROVE TokenLedger(s)'
  BY <1>12 DEF Settle, TokenFirst, Delta, EnoughToken, ChargeToken, Prices
<1>13. ASSUME NEW r \in Requests, NEW price \in Prices(r), SettleFirstFails(r, price) PROVE TokenLedger(s)'
  BY <1>13 DEF SettleFirstFails, TokenFirst, Delta, EnoughToken, ChargeToken, Prices
<1>14. ASSUME NEW r \in Requests, SettleWallet(r) PROVE TokenLedger(s)'
  BY <1>14 DEF SettleWallet, ChargeWallet, Delta, AfterFunding
<1>15. ASSUME NEW r \in Requests, SettleSubscription(r) PROVE TokenLedger(s)'
  BY <1>15 DEF SettleSubscription, SettleSubscriptionPreConsume, ChargeSubscription, Clamp, Fits, Delta, AfterFunding
<1>16. ASSUME NEW r \in Requests, SettleSubscriptionExceeds(r) PROVE TokenLedger(s)'
  BY <1>16 DEF SettleSubscriptionExceeds, Delta, AfterFundingError
<1>17. ASSUME NEW r \in Requests, SettleFundingFails(r) PROVE TokenLedger(s)'
  BY <1>17 DEF SettleFundingFails, ChargeWallet, SettleSubscriptionPreConsume, ChargeSubscription, Clamp, Fits, Delta, AfterFundingError
<1>18. ASSUME NEW r \in Requests, SettleUndoToken(r) PROVE TokenLedger(s)'
  BY <1>18 DEF SettleUndoToken, ChargeToken, Delta
<1>19. ASSUME NEW r \in Requests, SettleToken(r) PROVE TokenLedger(s)'
  BY <1>19 DEF SettleToken, ChargeToken, Delta
<1>20. ASSUME NEW r \in Requests, LeaveUnsettled(r) PROVE TokenLedger(s)'
  BY <1>20 DEF LeaveUnsettled
<1>21. ASSUME NEW r \in Requests, Refund(r) PROVE TokenLedger(s)'
  BY <1>21 DEF Refund, NeedsRefund
<1>22. ASSUME NEW r \in Requests, RefundWallet(r) PROVE TokenLedger(s)'
  BY <1>22 DEF RefundWallet, ChargeWallet
<1>23. ASSUME NEW r \in Requests, RefundSubscription(r) PROVE TokenLedger(s)'
  BY <1>23 DEF RefundSubscription, RefundSubscriptionPreConsume, ChargeSubscription, Clamp
<1>24. ASSUME NEW r \in Requests, RefundSubscriptionFails(r) PROVE TokenLedger(s)'
  BY <1>24 DEF RefundSubscriptionFails
<1>25. ASSUME NEW r \in Requests, RefundToken(r) PROVE TokenLedger(s)'
  BY <1>25 DEF RefundToken, ChargeToken
<1>26. ASSUME NEW r \in Requests, Crash(r) PROVE TokenLedger(s)'
  BY <1>26 DEF Crash
<1>27. CASE ResetTimePasses
  BY <1>27 DEF ResetTimePasses
<1>28. CASE ResetDueSubscriptions
  BY <1>28 DEF ResetDueSubscriptions
<1>29. CASE ExpireDueSubscriptions
  BY <1>29 DEF ExpireDueSubscriptions
<1>30. CASE UNCHANGED vars
  BY <1>30
<1>31. QED
  BY <1>1, <1>2, <1>3, <1>4, <1>5, <1>6, <1>7, <1>8, <1>9, <1>10, <1>11, <1>12, <1>13, <1>14, <1>15, <1>16, <1>17, <1>18, <1>19, <1>20, <1>21, <1>22, <1>23, <1>24, <1>25, <1>26, <1>27, <1>28, <1>29, <1>30 DEF Next, Step

(* Every step keeps the funding side of the ledger. *)
LEMMA FundLedgerStep == IInv /\ [Next]_vars => \A s \in Requests : FundLedger(s)'
<1> SUFFICES ASSUME IInv, [Next]_vars, NEW s \in Requests PROVE FundLedger(s)'
  OBVIOUS
<1> USE BillingAssumption DEF IInv, TypeOK, TokenLedger, FundLedger, Unfunded, PreConsuming, Open, Settling, Refunding, Final, Goto, Fails, session, wallet, token, sub, vars
<1>1. ASSUME NEW r \in Requests, NewBillingSession(r) PROVE FundLedger(s)'
  BY <1>1 DEF NewBillingSession
<1>2. ASSUME NEW r \in Requests, TryWallet(r) PROVE FundLedger(s)'
  BY <1>2 DEF TryWallet, Trusted
<1>3. ASSUME NEW r \in Requests, TrySubscription(r) PROVE FundLedger(s)'
  BY <1>3 DEF TrySubscription
<1>4. ASSUME NEW r \in Requests, CheckToken(r) PROVE FundLedger(s)'
  BY <1>4 DEF CheckToken
<1>5. ASSUME NEW r \in Requests, TakeToken(r) PROVE FundLedger(s)'
  BY <1>5 DEF TakeToken, ChargeToken, EnoughToken
<1>6. ASSUME NEW r \in Requests, TakeTokenFails(r) PROVE FundLedger(s)'
  BY <1>6 DEF TakeTokenFails, ChargeToken, EnoughToken
<1>7. ASSUME NEW r \in Requests, PreConsumeWallet(r) PROVE FundLedger(s)'
  BY <1>7 DEF PreConsumeWallet, ChargeWallet, PreConsumed
<1>8. ASSUME NEW r \in Requests, PreConsumeSubscription(r) PROVE FundLedger(s)'
  BY <1>8 DEF PreConsumeSubscription, PreConsumeUserSubscription, UsedAfterReset, Fits, PreConsumed
<1>9. ASSUME NEW r \in Requests, SubscriptionShort(r) PROVE FundLedger(s)'
  BY <1>9 DEF SubscriptionShort
<1>10. ASSUME NEW r \in Requests, PreConsumeFails(r) PROVE FundLedger(s)'
  BY <1>10 DEF PreConsumeFails, ChargeWallet, PreConsumeUserSubscription, UsedAfterReset, Fits
<1>11. ASSUME NEW r \in Requests, RollbackToken(r) PROVE FundLedger(s)'
  BY <1>11 DEF RollbackToken, ChargeToken
<1>12. ASSUME NEW r \in Requests, NEW price \in Prices(r), Settle(r, price) PROVE FundLedger(s)'
  BY <1>12 DEF Settle, TokenFirst, Delta, EnoughToken, ChargeToken, Prices
<1>13. ASSUME NEW r \in Requests, NEW price \in Prices(r), SettleFirstFails(r, price) PROVE FundLedger(s)'
  BY <1>13 DEF SettleFirstFails, TokenFirst, Delta, EnoughToken, ChargeToken, Prices
<1>14. ASSUME NEW r \in Requests, SettleWallet(r) PROVE FundLedger(s)'
  BY <1>14 DEF SettleWallet, ChargeWallet, Delta, AfterFunding
<1>15. ASSUME NEW r \in Requests, SettleSubscription(r) PROVE FundLedger(s)'
  BY <1>15 DEF SettleSubscription, SettleSubscriptionPreConsume, ChargeSubscription, Clamp, Fits, Delta, AfterFunding
<1>16. ASSUME NEW r \in Requests, SettleSubscriptionExceeds(r) PROVE FundLedger(s)'
  BY <1>16 DEF SettleSubscriptionExceeds, Delta, AfterFundingError
<1>17. ASSUME NEW r \in Requests, SettleFundingFails(r) PROVE FundLedger(s)'
  BY <1>17 DEF SettleFundingFails, ChargeWallet, SettleSubscriptionPreConsume, ChargeSubscription, Clamp, Fits, Delta, AfterFundingError
<1>18. ASSUME NEW r \in Requests, SettleUndoToken(r) PROVE FundLedger(s)'
  BY <1>18 DEF SettleUndoToken, ChargeToken, Delta
<1>19. ASSUME NEW r \in Requests, SettleToken(r) PROVE FundLedger(s)'
  BY <1>19 DEF SettleToken, ChargeToken, Delta
<1>20. ASSUME NEW r \in Requests, LeaveUnsettled(r) PROVE FundLedger(s)'
  BY <1>20 DEF LeaveUnsettled
<1>21. ASSUME NEW r \in Requests, Refund(r) PROVE FundLedger(s)'
  BY <1>21 DEF Refund, NeedsRefund
<1>22. ASSUME NEW r \in Requests, RefundWallet(r) PROVE FundLedger(s)'
  BY <1>22 DEF RefundWallet, ChargeWallet
<1>23. ASSUME NEW r \in Requests, RefundSubscription(r) PROVE FundLedger(s)'
  <2>1. CASE s # r
    BY <1>23, <2>1 DEF RefundSubscription, RefundSubscriptionPreConsume, ChargeSubscription
  <2>2. CASE s = r
    <3>1. /\ UNCHANGED <<quota, actual, source, effective, preConsumed>>
          /\ source[r] = "subscription"
          /\ pc[r] = "refund_fund"
          /\ tries[r] < MaxAttempts
      BY <1>23 DEF RefundSubscription
    <3>2. /\ fundNet'[r] >= 0
          /\ record'[r] = "consumed" => fundNet'[r] = effective[r]
          /\ record'[r] = "settled" => fundNet'[r] = actual[r]
          /\ record'[r] = "refunded" => fundNet'[r] = 0
      <4>1. CASE record[r] = "consumed"
        <5>1. preConsumed[r] = effective[r] /\ fundNet[r] = effective[r]
          BY <3>1, <4>1
        <5>2. fundNet'[r] = fundNet[r] + (-preConsumed[r]) /\ record'[r] = "refunded"
          BY <1>23, <4>1 DEF RefundSubscription, RefundSubscriptionPreConsume, ChargeSubscription
        <5>3. QED
          BY <5>1, <5>2
      <4>2. CASE record[r] # "consumed"
        BY <1>23, <4>2 DEF RefundSubscription, RefundSubscriptionPreConsume
      <4>3. QED
        BY <4>1, <4>2
    <3>3. \/ pc'[r] = "refund_token"
          \/ pc'[r] = "refund_fund" /\ tries'[r] = tries[r] + 1 /\ tries[r] + 1 # MaxAttempts
      BY <1>23 DEF RefundSubscription
    <3>4. pc'[r] = "refund_token" \/ tries'[r] < MaxAttempts
      <4>1. tries[r] \in Nat /\ MaxAttempts \in Nat
        OBVIOUS
      <4>2. CASE pc'[r] # "refund_token"
        <5>1. tries'[r] = tries[r] + 1 /\ tries[r] + 1 # MaxAttempts
          BY <3>3, <4>2
        <5> HIDE DEF IInv
        <5>2. QED
          BY <3>1, <4>1, <5>1
      <4>3. QED
        BY <4>2
    <3>5. QED
      BY <2>2, <3>1, <3>2, <3>3, <3>4
  <2>3. QED
    BY <2>1, <2>2
<1>24. ASSUME NEW r \in Requests, RefundSubscriptionFails(r) PROVE FundLedger(s)'
  BY <1>24 DEF RefundSubscriptionFails
<1>25. ASSUME NEW r \in Requests, RefundToken(r) PROVE FundLedger(s)'
  BY <1>25 DEF RefundToken, ChargeToken
<1>26. ASSUME NEW r \in Requests, Crash(r) PROVE FundLedger(s)'
  BY <1>26 DEF Crash
<1>27. CASE ResetTimePasses
  BY <1>27 DEF ResetTimePasses
<1>28. CASE ResetDueSubscriptions
  BY <1>28 DEF ResetDueSubscriptions
<1>29. CASE ExpireDueSubscriptions
  BY <1>29 DEF ExpireDueSubscriptions
<1>30. CASE UNCHANGED vars
  BY <1>30
<1>31. QED
  BY <1>1, <1>2, <1>3, <1>4, <1>5, <1>6, <1>7, <1>8, <1>9, <1>10, <1>11, <1>12, <1>13, <1>14, <1>15, <1>16, <1>17, <1>18, <1>19, <1>20, <1>21, <1>22, <1>23, <1>24, <1>25, <1>26, <1>27, <1>28, <1>29, <1>30 DEF Next, Step

-----------------------------------------------------------------------------
(* The theorems *)

(* What every request took from its accounts is known at every position of *)
(* its handler: the inductive invariant holds in every reachable state.    *)
THEOREM Inductive == Spec => []IInv
<1>1. IInv /\ [Next]_vars => IInv'
  BY TypeStep, AccountsStep, TokenLedgerStep, FundLedgerStep DEF IInv
<1>2. QED
  BY <1>1, IInvInit, PTL DEF Spec

(* Balances are integers, the subscription's usage is never negative, and  *)
(* the session's fields keep their types (the clamp at zero in the         *)
(* refund and settle transactions of model/subscription.go).               *)
THEOREM TypeCorrect == Spec => []TypeOK
<1>1. IInv => TypeOK
  BY DEF IInv
<1>2. QED
  BY <1>1, Inductive, PTL

(* A hard-limited token is never overdrawn (DecreaseTokenQuotaWithLimit    *)
(* before the funding is settled, unconditional changes only in the token's*)
(* favour), for any number of concurrent requests and failures.            *)
THEOREM HardLimitSafe == Spec => []HardLimitHolds
<1>1. IInv => HardLimitHolds
  BY DEF IInv
<1>2. QED
  BY <1>1, Inductive, PTL

(* A limited subscription is never used beyond its total, for any number of*)
(* requests, resets and failures (the checks of PreConsumeUserSubscription *)
(* and SettleSubscriptionPreConsume).                                      *)
THEOREM SubscriptionSafe == Spec => []SubscriptionWithinTotal
<1>1. IInv => SubscriptionWithinTotal
  BY DEF IInv
<1>2. QED
  BY <1>1, Inductive, PTL

(* No request gives back more than it took, however its calls fail.        *)
THEOREM NobodyGains == Spec => []NoGain
<1>1. IInv => NoGain
  BY DEF IInv, NoGain, TokenLedger, FundLedger
<1>2. QED
  BY <1>1, Inductive, PTL

(* The pre-consume record alone says what a request has taken from its     *)
(* subscription (RefundSubscriptionPreConsume and                          *)
(* SettleSubscriptionPreConsume).                                          *)
THEOREM RecordsExact == Spec => []RecordDecides
<1>1. IInv => RecordDecides
  BY DEF IInv, RecordDecides, FundLedger
<1>2. QED
  BY <1>1, Inductive, PTL

-----------------------------------------------------------------------------
(* Requests without failures: what is taken at each position *)

Early == {"new", "wallet", "subscription", "token", "take"}

CleanToken(r) ==
    /\ pc[r] = "take" => r \notin Playground
    /\ pc[r] \in Early \cup {"denied", "refunded"} => tokenNet[r] = 0
    /\ pc[r] \in {"fund", "rollback_short", "running", "settle_failed"} \cup Refunding =>
          tokenNet[r] = Held(r)
    /\ pc[r] \in {"settle_fund", "settle_undo"} =>
          tokenNet[r] = IF tokenAdjusted[r] THEN actual[r] ELSE Held(r)
    /\ pc[r] = "settle_token" => tokenNet[r] = Held(r)
    /\ pc[r] = "settled" => tokenNet[r] = IF r \in Playground THEN 0 ELSE actual[r]

CleanFund(r) ==
    /\ pc[r] \notin {"rollback_error", "crashed"}
    /\ pc[r] \in Unfunded \cup {"denied", "refunded", "refund_token"} => fundNet[r] = 0
    /\ pc[r] \in {"running", "settle_fund", "settle_undo", "settle_failed", "refund_fund"} =>
          /\ fundNet[r] = preConsumed[r]
          /\ source[r] = "subscription" => record[r] = "consumed"
    /\ pc[r] \in {"settle_token", "settled"} => fundNet[r] = actual[r]

CleanInv == \A r \in Requests : failures[r] = 0 => CleanToken(r) /\ CleanFund(r)

(* A step that reports no error keeps the token side exact. *)
LEMMA CleanTokenStep ==
    IInv /\ CleanInv /\ [Next]_vars => \A s \in Requests : failures'[s] = 0 => CleanToken(s)'
<1> SUFFICES ASSUME IInv, CleanInv, [Next]_vars, NEW s \in Requests, failures'[s] = 0
             PROVE  CleanToken(s)'
  OBVIOUS
<1> USE BillingAssumption DEF IInv, CleanInv, TypeOK, TokenLedger, FundLedger, Unfunded, CleanToken, CleanFund, Early, PreConsuming, Open, Settling, Refunding, Held, Goto, Fails, session, wallet, token, sub, vars
<1>1. ASSUME NEW r \in Requests, NewBillingSession(r) PROVE CleanToken(s)'
  BY <1>1 DEF NewBillingSession
<1>2. ASSUME NEW r \in Requests, TryWallet(r) PROVE CleanToken(s)'
  BY <1>2 DEF TryWallet, Trusted
<1>3. ASSUME NEW r \in Requests, TrySubscription(r) PROVE CleanToken(s)'
  BY <1>3 DEF TrySubscription
<1>4. ASSUME NEW r \in Requests, CheckToken(r) PROVE CleanToken(s)'
  BY <1>4 DEF CheckToken
<1>5. ASSUME NEW r \in Requests, TakeToken(r) PROVE CleanToken(s)'
  BY <1>5 DEF TakeToken, ChargeToken, EnoughToken
<1>6. ASSUME NEW r \in Requests, TakeTokenFails(r) PROVE CleanToken(s)'
  BY <1>6 DEF TakeTokenFails, ChargeToken, EnoughToken
<1>7. ASSUME NEW r \in Requests, PreConsumeWallet(r) PROVE CleanToken(s)'
  BY <1>7 DEF PreConsumeWallet, ChargeWallet, PreConsumed
<1>8. ASSUME NEW r \in Requests, PreConsumeSubscription(r) PROVE CleanToken(s)'
  BY <1>8 DEF PreConsumeSubscription, PreConsumeUserSubscription, UsedAfterReset, Fits, PreConsumed
<1>9. ASSUME NEW r \in Requests, SubscriptionShort(r) PROVE CleanToken(s)'
  BY <1>9 DEF SubscriptionShort
<1>10. ASSUME NEW r \in Requests, PreConsumeFails(r) PROVE CleanToken(s)'
  BY <1>10 DEF PreConsumeFails, ChargeWallet, PreConsumeUserSubscription, UsedAfterReset, Fits
<1>11. ASSUME NEW r \in Requests, RollbackToken(r) PROVE CleanToken(s)'
  BY <1>11 DEF RollbackToken, ChargeToken
<1>12. ASSUME NEW r \in Requests, NEW price \in Prices(r), Settle(r, price) PROVE CleanToken(s)'
  BY <1>12 DEF Settle, TokenFirst, Delta, EnoughToken, ChargeToken, Prices
<1>13. ASSUME NEW r \in Requests, NEW price \in Prices(r), SettleFirstFails(r, price) PROVE CleanToken(s)'
  BY <1>13 DEF SettleFirstFails, TokenFirst, Delta, EnoughToken, ChargeToken, Prices
<1>14. ASSUME NEW r \in Requests, SettleWallet(r) PROVE CleanToken(s)'
  BY <1>14 DEF SettleWallet, ChargeWallet, Delta, AfterFunding
<1>15. ASSUME NEW r \in Requests, SettleSubscription(r) PROVE CleanToken(s)'
  BY <1>15 DEF SettleSubscription, SettleSubscriptionPreConsume, ChargeSubscription, Clamp, Fits, Delta, AfterFunding
<1>16. ASSUME NEW r \in Requests, SettleSubscriptionExceeds(r) PROVE CleanToken(s)'
  BY <1>16 DEF SettleSubscriptionExceeds, Delta, AfterFundingError
<1>17. ASSUME NEW r \in Requests, SettleFundingFails(r) PROVE CleanToken(s)'
  BY <1>17 DEF SettleFundingFails, ChargeWallet, SettleSubscriptionPreConsume, ChargeSubscription, Clamp, Fits, Delta, AfterFundingError
<1>18. ASSUME NEW r \in Requests, SettleUndoToken(r) PROVE CleanToken(s)'
  BY <1>18 DEF SettleUndoToken, ChargeToken, Delta
<1>19. ASSUME NEW r \in Requests, SettleToken(r) PROVE CleanToken(s)'
  BY <1>19 DEF SettleToken, ChargeToken, Delta
<1>20. ASSUME NEW r \in Requests, LeaveUnsettled(r) PROVE CleanToken(s)'
  BY <1>20 DEF LeaveUnsettled
<1>21. ASSUME NEW r \in Requests, Refund(r) PROVE CleanToken(s)'
  BY <1>21 DEF Refund, NeedsRefund
<1>22. ASSUME NEW r \in Requests, RefundWallet(r) PROVE CleanToken(s)'
  BY <1>22 DEF RefundWallet, ChargeWallet
<1>23. ASSUME NEW r \in Requests, RefundSubscription(r) PROVE CleanToken(s)'
  BY <1>23 DEF RefundSubscription, RefundSubscriptionPreConsume, ChargeSubscription, Clamp
<1>24. ASSUME NEW r \in Requests, RefundSubscriptionFails(r) PROVE CleanToken(s)'
  BY <1>24 DEF RefundSubscriptionFails
<1>25. ASSUME NEW r \in Requests, RefundToken(r) PROVE CleanToken(s)'
  BY <1>25 DEF RefundToken, ChargeToken
<1>26. ASSUME NEW r \in Requests, Crash(r) PROVE CleanToken(s)'
  BY <1>26 DEF Crash
<1>27. CASE ResetTimePasses
  BY <1>27 DEF ResetTimePasses
<1>28. CASE ResetDueSubscriptions
  BY <1>28 DEF ResetDueSubscriptions
<1>29. CASE ExpireDueSubscriptions
  BY <1>29 DEF ExpireDueSubscriptions
<1>30. CASE UNCHANGED vars
  BY <1>30
<1>31. QED
  BY <1>1, <1>2, <1>3, <1>4, <1>5, <1>6, <1>7, <1>8, <1>9, <1>10, <1>11, <1>12, <1>13, <1>14, <1>15, <1>16, <1>17, <1>18, <1>19, <1>20, <1>21, <1>22, <1>23, <1>24, <1>25, <1>26, <1>27, <1>28, <1>29, <1>30 DEF Next, Step

(* A step that reports no error keeps the funding side exact. *)
LEMMA CleanFundStep ==
    IInv /\ CleanInv /\ [Next]_vars => \A s \in Requests : failures'[s] = 0 => CleanFund(s)'
<1> SUFFICES ASSUME IInv, CleanInv, [Next]_vars, NEW s \in Requests, failures'[s] = 0
             PROVE  CleanFund(s)'
  OBVIOUS
<1> USE BillingAssumption DEF IInv, CleanInv, TypeOK, TokenLedger, FundLedger, Unfunded, CleanFund, Early, PreConsuming, Open, Settling, Refunding, Final, Goto, Fails, session, wallet, token, sub, vars
<1>1. ASSUME NEW r \in Requests, NewBillingSession(r) PROVE CleanFund(s)'
  BY <1>1 DEF NewBillingSession
<1>2. ASSUME NEW r \in Requests, TryWallet(r) PROVE CleanFund(s)'
  BY <1>2 DEF TryWallet, Trusted
<1>3. ASSUME NEW r \in Requests, TrySubscription(r) PROVE CleanFund(s)'
  BY <1>3 DEF TrySubscription
<1>4. ASSUME NEW r \in Requests, CheckToken(r) PROVE CleanFund(s)'
  BY <1>4 DEF CheckToken
<1>5. ASSUME NEW r \in Requests, TakeToken(r) PROVE CleanFund(s)'
  BY <1>5 DEF TakeToken, ChargeToken, EnoughToken
<1>6. ASSUME NEW r \in Requests, TakeTokenFails(r) PROVE CleanFund(s)'
  BY <1>6 DEF TakeTokenFails, ChargeToken, EnoughToken
<1>7. ASSUME NEW r \in Requests, PreConsumeWallet(r) PROVE CleanFund(s)'
  BY <1>7 DEF PreConsumeWallet, ChargeWallet, PreConsumed
<1>8. ASSUME NEW r \in Requests, PreConsumeSubscription(r) PROVE CleanFund(s)'
  BY <1>8 DEF PreConsumeSubscription, PreConsumeUserSubscription, UsedAfterReset, Fits, PreConsumed
<1>9. ASSUME NEW r \in Requests, SubscriptionShort(r) PROVE CleanFund(s)'
  BY <1>9 DEF SubscriptionShort
<1>10. ASSUME NEW r \in Requests, PreConsumeFails(r) PROVE CleanFund(s)'
  BY <1>10 DEF PreConsumeFails, ChargeWallet, PreConsumeUserSubscription, UsedAfterReset, Fits
<1>11. ASSUME NEW r \in Requests, RollbackToken(r) PROVE CleanFund(s)'
  BY <1>11 DEF RollbackToken, ChargeToken
<1>12. ASSUME NEW r \in Requests, NEW price \in Prices(r), Settle(r, price) PROVE CleanFund(s)'
  BY <1>12 DEF Settle, TokenFirst, Delta, EnoughToken, ChargeToken, Prices
<1>13. ASSUME NEW r \in Requests, NEW price \in Prices(r), SettleFirstFails(r, price) PROVE CleanFund(s)'
  BY <1>13 DEF SettleFirstFails, TokenFirst, Delta, EnoughToken, ChargeToken, Prices
<1>14. ASSUME NEW r \in Requests, SettleWallet(r) PROVE CleanFund(s)'
  BY <1>14 DEF SettleWallet, ChargeWallet, Delta, AfterFunding
<1>15. ASSUME NEW r \in Requests, SettleSubscription(r) PROVE CleanFund(s)'
  BY <1>15 DEF SettleSubscription, SettleSubscriptionPreConsume, ChargeSubscription, Clamp, Fits, Delta, AfterFunding
<1>16. ASSUME NEW r \in Requests, SettleSubscriptionExceeds(r) PROVE CleanFund(s)'
  BY <1>16 DEF SettleSubscriptionExceeds, Delta, AfterFundingError
<1>17. ASSUME NEW r \in Requests, SettleFundingFails(r) PROVE CleanFund(s)'
  BY <1>17 DEF SettleFundingFails, ChargeWallet, SettleSubscriptionPreConsume, ChargeSubscription, Clamp, Fits, Delta, AfterFundingError
<1>18. ASSUME NEW r \in Requests, SettleUndoToken(r) PROVE CleanFund(s)'
  BY <1>18 DEF SettleUndoToken, ChargeToken, Delta
<1>19. ASSUME NEW r \in Requests, SettleToken(r) PROVE CleanFund(s)'
  BY <1>19 DEF SettleToken, ChargeToken, Delta
<1>20. ASSUME NEW r \in Requests, LeaveUnsettled(r) PROVE CleanFund(s)'
  BY <1>20 DEF LeaveUnsettled
<1>21. ASSUME NEW r \in Requests, Refund(r) PROVE CleanFund(s)'
  BY <1>21 DEF Refund, NeedsRefund
<1>22. ASSUME NEW r \in Requests, RefundWallet(r) PROVE CleanFund(s)'
  BY <1>22 DEF RefundWallet, ChargeWallet
<1>23. ASSUME NEW r \in Requests, RefundSubscription(r) PROVE CleanFund(s)'
  BY <1>23 DEF RefundSubscription, RefundSubscriptionPreConsume, ChargeSubscription, Clamp
<1>24. ASSUME NEW r \in Requests, RefundSubscriptionFails(r) PROVE CleanFund(s)'
  BY <1>24 DEF RefundSubscriptionFails
<1>25. ASSUME NEW r \in Requests, RefundToken(r) PROVE CleanFund(s)'
  BY <1>25 DEF RefundToken, ChargeToken
<1>26. ASSUME NEW r \in Requests, Crash(r) PROVE CleanFund(s)'
  BY <1>26 DEF Crash
<1>27. CASE ResetTimePasses
  BY <1>27 DEF ResetTimePasses
<1>28. CASE ResetDueSubscriptions
  BY <1>28 DEF ResetDueSubscriptions
<1>29. CASE ExpireDueSubscriptions
  BY <1>29 DEF ExpireDueSubscriptions
<1>30. CASE UNCHANGED vars
  BY <1>30
<1>31. QED
  BY <1>1, <1>2, <1>3, <1>4, <1>5, <1>6, <1>7, <1>8, <1>9, <1>10, <1>11, <1>12, <1>13, <1>14, <1>15, <1>16, <1>17, <1>18, <1>19, <1>20, <1>21, <1>22, <1>23, <1>24, <1>25, <1>26, <1>27, <1>28, <1>29, <1>30 DEF Next, Step

(* The initial states satisfy it. *)
LEMMA CleanInit == Init => CleanInv
BY DEF Init, CleanInv, CleanToken, CleanFund, Early, Unfunded, Refunding, Held

(* A request none of whose calls failed is charged exactly once on both    *)
(* sides (Settle, Refund and preConsume of billing_session.go), for any    *)
(* number of other requests on the same accounts, failing or not.          *)
THEOREM ChargesOnce == Spec => []ChargedOnce
<1>1. IInv /\ CleanInv /\ [Next]_vars => CleanInv'
  BY CleanTokenStep, CleanFundStep DEF CleanInv
<1>2. CleanInv => ChargedOnce
  BY DEF CleanInv, CleanToken, CleanFund, ChargedOnce
<1>3. QED
  BY <1>1, <1>2, CleanInit, Inductive, PTL DEF Spec

-----------------------------------------------------------------------------
(* The usage of the current period *)

\* No request is born after the present period, and none in it while its reset is due.
BornInv ==
    \A r \in Requests : record[r] # "none" => born[r] <= period /\ (due => born[r] < period)

UsageInv == BornInv /\ UsageSurvivesReset

(* A step that leaves the subscription and its records alone. *)
LEMMA UsageFrame ==
    ASSUME UsageInv, UNCHANGED <<sub, record>>,
           \A r \in Requests : record[r] # "none" => fundNet'[r] = fundNet[r]
    PROVE  UsageInv'
<1>1. [r \in Requests |-> UsageOf(r)]' = [r \in Requests |-> UsageOf(r)]
  BY DEF UsageOf, sub
<1>2. CurrentUsage' = CurrentUsage
  BY <1>1 DEF CurrentUsage
<1>3. QED
  BY <1>2 DEF UsageInv, BornInv, UsageSurvivesReset, sub

(* What the requests took together is a natural number ...                 *)
LEMMA UsageType ==
    ASSUME IInv
    PROVE  CurrentUsage \in Nat
<1>1. \A r \in Requests : UsageOf(r) \in Nat
  BY DEF IInv, FundLedger, TypeOK, UsageOf
<1>2. QED
  BY <1>1, TotalType, BillingAssumption DEF CurrentUsage

(* ... and follows what one of them does.                                  *)
LEMMA UsageMove ==
    ASSUME IInv, IInv', NEW r \in Requests,
           \A s \in Requests \ {r} : UsageOf(s)' = UsageOf(s)
    PROVE  CurrentUsage' = CurrentUsage - UsageOf(r) + UsageOf(r)' /\ CurrentUsage' \in Nat
<1> DEFINE usage == [s \in Requests |-> UsageOf(s)]
<1>1. \A s \in Requests : UsageOf(s) \in Nat /\ UsageOf(s)' \in Nat
  BY DEF IInv, FundLedger, TypeOK, UsageOf
<1>2. \A s \in Requests : usage[s] \in Nat
  BY <1>1
<1>3. usage'[r] \in Nat /\ \A s \in Requests \ {r} : usage[s] = usage'[s]
  BY <1>1
<1>4. IsFiniteSet(Requests)
  BY BillingAssumption
<1>5. /\ Total(Requests, usage') = Total(Requests, usage) - usage[r] + usage'[r]
      /\ Total(Requests, usage') \in Nat
  <2> HIDE DEF usage
  <2> QED
    BY <1>2, <1>3, <1>4, TotalUpdate, ZenonT(90)
<1>6. QED
  BY <1>5 DEF CurrentUsage

(* PreConsumeUserSubscription, with the reset when it is due.              *)
LEMMA UsagePreConsumed ==
    ASSUME IInv, IInv', UsageInv, NEW r \in Requests, PreConsumeUserSubscription(r),
           record[r] = "none", fundNet[r] = 0
    PROVE  UsageInv'
<1>1. /\ record' = [record EXCEPT ![r] = "consumed"]
      /\ born' = [born EXCEPT ![r] = period]
      /\ fundNet' = [fundNet EXCEPT ![r] = @ + effective[r]]
      /\ due' = FALSE /\ period' = period
      /\ amountUsed' = UsedAfterReset + effective[r]
      /\ lateRelease' = IF due THEN 0 ELSE lateRelease
      /\ lateCharge' = IF due THEN 0 ELSE lateCharge
  BY DEF PreConsumeUserSubscription
<1>2. BornInv'
  BY <1>1 DEF UsageInv, BornInv, IInv, TypeOK
<1>3. \A s \in Requests \ {r} : UsageOf(s)' = UsageOf(s)
  BY <1>1 DEF UsageOf, IInv, TypeOK
<1>4. UsageOf(r) = 0 /\ UsageOf(r)' = effective[r]
  BY <1>1 DEF UsageOf, IInv, TypeOK
<1>5. CurrentUsage' = CurrentUsage + effective[r]
  BY <1>3, <1>4, UsageMove, UsageType
<1>6. /\ effective[r] \in Nat /\ amountUsed \in Nat /\ lateCharge \in Nat /\ lateRelease \in Nat
      /\ CurrentUsage \in Nat /\ due \in BOOLEAN
  BY UsageType DEF IInv, TypeOK
<1>7. CASE due
  <2>1. \A s \in Requests : UsageOf(s) = 0
    BY <1>7 DEF UsageInv, BornInv, UsageOf, IInv, TypeOK
  <2>2. CurrentUsage = 0
    BY <2>1, TotalZero DEF CurrentUsage
  <2>3. QED
    BY <1>1, <1>2, <1>5, <1>6, <1>7, <2>2 DEF UsageInv, UsageSurvivesReset, UsedAfterReset
<1>8. CASE ~due
  BY <1>1, <1>2, <1>5, <1>6, <1>8 DEF UsageInv, UsageSurvivesReset, UsedAfterReset
<1>9. QED
  BY <1>6, <1>7, <1>8

(* SettleSubscriptionPreConsume and RefundSubscriptionPreConsume, for a    *)
(* request of this period or of an earlier one.                            *)
LEMMA UsageCharged ==
    ASSUME IInv, IInv', UsageInv, NEW r \in Requests, NEW n \in Int, ChargeSubscription(r, n),
           record[r] # "none", record'[r] # "none",
           \A s \in Requests \ {r} : record'[s] = record[s]
    PROVE  UsageInv'
<1>1. /\ amountUsed' = Clamp(amountUsed + n)
      /\ fundNet' = [fundNet EXCEPT ![r] = @ + n]
      /\ lateRelease' = IF born[r] # period /\ Clamp(amountUsed + n) < amountUsed
                        THEN lateRelease + (amountUsed - Clamp(amountUsed + n)) ELSE lateRelease
      /\ lateCharge' = IF born[r] # period /\ Clamp(amountUsed + n) > amountUsed
                       THEN lateCharge + (Clamp(amountUsed + n) - amountUsed) ELSE lateCharge
      /\ UNCHANGED <<due, period, born>>
  BY DEF ChargeSubscription
<1>2. BornInv'
  BY <1>1 DEF UsageInv, BornInv
<1>3. \A s \in Requests \ {r} : UsageOf(s)' = UsageOf(s)
  BY <1>1 DEF UsageOf, IInv, TypeOK
<1>4. UsageOf(r)' = IF born[r] = period THEN UsageOf(r) + n ELSE UsageOf(r)
  BY <1>1 DEF UsageOf, IInv, TypeOK
<1>5. /\ CurrentUsage \in Nat /\ CurrentUsage' \in Nat /\ UsageOf(r) \in Int
      /\ amountUsed \in Nat /\ lateCharge \in Nat /\ lateRelease \in Nat
  BY <1>3, UsageType, UsageMove DEF IInv, TypeOK, UsageOf
<1>6. CurrentUsage' = IF born[r] = period THEN CurrentUsage + n ELSE CurrentUsage
  BY <1>3, <1>4, <1>5, UsageMove
<1>7. UsageSurvivesReset'
  BY <1>1, <1>5, <1>6 DEF UsageInv, UsageSurvivesReset, Clamp
<1>8. QED
  BY <1>2, <1>7 DEF UsageInv

(* Every step keeps the books of the subscription. *)
LEMMA UsageStep == IInv /\ IInv' /\ UsageInv /\ [Next]_vars => UsageInv'
<1> SUFFICES ASSUME IInv, IInv', UsageInv, [Next]_vars PROVE UsageInv'
  OBVIOUS
<1>a. /\ record \in [Requests -> {"none", "consumed", "settled", "refunded"}]
      /\ fundNet \in [Requests -> Int]
      /\ \A r \in Requests : preConsumed[r] \in Nat /\ actual[r] \in Nat
  BY DEF IInv, TypeOK
<1>1. ASSUME NEW r \in Requests, NewBillingSession(r) PROVE UsageInv'
  BY <1>1, UsageFrame DEF NewBillingSession
<1>2. ASSUME NEW r \in Requests, TryWallet(r) PROVE UsageInv'
  BY <1>2, UsageFrame DEF TryWallet
<1>3. ASSUME NEW r \in Requests, TrySubscription(r) PROVE UsageInv'
  BY <1>3, UsageFrame DEF TrySubscription
<1>4. ASSUME NEW r \in Requests, CheckToken(r) PROVE UsageInv'
  BY <1>4, UsageFrame DEF CheckToken
<1>5. ASSUME NEW r \in Requests, TakeToken(r) PROVE UsageInv'
  BY <1>5, UsageFrame DEF TakeToken
<1>6. ASSUME NEW r \in Requests, TakeTokenFails(r) PROVE UsageInv'
  BY <1>6, UsageFrame DEF TakeTokenFails
<1>7. ASSUME NEW r \in Requests, SubscriptionShort(r) PROVE UsageInv'
  BY <1>7, UsageFrame DEF SubscriptionShort
<1>8. ASSUME NEW r \in Requests, RollbackToken(r) PROVE UsageInv'
  BY <1>8, UsageFrame DEF RollbackToken
<1>9. ASSUME NEW r \in Requests, SettleSubscriptionExceeds(r) PROVE UsageInv'
  BY <1>9, UsageFrame DEF SettleSubscriptionExceeds
<1>10. ASSUME NEW r \in Requests, SettleUndoToken(r) PROVE UsageInv'
  BY <1>10, UsageFrame DEF SettleUndoToken
<1>11. ASSUME NEW r \in Requests, SettleToken(r) PROVE UsageInv'
  BY <1>11, UsageFrame DEF SettleToken
<1>12. ASSUME NEW r \in Requests, LeaveUnsettled(r) PROVE UsageInv'
  BY <1>12, UsageFrame DEF LeaveUnsettled
<1>13. ASSUME NEW r \in Requests, Refund(r) PROVE UsageInv'
  BY <1>13, UsageFrame DEF Refund
<1>14. ASSUME NEW r \in Requests, RefundSubscriptionFails(r) PROVE UsageInv'
  BY <1>14, UsageFrame DEF RefundSubscriptionFails
<1>15. ASSUME NEW r \in Requests, RefundToken(r) PROVE UsageInv'
  BY <1>15, UsageFrame DEF RefundToken
<1>16. ASSUME NEW r \in Requests, Crash(r) PROVE UsageInv'
  BY <1>16, UsageFrame DEF Crash
<1>17. ASSUME NEW r \in Requests, NEW price, Settle(r, price) \/ SettleFirstFails(r, price)
      PROVE  UsageInv'
  BY <1>17, UsageFrame DEF Settle, SettleFirstFails
<1>18. ASSUME NEW r \in Requests, ChargeWallet(r, effective[r]) \/ ChargeWallet(r, -preConsumed[r])
                                 \/ ChargeWallet(r, Delta(r, actual[r])),
             record[r] = "none", UNCHANGED <<sub, record>>
      PROVE  UsageInv'
  BY <1>a, <1>18, UsageFrame DEF ChargeWallet
<1>19. ASSUME NEW r \in Requests, pc[r] = "fund" PROVE record[r] = "none" /\ fundNet[r] = 0
  BY <1>19 DEF IInv, FundLedger, Unfunded
<1>20. ASSUME NEW r \in Requests, pc[r] \in {"settle_fund", "refund_fund"}, source[r] = "wallet"
      PROVE  record[r] = "none"
  BY <1>20 DEF IInv, FundLedger, Open, Settling, Refunding
<1>21. ASSUME NEW r \in Requests, SettleSubscriptionPreConsume(r) PROVE UsageInv'
  <2>1. Delta(r, actual[r]) \in Int
    BY <1>a DEF Delta
  <2>2. /\ ChargeSubscription(r, Delta(r, actual[r])) /\ record[r] = "consumed"
        /\ record' = [record EXCEPT ![r] = "settled"]
    BY <1>21 DEF SettleSubscriptionPreConsume
  <2>3. QED
    BY <1>a, <2>1, <2>2, UsageCharged
<1>22. ASSUME NEW r \in Requests, PreConsumeWallet(r) PROVE UsageInv'
  BY <1>22, <1>18, <1>19 DEF PreConsumeWallet
<1>23. ASSUME NEW r \in Requests, PreConsumeSubscription(r) PROVE UsageInv'
  BY <1>23, <1>19, UsagePreConsumed DEF PreConsumeSubscription
<1>24. ASSUME NEW r \in Requests, PreConsumeFails(r) PROVE UsageInv'
  <2>1. CASE UNCHANGED <<wallet, sub, record, fundNet>>
    BY <2>1, UsageFrame
  <2>2. QED
    BY <1>24, <1>18, <1>19, <2>1, UsagePreConsumed DEF PreConsumeFails
<1>25. ASSUME NEW r \in Requests, SettleWallet(r) PROVE UsageInv'
  BY <1>25, <1>18, <1>20 DEF SettleWallet
<1>26. ASSUME NEW r \in Requests, SettleSubscription(r) PROVE UsageInv'
  BY <1>26, <1>21 DEF SettleSubscription
<1>27. ASSUME NEW r \in Requests, SettleFundingFails(r) PROVE UsageInv'
  <2>1. CASE UNCHANGED <<wallet, sub, record, fundNet>>
    BY <2>1, UsageFrame
  <2>2. QED
    BY <1>27, <1>18, <1>20, <1>21, <2>1 DEF SettleFundingFails
<1>28. ASSUME NEW r \in Requests, RefundWallet(r) PROVE UsageInv'
  <2>1. CASE UNCHANGED <<wallet, fundNet>>
    BY <1>28, <2>1, UsageFrame DEF RefundWallet
  <2>2. QED
    BY <1>28, <1>18, <1>20, <2>1 DEF RefundWallet
<1>29. ASSUME NEW r \in Requests, RefundSubscription(r) PROVE UsageInv'
  <2>1. CASE record[r] = "consumed"
    <3>1. -preConsumed[r] \in Int
      BY <1>a
    <3>2. /\ ChargeSubscription(r, -preConsumed[r])
          /\ record' = [record EXCEPT ![r] = "refunded"]
      BY <1>29, <2>1 DEF RefundSubscription, RefundSubscriptionPreConsume
    <3>3. QED
      BY <1>a, <2>1, <3>1, <3>2, UsageCharged
  <2>2. CASE record[r] # "consumed"
    BY <1>29, <2>2, UsageFrame DEF RefundSubscription, RefundSubscriptionPreConsume
  <2>3. QED
    BY <2>1, <2>2
<1>30. CASE ResetTimePasses
  BY <1>30 DEF ResetTimePasses, UsageInv, BornInv, UsageSurvivesReset, IInv, TypeOK
<1>31. CASE ResetDueSubscriptions
  <2>1. \A s \in Requests : UsageOf(s)' = 0
    BY <1>31 DEF ResetDueSubscriptions, UsageInv, BornInv, UsageOf, IInv, TypeOK
  <2>2. CurrentUsage' = 0
    BY <2>1, TotalZero DEF CurrentUsage
  <2>3. QED
    BY <1>31, <2>2 DEF ResetDueSubscriptions, UsageInv, BornInv, UsageSurvivesReset
<1>32. CASE ExpireDueSubscriptions \/ UNCHANGED vars
  BY <1>32, UsageFrame DEF ExpireDueSubscriptions, vars
<1>33. QED
  BY <1>1, <1>2, <1>3, <1>4, <1>5, <1>6, <1>7, <1>8, <1>9, <1>10, <1>11, <1>12, <1>13, <1>14, <1>15, <1>16, <1>17, <1>22, <1>23, <1>24, <1>25, <1>26, <1>27, <1>28, <1>29, <1>30, <1>31, <1>32
  DEF Next, Step

(* A period reset loses no usage of the new period and keeps none of the   *)
(* old one (maybeResetUserSubscriptionWithPlanTx), whichever requests      *)
(* settle or refund across it.                                             *)
THEOREM ResetKeepsUsage == Spec => []UsageSurvivesReset
<1>1. Init => UsageInv
  <2> SUFFICES ASSUME Init PROVE UsageInv
    OBVIOUS
  <2>1. \A s \in Requests : UsageOf(s) = 0
    BY DEF Init, UsageOf
  <2>2. CurrentUsage = 0
    BY <2>1, TotalZero DEF CurrentUsage
  <2>3. QED
    BY <2>2 DEF Init, UsageInv, BornInv, UsageSurvivesReset
<1>2. UsageInv => UsageSurvivesReset
  BY DEF UsageInv
<1>3. QED
  BY <1>1, <1>2, UsageStep, Inductive, PTL DEF Spec
=============================================================================
