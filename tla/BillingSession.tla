---------------------------- MODULE BillingSession ----------------------------
(***************************************************************************)
(* The billing session of a relay request (service/billing_session.go and  *)
(* service/funding_source.go) over the accounts it moves: the user's       *)
(* wallet, the API token's remaining quota, and a subscription with its    *)
(* pre-consume records (model/user.go, model/token.go,                     *)
(* model/subscription.go).                                                 *)
(*                                                                         *)
(* A session takes an estimate from the token and from the wallet or the   *)
(* subscription before the request is forwarded.  It then settles the      *)
(* difference to the actual price, or gives everything back.  The accounts *)
(* have no common transaction: every statement or transaction is one       *)
(* action, any of them may fail, before or after it took effect, and the   *)
(* sessions of one user and token interleave between them.  One user, one  *)
(* token and one subscription are modelled.                                *)
(***************************************************************************)
EXTENDS Integers, FiniteSets, QuotaTotals

CONSTANTS
    Requests,
    PerCall,         \* Midjourney handlers: fixed price, refund when settling fails
    Playground,      \* requests of the web playground: no token is charged
    Forced,          \* asynchronous tasks: ForcePreConsume, never trusted
    Preference,      \* Preference[r]: the user's billing preference, normalized
    Quotas,          \* possible estimates
    Actuals,         \* possible actual prices of a request that is not per call
    Wallets,         \* wallet balances to start with
    Tokens,          \* remaining token quotas to start with
    AmountTotal,     \* the subscription's total per period; 0: unlimited
    HardLimit,       \* TRUE: the token has quota_hard_limit_enabled
    TokenUnlimited,  \* TRUE: the token has unlimited_quota
    TrustQuota,      \* balances above this are trusted; 0: nobody is
    MaxAttempts,     \* attempts of a subscription refund
    MaxPeriod,       \* bound: number of reset times that pass
    MaxFailures      \* bound: failed calls per request

ASSUME BillingAssumption ==
    /\ IsFiniteSet(Requests)
    /\ PerCall \subseteq Requests
    /\ Playground \subseteq Requests
    /\ Forced \subseteq Requests
    /\ Preference \in [Requests -> {"subscription_only", "wallet_only",
                                    "wallet_first", "subscription_first"}]
    /\ Quotas \subseteq Nat
    /\ Actuals \subseteq Nat
    /\ Wallets \subseteq Int
    /\ Tokens \subseteq Nat
    /\ AmountTotal \in Nat
    /\ HardLimit \in BOOLEAN
    /\ TokenUnlimited \in BOOLEAN
    /\ TrustQuota \in Nat
    /\ MaxAttempts \in Nat \ {0}
    /\ MaxPeriod \in Nat
    /\ MaxFailures \in Nat

VARIABLES
    pc,             \* pc[r]: the next step of the handler or of the refund goroutine
    quota,          \* quota[r]: estimated price
    actual,         \* actual[r]: price to settle
    source,         \* source[r]: funding.Source()
    effective,      \* effective[r]: effectiveQuota of preConsume
    preConsumed,    \* BillingSession.preConsumedQuota
    tokenConsumed,  \* BillingSession.tokenConsumed
    tokenAdjusted,  \* tokenAdjustedBeforeFunding of Settle
    tries,          \* attempts of refundWithRetry
    userQuota,      \* users.quota
    remainQuota,    \* tokens.remain_quota
    amountUsed,     \* user_subscriptions.amount_used
    active,         \* the subscription is active and not past its end
    due,            \* next_reset_time has passed and the reset was not made yet
    period,         \* number of reset times that have passed
    record,         \* subscription_pre_consume_records: status and settled_at
    failures,       \* failures[r]: calls of r that reported an error
    fundNet,        \* history: what r took from its funding source so far
    tokenNet,       \* history: what r took from the token so far
    born,           \* history: the period in which r pre-consumed the subscription
    lateRelease,    \* history: given back in this period by requests of earlier ones
    lateCharge      \* history: taken in this period by requests of earlier ones

session == <<quota, actual, source, effective, preConsumed, tokenConsumed, tokenAdjusted, tries>>
wallet  == <<userQuota>>
token   == <<remainQuota, tokenNet>>
sub     == <<amountUsed, due, period, born, lateRelease, lateCharge>>
vars    == <<pc, session, wallet, token, sub, active, record, failures, fundNet>>

Clamp(n) == IF n < 0 THEN 0 ELSE n

PreConsuming == {"new", "wallet", "subscription", "token", "take", "fund", "rollback_short",
                 "rollback_error"}
Settling     == {"settle_fund", "settle_undo", "settle_token"}
Refunding    == {"refund_fund", "refund_token"}
Final        == {"denied", "settled", "refunded", "unsettled", "crashed"}

TypeOK ==
    /\ pc \in [Requests -> PreConsuming \cup Settling \cup Refunding \cup Final
                             \cup {"running", "settle_failed"}]
    /\ quota \in [Requests -> Nat]
    /\ actual \in [Requests -> Nat]
    /\ source \in [Requests -> {"wallet", "subscription"}]
    /\ effective \in [Requests -> Nat]
    /\ preConsumed \in [Requests -> Nat]
    /\ tokenConsumed \in [Requests -> Nat]
    /\ tokenAdjusted \in [Requests -> BOOLEAN]
    /\ tries \in [Requests -> 0 .. MaxAttempts]
    /\ userQuota \in Int
    /\ remainQuota \in Int
    /\ amountUsed \in Nat
    /\ active \in BOOLEAN
    /\ due \in BOOLEAN
    /\ period \in 0 .. MaxPeriod
    /\ record \in [Requests -> {"none", "consumed", "settled", "refunded"}]
    /\ failures \in [Requests -> 0 .. MaxFailures]
    /\ fundNet \in [Requests -> Int]
    /\ tokenNet \in [Requests -> Int]
    /\ born \in [Requests -> 0 .. MaxPeriod]
    /\ lateRelease \in Nat
    /\ lateCharge \in Nat

Init ==
    /\ pc = [r \in Requests |-> "new"]
    /\ quota \in [Requests -> Quotas]
    /\ \A r \in PerCall : quota[r] > 0
    /\ actual = [r \in Requests |-> 0]
    /\ source = [r \in Requests |-> "wallet"]
    /\ effective = [r \in Requests |-> 0]
    /\ preConsumed = [r \in Requests |-> 0]
    /\ tokenConsumed = [r \in Requests |-> 0]
    /\ tokenAdjusted = [r \in Requests |-> FALSE]
    /\ tries = [r \in Requests |-> 0]
    /\ userQuota \in Wallets
    /\ remainQuota \in Tokens
    /\ amountUsed = 0
    /\ active \in BOOLEAN
    /\ due = FALSE
    /\ period = 0
    /\ record = [r \in Requests |-> "none"]
    /\ failures = [r \in Requests |-> 0]
    /\ fundNet = [r \in Requests |-> 0]
    /\ tokenNet = [r \in Requests |-> 0]
    /\ born = [r \in Requests |-> 0]
    /\ lateRelease = 0
    /\ lateCharge = 0

-----------------------------------------------------------------------------
(* The accounts *)

Goto(r, state) == pc' = [pc EXCEPT ![r] = state]

Fails(r) ==
    /\ failures[r] < MaxFailures
    /\ failures' = [failures EXCEPT ![r] = @ + 1]

\* DecreaseUserQuota for n > 0, IncreaseUserQuota for n < 0
ChargeWallet(r, n) ==
    /\ userQuota' = userQuota - n
    /\ fundNet' = [fundNet EXCEPT ![r] = @ + n]

\* DecreaseTokenQuota for n > 0, IncreaseTokenQuota for n < 0
ChargeToken(r, n) ==
    /\ remainQuota' = remainQuota - n
    /\ tokenNet' = [tokenNet EXCEPT ![r] = @ + n]

\* Mutant: the update does not repeat the check of the read before it.
MutantEnoughToken(n) == TRUE

\* UPDATE tokens ... WHERE remain_quota >= n
EnoughToken(n) == remainQuota >= n

\* Charges n to amount_used, or gives -n back; never below zero.
ChargeSubscription(r, n) ==
    LET used == Clamp(amountUsed + n)
        late == born[r] # period
    IN  /\ amountUsed' = used
        /\ fundNet' = [fundNet EXCEPT ![r] = @ + n]
        /\ lateRelease' = IF late /\ used < amountUsed
                          THEN lateRelease + (amountUsed - used) ELSE lateRelease
        /\ lateCharge' = IF late /\ used > amountUsed
                         THEN lateCharge + (used - amountUsed) ELSE lateCharge
        /\ UNCHANGED <<due, period, born>>

\* Mutant: the quota in use is not part of the check.
MutantFits(used, n) == AmountTotal > 0 => n <= AmountTotal

Fits(used, n) == AmountTotal > 0 => used + n <= AmountTotal

-----------------------------------------------------------------------------
(* NewBillingSession and preConsume *)

NewBillingSession(r) ==
    /\ pc[r] = "new"
    /\ Goto(r, IF Preference[r] = "subscription_only"
                  \/ (Preference[r] = "subscription_first" /\ active)
               THEN "subscription" ELSE "wallet")
    /\ UNCHANGED <<session, wallet, token, sub, active, record, failures, fundNet>>

\* shouldTrust; the token's quota is known from authentication.
Trusted(r, q, t) ==
    /\ r \notin Forced
    /\ ~HardLimit
    /\ TrustQuota > 0
    /\ TokenUnlimited \/ t > TrustQuota
    /\ q > TrustQuota

TryWallet(r) ==
    /\ pc[r] = "wallet"
    /\ \/ /\ userQuota > 0 /\ userQuota >= quota[r]
          /\ LET trusted == Trusted(r, userQuota, remainQuota)
             IN  /\ effective' = [effective EXCEPT ![r] = IF trusted THEN 0 ELSE quota[r]]
                 /\ Goto(r, IF trusted \/ quota[r] = 0 THEN "fund" ELSE "token")
          /\ source' = [source EXCEPT ![r] = "wallet"]
       \/ /\ ~(userQuota > 0 /\ userQuota >= quota[r])
          /\ Goto(r, IF Preference[r] = "wallet_first" THEN "subscription" ELSE "denied")
          /\ UNCHANGED <<effective, source>>
    /\ UNCHANGED <<quota, actual, preConsumed, tokenConsumed, tokenAdjusted, tries,
                   wallet, token, sub, active, record, failures, fundNet>>

TrySubscription(r) ==
    /\ pc[r] = "subscription"
    /\ source' = [source EXCEPT ![r] = "subscription"]
    /\ effective' = [effective EXCEPT ![r] = IF quota[r] = 0 THEN 1 ELSE quota[r]]
    /\ Goto(r, "token")
    /\ UNCHANGED <<quota, actual, preConsumed, tokenConsumed, tokenAdjusted, tries,
                   wallet, token, sub, active, record, failures, fundNet>>

\* PreConsumeTokenQuota: the token is read and compared ...
CheckToken(r) ==
    /\ pc[r] = "token"
    /\ \/ /\ r \in Playground
          /\ tokenConsumed' = [tokenConsumed EXCEPT ![r] = effective[r]]
          /\ Goto(r, "fund")
       \/ /\ r \notin Playground
          /\ Goto(r, IF (~TokenUnlimited \/ HardLimit) /\ remainQuota < effective[r]
                     THEN "denied" ELSE "take")
          /\ UNCHANGED tokenConsumed
    /\ UNCHANGED <<quota, actual, source, effective, preConsumed, tokenAdjusted, tries,
                   wallet, token, sub, active, record, failures, fundNet>>

\* ... and updated in a second statement.
TakeToken(r) ==
    /\ pc[r] = "take"
    /\ \/ /\ HardLimit => EnoughToken(effective[r])
          /\ ChargeToken(r, effective[r])
          /\ tokenConsumed' = [tokenConsumed EXCEPT ![r] = effective[r]]
          /\ Goto(r, "fund")
       \/ /\ HardLimit /\ ~EnoughToken(effective[r])
          /\ Goto(r, "denied")
          /\ UNCHANGED <<token, tokenConsumed>>
    /\ UNCHANGED <<quota, actual, source, effective, preConsumed, tokenAdjusted, tries,
                   wallet, sub, active, record, failures, fundNet>>

\* The session is not created, whether the update took effect or not.
TakeTokenFails(r) ==
    /\ pc[r] = "take"
    /\ Fails(r)
    /\ \/ (HardLimit => EnoughToken(effective[r])) /\ ChargeToken(r, effective[r])
       \/ UNCHANGED token
    /\ Goto(r, "denied")
    /\ UNCHANGED <<session, wallet, sub, active, record, fundNet>>

PreConsumed(r) ==
    /\ preConsumed' = [preConsumed EXCEPT ![r] = effective[r]]
    /\ Goto(r, "running")
    /\ UNCHANGED <<quota, actual, source, effective, tokenConsumed, tokenAdjusted, tries,
                   token, active, failures>>

PreConsumeWallet(r) ==
    /\ pc[r] = "fund"
    /\ source[r] = "wallet"
    /\ ChargeWallet(r, effective[r])
    /\ PreConsumed(r)
    /\ UNCHANGED <<sub, record>>

\* Mutant: the usage is reset whether the reset time has passed or not.
MutantUsedAfterReset == 0

\* maybeResetUserSubscriptionWithPlanTx, part of the same transaction.
UsedAfterReset == IF due THEN 0 ELSE amountUsed

\* One transaction: reset if due, check the remaining amount, create the record.
PreConsumeUserSubscription(r) ==
    /\ active
    /\ Fits(UsedAfterReset, effective[r])
    /\ amountUsed' = UsedAfterReset + effective[r]
    /\ fundNet' = [fundNet EXCEPT ![r] = @ + effective[r]]
    /\ record' = [record EXCEPT ![r] = "consumed"]
    /\ born' = [born EXCEPT ![r] = period]
    /\ due' = FALSE
    /\ lateRelease' = IF due THEN 0 ELSE lateRelease
    /\ lateCharge' = IF due THEN 0 ELSE lateCharge
    /\ UNCHANGED period

PreConsumeSubscription(r) ==
    /\ pc[r] = "fund"
    /\ source[r] = "subscription"
    /\ PreConsumeUserSubscription(r)
    /\ PreConsumed(r)
    /\ UNCHANGED wallet

\* No active subscription, or not enough left in it.
SubscriptionShort(r) ==
    /\ pc[r] = "fund"
    /\ source[r] = "subscription"
    /\ ~active \/ ~Fits(UsedAfterReset, effective[r])
    /\ Goto(r, "rollback_short")
    /\ UNCHANGED <<session, wallet, token, sub, active, record, failures, fundNet>>

\* Another error, before or after the call took effect.
PreConsumeFails(r) ==
    /\ pc[r] = "fund"
    /\ source[r] = "wallet" => effective[r] > 0
    /\ Fails(r)
    /\ \/ source[r] = "wallet" /\ ChargeWallet(r, effective[r]) /\ UNCHANGED <<sub, record>>
       \/ source[r] = "subscription" /\ PreConsumeUserSubscription(r) /\ UNCHANGED wallet
       \/ UNCHANGED <<wallet, sub, record, fundNet>>
    /\ Goto(r, "rollback_error")
    /\ UNCHANGED <<session, token, active>>

\* The token quota is given back; only a short subscription falls back to the wallet.
RollbackToken(r) ==
    LET back == IF r \in Playground THEN 0 ELSE tokenConsumed[r] IN
    /\ pc[r] \in {"rollback_short", "rollback_error"}
    /\ \/ ChargeToken(r, -back) /\ UNCHANGED failures
       \/ back > 0 /\ Fails(r) /\ UNCHANGED token
    /\ tokenConsumed' = [tokenConsumed EXCEPT ![r] = 0]
    /\ Goto(r, IF pc[r] = "rollback_short" /\ Preference[r] = "subscription_first"
               THEN "wallet" ELSE "denied")
    /\ UNCHANGED <<quota, actual, source, effective, preConsumed, tokenAdjusted, tries,
                   wallet, sub, active, record, fundNet>>

-----------------------------------------------------------------------------
(* Settle *)

Delta(r, price) == price - preConsumed[r]

\* A positive difference is first taken from a hard-limited token.
TokenFirst(r, price) == Delta(r, price) > 0 /\ HardLimit /\ r \notin Playground

Settle(r, price) ==
    /\ pc[r] = "running"
    /\ actual' = [actual EXCEPT ![r] = price]
    /\ \/ /\ ~TokenFirst(r, price)
          /\ Goto(r, "settle_fund")
          /\ UNCHANGED <<token, tokenAdjusted>>
       \/ /\ TokenFirst(r, price) /\ EnoughToken(Delta(r, price))
          /\ ChargeToken(r, Delta(r, price))
          /\ tokenAdjusted' = [tokenAdjusted EXCEPT ![r] = TRUE]
          /\ Goto(r, "settle_fund")
       \/ /\ TokenFirst(r, price) /\ ~EnoughToken(Delta(r, price))
          /\ Goto(r, "settle_failed")
          /\ UNCHANGED <<token, tokenAdjusted>>
    /\ UNCHANGED <<quota, source, effective, preConsumed, tokenConsumed, tries,
                   wallet, sub, active, record, failures, fundNet>>

\* The early token update itself reports an error.
SettleFirstFails(r, price) ==
    /\ pc[r] = "running"
    /\ TokenFirst(r, price)
    /\ Fails(r)
    /\ \/ EnoughToken(Delta(r, price)) /\ ChargeToken(r, Delta(r, price))
       \/ UNCHANGED token
    /\ actual' = [actual EXCEPT ![r] = price]
    /\ Goto(r, "settle_failed")
    /\ UNCHANGED <<quota, source, effective, preConsumed, tokenConsumed, tokenAdjusted, tries,
                   wallet, sub, active, record, fundNet>>

Prices(r) == IF r \in PerCall THEN {quota[r]} ELSE Actuals

\* The token is adjusted last unless it was adjusted first.
AfterFunding(r) ==
    IF Delta(r, actual[r]) # 0 /\ r \notin Playground /\ ~tokenAdjusted[r]
    THEN "settle_token" ELSE "settled"

SettleWallet(r) ==
    /\ pc[r] = "settle_fund"
    /\ source[r] = "wallet"
    /\ ChargeWallet(r, Delta(r, actual[r]))
    /\ Goto(r, AfterFunding(r))
    /\ UNCHANGED <<session, token, sub, active, record, failures>>

\* SettleSubscriptionPreConsume: one transaction over the record and the subscription.
SettleSubscriptionPreConsume(r) ==
    /\ record[r] = "consumed"
    /\ Delta(r, actual[r]) # 0 => Fits(amountUsed, Delta(r, actual[r]))
    /\ ChargeSubscription(r, Delta(r, actual[r]))
    /\ record' = [record EXCEPT ![r] = "settled"]

SettleSubscription(r) ==
    /\ pc[r] = "settle_fund"
    /\ source[r] = "subscription"
    /\ SettleSubscriptionPreConsume(r)
    /\ Goto(r, AfterFunding(r))
    /\ UNCHANGED <<session, wallet, token, active, failures>>

AfterFundingError(r) == IF tokenAdjusted[r] THEN "settle_undo" ELSE "settle_failed"

\* The subscription's total does not cover the difference.
SettleSubscriptionExceeds(r) ==
    /\ pc[r] = "settle_fund"
    /\ source[r] = "subscription"
    /\ Delta(r, actual[r]) # 0
    /\ ~Fits(amountUsed, Delta(r, actual[r]))
    /\ Goto(r, AfterFundingError(r))
    /\ UNCHANGED <<session, wallet, token, sub, active, record, failures, fundNet>>

\* The wallet update or the transaction reports an error, done or not done.
SettleFundingFails(r) ==
    /\ pc[r] = "settle_fund"
    /\ source[r] = "wallet" => Delta(r, actual[r]) # 0
    /\ Fails(r)
    /\ \/ UNCHANGED <<wallet, sub, record, fundNet>>
       \/ /\ source[r] = "wallet"
          /\ ChargeWallet(r, Delta(r, actual[r]))
          /\ UNCHANGED <<sub, record>>
       \/ /\ source[r] = "subscription"
          /\ SettleSubscriptionPreConsume(r)
          /\ UNCHANGED wallet
    /\ Goto(r, AfterFundingError(r))
    /\ UNCHANGED <<session, token, active>>

\* Rolls the early token adjustment back; an error is logged.
SettleUndoToken(r) ==
    /\ pc[r] = "settle_undo"
    /\ \/ ChargeToken(r, -Delta(r, actual[r])) /\ UNCHANGED failures
       \/ Fails(r) /\ UNCHANGED token
    /\ Goto(r, "settle_failed")
    /\ UNCHANGED <<session, wallet, sub, active, record, fundNet>>

\* The funding is committed: a token error is logged, the session is settled.
SettleToken(r) ==
    /\ pc[r] = "settle_token"
    /\ \/ ChargeToken(r, Delta(r, actual[r])) /\ UNCHANGED failures
       \/ Fails(r) /\ UNCHANGED token
    /\ Goto(r, "settled")
    /\ UNCHANGED <<session, wallet, sub, active, record, fundNet>>

\* A failed settle is only logged, unless the request is billed per call.
LeaveUnsettled(r) ==
    /\ pc[r] = "settle_failed"
    /\ r \notin PerCall
    /\ Goto(r, "unsettled")
    /\ UNCHANGED <<session, wallet, token, sub, active, record, failures, fundNet>>

-----------------------------------------------------------------------------
(* Refund *)

\* Mutant: a settled session still counts as one that holds pre-consumed quota.
MutantNeedsRefund(r) == tokenConsumed[r] > 0 \/ source[r] = "subscription"

\* Nothing is settled, and the token or the subscription was pre-consumed.
NeedsRefund(r) ==
    /\ pc[r] # "settled"
    /\ tokenConsumed[r] > 0 \/ source[r] = "subscription"

\* The request failed, or a per-call request could not be finalized; that may be
\* after its session was settled.
Refund(r) ==
    /\ pc[r] = "running" \/ (r \in PerCall /\ pc[r] \in {"settle_failed", "settled"})
    /\ pc[r] = "settled" => NeedsRefund(r)
    /\ Goto(r, IF NeedsRefund(r) THEN "refund_fund" ELSE "refunded")
    /\ UNCHANGED <<session, wallet, token, sub, active, record, failures, fundNet>>

\* Mutant: the wallet refund is retried after an error like the subscription's.
MutantRefundWallet(r) ==
    /\ pc[r] = "refund_fund"
    /\ source[r] = "wallet"
    /\ \/ ChargeWallet(r, -preConsumed[r]) /\ UNCHANGED failures /\ Goto(r, "refund_token")
       \/ Fails(r) /\ UNCHANGED pc
                   /\ (ChargeWallet(r, -preConsumed[r]) \/ UNCHANGED <<wallet, fundNet>>)
    /\ UNCHANGED <<session, token, sub, active, record>>

\* Not retried: adding to the wallet twice would give too much back.
RefundWallet(r) ==
    /\ pc[r] = "refund_fund"
    /\ source[r] = "wallet"
    /\ \/ ChargeWallet(r, -preConsumed[r]) /\ UNCHANGED failures
       \/ Fails(r) /\ (ChargeWallet(r, -preConsumed[r]) \/ UNCHANGED <<wallet, fundNet>>)
    /\ Goto(r, "refund_token")
    /\ UNCHANGED <<session, token, sub, active, record>>

\* Mutant: the record's status is not looked at.
MutantRefundSubscriptionPreConsume(r) ==
    /\ ChargeSubscription(r, -preConsumed[r])
    /\ record' = [record EXCEPT ![r] = "refunded"]

\* RefundSubscriptionPreConsume: refunded already: nothing to do; settled: an error.
RefundSubscriptionPreConsume(r) ==
    IF record[r] = "consumed"
    THEN /\ ChargeSubscription(r, -preConsumed[r])
         /\ record' = [record EXCEPT ![r] = "refunded"]
    ELSE UNCHANGED <<sub, record, fundNet>>

RefundSubscription(r) ==
    /\ pc[r] = "refund_fund"
    /\ source[r] = "subscription"
    /\ RefundSubscriptionPreConsume(r)
    /\ \/ Goto(r, "refund_token") /\ UNCHANGED <<tries, failures>>
       \/ Fails(r) /\ tries' = [tries EXCEPT ![r] = @ + 1]
                   /\ Goto(r, IF tries[r] + 1 = MaxAttempts THEN "refund_token" ELSE "refund_fund")
    /\ UNCHANGED <<quota, actual, source, effective, preConsumed, tokenConsumed, tokenAdjusted,
                   wallet, token, active>>

\* The attempt fails without an effect.
RefundSubscriptionFails(r) ==
    /\ pc[r] = "refund_fund"
    /\ source[r] = "subscription"
    /\ Fails(r)
    /\ tries' = [tries EXCEPT ![r] = @ + 1]
    /\ Goto(r, IF tries[r] + 1 = MaxAttempts THEN "refund_token" ELSE "refund_fund")
    /\ UNCHANGED <<quota, actual, source, effective, preConsumed, tokenConsumed, tokenAdjusted,
                   wallet, token, sub, active, record, fundNet>>

RefundToken(r) ==
    LET back == IF r \in Playground THEN 0 ELSE tokenConsumed[r] IN
    /\ pc[r] = "refund_token"
    /\ \/ ChargeToken(r, -back) /\ UNCHANGED failures
       \/ back > 0 /\ Fails(r) /\ UNCHANGED token
    /\ Goto(r, "refunded")
    /\ UNCHANGED <<session, wallet, sub, active, record, fundNet>>

\* The process dies; nothing of the session is persistent but the record.
Crash(r) ==
    /\ pc[r] \notin Final
    /\ Fails(r)
    /\ Goto(r, "crashed")
    /\ UNCHANGED <<session, wallet, token, sub, active, record, fundNet>>

-----------------------------------------------------------------------------
(* Subscription maintenance *)

ResetTimePasses ==
    /\ period < MaxPeriod
    /\ period' = period + 1
    /\ due' = TRUE
    /\ UNCHANGED <<pc, session, wallet, token, amountUsed, born, lateRelease, lateCharge,
                   active, record, failures, fundNet>>

ResetDueSubscriptions ==
    /\ due
    /\ active
    /\ amountUsed' = 0
    /\ due' = FALSE
    /\ lateRelease' = 0
    /\ lateCharge' = 0
    /\ UNCHANGED <<pc, session, wallet, token, period, born, active, record, failures, fundNet>>

ExpireDueSubscriptions ==
    /\ active
    /\ active' = FALSE
    /\ UNCHANGED <<pc, session, wallet, token, sub, record, failures, fundNet>>

Step(r) ==
    \/ NewBillingSession(r) \/ TryWallet(r) \/ TrySubscription(r)
    \/ CheckToken(r) \/ TakeToken(r) \/ TakeTokenFails(r)
    \/ PreConsumeWallet(r) \/ PreConsumeSubscription(r) \/ SubscriptionShort(r)
    \/ PreConsumeFails(r) \/ RollbackToken(r)
    \/ \E price \in Prices(r) : Settle(r, price) \/ SettleFirstFails(r, price)
    \/ SettleWallet(r) \/ SettleSubscription(r) \/ SettleSubscriptionExceeds(r)
    \/ SettleFundingFails(r) \/ SettleUndoToken(r) \/ SettleToken(r) \/ LeaveUnsettled(r)
    \/ Refund(r) \/ RefundWallet(r) \/ RefundSubscription(r) \/ RefundSubscriptionFails(r)
    \/ RefundToken(r)
    \/ Crash(r)

Next ==
    \/ \E r \in Requests : Step(r)
    \/ ResetTimePasses
    \/ ResetDueSubscriptions
    \/ ExpireDueSubscriptions

Spec == Init /\ [][Next]_vars

-----------------------------------------------------------------------------
(* Properties *)

(* A token with quota_hard_limit_enabled is never overdrawn: neither by    *)
(* the estimates of concurrent requests (checked on a value read earlier), *)
(* nor by settling a price above the estimate, nor by rollbacks and        *)
(* refunds in any order (DecreaseTokenQuotaWithLimit).                     *)
HardLimitHolds == HardLimit => remainQuota >= 0

(* A limited subscription never has more used than its total, with         *)
(* estimates, settled differences, refunds and period resets interleaved.  *)
SubscriptionWithinTotal == AmountTotal > 0 => amountUsed <= AmountTotal

(* No combination of errors, reported before or after a call took effect,  *)
(* lets a request end up with a gain: what it gave back to wallet,         *)
(* subscription or token never exceeds what it took.                       *)
NoGain == \A r \in Requests : fundNet[r] >= 0 /\ tokenNet[r] >= 0

(* The pre-consume record decides what a request owes its subscription,    *)
(* whatever the session believes: nothing once refunded, the price once    *)
(* settled, the estimate in between; retried refunds count once.           *)
RecordDecides ==
    \A r \in Requests :
        /\ record[r] = "consumed" => fundNet[r] = effective[r]
        /\ record[r] = "settled" => fundNet[r] = actual[r]
        /\ record[r] = "refunded" => fundNet[r] = 0

(* A request none of whose calls failed is charged exactly once on both    *)
(* sides: the price if it was settled, nothing if it was denied (after     *)
(* falling back from one funding source to the other as well) or refunded. *)
ChargedOnce ==
    \A r \in Requests :
        failures[r] = 0 =>
            /\ pc[r] = "settled" => /\ fundNet[r] = actual[r]
                                    /\ tokenNet[r] = IF r \in Playground THEN 0 ELSE actual[r]
            /\ pc[r] \in {"denied", "refunded"} => fundNet[r] = 0 /\ tokenNet[r] = 0

\* What r has taken from the subscription in this period.
UsageOf(r) == IF record[r] # "none" /\ born[r] = period THEN fundNet[r] ELSE 0

CurrentUsage == Total(Requests, [r \in Requests |-> UsageOf(r)])

(* A period reset loses no usage of the new period and keeps none of the   *)
(* old one: amount_used is what this period's requests took, plus what     *)
(* requests of earlier periods took in settling, and it is too low at most *)
(* by what requests of earlier periods gave back after the reset.          *)
UsageSurvivesReset ==
    ~due => /\ amountUsed <= CurrentUsage + lateCharge
            /\ CurrentUsage + lateCharge <= amountUsed + lateRelease
=============================================================================
