-------------------------- MODULE MCBillingSession --------------------------
(* Instances of BillingSession for TLC. *)
EXTENDS BillingSession

CONSTANTS r1, r2, r3

MCPair  == {r1, r2}
MCThree == {r1, r2, r3}

\* r1 prefers the subscription, r2 the wallet, r3 pays from the wallet only
MCPreference ==
    [r \in Requests |-> IF r = r1 THEN "subscription_first"
                        ELSE IF r = r2 THEN "wallet_first" ELSE "wallet_only"]
=============================================================================
