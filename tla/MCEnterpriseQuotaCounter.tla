----------------------- MODULE MCEnterpriseQuotaCounter -----------------------
(* A small instance: one blocking and one observing policy.                *)
EXTENDS EnterpriseQuotaCounter, TLC

CONSTANTS r1, r2, quota, watch

MCRequests == {r1, r2}
MCPolicies == {quota, watch}
MCBlocking == {quota}

\* Estimates and actual usage per policy; 0 means the metric does not apply.
MCEstimates == {(quota :> 1 @@ watch :> 1), (quota :> 2 @@ watch :> 0)}
MCActuals == {(quota :> 0 @@ watch :> 2), (quota :> 3 @@ watch :> 1)}
=============================================================================
