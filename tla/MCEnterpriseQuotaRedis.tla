------------------------ MODULE MCEnterpriseQuotaRedis ------------------------
(* Small instances: the second policy is the tighter one, so that a request *)
(* can be admitted by the first and rejected by the second.                 *)
EXTENDS EnterpriseQuotaRedis, TLC

CONSTANTS r1, r2, r3, org, user

MCRequests2 == {r1, r2}
MCRequests3 == {r1, r2, r3}
MCOrder1 == <<user>>
MCOrder2 == <<org, user>>
MCLimit == org :> 3 @@ user :> 2
MCLimit1 == user :> 2
MCEstimate2 == r1 :> 1 @@ r2 :> 2
MCEstimate3 == r1 :> 1 @@ r2 :> 1 @@ r3 :> 2
=============================================================================
