-------------------------- MODULE MCGovernanceQueue --------------------------
(* An instance of GovernanceQueue for TLC. *)
EXTENDS GovernanceQueue, TLC

CONSTANTS r1, r2
=============================================================================
