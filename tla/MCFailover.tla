----------------------------- MODULE MCFailover ------------------------------
(* Small instances of Failover for TLC. *)
EXTENDS Failover, TLC

CONSTANTS r1, r2, r3

MCConfigs == [standby: BOOLEAN, outage: BOOLEAN]
Symmetric == Permutations(Reqs)
=============================================================================
