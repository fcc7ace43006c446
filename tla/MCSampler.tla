------------------------------ MODULE MCSampler ------------------------------
(* Small instances of Sampler for TLC. *)
EXTENDS Sampler

CONSTANTS p1, p2
=============================================================================
