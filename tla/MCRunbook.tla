------------------------------ MODULE MCRunbook ------------------------------
(* Runbook for TLC: all values of the policy are in the configuration. *)
EXTENDS Runbook
=============================================================================
