------------------------------- MODULE MCAgent -------------------------------
(* Small instances of Agent for TLC: the agent's user and another manager.   *)
EXTENDS Agent, TLC

CONSTANTS j1, j2, j3, other, old, new, k1, k2

MCSessions == Jobs \cup {other}
MCUser == [s \in MCSessions |-> IF s = other THEN "bob" ELSE "ann"]
Symmetric == Permutations({j1, j2, j3}) \cup Permutations({k1, k2})
=============================================================================
