------------------------------ MODULE MCUpload -------------------------------
(* Small instances of Upload for TLC: two processes, p and q. *)
EXTENDS Upload

CONSTANTS p, q

MCProcs == {p, q}
SameLayout == [r \in MCProcs |-> 2]
SameSource == {[r \in MCProcs |-> "file"]}
MCFaults == [m \in Methods |-> IF m = "tus" THEN 1 ELSE 2]
=============================================================================
