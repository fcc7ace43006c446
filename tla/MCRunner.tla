------------------------------ MODULE MCRunner -------------------------------
(* Small instances of Runner for TLC: c is destructive and first by id, a    *)
(* needs a capability, b belongs to another experiment, d runs elsewhere.    *)
EXTENDS Runner, TLC

CONSTANTS a, b, c, d

MCModules == {a, b, c, d}
MCRank == (c :> 1) @@ (a :> 2) @@ (b :> 3) @@ (d :> 4)
MCVantage == [m \in MCModules |-> IF m = d THEN "local" ELSE "runner"]
MCRequires == [m \in MCModules |-> IF m = a THEN {"pat"} ELSE {}]
MCExperiment == [m \in MCModules |-> IF m = b THEN "other" ELSE "main"]

(* Every combination of the flags. *)
MCOptions ==
    [only: {{}, {a, c}}, experiment: {"", "main"}, where: {"runner", "local"},
     capabilities: {{}, {"pat"}}, allowDestructive: BOOLEAN]
=============================================================================
