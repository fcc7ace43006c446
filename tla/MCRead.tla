------------------------------- MODULE MCRead --------------------------------
(* Small instances of Read for TLC: no chunk, whole chunks, a short last one.*)
EXTENDS Read
=============================================================================
