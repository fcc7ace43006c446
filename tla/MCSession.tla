------------------------------ MODULE MCSession ------------------------------
(* Small instances of Session for TLC. *)
EXTENDS Session

CONSTANTS c1, c2

(* Auth's clock ahead of the client's, with it, and so far behind that a new *)
(* token looks as if it were expiring.                                       *)
MCLags == {-1, 0, 2}
=============================================================================
