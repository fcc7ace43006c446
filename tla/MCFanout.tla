------------------------------ MODULE MCFanout -------------------------------
(* Small instances of Fanout for TLC: the feed may be cached, the inbox not. *)
EXTENDS Fanout, TLC

CONSTANTS s1, s2, feed, inbox

MCTtl == (feed :> 1) @@ (inbox :> 0)
=============================================================================
