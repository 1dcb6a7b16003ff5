--------------------------- MODULE MCClientStack ---------------------------
(* Constants of ClientStack for TLC: two callers, so that a call from before *)
(* the breaker opened meets a probe, and a refresh meets a waiting caller.   *)
EXTENDS ClientStack

CONSTANTS c1, c2

MCCaller == {c1, c2}

=============================================================================
