---------------------------- MODULE MCStateStore ----------------------------
(* Constants of StateStore for TLC: the empty catalog and two others. *)
EXTENDS StateStore

CONSTANTS empty, s1, s2, periodic, manual

MCState == {empty, s1, s2}
MCRunner == {periodic, manual}

=============================================================================
