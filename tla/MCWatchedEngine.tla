-------------------------- MODULE MCWatchedEngine --------------------------
(* Constants of WatchedEngine for TLC: one path, an empty file and two       *)
(* contents of the same length.                                              *)
EXTENDS WatchedEngine

CONSTANTS docs_f, empty, v1, v2, t1, t2

MCPath == {docs_f}
MCFileName == [p \in MCPath |-> "f"]
MCContent == {empty, v1, v2}
MCSize == [c \in MCContent |-> IF c = empty THEN 0 ELSE 1]
MCTask == {t1, t2}

=============================================================================
