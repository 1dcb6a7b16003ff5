---------------------------- MODULE MCSyncEngine ----------------------------
(* Constants of SyncEngine for TLC: two paths with the same file name in two *)
(* directories, so that a rename can be detected, an empty file and two      *)
(* contents of the same length, which only the modification time tells apart.*)
EXTENDS SyncEngine

CONSTANTS docs_f, pics_f, empty, v1, v2

MCPath == {docs_f, pics_f}
MCOnePath == {docs_f}
MCFileName == [p \in MCPath |-> "f"]
MCContent == {empty, v1, v2}
MCSize == [c \in MCContent |-> IF c = empty THEN 0 ELSE 1]

=============================================================================
