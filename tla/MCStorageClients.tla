-------------------------- MODULE MCStorageClients --------------------------
(* Constants of StorageClients for TLC: a file f in the root folder and one of *)
(* the same name two folders below.                                           *)
EXTENDS StorageClients, TLC

CONSTANTS d, e, f, i1, i2, i3, i4, v1, v2, c1, c2

MCProvider == {"GoogleDrive"} \union ObjectStores \union FileTrees
MCName == {d, e, f}
MCPath == {<<f>>, <<d, e, f>>}
MCId == {i1, i2, i3, i4}
MCContent == {v1, v2}
MCCaller == {c1, c2}

MCMaxCalls == [x \in MCProvider |-> 3]
MCMaxFaults == [x \in MCProvider |-> IF x = "GoogleDrive" THEN 1 ELSE 2]

MCSymmetry == Permutations(MCContent) \union Permutations(MCCaller)

=============================================================================
