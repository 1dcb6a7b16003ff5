---------------------------- MODULE SyncPlanner ----------------------------
(***************************************************************************)
(* The three-way planner of the sync engine (engine/planner.rs): from the  *)
(* base catalog B, the scanned local tree L and the scanned remote tree R  *)
(* it computes the actions of one cycle.  The module has no variables: the *)
(* planner is a pure function of its three arguments and the backend's     *)
(* policy, except that it walks hash tables, so the pairs that the rename  *)
(* detector finds depend on the order of the walk (parameter M below).     *)
(*                                                                         *)
(* A hash map from relative paths is a function on Path whose value is     *)
(* Absent where the map has no entry.  Directories are not modelled: every *)
(* path is a file, so is_dir is always false and is left out, as are the   *)
(* permission bits.                                                        *)
(***************************************************************************)
EXTENDS Integers, FiniteSets

CONSTANTS
  Path,             \* relative paths below the watched directory
  FileName,         \* FileName[p] is the last component of path p
  Checksum,         \* the checksums a backend or the catalog can hold
  NoChecksum,       \* None of Option<String>
  Absent,           \* no entry for a path
  Mode,             \* SyncMode of the backend
  Policy,           \* ConflictPolicy of the daemon
  ServerSideMove    \* whether the backend has the SERVER_SIDE_MOVE capability

Modes == {"TwoWay", "OneWay", "OneWayNoDeletions"}
Policies == {"RenameLocal", "RenameRemote", "KeepNewer", "KeepLocal",
             "KeepRemote", "Manual"}

MaybeChecksum == Checksum \union {NoChecksum}
ScannedItem == [size : Nat, modified : Nat, checksum : MaybeChecksum]
FileState == [size : Nat, local_modified : Nat, remote_modified : Nat,
              checksum : MaybeChecksum]
Tree == [Path -> ScannedItem \union {Absent}]
Catalog == [Path -> FileState \union {Absent}]

ASSUME PlannerAssumption ==
  /\ Mode \in Modes
  /\ Policy \in Policies
  /\ ServerSideMove \in BOOLEAN
  /\ NoChecksum \notin Checksum
  /\ Absent \notin ScannedItem
  /\ Absent \notin FileState

sync_both == Mode = "TwoWay"
sync_deletions == Mode \in {"TwoWay", "OneWay"}

-----------------------------------------------------------------------------
(* Change detection. *)

\* Both checksums are known and they differ.
Mismatch(a, b) == a # NoChecksum /\ b # NoChecksum /\ a # b

\* Slip: the modification time is not compared.
LocalChangedBySize(l, s) ==
  l.size # s.size \/ Mismatch(l.checksum, s.checksum)

local_changed(l, s) ==
  \/ l.size # s.size
  \/ l.modified # s.local_modified
  \/ Mismatch(l.checksum, s.checksum)

\* Slip: the modification time is not compared.
RemoteChangedBySize(r, s) ==
  r.size # s.size \/ Mismatch(r.checksum, s.checksum)

remote_changed(r, s) ==
  \/ r.size # s.size
  \/ r.modified # s.remote_modified
  \/ Mismatch(r.checksum, s.checksum)

\* Without two checksums only two empty files count as the same content.
same_content(l, r) ==
  IF l.checksum # NoChecksum /\ r.checksum # NoChecksum
    THEN l.checksum = r.checksum
    ELSE l.size = r.size /\ l.size = 0

-----------------------------------------------------------------------------
(* The cases of the match on (local, remote, base). *)

InLocal(L, R, B) == {p \in Path : L[p] # Absent /\ R[p] = Absent /\ B[p] = Absent}
InRemote(L, R, B) == {p \in Path : L[p] = Absent /\ R[p] # Absent /\ B[p] = Absent}
LocalGone(L, R, B) == {p \in Path : L[p] = Absent /\ R[p] # Absent /\ B[p] # Absent}
RemoteGone(L, R, B) == {p \in Path : L[p] # Absent /\ R[p] = Absent /\ B[p] # Absent}
Everywhere(L, R, B) == {p \in Path : L[p] # Absent /\ R[p] # Absent /\ B[p] # Absent}

\* Cases 1 and 6: both sides have a version the catalog does not know.
Diverged(L, R, B) ==
  {p \in Path : /\ L[p] # Absent
                /\ R[p] # Absent
                /\ B[p] # Absent => /\ local_changed(L[p], B[p])
                                    /\ remote_changed(R[p], B[p])}

\* Slip: the order of the tests lets a path changed on both sides through.
ChangedLocally(L, R, B) ==
  {p \in Everywhere(L, R, B) : local_changed(L[p], B[p])}

ChangedLocallyOnly(L, R, B) ==
  {p \in Everywhere(L, R, B) : /\ local_changed(L[p], B[p])
                               /\ ~remote_changed(R[p], B[p])}

ChangedRemotelyOnly(L, R, B) ==
  {p \in Everywhere(L, R, B) : /\ ~local_changed(L[p], B[p])
                               /\ remote_changed(R[p], B[p])}

candidate_additions(L, R, B) == InLocal(L, R, B)
\* Slip: the mode is not asked for the candidates of the rename detector.
DeletionsInEveryMode(L, R, B) == LocalGone(L, R, B)

candidate_deletions(L, R, B) ==
  IF sync_deletions THEN LocalGone(L, R, B) ELSE {}

-----------------------------------------------------------------------------
(* Rename detection (engine/rename_detector.rs). *)

\* The test for one deletion and one addition.  The deletion carries the
\* size and checksum of the catalog, the addition those of the local scan.
MoveMatches(L, B, del, add) ==
  /\ B[del].size = L[add].size
  /\ B[del].size > 0
  /\ \/ /\ B[del].checksum # NoChecksum
        /\ B[del].checksum = L[add].checksum
     \/ FileName[del] = FileName[add]

\* detect_moves pairs each deletion with the first addition left that
\* matches it; over all orders of the two lists it returns exactly the
\* maximal matchings.
DetectedMoves(L, R, B) ==
  LET D == candidate_deletions(L, R, B)
      A == candidate_additions(L, R, B)
      Pairs == {m \in D \X A : MoveMatches(L, B, m[1], m[2])}
      Clash(m, n) == m[1] = n[1] \/ m[2] = n[2]
  IN  {M \in SUBSET Pairs :
         /\ \A m, n \in M : Clash(m, n) => m = n
         /\ \A m \in Pairs : \E n \in M : Clash(m, n)}

Moves(L, R, B) == IF ServerSideMove THEN DetectedMoves(L, R, B) ELSE {{}}

-----------------------------------------------------------------------------
(* Conflict strategies (engine/conflict.rs). *)

resolve(local_mtime, remote_mtime) ==
  CASE Policy = "RenameLocal"  -> "RenameLocalAndDownloadRemote"
    [] Policy = "RenameRemote" -> "RenameRemoteAndUploadLocal"
    [] Policy = "KeepNewer"    -> IF local_mtime > remote_mtime
                                    THEN "UploadLocal" ELSE "DownloadRemote"
    [] Policy = "KeepLocal"    -> "UploadLocal"
    [] Policy = "KeepRemote"   -> "DownloadRemote"
    [] Policy = "Manual"       -> "Skip"

Resolutions == {"RenameLocalAndDownloadRemote", "RenameRemoteAndUploadLocal",
                "UploadLocal", "DownloadRemote", "Skip"}

-----------------------------------------------------------------------------
(* Actions.  "stage" is the part of plan() that appends the action: 0 the  *)
(* loop over all paths, in any order of the hash set, then 1 moves,        *)
(* 2 remote deletions, 3 uploads of new files.                             *)

UploadAction ==
  [op : {"Upload"}, path : Path, size : Nat, stage : {0, 3}]
DownloadAction ==
  [op : {"Download"}, path : Path, size : Nat, checksum : MaybeChecksum, stage : {0}]
DeleteLocalAction == [op : {"DeleteLocal"}, path : Path, stage : {0}]
DeleteRemoteAction == [op : {"DeleteRemote"}, path : Path, stage : {2}]
MoveAction == [op : {"ServerSideMove"}, path : Path, to : Path, stage : {1}]
ConflictAction ==
  [op : {"Conflict"}, path : Path, action : Resolutions, stage : {0}]
ConvergeAction ==
  [op : {"ConvergeState"}, path : Path, state : FileState, stage : {0}]

SyncAction == UploadAction \union DownloadAction \union DeleteLocalAction
                \union DeleteRemoteAction \union MoveAction
                \union ConflictAction \union ConvergeAction

Upload(p, size, stage) == [op |-> "Upload", path |-> p, size |-> size, stage |-> stage]
Download(p, r) == [op |-> "Download", path |-> p, size |-> r.size,
                   checksum |-> r.checksum, stage |-> 0]
DeleteLocal(p) == [op |-> "DeleteLocal", path |-> p, stage |-> 0]
\* Slip: the deletion is appended in the loop over the paths.
DeleteRemoteInLoop(p) == [op |-> "DeleteRemote", path |-> p, stage |-> 0]

DeleteRemote(p) == [op |-> "DeleteRemote", path |-> p, stage |-> 2]
Move(from, to) == [op |-> "ServerSideMove", path |-> from, to |-> to, stage |-> 1]
Conflict(p, l, r) == [op |-> "Conflict", path |-> p,
                      action |-> resolve(l.modified, r.modified), stage |-> 0]
Converge(p, l, r) ==
  [op |-> "ConvergeState", path |-> p, stage |-> 0,
   state |-> [size |-> l.size,
              local_modified |-> l.modified,
              remote_modified |-> r.modified,
              checksum |-> IF l.checksum # NoChecksum THEN l.checksum
                                                      ELSE r.checksum]]

-----------------------------------------------------------------------------
(* plan(): the actions of one cycle, M being the moves that were detected. *)

ToUpload(L, R, B) ==
  ChangedLocallyOnly(L, R, B)
    \union (IF sync_both THEN {} ELSE RemoteGone(L, R, B))

\* Slip: the mode is not asked.
DownloadInEveryMode(L, R, B) ==
  ChangedRemotelyOnly(L, R, B) \union InRemote(L, R, B)

ToDownload(L, R, B) ==
  IF sync_both THEN ChangedRemotelyOnly(L, R, B) \union InRemote(L, R, B) ELSE {}

ToDeleteLocal(L, R, B) ==
  IF sync_both /\ sync_deletions THEN RemoteGone(L, R, B) ELSE {}

ToConverge(L, R, B) == {p \in Diverged(L, R, B) : same_content(L[p], R[p])}
ToConflict(L, R, B) == {p \in Diverged(L, R, B) : ~same_content(L[p], R[p])}
ToDeleteRemote(L, R, B, M) == candidate_deletions(L, R, B) \ {m[1] : m \in M}
ToAdd(L, R, B, M) == candidate_additions(L, R, B) \ {m[2] : m \in M}

plan(L, R, B, M) ==
  UNION {{Upload(p, L[p].size, 0) : p \in ToUpload(L, R, B)},
         {Download(p, R[p]) : p \in ToDownload(L, R, B)},
         {DeleteLocal(p) : p \in ToDeleteLocal(L, R, B)},
         {Converge(p, L[p], R[p]) : p \in ToConverge(L, R, B)},
         {Conflict(p, L[p], R[p]) : p \in ToConflict(L, R, B)},
         {Move(m[1], m[2]) : m \in M},
         {DeleteRemote(p) : p \in ToDeleteRemote(L, R, B, M)},
         {Upload(p, L[p].size, 3) : p \in ToAdd(L, R, B, M)}}

=============================================================================
