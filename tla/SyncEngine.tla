----------------------------- MODULE SyncEngine -----------------------------
(***************************************************************************)
(* The sync cycle of one backend (engine/orchestrator.rs, scanner.rs and   *)
(* executor.rs) running against a local directory and a remote store that  *)
(* the user, and the user's other devices, edit at the same time.          *)
(*                                                                         *)
(* A cycle loads the catalog, lists the remote and scans the local         *)
(* directory, one path after the other, plans, executes the plan one       *)
(* action at a time, reloads the catalog, applies every planned action to  *)
(* it and saves it.  The periodic loop and *)
(* a manual "sync" command are two runners of the same code that do not    *)
(* exclude each other; Cycle is the set of runners.                        *)
(*                                                                         *)
(* A file is a content and a modification time.  Every write by the user,  *)
(* by a download or by a server that stamps uploads itself takes a fresh   *)
(* time from clock: two different writes never carry the same time.        *)
(***************************************************************************)
EXTENDS SyncPlanner

CONSTANTS
  Content,          \* what a file can hold
  Size,             \* Size[c] is the length of content c
  Empty,            \* the content of an empty file
  Cycle,            \* the runners of sync cycles
  ListsChecksums,   \* the backend's list() returns checksums
  PreservesMtime,   \* the backend is a LocalSimulator, whose upload() copies
                    \* the local mtime to the remote file afterwards; other
                    \* backends stamp an upload themselves
  DryRuns,          \* what the dry_run option of a cycle can be; a reload
                    \* changes it between two cycles
  Failures,         \* backend calls and the save may fail
  EditsOverlap,     \* files may be edited while a cycle runs
  EditsDuringUpload,\* ... also between the copy and the mtime of an upload
  RemoteEdits,      \* another device edits the remote store
  MaxEdits,         \* bound: users write and rename only while clock < MaxEdits
  MaxClock          \* bound: a cycle starts only while clock < MaxClock

File == [content : Content, modified : Nat]
FileTree == [Path -> File \union {Absent}]

ASSUME EngineAssumption ==
  /\ Size \in [Content -> Nat]
  /\ Empty \in Content
  /\ \A c \in Content : Size[c] = 0 <=> c = Empty
  /\ Checksum = Content
  /\ Absent \notin File
  /\ {ListsChecksums, PreservesMtime, Failures, EditsOverlap,
      EditsDuringUpload, RemoteEdits} \subseteq BOOLEAN
  /\ DryRuns \subseteq BOOLEAN
  /\ MaxEdits \in Nat
  /\ MaxClock \in Nat

VARIABLES
  local,            \* files below watch_dir
  remote,           \* files of the backend
  catalog,          \* the saved SyncState
  clock,            \* the latest modification time handed out
  pc,               \* pc[r]: what runner r does next
  base,             \* base[r]: base_state of plan_sync
  rtree,            \* rtree[r]: remote_tree of plan_sync
  ltree,            \* ltree[r]: local_tree of plan_sync
  left,             \* left[r]: the paths that the scan has still to look at
  actions,          \* actions[r]: plan.actions
  todo,             \* todo[r]: the actions execute() has still to run
  stamping,         \* stamping[r]: the uploaded path that still lacks its mtime
  newcat,           \* newcat[r]: the updated state on its way to save()
  \* History: the versions that the engine last left at a path on either side
  \* when it copied the path.
  agreedL, agreedR

files == <<local, remote>>
scans == <<base, rtree, ltree, left>>
runner == <<pc, scans, actions, todo, stamping, newcat>>
ghosts == <<agreedL, agreedR>>
vars == <<files, catalog, clock, runner, ghosts>>

NoTree == [p \in Path |-> Absent]

PCs == {"idle", "scan_remote", "scan_local", "plan", "execute", "dry_run",
        "stamp", "save"}

TypeOK ==
  /\ local \in FileTree
  /\ remote \in FileTree
  /\ catalog \in Catalog
  /\ clock \in Nat
  /\ pc \in [Cycle -> PCs]
  /\ base \in [Cycle -> Catalog]
  /\ rtree \in [Cycle -> Tree]
  /\ ltree \in [Cycle -> Tree]
  /\ left \in [Cycle -> SUBSET Path]
  /\ actions \in [Cycle -> SUBSET SyncAction]
  /\ todo \in [Cycle -> SUBSET SyncAction]
  /\ stamping \in [Cycle -> Path \union {Absent}]
  /\ newcat \in [Cycle -> Catalog]
  /\ agreedL \in FileTree
  /\ agreedR \in FileTree

Init ==
  /\ local = NoTree
  /\ remote = NoTree
  /\ catalog = NoTree
  /\ clock = 0
  /\ pc = [r \in Cycle |-> "idle"]
  /\ base = [r \in Cycle |-> NoTree]
  /\ rtree = [r \in Cycle |-> NoTree]
  /\ ltree = [r \in Cycle |-> NoTree]
  /\ left = [r \in Cycle |-> {}]
  /\ actions = [r \in Cycle |-> {}]
  /\ todo = [r \in Cycle |-> {}]
  /\ stamping = [r \in Cycle |-> Absent]
  /\ newcat = [r \in Cycle |-> NoTree]
  /\ agreedL = NoTree
  /\ agreedR = NoTree

-----------------------------------------------------------------------------
(* The users. *)

AllIdle == \A r \in Cycle : pc[r] = "idle"
NoneStamping == \A r \in Cycle : pc[r] # "stamp"
MayEdit == \/ AllIdle
           \/ EditsOverlap /\ (EditsDuringUpload \/ NoneStamping)

UserWritesLocal(p, c) ==
  /\ MayEdit
  /\ clock < MaxEdits
  /\ clock' = clock + 1
  /\ local' = [local EXCEPT ![p] = [content |-> c, modified |-> clock + 1]]
  /\ UNCHANGED <<remote, catalog, runner, ghosts>>

UserDeletesLocal(p) ==
  /\ MayEdit
  /\ local[p] # Absent
  /\ local' = [local EXCEPT ![p] = Absent]
  /\ UNCHANGED <<remote, catalog, clock, runner, ghosts>>

\* A rename keeps the modification time; the clock only moves on.
UserRenamesLocal(p, q) ==
  /\ MayEdit
  /\ clock < MaxEdits
  /\ clock' = clock + 1
  /\ local[p] # Absent
  /\ local[q] = Absent
  /\ local' = [local EXCEPT ![q] = local[p], ![p] = Absent]
  /\ UNCHANGED <<remote, catalog, runner, ghosts>>

UserWritesRemote(p, c) ==
  /\ RemoteEdits
  /\ MayEdit
  /\ clock < MaxEdits
  /\ clock' = clock + 1
  /\ remote' = [remote EXCEPT ![p] = [content |-> c, modified |-> clock + 1]]
  /\ UNCHANGED <<local, catalog, runner, ghosts>>

UserDeletesRemote(p) ==
  /\ RemoteEdits
  /\ MayEdit
  /\ remote[p] # Absent
  /\ remote' = [remote EXCEPT ![p] = Absent]
  /\ UNCHANGED <<local, catalog, clock, runner, ghosts>>

UserStep ==
  \/ \E p \in Path, c \in Content : UserWritesLocal(p, c) \/ UserWritesRemote(p, c)
  \/ \E p \in Path : UserDeletesLocal(p) \/ UserDeletesRemote(p)
  \/ \E p, q \in Path : UserRenamesLocal(p, q)

-----------------------------------------------------------------------------
(* plan_sync: load the catalog, scan both sides, plan. *)

\* scan_local never computes a checksum.
LocalItem(p) ==
  IF local[p] = Absent THEN Absent
  ELSE [size |-> Size[local[p].content],
        modified |-> local[p].modified,
        checksum |-> NoChecksum]

RemoteItem(p) ==
  IF remote[p] = Absent THEN Absent
  ELSE [size |-> Size[remote[p].content],
        modified |-> remote[p].modified,
        checksum |-> IF ListsChecksums THEN remote[p].content ELSE NoChecksum]

LoadBase(r) ==
  /\ pc[r] = "idle"
  /\ clock < MaxClock
  /\ pc' = [pc EXCEPT ![r] = "scan_remote"]
  /\ base' = [base EXCEPT ![r] = catalog]
  /\ left' = [left EXCEPT ![r] = Path]
  /\ UNCHANGED <<files, catalog, clock, rtree, ltree, actions, todo, stamping,
                 newcat, ghosts>>

\* The paths are looked at one by one, in any order of the directories.
ScanRemote(r, p) ==
  /\ pc[r] = "scan_remote"
  /\ p \in left[r]
  /\ rtree' = [rtree EXCEPT ![r][p] = RemoteItem(p)]
  /\ IF left[r] = {p}
       THEN /\ pc' = [pc EXCEPT ![r] = "scan_local"]
            /\ left' = [left EXCEPT ![r] = Path]
       ELSE left' = [left EXCEPT ![r] = @ \ {p}] /\ UNCHANGED pc
  /\ UNCHANGED <<files, catalog, clock, base, ltree, actions, todo, stamping,
                 newcat, ghosts>>

ScanLocal(r, p) ==
  /\ pc[r] = "scan_local"
  /\ p \in left[r]
  /\ ltree' = [ltree EXCEPT ![r][p] = LocalItem(p)]
  /\ left' = [left EXCEPT ![r] = @ \ {p}]
  /\ pc' = IF left[r] = {p} THEN [pc EXCEPT ![r] = "plan"] ELSE pc
  /\ UNCHANGED <<files, catalog, clock, base, rtree, actions, todo, stamping,
                 newcat, ghosts>>

\* The trees are dropped when plan_sync returns.
Forgets(r) ==
  /\ base' = [base EXCEPT ![r] = NoTree]
  /\ rtree' = [rtree EXCEPT ![r] = NoTree]
  /\ ltree' = [ltree EXCEPT ![r] = NoTree]
  /\ left' = [left EXCEPT ![r] = {}]

Plan(r) ==
  /\ pc[r] = "plan"
  /\ \E dry \in DryRuns :
       pc' = [pc EXCEPT ![r] = IF dry THEN "dry_run" ELSE "execute"]
  /\ \E M \in Moves(ltree[r], rtree[r], base[r]) :
       LET planned == plan(ltree[r], rtree[r], base[r], M)
       IN  /\ actions' = [actions EXCEPT ![r] = planned]
           /\ todo' = [todo EXCEPT ![r] = planned]
  /\ Forgets(r)
  /\ UNCHANGED <<files, catalog, clock, stamping, newcat, ghosts>>

\* A listing or a directory read fails: `?` ends the cycle.
ScanFails(r) ==
  /\ Failures
  /\ pc[r] \in {"scan_remote", "scan_local"}
  /\ pc' = [pc EXCEPT ![r] = "idle"]
  /\ Forgets(r)
  /\ UNCHANGED <<files, catalog, clock, actions, todo, stamping, newcat, ghosts>>

-----------------------------------------------------------------------------
(* PlanExecutor::execute.  A failed action is counted and the loop goes on. *)

\* Action a is the next one of the plan.
Takes(r, a) ==
  /\ pc[r] = "execute"
  /\ a \in todo[r]
  /\ \A b \in todo[r] : a.stage <= b.stage
  /\ todo' = [todo EXCEPT ![r] = @ \ {a}]
  /\ UNCHANGED <<catalog, scans, actions, newcat>>

Runs(r, a) == Takes(r, a) /\ UNCHANGED <<pc, stamping>>

Agreed(p) ==
  /\ agreedL' = [agreedL EXCEPT ![p] = local'[p]]
  /\ agreedR' = [agreedR EXCEPT ![p] = remote'[p]]

\* The content is on the remote, with the time of the upload.
Uploaded(a) ==
  /\ a.op = "Upload"
  /\ local[a.path] # Absent
  /\ remote' = [remote EXCEPT ![a.path] = [content |-> local[a.path].content,
                                           modified |-> clock + 1]]
  /\ clock' = clock + 1
  /\ UNCHANGED local
  /\ Agreed(a.path)

UploadSucceeds(r, a) ==
  /\ ~PreservesMtime
  /\ Runs(r, a)
  /\ Uploaded(a)

\* LocalSimulator::upload, up to the end of the copy.
UploadCopies(r, a) ==
  /\ PreservesMtime
  /\ Takes(r, a)
  /\ Uploaded(a)
  /\ pc' = [pc EXCEPT ![r] = "stamp"]
  /\ stamping' = [stamping EXCEPT ![r] = a.path]

\* The rest of it: the mtime that the local file has now goes to the remote one.
UploadStamps(r) ==
  /\ pc[r] = "stamp"
  /\ LET p == stamping[r]
     IN  remote' = IF local[p] # Absent /\ remote[p] # Absent
                     THEN [remote EXCEPT ![p].modified = local[p].modified]
                     ELSE remote
  /\ pc' = [pc EXCEPT ![r] = "execute"]
  /\ stamping' = [stamping EXCEPT ![r] = Absent]
  /\ agreedR' = [agreedR EXCEPT ![stamping[r]] = remote'[stamping[r]]]
  /\ UNCHANGED <<local, catalog, clock, scans, actions, todo, newcat, agreedL>>

\* The copy truncates the remote file before it reads the first chunk.
UploadBreaksOff(r, a) ==
  /\ PreservesMtime
  /\ Failures
  /\ Runs(r, a)
  /\ a.op = "Upload"
  /\ local[a.path] # Absent
  /\ remote' = [remote EXCEPT ![a.path] = [content |-> Empty, modified |-> clock + 1]]
  /\ clock' = clock + 1
  /\ agreedR' = [agreedR EXCEPT ![a.path] = remote'[a.path]]
  /\ UNCHANGED <<local, agreedL>>

DownloadSucceeds(r, a) ==
  /\ Runs(r, a)
  /\ a.op = "Download"
  /\ remote[a.path] # Absent
  /\ local' = [local EXCEPT ![a.path] = [content |-> remote[a.path].content,
                                         modified |-> clock + 1]]
  /\ clock' = clock + 1
  /\ UNCHANGED remote
  /\ Agreed(a.path)

\* The target file is created before the first chunk arrives.
DownloadBreaksOff(r, a) ==
  /\ Failures
  /\ Runs(r, a)
  /\ a.op = "Download"
  /\ remote[a.path] # Absent
  /\ local' = [local EXCEPT ![a.path] = [content |-> Empty, modified |-> clock + 1]]
  /\ clock' = clock + 1
  /\ agreedL' = [agreedL EXCEPT ![a.path] = local'[a.path]]
  /\ UNCHANGED <<remote, agreedR>>

DeletesLocal(r, a) ==
  /\ Runs(r, a)
  /\ a.op = "DeleteLocal"
  /\ local' = [local EXCEPT ![a.path] = Absent]
  /\ UNCHANGED <<remote, clock, ghosts>>

DeleteRemoteSucceeds(r, a) ==
  /\ Runs(r, a)
  /\ a.op = "DeleteRemote"
  /\ remote[a.path] # Absent
  /\ remote' = [remote EXCEPT ![a.path] = Absent]
  /\ UNCHANGED <<local, clock, ghosts>>

MoveSucceeds(r, a) ==
  /\ Runs(r, a)
  /\ a.op = "ServerSideMove"
  /\ remote[a.path] # Absent
  /\ remote' = [remote EXCEPT ![a.to] = remote[a.path], ![a.path] = Absent]
  /\ agreedR' = [agreedR EXCEPT ![a.to] = remote'[a.to]]
  /\ UNCHANGED <<local, clock, agreedL>>

\* The source of the call is missing, or the call fails without effect.
ActionFails(r, a) ==
  /\ Runs(r, a)
  /\ \/ a.op = "Upload" /\ (Failures \/ local[a.path] = Absent)
     \/ /\ a.op \in {"Download", "DeleteRemote", "ServerSideMove"}
        /\ Failures \/ remote[a.path] = Absent
     \/ a.op = "DeleteLocal" /\ Failures
  /\ UNCHANGED <<files, clock, ghosts>>

\* Every resolution of a conflict is only logged and counted.
LeavesConflict(r, a) ==
  /\ Runs(r, a)
  /\ a.op = "Conflict"
  /\ UNCHANGED <<files, clock, ghosts>>

\* The two sides agree already; the catalog learns of it in Record.
Converges(r, a) ==
  /\ Runs(r, a)
  /\ a.op = "ConvergeState"
  /\ UNCHANGED <<files, clock>>
  /\ Agreed(a.path)

\* Every action of a dry run is only logged, and the catalog is not saved.
SkipsDryRun(r) ==
  /\ pc[r] = "dry_run"
  /\ pc' = [pc EXCEPT ![r] = "idle"]
  /\ actions' = [actions EXCEPT ![r] = {}]
  /\ todo' = [todo EXCEPT ![r] = {}]
  /\ UNCHANGED <<files, catalog, clock, scans, stamping, newcat, ghosts>>

-----------------------------------------------------------------------------
(* The end of sync_bidirectional: reload the catalog, apply every planned  *)
(* action to it whether it succeeded or not, save.                         *)

\* Slip: the time of the transfer is recorded for the remote side.
RecordedNow(a, mtime) ==
  [size |-> a.size,
   local_modified |-> mtime,
   remote_modified |-> clock + 1,
   checksum |-> IF a.op = "Download" THEN a.checksum ELSE NoChecksum]

Recorded(a, mtime) ==
  [size |-> a.size,
   local_modified |-> mtime,
   remote_modified |-> mtime,
   checksum |-> IF a.op = "Download" THEN a.checksum ELSE NoChecksum]

\* The local mtime at the end of the cycle, or the current time.
MtimeNow(p) == IF local[p] = Absent THEN clock + 1 ELSE local[p].modified

\* Slip: uploads fall through to `_ => {}`.
DownloadsOnly(S) == {a \in S : a.op = "Download"}

Transfers(S) == {a \in S : a.op \in {"Upload", "Download"}}

\* Conflicts and server-side moves fall through to `_ => {}`.
Recordable(S) ==
  Transfers(S) \union
    {a \in S : a.op \in {"DeleteLocal", "DeleteRemote", "ConvergeState"}}

EntryAfter(a) ==
  CASE a.op \in {"Upload", "Download"} -> Recorded(a, MtimeNow(a.path))
    [] a.op \in {"DeleteLocal", "DeleteRemote"} -> Absent
    [] a.op = "ConvergeState" -> a.state

\* The entry of path p after the loop over plan.actions.
UpdatedEntry(p, S, state) ==
  IF \E a \in Recordable(S) : a.path = p
    THEN EntryAfter(CHOOSE a \in Recordable(S) : a.path = p)
    ELSE state[p]

Record(r) ==
  /\ pc[r] = "execute"
  /\ todo[r] = {}
  /\ pc' = [pc EXCEPT ![r] = "save"]
  /\ newcat' = [newcat EXCEPT ![r] =
                  [p \in Path |-> UpdatedEntry(p, actions[r], catalog)]]
  /\ clock' = IF \E a \in Transfers(actions[r]) : local[a.path] = Absent
                THEN clock + 1 ELSE clock
  /\ actions' = [actions EXCEPT ![r] = {}]
  /\ UNCHANGED <<files, catalog, scans, todo, stamping, ghosts>>

\* The result of save() is ignored.
Save(r) ==
  /\ pc[r] = "save"
  /\ \/ catalog' = newcat[r]
     \/ Failures /\ UNCHANGED catalog
  /\ pc' = [pc EXCEPT ![r] = "idle"]
  /\ newcat' = [newcat EXCEPT ![r] = NoTree]
  /\ UNCHANGED <<files, clock, scans, actions, todo, stamping, ghosts>>

\* The daemon is killed; the catalog survives (module StateStore).
Crash ==
  /\ Failures
  /\ ~AllIdle
  /\ pc' = [r \in Cycle |-> "idle"]
  /\ base' = [r \in Cycle |-> NoTree]
  /\ rtree' = [r \in Cycle |-> NoTree]
  /\ ltree' = [r \in Cycle |-> NoTree]
  /\ left' = [r \in Cycle |-> {}]
  /\ actions' = [r \in Cycle |-> {}]
  /\ todo' = [r \in Cycle |-> {}]
  /\ stamping' = [r \in Cycle |-> Absent]
  /\ newcat' = [r \in Cycle |-> NoTree]
  /\ UNCHANGED <<files, catalog, clock, ghosts>>

-----------------------------------------------------------------------------
Execute(r) ==
  \/ SkipsDryRun(r)
  \/ UploadStamps(r)
  \/ \E a \in todo[r] :
       \/ UploadSucceeds(r, a)
       \/ UploadCopies(r, a)
       \/ UploadBreaksOff(r, a)
       \/ DownloadSucceeds(r, a)
       \/ DownloadBreaksOff(r, a)
       \/ DeletesLocal(r, a)
       \/ DeleteRemoteSucceeds(r, a)
       \/ MoveSucceeds(r, a)
       \/ ActionFails(r, a)
       \/ LeavesConflict(r, a)
       \/ Converges(r, a)

Advances(r) ==
  \/ LoadBase(r)
  \/ \E p \in Path : ScanRemote(r, p) \/ ScanLocal(r, p)
  \/ Plan(r)
  \/ Execute(r)
  \/ Record(r)
  \/ Save(r)

Next ==
  \/ UserStep
  \/ \E r \in Cycle : Advances(r) \/ ScanFails(r)
  \/ Crash

Spec == Init /\ [][Next]_vars

\* The loop of main.rs starts a cycle after every sleep, and a started cycle
\* runs to its end.
FairSpec == Spec /\ \A r \in Cycle : WF_vars(Advances(r))

-----------------------------------------------------------------------------
(* Properties. *)

\* A step of a runner, as opposed to one of a user.
EngineStep == pc' # pc \/ left' # left \/ todo' # todo

(* What the planner takes for "unchanged since the last cycle" (planner.rs:50
   and :55) really is in sync: if a path is on both sides and in the catalog,
   and neither comparison with the catalog finds a difference, the two files
   hold the same content.  This is what makes it right to leave the path alone,
   although the catalog entry is written for failed transfers too and its
   remote_modified is never read from the remote. *)
UnchangedMeansEqual ==
  \A p \in Path :
    /\ local[p] # Absent /\ remote[p] # Absent /\ catalog[p] # Absent
    /\ ~local_changed(LocalItem(p), catalog[p])
    /\ ~remote_changed(RemoteItem(p), catalog[p])
    => local[p].content = remote[p].content

(* In the one-way modes no step of the engine changes a local file, whatever
   fails and however cycles and edits interleave (planner.rs:97, :119, :143). *)
OneWayLeavesLocalAlone ==
  [][Mode # "TwoWay" /\ EngineStep => UNCHANGED local]_vars

(* In OneWayNoDeletions no step of the engine makes a remote path disappear,
   not even by a move (planner.rs:132 feeds the rename detector). *)
NoDeletionsMeansNone ==
  [][Mode = "OneWayNoDeletions" /\ EngineStep =>
       \A p \in Path : remote[p] # Absent => remote'[p] # Absent]_vars

\* The version of one side is not the one the engine left there.
EditedLocally(p) == local[p] \notin {Absent, agreedL[p]}
EditedRemotely(p) == remote[p] \notin {Absent, agreedR[p]}

(* The engine never replaces a version a user wrote on one side, and that was
   never copied to the other side, by the version of the other side: such a
   path is a conflict (planner.rs:61, :157). *)
EditsAreNotOverwritten ==
  [][EngineStep => \A p \in Path :
       /\ EditedLocally(p) /\ local'[p] # Absent =>
            local'[p].content = local[p].content
       /\ EditedRemotely(p) /\ remote'[p] # Absent =>
            remote'[p].content = remote[p].content]_vars

(* Nobody but the engine writes to the remote: then no path is ever planned as
   a conflict, whatever is edited locally between the cycles (planner.rs:55
   recognises the engine's own uploads, decision matrix row "Present |
   Modified | Unchanged | Upload"). *)
OwnUploadsNeverConflict ==
  ~RemoteEdits => \A r \in Cycle : \A a \in actions[r] : a.op # "Conflict"

(* Nobody but the engine writes to the remote: then between two cycles every
   path that is on both sides has an entry in the catalog, so that the next
   edit of it is told from a conflict (orchestrator.rs:211-268; decision matrix:
   every row that leaves the path on both sides ends with L = R = B). *)
SharedPathsAreInBase ==
  ~RemoteEdits /\ AllIdle =>
    \A p \in Path : local[p] # Absent /\ remote[p] # Absent => catalog[p] # Absent

(* Nobody but the engine writes to the remote: then a local file only
   disappears when its user deletes or renames it (decision matrix: "Delete
   from Local" needs a remote deletion). *)
OnlyRemoteDeletionsDeleteLocal ==
  [][~RemoteEdits /\ EngineStep =>
       \A p \in Path : local[p] # Absent => local'[p] # Absent]_vars

\* Both sides have the same content at p, or neither has a file.
InSync(p) ==
  /\ local[p] = Absent <=> remote[p] = Absent
  /\ local[p] # Absent => local[p].content = remote[p].content

\* The one-way modes do not take over what appears or changes on the remote
\* only, and OneWayNoDeletions keeps what is deleted locally.
LeftToRemote(p) ==
  /\ Mode # "TwoWay"
  /\ remote[p] # Absent
  /\ IF local[p] = Absent
       THEN Mode = "OneWay" => catalog[p] = Absent
       ELSE /\ catalog[p] # Absent
            /\ ~local_changed(LocalItem(p), catalog[p])
            /\ remote_changed(RemoteItem(p), catalog[p])

\* execute() has gone through the plan of runner r.
Ran(r) == pc[r] = "execute" /\ todo[r] = {}

(* A cycle that nothing disturbs brings every path in sync (decision matrix:
   every row but the last ends with L = R), except a conflict, a file that the
   mode leaves to the remote, and the target of a detected move, which compares
   sizes and names only (planner.rs:43-186, executor.rs:38). *)
PathsSettle ==
  \A r \in Cycle : Ran(r) =>
    \A p \in Path :
      \/ InSync(p)
      \/ LeftToRemote(p)
      \/ \E a \in actions[r] : \/ a.op = "Conflict" /\ a.path = p
                               \/ a.op = "ServerSideMove" /\ a.to = p

(* Nobody but the engine writes to the remote: then every cycle that nothing
   disturbs makes the remote a copy of the local side, which RemoteMirrorsLocal
   says of the end only; OneWayNoDeletions keeps what is deleted locally. *)
RemoteIsACopy ==
  ~RemoteEdits =>
    \A r \in Cycle : Ran(r) =>
      \A p \in Path : InSync(p) \/ (Mode = "OneWayNoDeletions" /\ local[p] = Absent)

Contents(tree) ==
  [p \in Path |-> IF tree[p] = Absent THEN Absent ELSE tree[p].content]

(* One-way mirroring: once the users stop, the remote ends up with exactly the
   local files. *)
RemoteMirrorsLocal == <>[](Contents(remote) = Contents(local))

=============================================================================
