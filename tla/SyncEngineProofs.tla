-------------------------- MODULE SyncEngineProofs --------------------------
(***************************************************************************)
(* Theorems about SyncEngine, for any set of paths and contents.           *)
(*                                                                         *)
(* In any mode, with any conflict policy and backend capability, and with  *)
(* every failure allowed:                                                  *)
(*   - the type invariant and what each mode forbids, for any number of    *)
(*     runners and edits at any time;                                      *)
(*   - what the planner takes for unchanged is in sync, if nothing comes   *)
(*     between the two halves of an upload (Undisturbed below).            *)
(* The last needs a strengthening, SyncInv below: a modification time      *)
(* never stands for two contents, every catalog entry, saved or on its way *)
(* to being saved, has one time for both sides unless it is empty, and an  *)
(* upload that still lacks its time is a copy of the local file.           *)
(*                                                                         *)
(* For one runner, users who edit between its cycles and calls that        *)
(* succeed (Quiet below):                                                  *)
(*   - no edit is overwritten, whatever happens on both sides (AgreeInv);  *)
(*   - while the engine alone writes to a backend without moves, the       *)
(*     catalog knows every shared path and no local file is deleted        *)
(*     (ListInv); if uploads keep the local time, they are no conflicts    *)
(*     later (MirrorInv);                                                  *)
(*   - every cycle brings every path in sync that is not in conflict, and  *)
(*     makes such a backend a copy of the local side (SettleInv).          *)
(* All start from trees that are what was scanned (ScanInv) and from a     *)
(* plan that execute() goes through (PlanInv).  Quiet is needed: the runs  *)
(* SyncEngine_failedupload and SyncEngine_overwritten show what one failed *)
(* call and one edit during a cycle are enough for.                        *)
(***************************************************************************)
EXTENDS SyncEngine, TLAPS

-----------------------------------------------------------------------------
(* The inductive invariant. *)

\* The file versions that exist on either side.
Versions == ({local[p] : p \in Path} \union {remote[p] : p \in Path}) \ {Absent}

NoneFromTheFuture == \A f \in Versions : f.modified <= clock
StampsAreVersions ==
  \A f, g \in Versions : f.modified = g.modified => f.content = g.content

OneStamp(s) == s.local_modified = s.remote_modified \/ s.size = 0
OneStampEach(cat) == \A p \in Path : cat[p] # Absent => OneStamp(cat[p])
ConvergesInOne(S) == \A a \in S : a.op = "ConvergeState" => OneStamp(a.state)
Unhashed(L) == \A p \in Path : L[p] # Absent => L[p].checksum = NoChecksum

StampInv == NoneFromTheFuture /\ StampsAreVersions
EntryInv ==
  /\ OneStampEach(catalog)
  /\ \A r \in Cycle : /\ OneStampEach(newcat[r])
                       /\ ConvergesInOne(actions[r])
                       /\ Unhashed(ltree[r])

\* What is on the remote before its time is set is the local file.
CopyInv ==
  \A r \in Cycle : pc[r] = "stamp" =>
    /\ PreservesMtime
    /\ stamping[r] \in Path
    /\ local[stamping[r]] # Absent /\ remote[stamping[r]] # Absent
    /\ local[stamping[r]].content = remote[stamping[r]].content

SyncInv == StampInv /\ EntryInv /\ CopyInv

\* The backend stamps its files itself, or there is a single runner and no
\* edit while it uploads.
Undisturbed ==
  PreservesMtime => /\ ~(EditsOverlap /\ EditsDuringUpload)
                    /\ \A q, r \in Cycle : q = r
-----------------------------------------------------------------------------
(* The planner and the recorder return what TypeOK expects of them. *)

\* Both scans give a well-formed item for every file (scanner.rs).
LEMMA ScansTyped ==
  ASSUME local \in FileTree, remote \in FileTree, NEW p \in Path
  PROVE  /\ LocalItem(p) \in ScannedItem \union {Absent}
         /\ RemoteItem(p) \in ScannedItem \union {Absent}
BY EngineAssumption, PlannerAssumption
   DEF LocalItem, RemoteItem, FileTree, File, ScannedItem, MaybeChecksum

\* A detected move names two paths (rename_detector.rs).
LEMMA MovesTyped ==
  ASSUME NEW L, NEW R, NEW B, NEW M \in Moves(L, R, B)
  PROVE  M \subseteq Path \X Path
BY DEF Moves, DetectedMoves, candidate_deletions, candidate_additions,
       LocalGone, InLocal

\* Whatever the trees, the catalog and the moves, plan() appends well-formed
\* actions only (planner.rs).
LEMMA PlanTyped ==
  ASSUME NEW L \in Tree, NEW R \in Tree, NEW B \in Catalog,
         NEW M \in SUBSET (Path \X Path)
  PROVE  plan(L, R, B, M) \subseteq SyncAction
<1> SUFFICES ASSUME NEW a \in plan(L, R, B, M)
             PROVE  a \in SyncAction
  OBVIOUS
<1> DEFINE InL == {p \in Path : L[p] # Absent}
           InR == {p \in Path : R[p] # Absent}
<1>1. /\ \A p \in InL : L[p] \in ScannedItem
      /\ \A p \in InR : R[p] \in ScannedItem
  BY DEF Tree
<1>2. /\ ToUpload(L, R, B) \subseteq InL
      /\ ToDownload(L, R, B) \subseteq InR
      /\ ToDeleteLocal(L, R, B) \subseteq Path
      /\ ToConverge(L, R, B) \subseteq InL \intersect InR
      /\ ToConflict(L, R, B) \subseteq Path
      /\ ToDeleteRemote(L, R, B, M) \subseteq Path
      /\ ToAdd(L, R, B, M) \subseteq InL
  BY DEF ToUpload, ToDownload, ToDeleteLocal, ToConverge, ToConflict,
         ToDeleteRemote, ToAdd, ChangedLocallyOnly, ChangedRemotelyOnly,
         Everywhere, RemoteGone, InRemote, Diverged, LocalGone, InLocal,
         candidate_deletions, candidate_additions
<1>3. CASE \E p \in InL, k \in {0, 3} : a = Upload(p, L[p].size, k)
  BY <1>1, <1>3 DEF Upload, UploadAction, SyncAction, ScannedItem
<1>4. CASE \E p \in InR : a = Download(p, R[p])
  BY <1>1, <1>4 DEF Download, DownloadAction, SyncAction, ScannedItem
<1>5. CASE \E p \in Path : a = DeleteLocal(p)
  BY <1>5 DEF DeleteLocal, DeleteLocalAction, SyncAction
<1>6. CASE \E p \in InL \intersect InR : a = Converge(p, L[p], R[p])
  <2>1. PICK p \in InL \intersect InR : a = Converge(p, L[p], R[p])
    BY <1>6
  <2>2. a.state \in FileState
    BY <1>1, <2>1 DEF Converge, ScannedItem, FileState
  <2> QED
    BY <2>1, <2>2 DEF Converge, ConvergeAction, SyncAction
<1>7. CASE \E p \in Path : a = Conflict(p, L[p], R[p])
  <2>1. PICK p \in Path : a = Conflict(p, L[p], R[p])
    BY <1>7
  <2>2. resolve(L[p].modified, R[p].modified) \in Resolutions
    BY PlannerAssumption DEF resolve, Resolutions, Policies
  <2> QED
    BY <2>1, <2>2 DEF Conflict, ConflictAction, SyncAction
<1>8. CASE \E m \in M : a = Move(m[1], m[2])
  BY <1>8 DEF Move, MoveAction, SyncAction
<1>9. CASE \E p \in Path : a = DeleteRemote(p)
  BY <1>9 DEF DeleteRemote, DeleteRemoteAction, SyncAction
<1> QED
  BY <1>2, <1>3, <1>4, <1>5, <1>6, <1>7, <1>8, <1>9 DEF plan

\* The fields that the recorder and the executor read of an action.
LEMMA ActionFields ==
  ASSUME NEW a \in SyncAction
  PROVE  /\ a.path \in Path
         /\ a.op \in {"Upload", "Download"} => a.size \in Nat
         /\ a.op = "Download" => a.checksum \in MaybeChecksum
         /\ a.op = "ServerSideMove" => a.to \in Path
         /\ a.op = "ConvergeState" => a.state \in FileState
BY DEF SyncAction, UploadAction, DownloadAction, DeleteLocalAction,
       DeleteRemoteAction, MoveAction, ConflictAction, ConvergeAction

\* What the loop over plan.actions leaves in the catalog for an action: a
\* well-formed entry with one time for both sides if the action has a time of
\* its own, the planned state, or nothing (orchestrator.rs:211-268).
LEMMA EntryAfterTyped ==
  ASSUME TypeOK, NEW S \in SUBSET SyncAction, NEW a \in Recordable(S)
  PROVE  \/ EntryAfter(a) \in FileState /\ OneStamp(EntryAfter(a))
         \/ EntryAfter(a) = Absent
         \/ a.op = "ConvergeState" /\ a.state \in FileState /\ EntryAfter(a) = a.state
<1>1. a \in S /\ a \in SyncAction
  BY DEF Recordable, Transfers
<1>2. CASE a.op \in {"Upload", "Download"}
  <2>1. MtimeNow(a.path) \in Nat
    BY <1>1, ActionFields DEF MtimeNow, TypeOK, FileTree, File
  <2>2. EntryAfter(a) = Recorded(a, MtimeNow(a.path))
    BY <1>2 DEF EntryAfter
  <2>3. Recorded(a, MtimeNow(a.path)) \in FileState
    BY <1>1, <1>2, <2>1, ActionFields DEF Recorded, FileState, MaybeChecksum
  <2> QED
    BY <2>2, <2>3 DEF Recorded, OneStamp
<1>3. CASE a.op \in {"DeleteLocal", "DeleteRemote"}
  BY <1>3 DEF EntryAfter
<1>4. CASE a.op = "ConvergeState"
  BY <1>1, <1>4, ActionFields DEF EntryAfter
<1> QED
  BY <1>2, <1>3, <1>4 DEF Recordable, Transfers

\* The same for the catalog that is saved at the end of a cycle.
LEMMA UpdatedEntryCases ==
  ASSUME TypeOK, NEW p \in Path, NEW S \in SUBSET SyncAction
  PROVE  LET e == UpdatedEntry(p, S, catalog)
         IN  \/ e \in FileState /\ OneStamp(e)
             \/ e = Absent
             \/ \E a \in S : /\ a.op = "ConvergeState"
                             /\ a.state \in FileState
                             /\ e = a.state
             \/ e = catalog[p]
<1>1. CASE \E a \in Recordable(S) : a.path = p
  <2> DEFINE b == CHOOSE a \in Recordable(S) : a.path = p
  <2>1. b \in Recordable(S) /\ b \in S
    BY <1>1 DEF Recordable, Transfers
  <2>2. UpdatedEntry(p, S, catalog) = EntryAfter(b)
    BY <1>1 DEF UpdatedEntry
  <2> HIDE DEF b
  <2> QED
    BY <2>1, <2>2, EntryAfterTyped
<1>2. CASE ~ \E a \in Recordable(S) : a.path = p
  BY <1>2 DEF UpdatedEntry
<1> QED
  BY <1>1, <1>2

-----------------------------------------------------------------------------
(* Type correctness. *)

\* What every executed action has in common: it comes from the plan, and it
\* leaves the rest of the cycle's state alone.
LEMMA TakesTyped ==
  ASSUME TypeOK, NEW r \in Cycle, NEW a \in todo[r], Takes(r, a)
  PROVE  /\ a \in SyncAction
         /\ a.path \in Path
         /\ todo' \in [Cycle -> SUBSET SyncAction]
         /\ UNCHANGED <<catalog, base, rtree, ltree, left, actions, newcat>>
<1>1. a \in SyncAction
  BY DEF TypeOK
<1>2. todo' \in [Cycle -> SUBSET SyncAction]
  BY DEF Takes, TypeOK
<1> QED
  BY <1>1, <1>2, ActionFields DEF Takes, scans

\* The actions of execute() that run an action of the plan.
Effect(r, a) ==
  \/ UploadSucceeds(r, a) \/ UploadCopies(r, a) \/ UploadBreaksOff(r, a)
  \/ DownloadSucceeds(r, a) \/ DownloadBreaksOff(r, a)
  \/ DeletesLocal(r, a) \/ DeleteRemoteSucceeds(r, a) \/ MoveSucceeds(r, a)
  \/ ActionFails(r, a) \/ LeavesConflict(r, a) \/ Converges(r, a)

LEMMA ExecuteCases ==
  ASSUME NEW r, Execute(r)
  PROVE  \/ SkipsDryRun(r)
         \/ UploadStamps(r)
         \/ \E a \in todo[r] : Effect(r, a)
BY DEF Execute, Effect

LEMMA EffectTakes ==
  ASSUME NEW r, NEW a, Effect(r, a)
  PROVE  /\ Takes(r, a)
         /\ ~UploadCopies(r, a) => Runs(r, a)
BY DEF Effect, UploadSucceeds, UploadCopies, UploadBreaksOff, DownloadSucceeds,
       DownloadBreaksOff, DeletesLocal, DeleteRemoteSucceeds, MoveSucceeds,
       ActionFails, LeavesConflict, Converges, Runs

\* The second half of an upload leaves a file at every path that had one.
LEMMA StampsOneFile ==
  ASSUME TypeOK, NEW r \in Cycle, UploadStamps(r)
  PROVE  \/ remote' = remote
         \/ \E q \in Path, f \in File : remote' = [remote EXCEPT ![q] = f]
<1> DEFINE q == stamping[r]
           f == [remote[q] EXCEPT !.modified = local[q].modified]
<1>1. CASE local[q] # Absent /\ remote[q] # Absent
  <2>1. remote' = [remote EXCEPT ![q] = f]
    BY <1>1 DEF UploadStamps
  <2>2. CASE q \in Path
    <3>1. f \in File
      BY <1>1, <2>2 DEF TypeOK, FileTree, File
    <3> QED
      BY <2>1, <2>2, <3>1
  <2>3. CASE q \notin Path
    BY <2>1, <2>3 DEF TypeOK, FileTree
  <2> QED
    BY <2>2, <2>3
<1> QED
  BY <1>1 DEF UploadStamps

(* Every reachable state is well typed: in particular every planned action
   names a path of the trees, and every catalog entry that the engine saves
   could have been loaded. *)
THEOREM TypeCorrect == Spec => []TypeOK
<1>1. Init => TypeOK
  BY DEF Init, TypeOK, FileTree, Catalog, Tree, NoTree, PCs
<1>2. TypeOK /\ [Next]_vars => TypeOK'
  <2> SUFFICES ASSUME TypeOK, [Next]_vars
               PROVE  TypeOK'
    OBVIOUS
  <2> USE EngineAssumption
  <2>1. CASE UserStep
    <3>1. CASE \E p \in Path, c \in Content : UserWritesLocal(p, c)
      BY <3>1 DEF UserWritesLocal, runner, scans, ghosts, TypeOK, FileTree, File
    <3>2. CASE \E p \in Path, c \in Content : UserWritesRemote(p, c)
      BY <3>2 DEF UserWritesRemote, runner, scans, ghosts, TypeOK, FileTree, File
    <3>3. CASE \E p \in Path : UserDeletesLocal(p)
      BY <3>3 DEF UserDeletesLocal, runner, scans, ghosts, TypeOK, FileTree
    <3>4. CASE \E p \in Path : UserDeletesRemote(p)
      BY <3>4 DEF UserDeletesRemote, runner, scans, ghosts, TypeOK, FileTree
    <3>5. CASE \E p, q \in Path : UserRenamesLocal(p, q)
      BY <3>5 DEF UserRenamesLocal, runner, scans, ghosts, TypeOK, FileTree
    <3> QED
      BY <2>1, <3>1, <3>2, <3>3, <3>4, <3>5 DEF UserStep
  <2>2. ASSUME NEW r \in Cycle, Advances(r) \/ ScanFails(r)
        PROVE  TypeOK'
    <3>1. CASE LoadBase(r)
      BY <3>1 DEF LoadBase, files, ghosts, TypeOK, PCs
    <3>2. ASSUME NEW p \in Path, ScanRemote(r, p) \/ ScanLocal(r, p)
          PROVE  TypeOK'
      <4>1. /\ LocalItem(p) \in ScannedItem \union {Absent}
            /\ RemoteItem(p) \in ScannedItem \union {Absent}
        BY ScansTyped DEF TypeOK
      <4>2. CASE ScanRemote(r, p)
        <5>1. rtree' \in [Cycle -> Tree]
          BY <4>1, <4>2 DEF ScanRemote, TypeOK, Tree
        <5> QED
          BY <4>2, <5>1 DEF ScanRemote, files, ghosts, TypeOK, PCs
      <4>3. CASE ScanLocal(r, p)
        <5>1. ltree' \in [Cycle -> Tree]
          BY <4>1, <4>3 DEF ScanLocal, TypeOK, Tree
        <5> QED
          BY <4>3, <5>1 DEF ScanLocal, files, ghosts, TypeOK, PCs
      <4> QED
        BY <3>2, <4>2, <4>3
    <3>3. CASE Plan(r)
      <4>1. PICK M \in Moves(ltree[r], rtree[r], base[r]) :
              LET planned == plan(ltree[r], rtree[r], base[r], M)
              IN  /\ actions' = [actions EXCEPT ![r] = planned]
                  /\ todo' = [todo EXCEPT ![r] = planned]
        BY <3>3 DEF Plan
      <4>2. plan(ltree[r], rtree[r], base[r], M) \subseteq SyncAction
        BY MovesTyped, PlanTyped DEF TypeOK
      <4>3. NoTree \in Tree /\ NoTree \in Catalog
        BY DEF NoTree, Tree, Catalog
      <4> QED
        BY <3>3, <4>1, <4>2, <4>3 DEF Plan, Forgets, files, ghosts, TypeOK, PCs
    <3>4. CASE Execute(r)
      <4>1. CASE SkipsDryRun(r)
        BY <4>1 DEF SkipsDryRun, scans, files, ghosts, TypeOK, PCs
      <4>2. CASE UploadStamps(r)
        <5>1. remote' \in FileTree
          BY <4>2, StampsOneFile DEF TypeOK, FileTree
        <5>2. agreedR' \in FileTree
          BY <4>2, <5>1 DEF UploadStamps, TypeOK, FileTree
        <5> QED
          BY <4>2, <5>1, <5>2 DEF UploadStamps, scans, TypeOK, PCs
      <4>3. ASSUME NEW a \in todo[r], Effect(r, a)
            PROVE  TypeOK'
        <5>1. /\ Takes(r, a) /\ a \in SyncAction /\ a.path \in Path
              /\ a.op = "ServerSideMove" => a.to \in Path
          BY <4>3, EffectTakes, TakesTyped, ActionFields
        <5>2. ASSUME local' \in FileTree, remote' \in FileTree, clock' \in Nat,
                     agreedL' \in FileTree, agreedR' \in FileTree,
                     pc' \in [Cycle -> PCs],
                     stamping' \in [Cycle -> Path \union {Absent}]
              PROVE  TypeOK'
          BY <5>1, <5>2, TakesTyped DEF TypeOK
        <5>3. CASE Runs(r, a)
          <6>1. UNCHANGED <<pc, stamping>>
            BY <5>3 DEF Runs
          <6>2. CASE UploadSucceeds(r, a)
            <7>1. remote' \in FileTree /\ UNCHANGED local /\ clock' \in Nat
              BY <5>1, <6>2 DEF UploadSucceeds, Uploaded, TypeOK, FileTree, File
            <7>2. agreedL' \in FileTree /\ agreedR' \in FileTree
              BY <5>1, <6>2, <7>1
                 DEF UploadSucceeds, Uploaded, Agreed, TypeOK, FileTree
            <7> QED
              BY <5>2, <6>1, <7>1, <7>2 DEF TypeOK
          <6>3. CASE UploadBreaksOff(r, a)
            <7>1. remote' \in FileTree /\ clock' \in Nat /\ UNCHANGED <<local, agreedL>>
              BY <5>1, <6>3 DEF UploadBreaksOff, TypeOK, FileTree, File
            <7>2. agreedR' \in FileTree
              BY <5>1, <6>3, <7>1 DEF UploadBreaksOff, TypeOK, FileTree
            <7> QED
              BY <5>2, <6>1, <7>1, <7>2 DEF TypeOK
          <6>4. CASE DownloadSucceeds(r, a)
            <7>1. local' \in FileTree /\ UNCHANGED remote /\ clock' \in Nat
              BY <5>1, <6>4 DEF DownloadSucceeds, TypeOK, FileTree, File
            <7>2. agreedL' \in FileTree /\ agreedR' \in FileTree
              BY <5>1, <6>4, <7>1 DEF DownloadSucceeds, Agreed, TypeOK, FileTree
            <7> QED
              BY <5>2, <6>1, <7>1, <7>2 DEF TypeOK
          <6>5. CASE DownloadBreaksOff(r, a)
            <7>1. local' \in FileTree /\ clock' \in Nat /\ UNCHANGED <<remote, agreedR>>
              BY <5>1, <6>5 DEF DownloadBreaksOff, TypeOK, FileTree, File
            <7>2. agreedL' \in FileTree
              BY <5>1, <6>5, <7>1 DEF DownloadBreaksOff, TypeOK, FileTree
            <7> QED
              BY <5>2, <6>1, <7>1, <7>2 DEF TypeOK
          <6>6. CASE DeletesLocal(r, a) \/ DeleteRemoteSucceeds(r, a)
            <7>1. local' \in FileTree /\ remote' \in FileTree
              BY <5>1, <6>6
                 DEF DeletesLocal, DeleteRemoteSucceeds, TypeOK, FileTree
            <7> QED
              BY <5>2, <6>1, <6>6, <7>1
                 DEF DeletesLocal, DeleteRemoteSucceeds, ghosts, TypeOK
          <6>7. CASE MoveSucceeds(r, a)
            <7>1. remote' \in FileTree
              BY <5>1, <6>7 DEF MoveSucceeds, TypeOK, FileTree
            <7>2. agreedR' \in FileTree
              BY <5>1, <6>7, <7>1 DEF MoveSucceeds, TypeOK, FileTree
            <7> QED
              BY <5>2, <6>1, <6>7, <7>1, <7>2 DEF MoveSucceeds, TypeOK
          <6>8. CASE ActionFails(r, a) \/ LeavesConflict(r, a)
            BY <5>2, <6>1, <6>8 DEF ActionFails, LeavesConflict, files, ghosts, TypeOK
          <6>9. CASE Converges(r, a)
            <7>1. agreedL' \in FileTree /\ agreedR' \in FileTree
              BY <5>1, <6>9 DEF Converges, Agreed, files, TypeOK, FileTree
            <7> QED
              BY <5>2, <6>1, <6>9, <7>1 DEF Converges, files, TypeOK
          <6>10. ~UploadCopies(r, a)
            <7>1. pc[r] = "execute"
              BY <5>1 DEF Takes
            <7> QED
              BY <6>1, <7>1 DEF UploadCopies, TypeOK
          <6> QED
            BY <4>3, <6>2, <6>3, <6>4, <6>5, <6>6, <6>7, <6>8, <6>9, <6>10
               DEF Effect
        <5>4. CASE UploadCopies(r, a)
          <6>1. remote' \in FileTree /\ UNCHANGED local /\ clock' \in Nat
            BY <5>1, <5>4 DEF UploadCopies, Uploaded, TypeOK, FileTree, File
          <6>2. agreedL' \in FileTree /\ agreedR' \in FileTree
            BY <5>1, <5>4, <6>1 DEF UploadCopies, Uploaded, Agreed, TypeOK, FileTree
          <6> QED
            BY <5>1, <5>2, <5>4, <6>1, <6>2 DEF UploadCopies, TypeOK, PCs
        <5> QED
          BY <4>3, <5>3, <5>4, EffectTakes
      <4> QED
        BY <3>4, <4>1, <4>2, <4>3, ExecuteCases
    <3>5. CASE Record(r)
      <4>1. \A p \in Path : UpdatedEntry(p, actions[r], catalog)
                              \in FileState \union {Absent}
        BY UpdatedEntryCases DEF TypeOK, Catalog
      <4>2. [p \in Path |-> UpdatedEntry(p, actions[r], catalog)] \in Catalog
        BY <4>1 DEF Catalog
      <4> QED
        BY <3>5, <4>2 DEF Record, scans, files, ghosts, TypeOK, PCs
    <3>6. CASE Save(r)
      <4>1. NoTree \in Catalog
        BY DEF NoTree, Catalog
      <4> QED
        BY <3>6, <4>1 DEF Save, scans, files, ghosts, TypeOK, PCs
    <3>7. CASE ScanFails(r)
      <4>1. NoTree \in Tree /\ NoTree \in Catalog
        BY DEF NoTree, Tree, Catalog
      <4> QED
        BY <3>7, <4>1 DEF ScanFails, Forgets, files, ghosts, TypeOK, PCs
    <3> QED
      BY <2>2, <3>1, <3>2, <3>3, <3>4, <3>5, <3>6, <3>7 DEF Advances
  <2>3. CASE Crash
    <3>1. NoTree \in Tree /\ NoTree \in Catalog
      BY DEF NoTree, Tree, Catalog
    <3> QED
      BY <2>3, <3>1 DEF Crash, files, ghosts, TypeOK, PCs
  <2>4. CASE UNCHANGED vars
    BY <2>4 DEF vars, files, runner, scans, ghosts, TypeOK
  <2> QED
    BY <2>1, <2>2, <2>3, <2>4 DEF Next
<1> QED
  BY <1>1, <1>2, PTL DEF Spec

-----------------------------------------------------------------------------
(* Modification times. *)

LEMMA VersionsTyped ==
  ASSUME TypeOK
  PROVE  /\ Versions \subseteq File
         /\ \A p \in Path : /\ local[p] \in Versions \union {Absent}
                            /\ remote[p] \in Versions \union {Absent}
BY DEF TypeOK, FileTree, Versions

\* A step that copies, moves and removes versions, and lets time pass.
LEMMA OldVersions ==
  ASSUME TypeOK, StampInv, clock' \in {clock, clock + 1},
         \A p \in Path : /\ local'[p] \in Versions \union {Absent}
                         /\ remote'[p] \in Versions \union {Absent}
  PROVE  StampInv'
<1>1. Versions' \subseteq Versions
  BY DEF Versions
<1>2. \A f \in Versions : f.modified \in Nat
  BY VersionsTyped DEF File
<1>3. clock \in Nat
  BY DEF TypeOK
<1> QED
  BY <1>1, <1>2, <1>3 DEF StampInv, NoneFromTheFuture, StampsAreVersions

\* A step that also creates a version, with a time of its own.
LEMMA FreshVersion ==
  ASSUME TypeOK, StampInv, clock' = clock + 1, NEW c \in Content,
         LET fresh == [content |-> c, modified |-> clock + 1]
         IN  \A p \in Path : /\ local'[p] \in Versions \union {fresh, Absent}
                             /\ remote'[p] \in Versions \union {fresh, Absent}
  PROVE  StampInv'
<1> DEFINE fresh == [content |-> c, modified |-> clock + 1]
<1>1. Versions' \subseteq Versions \union {fresh}
  BY DEF Versions
<1>2. \A f \in Versions : f.modified \in Nat /\ f.modified <= clock
  BY VersionsTyped DEF File, StampInv, NoneFromTheFuture
<1>3. clock \in Nat
  BY DEF TypeOK
<1>4. /\ fresh.modified = clock + 1
      /\ \A f \in Versions : f.modified # fresh.modified
  BY <1>2, <1>3
<1> HIDE DEF fresh
<1>5. NoneFromTheFuture'
  BY <1>1, <1>2, <1>3, <1>4 DEF NoneFromTheFuture
<1>6. StampsAreVersions'
  BY <1>1, <1>4 DEF StampInv, StampsAreVersions
<1> QED
  BY <1>5, <1>6 DEF StampInv

\* A step that adds the version [c, clock + 1] to one of the sides.
LEMMA AddsVersion ==
  ASSUME TypeOK, StampInv, NEW p \in Path, NEW c \in Content, clock' = clock + 1,
         LET fresh == [content |-> c, modified |-> clock + 1]
         IN  \/ local' = [local EXCEPT ![p] = fresh] /\ UNCHANGED remote
             \/ remote' = [remote EXCEPT ![p] = fresh] /\ UNCHANGED local
  PROVE  StampInv'
<1> DEFINE fresh == [content |-> c, modified |-> clock + 1]
<1>1. \A q \in Path : /\ local'[q] \in Versions \union {fresh, Absent}
                      /\ remote'[q] \in Versions \union {fresh, Absent}
  BY VersionsTyped DEF TypeOK, FileTree
<1> QED
  BY <1>1, FreshVersion

\* No step reuses a modification time for a different content.
LEMMA StampStep ==
  ASSUME TypeOK, StampInv, CopyInv, [Next]_vars
  PROVE  StampInv'
<1> USE VersionsTyped, EngineAssumption
<1>1. CASE UserStep
  <2>1. CASE \E p \in Path, c \in Content : UserWritesLocal(p, c)
    BY <2>1, AddsVersion DEF UserWritesLocal
  <2>2. CASE \E p \in Path, c \in Content : UserWritesRemote(p, c)
    BY <2>2, AddsVersion DEF UserWritesRemote
  <2>3. CASE \E p \in Path : UserDeletesLocal(p) \/ UserDeletesRemote(p)
    BY <2>3, OldVersions DEF UserDeletesLocal, UserDeletesRemote, TypeOK, FileTree
  <2>4. CASE \E p, q \in Path : UserRenamesLocal(p, q)
    BY <2>4, OldVersions DEF UserRenamesLocal, TypeOK, FileTree
  <2> QED
    BY <1>1, <2>1, <2>2, <2>3, <2>4 DEF UserStep
<1>2. ASSUME NEW r \in Cycle, NEW a \in todo[r], Effect(r, a)
      PROVE  StampInv'
  <2>1. a \in SyncAction /\ a.path \in Path
    BY <1>2, EffectTakes, TakesTyped
  <2>2. CASE UploadSucceeds(r, a) \/ UploadCopies(r, a)
    <3>1. Uploaded(a)
      BY <2>2 DEF UploadSucceeds, UploadCopies
    <3>2. local[a.path].content \in Content
      BY <2>1, <3>1 DEF Uploaded, TypeOK, FileTree, File
    <3> QED
      BY <2>1, <3>1, <3>2, AddsVersion DEF Uploaded
  <2>3. CASE UploadBreaksOff(r, a)
    BY <2>1, <2>3, AddsVersion DEF UploadBreaksOff
  <2>4. CASE DownloadSucceeds(r, a)
    <3>1. remote[a.path].content \in Content
      BY <2>1, <2>4 DEF DownloadSucceeds, TypeOK, FileTree, File
    <3> QED
      BY <2>1, <2>4, <3>1, AddsVersion DEF DownloadSucceeds
  <2>5. CASE DownloadBreaksOff(r, a)
    BY <2>1, <2>5, AddsVersion DEF DownloadBreaksOff
  <2>6. CASE DeletesLocal(r, a) \/ DeleteRemoteSucceeds(r, a)
    BY <2>6, OldVersions DEF DeletesLocal, DeleteRemoteSucceeds, TypeOK, FileTree
  <2>7. CASE MoveSucceeds(r, a)
    <3>1. a.to \in Path
      BY <2>1, <2>7, ActionFields DEF MoveSucceeds
    <3> QED
      BY <2>1, <2>7, <3>1, OldVersions DEF MoveSucceeds, TypeOK, FileTree
  <2>8. CASE ActionFails(r, a) \/ LeavesConflict(r, a) \/ Converges(r, a)
    BY <2>8, OldVersions DEF ActionFails, LeavesConflict, Converges, files
  <2> QED
    BY <1>2, <2>2, <2>3, <2>4, <2>5, <2>6, <2>7, <2>8 DEF Effect
<1>3. ASSUME NEW r \in Cycle, UploadStamps(r)
      PROVE  StampInv'
  <2> DEFINE p == stamping[r]
  <2>1. /\ p \in Path
        /\ local[p] # Absent /\ remote[p] # Absent
        /\ local[p].content = remote[p].content
    BY <1>3 DEF UploadStamps, CopyInv
  <2>2. local[p] \in File /\ remote[p] \in File
    BY <2>1 DEF TypeOK, FileTree
  <2>3. remote' = [remote EXCEPT ![p].modified = local[p].modified]
    BY <1>3, <2>1 DEF UploadStamps
  <2>4. remote'[p] = local[p]
    BY <2>1, <2>2, <2>3 DEF TypeOK, FileTree, File
  <2>5. UNCHANGED <<local, clock>>
    BY <1>3 DEF UploadStamps
  <2>6. \A q \in Path : /\ local'[q] \in Versions \union {Absent}
                        /\ remote'[q] \in Versions \union {Absent}
    BY <2>3, <2>4, <2>5 DEF TypeOK, FileTree
  <2> QED
    BY <2>5, <2>6, OldVersions
<1>4. CASE /\ UNCHANGED files
           /\ clock' \in {clock, clock + 1}
  BY <1>4, OldVersions DEF files
<1>5. ASSUME NEW r \in Cycle,
             \/ LoadBase(r) \/ Plan(r)
             \/ \E p \in Path : ScanRemote(r, p) \/ ScanLocal(r, p)
             \/ SkipsDryRun(r) \/ Record(r) \/ Save(r) \/ ScanFails(r)
      PROVE  UNCHANGED files /\ clock' \in {clock, clock + 1}
  BY <1>5 DEF LoadBase, ScanRemote, ScanLocal, Plan, SkipsDryRun, Record, Save,
              ScanFails, files
<1>6. CASE Crash \/ UNCHANGED vars
  BY <1>4, <1>6 DEF Crash, vars, files
<1> QED
  BY <1>1, <1>2, <1>3, <1>4, <1>5, <1>6, ExecuteCases DEF Next, Advances

-----------------------------------------------------------------------------
(* Uploads in two halves. *)

\* A runner only starts to stamp a file after copying it.
LEMMA StartsStamping ==
  ASSUME TypeOK, [Next]_vars, NEW q \in Cycle, pc[q] # "stamp", pc'[q] = "stamp"
  PROVE  \E a \in todo[q] : UploadCopies(q, a)
<1>1. CASE UserStep \/ UNCHANGED vars
  BY <1>1
     DEF UserStep, UserWritesLocal, UserWritesRemote, UserDeletesLocal,
         UserDeletesRemote, UserRenamesLocal, runner, vars
<1>2. CASE Crash
  BY <1>2 DEF Crash
<1>3. ASSUME NEW r \in Cycle,
             \/ LoadBase(r) \/ Plan(r)
             \/ \E p \in Path : ScanRemote(r, p) \/ ScanLocal(r, p)
             \/ SkipsDryRun(r) \/ UploadStamps(r)
             \/ Record(r) \/ Save(r) \/ ScanFails(r)
      PROVE  FALSE
  BY <1>3 DEF LoadBase, ScanRemote, ScanLocal, Plan, SkipsDryRun, UploadStamps,
              Record, Save, ScanFails, TypeOK
<1>4. ASSUME NEW r \in Cycle, NEW a \in todo[r], Effect(r, a)
      PROVE  UploadCopies(q, a) /\ q = r
  <2>1. UploadCopies(r, a)
    BY <1>4, EffectTakes DEF Runs
  <2>2. q = r
    BY <2>1 DEF UploadCopies, TypeOK
  <2> QED
    BY <2>1, <2>2
<1> QED
  BY <1>1, <1>2, <1>3, <1>4, ExecuteCases DEF Next, Advances

\* Nothing comes between the two halves of an upload.
LEMMA CopyStep ==
  ASSUME Undisturbed, TypeOK, CopyInv, [Next]_vars
  PROVE  CopyInv'
<1> SUFFICES ASSUME NEW q \in Cycle, pc'[q] = "stamp"
             PROVE  /\ PreservesMtime
                    /\ stamping'[q] \in Path
                    /\ local'[stamping'[q]] # Absent
                    /\ remote'[stamping'[q]] # Absent
                    /\ local'[stamping'[q]].content = remote'[stamping'[q]].content
  BY DEF CopyInv
<1>1. CASE pc[q] # "stamp"
  <2>1. PICK a \in todo[q] : UploadCopies(q, a)
    BY <1>1, StartsStamping
  <2>2. a.path \in Path
    BY <2>1, TakesTyped DEF UploadCopies
  <2> DEFINE copy == [content |-> local[a.path].content, modified |-> clock + 1]
  <2>3. /\ PreservesMtime
        /\ stamping'[q] = a.path
        /\ UNCHANGED local
        /\ local[a.path] # Absent
        /\ remote' = [remote EXCEPT ![a.path] = copy]
    BY <2>1 DEF UploadCopies, Uploaded, TypeOK
  <2>4. copy \in File
    BY <2>2, <2>3 DEF TypeOK, FileTree, File
  <2>5. copy # Absent /\ copy.content = local[a.path].content
    BY <2>4, EngineAssumption
  <2> HIDE DEF copy
  <2>6. remote'[a.path] = copy
    BY <2>2, <2>3 DEF TypeOK, FileTree
  <2> QED
    BY <2>2, <2>3, <2>5, <2>6
<1>2. CASE pc[q] = "stamp"
  <2>1. /\ ~(EditsOverlap /\ EditsDuringUpload)
        /\ \A r \in Cycle : r = q
    BY <1>2 DEF CopyInv, Undisturbed
  <2>2. ~UserStep
    BY <1>2, <2>1
       DEF UserStep, UserWritesLocal, UserWritesRemote, UserDeletesLocal,
           UserDeletesRemote, UserRenamesLocal, MayEdit, AllIdle, NoneStamping
  <2>3. ~Crash
    BY DEF Crash
  <2>4. ASSUME NEW r \in Cycle, Advances(r) \/ ScanFails(r)
        PROVE  FALSE
    <3>1. pc[r] = "stamp" /\ pc'[r] = "stamp"
      BY <1>2, <2>1
    <3>2. ~UploadStamps(r)
      BY <3>1 DEF UploadStamps, TypeOK
    <3>3. \A a \in todo[r] : ~Effect(r, a)
      BY <3>1, EffectTakes DEF Takes
    <3>4. ~SkipsDryRun(r)
      BY <3>1 DEF SkipsDryRun
    <3> QED
      BY <2>4, <3>1, <3>2, <3>3, <3>4, ExecuteCases
         DEF Advances, ScanFails, LoadBase, ScanRemote, ScanLocal, Plan, Record, Save
  <2>5. UNCHANGED vars
    BY <2>2, <2>3, <2>4 DEF Next
  <2> QED
    BY <1>2, <2>5 DEF CopyInv, vars, files, runner
<1> QED
  BY <1>1, <1>2

-----------------------------------------------------------------------------
(* Catalog entries. *)

\* Without a local checksum the planner converges empty files only
\* (planner.rs:62-65, scanner.rs:145).
LEMMA PlanConvergesEmpty ==
  ASSUME NEW L, Unhashed(L), NEW R, NEW B, NEW M
  PROVE  ConvergesInOne(plan(L, R, B, M))
<1> SUFFICES ASSUME NEW a \in plan(L, R, B, M), a.op = "ConvergeState"
             PROVE  OneStamp(a.state)
  BY DEF ConvergesInOne
<1>1. PICK p \in ToConverge(L, R, B) : a = Converge(p, L[p], R[p])
  BY DEF plan, Upload, Download, DeleteLocal, Conflict, Move, DeleteRemote
<1>2. /\ p \in Path
      /\ L[p] # Absent
      /\ same_content(L[p], R[p])
  BY <1>1 DEF ToConverge, Diverged
<1>3. L[p].checksum = NoChecksum
  BY <1>2 DEF Unhashed
<1>4. L[p].size = 0
  BY <1>2, <1>3 DEF same_content
<1> QED
  BY <1>1, <1>4 DEF Converge, OneStamp

\* Every entry that is recorded, saved or planned has one time or no bytes.
LEMMA EntryStep ==
  ASSUME TypeOK, EntryInv, [Next]_vars
  PROVE  EntryInv'
<1>0. OneStampEach(NoTree) /\ ConvergesInOne({}) /\ Unhashed(NoTree)
  BY DEF OneStampEach, NoTree, ConvergesInOne, Unhashed
<1>1. CASE UNCHANGED <<catalog, newcat, actions, ltree>>
  BY <1>1 DEF EntryInv, OneStampEach, ConvergesInOne, Unhashed
<1>2. CASE UserStep \/ UNCHANGED vars
  BY <1>1, <1>2
     DEF UserStep, UserWritesLocal, UserWritesRemote, UserDeletesLocal,
         UserDeletesRemote, UserRenamesLocal, runner, scans, vars
<1>3. ASSUME NEW r \in Cycle, LoadBase(r) \/ \E p \in Path : ScanRemote(r, p)
      PROVE  EntryInv'
  BY <1>1, <1>3 DEF LoadBase, ScanRemote
<1>4. ASSUME NEW r \in Cycle, NEW p \in Path, ScanLocal(r, p)
      PROVE  EntryInv'
  <2>1. LocalItem(p) # Absent => LocalItem(p).checksum = NoChecksum
    BY DEF LocalItem
  <2>2. /\ ltree' = [ltree EXCEPT ![r][p] = LocalItem(p)]
        /\ UNCHANGED <<catalog, newcat, actions>>
    BY <1>4 DEF ScanLocal
  <2>3. \A q \in Cycle : Unhashed(ltree'[q])
    BY <2>1, <2>2 DEF EntryInv, Unhashed, TypeOK, Tree
  <2> QED
    BY <2>2, <2>3 DEF EntryInv, OneStampEach, ConvergesInOne
<1>5. ASSUME NEW r \in Cycle, Plan(r)
      PROVE  EntryInv'
  <2>1. PICK M \in Moves(ltree[r], rtree[r], base[r]) :
          actions' = [actions EXCEPT ![r] =
                        plan(ltree[r], rtree[r], base[r], M)]
    BY <1>5 DEF Plan
  <2>2. ConvergesInOne(plan(ltree[r], rtree[r], base[r], M))
    BY PlanConvergesEmpty DEF EntryInv
  <2>3. /\ ltree' = [ltree EXCEPT ![r] = NoTree]
        /\ UNCHANGED <<catalog, newcat>>
    BY <1>5 DEF Plan, Forgets
  <2>4. \A q \in Cycle : ConvergesInOne(actions'[q]) /\ Unhashed(ltree'[q])
    BY <1>0, <2>1, <2>2, <2>3 DEF EntryInv, TypeOK
  <2> QED
    BY <2>3, <2>4 DEF EntryInv, OneStampEach
<1>6. ASSUME NEW r \in Cycle, ScanFails(r)
       PROVE  EntryInv'
  <2>1. /\ ltree' = [ltree EXCEPT ![r] = NoTree]
        /\ UNCHANGED <<catalog, newcat, actions>>
    BY <1>6 DEF ScanFails, Forgets
  <2>2. \A q \in Cycle : Unhashed(ltree'[q])
    BY <1>0, <2>1 DEF EntryInv, TypeOK
  <2> QED
    BY <2>1, <2>2 DEF EntryInv, OneStampEach, ConvergesInOne
<1>7. ASSUME NEW r \in Cycle, Execute(r)
       PROVE  EntryInv'
  <2>1. CASE SkipsDryRun(r)
    <3>1. \A q \in Cycle : ConvergesInOne(actions'[q])
      BY <1>0, <2>1 DEF SkipsDryRun, EntryInv, TypeOK
    <3>2. UNCHANGED <<catalog, newcat, ltree>>
      BY <2>1 DEF SkipsDryRun, scans
    <3> QED
      BY <3>1, <3>2 DEF EntryInv, OneStampEach, Unhashed
  <2>2. CASE UploadStamps(r)
    BY <1>1, <2>2 DEF UploadStamps, scans
  <2>3. CASE \E a \in todo[r] : Effect(r, a)
    BY <1>1, <2>3, EffectTakes DEF Takes, scans
  <2> QED
    BY <1>7, <2>1, <2>2, <2>3, ExecuteCases
<1>8. ASSUME NEW r \in Cycle, Record(r)
      PROVE  EntryInv'
  <2> DEFINE updated == [p \in Path |-> UpdatedEntry(p, actions[r], catalog)]
  <2>1. OneStampEach(updated)
    <3> SUFFICES ASSUME NEW p \in Path, updated[p] # Absent
                 PROVE  OneStamp(updated[p])
      BY DEF OneStampEach
    <3>1. updated[p] = UpdatedEntry(p, actions[r], catalog)
      OBVIOUS
    <3>2. actions[r] \in SUBSET SyncAction
      BY DEF TypeOK
    <3>3. \A a \in actions[r] : a.op = "ConvergeState" => OneStamp(a.state)
      BY DEF EntryInv, ConvergesInOne
    <3>4. catalog[p] # Absent => OneStamp(catalog[p])
      BY DEF EntryInv, OneStampEach
    <3> HIDE DEF updated
    <3> QED
      BY <3>1, <3>2, <3>3, <3>4, UpdatedEntryCases
  <2>2. newcat' = [newcat EXCEPT ![r] = updated]
    BY <1>8 DEF Record
  <2>3. actions' = [actions EXCEPT ![r] = {}] /\ UNCHANGED <<catalog, ltree>>
    BY <1>8 DEF Record, scans
  <2> HIDE DEF updated
  <2>4. \A q \in Cycle : OneStampEach(newcat'[q]) /\ ConvergesInOne(actions'[q])
    BY <1>0, <2>1, <2>2, <2>3 DEF EntryInv, TypeOK
  <2> QED
    BY <2>3, <2>4 DEF EntryInv, OneStampEach, Unhashed
<1>9. ASSUME NEW r \in Cycle, Save(r)
      PROVE  EntryInv'
  <2>1. OneStampEach(catalog')
    <3>1. catalog' = newcat[r] \/ catalog' = catalog
      BY <1>9 DEF Save
    <3> QED
      BY <3>1 DEF EntryInv, OneStampEach
  <2>2. \A q \in Cycle : OneStampEach(newcat'[q])
    BY <1>0, <1>9 DEF Save, EntryInv, TypeOK
  <2>3. UNCHANGED <<actions, ltree>>
    BY <1>9 DEF Save, scans
  <2> QED
    BY <2>1, <2>2, <2>3 DEF EntryInv, ConvergesInOne, Unhashed
<1>10. CASE Crash
  <2>1. UNCHANGED catalog
    BY <1>10 DEF Crash
  <2>2. \A q \in Cycle : /\ OneStampEach(newcat'[q])
                         /\ ConvergesInOne(actions'[q])
                         /\ Unhashed(ltree'[q])
    BY <1>0, <1>10 DEF Crash
  <2> QED
    BY <2>1, <2>2 DEF EntryInv, OneStampEach
<1> QED
  BY <1>2, <1>3, <1>4, <1>5, <1>6, <1>7, <1>8, <1>9, <1>10 DEF Next, Advances

\* At the start there is nothing to be out of sync.
LEMMA InitSynced ==
  ASSUME Init
  PROVE  SyncInv
<1>1. Versions = {}
  BY DEF Init, NoTree, Versions
<1> QED
  BY <1>1
     DEF Init, SyncInv, StampInv, EntryInv, NoneFromTheFuture,
         CopyInv, StampsAreVersions, OneStampEach, ConvergesInOne, Unhashed,
         NoTree

-----------------------------------------------------------------------------
(* What the planner takes for unchanged holds the same content on both sides,
   for any number of paths, in every mode, whatever fails, and whenever the
   files are edited, except between the two halves of a simulated upload
   (planner.rs:50-59, local_sim.rs:86-93). *)
THEOREM UnchangedIsEqual ==
  ASSUME Undisturbed
  PROVE  Spec => []UnchangedMeansEqual
<1>1. Init => SyncInv
  BY InitSynced
<1>2. TypeOK /\ SyncInv /\ [Next]_vars => SyncInv'
  BY StampStep, EntryStep, CopyStep DEF SyncInv
<1>3. TypeOK /\ SyncInv => UnchangedMeansEqual
  <2> SUFFICES ASSUME TypeOK, SyncInv, NEW p \in Path,
                      local[p] # Absent, remote[p] # Absent, catalog[p] # Absent,
                      ~local_changed(LocalItem(p), catalog[p]),
                      ~remote_changed(RemoteItem(p), catalog[p])
               PROVE  local[p].content = remote[p].content
    BY DEF UnchangedMeansEqual
  <2>1. /\ local[p] \in File /\ local[p] \in Versions
        /\ remote[p] \in File /\ remote[p] \in Versions
    BY VersionsTyped DEF TypeOK, FileTree
  <2>2. /\ Size[local[p].content] = catalog[p].size
        /\ local[p].modified = catalog[p].local_modified
    BY DEF local_changed, LocalItem
  <2>3. /\ Size[remote[p].content] = catalog[p].size
        /\ remote[p].modified = catalog[p].remote_modified
    BY DEF remote_changed, RemoteItem
  <2>4. CASE catalog[p].local_modified = catalog[p].remote_modified
    BY <2>1, <2>2, <2>3, <2>4 DEF SyncInv, StampInv, StampsAreVersions
  <2>5. CASE catalog[p].size = 0
    BY <2>1, <2>2, <2>3, <2>5, EngineAssumption DEF File
  <2> QED
    BY <2>4, <2>5 DEF SyncInv, EntryInv, OneStampEach, OneStamp
<1> QED
  BY <1>1, <1>2, <1>3, TypeCorrect, PTL DEF Spec

-----------------------------------------------------------------------------
(* What the mode forbids. *)

\* The operations that no plan of the mode contains.
Forbidden ==
  CASE Mode = "TwoWay" -> {}
    [] Mode = "OneWay" -> {"Download", "DeleteLocal"}
    [] Mode = "OneWayNoDeletions" ->
         {"Download", "DeleteLocal", "DeleteRemote", "ServerSideMove"}

ObeysMode == \A r \in Cycle : \A a \in todo[r] : a.op \notin Forbidden

\* plan() consults sync_both and sync_deletions wherever it has to: the moves
\* are safe because they come out of candidate_deletions (planner.rs:97-193).
LEMMA PlanObeysMode ==
  ASSUME NEW L, NEW R, NEW B, NEW M \in Moves(L, R, B), NEW a \in plan(L, R, B, M)
  PROVE  a.op \notin Forbidden
<1>1. Forbidden \subseteq {"Download", "DeleteLocal", "DeleteRemote", "ServerSideMove"}
  BY PlannerAssumption DEF Forbidden, Modes
<1>2. CASE Mode = "TwoWay"
  BY <1>2 DEF Forbidden
<1>3. CASE Mode # "TwoWay"
  <2>1. ToDownload(L, R, B) = {} /\ ToDeleteLocal(L, R, B) = {}
    BY <1>3 DEF ToDownload, ToDeleteLocal, sync_both
  <2>2. a.op \notin {"Download", "DeleteLocal"}
    BY <2>1 DEF plan, Upload, Converge, Conflict, Move, DeleteRemote
  <2>3. CASE Mode = "OneWayNoDeletions"
    <3>1. candidate_deletions(L, R, B) = {}
      BY <2>3 DEF candidate_deletions, sync_deletions
    <3>2. M = {} /\ ToDeleteRemote(L, R, B, M) = {}
      BY <3>1 DEF Moves, DetectedMoves, ToDeleteRemote
    <3>3. a.op \notin {"DeleteRemote", "ServerSideMove"}
      BY <3>2 DEF plan, Upload, Download, DeleteLocal, Converge, Conflict
    <3> QED
      BY <1>1, <2>2, <3>3
  <2>4. CASE Mode = "OneWay"
    BY <2>2, <2>4 DEF Forbidden
  <2> QED
    BY <1>3, <2>3, <2>4, PlannerAssumption DEF Modes
<1> QED
  BY <1>2, <1>3

\* Every action that is left to run is one the mode allows.
LEMMA ObeysModeAlways == Spec => []ObeysMode
<1>1. Init => ObeysMode
  BY DEF Init, ObeysMode
<1>2. TypeOK /\ ObeysMode /\ [Next]_vars => ObeysMode'
  <2> SUFFICES ASSUME TypeOK, ObeysMode, [Next]_vars
               PROVE  ObeysMode'
    OBVIOUS
  <2>1. CASE UNCHANGED todo
    BY <2>1 DEF ObeysMode
  <2>2. CASE UserStep \/ UNCHANGED vars
    BY <2>1, <2>2
       DEF UserStep, UserWritesLocal, UserWritesRemote, UserDeletesLocal,
           UserDeletesRemote, UserRenamesLocal, runner, vars
  <2>3. ASSUME NEW r \in Cycle,
               \/ LoadBase(r) \/ ScanFails(r)
               \/ \E p \in Path : ScanRemote(r, p) \/ ScanLocal(r, p)
               \/ Record(r) \/ Save(r)
        PROVE  ObeysMode'
    BY <2>1, <2>3 DEF LoadBase, ScanRemote, ScanLocal, ScanFails, Record, Save
  <2>4. ASSUME NEW r \in Cycle, Plan(r)
        PROVE  ObeysMode'
    <3>1. PICK M \in Moves(ltree[r], rtree[r], base[r]) :
            todo' = [todo EXCEPT ![r] = plan(ltree[r], rtree[r], base[r], M)]
      BY <2>4 DEF Plan
    <3>2. \A a \in plan(ltree[r], rtree[r], base[r], M) : a.op \notin Forbidden
      BY PlanObeysMode
    <3> QED
      BY <3>1, <3>2 DEF ObeysMode, TypeOK
  <2>5. ASSUME NEW r \in Cycle, Execute(r)
        PROVE  ObeysMode'
    <3>1. \/ todo' = [todo EXCEPT ![r] = {}]
          \/ UNCHANGED todo
          \/ \E a \in todo[r] : todo' = [todo EXCEPT ![r] = @ \ {a}]
      BY <2>5, ExecuteCases, EffectTakes DEF SkipsDryRun, UploadStamps, Takes
    <3> QED
      BY <3>1 DEF ObeysMode, TypeOK
  <2>6. CASE Crash
    BY <2>6 DEF Crash, ObeysMode
  <2> QED
    BY <2>2, <2>3, <2>4, <2>5, <2>6 DEF Next, Advances
<1> QED
  BY <1>1, <1>2, TypeCorrect, PTL DEF Spec

\* The steps that are not the engine's, and those that touch neither side.
LEMMA OtherSteps ==
  ASSUME [Next]_vars
  PROVE  \/ ~EngineStep
         \/ UNCHANGED files
         \/ \E r \in Cycle : UploadStamps(r) \/ \E a \in todo[r] : Effect(r, a)
<1>1. CASE UserStep \/ UNCHANGED vars
  BY <1>1
     DEF UserStep, UserWritesLocal, UserWritesRemote, UserDeletesLocal,
         UserDeletesRemote, UserRenamesLocal, runner, scans, vars, EngineStep
<1>2. CASE Crash
  BY <1>2 DEF Crash
<1>3. ASSUME NEW r \in Cycle,
             \/ LoadBase(r) \/ Plan(r)
             \/ \E p \in Path : ScanRemote(r, p) \/ ScanLocal(r, p)
             \/ Record(r) \/ Save(r) \/ ScanFails(r) \/ SkipsDryRun(r)
      PROVE  UNCHANGED files
  BY <1>3 DEF LoadBase, ScanRemote, ScanLocal, Plan, Record, Save, ScanFails,
              SkipsDryRun
<1> QED
  BY <1>1, <1>2, <1>3, ExecuteCases DEF Next, Advances

(* In the one-way modes the engine never touches a local file, for any number
   of paths and runners and whatever fails (planner.rs:97, :119, :143). *)
THEOREM OneWayIsOneWay == Spec => OneWayLeavesLocalAlone
<1>1. ObeysMode /\ [Next]_vars =>
        [Mode # "TwoWay" /\ EngineStep => UNCHANGED local]_vars
  <2> SUFFICES ASSUME ObeysMode, [Next]_vars, Mode # "TwoWay", EngineStep
               PROVE  UNCHANGED local
    OBVIOUS
  <2>1. "Download" \in Forbidden /\ "DeleteLocal" \in Forbidden
    BY PlannerAssumption DEF Forbidden, Modes
  <2>2. ASSUME NEW r \in Cycle, NEW a \in todo[r], Effect(r, a)
        PROVE  UNCHANGED local
    <3>1. /\ ~DownloadSucceeds(r, a) /\ ~DownloadBreaksOff(r, a)
          /\ ~DeletesLocal(r, a)
      BY <2>1 DEF ObeysMode, DownloadSucceeds, DownloadBreaksOff, DeletesLocal
    <3> QED
      BY <2>2, <3>1
         DEF Effect, UploadSucceeds, UploadCopies, Uploaded, UploadBreaksOff,
             DeleteRemoteSucceeds, MoveSucceeds, ActionFails, LeavesConflict,
             Converges, files
  <2>3. ASSUME NEW r \in Cycle, UploadStamps(r)
        PROVE  UNCHANGED local
    BY <2>3 DEF UploadStamps
  <2> QED
    BY <2>2, <2>3, OtherSteps DEF files
<1> QED
  BY <1>1, ObeysModeAlways, PTL DEF Spec, OneWayLeavesLocalAlone

(* In OneWayNoDeletions the engine never makes a remote path disappear, not
   even by a server-side move (planner.rs:132, :193). *)
THEOREM NoDeletionsIsKept == Spec => NoDeletionsMeansNone
<1>1. TypeOK /\ ObeysMode /\ [Next]_vars =>
        [Mode = "OneWayNoDeletions" /\ EngineStep =>
           \A p \in Path : remote[p] # Absent => remote'[p] # Absent]_vars
  <2> SUFFICES ASSUME TypeOK, ObeysMode, [Next]_vars,
                      Mode = "OneWayNoDeletions", EngineStep,
                      NEW p \in Path, remote[p] # Absent
               PROVE  remote'[p] # Absent
    OBVIOUS
  <2>1. "DeleteRemote" \in Forbidden /\ "ServerSideMove" \in Forbidden
    BY DEF Forbidden
  <2>2. ASSUME NEW q \in Path, NEW f \in File,
               remote' = [remote EXCEPT ![q] = f]
        PROVE  remote'[p] # Absent
    BY <2>2, EngineAssumption DEF TypeOK, FileTree
  <2>3. ASSUME NEW r \in Cycle, NEW a \in todo[r], Effect(r, a)
        PROVE  remote'[p] # Absent
    <3>1. ~DeleteRemoteSucceeds(r, a) /\ ~MoveSucceeds(r, a)
      BY <2>1 DEF ObeysMode, DeleteRemoteSucceeds, MoveSucceeds
    <3>2. a.path \in Path
      BY <2>3, EffectTakes, TakesTyped
    <3>3. CASE UploadSucceeds(r, a) \/ UploadCopies(r, a)
      <4>1. Uploaded(a)
        BY <3>3 DEF UploadSucceeds, UploadCopies
      <4>2. [content |-> local[a.path].content, modified |-> clock + 1] \in File
        BY <3>2, <4>1 DEF Uploaded, TypeOK, FileTree, File
      <4> QED
        BY <2>2, <3>2, <4>1, <4>2 DEF Uploaded
    <3>4. CASE UploadBreaksOff(r, a)
      <4>1. [content |-> Empty, modified |-> clock + 1] \in File
        BY EngineAssumption DEF TypeOK, File
      <4> QED
        BY <2>2, <3>2, <3>4, <4>1 DEF UploadBreaksOff
    <3>5. CASE \/ DownloadSucceeds(r, a) \/ DownloadBreaksOff(r, a)
               \/ DeletesLocal(r, a) \/ ActionFails(r, a)
               \/ LeavesConflict(r, a) \/ Converges(r, a)
      BY <3>5 DEF DownloadSucceeds, DownloadBreaksOff, DeletesLocal, ActionFails,
                  LeavesConflict, Converges, files
    <3> QED
      BY <2>3, <3>1, <3>3, <3>4, <3>5 DEF Effect
  <2>4. ASSUME NEW r \in Cycle, UploadStamps(r)
        PROVE  remote'[p] # Absent
    BY <2>2, <2>4, StampsOneFile
  <2> QED
    BY <2>3, <2>4, OtherSteps DEF files
<1> QED
  BY <1>1, TypeCorrect, ObeysModeAlways, PTL DEF Spec, NoDeletionsMeansNone

-----------------------------------------------------------------------------
(* Cycles that nothing disturbs.                                           *)

\* Calls succeed, users edit between the cycles, and there is one runner.
Quiet == ~Failures /\ ~EditsOverlap /\ \A q, r \in Cycle : q = r

\* The catalog is loaded and the trees are what has been scanned so far.
ScanInv ==
  \A r \in Cycle :
    /\ pc[r] \in {"scan_remote", "scan_local", "plan"} => base[r] = catalog
    /\ pc[r] = "scan_remote" =>
         \A p \in Path \ left[r] : rtree[r][p] = RemoteItem(p)
    /\ pc[r] \in {"scan_local", "plan"} =>
         \A p \in Path : rtree[r][p] = RemoteItem(p)
    /\ pc[r] = "scan_local" =>
         \A p \in Path \ left[r] : ltree[r][p] = LocalItem(p)
    /\ pc[r] = "plan" => \A p \in Path : ltree[r][p] = LocalItem(p)

\* The actions that execute() has gone through.
Done(r) == actions[r] \ todo[r]

PlanInv ==
  \A r \in Cycle :
    /\ todo[r] \subseteq actions[r]
    /\ pc[r] \notin {"execute", "stamp", "dry_run"} => actions[r] = {}
    /\ pc[r] = "stamp" => \E a \in Done(r) : a.path = stamping[r]

QuietInv == SyncInv /\ ScanInv /\ PlanInv

\* Users act between the cycles, and the runner does the rest.
LEMMA QuietCases ==
  ASSUME Quiet, [Next]_vars
  PROVE  \/ UserStep /\ AllIdle
         \/ \E r \in Cycle : Advances(r)
         \/ UNCHANGED vars
<1>1. ~Crash /\ \A r \in Cycle : ~ScanFails(r)
  BY DEF Quiet, Crash, ScanFails
<1>2. UserStep => AllIdle
  BY DEF Quiet, UserStep, UserWritesLocal, UserWritesRemote, UserDeletesLocal,
         UserDeletesRemote, UserRenamesLocal, MayEdit
<1> QED
  BY <1>1, <1>2 DEF Next

\* A user leaves the runners, the catalog and the history alone.
LEMMA UsersLeave ==
  ASSUME UserStep
  PROVE  UNCHANGED <<catalog, pc, base, rtree, ltree, left, actions, todo,
                     stamping, newcat, agreedL, agreedR>>
BY DEF UserStep, UserWritesLocal, UserWritesRemote, UserDeletesLocal,
       UserDeletesRemote, UserRenamesLocal, runner, scans, ghosts

\* The trees that plan() gets are the two sides as they are.
LEMMA ScanStep ==
  ASSUME Quiet, TypeOK, ScanInv, [Next]_vars
  PROVE  ScanInv'
<1>1. CASE UserStep /\ AllIdle
  BY <1>1, UsersLeave DEF AllIdle, ScanInv
<1>2. CASE UNCHANGED vars
  BY <1>2 DEF vars, files, runner, scans, ScanInv, LocalItem, RemoteItem
<1>3. ASSUME NEW r \in Cycle, Advances(r)
      PROVE  ScanInv'
  <2>1. \A q \in Cycle : q = r
    BY DEF Quiet
  <2>2. CASE LoadBase(r)
    BY <2>1, <2>2 DEF LoadBase, ScanInv, TypeOK
  <2>3. ASSUME NEW p \in Path, ScanRemote(r, p)
        PROVE  ScanInv'
    <3>1. UNCHANGED <<local, remote, catalog, base, ltree>>
      BY <2>3 DEF ScanRemote, files
    <3>2. \A q \in Path : /\ RemoteItem(q)' = RemoteItem(q)
                          /\ q # p => rtree'[r][q] = rtree[r][q]
                          /\ rtree'[r][p] = RemoteItem(p)
      BY <2>3, <3>1 DEF ScanRemote, RemoteItem, TypeOK, Tree
    <3>3. CASE left[r] = {p}
      <4>1. pc'[r] = "scan_local" /\ left'[r] = Path
        BY <2>3, <3>3 DEF ScanRemote, TypeOK
      <4>2. \A q \in Path : rtree'[r][q] = RemoteItem(q)'
        BY <2>3, <3>2, <3>3 DEF ScanRemote, ScanInv
      <4>3. pc[r] = "scan_remote"
        BY <2>3 DEF ScanRemote
      <4> QED
        BY <2>1, <3>1, <4>1, <4>2, <4>3 DEF ScanInv
    <3>4. CASE left[r] # {p}
      <4>1. pc'[r] = "scan_remote" /\ left'[r] = left[r] \ {p}
        BY <2>3, <3>4 DEF ScanRemote, TypeOK
      <4>2. pc[r] = "scan_remote"
        BY <2>3 DEF ScanRemote
      <4>3. \A q \in Path \ left'[r] : rtree'[r][q] = RemoteItem(q)'
        BY <3>2, <4>1, <4>2 DEF ScanInv
      <4> QED
        BY <2>1, <3>1, <4>1, <4>2, <4>3 DEF ScanInv
    <3> QED
      BY <3>3, <3>4
  <2>4. ASSUME NEW p \in Path, ScanLocal(r, p)
        PROVE  ScanInv'
    <3>1. UNCHANGED <<local, remote, catalog, base, rtree>>
      BY <2>4 DEF ScanLocal, files
    <3>2. \A q \in Path : /\ RemoteItem(q)' = RemoteItem(q)
                          /\ LocalItem(q)' = LocalItem(q)
                          /\ q # p => ltree'[r][q] = ltree[r][q]
                          /\ ltree'[r][p] = LocalItem(p)
      BY <2>4, <3>1 DEF ScanLocal, RemoteItem, LocalItem, TypeOK, Tree
    <3>3. /\ pc[r] = "scan_local"
          /\ left'[r] = left[r] \ {p}
          /\ pc'[r] = IF left[r] = {p} THEN "plan" ELSE "scan_local"
      BY <2>4 DEF ScanLocal, TypeOK
    <3>4. \A q \in Path \ left'[r] : ltree'[r][q] = LocalItem(q)'
      BY <3>2, <3>3 DEF ScanInv
    <3>5. left[r] = {p} => \A q \in Path : ltree'[r][q] = LocalItem(q)'
      BY <3>3, <3>4
    <3>6. base'[r] = catalog' /\ \A q \in Path : rtree'[r][q] = RemoteItem(q)'
      BY <3>1, <3>2, <3>3 DEF ScanInv
    <3> QED
      BY <2>1, <3>3, <3>4, <3>5, <3>6 DEF ScanInv
  <2>5. CASE Plan(r) \/ Execute(r) \/ Record(r) \/ Save(r)
    <3>1. pc'[r] \in {"idle", "execute", "dry_run", "stamp", "save"}
      <4>1. CASE \E a \in todo[r] : Effect(r, a)
        BY <4>1, EffectTakes DEF Takes, Runs, UploadCopies, TypeOK
      <4>2. CASE SkipsDryRun(r) \/ UploadStamps(r)
        BY <4>2 DEF SkipsDryRun, UploadStamps, TypeOK
      <4>3. CASE Plan(r) \/ Record(r) \/ Save(r)
        BY <4>3 DEF Plan, Record, Save, TypeOK
      <4> QED
        BY <2>5, <4>1, <4>2, <4>3, ExecuteCases
    <3> QED
      BY <2>1, <3>1 DEF ScanInv
  <2> QED
    BY <1>3, <2>2, <2>3, <2>4, <2>5 DEF Advances
<1> QED
  BY <1>1, <1>2, <1>3, QuietCases

\* execute() works through the plan and forgets it at the end.
LEMMA PlanStep ==
  ASSUME TypeOK, PlanInv, [Next]_vars
  PROVE  PlanInv'
<1>1. CASE UserStep \/ UNCHANGED vars
  BY <1>1, UsersLeave DEF PlanInv, Done, vars, runner
<1>2. CASE Crash
  BY <1>2 DEF Crash, PlanInv
<1>3. ASSUME NEW r \in Cycle,
             \/ LoadBase(r) \/ ScanFails(r)
             \/ \E p \in Path : ScanRemote(r, p) \/ ScanLocal(r, p)
      PROVE  PlanInv'
  <2>1. /\ UNCHANGED <<actions, todo, stamping>>
        /\ pc[r] \notin {"execute", "stamp", "dry_run"}
        /\ pc'[r] \notin {"execute", "stamp", "dry_run"}
        /\ \A q \in Cycle \ {r} : pc'[q] = pc[q]
    BY <1>3 DEF LoadBase, ScanRemote, ScanLocal, ScanFails, TypeOK
  <2> QED
    BY <2>1 DEF PlanInv, Done
<1>4. ASSUME NEW r \in Cycle, Plan(r) \/ SkipsDryRun(r) \/ Record(r) \/ Save(r)
      PROVE  PlanInv'
  <2>1. UNCHANGED stamping
    BY <1>4 DEF Plan, SkipsDryRun, Record, Save
  <2>2. \A q \in Cycle \ {r} : /\ pc'[q] = pc[q]
                               /\ actions'[q] = actions[q]
                               /\ todo'[q] = todo[q]
    BY <1>4 DEF Plan, SkipsDryRun, Record, Save, TypeOK
  <2>3. CASE Plan(r)
    BY <2>1, <2>2, <2>3 DEF Plan, PlanInv, Done, TypeOK
  <2>4. CASE SkipsDryRun(r)
    BY <2>1, <2>2, <2>4 DEF SkipsDryRun, PlanInv, Done, TypeOK
  <2>5. CASE Record(r)
    BY <2>1, <2>2, <2>5 DEF Record, PlanInv, Done, TypeOK
  <2>6. CASE Save(r)
    BY <2>1, <2>2, <2>6 DEF Save, PlanInv, Done, TypeOK
  <2> QED
    BY <1>4, <2>3, <2>4, <2>5, <2>6
<1>5. ASSUME NEW r \in Cycle, UploadStamps(r)
      PROVE  PlanInv'
  <2>1. /\ UNCHANGED <<actions, todo>>
        /\ pc[r] = "stamp" /\ pc'[r] = "execute"
        /\ \A q \in Cycle \ {r} : pc'[q] = pc[q] /\ stamping'[q] = stamping[q]
    BY <1>5 DEF UploadStamps, TypeOK
  <2> QED
    BY <2>1 DEF PlanInv, Done
<1>6. ASSUME NEW r \in Cycle, NEW a \in todo[r], Effect(r, a)
      PROVE  PlanInv'
  <2>1. /\ Takes(r, a) /\ UNCHANGED actions
        /\ pc[r] = "execute"
        /\ todo' = [todo EXCEPT ![r] = @ \ {a}]
    BY <1>6, EffectTakes DEF Takes
  <2>2. /\ pc'[r] \in {"execute", "stamp"}
        /\ pc'[r] = "stamp" => stamping'[r] = a.path
        /\ \A q \in Cycle \ {r} : pc'[q] = pc[q] /\ stamping'[q] = stamping[q]
    BY <1>6, <2>1, EffectTakes DEF Runs, UploadCopies, TypeOK
  <2>3. a \in actions[r]
    BY DEF PlanInv
  <2> QED
    BY <2>1, <2>2, <2>3 DEF PlanInv, Done, TypeOK
<1> QED
  BY <1>1, <1>2, <1>3, <1>4, <1>5, <1>6, ExecuteCases DEF Next, Advances

LEMMA QuietUndisturbed ==
  ASSUME Quiet
  PROVE  Undisturbed
BY DEF Quiet, Undisturbed

LEMMA QuietStep ==
  ASSUME Quiet, TypeOK, QuietInv, [Next]_vars
  PROVE  QuietInv'
BY QuietUndisturbed, StampStep, EntryStep, CopyStep, ScanStep, PlanStep
   DEF QuietInv, SyncInv

\* All of it holds of every behaviour.
LEMMA QuietAlways ==
  ASSUME Quiet
  PROVE  Spec => [](TypeOK /\ QuietInv)
<1>1. Init => QuietInv
  <2> SUFFICES ASSUME Init
               PROVE  QuietInv
    OBVIOUS
  <2>1. ScanInv /\ PlanInv
    BY DEF Init, ScanInv, PlanInv
  <2> QED
    BY <2>1, InitSynced DEF QuietInv
<1>2. TypeOK /\ QuietInv /\ [Next]_vars => QuietInv'
  BY QuietStep
<1> QED
  BY <1>1, <1>2, TypeCorrect, PTL DEF Spec

\* A scan has an item for exactly the files that are there.
LEMMA ItemsPresent ==
  ASSUME TypeOK, NEW p \in Path
  PROVE  /\ LocalItem(p) = Absent <=> local[p] = Absent
         /\ RemoteItem(p) = Absent <=> remote[p] = Absent
<1>1. /\ local[p] # Absent => LocalItem(p) \in ScannedItem
      /\ remote[p] # Absent => RemoteItem(p) \in ScannedItem
  BY EngineAssumption, PlannerAssumption
     DEF LocalItem, RemoteItem, TypeOK, FileTree, File, ScannedItem, MaybeChecksum
<1> QED
  BY <1>1, PlannerAssumption DEF LocalItem, RemoteItem

-----------------------------------------------------------------------------
(* Presence: the catalog lists the files of a remote store that the engine *)
(* alone writes to, whatever times an upload gets there.                   *)

Listed(e, p) == e = Absent <=> remote[p] = Absent
ListsRemote(cat) == \A p \in Path : Listed(cat[p], p)

\* The action keeps the file on both sides, or removes the rest of it.
Keeping(a) ==
  \/ /\ a.op \in {"Upload", "Download", "ConvergeState", "Conflict"}
     /\ local[a.path] # Absent
     /\ a.op # "Upload" => remote[a.path] # Absent
  \/ a.op = "DeleteRemote" /\ local[a.path] = Absent

\* Paths without an action, or in conflict, are listed as they were, and what
\* was run is on both sides or on none.
Kept(r) ==
  /\ \A p \in Path : (\A a \in actions[r] : a.path = p => a.op = "Conflict") =>
                       Listed(catalog[p], p)
  /\ \A a \in Done(r) :
       a.op # "Conflict" => (remote[a.path] = Absent <=> local[a.path] = Absent)

ListInv ==
  /\ (\A r \in Cycle : pc[r] \notin {"execute", "stamp", "save"}) => ListsRemote(catalog)
  /\ \A r \in Cycle :
       /\ \A a \in actions[r] : Keeping(a)
       /\ pc[r] \in {"execute", "stamp"} => Kept(r)
       /\ pc[r] = "save" => ListsRemote(newcat[r])

\* Nothing that is listed has disappeared from the remote, and nothing has
\* appeared: plan() finds no reason to delete or to create a local file.
LEMMA PlanKeeps ==
  ASSUME TypeOK, ~ServerSideMove, NEW L, NEW R, NEW B,
         \A p \in Path : L[p] = LocalItem(p) /\ R[p] = RemoteItem(p),
         ListsRemote(B),
         NEW M \in Moves(L, R, B), NEW a \in plan(L, R, B, M)
  PROVE  Keeping(a)
<1>1. \A p \in Path : /\ L[p] = Absent <=> local[p] = Absent
                      /\ R[p] = Absent <=> remote[p] = Absent
                      /\ R[p] = Absent <=> B[p] = Absent
  BY ItemsPresent DEF ListsRemote, Listed
<1>2. M = {}
  BY DEF Moves
<1>3. ToDeleteLocal(L, R, B) = {}
  BY <1>1 DEF ToDeleteLocal, RemoteGone
<1>4. /\ \A p \in ToUpload(L, R, B) \union ToAdd(L, R, B, M) :
           p \in Path /\ L[p] # Absent
      /\ \A p \in ToDownload(L, R, B) \union ToConverge(L, R, B) \union ToConflict(L, R, B) :
           p \in Path /\ L[p] # Absent /\ R[p] # Absent
      /\ \A p \in ToDeleteRemote(L, R, B, M) : p \in Path /\ L[p] = Absent
  BY <1>1 DEF ToUpload, ToAdd, ToDownload, ToConverge, ToConflict, ToDeleteRemote,
              Diverged, InRemote, candidate_additions, candidate_deletions, InLocal,
              RemoteGone, LocalGone, ChangedLocallyOnly, ChangedRemotelyOnly, Everywhere
<1>5. CASE \E p \in ToUpload(L, R, B) \union ToAdd(L, R, B, M), k \in {0, 3} :
             a = Upload(p, L[p].size, k)
  BY <1>1, <1>4, <1>5 DEF Upload, Keeping
<1>6. CASE \/ \E p \in ToDownload(L, R, B) : a = Download(p, R[p])
           \/ \E p \in ToConverge(L, R, B) : a = Converge(p, L[p], R[p])
           \/ \E p \in ToConflict(L, R, B) : a = Conflict(p, L[p], R[p])
  BY <1>1, <1>4, <1>6 DEF Download, Converge, Conflict, Keeping
<1>7. CASE \E p \in ToDeleteRemote(L, R, B, M) : a = DeleteRemote(p)
  BY <1>1, <1>4, <1>7 DEF DeleteRemote, Keeping
<1> QED
  BY <1>2, <1>3, <1>5, <1>6, <1>7 DEF plan

\* The recorder lists what was uploaded, downloaded or found to be equal.
LEMMA RecordsList ==
  ASSUME TypeOK, NEW r \in Cycle, todo[r] = {}, Kept(r),
         \A a \in actions[r] : Keeping(a), NEW p \in Path
  PROVE  Listed(UpdatedEntry(p, actions[r], catalog), p)
<1>1. CASE \A a \in actions[r] : a.path = p => a.op = "Conflict"
  BY <1>1 DEF Kept, UpdatedEntry, Recordable, Transfers
<1>2. CASE \E a \in actions[r] : a.path = p /\ a.op # "Conflict"
  <2>1. \E a \in Recordable(actions[r]) : a.path = p
    BY <1>2 DEF Keeping, Recordable, Transfers
  <2> DEFINE b == CHOOSE a \in Recordable(actions[r]) : a.path = p
  <2>2. b \in Recordable(actions[r]) /\ b \in actions[r] /\ b.path = p
    BY <2>1 DEF Recordable, Transfers
  <2>3. UpdatedEntry(p, actions[r], catalog) = EntryAfter(b)
    BY <2>1 DEF UpdatedEntry
  <2> HIDE DEF b
  <2>4. b \in SyncAction /\ Keeping(b)
    BY <2>2 DEF TypeOK
  <2>5. b.op # "Conflict"
    BY <2>2 DEF Recordable, Transfers
  <2>6. remote[p] = Absent <=> local[p] = Absent
    BY <2>2, <2>5 DEF Kept, Done
  <2>7. CASE b.op = "DeleteRemote"
    BY <2>2, <2>3, <2>4, <2>6, <2>7 DEF Keeping, EntryAfter, Listed
  <2>8. CASE b.op = "ConvergeState"
    <3>1. EntryAfter(b) = b.state /\ b.state # Absent
      BY <2>4, <2>8, ActionFields, PlannerAssumption DEF EntryAfter
    <3> QED
      BY <2>2, <2>3, <2>4, <2>6, <2>8, <3>1 DEF Keeping, Listed
  <2>9. CASE b.op \in {"Upload", "Download"}
    <3>1. local[p] # Absent
      BY <2>2, <2>4, <2>9 DEF Keeping
    <3>2. EntryAfter(b) = Recorded(b, local[p].modified)
      BY <2>2, <2>9, <3>1 DEF EntryAfter, MtimeNow
    <3>3. b.size \in Nat /\ (b.op = "Download" => b.checksum \in MaybeChecksum)
      BY <2>4, <2>9, ActionFields
    <3>4. local[p].modified \in Nat
      BY <3>1 DEF TypeOK, FileTree, File
    <3>5. EntryAfter(b) \in FileState
      BY <2>9, <3>2, <3>3, <3>4 DEF Recorded, FileState, MaybeChecksum
    <3> QED
      BY <2>3, <2>6, <3>1, <3>5, PlannerAssumption DEF Listed
  <2> QED
    BY <2>4, <2>5, <2>7, <2>8, <2>9 DEF Keeping
<1> QED
  BY <1>1, <1>2

\* A step of execute() copies a file to the side that lacks it or removes one
\* that its user has deleted.
LEMMA EffectKeeps ==
  ASSUME Quiet, TypeOK, NEW r \in Cycle, NEW a \in todo[r], Effect(r, a), Keeping(a)
  PROVE  /\ \A p \in Path : /\ local'[p] = Absent <=> local[p] = Absent
                            /\ p # a.path => remote'[p] = remote[p]
         /\ a.op = "Conflict" => remote' = remote
         /\ a.op # "Conflict" => (remote'[a.path] = Absent <=> local'[a.path] = Absent)
<1>1. a.path \in Path
  BY EffectTakes, TakesTyped
<1>2. CASE UploadSucceeds(r, a) \/ UploadCopies(r, a)
  <2>1. Uploaded(a)
    BY <1>2 DEF UploadSucceeds, UploadCopies
  <2>2. [content |-> local[a.path].content, modified |-> clock + 1] \in File
    BY <1>1, <2>1 DEF Uploaded, TypeOK, FileTree, File
  <2> QED
    BY <1>1, <2>1, <2>2, EngineAssumption DEF Uploaded, TypeOK, FileTree
<1>3. CASE DownloadSucceeds(r, a)
  <2>1. [content |-> remote[a.path].content, modified |-> clock + 1] \in File
    BY <1>1, <1>3 DEF DownloadSucceeds, TypeOK, FileTree, File
  <2>2. local[a.path] # Absent
    BY <1>3 DEF DownloadSucceeds, Keeping
  <2> QED
    BY <1>1, <1>3, <2>1, <2>2, EngineAssumption DEF DownloadSucceeds, TypeOK, FileTree
<1>4. CASE DeleteRemoteSucceeds(r, a)
  BY <1>1, <1>4 DEF DeleteRemoteSucceeds, Keeping, TypeOK, FileTree
<1>5. CASE ActionFails(r, a)
  BY <1>1, <1>5 DEF ActionFails, Quiet, Keeping, files
<1>6. CASE LeavesConflict(r, a) \/ Converges(r, a)
  BY <1>6 DEF LeavesConflict, Converges, Keeping, files
<1>7. /\ ~UploadBreaksOff(r, a) /\ ~DownloadBreaksOff(r, a)
      /\ ~DeletesLocal(r, a) /\ ~MoveSucceeds(r, a)
  BY DEF Quiet, Keeping, UploadBreaksOff, DownloadBreaksOff, DeletesLocal, MoveSucceeds
<1> QED
  BY <1>2, <1>3, <1>4, <1>5, <1>6, <1>7 DEF Effect

LEMMA ListStep ==
  ASSUME Quiet, ~ServerSideMove, ~RemoteEdits,
         TypeOK, QuietInv, ListInv, [Next]_vars
  PROVE  ListInv'
<1>1. CASE UserStep /\ AllIdle
  <2>1. UNCHANGED remote
    BY <1>1 DEF UserStep, UserWritesLocal, UserWritesRemote, UserDeletesLocal,
                UserDeletesRemote, UserRenamesLocal
  <2>2. UNCHANGED <<catalog, pc, actions>>
    BY <1>1, UsersLeave
  <2>3. \A r \in Cycle : actions[r] = {} /\ pc[r] = "idle"
    BY <1>1 DEF AllIdle, QuietInv, PlanInv
  <2>4. ListsRemote(catalog)
    BY <2>3 DEF ListInv
  <2> QED
    BY <2>1, <2>2, <2>3, <2>4 DEF ListInv, ListsRemote, Listed
<1>2. CASE UNCHANGED vars
  BY <1>2 DEF vars, files, runner, ListInv, ListsRemote, Listed, Keeping, Kept, Done
<1>3. ASSUME NEW r \in Cycle, Advances(r)
      PROVE  ListInv'
  <2> DEFINE Before == {"idle", "scan_remote", "scan_local", "plan", "dry_run"}
  <2>1. /\ \A q \in Cycle : q = r
        /\ todo[r] \subseteq actions[r]
        /\ \A a \in actions[r] : Keeping(a) /\ a.path \in Path
        /\ pc[r] \in {"execute", "stamp"} => Kept(r)
        /\ pc[r] = "save" => ListsRemote(newcat[r])
    BY ActionFields DEF Quiet, QuietInv, PlanInv, ListInv, TypeOK
  <2>2. pc[r] \in Before => ListsRemote(catalog)
    BY <2>1 DEF ListInv
  <2>3. CASE LoadBase(r) \/ \E p \in Path : ScanRemote(r, p) \/ ScanLocal(r, p)
    <3>1. /\ UNCHANGED <<local, remote, catalog, actions>>
          /\ pc[r] \in Before /\ pc'[r] \in Before
      BY <2>3 DEF LoadBase, ScanRemote, ScanLocal, files, TypeOK
    <3>2. ListsRemote(catalog)'
      BY <2>2, <3>1 DEF ListsRemote, Listed
    <3> QED
      BY <2>1, <3>1, <3>2 DEF ListInv, Keeping
  <2>4. CASE Plan(r)
    <3>1. PICK M \in Moves(ltree[r], rtree[r], base[r]) :
            /\ actions' = [actions EXCEPT ![r] = plan(ltree[r], rtree[r], base[r], M)]
            /\ todo' = [todo EXCEPT ![r] = plan(ltree[r], rtree[r], base[r], M)]
      BY <2>4 DEF Plan
    <3>2. /\ UNCHANGED <<local, remote, catalog>>
          /\ pc[r] = "plan" /\ pc'[r] \in {"dry_run", "execute"}
      BY <2>4 DEF Plan, files, TypeOK
    <3>3. /\ base[r] = catalog
          /\ \A p \in Path : ltree[r][p] = LocalItem(p) /\ rtree[r][p] = RemoteItem(p)
      BY <3>2 DEF QuietInv, ScanInv
    <3>4. \A a \in plan(ltree[r], rtree[r], base[r], M) : Keeping(a)
      BY <2>2, <3>2, <3>3, PlanKeeps
    <3>5. ListsRemote(catalog)'
      BY <2>2, <3>2 DEF ListsRemote, Listed
    <3>6. /\ actions'[r] = plan(ltree[r], rtree[r], base[r], M)
          /\ Done(r)' = {}
      BY <3>1 DEF Done, TypeOK
    <3>7. \A a \in actions'[r] : Keeping(a)'
      BY <3>2, <3>4, <3>6 DEF Keeping
    <3>8. Kept(r)'
      BY <3>2, <3>5, <3>6 DEF Kept, ListsRemote
    <3> QED
      BY <2>1, <3>2, <3>5, <3>7, <3>8 DEF ListInv
  <2>5. CASE SkipsDryRun(r)
    <3>1. /\ UNCHANGED <<remote, catalog>>
          /\ pc[r] = "dry_run" /\ pc'[r] = "idle" /\ actions'[r] = {}
      BY <2>5 DEF SkipsDryRun, files, TypeOK
    <3>2. ListsRemote(catalog)'
      BY <2>2, <3>1 DEF ListsRemote, Listed
    <3> QED
      BY <2>1, <3>1, <3>2 DEF ListInv
  <2>6. CASE UploadStamps(r)
    <3>1. /\ UNCHANGED <<local, catalog, actions, todo>>
          /\ pc[r] = "stamp" /\ pc'[r] = "execute"
      BY <2>6 DEF UploadStamps, TypeOK
    <3>2. \A p \in Path : remote'[p] = Absent <=> remote[p] = Absent
      <4> DEFINE s == stamping[r]
                 f == [remote[s] EXCEPT !.modified = local[s].modified]
      <4>1. s \in Path /\ local[s] # Absent /\ remote[s] # Absent
        BY <3>1 DEF QuietInv, SyncInv, CopyInv
      <4>2. remote' = [remote EXCEPT ![s] = f]
        BY <2>6, <4>1 DEF UploadStamps
      <4>3. f \in File
        BY <4>1 DEF TypeOK, FileTree, File
      <4> HIDE DEF f
      <4> QED
        BY <4>1, <4>2, <4>3, EngineAssumption DEF TypeOK, FileTree
    <3>3. Kept(r)'
      BY <2>1, <3>1, <3>2 DEF Kept, Done, Listed
    <3> QED
      BY <2>1, <3>1, <3>2, <3>3 DEF ListInv, Keeping
  <2>7. ASSUME NEW a \in todo[r], Effect(r, a)
        PROVE  ListInv'
    <3>1. /\ UNCHANGED <<catalog, actions>>
          /\ todo'[r] = todo[r] \ {a}
          /\ pc[r] = "execute" /\ pc'[r] \in {"execute", "stamp"}
          /\ a \in actions[r] /\ a.path \in Path /\ Keeping(a)
      BY <2>1, <2>7, EffectTakes DEF Takes, Runs, UploadCopies, TypeOK
    <3>2. Done(r)' = Done(r) \union {a}
      BY <3>1 DEF Done
    <3>3. /\ \A p \in Path : /\ local'[p] = Absent <=> local[p] = Absent
                             /\ p # a.path => remote'[p] = remote[p]
          /\ a.op = "Conflict" => remote' = remote
          /\ a.op # "Conflict" => (remote'[a.path] = Absent <=> local'[a.path] = Absent)
      BY <2>7, <3>1, EffectKeeps
    <3>4. \A b \in actions[r] : Keeping(b)'
      BY <2>1, <3>3 DEF Keeping
    <3>5. Kept(r)'
      <4>1. \A p \in Path : (\A b \in actions'[r] : b.path = p => b.op = "Conflict") =>
                              Listed(catalog[p], p)'
        BY <2>1, <3>1, <3>3 DEF Kept, Listed
      <4>2. \A b \in Done(r)' :
              b.op # "Conflict" => (remote'[b.path] = Absent <=> local'[b.path] = Absent)
        BY <2>1, <3>1, <3>2, <3>3 DEF Kept, Done
      <4> QED
        BY <4>1, <4>2 DEF Kept
    <3> QED
      BY <2>1, <3>1, <3>4, <3>5 DEF ListInv
  <2>8. CASE Record(r)
    <3>1. /\ UNCHANGED <<local, remote, catalog>>
          /\ pc[r] = "execute" /\ pc'[r] = "save" /\ todo[r] = {} /\ actions'[r] = {}
          /\ newcat'[r] = [p \in Path |-> UpdatedEntry(p, actions[r], catalog)]
      BY <2>8 DEF Record, files, TypeOK
    <3>2. \A p \in Path : Listed(UpdatedEntry(p, actions[r], catalog), p)
      BY <2>1, <3>1, RecordsList
    <3>3. \A p \in Path : Listed(newcat[r][p], p)'
      BY <3>1, <3>2 DEF Listed
    <3> QED
      BY <2>1, <3>1, <3>3 DEF ListInv, ListsRemote
  <2>9. CASE Save(r)
    <3>1. /\ UNCHANGED <<remote, actions>>
          /\ pc[r] = "save" /\ pc'[r] = "idle" /\ catalog' = newcat[r]
      BY <2>9 DEF Save, Quiet, files, TypeOK
    <3>2. ListsRemote(catalog)'
      BY <2>1, <3>1 DEF ListsRemote, Listed
    <3>3. actions[r] = {}
      BY <3>1 DEF QuietInv, PlanInv
    <3> QED
      BY <2>1, <3>1, <3>2, <3>3 DEF ListInv
  <2> QED
    BY <1>3, <2>3, <2>4, <2>5, <2>6, <2>7, <2>8, <2>9, ExecuteCases DEF Advances
<1> QED
  BY <1>1, <1>2, <1>3, QuietCases

LEMMA ListAlways ==
  ASSUME Quiet, ~ServerSideMove, ~RemoteEdits
  PROVE  Spec => []ListInv
<1>1. Init => ListInv
  BY DEF Init, ListInv, ListsRemote, Listed, NoTree
<1>2. TypeOK /\ QuietInv /\ ListInv /\ [Next]_vars => ListInv'
  BY ListStep
<1> QED
  BY <1>1, <1>2, QuietAlways, PTL DEF Spec

(* While nobody else writes to the remote, the catalog has an entry for every
   path that is on both sides between two cycles, so that the next edit is seen
   as one, for any number of paths, in every mode and under every policy: a
   backend without moves, see Quiet (orchestrator.rs:211-268). *)
THEOREM SharedPathsAreCatalogued ==
  ASSUME Quiet, ~ServerSideMove
  PROVE  Spec => []SharedPathsAreInBase
<1>1. CASE RemoteEdits
  <2>1. SharedPathsAreInBase
    BY <1>1 DEF SharedPathsAreInBase
  <2> QED
    BY <2>1, PTL
<1>2. CASE ~RemoteEdits
  <2>1. ListInv => SharedPathsAreInBase
    BY DEF ListInv, ListsRemote, Listed, SharedPathsAreInBase, AllIdle
  <2> QED
    BY <1>2, <2>1, ListAlways, PTL
<1> QED
  BY <1>1, <1>2

(* ... and the engine deletes no local file: one only disappears when its user
   removes it.  The run SyncEngine_failedupload shows that one failed upload
   is enough to break this (orchestrator.rs:214-229). *)
THEOREM OnlyUsersDeleteLocal ==
  ASSUME Quiet, ~ServerSideMove
  PROVE  Spec => OnlyRemoteDeletionsDeleteLocal
<1>1. CASE RemoteEdits
  <2>1. [~RemoteEdits /\ EngineStep =>
           \A p \in Path : local[p] # Absent => local'[p] # Absent]_vars
    BY <1>1
  <2> QED
    BY <2>1, PTL DEF OnlyRemoteDeletionsDeleteLocal
<1>2. CASE ~RemoteEdits
  <2>1. TypeOK /\ QuietInv /\ ListInv /\ [Next]_vars =>
          [~RemoteEdits /\ EngineStep =>
             \A p \in Path : local[p] # Absent => local'[p] # Absent]_vars
    <3> SUFFICES ASSUME TypeOK, QuietInv, ListInv, [Next]_vars, EngineStep,
                        NEW p \in Path, local[p] # Absent
                 PROVE  local'[p] # Absent
      OBVIOUS
    <3>1. ASSUME NEW r \in Cycle, NEW a \in todo[r], Effect(r, a)
          PROVE  local'[p] # Absent
      <4>1. Keeping(a)
        BY DEF QuietInv, PlanInv, ListInv
      <4> QED
        BY <3>1, <4>1, EffectKeeps
    <3>2. ASSUME NEW r \in Cycle, UploadStamps(r)
          PROVE  UNCHANGED local
      BY <3>2 DEF UploadStamps
    <3> QED
      BY <3>1, <3>2, OtherSteps DEF files
  <2> QED
    BY <1>2, <2>1, QuietAlways, ListAlways, PTL
       DEF Spec, OnlyRemoteDeletionsDeleteLocal
<1> QED
  BY <1>1, <1>2

-----------------------------------------------------------------------------
(* Mirroring: the remote store is the engine's own. *)

\* The remote has what the entry e of path p says.
Matches(e, p) ==
  IF e = Absent THEN remote[p] = Absent
  ELSE remote[p] # Absent /\ ~remote_changed(RemoteItem(p), e)

Mirrors(cat) == \A p \in Path : Matches(cat[p], p)

\* The action makes the remote path what the local one is.
Mirroring(a) ==
  \/ /\ a.op = "Upload"
     /\ local[a.path] # Absent
     /\ a.size = Size[local[a.path].content]
  \/ a.op = "DeleteRemote" /\ local[a.path] = Absent

\* Paths without an action are as the catalog says, and what was run, but for
\* the time of the upload that is going on, is as the local path.
Executed(r) ==
  /\ \A p \in Path : (\A a \in actions[r] : a.path # p) => Matches(catalog[p], p)
  /\ \A a \in Done(r) : \/ pc[r] = "stamp" /\ a.path = stamping[r]
                        \/ remote[a.path] = local[a.path]

MirrorInv ==
  /\ (\A r \in Cycle : pc[r] \notin {"execute", "stamp", "save"}) => Mirrors(catalog)
  /\ \A r \in Cycle :
       /\ \A a \in actions[r] : Mirroring(a)
       /\ pc[r] \in {"execute", "stamp"} => Executed(r)
       /\ pc[r] = "save" => Mirrors(newcat[r])

\* If the remote is as the catalog says, whatever the mode and the policy,
\* plan() uploads and deletes on the remote only.
LEMMA PlanMirrors ==
  ASSUME TypeOK, ~ServerSideMove, NEW L, NEW R, NEW B,
         \A p \in Path : L[p] = LocalItem(p) /\ R[p] = RemoteItem(p),
         Mirrors(B),
         NEW M \in Moves(L, R, B), NEW a \in plan(L, R, B, M)
  PROVE  Mirroring(a)
<1>1. \A p \in Path : /\ L[p] = Absent <=> local[p] = Absent
                      /\ L[p] # Absent => L[p].size = Size[local[p].content]
                      /\ R[p] = Absent <=> B[p] = Absent
                      /\ R[p] # Absent => ~remote_changed(R[p], B[p])
  <2> SUFFICES ASSUME NEW p \in Path
               PROVE  /\ L[p] = Absent <=> local[p] = Absent
                      /\ L[p] # Absent => L[p].size = Size[local[p].content]
                      /\ R[p] = Absent <=> B[p] = Absent
                      /\ R[p] # Absent => ~remote_changed(R[p], B[p])
    OBVIOUS
  <2>1. /\ LocalItem(p) = Absent <=> local[p] = Absent
        /\ RemoteItem(p) = Absent <=> remote[p] = Absent
    BY ItemsPresent
  <2>2. /\ L[p] = LocalItem(p) /\ R[p] = RemoteItem(p)
        /\ Matches(B[p], p)
    BY DEF Mirrors
  <2>3. local[p] # Absent => LocalItem(p).size = Size[local[p].content]
    BY DEF LocalItem
  <2> QED
    BY <2>1, <2>2, <2>3 DEF Matches
<1>2. M = {}
  BY DEF Moves
<1>3. /\ ToDownload(L, R, B) = {} /\ ToDeleteLocal(L, R, B) = {}
      /\ Diverged(L, R, B) = {} /\ RemoteGone(L, R, B) = {}
  BY <1>1 DEF ToDownload, ToDeleteLocal, Diverged, RemoteGone, InRemote,
              ChangedRemotelyOnly, Everywhere
<1>4. ToConverge(L, R, B) = {} /\ ToConflict(L, R, B) = {}
  BY <1>3 DEF ToConverge, ToConflict
<1>5. /\ \A p \in ToUpload(L, R, B) \union ToAdd(L, R, B, M) :
           p \in Path /\ L[p] # Absent
      /\ \A p \in ToDeleteRemote(L, R, B, M) : p \in Path /\ L[p] = Absent
  BY <1>3 DEF ToUpload, ToAdd, ToDeleteRemote, candidate_additions,
              candidate_deletions, InLocal, LocalGone, ChangedLocallyOnly, Everywhere
<1>6. CASE \E p \in ToUpload(L, R, B) \union ToAdd(L, R, B, M), k \in {0, 3} :
             a = Upload(p, L[p].size, k)
  BY <1>1, <1>5, <1>6 DEF Upload, Mirroring
<1>7. CASE \E p \in ToDeleteRemote(L, R, B, M) : a = DeleteRemote(p)
  BY <1>1, <1>5, <1>7 DEF DeleteRemote, Mirroring
<1> QED
  BY <1>2, <1>3, <1>4, <1>6, <1>7 DEF plan

\* What the recorder writes for an action that was run is what the remote has.
LEMMA RecordsMirror ==
  ASSUME TypeOK, NEW r \in Cycle, pc[r] = "execute", todo[r] = {}, Executed(r),
         \A a \in actions[r] : Mirroring(a), NEW p \in Path
  PROVE  Matches(UpdatedEntry(p, actions[r], catalog), p)
<1>1. \A a \in actions[r] : a \in Recordable(actions[r])
  BY DEF Mirroring, Recordable, Transfers
<1>2. CASE \A a \in actions[r] : a.path # p
  BY <1>2 DEF Executed, UpdatedEntry, Recordable, Transfers
<1>3. CASE \E a \in actions[r] : a.path = p
  <2> DEFINE b == CHOOSE a \in Recordable(actions[r]) : a.path = p
  <2>1. b \in Recordable(actions[r]) /\ b \in actions[r] /\ b.path = p
    BY <1>1, <1>3 DEF Recordable, Transfers
  <2>2. UpdatedEntry(p, actions[r], catalog) = EntryAfter(b)
    BY <1>1, <1>3 DEF UpdatedEntry
  <2> HIDE DEF b
  <2>3. remote[p] = local[p]
    BY <2>1 DEF Executed, Done
  <2>4. Mirroring(b)
    BY <2>1
  <2>5. CASE b.op = "DeleteRemote"
    BY <2>1, <2>2, <2>3, <2>4, <2>5 DEF EntryAfter, Mirroring, Matches
  <2>6. CASE b.op = "Upload"
    <3>1. /\ local[p] # Absent
          /\ b.size = Size[local[p].content]
      BY <2>1, <2>4, <2>6 DEF Mirroring
    <3>2. EntryAfter(b) = Recorded(b, local[p].modified)
      BY <2>1, <2>6, <3>1 DEF EntryAfter, MtimeNow
    <3>3. EntryAfter(b) \in FileState
      <4>1. b \in SyncAction
        BY <2>1 DEF TypeOK
      <4>2. b.size \in Nat /\ local[p].modified \in Nat
        BY <2>6, <3>1, <4>1, ActionFields DEF TypeOK, FileTree, File
      <4> QED
        BY <2>6, <3>2, <4>2 DEF Recorded, FileState, MaybeChecksum
    <3>4. EntryAfter(b) # Absent
      BY <3>3, PlannerAssumption
    <3>5. ~remote_changed(RemoteItem(p), EntryAfter(b))
      BY <2>3, <2>6, <3>1, <3>2
         DEF remote_changed, RemoteItem, Recorded, Mismatch
    <3> QED
      BY <2>2, <2>3, <3>1, <3>4, <3>5 DEF Matches
  <2> QED
    BY <2>4, <2>5, <2>6 DEF Mirroring
<1> QED
  BY <1>2, <1>3

\* With uploads that keep the local time and no moves, a cycle makes the
\* remote and the catalog follow the local side.
LEMMA MirrorStep ==
  ASSUME Quiet, PreservesMtime, ~ServerSideMove, ~RemoteEdits,
         TypeOK, QuietInv, MirrorInv, [Next]_vars
  PROVE  MirrorInv'
<1>1. CASE UserStep /\ AllIdle
  <2>1. UNCHANGED remote
    BY <1>1 DEF UserStep, UserWritesLocal, UserWritesRemote, UserDeletesLocal,
                UserDeletesRemote, UserRenamesLocal
  <2>2. UNCHANGED <<catalog, pc, actions>>
    BY <1>1, UsersLeave
  <2>3. \A r \in Cycle : actions[r] = {} /\ pc[r] = "idle"
    BY <1>1 DEF AllIdle, QuietInv, PlanInv
  <2>4. Mirrors(catalog)
    BY <2>3 DEF MirrorInv
  <2> QED
    BY <2>1, <2>2, <2>3, <2>4 DEF MirrorInv, Mirrors, Matches, RemoteItem
<1>2. CASE UNCHANGED vars
  BY <1>2 DEF vars, files, runner, scans, MirrorInv, Mirrors, Mirroring, Executed,
              Done, Matches, RemoteItem
<1>3. ASSUME NEW r \in Cycle, Advances(r)
      PROVE  MirrorInv'
  <2> DEFINE Before == {"idle", "scan_remote", "scan_local", "plan", "dry_run"}
  <2>1. /\ \A q \in Cycle : q = r
        /\ todo[r] \subseteq actions[r]
        /\ \A a \in actions[r] : Mirroring(a)
        /\ pc[r] \in {"execute", "stamp"} => Executed(r)
        /\ pc[r] = "save" => Mirrors(newcat[r])
    BY DEF Quiet, QuietInv, PlanInv, MirrorInv
  <2>2. pc[r] \in Before => Mirrors(catalog)
    BY <2>1 DEF MirrorInv
  <2>3. ASSUME NEW a \in todo[r], Effect(r, a)
        PROVE  \/ UploadCopies(r, a)
               \/ DeleteRemoteSucceeds(r, a)
               \/ /\ a.op = "DeleteRemote" /\ remote[a.path] = Absent
                  /\ ActionFails(r, a)
    <3>1. Mirroring(a)
      BY <2>1
    <3>2. /\ ~UploadSucceeds(r, a) /\ ~UploadBreaksOff(r, a)
          /\ ~DownloadSucceeds(r, a) /\ ~DownloadBreaksOff(r, a)
          /\ ~DeletesLocal(r, a) /\ ~MoveSucceeds(r, a)
          /\ ~LeavesConflict(r, a) /\ ~Converges(r, a)
      BY <3>1 DEF Mirroring, Quiet, UploadSucceeds, UploadBreaksOff,
                  DownloadSucceeds, DownloadBreaksOff, DeletesLocal,
                  MoveSucceeds, LeavesConflict, Converges
    <3>3. ActionFails(r, a) => a.op = "DeleteRemote" /\ remote[a.path] = Absent
      BY <3>1 DEF Mirroring, Quiet, ActionFails
    <3> QED
      BY <2>3, <3>2, <3>3 DEF Effect
  <2>4. CASE LoadBase(r) \/ \E p \in Path : ScanRemote(r, p) \/ ScanLocal(r, p)
    <3>1. /\ UNCHANGED <<local, remote, catalog, actions>>
          /\ pc[r] \in Before /\ pc'[r] \in Before
      BY <2>4 DEF LoadBase, ScanRemote, ScanLocal, files, TypeOK
    <3>2. Mirrors(catalog)'
      BY <2>2, <3>1 DEF Mirrors, Matches, RemoteItem
    <3> QED
      BY <2>1, <3>1, <3>2 DEF MirrorInv, Mirroring
  <2>5. CASE Plan(r)
    <3>1. PICK M \in Moves(ltree[r], rtree[r], base[r]) :
            /\ actions' = [actions EXCEPT ![r] = plan(ltree[r], rtree[r], base[r], M)]
            /\ todo' = [todo EXCEPT ![r] = plan(ltree[r], rtree[r], base[r], M)]
      BY <2>5 DEF Plan
    <3>2. /\ UNCHANGED <<local, remote, catalog>>
          /\ pc[r] = "plan" /\ pc'[r] \in {"dry_run", "execute"}
      BY <2>5 DEF Plan, files, TypeOK
    <3>3. /\ base[r] = catalog
          /\ \A p \in Path : ltree[r][p] = LocalItem(p) /\ rtree[r][p] = RemoteItem(p)
      BY <3>2 DEF QuietInv, ScanInv
    <3>4. \A a \in plan(ltree[r], rtree[r], base[r], M) : Mirroring(a)
      BY <2>2, <3>2, <3>3, PlanMirrors
    <3>5. Mirrors(catalog)'
      BY <2>2, <3>2 DEF Mirrors, Matches, RemoteItem
    <3>6. /\ actions'[r] = plan(ltree[r], rtree[r], base[r], M)
          /\ Done(r)' = {}
      BY <3>1 DEF Done, TypeOK
    <3>7. \A a \in actions'[r] : Mirroring(a)'
      BY <3>2, <3>4, <3>6 DEF Mirroring
    <3>8. Executed(r)'
      BY <3>2, <3>5, <3>6 DEF Executed, Mirrors
    <3> QED
      BY <2>1, <3>2, <3>5, <3>7, <3>8 DEF MirrorInv
  <2>6. CASE SkipsDryRun(r)
    <3>1. /\ UNCHANGED <<remote, catalog>>
          /\ pc[r] = "dry_run" /\ pc'[r] = "idle" /\ actions'[r] = {}
      BY <2>6 DEF SkipsDryRun, files, TypeOK
    <3>2. Mirrors(catalog)'
      BY <2>2, <3>1 DEF Mirrors, Matches, RemoteItem
    <3> QED
      BY <2>1, <3>1, <3>2 DEF MirrorInv
  <2>7. CASE UploadStamps(r)
    <3> DEFINE s == stamping[r]
    <3>1. /\ UNCHANGED <<local, catalog, actions, todo>>
          /\ pc[r] = "stamp" /\ pc'[r] = "execute"
      BY <2>7 DEF UploadStamps, TypeOK
    <3>2. /\ s \in Path /\ local[s] # Absent /\ remote[s] # Absent
          /\ local[s].content = remote[s].content
      BY <3>1 DEF QuietInv, SyncInv, CopyInv
    <3>3. local[s] \in File /\ remote[s] \in File
      BY <3>2 DEF TypeOK, FileTree
    <3>4. remote' = [remote EXCEPT ![s].modified = local[s].modified]
      BY <2>7, <3>2 DEF UploadStamps
    <3>5. /\ remote'[s] = local[s]
          /\ \A p \in Path : p # s => remote'[p] = remote[p]
      BY <3>2, <3>3, <3>4 DEF TypeOK, FileTree, File
    <3>6. \E a \in actions[r] : a.path = s
      BY <3>1 DEF QuietInv, PlanInv, Done
    <3>7. \A a \in Done(r) : a.path \in Path
      BY ActionFields DEF Done, TypeOK
    <3>8. \A a \in Done(r)' : remote'[a.path] = local'[a.path]
      BY <2>1, <3>1, <3>5, <3>7 DEF Executed, Done
    <3>9. \A p \in Path : (\A a \in actions'[r] : a.path # p) => Matches(catalog[p], p)'
      BY <2>1, <3>1, <3>5, <3>6 DEF Executed, Matches, RemoteItem
    <3>10. Executed(r)'
      BY <3>8, <3>9 DEF Executed
    <3> QED
      BY <2>1, <3>1, <3>10 DEF MirrorInv, Mirroring
  <2>8. ASSUME NEW a \in todo[r], Effect(r, a)
        PROVE  MirrorInv'
    <3>1. /\ UNCHANGED <<catalog, actions>>
          /\ todo'[r] = todo[r] \ {a}
          /\ pc[r] = "execute"
          /\ a \in actions[r] /\ a.path \in Path
      BY <2>1, <2>8, EffectTakes, TakesTyped DEF Takes, TypeOK
    <3>2. Done(r)' = Done(r) \union {a}
      BY <3>1 DEF Done
    <3>3. /\ UNCHANGED local
          /\ \A p \in Path : p # a.path => remote'[p] = remote[p]
          /\ \/ pc'[r] = "stamp" /\ stamping'[r] = a.path
             \/ pc'[r] = "execute" /\ remote'[a.path] = local[a.path]
      <4>1. CASE UploadCopies(r, a)
        BY <3>1, <4>1 DEF UploadCopies, Uploaded, TypeOK, FileTree
      <4>2. CASE DeleteRemoteSucceeds(r, a)
        <5>1. local[a.path] = Absent
          BY <2>1, <3>1, <4>2 DEF Mirroring, DeleteRemoteSucceeds
        <5> QED
          BY <3>1, <4>2, <5>1 DEF DeleteRemoteSucceeds, Runs, TypeOK, FileTree
      <4>3. CASE /\ a.op = "DeleteRemote" /\ remote[a.path] = Absent
                 /\ ActionFails(r, a)
        <5>1. local[a.path] = Absent
          BY <2>1, <3>1, <4>3 DEF Mirroring
        <5> QED
          BY <3>1, <4>3, <5>1 DEF ActionFails, Runs, files
      <4> QED
        BY <2>3, <2>8, <4>1, <4>2, <4>3
    <3>4. \A b \in Done(r)' : \/ pc'[r] = "stamp" /\ b.path = stamping'[r]
                              \/ remote'[b.path] = local'[b.path]
      <4> SUFFICES ASSUME NEW b \in Done(r), b.path # a.path
                   PROVE  remote'[b.path] = local[b.path]
        BY <3>2, <3>3
      <4>1. b.path \in Path
        BY ActionFields DEF Done, TypeOK
      <4> QED
        BY <2>1, <3>1, <3>3, <4>1 DEF Executed
    <3>5. \A p \in Path : (\A b \in actions'[r] : b.path # p) => Matches(catalog[p], p)'
      BY <2>1, <3>1, <3>3 DEF Executed, Matches, RemoteItem
    <3>6. Executed(r)'
      BY <3>4, <3>5 DEF Executed
    <3> QED
      BY <2>1, <3>1, <3>3, <3>6 DEF MirrorInv, Mirroring
  <2>9. CASE Record(r)
    <3>1. /\ UNCHANGED <<local, remote, catalog>>
          /\ pc[r] = "execute" /\ pc'[r] = "save" /\ todo[r] = {} /\ actions'[r] = {}
          /\ newcat'[r] = [p \in Path |-> UpdatedEntry(p, actions[r], catalog)]
      BY <2>9 DEF Record, files, TypeOK
    <3>2. \A p \in Path : Matches(UpdatedEntry(p, actions[r], catalog), p)
      BY <2>1, <3>1, RecordsMirror
    <3>3. \A p \in Path : Matches(newcat[r][p], p)'
      BY <3>1, <3>2 DEF Matches, RemoteItem
    <3> QED
      BY <2>1, <3>1, <3>3 DEF MirrorInv, Mirrors
  <2>10. CASE Save(r)
    <3>1. /\ UNCHANGED <<remote, actions>>
          /\ pc[r] = "save" /\ pc'[r] = "idle" /\ catalog' = newcat[r]
      BY <2>10 DEF Save, Quiet, files, TypeOK
    <3>2. Mirrors(catalog)'
      BY <2>1, <3>1 DEF Mirrors, Matches, RemoteItem
    <3>3. actions[r] = {}
      BY <3>1 DEF QuietInv, PlanInv
    <3> QED
      BY <2>1, <3>1, <3>2, <3>3 DEF MirrorInv
  <2> QED
    BY <1>3, <2>4, <2>5, <2>6, <2>7, <2>8, <2>9, <2>10, ExecuteCases DEF Advances
<1> QED
  BY <1>1, <1>2, <1>3, QuietCases

LEMMA MirrorAlways ==
  ASSUME Quiet, PreservesMtime, ~ServerSideMove, ~RemoteEdits
  PROVE  Spec => []MirrorInv
<1>1. Init => MirrorInv
  BY DEF Init, MirrorInv, Mirrors, Matches, NoTree
<1>2. TypeOK /\ QuietInv /\ MirrorInv /\ [Next]_vars => MirrorInv'
  BY MirrorStep
<1> QED
  BY <1>1, <1>2, QuietAlways, PTL DEF Spec

(* While nobody else writes to the remote, no path is ever planned as a
   conflict, for any number of paths, in every mode and under every policy:
   whatever the user did to the local side between the cycles, the catalog
   still describes the remote (planner.rs:55, :61).  A simulated backend
   without moves, see Quiet. *)
THEOREM OwnUploadsAreRecognised ==
  ASSUME Quiet, PreservesMtime, ~ServerSideMove
  PROVE  Spec => []OwnUploadsNeverConflict
<1>1. CASE RemoteEdits
  <2>1. OwnUploadsNeverConflict
    BY <1>1 DEF OwnUploadsNeverConflict
  <2> QED
    BY <2>1, PTL
<1>2. CASE ~RemoteEdits
  <2>1. MirrorInv => OwnUploadsNeverConflict
    BY DEF MirrorInv, Mirroring, OwnUploadsNeverConflict
  <2> QED
    BY <1>2, <2>1, MirrorAlways, PTL
<1> QED
  BY <1>1, <1>2

-----------------------------------------------------------------------------
(* Whose version survives. *)

Touches(a) == a.op \in {"Upload", "Download", "ConvergeState"}

\* A time tells that a local file is the one that the engine left at path p,
\* wherever its user has moved it since, and the same on the remote.
SinceLocal(e, p) ==
  e # Absent =>
    \A q \in Path : local[q] # Absent /\ local[q].modified = e.local_modified =>
                      local[q] = agreedL[p]
SinceRemote(e, p) ==
  e # Absent /\ remote[p] # Absent /\ remote[p].modified = e.remote_modified =>
    remote[p] = agreedR[p]

Past(e) == e # Absent => e.local_modified <= clock /\ e.remote_modified <= clock

\* No other local file than that of path p has time t.
OnlyAt(p, t) ==
  \A q \in Path : local[q] # Absent /\ local[q].modified = t => q = p
LocalDistinct == \A p \in Path : local[p] # Absent => OnlyAt(p, local[p].modified)

\* The running cycle does not touch what the catalog says of path p.
Settled(p) ==
  \A r \in Cycle : /\ pc[r] # "save"
                   /\ pc[r] \in {"execute", "stamp"} =>
                        \A a \in actions[r] : a.path = p => ~Touches(a)

\* What an action is going to replace is not an edit.
Careful(a) ==
  /\ a.op = "Upload" => ~EditedRemotely(a.path)
  /\ a.op = "Download" => ~EditedLocally(a.path)
  /\ a.op = "ServerSideMove" => ~EditedRemotely(a.to)

\* Both sides of a path that was copied or compared are what the engine left.
LeftInOrder(a) ==
  Touches(a) => ~EditedRemotely(a.path) /\ ~EditedLocally(a.path)

Convergent(a) ==
  a.op = "ConvergeState" =>
    Past(a.state) /\ OnlyAt(a.path, a.state.local_modified)

CatalogInv ==
  \A p \in Path : /\ Past(catalog[p])
                  /\ SinceRemote(catalog[p], p)
                  /\ Settled(p) => SinceLocal(catalog[p], p)

AgreeInv ==
  /\ LocalDistinct
  /\ CatalogInv
  /\ \A r \in Cycle :
       /\ \A a \in todo[r] : Careful(a)
       /\ \A a \in Done(r) : LeftInOrder(a)
       /\ \A a \in actions[r] : Convergent(a)
       /\ pc[r] = "save" =>
            \A p \in Path : /\ Past(newcat[r][p])
                            /\ SinceRemote(newcat[r][p], p)
                            /\ SinceLocal(newcat[r][p], p)

\* plan() takes a file for the one that was left there only if its time is in
\* the catalog (planner.rs:50-59).
LEMMA PlanIsCareful ==
  ASSUME TypeOK, NoneFromTheFuture, LocalDistinct, NEW L, NEW R, NEW B,
         \A p \in Path : L[p] = LocalItem(p) /\ R[p] = RemoteItem(p),
         \A p \in Path : SinceLocal(B[p], p) /\ SinceRemote(B[p], p),
         NEW M \in Moves(L, R, B), NEW a \in plan(L, R, B, M)
  PROVE  Careful(a) /\ Convergent(a)
<1>1. \A p \in Path : /\ L[p] = Absent <=> local[p] = Absent
                      /\ R[p] = Absent <=> remote[p] = Absent
                      /\ L[p] # Absent => L[p].modified = local[p].modified
                      /\ R[p] # Absent => R[p].modified = remote[p].modified
  <2>1. \A p \in Path :
          /\ local[p] # Absent => LocalItem(p).modified = local[p].modified
          /\ remote[p] # Absent => RemoteItem(p).modified = remote[p].modified
    BY DEF LocalItem, RemoteItem
  <2>2. \A p \in Path : /\ LocalItem(p) = Absent <=> local[p] = Absent
                        /\ RemoteItem(p) = Absent <=> remote[p] = Absent
    BY ItemsPresent
  <2> QED
    BY <2>1, <2>2
<1>2. \A p \in ToUpload(L, R, B) \union ToAdd(L, R, B, M) : ~EditedRemotely(p)
  <2> SUFFICES ASSUME NEW p \in Path, B[p] # Absent, R[p] # Absent,
                      ~remote_changed(R[p], B[p])
               PROVE  ~EditedRemotely(p)
    BY <1>1 DEF ToUpload, ToAdd, ChangedLocallyOnly, Everywhere, RemoteGone,
                candidate_additions, InLocal, EditedRemotely
  <2> QED
    BY <1>1 DEF remote_changed, SinceRemote, EditedRemotely
<1>3. \A p \in ToDownload(L, R, B) : ~EditedLocally(p)
  <2> SUFFICES ASSUME NEW p \in Path, B[p] # Absent, L[p] # Absent,
                      ~local_changed(L[p], B[p])
               PROVE  ~EditedLocally(p)
    BY <1>1 DEF ToDownload, ChangedRemotelyOnly, Everywhere, InRemote, EditedLocally
  <2> QED
    BY <1>1 DEF local_changed, SinceLocal, EditedLocally
<1>4. \A m \in M : ~EditedRemotely(m[2])
  BY <1>1 DEF Moves, DetectedMoves, candidate_additions, InLocal, EditedRemotely
<1>5. ASSUME NEW p \in ToConverge(L, R, B), a = Converge(p, L[p], R[p])
      PROVE  Convergent(a)
  <2>1. p \in Path /\ L[p] # Absent /\ R[p] # Absent
    BY DEF ToConverge, Diverged
  <2>2. local[p] \in Versions /\ remote[p] \in Versions
    BY <1>1, <2>1, VersionsTyped
  <2>3. /\ a.path = p
        /\ a.state.local_modified = local[p].modified
        /\ a.state.remote_modified = remote[p].modified
    BY <1>1, <1>5, <2>1 DEF Converge
  <2> QED
    BY <1>1, <2>1, <2>2, <2>3
       DEF Convergent, Past, NoneFromTheFuture, LocalDistinct
<1>6. CASE \/ \E p \in ToUpload(L, R, B) \union ToAdd(L, R, B, M), k \in {0, 3} :
                a = Upload(p, L[p].size, k)
           \/ \E p \in ToDownload(L, R, B) : a = Download(p, R[p])
           \/ \E m \in M : a = Move(m[1], m[2])
  BY <1>2, <1>3, <1>4, <1>6 DEF Careful, Convergent, Upload, Download, Move
<1>7. CASE \E p \in ToConverge(L, R, B) : a = Converge(p, L[p], R[p])
  BY <1>5, <1>7 DEF Converge, Careful
<1>8. CASE \E p \in Path : \/ a = DeleteLocal(p) \/ a = DeleteRemote(p)
                           \/ a = Conflict(p, L[p], R[p])
  BY <1>8 DEF Careful, Convergent, DeleteLocal, DeleteRemote, Conflict
<1>9. /\ ToDeleteLocal(L, R, B) \subseteq Path
      /\ ToConflict(L, R, B) \subseteq Path
      /\ ToDeleteRemote(L, R, B, M) \subseteq Path
  BY DEF ToDeleteLocal, RemoteGone, ToConflict, Diverged, ToDeleteRemote,
         candidate_deletions, LocalGone
<1> QED
  BY <1>6, <1>7, <1>8, <1>9 DEF plan

\* What one step of execute() does to the two sides and to the history: it
\* leaves a path as it was, or as the engine will know it.
LEMMA EffectLeaves ==
  ASSUME Quiet, TypeOK, NEW r \in Cycle, NEW a \in todo[r], Effect(r, a), Careful(a)
  PROVE  /\ a.path \in Path
         /\ clock' \in {clock, clock + 1}
         /\ \A p \in Path : /\ p # a.path => UNCHANGED <<local[p], agreedL[p]>>
                            /\ \/ UNCHANGED <<remote[p], agreedR[p]>>
                               \/ ~EditedRemotely(p)'
         /\ UNCHANGED <<local[a.path], agreedL[a.path]>> \/ ~EditedLocally(a.path)'
         /\ \/ local'[a.path] \in {local[a.path], Absent}
            \/ clock' = clock + 1 /\ local'[a.path].modified = clock + 1
         /\ ~Touches(a) => UNCHANGED agreedL
         /\ LeftInOrder(a)'
<1>1. a \in SyncAction /\ a.path \in Path /\ (a.op = "ServerSideMove" => a.to \in Path)
  BY EffectTakes, TakesTyped, ActionFields
<1>2. CASE UploadSucceeds(r, a) \/ UploadCopies(r, a)
  <2>1. Uploaded(a)
    BY <1>2 DEF UploadSucceeds, UploadCopies
  <2> QED
    BY <1>1, <2>1 DEF Uploaded, Agreed, Touches, LeftInOrder, EditedLocally,
                      EditedRemotely, TypeOK, FileTree
<1>3. CASE DownloadSucceeds(r, a)
  BY <1>1, <1>3 DEF DownloadSucceeds, Agreed, Touches, LeftInOrder, EditedLocally,
                    EditedRemotely, TypeOK, FileTree
<1>4. CASE DeletesLocal(r, a)
  BY <1>1, <1>4 DEF DeletesLocal, ghosts, Touches, LeftInOrder, EditedLocally,
                    EditedRemotely, TypeOK, FileTree
<1>5. CASE DeleteRemoteSucceeds(r, a)
  BY <1>1, <1>5 DEF DeleteRemoteSucceeds, ghosts, Touches, LeftInOrder,
                    EditedLocally, EditedRemotely, TypeOK, FileTree
<1>6. CASE MoveSucceeds(r, a)
  BY <1>1, <1>6 DEF MoveSucceeds, Touches, LeftInOrder, EditedLocally,
                    EditedRemotely, TypeOK, FileTree
<1>7. CASE ActionFails(r, a)
  BY <1>1, <1>7 DEF ActionFails, Quiet, Careful, files, ghosts, Touches,
                    LeftInOrder, EditedLocally, EditedRemotely
<1>8. CASE LeavesConflict(r, a)
  BY <1>1, <1>8 DEF LeavesConflict, files, ghosts, Touches, LeftInOrder
<1>9. CASE Converges(r, a)
  BY <1>1, <1>9 DEF Converges, Agreed, files, Touches, LeftInOrder, EditedLocally,
                    EditedRemotely, TypeOK, FileTree
<1>10. ~UploadBreaksOff(r, a) /\ ~DownloadBreaksOff(r, a)
  BY DEF Quiet, UploadBreaksOff, DownloadBreaksOff
<1> QED
  BY <1>2, <1>3, <1>4, <1>5, <1>6, <1>7, <1>8, <1>9, <1>10 DEF Effect

\* What the recorder writes for a path that was run through tells its versions
\* from later edits (orchestrator.rs:211-268).
LEMMA RecordsAgree ==
  ASSUME Quiet, TypeOK, NoneFromTheFuture, PlanInv, AgreeInv,
         NEW r \in Cycle, Record(r), NEW p \in Path,
         NEW e, e = UpdatedEntry(p, actions[r], catalog)
  PROVE  /\ e # Absent => e.local_modified <= clock' /\ e.remote_modified <= clock'
         /\ SinceRemote(e, p)
         /\ SinceLocal(e, p)
<1>1. /\ pc[r] = "execute" /\ Done(r) = actions[r]
      /\ clock \in Nat /\ clock' \in {clock, clock + 1}
      /\ \A a \in Transfers(actions[r]) : local[a.path] = Absent => clock' = clock + 1
  BY DEF Record, Done, TypeOK
<1>2. \A f \in Versions : f.modified \in Nat /\ f.modified <= clock
  BY VersionsTyped DEF File, NoneFromTheFuture
<1>3. CASE ~ \E a \in Recordable(actions[r]) : a.path = p
  <2>1. e = catalog[p]
    BY <1>3 DEF UpdatedEntry
  <2>2. Settled(p)
    BY <1>1, <1>3 DEF Settled, Quiet, Recordable, Transfers, Touches
  <2>3. Past(catalog[p]) /\ SinceRemote(catalog[p], p) /\ SinceLocal(catalog[p], p)
    BY <2>2 DEF AgreeInv, CatalogInv
  <2>4. catalog[p] # Absent => /\ catalog[p].local_modified \in Nat
                               /\ catalog[p].remote_modified \in Nat
    BY DEF TypeOK, Catalog, FileState
  <2> QED
    BY <1>1, <2>1, <2>3, <2>4 DEF Past
<1>4. CASE \E a \in Recordable(actions[r]) : a.path = p
  <2> DEFINE b == CHOOSE a \in Recordable(actions[r]) : a.path = p
  <2>1. b \in Recordable(actions[r]) /\ b \in actions[r] /\ b.path = p
    BY <1>4 DEF Recordable, Transfers
  <2>2. e = EntryAfter(b)
    BY <1>4 DEF UpdatedEntry
  <2> HIDE DEF b
  <2>3. b \in SyncAction /\ LeftInOrder(b) /\ Convergent(b)
    BY <1>1, <2>1 DEF TypeOK, AgreeInv
  <2>4. CASE b.op \in {"Upload", "Download"}
    <3> DEFINE t == MtimeNow(p)
    <3>1. e = Recorded(b, t)
      BY <2>1, <2>2, <2>4 DEF EntryAfter
    <3>2. e.local_modified = t /\ e.remote_modified = t
      BY <3>1 DEF Recorded
    <3>3. remote[p] \in {Absent, agreedR[p]} /\ local[p] \in {Absent, agreedL[p]}
      BY <2>1, <2>3, <2>4 DEF LeftInOrder, Touches, EditedRemotely, EditedLocally
    <3>4. SinceRemote(e, p)
      BY <3>3 DEF SinceRemote
    <3>5. CASE local[p] = Absent
      <4>1. t = clock + 1
        BY <3>5 DEF MtimeNow
      <4>2. clock' = clock + 1
        BY <1>1, <2>1, <2>4, <3>5 DEF Transfers
      <4>3. \A q \in Path : local[q] # Absent => local[q].modified # t
        BY <1>1, <1>2, <4>1, VersionsTyped
      <4> HIDE DEF t
      <4> QED
        BY <1>1, <3>2, <3>4, <4>1, <4>2, <4>3 DEF SinceLocal
    <3>6. CASE local[p] # Absent
      <4>1. t = local[p].modified
        BY <3>6 DEF MtimeNow
      <4>2. local[p] \in Versions
        BY <3>6, VersionsTyped
      <4>3. t \in Nat /\ t <= clock
        BY <1>2, <4>1, <4>2
      <4>4. OnlyAt(p, t)
        BY <3>6, <4>1 DEF AgreeInv, LocalDistinct
      <4> HIDE DEF t
      <4> QED
        BY <1>1, <3>2, <3>3, <3>4, <3>6, <4>3, <4>4 DEF SinceLocal, OnlyAt
    <3> QED
      BY <3>5, <3>6
  <2>5. CASE b.op \in {"DeleteLocal", "DeleteRemote"}
    BY <2>2, <2>5 DEF EntryAfter, SinceLocal, SinceRemote
  <2>6. CASE b.op = "ConvergeState"
    <3>1. e = b.state /\ b.state \in FileState
      BY <2>2, <2>3, <2>6, ActionFields DEF EntryAfter
    <3>2. Past(e) /\ OnlyAt(p, e.local_modified)
      BY <2>1, <2>3, <2>6, <3>1 DEF Convergent
    <3>3. remote[p] \in {Absent, agreedR[p]} /\ local[p] \in {Absent, agreedL[p]}
      BY <2>1, <2>3, <2>6 DEF LeftInOrder, Touches, EditedRemotely, EditedLocally
    <3>4. e.local_modified \in Nat /\ e.remote_modified \in Nat
      BY <3>1 DEF FileState
    <3> QED
      BY <1>1, <3>2, <3>3, <3>4 DEF Past, OnlyAt, SinceLocal, SinceRemote
  <2> QED
    BY <2>1, <2>4, <2>5, <2>6 DEF Recordable, Transfers
<1> QED
  BY <1>3, <1>4

\* Users write new versions and move old ones, between the cycles.
LEMMA UsersAgree ==
  ASSUME TypeOK, NoneFromTheFuture, PlanInv, AgreeInv, UserStep, AllIdle
  PROVE  AgreeInv'
<1>1. \A f \in Versions : f.modified \in Nat /\ f.modified <= clock
  BY VersionsTyped DEF File, NoneFromTheFuture
<1>2. /\ clock \in Nat /\ clock' \in {clock, clock + 1}
      /\ \A q \in Path :
           \/ local'[q] = Absent
           \/ clock' = clock + 1 /\ local'[q].modified = clock + 1
           \/ \E o \in Path : local'[q] = local[o]
      /\ \A q \in Path :
           \/ remote'[q] \in {remote[q], Absent}
           \/ clock' = clock + 1 /\ remote'[q].modified = clock + 1
  <2>1. CASE \E p \in Path, c \in Content : UserWritesLocal(p, c)
    <3>1. PICK p \in Path, c \in Content : UserWritesLocal(p, c)
      BY <2>1
    <3>2. /\ clock' = clock + 1 /\ remote' = remote
          /\ local'[p].modified = clock + 1
          /\ \A q \in Path : q # p => local'[q] = local[q]
      BY <3>1 DEF UserWritesLocal, TypeOK, FileTree
    <3> QED
      BY <3>2 DEF TypeOK
  <2>2. CASE \E p \in Path, c \in Content : UserWritesRemote(p, c)
    <3>1. PICK p \in Path, c \in Content : UserWritesRemote(p, c)
      BY <2>2
    <3>2. /\ clock' = clock + 1 /\ local' = local
          /\ remote'[p].modified = clock + 1
          /\ \A q \in Path : q # p => remote'[q] = remote[q]
      BY <3>1 DEF UserWritesRemote, TypeOK, FileTree
    <3> QED
      BY <3>2 DEF TypeOK
  <2>3. CASE \E p \in Path : UserDeletesLocal(p) \/ UserDeletesRemote(p)
    <3>1. /\ clock' = clock
          /\ \A q \in Path : /\ local'[q] \in {local[q], Absent}
                            /\ remote'[q] \in {remote[q], Absent}
      BY <2>3 DEF UserDeletesLocal, UserDeletesRemote, TypeOK, FileTree
    <3> QED
      BY <3>1 DEF TypeOK
  <2>4. CASE \E p, o \in Path : UserRenamesLocal(p, o)
    <3>1. PICK p \in Path, o \in Path : UserRenamesLocal(p, o)
      BY <2>4
    <3>2. /\ clock' = clock + 1 /\ remote' = remote
          /\ \A q \in Path : local'[q] \in {local[q], local[p], Absent}
      BY <3>1 DEF UserRenamesLocal, TypeOK, FileTree
    <3> QED
      BY <3>2 DEF TypeOK
  <2> QED
    BY <2>1, <2>2, <2>3, <2>4 DEF UserStep
<1>3. LocalDistinct'
  <2>1. CASE \E p \in Path, c \in Content : UserWritesLocal(p, c)
    <3>1. PICK p \in Path, c \in Content : UserWritesLocal(p, c)
      BY <2>1
    <3>2. /\ local'[p].modified = clock + 1
          /\ \A q \in Path : q # p => local'[q] = local[q]
      BY <3>1 DEF UserWritesLocal, TypeOK, FileTree
    <3>3. \A q \in Path : local[q] # Absent =>
            local[q].modified \in Nat /\ local[q].modified <= clock
      BY <1>1, VersionsTyped
    <3>4. \A q \in Path : q # p /\ local'[q] # Absent => local'[q].modified # clock + 1
      BY <1>2, <3>2, <3>3
    <3> QED
      BY <3>2, <3>4 DEF AgreeInv, LocalDistinct, OnlyAt
  <2>2. CASE \E p \in Path : UserDeletesLocal(p)
    BY <2>2 DEF UserDeletesLocal, AgreeInv, LocalDistinct, OnlyAt, TypeOK, FileTree
  <2>3. CASE \E p, q \in Path : UserRenamesLocal(p, q)
    BY <2>3 DEF UserRenamesLocal, AgreeInv, LocalDistinct, OnlyAt, TypeOK, FileTree
  <2>4. CASE UNCHANGED local
    BY <2>4 DEF AgreeInv, LocalDistinct, OnlyAt
  <2> QED
    BY <2>1, <2>2, <2>3, <2>4 DEF UserStep, UserWritesRemote, UserDeletesRemote
<1>4. /\ UNCHANGED <<catalog, pc, actions, todo, newcat, agreedL, agreedR>>
      /\ \A r \in Cycle : actions[r] = {} /\ todo[r] = {} /\ pc[r] = "idle"
  BY UsersLeave DEF AllIdle, PlanInv
<1>5. CatalogInv'
  <2> SUFFICES ASSUME NEW p \in Path
               PROVE  Past(catalog[p])' /\ SinceRemote(catalog[p], p)'
                      /\ SinceLocal(catalog[p], p)'
    BY DEF CatalogInv
  <2>1. /\ Past(catalog[p]) /\ SinceRemote(catalog[p], p)
        /\ SinceLocal(catalog[p], p)
    BY <1>4 DEF AgreeInv, CatalogInv, Settled
  <2>2. catalog[p] # Absent => /\ catalog[p].local_modified \in Nat
                               /\ catalog[p].remote_modified \in Nat
    BY DEF TypeOK, Catalog, FileState
  <2>3. Past(catalog[p])'
    BY <1>2, <1>4, <2>1, <2>2 DEF Past
  <2>4. SinceRemote(catalog[p], p)'
    BY <1>2, <1>4, <2>1, <2>2 DEF Past, SinceRemote
  <2>5. SinceLocal(catalog[p], p)'
    BY <1>2, <1>4, <2>1, <2>2 DEF Past, SinceLocal
  <2> QED
    BY <2>3, <2>4, <2>5
<1> QED
  BY <1>3, <1>4, <1>5 DEF AgreeInv, Done

\* A step of execute() keeps every version that it does not know of.
LEMMA EffectsAgree ==
  ASSUME Quiet, TypeOK, NoneFromTheFuture, PlanInv, AgreeInv,
         NEW r \in Cycle, NEW a \in todo[r], Effect(r, a)
  PROVE  AgreeInv'
<1>1. /\ \A q \in Cycle : q = r
      /\ UNCHANGED <<catalog, actions, newcat>>
      /\ pc[r] = "execute" /\ pc'[r] \in {"execute", "stamp"}
      /\ todo'[r] = todo[r] \ {a} /\ a \in actions[r]
  BY EffectTakes DEF Quiet, PlanInv, Takes, Runs, UploadCopies, TypeOK
<1>2. Careful(a)
  BY DEF AgreeInv
<1>3. /\ a.path \in Path
      /\ clock \in Nat /\ clock' \in {clock, clock + 1}
      /\ \A p \in Path : p # a.path => local'[p] = local[p] /\ agreedL'[p] = agreedL[p]
      /\ \A p \in Path : \/ remote'[p] = remote[p] /\ agreedR'[p] = agreedR[p]
                        \/ ~EditedRemotely(p)'
      /\ \/ local'[a.path] = local[a.path] /\ agreedL'[a.path] = agreedL[a.path]
         \/ ~EditedLocally(a.path)'
      /\ \/ local'[a.path] \in {local[a.path], Absent}
         \/ clock' = clock + 1 /\ local'[a.path].modified = clock + 1
      /\ ~Touches(a) => agreedL' = agreedL
      /\ LeftInOrder(a)'
  BY <1>2, EffectLeaves DEF TypeOK
<1>4. \A q \in Path : local[q] # Absent =>
        local[q].modified \in Nat /\ local[q].modified <= clock
  BY VersionsTyped DEF File, NoneFromTheFuture
<1>5. \A p \in Path : /\ ~EditedLocally(p) => ~EditedLocally(p)'
                      /\ ~EditedRemotely(p) => ~EditedRemotely(p)'
  BY <1>3 DEF EditedLocally, EditedRemotely
\* No file gets a time that is known already.
<1>6. ASSUME NEW p \in Path, NEW t \in Nat, t <= clock, OnlyAt(p, t)
      PROVE  OnlyAt(p, t)'
  BY <1>3, <1>6 DEF OnlyAt
<1>7. LocalDistinct'
  <2>1. CASE local'[a.path] \in {local[a.path], Absent}
    BY <1>3, <2>1 DEF AgreeInv, LocalDistinct, OnlyAt
  <2>2. CASE clock' = clock + 1 /\ local'[a.path].modified = clock + 1
    <3>1. \A q \in Path : q # a.path /\ local'[q] # Absent =>
            local'[q].modified # clock + 1
      BY <1>3, <1>4
    <3> QED
      BY <1>3, <2>2, <3>1 DEF AgreeInv, LocalDistinct, OnlyAt
  <2> QED
    BY <1>3, <2>1, <2>2
<1>8. CatalogInv'
  <2> SUFFICES ASSUME NEW p \in Path
               PROVE  /\ Past(catalog[p])' /\ SinceRemote(catalog[p], p)'
                      /\ Settled(p)' => SinceLocal(catalog[p], p)'
    BY DEF CatalogInv
  <2>1. /\ Past(catalog[p]) /\ SinceRemote(catalog[p], p)
        /\ Settled(p) => SinceLocal(catalog[p], p)
    BY DEF AgreeInv, CatalogInv
  <2>2. catalog[p] # Absent => /\ catalog[p].local_modified \in Nat
                               /\ catalog[p].remote_modified \in Nat
    BY DEF TypeOK, Catalog, FileState
  <2>3. Past(catalog[p])'
    BY <1>1, <1>3, <2>1, <2>2 DEF Past
  <2>4. SinceRemote(catalog[p], p)'
    BY <1>1, <1>3, <2>1 DEF SinceRemote, EditedRemotely
  <2>5. ASSUME Settled(p)'
        PROVE  SinceLocal(catalog[p], p)'
    <3>1. Settled(p)
      BY <1>1, <2>5 DEF Settled
    <3>2. a.path = p => ~Touches(a)
      BY <1>1, <3>1 DEF Settled
    <3>3. agreedL'[p] = agreedL[p]
      BY <1>3, <3>2
    <3>4. \A q \in Path : \/ local'[q] \in {local[q], Absent}
                         \/ local'[q].modified = clock + 1
      BY <1>3
    <3> QED
      BY <1>1, <1>3, <2>1, <2>2, <3>1, <3>3, <3>4 DEF Past, SinceLocal
  <2> QED
    BY <2>3, <2>4, <2>5
<1>9. \A b \in todo'[r] : Careful(b)'
  <2> SUFFICES ASSUME NEW b \in todo[r]
               PROVE  Careful(b)'
    BY <1>1
  <2>1. /\ b.path \in Path /\ (b.op = "ServerSideMove" => b.to \in Path)
        /\ Careful(b)
    BY ActionFields DEF TypeOK, AgreeInv
  <2> QED
    BY <1>5, <2>1 DEF Careful
<1>10. \A b \in Done(r)' : LeftInOrder(b)'
  <2> SUFFICES ASSUME NEW b \in Done(r)
               PROVE  LeftInOrder(b)'
    BY <1>1, <1>3 DEF Done
  <2>1. b.path \in Path /\ LeftInOrder(b)
    BY ActionFields DEF TypeOK, AgreeInv, Done
  <2> QED
    BY <1>5, <2>1 DEF LeftInOrder
<1>11. \A b \in actions'[r] : Convergent(b)'
  <2> SUFFICES ASSUME NEW b \in actions[r], b.op = "ConvergeState"
               PROVE  Past(b.state)' /\ OnlyAt(b.path, b.state.local_modified)'
    BY <1>1 DEF Convergent
  <2>1. /\ b.path \in Path /\ b.state \in FileState
        /\ Past(b.state) /\ OnlyAt(b.path, b.state.local_modified)
    BY ActionFields DEF TypeOK, AgreeInv, Convergent
  <2>2. /\ b.state.local_modified \in Nat /\ b.state.remote_modified \in Nat
        /\ b.state # Absent
    BY <2>1, PlannerAssumption DEF FileState
  <2>3. Past(b.state)'
    BY <1>3, <2>1, <2>2 DEF Past
  <2> QED
    BY <1>6, <2>1, <2>2, <2>3 DEF Past
<1> QED
  BY <1>1, <1>7, <1>8, <1>9, <1>10, <1>11 DEF AgreeInv

\* The history, the catalog and the plan stay in agreement.
LEMMA AgreeStep ==
  ASSUME Quiet, TypeOK, QuietInv, AgreeInv, [Next]_vars
  PROVE  AgreeInv'
<1>1. PlanInv /\ NoneFromTheFuture
  BY DEF QuietInv, SyncInv, StampInv
<1>2. CASE UserStep /\ AllIdle
  BY <1>1, <1>2, UsersAgree
<1>3. CASE UNCHANGED vars
  <2>1. UNCHANGED <<local, remote, catalog, clock, pc, actions, todo, newcat,
                    agreedL, agreedR>>
    BY <1>3 DEF vars, files, runner, ghosts
  <2> QED
    BY <2>1 DEF AgreeInv, LocalDistinct, CatalogInv, OnlyAt, Past, SinceRemote,
                SinceLocal, Settled, Careful, LeftInOrder, Convergent, Done,
                EditedLocally, EditedRemotely
<1>4. ASSUME NEW r \in Cycle, Advances(r)
      PROVE  AgreeInv'
  <2>1. \A q \in Cycle : q = r
    BY DEF Quiet
  \* As long as the files stay as they are, what is known of them is true.
  <2>2. ASSUME UNCHANGED <<files, clock, ghosts>>
        PROVE  /\ LocalDistinct'
               /\ \A a : /\ Careful(a) => Careful(a)'
                         /\ LeftInOrder(a) => LeftInOrder(a)'
                         /\ Convergent(a) => Convergent(a)'
    BY <2>2 DEF files, ghosts, AgreeInv, LocalDistinct, OnlyAt, Past, Careful,
                LeftInOrder, Convergent, EditedLocally, EditedRemotely
  <2>3. ASSUME UNCHANGED <<files, clock, ghosts>>, NEW cat, catalog' = cat,
                \A p \in Path : /\ Past(cat[p]) /\ SinceRemote(cat[p], p)
                                /\ Settled(p)' => SinceLocal(cat[p], p)
         PROVE  CatalogInv'
    BY <2>3 DEF files, ghosts, CatalogInv, Past, SinceRemote, SinceLocal
  <2>4. CASE LoadBase(r) \/ \E p \in Path : ScanRemote(r, p) \/ ScanLocal(r, p)
    <3>1. /\ UNCHANGED <<files, clock, ghosts, catalog, actions, todo>>
          /\ pc[r] \in {"idle", "scan_remote", "scan_local"}
          /\ pc'[r] \in {"scan_remote", "scan_local", "plan"}
      BY <2>4 DEF LoadBase, ScanRemote, ScanLocal, TypeOK
    <3>2. \A p \in Path : Settled(p)
      BY <2>1, <3>1 DEF Settled
    <3>3. CatalogInv'
      BY <2>3, <3>1, <3>2 DEF AgreeInv, CatalogInv
    <3> QED
      BY <2>1, <2>2, <3>1, <3>3 DEF AgreeInv, Done
  <2>5. CASE Plan(r)
    <3>1. PICK M \in Moves(ltree[r], rtree[r], base[r]) :
            /\ actions' = [actions EXCEPT ![r] = plan(ltree[r], rtree[r], base[r], M)]
            /\ todo' = [todo EXCEPT ![r] = plan(ltree[r], rtree[r], base[r], M)]
      BY <2>5 DEF Plan
    <3>2. /\ UNCHANGED <<files, clock, ghosts, catalog>>
          /\ pc[r] = "plan" /\ pc'[r] \in {"dry_run", "execute"}
      BY <2>5 DEF Plan, TypeOK
    <3>3. /\ base[r] = catalog
          /\ \A p \in Path : ltree[r][p] = LocalItem(p) /\ rtree[r][p] = RemoteItem(p)
      BY <3>2 DEF QuietInv, ScanInv
    <3>4. \A p \in Path : Settled(p)
      BY <2>1, <3>2 DEF Settled
    <3>5. \A p \in Path : SinceLocal(base[r][p], p) /\ SinceRemote(base[r][p], p)
      BY <3>3, <3>4 DEF AgreeInv, CatalogInv
    <3>6. \A a \in plan(ltree[r], rtree[r], base[r], M) : Careful(a) /\ Convergent(a)
      BY <1>1, <3>3, <3>5, PlanIsCareful DEF AgreeInv
    <3>7. /\ actions'[r] = plan(ltree[r], rtree[r], base[r], M)
          /\ todo'[r] = actions'[r]
      BY <3>1 DEF TypeOK
    <3>8. CatalogInv'
      BY <2>3, <3>2, <3>4 DEF AgreeInv, CatalogInv
    <3>9. \A a \in actions'[r] : Careful(a)' /\ Convergent(a)'
      BY <2>2, <3>2, <3>6, <3>7
    <3> QED
      BY <2>1, <2>2, <3>2, <3>7, <3>8, <3>9 DEF AgreeInv, Done
  <2>6. CASE SkipsDryRun(r)
    <3>1. /\ UNCHANGED <<files, clock, ghosts, catalog>>
          /\ pc[r] = "dry_run" /\ pc'[r] = "idle"
          /\ actions'[r] = {} /\ todo'[r] = {}
      BY <2>6 DEF SkipsDryRun, TypeOK
    <3>2. \A p \in Path : Settled(p)
      BY <2>1, <3>1 DEF Settled
    <3>3. CatalogInv'
      BY <2>3, <3>1, <3>2 DEF AgreeInv, CatalogInv
    <3> QED
      BY <2>1, <2>2, <3>1, <3>3 DEF AgreeInv, Done
  <2>7. CASE UploadStamps(r)
    <3> DEFINE s == stamping[r]
    <3>1. /\ UNCHANGED <<local, catalog, clock, actions, todo, agreedL>>
          /\ pc[r] = "stamp" /\ pc'[r] = "execute"
      BY <2>7 DEF UploadStamps, TypeOK
    <3>2. s \in Path
      BY <3>1 DEF QuietInv, SyncInv, CopyInv
    <3>3. \A p \in Path : \/ remote'[p] = remote[p] /\ agreedR'[p] = agreedR[p]
                          \/ ~EditedRemotely(p)'
      BY <2>7, <3>2 DEF UploadStamps, EditedRemotely, TypeOK, FileTree
    <3>4. LocalDistinct' /\ \A a : Convergent(a) => Convergent(a)'
      BY <3>1 DEF AgreeInv, LocalDistinct, OnlyAt, Past, Convergent
    <3>5. \A e : \A p \in Path : SinceRemote(e, p) => SinceRemote(e, p)'
      BY <3>3 DEF SinceRemote, EditedRemotely
    <3>6. \A p \in Path : /\ ~EditedLocally(p) => ~EditedLocally(p)'
                          /\ ~EditedRemotely(p) => ~EditedRemotely(p)'
      BY <3>1, <3>3 DEF EditedLocally, EditedRemotely
    <3>7. \A p \in Path : Settled(p)' => Settled(p)
      BY <2>1, <3>1 DEF Settled
    <3>8. CatalogInv'
      <4> SUFFICES ASSUME NEW p \in Path
                   PROVE  /\ Past(catalog[p])' /\ SinceRemote(catalog[p], p)'
                          /\ Settled(p)' => SinceLocal(catalog[p], p)'
        BY DEF CatalogInv
      <4>1. PICK e : e = catalog[p]
        OBVIOUS
      <4>2. /\ Past(e) /\ SinceRemote(e, p)
            /\ Settled(p)' => SinceLocal(e, p)
        BY <3>7, <4>1 DEF AgreeInv, CatalogInv
      <4>3. SinceRemote(e, p)'
        BY <3>5, <4>2
      <4>4. Past(e)' /\ (Settled(p)' => SinceLocal(e, p)')
        BY <3>1, <4>2 DEF Past, SinceLocal
      <4> QED
        BY <3>1, <4>1, <4>3, <4>4 DEF Past, SinceRemote, SinceLocal
    <3>9. ASSUME NEW a \in actions[r]
          PROVE  /\ Careful(a) => Careful(a)'
                 /\ LeftInOrder(a) => LeftInOrder(a)'
      <4>1. a.path \in Path /\ (a.op = "ServerSideMove" => a.to \in Path)
        BY ActionFields DEF TypeOK
      <4> QED
        BY <3>6, <4>1 DEF Careful, LeftInOrder
    <3>10. todo[r] \subseteq actions[r]
      BY <1>1 DEF PlanInv
    <3> QED
      BY <2>1, <3>1, <3>4, <3>8, <3>9, <3>10 DEF AgreeInv, Done
  <2>8. CASE \E a \in todo[r] : Effect(r, a)
    BY <1>1, <2>8, EffectsAgree
  <2>9. CASE Record(r)
    <3>1. /\ UNCHANGED <<local, remote, catalog, agreedL, agreedR>>
          /\ clock \in Nat /\ clock' \in {clock, clock + 1}
          /\ pc[r] = "execute" /\ pc'[r] = "save"
          /\ actions'[r] = {} /\ todo'[r] = {}
          /\ newcat'[r] = [p \in Path |-> UpdatedEntry(p, actions[r], catalog)]
      BY <2>9 DEF Record, files, ghosts, TypeOK
    <3>2. ASSUME NEW p \in Path
          PROVE  /\ Past(newcat[r][p])'
                 /\ SinceRemote(newcat[r][p], p)'
                 /\ SinceLocal(newcat[r][p], p)'
      <4>1. PICK e : e = UpdatedEntry(p, actions[r], catalog)
        OBVIOUS
      <4>2. /\ e # Absent => e.local_modified <= clock' /\ e.remote_modified <= clock'
            /\ SinceRemote(e, p) /\ SinceLocal(e, p)
        BY <1>1, <2>9, <4>1, RecordsAgree
      <4>3. newcat'[r][p] = e
        BY <3>1, <4>1
      <4> QED
        BY <3>1, <4>2, <4>3 DEF Past, SinceRemote, SinceLocal
    <3>3. LocalDistinct' /\ \A p \in Path : ~Settled(p)'
      BY <3>1 DEF AgreeInv, LocalDistinct, OnlyAt, Settled
    <3>4. CatalogInv'
      <4> SUFFICES ASSUME NEW p \in Path
                   PROVE  Past(catalog[p])' /\ SinceRemote(catalog[p], p)'
        BY <3>3 DEF CatalogInv
      <4>1. Past(catalog[p]) /\ SinceRemote(catalog[p], p)
        BY DEF AgreeInv, CatalogInv
      <4>2. catalog[p] # Absent => /\ catalog[p].local_modified \in Nat
                                   /\ catalog[p].remote_modified \in Nat
        BY DEF TypeOK, Catalog, FileState
      <4> QED
        BY <3>1, <4>1, <4>2 DEF Past, SinceRemote
    <3> QED
      BY <2>1, <3>1, <3>2, <3>3, <3>4 DEF AgreeInv, Done
  <2>10. CASE Save(r)
    <3>1. /\ UNCHANGED <<files, clock, ghosts, actions, todo>>
          /\ pc[r] = "save" /\ pc'[r] = "idle" /\ catalog' = newcat[r]
      BY <2>10 DEF Save, Quiet, TypeOK
    <3>2. CatalogInv'
      BY <2>3, <3>1 DEF AgreeInv, CatalogInv
    <3> QED
      BY <2>1, <2>2, <3>1, <3>2 DEF AgreeInv, Done
  <2> QED
    BY <1>4, <2>4, <2>5, <2>6, <2>7, <2>8, <2>9, <2>10, ExecuteCases DEF Advances
<1> QED
  BY <1>2, <1>3, <1>4, QuietCases

(* The engine never replaces a version that a user wrote on one side and that
   was never copied to the other side, for any number of paths, in every mode,
   under every policy, with and without checksums, server-side moves and dry
   runs, whatever users and other devices do between the cycles
   (planner.rs:61, :157). *)
THEOREM EditsSurvive ==
  ASSUME Quiet
  PROVE  Spec => EditsAreNotOverwritten
<1>1. Init => AgreeInv
  BY DEF Init, NoTree, AgreeInv, LocalDistinct, CatalogInv, Past, SinceRemote,
         SinceLocal, Done
<1>2. TypeOK /\ QuietInv /\ AgreeInv /\ [Next]_vars => AgreeInv'
  BY AgreeStep
<1>3. TypeOK /\ QuietInv /\ AgreeInv /\ [Next]_vars =>
        [EngineStep => \A p \in Path :
           /\ EditedLocally(p) /\ local'[p] # Absent =>
                local'[p].content = local[p].content
           /\ EditedRemotely(p) /\ remote'[p] # Absent =>
                remote'[p].content = remote[p].content]_vars
  <2> SUFFICES ASSUME TypeOK, QuietInv, AgreeInv, [Next]_vars, EngineStep,
                      NEW p \in Path
               PROVE  /\ EditedLocally(p) /\ local'[p] # Absent =>
                           local'[p].content = local[p].content
                      /\ EditedRemotely(p) /\ remote'[p] # Absent =>
                           remote'[p].content = remote[p].content
    OBVIOUS
  <2>1. ASSUME NEW r \in Cycle, NEW a \in todo[r], Effect(r, a)
        PROVE  /\ EditedLocally(p) /\ local'[p] # Absent => local'[p] = local[p]
               /\ EditedRemotely(p) /\ remote'[p] # Absent => remote'[p] = remote[p]
    <3>1. /\ a \in SyncAction /\ a.path \in Path
          /\ a.op = "ServerSideMove" => a.to \in Path
      BY <2>1, EffectTakes, TakesTyped, ActionFields
    <3>2. Careful(a)
      BY DEF AgreeInv
    <3>3. CASE UploadSucceeds(r, a) \/ UploadCopies(r, a)
      <4>1. Uploaded(a)
        BY <3>3 DEF UploadSucceeds, UploadCopies
      <4> QED
        BY <3>1, <3>2, <4>1 DEF Uploaded, Careful, TypeOK, FileTree
    <3>4. CASE DownloadSucceeds(r, a)
      BY <3>1, <3>2, <3>4 DEF DownloadSucceeds, Careful, TypeOK, FileTree
    <3>5. CASE DeletesLocal(r, a) \/ DeleteRemoteSucceeds(r, a)
      BY <3>1, <3>5 DEF DeletesLocal, DeleteRemoteSucceeds, TypeOK, FileTree
    <3>6. CASE MoveSucceeds(r, a)
      BY <3>1, <3>2, <3>6 DEF MoveSucceeds, Careful, TypeOK, FileTree
    <3>7. CASE ActionFails(r, a) \/ LeavesConflict(r, a) \/ Converges(r, a)
      BY <3>7 DEF ActionFails, LeavesConflict, Converges, files
    <3>8. ~UploadBreaksOff(r, a) /\ ~DownloadBreaksOff(r, a)
      BY DEF Quiet, UploadBreaksOff, DownloadBreaksOff
    <3> QED
      BY <2>1, <3>3, <3>4, <3>5, <3>6, <3>7, <3>8 DEF Effect
  <2>2. ASSUME NEW r \in Cycle, UploadStamps(r)
        PROVE  /\ UNCHANGED local
               /\ remote'[p] # Absent => remote'[p].content = remote[p].content
    <3>1. /\ stamping[r] \in Path
          /\ local[stamping[r]] # Absent /\ remote[stamping[r]] # Absent
      BY <2>2 DEF UploadStamps, QuietInv, SyncInv, CopyInv
    <3>2. remote[stamping[r]] \in File
      BY <3>1 DEF TypeOK, FileTree
    <3> QED
      BY <2>2, <3>1, <3>2 DEF UploadStamps, TypeOK, FileTree, File
  <2> QED
    BY <2>1, <2>2, OtherSteps DEF files
<1> QED
  BY <1>1, <1>2, <1>3, QuietAlways, PTL DEF Spec, EditsAreNotOverwritten

-----------------------------------------------------------------------------
(* What a cycle leaves behind.                                             *)

\* Action a is about path p.
At(a, p) == a.path = p \/ (a.op = "ServerSideMove" /\ a.to = p)

\* Running a brings its path in sync.
Due(a) ==
  /\ a.op = "Upload" => local[a.path] # Absent
  /\ a.op = "Download" => remote[a.path] # Absent
  /\ a.op = "DeleteLocal" => remote[a.path] = Absent
  /\ a.op = "DeleteRemote" => local[a.path] = Absent
  /\ a.op = "ServerSideMove" => local[a.path] = Absent /\ remote[a.path] # Absent
  /\ a.op = "ConvergeState" => InSync(a.path)

\* No two actions of S are about the same path.
Apart(S) == \A a, b \in S, p \in Path : At(a, p) /\ At(b, p) => a = b

\* Nothing in S is about path p.
Spared(p, S) == \A a \in S : ~At(a, p)

SettleInv ==
  \A r \in Cycle :
    /\ pc[r] \in {"execute", "stamp"} =>
         \A p \in Path : Spared(p, actions[r]) => InSync(p) \/ LeftToRemote(p)
    /\ Apart(actions[r])
    /\ \A a \in todo[r] : Due(a)
    /\ \A a \in Done(r) : a.op # "Conflict" => InSync(a.path)

\* The sets of paths that plan() walks over are those of the match on (local,
\* remote, base): no path is in two of them, and a detected move is about a
\* path that is gone and one that is new (planner.rs:43-186).
LEMMA PlannedApart ==
  ASSUME NEW L, NEW R, NEW B, NEW M \in Moves(L, R, B)
  PROVE  Apart(plan(L, R, B, M))
<1> DEFINE U == ToUpload(L, R, B)
           D == ToDownload(L, R, B)
           X == ToDeleteLocal(L, R, B)
           V == ToConverge(L, R, B)
           C == ToConflict(L, R, B)
           G == candidate_deletions(L, R, B)
           N == candidate_additions(L, R, B)
<1>1. /\ M \subseteq G \X N
      /\ \A m, n \in M : m[1] = n[1] \/ m[2] = n[2] => m = n
  BY DEF Moves, DetectedMoves
<1>2. /\ U \intersect (D \union X \union V \union C \union G \union N) = {}
      /\ D \intersect (X \union V \union C \union G \union N) = {}
      /\ X \intersect (V \union C \union G \union N) = {}
  BY DEF ToUpload, ToDownload, ToDeleteLocal, ToConverge, ToConflict, Diverged,
         candidate_deletions, candidate_additions, ChangedLocallyOnly,
         ChangedRemotelyOnly, Everywhere, InLocal, InRemote, LocalGone, RemoteGone
<1>3. /\ V \intersect (C \union G \union N) = {}
      /\ C \intersect (G \union N) = {}
      /\ G \intersect N = {}
  BY DEF ToConverge, ToConflict, Diverged, candidate_deletions, candidate_additions,
         InLocal, LocalGone
\* What plan() does about path p follows from the set that p is in.
<1> DEFINE Planned(a, p) ==
             \/ p \in U /\ a = Upload(p, L[p].size, 0)
             \/ p \in D /\ a = Download(p, R[p])
             \/ p \in X /\ a = DeleteLocal(p)
             \/ p \in V /\ a = Converge(p, L[p], R[p])
             \/ p \in C /\ a = Conflict(p, L[p], R[p])
             \/ p \in G /\ (\A m \in M : m[1] # p) /\ a = DeleteRemote(p)
             \/ p \in N /\ (\A m \in M : m[2] # p) /\ a = Upload(p, L[p].size, 3)
             \/ \E m \in M : (m[1] = p \/ m[2] = p) /\ a = Move(m[1], m[2])
<1>4. ASSUME NEW a \in plan(L, R, B, M), NEW p, At(a, p)
      PROVE  Planned(a, p)
  <2>1. CASE \E q \in U : a = Upload(q, L[q].size, 0)
    BY <1>4, <2>1 DEF At, Upload
  <2>2. CASE \E q \in D : a = Download(q, R[q])
    BY <1>4, <2>2 DEF At, Download
  <2>3. CASE \E q \in X : a = DeleteLocal(q)
    BY <1>4, <2>3 DEF At, DeleteLocal
  <2>4. CASE \E q \in V : a = Converge(q, L[q], R[q])
    BY <1>4, <2>4 DEF At, Converge
  <2>5. CASE \E q \in C : a = Conflict(q, L[q], R[q])
    BY <1>4, <2>5 DEF At, Conflict
  <2>6. CASE \E m \in M : a = Move(m[1], m[2])
    BY <1>4, <2>6 DEF At, Move
  <2>7. CASE \E q \in ToDeleteRemote(L, R, B, M) : a = DeleteRemote(q)
    BY <1>4, <2>7 DEF At, DeleteRemote, ToDeleteRemote
  <2>8. CASE \E q \in ToAdd(L, R, B, M) : a = Upload(q, L[q].size, 3)
    BY <1>4, <2>8 DEF At, Upload, ToAdd
  <2> QED
    BY <2>1, <2>2, <2>3, <2>4, <2>5, <2>6, <2>7, <2>8 DEF plan
<1>5. ASSUME NEW a, NEW b, NEW p, Planned(a, p), Planned(b, p)
      PROVE  a = b
  <2> HIDE DEF U, D, X, V, C, G, N
  <2>1. CASE p \in U \union D \union X \union V \union C
    <3>1. p \notin G /\ p \notin N
      BY <1>2, <1>3, <2>1
    <3>2. \A m \in M : m[1] # p /\ m[2] # p
      BY <1>1, <3>1
    <3> QED
      BY <1>2, <1>3, <1>5, <2>1, <3>1, <3>2
  <2>2. CASE p \in G
    <3>1. p \notin U \union D \union X \union V \union C \union N
      BY <1>2, <1>3, <2>2
    <3>2. \A m \in M : m[2] # p
      BY <1>1, <3>1
    <3> QED
      BY <1>1, <1>5, <3>1, <3>2
  <2>3. CASE p \in N
    <3>1. p \notin U \union D \union X \union V \union C \union G
      BY <1>2, <1>3, <2>3
    <3>2. \A m \in M : m[1] # p
      BY <1>1, <3>1
    <3> QED
      BY <1>1, <1>5, <3>1, <3>2
  <2> QED
    BY <1>1, <1>5, <2>1, <2>2, <2>3
<1> QED
  BY <1>4, <1>5 DEF Apart

\* plan() acts on every path that is out of sync, or leaves it to the remote
\* in a one-way mode (planner.rs:43-186).
LEMMA PlanSettles ==
  ASSUME TypeOK, UnchangedMeansEqual, NEW L, NEW R,
         \A p \in Path : L[p] = LocalItem(p) /\ R[p] = RemoteItem(p),
         NEW M \in Moves(L, R, catalog)
  PROVE  /\ \A a \in plan(L, R, catalog, M) : Due(a)
         /\ \A p \in Path : Spared(p, plan(L, R, catalog, M)) =>
                              InSync(p) \/ LeftToRemote(p)
<1> DEFINE B == catalog
           S == plan(L, R, B, M)
<1>1. \A p \in Path : /\ L[p] = Absent <=> local[p] = Absent
                      /\ R[p] = Absent <=> remote[p] = Absent
                      /\ L[p] # Absent => L[p].checksum = NoChecksum
  <2> SUFFICES ASSUME NEW p \in Path
               PROVE  /\ L[p] = Absent <=> local[p] = Absent
                      /\ R[p] = Absent <=> remote[p] = Absent
                      /\ L[p] # Absent => L[p].checksum = NoChecksum
    OBVIOUS
  <2>1. L[p] # Absent => LocalItem(p).checksum = NoChecksum
    BY ItemsPresent DEF LocalItem
  <2> QED
    BY <2>1, ItemsPresent
<1>2. ASSUME NEW p \in ToConverge(L, R, B)
      PROVE  InSync(p)
  <2>1. /\ p \in Path /\ L[p] # Absent /\ R[p] # Absent
        /\ L[p].size = 0 /\ R[p].size = 0
    BY <1>1 DEF ToConverge, Diverged, same_content
  <2>2. /\ local[p] # Absent /\ remote[p] # Absent
        /\ local[p] \in File /\ remote[p] \in File
    BY <1>1, <2>1 DEF TypeOK, FileTree
  <2>3. Size[local[p].content] = 0 /\ Size[remote[p].content] = 0
    <3>1. /\ LocalItem(p).size = Size[local[p].content]
          /\ RemoteItem(p).size = Size[remote[p].content]
      BY <2>2 DEF LocalItem, RemoteItem
    <3> QED
      BY <2>1, <3>1
  <2> QED
    BY <2>2, <2>3, EngineAssumption DEF InSync, File
<1>3. ASSUME NEW a \in S
      PROVE  Due(a)
  <2>1. CASE \E p \in ToUpload(L, R, B) \union ToAdd(L, R, B, M), k \in {0, 3} :
               a = Upload(p, L[p].size, k)
    <3>1. \A p \in ToUpload(L, R, B) \union ToAdd(L, R, B, M) : local[p] # Absent
      BY <1>1 DEF ToUpload, ToAdd, candidate_additions, InLocal, RemoteGone,
                  ChangedLocallyOnly, Everywhere
    <3> QED
      BY <2>1, <3>1 DEF Upload, Due
  <2>2. CASE \E p \in ToDownload(L, R, B) : a = Download(p, R[p])
    <3>1. \A p \in ToDownload(L, R, B) : remote[p] # Absent
      BY <1>1 DEF ToDownload, InRemote, ChangedRemotelyOnly, Everywhere
    <3> QED
      BY <2>2, <3>1 DEF Download, Due
  <2>3. CASE \E p \in ToDeleteLocal(L, R, B) : a = DeleteLocal(p)
    BY <1>1, <2>3 DEF ToDeleteLocal, RemoteGone, DeleteLocal, Due
  <2>4. CASE \E p \in ToConverge(L, R, B) : a = Converge(p, L[p], R[p])
    BY <1>2, <2>4 DEF Converge, Due
  <2>5. CASE \E p \in ToConflict(L, R, B) : a = Conflict(p, L[p], R[p])
    BY <2>5 DEF Conflict, Due
  <2>6. CASE \E m \in M : a = Move(m[1], m[2])
    <3>1. \A m \in M : local[m[1]] = Absent /\ remote[m[1]] # Absent
      BY <1>1 DEF Moves, DetectedMoves, candidate_deletions, LocalGone
    <3> QED
      BY <2>6, <3>1 DEF Move, Due
  <2>7. CASE \E p \in ToDeleteRemote(L, R, B, M) : a = DeleteRemote(p)
    BY <1>1, <2>7 DEF ToDeleteRemote, candidate_deletions, LocalGone, DeleteRemote, Due
  <2> QED
    BY <2>1, <2>2, <2>3, <2>4, <2>5, <2>6, <2>7 DEF plan
<1>4. ASSUME NEW p \in Path, Spared(p, S)
      PROVE  InSync(p) \/ LeftToRemote(p)
  <2>1. /\ p \notin ToUpload(L, R, B) /\ p \notin ToAdd(L, R, B, M)
        /\ p \notin ToDownload(L, R, B) /\ p \notin ToDeleteLocal(L, R, B)
        /\ p \notin ToConverge(L, R, B) /\ p \notin ToConflict(L, R, B)
        /\ p \notin ToDeleteRemote(L, R, B, M)
    <3>1. /\ p \in ToUpload(L, R, B) => Upload(p, L[p].size, 0) \in S
          /\ p \in ToAdd(L, R, B, M) => Upload(p, L[p].size, 3) \in S
          /\ p \in ToDownload(L, R, B) => Download(p, R[p]) \in S
          /\ p \in ToDeleteLocal(L, R, B) => DeleteLocal(p) \in S
          /\ p \in ToConverge(L, R, B) => Converge(p, L[p], R[p]) \in S
          /\ p \in ToConflict(L, R, B) => Conflict(p, L[p], R[p]) \in S
          /\ p \in ToDeleteRemote(L, R, B, M) => DeleteRemote(p) \in S
      BY DEF plan
    <3> QED
      BY <1>4, <3>1 DEF Spared, At, Upload, Download, DeleteLocal, Converge,
                        Conflict, DeleteRemote
  <2>2. \A m \in M : m[1] # p /\ m[2] # p
    <3> SUFFICES ASSUME NEW m \in M
                 PROVE  m[1] # p /\ m[2] # p
      OBVIOUS
    <3>1. Move(m[1], m[2]) \in S
      BY DEF plan
    <3> QED
      BY <1>4, <3>1 DEF Spared, At, Move
  <2>3. p \notin InLocal(L, R, B) /\ p \notin candidate_deletions(L, R, B)
    BY <2>1, <2>2 DEF ToAdd, ToDeleteRemote, candidate_additions
  <2>4. CASE L[p] = Absent
    <3>1. CASE R[p] = Absent
      BY <1>1, <2>4, <3>1 DEF InSync
    <3>2. CASE R[p] # Absent
      BY <1>1, <2>1, <2>3, <2>4, <3>2, PlannerAssumption
         DEF ToDownload, InRemote, candidate_deletions, LocalGone, LeftToRemote,
             sync_both, sync_deletions, Modes
    <3> QED
      BY <3>1, <3>2
  <2>5. CASE L[p] # Absent /\ R[p] = Absent
    BY <2>1, <2>3, <2>5 DEF InLocal, ToUpload, ToDeleteLocal, RemoteGone,
                            sync_both, sync_deletions
  <2>6. CASE L[p] # Absent /\ R[p] # Absent
    <3>1. p \notin Diverged(L, R, B)
      BY <2>1 DEF ToConverge, ToConflict
    <3>2. /\ B[p] # Absent
          /\ ~local_changed(L[p], B[p]) \/ ~remote_changed(R[p], B[p])
      BY <2>6, <3>1 DEF Diverged
    <3>3. ~local_changed(L[p], B[p])
      BY <2>1, <2>6, <3>2 DEF ToUpload, ChangedLocallyOnly, Everywhere
    <3>4. CASE remote_changed(R[p], B[p])
      <4>1. Mode # "TwoWay"
        BY <2>1, <2>6, <3>2, <3>3, <3>4 DEF ToDownload, ChangedRemotelyOnly,
                                            Everywhere, sync_both
      <4> QED
        BY <1>1, <2>6, <3>2, <3>3, <3>4, <4>1 DEF LeftToRemote
    <3>5. CASE ~remote_changed(R[p], B[p])
      BY <1>1, <2>6, <3>2, <3>3, <3>5 DEF UnchangedMeansEqual, InSync
    <3> QED
      BY <3>4, <3>5
  <2> QED
    BY <2>4, <2>5, <2>6
<1> QED
  BY <1>3, <1>4

\* An action that succeeds brings its path in sync, and leaves the others alone.
LEMMA EffectSettles ==
  ASSUME Quiet, TypeOK, NEW r \in Cycle, NEW a \in todo[r], Effect(r, a), Due(a)
  PROVE  /\ \A p \in Path : ~At(a, p) => local'[p] = local[p] /\ remote'[p] = remote[p]
         /\ a.op # "Conflict" => InSync(a.path)'
<1>1. a \in SyncAction /\ a.path \in Path /\ (a.op = "ServerSideMove" => a.to \in Path)
  BY EffectTakes, TakesTyped, ActionFields
<1>2. CASE UploadSucceeds(r, a) \/ UploadCopies(r, a)
  <2>1. Uploaded(a)
    BY <1>2 DEF UploadSucceeds, UploadCopies
  <2>2. [content |-> local[a.path].content, modified |-> clock + 1] \in File
    BY <1>1, <2>1 DEF Uploaded, TypeOK, FileTree, File
  <2> QED
    BY <1>1, <2>1, <2>2, EngineAssumption DEF Uploaded, At, InSync, TypeOK, FileTree
<1>3. CASE DownloadSucceeds(r, a)
  <2>1. [content |-> remote[a.path].content, modified |-> clock + 1] \in File
    BY <1>1, <1>3 DEF DownloadSucceeds, TypeOK, FileTree, File
  <2> QED
    BY <1>1, <1>3, <2>1, EngineAssumption DEF DownloadSucceeds, At, InSync, TypeOK, FileTree
<1>4. CASE DeletesLocal(r, a)
  BY <1>1, <1>4 DEF DeletesLocal, Due, At, InSync, TypeOK, FileTree
<1>5. CASE DeleteRemoteSucceeds(r, a)
  BY <1>1, <1>5 DEF DeleteRemoteSucceeds, Due, At, InSync, TypeOK, FileTree
<1>6. CASE MoveSucceeds(r, a)
  BY <1>1, <1>6 DEF MoveSucceeds, Due, At, InSync, TypeOK, FileTree
<1>7. CASE ActionFails(r, a)
  BY <1>1, <1>7 DEF ActionFails, Quiet, Due, InSync, files
<1>8. CASE LeavesConflict(r, a)
  BY <1>8 DEF LeavesConflict, files
<1>9. CASE Converges(r, a)
  BY <1>9 DEF Converges, files, Due, InSync
<1>10. ~UploadBreaksOff(r, a) /\ ~DownloadBreaksOff(r, a)
  BY DEF Quiet, UploadBreaksOff, DownloadBreaksOff
<1> QED
  BY <1>2, <1>3, <1>4, <1>5, <1>6, <1>7, <1>8, <1>9, <1>10 DEF Effect

\* The plan settles all paths, and execute() goes through with it.
LEMMA SettleStep ==
  ASSUME Quiet, TypeOK, QuietInv, UnchangedMeansEqual, SettleInv, [Next]_vars
  PROVE  SettleInv'
<1>1. CASE UserStep /\ AllIdle
  <2>1. UNCHANGED <<pc, actions, todo>>
    BY <1>1, UsersLeave
  <2>2. \A r \in Cycle : actions[r] = {} /\ todo[r] = {} /\ pc[r] = "idle"
    BY <1>1 DEF AllIdle, QuietInv, PlanInv
  <2> QED
    BY <2>1, <2>2 DEF SettleInv, Apart, Done
<1>2. CASE UNCHANGED vars
  BY <1>2 DEF vars, files, runner, scans, SettleInv, Apart, Spared, Done, Due, InSync,
              LeftToRemote, LocalItem, RemoteItem
<1>3. ASSUME NEW r \in Cycle, Advances(r)
      PROVE  SettleInv'
  <2>1. /\ \A q \in Cycle : q = r
        /\ todo[r] \subseteq actions[r]
        /\ pc[r] \notin {"execute", "stamp", "dry_run"} => actions[r] = {}
        /\ Apart(actions[r])
        /\ \A a \in todo[r] : Due(a)
        /\ \A a \in Done(r) : a.op # "Conflict" => InSync(a.path)
        /\ \A a \in actions[r] : /\ a.path \in Path
                                 /\ a.op = "ServerSideMove" => a.to \in Path
    BY ActionFields DEF Quiet, QuietInv, PlanInv, SettleInv, TypeOK
  <2>2. pc[r] \in {"execute", "stamp"} =>
          \A p \in Path : Spared(p, actions[r]) => InSync(p) \/ LeftToRemote(p)
    BY DEF SettleInv
  <2>3. CASE actions'[r] = {} /\ todo'[r] = {} /\ pc'[r] \notin {"execute", "stamp"}
    BY <2>1, <2>3 DEF SettleInv, Apart, Done
  <2>4. CASE \/ LoadBase(r) \/ \E p \in Path : ScanRemote(r, p) \/ ScanLocal(r, p)
             \/ SkipsDryRun(r) \/ Record(r) \/ Save(r)
    <3>1. CASE LoadBase(r) \/ \E p \in Path : ScanRemote(r, p) \/ ScanLocal(r, p)
      <4>1. /\ UNCHANGED <<actions, todo>>
            /\ pc[r] \in {"idle", "scan_remote", "scan_local"}
            /\ pc'[r] \notin {"execute", "stamp"}
        BY <3>1 DEF LoadBase, ScanRemote, ScanLocal, TypeOK
      <4> QED
        BY <2>1, <2>3, <4>1
    <3>2. CASE SkipsDryRun(r)
      BY <2>3, <3>2 DEF SkipsDryRun, TypeOK
    <3>3. CASE Record(r)
      <4>1. actions'[r] = {} /\ todo'[r] = {} /\ pc'[r] = "save"
        BY <3>3 DEF Record, TypeOK
      <4> QED
        BY <2>3, <4>1
    <3>4. CASE Save(r)
      <4>1. /\ UNCHANGED <<actions, todo>>
            /\ pc[r] = "save" /\ pc'[r] = "idle"
        BY <3>4 DEF Save, TypeOK
      <4> QED
        BY <2>1, <2>3, <4>1
    <3> QED
      BY <2>4, <3>1, <3>2, <3>3, <3>4
  <2>5. CASE Plan(r)
    <3>1. PICK M \in Moves(ltree[r], rtree[r], base[r]) :
            /\ actions' = [actions EXCEPT ![r] = plan(ltree[r], rtree[r], base[r], M)]
            /\ todo' = [todo EXCEPT ![r] = plan(ltree[r], rtree[r], base[r], M)]
      BY <2>5 DEF Plan
    <3>2. /\ UNCHANGED <<local, remote, catalog>>
          /\ pc[r] = "plan"
      BY <2>5 DEF Plan, files
    <3>3. /\ base[r] = catalog
          /\ \A p \in Path : ltree[r][p] = LocalItem(p) /\ rtree[r][p] = RemoteItem(p)
      BY <3>2 DEF QuietInv, ScanInv
    <3>4. PICK S : S = plan(ltree[r], rtree[r], base[r], M)
      OBVIOUS
    <3>5. /\ Apart(S)
          /\ \A a \in S : Due(a)
          /\ \A p \in Path : Spared(p, S) => InSync(p) \/ LeftToRemote(p)
      BY <3>3, <3>4, PlannedApart, PlanSettles
    <3>6. actions'[r] = S /\ todo'[r] = S
      BY <3>1, <3>4 DEF TypeOK
    <3>7. \A a \in S : Due(a)'
      BY <3>2, <3>5 DEF Due, InSync
    <3>8. \A p \in Path : Spared(p, S) => InSync(p)' \/ LeftToRemote(p)'
      BY <3>2, <3>5 DEF InSync, LeftToRemote, LocalItem, RemoteItem
    <3>9. \A p \in Path : Spared(p, actions[r])' <=> Spared(p, S)
      BY <3>6 DEF Spared
    <3>10. Apart(actions[r])'
      BY <3>5, <3>6 DEF Apart
    <3> QED
      BY <2>1, <3>6, <3>7, <3>8, <3>9, <3>10 DEF SettleInv, Done
  <2>6. CASE UploadStamps(r)
    <3> DEFINE s == stamping[r]
    <3>1. /\ UNCHANGED <<local, catalog, actions, todo>>
          /\ pc[r] = "stamp"
      BY <2>6 DEF UploadStamps
    <3>2. /\ s \in Path /\ local[s] # Absent /\ remote[s] # Absent
      BY <3>1 DEF QuietInv, SyncInv, CopyInv
    <3>3. /\ remote[s] \in File
          /\ [remote[s] EXCEPT !.modified = local[s].modified] \in File
      BY <3>2 DEF TypeOK, FileTree, File
    <3>4. /\ \A p \in Path : p # s => remote'[p] = remote[p]
          /\ remote'[s] # Absent /\ remote'[s].content = remote[s].content
      BY <2>6, <3>2, <3>3, EngineAssumption DEF UploadStamps, TypeOK, FileTree, File
    <3>5. \A p \in Path : /\ InSync(p) => InSync(p)'
                          /\ remote'[p] = Absent <=> remote[p] = Absent
      BY <3>1, <3>2, <3>4 DEF InSync
    <3>6. \A a \in todo[r] : Due(a)'
      BY <2>1, <3>1, <3>5 DEF Due
    <3>7. ASSUME NEW p \in Path, Spared(p, actions[r])
          PROVE  InSync(p)' \/ LeftToRemote(p)'
      <4>1. p # s
        BY <3>1, <3>7 DEF Spared, At, QuietInv, PlanInv, Done
      <4>2. UNCHANGED <<local[p], remote[p], catalog[p]>>
        BY <3>1, <3>4, <4>1
      <4>3. InSync(p) \/ LeftToRemote(p)
        BY <2>2, <3>1, <3>7
      <4> QED
        BY <4>2, <4>3 DEF InSync, LeftToRemote, LocalItem, RemoteItem
    <3>8. \A a \in Done(r) : a.op # "Conflict" => InSync(a.path)'
      BY <2>1, <3>5 DEF Done
    <3> QED
      BY <2>1, <3>1, <3>6, <3>7, <3>8 DEF SettleInv, Apart, Spared, Done
  <2>7. ASSUME NEW a \in todo[r], Effect(r, a)
        PROVE  SettleInv'
    <3>1. /\ UNCHANGED <<catalog, actions>>
          /\ todo'[r] = todo[r] \ {a}
          /\ pc[r] = "execute"
          /\ a \in actions[r]
      BY <2>1, <2>7, EffectTakes DEF Takes, TypeOK
    <3>2. /\ \A p \in Path : ~At(a, p) => local'[p] = local[p] /\ remote'[p] = remote[p]
          /\ a.op # "Conflict" => InSync(a.path)'
      BY <2>1, <2>7, EffectSettles
    <3>3. ASSUME NEW b \in actions[r], b # a
          PROVE  /\ b.path \in Path
                 /\ local'[b.path] = local[b.path] /\ remote'[b.path] = remote[b.path]
      <4>1. b.path \in Path /\ At(b, b.path)
        BY <2>1 DEF At
      <4>2. ~At(a, b.path)
        BY <2>1, <3>1, <3>3, <4>1 DEF Apart
      <4> QED
        BY <3>2, <4>1, <4>2
    <3>4. \A b \in todo'[r] : Due(b)'
      <4> SUFFICES ASSUME NEW b \in todo[r], b # a
                   PROVE  Due(b)'
        BY <3>1
      <4>1. b \in actions[r] /\ Due(b)
        BY <2>1
      <4> QED
        BY <3>3, <4>1 DEF Due, InSync
    <3>5. \A b \in Done(r)' : b.op # "Conflict" => InSync(b.path)'
      <4> SUFFICES ASSUME NEW b \in Done(r), b # a, b.op # "Conflict"
                   PROVE  InSync(b.path)'
        BY <3>1, <3>2 DEF Done
      <4>1. b \in actions[r] /\ InSync(b.path)
        BY <2>1 DEF Done
      <4> QED
        BY <3>3, <4>1 DEF InSync
    <3>6. ASSUME NEW p \in Path, Spared(p, actions[r])
          PROVE  InSync(p)' \/ LeftToRemote(p)'
      <4>1. UNCHANGED <<local[p], remote[p], catalog[p]>>
        BY <3>1, <3>2, <3>6 DEF Spared
      <4>2. InSync(p) \/ LeftToRemote(p)
        BY <2>2, <3>1, <3>6
      <4> QED
        BY <4>1, <4>2 DEF InSync, LeftToRemote, LocalItem, RemoteItem
    <3> QED
      BY <2>1, <3>1, <3>4, <3>5, <3>6 DEF SettleInv, Apart, Spared
  <2> QED
    BY <1>3, <2>4, <2>5, <2>6, <2>7, ExecuteCases DEF Advances
<1> QED
  BY <1>1, <1>2, <1>3, QuietCases

LEMMA SettleAlways ==
  ASSUME Quiet
  PROVE  Spec => []SettleInv
<1>1. Init => SettleInv
  BY DEF Init, SettleInv, Apart, Done
<1>2. TypeOK /\ QuietInv /\ UnchangedMeansEqual /\ SettleInv /\ [Next]_vars => SettleInv'
  BY SettleStep
<1> QED
  BY <1>1, <1>2, QuietAlways, QuietUndisturbed, UnchangedIsEqual, PTL DEF Spec

(* When a cycle that nothing disturbs has gone through its plan, every path is
   in sync, or it is one that the plan cannot settle: a conflict, a file that a
   one-way mode leaves to the remote, or the target of a detected move, which
   compares sizes and names only.  So it is for any number of paths, in every
   mode, under every policy, with and without checksums, server-side moves and
   dry runs, whatever users and other devices did before (planner.rs:43-186,
   executor.rs:38). *)
THEOREM CyclesSettle ==
  ASSUME Quiet
  PROVE  Spec => []PathsSettle
<1>1. SettleInv => PathsSettle
  <2> SUFFICES ASSUME SettleInv, NEW r \in Cycle, Ran(r), NEW p \in Path,
                      NEW a \in actions[r], At(a, p), ~InSync(p)
               PROVE  \/ a.op = "Conflict" /\ a.path = p
                      \/ a.op = "ServerSideMove" /\ a.to = p
    BY DEF PathsSettle, SettleInv, Spared, Ran
  <2>1. a.op # "Conflict" => InSync(a.path)
    BY DEF SettleInv, Ran, Done
  <2> QED
    BY <2>1 DEF At
<1> QED
  BY <1>1, SettleAlways, PTL

(* While the engine alone writes to a simulated backend without moves, every
   cycle that nothing disturbs makes the remote a copy of the local side, for
   any number of paths, in every mode and under every policy; in
   OneWayNoDeletions the remote also keeps what its user has deleted.  This is
   the safety half of RemoteMirrorsLocal: one cycle is enough. *)
THEOREM CyclesMirror ==
  ASSUME Quiet, PreservesMtime, ~ServerSideMove
  PROVE  Spec => []RemoteIsACopy
<1>1. CASE RemoteEdits
  <2>1. RemoteIsACopy
    BY <1>1 DEF RemoteIsACopy
  <2> QED
    BY <2>1, PTL
<1>2. CASE ~RemoteEdits
  <2>1. TypeOK /\ SettleInv /\ MirrorInv => RemoteIsACopy
    <3> SUFFICES ASSUME TypeOK, SettleInv, MirrorInv, NEW r \in Cycle, Ran(r),
                        NEW p \in Path, ~InSync(p)
                 PROVE  Mode = "OneWayNoDeletions" /\ local[p] = Absent
      BY DEF RemoteIsACopy
    <3>1. Spared(p, actions[r]) /\ \A a \in actions[r] : a.path # p
      <4>1. \A a \in actions[r] : /\ Mirroring(a)
                                  /\ a.op # "Conflict" => InSync(a.path)
        BY DEF MirrorInv, SettleInv, Ran, Done
      <4> QED
        BY <4>1 DEF Spared, At, Mirroring
    <3>2. LeftToRemote(p) /\ Matches(catalog[p], p)
      BY <3>1 DEF SettleInv, MirrorInv, Executed, Ran
    <3>3. CASE local[p] # Absent
      BY <3>2, <3>3 DEF LeftToRemote, Matches
    <3>4. CASE local[p] = Absent
      BY <3>2, <3>4, PlannerAssumption DEF LeftToRemote, Matches, Modes
    <3> QED
      BY <3>3, <3>4
  <2> QED
    BY <1>2, <2>1, TypeCorrect, SettleAlways, MirrorAlways, PTL
<1> QED
  BY <1>1, <1>2

=============================================================================
