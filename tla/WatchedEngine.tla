--------------------------- MODULE WatchedEngine ---------------------------
(***************************************************************************)
(* The daemon as main.rs composes it: the watcher and the periodic cycle   *)
(* share the watched directory and the backend.  Every change of a local   *)
(* file, by a user or by a cycle, is an event of the watcher; the uploads  *)
(* and deletions of the watcher are changes of the remote for the engine,  *)
(* whose catalog does not learn of them.                                   *)
(***************************************************************************)
EXTENDS SyncEngine, Sequences

CONSTANTS Task, MaxAttempts, MaxFaults

VARIABLES events, job, paused, faults, missed, version

W == INSTANCE Watcher WITH SyncDeletions <- sync_deletions

dvars == <<vars, W!watched>>

DInit == Init /\ W!WInit

DTypeOK == TypeOK /\ W!TypeOK

-----------------------------------------------------------------------------

\* A change of a local file is an event; the name events of a rename are not.
Noticed ==
  /\ \/ UNCHANGED <<local, events>>
     \/ \E p \in Path :
          /\ local'[p] # local[p]
          /\ W!Notices(IF local'[p] = Absent THEN "Remove" ELSE "Modify", p)
  /\ UNCHANGED <<job, paused, faults, missed, version>>

UserChanges ==
  \/ \E p \in Path, c \in Content :
       (UserWritesLocal(p, c) \/ UserWritesRemote(p, c)) /\ Noticed
  \/ \E p \in Path : (UserDeletesLocal(p) \/ UserDeletesRemote(p)) /\ Noticed
  \/ \E p, q \in Path : UserRenamesLocal(p, q) /\ UNCHANGED W!watched

\* The loop skips a cycle that would begin while the daemon is paused.
EngineMoves ==
  \E r \in Cycle :
    /\ pc[r] = "idle" => ~paused
    /\ Advances(r) \/ ScanFails(r)
    /\ Noticed

WatcherMoves ==
  /\ W!Handles \/ \E t \in Task : W!Runs(t)
  /\ UNCHANGED <<catalog, runner, ghosts>>

CommandsArrive ==
  /\ W!PausesOrResumes
  /\ UNCHANGED vars

DNext == UserChanges \/ EngineMoves \/ WatcherMoves \/ CommandsArrive

DSpec == DInit /\ [][DNext]_dvars

-----------------------------------------------------------------------------
(* Properties. *)

(* Nobody but this daemon writes to the remote, and no cycle runs while a file
   is edited: then no cycle plans a conflict for a file that is the same on both
   sides, whichever of its two parts has uploaded it (STATE_AND_STORAGE.md:58
   knows conflicts for "Modified | Modified" only). *)
DaemonNeverConflictsWithItself ==
  [][\A r \in Cycle : \A a \in actions'[r] \ actions[r] :
       a.op = "Conflict" => local[a.path].content # remote[a.path].content]_dvars

=============================================================================
