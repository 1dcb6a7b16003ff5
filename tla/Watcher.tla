------------------------------ MODULE Watcher ------------------------------
(***************************************************************************)
(* The file system watcher of the daemon (watcher.rs): the main loop takes *)
(* one event after the other from the channel and spawns a task for it.    *)
(* Tasks run concurrently; uploads of one file take turns under a lock,    *)
(* deletions do not.  The watcher neither reads nor writes the catalog.    *)
(*                                                                         *)
(* One backend.  A write of the user is one event; a rename is none: the   *)
(* events Modify(Name) fall through to `_ => {}`.                          *)
(***************************************************************************)
EXTENDS Integers, Sequences

CONSTANTS
  Path,
  Content,
  Absent,          \* no such file
  Task,            \* bound: the tasks that can be running at a time
  MaxAttempts,     \* MAX_SYNC_ATTEMPTS
  PreservesMtime,  \* the backend copies the local mtime (LocalSimulator)
  SyncDeletions,   \* policy.sync_deletions() of the backend
  MaxEdits,        \* bound: users write only while clock < MaxEdits
  MaxFaults        \* bound: how many backend calls fail

File == [content : Content, modified : Nat]
FileTree == [Path -> File \union {Absent}]

ASSUME WatcherAssumption ==
  /\ Absent \notin File
  /\ MaxAttempts \in Nat \ {0}
  /\ {PreservesMtime, SyncDeletions} \subseteq BOOLEAN
  /\ MaxEdits \in Nat
  /\ MaxFaults \in Nat

VARIABLES
  local,      \* files below watch_dir
  remote,     \* files of the backend
  clock,      \* the latest modification time handed out
  events,     \* the channel from notify to the main loop
  job,        \* job[t]: what the spawned task t is doing
  paused,     \* DaemonState.paused
  faults,     \* how many backend calls have failed
  \* History: the paths that a user deleted or that changed while paused, and
  \* the time of the version that was last uploaded of each path.
  missed, version

watched == <<events, job, paused, faults, missed, version>>
vars == <<local, remote, clock, watched>>

Event == [kind : {"Modify", "Remove"}, path : Path]

\* at: "waiting" for the lock, "ready" and "sending" with the lock,
\* "deleting" without one.
Free == [at |-> "free"]
Waiting(p) == [at |-> "waiting", path |-> p]
Ready(p, n) == [at |-> "ready", path |-> p, tries |-> n]
Sending(p, n, f) == [at |-> "sending", path |-> p, tries |-> n, file |-> f]
Deleting(p) == [at |-> "deleting", path |-> p]

Job ==
  {Free}
    \union [at : {"waiting", "deleting"}, path : Path]
    \union [at : {"ready"}, path : Path, tries : 1..MaxAttempts]
    \union [at : {"sending"}, path : Path, tries : 1..MaxAttempts, file : File]

TypeOK ==
  /\ local \in FileTree
  /\ remote \in FileTree
  /\ clock \in Nat
  /\ events \in Seq(Event)
  /\ job \in [Task -> Job]
  /\ paused \in BOOLEAN
  /\ faults \in 0..MaxFaults
  /\ missed \subseteq Path
  /\ version \in [Path -> Nat]

WInit ==
  /\ events = <<>>
  /\ job = [t \in Task |-> Free]
  /\ paused = FALSE
  /\ faults = 0
  /\ missed = {}
  /\ version = [p \in Path |-> 0]

Init ==
  /\ local = [p \in Path |-> Absent]
  /\ remote = [p \in Path |-> Absent]
  /\ clock = 0
  /\ WInit

-----------------------------------------------------------------------------
(* The user, and the pause and resume commands. *)

Notices(kind, p) == events' = Append(events, [kind |-> kind, path |-> p])

UserWrites(p, c) ==
  /\ clock < MaxEdits
  /\ clock' = clock + 1
  /\ local' = [local EXCEPT ![p] = [content |-> c, modified |-> clock + 1]]
  /\ Notices("Modify", p)
  /\ UNCHANGED <<remote, job, paused, faults, missed, version>>

UserDeletes(p) ==
  /\ local[p] # Absent
  /\ local' = [local EXCEPT ![p] = Absent]
  /\ Notices("Remove", p)
  /\ missed' = missed \union {p}
  /\ UNCHANGED <<remote, clock, job, paused, faults, version>>

PausesOrResumes ==
  /\ paused' = ~paused
  /\ UNCHANGED <<local, remote, clock, events, job, faults, missed, version>>

-----------------------------------------------------------------------------
(* handle_event *)

Spawns(j) ==
  \E t \in Task : job[t] = Free /\ job' = [job EXCEPT ![t] = j]

DropsWhilePaused ==
  /\ paused
  /\ missed' = missed \union {Head(events).path}
  /\ UNCHANGED job

HandlesModify ==
  /\ ~paused
  /\ Head(events).kind = "Modify"
  /\ IF local[Head(events).path] = Absent
       THEN UNCHANGED job
       ELSE Spawns(Waiting(Head(events).path))
  /\ UNCHANGED missed

HandlesRemove ==
  /\ ~paused
  /\ Head(events).kind = "Remove"
  /\ IF SyncDeletions THEN Spawns(Deleting(Head(events).path)) ELSE UNCHANGED job
  /\ UNCHANGED missed

Handles ==
  /\ events # <<>>
  /\ events' = Tail(events)
  /\ DropsWhilePaused \/ HandlesModify \/ HandlesRemove
  /\ UNCHANGED <<local, remote, clock, paused, faults, version>>

-----------------------------------------------------------------------------
(* The tasks.  Between any two steps of a task everything else may happen: *)
(* it sleeps for the debounce delay, between its tries, and for as long as *)
(* a call takes.                                                           *)

Holds(t, p) == job[t].at \in {"ready", "sending"} /\ job[t].path = p

\* Slip: the uploads of one file do not take turns.
TakesNoLock(t) ==
  /\ job[t].at = "waiting"
  /\ job' = [job EXCEPT ![t] = Ready(job[t].path, MaxAttempts)]
  /\ UNCHANGED <<local, remote, clock, events, paused, faults, missed, version>>

TakesLock(t) ==
  /\ job[t].at = "waiting"
  /\ \A u \in Task : ~Holds(u, job[t].path)
  /\ job' = [job EXCEPT ![t] = Ready(job[t].path, MaxAttempts)]
  /\ UNCHANGED <<local, remote, clock, events, paused, faults, missed, version>>

UploadReads(t) ==
  /\ job[t].at = "ready"
  /\ local[job[t].path] # Absent
  /\ job' = [job EXCEPT ![t] = Sending(@.path, @.tries, local[@.path])]
  /\ UNCHANGED <<local, remote, clock, events, paused, faults, missed, version>>

\* The backend has the content that was read; a LocalSimulator gives it the
\* mtime that the local file has now.
UploadArrives(t) ==
  LET p == job[t].path
      keeps == PreservesMtime /\ local[p] # Absent
  IN  /\ job[t].at = "sending"
      /\ clock' = IF keeps THEN clock ELSE clock + 1
      /\ remote' = [remote EXCEPT ![p] =
                      [content |-> job[t].file.content,
                       modified |-> IF keeps THEN local[p].modified ELSE clock + 1]]
      /\ version' = [version EXCEPT ![p] = job[t].file.modified]
      /\ job' = [job EXCEPT ![t] = Free]
      /\ UNCHANGED <<local, events, paused, faults, missed>>

\* Slip: the last try is not made.
GivesUpEarly(j) == IF j.tries <= 2 THEN Free ELSE Ready(j.path, j.tries - 1)

\* `attempts -= 1`, and the loop goes on while it is positive.
TriesAgain(j) == IF j.tries = 1 THEN Free ELSE Ready(j.path, j.tries - 1)

\* The file is gone, or the call fails.
UploadFails(t) ==
  /\ \/ /\ job[t].at = "ready"
        /\ local[job[t].path] = Absent
        /\ UNCHANGED faults
     \/ /\ job[t].at = "sending"
        /\ faults < MaxFaults
        /\ faults' = faults + 1
  /\ job' = [job EXCEPT ![t] = TriesAgain(@)]
  /\ UNCHANGED <<local, remote, clock, events, paused, missed, version>>

DeleteArrives(t) ==
  /\ job[t].at = "deleting"
  /\ remote' = [remote EXCEPT ![job[t].path] = Absent]
  /\ job' = [job EXCEPT ![t] = Free]
  /\ UNCHANGED <<local, clock, events, paused, faults, missed, version>>

\* A deletion is tried once.
DeleteFails(t) ==
  /\ job[t].at = "deleting"
  /\ faults < MaxFaults
  /\ faults' = faults + 1
  /\ job' = [job EXCEPT ![t] = Free]
  /\ UNCHANGED <<local, remote, clock, events, paused, missed, version>>

Runs(t) ==
  \/ TakesLock(t) \/ UploadReads(t) \/ UploadArrives(t) \/ UploadFails(t)
  \/ DeleteArrives(t) \/ DeleteFails(t)

-----------------------------------------------------------------------------
UserStep == \E p \in Path : UserDeletes(p) \/ \E c \in Content : UserWrites(p, c)

Next ==
  \/ UserStep
  \/ PausesOrResumes
  \/ Handles
  \/ \E t \in Task : Runs(t)

Spec == Init /\ [][Next]_vars

\* The main loop takes the next event, the runtime runs every task, and every
\* call of a backend ends.
FairSpec == Spec /\ WF_vars(Handles) /\ \A t \in Task : WF_vars(Runs(t))

-----------------------------------------------------------------------------
(* Properties. *)

(* Uploads of a file reach the backend in the order in which it was written:
   an older version never arrives after a newer one, whatever is retried
   (watcher.rs:297 "Sequential lock to prevent concurrent uploads for the same
   file/backend"). *)
UploadsArriveInOrder ==
  [][\A p \in Path : version'[p] >= version[p]]_vars

(* The last version of every file reaches the backend, however many edits fall
   into the debounce delay or into the upload of an earlier version, although
   MAX_SYNC_ATTEMPTS - 1 calls fail; except for files that the user deleted or
   wrote while the daemon was paused (watcher.rs:300-345). *)
EditsReachRemote ==
  <>[](\A p \in Path \ missed :
         local[p] # Absent =>
           remote[p] # Absent /\ remote[p].content = local[p].content)

=============================================================================
