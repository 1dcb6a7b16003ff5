--------------------------- MODULE WatcherProofs ---------------------------
(***************************************************************************)
(* Theorems about Watcher, for any paths, tasks and number of tries: the   *)
(* type invariant, and that the uploads of a file arrive in the order of   *)
(* its versions.  UploadsArriveInOrder says nothing of the uploads that    *)
(* are under way, so the invariant adds TakeTurns, which is what the lock  *)
(* is for, and InOrder: the version on the remote, the one being sent and  *)
(* the one in the watched directory are in the order of their times.       *)
(***************************************************************************)
EXTENDS Watcher, TLAPS

TakeTurns ==
  \A t, u \in Task : \A p \in Path : Holds(t, p) /\ Holds(u, p) => t = u

NewestAt(p) ==
  /\ version[p] <= clock
  /\ local[p] # Absent =>
       version[p] <= local[p].modified /\ local[p].modified <= clock

LocalIsNewest == \A p \in Path : NewestAt(p)

SentAt(t) ==
  job[t].at = "sending" =>
    /\ version[job[t].path] <= job[t].file.modified
    /\ job[t].file.modified <= clock
    /\ local[job[t].path] # Absent =>
         job[t].file.modified <= local[job[t].path].modified

SentInOrder == \A t \in Task : SentAt(t)

WatcherInv == TypeOK /\ TakeTurns /\ LocalIsNewest /\ SentInOrder

\* What a task is doing determines the fields that it has.
LEMMA JobShape ==
  ASSUME NEW j \in Job
  PROVE  /\ j.at \in {"free", "waiting", "deleting", "ready", "sending"}
         /\ j.at # "free" => j.path \in Path
         /\ j.at \in {"ready", "sending"} => j.tries \in 1..MaxAttempts
         /\ j.at = "sending" => j.file \in File
BY DEF Job, Free

LEMMA JobTypes ==
  ASSUME NEW p \in Path
  PROVE  /\ Free \in Job
         /\ Waiting(p) \in Job
         /\ Deleting(p) \in Job
         /\ \A n \in 1..MaxAttempts : Ready(p, n) \in Job
         /\ \A n \in 1..MaxAttempts, f \in File : Sending(p, n, f) \in Job
BY DEF Job, Free, Waiting, Deleting, Ready, Sending

\* A task that has tries left goes back to its next try.
LEMMA TriesAgainType ==
  ASSUME NEW j \in Job, j.at \in {"ready", "sending"}
  PROVE  /\ TriesAgain(j) \in Job
         /\ TriesAgain(j) = Free \/ (TriesAgain(j).at = "ready" /\ TriesAgain(j).path = j.path)
<1>1. j.path \in Path /\ j.tries \in 1..MaxAttempts
  BY JobShape
<1>2. CASE j.tries = 1
  BY <1>1, <1>2, JobTypes DEF TriesAgain
<1>3. CASE j.tries # 1
  <2>1. j.tries - 1 \in 1..MaxAttempts
    BY <1>1, <1>3, WatcherAssumption
  <2>2. TriesAgain(j) = Ready(j.path, j.tries - 1)
    BY <1>3 DEF TriesAgain
  <2> QED
    BY <1>1, <2>1, <2>2, JobTypes DEF Ready
<1> QED
  BY <1>2, <1>3

-----------------------------------------------------------------------------
(* The user, the commands and the main loop. *)

LEMMA InitEstablishes == Init => WatcherInv
<1> SUFFICES ASSUME Init PROVE WatcherInv
  OBVIOUS
<1> USE DEF Init, WInit
<1>1. \A t \in Task : job[t] = Free /\ Free.at = "free"
  BY DEF Free
<1>2. TypeOK
  <2>1. Free \in Job
    BY DEF Job
  <2>2. events \in Seq(Event)
    OBVIOUS
  <2>3. faults \in 0..MaxFaults
    BY WatcherAssumption
  <2>4. local \in FileTree /\ remote \in FileTree
    BY DEF FileTree
  <2>5. version \in [Path -> Nat] /\ job \in [Task -> Job]
    BY <2>1
  <2> QED
    BY <2>2, <2>3, <2>4, <2>5 DEF TypeOK
<1>3. TakeTurns /\ LocalIsNewest /\ SentInOrder
  BY <1>1 DEF TakeTurns, Holds, LocalIsNewest, NewestAt, SentInOrder, SentAt
<1> QED
  BY <1>2, <1>3 DEF WatcherInv

LEMMA UserWritesKeeps ==
  ASSUME NEW p \in Path, NEW c \in Content, WatcherInv, UserWrites(p, c)
  PROVE  WatcherInv'
<1> USE DEF WatcherInv, TypeOK, UserWrites, Notices
<1> DEFINE new == [content |-> c, modified |-> clock + 1]
<1>1. new \in File /\ new # Absent /\ local' = [local EXCEPT ![p] = new]
  BY WatcherAssumption DEF File
<1> HIDE DEF new
<1>2. new.modified = clock + 1
  BY DEF new
<1>3. TypeOK'
  <2>1. events' \in Seq(Event)
    BY DEF Event
  <2>2. clock' \in Nat /\ local' \in FileTree
    BY <1>1 DEF FileTree
  <2> QED
    BY <2>1, <2>2
<1>4. TakeTurns'
  BY DEF TakeTurns, Holds
<1>5. ASSUME NEW q \in Path PROVE NewestAt(q)'
  <2>1. NewestAt(q)
    BY DEF LocalIsNewest
  <2>2. CASE q = p
    BY <1>1, <1>2, <2>1, <2>2 DEF NewestAt, FileTree
  <2>3. CASE q # p
    <3>1. local'[q] = local[q] /\ local[q] \in File \union {Absent}
      BY <1>1, <2>3 DEF FileTree
    <3> QED
      BY <2>1, <3>1 DEF NewestAt, File
  <2> QED
    BY <2>2, <2>3
<1>6. ASSUME NEW t \in Task PROVE SentAt(t)'
  <2> SUFFICES ASSUME job[t].at = "sending" PROVE SentAt(t)'
    BY DEF SentAt
  <2>1. job[t].path \in Path /\ job[t].file \in File /\ SentAt(t)
    BY JobShape DEF SentInOrder
  <2>2. local'[job[t].path] = IF job[t].path = p THEN new ELSE local[job[t].path]
    BY <1>1, <2>1 DEF FileTree
  <2> QED
    BY <1>2, <2>1, <2>2 DEF SentAt, File
<1> QED
  BY <1>3, <1>4, <1>5, <1>6 DEF LocalIsNewest, SentInOrder

LEMMA UserDeletesKeeps ==
  ASSUME NEW p \in Path, WatcherInv, UserDeletes(p)
  PROVE  WatcherInv'
<1> USE DEF WatcherInv, TypeOK, UserDeletes, Notices
<1>1. TypeOK'
  <2>1. events' \in Seq(Event)
    BY DEF Event
  <2>2. local' \in FileTree
    BY DEF FileTree
  <2> QED
    BY <2>1, <2>2
<1>2. TakeTurns'
  BY DEF TakeTurns, Holds
<1>3. \A q \in Path : local'[q] = local[q] \/ local'[q] = Absent
  BY DEF FileTree
<1>4. LocalIsNewest'
  BY <1>3 DEF LocalIsNewest, NewestAt
<1>5. ASSUME NEW t \in Task PROVE SentAt(t)'
  BY <1>3, JobShape DEF SentInOrder, SentAt
<1> QED
  BY <1>1, <1>2, <1>4, <1>5 DEF SentInOrder

-----------------------------------------------------------------------------
(* The tasks. *)

\* A task that neither begins nor ends a transfer, and that does not come to
\* hold a lock that another one holds, disturbs no order.
LEMMA JobMoves ==
  ASSUME WatcherInv, NEW t \in Task, NEW j \in Job,
         job' = [job EXCEPT ![t] = j],
         UNCHANGED <<local, clock, version>>,
         j.at # "sending",
         j.at = "ready" => \A u \in Task \ {t} : ~Holds(u, j.path)
  PROVE  job' \in [Task -> Job] /\ TakeTurns' /\ LocalIsNewest' /\ SentInOrder'
<1> USE DEF WatcherInv, TypeOK
<1>1. \A u \in Task : job'[u] = IF u = t THEN j ELSE job[u]
  OBVIOUS
<1>2. TakeTurns'
  BY <1>1 DEF TakeTurns, Holds
<1>3. LocalIsNewest'
  BY DEF LocalIsNewest, NewestAt
<1>4. SentInOrder'
  BY <1>1 DEF SentInOrder, SentAt
<1> QED
  BY <1>2, <1>3, <1>4

LEMMA HandlesKeeps ==
  ASSUME WatcherInv, Handles
  PROVE  WatcherInv'
<1> USE DEF WatcherInv, TypeOK, Handles
<1> DEFINE p == Head(events).path
<1>1. Head(events) \in Event /\ p \in Path /\ Tail(events) \in Seq(Event)
  <2>1. Head(events) \in Event /\ Tail(events) \in Seq(Event)
    OBVIOUS
  <2> QED
    BY <2>1 DEF Event
<1> HIDE DEF p
<1>2. events' \in Seq(Event) /\ missed' \subseteq Path
  BY <1>1 DEF DropsWhilePaused, HandlesModify, HandlesRemove, p
<1>3. CASE UNCHANGED job
  <2>1. TakeTurns' /\ LocalIsNewest' /\ SentInOrder'
    BY <1>3 DEF TakeTurns, Holds, LocalIsNewest, NewestAt, SentInOrder, SentAt
  <2> QED
    BY <1>2, <1>3, <2>1
<1>4. ASSUME NEW t \in Task, NEW j \in {Waiting(p), Deleting(p)},
             job' = [job EXCEPT ![t] = j]
      PROVE  WatcherInv'
  <2>1. j \in Job /\ j.at \in {"waiting", "deleting"}
    <3>1. Waiting(p) \in Job /\ Deleting(p) \in Job
      BY <1>1, JobTypes
    <3> QED
      BY <1>4, <3>1 DEF Waiting, Deleting
  <2>2. job' \in [Task -> Job] /\ TakeTurns' /\ LocalIsNewest' /\ SentInOrder'
    BY <1>4, <2>1, JobMoves
  <2> QED
    BY <1>2, <2>2
<1> QED
  BY <1>3, <1>4 DEF DropsWhilePaused, HandlesModify, HandlesRemove, Spawns, p

LEMMA TakesLockKeeps ==
  ASSUME NEW t \in Task, WatcherInv, TakesLock(t)
  PROVE  WatcherInv'
<1> USE DEF WatcherInv, TypeOK, TakesLock
<1> DEFINE j == Ready(job[t].path, MaxAttempts)
<1>1. job[t].path \in Path
  BY JobShape
<1>2. j \in Job /\ j.at = "ready" /\ j.path = job[t].path
  BY <1>1, JobTypes, WatcherAssumption DEF Ready
<1>3. job' \in [Task -> Job] /\ TakeTurns' /\ LocalIsNewest' /\ SentInOrder'
  <2> HIDE DEF j
  <2>1. job' = [job EXCEPT ![t] = j]
    BY DEF j
  <2> QED
    BY <1>2, <2>1, JobMoves
<1> QED
  BY <1>3

LEMMA UploadReadsKeeps ==
  ASSUME NEW t \in Task, WatcherInv, UploadReads(t)
  PROVE  WatcherInv'
<1> USE DEF WatcherInv, TypeOK, UploadReads
<1> DEFINE p == job[t].path
           j == Sending(p, job[t].tries, local[p])
<1>1. p \in Path /\ job[t].tries \in 1..MaxAttempts
  BY JobShape
<1>2. local[p] \in File
  BY <1>1 DEF FileTree
<1>3. j \in Job
  BY <1>1, <1>2, JobTypes
<1>4. j.at = "sending" /\ j.path = p /\ j.file = local[p]
  BY DEF Sending
<1>5. job' = [job EXCEPT ![t] = j]
  OBVIOUS
<1> HIDE DEF j
<1>6. \A u \in Task : job'[u] = IF u = t THEN j ELSE job[u]
  BY <1>5
<1>7. job' \in [Task -> Job]
  BY <1>3, <1>5
<1>8. TakeTurns'
  BY <1>4, <1>6 DEF TakeTurns, Holds
<1>9. LocalIsNewest'
  BY DEF LocalIsNewest, NewestAt
<1>10. ASSUME NEW u \in Task PROVE SentAt(u)'
  <2>1. CASE u = t
    <3>1. NewestAt(p) /\ local[p].modified \in Nat
      BY <1>1, <1>2 DEF LocalIsNewest, File
    <3> QED
      BY <1>4, <1>6, <2>1, <3>1 DEF SentAt, NewestAt
  <2>2. CASE u # t
    BY <1>6, <2>2 DEF SentInOrder, SentAt
  <2> QED
    BY <2>1, <2>2
<1> QED
  BY <1>7, <1>8, <1>9, <1>10 DEF SentInOrder

\* The version that arrives is not older than the last one, and no other one of
\* the same file is on its way.
LEMMA UploadArrivesKeeps ==
  ASSUME NEW t \in Task, WatcherInv, UploadArrives(t)
  PROVE  WatcherInv' /\ \A q \in Path : version'[q] >= version[q]
<1> USE DEF WatcherInv, TypeOK, UploadArrives
<1> DEFINE p == job[t].path
<1>1. p \in Path /\ job[t].file \in File /\ SentAt(t)
  BY JobShape DEF SentInOrder
<1>2. version[p] <= job[t].file.modified /\ job[t].file.modified <= clock
  BY <1>1 DEF SentAt
<1>3. job[t].file.modified \in Nat /\ job[t].file.content \in Content
  BY <1>1 DEF File
<1>4. clock' \in Nat /\ clock <= clock'
  OBVIOUS
<1>5. \A q \in Path : version'[q] = IF q = p THEN job[t].file.modified ELSE version[q]
  OBVIOUS
<1>6. \A u \in Task : job'[u] = IF u = t THEN Free ELSE job[u]
  OBVIOUS
<1>7. TypeOK'
  <2>1. job' \in [Task -> Job]
    BY DEF Job
  <2>2. version' \in [Path -> Nat]
    BY <1>3
  <2>3. remote' \in FileTree
    <3>1. local[p] # Absent => local[p].modified \in Nat
      BY <1>1 DEF FileTree, File
    <3> DEFINE m == IF PreservesMtime /\ local[p] # Absent
                      THEN local[p].modified ELSE clock + 1
    <3>2. m \in Nat /\ remote' =
            [remote EXCEPT ![p] = [content |-> job[t].file.content, modified |-> m]]
      BY <3>1
    <3> HIDE DEF m
    <3>3. [content |-> job[t].file.content, modified |-> m] \in File
      BY <1>3, <3>2 DEF File
    <3> QED
      BY <1>1, <3>2, <3>3 DEF FileTree
  <2> QED
    BY <1>4, <2>1, <2>2, <2>3
<1>8. TakeTurns'
  BY <1>6 DEF TakeTurns, Holds, Free
<1>9. ASSUME NEW q \in Path PROVE NewestAt(q)'
  <2>1. NewestAt(q) /\ (local[q] # Absent => local[q].modified \in Nat)
    BY DEF LocalIsNewest, FileTree, File
  <2> HIDE DEF p
  <2>2. q = p => version'[q] = job[t].file.modified
                 /\ (local[q] # Absent => job[t].file.modified <= local[q].modified)
    BY <1>1, <1>5 DEF SentAt, p
  <2>3. q # p => version'[q] = version[q]
    BY <1>5
  <2> QED
    BY <1>2, <1>3, <1>4, <2>1, <2>2, <2>3 DEF NewestAt
<1>10. ASSUME NEW u \in Task PROVE SentAt(u)'
  <2> SUFFICES ASSUME u # t, job[u].at = "sending" PROVE SentAt(u)'
    BY <1>6 DEF SentAt, Free
  <2>1. job[u].path \in Path /\ job[u].file.modified \in Nat /\ SentAt(u)
    BY JobShape DEF SentInOrder, File
  <2>2. job[u].path # p
    BY <1>1, <2>1 DEF TakeTurns, Holds
  <2>3. version'[job[u].path] = version[job[u].path] /\ job'[u] = job[u]
    BY <1>5, <1>6, <2>1, <2>2
  <2> QED
    BY <1>4, <2>1, <2>3 DEF SentAt
<1>11. \A q \in Path : version'[q] >= version[q]
  BY <1>2, <1>3, <1>5
<1> QED
  BY <1>7, <1>8, <1>9, <1>10, <1>11 DEF LocalIsNewest, SentInOrder

LEMMA UploadFailsKeeps ==
  ASSUME NEW t \in Task, WatcherInv, UploadFails(t)
  PROVE  WatcherInv'
<1> USE DEF WatcherInv, TypeOK, UploadFails
<1> DEFINE j == TriesAgain(job[t])
<1>1. job[t] \in Job /\ job[t].at \in {"ready", "sending"} /\ job[t].path \in Path
  BY JobShape
<1>2. j \in Job /\ (j = Free \/ (j.at = "ready" /\ j.path = job[t].path))
  BY <1>1, TriesAgainType
<1>3. job' = [job EXCEPT ![t] = j]
  OBVIOUS
<1> HIDE DEF j
<1>4. j.at # "sending" /\ (j.at = "ready" => j.path = job[t].path)
  BY <1>2 DEF Free
<1>5. \A u \in Task \ {t} : ~Holds(u, job[t].path)
  BY <1>1 DEF TakeTurns, Holds
<1>6. job' \in [Task -> Job] /\ TakeTurns' /\ LocalIsNewest' /\ SentInOrder'
  BY <1>2, <1>3, <1>4, <1>5, JobMoves
<1>7. faults' \in 0..MaxFaults
  BY WatcherAssumption
<1> QED
  BY <1>6, <1>7

LEMMA DeletesKeep ==
  ASSUME NEW t \in Task, WatcherInv, DeleteArrives(t) \/ DeleteFails(t)
  PROVE  WatcherInv'
<1> USE DEF WatcherInv, TypeOK, DeleteArrives, DeleteFails
<1>1. Free \in Job /\ Free.at = "free"
  BY DEF Free, Job
<1>2. job' \in [Task -> Job] /\ TakeTurns' /\ LocalIsNewest' /\ SentInOrder'
  BY <1>1, JobMoves
<1>3. faults' \in 0..MaxFaults
  BY WatcherAssumption
<1>4. remote' \in FileTree
  BY DEF FileTree
<1> QED
  BY <1>2, <1>3, <1>4

-----------------------------------------------------------------------------
LEMMA WatcherInvariant == Spec => []WatcherInv
<1>1. WatcherInv /\ [Next]_vars => WatcherInv'
  <2> SUFFICES ASSUME WatcherInv, [Next]_vars PROVE WatcherInv'
    OBVIOUS
  <2>1. CASE UserStep
    BY <2>1, UserWritesKeeps, UserDeletesKeeps DEF UserStep
  <2>2. CASE PausesOrResumes \/ UNCHANGED vars
    BY <2>2 DEF PausesOrResumes, vars, watched, WatcherInv, TypeOK, TakeTurns,
                Holds, LocalIsNewest, NewestAt, SentInOrder, SentAt
  <2>3. CASE Handles
    BY <2>3, HandlesKeeps
  <2>4. ASSUME NEW t \in Task, Runs(t) PROVE WatcherInv'
    BY <2>4, TakesLockKeeps, UploadReadsKeeps, UploadArrivesKeeps,
       UploadFailsKeeps, DeletesKeep DEF Runs
  <2> QED
    BY <2>1, <2>2, <2>3, <2>4 DEF Next
<1> QED
  BY <1>1, InitEstablishes, PTL DEF Spec

(* Every reachable state is well typed: no task has tries left that the loop
   does not give it (watcher.rs:315). *)
THEOREM WatcherTypeCorrect == Spec => []TypeOK
BY WatcherInvariant, PTL DEF WatcherInv

(* An older version of a file never arrives after a newer one, for any number
   of files, tasks, edits, tries and failures (watcher.rs:309). *)
THEOREM UploadsKeepTheirOrder == Spec => UploadsArriveInOrder
<1>1. WatcherInv /\ [Next]_vars => [\A p \in Path : version'[p] >= version[p]]_vars
  <2> SUFFICES ASSUME WatcherInv, Next, NEW p \in Path
               PROVE  version'[p] >= version[p]
    OBVIOUS
  <2>1. CASE \E t \in Task : UploadArrives(t)
    BY <2>1, UploadArrivesKeeps
  <2>2. CASE UNCHANGED version
    BY <2>2 DEF WatcherInv, TypeOK
  <2> QED
    BY <2>1, <2>2 DEF Next, UserStep, UserWrites, UserDeletes, PausesOrResumes,
       Handles, Runs, TakesLock, UploadReads, UploadFails, DeleteArrives, DeleteFails
<1> QED
  BY <1>1, WatcherInvariant, PTL DEF Spec, UploadsArriveInOrder

=============================================================================
