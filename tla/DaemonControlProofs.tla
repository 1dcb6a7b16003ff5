------------------------- MODULE DaemonControlProofs -------------------------
(***************************************************************************)
(* Theorems about DaemonControl, for any backends, configurations,         *)
(* clients and tasks:                                                      *)
(*   - `syncing` means exactly one cycle that honours it.  Inductive is    *)
(*     that a process that has ended has no cycles, and that the backends  *)
(*     of a cycle are a list, also when it has visited some of them.       *)
(*   - the type invariant: what a cycle or the health check has still to   *)
(*     visit is the end of the list of some configuration.  Inductive is   *)
(*     that a health check under way has a backend to look at.             *)
(***************************************************************************)
EXTENDS DaemonControl, FiniteSetTheorems, SequenceTheorems, TLAPS

\* The cycles that honour the flag.
Idle == \A t \in Flagged : cycle[t] = None
Busy == \E t \in Flagged : cycle[t] # None /\ \A u \in Flagged \ {t} : cycle[u] = None

ControlType ==
  /\ host \in {"daemon", "app"}
  /\ backends \in Seq(Backend)
  /\ config \in Config \union {Broken, Missing}
  /\ cycle \in [Cycle -> Seq(Backend) \union {None, Begun}]

ControlInv ==
  /\ ControlType
  /\ ~alive => \A t \in Cycle : cycle[t] = None
  /\ ~cleared => IF syncing THEN Busy ELSE Idle

-----------------------------------------------------------------------------
LEMMA LoadedIsConfig ==
  ASSUME ControlType, config # Broken PROVE Loaded \in Config /\ BackendsOf(Loaded) \in Seq(Backend)
BY ControlAssumption, BackendsAssumption DEF ControlType, Loaded

LEMMA InitControl == Init => ControlInv
<1> SUFFICES ASSUME Init PROVE ControlInv
  OBVIOUS
<1>1. ControlType
  BY ControlAssumption, BackendsAssumption DEF Init, ControlType
<1>2. Idle
  BY DEF Init, Idle, Flagged, Cycle
<1> QED
  BY <1>1, <1>2 DEF Init, ControlInv

\* The mutex, the clients, the health check and the world do not matter.
LEMMA Aside ==
  ASSUME ControlInv, UNCHANGED <<host, alive, syncing, cycle, cleared>>,
         backends' \in Seq(Backend), config' \in Config \union {Broken, Missing}
  PROVE  ControlInv'
BY DEF ControlInv, ControlType, Idle, Busy, Flagged

LEMMA OutsideKeeps == ASSUME ControlInv, Outside PROVE ControlInv'
<1>1. ASSUME NEW f \in {Broken, Missing} \union Config, EditsConfig(f) PROVE ControlInv'
  BY <1>1, Aside DEF EditsConfig, fields, tasks, ControlInv, ControlType
<1>2. ASSUME NEW b \in Backend, BackendComesOrGoes(b) PROVE ControlInv'
  BY <1>2, Aside DEF BackendComesOrGoes, fields, tasks, ControlInv, ControlType
<1>3. ASSUME NEW r \in WindowRate \union {None}, WindowChanges(r) PROVE ControlInv'
  BY <1>3, Aside DEF WindowChanges, fields, tasks, ControlInv, ControlType
<1>4. ASSUME NEW cmd \in Command[host], Sends(cmd) PROVE ControlInv'
  BY <1>4, Aside DEF Sends, fields, tasks, ControlInv, ControlType
<1>5. CASE Starts
  <2>1. Loaded \in Config /\ BackendsOf(Loaded) \in Seq(Backend)
    BY <1>5, LoadedIsConfig DEF Starts, ControlInv
  <2>2. ControlType'
    BY <1>5, <2>1 DEF Starts, tasks, ControlInv, ControlType
  <2>3. Idle'
    BY <1>5 DEF Starts, tasks, ControlInv, Idle, Flagged, Cycle
  <2> QED
    BY <1>5, <2>2, <2>3 DEF Starts, ControlInv
<1> QED
  BY <1>1, <1>2, <1>3, <1>4, <1>5 DEF Outside

\* Commands that touch neither the flag nor a cycle.
LEMMA CommandsKeep ==
  ASSUME ControlInv, NEW c \in Client,
         \/ Asks(c) \/ PausesOrResumes(c) \/ Reloads(c) \/ Stops(c)
         \/ Resolves(c) \/ Clears(c) \/ Plans(c)
         \/ AppAsks(c) \/ AppPausesOrResumes(c) \/ AppResolves(c)
         \/ GetsConfig(c) \/ SavesConfig(c) \/ Calls(c) \/ Returns(c)
  PROVE  ControlInv'
<1> USE DEF ControlInv, ControlType, fields, tasks, world
<1>1. Fresh \in Config
  BY ControlAssumption
<1>2. CASE Asks(c) \/ GetsConfig(c)
  BY <1>1, <1>2, Aside DEF Asks, GetsConfig, LoadsConfig, Answers
<1>3. CASE PausesOrResumes(c) \/ AppPausesOrResumes(c)
  BY <1>3, Aside DEF PausesOrResumes, AppPausesOrResumes, Answers
<1>4. CASE Reloads(c)
  <2>1. backends' \in Seq(Backend)
    BY <1>4, LoadedIsConfig DEF Reloads
  <2> QED
    BY <1>1, <1>4, <2>1, Aside DEF Reloads, LoadsConfig, Answers
<1>5. CASE Stops(c)
  BY <1>5, Aside DEF Stops
<1>6. CASE Resolves(c) \/ Clears(c) \/ Plans(c) \/ AppResolves(c) \/ Calls(c)
  BY <1>6, Aside DEF Resolves, Clears, Plans, AppResolves, Calls, CallsBackends
<1>7. CASE AppAsks(c) \/ Returns(c)
  BY <1>7, Aside DEF AppAsks, Returns, Answers
<1>8. CASE SavesConfig(c)
  BY <1>8, Aside, BackendsAssumption DEF SavesConfig, Answers
<1> QED
  BY <1>2, <1>3, <1>4, <1>5, <1>6, <1>7, <1>8

\* A new cycle gets the list of the backends, or will read it.
LEMMA SyncKeeps ==
  ASSUME ControlInv, alive, NEW c \in Client,
         \/ host = "daemon" /\ Syncs(c)
         \/ host = "app" /\ AppSyncs(c)
  PROVE  ControlInv'
<1> USE DEF OnlySyncs, world
<1>1. CASE syncing
  BY <1>1, Aside DEF Syncs, AppSyncs, ControlInv, ControlType
<1>2. CASE ~syncing
  <2> DEFINE t == FreeTask
  <2>1. t \in Task /\ t \in Flagged
    BY ControlAssumption DEF FreeTask, Flagged, Cycle
  <2>2. PICK list \in Seq(Backend) \union {Begun} : cycle' = [cycle EXCEPT ![t] = list]
    BY <1>2 DEF Syncs, AppSyncs, ControlInv, ControlType
  <2>3. list # None
    BY ControlAssumption
  <2>4. ControlType'
    BY <2>1, <2>2 DEF Syncs, AppSyncs, ControlInv, ControlType, Cycle
  <2>5. ~cleared => Busy'
    <3> SUFFICES ASSUME ~cleared PROVE Busy'
      OBVIOUS
    <3>1. Idle
      BY <1>2 DEF ControlInv
    <3>2. \A u \in Flagged : cycle'[u] = IF u = t THEN list ELSE None
      BY <2>1, <2>2, <3>1 DEF Idle, ControlInv, ControlType, Flagged, Cycle
    <3>3. Flagged' = Flagged
      BY DEF Syncs, AppSyncs, Flagged
    <3> QED
      BY <2>1, <2>3, <3>2, <3>3 DEF Busy
  <2>6. alive' /\ syncing' = TRUE /\ cleared' = cleared
    BY <1>2 DEF Syncs, AppSyncs
  <2> QED
    BY <2>4, <2>5, <2>6 DEF ControlInv
<1> QED
  BY <1>1, <1>2

LEMMA AppStopsKeeps == ASSUME ControlInv, alive, NEW c \in Client, AppStops(c) PROVE ControlInv'
BY DEF AppStops, Answers, tasks, world, ControlInv, ControlType, Idle, Busy, Flagged

LEMMA ServesKeeps == ASSUME ControlInv, alive, NEW c \in Client, Serves(c) PROVE ControlInv'
BY CommandsKeep, SyncKeeps, AppStopsKeeps DEF Serves, handle_control_command, AppServes

\* The loop of the daemon honours no flag; that of the app starts when it is not set.
LEMMA WakesKeeps == ASSUME ControlInv, alive, Wakes \/ AppWakes PROVE ControlInv'
<1> USE DEF OnlyCycle, world
<1>1. "periodic" \in Cycle /\ "periodic" \notin Task
  BY ControlAssumption DEF Cycle
<1>2. CASE Wakes
  <2>1. ControlType'
    BY <1>1, <1>2 DEF Wakes, ControlInv, ControlType
  <2>2. \A t \in Flagged : cycle'[t] = cycle[t]
    BY <1>1, <1>2 DEF Wakes, ControlInv, ControlType, Flagged, Cycle
  <2> QED
    BY <1>2, <2>1, <2>2 DEF Wakes, ControlInv, Idle, Busy, Flagged
<1>3. CASE AppWakes
  <2>1. ControlType'
    BY <1>1, <1>3 DEF AppWakes, ControlInv, ControlType
  <2>2. \A t \in Cycle : cycle'[t] = IF t = "periodic" THEN Begun ELSE cycle[t]
    BY <1>1, <1>3 DEF AppWakes, ControlInv, ControlType
  <2>3. Flagged = Cycle /\ Flagged' = Cycle /\ Begun # None
    BY <1>3, ControlAssumption DEF AppWakes, Flagged
  <2>4. ~cleared => Busy'
    BY <1>1, <1>3, <2>2, <2>3 DEF AppWakes, ControlInv, Idle, Busy
  <2> QED
    BY <1>3, <2>1, <2>4 DEF AppWakes, ControlInv
<1> QED
  BY <1>2, <1>3

\* A cycle under way stays under way while it visits its backends.
LEMMA CyclesKeeps == ASSUME ControlInv, alive, NEW t \in Cycle, Cycles(t) PROVE ControlInv'
<1> USE DEF OnlyCycle, world
<1>1. ASSUME NEW list \in Seq(Backend), cycle[t] # None, cycle' = [cycle EXCEPT ![t] = list],
             UNCHANGED syncing, OnlyCycle
      PROVE  ControlInv'
  <2>1. list # None
    BY ControlAssumption
  <2>2. ControlType'
    BY <1>1 DEF ControlInv, ControlType
  <2>3. \A u \in Cycle : cycle'[u] # None <=> cycle[u] # None
    BY <1>1, <2>1 DEF ControlInv, ControlType
  <2>4. Flagged' = Flagged /\ Flagged \subseteq Cycle
    BY <1>1 DEF Flagged, Cycle
  <2> QED
    BY <1>1, <2>2, <2>3, <2>4 DEF ControlInv, Idle, Busy
<1>2. CASE ReadsBackends(t)
  BY <1>1, <1>2, ControlAssumption DEF ReadsBackends, ControlInv, ControlType
<1>3. CASE Visits(t)
  <2>1. cycle[t] \in Seq(Backend) /\ cycle[t] # <<>> /\ cycle[t] # None
    BY <1>3 DEF Visits, ControlInv, ControlType
  <2>2. Tail(cycle[t]) \in Seq(Backend)
    BY <2>1
  <2> QED
    BY <1>1, <1>3, <2>1, <2>2 DEF Visits
<1>4. CASE EndsCycle(t)
  <2>1. cycle[t] # None
    BY DEF Cycles
  <2>2. ControlType'
    BY <1>4 DEF EndsCycle, ControlInv, ControlType
  <2>3. \A u \in Cycle : cycle'[u] = IF u = t THEN None ELSE cycle[u]
    BY <1>4 DEF EndsCycle, ControlInv, ControlType
  <2>4. Flagged' = Flagged /\ Flagged \subseteq Cycle
    BY <1>4 DEF EndsCycle, Flagged, Cycle
  <2>5. CASE t \in Flagged
    <3>1. syncing' = FALSE
      BY <1>4, <2>5, ControlAssumption DEF EndsCycle, Flagged, Cycle
    <3>2. ~cleared => Idle'
      BY <2>1, <2>3, <2>4, <2>5 DEF ControlInv, Idle, Busy
    <3> QED
      BY <1>4, <2>2, <3>1, <3>2 DEF EndsCycle, ControlInv
  <2>6. CASE t \notin Flagged
    <3>1. UNCHANGED syncing
      BY <1>4, <2>6 DEF EndsCycle, Flagged, Cycle, ControlInv, ControlType
    <3>2. \A u \in Flagged : cycle'[u] = cycle[u]
      BY <2>3, <2>4, <2>6
    <3> QED
      BY <1>4, <2>2, <2>4, <3>1, <3>2 DEF EndsCycle, ControlInv, Idle, Busy
  <2> QED
    BY <2>5, <2>6
<1> QED
  BY <1>2, <1>3, <1>4 DEF Cycles

LEMMA OthersKeep ==
  ASSUME ControlInv, ChecksHealth \/ AdjustsRate \/ EventArrives \/ HandlesEvent
  PROVE  ControlInv'
BY Aside DEF ChecksHealth, HealthBegins, HealthLists, HealthRecords, OnlyHealth,
  AdjustsRate, OnlyLimiter, EventArrives, HandlesEvent, OnlyMain, Turn,
  fields, tasks, world, ControlInv, ControlType

LEMMA EndsKeeps == ASSUME ControlInv, Ends PROVE ControlInv'
<1>1. ControlType'
  BY DEF Ends, ControlInv, ControlType
<1>2. \A t \in Cycle : cycle'[t] = None
  BY DEF Ends
<1>3. Flagged' \subseteq Cycle
  BY DEF Flagged, Cycle
<1> QED
  BY <1>1, <1>2, <1>3 DEF Ends, ControlInv, Idle

LEMMA NextKeeps == ControlInv /\ [Next]_vars => ControlInv'
<1> SUFFICES ASSUME ControlInv, [Next]_vars PROVE ControlInv'
  OBVIOUS
<1>1. CASE UNCHANGED vars
  BY <1>1, Aside DEF vars, fields, clients, tasks, world, ControlInv, ControlType
<1>2. CASE Next
  BY <1>2, OutsideKeeps, ServesKeeps, CyclesKeeps, WakesKeeps, OthersKeep, EndsKeeps
    DEF Next, Exits, Dies
<1> QED
  BY <1>1, <1>2

LEMMA InvIsExact == ControlInv => SyncingIsExact
<1> SUFFICES ASSUME ControlInv, ~cleared
             PROVE  Cardinality({t \in Flagged : cycle[t] # None}) = IF syncing THEN 1 ELSE 0
  BY DEF SyncingIsExact
<1>1. CASE syncing
  <2>1. PICK t \in Flagged : cycle[t] # None /\ \A u \in Flagged \ {t} : cycle[u] = None
    BY <1>1 DEF ControlInv, Busy
  <2>2. {u \in Flagged : cycle[u] # None} = {t}
    BY <2>1
  <2> QED
    BY <1>1, <2>2, FS_Singleton
<1>2. CASE ~syncing
  <2>1. {u \in Flagged : cycle[u] # None} = {}
    BY <1>2 DEF ControlInv, Idle
  <2> QED
    BY <1>2, <2>1, FS_EmptySet
<1> QED
  BY <1>1, <1>2

(* While `syncing` is set exactly one cycle that honours it is under way, and none
   while it is not, whatever commands, reloads, deaths and restarts of the process
   come in between (control.rs:277), until the app clears it under a cycle. *)
THEOREM SyncingMeansOneCycle == Spec => []SyncingIsExact
<1>1. Spec => []ControlInv
  BY InitControl, NextKeeps, PTL DEF Spec
<1> QED
  BY <1>1, InvIsExact, PTL

-----------------------------------------------------------------------------
(* Type correctness. *)

\* The health check has a backend to look at when it has learnt something.
HealthInv ==
  /\ health # <<>>
  /\ verdict # None => health # None

ControlTypeInv == TypeOK /\ HealthInv

LEMMA NoneIsNoList == <<>> \in Seq(Backend) /\ None # <<>>
<1>1. <<>> \in Seq(Backend)
  OBVIOUS
<1> QED
  BY <1>1, ControlAssumption

LEMMA SuffixIs ==
  ASSUME NEW S, NEW s
  PROVE  s \in Suffixes(S) <=>
           \E l \in S : \E i \in 1..Len(l) + 1 : s = SubSeq(l, i, Len(l))
BY SMT DEF Suffixes

LEMMA ListsAreSeqs ==
  /\ Lists \subseteq Seq(Backend)
  /\ Suffixes(Lists) \subseteq Seq(Backend)
  /\ Lists \subseteq Suffixes(Lists)
<1>1. ASSUME NEW l \in Lists
      PROVE  l \in Seq(Backend)
  BY NoneIsNoList, BackendsAssumption DEF Lists
<1>2. ASSUME NEW s \in Suffixes(Lists)
      PROVE  s \in Seq(Backend)
  <2>1. PICK l \in Lists : \E i \in 1..Len(l) + 1 : s = SubSeq(l, i, Len(l))
    BY SuffixIs
  <2>2. PICK i \in 1..Len(l) + 1 : s = SubSeq(l, i, Len(l))
    BY <2>1
  <2>3. l \in Seq(Backend)
    BY <1>1
  <2>4. \A j \in i..Len(l) : l[j] \in Backend
    BY <2>3
  <2> QED
    BY <2>2, <2>3, <2>4, SubSeqProperties
<1>3. ASSUME NEW l \in Lists
      PROVE  l \in Suffixes(Lists)
  <2>1. l = SubSeq(l, 1, Len(l)) /\ 1 \in 1..Len(l) + 1
    BY <1>1, SubSeqFull
  <2> QED
    BY <2>1, SuffixIs
<1> QED
  BY <1>1, <1>2, <1>3

\* What is left of a list when its first backend has been visited.
LEMMA TailIsSuffix ==
  ASSUME NEW s \in Suffixes(Lists), s # <<>>
  PROVE  Tail(s) \in Suffixes(Lists) /\ Head(s) \in Backend
<1>1. PICK l \in Lists : \E i \in 1..Len(l) + 1 : s = SubSeq(l, i, Len(l))
  BY SuffixIs
<1>2. PICK i \in 1..Len(l) + 1 : s = SubSeq(l, i, Len(l))
  BY <1>1
<1>3. l \in Seq(Backend) /\ s \in Seq(Backend)
  BY ListsAreSeqs
<1>4. i \in 1..Len(l) /\ Len(l) \in i..Len(l)
  <2>1. Len(l) \in Nat /\ (i > Len(l) => s = <<>>)
    BY <1>2, <1>3, SubSeqEmpty
  <2> QED
    BY <2>1
<1>5. Tail(s) = SubSeq(l, i + 1, Len(l)) /\ i + 1 \in 1..Len(l) + 1
  BY <1>2, <1>3, <1>4, HeadTailOfSubSeq
<1>6. Tail(s) \in Suffixes(Lists)
  BY <1>5, SuffixIs
<1> QED
  BY <1>3, <1>6, HeadTailProperties

LEMMA RatesTyped ==
  ASSUME NEW f \in Config
  PROVE  /\ Default(f) \in Rate
         /\ Limiter(f) \in Rate \union {None}
         /\ MaxRate[f] \in Rate \union {None}
         /\ BackendsOf(f) \in Lists
BY ControlAssumption DEF Default, Limiter, Lists

LEMMA InitTyped == Init => ControlTypeInv
<1> SUFFICES ASSUME Init PROVE ControlTypeInv
  OBVIOUS
<1>1. started \in Config
  BY DEF Init
<1>2. limiter \in Rate \union {None} /\ backends \in Lists
  BY <1>1, RatesTyped DEF Init
<1>3. {alive, paused, syncing, cleared} \subseteq BOOLEAN
  BY DEF Init
<1> QED
  BY <1>1, <1>2, <1>3, NoneIsNoList, ControlAssumption DEF Init, ControlTypeInv, TypeOK, HealthInv

LEMMA OutsideTyped == ASSUME ControlTypeInv, Outside PROVE ControlTypeInv'
<1> USE DEF ControlTypeInv, TypeOK, HealthInv
<1>1. ASSUME NEW f \in {Broken, Missing} \union Config, EditsConfig(f) PROVE ControlTypeInv'
  BY <1>1, ControlAssumption DEF EditsConfig, Turn, fields, tasks, clients
<1>2. ASSUME NEW b \in Backend, BackendComesOrGoes(b) PROVE ControlTypeInv'
  BY <1>2, ControlAssumption DEF BackendComesOrGoes, Turn, fields, tasks, clients
<1>3. ASSUME NEW r \in WindowRate \union {None}, WindowChanges(r) PROVE ControlTypeInv'
  BY <1>3, ControlAssumption DEF WindowChanges, Turn, fields, tasks, clients
<1>4. ASSUME NEW cmd \in Command[host], Sends(cmd) PROVE ControlTypeInv'
  <2>1. PICK c \in Client : request' = [request EXCEPT ![c] = cmd]
    BY <1>4 DEF Sends
  <2>2. request' \in [Client -> Command[host'] \union {None}]
    BY <1>4, <2>1 DEF Sends
  <2> QED
    BY <1>4, <2>2, ControlAssumption DEF Sends, Turn, fields, tasks
<1>5. CASE Starts
  <2>1. Loaded \in Config
    BY <1>5, ControlAssumption DEF Starts, Loaded
  <2>2. backends' \in Lists /\ limiter' \in Rate \union {None}
    BY <1>5, <2>1, RatesTyped DEF Starts
  <2>3. {alive, paused, syncing, cleared}' \subseteq BOOLEAN
    BY <1>5 DEF Starts
  <2> QED
    BY <1>5, <2>1, <2>2, <2>3, ControlAssumption DEF Starts, Turn, clients, tasks
<1> QED
  BY <1>1, <1>2, <1>3, <1>4, <1>5 DEF Outside

\* What the commands that answer at once may change.
LEMMA AnswersTyped ==
  ASSUME ControlTypeInv, NEW c \in Client, Answers(c),
         paused' \in BOOLEAN, syncing' \in BOOLEAN, cleared' \in BOOLEAN,
         backends' \in Lists, limiter' \in Rate \union {None},
         config' \in Config \union {Broken, Missing}, lock' \in Client \union {None},
         UNCHANGED <<errors, window, down, turns>>
  PROVE  ControlTypeInv'
BY DEF ControlTypeInv, TypeOK, HealthInv, Answers, tasks

\* The backend calls of a command, to begin with or left.
LEMMA CallsTyped ==
  ASSUME ControlTypeInv, NEW c \in Client, NEW list \in Seq(Backend),
         CallsBackends(c, list), lock' \in Client \union {None}
  PROVE  ControlTypeInv'
BY DEF ControlTypeInv, TypeOK, HealthInv, CallsBackends, fields, tasks, world

LEMMA CommandsTyped ==
  ASSUME ControlTypeInv, NEW c \in Client, Serves(c)
  PROVE  ControlTypeInv'
<1>1. /\ backends \in Lists /\ backends \in Seq(Backend)
      /\ First(backends) \in Seq(Backend)
      /\ First(backends) \o First(backends) \in Seq(Backend)
  BY ListsAreSeqs DEF ControlTypeInv, TypeOK, First
<1>2. Fresh \in Config
  BY ControlAssumption
<1>3. CASE \/ Asks(c) \/ PausesOrResumes(c) \/ AppAsks(c) \/ AppPausesOrResumes(c)
           \/ GetsConfig(c) \/ AppStops(c)
  BY <1>2, <1>3, AnswersTyped
     DEF Asks, PausesOrResumes, AppAsks, AppPausesOrResumes, GetsConfig, AppStops,
         LoadsConfig, fields, world, ControlTypeInv, TypeOK
<1>4. CASE Reloads(c)
  <2>1. Loaded \in Config \union {Broken}
    BY <1>2, ControlAssumption DEF Loaded, ControlTypeInv, TypeOK
  <2>2. config # Broken => Loaded \in Config
    BY <1>2, ControlAssumption DEF Loaded, ControlTypeInv, TypeOK
  <2>3. backends' \in Lists /\ limiter' \in Rate \union {None}
    BY <1>4, <2>2, RatesTyped DEF Reloads, ControlTypeInv, TypeOK
  <2> QED
    BY <1>2, <1>4, <2>3, AnswersTyped DEF Reloads, LoadsConfig, ControlTypeInv, TypeOK
<1>5. CASE SavesConfig(c)
  <2>1. backends' \in Lists
    BY <1>5, RatesTyped DEF SavesConfig
  <2> QED
    BY <1>5, <2>1, AnswersTyped DEF SavesConfig, ControlTypeInv, TypeOK
<1>6. CASE Syncs(c) \/ AppSyncs(c)
  <2>1. cycle' \in [Cycle -> Suffixes(Lists) \union {None, Begun}]
    BY <1>1, <1>6, ListsAreSeqs DEF Syncs, AppSyncs, ControlTypeInv, TypeOK
  <2> QED
    BY <1>6, <2>1
       DEF Syncs, AppSyncs, OnlySyncs, world, ControlTypeInv, TypeOK, HealthInv
<1>7. CASE Stops(c)
  BY <1>7 DEF Stops, fields, world, ControlTypeInv, TypeOK, HealthInv
<1>8. CASE Resolves(c) \/ AppResolves(c)
  <2>1. PICK list \in {backends, First(backends), First(backends) \o First(backends), <<>>} :
          CallsBackends(c, list)
    BY <1>8 DEF Resolves, AppResolves
  <2>2. list \in Seq(Backend)
    BY <1>1, NoneIsNoList
  <2>3. lock' \in Client \union {None}
    BY <1>8 DEF Resolves, AppResolves, ControlTypeInv, TypeOK
  <2> QED
    BY <2>1, <2>2, <2>3, CallsTyped
<1>9. CASE Clears(c)
  <2>1. PICK b \in Backend : CallsBackends(c, IF \E i \in DOMAIN backends : backends[i] = b
                                              THEN <<b, b>> ELSE <<>>)
    BY <1>9 DEF Clears
  <2>2. <<b, b>> \in Seq(Backend) /\ <<>> \in Seq(Backend)
    OBVIOUS
  <2>3. lock' \in Client \union {None}
    BY <1>9 DEF Clears
  <2> QED
    BY <2>1, <2>2, <2>3, CallsTyped
<1>10. CASE Plans(c)
  BY <1>1, <1>10, CallsTyped DEF Plans
<1>11. CASE Calls(c)
  <2>1. calls[c] \in Seq(Backend) /\ calls[c] # <<>>
    BY <1>11 DEF Calls, ControlTypeInv, TypeOK
  <2>2. Tail(calls[c]) \in Seq(Backend) /\ <<>> \in Seq(Backend)
    BY <2>1
  <2> QED
    BY <1>11, <2>2, CallsTyped DEF Calls, ControlTypeInv, TypeOK
<1>12. CASE Returns(c)
  BY <1>12, AnswersTyped DEF Returns, fields, world, ControlTypeInv, TypeOK
<1> QED
  BY <1>3, <1>4, <1>5, <1>6, <1>7, <1>8, <1>9, <1>10, <1>11, <1>12
     DEF Serves, handle_control_command, AppServes

LEMMA CyclesTyped ==
  ASSUME ControlTypeInv,
         Wakes \/ AppWakes \/ \E t \in Cycle : Cycles(t)
  PROVE  ControlTypeInv'
<1> USE DEF OnlyCycle, clients, world
<1>1. backends \in Suffixes(Lists)
  BY ListsAreSeqs DEF ControlTypeInv, TypeOK
<1>2. cycle' \in [Cycle -> Suffixes(Lists) \union {None, Begun}]
  <2>1. CASE Wakes \/ AppWakes
    BY <1>1, <2>1 DEF Wakes, AppWakes, ControlTypeInv, TypeOK
  <2>2. ASSUME NEW t \in Cycle, ReadsBackends(t) \/ EndsCycle(t)
        PROVE  cycle' \in [Cycle -> Suffixes(Lists) \union {None, Begun}]
    BY <1>1, <2>2 DEF ReadsBackends, EndsCycle, ControlTypeInv, TypeOK
  <2>3. ASSUME NEW t \in Cycle, Visits(t)
        PROVE  cycle' \in [Cycle -> Suffixes(Lists) \union {None, Begun}]
    <3>1. cycle[t] \in Suffixes(Lists) /\ cycle[t] # <<>>
      BY <2>3 DEF Visits, ControlTypeInv, TypeOK
    <3>2. Tail(cycle[t]) \in Suffixes(Lists)
      BY <3>1, TailIsSuffix
    <3> QED
      BY <2>3, <3>2 DEF Visits, ControlTypeInv, TypeOK
  <2> QED
    BY <2>1, <2>2, <2>3 DEF Cycles
<1>3. syncing' \in BOOLEAN
  BY DEF Wakes, AppWakes, Cycles, ReadsBackends, Visits, EndsCycle, ControlTypeInv, TypeOK
<1>4. OnlyCycle
  BY DEF Wakes, AppWakes, Cycles, ReadsBackends, Visits, EndsCycle
<1> QED
  BY <1>2, <1>3, <1>4 DEF ControlTypeInv, TypeOK, HealthInv

LEMMA HealthTyped == ASSUME ControlTypeInv, ChecksHealth PROVE ControlTypeInv'
<1> USE DEF OnlyHealth, clients, world
<1>1. CASE HealthBegins
  <2>1. health' \in Suffixes(Lists) /\ health' # <<>>
    BY <1>1, ListsAreSeqs DEF HealthBegins, ControlTypeInv, TypeOK
  <2> QED
    BY <1>1, <2>1 DEF HealthBegins, ControlTypeInv, TypeOK, HealthInv
<1>2. CASE HealthLists
  BY <1>2 DEF HealthLists, ControlTypeInv, TypeOK, HealthInv
<1>3. CASE HealthRecords
  <2>1. health \in Suffixes(Lists) /\ health # <<>>
    BY <1>3 DEF HealthRecords, ControlTypeInv, TypeOK, HealthInv
  <2>2. Head(health) \in Backend /\ Tail(health) \in Suffixes(Lists)
    BY <2>1, TailIsSuffix
  <2>3. Rest \in Suffixes(Lists) \union {None} /\ Rest # <<>>
    <3>1. health \in Seq(Backend)
      BY <2>1, ListsAreSeqs
    <3>2. Len(Tail(health)) = Len(health) - 1 /\ Len(health) \in Nat
      BY <2>1, <3>1, HeadTailProperties
    <3>3. Len(health) # 1 => Tail(health) # <<>>
      <4> SUFFICES ASSUME Tail(health) = <<>> PROVE Len(health) = 1
        OBVIOUS
      <4>1. Len(Tail(health)) = 0
        BY EmptySeq
      <4> QED
        BY <3>2, <4>1
    <3> QED
      BY <2>2, <3>3, NoneIsNoList DEF Rest
  <2>4. errors' \subseteq Backend
    BY <1>3, <2>2 DEF HealthRecords, ControlTypeInv, TypeOK
  <2> QED
    BY <1>3, <2>3, <2>4 DEF HealthRecords, ControlTypeInv, TypeOK, HealthInv
<1> QED
  BY <1>1, <1>2, <1>3 DEF ChecksHealth

LEMMA RestTyped ==
  ASSUME ControlTypeInv, AdjustsRate \/ EventArrives \/ HandlesEvent
  PROVE  ControlTypeInv'
<1> USE DEF ControlTypeInv, TypeOK, HealthInv, clients, world, fields, tasks
<1>1. CASE AdjustsRate
  <2>1. Target \in Rate
    BY RatesTyped, ControlAssumption DEF Target
  <2> QED
    BY <1>1, <2>1 DEF AdjustsRate, OnlyLimiter
<1>2. CASE EventArrives \/ HandlesEvent
  BY <1>2, ControlAssumption DEF EventArrives, HandlesEvent, OnlyMain, Turn
<1> QED
  BY <1>1, <1>2

LEMMA EndsTyped ==
  ASSUME ControlTypeInv, Ends, Turn \/ UNCHANGED turns
  PROVE  ControlTypeInv'
<1>1. <<>> \in Lists
  BY SMT DEF Lists
<1>2. turns' \in 0..MaxTurns
  BY ControlAssumption DEF Turn, ControlTypeInv, TypeOK
<1>3. {alive, paused, syncing, cleared}' \subseteq BOOLEAN
  BY DEF Ends, ControlTypeInv, TypeOK
<1> QED
  BY <1>1, <1>2, <1>3, NoneIsNoList, ControlAssumption
     DEF Ends, ControlTypeInv, TypeOK, HealthInv

(* Every reachable state is well typed: what a cycle and the health check have
   still to visit is the end of the list of backends of some configuration, also
   after a reload in their middle, and the errors are of known backends
   (main.rs:472, :553; control.rs:301). *)
THEOREM ControlTypeCorrect == Spec => []TypeOK
<1>1. ControlTypeInv /\ [Next]_vars => ControlTypeInv'
  <2> SUFFICES ASSUME ControlTypeInv, [Next]_vars PROVE ControlTypeInv'
    OBVIOUS
  <2>1. CASE UNCHANGED vars
    BY <2>1 DEF vars, fields, clients, tasks, world, ControlTypeInv, TypeOK, HealthInv
  <2>2. CASE Next
    <3>1. CASE Exits \/ Dies
      BY <3>1, EndsTyped DEF Exits, Dies
    <3>2. CASE \E c \in Client : Serves(c)
      BY <3>2, CommandsTyped
    <3>3. CASE Wakes \/ AppWakes \/ \E t \in Cycle : Cycles(t)
      BY <3>3, CyclesTyped
    <3>4. CASE AdjustsRate \/ EventArrives \/ HandlesEvent
      BY <3>4, RestTyped
    <3> QED
      BY <2>2, <3>1, <3>2, <3>3, <3>4, OutsideTyped, HealthTyped DEF Next
  <2> QED
    BY <2>1, <2>2
<1>2. ControlTypeInv => TypeOK
  BY DEF ControlTypeInv
<1> QED
  BY <1>1, <1>2, InitTyped, PTL DEF Spec

=============================================================================
