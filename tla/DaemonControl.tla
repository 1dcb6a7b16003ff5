--------------------------- MODULE DaemonControl ---------------------------
(***************************************************************************)
(* The control plane of a synchronising process: its DaemonState behind    *)
(* one mutex, the tasks that live around it, and the commands that clients *)
(* send.  The host is the daemon (main.rs and control.rs; the Web UI, the  *)
(* egui and the desktop app speak to its TCP socket), or the app that runs *)
(* the engine in its own process (cloud_sync_tauri without a daemon).      *)
(*                                                                         *)
(* What a cycle does to the files is the subject of module SyncEngine;     *)
(* here a cycle is the list of the backends it has still to visit.  A      *)
(* command that only asks is one step; one that calls backends keeps the   *)
(* list of the calls it has still to make.                                 *)
(***************************************************************************)
EXTENDS Naturals, Sequences, FiniteSets

CONSTANTS
  Order,          \* the names of all backends, in the order of build_backends
  Config,         \* contents of the configuration file that can be loaded
  Fresh,          \* the one that is written when there is no file
  Enabled,        \* Enabled[f]: the backends that f has credentials for
  MaxRate,        \* MaxRate[f]: max_upload_rate of f, or None
  Scheduled,      \* the configurations with a bandwidth_schedule
  Rate,           \* rates of the limiter, 0 among them
  WindowRate,     \* those of the windows of a schedule
  Broken, Missing, \* a configuration file that cannot be loaded, and none
  Client,         \* concurrent clients, each with one connection
  Task,           \* the names of spawned manual cycles
  Host,           \* which of "daemon" and "app" is looked at
  None,
  Begun,          \* a cycle that has not yet read the backends
  MaxTurns        \* bound: commands, file edits, outages and events together

Backend == {Order[i] : i \in DOMAIN Order}

ASSUME ControlAssumption ==
  /\ Order \in Seq(Backend)
  /\ Fresh \in Config
  /\ Enabled \in [Config -> SUBSET Backend]
  /\ MaxRate \in [Config -> Rate \union {None}]
  /\ Rate \subseteq Nat
  /\ 0 \in Rate
  /\ WindowRate \subseteq Rate
  /\ Host \subseteq {"daemon", "app"}
  /\ "periodic" \notin Task /\ Task # {}
  /\ Scheduled \subseteq Config
  /\ None \notin Config /\ None \notin Rate /\ None \notin Client
  /\ None \notin Seq(Backend) /\ Begun \notin Seq(Backend) /\ Begun # None
  /\ Broken \notin Config /\ Missing \notin Config /\ Broken # Missing
  /\ MaxTurns \in Nat

Cycle == Task \union {"periodic"}
Resolution == {"use_local", "use_remote", "keep_both"}

\* What the interfaces can ask for.  The other questions, get_log and conflicts,
\* read the state and no more; so does the resolution "skip", as nothing records
\* conflicts.
WebCommand == {"status", "pause", "resume", "sync", "reload", "stop", "clear",
               "get_plan"} \union Resolution
EguiCommand == {"status", "pause", "resume", "sync", "reload", "stop"}
AppCommand == {"status", "pause", "resume", "sync", "stop", "get_config",
               "save_config"} \union Resolution
Command == [daemon |-> WebCommand \union EguiCommand, app |-> AppCommand]

VARIABLES
  host,           \* the kind of the process; never changes
  alive,          \* the process runs
  paused, syncing, backends, errors, limiter,   \* fields of DaemonState
  lock,           \* the client whose command holds the mutex over an await
  request,        \* request[c]: the command of c that is not answered yet
  calls,          \* calls[c]: the backend calls that it still makes
  cycle,          \* cycle[t]: the backends that cycle t has still to visit
  health,         \* the backends that the health check has still to visit
  verdict,        \* what it has learnt of the first of them
  main,           \* the main loop: "select", or "event" while it handles one
  stops,          \* messages in the shutdown channel
  config,         \* the configuration file
  started,        \* the configuration that the process was started with
  window,         \* the rate of the current bandwidth window, or None
  down,           \* the backends that do not answer
  turns,          \* commands, edits, outages and events so far
  cleared         \* History: a stop of the app cleared `syncing` in a cycle

fields == <<paused, syncing, backends, errors, limiter>>
clients == <<lock, request, calls>>
tasks == <<cycle, health, verdict, main, stops>>
world == <<config, window, down, turns>>
vars == <<host, alive, fields, clients, tasks, started, world, cleared>>

\* build_backends
BackendsOf(f) == SelectSeq(Order, LAMBDA b : b \in Enabled[f])

\* What SelectSeq returns is defined by recursion.
ASSUME BackendsAssumption == \A f \in Config : BackendsOf(f) \in Seq(Backend)

Lists == {<<>>} \union {BackendsOf(f) : f \in Config}
Suffixes(S) == UNION {{SubSeq(s, i, Len(s)) : i \in 1..Len(s) + 1} : s \in S}

TypeOK ==
  /\ host \in Host
  /\ {alive, paused, syncing, cleared} \subseteq BOOLEAN
  /\ backends \in Lists
  /\ errors \subseteq Backend
  /\ limiter \in Rate \union {None}
  /\ lock \in Client \union {None}
  /\ request \in [Client -> Command[host] \union {None}]
  /\ calls \in [Client -> Seq(Backend) \union {None}]
  /\ cycle \in [Cycle -> Suffixes(Lists) \union {None, Begun}]
  /\ health \in Suffixes(Lists) \union {None}
  /\ verdict \in {None, "ok", "err"}
  /\ main \in {"select", "event"}
  /\ stops \in 0..1
  /\ config \in Config \union {Broken, Missing}
  /\ started \in Config
  /\ window \in WindowRate \union {None}
  /\ down \subseteq Backend
  /\ turns \in 0..MaxTurns

\* The rate outside of every window; 0 stands for no limit.
Default(f) == IF MaxRate[f] = None THEN 0 ELSE MaxRate[f]

\* The limiter of a daemon exists if a rate or a schedule is configured; the
\* app has none.
Limiter(f) ==
  IF host = "daemon" /\ (MaxRate[f] # None \/ f \in Scheduled)
    THEN Default(f) ELSE None

Init ==
  /\ host \in Host
  /\ alive = TRUE
  /\ started \in Config
  /\ config = started
  /\ paused = FALSE
  /\ syncing = FALSE
  /\ backends = BackendsOf(started)
  /\ errors = {}
  /\ limiter = Limiter(started)
  /\ lock = None
  /\ request = [c \in Client |-> None]
  /\ calls = [c \in Client |-> None]
  /\ cycle = [t \in Cycle |-> None]
  /\ health = None
  /\ verdict = None
  /\ main = "select"
  /\ stops = 0
  /\ window = None
  /\ down = {}
  /\ turns = 0
  /\ cleared = FALSE

-----------------------------------------------------------------------------
(* The world outside. *)

Turn == turns < MaxTurns /\ turns' = turns + 1

EditsConfig(f) ==
  /\ Turn
  /\ f # config
  /\ config' = f
  /\ UNCHANGED <<host, alive, fields, clients, tasks, started, window, down, cleared>>

BackendComesOrGoes(b) ==
  /\ Turn
  /\ down' = IF b \in down THEN down \ {b} ELSE down \union {b}
  /\ UNCHANGED <<host, alive, fields, clients, tasks, started, config, window, cleared>>

WindowChanges(r) ==
  /\ host = "daemon"
  /\ started \in Scheduled
  /\ Turn
  /\ r # window
  /\ window' = r
  /\ UNCHANGED <<host, alive, fields, clients, tasks, started, config, down, cleared>>

\* A client connects and sends a command; connections are alike, so that it takes
\* a certain one.  The desktop app sends those it shares with the daemon to the
\* daemon's socket.
Sends(cmd) ==
  LET free == {c \in Client : request[c] = None} IN
    /\ alive
    /\ Turn
    /\ free # {}
    /\ request' = [request EXCEPT ![CHOOSE c \in free : TRUE] = cmd]
    /\ UNCHANGED <<host, alive, fields, lock, calls, tasks, started, config, window,
                   down, cleared>>

-----------------------------------------------------------------------------
(* load_or_create_config: a missing file is written first. *)

Loaded == IF config = Missing THEN Fresh ELSE config

LoadsConfig ==
  /\ config' = IF config = Missing THEN Fresh ELSE config
  /\ UNCHANGED <<window, down, turns>>

\* A user interface spawns a daemon, which does not start without a
\* configuration.
Starts ==
  /\ host = "daemon"
  /\ ~alive
  /\ Turn
  /\ config # Broken
  /\ alive' = TRUE
  /\ started' = Loaded
  /\ paused' = FALSE
  /\ syncing' = FALSE
  /\ backends' = BackendsOf(Loaded)
  /\ errors' = {}
  /\ limiter' = Limiter(Loaded)
  /\ config' = Loaded
  /\ UNCHANGED <<host, clients, tasks, window, down, cleared>>

-----------------------------------------------------------------------------
(* handle_control_command *)

\* The command of c gets the mutex.
Locks(c, cmd) ==
  /\ request[c] = cmd
  /\ calls[c] = None
  /\ lock = None

Answers(c) ==
  /\ request' = [request EXCEPT ![c] = None]
  /\ calls' = [calls EXCEPT ![c] = None]
  /\ UNCHANGED <<host, alive, tasks, started>>

\* "status" formats the state; for the placeholders among the credentials it
\* loads the configuration.
Asks(c) ==
  /\ Locks(c, "status")
  /\ LoadsConfig
  /\ Answers(c)
  /\ UNCHANGED <<fields, lock, cleared>>

PausesOrResumes(c) ==
  /\ \E cmd \in {"pause", "resume"} : Locks(c, cmd) /\ paused' = (cmd = "pause")
  /\ Answers(c)
  /\ UNCHANGED <<syncing, backends, errors, limiter, lock, world, cleared>>

\* A file that cannot be loaded changes nothing.  Without a rate there is no
\* limiter, whatever the schedule says; connection errors stay.
Reloads(c) ==
  /\ Locks(c, "reload")
  /\ LoadsConfig
  /\ IF config = Broken THEN UNCHANGED <<backends, limiter>>
     ELSE backends' = BackendsOf(Loaded) /\ limiter' = MaxRate[Loaded]
  /\ Answers(c)
  /\ UNCHANGED <<paused, syncing, errors, lock, cleared>>

\* A task to spawn; the bound on them makes a command wait for one.
FreeTask ==
  LET free == {t \in Task : cycle[t] = None}
  IN IF free = {} THEN CHOOSE t \in Task : TRUE ELSE CHOOSE t \in free : TRUE

OnlySyncs(c) ==
  /\ request' = [request EXCEPT ![c] = None]
  /\ UNCHANGED <<host, alive, paused, backends, errors, limiter, lock, calls, health,
                 verdict, main, stops, started, world, cleared>>

\* Slip: the flag is tested, and set by the cycle itself.
SyncsUnflagged(c) ==
  /\ Locks(c, "sync")
  /\ IF syncing THEN UNCHANGED cycle
     ELSE LET t == FreeTask IN
            cycle[t] = None /\ cycle' = [cycle EXCEPT ![t] = backends]
  /\ UNCHANGED syncing
  /\ OnlySyncs(c)

\* The new task gets the backends of this moment.
Syncs(c) ==
  /\ Locks(c, "sync")
  /\ IF syncing THEN UNCHANGED <<syncing, cycle>>
     ELSE LET t == FreeTask IN
            /\ cycle[t] = None
            /\ cycle' = [cycle EXCEPT ![t] = backends]
            /\ syncing' = TRUE
  /\ OnlySyncs(c)

\* Slip: a message is sent though the channel has no room.
StopsUnasked(c) ==
  /\ request[c] = "stop"
  /\ stops' = stops + 1
  /\ request' = [request EXCEPT ![c] = None]
  /\ UNCHANGED <<host, alive, fields, lock, calls, cycle, health, verdict, main,
                 started, world, cleared>>

\* "stop" only sends a message, and waits while there is one already.
Stops(c) ==
  /\ request[c] = "stop"
  /\ stops = 0
  /\ stops' = 1
  /\ request' = [request EXCEPT ![c] = None]
  /\ UNCHANGED <<host, alive, fields, lock, calls, cycle, health, verdict, main,
                 started, world, cleared>>

First(s) == IF s = <<>> THEN <<>> ELSE <<Head(s)>>

CallsBackends(c, list) ==
  /\ calls' = [calls EXCEPT ![c] = list]
  /\ UNCHANGED <<host, alive, fields, request, tasks, started, world, cleared>>

\* resolve_conflict copies the backends and drops the mutex before it calls them:
\* an upload to each, a download from the first, or both with the first, unless
\* the local file refuses its new name.
Resolves(c) ==
  /\ \/ Locks(c, "use_local") /\ CallsBackends(c, backends)
     \/ Locks(c, "use_remote") /\ CallsBackends(c, First(backends))
     \/ /\ Locks(c, "keep_both")
        /\ \/ CallsBackends(c, First(backends) \o First(backends))
           \/ CallsBackends(c, <<>>)
  /\ UNCHANGED lock

\* "clear" calls the backend of that name with the mutex held: its list, and the
\* deletions.
Clears(c) ==
  /\ Locks(c, "clear")
  /\ lock' = c
  /\ \E b \in Backend :
       CallsBackends(c, IF \E i \in DOMAIN backends : backends[i] = b
                          THEN <<b, b>> ELSE <<>>)

\* "get_plan" plans a cycle of each backend with the mutex held.
Plans(c) ==
  /\ Locks(c, "get_plan")
  /\ lock' = c
  /\ CallsBackends(c, backends)

\* A failed upload, download or listing ends the command with an error; a failed
\* deletion, a failed plan and the calls of keep_both are only logged.
EndsCommand(c) ==
  \/ request[c] \in {"use_local", "use_remote"}
  \/ request[c] = "clear" /\ Len(calls[c]) = 2

Calls(c) ==
  /\ calls[c] \notin {None, <<>>}
  /\ CallsBackends(c, IF Head(calls[c]) \in down /\ EndsCommand(c)
                        THEN <<>> ELSE Tail(calls[c]))
  /\ UNCHANGED lock

\* Slip: the guard of the mutex is kept until the connection closes.
ReturnsLocked(c) ==
  /\ calls[c] = <<>>
  /\ Answers(c)
  /\ UNCHANGED <<fields, lock, world, cleared>>

Returns(c) ==
  /\ calls[c] = <<>>
  /\ lock' = IF lock = c THEN None ELSE lock
  /\ Answers(c)
  /\ UNCHANGED <<fields, world, cleared>>

handle_control_command(c) ==
  \/ Asks(c) \/ PausesOrResumes(c) \/ Reloads(c) \/ Syncs(c) \/ Stops(c)
  \/ Resolves(c) \/ Clears(c) \/ Plans(c)

-----------------------------------------------------------------------------
(* The commands of the app, when it has no daemon. *)

\* `status` of the state in the process.
AppAsks(c) ==
  /\ Locks(c, "status")
  /\ Answers(c)
  /\ UNCHANGED <<fields, lock, world, cleared>>

AppPausesOrResumes(c) == PausesOrResumes(c)

\* The new task reads the backends when it runs.
AppSyncs(c) ==
  /\ Locks(c, "sync")
  /\ IF syncing THEN UNCHANGED <<syncing, cycle>>
     ELSE LET t == FreeTask IN
            /\ cycle[t] = None
            /\ cycle' = [cycle EXCEPT ![t] = Begun]
            /\ syncing' = TRUE
  /\ OnlySyncs(c)

\* `stop` pauses, and takes the cycle under way for over.
AppStops(c) ==
  /\ Locks(c, "stop")
  /\ paused' = TRUE
  /\ syncing' = FALSE
  /\ cleared' = (cleared \/ syncing)
  /\ Answers(c)
  /\ UNCHANGED <<backends, errors, limiter, lock, world>>

\* keep_both uploads nothing here, and renames without looking at the result.
AppResolves(c) ==
  /\ \/ Locks(c, "use_local") /\ CallsBackends(c, backends)
     \/ /\ Locks(c, "use_remote") \/ Locks(c, "keep_both")
        /\ CallsBackends(c, First(backends))
  /\ UNCHANGED lock

\* get_config takes the name of the file from the state, and loads it.
GetsConfig(c) ==
  /\ Locks(c, "get_config")
  /\ LoadsConfig
  /\ Answers(c)
  /\ UNCHANGED <<fields, lock, cleared>>

\* save_config writes the file last, and may fail to.
SavesConfig(c) ==
  /\ Locks(c, "save_config")
  /\ \E f \in Config :
       /\ backends' = BackendsOf(f)
       /\ config' = f \/ UNCHANGED config
  /\ Answers(c)
  /\ UNCHANGED <<paused, syncing, errors, limiter, lock, window, down, turns, cleared>>

AppServes(c) ==
  \/ AppAsks(c) \/ AppPausesOrResumes(c) \/ AppSyncs(c) \/ AppStops(c)
  \/ AppResolves(c) \/ GetsConfig(c) \/ SavesConfig(c)

Serves(c) ==
  /\ request[c] # None
  /\ \/ host = "daemon" /\ handle_control_command(c)
     \/ host = "app" /\ AppServes(c)
     \/ Calls(c)
     \/ Returns(c)

-----------------------------------------------------------------------------
(* Cycles. *)

OnlyCycle ==
  UNCHANGED <<host, alive, paused, backends, errors, limiter, clients, health,
              verdict, main, stops, started, world, cleared>>

\* Slip: the state was looked at when the loop went to sleep.
WakesPaused ==
  /\ host = "daemon"
  /\ lock = None
  /\ cycle["periodic"] = None
  /\ cycle' = [cycle EXCEPT !["periodic"] = backends]
  /\ UNCHANGED syncing
  /\ OnlyCycle

\* Slip: the loop keeps the backends that it was started with.
WakesStarted ==
  /\ host = "daemon"
  /\ lock = None
  /\ cycle["periodic"] = None
  /\ ~paused
  /\ cycle' = [cycle EXCEPT !["periodic"] = BackendsOf(started)]
  /\ UNCHANGED syncing
  /\ OnlyCycle

\* The loop of the daemon does not look at `syncing`.
Wakes ==
  /\ host = "daemon"
  /\ lock = None
  /\ cycle["periodic"] = None
  /\ ~paused
  /\ cycle' = [cycle EXCEPT !["periodic"] = backends]
  /\ UNCHANGED syncing
  /\ OnlyCycle

\* That of the app does, and sets it.
AppWakes ==
  /\ host = "app"
  /\ lock = None
  /\ cycle["periodic"] = None
  /\ ~paused /\ ~syncing /\ backends # <<>>
  /\ cycle' = [cycle EXCEPT !["periodic"] = Begun]
  /\ syncing' = TRUE
  /\ OnlyCycle

ReadsBackends(t) ==
  /\ cycle[t] = Begun
  /\ lock = None
  /\ cycle' = [cycle EXCEPT ![t] = backends]
  /\ UNCHANGED syncing
  /\ OnlyCycle

\* Slip: the error of a cycle ends its task.
VisitsUntilError(t) ==
  /\ cycle[t] \notin {None, Begun, <<>>}
  /\ cycle' = [cycle EXCEPT ![t] = IF Head(@) \in down THEN None ELSE Tail(@)]
  /\ UNCHANGED syncing
  /\ OnlyCycle

\* sync_bidirectional with the next backend; its error is only logged.
Visits(t) ==
  /\ cycle[t] \notin {None, Begun, <<>>}
  /\ cycle' = [cycle EXCEPT ![t] = Tail(@)]
  /\ UNCHANGED syncing
  /\ OnlyCycle

\* Only the daemon's loop leaves the flag alone.
EndsCycle(t) ==
  /\ cycle[t] = <<>>
  /\ cycle' = [cycle EXCEPT ![t] = None]
  /\ IF host = "daemon" /\ t = "periodic" THEN UNCHANGED syncing
     ELSE lock = None /\ syncing' = FALSE
  /\ OnlyCycle

Cycles(t) == cycle[t] # None /\ (ReadsBackends(t) \/ Visits(t) \/ EndsCycle(t))

-----------------------------------------------------------------------------
(* The other tasks of the daemon. *)

OnlyHealth ==
  UNCHANGED <<host, alive, paused, syncing, backends, limiter, clients, cycle, main,
              stops, started, world, cleared>>

HealthBegins ==
  /\ host = "daemon"
  /\ health = None
  /\ lock = None
  /\ backends # <<>>
  /\ health' = backends
  /\ UNCHANGED <<errors, verdict>>
  /\ OnlyHealth

HealthLists ==
  /\ health # None
  /\ verdict = None
  /\ verdict' = IF Head(health) \in down THEN "err" ELSE "ok"
  /\ UNCHANGED <<errors, health>>
  /\ OnlyHealth

\* The backends after the first; after the last one the check sleeps.
Rest == IF Len(health) = 1 THEN None ELSE Tail(health)

\* Slip: an error that was recorded once stays.
HealthAddsErrors ==
  /\ verdict # None
  /\ lock = None
  /\ errors' = IF verdict = "err" THEN errors \union {Head(health)} ELSE errors
  /\ health' = Rest
  /\ verdict' = None
  /\ OnlyHealth

HealthRecords ==
  /\ verdict # None
  /\ lock = None
  /\ errors' = IF verdict = "err" THEN errors \union {Head(health)}
                                  ELSE errors \ {Head(health)}
  /\ health' = Rest
  /\ verdict' = None
  /\ OnlyHealth

ChecksHealth == HealthBegins \/ HealthLists \/ HealthRecords

\* Outside of every window the rate is the one the process was started with.
Target == IF window # None THEN window ELSE Default(started)

OnlyLimiter ==
  /\ host = "daemon"
  /\ started \in Scheduled
  /\ lock = None
  /\ limiter # None
  /\ UNCHANGED <<host, alive, paused, syncing, backends, errors, clients, tasks,
                 started, world, cleared>>

\* Slip: the rates were computed when the task began.
KeepsRate == limiter' = Default(started) /\ OnlyLimiter

\* Every 5 seconds, if the process was started with a schedule.
AdjustsRate == limiter' = Target /\ OnlyLimiter

OnlyMain ==
  UNCHANGED <<host, fields, lock, calls, cycle, health, verdict, started, cleared>>

EventArrives ==
  /\ host = "daemon"
  /\ main = "select"
  /\ Turn
  /\ main' = "event"
  /\ UNCHANGED <<alive, request, stops, config, window, down>>
  /\ OnlyMain

\* handle_event reads the state under the mutex; module Watcher has the rest.
HandlesEvent ==
  /\ main = "event"
  /\ lock = None
  /\ main' = "select"
  /\ UNCHANGED <<alive, request, stops, world>>
  /\ OnlyMain

\* With the process go its state and its tasks; connections close.
Ends ==
  /\ alive' = FALSE
  /\ paused' = FALSE
  /\ syncing' = FALSE
  /\ backends' = <<>>
  /\ errors' = {}
  /\ limiter' = None
  /\ lock' = None
  /\ request' = [c \in Client |-> None]
  /\ calls' = [c \in Client |-> None]
  /\ cycle' = [t \in Cycle |-> None]
  /\ health' = None
  /\ verdict' = None
  /\ main' = "select"
  /\ stops' = 0
  /\ UNCHANGED <<host, started, config, window, down, cleared>>

Exits ==
  /\ main = "select"
  /\ stops > 0
  /\ Ends
  /\ UNCHANGED turns

\* Ctrl+C, or the end of the system.
Dies == Turn /\ Ends

-----------------------------------------------------------------------------
Outside ==
  \/ \E f \in {Broken, Missing} \union Config : EditsConfig(f)
  \/ \E b \in Backend : BackendComesOrGoes(b)
  \/ \E r \in WindowRate \union {None} : WindowChanges(r)
  \/ \E cmd \in Command[host] : Sends(cmd)
  \/ Starts

Next ==
  \/ Outside
  \/ /\ alive
     /\ \/ \E c \in Client : Serves(c)
        \/ \E t \in Cycle : Cycles(t)
        \/ Wakes \/ AppWakes \/ ChecksHealth \/ AdjustsRate
        \/ EventArrives \/ HandlesEvent \/ Exits \/ Dies

\* Sleeps end, calls return, and the mutex of tokio serves its waiters in turn.
Fairness ==
  /\ \A c \in Client : WF_vars(alive /\ Serves(c))
  /\ \A t \in Cycle : WF_vars(alive /\ Cycles(t))
  /\ WF_vars(alive /\ (Wakes \/ AppWakes))
  /\ WF_vars(alive /\ ChecksHealth)
  /\ WF_vars(alive /\ AdjustsRate)
  /\ WF_vars(alive /\ (HandlesEvent \/ Exits))

Spec == Init /\ [][Next]_vars /\ Fairness

-----------------------------------------------------------------------------
(* Properties. *)

Flagged == IF host = "daemon" THEN Task ELSE Cycle

(* `syncing` is what keeps cycles apart: while it is set exactly one cycle that
   honours it is under way, and none while it is not (control.rs:277; lib.rs:74
   of the app), until a stop of the app clears it under a running cycle. *)
SyncingIsExact ==
  ~cleared =>
    Cardinality({t \in Flagged : cycle[t] # None}) = IF syncing THEN 1 ELSE 0

(* A manual cycle ends and makes room for the next one, whatever its backends
   answer and whichever commands hold the mutex (control.rs:329). *)
SyncingEnds == []<>(~syncing)

(* Every command is answered, or the process ends: no command waits for a mutex
   that another one keeps (control.rs:338, :405). *)
CommandsAreAnswered == \A c \in Client : []<>(request[c] = None)

(* A daemon that was told to stop does so, also when its main loop waits for the
   mutex in the middle of an event (main.rs:614). *)
StopStops == []<>(stops = 0)

In(b, list) == list \notin {None, Begun} /\ \E i \in DOMAIN list : list[i] = b

Checked(b) == host = "daemon" /\ alive /\ In(b, backends)

(* The status reports a backend that stays configured as failed if it does not
   answer, and only then: a verdict of the health check that an outage, or a check
   of a list from before a reload, has overtaken is corrected (main.rs:432).  Of a
   backend that stays removed it reports the last verdict for good, an error as well,
   since a reload leaves connection_errors alone and only the check of a configured
   backend clears an entry (control.rs:243-268, :38, main.rs:435). *)
HealthIsNoticed ==
  \A b \in Backend :
    /\ <>[](Checked(b) /\ b \notin down) => <>[](b \notin errors)
    /\ <>[](Checked(b) /\ b \in down) => <>[](b \in errors)
    /\ <>[](host = "daemon" /\ alive /\ ~In(b, backends))
         => <>[](b \in errors) \/ <>[](b \notin errors)

(* Nothing goes on calling a backend that a reload, or saving a configuration,
   has removed (control.rs:259; README.md:125 of the daemon). *)
RemovedBackendsAreLeft ==
  \A b \in Backend :
    <>[]~In(b, backends) =>
      <>[](/\ \A t \in Cycle : ~In(b, cycle[t])
           /\ \A c \in Client : ~In(b, calls[c])
           /\ ~In(b, health))

(* A daemon or app that stays paused comes to rest: the cycle under way is the
   last one of the loop (main.rs:497; docs/USER_GUIDE.md:86). *)
PauseComesToRest == <>[]paused => <>[](cycle["periodic"] = None)

(* The limiter takes the rate of the bandwidth window, unless a reload has
   removed it (main.rs:391). *)
RateFollowsWindow ==
  \A r \in WindowRate :
    <>[](alive /\ started \in Scheduled /\ window = r /\ limiter # None)
      => <>[](limiter = r)

=============================================================================
