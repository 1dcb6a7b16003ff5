# TLA+ models of cloud_sync_lib

This directory holds TLA+ models of `cloud_sync_lib`: its sync engine, its
state store, its storage clients and their layers, its daemon and its backup
program, the TLC configurations that check them and TLAPS proofs of their main
properties. The models follow the code under `crates/`; where the
code and the documentation disagree, the model follows the code and a run that
TLC refutes shows the difference.

    tlc -config SyncEngine_chaos.cfg MCSyncEngine.tla      # model-check
    tlapm SyncEngineProofs.tla                             # check proofs

`PROJECT.json` lists the components, the runs, the source lines behind every
definition, the hazards of the code and which property covers each, the
findings, and for every property a mutant of the model that it catches.

## 1. The system

### Components

| Component | Source | State | Operations | Interacts with |
| --- | --- | --- | --- | --- |
| Sync planner | `cloud_sync_daemon/src/engine/planner.rs`, `plan.rs`, `rename_detector.rs`, `conflict.rs` | none | `plan`, `detect_moves`, `resolve` | called by the orchestrator |
| Orchestrator, scanner, executor | `engine/orchestrator.rs`, `scanner.rs`, `executor.rs` | the catalog on disk, trees and plan of a cycle | `sync_bidirectional` | backend, local directory, state store |
| State store | `cloud_sync_core/src/state_io.rs`, `state.rs`, `engine/state_repository.rs` | catalog file, `.bak`, temporary files | `load`, `save` | every cycle, concurrently |
| Client and its layers | `cloud_sync_lib/src/client.rs`, `providers/mod.rs`, `layers/*.rs`, `rate_limit.rs` | breaker state and counters, attempts, tokens of a bucket | every call of a backend | wrap a provider; used by every program |
| Simulated fallback | `providers/fallback.rs` | the reason of the fallback | every backend call | between the layers and the provider |
| Transfer helpers, OAuth tokens | `providers/utils.rs`, `auth.rs` | cached access token | `execute_with_retry`, `get_access_token`, upload sessions | every provider |
| Storage clients | `providers/*.rs` (15 of them) | B2: a cached authorisation; else the files on the server | `upload`, `download`, `delete`, `rename`, `copy`, `create_folder`, `list` | engine, watcher, backup; retries of their own |
| Change feeds | `dropbox.rs`, `onedrive.rs`, `google_drive.rs` | none; the caller keeps the cursor | `get_latest_cursor`, `fetch_changes` | nothing in the repository yet |
| Encryption | `providers/encryption.rs` | none | wraps `upload`, `download`, `list` | any provider |
| Watcher | `cloud_sync_daemon/src/watcher.rs` | per-file locks, tasks | `handle_event` | backend; never the catalog |
| Daemon | `main.rs`, `control.rs`, `lib.rs` | `DaemonState` behind one mutex | periodic cycle, health check, rate schedule, 11 commands | engine, watcher, interfaces |
| User interfaces | `cloud_sync_egui`, `cloud_sync_tauri`, `cloud_sync_ui` | the app has a `DaemonState` of its own | control commands, start of a daemon | daemon |
| Backup | `cloud_sync_backup/src/main.rs` | `synced_history`, in memory | `perform_backup` in a loop | two backends |
| Buffer pool, metrics, logging, filters, trash | `buffer_pool.rs`, `layers/metrics.rs`, `logging.rs`, ... | counters | | |

The daemon runs one periodic loop over all backends; a manual `sync` command
spawns a second loop over the same backends and catalogs. Both call
`sync_bidirectional`, which loads the catalog, lists the remote, scans the
local directory, plans, executes, reloads the catalog, applies every planned
action to it and saves it. Users edit the local directory at any time; other
devices, and the watcher of the same daemon, write to the remote.

### What is hard

* **Concurrency.** Two cycles, the watcher and the users share two file trees
  and one catalog without a common lock. A plan is made from three snapshots
  taken at different moments and executed later.
* **Failure.** A failed action is counted and the cycle goes on; the catalog
  is updated from the *plan*, not from what was done.
* **Metadata.** Whether a file changed is decided by size and modification
  time. The catalog's times are read from the local file only.
* **Crashes.** A catalog that is lost or half written turns every shared file
  into a conflict.
* **Shared clients.** The timed cycle, a manual one and the tasks of the watcher call
  one client at the same time, for one file too; no lock keeps them apart.
* **Lost answers.** A provider client repeats a whole call when a request times
  out, also one that has created, changed or deleted something; and several
  clients take an error for an answer.
* **Layers.** Retries, breaker, waits and fallback each treat the errors of the
  layer below in a way of their own, while calls overlap and results come late.
* **One mutex.** The daemon keeps its state behind one asynchronous mutex. Some
  commands hold it while they call a backend; the loops copy the state and work
  on the copy.
* **Changing files.** Backup and encryption read a file that its user may be
  writing; what they record was read at another moment.

`PROJECT.json` lists these hazards one by one, at their lines.

### What makes each component correct

* Planner and engine: a path that is left alone is in sync; an edit nobody has
  copied is not replaced by the other side's version; a mode forbids what it
  names; without failures the remote becomes a
  mirror; the engine does not conflict with its own uploads.
* State store: a save is atomic, a load that can read the files returns a catalog
  that was in place during the load, and one good copy survives every step.
* Client: a transient failure while the breaker is not closed opens it for a
  full timeout; every call ends; breaker, callers and simulation are back to
  normal once the provider is.
* Watcher: versions of a file arrive in their order, and the last one arrives.
* Storage clients: whatever is retried and whatever runs at the same time, a path
  names one file, a file holds what a call left there, a rename loses nothing, a list
  leaves nothing out.
* Change feed: whoever follows it ends up with every file as it is.
* Encryption: the size that is listed is that of the file, and a missing end shows.
* Daemon: every command is answered, a stop stops, `syncing` means one cycle, a
  pause comes to rest, removed backends are left alone, the status tells which
  of the configured backends fail, the limiter follows the schedule.
* Backup: what the history takes for copied is copied; in the end everything is.

## 2. Modules

| Module | Models | Checked by | Proved in |
| --- | --- | --- | --- |
| `SyncPlanner` | `SyncPlanner::plan`, the rename detector, the conflict strategies; no variables | through `SyncEngine` | through `SyncEngineProofs` |
| `SyncEngine` | `sync_bidirectional` with users, failures and crashes | `SyncEngine_*.cfg` | `SyncEngineProofs` |
| `AtomicCatalog` | what the engine expects of a state store (abstract) | refined by `StateStore` | `StateStoreProofs` |
| `StateStore` | `PostcardStateStore` behind `SyncStateRepository` | `StateStore_*.cfg` | `StateStoreProofs` |
| `CircuitBreaker` | `CircuitBreakerBackend` | through `ClientStack` | `ClientStackProofs` |
| `ClientStack` | a call through all layers of a `CloudSyncClient`; EXTENDS `CircuitBreaker` and uses its actions | `ClientStack_outages.cfg` | `ClientStackProofs` (refines `CircuitBreaker`) |
| `Storage` | what the storage clients share: calls, requests, retries, faults | through `StorageClients` | through `StorageClientsProofs` |
| `GoogleDrive`, `ObjectStores`, `FileTrees` | the clients that know ids, objects, and folders | through `StorageClients` | through `StorageClientsProofs` |
| `StorageClients` | all 15 clients, one of which is configured (composition) | `StorageClients_files.cfg` | `StorageClientsProofs` |
| `DaemonControl` | `DaemonState`, its tasks and commands, and the app without a daemon | `DaemonControl_commands.cfg` | `DaemonControlProofs` |
| `Watcher` | `handle_event` and the tasks it spawns | `Parts_separately.cfg` | `WatcherProofs` |
| `WatchedEngine` | the watcher and the periodic cycle on one backend (composition) | `WatchedEngine_conflict.cfg` | |
| `Backup` | `perform_backup` and the loop around it | `Parts_separately.cfg` | `BackupProofs` |
| `EncryptedFile` | the chunks of `EncryptedBackend` | `Parts_separately.cfg` | `EncryptedFileProofs` |
| `ChangeFeed` | the change feeds and a follower (external) | `Parts_separately.cfg` | |

The modules `MC...` give the constants their values for TLC. `MCParts` checks
four parts that share no state in one run: an initial choice of `subject` says
which of them happens, the others keep their initial state, and each has the
fairness of its own `FairSpec`.

### SyncPlanner

A hash map from relative paths is a function whose value is `Absent` where the
map has no entry. `local_changed`, `remote_changed`, `same_content`,
`candidate_additions`, `candidate_deletions`, `resolve` and `plan` carry the
names of the code. The cases of the `match` are sets of paths (`InLocal`,
`LocalGone`, `Everywhere`, ...). The planner walks a `HashSet`, so the order of
the loop is arbitrary; the only order that survives is the one in which the
loop, the moves, the deletions and the additions are appended (`stage`).
The rename detector pairs each deletion with the first addition that matches;
over all orders of its lists that yields exactly the maximal matchings, which
`DetectedMoves` enumerates.

### SyncEngine

| Variable | Code |
| --- | --- |
| `local`, `remote` | the files below `watch_dir` and those of the backend |
| `catalog` | the saved `SyncState` |
| `clock` | the latest modification time |
| `pc`, `base`, `rtree`, `ltree`, `left` | a runner inside `plan_sync` |
| `actions`, `todo` | `plan.actions` and the actions `execute` has still to run |
| `stamping` | an upload of `LocalSimulator` between copy and mtime |
| `newcat` | the updated catalog on its way to `save` |
| `agreedL`, `agreedR` | history: what the engine last left on either side |

| Action | Code |
| --- | --- |
| `LoadBase`, `ScanRemote`, `ScanLocal`, `Plan` | `plan_sync`, one path at a time |
| `ScanFails` | `?` after a listing or a directory read |
| `UploadSucceeds` | upload to a server that stamps files itself |
| `UploadCopies`, `UploadStamps`, `UploadBreaksOff` | `LocalSimulator::upload` |
| `DownloadSucceeds`, `DownloadBreaksOff` | download; the target is truncated first |
| `DeletesLocal`, `DeleteRemoteSucceeds`, `MoveSucceeds` | the other calls |
| `ActionFails` | `failed_actions += 1` |
| `LeavesConflict`, `Converges` | the arms without a call |
| `SkipsDryRun` | the loop of a dry run, which logs every action |
| `Record` | the reload and the loop over `plan.actions` |
| `Save` | `save`, whose result is ignored |
| `Crash` | the process is killed |

Abstractions: directories, permission bits, ignore filters and the trash
manager (which `sync_bidirectional` never passes) are left out; a resumable
upload is an upload; transfers of a server happen at one moment; every write
has a modification time of its own; one backend. `dry_run` is read anew for
every cycle, because a reload may change it. Uploads of the watcher are
changes of the remote like those of another device; `WatchedEngine` has them
both. The reload of the catalog and the reading of mtimes in
`Record` are one step, the save another.

### StateStore

`main`, `bak`, `tmp[r]` are the three files. A file holds a catalog or
`Garbage`, which `load_raw` rejects; the three formats of `load_raw` are one.
`save` is `SaveBegins` (create), `TempWritten` (write, fsync), `BackupOpens` /
`BackupCloses` / `NoBackup` / `BackupFails` (the copy, whose result is
ignored), `Renamed` or `SaveFails`. Two copies that overlap may leave a mixture
in `.bak`. `load` is `LoadBegins`, `ChecksExists`, `ReadsMain` or
`MainRejected`, and `ReadsBackup`; `unwrap_or_default` of the repository is in
`Returns`. `ReadFails` is an error of `exists` or of a read, whatever the file holds:
like damage it leads to the backup, and from there to the default
(`ReturnsDefault`). `unread` remembers which loads have met one. `Corrupts` damages the catalog file from outside. What was written
survives a crash of the process; power loss with an unsynced `.bak` or
directory is not modelled.

`AtomicCatalog` is one catalog that a save replaces as a whole (`Commit`) or
not at all (`Fail`), and a load that returns a catalog of its window, unless it could
not read it (`FailRead`) or something else has damaged it (`Damage`). The refinement
maps `saved` to the catalog that was last renamed into place, `damaged` to a damage by
`Corrupts`, and `unread` to itself.

### CircuitBreaker and ClientStack

`before_call` (`Admits`, `AdmitsFirstProbe`) and `after_call`
(`Succeeds`, `FailsTransiently`, `FailsPermanently`) are separate steps of any
number of callers. `elapsed` and `failures` are counted up to the limits they
are compared with. `calls[c]` is the call of `c` that runs: `clean` as long as the
backend has been `healthy` all along, so that it cannot fail with a transient
error, else `doubtful`.

`create_backend` and `CloudSyncBuilder::build` put a provider behind five layers,
which `ClientStack` follows from the outside in:

| Layer | Actions |
| --- | --- |
| `RateLimitBackend`: an upload is charged before the call | `Calls`, `Resumes` |
| `RetryBackend` | `Tries`, `Refused`, and the retry after a transient error |
| `CircuitBreakerBackend` | those of `CircuitBreaker` |
| `RateLimitingBackend`: any transfer is charged after it succeeded | `Finishes` |
| `SimulatedFallback` | `Diverted`, `DivertedMisses` |
| `OAuthTokenManager` | `UsesCachedToken`, `Refreshes`, `RefreshGrants`, `RefreshDenied`, `Expires` |
| the provider | `Served`, `Misses`, `Breaks`; `Revokes`, `Authorises` from outside |

The fallback sits *below* the breaker: an authentication error becomes a result
of the simulation and counts as a success. An error of the token endpoint is
always an authentication error (`utils.rs:228`), so that an outage of the token
endpoint diverts calls too. Left out: what remains in a token bucket (a transfer
finds enough or waits), a limit for downloads, metrics and logging, and `start_resumable_upload`, which
never falls back. `max_attempts = 0` acts like 1.

### Watcher

`events` is the channel from `notify`, `job[t]` what a spawned task is doing.

| Action | Code |
| --- | --- |
| `UserWrites`, `UserDeletes` | a change and its event |
| `PausesOrResumes` | the commands `pause` and `resume` |
| `Handles` | the main loop takes an event: `DropsWhilePaused`, `HandlesModify`, `HandlesRemove` |
| `TakesLock` | the lock of the file, then the debounce delay |
| `UploadReads`, `UploadArrives`, `UploadFails` | one turn of the retry loop |
| `DeleteArrives`, `DeleteFails` | the deletion task, which takes no lock |

Abstractions: one backend; a write is one event, whatever the editor does;
events of a rename (`Modify(Name)`) are no events, because the code ignores
them; directories, ignore rules and `trigger_full_sync` are left out; the
channel is unbounded, since a full one makes `notify` wait. A simulated backend
gives the remote file the mtime that the local file has when the copy ends.

`WatchedEngine` instantiates `Watcher` on the variables of `SyncEngine`. What a
cycle does to a local file is an event too, and what the watcher does to the
remote is seen by the next scan. No step of the watcher touches the catalog.

### Storage clients

`client` is the provider that is configured. `call[c]` is what the task `c` is
doing: an operation, the step it has reached, the attempts left. Google Drive
knows ids, not paths, and takes two items of one name: `drive[i]` is the item
with id `i`. For the others `objects[p]` holds the versions of a file and
`folders` the folders that exist.

| Action | Code |
| --- | --- |
| `BeginsUpload`, ..., `BeginsList` (`Storage`) | the seven methods of the backend |
| `Retries`, `Refused`; `IsLost` in the others | `execute_with_retry`, without and with an effect of the request |
| `Crash`, `ExpiresB2` | the process is killed; B2 withdraws a token |
| `Finds`, `FindsNothing`, `Creates`, `MisreadsError` (`GoogleDrive`) | the walk from name to name, `get_or_create_*_id` |
| `ReadsPage`, `ReadsLastPage`, `MisreadsPage` | the loop over `nextPageToken` |
| `UploadsTo...`, `DownloadsFrom...`, `DeletesFrom...`, `Lists...` (`ObjectStores`, `FileTrees`) | the last request of a call to that provider |
| `GetsBucketId`, `GetsUploadUrl`, `FindsVersion` | B2's cached authorisation and its two-step deletion |
| `EnsuresParentsOn...`, `MakesDirs...`, `MakesFolderOn...` | the folders above a file, one request each |
| `Opens...Session`, `Finishes...Session` | chunked uploads |
| `ResolvesOnMega`, `MakesFolderOnMega` | `resolve_node`: one snapshot of all nodes, then the folders that it lacks |
| `LooksOnMega`, `ReplacesOnMega` | the second snapshot and the deletion of the old file before a MEGA upload |

Calls overlap as they like, also on one file: nothing in the program orders them
(`main.rs:510`, `control.rs:306`, `watcher.rs:390`). A second call of Google Drive or
MEGA that looks before the first one has created makes a second item (`drive`; on MEGA
a second version in `objects[p]`, a second folder in `twice`), and later calls take
either. A file that two calls fill at the same time may end up with the bytes of
either or with a mixture (`Fills`). On Google Drive a call that has resolved an item
which another one deletes then fails (`MissesItem`).

`kept[p]` is a history variable: what the calls may have left at a path. After a
success that is what the call was to leave, and what those may leave that ran at the
same time for that file (`others` of a call); after a failure or crash what was
there before remains possible, and so does a half-done effect (`Halfway`). Around a
rename or copy that another call meets it is anything (`Mixed`). `raced` notes, for the
two clients that look before they create (`LooksFirst`), the files that two calls at a
time were for and the folders that two were to make; a path is `Clean` if neither it
nor a folder above it is among them. `mistaken` is set when a client takes an error for an answer: the
query or page of Google Drive whose status nobody looks at, a Google copy whose
answer was lost, an error of pCloud in a body with status 200, the list status of
Dropbox and OneDrive, and OneDrive's copy, which is only accepted (202) and
may be made later or never.

Abstractions: a request takes effect before the client gives it up or never; the
media upload is one request, and so is a download; a service applies the requests
one after the other; a local copy or upload that has opened its file finds it again
by its path; the engine downloads what it has listed and moves files to paths where
nothing can be.

### DaemonControl

| Variable | Code |
| --- | --- |
| `paused`, `syncing`, `backends`, `errors`, `limiter` | fields of `DaemonState` |
| `lock` | the command that holds the mutex over an `await` |
| `request`, `calls` | a connection: its command, and the backend calls it still makes |
| `cycle`, `health`, `verdict` | the backends that a cycle or the health check has still to visit |
| `main`, `stops` | the main loop and the shutdown channel |
| `config`, `started`, `window`, `down` | the configuration file and the world |

Each command of `handle_control_command` is an action (`PausesOrResumes`,
`Reloads`, `Syncs`, `Stops`, `Resolves`, `Clears`, `Plans`), as are those of the app
(`App...`, `GetsConfig`, `SavesConfig`). The periodic loop is `Wakes`,
`ReadsBackends`, `Visits`, `EndsCycle`; the health check `HealthBegins`,
`HealthLists`, `HealthRecords`, and nothing else changes `errors` (a reload leaves
them alone); the schedule `AdjustsRate`; the main loop
`EventArrives`, `HandlesEvent`, `Exits`. Commands that only read share `status`.
`conflicts` is always empty, because nothing records one, so the resolution
`skip` is left out. Also left out: the single-shot and clear-remote modes, event
subscribers, and what the interfaces display.

### Backup, EncryptedFile, ChangeFeed

`Backup`: `ScansSource` and `ScansDestination` make the two lists, `Skips`, `Downloads`
and `Uploads` are the loop, `MissesSource`, `Fails` and `BreaksOff` a `?` that ends
the scan or a restart that also loses the history. The
source is a local directory, the destination another one or a provider behind
`SimulatedFallback`. All files are in one folder; names that differ in case only
(which `to_lowercase` mixes up) and reads of a half-written file are left out.
The history variable `unsure` names the files that the history only seems to know: taken
for equal by their size, diverted to the simulation, or replaced by a
copy that broke off.

`EncryptedFile` has sizes only: the cipher makes sure that chunks cannot be changed
or moved. The chunk size is the real one, and the lengths lie around its
multiples. `cut` says that `upload` found the file shorter than when it
opened it; then it goes on for ever (`encryption.rs:113`), and `MaxChunks` ends it.

`ChangeFeed`: a cursor is a position in the log of the service; a page reports the
files that changed in between as they are when it is requested. OneDrive and Google
Drive report names without folders, so the property speaks of files in the root
folder with a name of their own, and a file that is deleted for good comes without a
name and is missed. The follower is external.

## 3. Runs

| Run | Result | Distinct states | Question |
| --- | --- | --- | --- |
| `SyncEngine_chaos` | holds | 734,547 | `TypeOK`, `UnchangedMeansEqual` with two runners, dry runs, failures, crashes, edits |
| `SyncEngine_edits` | holds | 396,972 | `PathsSettle`, `EditsAreNotOverwritten` |
| `SyncEngine_oneway` | holds | 420,687 | `OneWayLeavesLocalAlone`, `NoDeletionsMeansNone` with failures, crashes, edits |
| `SyncEngine_mirror` | holds | 27,542 | `OwnUploadsNeverConflict`, `SharedPathsAreInBase`, `RemoteMirrorsLocal` |
| `StateStore_atomic` | holds | 979,350 | `SavesAtomically`, `LastGoodCopyIsKept`, `LoadSurvivesDamage` with two runners, crashes, failing file operations (reads, too) and damage |
| `ClientStack_outages` | holds | 55,646 | `StackTypeOK`, `FailureKeepsItOpen`, `RecoversAfterOutage`, `CallsEnd`, `CallersRecover`, `SimulationFollowsAuthorisation` |
| `Parts_separately` | holds | 528,882 | watcher: `UploadsArriveInOrder`, `EditsReachRemote`; backup: `RecordedIsCopied`, `DestinationCatchesUp`; encryption: `SizesAgree`, `MissingEndShows`; feeds: `FollowersCatchUp` |
| `StorageClients_files` | holds | 1,252,354 | `TypeOK`, `OneFilePerPath`, `KeptIsThere`, `DownloadsWhatWasLeft`, `ListsEveryFile`, `RenameKeepsContent` for each of 15 providers, with calls that overlap on files and folders |
| `DaemonControl_commands` | holds | 409,572 | `TypeOK`, `SyncingIsExact`, `SyncingEnds`, `CommandsAreAnswered`, `StopStops`, `HealthIsNoticed`, `RemovedBackendsAreLeft`, `PauseComesToRest`, `RateFollowsWindow` |
| `SyncEngine_failedupload` | violated | | a failed upload ends in the deletion of the local file |
| `SyncEngine_overwritten` | violated | | an edit before the end of the cycle is replaced by the older remote version |
| `WatchedEngine_conflict` | violated | | what the watcher uploads is a conflict for the next cycle |

Every violated run states a sentence of the documentation or of a comment,
which its finding in `PROJECT.json` quotes.

### Bounds

* *Paths*: one, or two with the same file name so that a move can be detected.
  The planner treats paths independently except for moves, which need two.
* *Contents*: an empty file, which is the only content without checksums that
  converges, and two of the same length, which only the time tells apart.
* *Runners*: two where cycles overlap; the code has no third.
* `MaxEdits` bounds user writes, `MaxClock` the time at which a cycle may still
  start. The runs leave room for at least two full cycles after the last edit
  where a property speaks of the next cycle. Cycles stop at `MaxClock`, so
  deadlock is not checked for `SyncEngine`.
* `MaxCorruptions = 1`: a second damage before the next save may hit the backup
  as well, which no store survives.
* *Callers* of a client: two, so that a call from before the trip meets a probe, a
  refresh meets a caller that waits for the token, and a success meets a failure.
  `FailureThreshold`, `RecoveryTimeout`, `ProbeThreshold` and `MaxAttempts` are 2,
  so that each counter has a value between zero and its limit.
* *Tasks*: three of the watcher at a time, so that one waits for a lock that a
  second holds while a third deletes. `MaxFaults = 2` is one less than
  `MAX_SYNC_ATTEMPTS`: with one more fault all tries of the last upload may fail,
  and only the next cycle repairs it.
* *Storage clients*: a file in the root folder and one of the same name two
  folders below, so that a query that mixes up parents finds the wrong one, two
  folders must be made, and the root has two items for two pages. Three calls of two
  tasks are an upload and two calls that meet at its file or folders, or one that
  comes after both. Two attempts and two faults let a retry fail too; Google Drive,
  whose walks have most requests, gets one fault in this run (with two it passes alone,
  4,127,288 states, as MEGA, the simulation, B2, S3 and SFTP do with four calls).
  Where an id is to be made and all are taken, the request does not happen; four are
  enough for both folders and both files, or for the folders and a file twice. Calls stop at
  `MaxCalls`,
  so deadlock is not checked. Contents and callers are symmetric; no liveness is
  checked in this run.
* *Daemon*: two clients and two backends, so that one command waits for another and
  a reload removes one backend and leaves one; two spawned cycles and the periodic
  one. `MaxTurns = 3` counts everything that comes from outside: commands, edits of
  the configuration, outages, windows, events and deaths together. After them the
  system only comes to rest, or turns in its own loops, which is what the liveness
  properties are about. A process that has
  ended need not be started again, so deadlock is not checked.
* *Backup*: two files of which each can stop the scan of the other, two writes and
  one failure or restart; (3, 1) and (2, 2) hold as well.
* *Encryption*: up to two chunks, with lengths one byte, and one overhead of a chunk,
  around the border of a chunk; `MaxChunks = 3` is one more than a file of that
  length has.
* *Feeds*: two files of one name and a third, three changes, so that one can come
  before the list, one between two pages and one after; two lost requests are all
  attempts of one fetch.

### Where the properties stop holding

The constants of the passing runs are part of what they say:

* `SyncEngine_mirror` has a backend that keeps modification times. On a server
  that stamps uploads itself, `orchestrator.rs:230` records a remote time that
  the server never reports, and the second edit of a file is a conflict with
  the engine's own upload. For the same reason a downloaded file is downloaded
  again in every two-way cycle, which `SyncEngine_edits` shows to be harmless.
* `SyncEngine_edits` has no failures: a copy that breaks off leaves a truncated
  file with a new time, which the next cycle takes for an edit.
* `SavesAtomically` and `LastGoodCopyIsKept` speak of the time before the catalog file is
  damaged from outside, `LoadSurvivesDamage` of one damage between operations
  that neither overlap, fail nor are killed, and read errors count as failures
  (`calm`): the save that follows
  damage copies the damaged catalog over the good backup (`state_io.rs:152`)
  before the new one is renamed into place, so a crash in between loses both.
* `SavesAtomically` promises nothing to a load that meets a read error. `load()` takes
  any error of a read for damage (`state_io.rs:43`, `:86`, `:96-98`) and falls back to
  the older `.bak`, or with that unreadable too to an error, which the repository turns
  into an empty catalog: a good catalog that cannot be read at the moment is replaced by
  an older or an empty one, and the next save makes that permanent. `SyncEngine` has
  loads without read errors only.
* `SyncEngine_edits` has no edits between the beginning and the end of a cycle.
  `SyncEngine_overwritten` allows them: an edit between the upload and the
  reading of its mtime (`orchestrator.rs:230`) is replaced by the version that
  was uploaded before. `SyncEngine_chaos` has no edits between the copy and the
  mtime of a simulated upload (`local_sim.rs:87`): such an edit leaves the old
  content on the remote with the time of the new one and is never uploaded.
* `SyncEngine_mirror` has no server-side moves: they fall through to `_ => {}`
  (`orchestrator.rs:267`), so that `SharedPathsAreInBase` fails: unless both sides
  have checksums, or the file is edited in between, the next cycle finds a renamed file
  on both sides without an entry and takes it for a conflict (`planner.rs:157`).
* `EditsReachRemote` leaves out paths that a user deleted or that changed while
  the daemon was paused. A deletion takes no lock (`watcher.rs:390`) and may reach
  the backend after the upload of a file that was written again.
* A probe that fails with an error that is not transient leaves the breaker in
  HalfOpen (`circuit_breaker.rs:141`), although
  `docs/SECURITY_AND_RELIABILITY.md:95` says "Any probe failure".
* The properties of the storage clients are stated for runs in which the client was
  not `mistaken`. Google Drive reads `res["files"]` without a look at the status
  (`google_drive.rs:221`), so that an error makes it create what is there already,
  and ends a list with `Ok` (`google_drive.rs:570`): the engine would delete the
  files that are missing. pCloud answers errors with status 200
  (`pcloud.rs:122` looks at the status alone), Dropbox and OneDrive do not look at
  the status of a list, and OneDrive's `copy` returns `Ok` before the copy is
  made (`onedrive.rs:173`).
* With Google Drive and MEGA they are stated for paths that no two calls raced for
  (`Clean`). Both clients look and then create (`google_drive.rs:221`,
  `mega_provider.rs:235`, where a comment says "to prevent duplicates"), and no
  lock keeps two uploads of a file, or of two files into a new folder, from looking
  before either creates: there are two of them then, and either is read, replaced or
  deleted. The tasks of the watcher and overlapping cycles do that. Of the other clients
  the properties hold whatever overlaps.
* A rename or copy that another call meets at a file leaves anything: S3 deletes the
  source after the copy (`s3.rs:129`), also what was uploaded there in between. So
  `KeptIsThere` says nothing there, and `RenameKeepsContent` leaves such a rename out.
* B2 keeps versions: a deletion reveals the version before it (`b2.rs:341`). GCS,
  Azure, IPFS and Box list the first page only, S3 and pCloud report files as if the
  listed folder were the root, so `ListsEveryFile` leaves them out. IPFS pins are
  never replaced.
* `download` and `delete` of Google Drive create a file that is not there
  (`google_drive.rs:487`, `:510`), although `core/src/testing.rs:69` expects NotFound: only
  files that are there are downloaded.
* `SyncingIsExact` counts the cycles that honour the flag. The periodic loop of the
  daemon never sets it (`main.rs:472`), although `lib.rs:46` of the daemon says "manual
  or automatic"; a `stop` of the app clears it under a running cycle
  (`commands.rs:187`, history variable `cleared`).
* `HealthIsNoticed` asks for a correct status of the backends that stay configured. A
  reload does not touch `connection_errors` (`control.rs:243-268`), and the health check
  goes through the backends of the moment (`main.rs:435`): the error of a backend that
  was removed stays in the status (`control.rs:38`) until it is configured again or the
  process ends. The property says that it stays, not that it is right.
* HalfOpen lets in every caller, although `docs/SECURITY_AND_RELIABILITY.md:85-110`
  describes single canary probes; the properties of `ClientStack` allow for it.
* `CallersRecover` and `SimulationFollowsAuthorisation` ask for what is so *in the end*: a
  call that an open breaker refuses uses up its attempts on refusals
  (`retry.rs:77`) and may fail long after the provider is back; a revoked token
  stays cached until it expires.
* `SimulationFollowsAuthorisation` has authentication errors that come from the token
  alone. `utils.rs:247` maps every 401 and 403 to `AuthenticationExpired`, so that a
  call that an authorised account is not allowed to make is diverted to the simulation as
  well; that is not modelled.
* `RecordedIsCopied` leaves out `unsure` files. After a restart `synced_history` is empty,
  and a file of another provider is compared by its size alone (`main.rs:214` of the
  backup), although its `README.md:11` speaks of checksums and times; a file
  that went to the simulation is recorded and never sent to the provider.
* `MissingEndShows` asks that the *length* tells: `download` itself ends with `Ok` when the
  stream ends between two chunks (`encryption.rs:214`), without a look at `is_last`.
* `FollowersCatchUp` leaves out files in folders and files deleted for good with OneDrive and
  Google Drive, whose changes carry a bare name or none (`google_drive.rs:689`,
  `onedrive.rs:455`).
* A conflict is only counted (`executor.rs:236`), under every policy, although
  `docs/STATE_AND_STORAGE.md:58` says "Resolved per policy". `LeavesConflict` has
  the code as it is, and `RemoteMirrorsLocal` is checked where none arises.
* `CircuitBreaker` counts a success in HalfOpen whichever call it comes from,
  also one admitted before the breaker opened, so no property says that it
  closes on probes only.

### Fairness

* `SyncEngine!FairSpec`: weak fairness of each runner. The periodic loop of
  `main.rs` sleeps and starts a cycle forever; a started cycle has no waits
  other than backend calls, which end or fail.
* `ClientStack!FairSpec`: time passes and tokens expire; the runtime runs every task
  (weak fairness of `Steps`); the lock of the token cache serves its waiters in
  turn, as a tokio `RwLock` does (strong fairness of reading or refreshing);
  neither a healthy provider nor the simulation answers every request with a
  permanent error, which is an assumption about the backend.
* `Watcher`: the main loop takes the next event, every task goes on, and
  every call ends (the last is an assumption about the backends).
* `Backup`: the loop of `main` never ends, and every call ends.
* `ChangeFeed`: the follower goes on; faults are bounded.
* `DaemonControl!Fairness`: each connection, each cycle, the loops and the main loop go on,
  and the mutex of tokio serves its waiters in turn. `Exits` is fair only
  together with `HandlesEvent`, since `select!` takes either. Nothing is fair about
  what comes from outside. The properties are of the form `[]<>P` or
  `<>[]P => <>[]Q`, as the process may be started anew.
* The state store, the storage clients and the encryption have no liveness property.

## 4. Proofs

| Theorem | States |
| --- | --- |
| `SyncEngineProofs!TypeCorrect` | `Spec => []TypeOK` |
| `SyncEngineProofs!UnchangedIsEqual` | `Spec => []UnchangedMeansEqual`, assuming `Undisturbed` |
| `SyncEngineProofs!OneWayIsOneWay` | `Spec => OneWayLeavesLocalAlone` |
| `SyncEngineProofs!NoDeletionsIsKept` | `Spec => NoDeletionsMeansNone` |
| `SyncEngineProofs!EditsSurvive` | `Spec => EditsAreNotOverwritten`, assuming `Quiet` |
| `SyncEngineProofs!CyclesSettle` | `Spec => []PathsSettle`, assuming `Quiet` |
| `SyncEngineProofs!CyclesMirror` | `Spec => []RemoteIsACopy`, assuming `Quiet`, no server-side moves and `PreservesMtime` |
| `SyncEngineProofs!SharedPathsAreCatalogued` | `Spec => []SharedPathsAreInBase`, assuming `Quiet` and no server-side moves |
| `SyncEngineProofs!OnlyUsersDeleteLocal` | `Spec => OnlyRemoteDeletionsDeleteLocal`, assuming the same |
| `SyncEngineProofs!OwnUploadsAreRecognised` | `Spec => []OwnUploadsNeverConflict`, assuming the same and `PreservesMtime` |
| `StateStoreProofs!StoreTypeCorrect` | `Spec => []TypeOK` |
| `StateStoreProofs!StoreIsAtomic` | `Spec => SavesAtomically` |
| `StateStoreProofs!GoodCopyIsKept` | `Spec => LastGoodCopyIsKept` |
| `StateStoreProofs!DamageIsSurvived` | `Spec => LoadSurvivesDamage` |
| `ClientStackProofs!BreakerTypeCorrect` | `Spec => []TypeOK` |
| `ClientStackProofs!FailureReopens` | `Spec => FailureKeepsItOpen` |
| `ClientStackProofs!StackRunsTheBreaker` | `StackSpec => Spec` (of the breaker) |
| `ClientStackProofs!StackTypeCorrect` | `StackSpec => []StackTypeOK` |
| `ClientStackProofs!StackFailureReopens` | `StackSpec => FailureKeepsItOpen` |
| `WatcherProofs!WatcherTypeCorrect` | `Spec => []TypeOK` |
| `WatcherProofs!UploadsKeepTheirOrder` | `Spec => UploadsArriveInOrder` |
| `BackupProofs!BackupInvariant`, `BackupTypeCorrect` | `BackupSpec => []BackupInv`, `[]BackupTypeOK` |
| `BackupProofs!RecordedFilesAreCopied` | `BackupSpec => []RecordedIsCopied` |
| `DaemonControlProofs!ControlTypeCorrect` | `Spec => []TypeOK` |
| `DaemonControlProofs!SyncingMeansOneCycle` | `Spec => []SyncingIsExact` |
| `EncryptedFileProofs!ChunksAreFull` | `EncryptionSpec => []EncryptionInv` |
| `EncryptedFileProofs!SizesAlwaysAgree` | `EncryptionSpec => []SizesAgree` |
| `EncryptedFileProofs!MissingEndAlwaysShows` | `EncryptionSpec => []MissingEndShows` |
| `StorageClientsProofs!StorageTypeCorrect` | `Spec => []TypeOK`, for all clients |
| `StorageClientsProofs!OneFilePerPathHolds` | `Spec => [](client \notin LooksFirst \/ raced = {} => OneFilePerPath)` |
| `StorageClientsProofs!KeptIsThereHolds` | `Spec => [](client \notin LooksFirst \/ raced = {} => KeptIsThere)` |
| `StorageClientsProofs!DownloadsDeliverWhatWasLeft` | `Spec => [](client \notin LooksFirst \/ raced = {} => DownloadsWhatWasLeft)` |
| `StorageClientsProofs!ListsAreComplete` | `Spec => [](client \notin LooksFirst \/ raced = {} => ListsEveryFile)` |
| `StorageClientsProofs!RenamesKeepContent` | `Spec => [](client \notin LooksFirst \/ raced = {} => RenameKeepsContent)` |

They hold for every set of paths, contents, runners, callers, configurations and
tasks, for files of any length and for all thresholds, under the named assumptions on
the constants (`PlannerAssumption`, `EngineAssumption`, `StoreAssumption`,
`BreakerAssumption`, `RetryAssumption`, `WatcherAssumption`, `BackupAssumption`,
`ControlAssumption`, `BackendsAssumption`, `EncryptionAssumption`, `StorageAssumption`), which TLC
evaluates in every run of the module. The hypotheses that the table names are
choices of constants; each is needed, as said below.

**UnchangedIsEqual.** `UnchangedMeansEqual` is not inductive: it says nothing
about files that are in flight or about entries that are not saved yet. The
invariant `SyncInv` adds three facts. *StampInv*: two versions with the same
modification time have the same content, on whatever side and path they are.
*EntryInv*: every entry, saved or on its way, has the same time for both sides,
unless it is the entry of an empty file, and the scanned local trees, from which
converging entries are made, have no checksums. *CopyInv*: between the two
halves of a simulated upload the remote file has the content of the local one. A
path that matches its entry on both sides then has either one time, hence one
content, or no bytes at all. `CopyInv` needs that nothing comes between the
halves: `Undisturbed` says that the backend stamps files itself, or that there
is one runner and no edit while it uploads. With an edit during an upload the
property fails; two runners on a simulated backend are only
model-checked (`SyncEngine_chaos`).

**OneWayIsOneWay, NoDeletionsIsKept.** The inductive part is `ObeysMode`: no
action left to run is one that the mode forbids. It rests on `PlanObeysMode`
about the planner, where moves are harmless because they come out of
`candidate_deletions`.

**EditsSurvive, CyclesSettle, CyclesMirror, SharedPathsAreCatalogued,
OnlyUsersDeleteLocal, OwnUploadsAreRecognised.** These speak of cycles that nothing disturbs (`Quiet`): one
runner, no failed call and no crash, and users who edit between the cycles, in every
mode, under every policy, with any numbers of paths and contents. They share `QuietInv`: what was scanned so far
is what is there (`ScanInv`), and `execute` works through a part of the plan
(`PlanInv`). On top of it:

* `AgreeInv` for `EditsSurvive`. The planner knows an edit by its time alone, so the
  entry of a path must not have the time of a version that the engine did not leave
  there (`SinceLocal`, `SinceRemote`); a user who moves a file moves its time too, which
  is why `SinceLocal` looks at all paths and why no two local files may have one time
  (`LocalDistinct`). While a cycle is touching a path this cannot hold of its entry
  (`Settled`); instead, no action left to run replaces an edit (`Careful`), what was run
  left both sides in agreement (`LeftInOrder`), and an entry that the planner made
  itself has a time that no other file has (`Convergent`).
* `ListInv` for `SharedPathsAreCatalogued` and `OnlyUsersDeleteLocal`. While nobody else writes to
  the remote, the saved entries are exactly those of the remote paths, except during
  a cycle, when this holds of the paths it has no action for (`Kept`); so no action
  ever deletes a local file or creates one (`Keeping`).
* `MirrorInv` for `OwnUploadsAreRecognised`: each entry even has the time and size
  of the remote file, so that the planner only uploads and deletes remotely (`Mirroring`).
* `SettleInv` for `CyclesSettle`, the decision matrix of `docs/STATE_AND_STORAGE.md`: every
  row but that of the conflict ends with both sides equal. The match on (local, remote,
  base) puts a path into one of eight sets, so that no two actions are about the same path
  (`PlannedApart`), and leaves out only what is in sync (`PlanSettles`). That a path with
  two unchanged sides is in sync is `UnchangedMeansEqual`. An action left to run finds what it
  needs (`Due`), and the path of one that was run stays in sync, as no other action is
  about it. What may stay apart is named in `PathsSettle`: conflicts, which `execute` only
  counts (`executor.rs:236`), files that a one-way mode leaves to the remote, and the
  target of a detected move, whose content nobody compares.
* `CyclesMirror` puts `SettleInv` and `MirrorInv` together: if nobody else writes to the
  remote there are no conflicts, and nothing to leave to the remote but what
  `OneWayNoDeletions` must not delete. One cycle is then enough for a copy, which is what
  `RemoteMirrorsLocal` lacks fairness for. `RemoteIsACopy` is an invariant of no run; with it
  `SyncEngine_mirror` passes too, in each of the three modes.

TLC finds each hypothesis needed. With failures all of them fail; with
server-side moves `SharedPathsAreInBase`, `OwnUploadsNeverConflict` and `RemoteIsACopy` do;
without `PreservesMtime` the last two do; with edits during a cycle `EditsAreNotOverwritten`,
`PathsSettle` and `RemoteIsACopy` do; with a second runner `RemoteIsACopy` does. Of the
others TLC finds no violation with a second runner within its bounds, but `QuietInv` does
not hold there (one runner changes what the other has scanned), so that case is not
proved.

**StoreIsAtomic.** Until something damages the files, the invariant relates the
three of them: the catalog file is absent or holds the last renamed catalog, and
while it is absent nothing has been saved. A load that has gone on to the backup without
a read error therefore began before the first save, and what the backup holds was in place
since. Every step is then a step of `AtomicCatalog` or a stutter. The abstract catalog
may be damaged, and a load may fail to read it; it promises nothing after the one and
nothing to the other, so the theorem needs no assumption on damage or read errors, and
says nothing about the loads that meet them.

**DamageIsSurvived.** Outside the middle of a save, the catalog file is the last catalog or
garbage, and the backup is the catalog before it (`Kept` in `CalmInv`), so that a load
that rejects the one finds the other. That is so until a second damage, and as long as
operations come one after the other and end: a crash between the copy of a damaged file
and the rename loses both, and `DamageInv` says nothing from then on.

**FailureReopens.** Outside Closed, `failures` is at its threshold: entering
HalfOpen does not reset it, so the next transient failure reopens.

**UploadsKeepTheirOrder.** The inductive invariant orders three versions of a
file by their times: the one that was last uploaded, the one a task is sending,
and the one in the directory (`SentInOrder`, `LocalIsNewest`). The first stays
behind the second only if no other task sends the same file, which is what the
lock is for (`TakeTurns`).

**StackRunsTheBreaker.** Every action of the stack either leaves the variables of
the breaker alone or takes one of the breaker's own actions; the fairness of the
breaker is not part of it. What holds of every behaviour of the breaker therefore holds
in the stack, `StackFailureReopens` for one. `StackTypeCorrect` also ties the
two together: a call is known to the breaker exactly while it is below it.

**RecordedFilesAreCopied.** `RecordedIsCopied` speaks of the source and the history,
while the program works on a list that may be out of date. Times only grow, so a
version that was written later differs from all that were listed or recorded
(`Times`). `ListedIsRecent`: a file that the history has as it is in the source has
been listed like that too, so that recording what was listed does not bring back an
older version. `SendsWhatIsThere`: if the file on its way still is in the source as
it was listed, then what was downloaded is its content, although it was read later
than the list. `LocalIsAsFound`: a local destination is changed by the loop only,
so that comparing with the list is comparing with the file.

**SyncingMeansOneCycle.** `SyncingIsExact` counts cycles; inductive is that one of
them runs and no other (`Busy`), or none (`Idle`). `ControlInv` adds that a process
that has ended has no cycles, so that a start may reset `syncing`, and that what a
cycle has still to visit is a list: neither a step of its visits nor the backends
it reads can then be mistaken for its end. That the backends of a configuration
are a list is `BackendsAssumption`, as `SelectSeq` is defined by recursion.

**ControlTypeCorrect.** What a cycle or the health check has still to visit is the end
of the list of some configuration (`TypeOK`); that needs facts about `Tail` of a list,
and what `SelectSeq` returns is again assumed in `BackendsAssumption`.

**ChunksAreFull, SizesAlwaysAgree, MissingEndAlwaysShows.** `list` divides the length of
an encrypted file by the length of a full chunk with its frame. `EncryptionInv` says
why that counts the chunks: all but the last are full and end before the size that the
file had when it was opened, whatever is added to it. `MissingEndShows` cuts the file
anywhere; the number of whole chunks left is a maximum (`WholeChunks`), which exists by
the well-foundedness of the order on the naturals.

**OneFilePerPathHolds, KeptIsThereHolds, DownloadsDeliverWhatWasLeft, ListsAreComplete,
RenamesKeepContent.** A call fails or is cut off after any of its requests, may be
started from the beginning when it has had its effect, and meets other calls at its
files; nevertheless a file is what the calls may have left there. `HoldsInv` says so of
every file (`PathOK`), and of a call what makes the next request keep it: that what it
leaves when it goes no further is expected (`Standing`), and that what an earlier
request of it has found or left is still so (`AtStep`), unless a call that it has met may
have changed it. Two calls that share a file know of each other: what the one may
leave is among the `others` of the other (`Aware`). A call that succeeds may therefore
narrow `kept` to what it and those leave. `Follows` is what the requests of all 15 clients
have in common, and the two invariants are shown to be kept by it once for all of
them; a call that begins widens what the running ones that it meets expect
(`Joins`).

For the 13 clients that do not look before they create this holds of every behaviour,
overlapping calls included. With Google Drive and MEGA the theorems speak of the states
before any call has begun that has a file, or a folder still to make, in common with a
running one (`raced = {}`). The run covers the paths that are `Clean` after other
paths have raced, which is not proved.

The service of Google Drive would take a second file or folder of the same name, so its
client needs an invariant of its own, `DriveInv`. The items are a *tree*: some function
`loc` gives every id its path, no two ids the same one (`Tree`). A call on its way has
reached the node whose path, with the names that are left, makes up its target, and what it
is about to create is not there (`Walking`). The second half of that survives what the other
calls create because a folder that two running calls are to make is there already
(`Ordered`), which is what `raced = {}` gives. `Owing` is for these calls what `Standing`
is for the others. That the walk from name to name (`Reached`, a recursive function) then
leads to exactly the item at the path is shown by way of the least depth at which it
would not (`ReachedIs`, `LeastIs`).

Every invariant and action property of the passing runs is stated by a theorem, in part
under a hypothesis that the table names. Only
model-checked are the liveness properties, as fairness and `ENABLED` are out of the prover's
reach: `RemoteMirrorsLocal`, the five of `ClientStack` and `Parts_separately` that say that
something comes to an end or catches up (`RecoversAfterOutage`, `CallsEnd`, `CallersRecover`,
`DestinationCatchesUp`, `FollowersCatchUp`), `SimulationFollowsAuthorisation`,
`EditsReachRemote`, and those of the daemon (`SyncingEnds`, `CommandsAreAnswered`, `StopStops`,
`HealthIsNoticed`, `RemovedBackendsAreLeft`, `PauseComesToRest`, `RateFollowsWindow`). So is
what the hypotheses of a theorem leave out: `UnchangedMeansEqual` of two runners on a
simulated backend (`SyncEngine_chaos`), and the storage properties of the clean paths of
Google Drive and MEGA once two calls have raced (`StorageClients_files`).

## 5. Plan

Done: the sync engine with its planner, the state store, the client with its
layers, all storage clients and their change feeds, the watcher and its composition
with the engine, the daemon and its interfaces, the encryption, the backup program.
What is left, in order of what it would add:

1. Directories, filters and resumable sessions in `SyncEngine`, and `clear` and
   `resolve_conflict` composed with it: what a cycle does after them.
2. One abstract backend (a map from paths to contents) that `StorageClients`
   implements while it is not `mistaken`, used by `SyncEngine` in place of its
   own `remote`.
3. The contents of a token bucket with concurrent consumers: one that waits is
   not charged when it goes on (`rate_limit.rs:176`).
4. `RenameDetector` as the greedy walk, checked against the maximal matchings.
5. What `CyclesSettle` leaves open with failures: that the cycles after an outage bring
   everything in sync that no action of the failed cycle was recorded for.

The number of runs is kept small: components that are configured alike, or that
are small and share nothing, are one run over a constant or an initial choice
that selects the variant, and a run that shows a disagreement gives way to one
that covers a new component, its text moving to "Where the properties stop holding".

## 6. Not modelled

* The vendored MEGA client (`mega-rs`): third-party code; `FileTrees` has it as
  `mega_provider.rs` uses it.
* The cryptography of `EncryptedBackend`, signatures of S3 and Azure, and every
  format: conversions without control of their own.
* Metrics, logging and the buffer pool: nothing else reads what they keep.
* Path, filter and ignore rules and checksums: pure functions of strings and bytes,
  which a unit test reaches well.
* The trash manager, which the engine never passes to its executor, and
  `ConflictManager`, into which nothing is ever put.
* `JsonStateStore` follows the protocol of `PostcardStateStore` with another
  encoding. The migration of legacy state files runs before the first cycle.
* What the user interfaces display, the single-shot and clear-remote modes of the
  daemon, and the event stream of its subscribers.
