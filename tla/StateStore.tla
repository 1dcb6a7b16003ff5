----------------------------- MODULE StateStore -----------------------------
(***************************************************************************)
(* PostcardStateStore (state_io.rs) as the engine uses it, through         *)
(* SyncStateRepository: several runners save and load one catalog file,    *)
(* with its .bak beside it and a temporary file for every save.            *)
(*                                                                         *)
(* A file holds a catalog, or Garbage: bytes that load_raw rejects.  The   *)
(* three formats that load_raw tries are one here.  File contents that     *)
(* were written survive a crash; the temporary file is synced before the   *)
(* rename, which the operating system makes atomic.                        *)
(***************************************************************************)
EXTENDS Integers

CONSTANTS
  Runner,          \* the concurrent users of one catalog
  State,           \* the catalogs (SyncState)
  Default,         \* SyncState::default()
  None,            \* no catalog
  Absent,          \* the file does not exist
  Garbage,         \* the file does not hold a catalog
  Crashes,         \* the process may be killed
  Failures,        \* file operations may fail
  MaxCorruptions   \* bound: how often the catalog file is damaged

Bytes == State \union {Garbage}

ASSUME StoreAssumption ==
  /\ Default \in State
  /\ None \notin Bytes
  /\ Absent \notin Bytes
  /\ Garbage \notin State
  /\ {Crashes, Failures} \subseteq BOOLEAN
  /\ MaxCorruptions \in Nat

VARIABLES
  main,            \* the file at `path`
  bak,             \* the file at path.with_extension("bak")
  tmp,             \* tmp[r]: the temporary file of r's save
  pc,              \* pc[r]: what r does next
  value,           \* value[r]: the catalog r is saving
  src,             \* src[r]: what the copy of r to .bak reads
  shared,          \* shared[r]: another copy to .bak overlaps with r's
  answer,          \* answer[r]: what r's last load returned
  corruptions,     \* how often the catalog file was damaged
  \* History: the last two catalogs that were renamed into place, and those
  \* that were in place since r began to load; whether every operation so far
  \* had the files to itself and came to its end; the runners whose load has
  \* failed to read a file.
  latest, before, window, calm, unread

vars == <<main, bak, tmp, pc, value, src, shared, answer, corruptions,
          latest, before, window, calm, unread>>

PCs == {"idle", "write", "backup", "copy", "rename",
        "exists", "read_main", "read_bak", "default"}

TypeOK ==
  /\ main \in Bytes \union {Absent}
  /\ bak \in Bytes \union {Absent}
  /\ tmp \in [Runner -> Bytes \union {Absent}]
  /\ pc \in [Runner -> PCs]
  /\ value \in [Runner -> State \union {None}]
  /\ src \in [Runner -> Bytes \union {None}]
  /\ shared \in [Runner -> BOOLEAN]
  /\ answer \in [Runner -> State \union {None}]
  /\ corruptions \in 0..MaxCorruptions
  /\ latest \in State
  /\ before \in State
  /\ window \in [Runner -> SUBSET State]
  /\ calm \in BOOLEAN
  /\ unread \subseteq Runner

Init ==
  /\ main = Absent
  /\ bak = Absent
  /\ tmp = [r \in Runner |-> Absent]
  /\ pc = [r \in Runner |-> "idle"]
  /\ value = [r \in Runner |-> None]
  /\ src = [r \in Runner |-> None]
  /\ shared = [r \in Runner |-> FALSE]
  /\ answer = [r \in Runner |-> None]
  /\ corruptions = 0
  /\ latest = Default
  /\ before = Default
  /\ window = [r \in Runner |-> {}]
  /\ calm = TRUE
  /\ unread = {}

Goto(r, label) == pc' = [pc EXCEPT ![r] = label]

Alone(r) == \A q \in Runner : q # r => pc[q] = "idle"

-----------------------------------------------------------------------------
(* save *)

\* The temporary file is created, empty.
SaveBegins(r, s) ==
  /\ pc[r] = "idle"
  /\ Goto(r, "write")
  /\ value' = [value EXCEPT ![r] = s]
  /\ tmp' = [tmp EXCEPT ![r] = Garbage]
  /\ calm' = (calm /\ Alone(r))
  /\ UNCHANGED <<main, bak, src, shared, answer, corruptions, latest, before, window, unread>>

\* Slip: without sync_all the rename may reach the disk before the content.
TempUnsynced(r) ==
  /\ pc[r] = "write"
  /\ Goto(r, "backup")
  /\ \E b \in {value[r], Garbage} : tmp' = [tmp EXCEPT ![r] = b]
  /\ UNCHANGED <<main, bak, value, src, shared, answer, corruptions, latest, before, window, calm, unread>>

\* write_all and sync_all.
TempWritten(r) ==
  /\ pc[r] = "write"
  /\ Goto(r, "backup")
  /\ tmp' = [tmp EXCEPT ![r] = value[r]]
  /\ UNCHANGED <<main, bak, value, src, shared, answer, corruptions, latest, before, window, calm, unread>>

\* path.exists() is false: there is nothing to back up.
NoBackup(r) ==
  /\ pc[r] = "backup"
  /\ main = Absent
  /\ Goto(r, "rename")
  /\ UNCHANGED <<main, bak, tmp, value, src, shared, answer, corruptions, latest, before, window, calm, unread>>

Copying == {q \in Runner : pc[q] = "copy"}

\* The copy opens the catalog and truncates the backup.
BackupOpens(r) ==
  /\ pc[r] = "backup"
  /\ main # Absent
  /\ Goto(r, "copy")
  /\ src' = [src EXCEPT ![r] = main]
  /\ bak' = Garbage
  /\ shared' = [q \in Runner |-> \/ shared[q]
                                 \/ q \in Copying
                                 \/ q = r /\ Copying # {}]
  /\ UNCHANGED <<main, tmp, value, answer, corruptions, latest, before, window, calm, unread>>

\* Two copies into one file may leave a mixture.
BackupCloses(r) ==
  /\ pc[r] = "copy"
  /\ Goto(r, "rename")
  /\ bak' \in {src[r]} \union (IF shared[r] THEN {Garbage} ELSE {})
  /\ src' = [src EXCEPT ![r] = None]
  /\ shared' = [shared EXCEPT ![r] = FALSE]
  /\ UNCHANGED <<main, tmp, value, answer, corruptions, latest, before, window, calm, unread>>

\* An error of exists() or of the copy is ignored, whatever it left in the backup.
BackupFails(r) ==
  /\ Failures
  /\ pc[r] \in {"backup", "copy"}
  /\ main # Absent
  /\ Goto(r, "rename")
  /\ src' = [src EXCEPT ![r] = None]
  /\ shared' = [shared EXCEPT ![r] = FALSE]
  /\ calm' = FALSE
  /\ UNCHANGED <<main, bak, tmp, value, answer, corruptions, latest, before, window, unread>>

Renamed(r) ==
  /\ pc[r] = "rename"
  /\ Goto(r, "idle")
  /\ main' = tmp[r]
  /\ tmp' = [tmp EXCEPT ![r] = Absent]
  /\ latest' = value[r]
  /\ before' = latest
  /\ window' = [q \in Runner |-> IF window[q] = {} THEN {}
                                 ELSE window[q] \union {value[r]}]
  /\ value' = [value EXCEPT ![r] = None]
  /\ UNCHANGED <<bak, src, shared, answer, corruptions, calm, unread>>

\* `?` after the write and the rename; the temporary file stays behind under
\* a name that is not used again.
SaveFails(r) ==
  /\ Failures
  /\ pc[r] \in {"write", "rename"}
  /\ Goto(r, "idle")
  /\ tmp' = [tmp EXCEPT ![r] = Absent]
  /\ value' = [value EXCEPT ![r] = None]
  /\ calm' = FALSE
  /\ UNCHANGED <<main, bak, src, shared, answer, corruptions, latest, before, window, unread>>

-----------------------------------------------------------------------------
(* load, with the unwrap_or_default of the repository *)

LoadBegins(r) ==
  /\ pc[r] = "idle"
  /\ Goto(r, "exists")
  /\ answer' = [answer EXCEPT ![r] = None]
  /\ window' = [window EXCEPT ![r] = {latest}]
  /\ calm' = (calm /\ Alone(r))
  /\ UNCHANGED <<main, bak, tmp, value, src, shared, corruptions, latest, before, unread>>

\* Slip: the backup is preferred when there is one.
ChecksBackup(r) ==
  /\ pc[r] = "exists"
  /\ Goto(r, IF bak = Absent THEN "read_main" ELSE "read_bak")
  /\ UNCHANGED <<main, bak, tmp, value, src, shared, answer, corruptions, latest, before, window, calm, unread>>

ChecksExists(r) ==
  /\ pc[r] = "exists"
  /\ Goto(r, IF main = Absent THEN "read_bak" ELSE "read_main")
  /\ UNCHANGED <<main, bak, tmp, value, src, shared, answer, corruptions, latest, before, window, calm, unread>>

Returns(r, s) ==
  /\ Goto(r, "idle")
  /\ answer' = [answer EXCEPT ![r] = s]
  /\ window' = [window EXCEPT ![r] = {}]
  /\ unread' = unread \ {r}
  /\ UNCHANGED <<main, bak, tmp, value, src, shared, corruptions, latest, before, calm>>

ReadsMain(r) ==
  /\ pc[r] = "read_main"
  /\ main \in State
  /\ Returns(r, main)

\* Slip: a catalog that cannot be read counts as empty.
MainRejectedForGood(r) ==
  /\ pc[r] = "read_main"
  /\ main \notin State
  /\ Returns(r, Default)

MainRejected(r) ==
  /\ pc[r] = "read_main"
  /\ main \notin State
  /\ Goto(r, "read_bak")
  /\ UNCHANGED <<main, bak, tmp, value, src, shared, answer, corruptions, latest, before, window, calm, unread>>

ReadsBackup(r) ==
  /\ pc[r] = "read_bak"
  /\ Returns(r, IF bak \in State THEN bak ELSE Default)

\* An error while a file is looked for or read, whatever the file holds: no error
\* tells it from a file that is not there or is damaged.
ReadFails(r) ==
  /\ Failures
  /\ \/ pc[r] \in {"exists", "read_main"} /\ main # Absent /\ Goto(r, "read_bak")
     \/ pc[r] = "read_bak" /\ bak # Absent /\ Goto(r, "default")
  /\ calm' = FALSE
  /\ unread' = unread \union {r}
  /\ UNCHANGED <<main, bak, tmp, value, src, shared, answer, corruptions, latest, before, window>>

ReturnsDefault(r) == pc[r] = "default" /\ Returns(r, Default)

-----------------------------------------------------------------------------
Crash ==
  /\ Crashes
  /\ \E r \in Runner : pc[r] # "idle"
  /\ tmp' = [r \in Runner |-> Absent]
  /\ pc' = [r \in Runner |-> "idle"]
  /\ value' = [r \in Runner |-> None]
  /\ src' = [r \in Runner |-> None]
  /\ shared' = [r \in Runner |-> FALSE]
  /\ window' = [r \in Runner |-> {}]
  /\ calm' = FALSE
  /\ unread' = {}
  /\ UNCHANGED <<main, bak, answer, corruptions, latest, before>>

\* Something else damages the catalog file.
Corrupts ==
  /\ corruptions < MaxCorruptions
  /\ main \in State
  /\ main' = Garbage
  /\ corruptions' = corruptions + 1
  /\ UNCHANGED <<bak, tmp, pc, value, src, shared, answer, latest, before, window, calm, unread>>

Saves(r) ==
  \/ \E s \in State : SaveBegins(r, s)
  \/ TempWritten(r) \/ NoBackup(r)
  \/ BackupOpens(r) \/ BackupCloses(r) \/ BackupFails(r)
  \/ Renamed(r) \/ SaveFails(r)

Loads(r) ==
  \/ LoadBegins(r) \/ ChecksExists(r)
  \/ ReadsMain(r) \/ MainRejected(r) \/ ReadsBackup(r)
  \/ ReadFails(r) \/ ReturnsDefault(r)

Next ==
  \/ \E r \in Runner : Saves(r) \/ Loads(r)
  \/ Crash
  \/ Corrupts

Spec == Init /\ [][Next]_vars

-----------------------------------------------------------------------------
(* Properties. *)

Abstract == INSTANCE AtomicCatalog
              WITH saved <- latest, pending <- value, damaged <- corruptions > 0

(* Saving and loading through three files is as good as one atomic catalog,
   whatever crashes, whatever fails in a save, and whatever overlaps, as long as
   the files can be read: a load that meets no read error returns a catalog that
   was in place at some moment of the load, although it looks at the two files one
   after the other (state_io.rs:85-159), unless something else has damaged the
   catalog file.  A load that does meet one may return an older catalog or the
   empty one without saying so: load() takes any error for damage
   (state_io.rs:43, :86, :96-98), and its caller takes an error for an empty
   catalog. *)
SavesAtomically == Abstract!ASpec

(* A load that ends returns one of the last two catalogs that were saved, even
   if the catalog file was damaged once in between, as long as no operation or
   read failed, was killed or overlapped with another (state_io.rs:23 "recovering
   from backup if corrupt").  Once: the save after the damage copies the damaged
   file over the backup. *)
LoadSurvivesDamage ==
  [][\A r \in Runner :
       calm /\ corruptions <= 1 /\ answer[r] # answer'[r] /\ answer'[r] # None =>
         answer'[r] \in {latest, before}]_vars

(* Unless something else damages the catalog file, no step of save() or load()
   destroys the only good copy of the catalog: if the process is killed right
   after it, one of the two files can still be loaded (state_io.rs:26 "atomically
   with crash resilience"). *)
LastGoodCopyIsKept ==
  [][corruptions' = 0 /\ (main \in State \/ bak \in State) =>
       main' \in State \/ bak' \in State]_vars

=============================================================================
