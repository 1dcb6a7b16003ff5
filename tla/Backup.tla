------------------------------- MODULE Backup -------------------------------
(***************************************************************************)
(* The backup program (cloud_sync_backup/src/main.rs): scan after scan,    *)
(* perform_backup lists the source and the destination and copies every    *)
(* file that it takes for changed through a temporary file.  What it has   *)
(* seen of the source is kept in memory only, in synced_history.           *)
(*                                                                         *)
(* The source is a local directory.  The destination is another one, or a  *)
(* provider behind SimulatedFallback, which diverts the calls to a         *)
(* simulated directory while the provider rejects them.  All files are in  *)
(* one folder; names that differ in case only are left out.                *)
(***************************************************************************)
EXTENDS Integers

CONSTANTS
  Name,         \* the files
  Data,
  Size,         \* Size[c]: how long the content c is, or Part
  Part,         \* what an upload that broke off has left
  Missing,      \* no such file, or none that synced_history knows
  MaxWrites,    \* bound: the user writes only while now < MaxWrites
  MaxFailures   \* bound: how many calls fail and how often the program restarts

\* build_backend: a local directory, or a provider behind its fallback.
Kinds == {"local", "provider"}

Version == [content : Data, modified : Nat]

ASSUME BackupAssumption ==
  /\ Part \notin Data
  /\ Size \in [Data \union {Part} -> Nat]
  /\ \A c \in Data : Size[Part] < Size[c]
  /\ Missing \notin Version \union Data \union {Part}
  /\ MaxWrites \in Nat
  /\ MaxFailures \in Nat

VARIABLES
  kind,         \* the destination: "local" or "provider"
  source,       \* the files of the source
  now,          \* the latest modification time in use
  destination,  \* the real one, and the simulated one of the fallback
  rejected,     \* the provider rejects the credentials
  history,      \* synced_history
  step,         \* what perform_backup is about to do
  listed,       \* source_files
  found,        \* dest_files
  todo,         \* the files of the loop that are still to come
  sending,      \* the file whose copy is in temp_dir, and its content
  failures,
  unsure        \* History: files in synced_history that the destination may not
                \* have like this: taken for equal because of their size, sent to
                \* the simulation, or replaced by a copy that broke off

scan == <<step, listed, found, todo, sending>>
backupVars == <<kind, source, now, destination, rejected, history, scan, failures, unsure>>

Tree == [Name -> Version \union {Missing}]
Copies == [Name -> Data \union {Part, Missing}]

BackupTypeOK ==
  /\ kind \in Kinds
  /\ source \in Tree
  /\ now \in Nat
  /\ destination \in [{"real", "simulated"} -> Copies]
  /\ rejected \in BOOLEAN
  /\ history \in Tree
  /\ step \in {"scan", "list", "copy", "send"}
  /\ listed \in Tree
  /\ found \in Copies
  /\ todo \subseteq Name
  /\ sending \in [file : Name, content : Data] \union {Missing}
  /\ failures \in 0..MaxFailures
  /\ unsure \subseteq Name

NoFiles == [f \in Name |-> Missing]

BackupInit ==
  /\ kind \in Kinds
  /\ source = NoFiles
  /\ now = 0
  /\ destination = [d \in {"real", "simulated"} |-> NoFiles]
  /\ rejected = FALSE
  /\ history = NoFiles
  /\ step = "scan"
  /\ listed = NoFiles
  /\ found = NoFiles
  /\ todo = {}
  /\ sending = Missing
  /\ failures = 0
  /\ unsure = {}

-----------------------------------------------------------------------------
(* The user and the provider. *)

Writes(f, c) ==
  /\ now < MaxWrites
  /\ now' = now + 1
  /\ source' = [source EXCEPT ![f] = [content |-> c, modified |-> now + 1]]
  /\ UNCHANGED <<kind, destination, rejected, history, scan, failures, unsure>>

Removes(f) ==
  /\ source[f] # Missing
  /\ source' = [source EXCEPT ![f] = Missing]
  /\ UNCHANGED <<kind, now, destination, rejected, history, scan, failures, unsure>>

AuthorisationChanges ==
  /\ kind = "provider"
  /\ rejected' = ~rejected
  /\ UNCHANGED <<kind, source, now, destination, history, scan, failures, unsure>>

\* The directory that a call of the destination reaches.
Reached == IF rejected THEN "simulated" ELSE "real"

-----------------------------------------------------------------------------
(* perform_backup *)

ScansSource ==
  /\ step = "scan"
  /\ listed' = source
  /\ step' = "list"
  /\ UNCHANGED <<kind, source, now, destination, rejected, history, found, todo,
                 sending, failures, unsure>>

ScansDestination ==
  /\ step = "list"
  /\ found' = destination[Reached]
  /\ todo' = {f \in Name : listed[f] # Missing}
  /\ step' = "copy"
  /\ UNCHANGED <<kind, source, now, destination, rejected, history, listed,
                 sending, failures, unsure>>

\* A first look at both files.  Local directories list checksums; across
\* providers the sizes decide.
LooksEqual(f) ==
  /\ found[f] # Missing
  /\ IF kind = "local" THEN found[f] = listed[f].content
     ELSE Size[found[f]] = Size[listed[f].content]

should_copy(f) ==
  \/ found[f] = Missing
  \/ IF history[f] # Missing THEN history[f] # listed[f] ELSE ~LooksEqual(f)

Skips(f) ==
  /\ step = "copy"
  /\ f \in todo
  /\ ~should_copy(f)
  /\ todo' = todo \ {f}
  /\ history' = [history EXCEPT ![f] = listed[f]]
  /\ unsure' = IF history[f] = Missing /\ kind = "provider" THEN unsure \union {f} ELSE unsure
  /\ UNCHANGED <<kind, source, now, destination, rejected, step, listed, found,
                 sending, failures>>

\* Slip: the history is written before the upload.
DownloadsAndRecords(f) ==
  /\ step = "copy"
  /\ f \in todo
  /\ should_copy(f)
  /\ source[f] # Missing
  /\ sending' = [file |-> f, content |-> source[f].content]
  /\ step' = "send"
  /\ history' = [history EXCEPT ![f] = listed[f]]
  /\ UNCHANGED <<kind, source, now, destination, rejected, listed, found, todo,
                 failures, unsure>>

\* The user may have written the file since it was listed.
Downloads(f) ==
  /\ step = "copy"
  /\ f \in todo
  /\ should_copy(f)
  /\ source[f] # Missing
  /\ sending' = [file |-> f, content |-> source[f].content]
  /\ step' = "send"
  /\ UNCHANGED <<kind, source, now, destination, rejected, history, listed, found,
                 todo, failures, unsure>>

\* Slip: the source is looked up again for the history.
UploadsAndLooksUp ==
  /\ step = "send"
  /\ LET f == sending.file IN
       /\ destination' = [destination EXCEPT ![Reached][f] = sending.content]
       /\ history' = [history EXCEPT ![f] = source[f]]
       /\ todo' = todo \ {f}
       /\ unsure' = IF rejected THEN unsure \union {f} ELSE unsure \ {f}
  /\ sending' = Missing
  /\ step' = "copy"
  /\ UNCHANGED <<kind, source, now, rejected, listed, found, failures>>

\* The history gets what was listed, not what was copied.
Uploads ==
  /\ step = "send"
  /\ LET f == sending.file IN
       /\ destination' = [destination EXCEPT ![Reached][f] = sending.content]
       /\ history' = [history EXCEPT ![f] = listed[f]]
       /\ todo' = todo \ {f}
       /\ unsure' = IF rejected THEN unsure \union {f} ELSE unsure \ {f}
  /\ sending' = Missing
  /\ step' = "copy"
  /\ UNCHANGED <<kind, source, now, rejected, listed, found, failures>>

\* perform_backup returns; the loop of main calls it again.
Returns ==
  /\ step' = "scan"
  /\ listed' = NoFiles
  /\ found' = NoFiles
  /\ todo' = {}
  /\ sending' = Missing

Ends ==
  /\ step = "copy"
  /\ todo = {}
  /\ Returns
  /\ UNCHANGED <<kind, source, now, destination, rejected, history, failures, unsure>>

\* A file that was listed is gone.  This error, like any other, ends the scan.
MissesSource(f) ==
  /\ step = "copy"
  /\ f \in todo
  /\ should_copy(f)
  /\ source[f] = Missing
  /\ Returns
  /\ UNCHANGED <<kind, source, now, destination, rejected, history, failures, unsure>>

\* What is left of the history after an error, and after a crash.
GoesOn == UNCHANGED <<history, unsure>>
StartsAgain == history' = NoFiles /\ unsure' = {}

\* A call other than an upload fails, or the program starts again.
Fails ==
  /\ failures < MaxFailures
  /\ failures' = failures + 1
  /\ step # "send"
  /\ Returns
  /\ GoesOn \/ StartsAgain
  /\ UNCHANGED <<kind, source, now, destination, rejected>>

\* An upload breaks off: nothing, a part or all of the file has arrived.
BreaksOff ==
  /\ failures < MaxFailures
  /\ failures' = failures + 1
  /\ step = "send"
  /\ LET f == sending.file
         there == destination[Reached][f]
     IN \E left \in {there, Part, sending.content} :
          /\ destination' = [destination EXCEPT ![Reached][f] = left]
          /\ \/ /\ unsure' = IF history[f] = listed[f] /\ left # there
                               THEN unsure \union {f} ELSE unsure
                /\ UNCHANGED history
             \/ StartsAgain
  /\ Returns
  /\ UNCHANGED <<kind, source, now, rejected>>

perform_backup ==
  \/ ScansSource \/ ScansDestination \/ Uploads \/ Ends
  \/ \E f \in Name : Skips(f) \/ Downloads(f) \/ MissesSource(f)

BackupNext ==
  \/ perform_backup
  \/ Fails \/ BreaksOff
  \/ \E f \in Name : Removes(f) \/ \E c \in Data : Writes(f, c)
  \/ AuthorisationChanges

BackupSpec == BackupInit /\ [][BackupNext]_backupVars

\* The loop of main never ends, and every call comes to an end.
BackupFairSpec == BackupSpec /\ WF_backupVars(perform_backup)

-----------------------------------------------------------------------------
(* Properties. *)

(* A file that synced_history knows as it is in the source has been copied as it
   is, also when the user has written it between the list and the download or
   during the upload, and when copies have failed before: the history must get
   the listed time, and only after the upload (main.rs:254). *)
RecordedIsCopied ==
  \A f \in Name \ unsure :
    source[f] # Missing /\ history[f] = source[f] =>
      destination["real"][f] = source[f].content

(* When the user stops writing, the destination gets every file of the source,
   after scans that broke off, copies that were left half done and restarts that
   lost the history (main.rs:186); for a provider except those that the history
   only seems to know, and once it accepts the credentials for good. *)
DestinationCatchesUp ==
  <>[]~rejected =>
    <>[](\A f \in Name :
           source[f] # Missing /\ (kind = "local" \/ f \notin unsure) =>
             destination["real"][f] = source[f].content)

=============================================================================
