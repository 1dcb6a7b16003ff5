------------------------------ MODULE MCParts ------------------------------
(* Four parts of the system that have nothing to do with each other, for TLC:    *)
(* the watcher of the daemon, with one file, two contents and room for three     *)
(* tasks; the backup program, with two files and two contents of one size; the   *)
(* encryption of a file of up to two chunks; and the change feeds, with two      *)
(* files of one name and a third one.  Only one of them happens in a behaviour,  *)
(* and the others keep their initial states.                                     *)
EXTENDS Watcher, Backup, EncryptedFile, ChangeFeed

CONSTANTS f1, f2, v1, v2, t1, t2, t3, a, da, b

VARIABLE subject

MCPath == {f1}
MCContent == {v1, v2}
MCTask == {t1, t2, t3}

MCName == {f1, f2}
MCSize == [c \in MCContent \union {Part} |-> IF c = Part THEN 0 ELSE 1]

MCLengths == {c * CHUNK_SIZE + d : c \in 0..1, d \in {0, 1}}
               \union {c * CHUNK_SIZE - d : c \in 1..2, d \in {1, 21}}

MCFeed == {"Dropbox", "OneDrive", "GoogleDrive"}
MCDocument == {a, da, b}
MCText == {v1}
MCNameOf == [d \in MCDocument |-> IF d = da THEN a ELSE d]

PartsInit ==
  /\ subject \in {"watcher", "backup", "encryption", "feed"}
  /\ Init
  /\ BackupInit
  /\ EncryptionInit
  /\ FeedInit
  /\ subject # "backup" => kind = "local"
  /\ subject # "encryption" => length = 0
  /\ subject # "feed" => feed = "Dropbox"

PartsNext ==
  \/ /\ subject = "watcher" /\ Next
     /\ UNCHANGED <<subject, backupVars, encryptionVars, feedVars>>
  \/ /\ subject = "backup" /\ BackupNext
     /\ UNCHANGED <<subject, vars, encryptionVars, feedVars>>
  \/ /\ subject = "encryption" /\ EncryptionNext
     /\ UNCHANGED <<subject, vars, backupVars, feedVars>>
  \/ /\ subject = "feed" /\ FeedNext
     /\ UNCHANGED <<subject, vars, backupVars, encryptionVars>>

\* With the fairness of the FairSpecs of the parts: the fair actions of the watcher
\* are disabled while it rests.
PartsSpec ==
  /\ PartsInit
  /\ [][PartsNext]_<<subject, vars, backupVars, encryptionVars, feedVars>>
  /\ WF_vars(Handles)
  /\ \A t \in Task : WF_vars(Runs(t))
  /\ WF_backupVars(subject = "backup" /\ perform_backup)
  /\ WF_feedVars(subject = "feed" /\ Progress)

=============================================================================
