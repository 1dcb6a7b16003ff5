---------------------------- MODULE BackupProofs ----------------------------
(***************************************************************************)
(* That synced_history tells the truth, for any files, contents and bounds *)
(* of Backup.                                                              *)
(***************************************************************************)
EXTENDS Backup, TLAPS

\* What a call of perform_backup knows of the files that are still to come.
Looping == step \in {"copy", "send"}

\* Nothing carries a time that is still to come.
Past(v) == v = Missing \/ v.modified <= now

Times == \A f \in Name : Past(source[f]) /\ Past(listed[f]) /\ Past(history[f])

\* A local destination is changed by the loop only, which is done with a file then.
LocalIsAsFound ==
  kind = "local" =>
    /\ ~rejected
    /\ Looping => \A f \in todo : destination["real"][f] = found[f]

Todo ==
  /\ ~Looping => todo = {}
  /\ \A f \in todo : listed[f] # Missing

\* What was recorded before this scan and is still in the source has been listed.
ListedIsRecent ==
  \A f \in Name :
    /\ step = "list" \/ f \in todo
    /\ source[f] # Missing
    /\ history[f] = source[f]
    => listed[f] = source[f]

\* What is sent is what was listed, or the source has changed since.
SendsWhatIsThere ==
  step = "send" =>
    /\ sending \in [file : Name, content : Data]
    /\ sending.file \in todo
    /\ listed[sending.file] = source[sending.file] =>
         sending.content = source[sending.file].content

BackupInv ==
  /\ BackupTypeOK
  /\ Times
  /\ LocalIsAsFound
  /\ Todo
  /\ ListedIsRecent
  /\ SendsWhatIsThere
  /\ RecordedIsCopied

-----------------------------------------------------------------------------
LEMMA InitInv == BackupInit => BackupInv
<1> SUFFICES ASSUME BackupInit PROVE BackupInv
  OBVIOUS
<1>1. NoFiles \in Tree /\ NoFiles \in Copies /\ \A f \in Name : NoFiles[f] = Missing
  BY DEF NoFiles, Tree, Copies
<1>2. BackupTypeOK
  <2>1. destination \in [{"real", "simulated"} -> Copies]
    BY <1>1 DEF BackupInit
  <2>2. failures \in 0..MaxFailures /\ now \in Nat
    BY BackupAssumption DEF BackupInit
  <2> QED
    BY <1>1, <2>1, <2>2 DEF BackupInit, BackupTypeOK
<1>3. Times /\ LocalIsAsFound /\ Todo
  BY <1>1 DEF BackupInit, Times, Past, LocalIsAsFound, Looping, Todo
<1>4. ListedIsRecent /\ SendsWhatIsThere /\ RecordedIsCopied
  BY <1>1 DEF BackupInit, ListedIsRecent, SendsWhatIsThere, RecordedIsCopied
<1> QED
  BY <1>2, <1>3, <1>4 DEF BackupInv

LEMMA StutterKeepsInv == BackupInv /\ UNCHANGED backupVars => BackupInv'
BY DEF backupVars, scan, BackupInv, BackupTypeOK, Times, Past, LocalIsAsFound, Looping,
       Todo, ListedIsRecent, SendsWhatIsThere, RecordedIsCopied

LEMMA WritesKeepsInv ==
  ASSUME BackupInv, NEW f \in Name, NEW c \in Data, Writes(f, c)
  PROVE  BackupInv'
<1> DEFINE v == [content |-> c, modified |-> now + 1]
<1>1. v \in Version /\ v.modified = now + 1 /\ v # Missing
  BY BackupAssumption DEF BackupInv, BackupTypeOK, Version
<1>2. /\ now' = now + 1 /\ now \in Nat
      /\ source \in Tree /\ source' = [source EXCEPT ![f] = v]
      /\ UNCHANGED <<kind, destination, rejected, history, scan, failures, unsure>>
  BY DEF Writes, BackupInv, BackupTypeOK
<1> HIDE DEF v
<1>3. BackupTypeOK'
  BY <1>1, <1>2 DEF BackupInv, BackupTypeOK, Tree, scan
<1>4. \A x : Past(x) /\ x \in Version \union {Missing} => Past(x)'
  BY <1>2 DEF Past, Version
<1>5. \A x : Past(x) /\ x \in Version \union {Missing} => x # v
  BY <1>1, <1>2 DEF Past, Version
<1>6. Times'
  BY <1>1, <1>2, <1>4 DEF BackupInv, BackupTypeOK, Times, Past, Tree, scan
<1>7. \A g \in Name : /\ history[g] # v /\ listed[g] # v
                      /\ g # f => source'[g] = source[g]
  BY <1>2, <1>5 DEF BackupInv, BackupTypeOK, Times, Tree
<1>8. source'[f] = v
  BY <1>2 DEF Tree
<1>9. LocalIsAsFound' /\ Todo'
  BY <1>2 DEF BackupInv, LocalIsAsFound, Todo, Looping, scan
<1>10. ListedIsRecent' /\ RecordedIsCopied'
  BY <1>2, <1>7, <1>8 DEF BackupInv, ListedIsRecent, RecordedIsCopied, scan
<1>11. SendsWhatIsThere'
  BY <1>2, <1>7, <1>8 DEF BackupInv, SendsWhatIsThere, scan
<1> QED
  BY <1>3, <1>6, <1>9, <1>10, <1>11 DEF BackupInv

LEMMA RemovesKeepsInv ==
  ASSUME BackupInv, NEW f \in Name, Removes(f)
  PROVE  BackupInv'
<1>1. /\ source \in Tree /\ source' = [source EXCEPT ![f] = Missing]
      /\ UNCHANGED <<kind, now, destination, rejected, history, scan, failures, unsure>>
  BY DEF Removes, BackupInv, BackupTypeOK
<1>2. /\ source'[f] = Missing
      /\ \A g \in Name : g # f => source'[g] = source[g]
  BY <1>1 DEF Tree
<1>3. BackupTypeOK'
  BY <1>1 DEF BackupInv, BackupTypeOK, Tree, scan
<1>4. Times' /\ LocalIsAsFound' /\ Todo'
  BY <1>1, <1>2 DEF BackupInv, Times, Past, LocalIsAsFound, Todo, Looping, scan
<1>5. ListedIsRecent' /\ RecordedIsCopied'
  BY <1>1, <1>2 DEF BackupInv, ListedIsRecent, RecordedIsCopied, scan
<1>6. SendsWhatIsThere'
  BY <1>1, <1>2 DEF BackupInv, SendsWhatIsThere, Todo, scan
<1> QED
  BY <1>3, <1>4, <1>5, <1>6 DEF BackupInv

LEMMA AuthorisationKeepsInv ==
  ASSUME BackupInv, AuthorisationChanges
  PROVE  BackupInv'
<1>1. BackupTypeOK'
  BY DEF AuthorisationChanges, BackupInv, BackupTypeOK, scan
<1>2. Times' /\ LocalIsAsFound' /\ Todo'
  BY DEF AuthorisationChanges, BackupInv, Times, Past, LocalIsAsFound, Todo, Looping, scan
<1>3. ListedIsRecent' /\ SendsWhatIsThere' /\ RecordedIsCopied'
  BY DEF AuthorisationChanges, BackupInv, ListedIsRecent, SendsWhatIsThere,
         RecordedIsCopied, scan
<1> QED
  BY <1>1, <1>2, <1>3 DEF BackupInv

LEMMA ScansSourceKeepsInv ==
  ASSUME BackupInv, ScansSource
  PROVE  BackupInv'
<1>1. BackupTypeOK'
  BY DEF ScansSource, BackupInv, BackupTypeOK
<1>2. Times' /\ LocalIsAsFound' /\ Todo'
  BY DEF ScansSource, BackupInv, Times, Past, LocalIsAsFound, Todo, Looping
<1>3. ListedIsRecent' /\ SendsWhatIsThere' /\ RecordedIsCopied'
  BY DEF ScansSource, BackupInv, ListedIsRecent, SendsWhatIsThere, RecordedIsCopied
<1> QED
  BY <1>1, <1>2, <1>3 DEF BackupInv

LEMMA ScansDestinationKeepsInv ==
  ASSUME BackupInv, ScansDestination
  PROVE  BackupInv'
<1>1. BackupTypeOK'
  BY DEF ScansDestination, BackupInv, BackupTypeOK, Reached
<1>2. Times' /\ LocalIsAsFound' /\ Todo'
  BY DEF ScansDestination, BackupInv, Times, Past, LocalIsAsFound, Todo, Looping, Reached
<1>3. ListedIsRecent' /\ SendsWhatIsThere' /\ RecordedIsCopied'
  BY DEF ScansDestination, BackupInv, ListedIsRecent, SendsWhatIsThere, RecordedIsCopied
<1> QED
  BY <1>1, <1>2, <1>3 DEF BackupInv

\* A file that is not copied is recorded as it was known, or as it was found.
LEMMA SkipsKeepsInv ==
  ASSUME BackupInv, NEW f \in Name, Skips(f)
  PROVE  BackupInv'
<1>1. /\ step = "copy" /\ f \in todo /\ ~should_copy(f)
      /\ todo' = todo \ {f}
      /\ history \in Tree /\ history' = [history EXCEPT ![f] = listed[f]]
      /\ unsure \subseteq unsure'
      /\ history[f] = Missing /\ kind = "provider" => f \in unsure'
      /\ UNCHANGED <<kind, source, now, destination, rejected, step, listed, found,
                     sending, failures>>
  BY DEF Skips, BackupInv, BackupTypeOK
<1>2. /\ history'[f] = listed[f]
      /\ \A g \in Name : g # f => history'[g] = history[g]
  BY <1>1 DEF Tree
<1>3. BackupTypeOK'
  BY <1>1 DEF Skips, BackupInv, BackupTypeOK, Tree
<1>4. Times' /\ LocalIsAsFound' /\ Todo'
  BY <1>1, <1>2 DEF BackupInv, Times, Past, LocalIsAsFound, Todo, Looping
<1>5. ListedIsRecent' /\ SendsWhatIsThere'
  BY <1>1, <1>2 DEF BackupInv, ListedIsRecent, SendsWhatIsThere
<1>6. source[f] # Missing /\ listed[f] = source[f] /\ f \notin unsure' =>
        destination["real"][f] = source[f].content
  <2>1. CASE history[f] # Missing
    BY <1>1, <2>1 DEF should_copy, BackupInv, RecordedIsCopied
  <2>2. CASE history[f] = Missing
    BY <1>1, <2>2 DEF should_copy, LooksEqual, BackupInv, BackupTypeOK, LocalIsAsFound, Looping, Kinds
  <2> QED
    BY <2>1, <2>2
<1>7. RecordedIsCopied'
  BY <1>1, <1>2, <1>6 DEF BackupInv, RecordedIsCopied
<1> QED
  BY <1>3, <1>4, <1>5, <1>7 DEF BackupInv

LEMMA DownloadsKeepsInv ==
  ASSUME BackupInv, NEW f \in Name, Downloads(f)
  PROVE  BackupInv'
<1>1. /\ step = "copy" /\ f \in todo /\ source[f] # Missing /\ step' = "send"
      /\ sending' = [file |-> f, content |-> source[f].content]
      /\ UNCHANGED <<kind, source, now, destination, rejected, history, listed, found,
                     todo, failures, unsure>>
  BY DEF Downloads
<1>2. source[f].content \in Data
  BY <1>1 DEF BackupInv, BackupTypeOK, Tree, Version
<1>3. BackupTypeOK'
  BY <1>1, <1>2 DEF BackupInv, BackupTypeOK
<1>4. Times' /\ LocalIsAsFound' /\ Todo'
  BY <1>1 DEF BackupInv, Times, Past, LocalIsAsFound, Todo, Looping
<1>5. ListedIsRecent' /\ RecordedIsCopied'
  BY <1>1 DEF BackupInv, ListedIsRecent, RecordedIsCopied
<1>6. SendsWhatIsThere'
  BY <1>1, <1>2 DEF SendsWhatIsThere
<1> QED
  BY <1>3, <1>4, <1>5, <1>6 DEF BackupInv

\* What a copy to the directory `Reached` does to the real one.
LEMMA Copying ==
  ASSUME BackupTypeOK, NEW f \in Name, NEW c \in Data \union {Part, Missing},
         destination' = [destination EXCEPT ![Reached][f] = c]
  PROVE  /\ destination' \in [{"real", "simulated"} -> Copies]
         /\ \A g \in Name : g # f => destination'["real"][g] = destination["real"][g]
         /\ rejected => destination'["real"] = destination["real"]
         /\ ~rejected => destination'["real"][f] = c
BY DEF BackupTypeOK, Reached, Copies

LEMMA UploadsKeepsInv ==
  ASSUME BackupInv, Uploads
  PROVE  BackupInv'
<1> DEFINE f == sending.file
<1>1. /\ step = "send" /\ step' = "copy"
      /\ destination' = [destination EXCEPT ![Reached][f] = sending.content]
      /\ history' = [history EXCEPT ![f] = listed[f]]
      /\ todo' = todo \ {f}
      /\ unsure' = IF rejected THEN unsure \union {f} ELSE unsure \ {f}
      /\ sending' = Missing
      /\ UNCHANGED <<kind, source, now, rejected, listed, found, failures>>
  BY DEF Uploads
<1>2. /\ f \in Name /\ f \in todo /\ sending.content \in Data
      /\ listed[f] = source[f] => sending.content = source[f].content
  BY <1>1 DEF BackupInv, SendsWhatIsThere
<1> HIDE DEF f
<1>3. /\ destination' \in [{"real", "simulated"} -> Copies]
      /\ \A g \in Name : g # f => destination'["real"][g] = destination["real"][g]
      /\ ~rejected => destination'["real"][f] = sending.content
  BY <1>1, <1>2, Copying DEF BackupInv
<1>4. /\ history \in Tree /\ listed \in Tree /\ history' \in Tree
      /\ history'[f] = listed[f]
      /\ \A g \in Name : g # f => history'[g] = history[g]
  BY <1>1, <1>2 DEF BackupInv, BackupTypeOK, Tree
<1>5. BackupTypeOK'
  BY <1>1, <1>2, <1>3, <1>4 DEF BackupInv, BackupTypeOK
<1>6. Times' /\ Todo'
  BY <1>1, <1>4 DEF BackupInv, Times, Past, Todo, Looping
<1>7. LocalIsAsFound'
  BY <1>1, <1>3 DEF BackupInv, BackupTypeOK, LocalIsAsFound, Looping
<1>8. ListedIsRecent' /\ SendsWhatIsThere'
  BY <1>1, <1>4 DEF BackupInv, ListedIsRecent, SendsWhatIsThere
<1>9. RecordedIsCopied'
  BY <1>1, <1>2, <1>3, <1>4 DEF BackupInv, RecordedIsCopied
<1> QED
  BY <1>5, <1>6, <1>7, <1>8, <1>9 DEF BackupInv

\* After a scan only the times and what is recorded matter.
LEMMA ReturnsKeepsInv ==
  ASSUME BackupInv, Returns, UNCHANGED <<kind, source, now, rejected>>,
         BackupTypeOK', RecordedIsCopied',
         \A f \in Name : history'[f] = history[f] \/ history'[f] = Missing
  PROVE  BackupInv'
<1>1. \A f \in Name : NoFiles[f] = Missing
  BY DEF NoFiles
<1>2. Times' /\ LocalIsAsFound' /\ Todo'
  BY <1>1 DEF Returns, BackupInv, Times, Past, LocalIsAsFound, Todo, Looping
<1>3. ListedIsRecent' /\ SendsWhatIsThere'
  BY DEF Returns, ListedIsRecent, SendsWhatIsThere
<1> QED
  BY <1>2, <1>3 DEF BackupInv

LEMMA NoFilesType == NoFiles \in Tree /\ NoFiles \in Copies /\ \A f \in Name : NoFiles[f] = Missing
BY DEF NoFiles, Tree, Copies

LEMMA EndsKeepsInv ==
  ASSUME BackupInv, Ends \/ \E f \in Name : MissesSource(f)
  PROVE  BackupInv'
<1>1. /\ Returns
      /\ UNCHANGED <<kind, source, now, destination, rejected, history, failures, unsure>>
  BY DEF Ends, MissesSource
<1>2. BackupTypeOK' /\ RecordedIsCopied'
  BY <1>1, NoFilesType DEF Returns, BackupInv, BackupTypeOK, RecordedIsCopied
<1> QED
  BY <1>1, <1>2, ReturnsKeepsInv

LEMMA FailsKeepsInv ==
  ASSUME BackupInv, Fails
  PROVE  BackupInv'
<1>1. /\ Returns
      /\ failures < MaxFailures /\ failures' = failures + 1
      /\ GoesOn \/ StartsAgain
      /\ UNCHANGED <<kind, source, now, destination, rejected>>
  BY DEF Fails
<1>2. failures' \in 0..MaxFailures
  BY <1>1, BackupAssumption DEF BackupInv, BackupTypeOK
<1>3. BackupTypeOK' /\ RecordedIsCopied'
  BY <1>1, <1>2, NoFilesType
     DEF Returns, GoesOn, StartsAgain, BackupInv, BackupTypeOK, RecordedIsCopied
<1>4. \A f \in Name : history'[f] = history[f] \/ history'[f] = Missing
  BY <1>1, NoFilesType DEF GoesOn, StartsAgain
<1> QED
  BY <1>1, <1>3, <1>4, ReturnsKeepsInv

\* The copy that broke off may have replaced one that synced_history knows.
LEMMA BreaksOffKeepsInv ==
  ASSUME BackupInv, BreaksOff
  PROVE  BackupInv'
<1> DEFINE f == sending.file
           there == destination[Reached][f]
<1>1. PICK left \in {there, Part, sending.content} :
        /\ destination' = [destination EXCEPT ![Reached][f] = left]
        /\ \/ /\ unsure' = IF history[f] = listed[f] /\ left # there
                             THEN unsure \union {f} ELSE unsure
              /\ UNCHANGED history
           \/ StartsAgain
  BY DEF BreaksOff
<1>2. /\ step = "send" /\ Returns
      /\ failures < MaxFailures /\ failures' = failures + 1
      /\ UNCHANGED <<kind, source, now, rejected>>
  BY DEF BreaksOff
<1>3. f \in Name /\ f \in todo /\ sending.content \in Data
  BY <1>2 DEF BackupInv, SendsWhatIsThere
<1>4. there \in Data \union {Part, Missing} /\ (~rejected => there = destination["real"][f])
  BY <1>3 DEF BackupInv, BackupTypeOK, Reached, Copies
<1>5. left \in Data \union {Part, Missing}
  BY <1>3, <1>4
<1> HIDE DEF f, there
<1>6. /\ destination' \in [{"real", "simulated"} -> Copies]
      /\ \A g \in Name : g # f => destination'["real"][g] = destination["real"][g]
      /\ rejected => destination'["real"] = destination["real"]
      /\ ~rejected => destination'["real"][f] = left
  BY <1>1, <1>3, <1>5, Copying DEF BackupInv
<1>7. failures' \in 0..MaxFailures
  BY <1>2, BackupAssumption DEF BackupInv, BackupTypeOK
<1>8. BackupTypeOK'
  BY <1>1, <1>2, <1>3, <1>6, <1>7, NoFilesType DEF Returns, StartsAgain, BackupInv, BackupTypeOK
<1>9. RecordedIsCopied'
  <2>1. CASE StartsAgain
    BY <2>1, NoFilesType DEF StartsAgain, RecordedIsCopied
  <2>2. CASE UNCHANGED history /\ unsure' = IF history[f] = listed[f] /\ left # there
                                             THEN unsure \union {f} ELSE unsure
    <3>1. source[f] # Missing /\ history[f] = source[f] => history[f] = listed[f]
      BY <1>3 DEF BackupInv, ListedIsRecent
    <3>2. source[f] # Missing /\ history[f] = source[f] /\ f \notin unsure' =>
            destination'["real"][f] = destination["real"][f]
      BY <1>4, <1>6, <2>2, <3>1
    <3> QED
      BY <1>2, <1>6, <2>2, <3>2 DEF BackupInv, RecordedIsCopied
  <2> QED
    BY <1>1, <2>1, <2>2
<1>10. \A g \in Name : history'[g] = history[g] \/ history'[g] = Missing
  BY <1>1, NoFilesType DEF StartsAgain
<1> QED
  BY <1>2, <1>8, <1>9, <1>10, ReturnsKeepsInv

-----------------------------------------------------------------------------
LEMMA NextKeepsInv == BackupInv /\ [BackupNext]_backupVars => BackupInv'
<1> SUFFICES ASSUME BackupInv, [BackupNext]_backupVars PROVE BackupInv'
  OBVIOUS
<1>1. CASE perform_backup
  BY <1>1, ScansSourceKeepsInv, ScansDestinationKeepsInv, UploadsKeepsInv, EndsKeepsInv,
     SkipsKeepsInv, DownloadsKeepsInv DEF perform_backup
<1>2. CASE Fails \/ BreaksOff
  BY <1>2, FailsKeepsInv, BreaksOffKeepsInv
<1>3. CASE \E f \in Name : Removes(f) \/ \E c \in Data : Writes(f, c)
  BY <1>3, RemovesKeepsInv, WritesKeepsInv
<1>4. CASE AuthorisationChanges
  BY <1>4, AuthorisationKeepsInv
<1>5. CASE UNCHANGED backupVars
  BY <1>5, StutterKeepsInv
<1> QED
  BY <1>1, <1>2, <1>3, <1>4, <1>5 DEF BackupNext

(* The invariant of the backup program, for any files, contents and failures. *)
THEOREM BackupInvariant == BackupSpec => []BackupInv
BY InitInv, NextKeepsInv, PTL DEF BackupSpec

(* Every reachable state of the backup program has the types of BackupTypeOK. *)
THEOREM BackupTypeCorrect == BackupSpec => []BackupTypeOK
<1>1. BackupInv => BackupTypeOK
  BY DEF BackupInv
<1> QED
  BY <1>1, BackupInvariant, PTL

(* Whatever the user does meanwhile and whichever calls fail, synced_history
   claims no file that has not been copied as it is (main.rs:254), other than
   those that `unsure` names. *)
THEOREM RecordedFilesAreCopied == BackupSpec => []RecordedIsCopied
<1>1. BackupInv => RecordedIsCopied
  BY DEF BackupInv
<1> QED
  BY <1>1, BackupInvariant, PTL

=============================================================================
