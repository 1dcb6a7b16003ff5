\* Edits of the local side between the cycles only, no failures: the remote becomes a mirror.
CONSTANTS
  docs_f = docs_f
  pics_f = pics_f
  empty = empty
  v1 = v1
  v2 = v2
  Path <- MCPath
  FileName <- MCFileName
  Content <- MCContent
  Checksum <- MCContent
  Size <- MCSize
  Empty = empty
  NoChecksum = NoChecksum
  Absent = Absent
  Cycle = {"periodic"}
  Mode = "TwoWay"
  Policy = "RenameLocal"
  ServerSideMove = FALSE
  ListsChecksums = FALSE
  PreservesMtime = TRUE
  DryRuns = {FALSE}
  Failures = FALSE
  EditsDuringUpload = FALSE
  EditsOverlap = FALSE
  RemoteEdits = FALSE
  MaxEdits = 4
  MaxClock = 8
SPECIFICATION FairSpec
CHECK_DEADLOCK FALSE
INVARIANTS OwnUploadsNeverConflict SharedPathsAreInBase
PROPERTIES RemoteMirrorsLocal
