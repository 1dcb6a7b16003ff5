\* Two runners of one backend, with and without dry_run; calls fail, the daemon crashes, files are edited at any time on both sides.
CONSTANTS
  docs_f = docs_f
  pics_f = pics_f
  empty = empty
  v1 = v1
  v2 = v2
  Path <- MCOnePath
  FileName <- MCFileName
  Content <- MCContent
  Checksum <- MCContent
  Size <- MCSize
  Empty = empty
  NoChecksum = NoChecksum
  Absent = Absent
  Cycle = {"periodic", "manual"}
  Mode = "TwoWay"
  Policy = "RenameLocal"
  ServerSideMove = FALSE
  ListsChecksums = TRUE
  PreservesMtime = TRUE
  DryRuns = {TRUE, FALSE}
  Failures = TRUE
  EditsDuringUpload = FALSE
  EditsOverlap = TRUE
  RemoteEdits = TRUE
  MaxEdits = 2
  MaxClock = 3
SPECIFICATION Spec
CHECK_DEADLOCK FALSE
INVARIANTS TypeOK UnchangedMeansEqual
