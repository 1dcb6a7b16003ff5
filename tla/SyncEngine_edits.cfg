\* Edits on both sides between the cycles, no failures: whose version survives.
CONSTANTS
  docs_f = docs_f
  pics_f = pics_f
  empty = empty
  v1 = v1
  v2 = v2
  Path <- MCPath
  FileName <- MCFileName
  Content <- MCContent
  Checksum <- MCContent
  Size <- MCSize
  Empty = empty
  NoChecksum = NoChecksum
  Absent = Absent
  Cycle = {"periodic"}
  Mode = "TwoWay"
  Policy = "KeepNewer"
  ServerSideMove = TRUE
  ListsChecksums = TRUE
  PreservesMtime = TRUE
  DryRuns = {FALSE}
  Failures = FALSE
  EditsDuringUpload = FALSE
  EditsOverlap = FALSE
  RemoteEdits = TRUE
  MaxEdits = 4
  MaxClock = 5
SPECIFICATION Spec
CHECK_DEADLOCK FALSE
INVARIANTS PathsSettle
PROPERTIES EditsAreNotOverwritten
