\* One-way mode without deletions on a backend that can move files; calls fail, edits at any time.
CONSTANTS
  docs_f = docs_f
  pics_f = pics_f
  empty = empty
  v1 = v1
  v2 = v2
  Path <- MCPath
  FileName <- MCFileName
  Content <- MCContent
  Checksum <- MCContent
  Size <- MCSize
  Empty = empty
  NoChecksum = NoChecksum
  Absent = Absent
  Cycle = {"periodic"}
  Mode = "OneWayNoDeletions"
  Policy = "RenameLocal"
  ServerSideMove = TRUE
  ListsChecksums = FALSE
  PreservesMtime = FALSE
  DryRuns = {FALSE}
  Failures = TRUE
  EditsDuringUpload = FALSE
  EditsOverlap = TRUE
  RemoteEdits = TRUE
  MaxEdits = 3
  MaxClock = 3
SPECIFICATION Spec
CHECK_DEADLOCK FALSE
PROPERTIES OneWayLeavesLocalAlone NoDeletionsMeansNone
