\* Two-way mode, the remote is written by the engine alone, uploads may fail.
CONSTANTS
  docs_f = docs_f
  pics_f = pics_f
  empty = empty
  v1 = v1
  v2 = v2
  Path <- MCOnePath
  FileName <- MCFileName
  Content <- MCContent
  Checksum <- MCContent
  Size <- MCSize
  Empty = empty
  NoChecksum = NoChecksum
  Absent = Absent
  Cycle = {"periodic"}
  Mode = "TwoWay"
  Policy = "RenameLocal"
  ServerSideMove = FALSE
  ListsChecksums = FALSE
  PreservesMtime = TRUE
  DryRuns = {FALSE}
  Failures = TRUE
  EditsDuringUpload = FALSE
  EditsOverlap = FALSE
  RemoteEdits = FALSE
  MaxEdits = 2
  MaxClock = 4
SPECIFICATION Spec
CHECK_DEADLOCK FALSE
PROPERTIES OnlyRemoteDeletionsDeleteLocal
