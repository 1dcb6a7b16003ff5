\* One runner; the file may be edited while a cycle runs, but not between the copy and the mtime of an upload.
CONSTANTS
  docs_f = docs_f
  pics_f = pics_f
  empty = empty
  v1 = v1
  v2 = v2
  Path <- MCOnePath
  FileName <- MCFileName
  Content <- MCContent
  Checksum <- MCContent
  Size <- MCSize
  Empty = empty
  NoChecksum = NoChecksum
  Absent = Absent
  Cycle = {"periodic"}
  Mode = "TwoWay"
  Policy = "RenameLocal"
  ServerSideMove = FALSE
  ListsChecksums = TRUE
  PreservesMtime = TRUE
  DryRuns = {FALSE}
  Failures = FALSE
  EditsDuringUpload = FALSE
  EditsOverlap = TRUE
  RemoteEdits = FALSE
  MaxEdits = 3
  MaxClock = 4
SPECIFICATION Spec
CHECK_DEADLOCK FALSE
PROPERTIES EditsAreNotOverwritten
