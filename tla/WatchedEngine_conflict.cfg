\* The watcher and the periodic cycle on a simulated backend that nobody else uses; no failures.
CONSTANTS
  docs_f = docs_f
  empty = empty
  v1 = v1
  v2 = v2
  Path <- MCPath
  FileName <- MCFileName
  Content <- MCContent
  Checksum <- MCContent
  Size <- MCSize
  Empty = empty
  NoChecksum = NoChecksum
  Absent = Absent
  Cycle = {"periodic"}
  Mode = "TwoWay"
  Policy = "RenameLocal"
  ServerSideMove = FALSE
  ListsChecksums = TRUE
  PreservesMtime = TRUE
  DryRuns = {FALSE}
  Failures = FALSE
  EditsDuringUpload = FALSE
  EditsOverlap = FALSE
  RemoteEdits = FALSE
  MaxEdits = 3
  MaxClock = 4
  t1 = t1
  t2 = t2
  Task <- MCTask
  MaxAttempts = 3
  MaxFaults = 0
SPECIFICATION DSpec
CHECK_DEADLOCK FALSE
PROPERTIES DaemonNeverConflictsWithItself
