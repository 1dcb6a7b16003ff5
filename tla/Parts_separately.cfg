\* The watcher: a file is written and deleted while the daemon is paused and resumed; two calls fail.
\* The backup program: two files, two writes, one failure or restart.
\* The encryption of a file of up to two chunks that is written meanwhile.
\* The change feeds: three files, three changes, two failing requests.
CONSTANTS
  a = a
  da = da
  b = b
  Feed <- MCFeed
  Document <- MCDocument
  NameOf <- MCNameOf
  Text <- MCText
  Trashed = Trashed
  Removed = Removed
  MaxFetches = 2
  MaxChanges = 3
  MaxLost = 2
  f1 = f1
  f2 = f2
  v1 = v1
  v2 = v2
  t1 = t1
  t2 = t2
  t3 = t3
  Path <- MCPath
  Content <- MCContent
  Absent = Absent
  Task <- MCTask
  MaxAttempts = 3
  PreservesMtime = TRUE
  SyncDeletions = TRUE
  MaxEdits = 3
  MaxFaults = 2
  Name <- MCName
  Size <- MCSize
  Part = Part
  Data <- MCContent
  Missing = Missing
  MaxWrites = 2
  MaxFailures = 1
  Lengths <- MCLengths
  MaxChunks = 3
SPECIFICATION PartsSpec
INVARIANTS RecordedIsCopied SizesAgree MissingEndShows
PROPERTIES UploadsArriveInOrder EditsReachRemote DestinationCatchesUp FollowersCatchUp
