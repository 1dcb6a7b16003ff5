\* Two tasks, a file in the root folder and one of the same name two folders below.
CONSTANTS
  d = d
  e = e
  f = f
  i1 = i1
  i2 = i2
  i3 = i3
  i4 = i4
  v1 = v1
  v2 = v2
  c1 = c1
  c2 = c2
  Name <- MCName
  Path <- MCPath
  Id <- MCId
  Root = Root
  NoItem = NoItem
  Content <- MCContent
  Empty = Empty
  Provider <- MCProvider
  Caller <- MCCaller
  MaxAttempts = 2
  MaxCalls <- MCMaxCalls
  MaxFaults <- MCMaxFaults
SYMMETRY MCSymmetry
SPECIFICATION Spec
CHECK_DEADLOCK FALSE
INVARIANTS TypeOK OneFilePerPath KeptIsThere DownloadsWhatWasLeft ListsEveryFile RenameKeepsContent
