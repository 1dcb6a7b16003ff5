\* Two runners; crashes, failing file operations, and damage to the catalog file once.
CONSTANTS
  empty = empty
  s1 = s1
  s2 = s2
  periodic = periodic
  manual = manual
  Runner <- MCRunner
  State <- MCState
  Default = empty
  None = None
  Absent = Absent
  Garbage = Garbage
  Crashes = TRUE
  Failures = TRUE
  MaxCorruptions = 1
SPECIFICATION Spec
PROPERTIES SavesAtomically LastGoodCopyIsKept LoadSurvivesDamage
