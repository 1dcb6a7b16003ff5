\* The daemon, or the app, with two clients and two backends; commands, edits of the configuration, outages, windows and events in any order.
CONSTANTS
  b1 = b1
  b2 = b2
  both = both
  fresh = fresh
  Order <- MCOrder
  Config <- MCConfig
  Fresh = fresh
  Enabled <- MCEnabled
  MaxRate <- MCMaxRate
  Scheduled <- MCScheduled
  Rate <- MCRate
  WindowRate = {0}
  Broken = Broken
  Missing = Missing
  Client = {ui, shell}
  Task = {"manual", "again"}
  Host = {"daemon", "app"}
  None = None
  Begun = Begun
  MaxTurns = 3
SPECIFICATION Spec
CHECK_DEADLOCK FALSE
INVARIANTS TypeOK SyncingIsExact
PROPERTIES SyncingEnds CommandsAreAnswered StopStops HealthIsNoticed RemovedBackendsAreLeft PauseComesToRest RateFollowsWindow
