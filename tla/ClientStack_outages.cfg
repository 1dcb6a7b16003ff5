\* Calls of two callers overlap while the backend goes up and down and the authorisation comes and goes.
CONSTANTS
  c1 = c1
  c2 = c2
  Caller <- MCCaller
  FailureThreshold = 2
  RecoveryTimeout = 2
  ProbeThreshold = 2
  MaxAttempts = 2
SPECIFICATION FairSpec
INVARIANTS StackTypeOK
PROPERTIES FailureKeepsItOpen RecoversAfterOutage CallsEnd CallersRecover SimulationFollowsAuthorisation
