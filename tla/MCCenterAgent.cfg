SPECIFICATION AgentFairSpec
CONSTANTS
  Tasks = {t1, t2}
  NoTask = NoTask
  MaxLost = 4
INVARIANTS
  ResultHasTask
  StoppedIsLoggedOut
  TokenTakenBack
PROPERTIES
  LogsInAgain
  StopReturns
CHECK_DEADLOCK FALSE
