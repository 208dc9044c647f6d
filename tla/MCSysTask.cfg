SPECIFICATION FairSpec
CONSTANTS
  Cmds = {snap, rule}
  Capacity = 2
  MayStop = TRUE
  MaxTasks = 3
  MaxFaults = 1
  MaxCrashes = 1
  snap = snap
  rule = rule
INVARIANTS
  InEffectIsStored
PROPERTIES
  LaterTaskWins
  StoredIsApplied
  ReportedIsDone
