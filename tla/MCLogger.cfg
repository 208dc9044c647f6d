SPECIFICATION Spec
CONSTANTS
  LogCounts = {0, 1, 3}
  max_size = 4
  Lengths = {1, 2, 3, 4}
  MaxLines = 9
  MaxFaults = 1
  MaxCrashes = 2
INVARIANTS
  KeepsTheNewest
  DropsOnlyWhenFull
CHECK_DEADLOCK FALSE
