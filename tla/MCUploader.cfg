SPECIFICATION FairSpec
CONSTANTS
  SnapShots = {s1}
  ProcActions = {p1}
  Tasks = {t1}
  Handles = {1, 2, 3, 4}
  MaxFaults = 1
  MaxEnds = 1
  s1 = s1
  p1 = p1
  t1 = t1
INVARIANTS
  DeliveredOnce
PROPERTIES
  
  EventuallySent
  StopEnds
