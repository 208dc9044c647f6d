SPECIFICATION FairSpec
CONSTANTS
  Clients = {a}
  NoClient = NoClient
  Types = {"monitor", "assets", "unknown", "scan", "long"}
  Copies = 1
  MaxCrashes = 0
  MayStop = TRUE
  MaxConns = 3
  MaxPosts = 0
INVARIANTS
  TableIsCurrent
PROPERTIES
  RequestAnswered
  StopEndsRun
CHECK_DEADLOCK FALSE
