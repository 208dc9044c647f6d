SPECIFICATION Spec
CONSTANTS
  Clients = {a}
  NoClient = NoClient
  Types = {"monitor"}
  Copies = 2
  MayStop = FALSE
  MaxConns = 4
  MaxPosts = 1
  MaxCrashes = 1
INVARIANTS
  OwnAnswer
CHECK_DEADLOCK FALSE
