SPECIFICATION FairSpec
CONSTANTS
  Conns = {c1}
  WorkerCount = 1
  Service = Service
  Stopper = Stopper
  Callers = {k1}
  WorkerQueue = 2
  SendQueue = 3
  StopKinds = {"force", "request"}
  ServiceMayFail = TRUE
  MaxRequests = 4
  MaxNotices = 2
  NoConn = NoConn
INVARIANTS
  HeldStateAlive
  StateReclaimed
  WakeupNotLost
  RequestsRelease
PROPERTIES
  StopReturns
CHECK_DEADLOCK FALSE
