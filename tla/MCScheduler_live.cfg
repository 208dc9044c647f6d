SPECIFICATION FairSpec
CONSTANTS
  Modules <- SingleModules
  Categories <- MCCategories
  MsgIds <- MCMsgIds
  ModuleInfos <- SingleInfos
  OriginalRules <- DeclaredRules
  ConfigRules <- MCConfigRules
  CreationLog <- NoLog
  Isolated <- SingleModules
  Sends <- SingleSends
  LogId = "MSG_TYPE_LOG"
  Main = Main
  Stoppers = {s1}
  None = None
  MaxNotify = 2
  MaxQueue = 2
  MaxAsk = 1
  MaxDepth = 2
PROPERTIES
  StopEndsLoop
  QueuedIsDispatched
