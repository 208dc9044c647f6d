SPECIFICATION Spec
CONSTANTS
  Modules <- MCModules
  Categories <- MCCategories
  MsgIds <- MCMsgIds
  ModuleInfos <- LoggerInfos
  OriginalRules <- DeclaredRules
  ConfigRules <- MCConfigRules
  CreationLog <- OneLog
  Isolated <- MCIsolated
  Sends <- LoggerSends
  LogId = "MSG_TYPE_LOG"
  Main = Main
  Stoppers = {s1}
  None = None
  MaxNotify = 2
  MaxQueue = 0
  MaxAsk = 1
  MaxDepth = 2
INVARIANTS
  TypeOK
  PopFindsMessage
  DispatchedIsPrefix
  StoppingAfterLoop
