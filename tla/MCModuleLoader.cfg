SPECIFICATION LoaderSpec
CONSTANTS
  Modules <- MCModules
  Categories <- MCCategories
  MsgIds <- MCMsgIds
  Settings <- MCSettings
  Entries <- MCEntries
  Commands <- MCCommands
  SentAs <- MCSentAs
  LogId = "MSG_TYPE_LOG"
  Unresolved = Unresolved
INVARIANTS
  RulesFollowTheLoads
  RoutedByEntriesOrDeclarations
