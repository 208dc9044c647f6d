SPECIFICATION FairSpec
CONSTANTS
  DaemonVersions <- MCDaemonVersions
  LibVersions = {1, 2}
  Requests = {"daemon", "viruslib", "both"}
  LibInPackage = TRUE
  MayGarble = TRUE
  MaxFaults = 2
  MaxCrashes = 1
INVARIANTS
  InstallationSurvives
  LibrarySurvives
  NoDowngrade
PROPERTIES
  RunsAgain
CHECK_DEADLOCK FALSE
