SPECIFICATION FairSpec
CONSTANTS
  MaxTid = 3
  Uids = {u1}
  Roles = {"query"}
  MaxPerUid = 3
  CommitTimeoutAsBool = FALSE
  CanCancel = TRUE
  Calls = {"Cancel", "SuggestDaemonQuit"}
  PluginAborts = {}
CHECK_DEADLOCK FALSE
PROPERTIES ForegroundServed RunningEnds
