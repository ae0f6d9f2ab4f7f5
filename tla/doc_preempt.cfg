SPECIFICATION Spec
CONSTANTS
  MaxTid = 2
  Uids = {u1}
  Roles = {"query"}
  MaxPerUid = 2
  CommitTimeoutAsBool = FALSE
  CanCancel = TRUE
  Calls = {}
  PluginAborts = {}
CHECK_DEADLOCK FALSE
PROPERTY ForegroundCancels
