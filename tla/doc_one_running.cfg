SPECIFICATION Spec
CONSTANTS
  MaxTid = 4
  Uids = {u1}
  Roles = {"query"}
  MaxPerUid = 4
  CommitTimeoutAsBool = FALSE
  CanCancel = TRUE
  Calls = {"Cancel"}
  PluginAborts = {}
CHECK_DEADLOCK FALSE
INVARIANT OneRunning
