SPECIFICATION Spec
CONSTANTS
  MaxTid = 3
  Uids = {u1}
  Roles = {"query"}
  MaxPerUid = 2
  CommitTimeoutAsBool = FALSE
  CanCancel = TRUE
  Calls = {}
  PluginAborts = {}
CHECK_DEADLOCK FALSE
INVARIANT UidWithinLimit
