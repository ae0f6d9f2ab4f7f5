SPECIFICATION Spec
CONSTANTS
  MaxTid = 3
  Uids = {u1}
  Roles = {"query"}
  MaxPerUid = 3
  CommitTimeoutAsBool = FALSE
  CanCancel = TRUE
  Calls = {"Cancel"}
  PluginAborts = {}
CHECK_DEADLOCK FALSE
PROPERTY CancelFinishedIsNoOp
