SPECIFICATION Spec
CONSTANTS
  MaxTid = 3
  Uids = {u1, u2}
  Roles = {"query"}
  MaxPerUid = 1
  CommitTimeoutAsBool = TRUE
  CanCancel = TRUE
  Calls = {"Cancel"}
  PluginAborts = {"run", "started"}
CHECK_DEADLOCK FALSE
INVARIANTS NotWedged ReportedIsOver RunningHasCompletion NeverRunTwice
PROPERTY ImplementsSchedule
