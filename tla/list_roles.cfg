SPECIFICATION Spec
CONSTANTS
  MaxTid = 2
  Uids = {u1}
  Roles = {"query", "authorised", "update-system", "get-updates", "old-transactions", "accept-eula"}
  MaxPerUid = 2
  CommitTimeoutAsBool = FALSE
  CanCancel = TRUE
  Calls = {"Cancel", "SuggestDaemonQuit"}
  PluginAborts = {"run", "started"}
CHECK_DEADLOCK FALSE
INVARIANTS TypeOK SingleUpdateSystem SourcesMatchState
           CallbacksFindStates
PROPERTY AuthorisedFirst
