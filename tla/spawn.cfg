SPECIFICATION FairSpec
CONSTANTS
  MaxJob = 2
  Helpers = {h1, h2}
  AllowSigkill = TRUE
CHECK_DEADLOCK FALSE
INVARIANTS TypeOK KillHasTarget ExitWhenIdle OneHelper CommandsToIdle
           JobHasCompletion
PROPERTIES ImplementsJobs JobEndsOrIsDeserted
