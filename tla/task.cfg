SPECIFICATION FairSpec
CONSTANTS
  Requests = {r1, r2}
  MaxFiles = 2
CHECK_DEADLOCK FALSE
INVARIANTS TypeOK OneHolder IdleAtTheEnd
PROPERTIES ImplementsRequests NothingAfterCancel RequestEndsOrIsDeserted
