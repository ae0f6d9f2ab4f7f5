SPECIFICATION FairSpec
CONSTANT MaxJob = 2
CHECK_DEADLOCK FALSE
INVARIANTS TypeOK OneWorker NoStaleSource JobHasCompletion
PROPERTIES ImplementsJobs JobEnds
