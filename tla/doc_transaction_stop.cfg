SPECIFICATION Spec
CONSTANT MaxJob = 1
CHECK_DEADLOCK FALSE
INVARIANT StopAlwaysRun
