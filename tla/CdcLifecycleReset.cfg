SPECIFICATION LifecycleSpec
CONSTANTS
    Cleanup <- Teardown
    MaxPolls = 2
    MaxTries = 2
    MaxRuns = 2
    MaxInterrupts = 0
INVARIANTS
    OwnTaskSnapshots
CHECK_DEADLOCK FALSE
