SPECIFICATION LifecycleSpec
CONSTANTS
    Cleanup <- Cdc4Cleanup
    MaxPolls = 2
    MaxTries = 2
    MaxRuns = 3
    MaxInterrupts = 2
INVARIANTS
    SnapshotsUnlessLate
CHECK_DEADLOCK FALSE
