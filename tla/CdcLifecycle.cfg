SPECIFICATION LifecycleFairSpec
CONSTANTS
    Cleanup <- Teardown
    MaxPolls = 2
    MaxTries = 2
    MaxRuns = 3
    MaxInterrupts = 2
INVARIANTS
    CleanSlate
    SnapshotsUnlessLate
    TopicOfThisRun
PROPERTIES
    CleanUpEnds
CHECK_DEADLOCK FALSE
