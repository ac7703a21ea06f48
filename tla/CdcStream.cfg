SPECIFICATION FairSpec
CONSTANTS
    Keys = {k1, k2}
    Vals = {a, b}
    Gone = Gone
    NoKey = NoKey
    SeedTable <- SeedOne
    Modes = {"initial", "always"}
    WritersWait = FALSE
    WaitExpires = TRUE
    Bounceable = {"stored"}
    MaxWrites = 2
    MaxBounces = 1
    MaxSinkCrashes = 1
INVARIANTS
    RerunIsNoOp
    ExactWhenDrained
PROPERTIES
    StreamCatchesUp
CHECK_DEADLOCK FALSE
