SPECIFICATION Spec
CONSTANTS
    Keys = {k1, k2}
    Vals = {a, b}
    Gone = Gone
    NoKey = NoKey
    SeedTable <- SeedOne
    Modes = {"initial"}
    WritersWait = TRUE
    WaitExpires = FALSE
    Bounceable = {"stored"}
    MaxWrites = 2
    MaxBounces = 1
    MaxSinkCrashes = 0
INVARIANTS
    OlderNeverOverwrites
CHECK_DEADLOCK FALSE
