SPECIFICATION Spec
CONSTANTS
    Keys = {k1, k2}
    Vals = {a, b}
    Gone = Gone
    NoKey = NoKey
    SeedTable <- SeedAll
    Modes = {"initial"}
    WritersWait = TRUE
    WaitExpires = FALSE
    Bounceable = {"stored"}
    MaxWrites = 2
    MaxBounces = 1
PROPERTIES
    ImplementsReplica
