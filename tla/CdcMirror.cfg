SPECIFICATION FairSpec
CONSTANTS
    Keys = {k1, k2}
    Vals = {a, b}
    Gone = Gone
    NoKey = NoKey
    SeedTable <- SeedAll
    Modes = {"initial", "always", "never"}
    WritersWait = FALSE
    WaitExpires = TRUE
    Bounceable = {"snapshot", "streaming", "stored"}
    MaxWrites = 2
    MaxBounces = 1
INVARIANTS
    MirrorTypeOK
    TopicExact
    AtLeastOnce
    MirrorExact
PROPERTIES
    MirrorForward
    ReplayIsNoOp
    MirrorCatchesUp
