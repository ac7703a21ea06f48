SPECIFICATION Spec
CONSTANTS
    Notebooks = {"kaf6"}
    Cwds = {"notebook"}
    Delays = {2}
    MaxTopic = 3
    MaxCrashes = 0
    MaxReruns = 1
INVARIANT Reconciles
CHECK_DEADLOCK FALSE
