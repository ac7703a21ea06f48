SPECIFICATION Spec
CONSTANTS
    NRows = 4
    NKeys = 2
    HotRows = {0, 2, 3}
    NParts = 2
    S = 2
    Notebooks = {"spk5"}
    MaxCrashes = 0
    MaxReruns = 0
CHECK_DEADLOCK FALSE
INVARIANT OverridesEnd
