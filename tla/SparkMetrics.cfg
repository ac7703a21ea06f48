SPECIFICATION Spec
CONSTANTS
    NRows = 4
    NKeys = 2
    HotRows = {0, 2, 3}
    NParts = 2
    S = 2
    Notebooks = {"spk2"}
    MaxCrashes = 1
    MaxReruns = 1
CHECK_DEADLOCK FALSE
INVARIANT WallClockOnly
