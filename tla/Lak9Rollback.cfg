SPECIFICATION Spec
CONSTANTS
    Notebooks = {"lak9"}
    MaxCrashes = 0
    MaxReruns = 0
INVARIANT HistoryGrew
CHECK_DEADLOCK FALSE
