SPECIFICATION Spec
CONSTANTS
    Notebooks = {"kaf1", "kaf2", "kaf3", "kaf4", "kaf5"}
    MaxCrashes = 1
    MaxReruns = 1
CHECK_DEADLOCK FALSE
INVARIANTS
    AtLeastOnce
    Proved

PROPERTIES NotebookEnds
