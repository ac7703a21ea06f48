SPECIFICATION Spec
CONSTANTS
    Notebooks = {"kaf4"}
    MaxCrashes = 1
    MaxReruns = 0
CHECK_DEADLOCK FALSE
INVARIANTS
    WholeTopicRead
