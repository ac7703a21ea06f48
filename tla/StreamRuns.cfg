SPECIFICATION FairSpec
CONSTANTS
    Notebooks = {"kaf6", "str1", "str2", "str3"}
    Cwds = {"repo", "notebook"}
    Delays = {1, 2}
    MaxTopic = 6
    MaxCrashes = 2
    MaxReruns = 2
INVARIANTS
    ExactlyOnce
    WindowsFinal
    ReconcilesUnlessOrphaned
PROPERTIES
    StreamsStop
CHECK_DEADLOCK FALSE
