SPECIFICATION Spec
CONSTANTS
    NRows = 4
    NKeys = 2
    HotRows = {0, 2, 3}
    NParts = 2
    S = 2
    Notebooks = {"spk1", "spk2", "spk3", "spk4", "spk5", "spk6", "spk7", "spk8", "spk9", "spk10"}
    MaxCrashes = 1
    MaxReruns = 1
CHECK_DEADLOCK FALSE
INVARIANTS
    LabelsHold
    TeardownRestores
