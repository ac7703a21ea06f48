SPECIFICATION Spec
CONSTANTS
    Notebooks = {"str1"}
    Cwds = {"repo"}
    Delays = {2}
    MaxTopic = 3
    MaxCrashes = 0
    MaxReruns = 0
INVARIANT StragglerDropped
CHECK_DEADLOCK FALSE
