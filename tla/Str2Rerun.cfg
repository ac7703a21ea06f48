SPECIFICATION Spec
CONSTANTS
    Notebooks = {"str2"}
    Cwds = {"repo"}
    Delays = {2}
    MaxTopic = 5
    MaxCrashes = 1
    MaxReruns = 0
INVARIANT Str2Verdict
CHECK_DEADLOCK FALSE
