SPECIFICATION FairSpec
CONSTANTS
    Seeds = {s1, s2}
    Dags = {"af1_idempotency", "af3_catchup_backfill"}
    MaxDay = 2
    MaxReruns = 2
    MaxPauses = 1
INVARIANTS
    PartitionWhole
PROPERTIES
    NoIntervalMissed
CHECK_DEADLOCK FALSE
