SPECIFICATION Spec
CONSTANTS
    OrderIds = {1, 2, 3}
    Times = {0, 1, 2}
    Lookbacks = {0, 1, 2}
    Absent = Absent
    RawIds = {r1, r2}
    Values <- SomeValues
    Null = Null
    MaxSeeds = 2
    Customers = {c1, c2}
    Tiers = {gold, platinum}
    C001 = c1
    Platinum = platinum
    Gone = Gone
    Open = Open
    MaxChanges = 3
    MaxSnapshots = 3
INVARIANTS
    MartsComplete
    SplitReconciles
    AsOfExact
CHECK_DEADLOCK FALSE
