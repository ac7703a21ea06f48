SPECIFICATION Spec
CONSTANTS
    Notebooks = {"lak1", "lak2", "lak3", "lak4", "lak5", "lak6", "lak7", "lak8", "lak9", "lak10"}
    MaxCrashes = 2
    MaxReruns = 1
INVARIANTS
    RefusedOnlyOnRetry
    Proved
PROPERTIES
    ImplementsTable
    MaintenanceKeepsRows
CHECK_DEADLOCK FALSE
