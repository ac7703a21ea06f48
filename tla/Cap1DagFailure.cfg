SPECIFICATION FairDagSpec
CONSTANTS
    Dags = {"cap1_e2e_pipeline"}
    MaxClears = 0
INVARIANTS
    FailureShows
CHECK_DEADLOCK FALSE
