SPECIFICATION PipelineSpec
CONSTANTS
    Dags = {"cap1_e2e_pipeline", "af4_retries_sla", "af6_trigger_rules_branching", "af10_dbt_spark_e2e"}
    MaxClears = 2
    MaxSeeds = 2
INVARIANTS
    MartOfThisRun
    NothingLeft
    FailureShowsElsewhere
PROPERTIES
    CleanupAlwaysRuns
    FlakyAbsorbed
CHECK_DEADLOCK FALSE
