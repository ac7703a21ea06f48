---------------------------- MODULE Cap1Pipeline ----------------------------
(***************************************************************************)
(* DAG runs with what their tasks do.  Those of cap1_e2e_pipeline run the  *)
(* stages of capstone/cap1_pipeline.py, statement by statement, over the   *)
(* Iceberg mirror and mart and the CDC objects they share; what the tasks  *)
(* of the other DAGs do touches none of these.  A stage may die            *)
(* between any two statements; runs follow one another, and finished tasks *)
(* are cleared and run again.                                              *)
(***************************************************************************)
EXTENDS AirflowDag, Sequences

CONSTANT MaxSeeds      \* bound: times the source is seeded

ASSUME SeedAssumption == MaxSeeds \in Nat

VARIABLES
    todo,      \* statements the running stage still has to execute
    gen,       \* the source table's generation: its last seeding
    captured,  \* the connector, its slot, its topic and the source table exist
    mirror,    \* the generations whose rows MIRROR holds, or Absent
    mart       \* the generations MART aggregates, or Absent

dataVars     == <<todo, gen, captured, mirror, mart>>
pipelineVars == <<dagVars, dataVars>>

Absent == {0}
Rows   == {Absent} \cup SUBSET (1 .. MaxSeeds)

(* The stages; ge_gate is the quality stage, and the dbt tasks touch none  *)
(* of this.                                                                *)
IngestKeepingMirror ==              \* mutant: CREATE TABLE IF NOT EXISTS
    <<"teardown", "seed", "create_if_absent", "merge">>
Ingest    == <<"teardown", "seed", "drop_mirror", "create_mirror", "merge">>
Transform == <<"drop_mart", "create_mart">>
Quality   == <<"validate">>
CleanupMartOnly == <<"drop_mart", "teardown">>        \* mutant
Cleanup   == <<"drop_mart", "drop_mirror", "teardown">>

Cap1 == dag = "cap1_e2e_pipeline"

Stage(t) ==
    LET stages == [cdc_ingest |-> Ingest, spark_transform |-> Transform,
                   ge_gate |-> Quality, cleanup |-> Cleanup]
    IN  IF Cap1 /\ t \in DOMAIN stages THEN stages[t] ELSE <<>>

PipelineTypeOK ==
    /\ DagTypeOK
    /\ \A t \in Tasks : Len(todo[t]) <= Len(Stage(t))
    /\ gen \in 0 .. MaxSeeds
    /\ captured \in BOOLEAN
    /\ mirror \in Rows /\ mart \in Rows
    /\ \A t \in Tasks : state[t] # "running" => todo[t] = <<>>

StartStage(t) ==
    /\ Start(t)
    /\ todo' = [todo EXCEPT ![t] = Stage(t)]
    /\ UNCHANGED <<gen, captured, mirror, mart>>

(* One statement of a running stage.                                       *)
Statement(t, name) ==
    /\ state[t] = "running" /\ todo[t] # <<>> /\ Head(todo[t]) = name
    /\ todo' = [todo EXCEPT ![t] = Tail(@)]
    /\ UNCHANGED dagVars

(* cdc.teardown.                                                           *)
TearDown(t) ==
    /\ Statement(t, "teardown")
    /\ captured' = FALSE
    /\ UNCHANGED <<gen, mirror, mart>>

(* seed_orders, register_connector and the live changes.                   *)
SeedAndCapture(t) ==
    /\ gen < MaxSeeds
    /\ Statement(t, "seed")
    /\ gen' = gen + 1
    /\ captured' = TRUE
    /\ UNCHANGED <<mirror, mart>>

DropMirror(t) ==
    /\ Statement(t, "drop_mirror")
    /\ mirror' = Absent
    /\ UNCHANGED <<gen, captured, mart>>

CreateMirror(t) ==
    /\ \/ Statement(t, "create_mirror") /\ mirror = Absent /\ mirror' = {}
       \/ Statement(t, "create_if_absent") /\ mirror' = IF mirror = Absent THEN {} ELSE mirror
    /\ UNCHANGED <<gen, captured, mart>>

(* The batch read of the topic and the MERGE.                              *)
Merge(t) ==
    /\ Statement(t, "merge")
    /\ captured /\ mirror # Absent
    /\ mirror' = mirror \cup {gen}
    /\ UNCHANGED <<gen, captured, mart>>

DropMart(t) ==
    /\ Statement(t, "drop_mart")
    /\ mart' = Absent
    /\ UNCHANGED <<gen, captured, mirror>>

(* CREATE TABLE ... AS SELECT ... FROM MIRROR.                             *)
CreateMart(t) ==
    /\ Statement(t, "create_mart")
    /\ mirror # Absent
    /\ mart' = mirror
    /\ UNCHANGED <<gen, captured, mirror>>

(* The expectations hold; a breach is the stage's failure.                 *)
Validate(t) ==
    /\ Statement(t, "validate")
    /\ mirror # Absent
    /\ UNCHANGED <<gen, captured, mirror, mart>>

Execute(t) ==
    \/ TearDown(t) \/ SeedAndCapture(t) \/ DropMirror(t) \/ CreateMirror(t) \/ Merge(t)
    \/ DropMart(t) \/ CreateMart(t) \/ Validate(t)

SucceedStage(t) == todo[t] = <<>> /\ Sound(t) /\ Succeed(t) /\ UNCHANGED dataVars

(* The process exits non-zero, at whatever statement it is.                *)
FailStage(t) ==
    /\ Fail(t)
    /\ todo' = [todo EXCEPT ![t] = <<>>]
    /\ UNCHANGED <<gen, captured, mirror, mart>>

(* A new run of the DAG, once this one is over: new task instances, whose  *)
(* attempts are counted from the first again.                              *)
NextRun ==
    /\ Over /\ clears < MaxClears
    /\ state' = [t \in Tasks |-> "none"]
    /\ tries' = [t \in Tasks |-> 0]
    /\ budget' = [t \in Tasks |-> Dag.retries + 1]
    /\ retried' = [t \in Tasks |-> 0]
    /\ alerted' = [t \in Tasks |-> 0]
    /\ clears' = clears + 1
    /\ UNCHANGED <<dag, dataVars>>

PipelineInit ==
    /\ DagInit
    /\ todo = [t \in Tasks |-> <<>>]
    /\ gen = 0 /\ captured = FALSE
    /\ mirror = Absent /\ mart = Absent

Progress ==
    \E t \in Tasks : \/ StartStage(t) \/ Execute(t) \/ SucceedStage(t) \/ FailStage(t)
                     \/ Settle(t) /\ UNCHANGED dataVars

ClearTask == \E t \in Tasks : Clear(t) /\ UNCHANGED dataVars

PipelineNext == Progress \/ ClearTask \/ NextRun

(* The scheduler goes on and tasks end; nothing forces a clearing or       *)
(* another run.                                                            *)
PipelineSpec == PipelineInit /\ [][PipelineNext]_pipelineVars /\ WF_pipelineVars(Progress)

-----------------------------------------------------------------------------
(* Whatever earlier runs, deaths and clearings left behind, a mart that a  *)
(* transform of this run vouches for aggregates this run's ingest and      *)
(* nothing else.                                                           *)
MartOfThisRun ==
    Cap1 /\ state["spark_transform"] = "success" => mart \in {Absent, {gen}}

(* "Teardown always runs ... so the next run starts clean": when it        *)
(* succeeded, the run left nothing.                                        *)
NothingLeft ==
    Cap1 /\ state["cleanup"] = "success" => mirror = Absent /\ mart = Absent /\ ~captured
=============================================================================
