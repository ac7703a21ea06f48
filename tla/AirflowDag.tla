----------------------------- MODULE AirflowDag -----------------------------
(***************************************************************************)
(* One run of a DAG of airflow/dags.  The wiring, the trigger rules and    *)
(* the retry policy are the DAG files'; what the scheduler makes of them   *)
(* is Airflow's and modelled from what those files say they rely on.       *)
(***************************************************************************)
EXTENDS Naturals

CONSTANTS
    Dags,         \* the DAGs there are, a subset of DOMAIN Wiring
    MaxClears     \* bound: times a finished task is cleared or the DAG runs anew

(* A DAG: what each task waits for, the trigger rules and the retries;     *)
(* branch is the task that picks one of its successors, gate the one that  *)
(* may short-circuit.                                                      *)
None == "no task"

Wired(upstream, rule, retries, branch, gate) ==
    [upstream |-> upstream, rule |-> rule, retries |-> retries,
     branch |-> branch, gate |-> gate]

AllSuccess(tasks) == [t \in tasks |-> "all_success"]

Cap1Upstream ==
    [cdc_ingest |-> {}, spark_transform |-> {"cdc_ingest"}, ge_gate |-> {"spark_transform"},
     dbt_marts |-> {}, dbt_test |-> {"dbt_marts"}, cleanup |-> {"ge_gate", "dbt_test"}]

Cap1DefaultRule ==                  \* mutant: cleanup keeps the default rule
    Wired(Cap1Upstream, AllSuccess(DOMAIN Cap1Upstream), 0, None, None)

Cap1E2e ==
    Wired(Cap1Upstream, [AllSuccess(DOMAIN Cap1Upstream) EXCEPT !.cleanup = "all_done"],
          0, None, None)

Af4Upstream == [flaky_extract |-> {}, downstream_load |-> {"flaky_extract"}]
Af4OneRetry == Wired(Af4Upstream, AllSuccess(DOMAIN Af4Upstream), 1, None, None)   \* mutant
Af4         == Wired(Af4Upstream, AllSuccess(DOMAIN Af4Upstream), 3, None, None)

Af6Upstream ==
    [pick_branch |-> {}, run_full_refresh |-> {"pick_branch"},
     run_incremental |-> {"pick_branch"},
     join_after_branch |-> {"run_full_refresh", "run_incremental"},
     gate |-> {}, after_gate |-> {"gate"}]

Af6AllDone ==                       \* mutant: the join runs after a failed arm
    Wired(Af6Upstream, [AllSuccess(DOMAIN Af6Upstream) EXCEPT !.join_after_branch = "all_done"],
          0, "pick_branch", "gate")

Af6 ==
    Wired(Af6Upstream,
          [AllSuccess(DOMAIN Af6Upstream)
              EXCEPT !.join_after_branch = "none_failed_min_one_success"],
          0, "pick_branch", "gate")

Af10Upstream ==
    [dbt_build |-> {}, dbt_test |-> {"dbt_build"}, ge_quality_gate |-> {"dbt_test"},
     cleanup |-> {"ge_quality_gate"}]
Af10 == Wired(Af10Upstream, AllSuccess(DOMAIN Af10Upstream), 0, None, None)

Wiring ==
    [cap1_e2e_pipeline |-> Cap1E2e, af4_retries_sla |-> Af4,
     af6_trigger_rules_branching |-> Af6, af10_dbt_spark_e2e |-> Af10]

ASSUME DagAssumption ==
    /\ Dags # {} /\ Dags \subseteq DOMAIN Wiring
    /\ MaxClears \in Nat

-----------------------------------------------------------------------------
VARIABLES
    dag,       \* the DAG that runs
    state,     \* the task instances
    tries,     \* try_number: attempts of each task in this run
    budget,    \* max_tries: a failed attempt beyond it is final
    retried,   \* calls of on_retry_callback in this run, per task
    alerted,   \* calls of on_failure_callback in this run, per task
    clears     \* clearings and later runs so far

dagVars == <<dag, state, tries, budget, retried, alerted, clears>>

Dag        == Wiring[dag]
Tasks      == DOMAIN Dag.upstream
Upstream(t) == Dag.upstream[t]
Downstream(t) == {d \in Tasks : t \in Upstream(d)}

(* A task and everything after it: the smallest set with it that is closed *)
(* under Downstream.                                                       *)
Onwards(t) ==
    LET closed == {S \in SUBSET Tasks : t \in S /\ \A s \in S : Downstream(s) \subseteq S}
    IN  {d \in Tasks : \A S \in closed : d \in S}

Leaves     == {t \in Tasks : Downstream(t) = {}}

Failures == {"failed", "upstream_failed"}
Finished == Failures \cup {"success", "skipped"}

MaxTries == (Dag.retries + 1) * (MaxClears + 1)

DagTypeOK ==
    /\ dag \in Dags
    /\ state \in [Tasks -> Finished \cup {"none", "running", "up_for_retry"}]
    /\ tries \in [Tasks -> 0 .. MaxTries]
    /\ budget \in [Tasks -> 0 .. MaxTries]
    /\ retried \in [Tasks -> 0 .. MaxTries] /\ alerted \in [Tasks -> 0 .. MaxTries]
    /\ \A t \in Tasks : retried[t] + alerted[t] <= tries[t] /\ tries[t] <= budget[t]
    /\ clears \in 0 .. MaxClears

UpstreamIn(t, states) == {u \in Upstream(t) : state[u] \in states}
AllDone(t) == UpstreamIn(t, Finished) = Upstream(t)

(* The trigger rules: whether a task may run, and what it becomes when it  *)
(* may not any more.                                                       *)
MayRun(t) ==
    \/ Dag.rule[t] = "all_success" /\ UpstreamIn(t, {"success"}) = Upstream(t)
    \/ Dag.rule[t] = "all_done" /\ AllDone(t)
    \/ Dag.rule[t] = "one_done" /\ UpstreamIn(t, {"success", "failed"}) # {}
    \/ /\ Dag.rule[t] = "none_failed_min_one_success"
       /\ AllDone(t)
       /\ UpstreamIn(t, Failures) = {}
       /\ UpstreamIn(t, {"success"}) # {}

Start(t) ==
    /\ state[t] = "up_for_retry" \/ (state[t] = "none" /\ MayRun(t))
    /\ state' = [state EXCEPT ![t] = "running"]
    /\ tries' = [tries EXCEPT ![t] = @ + 1]
    /\ UNCHANGED <<dag, budget, retried, alerted, clears>>

(* A task that can no longer run is settled without running.               *)
Settle(t) ==
    /\ state[t] = "none"
    /\ Dag.rule[t] \in {"all_success", "none_failed_min_one_success"}
    /\ \/ /\ UpstreamIn(t, Failures) # {}
          /\ state' = [state EXCEPT ![t] = "upstream_failed"]
       \/ /\ UpstreamIn(t, Failures) = {}
          /\ IF Dag.rule[t] = "all_success"
             THEN UpstreamIn(t, {"skipped"}) # {}
             ELSE Upstream(t) # {} /\ UpstreamIn(t, {"skipped"}) = Upstream(t)
          /\ state' = [state EXCEPT ![t] = "skipped"]
    /\ UNCHANGED <<dag, tries, budget, retried, alerted, clears>>

(* @task.branch skips the successors it did not pick; @task.short_circuit  *)
(* skips what comes after it when it returns False.                        *)
Succeed(t) ==
    /\ state[t] = "running"
    /\ \E kept \in IF t = Dag.branch THEN {{d} : d \in Downstream(t)}
                   ELSE IF t = Dag.gate THEN {{}, Downstream(t)}
                   ELSE {Downstream(t)} :
          state' = [s \in Tasks |-> IF s = t THEN "success"
                                    ELSE IF s \in Downstream(t) \ kept THEN "skipped"
                                    ELSE state[s]]
    /\ UNCHANGED <<dag, tries, budget, retried, alerted, clears>>

(* An attempt fails, or its worker dies.                                   *)
Fail(t) ==
    /\ state[t] = "running"
    /\ IF tries[t] < budget[t]
       THEN /\ state' = [state EXCEPT ![t] = "up_for_retry"]
            /\ retried' = [retried EXCEPT ![t] = @ + 1]
            /\ UNCHANGED alerted
       ELSE /\ state' = [state EXCEPT ![t] = "failed"]
            /\ alerted' = [alerted EXCEPT ![t] = @ + 1]
            /\ UNCHANGED retried
    /\ UNCHANGED <<dag, tries, budget, clears>>

(* flaky_extract raises while try_number <= 2.                             *)
Sound(t) == t = "flaky_extract" => tries[t] > 2

Over == \A t \in Tasks : state[t] \in Finished

(* A manual clear-and-rerun of a task and what comes after it.             *)
Clear(t) ==
    /\ Over /\ clears < MaxClears
    /\ state[t] \in {"success", "failed"}
    /\ state' = [s \in Tasks |-> IF s \in Onwards(t) THEN "none" ELSE state[s]]
    /\ budget' = [s \in Tasks |-> IF s \in Onwards(t) THEN tries[s] + Dag.retries + 1
                                                       ELSE budget[s]]
    /\ clears' = clears + 1
    /\ UNCHANGED <<dag, tries, retried, alerted>>

DagInit ==
    /\ dag \in Dags
    /\ state = [t \in Tasks |-> "none"]
    /\ tries = [t \in Tasks |-> 0]
    /\ budget = [t \in Tasks |-> Dag.retries + 1]
    /\ retried = [t \in Tasks |-> 0]
    /\ alerted = [t \in Tasks |-> 0]
    /\ clears = 0

Attempt(t) == (Sound(t) /\ Succeed(t)) \/ Fail(t)

Scheduled == \E t \in Tasks : Start(t) \/ Settle(t) \/ Attempt(t)

DagNext == Scheduled \/ \E t \in Tasks : Clear(t)

DagSpec == DagInit /\ [][DagNext]_dagVars

(* The scheduler goes on and tasks end; nothing forces a clearing.         *)
FairDagSpec == DagSpec /\ WF_dagVars(Scheduled)

(* What Airflow shows for a run that is over: its leaves decide.           *)
RunFailed    == Over /\ \E t \in Leaves : state[t] \in Failures
RunSucceeded == Over /\ ~RunFailed

-----------------------------------------------------------------------------
StateOf(t) == IF t \in Tasks THEN state[t] ELSE "no such task"

(* A task that ended failed fails the run: "a failed quality gate so       *)
(* Airflow marks the task (and the DAG) failed".                           *)
FailureShows == (\E t \in Tasks : state[t] = "failed") => ~RunSucceeded

(* In the other DAGs it does: no skipped arm hides the arm that failed.    *)
FailureShowsElsewhere == dag # "cap1_e2e_pipeline" => FailureShows

(* cap1_e2e_pipeline: the teardown "always runs (even if a gate fails)",   *)
(* after every clearing.                                                   *)
CleanupAlwaysRuns ==
    []<>(dag = "cap1_e2e_pipeline" => StateOf("cleanup") \in {"success", "failed"})

(* af4_retries_sla: the retries absorb the two transient failures of every *)
(* run, and one death of a worker on top.  The task either succeeds or     *)
(* pages, however often runs and clearings follow; each page comes after   *)
(* three retry alerts of its own, so never for the blips alone; and the    *)
(* load runs only once an attempt has succeeded.                           *)
FlakyAbsorbed ==
    LET f == "flaky_extract"
        Af4Runs == dag = "af4_retries_sla"
    IN  /\ []<>(Af4Runs => state[f] = "success" \/ alerted[f] > 0)
        /\ [](Af4Runs => /\ 3 * alerted[f] <= retried[f]
                         /\ state[f] = "success" => 2 <= retried[f]
                         /\ tries["downstream_load"] > 0 =>
                                retried[f] + alerted[f] < tries[f])
=============================================================================
