-------------------------- MODULE Pipelines_proofs --------------------------
(***************************************************************************)
(* Proofs about the pipelines whose steps are run, died in and run again:  *)
(* the DAGs and the streaming notebooks.                                   *)
(*                                                                         *)
(* The DAGs, for any number of clearings and later runs and wherever a     *)
(* stage dies: the mart is this run's, a run whose teardown succeeded      *)
(* leaves nothing, and outside cap1_e2e_pipeline a failed task fails its   *)
(* run.  Two things carry the proof.  One is about the scheduler: a task   *)
(* that ran has all its upstream tasks behind it, so that the stages never *)
(* overlap although they share tables.  The other is about the stages:     *)
(* what the statements that are left say about the tables.                 *)
(*                                                                         *)
(* The streaming notebooks, for any set of them, any number of crashes and *)
(* reruns and any watermark.  What is proved of the tables rests on        *)
(* QueryInv, one conjunct of the invariant per query: its checkpoint has   *)
(* at most one batch in flight, its table has the batches up to the epoch  *)
(* once each, and STR-1's state is what its last batch made of the one     *)
(* before.  What is proved of the notebooks' last cells rests on FullInv,  *)
(* which follows the queries that ran to the end of the topic cell by      *)
(* cell, and on LengthInv, the length of the topic.                        *)
(***************************************************************************)
EXTENDS Cap1Pipeline, StreamRuns, TLAPS

-----------------------------------------------------------------------------
(* THE SCHEDULER.                                                          *)
States == Finished \cup {"none", "running", "up_for_retry"}

(* What has run, or was skipped, has its upstream tasks behind it.         *)
Behind(d, u) ==
    IF Dag.rule[d] = "all_done" THEN state[u] \in Finished ELSE state[u] \in {"success", "skipped"}
Ordered ==
    \A d \in Tasks : \A u \in Upstream(d) :
        state[d] \notin {"none", "upstream_failed"} => Behind(d, u)

(* What is upstream_failed has a failure upstream.                         *)
Blamed ==
    \A d \in Tasks : state[d] = "upstream_failed" => \E u \in Upstream(d) : state[u] \in Failures

(* cap1_e2e_pipeline has no branch and no gate.                            *)
NoneSkipped == Cap1 => \A t \in Tasks : state[t] # "skipped"

(* A run's attempts stay within the budget, which each clearing raises.    *)
Within(t) ==
    /\ retried[t] + alerted[t] <= tries[t] /\ tries[t] <= budget[t]
    /\ state[t] \in {"none", "up_for_retry"} => tries[t] < budget[t]
    /\ state[t] = "running" => retried[t] + alerted[t] < tries[t]
    /\ budget[t] <= (Dag.retries + 1) * (clears + 1)
Budgeted ==
    /\ tries \in [Tasks -> Nat] /\ budget \in [Tasks -> Nat]
    /\ retried \in [Tasks -> Nat] /\ alerted \in [Tasks -> Nat]
    /\ \A t \in Tasks : Within(t)
    /\ clears \in 0 .. MaxClears

DagInv ==
    /\ dag \in Dags
    /\ state \in [Tasks -> States]
    /\ Ordered /\ Blamed /\ NoneSkipped

-----------------------------------------------------------------------------
(* The DAGs' shapes.                                                       *)
LEMMA Cap1Shape ==
    ASSUME dag = "cap1_e2e_pipeline"
    PROVE  /\ Tasks = {"cdc_ingest", "spark_transform", "ge_gate", "dbt_marts", "dbt_test",
                       "cleanup"}
           /\ Upstream("cdc_ingest") = {} /\ Upstream("spark_transform") = {"cdc_ingest"}
           /\ Upstream("ge_gate") = {"spark_transform"} /\ Upstream("dbt_marts") = {}
           /\ Upstream("dbt_test") = {"dbt_marts"}
           /\ Upstream("cleanup") = {"ge_gate", "dbt_test"}
           /\ \A t \in Tasks : Dag.rule[t] = IF t = "cleanup" THEN "all_done" ELSE "all_success"
           /\ Dag.branch = None /\ Dag.gate = None /\ Dag.retries = 0
<1>1. Dag = Cap1E2e
  BY DEF Dag, Wiring
<1>2. /\ Dag.upstream = Cap1Upstream /\ Dag.branch = None /\ Dag.gate = None /\ Dag.retries = 0
      /\ Dag.rule = [AllSuccess(DOMAIN Cap1Upstream) EXCEPT !.cleanup = "all_done"]
  BY <1>1 DEF Cap1E2e, Wired
<1>3. Tasks = {"cdc_ingest", "spark_transform", "ge_gate", "dbt_marts", "dbt_test", "cleanup"}
  BY <1>2 DEF Tasks, Cap1Upstream
<1>4. \A t \in Tasks : Dag.rule[t] = IF t = "cleanup" THEN "all_done" ELSE "all_success"
  BY <1>2 DEF Tasks, AllSuccess
<1> QED BY <1>2, <1>3, <1>4 DEF Upstream, Cap1Upstream

LEMMA Af4Shape ==
    ASSUME dag = "af4_retries_sla"
    PROVE  /\ Tasks = {"flaky_extract", "downstream_load"}
           /\ Upstream("flaky_extract") = {} /\ Upstream("downstream_load") = {"flaky_extract"}
           /\ \A t \in Tasks : Dag.rule[t] = "all_success"
           /\ Dag.branch = None /\ Dag.gate = None /\ Dag.retries = 3
<1>1. Dag = Af4
  BY DEF Dag, Wiring
<1>2. /\ Dag.upstream = Af4Upstream /\ Dag.branch = None /\ Dag.gate = None /\ Dag.retries = 3
      /\ Dag.rule = AllSuccess(DOMAIN Af4Upstream)
  BY <1>1 DEF Af4, Wired
<1>3. Tasks = {"flaky_extract", "downstream_load"}
  BY <1>2 DEF Tasks, Af4Upstream
<1>4. \A t \in Tasks : Dag.rule[t] = "all_success"
  BY <1>2 DEF Tasks, AllSuccess
<1> QED BY <1>2, <1>3, <1>4 DEF Upstream, Af4Upstream

LEMMA Af10Shape ==
    ASSUME dag = "af10_dbt_spark_e2e"
    PROVE  /\ Tasks = {"dbt_build", "dbt_test", "ge_quality_gate", "cleanup"}
           /\ Upstream("dbt_build") = {} /\ Upstream("dbt_test") = {"dbt_build"}
           /\ Upstream("ge_quality_gate") = {"dbt_test"}
           /\ Upstream("cleanup") = {"ge_quality_gate"}
           /\ \A t \in Tasks : Dag.rule[t] = "all_success"
           /\ Dag.branch = None /\ Dag.gate = None /\ Dag.retries = 0
<1>1. Dag = Af10
  BY DEF Dag, Wiring
<1>2. /\ Dag.upstream = Af10Upstream /\ Dag.branch = None /\ Dag.gate = None /\ Dag.retries = 0
      /\ Dag.rule = AllSuccess(DOMAIN Af10Upstream)
  BY <1>1 DEF Af10, Wired
<1>3. Tasks = {"dbt_build", "dbt_test", "ge_quality_gate", "cleanup"}
  BY <1>2 DEF Tasks, Af10Upstream
<1>4. \A t \in Tasks : Dag.rule[t] = "all_success"
  BY <1>2 DEF Tasks, AllSuccess
<1> QED BY <1>2, <1>3, <1>4 DEF Upstream, Af10Upstream

LEMMA Af6Shape ==
    ASSUME dag = "af6_trigger_rules_branching"
    PROVE  /\ Tasks = {"pick_branch", "run_full_refresh", "run_incremental", "join_after_branch",
                       "gate", "after_gate"}
           /\ Upstream("pick_branch") = {} /\ Upstream("run_full_refresh") = {"pick_branch"}
           /\ Upstream("run_incremental") = {"pick_branch"}
           /\ Upstream("join_after_branch") = {"run_full_refresh", "run_incremental"}
           /\ Upstream("gate") = {} /\ Upstream("after_gate") = {"gate"}
           /\ \A t \in Tasks :
                 Dag.rule[t] = IF t = "join_after_branch" THEN "none_failed_min_one_success"
                               ELSE "all_success"
           /\ Dag.branch = "pick_branch" /\ Dag.gate = "gate" /\ Dag.retries = 0
<1>1. Dag = Af6
  BY DEF Dag, Wiring
<1>2. /\ Dag.upstream = Af6Upstream /\ Dag.branch = "pick_branch" /\ Dag.gate = "gate"
      /\ Dag.retries = 0
      /\ Dag.rule = [AllSuccess(DOMAIN Af6Upstream)
                        EXCEPT !.join_after_branch = "none_failed_min_one_success"]
  BY <1>1 DEF Af6, Wired
<1>3. Tasks = {"pick_branch", "run_full_refresh", "run_incremental", "join_after_branch",
               "gate", "after_gate"}
  BY <1>2 DEF Tasks, Af6Upstream
<1>4. \A t \in Tasks : Dag.rule[t] = IF t = "join_after_branch" THEN "none_failed_min_one_success"
                                     ELSE "all_success"
  BY <1>2 DEF Tasks, AllSuccess
<1> QED BY <1>2, <1>3, <1>4 DEF Upstream, Af6Upstream

LEMMA DagIsOneOf ==
    ASSUME dag \in Dags
    PROVE  dag \in {"cap1_e2e_pipeline", "af4_retries_sla", "af6_trigger_rules_branching",
                    "af10_dbt_spark_e2e"}
BY DagAssumption DEF Wiring

(* What the proofs use of them.                                            *)
Shape ==
    /\ \A d \in Tasks : Upstream(d) \subseteq Tasks
    /\ \A d \in Tasks :
          \/ Dag.rule[d] = "all_success" /\ \A u, v \in Upstream(d) : u = v
          \/ Dag.rule[d] = "all_done"
          \/ Dag.rule[d] = "none_failed_min_one_success"
    /\ \A d \in Tasks : {Dag.branch, Dag.gate} \cap Upstream(d) # {} => Dag.rule[d] = "all_success"
    /\ \A d \in Tasks : d \notin Upstream(d)
    /\ Dag.retries \in {0, 3}

LEMMA ShapeHolds == ASSUME dag \in Dags PROVE Shape
<1>1. CASE dag = "cap1_e2e_pipeline"
  <2>1. \A d \in Tasks : Upstream(d) \subseteq Tasks /\ d \notin Upstream(d)
    BY <1>1, Cap1Shape
  <2>2. \A d \in Tasks : \/ Dag.rule[d] = "all_success" /\ \A u, v \in Upstream(d) : u = v
                         \/ Dag.rule[d] = "all_done"
    BY <1>1, Cap1Shape
  <2>3. \A d \in Tasks : {Dag.branch, Dag.gate} \cap Upstream(d) = {}
    BY <1>1, <2>1, Cap1Shape DEF None
  <2>4. Dag.retries \in {0, 3}
    BY <1>1, Cap1Shape
  <2> QED BY <2>1, <2>2, <2>3, <2>4 DEF Shape
<1>2. CASE dag = "af4_retries_sla"
  BY <1>2, Af4Shape DEF Shape, None
<1>3. CASE dag = "af6_trigger_rules_branching"
  BY <1>3, Af6Shape DEF Shape
<1>4. CASE dag = "af10_dbt_spark_e2e"
  BY <1>4, Af10Shape DEF Shape, None
<1> QED BY <1>1, <1>2, <1>3, <1>4, DagIsOneOf
(* Nothing of this changes in a run.                                       *)
LEMMA SameDag ==
    ASSUME dag' = dag
    PROVE  /\ Dag' = Dag /\ Tasks' = Tasks /\ Cap1' = Cap1
           /\ \A t : Upstream(t)' = Upstream(t)
<1>1. Dag' = Dag
  BY DEF Dag
<1> QED BY <1>1 DEF Tasks, Cap1, Upstream

(* What is after a task in time is its Onwards: closed, and with it.       *)
LEMMA OnwardsClosed ==
    ASSUME Shape, NEW t \in Tasks
    PROVE  /\ t \in Onwards(t) /\ Onwards(t) \subseteq Tasks
           /\ \A d \in Tasks : \A u \in Upstream(d) : u \in Onwards(t) => d \in Onwards(t)
<1> DEFINE closed == {S \in SUBSET Tasks : t \in S /\ \A s \in S : Downstream(s) \subseteq S}
<1>1. Onwards(t) = {d \in Tasks : \A S \in closed : d \in S}
  BY DEF Onwards
<1>2. \A S \in closed : t \in S
  OBVIOUS
<1>3. ASSUME NEW d \in Tasks, NEW u \in Upstream(d), u \in Onwards(t), NEW S \in closed
      PROVE  d \in S
  <2>1. u \in S
    BY <1>1, <1>3
  <2>2. d \in Downstream(u)
    BY DEF Downstream
  <2> QED BY <2>1, <2>2
<1> HIDE DEF closed
<1> QED BY <1>1, <1>2, <1>3

-----------------------------------------------------------------------------
(* A task moves on, with what it has to have behind it; no task that is    *)
(* over has been relying on it.                                            *)
LEMMA MoveKeeps ==
    ASSUME DagInv, dag' = dag, NEW t \in Tasks, state[t] \notin Finished,
           state' \in [Tasks -> States], \A s \in Tasks : s # t => state'[s] = state[s],
           state'[t] \notin {"none", "upstream_failed"} => \A u \in Upstream(t) : Behind(t, u),
           state'[t] = "upstream_failed" => \E u \in Upstream(t) : state[u] \in Failures,
           Cap1 => state'[t] # "skipped"
    PROVE  DagInv'
<1> USE DEF DagInv
<1>1. Shape /\ Dag' = Dag /\ Tasks' = Tasks /\ Cap1' = Cap1 /\ \A s : Upstream(s)' = Upstream(s)
  BY ShapeHolds, SameDag
<1>2. Ordered'
  <2> SUFFICES ASSUME NEW d \in Tasks, NEW u \in Upstream(d),
                      state'[d] \notin {"none", "upstream_failed"}
               PROVE  IF Dag.rule[d] = "all_done" THEN state'[u] \in Finished
                      ELSE state'[u] \in {"success", "skipped"}
    BY <1>1 DEF Ordered, Behind
  <2>1. Behind(d, u)
    BY DEF Ordered
  <2>2. u \in Tasks /\ u # t
    BY <1>1, <2>1 DEF Shape, Finished, Failures, Behind
  <2> QED BY <2>1, <2>2 DEF Behind
<1>3. Blamed'
  <2> SUFFICES ASSUME NEW d \in Tasks, state'[d] = "upstream_failed"
               PROVE  \E u \in Upstream(d) : state'[u] \in Failures
    BY <1>1 DEF Blamed
  <2>1. PICK u \in Upstream(d) : state[u] \in Failures
    BY DEF Blamed
  <2>2. u \in Tasks /\ u # t
    BY <1>1, <2>1 DEF Shape, Failures, Finished
  <2> QED BY <2>1, <2>2
<1>4. NoneSkipped'
  BY <1>1 DEF NoneSkipped
<1> QED BY <1>1, <1>2, <1>3, <1>4

LEMMA StartKeeps == ASSUME DagInv, NEW t \in Tasks, Start(t) PROVE DagInv'
<1>1. /\ dag' = dag /\ state[t] \in {"none", "up_for_retry"} /\ state'[t] = "running"
      /\ state' \in [Tasks -> States] /\ \A s \in Tasks : s # t => state'[s] = state[s]
  BY DEF Start, DagInv, States
<1>2. ASSUME NEW u \in Upstream(t) PROVE Behind(t, u)
  <2>1. CASE state[t] = "up_for_retry"
    BY <2>1 DEF DagInv, Ordered
  <2>2. CASE MayRun(t)
    BY <2>2, ShapeHolds DEF DagInv, MayRun, AllDone, UpstreamIn, Shape, Finished, Behind
  <2> QED BY <2>1, <2>2 DEF Start
<1>3. state[t] \notin Finished
  BY <1>1 DEF Finished, Failures
<1> QED BY <1>1, <1>2, <1>3, MoveKeeps

LEMMA SettleKeeps == ASSUME DagInv, NEW t \in Tasks, Settle(t) PROVE DagInv'
<1>1. /\ dag' = dag /\ state[t] = "none" /\ state'[t] \in {"upstream_failed", "skipped"}
      /\ state' \in [Tasks -> States] /\ \A s \in Tasks : s # t => state'[s] = state[s]
  BY DEF Settle, DagInv, States, Finished, Failures
<1>2. Shape /\ Upstream(t) \subseteq Tasks
  BY ShapeHolds DEF DagInv, Shape
<1>3. state'[t] = "upstream_failed" => \E u \in Upstream(t) : state[u] \in Failures
  BY DEF Settle, DagInv, UpstreamIn
<1>4. state'[t] = "skipped" =>
          UpstreamIn(t, {"skipped"}) # {}
          /\ Dag.rule[t] \in {"all_success", "none_failed_min_one_success"}
          /\ (Dag.rule[t] # "all_success" => UpstreamIn(t, {"skipped"}) = Upstream(t))
  BY DEF Settle, DagInv
<1>5. ASSUME state'[t] = "skipped" PROVE \A u \in Upstream(t) : Behind(t, u)
  BY <1>2, <1>4, <1>5 DEF UpstreamIn, Behind, Shape
<1>6. Cap1 => state'[t] # "skipped"
  BY <1>2, <1>4 DEF UpstreamIn, DagInv, NoneSkipped
<1> QED BY <1>1, <1>3, <1>5, <1>6, MoveKeeps DEF Finished, Failures

LEMMA FailKeeps == ASSUME DagInv, NEW t \in Tasks, Fail(t) PROVE DagInv'
<1>1. /\ dag' = dag /\ state[t] = "running" /\ state'[t] \in {"up_for_retry", "failed"}
      /\ state' \in [Tasks -> States] /\ \A s \in Tasks : s # t => state'[s] = state[s]
  BY DEF Fail, DagInv, States, Finished, Failures
<1>2. \A u \in Upstream(t) : Behind(t, u)
  BY <1>1 DEF DagInv, Ordered
<1> QED BY <1>1, <1>2, MoveKeeps DEF Finished, Failures

(* What the branch and the gate skip waited for them alone.                *)
LEMMA SucceedSkips ==
    ASSUME DagInv, NEW t \in Tasks, Succeed(t)
    PROVE  /\ state' \in [Tasks -> States] /\ state'[t] = "success"
           /\ \A s \in Tasks : s # t =>
                 \/ state'[s] = state[s]
                 \/ /\ state'[s] = "skipped" /\ Dag.rule[s] = "all_success" /\ state[s] = "none"
                    /\ ~Cap1 /\ Upstream(s) = {t}
<1> USE DEF DagInv
<1>1. PICK kept \in IF t = Dag.branch THEN {{d} : d \in Downstream(t)}
                   ELSE IF t = Dag.gate THEN {{}, Downstream(t)}
                   ELSE {Downstream(t)} :
          state' = [s \in Tasks |-> IF s = t THEN "success"
                                    ELSE IF s \in Downstream(t) \ kept THEN "skipped"
                                    ELSE state[s]]
  BY DEF Succeed
<1>2. Shape
  BY ShapeHolds
<1>3. ASSUME NEW s \in Downstream(t) \ kept
      PROVE  Dag.rule[s] = "all_success" /\ state[s] = "none" /\ ~Cap1 /\ Upstream(s) = {t}
  <2>1. t \in {Dag.branch, Dag.gate} /\ s \in Tasks /\ t \in Upstream(s)
    BY <1>1 DEF Downstream
  <2>2. Dag.rule[s] = "all_success" /\ Upstream(s) = {t}
    BY <1>2, <2>1 DEF Shape
  <2>3. state[t] = "running"
    BY DEF Succeed
  <2>4. state[s] \in {"none", "upstream_failed"}
    BY <2>1, <2>2, <2>3 DEF Ordered, Behind
  <2>5. state[s] = "none"
    BY <2>1, <2>2, <2>3, <2>4 DEF Blamed, Failures
  <2>6. ~Cap1
    BY <2>1, Cap1Shape DEF Cap1, None
  <2> QED BY <2>2, <2>5, <2>6
<1>4. state' \in [Tasks -> States]
  BY <1>1 DEF States, Finished
<1> QED BY <1>1, <1>3, <1>4

LEMMA SucceedKeeps == ASSUME DagInv, NEW t \in Tasks, Succeed(t) PROVE DagInv'
<1> USE DEF DagInv
<1>1. Shape /\ dag' = dag /\ Dag' = Dag /\ Tasks' = Tasks /\ Cap1' = Cap1
      /\ \A s : Upstream(s)' = Upstream(s)
  BY ShapeHolds, SameDag DEF Succeed
<1>2. state[t] = "running"
  BY DEF Succeed
<1>3. Ordered'
  <2> SUFFICES ASSUME NEW d \in Tasks, NEW u \in Upstream(d),
                      state'[d] \notin {"none", "upstream_failed"}
               PROVE  IF Dag.rule[d] = "all_done" THEN state'[u] \in Finished
                      ELSE state'[u] \in {"success", "skipped"}
    BY <1>1 DEF Ordered, Behind
  <2>1. u \in Tasks /\ state'[u] \in {state[u], "success", "skipped"}
    BY <1>1, SucceedSkips DEF Shape
  <2>2. CASE state'[d] = "skipped" /\ Upstream(d) = {t}
    BY <2>2, SucceedSkips DEF Finished
  <2>3. CASE d = t \/ state'[d] = state[d]
    <3>1. Behind(d, u)
      BY <1>2, <2>3 DEF Ordered
    <3> QED BY <2>1, <3>1 DEF Behind, Finished
  <2> QED BY <2>2, <2>3, SucceedSkips
<1>4. Blamed'
  <2> SUFFICES ASSUME NEW d \in Tasks, state'[d] = "upstream_failed"
               PROVE  \E u \in Upstream(d) : state'[u] \in Failures
    BY <1>1 DEF Blamed
  <2>1. state[d] = "upstream_failed"
    BY SucceedSkips
  <2>2. PICK u \in Upstream(d) : state[u] \in Failures
    BY <2>1 DEF Blamed
  <2>3. u \in Tasks /\ u # t /\ state[u] # "none"
    BY <1>1, <1>2, <2>2 DEF Shape, Failures
  <2> QED BY <2>2, <2>3, SucceedSkips
<1>5. NoneSkipped'
  BY <1>1, SucceedSkips DEF NoneSkipped
<1> QED BY <1>1, <1>3, <1>4, <1>5, SucceedSkips

(* A set of tasks with all that comes after it starts anew.                *)
LEMMA ResetKeeps ==
    ASSUME DagInv, dag' = dag, NEW R \in SUBSET Tasks,
           \A d \in Tasks : \A u \in Upstream(d) : u \in R => d \in R,
           state' = [s \in Tasks |-> IF s \in R THEN "none" ELSE state[s]]
    PROVE  DagInv'
<1> USE DEF DagInv
<1>1. Shape /\ Dag' = Dag /\ Tasks' = Tasks /\ Cap1' = Cap1 /\ \A s : Upstream(s)' = Upstream(s)
  BY ShapeHolds, SameDag
<1>2. state' \in [Tasks -> States]
  BY DEF States
<1>3. \A d \in Tasks : \A u \in Upstream(d) :
          u \in Tasks /\ (state'[d] # "none" => state'[d] = state[d] /\ state'[u] = state[u])
  BY <1>1 DEF Shape
<1>4. Ordered'
  BY <1>1, <1>3 DEF Ordered, Behind
<1>5. Blamed'
  <2> SUFFICES ASSUME NEW d \in Tasks, state'[d] = "upstream_failed"
               PROVE  \E u \in Upstream(d) : state'[u] \in Failures
    BY <1>1 DEF Blamed
  <2>1. state[d] = "upstream_failed"
    OBVIOUS
  <2> QED BY <1>3, <2>1 DEF Blamed
<1>6. NoneSkipped'
  BY <1>1 DEF NoneSkipped
<1> QED BY <1>1, <1>2, <1>4, <1>5, <1>6

LEMMA ClearKeeps == ASSUME DagInv, NEW t \in Tasks, Clear(t) PROVE DagInv'
<1>1. /\ Shape /\ dag' = dag
      /\ state' = [s \in Tasks |-> IF s \in Onwards(t) THEN "none" ELSE state[s]]
  BY ShapeHolds DEF DagInv, Clear
<1>2. Onwards(t) \in SUBSET Tasks
      /\ \A d \in Tasks : \A u \in Upstream(d) : u \in Onwards(t) => d \in Onwards(t)
  BY <1>1, OnwardsClosed
<1> QED BY <1>1, <1>2, ResetKeeps

LEMMA NextRunKeeps == ASSUME DagInv, NextRun PROVE DagInv'
<1>1. dag' = dag /\ state' = [s \in Tasks |-> IF s \in Tasks THEN "none" ELSE state[s]]
  BY DEF NextRun
<1> QED BY <1>1, ResetKeeps
-----------------------------------------------------------------------------
(* The budget of attempts.                                                 *)
LEMMA StartWithin == ASSUME DagInv, Budgeted, NEW t \in Tasks, Start(t) PROVE Budgeted'
<1> USE DEF Budgeted
<1>1. Dag' = Dag /\ Tasks' = Tasks
  BY SameDag DEF Start
<1>2. ASSUME NEW s \in Tasks, s # t PROVE Within(s)'
  <2>1. /\ state'[s] = state[s] /\ tries'[s] = tries[s] /\ budget' = budget
        /\ retried' = retried /\ alerted' = alerted /\ clears' = clears
    BY <1>2 DEF Start, DagInv
  <2> QED BY <1>1, <2>1 DEF Within
<1>3. Within(t)'
  <2>1. /\ state'[t] = "running" /\ tries'[t] = tries[t] + 1 /\ budget' = budget
        /\ retried' = retried /\ alerted' = alerted /\ clears' = clears
        /\ state[t] \in {"none", "up_for_retry"}
    BY DEF Start, DagInv
  <2>2. tries[t] \in Nat /\ budget[t] \in Nat /\ retried[t] \in Nat /\ alerted[t] \in Nat
    OBVIOUS
  <2> QED BY <1>1, <2>1, <2>2 DEF Within
<1>4. tries' \in [Tasks -> Nat]
  BY DEF Start
<1> QED BY <1>1, <1>2, <1>3, <1>4 DEF Start

LEMMA FailWithin == ASSUME DagInv, Budgeted, NEW t \in Tasks, Fail(t) PROVE Budgeted'
<1> USE DEF Budgeted
<1>1. Dag' = Dag /\ Tasks' = Tasks
  BY SameDag DEF Fail
<1>2. ASSUME NEW s \in Tasks, s # t PROVE Within(s)'
  <2>1. /\ state'[s] = state[s] /\ tries' = tries /\ budget' = budget
        /\ retried'[s] = retried[s] /\ alerted'[s] = alerted[s] /\ clears' = clears
    BY <1>2 DEF Fail, DagInv
  <2> QED BY <1>1, <2>1 DEF Within
<1>3. Within(t)'
  <2>1. /\ tries' = tries /\ budget' = budget /\ clears' = clears /\ state[t] = "running"
        /\ \/ /\ state'[t] = "up_for_retry" /\ tries[t] < budget[t]
              /\ retried'[t] = retried[t] + 1 /\ alerted'[t] = alerted[t]
           \/ /\ state'[t] = "failed"
              /\ retried'[t] = retried[t] /\ alerted'[t] = alerted[t] + 1
    BY DEF Fail, DagInv
  <2>2. tries[t] \in Nat /\ budget[t] \in Nat /\ retried[t] \in Nat /\ alerted[t] \in Nat
    OBVIOUS
  <2> QED BY <1>1, <2>1, <2>2 DEF Within
<1>4. retried' \in [Tasks -> Nat] /\ alerted' \in [Tasks -> Nat]
  BY DEF Fail
<1> QED BY <1>1, <1>2, <1>3, <1>4 DEF Fail

LEMMA EndWithin ==
    ASSUME DagInv, Budgeted, NEW t \in Tasks, Settle(t) \/ Succeed(t) PROVE Budgeted'
<1> USE DEF Budgeted
<1>1. Dag' = Dag /\ Tasks' = Tasks /\ UNCHANGED <<tries, budget, retried, alerted, clears>>
  BY SameDag DEF Settle, Succeed
<1>2. ASSUME NEW s \in Tasks PROVE state'[s] = state[s] \/ state'[s] \in Finished
  <2>1. CASE Settle(t)
    BY <2>1 DEF Settle, DagInv, Finished, Failures
  <2>2. CASE Succeed(t)
    BY <2>2, SucceedSkips DEF Finished
  <2> QED BY <2>1, <2>2
<1>3. ASSUME NEW s \in Tasks PROVE Within(s)'
  BY <1>1, <1>2 DEF Within, Finished, Failures
<1> QED BY <1>1, <1>3

LEMMA ResetWithin ==
    ASSUME DagInv, Budgeted, dag' = dag, NEW R \in SUBSET Tasks, clears < MaxClears,
           state' = [s \in Tasks |-> IF s \in R THEN "none" ELSE state[s]],
           budget' = [s \in Tasks |-> IF s \in R THEN tries[s] + Dag.retries + 1 ELSE budget[s]],
           clears' = clears + 1, UNCHANGED <<tries, retried, alerted>>
    PROVE  Budgeted'
<1> USE DEF Budgeted
<1>1. Dag' = Dag /\ Tasks' = Tasks /\ Dag.retries \in {0, 3}
  BY SameDag, ShapeHolds DEF DagInv, Shape
<1>2. clears' \in 0 .. MaxClears /\ clears \in Nat
  BY DagAssumption
<1>3. (Dag.retries + 1) * (clears' + 1) = (Dag.retries + 1) * (clears + 1) + (Dag.retries + 1)
  BY <1>1, <1>2
<1>4. ASSUME NEW s \in Tasks PROVE Within(s)' /\ budget'[s] \in Nat
  <2>1. tries[s] \in Nat /\ budget[s] \in Nat /\ retried[s] \in Nat /\ alerted[s] \in Nat
        /\ (Dag.retries + 1) * (clears + 1) \in Nat
    BY <1>1, <1>2
  <2>2. CASE s \in R
    <3>1. state'[s] = "none" /\ budget'[s] = tries[s] + Dag.retries + 1
      BY <2>2
    <3> QED BY <1>1, <1>3, <2>1, <3>1 DEF Within
  <2>3. CASE s \notin R
    <3>1. state'[s] = state[s] /\ budget'[s] = budget[s]
      BY <2>3
    <3> QED BY <1>1, <1>3, <2>1, <3>1 DEF Within
  <2> QED BY <2>2, <2>3
<1> QED BY <1>1, <1>2, <1>4

LEMMA ClearWithin == ASSUME DagInv, Budgeted, NEW t \in Tasks, Clear(t) PROVE Budgeted'
<1>1. Onwards(t) \in SUBSET Tasks
  BY ShapeHolds, OnwardsClosed DEF DagInv
<1> QED BY <1>1, ResetWithin DEF Clear

LEMMA NextRunWithin == ASSUME DagInv, Budgeted, NextRun PROVE Budgeted'
<1> USE DEF Budgeted
<1>1. Dag' = Dag /\ Tasks' = Tasks /\ Dag.retries \in {0, 3}
  BY SameDag, ShapeHolds DEF DagInv, Shape, NextRun
<1>2. clears' = clears + 1 /\ clears' \in 0 .. MaxClears /\ clears \in Nat
  BY DagAssumption DEF NextRun
<1>3. (Dag.retries + 1) * (clears' + 1) = (Dag.retries + 1) * (clears + 1) + (Dag.retries + 1)
      /\ (Dag.retries + 1) * (clears + 1) \in Nat
  BY <1>1, <1>2
<1>4. ASSUME NEW s \in Tasks PROVE Within(s)'
  <2>1. /\ state'[s] = "none" /\ tries'[s] = 0 /\ budget'[s] = Dag.retries + 1
        /\ retried'[s] = 0 /\ alerted'[s] = 0
    BY DEF NextRun
  <2> QED BY <1>1, <1>3, <2>1 DEF Within
<1>5. /\ tries' \in [Tasks -> Nat] /\ budget' \in [Tasks -> Nat]
      /\ retried' \in [Tasks -> Nat] /\ alerted' \in [Tasks -> Nat]
  BY <1>1 DEF NextRun
<1> QED BY <1>1, <1>2, <1>4, <1>5

LEMMA DagTypes == ASSUME DagInv, Budgeted PROVE DagTypeOK
<1> USE DEF DagInv, Budgeted
<1>1. Dag.retries \in {0, 3} /\ clears \in Nat /\ clears <= MaxClears /\ MaxClears \in Nat
  BY ShapeHolds, DagAssumption DEF Shape
<1>2. (Dag.retries + 1) * (clears + 1) <= MaxTries /\ MaxTries \in Nat
  BY <1>1 DEF MaxTries
<1>3. ASSUME NEW t \in Tasks
      PROVE  /\ tries[t] \in 0 .. MaxTries /\ budget[t] \in 0 .. MaxTries
             /\ retried[t] \in 0 .. MaxTries /\ alerted[t] \in 0 .. MaxTries
  <2>1. tries[t] \in Nat /\ budget[t] \in Nat /\ retried[t] \in Nat /\ alerted[t] \in Nat
        /\ (Dag.retries + 1) * (clears + 1) \in Nat
    BY <1>1
  <2> QED BY <1>2, <2>1 DEF Within
<1>4. \A t \in Tasks : retried[t] + alerted[t] <= tries[t] /\ tries[t] <= budget[t]
  BY DEF Within
<1> QED BY <1>3, <1>4 DEF DagTypeOK, States
-----------------------------------------------------------------------------
(* THE STAGES.  A running stage has its last statements left, by their     *)
(* number one knows which, and what they say about the tables.             *)
Statements ==
    {"teardown", "seed", "drop_mirror", "create_mirror", "merge", "drop_mart", "create_mart",
     "validate"}
Left(t) == Len(todo[t])
Suffix(t) ==
    /\ Left(t) <= Len(Stage(t))
    /\ \A i \in 1 .. Left(t) : todo[t][i] = Stage(t)[Len(Stage(t)) - Left(t) + i]
    /\ state[t] # "running" => todo[t] = <<>>
TodoInv ==
    /\ todo \in [Tasks -> Seq(Statements)]
    /\ \A t \in Tasks : Suffix(t)

TableTypes ==
    /\ gen \in 0 .. MaxSeeds /\ captured \in BOOLEAN
    /\ mirror \in Rows /\ mart \in Rows
    /\ captured => gen > 0

Is(t, s) == state[t] = s

IngestInv ==
    /\ Is("cdc_ingest", "running") =>
           /\ Left("cdc_ingest") = 2 => mirror = Absent
           /\ Left("cdc_ingest") = 1 => mirror = {}
           /\ Left("cdc_ingest") = 0 => mirror = {gen}
    /\ Is("cdc_ingest", "success") => mirror \in {Absent, {gen}}

TransformInv ==
    \/ (Is("spark_transform", "running") /\ Left("spark_transform") = 0)
    \/ Is("spark_transform", "success")
    => mart \in {Absent, {gen}}

Past(n) == (Is("cleanup", "running") /\ Left("cleanup") <= n) \/ Is("cleanup", "success")
CleanupInv ==
    /\ Past(2) => mart = Absent
    /\ Past(1) => mirror = Absent
    /\ Past(0) => ~captured

StagesInv == Cap1 => IngestInv /\ TransformInv /\ CleanupInv

PipelineInv == DagInv /\ Budgeted /\ TodoInv /\ TableTypes /\ StagesInv

LEMMA StageIs ==
    ASSUME Cap1
    PROVE  /\ Stage("cdc_ingest") = Ingest /\ Stage("spark_transform") = Transform
           /\ Stage("ge_gate") = Quality /\ Stage("cleanup") = Cleanup
           /\ Stage("dbt_marts") = <<>> /\ Stage("dbt_test") = <<>>
BY DEF Stage

LEMMA StageTypes ==
    /\ Ingest \in Seq(Statements) /\ Len(Ingest) = 5
    /\ Transform \in Seq(Statements) /\ Len(Transform) = 2
    /\ Quality \in Seq(Statements) /\ Len(Quality) = 1
    /\ Cleanup \in Seq(Statements) /\ Len(Cleanup) = 3
    /\ <<>> \in Seq(Statements)
<1>1. Ingest \in Seq(Statements) /\ Len(Ingest) = 5
  BY DEF Ingest, Statements
<1>2. Transform \in Seq(Statements) /\ Len(Transform) = 2
  BY DEF Transform, Statements
<1>3. Quality \in Seq(Statements) /\ Len(Quality) = 1
  BY DEF Quality, Statements
<1>4. Cleanup \in Seq(Statements) /\ Len(Cleanup) = 3
  BY DEF Cleanup, Statements
<1>5. <<>> \in Seq(Statements)
  OBVIOUS
<1> QED BY <1>1, <1>2, <1>3, <1>4, <1>5

LEMMA StageOf ==
    /\ \A t : Stage(t) \in Seq(Statements)
    /\ \A t : ~Cap1 => Stage(t) = <<>>
<1>1. ASSUME NEW t PROVE Stage(t) \in {Ingest, Transform, Quality, Cleanup, <<>>}
  BY DEF Stage
<1> QED BY <1>1, StageTypes DEF Stage

(* Where a statement stands in its stage, and what is left after it.       *)
LEMMA StatementAt ==
    ASSUME DagInv, TodoInv, NEW t \in Tasks, NEW name, Statement(t, name)
    PROVE  /\ Cap1 /\ Is(t, "running") /\ Left(t) \in Nat \ {0}
           /\ name = Stage(t)[Len(Stage(t)) - Left(t) + 1]
           /\ \/ t = "cdc_ingest" /\ \/ name = "teardown" /\ Left(t) = 5
                                     \/ name = "seed" /\ Left(t) = 4
                                     \/ name = "drop_mirror" /\ Left(t) = 3
                                     \/ name = "create_mirror" /\ Left(t) = 2
                                     \/ name = "merge" /\ Left(t) = 1
              \/ t = "spark_transform" /\ \/ name = "drop_mart" /\ Left(t) = 2
                                          \/ name = "create_mart" /\ Left(t) = 1
              \/ t = "ge_gate" /\ name = "validate"
              \/ t = "cleanup" /\ \/ name = "drop_mart" /\ Left(t) = 3
                                  \/ name = "drop_mirror" /\ Left(t) = 2
                                  \/ name = "teardown" /\ Left(t) = 1
<1>1. todo[t] \in Seq(Statements) /\ todo[t] # <<>> /\ Head(todo[t]) = name
  BY DEF TodoInv, Statement
<1>2. Left(t) \in Nat \ {0} /\ name = todo[t][1]
  BY <1>1 DEF Left
<1>3. Suffix(t) /\ Len(Stage(t)) \in Nat
  BY StageOf DEF TodoInv
<1>4. name = Stage(t)[Len(Stage(t)) - Left(t) + 1] /\ Left(t) <= Len(Stage(t))
  BY <1>2, <1>3 DEF Suffix
<1>5. Cap1
  BY <1>2, <1>4, StageOf
<1>6. t \in {"cdc_ingest", "spark_transform", "ge_gate", "dbt_marts", "dbt_test", "cleanup"}
  BY <1>5, Cap1Shape DEF Cap1
<1>7. CASE t = "cdc_ingest"
  <2>1. Stage(t) = Ingest /\ Len(Stage(t)) = 5
    BY <1>5, <1>7, StageIs, StageTypes
  <2>2. Left(t) \in 1 .. 5 /\ 5 - Left(t) + 1 = 6 - Left(t)
    BY <1>2, <1>4, <2>1
  <2>3. name = Ingest[6 - Left(t)]
    BY <1>4, <2>1, <2>2
  <2>4. \/ name = "teardown" /\ Left(t) = 5
        \/ name = "seed" /\ Left(t) = 4
        \/ name = "drop_mirror" /\ Left(t) = 3
        \/ name = "create_mirror" /\ Left(t) = 2
        \/ name = "merge" /\ Left(t) = 1
    <3>1. Left(t) = 5 \/ Left(t) = 4 \/ Left(t) = 3 \/ Left(t) = 2 \/ Left(t) = 1
      BY <2>2
    <3>2. CASE Left(t) = 5
      BY <2>3, <3>2 DEF Ingest
    <3>3. CASE Left(t) = 4
      BY <2>3, <3>3 DEF Ingest
    <3>4. CASE Left(t) = 3
      BY <2>3, <3>4 DEF Ingest
    <3>5. CASE Left(t) = 2
      BY <2>3, <3>5 DEF Ingest
    <3>6. CASE Left(t) = 1
      BY <2>3, <3>6 DEF Ingest
    <3> QED BY <3>1, <3>2, <3>3, <3>4, <3>5, <3>6
  <2> QED BY <1>7, <2>4, <1>2, <1>4, <1>5 DEF Statement, Is
<1>8. CASE t = "spark_transform"
  <2>1. Stage(t) = Transform /\ Len(Stage(t)) = 2
    BY <1>5, <1>8, StageIs, StageTypes
  <2>2. Left(t) \in 1 .. 2 /\ 2 - Left(t) + 1 = 3 - Left(t)
    BY <1>2, <1>4, <2>1
  <2>3. name = Transform[3 - Left(t)]
    BY <1>4, <2>1, <2>2
  <2>4. \/ name = "drop_mart" /\ Left(t) = 2
        \/ name = "create_mart" /\ Left(t) = 1
    <3>1. Left(t) = 2 \/ Left(t) = 1
      BY <2>2
    <3>2. CASE Left(t) = 2
      BY <2>3, <3>2 DEF Transform
    <3>3. CASE Left(t) = 1
      BY <2>3, <3>3 DEF Transform
    <3> QED BY <3>1, <3>2, <3>3
  <2> QED BY <1>8, <2>4, <1>2, <1>4, <1>5 DEF Statement, Is
<1>9. CASE t = "ge_gate"
  <2>1. Stage(t) = Quality /\ Len(Stage(t)) = 1
    BY <1>5, <1>9, StageIs, StageTypes
  <2>2. Left(t) = 1
    BY <1>2, <1>4, <2>1
  <2>3. name = Quality[1]
    BY <1>4, <2>1, <2>2
  <2>4. name = "validate"
    BY <2>2, <2>3 DEF Quality
  <2> QED BY <1>9, <2>4, <1>2, <1>4, <1>5 DEF Statement, Is
<1>10. CASE t = "cleanup"
  <2>1. Stage(t) = Cleanup /\ Len(Stage(t)) = 3
    BY <1>5, <1>10, StageIs, StageTypes
  <2>2. Left(t) \in 1 .. 3 /\ 3 - Left(t) + 1 = 4 - Left(t)
    BY <1>2, <1>4, <2>1
  <2>3. name = Cleanup[4 - Left(t)]
    BY <1>4, <2>1, <2>2
  <2>4. \/ name = "drop_mart" /\ Left(t) = 3
        \/ name = "drop_mirror" /\ Left(t) = 2
        \/ name = "teardown" /\ Left(t) = 1
    <3>1. Left(t) = 3 \/ Left(t) = 2 \/ Left(t) = 1
      BY <2>2
    <3>2. CASE Left(t) = 3
      BY <2>3, <3>2 DEF Cleanup
    <3>3. CASE Left(t) = 2
      BY <2>3, <3>3 DEF Cleanup
    <3>4. CASE Left(t) = 1
      BY <2>3, <3>4 DEF Cleanup
    <3> QED BY <3>1, <3>2, <3>3, <3>4
  <2> QED BY <1>10, <2>4, <1>2, <1>4, <1>5 DEF Statement, Is
<1>11. CASE t \in {"dbt_marts", "dbt_test"}
  BY <1>2, <1>4, <1>5, <1>11, StageIs
<1> QED BY <1>6, <1>7, <1>8, <1>9, <1>10, <1>11

(* What a statement leaves of the stages.                                  *)
LEMMA StatementLeaves ==
    ASSUME DagInv, TodoInv, NEW t \in Tasks, NEW name, Statement(t, name)
    PROVE  /\ TodoInv' /\ DagInv' /\ Tasks' = Tasks /\ Cap1' = Cap1
           /\ Left(t)' = Left(t) - 1
           /\ \A s \in Tasks : s # t => Left(s)' = Left(s)
           /\ \A s, st : Is(s, st)' = Is(s, st)
<1>1. dag' = dag /\ state' = state /\ todo' = [todo EXCEPT ![t] = Tail(@)]
  BY DEF Statement, dagVars
<1>2. Dag' = Dag /\ Tasks' = Tasks /\ Cap1' = Cap1 /\ \A s : Upstream(s)' = Upstream(s)
  BY <1>1, SameDag
<1>3. \A s : Stage(s)' = Stage(s)
  BY <1>2 DEF Stage
<1>4. DagInv'
  BY <1>1, <1>2 DEF DagInv, Ordered, Behind, Blamed, NoneSkipped
<1>5. todo[t] \in Seq(Statements) /\ todo[t] # <<>> /\ Left(t) \in Nat \ {0}
  BY StatementAt DEF TodoInv, Statement
<1>6. /\ todo'[t] \in Seq(Statements) /\ Left(t)' = Left(t) - 1
      /\ \A i \in 1 .. Left(t) - 1 : todo'[t][i] = todo[t][i + 1]
  BY <1>1, <1>5 DEF TodoInv, Left
<1>7. \A s \in Tasks : s # t => todo'[s] = todo[s] /\ Left(s)' = Left(s)
  BY <1>1 DEF TodoInv, Left
<1>8. todo' \in [Tasks -> Seq(Statements)]
  BY <1>1, <1>6 DEF TodoInv
<1>9. Suffix(t)'
  <2>1. Suffix(t) /\ Len(Stage(t)) \in Nat
    BY StageOf DEF TodoInv
  <2>2. ASSUME NEW i \in 1 .. Left(t) - 1
        PROVE  todo'[t][i] = Stage(t)[Len(Stage(t)) - (Left(t) - 1) + i]
    <3>1. /\ i + 1 \in 1 .. Left(t)
          /\ Len(Stage(t)) - Left(t) + (i + 1) = Len(Stage(t)) - (Left(t) - 1) + i
      BY <1>5, <2>1
    <3> QED BY <1>6, <2>1, <3>1 DEF Suffix
  <2>3. state'[t] = "running"
    BY <1>1 DEF Statement
  <2>4. Left(t) - 1 <= Len(Stage(t))
    BY <1>5, <2>1 DEF Suffix
  <2> QED BY <1>3, <1>6, <2>2, <2>3, <2>4 DEF Suffix
<1>10. ASSUME NEW s \in Tasks, s # t PROVE Suffix(s)'
  <2>1. Suffix(s)
    BY DEF TodoInv
  <2> QED BY <1>1, <1>3, <1>7, <1>10, <2>1 DEF Suffix
<1>11. TodoInv'
  BY <1>2, <1>8, <1>9, <1>10 DEF TodoInv
<1> QED BY <1>1, <1>2, <1>4, <1>6, <1>7, <1>11 DEF Is
(* The stages never overlap.                                               *)
Idle == {"none", "upstream_failed"}
LEMMA Apart ==
    ASSUME DagInv, Cap1
    PROVE  /\ Is("cdc_ingest", "running") =>
                 state["spark_transform"] \in Idle /\ state["cleanup"] \in Idle
           /\ Is("spark_transform", "running") => state["cleanup"] \in Idle
           /\ Is("spark_transform", "running") \/ Is("spark_transform", "success") =>
                 Is("cdc_ingest", "success")
<1>1. /\ Tasks = {"cdc_ingest", "spark_transform", "ge_gate", "dbt_marts", "dbt_test", "cleanup"}
      /\ Upstream("spark_transform") = {"cdc_ingest"} /\ Upstream("ge_gate") = {"spark_transform"}
      /\ Upstream("cleanup") = {"ge_gate", "dbt_test"}
      /\ \A t \in Tasks : Dag.rule[t] = IF t = "cleanup" THEN "all_done" ELSE "all_success"
  BY Cap1Shape DEF Cap1
<1>2. \A t \in Tasks : state[t] \in States /\ state[t] # "skipped"
  BY DEF DagInv, NoneSkipped
<1>3. state["spark_transform"] \notin Idle => state["cdc_ingest"] = "success"
  BY <1>1, <1>2 DEF DagInv, Ordered, Behind, Idle
<1>4. state["ge_gate"] \notin Idle => state["spark_transform"] = "success"
  BY <1>1, <1>2 DEF DagInv, Ordered, Behind, Idle
<1>5. state["cleanup"] \notin Idle => state["ge_gate"] \in Finished
  BY <1>1 DEF DagInv, Ordered, Behind, Idle
<1>6. state["ge_gate"] = "upstream_failed" => state["spark_transform"] \in Failures
  BY <1>1 DEF DagInv, Blamed
<1>7. state["spark_transform"] = "upstream_failed" => state["cdc_ingest"] \in Failures
  BY <1>1 DEF DagInv, Blamed
<1> QED BY <1>3, <1>4, <1>5, <1>6, <1>7 DEF Is, Idle, Finished, Failures

(* What a statement does, by its name.                                     *)
LEMMA Effect ==
    ASSUME NEW t \in Tasks, NEW name, Statement(t, name), Execute(t)
    PROVE  /\ name = "teardown" => captured' = FALSE /\ UNCHANGED <<gen, mirror, mart>>
           /\ name = "seed" => /\ gen < MaxSeeds /\ gen' = gen + 1 /\ captured' = TRUE
                              /\ UNCHANGED <<mirror, mart>>
           /\ name = "drop_mirror" => mirror' = Absent /\ UNCHANGED <<gen, captured, mart>>
           /\ name = "create_mirror" => mirror' = {} /\ UNCHANGED <<gen, captured, mart>>
           /\ name = "merge" => /\ captured /\ mirror # Absent /\ mirror' = mirror \cup {gen}
                               /\ UNCHANGED <<gen, captured, mart>>
           /\ name = "drop_mart" => mart' = Absent /\ UNCHANGED <<gen, captured, mirror>>
           /\ name = "create_mart" => mart' = mirror /\ UNCHANGED <<gen, captured, mirror>>
           /\ name = "validate" => UNCHANGED <<gen, captured, mirror, mart>>
BY DEF Statement, Execute, TearDown, SeedAndCapture, DropMirror, CreateMirror, Merge, DropMart,
       CreateMart, Validate

(* What holds of the tables after a statement: by the place in the stage.  *)
LEMMA ExecuteKeeps == ASSUME PipelineInv, NEW t \in Tasks, Execute(t) PROVE PipelineInv'
<1> USE DEF PipelineInv
<1>1. PICK name : Statement(t, name)
  BY DEF Execute, TearDown, SeedAndCapture, DropMirror, CreateMirror, Merge, DropMart, CreateMart,
         Validate
<1>2. Cap1 /\ Is(t, "running") /\ Left(t) \in Nat \ {0}
  BY <1>1, StatementAt
<1>3. /\ TodoInv' /\ DagInv' /\ Tasks' = Tasks /\ Cap1' = Cap1
      /\ Left(t)' = Left(t) - 1
      /\ \A s \in Tasks : s # t => Left(s)' = Left(s)
      /\ \A s, st : Is(s, st)' = Is(s, st)
  BY <1>1, StatementLeaves
<1>4. Budgeted'
  BY <1>1, <1>3, SameDag DEF Statement, dagVars, Budgeted, Within
<1>5. name \in Statements
  BY <1>1, StatementAt DEF Statements
<1>6. TableTypes'
  <2> USE SeedAssumption DEF TableTypes, Rows
  <2>1. CASE name = "merge"
    <3>1. /\ captured /\ mirror # Absent /\ mirror' = mirror \cup {gen}
          /\ UNCHANGED <<gen, captured, mart>>
      BY <1>1, <2>1, Effect
    <3>2. gen \in 1 .. MaxSeeds /\ mirror \in SUBSET (1 .. MaxSeeds)
      BY <3>1
    <3>3. mirror' \in SUBSET (1 .. MaxSeeds)
      BY <3>1, <3>2
    <3> QED BY <3>1, <3>3
  <2>2. CASE name = "seed"
    <3>1. gen < MaxSeeds /\ gen' = gen + 1 /\ captured' = TRUE /\ UNCHANGED <<mirror, mart>>
      BY <1>1, <2>2, Effect
    <3>2. gen' \in 0 .. MaxSeeds /\ gen' > 0
      BY <3>1
    <3>3. captured' \in BOOLEAN
      BY <3>1
    <3> QED BY <3>1, <3>2, <3>3
  <2>3. CASE name \notin {"merge", "seed"}
    BY <1>1, <1>5, <2>3, Effect DEF Statements, Absent
  <2> QED BY <2>1, <2>2, <2>3
<1>7. IngestInv /\ TransformInv /\ CleanupInv
  BY <1>2 DEF StagesInv
<1>8. {"cdc_ingest", "spark_transform", "cleanup"} \subseteq Tasks
  BY <1>2, Cap1Shape DEF Cap1
<1>9. ASSUME t = "cdc_ingest" PROVE StagesInv'
  <2>1. /\ state["spark_transform"] \in Idle /\ state["cleanup"] \in Idle
        /\ state["cdc_ingest"] = "running"
    BY <1>2, <1>9, Apart DEF Is
  <2>3. state' = state
    BY <1>1 DEF Statement, dagVars
  <2>4. TransformInv' /\ CleanupInv'
    BY <2>1, <2>3 DEF TransformInv, CleanupInv, Past, Is, Idle
  <2>2. Left(t)' = Left(t) - 1
    BY <1>3
  <2>5. Left(t)' = 2 => mirror' = Absent
    <3>1. Left(t)' = 2 => name = "drop_mirror"
      BY <1>1, <1>9, <2>2, StatementAt
    <3> QED BY <1>1, <3>1, Effect
  <2>6. Left(t)' = 1 => mirror' = {}
    <3>1. Left(t)' = 1 => name = "create_mirror"
      BY <1>1, <1>9, <2>2, StatementAt
    <3> QED BY <1>1, <3>1, Effect
  <2>7. Left(t)' = 0 => mirror' = {gen'}
    <3>1. ASSUME Left(t)' = 0 PROVE name = "merge" /\ mirror = {}
      BY <1>1, <1>7, <1>9, <2>1, <2>2, <3>1, StatementAt DEF IngestInv, Is
    <3> QED BY <1>1, <3>1, Effect
  <2>8. IngestInv'
    BY <1>9, <2>1, <2>3, <2>5, <2>6, <2>7 DEF IngestInv, Is
  <2> QED BY <2>4, <2>8 DEF StagesInv
<1>10. ASSUME t = "spark_transform" PROVE StagesInv'
  <2>1. state["cleanup"] \in Idle /\ state["cdc_ingest"] = "success"
        /\ state["spark_transform"] = "running"
    BY <1>2, <1>10, Apart DEF Is
  <2>3. state' = state
    BY <1>1 DEF Statement, dagVars
  <2>4. CleanupInv'
    BY <2>1, <2>3 DEF CleanupInv, Past, Is, Idle
  <2>5. name \in {"create_mart", "drop_mart"}
    BY <1>1, <1>10, StatementAt
  <2>6. mirror' = mirror /\ gen' = gen /\ mirror \in {Absent, {gen}}
    BY <1>1, <1>7, <2>1, <2>5, Effect DEF IngestInv, Is
  <2>7. mart' \in {Absent, {gen'}}
    BY <1>1, <2>5, <2>6, Effect
  <2>8. IngestInv' /\ TransformInv'
    BY <2>1, <2>3, <2>6, <2>7 DEF IngestInv, TransformInv, Is
  <2> QED BY <2>4, <2>8 DEF StagesInv
<1>11. ASSUME t = "cleanup" PROVE StagesInv'
  <2>1. state["spark_transform"] # "running" /\ state["cdc_ingest"] # "running"
        /\ state["cleanup"] = "running"
    BY <1>2, <1>11, Apart DEF Is, Idle
  <2>3. state' = state
    BY <1>1 DEF Statement, dagVars
  <2>2. Left(t)' = Left(t) - 1
    BY <1>3
  <2>4. gen' = gen /\ (mirror' = mirror \/ mirror' = Absent) /\ (mart' = mart \/ mart' = Absent)
    BY <1>1, <1>11, StatementAt, Effect
  <2>5. IngestInv' /\ TransformInv'
    BY <1>7, <2>1, <2>3, <2>4 DEF IngestInv, TransformInv, Is
  <2>6. Left(t)' <= 2 => mart' = Absent
    <3>1. CASE name = "drop_mart"
      BY <1>1, <3>1, Effect
    <3>2. CASE name # "drop_mart"
      <4>1. Left(t) <= 2 /\ mart = Absent
        BY <1>1, <1>7, <1>11, <2>1, <3>2, StatementAt DEF CleanupInv, Past, Is
      <4> QED BY <2>4, <4>1
    <3> QED BY <3>1, <3>2
  <2>7. Left(t)' <= 1 => mirror' = Absent
    <3>1. CASE name = "drop_mirror"
      BY <1>1, <3>1, Effect
    <3>2. ASSUME name # "drop_mirror", Left(t)' <= 1 PROVE mirror' = Absent
      <4>1. Left(t) <= 1 /\ mirror = Absent
        BY <1>1, <1>7, <1>11, <2>1, <2>2, <3>2, StatementAt DEF CleanupInv, Past, Is
      <4> QED BY <2>4, <4>1
    <3> QED BY <3>1, <3>2
  <2>8. Left(t)' <= 0 => ~captured'
    <3>1. Left(t)' <= 0 => name = "teardown"
      BY <1>1, <1>11, <2>2, StatementAt
    <3> QED BY <1>1, <3>1, Effect
  <2>9. CleanupInv'
    BY <1>11, <2>1, <2>3, <2>6, <2>7, <2>8 DEF CleanupInv, Past, Is
  <2> QED BY <2>5, <2>9 DEF StagesInv
<1>12. ASSUME t \notin {"cdc_ingest", "spark_transform", "cleanup"} PROVE StagesInv'
  <2>1. name = "validate"
    BY <1>1, <1>12, StatementAt
  <2>2. UNCHANGED <<gen, captured, mirror, mart>> /\ state' = state
    BY <1>1, <2>1, Effect DEF Statement, dagVars
  <2>3. /\ Left("cdc_ingest")' = Left("cdc_ingest") /\ Left("cleanup")' = Left("cleanup")
        /\ Left("spark_transform")' = Left("spark_transform")
    BY <1>3, <1>8, <1>12
  <2> QED BY <1>7, <2>2, <2>3 DEF StagesInv, IngestInv, TransformInv, CleanupInv, Past, Is
<1>13. StagesInv'
  BY <1>9, <1>10, <1>11, <1>12
<1> QED BY <1>3, <1>4, <1>6, <1>13
-----------------------------------------------------------------------------
(* THE OTHER STEPS move tasks and leave the tables alone.                  *)
TablesStay == UNCHANGED <<gen, captured, mirror, mart>>

LEMMA TablesTyped == ASSUME TableTypes, TablesStay PROVE TableTypes'
BY DEF TableTypes, TablesStay

(* What is left of a stage that is not touched.                            *)
LEMMA SameTodo ==
    ASSUME TodoInv, dag' = dag, NEW s \in Tasks, todo'[s] = todo[s],
           state'[s] # "running" => state[s] # "running"
    PROVE  Suffix(s)' /\ Left(s)' = Left(s)
<1>1. Suffix(s) /\ Stage(s)' = Stage(s)
  BY SameDag DEF TodoInv, Stage
<1> QED BY <1>1 DEF Suffix, Left

LEMMA StartStageKeeps == ASSUME PipelineInv, NEW t \in Tasks, StartStage(t) PROVE PipelineInv'
<1> USE DEF PipelineInv
<1>1. Start(t) /\ dag' = dag /\ TablesStay /\ todo' = [todo EXCEPT ![t] = Stage(t)]
  BY DEF StartStage, Start, TablesStay
<1>2. DagInv' /\ Budgeted' /\ TableTypes'
  BY <1>1, StartKeeps, StartWithin, TablesTyped
<1>3. Tasks' = Tasks /\ Cap1' = Cap1 /\ Stage(t)' = Stage(t)
  BY <1>1, SameDag DEF Stage
<1>4. /\ state'[t] = "running" /\ \A s \in Tasks : s # t => state'[s] = state[s]
  BY <1>1 DEF Start, DagInv
<1>5. todo'[t] = Stage(t) /\ \A s \in Tasks : s # t => todo'[s] = todo[s]
  BY <1>1 DEF TodoInv
<1>6. TodoInv'
  <2>1. Suffix(t)'
    <3>1. Stage(t) \in Seq(Statements) /\ Len(Stage(t)) \in Nat
      BY StageOf
    <3> QED BY <1>3, <1>4, <1>5, <3>1 DEF Suffix, Left
  <2>2. \A s \in Tasks : s # t => Suffix(s)'
    BY <1>1, <1>4, <1>5, SameTodo
  <2>3. todo' \in [Tasks -> Seq(Statements)]
    BY <1>1, StageOf DEF TodoInv
  <2> QED BY <1>3, <2>1, <2>2, <2>3 DEF TodoInv
<1>7. StagesInv'
  <2> SUFFICES ASSUME Cap1 PROVE IngestInv' /\ TransformInv' /\ CleanupInv'
    BY <1>3 DEF StagesInv
  <2>1. IngestInv /\ TransformInv /\ CleanupInv
    BY DEF StagesInv
  <2>2. {"cdc_ingest", "spark_transform", "cleanup"} \subseteq Tasks
    BY Cap1Shape DEF Cap1
  <2>3. Left(t)' = Len(Stage(t)) /\ \A s \in Tasks : s # t => Left(s)' = Left(s)
    BY <1>5 DEF Left
  <2>4. /\ t = "cdc_ingest" => Left(t)' = 5
        /\ t = "spark_transform" => Left(t)' = 2
        /\ t = "cleanup" => Left(t)' = 3
    BY <2>3, StageIs, StageTypes
  <2>5. IngestInv'
    BY <1>1, <1>4, <2>1, <2>2, <2>3, <2>4 DEF IngestInv, Is, TablesStay
  <2>6. TransformInv'
    BY <1>1, <1>4, <2>1, <2>2, <2>3, <2>4 DEF TransformInv, Is, TablesStay
  <2>7. CleanupInv'
    BY <1>1, <1>4, <2>1, <2>2, <2>3, <2>4 DEF CleanupInv, Past, Is, TablesStay
  <2> QED BY <2>5, <2>6, <2>7
<1> QED BY <1>2, <1>6, <1>7

LEMMA SucceedStageKeeps == ASSUME PipelineInv, NEW t \in Tasks, SucceedStage(t) PROVE PipelineInv'
<1> USE DEF PipelineInv
<1>1. Succeed(t) /\ dag' = dag /\ TablesStay /\ todo' = todo /\ todo[t] = <<>>
  BY DEF SucceedStage, Succeed, TablesStay, dataVars
<1>2. DagInv' /\ Budgeted' /\ TableTypes'
  BY <1>1, SucceedKeeps, EndWithin, TablesTyped
<1>3. Tasks' = Tasks /\ Cap1' = Cap1
  BY <1>1, SameDag
<1>4. state[t] = "running" /\ state'[t] = "success"
      /\ \A s \in Tasks :
            s # t => state'[s] = state[s] \/ (state'[s] = "skipped" /\ state[s] = "none")
  BY <1>1, SucceedSkips DEF Succeed
<1>5. TodoInv'
  <2>1. Suffix(t)'
    BY <1>1, StageOf DEF Suffix, Left
  <2>2. \A s \in Tasks : s # t => Suffix(s)'
    BY <1>1, <1>4, SameTodo
  <2> QED BY <1>1, <1>3, <2>1, <2>2 DEF TodoInv
<1>6. StagesInv'
  <2> SUFFICES ASSUME Cap1 PROVE IngestInv' /\ TransformInv' /\ CleanupInv'
    BY <1>3 DEF StagesInv
  <2>1. IngestInv /\ TransformInv /\ CleanupInv
    BY DEF StagesInv
  <2>2. {"cdc_ingest", "spark_transform", "cleanup"} \subseteq Tasks
    BY Cap1Shape DEF Cap1
  <2>3. Left(t) = 0 /\ \A s \in Tasks : Left(s)' = Left(s)
    BY <1>1 DEF Left
  <2>4. IngestInv'
    BY <1>1, <1>4, <2>1, <2>2, <2>3 DEF IngestInv, Is, TablesStay
  <2>5. TransformInv'
    BY <1>1, <1>4, <2>1, <2>2, <2>3 DEF TransformInv, Is, TablesStay
  <2>6. CleanupInv'
    BY <1>1, <1>4, <2>1, <2>2, <2>3 DEF CleanupInv, Past, Is, TablesStay
  <2> QED BY <2>4, <2>5, <2>6
<1> QED BY <1>2, <1>5, <1>6

(* Tasks that go into a state in which nothing is said of their stage.     *)
LEMMA StopKeeps ==
    ASSUME PipelineInv, DagInv', Budgeted', dag' = dag, TablesStay,
           todo' \in [Tasks -> Seq(Statements)],
           \A s \in Tasks : \/ state'[s] = state[s] /\ todo'[s] = todo[s]
                            \/ state'[s] \notin {"running", "success"} /\ todo'[s] = <<>>
    PROVE  PipelineInv'
<1> USE DEF PipelineInv
<1>1. Tasks' = Tasks /\ Cap1' = Cap1
  BY SameDag
<1>2. TodoInv'
  <2>1. ASSUME NEW s \in Tasks PROVE Suffix(s)'
    <3>1. CASE todo'[s] = todo[s] /\ state'[s] = state[s]
      BY <3>1, SameTodo
    <3>2. CASE todo'[s] = <<>>
      <4>1. Len(Stage(s)') \in Nat
        BY StageOf, SameDag DEF Stage
      <4> QED BY <3>2, <4>1 DEF Suffix, Left
    <3> QED BY <3>1, <3>2
  <2> QED BY <1>1, <2>1 DEF TodoInv
<1>3. StagesInv'
  <2> SUFFICES ASSUME Cap1 PROVE IngestInv' /\ TransformInv' /\ CleanupInv'
    BY <1>1 DEF StagesInv
  <2>1. IngestInv /\ TransformInv /\ CleanupInv
    BY DEF StagesInv
  <2>2. \A s \in {"cdc_ingest", "spark_transform", "cleanup"} :
            state'[s] \in {"running", "success"} => state'[s] = state[s] /\ Left(s)' = Left(s)
    BY Cap1Shape DEF Cap1, Left
  <2>3. IngestInv'
    BY <2>1, <2>2 DEF IngestInv, Is, TablesStay
  <2>4. TransformInv'
    BY <2>1, <2>2 DEF TransformInv, Is, TablesStay
  <2>5. CleanupInv'
    BY <2>1, <2>2 DEF CleanupInv, Past, Is, TablesStay
  <2> QED BY <2>3, <2>4, <2>5
<1> QED BY <1>2, <1>3, TablesTyped

LEMMA FailStageKeeps == ASSUME PipelineInv, NEW t \in Tasks, FailStage(t) PROVE PipelineInv'
<1>1. Fail(t) /\ dag' = dag /\ TablesStay /\ todo' = [todo EXCEPT ![t] = <<>>]
  BY DEF FailStage, Fail, TablesStay
<1>2. DagInv' /\ Budgeted'
  BY <1>1, FailKeeps, FailWithin DEF PipelineInv
<1>3. todo' \in [Tasks -> Seq(Statements)]
  BY <1>1, StageTypes DEF PipelineInv, TodoInv
<1>4. \A s \in Tasks : \/ state'[s] = state[s] /\ todo'[s] = todo[s]
                       \/ state'[s] \notin {"running", "success"} /\ todo'[s] = <<>>
  <2>1. \A s \in Tasks : s # t => state'[s] = state[s]
    BY <1>1 DEF Fail, PipelineInv, DagInv
  <2>2. state'[t] \in {"up_for_retry", "failed"}
    BY <1>1 DEF Fail, PipelineInv, DagInv
  <2>3. todo'[t] = <<>> /\ \A s \in Tasks : s # t => todo'[s] = todo[s]
    BY <1>1 DEF PipelineInv, TodoInv
  <2> TAKE s \in Tasks
  <2>4. CASE s = t
    <3>1. state'[s] \notin {"running", "success"}
      BY <2>2, <2>4
    <3> QED BY <2>3, <2>4, <3>1
  <2> QED BY <2>1, <2>3, <2>4
<1> QED BY <1>1, <1>2, <1>3, <1>4, StopKeeps

(* The tasks a clearing, a new run or the scheduler settles without a run  *)
(* had not been running.                                                   *)
LEMMA SettleStageKeeps ==
    ASSUME PipelineInv, NEW t \in Tasks, Settle(t), UNCHANGED dataVars PROVE PipelineInv'
<1>1. dag' = dag /\ TablesStay /\ todo' = todo
  BY DEF Settle, TablesStay, dataVars
<1>2. DagInv' /\ Budgeted'
  BY SettleKeeps, EndWithin DEF PipelineInv
<1>3. \A s \in Tasks : \/ state'[s] = state[s]
                       \/ state'[s] \notin {"running", "success"} /\ state[s] = "none"
  <2>1. \A s \in Tasks : s # t => state'[s] = state[s]
    BY DEF Settle, PipelineInv, DagInv
  <2>2. state[t] = "none" /\ state'[t] \in {"upstream_failed", "skipped"}
    BY DEF Settle, PipelineInv, DagInv
  <2> TAKE s \in Tasks
  <2>3. CASE s = t
    <3>1. state'[s] \notin {"running", "success"} /\ state[s] = "none"
      BY <2>2, <2>3
    <3> QED BY <3>1
  <2> QED BY <2>1, <2>3
<1>4. \A s \in Tasks : state[s] # "running" => todo[s] = <<>>
  BY DEF PipelineInv, TodoInv, Suffix
<1> QED BY <1>1, <1>2, <1>3, <1>4, StopKeeps DEF PipelineInv, TodoInv

LEMMA AgainKeeps ==
    ASSUME PipelineInv, (\E t \in Tasks : Clear(t) /\ UNCHANGED dataVars) \/ NextRun
    PROVE  PipelineInv'
<1>1. dag' = dag /\ TablesStay /\ todo' = todo /\ Over
  BY DEF Clear, NextRun, TablesStay, dataVars
<1>2. DagInv' /\ Budgeted'
  BY ClearKeeps, ClearWithin, NextRunKeeps, NextRunWithin DEF PipelineInv
<1>3. \A s \in Tasks : state'[s] = state[s] \/ state'[s] = "none"
  BY DEF Clear, NextRun
<1>4. \A s \in Tasks : todo[s] = <<>>
  BY <1>1 DEF PipelineInv, TodoInv, Suffix, Over, Finished, Failures
<1> QED BY <1>1, <1>2, <1>3, <1>4, StopKeeps DEF PipelineInv, TodoInv
-----------------------------------------------------------------------------
LEMMA PipelineInitially == PipelineInit => PipelineInv
<1> SUFFICES ASSUME PipelineInit PROVE PipelineInv
  OBVIOUS
<1> USE DEF PipelineInit, DagInit
<1>1. DagInv
  <2>1. state \in [Tasks -> States] /\ \A t \in Tasks : state[t] = "none"
    BY DEF States
  <2> QED BY <2>1 DEF DagInv, Ordered, Blamed, NoneSkipped
<1>2. Budgeted
  <2>1. Dag.retries \in {0, 3} /\ clears \in 0 .. MaxClears /\ clears = 0
    BY <1>1, ShapeHolds, DagAssumption DEF DagInv, Shape
  <2>2. ASSUME NEW t \in Tasks PROVE Within(t)
    <3>1. retried[t] = 0 /\ alerted[t] = 0 /\ tries[t] = 0 /\ budget[t] = Dag.retries + 1
          /\ state[t] = "none"
      OBVIOUS
    <3> QED BY <2>1, <3>1 DEF Within
  <2> QED BY <2>1, <2>2 DEF Budgeted
<1>3. TodoInv
  <2>1. \A t \in Tasks : todo[t] = <<>> /\ Len(Stage(t)) \in Nat
    BY StageOf
  <2> QED BY <2>1, StageTypes DEF TodoInv, Suffix, Left
<1>4. TableTypes
  <2>1. gen \in 0 .. MaxSeeds /\ captured = FALSE
    BY SeedAssumption
  <2>2. mirror \in Rows /\ mart \in Rows
    BY DEF Rows
  <2> QED BY <2>1, <2>2 DEF TableTypes
<1>5. StagesInv
  BY Cap1Shape DEF StagesInv, Cap1, IngestInv, TransformInv, CleanupInv, Past, Is
<1> QED BY <1>1, <1>2, <1>3, <1>4, <1>5 DEF PipelineInv

LEMMA PipelineStep == PipelineInv /\ [PipelineNext]_pipelineVars => PipelineInv'
<1> SUFFICES ASSUME PipelineInv, [PipelineNext]_pipelineVars PROVE PipelineInv'
  OBVIOUS
<1>1. CASE Progress
  BY <1>1, StartStageKeeps, ExecuteKeeps, SucceedStageKeeps, FailStageKeeps, SettleStageKeeps
     DEF Progress
<1>2. CASE ClearTask \/ NextRun
  BY <1>2, AgainKeeps DEF ClearTask
<1>3. CASE UNCHANGED pipelineVars
  <2>1. /\ dag' = dag /\ TablesStay /\ state' = state /\ todo' = todo
        /\ UNCHANGED <<tries, budget, retried, alerted, clears>>
    BY <1>3 DEF pipelineVars, dagVars, dataVars, TablesStay
  <2>2. DagInv' /\ Budgeted'
    BY <2>1, SameDag DEF PipelineInv, DagInv, Ordered, Behind, Blamed, NoneSkipped, Budgeted, Within
  <2>3. /\ todo' \in [Tasks -> Seq(Statements)]
        /\ \A s \in Tasks : state'[s] = state[s] /\ todo'[s] = todo[s]
    BY <2>1 DEF PipelineInv, TodoInv
  <2> QED BY <2>1, <2>2, <2>3, StopKeeps
<1> QED BY <1>1, <1>2, <1>3 DEF PipelineNext

LEMMA PipelineHolds == PipelineSpec => []PipelineInv
BY PipelineInitially, PipelineStep, PTL DEF PipelineSpec

-----------------------------------------------------------------------------
(* Attempts, callbacks and clearings stay within their budgets, and the    *)
(* tables hold rows of seedings there were.                                *)
THEOREM PipelineTypeCorrect == PipelineSpec => []PipelineTypeOK
<1>1. PipelineInv => PipelineTypeOK
  BY DagTypes DEF PipelineInv, TodoInv, Suffix, Left, TableTypes, PipelineTypeOK
<1> QED BY <1>1, PipelineHolds, PTL

(* A mart that a transform of this run vouches for holds this run's ingest *)
(* and nothing else, whatever died or was cleared before.                  *)
THEOREM MartIsOfThisRun == PipelineSpec => []MartOfThisRun
<1>1. PipelineInv => MartOfThisRun
  BY DEF PipelineInv, StagesInv, TransformInv, Is, MartOfThisRun
<1> QED BY <1>1, PipelineHolds, PTL

(* A run whose cleanup succeeded leaves neither tables nor a connector.    *)
THEOREM CleanupLeavesNothing == PipelineSpec => []NothingLeft
<1>1. PipelineInv => NothingLeft
  BY DEF PipelineInv, StagesInv, CleanupInv, Past, Is, NothingLeft
<1> QED BY <1>1, PipelineHolds, PTL

(* Outside cap1_e2e_pipeline no task waits with all_done: a failed task    *)
(* has only failures after it, down to a leaf.                             *)
LEMMA FailureSpreads ==
    ASSUME DagInv, Over, NEW d \in Tasks, NEW u \in Upstream(d), state[u] \in Failures,
           Dag.rule[d] # "all_done"
    PROVE  state[d] \in Failures
<1>1. state[d] \in {"none", "upstream_failed"}
  BY DEF DagInv, Ordered, Behind, Failures
<1> QED BY <1>1 DEF Over, Finished, Failures

LEMMA FailureReachesLeaf ==
    ASSUME DagInv, Over, ~Cap1, NEW t \in Tasks, state[t] \in Failures
    PROVE  \E l \in Leaves : state[l] \in Failures
<1>1. CASE dag = "af4_retries_sla"
  <2>1. "downstream_load" \in Leaves
    BY <1>1, Af4Shape DEF Leaves, Downstream
  <2>2. state["downstream_load"] \in Failures
    BY <1>1, Af4Shape, FailureSpreads
  <2> QED BY <2>1, <2>2
<1>2. CASE dag = "af10_dbt_spark_e2e"
  <2>1. "cleanup" \in Leaves
    BY <1>2, Af10Shape DEF Leaves, Downstream
  <2>2. /\ state["dbt_build"] \in Failures => state["dbt_test"] \in Failures
        /\ state["dbt_test"] \in Failures => state["ge_quality_gate"] \in Failures
        /\ state["ge_quality_gate"] \in Failures => state["cleanup"] \in Failures
    BY <1>2, Af10Shape, FailureSpreads
  <2>3. state["cleanup"] \in Failures
    BY <1>2, <2>2, Af10Shape
  <2> QED BY <2>1, <2>3
<1>3. CASE dag = "af6_trigger_rules_branching"
  <2>1. "join_after_branch" \in Leaves /\ "after_gate" \in Leaves
    BY <1>3, Af6Shape DEF Leaves, Downstream
  <2>2. /\ state["pick_branch"] \in Failures => state["run_incremental"] \in Failures
        /\ state["run_incremental"] \in Failures => state["join_after_branch"] \in Failures
        /\ state["run_full_refresh"] \in Failures => state["join_after_branch"] \in Failures
        /\ state["gate"] \in Failures => state["after_gate"] \in Failures
    BY <1>3, Af6Shape, FailureSpreads
  <2>3. state["join_after_branch"] \in Failures \/ state["after_gate"] \in Failures
    BY <1>3, <2>2, Af6Shape
  <2> QED BY <2>1, <2>3
<1> QED BY <1>1, <1>2, <1>3, DagIsOneOf DEF DagInv, Cap1

(* A task of af4, af6 or af10 that ended failed fails its run.             *)
THEOREM FailureIsShown == PipelineSpec => []FailureShowsElsewhere
<1>1. ASSUME DagInv, ~Cap1, Over, NEW t \in Tasks, state[t] = "failed" PROVE RunFailed
  BY <1>1, FailureReachesLeaf DEF RunFailed, Failures
<1>2. PipelineInv => FailureShowsElsewhere
  BY <1>1 DEF PipelineInv, FailureShowsElsewhere, FailureShows, RunSucceeded, Cap1
<1> QED BY <1>2, PipelineHolds, PTL



-----------------------------------------------------------------------------
(* The least and the greatest of a set.                                    *)

(* FiniteSetsExt's Min of two numbers is one of them and exceeds neither.  *)
LEMMA MinOfTwo ==
    ASSUME NEW a \in Nat, NEW b \in Nat
    PROVE  Min({a, b}) \in {a, b} /\ Min({a, b}) <= a /\ Min({a, b}) <= b
<1>1. \E m \in {a, b} : \A y \in {a, b} : m <= y
    <2>1. CASE a <= b
        BY <2>1
    <2>2. CASE ~(a <= b)
        BY <2>2
    <2> QED BY <2>1, <2>2
<1> QED BY <1>1 DEF Min

(* Its Max of some of the ticks of the notebook is one of them and the     *)
(* greatest.                                                               *)
LEMMA MaxOfTicks ==
    ASSUME NEW S \in SUBSET (0 .. 8), S # {}
    PROVE  Max(S) \in S /\ \A y \in S : y <= Max(S)
<1>1. \E m \in S : \A y \in S : m >= y
    <2>1. SUFFICES ASSUME \A m \in S : \E y \in S : y > m PROVE FALSE
        OBVIOUS
    <2>2. 8 \notin S
        BY <2>1
    <2>3. 7 \notin S
        BY <2>1, <2>2
    <2>4. 6 \notin S
        BY <2>1, <2>2, <2>3
    <2>5. 5 \notin S
        BY <2>1, <2>2, <2>3, <2>4
    <2>6. 4 \notin S
        BY <2>1, <2>2, <2>3, <2>4, <2>5
    <2>7. 3 \notin S
        BY <2>1, <2>2, <2>3, <2>4, <2>5, <2>6
    <2>8. 2 \notin S
        BY <2>1, <2>2, <2>3, <2>4, <2>5, <2>6, <2>7
    <2>9. 1 \notin S
        BY <2>1, <2>2, <2>3, <2>4, <2>5, <2>6, <2>7, <2>8
    <2>10. 0 \notin S
        BY <2>1, <2>2, <2>3, <2>4, <2>5, <2>6, <2>7, <2>8, <2>9
    <2>11. PICK m \in S : m \in 0 .. 8
        OBVIOUS
    <2> QED BY <2>2, <2>3, <2>4, <2>5, <2>6, <2>7, <2>8, <2>9, <2>10, <2>11
<1>2. Max(S) \in S /\ \A y \in S : Max(S) >= y
    BY <1>1 DEF Max
<1> QED BY <1>2

-----------------------------------------------------------------------------
(* What one batch makes of STR-1's state.                                  *)

StateType == [frontier : 0 .. 8, open : SUBSET Nat, late : SUBSET Nat]

(* The state before the first batch is a state.                          *)
LEMMA NoStateIsState == NoState \in StateType
BY DEF NoState, StateType

(* A window ends after every event in it.                                *)
LEMMA WindowEndLater ==
    ASSUME NEW t \in 0 .. 8
    PROVE  WindowEnd(t) \in Nat /\ WindowEnd(t) > t
BY DEF WindowEnd, Minute

(* The state s counts the events before lo: those in open windows and the  *)
(* late ones, which came after an event that closed their window; and its  *)
(* frontier is the time of one of them.                                    *)
Counts(s, lo, topic_, delay_) ==
    /\ \A p \in s.open \cup s.late : p < lo
    /\ s.open \cap s.late = {}
    /\ s.frontier = 0 \/ \E p \in 0 .. lo - 1 : topic_[p + 1] = s.frontier
    /\ \A p \in s.late : \E r \in 0 .. p - 1 :
           topic_[r + 1] >= WindowEnd(topic_[p + 1]) + delay_ * Minute

(* A batch makes a state of a state, and its frontier never goes back.   *)
LEMMA AdvanceType ==
    ASSUME NEW t \in Seq(0 .. 8), NEW d \in Nat, NEW s \in StateType,
           NEW B \in SUBSET Nat, \A p \in B : p < Len(t)
    PROVE  /\ Advance(s, B, t, d) \in StateType
           /\ Advance(s, B, t, d).frontier \in {s.frontier} \cup {t[p + 1] : p \in B}
           /\ s.frontier <= Advance(s, B, t, d).frontier
<1> DEFINE wm    == Watermark(s, d)
           times == {s.frontier} \cup {t[p + 1] : p \in B}
           a     == Advance(s, B, t, d)
<1>1. s.frontier \in 0 .. 8 /\ s.open \in SUBSET Nat /\ s.late \in SUBSET Nat
    BY DEF StateType
<1>2. \A p \in B : t[p + 1] \in 0 .. 8
    OBVIOUS
<1>3. times \in SUBSET (0 .. 8) /\ times # {}
    BY <1>1, <1>2
<1>4. Max(times) \in times /\ \A y \in times : y <= Max(times)
    BY <1>3, MaxOfTicks
<1>5. /\ a.frontier = Max(times)
      /\ a.open = {o \in s.open \cup {o \in B : ~Closed(t[o + 1], wm)} : ~Closed(t[o + 1], wm)}
      /\ a.late = s.late \cup {o \in B : Closed(t[o + 1], wm)}
      /\ a = [frontier |-> a.frontier, open |-> a.open, late |-> a.late]
    BY DEF Advance
<1> HIDE DEF a, times
<1>6. a.frontier \in 0 .. 8 /\ s.frontier <= a.frontier /\ a.frontier \in times
    BY <1>1, <1>3, <1>4, <1>5 DEF times
<1>7. a \in StateType
    BY <1>1, <1>5, <1>6 DEF StateType
<1> QED BY <1>6, <1>7 DEF a, times

(* After a batch of the events from lo to hi the state counts those before *)
(* hi, and the frontier has not gone back.                                 *)
LEMMA AdvanceCounts ==
    ASSUME NEW t \in Seq(0 .. 8), NEW d \in Nat, NEW s \in StateType,
           NEW lo \in Nat, NEW hi \in Nat, lo <= hi, hi <= Len(t),
           NEW B \in SUBSET Nat, \A p \in B : lo <= p /\ p < hi,
           Counts(s, lo, t, d)
    PROVE  /\ Advance(s, B, t, d) \in StateType
           /\ Counts(Advance(s, B, t, d), hi, t, d)
           /\ s.frontier <= Advance(s, B, t, d).frontier
           /\ \A p \in Nat :
                 /\ p \in Advance(s, B, t, d).open <=>
                        p \in s.open \cup B /\ ~Closed(t[p + 1], Watermark(s, d))
                 /\ p \in Advance(s, B, t, d).late <=>
                        \/ p \in s.late
                        \/ p \in B /\ Closed(t[p + 1], Watermark(s, d))
<1> DEFINE wm == Watermark(s, d)
           a  == Advance(s, B, t, d)
<1>1. s.frontier \in 0 .. 8 /\ s.open \in SUBSET Nat /\ s.late \in SUBSET Nat
    BY DEF StateType
<1>2. \A p \in Nat : p < hi => t[p + 1] \in 0 .. 8
    OBVIOUS
<1>3. /\ a.open = {o \in s.open \cup {o \in B : ~Closed(t[o + 1], wm)} : ~Closed(t[o + 1], wm)}
      /\ a.late = s.late \cup {o \in B : Closed(t[o + 1], wm)}
    BY DEF Advance
<1>4. /\ a \in StateType /\ a.frontier \in {s.frontier} \cup {t[p + 1] : p \in B}
      /\ s.frontier <= a.frontier
    <2>1. \A p \in B : p < Len(t)
        OBVIOUS
    <2> QED BY <2>1, AdvanceType
<1> HIDE DEF a
<1>5. ASSUME NEW p \in Nat
      PROVE  /\ p \in a.open <=> p \in s.open \cup B /\ ~Closed(t[p + 1], wm)
             /\ p \in a.late <=> p \in s.late \/ (p \in B /\ Closed(t[p + 1], wm))
    BY <1>3
<1>6. a.frontier = 0 \/ \E p \in 0 .. hi - 1 : t[p + 1] = a.frontier
    <2>1. CASE a.frontier = s.frontier
        BY <2>1 DEF Counts
    <2>2. CASE a.frontier # s.frontier
        <3>1. PICK p \in B : a.frontier = t[p + 1]
            BY <1>4, <2>2
        <3>2. p \in 0 .. hi - 1
            OBVIOUS
        <3> QED BY <3>1, <3>2
    <2> QED BY <2>1, <2>2
<1>7. ASSUME NEW p \in a.late
       PROVE  p < hi /\ p \notin a.open
              /\ \E r \in 0 .. p - 1 : t[r + 1] >= WindowEnd(t[p + 1]) + d * Minute
    <2>0. p \in Nat
        BY <1>1, <1>3
    <2>1. CASE p \in s.late
        BY <1>5, <2>0, <2>1 DEF Counts
    <2>2. CASE p \notin s.late
        <3>1. p \in B /\ Closed(t[p + 1], wm)
            BY <1>5, <2>0, <2>2
        <3>2. t[p + 1] \in 0 .. 8 /\ lo <= p /\ p < hi
            BY <1>2, <2>0, <3>1
        <3>3. WindowEnd(t[p + 1]) \in Nat /\ WindowEnd(t[p + 1]) > t[p + 1]
            BY <3>2, WindowEndLater
        <3>4. WindowEnd(t[p + 1]) <= s.frontier - d * Minute
            BY <3>1 DEF Closed, Watermark
        <3>5. s.frontier # 0
            BY <3>2, <3>3, <3>4 DEF Minute
        <3>6. PICK r \in 0 .. lo - 1 : t[r + 1] = s.frontier
            BY <3>5 DEF Counts
        <3>7. r \in 0 .. p - 1 /\ t[r + 1] >= WindowEnd(t[p + 1]) + d * Minute
            <4>1. r \in 0 .. p - 1
                BY <2>0, <3>2, <3>6
            <4>2. d * Minute \in Nat
                BY DEF Minute
            <4> DEFINE w == WindowEnd(t[p + 1])
                       v == d * Minute
                       f == s.frontier
            <4>3. w \in Nat /\ v \in Nat /\ f \in Nat /\ w <= f - v
                BY <1>1, <3>3, <3>4, <4>2
            <4> HIDE DEF w, v, f
            <4>4. f >= w + v
                BY <4>3
            <4> QED BY <3>6, <4>1, <4>4 DEF w, v, f
        <3> QED BY <1>5, <2>0, <3>1, <3>2, <3>7
    <2> QED BY <2>1, <2>2
<1>8. ASSUME NEW p \in a.open
       PROVE  p < hi
    <2>1. p \in Nat /\ p \in s.open \cup B
        BY <1>1, <1>3
    <2>2. p \in s.open => p < lo
        BY DEF Counts
    <2> QED BY <2>1, <2>2
<1>9. Counts(a, hi, t, d)
    BY <1>6, <1>7, <1>8 DEF Counts
<1> QED BY <1>4, <1>5, <1>9 DEF a

-----------------------------------------------------------------------------
(* The notebooks.                                                          *)

RecordsOf(n) == IF n = "str1" THEN 0 .. 8 ELSE {"good", "poison"}

AllNotebooks == {"kaf6", "str1", "str2", "str3"}

(* The notebooks' scripts.                                               *)
LEMMA CellsAre ==
    /\ Cells["kaf6"] = Kaf6 /\ Cells["str1"] = Str1
    /\ Cells["str2"] = Str2 /\ Cells["str3"] = Str3
BY DEF Cells

(* The queries that a cell awaits, as a set.                             *)
LEMMA QueriesOfCells ==
    ASSUME NEW a, NEW b
    PROVE  ToSet(<<>>) = {} /\ ToSet(<<a>>) = {a} /\ ToSet(<<a, b>>) = {a, b}
<1>1. ToSet(<<>>) = {}
    BY DEF ToSet
<1>2. ToSet(<<a>>) = {a}
    BY DEF ToSet
<1>3. ToSet(<<a, b>>) = {a, b}
    <2>1. DOMAIN <<a, b>> = {1, 2} /\ <<a, b>>[1] = a /\ <<a, b>>[2] = b
        OBVIOUS
    <2> QED BY <2>1 DEF ToSet
<1> QED BY <1>1, <1>2, <1>3

(* The cell recreates the topic or not, produces so many records, and      *)
(* awaits the queries; the tables it drops include those whose checkpoints *)
(* it removes.                                                             *)
Does(c, recreate, records, cleared, awaited) ==
    /\ c.recreate = recreate /\ Len(c.records) = records
    /\ c.clears = cleared /\ c.queries = awaited /\ c.clears \subseteq c.drops

(* KAF-6, cell by cell.                                                  *)
LEMMA Kaf6Does ==
    /\ Len(Kaf6) = 4 /\ DOMAIN Kaf6 = 1 .. 4
    /\ Does(Kaf6[1], TRUE, 0, {"main", "dlq"}, <<>>)
    /\ Does(Kaf6[2], FALSE, 2, {}, <<>>)
    /\ Does(Kaf6[3], FALSE, 0, {}, <<"main", "dlq">>)
    /\ \A i \in 1 .. 4 : Kaf6[i].records \in Seq(RecordsOf("kaf6"))
<1>1. /\ Len(Kaf6) = 4 /\ DOMAIN Kaf6 = 1 .. 4
      /\ Kaf6[1] = Setup({"main", "dlq"}, {"main", "dlq"})
      /\ Kaf6[2] = Produce(<<"good", "poison">>) /\ Kaf6[3] = Stream(<<"main", "dlq">>)
      /\ Kaf6[4] = Prove
    BY DEF Kaf6
<1>2. /\ <<"good", "poison">> \in Seq(RecordsOf("kaf6"))
      /\ <<>> \in Seq(RecordsOf("kaf6"))
    BY DEF RecordsOf
<1>3. Kaf6[1].records = <<>> /\ Kaf6[2].records = <<"good", "poison">>
      /\ Kaf6[3].records = <<>> /\ Kaf6[4].records = <<>>
    BY <1>1 DEF Cell, Setup, Produce, Stream, Prove
<1>4. ASSUME NEW i \in 1 .. 4 PROVE Kaf6[i].records \in Seq(RecordsOf("kaf6"))
    <2>1. i = 1 \/ i = 2 \/ i = 3 \/ i = 4
        OBVIOUS
    <2> QED BY <1>2, <1>3, <2>1
<1>5. Does(Kaf6[1], TRUE, 0, {"main", "dlq"}, <<>>)
    BY <1>1 DEF Cell, Setup, Does
<1>6. Does(Kaf6[2], FALSE, 2, {}, <<>>)
    BY <1>1 DEF Cell, Produce, Does
<1>7. Does(Kaf6[3], FALSE, 0, {}, <<"main", "dlq">>)
    BY <1>1 DEF Cell, Stream, Does
<1> QED BY <1>1, <1>4, <1>5, <1>6, <1>7

(* STR-1, cell by cell.                                                  *)
LEMMA Str1Does ==
    /\ Len(Str1) = 4 /\ DOMAIN Str1 = 1 .. 4
    /\ Does(Str1[1], TRUE, 2, {"windows"}, <<>>)
    /\ Does(Str1[2], FALSE, 0, {}, <<"windows">>)
    /\ Does(Str1[3], FALSE, 1, {}, <<"windows">>)
    /\ \A i \in 1 .. 4 : Str1[i].records \in Seq(RecordsOf("str1"))
<1>1. /\ Len(Str1) = 4 /\ DOMAIN Str1 = 1 .. 4
      /\ Str1[1] = Cell(TRUE, {"windows"}, {"windows"}, <<0, 8>>, <<>>)
      /\ Str1[2] = Stream(<<"windows">>)
      /\ Str1[3] = Cell(FALSE, {}, {}, <<1>>, <<"windows">>) /\ Str1[4] = Prove
    BY DEF Str1, OnTime, Straggler, ProduceAndStream
<1>2. /\ <<0, 8>> \in Seq(RecordsOf("str1"))
      /\ <<1>> \in Seq(RecordsOf("str1"))
      /\ <<>> \in Seq(RecordsOf("str1"))
    BY DEF RecordsOf
<1>3. Str1[1].records = <<0, 8>> /\ Str1[2].records = <<>>
      /\ Str1[3].records = <<1>> /\ Str1[4].records = <<>>
    BY <1>1 DEF Cell, Stream, Prove
<1>4. ASSUME NEW i \in 1 .. 4 PROVE Str1[i].records \in Seq(RecordsOf("str1"))
    <2>1. i = 1 \/ i = 2 \/ i = 3 \/ i = 4
        OBVIOUS
    <2> QED BY <1>2, <1>3, <2>1
<1>5. Does(Str1[1], TRUE, 2, {"windows"}, <<>>)
    BY <1>1 DEF Cell, Does
<1>6. Does(Str1[2], FALSE, 0, {}, <<"windows">>)
    BY <1>1 DEF Cell, Stream, Does
<1>7. Does(Str1[3], FALSE, 1, {}, <<"windows">>)
    BY <1>1 DEF Cell, Does
<1> QED BY <1>1, <1>4, <1>5, <1>6, <1>7

(* STR-2, cell by cell.                                                  *)
LEMMA Str2Does ==
    /\ Len(Str2) = 6 /\ DOMAIN Str2 = 1 .. 6
    /\ Does(Str2[1], TRUE, 0, {}, <<>>)
    /\ Does(Str2[2], FALSE, 2, {}, <<"sink">>)
    /\ Does(Str2[3], FALSE, 1, {}, <<"sink">>)
    /\ Does(Str2[4], FALSE, 0, {}, <<"sink">>)
    /\ Does(Str2[5], FALSE, 0, {}, <<"scratch">>)
    /\ \A i \in 1 .. 6 : Str2[i].records \in Seq(RecordsOf("str2"))
<1>1. /\ Len(Str2) = 6 /\ DOMAIN Str2 = 1 .. 6
      /\ Str2[1] = Setup({"sink", "scratch"}, {})
      /\ Str2[2] = ProduceAndStream(<<"good", "good">>, "sink")
      /\ Str2[3] = ProduceAndStream(<<"good">>, "sink")
      /\ Str2[4] = Stream(<<"sink">>) /\ Str2[5] = Stream(<<"scratch">>) /\ Str2[6] = Prove
    BY DEF Str2
<1>2. /\ <<"good", "good">> \in Seq(RecordsOf("str2"))
      /\ <<"good">> \in Seq(RecordsOf("str2"))
      /\ <<>> \in Seq(RecordsOf("str2"))
    BY DEF RecordsOf
<1>3. /\ Str2[1].records = <<>> /\ Str2[2].records = <<"good", "good">>
      /\ Str2[3].records = <<"good">> /\ Str2[4].records = <<>> /\ Str2[5].records = <<>>
      /\ Str2[6].records = <<>>
    BY <1>1 DEF Cell, Setup, ProduceAndStream, Stream, Prove
<1>4. ASSUME NEW i \in 1 .. 6 PROVE Str2[i].records \in Seq(RecordsOf("str2"))
    <2>1. i = 1 \/ i = 2 \/ i = 3 \/ i = 4 \/ i = 5 \/ i = 6
        OBVIOUS
    <2> QED BY <1>2, <1>3, <2>1
<1>5. Does(Str2[1], TRUE, 0, {}, <<>>)
    BY <1>1 DEF Cell, Setup, Does
<1>6. Does(Str2[2], FALSE, 2, {}, <<"sink">>) /\ Does(Str2[3], FALSE, 1, {}, <<"sink">>)
    BY <1>1 DEF Cell, ProduceAndStream, Does
<1>7. Does(Str2[4], FALSE, 0, {}, <<"sink">>) /\ Does(Str2[5], FALSE, 0, {}, <<"scratch">>)
    BY <1>1 DEF Cell, Stream, Does
<1> QED BY <1>1, <1>4, <1>5, <1>6, <1>7

(* STR-3, cell by cell.                                                  *)
LEMMA Str3Does ==
    /\ Len(Str3) = 5 /\ DOMAIN Str3 = 1 .. 5
    /\ Does(Str3[1], TRUE, 0, {}, <<>>)
    /\ Does(Str3[2], FALSE, 2, {}, <<>>)
    /\ Does(Str3[3], FALSE, 0, {"big"}, <<"big">>)
    /\ Does(Str3[4], FALSE, 0, {"small"}, <<"small">>)
    /\ \A i \in 1 .. 5 : Str3[i].records \in Seq(RecordsOf("str3"))
<1>1. /\ Len(Str3) = 5 /\ DOMAIN Str3 = 1 .. 5
      /\ Str3[1] = Setup({}, {})
      /\ Str3[2] = Produce(<<"good", "good">>) /\ Str3[3] = ResetAndStream("big")
      /\ Str3[4] = ResetAndStream("small") /\ Str3[5] = Prove
    BY DEF Str3
<1>2. /\ <<"good", "good">> \in Seq(RecordsOf("str3"))
      /\ <<>> \in Seq(RecordsOf("str3"))
    BY DEF RecordsOf
<1>3. /\ Str3[1].records = <<>> /\ Str3[2].records = <<"good", "good">>
      /\ Str3[3].records = <<>> /\ Str3[4].records = <<>> /\ Str3[5].records = <<>>
    BY <1>1 DEF Cell, Setup, Produce, ResetAndStream, Prove
<1>4. ASSUME NEW i \in 1 .. 5 PROVE Str3[i].records \in Seq(RecordsOf("str3"))
    <2>1. i = 1 \/ i = 2 \/ i = 3 \/ i = 4 \/ i = 5
        OBVIOUS
    <2> QED BY <1>2, <1>3, <2>1
<1>5. Does(Str3[1], TRUE, 0, {}, <<>>)
    BY <1>1 DEF Cell, Setup, Does
<1>6. Does(Str3[2], FALSE, 2, {}, <<>>)
    BY <1>1 DEF Cell, Produce, Does
<1>7. /\ Does(Str3[3], FALSE, 0, {"big"}, <<"big">>)
      /\ Does(Str3[4], FALSE, 0, {"small"}, <<"small">>)
    BY <1>1 DEF Cell, ResetAndStream, Does
<1> QED BY <1>1, <1>4, <1>5, <1>6, <1>7

(* The queries of the cells there are.                                   *)
LEMMA AwaitedAre ==
    /\ ToSet(<<>>) = {} /\ ToSet(<<"main", "dlq">>) = {"main", "dlq"}
    /\ ToSet(<<"windows">>) = {"windows"} /\ ToSet(<<"sink">>) = {"sink"}
    /\ ToSet(<<"scratch">>) = {"scratch"}
    /\ ToSet(<<"big">>) = {"big"} /\ ToSet(<<"small">>) = {"small"}
BY QueriesOfCells

(* What holds of every cell but the last, which only proves.               *)
CellOK(c, n) ==
    /\ c.clears \subseteq c.drops
    /\ c.records \in Seq(RecordsOf(n))
    /\ "windows" \in ToSet(c.queries) => n = "str1"

(* Every cell but the last is as it should be.                           *)
LEMMA CellFacts ==
    ASSUME NEW n \in AllNotebooks, NEW i \in Nat, 1 <= i, i < Len(Cells[n])
    PROVE  CellOK(Cells[n][i], n)
<1>1. CASE n = "kaf6"
    <2>1. Cells[n] = Kaf6 /\ (i = 1 \/ i = 2 \/ i = 3)
        BY <1>1, CellsAre, Kaf6Does
    <2>2. CellOK(Kaf6[1], "kaf6")
        BY Kaf6Does, AwaitedAre DEF Does, CellOK
    <2>3. CellOK(Kaf6[2], "kaf6")
        BY Kaf6Does, AwaitedAre DEF Does, CellOK
    <2>4. CellOK(Kaf6[3], "kaf6")
        <3>1. Kaf6[3].clears \subseteq Kaf6[3].drops /\ Kaf6[3].records \in Seq(RecordsOf("kaf6"))
            BY Kaf6Does DEF Does
        <3>2. ToSet(Kaf6[3].queries) = {"main", "dlq"}
            BY Kaf6Does, AwaitedAre DEF Does
        <3> QED BY <3>1, <3>2 DEF CellOK
    <2> QED BY <1>1, <2>1, <2>2, <2>3, <2>4
<1>2. CASE n = "str1"
    <2>1. Cells[n] = Str1 /\ (i = 1 \/ i = 2 \/ i = 3)
        BY <1>2, CellsAre, Str1Does
    <2>2. CellOK(Str1[1], "str1") /\ CellOK(Str1[2], "str1") /\ CellOK(Str1[3], "str1")
        BY Str1Does DEF Does, CellOK
    <2> QED BY <1>2, <2>1, <2>2
<1>3. CASE n = "str2"
    <2>1. Cells[n] = Str2 /\ (i = 1 \/ i = 2 \/ i = 3 \/ i = 4 \/ i = 5)
        BY <1>3, CellsAre, Str2Does
    <2>2. CellOK(Str2[1], "str2")
        BY Str2Does, AwaitedAre DEF Does, CellOK
    <2>3. CellOK(Str2[2], "str2") /\ CellOK(Str2[3], "str2") /\ CellOK(Str2[4], "str2")
        BY Str2Does, AwaitedAre DEF Does, CellOK
    <2>4. CellOK(Str2[5], "str2")
        BY Str2Does, AwaitedAre DEF Does, CellOK
    <2> QED BY <1>3, <2>1, <2>2, <2>3, <2>4
<1>4. CASE n = "str3"
    <2>1. Cells[n] = Str3 /\ (i = 1 \/ i = 2 \/ i = 3 \/ i = 4)
        BY <1>4, CellsAre, Str3Does
    <2>2. CellOK(Str3[1], "str3") /\ CellOK(Str3[2], "str3")
        BY Str3Does, AwaitedAre DEF Does, CellOK
    <2>3. CellOK(Str3[3], "str3") /\ CellOK(Str3[4], "str3")
        BY Str3Does, AwaitedAre DEF Does, CellOK
    <2> QED BY <1>4, <2>1, <2>2, <2>3
<1> QED BY <1>1, <1>2, <1>3, <1>4 DEF AllNotebooks

(* Every cell awaits queries of its notebook.                            *)
LEMMA AwaitedQueries ==
    ASSUME NEW n \in Notebooks
    PROVE  /\ n \in AllNotebooks /\ Len(Cells[n]) \in Nat /\ Len(Cells[n]) >= 4
           /\ QueriesOf(n) \subseteq Queries
           /\ \A i \in 1 .. Len(Cells[n]) : ToSet(Cells[n][i].queries) \subseteq QueriesOf(n)
<1>1. n \in AllNotebooks
    BY StreamRunsAssumption DEF AllNotebooks
<1>2. Len(Cells[n]) \in {4, 5, 6} /\ DOMAIN Cells[n] = 1 .. Len(Cells[n])
    BY <1>1, CellsAre, Kaf6Does, Str1Does, Str2Does, Str3Does DEF AllNotebooks
<1>3. QueriesOf(n) \subseteq Queries
    BY DEF Queries
<1>4. \A i \in 1 .. Len(Cells[n]) : ToSet(Cells[n][i].queries) \subseteq QueriesOf(n)
    BY <1>2 DEF QueriesOf
<1>5. Len(Cells[n]) \in Nat /\ Len(Cells[n]) >= 4
    <2>1. \A k \in {4, 5, 6} : k \in Nat /\ k >= 4
        OBVIOUS
    <2> QED BY <1>2, <2>1
<1> QED BY <1>1, <1>3, <1>4, <1>5

-----------------------------------------------------------------------------
(* The inductive invariant.                                                *)

CkptType == [ends : Seq(1 .. MaxTopic), commits : Nat, states : Seq(StateType)]
Steps == {"idle", "plan", "append", "commit", "done", "failed"}

TypeInv ==
    /\ notebook \in Notebooks /\ cwd \in Cwds /\ delay \in Delays
    /\ cell \in 1 .. Len(Script) /\ status \in {"ready", "running", "failed"}
    /\ repeated \in BOOLEAN
    /\ topic \in Seq(RecordsOf(notebook))
    /\ table \in [Queries -> [Offsets -> Nat]]
    /\ epoch \in [Queries -> Nat]
    /\ ckpt \in [Queries -> CkptType]
    /\ query \in [Queries -> Steps]
    /\ target \in [Queries -> 0 .. MaxTopic]
    /\ orphaned \subseteq Queries
    /\ crashes \in 0 .. MaxCrashes

Planned(q) == Len(ckpt[q].ends)

(* The checkpoint: a batch is planned once the one before it is committed. *)
Batches(q) ==
    /\ ckpt[q].commits <= Planned(q) /\ Planned(q) <= ckpt[q].commits + 1
    /\ query[q] \in {"append", "commit"} => Planned(q) = ckpt[q].commits + 1
    /\ query[q] \in {"plan", "done"} => Planned(q) = ckpt[q].commits
    /\ epoch[q] <= Planned(q)
    /\ \A i \in 1 .. Planned(q) : EndOf(q, i - 1) <= EndOf(q, i)
    /\ q \in orphaned => Planned(q) # 0
    /\ q # "windows" => Len(ckpt[q].states) = 0
    /\ q = "windows" => Len(ckpt[q].states) \in {ckpt[q].commits, Planned(q)}
    /\ q = "windows" /\ query[q] = "commit" => Len(ckpt[q].states) = Planned(q)
    /\ q = "windows" /\ notebook # "str1" => Planned(q) = 0 /\ query[q] = "idle"

(* The table: it has the batches up to the epoch, each of them once.       *)
Landed(q) ==
    /\ ckpt[q].commits <= epoch[q]
    /\ query[q] = "commit" => epoch[q] = Planned(q)
    /\ EndOf(q, epoch[q]) <= Len(topic)
    /\ \A p \in Offsets : table[q][p] = IF p \in Appended(q) THEN 1 ELSE 0

BatchOf(q, n) == {p \in Offsets : EndOf(q, n - 1) <= p /\ p < EndOf(q, n)}

(* STR-1's state: it is what the last batch in the table makes of the one  *)
(* before it, by whose watermark the windows in the table were closed.     *)
Counted(q) ==
    LET e    == epoch[q]
        prev == StateAfter(q, e - 1)
    IN  /\ Len(ckpt[q].states) = e
        /\ e > 0 => /\ Counts(prev, EndOf(q, e - 1), topic, delay)
                    /\ StateAfter(q, e) = Advance(prev, BatchOf(q, e), topic, delay)
        /\ \A p \in Offsets : table[q][p] > 0 => Closed(topic[p + 1], Watermark(prev, delay))

QueryInv(q) ==
    /\ Batches(q)
    /\ q \notin orphaned => Landed(q) /\ (q = "windows" => Counted(q))

(* The topic's length: what the cells so far have produced, as long as     *)
(* none of them produced it a second time.                                 *)
Lengths ==
    /\ Len(topic) <= MaxTopic
    /\ ~repeated =>
           /\ notebook \in {"kaf6", "str3"} =>
                  (cell = 2 => Len(topic) = 0) /\ (cell > 2 => Len(topic) = 2)
           /\ notebook = "str1" =>
                  /\ cell = 2 => Len(topic) = 2
                  /\ cell = 3 => Len(topic) = IF status = "ready" THEN 2 ELSE 3
                  /\ cell > 3 => Len(topic) = 3
           /\ notebook = "str2" =>
                  /\ cell = 2 => Len(topic) = IF status = "ready" THEN 0 ELSE 2
                  /\ cell = 3 => Len(topic) = IF status = "ready" THEN 2 ELSE 3
                  /\ cell > 3 => Len(topic) = 3

(* Only a cell with queries is seen running.                               *)
Running == status = "running" => cell < Len(Script) /\ ToSet(Script[cell].queries) # {}

LengthInv == Lengths /\ Running

(* The queries that a notebook has run to their end on the topic as it is. *)
Full(q) == Position(q) = Len(topic) /\ Planned(q) = ckpt[q].commits

Passed ==
    CASE notebook = "kaf6" /\ cell = 4 -> {"main", "dlq"}
      [] notebook = "str2" /\ cell = 5 -> {"sink"}
      [] notebook = "str2" /\ cell = 6 -> {"sink", "scratch"}
      [] notebook = "str3" /\ cell = 4 -> {"big"}
      [] notebook = "str3" /\ cell = 5 -> {"big", "small"}
      [] OTHER -> {}

FullInv ==
    /\ status = "running" => \A q \in ToSet(Script[cell].queries) :
           target[q] = Len(topic) /\ (query[q] = "done" => Full(q))
    /\ \A q \in Passed : q \in Queries /\ Full(q) /\ query[q] \in {"idle", "done"}

StreamRunsInv ==
    /\ TypeInv /\ LengthInv /\ FullInv
    /\ \A q \in Queries : QueryInv(q)

-----------------------------------------------------------------------------
(* What the invariant says of one query.                                   *)

LEMMA EndsAre ==
    ASSUME TypeInv, NEW q \in Queries
    PROVE  /\ MaxTopic \in Nat /\ MaxTopic >= 3
           /\ ckpt[q].ends \in Seq(1 .. MaxTopic) /\ Planned(q) \in Nat
           /\ ckpt[q].commits \in Nat /\ ckpt[q].states \in Seq(StateType)
           /\ ckpt[q] = [ends |-> ckpt[q].ends, commits |-> ckpt[q].commits,
                         states |-> ckpt[q].states]
           /\ epoch[q] \in Nat
           /\ \A i \in 0 .. Planned(q) : EndOf(q, i) \in 0 .. MaxTopic
           /\ \A i \in 1 .. Planned(q) : EndOf(q, i) \in 1 .. MaxTopic
           /\ Position(q) = EndOf(q, Planned(q))
           /\ \A i \in Int : StateAfter(q, i) \in StateType
<1>1. ckpt[q] \in CkptType
    BY DEF TypeInv
<1>2. MaxTopic \in Nat /\ MaxTopic >= 3
    BY StreamRunsAssumption 
<1>3. /\ ckpt[q].ends \in Seq(1 .. MaxTopic) /\ Planned(q) \in Nat
      /\ ckpt[q].commits \in Nat /\ ckpt[q].states \in Seq(StateType)
      /\ ckpt[q] = [ends |-> ckpt[q].ends, commits |-> ckpt[q].commits,
                    states |-> ckpt[q].states]
    BY <1>1 DEF CkptType, Planned
<1>4. \A i \in 1 .. Planned(q) : EndOf(q, i) \in 1 .. MaxTopic
    <2> TAKE i \in 1 .. Planned(q)
    <2>1. i # 0 /\ i \in 1 .. Len(ckpt[q].ends)
        BY <1>3 DEF Planned
    <2>2. ckpt[q].ends[i] \in 1 .. MaxTopic
        <3>1. \A S : \A z \in Seq(S) : \A j \in 1 .. Len(z) : z[j] \in S
            OBVIOUS
        <3> QED BY <1>3, <2>1, <3>1
    <2> QED BY <2>1, <2>2 DEF EndOf
<1>5. \A i \in 0 .. Planned(q) : EndOf(q, i) \in 0 .. MaxTopic
    <2> TAKE i \in 0 .. Planned(q)
    <2>1. CASE i = 0
        BY <1>2, <2>1 DEF EndOf
    <2>2. CASE i # 0
        <3>1. i \in 1 .. Planned(q)
            BY <1>3, <2>2
        <3> QED BY <1>2, <1>4, <3>1
    <2> QED BY <2>1, <2>2
<1>6. ASSUME NEW i \in Int PROVE StateAfter(q, i) \in StateType
    BY <1>3, NoStateIsState DEF StateAfter
<1>7. epoch[q] \in Nat
    BY DEF TypeInv
<1> QED BY <1>2, <1>3, <1>4, <1>5, <1>6, <1>7 DEF Position, Planned

(* The last batch in the table ends where it starts, or later.           *)
LEMMA EndsMonotone ==
    ASSUME TypeInv, NEW q \in Queries, Batches(q), epoch[q] > 0
    PROVE  /\ EndOf(q, epoch[q] - 1) \in Nat /\ EndOf(q, epoch[q]) \in Nat
           /\ EndOf(q, epoch[q] - 1) <= EndOf(q, epoch[q])
<1> DEFINE e == epoch[q]
           n == Planned(q)
<1>1. e \in Nat /\ n \in Nat /\ e <= n
    BY EndsAre DEF Batches
<1>2. \A i \in 1 .. n : EndOf(q, i - 1) <= EndOf(q, i)
    BY DEF Batches
<1>3. \A i \in 0 .. n : EndOf(q, i) \in 0 .. MaxTopic
    BY EndsAre
<1> HIDE DEF e, n
<1>4. e \in 1 .. n /\ e - 1 \in 0 .. n /\ e \in 0 .. n
    BY <1>1 DEF e
<1> QED BY <1>2, <1>3, <1>4 DEF e

(* What a topic that only grew does not change.                            *)
SamePrefix(t, u, n) ==
    /\ t \in Seq(0 .. 8) /\ u \in Seq(0 .. 8) /\ n \in 0 .. Len(t)
    /\ \A i \in 1 .. n : u[i] = t[i]
Below(B, n) == B \in SUBSET Nat /\ \A p \in B : p < n

LEMMA AdvanceSame ==
    ASSUME NEW t, NEW u, NEW n, SamePrefix(t, u, n), NEW B, Below(B, n),
           NEW d \in Nat, NEW s \in StateType, NEW lo \in 0 .. n, Counts(s, lo, t, d)
    PROVE  Counts(s, lo, u, d) /\ Advance(s, B, u, d) = Advance(s, B, t, d)
<1>0. /\ t \in Seq(0 .. 8) /\ u \in Seq(0 .. 8) /\ n \in 0 .. Len(t)
      /\ \A i \in 1 .. n : u[i] = t[i]
      /\ B \in SUBSET Nat /\ \A p \in B : p < n
    BY DEF SamePrefix, Below
<1>1. \A p \in Nat : p < n => u[p + 1] = t[p + 1]
    BY <1>0
<1>2. s.open \in SUBSET Nat /\ s.late \in SUBSET Nat /\ s.frontier \in 0 .. 8
    BY DEF StateType
<1>3. \A p \in s.open \cup s.late : p < lo
    BY DEF Counts
<1>4. Counts(s, lo, u, d)
    <2>1. s.frontier = 0 \/ \E p \in 0 .. lo - 1 : u[p + 1] = s.frontier
        <3>1. \A p \in 0 .. lo - 1 : u[p + 1] = t[p + 1]
            BY <1>0, <1>1
        <3> QED BY <3>1 DEF Counts
    <2>2. ASSUME NEW p \in s.late
          PROVE  \E r \in 0 .. p - 1 : u[r + 1] >= WindowEnd(u[p + 1]) + d * Minute
        <3>1. PICK r \in 0 .. p - 1 : t[r + 1] >= WindowEnd(t[p + 1]) + d * Minute
            BY DEF Counts
        <3>2. r \in Nat /\ r < n /\ p \in Nat /\ p < n
            BY <1>0, <1>2, <1>3
        <3>3. u[r + 1] = t[r + 1] /\ u[p + 1] = t[p + 1]
            BY <1>1, <3>2
        <3> QED BY <3>1, <3>3
    <2> QED BY <1>3, <2>1, <2>2 DEF Counts
<1>5. \A p \in B \cup s.open : u[p + 1] = t[p + 1]
    BY <1>0, <1>1, <1>2, <1>3
<1> DEFINE wm == Watermark(s, d)
           open(v) == s.open \cup {o \in B : ~Closed(v[o + 1], wm)}
<1>6. {u[o + 1] : o \in B} = {t[o + 1] : o \in B}
    BY <1>5
<1>7. {o \in B : Closed(u[o + 1], wm)} = {o \in B : Closed(t[o + 1], wm)}
    BY <1>5
<1>8. {o \in open(u) : ~Closed(u[o + 1], wm)} = {o \in open(t) : ~Closed(t[o + 1], wm)}
    BY <1>5
<1>9. Advance(s, B, u, d) = Advance(s, B, t, d)
    BY <1>6, <1>7, <1>8 DEF Advance
<1> QED BY <1>4, <1>9

(* What the invariant implies of STR-1's state.                            *)
LEMMA CountedGives ==
    ASSUME TypeInv, NEW q \in Queries, q = "windows", QueryInv(q), q \notin orphaned,
           notebook = "str1"
    PROVE  /\ Counts(StateAfter(q, epoch[q]), EndOf(q, epoch[q]), topic, delay)
           /\ StateAfter(q, epoch[q] - 1).frontier <= StateAfter(q, epoch[q]).frontier
           /\ \A p \in StateAfter(q, epoch[q]).open :
                  ~Closed(topic[p + 1], Watermark(StateAfter(q, epoch[q] - 1), delay))
<1> DEFINE e    == epoch[q]
           prev == StateAfter(q, e - 1)
           s    == StateAfter(q, e)
<1>1. Batches(q) /\ Landed(q) /\ Counted(q)
    BY DEF QueryInv
<1>2. e \in Nat /\ prev \in StateType /\ s \in StateType
    <2>1. e \in Nat
        BY EndsAre
    <2>2. e \in Int /\ e - 1 \in Int
        BY <2>1
    <2>3. \A i \in Int : StateAfter(q, i) \in StateType
        BY EndsAre
    <2> QED BY <2>1, <2>2, <2>3
<1>3. CASE e = 0
    <2>1. Len(ckpt[q].states) = 0 /\ 0 \notin DOMAIN ckpt[q].states /\ 0 - 1 \notin DOMAIN ckpt[q].states
        BY <1>1, <1>3, EndsAre DEF Counted
    <2>2. s = NoState /\ prev = NoState
        BY <1>3, <2>1 DEF StateAfter
    <2>3. NoState.frontier = 0 /\ NoState.open = {} /\ NoState.late = {}
        BY DEF NoState
    <2> HIDE DEF s, prev
    <2>4. Counts(s, EndOf(q, e), topic, delay)
        BY <2>2, <2>3 DEF Counts
    <2> QED BY <2>2, <2>3, <2>4 DEF s, prev
<1>4. CASE e > 0
    <2> DEFINE B  == BatchOf(q, e)
               lo == EndOf(q, e - 1)
               hi == EndOf(q, e)
    <2>1. lo \in Nat /\ hi \in Nat /\ lo <= hi
        BY <1>1, <1>4, EndsMonotone
    <2>2. hi <= Len(topic) /\ topic \in Seq(0 .. 8) /\ delay \in Nat
        BY <1>1, StreamRunsAssumption DEF Landed, TypeInv, RecordsOf
    <2>3. B \in SUBSET Nat /\ \A p \in B : lo <= p /\ p < hi
        BY EndsAre DEF BatchOf, Offsets
    <2>4. Counts(prev, lo, topic, delay) /\ s = Advance(prev, B, topic, delay)
        BY <1>1, <1>4 DEF Counted
    <2> HIDE DEF s, prev, B, lo, hi, e
    <2>5. /\ Counts(s, hi, topic, delay) /\ prev.frontier <= s.frontier
          /\ \A p \in Nat : p \in s.open => ~Closed(topic[p + 1], Watermark(prev, delay))
        BY <1>2, <2>1, <2>2, <2>3, <2>4, AdvanceCounts
    <2>6. \A p \in s.open : p \in Nat
        BY <1>2 DEF StateType
    <2> QED BY <2>5, <2>6 DEF s, prev, hi, e
<1> QED BY <1>2, <1>3, <1>4

-----------------------------------------------------------------------------
(* A step that leaves a query's checkpoint and table alone, and the topic  *)
(* too or only produces to it, leaves the invariant of the query alone.    *)
LEMMA Frame ==
    ASSUME TypeInv, NEW q \in Queries, QueryInv(q), q \notin orphaned,
           notebook' = notebook, delay' = delay,
           ckpt'[q] = ckpt[q], epoch'[q] = epoch[q], table'[q] = table[q],
           topic' \in Seq(RecordsOf(notebook)), Len(topic) <= Len(topic'),
           \A i \in 1 .. Len(topic) : topic'[i] = topic[i],
           query'[q] = "commit" => query[q] = "commit"
    PROVE  Landed(q)' /\ (q = "windows" => Counted(q)')
<1> DEFINE e  == epoch[q]
           hi == EndOf(q, e)
<1>1. Batches(q) /\ Landed(q)
    BY DEF QueryInv
<1>2. /\ \A i : EndOf(q, i)' = EndOf(q, i) /\ StateAfter(q, i)' = StateAfter(q, i)
      /\ Planned(q)' = Planned(q)
    BY DEF EndOf, StateAfter, Planned
<1>3. e \in Nat /\ hi \in Nat /\ hi <= Len(topic) /\ Len(topic) \in Nat
    <2>1. e \in Nat /\ Planned(q) \in Nat /\ e <= Planned(q)
        BY <1>1, EndsAre DEF Batches
    <2>2. e \in 0 .. Planned(q)
        BY <2>1
    <2>3. EndOf(q, e) \in 0 .. MaxTopic
        <3>1. \A i \in 0 .. Planned(q) : EndOf(q, i) \in 0 .. MaxTopic
            BY EndsAre
        <3> QED BY <2>2, <3>1
    <2> QED BY <1>1, <2>1, <2>2, <2>3 DEF Landed, TypeInv
<1>4. \A p \in Nat : p < hi => topic'[p + 1] = topic[p + 1]
    BY <1>3
<1>5. Appended(q)' = Appended(q)
    <2>1. CASE q = "windows"
        BY <1>2, <2>1 DEF Appended
    <2>2. CASE q # "windows"
        <3>1. \A p \in 0 .. hi - 1 : Accepts(q, topic'[p + 1]) = Accepts(q, topic[p + 1])
            BY <1>3, <1>4
        <3> QED BY <1>2, <2>2, <3>1 DEF Appended
    <2> QED BY <2>1, <2>2
<1>6. Landed(q)'
    <2>1. hi <= Len(topic')
        BY <1>3
    <2>2. \A p \in Offsets : table'[q][p] = IF p \in Appended(q)' THEN 1 ELSE 0
        BY <1>1, <1>5 DEF Landed
    <2> QED BY <1>1, <1>2, <2>1, <2>2 DEF Landed, Offsets
<1>7. ASSUME q = "windows" PROVE Counted(q)'
    <2> DEFINE prev == StateAfter(q, e - 1)
               lo   == EndOf(q, e - 1)
    <2>1. Counted(q)
        BY <1>7 DEF QueryInv
    <2>2. CASE notebook # "str1"
        <3>1. Planned(q) = 0 /\ e <= Planned(q)
            BY <1>1, <1>7, <2>2 DEF Batches
        <3>2. e = 0 /\ hi = 0
            BY <1>3, <3>1 DEF EndOf
        <3>3. Len(ckpt[q].states) = 0
            BY <2>1, <3>2 DEF Counted
        <3>4. StateAfter(q, 0) = NoState /\ NoState.open = {} /\ NoState.late = {}
            BY <3>3, EndsAre DEF StateAfter, NoState
        <3>5. Appended(q) = {}
            BY <1>7, <3>2, <3>4 DEF Appended
        <3>6. \A p \in Offsets : ~(table[q][p] > 0)
            BY <1>1, <3>5 DEF Landed
        <3> QED BY <1>2, <3>2, <3>3, <3>6 DEF Counted, Offsets
    <2>3. CASE notebook = "str1"
        <3>1. topic \in Seq(0 .. 8) /\ topic' \in Seq(0 .. 8) /\ delay \in Nat
            BY <2>3, StreamRunsAssumption DEF TypeInv, RecordsOf
        <3>2. BatchOf(q, e)' = BatchOf(q, e)
            BY <1>2 DEF BatchOf, Offsets
        <3>3. ASSUME e > 0
              PROVE  /\ Counts(prev, lo, topic', delay)
                     /\ Advance(prev, BatchOf(q, e), topic', delay)
                            = Advance(prev, BatchOf(q, e), topic, delay)
            <4> DEFINE B == BatchOf(q, e)
            <4>1. lo \in Nat /\ lo <= hi
                BY <1>1, <3>3, EndsMonotone
            <4>2. prev \in StateType
                <5>1. e - 1 \in Int
                    BY <1>3
                <5> QED BY <5>1, EndsAre
            <4>3. B \in SUBSET Nat /\ \A p \in B : p < hi
                BY EndsAre DEF BatchOf, Offsets
            <4>4. Counts(prev, lo, topic, delay)
                BY <2>1, <3>3 DEF Counted
            <4> HIDE DEF B, lo, hi, prev, e
            <4>5. hi \in 0 .. Len(topic) /\ lo \in 0 .. hi /\ \A i \in 1 .. hi : topic'[i] = topic[i]
                BY <1>3, <4>1
            <4>6. SamePrefix(topic, topic', hi) /\ Below(B, hi)
                BY <3>1, <4>3, <4>5 DEF SamePrefix, Below
            <4>7. /\ Counts(prev, lo, topic', delay)
                  /\ Advance(prev, B, topic', delay) = Advance(prev, B, topic, delay)
                BY <3>1, <4>2, <4>4, <4>5, <4>6, AdvanceSame
            <4> QED BY <4>7 DEF B
        <3>4. ASSUME NEW p \in Offsets, table[q][p] > 0
              PROVE  Closed(topic'[p + 1], Watermark(prev, delay))
            <4>1. p \in Appended(q)
                BY <1>1, <3>4 DEF Landed
            <4>2. p \in Nat /\ p < hi
                BY <1>3, <1>7, <4>1 DEF Appended
            <4> QED BY <1>4, <2>1, <3>4, <4>2 DEF Counted
        <3> QED BY <1>2, <2>1, <3>2, <3>3, <3>4 DEF Counted, Offsets
    <2> QED BY <2>2, <2>3
<1> QED BY <1>6, <1>7

(* A query without checkpoint and with an empty table is as at the start.  *)
LEMMA Fresh ==
    ASSUME TypeInv', NEW q \in Queries,
           Planned(q)' = 0, ckpt'[q].commits = 0, Len(ckpt'[q].states) = 0,
           epoch'[q] = 0, table'[q] = NoRows', q \notin orphaned',
           query'[q] \notin {"append", "commit"},
           q = "windows" /\ notebook' # "str1" => query'[q] = "idle"
    PROVE  QueryInv(q)'
<1>1. Batches(q)'
    BY DEF Batches
<1>2. EndOf(q, 0)' = 0
    BY DEF EndOf
<1>3. /\ Len(topic') \in Nat /\ MaxTopic \in Nat
      /\ 0 \notin DOMAIN ckpt'[q].states /\ 0 - 1 \notin DOMAIN ckpt'[q].states
    <2>1. ckpt'[q] \in CkptType'
        BY DEF TypeInv
    <2>2. ckpt'[q].states \in Seq(StateType)
        BY <2>1 DEF CkptType
    <2> QED BY <2>2, StreamRunsAssumption DEF TypeInv
<1>4. /\ StateAfter(q, 0)' = NoState /\ StateAfter(q, 0 - 1)' = NoState
      /\ NoState.open = {} /\ NoState.late = {}
    BY <1>3 DEF StateAfter, NoState
<1>5. Appended(q)' = {}
    BY <1>2, <1>4 DEF Appended
<1>6. \A p \in Offsets : table'[q][p] = 0
    BY DEF NoRows, Offsets
<1>7. Landed(q)'
    BY <1>2, <1>3, <1>5, <1>6 DEF Landed, Offsets
<1>8. Counted(q)'
    BY <1>6 DEF Counted, Offsets
<1> QED BY <1>1, <1>7, <1>8 DEF QueryInv

(* The table of a query that has appended no batch is empty.             *)
LEMMA EmptyTable ==
    ASSUME TypeInv, NEW q \in Queries, QueryInv(q), q \notin orphaned, epoch[q] = 0
    PROVE  table[q] = NoRows
<1>1. EndOf(q, 0) = 0
    BY DEF EndOf
<1>2. \A p \in Offsets : p \notin Appended(q)
    BY <1>1 DEF Appended
<1>3. \A p \in Offsets : table[q][p] = 0
    BY <1>2 DEF QueryInv, Landed
<1>4. table[q] \in [Offsets -> Nat]
    BY DEF TypeInv
<1> QED BY <1>3, <1>4 DEF NoRows

-----------------------------------------------------------------------------
(* A cell that runs: what it removes is as at the start, what it orphans   *)
(* keeps its checkpoint only, and the rest sees at most a longer topic.    *)
LEMMA RunCellQuery ==
    ASSUME TypeInv, TypeInv', NEW q \in Queries, QueryInv(q), RunCell
    PROVE  QueryInv(q)'
<1> DEFINE c     == Script[cell]
           wiped == Reached(c.clears)
           start == ToSet(c.queries)
<1>1. CellOK(c, notebook)
    <2>1. notebook \in AllNotebooks /\ cell \in Nat /\ 1 <= cell /\ cell < Len(Cells[notebook])
        BY AwaitedQueries DEF TypeInv, RunCell, Script
    <2> QED BY <2>1, CellFacts DEF Script
<1>2. /\ notebook' = notebook /\ delay' = delay
      /\ topic' = IF c.recreate THEN c.records ELSE topic \o c.records
      /\ ckpt'[q] = IF q \in wiped THEN NoCheckpoint ELSE ckpt[q]
      /\ table'[q] = IF q \in c.drops THEN NoRows ELSE table[q]
      /\ epoch'[q] = IF q \in c.drops \cup wiped THEN 0 ELSE epoch[q]
      /\ q \in orphaned' <=> ckpt'[q].ends # <<>> /\ (c.recreate \/ q \in orphaned \cup c.drops)
      /\ query'[q] = IF q \in start THEN Resume(ckpt'[q])
                     ELSE IF q \in wiped THEN "idle" ELSE query[q]
    BY DEF RunCell
<1>3. q \in wiped => q \in c.drops
    BY <1>1 DEF Reached, CellOK
<1>4. q = "windows" /\ notebook # "str1" => q \notin start
    BY <1>1 DEF CellOK
<1>5. NoCheckpoint.ends = <<>> /\ NoCheckpoint.commits = 0 /\ NoCheckpoint.states = <<>>
    BY DEF NoCheckpoint
<1>6. NoRows' = NoRows
    BY DEF NoRows, Offsets
<1>7. Batches(q)
    BY DEF QueryInv
<1> HIDE DEF c, wiped, start
<1>8. CASE q \in wiped
    <2>1. Planned(q)' = 0 /\ ckpt'[q].commits = 0 /\ Len(ckpt'[q].states) = 0
        BY <1>2, <1>5, <1>8 DEF Planned
    <2>2. query'[q] \in {"idle", "plan"}
        BY <1>2, <1>5, <1>8 DEF Resume, Pending
    <2>3. q = "windows" /\ notebook' # "str1" => query'[q] = "idle"
        BY <1>2, <1>4, <1>8
    <2>4. epoch'[q] = 0 /\ table'[q] = NoRows' /\ q \notin orphaned'
        BY <1>2, <1>3, <1>5, <1>6, <1>8
    <2> QED BY <2>1, <2>2, <2>3, <2>4, Fresh
<1>9. CASE q \notin wiped
    <2>1. /\ ckpt'[q] = ckpt[q] /\ Planned(q)' = Planned(q)
          /\ \A i : EndOf(q, i)' = EndOf(q, i)
        BY <1>2, <1>9 DEF Planned, EndOf
    <2>2. /\ Planned(q) \in Nat /\ ckpt[q].commits \in Nat /\ epoch[q] \in Nat
          /\ ckpt[q].ends \in Seq(1 .. MaxTopic) /\ ckpt[q].states \in Seq(StateType)
        BY EndsAre
    <2>3. query'[q] = IF q \in start THEN IF Planned(q) > ckpt[q].commits THEN "append" ELSE "plan"
                      ELSE query[q]
        BY <1>2, <1>9, <2>1 DEF Resume, Pending, Planned
    <2>4. ckpt[q].ends = <<>> <=> Planned(q) = 0
        BY <2>2 DEF Planned
    <2>5. Batches(q)'
        <3>1. /\ query'[q] \in {"append", "commit"} => Planned(q) = ckpt[q].commits + 1
              /\ query'[q] \in {"plan", "done"} => Planned(q) = ckpt[q].commits
            BY <1>7, <2>2, <2>3 DEF Batches
        <3>2. epoch'[q] <= Planned(q)
            BY <1>2, <1>7, <2>2 DEF Batches
        <3>3. q \in orphaned' => Planned(q) # 0
            BY <1>2, <2>1, <2>4
        <3>4. q = "windows" /\ query'[q] = "commit" => Len(ckpt[q].states) = Planned(q)
            BY <1>7, <2>3 DEF Batches
        <3>5. q = "windows" /\ notebook' # "str1" => Planned(q) = 0 /\ query'[q] = "idle"
            BY <1>2, <1>4, <1>7, <2>3 DEF Batches
        <3> QED BY <1>7, <2>1, <3>1, <3>2, <3>3, <3>4, <3>5 DEF Batches
    <2>6. CASE Planned(q) = 0
        <3>1. q \notin orphaned /\ q \notin orphaned'
            BY <1>2, <1>7, <2>1, <2>4, <2>6 DEF Batches
        <3>2. epoch[q] = 0 /\ ckpt[q].commits = 0
            BY <1>7, <2>2, <2>6 DEF Batches
        <3>3. table[q] = NoRows
            BY <3>1, <3>2, EmptyTable
        <3>4. epoch'[q] = 0 /\ table'[q] = NoRows'
            BY <1>2, <1>6, <3>2, <3>3
        <3>5. query'[q] \notin {"append", "commit"}
            BY <2>1, <2>5, <2>6, <3>2 DEF Batches
        <3>6. Len(ckpt[q].states) = 0
            BY <1>7, <2>6, <3>2 DEF Batches
        <3>7. q = "windows" /\ notebook' # "str1" => query'[q] = "idle"
            BY <2>5 DEF Batches
        <3> QED BY <2>1, <2>6, <3>1, <3>2, <3>4, <3>5, <3>6, <3>7, Fresh
    <2>7. CASE Planned(q) # 0 /\ q \notin orphaned'
        <3>1. ~c.recreate /\ q \notin orphaned /\ q \notin c.drops
            BY <1>2, <2>1, <2>4, <2>7
        <3>2. epoch'[q] = epoch[q] /\ table'[q] = table[q] /\ topic' = topic \o c.records
            BY <1>2, <1>9, <3>1
        <3>3. /\ topic' \in Seq(RecordsOf(notebook)) /\ Len(topic) <= Len(topic')
              /\ \A i \in 1 .. Len(topic) : topic'[i] = topic[i]
            BY <1>1, <3>2 DEF TypeInv, CellOK
        <3>4. query'[q] = "commit" => query[q] = "commit"
            BY <2>3
        <3> HIDE DEF QueryInv
        <3>5. Landed(q)' /\ (q = "windows" => Counted(q)')
            BY <1>2, <2>1, <3>1, <3>2, <3>3, <3>4, Frame
        <3> QED BY <2>5, <3>5 DEF QueryInv
    <2>8. CASE q \in orphaned'
        BY <2>5, <2>8 DEF QueryInv
    <2> QED BY <2>6, <2>7, <2>8
<1> QED BY <1>8, <1>9

-----------------------------------------------------------------------------
(* The steps of the queries.                                               *)

(* A query that goes nowhere, stops or fails keeps what it has.            *)
LEMMA Kept ==
    ASSUME TypeInv, NEW q \in Queries, QueryInv(q),
           notebook' = notebook, delay' = delay, topic' = topic,
           q \in orphaned' <=> q \in orphaned,
           ckpt'[q] = ckpt[q], epoch'[q] = epoch[q], table'[q] = table[q],
           \/ query'[q] \in {query[q], "idle"}
           \/ query[q] # "idle" /\ query'[q] = "failed"
           \/ query[q] = "plan" /\ query'[q] = "done"
    PROVE  QueryInv(q)'
<1>1. /\ \A i : EndOf(q, i)' = EndOf(q, i)
      /\ Planned(q)' = Planned(q)
    BY DEF EndOf, Planned
<1>2. Batches(q)'
    BY <1>1 DEF QueryInv, Batches
<1>3. query'[q] = "commit" => query[q] = "commit"
    OBVIOUS
<1>4. /\ topic' \in Seq(RecordsOf(notebook)) /\ Len(topic) <= Len(topic')
      /\ \A i \in 1 .. Len(topic) : topic'[i] = topic[i]
    BY DEF TypeInv
<1>5. CASE q \notin orphaned
    <2>1. Landed(q)' /\ (q = "windows" => Counted(q)')
        BY <1>3, <1>4, <1>5, Frame
    <2> QED BY <1>2, <2>1 DEF QueryInv
<1>6. CASE q \in orphaned
    BY <1>2, <1>6 DEF QueryInv
<1> QED BY <1>5, <1>6

(* A planned batch ends where the topic ended at most.                   *)
LEMMA PlanQuery ==
    ASSUME TypeInv, NEW q \in Queries, QueryInv(q), PlanBatch(q)
    PROVE  /\ QueryInv(q)' /\ ckpt'[q] \in CkptType
           /\ Position(q)' <= target[q] /\ Planned(q)' = Planned(q) + 1
<1> DEFINE end == Min({Position(q) + MaxOffsets(q), target[q]})
<1>0. PICK n \in Nat : n = Planned(q)
    BY EndsAre
<1>1. Batches(q) /\ q \in Queries
    BY DEF QueryInv
<1>2. /\ n \in Nat /\ ckpt[q].ends \in Seq(1 .. MaxTopic) /\ Len(ckpt[q].ends) = n
      /\ ckpt[q].commits = n /\ Position(q) = EndOf(q, n) /\ Position(q) \in Nat
      /\ (n > 0 => Position(q) \in 1 .. MaxTopic)
    <2>1. /\ n \in Nat /\ ckpt[q].ends \in Seq(1 .. MaxTopic) /\ Position(q) = EndOf(q, n)
          /\ ckpt[q].commits \in Nat
        BY <1>0, EndsAre
    <2>2. ckpt[q].commits = n
        BY <1>0, <1>1 DEF PlanBatch, Batches
    <2>3. n \in 0 .. n /\ (n > 0 => n \in 1 .. n)
        BY <2>1
    <2>4. EndOf(q, n) \in 0 .. MaxTopic /\ (n > 0 => EndOf(q, n) \in 1 .. MaxTopic)
        BY <1>0, <2>3, EndsAre
    <2> QED BY <1>0, <2>1, <2>2, <2>4 DEF Planned
<1>3. target[q] \in 0 .. MaxTopic /\ MaxOffsets(q) \in Nat \ {0} /\ MaxTopic \in Nat
    BY StreamRunsAssumption DEF TypeInv, MaxOffsets
<1>4. \/ Position(q) < target[q]
      \/ Position(q) = target[q] /\ q = "windows" /\ n > 0
    BY <1>0 DEF PlanBatch, Unsettled, Planned
<1>5. end \in 1 .. MaxTopic /\ Position(q) <= end /\ end <= target[q]
    <2>1. target[q] \in Nat /\ target[q] <= MaxTopic
        BY <1>3
    <2>2. Position(q) + MaxOffsets(q) \in Nat
        BY <1>2, <1>3
    <2>3. end \in {Position(q) + MaxOffsets(q), target[q]} /\ end <= target[q]
        BY <2>1, <2>2, MinOfTwo
    <2> HIDE DEF end
    <2>4. Position(q) <= target[q] /\ 1 <= target[q]
        BY <1>2, <1>4, <2>1
    <2>5. Position(q) <= end /\ 1 <= end /\ end \in Nat
        BY <1>2, <1>3, <2>1, <2>3, <2>4
    <2> QED BY <1>3, <2>1, <2>3, <2>5
<1>6. ckpt'[q] = [ends |-> Append(ckpt[q].ends, end), commits |-> ckpt[q].commits,
                  states |-> ckpt[q].states]
    <2>1. ckpt' = [ckpt EXCEPT ![q].ends = Append(@, end)]
        BY DEF PlanBatch
    <2> HIDE DEF end
    <2>2. ckpt[q] \in CkptType /\ ckpt \in [Queries -> CkptType]
        BY DEF TypeInv
    <2> QED BY <2>1, <2>2 DEF CkptType
<1>7. /\ query'[q] = "append" /\ table' = table /\ epoch' = epoch /\ topic' = topic
      /\ orphaned' = orphaned /\ notebook' = notebook /\ delay' = delay
    BY DEF PlanBatch, kernelVars, TypeInv
<1>8. /\ Append(ckpt[q].ends, end) \in Seq(1 .. MaxTopic)
      /\ Len(Append(ckpt[q].ends, end)) = n + 1 /\ Append(ckpt[q].ends, end)[n + 1] = end
      /\ \A i \in 1 .. n : Append(ckpt[q].ends, end)[i] = ckpt[q].ends[i]
    <2> HIDE DEF end
    <2> QED BY <1>2, <1>5
<1> PICK new : new = end
    OBVIOUS
<1> HIDE DEF end
<1>9. /\ Len(ckpt'[q].ends) = n + 1 /\ ckpt'[q].ends[n + 1] = new
      /\ \A i \in 1 .. n : ckpt'[q].ends[i] = ckpt[q].ends[i]
      /\ ckpt'[q].commits = n /\ ckpt'[q].states = ckpt[q].states
    BY <1>2, <1>6, <1>8
<1>10. Planned(q)' = n + 1 /\ EndOf(q, n + 1)' = new /\ Position(q)' = new
    BY <1>0, <1>9 DEF Planned, EndOf, Position
<1>11. \A i \in 0 .. n : EndOf(q, i)' = EndOf(q, i)
    BY <1>9 DEF EndOf
<1>12. \A i : StateAfter(q, i)' = StateAfter(q, i)
    BY <1>9 DEF StateAfter
<1>13. ckpt'[q] \in CkptType
    <2>1. ckpt[q].commits \in Nat /\ ckpt[q].states \in Seq(StateType)
        BY EndsAre
    <2> QED BY <1>6, <1>8, <2>1 DEF CkptType
<1>14. Batches(q)'
    <2>1. ASSUME NEW i \in 1 .. Planned(q)' PROVE EndOf(q, i - 1)' <= EndOf(q, i)'
        <3>1. CASE i = n + 1
            BY <1>2, <1>5, <1>10, <1>11, <3>1
        <3>2. CASE i # n + 1
            <4>1. i \in 1 .. n /\ i \in 0 .. n /\ i - 1 \in 0 .. n
                BY <1>10, <3>2
            <4> QED BY <1>0, <1>1, <1>11, <4>1 DEF Batches
        <3> QED BY <3>1, <3>2
    <2>2. epoch[q] <= n /\ epoch[q] \in Nat
        BY <1>0, <1>1, EndsAre DEF Batches
    <2>3. q = "windows" => Len(ckpt[q].states) = n
        BY <1>0, <1>1, <1>2 DEF Batches
    <2>4. q = "windows" => notebook = "str1"
        BY <1>1 DEF Batches, PlanBatch
    <2> QED BY <1>0, <1>1, <1>7, <1>9, <1>10, <2>1, <2>2, <2>3, <2>4 DEF Batches
<1>15. ASSUME q \notin orphaned PROVE Landed(q)' /\ (q = "windows" => Counted(q)')
    <2>0. PICK e \in Nat : e = epoch[q]
        BY EndsAre
    <2>1. e \in 0 .. n /\ epoch'[q] = e
        BY <1>0, <1>1, <1>7, <2>0 DEF Batches
    <2>2. Landed(q)
        BY <1>15 DEF QueryInv
    <2>3. EndOf(q, epoch[q])' = EndOf(q, e) /\ StateAfter(q, epoch[q])' = StateAfter(q, e)
        BY <1>11, <1>12, <2>1
    <2>4. Appended(q)' = Appended(q)
        BY <1>7, <2>0, <2>3 DEF Appended
    <2>5. Landed(q)'
        BY <1>2, <1>7, <1>9, <2>0, <2>1, <2>2, <2>3, <2>4 DEF Landed, Offsets
    <2>6. ASSUME q = "windows" PROVE Counted(q)'
        <3>1. Counted(q)
            BY <1>15, <2>6 DEF QueryInv
        <3>2. StateAfter(q, epoch[q] - 1)' = StateAfter(q, e - 1)
            BY <1>12, <2>1
        <3>3. e > 0 => EndOf(q, epoch[q] - 1)' = EndOf(q, e - 1)
            BY <1>11, <2>1
        <3>4. e > 0 => BatchOf(q, epoch[q])' = BatchOf(q, e)
            BY <2>3, <3>3 DEF BatchOf, Offsets
        <3> QED BY <1>7, <1>9, <2>0, <2>1, <2>3, <3>1, <3>2, <3>3, <3>4
                DEF Counted, Offsets
    <2> QED BY <2>5, <2>6
<1> QED BY <1>0, <1>5, <1>7, <1>10, <1>13, <1>14, <1>15 DEF QueryInv

(* STR-1's query computes its state again, or for the first time.          *)
LEMMA AppendState ==
    ASSUME TypeInv, NEW q \in Queries, q = "windows", QueryInv(q), AppendBatch(q),
           NEW n \in Nat, n = Planned(q), n > 0, Position(q) <= Len(topic)
    PROVE  /\ notebook = "str1" /\ ckpt'[q] \in CkptType /\ Len(ckpt'[q].states) = n
           /\ StateAfter(q, n)' = Advance(StateAfter(q, n - 1), Batch(q), topic, delay)
           /\ \A i \in Int : i < n => StateAfter(q, i)' = StateAfter(q, i)
<1> DEFINE st == Advance(StateAfter(q, n - 1), Batch(q), topic, delay)
<1>1. Batches(q)
    BY DEF QueryInv
<1>2. notebook = "str1"
    BY <1>1 DEF Batches, AppendBatch
<1>3. topic \in Seq(0 .. 8) /\ delay \in Nat
    BY <1>2, StreamRunsAssumption DEF TypeInv, RecordsOf
<1>4. st \in StateType
    <2>1. n - 1 \in Int
        OBVIOUS
    <2>2. StateAfter(q, n - 1) \in StateType
        BY <2>1, EndsAre
    <2>3. Batch(q) \in SUBSET Nat /\ \A p \in Batch(q) : p < Len(topic)
        <3>1. Position(q) \in Nat
            <4>1. n \in 0 .. n
                OBVIOUS
            <4>2. EndOf(q, n) \in 0 .. MaxTopic /\ Position(q) = EndOf(q, n)
                BY <4>1, EndsAre
            <4> QED BY <4>2
        <3> QED BY <1>3, <3>1 DEF Batch, Offsets
    <2> QED BY <1>3, <2>2, <2>3, AdvanceType
<1>5. ckpt[q].states \in Seq(StateType) /\ Len(ckpt[q].states) \in {n - 1, n}
    <2>1. Len(ckpt[q].states) \in {ckpt[q].commits, Planned(q)} /\ Planned(q) = ckpt[q].commits + 1
        BY <1>1 DEF Batches, AppendBatch
    <2>2. ckpt[q].commits \in Nat /\ ckpt[q].states \in Seq(StateType)
        BY EndsAre
    <2> QED BY <2>1, <2>2
<1> HIDE DEF st
<1> DEFINE old == SubSeq(ckpt[q].states, 1, n - 1)
<1>6. /\ old \in Seq(StateType) /\ Len(old) = n - 1
      /\ \A i \in 1 .. n - 1 : old[i] = ckpt[q].states[i]
    BY <1>5
<1>7. /\ ckpt'[q].states = Append(old, st) /\ ckpt'[q].ends = ckpt[q].ends
      /\ ckpt'[q] = [ends |-> ckpt[q].ends, commits |-> ckpt[q].commits, states |-> Append(old, st)]
    <2>1. ckpt[q] \in CkptType /\ ckpt \in [Queries -> CkptType]
        BY DEF TypeInv
    <2>2. ckpt' = [ckpt EXCEPT ![q].states = Append(SubSeq(@, 1, n - 1), st)]
        BY DEF AppendBatch, Planned, st
    <2> QED BY <2>1, <2>2 DEF CkptType
<1> HIDE DEF old
<1>8. /\ Append(old, st) \in Seq(StateType) /\ Len(Append(old, st)) = n /\ Append(old, st)[n] = st
      /\ \A i \in 1 .. n - 1 : Append(old, st)[i] = ckpt[q].states[i]
    BY <1>4, <1>6
<1>9. ckpt'[q] \in CkptType /\ Len(ckpt'[q].states) = n
    <2>1. ckpt[q].ends \in Seq(1 .. MaxTopic) /\ ckpt[q].commits \in Nat
        BY EndsAre
    <2> QED BY <1>7, <1>8, <2>1 DEF CkptType
<1>10. DOMAIN ckpt'[q].states = 1 .. n /\ DOMAIN ckpt[q].states = 1 .. Len(ckpt[q].states)
    BY <1>5, <1>7, <1>8
<1>11. StateAfter(q, n)' = st
    <2>1. n \in DOMAIN ckpt'[q].states /\ ckpt'[q].states[n] = st
        BY <1>7, <1>8, <1>10
    <2> QED BY <2>1 DEF StateAfter
<1>12. ASSUME NEW i \in Int, i < n PROVE StateAfter(q, i)' = StateAfter(q, i)
    <2>1. CASE i >= 1
        <3>1. /\ i \in DOMAIN ckpt'[q].states /\ i \in DOMAIN ckpt[q].states
              /\ ckpt'[q].states[i] = ckpt[q].states[i]
            BY <1>5, <1>7, <1>8, <1>10, <1>12, <2>1
        <3> QED BY <3>1 DEF StateAfter
    <2>2. CASE i < 1
        <3>1. i \notin DOMAIN ckpt'[q].states /\ i \notin DOMAIN ckpt[q].states
            BY <1>10, <2>2
        <3> QED BY <3>1 DEF StateAfter
    <2> QED BY <2>1, <2>2
<1> QED BY <1>2, <1>9, <1>11, <1>12 DEF st

(* A batch is appended once, be it planned by this run or by a dead one. *)
LEMMA AppendQuery ==
    ASSUME TypeInv, NEW q \in Queries, QueryInv(q), AppendBatch(q)
    PROVE  /\ QueryInv(q)' /\ ckpt'[q] \in CkptType
           /\ Position(q)' = Position(q) /\ Planned(q)' = Planned(q)
           /\ table'[q] \in [Offsets -> Nat] /\ epoch'[q] \in Nat
<1>0. PICK n \in Nat, e \in Nat : n = Planned(q) /\ e = epoch[q]
    BY EndsAre
<1>1. Batches(q) /\ n > 0 /\ ckpt[q].commits = n - 1 /\ e <= n
    <2>1. Batches(q) /\ n = ckpt[q].commits + 1 /\ e <= n
        BY <1>0 DEF QueryInv, Batches, AppendBatch
    <2>2. ckpt[q].commits \in Nat
        BY EndsAre
    <2> QED BY <2>1, <2>2
<1>2. PICK lo \in Nat, hi \in Nat : /\ lo = EndOf(q, n - 1) /\ hi = EndOf(q, n) /\ lo <= hi
                                    /\ hi = Position(q) /\ hi <= Len(topic)
    <2>1. n \in 0 .. n /\ n - 1 \in 0 .. n /\ n \in 1 .. n
        BY <1>1
    <2>2. EndOf(q, n - 1) \in 0 .. MaxTopic /\ EndOf(q, n) \in 0 .. MaxTopic
        BY <1>0, <2>1, EndsAre
    <2>3. EndOf(q, n - 1) <= EndOf(q, n)
        BY <1>0, <1>1, <2>1 DEF Batches
    <2>4. Position(q) = EndOf(q, n) /\ Position(q) <= Len(topic)
        BY <1>0, EndsAre DEF AppendBatch
    <2> QED BY <2>2, <2>3, <2>4
<1>3. /\ topic' = topic /\ orphaned' = orphaned /\ notebook' = notebook /\ delay' = delay
      /\ query'[q] = "commit"
    BY DEF AppendBatch, kernelVars, TypeInv
<1>4. /\ ckpt'[q].ends = ckpt[q].ends /\ ckpt'[q].commits = ckpt[q].commits
      /\ q # "windows" => ckpt'[q] = ckpt[q]
    <2>1. ckpt[q] \in CkptType /\ ckpt \in [Queries -> CkptType]
        BY DEF TypeInv
    <2> QED BY <2>1 DEF AppendBatch, CkptType
<1>5. Planned(q)' = Planned(q) /\ Position(q)' = Position(q) /\ \A i : EndOf(q, i)' = EndOf(q, i)
    BY <1>4 DEF Planned, Position, EndOf
<1>6. /\ Batch(q) \in SUBSET Nat /\ \A p \in Batch(q) : lo <= p /\ p < hi
      /\ \A p \in Offsets : p \in Batch(q) <=> lo <= p /\ p < hi /\ Accepts(q, topic[p + 1])
    BY <1>0, <1>2, EndsAre DEF Batch, Offsets, Planned
<1>7. ckpt'[q] \in CkptType
    <2>1. CASE q = "windows"
        BY <1>0, <1>1, <1>2, <2>1, AppendState
    <2>2. CASE q # "windows"
        BY <1>4, <2>2 DEF TypeInv
    <2> QED BY <2>1, <2>2
<1>8. /\ table[q] \in [Offsets -> Nat]
      /\ e = n => table'[q] = table[q] /\ epoch'[q] = e
      /\ e < n => /\ epoch'[q] = n
                  /\ table'[q] = [o \in Offsets |-> IF o \in Output(q) THEN table[q][o] + 1
                                                    ELSE table[q][o]]
    <2>1. table \in [Queries -> [Offsets -> Nat]] /\ epoch \in [Queries -> Nat]
        BY DEF TypeInv
    <2>2. ASSUME e = n PROVE table' = table /\ epoch' = epoch
        <3>1. epoch[q] >= Len(ckpt[q].ends)
            BY <1>0, <2>2 DEF Planned
        <3>2. epoch[q] >= Len(ckpt[q].ends) => UNCHANGED <<table, epoch>>
            BY DEF AppendBatch
        <3> QED BY <3>1, <3>2
    <2>3. ASSUME e < n
          PROVE  /\ table' = [table EXCEPT ![q] =
                        [o \in Offsets |-> IF o \in Output(q) THEN @[o] + 1 ELSE @[o]]]
                 /\ epoch' = [epoch EXCEPT ![q] = n]
        BY <1>0, <2>3 DEF AppendBatch, Planned
    <2> QED BY <1>0, <2>1, <2>2, <2>3
<1>9. table'[q] \in [Offsets -> Nat] /\ epoch'[q] = n
    BY <1>1, <1>8
<1>10. Batches(q)'
    <2>1. q = "windows" => Len(ckpt'[q].states) = n
        BY <1>0, <1>1, <1>2, AppendState
    <2>2. q = "windows" => notebook = "str1"
        BY <1>1 DEF Batches, AppendBatch
    <2> QED BY <1>0, <1>1, <1>3, <1>4, <1>5, <1>9, <2>1, <2>2 DEF Batches
<1>11. ASSUME q \notin orphaned PROVE Landed(q)' /\ (q = "windows" => Counted(q)')
    <2>1. Landed(q) /\ e \in {n - 1, n}
        BY <1>0, <1>1, <1>11 DEF QueryInv, Landed
    <2>2. EndOf(q, epoch[q])' = hi /\ hi <= Len(topic')
        BY <1>2, <1>3, <1>5, <1>9
    <2>3. CASE q # "windows"
        <3>1. Appended(q)' = {o \in 0 .. hi - 1 : Accepts(q, topic[o + 1])}
            BY <1>3, <2>2, <2>3 DEF Appended
        <3>2. ASSUME NEW p \in Offsets PROVE table'[q][p] = IF p \in Appended(q)' THEN 1 ELSE 0
            <4>0. p \in Nat
                BY DEF Offsets
            <4>1. CASE e = n
                <5>1. Appended(q) = {o \in 0 .. hi - 1 : Accepts(q, topic[o + 1])}
                    BY <1>0, <1>2, <2>3, <4>1 DEF Appended
                <5> QED BY <1>8, <2>1, <3>1, <4>1, <5>1 DEF Landed
            <4>2. CASE e = n - 1
                <5>1. Appended(q) = {o \in 0 .. lo - 1 : Accepts(q, topic[o + 1])}
                    BY <1>0, <1>2, <2>3, <4>2 DEF Appended
                <5>2. Output(q) = Batch(q)
                    BY <2>3 DEF Output
                <5>3. table'[q][p] = IF p \in Batch(q) THEN table[q][p] + 1 ELSE table[q][p]
                    BY <1>8, <4>2, <5>2
                <5>4. p \in Appended(q)' <=> p \in Appended(q) \/ p \in Batch(q)
                    BY <1>2, <1>6, <3>1, <4>0, <5>1
                <5>5. ~(p \in Appended(q) /\ p \in Batch(q))
                    BY <1>2, <1>6, <5>1
                <5> QED BY <2>1, <5>3, <5>4, <5>5 DEF Landed
            <4> QED BY <2>1, <4>1, <4>2
        <3>3. Landed(q)'
            BY <1>0, <1>1, <1>4, <1>5, <1>9, <2>2, <3>2 DEF Landed, Offsets
        <3> QED BY <2>3, <3>3
    <2>4. CASE q = "windows"
        <3> DEFINE s  == StateAfter(q, n - 1)
                   B  == Batch(q)
        <3>1. /\ notebook = "str1" /\ Len(ckpt'[q].states) = n
              /\ StateAfter(q, n)' = Advance(s, B, topic, delay)
              /\ StateAfter(q, n - 1)' = s
            <4>1. n - 1 \in Int /\ n - 1 < n
                OBVIOUS
            <4> QED BY <1>0, <1>1, <1>2, <2>4, <4>1, AppendState
        <3>2. topic \in Seq(0 .. 8) /\ delay \in Nat
            BY <3>1, StreamRunsAssumption DEF TypeInv, RecordsOf
        <3>3. B = BatchOf(q, n) /\ BatchOf(q, epoch[q])' = B
            <4>1. B = BatchOf(q, n)
                BY <1>2, <1>6, <2>4 DEF BatchOf, Accepts, Batch, Offsets
            <4>2. BatchOf(q, epoch[q])' = BatchOf(q, n)
                BY <1>5, <1>9 DEF BatchOf, Offsets
            <4> QED BY <4>1, <4>2
        <3>4. QueryInv(q) /\ Counted(q)
            BY <1>11, <2>4 DEF QueryInv
        <3>5. s \in StateType
            <4>1. n - 1 \in Int
                OBVIOUS
            <4> QED BY <4>1, EndsAre
        <3>6. CASE e = n
            <4>1. Counts(s, lo, topic, delay) /\ StateAfter(q, n) = Advance(s, B, topic, delay)
                BY <1>0, <1>1, <1>2, <3>3, <3>4, <3>6 DEF Counted
            <4>2. StateAfter(q, epoch[q])' = StateAfter(q, epoch[q])
                BY <1>0, <1>9, <3>1, <3>6, <4>1
            <4>3. Appended(q)' = Appended(q)
                BY <1>0, <1>5, <1>8, <2>4, <3>6, <4>2 DEF Appended
            <4>4. \A p \in Offsets : table'[q][p] = IF p \in Appended(q)' THEN 1 ELSE 0
                BY <1>8, <2>1, <3>6, <4>3 DEF Landed
            <4>5. Landed(q)'
                BY <1>0, <1>1, <1>4, <1>5, <1>9, <2>2, <4>4 DEF Landed, Offsets
            <4>6. Counted(q)'
                <5>1. \A p \in Offsets : table'[q][p] > 0 => Closed(topic[p + 1], Watermark(s, delay))
                    BY <1>0, <1>8, <3>4, <3>6 DEF Counted
                <5>2. EndOf(q, epoch[q] - 1)' = lo /\ StateAfter(q, epoch[q] - 1)' = s
                    BY <1>2, <1>5, <1>9, <3>1
                <5>3. StateAfter(q, epoch[q])' = Advance(s, B, topic, delay)
                    BY <1>9, <3>1
                <5> HIDE DEF s, B
                <5> QED BY <1>3, <1>9, <3>1, <3>3, <4>1, <5>1, <5>2, <5>3
                        DEF Counted, Offsets
            <4> QED BY <4>5, <4>6
        <3>7. CASE e = n - 1
            <4> DEFINE wm   == Watermark(s, delay)
                       new  == Advance(s, B, topic, delay)
                       prev == StateAfter(q, e - 1)
            <4>1. /\ Counts(s, lo, topic, delay) /\ prev.frontier <= s.frontier
                BY <1>0, <1>2, <1>11, <2>4, <3>1, <3>4, <3>7, CountedGives
            <4>2. \A p \in Nat :
                      /\ p \in new.open <=> p \in s.open \cup B /\ ~Closed(topic[p + 1], wm)
                      /\ p \in new.late <=> p \in s.late \/ (p \in B /\ Closed(topic[p + 1], wm))
                <5> HIDE DEF s, B, new
                <5>1. B \in SUBSET Nat /\ \A p \in B : lo <= p /\ p < hi
                    BY <1>6 DEF B
                <5> QED BY <1>2, <3>2, <3>5, <4>1, <5>1, AdvanceCounts DEF new
            <4>3. prev \in StateType
                <5>1. e - 1 \in Int
                    OBVIOUS
                <5> QED BY <5>1, EndsAre
            <4>4. /\ \A p \in s.open \cup s.late : p \in Nat /\ p < lo
                  /\ s.open \cap s.late = {}
                BY <3>5, <4>1 DEF Counts, StateType
            <4>5. Output(q) = {o \in s.open : Closed(topic[o + 1], wm)}
                BY <1>0, <2>4 DEF Output, Emitted, Planned
            <4>6. /\ Appended(q) = 0 .. lo - 1 \ (s.open \cup s.late)
                  /\ Appended(q)' = 0 .. hi - 1 \ (new.open \cup new.late)
                BY <1>0, <1>2, <1>5, <1>9, <2>4, <3>1, <3>7 DEF Appended
            <4> HIDE DEF s, B, wm, new, prev
            <4>7. ASSUME NEW p \in Offsets
                  PROVE  /\ p \in Appended(q)' <=> p \in Appended(q) \/ p \in Output(q)
                         /\ ~(p \in Appended(q) /\ p \in Output(q))
                <5>1. p \in Nat
                    BY DEF Offsets
                <5>2. p \in B <=> lo <= p /\ p < hi
                    BY <1>6, <2>4 DEF B, Accepts
                <5> QED BY <1>2, <4>2, <4>4, <4>5, <4>6, <5>1, <5>2
            <4>8. \A p \in Offsets : /\ table'[q][p] = IF p \in Appended(q)' THEN 1 ELSE 0
                                     /\ table'[q][p] > 0 => table[q][p] > 0 \/ p \in Output(q)
                BY <1>8, <2>1, <3>7, <4>7 DEF Landed
            <4>9. Landed(q)'
                BY <1>0, <1>1, <1>4, <1>5, <1>9, <2>2, <4>8 DEF Landed, Offsets
            <4>10. ASSUME NEW p \in Offsets, table'[q][p] > 0
                   PROVE  Closed(topic[p + 1], wm)
                <5>1. CASE p \in Output(q)
                    BY <4>5, <5>1
                <5>2. CASE p \notin Output(q)
                    <6>1. table[q][p] > 0
                        BY <4>8, <4>10, <5>2
                    <6>2. Closed(topic[p + 1], Watermark(prev, delay))
                        BY <1>0, <3>4, <6>1 DEF Counted, prev
                    <6>3. p \in 0 .. lo - 1
                        BY <2>1, <4>6, <6>1 DEF Landed
                    <6>4. topic[p + 1] \in 0 .. 8
                        BY <1>2, <3>2, <6>3
                    <6>5. WindowEnd(topic[p + 1]) \in Nat
                        BY <6>4, WindowEndLater
                    <6>6. prev.frontier \in Nat /\ s.frontier \in Nat /\ delay * Minute \in Nat
                        BY <3>2, <3>5, <4>3 DEF StateType, Minute
                    <6> QED BY <4>1, <6>2, <6>5, <6>6 DEF Closed, Watermark, wm
                <5> QED BY <5>1, <5>2
            <4>11. Counted(q)'
                <5>1. /\ EndOf(q, epoch[q] - 1)' = lo /\ StateAfter(q, epoch[q] - 1)' = s
                      /\ StateAfter(q, epoch[q])' = new
                    BY <1>2, <1>5, <1>9, <3>1 DEF s, new, B
                <5> QED BY <1>3, <1>9, <3>1, <3>3, <4>1, <4>10, <5>1
                        DEF Counted, Offsets, new, wm
            <4> QED BY <4>9, <4>11
        <3> QED BY <2>1, <3>6, <3>7
    <2> QED BY <2>3, <2>4
<1> QED BY <1>5, <1>7, <1>9, <1>10, <1>11, <1>3 DEF QueryInv

(* A batch is committed when it is in the table.                         *)
LEMMA CommitQuery ==
    ASSUME TypeInv, NEW q \in Queries, QueryInv(q), CommitBatch(q)
    PROVE  /\ QueryInv(q)' /\ ckpt'[q] \in CkptType
           /\ Position(q)' = Position(q) /\ Planned(q)' = Planned(q)
<1>0. PICK n \in Nat, e \in Nat : n = Planned(q) /\ e = epoch[q]
    BY EndsAre
<1>1. Batches(q) /\ ckpt[q] \in CkptType /\ ckpt \in [Queries -> CkptType]
    BY DEF QueryInv, TypeInv
<1>2. /\ topic' = topic /\ orphaned' = orphaned /\ notebook' = notebook /\ delay' = delay
      /\ table' = table /\ epoch' = epoch /\ query'[q] = "plan" /\ query[q] = "commit"
    BY DEF CommitBatch, kernelVars, TypeInv
<1>3. /\ ckpt'[q].ends = ckpt[q].ends /\ ckpt'[q].commits = n
      /\ ckpt'[q].states = ckpt[q].states /\ ckpt'[q] \in CkptType
    BY <1>0, <1>1 DEF CommitBatch, CkptType, Planned
<1>4. /\ Planned(q)' = n /\ Position(q)' = Position(q)
      /\ \A i : EndOf(q, i)' = EndOf(q, i) /\ StateAfter(q, i)' = StateAfter(q, i)
    BY <1>0, <1>3 DEF Planned, Position, EndOf, StateAfter
<1>5. Batches(q)'
    <2>1. \A i \in 1 .. n : EndOf(q, i - 1)' <= EndOf(q, i)'
        BY <1>0, <1>1, <1>4 DEF Batches
    <2> QED BY <1>0, <1>1, <1>2, <1>3, <1>4, <2>1 DEF Batches
<1>6. ASSUME q \notin orphaned PROVE Landed(q)' /\ (q = "windows" => Counted(q)')
    <2>1. Landed(q) /\ e = n
        BY <1>0, <1>2, <1>6 DEF QueryInv, Landed
    <2>2. Appended(q)' = Appended(q)
        <3>1. /\ EndOf(q, epoch[q])' = EndOf(q, e) /\ StateAfter(q, epoch[q])' = StateAfter(q, e)
              /\ e = epoch[q] /\ topic' = topic
            BY <1>0, <1>2, <1>4
        <3> QED BY <3>1 DEF Appended
    <2>3. Landed(q)'
        BY <1>0, <1>2, <1>3, <1>4, <2>1, <2>2 DEF Landed, Offsets
    <2>4. ASSUME q = "windows" PROVE Counted(q)'
        <3>1. Counted(q)
            BY <1>6, <2>4 DEF QueryInv
        <3>2. BatchOf(q, epoch[q])' = BatchOf(q, epoch[q])
            BY <1>2, <1>4 DEF BatchOf, Offsets
        <3> QED BY <1>2, <1>3, <1>4, <3>1, <3>2 DEF Counted, Offsets
    <2> QED BY <2>3, <2>4
<1> QED BY <1>0, <1>2, <1>3, <1>4, <1>5, <1>6 DEF QueryInv

(* Whatever a query does, it does to itself alone.                         *)
StepOf(q) == PlanBatch(q) \/ AppendBatch(q) \/ CommitBatch(q) \/ Drained(q) \/ DataLoss(q)

LEMMA StepFrame ==
    ASSUME TypeInv, NEW q \in Queries, QueryInv(q), StepOf(q)
    PROVE  /\ UNCHANGED <<kernelVars, topic, target, orphaned, boundVars>>
           /\ \A r \in Queries \ {q} : /\ ckpt'[r] = ckpt[r] /\ table'[r] = table[r]
                                       /\ epoch'[r] = epoch[r] /\ query'[r] = query[r]
           /\ ckpt' \in [Queries -> CkptType] /\ table' \in [Queries -> [Offsets -> Nat]]
           /\ epoch' \in [Queries -> Nat] /\ query' \in [Queries -> Steps]
           /\ QueryInv(q)'
<1>1. /\ ckpt \in [Queries -> CkptType] /\ table \in [Queries -> [Offsets -> Nat]]
      /\ epoch \in [Queries -> Nat] /\ query \in [Queries -> Steps]
    BY DEF TypeInv
<1>2. CASE PlanBatch(q)
    <2>1. QueryInv(q)' /\ ckpt'[q] \in CkptType
        BY <1>2, PlanQuery
    <2>2. /\ query' = [query EXCEPT ![q] = "append"] /\ table' = table /\ epoch' = epoch
          /\ UNCHANGED <<kernelVars, topic, target, orphaned, boundVars>>
          /\ DOMAIN ckpt' = Queries /\ \A r \in Queries \ {q} : ckpt'[r] = ckpt[r]
          /\ ckpt' = [r \in Queries |-> ckpt'[r]]
        BY <1>1, <1>2 DEF PlanBatch
    <2>3. query' \in [Queries -> Steps] /\ \A r \in Queries \ {q} : query'[r] = query[r]
        BY <1>1, <2>2 DEF Steps
    <2>4. \A r \in Queries : ckpt'[r] \in CkptType
        BY <1>1, <2>1, <2>2
    <2> QED BY <1>1, <2>1, <2>2, <2>3, <2>4
<1>3. CASE AppendBatch(q)
    <2>1. /\ QueryInv(q)' /\ ckpt'[q] \in CkptType
          /\ table'[q] \in [Offsets -> Nat] /\ epoch'[q] \in Nat
        BY <1>3, AppendQuery
    <2>2. /\ query' = [query EXCEPT ![q] = "commit"]
          /\ UNCHANGED <<kernelVars, topic, target, orphaned, boundVars>>
        BY <1>3 DEF AppendBatch
    <2>3. /\ ckpt' = [r \in Queries |-> ckpt'[r]] /\ \A r \in Queries \ {q} : ckpt'[r] = ckpt[r]
        <3>1. CASE q = "windows"
            BY <1>1, <1>3, <3>1 DEF AppendBatch
        <3>2. CASE q # "windows"
            BY <1>1, <1>3, <3>2 DEF AppendBatch
        <3> QED BY <3>1, <3>2
    <2>4. /\ table' = [r \in Queries |-> table'[r]] /\ epoch' = [r \in Queries |-> epoch'[r]]
          /\ \A r \in Queries \ {q} : table'[r] = table[r] /\ epoch'[r] = epoch[r]
        <3>1. CASE epoch[q] >= Len(ckpt[q].ends)
            <4>1. table' = table /\ epoch' = epoch
                BY <1>3, <3>1 DEF AppendBatch
            <4> QED BY <1>1, <4>1
        <3>2. CASE ~(epoch[q] >= Len(ckpt[q].ends))
            BY <1>1, <1>3, <3>2 DEF AppendBatch
        <3> QED BY <3>1, <3>2
    <2>5. query' \in [Queries -> Steps] /\ \A r \in Queries \ {q} : query'[r] = query[r]
        BY <1>1, <2>2 DEF Steps
    <2>6. \A r \in Queries : /\ ckpt'[r] \in CkptType /\ table'[r] \in [Offsets -> Nat]
                             /\ epoch'[r] \in Nat
        BY <1>1, <2>1, <2>3, <2>4
    <2>7. ckpt' \in [Queries -> CkptType]
        BY <2>3, <2>6
    <2>8. table' \in [Queries -> [Offsets -> Nat]] /\ epoch' \in [Queries -> Nat]
        BY <2>4, <2>6
    <2> QED BY <2>1, <2>2, <2>3, <2>4, <2>5, <2>7, <2>8
<1>4. CASE CommitBatch(q)
    <2>1. QueryInv(q)' /\ ckpt'[q] \in CkptType
        BY <1>4, CommitQuery
    <2>2. /\ query' = [query EXCEPT ![q] = "plan"] /\ table' = table /\ epoch' = epoch
          /\ UNCHANGED <<kernelVars, topic, target, orphaned, boundVars>>
          /\ \A r \in Queries \ {q} : ckpt'[r] = ckpt[r]
          /\ ckpt' = [r \in Queries |-> ckpt'[r]]
        BY <1>1, <1>4 DEF CommitBatch
    <2>3. query' \in [Queries -> Steps] /\ \A r \in Queries \ {q} : query'[r] = query[r]
        BY <1>1, <2>2 DEF Steps
    <2>4. \A r \in Queries : ckpt'[r] \in CkptType
        BY <1>1, <2>1, <2>2
    <2> QED BY <1>1, <2>1, <2>2, <2>3, <2>4
<1>5. CASE Drained(q) \/ DataLoss(q)
    <2>1. PICK step \in {"done", "failed"} :
              /\ query' = [query EXCEPT ![q] = step]
              /\ query[q] \in {"plan", "append"} /\ (step = "done" => query[q] = "plan")
        BY <1>5 DEF Drained, DataLoss
    <2>2. /\ UNCHANGED <<kernelVars, topic, target, orphaned, boundVars>>
          /\ ckpt' = ckpt /\ table' = table /\ epoch' = epoch
        BY <1>5 DEF Drained, DataLoss
    <2>3. query' \in [Queries -> Steps] /\ query'[q] = step
          /\ \A r \in Queries \ {q} : query'[r] = query[r]
        BY <1>1, <2>1 DEF Steps
    <2>4. notebook' = notebook /\ delay' = delay /\ topic' = topic /\ orphaned' = orphaned
        BY <2>2 DEF kernelVars
    <2>5. \/ query'[q] \in {query[q], "idle"}
          \/ query[q] # "idle" /\ query'[q] = "failed"
          \/ query[q] = "plan" /\ query'[q] = "done"
        BY <2>1, <2>3
    <2>6. QueryInv(q)'
        BY <2>2, <2>4, <2>5, Kept
    <2> QED BY <1>1, <2>2, <2>3, <2>6
<1> QED BY <1>2, <1>3, <1>4, <1>5 DEF StepOf

-----------------------------------------------------------------------------
(* The topic's length.                                                     *)

LEMMA TheNotebook ==
    ASSUME TypeInv
    PROVE  /\ notebook \in Notebooks /\ notebook \in AllNotebooks
           /\ Len(topic) \in Nat /\ cell \in Nat /\ 1 <= cell /\ cell <= Len(Script)
           /\ crashes \in Nat /\ Len(Script) \in Nat
           /\ QueriesOf(notebook) \subseteq Queries
           /\ ToSet(Script[cell].queries) \subseteq QueriesOf(notebook)
           /\ (notebook = "kaf6" => Script = Kaf6) /\ (notebook = "str1" => Script = Str1)
           /\ (notebook = "str2" => Script = Str2) /\ (notebook = "str3" => Script = Str3)
<1>1. /\ notebook \in Notebooks /\ Len(topic) \in Nat /\ cell \in 1 .. Len(Script)
      /\ crashes \in Nat
    BY StreamRunsAssumption DEF TypeInv
<1>2. /\ notebook \in AllNotebooks /\ Len(Cells[notebook]) \in Nat
      /\ QueriesOf(notebook) \subseteq Queries
      /\ \A i \in 1 .. Len(Cells[notebook]) :
             ToSet(Cells[notebook][i].queries) \subseteq QueriesOf(notebook)
    BY <1>1, AwaitedQueries
<1>3. /\ (notebook = "kaf6" => Script = Kaf6) /\ (notebook = "str1" => Script = Str1)
      /\ (notebook = "str2" => Script = Str2) /\ (notebook = "str3" => Script = Str3)
    BY CellsAre DEF Script
<1>4. Script = Cells[notebook]
    BY DEF Script
<1>5. ToSet(Script[cell].queries) \subseteq QueriesOf(notebook)
    BY <1>1, <1>2, <1>4
<1>6. cell \in Nat /\ 1 <= cell /\ cell <= Len(Script) /\ Len(Script) \in Nat
    BY <1>1, <1>2, <1>4
<1> QED BY <1>1, <1>2, <1>3, <1>5, <1>6

(* The cells that can be run.                                            *)
LEMMA CellsOfNotebook ==
    ASSUME TypeInv, cell < Len(Script)
    PROVE  /\ notebook = "kaf6" => Script = Kaf6 /\ (cell = 1 \/ cell = 2 \/ cell = 3)
           /\ notebook = "str1" => Script = Str1 /\ (cell = 1 \/ cell = 2 \/ cell = 3)
           /\ notebook = "str2" => /\ Script = Str2
                                   /\ cell = 1 \/ cell = 2 \/ cell = 3 \/ cell = 4 \/ cell = 5
           /\ notebook = "str3" => Script = Str3 /\ (cell = 1 \/ cell = 2 \/ cell = 3 \/ cell = 4)
<1>1. Len(Kaf6) = 4 /\ Len(Str1) = 4 /\ Len(Str2) = 6 /\ Len(Str3) = 5
    BY Kaf6Does, Str1Does, Str2Does, Str3Does
<1>2. cell \in Nat /\ 1 <= cell
    BY TheNotebook
<1>3. CASE notebook = "kaf6"
    <2>1. Script = Kaf6
        BY <1>3, TheNotebook
    <2>2. Len(Script) = 4
        BY <1>1, <2>1
    <2>3. cell = 1 \/ cell = 2 \/ cell = 3
        BY <1>2, <2>2
    <2> QED BY <1>3, <2>1, <2>3
<1>4. CASE notebook = "str1"
    <2>1. Script = Str1
        BY <1>4, TheNotebook
    <2>2. Len(Script) = 4
        BY <1>1, <2>1
    <2>3. cell = 1 \/ cell = 2 \/ cell = 3
        BY <1>2, <2>2
    <2> QED BY <1>4, <2>1, <2>3
<1>5. CASE notebook = "str2"
    <2>1. Script = Str2
        BY <1>5, TheNotebook
    <2>2. Len(Script) = 6
        BY <1>1, <2>1
    <2>3. cell = 1 \/ cell = 2 \/ cell = 3 \/ cell = 4 \/ cell = 5
        BY <1>2, <2>2
    <2> QED BY <1>5, <2>1, <2>3
<1>6. CASE notebook = "str3"
    <2>1. Script = Str3
        BY <1>6, TheNotebook
    <2>2. Len(Script) = 5
        BY <1>1, <2>1
    <2>3. cell = 1 \/ cell = 2 \/ cell = 3 \/ cell = 4
        BY <1>2, <2>2
    <2> QED BY <1>6, <2>1, <2>3
<1> QED BY <1>3, <1>4, <1>5, <1>6

(* What a cell that is run does to the topic, and where the kernel is then.*)
LEMMA RunCellDoes ==
    ASSUME TypeInv, RunCell, NEW r \in BOOLEAN, NEW k \in Nat, NEW cl, NEW aw,
           Does(Script[cell], r, k, cl, aw)
    PROVE  /\ notebook' = notebook /\ crashes' = crashes /\ Script' = Script
           /\ topic' \in Seq(RecordsOf(notebook))
           /\ r => Len(topic') = k
           /\ ~r => Len(topic') = Len(topic) + k /\ (k = 0 => topic' = topic)
           /\ Len(topic') <= MaxTopic
           /\ ~r /\ ~repeated' => ~repeated
           /\ ~r /\ ~repeated' /\ k # 0 => status = "ready"
           /\ ToSet(aw) = {} => cell' = cell + 1 /\ status' = "ready"
           /\ ToSet(aw) # {} => cell' = cell /\ status' = "running"
           /\ cell < Len(Script) /\ (status = "ready" \/ status = "failed")
<1> DEFINE c == Script[cell]
<1>1. c.records \in Seq(RecordsOf(notebook))
    <2>1. /\ notebook \in AllNotebooks /\ cell \in Nat /\ 1 <= cell
          /\ cell < Len(Cells[notebook]) /\ c = Cells[notebook][cell]
        BY TheNotebook DEF RunCell, Script
    <2>2. CellOK(c, notebook)
        BY <2>1, CellFacts
    <2> QED BY <2>2 DEF CellOK
<1>2. c.recreate = r /\ Len(c.records) = k /\ c.queries = aw
    BY DEF Does
<1>3. /\ notebook' = notebook /\ crashes' = crashes /\ Script' = Script
      /\ topic' = IF c.recreate THEN c.records ELSE topic \o c.records
      /\ ToSet(c.queries) = {} => cell' = cell + 1 /\ status' = "ready"
      /\ ToSet(c.queries) # {} => cell' = cell /\ status' = "running"
      /\ cell < Len(Script) /\ (status = "ready" \/ status = "failed")
      /\ Len(topic') <= MaxTopic
      /\ ~c.recreate /\ ~repeated' => ~repeated /\ (status = "ready" \/ c.records = <<>>)
    BY DEF RunCell, boundVars, Script
<1>4. topic \in Seq(RecordsOf(notebook))
    BY DEF TypeInv
<1> HIDE DEF c
<1>5. /\ r => topic' = c.records
      /\ ~r => topic' = topic \o c.records
    BY <1>2, <1>3
<1>6. ASSUME ~r
      PROVE  /\ Len(topic') = Len(topic) + k /\ (k = 0 => topic' = topic)
             /\ topic' \in Seq(RecordsOf(notebook))
    <2>1. topic' = topic \o c.records
        BY <1>5, <1>6
    <2>2. PICK z \in Seq(RecordsOf(notebook)) : z = c.records /\ Len(z) = k
        BY <1>1, <1>2
    <2>3. /\ Len(topic \o z) = Len(topic) + k /\ (k = 0 => topic \o z = topic)
          /\ topic \o z \in Seq(RecordsOf(notebook))
        BY <1>4, <2>2
    <2> QED BY <2>1, <2>2, <2>3
<1>7. c.records = <<>> => k = 0
    BY <1>2
<1> QED BY <1>1, <1>2, <1>3, <1>5, <1>6, <1>7

(* A cell that is run leaves the topic as long as the next one expects.  *)
LEMMA LengthRunCell ==
    ASSUME TypeInv, LengthInv, RunCell
    PROVE  LengthInv'
<1>1. Len(topic) \in Nat /\ cell < Len(Script) /\ notebook \in AllNotebooks
    BY TheNotebook DEF RunCell
<1>2. Lengths
    BY DEF LengthInv
<1>3. Running'
    <2>1. /\ Script' = Script
          /\ status' = "running" => ToSet(Script[cell].queries) # {} /\ cell' = cell
        BY DEF RunCell, Script
    <2> QED BY <1>1, <2>1 DEF Running
<1>4. CASE notebook = "kaf6"
    <2>1. Script = Kaf6 /\ (cell = 1 \/ cell = 2 \/ cell = 3)
        BY <1>1, <1>4, CellsOfNotebook
    <2>2. CASE cell = 1
        <3>1. Does(Script[cell], TRUE, 0, {"main", "dlq"}, <<>>)
            BY <2>1, <2>2, Kaf6Does
        <3>2. ToSet(<<>>) = {}
            BY AwaitedAre
        <3>3. /\ notebook' = notebook /\ Len(topic') <= MaxTopic
              /\ Len(topic') = 0
              /\ cell' = cell + 1 /\ status' = "ready"
            BY <3>1, <3>2, RunCellDoes
        <3> QED BY <1>1, <1>2, <1>3, <1>4, <2>2, <3>3 DEF LengthInv, Lengths
    <2>3. CASE cell = 2
        <3>1. Does(Script[cell], FALSE, 2, {}, <<>>)
            BY <2>1, <2>3, Kaf6Does
        <3>2. ToSet(<<>>) = {}
            BY AwaitedAre
        <3>3. /\ notebook' = notebook /\ Len(topic') <= MaxTopic
              /\ Len(topic') = Len(topic) + 2
              /\ cell' = cell + 1 /\ status' = "ready"
            BY <3>1, <3>2, RunCellDoes
        <3>4. ~repeated' => ~repeated /\ status = "ready"
            <4>1. 2 # 0
                OBVIOUS
            <4> QED BY <3>1, <4>1, RunCellDoes
        <3> QED BY <1>1, <1>2, <1>3, <1>4, <2>3, <3>3, <3>4 DEF LengthInv, Lengths
    <2>4. CASE cell = 3
        <3>1. Does(Script[cell], FALSE, 0, {}, <<"main", "dlq">>)
            BY <2>1, <2>4, Kaf6Does
        <3>2. ToSet(<<"main", "dlq">>) # {}
            BY AwaitedAre
        <3>3. /\ notebook' = notebook /\ Len(topic') <= MaxTopic
              /\ topic' = topic /\ (~repeated' => ~repeated)
              /\ cell' = cell /\ status' = "running"
            BY <3>1, <3>2, RunCellDoes
        <3> QED BY <1>1, <1>2, <1>3, <1>4, <2>4, <3>3 DEF LengthInv, Lengths
    <2> QED BY <2>1, <2>2, <2>3, <2>4
<1>5. CASE notebook = "str1"
    <2>1. Script = Str1 /\ (cell = 1 \/ cell = 2 \/ cell = 3)
        BY <1>1, <1>5, CellsOfNotebook
    <2>2. CASE cell = 1
        <3>1. Does(Script[cell], TRUE, 2, {"windows"}, <<>>)
            BY <2>1, <2>2, Str1Does
        <3>2. ToSet(<<>>) = {}
            BY AwaitedAre
        <3>3. /\ notebook' = notebook /\ Len(topic') <= MaxTopic
              /\ Len(topic') = 2
              /\ cell' = cell + 1 /\ status' = "ready"
            BY <3>1, <3>2, RunCellDoes
        <3> QED BY <1>1, <1>2, <1>3, <1>5, <2>2, <3>3 DEF LengthInv, Lengths
    <2>3. CASE cell = 2
        <3>1. Does(Script[cell], FALSE, 0, {}, <<"windows">>)
            BY <2>1, <2>3, Str1Does
        <3>2. ToSet(<<"windows">>) # {}
            BY AwaitedAre
        <3>3. /\ notebook' = notebook /\ Len(topic') <= MaxTopic
              /\ topic' = topic /\ (~repeated' => ~repeated)
              /\ cell' = cell /\ status' = "running"
            BY <3>1, <3>2, RunCellDoes
        <3> QED BY <1>1, <1>2, <1>3, <1>5, <2>3, <3>3 DEF LengthInv, Lengths
    <2>4. CASE cell = 3
        <3>1. Does(Script[cell], FALSE, 1, {}, <<"windows">>)
            BY <2>1, <2>4, Str1Does
        <3>2. ToSet(<<"windows">>) # {}
            BY AwaitedAre
        <3>3. /\ notebook' = notebook /\ Len(topic') <= MaxTopic
              /\ Len(topic') = Len(topic) + 1
              /\ cell' = cell /\ status' = "running"
            BY <3>1, <3>2, RunCellDoes
        <3>4. ~repeated' => ~repeated /\ status = "ready"
            <4>1. 1 # 0
                OBVIOUS
            <4> QED BY <3>1, <4>1, RunCellDoes
        <3>5. ~repeated' => Len(topic') = 3
            <4>1. ~repeated /\ status = "ready" => Len(topic) = 2
                BY <1>2, <1>5, <2>4 DEF Lengths
            <4>2. ASSUME ~repeated'
                  PROVE  Len(topic') = 3
                <5>1. Len(topic) = 2
                    BY <3>4, <4>1, <4>2
                <5> QED BY <3>3, <5>1
            <4> QED BY <4>2
        <3> QED BY <1>3, <1>5, <2>4, <3>3, <3>5 DEF LengthInv, Lengths
    <2> QED BY <2>1, <2>2, <2>3, <2>4
<1>6. CASE notebook = "str2"
    <2>1. Script = Str2 /\ (cell = 1 \/ cell = 2 \/ cell = 3 \/ cell = 4 \/ cell = 5)
        BY <1>1, <1>6, CellsOfNotebook
    <2>2. CASE cell = 1
        <3>1. Does(Script[cell], TRUE, 0, {}, <<>>)
            BY <2>1, <2>2, Str2Does
        <3>2. ToSet(<<>>) = {}
            BY AwaitedAre
        <3>3. /\ notebook' = notebook /\ Len(topic') <= MaxTopic
              /\ Len(topic') = 0
              /\ cell' = cell + 1 /\ status' = "ready"
            BY <3>1, <3>2, RunCellDoes
        <3> QED BY <1>1, <1>2, <1>3, <1>6, <2>2, <3>3 DEF LengthInv, Lengths
    <2>3. CASE cell = 2
        <3>1. Does(Script[cell], FALSE, 2, {}, <<"sink">>)
            BY <2>1, <2>3, Str2Does
        <3>2. ToSet(<<"sink">>) # {}
            BY AwaitedAre
        <3>3. /\ notebook' = notebook /\ Len(topic') <= MaxTopic
              /\ Len(topic') = Len(topic) + 2
              /\ cell' = cell /\ status' = "running"
            BY <3>1, <3>2, RunCellDoes
        <3>4. ~repeated' => ~repeated /\ status = "ready"
            <4>1. 2 # 0
                OBVIOUS
            <4> QED BY <3>1, <4>1, RunCellDoes
        <3> QED BY <1>1, <1>2, <1>3, <1>6, <2>3, <3>3, <3>4 DEF LengthInv, Lengths
    <2>4. CASE cell = 3
        <3>1. Does(Script[cell], FALSE, 1, {}, <<"sink">>)
            BY <2>1, <2>4, Str2Does
        <3>2. ToSet(<<"sink">>) # {}
            BY AwaitedAre
        <3>3. /\ notebook' = notebook /\ Len(topic') <= MaxTopic
              /\ Len(topic') = Len(topic) + 1
              /\ cell' = cell /\ status' = "running"
            BY <3>1, <3>2, RunCellDoes
        <3>4. ~repeated' => ~repeated /\ status = "ready"
            <4>1. 1 # 0
                OBVIOUS
            <4> QED BY <3>1, <4>1, RunCellDoes
        <3>5. ~repeated' => Len(topic') = 3
            <4>1. ~repeated /\ status = "ready" => Len(topic) = 2
                BY <1>2, <1>6, <2>4 DEF Lengths
            <4>2. ASSUME ~repeated'
                  PROVE  Len(topic') = 3
                <5>1. Len(topic) = 2
                    BY <3>4, <4>1, <4>2
                <5> QED BY <3>3, <5>1
            <4> QED BY <4>2
        <3> QED BY <1>3, <1>6, <2>4, <3>3, <3>5 DEF LengthInv, Lengths
    <2>5. CASE cell = 4 \/ cell = 5
        <3>1. PICK q \in {"sink", "scratch"} : Does(Script[cell], FALSE, 0, {}, <<q>>)
            BY <2>1, <2>5, Str2Does
        <3>2. ToSet(<<q>>) # {}
            BY QueriesOfCells
        <3>3. /\ notebook' = "str2" /\ topic' = topic /\ cell' = cell
              /\ Len(topic') <= MaxTopic /\ (~repeated' => ~repeated)
            BY <1>6, <3>1, <3>2, RunCellDoes
        <3> QED BY <1>2, <1>3, <1>6, <2>5, <3>3 DEF LengthInv, Lengths
    <2> QED BY <2>1, <2>2, <2>3, <2>4, <2>5
<1>7. CASE notebook = "str3"
    <2>1. Script = Str3 /\ (cell = 1 \/ cell = 2 \/ cell = 3 \/ cell = 4)
        BY <1>1, <1>7, CellsOfNotebook
    <2>2. CASE cell = 1
        <3>1. Does(Script[cell], TRUE, 0, {}, <<>>)
            BY <2>1, <2>2, Str3Does
        <3>2. ToSet(<<>>) = {}
            BY AwaitedAre
        <3>3. /\ notebook' = notebook /\ Len(topic') <= MaxTopic
              /\ Len(topic') = 0
              /\ cell' = cell + 1 /\ status' = "ready"
            BY <3>1, <3>2, RunCellDoes
        <3> QED BY <1>1, <1>2, <1>3, <1>7, <2>2, <3>3 DEF LengthInv, Lengths
    <2>3. CASE cell = 2
        <3>1. Does(Script[cell], FALSE, 2, {}, <<>>)
            BY <2>1, <2>3, Str3Does
        <3>2. ToSet(<<>>) = {}
            BY AwaitedAre
        <3>3. /\ notebook' = notebook /\ Len(topic') <= MaxTopic
              /\ Len(topic') = Len(topic) + 2
              /\ cell' = cell + 1 /\ status' = "ready"
            BY <3>1, <3>2, RunCellDoes
        <3>4. ~repeated' => ~repeated /\ status = "ready"
            <4>1. 2 # 0
                OBVIOUS
            <4> QED BY <3>1, <4>1, RunCellDoes
        <3> QED BY <1>1, <1>2, <1>3, <1>7, <2>3, <3>3, <3>4 DEF LengthInv, Lengths
    <2>4. CASE cell = 3 \/ cell = 4
        <3>1. PICK q \in {"big", "small"} : Does(Script[cell], FALSE, 0, {q}, <<q>>)
            BY <2>1, <2>4, Str3Does
        <3>2. ToSet(<<q>>) # {}
            BY QueriesOfCells
        <3>3. /\ notebook' = "str3" /\ topic' = topic /\ cell' = cell
              /\ Len(topic') <= MaxTopic /\ (~repeated' => ~repeated)
            BY <1>7, <3>1, <3>2, RunCellDoes
        <3> QED BY <1>2, <1>3, <1>7, <2>4, <3>3 DEF LengthInv, Lengths
    <2> QED BY <2>1, <2>2, <2>3, <2>4
<1> QED BY <1>1, <1>4, <1>5, <1>6, <1>7 DEF AllNotebooks

(* The cells that may be seen running, and the queries they await.         *)
LEMMA RunningCells ==
    ASSUME TypeInv, Running, status = "running"
    PROVE  /\ notebook = "kaf6" => cell = 3 /\ Script[cell].queries = <<"main", "dlq">>
           /\ notebook = "str1" => (cell = 2 \/ cell = 3) /\ Script[cell].queries = <<"windows">>
           /\ notebook = "str2" => \/ cell = 2 \/ cell = 3 \/ cell = 4
                                   \/ cell = 5 /\ Script[cell].queries = <<"scratch">>
           /\ notebook = "str2" /\ cell = 4 => Script[cell].queries = <<"sink">>
           /\ notebook = "str3" => \/ cell = 3 /\ Script[cell].queries = <<"big">>
                                   \/ cell = 4 /\ Script[cell].queries = <<"small">>
<1>1. cell < Len(Script) /\ ToSet(Script[cell].queries) # {} /\ ToSet(<<>>) = {}
    BY AwaitedAre DEF Running
<1>2. CASE notebook = "kaf6"
    <2>1. Script = Kaf6 /\ (cell = 1 \/ cell = 2 \/ cell = 3)
        BY <1>1, <1>2, CellsOfNotebook
    <2>2. Kaf6[1].queries = <<>> /\ Kaf6[2].queries = <<>> /\ Kaf6[3].queries = <<"main", "dlq">>
        BY Kaf6Does DEF Does
    <2> QED BY <1>1, <1>2, <2>1, <2>2
<1>3. CASE notebook = "str1"
    <2>1. Script = Str1 /\ (cell = 1 \/ cell = 2 \/ cell = 3)
        BY <1>1, <1>3, CellsOfNotebook
    <2>2. /\ Str1[1].queries = <<>>
          /\ Str1[2].queries = <<"windows">> /\ Str1[3].queries = <<"windows">>
        BY Str1Does DEF Does
    <2> QED BY <1>1, <1>3, <2>1, <2>2
<1>4. CASE notebook = "str2"
    <2>1. Script = Str2 /\ (cell = 1 \/ cell = 2 \/ cell = 3 \/ cell = 4 \/ cell = 5)
        BY <1>1, <1>4, CellsOfNotebook
    <2>2. /\ Str2[1].queries = <<>>
          /\ Str2[4].queries = <<"sink">> /\ Str2[5].queries = <<"scratch">>
        BY Str2Does DEF Does
    <2> QED BY <1>1, <1>4, <2>1, <2>2
<1>5. CASE notebook = "str3"
    <2>1. Script = Str3 /\ (cell = 1 \/ cell = 2 \/ cell = 3 \/ cell = 4)
        BY <1>1, <1>5, CellsOfNotebook
    <2>2. /\ Str3[1].queries = <<>> /\ Str3[2].queries = <<>>
          /\ Str3[3].queries = <<"big">> /\ Str3[4].queries = <<"small">>
        BY Str3Does DEF Does
    <2> QED BY <1>1, <1>5, <2>1, <2>2
<1> QED BY <1>2, <1>3, <1>4, <1>5

(* What awaiting the queries one after the other returns on.               *)
LEMMA AwaitDoes ==
    ASSUME TypeInv, Await
    PROVE  /\ status = "running" /\ Script' = Script
           /\ UNCHANGED <<notebook, cwd, delay, repeated, topic, queryVars, orphaned, boundVars>>
           /\ \/ /\ \A q \in ToSet(Script[cell].queries) : query[q] = "done"
                 /\ cell' = cell + 1 /\ status' = "ready"
              \/ /\ \E q \in ToSet(Script[cell].queries) : query[q] = "failed"
                 /\ cell' = cell /\ status' = "failed"
<1> DEFINE aw == Script[cell].queries
<1>1. ToSet(aw) = {aw[i] : i \in DOMAIN aw}
    BY DEF ToSet
<1>2. /\ status = "running"
      /\ UNCHANGED <<notebook, cwd, delay, repeated, topic, queryVars, orphaned, boundVars>>
      /\ \/ /\ \A i \in DOMAIN aw : query[aw[i]] = "done"
            /\ cell' = cell + 1 /\ status' = "ready"
         \/ /\ \E i \in DOMAIN aw : query[aw[i]] = "failed"
            /\ cell' = cell /\ status' = "failed"
    BY DEF Await
<1>3. Script' = Script
    BY <1>2 DEF Script
<1> HIDE DEF aw
<1>4. \/ /\ \A q \in ToSet(aw) : query[q] = "done"
         /\ cell' = cell + 1 /\ status' = "ready"
      \/ /\ \E q \in ToSet(aw) : query[q] = "failed"
         /\ cell' = cell /\ status' = "failed"
    BY <1>1, <1>2
<1> QED BY <1>2, <1>3, <1>4 DEF aw

(* So does the cell whose queries were awaited.                          *)
LEMMA LengthAwait ==
    ASSUME TypeInv, LengthInv, Await
    PROVE  LengthInv'
<1>1. /\ status = "running" /\ notebook' = notebook /\ repeated' = repeated /\ topic' = topic
      /\ Script' = Script
    BY AwaitDoes
<1>2. Lengths /\ Running /\ cell \in Nat
    BY TheNotebook DEF LengthInv
<1>3. CASE cell' = cell + 1 /\ status' = "ready"
    <2>1. /\ notebook = "kaf6" => cell = 3
          /\ notebook = "str1" => cell = 2 \/ cell = 3
          /\ notebook = "str2" => cell = 2 \/ cell = 3 \/ cell = 4 \/ cell = 5
          /\ notebook = "str3" => cell = 3 \/ cell = 4
        BY <1>1, <1>2, RunningCells
    <2>2. Lengths'
        BY <1>1, <1>2, <1>3, <2>1 DEF Lengths
    <2> QED BY <1>3, <2>2 DEF LengthInv, Running
<1>4. CASE cell' = cell /\ status' = "failed"
    BY <1>1, <1>2, <1>4 DEF LengthInv, Lengths, Running
<1> QED BY <1>3, <1>4, AwaitDoes

-----------------------------------------------------------------------------
(* What has been run to the end of the topic.                              *)

LEMMA FullAwait ==
    ASSUME TypeInv, LengthInv, FullInv, Await
    PROVE  FullInv'
<1>1. /\ status = "running" /\ notebook' = notebook /\ topic' = topic
      /\ query' = query /\ ckpt' = ckpt /\ target' = target /\ Script' = Script
    BY AwaitDoes DEF queryVars
<1>2. /\ \A q : Full(q)' = Full(q)
      /\ \A q \in Passed : q \in Queries /\ Full(q) /\ query[q] \in {"idle", "done"}
      /\ Running /\ cell \in Nat
    BY <1>1, TheNotebook DEF Full, Position, EndOf, Planned, FullInv, LengthInv
<1>3. /\ status' # "running"
      /\ \/ cell' = cell + 1 /\ \A q \in ToSet(Script[cell].queries) :
                                    q \in Queries /\ Full(q) /\ query[q] = "done"
         \/ cell' = cell
    <2>1. ToSet(Script[cell].queries) \subseteq Queries
        BY TheNotebook
    <2>2. \A q \in ToSet(Script[cell].queries) : query[q] = "done" => Full(q)
        BY <1>1 DEF FullInv
    <2> QED BY <2>1, <2>2, AwaitDoes
<1>4. ASSUME NEW q \in Passed'
      PROVE  q \in Queries /\ Full(q) /\ query[q] \in {"idle", "done"}
    <2>1. CASE cell' = cell
        BY <1>1, <1>2, <2>1 DEF Passed
    <2>2. CASE /\ cell' = cell + 1
               /\ \A r \in ToSet(Script[cell].queries) :
                      r \in Queries /\ Full(r) /\ query[r] = "done"
        <3>1. q \in Passed \/ q \in ToSet(Script[cell].queries)
            <4>1. CASE notebook = "kaf6"
                <5>1. ToSet(Script[cell].queries) = {"main", "dlq"}
                    BY <1>1, <1>2, <4>1, RunningCells, AwaitedAre
                <5>2. q \in {"main", "dlq"}
                    BY <1>1, <4>1 DEF Passed
                <5> QED BY <5>1, <5>2
            <4>2. CASE notebook = "str2"
                <5>1. /\ cell = 2 \/ cell = 3 \/ cell = 4 \/ cell = 5
                      /\ cell = 4 => ToSet(Script[cell].queries) = {"sink"}
                      /\ cell = 5 => ToSet(Script[cell].queries) = {"scratch"}
                    BY <1>1, <1>2, <4>2, RunningCells, AwaitedAre
                <5>2. /\ cell' = 5 => q \in {"sink"}
                      /\ cell' = 6 => q \in {"sink", "scratch"}
                      /\ cell' = 5 \/ cell' = 6
                    BY <1>1, <4>2 DEF Passed
                <5>3. cell = 4 \/ cell = 5
                    BY <1>2, <2>2, <5>2
                <5>4. CASE cell = 4
                    BY <2>2, <5>1, <5>2, <5>4
                <5>5. CASE cell = 5
                    <6>1. Passed = {"sink"}
                        BY <4>2, <5>5 DEF Passed
                    <6> QED BY <2>2, <5>1, <5>2, <5>5, <6>1
                <5> QED BY <5>3, <5>4, <5>5
            <4>3. CASE notebook = "str3"
                <5>1. /\ cell = 3 \/ cell = 4
                      /\ cell = 3 => ToSet(Script[cell].queries) = {"big"}
                      /\ cell = 4 => ToSet(Script[cell].queries) = {"small"}
                    BY <1>1, <1>2, <4>3, RunningCells, AwaitedAre
                <5>2. /\ cell' = 4 => q \in {"big"}
                      /\ cell' = 5 => q \in {"big", "small"}
                    BY <1>1, <4>3 DEF Passed
                <5>3. CASE cell = 3
                    BY <2>2, <5>1, <5>2, <5>3
                <5>4. CASE cell = 4
                    <6>1. Passed = {"big"}
                        BY <4>3, <5>4 DEF Passed
                    <6> QED BY <2>2, <5>1, <5>2, <5>4, <6>1
                <5> QED BY <5>1, <5>3, <5>4
            <4>4. CASE notebook \notin {"kaf6", "str2", "str3"}
                BY <1>1, <4>4 DEF Passed
            <4> QED BY <4>1, <4>2, <4>3, <4>4
        <3> QED BY <1>2, <2>2, <3>1
    <2> QED BY <1>3, <2>1, <2>2
<1> QED BY <1>1, <1>2, <1>3, <1>4 DEF FullInv

(* No cell touches the queries of the cells passed.                      *)
LEMMA FullRunCell ==
    ASSUME TypeInv, FullInv, RunCell
    PROVE  FullInv'
<1> DEFINE c == Script[cell]
<1>1. /\ notebook' = notebook /\ Script' = Script /\ cell < Len(Script) /\ cell \in Nat
      /\ ToSet(c.queries) \subseteq Queries
      /\ ToSet(c.queries) = {} => cell' = cell + 1 /\ status' = "ready"
      /\ ToSet(c.queries) # {} => cell' = cell /\ status' = "running"
    BY TheNotebook DEF RunCell, Script
<1>2. ASSUME NEW q \in ToSet(c.queries)
      PROVE  target'[q] = Len(topic') /\ query'[q] # "done"
    <2>1. q \in Queries
        BY <1>1
    <2> QED BY <2>1 DEF RunCell, Resume
<1>3. ASSUME NEW q \in Passed'
      PROVE  q \in Queries /\ Full(q)' /\ query'[q] \in {"idle", "done"}
    <2>1. /\ q \in Passed /\ q \notin ToSet(c.queries) /\ q \notin c.clears
          /\ ~c.recreate /\ Len(c.records) = 0
        <3>1. CASE notebook = "kaf6"
            <4>1. Script = Kaf6 /\ (cell = 1 \/ cell = 2 \/ cell = 3)
                BY <1>1, <3>1, CellsOfNotebook
            <4>2. cell' = 4
                BY <1>1, <3>1 DEF Passed
            <4>3. ToSet(c.queries) = {} /\ cell = 3
                BY <1>1, <4>1, <4>2
            <4>4. ToSet(c.queries) = {"main", "dlq"}
                BY <4>1, <4>3, Kaf6Does, AwaitedAre DEF Does
            <4> QED BY <4>3, <4>4
        <3>2. CASE notebook = "str2"
            <4>1. Script = Str2 /\ (cell = 1 \/ cell = 2 \/ cell = 3 \/ cell = 4 \/ cell = 5)
                BY <1>1, <3>2, CellsOfNotebook
            <4>2. cell' = 5 \/ cell' = 6
                BY <1>1, <3>2 DEF Passed
            <4>3. /\ cell = 4 => ToSet(c.queries) # {}
                  /\ cell = 5 => /\ ToSet(c.queries) = {"scratch"} /\ c.clears = {}
                                 /\ ~c.recreate /\ Len(c.records) = 0
                BY <4>1, Str2Does, AwaitedAre DEF Does
            <4>4. cell = 5
                BY <1>1, <4>1, <4>2, <4>3
            <4>5. cell' = 5
                BY <1>1, <4>3, <4>4
            <4>6. Passed' = {"sink"} /\ Passed = {"sink"}
                BY <1>1, <3>2, <4>4, <4>5 DEF Passed
            <4> QED BY <4>3, <4>4, <4>6
        <3>3. CASE notebook = "str3"
            <4>1. Script = Str3 /\ (cell = 1 \/ cell = 2 \/ cell = 3 \/ cell = 4)
                BY <1>1, <3>3, CellsOfNotebook
            <4>2. cell' = 4 \/ cell' = 5
                BY <1>1, <3>3 DEF Passed
            <4>3. /\ cell = 3 => ToSet(c.queries) # {}
                  /\ cell = 4 => /\ ToSet(c.queries) = {"small"} /\ c.clears = {"small"}
                                 /\ ~c.recreate /\ Len(c.records) = 0
                BY <4>1, Str3Does, AwaitedAre DEF Does
            <4>4. cell = 4
                BY <1>1, <4>1, <4>2, <4>3
            <4>5. cell' = 4
                BY <1>1, <4>3, <4>4
            <4>6. Passed' = {"big"} /\ Passed = {"big"}
                BY <1>1, <3>3, <4>4, <4>5 DEF Passed
            <4> QED BY <4>3, <4>4, <4>6
        <3>4. CASE notebook \notin {"kaf6", "str2", "str3"}
            BY <1>1, <3>4 DEF Passed
        <3> QED BY <3>1, <3>2, <3>3, <3>4
    <2>2. q \in Queries /\ Full(q) /\ query[q] \in {"idle", "done"}
        BY <2>1 DEF FullInv
    <2>3. q \notin Reached(c.clears)
        BY <2>1 DEF Reached
    <2>4. ckpt'[q] = ckpt[q] /\ query'[q] = query[q]
        BY <2>1, <2>2, <2>3 DEF RunCell
    <2>5. topic' = topic
        <3>1. topic' = topic \o c.records
            BY <2>1 DEF RunCell
        <3>2. c.records \in Seq(RecordsOf(notebook))
            <4>1. /\ notebook \in AllNotebooks /\ cell \in Nat /\ 1 <= cell
                  /\ cell < Len(Cells[notebook]) /\ c = Cells[notebook][cell]
                BY <1>1, TheNotebook DEF Script
            <4>2. CellOK(c, notebook)
                BY <4>1, CellFacts
            <4> QED BY <4>2 DEF CellOK
        <3>3. topic \in Seq(RecordsOf(notebook)) /\ Len(c.records) = 0
            BY <2>1 DEF TypeInv
        <3> HIDE DEF c
        <3> QED BY <3>1, <3>2, <3>3
    <2>6. Full(q)' = Full(q)
        BY <2>4, <2>5 DEF Full, Position, EndOf, Planned
    <2> QED BY <2>2, <2>4, <2>6
<1>4. ASSUME status' = "running"
      PROVE  \A q \in ToSet(Script'[cell'].queries) :
                 target'[q] = Len(topic') /\ (query'[q] = "done" => Full(q)')
    <2>1. Script'[cell'] = c
        BY <1>1, <1>4
    <2> QED BY <1>2, <2>1
<1> QED BY <1>3, <1>4 DEF FullInv

(* Nor does a query, of which only those that run make steps.            *)
LEMMA FullStep ==
    ASSUME TypeInv, FullInv, NEW q \in Queries, QueryInv(q), StepOf(q)
    PROVE  FullInv'
<1>1. /\ notebook' = notebook /\ cell' = cell /\ status' = status /\ topic' = topic
      /\ target' = target /\ Script' = Script /\ Passed' = Passed
    <2>1. UNCHANGED <<kernelVars, topic, target, orphaned, boundVars>>
        BY StepFrame
    <2> QED BY <2>1 DEF kernelVars, Script, Passed
<1>2. ASSUME NEW r \in Queries \ {q}
      PROVE  query'[r] = query[r] /\ Full(r)' = Full(r)
    <2>1. ckpt'[r] = ckpt[r] /\ query'[r] = query[r]
        BY StepFrame
    <2> QED BY <1>1, <2>1 DEF Full, Position, EndOf, Planned
<1>3. query[q] \in {"plan", "append", "commit"}
    BY DEF StepOf, PlanBatch, AppendBatch, CommitBatch, Drained, DataLoss
<1>4. ASSUME query'[q] = "done", target[q] = Len(topic) PROVE Full(q)'
    <2>1. Drained(q)
        BY <1>4 DEF StepOf, PlanBatch, AppendBatch, CommitBatch, DataLoss, TypeInv
    <2>2. ckpt' = ckpt /\ Position(q) = target[q] /\ Planned(q) = ckpt[q].commits
        BY <2>1 DEF Drained, QueryInv, Batches
    <2> QED BY <1>1, <1>4, <2>2 DEF Full, Position, EndOf, Planned
<1>5. ASSUME status' = "running", NEW r \in ToSet(Script'[cell'].queries)
      PROVE  target'[r] = Len(topic') /\ (query'[r] = "done" => Full(r)')
    <2>1. /\ target[r] = Len(topic) /\ (query[r] = "done" => Full(r))
          /\ r \in Queries
        BY <1>1, <1>5, TheNotebook DEF FullInv
    <2>2. CASE r = q
        BY <1>1, <1>4, <2>1, <2>2
    <2>3. CASE r # q
        BY <1>1, <1>2, <2>1, <2>3
    <2> QED BY <2>2, <2>3
<1>6. ASSUME NEW r \in Passed'
      PROVE  r \in Queries /\ Full(r)' /\ query'[r] \in {"idle", "done"}
    <2>1. r \in Queries /\ Full(r) /\ query[r] \in {"idle", "done"}
        BY <1>1 DEF FullInv
    <2>2. r # q
        BY <1>3, <2>1
    <2> QED BY <1>2, <2>1, <2>2
<1> QED BY <1>5, <1>6 DEF FullInv

-----------------------------------------------------------------------------
(* The invariant is inductive.                                             *)

LEMMA InitStreamRunsInv ==
    ASSUME Init
    PROVE  StreamRunsInv
<1>1. /\ notebook \in Notebooks /\ cwd \in Cwds /\ delay \in Delays /\ cell = 1
      /\ status = "ready" /\ topic = <<>> /\ orphaned = {} /\ crashes = 0 /\ repeated = FALSE
      /\ \A q \in Queries : /\ table[q] = NoRows /\ epoch[q] = 0 /\ ckpt[q] = NoCheckpoint
                            /\ query[q] = "idle" /\ target[q] = 0
    BY DEF Init
<1>2. /\ NoCheckpoint \in CkptType /\ NoRows \in [Offsets -> Nat] /\ "idle" \in Steps
      /\ MaxTopic \in Nat /\ 0 \in 0 .. MaxTopic
    BY StreamRunsAssumption DEF CkptType, NoCheckpoint, NoRows, Steps
<1>3. TypeInv
    <2>1. cell \in 1 .. Len(Script)
        <3>1. Script = Cells[notebook] /\ Len(Cells[notebook]) \in Nat /\ Len(Cells[notebook]) >= 4
            BY <1>1, AwaitedQueries DEF Script
        <3> QED BY <1>1, <3>1
    <2>2. crashes \in 0 .. MaxCrashes
        BY <1>1, StreamRunsAssumption
    <2>3. /\ table = [q \in Queries |-> NoRows] /\ epoch = [q \in Queries |-> 0]
          /\ ckpt = [q \in Queries |-> NoCheckpoint] /\ query = [q \in Queries |-> "idle"]
          /\ target = [q \in Queries |-> 0]
        BY DEF Init
    <2>4. topic \in Seq(RecordsOf(notebook))
        BY <1>1
    <2> QED BY <1>1, <1>2, <2>1, <2>2, <2>3, <2>4 DEF TypeInv
<1>4. Len(topic) = 0
    BY <1>1
<1>5. LengthInv
    BY <1>1, <1>2, <1>4 DEF LengthInv, Lengths, Running
<1>6. FullInv
    BY <1>1 DEF FullInv, Passed
<1>7. ASSUME NEW q \in Queries PROVE QueryInv(q)
    <2>1. /\ ckpt[q].ends = <<>> /\ ckpt[q].commits = 0 /\ ckpt[q].states = <<>>
          /\ epoch[q] = 0 /\ query[q] = "idle" /\ table[q] = NoRows /\ q \notin orphaned
        BY <1>1 DEF NoCheckpoint
    <2>2. Planned(q) = 0 /\ EndOf(q, 0) = 0 /\ Len(ckpt[q].states) = 0
        BY <2>1 DEF Planned, EndOf
    <2>3. Batches(q)
        BY <2>1, <2>2 DEF Batches
    <2>4. StateAfter(q, 0) = NoState /\ NoState.open = {} /\ NoState.late = {}
        BY <2>1 DEF StateAfter, NoState
    <2>5. Appended(q) = {}
        BY <2>1, <2>2, <2>4 DEF Appended
    <2>6. \A p \in Offsets : table[q][p] = 0
        BY <2>1 DEF NoRows
    <2>7. Landed(q)
        BY <1>4, <2>1, <2>2, <2>5, <2>6 DEF Landed
    <2>8. Counted(q)
        BY <2>1, <2>2, <2>6 DEF Counted
    <2> QED BY <2>3, <2>7, <2>8 DEF QueryInv
<1> QED BY <1>3, <1>5, <1>6, <1>7 DEF StreamRunsInv

(* The types, whose bound on the topic is that of the lengths.           *)
LEMMA TypeRunCell ==
    ASSUME TypeInv, RunCell
    PROVE  TypeInv'
<1> DEFINE c == Script[cell]
           start == ToSet(c.queries)
<1>1. /\ notebook \in AllNotebooks /\ cell \in Nat /\ 1 <= cell /\ cell < Len(Script)
      /\ Len(Script) \in Nat
    BY TheNotebook DEF RunCell
<1>2. CellOK(c, notebook)
    BY <1>1, CellFacts DEF Script
<1>3. /\ notebook' = notebook /\ cwd' = cwd /\ delay' = delay /\ crashes' = crashes
      /\ Script' = Script /\ Offsets' = Offsets /\ repeated' \in BOOLEAN
    BY DEF RunCell, boundVars, Script, TypeInv, Offsets
<1>4. topic' \in Seq(RecordsOf(notebook))
    <2>1. topic' = IF c.recreate THEN c.records ELSE topic \o c.records
        BY DEF RunCell
    <2>2. topic \in Seq(RecordsOf(notebook)) /\ c.records \in Seq(RecordsOf(notebook))
        BY <1>2 DEF TypeInv, CellOK
    <2> HIDE DEF c
    <2> QED BY <2>1, <2>2
<1>5. Len(topic') \in 0 .. MaxTopic
    BY <1>4, StreamRunsAssumption DEF RunCell
<1>6. NoCheckpoint \in CkptType /\ NoRows \in [Offsets -> Nat]
    BY DEF CkptType, NoCheckpoint, NoRows
<1>7. cell' \in 1 .. Len(Script) /\ status' \in {"ready", "running"}
    <2>1. (cell' = cell \/ cell' = cell + 1) /\ status' \in {"ready", "running"}
        BY DEF RunCell
    <2>2. CASE cell' = cell
        BY <1>1, <2>1, <2>2
    <2>3. CASE cell' = cell + 1
        BY <1>1, <2>1, <2>3
    <2> QED BY <2>1, <2>2, <2>3
<1>8. ckpt' \in [Queries -> CkptType] /\ table' \in [Queries -> [Offsets -> Nat]]
    <2>1. /\ ckpt' = [q \in Queries |-> IF q \in Reached(c.clears) THEN NoCheckpoint ELSE ckpt[q]]
          /\ table' = [q \in Queries |-> IF q \in c.drops THEN NoRows ELSE table[q]]
        BY DEF RunCell
    <2> QED BY <1>6, <2>1 DEF TypeInv
<1>9. epoch' \in [Queries -> Nat] /\ query' \in [Queries -> Steps]
    <2>1. /\ epoch' = [q \in Queries |-> IF q \in c.drops \cup Reached(c.clears) THEN 0
                                         ELSE epoch[q]]
          /\ query' = [q \in Queries |-> IF q \in start THEN Resume(ckpt'[q])
                                         ELSE IF q \in Reached(c.clears) THEN "idle" ELSE query[q]]
        BY DEF RunCell
    <2>2. \A z : Resume(z) \in Steps
        BY DEF Resume, Steps
    <2>3. "idle" \in Steps
        BY DEF Steps
    <2> QED BY <2>1, <2>2, <2>3 DEF TypeInv
<1>10. target' \in [Queries -> 0 .. MaxTopic]
    <2>1. target' = [q \in Queries |-> IF q \in start THEN Len(topic') ELSE target[q]]
        BY DEF RunCell
    <2> QED BY <1>5, <2>1 DEF TypeInv
<1>11. orphaned' \subseteq Queries
    BY DEF RunCell
<1> QED BY <1>3, <1>4, <1>7, <1>8, <1>9, <1>10, <1>11 DEF TypeInv, RecordsOf, Offsets,
           CkptType

(* One lemma per action of Next.                                         *)
LEMMA RunCellPreserves ==
    ASSUME StreamRunsInv, RunCell
    PROVE  StreamRunsInv'
<1>1. TypeInv /\ LengthInv /\ FullInv /\ \A q \in Queries : QueryInv(q)
    BY DEF StreamRunsInv
<1>2. LengthInv'
    BY <1>1, LengthRunCell
<1>3. TypeInv'
    BY <1>1, TypeRunCell
<1>4. FullInv'
    BY <1>1, FullRunCell
<1>5. ASSUME NEW q \in Queries PROVE QueryInv(q)'
    BY <1>1, <1>3, RunCellQuery
<1> QED BY <1>2, <1>3, <1>4, <1>5 DEF StreamRunsInv

LEMMA AwaitPreserves ==
    ASSUME StreamRunsInv, Await
    PROVE  StreamRunsInv'
<1>1. TypeInv /\ LengthInv /\ FullInv /\ \A q \in Queries : QueryInv(q)
    BY DEF StreamRunsInv
<1>2. LengthInv' /\ FullInv'
    BY <1>1, LengthAwait, FullAwait
<1>3. /\ notebook' = notebook /\ cwd' = cwd /\ delay' = delay /\ topic' = topic
      /\ table' = table /\ epoch' = epoch /\ ckpt' = ckpt /\ query' = query
      /\ target' = target /\ orphaned' = orphaned /\ crashes' = crashes /\ Script' = Script
      /\ repeated' = repeated
    BY <1>1, AwaitDoes DEF queryVars, boundVars
<1>4. cell' \in 1 .. Len(Script) /\ status' \in {"ready", "failed"}
    <2>1. /\ cell' = cell + 1 \/ cell' = cell
          /\ status' \in {"ready", "failed"} /\ status = "running"
        BY <1>1, AwaitDoes
    <2>2. cell < Len(Script)
        BY <1>1, <2>1 DEF LengthInv, Running
    <2>3. cell \in Nat /\ 1 <= cell /\ Len(Script) \in Nat
        BY <1>1, TheNotebook
    <2>4. CASE cell' = cell
        BY <2>1, <2>2, <2>3, <2>4
    <2>5. CASE cell' = cell + 1
        BY <2>1, <2>2, <2>3, <2>5
    <2> QED BY <2>1, <2>4, <2>5
<1>5. TypeInv'
    BY <1>1, <1>3, <1>4 DEF TypeInv, RecordsOf, Offsets, CkptType
<1>6. ASSUME NEW q \in Queries PROVE QueryInv(q)'
    BY <1>1, <1>3, Kept
<1> QED BY <1>2, <1>5, <1>6 DEF StreamRunsInv

LEMMA StepPreserves ==
    ASSUME StreamRunsInv, NEW q \in Queries, StepOf(q)
    PROVE  StreamRunsInv'
<1>1. TypeInv /\ LengthInv /\ FullInv /\ \A r \in Queries : QueryInv(r)
    BY DEF StreamRunsInv
<1>2. FullInv'
    BY <1>1, FullStep
<1>3. /\ UNCHANGED <<kernelVars, topic, target, orphaned, boundVars>>
      /\ \A r \in Queries \ {q} : /\ ckpt'[r] = ckpt[r] /\ table'[r] = table[r]
                                  /\ epoch'[r] = epoch[r] /\ query'[r] = query[r]
      /\ ckpt' \in [Queries -> CkptType] /\ table' \in [Queries -> [Offsets -> Nat]]
      /\ epoch' \in [Queries -> Nat] /\ query' \in [Queries -> Steps]
      /\ QueryInv(q)'
    BY <1>1, StepFrame
<1>4. /\ notebook' = notebook /\ cwd' = cwd /\ delay' = delay /\ cell' = cell
      /\ status' = status /\ topic' = topic /\ target' = target
      /\ orphaned' = orphaned /\ crashes' = crashes /\ Script' = Script
      /\ repeated' = repeated
    BY <1>3 DEF kernelVars, boundVars, Script
<1>5. LengthInv'
    BY <1>1, <1>4 DEF LengthInv, Lengths, Running
<1>6. TypeInv'
    BY <1>1, <1>3, <1>4 DEF TypeInv, RecordsOf, Offsets, CkptType
<1>7. ASSUME NEW r \in Queries PROVE QueryInv(r)'
    <2>1. CASE r = q
        BY <1>3, <2>1
    <2>2. CASE r # q
        BY <1>1, <1>3, <1>4, <2>2, Kept
    <2> QED BY <2>1, <2>2
<1> QED BY <1>2, <1>5, <1>6, <1>7 DEF StreamRunsInv

LEMMA CrashPreserves ==
    ASSUME StreamRunsInv, Crash
    PROVE  StreamRunsInv'
<1>1. TypeInv /\ LengthInv /\ FullInv /\ \A q \in Queries : QueryInv(q)
    BY DEF StreamRunsInv
<1>2. /\ notebook' = notebook /\ cwd' = cwd /\ delay' = delay /\ cell' = cell
      /\ topic' = topic /\ table' = table /\ epoch' = epoch /\ ckpt' = ckpt
      /\ target' = target /\ orphaned' = orphaned /\ Script' = Script
      /\ repeated' = repeated /\ crashes < MaxCrashes /\ crashes' = crashes + 1
      /\ query' = [q \in Queries |-> "idle"]
      /\ status' = IF status = "running" THEN "failed" ELSE status
    BY DEF Crash, Script
<1>3. LengthInv'
    BY <1>1, <1>2 DEF LengthInv, Lengths, Running
<1>4. TypeInv'
    <2>1. crashes' \in 0 .. MaxCrashes
        BY <1>1, <1>2, StreamRunsAssumption DEF TypeInv
    <2>2. query' \in [Queries -> Steps] /\ status' \in {"ready", "running", "failed"}
        BY <1>1, <1>2 DEF TypeInv, Steps
    <2> QED BY <1>1, <1>2, <2>1, <2>2 DEF TypeInv, RecordsOf, Offsets, CkptType
<1>5. FullInv'
    <2>1. \A q : Full(q)' = Full(q)
        BY <1>2 DEF Full, Position, EndOf, Planned
    <2>2. Passed' = Passed /\ status' # "running"
        BY <1>2 DEF Passed
    <2>3. \A q \in Queries : query'[q] = "idle"
        BY <1>2
    <2>4. \A q \in Passed : q \in Queries /\ Full(q)
        BY <1>1 DEF FullInv
    <2> QED BY <2>1, <2>2, <2>3, <2>4 DEF FullInv
<1>6. ASSUME NEW q \in Queries PROVE QueryInv(q)'
    <2>1. query'[q] = "idle"
        BY <1>2
    <2> QED BY <1>1, <1>2, <2>1, Kept
<1> QED BY <1>3, <1>4, <1>5, <1>6 DEF StreamRunsInv

LEMMA FromTheTopPreserves ==
    ASSUME StreamRunsInv, NEW clean \in BOOLEAN, FromTheTop(clean)
    PROVE  StreamRunsInv'
<1>1. TypeInv /\ LengthInv /\ \A q \in Queries : QueryInv(q)
    BY DEF StreamRunsInv
<1>2. /\ notebook' = notebook /\ delay' = delay /\ topic' = topic /\ target' = target
      /\ crashes' = crashes /\ cwd' \in Cwds /\ cell' = 1 /\ status' = "ready"
      /\ repeated' = repeated
      /\ Script' = Script
    BY DEF FromTheTop, Script
<1>3. \/ /\ table' = [q \in Queries |-> NoRows] /\ epoch' = [q \in Queries |-> 0]
         /\ ckpt' = [q \in Queries |-> NoCheckpoint] /\ query' = [q \in Queries |-> "idle"]
         /\ orphaned' = {}
      \/ UNCHANGED <<table, epoch, ckpt, query, orphaned>>
    BY DEF FromTheTop
<1>4. /\ ckpt' \in [Queries -> CkptType] /\ table' \in [Queries -> [Offsets -> Nat]]
      /\ epoch' \in [Queries -> Nat] /\ query' \in [Queries -> Steps]
      /\ orphaned' \subseteq Queries
    <2>1. NoCheckpoint \in CkptType /\ NoRows \in [Offsets -> Nat] /\ "idle" \in Steps
        BY DEF CkptType, NoCheckpoint, NoRows, Steps
    <2>2. /\ ckpt \in [Queries -> CkptType] /\ table \in [Queries -> [Offsets -> Nat]]
          /\ epoch \in [Queries -> Nat] /\ query \in [Queries -> Steps]
          /\ orphaned \subseteq Queries
        BY <1>1 DEF TypeInv
    <2> QED BY <1>3, <2>1, <2>2
<1>5. TypeInv'
    <2>1. cell' \in 1 .. Len(Script)
        <3>1. cell \in Nat /\ 1 <= cell /\ cell <= Len(Script) /\ Len(Script) \in Nat
            BY <1>1, TheNotebook
        <3> QED BY <1>2, <3>1
    <2> QED BY <1>1, <1>2, <1>4, <2>1 DEF TypeInv, RecordsOf, Offsets, CkptType
<1>6. LengthInv' /\ FullInv'
    <2>1. Lengths'
        BY <1>1, <1>2 DEF LengthInv, Lengths
    <2>2. Running'
        BY <1>2 DEF Running
    <2>3. Passed' = {}
        BY <1>2 DEF Passed
    <2> QED BY <1>2, <2>1, <2>2, <2>3 DEF LengthInv, FullInv
<1>7. ASSUME NEW q \in Queries PROVE QueryInv(q)'
    <2>1. CASE UNCHANGED <<table, epoch, ckpt, query, orphaned>>
        BY <1>1, <1>2, <2>1, Kept
    <2>2. CASE /\ table' = [r \in Queries |-> NoRows] /\ epoch' = [r \in Queries |-> 0]
               /\ ckpt' = [r \in Queries |-> NoCheckpoint]
               /\ query' = [r \in Queries |-> "idle"] /\ orphaned' = {}
        <3>1. /\ table'[q] = NoRows /\ epoch'[q] = 0 /\ ckpt'[q] = NoCheckpoint
              /\ query'[q] = "idle" /\ q \notin orphaned'
            BY <2>2
        <3>2. NoRows' = NoRows
            BY DEF NoRows, Offsets
        <3>3. Planned(q)' = 0 /\ ckpt'[q].commits = 0 /\ Len(ckpt'[q].states) = 0
            BY <3>1 DEF NoCheckpoint, Planned
        <3> QED BY <1>5, <3>1, <3>2, <3>3, Fresh
    <2> QED BY <1>3, <2>1, <2>2
<1> QED BY <1>5, <1>6, <1>7 DEF StreamRunsInv

(* The inductive step.                                                   *)
LEMMA StreamRunsInvInductive ==
    ASSUME StreamRunsInv, [Next]_vars
    PROVE  StreamRunsInv'
<1>1. CASE RunCell
    BY <1>1, RunCellPreserves
<1>2. CASE Await
    BY <1>2, AwaitPreserves
<1>3. CASE QueryStep
    <2>1. PICK q \in Queries : StepOf(q)
        BY <1>3 DEF QueryStep, StepOf
    <2> QED BY <2>1, StepPreserves
<1>4. CASE Crash
    BY <1>4, CrashPreserves
<1>5. CASE \E clean \in BOOLEAN : FromTheTop(clean)
    BY <1>5, FromTheTopPreserves
<1>6. CASE UNCHANGED vars
    <2>1. /\ notebook' = notebook /\ cwd' = cwd /\ delay' = delay /\ cell' = cell
          /\ status' = status /\ topic' = topic /\ table' = table /\ epoch' = epoch
          /\ ckpt' = ckpt /\ query' = query /\ target' = target
          /\ orphaned' = orphaned /\ crashes' = crashes /\ repeated' = repeated
        BY <1>6 DEF vars, kernelVars, queryVars, boundVars
    <2>2. TypeInv' = TypeInv
        BY <2>1 DEF TypeInv, Script, RecordsOf, Offsets, CkptType
    <2>3. LengthInv' = LengthInv
        BY <2>1 DEF LengthInv, Lengths, Running, Script
    <2>4. FullInv' = FullInv
        BY <2>1 DEF FullInv, Full, Passed, Script, Position, EndOf, Planned
    <2>5. ASSUME NEW q \in Queries PROVE QueryInv(q)'
        BY <2>1, Kept DEF StreamRunsInv
    <2> QED BY <2>2, <2>3, <2>4, <2>5 DEF StreamRunsInv
<1> QED BY <1>1, <1>2, <1>3, <1>4, <1>5, <1>6 DEF Next

(* The invariant holds of every behaviour.                               *)
LEMMA StreamRunsInvHolds == Spec => []StreamRunsInv
<1>1. Init => StreamRunsInv
    BY InitStreamRunsInv
<1>2. StreamRunsInv /\ [Next]_vars => StreamRunsInv'
    BY StreamRunsInvInductive
<1> QED BY <1>1, <1>2, PTL DEF Spec

-----------------------------------------------------------------------------
(* The queries of a notebook are those its last cell proves about.         *)
LEMMA QueriesOfNotebooks ==
    /\ QueriesOf("kaf6") \subseteq {"main", "dlq"}
    /\ QueriesOf("str1") \subseteq {"windows"}
    /\ QueriesOf("str2") \subseteq {"sink", "scratch"}
    /\ QueriesOf("str3") \subseteq {"big", "small"}
<1>1. \A n : QueriesOf(n) = UNION {ToSet(Cells[n][i].queries) : i \in DOMAIN Cells[n]}
    BY DEF QueriesOf
<1>2. Prove.queries = <<>>
    BY DEF Prove, Cell
<1>3. QueriesOf("kaf6") \subseteq {"main", "dlq"}
    <2>1. ASSUME NEW i \in 1 .. 4 PROVE ToSet(Kaf6[i].queries) \subseteq {"main", "dlq"}
        <3>1. i = 1 \/ i = 2 \/ i = 3 \/ i = 4
            OBVIOUS
        <3>2. /\ Kaf6[1].queries = <<>> /\ Kaf6[2].queries = <<>>
              /\ Kaf6[3].queries = <<"main", "dlq">> /\ Kaf6[4].queries = <<>>
            <4>1. Kaf6[4] = Prove
                BY DEF Kaf6
            <4> QED BY <1>2, <4>1, Kaf6Does DEF Does
        <3> QED BY <3>1, <3>2, AwaitedAre
    <2>2. Cells["kaf6"] = Kaf6 /\ DOMAIN Kaf6 = 1 .. 4
        BY CellsAre, Kaf6Does
    <2> QED BY <1>1, <2>1, <2>2
<1>4. QueriesOf("str1") \subseteq {"windows"}
    <2>1. ASSUME NEW i \in 1 .. 4 PROVE ToSet(Str1[i].queries) \subseteq {"windows"}
        <3>1. i = 1 \/ i = 2 \/ i = 3 \/ i = 4
            OBVIOUS
        <3>2. /\ Str1[1].queries = <<>> /\ Str1[2].queries = <<"windows">>
              /\ Str1[3].queries = <<"windows">> /\ Str1[4].queries = <<>>
            <4>1. Str1[4] = Prove
                BY DEF Str1
            <4> QED BY <1>2, <4>1, Str1Does DEF Does
        <3> QED BY <3>1, <3>2, AwaitedAre
    <2>2. Cells["str1"] = Str1 /\ DOMAIN Str1 = 1 .. 4
        BY CellsAre, Str1Does
    <2> QED BY <1>1, <2>1, <2>2
<1>5. QueriesOf("str2") \subseteq {"sink", "scratch"}
    <2>1. ASSUME NEW i \in 1 .. 6 PROVE ToSet(Str2[i].queries) \subseteq {"sink", "scratch"}
        <3>1. i = 1 \/ i = 2 \/ i = 3 \/ i = 4 \/ i = 5 \/ i = 6
            OBVIOUS
        <3>2. /\ Str2[1].queries = <<>> /\ Str2[2].queries = <<"sink">>
              /\ Str2[3].queries = <<"sink">> /\ Str2[4].queries = <<"sink">>
              /\ Str2[5].queries = <<"scratch">> /\ Str2[6].queries = <<>>
            <4>1. Str2[6] = Prove
                BY DEF Str2
            <4> QED BY <1>2, <4>1, Str2Does DEF Does
        <3> QED BY <3>1, <3>2, AwaitedAre
    <2>2. Cells["str2"] = Str2 /\ DOMAIN Str2 = 1 .. 6
        BY CellsAre, Str2Does
    <2> QED BY <1>1, <2>1, <2>2
<1>6. QueriesOf("str3") \subseteq {"big", "small"}
    <2>1. ASSUME NEW i \in 1 .. 5 PROVE ToSet(Str3[i].queries) \subseteq {"big", "small"}
        <3>1. i = 1 \/ i = 2 \/ i = 3 \/ i = 4 \/ i = 5
            OBVIOUS
        <3>2. /\ Str3[1].queries = <<>> /\ Str3[2].queries = <<>>
              /\ Str3[3].queries = <<"big">> /\ Str3[4].queries = <<"small">>
              /\ Str3[5].queries = <<>>
            <4>1. Str3[5] = Prove
                BY DEF Str3
            <4> QED BY <1>2, <4>1, Str3Does DEF Does
        <3> QED BY <3>1, <3>2, AwaitedAre
    <2>2. Cells["str3"] = Str3 /\ DOMAIN Str3 = 1 .. 5
        BY CellsAre, Str3Does
    <2> QED BY <1>1, <2>1, <2>2
<1> QED BY <1>3, <1>4, <1>5, <1>6

(* The batches up to the epoch are in the table, and nothing else.       *)
LEMMA InvImpliesExactlyOnce ==
    ASSUME StreamRunsInv
    PROVE  ExactlyOnce
<1> SUFFICES ASSUME NEW q \in Queries \ orphaned
             PROVE  /\ ckpt[q].commits <= epoch[q]
                    /\ \A o \in Offsets : table[q][o] = IF o \in Appended(q) THEN 1 ELSE 0
    BY DEF ExactlyOnce
<1> QED BY DEF StreamRunsInv, QueryInv, Landed

(* The windows in the sink were closed by the last watermark but one.    *)
LEMMA InvImpliesWindowsFinal ==
    ASSUME StreamRunsInv
    PROVE  WindowsFinal
<1> SUFFICES ASSUME NEW q \in (Queries \cap {"windows"}) \ orphaned
             PROVE  LET after   == StateAfter(q, epoch[q])
                        seen    == 0 .. EndOf(q, epoch[q]) - 1
                        emitted == {o \in Offsets : table[q][o] > 0}
                    IN  /\ seen = emitted \cup after.open \cup after.late
                        /\ emitted \cap (after.open \cup after.late) = {}
                        /\ after.open \cap after.late = {}
                        /\ \A o \in after.late :
                               \E p \in 0 .. o - 1 :
                                   topic[p + 1] >= WindowEnd(topic[o + 1]) + delay * Minute
                        /\ \A o \in emitted, p \in seen \ after.late :
                               WindowEnd(topic[o + 1]) = WindowEnd(topic[p + 1]) => p \in emitted
    BY DEF WindowsFinal
<1> DEFINE hi      == EndOf(q, epoch[q])
           s       == StateAfter(q, epoch[q])
           seen    == 0 .. hi - 1
           emitted == {o \in Offsets : table[q][o] > 0}
<1>1. TypeInv /\ q \in Queries /\ q = "windows" /\ QueryInv(q) /\ q \notin orphaned
    BY DEF StreamRunsInv
<1>2. Batches(q) /\ Landed(q) /\ Counted(q)
    BY <1>1 DEF QueryInv
<1>3. hi \in 0 .. MaxTopic /\ MaxTopic \in Nat /\ s \in StateType
    <2>1. PICK e \in Nat, n \in Nat : e = epoch[q] /\ n = Planned(q) /\ e <= n
        BY <1>1, <1>2, EndsAre DEF Batches
    <2>2. e \in 0 .. n /\ e \in Int
        BY <2>1
    <2>3. EndOf(q, e) \in 0 .. MaxTopic /\ StateAfter(q, e) \in StateType /\ MaxTopic \in Nat
        BY <1>1, <2>1, <2>2, EndsAre
    <2> QED BY <2>1, <2>3
<1>4. /\ Counts(s, hi, topic, delay)
      /\ \A p \in seen : p \in s.open =>
             ~Closed(topic[p + 1], Watermark(StateAfter(q, epoch[q] - 1), delay))
    <2>1. CASE notebook = "str1"
        BY <1>1, <2>1, CountedGives
    <2>2. CASE notebook # "str1"
        <3>1. Planned(q) = 0 /\ epoch[q] \in Nat /\ epoch[q] <= Planned(q)
            BY <1>1, <1>2, <2>2, EndsAre DEF Batches
        <3>2. epoch[q] = 0
            BY <3>1
        <3>3. Len(ckpt[q].states) = 0
            BY <1>2, <3>2 DEF Counted
        <3>4. s = NoState
            BY <1>1, <3>2, <3>3, EndsAre DEF StateAfter
        <3>5. NoState.open = {} /\ NoState.late = {} /\ NoState.frontier = 0
            BY DEF NoState
        <3> HIDE DEF s
        <3> QED BY <3>4, <3>5 DEF Counts
    <2> QED BY <2>1, <2>2
<1>5. Appended(q) = seen \ (s.open \cup s.late)
    BY <1>1 DEF Appended
<1>6. s.open \cup s.late \subseteq seen /\ s.open \cap s.late = {}
    <2>1. s.open \in SUBSET Nat /\ s.late \in SUBSET Nat
        BY <1>3 DEF StateType
    <2>2. \A p \in s.open \cup s.late : p < hi
        BY <1>4 DEF Counts
    <2>3. s.open \cap s.late = {}
        BY <1>4 DEF Counts
    <2> HIDE DEF s, hi
    <2> QED BY <1>3, <2>1, <2>2, <2>3
<1>7. seen \subseteq Offsets
    <2> HIDE DEF hi
    <2> QED BY <1>3 DEF Offsets
<1>8. emitted = seen \ (s.open \cup s.late)
    <2>1. \A o \in Offsets : table[q][o] > 0 <=> o \in Appended(q)
        BY <1>2 DEF Landed
    <2> HIDE DEF seen, s
    <2> QED BY <1>5, <1>7, <2>1
<1>9. ASSUME NEW o \in emitted, NEW p \in seen \ s.late,
             WindowEnd(topic[o + 1]) = WindowEnd(topic[p + 1])
      PROVE  p \in emitted
    <2>1. Closed(topic[o + 1], Watermark(StateAfter(q, epoch[q] - 1), delay))
        BY <1>2 DEF Counted
    <2>2. Closed(topic[p + 1], Watermark(StateAfter(q, epoch[q] - 1), delay))
        BY <1>9, <2>1 DEF Closed
    <2>3. p \notin s.open
        BY <1>4, <2>2
    <2> HIDE DEF seen, s, emitted
    <2> QED BY <1>8, <2>3
<1>10. \A o \in s.late : \E p \in 0 .. o - 1 :
           topic[p + 1] >= WindowEnd(topic[o + 1]) + delay * Minute
    BY <1>4 DEF Counts
<1>11. /\ seen = emitted \cup s.open \cup s.late
       /\ emitted \cap (s.open \cup s.late) = {}
    <2> HIDE DEF seen, s, emitted
    <2> QED BY <1>6, <1>8
<1> HIDE DEF seen, s, emitted
<1> QED BY <1>6, <1>9, <1>10, <1>11 DEF seen, s, emitted

(* The last cell finds the tables of queries that ran to the end.        *)
LEMMA InvImpliesReconciles ==
    ASSUME StreamRunsInv
    PROVE  ReconcilesUnlessOrphaned
<1> SUFFICES ASSUME Proving, orphaned \cap QueriesOf(notebook) = {}
             PROVE  Whole /\ (~repeated => Len(topic) = Expected[notebook])
    BY DEF ReconcilesUnlessOrphaned
<1>1. TypeInv /\ FullInv /\ \A q \in Queries : QueryInv(q)
    BY DEF StreamRunsInv
<1>2. notebook \in AllNotebooks
    BY <1>1, TheNotebook
<1>3. QueriesOf(notebook) \ {"windows"} \subseteq Passed
      /\ (notebook = "kaf6" => Passed = {"main", "dlq"})
    <2>1. Len(Kaf6) = 4 /\ Len(Str2) = 6 /\ Len(Str3) = 5
        BY Kaf6Does, Str2Does, Str3Does
    <2>2. CASE notebook = "kaf6"
        <3>1. Script = Kaf6
            BY <1>1, <2>2, TheNotebook
        <3>2. cell = 4
            BY <2>1, <3>1 DEF Proving
        <3> QED BY <2>2, <3>2, QueriesOfNotebooks DEF Passed
    <2>3. CASE notebook = "str1"
        BY <2>3, QueriesOfNotebooks
    <2>4. CASE notebook = "str2"
        <3>1. Script = Str2
            BY <1>1, <2>4, TheNotebook
        <3>2. cell = 6
            BY <2>1, <3>1 DEF Proving
        <3> QED BY <2>4, <3>2, QueriesOfNotebooks DEF Passed
    <2>5. CASE notebook = "str3"
        <3>1. Script = Str3
            BY <1>1, <2>5, TheNotebook
        <3>2. cell = 5
            BY <2>1, <3>1 DEF Proving
        <3> QED BY <2>5, <3>2, QueriesOfNotebooks DEF Passed
    <2> QED BY <1>2, <2>2, <2>3, <2>4, <2>5 DEF AllNotebooks
<1>4. ASSUME NEW q \in Passed, q # "windows", q \notin orphaned,
             NEW o \in 0 .. Len(topic) - 1
      PROVE  table[q][o] = IF Accepts(q, topic[o + 1]) THEN 1 ELSE 0
    <2>1. q \in Queries /\ Position(q) = Len(topic) /\ Planned(q) = ckpt[q].commits
        BY <1>1 DEF FullInv, Full
    <2>2. Landed(q) /\ Batches(q)
        BY <1>1, <1>4, <2>1 DEF QueryInv
    <2>3. PICK n \in Nat : n = Planned(q) /\ epoch[q] = n
        <3>1. Planned(q) \in Nat /\ epoch[q] \in Nat /\ epoch[q] <= Planned(q)
              /\ Planned(q) <= epoch[q]
            BY <1>1, <2>1, <2>2, EndsAre DEF Landed, Batches
        <3> QED BY <3>1
    <2>4. EndOf(q, n) = Len(topic) /\ EndOf(q, n) \in 0 .. MaxTopic
        <3>1. n \in 0 .. n
            OBVIOUS
        <3>2. EndOf(q, n) \in 0 .. MaxTopic /\ Position(q) = EndOf(q, n)
            BY <1>1, <2>1, <2>3, <3>1, EndsAre
        <3> QED BY <2>1, <3>2
    <2>5. o \in Offsets
        <3>1. Len(topic) \in Nat /\ MaxTopic \in Nat /\ Len(topic) <= MaxTopic
            <4>1. Len(topic) \in 0 .. MaxTopic
                BY <2>4
            <4>2. MaxTopic \in Nat
                BY <1>1, <2>1, EndsAre
            <4> QED BY <4>1, <4>2
        <3> QED BY <3>1 DEF Offsets
    <2>6. o \in Appended(q) <=> Accepts(q, topic[o + 1])
        BY <1>4, <2>3, <2>4 DEF Appended
    <2> QED BY <2>2, <2>5, <2>6 DEF Landed
<1>5. ASSUME notebook = "kaf6"
      PROVE  Whole
    <2>1. "main" \in Passed /\ "dlq" \in Passed
        BY <1>3, <1>5
    <2>2. "main" \notin orphaned /\ "dlq" \notin orphaned
        <3>1. ToSet(Kaf6[3].queries) = {"main", "dlq"}
            BY Kaf6Does, AwaitedAre DEF Does
        <3>2. QueriesOf("kaf6") = UNION {ToSet(Kaf6[i].queries) : i \in 1 .. 4}
            BY CellsAre, Kaf6Does DEF QueriesOf
        <3>3. 3 \in 1 .. 4
            OBVIOUS
        <3>4. {"main", "dlq"} \subseteq QueriesOf("kaf6")
            BY <3>1, <3>2, <3>3
        <3> QED BY <1>5, <3>4
    <2>3. ASSUME NEW o \in 0 .. Len(topic) - 1 PROVE table["main"][o] + table["dlq"][o] = 1
        <3>1. topic[o + 1] \in {"good", "poison"}
            <4>1. topic \in Seq({"good", "poison"})
                BY <1>1, <1>5 DEF TypeInv, RecordsOf
            <4> QED BY <4>1
        <3>2. /\ Accepts("main", topic[o + 1]) <=> topic[o + 1] = "good"
              /\ Accepts("dlq", topic[o + 1]) <=> topic[o + 1] = "poison"
            BY DEF Accepts
        <3>3. /\ table["main"][o] = IF Accepts("main", topic[o + 1]) THEN 1 ELSE 0
              /\ table["dlq"][o] = IF Accepts("dlq", topic[o + 1]) THEN 1 ELSE 0
            BY <1>4, <2>1, <2>2
        <3> QED BY <3>1, <3>2, <3>3
    <2> QED BY <1>5, <2>3 DEF Whole
<1>6. ASSUME notebook # "kaf6"
      PROVE  Whole
    <2>1. ASSUME NEW o \in 0 .. Len(topic) - 1, NEW q \in QueriesOf(notebook) \ {"windows"}
          PROVE  table[q][o] = 1
        <3>1. q \in Passed /\ q \notin orphaned
            BY <1>3
        <3>2. q \notin {"main", "dlq"}
            <4>1. q \in {"sink", "scratch", "big", "small"}
                BY <1>2, <1>6, QueriesOfNotebooks DEF AllNotebooks
            <4> QED BY <4>1
        <3>3. Accepts(q, topic[o + 1])
            BY <3>2 DEF Accepts
        <3> QED BY <1>4, <3>1, <3>3
    <2> QED BY <1>6, <2>1 DEF Whole
<1>7. ~repeated => Len(topic) = Expected[notebook]
    <2>1. Lengths
        BY DEF StreamRunsInv, LengthInv
    <2>2. Len(Kaf6) = 4 /\ Len(Str1) = 4 /\ Len(Str2) = 6 /\ Len(Str3) = 5
        BY Kaf6Does, Str1Does, Str2Does, Str3Does
    <2>3. cell = Len(Script)
        BY DEF Proving
    <2>4. CASE notebook = "kaf6"
        <3>1. cell = 4
            <4>1. Script = Kaf6
                BY <1>1, <2>4, TheNotebook
            <4> QED BY <2>2, <2>3, <4>1
        <3>2. Expected[notebook] = 2
            BY <2>4 DEF Expected
        <3> QED BY <2>1, <2>4, <3>1, <3>2 DEF Lengths
    <2>5. CASE notebook = "str1"
        <3>1. cell = 4
            <4>1. Script = Str1
                BY <1>1, <2>5, TheNotebook
            <4> QED BY <2>2, <2>3, <4>1
        <3>2. Expected[notebook] = 3
            BY <2>5 DEF Expected
        <3> QED BY <2>1, <2>5, <3>1, <3>2 DEF Lengths
    <2>6. CASE notebook = "str2"
        <3>1. cell = 6
            <4>1. Script = Str2
                BY <1>1, <2>6, TheNotebook
            <4> QED BY <2>2, <2>3, <4>1
        <3>2. Expected[notebook] = 3
            BY <2>6 DEF Expected
        <3> QED BY <2>1, <2>6, <3>1, <3>2 DEF Lengths
    <2>7. CASE notebook = "str3"
        <3>1. cell = 5
            <4>1. Script = Str3
                BY <1>1, <2>7, TheNotebook
            <4> QED BY <2>2, <2>3, <4>1
        <3>2. Expected[notebook] = 2
            BY <2>7 DEF Expected
        <3> QED BY <2>1, <2>7, <3>1, <3>2 DEF Lengths
    <2> QED BY <1>2, <2>4, <2>5, <2>6, <2>7 DEF AllNotebooks
<1> QED BY <1>5, <1>6, <1>7

(* The types.                                                            *)
LEMMA InvImpliesTypeOK ==
    ASSUME StreamRunsInv
    PROVE  StreamRunsTypeOK
<1>1. TypeInv /\ Lengths /\ \A q \in Queries : QueryInv(q)
    BY DEF StreamRunsInv, LengthInv
<1>2. Len(topic) <= MaxTopic
    BY <1>1 DEF Lengths
<1>3. ASSUME NEW q \in Queries
      PROVE  /\ ckpt[q].ends \in Seq(1 .. MaxTopic)
             /\ ckpt[q].commits \in 0 .. Len(ckpt[q].ends)
             /\ Len(ckpt[q].ends) <= ckpt[q].commits + 1
             /\ epoch[q] \in 0 .. Len(ckpt[q].ends)
             /\ Len(ckpt[q].states) \in IF q = "windows"
                                        THEN {ckpt[q].commits, Len(ckpt[q].ends)} ELSE {0}
    <2>1. /\ ckpt[q].ends \in Seq(1 .. MaxTopic) /\ Planned(q) \in Nat
          /\ ckpt[q].commits \in Nat /\ epoch[q] \in Nat
        BY <1>1, EndsAre
    <2>2. /\ ckpt[q].commits <= Planned(q) /\ Planned(q) <= ckpt[q].commits + 1
          /\ epoch[q] <= Planned(q)
          /\ q # "windows" => Len(ckpt[q].states) = 0
          /\ q = "windows" => Len(ckpt[q].states) \in {ckpt[q].commits, Planned(q)}
        BY <1>1 DEF QueryInv, Batches
    <2> QED BY <2>1, <2>2 DEF Planned
<1> QED BY <1>1, <1>2, <1>3 DEF StreamRunsTypeOK, TypeInv, RecordsOf, Steps

(* Type correctness: in every checkpoint, orphaned or not, at most one     *)
(* batch is planned that is not committed, and no append runs ahead of it. *)
THEOREM StreamRunsTypeCorrect == Spec => []StreamRunsTypeOK
<1>1. StreamRunsInv => StreamRunsTypeOK
    BY InvImpliesTypeOK
<1> QED BY <1>1, StreamRunsInvHolds, PTL

(* The restart story of STR-2, for every number of crashes and reruns: as  *)
(* long as a checkpoint and its table live and die together, the table has *)
(* each record of the batches appended exactly once, and no batch is       *)
(* committed before it is in the table.                                    *)
THEOREM SinksAreExactlyOnce == Spec => []ExactlyOnce
<1>1. StreamRunsInv => ExactlyOnce
    BY InvImpliesExactlyOnce
<1> QED BY <1>1, StreamRunsInvHolds, PTL

(* STR-1, for every watermark: an event is in one window of the sink, in   *)
(* an open window or dropped, what is dropped was behind the watermark of  *)
(* events before it, and a window in the sink is never counted again.      *)
THEOREM WindowsAreFinal == Spec => []WindowsFinal
<1>1. StreamRunsInv => WindowsFinal
    BY InvImpliesWindowsFinal
<1> QED BY <1>1, StreamRunsInvHolds, PTL

(* Whenever no checkpoint outlived its table or topic, the last cells of   *)
(* KAF-6, STR-2 and STR-3 find every record of the topic once, however     *)
(* often a cell died; and the numbers they expect, unless a cell that      *)
(* produces was run again.                                                 *)
THEOREM NotebooksReconcile == Spec => []ReconcilesUnlessOrphaned
<1>1. StreamRunsInv => ReconcilesUnlessOrphaned
    BY InvImpliesReconciles
<1> QED BY <1>1, StreamRunsInvHolds, PTL

=============================================================================
