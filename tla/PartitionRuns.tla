--------------------------- MODULE PartitionRuns ---------------------------
(***************************************************************************)
(* The two daily DAGs that write one file per data interval,               *)
(* af1_idempotency and af3_catchup_backfill: which intervals get a run, as *)
(* days pass and the DAG is paused and unpaused, and what repeated, dying  *)
(* and replayed attempts leave in the interval's file.                     *)
(***************************************************************************)
EXTENDS Naturals, Sequences

CONSTANTS
    Seeds,       \* hash seeds of Python processes; each attempt is a process
    Dags,        \* which of the two DAGs there are
    MaxDay,      \* bound: days followed, day 0 being start_date
    MaxReruns,   \* bound: clearings and backfills
    MaxPauses    \* bound: times the DAG is paused

ASSUME PartitionAssumption ==
    /\ Seeds # {}
    /\ Dags # {} /\ Dags \subseteq {"af1_idempotency", "af3_catchup_backfill"}
    /\ MaxDay \in Nat /\ MaxReruns \in Nat /\ MaxPauses \in Nat

Intervals == 0 .. MaxDay - 1

VARIABLES
    dag,       \* the DAG
    today,     \* the day it is; interval d has elapsed once d < today
    paused,
    run,       \* the DAG run of each interval
    seed,      \* the hash seed of the attempt that runs, or ran last
    left,      \* rows the attempt has still to write
    file,      \* the interval's file
    reruns,
    pauses

partitionVars == <<dag, today, paused, run, seed, left, file, reruns, pauses>>

Lines   == IF dag = "af1_idempotency" THEN 3 ELSE 2
Catchup == dag = "af3_catchup_backfill"

(* _rows_for_interval: rows that depend on the date and on hash(ds), which *)
(* CPython salts per process.  A row is named by the salt: the date it is  *)
(* filed under fixes the rest.                                             *)
RowsForInterval(s) == [i \in 1 .. Lines |-> s]

PartitionTypeOK ==
    /\ dag \in Dags
    /\ today \in 0 .. MaxDay
    /\ paused \in BOOLEAN
    /\ run \in [Intervals -> {"none", "running", "success", "failed"}]
    /\ seed \in [Intervals -> Seeds]
    /\ left \in [Intervals -> 0 .. Lines]
    /\ file \in [Intervals -> Seq(Seeds)]
    /\ \A d \in Intervals : d >= today => run[d] = "none" /\ file[d] = <<>>
    /\ reruns \in 0 .. MaxReruns
    /\ pauses \in 0 .. MaxPauses

Midnight ==
    /\ today < MaxDay
    /\ today' = today + 1
    /\ UNCHANGED <<dag, paused, run, seed, left, file, reruns, pauses>>

TogglePause ==
    /\ paused \/ pauses < MaxPauses
    /\ paused' = ~paused
    /\ pauses' = IF paused THEN pauses ELSE pauses + 1
    /\ UNCHANGED <<dag, today, run, seed, left, file, reruns>>

(* An attempt opens the interval's file in a fresh process: "w" empties it. *)
OpenToAppend(d, s) ==               \* mutant: append_partition's open(path, "a")
    /\ run' = [run EXCEPT ![d] = "running"]
    /\ seed' = [seed EXCEPT ![d] = s]
    /\ left' = [left EXCEPT ![d] = Lines]
    /\ UNCHANGED file

OpenFile(d, s) ==
    /\ run' = [run EXCEPT ![d] = "running"]
    /\ seed' = [seed EXCEPT ![d] = s]
    /\ left' = [left EXCEPT ![d] = Lines]
    /\ file' = [file EXCEPT ![d] = <<>>]

(* Without catchup only the latest elapsed interval is due.                *)
DueLatest(d) == d + 1 = today       \* mutant: catchup=False
Due(d) == d < today /\ (Catchup \/ d + 1 = today)

CreateRun(d) ==
    /\ ~paused /\ run[d] = "none" /\ Due(d)
    /\ \E s \in Seeds : OpenFile(d, s)
    /\ UNCHANGED <<dag, today, paused, reruns, pauses>>

(* A clear-and-rerun, or a backfill over an interval, run before or not.   *)
Rerun(d) ==
    /\ run[d] # "running" /\ d < today /\ reruns < MaxReruns
    /\ \E s \in Seeds : OpenFile(d, s)
    /\ reruns' = reruns + 1
    /\ UNCHANGED <<dag, today, paused, pauses>>

WriteRow(d) ==
    /\ run[d] = "running" /\ left[d] > 0
    /\ file' = [file EXCEPT ![d] = Append(@, RowsForInterval(seed[d])[Lines + 1 - left[d]])]
    /\ left' = [left EXCEPT ![d] = @ - 1]
    /\ UNCHANGED <<dag, today, paused, run, seed, reruns, pauses>>

Succeed(d) ==
    /\ run[d] = "running" /\ left[d] = 0
    /\ run' = [run EXCEPT ![d] = "success"]
    /\ UNCHANGED <<dag, today, paused, seed, left, file, reruns, pauses>>

(* The worker dies, with part of the rows written.                         *)
Die(d) ==
    /\ run[d] = "running"
    /\ run' = [run EXCEPT ![d] = "failed"]
    /\ UNCHANGED <<dag, today, paused, seed, left, file, reruns, pauses>>

PartitionInit ==
    /\ dag \in Dags
    /\ today = 0 /\ paused = TRUE
    /\ run = [d \in Intervals |-> "none"]
    /\ seed \in {[d \in Intervals |-> s] : s \in Seeds}
    /\ left = [d \in Intervals |-> 0]
    /\ file = [d \in Intervals |-> <<>>]
    /\ reruns = 0 /\ pauses = 0

PartitionNext ==
    \/ Midnight \/ TogglePause
    \/ \E d \in Intervals : CreateRun(d) \/ Rerun(d) \/ WriteRow(d) \/ Succeed(d) \/ Die(d)

PartitionSpec == PartitionInit /\ [][PartitionNext]_partitionVars

(* The scheduler creates what is due.                                      *)
FairSpec == PartitionSpec /\ \A d \in Intervals : WF_partitionVars(CreateRun(d))

-----------------------------------------------------------------------------
(* A re-run replaces the partition: after any number of attempts, dead     *)
(* ones included, a successful one leaves the rows of one attempt, whole.  *)
PartitionWhole == \A d \in Intervals : run[d] = "success" => file[d] = RowsForInterval(seed[d])

(* With catchup every interval that elapses gets its run, also when it     *)
(* elapsed while the DAG was paused, unless the DAG stays paused.          *)
NoIntervalMissed ==
    Catchup /\ (<>[]~paused) => \A d \in Intervals : [](d < today => <>(run[d] # "none"))
=============================================================================
