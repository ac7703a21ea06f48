# Formal models of the lakehouse lab

These modules specify the parts of this repository whose correctness hangs on
order, failure and repetition: change data capture from Postgres to Iceberg,
the life of a connector, DAG runs and the pipeline they drive, dated
partitions, streaming notebooks with checkpoints, the Kafka, Iceberg and Spark
notebooks under faults and reruns, and the incremental dbt models. TLC checks
them on small instances; TLAPS proves, for every value of the constants, the safety
of capture and both sinks, the connector's life, the DAG runs and partitions,
the streaming and the Kafka notebooks, the tables of the Iceberg notebooks and
that these notebooks go through, the Spark notebooks' labels and teardowns, and
the dbt models.

    tlc -workers 2 -config CdcMirror.cfg MCCdcMirror.tla     # one run
    tlapm CdcMirror_proofs.tla                               # one proof module

Contents: [1 the system](#1-the-system), [2 the modules](#2-the-modules),
[3 what is checked](#3-what-is-checked), [4 fairness](#4-fairness),
[5 what is proved](#5-what-is-proved), [6 where code and text disagree](#6-where-code-and-text-disagree),
[7 known limits the models show](#7-known-limits-the-models-show),
[8 not modelled](#8-not-modelled), [9 plan](#9-plan).

## 1 The system

A local lakehouse: one Spark server (Connect and Thrift in one JVM), Kafka,
Postgres, Kafka Connect with Debezium, all in Docker; Airflow DAGs and Jupyter
notebooks as clients; dbt on top. The program's own logic is in `common/`
(helpers), `capstone/cap1_pipeline.py`, `airflow/dags/`, the notebooks and the
dbt models.

| Component | State it keeps | Operations | Talks to | What is hard | What makes it correct |
|---|---|---|---|---|---|
| CDC source: table, connector, topic (`common/cdc_helpers.py`, `debezium/`) | WAL, connector mode and task, stored offset, replication slot, topic | SQL writes; register, pause, resume, restart; snapshot, stream, flush, confirm | Postgres by SQL, Connect by REST, Kafka | the task works between any two REST calls; crash between emit and flush; snapshot while rows change | the newest event of a key is its row; nothing before the stored offset is skipped; the slot retains the rest |
| CDC mirror (`cap1_pipeline.py` `ingest`, CDC-7) | Iceberg mirror | batch read, dedup by LSN, MERGE, rebuild | topic, Iceberg | duplicates, re-snapshots, deletes of absent rows, replay | each row is the source's at the LSN merged; only forward; replay changes nothing; catches up |
| CDC streaming sink (CDC-7 section 8) | mirror, checkpoint | plan, MERGE, commit a micro-batch | topic, Iceberg | death between MERGE and commit; redelivery in a later batch | exact when drained; converges |
| CDC lifecycle (`teardown`, `seed_orders`, `register_connector`) | connector, offsets, slot, table, topic under one name | reset offsets, delete connector, drop slot, table and topic, seed, register, wait | Connect (asynchronous), Postgres, Kafka | the task ends later than its connector is STOPPED; offsets survive the connector; interrupted clients; topic auto-creation | clean slate; every registration snapshots its own table; clean-up ends |
| DAGs of Airflow (`airflow/dags/`) | task instances, tries | trigger rules, retries, branch, short circuit, clear | the stages | skipped and failed parents; clearing resets the budget but not the count, a new run both | gates hold; failures show; teardown is last and always runs |
| Capstone stages (`cap1_pipeline.py`) | mirror, mart, CDC objects | `ingest`, `transform`, `quality`, `cleanup` | Spark, Iceberg, Connect | dying between statements; what a rerun finds | mart and gate are of this run; nothing left |
| Partition writers (af1, af3) | a file per data interval | overwrite, backfill, catch up | file system | dying in mid-file, pauses | whole partitions, none missed |
| Streaming notebooks (kaf6, str1, str2, str3) | topic, sinks, checkpoints, state store, kernel directory | create, produce, stream, reset, prove | Spark, Kafka, Iceberg | driver death between append and commit; a cell run again produces again; checkpoint outlives table or topic; late events | exactly once; windows final; counts reconcile; streams end |
| Kafka client notebooks (kaf1 to kaf5), `kafka_helpers.py` | group offsets, assignment, log start, kernel variables | create, produce, consume, commit, lag, rebalance, read back | Kafka | asynchronous deletion, commit after processing, members of a group polled in one thread, retention and compaction under a reader, read-backs that time out early | no committed offset covers an unread record; the conclusions hold; the notebook ends |
| Iceberg notebooks (lak1 to lak10), `iceberg_meta.py` | metadata, snapshots, tags, files, kernel variables | write, merge, compact, expire, roll back, tag, alter, remove orphans | Spark, Iceberg | driver death between files and commit, expiry of a snapshot in use, a cell run twice | a retained snapshot has its files and its rows; the conclusions hold; a notebook can be run from the top |
| dbt models, snapshot, tests | marts, SCD2 history, quarantine | full refresh, merge, append, snapshot, split, reconcile | Spark, Delta | NULL high-water mark, late rows, three-valued rules, tiers that change between runs | the facts are complete, the split accounts for every row, the as-of query is exact |
| `dbt-polyglot` | none | transpile at compile time | dbt | falls back to the untouched SQL | a rewrite keeps the query's meaning |
| Spark notebooks (spk1 to spk10), `spark_session.py`, `profiles.py`, `metrics_diff.py`, `datagen.py` | session, knobs, views, cache of the server; frames and results of the kernel | set a profile, build, cache, explain, measure, compare, reconnect, tear down | Spark Connect, its REST API | a session dies under a cell, a profile is half set, the cache is shared, stages are listed late | a measurement is of what its label names; teardown restores the server, but for its own overrides |
| Entrypoint, compose, `conf/` | the server's process | start, poll the PID, exit, restart | Docker | death noticed late | the server comes back |
| `docs/`, incident simulator, ad hoc notebook | none | exercises and prose | | | |

`PROJECT.json` lists these with their status, and the hazards with the line at
which each bites and the properties that would catch it.

## 2 The modules

    CdcEvents ── CdcSource ──┬── CdcMirror ── MCCdcMirror      (implements Replica)
                             └── CdcStream ── MCCdcStream
    CdcLifecycle
    AirflowDag ── Cap1Pipeline
    PartitionRuns
    WindowCounts ── StreamRuns
    Kernel ──┬── IcebergNotebooks     (each table implements IcebergTable)
             ├── KafkaNotebooks ── KafkaBroker
             └── SparkNotebooks ── SparkServer
    OrdersMarts, QualitySplit, CustomersSnapshot ── MCDbtMarts

and the modules that hold the theorems:

    CdcSource_proofs ──┬── CdcMirror_proofs
                       └── CdcStream_proofs
    Pipelines_proofs                  (AirflowDag and Cap1Pipeline; WindowCounts and StreamRuns)
    KafkaNotebooks_proofs             (Kernel, KafkaBroker and KafkaNotebooks)
    IcebergNotebooks_proofs           (Kernel and IcebergNotebooks, with IcebergTable)
    SparkNotebooks_proofs             (Kernel, SparkServer and SparkNotebooks)
    Leftovers_proofs                  (CdcLifecycle, PartitionRuns, IcebergTable alone,
                                       and the dbt models)

**CdcEvents** is the pure part: the filter of tombstones (`Changes`), the dedup
of `row_number() over (partition by id order by lsn desc) = 1` (`Newest`) and
the MERGE (`Merged`, `MergeInto`). Two events of a key may have one LSN; then
`CHOOSE` stands for whichever `row_number` keeps; the choice is immaterial,
because two events of one key and LSN carry one row (`EventsFaithful` in `CdcSource_proofs`).

**CdcSource** follows one registration of a connector. The log keeps with each
record the table it left behind, so that "the row as of LSN n" is
`wal[n].table[k]`. `StartTask` decides between snapshot and streaming as
`snapshot.mode` says; `SnapshotRow`, `FinishSnapshot` and `StreamNext` are the
task; `CommitOffset` and `ConfirmSlot` are the worker's offset flush and its
confirmation to Postgres; `Pause`, `Resume`, `RestartTasks`, `Crash` and
`Recover` are CDC-9's operations. Debezium and Connect are external: what they
do is what the notebooks rely on. `upto` and `lost` are auxiliary and read by
no guard: the LSN up to which the topic accounts for a key, and the keys whose
row vanished before a re-snapshot without a delete on the topic.

**CdcMirror** adds the batch sink. `MergeChanges` is the whole of `ingest`'s
sink half: read, dedup, MERGE. `at` is auxiliary: `upto` and `lost` at the
last merge. **Replica** is the abstract promise, a copy that is empty or equal
to the table at some past moment and moves only forward. `ImplementsReplica`
maps `history` to the tables of the log, `copy` to the mirror and `at` to the
LSN merged.

**CdcStream** is the other sink over the same source: the checkpoint's offset
log (`batch`), its commit log (`commit`), and a query that may die in between.

**CdcLifecycle** is one connector name over several runs. The client's program
is a sequence of steps (`Teardown`, or what CDC-4 does, `Cdc4Cleanup`); each
step is one call, and Connect's task starts, publishes, stores offsets and
stops on its own. Rows are abstracted to generations: one per seeding.
A connector is STOPPED some time after it was told (`ReportStopped`), and its
task ends and stores a last offset in its own time (`StopTask`), before or after
that: the poll of `reset_offsets` looks at the connector's state only.
`late` is auxiliary: which of `reset_offsets` and `drop_slot`, when last made,
came before the task had ended.

**AirflowDag** holds the wiring, rules and retries of four DAGs as data and the
scheduler as actions. **Cap1Pipeline** runs the capstone's stages in it: a
stage is a sequence of statements, executed one at a time, and `FailStage` may
happen between any two. `NextRun` makes new task instances, whose attempts are
counted from the first again.

**PartitionRuns** is af1 and af3: which intervals get runs (`Due`) and what
attempts leave in a file that `open(path, "w")` empties first.

**StreamRuns** runs four notebooks cell by cell. A cell is a record: whether it
recreates the topic, the tables it drops, the checkpoints it removes, the
records it produces, the queries it awaits. A cell that failed is run again with
all it does: str2's two cells that produce and stream, and str1's straggler,
then produce once more (`repeated`). A query plans a batch in its
checkpoint, appends it to the table in one snapshot, and commits it. `cwd` is
the kernel's directory, because `shutil.rmtree(".tmp/...")` reaches the
server's checkpoints only from the repository's root. **WindowCounts** is
str1's watermarked count, what one micro-batch makes of the state; time is in
ticks of which three make a minute (:00, :30, :57, the seconds the notebook
uses).

**Kernel** is what the notebooks of the next three modules share: cells run in
order, each a sequence of operations; under any of them the cell may fail
(`Die`), and is then run again from its first operation (`RetryCell`) or the
notebook from its top in a new kernel (`FromTop`). A notebook is data: a cell
is a tuple of operation records, one per statement that touches shared state,
and the actions of the extending module say what an operation does.

**IcebergNotebooks** has the scripts of lak1 to lak10 on two tables `t` and
`u`. A write stages files (`WriteFiles`) and then commits a snapshot
(`CommitWrite`); an expiry commits (`ExpireSnapshots`) and then deletes
(`Reclaim`); a death may fall between. `meta[t]` is the table's metadata, with
the files of a snapshot grouped in manifests, position deletes naming rows of
other files, and columns known by id. `before`, `real`, `strays` are the
kernel's variables (`snapshots()`, `disk_files()`, `orphans`), `old` the files
it has backdated. `Refused` collects what Iceberg and Spark reject. The
abstract **IcebergTable** knows only snapshots, files on disk, pending and
doomed files, and promises that the first are whole; `Promise(t)` is the
refinement mapping.

**KafkaNotebooks** has kaf1 to kaf5 and the helpers: `ensure_topic` step by
step (`RequestDelete`, `Create`, `CreateRefused`, `GiveUp`), producers event by
event, readers record by record with their commit, which `consumer_timeout_ms` may end
anywhere (`TooLate`), and kaf3's five consumers.
**KafkaBroker** is external: topics vanish some time after their deletion
(`Vanish`), retention and the cleaner shorten logs (`Retain`, `Compact`), and
the group goes through joining, syncing and stable, with ghosts of consumers
that a dead kernel left.

**SparkNotebooks** has spk1 to spk10. A `measure` asks the UI, runs, and polls
the UI (`AskUI`, `RunMeasured`, `ReadUI`); a frame belongs to the session it
was built on and dies with it; knobs, views and cache are the server's.
**SparkServer** holds the profiles, the generators' key functions and an
external planner: which join, how many reduce tasks, whether a task straggles
or spills, as far as the notebooks' texts and labels say. Sizes are scaled down
to knobs that are on or off for them. `resumed`, `warm` and `disturbed` are auxiliary:
they record that a cell went on after a reconnect, found a cache already
filled, or was disturbed by another notebook.

**OrdersMarts**, **QualitySplit** and **CustomersSnapshot** are the stateful
dbt models: `fct_orders` and `fct_orders_evolving` over a staging view cut at
`load_through`; the clean and quarantine tables under SQL's three-valued logic
and the test that counts them; and the type-2 snapshot, where time is the
number of the run. **MCDbtMarts** puts them in one specification, one lab per
behaviour, since the labs share no table.

Operators marked `mutant` in a comment are not part of the models: each is a
plausible slip in the code (a dropped clause, a swapped order, a missing retry)
that makes some property fail, which shows that the property depends on the
line it replaces. `PROJECT.json` pairs them.

## 3 What is checked

Eleven runs pass, and one ends with a counterexample that section 6 explains.

| Run | Instance | Shows |
|---|---|---|
| `cdc_mirror` (`CdcMirror.cfg`) | 2 keys, 2 values, all three modes, 2 writes, 1 bounce at any phase; 279,000 states | `MirrorTypeOK`, `TopicExact`, `AtLeastOnce`, `MirrorExact`, `MirrorForward`, `ReplayIsNoOp`, `MirrorCatchesUp` |
| `cdc_replica` (`CdcReplica.cfg`) | mode `initial`, writers and merges wait for the snapshot; 20,000 states | `ImplementsReplica` |
| `cdc_stream` (`CdcStream.cfg`) | modes `initial`, `always`, 1 bounce once an offset is stored, 1 death of the query; 390,000 states | `RerunIsNoOp`, `ExactWhenDrained`, `StreamCatchesUp` |
| `cdc_lifecycle` (`CdcLifecycle.cfg`) | 3 runs, 2 polls, 2 retries, 2 interrupts; 15,000 states | `CleanSlate`, `SnapshotsUnlessLate`, `TopicOfThisRun`, `CleanUpEnds` |
| `airflow_runs` (`Airflow.cfg`) | 4 DAGs, 2 clearings or further runs, 2 seedings; 124,000 states | `MartOfThisRun`, `NothingLeft`, `FailureShowsElsewhere`, `CleanupAlwaysRuns`, `FlakyAbsorbed` |
| `partitions` (`Partitions.cfg`) | 2 intervals, 2 reruns, 1 pause, 2 hash seeds; 7,000 states | `PartitionWhole`, `NoIntervalMissed` |
| `stream_runs` (`StreamRuns.cfg`) | 4 notebooks, both directories, watermark delay 1 and 2, 2 driver deaths, 2 runs from the top, 6 records; 65,000 states | `ExactlyOnce`, `WindowsFinal`, `ReconcilesUnlessOrphaned`, `StreamsStop` |
| `iceberg_notebooks` (`Iceberg.cfg`) | 10 notebooks, 2 driver deaths, 1 run from the top; 94,000 states | `RefusedOnlyOnRetry`, `Proved`, `ImplementsTable`, `MaintenanceKeepsRows` |
| `kafka_notebooks` (`Kafka.cfg`) | 5 notebooks, 1 fault, 1 run from the top, up to 5 clients on 3 partitions; 139,000 states | `AtLeastOnce`, `Proved`, `NotebookEnds` |
| `spark_notebooks` (`Spark.cfg`) | 10 notebooks, 4 rows, 2 salts, 2 partitions, 1 fault, 1 run from the top; 113,000 states | `LabelsHold`, `TeardownRestores` |
| `dbt_marts` (`DbtMarts.cfg`) | 3 orders, 3 hours, lookbacks 0 to 2; 2 rows of 7 kinds, 2 seedings; 2 customers, 2 tiers, 3 changes, 3 snapshots; 40,000 states | `MartsComplete`, `SplitReconciles`, `AsOfExact` |
| `cap1_dag_failure` (`Cap1DagFailure.cfg`) | cap1's DAG alone | a counterexample to `FailureShows`, section 6 |

Every module also defines its type invariant (`...TypeOK`); the instances
satisfy them, and a reader can add them to a configuration. `AtLeastOnce` and
`Proved` name a property in two modules each: those of the module that the run
is of. Ten more configurations end with counterexamples that illustrate
section 7 and belong to no run of `PROJECT.json`.

What the properties say, in one line each:

- `TopicExact`: the newest event of a key is its row at the LSN the topic
  accounts for, whatever crashed or was emitted twice.
- `AtLeastOnce`: every change up to the stored offset is on the topic, and the
  slot is never confirmed past it.
- `MirrorExact`, `MirrorForward`, `ReplayIsNoOp`, `MirrorCatchesUp`: the mirror's
  rows are the source's at the LSN merged; a merge never takes one back; merging
  again changes nothing; once writes stop, merges reach the table.
- `ImplementsReplica`: stronger than `MirrorExact`: the mirror as a whole is one
  past table. It needs complete snapshots, hence the premises of its run.
- `RerunIsNoOp`, `ExactWhenDrained`, `StreamCatchesUp`: the streaming sink may
  run a batch again, and converges however the topic is cut into batches.
- `CleanSlate`: once `drop_slot`'s retries outlived the old task, nothing of an
  earlier run is there when the next one seeds, except an offset if the last
  reset came before the task had ended. `SnapshotsUnlessLate`: but for such a
  reset, the task of a run that is up has snapshotted that run's own table. A
  reset that came too early is made good by a later one that does not.
  `TopicOfThisRun` needs only that `drop_slot` did not give up: the drop succeeds
  once the task is gone, which is why it must come before the topic's deletion.
- `CleanUpEnds`: a clean-up ends even if Connect never answers as hoped.
- `MartOfThisRun`, `NothingLeft`: whatever earlier deaths and clearings left,
  the mart is of this run's ingest, and a successful teardown leaves nothing.
- `CleanupAlwaysRuns`, `FailureShowsElsewhere`: what the DAG files promise of
  their trigger rules. `FlakyAbsorbed`: in every run, first or later, cleared or
  not, af4's flaky task succeeds or pages in the end; each page follows three
  retry alerts, so that the two failures it is written to have never page and a
  third, a worker's death, does not either; the load runs only after an attempt
  that succeeded.
- `PartitionWhole`, `NoIntervalMissed`: a successful attempt leaves exactly its
  own rows; with catchup every elapsed interval gets a run.
- `ExactlyOnce`, `ReconcilesUnlessOrphaned`: while checkpoint, table and topic
  live and die together, each record lands once, the last cell finds every record
  of the topic once, and as many as it expects unless a cell that produces was
  run again. `WindowsFinal`: each event is in one final window, open, or was late
  behind events before it. `StreamsStop`: no bounded stream is awaited for ever.
- `RefusedOnlyOnRetry`: after any deaths a notebook run from its top goes
  through; only a cell that failed half way may be refused when it is run again.
- `Proved` (Iceberg, Kafka): what a notebook prints or asserts as its
  conclusion holds whatever died, was run again, vanished or was compacted
  before. For Iceberg that is all but lak9's second conclusion (section 7). For
  Kafka, a read-back may be cut short anywhere by `consumer_timeout_ms`: what is
  concluded from a whole log is claimed of read-backs that came to its end
  (`Whole`), the rest of any; and what kaf1 and kaf3 conclude from the number of
  partitions is claimed unless `ensure_topic` gave up.
- `ImplementsTable`: both tables of a notebook implement `IcebergTable`.
  `MaintenanceKeepsRows`: compaction, expiry, orphan removal, tags and schema
  changes leave every retained snapshot's rows alone.
- `AtLeastOnce` (Kafka): an offset the group committed covers only records it
  has read of the topic as it is now. `NotebookEnds`: no read, send or wait goes
  on for ever.
- `LabelsHold`: a measured run has the join, tasks, skew, spill, partitions,
  cache hit and code generation that its label names, and the fixes return the
  same rows. `TeardownRestores`: who reaches the end leaves no view, an empty
  cache and every knob tuned or at its default, but for three overrides
  (`LeftSet`, section 7). Excused by name (`Excused`): spk1's salted run after
  a reconnect, since it sets no profile, and spk8's accesses when another
  notebook has cleared or filled the cache.
- `MartsComplete`: `fct_orders`, if it is not empty and every lookback covered
  every order's lateness, is what had landed by the latest `load_through`;
  `fct_orders_evolving` has no order twice, and all of them if they land in the
  order of their ids. `SplitReconciles`: the reconcile test passes exactly when
  every row is in one mart and not the other, which is so without NULLs.
  `AsOfExact`: the as-of query for the time of any earlier run gives the one
  tier that run saw, and nobody has two current versions.

### Bounds and why they are enough

Two keys let an event of one key fall between those of another and a snapshot
be half done; two values tell an old row from a new one. Two writes make
insert then delete, update then update, and delete then insert of a key.
One bounce puts a crash, restart or pause at every point, with redelivery of
every length the log allows; the proofs of section 5 have no bound on either.
Three runs under one name are a leftover, a run that meets it, and the run
after that. `MaxPolls` and `MaxTries` of 2 stand for 10 and 5 rounds: a loop
that succeeds at once, later, or never. Two clearings or further runs, in any
mix, meet every leftover a first run can leave, and what a cleared run leaves
to a new one; attempts are bounded by the retries themselves. Two deaths of the
driver hit one batch before and after its append, or two batches; two runs
from the top meet the checkpoints of one run and of a run that met some.
For the Iceberg notebooks two deaths hit a cell and its second attempt, or two
cells, and one run from the top meets what they left; a write has two places to
die, so that more deaths add no new leftover. For Kafka and Spark one fault is
enough to reach every leftover a cell can leave to its own second run or to the
next kernel, and the broker's steps are not bounded at all. Six records in a
topic of `StreamRuns` are the three that a run produces and three more: a cell
of str2 and its successor repeated, or str1's straggler three times; only its
first cell failing twice would need a seventh. Two or three rows
per batch tell a copied row from a new one and a pruned partition from a read
one; in spk1 the salt of every row is chosen freely, so that the salted join is
compared for all salts. Three orders and hours make an early, a late and a tied
one under every lookback; the seven kinds of row are one per rule, one per NULL
and a combination; three runs of the snapshot make a tier change, come back and
go. The proofs of section 5 lift these dbt bounds.
Topic sizes (500, 1000, 60 events) are abstracted to two or three records: the
code tells good from poison, burst from burst, on time from late.

`CHECK_DEADLOCK FALSE` stands where the system may stop: a dbt lab out of changes, a notebook at its last
cell, a DAG run that nobody clears, a source out of writes and bounces whose
streaming sink is drained, a client that has done its last run, a DAG whose
days are over.

## 4 Fairness

Weak fairness is assumed of what a running process does next: the connector's
task and worker, a resume after a pause (`MirrorCatchesUp` speaks of a
connector that is not left paused), the merge, the streaming query and
`awaitTermination`, the scheduler, a client in the middle of a clean-up.
Nothing is assumed of people and accidents: writes, pauses, restarts, crashes,
rebuilds, interruptions, clearings and reruns may happen or not. Connect gets
no fairness in `CdcLifecycle`: `CleanUpEnds` holds if it never stops a task,
because both loops of the client are bounded. In `PartitionRuns` only the creation
of a due run is fair, and `NoIntervalMissed` has the premise that the DAG does
not stay paused.

In `KafkaNotebooks` the kernel's own steps are fair while a cell runs: Jupyter
goes on with it, and every client call has a timeout. Of the broker only
`Vanish` is fair, a deletion that was requested takes place; retention,
compaction and session timeouts may happen or not. `NotebookEnds` says that a
notebook comes to its end or to a failure; what follows a failure is the
user's. The Iceberg, Spark and dbt specifications claim safety only and assume
no fairness.

## 5 What is proved

The modules state what they assume of their constants (`ConstantsAssumption`,
`SinkAssumption`, `LifecycleAssumption`, `DagAssumption`, `SeedAssumption`,
`PartitionAssumption`, `StreamRunsAssumption`, `KernelAssumption`,
`KafkaAssumption`, `NotebooksAssumption`, `DataAssumption`, `SparkAssumption`,
`OrdersAssumption`, `SplitAssumption`, `SnapshotAssumption`): of what kind they are, that `Absent`, `Null`, `Gone` and
the like are not data, and which DAGs or notebooks there are to choose from.
Under these the theorems hold for every number of keys, values, writes, bounces,
runs, polls, retries, interruptions, clearings, deaths, reruns, days, orders,
rows and customers. A hypothesis beyond them stands in the theorem:

| Theorem | States |
|---|---|
| `CdcSource_proofs!TypeCorrect` | `SourceSpec => []TypeOK` |
| `CdcSource_proofs!TopicIsExact` | `SourceSpec => []TopicExact` |
| `CdcSource_proofs!NothingSkipped` | `SourceSpec => []AtLeastOnce` |
| `CdcMirror_proofs!MirrorTypeCorrect` | `Spec => []MirrorTypeOK` |
| `CdcMirror_proofs!MirrorIsExact` | `Spec => []MirrorExact` |
| `CdcMirror_proofs!MirrorMovesForward` | `Spec => MirrorForward` |
| `CdcMirror_proofs!ReplayChangesNothing` | `Spec => ReplayIsNoOp` |
| `CdcMirror_proofs!MirrorImplementsReplica` | `Spec => ImplementsReplica`, if `CompleteBatches` |
| `CdcStream_proofs!StreamTypeCorrect` | `Spec => []StreamTypeOK` |
| `CdcStream_proofs!RerunChangesNothing` | `Spec => []RerunIsNoOp` |
| `CdcStream_proofs!DrainedMirrorIsExact` | `Spec => []ExactWhenDrained`, if `AlwaysCaptured` |
| `Leftovers_proofs!LifecycleTypeCorrect` | `LifecycleSpec => []LifecycleTypeOK`, if `Cleanup = Teardown` |
| `Leftovers_proofs!TeardownLeavesCleanSlate` | `LifecycleSpec => []CleanSlate`, if `Cleanup = Teardown` |
| `Leftovers_proofs!RegistrationRunsSnapshot` | `LifecycleSpec => []SnapshotsUnlessLate`, if `Cleanup = Teardown` |
| `Leftovers_proofs!TopicBelongsToRun` | `LifecycleSpec => []TopicOfThisRun`, if `Cleanup = Teardown` |
| `Pipelines_proofs!PipelineTypeCorrect` | `PipelineSpec => []PipelineTypeOK` |
| `Pipelines_proofs!MartIsOfThisRun` | `PipelineSpec => []MartOfThisRun` |
| `Pipelines_proofs!CleanupLeavesNothing` | `PipelineSpec => []NothingLeft` |
| `Pipelines_proofs!FailureIsShown` | `PipelineSpec => []FailureShowsElsewhere` |
| `Pipelines_proofs!StreamRunsTypeCorrect` | `Spec => []StreamRunsTypeOK` |
| `Pipelines_proofs!SinksAreExactlyOnce` | `Spec => []ExactlyOnce` |
| `Pipelines_proofs!WindowsAreFinal` | `Spec => []WindowsFinal` |
| `Pipelines_proofs!NotebooksReconcile` | `Spec => []ReconcilesUnlessOrphaned` |
| `KafkaNotebooks_proofs!KafkaTypeCorrect` | `Spec => []KafkaTypeOK` |
| `KafkaNotebooks_proofs!CommittedIsRead` | `Spec => []AtLeastOnce` |
| `IcebergNotebooks_proofs!IcebergTypeCorrect` | `Spec => []IcebergTypeOK` |
| `IcebergNotebooks_proofs!TablesImplementIceberg` | `Spec => ImplementsTable` |
| `IcebergNotebooks_proofs!NotebookSnapshotsReadable` | `Spec => []` for both tables, `Readable` and `PinnedRetained` |
| `IcebergNotebooks_proofs!MaintenanceKeepsSnapshots` | `Spec => [][...]_vars`: retained snapshots read as before, and so does the table under maintenance other than a compaction |
| `IcebergNotebooks_proofs!RefusalsAreRetries` | `Spec => []RefusedOnlyOnRetry` |
| `SparkNotebooks_proofs!TeardownIsComplete` | `Spec => []TeardownRestores` |
| `SparkNotebooks_proofs!LabelsAreTrue` | `Spec => []LabelsHold` |
| `Leftovers_proofs!RerunReplacesPartition` | `PartitionSpec => []PartitionWhole` |
| `Leftovers_proofs!SnapshotsReadable` | `Spec => [](Readable /\ PinnedRetained)`, for the abstract table |
| `Leftovers_proofs!SnapshotsImmutable` | `Spec => Immutable`, for the abstract table |
| `Leftovers_proofs!MartsAreComplete` | `OrdersSpec => []MartsComplete` |
| `Leftovers_proofs!ReconcileIsSound` | `SplitSpec => []SplitReconciles` |
| `Leftovers_proofs!AsOfIsExact` | `SnapshotSpec => []AsOfExact` |

- `CompleteBatches`: mode `initial`, writers and merges that wait for the
  snapshot without giving up, no bounce before an offset is stored, a finite
  table with a row in it. It is the instance of `cdc_replica`; without it a
  merge in the middle of a snapshot takes rows from a half-told table, and the
  mirror is exact row by row (`MirrorIsExact`) but no copy of one moment.
- `AlwaysCaptured`: no mode `never`, as in `cdc_stream`. Under `never` the rows
  of before the registration are not on the topic.
- `Cleanup = Teardown`: what the capstone does. Under CDC-4's clean-up two of
  the properties are false, which `CdcLifecycleCdc4.cfg` shows.

Each proof has the same shape: an inductive invariant, one lemma per action, or
per conjunct where the invariant is long, and a last step in temporal logic. The
invariants were checked by TLC on the instance of the component's run first.

**The source.** `TypeOK` is not inductive. That `pos + 1` is the
record of a row's change needs the log to be one seeding and then changes of one row
each (`LogInv`), and that the slot, the start of the capture, the stored offset
and the task's position are in step with the mode and the phase
(`PositionInv`). With `TypeOK` they are `SourceTypeInv`.
`TopicExact` is about the newest event of a key. It is kept by `TopicInv`: no
event of a key is past its `upto`, and a snapshot is ahead of every `upto`
(`UptoInv`); halfway through a snapshot the keys that are done are exact at its
LSN (`SnapshotInv`); and every key with an event has a newest one
(`NewestInv`), which is carried from step to step because an induction over
the topic's length would need a theorem that takes an operator as parameter.
`AtLeastOnce` is kept by `DeliveredInv` (no change before the position, the
stored offset or a key's `upto` was left out) and `SlotInv` (the slot trails
the offset, and the offset the task). All of it together is `SourceInv`.

**The mirror.** `MirrorExact` joins the sink in `MirrorInv`: a delete leaves no row
(`DeleteInv`); each mirrored row has an event (`KnownInv`), so a MERGE reaches
every row it has to replace; the merged position is behind the topic's
(`BehindInv`); and a mirror just merged is what the topic tells (`FreshInv`),
which gives `ReplayIsNoOp`. The lemma `MergedIsTold` is the heart: on such a
mirror, dedup and MERGE give exactly `Told(topic, k)` for every key.
`LogGrows` and `TopicGrows` carry old facts past new records and events.
For the refinement of `Replica` all rows must be of one moment (`CopyInv`):
nothing happens before the registration (`RegisterInv`); during the snapshot
every seeded key is either on the topic or due, so that a topic as long as the
seed is a whole snapshot (`SnapshottingInv`, a count, hence the finite
table); afterwards the topic accounts for all keys up to one LSN
(`StreamingInv`). A merge then maps to a step forward of `Replica`, a rebuild to
its emptying, and every other step to a stutter or to a write.

**The streaming sink.** A batch is a piece of the topic, and redelivery means
that an old change may arrive in a later batch. `RerunIsNoOp` is inductive with
what is known of the source (`StreamTypeInv`). `ExactWhenDrained` is not a
matter of one batch: the last change of a key on the topic settles its row at
the task's position, and at the offset from which the task would redeliver
(`TailInv`, on `Settled`: from that change on, no older change may still be
missing its newer one); while a start may still snapshot, nothing was
redelivered (`OrderInv`); the task is never ahead of what is accounted for
(`AheadInv`). `BatchInv` says that a row of the mirror is the value of a change
no older than the key's last one among the records merged, for a query that died
after its MERGE and before its commit as well.

**The lifecycle.** Each clause of `LifecycleInv` says what is behind the client
at one call of `teardown` and why Connect cannot undo it in its own time: in
which state the connector is, never running again between the stop and the next
registration (`Told`), no offsets and nobody to store one once the reset came
after the task's end, for as long as there is no connector (`Reset`), no slot and
nobody to publish once `drop_slot` outlived the task (`Released`), a table
whenever a task can start (`Seeded`), and a task that starts without an offset
takes a snapshot (`Snapshots`). The order of the calls is what carries it; that
a connector is STOPPED carries nothing, since its task may still be ending.

**The DAGs and the capstone.** `DagInv` is about the scheduler: a task that ran
has its upstream tasks behind it (`Ordered`), a task that is `upstream_failed`
has a failure to blame (`Blamed`), cap1 skips nothing; `Budgeted` bounds the
attempts of a run. Hence stages never overlap although they share tables. `StagesInv`
says what the statements left to a stage say about the tables (`IngestInv`,
`TransformInv`, `CleanupInv`), where `TodoInv` says that what is left is a
suffix of the stage. `FailureIsShown` walks from a failed task to a leaf along
edges on which a failure cannot be hidden.

**The streaming notebooks.** `StreamRunsInv` has one part per query
(`QueryInv`): at most one batch is planned that is not committed and no append
is ahead of the plan (`Batches`); of a query whose checkpoint and table live
together, the table has the batches up to its epoch once each (`Landed`), and
STR-1's state is what the last batch in the table makes of the one before it, by
whose watermark its windows were closed (`Counted`). What the last cells compare
rests on `FullInv`, which follows the queries that ran to the topic's end from
cell to cell, and on `LengthInv`: the topic is as long as the cells so far have
made it, as long as none of them produced a second time. Writing this invariant showed a conjunct of
`StreamRunsTypeOK` to be wrong of a query whose checkpoint outlived its table:
it asked the epochs of both to agree, and was removed.

**The Kafka notebooks.** `KernelInv` and `AtInv` say where the kernel is in its
script, `CreatingInv` and `AttemptsInv` bound `ensure_topic`'s retries.
`CommittedIsRead` needs that a topic which a group consumes is dense
(`LogsInv`: only topics of another policy lose records), and that a reader has
read all below where it is and its topic cannot go while it reads, wherever a
timeout ends the read (`ReadsInv`). `MembersInv` says that the members of a group
are consumers the kernel has open, which is all that is needed of the coordinator.

**Partitions and the Iceberg table.** `PartitionWhole` needs that a running
attempt's file is the beginning of its own rows (`Begun`), because the attempt
emptied it. `Readable` and `PinnedRetained` are not inductive
alone: a commit takes pending files, and an expiry deletes doomed ones later.
`FilesApart` says that pending files are on disk and no snapshot's, and that doomed
files are neither referenced nor pending.

**The Iceberg notebooks.** `IcebergInv` has four parts. `KernelInv` says where
the kernel is in its script; of the scripts only what all their operations have
in common is used (`Scripts`: each is on one of the two tables, an expiry
retains something, a table is created with a mode), so that the proof is of the operations and not of their
order. `MetaInv`: the current and the tagged snapshots are kept, and a
snapshot's parent is older than it is, hence the head is the newest of its own
ancestors and an expiry retains it (`RetainedIs`). `DiskInv`: the files that kept
snapshots need are on disk, files are named after past writes and no file is
in two directories, so that a new write overwrites nothing (`PlansFresh`) and
an expiry of one table dooms nothing of the other. `PhaseInv`: what a write has
staged is on disk until it commits, and what an expiry dooms is needed by
nobody; between operations nothing is in progress. One lemma per action shows
that it maps to a step of `IcebergTable` or a stutter for each table (`StepOK`).
A table is created where there was none, so that a create maps to a stutter or a
commit, never to `Drop`.
`MaintenanceKeepsSnapshots` follows step by step: a refined step changes no
kept snapshot's files and takes none from disk, so that what a reader gets is
the same. Writing this proof showed that a tag on a table without a snapshot
would have named snapshot 0; Spark refuses it, and so does `Refused` now.

`RefusedOnlyOnRetry` is about the order of the operations. What an operation
needs is a set of facts (`Needs`): the table is gone, or there; it has a column,
or has it not; it has no tag; a snapshot is current; the remembered snapshot is
on the current line; the strays that were listed are still on disk. With these
facts the catalog does not refuse it (`NeedsMet`). About the scripts alone it is
shown that each operation of each notebook is given what it needs by an earlier
one (`Gives`), with none between them that may break it (`Breaks`,
`ScriptsProvide`). The invariant `FactsInv` on the states says that a fact that
was given and not broken since (`Assured`) holds now. It allows for an operation
that has begun and for a cell that failed, all of which may have been done: in
such a cell a fact from an earlier cell counts only if no operation of the cell
breaks it. That is why a repeated cell may be refused and the cells after it may
not. A step keeps a fact that its operation does not
break (`OfWrites` to `OfKernelSteps`), an operation that is done has made its
facts hold (`IsGiven`), and nothing else becomes assured when the kernel moves,
fails, repeats a cell or starts from the top (`AfterFinish` to `AfterFromTop`).
TLC found no violation of `FactsInv` in the ten notebooks before it was proved.

**The Spark notebooks.** `TeardownRestores` speaks of the end of a notebook,
and a notebook that was resumed has jumped over cells. `SparkInv` says where
the kernel is (`KernelInv`, `PhaseInv`), that whoever has switched the code
generation off is still in the cell that switches it on again and nobody
resumes from before it (`CodegenInv`), that no override is set but the
notebook's own (`OverridesInv`, by what the operations of its script can set,
`SparesOp`), and what the last cell has restored so
far, which includes that it drops every view there is (`FinalInv`).

`LabelsHold` speaks of every run that is shown. A part of its proof is about the
scripts alone (`ScriptsBacked`): an operation that shows a run under a label is
backed by the one or two before it in its cell, which set the knobs or the
cache that the label names; or the label holds under any knobs, because of a
hint; or it is one of four cells that go on with what an earlier cell left
(`GoesOn`: spk1's salted run, spk5's two measured joins, spk8's first accesses).
What an operation sets and what a label needs are matched by the lemmas on the
planner (`JoinsYield`, `AggregationsYield`, `JoinsLoseNothing`). The other part
is `LabelsInv`, on the states: within a cell the knobs and the cache are still
as set (`KnobsInv`, `CacheInv`), because an interruption or a death fails the
cell and only another notebook's teardown reaches into it; the cells that go on
find what they need, or have no live frame to run on, or are excused (`SaltInv`,
`StrategyInv`, `WarmInv`); a run that is under way has a live session
(`LiveInv`); and what is shown, and what is being measured, fits its label or
is excused (`RunsInv`). spk5 needs no excuse although it may be resumed: a new session broadcasts by
default, and in it the frame of the sort-merge join is dead, so that its
measurement is refused until its own cell, with its profile, builds it again;
this is what `StrategyInv` says with `Usable`.

**The dbt models.** `MartsAreComplete` rests on two facts: what a merge skips
is behind the high-water mark by at least the lookback and therefore, if the
lookback covers the lateness, was loaded at an earlier run; and ids appended
are above all that are there. `ReconcileIsSound` needs that no row both passes
and fails (`NeverBoth`), that a row without a NULL does one of them
(`OneIfKnown`), and that two disjoint parts of a finite set count as much as
the set exactly if they cover it (`CountCovers`). `AsOfIsExact` is carried by
`OneAt` and `SeenAt` for every time and customer, and by `Dated`, the span of a
version lies in the runs there were: a run changes no span before its own
number (`ClosedThen`, `NewThen`), and at it only kept current versions and new
ones count (`ClosedNow`, `KeptNow`, `NewNow`), which never belong to one
customer (`OpenedNotKept`).

**Only model-checked.**

- Liveness (`MirrorCatchesUp`, `StreamCatchesUp`, `CleanUpEnds`,
  `CleanupAlwaysRuns`, `FlakyAbsorbed`, `NoIntervalMissed`, `StreamsStop`,
  `NotebookEnds`): TLAPS does not reason about fairness and `ENABLED`.
- Kafka's and Iceberg's `Proved`: they are about what each cell of five and ten
  given scripts concludes from the data all cells before it wrote, as counts and
  bags of rows that are folded over sets, so that an invariant would be a table
  of states per operation with inductions over the data; TLC goes through all
  of them.
- That a compaction keeps the rows, the one clause of `MaintenanceKeepsRows` that
  `MaintenanceKeepsSnapshots` leaves out: the rows of the new files are collected
  by folds over sets and `SelectSeq`, and that these keep a bag's counts needs
  an induction over the data.

## 6 Where code and text disagree

| Run | Property | Disagreement |
|---|---|---|
| `cap1_dag_failure` | `FailureShows` | A failed quality gate should fail "the task (and the DAG)"; the always-running `cleanup` is the only leaf, so the DAG run succeeds. |

Section 7 starts with ten further disagreements, each with a configuration
that shows it.

## 7 Known limits the models show

Where a text promises more than the code does (the configuration named ends
with a counterexample):

- `CdcStreamReplay.cfg` (`MCCdcStream`), `OlderNeverOverwrites`:
  `failure_modes/README.md` (94 to 96) calls CDC-7 an upsert "with an
  LSN-monotonic guard". The MERGE at `cdc7_upsert_pipeline.ipynb:185` has none
  and the mirror keeps no LSN: a redelivered older change overwrites a newer
  row until the redelivery catches up. As a batch over the whole topic
  (`MirrorForward`) it cannot.
- `CdcLifecycleCdc4.cfg` (`CdcLifecycle`), `SnapshotsUnlessLate`: CDC-4 is
  "idempotent" (`event_envelope/README.md:21`), but deletes its second
  connector without resetting its offsets (`cdc4_event_envelope.ipynb:55`): a
  second run gets no snapshot, as `reset_offsets`' own docstring warns.
- `Kaf6Reconciles.cfg` (`StreamRuns`), `Reconciles`: "start clean"
  (`kaf6_poison_pill.ipynb:75`) removes checkpoints under the kernel's
  directory, not the server's; run twice from there the notebook streams
  nothing and compares 0 with 503.
- `Str1Straggler.cfg` (`StreamRuns`), `StragglerDropped`: the watermark is
  10:00:57 when the straggler of the 10:00 window arrives
  (`str1_watermarking.ipynb:222`), so it is counted, not dropped.
- `SparkMetrics.cfg` (`SparkNotebooks`), `WallClockOnly`: `metrics_diff.py:90`
  promises None for the stage columns when the UI could not be reached; if only
  the ids of the earlier stages were lost (97), `measure` takes all stages the
  UI lists for its own (145).
- `CdcLifecycleReset.cfg` (`CdcLifecycle`), `OwnTaskSnapshots`: `teardown`
  resets offsets "so a same-named re-registration re-runs the initial snapshot"
  (`cdc_helpers.py:329`), but the poll ends when the connector is STOPPED (229):
  a task that is still ending stores its last offset after the DELETE, and the
  next run's task skips its snapshot. A clean-up that then finds no connector
  (223) does not make it good.
- `KafkaShortRead.cfg` (`KafkaNotebooks`), `WholeTopicRead`: `read_all` is a
  "read of a whole topic" (`kaf4_retention.ipynb:230`), but
  `consumer_timeout_ms` may end it before the log does, or with nothing read, and
  kaf4 compares such counts like any other. kaf5's counts fare the same, except
  that a read without a duplicate raises where the first one is printed (156).
- `Str2Rerun.cfg` (`StreamRuns`), `Str2Verdict`: str2 claims exactly-once "across
  crashes, redeploys, and re-runs" and ends with 1500 rows and 1500 ids. Its cells
  produce and stream (`str2_checkpoints.ipynb:123`, `:152`): one that failed and is
  run again sends its records again, and the last cell finds duplicates that are
  the producer's. Sink and checkpoint are as exact as before (`ExactlyOnce`).
  The same goes for str1's straggler.
- `Lak9Rollback.cfg` (`IcebergNotebooks`), `HistoryGrew`: lak9's second proof
  says that "history grew (rollback added a commit)"
  (`lak9_time_travel.ipynb:236`). As the models have it, `rollback_to_snapshot`
  makes an existing snapshot current again and adds none. `Proved` therefore
  claims of lak9 only that the rows are back, that every snapshot is kept and
  that the bad write can still be read.
- `SparkOverrides.cfg` (`SparkNotebooks`), `OverridesEnd`: spk1, spk5 and spk6
  "restore the production-tuned safety nets" (`spk1_data_skew.ipynb:276`,
  `spk5_join_strategies.ipynb:328`, `spk6_aqe.ipynb:336`) by a profile that does
  not name the overrides they set themselves: the skew-join thresholds scaled
  to a laptop (`spk1:194`, `spk6:216`) and `preferSortMergeJoin` (`spk5:193`) stay
  set until the session ends. `TeardownRestores` leaves out exactly these.

And:

- A re-snapshot cannot tell of a row that vanished before it: under `always`, a
  restart loses the deletes it had not streamed. `lost` names these keys, and
  `TopicExact`, `MirrorExact` and `MirrorCatchesUp` exclude them, as the
  failure-modes README says. No property catches this loss itself.
- Under `never`, rows that have not changed since the registration are unknown
  (`Captured`).
- `reset_offsets` returns False when its polls run out, and `teardown` does not
  look: then, as when the task stored an offset after the reset, the next
  registration may skip its snapshot. This is the premise `"reset" \notin late`
  of `SnapshotsUnlessLate`; `CleanSlate` excludes the offset alone.
- af1 and af3 derive values from `hash(ds)`, salted per process: a re-run
  replaces the partition whole but not with the same bytes. The rows of
  `PartitionRuns` carry the salt, and `PartitionWhole` claims no more.
- A row of `orders_quality_raw` with a NULL in a tested column is in neither
  mart (`orders_clean.sql:7`), though `dbt7_quarantine.md` calls the quarantine
  the exact complement; the reconcile test catches it. An empty `fct_orders`
  never fills again without a full refresh, and `fct_orders_evolving` never
  loads a late order with a smaller id: the premises of `MartsComplete`.
- spk8's and spk7's teardowns use what the run made: after a death spk8's
  `one_shot` belongs to a dead session, and spk7's `rmtree` runs in the
  kernel's directory, so the table stays on the server. spk10 passes a text
  default for a byte knob (`spk10_internals.ipynb:188`) and is refused there
  where the knob is not set.
- spk1's salted run inherits the knobs of the cell before it; after a reconnect
  it measures another plan. A cell of lak6, lak7 or lak10 that died half way may
  be refused when it is run again; from the top the notebook goes through.
- spk8's accesses that should hit the cache miss it when another notebook's
  teardown has cleared it, and its first access hits one that a killed notebook
  has filled. `LabelsHold` excuses both by name, so what it shows there is that
  nothing else makes these labels wrong.
- `ensure_topic` gives up silently after five refused creates
  (`kafka_helpers.py:47`); what follows runs against the old topic, or one with
  the broker's defaults. `gaveUp` names these topics, and Kafka's `Proved`
  excludes them for kaf1 and kaf3, whose conclusions rest on three partitions.

## 8 Not modelled

`dbt-polyglot` rewrites text with sqlglot's grammar, which is beyond a small
model; the remaining dbt models are stateless queries. af2, af8 and
`example_dag` show parsing cost and XCom size and have no order of steps to get
wrong. The ad hoc notebook, configuration of the services and prose keep no
state. Sizes and times (bytes of WAL, latency, throughput, run times of a
query) are left out everywhere; a timeout is a choice that may be taken, and
Spark's planner an external choice by knobs.

Within the modelled parts: one Kafka partition where the code uses several
without depending on it, one connector name (so slots that accumulate against
`max_replication_slots` are not seen), one DAG run at a time (so two runs of
cap1 over one mirror are not seen), one kernel per Iceberg table; REST errors
appear as interruptions only; a kernel is not interrupted while it awaits a
query in `StreamRuns`; `ensure_topic` and `produce_events` are atomic there and
step by step in `KafkaNotebooks`; lak1's Delta table is a second table of the
same kind; type widening, manifest and file sizes, plots and the arithmetic of
`measure`'s columns are left out.

## 9 Plan

1. Done: models and runs of all parts named in section 1 as far as section 8
   does not except them; the proofs of section 5.
2. Two capstone runs at once over one mirror; several connector names against
   `max_replication_slots=4`; CDC-1's raw slots and CDC-8's columns in
   `CdcSource`.
3. af5, af7 and af9 in `AirflowDag`.
