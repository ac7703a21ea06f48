----------------------------- MODULE StreamRuns -----------------------------
(***************************************************************************)
(* The notebooks that stream a Kafka topic into Iceberg tables with        *)
(* bounded (availableNow) Structured Streaming queries: kaf6_poison_pill,  *)
(* str1_watermarking, str2_checkpoints and str3_backpressure, run cell by  *)
(* cell, with a driver that may die, cells that are run again and          *)
(* notebooks run again from the top.  Spark and Iceberg are external: a    *)
(* batch is planned in the checkpoint, appended to the table and then      *)
(* committed in the checkpoint, where STR-1's query also keeps its state.  *)
(***************************************************************************)
EXTENDS WindowCounts, Sequences, SequencesExt

CONSTANTS
    Notebooks,    \* which of the four notebooks there are
    Cwds,         \* where kernels may run: "repo" like the server, or "notebook"
    Delays,       \* STR-1's WATERMARK in minutes, 2 unless tuned
    MaxTopic,     \* bound: records of the topic
    MaxCrashes,   \* bound: deaths of the driver
    MaxReruns     \* bound: times a notebook is run again from the top

ASSUME StreamRunsAssumption ==
    /\ Notebooks # {} /\ Notebooks \subseteq {"kaf6", "str1", "str2", "str3"}
    /\ Cwds # {} /\ Cwds \subseteq {"repo", "notebook"}
    /\ Delays # {} /\ Delays \subseteq Nat
    /\ MaxTopic \in Nat /\ MaxTopic >= 3
    /\ MaxCrashes \in Nat /\ MaxReruns \in Nat

(***************************************************************************)
(* A notebook is its cells; one cell may drop tables, remove checkpoint    *)
(* directories from the kernel, recreate the topic, produce, and run       *)
(* queries that it awaits in order.  Counts of records stand for the       *)
(* notebooks' 500, 1000, ... : what matters is good or poison and in which *)
(* burst.  STR-1's records are event times: the first and last of its 60   *)
(* on-time events, 10:00:00 and 10:02:57, and the straggler of 10:00:30.   *)
(***************************************************************************)
Cell(recreate, drops, clears, records, queries) ==
    [recreate |-> recreate, drops |-> drops, clears |-> clears,
     records |-> records, queries |-> queries]

Setup(drops, clears)    == Cell(TRUE, drops, clears, <<>>, <<>>)
Produce(records)        == Cell(FALSE, {}, {}, records, <<>>)
Stream(queries)         == Cell(FALSE, {}, {}, <<>>, queries)
ProduceAndStream(records, q) == Cell(FALSE, {}, {}, records, <<q>>)
ResetAndStream(q)       == Cell(FALSE, {q}, {q}, <<>>, <<q>>)
Prove                   == Cell(FALSE, {}, {}, <<>>, <<>>)

Kaf6KeepTables == <<Setup({}, {"main", "dlq"}), Produce(<<"good", "poison">>),
                    Stream(<<"main", "dlq">>), Prove>>     \* mutant: no DROP TABLE

Kaf6 == <<Setup({"main", "dlq"}, {"main", "dlq"}), Produce(<<"good", "poison">>),
          Stream(<<"main", "dlq">>), Prove>>

OnTime    == <<0, 8>>
Straggler == 1

Str1 == <<Cell(TRUE, {"windows"}, {"windows"}, OnTime, <<>>), Stream(<<"windows">>),
          ProduceAndStream(<<Straggler>>, "windows"), Prove>>

Str2 == <<Setup({"sink", "scratch"}, {}), ProduceAndStream(<<"good", "good">>, "sink"),
          ProduceAndStream(<<"good">>, "sink"), Stream(<<"sink">>), Stream(<<"scratch">>), Prove>>

Str3 == <<Setup({}, {}), Produce(<<"good", "good">>),
          ResetAndStream("big"), ResetAndStream("small"), Prove>>

Cells == [kaf6 |-> Kaf6, str1 |-> Str1, str2 |-> Str2, str3 |-> Str3]

QueriesOf(n) == UNION {ToSet(Cells[n][i].queries) : i \in DOMAIN Cells[n]}
Queries == UNION {QueriesOf(n) : n \in Notebooks}

VARIABLES
    notebook,   \* the notebook that is run
    cwd,        \* the working directory of its kernel
    delay,      \* STR-1's WATERMARK
    cell,       \* the cell that is due
    status,     \* of that cell
    repeated,   \* auxiliary: a cell that failed produced its records once more
    topic,      \* the topic's records
    table,      \* per query, how often its table holds the record of an offset
    epoch,      \* per query, the last of its batches that the table has
    ckpt,       \* per query, the checkpoint: the batches' ends, those committed,
                \* and the state after each batch of STR-1's query
    query,      \* per query, what its run does next
    target,     \* per query, the end offset when its run started
    orphaned,   \* auxiliary: queries whose checkpoint outlived its table or topic
    crashes,
    reruns

kernelVars == <<notebook, cwd, delay, cell, status, repeated>>
queryVars  == <<table, epoch, ckpt, query, target>>
boundVars  == <<crashes, reruns>>
vars == <<kernelVars, topic, queryVars, orphaned, boundVars>>

Script == Cells[notebook]
Offsets == 0 .. MaxTopic - 1
NoRows == [o \in Offsets |-> 0]
NoCheckpoint == [ends |-> <<>>, commits |-> 0, states |-> <<>>]

StreamRunsTypeOK ==
    /\ notebook \in Notebooks /\ cwd \in Cwds /\ delay \in Delays
    /\ cell \in 1 .. Len(Script) /\ status \in {"ready", "running", "failed"}
    /\ repeated \in BOOLEAN
    /\ topic \in Seq(IF notebook = "str1" THEN 0 .. 8 ELSE {"good", "poison"})
    /\ Len(topic) <= MaxTopic
    /\ table \in [Queries -> [Offsets -> Nat]]
    /\ \A q \in Queries :
           /\ ckpt[q].ends \in Seq(1 .. MaxTopic)
           /\ ckpt[q].commits \in 0 .. Len(ckpt[q].ends)
           /\ Len(ckpt[q].ends) <= ckpt[q].commits + 1
           /\ epoch[q] \in 0 .. Len(ckpt[q].ends)
           /\ Len(ckpt[q].states) \in IF q = "windows"
                                      THEN {ckpt[q].commits, Len(ckpt[q].ends)} ELSE {0}
    /\ query \in [Queries -> {"idle", "plan", "append", "commit", "done", "failed"}]
    /\ target \in [Queries -> 0 .. MaxTopic]
    /\ orphaned \subseteq Queries

-----------------------------------------------------------------------------
(* The kernel.                                                             *)

(* shutil.rmtree(".tmp/checkpoint_...") in the kernel: the queries whose   *)
(* checkpoints it reaches.  The server's are under the server's directory, *)
(* the root of the repository.                                             *)
Reached(clears) == IF cwd = "repo" THEN clears ELSE {}

Pending(c) == Len(c.ends) > c.commits

(* A query's run goes on where its checkpoint says: with the batch that    *)
(* was planned but not committed, if there is one.                         *)
Resume(c) == IF Pending(c) THEN "append" ELSE "plan"

(* Run the due cell, or run it again after it failed, with everything that *)
(* it does: what it had produced is produced once more.                    *)
RunCell ==
    /\ status \in {"ready", "failed"} /\ cell < Len(Script)
    /\ LET c     == Script[cell]
           wiped == Reached(c.clears)
           kept  == [q \in Queries |-> IF q \in wiped THEN NoCheckpoint ELSE ckpt[q]]
           start == ToSet(c.queries)
       IN  /\ topic' = IF c.recreate THEN c.records ELSE topic \o c.records
           /\ Len(topic') <= MaxTopic
           /\ repeated' = (~c.recreate /\ (repeated \/ (status = "failed" /\ c.records # <<>>)))
           /\ ckpt' = kept
           /\ table' = [q \in Queries |-> IF q \in c.drops THEN NoRows ELSE table[q]]
           /\ epoch' = [q \in Queries |-> IF q \in c.drops \cup wiped THEN 0 ELSE epoch[q]]
           /\ orphaned' = {q \in Queries : /\ kept[q].ends # <<>>
                                           /\ c.recreate \/ q \in orphaned \cup c.drops}
           /\ query' = [q \in Queries |-> IF q \in start THEN Resume(kept[q])
                                          ELSE IF q \in wiped THEN "idle" ELSE query[q]]
           /\ target' = [q \in Queries |-> IF q \in start THEN Len(topic') ELSE target[q]]
           /\ IF start = {} THEN cell' = cell + 1 /\ status' = "ready"
                            ELSE cell' = cell /\ status' = "running"
    /\ UNCHANGED <<notebook, cwd, delay, boundVars>>

(* q.awaitTermination() for one query after the other: it returns when the *)
(* query is done and raises when it failed.                                *)
Await ==
    /\ status = "running"
    /\ LET awaited == Script[cell].queries
       IN  \/ /\ \A i \in DOMAIN awaited : query[awaited[i]] = "done"
              /\ cell' = cell + 1 /\ status' = "ready"
           \/ /\ \E i \in DOMAIN awaited :
                     /\ query[awaited[i]] = "failed"
                     /\ \A j \in 1 .. i - 1 : query[awaited[j]] = "done"
              /\ cell' = cell /\ status' = "failed"
    /\ UNCHANGED <<notebook, cwd, delay, repeated, topic, queryVars, orphaned, boundVars>>

(* The notebook is run again from the top, in a kernel started anywhere,   *)
(* perhaps after make clean, which removes the server's .tmp: the          *)
(* warehouse and the checkpoints.                                          *)
FromTheTop(clean) ==
    /\ status # "running"
    /\ reruns < MaxReruns
    /\ reruns' = reruns + 1
    /\ cell' = 1 /\ status' = "ready"
    /\ cwd' \in Cwds
    /\ IF clean
       THEN /\ table' = [q \in Queries |-> NoRows]
            /\ epoch' = [q \in Queries |-> 0]
            /\ ckpt' = [q \in Queries |-> NoCheckpoint]
            /\ query' = [q \in Queries |-> "idle"]
            /\ orphaned' = {}
       ELSE UNCHANGED <<table, epoch, ckpt, query, orphaned>>
    /\ UNCHANGED <<notebook, delay, repeated, topic, target, crashes>>

-----------------------------------------------------------------------------
(* The queries.                                                            *)

(* from_json: what does not parse, or has no id, is poison; main takes the *)
(* rest.  The other notebooks do not filter.                               *)
AcceptsUnfiltered(q, record) ==     \* mutant: main lands the all-NULL rows too
    q = "dlq" => record = "poison"

Accepts(q, record) ==
    /\ q = "main" => record = "good"
    /\ q = "dlq"  => record = "poison"

(* maxOffsetsPerTrigger                                                    *)
MaxOffsets(q) == IF q = "small" THEN 1 ELSE MaxTopic

(* The end of a batch; the first one starts at the earliest offset.        *)
EndOf(q, n) == IF n = 0 THEN 0 ELSE ckpt[q].ends[n]
Position(q) == EndOf(q, Len(ckpt[q].ends))

(* STR-1's state after batch n of its query.                               *)
StateAfter(q, n) == IF n \in DOMAIN ckpt[q].states THEN ckpt[q].states[n] ELSE NoState

(* Its run does not end before a batch without records has closed the      *)
(* windows that the batch before it moved the watermark past.              *)
Unsettled(q) ==
    LET n == Len(ckpt[q].ends)
    IN  /\ q = "windows" /\ n > 0
        /\ StateAfter(q, n).frontier # StateAfter(q, n - 1).frontier

PlanBatch(q) ==
    /\ query[q] = "plan"
    /\ \/ Position(q) < target[q]
       \/ Position(q) = target[q] /\ Unsettled(q)
    /\ LET end == Min({Position(q) + MaxOffsets(q), target[q]})
       IN  ckpt' = [ckpt EXCEPT ![q].ends = Append(@, end)]
    /\ query' = [query EXCEPT ![q] = "append"]
    /\ UNCHANGED <<kernelVars, topic, table, epoch, target, orphaned, boundVars>>

Batch(q) == {o \in Offsets : /\ EndOf(q, Len(ckpt[q].ends) - 1) <= o
                             /\ o < Position(q)
                             /\ Accepts(q, topic[o + 1])}

(* What the planned batch appends: its records, or the windows it closes,  *)
(* each standing for the events it counts.                                 *)
Output(q) ==
    IF q = "windows"
    THEN Emitted(StateAfter(q, Len(ckpt[q].ends) - 1), topic, delay)
    ELSE Batch(q)

(* The streaming append: one snapshot, unless the table already has one of *)
(* this query for this batch or a later one.  The state is recomputed.     *)
AppendBatch(q) ==
    /\ query[q] = "append"
    /\ Position(q) <= Len(topic)
    /\ IF epoch[q] >= Len(ckpt[q].ends)
       THEN UNCHANGED <<table, epoch>>
       ELSE /\ table' = [table EXCEPT ![q] =
                            [o \in Offsets |-> IF o \in Output(q) THEN @[o] + 1 ELSE @[o]]]
            /\ epoch' = [epoch EXCEPT ![q] = Len(ckpt[q].ends)]
    /\ IF q = "windows"
       THEN LET n     == Len(ckpt[q].ends)
                state == Advance(StateAfter(q, n - 1), Batch(q), topic, delay)
            IN  ckpt' = [ckpt EXCEPT ![q].states = Append(SubSeq(@, 1, n - 1), state)]
       ELSE UNCHANGED ckpt
    /\ query' = [query EXCEPT ![q] = "commit"]
    /\ UNCHANGED <<kernelVars, topic, target, orphaned, boundVars>>

CommitBatch(q) ==
    /\ query[q] = "commit"
    /\ ckpt' = [ckpt EXCEPT ![q].commits = Len(ckpt[q].ends)]
    /\ query' = [query EXCEPT ![q] = "plan"]
    /\ UNCHANGED <<kernelVars, topic, table, epoch, target, orphaned, boundVars>>

(* availableNow: the run ends when it is where the topic ended.            *)
Drained(q) ==
    /\ query[q] = "plan"
    /\ Position(q) = target[q] /\ ~Unsettled(q)
    /\ query' = [query EXCEPT ![q] = "done"]
    /\ UNCHANGED <<kernelVars, topic, table, epoch, ckpt, target, orphaned, boundVars>>

(* failOnDataLoss: the topic ends before the checkpoint's position.        *)
DataLossIgnored(q) == FALSE /\ UNCHANGED vars \* mutant: the query waits for the records

DataLoss(q) ==
    /\ \/ query[q] = "plan" /\ Position(q) > target[q]
       \/ query[q] = "append" /\ Position(q) > Len(topic)
    /\ query' = [query EXCEPT ![q] = "failed"]
    /\ UNCHANGED <<kernelVars, topic, table, epoch, ckpt, target, orphaned, boundVars>>

QueryStep ==
    \E q \in Queries : \/ PlanBatch(q) \/ AppendBatch(q) \/ CommitBatch(q)
                       \/ Drained(q) \/ DataLoss(q)

(* The driver dies, is started again by Docker, and the cell fails.        *)
Crash ==
    /\ crashes < MaxCrashes
    /\ \E q \in Queries : query[q] \in {"plan", "append", "commit"}
    /\ crashes' = crashes + 1
    /\ query' = [q \in Queries |-> "idle"]
    /\ status' = IF status = "running" THEN "failed" ELSE status
    /\ UNCHANGED <<notebook, cwd, delay, cell, repeated, topic, table, epoch, ckpt, target, orphaned, reruns>>

-----------------------------------------------------------------------------
Init ==
    /\ notebook \in Notebooks /\ cwd \in Cwds /\ delay \in Delays /\ cell = 1 /\ status = "ready"
    /\ repeated = FALSE /\ topic = <<>>
    /\ table = [q \in Queries |-> NoRows]
    /\ epoch = [q \in Queries |-> 0]
    /\ ckpt = [q \in Queries |-> NoCheckpoint]
    /\ query = [q \in Queries |-> "idle"]
    /\ target = [q \in Queries |-> 0]
    /\ orphaned = {} /\ crashes = 0 /\ reruns = 0

Next ==
    \/ RunCell \/ Await \/ QueryStep \/ Crash
    \/ \E clean \in BOOLEAN : FromTheTop(clean)

Spec == Init /\ [][Next]_vars

(* A query that is running goes on, and awaitTermination returns; nothing  *)
(* forces anybody to run a cell.                                           *)
FairSpec == Spec /\ WF_vars(QueryStep) /\ WF_vars(Await)

-----------------------------------------------------------------------------
(* The records of the batches appended; STR-1 appends windows instead.     *)
Appended(q) ==
    IF q = "windows"
    THEN LET state == StateAfter(q, epoch[q])
         IN  0 .. EndOf(q, epoch[q]) - 1 \ (state.open \cup state.late)
    ELSE {o \in 0 .. EndOf(q, epoch[q]) - 1 : Accepts(q, topic[o + 1])}

(* The restart story of STR-2: as long as a checkpoint and its table live  *)
(* and die together, the table holds every record of the batches appended  *)
(* exactly once and nothing else, and no batch is committed before it is   *)
(* in the table, wherever the driver dies and whichever cell is run again. *)
ExactlyOnce ==
    \A q \in Queries \ orphaned :
        /\ ckpt[q].commits <= epoch[q]
        /\ \A o \in Offsets :
               table[q][o] = IF o \in Appended(q) THEN 1 ELSE 0

(* STR-1: every event of the batches appended is in a window of the sink,  *)
(* in an open window or dropped, and only in one of them.  What is dropped *)
(* was behind the watermark of events that came before it, and a window    *)
(* in the sink has all the events of its minute but those.                 *)
WindowsFinal ==
    \A q \in (Queries \cap {"windows"}) \ orphaned :
        LET state  == StateAfter(q, epoch[q])
            seen   == 0 .. EndOf(q, epoch[q]) - 1
            emitted == {o \in Offsets : table[q][o] > 0}
        IN  /\ seen = emitted \cup state.open \cup state.late
            /\ emitted \cap (state.open \cup state.late) = {} /\ state.open \cap state.late = {}
            /\ \A o \in state.late :
                   \E p \in 0 .. o - 1 :
                       topic[p + 1] >= WindowEnd(topic[o + 1]) + delay * Minute
            /\ \A o \in emitted, p \in seen \ state.late :
                   WindowEnd(topic[o + 1]) = WindowEnd(topic[p + 1]) => p \in emitted

(* The proofs of the notebooks: every record is in main or in the dead     *)
(* letters and not in both; and every sink holds the whole topic.  STR-1's *)
(* holds what its watermark has closed.                                    *)
Whole ==
    \A o \in 0 .. Len(topic) - 1 :
        IF notebook = "kaf6"
        THEN table["main"][o] + table["dlq"][o] = 1
        ELSE \A q \in QueriesOf(notebook) \ {"windows"} : table[q][o] = 1

Proving == cell = Len(Script)

(* The counts the last cells expect: what the cells produce, once each.    *)
Expected == [kaf6 |-> 2, str1 |-> 3, str2 |-> 3, str3 |-> 2]

(* When no checkpoint outlived its table or its topic, the last cell finds *)
(* every record of the topic, once; and it finds the numbers it expects    *)
(* unless a cell that produces was run again.                              *)
ReconcilesUnlessOrphaned ==
    Proving /\ orphaned \cap QueriesOf(notebook) = {} =>
        Whole /\ (~repeated => Len(topic) = Expected[notebook])

(* As str2_checkpoints.ipynb has it: "exactly-once ingestion across        *)
(* crashes, redeploys, and re-runs", so that its last cell finds 1500      *)
(* rows and 1500 distinct ids.                                             *)
Str2Verdict ==
    Proving /\ notebook = "str2" /\ orphaned = {} => Whole /\ Len(topic) = Expected["str2"]

(* As kaf6_poison_pill.ipynb has it: starting clean, produced = main + dlq *)
(* holds exactly.                                                          *)
Reconciles == Proving /\ notebook = "kaf6" => Whole

(* As str1_watermarking.ipynb has it: the straggler belongs to a window    *)
(* "the watermark has already finalized" and is dropped.                   *)
StragglerDropped ==
    Proving /\ notebook = "str1" =>
        \A o \in DOMAIN topic \ DOMAIN OnTime :
            o - 1 \in StateAfter("windows", epoch["windows"]).late

(* Bounded: each stream drains all available data, then terminates.        *)
StreamsStop == status = "running" ~> status # "running"
=============================================================================
