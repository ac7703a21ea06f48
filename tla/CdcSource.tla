----------------------------- MODULE CdcSource -----------------------------
(***************************************************************************)
(* The source half of the CDC lab: one Postgres table, the Debezium        *)
(* connector that captures it (run by a Kafka Connect worker) and the      *)
(* Kafka topic the connector publishes to.  One registration of the        *)
(* connector is followed from PUT /connectors/<name>/config onwards,       *)
(* through pauses, resumes, restarts and crashes of the worker.            *)
(*                                                                         *)
(* The lab drives Postgres and Connect through common/cdc_helpers.py and   *)
(* the debezium/ notebooks; what Debezium itself does between two REST     *)
(* calls is external and modelled from how that code relies on it.         *)
(***************************************************************************)
EXTENDS CdcEvents, Integers, Sequences, FiniteSets

CONSTANTS
    NoKey,         \* the key of a log record that is not about one row
    SeedTable,     \* what seed_orders leaves in the table
    Modes,         \* values of debezium_pg_config(snapshot_mode=...) in use
    WritersWait,   \* writers start only after the poll for the snapshot's events
    WaitExpires,   \* that poll, 20 rounds of it, may run out
    Bounceable,    \* phases in which the task may be paused, restarted or crash
    MaxWrites,     \* bound: statements run against the table
    MaxBounces     \* bound: crashes, pauses, restarts

ASSUME ConstantsAssumption ==
    /\ Gone \notin Vals
    /\ NoKey \notin Keys
    /\ SeedTable \in Table
    /\ Modes # {} /\ Modes \subseteq {"initial", "always", "never"}
    /\ WritersWait \in BOOLEAN /\ WaitExpires \in BOOLEAN
    /\ Bounceable \subseteq {"snapshot", "streaming", "stored"}
    /\ MaxWrites \in Nat
    /\ MaxBounces \in Nat

NoOffset == 0      \* no LSN is 0: the log starts with seed_orders' record

VARIABLES
    wal,       \* the write-ahead log: record i has LSN i
    mode,      \* the connector's snapshot.mode
    task,      \* the connector's task
    paused,    \* PUT /pause was the last of pause and resume
    base,      \* LSN the capture starts at: its last snapshot's, or its new slot's
    todo,      \* keys of that snapshot not emitted yet
    pos,       \* LSN up to which the running task has streamed
    offset,    \* the LSN in connect_offsets
    slot,      \* the replication slot's confirmed position, 0 without a slot
    topic,     \* <prefix>.<schema>.<table>, one partition
    bounces    \* how many of these there were

(* Auxiliary, read by no guard: what the topic has told about each key.    *)
VARIABLES
    upto,      \* the LSN up to which the topic accounts for the key
    lost       \* keys whose row vanished while nothing was streaming

auxVars     == <<upto, lost>>
connectVars == <<mode, task, paused, base, todo, pos, offset, slot>>
sourceVars  == <<wal, connectVars, topic, bounces, auxVars>>

(***************************************************************************)
(* A log record keeps the table it left behind, so that the row image an   *)
(* event carries and the state a reader should see can be named by LSN.    *)
(***************************************************************************)
WalRecord == [op : {"seed", "c", "u", "d"}, key : Keys \cup {NoKey}, table : Table]

Lsn  == Len(wal)
Rows == wal[Lsn].table

TypeOK ==
    /\ wal \in Seq(WalRecord) /\ Lsn \in 1 .. MaxWrites + 1
    /\ mode \in Modes
    /\ task \in {"unregistered", "snapshot", "streaming", "down"}
    /\ paused \in BOOLEAN
    /\ base \in 0 .. Lsn
    /\ todo \subseteq Keys
    /\ pos \in 0 .. Lsn
    /\ offset \in 0 .. Lsn
    /\ slot \in 0 .. Lsn
    /\ topic \in Seq(Event)
    /\ bounces \in 0 .. MaxBounces
    /\ upto \in [Keys -> 0 .. Lsn]
    /\ lost \subseteq Keys

-----------------------------------------------------------------------------
(* The table's writers.  Each statement autocommits and is one log record. *)

(* sum(topic_end_offsets(...)) >= n, or the polls ran out.                 *)
SeedCount == Cardinality({k \in Keys : SeedTable[k] # Gone})
ReadyAny  == Len(topic) >= 1 \/ WaitExpires        \* mutant: any event will do
Ready     == Len(topic) >= SeedCount \/ WaitExpires

Write(op, k, row) ==
    /\ Lsn <= MaxWrites
    /\ WritersWait => Ready
    /\ wal' = Append(wal, [op |-> op, key |-> k, table |-> [Rows EXCEPT ![k] = row]])
    /\ UNCHANGED <<connectVars, topic, bounces, auxVars>>

InsertRow(k, v) == Rows[k] = Gone /\ Write("c", k, v)
UpdateRow(k, v) == Rows[k] # Gone /\ Write("u", k, v)
DeleteRow(k)    == Rows[k] # Gone /\ Write("d", k, Gone)

-----------------------------------------------------------------------------
(* The connector.  Starting a task decides between the two phases: a       *)
(* snapshot is due on every start under "always", under "initial" only     *)
(* when no offset is stored.  A task that does not snapshot streams from   *)
(* the stored offset, or from the slot's position when there is none.      *)

StartTask(stored) ==
    /\ offset' = stored
    /\ slot' = IF slot = 0 THEN Lsn ELSE slot
    /\ LET snapshotDue == mode = "always" \/ (mode = "initial" /\ stored = NoOffset)
       IN  \/ /\ snapshotDue
              /\ task' = "snapshot"
              /\ base' = Lsn
              /\ todo' = {k \in Keys : Rows[k] # Gone}
              /\ pos' = 0
              /\ lost' = lost \cup {k \in Keys : Rows[k] = Gone /\ Told(topic, k) # Gone}
           \/ /\ ~snapshotDue
              /\ task' = "streaming"
              /\ base' = IF slot = 0 THEN slot' ELSE base
              /\ pos' = IF stored # NoOffset THEN stored ELSE slot'
              /\ UNCHANGED <<todo, lost>>
    /\ UNCHANGED <<wal, mode, paused, topic, upto>>

(* A task that is stopped cleanly stores its position first.               *)
StoredByStop == IF task = "streaming" THEN pos ELSE offset

(* "stored" is the streaming phase once an offset is in connect_offsets.   *)
Phase == IF task = "streaming" /\ offset # NoOffset THEN "stored" ELSE task

MayBounce == Phase \in Bounceable /\ bounces < MaxBounces

(* PUT /connectors/<name>/config creates the connector.                    *)
RegisterConnector ==
    /\ task = "unregistered"
    /\ StartTask(NoOffset)
    /\ UNCHANGED bounces

(* One row of the snapshot; rows come in no particular order.              *)
SnapshotRow(k) ==
    /\ task = "snapshot" /\ ~paused
    /\ k \in todo
    /\ topic' = Append(topic, [op |-> "r", key |-> k, val |-> wal[base].table[k],
                               lsn |-> base])
    /\ todo' = todo \ {k}
    /\ upto' = [upto EXCEPT ![k] = base]
    /\ lost' = lost \ {k}
    /\ UNCHANGED <<wal, mode, task, paused, base, pos, offset, slot, bounces>>

FinishSnapshot ==
    /\ task = "snapshot" /\ ~paused
    /\ todo = {}
    /\ task' = "streaming"
    /\ pos' = base
    /\ upto' = [k \in Keys |-> base]
    /\ UNCHANGED <<wal, mode, paused, base, todo, offset, slot, topic, bounces, lost>>

(* The next log record becomes an event; a delete is followed by a         *)
(* tombstone (tombstones.on.delete).                                       *)
ChangeEvent(l) ==
    [op |-> wal[l].op, key |-> wal[l].key, val |-> wal[l].table[wal[l].key], lsn |-> l]

TombstoneKeyless(k) == [op |-> "t", key |-> NoKey, val |-> Gone, lsn |-> 0]   \* mutant
Tombstone(k) == [op |-> "t", key |-> k, val |-> Gone, lsn |-> 0]

StreamNext ==
    /\ task = "streaming" /\ ~paused
    /\ pos < Lsn
    /\ LET l == pos + 1
           k == wal[l].key
       IN  /\ topic' = IF wal[l].op = "d"
                       THEN topic \o <<ChangeEvent(l), Tombstone(k)>>
                       ELSE Append(topic, ChangeEvent(l))
           /\ upto' = [j \in Keys |-> IF upto[j] = pos \/ (j = k /\ upto[j] < l)
                                      THEN l ELSE upto[j]]
           /\ lost' = IF upto[k] < l THEN lost \ {k} ELSE lost
           /\ pos' = l
    /\ UNCHANGED <<wal, mode, task, paused, base, todo, offset, slot, bounces>>

(* Connect stores the position of the running task in connect_offsets from *)
(* time to time, and confirms it to the slot after it is stored.           *)
CommitOffset ==
    /\ task = "streaming"
    /\ offset # pos
    /\ offset' = pos
    /\ UNCHANGED <<wal, mode, task, paused, base, todo, pos, slot, topic, bounces, auxVars>>

ConfirmSlot ==
    /\ task = "streaming"
    /\ slot < offset
    /\ slot' = offset
    /\ UNCHANGED <<wal, mode, task, paused, base, todo, pos, offset, topic, bounces, auxVars>>

(* The REST lifecycle of the CDC-9 notebook.  A pause keeps the task and   *)
(* its position; a restart with its tasks, or registering the connector    *)
(* again, stops the task cleanly, which stores its position, and starts it *)
(* again.                                                                  *)
Pause ==
    /\ MayBounce /\ ~paused
    /\ paused' = TRUE
    /\ bounces' = bounces + 1
    /\ UNCHANGED <<wal, mode, task, base, todo, pos, offset, slot, topic, auxVars>>

Resume ==
    /\ paused
    /\ paused' = FALSE
    /\ UNCHANGED <<wal, mode, task, base, todo, pos, offset, slot, topic, bounces, auxVars>>

RestartAtEnd ==                     \* mutant: a restart forgets the position
    /\ MayBounce
    /\ StartTask(Lsn)
    /\ bounces' = bounces + 1

RestartTasks ==
    /\ MayBounce
    /\ StartTask(StoredByStop)
    /\ bounces' = bounces + 1

(* The worker dies: the position of its task, not stored yet, is gone.     *)
Crash ==
    /\ MayBounce
    /\ task' = "down"
    /\ pos' = 0
    /\ bounces' = bounces + 1
    /\ UNCHANGED <<wal, mode, paused, base, todo, offset, slot, topic, auxVars>>

Recover ==
    /\ task = "down"
    /\ StartTask(offset)
    /\ UNCHANGED bounces

-----------------------------------------------------------------------------
SourceInit ==
    /\ wal = <<[op |-> "seed", key |-> NoKey, table |-> SeedTable]>>
    /\ mode \in Modes /\ task = "unregistered" /\ paused = FALSE
    /\ base = 0 /\ todo = {} /\ pos = 0
    /\ offset = NoOffset /\ slot = 0
    /\ topic = <<>>
    /\ bounces = 0
    /\ upto = [k \in Keys |-> 0] /\ lost = {}

Writers ==
    \E k \in Keys : \/ \E v \in Vals : InsertRow(k, v) \/ UpdateRow(k, v)
                    \/ DeleteRow(k)

Capture == FinishSnapshot \/ StreamNext \/ \E k \in Keys : SnapshotRow(k)

Worker == Capture \/ CommitOffset \/ ConfirmSlot \/ Recover

Operator == RegisterConnector \/ Pause \/ Resume \/ RestartTasks

SourceNext == Writers \/ Worker \/ Operator \/ Crash

SourceSpec == SourceInit /\ [][SourceNext]_sourceVars

-----------------------------------------------------------------------------
(* The keys the topic must end up telling the truth about: all but those   *)
(* whose row vanished unobserved and, under "never", those that have not   *)
(* changed since the registration.                                         *)
Captured == {k \in Keys \ lost : mode = "never" => upto[k] > 0}

(* What the topic tells of a key is exact up to the LSN it accounts for,   *)
(* whatever crashed, restarted, was emitted twice or snapshotted again,    *)
(* unless the key's row vanished while no task was streaming.              *)
TopicExact ==
    \A k \in Keys \ lost : upto[k] > 0 => Told(topic, k) = wal[upto[k]].table[k]

(* At-least-once: every change from where the capture started up to the    *)
(* stored offset, which a restart resumes from, is on the topic; and the   *)
(* slot is never confirmed past the stored offset, so Postgres retains     *)
(* whatever comes after it.                                                *)
AtLeastOnce ==
    /\ offset # NoOffset => slot <= offset
    /\ \A l \in base + 1 .. offset : ChangeEvent(l) \in Changes(topic)
=============================================================================
