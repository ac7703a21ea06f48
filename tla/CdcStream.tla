----------------------------- MODULE CdcStream -----------------------------
(***************************************************************************)
(* The streaming form of the sink, section 8 of the CDC-7 notebook: a      *)
(* Structured Streaming query reads the topic from the earliest offset,    *)
(* dedups each micro-batch and runs the same MERGE on it in foreachBatch.  *)
(* Its checkpoint logs the end of a batch before the batch runs and the    *)
(* commit after, so a batch that dies in between runs again as it was      *)
(* planned.  Unlike the batch job it never sees the whole topic at once.   *)
(***************************************************************************)
EXTENDS CdcSource

CONSTANT MaxSinkCrashes      \* bound: deaths of the query

ASSUME SinkAssumption == MaxSinkCrashes \in Nat

VARIABLES
    mirror,    \* the Iceberg table
    batch,     \* topic records up to the end of the last planned batch
    commit,    \* topic records up to the end of the last committed batch
    merged,    \* the planned batch's MERGE has run
    applied,   \* auxiliary: highest LSN a MERGE has applied to each key
    deaths     \* how often the query died

sinkVars == <<mirror, batch, commit, merged, applied, deaths>>
vars     == <<sourceVars, sinkVars>>

StreamTypeOK ==
    /\ TypeOK
    /\ mirror \in Table
    /\ batch \in 0 .. Len(topic) /\ commit \in 0 .. batch
    /\ merged \in BOOLEAN /\ (merged => commit < batch)
    /\ applied \in [Keys -> 0 .. Lsn]
    /\ deaths \in 0 .. MaxSinkCrashes

(* The changes of the planned batch, one per key.                          *)
Upserts == Newest(Changes(SubSeq(topic, commit + 1, batch)))

(* The offset log: a batch ends at some record that is on the topic.       *)
PlanBatch ==
    /\ batch = commit
    /\ \E end \in commit + 1 .. Len(topic) : batch' = end
    /\ UNCHANGED <<sourceVars, mirror, commit, merged, applied, deaths>>

(* upsert(batch_df, batch_id).                                             *)
MergeBatch ==
    /\ batch > commit /\ ~merged
    /\ mirror' = MergeInto(mirror, Upserts)
    /\ applied' = [k \in Keys |->
                      LET lsns == {s.lsn : s \in {u \in Upserts : u.key = k}} \cup {applied[k]}
                      IN  CHOOSE n \in lsns : \A l \in lsns : l <= n]
    /\ merged' = TRUE
    /\ UNCHANGED <<sourceVars, batch, commit, deaths>>

CommitToEnd ==                      \* mutant: commits what is on the topic by now
    /\ merged
    /\ commit' = Len(topic) /\ batch' = Len(topic)
    /\ merged' = FALSE
    /\ UNCHANGED <<sourceVars, mirror, applied, deaths>>

CommitBatch ==
    /\ merged
    /\ commit' = batch
    /\ merged' = FALSE
    /\ UNCHANGED <<sourceVars, mirror, batch, applied, deaths>>

(* The query dies and is started again from its checkpoint.                *)
SinkCrash ==
    /\ merged /\ deaths < MaxSinkCrashes
    /\ merged' = FALSE
    /\ deaths' = deaths + 1
    /\ UNCHANGED <<sourceVars, mirror, batch, commit, applied>>

Init ==
    /\ SourceInit
    /\ mirror = Empty
    /\ batch = 0 /\ commit = 0 /\ merged = FALSE
    /\ applied = [k \in Keys |-> 0]
    /\ deaths = 0

Sink == PlanBatch \/ MergeBatch \/ CommitBatch

Next == (SourceNext /\ UNCHANGED sinkVars) \/ Sink \/ SinkCrash

Spec == Init /\ [][Next]_vars

(* The task, the worker and the query run on; nothing forces a write, a    *)
(* pause, a restart, a crash or a death.                                   *)
FairSpec ==
    /\ Spec
    /\ WF_vars(RegisterConnector /\ UNCHANGED sinkVars)
    /\ WF_vars(Capture /\ UNCHANGED sinkVars)
    /\ WF_vars(Recover /\ UNCHANGED sinkVars)
    /\ WF_vars(Resume /\ UNCHANGED sinkVars)
    /\ WF_vars(Sink)

-----------------------------------------------------------------------------
(* A batch that is run again, because the query died before its commit,    *)
(* changes nothing: the MERGE is idempotent per batch.                     *)
RerunIsNoOp == merged => MergeInto(mirror, Upserts) = mirror

(* Where the task has streamed the whole log and the query has consumed    *)
(* the whole topic, the mirror is the table, whatever was redelivered and  *)
(* however the topic was cut into batches; keys whose delete was never     *)
(* published excepted.                                                     *)
ExactWhenDrained ==
    task = "streaming" /\ pos = Lsn /\ commit = Len(topic)
        => \A k \in Keys \ lost : mirror[k] = Rows[k]

(* Once writes stop, the mirror becomes the table and stays it, under the  *)
(* same exceptions as the batch job's.                                     *)
StreamCatchesUp ==
    <>[](\A k \in Captured : mirror[k] = Rows[k])

(* What the CDC-9 README says of the CDC-7 sink: an older replayed change  *)
(* can't overwrite a newer applied one.                                    *)
OlderNeverOverwrites ==
    \A k \in Keys : applied[k] > 0 => mirror[k] = wal[applied[k]].table[k]
=============================================================================
