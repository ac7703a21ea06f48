----------------------------- MODULE CdcMirror -----------------------------
(***************************************************************************)
(* The sink half: Spark reads the whole topic as a batch, keeps the newest *)
(* change of every key by source.lsn, and MERGEs it into an Iceberg mirror *)
(* of the table (capstone/cap1_pipeline.py and the CDC-7 notebook).        *)
(***************************************************************************)
EXTENDS CdcSource

VARIABLES
    mirror,    \* the Iceberg table
    merged,    \* topic records the last MERGE read, 0 since the CREATE
    at         \* auxiliary: upto and lost as of the last MERGE

sinkVars == <<mirror, merged, at>>
vars     == <<sourceVars, sinkVars>>

Position == [upto : [Keys -> 0 .. Lsn], lost : SUBSET Keys]
Nowhere  == [upto |-> [k \in Keys |-> 0], lost |-> {}]

(* DROP TABLE IF EXISTS, CREATE TABLE.                                     *)
RecreateMirror ==
    /\ mirror' = Empty
    /\ merged' = 0
    /\ at' = Nowhere
    /\ UNCHANGED sourceVars

(* The batch read, the dedup and the MERGE; run again, it is the replay of *)
(* the notebook's section 7.                                               *)
MergeChanges ==
    /\ Ready
    /\ mirror' = MergeInto(mirror, Newest(Changes(topic)))
    /\ merged' = Len(topic)
    /\ at' = [upto |-> upto, lost |-> lost]
    /\ UNCHANGED sourceVars

Init ==
    /\ SourceInit
    /\ mirror = Empty /\ merged = 0 /\ at = Nowhere

Next ==
    \/ SourceNext /\ UNCHANGED sinkVars
    \/ RecreateMirror
    \/ MergeChanges

Spec == Init /\ [][Next]_vars

MirrorTypeOK ==
    /\ TypeOK
    /\ mirror \in Table
    /\ merged \in 0 .. Len(topic)
    /\ at \in Position

(***************************************************************************)
(* Fairness.  The task, the worker's offset flushes and the REST resume    *)
(* are not optional; nothing forces a write, a pause, a restart, a crash   *)
(* or a rebuild of the mirror.                                             *)
(***************************************************************************)
Fairness ==
    /\ WF_vars(RegisterConnector /\ UNCHANGED sinkVars)
    /\ WF_vars(Capture /\ UNCHANGED sinkVars)
    /\ WF_vars(Recover /\ UNCHANGED sinkVars)
    /\ WF_vars(Resume /\ UNCHANGED sinkVars)
    /\ WF_vars(MergeChanges)

FairSpec == Spec /\ Fairness

-----------------------------------------------------------------------------
(* The MERGE carries that over to the mirror: every row of it is the       *)
(* source's row at the LSN the merged topic accounted for.                 *)
MirrorExact ==
    \A k \in Keys \ at.lost : at.upto[k] > 0 => mirror[k] = wal[at.upto[k]].table[k]

(* A further MERGE never moves a row of the mirror back, whatever was      *)
(* redelivered meanwhile: the row it leaves is from a point of the log no  *)
(* earlier than the one the mirror was at.                                 *)
MirrorForward ==
    [][merged > 0 /\ merged' > 0 =>
          \A k \in Keys \ at'.lost :
              at.upto[k] > 0 =>
                  \E n \in at.upto[k] .. Lsn : mirror'[k] = wal[n].table[k]]_vars

(* Merging the same topic again changes no row.                            *)
ReplayIsNoOp ==
    [][MergeChanges /\ merged = Len(topic) /\ merged > 0 => mirror' = mirror]_vars

(* Once writes stop, merges bring every row of the mirror to the table's,  *)
(* whatever was paused, restarted or crashed and however often the mirror  *)
(* was rebuilt.  Left out are keys whose delete was never published and,   *)
(* under "never", keys that have not changed since the registration.       *)
MirrorCatchesUp ==
    []<>(\A k \in Captured : mirror[k] = Rows[k])

-----------------------------------------------------------------------------
(* The mirror implements Replica when every merged batch is complete.      *)
Abstract == INSTANCE Replica WITH
    history <- [l \in 1 .. Lsn |-> wal[l].table],
    copy    <- mirror,
    at      <- CHOOSE n \in {at.upto[k] : k \in Keys} : \A k \in Keys : at.upto[k] <= n,
    Row     <- Row

ImplementsReplica == Abstract!Spec
=============================================================================
