----------------------------- MODULE CdcEvents -----------------------------
(***************************************************************************)
(* The change events of a captured table and what a consumer makes of      *)
(* them: the filter, the dedup and the MERGE that capstone/cap1_pipeline.py *)
(* and the CDC-7 notebook share.                                           *)
(***************************************************************************)
EXTENDS Naturals, Sequences

CONSTANTS
    Keys,          \* primary keys of the captured table
    Vals,          \* row contents, as far as a reader tells them apart
    Gone           \* "there is no row with this key"

Row   == Vals \cup {Gone}
Table == [Keys -> Row]
Empty == [k \in Keys |-> Gone]

(* What a consumer parses out of the envelope; "t" is the tombstone.       *)
Event == [op : {"r", "c", "u", "d", "t"}, key : Keys, val : Row, lsn : Nat]

-----------------------------------------------------------------------------
(* Reading the topic.  Told is what a reader of the whole topic knows of a *)
(* key: the contents of its event with the highest LSN.                    *)

Changes(log) == {e \in {log[i] : i \in DOMAIN log} : e.op # "t"}

IsOldest(e, changes) ==             \* mutant: ascending order
    /\ e \in changes
    /\ \A f \in changes : f.key = e.key => e.lsn <= f.lsn

IsNewest(e, changes) ==
    /\ e \in changes
    /\ \A f \in changes : f.key = e.key => f.lsn <= e.lsn

Told(log, k) ==
    LET newest == {e \in Changes(log) : e.key = k /\ IsNewest(e, Changes(log))}
    IN  IF newest = {} THEN Gone ELSE (CHOOSE e \in newest : TRUE).val

(* row_number() over (partition by id order by lsn desc) = 1: one newest   *)
(* change per key.                                                         *)
NewestAscending(changes) ==         \* mutant: the order is ascending
    {CHOOSE e \in changes : e.key = k /\ IsOldest(e, changes) :
        k \in {f.key : f \in changes}}

Newest(changes) ==
    {CHOOSE e \in changes : e.key = k /\ IsNewest(e, changes) :
        k \in {f.key : f \in changes}}

(* MERGE INTO ... ON t.id = s.id: what its three WHEN clauses make of the  *)
(* row of a key that the batch has a change for.                           *)
MergedNoDelete(row, s) ==           \* mutant: no WHEN MATCHED AND s.op = 'd'
    IF s.op # "d" THEN s.val ELSE row

MergedUnguarded(row, s) ==          \* mutant: WHEN NOT MATCHED without s.op <> 'd'
    IF row # Gone /\ s.op = "d" THEN Gone
    ELSE IF s.op # "d" THEN s.val
    ELSE CHOOSE v \in Vals : TRUE

Merged(row, s) ==
    IF row # Gone /\ s.op = "d" THEN Gone
    ELSE IF row # Gone \/ s.op # "d" THEN s.val
    ELSE row

BatchOnly(table, changes) ==        \* mutant: rows outside the batch are dropped
    [k \in {s.key : s \in changes} |->
        Merged(table[k], CHOOSE s \in changes : s.key = k)]

MergeInto(table, changes) ==
    [k \in Keys |->
        IF \E s \in changes : s.key = k
        THEN Merged(table[k], CHOOSE s \in changes : s.key = k)
        ELSE table[k]]
=============================================================================
