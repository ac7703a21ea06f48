---------------------- MODULE IcebergNotebooks_proofs ----------------------
(***************************************************************************)
(* Proofs about the tables of the notebooks lak1 to lak10, for any number  *)
(* of deaths of the driver and of runs from the top: whatever operation is *)
(* done, refused, interrupted or repeated, both tables behave as the       *)
(* abstract IcebergTable says, so that the snapshots they retain can be    *)
(* read.  For that the notebooks are needed only for what all of their     *)
(* operations have in common.  That no operation is refused in a cell that *)
(* did not fail before is a proof about the ten scripts as well: each is   *)
(* shown to see to what its operations need, and every step to keep it.    *)
(***************************************************************************)
EXTENDS IcebergNotebooks, FiniteSetTheorems, TLAPS

-----------------------------------------------------------------------------
(* THE SCRIPTS.  Every operation is on a table, an expiry retains          *)
(* something, and a table is created with a mode, empty or with rows.      *)
OperationOK(x) ==
    /\ x.t \in Tables
    /\ x.op = "expire" => x.retain \in Nat \ {0}
    /\ x.op = "create" => x.mode # "none" /\ (x.ctas => 1 \in DOMAIN x.rows)

ScriptOK(s) ==
    /\ Len(s) \in Nat \ {0}
    /\ \A i \in 1 .. Len(s) :
           Len(s[i]) \in Nat \ {0} /\ \A j \in 1 .. Len(s[i]) : OperationOK(s[i][j])

LEMMA OperationsAre ==
    \A t \in Tables :
        /\ OperationOK(Drop(t)) /\ OperationOK(Clear(t)) /\ OperationOK(Rollback(t))
        /\ OperationOK(Tag(t)) /\ OperationOK(Manifests(t)) /\ OperationOK(ListStrays(t))
        /\ OperationOK(Backdate(t)) /\ OperationOK(RemoveOrphans(t)) /\ OperationOK(Remember(t))
        /\ OperationOK(Prove)
        /\ \A spec : /\ OperationOK(Created(t, "cow", spec, None))
                      /\ OperationOK(Created(t, "cow", spec, Good))
                      /\ OperationOK(Created(t, "cow", spec, Good \o More))
                      /\ OperationOK(Created(t, "mor", spec, None))
                      /\ OperationOK(Created(t, "mor", spec, Good \o More))
        /\ \A x : /\ OperationOK(Insert(t, x)) /\ OperationOK(Replace(t, x))
                  /\ OperationOK(Relabel(t, x)) /\ OperationOK(AddColumn(t, x))
                  /\ OperationOK(DropColumn(t, x)) /\ OperationOK(AddField(t, x))
                  /\ OperationOK(Stray(t, x)) /\ OperationOK(DeleteRow(t, x))
        /\ \A x, y : OperationOK(Compact(t, x, y)) /\ OperationOK(Rename(t, x, y))
        /\ \A x, y, z : OperationOK(Merge(t, x, y, z))
  <1> TAKE t \in Tables
  <1> USE DEF OperationOK, Op
  <1>1. /\ OperationOK(Drop(t)) /\ OperationOK(Clear(t)) /\ OperationOK(Rollback(t))
        /\ OperationOK(Tag(t)) /\ OperationOK(Manifests(t)) /\ OperationOK(ListStrays(t))
        /\ OperationOK(Backdate(t)) /\ OperationOK(RemoveOrphans(t)) /\ OperationOK(Remember(t))
        /\ OperationOK(Prove)
    BY DEF Drop, Clear, Rollback, Tag, Manifests, ListStrays, Backdate, RemoveOrphans, Remember,
           Prove, Tables
  <1>2. \A spec : /\ OperationOK(Created(t, "cow", spec, None))
                  /\ OperationOK(Created(t, "cow", spec, Good))
                  /\ OperationOK(Created(t, "cow", spec, Good \o More))
                  /\ OperationOK(Created(t, "mor", spec, None))
                  /\ OperationOK(Created(t, "mor", spec, Good \o More))
    <2>1. /\ None = <<>> /\ 1 \in DOMAIN Good /\ 1 \in DOMAIN (Good \o More)
      BY DEF None, Good, More
    <2>2. ASSUME NEW mode, mode # "none", NEW spec, NEW rows, rows = <<>> \/ 1 \in DOMAIN rows
          PROVE  OperationOK(Created(t, mode, spec, rows))
      <3> DEFINE c == rows # <<>>
      <3>1. c => 1 \in DOMAIN rows
        BY <2>2
      <3> HIDE DEF c
      <3>2. Created(t, mode, spec, rows) = [op |-> "create", t |-> t, mode |-> mode, spec |-> spec,
                                            rows |-> rows, ctas |-> c]
        BY DEF Created, c
      <3> QED
        BY <2>2, <3>1, <3>2
    <2> QED
      BY <2>1, <2>2
  <1>3. \A x : /\ OperationOK(Insert(t, x)) /\ OperationOK(Replace(t, x))
               /\ OperationOK(Relabel(t, x)) /\ OperationOK(Stray(t, x))
    BY DEF Insert, Replace, Relabel, Stray
  <1>4. \A x : /\ OperationOK(AddColumn(t, x)) /\ OperationOK(DropColumn(t, x))
               /\ OperationOK(AddField(t, x)) /\ OperationOK(DeleteRow(t, x))
    BY DEF AddColumn, DropColumn, AddField, DeleteRow
  <1>5. /\ \A x, y : OperationOK(Compact(t, x, y)) /\ OperationOK(Rename(t, x, y))
        /\ \A x, y, z : OperationOK(Merge(t, x, y, z))
    BY DEF Compact, Rename, Merge
  <1> QED
    BY <1>1, <1>2, <1>3, <1>4, <1>5

CellsOf(S) == Seq(Seq(S) \ {<<>>}) \ {<<>>}

LEMMA JoinedOK ==
    ASSUME NEW S, \A x \in S : OperationOK(x), NEW a \in CellsOf(S), NEW b \in CellsOf(S)
    PROVE  ScriptOK(a \o b)
  <1>1. a \o b \in CellsOf(S)
    BY DEF CellsOf
  <1>2. \A T : \A s \in Seq(T) \ {<<>>} : Len(s) \in Nat \ {0} /\ \A k \in 1 .. Len(s) : s[k] \in T
    OBVIOUS
  <1> QED
    BY <1>1, <1>2 DEF CellsOf, ScriptOK

LEMMA Lak1OK == ScriptOK(Lak1Write \o Lak1Evolve)
  <1> DEFINE S == {Drop("t"), Drop("u"), Created("t", "cow", None, Good),
                   Created("u", "cow", None, Good), Remember("t"), Insert("t", More),
                   Insert("u", More), AddColumn("t", "region"), AddColumn("u", "region"),
                   Merge("t", 1, "upd", <<Row(5, "merged")>>),
                   Merge("u", 1, "upd", <<Row(5, "merged")>>), Prove}
  <1>1. \A x \in S : OperationOK(x)
    BY OperationsAre DEF Tables
  <1>2. Lak1Write \in CellsOf(S)
    BY DEF Lak1Write, CellsOf
  <1>3. Lak1Evolve \in CellsOf(S)
    BY DEF Lak1Evolve, CellsOf
  <1> HIDE DEF S
  <1> QED
    BY <1>1, <1>2, <1>3, JoinedOK

LEMMA Lak2OK == ScriptOK(Lak2Break \o Lak2Fix)
  <1> DEFINE S == {Drop("t"), Created("t", "cow", None, Good), Insert("t", More),
                   Insert("t", <<Row(5, "new")>>), Remember("t"), Compact("t", 2, FALSE), Prove}
  <1>1. \A x \in S : OperationOK(x)
    BY OperationsAre DEF Tables
  <1>2. Lak2Break \in CellsOf(S)
    BY DEF Lak2Break, CellsOf
  <1>3. Lak2Fix \in CellsOf(S)
    BY DEF Lak2Fix, CellsOf
  <1> HIDE DEF S
  <1> QED
    BY <1>1, <1>2, <1>3, JoinedOK

LEMMA Lak3OK == ScriptOK(Lak3Break \o Lak3Fix)
  <1> DEFINE S == {Drop("t"), Created("t", "cow", None, Good), Insert("t", More),
                   Merge("t", 1, "upd", None), Relabel("t", "archived"), Remember("t"),
                   Expire("t", 3, TRUE), Prove}
  <1>0. OperationOK(Expire("t", 3, TRUE))
    BY DEF OperationOK, Expire, Tables
  <1>1. \A x \in S : OperationOK(x)
    BY <1>0, OperationsAre DEF Tables
  <1>2. Lak3Break \in CellsOf(S)
    BY DEF Lak3Break, CellsOf
  <1>3. Lak3Fix \in CellsOf(S)
    BY DEF Lak3Fix, CellsOf
  <1> HIDE DEF S
  <1> QED
    BY <1>1, <1>2, <1>3, JoinedOK

LEMMA Lak4OK == ScriptOK(Lak4Break \o Lak4Fix)
  <1> DEFINE S == {Drop("t"), Clear("t"), Created("t", "cow", None, None), Insert("t", Good),
                   Remember("t"), Stray("t", More), ListStrays("t"), Expire("t", 1, FALSE),
                   Backdate("t"), RemoveOrphans("t"), Prove}
  <1>0. OperationOK(Expire("t", 1, FALSE))
    BY DEF OperationOK, Expire, Tables
  <1>1. \A x \in S : OperationOK(x)
    BY <1>0, OperationsAre DEF Tables
  <1>2. Lak4Break \in CellsOf(S)
    BY DEF Lak4Break, CellsOf
  <1>3. Lak4Fix \in CellsOf(S)
    BY DEF Lak4Fix, CellsOf
  <1> HIDE DEF S
  <1> QED
    BY <1>1, <1>2, <1>3, JoinedOK

LEMMA Lak5OK == ScriptOK(Lak5Break \o Lak5Fix)
  <1> DEFINE S == {Drop("t"), Created("t", "cow", None, Good), Insert("t", More),
                   Insert("t", <<Row(5, "new")>>), Remember("t"), Manifests("t"), Prove}
  <1>1. \A x \in S : OperationOK(x)
    BY OperationsAre DEF Tables
  <1>2. Lak5Break \in CellsOf(S)
    BY DEF Lak5Break, CellsOf
  <1>3. Lak5Fix \in CellsOf(S)
    BY DEF Lak5Fix, CellsOf
  <1> HIDE DEF S
  <1> QED
    BY <1>1, <1>2, <1>3, JoinedOK

LEMMA Lak6OK == ScriptOK(Lak6Evolve \o Lak6Prove)
  <1> DEFINE S == {Drop("t"), Created("t", "cow", None, Good), AddColumn("t", "region"),
                   Insert("t", More), Rename("t", "amount", "total_amount"),
                   DropColumn("t", "status"), Remember("t"), AddColumn("t", "note"), Prove}
  <1>1. \A x \in S : OperationOK(x)
    BY OperationsAre DEF Tables
  <1>2. Lak6Evolve \in CellsOf(S)
    BY DEF Lak6Evolve, CellsOf
  <1>3. Lak6Prove \in CellsOf(S)
    BY DEF Lak6Prove, CellsOf
  <1> HIDE DEF S
  <1> QED
    BY <1>1, <1>2, <1>3, JoinedOK

LEMMA Lak7OK == ScriptOK(Lak7Days \o Lak7Bucket)
  <1> DEFINE S == {Drop("t"), Created("t", "cow", <<"day">>, None), Insert("t", Good),
                   Insert("t", More), Remember("t"), AddField("t", "bucket"),
                   Insert("t", <<Row(6, "new"), Row(7, "new")>>), Prove}
  <1>1. \A x \in S : OperationOK(x)
    BY OperationsAre DEF Tables
  <1>2. Lak7Days \in CellsOf(S)
    BY DEF Lak7Days, CellsOf
  <1>3. Lak7Bucket \in CellsOf(S)
    BY DEF Lak7Bucket, CellsOf
  <1> HIDE DEF S
  <1> QED
    BY <1>1, <1>2, <1>3, JoinedOK

LEMMA Lak8OK == ScriptOK(Lak8Cow \o Lak8Mor)
  <1> DEFINE S == {Drop("t"), Created("t", "cow", <<"bucket">>, Good \o More),
                   Merge("t", 1, "corrected", None), Drop("u"),
                   Created("u", "mor", <<"bucket">>, Good \o More),
                   Merge("u", 1, "corrected", None), Compact("u", 5, TRUE), Prove}
  <1>1. \A x \in S : OperationOK(x)
    BY OperationsAre DEF Tables
  <1>2. Lak8Cow \in CellsOf(S)
    BY DEF Lak8Cow, CellsOf
  <1>3. Lak8Mor \in CellsOf(S)
    BY DEF Lak8Mor, CellsOf
  <1> HIDE DEF S
  <1> QED
    BY <1>1, <1>2, <1>3, JoinedOK

LEMMA Lak9OK == ScriptOK(Lak9Recover \o Lak9Gotcha)
  <1> DEFINE S == {Drop("t"), Created("t", "cow", None, Good), Insert("t", More),
                   Remember("t"), Replace("t", <<Row(1, "corrupt")>>), Rollback("t"), Prove,
                   Drop("u"), Created("u", "cow", None, Good), Remember("u"),
                   Relabel("u", "bad"), Expire("u", 1, TRUE)}
  <1>0. OperationOK(Expire("u", 1, TRUE))
    BY DEF OperationOK, Expire, Tables
  <1>1. \A x \in S : OperationOK(x)
    BY <1>0, OperationsAre DEF Tables
  <1>2. Lak9Recover \in CellsOf(S)
    BY DEF Lak9Recover, CellsOf
  <1>3. Lak9Gotcha \in CellsOf(S)
    BY DEF Lak9Gotcha, CellsOf
  <1> HIDE DEF S
  <1> QED
    BY <1>1, <1>2, <1>3, JoinedOK

LEMMA Lak10OK == ScriptOK(Lak10Write \o Lak10Tag)
  <1> DEFINE S == {Drop("t"), Drop("u"), Created("t", "mor", <<"day">>, None),
                   Insert("t", Good), Insert("t", More), DeleteRow("t", 1),
                   Created("u", "cow", None, None), Insert("u", Good), DeleteRow("u", 1),
                   Tag("t"), Prove}
  <1>1. \A x \in S : OperationOK(x)
    BY OperationsAre DEF Tables
  <1>2. Lak10Write \in CellsOf(S)
    BY DEF Lak10Write, CellsOf
  <1>3. Lak10Tag \in CellsOf(S)
    BY DEF Lak10Tag, CellsOf
  <1> HIDE DEF S
  <1> QED
    BY <1>1, <1>2, <1>3, JoinedOK

LEMMA Scripts == \A n \in Notebooks : ScriptOK(Cells[n])
  <1>1. /\ ScriptOK(Cells["lak1"]) /\ ScriptOK(Cells["lak2"]) /\ ScriptOK(Cells["lak3"])
        /\ ScriptOK(Cells["lak4"]) /\ ScriptOK(Cells["lak5"]) /\ ScriptOK(Cells["lak6"])
        /\ ScriptOK(Cells["lak7"]) /\ ScriptOK(Cells["lak8"]) /\ ScriptOK(Cells["lak9"])
        /\ ScriptOK(Cells["lak10"])
    BY Lak1OK, Lak2OK, Lak3OK, Lak4OK, Lak5OK, Lak6OK, Lak7OK, Lak8OK, Lak9OK, Lak10OK DEF Cells
  <1>2. Notebooks \subseteq {"lak1", "lak2", "lak3", "lak4", "lak5", "lak6", "lak7", "lak8", "lak9",
                            "lak10"}
    BY NotebooksAssumption DEF Cells
  <1> QED
    BY <1>1, <1>2

-----------------------------------------------------------------------------
(* THE INVARIANT.  The kernel is at an operation of the script, unless it  *)
(* is at the end and has not failed.                                       *)
Phases == {"written", "expired"}

KernelInv ==
    /\ notebook \in Notebooks /\ KernelTypeOK(Script, Phases)
    /\ AtEnd(Script) => status = "ready"

(* The metadata: the current snapshot and the tagged ones are kept, and a  *)
(* snapshot's parent is older than it is.                                  *)
MetaOK(m) ==
    /\ m = [mode |-> m.mode, spec |-> m.spec, schema |-> m.schema, lastId |-> m.lastId,
            snaps |-> m.snaps, kept |-> m.kept, current |-> m.current, tags |-> m.tags]
    /\ m.snaps \in Seq(ToSet(m.snaps))
    /\ \A i \in DOMAIN m.snaps : m.snaps[i].parent \in 0 .. i - 1
    /\ m.kept \subseteq DOMAIN m.snaps
    /\ m.current \in m.kept \cup {0} /\ m.tags \subseteq m.kept

MetaInv == meta = [t \in Tables |-> meta[t]] /\ \A t \in Tables : MetaOK(meta[t])

(* The files: those that a retained snapshot needs are in the directory of *)
(* their table, and every file is named after a write.                     *)
DiskInv ==
    /\ disk = [t \in Tables |-> disk[t]] /\ writes \in Nat
    /\ \A t \in Tables : \A f \in disk[t] : f.n \in 1 .. writes
    /\ \A t, u \in Tables : t # u => disk[t] \cap disk[u] = {}
    /\ \A t \in Tables : KeptFiles(meta[t]) \subseteq disk[t]

(* What a write has put on disk is there until it commits; what an expiry  *)
(* is about to delete is needed by nobody.                                 *)
PhaseInv ==
    /\ status # "written" => staged = Plan({}, {})
    /\ status = "written" => /\ Writing /\ staged.adds \subseteq disk[o.t]
                             /\ o.op = "create" => meta[o.t] = NoTable
    /\ status # "expired" => doomed = {}
    /\ status = "expired" => doomed \subseteq disk[o.t] \ KeptFiles(meta[o.t])

IcebergInv == KernelInv /\ MetaInv /\ DiskInv /\ PhaseInv

-----------------------------------------------------------------------------
(* THE KERNEL.                                                             *)
LEMMA DueFacts ==
    ASSUME KernelInv, ~AtEnd(Script)
    PROVE  cell \in 1 .. Len(Script) /\ op \in 1 .. Len(Script[cell]) /\ OperationOK(o)
  <1>1. Len(Script) \in Nat \ {0}
    BY Scripts DEF KernelInv, ScriptOK, Script
  <1>2. cell \in 1 .. Len(Script) /\ op \in 1 .. Len(Script[cell])
    BY <1>1 DEF KernelInv, KernelTypeOK, AtEnd
  <1> QED
    BY <1>2, Scripts DEF o, Script, KernelInv, ScriptOK

(* How a step may move the kernel.                                         *)
Moves ==
    \/ ~AtEnd(Script) /\ Finish(Script)
    \/ ~AtEnd(Script) /\ \E phase \in Phases \cup {"rejected"} : GoOn(phase)
    \/ ~AtEnd(Script) /\ Fault("failed")
    \/ RetryCell
    \/ FromTop
    \/ UNCHANGED kernelVars

LEMMA NextMoves == [Next]_vars => Moves
  <1> SUFFICES ASSUME [Next]_vars PROVE Moves
    OBVIOUS
  <1> USE DEF Moves, Phases, DueOp, Due
  <1>1. CASE WriteFiles \/ CommitWrite \/ StrayWrite \/ AlterTable
    BY <1>1 DEF WriteFiles, CommitWrite, StrayWrite, AlterTable
  <1>2. CASE ExpireSnapshots \/ Reclaim \/ RemoveOld \/ DropTable
    BY <1>2 DEF ExpireSnapshots, Reclaim, RemoveOld, DropTable
  <1>3. CASE KernelStep \/ Reject \/ Crash \/ Retry \/ FromTheTop \/ UNCHANGED vars
    BY <1>3 DEF KernelStep, Reject, Crash, Die, Retry, FromTheTop, vars
  <1> QED
    BY <1>1, <1>2, <1>3 DEF Next

LEMMA KernelPreserved ==
    KernelInv /\ [Next]_vars => KernelInv' /\ notebook' = notebook /\ Script' = Script
  <1> SUFFICES ASSUME KernelInv, Moves PROVE KernelInv' /\ notebook' = notebook
    BY NextMoves DEF Script
  <1>1. notebook' = notebook /\ Script' = Script
    BY DEF Moves, Finish, GoOn, Fault, RetryCell, FromTop, kernelVars, Script
  <1>0. /\ Len(Script) \in Nat \ {0} /\ \A i \in 1 .. Len(Script) : Len(Script[i]) \in Nat \ {0}
    BY Scripts DEF KernelInv, Script, ScriptOK
  <1> USE KernelAssumption, <1>0, <1>1 DEF KernelInv, KernelTypeOK, AtEnd, Phases
  <1>2. CASE ~AtEnd(Script) /\ Finish(Script)
    BY <1>2, DueFacts DEF Finish
  <1>3. CASE ~AtEnd(Script) /\ \E phase \in Phases \cup {"rejected"} : GoOn(phase)
    BY <1>3 DEF GoOn
  <1>4. CASE ~AtEnd(Script) /\ Fault("failed")
    BY <1>4 DEF Fault
  <1>5. CASE RetryCell
    BY <1>5, DueFacts DEF RetryCell
  <1>6. CASE FromTop
    BY <1>6 DEF FromTop
  <1>7. CASE UNCHANGED kernelVars
    BY <1>7 DEF kernelVars
  <1> QED
    BY <1>2, <1>3, <1>4, <1>5, <1>6, <1>7 DEF Moves

-----------------------------------------------------------------------------
(* THE METADATA.  What a commit, an alteration and an expiry make of it.   *)
LEMMA NewTableOK ==
    \A c : /\ MetaOK(NewTable(c)) /\ NewTable(c).kept = {} /\ NewTable(c).current = 0
           /\ NewTable(c).tags = {} /\ NewTable(c).snaps = <<>>
  BY DEF NewTable, MetaOK, ToSet

LEMMA AppendIs ==
    ASSUME NEW s, s \in Seq(ToSet(s)), NEW e
    PROVE  /\ Append(s, e) \in Seq(ToSet(Append(s, e)))
           /\ Len(s) \in Nat /\ DOMAIN s = 1 .. Len(s) /\ DOMAIN Append(s, e) = 1 .. Len(s) + 1
           /\ Append(s, e)[Len(s) + 1] = e /\ \A i \in 1 .. Len(s) : Append(s, e)[i] = s[i]
  <1>1. s \in Seq(ToSet(s) \cup {e})
    OBVIOUS
  <1>2. /\ Append(s, e) \in Seq(ToSet(s) \cup {e}) /\ Len(Append(s, e)) = Len(s) + 1
        /\ Len(s) \in Nat /\ DOMAIN s = 1 .. Len(s) /\ DOMAIN Append(s, e) = 1 .. Len(s) + 1
        /\ Append(s, e)[Len(s) + 1] = e /\ \A i \in 1 .. Len(s) : Append(s, e)[i] = s[i]
    BY <1>1
  <1>3. \A i \in 1 .. Len(s) + 1 : Append(s, e)[i] \in ToSet(Append(s, e))
    BY <1>2 DEF ToSet
  <1>4. Append(s, e) \in Seq(ToSet(Append(s, e)))
    BY <1>2, <1>3
  <1> QED
    BY <1>2, <1>4

(* A commit adds one snapshot and makes it the current one.                *)
LEMMA CommittedIs ==
    ASSUME NEW m, MetaOK(m), NEW ms, NEW c, c = Committed(m, ms)
    PROVE  /\ MetaOK(c) /\ c.current \in Nat \ {0} /\ c.current \notin m.kept
           /\ c.kept = m.kept \cup {c.current} /\ c.tags = m.tags
           /\ FilesAt(c, c.current) = UNION ms
           /\ \A i \in m.kept : FilesAt(c, i) = FilesAt(m, i)
  <1> DEFINE id == Len(m.snaps) + 1
             e == [parent |-> m.current, manifests |-> ms \ {{}}, schema |-> m.schema]
             s == Append(m.snaps, e)
  <1>1. /\ s \in Seq(ToSet(s)) /\ Len(m.snaps) \in Nat /\ DOMAIN m.snaps = 1 .. Len(m.snaps)
        /\ DOMAIN s = 1 .. id /\ s[id] = e /\ \A i \in 1 .. Len(m.snaps) : s[i] = m.snaps[i]
    <2> HIDE DEF e
    <2> QED
      BY AppendIs DEF MetaOK
  <1>2. c = [mode |-> m.mode, spec |-> m.spec, schema |-> m.schema, lastId |-> m.lastId,
             snaps |-> s, kept |-> m.kept \cup {id}, current |-> id, tags |-> m.tags]
    BY DEF Committed, MetaOK
  <1>3. e.parent = m.current /\ e.manifests = ms \ {{}}
    OBVIOUS
  <1> HIDE DEF s, e
  <1>4. \A i \in 1 .. id : s[i].parent \in 0 .. i - 1
    BY <1>1, <1>3 DEF MetaOK
  <1>5. id \in Nat \ {0} /\ id \notin m.kept
    BY <1>1 DEF MetaOK
  <1>6. MetaOK(c)
    BY <1>1, <1>2, <1>4, <1>5 DEF MetaOK
  <1>7. FilesAt(c, id) = UNION ms
    BY <1>1, <1>2, <1>3, <1>5 DEF FilesAt
  <1>8. \A i \in m.kept : FilesAt(c, i) = FilesAt(m, i)
    <2> TAKE i \in m.kept
    <2>1. i \in 1 .. Len(m.snaps) /\ i # 0 /\ s[i] = m.snaps[i]
      BY <1>1 DEF MetaOK
    <2>2. c.snaps = s
      BY <1>2
    <2> QED
      BY <2>1, <2>2 DEF FilesAt
  <1>9. c.current = id /\ c.kept = m.kept \cup {id} /\ c.tags = m.tags
    BY <1>2
  <1> QED
    BY <1>5, <1>6, <1>7, <1>8, <1>9

(* For a table that keeps its snapshots nothing happens.                   *)
SameTable(m, n) ==
    /\ n.kept = m.kept /\ n.current = m.current /\ n.tags = m.tags
    /\ \A i \in m.kept : FilesAt(n, i) = FilesAt(m, i)

(* What an alteration makes of a table.                                    *)
Altered(m, n) ==
    \/ SameTable(m, n)
    \/ \E ms : n = Committed(m, ms) /\ UNION ms = CurrentFiles(m)
    \/ /\ o.op = "rollback"
       /\ n.kept = m.kept /\ n.current \in m.kept /\ n.tags = m.tags
       /\ \A i \in m.kept : FilesAt(n, i) = FilesAt(m, i)
    \/ /\ n.kept = m.kept /\ n.current = m.current /\ n.tags = {m.current}
       /\ m.current # 0 /\ m.tags = {}
       /\ \A i \in m.kept : FilesAt(n, i) = FilesAt(m, i)

LEMMA AlterIs ==
    ASSUME NEW m, m = meta[o.t], MetaOK(m), ~Refused, ~Writing,
           o.op \in {"create", "rollback", "tag", "addcolumn", "rename", "dropcolumn", "addfield",
                     "manifests"}
    PROVE  MetaOK(Alter(m)) /\ Altered(m, Alter(m))
  <1>0. m = [mode |-> m.mode, spec |-> m.spec, schema |-> m.schema, lastId |-> m.lastId,
             snaps |-> m.snaps, kept |-> m.kept, current |-> m.current, tags |-> m.tags]
    BY DEF MetaOK
  <1>1. CASE o.op = "create"
    <2>1. m = NoTable /\ Alter(m) = NewTable(o)
      BY <1>1 DEF Refused, Exists, Alter
    <2> QED
      BY <2>1, NewTableOK DEF NoTable, Altered, SameTable
  <1>2. CASE o.op = "rollback"
    <2> DEFINE b == before[o.t].current
    <2>1. b \in m.kept
      BY <1>2 DEF Refused
    <2>2. Alter(m) = [mode |-> m.mode, spec |-> m.spec, schema |-> m.schema, lastId |-> m.lastId,
                      snaps |-> m.snaps, kept |-> m.kept, current |-> b, tags |-> m.tags]
      BY <1>0, <1>2 DEF Alter
    <2> HIDE DEF b
    <2> QED
      BY <1>2, <2>1, <2>2 DEF MetaOK, Altered, FilesAt
  <1>3. CASE o.op = "tag"
    <2>1. m.tags = {} /\ m.current # 0
      BY <1>3 DEF Refused
    <2>2. Alter(m) = [mode |-> m.mode, spec |-> m.spec, schema |-> m.schema, lastId |-> m.lastId,
                      snaps |-> m.snaps, kept |-> m.kept, current |-> m.current,
                      tags |-> {m.current}]
      BY <1>0, <1>3 DEF Alter
    <2> QED
      BY <2>1, <2>2 DEF MetaOK, Altered, FilesAt
  <1>4. CASE o.op \in {"addcolumn", "rename", "dropcolumn", "addfield"}
    <2>1. \E spec, schema, id :
              Alter(m) = [mode |-> m.mode, spec |-> spec, schema |-> schema, lastId |-> id,
                          snaps |-> m.snaps, kept |-> m.kept, current |-> m.current,
                          tags |-> m.tags]
      <3>1. CASE o.op = "addcolumn"
        BY <1>0, <3>1 DEF Alter
      <3>2. CASE o.op = "rename"
        BY <1>0, <3>2 DEF Alter
      <3>3. CASE o.op = "dropcolumn"
        BY <1>0, <3>3 DEF Alter
      <3>4. CASE o.op = "addfield"
        BY <1>0, <3>4 DEF Alter
      <3> QED
        BY <1>4, <3>1, <3>2, <3>3, <3>4
    <2> QED
      BY <2>1 DEF MetaOK, Altered, SameTable, FilesAt
  <1>5. CASE o.op = "manifests"
    <2> DEFINE files == CurrentFiles(m)
               ms == {{f \in files : IsData(f)}, {f \in files : ~IsData(f)}}
    <2>1. Alter(m) = m \/ Alter(m) = Committed(m, ms)
      BY <1>5 DEF Alter
    <2>2. UNION ms = files
      OBVIOUS
    <2> HIDE DEF ms
    <2>3. MetaOK(Committed(m, ms))
      BY CommittedIs
    <2> QED
      BY <2>1, <2>2, <2>3 DEF Altered, SameTable
  <1> QED
    BY <1>1, <1>2, <1>3, <1>4, <1>5

(* What an expiry retains: what the tags and the table's head name.        *)
LEMMA RetainedIs ==
    ASSUME NEW m, MetaOK(m), o.op = "expire", OperationOK(o)
    PROVE  /\ Retained(m) \subseteq m.kept /\ m.tags \subseteq Retained(m)
           /\ m.current # 0 => m.current \in Retained(m)
  <1> DEFINE line == Ancestors(m) \cap m.kept
  <1>1. m.tags \subseteq m.kept /\ m.current \in m.kept \cup {0} /\ m.kept \subseteq DOMAIN m.snaps
    BY DEF MetaOK
  <1>2. ASSUME m.current # 0
        PROVE  m.current \in line /\ ~ \E j \in line : j > m.current
    <2>1. m.current \in line
      BY <1>1, <1>2 DEF Ancestors
    <2>2. m.current \in Nat /\ 1 .. m.current \subseteq DOMAIN m.snaps
      <3>1. Len(m.snaps) \in Nat /\ DOMAIN m.snaps = 1 .. Len(m.snaps)
        BY DEF MetaOK
      <3> QED
        BY <1>1, <1>2, <3>1
    <2>3. \A j \in 1 .. m.current : m.snaps[j].parent \in 1 .. m.current \cup {0}
      <3> TAKE j \in 1 .. m.current
      <3>1. j \in DOMAIN m.snaps
        BY <2>2
      <3>2. m.snaps[j].parent \in 0 .. j - 1
        BY <3>1 DEF MetaOK
      <3> QED
        BY <2>2, <3>2
    <2>4. Ancestors(m) \subseteq 1 .. m.current
      <3> DEFINE L == 1 .. m.current
      <3>1. /\ L \in SUBSET DOMAIN m.snaps /\ m.current \in L \cup {0}
            /\ \A j \in L : m.snaps[j].parent \in L \cup {0}
        BY <1>2, <2>2, <2>3
      <3> HIDE DEF L
      <3>2. Ancestors(m) \subseteq L
        BY <3>1 DEF Ancestors
      <3> QED
        BY <3>2 DEF L
    <2> QED
      BY <2>1, <2>2, <2>4
  <1>3. CASE ~o.now
    BY <1>1, <1>3 DEF Retained
  <1>4. CASE o.now
    <2> DEFINE Newer(i) == {j \in line : j > i}
    <2>1. Retained(m) = m.tags \cup {i \in line : Cardinality(Newer(i)) < o.retain}
      BY <1>4 DEF Retained
    <2>2. ASSUME m.current # 0 PROVE Cardinality(Newer(m.current)) < o.retain
      <3>1. Newer(m.current) = {}
        BY <1>2, <2>2
      <3> QED
        BY <3>1, FS_EmptySet DEF OperationOK
    <2> HIDE DEF Newer
    <2>3. m.current # 0 => m.current \in Retained(m)
      BY <1>2, <2>1, <2>2
    <2> QED
      BY <1>1, <2>1, <2>3
  <1> QED
    BY <1>3, <1>4

-----------------------------------------------------------------------------
(* THE FILES.  Those of a write are named after it.                        *)
LEMMA NewFilesFresh == \A m, rows : \A f \in NewFiles(m, rows) : f.n = writes + 1
  BY DEF NewFiles, File

LEMMA PlansFresh ==
    ASSUME NEW m, o.op \in Writes \cup {"create"}, NEW plan \in Plans(m)
    PROVE  \A f \in plan.adds : f.n = writes + 1
  <1> USE NewFilesFresh
  <1>1. CASE o.op \in {"create", "insert"}
    BY <1>1 DEF Plans, Plan
  <1>2. CASE o.op = "replace"
    BY <1>2 DEF Plans, Plan
  <1>3. CASE o.op = "relabel"
    BY <1>3 DEF Plans, Plan
  <1>4. CASE o.op = "merge"
    <2>1. plan = MergePlan(m)
      BY <1>4 DEF Plans
    <2> QED
      BY <2>1 DEF Plan, MergePlan, File
  <1>5. CASE o.op = "compact"
    BY <1>5 DEF Plans, Plan, CompactPlans
  <1> QED
    BY <1>1, <1>2, <1>3, <1>4, <1>5 DEF Writes

(* What the abstract table calls referenced, and the current files.        *)
LEMMA PromisedFiles ==
    ASSUME NEW t \in Tables, MetaOK(meta[t])
    PROVE  /\ Promise(t)!Referenced = KeptFiles(meta[t])
           /\ Promise(t)!CurrentFiles = CurrentFiles(meta[t])
           /\ Promise(t)!Pinned = meta[t].tags \cup ({meta[t].current} \ {0})
  <1>1. Promise(t)!Referenced = KeptFiles(meta[t])
    BY DEF Promise!Referenced, KeptFiles
  <1>2. Promise(t)!CurrentFiles = CurrentFiles(meta[t])
    BY DEF Promise!CurrentFiles, CurrentFiles, FilesAt, MetaOK
  <1> QED
    BY <1>1, <1>2 DEF Promise!Pinned

(* A table that the step leaves alone, but for files in progress that are  *)
(* given up.                                                               *)
Untouched(t) ==
    /\ SameTable(meta[t], meta'[t]) /\ disk'[t] = disk[t]
    /\ staged'.adds \cap disk[t] \subseteq staged.adds
    /\ doomed' \cap disk[t] \subseteq doomed

Keeps(t) == [Promise(t)!Next]_(Promise(t)!vars)

LEMMA UntouchedKeeps == ASSUME NEW t \in Tables, Untouched(t) PROVE Keeps(t)
  <1>1. [i \in meta'[t].kept |-> FilesAt(meta'[t], i)] = [i \in meta[t].kept |-> FilesAt(meta[t], i)]
    BY DEF Untouched, SameTable
  <1>2. Promise(t)!Abandon
    BY <1>1 DEF Promise!Abandon, Untouched, SameTable
  <1> QED
    BY <1>2 DEF Keeps, Promise!Next

(* Files come.                                                             *)
LEMMA WriteKeeps ==
    ASSUME IcebergInv, status = "ready", NEW t \in Tables, NEW adds,
           \A f \in adds : f.n = writes + 1,
           disk' = [disk EXCEPT ![t] = @ \cup adds], writes' = writes + 1,
           meta' = meta, doomed' = doomed, staged'.adds \in {adds, {}}
    PROVE  DiskInv' /\ \A u \in Tables : Keeps(u)
  <1>1. /\ staged.adds = {} /\ doomed = {} /\ writes \in Nat
        /\ disk'[t] = disk[t] \cup adds /\ \A u \in Tables : u # t => disk'[u] = disk[u]
    BY DEF IcebergInv, PhaseInv, Plan, DiskInv
  <1>2. \A u \in Tables : adds \cap disk[u] = {}
    BY <1>1 DEF IcebergInv, DiskInv
  <1>3. DiskInv'
    <2>1. disk' = [u \in Tables |-> disk'[u]]
      BY DEF IcebergInv, DiskInv
    <2>2. \A u \in Tables : \A f \in disk'[u] : f.n \in 1 .. writes'
      BY <1>1 DEF IcebergInv, DiskInv
    <2>3. \A u, v \in Tables : u # v => disk'[u] \cap disk'[v] = {}
      BY <1>1, <1>2 DEF IcebergInv, DiskInv
    <2>4. \A u \in Tables : KeptFiles(meta'[u]) \subseteq disk'[u]
      BY <1>1 DEF IcebergInv, DiskInv
    <2>5. writes' \in Nat
      BY <1>1
    <2> QED
      BY <2>1, <2>2, <2>3, <2>4, <2>5 DEF DiskInv
  <1>4. Keeps(t)
    <2>1. Promise(t)!Referenced = KeptFiles(meta[t])
      BY PromisedFiles DEF IcebergInv, MetaInv
    <2>2. adds \cap Promise(t)!Referenced = {}
      BY <1>2, <2>1 DEF IcebergInv, DiskInv
    <2>3. Promise(t)!Write
      <3> DEFINE pending == staged.adds \cap disk[t]
      <3>1. pending = {} /\ doomed \cap disk[t] = {} /\ doomed' \cap disk'[t] = {}
        BY <1>1
      <3>2. disk'[t] \ disk[t] \subseteq adds /\ disk[t] \subseteq disk'[t]
        BY <1>1
      <3>3. staged'.adds \cap disk'[t] \subseteq disk'[t] \ disk[t]
        BY <1>1, <1>2
      <3> QED
        BY <2>2, <3>1, <3>2, <3>3 DEF Promise!Write
    <2> QED
      BY <2>3 DEF Keeps, Promise!Next
  <1>5. ASSUME NEW u \in Tables, u # t PROVE Keeps(u)
    <2>1. Untouched(u)
      BY <1>1, <1>2, <1>5 DEF Untouched, SameTable
    <2> QED
      BY <2>1, UntouchedKeeps
  <1> QED
    BY <1>3, <1>4, <1>5

(* Files go, and none that the table's snapshots need.                     *)
LEMMA DiskShrinks ==
    ASSUME MetaInv, DiskInv, NEW t \in Tables, NEW d, disk' = [disk EXCEPT ![t] = d],
           d \subseteq disk[t], writes' = writes, KeptFiles(meta'[t]) \subseteq d,
           \A u \in Tables : u # t => meta'[u] = meta[u]
    PROVE  DiskInv' /\ disk'[t] = d /\ \A u \in Tables : u # t => disk'[u] = disk[u]
  <1>1. disk'[t] = d /\ \A u \in Tables : u # t => disk'[u] = disk[u]
    BY DEF DiskInv
  <1>2. disk' = [u \in Tables |-> disk'[u]] /\ writes' \in Nat
    BY DEF DiskInv
  <1>3. /\ \A u \in Tables : \A f \in disk'[u] : f.n \in 1 .. writes'
        /\ \A u, v \in Tables : u # v => disk'[u] \cap disk'[v] = {}
    BY <1>1 DEF DiskInv
  <1>4. \A u \in Tables : KeptFiles(meta'[u]) \subseteq disk'[u]
    BY <1>1 DEF DiskInv
  <1> QED
    BY <1>1, <1>2, <1>3, <1>4 DEF DiskInv

LEMMA MetaSet ==
    ASSUME MetaInv, NEW t \in Tables, NEW m, MetaOK(m), meta' = [meta EXCEPT ![t] = m]
    PROVE  MetaInv' /\ meta'[t] = m /\ \A u \in Tables : u # t => meta'[u] = meta[u]
  <1>1. meta'[t] = m /\ \A u \in Tables : u # t => meta'[u] = meta[u]
    BY DEF MetaInv
  <1>2. meta' = [u \in Tables |-> meta'[u]]
    BY DEF MetaInv
  <1> QED
    BY <1>1, <1>2 DEF MetaInv

(* A snapshot is committed, in a table or in one that this creates.        *)
LEMMA CommitKeeps ==
    ASSUME MetaInv, NEW t \in Tables, NEW m, MetaOK(m), SameTable(meta[t], m),
           NEW ms, meta'[t] = Committed(m, ms), disk'[t] = disk[t],
           UNION ms \subseteq CurrentFiles(m) \cup (staged.adds \cap disk[t]),
           staged'.adds = {}, doomed' = doomed
    PROVE  Keeps(t) /\ KeptFiles(meta'[t]) \subseteq KeptFiles(meta[t]) \cup UNION ms
  <1> DEFINE c == meta'[t]
  <1>1. /\ c.current \in Nat \ {0} /\ c.current \notin meta[t].kept
        /\ c.kept = meta[t].kept \cup {c.current} /\ c.tags = meta[t].tags
        /\ FilesAt(c, c.current) = UNION ms
        /\ \A i \in meta[t].kept : FilesAt(c, i) = FilesAt(meta[t], i)
    BY CommittedIs DEF SameTable
  <1>2. CurrentFiles(m) = CurrentFiles(meta[t]) /\ CurrentFiles(meta[t]) = Promise(t)!CurrentFiles
    <2>1. CurrentFiles(m) = CurrentFiles(meta[t])
      BY DEF SameTable, CurrentFiles, MetaInv, MetaOK, FilesAt
    <2> QED
      BY <2>1, PromisedFiles DEF MetaInv
  <1>3. KeptFiles(c) \subseteq KeptFiles(meta[t]) \cup UNION ms
    BY <1>1 DEF KeptFiles
  <1> HIDE DEF c
  <1>4. Promise(t)!Commit
    BY <1>1, <1>2 DEF Promise!Commit, c
  <1>5. Keeps(t)
    BY <1>4 DEF Keeps, Promise!Next
  <1> QED
    BY <1>3, <1>5 DEF c

-----------------------------------------------------------------------------
(* THE STEPS.                                                              *)
StepOK == MetaInv' /\ DiskInv' /\ PhaseInv' /\ \A t \in Tables : Keeps(t)

LEMMA DueTable ==
    ASSUME IcebergInv, ~AtEnd(Script)
    PROVE  o.t \in Tables /\ OperationOK(o) /\ MetaOK(meta[o.t]) /\ writes \in Nat
  BY DueFacts DEF IcebergInv, OperationOK, MetaInv, DiskInv

(* Between operations nothing is in progress.                              *)
LEMMA AtRest == status' = "ready" /\ staged' = Plan({}, {}) /\ doomed' = {} => PhaseInv'
  BY DEF PhaseInv

LEMMA SameOperation == UNCHANGED <<notebook, cell, op>> => o' = o
  BY DEF o, Script

LEMMA QuietStep ==
    ASSUME IcebergInv, UNCHANGED <<meta, disk, writes>>,
           staged' \in {staged, Plan({}, {})}, doomed' \in {doomed, {}}
    PROVE  MetaInv' /\ DiskInv' /\ \A t \in Tables : Keeps(t)
  <1>1. MetaInv' /\ DiskInv'
    BY DEF IcebergInv, MetaInv, DiskInv
  <1>2. \A t \in Tables : Untouched(t)
    BY DEF Untouched, SameTable, Plan
  <1> QED
    BY <1>1, <1>2, UntouchedKeeps

LEMMA WriteFilesOK == IcebergInv /\ WriteFiles => StepOK
  <1> SUFFICES ASSUME IcebergInv, WriteFiles PROVE StepOK
    OBVIOUS
  <1>1. ~AtEnd(Script) /\ status = "ready" /\ Writing /\ ~Refused
    BY DEF WriteFiles, Due
  <1>2. staged = Plan({}, {}) /\ doomed = {} /\ o.op \in Writes \cup {"create"}
    BY <1>1 DEF IcebergInv, PhaseInv, Writing
  <1>3. PICK plan \in Plans(Target) :
            IF plan = Plan({}, {})
            THEN Finish(Script) /\ UNCHANGED tableVars
            ELSE /\ staged' = plan
                 /\ disk' = [disk EXCEPT ![o.t] = @ \cup plan.adds]
                 /\ writes' = writes + 1
                 /\ GoOn("written")
                 /\ UNCHANGED <<meta, doomed>>
    BY DEF WriteFiles
  <1>4. CASE plan = Plan({}, {})
    <2>1. status' = "ready" /\ UNCHANGED tableVars
      BY <1>3, <1>4 DEF Finish
    <2>2. UNCHANGED <<meta, disk, writes, staged, doomed>>
      BY <2>1 DEF tableVars
    <2> QED
      BY <1>2, <2>1, <2>2, QuietStep, AtRest DEF StepOK
  <1>5. CASE plan # Plan({}, {})
    <2>1. /\ staged' = plan /\ disk' = [disk EXCEPT ![o.t] = @ \cup plan.adds]
          /\ writes' = writes + 1 /\ GoOn("written") /\ meta' = meta /\ doomed' = doomed
      BY <1>3, <1>5
    <2>2. \A f \in plan.adds : f.n = writes + 1
      BY <1>2, PlansFresh
    <2>3. DiskInv' /\ \A u \in Tables : Keeps(u)
      <3>1. staged'.adds \in {plan.adds, {}}
        BY <2>1
      <3> QED
        BY <1>1, <2>1, <2>2, <3>1, DueTable, WriteKeeps
    <2>4. MetaInv'
      BY <2>1 DEF IcebergInv, MetaInv
    <2>5. PhaseInv'
      <3>1. o' = o /\ status' = "written" /\ Writing'
        BY <1>1, <2>1, SameOperation DEF GoOn, Writing
      <3>2. plan.adds \subseteq disk'[o.t]
        BY <1>1, <2>1, DueTable DEF IcebergInv, DiskInv
      <3>3. o.op = "create" => meta[o.t] = NoTable
        BY <1>1 DEF Refused, Exists
      <3> QED
        BY <1>2, <2>1, <3>1, <3>2, <3>3 DEF PhaseInv
    <2> QED
      BY <2>3, <2>4, <2>5 DEF StepOK
  <1> QED
    BY <1>4, <1>5

LEMMA CommitWriteOK == IcebergInv /\ CommitWrite => StepOK
  <1> SUFFICES ASSUME IcebergInv, CommitWrite PROVE StepOK
    OBVIOUS
  <1>0. PICK t \in Tables : t = o.t
    BY DueTable DEF CommitWrite, Due
  <1> DEFINE m == Target
             added == {{f \in staged.adds : IsData(f)}, {f \in staged.adds : ~IsData(f)}}
             stay == {fs \ staged.removes : fs \in ManifestsOf(m)}
             ms == stay \cup added
  <1>1. /\ ~AtEnd(Script) /\ status = "written" /\ meta' = [meta EXCEPT ![t] = Committed(m, ms)]
        /\ staged' = Plan({}, {}) /\ status' = "ready" /\ UNCHANGED <<disk, doomed, writes>>
    BY <1>0 DEF CommitWrite, Due, Finish
  <1>2. staged.adds \subseteq disk[t] /\ doomed = {}
    BY <1>0, <1>1 DEF IcebergInv, PhaseInv
  <1>3. MetaOK(m) /\ SameTable(meta[t], m)
    <2>1. CASE o.op = "create"
      <3>1. meta[t] = NoTable /\ m = NewTable(o)
        BY <1>0, <1>1, <2>1 DEF IcebergInv, PhaseInv, Target
      <3> QED
        BY <3>1, NewTableOK DEF NoTable, SameTable
    <2>2. CASE o.op # "create"
      BY <1>0, <2>2 DEF Target, SameTable, IcebergInv, MetaInv
    <2> QED
      BY <2>1, <2>2
  <1>4. UNION ms \subseteq CurrentFiles(m) \cup (staged.adds \cap disk[t])
    <2>1. UNION added \subseteq staged.adds
      OBVIOUS
    <2>2. UNION stay \subseteq CurrentFiles(m)
      BY DEF ManifestsOf, CurrentFiles, FilesAt
    <2> QED
      BY <1>2, <2>1, <2>2
  <1> HIDE DEF m, ms
  <1>5. MetaOK(Committed(m, ms))
    BY <1>3, CommittedIs
  <1>6. /\ MetaInv' /\ meta'[t] = Committed(m, ms)
        /\ \A u \in Tables : u # t => meta'[u] = meta[u]
    BY <1>1, <1>5, MetaSet DEF IcebergInv
  <1>7. Keeps(t) /\ KeptFiles(meta'[t]) \subseteq KeptFiles(meta[t]) \cup UNION ms
    <2>1. MetaInv /\ staged'.adds = {} /\ doomed' = doomed /\ disk'[t] = disk[t]
      BY <1>1 DEF Plan, IcebergInv
    <2> QED
      BY <1>2, <1>3, <1>4, <1>6, <2>1, CommitKeeps
  <1>8. CurrentFiles(m) \subseteq KeptFiles(meta[t])
    BY <1>3 DEF MetaOK, CurrentFiles, KeptFiles, SameTable, FilesAt
  <1>9. DiskInv'
    BY <1>1, <1>2, <1>4, <1>6, <1>7, <1>8 DEF IcebergInv, DiskInv
  <1>10. ASSUME NEW u \in Tables, u # t PROVE Keeps(u)
    <2>1. Untouched(u)
      BY <1>1, <1>6, <1>10 DEF Untouched, SameTable, Plan
    <2> QED
      BY <2>1, UntouchedKeeps
  <1>11. \A u \in Tables : Keeps(u)
    BY <1>7, <1>10
  <1>12. PhaseInv'
    BY <1>1, <1>2, AtRest
  <1> QED
    BY <1>6, <1>9, <1>11, <1>12 DEF StepOK

LEMMA StrayWriteOK == IcebergInv /\ StrayWrite => StepOK
  <1> SUFFICES ASSUME IcebergInv, StrayWrite PROVE StepOK
    OBVIOUS
  <1> DEFINE adds == NewFiles(NoTable, o.rows)
  <1>1. /\ ~AtEnd(Script) /\ status = "ready" /\ status' = "ready"
        /\ disk' = [disk EXCEPT ![o.t] = @ \cup adds] /\ writes' = writes + 1
        /\ UNCHANGED <<meta, staged, doomed>>
    BY DEF StrayWrite, DueOp, Due, Finish
  <1>2. staged = Plan({}, {}) /\ doomed = {}
    BY <1>1 DEF IcebergInv, PhaseInv
  <1>3. \A f \in adds : f.n = writes + 1
    BY NewFilesFresh
  <1> HIDE DEF adds
  <1>4. DiskInv' /\ \A u \in Tables : Keeps(u)
    <2>1. staged'.adds \in {adds, {}}
      BY <1>1, <1>2 DEF Plan
    <2> QED
      BY <1>1, <1>3, <2>1, DueTable, WriteKeeps
  <1>5. MetaInv'
    BY <1>1 DEF IcebergInv, MetaInv
  <1> QED
    BY <1>1, <1>2, <1>4, <1>5, AtRest DEF StepOK

LEMMA AlterTableOK == IcebergInv /\ AlterTable => StepOK
  <1> SUFFICES ASSUME IcebergInv, AlterTable PROVE StepOK
    OBVIOUS
  <1>0. PICK t \in Tables : t = o.t
    BY DueTable DEF AlterTable, DueOp, Due
  <1> DEFINE n == Alter(meta[t])
  <1>1. /\ ~AtEnd(Script) /\ status = "ready" /\ ~Refused /\ ~Writing
        /\ o.op \in {"create", "rollback", "tag", "addcolumn", "rename", "dropcolumn", "addfield",
                     "manifests"}
        /\ meta' = [meta EXCEPT ![t] = n] /\ status' = "ready"
        /\ UNCHANGED <<disk, staged, doomed, writes>>
    BY <1>0 DEF AlterTable, DueOp, Due, Finish
  <1>2. staged = Plan({}, {}) /\ doomed = {} /\ MetaOK(meta[t]) /\ MetaInv
    BY <1>1 DEF IcebergInv, PhaseInv, MetaInv
  <1>3. MetaOK(n) /\ Altered(meta[t], n)
    BY <1>0, <1>1, <1>2, AlterIs
  <1> HIDE DEF n
  <1>4. /\ MetaInv' /\ meta'[t] = n /\ disk'[t] = disk[t]
        /\ \A u \in Tables : u # t => meta'[u] = meta[u]
    BY <1>1, <1>2, <1>3, MetaSet
  <1>5. Keeps(t) /\ KeptFiles(n) \subseteq KeptFiles(meta[t])
    <2>1. CASE SameTable(meta[t], n)
      <3>1. Untouched(t)
        BY <1>1, <1>2, <1>4, <2>1 DEF Untouched, Plan
      <3>2. KeptFiles(n) = KeptFiles(meta[t])
        BY <2>1 DEF KeptFiles, SameTable
      <3> QED
        BY <3>1, <3>2, UntouchedKeeps
    <2>2. ASSUME NEW ms, n = Committed(meta[t], ms), UNION ms = CurrentFiles(meta[t])
          PROVE  Keeps(t) /\ KeptFiles(n) \subseteq KeptFiles(meta[t])
      <3>1. SameTable(meta[t], meta[t]) /\ staged'.adds = {} /\ doomed' = doomed
        BY <1>1, <1>2 DEF SameTable, Plan
      <3>2. UNION ms \subseteq CurrentFiles(meta[t]) \cup (staged.adds \cap disk[t])
        BY <2>2
      <3>3. Keeps(t) /\ KeptFiles(meta'[t]) \subseteq KeptFiles(meta[t]) \cup UNION ms
        BY <1>2, <1>4, <2>2, <3>1, <3>2, CommitKeeps
      <3>4. CurrentFiles(meta[t]) \subseteq KeptFiles(meta[t])
        BY <1>2 DEF MetaOK, CurrentFiles, KeptFiles, FilesAt
      <3> QED
        BY <1>4, <2>2, <3>3, <3>4
    <2>3. CASE /\ n.kept = meta[t].kept /\ n.current \in meta[t].kept /\ n.tags = meta[t].tags
               /\ \A i \in meta[t].kept : FilesAt(n, i) = FilesAt(meta[t], i)
      <3>1. /\ [i \in n.kept |-> FilesAt(n, i)] = [i \in meta[t].kept |-> FilesAt(meta[t], i)]
            /\ KeptFiles(n) = KeptFiles(meta[t])
        BY <2>3 DEF KeptFiles
      <3>2. Promise(t)!Rollback
        BY <1>1, <1>4, <2>3, <3>1 DEF Promise!Rollback
      <3> QED
        BY <3>1, <3>2 DEF Keeps, Promise!Next
    <2>4. CASE /\ n.kept = meta[t].kept /\ n.current = meta[t].current
               /\ n.tags = {meta[t].current} /\ meta[t].current # 0 /\ meta[t].tags = {}
               /\ \A i \in meta[t].kept : FilesAt(n, i) = FilesAt(meta[t], i)
      <3>1. /\ [i \in n.kept |-> FilesAt(n, i)] = [i \in meta[t].kept |-> FilesAt(meta[t], i)]
            /\ KeptFiles(n) = KeptFiles(meta[t])
        BY <2>4 DEF KeptFiles
      <3>2. Promise(t)!Tag
        BY <1>1, <1>2, <1>4, <2>4, <3>1, PromisedFiles DEF Promise!Tag
      <3> QED
        BY <3>1, <3>2 DEF Keeps, Promise!Next
    <2> QED
      BY <1>3, <2>1, <2>2, <2>3, <2>4 DEF Altered
  <1>6. DiskInv'
    BY <1>1, <1>4, <1>5 DEF IcebergInv, DiskInv
  <1>7. ASSUME NEW u \in Tables, u # t PROVE Keeps(u)
    <2>1. Untouched(u)
      BY <1>1, <1>4, <1>7 DEF Untouched, SameTable
    <2> QED
      BY <2>1, UntouchedKeeps
  <1>8. \A u \in Tables : Keeps(u)
    BY <1>5, <1>7
  <1>9. PhaseInv'
    BY <1>1, <1>2, AtRest
  <1> QED
    BY <1>4, <1>6, <1>8, <1>9 DEF StepOK

(* What the expiry dooms is what no retained snapshot needs.               *)
LEMMA ExpireSnapshotsOK == IcebergInv /\ ExpireSnapshots => StepOK
  <1> SUFFICES ASSUME IcebergInv, ExpireSnapshots PROVE StepOK
    OBVIOUS
  <1>0. PICK t \in Tables : t = o.t
    BY DueTable DEF ExpireSnapshots, DueOp, Due
  <1> DEFINE m == meta[t]
             R == Retained(m)
             n == [m EXCEPT !.kept = R]
  <1>1. /\ ~AtEnd(Script) /\ status = "ready" /\ o.op = "expire"
        /\ meta' = [meta EXCEPT ![t].kept = R] /\ doomed' = Unpinned(m, R)
        /\ GoOn("expired") /\ UNCHANGED <<disk, staged, writes>>
    BY <1>0 DEF ExpireSnapshots, DueOp, Due
  <1>2. /\ staged = Plan({}, {}) /\ doomed = {} /\ MetaOK(m) /\ MetaInv /\ OperationOK(o)
        /\ KeptFiles(m) \subseteq disk[t]
    BY <1>1, DueTable DEF IcebergInv, PhaseInv, MetaInv, DiskInv
  <1>3. R \subseteq m.kept /\ m.tags \subseteq R /\ (m.current # 0 => m.current \in R)
    BY <1>1, <1>2, RetainedIs
  <1> HIDE DEF R
  <1>4. n = [mode |-> m.mode, spec |-> m.spec, schema |-> m.schema, lastId |-> m.lastId,
             snaps |-> m.snaps, kept |-> R, current |-> m.current, tags |-> m.tags]
    BY <1>2 DEF MetaOK
  <1>5. /\ MetaOK(n) /\ n.kept = R /\ n.current = m.current /\ n.tags = m.tags
        /\ \A i : FilesAt(n, i) = FilesAt(m, i)
    BY <1>2, <1>3, <1>4 DEF MetaOK, FilesAt
  <1>6. meta' = [meta EXCEPT ![t] = n]
    BY <1>1
  <1> HIDE DEF n
  <1>7. /\ MetaInv' /\ meta'[t] = n /\ disk'[t] = disk[t]
        /\ \A u \in Tables : u # t => meta'[u] = meta[u]
    BY <1>1, <1>2, <1>5, <1>6, MetaSet
  <1>8. /\ KeptFiles(n) \subseteq KeptFiles(m) /\ doomed' = KeptFiles(m) \ KeptFiles(n)
    <2>1. KeptFiles(n) = UNION {FilesAt(m, i) : i \in R}
      BY <1>5 DEF KeptFiles
    <2>2. KeptFiles(n) \subseteq KeptFiles(m)
      BY <1>3, <2>1 DEF KeptFiles
    <2> QED
      BY <1>1, <2>1, <2>2 DEF Unpinned
  <1>9. DiskInv'
    BY <1>1, <1>7, <1>8 DEF IcebergInv, DiskInv
  <1>10. PhaseInv'
    <2>1. o' = o /\ status' = "expired"
      BY <1>1, SameOperation DEF GoOn
    <2>2. doomed' \subseteq disk'[t] \ KeptFiles(meta'[t])
      BY <1>2, <1>7, <1>8
    <2>3. staged' = Plan({}, {})
      BY <1>1, <1>2
    <2> QED
      BY <1>0, <2>1, <2>2, <2>3 DEF PhaseInv
  <1>11. Keeps(t)
    <2> DEFINE was == [i \in m.kept |-> FilesAt(m, i)]
               is  == [i \in R |-> FilesAt(n, i)]
    <2>1. /\ DOMAIN is \subseteq DOMAIN was /\ is = [i \in DOMAIN is |-> was[i]]
      BY <1>3, <1>5
    <2>2. Promise(t)!Pinned \subseteq R
      BY <1>2, <1>3, PromisedFiles
    <2>3. /\ UNION {was[i] : i \in DOMAIN was} = KeptFiles(m)
          /\ UNION {is[i] : i \in DOMAIN is} = KeptFiles(n)
      BY <1>5 DEF KeptFiles
    <2>4. meta'[t].kept = R /\ [i \in meta'[t].kept |-> FilesAt(meta'[t], i)] = is
      BY <1>5, <1>7
    <2>5. meta'[t].current = m.current /\ meta'[t].tags = m.tags
      BY <1>5, <1>7
    <2>6. Promise(t)!Referenced = KeptFiles(m) /\ (Promise(t)!Referenced)' = KeptFiles(n)
      BY <2>3, <2>4 DEF Promise!Referenced
    <2> HIDE DEF m
    <2>7. DOMAIN is = R /\ DOMAIN was = m.kept
      OBVIOUS
    <2>8. /\ R \subseteq m.kept /\ is = [i \in R |-> was[i]]
      BY <2>1, <2>7
    <2> HIDE DEF was, is
    <2>9. [i \in meta[t].kept |-> FilesAt(meta[t], i)] = was
      BY DEF was, m
    <2>10. Promise(t)!Expire
      BY <1>1, <1>2, <1>8, <2>2, <2>4, <2>5, <2>6, <2>7, <2>8, <2>9 DEF Promise!Expire, m
    <2> QED
      BY <2>10 DEF Keeps, Promise!Next
  <1>12. ASSUME NEW u \in Tables, u # t PROVE Keeps(u)
    <2>1. doomed' \cap disk[u] = {}
      BY <1>2, <1>8, <1>12 DEF IcebergInv, DiskInv
    <2>2. Untouched(u)
      BY <1>1, <1>7, <1>12, <2>1 DEF Untouched, SameTable
    <2> QED
      BY <2>2, UntouchedKeeps
  <1>13. \A u \in Tables : Keeps(u)
    BY <1>11, <1>12
  <1> QED
    BY <1>7, <1>9, <1>10, <1>13 DEF StepOK

LEMMA ReclaimOK == IcebergInv /\ Reclaim => StepOK
  <1> SUFFICES ASSUME IcebergInv, Reclaim PROVE StepOK
    OBVIOUS
  <1>0. PICK t \in Tables : t = o.t
    BY DueTable DEF Reclaim, Due
  <1>1. /\ ~AtEnd(Script) /\ status = "expired" /\ disk' = [disk EXCEPT ![t] = disk[t] \ doomed]
        /\ doomed' = {} /\ status' = "ready" /\ UNCHANGED <<meta, staged, writes>>
    BY <1>0 DEF Reclaim, Due, Finish
  <1>2. /\ staged = Plan({}, {}) /\ doomed \subseteq disk[t] \ KeptFiles(meta[t])
        /\ MetaInv /\ DiskInv
    BY <1>0, <1>1 DEF IcebergInv, PhaseInv
  <1>3. KeptFiles(meta'[t]) \subseteq disk[t] \ doomed
    BY <1>1, <1>2 DEF DiskInv
  <1>4. DiskInv' /\ disk'[t] = disk[t] \ doomed /\ \A u \in Tables : u # t => disk'[u] = disk[u]
    <2>1. /\ disk[t] \ doomed \subseteq disk[t] /\ writes' = writes
          /\ \A u \in Tables : u # t => meta'[u] = meta[u]
      BY <1>1
    <2> DEFINE d == disk[t] \ doomed
    <2>2. /\ d \subseteq disk[t] /\ disk' = [disk EXCEPT ![t] = d] /\ KeptFiles(meta'[t]) \subseteq d
      BY <1>1, <1>3
    <2> HIDE DEF d
    <2>3. DiskInv' /\ disk'[t] = d /\ \A u \in Tables : u # t => disk'[u] = disk[u]
      BY <1>2, <2>1, <2>2, DiskShrinks
    <2> QED
      BY <2>3 DEF d
  <1>5. Keeps(t)
    <2>1. Promise(t)!Reclaim
      BY <1>1, <1>2, <1>4 DEF Promise!Reclaim, Plan
    <2> QED
      BY <2>1 DEF Keeps, Promise!Next
  <1>6. ASSUME NEW u \in Tables, u # t PROVE Keeps(u)
    <2>1. Untouched(u)
      BY <1>1, <1>4, <1>6 DEF Untouched, SameTable
    <2> QED
      BY <2>1, UntouchedKeeps
  <1>7. \A u \in Tables : Keeps(u)
    BY <1>5, <1>6
  <1>8. MetaInv' /\ PhaseInv'
    BY <1>1, <1>2, AtRest DEF MetaInv
  <1> QED
    BY <1>4, <1>7, <1>8 DEF StepOK

LEMMA RemoveOldOK == IcebergInv /\ RemoveOld => StepOK
  <1> SUFFICES ASSUME IcebergInv, RemoveOld PROVE StepOK
    OBVIOUS
  <1>0. PICK t \in Tables : t = o.t
    BY DueTable DEF RemoveOld, DueOp, Due
  <1> DEFINE d == {f \in disk[t] : f \in KeptFiles(meta[t]) \/ f \notin old}
  <1>1. /\ ~AtEnd(Script) /\ status = "ready" /\ disk' = [disk EXCEPT ![t] = d]
        /\ status' = "ready" /\ UNCHANGED <<meta, staged, doomed, writes>>
    BY <1>0 DEF RemoveOld, DueOp, Due, Finish
  <1>2. staged = Plan({}, {}) /\ doomed = {} /\ MetaInv /\ DiskInv
    BY <1>1 DEF IcebergInv, PhaseInv
  <1>3. d \subseteq disk[t] /\ KeptFiles(meta'[t]) \subseteq d
    BY <1>1, <1>2 DEF DiskInv
  <1>4. (disk[t] \ d) \cap KeptFiles(meta[t]) = {}
    OBVIOUS
  <1> HIDE DEF d
  <1>5. DiskInv' /\ disk'[t] = d /\ \A u \in Tables : u # t => disk'[u] = disk[u]
    BY <1>1, <1>2, <1>3, DiskShrinks
  <1>6. Keeps(t)
    <2>1. Promise(t)!Referenced = KeptFiles(meta[t])
      BY <1>2, PromisedFiles DEF MetaInv
    <2>2. Promise(t)!RemoveOrphans
      BY <1>1, <1>2, <1>3, <1>4, <1>5, <2>1 DEF Promise!RemoveOrphans, Plan
    <2> QED
      BY <2>2 DEF Keeps, Promise!Next
  <1>7. ASSUME NEW u \in Tables, u # t PROVE Keeps(u)
    <2>1. Untouched(u)
      BY <1>1, <1>5, <1>7 DEF Untouched, SameTable
    <2> QED
      BY <2>1, UntouchedKeeps
  <1>8. \A u \in Tables : Keeps(u)
    BY <1>6, <1>7
  <1>9. MetaInv' /\ PhaseInv'
    BY <1>1, <1>2, AtRest DEF MetaInv
  <1> QED
    BY <1>5, <1>8, <1>9 DEF StepOK

LEMMA DropTableOK == IcebergInv /\ DropTable => StepOK
  <1> SUFFICES ASSUME IcebergInv, DropTable PROVE StepOK
    OBVIOUS
  <1>0. PICK t \in Tables : t = o.t
    BY DueTable DEF DropTable, DueOp, Due
  <1>1. /\ ~AtEnd(Script) /\ status = "ready" /\ status' = "ready"
        /\ meta' = [meta EXCEPT ![t] = NoTable] /\ UNCHANGED <<staged, doomed, writes>>
    BY <1>0 DEF DropTable, DueOp, Due, Finish
  <1>2. PICK left \in SUBSET disk[t] : disk' = [disk EXCEPT ![t] = left]
    BY <1>0 DEF DropTable
  <1>3. staged = Plan({}, {}) /\ doomed = {} /\ MetaInv /\ DiskInv
    BY <1>1 DEF IcebergInv, PhaseInv
  <1>4. /\ MetaOK(NoTable) /\ NoTable.kept = {} /\ NoTable.current = 0 /\ NoTable.tags = {}
        /\ KeptFiles(NoTable) = {}
    BY NewTableOK DEF NoTable, KeptFiles
  <1>5. MetaInv' /\ meta'[t] = NoTable /\ \A u \in Tables : u # t => meta'[u] = meta[u]
    BY <1>1, <1>3, <1>4, MetaSet
  <1>6. DiskInv' /\ disk'[t] = left /\ \A u \in Tables : u # t => disk'[u] = disk[u]
    <2>1. left \subseteq disk[t] /\ writes' = writes /\ KeptFiles(meta'[t]) \subseteq left
      BY <1>1, <1>4, <1>5
    <2> QED
      BY <1>2, <1>3, <1>5, <2>1, DiskShrinks
  <1>7. Keeps(t)
    <2>1. [i \in meta'[t].kept |-> FilesAt(meta'[t], i)] = [i \in {} |-> {}]
      BY <1>4, <1>5
    <2>2. Promise(t)!Drop
      BY <1>1, <1>3, <1>4, <1>5, <1>6, <2>1 DEF Promise!Drop, Plan
    <2> QED
      BY <2>2 DEF Keeps, Promise!Next
  <1>8. ASSUME NEW u \in Tables, u # t PROVE Keeps(u)
    <2>1. Untouched(u)
      BY <1>1, <1>5, <1>6, <1>8 DEF Untouched, SameTable
    <2> QED
      BY <2>1, UntouchedKeeps
  <1>9. \A u \in Tables : Keeps(u)
    BY <1>7, <1>8
  <1>10. PhaseInv'
    BY <1>1, <1>3, AtRest
  <1> QED
    BY <1>5, <1>6, <1>9, <1>10 DEF StepOK

(* The steps that leave the tables alone, the driver's death among them.   *)
LEMMA OtherStepsOK ==
    IcebergInv /\ (KernelStep \/ Reject \/ Crash \/ Retry \/ FromTheTop \/ UNCHANGED vars) => StepOK
  <1> SUFFICES ASSUME IcebergInv,
                      KernelStep \/ Reject \/ Crash \/ Retry \/ FromTheTop \/ UNCHANGED vars
               PROVE  StepOK
    OBVIOUS
  <1>1. /\ UNCHANGED <<meta, disk, writes>>
        /\ staged' \in {staged, Plan({}, {})} /\ doomed' \in {doomed, {}}
    BY DEF KernelStep, Reject, Crash, Retry, FromTheTop, vars, tableVars
  <1>2. MetaInv' /\ DiskInv' /\ \A t \in Tables : Keeps(t)
    BY <1>1, QuietStep
  <1>3. PhaseInv'
    <2>1. CASE KernelStep \/ Retry \/ FromTheTop
      <3>1. status \notin {"written", "expired"} /\ status' = "ready" /\ UNCHANGED tableVars
        BY <2>1 DEF KernelStep, DueOp, Due, Finish, Retry, RetryCell, FromTheTop, FromTop
      <3>2. staged = Plan({}, {}) /\ doomed = {} /\ UNCHANGED <<staged, doomed>>
        BY <3>1 DEF IcebergInv, PhaseInv, tableVars
      <3> QED
        BY <3>1, <3>2, AtRest
    <2>2. CASE Reject
      BY <2>2 DEF Reject, Due, GoOn, IcebergInv, PhaseInv, tableVars
    <2>3. CASE Crash
      BY <2>3 DEF Crash, Die, Fault, PhaseInv
    <2>4. CASE UNCHANGED vars
      <3>1. o' = o
        BY <2>4, SameOperation DEF vars, kernelVars
      <3> QED
        BY <2>4, <3>1 DEF IcebergInv, PhaseInv, Writing, vars, kernelVars, tableVars
    <2> QED
      BY <2>1, <2>2, <2>3, <2>4
  <1> QED
    BY <1>2, <1>3 DEF StepOK

LEMMA StepsOK == IcebergInv /\ [Next]_vars => StepOK
  BY WriteFilesOK, CommitWriteOK, StrayWriteOK, AlterTableOK, ExpireSnapshotsOK, ReclaimOK,
     RemoveOldOK, DropTableOK, OtherStepsOK DEF Next

-----------------------------------------------------------------------------
(* THE THEOREMS.                                                           *)
LEMMA InitOK == Init => IcebergInv /\ \A t \in Tables : Promise(t)!Init
  <1> SUFFICES ASSUME Init PROVE IcebergInv /\ \A t \in Tables : Promise(t)!Init
    OBVIOUS
  <1>1. KernelInv
    <2>1. /\ notebook \in Notebooks /\ Len(Script) \in Nat \ {0}
          /\ \A i \in 1 .. Len(Script) : Len(Script[i]) \in Nat \ {0}
      BY Scripts DEF Init, KernelInit, Script, ScriptOK
    <2>2. 1 \in 1 .. Len(Script) /\ Len(Script[1]) \in Nat \ {0}
      BY <2>1
    <2> QED
      BY <2>1, <2>2, KernelAssumption DEF Init, KernelInit, KernelInv, KernelTypeOK, AtEnd, Phases
  <1>2. /\ MetaOK(NoTable) /\ NoTable.kept = {} /\ NoTable.current = 0 /\ NoTable.tags = {}
        /\ KeptFiles(NoTable) = {}
    BY NewTableOK DEF NoTable, KeptFiles
  <1>3. \A t \in Tables : meta[t] = NoTable /\ disk[t] = {}
    BY DEF Init
  <1>4. MetaInv /\ DiskInv /\ PhaseInv
    BY <1>2, <1>3 DEF Init, KernelInit, MetaInv, DiskInv, PhaseInv
  <1>5. \A t \in Tables : Promise(t)!Init
    BY <1>2, <1>3 DEF Init, Promise!Init, Plan
  <1> QED
    BY <1>1, <1>4, <1>5 DEF IcebergInv

LEMMA AlwaysIcebergInv == Spec => []IcebergInv
  <1>1. Init => IcebergInv
    BY InitOK
  <1>2. IcebergInv /\ [Next]_vars => IcebergInv'
    BY KernelPreserved, StepsOK DEF IcebergInv, StepOK
  <1> QED
    BY <1>1, <1>2, PTL DEF Spec

(* The kernel is always at an operation of its notebook, the current and   *)
(* the tagged snapshots are retained, files are named after past writes,   *)
(* and no write or expiry is half done unless its operation is due.        *)
THEOREM IcebergTypeCorrect == Spec => []IcebergTypeOK
  <1>1. IcebergInv => IcebergTypeOK
    BY DEF IcebergInv, KernelInv, MetaInv, MetaOK, DiskInv, PhaseInv, IcebergTypeOK, Phases
  <1> QED
    BY <1>1, AlwaysIcebergInv, PTL

(* Every step of a notebook, a death of the driver half way through a      *)
(* write or an expiry and every repetition included, is for each table a   *)
(* step that the abstract IcebergTable takes, or none.                     *)
THEOREM TablesImplementIceberg == Spec => ImplementsTable
  <1>1. Init => \A t \in Tables : Promise(t)!Init
    BY InitOK
  <1>2. IcebergInv /\ [Next]_vars
            => [\A t \in Tables : [Promise(t)!Next]_(Promise(t)!vars)]_vars
    BY StepsOK DEF StepOK, Keeps
  <1> QED
    BY <1>1, <1>2, AlwaysIcebergInv, PTL DEF Spec, ImplementsTable

(* Every snapshot that a table of a notebook retains can be read, and the  *)
(* current one and the tagged ones are retained: VERSION AS OF, and the    *)
(* table itself, never miss a file.                                        *)
THEOREM NotebookSnapshotsReadable ==
    Spec => [](\A t \in Tables : Promise(t)!Readable /\ Promise(t)!PinnedRetained)
  <1>1. IcebergInv => \A t \in Tables : Promise(t)!Readable /\ Promise(t)!PinnedRetained
    <2> SUFFICES ASSUME IcebergInv, NEW t \in Tables
                 PROVE  Promise(t)!Readable /\ Promise(t)!PinnedRetained
      OBVIOUS
    <2>1. MetaOK(meta[t]) /\ KeptFiles(meta[t]) \subseteq disk[t]
      BY DEF IcebergInv, MetaInv, DiskInv
    <2>2. Promise(t)!Readable
      BY <2>1, PromisedFiles DEF Promise!Readable
    <2>3. Promise(t)!PinnedRetained
      BY <2>1, PromisedFiles DEF Promise!PinnedRetained, MetaOK
    <2> QED
      BY <2>2, <2>3
  <1> QED
    BY <1>1, AlwaysIcebergInv, PTL

(* What a retained snapshot reads as, and the files of the current one.    *)
LEMMA RetainedReads ==
    ASSUME IcebergInv, [Next]_vars, NEW t \in Tables, NEW i \in meta[t].kept, i \in meta'[t].kept
    PROVE  FilesAt(meta'[t], i) = FilesAt(meta[t], i) /\ Read(t, i)' = Read(t, i)
  <1>1. IcebergInv' /\ Keeps(t)
    BY KernelPreserved, StepsOK DEF IcebergInv, StepOK
  <1> DEFINE was == [k \in meta[t].kept |-> FilesAt(meta[t], k)]
             is  == [k \in meta'[t].kept |-> FilesAt(meta'[t], k)]
  <1>2. is[i] = was[i]
    <2> HIDE DEF was, is
    <2>1. i \in DOMAIN was /\ i \in DOMAIN is
      BY DEF was, is
    <2>2. /\ Promise(t)!Commit => is[i] = was[i]
          /\ Promise(t)!Expire => is[i] = was[i]
          /\ ~ Promise(t)!Drop
      BY <2>1 DEF Promise!Commit, Promise!Expire, Promise!Drop, was, is
    <2>3. ~ Promise(t)!Commit /\ ~ Promise(t)!Expire /\ ~ Promise(t)!Drop => is = was
      BY <1>1 DEF Keeps, Promise!Next, Promise!vars, Promise!Write, Promise!Abandon,
                  Promise!Rollback, Promise!Tag, Promise!Reclaim, Promise!RemoveOrphans, was, is
    <2> QED
      BY <2>2, <2>3
  <1>3. FilesAt(meta[t], i) \subseteq disk[t] /\ FilesAt(meta'[t], i) \subseteq disk'[t]
    BY <1>1 DEF IcebergInv, DiskInv, KeptFiles
  <1> QED
    BY <1>2, <1>3 DEF Read

LEMMA CurrentReads ==
    ASSUME IcebergInv, [Next]_vars, NEW t \in Tables, ~AtEnd(Script),
           o.op \in Maintenance \ {"compact"}
    PROVE  Read(t, meta[t].current)' = Read(t, meta[t].current)
  <1>1. IcebergInv' /\ MetaOK(meta[t])
    BY KernelPreserved, StepsOK DEF IcebergInv, StepOK, MetaInv
  <1>2. ~Writing /\ status # "written"
    BY DEF Maintenance, Writing, Writes, IcebergInv, PhaseInv
  <1>3. ASSUME meta' = meta
        PROVE  CurrentFiles(meta'[t]) = CurrentFiles(meta[t])
    BY <1>3 DEF CurrentFiles
  <1>4. ASSUME AlterTable
        PROVE  CurrentFiles(meta'[t]) = CurrentFiles(meta[t])
    <2>1. PICK b \in Tables : b = o.t
      BY DueTable
    <2> DEFINE n == Alter(meta[b])
    <2>2. meta' = [meta EXCEPT ![b] = n] /\ MetaOK(meta[b]) /\ ~Refused
          /\ o.op \in {"create", "rollback", "tag", "addcolumn", "rename", "dropcolumn",
                       "addfield", "manifests"}
      BY <1>4, <2>1, DueTable DEF AlterTable, DueOp
    <2>3. Altered(meta[b], n)
      BY <1>2, <2>1, <2>2, AlterIs
    <2> HIDE DEF n
    <2>4. CurrentFiles(n) = CurrentFiles(meta[b])
      <3>1. CASE SameTable(meta[b], n)
        BY <2>2, <3>1 DEF SameTable, CurrentFiles, FilesAt, MetaOK
      <3>2. ASSUME NEW ms, n = Committed(meta[b], ms), UNION ms = CurrentFiles(meta[b])
            PROVE  CurrentFiles(n) = CurrentFiles(meta[b])
        <4>1. FilesAt(n, n.current) = UNION ms
          BY <2>2, <3>2, CommittedIs
        <4> QED
          BY <3>2, <4>1 DEF CurrentFiles
      <3>3. o.op # "rollback"
        BY DEF Maintenance
      <3> QED
        BY <2>2, <2>3, <3>1, <3>2, <3>3 DEF Altered, CurrentFiles, MetaOK
    <2>5. CASE b = t
      BY <2>2, <2>4, <2>5 DEF IcebergInv, MetaInv
    <2>6. CASE b # t
      BY <2>2, <2>6 DEF IcebergInv, MetaInv
    <2> QED
      BY <2>5, <2>6
  <1>5. ASSUME ExpireSnapshots
        PROVE  CurrentFiles(meta'[t]) = CurrentFiles(meta[t])
    <2>1. PICK b \in Tables : b = o.t
      BY DueTable
    <2> DEFINE R == Retained(meta[b])
    <2>2. meta' = [meta EXCEPT ![b].kept = R] /\ MetaOK(meta[b])
      BY <1>5, <2>1, DueTable DEF ExpireSnapshots
    <2> HIDE DEF R
    <2>3. /\ meta'[t].current = meta[t].current /\ meta'[t].snaps = meta[t].snaps
      BY <2>2 DEF IcebergInv, MetaInv, MetaOK
    <2> QED
      BY <2>3 DEF CurrentFiles, FilesAt
  <1>6. CurrentFiles(meta'[t]) = CurrentFiles(meta[t])
    <2>1. CASE WriteFiles \/ CommitWrite \/ DropTable
      BY <1>2, <2>1 DEF WriteFiles, CommitWrite, DropTable, DueOp, Due, Maintenance
    <2>2. CASE StrayWrite \/ Reclaim \/ RemoveOld
      BY <1>3, <2>2 DEF StrayWrite, Reclaim, RemoveOld
    <2>3. CASE KernelStep \/ Reject \/ Crash \/ Retry \/ FromTheTop \/ UNCHANGED vars
      BY <1>3, <2>3 DEF KernelStep, Reject, Crash, Retry, FromTheTop, vars, tableVars
    <2> QED
      BY <1>4, <1>5, <2>1, <2>2, <2>3 DEF Next
  <1>7. CurrentFiles(meta[t]) \subseteq disk[t] /\ CurrentFiles(meta'[t]) \subseteq disk'[t]
    BY <1>1 DEF IcebergInv, MetaInv, MetaOK, DiskInv, KeptFiles, CurrentFiles, FilesAt
  <1> QED
    BY <1>6, <1>7 DEF Read, CurrentFiles

(* Whatever is done, refused or interrupted, every snapshot that a table   *)
(* retains reads as before; and as long as maintenance is due that does    *)
(* not rewrite data files, so does the table itself.                       *)
THEOREM MaintenanceKeepsSnapshots ==
    Spec => [][\A t \in Tables :
                   /\ \A i \in meta[t].kept :
                          i \in (meta[t].kept)' => Read(t, i)' = Read(t, i)
                   /\ ~AtEnd(Script) /\ o.op \in Maintenance \ {"compact"} =>
                          Read(t, meta[t].current)' = Read(t, meta[t].current)]_vars
  <1>1. IcebergInv /\ [Next]_vars =>
            \A t \in Tables :
                /\ \A i \in meta[t].kept :
                       i \in (meta[t].kept)' => Read(t, i)' = Read(t, i)
                /\ ~AtEnd(Script) /\ o.op \in Maintenance \ {"compact"} =>
                       Read(t, meta[t].current)' = Read(t, meta[t].current)
    BY RetainedReads, CurrentReads
  <1> QED
    BY <1>1, AlwaysIcebergInv, PTL DEF Spec

-----------------------------------------------------------------------------
(* NO REFUSAL.  What an operation may need to find, and what another one   *)
(* has seen to: a fact of a table, of one of its columns or fields.        *)
Fact(is, t, c) == [is |-> is, t |-> t, c |-> c]

Holds(f) ==
    /\ f.is = "gone"     => meta[f.t] = NoTable
    /\ f.is = "there"    => meta[f.t].mode # "none"
    /\ f.is = "column"   => f.c \in DOMAIN meta[f.t].schema
    /\ f.is = "nocolumn" => f.c \notin DOMAIN meta[f.t].schema
    /\ f.is = "nofield"  => f.c \notin ToSet(meta[f.t].spec)
    /\ f.is = "untagged" => meta[f.t].tags = {}
    /\ f.is = "filled"   => meta[f.t].current # 0
    /\ f.is = "back"     => before[f.t].current \in Ancestors(meta[f.t]) \cap meta[f.t].kept
    /\ f.is = "found"    => strays \subseteq disk[f.t]

(* What the operation needs, not to be refused.                            *)
There(t) == Fact("there", t, "all")

Needs(x) ==
    CASE x.op = "create" -> {Fact("gone", x.t, "all")}
      [] x.op \in {"drop", "clear", "stray", "list", "remember", "prove"} -> {}
      [] x.op = "backdate"   -> {Fact("found", x.t, "all")}
      [] x.op = "tag"        ->
             {There(x.t), Fact("untagged", x.t, "all"), Fact("filled", x.t, "all")}
      [] x.op = "rollback"   -> {There(x.t), Fact("back", x.t, "all")}
      [] x.op = "addcolumn"  -> {There(x.t), Fact("nocolumn", x.t, x.name)}
      [] x.op \in {"rename", "dropcolumn"} -> {There(x.t), Fact("column", x.t, x.name)}
      [] x.op = "addfield"   -> {There(x.t), Fact("nofield", x.t, x.field)}
      [] OTHER               -> {There(x.t)}

(* The b-th operation of the cell c makes the fact hold.                   *)
Fills(x, t) == x.op = "insert" /\ x.t = t /\ 1 \in DOMAIN x.rows

Gives(c, b, f) ==
    LET x == c[b]
    IN  /\ x.t = f.t
        /\ \/ f.is = "gone" /\ x.op \in {"drop", "clear"}
           \/ f.is \in {"there", "untagged"} /\ x.op = "create"
           \/ f.is = "column" /\ x.op = "create" /\ f.c \in DOMAIN FirstSchema
           \/ f.is = "nocolumn" /\ x.op = "create" /\ f.c \notin DOMAIN FirstSchema
           \/ f.is = "nofield" /\ x.op = "create" /\ f.c \notin ToSet(x.spec)
           \/ f.is = "filled" /\ Fills(x, f.t)
           \/ f.is = "back" /\ x.op = "remember" /\ b > 1 /\ Fills(c[b - 1], f.t)
           \/ f.is = "found" /\ x.op = "list"

(* The operation x may put an end to it.                                   *)
Breaks(x, f) ==
    \/ x.op = "list" /\ f.is = "found"
    \/ /\ x.t = f.t
       /\ \/ x.op \in {"drop", "clear"} /\ f.is # "gone"
          \/ x.op \notin {"drop", "clear"} /\ f.is = "gone"
          \/ x.op = "create"
          \/ f.is = "column" /\ x.op \in {"rename", "dropcolumn"} /\ f.c = x.name
          \/ f.is = "nocolumn" /\ x.op = "addcolumn" /\ f.c = x.name
          \/ f.is = "nocolumn" /\ x.op = "rename" /\ f.c = x.to
          \/ f.is = "nofield" /\ x.op = "addfield"
          \/ f.is = "untagged" /\ x.op = "tag"
          \/ f.is = "filled" /\ x.op = "rollback"
          \/ f.is = "back" /\ x.op \notin Writes
          \/ f.is = "found" /\ (x.op = "orphans" \/ (x.op = "expire" /\ x.now))

(* Operations are numbered by their cells and their places there.          *)
Earlier(a, b, i, j) == a < i \/ (a = i /\ b < j)

(* Before the j-th operation of the i-th cell of s there is one, the b-th  *)
(* of the a-th cell, that makes f hold, and none after it that breaks f.   *)
Given(s, a, b, i, j, f) ==
    /\ a \in DOMAIN s /\ b \in DOMAIN s[a] /\ Earlier(a, b, i, j)
    /\ Gives(s[a], b, f)
    /\ \A k \in DOMAIN s : \A l \in DOMAIN s[k] :
           Earlier(a, b, k, l) /\ Earlier(k, l, i, j) => ~Breaks(s[k][l], f)

Sure(s, i, j, f) == \E a \in DOMAIN s : \E b \in DOMAIN s[a] : Given(s, a, b, i, j, f)

(* Every operation is given what it needs.                                 *)
Provided(s) ==
    \A i \in DOMAIN s : \A j \in DOMAIN s[i] : \A f \in Needs(s[i][j]) : Sure(s, i, j, f)

(* The fact must hold now: what is due may have begun, and all of a cell   *)
(* that failed may have been done.                                         *)
Assured(f) ==
    \E a \in DOMAIN Script : \E b \in DOMAIN Script[a] :
        /\ Given(Script, a, b, cell, op, f)
        /\ a < cell /\ cell \in retried => \A x \in Range(Script[cell]) : ~Breaks(x, f)
        /\ status # "ready" => ~Breaks(o, f)

(* Cells, or their ends, without an operation that breaks the fact.        *)
Safe(c, f) == \A l \in DOMAIN c : ~Breaks(c[l], f)
SafeAfter(c, b, f) == \A l \in DOMAIN c : l > b => ~Breaks(c[l], f)

(* The fact lasts from one operation to another: to the d-th of the c-th   *)
(* cell.                                                                   *)
Lasts(s, a, b, c, d, f) ==
    \A i, j \in Nat : /\ a < i \/ (a = i /\ b < j)
                      /\ i < c \/ (i = c /\ j <= d)
                      => Sure(s, i, j, f)

LEMMA Lasting ==
    ASSUME NEW s, DOMAIN s \subseteq Nat, NEW a \in DOMAIN s, NEW c \in DOMAIN s, a < c,
           NEW b \in DOMAIN s[a], NEW f, Gives(s[a], b, f),
           SafeAfter(s[a], b, f), \A k \in DOMAIN s : a < k /\ k < c => Safe(s[k], f),
           DOMAIN s[c] \subseteq Nat \ {0}, NEW d \in {1, 2}, d = 2 => ~Breaks(s[c][1], f)
    PROVE  Lasts(s, a, b, c, d, f)
  <1> SUFFICES ASSUME NEW i \in Nat, NEW j \in Nat, a < i \/ (a = i /\ b < j),
                      i < c \/ (i = c /\ j <= d)
               PROVE  Given(s, a, b, i, j, f)
    BY DEF Lasts, Sure, Given
  <1>1. ASSUME NEW k \in DOMAIN s, NEW l \in DOMAIN s[k], Earlier(a, b, k, l), Earlier(k, l, i, j)
        PROVE  ~Breaks(s[k][l], f)
    <2>1. CASE k = a
      BY <1>1, <2>1 DEF Earlier, SafeAfter
    <2>2. CASE a < k /\ k < c
      BY <1>1, <2>2 DEF Safe
    <2>3. CASE k = c
      <3>1. i = c
        BY <1>1, <2>3 DEF Earlier
      <3>2. l = 1 /\ d = 2
        BY <1>1, <2>3, <3>1 DEF Earlier
      <3> QED
        BY <2>3, <3>2
    <2> QED
      BY <1>1, <2>1, <2>2, <2>3 DEF Earlier
  <1> QED
    BY <1>1 DEF Given, Earlier

LEMMA Within ==
    ASSUME NEW s, DOMAIN s \subseteq Nat, NEW a \in DOMAIN s, DOMAIN s[a] \subseteq Nat,
           NEW b \in DOMAIN s[a], NEW j \in DOMAIN s[a], b < j, NEW f, Gives(s[a], b, f),
           \A l \in DOMAIN s[a] : b < l /\ l < j => ~Breaks(s[a][l], f)
    PROVE  Sure(s, a, j, f)
  <1>1. ASSUME NEW k \in DOMAIN s, NEW l \in DOMAIN s[k], Earlier(a, b, k, l), Earlier(k, l, a, j)
        PROVE  ~Breaks(s[k][l], f)
    BY <1>1 DEF Earlier
  <1>2. Given(s, a, b, a, j, f)
    BY <1>1 DEF Given, Earlier
  <1> QED
    BY <1>2 DEF Sure

(* The operations on a table that need only the table, and those that need *)
(* nothing.                                                                *)
Plain(x, t) == Needs(x) = {There(t)}

LEMMA PlainOnes ==
    \A t : /\ Plain(Manifests(t), t) /\ Plain(RemoveOrphans(t), t)
           /\ \A x : /\ Plain(Insert(t, x), t) /\ Plain(Replace(t, x), t)
                     /\ Plain(Relabel(t, x), t) /\ Plain(DeleteRow(t, x), t)
           /\ \A x, y : Plain(Compact(t, x, y), t) /\ Plain(Expire(t, x, y), t)
           /\ \A x, y, z : Plain(Merge(t, x, y, z), t)
  <1> TAKE t
  <1> USE DEF Plain, Needs, Op
  <1>1. Plain(Manifests(t), t) /\ Plain(RemoveOrphans(t), t)
    BY DEF Manifests, RemoveOrphans
  <1>2. \A x : /\ Plain(Insert(t, x), t) /\ Plain(Replace(t, x), t)
               /\ Plain(Relabel(t, x), t) /\ Plain(DeleteRow(t, x), t)
    BY DEF Insert, Replace, Relabel, DeleteRow
  <1>3. /\ \A x, y : Plain(Compact(t, x, y), t) /\ Plain(Expire(t, x, y), t)
        /\ \A x, y, z : Plain(Merge(t, x, y, z), t)
    BY DEF Compact, Expire, Merge
  <1> QED
    BY <1>1, <1>2, <1>3

LEMMA FreeOnes ==
    \A t : /\ Needs(Drop(t)) = {} /\ Needs(Clear(t)) = {} /\ Needs(ListStrays(t)) = {}
           /\ Needs(Remember(t)) = {} /\ Needs(Prove) = {} /\ \A x : Needs(Stray(t, x)) = {}
  BY DEF Needs, Op, Drop, Clear, ListStrays, Remember, Prove, Stray

LEMMA TupleSafe ==
    \A f : /\ \A x : Safe(<<x>>, f) <=> ~Breaks(x, f)
           /\ \A x, y : /\ Safe(<<x, y>>, f) <=> ~Breaks(x, f) /\ ~Breaks(y, f)
                        /\ SafeAfter(<<x, y>>, 2, f)
           /\ \A x, y, z : /\ Safe(<<x, y, z>>, f)
                                <=> ~Breaks(x, f) /\ ~Breaks(y, f) /\ ~Breaks(z, f)
                           /\ SafeAfter(<<x, y, z>>, 1, f) <=> ~Breaks(y, f) /\ ~Breaks(z, f)
           /\ \A x, y, z, u : SafeAfter(<<x, y, z, u>>, 2, f) <=> ~Breaks(z, f) /\ ~Breaks(u, f)
           /\ \A x, y, z, u : SafeAfter(<<x, y, z, u>>, 4, f)
           /\ \A x, y, z, u, v :
                  /\ SafeAfter(<<x, y, z, u, v>>, 3, f) <=> ~Breaks(u, f) /\ ~Breaks(v, f)
                  /\ SafeAfter(<<x, y, z, u, v>>, 2, f)
                         <=> ~Breaks(z, f) /\ ~Breaks(u, f) /\ ~Breaks(v, f)
                  /\ SafeAfter(<<x, y, z, u, v>>, 4, f) <=> ~Breaks(v, f)
  BY DEF Safe, SafeAfter

(* The operations of a cell have what they need.                           *)
Met(s, i, j, x) == \A f \in Needs(x) : Sure(s, i, j, f)
CellMet(s, i) == \A j \in DOMAIN s[i] : Met(s, i, j, s[i][j])

LEMMA TupleMet ==
    \A s, i :
        /\ \A x : s[i] = <<x>> => (CellMet(s, i) <=> Met(s, i, 1, x))
        /\ \A x, y : s[i] = <<x, y>> => (CellMet(s, i) <=> Met(s, i, 1, x) /\ Met(s, i, 2, y))
        /\ \A x, y, z : s[i] = <<x, y, z>> =>
               (CellMet(s, i) <=> Met(s, i, 1, x) /\ Met(s, i, 2, y) /\ Met(s, i, 3, z))
        /\ \A x, y, z, u : s[i] = <<x, y, z, u>> =>
               (CellMet(s, i) <=> /\ Met(s, i, 1, x) /\ Met(s, i, 2, y) /\ Met(s, i, 3, z)
                                  /\ Met(s, i, 4, u))
        /\ \A x, y, z, u, v : s[i] = <<x, y, z, u, v>> =>
               (CellMet(s, i) <=> /\ Met(s, i, 1, x) /\ Met(s, i, 2, y) /\ Met(s, i, 3, z)
                                  /\ Met(s, i, 4, u) /\ Met(s, i, 5, v))
        /\ \A x, y, z, u, v, w, m : s[i] = <<x, y, z, u, v, w, m>> =>
               (CellMet(s, i) <=> /\ Met(s, i, 1, x) /\ Met(s, i, 2, y) /\ Met(s, i, 3, z)
                                  /\ Met(s, i, 4, u) /\ Met(s, i, 5, v) /\ Met(s, i, 6, w)
                                  /\ Met(s, i, 7, m))
  BY DEF CellMet

LEMMA FreeMet == \A s, i, j, x : Needs(x) = {} => Met(s, i, j, x)
  BY DEF Met

LEMMA PlainMet == \A s, i, j, x, t : Plain(x, t) /\ Sure(s, i, j, There(t)) => Met(s, i, j, x)
  BY DEF Met, Plain

(* The ten scripts, one by one: facts that last over several cells, then   *)
(* those of one cell, then what every cell needs.                          *)
LEMMA Lak1Provided == Provided(Lak1Write \o Lak1Evolve)
  <1> DEFINE s == Lak1Write \o Lak1Evolve
             Ct == Created("t", "cow", None, Good)
             Cu == Created("u", "cow", None, Good)
             row == <<Row(5, "merged")>>
             mt == Merge("t", 1, "upd", row)
             mu == Merge("u", 1, "upd", row)
  <1>0. DOMAIN s = 1 .. 6
    BY DEF Lak1Write, Lak1Evolve
  <1>1. s[1] = <<Drop("t"), Drop("u"), Ct, Cu, Remember("t")>>
    BY DEF Lak1Write, Lak1Evolve
  <1>2. s[2] = <<Insert("t", More), Insert("u", More)>>
    BY DEF Lak1Write, Lak1Evolve
  <1>3. s[3] = <<AddColumn("t", "region"), AddColumn("u", "region")>>
    BY DEF Lak1Write, Lak1Evolve
  <1>4. s[4] = <<mt, mu>>
    BY DEF Lak1Write, Lak1Evolve
  <1>5. s[5] = <<Prove>>
    BY DEF Lak1Write, Lak1Evolve
  <1>6. s[6] = <<Drop("t"), Drop("u")>>
    BY DEF Lak1Write, Lak1Evolve
  <1>7. Plain(mt, "t") /\ Plain(mu, "u")
    BY PlainOnes
  <1> HIDE DEF s, Ct, Cu, row, mt, mu
  <1>8. DOMAIN s \subseteq Nat /\ 1 .. 6 \subseteq DOMAIN s
    BY <1>0
  <1>9. \A k \in DOMAIN s : DOMAIN s[k] \subseteq Nat \ {0}
    BY <1>0, <1>1, <1>2, <1>3, <1>4, <1>5, <1>6
  <1>10. Lasts(s, 1, 3, 5, 1, There("t"))
    <2>1. 3 \in DOMAIN s[1] /\ Gives(s[1], 3, There("t"))
      BY <1>1 DEF Gives, There, Fact, Ct, Created
    <2>2. /\ ~Breaks(Cu, There("t"))
          /\ ~Breaks(Remember("t"), There("t"))
          /\ ~Breaks(Insert("t", More), There("t"))
          /\ ~Breaks(Insert("u", More), There("t"))
          /\ ~Breaks(AddColumn("t", "region"), There("t"))
          /\ ~Breaks(AddColumn("u", "region"), There("t"))
          /\ ~Breaks(mt, There("t"))
          /\ ~Breaks(mu, There("t"))
      BY DEF Breaks, There, Fact, Cu, Created, Remember, Op, Insert, AddColumn, mt, Merge, mu
    <2>3. /\ SafeAfter(s[1], 3, There("t")) /\ Safe(s[2], There("t")) /\
             Safe(s[3], There("t")) /\ Safe(s[4], There("t"))
      BY <1>1, <1>2, <1>3, <1>4, <2>2, TupleSafe
    <2>4. \A k \in DOMAIN s : 1 < k /\ k < 5 => Safe(s[k], There("t"))
      BY <1>0, <2>3
    <2>5. 1 \in DOMAIN s /\ 5 \in DOMAIN s /\ DOMAIN s[5] \subseteq Nat \ {0}
      BY <1>8, <1>9
    <2> QED
      BY <1>8, <2>1, <2>3, <2>4, <2>5, Lasting
  <1>11. Lasts(s, 1, 4, 5, 1, There("u"))
    <2>1. 4 \in DOMAIN s[1] /\ Gives(s[1], 4, There("u"))
      BY <1>1 DEF Gives, There, Fact, Cu, Created
    <2>2. /\ ~Breaks(Remember("t"), There("u"))
          /\ ~Breaks(Insert("t", More), There("u"))
          /\ ~Breaks(Insert("u", More), There("u"))
          /\ ~Breaks(AddColumn("t", "region"), There("u"))
          /\ ~Breaks(AddColumn("u", "region"), There("u"))
          /\ ~Breaks(mt, There("u"))
          /\ ~Breaks(mu, There("u"))
      BY DEF Breaks, There, Fact, Remember, Op, Insert, AddColumn, mt, Merge, mu
    <2>3. /\ SafeAfter(s[1], 4, There("u")) /\ Safe(s[2], There("u")) /\
             Safe(s[3], There("u")) /\ Safe(s[4], There("u"))
      BY <1>1, <1>2, <1>3, <1>4, <2>2, TupleSafe
    <2>4. \A k \in DOMAIN s : 1 < k /\ k < 5 => Safe(s[k], There("u"))
      BY <1>0, <2>3
    <2>5. 1 \in DOMAIN s /\ 5 \in DOMAIN s /\ DOMAIN s[5] \subseteq Nat \ {0}
      BY <1>8, <1>9
    <2> QED
      BY <1>8, <2>1, <2>3, <2>4, <2>5, Lasting
  <1>12. Lasts(s, 1, 3, 3, 1, Fact("nocolumn", "t", "region"))
    <2>1. 3 \in DOMAIN s[1] /\ Gives(s[1], 3, Fact("nocolumn", "t", "region"))
      BY <1>1 DEF Gives, Fact, Ct, Created, FirstSchema
    <2>2. /\ ~Breaks(Cu, Fact("nocolumn", "t", "region"))
          /\ ~Breaks(Remember("t"), Fact("nocolumn", "t", "region"))
          /\ ~Breaks(Insert("t", More), Fact("nocolumn", "t", "region"))
          /\ ~Breaks(Insert("u", More), Fact("nocolumn", "t", "region"))
      BY DEF Breaks, Fact, Cu, Created, Remember, Op, Insert
    <2>3. /\ SafeAfter(s[1], 3, Fact("nocolumn", "t", "region")) /\
             Safe(s[2], Fact("nocolumn", "t", "region"))
      BY <1>1, <1>2, <2>2, TupleSafe
    <2>4. \A k \in DOMAIN s : 1 < k /\ k < 3 => Safe(s[k], Fact("nocolumn", "t", "region"))
      BY <1>0, <2>3
    <2>5. 1 \in DOMAIN s /\ 3 \in DOMAIN s /\ DOMAIN s[3] \subseteq Nat \ {0}
      BY <1>8, <1>9
    <2> QED
      BY <1>8, <2>1, <2>3, <2>4, <2>5, Lasting
  <1>13. Lasts(s, 1, 4, 3, 2, Fact("nocolumn", "u", "region"))
    <2>1. 4 \in DOMAIN s[1] /\ Gives(s[1], 4, Fact("nocolumn", "u", "region"))
      BY <1>1 DEF Gives, Fact, Cu, Created, FirstSchema
    <2>2. /\ ~Breaks(Remember("t"), Fact("nocolumn", "u", "region"))
          /\ ~Breaks(Insert("t", More), Fact("nocolumn", "u", "region"))
          /\ ~Breaks(Insert("u", More), Fact("nocolumn", "u", "region"))
      BY DEF Breaks, Fact, Remember, Op, Insert
    <2>3. /\ SafeAfter(s[1], 4, Fact("nocolumn", "u", "region")) /\
             Safe(s[2], Fact("nocolumn", "u", "region"))
      BY <1>1, <1>2, <2>2, TupleSafe
    <2>4. \A k \in DOMAIN s : 1 < k /\ k < 3 => Safe(s[k], Fact("nocolumn", "u", "region"))
      BY <1>0, <2>3
    <2>5. 1 \in DOMAIN s /\ 3 \in DOMAIN s /\ DOMAIN s[3] \subseteq Nat \ {0}
      BY <1>8, <1>9
    <2>6. ~Breaks(s[3][1], Fact("nocolumn", "u", "region"))
      BY <1>3 DEF Breaks, Fact, AddColumn
    <2> QED
      BY <1>8, <2>1, <2>3, <2>4, <2>5, <2>6, Lasting
  <1>14. Sure(s, 1, 3, Fact("gone", "t", "all"))
    <2>1. Gives(s[1], 1, Fact("gone", "t", "all"))
      BY <1>1 DEF Gives, Fact, Drop, Op
    <2>2. ~Breaks(Drop("u"), Fact("gone", "t", "all"))
      BY DEF Breaks, Fact, Drop, Op
    <2>3. /\ 1 \in DOMAIN s /\ 1 \in DOMAIN s[1] /\ 3 \in DOMAIN s[1] /\ DOMAIN s[1] \subseteq Nat
         /\ \A l \in DOMAIN s[1] : 1 < l /\ l < 3 => ~Breaks(s[1][l], Fact("gone", "t", "all"))
      BY <1>8, <1>1, <2>2
    <2> QED
      BY <1>8, <2>1, <2>3, Within
  <1>15. Sure(s, 1, 4, Fact("gone", "u", "all"))
    <2>1. Gives(s[1], 2, Fact("gone", "u", "all"))
      BY <1>1 DEF Gives, Fact, Drop, Op
    <2>2. ~Breaks(Ct, Fact("gone", "u", "all"))
      BY DEF Breaks, Fact, Ct, Created
    <2>3. /\ 1 \in DOMAIN s /\ 2 \in DOMAIN s[1] /\ 4 \in DOMAIN s[1] /\ DOMAIN s[1] \subseteq Nat
         /\ \A l \in DOMAIN s[1] : 2 < l /\ l < 4 => ~Breaks(s[1][l], Fact("gone", "u", "all"))
      BY <1>8, <1>1, <2>2
    <2> QED
      BY <1>8, <2>1, <2>3, Within
  <1>16. CellMet(s, 1)
    <2>1. Sure(s, 1, 3, Fact("gone", "t", "all"))
      BY <1>14
    <2>2. Sure(s, 1, 4, Fact("gone", "u", "all"))
      BY <1>15
    <2>3. Met(s, 1, 1, Drop("t")) /\ Met(s, 1, 2, Drop("u")) /\ Met(s, 1, 5, Remember("t"))
      BY FreeOnes, FreeMet
    <2>4. Met(s, 1, 3, Ct)
      BY <2>1 DEF Met, Needs, Ct, Created
    <2>5. Met(s, 1, 4, Cu)
      BY <2>2 DEF Met, Needs, Cu, Created
    <2> QED
      BY <1>1, <2>3, <2>4, <2>5, TupleMet
  <1>17. CellMet(s, 2)
    <2>1. Sure(s, 2, 1, There("t"))
      BY <1>10 DEF Lasts
    <2>2. Sure(s, 2, 2, There("u"))
      BY <1>11 DEF Lasts
    <2>3. Met(s, 2, 1, Insert("t", More)) /\ Met(s, 2, 2, Insert("u", More))
      BY <2>1, <2>2, PlainOnes, PlainMet
    <2> QED
      BY <1>2, <2>3, TupleMet
  <1>18. CellMet(s, 3)
    <2>1. Sure(s, 3, 1, There("t"))
      BY <1>10 DEF Lasts
    <2>2. Sure(s, 3, 1, Fact("nocolumn", "t", "region"))
      BY <1>12 DEF Lasts
    <2>3. Sure(s, 3, 2, There("u"))
      BY <1>11 DEF Lasts
    <2>4. Sure(s, 3, 2, Fact("nocolumn", "u", "region"))
      BY <1>13 DEF Lasts
    <2>5. Met(s, 3, 1, AddColumn("t", "region"))
      BY <2>1, <2>2 DEF Met, Needs, AddColumn
    <2>6. Met(s, 3, 2, AddColumn("u", "region"))
      BY <2>3, <2>4 DEF Met, Needs, AddColumn
    <2> QED
      BY <1>3, <2>5, <2>6, TupleMet
  <1>19. CellMet(s, 4)
    <2>1. Sure(s, 4, 1, There("t"))
      BY <1>10 DEF Lasts
    <2>2. Sure(s, 4, 2, There("u"))
      BY <1>11 DEF Lasts
    <2>3. Met(s, 4, 1, mt) /\ Met(s, 4, 2, mu)
      BY <1>7, <2>1, <2>2, PlainOnes, PlainMet
    <2> QED
      BY <1>4, <2>3, TupleMet
  <1>20. CellMet(s, 5)
    BY <1>5, FreeOnes, FreeMet, TupleMet
  <1>21. CellMet(s, 6)
    BY <1>6, FreeOnes, FreeMet, TupleMet
  <1>22. \A k \in DOMAIN s : CellMet(s, k)
    <2>1. \A k \in DOMAIN s : k \in {1, 2, 3, 4, 5, 6}
      BY <1>0
    <2> QED
      BY <2>1, <1>16, <1>17, <1>18, <1>19, <1>20, <1>21
  <1>23. Provided(s)
    BY <1>22 DEF Provided, CellMet, Met
  <1> QED
    BY <1>23 DEF s

LEMMA Lak2Provided == Provided(Lak2Break \o Lak2Fix)
  <1> DEFINE s == Lak2Break \o Lak2Fix
             Ct == Created("t", "cow", None, Good)
             more == <<Row(5, "new")>>
             ct == Compact("t", 2, FALSE)
  <1>6. Lak2Fix = <<<<ct>>, <<Prove>>, <<Drop("t")>>>>
    BY DEF Lak2Fix
  <1> HIDE DEF ct
  <1>0. DOMAIN s = 1 .. 5
    BY <1>6 DEF Lak2Break
  <1>1. s[1] = <<Drop("t"), Ct>>
    BY <1>6 DEF Lak2Break
  <1>2. s[2] = <<Insert("t", More), Insert("t", more), Remember("t")>>
    BY <1>6 DEF Lak2Break
  <1>3. s[3] = <<ct>>
    BY <1>6 DEF Lak2Break
  <1>4. s[4] = <<Prove>>
    BY <1>6 DEF Lak2Break
  <1>5. s[5] = <<Drop("t")>>
    BY <1>6 DEF Lak2Break
  <1>7. Plain(ct, "t")
    BY PlainOnes DEF ct
  <1> HIDE DEF s, Ct, more
  <1>8. DOMAIN s \subseteq Nat /\ 1 .. 5 \subseteq DOMAIN s
    BY <1>0
  <1>9. \A k \in DOMAIN s : DOMAIN s[k] \subseteq Nat \ {0}
    BY <1>0, <1>1, <1>2, <1>3, <1>4, <1>5
  <1>10. Lasts(s, 1, 2, 4, 1, There("t"))
    <2>1. 2 \in DOMAIN s[1] /\ Gives(s[1], 2, There("t"))
      BY <1>1 DEF Gives, There, Fact, Ct, Created
    <2>2. /\ ~Breaks(Insert("t", More), There("t"))
          /\ ~Breaks(Insert("t", more), There("t"))
          /\ ~Breaks(Remember("t"), There("t"))
          /\ ~Breaks(ct, There("t"))
      BY DEF Breaks, There, Fact, Insert, Remember, Op, ct, Compact
    <2>3. /\ SafeAfter(s[1], 2, There("t")) /\ Safe(s[2], There("t")) /\
             Safe(s[3], There("t"))
      BY <1>1, <1>2, <1>3, <2>2, TupleSafe
    <2>4. \A k \in DOMAIN s : 1 < k /\ k < 4 => Safe(s[k], There("t"))
      BY <1>0, <2>3
    <2>5. 1 \in DOMAIN s /\ 4 \in DOMAIN s /\ DOMAIN s[4] \subseteq Nat \ {0}
      BY <1>8, <1>9
    <2> QED
      BY <1>8, <2>1, <2>3, <2>4, <2>5, Lasting
  <1>11. Sure(s, 1, 2, Fact("gone", "t", "all"))
    <2>1. Gives(s[1], 1, Fact("gone", "t", "all"))
      BY <1>1 DEF Gives, Fact, Drop, Op
    <2>2. /\ 1 \in DOMAIN s /\ 1 \in DOMAIN s[1] /\ 2 \in DOMAIN s[1] /\ DOMAIN s[1] \subseteq Nat
         /\ \A l \in DOMAIN s[1] : 1 < l /\ l < 2 => ~Breaks(s[1][l], Fact("gone", "t", "all"))
      BY <1>8, <1>1
    <2> QED
      BY <1>8, <2>1, <2>2, Within
  <1>12. CellMet(s, 1)
    <2>1. Sure(s, 1, 2, Fact("gone", "t", "all"))
      BY <1>11
    <2>2. Met(s, 1, 1, Drop("t"))
      BY FreeOnes, FreeMet
    <2>3. Met(s, 1, 2, Ct)
      BY <2>1 DEF Met, Needs, Ct, Created
    <2> QED
      BY <1>1, <2>2, <2>3, TupleMet
  <1>13. CellMet(s, 2)
    <2>1. Sure(s, 2, 1, There("t")) /\ Sure(s, 2, 2, There("t"))
      BY <1>10 DEF Lasts
    <2>2. Met(s, 2, 3, Remember("t"))
      BY FreeOnes, FreeMet
    <2>3. Met(s, 2, 1, Insert("t", More)) /\ Met(s, 2, 2, Insert("t", more))
      BY <2>1, PlainOnes, PlainMet
    <2> QED
      BY <1>2, <2>2, <2>3, TupleMet
  <1>14. CellMet(s, 3)
    <2>1. Sure(s, 3, 1, There("t"))
      BY <1>10 DEF Lasts
    <2>2. Met(s, 3, 1, ct)
      BY <1>7, <2>1, PlainOnes, PlainMet
    <2> QED
      BY <1>3, <2>2, TupleMet
  <1>15. CellMet(s, 4)
    BY <1>4, FreeOnes, FreeMet, TupleMet
  <1>16. CellMet(s, 5)
    BY <1>5, FreeOnes, FreeMet, TupleMet
  <1>17. \A k \in DOMAIN s : CellMet(s, k)
    <2>1. \A k \in DOMAIN s : k \in {1, 2, 3, 4, 5}
      BY <1>0
    <2> QED
      BY <2>1, <1>12, <1>13, <1>14, <1>15, <1>16
  <1>18. Provided(s)
    BY <1>17 DEF Provided, CellMet, Met
  <1> QED
    BY <1>18 DEF s

LEMMA Lak3Provided == Provided(Lak3Break \o Lak3Fix)
  <1> DEFINE s == Lak3Break \o Lak3Fix
             Ct == Created("t", "cow", None, Good)
             mt == Merge("t", 1, "upd", None)
             et == Expire("t", 3, TRUE)
  <1>7. Lak3Fix = <<<<et>>, <<Prove>>, <<Drop("t")>>>>
    BY DEF Lak3Fix
  <1> HIDE DEF et
  <1>0. DOMAIN s = 1 .. 6
    BY <1>7 DEF Lak3Break
  <1>1. s[1] = <<Drop("t"), Ct>>
    BY <1>7 DEF Lak3Break
  <1>2. s[2] = <<Insert("t", More), mt, Relabel("t", "archived")>>
    BY <1>7 DEF Lak3Break
  <1>3. s[3] = <<Remember("t")>>
    BY <1>7 DEF Lak3Break
  <1>4. s[4] = <<et>>
    BY <1>7 DEF Lak3Break
  <1>5. s[5] = <<Prove>>
    BY <1>7 DEF Lak3Break
  <1>6. s[6] = <<Drop("t")>>
    BY <1>7 DEF Lak3Break
  <1>8. Plain(mt, "t") /\ Plain(et, "t")
    BY PlainOnes DEF et
  <1> HIDE DEF s, Ct, mt
  <1>9. DOMAIN s \subseteq Nat /\ 1 .. 6 \subseteq DOMAIN s
    BY <1>0
  <1>10. \A k \in DOMAIN s : DOMAIN s[k] \subseteq Nat \ {0}
    BY <1>0, <1>1, <1>2, <1>3, <1>4, <1>5, <1>6
  <1>11. Lasts(s, 1, 2, 5, 1, There("t"))
    <2>1. 2 \in DOMAIN s[1] /\ Gives(s[1], 2, There("t"))
      BY <1>1 DEF Gives, There, Fact, Ct, Created
    <2>2. /\ ~Breaks(Insert("t", More), There("t"))
          /\ ~Breaks(mt, There("t"))
          /\ ~Breaks(Relabel("t", "archived"), There("t"))
          /\ ~Breaks(Remember("t"), There("t"))
          /\ ~Breaks(et, There("t"))
      BY DEF Breaks, There, Fact, Insert, mt, Merge, Relabel, Remember, Op, et, Expire
    <2>3. /\ SafeAfter(s[1], 2, There("t")) /\ Safe(s[2], There("t")) /\
             Safe(s[3], There("t")) /\ Safe(s[4], There("t"))
      BY <1>1, <1>2, <1>3, <1>4, <2>2, TupleSafe
    <2>4. \A k \in DOMAIN s : 1 < k /\ k < 5 => Safe(s[k], There("t"))
      BY <1>0, <2>3
    <2>5. 1 \in DOMAIN s /\ 5 \in DOMAIN s /\ DOMAIN s[5] \subseteq Nat \ {0}
      BY <1>9, <1>10
    <2> QED
      BY <1>9, <2>1, <2>3, <2>4, <2>5, Lasting
  <1>12. Sure(s, 1, 2, Fact("gone", "t", "all"))
    <2>1. Gives(s[1], 1, Fact("gone", "t", "all"))
      BY <1>1 DEF Gives, Fact, Drop, Op
    <2>2. /\ 1 \in DOMAIN s /\ 1 \in DOMAIN s[1] /\ 2 \in DOMAIN s[1] /\ DOMAIN s[1] \subseteq Nat
         /\ \A l \in DOMAIN s[1] : 1 < l /\ l < 2 => ~Breaks(s[1][l], Fact("gone", "t", "all"))
      BY <1>9, <1>1
    <2> QED
      BY <1>9, <2>1, <2>2, Within
  <1>13. CellMet(s, 1)
    <2>1. Sure(s, 1, 2, Fact("gone", "t", "all"))
      BY <1>12
    <2>2. Met(s, 1, 1, Drop("t"))
      BY FreeOnes, FreeMet
    <2>3. Met(s, 1, 2, Ct)
      BY <2>1 DEF Met, Needs, Ct, Created
    <2> QED
      BY <1>1, <2>2, <2>3, TupleMet
  <1>14. CellMet(s, 2)
    <2>1. Sure(s, 2, 1, There("t")) /\ Sure(s, 2, 2, There("t")) /\ Sure(s, 2, 3, There("t"))
      BY <1>11 DEF Lasts
    <2>2. Met(s, 2, 1, Insert("t", More)) /\ Met(s, 2, 2, mt) /\
          Met(s, 2, 3, Relabel("t", "archived"))
      BY <1>8, <2>1, PlainOnes, PlainMet
    <2> QED
      BY <1>2, <2>2, TupleMet
  <1>15. CellMet(s, 3)
    BY <1>3, FreeOnes, FreeMet, TupleMet
  <1>16. CellMet(s, 4)
    <2>1. Sure(s, 4, 1, There("t"))
      BY <1>11 DEF Lasts
    <2>2. Met(s, 4, 1, et)
      BY <1>8, <2>1, PlainOnes, PlainMet
    <2> QED
      BY <1>4, <2>2, TupleMet
  <1>17. CellMet(s, 5)
    BY <1>5, FreeOnes, FreeMet, TupleMet
  <1>18. CellMet(s, 6)
    BY <1>6, FreeOnes, FreeMet, TupleMet
  <1>19. \A k \in DOMAIN s : CellMet(s, k)
    <2>1. \A k \in DOMAIN s : k \in {1, 2, 3, 4, 5, 6}
      BY <1>0
    <2> QED
      BY <2>1, <1>13, <1>14, <1>15, <1>16, <1>17, <1>18
  <1>20. Provided(s)
    BY <1>19 DEF Provided, CellMet, Met
  <1> QED
    BY <1>20 DEF s

LEMMA Lak4Provided == Provided(Lak4Break \o Lak4Fix)
  <1> DEFINE s == Lak4Break \o Lak4Fix
             Ct == Created("t", "cow", None, None)
             et == Expire("t", 1, FALSE)
  <1>7. Lak4Fix = <<<<et>>, <<Backdate("t"), RemoveOrphans("t")>>, <<Prove>>,
                    <<Drop("t"), Clear("t")>>>>
    BY DEF Lak4Fix
  <1> HIDE DEF et
  <1>0. DOMAIN s = 1 .. 6
    BY <1>7 DEF Lak4Break
  <1>1. s[1] = <<Drop("t"), Clear("t"), Ct, Insert("t", Good), Remember("t")>>
    BY <1>7 DEF Lak4Break
  <1>2. s[2] = <<Stray("t", More), ListStrays("t")>>
    BY <1>7 DEF Lak4Break
  <1>3. s[3] = <<et>>
    BY <1>7 DEF Lak4Break
  <1>4. s[4] = <<Backdate("t"), RemoveOrphans("t")>>
    BY <1>7 DEF Lak4Break
  <1>5. s[5] = <<Prove>>
    BY <1>7 DEF Lak4Break
  <1>6. s[6] = <<Drop("t"), Clear("t")>>
    BY <1>7 DEF Lak4Break
  <1>8. Plain(et, "t")
    BY PlainOnes DEF et
  <1> HIDE DEF s, Ct
  <1>9. DOMAIN s \subseteq Nat /\ 1 .. 6 \subseteq DOMAIN s
    BY <1>0
  <1>10. \A k \in DOMAIN s : DOMAIN s[k] \subseteq Nat \ {0}
    BY <1>0, <1>1, <1>2, <1>3, <1>4, <1>5, <1>6
  <1>11. Lasts(s, 1, 3, 5, 1, There("t"))
    <2>1. 3 \in DOMAIN s[1] /\ Gives(s[1], 3, There("t"))
      BY <1>1 DEF Gives, There, Fact, Ct, Created
    <2>2. /\ ~Breaks(Insert("t", Good), There("t"))
          /\ ~Breaks(Remember("t"), There("t"))
          /\ ~Breaks(Stray("t", More), There("t"))
          /\ ~Breaks(ListStrays("t"), There("t"))
          /\ ~Breaks(et, There("t"))
          /\ ~Breaks(Backdate("t"), There("t"))
          /\ ~Breaks(RemoveOrphans("t"), There("t"))
      BY DEF Breaks, There, Fact, Insert, Remember, Op, Stray, ListStrays, et, Expire,
             Backdate, RemoveOrphans
    <2>3. /\ SafeAfter(s[1], 3, There("t")) /\ Safe(s[2], There("t")) /\
             Safe(s[3], There("t")) /\ Safe(s[4], There("t"))
      BY <1>1, <1>2, <1>3, <1>4, <2>2, TupleSafe
    <2>4. \A k \in DOMAIN s : 1 < k /\ k < 5 => Safe(s[k], There("t"))
      BY <1>0, <2>3
    <2>5. 1 \in DOMAIN s /\ 5 \in DOMAIN s /\ DOMAIN s[5] \subseteq Nat \ {0}
      BY <1>9, <1>10
    <2> QED
      BY <1>9, <2>1, <2>3, <2>4, <2>5, Lasting
  <1>12. Lasts(s, 2, 2, 4, 1, Fact("found", "t", "all"))
    <2>1. 2 \in DOMAIN s[2] /\ Gives(s[2], 2, Fact("found", "t", "all"))
      BY <1>2 DEF Gives, Fact, ListStrays, Op
    <2>2. ~Breaks(et, Fact("found", "t", "all"))
      BY DEF Breaks, Fact, et, Expire
    <2>3. /\ SafeAfter(s[2], 2, Fact("found", "t", "all")) /\
             Safe(s[3], Fact("found", "t", "all"))
      BY <1>2, <1>3, <2>2, TupleSafe
    <2>4. \A k \in DOMAIN s : 2 < k /\ k < 4 => Safe(s[k], Fact("found", "t", "all"))
      BY <1>0, <2>3
    <2>5. 2 \in DOMAIN s /\ 4 \in DOMAIN s /\ DOMAIN s[4] \subseteq Nat \ {0}
      BY <1>9, <1>10
    <2> QED
      BY <1>9, <2>1, <2>3, <2>4, <2>5, Lasting
  <1>13. Sure(s, 1, 3, Fact("gone", "t", "all"))
    <2>1. Gives(s[1], 2, Fact("gone", "t", "all"))
      BY <1>1 DEF Gives, Fact, Clear, Op
    <2>2. /\ 1 \in DOMAIN s /\ 2 \in DOMAIN s[1] /\ 3 \in DOMAIN s[1] /\ DOMAIN s[1] \subseteq Nat
         /\ \A l \in DOMAIN s[1] : 2 < l /\ l < 3 => ~Breaks(s[1][l], Fact("gone", "t", "all"))
      BY <1>9, <1>1
    <2> QED
      BY <1>9, <2>1, <2>2, Within
  <1>14. CellMet(s, 1)
    <2>1. Sure(s, 1, 3, Fact("gone", "t", "all"))
      BY <1>13
    <2>2. Sure(s, 1, 4, There("t"))
      BY <1>11 DEF Lasts
    <2>3. Met(s, 1, 1, Drop("t")) /\ Met(s, 1, 2, Clear("t")) /\ Met(s, 1, 5, Remember("t"))
      BY FreeOnes, FreeMet
    <2>4. Met(s, 1, 4, Insert("t", Good))
      BY <2>2, PlainOnes, PlainMet
    <2>5. Met(s, 1, 3, Ct)
      BY <2>1 DEF Met, Needs, Ct, Created
    <2> QED
      BY <1>1, <2>3, <2>4, <2>5, TupleMet
  <1>15. CellMet(s, 2)
    BY <1>2, FreeOnes, FreeMet, TupleMet
  <1>16. CellMet(s, 3)
    <2>1. Sure(s, 3, 1, There("t"))
      BY <1>11 DEF Lasts
    <2>2. Met(s, 3, 1, et)
      BY <1>8, <2>1, PlainOnes, PlainMet
    <2> QED
      BY <1>3, <2>2, TupleMet
  <1>17. CellMet(s, 4)
    <2>1. Sure(s, 4, 1, Fact("found", "t", "all"))
      BY <1>12 DEF Lasts
    <2>2. Sure(s, 4, 2, There("t"))
      BY <1>11 DEF Lasts
    <2>3. Met(s, 4, 2, RemoveOrphans("t"))
      BY <2>2, PlainOnes, PlainMet
    <2>4. Met(s, 4, 1, Backdate("t"))
      BY <2>1 DEF Met, Needs, Backdate, Op
    <2> QED
      BY <1>4, <2>3, <2>4, TupleMet
  <1>18. CellMet(s, 5)
    BY <1>5, FreeOnes, FreeMet, TupleMet
  <1>19. CellMet(s, 6)
    BY <1>6, FreeOnes, FreeMet, TupleMet
  <1>20. \A k \in DOMAIN s : CellMet(s, k)
    <2>1. \A k \in DOMAIN s : k \in {1, 2, 3, 4, 5, 6}
      BY <1>0
    <2> QED
      BY <2>1, <1>14, <1>15, <1>16, <1>17, <1>18, <1>19
  <1>21. Provided(s)
    BY <1>20 DEF Provided, CellMet, Met
  <1> QED
    BY <1>21 DEF s

LEMMA Lak5Provided == Provided(Lak5Break \o Lak5Fix)
  <1> DEFINE s == Lak5Break \o Lak5Fix
             Ct == Created("t", "cow", None, Good)
             more == <<Row(5, "new")>>
  <1>0. DOMAIN s = 1 .. 6
    BY DEF Lak5Break, Lak5Fix
  <1>1. s[1] = <<Drop("t"), Ct>>
    BY DEF Lak5Break, Lak5Fix
  <1>2. s[2] = <<Insert("t", More), Insert("t", more)>>
    BY DEF Lak5Break, Lak5Fix
  <1>3. s[3] = <<Remember("t")>>
    BY DEF Lak5Break, Lak5Fix
  <1>4. s[4] = <<Manifests("t")>>
    BY DEF Lak5Break, Lak5Fix
  <1>5. s[5] = <<Prove>>
    BY DEF Lak5Break, Lak5Fix
  <1>6. s[6] = <<Drop("t")>>
    BY DEF Lak5Break, Lak5Fix
  <1> HIDE DEF s, Ct, more
  <1>7. DOMAIN s \subseteq Nat /\ 1 .. 6 \subseteq DOMAIN s
    BY <1>0
  <1>8. \A k \in DOMAIN s : DOMAIN s[k] \subseteq Nat \ {0}
    BY <1>0, <1>1, <1>2, <1>3, <1>4, <1>5, <1>6
  <1>9. Lasts(s, 1, 2, 5, 1, There("t"))
    <2>1. 2 \in DOMAIN s[1] /\ Gives(s[1], 2, There("t"))
      BY <1>1 DEF Gives, There, Fact, Ct, Created
    <2>2. /\ ~Breaks(Insert("t", More), There("t"))
          /\ ~Breaks(Insert("t", more), There("t"))
          /\ ~Breaks(Remember("t"), There("t"))
          /\ ~Breaks(Manifests("t"), There("t"))
      BY DEF Breaks, There, Fact, Insert, Remember, Op, Manifests
    <2>3. /\ SafeAfter(s[1], 2, There("t")) /\ Safe(s[2], There("t")) /\
             Safe(s[3], There("t")) /\ Safe(s[4], There("t"))
      BY <1>1, <1>2, <1>3, <1>4, <2>2, TupleSafe
    <2>4. \A k \in DOMAIN s : 1 < k /\ k < 5 => Safe(s[k], There("t"))
      BY <1>0, <2>3
    <2>5. 1 \in DOMAIN s /\ 5 \in DOMAIN s /\ DOMAIN s[5] \subseteq Nat \ {0}
      BY <1>7, <1>8
    <2> QED
      BY <1>7, <2>1, <2>3, <2>4, <2>5, Lasting
  <1>10. Sure(s, 1, 2, Fact("gone", "t", "all"))
    <2>1. Gives(s[1], 1, Fact("gone", "t", "all"))
      BY <1>1 DEF Gives, Fact, Drop, Op
    <2>2. /\ 1 \in DOMAIN s /\ 1 \in DOMAIN s[1] /\ 2 \in DOMAIN s[1] /\ DOMAIN s[1] \subseteq Nat
         /\ \A l \in DOMAIN s[1] : 1 < l /\ l < 2 => ~Breaks(s[1][l], Fact("gone", "t", "all"))
      BY <1>7, <1>1
    <2> QED
      BY <1>7, <2>1, <2>2, Within
  <1>11. CellMet(s, 1)
    <2>1. Sure(s, 1, 2, Fact("gone", "t", "all"))
      BY <1>10
    <2>2. Met(s, 1, 1, Drop("t"))
      BY FreeOnes, FreeMet
    <2>3. Met(s, 1, 2, Ct)
      BY <2>1 DEF Met, Needs, Ct, Created
    <2> QED
      BY <1>1, <2>2, <2>3, TupleMet
  <1>12. CellMet(s, 2)
    <2>1. Sure(s, 2, 1, There("t")) /\ Sure(s, 2, 2, There("t"))
      BY <1>9 DEF Lasts
    <2>2. Met(s, 2, 1, Insert("t", More)) /\ Met(s, 2, 2, Insert("t", more))
      BY <2>1, PlainOnes, PlainMet
    <2> QED
      BY <1>2, <2>2, TupleMet
  <1>13. CellMet(s, 3)
    BY <1>3, FreeOnes, FreeMet, TupleMet
  <1>14. CellMet(s, 4)
    <2>1. Sure(s, 4, 1, There("t"))
      BY <1>9 DEF Lasts
    <2>2. Met(s, 4, 1, Manifests("t"))
      BY <2>1, PlainOnes, PlainMet
    <2> QED
      BY <1>4, <2>2, TupleMet
  <1>15. CellMet(s, 5)
    BY <1>5, FreeOnes, FreeMet, TupleMet
  <1>16. CellMet(s, 6)
    BY <1>6, FreeOnes, FreeMet, TupleMet
  <1>17. \A k \in DOMAIN s : CellMet(s, k)
    <2>1. \A k \in DOMAIN s : k \in {1, 2, 3, 4, 5, 6}
      BY <1>0
    <2> QED
      BY <2>1, <1>11, <1>12, <1>13, <1>14, <1>15, <1>16
  <1>18. Provided(s)
    BY <1>17 DEF Provided, CellMet, Met
  <1> QED
    BY <1>18 DEF s

LEMMA Lak6Provided == Provided(Lak6Evolve \o Lak6Prove)
  <1> DEFINE s == Lak6Evolve \o Lak6Prove
             Ct == Created("t", "cow", None, Good)
  <1>0. DOMAIN s = 1 .. 6
    BY DEF Lak6Evolve, Lak6Prove
  <1>1. s[1] = <<Drop("t"), Ct>>
    BY DEF Lak6Evolve, Lak6Prove
  <1>2. s[2] = <<AddColumn("t", "region"), Insert("t", More)>>
    BY DEF Lak6Evolve, Lak6Prove
  <1>3. s[3] = <<Rename("t", "amount", "total_amount")>>
    BY DEF Lak6Evolve, Lak6Prove
  <1>4. s[4] = <<DropColumn("t", "status")>>
    BY DEF Lak6Evolve, Lak6Prove
  <1>5. s[5] = <<Remember("t"), AddColumn("t", "note"), Prove>>
    BY DEF Lak6Evolve, Lak6Prove
  <1>6. s[6] = <<Drop("t")>>
    BY DEF Lak6Evolve, Lak6Prove
  <1> HIDE DEF s, Ct
  <1>7. DOMAIN s \subseteq Nat /\ 1 .. 6 \subseteq DOMAIN s
    BY <1>0
  <1>8. \A k \in DOMAIN s : DOMAIN s[k] \subseteq Nat \ {0}
    BY <1>0, <1>1, <1>2, <1>3, <1>4, <1>5, <1>6
  <1>9. Lasts(s, 1, 2, 6, 1, There("t"))
    <2>1. 2 \in DOMAIN s[1] /\ Gives(s[1], 2, There("t"))
      BY <1>1 DEF Gives, There, Fact, Ct, Created
    <2>2. /\ ~Breaks(AddColumn("t", "region"), There("t"))
          /\ ~Breaks(Insert("t", More), There("t"))
          /\ ~Breaks(Rename("t", "amount", "total_amount"), There("t"))
          /\ ~Breaks(DropColumn("t", "status"), There("t"))
          /\ ~Breaks(Remember("t"), There("t"))
          /\ ~Breaks(AddColumn("t", "note"), There("t"))
          /\ ~Breaks(Prove, There("t"))
      BY DEF Breaks, There, Fact, AddColumn, Insert, Rename, DropColumn, Remember, Op, Prove
    <2>3. /\ SafeAfter(s[1], 2, There("t")) /\ Safe(s[2], There("t")) /\
             Safe(s[3], There("t")) /\ Safe(s[4], There("t")) /\ Safe(s[5], There("t"))
      BY <1>1, <1>2, <1>3, <1>4, <1>5, <2>2, TupleSafe
    <2>4. \A k \in DOMAIN s : 1 < k /\ k < 6 => Safe(s[k], There("t"))
      BY <1>0, <2>3
    <2>5. 1 \in DOMAIN s /\ 6 \in DOMAIN s /\ DOMAIN s[6] \subseteq Nat \ {0}
      BY <1>7, <1>8
    <2> QED
      BY <1>7, <2>1, <2>3, <2>4, <2>5, Lasting
  <1>10. Lasts(s, 1, 2, 2, 1, Fact("nocolumn", "t", "region"))
    <2>1. 2 \in DOMAIN s[1] /\ Gives(s[1], 2, Fact("nocolumn", "t", "region"))
      BY <1>1 DEF Gives, Fact, Ct, Created, FirstSchema
    <2>2. /\ SafeAfter(s[1], 2, Fact("nocolumn", "t", "region"))
      BY <1>1, TupleSafe
    <2>3. \A k \in DOMAIN s : 1 < k /\ k < 2 => Safe(s[k], Fact("nocolumn", "t", "region"))
      BY <1>0
    <2>4. 1 \in DOMAIN s /\ 2 \in DOMAIN s /\ DOMAIN s[2] \subseteq Nat \ {0}
      BY <1>7, <1>8
    <2> QED
      BY <1>7, <2>1, <2>2, <2>3, <2>4, Lasting
  <1>11. Lasts(s, 1, 2, 3, 1, Fact("column", "t", "amount"))
    <2>1. 2 \in DOMAIN s[1] /\ Gives(s[1], 2, Fact("column", "t", "amount"))
      BY <1>1 DEF Gives, Fact, Ct, Created, FirstSchema
    <2>2. /\ ~Breaks(AddColumn("t", "region"), Fact("column", "t", "amount"))
          /\ ~Breaks(Insert("t", More), Fact("column", "t", "amount"))
      BY DEF Breaks, Fact, AddColumn, Insert
    <2>3. /\ SafeAfter(s[1], 2, Fact("column", "t", "amount")) /\
             Safe(s[2], Fact("column", "t", "amount"))
      BY <1>1, <1>2, <2>2, TupleSafe
    <2>4. \A k \in DOMAIN s : 1 < k /\ k < 3 => Safe(s[k], Fact("column", "t", "amount"))
      BY <1>0, <2>3
    <2>5. 1 \in DOMAIN s /\ 3 \in DOMAIN s /\ DOMAIN s[3] \subseteq Nat \ {0}
      BY <1>7, <1>8
    <2> QED
      BY <1>7, <2>1, <2>3, <2>4, <2>5, Lasting
  <1>12. Lasts(s, 1, 2, 4, 1, Fact("column", "t", "status"))
    <2>1. 2 \in DOMAIN s[1] /\ Gives(s[1], 2, Fact("column", "t", "status"))
      BY <1>1 DEF Gives, Fact, Ct, Created, FirstSchema
    <2>2. /\ ~Breaks(AddColumn("t", "region"), Fact("column", "t", "status"))
          /\ ~Breaks(Insert("t", More), Fact("column", "t", "status"))
          /\ ~Breaks(Rename("t", "amount", "total_amount"), Fact("column", "t", "status"))
      BY DEF Breaks, Fact, AddColumn, Insert, Rename
    <2>3. /\ SafeAfter(s[1], 2, Fact("column", "t", "status")) /\
             Safe(s[2], Fact("column", "t", "status")) /\
             Safe(s[3], Fact("column", "t", "status"))
      BY <1>1, <1>2, <1>3, <2>2, TupleSafe
    <2>4. \A k \in DOMAIN s : 1 < k /\ k < 4 => Safe(s[k], Fact("column", "t", "status"))
      BY <1>0, <2>3
    <2>5. 1 \in DOMAIN s /\ 4 \in DOMAIN s /\ DOMAIN s[4] \subseteq Nat \ {0}
      BY <1>7, <1>8
    <2> QED
      BY <1>7, <2>1, <2>3, <2>4, <2>5, Lasting
  <1>13. Lasts(s, 1, 2, 5, 2, Fact("nocolumn", "t", "note"))
    <2>1. 2 \in DOMAIN s[1] /\ Gives(s[1], 2, Fact("nocolumn", "t", "note"))
      BY <1>1 DEF Gives, Fact, Ct, Created, FirstSchema
    <2>2. /\ ~Breaks(AddColumn("t", "region"), Fact("nocolumn", "t", "note"))
          /\ ~Breaks(Insert("t", More), Fact("nocolumn", "t", "note"))
          /\ ~Breaks(Rename("t", "amount", "total_amount"), Fact("nocolumn", "t", "note"))
          /\ ~Breaks(DropColumn("t", "status"), Fact("nocolumn", "t", "note"))
      BY DEF Breaks, Fact, AddColumn, Insert, Rename, DropColumn
    <2>3. /\ SafeAfter(s[1], 2, Fact("nocolumn", "t", "note")) /\
             Safe(s[2], Fact("nocolumn", "t", "note")) /\
             Safe(s[3], Fact("nocolumn", "t", "note")) /\
             Safe(s[4], Fact("nocolumn", "t", "note"))
      BY <1>1, <1>2, <1>3, <1>4, <2>2, TupleSafe
    <2>4. \A k \in DOMAIN s : 1 < k /\ k < 5 => Safe(s[k], Fact("nocolumn", "t", "note"))
      BY <1>0, <2>3
    <2>5. 1 \in DOMAIN s /\ 5 \in DOMAIN s /\ DOMAIN s[5] \subseteq Nat \ {0}
      BY <1>7, <1>8
    <2>6. ~Breaks(s[5][1], Fact("nocolumn", "t", "note"))
      BY <1>5 DEF Breaks, Fact, Remember, Op
    <2> QED
      BY <1>7, <2>1, <2>3, <2>4, <2>5, <2>6, Lasting
  <1>14. Sure(s, 1, 2, Fact("gone", "t", "all"))
    <2>1. Gives(s[1], 1, Fact("gone", "t", "all"))
      BY <1>1 DEF Gives, Fact, Drop, Op
    <2>2. /\ 1 \in DOMAIN s /\ 1 \in DOMAIN s[1] /\ 2 \in DOMAIN s[1] /\ DOMAIN s[1] \subseteq Nat
         /\ \A l \in DOMAIN s[1] : 1 < l /\ l < 2 => ~Breaks(s[1][l], Fact("gone", "t", "all"))
      BY <1>7, <1>1
    <2> QED
      BY <1>7, <2>1, <2>2, Within
  <1>15. CellMet(s, 1)
    <2>1. Sure(s, 1, 2, Fact("gone", "t", "all"))
      BY <1>14
    <2>2. Met(s, 1, 1, Drop("t"))
      BY FreeOnes, FreeMet
    <2>3. Met(s, 1, 2, Ct)
      BY <2>1 DEF Met, Needs, Ct, Created
    <2> QED
      BY <1>1, <2>2, <2>3, TupleMet
  <1>16. CellMet(s, 2)
    <2>1. Sure(s, 2, 1, There("t")) /\ Sure(s, 2, 2, There("t"))
      BY <1>9 DEF Lasts
    <2>2. Sure(s, 2, 1, Fact("nocolumn", "t", "region"))
      BY <1>10 DEF Lasts
    <2>3. Met(s, 2, 2, Insert("t", More))
      BY <2>1, PlainOnes, PlainMet
    <2>4. Met(s, 2, 1, AddColumn("t", "region"))
      BY <2>1, <2>2 DEF Met, Needs, AddColumn
    <2> QED
      BY <1>2, <2>3, <2>4, TupleMet
  <1>17. CellMet(s, 3)
    <2>1. Sure(s, 3, 1, There("t"))
      BY <1>9 DEF Lasts
    <2>2. Sure(s, 3, 1, Fact("column", "t", "amount"))
      BY <1>11 DEF Lasts
    <2>3. Met(s, 3, 1, Rename("t", "amount", "total_amount"))
      BY <2>1, <2>2 DEF Met, Needs, Rename
    <2> QED
      BY <1>3, <2>3, TupleMet
  <1>18. CellMet(s, 4)
    <2>1. Sure(s, 4, 1, There("t"))
      BY <1>9 DEF Lasts
    <2>2. Sure(s, 4, 1, Fact("column", "t", "status"))
      BY <1>12 DEF Lasts
    <2>3. Met(s, 4, 1, DropColumn("t", "status"))
      BY <2>1, <2>2 DEF Met, Needs, DropColumn
    <2> QED
      BY <1>4, <2>3, TupleMet
  <1>19. CellMet(s, 5)
    <2>1. Sure(s, 5, 2, There("t"))
      BY <1>9 DEF Lasts
    <2>2. Sure(s, 5, 2, Fact("nocolumn", "t", "note"))
      BY <1>13 DEF Lasts
    <2>3. Met(s, 5, 1, Remember("t")) /\ Met(s, 5, 3, Prove)
      BY FreeOnes, FreeMet
    <2>4. Met(s, 5, 2, AddColumn("t", "note"))
      BY <2>1, <2>2 DEF Met, Needs, AddColumn
    <2> QED
      BY <1>5, <2>3, <2>4, TupleMet
  <1>20. CellMet(s, 6)
    BY <1>6, FreeOnes, FreeMet, TupleMet
  <1>21. \A k \in DOMAIN s : CellMet(s, k)
    <2>1. \A k \in DOMAIN s : k \in {1, 2, 3, 4, 5, 6}
      BY <1>0
    <2> QED
      BY <2>1, <1>15, <1>16, <1>17, <1>18, <1>19, <1>20
  <1>22. Provided(s)
    BY <1>21 DEF Provided, CellMet, Met
  <1> QED
    BY <1>22 DEF s

LEMMA Lak7Provided == Provided(Lak7Days \o Lak7Bucket)
  <1> DEFINE s == Lak7Days \o Lak7Bucket
             Ct == Created("t", "cow", <<"day">>, None)
             more == <<Row(6, "new"), Row(7, "new")>>
  <1>0. DOMAIN s = 1 .. 4
    BY DEF Lak7Days, Lak7Bucket
  <1>1. s[1] = <<Drop("t"), Ct, Insert("t", Good), Insert("t", More)>>
    BY DEF Lak7Days, Lak7Bucket
  <1>2. s[2] = <<Remember("t"), AddField("t", "bucket"), Insert("t", more)>>
    BY DEF Lak7Days, Lak7Bucket
  <1>3. s[3] = <<Prove>>
    BY DEF Lak7Days, Lak7Bucket
  <1>4. s[4] = <<Drop("t")>>
    BY DEF Lak7Days, Lak7Bucket
  <1> HIDE DEF s, Ct, more
  <1>5. DOMAIN s \subseteq Nat /\ 1 .. 4 \subseteq DOMAIN s
    BY <1>0
  <1>6. \A k \in DOMAIN s : DOMAIN s[k] \subseteq Nat \ {0}
    BY <1>0, <1>1, <1>2, <1>3, <1>4
  <1>7. Lasts(s, 1, 2, 3, 1, There("t"))
    <2>1. 2 \in DOMAIN s[1] /\ Gives(s[1], 2, There("t"))
      BY <1>1 DEF Gives, There, Fact, Ct, Created
    <2>2. /\ ~Breaks(Insert("t", Good), There("t"))
          /\ ~Breaks(Insert("t", More), There("t"))
          /\ ~Breaks(Remember("t"), There("t"))
          /\ ~Breaks(AddField("t", "bucket"), There("t"))
          /\ ~Breaks(Insert("t", more), There("t"))
      BY DEF Breaks, There, Fact, Insert, Remember, Op, AddField
    <2>3. /\ SafeAfter(s[1], 2, There("t")) /\ Safe(s[2], There("t"))
      BY <1>1, <1>2, <2>2, TupleSafe
    <2>4. \A k \in DOMAIN s : 1 < k /\ k < 3 => Safe(s[k], There("t"))
      BY <1>0, <2>3
    <2>5. 1 \in DOMAIN s /\ 3 \in DOMAIN s /\ DOMAIN s[3] \subseteq Nat \ {0}
      BY <1>5, <1>6
    <2> QED
      BY <1>5, <2>1, <2>3, <2>4, <2>5, Lasting
  <1>8. Lasts(s, 1, 2, 2, 2, Fact("nofield", "t", "bucket"))
    <2>1. 2 \in DOMAIN s[1] /\ Gives(s[1], 2, Fact("nofield", "t", "bucket"))
      BY <1>1 DEF Gives, Fact, Ct, Created, ToSet
    <2>2. /\ ~Breaks(Insert("t", Good), Fact("nofield", "t", "bucket"))
          /\ ~Breaks(Insert("t", More), Fact("nofield", "t", "bucket"))
      BY DEF Breaks, Fact, Insert
    <2>3. /\ SafeAfter(s[1], 2, Fact("nofield", "t", "bucket"))
      BY <1>1, <2>2, TupleSafe
    <2>4. \A k \in DOMAIN s : 1 < k /\ k < 2 => Safe(s[k], Fact("nofield", "t", "bucket"))
      BY <1>0
    <2>5. 1 \in DOMAIN s /\ 2 \in DOMAIN s /\ DOMAIN s[2] \subseteq Nat \ {0}
      BY <1>5, <1>6
    <2>6. ~Breaks(s[2][1], Fact("nofield", "t", "bucket"))
      BY <1>2 DEF Breaks, Fact, Remember, Op
    <2> QED
      BY <1>5, <2>1, <2>3, <2>4, <2>5, <2>6, Lasting
  <1>9. Sure(s, 1, 2, Fact("gone", "t", "all"))
    <2>1. Gives(s[1], 1, Fact("gone", "t", "all"))
      BY <1>1 DEF Gives, Fact, Drop, Op
    <2>2. /\ 1 \in DOMAIN s /\ 1 \in DOMAIN s[1] /\ 2 \in DOMAIN s[1] /\ DOMAIN s[1] \subseteq Nat
         /\ \A l \in DOMAIN s[1] : 1 < l /\ l < 2 => ~Breaks(s[1][l], Fact("gone", "t", "all"))
      BY <1>5, <1>1
    <2> QED
      BY <1>5, <2>1, <2>2, Within
  <1>10. CellMet(s, 1)
    <2>1. Sure(s, 1, 2, Fact("gone", "t", "all"))
      BY <1>9
    <2>2. Sure(s, 1, 3, There("t")) /\ Sure(s, 1, 4, There("t"))
      BY <1>7 DEF Lasts
    <2>3. Met(s, 1, 1, Drop("t"))
      BY FreeOnes, FreeMet
    <2>4. Met(s, 1, 3, Insert("t", Good)) /\ Met(s, 1, 4, Insert("t", More))
      BY <2>2, PlainOnes, PlainMet
    <2>5. Met(s, 1, 2, Ct)
      BY <2>1 DEF Met, Needs, Ct, Created
    <2> QED
      BY <1>1, <2>3, <2>4, <2>5, TupleMet
  <1>11. CellMet(s, 2)
    <2>1. Sure(s, 2, 2, There("t")) /\ Sure(s, 2, 3, There("t"))
      BY <1>7 DEF Lasts
    <2>2. Sure(s, 2, 2, Fact("nofield", "t", "bucket"))
      BY <1>8 DEF Lasts
    <2>3. Met(s, 2, 1, Remember("t"))
      BY FreeOnes, FreeMet
    <2>4. Met(s, 2, 3, Insert("t", more))
      BY <2>1, PlainOnes, PlainMet
    <2>5. Met(s, 2, 2, AddField("t", "bucket"))
      BY <2>1, <2>2 DEF Met, Needs, AddField
    <2> QED
      BY <1>2, <2>3, <2>4, <2>5, TupleMet
  <1>12. CellMet(s, 3)
    BY <1>3, FreeOnes, FreeMet, TupleMet
  <1>13. CellMet(s, 4)
    BY <1>4, FreeOnes, FreeMet, TupleMet
  <1>14. \A k \in DOMAIN s : CellMet(s, k)
    <2>1. \A k \in DOMAIN s : k \in {1, 2, 3, 4}
      BY <1>0
    <2> QED
      BY <2>1, <1>10, <1>11, <1>12, <1>13
  <1>15. Provided(s)
    BY <1>14 DEF Provided, CellMet, Met
  <1> QED
    BY <1>15 DEF s

LEMMA Lak8Provided == Provided(Lak8Cow \o Lak8Mor)
  <1> DEFINE s == Lak8Cow \o Lak8Mor
             Ct == Created("t", "cow", <<"bucket">>, Good \o More)
             Cu == Created("u", "mor", <<"bucket">>, Good \o More)
             mt == Merge("t", 1, "corrected", None)
             mu == Merge("u", 1, "corrected", None)
             cu == Compact("u", 5, TRUE)
  <1>8. Lak8Mor = <<<<Drop("u"), Cu>>, <<mu>>, <<cu>>, <<Prove>>, <<Drop("t"), Drop("u")>>>>
    BY DEF Lak8Mor
  <1> HIDE DEF cu
  <1>0. DOMAIN s = 1 .. 7
    BY <1>8 DEF Lak8Cow
  <1>1. s[1] = <<Drop("t"), Ct>>
    BY <1>8 DEF Lak8Cow
  <1>2. s[2] = <<mt>>
    BY <1>8 DEF Lak8Cow
  <1>3. s[3] = <<Drop("u"), Cu>>
    BY <1>8 DEF Lak8Cow
  <1>4. s[4] = <<mu>>
    BY <1>8 DEF Lak8Cow
  <1>5. s[5] = <<cu>>
    BY <1>8 DEF Lak8Cow
  <1>6. s[6] = <<Prove>>
    BY <1>8 DEF Lak8Cow
  <1>7. s[7] = <<Drop("t"), Drop("u")>>
    BY <1>8 DEF Lak8Cow
  <1>9. Plain(mt, "t") /\ Plain(mu, "u") /\ Plain(cu, "u")
    BY PlainOnes DEF cu
  <1> HIDE DEF s, Ct, Cu, mt, mu
  <1>10. DOMAIN s \subseteq Nat /\ 1 .. 7 \subseteq DOMAIN s
    BY <1>0
  <1>11. \A k \in DOMAIN s : DOMAIN s[k] \subseteq Nat \ {0}
    BY <1>0, <1>1, <1>2, <1>3, <1>4, <1>5, <1>6, <1>7
  <1>12. Lasts(s, 1, 2, 3, 1, There("t"))
    <2>1. 2 \in DOMAIN s[1] /\ Gives(s[1], 2, There("t"))
      BY <1>1 DEF Gives, There, Fact, Ct, Created
    <2>2. ~Breaks(mt, There("t"))
      BY DEF Breaks, There, Fact, mt, Merge
    <2>3. /\ SafeAfter(s[1], 2, There("t")) /\ Safe(s[2], There("t"))
      BY <1>1, <1>2, <2>2, TupleSafe
    <2>4. \A k \in DOMAIN s : 1 < k /\ k < 3 => Safe(s[k], There("t"))
      BY <1>0, <2>3
    <2>5. 1 \in DOMAIN s /\ 3 \in DOMAIN s /\ DOMAIN s[3] \subseteq Nat \ {0}
      BY <1>10, <1>11
    <2> QED
      BY <1>10, <2>1, <2>3, <2>4, <2>5, Lasting
  <1>13. Lasts(s, 3, 2, 6, 1, There("u"))
    <2>1. 2 \in DOMAIN s[3] /\ Gives(s[3], 2, There("u"))
      BY <1>3 DEF Gives, There, Fact, Cu, Created
    <2>2. ~Breaks(mu, There("u")) /\ ~Breaks(cu, There("u"))
      BY DEF Breaks, There, Fact, mu, Merge, cu, Compact
    <2>3. /\ SafeAfter(s[3], 2, There("u")) /\ Safe(s[4], There("u")) /\
             Safe(s[5], There("u"))
      BY <1>3, <1>4, <1>5, <2>2, TupleSafe
    <2>4. \A k \in DOMAIN s : 3 < k /\ k < 6 => Safe(s[k], There("u"))
      BY <1>0, <2>3
    <2>5. 3 \in DOMAIN s /\ 6 \in DOMAIN s /\ DOMAIN s[6] \subseteq Nat \ {0}
      BY <1>10, <1>11
    <2> QED
      BY <1>10, <2>1, <2>3, <2>4, <2>5, Lasting
  <1>14. Sure(s, 1, 2, Fact("gone", "t", "all"))
    <2>1. Gives(s[1], 1, Fact("gone", "t", "all"))
      BY <1>1 DEF Gives, Fact, Drop, Op
    <2>2. /\ 1 \in DOMAIN s /\ 1 \in DOMAIN s[1] /\ 2 \in DOMAIN s[1] /\ DOMAIN s[1] \subseteq Nat
         /\ \A l \in DOMAIN s[1] : 1 < l /\ l < 2 => ~Breaks(s[1][l], Fact("gone", "t", "all"))
      BY <1>10, <1>1
    <2> QED
      BY <1>10, <2>1, <2>2, Within
  <1>15. Sure(s, 3, 2, Fact("gone", "u", "all"))
    <2>1. Gives(s[3], 1, Fact("gone", "u", "all"))
      BY <1>3 DEF Gives, Fact, Drop, Op
    <2>2. /\ 3 \in DOMAIN s /\ 1 \in DOMAIN s[3] /\ 2 \in DOMAIN s[3] /\ DOMAIN s[3] \subseteq Nat
         /\ \A l \in DOMAIN s[3] : 1 < l /\ l < 2 => ~Breaks(s[3][l], Fact("gone", "u", "all"))
      BY <1>10, <1>3
    <2> QED
      BY <1>10, <2>1, <2>2, Within
  <1>16. CellMet(s, 1)
    <2>1. Sure(s, 1, 2, Fact("gone", "t", "all"))
      BY <1>14
    <2>2. Met(s, 1, 1, Drop("t"))
      BY FreeOnes, FreeMet
    <2>3. Met(s, 1, 2, Ct)
      BY <2>1 DEF Met, Needs, Ct, Created
    <2> QED
      BY <1>1, <2>2, <2>3, TupleMet
  <1>17. CellMet(s, 2)
    <2>1. Sure(s, 2, 1, There("t"))
      BY <1>12 DEF Lasts
    <2>2. Met(s, 2, 1, mt)
      BY <1>9, <2>1, PlainOnes, PlainMet
    <2> QED
      BY <1>2, <2>2, TupleMet
  <1>18. CellMet(s, 3)
    <2>1. Sure(s, 3, 2, Fact("gone", "u", "all"))
      BY <1>15
    <2>2. Met(s, 3, 1, Drop("u"))
      BY FreeOnes, FreeMet
    <2>3. Met(s, 3, 2, Cu)
      BY <2>1 DEF Met, Needs, Cu, Created
    <2> QED
      BY <1>3, <2>2, <2>3, TupleMet
  <1>19. CellMet(s, 4)
    <2>1. Sure(s, 4, 1, There("u"))
      BY <1>13 DEF Lasts
    <2>2. Met(s, 4, 1, mu)
      BY <1>9, <2>1, PlainOnes, PlainMet
    <2> QED
      BY <1>4, <2>2, TupleMet
  <1>20. CellMet(s, 5)
    <2>1. Sure(s, 5, 1, There("u"))
      BY <1>13 DEF Lasts
    <2>2. Met(s, 5, 1, cu)
      BY <1>9, <2>1, PlainOnes, PlainMet
    <2> QED
      BY <1>5, <2>2, TupleMet
  <1>21. CellMet(s, 6)
    BY <1>6, FreeOnes, FreeMet, TupleMet
  <1>22. CellMet(s, 7)
    BY <1>7, FreeOnes, FreeMet, TupleMet
  <1>23. \A k \in DOMAIN s : CellMet(s, k)
    <2>1. \A k \in DOMAIN s : k \in {1, 2, 3, 4, 5, 6, 7}
      BY <1>0
    <2> QED
      BY <2>1, <1>16, <1>17, <1>18, <1>19, <1>20, <1>21, <1>22
  <1>24. Provided(s)
    BY <1>23 DEF Provided, CellMet, Met
  <1> QED
    BY <1>24 DEF s

LEMMA Lak9Provided == Provided(Lak9Recover \o Lak9Gotcha)
  <1> DEFINE s == Lak9Recover \o Lak9Gotcha
             Ct == Created("t", "cow", None, Good)
             Cu == Created("u", "cow", None, Good)
             bad == <<Row(1, "corrupt")>>
             eu == Expire("u", 1, TRUE)
  <1>7. Lak9Gotcha = <<<<Drop("u"), Cu, Remember("u"), Relabel("u", "bad"), eu, Prove, Drop("u")>>,
                       <<Drop("t"), Drop("u")>>>>
    BY DEF Lak9Gotcha
  <1> HIDE DEF eu
  <1>0. DOMAIN s = 1 .. 6
    BY <1>7 DEF Lak9Recover
  <1>1. s[1] = <<Drop("t"), Ct, Insert("t", More), Remember("t")>>
    BY <1>7 DEF Lak9Recover
  <1>2. s[2] = <<Replace("t", bad)>>
    BY <1>7 DEF Lak9Recover
  <1>3. s[3] = <<Rollback("t")>>
    BY <1>7 DEF Lak9Recover
  <1>4. s[4] = <<Prove>>
    BY <1>7 DEF Lak9Recover
  <1>5. s[5] = <<Drop("u"), Cu, Remember("u"), Relabel("u", "bad"), eu, Prove, Drop("u")>>
    BY <1>7 DEF Lak9Recover
  <1>6. s[6] = <<Drop("t"), Drop("u")>>
    BY <1>7 DEF Lak9Recover
  <1>8. Plain(eu, "u")
    BY PlainOnes DEF eu
  <1> HIDE DEF s, Ct, Cu, bad
  <1>9. DOMAIN s \subseteq Nat /\ 1 .. 6 \subseteq DOMAIN s
    BY <1>0
  <1>10. \A k \in DOMAIN s : DOMAIN s[k] \subseteq Nat \ {0}
    BY <1>0, <1>1, <1>2, <1>3, <1>4, <1>5, <1>6
  <1>11. Lasts(s, 1, 2, 4, 1, There("t"))
    <2>1. 2 \in DOMAIN s[1] /\ Gives(s[1], 2, There("t"))
      BY <1>1 DEF Gives, There, Fact, Ct, Created
    <2>2. /\ ~Breaks(Insert("t", More), There("t"))
          /\ ~Breaks(Remember("t"), There("t"))
          /\ ~Breaks(Replace("t", bad), There("t"))
          /\ ~Breaks(Rollback("t"), There("t"))
      BY DEF Breaks, There, Fact, Insert, Remember, Op, Replace, Rollback
    <2>3. /\ SafeAfter(s[1], 2, There("t")) /\ Safe(s[2], There("t")) /\
             Safe(s[3], There("t"))
      BY <1>1, <1>2, <1>3, <2>2, TupleSafe
    <2>4. \A k \in DOMAIN s : 1 < k /\ k < 4 => Safe(s[k], There("t"))
      BY <1>0, <2>3
    <2>5. 1 \in DOMAIN s /\ 4 \in DOMAIN s /\ DOMAIN s[4] \subseteq Nat \ {0}
      BY <1>9, <1>10
    <2> QED
      BY <1>9, <2>1, <2>3, <2>4, <2>5, Lasting
  <1>12. Lasts(s, 1, 4, 3, 1, Fact("back", "t", "all"))
    <2>1. 4 \in DOMAIN s[1] /\ Gives(s[1], 4, Fact("back", "t", "all"))
      BY <1>1 DEF Gives, Fact, Remember, Op, Fills, Insert, Good, More
    <2>2. ~Breaks(Replace("t", bad), Fact("back", "t", "all"))
      BY DEF Breaks, Fact, Replace, Writes
    <2>3. /\ SafeAfter(s[1], 4, Fact("back", "t", "all")) /\
             Safe(s[2], Fact("back", "t", "all"))
      BY <1>1, <1>2, <2>2, TupleSafe
    <2>4. \A k \in DOMAIN s : 1 < k /\ k < 3 => Safe(s[k], Fact("back", "t", "all"))
      BY <1>0, <2>3
    <2>5. 1 \in DOMAIN s /\ 3 \in DOMAIN s /\ DOMAIN s[3] \subseteq Nat \ {0}
      BY <1>9, <1>10
    <2> QED
      BY <1>9, <2>1, <2>3, <2>4, <2>5, Lasting
  <1>13. Sure(s, 1, 2, Fact("gone", "t", "all"))
    <2>1. Gives(s[1], 1, Fact("gone", "t", "all"))
      BY <1>1 DEF Gives, Fact, Drop, Op
    <2>2. /\ 1 \in DOMAIN s /\ 1 \in DOMAIN s[1] /\ 2 \in DOMAIN s[1] /\ DOMAIN s[1] \subseteq Nat
         /\ \A l \in DOMAIN s[1] : 1 < l /\ l < 2 => ~Breaks(s[1][l], Fact("gone", "t", "all"))
      BY <1>9, <1>1
    <2> QED
      BY <1>9, <2>1, <2>2, Within
  <1>14. Sure(s, 5, 2, Fact("gone", "u", "all"))
    <2>1. Gives(s[5], 1, Fact("gone", "u", "all"))
      BY <1>5 DEF Gives, Fact, Drop, Op
    <2>2. /\ 5 \in DOMAIN s /\ 1 \in DOMAIN s[5] /\ 2 \in DOMAIN s[5] /\ DOMAIN s[5] \subseteq Nat
         /\ \A l \in DOMAIN s[5] : 1 < l /\ l < 2 => ~Breaks(s[5][l], Fact("gone", "u", "all"))
      BY <1>9, <1>5
    <2> QED
      BY <1>9, <2>1, <2>2, Within
  <1>15. Sure(s, 5, 4, There("u"))
    <2>1. Gives(s[5], 2, There("u"))
      BY <1>5 DEF Gives, There, Fact, Cu, Created
    <2>2. ~Breaks(Remember("u"), There("u"))
      BY DEF Breaks, There, Fact, Remember, Op
    <2>3. /\ 5 \in DOMAIN s /\ 2 \in DOMAIN s[5] /\ 4 \in DOMAIN s[5] /\ DOMAIN s[5] \subseteq Nat
         /\ \A l \in DOMAIN s[5] : 2 < l /\ l < 4 => ~Breaks(s[5][l], There("u"))
      BY <1>9, <1>5, <2>2
    <2> QED
      BY <1>9, <2>1, <2>3, Within
  <1>16. Sure(s, 5, 5, There("u"))
    <2>1. Gives(s[5], 2, There("u"))
      BY <1>5 DEF Gives, There, Fact, Cu, Created
    <2>2. ~Breaks(Remember("u"), There("u")) /\ ~Breaks(Relabel("u", "bad"), There("u"))
      BY DEF Breaks, There, Fact, Remember, Op, Relabel
    <2>3. /\ 5 \in DOMAIN s /\ 2 \in DOMAIN s[5] /\ 5 \in DOMAIN s[5] /\ DOMAIN s[5] \subseteq Nat
         /\ \A l \in DOMAIN s[5] : 2 < l /\ l < 5 => ~Breaks(s[5][l], There("u"))
      BY <1>9, <1>5, <2>2
    <2> QED
      BY <1>9, <2>1, <2>3, Within
  <1>17. CellMet(s, 1)
    <2>1. Sure(s, 1, 2, Fact("gone", "t", "all"))
      BY <1>13
    <2>2. Sure(s, 1, 3, There("t"))
      BY <1>11 DEF Lasts
    <2>3. Met(s, 1, 1, Drop("t")) /\ Met(s, 1, 4, Remember("t"))
      BY FreeOnes, FreeMet
    <2>4. Met(s, 1, 3, Insert("t", More))
      BY <2>2, PlainOnes, PlainMet
    <2>5. Met(s, 1, 2, Ct)
      BY <2>1 DEF Met, Needs, Ct, Created
    <2> QED
      BY <1>1, <2>3, <2>4, <2>5, TupleMet
  <1>18. CellMet(s, 2)
    <2>1. Sure(s, 2, 1, There("t"))
      BY <1>11 DEF Lasts
    <2>2. Met(s, 2, 1, Replace("t", bad))
      BY <2>1, PlainOnes, PlainMet
    <2> QED
      BY <1>2, <2>2, TupleMet
  <1>19. CellMet(s, 3)
    <2>1. Sure(s, 3, 1, There("t"))
      BY <1>11 DEF Lasts
    <2>2. Sure(s, 3, 1, Fact("back", "t", "all"))
      BY <1>12 DEF Lasts
    <2>3. Met(s, 3, 1, Rollback("t"))
      BY <2>1, <2>2 DEF Met, Needs, Rollback, Op
    <2> QED
      BY <1>3, <2>3, TupleMet
  <1>20. CellMet(s, 4)
    BY <1>4, FreeOnes, FreeMet, TupleMet
  <1>21. CellMet(s, 5)
    <2>1. Sure(s, 5, 2, Fact("gone", "u", "all"))
      BY <1>14
    <2>2. Sure(s, 5, 4, There("u"))
      BY <1>15
    <2>3. Sure(s, 5, 5, There("u"))
      BY <1>16
    <2>4. Met(s, 5, 1, Drop("u")) /\ Met(s, 5, 3, Remember("u")) /\ Met(s, 5, 6, Prove) /\
          Met(s, 5, 7, Drop("u"))
      BY FreeOnes, FreeMet
    <2>5. Met(s, 5, 4, Relabel("u", "bad")) /\ Met(s, 5, 5, eu)
      BY <1>8, <2>2, <2>3, PlainOnes, PlainMet
    <2>6. Met(s, 5, 2, Cu)
      BY <2>1 DEF Met, Needs, Cu, Created
    <2> QED
      BY <1>5, <2>4, <2>5, <2>6, TupleMet
  <1>22. CellMet(s, 6)
    BY <1>6, FreeOnes, FreeMet, TupleMet
  <1>23. \A k \in DOMAIN s : CellMet(s, k)
    <2>1. \A k \in DOMAIN s : k \in {1, 2, 3, 4, 5, 6}
      BY <1>0
    <2> QED
      BY <2>1, <1>17, <1>18, <1>19, <1>20, <1>21, <1>22
  <1>24. Provided(s)
    BY <1>23 DEF Provided, CellMet, Met
  <1> QED
    BY <1>24 DEF s

LEMMA Lak10Provided == Provided(Lak10Write \o Lak10Tag)
  <1> DEFINE s == Lak10Write \o Lak10Tag
             Ct == Created("t", "mor", <<"day">>, None)
             Cu == Created("u", "cow", None, None)
  <1>0. DOMAIN s = 1 .. 6
    BY DEF Lak10Write, Lak10Tag
  <1>1. s[1] = <<Drop("t"), Drop("u"), Ct, Insert("t", Good), Insert("t", More)>>
    BY DEF Lak10Write, Lak10Tag
  <1>2. s[2] = <<DeleteRow("t", 1)>>
    BY DEF Lak10Write, Lak10Tag
  <1>3. s[3] = <<Cu, Insert("u", Good), DeleteRow("u", 1)>>
    BY DEF Lak10Write, Lak10Tag
  <1>4. s[4] = <<Tag("t")>>
    BY DEF Lak10Write, Lak10Tag
  <1>5. s[5] = <<Prove>>
    BY DEF Lak10Write, Lak10Tag
  <1>6. s[6] = <<Drop("t"), Drop("u")>>
    BY DEF Lak10Write, Lak10Tag
  <1> HIDE DEF s, Ct, Cu
  <1>7. DOMAIN s \subseteq Nat /\ 1 .. 6 \subseteq DOMAIN s
    BY <1>0
  <1>8. \A k \in DOMAIN s : DOMAIN s[k] \subseteq Nat \ {0}
    BY <1>0, <1>1, <1>2, <1>3, <1>4, <1>5, <1>6
  <1>9. Lasts(s, 1, 2, 3, 1, Fact("gone", "u", "all"))
    <2>1. 2 \in DOMAIN s[1] /\ Gives(s[1], 2, Fact("gone", "u", "all"))
      BY <1>1 DEF Gives, Fact, Drop, Op
    <2>2. /\ ~Breaks(Ct, Fact("gone", "u", "all"))
          /\ ~Breaks(Insert("t", Good), Fact("gone", "u", "all"))
          /\ ~Breaks(Insert("t", More), Fact("gone", "u", "all"))
          /\ ~Breaks(DeleteRow("t", 1), Fact("gone", "u", "all"))
      BY DEF Breaks, Fact, Ct, Created, Insert, DeleteRow
    <2>3. /\ SafeAfter(s[1], 2, Fact("gone", "u", "all")) /\
             Safe(s[2], Fact("gone", "u", "all"))
      BY <1>1, <1>2, <2>2, TupleSafe
    <2>4. \A k \in DOMAIN s : 1 < k /\ k < 3 => Safe(s[k], Fact("gone", "u", "all"))
      BY <1>0, <2>3
    <2>5. 1 \in DOMAIN s /\ 3 \in DOMAIN s /\ DOMAIN s[3] \subseteq Nat \ {0}
      BY <1>7, <1>8
    <2> QED
      BY <1>7, <2>1, <2>3, <2>4, <2>5, Lasting
  <1>10. Lasts(s, 1, 3, 5, 1, There("t"))
    <2>1. 3 \in DOMAIN s[1] /\ Gives(s[1], 3, There("t"))
      BY <1>1 DEF Gives, There, Fact, Ct, Created
    <2>2. /\ ~Breaks(Insert("t", Good), There("t"))
          /\ ~Breaks(Insert("t", More), There("t"))
          /\ ~Breaks(DeleteRow("t", 1), There("t"))
          /\ ~Breaks(Cu, There("t"))
          /\ ~Breaks(Insert("u", Good), There("t"))
          /\ ~Breaks(DeleteRow("u", 1), There("t"))
          /\ ~Breaks(Tag("t"), There("t"))
      BY DEF Breaks, There, Fact, Insert, DeleteRow, Cu, Created, Tag, Op
    <2>3. /\ SafeAfter(s[1], 3, There("t")) /\ Safe(s[2], There("t")) /\
             Safe(s[3], There("t")) /\ Safe(s[4], There("t"))
      BY <1>1, <1>2, <1>3, <1>4, <2>2, TupleSafe
    <2>4. \A k \in DOMAIN s : 1 < k /\ k < 5 => Safe(s[k], There("t"))
      BY <1>0, <2>3
    <2>5. 1 \in DOMAIN s /\ 5 \in DOMAIN s /\ DOMAIN s[5] \subseteq Nat \ {0}
      BY <1>7, <1>8
    <2> QED
      BY <1>7, <2>1, <2>3, <2>4, <2>5, Lasting
  <1>11. Lasts(s, 1, 3, 4, 1, Fact("untagged", "t", "all"))
    <2>1. 3 \in DOMAIN s[1] /\ Gives(s[1], 3, Fact("untagged", "t", "all"))
      BY <1>1 DEF Gives, Fact, Ct, Created
    <2>2. /\ ~Breaks(Insert("t", Good), Fact("untagged", "t", "all"))
          /\ ~Breaks(Insert("t", More), Fact("untagged", "t", "all"))
          /\ ~Breaks(DeleteRow("t", 1), Fact("untagged", "t", "all"))
          /\ ~Breaks(Cu, Fact("untagged", "t", "all"))
          /\ ~Breaks(Insert("u", Good), Fact("untagged", "t", "all"))
          /\ ~Breaks(DeleteRow("u", 1), Fact("untagged", "t", "all"))
      BY DEF Breaks, Fact, Insert, DeleteRow, Cu, Created
    <2>3. /\ SafeAfter(s[1], 3, Fact("untagged", "t", "all")) /\
             Safe(s[2], Fact("untagged", "t", "all")) /\
             Safe(s[3], Fact("untagged", "t", "all"))
      BY <1>1, <1>2, <1>3, <2>2, TupleSafe
    <2>4. \A k \in DOMAIN s : 1 < k /\ k < 4 => Safe(s[k], Fact("untagged", "t", "all"))
      BY <1>0, <2>3
    <2>5. 1 \in DOMAIN s /\ 4 \in DOMAIN s /\ DOMAIN s[4] \subseteq Nat \ {0}
      BY <1>7, <1>8
    <2> QED
      BY <1>7, <2>1, <2>3, <2>4, <2>5, Lasting
  <1>12. Lasts(s, 1, 4, 4, 1, Fact("filled", "t", "all"))
    <2>1. 4 \in DOMAIN s[1] /\ Gives(s[1], 4, Fact("filled", "t", "all"))
      BY <1>1 DEF Gives, Fact, Insert, Fills, Good, More
    <2>2. /\ ~Breaks(Insert("t", More), Fact("filled", "t", "all"))
          /\ ~Breaks(DeleteRow("t", 1), Fact("filled", "t", "all"))
          /\ ~Breaks(Cu, Fact("filled", "t", "all"))
          /\ ~Breaks(Insert("u", Good), Fact("filled", "t", "all"))
          /\ ~Breaks(DeleteRow("u", 1), Fact("filled", "t", "all"))
      BY DEF Breaks, Fact, Insert, DeleteRow, Cu, Created
    <2>3. /\ SafeAfter(s[1], 4, Fact("filled", "t", "all")) /\
             Safe(s[2], Fact("filled", "t", "all")) /\ Safe(s[3], Fact("filled", "t", "all"))
      BY <1>1, <1>2, <1>3, <2>2, TupleSafe
    <2>4. \A k \in DOMAIN s : 1 < k /\ k < 4 => Safe(s[k], Fact("filled", "t", "all"))
      BY <1>0, <2>3
    <2>5. 1 \in DOMAIN s /\ 4 \in DOMAIN s /\ DOMAIN s[4] \subseteq Nat \ {0}
      BY <1>7, <1>8
    <2> QED
      BY <1>7, <2>1, <2>3, <2>4, <2>5, Lasting
  <1>13. Lasts(s, 3, 1, 4, 1, There("u"))
    <2>1. 1 \in DOMAIN s[3] /\ Gives(s[3], 1, There("u"))
      BY <1>3 DEF Gives, There, Fact, Cu, Created
    <2>2. ~Breaks(Insert("u", Good), There("u")) /\ ~Breaks(DeleteRow("u", 1), There("u"))
      BY DEF Breaks, There, Fact, Insert, DeleteRow
    <2>3. /\ SafeAfter(s[3], 1, There("u"))
      BY <1>3, <2>2, TupleSafe
    <2>4. \A k \in DOMAIN s : 3 < k /\ k < 4 => Safe(s[k], There("u"))
      BY <1>0
    <2>5. 3 \in DOMAIN s /\ 4 \in DOMAIN s /\ DOMAIN s[4] \subseteq Nat \ {0}
      BY <1>7, <1>8
    <2> QED
      BY <1>7, <2>1, <2>3, <2>4, <2>5, Lasting
  <1>14. Sure(s, 1, 3, Fact("gone", "t", "all"))
    <2>1. Gives(s[1], 1, Fact("gone", "t", "all"))
      BY <1>1 DEF Gives, Fact, Drop, Op
    <2>2. ~Breaks(Drop("u"), Fact("gone", "t", "all"))
      BY DEF Breaks, Fact, Drop, Op
    <2>3. /\ 1 \in DOMAIN s /\ 1 \in DOMAIN s[1] /\ 3 \in DOMAIN s[1] /\ DOMAIN s[1] \subseteq Nat
         /\ \A l \in DOMAIN s[1] : 1 < l /\ l < 3 => ~Breaks(s[1][l], Fact("gone", "t", "all"))
      BY <1>7, <1>1, <2>2
    <2> QED
      BY <1>7, <2>1, <2>3, Within
  <1>15. CellMet(s, 1)
    <2>1. Sure(s, 1, 3, Fact("gone", "t", "all"))
      BY <1>14
    <2>2. Sure(s, 1, 4, There("t")) /\ Sure(s, 1, 5, There("t"))
      BY <1>10 DEF Lasts
    <2>3. Met(s, 1, 1, Drop("t")) /\ Met(s, 1, 2, Drop("u"))
      BY FreeOnes, FreeMet
    <2>4. Met(s, 1, 4, Insert("t", Good)) /\ Met(s, 1, 5, Insert("t", More))
      BY <2>2, PlainOnes, PlainMet
    <2>5. Met(s, 1, 3, Ct)
      BY <2>1 DEF Met, Needs, Ct, Created
    <2> QED
      BY <1>1, <2>3, <2>4, <2>5, TupleMet
  <1>16. CellMet(s, 2)
    <2>1. Sure(s, 2, 1, There("t"))
      BY <1>10 DEF Lasts
    <2>2. Met(s, 2, 1, DeleteRow("t", 1))
      BY <2>1, PlainOnes, PlainMet
    <2> QED
      BY <1>2, <2>2, TupleMet
  <1>17. CellMet(s, 3)
    <2>1. Sure(s, 3, 1, Fact("gone", "u", "all"))
      BY <1>9 DEF Lasts
    <2>2. Sure(s, 3, 2, There("u")) /\ Sure(s, 3, 3, There("u"))
      BY <1>13 DEF Lasts
    <2>3. Met(s, 3, 2, Insert("u", Good)) /\ Met(s, 3, 3, DeleteRow("u", 1))
      BY <2>2, PlainOnes, PlainMet
    <2>4. Met(s, 3, 1, Cu)
      BY <2>1 DEF Met, Needs, Cu, Created
    <2> QED
      BY <1>3, <2>3, <2>4, TupleMet
  <1>18. CellMet(s, 4)
    <2>1. Sure(s, 4, 1, There("t"))
      BY <1>10 DEF Lasts
    <2>2. Sure(s, 4, 1, Fact("untagged", "t", "all"))
      BY <1>11 DEF Lasts
    <2>3. Sure(s, 4, 1, Fact("filled", "t", "all"))
      BY <1>12 DEF Lasts
    <2>4. Met(s, 4, 1, Tag("t"))
      BY <2>1, <2>2, <2>3 DEF Met, Needs, Tag, Op
    <2> QED
      BY <1>4, <2>4, TupleMet
  <1>19. CellMet(s, 5)
    BY <1>5, FreeOnes, FreeMet, TupleMet
  <1>20. CellMet(s, 6)
    BY <1>6, FreeOnes, FreeMet, TupleMet
  <1>21. \A k \in DOMAIN s : CellMet(s, k)
    <2>1. \A k \in DOMAIN s : k \in {1, 2, 3, 4, 5, 6}
      BY <1>0
    <2> QED
      BY <2>1, <1>15, <1>16, <1>17, <1>18, <1>19, <1>20
  <1>22. Provided(s)
    BY <1>21 DEF Provided, CellMet, Met
  <1> QED
    BY <1>22 DEF s

LEMMA ScriptsProvide == \A n \in Notebooks : Provided(Cells[n])
  <1>1. /\ Provided(Cells["lak1"]) /\ Provided(Cells["lak2"]) /\ Provided(Cells["lak3"])
        /\ Provided(Cells["lak4"]) /\ Provided(Cells["lak5"]) /\ Provided(Cells["lak6"])
        /\ Provided(Cells["lak7"]) /\ Provided(Cells["lak8"]) /\ Provided(Cells["lak9"])
        /\ Provided(Cells["lak10"])
    BY Lak1Provided, Lak2Provided, Lak3Provided, Lak4Provided, Lak5Provided, Lak6Provided,
       Lak7Provided, Lak8Provided, Lak9Provided, Lak10Provided DEF Cells
  <1>2. Notebooks \subseteq {"lak1", "lak2", "lak3", "lak4", "lak5", "lak6", "lak7", "lak8", "lak9",
                            "lak10"}
    BY NotebooksAssumption DEF Cells
  <1> QED
    BY <1>1, <1>2

-----------------------------------------------------------------------------
(* What is assured holds, what the kernel remembers is of both tables, and *)
(* an expiry that does not expire anything now has nothing to delete.      *)
FactsInv ==
    /\ \A f : f.t \in Tables /\ Assured(f) => Holds(f)
    /\ before = [t \in Tables |-> before[t]]
    /\ status = "expired" => o.op = "expire" /\ (~o.now => doomed = {})
    /\ status = "rejected" => cell \in retried

(* The catalog refuses only an operation that lacks what it needs.         *)
LEMMA NeedsMet == (\A f \in Needs(o) : Holds(f)) => ~Refused
  <1> SUFFICES ASSUME \A f \in Needs(o) : Holds(f), Refused PROVE FALSE
    OBVIOUS
  <1>0. NoTable.mode = "none"
    BY DEF NoTable, NewTable
  <1>1. CASE o.op = "create" /\ Exists(o.t)
    <2>1. Fact("gone", o.t, "all") \in Needs(o)
      BY <1>1 DEF Needs
    <2> QED
      BY <1>1, <2>1 DEF Holds, Fact, Exists
  <1>2. CASE /\ o.op \notin {"create", "drop", "clear", "stray", "list", "backdate", "remember",
                             "prove"}
             /\ ~Exists(o.t)
    <2>1. There(o.t) \in Needs(o)
      BY <1>2 DEF Needs
    <2> QED
      BY <1>0, <1>2, <2>1 DEF Holds, Fact, There, Exists
  <1>3. CASE o.op = "tag" /\ (meta[o.t].tags # {} \/ meta[o.t].current = 0)
    <2>1. Fact("untagged", o.t, "all") \in Needs(o) /\ Fact("filled", o.t, "all") \in Needs(o)
      BY <1>3 DEF Needs
    <2> QED
      BY <1>3, <2>1 DEF Holds, Fact
  <1>4. CASE o.op = "rollback"
             /\ before[o.t].current \notin Ancestors(meta[o.t]) \cap meta[o.t].kept
    <2>1. Fact("back", o.t, "all") \in Needs(o)
      BY <1>4 DEF Needs
    <2> QED
      BY <1>4, <2>1 DEF Holds, Fact
  <1>5. CASE o.op = "addcolumn" /\ o.name \in DOMAIN meta[o.t].schema
    <2>1. Fact("nocolumn", o.t, o.name) \in Needs(o)
      BY <1>5 DEF Needs
    <2> QED
      BY <1>5, <2>1 DEF Holds, Fact
  <1>6. CASE o.op \in {"rename", "dropcolumn"} /\ o.name \notin DOMAIN meta[o.t].schema
    <2>1. Fact("column", o.t, o.name) \in Needs(o)
      BY <1>6 DEF Needs
    <2> QED
      BY <1>6, <2>1 DEF Holds, Fact
  <1>7. CASE o.op = "addfield" /\ o.field \in ToSet(meta[o.t].spec)
    <2>1. Fact("nofield", o.t, o.field) \in Needs(o)
      BY <1>7 DEF Needs
    <2> QED
      BY <1>7, <2>1 DEF Holds, Fact
  <1>8. CASE o.op = "backdate" /\ ~ strays \subseteq disk[o.t]
    <2>1. Fact("found", o.t, "all") \in Needs(o)
      BY <1>8 DEF Needs
    <2> QED
      BY <1>8, <2>1 DEF Holds, Fact
  <1> QED
    BY <1>1, <1>2, <1>3, <1>4, <1>5, <1>6, <1>7, <1>8 DEF Refused

(* What an operation needs is of its table.                                *)
LEMMA NeedsOfTable == \A x : \A f \in Needs(x) : f.t = x.t
  <1> SUFFICES ASSUME NEW x, NEW f \in Needs(x) PROVE f.t = x.t
    OBVIOUS
  <1> QED
    BY DEF Needs, Fact, There

(* So an operation of a cell that has not failed is not refused.           *)
LEMMA NotRefused ==
    ASSUME IcebergInv, FactsInv, Due(Script, "ready"), cell \notin retried
    PROVE  ~Refused
  <1>1. /\ cell \in DOMAIN Script /\ op \in DOMAIN Script[cell] /\ o.t \in Tables
    <2>1. cell \in 1 .. Len(Script) /\ op \in 1 .. Len(Script[cell]) /\ o.t \in Tables
      BY DueFacts DEF IcebergInv, Due, OperationOK
    <2> QED
      BY <2>1
  <1>2. \A f \in Needs(o) : Sure(Script, cell, op, f)
    BY <1>1, ScriptsProvide DEF Provided, IcebergInv, KernelInv, Script, o
  <1>3. \A f \in Needs(o) : Assured(f)
    BY <1>2 DEF Sure, Assured, Due
  <1>4. \A f \in Needs(o) : Holds(f)
    BY <1>1, <1>3, NeedsOfTable DEF FactsInv
  <1> QED
    BY <1>4, NeedsMet

-----------------------------------------------------------------------------
(* WHAT LASTS.  A step keeps what its operation does not break.            *)
SameFacts(t) == meta'[t] = meta[t] /\ before'[t] = before[t] /\ disk[t] \subseteq disk'[t]

LEMMA SameFactsHold ==
    ASSUME NEW f, SameFacts(f.t), Holds(f), f.is = "found" => strays' = strays
    PROVE  Holds(f)'
  <1>1. Ancestors(meta'[f.t]) = Ancestors(meta[f.t])
    BY DEF SameFacts
  <1> QED
    BY <1>1 DEF SameFacts, Holds

(* The step keeps the fact, unless its operation may break it.             *)
StepKeeps(f) == ~Breaks(o, f) /\ Holds(f) => Holds(f)'

LEMMA OfOtherTables ==
    ASSUME IcebergInv, FactsInv, ~AtEnd(Script), NEW f, f.t \in Tables, f.t # o.t,
           \/ WriteFiles \/ CommitWrite \/ StrayWrite \/ AlterTable \/ ExpireSnapshots
           \/ Reclaim \/ RemoveOld \/ DropTable \/ KernelStep
    PROVE  StepKeeps(f)
  <1>0. /\ disk = [t \in Tables |-> disk[t]] /\ meta = [t \in Tables |-> meta[t]]
        /\ before = [t \in Tables |-> before[t]]
    BY DEF IcebergInv, DiskInv, MetaInv, FactsInv
  <1>1. SameFacts(f.t) /\ (o.op # "list" => strays' = strays)
    <2>1. CASE WriteFiles \/ CommitWrite \/ StrayWrite
      BY <1>0, <2>1 DEF WriteFiles, CommitWrite, StrayWrite, SameFacts, tableVars, memoryVars
    <2>2. CASE AlterTable \/ ExpireSnapshots \/ Reclaim
      BY <1>0, <2>2 DEF AlterTable, ExpireSnapshots, Reclaim, SameFacts, memoryVars
    <2>3. CASE RemoveOld \/ DropTable
      BY <1>0, <2>3 DEF RemoveOld, DropTable, SameFacts, memoryVars
    <2>4. CASE KernelStep
      BY <1>0, <2>4 DEF KernelStep, SameFacts, tableVars
    <2> QED
      BY <2>1, <2>2, <2>3, <2>4
  <1> QED
    BY <1>1, SameFactsHold DEF StepKeeps, Breaks

LEMMA OfQuietSteps ==
    ASSUME NEW f, Reject \/ Crash \/ Retry \/ UNCHANGED vars, Holds(f)
    PROVE  Holds(f)'
  <1>1. SameFacts(f.t) /\ strays' = strays
    BY DEF Reject, Crash, Retry, vars, tableVars, memoryVars, SameFacts
  <1> QED
    BY <1>1, SameFactsHold

(* Writes.                                                                 *)
LEMMA OfWrites ==
    ASSUME IcebergInv, FactsInv, NEW f, f.t \in Tables, f.t = o.t,
           WriteFiles \/ StrayWrite
    PROVE  StepKeeps(f)
  <1>0. disk = [t \in Tables |-> disk[t]]
    BY DEF IcebergInv, DiskInv
  <1>1. SameFacts(f.t) /\ strays' = strays
    BY <1>0 DEF WriteFiles, StrayWrite, SameFacts, tableVars, memoryVars
  <1> QED
    BY <1>1, SameFactsHold DEF StepKeeps

(* A commit leaves the rest of the metadata, and the line that leads to    *)
(* the current snapshot is continued.                                      *)
LEMMA CommittedKeeps ==
    ASSUME NEW m, MetaOK(m), NEW ms, NEW c, c = Committed(m, ms)
    PROVE  /\ c.mode = m.mode /\ c.spec = m.spec /\ c.schema = m.schema /\ c.tags = m.tags
           /\ Ancestors(m) \subseteq Ancestors(c)
  <1> DEFINE id == Len(m.snaps) + 1
             e == [parent |-> m.current, manifests |-> ms \ {{}}, schema |-> m.schema]
             s == Append(m.snaps, e)
  <1>1. /\ Len(m.snaps) \in Nat /\ DOMAIN m.snaps = 1 .. Len(m.snaps)
        /\ DOMAIN s = 1 .. id /\ s[id] = e /\ \A i \in 1 .. Len(m.snaps) : s[i] = m.snaps[i]
    <2> HIDE DEF e
    <2> QED
      BY AppendIs DEF MetaOK
  <1>2. c = [mode |-> m.mode, spec |-> m.spec, schema |-> m.schema, lastId |-> m.lastId,
             snaps |-> s, kept |-> m.kept \cup {id}, current |-> id, tags |-> m.tags]
    BY DEF Committed, MetaOK
  <1>3. e.parent = m.current
    OBVIOUS
  <1> HIDE DEF s, e
  <1>4. c.snaps = s /\ c.current = id
    BY <1>2
  <1>5. ASSUME NEW i \in Ancestors(m) PROVE i \in Ancestors(c)
    <2>1. i \in DOMAIN m.snaps
      BY <1>5 DEF Ancestors
    <2>2. ASSUME NEW line \in SUBSET DOMAIN s, id \in line \cup {0},
                 \A j \in line : s[j].parent \in line \cup {0}
          PROVE  i \in line
      <3> DEFINE short == line \cap DOMAIN m.snaps
      <3>1. short \in SUBSET DOMAIN m.snaps
        OBVIOUS
      <3>2. \A j \in DOMAIN m.snaps : m.snaps[j].parent \in 0 .. j - 1 /\ j \in 1 .. Len(m.snaps)
        BY <1>1 DEF MetaOK
      <3>3. \A j \in short : m.snaps[j].parent \in short \cup {0}
        BY <1>1, <2>2, <3>2
      <3>4. m.current \in DOMAIN m.snaps \cup {0}
        BY DEF MetaOK
      <3>5. m.current \in short \cup {0}
        BY <1>1, <1>3, <2>2, <3>4
      <3> HIDE DEF short
      <3>6. i \in short
        BY <1>5, <3>1, <3>3, <3>5 DEF Ancestors
      <3> QED
        BY <3>6 DEF short
    <2> QED
      BY <1>1, <1>4, <2>1, <2>2 DEF Ancestors
  <1>6. c.mode = m.mode /\ c.spec = m.spec /\ c.schema = m.schema /\ c.tags = m.tags
    BY <1>2
  <1>7. Ancestors(m) \subseteq Ancestors(c)
    BY <1>5
  <1> QED
    BY <1>6, <1>7

LEMMA OfCommits ==
    ASSUME IcebergInv, FactsInv, NEW f, f.t \in Tables, f.t = o.t, CommitWrite
    PROVE  StepKeeps(f)
  <1> SUFFICES ASSUME ~Breaks(o, f), Holds(f) PROVE Holds(f)'
    BY DEF StepKeeps
  <1>0. Writing /\ meta = [t \in Tables |-> meta[t]] /\ MetaOK(meta[o.t])
    BY DEF IcebergInv, MetaInv, PhaseInv, CommitWrite, Due
  <1>1. o.op # "create" /\ Target = meta[o.t]
    BY DEF Breaks, Target
  <1>2. f.is # "gone"
    BY <1>0, <1>1 DEF Writing, Writes, Breaks
  <1>3. PICK ms : meta'[o.t] = Committed(meta[o.t], ms)
    BY <1>0, <1>1 DEF CommitWrite
  <1> DEFINE m == meta[o.t]
             n == meta'[o.t]
  <1>4. /\ n.mode = m.mode /\ n.spec = m.spec /\ n.schema = m.schema /\ n.tags = m.tags
        /\ Ancestors(m) \subseteq Ancestors(n) /\ m.kept \subseteq n.kept /\ n.current # 0
    BY <1>0, <1>3, CommittedKeeps, CommittedIs
  <1>5. before' = before /\ disk' = disk /\ strays' = strays
    BY DEF CommitWrite, memoryVars
  <1> QED
    BY <1>2, <1>4, <1>5 DEF Holds

LEMMA OfAlterations ==
    ASSUME IcebergInv, FactsInv, NEW f, f.t \in Tables, f.t = o.t, AlterTable
    PROVE  StepKeeps(f)
  <1> SUFFICES ASSUME ~Breaks(o, f), Holds(f) PROVE Holds(f)'
    BY DEF StepKeeps
  <1> DEFINE m == meta[o.t]
             n == meta'[o.t]
  <1>0. MetaOK(m) /\ n = Alter(m) /\ strays' = strays /\ before' = before /\ disk' = disk
    BY DEF IcebergInv, MetaInv, AlterTable, memoryVars
  <1>1. /\ o.op \in {"rollback", "tag", "addcolumn", "rename", "dropcolumn", "addfield",
                      "manifests"}
        /\ f.is # "gone" /\ f.is # "back"
    BY DEF AlterTable, DueOp, Breaks, Writes
  <1>2. m = [mode |-> m.mode, spec |-> m.spec, schema |-> m.schema, lastId |-> m.lastId,
             snaps |-> m.snaps, kept |-> m.kept, current |-> m.current, tags |-> m.tags]
    BY <1>0 DEF MetaOK
  <1>3. \/ f.is = "there" /\ n.mode = m.mode
        \/ f.is = "column" /\ (f.c \in DOMAIN m.schema => f.c \in DOMAIN n.schema)
        \/ f.is = "nocolumn" /\ (f.c \notin DOMAIN m.schema => f.c \notin DOMAIN n.schema)
        \/ f.is = "nofield" /\ (f.c \notin ToSet(m.spec) => f.c \notin ToSet(n.spec))
        \/ f.is = "untagged" /\ n.tags = m.tags
        \/ f.is = "filled" /\ (m.current # 0 => n.current # 0)
        \/ f.is \notin {"there", "column", "nocolumn", "nofield", "untagged", "filled"}
    <2>1. CASE o.op = "rollback"
      <3>1. n = [m EXCEPT !.current = before[o.t].current]
        BY <1>0, <2>1 DEF Alter
      <3>2. n.mode = m.mode /\ n.schema = m.schema /\ n.spec = m.spec /\ n.tags = m.tags
        BY <1>2, <3>1
      <3>3. f.is # "filled"
        BY <2>1 DEF Breaks
      <3> QED
        BY <3>2, <3>3
    <2>2. CASE o.op = "tag"
      <3>1. n = [m EXCEPT !.tags = {m.current}]
        BY <1>0, <2>2 DEF Alter
      <3>2. n.mode = m.mode /\ n.schema = m.schema /\ n.spec = m.spec /\ n.current = m.current
        BY <1>2, <3>1
      <3>3. f.is # "untagged"
        BY <2>2 DEF Breaks
      <3> QED
        BY <3>2, <3>3
    <2>3. CASE o.op = "addcolumn"
      <3> DEFINE schema == [c \in DOMAIN m.schema \cup {o.name} |->
                                IF c = o.name THEN m.lastId + 1 ELSE m.schema[c]]
      <3>1. n = [m EXCEPT !.lastId = m.lastId + 1, !.schema = schema]
        BY <1>0, <2>3 DEF Alter
      <3>2. DOMAIN schema = DOMAIN m.schema \cup {o.name}
        OBVIOUS
      <3> HIDE DEF schema
      <3>3. /\ n.mode = m.mode /\ n.schema = schema
            /\ n.spec = m.spec /\ n.current = m.current /\ n.tags = m.tags
        BY <1>2, <3>1
      <3>4. f.is = "nocolumn" => f.c # o.name
        BY <2>3 DEF Breaks
      <3> QED
        BY <3>2, <3>3, <3>4
    <2>4. CASE o.op = "rename"
      <3> DEFINE schema == [c \in (DOMAIN m.schema \ {o.name}) \cup {o.to} |->
                                IF c = o.to THEN m.schema[o.name] ELSE m.schema[c]]
      <3>1. n = [m EXCEPT !.schema = schema]
        BY <1>0, <2>4 DEF Alter
      <3>2. DOMAIN schema = (DOMAIN m.schema \ {o.name}) \cup {o.to}
        OBVIOUS
      <3> HIDE DEF schema
      <3>3. /\ n.mode = m.mode /\ n.schema = schema
            /\ n.spec = m.spec /\ n.current = m.current /\ n.tags = m.tags
        BY <1>2, <3>1
      <3>4. (f.is = "nocolumn" => f.c # o.to) /\ (f.is = "column" => f.c # o.name)
        BY <2>4 DEF Breaks
      <3> QED
        BY <3>2, <3>3, <3>4
    <2>5. CASE o.op = "dropcolumn"
      <3>1. n = [m EXCEPT !.schema = Restrict(m.schema, DOMAIN m.schema \ {o.name})]
        BY <1>0, <2>5 DEF Alter
      <3>2. DOMAIN Restrict(m.schema, DOMAIN m.schema \ {o.name}) = DOMAIN m.schema \ {o.name}
        BY DEF Restrict
      <3>3. /\ n.mode = m.mode /\ DOMAIN n.schema = DOMAIN m.schema \ {o.name}
            /\ n.spec = m.spec /\ n.current = m.current /\ n.tags = m.tags
        BY <1>2, <3>1, <3>2
      <3>4. f.is = "column" => f.c # o.name
        BY <2>5 DEF Breaks
      <3> QED
        BY <3>3, <3>4
    <2>6. CASE o.op = "addfield"
      <3>1. n = [m EXCEPT !.spec = Append(m.spec, o.field)]
        BY <1>0, <2>6 DEF Alter
      <3>2. /\ n.mode = m.mode /\ n.schema = m.schema /\ n.spec = Append(m.spec, o.field)
            /\ n.current = m.current /\ n.tags = m.tags
        BY <1>2, <3>1
      <3>3. f.is # "nofield"
        BY <2>6 DEF Breaks
      <3> QED
        BY <3>2, <3>3
    <2>7. CASE o.op = "manifests"
      <3>1. n = m \/ \E ms : n = Committed(m, ms)
        BY <1>0, <2>7 DEF Alter
      <3>2. /\ n.mode = m.mode /\ n.schema = m.schema /\ n.spec = m.spec /\ n.tags = m.tags
            /\ m.current # 0 => n.current # 0
        BY <1>0, <3>1, CommittedKeeps, CommittedIs
      <3> QED
        BY <3>2
    <2> QED
      BY <1>1, <2>1, <2>2, <2>3, <2>4, <2>5, <2>6, <2>7
  <1> QED
    BY <1>0, <1>1, <1>3 DEF Holds

(* Expiry, and what deletes files.                                         *)
LEMMA OfExpiry ==
    ASSUME IcebergInv, FactsInv, NEW f, f.t \in Tables, f.t = o.t,
           ExpireSnapshots \/ Reclaim \/ RemoveOld \/ DropTable
    PROVE  StepKeeps(f)
  <1> SUFFICES ASSUME ~Breaks(o, f), Holds(f) PROVE Holds(f)'
    BY DEF StepKeeps
  <1> DEFINE m == meta[o.t]
             n == meta'[o.t]
  <1>0. /\ MetaOK(m) /\ meta = [t \in Tables |-> meta[t]] /\ disk = [t \in Tables |-> disk[t]]
    BY DEF IcebergInv, MetaInv, DiskInv
  <1>1. CASE ExpireSnapshots
    <2>1. /\ f.is # "gone" /\ f.is # "back"
          /\ strays' = strays /\ disk' = disk
      BY <1>1 DEF ExpireSnapshots, DueOp, Breaks, Writes, memoryVars
    <2>2. m = [mode |-> m.mode, spec |-> m.spec, schema |-> m.schema, lastId |-> m.lastId,
               snaps |-> m.snaps, kept |-> m.kept, current |-> m.current, tags |-> m.tags]
      BY <1>0 DEF MetaOK
    <2>3. PICK kept : n = [m EXCEPT !.kept = kept]
      BY <1>0, <1>1 DEF ExpireSnapshots
    <2>4. /\ n.mode = m.mode /\ n.schema = m.schema /\ n.spec = m.spec /\ n.tags = m.tags
          /\ n.current = m.current
      BY <2>2, <2>3
    <2> QED
      BY <2>1, <2>4 DEF Holds
  <1>2. CASE Reclaim
    <2>0. status = "expired" /\ strays' = strays /\ before' = before /\ meta' = meta
      BY <1>2 DEF Reclaim, Due, memoryVars
    <2>1. o.op = "expire"
      BY <2>0 DEF FactsInv
    <2>2. CASE f.is = "found"
      <3>1. ~o.now
        BY <2>1, <2>2 DEF Breaks
      <3>2. disk'[o.t] = disk[o.t]
        BY <1>0, <1>2, <2>0, <3>1 DEF Reclaim, FactsInv
      <3> QED
        BY <2>0, <2>2, <3>2 DEF Holds
    <2>3. CASE f.is # "found"
      <3>1. Ancestors(meta'[f.t]) = Ancestors(meta[f.t])
        BY <2>0
      <3> QED
        BY <2>0, <2>3, <3>1 DEF Holds
    <2> QED
      BY <2>2, <2>3
  <1>3. CASE RemoveOld
    <2>1. f.is # "found" /\ strays' = strays /\ before' = before /\ meta' = meta
      BY <1>3 DEF RemoveOld, DueOp, Breaks, memoryVars
    <2>2. Ancestors(meta'[f.t]) = Ancestors(meta[f.t])
      BY <2>1
    <2> QED
      BY <2>1, <2>2 DEF Holds
  <1>4. CASE DropTable
    <2>1. f.is = "gone" /\ n = NoTable
      BY <1>0, <1>4 DEF DropTable, DueOp, Breaks
    <2> QED
      BY <2>1 DEF Holds, NoTable
  <1> QED
    BY <1>1, <1>2, <1>3, <1>4

(* What the kernel does by itself.                                         *)
LEMMA OfKernelSteps ==
    ASSUME IcebergInv, FactsInv, NEW f, f.t \in Tables, f.t = o.t, KernelStep
    PROVE  StepKeeps(f)
  <1> SUFFICES ASSUME ~Breaks(o, f), Holds(f) PROVE Holds(f)'
    BY DEF StepKeeps
  <1>1. /\ f.is # "back" /\ meta' = meta /\ disk' = disk
        /\ f.is = "found" => strays' = strays
    BY DEF KernelStep, DueOp, Breaks, Writes, tableVars
  <1> QED
    BY <1>1 DEF Holds

-----------------------------------------------------------------------------
(* WHAT IS GIVEN.  An operation that is done has made its facts hold.      *)
OperationSteps ==
    \/ WriteFiles \/ CommitWrite \/ StrayWrite \/ AlterTable \/ ExpireSnapshots
    \/ Reclaim \/ RemoveOld \/ DropTable \/ KernelStep

(* Rows go into at least one file.                                         *)
LEMMA RowsNeedFiles == \A m, rows : 1 \in DOMAIN rows => NewFiles(m, rows) # {}
  <1> SUFFICES ASSUME NEW m, NEW rows, 1 \in DOMAIN rows PROVE NewFiles(m, rows) # {}
    OBVIOUS
  <1>1. rows[1] \in ToSet(rows)
    BY DEF ToSet
  <1> QED
    BY <1>1 DEF NewFiles

LEMMA DoneBy ==
    ASSUME IcebergInv, FactsInv, ~AtEnd(Script), OperationSteps, Finish(Script)
    PROVE  /\ o.op \in {"drop", "clear"} => DropTable
           /\ o.op \in {"remember", "list"} => KernelStep
           /\ o.op = "create" => CommitWrite \/ AlterTable
           /\ o.op = "insert" /\ 1 \in DOMAIN o.rows => CommitWrite
  <1>1. CASE WriteFiles
    <2>1. Writing /\ status' = "ready"
      BY <1>1 DEF WriteFiles, Finish
    <2>2. Plan({}, {}) \in Plans(Target)
      BY <1>1, <2>1 DEF WriteFiles, GoOn
    <2>3. o.op \in {"create", "insert"} => NewFiles(Target, o.rows) = {}
      BY <2>2 DEF Plans, Plan
    <2>4. o.op \in {"create", "insert"} => 1 \notin DOMAIN o.rows
      BY <2>3, RowsNeedFiles
    <2>5. o.op # "create"
      BY <2>1, <2>4, DueTable DEF Writing, Writes, OperationOK
    <2> QED
      BY <2>1, <2>4, <2>5 DEF Writing, Writes
  <1>2. CASE CommitWrite
    <2>1. Writing
      BY <1>2 DEF CommitWrite, Due, IcebergInv, PhaseInv
    <2> QED
      BY <1>2, <2>1 DEF Writing, Writes
  <1>3. CASE StrayWrite \/ AlterTable \/ RemoveOld \/ DropTable \/ KernelStep
    BY <1>3 DEF StrayWrite, AlterTable, RemoveOld, DropTable, KernelStep, DueOp
  <1>4. CASE ExpireSnapshots
    BY <1>4 DEF ExpireSnapshots, DueOp
  <1>5. CASE Reclaim
    <2>1. o.op = "expire"
      BY <1>5 DEF Reclaim, Due, FactsInv
    <2> QED
      BY <2>1
  <1> QED
    BY <1>1, <1>2, <1>3, <1>4, <1>5 DEF OperationSteps

(* A table that was created is empty but for what it was created with.     *)
LEMMA Creates ==
    ASSUME IcebergInv, ~AtEnd(Script), CommitWrite \/ AlterTable, o.op = "create"
    PROVE  /\ meta'[o.t].mode # "none" /\ meta'[o.t].schema = FirstSchema
           /\ meta'[o.t].spec = o.spec /\ meta'[o.t].tags = {}
  <1>0. /\ o.t \in Tables /\ o.mode # "none" /\ meta = [t \in Tables |-> meta[t]]
    BY DueTable DEF OperationOK, IcebergInv, MetaInv
  <1> DEFINE m == NewTable(o)
  <1>1. m.mode = o.mode /\ m.schema = FirstSchema /\ m.spec = o.spec /\ m.tags = {}
    BY DEF NewTable
  <1>2. MetaOK(m)
    BY NewTableOK
  <1>3. CASE CommitWrite
    <2>1. PICK ms : meta'[o.t] = Committed(m, ms)
      BY <1>0, <1>3 DEF CommitWrite, Target
    <2> HIDE DEF m
    <2> QED
      BY <1>0, <1>1, <1>2, <2>1, CommittedKeeps
  <1>4. CASE AlterTable
    <2>1. meta'[o.t] = m
      BY <1>0, <1>4 DEF AlterTable, Alter
    <2> QED
      BY <1>0, <1>1, <2>1
  <1> QED
    BY <1>3, <1>4

(* The current snapshot is an ancestor of itself.                          *)
LEMMA CurrentOnLine ==
    ASSUME NEW m, MetaOK(m), m.current # 0
    PROVE  m.current \in Ancestors(m) \cap m.kept
  BY DEF MetaOK, Ancestors

LEMMA IsGiven ==
    ASSUME IcebergInv, FactsInv, ~AtEnd(Script), OperationSteps, Finish(Script),
           NEW f, f.t \in Tables, Gives(Script[cell], op, f)
    PROVE  Holds(f)'
  <1>0. /\ o = Script[cell][op] /\ f.t = o.t /\ meta = [t \in Tables |-> meta[t]]
        /\ before = [t \in Tables |-> before[t]]
    BY DEF o, Gives, IcebergInv, MetaInv, FactsInv
  <1>1. CASE f.is = "gone"
    <2>1. o.op \in {"drop", "clear"}
      BY <1>0, <1>1 DEF Gives
    <2>2. meta'[f.t] = NoTable
      BY <1>0, <2>1, DoneBy DEF DropTable
    <2> QED
      BY <1>1, <2>2 DEF Holds, NoTable
  <1>2. CASE f.is \in {"there", "untagged", "column", "nocolumn", "nofield"}
    <2>1. /\ o.op = "create"
          /\ f.is = "column" => f.c \in DOMAIN FirstSchema
          /\ f.is = "nocolumn" => f.c \notin DOMAIN FirstSchema
          /\ f.is = "nofield" => f.c \notin ToSet(o.spec)
      BY <1>0, <1>2 DEF Gives
    <2>2. /\ meta'[f.t].mode # "none" /\ meta'[f.t].schema = FirstSchema
          /\ meta'[f.t].spec = o.spec /\ meta'[f.t].tags = {}
      BY <1>0, <2>1, DoneBy, Creates
    <2> QED
      BY <1>2, <2>1, <2>2 DEF Holds
  <1>3. CASE f.is = "filled"
    <2>1. o.op = "insert" /\ 1 \in DOMAIN o.rows
      BY <1>0, <1>3 DEF Gives, Fills
    <2>2. CommitWrite /\ MetaOK(meta[o.t]) /\ Target = meta[o.t]
      BY <2>1, DoneBy, DueTable DEF Target
    <2>3. PICK ms : meta'[f.t] = Committed(meta[o.t], ms)
      BY <1>0, <2>2 DEF CommitWrite
    <2>4. meta'[f.t].current # 0
      BY <2>2, <2>3, CommittedIs
    <2> QED
      BY <1>3, <2>4 DEF Holds
  <1>4. CASE f.is = "back"
    <2>1. o.op = "remember" /\ op > 1 /\ Fills(Script[cell][op - 1], f.t)
      BY <1>0, <1>4 DEF Gives
    <2>2. KernelStep /\ status = "ready"
      BY <2>1, DoneBy DEF KernelStep, DueOp, Due
    <2> DEFINE g == Fact("filled", f.t, "all")
    <2>3. g.is = "filled" /\ g.t = f.t
      BY DEF Fact
    <2> HIDE DEF g
    <2>4. /\ cell \in DOMAIN Script /\ op - 1 \in DOMAIN Script[cell] /\ cell \in Nat
          /\ DOMAIN Script[cell] \subseteq Nat /\ DOMAIN Script \subseteq Nat /\ op \in Nat
      <3>1. cell \in 1 .. Len(Script) /\ op \in 1 .. Len(Script[cell])
        BY DueFacts DEF IcebergInv
      <3>2. Len(Script) \in Nat /\ Len(Script[cell]) \in Nat
        BY <3>1, Scripts DEF ScriptOK, IcebergInv, KernelInv, Script
      <3> QED
        BY <2>1, <3>1, <3>2
    <2>5. Gives(Script[cell], op - 1, g)
      BY <2>1, <2>3 DEF Gives, Fills
    <2>6. \A k \in DOMAIN Script : \A l \in DOMAIN Script[k] :
              ~(Earlier(cell, op - 1, k, l) /\ Earlier(k, l, cell, op))
      <3> SUFFICES ASSUME NEW k \in DOMAIN Script, NEW l \in DOMAIN Script[k],
                          Earlier(cell, op - 1, k, l), Earlier(k, l, cell, op)
                   PROVE  FALSE
        OBVIOUS
      <3>1. k = cell
        BY <2>4 DEF Earlier
      <3> QED
        BY <2>4, <3>1 DEF Earlier
    <2>7. Given(Script, cell, op - 1, cell, op, g)
      BY <2>4, <2>5, <2>6 DEF Given, Earlier
    <2>8. Assured(g)
      BY <2>2, <2>4, <2>7 DEF Assured
    <2>9. meta[f.t].current # 0
      BY <2>3, <2>8 DEF FactsInv, Holds
    <2>10. before'[f.t] = meta[f.t] /\ meta' = meta
      BY <1>0, <2>1, <2>2 DEF KernelStep, tableVars
    <2>11. meta[f.t].current \in Ancestors(meta[f.t]) \cap meta[f.t].kept
      BY <2>9, CurrentOnLine DEF IcebergInv, MetaInv
    <2>12. Ancestors(meta'[f.t]) = Ancestors(meta[f.t])
      BY <2>10
    <2> QED
      BY <1>4, <2>10, <2>11, <2>12 DEF Holds
  <1>5. CASE f.is = "found"
    <2>1. o.op = "list"
      BY <1>0, <1>5 DEF Gives
    <2>2. strays' = disk[f.t] \ real /\ disk' = disk
      BY <1>0, <2>1, DoneBy DEF KernelStep, tableVars
    <2> QED
      BY <1>5, <2>2 DEF Holds
  <1> QED
    BY <1>1, <1>2, <1>3, <1>4, <1>5 DEF Gives

-----------------------------------------------------------------------------
(* WHERE THE KERNEL GOES.  What is assured after a step was assured before *)
(* it, or is given by the operation that was done.                         *)
LEMMA Places ==
    ASSUME IcebergInv
    PROVE  /\ DOMAIN Script \subseteq Nat \ {0} /\ cell \in Nat /\ op \in Nat
           /\ \A k \in DOMAIN Script : /\ Len(Script[k]) \in Nat
                                       /\ DOMAIN Script[k] = 1 .. Len(Script[k])
           /\ ~AtEnd(Script) => cell \in DOMAIN Script /\ op \in DOMAIN Script[cell]
  <1>1. ScriptOK(Script)
    BY Scripts DEF IcebergInv, KernelInv, Script
  <1>2. /\ Len(Script) \in Nat /\ DOMAIN Script = 1 .. Len(Script)
        /\ \A k \in DOMAIN Script : /\ Len(Script[k]) \in Nat
                                    /\ DOMAIN Script[k] = 1 .. Len(Script[k])
    BY <1>1 DEF ScriptOK
  <1>3. cell \in Nat /\ op \in Nat
    BY <1>2 DEF IcebergInv, KernelInv, KernelTypeOK
  <1> QED
    BY <1>2, <1>3, DueFacts DEF IcebergInv

LEMMA AfterFinish ==
    ASSUME IcebergInv, ~AtEnd(Script), Finish(Script), NEW f, Assured(f)'
    PROVE  Gives(Script[cell], op, f) \/ (Assured(f) /\ ~Breaks(o, f))
  <1>0. Script' = Script /\ retried' = retried
    BY DEF Finish, Script
  <1>a. PICK a \in DOMAIN Script : \E b \in DOMAIN Script[a] :
            /\ Given(Script, a, b, cell', op', f)
            /\ a < cell' /\ cell' \in retried => \A x \in Range(Script[cell']) : ~Breaks(x, f)
    BY <1>0 DEF Assured
  <1>1. PICK b \in DOMAIN Script[a] :
            /\ Given(Script, a, b, cell', op', f)
            /\ a < cell' /\ cell' \in retried => \A x \in Range(Script[cell']) : ~Breaks(x, f)
    BY <1>a
  <1>2. /\ a \in Nat /\ b \in Nat \ {0} /\ cell \in Nat /\ op \in Nat
        /\ DOMAIN Script \subseteq Nat
        /\ \A k \in DOMAIN Script : DOMAIN Script[k] \subseteq Nat \ {0}
        /\ cell \in DOMAIN Script /\ op \in DOMAIN Script[cell]
    BY Places
  <1>3. Gives(Script[a], b, f) /\ Earlier(a, b, cell', op')
    BY <1>1 DEF Given
  <1>4. \/ op' = op + 1 /\ cell' = cell
        \/ /\ op' = 1 /\ cell' = cell + 1
           /\ \A l \in DOMAIN Script[cell] : l <= op
    BY <1>2, Places DEF Finish
  <1>5. \A k \in Nat, l \in Nat \ {0} : Earlier(k, l, cell, op) => Earlier(k, l, cell', op')
    BY <1>2, <1>4 DEF Earlier
  <1>6. Earlier(cell, op, cell', op')
    BY <1>2, <1>4 DEF Earlier
  <1>7. CASE a = cell /\ b = op
    BY <1>3, <1>7
  <1>8. CASE ~(a = cell /\ b = op)
    <2>1. Earlier(a, b, cell, op)
      BY <1>2, <1>3, <1>4, <1>8 DEF Earlier
    <2>2. ~Breaks(o, f)
      BY <1>1, <1>2, <1>6, <2>1 DEF Given, o
    <2>3. Given(Script, a, b, cell, op, f)
      BY <1>1, <1>2, <1>3, <1>5, <2>1 DEF Given
    <2>4. ASSUME a < cell, cell \in retried, NEW x \in Range(Script[cell]) PROVE ~Breaks(x, f)
      <3>1. CASE cell' = cell
        BY <1>1, <2>4, <3>1
      <3>2. CASE cell' = cell + 1
        <4>1. PICK l \in DOMAIN Script[cell] : x = Script[cell][l]
          BY <2>4 DEF Range
        <4>2. Earlier(a, b, cell, l) /\ Earlier(cell, l, cell', op')
          BY <1>2, <2>4, <3>2 DEF Earlier
        <4> QED
          BY <1>1, <1>2, <4>1, <4>2 DEF Given
      <3> QED
        BY <1>4, <3>1, <3>2
    <2>5. Assured(f)
      BY <1>1, <2>2, <2>3, <2>4 DEF Assured
    <2> QED
      BY <2>2, <2>5
  <1> QED
    BY <1>7, <1>8

LEMMA AfterGoOn ==
    ASSUME UNCHANGED <<notebook, cell, op, retried>>, status' # "ready", NEW f, Assured(f)'
    PROVE  Assured(f) /\ ~Breaks(o, f)
  <1>1. Script' = Script /\ o' = o
    BY SameOperation DEF Script
  <1> QED
    BY <1>1 DEF Assured

LEMMA AfterRetry ==
    ASSUME IcebergInv, RetryCell, NEW f, Assured(f)'
    PROVE  Assured(f)
  <1>0. /\ Script' = Script /\ cell' = cell /\ op' = 1 /\ retried' = retried \cup {cell}
        /\ status \in {"failed", "rejected"}
    BY DEF RetryCell, Script
  <1>a. PICK a \in DOMAIN Script : \E b \in DOMAIN Script[a] :
            /\ Given(Script, a, b, cell, 1, f)
            /\ a < cell => \A x \in Range(Script[cell]) : ~Breaks(x, f)
    BY <1>0 DEF Assured
  <1>1. PICK b \in DOMAIN Script[a] :
            /\ Given(Script, a, b, cell, 1, f)
            /\ a < cell => \A x \in Range(Script[cell]) : ~Breaks(x, f)
    BY <1>a
  <1>2. /\ a \in Nat /\ b \in Nat \ {0} /\ cell \in Nat /\ op \in Nat
        /\ DOMAIN Script \subseteq Nat
        /\ \A k \in DOMAIN Script : DOMAIN Script[k] \subseteq Nat \ {0}
    BY Places
  <1>3. ~AtEnd(Script) /\ cell \in DOMAIN Script /\ op \in DOMAIN Script[cell]
    BY <1>0, Places DEF IcebergInv, KernelInv
  <1>4. a < cell
    BY <1>1, <1>2 DEF Given, Earlier
  <1>5. \A l \in DOMAIN Script[cell] : ~Breaks(Script[cell][l], f)
    BY <1>1, <1>4 DEF Range
  <1>6. Given(Script, a, b, cell, op, f)
    <2>1. ASSUME NEW k \in DOMAIN Script, NEW l \in DOMAIN Script[k],
                 Earlier(a, b, k, l), Earlier(k, l, cell, op)
          PROVE  ~Breaks(Script[k][l], f)
      <3>1. CASE k = cell
        BY <1>5, <3>1
      <3>2. CASE k # cell
        BY <1>1, <1>2, <2>1, <3>2 DEF Given, Earlier
      <3> QED
        BY <3>1, <3>2
    <2> QED
      BY <1>1, <1>4, <2>1 DEF Given, Earlier
  <1>7. ~Breaks(o, f)
    BY <1>3, <1>5 DEF o
  <1> QED
    BY <1>1, <1>6, <1>7 DEF Assured

LEMMA AfterFromTop ==
    ASSUME IcebergInv, FromTop, NEW f
    PROVE  ~Assured(f)'
  <1>1. Script' = Script /\ cell' = 1 /\ op' = 1
    BY DEF FromTop, Script
  <1>2. \A a \in DOMAIN Script : \A b \in DOMAIN Script[a] : ~Earlier(a, b, 1, 1)
    <2>1. \A a \in DOMAIN Script : a \in Nat \ {0} /\ \A b \in DOMAIN Script[a] : b \in Nat \ {0}
      BY Places
    <2> QED
      BY <2>1 DEF Earlier
  <1> QED
    BY <1>1, <1>2 DEF Assured, Given

(* The steps that go on in the same operation, or to the next one.         *)
LEMMA WorksMove ==
    ASSUME OperationSteps
    PROVE  /\ ~AtEnd(Script)
           /\ Finish(Script) \/ (UNCHANGED <<notebook, cell, op, retried>> /\ status' # "ready")
  <1>1. CASE WriteFiles \/ CommitWrite \/ StrayWrite \/ AlterTable
    BY <1>1 DEF WriteFiles, CommitWrite, StrayWrite, AlterTable, DueOp, Due, GoOn
  <1>2. CASE ExpireSnapshots \/ Reclaim \/ RemoveOld \/ DropTable \/ KernelStep
    BY <1>2 DEF ExpireSnapshots, Reclaim, RemoveOld, DropTable, KernelStep, DueOp, Due, GoOn
  <1> QED
    BY <1>1, <1>2 DEF OperationSteps

LEMMA FactsLast ==
    ASSUME IcebergInv, FactsInv, [Next]_vars, NEW f, f.t \in Tables, Assured(f)'
    PROVE  Holds(f)'
  <1>0. Assured(f) => Holds(f)
    BY DEF FactsInv
  <1>1. CASE OperationSteps
    <2>1. ~AtEnd(Script)
      BY <1>1, WorksMove
    <2>2. CASE Gives(Script[cell], op, f) /\ Finish(Script)
      BY <1>1, <2>1, <2>2, IsGiven
    <2>3. CASE Assured(f) /\ ~Breaks(o, f)
      <3>1. StepKeeps(f)
        <4>1. CASE f.t # o.t
          BY <1>1, <2>1, <4>1, OfOtherTables DEF OperationSteps
        <4>2. CASE f.t = o.t
          BY <1>1, <4>2, OfWrites, OfCommits, OfAlterations, OfExpiry, OfKernelSteps
             DEF OperationSteps
        <4> QED
          BY <4>1, <4>2
      <3> QED
        BY <1>0, <2>3, <3>1 DEF StepKeeps
    <2> QED
      BY <1>1, <2>1, <2>2, <2>3, WorksMove, AfterFinish, AfterGoOn
  <1>2. CASE Reject \/ Crash
    <2>1. UNCHANGED <<notebook, cell, op, retried>> /\ status' # "ready"
      BY <1>2 DEF Reject, Crash, Die, GoOn, Fault
    <2> QED
      BY <1>0, <1>2, <2>1, AfterGoOn, OfQuietSteps
  <1>3. CASE Retry
    BY <1>0, <1>3, AfterRetry, OfQuietSteps DEF Retry
  <1>4. CASE FromTheTop
    BY <1>4, AfterFromTop DEF FromTheTop
  <1>5. CASE UNCHANGED vars
    <2>1. Assured(f)
      BY <1>5 DEF Assured, vars, kernelVars, o, Script
    <2> QED
      BY <1>0, <1>5, <2>1, OfQuietSteps
  <1> QED
    BY <1>1, <1>2, <1>3, <1>4, <1>5 DEF Next, OperationSteps

LEMMA FactsInvNext == IcebergInv /\ FactsInv /\ [Next]_vars => FactsInv'
  <1> SUFFICES ASSUME IcebergInv, FactsInv, [Next]_vars PROVE FactsInv'
    OBVIOUS
  <1>1. \A f : f.t \in Tables /\ Assured(f)' => Holds(f)'
    BY FactsLast
  <1>2. (before = [t \in Tables |-> before[t]])'
    <2>1. before' = before \/ KernelStep \/ before' = [t \in Tables |-> NoTable]
      BY DEF Next, WriteFiles, CommitWrite, StrayWrite, AlterTable, ExpireSnapshots, Reclaim,
             RemoveOld, DropTable, Reject, Crash, Retry, FromTheTop, memoryVars, vars
    <2> QED
      BY <2>1 DEF KernelStep, FactsInv
  <1>3. (status = "expired" => o.op = "expire" /\ (~o.now => doomed = {}))'
    <2>1. CASE ExpireSnapshots
      <3>1. o' = o /\ o.op = "expire"
        BY <2>1, SameOperation DEF ExpireSnapshots, GoOn, DueOp
      <3>2. ~o.now => doomed' = {}
        BY <2>1 DEF ExpireSnapshots, Retained, Unpinned, KeptFiles
      <3> QED
        BY <3>1, <3>2
    <2>2. CASE UNCHANGED vars
      BY <2>2 DEF vars, kernelVars, tableVars, FactsInv, o, Script
    <2>3. CASE ~ExpireSnapshots /\ ~UNCHANGED vars
      <3>1. status' # "expired"
        BY <2>3 DEF Next, WriteFiles, CommitWrite, StrayWrite, AlterTable, Reclaim, RemoveOld,
                    DropTable, KernelStep, Reject, Crash, Die, Fault, Retry, RetryCell, FromTheTop,
                    FromTop, Finish, GoOn
      <3> QED
        BY <3>1
    <2> QED
      BY <2>1, <2>2, <2>3
  <1>4. (status = "rejected" => cell \in retried)'
    <2>1. CASE Reject
      BY <2>1, NotRefused DEF Reject, GoOn
    <2>2. CASE UNCHANGED vars
      BY <2>2 DEF vars, kernelVars, FactsInv
    <2>3. CASE ~Reject /\ ~UNCHANGED vars
      <3>1. status' # "rejected"
        BY <2>3 DEF Next, WriteFiles, CommitWrite, StrayWrite, AlterTable, ExpireSnapshots, Reclaim,
                    RemoveOld, DropTable, KernelStep, Crash, Die, Fault, Retry, RetryCell,
                    FromTheTop, FromTop, Finish, GoOn
      <3> QED
        BY <3>1
    <2> QED
      BY <2>1, <2>2, <2>3
  <1> QED
    BY <1>1, <1>2, <1>3, <1>4 DEF FactsInv

LEMMA FactsInvInit == Init => FactsInv
  <1> SUFFICES ASSUME Init PROVE FactsInv
    OBVIOUS
  <1>1. cell = 1 /\ op = 1 /\ status = "ready" /\ before = [t \in Tables |-> NoTable]
    BY DEF Init, KernelInit
  <1>2. \A a \in DOMAIN Script : \A b \in DOMAIN Script[a] : ~Earlier(a, b, 1, 1)
    <2>1. \A a \in DOMAIN Script : a \in Nat \ {0} /\ \A b \in DOMAIN Script[a] : b \in Nat \ {0}
      BY InitOK, Places
    <2> QED
      BY <2>1 DEF Earlier
  <1>3. \A f : ~Assured(f)
    BY <1>1, <1>2 DEF Assured, Given
  <1>4. before = [t \in Tables |-> before[t]]
    BY <1>1
  <1> QED
    BY <1>1, <1>3, <1>4 DEF FactsInv

(* In a cell that runs for the first time since the top no operation is    *)
(* refused, whatever earlier runs, deaths and repetitions left behind: the *)
(* cells before it have seen to all that its operations need.              *)
THEOREM RefusalsAreRetries == Spec => []RefusedOnlyOnRetry
  <1>1. FactsInv => RefusedOnlyOnRetry
    BY DEF FactsInv, RefusedOnlyOnRetry
  <1> QED
    BY <1>1, FactsInvInit, FactsInvNext, AlwaysIcebergInv, PTL DEF Spec
=============================================================================
