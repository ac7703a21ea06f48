-------------------------- MODULE IcebergNotebooks --------------------------
(***************************************************************************)
(* The Iceberg notebooks lak1 to lak10: each a script of table operations  *)
(* on at most two tables, run by a kernel whose driver may die half way.   *)
(* Spark and Iceberg are external: a write puts files in the table's       *)
(* directory and then commits a snapshot; a Hadoop catalog's commit is one *)
(* rename of the metadata.  What the notebooks read, remember, backdate    *)
(* and assert is theirs.                                                   *)
(***************************************************************************)
EXTENDS Kernel, SequencesExt

CONSTANT Notebooks    \* which of lak1 ... lak10 there are

Tables == {"t", "u"}  \* the table of a notebook, and its second one

(***************************************************************************)
(* Rows are keys with a value; counts of rows stand for the notebooks'     *)
(* hundreds.  The key decides the day and the bucket of a row.             *)
(***************************************************************************)
Row(k, v) == [k |-> k, v |-> v]
Part(spec, k) == [i \in DOMAIN spec |-> IF spec[i] = "day" THEN k \div 2 ELSE k % 2]

Op(name, t) == [op |-> name, t |-> t]

Drop(t)             == Op("drop", t)
Clear(t)            == Op("clear", t)
Created(t, mode, spec, rows) ==
    [op |-> "create", t |-> t, mode |-> mode, spec |-> spec, rows |-> rows, ctas |-> rows # <<>>]
Insert(t, rows)     == [op |-> "insert", t |-> t, rows |-> rows]
Replace(t, rows)    == [op |-> "replace", t |-> t, rows |-> rows]
Relabel(t, v)       == [op |-> "relabel", t |-> t, v |-> v]
Merge(t, k, v, new) == [op |-> "merge", t |-> t, k |-> k, v |-> v, rows |-> new]
DeleteRow(t, k)     == [op |-> "merge", t |-> t, k |-> k, v |-> "gone", rows |-> <<>>]
Compact(t, least, d) == [op |-> "compact", t |-> t, least |-> least, deletes |-> d]
Manifests(t)        == Op("manifests", t)
Expire(t, n, now)   == [op |-> "expire", t |-> t, retain |-> n, now |-> now]
Rollback(t)         == Op("rollback", t)
Tag(t)              == Op("tag", t)
AddColumn(t, c)     == [op |-> "addcolumn", t |-> t, name |-> c]
Rename(t, c, d)     == [op |-> "rename", t |-> t, name |-> c, to |-> d]
DropColumn(t, c)    == [op |-> "dropcolumn", t |-> t, name |-> c]
AddField(t, f)      == [op |-> "addfield", t |-> t, field |-> f]
Stray(t, rows)      == [op |-> "stray", t |-> t, rows |-> rows]
ListStrays(t)       == Op("list", t)
Backdate(t)         == Op("backdate", t)
RemoveOrphans(t)    == Op("orphans", t)
Remember(t)         == Op("remember", t)
Prove               == Op("prove", "t")

None == <<>>
Good == <<Row(1, "new"), Row(2, "new")>>
More == <<Row(3, "new"), Row(4, "new")>>

(* lak1: an Iceberg table and a Delta one, side by side.                   *)
Lak1Write == <<
    <<Drop("t"), Drop("u"), Created("t", "cow", None, Good), Created("u", "cow", None, Good),
      Remember("t")>>,
    <<Insert("t", More), Insert("u", More)>>>>
Lak1Evolve == <<
    <<AddColumn("t", "region"), AddColumn("u", "region")>>,
    <<Merge("t", 1, "upd", <<Row(5, "merged")>>), Merge("u", 1, "upd", <<Row(5, "merged")>>)>>,
    <<Prove>>, <<Drop("t"), Drop("u")>>>>

(* lak2: small files, and their compaction.                                *)
Lak2Break == <<
    <<Drop("t"), Created("t", "cow", None, Good)>>,
    <<Insert("t", More), Insert("t", <<Row(5, "new")>>), Remember("t")>>>>
Lak2Fix == <<<<Compact("t", 2, FALSE)>>, <<Prove>>, <<Drop("t")>>>>

(* lak3: a snapshot per write, and their expiration.                       *)
Lak3Break == <<
    <<Drop("t"), Created("t", "cow", None, Good)>>,
    <<Insert("t", More), Merge("t", 1, "upd", None), Relabel("t", "archived")>>,
    <<Remember("t")>>>>
Lak3Fix == <<<<Expire("t", 3, TRUE)>>, <<Prove>>, <<Drop("t")>>>>

(* lak4: files that no snapshot references.                                *)
Lak4KeepDir == <<                          \* mutant: no rmtree
    <<Drop("t"), Created("t", "cow", None, None), Insert("t", Good), Remember("t")>>,
    <<Stray("t", More), ListStrays("t")>>>>
Lak4Break == <<
    <<Drop("t"), Clear("t"), Created("t", "cow", None, None), Insert("t", Good), Remember("t")>>,
    <<Stray("t", More), ListStrays("t")>>>>
Lak4Fix == <<
    <<Expire("t", 1, FALSE)>>, <<Backdate("t"), RemoveOrphans("t")>>,
    <<Prove>>, <<Drop("t"), Clear("t")>>>>

(* lak5: a manifest per commit, and their rewrite.                         *)
Lak5Break == <<
    <<Drop("t"), Created("t", "cow", None, Good)>>,
    <<Insert("t", More), Insert("t", <<Row(5, "new")>>)>>, <<Remember("t")>>>>
Lak5Fix == <<<<Manifests("t")>>, <<Prove>>, <<Drop("t")>>>>

(* lak6: columns come, are renamed and go.                                 *)
Lak6Evolve == <<
    <<Drop("t"), Created("t", "cow", None, Good)>>,
    <<AddColumn("t", "region"), Insert("t", More)>>,
    <<Rename("t", "amount", "total_amount")>>,
    <<DropColumn("t", "status")>>>>
Lak6Prove == <<<<Remember("t"), AddColumn("t", "note"), Prove>>, <<Drop("t")>>>>

(* lak7: days(ts), and later a bucket as well.                             *)
Lak7Days == <<
    <<Drop("t"), Created("t", "cow", <<"day">>, None), Insert("t", Good), Insert("t", More)>>>>
Lak7Bucket == <<
    <<Remember("t"), AddField("t", "bucket"), Insert("t", <<Row(6, "new"), Row(7, "new")>>)>>,
    <<Prove>>, <<Drop("t")>>>>

(* lak8: one MERGE, copied on write in t and merged on read in u.          *)
Lak8Cow == <<
    <<Drop("t"), Created("t", "cow", <<"bucket">>, Good \o More)>>,
    <<Merge("t", 1, "corrected", None)>>>>
Lak8Mor == <<
    <<Drop("u"), Created("u", "mor", <<"bucket">>, Good \o More)>>,
    <<Merge("u", 1, "corrected", None)>>,
    <<Compact("u", 5, TRUE)>>, <<Prove>>, <<Drop("t"), Drop("u")>>>>

(* lak9: a bad overwrite rolled back; one whose past has expired.          *)
Lak9Recover == <<
    <<Drop("t"), Created("t", "cow", None, Good), Insert("t", More), Remember("t")>>,
    <<Replace("t", <<Row(1, "corrupt")>>)>>, <<Rollback("t")>>, <<Prove>>>>
Lak9Gotcha == <<
    <<Drop("u"), Created("u", "cow", None, Good), Remember("u"), Relabel("u", "bad"),
      Expire("u", 1, TRUE), Prove, Drop("u")>>, <<Drop("t"), Drop("u")>>>>

(* lak10: the metadata tree; deletes in v2 and in v1; a tag.               *)
Lak10KeepTwin == <<                        \* mutant: the twin is not dropped
    <<Drop("t"), Created("t", "mor", <<"day">>, None), Insert("t", Good), Insert("t", More)>>,
    <<DeleteRow("t", 1)>>>>
Lak10Write == <<
    <<Drop("t"), Drop("u"), Created("t", "mor", <<"day">>, None),
      Insert("t", Good), Insert("t", More)>>,
    <<DeleteRow("t", 1)>>>>
Lak10Tag == <<
    <<Created("u", "cow", None, None), Insert("u", Good), DeleteRow("u", 1)>>,
    <<Tag("t")>>, <<Prove>>, <<Drop("t"), Drop("u")>>>>

Cells == [lak1 |-> Lak1Write \o Lak1Evolve, lak2 |-> Lak2Break \o Lak2Fix,
          lak3 |-> Lak3Break \o Lak3Fix,    lak4 |-> Lak4Break \o Lak4Fix,
          lak5 |-> Lak5Break \o Lak5Fix,    lak6 |-> Lak6Evolve \o Lak6Prove,
          lak7 |-> Lak7Days \o Lak7Bucket,  lak8 |-> Lak8Cow \o Lak8Mor,
          lak9 |-> Lak9Recover \o Lak9Gotcha, lak10 |-> Lak10Write \o Lak10Tag]

Script == Cells[notebook]
o == Script[cell][op]          \* the operation that is due

ASSUME NotebooksAssumption == Notebooks # {} /\ Notebooks \subseteq DOMAIN Cells

VARIABLES
    meta,      \* per table, its metadata
    disk,      \* per table, the files in its directory
    staged,    \* what the write in progress will commit
    doomed,    \* files that the expiry in progress will delete
    writes,    \* how many writes there were: files are named after them
    before,    \* the kernel's: a table as it remembers it
    real,      \* the kernel's: disk_files() at that time
    strays,    \* the kernel's: what it takes for orphans
    old        \* files whose mtime is days ago

tableVars  == <<meta, disk, staged, doomed, writes>>
memoryVars == <<before, real, strays, old>>
vars == <<kernelVars, tableVars, memoryVars>>

-----------------------------------------------------------------------------
(* Tables.  A file is named after its write and its partition; a delete    *)
(* file names the positions of other files' rows.  The manifests of a      *)
(* snapshot hold its files; columns are known by ids.                      *)

FirstSchema == [order_id |-> 1, amount |-> 2, status |-> 3]

NewTable(c) ==
    [mode |-> c.mode, spec |-> c.spec, schema |-> FirstSchema, lastId |-> 3,
     snaps |-> <<>>, kept |-> {}, current |-> 0, tags |-> {}]

NoTable == NewTable([mode |-> "none", spec |-> None])
Exists(t) == meta[t] # NoTable

FilesAt(m, i) == IF i = 0 THEN {} ELSE UNION m.snaps[i].manifests
CurrentFiles(m) == FilesAt(m, m.current)
KeptFiles(m) == UNION {FilesAt(m, i) : i \in m.kept}

Name(f) == <<f.n, f.part>>
IsData(f) == f.kills = {}

(* The rows that a reader of these files gets, as <<file, position>>.      *)
Copies(files) == UNION {{f} \X DOMAIN f.rows : f \in files}
Live(files) == {x \in Copies(files) : \A d \in files : <<Name(x[1]), x[2]>> \notin d.kills}

RowOf(x) == x[1].rows[x[2]]
RowsOf(xs) == FoldSet(LAMBDA x, rows : Append(rows, RowOf(x)), <<>>, xs)

(* Rows as a bag.                                                          *)
Bag(files) ==
    LET live == Live(files)
    IN  [r \in {RowOf(x) : x \in live} |-> Cardinality({x \in live : RowOf(x) = r})]

(* SELECT * FROM t VERSION AS OF i                                         *)
Read(t, i) == IF FilesAt(meta[t], i) \subseteq disk[t]
              THEN Bag(FilesAt(meta[t], i)) ELSE <<"file not found">>

File(m, p, rows, kills) ==
    [n |-> writes + 1, part |-> p, spec |-> m.spec, cols |-> Range(m.schema),
     rows |-> rows, kills |-> kills]

RowsIn(spec, p, rows) == SelectSeq(rows, LAMBDA r : Part(spec, r.k) = p)

NewFiles(m, rows) ==
    {File(m, p, RowsIn(m.spec, p, rows), {}) : p \in {Part(m.spec, r.k) : r \in ToSet(rows)}}

Plan(adds, removes) == [adds |-> adds, removes |-> removes]

(* MERGE, or DELETE: the rows with the key are updated or gone; the new    *)
(* ones are inserted where nothing matches.                                *)
MergePlan(m) ==
    LET live    == Live(CurrentFiles(m))
        hit     == {x \in live : RowOf(x).k = o.k}
        updated == IF o.v = "gone" THEN <<>>
                   ELSE [i \in DOMAIN RowsOf(hit) |-> [RowsOf(hit)[i] EXCEPT !.v = o.v]]
        added   == updated \o SelectSeq(o.rows, LAMBDA r : \A x \in live : RowOf(x).k # r.k)
        touched == {x[1] : x \in hit}
        deletes == {File(m, <<-1>>, <<>>, {<<Name(x[1]), x[2]>> : x \in hit}) :
                        y \in {h \in {1} : hit # {}}}
    IN  IF m.mode = "mor"
        THEN Plan(NewFiles(m, added) \cup deletes, {})
        ELSE Plan(NewFiles(m, RowsOf({x \in live \ hit : x[1] \in touched}) \o added), touched)

(* rewrite_data_files: the partitions with enough files or with deletes.   *)
(* Delete files that are left without a target may be dropped as well.     *)
CompactPlans(m) ==
    LET files   == CurrentFiles(m)
        data    == {f \in files : IsData(f)}
        killed(f) == \E d \in files : \E x \in d.kills : x[1] = Name(f)
        group(f) == {g \in data : g.part = f.part}
        chosen  == {f \in data : \/ Cardinality(group(f)) >= o.least
                                 \/ o.deletes /\ \E g \in group(f) : killed(g)}
        adds    == NewFiles(m, RowsOf({x \in Live(files) : x[1] \in chosen}))
        dangling == {d \in files \ data : \A x \in d.kills : x[1] \in {Name(f) : f \in chosen}}
    IN  {Plan(adds, chosen), Plan(adds, chosen \cup IF chosen = {} THEN {} ELSE dangling)}

Plans(m) ==
    CASE o.op \in {"create", "insert"} -> {Plan(NewFiles(m, o.rows), {})}
      [] o.op = "replace"              -> {Plan(NewFiles(m, o.rows), CurrentFiles(m))}
      [] o.op = "relabel" ->
             LET rows == RowsOf(Live(CurrentFiles(m)))
             IN  {Plan(NewFiles(m, [i \in DOMAIN rows |-> Row(rows[i].k, o.v)]),
                       CurrentFiles(m))}
      [] o.op = "merge"                -> {MergePlan(m)}
      [] o.op = "compact"              -> CompactPlans(m)

(* A new current snapshot.                                                 *)
Committed(m, manifests) ==
    LET id == Len(m.snaps) + 1
    IN  [m EXCEPT !.snaps = Append(@, [parent |-> m.current, manifests |-> manifests \ {{}},
                                       schema |-> m.schema]),
                  !.kept = @ \cup {id}, !.current = id]

ManifestsOf(m) == IF m.current = 0 THEN {} ELSE m.snaps[m.current].manifests

(* The current snapshot, its parent and so on: the least set with both.    *)
Ancestors(m) ==
    {i \in DOMAIN m.snaps :
        \A line \in SUBSET DOMAIN m.snaps :
            /\ m.current \in line \cup {0}
            /\ \A j \in line : m.snaps[j].parent \in line \cup {0}
            => i \in line}

-----------------------------------------------------------------------------
(* Writes: the files, then the commit.                                     *)

Writes == {"insert", "replace", "relabel", "merge", "compact"}
Writing == o.op \in Writes \/ (o.op = "create" /\ o.ctas)
Target == IF o.op = "create" THEN NewTable(o) ELSE meta[o.t]

(* What the catalog refuses.                                               *)
Refused ==
    \/ (o.op = "create" /\ Exists(o.t))
    \/ /\ o.op \notin {"create", "drop", "clear", "stray", "list", "backdate", "remember", "prove"}
       /\ ~Exists(o.t)
    \/ o.op = "tag" /\ (meta[o.t].tags # {} \/ meta[o.t].current = 0)
    \/ o.op = "rollback" /\ before[o.t].current \notin Ancestors(meta[o.t]) \cap meta[o.t].kept
    \/ o.op = "addcolumn" /\ o.name \in DOMAIN meta[o.t].schema
    \/ o.op \in {"rename", "dropcolumn"} /\ o.name \notin DOMAIN meta[o.t].schema
    \/ o.op = "addfield" /\ o.field \in ToSet(meta[o.t].spec)
    \/ o.op = "backdate" /\ ~ strays \subseteq disk[o.t]

DueOp(ops) == Due(Script, "ready") /\ o.op \in ops /\ ~Refused

Reject == Due(Script, "ready") /\ Refused /\ GoOn("rejected") /\ UNCHANGED <<tableVars, memoryVars>>

WriteFiles ==
    /\ Due(Script, "ready") /\ Writing /\ ~Refused
    /\ \E plan \in Plans(Target) :
           IF plan = Plan({}, {})
           THEN Finish(Script) /\ UNCHANGED tableVars
           ELSE /\ staged' = plan
                /\ disk' = [disk EXCEPT ![o.t] = @ \cup plan.adds]
                /\ writes' = writes + 1
                /\ GoOn("written")
                /\ UNCHANGED <<meta, doomed>>
    /\ UNCHANGED memoryVars

CommitWrite ==
    /\ Due(Script, "written")
    /\ LET added == {{f \in staged.adds : IsData(f)}, {f \in staged.adds : ~IsData(f)}}
           stay  == {fs \ staged.removes : fs \in ManifestsOf(Target)}
       IN  meta' = [meta EXCEPT ![o.t] = Committed(Target, stay \cup added)]
    /\ staged' = Plan({}, {})
    /\ Finish(Script)
    /\ UNCHANGED <<disk, doomed, writes, memoryVars>>

(* Straight into the data directory.                                       *)
StrayWrite ==
    /\ DueOp({"stray"})
    /\ disk' = [disk EXCEPT ![o.t] = @ \cup NewFiles(NoTable, o.rows)]
    /\ writes' = writes + 1
    /\ Finish(Script)
    /\ UNCHANGED <<meta, staged, doomed, memoryVars>>

-----------------------------------------------------------------------------
(* Operations on metadata: one commit.                                     *)

Alter(m) ==
    CASE o.op = "create"     -> NewTable(o)
      [] o.op = "rollback"   -> [m EXCEPT !.current = before[o.t].current]
      [] o.op = "tag"        -> [m EXCEPT !.tags = {m.current}]
      [] o.op = "addcolumn"  ->
             [m EXCEPT !.lastId = @ + 1,
                       !.schema = [c \in DOMAIN @ \cup {o.name} |->
                                       IF c = o.name THEN m.lastId + 1 ELSE @[c]]]
      [] o.op = "rename"     ->
             [m EXCEPT !.schema = [c \in (DOMAIN @ \ {o.name}) \cup {o.to} |->
                                       IF c = o.to THEN @[o.name] ELSE @[c]]]
      [] o.op = "dropcolumn" -> [m EXCEPT !.schema = Restrict(@, DOMAIN @ \ {o.name})]
      [] o.op = "addfield"   -> [m EXCEPT !.spec = Append(@, o.field)]
      [] o.op = "manifests"  ->
             LET files == CurrentFiles(m)
             IN  IF Cardinality(ManifestsOf(m)) <= 1 THEN m
                 ELSE Committed(m, {{f \in files : IsData(f)}, {f \in files : ~IsData(f)}})

AlterTable ==
    /\ DueOp({"create", "rollback", "tag", "addcolumn", "rename", "dropcolumn", "addfield",
              "manifests"})
    /\ ~Writing
    /\ meta' = [meta EXCEPT ![o.t] = Alter(@)]
    /\ Finish(Script)
    /\ UNCHANGED <<disk, staged, doomed, writes, memoryVars>>

(* expire_snapshots: what current and the tags name stays, and so do the   *)
(* newest of current's ancestors; without older_than only what is five     *)
(* days old goes, which nothing is.                                        *)
Retained(m) ==
    LET line == Ancestors(m) \cap m.kept
    IN  IF o.now
        THEN m.tags \cup {i \in line : Cardinality({j \in line : j > i}) < o.retain}
        ELSE m.kept

UnpinnedAll(m, kept) == KeptFiles(m)       \* mutant: files of retained snapshots go too
Unpinned(m, kept) == KeptFiles(m) \ UNION {FilesAt(m, i) : i \in kept}

ExpireSnapshots ==
    /\ DueOp({"expire"})
    /\ LET m == meta[o.t]
       IN  /\ meta' = [meta EXCEPT ![o.t].kept = Retained(m)]
           /\ doomed' = Unpinned(m, Retained(m))
    /\ GoOn("expired")
    /\ UNCHANGED <<disk, staged, writes, memoryVars>>

Reclaim ==
    /\ Due(Script, "expired")
    /\ disk' = [disk EXCEPT ![o.t] = @ \ doomed]
    /\ doomed' = {}
    /\ Finish(Script)
    /\ UNCHANGED <<meta, staged, writes, memoryVars>>

(* remove_orphan_files: unreferenced and, by its mtime, old.               *)
RemoveOld ==
    /\ DueOp({"orphans"})
    /\ disk' = [disk EXCEPT ![o.t] = {f \in @ : f \in KeptFiles(meta[o.t]) \/ f \notin old}]
    /\ Finish(Script)
    /\ UNCHANGED <<meta, staged, doomed, writes, memoryVars>>

(* DROP TABLE takes the table's files, whatever else is in its directory   *)
(* it may take or leave; rmtree takes all of the directory.                *)
DropTable ==
    /\ DueOp({"drop", "clear"})
    /\ meta' = [meta EXCEPT ![o.t] = NoTable]
    /\ \E left \in IF o.op = "clear" THEN {{}}
                   ELSE {disk[o.t] \ KeptFiles(meta[o.t])} \cup {d \in {{}} : Exists(o.t)} :
           disk' = [disk EXCEPT ![o.t] = left]
    /\ Finish(Script)
    /\ UNCHANGED <<staged, doomed, writes, memoryVars>>

-----------------------------------------------------------------------------
(* What the kernel does by itself.                                         *)
KernelStep ==
    /\ DueOp({"remember", "list", "backdate", "prove"})
    /\ before' = IF o.op = "remember" THEN [before EXCEPT ![o.t] = meta[o.t]] ELSE before
    /\ real'   = IF o.op = "remember" THEN disk[o.t] ELSE real
    /\ strays' = IF o.op = "list" THEN disk[o.t] \ real ELSE strays
    /\ old'    = IF o.op = "backdate" THEN old \cup strays ELSE old
    /\ Finish(Script)
    /\ UNCHANGED tableVars

Crash ==
    /\ Die(Script)
    /\ staged' = Plan({}, {}) /\ doomed' = {}
    /\ UNCHANGED <<meta, disk, writes, memoryVars>>

Retry == RetryCell /\ UNCHANGED <<tableVars, memoryVars>>

FromTheTop ==
    /\ FromTop
    /\ before' = [t \in Tables |-> NoTable] /\ real' = {} /\ strays' = {}
    /\ UNCHANGED <<tableVars, old>>

Init ==
    /\ KernelInit(Notebooks)
    /\ meta = [t \in Tables |-> NoTable] /\ disk = [t \in Tables |-> {}]
    /\ staged = Plan({}, {}) /\ doomed = {} /\ writes = 0
    /\ before = [t \in Tables |-> NoTable] /\ real = {} /\ strays = {} /\ old = {}

Next ==
    \/ WriteFiles \/ CommitWrite \/ StrayWrite \/ AlterTable
    \/ ExpireSnapshots \/ Reclaim \/ RemoveOld \/ DropTable
    \/ KernelStep \/ Reject \/ Crash \/ Retry \/ FromTheTop

Spec == Init /\ [][Next]_vars

-----------------------------------------------------------------------------
IcebergTypeOK ==
    /\ KernelTypeOK(Script, {"written", "expired"})
    /\ \A t \in Tables :
           /\ meta[t].kept \subseteq DOMAIN meta[t].snaps
           /\ meta[t].current \in meta[t].kept \cup {0} /\ meta[t].tags \subseteq meta[t].kept
           /\ \A f \in disk[t] : f.n \in 1 .. writes
    /\ status # "written" => staged = Plan({}, {})
    /\ status # "expired" => doomed = {}

(* Each of the tables keeps the promises of an Iceberg table, wherever the *)
(* driver dies and whatever is run again: what a retained snapshot, the    *)
(* current one or a tag needs is never deleted or changed.                 *)
Promise(t) ==
    INSTANCE IcebergTable WITH
        Ids        <- Nat \ {0},
        NoSnapshot <- 0,
        snapshots  <- [i \in meta[t].kept |-> FilesAt(meta[t], i)],
        current    <- meta[t].current,
        tagged     <- meta[t].tags,
        disk       <- disk[t],
        pending    <- staged.adds \cap disk[t],
        doomed     <- doomed \cap disk[t]

ImplementsTable ==
    /\ \A t \in Tables : Promise(t)!Init
    /\ [][\A t \in Tables : [Promise(t)!Next]_(Promise(t)!vars)]_vars

(* Maintenance and schema changes, done, refused or interrupted, leave the *)
(* rows of the current snapshot what they are, and every snapshot they     *)
(* retain reads as before.                                                 *)
Maintenance == {"compact", "manifests", "expire", "tag", "orphans", "backdate", "stray",
                "addcolumn", "rename", "dropcolumn", "addfield"}

MaintenanceKeepsRows ==
    [][\A t \in Tables :
           ~AtEnd(Script) /\ o.op \in Maintenance =>
               /\ Read(t, meta[t].current)' = Read(t, meta[t].current)
               /\ \A i \in meta[t].kept :
                      i \in (meta[t].kept)' => Read(t, i)' = Read(t, i)]_vars

(* A cell that failed may have done half of what it does, so that running  *)
(* it again is refused (lak6 and lak7 alter, lak10 creates and tags); but  *)
(* from the top every notebook goes through, whatever it left behind.      *)
RefusedOnlyOnRetry == status = "rejected" => cell \in retried

-----------------------------------------------------------------------------
(* What the notebooks print or assert at the end.                          *)
BagOf(rows) ==
    [r \in ToSet(rows) |-> Cardinality({i \in DOMAIN rows : rows[i] = r})]

Current(t) == CurrentFiles(meta[t])
SameRows(t) == Read(t, meta[t].current) = Bag(CurrentFiles(before[t]))
Column(t, f, c) == meta[t].schema[c] \in f.cols

TravelledBack ==             \* lak1: the first snapshot has the first rows
    /\ Read("t", before["t"].current) = BagOf(Good)
    /\ \A f \in CurrentFiles(before["t"]) : ~Column("t", f, "region")

Compacted ==                 \* lak2: one file, one more snapshot, none expired
    /\ SameRows("t") /\ Cardinality(Current("t")) = 1
    /\ meta["t"].kept = before["t"].kept \cup {Len(before["t"].snaps) + 1}

Expired ==                   \* lak3: three snapshots, the table still whole
    SameRows("t") /\ Cardinality(meta["t"].kept) = 3

Collected ==                 \* lak4: on disk is what the metadata has, and intact
    disk["t"] = Current("t") /\ Read("t", meta["t"].current) = BagOf(Good)

Rewritten ==                 \* lak5: one manifest, the same data files
    /\ Current("t") = CurrentFiles(before["t"]) /\ Cardinality(ManifestsOf(meta["t"])) = 1
    /\ Len(meta["t"].snaps) = Len(before["t"].snaps) + 1

Evolved ==                   \* lak6: no file is written, no value is lost, v1 is v1
    /\ Current("t") = CurrentFiles(before["t"])
    /\ \A f \in Current("t") : /\ Column("t", f, "total_amount")
                               /\ Column("t", f, "region") <=> f \notin FilesAt(meta["t"], 1)
    /\ {"amount", "status"} \subseteq DOMAIN meta["t"].snaps[1].schema

Repartitioned ==             \* lak7: old files keep their spec, and pruning is sound
    /\ Current("t") \cap FilesAt(meta["t"], before["t"].current) = CurrentFiles(before["t"])
    /\ \A f \in Current("t") :
           /\ Len(f.spec) = IF f \in CurrentFiles(before["t"]) THEN 1 ELSE 2
           /\ \A i \in DOMAIN f.rows : Part(<<"day">>, f.rows[i].k)[1] = f.part[1]

Reconciled ==                \* lak8: both tables hold the same, without deletes to apply
    /\ Read("t", meta["t"].current) = Read("u", meta["u"].current)
    /\ Read("u", meta["u"].current)[Row(1, "corrected")] = 1
    /\ \A f, d \in Current("u") : \A x \in d.kills : x[1] # Name(f)

Recovered ==                 \* lak9: the table is what it was and the bad write is still
    /\ SameRows("t")         \*   in its history, with all there was; P is gone for good
    /\ Read("t", meta["t"].current) = BagOf(Good \o More)
    /\ meta["t"].kept = DOMAIN meta["t"].snaps
    /\ \E i \in meta["t"].kept : Row(1, "corrupt") \in DOMAIN Read("t", i)
    /\ before["u"] # NoTable => /\ before["u"].current \notin meta["u"].kept
                                /\ Read("u", before["u"].current) = <<"file not found">>

TaggedRelease ==             \* lak10: the tag is current; v2 has a delete file, v1 none
    /\ meta["t"].tags = {meta["t"].current}
    /\ \E f \in Current("t") : ~IsData(f)
    /\ \A f \in Current("u") : IsData(f)
    /\ Row(1, "new") \notin DOMAIN Read("t", meta["t"].current)
                            \cup DOMAIN Read("u", meta["u"].current)

(* The proofs of the notebooks hold even when the driver has died and      *)
(* cells were run again; but for lak9's second one, see HistoryGrew.       *)
Proved ==
    Due(Script, "ready") /\ o.op = "prove" =>
        CASE notebook = "lak1" -> TravelledBack   [] notebook = "lak2" -> Compacted
          [] notebook = "lak3" -> Expired         [] notebook = "lak4" -> Collected
          [] notebook = "lak5" -> Rewritten       [] notebook = "lak6" -> Evolved
          [] notebook = "lak7" -> Repartitioned   [] notebook = "lak8" -> Reconciled
          [] notebook = "lak9" -> Recovered       [] notebook = "lak10" -> TaggedRelease

(* lak9: "history grew (rollback added a commit)".  It did not: a rollback *)
(* moves the current pointer back to a snapshot there was (see README.md). *)
HistoryGrew ==
    Due(Script, "ready") /\ o.op = "prove" /\ notebook = "lak9" =>
        meta["t"].current # before["t"].current
=============================================================================
