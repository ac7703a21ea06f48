----------------------- MODULE SparkNotebooks_proofs -----------------------
(***************************************************************************)
(* Proofs about the performance notebooks spk1 to spk10, for any set of    *)
(* them, data of any size, any number of deaths, reruns and reconnects.    *)
(*                                                                         *)
(* TeardownRestores speaks of the end, and little of what it says is the   *)
(* work of the last cell alone: a resumed notebook has jumped over cells.  *)
(* SparkInv has a part for each thing that must come out.  PhaseInv says   *)
(* where a run can be that goes on from the cell that failed, so that it   *)
(* never jumps back over a cell it ran.  CodegenInv says that whoever has  *)
(* switched the code generation off is still in the cell that switches it  *)
(* on again; OverridesInv that no other override is set than those that    *)
(* the notebook's own profiles name.  FinalInv says what the last cell has *)
(* restored so far, and that it drops every view there is.                 *)
(*                                                                         *)
(* LabelsHold speaks of every run that is shown.  First, of the scripts    *)
(* alone: an operation that shows a run under a label is backed by the     *)
(* one or two before it in its cell, which set the knobs or the cache that *)
(* the label names; or the label holds under any knobs; or it is one of    *)
(* four cells that go on with what an earlier cell left (GoesOn).  Then    *)
(* LabelsInv, of the states: KnobsInv and CacheInv say that what was set   *)
(* in the cell so far still holds; SaltInv, StrategyInv and WarmInv what   *)
(* the cells that go on find, or that they cannot run; LiveInv that there  *)
(* is a session where something runs; and RunsInv that what is shown, and  *)
(* what is being measured, fits its label or is excused.                   *)
(***************************************************************************)
EXTENDS SparkNotebooks, FiniteSetTheorems, TLAPS

-----------------------------------------------------------------------------
(* THE SCRIPTS.  No profile names the code generation.  It is switched off *)
(* only after the setup, and on again in the same cell.  The last cell     *)
(* drops every view, and only restores what others have changed.           *)
SwitchesOn(x) == x = Conf("codegen", TRUE)
Switches(x) == SwitchesOn(x) \/ x = Conf("codegen", FALSE)

OrdinaryOp(x) ==
    /\ x.op # "conf"
    /\ x.op = "profile" => x.name \in DOMAIN PROFILES /\ "codegen" \notin DOMAIN x.over

(* The profile overrides no knob beyond the profiles but these.            *)
SparesOp(x, left) ==
    x.op = "profile" => {"laptop", "preferSMJ"} \cap DOMAIN x.over \subseteq left

Drops(c, v) == \E k \in 1 .. Len(c) : c[k] = DropView(v)

RestoringOp(x) ==
    x \in {Profile("tuned", NoOver), ClearCache, Rmtree} \/ x = Unpersist(x.f) \/ x = DropView(x.v)

RestoringCell(c) ==
    /\ Len(c) \in Nat \ {0} /\ \A j \in 1 .. Len(c) : RestoringOp(c[j])
    /\ \E j \in 1 .. Len(c) : c[j] = Profile("tuned", NoOver)
    /\ \E j \in 1 .. Len(c) : c[j] = ClearCache

ScriptOK(s, setup, left) ==
    /\ Len(s) \in Nat \ {0} /\ RestoringCell(s[Len(s)])
    /\ \A i \in 1 .. Len(s) :
           /\ Len(s[i]) \in Nat \ {0}
           /\ \A j \in 1 .. Len(s[i]) :
                  /\ \/ OrdinaryOp(s[i][j])
                     \/ /\ Switches(s[i][j]) /\ i > setup + 1
                        /\ \E k \in j .. Len(s[i]) : SwitchesOn(s[i][k])
                  /\ SparesOp(s[i][j], left)
                  /\ s[i][j].op = "view" => Drops(s[Len(s)], s[i][j].v)

SafeFor(x, left) == OrdinaryOp(x) /\ SparesOp(x, left) /\ x.op # "view"
SafeOp(x) == SafeFor(x, {})

LEMMA OperationsAre ==
    /\ SafeOp(Rmtree) /\ SafeOp(GetConf) /\ SafeOp(Compare) /\ SafeOp(ClearCache)
    /\ \A f : /\ SafeOp(Action(f)) /\ SafeOp(Cache(f)) /\ SafeOp(Unpersist(f))
             /\ SafeOp(DropView(f)) /\ SafeOp(Sql(f)) /\ SafeOp(WriteTable(f))
             /\ SafeOp(ReadTable(f))
    /\ \A f, g : SafeOp(Frame(f, g)) /\ OrdinaryOp(View(f, g)) /\ SparesOp(View(f, g), {}) /\ View(f, g).v = f
    /\ \A x, f, q : SafeOp(Explain(x, f, q)) /\ SafeOp(Measure(x, f, q))
  <1> USE DEF SafeOp, SafeFor, OrdinaryOp, SparesOp
  <1>1. SafeOp(Rmtree) /\ SafeOp(GetConf) /\ SafeOp(Compare) /\ SafeOp(ClearCache)
    BY DEF Rmtree, GetConf, Compare, ClearCache, Op
  <1>2. \A f : /\ SafeOp(Action(f)) /\ SafeOp(Cache(f)) /\ SafeOp(Unpersist(f))
              /\ SafeOp(DropView(f)) /\ SafeOp(Sql(f)) /\ SafeOp(WriteTable(f))
              /\ SafeOp(ReadTable(f))
    BY DEF Action, Cache, Unpersist, DropView, Sql, WriteTable, ReadTable
  <1>3. \A f, g : SafeOp(Frame(f, g)) /\ OrdinaryOp(View(f, g)) /\ SparesOp(View(f, g), {}) /\ View(f, g).v = f
    BY DEF Frame, View
  <1>4. \A x, f, q : SafeOp(Explain(x, f, q)) /\ SafeOp(Measure(x, f, q))
    BY DEF Explain, Measure
  <1> QED
    BY <1>1, <1>2, <1>3, <1>4

LEMMA ProfilesAre ==
    /\ SafeOp(Profile("tuned", NoOver)) /\ SafeOp(Profile("constrained", NoOver))
    /\ SafeFor(Profile("tuned", Laptop), {"laptop"})
    /\ SafeFor(Profile("constrained", NoSMJ), {"preferSMJ"})
    /\ \A n : SafeOp(Profile("tuned", Parts(n))) /\ SafeOp(Profile("constrained", Parts(n)))
  <1> USE DEF SafeFor, OrdinaryOp, SparesOp, Profile, PROFILES
  <1>1. SafeOp(Profile("tuned", NoOver)) /\ SafeOp(Profile("constrained", NoOver))
    BY DEF SafeOp, NoOver
  <1>2. \A n : SafeOp(Profile("tuned", Parts(n))) /\ SafeOp(Profile("constrained", Parts(n)))
    BY DEF SafeOp, Parts
  <1>3. SafeFor(Profile("tuned", Laptop), {"laptop"})
    BY DEF Laptop
  <1>4. SafeFor(Profile("constrained", NoSMJ), {"preferSMJ"})
    BY DEF NoSMJ
  <1> QED
    BY <1>1, <1>2, <1>3, <1>4

LEMMA SafeAnyway == \A x, left : SafeOp(x) => SafeFor(x, left)
  BY DEF SafeOp, SafeFor, SparesOp

CellsOf(Ops) == Seq(Seq(Ops) \ {<<>>}) \ {<<>>}

LEMMA JoinedCells == \A Ops : \A a, b \in CellsOf(Ops) : a \o b \in CellsOf(Ops)
  BY DEF CellsOf

LEMMA CellsOK ==
    ASSUME NEW Ops, NEW s \in CellsOf(Ops), NEW left, RestoringCell(s[Len(s)]),
           \A x \in Ops : /\ OrdinaryOp(x) /\ SparesOp(x, left)
                          /\ x.op = "view" => Drops(s[Len(s)], x.v)
    PROVE  \A setup : ScriptOK(s, setup, left)
  <1>1. \A T : \A c \in Seq(T) \ {<<>>} : Len(c) \in Nat \ {0} /\ \A k \in 1 .. Len(c) : c[k] \in T
    OBVIOUS
  <1>2. /\ Len(s) \in Nat \ {0} /\ \A i \in 1 .. Len(s) : s[i] \in Seq(Ops) \ {<<>>}
    BY <1>1 DEF CellsOf
  <1> QED
    BY <1>1, <1>2 DEF ScriptOK

LEMMA JoinIs ==
    ASSUME NEW T, NEW U, NEW a \in Seq(T), NEW b \in Seq(U)
    PROVE  /\ Len(a \o b) = Len(a) + Len(b) /\ Len(a) \in Nat /\ Len(b) \in Nat
           /\ \A i \in 1 .. Len(a) : (a \o b)[i] = a[i]
           /\ \A i \in 1 .. Len(b) : (a \o b)[Len(a) + i] = b[i]
  <1>1. a \in Seq(T \cup U) /\ b \in Seq(T \cup U)
    OBVIOUS
  <1> QED
    BY <1>1

LEMMA SafeCellsFor ==
    ASSUME NEW Ops, NEW s \in CellsOf(Ops), NEW left, RestoringCell(s[Len(s)]),
           \A x \in Ops : SafeFor(x, left)
    PROVE  \A setup : ScriptOK(s, setup, left)
  BY CellsOK DEF SafeFor

LEMMA SafeCells ==
    ASSUME NEW Ops, NEW s \in CellsOf(Ops), RestoringCell(s[Len(s)]), \A x \in Ops : SafeOp(x)
    PROVE  \A setup, left : ScriptOK(s, setup, left)
  <1>1. ASSUME NEW left PROVE \A setup : ScriptOK(s, setup, left)
    <2>1. \A x \in Ops : SafeFor(x, left)
      BY SafeAnyway
    <2> QED
      BY <2>1, SafeCellsFor
  <1> QED
    BY <1>1

LEMMA LastOfJoined ==
    ASSUME NEW Ops, NEW a \in CellsOf(Ops), NEW b \in CellsOf(Ops)
    PROVE  (a \o b)[Len(a \o b)] = b[Len(b)]
  BY DEF CellsOf

LEMMA TeardownIs == RestoringCell(Teardown)
  BY DEF RestoringCell, RestoringOp, Teardown

LEMMA Spk1OK == \A setup : ScriptOK(Cells.spk1, setup, {"laptop"})
  <1> DEFINE Ops == {Frame("fact", {}), Frame("dim", {}), Action("fact"),
                   Profile("constrained", NoOver), Measure("m_broken", "fact", Skew),
                   Measure("m_salt", "fact", Salty), Profile("tuned", Laptop),
                   Measure("m_aqe", "fact", Skew), Profile("tuned", NoOver),
                   Measure("m_bcast", "fact", JoinQ("skewed", "broadcast", FALSE)),
                   Compare, ClearCache}
  <1>1. \A x \in Ops : SafeFor(x, {"laptop"})
    <2>1. \A x \in Ops : SafeOp(x) \/ x = Profile("tuned", Laptop)
      BY OperationsAre, ProfilesAre
    <2> HIDE DEF Ops
    <2> QED
      BY <2>1, ProfilesAre, SafeAnyway
  <1>2. Spk1Break \in CellsOf(Ops)
    BY DEF Spk1Break, CellsOf
  <1>3. Spk1Fix \in CellsOf(Ops) /\ Spk1Fix[Len(Spk1Fix)] = Teardown
    BY DEF Spk1Fix, CellsOf, Teardown
  <1> HIDE DEF Ops
  <1> QED
    BY <1>1, <1>2, <1>3, SafeCellsFor, JoinedCells, LastOfJoined, TeardownIs DEF Cells

LEMMA Spk2OK == \A setup, left : ScriptOK(Cells.spk2, setup, left)
  <1> DEFINE Ops == {Frame("wide", {}), Profile("constrained", NoOver),
                   Measure("m_tight", "wide", AggQ(TRUE)), Profile("tuned", NoOver),
                   Measure("m_tuned", "wide", AggQ(TRUE)), Compare, ClearCache}
  <1>1. \A x \in Ops : SafeOp(x)
    BY OperationsAre, ProfilesAre
  <1>2. Spk2 \in CellsOf(Ops) /\ Spk2[Len(Spk2)] = <<ClearCache, Profile("tuned", NoOver)>>
    BY DEF Spk2, CellsOf
  <1>3. RestoringCell(<<ClearCache, Profile("tuned", NoOver)>>)
    BY DEF RestoringCell, RestoringOp
  <1> HIDE DEF Ops
  <1> QED
    BY <1>1, <1>2, <1>3, SafeCells DEF Cells

LEMMA Spk5OK == \A setup : ScriptOK(Cells.spk5, setup, {"preferSMJ"})
  <1> DEFINE Ops == {Frame("fact", {}), Frame("dim", {}), Action("dim"), Profile("tuned", NoOver),
                   Frame("bcast_join", {"fact", "dim"}), Explain("x_bcast", "bcast_join", Plain),
                   Measure("m_bcast", "bcast_join", Plain), Profile("constrained", NoOver),
                   Frame("smj_join", {"fact", "dim"}), Explain("x_smj", "smj_join", Plain),
                   Measure("m_smj", "smj_join", Plain),
                   Profile("constrained", NoSMJ), Frame("shj_join", {"fact", "dim"}),
                   Explain("x_shj", "shj_join", JoinQ("even", "shuffle_hash", FALSE)),
                   Measure("m_shj", "shj_join", JoinQ("even", "shuffle_hash", FALSE)),
                   Explain("x_hinted", "fact", JoinQ("even", "broadcast", FALSE)),
                   View("events", "fact"), View("dimension", "dim"), Sql({"events", "dimension"}),
                   Compare, DropView("events"), DropView("dimension"), ClearCache}
             T == <<DropView("events"), DropView("dimension")>> \o Teardown
  <1>1. T \in Seq(Ops) \ {<<>>} /\ Len(T) = 4 /\ T[1] = DropView("events") /\ T[2] = DropView("dimension")
        /\ T[3] = Profile("tuned", NoOver) /\ T[4] = ClearCache
    BY DEF Teardown
  <1>2. RestoringCell(T) /\ Drops(T, "events") /\ Drops(T, "dimension")
    <2> HIDE DEF T
    <2>1. \A j \in 1 .. 4 : j \in {1, 2, 3, 4}
      OBVIOUS
    <2>2. \A v : RestoringOp(DropView(v))
      BY DEF RestoringOp, DropView
    <2> QED
      BY <1>1, <2>1, <2>2 DEF RestoringCell, RestoringOp, Drops
  <1> HIDE DEF T
  <1>3. \A x \in Ops : /\ OrdinaryOp(x) /\ SparesOp(x, {"preferSMJ"})
                       /\ x.op = "view" => Drops(T, x.v)
    <2>1. \A x \in Ops : \/ SafeOp(x) \/ x = Profile("constrained", NoSMJ)
                         \/ x = View("events", "fact") \/ x = View("dimension", "dim")
      BY OperationsAre, ProfilesAre
    <2>2. \A x \in {View("events", "fact"), View("dimension", "dim")} :
              OrdinaryOp(x) /\ SparesOp(x, {"preferSMJ"}) /\ Drops(T, x.v)
      <3>1. \A f, g : SparesOp(View(f, g), {"preferSMJ"})
        BY DEF SparesOp, View
      <3> QED
        BY <1>2, <3>1, OperationsAre
    <2>3. SafeFor(Profile("constrained", NoSMJ), {"preferSMJ"})
      BY ProfilesAre
    <2> HIDE DEF Ops
    <2> QED
      BY <2>1, <2>2, <2>3, SafeAnyway DEF SafeFor
  <1>4. Spk5Join \in CellsOf(Ops)
    BY DEF Spk5Join, CellsOf
  <1>5. Spk5Hint \in CellsOf(Ops) /\ Spk5Hint[Len(Spk5Hint)] = T
    <2> HIDE DEF Ops
    <2>1. Spk5Hint = <<<<Profile("constrained", NoSMJ), Frame("shj_join", {"fact", "dim"}),
      Explain("x_shj", "shj_join", JoinQ("even", "shuffle_hash", FALSE))>>,
    <<Measure("m_shj", "shj_join", JoinQ("even", "shuffle_hash", FALSE))>>,
    <<Profile("constrained", NoOver),
      Explain("x_hinted", "fact", JoinQ("even", "broadcast", FALSE)),
      View("events", "fact"), View("dimension", "dim"), Sql({"events", "dimension"})>>,
    <<Compare>>, T>>
      BY DEF Spk5Hint, T
    <2> QED
      BY <1>1, <2>1 DEF CellsOf, Ops
  <1> HIDE DEF Ops
  <1> QED
    <2> DEFINE s == Spk5Join \o Spk5Hint
    <2>1. s \in CellsOf(Ops) /\ s[Len(s)] = T
      BY <1>4, <1>5, JoinedCells, LastOfJoined
    <2>2. Cells.spk5 = s
      BY DEF Cells
    <2> HIDE DEF s
    <2>3. \A setup : ScriptOK(s, setup, {"preferSMJ"})
      BY <1>2, <1>3, <2>1, CellsOK
    <2> QED
      BY <2>2, <2>3

LEMMA Spk3OK == \A setup, left : ScriptOK(Cells.spk3, setup, left)
  <1> DEFINE Ops == {Frame("wide_fact", {}), Frame("fact", {}), Frame("dim", {}), Action("wide_fact"),
                   Measure("m_agg", "fact", AggQ(FALSE)), Action("fact"),
                   Measure("m_limit", "wide_fact", CachedQ), Profile("tuned", NoOver),
                   Measure("m_bcast", "fact", JoinQ("even", "broadcast", FALSE)),
                   Compare, ClearCache}
  <1>1. \A x \in Ops : SafeOp(x)
    BY OperationsAre, ProfilesAre
  <1>2. Spk3Aggregate \in CellsOf(Ops)
    BY DEF Spk3Aggregate, CellsOf
  <1>3. Spk3Limit \in CellsOf(Ops) /\ Spk3Limit[Len(Spk3Limit)] = Teardown
    BY DEF Spk3Limit, CellsOf, Teardown
  <1> HIDE DEF Ops
  <1> QED
    BY <1>1, <1>2, <1>3, SafeCells, JoinedCells, LastOfJoined, TeardownIs DEF Cells

LEMMA Spk4OK == \A setup, left : ScriptOK(Cells.spk4, setup, left)
  <1> DEFINE Ops == {Frame("fact", {}), Action("fact"), Profile("constrained", NoOver),
                   Measure("m_spilling", "fact", AggQ(TRUE)),
                   Profile("constrained", Parts(200)), Measure("m_200", "fact", AggQ(TRUE)),
                   Profile("tuned", NoOver), Measure("m_tuned", "fact", AggQ(TRUE)),
                   Compare, ClearCache}
  <1>1. \A x \in Ops : SafeOp(x)
    BY OperationsAre, ProfilesAre
  <1>2. Spk4Break \in CellsOf(Ops)
    BY DEF Spk4Break, CellsOf
  <1>3. Spk4Fix \in CellsOf(Ops) /\ Spk4Fix[Len(Spk4Fix)] = Teardown
    BY DEF Spk4Fix, CellsOf, Teardown
  <1> HIDE DEF Ops
  <1> QED
    BY <1>1, <1>2, <1>3, SafeCells, JoinedCells, LastOfJoined, TeardownIs DEF Cells

LEMMA Spk6OK == \A setup : ScriptOK(Cells.spk6, setup, {"laptop"})
  <1> DEFINE Ops == {Frame("agg_a", {}), Profile("constrained", Parts(200)),
                   Measure("m_a_off", "agg_a", AggQ(FALSE)), Explain("plan", "agg_a", AggQ(FALSE)),
                   Profile("tuned", Parts(200)), Measure("m_a_on", "agg_a", AggQ(FALSE)),
                   Compare, Frame("join_b", {}), Profile("constrained", NoOver),
                   Measure("m_b_off", "join_b", Skew), Explain("plan", "join_b", Skew),
                   Profile("tuned", Laptop), Measure("m_b_on", "join_b", Skew),
                   Frame("join_c", {}), Measure("m_c_off", "join_c", Plain),
                   Explain("plan", "join_c", Plain), Profile("tuned", NoOver),
                   Measure("m_c_on", "join_c", Plain), Frame("tiny", {}),
                   Measure("m_tiny_off", "tiny", AggQ(FALSE)),
                   Measure("m_tiny_on", "tiny", AggQ(FALSE)), ClearCache}
  <1>1. \A x \in Ops : SafeFor(x, {"laptop"})
    <2> SUFFICES ASSUME NEW x \in Ops PROVE SafeOp(x) \/ x = Profile("tuned", Laptop)
      BY ProfilesAre, SafeAnyway
    <2>1. CASE x \in {Frame("agg_a", {}), Frame("join_b", {}), Frame("join_c", {}), Frame("tiny", {}),
                      Compare, ClearCache}
      BY <2>1, OperationsAre
    <2>2. CASE x \in {Measure("m_a_off", "agg_a", AggQ(FALSE)), Measure("m_a_on", "agg_a", AggQ(FALSE)),
                      Measure("m_b_off", "join_b", Skew), Measure("m_b_on", "join_b", Skew),
                      Measure("m_c_off", "join_c", Plain), Measure("m_c_on", "join_c", Plain),
                      Measure("m_tiny_off", "tiny", AggQ(FALSE)),
                      Measure("m_tiny_on", "tiny", AggQ(FALSE))}
      BY <2>2, OperationsAre
    <2>3. CASE x \in {Explain("plan", "agg_a", AggQ(FALSE)), Explain("plan", "join_b", Skew),
                      Explain("plan", "join_c", Plain)}
      BY <2>3, OperationsAre
    <2>4. CASE x \in {Profile("constrained", Parts(200)), Profile("tuned", Parts(200)),
                      Profile("constrained", NoOver), Profile("tuned", NoOver),
                      Profile("tuned", Laptop)}
      BY <2>4, ProfilesAre
    <2> QED
      BY <2>1, <2>2, <2>3, <2>4
  <1>2. /\ MeasurePlan(Profile("constrained", Parts(200)), "m_a_off", "agg_a", AggQ(FALSE))
               \in Seq(Ops) \ {<<>>}
        /\ MeasurePlan(Profile("tuned", Parts(200)), "m_a_on", "agg_a", AggQ(FALSE))
               \in Seq(Ops) \ {<<>>}
        /\ MeasurePlan(Profile("constrained", NoOver), "m_b_off", "join_b", Skew) \in Seq(Ops) \ {<<>>}
        /\ MeasurePlan(Profile("tuned", Laptop), "m_b_on", "join_b", Skew) \in Seq(Ops) \ {<<>>}
        /\ MeasurePlan(Profile("constrained", NoOver), "m_c_off", "join_c", Plain) \in Seq(Ops) \ {<<>>}
        /\ MeasurePlan(Profile("tuned", NoOver), "m_c_on", "join_c", Plain) \in Seq(Ops) \ {<<>>}
    BY DEF MeasurePlan
  <1>3. /\ \A x \in Ops : <<x>> \in Seq(Ops) \ {<<>>}
        /\ \A a, b \in Seq(Ops) \ {<<>>} : a \o b \in Seq(Ops) \ {<<>>}
    <2> HIDE DEF Ops
    <2> QED
      OBVIOUS
  <1>4. /\ Frame("agg_a", {}) \in Ops /\ Frame("join_b", {}) \in Ops /\ Frame("join_c", {}) \in Ops
        /\ Compare \in Ops
        /\ <<Frame("tiny", {}), Profile("constrained", NoOver),
             Measure("m_tiny_off", "tiny", AggQ(FALSE)), Profile("tuned", NoOver),
             Measure("m_tiny_on", "tiny", AggQ(FALSE)), Compare>> \in Seq(Ops) \ {<<>>}
        /\ Teardown \in Seq(Ops) \ {<<>>}
    BY DEF Teardown
  <1> HIDE DEF Ops
  <1>5. /\ \A x, y \in Seq(Ops) \ {<<>>} : <<x, y>> \in CellsOf(Ops)
        /\ \A x, y, z \in Seq(Ops) \ {<<>>} : <<x, y, z>> \in CellsOf(Ops)
    BY DEF CellsOf
  <1>6. Spk6Coalesce \in CellsOf(Ops) /\ Spk6Skew \in CellsOf(Ops)
    <2>1. Spk6Coalesce \in CellsOf(Ops)
      BY <1>2, <1>3, <1>4, <1>5, Zenon DEF Spk6Coalesce
    <2>2. Spk6Skew \in CellsOf(Ops)
      BY <1>2, <1>3, <1>4, <1>5, Zenon DEF Spk6Skew
    <2> QED
      BY <2>1, <2>2
  <1>7. Spk6Reopt \in CellsOf(Ops) /\ Spk6Reopt[Len(Spk6Reopt)] = Teardown
    BY <1>2, <1>3, <1>4, <1>5 DEF Spk6Reopt
  <1> QED
    BY <1>1, <1>6, <1>7, SafeCellsFor, JoinedCells, LastOfJoined, TeardownIs DEF Cells

LEMMA Spk7OK == \A setup, left : ScriptOK(Cells.spk7, setup, left)
  <1> DEFINE Ops == {Profile("tuned", NoOver), Frame("orders_src", {}), WriteTable("orders_src"),
                   ReadTable("orders"), Action("orders"), Frame("broken", {"orders"}),
                   Measure("m_broken", "broken", ScanQ(TRUE)),
                   Explain("x_broken", "broken", ScanQ(TRUE)), Frame("fixed", {"orders"}),
                   Measure("m_fixed", "fixed", ScanQ(FALSE)),
                   Explain("x_fixed", "fixed", ScanQ(FALSE)), Action("broken"), Action("fixed"),
                   Compare, Rmtree, ClearCache}
             T == <<Rmtree>> \o Teardown
  <1>1. \A x \in Ops : SafeOp(x)
    BY OperationsAre, ProfilesAre
  <1>2. Spk7Break \in CellsOf(Ops)
    BY DEF Spk7Break, CellsOf
  <1>3. /\ T \in Seq(Ops) \ {<<>>} /\ Len(T) = 3
        /\ T[1] = Rmtree /\ T[2] = Profile("tuned", NoOver) /\ T[3] = ClearCache
    BY DEF Teardown
  <1>4. Spk7Fix \in CellsOf(Ops) /\ Spk7Fix[Len(Spk7Fix)] = T
    <2>1. Spk7Fix = <<<<Frame("fixed", {"orders"}), Measure("m_fixed", "fixed", ScanQ(FALSE))>>,
                      <<Explain("x_fixed", "fixed", ScanQ(FALSE))>>,
                      <<Action("broken"), Action("fixed"), Compare>>, T>>
      BY DEF Spk7Fix
    <2> HIDE DEF T
    <2> QED
      BY <1>3, <2>1 DEF CellsOf
  <1> HIDE DEF Ops, T
  <1>5. RestoringCell(T)
    <2>1. \A j \in 1 .. 3 : j \in {1, 2, 3}
      OBVIOUS
    <2> QED
      BY <1>3, <2>1 DEF RestoringCell, RestoringOp
  <1> QED
    BY <1>1, <1>2, <1>4, <1>5, SafeCells, JoinedCells, LastOfJoined DEF Cells

LEMMA Spk8OK == \A setup, left : ScriptOK(Cells.spk8, setup, left)
  <1> DEFINE Ops == {Profile("tuned", NoOver), Frame("heavy", {}), Cache("heavy"),
                   Measure("m_first", "heavy", CachedQ), Measure("m_second", "heavy", CachedQ),
                   Unpersist("heavy"), Measure("m_uncached", "heavy", CachedQ),
                   Measure("first", "heavy", CachedQ), Measure("m_mem", "heavy", CachedQ),
                   Measure("m_mem_disk", "heavy", CachedQ), Measure("m_disk", "heavy", CachedQ),
                   Action("heavy"), Measure("m_cached", "heavy", CachedQ), Compare,
                   Frame("one_shot", {}), Cache("one_shot"), Action("one_shot"),
                   Unpersist("one_shot"), ClearCache}
             T == <<Unpersist("heavy"), Unpersist("one_shot"), ClearCache, Profile("tuned", NoOver)>>
  <1>1. \A x \in Ops : SafeOp(x)
    BY OperationsAre, ProfilesAre
  <1>2. Spk8Lazy \in CellsOf(Ops)
    BY DEF Spk8Lazy, CellsOf
  <1>3. Spk8Levels \in CellsOf(Ops)
    <2>1. \A l \in {"m_mem", "m_mem_disk", "m_disk"} : TimeLevel("first", l) \in Seq(Ops) \ {<<>>}
      BY DEF TimeLevel
    <2>2. \A a, b \in Seq(Ops) \ {<<>>} : a \o b \in Seq(Ops) \ {<<>>}
      <3> HIDE DEF Ops
      <3> QED
        OBVIOUS
    <2>3. /\ <<Compare, Unpersist("heavy")>> \in Seq(Ops) \ {<<>>}
          /\ <<Cache("heavy"), Action("heavy"), Measure("m_cached", "heavy", CachedQ), Compare,
               Unpersist("heavy")>> \in Seq(Ops) \ {<<>>}
      OBVIOUS
    <2> HIDE DEF Ops
    <2>4. \A x, y \in Seq(Ops) \ {<<>>} : <<x, y>> \in CellsOf(Ops)
      BY DEF CellsOf
    <2> QED
      BY <2>1, <2>2, <2>3, <2>4 DEF Spk8Levels
  <1>4. Spk8Release \in CellsOf(Ops) /\ Spk8Release[Len(Spk8Release)] = T
    BY DEF Spk8Release, CellsOf
  <1> HIDE DEF Ops
  <1>5. RestoringCell(T)
    <2>1. \A f : RestoringOp(Unpersist(f))
      BY DEF RestoringOp, Unpersist
    <2> QED
      BY <2>1 DEF RestoringCell, RestoringOp
  <1> HIDE DEF T
  <1> QED
    BY <1>1, <1>2, <1>3, <1>4, <1>5, SafeCells, JoinedCells, LastOfJoined DEF Cells

LEMMA Spk9OK == \A setup, left : ScriptOK(Cells.spk9, setup, left)
  <1> DEFINE A == {Profile("constrained", NoOver), Profile("constrained", Parts(8)),
                   Profile("constrained", Parts(200)), Profile("constrained", Parts(2000)),
                   Profile("tuned", NoOver), Compare, ClearCache}
             B == {Frame("events", {}), Action("events"), Explain("narrow", "events", CachedQ),
                   Explain("wide", "events", AggQ(TRUE)), Measure("p8", "events", AggQ(TRUE)),
                   Measure("p200", "events", AggQ(TRUE)), Measure("p2000", "events", AggQ(TRUE))}
             Ops == A \cup B
  <1>1. \A x \in Ops : SafeOp(x)
    <2>1. \A x \in A : SafeOp(x)
      BY OperationsAre, ProfilesAre
    <2>2. \A x \in B : SafeOp(x)
      BY OperationsAre
    <2> HIDE DEF A, B
    <2> QED
      BY <2>1, <2>2
  <1>2. Spk9Shuffle \in CellsOf(Ops)
    BY DEF Spk9Shuffle, CellsOf
  <1>3. Spk9Sweep \in CellsOf(Ops) /\ Spk9Sweep[Len(Spk9Sweep)] = Teardown
    BY DEF Spk9Sweep, CellsOf, Teardown
  <1> HIDE DEF Ops
  <1> QED
    BY <1>1, <1>2, <1>3, SafeCells, JoinedCells, LastOfJoined, TeardownIs DEF Cells

(* The code generation of spk10 is switched in the last cell but one.      *)
LEMMA Spk10OK == ScriptOK(Cells.spk10, Setup.spk10, {})
  <1> DEFINE Ops == {Profile("tuned", NoOver), Frame("fact", {}), Frame("dim", {}),
                   Explain("chained", "fact", AggQ(FALSE)), Explain("catalyst_demo", "dim", CachedQ),
                   GetConf, Explain("x_bcast", "fact", JoinQ("even", "broadcast", FALSE))}
             U == {Conf("codegen", TRUE), Conf("codegen", FALSE), Compare, ClearCache,
                   Measure("m_on", "fact", AggQ(FALSE)), Measure("m_off", "fact", AggQ(FALSE)),
                   Profile("tuned", NoOver)}
             c == <<Conf("codegen", TRUE), Measure("m_on", "fact", AggQ(FALSE)),
                    Conf("codegen", FALSE), Measure("m_off", "fact", AggQ(FALSE)),
                    Conf("codegen", TRUE), Compare>>
  <1>1. \A x \in Ops : SafeOp(x)
    BY OperationsAre, ProfilesAre
  <1>2. Spk10Plans \in CellsOf(Ops) /\ Spk10Confs \in CellsOf(Ops) /\ Len(Spk10Plans) = 4 /\ Len(Spk10Confs) = 4
    BY DEF Spk10Plans, Spk10Confs, CellsOf
  <1>3. Spk10Codegen \in CellsOf(U) /\ Spk10Codegen = <<c, Teardown>>
    BY DEF Spk10Codegen, CellsOf, Teardown
  <1>4. \A j \in 1 .. 6 : SafeOp(c[j]) \/ (Switches(c[j]) /\ j <= 5 /\ c[j].op \notin {"view", "profile"})
    <2>1. /\ Switches(c[1]) /\ c[1].op \notin {"view", "profile"} /\ Switches(c[3]) /\ c[3].op \notin {"view", "profile"}
          /\ Switches(c[5]) /\ c[5].op \notin {"view", "profile"}
      BY DEF Switches, SwitchesOn, Conf
    <2>2. SafeOp(c[2]) /\ SafeOp(c[4]) /\ SafeOp(c[6])
      BY OperationsAre
    <2> HIDE DEF c
    <2>3. \A j \in 1 .. 6 : j \in {1, 2, 3, 4, 5, 6}
      OBVIOUS
    <2> QED
      BY <2>1, <2>2, <2>3
  <1>5. Len(c) = 6 /\ SwitchesOn(c[5])
    BY DEF SwitchesOn
  <1> HIDE DEF Ops, U, c
  <1> DEFINE a == Spk10Plans \o Spk10Confs
             s == a \o Spk10Codegen
  <1>6. a \in CellsOf(Ops) /\ Len(a) = 8
    <2> DEFINE W == Seq(Ops) \ {<<>>}
    <2>1. Spk10Plans \in Seq(W) /\ Spk10Confs \in Seq(W)
      BY <1>2 DEF CellsOf
    <2> HIDE DEF W
    <2>2. Len(a) = Len(Spk10Plans) + Len(Spk10Confs)
      BY <2>1, JoinIs
    <2> QED
      BY <1>2, <2>2, JoinedCells
  <1>7. \A i \in 1 .. 8 : Len(a[i]) \in Nat \ {0} /\ \A j \in 1 .. Len(a[i]) : SafeOp(a[i][j])
    <2>1. \A T : \A d \in Seq(T) \ {<<>>} : Len(d) \in Nat \ {0} /\ \A k \in 1 .. Len(d) : d[k] \in T
      OBVIOUS
    <2>2. \A i \in 1 .. 8 : a[i] \in Seq(Ops) \ {<<>>}
      BY <1>6, <2>1 DEF CellsOf
    <2> QED
      BY <1>1, <2>1, <2>2
  <1> HIDE DEF a
  <1>8. /\ Len(s) = 10 /\ \A i \in 1 .. 8 : s[i] = a[i]
        /\ s[9] = c /\ s[10] = Teardown
    <2>1. /\ Len(s) = 8 + Len(Spk10Codegen) /\ \A i \in 1 .. 8 : s[i] = a[i]
          /\ \A i \in 1 .. Len(Spk10Codegen) : s[8 + i] = Spk10Codegen[i]
      <3> DEFINE W == Seq(Ops) \ {<<>>}
                 X == Seq(U) \ {<<>>}
      <3>1. a \in Seq(W) /\ Spk10Codegen \in Seq(X)
        BY <1>3, <1>6 DEF CellsOf
      <3> HIDE DEF W, X
      <3>2. /\ Len(a \o Spk10Codegen) = Len(a) + Len(Spk10Codegen)
            /\ \A i \in 1 .. Len(a) : (a \o Spk10Codegen)[i] = a[i]
            /\ \A i \in 1 .. Len(Spk10Codegen) : (a \o Spk10Codegen)[Len(a) + i] = Spk10Codegen[i]
        BY <3>1, JoinIs
      <3> QED
        BY <1>6, <3>2
    <2>2. Len(Spk10Codegen) = 2 /\ Spk10Codegen[1] = c /\ Spk10Codegen[2] = Teardown
      BY <1>3
    <2>3. s[8 + 1] = c /\ s[8 + 2] = Teardown
      BY <2>1, <2>2
    <2> QED
      BY <2>1, <2>2, <2>3
  <1> HIDE DEF s
  <1>9. Len(Teardown) = 2 /\ \A j \in 1 .. 2 : SafeOp(Teardown[j])
    <2>1. Len(Teardown) = 2 /\ SafeOp(Teardown[1]) /\ SafeOp(Teardown[2])
      BY OperationsAre, ProfilesAre DEF Teardown
    <2> QED
      BY <2>1
  <1>10. ASSUME NEW i \in 1 .. 10
         PROVE  /\ Len(s[i]) \in Nat \ {0}
                /\ \A j \in 1 .. Len(s[i]) :
                       /\ \/ OrdinaryOp(s[i][j])
                          \/ /\ Switches(s[i][j]) /\ i > 2 + 1
                             /\ \E k \in j .. Len(s[i]) : SwitchesOn(s[i][k])
                       /\ SparesOp(s[i][j], {}) /\ s[i][j].op # "view"
    <2>1. CASE i \in 1 .. 8
      BY <1>7, <1>8, <2>1 DEF SafeOp, SafeFor
    <2>2. CASE i = 9
      <3>1. \A j \in 1 .. 6 : j <= 5 => 5 \in j .. 6
        OBVIOUS
      <3>2. s[i] = c
        BY <1>8, <2>2
      <3>3. Len(s[i]) = 6 /\ SwitchesOn(s[i][5])
        BY <1>5, <3>2
      <3>4. \A j \in 1 .. 6 : SafeOp(s[i][j]) \/ (Switches(s[i][j]) /\ j <= 5 /\ s[i][j].op \notin {"view", "profile"})
        BY <1>4, <3>2
      <3> QED
        BY <2>2, <3>1, <3>3, <3>4 DEF SafeOp, SafeFor, SparesOp
    <2>3. CASE i = 10
      <3>1. s[i] = Teardown
        BY <1>8, <2>3
      <3>2. Len(s[i]) = 2
        BY <1>9, <3>1
      <3>3. \A j \in 1 .. Len(s[i]) : SafeOp(s[i][j])
        BY <1>9, <3>1, <3>2
      <3>4. \A j \in 1 .. Len(s[i]) : OrdinaryOp(s[i][j]) /\ SparesOp(s[i][j], {}) /\ s[i][j].op # "view"
        BY <3>3 DEF SafeOp, SafeFor
      <3> QED
        BY <3>2, <3>4
    <2> QED
      BY <2>1, <2>2, <2>3
  <1>11. ScriptOK(s, 2, {})
    <2>1. RestoringCell(s[10])
      BY <1>8, TeardownIs
    <2>2. Len(s) = 10
      BY <1>8
    <2>3. \A i \in 1 .. 10 : \A j \in 1 .. Len(s[i]) : SparesOp(s[i][j], {}) /\ (s[i][j].op = "view" => Drops(s[10], s[i][j].v))
      BY <1>10
    <2>4. \A i \in 1 .. 10 : Len(s[i]) \in Nat \ {0}
      BY <1>10
    <2>5. \A i \in 1 .. 10 : \A j \in 1 .. Len(s[i]) :
              \/ OrdinaryOp(s[i][j])
              \/ Switches(s[i][j]) /\ i > 2 + 1 /\ \E k \in j .. Len(s[i]) : SwitchesOn(s[i][k])
      BY <1>10
    <2>6. \A i \in 1 .. Len(s) :
              /\ Len(s[i]) \in Nat \ {0}
              /\ \A j \in 1 .. Len(s[i]) :
                     /\ \/ OrdinaryOp(s[i][j])
                        \/ Switches(s[i][j]) /\ i > 2 + 1 /\ \E k \in j .. Len(s[i]) : SwitchesOn(s[i][k])
                     /\ SparesOp(s[i][j], {})
                     /\ s[i][j].op = "view" => Drops(s[Len(s)], s[i][j].v)
      BY <2>2, <2>3, <2>4, <2>5
    <2>7. Len(s) \in Nat \ {0} /\ RestoringCell(s[Len(s)])
      BY <2>1, <2>2
    <2> QED
      BY <2>6, <2>7, Zenon DEF ScriptOK
  <1>12. Setup.spk10 = 2
    BY DEF Setup
  <1> QED
    BY <1>11, <1>12 DEF Cells, s, a

LEMMA Scripts == \A n \in Notebooks : ScriptOK(Cells[n], Setup[n], LeftSet(n)) /\ Setup[n] \in Nat
  <1>1. \A n \in {"spk1", "spk2", "spk3", "spk4", "spk5"} : ScriptOK(Cells[n], Setup[n], LeftSet(n))
    <2>1. /\ Cells["spk1"] = Cells.spk1 /\ Cells["spk2"] = Cells.spk2 /\ Cells["spk3"] = Cells.spk3
          /\ Cells["spk4"] = Cells.spk4 /\ Cells["spk5"] = Cells.spk5
      OBVIOUS
    <2> QED
      BY <2>1, Spk1OK, Spk2OK, Spk3OK, Spk4OK, Spk5OK DEF LeftSet
  <1>2. \A n \in {"spk6", "spk7", "spk8", "spk9", "spk10"} : ScriptOK(Cells[n], Setup[n], LeftSet(n))
    BY Spk6OK, Spk7OK, Spk8OK, Spk9OK, Spk10OK DEF LeftSet
  <1>3. Notebooks \subseteq {"spk1", "spk2", "spk3", "spk4", "spk5", "spk6", "spk7", "spk8", "spk9",
                            "spk10"}
    BY SparkAssumption DEF Cells
  <1>4. \A n \in Notebooks : Setup[n] \in Nat
    <2>1. \A n \in {"spk1", "spk2", "spk3", "spk4", "spk5"} : Setup[n] \in Nat
      BY DEF Setup
    <2>2. \A n \in {"spk6", "spk7", "spk8", "spk9", "spk10"} : Setup[n] \in Nat
      BY DEF Setup
    <2> QED
      BY <1>3, <2>1, <2>2
  <1> QED
    BY <1>1, <1>2, <1>3, <1>4

-----------------------------------------------------------------------------
(* THE INVARIANT.  The kernel is at an operation of the script, in a phase *)
(* of that operation, unless it is at the end and has not failed.          *)
Phases == {"writing", "measuring", "polling"}

KernelInv ==
    /\ notebook \in Notebooks /\ KernelTypeOK(Script, Phases)
    /\ AtEnd(Script) => status = "ready"
    /\ failedAt \in 0 .. Len(Script)

PhaseInv ==
    /\ status = "writing" => o.op = "write"
    /\ status \in {"measuring", "polling"} => o.op = "measure"

(* The operation is yet to be done, if nothing goes wrong.                 *)
ToDo(i, j) == cell < i \/ (cell = i /\ op <= j)

ConfOK(c) == c = [k \in DOMAIN DefaultConf |-> c[k]] /\ c.codegen \in BOOLEAN

(* The code generation is on, or an operation to be done switches it on.   *)
(* Nobody resumes, and jumps over that operation, while it is off.         *)
CodegenInv ==
    /\ ConfOK(conf)
    /\ \/ conf.codegen
       \/ \E i \in 1 .. Len(Script) : \E j \in 1 .. Len(Script[i]) :
              SwitchesOn(Script[i][j]) /\ ToDo(i, j)
    /\ session = "dead" => conf.codegen
    /\ failedAt # 0 /\ cell <= Setup[notebook] + 1 => conf.codegen

(* No other override than the notebook's own is ever set.                  *)
Kept == {"laptop", "preferSMJ"} \ LeftSet(notebook)
OverridesInv == \A k \in Kept : conf[k] = DefaultConf[k]

(* The operation of the last cell is done, and no driver died since.       *)
Final == Script[Len(Script)]
Past(j) == AtEnd(Script) \/ (cell = Len(Script) /\ op > j /\ status # "failed")

Tuned == \A k \in DOMAIN PROFILES.tuned : conf[k] = PROFILES.tuned[k]

Restored(x) ==
    /\ x.op = "profile" => Tuned
    /\ x.op = "clear" => cached = NoCaches
    /\ x.op = "dropview" => x.v \notin views

FinalInv ==
    /\ \A j \in 1 .. Len(Final) : Past(j) => Restored(Final[j])
    /\ \A v \in views : Drops(Final, v)

SparkInv == KernelInv /\ PhaseInv /\ CodegenInv /\ OverridesInv /\ FinalInv

-----------------------------------------------------------------------------
(* THE KERNEL.                                                             *)
LEMMA DueFacts ==
    ASSUME KernelInv, ~AtEnd(Script)
    PROVE  /\ cell \in 1 .. Len(Script) /\ op \in 1 .. Len(Script[cell])
           /\ \/ OrdinaryOp(o)
              \/ /\ Switches(o) /\ cell > Setup[notebook] + 1
                 /\ \E k \in op .. Len(Script[cell]) : SwitchesOn(Script[cell][k])
           /\ SparesOp(o, LeftSet(notebook))
           /\ o.op = "view" => Drops(Final, o.v)
  <1>1. ScriptOK(Script, Setup[notebook], LeftSet(notebook))
    BY Scripts DEF KernelInv, Script
  <1>2. cell \in 1 .. Len(Script) /\ op \in 1 .. Len(Script[cell])
    BY <1>1 DEF KernelInv, KernelTypeOK, AtEnd, ScriptOK
  <1> QED
    BY <1>1, <1>2 DEF o, ScriptOK, Final

LEMMA ScriptFacts ==
    ASSUME KernelInv
    PROVE  /\ Len(Script) \in Nat \ {0} /\ Setup[notebook] \in Nat
           /\ \A i \in 1 .. Len(Script) : Len(Script[i]) \in Nat \ {0}
           /\ RestoringCell(Final)
  <1>1. ScriptOK(Script, Setup[notebook], LeftSet(notebook)) /\ Setup[notebook] \in Nat
    BY Scripts DEF KernelInv, Script
  <1> QED
    BY <1>1 DEF ScriptOK, Final

(* How a step may move the kernel.                                         *)
Running == ~AtEnd(Script) /\ status \notin {"failed", "rejected"}

Moves ==
    \/ Running /\ Finish(Script)
    \/ Running /\ \E phase \in Phases \cup {"rejected"} : GoOn(phase)
    \/ Running /\ \E phase \in {"measuring", "failed"} : Fault(phase)
    \/ Fault(status)
    \/ RetryCell
    \/ FromTheTop
    \/ Reconnect
    \/ Resume
    \/ UNCHANGED kernelVars

LEMMA NextMoves == [Next]_vars => Moves
  <1> SUFFICES ASSUME [Next]_vars PROVE Moves
    OBVIOUS
  <1> USE DEF Moves, Running, Phases, DueOp, Due
  <1>1. CASE Configure \/ Build \/ Act \/ ShowPlan \/ SetCache \/ SetView \/ Other
    BY <1>1 DEF Configure, Build, Act, ShowPlan, SetCache, SetView, Other
  <1>2. CASE CommitTable \/ Read \/ ReadUI
    BY <1>2 DEF CommitTable, Read, ReadUI
  <1>3. CASE Reject \/ Overwrite \/ RunMeasured
    BY <1>3 DEF Reject, Overwrite, RunMeasured
  <1>4. CASE AskUI
    BY <1>4 DEF AskUI
  <1>5. CASE DriverDies \/ Interrupt
    BY <1>5 DEF DriverDies, Interrupt, Die
  <1>6. CASE Retry \/ Elsewhere
    BY <1>6 DEF Retry, Elsewhere
  <1>7. CASE FromTheTop \/ Reconnect \/ Resume
    BY <1>7
  <1>8. CASE List \/ UNCHANGED vars
    BY <1>8 DEF List, vars
  <1> QED
    BY <1>1, <1>2, <1>3, <1>4, <1>5, <1>6, <1>7, <1>8 DEF Next

LEMMA Latest ==
    ASSUME NEW m \in Nat, NEW n \in Nat PROVE Max({m, n}) \in {m, n}
  <1>1. \E x \in {m, n} : \A y \in {m, n} : x >= y
    OBVIOUS
  <1> QED
    BY <1>1 DEF Max

(* The cell to go on with.                                                 *)
LEMMA FailedAtStays ==
    [Next]_vars => \/ failedAt' = failedAt
                   \/ failedAt' = 0 /\ (FromTheTop \/ Resume)
                   \/ failedAt' = Max({cell, failedAt}) /\ Reconnect
  <1> SUFFICES ASSUME [Next]_vars
               PROVE  \/ failedAt' = failedAt
                      \/ failedAt' = 0 /\ (FromTheTop \/ Resume)
                      \/ failedAt' = Max({cell, failedAt}) /\ Reconnect
    OBVIOUS
  <1> USE DEF auxVars
  <1>1. CASE Configure \/ Build \/ Act \/ ShowPlan \/ SetCache \/ SetView \/ Other
    BY <1>1 DEF Configure, Build, Act, ShowPlan, SetCache, SetView, Other
  <1>2. CASE CommitTable \/ Read \/ ReadUI \/ Reject \/ Overwrite \/ RunMeasured \/ AskUI
    BY <1>2 DEF CommitTable, Read, ReadUI, Reject, Overwrite, RunMeasured, AskUI
  <1>3. CASE DriverDies \/ Interrupt \/ Retry \/ FromTheTop \/ Elsewhere
    BY <1>3 DEF DriverDies, Interrupt, Retry, FromTheTop, Elsewhere
  <1>4. CASE Reconnect \/ Resume \/ List \/ UNCHANGED vars
    BY <1>4 DEF Reconnect, Resume, List, vars
  <1> QED
    BY <1>1, <1>2, <1>3, <1>4 DEF Next

LEMMA KernelPreserved ==
    KernelInv /\ [Next]_vars => KernelInv' /\ notebook' = notebook /\ Script' = Script
  <1> SUFFICES ASSUME KernelInv, [Next]_vars PROVE KernelInv' /\ notebook' = notebook
    BY DEF Script
  <1>0. Moves
    BY NextMoves
  <1>1. notebook' = notebook /\ Script' = Script
    BY <1>0 DEF Moves, Finish, GoOn, Fault, RetryCell, FromTheTop, FromTop, Reconnect, Resume,
                kernelVars, Script
  <1>2. /\ Len(Script) \in Nat \ {0} /\ \A i \in 1 .. Len(Script) : Len(Script[i]) \in Nat \ {0}
    BY ScriptFacts
  <1>3. failedAt' \in 0 .. Len(Script)
    <2>1. CASE failedAt' = failedAt \/ failedAt' = 0
      BY <1>2, <2>1 DEF KernelInv
    <2>2. CASE failedAt' = Max({cell, failedAt}) /\ Reconnect
      <3>1. cell \in 1 .. Len(Script) /\ failedAt \in 0 .. Len(Script)
        BY <2>2, DueFacts DEF KernelInv, Reconnect
      <3> QED
        BY <2>2, <3>1, Latest
    <2> QED
      BY <2>1, <2>2, FailedAtStays
  <1>4. /\ KernelTypeOK(Script, Phases)' /\ (AtEnd(Script) => status = "ready")'
    <2> USE KernelAssumption, <1>1, <1>2 DEF KernelInv, KernelTypeOK, AtEnd, Phases, Running
    <2>1. CASE Running /\ Finish(Script)
      <3>1. cell \in 1 .. Len(Script) /\ op \in 1 .. Len(Script[cell])
        BY <2>1, DueFacts
      <3>2. CASE op < Len(Script[cell])
        BY <2>1, <3>1, <3>2 DEF Finish
      <3>3. CASE ~(op < Len(Script[cell]))
        BY <2>1, <3>1, <3>3 DEF Finish
      <3> QED
        BY <3>2, <3>3
    <2>2. CASE Running /\ \E phase \in Phases \cup {"rejected"} : GoOn(phase)
      BY <2>2 DEF GoOn
    <2>3. CASE Running /\ \E phase \in {"measuring", "failed"} : Fault(phase)
      BY <2>3 DEF Fault
    <2>4. CASE Fault(status)
      BY <2>4 DEF Fault
    <2>5. CASE RetryCell
      BY <2>5, DueFacts DEF RetryCell
    <2>6. CASE FromTheTop
      BY <2>6 DEF FromTheTop, FromTop
    <2>7. CASE Reconnect
      BY <2>7, DueFacts DEF Reconnect
    <2>8. CASE Resume
      BY <2>8 DEF Resume
    <2>9. CASE UNCHANGED kernelVars
      BY <2>9 DEF kernelVars
    <2> QED
      BY <1>0, <2>1, <2>2, <2>3, <2>4, <2>5, <2>6, <2>7, <2>8, <2>9 DEF Moves
  <1> QED
    BY <1>1, <1>3, <1>4 DEF KernelInv

LEMMA PhasePreserved == KernelInv /\ PhaseInv /\ [Next]_vars => PhaseInv'
  <1> SUFFICES ASSUME KernelInv, PhaseInv, [Next]_vars PROVE PhaseInv'
    OBVIOUS
  <1>0. notebook' = notebook
    BY KernelPreserved
  <1> USE DEF PhaseInv, DueOp, Due, Finish, GoOn, Fault
  <1>1. CASE Configure \/ Build \/ Act \/ ShowPlan \/ SetCache \/ SetView \/ Other
    BY <1>1 DEF Configure, Build, Act, ShowPlan, SetCache, SetView, Other
  <1>2. CASE CommitTable \/ Read \/ ReadUI \/ Reject
    BY <1>2 DEF CommitTable, Read, ReadUI, Reject
  <1>3. ASSUME notebook' = notebook, cell' = cell, op' = op PROVE o' = o
    BY <1>3 DEF o, Script
  <1>4. CASE Overwrite
    BY <1>3, <1>4 DEF Overwrite
  <1>5. CASE AskUI
    BY <1>3, <1>5 DEF AskUI
  <1>6. CASE RunMeasured
    BY <1>3, <1>6 DEF RunMeasured
  <1>7. CASE List \/ UNCHANGED vars
    BY <1>3, <1>7 DEF List, vars, kernelVars
  <1>8. CASE Elsewhere
    BY <1>3, <1>8 DEF Elsewhere
  <1>9. CASE DriverDies \/ Interrupt
    BY <1>9 DEF DriverDies, Interrupt, Die
  <1>10. CASE Retry \/ Reconnect \/ Resume \/ FromTheTop
    BY <1>10 DEF Retry, RetryCell, Reconnect, Resume, FromTheTop, FromTop
  <1> QED
    BY <1>1, <1>2, <1>4, <1>5, <1>6, <1>7, <1>8, <1>9, <1>10 DEF Next

-----------------------------------------------------------------------------
(* THE KNOBS.  Settings leave the knobs alone that they do not name.       *)
LEMMA SetKnobsIs ==
    ASSUME NEW c, ConfOK(c), NEW knobs
    PROVE  LET d == SetKnobs(c, knobs)
           IN  /\ d = [k \in DOMAIN DefaultConf |-> d[k]]
               /\ \A k \in DOMAIN DefaultConf :
                      d[k] = IF k \in DOMAIN knobs THEN knobs[k] ELSE c[k]
  <1>1. DOMAIN c = DOMAIN DefaultConf
    BY DEF ConfOK
  <1> QED
    BY <1>1 DEF SetKnobs

LEMMA DefaultsAre == ConfOK(DefaultConf) /\ DefaultConf.codegen /\ "codegen" \in DOMAIN DefaultConf
  BY DEF ConfOK, DefaultConf

LEMMA ProfilesKeepCodegen ==
    /\ \A k \in DOMAIN PROFILES.tuned : k \in DOMAIN DefaultConf
    /\ \A n \in DOMAIN PROFILES : "codegen" \notin DOMAIN PROFILES[n]
  BY DEF PROFILES, DefaultConf

LEMMA SettingsAre ==
    ASSUME ConfOK(conf), o.op = "profile", OrdinaryOp(o)
    PROVE  ConfOK(Settings) /\ Settings.codegen = conf.codegen
  <1> DEFINE c == SetKnobs(conf, PROFILES[o.name])
             d == SetKnobs(c, o.over)
  <1>1. /\ c = [k \in DOMAIN DefaultConf |-> c[k]]
        /\ \A k \in DOMAIN DefaultConf :
               c[k] = IF k \in DOMAIN PROFILES[o.name] THEN PROFILES[o.name][k] ELSE conf[k]
    BY SetKnobsIs
  <1>2. c.codegen = conf.codegen
    BY <1>1, DefaultsAre, ProfilesKeepCodegen DEF OrdinaryOp
  <1> HIDE DEF c
  <1>3. ConfOK(c)
    BY <1>1, <1>2 DEF ConfOK
  <1>4. /\ d = [k \in DOMAIN DefaultConf |-> d[k]]
        /\ \A k \in DOMAIN DefaultConf : d[k] = IF k \in DOMAIN o.over THEN o.over[k] ELSE c[k]
    BY <1>3, SetKnobsIs
  <1>5. d.codegen = c.codegen
    BY <1>4, DefaultsAre DEF OrdinaryOp
  <1> HIDE DEF d
  <1>6. ConfOK(d)
    BY <1>2, <1>3, <1>4, <1>5 DEF ConfOK
  <1> QED
    BY <1>2, <1>5, <1>6 DEF Settings, ApplyProfile, c, d

LEMMA SwitchedIs ==
    ASSUME ConfOK(conf), Switches(o)
    PROVE  /\ o.op = "conf" /\ ConfOK(Settings)
           /\ SwitchesOn(o) <=> Settings.codegen
  <1> DEFINE v == o.over["codegen"]
  <1>1. /\ o.op = "conf" /\ DOMAIN o.over = {"codegen"} /\ v \in BOOLEAN /\ (SwitchesOn(o) <=> v)
    <2>1. CASE o = Conf("codegen", TRUE)
      BY <2>1 DEF Conf, SwitchesOn
    <2>2. CASE o = Conf("codegen", FALSE)
      <3>1. o.over["codegen"] = FALSE /\ Conf("codegen", TRUE).over["codegen"] = TRUE
        BY <2>2 DEF Conf
      <3> QED
        BY <2>2, <3>1 DEF Conf, SwitchesOn
    <2> QED
      BY <2>1, <2>2 DEF Switches, SwitchesOn
  <1> HIDE DEF v
  <1> DEFINE d == SetKnobs(conf, o.over)
  <1>2. /\ d = [k \in DOMAIN DefaultConf |-> d[k]]
        /\ \A k \in DOMAIN DefaultConf : d[k] = IF k \in DOMAIN o.over THEN o.over[k] ELSE conf[k]
    BY SetKnobsIs
  <1>3. d.codegen = v
    BY <1>1, <1>2, DefaultsAre DEF v
  <1> HIDE DEF d
  <1> QED
    BY <1>1, <1>2, <1>3 DEF ConfOK, Settings, d

LEMMA PartlySetIs ==
    ASSUME ConfOK(conf), NEW n \in 0 .. 5
    PROVE  ConfOK(PartlySet(n)) /\ PartlySet(n).codegen = conf.codegen
  <1>1. DOMAIN conf = DOMAIN DefaultConf
    BY DEF ConfOK
  <1>2. ~ \E i \in 1 .. n : Knobs[i] = "codegen"
    BY DEF Knobs
  <1>3. PartlySet(n).codegen = conf.codegen
    BY <1>1, <1>2, DefaultsAre DEF PartlySet
  <1> QED
    BY <1>1, <1>3 DEF PartlySet, ConfOK

(* What a step may do to the code generation and to the session.           *)
LEMMA ConfSteps ==
    ASSUME KernelInv, ConfOK(conf), [Next]_vars
    PROVE  /\ ConfOK(conf')
           /\ \/ conf'.codegen = conf.codegen
              \/ conf' = DefaultConf
              \/ /\ ~AtEnd(Script) /\ Switches(o) /\ Finish(Script) /\ session # "dead"
                 /\ conf'.codegen <=> SwitchesOn(o)
  <1> USE DEF auxVars, serverVars, clientVars
  <1>1. CASE conf' = conf
    BY <1>1
  <1>2. CASE conf' = DefaultConf
    BY <1>2, DefaultsAre
  <1>3. CASE Configure
    <2>1. ~AtEnd(Script) /\ o.op \in {"profile", "conf"} /\ Finish(Script) /\ ~Refused /\ conf' = Settings
      BY <1>3 DEF Configure, DueOp, Due
    <2>2. CASE OrdinaryOp(o)
      BY <2>1, <2>2, SettingsAre DEF OrdinaryOp
    <2>3. CASE Switches(o)
      <3>1. session # "dead"
        BY <2>1 DEF Refused
      <3> QED
        BY <2>1, <2>3, <3>1, SwitchedIs
    <2> QED
      BY <2>1, <2>2, <2>3, DueFacts
  <1>4. CASE Interrupt
    <2>1. conf' = conf \/ \E n \in 0 .. 5 : conf' = PartlySet(n)
      BY <1>4 DEF Interrupt
    <2> QED
      BY <2>1, PartlySetIs
  <1>5. CASE Build \/ Act \/ ShowPlan \/ SetCache \/ SetView \/ Other \/ CommitTable \/ Read \/ ReadUI
    BY <1>1, <1>5 DEF Build, Act, ShowPlan, SetCache, SetView, Other, CommitTable, Read, ReadUI
  <1>6. CASE Reject \/ Overwrite \/ RunMeasured \/ AskUI \/ List \/ UNCHANGED vars
    BY <1>1, <1>6 DEF Reject, Overwrite, RunMeasured, AskUI, List, vars
  <1>7. CASE DriverDies \/ Retry \/ Reconnect \/ Resume \/ FromTheTop \/ Elsewhere
    BY <1>1, <1>2, <1>7 DEF DriverDies, Retry, Reconnect, Resume, FromTheTop, Elsewhere
  <1> QED
    BY <1>3, <1>4, <1>5, <1>6, <1>7 DEF Next

LEMMA SwitchesIsConf == \A x : Switches(x) => x.op = "conf"
  BY DEF Switches, SwitchesOn, Conf

(* Nor to an override that is not one of the notebook.                     *)
LEMMA OverrideSteps ==
    ASSUME KernelInv, ConfOK(conf), [Next]_vars, NEW k \in Kept
    PROVE  conf'[k] = conf[k] \/ conf' = DefaultConf
  <1> USE DEF auxVars, serverVars, clientVars
  <1>1. DOMAIN conf = DOMAIN DefaultConf /\ k \in DOMAIN DefaultConf /\ k # "codegen"
    BY DEF ConfOK, Kept, DefaultConf
  <1>2. /\ \A n \in DOMAIN PROFILES : k \notin DOMAIN PROFILES[n]
        /\ ~ \E i \in 1 .. 5 : Knobs[i] = k
    BY DEF Kept, PROFILES, Knobs
  <1>3. CASE Configure
    <2>1. ~AtEnd(Script) /\ o.op \in {"profile", "conf"} /\ conf' = Settings
      BY <1>3 DEF Configure, DueOp, Due
    <2>2. CASE o.op = "profile"
      <3>1. OrdinaryOp(o)
        BY <2>1, <2>2, DueFacts, SwitchesIsConf
      <3>2. k \notin DOMAIN o.over
        <4>1. {"laptop", "preferSMJ"} \cap DOMAIN o.over \subseteq LeftSet(notebook)
          BY <2>1, <2>2, DueFacts DEF SparesOp
        <4> QED
          BY <4>1 DEF Kept
      <3> DEFINE c == SetKnobs(conf, PROFILES[o.name])
      <3>3. DOMAIN c = DOMAIN conf /\ c[k] = conf[k]
        BY <1>1, <1>2, <2>2, <3>1 DEF SetKnobs, OrdinaryOp
      <3>4. conf' = SetKnobs(c, o.over)
        BY <2>1, <2>2 DEF Settings, ApplyProfile
      <3> HIDE DEF c
      <3> QED
        BY <1>1, <3>2, <3>3, <3>4 DEF SetKnobs
    <2>3. CASE o.op = "conf"
      <3>1. DOMAIN o.over = {"codegen"}
        BY <2>1, <2>3, DueFacts DEF OrdinaryOp, Switches, SwitchesOn, Conf
      <3>2. conf' = SetKnobs(conf, o.over)
        BY <2>1, <2>3 DEF Settings
      <3> QED
        BY <1>1, <3>1, <3>2 DEF SetKnobs
    <2> QED
      BY <2>1, <2>2, <2>3
  <1>4. CASE Interrupt
    <2>1. conf' = conf \/ \E n \in 0 .. 5 : conf' = PartlySet(n)
      BY <1>4 DEF Interrupt
    <2>2. \A n \in 0 .. 5 : PartlySet(n)[k] = conf[k]
      BY <1>1, <1>2 DEF PartlySet
    <2> QED
      BY <2>1, <2>2
  <1>5. CASE Build \/ Act \/ ShowPlan \/ SetCache \/ SetView \/ Other \/ CommitTable \/ Read \/ ReadUI
    BY <1>5 DEF Build, Act, ShowPlan, SetCache, SetView, Other, CommitTable, Read, ReadUI
  <1>6. CASE Reject \/ Overwrite \/ RunMeasured \/ AskUI \/ List \/ UNCHANGED vars
    BY <1>6 DEF Reject, Overwrite, RunMeasured, AskUI, List, vars
  <1>7. CASE DriverDies \/ Retry \/ Reconnect \/ Resume \/ FromTheTop \/ Elsewhere
    BY <1>7 DEF DriverDies, Retry, Reconnect, Resume, FromTheTop, Elsewhere
  <1> QED
    BY <1>3, <1>4, <1>5, <1>6, <1>7 DEF Next

LEMMA OverridesPreserved == KernelInv /\ CodegenInv /\ OverridesInv /\ [Next]_vars => OverridesInv'
  <1> SUFFICES ASSUME KernelInv, CodegenInv, OverridesInv, [Next]_vars PROVE OverridesInv'
    OBVIOUS
  <1>1. Kept' = Kept
    BY KernelPreserved DEF Kept
  <1>2. ASSUME NEW k \in Kept PROVE conf'[k] = DefaultConf[k]
    BY <1>2, OverrideSteps DEF OverridesInv, CodegenInv
  <1> QED
    BY <1>1, <1>2 DEF OverridesInv

LEMMA SessionSteps ==
    [Next]_vars => \/ session' = session
                   \/ session' = "live"
                   \/ session' = "dead" /\ conf' = DefaultConf
  <1> SUFFICES ASSUME [Next]_vars
               PROVE  \/ session' = session
                      \/ session' = "live"
                      \/ session' = "dead" /\ conf' = DefaultConf
    OBVIOUS
  <1> USE DEF clientVars
  <1>1. CASE Configure \/ Build \/ Act \/ ShowPlan \/ SetCache \/ SetView \/ Other
    BY <1>1 DEF Configure, Build, Act, ShowPlan, SetCache, SetView, Other
  <1>2. CASE CommitTable \/ Read \/ ReadUI \/ Reject \/ Overwrite \/ RunMeasured \/ AskUI
    BY <1>2 DEF CommitTable, Read, ReadUI, Reject, Overwrite, RunMeasured, AskUI
  <1>3. CASE DriverDies \/ Interrupt \/ Retry \/ FromTheTop \/ Elsewhere
    BY <1>3 DEF DriverDies, Interrupt, Retry, FromTheTop, Elsewhere
  <1>4. CASE Reconnect \/ Resume \/ List \/ UNCHANGED vars
    BY <1>4 DEF Reconnect, Resume, List, vars
  <1> QED
    BY <1>1, <1>2, <1>3, <1>4 DEF Next

(* A step leaves to be done what is not the operation that it finishes,    *)
(* unless it jumps ahead.                                                  *)
LEMMA StillToDo ==
    ASSUME KernelInv, [Next]_vars, ~Resume,
           NEW i \in 1 .. Len(Script), NEW j \in 1 .. Len(Script[i]), ToDo(i, j),
           ~(cell = i /\ op = j /\ Finish(Script))
    PROVE  ToDo(i, j)'
  <1>0. Moves
    BY NextMoves
  <1>1. /\ cell \in Nat \ {0} /\ op \in Nat \ {0} /\ i \in Nat \ {0}
        /\ j \in Nat \ {0} /\ (cell <= Len(Script) => op \in 1 .. Len(Script[cell]))
    BY ScriptFacts DEF KernelInv, KernelTypeOK
  <1>2. Len(Script) \in Nat /\ Len(Script[i]) \in Nat
    BY ScriptFacts
  <1> USE DEF ToDo
  <1>3. CASE Finish(Script)
    <2>1. CASE cell = i
      <3>1. op < j
        BY <1>1, <1>3, <2>1
      <3>2. op < Len(Script[cell])
        BY <1>1, <1>2, <2>1, <3>1
      <3> QED
        BY <1>1, <1>3, <2>1, <3>1, <3>2 DEF Finish
    <2>2. CASE cell < i
      BY <1>1, <1>3, <2>2 DEF Finish
    <2> QED
      BY <2>1, <2>2
  <1>4. CASE \/ \E phase \in Phases \cup {"rejected"} : GoOn(phase)
             \/ \E phase \in {"measuring", "failed", status} : Fault(phase)
             \/ UNCHANGED kernelVars
    BY <1>4 DEF GoOn, Fault, kernelVars
  <1>5. CASE RetryCell
    BY <1>1, <1>5 DEF RetryCell
  <1>6. CASE FromTheTop \/ Reconnect
    BY <1>1, <1>6 DEF FromTheTop, FromTop, Reconnect
  <1> QED
    BY <1>0, <1>3, <1>4, <1>5, <1>6 DEF Moves

(* Who leaves the setup behind stays ahead of it, until the notebook       *)
(* starts again.                                                           *)
LEMMA NeverBack ==
    ASSUME KernelInv, [Next]_vars, cell' < cell PROVE Reconnect \/ FromTheTop
  <1>0. Moves
    BY NextMoves
  <1>1. cell \in Nat
    BY ScriptFacts DEF KernelInv, KernelTypeOK
  <1>2. CASE Finish(Script)
    BY <1>1, <1>2 DEF Finish
  <1>3. CASE \/ \E phase \in Phases \cup {"rejected"} : GoOn(phase)
             \/ \E phase \in {"measuring", "failed", status} : Fault(phase)
             \/ UNCHANGED kernelVars \/ RetryCell
    BY <1>1, <1>3 DEF GoOn, Fault, kernelVars, RetryCell
  <1>4. CASE Resume
    BY <1>1, <1>4 DEF Resume, KernelInv
  <1> QED
    BY <1>0, <1>2, <1>3, <1>4 DEF Moves

(* An operation on a knob is finished only by setting it.                  *)
LEMMA SwitchingFinishes ==
    ASSUME KernelInv, PhaseInv, ConfOK(conf), [Next]_vars, ~Resume,
           ~AtEnd(Script), SwitchesOn(o), Finish(Script)
    PROVE  conf'.codegen
  <1>1. o.op = "conf" /\ Switches(o)
    BY SwitchesIsConf DEF Switches
  <1>2. Configure
    <2> USE DEF DueOp, Due, PhaseInv
    <2>1. ~(Build \/ Act \/ ShowPlan \/ SetCache \/ SetView \/ Other \/ Read)
      BY <1>1 DEF Build, Act, ShowPlan, SetCache, SetView, Other, Read
    <2>2. ~(CommitTable \/ ReadUI)
      BY <1>1 DEF CommitTable, ReadUI
    <2>3. cell \in 1 .. Len(Script) /\ op \in 1 .. Len(Script[cell])
      BY DueFacts
    <2>4. status' = "ready" /\ <<cell', op'>> # <<cell, op>> /\ (cell' = cell => op' = op + 1)
      BY <2>3, ScriptFacts DEF Finish
    <2>5. ~(Reject \/ Overwrite \/ RunMeasured \/ AskUI \/ DriverDies \/ Interrupt)
      BY <2>4 DEF Reject, Overwrite, RunMeasured, AskUI, DriverDies, Interrupt, Die, GoOn, Fault
    <2>6. ~(Retry \/ Reconnect \/ FromTheTop)
      BY <2>3, <2>4, ScriptFacts DEF Retry, RetryCell, Reconnect, FromTheTop, FromTop, Finish
    <2>7. ~(List \/ Elsewhere \/ UNCHANGED vars)
      BY <2>4 DEF List, Elsewhere, Fault, vars, kernelVars
    <2> QED
      BY <2>1, <2>2, <2>5, <2>6, <2>7 DEF Next
  <1> QED
    BY <1>1, <1>2, SwitchedIs DEF Configure

LEMMA CodegenPreserved == KernelInv /\ PhaseInv /\ CodegenInv /\ [Next]_vars => CodegenInv'
  <1> SUFFICES ASSUME KernelInv, PhaseInv, CodegenInv, [Next]_vars PROVE CodegenInv'
    OBVIOUS
  <1>1. Script' = Script /\ notebook' = notebook /\ KernelInv'
    BY KernelPreserved
  <1>2. /\ ConfOK(conf')
        /\ \/ conf'.codegen = conf.codegen
           \/ conf' = DefaultConf
           \/ /\ ~AtEnd(Script) /\ Switches(o) /\ Finish(Script) /\ session # "dead"
              /\ conf'.codegen <=> SwitchesOn(o)
    BY ConfSteps DEF CodegenInv
  <1>3. CASE conf' = DefaultConf
    BY <1>2, <1>3, DefaultsAre DEF CodegenInv
  <1>4. CASE conf'.codegen = conf.codegen
    <2>1. conf'.codegen \/ \E i \in 1 .. Len(Script) : \E j \in 1 .. Len(Script[i]) :
                               SwitchesOn(Script[i][j]) /\ ToDo(i, j)'
      <3>1. CASE conf.codegen
        BY <1>4, <3>1
      <3>2. CASE ~conf.codegen
        <4>1. PICK i \in 1 .. Len(Script) : \E j \in 1 .. Len(Script[i]) :
                       SwitchesOn(Script[i][j]) /\ ToDo(i, j)
          BY <3>2 DEF CodegenInv
        <4>2. PICK j \in 1 .. Len(Script[i]) : SwitchesOn(Script[i][j]) /\ ToDo(i, j)
          BY <4>1
        <4>3. ~Resume
          BY <3>2, ScriptFacts DEF CodegenInv, Resume, KernelInv
        <4>4. ASSUME cell = i, op = j, Finish(Script) PROVE FALSE
          <5>1. ~AtEnd(Script) /\ SwitchesOn(o)
            BY <4>2, <4>4, ScriptFacts DEF AtEnd, o
          <5> QED
            BY <1>4, <3>2, <4>3, <4>4, <5>1, SwitchingFinishes DEF CodegenInv
        <4>5. ToDo(i, j)'
          BY <4>2, <4>3, <4>4, StillToDo
        <4> QED
          BY <4>2, <4>5
      <3> QED
        BY <3>1, <3>2
    <2>2. session' = "dead" => conf'.codegen
      BY <1>3, <1>4, SessionSteps, DefaultsAre DEF CodegenInv
    <2>3. failedAt' # 0 /\ cell' <= Setup[notebook] + 1 => conf'.codegen
      <3>0. cell \in Int /\ cell' \in Int /\ Setup[notebook] \in Nat
        BY <1>1, ScriptFacts DEF KernelInv, KernelTypeOK
      <3>1. CASE cell' < cell
        BY <1>4, <3>1, NeverBack DEF Reconnect, FromTheTop, CodegenInv
      <3>2. CASE cell' >= cell /\ failedAt' = failedAt
        BY <1>4, <3>0, <3>2 DEF CodegenInv
      <3>3. CASE failedAt' # failedAt
        BY <1>4, <3>3, FailedAtStays DEF Reconnect, CodegenInv
      <3> QED
        BY <3>0, <3>1, <3>2, <3>3
    <2> QED
      BY <1>1, <1>2, <2>1, <2>2, <2>3 DEF CodegenInv
  <1>5. CASE /\ ~AtEnd(Script) /\ Switches(o) /\ Finish(Script) /\ session # "dead"
             /\ conf'.codegen <=> SwitchesOn(o)
    <2>1. /\ cell > Setup[notebook] + 1 /\ cell \in 1 .. Len(Script) /\ op \in 1 .. Len(Script[cell])
          /\ \E k \in op .. Len(Script[cell]) : SwitchesOn(Script[cell][k])
      BY <1>5, DueFacts, SwitchesIsConf DEF OrdinaryOp
    <2>2. PICK k \in op .. Len(Script[cell]) : SwitchesOn(Script[cell][k])
      BY <2>1
    <2>0. PICK c \in 1 .. Len(Script) : c = cell
      BY <2>1
    <2>3. conf'.codegen \/ ToDo(c, k)'
      <3>1. CASE k = op
        BY <1>5, <2>2, <3>1 DEF o
      <3>2. CASE k # op
        <4>1. op < Len(Script[cell]) /\ k >= op + 1
          BY <2>1, <2>2, <3>2, ScriptFacts
        <4> QED
          BY <1>5, <2>0, <4>1 DEF Finish, ToDo
      <3> QED
        BY <3>1, <3>2
    <2>4. ~(session' = "dead" /\ ~conf'.codegen)
      BY <1>5, SessionSteps, DefaultsAre
    <2>5. cell' > Setup[notebook] + 1
      BY <1>5, <2>1, ScriptFacts DEF Finish
    <2>6. k \in 1 .. Len(Script[cell])
      BY <2>1, <2>2, ScriptFacts
    <2>7. conf'.codegen \/ \E i \in 1 .. Len(Script) : \E j \in 1 .. Len(Script[i]) :
                               SwitchesOn(Script[i][j]) /\ ToDo(i, j)'
      BY <2>0, <2>2, <2>3, <2>6
    <2>8. cell' \in Int /\ Setup[notebook] \in Nat
      BY <1>1, ScriptFacts DEF KernelInv, KernelTypeOK
    <2> QED
      BY <1>1, <1>2, <2>4, <2>5, <2>7, <2>8 DEF CodegenInv
  <1> QED
    BY <1>2, <1>3, <1>4, <1>5

-----------------------------------------------------------------------------
(* THE TEARDOWN.                                                           *)
LEMMA RestoringOps ==
    \A x : RestoringOp(x) =>
        /\ x.op \in {"profile", "clear", "rmtree", "unpersist", "dropview"}
        /\ x.op = "profile" => x = Profile("tuned", NoOver)
  BY DEF RestoringOp, Profile, ClearCache, Rmtree, Op, Unpersist, DropView

LEMMA TunedIs ==
    ASSUME ConfOK(conf), o = Profile("tuned", NoOver), conf' = Settings
    PROVE  Tuned'
  <1> DEFINE c == SetKnobs(conf, PROFILES.tuned)
             d == SetKnobs(c, NoOver)
  <1>1. o.op = "profile" /\ o.name = "tuned" /\ o.over = NoOver /\ DOMAIN NoOver = {}
    BY DEF Profile, NoOver
  <1>2. DOMAIN c = DOMAIN DefaultConf /\ \A k \in DOMAIN PROFILES.tuned : c[k] = PROFILES.tuned[k]
    BY ProfilesKeepCodegen DEF SetKnobs, ConfOK
  <1>3. DOMAIN d = DOMAIN c /\ \A k \in DOMAIN c : d[k] = c[k]
    BY <1>1 DEF SetKnobs
  <1>4. conf' = d
    BY <1>1 DEF Settings, ApplyProfile
  <1> HIDE DEF c, d
  <1> QED
    BY <1>2, <1>3, <1>4, ProfilesKeepCodegen DEF Tuned

(* In the last cell and after it nobody undoes what is restored.           *)
InFinal == AtEnd(Script) \/ cell = Len(Script)

LEMMA FinalSteps ==
    ASSUME KernelInv, PhaseInv, ConfOK(conf), [Next]_vars, InFinal, status' # "failed",
           ~RetryCell, ~FromTheTop, ~Reconnect, NEW x, ~AtEnd(Script) => x = o
    PROVE  /\ Tuned => Tuned'
           /\ cached = NoCaches => cached' = NoCaches
           /\ views' \subseteq views
           /\ ~AtEnd(Script) /\ Finish(Script) => Restored(x)'
  <1>1. ~AtEnd(Script) => /\ cell \in 1 .. Len(Script) /\ op \in 1 .. Len(Script[cell])
                          /\ RestoringOp(x)
    BY DueFacts, ScriptFacts DEF InFinal, o, Final, RestoringCell
  <1>2. ~AtEnd(Script) => /\ o.op \in {"profile", "clear", "rmtree", "unpersist", "dropview"}
                          /\ x.op = o.op
                          /\ x.op = "profile" => o = Profile("tuned", NoOver)
    BY <1>1, RestoringOps
  <1>3. ~(Build \/ Act \/ ShowPlan \/ Overwrite \/ Read \/ AskUI)
    BY <1>2 DEF Build, Act, ShowPlan, Overwrite, Read, AskUI, DueOp, Due
  <1>4. ~(CommitTable \/ RunMeasured \/ ReadUI \/ List)
    BY <1>2 DEF CommitTable, RunMeasured, ReadUI, List, Due, PhaseInv, KernelInv
  <1>5. ~(DriverDies \/ Interrupt \/ Retry)
    BY DEF DriverDies, Interrupt, Die, Fault, Retry
  <1>6. ~Resume
    BY ScriptFacts DEF Resume, InFinal, KernelInv, KernelTypeOK, AtEnd
  <1> USE DEF serverVars, Restored
  <1>7. CASE Configure
    <2>1. ~AtEnd(Script) /\ o.op = "profile" /\ conf' = Settings /\ UNCHANGED <<views, cached>>
      BY <1>2, <1>7 DEF Configure, DueOp, Due
    <2>2. Tuned'
      BY <1>2, <2>1, TunedIs
    <2> QED
      BY <1>2, <2>1, <2>2
  <1>8. CASE SetCache
    <2>1. ~AtEnd(Script) /\ o.op \in {"clear", "unpersist"} /\ UNCHANGED <<conf, views>>
      BY <1>2, <1>8 DEF SetCache, DueOp, Due
    <2>2. CASE o.op = "clear"
      <3>1. cached' = NoCaches
        BY <1>8, <2>2 DEF SetCache
      <3> QED
        BY <1>2, <2>1, <2>2, <3>1 DEF Tuned
    <2>3. CASE o.op = "unpersist"
      <3>1. cached' = [cached EXCEPT ![o.f] = "none"]
        BY <1>8, <2>3 DEF SetCache
      <3>2. cached = NoCaches => cached' = NoCaches
        BY <3>1 DEF NoCaches
      <3> QED
        BY <1>2, <2>1, <2>3, <3>2 DEF Tuned
    <2> QED
      BY <2>1, <2>2, <2>3
  <1>9. CASE SetView
    <2>1. /\ ~AtEnd(Script) /\ o.op = "dropview" /\ views' = views \ {o.v}
          /\ UNCHANGED <<conf, cached>>
      BY <1>2, <1>9 DEF SetView, DueOp, Due
    <2> QED
      BY <1>2, <2>1 DEF Tuned
  <1>10. CASE Other
    <2>1. ~AtEnd(Script) /\ o.op = "rmtree" /\ UNCHANGED <<conf, views, cached>>
      BY <1>2, <1>10 DEF Other, DueOp, Due
    <2> QED
      BY <1>2, <2>1 DEF Tuned
  <1>11. CASE Reject
    <2>1. status' = "rejected" /\ UNCHANGED <<conf, views, cached>>
      BY <1>11 DEF Reject, GoOn
    <2> QED
      BY <2>1 DEF Tuned, Finish
  <1>12. CASE Elsewhere \/ UNCHANGED vars
    <2>1. /\ UNCHANGED <<cell, op, conf, views>>
          /\ cached' = cached \/ cached' = NoCaches
      BY <1>12 DEF Elsewhere, Fault, vars, kernelVars
    <2>2. ~AtEnd(Script) => ~Finish(Script)
      BY <1>1, <2>1, ScriptFacts DEF Finish
    <2> QED
      BY <2>1, <2>2 DEF Tuned
  <1> QED
    BY <1>3, <1>4, <1>5, <1>6, <1>7, <1>8, <1>9, <1>10, <1>11, <1>12 DEF Next, RetryCell

LEMMA NowPast ==
    ASSUME KernelInv, [Next]_vars, NEW j \in 1 .. Len(Final), Past(j)'
    PROVE  /\ InFinal /\ status' # "failed" /\ ~RetryCell /\ ~FromTheTop /\ ~Reconnect
           /\ Past(j) \/ (~AtEnd(Script) /\ op = j /\ Finish(Script))
  <1>0. Moves /\ Script' = Script /\ KernelInv'
    BY NextMoves, KernelPreserved
  <1>1. /\ Len(Script) \in Nat \ {0} /\ \A i \in 1 .. Len(Script) : Len(Script[i]) \in Nat \ {0}
    BY ScriptFacts
  <1>2. /\ cell \in 1 .. Len(Script) + 1 /\ op \in Nat \ {0} /\ j \in Nat \ {0}
        /\ ~AtEnd(Script) => op \in 1 .. Len(Script[cell])
    BY <1>1, DueFacts DEF KernelInv, KernelTypeOK, AtEnd, Final
  <1>3. /\ cell' > Len(Script) \/ (cell' = Len(Script) /\ op' > j /\ status' # "failed")
        /\ cell' > Len(Script) => status' = "ready"
    BY <1>0 DEF Past, AtEnd, KernelInv
  <1>4. ~RetryCell /\ ~FromTheTop /\ ~Reconnect
    <2>1. ~RetryCell
      BY <1>1, <1>2, <1>3 DEF RetryCell, KernelInv, AtEnd
    <2>2. ~FromTheTop /\ ~Reconnect
      BY <1>1, <1>2, <1>3 DEF FromTheTop, FromTop, Reconnect
    <2> QED
      BY <2>1, <2>2
  <1>5. ~Resume
    BY <1>2, <1>3 DEF Resume, KernelInv
  <1>6. status' # "failed"
    BY <1>3
  <1> USE DEF Past, InFinal, AtEnd
  <1>7. CASE Running /\ Finish(Script)
    <2>1. cell <= Len(Script)
      BY <1>2, <1>7 DEF Running
    <2>2. cell = Len(Script)
      BY <1>1, <1>2, <1>3, <1>7, <2>1 DEF Finish
    <2>3. Past(j) \/ op = j
      <3>1. CASE op < Len(Script[cell])
        BY <1>2, <1>3, <1>7, <2>2, <3>1 DEF Finish, Running
      <3>2. CASE ~(op < Len(Script[cell]))
        <4>1. op = Len(Final) /\ status # "failed"
          BY <1>1, <1>2, <1>7, <2>2, <3>2 DEF Final, Running
        <4> QED
          BY <1>1, <1>2, <2>2, <4>1
      <3> QED
        BY <3>1, <3>2
    <2> QED
      BY <1>4, <1>6, <1>7, <2>1, <2>2, <2>3, <1>2
  <1>8. CASE Running /\ \E phase \in Phases \cup {"rejected"} : GoOn(phase)
    BY <1>3, <1>4, <1>6, <1>8 DEF Running, GoOn
  <1>9. CASE Running /\ \E phase \in {"measuring", "failed"} : Fault(phase)
    BY <1>3, <1>4, <1>6, <1>9 DEF Running, Fault
  <1>10. CASE Fault(status) \/ UNCHANGED kernelVars
    BY <1>3, <1>4, <1>6, <1>10 DEF Fault, kernelVars
  <1> QED
    BY <1>0, <1>4, <1>5, <1>7, <1>8, <1>9, <1>10 DEF Moves

(* Views are only added by an operation that the last cell takes back.     *)
LEMMA ViewSteps ==
    ASSUME KernelInv, [Next]_vars, NEW v \in views', v \notin views PROVE Drops(Final, v)
  <1> USE DEF serverVars
  <1>1. CASE SetView
    <2>1. ~AtEnd(Script) /\ o.op = "view" /\ v = o.v
      BY <1>1 DEF SetView, DueOp, Due
    <2> QED
      BY <2>1, DueFacts
  <1>2. ~(Configure \/ Build \/ Act \/ ShowPlan \/ SetCache \/ Other)
    BY DEF Configure, Build, Act, ShowPlan, SetCache, Other
  <1>3. ~(CommitTable \/ Read \/ ReadUI \/ Reject \/ Overwrite \/ RunMeasured \/ AskUI)
    BY DEF CommitTable, Read, ReadUI, Reject, Overwrite, RunMeasured, AskUI
  <1>4. ~(DriverDies \/ Interrupt \/ Retry \/ FromTheTop \/ Elsewhere)
    BY DEF DriverDies, Interrupt, Retry, FromTheTop, Elsewhere
  <1>5. ~(Reconnect \/ Resume \/ List \/ UNCHANGED vars)
    BY DEF Reconnect, Resume, List, vars
  <1> QED
    BY <1>1, <1>2, <1>3, <1>4, <1>5 DEF Next

LEMMA FinalPreserved == SparkInv /\ [Next]_vars => FinalInv'
  <1> SUFFICES ASSUME SparkInv, [Next]_vars PROVE FinalInv'
    OBVIOUS
  <1> USE DEF SparkInv
  <1>1. Final' = Final
    BY KernelPreserved DEF Final
  <1>2. \A v \in views' : Drops(Final, v)
    BY ViewSteps DEF FinalInv
  <1>3. ASSUME NEW j \in 1 .. Len(Final), Past(j)' PROVE Restored(Final[j])'
    <2>1. /\ InFinal /\ status' # "failed" /\ ~RetryCell /\ ~FromTheTop /\ ~Reconnect
          /\ Past(j) \/ (~AtEnd(Script) /\ op = j /\ Finish(Script))
      BY <1>3, NowPast
    <2>2. PICK x : ~AtEnd(Script) => x = o
      OBVIOUS
    <2>3. /\ Tuned => Tuned'
          /\ cached = NoCaches => cached' = NoCaches
          /\ views' \subseteq views
          /\ ~AtEnd(Script) /\ Finish(Script) => Restored(x)'
      BY <2>1, <2>2, FinalSteps DEF CodegenInv
    <2>4. PICK y : y = Final[j]
      OBVIOUS
    <2>5. Restored(y)'
      <3>1. CASE Past(j)
        <4>1. Restored(y)
          BY <2>4, <3>1 DEF FinalInv
        <4> QED
          BY <2>3, <4>1 DEF Restored
      <3>2. CASE ~AtEnd(Script) /\ op = j /\ Finish(Script)
        <4>1. x = y
          BY <2>1, <2>2, <2>4, <3>2 DEF InFinal, o, Final
        <4> QED
          BY <2>3, <3>2, <4>1
      <3> QED
        BY <2>1, <3>1, <3>2
    <2> QED
      BY <1>1, <2>4, <2>5 DEF Restored
  <1> QED
    BY <1>1, <1>2, <1>3 DEF FinalInv

LEMMA SparkInit == Init => SparkInv
  <1> SUFFICES ASSUME Init PROVE SparkInv
    OBVIOUS
  <1>0. notebook \in Notebooks /\ cell = 1 /\ op = 1 /\ status = "ready"
    BY DEF Init, KernelInit
  <1>1. /\ Len(Script) \in Nat \ {0} /\ \A i \in 1 .. Len(Script) : Len(Script[i]) \in Nat \ {0}
        /\ RestoringCell(Final)
    BY <1>0, Scripts DEF Script, Final, ScriptOK
  <1>2. KernelInv
    BY <1>0, <1>1, KernelAssumption DEF Init, KernelInit, KernelInv, KernelTypeOK, AtEnd
  <1>3. PhaseInv
    BY <1>0 DEF PhaseInv
  <1>4. CodegenInv
    BY DefaultsAre DEF Init, CodegenInv
  <1>5. FinalInv
    BY <1>0, <1>1 DEF Init, FinalInv, Past, AtEnd, RestoringCell
  <1>6. OverridesInv
    BY DEF Init, OverridesInv
  <1> QED
    BY <1>2, <1>3, <1>4, <1>5, <1>6 DEF SparkInv

LEMMA SparkInvIsInvariant == Spec => []SparkInv
  <1>1. SparkInv /\ [Next]_vars => SparkInv'
    BY KernelPreserved, PhasePreserved, CodegenPreserved, OverridesPreserved, FinalPreserved
    DEF SparkInv
  <1> QED
    BY <1>1, SparkInit, PTL DEF Spec

LEMMA RestoredAtEnd == SparkInv => TeardownRestores
  <1> SUFFICES ASSUME SparkInv, AtEnd(Script)
               PROVE  /\ \A k \in DOMAIN conf \ LeftSet(notebook) : conf[k] = TunedConf[k]
                      /\ views = {} /\ cached = NoCaches
    BY DEF TeardownRestores
  <1> USE DEF SparkInv
  <1>1. RestoringCell(Final) /\ Len(Script) \in Nat
    BY ScriptFacts
  <1>2. \A j \in 1 .. Len(Final) : Restored(Final[j])
    BY DEF FinalInv, Past
  <1>3. Tuned
    BY <1>1, <1>2 DEF RestoringCell, Restored, Profile
  <1>4. cached = NoCaches
    BY <1>1, <1>2 DEF RestoringCell, Restored, ClearCache, Op
  <1>5. ASSUME NEW v \in views PROVE FALSE
    <2>1. PICK k \in 1 .. Len(Final) : Final[k] = DropView(v)
      BY <1>5 DEF FinalInv, Drops
    <2>2. Final[k].op = "dropview" /\ Final[k].v = v
      BY <2>1 DEF DropView
    <2> QED
      BY <1>2, <1>5, <2>2 DEF Restored
  <1>6. conf.codegen
    BY <1>1 DEF CodegenInv, ToDo, AtEnd, KernelInv, KernelTypeOK
  <1>7. ASSUME NEW k \in DOMAIN conf \ LeftSet(notebook) PROVE conf[k] = TunedConf[k]
    <2>1. /\ k \in DOMAIN DefaultConf
          /\ TunedConf[k] = IF k \in DOMAIN PROFILES.tuned THEN PROFILES.tuned[k] ELSE DefaultConf[k]
      <3>1. DOMAIN conf = DOMAIN DefaultConf
        BY DEF CodegenInv, ConfOK
      <3>2. \A x \in DOMAIN DefaultConf :
                TunedConf[x] = IF x \in DOMAIN PROFILES.tuned THEN PROFILES.tuned[x] ELSE DefaultConf[x]
        BY DEF TunedConf, SetKnobs
      <3> QED
        BY <1>7, <3>1, <3>2
    <2>2. k \in DOMAIN PROFILES.tuned \cup {"codegen"} \cup Kept
      BY <1>7, <2>1 DEF Kept, DefaultConf, PROFILES
    <2>3. DefaultConf.codegen = conf.codegen /\ "codegen" \notin DOMAIN PROFILES.tuned
      BY <1>6, DefaultsAre, ProfilesKeepCodegen DEF CodegenInv, ConfOK, PROFILES
    <2>4. \A x \in Kept : conf[x] = DefaultConf[x] /\ x \notin DOMAIN PROFILES.tuned
      BY DEF OverridesInv, Kept, PROFILES
    <2> QED
      BY <1>3, <2>1, <2>2, <2>3, <2>4 DEF Tuned
  <1> QED
    BY <1>4, <1>5, <1>7

(* Whoever comes to the end of a notebook, after whatever deaths of the    *)
(* driver, interruptions, cells run again, reconnections and resumptions,  *)
(* leaves nothing cached, no views, and every knob tuned or at its default *)
(* but the overrides of spk1, spk5 and spk6 that no teardown takes back.   *)
THEOREM TeardownIsComplete == Spec => []TeardownRestores
  BY SparkInvIsInvariant, RestoredAtEnd, PTL

-----------------------------------------------------------------------------
(* THE LABELS: RUNS AND SETTINGS.  Every join finds every row of the fact. *)
LEMMA RowsAre == Cardinality(Rows) = NRows
  BY DataAssumption, FS_Interval DEF Rows

LEMMA JoinsLoseNothing ==
    ASSUME NEW data \in {"even", "skewed"}, NEW hint, NEW salted \in BOOLEAN,
           NEW answer \in Answers(JoinQ(data, hint, salted))
    PROVE  answer = NRows
  <1> DEFINE fact == Facts[data]
             q == JoinQ(data, hint, salted)
  <1>1. \A r \in Rows : fact.keys[r] \in fact.dim
    <2>1. CASE data = "even"
      BY <2>1, DataAssumption DEF Facts, UniformKeys, KeyDimension, Rows
    <2>2. CASE data = "skewed"
      BY <2>2, DataAssumption DEF Facts, SkewedKeys, KeyDimension, Rows
    <2> QED
      BY <2>1, <2>2
  <1>2. q.shape = "join" /\ q.data = data /\ (q.salted <=> salted)
    BY DEF JoinQ
  <1>3. answer \in Answers(q)
    OBVIOUS
  <1> HIDE DEF fact, q
  <1>4. CASE ~salted
    <2>1. answer = Cardinality(Joined(fact))
      BY <1>2, <1>3, <1>4 DEF Answers, fact
    <2>2. Joined(fact) = Rows
      BY <1>1 DEF Joined
    <2> QED
      BY <2>1, <2>2, RowsAre
  <1>5. CASE salted
    <2>1. PICK salt \in [Rows -> 0 .. S - 1] : answer = Cardinality(SaltedJoin(fact, salt))
      <3>1. q.shape = "join" /\ q.salted
        BY <1>2, <1>5
      <3>2. Answers(q) = {Cardinality(SaltedJoin(Facts[q.data], salt)) : salt \in [Rows -> 0 .. S - 1]}
        BY <3>1 DEF Answers
      <3> QED
        BY <1>2, <1>3, <3>2 DEF fact
    <2>2. SaltedJoin(fact, salt) = Rows
      BY <1>1 DEF SaltedJoin, SaltsOfDim
    <2> QED
      BY <2>1, <2>2, RowsAre
  <1> QED
    BY <1>4, <1>5

(* The run has what the label says; and what its own label says, if any.   *)
Fits(label, r) == \A k \in DOMAIN label : r[k] = label[k]
Good(n, x, r) == x \in DOMAIN Labels[n] => Fits(Labels[n][x], r)

LEMMA LabelsFit ==
    ASSUME NEW q, NEW c, NEW h, NEW a
    PROVE  /\ Fits(Plan(Join(q, c)), Run(q, c, h, a))
           /\ a = NRows => Fits(JoinRun(Join(q, c)), Run(q, c, h, a))
           /\ a = NRows /\ Straggles(q, c) => Fits(SkewRun(Join(q, c), TRUE), Run(q, c, h, a))
           /\ a = NRows /\ ~Straggles(q, c) => Fits(SkewRun(Join(q, c), FALSE), Run(q, c, h, a))
           /\ Spills(q, c) => Fits(AggRun(Tasks(q, c), TRUE), Run(q, c, h, a))
           /\ ~Spills(q, c) => Fits(AggRun(Tasks(q, c), FALSE), Run(q, c, h, a))
           /\ Fits(HitRun(h), Run(q, c, h, a))
           /\ Fits([fused |-> c.codegen], Run(q, c, h, a))
  <1>1. Straggles(q, c) \in BOOLEAN /\ Spills(q, c) \in BOOLEAN
    BY DEF Straggles, Spills
  <1> DEFINE j == Join(q, c)
             t == Tasks(q, c)
             g == Straggles(q, c)
             p == Spills(q, c)
  <1>2. Run(q, c, h, a) = [join |-> j, tasks |-> t, straggles |-> g, spills |-> p,
                           fused |-> c.codegen, scanned |-> Scanned(q), hit |-> h, answer |-> a]
    BY DEF Run
  <1> HIDE DEF j, t, g, p
  <1>3. Fits(Plan(j), Run(q, c, h, a))
    BY <1>2 DEF Fits, Plan
  <1>4. a = NRows => Fits(JoinRun(j), Run(q, c, h, a))
    BY <1>2 DEF Fits, JoinRun
  <1>5. a = NRows => Fits(SkewRun(j, g), Run(q, c, h, a))
    BY <1>2 DEF Fits, SkewRun
  <1>6. Fits(AggRun(t, p), Run(q, c, h, a))
    BY <1>2 DEF Fits, AggRun
  <1>7. Fits(HitRun(h), Run(q, c, h, a)) /\ Fits([fused |-> c.codegen], Run(q, c, h, a))
    BY <1>2 DEF Fits, HitRun
  <1>8. (g \/ g = FALSE) /\ (p \/ p = FALSE) /\ (g => g = TRUE) /\ (p => p = TRUE)
    BY <1>1 DEF g, p
  <1> QED
    BY <1>3, <1>4, <1>5, <1>6, <1>7, <1>8, Zenon DEF j, t, g, p

-----------------------------------------------------------------------------
(* What a setting makes of the knobs, and the knobs of a run.              *)
Agrees(c, x) ==
    /\ \A k \in DOMAIN x.over : c[k] = x.over[k]
    /\ x.op = "profile" =>
           \A k \in DOMAIN PROFILES[x.name] \ DOMAIN x.over : c[k] = PROFILES[x.name][k]

Sets(x) ==
    /\ x.op \in {"profile", "conf"} /\ DOMAIN x.over \subseteq DOMAIN DefaultConf
    /\ x.op = "profile" => DOMAIN PROFILES[x.name] \subseteq DOMAIN DefaultConf

Constrained(c, n) == ~c.aqe /\ ~c.broadcast /\ c.parts = n
TunedTo(c) == c.aqe /\ c.coalesce /\ c.broadcast

LEMMA Constrains ==
    ASSUME NEW c
    PROVE  /\ Agrees(c, Profile("constrained", NoOver)) => Constrained(c, 16)
           /\ Agrees(c, Profile("constrained", NoSMJ)) => Constrained(c, 16)
           /\ \A n : Agrees(c, Profile("constrained", Parts(n))) => Constrained(c, n)
  <1>1. PROFILES["constrained"] = [aqe |-> FALSE, skewJoin |-> FALSE, coalesce |-> FALSE,
                                   broadcast |-> FALSE, parts |-> 16]
    BY DEF PROFILES
  <1>2. ASSUME Agrees(c, Profile("constrained", NoOver)) PROVE Constrained(c, 16)
    BY <1>1, <1>2 DEF Agrees, Profile, NoOver, Constrained
  <1>3. ASSUME Agrees(c, Profile("constrained", NoSMJ)) PROVE Constrained(c, 16)
    BY <1>1, <1>3 DEF Agrees, Profile, NoSMJ, Constrained
  <1>4. ASSUME NEW n, Agrees(c, Profile("constrained", Parts(n))) PROVE Constrained(c, n)
    BY <1>1, <1>4 DEF Agrees, Profile, Parts, Constrained
  <1> QED
    BY <1>2, <1>3, <1>4

LEMMA Tunes ==
    ASSUME NEW c
    PROVE  /\ Agrees(c, Profile("tuned", NoOver)) => TunedTo(c)
           /\ \A n : Agrees(c, Profile("tuned", Parts(n))) => TunedTo(c)
           /\ Agrees(c, Profile("tuned", Laptop)) => c.aqe /\ c.skewJoin /\ c.laptop /\ ~c.broadcast
           /\ \A v : Agrees(c, Conf("codegen", v)) => c.codegen = v
  <1>1. PROFILES["tuned"] = [aqe |-> TRUE, skewJoin |-> TRUE, coalesce |-> TRUE,
                             broadcast |-> TRUE, parts |-> 200]
    BY DEF PROFILES
  <1>2. ASSUME Agrees(c, Profile("tuned", NoOver)) PROVE TunedTo(c)
    BY <1>1, <1>2 DEF Agrees, Profile, NoOver, TunedTo
  <1>3. ASSUME NEW n, Agrees(c, Profile("tuned", Parts(n))) PROVE TunedTo(c)
    BY <1>1, <1>3 DEF Agrees, Profile, Parts, TunedTo
  <1>4. ASSUME Agrees(c, Profile("tuned", Laptop))
        PROVE  c.aqe /\ c.skewJoin /\ c.laptop /\ ~c.broadcast
    BY <1>1, <1>4 DEF Agrees, Profile, Laptop
  <1>5. ASSUME NEW v, Agrees(c, Conf("codegen", v)) PROVE c.codegen = v
    BY <1>5 DEF Agrees, Conf
  <1> QED
    BY <1>2, <1>3, <1>4, <1>5

LEMMA JoinsAre ==
    ASSUME NEW c
    PROVE  /\ ~c.broadcast => /\ Join(Plain, c) = "SMJ" /\ Join(Skew, c) = "SMJ"
                              /\ Join(Salty, c) = "SMJ"
           /\ c.broadcast => Join(Plain, c) = "BHJ"
           /\ ~Straggles(Salty, c)
           /\ \A n : Constrained(c, n) => Straggles(Skew, c)
           /\ c.aqe /\ c.skewJoin /\ c.laptop => ~Straggles(Skew, c)
           /\ \A data : /\ Join(JoinQ(data, "broadcast", FALSE), c) = "BHJ"
                        /\ ~Straggles(JoinQ(data, "broadcast", FALSE), c)
                        /\ Join(JoinQ(data, "shuffle_hash", FALSE), c) = "SHJ"
  <1>1. \A data, salted : /\ Join(JoinQ(data, "none", salted), c) = IF c.broadcast THEN "BHJ" ELSE "SMJ"
                          /\ Join(JoinQ(data, "broadcast", salted), c) = "BHJ"
                          /\ Join(JoinQ(data, "shuffle_hash", salted), c) = "SHJ"
    BY DEF Join, JoinQ, Strategy
  <1>2. \A data, hint : ~Straggles(JoinQ(data, hint, TRUE), c)
    BY DEF Straggles, JoinQ
  <1>3. \A n : Constrained(c, n) => Straggles(JoinQ("skewed", "none", FALSE), c)
    <2>1. \A hint : JoinQ("skewed", hint, FALSE).data = "skewed" /\ ~JoinQ("skewed", hint, FALSE).salted
      BY DEF JoinQ
    <2> QED
      BY <1>1, <2>1 DEF Straggles, Constrained
  <1>4. c.aqe /\ c.skewJoin /\ c.laptop => ~Straggles(JoinQ("skewed", "none", FALSE), c)
    BY DEF Straggles
  <1>5. \A data : ~Straggles(JoinQ(data, "broadcast", FALSE), c)
    BY <1>1 DEF Straggles
  <1> QED
    BY <1>1, <1>2, <1>3, <1>4, <1>5 DEF Plain, Skew, Salty

LEMMA AggregationsAre ==
    ASSUME NEW c
    PROVE  /\ \A n, h : Constrained(c, n) => Tasks(AggQ(h), c) = n
           /\ \A h : TunedTo(c) => Tasks(AggQ(h), c) = 1
           /\ ~Spills(AggQ(FALSE), c)
           /\ Spills(AggQ(TRUE), c) <=> Tasks(AggQ(TRUE), c) \in 2 .. 20
  <1>1. \A h : Shuffles(AggQ(h), c)
    BY DEF Shuffles, Join, AggQ
  <1>2. \A n, h : Constrained(c, n) => Tasks(AggQ(h), c) = n
    BY <1>1 DEF Tasks, Constrained
  <1>3. \A h : TunedTo(c) => Tasks(AggQ(h), c) = 1
    BY <1>1 DEF Tasks, TunedTo
  <1>4. ~Spills(AggQ(FALSE), c)
    BY DEF Spills, AggQ
  <1>5. Spills(AggQ(TRUE), c) <=> Tasks(AggQ(TRUE), c) \in 2 .. 20
    BY DEF Spills, AggQ
  <1> QED
    BY <1>2, <1>3, <1>4, <1>5

(* Under this setting the query runs as the label says; and under any.     *)
Yields(s, q, label) ==
    \A c, h, a : Agrees(c, s) /\ a \in Answers(q) => Fits(label, Run(q, c, h, a))
Always(q, label) == \A c, h, a : a \in Answers(q) => Fits(label, Run(q, c, h, a))

LEMMA JoinsYield ==
    /\ Yields(Profile("constrained", NoOver), Skew, SkewRun("SMJ", TRUE))
    /\ Yields(Profile("tuned", Laptop), Skew, SkewRun("SMJ", FALSE))
    /\ Yields(Profile("tuned", NoOver), Plain, Plan("BHJ"))
    /\ Yields(Profile("tuned", NoOver), Plain, JoinRun("BHJ"))
    /\ Yields(Profile("constrained", NoOver), Plain, Plan("SMJ"))
    /\ Yields(Profile("constrained", NoOver), Plain, JoinRun("SMJ"))
  <1>1. \A a : a \in Answers(Skew) \/ a \in Answers(Plain) => a = NRows
    BY JoinsLoseNothing DEF Skew, Plain
  <1>2. ASSUME NEW c
        PROVE  /\ Agrees(c, Profile("constrained", NoOver)) =>
                      Join(Skew, c) = "SMJ" /\ Straggles(Skew, c) /\ Join(Plain, c) = "SMJ"
               /\ Agrees(c, Profile("tuned", Laptop)) => Join(Skew, c) = "SMJ" /\ ~Straggles(Skew, c)
               /\ Agrees(c, Profile("tuned", NoOver)) => Join(Plain, c) = "BHJ"
    BY Constrains, Tunes, JoinsAre DEF Constrained, TunedTo
  <1>3. Yields(Profile("constrained", NoOver), Skew, SkewRun("SMJ", TRUE))
    BY <1>1, <1>2, LabelsFit DEF Yields
  <1>4. Yields(Profile("tuned", Laptop), Skew, SkewRun("SMJ", FALSE))
    BY <1>1, <1>2, LabelsFit DEF Yields
  <1>5. Yields(Profile("tuned", NoOver), Plain, Plan("BHJ"))
    BY <1>2, LabelsFit DEF Yields
  <1>6. Yields(Profile("tuned", NoOver), Plain, JoinRun("BHJ"))
    BY <1>1, <1>2, LabelsFit DEF Yields
  <1>7. Yields(Profile("constrained", NoOver), Plain, Plan("SMJ"))
    BY <1>2, LabelsFit DEF Yields
  <1>8. Yields(Profile("constrained", NoOver), Plain, JoinRun("SMJ"))
    BY <1>1, <1>2, LabelsFit DEF Yields
  <1> QED
    BY <1>3, <1>4, <1>5, <1>6, <1>7, <1>8

LEMMA TasksYield ==
    ASSUME NEW s, NEW t, NEW h \in BOOLEAN, NEW b \in BOOLEAN,
           b <=> (h /\ t \in 2 .. 20),
           \A c : Agrees(c, s) => Tasks(AggQ(h), c) = t
    PROVE  Yields(s, AggQ(h), AggRun(t, b))
  <1> SUFFICES ASSUME NEW c, NEW hit, NEW a, Agrees(c, s)
               PROVE  Fits(AggRun(t, b), Run(AggQ(h), c, hit, a))
    BY DEF Yields
  <1>1. Tasks(AggQ(h), c) = t
    OBVIOUS
  <1>2. Spills(AggQ(h), c) <=> b
    <2>1. CASE h = TRUE
      BY <1>1, <2>1, AggregationsAre
    <2>2. CASE h = FALSE
      BY <2>2, AggregationsAre
    <2> QED
      BY <2>1, <2>2
  <1>3. /\ Spills(AggQ(h), c) => Fits(AggRun(t, TRUE), Run(AggQ(h), c, hit, a))
        /\ ~Spills(AggQ(h), c) => Fits(AggRun(t, FALSE), Run(AggQ(h), c, hit, a))
    BY <1>1, LabelsFit
  <1>4. CASE b = TRUE
    BY <1>2, <1>3, <1>4
  <1>5. CASE b = FALSE
    BY <1>2, <1>3, <1>5
  <1> QED
    BY <1>4, <1>5

LEMMA ConstrainedTasks ==
    ASSUME NEW h, NEW n
    PROVE  \A c : Constrained(c, n) => Tasks(AggQ(h), c) = n
  BY AggregationsAre

LEMMA TunedTasks == ASSUME NEW h PROVE \A c : TunedTo(c) => Tasks(AggQ(h), c) = 1
  BY AggregationsAre

LEMMA PartsYield ==
    ASSUME NEW n, n \notin 2 .. 20
    PROVE  /\ Yields(Profile("constrained", Parts(n)), AggQ(TRUE), AggRun(n, FALSE))
           /\ Yields(Profile("constrained", Parts(n)), AggQ(FALSE), AggRun(n, FALSE))
  <1>1. \A c : Agrees(c, Profile("constrained", Parts(n))) => Constrained(c, n)
    BY Constrains
  <1>2. \A h, c : Agrees(c, Profile("constrained", Parts(n))) => Tasks(AggQ(h), c) = n
    BY <1>1, ConstrainedTasks, Zenon
  <1>3. \A h \in BOOLEAN : FALSE <=> (h /\ n \in 2 .. 20)
    OBVIOUS
  <1> QED
    BY <1>2, <1>3, TasksYield

LEMMA ManyPartsYield ==
    /\ Yields(Profile("constrained", Parts(200)), AggQ(TRUE), AggRun(200, FALSE))
    /\ Yields(Profile("constrained", Parts(200)), AggQ(FALSE), AggRun(200, FALSE))
    /\ Yields(Profile("constrained", Parts(2000)), AggQ(TRUE), AggRun(2000, FALSE))
  <1>1. 200 \notin 2 .. 20 /\ 2000 \notin 2 .. 20
    OBVIOUS
  <1>2. \A n : n \notin 2 .. 20 =>
                   /\ Yields(Profile("constrained", Parts(n)), AggQ(TRUE), AggRun(n, FALSE))
                   /\ Yields(Profile("constrained", Parts(n)), AggQ(FALSE), AggRun(n, FALSE))
    BY PartsYield
  <1>3. /\ Yields(Profile("constrained", Parts(200)), AggQ(TRUE), AggRun(200, FALSE))
        /\ Yields(Profile("constrained", Parts(200)), AggQ(FALSE), AggRun(200, FALSE))
    <2> DEFINE many == 200
    <2>1. many \notin 2 .. 20
      BY <1>1
    <2> HIDE DEF many
    <2>2. /\ Yields(Profile("constrained", Parts(many)), AggQ(TRUE), AggRun(many, FALSE))
          /\ Yields(Profile("constrained", Parts(many)), AggQ(FALSE), AggRun(many, FALSE))
      BY <1>2, <2>1, Zenon
    <2> QED
      BY <2>2, Zenon DEF many
  <1>4. Yields(Profile("constrained", Parts(2000)), AggQ(TRUE), AggRun(2000, FALSE))
    <2> DEFINE most == 2000
    <2>1. most \notin 2 .. 20
      BY <1>1
    <2> HIDE DEF most
    <2>2. Yields(Profile("constrained", Parts(most)), AggQ(TRUE), AggRun(most, FALSE))
      BY <1>2, <2>1, Zenon
    <2> QED
      BY <2>2 DEF most, AggQ, AggRun
  <1> QED
    BY <1>3, <1>4 DEF AggQ, AggRun

LEMMA AggregationsYield ==
    /\ Yields(Profile("constrained", NoOver), AggQ(TRUE), AggRun(16, TRUE))
    /\ Yields(Profile("constrained", NoOver), AggQ(FALSE), AggRun(16, FALSE))
    /\ Yields(Profile("constrained", Parts(8)), AggQ(TRUE), AggRun(8, TRUE))
    /\ Yields(Profile("tuned", NoOver), AggQ(TRUE), AggRun(1, FALSE))
    /\ Yields(Profile("tuned", NoOver), AggQ(FALSE), AggRun(1, FALSE))
    /\ Yields(Profile("tuned", Parts(200)), AggQ(FALSE), AggRun(1, FALSE))
    /\ \A v : Yields(Conf("codegen", v), AggQ(FALSE), [fused |-> v])
  <1>1. Yields(Profile("constrained", NoOver), AggQ(TRUE), AggRun(16, TRUE))
    <2>1. \A c : Agrees(c, Profile("constrained", NoOver)) => Constrained(c, 16)
      BY Constrains
    <2>2. \A c : Agrees(c, Profile("constrained", NoOver)) => Tasks(AggQ(TRUE), c) = 16
      BY <2>1, ConstrainedTasks, Zenon
    <2>3. TRUE <=> (TRUE /\ 16 \in 2 .. 20)
      OBVIOUS
    <2> QED
      BY <2>2, <2>3, TasksYield
  <1>2. Yields(Profile("constrained", NoOver), AggQ(FALSE), AggRun(16, FALSE))
    <2>1. \A c : Agrees(c, Profile("constrained", NoOver)) => Constrained(c, 16)
      BY Constrains
    <2>2. \A c : Agrees(c, Profile("constrained", NoOver)) => Tasks(AggQ(FALSE), c) = 16
      BY <2>1, ConstrainedTasks, Zenon
    <2>3. FALSE <=> (FALSE /\ 16 \in 2 .. 20)
      OBVIOUS
    <2> QED
      BY <2>2, <2>3, TasksYield
  <1>3. Yields(Profile("constrained", Parts(8)), AggQ(TRUE), AggRun(8, TRUE))
    <2>1. \A c : Agrees(c, Profile("constrained", Parts(8))) => Constrained(c, 8)
      BY Constrains
    <2>2. \A c : Agrees(c, Profile("constrained", Parts(8))) => Tasks(AggQ(TRUE), c) = 8
      BY <2>1, ConstrainedTasks, Zenon
    <2>3. TRUE <=> (TRUE /\ 8 \in 2 .. 20)
      OBVIOUS
    <2> QED
      BY <2>2, <2>3, TasksYield
  <1>7. Yields(Profile("tuned", NoOver), AggQ(TRUE), AggRun(1, FALSE))
    <2>1. \A c : Agrees(c, Profile("tuned", NoOver)) => TunedTo(c)
      BY Tunes
    <2>2. \A c : Agrees(c, Profile("tuned", NoOver)) => Tasks(AggQ(TRUE), c) = 1
      BY <2>1, TunedTasks, Zenon
    <2>3. FALSE <=> (TRUE /\ 1 \in 2 .. 20)
      OBVIOUS
    <2> QED
      BY <2>2, <2>3, TasksYield
  <1>8. Yields(Profile("tuned", NoOver), AggQ(FALSE), AggRun(1, FALSE))
    <2>1. \A c : Agrees(c, Profile("tuned", NoOver)) => TunedTo(c)
      BY Tunes
    <2>2. \A c : Agrees(c, Profile("tuned", NoOver)) => Tasks(AggQ(FALSE), c) = 1
      BY <2>1, TunedTasks, Zenon
    <2>3. FALSE <=> (FALSE /\ 1 \in 2 .. 20)
      OBVIOUS
    <2> QED
      BY <2>2, <2>3, TasksYield
  <1>9. Yields(Profile("tuned", Parts(200)), AggQ(FALSE), AggRun(1, FALSE))
    <2>1. \A c : Agrees(c, Profile("tuned", Parts(200))) => TunedTo(c)
      BY Tunes
    <2>2. \A c : Agrees(c, Profile("tuned", Parts(200))) => Tasks(AggQ(FALSE), c) = 1
      BY <2>1, TunedTasks, Zenon
    <2>3. FALSE <=> (FALSE /\ 1 \in 2 .. 20)
      OBVIOUS
    <2> QED
      BY <2>2, <2>3, TasksYield
  <1>10. ASSUME NEW v PROVE Yields(Conf("codegen", v), AggQ(FALSE), [fused |-> v])
    BY Tunes, LabelsFit DEF Yields
  <1> QED
    BY <1>1, <1>2, <1>3, <1>7, <1>8, <1>9, <1>10

LEMMA AlwaysSo ==
    /\ Always(JoinQ("skewed", "broadcast", FALSE), SkewRun("BHJ", FALSE))
    /\ Always(JoinQ("even", "broadcast", FALSE), JoinRun("BHJ"))
    /\ Always(JoinQ("even", "broadcast", FALSE), Plan("BHJ"))
    /\ Always(JoinQ("even", "shuffle_hash", FALSE), JoinRun("SHJ"))
    /\ Always(JoinQ("even", "shuffle_hash", FALSE), Plan("SHJ"))
    /\ Always(ScanQ(TRUE), ScanRun(NParts)) /\ Always(ScanQ(FALSE), ScanRun(1))
  <1>1. \A data \in {"even", "skewed"} : \A hint : \A a \in Answers(JoinQ(data, hint, FALSE)) : a = NRows
    BY JoinsLoseNothing
  <1>2. ASSUME NEW c
        PROVE  \A data : /\ Join(JoinQ(data, "broadcast", FALSE), c) = "BHJ"
                         /\ ~Straggles(JoinQ(data, "broadcast", FALSE), c)
                         /\ Join(JoinQ(data, "shuffle_hash", FALSE), c) = "SHJ"
    BY JoinsAre
  <1>3. Always(JoinQ("skewed", "broadcast", FALSE), SkewRun("BHJ", FALSE))
    BY <1>1, <1>2, LabelsFit DEF Always
  <1>4. Always(JoinQ("even", "broadcast", FALSE), JoinRun("BHJ"))
    BY <1>1, <1>2, LabelsFit DEF Always
  <1>5. Always(JoinQ("even", "broadcast", FALSE), Plan("BHJ"))
    BY <1>2, LabelsFit DEF Always
  <1>6. Always(JoinQ("even", "shuffle_hash", FALSE), JoinRun("SHJ"))
    BY <1>1, <1>2, LabelsFit DEF Always
  <1>7. Always(JoinQ("even", "shuffle_hash", FALSE), Plan("SHJ"))
    BY <1>2, LabelsFit DEF Always
  <1>8. ASSUME NEW cast \in BOOLEAN, NEW c, NEW h, NEW a \in Answers(ScanQ(cast))
        PROVE  Fits(ScanRun(IF cast THEN NParts ELSE 1), Run(ScanQ(cast), c, h, a))
    <2>1. ScanQ(cast).shape = "scan" /\ (ScanQ(cast).cast <=> cast) /\ ScanQ(cast).day = 1
      BY DEF ScanQ
    <2>2. Scanned(ScanQ(cast)) = IF cast THEN NParts ELSE 1
      BY <2>1 DEF Scanned
    <2>3. a = Cardinality({r \in Rows : r % NParts = 1})
      <3>1. a = Cardinality({r \in Rows : Dt[r] = 1})
        BY <2>1 DEF Answers
      <3>2. {r \in Rows : Dt[r] = 1} = {r \in Rows : r % NParts = 1}
        BY DEF Dt
      <3> QED
        BY <3>1, <3>2
    <2> QED
      BY <2>2, <2>3 DEF Fits, ScanRun, Run
  <1>9. Always(ScanQ(TRUE), ScanRun(NParts)) /\ Always(ScanQ(FALSE), ScanRun(1))
    <2>1. (IF TRUE THEN NParts ELSE 1) = NParts /\ (IF FALSE THEN NParts ELSE 1) = 1
      OBVIOUS
    <2> QED
      BY <1>8, <2>1 DEF Always
  <1> QED
    BY <1>3, <1>4, <1>5, <1>6, <1>7, <1>9

-----------------------------------------------------------------------------
(* THE LABELS: THE SCRIPTS.  What an operation shows is labelled after the *)
(* setting before it, or holds under any; what is cached, after the cache. *)
Labelled(n, x) == x.op \in {"explain", "measure"} /\ x.into \in DOMAIN Labels[n]

Fine(n, x) == Labelled(n, x) => Always(x.q, Labels[n][x.into])
After(n, s, x) == Labelled(n, x) => Sets(s) /\ Yields(s, x.q, Labels[n][x.into])

OfCache == {"m_second", "m_cached", "m_mem", "m_mem_disk", "m_disk"}

(* The operation z is backed by y, or by x and y, that come before it.     *)
BackedBy(n, y, z) ==
    \/ After(n, y, z)
    \/ z.f = "heavy" /\ y = Unpersist("heavy") /\ Labels[n][z.into] = HitRun(FALSE)

BackedByTwo(n, x, y, z) ==
    \/ y.op = "frame" /\ After(n, x, z)
    \/ /\ z.f = "heavy" /\ Labels[n][z.into] = HitRun(FALSE)
       /\ x = Unpersist("heavy") /\ y = Cache("heavy")
    \/ /\ z.f = "heavy" /\ Labels[n][z.into] = HitRun(TRUE) /\ z.into \in OfCache
       /\ x = Cache("heavy") /\ y.op \in {"action", "measure"} /\ y.f = "heavy"

Backed(n, c, p) ==
    \/ Fine(n, c[p])
    \/ p > 1 /\ BackedBy(n, c[p - 1], c[p])
    \/ p > 2 /\ BackedByTwo(n, c[p - 2], c[p - 1], c[p])

CellBacked(n, c) ==
    /\ \E T : c \in Seq(T)
    /\ \A p \in 1 .. Len(c) : Backed(n, c, p)

(* These cells go on with the knobs or the cache of the cells before them. *)
GoesOn(n, i) ==
    \/ n = "spk1" /\ i = 4
    \/ n = "spk5" /\ i \in {4, 6}
    \/ n = "spk8" /\ i = 2

CellOK(n, i, c) == CellBacked(n, c) \/ GoesOn(n, i)

(* A script, or a part of one that has k cells before it.                  *)
ScriptBacked(n, k, s) ==
    /\ \E T : s \in Seq(T)
    /\ \A i \in 1 .. Len(s) : CellOK(n, k + i, s[i])

LEMMA SequencesJoin ==
    ASSUME NEW a, NEW b, \E T : a \in Seq(T), \E T : b \in Seq(T)
    PROVE  /\ \E T : a \o b \in Seq(T)
           /\ Len(a) \in Nat /\ Len(b) \in Nat /\ Len(a \o b) = Len(a) + Len(b)
           /\ \A i \in 1 .. Len(a) : (a \o b)[i] = a[i]
           /\ \A i \in 1 .. Len(b) : (a \o b)[Len(a) + i] = b[i]
  <1>1. PICK T : a \in Seq(T)
    OBVIOUS
  <1>2. PICK U : b \in Seq(U)
    OBVIOUS
  <1>3. a \o b \in Seq(T \cup U)
    BY <1>1, <1>2
  <1> QED
    BY <1>1, <1>2, <1>3, JoinIs

LEMMA CellsJoin ==
    ASSUME NEW n, NEW a, NEW b, CellBacked(n, a), CellBacked(n, b) PROVE CellBacked(n, a \o b)
  <1> DEFINE c == a \o b
  <1>1. /\ \E T : c \in Seq(T)
        /\ Len(a) \in Nat /\ Len(b) \in Nat /\ Len(c) = Len(a) + Len(b)
        /\ \A i \in 1 .. Len(a) : c[i] = a[i]
        /\ \A i \in 1 .. Len(b) : c[Len(a) + i] = b[i]
    BY SequencesJoin DEF CellBacked
  <1> HIDE DEF c
  <1>2. ASSUME NEW p \in 1 .. Len(a) PROVE Backed(n, c, p)
    <2>1. c[p] = a[p] /\ (p > 1 => c[p - 1] = a[p - 1]) /\ (p > 2 => c[p - 2] = a[p - 2])
      BY <1>1
    <2>2. Backed(n, a, p)
      BY DEF CellBacked
    <2> QED
      BY <2>1, <2>2 DEF Backed
  <1>3. ASSUME NEW k \in 1 .. Len(b) PROVE Backed(n, c, Len(a) + k)
    <2> DEFINE p == Len(a) + k
    <2>1. /\ c[p] = b[k] /\ (k > 1 => c[p - 1] = b[k - 1]) /\ (k > 2 => c[p - 2] = b[k - 2])
      <3>1. k > 1 => k - 1 \in 1 .. Len(b) /\ p - 1 = Len(a) + (k - 1)
        BY <1>1
      <3>2. k > 2 => k - 2 \in 1 .. Len(b) /\ p - 2 = Len(a) + (k - 2)
        BY <1>1
      <3> QED
        BY <1>1, <3>1, <3>2
    <2>2. p >= k
      BY <1>1
    <2>3. Backed(n, b, k)
      BY DEF CellBacked
    <2> HIDE DEF p
    <2>4. (k > 1 => p > 1) /\ (k > 2 => p > 2)
      BY <1>1, <2>2 DEF p
    <2> QED
      BY <2>1, <2>3, <2>4 DEF Backed, p
  <1>4. ASSUME NEW p \in 1 .. Len(c) PROVE Backed(n, c, p)
    <2>1. CASE p \in 1 .. Len(a)
      BY <1>2, <2>1
    <2>2. CASE p \notin 1 .. Len(a)
      <3>1. p - Len(a) \in 1 .. Len(b) /\ Len(a) + (p - Len(a)) = p
        BY <1>1, <2>2
      <3> QED
        BY <1>3, <3>1
    <2> QED
      BY <2>1, <2>2
  <1> QED
    BY <1>1, <1>4 DEF CellBacked, c

LEMMA ScriptsJoin ==
    ASSUME NEW n, NEW k \in Nat, NEW a, NEW b, ScriptBacked(n, k, a),
           ScriptBacked(n, k + Len(a), b)
    PROVE  ScriptBacked(n, k, a \o b)
  <1> DEFINE s == a \o b
  <1>1. /\ \E T : s \in Seq(T)
        /\ Len(a) \in Nat /\ Len(b) \in Nat /\ Len(s) = Len(a) + Len(b)
        /\ \A i \in 1 .. Len(a) : s[i] = a[i]
        /\ \A i \in 1 .. Len(b) : s[Len(a) + i] = b[i]
    BY SequencesJoin DEF ScriptBacked
  <1> HIDE DEF s
  <1>2. ASSUME NEW i \in 1 .. Len(s) PROVE CellOK(n, k + i, s[i])
    <2>1. CASE i \in 1 .. Len(a)
      BY <1>1, <2>1 DEF ScriptBacked
    <2>2. CASE i \notin 1 .. Len(a)
      <3>1. /\ i - Len(a) \in 1 .. Len(b) /\ Len(a) + (i - Len(a)) = i
            /\ k + Len(a) + (i - Len(a)) = k + i
        BY <1>1, <2>2
      <3>2. s[i] = b[i - Len(a)]
        BY <1>1, <3>1
      <3>3. CellOK(n, k + Len(a) + (i - Len(a)), b[i - Len(a)])
        BY <3>1 DEF ScriptBacked
      <3> QED
        BY <3>1, <3>2, <3>3
    <2> QED
      BY <2>1, <2>2
  <1> QED
    BY <1>1, <1>2 DEF ScriptBacked, s

LEMMA ShortCells ==
    ASSUME NEW n
    PROVE  /\ \A x : Fine(n, x) => CellBacked(n, <<x>>)
           /\ \A x, y : Fine(n, x) /\ (Fine(n, y) \/ BackedBy(n, x, y)) => CellBacked(n, <<x, y>>)
           /\ \A x, y, z : /\ Fine(n, x) /\ (Fine(n, y) \/ BackedBy(n, x, y))
                           /\ Fine(n, z) \/ BackedBy(n, y, z) \/ BackedByTwo(n, x, y, z)
                           => CellBacked(n, <<x, y, z>>)
  <1>1. ASSUME NEW x, Fine(n, x)
        PROVE  CellBacked(n, <<x>>)
    <2> DEFINE c == <<x>>
    <2>1. c \in Seq({x}) /\ Len(c) = 1 /\ c[1] = x
      OBVIOUS
    <2> HIDE DEF c
    <2>2. Backed(n, c, 1)
      BY <1>1, <2>1 DEF Backed
    <2>3. \A p \in 1 .. 1 : p = 1
      OBVIOUS
    <2>4. CellBacked(n, c)
      BY <2>1, <2>2, <2>3 DEF CellBacked
    <2> QED
      BY <2>4 DEF c
  <1>2. ASSUME NEW x, NEW y, Fine(n, x), Fine(n, y) \/ BackedBy(n, x, y)
        PROVE  CellBacked(n, <<x, y>>)
    <2> DEFINE c == <<x, y>>
    <2>1. c \in Seq({x, y}) /\ Len(c) = 2 /\ c[1] = x /\ c[2] = y
      OBVIOUS
    <2> HIDE DEF c
    <2>2. Backed(n, c, 1) /\ Backed(n, c, 2)
      BY <1>2, <2>1 DEF Backed
    <2>3. \A p \in 1 .. 2 : p = 1 \/ p = 2
      OBVIOUS
    <2>4. CellBacked(n, c)
      BY <2>1, <2>2, <2>3 DEF CellBacked
    <2> QED
      BY <2>4 DEF c
  <1>3. ASSUME NEW x, NEW y, NEW z, Fine(n, x), Fine(n, y) \/ BackedBy(n, x, y),
               Fine(n, z) \/ BackedBy(n, y, z) \/ BackedByTwo(n, x, y, z)
        PROVE  CellBacked(n, <<x, y, z>>)
    <2> DEFINE c == <<x, y, z>>
    <2>1. c \in Seq({x, y, z}) /\ Len(c) = 3 /\ c[1] = x /\ c[2] = y /\ c[3] = z
      OBVIOUS
    <2> HIDE DEF c
    <2>2. Backed(n, c, 1) /\ Backed(n, c, 2) /\ Backed(n, c, 3)
      BY <1>3, <2>1 DEF Backed
    <2>3. \A p \in 1 .. 3 : p = 1 \/ p = 2 \/ p = 3
      OBVIOUS
    <2>4. CellBacked(n, c)
      BY <2>1, <2>2, <2>3 DEF CellBacked
    <2> QED
      BY <2>4 DEF c
  <1> QED
    BY <1>1, <1>2, <1>3

LEMMA ShortScripts ==
    ASSUME NEW n, NEW k
    PROVE  /\ \A a :
                  CellOK(n, k + 1, a) =>
                      ScriptBacked(n, k, <<a>>)
           /\ \A a, b :
                  CellOK(n, k + 1, a) /\ CellOK(n, k + 2, b) =>
                      ScriptBacked(n, k, <<a, b>>)
           /\ \A a, b, c :
                  CellOK(n, k + 1, a) /\ CellOK(n, k + 2, b) /\ CellOK(n, k + 3, c) =>
                      ScriptBacked(n, k, <<a, b, c>>)
           /\ \A a, b, c, d :
                  CellOK(n, k + 1, a) /\ CellOK(n, k + 2, b) /\ CellOK(n, k + 3, c)
                  /\ CellOK(n, k + 4, d) =>
                      ScriptBacked(n, k, <<a, b, c, d>>)
           /\ \A a, b, c, d, e :
                  CellOK(n, k + 1, a) /\ CellOK(n, k + 2, b) /\ CellOK(n, k + 3, c)
                  /\ CellOK(n, k + 4, d) /\ CellOK(n, k + 5, e) =>
                      ScriptBacked(n, k, <<a, b, c, d, e>>)
           /\ \A a, b, c, d, e, f :
                  CellOK(n, k + 1, a) /\ CellOK(n, k + 2, b) /\ CellOK(n, k + 3, c)
                  /\ CellOK(n, k + 4, d) /\ CellOK(n, k + 5, e) /\ CellOK(n, k + 6, f) =>
                      ScriptBacked(n, k, <<a, b, c, d, e, f>>)
  <1>1. ASSUME NEW a,
               CellOK(n, k + 1, a)
        PROVE  ScriptBacked(n, k, <<a>>)
    <2> DEFINE s == <<a>>
    <2>1. /\ s \in Seq({a}) /\ Len(s) = 1
          /\ s[1] = a
      OBVIOUS
    <2> HIDE DEF s
    <2>2. \A p \in 1 .. 1 : p = 1
      OBVIOUS
    <2>3. ScriptBacked(n, k, s)
      BY <1>1, <2>1, <2>2 DEF ScriptBacked
    <2> QED
      BY <2>3 DEF s
  <1>2. ASSUME NEW a, NEW b,
               CellOK(n, k + 1, a), CellOK(n, k + 2, b)
        PROVE  ScriptBacked(n, k, <<a, b>>)
    <2> DEFINE s == <<a, b>>
    <2>1. /\ s \in Seq({a, b}) /\ Len(s) = 2
          /\ s[1] = a /\ s[2] = b
      OBVIOUS
    <2> HIDE DEF s
    <2>2. \A p \in 1 .. 2 : p = 1 \/ p = 2
      OBVIOUS
    <2>3. ScriptBacked(n, k, s)
      BY <1>2, <2>1, <2>2 DEF ScriptBacked
    <2> QED
      BY <2>3 DEF s
  <1>3. ASSUME NEW a, NEW b, NEW c,
               CellOK(n, k + 1, a), CellOK(n, k + 2, b), CellOK(n, k + 3, c)
        PROVE  ScriptBacked(n, k, <<a, b, c>>)
    <2> DEFINE s == <<a, b, c>>
    <2>1. /\ s \in Seq({a, b, c}) /\ Len(s) = 3
          /\ s[1] = a /\ s[2] = b /\ s[3] = c
      OBVIOUS
    <2> HIDE DEF s
    <2>2. \A p \in 1 .. 3 : p = 1 \/ p = 2 \/ p = 3
      OBVIOUS
    <2>3. ScriptBacked(n, k, s)
      BY <1>3, <2>1, <2>2 DEF ScriptBacked
    <2> QED
      BY <2>3 DEF s
  <1>4. ASSUME NEW a, NEW b, NEW c, NEW d,
               CellOK(n, k + 1, a), CellOK(n, k + 2, b), CellOK(n, k + 3, c),
               CellOK(n, k + 4, d)
        PROVE  ScriptBacked(n, k, <<a, b, c, d>>)
    <2> DEFINE s == <<a, b, c, d>>
    <2>1. /\ s \in Seq({a, b, c, d}) /\ Len(s) = 4
          /\ s[1] = a /\ s[2] = b /\ s[3] = c /\ s[4] = d
      OBVIOUS
    <2> HIDE DEF s
    <2>2. \A p \in 1 .. 4 : p = 1 \/ p = 2 \/ p = 3 \/ p = 4
      OBVIOUS
    <2>3. ScriptBacked(n, k, s)
      BY <1>4, <2>1, <2>2 DEF ScriptBacked
    <2> QED
      BY <2>3 DEF s
  <1>5. ASSUME NEW a, NEW b, NEW c, NEW d, NEW e,
               CellOK(n, k + 1, a), CellOK(n, k + 2, b), CellOK(n, k + 3, c),
               CellOK(n, k + 4, d), CellOK(n, k + 5, e)
        PROVE  ScriptBacked(n, k, <<a, b, c, d, e>>)
    <2> DEFINE s == <<a, b, c, d, e>>
    <2>1. /\ s \in Seq({a, b, c, d, e}) /\ Len(s) = 5
          /\ s[1] = a /\ s[2] = b /\ s[3] = c /\ s[4] = d /\ s[5] = e
      OBVIOUS
    <2> HIDE DEF s
    <2>2. \A p \in 1 .. 5 : p = 1 \/ p = 2 \/ p = 3 \/ p = 4 \/ p = 5
      OBVIOUS
    <2>3. ScriptBacked(n, k, s)
      BY <1>5, <2>1, <2>2 DEF ScriptBacked
    <2> QED
      BY <2>3 DEF s
  <1>6. ASSUME NEW a, NEW b, NEW c, NEW d, NEW e, NEW f,
               CellOK(n, k + 1, a), CellOK(n, k + 2, b), CellOK(n, k + 3, c),
               CellOK(n, k + 4, d), CellOK(n, k + 5, e), CellOK(n, k + 6, f)
        PROVE  ScriptBacked(n, k, <<a, b, c, d, e, f>>)
    <2> DEFINE s == <<a, b, c, d, e, f>>
    <2>1. /\ s \in Seq({a, b, c, d, e, f}) /\ Len(s) = 6
          /\ s[1] = a /\ s[2] = b /\ s[3] = c /\ s[4] = d /\ s[5] = e /\ s[6] = f
      OBVIOUS
    <2> HIDE DEF s
    <2>2. \A p \in 1 .. 6 : p = 1 \/ p = 2 \/ p = 3 \/ p = 4 \/ p = 5 \/ p = 6
      OBVIOUS
    <2>3. ScriptBacked(n, k, s)
      BY <1>6, <2>1, <2>2 DEF ScriptBacked
    <2> QED
      BY <2>3 DEF s
  <1> QED
    BY <1>1, <1>2, <1>3, <1>4, <1>5, <1>6

-----------------------------------------------------------------------------
(* THE LABELS: NOTEBOOK BY NOTEBOOK.                                       *)
LEMMA QuietOps ==
    ASSUME NEW n
    PROVE  /\ Fine(n, Compare) /\ Fine(n, ClearCache) /\ Fine(n, Rmtree) /\ Fine(n, GetConf)
           /\ \A f : /\ Fine(n, Action(f)) /\ Fine(n, Cache(f)) /\ Fine(n, Unpersist(f))
                    /\ Fine(n, DropView(f)) /\ Fine(n, Sql(f)) /\ Fine(n, WriteTable(f))
                    /\ Fine(n, ReadTable(f))
           /\ \A x, y : /\ Fine(n, Profile(x, y)) /\ Fine(n, Conf(x, y)) /\ Fine(n, View(x, y))
                       /\ Fine(n, Frame(x, y)) /\ Frame(x, y).op = "frame"
  <1> USE DEF Fine, Labelled
  <1>1. Fine(n, Compare) /\ Fine(n, ClearCache) /\ Fine(n, Rmtree) /\ Fine(n, GetConf)
    BY DEF Compare, ClearCache, Rmtree, GetConf, Op
  <1>2. \A f : Fine(n, Action(f)) /\ Fine(n, Cache(f)) /\ Fine(n, Unpersist(f))
    BY DEF Action, Cache, Unpersist
  <1>3. \A f : /\ Fine(n, DropView(f)) /\ Fine(n, Sql(f)) /\ Fine(n, WriteTable(f))
              /\ Fine(n, ReadTable(f))
    BY DEF DropView, Sql, WriteTable, ReadTable
  <1>4. \A x, y : /\ Fine(n, Profile(x, y)) /\ Fine(n, Conf(x, y)) /\ Fine(n, View(x, y))
                 /\ Fine(n, Frame(x, y)) /\ Frame(x, y).op = "frame"
    BY DEF Profile, Conf, View, Frame
  <1> QED
    BY <1>1, <1>2, <1>3, <1>4

LEMMA ShownIs ==
    ASSUME NEW x, NEW f, NEW q, NEW m \in {Measure(x, f, q), Explain(x, f, q)}
    PROVE  m.op \in {"explain", "measure"} /\ m.into = x /\ m.q = q /\ m.f = f
  BY DEF Measure, Explain

LEMMA FineWhere ==
    ASSUME NEW n, NEW x, NEW f, NEW q
    PROVE  /\ x \notin DOMAIN Labels[n] => Fine(n, Measure(x, f, q)) /\ Fine(n, Explain(x, f, q))
           /\ \A l : Labels[n][x] = l /\ Always(q, l) =>
                       Fine(n, Measure(x, f, q)) /\ Fine(n, Explain(x, f, q))
           /\ \A l, s : Labels[n][x] = l /\ Sets(s) /\ Yields(s, q, l) =>
                          After(n, s, Measure(x, f, q)) /\ After(n, s, Explain(x, f, q))
  <1>1. ASSUME NEW m \in {Measure(x, f, q), Explain(x, f, q)}
        PROVE  /\ x \notin DOMAIN Labels[n] => Fine(n, m)
               /\ \A l : Labels[n][x] = l /\ Always(q, l) => Fine(n, m)
               /\ \A l, s : Labels[n][x] = l /\ Sets(s) /\ Yields(s, q, l) => After(n, s, m)
    BY ShownIs DEF Fine, Labelled, After
  <1> QED
    BY <1>1

LEMMA SettingsSet ==
    /\ \A x \in {"constrained", "tuned"} :
           /\ Sets(Profile(x, NoOver)) /\ Sets(Profile(x, Laptop))
           /\ \A n : Sets(Profile(x, Parts(n)))
    /\ \A v : Sets(Conf("codegen", v))
  <1> USE DEF Sets, DefaultConf
  <1>1. \A x \in {"constrained", "tuned"} : DOMAIN PROFILES[x] \subseteq DOMAIN DefaultConf
    BY DEF PROFILES
  <1>2. ASSUME NEW x \in {"constrained", "tuned"}
        PROVE  /\ Sets(Profile(x, NoOver)) /\ Sets(Profile(x, Laptop))
               /\ \A n : Sets(Profile(x, Parts(n)))
    BY <1>1 DEF Profile, NoOver, Laptop, Parts
  <1>3. \A v : Sets(Conf("codegen", v))
    BY DEF Conf
  <1> QED
    BY <1>2, <1>3

(* Longer cells: what each operation follows. *)
Follows(n, x, y) == Fine(n, y) \/ BackedBy(n, x, y)
FollowsTwo(n, x, y, z) == Follows(n, y, z) \/ BackedByTwo(n, x, y, z)

LEMMA FourOps ==
    ASSUME NEW n, NEW w, NEW x, NEW y, NEW z,
           Fine(n, w), Follows(n, w, x),
           FollowsTwo(n, w, x, y), FollowsTwo(n, x, y, z)
    PROVE  CellBacked(n, <<w, x, y, z>>)
  <1> DEFINE c == <<w, x, y, z>>
  <1>1. /\ c \in Seq({w, x, y, z}) /\ Len(c) = 4
        /\ c[1] = w /\ c[2] = x /\ c[3] = y /\ c[4] = z
    OBVIOUS
  <1> HIDE DEF c
  <1>2. Backed(n, c, 1)
    BY <1>1 DEF Backed, Follows, FollowsTwo
  <1>3. Backed(n, c, 2)
    BY <1>1 DEF Backed, Follows, FollowsTwo
  <1>4. Backed(n, c, 3)
    BY <1>1 DEF Backed, Follows, FollowsTwo
  <1>5. Backed(n, c, 4)
    BY <1>1 DEF Backed, Follows, FollowsTwo
  <1>6. \A p \in 1 .. 4 : p = 1 \/ p = 2 \/ p = 3 \/ p = 4
    OBVIOUS
  <1>7. CellBacked(n, c)
    BY <1>1, <1>2, <1>3, <1>4, <1>5, <1>6 DEF CellBacked
  <1> QED
    BY <1>7 DEF c

LEMMA FiveOps ==
    ASSUME NEW n, NEW v, NEW w, NEW x, NEW y, NEW z,
           Fine(n, v), Follows(n, v, w),
           FollowsTwo(n, v, w, x), FollowsTwo(n, w, x, y), FollowsTwo(n, x, y, z)
    PROVE  CellBacked(n, <<v, w, x, y, z>>)
  <1> DEFINE c == <<v, w, x, y, z>>
  <1>1. /\ c \in Seq({v, w, x, y, z}) /\ Len(c) = 5
        /\ c[1] = v /\ c[2] = w /\ c[3] = x /\ c[4] = y /\ c[5] = z
    OBVIOUS
  <1> HIDE DEF c
  <1>2. Backed(n, c, 1)
    BY <1>1 DEF Backed, Follows, FollowsTwo
  <1>3. Backed(n, c, 2)
    BY <1>1 DEF Backed, Follows, FollowsTwo
  <1>4. Backed(n, c, 3)
    BY <1>1 DEF Backed, Follows, FollowsTwo
  <1>5. Backed(n, c, 4)
    BY <1>1 DEF Backed, Follows, FollowsTwo
  <1>6. Backed(n, c, 5)
    BY <1>1 DEF Backed, Follows, FollowsTwo
  <1>7. \A p \in 1 .. 5 : p = 1 \/ p = 2 \/ p = 3 \/ p = 4 \/ p = 5
    OBVIOUS
  <1>8. CellBacked(n, c)
    BY <1>1, <1>2, <1>3, <1>4, <1>5, <1>6, <1>7 DEF CellBacked
  <1> QED
    BY <1>8 DEF c

LEMMA SixOps ==
    ASSUME NEW n, NEW u, NEW v, NEW w, NEW x, NEW y, NEW z,
           Fine(n, u), Follows(n, u, v),
           FollowsTwo(n, u, v, w), FollowsTwo(n, v, w, x), FollowsTwo(n, w, x, y),
           FollowsTwo(n, x, y, z)
    PROVE  CellBacked(n, <<u, v, w, x, y, z>>)
  <1> DEFINE c == <<u, v, w, x, y, z>>
  <1>1. /\ c \in Seq({u, v, w, x, y, z}) /\ Len(c) = 6
        /\ c[1] = u /\ c[2] = v /\ c[3] = w /\ c[4] = x /\ c[5] = y /\ c[6] = z
    OBVIOUS
  <1> HIDE DEF c
  <1>2. Backed(n, c, 1)
    BY <1>1 DEF Backed, Follows, FollowsTwo
  <1>3. Backed(n, c, 2)
    BY <1>1 DEF Backed, Follows, FollowsTwo
  <1>4. Backed(n, c, 3)
    BY <1>1 DEF Backed, Follows, FollowsTwo
  <1>5. Backed(n, c, 4)
    BY <1>1 DEF Backed, Follows, FollowsTwo
  <1>6. Backed(n, c, 5)
    BY <1>1 DEF Backed, Follows, FollowsTwo
  <1>7. Backed(n, c, 6)
    BY <1>1 DEF Backed, Follows, FollowsTwo
  <1>8. \A p \in 1 .. 6 : p = 1 \/ p = 2 \/ p = 3 \/ p = 4 \/ p = 5 \/ p = 6
    OBVIOUS
  <1>9. CellBacked(n, c)
    BY <1>1, <1>2, <1>3, <1>4, <1>5, <1>6, <1>7, <1>8 DEF CellBacked
  <1> QED
    BY <1>9 DEF c

LEMMA TwoHundredYield ==
    /\ Yields(Profile("constrained", Parts(200)), AggQ(TRUE), AggRun(200, FALSE))
    /\ Yields(Profile("constrained", Parts(200)), AggQ(FALSE), AggRun(200, FALSE))
  BY ManyPartsYield DEF AggQ, AggRun

LEMMA TeardownBacked == \A n : CellBacked(n, Teardown)
  BY QuietOps, ShortCells DEF Teardown

LEMMA PlanBacked ==
    ASSUME NEW n, NEW s, NEW x, NEW f, NEW q, "plan" \notin DOMAIN Labels[n], Fine(n, s),
           After(n, s, Measure(x, f, q))
    PROVE  CellBacked(n, MeasurePlan(s, x, f, q))
  <1>1. Fine(n, Explain("plan", f, q))
    BY FineWhere
  <1>2. BackedBy(n, s, Measure(x, f, q))
    BY DEF BackedBy
  <1> QED
    BY <1>1, <1>2, ShortCells DEF MeasurePlan

LEMMA Spk1Backed == ScriptBacked("spk1", 0, Cells.spk1)
  <1>1. Labels["spk1"] = Spk1Labels
    BY DEF Labels
  <1>2. After("spk1", Profile("constrained", NoOver), Measure("m_broken", "fact", Skew))
    <2>1. Spk1Labels["m_broken"] = SkewRun("SMJ", TRUE)
      BY DEF Spk1Labels
    <2>2. Yields(Profile("constrained", NoOver), Skew, SkewRun("SMJ", TRUE))
      BY JoinsYield, Zenon
    <2>3. Sets(Profile("constrained", NoOver))
      BY SettingsSet, Zenon
    <2> QED
      BY <1>1, <2>1, <2>2, <2>3, FineWhere, Zenon
  <1>3. After("spk1", Profile("tuned", Laptop), Measure("m_aqe", "fact", Skew))
    <2>1. Spk1Labels["m_aqe"] = SkewRun("SMJ", FALSE)
      BY DEF Spk1Labels
    <2>2. Yields(Profile("tuned", Laptop), Skew, SkewRun("SMJ", FALSE))
      BY JoinsYield, Zenon
    <2>3. Sets(Profile("tuned", Laptop))
      BY SettingsSet, Zenon
    <2> QED
      BY <1>1, <2>1, <2>2, <2>3, FineWhere, Zenon
  <1>4. Fine("spk1", Measure("m_bcast", "fact", JoinQ("skewed", "broadcast", FALSE)))
    <2>1. Spk1Labels["m_bcast"] = SkewRun("BHJ", FALSE)
      BY DEF Spk1Labels
    <2>2. Always(JoinQ("skewed", "broadcast", FALSE), SkewRun("BHJ", FALSE))
      BY AlwaysSo, Zenon
    <2> QED
      BY <1>1, <2>1, <2>2, FineWhere, Zenon
  <1>5. CellBacked("spk1", <<Frame("fact", {}), Frame("dim", {})>>)
    BY <1>2, <1>3, <1>4, QuietOps, ShortCells, Zenon DEF BackedBy, BackedByTwo
  <1>6. CellBacked("spk1", <<Action("fact")>>)
    BY <1>2, <1>3, <1>4, QuietOps, ShortCells, Zenon DEF BackedBy, BackedByTwo
  <1>7. CellBacked("spk1", <<Profile("constrained", NoOver), Measure("m_broken", "fact", Skew)>>)
    BY <1>2, <1>3, <1>4, QuietOps, ShortCells, Zenon DEF BackedBy, BackedByTwo
  <1>8. \A k : ScriptBacked("spk1", k, Spk1Break)
    BY <1>5, <1>6, <1>7, TeardownBacked, ShortScripts, Zenon DEF CellOK, Spk1Break
  <1>9. CellBacked("spk1", <<Profile("tuned", Laptop), Measure("m_aqe", "fact", Skew)>>)
    BY <1>2, <1>3, <1>4, QuietOps, ShortCells, Zenon DEF BackedBy, BackedByTwo
  <1>10. CellBacked("spk1",
                    <<Profile("tuned", NoOver),
                      Measure("m_bcast", "fact", JoinQ("skewed", "broadcast", FALSE))>>)
    BY <1>2, <1>3, <1>4, QuietOps, ShortCells, Zenon DEF BackedBy, BackedByTwo
  <1>11. CellBacked("spk1", <<Compare>>)
    BY <1>2, <1>3, <1>4, QuietOps, ShortCells, Zenon DEF BackedBy, BackedByTwo
  <1>12. GoesOn("spk1", 3 + 1)
    BY DEF GoesOn
  <1>13. ScriptBacked("spk1", 3, Spk1Fix)
    BY <1>12, <1>9, <1>10, <1>11, TeardownBacked, ShortScripts, Zenon DEF CellOK, Spk1Fix
  <1>14. 0 + Len(Spk1Break) = 3
    BY DEF Spk1Break
  <1> QED
    BY <1>8, <1>13, <1>14, ScriptsJoin DEF Cells

LEMMA Spk2Backed == ScriptBacked("spk2", 0, Cells.spk2)
  <1>1. Labels["spk2"] = Spk2Labels
    BY DEF Labels
  <1>2. After("spk2", Profile("constrained", NoOver), Measure("m_tight", "wide", AggQ(TRUE)))
    <2>1. Spk2Labels["m_tight"] = AggRun(16, TRUE)
      BY DEF Spk2Labels
    <2>2. Yields(Profile("constrained", NoOver), AggQ(TRUE), AggRun(16, TRUE))
      BY AggregationsYield, Zenon
    <2>3. Sets(Profile("constrained", NoOver))
      BY SettingsSet, Zenon
    <2> QED
      BY <1>1, <2>1, <2>2, <2>3, FineWhere, Zenon
  <1>3. After("spk2", Profile("tuned", NoOver), Measure("m_tuned", "wide", AggQ(TRUE)))
    <2>1. Spk2Labels["m_tuned"] = AggRun(1, FALSE)
      BY DEF Spk2Labels
    <2>2. Yields(Profile("tuned", NoOver), AggQ(TRUE), AggRun(1, FALSE))
      BY AggregationsYield, Zenon
    <2>3. Sets(Profile("tuned", NoOver))
      BY SettingsSet, Zenon
    <2> QED
      BY <1>1, <2>1, <2>2, <2>3, FineWhere, Zenon
  <1>4. CellBacked("spk2", <<Frame("wide", {})>>)
    BY <1>2, <1>3, QuietOps, ShortCells, Zenon DEF BackedBy, BackedByTwo
  <1>5. CellBacked("spk2",
                   <<Profile("constrained", NoOver), Measure("m_tight", "wide", AggQ(TRUE))>>)
    BY <1>2, <1>3, QuietOps, ShortCells, Zenon DEF BackedBy, BackedByTwo
  <1>6. CellBacked("spk2", <<Profile("tuned", NoOver), Measure("m_tuned", "wide", AggQ(TRUE))>>)
    BY <1>2, <1>3, QuietOps, ShortCells, Zenon DEF BackedBy, BackedByTwo
  <1>7. CellBacked("spk2", <<Compare>>)
    BY <1>2, <1>3, QuietOps, ShortCells, Zenon DEF BackedBy, BackedByTwo
  <1>8. CellBacked("spk2", <<ClearCache, Profile("tuned", NoOver)>>)
    BY <1>2, <1>3, QuietOps, ShortCells, Zenon DEF BackedBy, BackedByTwo
  <1>9. \A k : ScriptBacked("spk2", k, Spk2)
    BY <1>4, <1>5, <1>6, <1>7, <1>8, TeardownBacked, ShortScripts, Zenon DEF CellOK, Spk2
  <1> QED
    BY <1>9, ScriptsJoin DEF Cells

LEMMA Spk3Backed == ScriptBacked("spk3", 0, Cells.spk3)
  <1>1. Labels["spk3"] = Spk3Labels
    BY DEF Labels
  <1>2. Fine("spk3", Measure("m_bcast", "fact", JoinQ("even", "broadcast", FALSE)))
    <2>1. Spk3Labels["m_bcast"] = JoinRun("BHJ")
      BY DEF Spk3Labels
    <2>2. Always(JoinQ("even", "broadcast", FALSE), JoinRun("BHJ"))
      BY AlwaysSo, Zenon
    <2> QED
      BY <1>1, <2>1, <2>2, FineWhere, Zenon
  <1>3. Fine("spk3", Measure("m_agg", "fact", AggQ(FALSE)))
    <2>1. "m_agg" \notin DOMAIN Spk3Labels
      BY DEF Spk3Labels
    <2> QED
      BY <1>1, <2>1, FineWhere, Zenon
  <1>4. Fine("spk3", Measure("m_limit", "wide_fact", CachedQ))
    <2>1. "m_limit" \notin DOMAIN Spk3Labels
      BY DEF Spk3Labels
    <2> QED
      BY <1>1, <2>1, FineWhere, Zenon
  <1>5. CellBacked("spk3",
                   <<Frame("wide_fact", {}), Frame("fact", {}), Frame("dim", {}),
                     Action("wide_fact")>>)
    BY <1>2, <1>3, <1>4, QuietOps, FourOps, Zenon DEF Follows, FollowsTwo, BackedBy, BackedByTwo
  <1>6. CellBacked("spk3", <<Measure("m_agg", "fact", AggQ(FALSE)), Action("fact")>>)
    BY <1>2, <1>3, <1>4, QuietOps, ShortCells, Zenon DEF BackedBy, BackedByTwo
  <1>7. \A k : ScriptBacked("spk3", k, Spk3Aggregate)
    BY <1>5, <1>6, TeardownBacked, ShortScripts, Zenon DEF CellOK, Spk3Aggregate
  <1>8. CellBacked("spk3", <<Measure("m_limit", "wide_fact", CachedQ)>>)
    BY <1>2, <1>3, <1>4, QuietOps, ShortCells, Zenon DEF BackedBy, BackedByTwo
  <1>9. CellBacked("spk3",
                   <<Profile("tuned", NoOver),
                     Measure("m_bcast", "fact", JoinQ("even", "broadcast", FALSE))>>)
    BY <1>2, <1>3, <1>4, QuietOps, ShortCells, Zenon DEF BackedBy, BackedByTwo
  <1>10. CellBacked("spk3", <<Compare>>)
    BY <1>2, <1>3, <1>4, QuietOps, ShortCells, Zenon DEF BackedBy, BackedByTwo
  <1>11. \A k : ScriptBacked("spk3", k, Spk3Limit)
    BY <1>8, <1>9, <1>10, TeardownBacked, ShortScripts, Zenon DEF CellOK, Spk3Limit
  <1> QED
    BY <1>7, <1>11, ScriptsJoin DEF Cells

LEMMA Spk4Backed == ScriptBacked("spk4", 0, Cells.spk4)
  <1>1. Labels["spk4"] = Spk4Labels
    BY DEF Labels
  <1>2. After("spk4", Profile("constrained", NoOver), Measure("m_spilling", "fact", AggQ(TRUE)))
    <2>1. Spk4Labels["m_spilling"] = AggRun(16, TRUE)
      BY DEF Spk4Labels
    <2>2. Yields(Profile("constrained", NoOver), AggQ(TRUE), AggRun(16, TRUE))
      BY AggregationsYield, Zenon
    <2>3. Sets(Profile("constrained", NoOver))
      BY SettingsSet, Zenon
    <2> QED
      BY <1>1, <2>1, <2>2, <2>3, FineWhere, Zenon
  <1>3. After("spk4", Profile("constrained", Parts(200)), Measure("m_200", "fact", AggQ(TRUE)))
    <2>1. Spk4Labels["m_200"] = AggRun(200, FALSE)
      BY DEF Spk4Labels
    <2>2. Yields(Profile("constrained", Parts(200)), AggQ(TRUE), AggRun(200, FALSE))
      BY TwoHundredYield, Zenon
    <2>3. Sets(Profile("constrained", Parts(200)))
      BY SettingsSet, Zenon
    <2> QED
      BY <1>1, <2>1, <2>2, <2>3, FineWhere, Zenon
  <1>4. After("spk4", Profile("tuned", NoOver), Measure("m_tuned", "fact", AggQ(TRUE)))
    <2>1. Spk4Labels["m_tuned"] = AggRun(1, FALSE)
      BY DEF Spk4Labels
    <2>2. Yields(Profile("tuned", NoOver), AggQ(TRUE), AggRun(1, FALSE))
      BY AggregationsYield, Zenon
    <2>3. Sets(Profile("tuned", NoOver))
      BY SettingsSet, Zenon
    <2> QED
      BY <1>1, <2>1, <2>2, <2>3, FineWhere, Zenon
  <1>5. CellBacked("spk4", <<Frame("fact", {})>>)
    BY <1>2, <1>3, <1>4, QuietOps, ShortCells, Zenon DEF BackedBy, BackedByTwo
  <1>6. CellBacked("spk4", <<Action("fact")>>)
    BY <1>2, <1>3, <1>4, QuietOps, ShortCells, Zenon DEF BackedBy, BackedByTwo
  <1>7. CellBacked("spk4",
                   <<Profile("constrained", NoOver), Measure("m_spilling", "fact", AggQ(TRUE))>>)
    BY <1>2, <1>3, <1>4, QuietOps, ShortCells, Zenon DEF BackedBy, BackedByTwo
  <1>8. \A k : ScriptBacked("spk4", k, Spk4Break)
    BY <1>5, <1>6, <1>7, TeardownBacked, ShortScripts, Zenon DEF CellOK, Spk4Break
  <1>9. CellBacked("spk4",
                   <<Profile("constrained", Parts(200)), Measure("m_200", "fact", AggQ(TRUE))>>)
    BY <1>2, <1>3, <1>4, QuietOps, ShortCells, Zenon DEF BackedBy, BackedByTwo
  <1>10. CellBacked("spk4", <<Profile("tuned", NoOver), Measure("m_tuned", "fact", AggQ(TRUE))>>)
    BY <1>2, <1>3, <1>4, QuietOps, ShortCells, Zenon DEF BackedBy, BackedByTwo
  <1>11. CellBacked("spk4", <<Compare>>)
    BY <1>2, <1>3, <1>4, QuietOps, ShortCells, Zenon DEF BackedBy, BackedByTwo
  <1>12. \A k : ScriptBacked("spk4", k, Spk4Fix)
    BY <1>9, <1>10, <1>11, TeardownBacked, ShortScripts, Zenon DEF CellOK, Spk4Fix
  <1> QED
    BY <1>8, <1>12, ScriptsJoin DEF Cells

LEMMA Spk5Backed == ScriptBacked("spk5", 0, Cells.spk5)
  <1>1. Labels["spk5"] = Spk5Labels
    BY DEF Labels
  <1>2. After("spk5", Profile("tuned", NoOver), Explain("x_bcast", "bcast_join", Plain))
    <2>1. Spk5Labels["x_bcast"] = Plan("BHJ")
      BY DEF Spk5Labels
    <2>2. Yields(Profile("tuned", NoOver), Plain, Plan("BHJ"))
      BY JoinsYield, Zenon
    <2>3. Sets(Profile("tuned", NoOver))
      BY SettingsSet, Zenon
    <2> QED
      BY <1>1, <2>1, <2>2, <2>3, FineWhere, Zenon
  <1>3. After("spk5", Profile("constrained", NoOver), Explain("x_smj", "smj_join", Plain))
    <2>1. Spk5Labels["x_smj"] = Plan("SMJ")
      BY DEF Spk5Labels
    <2>2. Yields(Profile("constrained", NoOver), Plain, Plan("SMJ"))
      BY JoinsYield, Zenon
    <2>3. Sets(Profile("constrained", NoOver))
      BY SettingsSet, Zenon
    <2> QED
      BY <1>1, <2>1, <2>2, <2>3, FineWhere, Zenon
  <1>4. Fine("spk5", Explain("x_shj", "shj_join", JoinQ("even", "shuffle_hash", FALSE)))
    <2>1. Spk5Labels["x_shj"] = Plan("SHJ")
      BY DEF Spk5Labels
    <2>2. Always(JoinQ("even", "shuffle_hash", FALSE), Plan("SHJ"))
      BY AlwaysSo, Zenon
    <2> QED
      BY <1>1, <2>1, <2>2, FineWhere, Zenon
  <1>5. Fine("spk5", Measure("m_shj", "shj_join", JoinQ("even", "shuffle_hash", FALSE)))
    <2>1. Spk5Labels["m_shj"] = JoinRun("SHJ")
      BY DEF Spk5Labels
    <2>2. Always(JoinQ("even", "shuffle_hash", FALSE), JoinRun("SHJ"))
      BY AlwaysSo, Zenon
    <2> QED
      BY <1>1, <2>1, <2>2, FineWhere, Zenon
  <1>6. Fine("spk5", Explain("x_hinted", "fact", JoinQ("even", "broadcast", FALSE)))
    <2>1. Spk5Labels["x_hinted"] = Plan("BHJ")
      BY DEF Spk5Labels
    <2>2. Always(JoinQ("even", "broadcast", FALSE), Plan("BHJ"))
      BY AlwaysSo, Zenon
    <2> QED
      BY <1>1, <2>1, <2>2, FineWhere, Zenon
  <1>7. CellBacked("spk5", <<Frame("fact", {}), Frame("dim", {})>>)
    BY <1>2, <1>3, <1>4, <1>5, <1>6, QuietOps, ShortCells, Zenon DEF BackedBy, BackedByTwo
  <1>8. CellBacked("spk5", <<Action("dim")>>)
    BY <1>2, <1>3, <1>4, <1>5, <1>6, QuietOps, ShortCells, Zenon DEF BackedBy, BackedByTwo
  <1>9. CellBacked("spk5",
                   <<Profile("tuned", NoOver), Frame("bcast_join", {"fact", "dim"}),
                     Explain("x_bcast", "bcast_join", Plain)>>)
    BY <1>2, <1>3, <1>4, <1>5, <1>6, QuietOps, ShortCells, Zenon DEF BackedBy, BackedByTwo
  <1>10. CellBacked("spk5",
                    <<Profile("constrained", NoOver), Frame("smj_join", {"fact", "dim"}),
                      Explain("x_smj", "smj_join", Plain)>>)
    BY <1>2, <1>3, <1>4, <1>5, <1>6, QuietOps, ShortCells, Zenon DEF BackedBy, BackedByTwo
  <1>11. GoesOn("spk5", 0 + 4)
    BY DEF GoesOn
  <1>12. GoesOn("spk5", 0 + 6)
    BY DEF GoesOn
  <1>13. ScriptBacked("spk5", 0, Spk5Join)
    BY <1>11, <1>12, <1>7, <1>8, <1>9, <1>10, TeardownBacked, ShortScripts, Zenon DEF CellOK,
       Spk5Join
  <1>14. CellBacked("spk5",
                    <<Profile("constrained", NoSMJ), Frame("shj_join", {"fact", "dim"}),
                      Explain("x_shj", "shj_join", JoinQ("even", "shuffle_hash", FALSE))>>)
    BY <1>2, <1>3, <1>4, <1>5, <1>6, QuietOps, ShortCells, Zenon DEF BackedBy, BackedByTwo
  <1>15. CellBacked("spk5", <<Measure("m_shj", "shj_join", JoinQ("even", "shuffle_hash", FALSE))>>)
    BY <1>2, <1>3, <1>4, <1>5, <1>6, QuietOps, ShortCells, Zenon DEF BackedBy, BackedByTwo
  <1>16. CellBacked("spk5",
                    <<Profile("constrained", NoOver),
                      Explain("x_hinted", "fact", JoinQ("even", "broadcast", FALSE)),
                      View("events", "fact"), View("dimension", "dim"),
                      Sql({"events", "dimension"})>>)
    BY <1>2, <1>3, <1>4, <1>5, <1>6, QuietOps, FiveOps, Zenon DEF Follows, FollowsTwo, BackedBy,
       BackedByTwo
  <1>17. CellBacked("spk5", <<Compare>>)
    BY <1>2, <1>3, <1>4, <1>5, <1>6, QuietOps, ShortCells, Zenon DEF BackedBy, BackedByTwo
  <1>18. CellBacked("spk5", <<DropView("events"), DropView("dimension")>>)
    BY <1>2, <1>3, <1>4, <1>5, <1>6, QuietOps, ShortCells, Zenon DEF BackedBy, BackedByTwo
  <1>19. CellBacked("spk5", <<DropView("events"), DropView("dimension")>> \o Teardown)
    BY <1>18, TeardownBacked, CellsJoin, Zenon
  <1>20. \A k : ScriptBacked("spk5", k, Spk5Hint)
    BY <1>14, <1>15, <1>16, <1>17, <1>19, TeardownBacked, ShortScripts, Zenon DEF CellOK, Spk5Hint
  <1> QED
    BY <1>13, <1>20, ScriptsJoin DEF Cells

LEMMA Spk6Backed == ScriptBacked("spk6", 0, Cells.spk6)
  <1>1. Labels["spk6"] = Spk6Labels
    BY DEF Labels
  <1>2. "plan" \notin DOMAIN Labels["spk6"]
    BY <1>1 DEF Spk6Labels
  <1>3. After("spk6", Profile("constrained", Parts(200)), Measure("m_a_off", "agg_a", AggQ(FALSE)))
    <2>1. Spk6Labels["m_a_off"] = AggRun(200, FALSE)
      BY DEF Spk6Labels
    <2>2. Yields(Profile("constrained", Parts(200)), AggQ(FALSE), AggRun(200, FALSE))
      BY TwoHundredYield, Zenon
    <2>3. Sets(Profile("constrained", Parts(200)))
      BY SettingsSet, Zenon
    <2> QED
      BY <1>1, <2>1, <2>2, <2>3, FineWhere, Zenon
  <1>4. CellBacked("spk6",
                   MeasurePlan(Profile("constrained", Parts(200)), "m_a_off", "agg_a", AggQ(FALSE)))
    BY <1>2, <1>3, QuietOps, PlanBacked, Zenon
  <1>5. After("spk6", Profile("tuned", Parts(200)), Measure("m_a_on", "agg_a", AggQ(FALSE)))
    <2>1. Spk6Labels["m_a_on"] = AggRun(1, FALSE)
      BY DEF Spk6Labels
    <2>2. Yields(Profile("tuned", Parts(200)), AggQ(FALSE), AggRun(1, FALSE))
      BY AggregationsYield, Zenon
    <2>3. Sets(Profile("tuned", Parts(200)))
      BY SettingsSet, Zenon
    <2> QED
      BY <1>1, <2>1, <2>2, <2>3, FineWhere, Zenon
  <1>6. CellBacked("spk6",
                   MeasurePlan(Profile("tuned", Parts(200)), "m_a_on", "agg_a", AggQ(FALSE)))
    BY <1>2, <1>5, QuietOps, PlanBacked, Zenon
  <1>7. After("spk6", Profile("constrained", NoOver), Measure("m_b_off", "join_b", Skew))
    <2>1. Spk6Labels["m_b_off"] = SkewRun("SMJ", TRUE)
      BY DEF Spk6Labels
    <2>2. Yields(Profile("constrained", NoOver), Skew, SkewRun("SMJ", TRUE))
      BY JoinsYield, Zenon
    <2>3. Sets(Profile("constrained", NoOver))
      BY SettingsSet, Zenon
    <2> QED
      BY <1>1, <2>1, <2>2, <2>3, FineWhere, Zenon
  <1>8. CellBacked("spk6", MeasurePlan(Profile("constrained", NoOver), "m_b_off", "join_b", Skew))
    BY <1>2, <1>7, QuietOps, PlanBacked, Zenon
  <1>9. After("spk6", Profile("tuned", Laptop), Measure("m_b_on", "join_b", Skew))
    <2>1. Spk6Labels["m_b_on"] = SkewRun("SMJ", FALSE)
      BY DEF Spk6Labels
    <2>2. Yields(Profile("tuned", Laptop), Skew, SkewRun("SMJ", FALSE))
      BY JoinsYield, Zenon
    <2>3. Sets(Profile("tuned", Laptop))
      BY SettingsSet, Zenon
    <2> QED
      BY <1>1, <2>1, <2>2, <2>3, FineWhere, Zenon
  <1>10. CellBacked("spk6", MeasurePlan(Profile("tuned", Laptop), "m_b_on", "join_b", Skew))
    BY <1>2, <1>9, QuietOps, PlanBacked, Zenon
  <1>11. After("spk6", Profile("constrained", NoOver), Measure("m_c_off", "join_c", Plain))
    <2>1. Spk6Labels["m_c_off"] = JoinRun("SMJ")
      BY DEF Spk6Labels
    <2>2. Yields(Profile("constrained", NoOver), Plain, JoinRun("SMJ"))
      BY JoinsYield, Zenon
    <2>3. Sets(Profile("constrained", NoOver))
      BY SettingsSet, Zenon
    <2> QED
      BY <1>1, <2>1, <2>2, <2>3, FineWhere, Zenon
  <1>12. CellBacked("spk6", MeasurePlan(Profile("constrained", NoOver), "m_c_off", "join_c", Plain))
    BY <1>2, <1>11, QuietOps, PlanBacked, Zenon
  <1>13. After("spk6", Profile("tuned", NoOver), Measure("m_c_on", "join_c", Plain))
    <2>1. Spk6Labels["m_c_on"] = JoinRun("BHJ")
      BY DEF Spk6Labels
    <2>2. Yields(Profile("tuned", NoOver), Plain, JoinRun("BHJ"))
      BY JoinsYield, Zenon
    <2>3. Sets(Profile("tuned", NoOver))
      BY SettingsSet, Zenon
    <2> QED
      BY <1>1, <2>1, <2>2, <2>3, FineWhere, Zenon
  <1>14. CellBacked("spk6", MeasurePlan(Profile("tuned", NoOver), "m_c_on", "join_c", Plain))
    BY <1>2, <1>13, QuietOps, PlanBacked, Zenon
  <1>15. After("spk6", Profile("constrained", NoOver), Measure("m_tiny_off", "tiny", AggQ(FALSE)))
    <2>1. Spk6Labels["m_tiny_off"] = AggRun(16, FALSE)
      BY DEF Spk6Labels
    <2>2. Yields(Profile("constrained", NoOver), AggQ(FALSE), AggRun(16, FALSE))
      BY AggregationsYield, Zenon
    <2>3. Sets(Profile("constrained", NoOver))
      BY SettingsSet, Zenon
    <2> QED
      BY <1>1, <2>1, <2>2, <2>3, FineWhere, Zenon
  <1>16. After("spk6", Profile("tuned", NoOver), Measure("m_tiny_on", "tiny", AggQ(FALSE)))
    <2>1. Spk6Labels["m_tiny_on"] = AggRun(1, FALSE)
      BY DEF Spk6Labels
    <2>2. Yields(Profile("tuned", NoOver), AggQ(FALSE), AggRun(1, FALSE))
      BY AggregationsYield, Zenon
    <2>3. Sets(Profile("tuned", NoOver))
      BY SettingsSet, Zenon
    <2> QED
      BY <1>1, <2>1, <2>2, <2>3, FineWhere, Zenon
  <1>17. CellBacked("spk6", <<Frame("agg_a", {})>>)
    BY QuietOps, ShortCells, Zenon DEF BackedBy, BackedByTwo
  <1>18. CellBacked("spk6", <<Frame("join_b", {})>>)
    BY QuietOps, ShortCells, Zenon DEF BackedBy, BackedByTwo
  <1>19. CellBacked("spk6", <<Frame("join_c", {})>>)
    BY QuietOps, ShortCells, Zenon DEF BackedBy, BackedByTwo
  <1>20. CellBacked("spk6", <<Compare>>)
    BY QuietOps, ShortCells, Zenon DEF BackedBy, BackedByTwo
  <1>21. CellBacked("spk6", <<Frame("tiny", {}), Profile("constrained", NoOver),
                              Measure("m_tiny_off", "tiny", AggQ(FALSE)), Profile("tuned", NoOver),
                              Measure("m_tiny_on", "tiny", AggQ(FALSE)), Compare>>)
    BY <1>15, <1>16, QuietOps, SixOps, Zenon DEF Follows, FollowsTwo, BackedBy, BackedByTwo
  <1>22. CellBacked("spk6", <<Frame("agg_a", {})>>
                    \o MeasurePlan(Profile("constrained", Parts(200)), "m_a_off", "agg_a",
                                   AggQ(FALSE)))
    BY <1>17, <1>4, CellsJoin, Zenon
  <1>23. CellBacked("spk6",
                    MeasurePlan(Profile("tuned", Parts(200)), "m_a_on", "agg_a", AggQ(FALSE))
                    \o <<Compare>>)
    BY <1>20, <1>6, CellsJoin, Zenon
  <1>24. CellBacked("spk6", <<Frame("join_b", {})>>
                    \o MeasurePlan(Profile("constrained", NoOver), "m_b_off", "join_b", Skew))
    BY <1>18, <1>8, CellsJoin, Zenon
  <1>25. CellBacked("spk6", MeasurePlan(Profile("tuned", Laptop), "m_b_on", "join_b", Skew)
                    \o <<Compare>>)
    BY <1>20, <1>10, CellsJoin, Zenon
  <1>26. CellBacked("spk6", <<Frame("join_c", {})>>
                    \o MeasurePlan(Profile("constrained", NoOver), "m_c_off", "join_c", Plain))
    BY <1>19, <1>12, CellsJoin, Zenon
  <1>27. CellBacked("spk6", <<Frame("join_c", {})>>
                    \o MeasurePlan(Profile("constrained", NoOver), "m_c_off", "join_c", Plain)
        \o MeasurePlan(Profile("tuned", NoOver), "m_c_on", "join_c", Plain))
    BY <1>26, <1>14, CellsJoin, Zenon
  <1>28. CellBacked("spk6", <<Frame("join_c", {})>>
                    \o MeasurePlan(Profile("constrained", NoOver), "m_c_off", "join_c", Plain)
        \o MeasurePlan(Profile("tuned", NoOver), "m_c_on", "join_c", Plain) \o <<Compare>>)
    BY <1>27, <1>20, CellsJoin, Zenon
  <1>29. \A k : ScriptBacked("spk6", k, Spk6Coalesce)
    BY <1>22, <1>23, TeardownBacked, ShortScripts, Zenon DEF CellOK, Spk6Coalesce
  <1>30. \A k : ScriptBacked("spk6", k, Spk6Skew)
    BY <1>24, <1>25, TeardownBacked, ShortScripts, Zenon DEF CellOK, Spk6Skew
  <1>31. \A k : ScriptBacked("spk6", k, Spk6Reopt)
    BY <1>28, <1>21, TeardownBacked, ShortScripts, Zenon DEF CellOK, Spk6Reopt
  <1> QED
    BY <1>29, <1>30, <1>31, ScriptsJoin DEF Cells

LEMMA Spk7Backed == ScriptBacked("spk7", 0, Cells.spk7)
  <1>1. Labels["spk7"] = Spk7Labels
    BY DEF Labels
  <1>2. Fine("spk7", Measure("m_broken", "broken", ScanQ(TRUE)))
    <2>1. Spk7Labels["m_broken"] = ScanRun(NParts)
      BY DEF Spk7Labels
    <2>2. Always(ScanQ(TRUE), ScanRun(NParts))
      BY AlwaysSo, Zenon
    <2> QED
      BY <1>1, <2>1, <2>2, FineWhere, Zenon
  <1>3. Fine("spk7", Measure("m_fixed", "fixed", ScanQ(FALSE)))
    <2>1. Spk7Labels["m_fixed"] = ScanRun(1)
      BY DEF Spk7Labels
    <2>2. Always(ScanQ(FALSE), ScanRun(1))
      BY AlwaysSo, Zenon
    <2> QED
      BY <1>1, <2>1, <2>2, FineWhere, Zenon
  <1>4. Fine("spk7", Explain("x_broken", "broken", ScanQ(TRUE)))
    <2>1. "x_broken" \notin DOMAIN Spk7Labels
      BY DEF Spk7Labels
    <2> QED
      BY <1>1, <2>1, FineWhere, Zenon
  <1>5. Fine("spk7", Explain("x_fixed", "fixed", ScanQ(FALSE)))
    <2>1. "x_fixed" \notin DOMAIN Spk7Labels
      BY DEF Spk7Labels
    <2> QED
      BY <1>1, <2>1, FineWhere, Zenon
  <1>6. CellBacked("spk7",
                   <<Profile("tuned", NoOver), Frame("orders_src", {}), WriteTable("orders_src")>>)
    BY <1>2, <1>3, <1>4, <1>5, QuietOps, ShortCells, Zenon DEF BackedBy, BackedByTwo
  <1>7. CellBacked("spk7", <<ReadTable("orders"), Action("orders")>>)
    BY <1>2, <1>3, <1>4, <1>5, QuietOps, ShortCells, Zenon DEF BackedBy, BackedByTwo
  <1>8. CellBacked("spk7", <<Frame("broken", {"orders"}),
                             Measure("m_broken", "broken", ScanQ(TRUE))>>)
    BY <1>2, <1>3, <1>4, <1>5, QuietOps, ShortCells, Zenon DEF BackedBy, BackedByTwo
  <1>9. CellBacked("spk7", <<Explain("x_broken", "broken", ScanQ(TRUE))>>)
    BY <1>2, <1>3, <1>4, <1>5, QuietOps, ShortCells, Zenon DEF BackedBy, BackedByTwo
  <1>10. \A k : ScriptBacked("spk7", k, Spk7Break)
    BY <1>6, <1>7, <1>8, <1>9, TeardownBacked, ShortScripts, Zenon DEF CellOK, Spk7Break
  <1>11. CellBacked("spk7", <<Frame("fixed", {"orders"}),
                              Measure("m_fixed", "fixed", ScanQ(FALSE))>>)
    BY <1>2, <1>3, <1>4, <1>5, QuietOps, ShortCells, Zenon DEF BackedBy, BackedByTwo
  <1>12. CellBacked("spk7", <<Explain("x_fixed", "fixed", ScanQ(FALSE))>>)
    BY <1>2, <1>3, <1>4, <1>5, QuietOps, ShortCells, Zenon DEF BackedBy, BackedByTwo
  <1>13. CellBacked("spk7", <<Action("broken"), Action("fixed"), Compare>>)
    BY <1>2, <1>3, <1>4, <1>5, QuietOps, ShortCells, Zenon DEF BackedBy, BackedByTwo
  <1>14. CellBacked("spk7", <<Rmtree>>)
    BY <1>2, <1>3, <1>4, <1>5, QuietOps, ShortCells, Zenon DEF BackedBy, BackedByTwo
  <1>15. CellBacked("spk7", <<Rmtree>> \o Teardown)
    BY <1>14, TeardownBacked, CellsJoin, Zenon
  <1>16. \A k : ScriptBacked("spk7", k, Spk7Fix)
    BY <1>11, <1>12, <1>13, <1>15, TeardownBacked, ShortScripts, Zenon DEF CellOK, Spk7Fix
  <1> QED
    BY <1>10, <1>16, ScriptsJoin DEF Cells

LEMMA Spk8Backed == ScriptBacked("spk8", 0, Cells.spk8)
  <1>1. Labels["spk8"] = Spk8Labels
    BY DEF Labels
  <1>2. /\ Labels["spk8"]["m_second"] = HitRun(TRUE) /\ "m_second" \in OfCache
        /\ Measure("m_second", "heavy", CachedQ).f = "heavy"
               /\ Measure("m_second", "heavy", CachedQ).op = "measure"
        /\ Measure("m_second", "heavy", CachedQ).into = "m_second"
    BY <1>1 DEF Spk8Labels, OfCache, Measure
  <1>3. /\ Labels["spk8"]["m_uncached"] = HitRun(FALSE)
        /\ Measure("m_uncached", "heavy", CachedQ).f = "heavy"
               /\ Measure("m_uncached", "heavy", CachedQ).op = "measure"
        /\ Measure("m_uncached", "heavy", CachedQ).into = "m_uncached"
    BY <1>1 DEF Spk8Labels, OfCache, Measure
  <1>4. /\ Labels["spk8"]["m_cached"] = HitRun(TRUE) /\ "m_cached" \in OfCache
        /\ Measure("m_cached", "heavy", CachedQ).f = "heavy"
               /\ Measure("m_cached", "heavy", CachedQ).op = "measure"
        /\ Measure("m_cached", "heavy", CachedQ).into = "m_cached"
    BY <1>1 DEF Spk8Labels, OfCache, Measure
  <1>5. /\ Labels["spk8"]["first"] = HitRun(FALSE)
        /\ Measure("first", "heavy", CachedQ).f = "heavy"
               /\ Measure("first", "heavy", CachedQ).op = "measure"
        /\ Measure("first", "heavy", CachedQ).into = "first"
    BY <1>1 DEF Spk8Labels, OfCache, Measure
  <1>6. /\ Labels["spk8"]["m_mem"] = HitRun(TRUE) /\ "m_mem" \in OfCache
        /\ Measure("m_mem", "heavy", CachedQ).f = "heavy"
               /\ Measure("m_mem", "heavy", CachedQ).op = "measure"
        /\ Measure("m_mem", "heavy", CachedQ).into = "m_mem"
    BY <1>1 DEF Spk8Labels, OfCache, Measure
  <1>7. /\ Labels["spk8"]["m_mem_disk"] = HitRun(TRUE) /\ "m_mem_disk" \in OfCache
        /\ Measure("m_mem_disk", "heavy", CachedQ).f = "heavy"
               /\ Measure("m_mem_disk", "heavy", CachedQ).op = "measure"
        /\ Measure("m_mem_disk", "heavy", CachedQ).into = "m_mem_disk"
    BY <1>1 DEF Spk8Labels, OfCache, Measure
  <1>8. /\ Labels["spk8"]["m_disk"] = HitRun(TRUE) /\ "m_disk" \in OfCache
        /\ Measure("m_disk", "heavy", CachedQ).f = "heavy"
               /\ Measure("m_disk", "heavy", CachedQ).op = "measure"
        /\ Measure("m_disk", "heavy", CachedQ).into = "m_disk"
    BY <1>1 DEF Spk8Labels, OfCache, Measure
  <1>9. /\ Measure("m_first", "heavy", CachedQ).f = "heavy"
        /\ Measure("m_first", "heavy", CachedQ).op = "measure"
        /\ Action("heavy").f = "heavy" /\ Action("heavy").op = "action"
    BY DEF Measure, Action
  <1>10. CellBacked("spk8", <<Profile("tuned", NoOver), Frame("heavy", {})>>)
    BY <1>2, <1>3, <1>4, <1>5, <1>6, <1>7, <1>8, <1>9, QuietOps, ShortCells, Zenon DEF BackedBy,
       BackedByTwo
  <1>11. CellBacked("spk8", <<Unpersist("heavy"), Measure("m_uncached", "heavy", CachedQ)>>)
    BY <1>2, <1>3, <1>4, <1>5, <1>6, <1>7, <1>8, <1>9, QuietOps, ShortCells, Zenon DEF BackedBy,
       BackedByTwo
  <1>12. GoesOn("spk8", 0 + 2)
    BY DEF GoesOn
  <1>13. ScriptBacked("spk8", 0, Spk8Lazy)
    BY <1>12, <1>10, <1>11, TeardownBacked, ShortScripts, Zenon DEF CellOK, Spk8Lazy
  <1>14. CellBacked("spk8",
                    <<Cache("heavy"), Action("heavy"), Measure("m_cached", "heavy", CachedQ),
                      Compare, Unpersist("heavy")>>)
    BY <1>2, <1>3, <1>4, <1>5, <1>6, <1>7, <1>8, <1>9, QuietOps, FiveOps, Zenon DEF Follows,
       FollowsTwo, BackedBy, BackedByTwo
  <1>15. CellBacked("spk8",
                    <<Unpersist("heavy"), Cache("heavy"), Measure("first", "heavy", CachedQ),
                      Measure("m_mem", "heavy", CachedQ)>>)
    BY <1>2, <1>3, <1>4, <1>5, <1>6, <1>7, <1>8, <1>9, QuietOps, FourOps, Zenon DEF Follows,
       FollowsTwo, BackedBy, BackedByTwo
  <1>16. CellBacked("spk8", TimeLevel("first", "m_mem"))
    BY <1>15 DEF TimeLevel
  <1>17. CellBacked("spk8",
                    <<Unpersist("heavy"), Cache("heavy"), Measure("first", "heavy", CachedQ),
                      Measure("m_mem_disk", "heavy", CachedQ)>>)
    BY <1>2, <1>3, <1>4, <1>5, <1>6, <1>7, <1>8, <1>9, QuietOps, FourOps, Zenon DEF Follows,
       FollowsTwo, BackedBy, BackedByTwo
  <1>18. CellBacked("spk8", TimeLevel("first", "m_mem_disk"))
    BY <1>17 DEF TimeLevel
  <1>19. CellBacked("spk8",
                    <<Unpersist("heavy"), Cache("heavy"), Measure("first", "heavy", CachedQ),
                      Measure("m_disk", "heavy", CachedQ)>>)
    BY <1>2, <1>3, <1>4, <1>5, <1>6, <1>7, <1>8, <1>9, QuietOps, FourOps, Zenon DEF Follows,
       FollowsTwo, BackedBy, BackedByTwo
  <1>20. CellBacked("spk8", TimeLevel("first", "m_disk"))
    BY <1>19 DEF TimeLevel
  <1>21. CellBacked("spk8", <<Compare, Unpersist("heavy")>>)
    BY <1>2, <1>3, <1>4, <1>5, <1>6, <1>7, <1>8, <1>9, QuietOps, ShortCells, Zenon DEF BackedBy,
       BackedByTwo
  <1>22. CellBacked("spk8", TimeLevel("first", "m_mem") \o TimeLevel("first", "m_mem_disk"))
    BY <1>16, <1>18, CellsJoin, Zenon
  <1>23. CellBacked("spk8", TimeLevel("first", "m_mem") \o TimeLevel("first", "m_mem_disk")
        \o TimeLevel("first", "m_disk"))
    BY <1>22, <1>20, CellsJoin, Zenon
  <1>24. CellBacked("spk8", TimeLevel("first", "m_mem") \o TimeLevel("first", "m_mem_disk")
        \o TimeLevel("first", "m_disk") \o <<Compare, Unpersist("heavy")>>)
    BY <1>23, <1>21, CellsJoin, Zenon
  <1>25. \A k : ScriptBacked("spk8", k, Spk8Levels)
    BY <1>14, <1>24, TeardownBacked, ShortScripts, Zenon DEF CellOK, Spk8Levels
  <1>26. CellBacked("spk8",
                    <<Frame("one_shot", {}), Cache("heavy"), Action("heavy"), Cache("one_shot"),
                      Action("one_shot")>>)
    BY QuietOps, FiveOps, Zenon DEF Follows, FollowsTwo, BackedBy, BackedByTwo
  <1>27. CellBacked("spk8", <<Unpersist("one_shot")>>)
    BY QuietOps, ShortCells, Zenon DEF BackedBy, BackedByTwo
  <1>28. CellBacked("spk8",
                    <<Unpersist("heavy"), Unpersist("one_shot"), ClearCache,
                      Profile("tuned", NoOver)>>)
    BY QuietOps, FourOps, Zenon DEF Follows, FollowsTwo, BackedBy, BackedByTwo
  <1>29. \A k : ScriptBacked("spk8", k, Spk8Release)
    BY <1>26, <1>27, <1>28, TeardownBacked, ShortScripts, Zenon DEF CellOK, Spk8Release
  <1> QED
    BY <1>13, <1>25, <1>29, ScriptsJoin DEF Cells

LEMMA Spk9Backed == ScriptBacked("spk9", 0, Cells.spk9)
  <1> DEFINE most == 2000
  <1>1. Labels["spk9"] = Spk9Labels
    BY DEF Labels
  <1> HIDE DEF most
  <1>2. Fine("spk9", Explain("narrow", "events", CachedQ))
    <2>1. "narrow" \notin DOMAIN Spk9Labels
      BY DEF Spk9Labels
    <2> QED
      BY <1>1, <2>1, FineWhere, Zenon
  <1>3. Fine("spk9", Explain("wide", "events", AggQ(TRUE)))
    <2>1. "wide" \notin DOMAIN Spk9Labels
      BY DEF Spk9Labels
    <2> QED
      BY <1>1, <2>1, FineWhere, Zenon
  <1>4. After("spk9", Profile("constrained", Parts(8)), Measure("p8", "events", AggQ(TRUE)))
    <2>1. Spk9Labels["p8"] = AggRun(8, TRUE)
      BY DEF Spk9Labels
    <2>2. Yields(Profile("constrained", Parts(8)), AggQ(TRUE), AggRun(8, TRUE))
      BY AggregationsYield, Zenon
    <2>3. Sets(Profile("constrained", Parts(8)))
      BY SettingsSet, Zenon
    <2> QED
      BY <1>1, <2>1, <2>2, <2>3, FineWhere, Zenon
  <1>5. After("spk9", Profile("constrained", Parts(200)), Measure("p200", "events", AggQ(TRUE)))
    <2>1. Spk9Labels["p200"] = AggRun(200, FALSE)
      BY DEF Spk9Labels
    <2>2. Yields(Profile("constrained", Parts(200)), AggQ(TRUE), AggRun(200, FALSE))
      BY TwoHundredYield, Zenon
    <2>3. Sets(Profile("constrained", Parts(200)))
      BY SettingsSet, Zenon
    <2> QED
      BY <1>1, <2>1, <2>2, <2>3, FineWhere, Zenon
  <1>6. After("spk9", Profile("constrained", Parts(most)), Measure("p2000", "events", AggQ(TRUE)))
    <2>1. Spk9Labels["p2000"] = AggRun(most, FALSE)
      BY DEF Spk9Labels, AggRun, most
    <2>2. Yields(Profile("constrained", Parts(most)), AggQ(TRUE), AggRun(most, FALSE))
      BY ManyPartsYield DEF AggQ, AggRun, most
    <2>3. Sets(Profile("constrained", Parts(most)))
      BY SettingsSet, Zenon
    <2> QED
      BY <1>1, <2>1, <2>2, <2>3, FineWhere, Zenon
  <1>7. CellBacked("spk9", <<Frame("events", {}), Action("events")>>)
    BY <1>2, <1>3, <1>4, <1>5, <1>6, QuietOps, ShortCells, Zenon DEF BackedBy, BackedByTwo
  <1>8. CellBacked("spk9", <<Explain("narrow", "events", CachedQ)>>)
    BY <1>2, <1>3, <1>4, <1>5, <1>6, QuietOps, ShortCells, Zenon DEF BackedBy, BackedByTwo
  <1>9. CellBacked("spk9", <<Explain("wide", "events", AggQ(TRUE))>>)
    BY <1>2, <1>3, <1>4, <1>5, <1>6, QuietOps, ShortCells, Zenon DEF BackedBy, BackedByTwo
  <1>10. CellBacked("spk9", <<Profile("constrained", NoOver)>>)
    BY <1>2, <1>3, <1>4, <1>5, <1>6, QuietOps, ShortCells, Zenon DEF BackedBy, BackedByTwo
  <1>11. \A k : ScriptBacked("spk9", k, Spk9Shuffle)
    BY <1>7, <1>8, <1>9, <1>10, TeardownBacked, ShortScripts, Zenon DEF CellOK, Spk9Shuffle
  <1>12. CellBacked("spk9",
                    <<Profile("constrained", Parts(8)), Measure("p8", "events", AggQ(TRUE)),
                      Profile("constrained", Parts(200)), Measure("p200", "events", AggQ(TRUE)),
                      Profile("constrained", Parts(most)), Measure("p2000", "events", AggQ(TRUE))>>)
    BY <1>2, <1>3, <1>4, <1>5, <1>6, QuietOps, SixOps, Zenon DEF Follows, FollowsTwo, BackedBy,
       BackedByTwo
  <1>13. CellBacked("spk9", <<Compare>>)
    BY QuietOps, ShortCells, Zenon DEF BackedBy, BackedByTwo
  <1>14. Spk9Sweep = <<<<Profile("constrained", Parts(8)), Measure("p8", "events", AggQ(TRUE)),
                         Profile("constrained", Parts(200)), Measure("p200", "events", AggQ(TRUE)),
                         Profile("constrained", Parts(most)),
                         Measure("p2000", "events", AggQ(TRUE))>>, <<Compare>>, Teardown>>
    BY DEF Spk9Sweep, AggQ, most
  <1>15. \A k : ScriptBacked("spk9", k, Spk9Sweep)
    BY <1>14, <1>12, <1>13, TeardownBacked, ShortScripts, Zenon DEF CellOK
  <1> QED
    BY <1>11, <1>15, ScriptsJoin DEF Cells

LEMMA Spk10Backed == ScriptBacked("spk10", 0, Cells.spk10)
  <1>1. Labels["spk10"] = Spk10Labels
    BY DEF Labels
  <1>2. Fine("spk10", Explain("chained", "fact", AggQ(FALSE)))
    <2>1. "chained" \notin DOMAIN Spk10Labels
      BY DEF Spk10Labels
    <2> QED
      BY <1>1, <2>1, FineWhere, Zenon
  <1>3. Fine("spk10", Explain("catalyst_demo", "dim", CachedQ))
    <2>1. "catalyst_demo" \notin DOMAIN Spk10Labels
      BY DEF Spk10Labels
    <2> QED
      BY <1>1, <2>1, FineWhere, Zenon
  <1>4. Fine("spk10", Explain("x_bcast", "fact", JoinQ("even", "broadcast", FALSE)))
    <2>1. Spk10Labels["x_bcast"] = Plan("BHJ")
      BY DEF Spk10Labels
    <2>2. Always(JoinQ("even", "broadcast", FALSE), Plan("BHJ"))
      BY AlwaysSo, Zenon
    <2> QED
      BY <1>1, <2>1, <2>2, FineWhere, Zenon
  <1>5. After("spk10", Conf("codegen", TRUE), Measure("m_on", "fact", AggQ(FALSE)))
    <2>1. Spk10Labels["m_on"] = [fused |-> TRUE]
      BY DEF Spk10Labels
    <2>2. Yields(Conf("codegen", TRUE), AggQ(FALSE), [fused |-> TRUE])
      BY AggregationsYield, Zenon
    <2>3. Sets(Conf("codegen", TRUE))
      BY SettingsSet, Zenon
    <2> QED
      BY <1>1, <2>1, <2>2, <2>3, FineWhere, Zenon
  <1>6. After("spk10", Conf("codegen", FALSE), Measure("m_off", "fact", AggQ(FALSE)))
    <2>1. Spk10Labels["m_off"] = [fused |-> FALSE]
      BY DEF Spk10Labels
    <2>2. Yields(Conf("codegen", FALSE), AggQ(FALSE), [fused |-> FALSE])
      BY AggregationsYield, Zenon
    <2>3. Sets(Conf("codegen", FALSE))
      BY SettingsSet, Zenon
    <2> QED
      BY <1>1, <2>1, <2>2, <2>3, FineWhere, Zenon
  <1>7. CellBacked("spk10", <<Profile("tuned", NoOver)>>)
    BY <1>2, <1>3, <1>4, <1>5, <1>6, QuietOps, ShortCells, Zenon DEF BackedBy, BackedByTwo
  <1>8. CellBacked("spk10", <<Frame("fact", {}), Frame("dim", {})>>)
    BY <1>2, <1>3, <1>4, <1>5, <1>6, QuietOps, ShortCells, Zenon DEF BackedBy, BackedByTwo
  <1>9. CellBacked("spk10", <<Explain("chained", "fact", AggQ(FALSE))>>)
    BY <1>2, <1>3, <1>4, <1>5, <1>6, QuietOps, ShortCells, Zenon DEF BackedBy, BackedByTwo
  <1>10. CellBacked("spk10", <<Explain("catalyst_demo", "dim", CachedQ)>>)
    BY <1>2, <1>3, <1>4, <1>5, <1>6, QuietOps, ShortCells, Zenon DEF BackedBy, BackedByTwo
  <1>11. \A k : ScriptBacked("spk10", k, Spk10Plans)
    BY <1>7, <1>8, <1>9, <1>10, TeardownBacked, ShortScripts, Zenon DEF CellOK, Spk10Plans
  <1>12. CellBacked("spk10", <<GetConf>>)
    BY <1>2, <1>3, <1>4, <1>5, <1>6, QuietOps, ShortCells, Zenon DEF BackedBy, BackedByTwo
  <1>13. CellBacked("spk10", <<Explain("x_bcast", "fact", JoinQ("even", "broadcast", FALSE))>>)
    BY <1>2, <1>3, <1>4, <1>5, <1>6, QuietOps, ShortCells, Zenon DEF BackedBy, BackedByTwo
  <1>14. \A k : ScriptBacked("spk10", k, Spk10Confs)
    BY <1>12, <1>13, TeardownBacked, ShortScripts, Zenon DEF CellOK, Spk10Confs
  <1>15. CellBacked("spk10",
                    <<Conf("codegen", TRUE), Measure("m_on", "fact", AggQ(FALSE)),
                      Conf("codegen", FALSE), Measure("m_off", "fact", AggQ(FALSE)),
                      Conf("codegen", TRUE), Compare>>)
    BY <1>2, <1>3, <1>4, <1>5, <1>6, QuietOps, SixOps, Zenon DEF Follows, FollowsTwo, BackedBy,
       BackedByTwo
  <1>16. \A k : ScriptBacked("spk10", k, Spk10Codegen)
    BY <1>15, TeardownBacked, ShortScripts, Zenon DEF CellOK, Spk10Codegen
  <1> QED
    BY <1>11, <1>14, <1>16, ScriptsJoin DEF Cells

(* All of the notebooks there may be.                                      *)
LEMMA ScriptsBacked == \A n \in Notebooks : ScriptBacked(n, 0, Cells[n])
  <1>1. Notebooks \subseteq {"spk1", "spk2", "spk3", "spk4", "spk5", "spk6", "spk7", "spk8", "spk9",
                            "spk10"}
    BY SparkAssumption DEF Cells
  <1>2. \A n \in {"spk1", "spk2", "spk3", "spk4", "spk5"} : ScriptBacked(n, 0, Cells[n])
    <2>1. /\ Cells["spk1"] = Cells.spk1 /\ Cells["spk2"] = Cells.spk2 /\ Cells["spk3"] = Cells.spk3
          /\ Cells["spk4"] = Cells.spk4 /\ Cells["spk5"] = Cells.spk5
      OBVIOUS
    <2> QED
      BY <2>1, Spk1Backed, Spk2Backed, Spk3Backed, Spk4Backed, Spk5Backed
  <1>3. \A n \in {"spk6", "spk7", "spk8", "spk9", "spk10"} : ScriptBacked(n, 0, Cells[n])
    BY Spk6Backed, Spk7Backed, Spk8Backed, Spk9Backed, Spk10Backed
  <1> QED
    BY <1>1, <1>2, <1>3

(* The first cells of the notebooks with cells that go on.                 *)
LEMMA FirstCells ==
    ASSUME NEW a, NEW b, \E T : a \in Seq(T), \E T : b \in Seq(T)
    PROVE  /\ Len(a) \in Nat /\ \A i \in 1 .. Len(a) : (a \o b)[i] = a[i]
           /\ Len(b) \in Nat /\ \A i \in 1 .. Len(b) : (a \o b)[Len(a) + i] = b[i]
  BY SequencesJoin

LEMMA Spk1Cells ==
    /\ Cells.spk1[3] = <<Profile("constrained", NoOver), Measure("m_broken", "fact", Skew)>>
    /\ Cells.spk1[4] = <<Measure("m_salt", "fact", Salty)>>
    /\ Setup["spk1"] = 1
  <1>1. /\ Len(Spk1Break) = 3 /\ \E T : Spk1Break \in Seq(T)
        /\ Spk1Break[3] = <<Profile("constrained", NoOver), Measure("m_broken", "fact", Skew)>>
    <2> DEFINE x == <<Frame("fact", {}), Frame("dim", {})>>
               y == <<Action("fact")>>
               z == <<Profile("constrained", NoOver), Measure("m_broken", "fact", Skew)>>
    <2>1. Spk1Break = <<x, y, z>>
      BY DEF Spk1Break
    <2> HIDE DEF x, y, z
    <2>2. Len(<<x, y, z>>) = 3 /\ <<x, y, z>> \in Seq({x, y, z}) /\ <<x, y, z>>[3] = z
      OBVIOUS
    <2>3. Len(Spk1Break) = 3 /\ (\E T : Spk1Break \in Seq(T)) /\ Spk1Break[3] = z
      BY <2>1, <2>2
    <2> QED
      BY <2>3 DEF z
  <1>2. /\ Len(Spk1Fix) = 5 /\ \E T : Spk1Fix \in Seq(T)
        /\ Spk1Fix[1] = <<Measure("m_salt", "fact", Salty)>>
    <2> DEFINE v == <<Measure("m_salt", "fact", Salty)>>
               w == <<Profile("tuned", Laptop), Measure("m_aqe", "fact", Skew)>>
               x == <<Profile("tuned", NoOver),
                      Measure("m_bcast", "fact", JoinQ("skewed", "broadcast", FALSE))>>
               y == <<Compare>>
               z == Teardown
    <2>1. Spk1Fix = <<v, w, x, y, z>>
      BY DEF Spk1Fix
    <2> HIDE DEF v, w, x, y, z
    <2>2. /\ Len(<<v, w, x, y, z>>) = 5 /\ <<v, w, x, y, z>> \in Seq({v, w, x, y, z})
          /\ <<v, w, x, y, z>>[1] = v
      OBVIOUS
    <2>3. Len(Spk1Fix) = 5 /\ (\E T : Spk1Fix \in Seq(T)) /\ Spk1Fix[1] = v
      BY <2>1, <2>2
    <2> QED
      BY <2>3 DEF v
  <1>3. Cells.spk1 = Spk1Break \o Spk1Fix
    BY DEF Cells
  <1>4. /\ Cells.spk1[3] = Spk1Break[3]
        /\ Cells.spk1[4] = Spk1Fix[1]
    <2>1. 3 \in 1 .. Len(Spk1Break) /\ 1 \in 1 .. Len(Spk1Fix) /\ Len(Spk1Break) + 1 = 4
      BY <1>1, <1>2
    <2>0. (\E T : Spk1Break \in Seq(T)) /\ \E T : Spk1Fix \in Seq(T)
      BY <1>1, <1>2
    <2>2. \A i \in 1 .. Len(Spk1Break) : (Spk1Break \o Spk1Fix)[i] = Spk1Break[i]
      BY <2>0, FirstCells, Zenon
    <2>3. \A i \in 1 .. Len(Spk1Fix) : (Spk1Break \o Spk1Fix)[Len(Spk1Break) + i] = Spk1Fix[i]
      <3>1. PICK a : a = Spk1Break
        OBVIOUS
      <3>2. PICK b : b = Spk1Fix
        OBVIOUS
      <3>3. \A i \in 1 .. Len(b) : (a \o b)[Len(a) + i] = b[i]
        BY <2>0, <3>1, <3>2, FirstCells
      <3> QED
        BY <3>1, <3>2, <3>3
    <2> QED
      BY <1>3, <2>1, <2>2, <2>3
  <1> QED
    BY <1>1, <1>2, <1>4 DEF Setup

LEMMA Spk5Cells ==
    /\ Cells.spk5[1] = <<Frame("fact", {}), Frame("dim", {})>>
    /\ Cells.spk5[2] = <<Action("dim")>>
    /\ Cells.spk5[3] = <<Profile("tuned", NoOver), Frame("bcast_join", {"fact", "dim"}),
                         Explain("x_bcast", "bcast_join", Plain)>>
    /\ Cells.spk5[4] = <<Measure("m_bcast", "bcast_join", Plain)>>
    /\ Cells.spk5[5] = <<Profile("constrained", NoOver), Frame("smj_join", {"fact", "dim"}),
                         Explain("x_smj", "smj_join", Plain)>>
    /\ Cells.spk5[6] = <<Measure("m_smj", "smj_join", Plain)>>
    /\ Setup["spk5"] = 1
  <1> DEFINE u == <<Frame("fact", {}), Frame("dim", {})>>
             v == <<Action("dim")>>
             w == <<Profile("tuned", NoOver), Frame("bcast_join", {"fact", "dim"}),
                    Explain("x_bcast", "bcast_join", Plain)>>
             x == <<Measure("m_bcast", "bcast_join", Plain)>>
             y == <<Profile("constrained", NoOver), Frame("smj_join", {"fact", "dim"}),
                    Explain("x_smj", "smj_join", Plain)>>
             z == <<Measure("m_smj", "smj_join", Plain)>>
  <1>1. Spk5Join = <<u, v, w, x, y, z>>
    BY DEF Spk5Join
  <1> HIDE DEF u, v, w, x, y, z
  <1>2. /\ Len(Spk5Join) = 6 /\ \E T : Spk5Join \in Seq(T)
        /\ Spk5Join[1] = u /\ Spk5Join[2] = v /\ Spk5Join[3] = w
        /\ Spk5Join[4] = x /\ Spk5Join[5] = y /\ Spk5Join[6] = z
    <2>1. <<u, v, w, x, y, z>> \in Seq({u, v, w, x, y, z})
      OBVIOUS
    <2> QED
      BY <1>1, <2>1
  <1>3. \E T : Spk5Hint \in Seq(T)
    <2>1. \A a, b, c, d, e : <<a, b, c, d, e>> \in Seq({a, b, c, d, e})
      OBVIOUS
    <2> QED
      BY <2>1, Zenon DEF Spk5Hint
  <1>4. Cells.spk5 = Spk5Join \o Spk5Hint
    BY DEF Cells
  <1>5. \A i \in 1 .. 6 : Cells.spk5[i] = Spk5Join[i]
    <2>1. (\E T : Spk5Join \in Seq(T)) /\ \E T : Spk5Hint \in Seq(T)
      BY <1>2, <1>3
    <2>2. \A i \in 1 .. Len(Spk5Join) : (Spk5Join \o Spk5Hint)[i] = Spk5Join[i]
      BY <2>1, FirstCells, Zenon
    <2> QED
      BY <1>2, <1>4, <2>2
  <1>6. /\ Cells.spk5[1] = u /\ Cells.spk5[2] = v /\ Cells.spk5[3] = w
        /\ Cells.spk5[4] = x /\ Cells.spk5[5] = y /\ Cells.spk5[6] = z
    BY <1>2, <1>5
  <1> QED
    BY <1>6 DEF Setup, u, v, w, x, y, z

LEMMA Spk8Cells ==
    /\ Cells.spk8[1] = <<Profile("tuned", NoOver), Frame("heavy", {})>>
    /\ Cells.spk8[2] = <<Cache("heavy"), Measure("m_first", "heavy", CachedQ),
                         Measure("m_second", "heavy", CachedQ)>>
    /\ Setup["spk8"] = 1
  <1> DEFINE x == <<Profile("tuned", NoOver), Frame("heavy", {})>>
             y == <<Cache("heavy"), Measure("m_first", "heavy", CachedQ),
                    Measure("m_second", "heavy", CachedQ)>>
             z == <<Unpersist("heavy"), Measure("m_uncached", "heavy", CachedQ)>>
             s == Spk8Lazy \o Spk8Levels
  <1>1. Spk8Lazy = <<x, y, z>>
    BY DEF Spk8Lazy
  <1> HIDE DEF x, y, z, s
  <1>2. /\ Len(Spk8Lazy) = 3 /\ \E T : Spk8Lazy \in Seq(T)
        /\ Spk8Lazy[1] = x /\ Spk8Lazy[2] = y
    <2>1. <<x, y, z>> \in Seq({x, y, z})
      OBVIOUS
    <2> QED
      BY <1>1, <2>1
  <1>3. (\E T : Spk8Levels \in Seq(T)) /\ \E T : Spk8Release \in Seq(T)
    <2>1. \A a, b : <<a, b>> \in Seq({a, b}) /\ \A c : <<a, b, c>> \in Seq({a, b, c})
      OBVIOUS
    <2> QED
      BY <2>1, Zenon DEF Spk8Levels, Spk8Release
  <1>4. Cells.spk8 = s \o Spk8Release
    BY DEF Cells, s
  <1>5. /\ \E T : s \in Seq(T)
        /\ Len(Spk8Lazy) \in Nat /\ Len(Spk8Levels) \in Nat
        /\ Len(s) = Len(Spk8Lazy) + Len(Spk8Levels)
        /\ \A i \in 1 .. Len(Spk8Lazy) : s[i] = Spk8Lazy[i]
    BY <1>2, <1>3, SequencesJoin, Zenon DEF s
  <1>6. \A i \in 1 .. Len(s) : (s \o Spk8Release)[i] = s[i]
    BY <1>3, <1>5, FirstCells, Zenon
  <1>7. 1 \in 1 .. Len(s) /\ 2 \in 1 .. Len(s) /\ 1 \in 1 .. Len(Spk8Lazy)
            /\ 2 \in 1 .. Len(Spk8Lazy)
    BY <1>2, <1>5
  <1>8. Cells.spk8[1] = x /\ Cells.spk8[2] = y
    BY <1>2, <1>4, <1>5, <1>6, <1>7
  <1> QED
    BY <1>8 DEF Setup, x, y

-----------------------------------------------------------------------------
(* THE LABELS: THE INVARIANT.  Within a cell the knobs and the cache are   *)
(* as the operations before the one that is due have left them.            *)
Before(k) == Script[cell][op - k]
Steady == ~AtEnd(Script) /\ status # "failed"
Heavy == cached["heavy"]

LiveInv ==
    /\ session = "dead" =>
           /\ conf = DefaultConf /\ cached = NoCaches
           /\ \A f \in DOMAIN frames : frames[f] # "live"
    /\ status \in {"measuring", "polling"} => Usable(o.f)

KnobsInv ==
    Steady =>
        /\ (op > 1 /\ Sets(Before(1))) => Agrees(conf, Before(1))
        /\ (op > 2 /\ Before(1).op = "frame" /\ Sets(Before(2))) => Agrees(conf, Before(2))

CacheInv ==
    /\ cached \in [Caches -> {"none", "marked", "filled"}]
    /\ disturbed \in BOOLEAN
    /\ Steady =>
        /\ (op > 1 /\ Before(1) = Unpersist("heavy")) => Heavy = "none"
        /\ (op > 1 /\ Before(1) = Cache("heavy")) => Heavy # "none" \/ disturbed
        /\ (op > 2 /\ Before(1) = Cache("heavy") /\ Before(2) = Unpersist("heavy")
               /\ status # "polling") => Heavy # "filled"
        /\ (op > 1 /\ Before(1) = Cache("heavy") /\ status = "polling" /\ o.f = "heavy") =>
               Heavy = "filled" \/ disturbed
        /\ (op > 2 /\ Before(2) = Cache("heavy") /\ Before(1).op \in {"action", "measure"}
               /\ Before(1).f = "heavy") => Heavy = "filled" \/ disturbed

(* The steps that finish an operation, and those that stay at it.          *)
Finishing ==
    \/ Configure \/ Build \/ Act \/ ShowPlan \/ SetCache \/ SetView \/ Other
    \/ CommitTable \/ Read \/ ReadUI
Staying ==
    \/ Reject \/ Overwrite \/ AskUI \/ RunMeasured \/ List \/ Elsewhere \/ UNCHANGED vars

LEMMA WhereItIs ==
    ASSUME KernelInv
    PROVE  /\ cell \in Nat \ {0} /\ op \in Nat \ {0} /\ Len(Script) \in Nat \ {0}
           /\ \A i \in 1 .. Len(Script) : Len(Script[i]) \in Nat \ {0}
           /\ ~AtEnd(Script) => cell \in 1 .. Len(Script) /\ op \in 1 .. Len(Script[cell])
           /\ AtEnd(Script) <=> cell > Len(Script)
  BY ScriptFacts, DueFacts DEF KernelInv, KernelTypeOK, AtEnd

LEMMA FinishingIs ==
    ASSUME KernelInv, Finishing
    PROVE  /\ ~AtEnd(Script) /\ Finish(Script) /\ status \in {"ready", "writing", "polling"}
           /\ status' = "ready"
           /\ \/ cell' = cell /\ op' = op + 1
              \/ cell' = cell + 1 /\ op' = 1 /\ op = Len(Script[cell])
  <1>1. ~AtEnd(Script) /\ Finish(Script) /\ status \in {"ready", "writing", "polling"}
    <2> USE DEF DueOp, Due
    <2>1. CASE Configure \/ Build \/ Act \/ ShowPlan \/ SetCache \/ SetView \/ Other
      BY <2>1 DEF Configure, Build, Act, ShowPlan, SetCache, SetView, Other
    <2>2. CASE CommitTable \/ Read \/ ReadUI
      BY <2>2 DEF CommitTable, Read, ReadUI
    <2> QED
      BY <2>1, <2>2 DEF Finishing
  <1> QED
    BY <1>1, WhereItIs DEF Finish

LEMMA StayingIs ==
    ASSUME KernelInv, Staying
    PROVE  /\ cell' = cell /\ op' = op /\ conf' = conf /\ mem' = mem /\ frames' = frames
           /\ session' = session /\ views' = views /\ resumed' = resumed /\ warm' = warm
           /\ failedAt' = failedAt
           /\ (status = "failed" => status' = "failed")
           /\ status' = "polling" => status = "polling" \/ RunMeasured
           /\ status' = "measuring" => status \in {"ready", "measuring"}
           /\ status' = "ready" => status = "ready"
           /\ \/ cached' = cached /\ disturbed' = disturbed
              \/ RunMeasured /\ cached' = Filled(o.f) /\ disturbed' = disturbed
                   /\ status' = "polling"
              \/ cached' = NoCaches /\ disturbed' = TRUE
  <1> USE DEF GoOn, Fault, serverVars, uiVars, clientVars, auxVars, Due, DueOp
  <1>1. CASE Reject
    BY <1>1 DEF Reject
  <1>2. CASE Overwrite
    BY <1>2 DEF Overwrite
  <1>3. CASE AskUI
    <2>1. /\ status = "ready" /\ status' \in {"measuring"} /\ cell' = cell /\ op' = op
          /\ UNCHANGED <<serverVars, clientVars, auxVars>>
      BY <1>3 DEF AskUI
    <2> QED
      BY <2>1
  <1>4. CASE RunMeasured
    BY <1>4 DEF RunMeasured
  <1>5. CASE List
    BY <1>5 DEF List, kernelVars
  <1>6. CASE Elsewhere
    BY <1>6 DEF Elsewhere
  <1>7. CASE UNCHANGED vars
    BY <1>7 DEF vars, kernelVars
  <1> QED
    BY <1>1, <1>2, <1>3, <1>4, <1>5, <1>6, <1>7 DEF Staying

LEMMA NextIs ==
    [Next]_vars => \/ Finishing \/ Staying \/ DriverDies \/ Interrupt \/ Retry \/ Reconnect
                   \/ Resume \/ FromTheTop
  BY DEF Next, Finishing, Staying

LEMMA Onward ==
    ASSUME KernelInv, [Next]_vars, Steady', op' > 1
    PROVE  /\ Steady /\ Script' = Script /\ cell' = cell
           /\ \/ Finishing /\ op' = op + 1 /\ status' = "ready"
              \/ Staying /\ op' = op
  <1>1. ~(DriverDies \/ Interrupt)
    BY DEF DriverDies, Interrupt, Die, Fault, Steady
  <1>2. ~(Retry \/ Reconnect \/ FromTheTop)
    BY DEF Retry, RetryCell, Reconnect, FromTheTop, FromTop
  <1>3. ~Resume
    BY DEF Resume
  <1>4. Script' = Script /\ KernelInv'
    BY KernelPreserved
  <1>5. CASE Finishing
    <2>1. Steady /\ status' = "ready" /\ cell' = cell /\ op' = op + 1
      BY <1>5, FinishingIs DEF Steady
    <2> QED
      BY <1>4, <1>5, <2>1
  <1>6. CASE Staying
    <2>1. cell' = cell /\ op' = op /\ status # "failed"
      BY <1>6, StayingIs DEF Steady
    <2> QED
      BY <1>4, <1>6, <2>1 DEF Steady, AtEnd
  <1> QED
    BY <1>1, <1>2, <1>3, <1>5, <1>6, NextIs

LEMMA Befores ==
    ASSUME KernelInv, Script' = Script, cell' = cell
    PROVE  /\ op' = op => o' = o /\ Before(1)' = Before(1) /\ Before(2)' = Before(2)
           /\ op' = op + 1 => Before(1)' = o /\ Before(2)' = Before(1) /\ (op' > 2 => op > 1)
  <1>1. op \in Nat
    BY WhereItIs
  <1>2. op + 1 - 1 = op /\ op + 1 - 2 = op - 1 /\ (op + 1 > 2 => op > 1)
    BY <1>1
  <1>3. /\ Before(1)' = Script[cell][op' - 1] /\ Before(2)' = Script[cell][op' - 2]
        /\ o' = Script[cell][op']
    BY DEF Before, o
  <1>4. /\ Before(1) = Script[cell][op - 1] /\ Before(2) = Script[cell][op - 2]
        /\ o = Script[cell][op]
    BY DEF Before, o
  <1>5. ASSUME op' = op + 1 PROVE Before(1)' = o /\ Before(2)' = Before(1)
    <2>1. op' - 1 = op /\ op' - 2 = op - 1
      BY <1>1, <1>5
    <2> QED
      BY <1>3, <1>4, <2>1
  <1>6. ASSUME op' = op PROVE o' = o /\ Before(1)' = Before(1) /\ Before(2)' = Before(2)
    BY <1>3, <1>4, <1>6
  <1> QED
    BY <1>2, <1>5, <1>6

(* What an operation that is finished does to the knobs.                   *)
LEMMA SettingsAgree ==
    ASSUME ConfOK(conf), NEW x, x = o, Sets(x) PROVE Agrees(Settings, x)
  <1>1. DOMAIN conf = DOMAIN DefaultConf
    BY DEF ConfOK
  <1>2. CASE x.op = "profile"
    <2> DEFINE c == SetKnobs(conf, PROFILES[x.name])
               d == SetKnobs(c, x.over)
    <2>1. /\ DOMAIN c = DOMAIN DefaultConf
          /\ \A k \in DOMAIN PROFILES[x.name] : c[k] = PROFILES[x.name][k]
      BY <1>1, <1>2 DEF SetKnobs, Sets
    <2> HIDE DEF c
    <2>2. \A k \in DOMAIN DefaultConf : d[k] = IF k \in DOMAIN x.over THEN x.over[k] ELSE c[k]
      BY <2>1 DEF SetKnobs
    <2>3. Settings = d
      BY <1>2 DEF Settings, ApplyProfile, c
    <2> HIDE DEF d
    <2> QED
      BY <1>2, <2>1, <2>2, <2>3 DEF Agrees, Sets
  <1>3. CASE x.op # "profile"
    <2> DEFINE d == SetKnobs(conf, x.over)
    <2>1. \A k \in DOMAIN x.over : d[k] = x.over[k]
      BY <1>1, <1>3 DEF SetKnobs, Sets
    <2>2. Settings = d
      BY <1>3 DEF Settings
    <2> HIDE DEF d
    <2> QED
      BY <1>3, <2>1, <2>2 DEF Agrees
  <1> QED
    BY <1>2, <1>3

LEMMA FinishingConf ==
    ASSUME Finishing, PhaseInv
    PROVE  /\ conf' = conf \/ (Configure /\ o.op \in {"profile", "conf"} /\ conf' = Settings)
           /\ o.op \in {"profile", "conf"} => Configure /\ conf' = Settings
           /\ o.op = "frame" => conf' = conf
           /\ session' = session
           /\ resumed' = resumed /\ warm' = warm /\ disturbed' = disturbed /\ failedAt' = failedAt
  <1> USE DEF DueOp, Due, serverVars, uiVars, clientVars, auxVars
  <1>1. CASE Configure
    BY <1>1 DEF Configure
  <1>2. CASE Build \/ Act \/ ShowPlan
    BY <1>2 DEF Build, Act, ShowPlan
  <1>3. CASE SetCache \/ SetView \/ Other \/ Read
    BY <1>3 DEF SetCache, SetView, Other, Read
  <1>4. CASE CommitTable \/ ReadUI
    BY <1>4 DEF CommitTable, ReadUI, PhaseInv
  <1> QED
    BY <1>1, <1>2, <1>3, <1>4 DEF Finishing

LEMMA KnobsPreserved ==
    KernelInv /\ PhaseInv /\ ConfOK(conf) /\ KnobsInv /\ [Next]_vars => KnobsInv'
  <1> SUFFICES ASSUME KernelInv, PhaseInv, ConfOK(conf), KnobsInv, [Next]_vars, Steady'
               PROVE  /\ op' > 1 /\ Sets(Before(1))' => Agrees(conf, Before(1))'
                      /\ op' > 2 /\ (Before(1).op = "frame")' /\ Sets(Before(2))' =>
                             Agrees(conf, Before(2))'
    BY DEF KnobsInv
  <1>1. CASE ~(op' > 1)
    <2>1. KernelInv'
      BY KernelPreserved
    <2>2. op' \in Nat
      BY <2>1, KernelPreserved, ScriptFacts DEF KernelInv, KernelTypeOK
    <2> QED
      BY <1>1, <2>2
  <1>2. CASE op' > 1
    <2>0. PICK x, y, z : x = o /\ y = Before(1) /\ z = Before(2)
      OBVIOUS
    <2>1. Steady /\ Script' = Script /\ cell' = cell
      BY <1>2, Onward
    <2>2. CASE Finishing /\ op' = op + 1
      <3>1. Before(1)' = x /\ Before(2)' = y /\ (op' > 2 => op > 1)
        BY <2>0, <2>1, <2>2, Befores
      <3>2. Sets(x) => Agrees(conf', x)
        <4>1. Sets(x) => conf' = Settings
          BY <2>0, <2>2, FinishingConf DEF Sets
        <4>2. Sets(x) => Agrees(Settings, x)
          BY <2>0, SettingsAgree
        <4> QED
          BY <4>1, <4>2
      <3>3. op' > 2 /\ x.op = "frame" /\ Sets(y) => Agrees(conf', y)
        <4>1. x.op = "frame" => conf' = conf
          BY <2>0, <2>2, FinishingConf
        <4>2. op' > 2 /\ Sets(y) => Agrees(conf, y)
          BY <2>0, <2>1, <3>1 DEF KnobsInv
        <4> QED
          BY <4>1, <4>2
      <3> QED
        BY <3>1, <3>2, <3>3 DEF Sets, Agrees
    <2>3. CASE Staying /\ op' = op
      <3>1. Before(1)' = y /\ Before(2)' = z /\ conf' = conf
        BY <2>0, <2>1, <2>3, Befores, StayingIs
      <3>2. /\ op > 1 /\ Sets(y) => Agrees(conf, y)
            /\ op > 2 /\ y.op = "frame" /\ Sets(z) => Agrees(conf, z)
        BY <2>0, <2>1 DEF KnobsInv
      <3> QED
        BY <2>3, <3>1, <3>2 DEF Sets, Agrees
    <2> QED
      BY <1>2, <2>2, <2>3, Onward
  <1> QED
    BY <1>1, <1>2

-----------------------------------------------------------------------------
(* THE LABELS: THE CACHE.                                                  *)
CacheType == cached \in [Caches -> {"none", "marked", "filled"}]

LEMMA FilledIs ==
    ASSUME CacheType, NEW f
    PROVE  /\ Filled(f) \in [Caches -> {"none", "marked", "filled"}]
           /\ Filled(f)["heavy"] = "none" <=> Heavy = "none"
           /\ Heavy = "filled" => Filled(f)["heavy"] = "filled"
           /\ f = "heavy" /\ Heavy # "none" => Filled(f)["heavy"] = "filled"
           /\ f # "heavy" => Filled(f)["heavy"] = Heavy
  <1>1. CASE f \in Caches /\ cached[f] = "marked"
    <2>1. Filled(f) = [cached EXCEPT ![f] = "filled"]
      BY <1>1 DEF Filled
    <2> QED
      BY <1>1, <2>1 DEF CacheType, Heavy, Caches
  <1>2. CASE ~(f \in Caches /\ cached[f] = "marked")
    <2>1. Filled(f) = cached
      BY <1>2 DEF Filled
    <2> QED
      BY <1>2, <2>1 DEF CacheType, Heavy, Caches
  <1> QED
    BY <1>1, <1>2

LEMMA FinishingCache ==
    ASSUME Finishing, PhaseInv, CacheType, NEW x, x = o
    PROVE  /\ CacheType'
           /\ x = Unpersist("heavy") => Heavy' = "none"
           /\ x = Cache("heavy") => Heavy' # "none" /\ (Heavy' = "filled" => Heavy = "filled")
           /\ x.op = "action" /\ x.f = "heavy" /\ Heavy # "none" => Heavy' = "filled"
           /\ x.op = "action" /\ x.f # "heavy" => Heavy' = Heavy
           /\ x.op = "measure" => cached' = cached /\ status = "polling"
           /\ x.op \notin {"action", "cache", "unpersist", "clear"} => cached' = cached
  <1> USE DEF DueOp, Due, serverVars
  <1>0. /\ x = Unpersist("heavy") => x.op = "unpersist" /\ x.f = "heavy"
        /\ x = Cache("heavy") => x.op = "cache" /\ x.f = "heavy"
    BY DEF Unpersist, Cache
  <1>1. CASE Act
    <2>1. cached' = Filled(x.f) /\ x.op = "action"
      BY <1>1 DEF Act
    <2>2. Heavy' = Filled(x.f)["heavy"]
      BY <2>1 DEF Heavy
    <2> QED
      BY <1>0, <2>1, <2>2, FilledIs DEF CacheType
  <1>2. CASE SetCache
    <2>0. x.op \in {"clear", "unpersist", "cache"}
      BY <1>2 DEF SetCache
    <2>1. CASE x.op = "clear"
      <3>1. cached' = NoCaches
        BY <1>2, <2>1 DEF SetCache
      <3> QED
        BY <1>0, <2>1, <3>1 DEF NoCaches, CacheType
    <2>2. CASE x.op = "unpersist"
      <3>1. cached' = [cached EXCEPT ![x.f] = "none"]
        BY <1>2, <2>2 DEF SetCache
      <3> QED
        BY <1>0, <2>2, <3>1 DEF CacheType, Heavy, Caches
    <2>3. CASE x.op = "cache" /\ cached[x.f] = "none"
      <3>1. cached' = [cached EXCEPT ![x.f] = "marked"]
        BY <1>2, <2>3 DEF SetCache
      <3> QED
        BY <1>0, <2>3, <3>1 DEF CacheType, Heavy, Caches
    <2>4. CASE x.op = "cache" /\ cached[x.f] # "none"
      <3>1. cached' = cached
        BY <1>2, <2>4 DEF SetCache
      <3> QED
        BY <1>0, <2>4, <3>1 DEF CacheType, Heavy, Caches
    <2> QED
      BY <2>0, <2>1, <2>2, <2>3, <2>4
  <1>3. CASE Configure \/ Build \/ ShowPlan \/ SetView \/ Other \/ Read \/ CommitTable
    <2>1. cached' = cached
      BY <1>3 DEF Configure, Build, ShowPlan, SetView, Other, Read, CommitTable
    <2>2. x.op \notin {"unpersist", "cache", "action", "measure"}
      BY <1>3 DEF Configure, Build, ShowPlan, SetView, Other, Read, CommitTable, PhaseInv
    <2> QED
      BY <1>0, <2>1, <2>2 DEF CacheType
  <1>4. CASE ReadUI
    <2>1. cached' = cached /\ x.op = "measure" /\ status = "polling"
      BY <1>4 DEF ReadUI, PhaseInv
    <2> QED
      BY <1>0, <2>1 DEF CacheType
  <1> QED
    BY <1>1, <1>2, <1>3, <1>4 DEF Finishing

LEMMA CacheTyped ==
    KernelInv /\ PhaseInv /\ CacheType /\ disturbed \in BOOLEAN /\ [Next]_vars =>
        CacheType' /\ disturbed' \in BOOLEAN /\ (disturbed => disturbed')
  <1> SUFFICES ASSUME KernelInv, PhaseInv, CacheType, disturbed \in BOOLEAN, [Next]_vars
               PROVE  CacheType' /\ disturbed' \in BOOLEAN /\ (disturbed => disturbed')
    OBVIOUS
  <1>1. CASE Finishing
    BY <1>1, FinishingCache, FinishingConf
  <1>2. CASE Staying
    <2>1. NoCaches \in [Caches -> {"none", "marked", "filled"}]
      BY DEF NoCaches
    <2> QED
      BY <1>2, <2>1, StayingIs, FilledIs DEF CacheType
  <1>3. CASE DriverDies \/ Interrupt
    <2>1. (cached' = cached \/ cached' = NoCaches) /\ disturbed' = disturbed
      BY <1>3 DEF DriverDies, Interrupt, auxVars
    <2> QED
      BY <2>1 DEF CacheType, NoCaches
  <1>4. CASE Retry \/ Reconnect \/ Resume \/ FromTheTop
    <2>1. cached' = cached /\ disturbed' = disturbed
      BY <1>4 DEF Retry, Reconnect, Resume, FromTheTop, serverVars
    <2> QED
      BY <2>1 DEF CacheType
  <1> QED
    BY <1>1, <1>2, <1>3, <1>4, NextIs

LEMMA CachePreserved ==
    KernelInv /\ PhaseInv /\ CacheInv /\ [Next]_vars => CacheInv'
  <1> SUFFICES ASSUME KernelInv, PhaseInv, CacheInv, [Next]_vars PROVE CacheInv'
    OBVIOUS
  <1>0. CacheType /\ disturbed \in BOOLEAN
    BY DEF CacheInv, CacheType
  <1>1. CacheType' /\ disturbed' \in BOOLEAN /\ (disturbed => disturbed')
    BY <1>0, CacheTyped
  <1>2. KernelInv' /\ op' \in Nat
    BY KernelPreserved, ScriptFacts DEF KernelInv, KernelTypeOK
  <1>3. CASE ~Steady' \/ ~(op' > 1)
    BY <1>1, <1>2, <1>3 DEF CacheInv, CacheType
  <1>4. CASE Steady' /\ op' > 1
    <2>0. PICK x, y, z : x = o /\ y = Before(1) /\ z = Before(2)
      OBVIOUS
    <2>1. Steady /\ Script' = Script /\ cell' = cell
      BY <1>4, Onward
    <2>2. /\ (op > 1 /\ y = Unpersist("heavy")) => Heavy = "none"
          /\ (op > 1 /\ y = Cache("heavy")) => Heavy # "none" \/ disturbed
          /\ (op > 2 /\ y = Cache("heavy") /\ z = Unpersist("heavy")
                 /\ status # "polling") => Heavy # "filled"
          /\ (op > 1 /\ y = Cache("heavy") /\ status = "polling" /\ x.f = "heavy") =>
                 Heavy = "filled" \/ disturbed
          /\ (op > 2 /\ z = Cache("heavy") /\ y.op \in {"action", "measure"}
                 /\ y.f = "heavy") => Heavy = "filled" \/ disturbed
      BY <2>0, <2>1 DEF CacheInv
    <2>3. CASE Finishing /\ op' = op + 1 /\ status' = "ready"
      <3>1. Before(1)' = x /\ Before(2)' = y /\ (op' > 2 => op > 1)
        BY <2>0, <2>1, <2>3, Befores
      <3>2. /\ x = Unpersist("heavy") => Heavy' = "none"
            /\ x = Cache("heavy") => Heavy' # "none" /\ (Heavy' = "filled" => Heavy = "filled")
            /\ x.op = "action" /\ x.f = "heavy" /\ Heavy # "none" => Heavy' = "filled"
            /\ x.op = "measure" => cached' = cached /\ status = "polling"
        BY <1>0, <2>0, <2>3, FinishingCache
      <3>3. x.op = "measure" => Heavy' = Heavy
        BY <3>2 DEF Heavy
      <3> QED
        BY <1>1, <2>2, <2>3, <3>1, <3>2, <3>3 DEF CacheInv, CacheType
    <2>4. CASE Staying /\ op' = op
      <3>1. Before(1)' = y /\ Before(2)' = z /\ o' = x
        BY <2>0, <2>1, <2>4, Befores
      <3>2. CASE cached' = cached /\ disturbed' = disturbed /\ ~RunMeasured
        <4>1. Heavy' = Heavy /\ (status' = "polling" => status = "polling")
          BY <2>4, <3>2, StayingIs DEF Heavy
        <4>2. status' # "polling" => status # "polling"
          <5>1. status = "polling" => status' = "polling"
            BY <1>4, <2>4, <3>2 DEF Staying, Reject, Overwrite, AskUI, List, Elsewhere, DueOp, Due,
                               Fault, vars, kernelVars
          <5> QED
            BY <5>1
        <4> QED
          BY <1>1, <2>2, <2>4, <3>1, <3>2, <4>1, <4>2 DEF CacheInv, CacheType
      <3>3. CASE RunMeasured /\ cached' = Filled(x.f) /\ disturbed' = disturbed
                /\ status' = "polling"
        <4>1. Heavy' = Filled(x.f)["heavy"]
          BY <3>3 DEF Heavy
        <4>2. /\ Heavy' = "none" <=> Heavy = "none"
              /\ Heavy = "filled" => Heavy' = "filled"
              /\ x.f = "heavy" /\ Heavy # "none" => Heavy' = "filled"
          BY <1>0, <4>1, FilledIs
        <4> QED
          BY <1>1, <2>2, <2>4, <3>1, <3>3, <4>2 DEF CacheInv, CacheType
      <3>4. CASE cached' = NoCaches /\ disturbed' = TRUE
        <4>1. Heavy' = "none"
          BY <3>4 DEF Heavy, NoCaches, Caches
        <4> QED
          BY <1>1, <3>4, <4>1 DEF CacheInv, CacheType
      <3>5. RunMeasured => cached' = Filled(x.f) /\ disturbed' = disturbed /\ status' = "polling"
        BY <2>0 DEF RunMeasured, GoOn, auxVars
      <3> QED
        BY <2>4, <3>2, <3>3, <3>4, <3>5, StayingIs
    <2> QED
      BY <1>4, <2>3, <2>4, Onward
  <1> QED
    BY <1>3, <1>4

-----------------------------------------------------------------------------
(* THE LABELS: THE SESSION.  What is measured rests on a session that      *)
(* lives, and with a session its knobs, frames and cache are gone.         *)
LEMMA FinishingDead ==
    ASSUME LiveInv, PhaseInv, Finishing, session = "dead"
    PROVE  /\ session' = "dead" /\ conf' = DefaultConf /\ cached' = NoCaches
           /\ \A f \in DOMAIN frames' : frames'[f] # "live"
  <1> USE DEF DueOp, Due, serverVars, clientVars
  <1>0. conf = DefaultConf /\ cached = NoCaches /\ \A f \in DOMAIN frames : frames[f] # "live"
    BY DEF LiveInv
  <1>1. ~Configure /\ ~Read
    BY DEF Configure, Read, Refused
  <1>2. ~Act /\ ~ShowPlan
    BY <1>0 DEF Act, ShowPlan, Refused, Usable
  <1>3. CASE Build
    <2>1. o.from \subseteq DOMAIN frames
      BY <1>3 DEF Build, Refused
    <2> DEFINE v == IF o.from = {} THEN session
                    ELSE IF \A g \in o.from : frames[g] = "live" THEN "live" ELSE "dead"
    <2>2. v # "live"
      BY <1>0, <2>1
    <2>3. frames' = Put(frames, o.f, v)
      BY <1>3 DEF Build
    <2> HIDE DEF v
    <2>4. \A f \in DOMAIN frames' : frames'[f] # "live"
      BY <1>0, <2>2, <2>3 DEF Put
    <2> QED
      BY <1>0, <1>3, <2>4 DEF Build
  <1>4. CASE SetCache
    <2>1. FALSE
      BY <1>0, <1>4 DEF SetCache, Refused, Usable
    <2> QED
      BY <2>1
  <1>5. CASE SetView \/ Other \/ CommitTable \/ ReadUI
    BY <1>0, <1>5 DEF SetView, Other, CommitTable, ReadUI
  <1> QED
    BY <1>1, <1>2, <1>3, <1>4, <1>5 DEF Finishing

LEMMA LivePreserved ==
    KernelInv /\ PhaseInv /\ LiveInv /\ CacheInv /\ [Next]_vars => LiveInv'
  <1> SUFFICES ASSUME KernelInv, PhaseInv, LiveInv, CacheInv, [Next]_vars PROVE LiveInv'
    OBVIOUS
  <1> USE DEF serverVars, clientVars
  <1>1. CASE Finishing
    <2>1. status' = "ready" /\ session' = session
      BY <1>1, FinishingIs, FinishingConf
    <2>2. session' = "dead" => /\ conf' = DefaultConf /\ cached' = NoCaches
                               /\ \A f \in DOMAIN frames' : frames'[f] # "live"
      BY <1>1, <2>1, FinishingDead
    <2> QED
      BY <2>1, <2>2 DEF LiveInv
  <1>2. CASE Staying
    <2>1. /\ conf' = conf /\ frames' = frames /\ session' = session /\ cell' = cell /\ op' = op
          /\ Script' = Script
      BY <1>2, StayingIs, KernelPreserved
    <2>2. o' = o
      BY <2>1 DEF o
    <2>3. session = "dead" => cached' = NoCaches
      <3>1. RunMeasured => session # "dead"
        BY DEF RunMeasured, Due, LiveInv, Usable
      <3> QED
        BY <1>2, <3>1, StayingIs DEF LiveInv
    <2>4. status' \in {"measuring", "polling"} => Usable(o.f)
      <3>1. AskUI => Usable(o.f)
        BY DEF AskUI, DueOp, Refused
      <3>2. RunMeasured => Usable(o.f)
        BY DEF RunMeasured, Due, LiveInv
      <3>3. CASE ~AskUI /\ ~RunMeasured
        <4>1. status' \in {"measuring", "polling"} => status = status'
          BY <1>2, <3>3 DEF Staying, Reject, Overwrite, List, Elsewhere, GoOn, Fault, vars,
                            kernelVars
        <4> QED
          BY <4>1 DEF LiveInv
      <3> QED
        BY <3>1, <3>2, <3>3
    <2>5. status' \in {"measuring", "polling"} => Usable(o.f)'
      BY <2>1, <2>2, <2>4 DEF Usable
    <2> QED
      BY <2>1, <2>3, <2>5 DEF LiveInv
  <1>3. CASE DriverDies
    BY <1>3 DEF DriverDies, Die, Fault, LiveInv
  <1>4. CASE Interrupt
    <2>1. status' = "failed" /\ frames' = frames /\ session' = session /\ cached' = cached
      BY <1>4 DEF Interrupt, Die, Fault
    <2>2. session = "dead" => conf' = conf
      BY <1>4 DEF Interrupt, Refused
    <2> QED
      BY <2>1, <2>2 DEF LiveInv
  <1>5. CASE Retry \/ Resume
    <2>1. /\ status' = "ready" /\ frames' = frames /\ session' = session /\ cached' = cached
          /\ conf' = conf
      BY <1>5 DEF Retry, RetryCell, Resume
    <2> QED
      BY <2>1 DEF LiveInv
  <1>6. CASE Reconnect \/ FromTheTop
    <2>1. status' = "ready" /\ session' = "live"
      BY <1>6 DEF Reconnect, FromTheTop, FromTop
    <2> QED
      BY <2>1 DEF LiveInv
  <1> QED
    BY <1>1, <1>2, <1>3, <1>4, <1>5, <1>6, NextIs

-----------------------------------------------------------------------------
(* THE LABELS: CELLS THAT GO ON.  The salted run of spk1 finds the knobs   *)
(* of the broken one, unless it was resumed to; the two measured joins of  *)
(* spk5 those under which their frames were built, or no such frame; and   *)
(* the first access of spk8 a cache that nobody filled, or a warm one.     *)
SaltInv == notebook = "spk1" /\ cell = 4 => ~conf.broadcast \/ resumed \/ session = "dead"

StrategyInv ==
    notebook = "spk5" =>
        /\ cell = 4 => conf.broadcast
        /\ cell = 6 => ~conf.broadcast \/ ~Usable("smj_join")
        /\ failedAt # 0 /\ cell <= 2 => conf.broadcast /\ ~Usable("smj_join")

WarmInv ==
    notebook = "spk8" /\ (cell = 1 \/ (cell = 2 /\ op <= 2)) /\ status \in {"ready", "measuring"} =>
        (Heavy = "filled" => warm)

LEMMA Arriving ==
    ASSUME KernelInv, [Next]_vars, cell' # cell
    PROVE  \/ Finishing /\ cell' = cell + 1 /\ op = Len(Script[cell]) /\ Steady
           \/ /\ Resume /\ cell' = failedAt /\ cell = Setup[notebook] + 1 /\ resumed' = TRUE
              /\ conf' = conf /\ frames' = frames /\ session' = session
           \/ (Reconnect \/ FromTheTop) /\ cell' = 1
  <1>1. CASE Finishing
    BY <1>1, FinishingIs DEF Steady
  <1>2. CASE Staying \/ DriverDies \/ Interrupt \/ Retry
    BY <1>2, StayingIs DEF DriverDies, Interrupt, Die, Fault, Retry, RetryCell
  <1>3. CASE Resume
    BY <1>3 DEF Resume, serverVars, clientVars
  <1>4. CASE Reconnect \/ FromTheTop
    BY <1>4 DEF Reconnect, FromTheTop, FromTop
  <1> QED
    BY <1>1, <1>2, <1>3, <1>4, NextIs

(* A step under an operation that sets no knob.                            *)
LEMMA KnobsStay ==
    ASSUME KernelInv, PhaseInv, [Next]_vars, ~Reconnect, ~FromTheTop,
           ~AtEnd(Script) => o.op \notin {"profile", "conf"}
    PROVE  /\ conf' = conf \/ (conf' = DefaultConf /\ DriverDies)
           /\ session' = session \/ (session' = "dead" /\ DriverDies)
           /\ resumed' = resumed \/ resumed' = TRUE
  <1>1. CASE Finishing
    BY <1>1, FinishingIs, FinishingConf
  <1>2. CASE Staying
    BY <1>2, StayingIs
  <1>3. CASE DriverDies \/ Interrupt
    BY <1>3 DEF DriverDies, Interrupt, Due, clientVars, auxVars
  <1>4. CASE Retry \/ Resume
    BY <1>4 DEF Retry, Resume, serverVars, clientVars
  <1> QED
    BY <1>1, <1>2, <1>3, <1>4, NextIs

LEMMA UsableSteps ==
    ASSUME KernelInv, [Next]_vars, NEW f, Usable(f)'
    PROVE  Usable(f) \/ (~AtEnd(Script) /\ o.op \in {"frame", "read"} /\ o.f = f)
  <1> USE DEF Usable, DueOp, Due, clientVars
  <1>1. CASE Build \/ Read
    <2>1. PICK v : frames' = Put(frames, o.f, v)
      BY <1>1 DEF Build, Read
    <2>2. ~AtEnd(Script) /\ o.op \in {"frame", "read"}
      BY <1>1 DEF Build, Read
    <2> QED
      BY <2>1, <2>2 DEF Put
  <1>2. CASE Configure \/ Act \/ ShowPlan \/ SetCache \/ SetView \/ Other \/ CommitTable \/ ReadUI
    <2>1. frames' = frames
      BY <1>2 DEF Configure, Act, ShowPlan, SetCache, SetView, Other, CommitTable, ReadUI
    <2> QED
      BY <2>1
  <1>3. CASE Staying
    BY <1>3, StayingIs
  <1>4. CASE DriverDies
    BY <1>4 DEF DriverDies
  <1>5. CASE Interrupt \/ Retry \/ Reconnect \/ Resume
    BY <1>5 DEF Interrupt, Retry, Reconnect, Resume
  <1>6. CASE FromTheTop
    BY <1>6 DEF FromTheTop
  <1> QED
    BY <1>1, <1>2, <1>3, <1>4, <1>5, <1>6, NextIs DEF Finishing

LEMMA DefaultBroadcasts == DefaultConf.broadcast
  BY DEF DefaultConf

LEMMA SaltPreserved ==
    KernelInv /\ PhaseInv /\ KnobsInv /\ SaltInv /\ [Next]_vars => SaltInv'
  <1> SUFFICES ASSUME KernelInv, PhaseInv, KnobsInv, SaltInv, [Next]_vars,
                      notebook' = "spk1", cell' = 4
               PROVE  ~conf'.broadcast \/ resumed' \/ session' = "dead"
    BY DEF SaltInv
  <1>1. notebook = "spk1" /\ Script = Cells.spk1
    BY KernelPreserved DEF Script
  <1>2. CASE cell = 4
    <2>1. ~Reconnect /\ ~FromTheTop
      BY DEF Reconnect, FromTheTop, FromTop
    <2>2. ~AtEnd(Script) => o.op = "measure"
      <3>1. Script[4] = <<Measure("m_salt", "fact", Salty)>>
        BY <1>1, Spk1Cells
      <3>2. ~AtEnd(Script) => op \in 1 .. Len(Script[4]) /\ o = Script[4][op]
        BY <1>2, WhereItIs DEF o
      <3>3. ~AtEnd(Script) => o = Measure("m_salt", "fact", Salty)
        BY <3>1, <3>2
      <3> QED
        BY <3>3 DEF Measure
    <2>3. /\ conf' = conf \/ session' = "dead"
          /\ session' = session \/ session' = "dead"
          /\ resumed' = resumed \/ resumed' = TRUE
      BY <2>1, <2>2, KnobsStay DEF DriverDies
    <2> QED
      BY <1>1, <1>2, <2>3 DEF SaltInv
  <1>3. CASE cell # 4
    <2>1. CASE Finishing /\ cell' = cell + 1 /\ op = Len(Script[cell]) /\ Steady
      <3>1. cell = 3
        BY <2>1, WhereItIs
      <3> DEFINE p == Profile("constrained", NoOver)
                 m == Measure("m_broken", "fact", Skew)
      <3>2. Script[3] = <<p, m>>
        BY <1>1, Spk1Cells
      <3>3. p.op = "profile" /\ m.op = "measure"
        BY DEF Profile, Measure
      <3>4. Sets(p) /\ (Agrees(conf, p) => ~conf.broadcast)
        BY SettingsSet, Constrains DEF Constrained
      <3> HIDE DEF p, m
      <3>5. op = 2 /\ Before(1) = p /\ o = m
        BY <2>1, <3>1, <3>2 DEF Before, o
      <3>6. Agrees(conf, p)
        BY <2>1, <3>4, <3>5 DEF KnobsInv
      <3>7. conf' = conf
        BY <2>1, <3>3, <3>5, FinishingConf
      <3> QED
        BY <3>4, <3>6, <3>7
    <2>2. ~(Reconnect \/ FromTheTop)
      BY DEF Reconnect, FromTheTop, FromTop
    <2> QED
      BY <1>3, <2>1, <2>2, Arriving, Zenon
  <1> QED
    BY <1>2, <1>3

LEMMA StrategyPreserved ==
    KernelInv /\ PhaseInv /\ KnobsInv /\ LiveInv /\ StrategyInv /\ [Next]_vars => StrategyInv'
  <1> SUFFICES ASSUME KernelInv, PhaseInv, KnobsInv, LiveInv, StrategyInv, [Next]_vars,
                      notebook' = "spk5"
               PROVE  /\ cell' = 4 => conf'.broadcast
                      /\ cell' = 6 => ~conf'.broadcast \/ ~Usable("smj_join")'
                      /\ failedAt' # 0 /\ cell' <= 2 => conf'.broadcast /\ ~Usable("smj_join")'
    BY DEF StrategyInv
  <1>1. notebook = "spk5" /\ Script = Cells.spk5 /\ Setup[notebook] = 1
    BY KernelPreserved, Spk5Cells DEF Script
  <1> DEFINE t == Profile("tuned", NoOver)
             b == Frame("bcast_join", {"fact", "dim"})
             xb == Explain("x_bcast", "bcast_join", Plain)
             mb == Measure("m_bcast", "bcast_join", Plain)
             c == Profile("constrained", NoOver)
             s == Frame("smj_join", {"fact", "dim"})
             xs == Explain("x_smj", "smj_join", Plain)
             ms == Measure("m_smj", "smj_join", Plain)
             ff == Frame("fact", {})
             fd == Frame("dim", {})
             ad == Action("dim")
  <1>2. /\ Script[1] = <<ff, fd>> /\ Script[2] = <<ad>>
        /\ Script[3] = <<t, b, xb>> /\ Script[4] = <<mb>>
        /\ Script[5] = <<c, s, xs>> /\ Script[6] = <<ms>>
    BY <1>1, Spk5Cells
  <1>3. /\ b.op = "frame" /\ s.op = "frame" /\ xb.op = "explain" /\ xs.op = "explain"
        /\ mb.op = "measure" /\ ms.op = "measure"
        /\ ff.op = "frame" /\ ff.f = "fact" /\ fd.op = "frame" /\ fd.f = "dim"
        /\ ad.op = "action"
    BY DEF Frame, Explain, Measure, Action
  <1>4. /\ Sets(t) /\ (Agrees(conf, t) => conf.broadcast)
        /\ Sets(c) /\ (Agrees(conf, c) => ~conf.broadcast)
    BY SettingsSet, Constrains, Tunes DEF Constrained, TunedTo
  <1> HIDE DEF t, b, xb, mb, c, s, xs, ms, ff, fd, ad
  <1>5. ASSUME cell' = 4 \/ cell' = 6, cell' = cell
        PROVE  /\ conf' = conf \/ (conf' = DefaultConf /\ DriverDies)
               /\ Usable("smj_join")' => Usable("smj_join")
    <2>1. ~Reconnect /\ ~FromTheTop
      BY <1>5 DEF Reconnect, FromTheTop, FromTop
    <2>2. ~AtEnd(Script) => o.op = "measure"
      BY <1>2, <1>3, <1>5, WhereItIs DEF o
    <2> QED
      BY <2>1, <2>2, KnobsStay, UsableSteps
  <1>6. ASSUME cell' = 4 \/ cell' = 6, cell' # cell, ~Resume
        PROVE  cell' = 4 <=> conf'.broadcast
    <2>0. ~(Reconnect \/ FromTheTop)
      BY <1>6 DEF Reconnect, FromTheTop, FromTop
    <2>1. Finishing /\ cell' = cell + 1 /\ op = Len(Script[cell]) /\ Steady
      BY <1>6, <2>0, Arriving, Zenon
    <2>2. CASE cell' = 4
      <3>1. cell = 3 /\ op = 3
        <4>1. cell = 3
          BY <2>1, <2>2, WhereItIs
        <4>2. Len(<<t, b, xb>>) = 3
          OBVIOUS
        <4> QED
          BY <1>2, <2>1, <4>1, <4>2
      <3>2. op > 2 /\ Before(1) = b /\ Before(2) = t /\ o = xb
        BY <1>2, <3>1 DEF Before, o
      <3>3. Agrees(conf, t)
        BY <1>3, <1>4, <2>1, <3>1, <3>2 DEF KnobsInv
      <3>4. conf' = conf
        BY <1>3, <2>1, <3>2, FinishingConf
      <3> QED
        BY <1>4, <2>2, <3>3, <3>4
    <2>3. CASE cell' = 6
      <3>1. cell = 5 /\ op = 3
        <4>1. cell = 5
          BY <2>1, <2>3, WhereItIs
        <4>2. Len(<<c, s, xs>>) = 3
          OBVIOUS
        <4> QED
          BY <1>2, <2>1, <4>1, <4>2
      <3>2. op > 2 /\ Before(1) = s /\ Before(2) = c /\ o = xs
        BY <1>2, <3>1 DEF Before, o
      <3>3. Agrees(conf, c)
        BY <1>3, <1>4, <2>1, <3>1, <3>2 DEF KnobsInv
      <3>4. conf' = conf
        BY <1>3, <2>1, <3>2, FinishingConf
      <3> QED
        BY <1>4, <2>3, <3>3, <3>4
    <2> QED
      BY <1>6, <2>2, <2>3
  <1>7. ASSUME Resume, cell' = 4 \/ cell' = 6
        PROVE  conf'.broadcast /\ ~Usable("smj_join")'
    <2>1. /\ cell = 2 /\ cell' = failedAt /\ conf' = conf /\ frames' = frames
      BY <1>1, <1>7 DEF Resume, serverVars, clientVars
    <2> QED
      BY <1>1, <1>7, <2>1 DEF StrategyInv, Usable
  <1>8. cell' = 4 => conf'.broadcast
    <2>1. CASE cell' = cell
      BY <1>1, <1>5, <2>1, DefaultBroadcasts DEF StrategyInv
    <2> QED
      BY <1>6, <1>7, <2>1
  <1>9. cell' = 6 => ~conf'.broadcast \/ ~Usable("smj_join")'
    <2>1. CASE cell' = cell
      <3>1. DriverDies => ~Usable("smj_join")'
        BY DEF DriverDies, Usable
      <3> QED
        BY <1>1, <1>5, <2>1, <3>1 DEF StrategyInv
    <2> QED
      BY <1>6, <1>7, <2>1
  <1>10. ASSUME failedAt' # 0, cell' <= 2
         PROVE  conf'.broadcast /\ ~Usable("smj_join")'
    <2>1. ~FromTheTop /\ ~Resume
      BY <1>10 DEF FromTheTop, Resume
    <2>2. CASE Reconnect
      <3>1. session = "dead" /\ conf' = conf /\ frames' = frames
        BY <2>2 DEF Reconnect, serverVars
      <3> QED
        BY <3>1, DefaultBroadcasts DEF LiveInv, Usable
    <2>3. CASE ~Reconnect
      <3>1. failedAt' = failedAt
        BY <2>1, <2>3, FailedAtStays
      <3>2. cell \in {1, 2} /\ Len(Script) \in Nat
        <4>1. ~(cell' < cell)
          BY <2>1, <2>3, NeverBack
        <4>2. cell' \in Nat
          BY KernelPreserved, ScriptFacts DEF KernelInv, KernelTypeOK
        <4> QED
          BY <1>10, <4>1, <4>2, WhereItIs
      <3>3. conf.broadcast /\ ~Usable("smj_join")
        BY <1>1, <1>10, <3>1, <3>2 DEF StrategyInv
      <3>4. ~AtEnd(Script) => o.op \in {"frame", "action"} /\ (o.op = "frame" => o.f # "smj_join")
        <4>1. ~AtEnd(Script) => o \in {ff, fd, ad}
          BY <1>2, <3>2, WhereItIs DEF o
        <4> QED
          BY <1>3, <4>1
      <3>5. conf' = conf \/ conf' = DefaultConf
        BY <2>1, <2>3, <3>4, KnobsStay
      <3>6. ~Usable("smj_join")'
        BY <3>3, <3>4, UsableSteps
      <3> QED
        BY <3>3, <3>5, <3>6, DefaultBroadcasts
    <2> QED
      BY <2>2, <2>3
  <1> QED
    BY <1>8, <1>9, <1>10

LEMMA WarmPreserved ==
    KernelInv /\ PhaseInv /\ CacheInv /\ LiveInv /\ WarmInv /\ [Next]_vars => WarmInv'
  <1> SUFFICES ASSUME KernelInv, PhaseInv, CacheInv, LiveInv, WarmInv, [Next]_vars,
                      notebook' = "spk8", cell' = 1 \/ (cell' = 2 /\ op' <= 2),
                      status' \in {"ready", "measuring"}, Heavy' = "filled"
               PROVE  warm'
    BY DEF WarmInv
  <1>1. notebook = "spk8" /\ Script = Cells.spk8 /\ Setup[notebook] = 1
    BY KernelPreserved, Spk8Cells DEF Script
  <1> DEFINE t == Profile("tuned", NoOver)
             h == Frame("heavy", {})
             k == Cache("heavy")
             f == Measure("m_first", "heavy", CachedQ)
             z == Measure("m_second", "heavy", CachedQ)
  <1>2. Script[1] = <<t, h>> /\ Script[2] = <<k, f, z>>
    BY <1>1, Spk8Cells
  <1>3. t.op = "profile" /\ h.op = "frame" /\ k.op = "cache"
    BY DEF Profile, Frame, Cache
  <1>4. k = Cache("heavy")
    OBVIOUS
  <1> HIDE DEF t, h, k, f, z
  <1>5. CASE Finishing
    <2>1. ~AtEnd(Script) /\ cell \in 1 .. Len(Script) /\ op \in 1 .. Len(Script[cell])
      BY <1>5, FinishingIs, WhereItIs
    <2>2. cell = 1 \/ (cell = 2 /\ op = 1)
      BY <1>5, <2>1, FinishingIs, WhereItIs
    <2>3. o \in {t, h, k}
      BY <1>2, <2>1, <2>2 DEF o
    <2>4. status = "ready"
      BY <1>3, <1>5, <2>3, FinishingIs DEF PhaseInv
    <2>5. Heavy = "filled"
      <3>1. PICK x : x = o
        OBVIOUS
      <3>2. /\ x = k => (Heavy' = "filled" => Heavy = "filled")
            /\ x.op \notin {"action", "cache", "unpersist", "clear"} => cached' = cached
        BY <1>4, <1>5, <3>1, FinishingCache DEF CacheInv, CacheType
      <3> QED
        BY <1>3, <2>3, <3>1, <3>2 DEF Heavy
    <2>6. warm' = warm
      BY <1>5, FinishingConf
    <2> QED
      BY <1>1, <2>2, <2>4, <2>5, <2>6 DEF WarmInv
  <1>6. CASE Staying
    <2>1. cell' = cell /\ op' = op /\ status \in {"ready", "measuring"} /\ warm' = warm
      BY <1>6, StayingIs
    <2>2. Heavy = "filled"
      <3>1. cached' # NoCaches
        BY DEF Heavy, NoCaches, Caches
      <3>2. cached' = cached
        BY <1>6, <3>1, StayingIs
      <3> QED
        BY <3>2 DEF Heavy
    <2> QED
      BY <1>1, <2>1, <2>2 DEF WarmInv
  <1>7. CASE DriverDies \/ Interrupt
    BY <1>7 DEF DriverDies, Interrupt, Die, Fault
  <1>8. CASE Retry \/ FromTheTop
    BY <1>8 DEF Retry, FromTheTop, IsWarm, Heavy, serverVars
  <1>9. CASE Reconnect
    BY <1>9 DEF Reconnect, LiveInv, Heavy, NoCaches, Caches, serverVars
  <1>10. CASE Resume
    <2>1. cell' = failedAt /\ cell = 2 /\ cell < failedAt
      BY <1>1, <1>10 DEF Resume
    <2> QED
      BY <2>1
  <1> QED
    BY <1>5, <1>6, <1>7, <1>8, <1>9, <1>10, NextIs

-----------------------------------------------------------------------------
(* THE LABELS: THE RUNS.  What is shown, and what is being measured, is as *)
(* its label says or excused.                                              *)
RunsInv ==
    /\ \A x \in DOMAIN mem : Excused(x) \/ Good(notebook, x, mem[x])
    /\ status = "polling" => Excused(o.into) \/ Good(notebook, o.into, pending)

LabelsInv ==
    /\ SparkInv /\ KnobsInv /\ LiveInv /\ CacheInv
    /\ SaltInv /\ StrategyInv /\ WarmInv /\ RunsInv

LEMMA HitsAre ==
    ASSUME CacheType, NEW q, NEW c, NEW a, NEW f, NEW label
    PROVE  /\ f = "heavy" => (Hit(f) <=> Heavy = "filled")
           /\ ~Hit(f) /\ label = HitRun(FALSE) => Fits(label, Run(q, c, Hit(f), a))
           /\ Hit(f) /\ label = HitRun(TRUE) => Fits(label, Run(q, c, Hit(f), a))
  <1>1. f = "heavy" => (Hit(f) <=> Heavy = "filled")
    BY DEF Hit, Heavy, Caches
  <1>2. Hit(f) \in BOOLEAN
    BY DEF Hit
  <1> DEFINE h == Hit(f)
  <1>3. h = TRUE \/ h = FALSE
    BY <1>2
  <1>4. Fits(HitRun(h), Run(q, c, h, a))
    BY LabelsFit
  <1>5. (Hit(f) => h = TRUE) /\ (~Hit(f) => h = FALSE)
    BY <1>3
  <1>6. ~Hit(f) /\ label = HitRun(FALSE) => Fits(label, Run(q, c, h, a))
    <2> SUFFICES ASSUME ~Hit(f), label = HitRun(FALSE) PROVE Fits(label, Run(q, c, h, a))
      OBVIOUS
    <2>1. h = FALSE
      BY <1>5
    <2> HIDE DEF h
    <2> QED
      BY <1>4, <2>1, Zenon
  <1>7. Hit(f) /\ label = HitRun(TRUE) => Fits(label, Run(q, c, h, a))
    <2> SUFFICES ASSUME Hit(f), label = HitRun(TRUE) PROVE Fits(label, Run(q, c, h, a))
      OBVIOUS
    <2>1. h = TRUE
      BY <1>5
    <2> HIDE DEF h
    <2> QED
      BY <1>4, <2>1, Zenon
  <1> QED
    BY <1>1, <1>6, <1>7, Zenon

(* What is due to be shown, from the cell that it is in.                   *)
LEMMA BackedRun ==
    ASSUME KnobsInv, CacheInv, Steady, status # "polling", NEW x, x = o,
           NEW c, c = Script[cell], op \in 1 .. Len(c), Len(c) \in Nat,
           Labelled(notebook, x), CellBacked(notebook, c), NEW a \in Answers(x.q)
    PROVE  Excused(x.into) \/ Fits(Labels[notebook][x.into], Run(x.q, conf, Hit(x.f), a))
  <1> DEFINE label == Labels[notebook][x.into]
             r == Run(x.q, conf, Hit(x.f), a)
  <1>0. Backed(notebook, c, op) /\ c[op] = x
    BY DEF CellBacked, o
  <1>00. CacheType
    BY DEF CacheInv, CacheType
  <1>1. CASE Fine(notebook, x)
    <2>1. Always(x.q, label)
      BY <1>1 DEF Fine
    <2> QED
      BY <2>1 DEF Always
  <1>2. ASSUME NEW s, After(notebook, s, x), Agrees(conf, s) PROVE Fits(label, r)
    <2>1. Yields(s, x.q, label)
      BY <1>2 DEF After
    <2> QED
      BY <1>2, <2>1 DEF Yields
  <1>3. ASSUME op > 1, BackedBy(notebook, c[op - 1], x) PROVE Fits(label, r)
    <2>1. PICK y : y = Before(1) /\ y = c[op - 1]
      BY DEF Before
    <2>2. CASE After(notebook, y, x)
      <3>1. Sets(y)
        BY <2>2 DEF After
      <3>2. Agrees(conf, y)
        BY <1>3, <2>1, <3>1 DEF KnobsInv
      <3> QED
        BY <1>2, <2>2, <3>2
    <2>3. CASE x.f = "heavy" /\ y = Unpersist("heavy") /\ label = HitRun(FALSE)
      <3>1. Heavy = "none"
        BY <1>3, <2>1, <2>3 DEF CacheInv
      <3>2. ~Hit(x.f)
        BY <1>00, <2>3, <3>1, HitsAre
      <3> HIDE DEF label
      <3> QED
        BY <1>00, <2>3, <3>2, HitsAre, Zenon
    <2> QED
      BY <1>3, <2>1, <2>2, <2>3 DEF BackedBy
  <1>4. ASSUME op > 2, BackedByTwo(notebook, c[op - 2], c[op - 1], x)
        PROVE  Excused(x.into) \/ Fits(label, r)
    <2>1. PICK y : y = Before(1) /\ y = c[op - 1]
      BY DEF Before
    <2>2. PICK z : z = Before(2) /\ z = c[op - 2]
      BY DEF Before
    <2>3. CASE y.op = "frame" /\ After(notebook, z, x)
      <3>1. Sets(z)
        BY <2>3 DEF After
      <3>2. Agrees(conf, z)
        BY <1>4, <2>1, <2>2, <2>3, <3>1 DEF KnobsInv
      <3> QED
        BY <1>2, <2>3, <3>2
    <2>4. CASE /\ x.f = "heavy" /\ label = HitRun(FALSE)
               /\ z = Unpersist("heavy") /\ y = Cache("heavy")
      <3>1. Heavy # "filled"
        BY <1>4, <2>1, <2>2, <2>4 DEF CacheInv
      <3>2. ~Hit(x.f)
        BY <1>00, <2>4, <3>1, HitsAre
      <3> HIDE DEF label
      <3> QED
        BY <1>00, <2>4, <3>2, HitsAre, Zenon
    <2>5. CASE /\ x.f = "heavy" /\ label = HitRun(TRUE) /\ x.into \in OfCache
               /\ z = Cache("heavy") /\ y.op \in {"action", "measure"} /\ y.f = "heavy"
      <3>1. Heavy = "filled" \/ disturbed
        BY <1>4, <2>1, <2>2, <2>5 DEF CacheInv
      <3>2. disturbed => Excused(x.into)
        BY <2>5 DEF Excused, OfCache
      <3>3. Heavy = "filled" => Hit(x.f)
        BY <1>00, <2>5, HitsAre
      <3>4. Hit(x.f) => Fits(label, r)
        <4> HIDE DEF label
        <4> QED
          BY <1>00, <2>5, HitsAre, Zenon
      <3> QED
        BY <3>1, <3>2, <3>3, <3>4
    <2> QED
      BY <1>4, <2>1, <2>2, <2>3, <2>4, <2>5 DEF BackedByTwo
  <1> QED
    BY <1>0, <1>1, <1>3, <1>4 DEF Backed

LEMMA GoingOnRun ==
    ASSUME KernelInv, LiveInv, KnobsInv, CacheInv, SaltInv, StrategyInv, WarmInv, ~AtEnd(Script),
           status \in {"ready", "measuring"}, Usable(o.f), NEW x, x = o,
           Labelled(notebook, x), GoesOn(notebook, cell), NEW a \in Answers(x.q)
    PROVE  Excused(x.into) \/ Fits(Labels[notebook][x.into], Run(x.q, conf, Hit(x.f), a))
  <1>1. cell \in 1 .. Len(Script) /\ op \in 1 .. Len(Script[cell]) /\ session # "dead"
    BY WhereItIs DEF LiveInv, Usable
  <1>00. CacheType
    BY DEF CacheInv, CacheType
  <1>2. CASE notebook = "spk1" /\ cell = 4
    <2>1. Script[4] = <<Measure("m_salt", "fact", Salty)>>
      BY <1>2, Spk1Cells DEF Script
    <2>2. x = Measure("m_salt", "fact", Salty)
      BY <1>1, <1>2, <2>1 DEF o
    <2>3. x.into = "m_salt" /\ x.q = Salty
      BY <2>2 DEF Measure
    <2>4. Labels["spk1"]["m_salt"] = SkewRun("SMJ", FALSE)
      BY DEF Labels, Spk1Labels
    <2>5. a = NRows
      BY <2>3, JoinsLoseNothing DEF Salty
    <2>6. ~conf.broadcast => Join(Salty, conf) = "SMJ" /\ ~Straggles(Salty, conf)
      BY JoinsAre
    <2>7. ~conf.broadcast => Fits(SkewRun("SMJ", FALSE), Run(Salty, conf, Hit(x.f), a))
      <3>1. ~Straggles(Salty, conf) =>
                Fits(SkewRun(Join(Salty, conf), FALSE), Run(Salty, conf, Hit(x.f), a))
        BY <2>5, LabelsFit
      <3> QED
        BY <2>6, <3>1
    <2>8. ~conf.broadcast \/ resumed
      BY <1>1, <1>2 DEF SaltInv
    <2> QED
      BY <1>2, <2>3, <2>4, <2>7, <2>8 DEF Excused
  <1>3. ASSUME NEW q, q = Plain, x.q = q
        PROVE  /\ conf.broadcast => Fits(JoinRun("BHJ"), Run(x.q, conf, Hit(x.f), a))
               /\ ~conf.broadcast => Fits(JoinRun("SMJ"), Run(x.q, conf, Hit(x.f), a))
    <2>1. a = NRows
      BY <1>3, JoinsLoseNothing DEF Plain
    <2>2. Fits(JoinRun(Join(q, conf)), Run(q, conf, Hit(x.f), a))
      BY <2>1, LabelsFit
    <2>3. Join(q, conf) = IF conf.broadcast THEN "BHJ" ELSE "SMJ"
      BY <1>3, JoinsAre
    <2> QED
      BY <1>3, <2>2, <2>3
  <1>4. CASE notebook = "spk5" /\ cell = 4
    <2>1. Script[4] = <<Measure("m_bcast", "bcast_join", Plain)>>
      BY <1>4, Spk5Cells DEF Script
    <2>2. x = Measure("m_bcast", "bcast_join", Plain)
      BY <1>1, <1>4, <2>1 DEF o
    <2>3. x.into = "m_bcast" /\ x.q = Plain
      BY <2>2 DEF Measure
    <2>4. Labels["spk5"]["m_bcast"] = JoinRun("BHJ")
      BY DEF Labels, Spk5Labels
    <2> QED
      BY <1>3, <1>4, <2>3, <2>4 DEF StrategyInv
  <1>5. CASE notebook = "spk5" /\ cell = 6
    <2>1. Script[6] = <<Measure("m_smj", "smj_join", Plain)>>
      BY <1>5, Spk5Cells DEF Script
    <2>2. x = Measure("m_smj", "smj_join", Plain)
      BY <1>1, <1>5, <2>1 DEF o
    <2>3. x.into = "m_smj" /\ x.q = Plain /\ x.f = "smj_join"
      BY <2>2 DEF Measure
    <2>4. Labels["spk5"]["m_smj"] = JoinRun("SMJ")
      BY DEF Labels, Spk5Labels
    <2>5. ~conf.broadcast
      BY <1>5, <2>3 DEF StrategyInv
    <2> QED
      BY <1>3, <1>5, <2>3, <2>4, <2>5
  <1>6. CASE notebook = "spk8" /\ cell = 2
    <2> DEFINE k == Cache("heavy")
               f == Measure("m_first", "heavy", CachedQ)
               z == Measure("m_second", "heavy", CachedQ)
               label == Labels[notebook][x.into]
    <2>1. Script[2] = <<k, f, z>>
      BY <1>6, Spk8Cells DEF Script
    <2>2. /\ k.op = "cache" /\ k = Cache("heavy")
          /\ f.into = "m_first" /\ f.f = "heavy" /\ f.op = "measure"
          /\ z.into = "m_second" /\ z.f = "heavy"
      BY DEF Cache, Measure
    <2>3. Labels["spk8"]["m_first"] = HitRun(FALSE) /\ Labels["spk8"]["m_second"] = HitRun(TRUE)
      BY DEF Labels, Spk8Labels
    <2> HIDE DEF k, f, z, label
    <2>4. x = Script[2][op] /\ op \in 1 .. 3
      BY <1>1, <1>6, <2>1 DEF o
    <2>5. op # 1
      BY <2>1, <2>2, <2>4 DEF Labelled
    <2>6. CASE op = 2
      <3>1. x = f
        BY <2>1, <2>4, <2>6
      <3>2. Heavy = "filled" => warm
        BY <1>6, <2>6 DEF WarmInv
      <3>3. warm => Excused(x.into)
        BY <2>2, <3>1 DEF Excused
      <3>4. Heavy # "filled" => ~Hit(x.f)
        BY <1>00, <2>2, <3>1, HitsAre
      <3>5. label = HitRun(FALSE)
        BY <1>6, <2>2, <2>3, <3>1, Zenon DEF label
      <3>6. ~Hit(x.f) => Fits(label, Run(x.q, conf, Hit(x.f), a))
        BY <1>00, <3>5, HitsAre, Zenon
      <3> QED
        BY <3>2, <3>3, <3>4, <3>6 DEF label
    <2>7. CASE op = 3
      <3>1. x = z /\ Before(1) = f /\ Before(2) = k
        BY <1>6, <2>1, <2>4, <2>7 DEF Before
      <3>2. op > 2 /\ Steady
        BY <2>7 DEF Steady
      <3>3. Heavy = "filled" \/ disturbed
        BY <2>2, <3>1, <3>2 DEF CacheInv
      <3>4. disturbed => Excused(x.into)
        BY <2>2, <3>1 DEF Excused
      <3>5. Heavy = "filled" => Hit(x.f)
        BY <1>00, <2>2, <3>1, HitsAre
      <3>6. label = HitRun(TRUE)
        BY <1>6, <2>2, <2>3, <3>1, Zenon DEF label
      <3>7. Hit(x.f) => Fits(label, Run(x.q, conf, Hit(x.f), a))
        BY <1>00, <3>6, HitsAre, Zenon
      <3> QED
        BY <3>3, <3>4, <3>5, <3>7 DEF label
    <2> QED
      BY <2>4, <2>5, <2>6, <2>7
  <1> QED
    BY <1>2, <1>4, <1>5, <1>6 DEF GoesOn

LEMMA NewRun ==
    ASSUME LabelsInv, ~AtEnd(Script), status \in {"ready", "measuring"}, Usable(o.f),
           o.op \in {"explain", "measure"}, NEW a \in Answers(o.q)
    PROVE  Excused(o.into) \/ Good(notebook, o.into, Run(o.q, conf, Hit(o.f), a))
  <1>1. PICK x : x = o
    OBVIOUS
  <1>2. CASE o.into \notin DOMAIN Labels[notebook]
    BY <1>2 DEF Good
  <1>3. CASE o.into \in DOMAIN Labels[notebook]
    <2>1. Labelled(notebook, x)
      BY <1>1, <1>3 DEF Labelled
    <2>2. KernelInv /\ cell \in 1 .. Len(Script) /\ op \in 1 .. Len(Script[cell])
          /\ Len(Script[cell]) \in Nat
      BY WhereItIs DEF LabelsInv, SparkInv
    <2>3. CellBacked(notebook, Script[cell]) \/ GoesOn(notebook, cell)
      <3>1. ScriptBacked(notebook, 0, Script)
        BY <2>2, ScriptsBacked DEF KernelInv, Script
      <3>2. CellOK(notebook, 0 + cell, Script[cell]) /\ 0 + cell = cell
        BY <2>2, <3>1, WhereItIs DEF ScriptBacked
      <3> QED
        BY <3>2 DEF CellOK
    <2>4. CASE CellBacked(notebook, Script[cell])
      <3>1. PICK c : c = Script[cell]
        OBVIOUS
      <3>2. Steady /\ status # "polling"
        BY DEF Steady
      <3>3. Excused(x.into) \/ Fits(Labels[notebook][x.into], Run(x.q, conf, Hit(x.f), a))
        BY <1>1, <2>1, <2>2, <2>4, <3>1, <3>2, BackedRun DEF LabelsInv
      <3> QED
        BY <1>1, <3>3 DEF Good
    <2>5. CASE GoesOn(notebook, cell)
      <3>1. Excused(x.into) \/ Fits(Labels[notebook][x.into], Run(x.q, conf, Hit(x.f), a))
        BY <1>1, <2>1, <2>2, <2>5, GoingOnRun DEF LabelsInv
      <3> QED
        BY <1>1, <3>1 DEF Good
    <2> QED
      BY <2>3, <2>4, <2>5
  <1> QED
    BY <1>2, <1>3

(* An excuse stands as long as the runs that it excuses.                   *)
LEMMA ExcusedStays ==
    ASSUME KernelInv, PhaseInv, CacheInv, [Next]_vars, NEW x, Excused(x)
    PROVE  Excused(x)' \/ (FromTheTop /\ mem' = <<>>)
  <1>1. disturbed => disturbed'
    BY CacheTyped DEF CacheInv, CacheType
  <1>2. \/ (resumed => resumed') /\ (warm => warm')
        \/ FromTheTop /\ mem' = <<>> /\ (warm => warm')
    <2> USE DEF auxVars
    <2>1. CASE Finishing
      BY <2>1, FinishingConf
    <2>2. CASE Staying
      BY <2>2, StayingIs
    <2>3. CASE DriverDies \/ Interrupt
      BY <2>3 DEF DriverDies, Interrupt
    <2>4. CASE Retry \/ Reconnect \/ Resume
      BY <2>4 DEF Retry, Reconnect, Resume, IsWarm
    <2>5. CASE FromTheTop
      BY <2>5 DEF FromTheTop, IsWarm
    <2> QED
      BY <2>1, <2>2, <2>3, <2>4, <2>5, NextIs
  <1> QED
    BY <1>1, <1>2 DEF Excused

(* What is shown, after an operation that shows something and the others.  *)
LEMMA FinishingMem ==
    ASSUME Finishing
    PROVE  \/ mem' = mem
           \/ /\ ShowPlan
              /\ \E a \in Answers(o.q) : mem' = Put(mem, o.into, Run(o.q, conf, Hit(o.f), a))
           \/ ReadUI /\ mem' = Put(mem, o.into, pending)
  <1> USE DEF clientVars
  <1>1. CASE Configure \/ Build \/ Act \/ SetCache
    BY <1>1 DEF Configure, Build, Act, SetCache
  <1>2. CASE SetView \/ Other \/ CommitTable \/ Read
    BY <1>2 DEF SetView, Other, CommitTable, Read
  <1>3. CASE ShowPlan
    BY <1>3 DEF ShowPlan
  <1>4. CASE ReadUI
    BY <1>4 DEF ReadUI
  <1> QED
    BY <1>1, <1>2, <1>3, <1>4 DEF Finishing

LEMMA RunsPreserved == LabelsInv /\ [Next]_vars => RunsInv'
  <1> SUFFICES ASSUME LabelsInv, [Next]_vars PROVE RunsInv'
    OBVIOUS
  <1>1. KernelInv /\ PhaseInv /\ CacheInv /\ LiveInv /\ RunsInv
    BY DEF LabelsInv, SparkInv
  <1>2. PICK n : n = notebook /\ n = notebook'
    BY <1>1, KernelPreserved
  <1>3. PICK x : x = o
    OBVIOUS
  <1>4. ASSUME NEW y, NEW r, ~(FromTheTop /\ mem' = <<>>), Excused(y) \/ Good(n, y, r)
        PROVE  Excused(y)' \/ Good(n, y, r)
    BY <1>1, <1>4, ExcusedStays
  <1>5. ASSUME ~(FromTheTop /\ mem' = <<>>), NEW y \in DOMAIN mem
        PROVE  Excused(y)' \/ Good(n, y, mem[y])
    <2>1. Excused(y) \/ Good(n, y, mem[y])
      BY <1>1, <1>2 DEF RunsInv
    <2> QED
      BY <1>4, <1>5, <2>1
  <1>6. \A y \in DOMAIN mem' : Excused(y)' \/ Good(n, y, mem'[y])
    <2>1. CASE FromTheTop /\ mem' = <<>>
      BY <2>1
    <2>2. CASE mem' = mem /\ ~(FromTheTop /\ mem' = <<>>)
      BY <1>5, <2>2
    <2>3. ASSUME NEW r, mem' = Put(mem, x.into, r), ~FromTheTop,
                 Excused(x.into) \/ Good(n, x.into, r), NEW y \in DOMAIN mem'
          PROVE  Excused(y)' \/ Good(n, y, mem'[y])
      <3>1. CASE y = x.into
        <4>1. mem'[y] = r
          BY <2>3, <3>1 DEF Put
        <4> QED
          BY <1>4, <2>3, <3>1, <4>1
      <3>2. CASE y # x.into
        <4>1. y \in DOMAIN mem /\ mem'[y] = mem[y]
          BY <2>3, <3>2 DEF Put
        <4> QED
          BY <1>5, <2>3, <4>1
      <3> QED
        BY <3>1, <3>2
    <2>4. CASE Finishing
      <3>1. ~FromTheTop
        <4>1. op' = op + 1 \/ cell' = cell + 1
          BY <1>1, <2>4, FinishingIs
        <4>2. op \in Nat \ {0} /\ cell \in Nat \ {0}
          BY <1>1, WhereItIs
        <4> QED
          BY <4>1, <4>2 DEF FromTheTop, FromTop
      <3>2. CASE mem' = mem
        BY <2>2, <3>1, <3>2
      <3>3. CASE /\ ShowPlan
                 /\ \E a \in Answers(o.q) : mem' = Put(mem, o.into, Run(o.q, conf, Hit(o.f), a))
        <4>1. PICK a \in Answers(x.q) : mem' = Put(mem, x.into, Run(x.q, conf, Hit(x.f), a))
          BY <1>3, <3>3
        <4>2. ~AtEnd(Script) /\ status = "ready" /\ o.op = "explain" /\ Usable(o.f)
          BY <3>3 DEF ShowPlan, DueOp, Due, Refused
        <4>3. PICK r : r = Run(x.q, conf, Hit(x.f), a)
          OBVIOUS
        <4>4. Excused(x.into) \/ Good(n, x.into, r)
          BY <1>2, <1>3, <4>2, <4>3, NewRun
        <4> QED
          BY <2>3, <3>1, <4>1, <4>3, <4>4
      <3>4. CASE ReadUI /\ mem' = Put(mem, o.into, pending)
        <4>1. PICK r : r = pending
          OBVIOUS
        <4>2. Excused(x.into) \/ Good(n, x.into, r)
          BY <1>1, <1>2, <1>3, <3>4, <4>1 DEF ReadUI, Due, RunsInv
        <4> QED
          BY <1>3, <2>3, <3>1, <3>4, <4>1, <4>2
      <3> QED
        BY <2>4, <3>2, <3>3, <3>4, FinishingMem
    <2>5. CASE Staying
      BY <1>1, <2>1, <2>2, <2>5, StayingIs
    <2>6. CASE DriverDies \/ Interrupt \/ Retry \/ Reconnect \/ Resume
      <3>1. mem' = mem
        BY <2>6 DEF DriverDies, Interrupt, Retry, Reconnect, Resume, clientVars
      <3> QED
        BY <2>1, <2>2, <3>1
    <2>7. CASE FromTheTop
      <3>1. mem' = mem \/ mem' = <<>>
        BY <2>7 DEF FromTheTop
      <3> QED
        BY <2>1, <2>2, <3>1
    <2> QED
      BY <2>4, <2>5, <2>6, <2>7, NextIs
  <1>7. ASSUME status' = "polling" PROVE Excused(o.into)' \/ Good(notebook, o.into, pending)'
    <2>1. Staying
      <3>1. ~Finishing
        BY <1>1, <1>7, FinishingIs
      <3>2. ~(DriverDies \/ Interrupt)
        BY <1>7 DEF DriverDies, Interrupt, Die, Fault
      <3>3. ~(Retry \/ Reconnect \/ Resume \/ FromTheTop)
        BY <1>7 DEF Retry, RetryCell, Reconnect, Resume, FromTheTop, FromTop
      <3> QED
        BY <3>1, <3>2, <3>3, NextIs
    <2>2. cell' = cell /\ op' = op /\ Script' = Script
      BY <1>1, <2>1, StayingIs, KernelPreserved
    <2>3. o' = x
      BY <1>3, <2>2 DEF o
    <2>4. ~FromTheTop
      BY <1>7 DEF FromTheTop, FromTop
    <2>5. CASE RunMeasured
      <3>1. PICK a \in Answers(x.q) : pending' = Run(x.q, conf, Hit(x.f), a)
        BY <1>3, <2>5 DEF RunMeasured
      <3>2. ~AtEnd(Script) /\ status = "measuring"
        BY <2>5 DEF RunMeasured, Due
      <3>3. o.op = "measure" /\ Usable(o.f)
        BY <1>1, <3>2 DEF PhaseInv, LiveInv
      <3>4. PICK r : r = Run(x.q, conf, Hit(x.f), a)
        OBVIOUS
      <3>5. Excused(x.into) \/ Good(n, x.into, r)
        BY <1>2, <1>3, <3>2, <3>3, <3>4, NewRun
      <3>6. Excused(x.into)' \/ Good(n, x.into, r)
        BY <1>4, <2>4, <3>5
      <3> QED
        BY <1>2, <2>3, <3>1, <3>4, <3>6 DEF Excused, Good
    <2>6. CASE ~RunMeasured
      <3>1. status = "polling"
        BY <1>1, <1>7, <2>1, <2>6, StayingIs
      <3>2. PICK r : r = pending
        OBVIOUS
      <3>3. pending' = r
        <4> USE DEF GoOn, Fault, uiVars
        <4>1. ~Reject /\ ~Overwrite /\ ~AskUI
          BY <1>7 DEF Reject, Overwrite, AskUI
        <4>2. CASE List
          BY <3>2, <4>2 DEF List
        <4>3. CASE Elsewhere
          BY <3>2, <4>3 DEF Elsewhere
        <4>4. CASE UNCHANGED vars
          BY <3>2, <4>4 DEF vars
        <4> QED
          BY <2>1, <2>6, <4>1, <4>2, <4>3, <4>4 DEF Staying
      <3>4. Excused(x.into) \/ Good(n, x.into, r)
        BY <1>1, <1>2, <1>3, <3>1, <3>2 DEF RunsInv
      <3>5. Excused(x.into)' \/ Good(n, x.into, r)
        BY <1>4, <2>4, <3>4
      <3> QED
        BY <1>2, <2>3, <3>3, <3>5 DEF Excused, Good
    <2> QED
      BY <2>5, <2>6
  <1> QED
    BY <1>2, <1>6, <1>7 DEF RunsInv

LEMMA LabelsInit == Init => LabelsInv
  <1> SUFFICES ASSUME Init PROVE LabelsInv
    OBVIOUS
  <1>1. /\ SparkInv /\ cell = 1 /\ op = 1 /\ status = "ready" /\ session = "live" /\ mem = <<>>
        /\ cached = NoCaches /\ failedAt = 0 /\ disturbed = FALSE
    BY SparkInit DEF Init, KernelInit
  <1>2. KnobsInv /\ LiveInv
    BY <1>1 DEF KnobsInv, LiveInv
  <1>3. Heavy = "none" /\ cached \in [Caches -> {"none", "marked", "filled"}]
    BY <1>1 DEF Heavy, NoCaches, Caches
  <1>4. CacheInv
    <2>1. ~(op > 1) /\ ~(op > 2)
      BY <1>1
    <2>2. disturbed \in BOOLEAN
      BY <1>1, Zenon
    <2> QED
      BY <1>3, <2>1, <2>2, Zenon DEF CacheInv
  <1>5. SaltInv /\ StrategyInv /\ WarmInv
    BY <1>1, <1>3 DEF SaltInv, StrategyInv, WarmInv
  <1>6. RunsInv
    BY <1>1 DEF RunsInv
  <1> QED
    BY <1>1, <1>2, <1>4, <1>5, <1>6 DEF LabelsInv

LEMMA LabelsInvIsInvariant == Spec => []LabelsInv
  <1>1. LabelsInv /\ [Next]_vars => LabelsInv'
    <2> SUFFICES ASSUME LabelsInv, [Next]_vars PROVE LabelsInv'
      OBVIOUS
    <2>1. KernelInv /\ PhaseInv /\ CodegenInv /\ OverridesInv /\ FinalInv /\ ConfOK(conf)
      BY DEF LabelsInv, SparkInv, CodegenInv
    <2>2. SparkInv'
      BY <2>1, KernelPreserved, PhasePreserved, CodegenPreserved, OverridesPreserved, FinalPreserved
      DEF SparkInv
    <2>3. KnobsInv' /\ LiveInv' /\ CacheInv'
      BY <2>1, KnobsPreserved, LivePreserved, CachePreserved DEF LabelsInv
    <2>4. SaltInv' /\ StrategyInv' /\ WarmInv'
      BY <2>1, SaltPreserved, StrategyPreserved, WarmPreserved DEF LabelsInv
    <2> QED
      BY <2>2, <2>3, <2>4, RunsPreserved DEF LabelsInv
  <1> QED
    BY <1>1, LabelsInit, PTL DEF Spec

(* Whatever dies, is interrupted, run again, reconnected to or resumed: a  *)
(* run that a notebook shows under a label is of the strategy, the number  *)
(* of tasks, the spill, the straggler, the cache and the code generation   *)
(* that the label names, and finds every row - but for the salted run of   *)
(* spk1 after a resumption, the first access of spk8 after a warm start,   *)
(* and those from a cache that another notebook has cleared.               *)
THEOREM LabelsAreTrue == Spec => []LabelsHold
  <1>1. LabelsInv => LabelsHold
    BY DEF LabelsInv, RunsInv, Good, Fits, LabelsHold
  <1> QED
    BY <1>1, LabelsInvIsInvariant, PTL
=============================================================================
