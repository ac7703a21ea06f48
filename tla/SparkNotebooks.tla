--------------------------- MODULE SparkNotebooks ---------------------------
(***************************************************************************)
(* The performance notebooks spk1 to spk10: scripts that set a session's   *)
(* knobs, run a query under each setting, measure it and compare.  The     *)
(* driver may die under any operation; the session dies with it, and the   *)
(* frames that were built on it.  As the notebooks tell their reader, one  *)
(* then reconnects, runs the setup cells again and goes on with the cell   *)
(* that failed, or starts from the top, in the same kernel or a new one.   *)
(***************************************************************************)
EXTENDS Kernel, SparkServer, SequencesExt

CONSTANT Notebooks    \* which of spk1 ... spk10 there are

NoOver == <<>>
Op(name) == [op |-> name]
Profile(name, over)  == [op |-> "profile", name |-> name, over |-> over]
Conf(knob, value)    == [op |-> "conf", over |-> [k \in {knob} |-> value]]
Frame(f, from)       == [op |-> "frame", f |-> f, from |-> from]
Action(f)            == [op |-> "action", f |-> f]
Explain(x, f, q)     == [op |-> "explain", into |-> x, f |-> f, q |-> q]
Measure(x, f, q)     == [op |-> "measure", into |-> x, f |-> f, q |-> q]
Cache(f)             == [op |-> "cache", f |-> f]
Unpersist(f)         == [op |-> "unpersist", f |-> f]
View(v, f)           == [op |-> "view", v |-> v, f |-> f]
DropView(v)          == [op |-> "dropview", v |-> v]
Sql(views)           == [op |-> "sql", views |-> views]
WriteTable(f)        == [op |-> "write", f |-> f]
ReadTable(f)         == [op |-> "read", f |-> f]
Rmtree               == Op("rmtree")
GetConf              == Op("getconf")
Compare              == Op("compare")
ClearCache           == Op("clear")

JoinQ(data, hint, salted) == [shape |-> "join", data |-> data, hint |-> hint, salted |-> salted]
AggQ(heavy)               == [shape |-> "agg", heavy |-> heavy]
ScanQ(cast)               == [shape |-> "scan", cast |-> cast, day |-> 1]
CachedQ                   == [shape |-> "cached"]

Plain == JoinQ("even", "none", FALSE)
Skew  == JoinQ("skewed", "none", FALSE)
Salty == JoinQ("skewed", "none", TRUE)
Laptop == [broadcast |-> FALSE, laptop |-> TRUE]
NoSMJ  == [preferSMJ |-> FALSE]
Parts(n) == [parts |-> n]
Teardown == <<Profile("tuned", NoOver), ClearCache>>

(* spk1: a skewed join, and three ways out.                                *)
Spk1Break == <<
    <<Frame("fact", {}), Frame("dim", {})>>, <<Action("fact")>>,
    <<Profile("constrained", NoOver), Measure("m_broken", "fact", Skew)>>>>
Spk1Fix == <<
    <<Measure("m_salt", "fact", Salty)>>,
    <<Profile("tuned", Laptop), Measure("m_aqe", "fact", Skew)>>,
    <<Profile("tuned", NoOver), Measure("m_bcast", "fact", JoinQ("skewed", "broadcast", FALSE))>>,
    <<Compare>>, Teardown>>

(* spk2: a wide aggregation in too few partitions.                         *)
Spk2 == <<
    <<Frame("wide", {})>>,
    <<Profile("constrained", NoOver), Measure("m_tight", "wide", AggQ(TRUE))>>,
    <<Profile("tuned", NoOver), Measure("m_tuned", "wide", AggQ(TRUE))>>,
    <<Compare>>, <<ClearCache, Profile("tuned", NoOver)>>>>

(* spk3: what is safe to bring to the driver.                              *)
Spk3Aggregate == <<
    <<Frame("wide_fact", {}), Frame("fact", {}), Frame("dim", {}), Action("wide_fact")>>,
    <<Measure("m_agg", "fact", AggQ(FALSE)), Action("fact")>>>>
Spk3Limit == <<
    <<Measure("m_limit", "wide_fact", CachedQ)>>,
    <<Profile("tuned", NoOver), Measure("m_bcast", "fact", JoinQ("even", "broadcast", FALSE))>>,
    <<Compare>>, Teardown>>

(* spk4: spill, and the partitions that avoid it.                          *)
Spk4Break == <<
    <<Frame("fact", {})>>, <<Action("fact")>>,
    <<Profile("constrained", NoOver), Measure("m_spilling", "fact", AggQ(TRUE))>>>>
Spk4Fix == <<
    <<Profile("constrained", Parts(200)), Measure("m_200", "fact", AggQ(TRUE))>>,
    <<Profile("tuned", NoOver), Measure("m_tuned", "fact", AggQ(TRUE))>>,
    <<Compare>>, Teardown>>

(* spk5: the strategies of one join.                                       *)
Spk5Join == <<
    <<Frame("fact", {}), Frame("dim", {})>>, <<Action("dim")>>,
    <<Profile("tuned", NoOver), Frame("bcast_join", {"fact", "dim"}),
      Explain("x_bcast", "bcast_join", Plain)>>,
    <<Measure("m_bcast", "bcast_join", Plain)>>,
    <<Profile("constrained", NoOver), Frame("smj_join", {"fact", "dim"}),
      Explain("x_smj", "smj_join", Plain)>>,
    <<Measure("m_smj", "smj_join", Plain)>>>>
Spk5Hint == <<
    <<Profile("constrained", NoSMJ), Frame("shj_join", {"fact", "dim"}),
      Explain("x_shj", "shj_join", JoinQ("even", "shuffle_hash", FALSE))>>,
    <<Measure("m_shj", "shj_join", JoinQ("even", "shuffle_hash", FALSE))>>,
    <<Profile("constrained", NoOver),
      Explain("x_hinted", "fact", JoinQ("even", "broadcast", FALSE)),
      View("events", "fact"), View("dimension", "dim"), Sql({"events", "dimension"})>>,
    <<Compare>>, <<DropView("events"), DropView("dimension")>> \o Teardown>>

(* spk6: what AQE does at run time.                                        *)
MeasurePlan(s, x, f, q) == <<s, Measure(x, f, q), Explain("plan", f, q)>>
Spk6Coalesce == <<
    <<Frame("agg_a", {})>>
        \o MeasurePlan(Profile("constrained", Parts(200)), "m_a_off", "agg_a", AggQ(FALSE)),
    MeasurePlan(Profile("tuned", Parts(200)), "m_a_on", "agg_a", AggQ(FALSE)) \o <<Compare>>>>
Spk6Skew == <<
    <<Frame("join_b", {})>> \o MeasurePlan(Profile("constrained", NoOver), "m_b_off", "join_b", Skew),
    MeasurePlan(Profile("tuned", Laptop), "m_b_on", "join_b", Skew) \o <<Compare>>>>
Spk6Reopt == <<
    <<Frame("join_c", {})>> \o MeasurePlan(Profile("constrained", NoOver), "m_c_off", "join_c", Plain)
        \o MeasurePlan(Profile("tuned", NoOver), "m_c_on", "join_c", Plain) \o <<Compare>>,
    <<Frame("tiny", {}), Profile("constrained", NoOver), Measure("m_tiny_off", "tiny", AggQ(FALSE)),
      Profile("tuned", NoOver), Measure("m_tiny_on", "tiny", AggQ(FALSE)), Compare>>,
    Teardown>>

(* spk7: a partitioned table, and filters that do or do not prune it.      *)
Spk7Break == <<
    <<Profile("tuned", NoOver), Frame("orders_src", {}), WriteTable("orders_src")>>,
    <<ReadTable("orders"), Action("orders")>>,
    <<Frame("broken", {"orders"}), Measure("m_broken", "broken", ScanQ(TRUE))>>,
    <<Explain("x_broken", "broken", ScanQ(TRUE))>>>>
Spk7Fix == <<
    <<Frame("fixed", {"orders"}), Measure("m_fixed", "fixed", ScanQ(FALSE))>>,
    <<Explain("x_fixed", "fixed", ScanQ(FALSE))>>,
    <<Action("broken"), Action("fixed"), Compare>>, <<Rmtree>> \o Teardown>>

(* spk8: caches that are lazy, useful, wasteful or forgotten.              *)
Spk8Lazy == <<
    <<Profile("tuned", NoOver), Frame("heavy", {})>>,
    <<Cache("heavy"), Measure("m_first", "heavy", CachedQ), Measure("m_second", "heavy", CachedQ)>>,
    <<Unpersist("heavy"), Measure("m_uncached", "heavy", CachedQ)>>>>
TimeLevel(first, second) ==
    <<Unpersist("heavy"), Cache("heavy"), Measure(first, "heavy", CachedQ),
      Measure(second, "heavy", CachedQ)>>
Spk8Levels == <<
    <<Cache("heavy"), Action("heavy"), Measure("m_cached", "heavy", CachedQ), Compare,
      Unpersist("heavy")>>,
    TimeLevel("first", "m_mem") \o TimeLevel("first", "m_mem_disk")
        \o TimeLevel("first", "m_disk") \o <<Compare, Unpersist("heavy")>>>>
Spk8Release == <<
    <<Frame("one_shot", {}), Cache("heavy"), Action("heavy"), Cache("one_shot"), Action("one_shot")>>,
    <<Unpersist("one_shot")>>,
    <<Unpersist("heavy"), Unpersist("one_shot"), ClearCache, Profile("tuned", NoOver)>>>>

(* spk9: the number of shuffle partitions.                                 *)
Spk9Shuffle == <<
    <<Frame("events", {}), Action("events")>>,
    <<Explain("narrow", "events", CachedQ)>>, <<Explain("wide", "events", AggQ(TRUE))>>,
    <<Profile("constrained", NoOver)>>>>
Spk9Sweep == <<
    <<Profile("constrained", Parts(8)), Measure("p8", "events", AggQ(TRUE)),
      Profile("constrained", Parts(200)), Measure("p200", "events", AggQ(TRUE)),
      Profile("constrained", Parts(2000)), Measure("p2000", "events", AggQ(TRUE))>>,
    <<Compare>>, Teardown>>

(* spk10: plans, and code generation on and off.                           *)
Spk10Plans == <<
    <<Profile("tuned", NoOver)>>, <<Frame("fact", {}), Frame("dim", {})>>,
    <<Explain("chained", "fact", AggQ(FALSE))>>, <<Explain("catalyst_demo", "dim", CachedQ)>>>>
(* Its cells on memory, serializer and speculation only read what is set.  *)
Spk10Confs == <<
    <<GetConf>>, <<GetConf>>, <<GetConf>>,
    <<Explain("x_bcast", "fact", JoinQ("even", "broadcast", FALSE))>>>>
Spk10LeavesOff == <<                       \* mutant: the default is not restored
    <<Conf("codegen", TRUE), Measure("m_on", "fact", AggQ(FALSE)),
      Conf("codegen", FALSE), Measure("m_off", "fact", AggQ(FALSE)), Compare>>, Teardown>>
Spk10Codegen == <<
    <<Conf("codegen", TRUE), Measure("m_on", "fact", AggQ(FALSE)),
      Conf("codegen", FALSE), Measure("m_off", "fact", AggQ(FALSE)),
      Conf("codegen", TRUE), Compare>>, Teardown>>

Cells == [spk1 |-> Spk1Break \o Spk1Fix, spk2 |-> Spk2, spk3 |-> Spk3Aggregate \o Spk3Limit,
          spk4 |-> Spk4Break \o Spk4Fix, spk5 |-> Spk5Join \o Spk5Hint,
          spk6 |-> Spk6Coalesce \o Spk6Skew \o Spk6Reopt, spk7 |-> Spk7Break \o Spk7Fix,
          spk8 |-> Spk8Lazy \o Spk8Levels \o Spk8Release,
          spk9 |-> Spk9Shuffle \o Spk9Sweep, spk10 |-> Spk10Plans \o Spk10Confs \o Spk10Codegen]

(* The last of the setup cells: those that the other cells' frames need.   *)
Setup == [spk1 |-> 1, spk2 |-> 1, spk3 |-> 1, spk4 |-> 1, spk5 |-> 1, spk6 |-> 0,
          spk7 |-> 2, spk8 |-> 1, spk9 |-> 1, spk10 |-> 2]

Script == Cells[notebook]
o == Script[cell][op]          \* the operation that is due

ASSUME SparkAssumption == Notebooks # {} /\ Notebooks \subseteq DOMAIN Cells

VARIABLES
    session,   \* the session that the notebook's spark names: "live" or "dead"
    conf,      \* its knobs
    views,     \* its temporary views
    frames,    \* the session that a frame was built on, as far as it is defined
    mem,       \* the kernel's variables
    cached,    \* the server's cache, of all sessions: "marked" or "filled"
    table,     \* the directory that spk7 writes
    lagging,   \* complete stages that the UI does not list yet, in order
    fresh,     \* those it lists and measure had not seen before
    shown,     \* some stage has been listed since the driver started
    asked,     \* what measure got from the UI: "all", "ids lost" or "nothing"
    pending,   \* the run that is being measured
    failedAt,  \* the cell to go on with after the setup cells
    resumed, warm, disturbed   \* auxiliary: see FromTheTop, Resume, Elsewhere

serverVars == <<conf, views, cached, table>>
uiVars     == <<lagging, fresh, shown, asked, pending>>
clientVars == <<session, frames, mem>>
auxVars    == <<failedAt, resumed, warm, disturbed>>
vars == <<kernelVars, serverVars, uiVars, clientVars, auxVars>>

Caches == {"heavy", "one_shot"}
NoRun == <<>>
NoCaches == [f \in Caches |-> "none"]

Put(f, x, v) == [y \in DOMAIN f \cup {x} |-> IF y = x THEN v ELSE f[y]]

-----------------------------------------------------------------------------
(* What an operation needs: a session, frames of a session that lives,     *)
(* names that are defined.                                                 *)
Usable(f) == f \in DOMAIN frames /\ frames[f] = "live"

Refused ==
    \/ o.op \in {"profile", "conf", "getconf", "dropview", "sql", "read", "clear"} /\ session = "dead"
    \/ o.op \in {"action", "explain", "measure", "cache", "unpersist", "view", "write"} /\ ~Usable(o.f)
    \/ o.op = "frame" /\ ~ o.from \subseteq DOMAIN frames
    \/ o.op = "sql" /\ ~ o.views \subseteq views
    \/ o.op = "read" /\ table # "whole"

DueOp(ops) == Due(Script, "ready") /\ o.op \in ops /\ ~Refused

Reject == /\ Due(Script, "ready") /\ Refused
          /\ GoOn("rejected")
          /\ UNCHANGED <<serverVars, uiVars, clientVars, auxVars>>

-----------------------------------------------------------------------------
(* Settings.                                                               *)
Settings == IF o.op = "profile" THEN ApplyProfile(conf, o.name, o.over) ELSE SetKnobs(conf, o.over)

Configure ==
    /\ DueOp({"profile", "conf"})
    /\ conf' = Settings
    /\ Finish(Script)
    /\ UNCHANGED <<views, cached, table, uiVars, clientVars, auxVars>>

(* Frames are lazy: they only remember the session they were built on.     *)
Build ==
    /\ DueOp({"frame"})
    /\ frames' = Put(frames, o.f, IF o.from = {} THEN session
                                  ELSE IF \A g \in o.from : frames[g] = "live" THEN "live"
                                  ELSE "dead")
    /\ Finish(Script)
    /\ UNCHANGED <<session, mem, serverVars, uiVars, auxVars>>

(* An action computes its frame, unless the frame is cached, and leaves it *)
(* in the cache if it is marked for it.                                    *)
Hit(f) == f \in Caches /\ cached[f] = "filled"
Filled(f) == IF f \in Caches /\ cached[f] = "marked" THEN [cached EXCEPT ![f] = "filled"] ELSE cached
Late(stages) == IF stages = <<>> THEN <<>> ELSE <<"late">>

Act ==
    /\ DueOp({"action"})
    /\ cached' = Filled(o.f)
    /\ lagging' = <<"late">>
    /\ Finish(Script)
    /\ UNCHANGED <<conf, views, table, fresh, shown, asked, pending, clientVars, auxVars>>

ShowPlan ==
    /\ DueOp({"explain"})
    /\ \E answer \in Answers(o.q) : mem' = Put(mem, o.into, Run(o.q, conf, Hit(o.f), answer))
    /\ Finish(Script)
    /\ UNCHANGED <<session, frames, serverVars, uiVars, auxVars>>

(* cache of a frame that is in the cache already changes nothing.          *)
SetCache ==
    /\ DueOp({"cache", "unpersist", "clear"})
    /\ cached' = CASE o.op = "clear"                            -> NoCaches
                   [] o.op = "unpersist"                        -> [cached EXCEPT ![o.f] = "none"]
                   [] o.op = "cache" /\ cached[o.f] = "none"    -> [cached EXCEPT ![o.f] = "marked"]
                   [] OTHER                                     -> cached
    /\ Finish(Script)
    /\ UNCHANGED <<conf, views, table, uiVars, clientVars, auxVars>>

SetView ==
    /\ DueOp({"view", "dropview"})
    /\ views' = IF o.op = "view" THEN views \cup {o.v} ELSE views \ {o.v}
    /\ Finish(Script)
    /\ UNCHANGED <<conf, cached, table, uiVars, clientVars, auxVars>>

(* sql only explains.  rmtree is the kernel's, in the kernel's directory:  *)
(* the server wrote the table in its own.                                  *)
Other ==
    /\ DueOp({"sql", "rmtree", "getconf", "compare"})
    /\ Finish(Script)
    /\ UNCHANGED <<serverVars, uiVars, clientVars, auxVars>>

(* mode("overwrite") removes what is there before it writes.               *)
Overwrite ==
    /\ DueOp({"write"})
    /\ table' = "partial"
    /\ GoOn("writing")
    /\ UNCHANGED <<conf, views, cached, uiVars, clientVars, auxVars>>

CommitTable ==
    /\ Due(Script, "writing")
    /\ table' = "whole"
    /\ lagging' = <<"late">>
    /\ Finish(Script)
    /\ UNCHANGED <<conf, views, cached, fresh, shown, asked, pending, clientVars, auxVars>>

Read ==
    /\ DueOp({"read"})
    /\ frames' = Put(frames, o.f, session)
    /\ Finish(Script)
    /\ UNCHANGED <<session, mem, serverVars, uiVars, auxVars>>

-----------------------------------------------------------------------------
(* measure: the ids of the stages the UI lists, the action, and a poll     *)
(* until a stage is listed that was not.                                   *)
AskUI ==
    /\ DueOp({"measure"})
    /\ \E a \in {"all", "ids lost", "nothing"} :
           /\ asked' = a
           /\ fresh' = IF a = "ids lost" /\ shown THEN {"before"} ELSE {}
           /\ IF a = "all" THEN GoOn("measuring") ELSE Fault("measuring")
    /\ lagging' = Late(lagging)
    /\ UNCHANGED <<shown, pending, serverVars, clientVars, auxVars>>

RunMeasured ==
    /\ Due(Script, "measuring")
    /\ \E answer \in Answers(o.q) : pending' = Run(o.q, conf, Hit(o.f), answer)
    /\ cached' = Filled(o.f)
    /\ lagging' = lagging \o <<"map", "reduce">>
    /\ GoOn("polling")
    /\ UNCHANGED <<conf, views, table, fresh, shown, asked, clientVars, auxVars>>

(* Nothing, where the UI was away; else the first it lists that is new.    *)
Seen == IF asked = "nothing" THEN {} ELSE fresh

NotMeasuring == fresh' = {} /\ asked' = "all" /\ pending' = NoRun

ReadUI ==
    /\ Due(Script, "polling")
    /\ mem' = Put(mem, o.into, pending)
    /\ lagging' = Late(lagging) /\ NotMeasuring
    /\ Finish(Script)
    /\ UNCHANGED <<shown, session, frames, serverVars, auxVars>>

List ==
    /\ lagging # <<>> /\ status \in {"measuring", "polling"}
    /\ fresh' = fresh \cup {Head(lagging)}
    /\ lagging' = Tail(lagging)
    /\ shown' = TRUE
    /\ UNCHANGED <<asked, pending, kernelVars, serverVars, clientVars, auxVars>>

-----------------------------------------------------------------------------
(* Failures and recovery.                                                  *)
DriverDies ==
    /\ Die(Script)
    /\ session' = "dead" /\ frames' = [f \in DOMAIN frames |-> "dead"]
    /\ conf' = DefaultConf /\ views' = {} /\ cached' = NoCaches
    /\ lagging' = <<>> /\ shown' = FALSE /\ NotMeasuring
    /\ UNCHANGED <<mem, table, auxVars>>

(* An interruption may leave a profile with its first knobs applied.       *)
Knobs == <<"aqe", "skewJoin", "coalesce", "broadcast", "parts">>
PartlySet(n) ==
    [k \in DOMAIN conf |-> IF \E i \in 1 .. n : Knobs[i] = k THEN Settings[k] ELSE conf[k]]

Interrupt ==
    /\ Die(Script)
    /\ IF Due(Script, "ready") /\ o.op = "profile" /\ ~Refused
       THEN \E n \in 0 .. 5 : conf' = PartlySet(n)
       ELSE conf' = conf
    /\ lagging' = Late(lagging) /\ NotMeasuring
    /\ UNCHANGED <<views, cached, table, shown, clientVars, auxVars>>

IsWarm == warm \/ cached["heavy"] = "filled"

Retry == /\ RetryCell
         /\ warm' = IsWarm
         /\ UNCHANGED <<serverVars, uiVars, clientVars, failedAt, resumed, disturbed>>

(* reconnect, and the setup cells once more.  get_spark does the same when *)
(* its probe fails.                                                        *)
Reconnect ==
    /\ status \in {"failed", "rejected"} /\ session = "dead"
    /\ session' = "live"
    /\ cell' = 1 /\ op' = 1 /\ status' = "ready" /\ retried' = retried \cup {cell}
    /\ failedAt' = Max({cell, failedAt})
    /\ UNCHANGED <<notebook, crashes, reruns, serverVars, uiVars, frames, mem,
                   resumed, warm, disturbed>>

Resume ==
    /\ status = "ready" /\ op = 1 /\ cell = Setup[notebook] + 1 /\ cell < failedAt
    /\ cell' = failedAt /\ failedAt' = 0
    /\ resumed' = TRUE
    /\ UNCHANGED <<notebook, op, status, retried, crashes, reruns, serverVars, uiVars,
                   clientVars, warm, disturbed>>

(* In a new kernel, or all cells again in this one.  The server's cache is *)
(* of all sessions: the frames of a new kernel find those of the old.      *)
FromTheTop ==
    /\ FromTop
    /\ warm' = IsWarm /\ failedAt' = 0 /\ session' = "live"
    /\ \/ /\ conf' = DefaultConf /\ views' = {} /\ frames' = <<>> /\ mem' = <<>>
          /\ resumed' = FALSE
       \/ /\ session = "live"
          /\ UNCHANGED <<conf, views, frames, mem, resumed>>
    /\ UNCHANGED <<cached, table, uiVars, disturbed>>

(* The teardown of another notebook clears the cache of this one.          *)
Elsewhere ==
    /\ status \notin {"failed", "rejected"} /\ cached # NoCaches
    /\ Fault(status)
    /\ cached' = NoCaches
    /\ disturbed' = TRUE
    /\ UNCHANGED <<conf, views, table, uiVars, clientVars, failedAt, resumed, warm>>

Init ==
    /\ KernelInit(Notebooks)
    /\ session = "live" /\ conf = DefaultConf /\ views = {} /\ frames = <<>> /\ mem = <<>>
    /\ cached = NoCaches /\ table = "absent"
    /\ lagging = <<>> /\ fresh = {} /\ shown = FALSE /\ asked = "all" /\ pending = NoRun
    /\ failedAt = 0 /\ resumed = FALSE /\ warm = FALSE /\ disturbed = FALSE

Next ==
    \/ Reject \/ Configure \/ Build \/ Act \/ ShowPlan \/ SetCache \/ SetView \/ Other
    \/ Overwrite \/ CommitTable \/ Read \/ AskUI \/ RunMeasured \/ ReadUI \/ List
    \/ DriverDies \/ Interrupt \/ Retry \/ Reconnect \/ Resume \/ FromTheTop \/ Elsewhere

Spec == Init /\ [][Next]_vars

-----------------------------------------------------------------------------
SparkTypeOK ==
    /\ KernelTypeOK(Script, {"writing", "measuring", "polling"})
    /\ session \in {"live", "dead"} /\ Range(frames) \subseteq {"live", "dead"}
    /\ DOMAIN conf = DOMAIN DefaultConf /\ conf.parts \in {8, 16, 20, 200, 2000}
    /\ cached \in [Caches -> {"none", "marked", "filled"}]
    /\ table \in {"absent", "partial", "whole"}
    /\ fresh \subseteq {"before", "late", "map", "reduce"} /\ failedAt \in 0 .. Len(Script)

(* What the labels and the texts of the notebooks say of their runs.       *)
Plan(join) == [join |-> join]
JoinRun(join) == [join |-> join, answer |-> NRows]
SkewRun(join, straggles) == [join |-> join, straggles |-> straggles, answer |-> NRows]
ScanRun(scanned) == [scanned |-> scanned, answer |-> Cardinality({r \in Rows : r % NParts = 1})]
AggRun(tasks, spills) == [tasks |-> tasks, spills |-> spills]
HitRun(hit) == [hit |-> hit]

Spk1Labels == [m_broken |-> SkewRun("SMJ", TRUE), m_salt |-> SkewRun("SMJ", FALSE),
               m_aqe |-> SkewRun("SMJ", FALSE), m_bcast |-> SkewRun("BHJ", FALSE)]
Spk2Labels == [m_tight |-> AggRun(16, TRUE), m_tuned |-> AggRun(1, FALSE)]
Spk3Labels == [m_bcast |-> JoinRun("BHJ")]
Spk4Labels == [m_spilling |-> AggRun(16, TRUE), m_200 |-> AggRun(200, FALSE),
               m_tuned |-> AggRun(1, FALSE)]
Spk5Labels == [x_bcast |-> Plan("BHJ"), m_bcast |-> JoinRun("BHJ"), x_smj |-> Plan("SMJ"),
               m_smj |-> JoinRun("SMJ"), x_shj |-> Plan("SHJ"), m_shj |-> JoinRun("SHJ"),
               x_hinted |-> Plan("BHJ")]
Spk6Labels == [m_a_off |-> AggRun(200, FALSE), m_a_on |-> AggRun(1, FALSE),
               m_b_off |-> SkewRun("SMJ", TRUE), m_b_on |-> SkewRun("SMJ", FALSE),
               m_c_off |-> JoinRun("SMJ"), m_c_on |-> JoinRun("BHJ"),
               m_tiny_off |-> AggRun(16, FALSE), m_tiny_on |-> AggRun(1, FALSE)]
Spk7Labels == [m_broken |-> ScanRun(NParts), m_fixed |-> ScanRun(1)]
Spk8Labels == [m_first |-> HitRun(FALSE), m_second |-> HitRun(TRUE),
               m_uncached |-> HitRun(FALSE), m_cached |-> HitRun(TRUE), first |-> HitRun(FALSE),
               m_mem |-> HitRun(TRUE), m_mem_disk |-> HitRun(TRUE), m_disk |-> HitRun(TRUE)]
Spk9Labels == [p8 |-> AggRun(8, TRUE), p200 |-> AggRun(200, FALSE), p2000 |-> AggRun(2000, FALSE)]
Spk10Labels == [m_on |-> [fused |-> TRUE], m_off |-> [fused |-> FALSE], x_bcast |-> Plan("BHJ")]

Labels == [spk1 |-> Spk1Labels, spk2 |-> Spk2Labels, spk3 |-> Spk3Labels, spk4 |-> Spk4Labels,
           spk5 |-> Spk5Labels, spk6 |-> Spk6Labels, spk7 |-> Spk7Labels, spk8 |-> Spk8Labels,
           spk9 |-> Spk9Labels, spk10 |-> Spk10Labels]

(* The salted run of spk1 keeps the knobs of the cell before it, and the   *)
(* first access of spk8 what is in the cache.                              *)
Excused(x) ==
    \/ x = "m_salt" /\ resumed
    \/ x = "m_first" /\ warm
    \/ x \in {"m_second", "m_cached", "m_mem", "m_mem_disk", "m_disk"} /\ disturbed

(* Every run is of the strategy, the partitions, the cache and the knobs   *)
(* that its label names, whatever earlier cells, runs or sessions left set *)
(* and whichever cells were run again; and the fixes do not change the     *)
(* answer: no salt, strategy or pruned scan loses a row.                   *)
LabelsHold ==
    \A x \in DOMAIN mem \cap DOMAIN Labels[notebook] :
        Excused(x) \/ LET label == Labels[notebook][x]
                      IN  \A k \in DOMAIN label : mem[x][k] = label[k]

(* The teardown resets what a profile names.  What the cells of spk1, spk5 *)
(* and spk6 override beyond it is set until the session ends.              *)
LeftSet(n) == CASE n \in {"spk1", "spk6"} -> {"laptop"}
                [] n = "spk5"             -> {"preferSMJ"}
                [] OTHER                  -> {}

TunedConf == SetKnobs(DefaultConf, PROFILES.tuned)

(* Whoever comes to the end leaves the server as it should be found, but   *)
(* for those overrides: every other knob tuned or at its default, nothing  *)
(* cached, no views.                                                       *)
TeardownRestores ==
    AtEnd(Script) =>
        /\ \A k \in DOMAIN conf \ LeftSet(notebook) : conf[k] = TunedConf[k]
        /\ views = {} /\ cached = NoCaches

(* spk1, spk5 and spk6 say that they "restore the production-tuned safety  *)
(* nets"; their own overrides they do not take back (see README.md).       *)
OverridesEnd == AtEnd(Script) => conf = TunedConf

(* metrics_diff.py: the fields are None when the UI could not be reached.  *)
(* If it lost only the ids of the earlier stages, measure counts them all. *)
WallClockOnly == Due(Script, "polling") /\ asked # "all" => Seen = {}
=============================================================================
