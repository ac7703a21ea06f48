----------------------------- MODULE SparkServer -----------------------------
(***************************************************************************)
(* What the Spark notebooks share: the generators of their data, the       *)
(* profiles that set a session's knobs, and what the server makes of a     *)
(* query under those knobs.  Sizes are scaled down; a knob that the        *)
(* planner compares with a size is on or off for the sizes there are.      *)
(***************************************************************************)
EXTENDS Integers, FiniteSets, Functions

CONSTANTS
    NRows,      \* rows of a fact
    NKeys,      \* its keys, or the cold ones where one key is hot
    HotRows,    \* the rows whose hash makes them hot
    NParts,     \* dt buckets
    S           \* salts

Rows == 0 .. NRows - 1

ASSUME DataAssumption ==
    /\ NRows \in Nat /\ NKeys \in Nat \ {0} /\ NParts \in Nat \ {0} /\ S \in Nat \ {0}
    /\ HotRows \subseteq Rows

-----------------------------------------------------------------------------
(* Generators: the key of every row.                                       *)

UniformKeys == [r \in Rows |-> r % NKeys]
SkewedKeys == [r \in Rows |-> IF r \in HotRows THEN 0 ELSE (r % NKeys) + 1]

KeyDimension(n) == 0 .. n - 1

Facts == [even   |-> [keys |-> UniformKeys, dim |-> KeyDimension(NKeys)],
          skewed |-> [keys |-> SkewedKeys, dim |-> KeyDimension(NKeys + 1)]]

Joined(fact) == {r \in Rows : fact.keys[r] \in fact.dim}

(* Each row of the fact has a salt, each of the dimension all of them.     *)
SaltsTooFew == 0 .. S - 2                  \* mutant: one salt too few
SaltsOfDim == 0 .. S - 1
SaltedJoin(fact, salt) ==
    {r \in Rows : <<fact.keys[r], salt[r]>> \in fact.dim \X SaltsOfDim}

Dt == [r \in Rows |-> r % NParts]

-----------------------------------------------------------------------------
(* Knobs.  spark-defaults.conf and Spark's own defaults.                   *)

DefaultConf ==
    [aqe |-> TRUE, skewJoin |-> TRUE, coalesce |-> TRUE, broadcast |-> TRUE, parts |-> 20,
     laptop |-> FALSE,      \* skewed from 1m and twice the median on
     preferSMJ |-> TRUE, codegen |-> TRUE]

PROFILES ==
    [constrained |-> [aqe |-> FALSE, skewJoin |-> FALSE, coalesce |-> FALSE,
                      broadcast |-> FALSE, parts |-> 16],
     tuned       |-> [aqe |-> TRUE, skewJoin |-> TRUE, coalesce |-> TRUE,
                      broadcast |-> TRUE, parts |-> 200]]

(* Knobs that neither the profile nor the overrides name stay as they are. *)
SetKnobs(conf, knobs) ==
    [k \in DOMAIN conf |-> IF k \in DOMAIN knobs THEN knobs[k] ELSE conf[k]]
ProfileLast(conf, name, overrides) ==      \* mutant: the profile wins
    SetKnobs(SetKnobs(conf, overrides), PROFILES[name])
ApplyProfile(conf, name, overrides) == SetKnobs(SetKnobs(conf, PROFILES[name]), overrides)

-----------------------------------------------------------------------------
(* The planner.  A broadcast hint wins over the threshold; without one a   *)
(* dimension is broadcast if the threshold allows.  Shuffle-hash needs the *)
(* hint: unhinted, it is bounded by the same threshold.                    *)

Strategy(hint, conf) ==
    CASE hint = "broadcast"                 -> "BHJ"
      [] hint = "shuffle_hash"              -> "SHJ"
      [] hint = "none" /\ conf.broadcast    -> "BHJ"
      [] OTHER                              -> "SMJ"
Join(q, conf) == IF q.shape = "join" THEN Strategy(q.hint, conf) ELSE "none"

(* Reduce tasks of a shuffle; 1 where AQE coalesces them to fit the data.  *)
Shuffles(q, conf) == q.shape \in {"join", "agg"} /\ Join(q, conf) # "BHJ"
Tasks(q, conf) ==
    CASE ~Shuffles(q, conf)                                     -> 0
      [] Shuffles(q, conf) /\ conf.aqe /\ conf.coalesce         -> 1
      [] Shuffles(q, conf) /\ ~(conf.aqe /\ conf.coalesce)      -> conf.parts

(* One task has the hot key: nothing salts it, splits it or avoids the     *)
(* shuffle.                                                                *)
Straggles(q, conf) ==
    /\ Join(q, conf) \in {"SMJ", "SHJ"} /\ q.data = "skewed" /\ ~q.salted
    /\ ~(conf.aqe /\ conf.skewJoin /\ conf.laptop)

Spills(q, conf) == q.shape = "agg" /\ q.heavy /\ Tasks(q, conf) \in 2 .. 20

(* What a query returns, as what it counts or sums over.                   *)
Answers(q) ==
    CASE q.shape = "join" /\ q.salted ->
             {Cardinality(SaltedJoin(Facts[q.data], salt)) : salt \in [Rows -> 0 .. S - 1]}
      [] q.shape = "join" /\ ~q.salted -> {Cardinality(Joined(Facts[q.data]))}
      [] q.shape = "scan" -> {Cardinality({r \in Rows : Dt[r] = q.day})}
      [] OTHER            -> {Cardinality(Range(UniformKeys))}

(* Partitions that a scan reads: a filter on an expression prunes none.    *)
Scanned(q) == CASE q.shape # "scan"           -> 0
                [] q.shape = "scan" /\ q.cast  -> NParts
                [] q.shape = "scan" /\ ~q.cast -> 1

Run(q, conf, hit, answer) ==
    [join |-> Join(q, conf), tasks |-> Tasks(q, conf), straggles |-> Straggles(q, conf),
     spills |-> Spills(q, conf), fused |-> conf.codegen, scanned |-> Scanned(q),
     hit |-> hit, answer |-> answer]
=============================================================================
