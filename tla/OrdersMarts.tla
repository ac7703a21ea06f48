----------------------------- MODULE OrdersMarts -----------------------------
(***************************************************************************)
(* The two incremental marts over stg_orders.  Every order happened at     *)
(* ordered_at and landed at loaded_at; a run sees what had landed by its   *)
(* load_through, and an incremental run takes of that only what lies       *)
(* beyond what the table already has: fct_orders by event time, less a     *)
(* lookback, and merged by order_id; fct_orders_evolving by order_id, and  *)
(* appended.                                                               *)
(***************************************************************************)
EXTENDS Integers, FiniteSets

CONSTANTS
    OrderIds,     \* order_id of the seed's rows
    Times,        \* hours
    Lookbacks,    \* values of the var lookback_hours
    Absent        \* no seed, no table, no column

ASSUME OrdersAssumption ==
    OrderIds \subseteq Nat /\ Times \subseteq Nat /\ Lookbacks \subseteq Nat

VARIABLES
    orders,     \* the seed: what happened when, and landed when
    fct,        \* the ids in fct_orders, or Absent
    through,    \* auxiliary: the latest load_through since it was rebuilt
    lookbacks,  \* auxiliary: the lookbacks its runs had since then
    copies,     \* how often an id is in fct_orders_evolving, or Absent
    taxed,      \* the ids with a tax there, or Absent without the column
    landed      \* auxiliary: the latest load_through of that table

fctVars      == <<fct, through, lookbacks>>
evolvingVars == <<copies, taxed, landed>>
ordersVars   == <<orders, fctVars, evolvingVars>>

Order == {o \in [ordered_at : Times, loaded_at : Times] : o.ordered_at <= o.loaded_at}

(* dbt seed: the file does not change, only load_through does.             *)
Seed ==
    /\ orders = Absent
    /\ orders' \in [OrderIds -> Order]
    /\ UNCHANGED <<fctVars, evolvingVars>>

(* stg_orders, as of a load time.                                          *)
Staged(load_through) == {i \in OrderIds : orders[i].loaded_at <= load_through}

Later(s, t) == IF s < t THEN t ELSE s

-----------------------------------------------------------------------------
(* ordered_at > (select max(ordered_at) from this) - lookback: of an empty *)
(* table the maximum is NULL, and nothing compares with NULL.              *)
RecentNoSlack(i, table, lookback) ==       \* mutant: the var is not read
    /\ table # {}
    /\ \A j \in table : orders[i].ordered_at > orders[j].ordered_at
Recent(i, table, lookback) ==
    /\ table # {}
    /\ \A j \in table : orders[i].ordered_at > orders[j].ordered_at - lookback

RebuildFct(load_through) ==
    /\ orders # Absent
    /\ fct' = Staged(load_through)
    /\ through' = load_through /\ lookbacks' = {}
    /\ UNCHANGED <<orders, evolvingVars>>

MergeFct(load_through, lookback) ==
    /\ orders # Absent /\ fct # Absent
    /\ fct' = fct \cup {i \in Staged(load_through) : Recent(i, fct, lookback)}
    /\ through' = Later(through, load_through)
    /\ lookbacks' = lookbacks \cup {lookback}
    /\ UNCHANGED <<orders, evolvingVars>>

-----------------------------------------------------------------------------
(* order_id > (select max(order_id) from this).                            *)
Beyond(i, table) == table # {} /\ \A j \in table : i > j

Loaded == {i \in OrderIds : copies[i] > 0}

RebuildEvolving(load_through, add_tax) ==
    /\ orders # Absent
    /\ copies' = [i \in OrderIds |-> IF i \in Staged(load_through) THEN 1 ELSE 0]
    /\ taxed' = IF add_tax THEN Staged(load_through) ELSE Absent
    /\ landed' = load_through
    /\ UNCHANGED <<orders, fctVars>>

(* sync_all_columns: a new column is NULL in the rows there are, and one   *)
(* that is no longer selected goes.                                        *)
AppendEvolving(load_through, add_tax) ==
    /\ orders # Absent /\ copies # Absent
    /\ LET new == {i \in Staged(load_through) : Beyond(i, Loaded)}
       IN  /\ copies' = [i \in OrderIds |-> IF i \in new THEN copies[i] + 1 ELSE copies[i]]
           /\ taxed' = CASE ~add_tax                  -> Absent
                         [] add_tax /\ taxed = Absent -> new
                         [] OTHER                     -> taxed \cup new
    /\ landed' = Later(landed, load_through)
    /\ UNCHANGED <<orders, fctVars>>

OrdersInit ==
    /\ orders = Absent
    /\ fct = Absent /\ through = 0 /\ lookbacks = {}
    /\ copies = Absent /\ taxed = Absent /\ landed = 0

(* dbt run, with --full-refresh or a table that is not there yet, and else *)
(* incrementally.                                                          *)
RunFct ==
    \E t \in Times : RebuildFct(t) \/ \E h \in Lookbacks : MergeFct(t, h)
RunEvolving ==
    \E t \in Times, add_tax \in BOOLEAN : RebuildEvolving(t, add_tax) \/ AppendEvolving(t, add_tax)

OrdersNext == Seed \/ RunFct \/ RunEvolving

OrdersSpec == OrdersInit /\ [][OrdersNext]_ordersVars

-----------------------------------------------------------------------------
OrdersTypeOK ==
    /\ orders \in [OrderIds -> Order] \cup {Absent}
    /\ fct \in (SUBSET OrderIds) \cup {Absent}
    /\ through \in Times \cup {0} /\ lookbacks \subseteq Lookbacks
    /\ copies \in [OrderIds -> Nat] \cup {Absent}
    /\ taxed \in (SUBSET OrderIds) \cup {Absent}
    /\ landed \in Times \cup {0}

(* dbt3_late_arriving.md: a lookback "large enough to catch stragglers".   *)
(* While every run's lookback covers every order's lateness, fct_orders is *)
(* what had landed by the latest load_through, as long as it was never     *)
(* empty: on an empty table the filter lets nothing through.               *)
Punctual == \A i \in OrderIds, h \in lookbacks : orders[i].loaded_at - orders[i].ordered_at <= h

FctComplete == fct \notin {Absent, {}} /\ Punctual => fct = Staged(through)

(* An order is in fct_orders_evolving once, however often and in whatever  *)
(* windows the model is run; and all that landed are, if they land in the  *)
(* order of their ids.                                                     *)
InOrder == \A i, j \in OrderIds : i < j => orders[i].loaded_at <= orders[j].loaded_at

EvolvingOnce ==
    copies # Absent =>
        /\ \A i \in OrderIds : copies[i] <= 1
        /\ Loaded # {} /\ InOrder => Loaded = Staged(landed)

MartsComplete == FctComplete /\ EvolvingOnce
=============================================================================
