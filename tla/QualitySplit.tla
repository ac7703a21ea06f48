---------------------------- MODULE QualitySplit -----------------------------
(***************************************************************************)
(* The quarantine split: orders_clean takes the rows that pass every rule, *)
(* orders_quarantine those that fail one, and a test counts whether both   *)
(* together are what there was.  The rules are SQL's: on a NULL they are   *)
(* neither true nor false, and a where clause keeps only what is true.     *)
(***************************************************************************)
EXTENDS Integers, FiniteSets

CONSTANTS
    RawIds,     \* the rows of orders_quality_raw
    Values,     \* what a row may hold
    Null,       \* SQL's NULL
    MaxSeeds    \* bound: seedings

VARIABLES
    raw,           \* stg_orders_quality
    clean,         \* the ids in orders_clean
    cleanOf,       \* auxiliary: the rows it was built from
    quarantine,    \* the reasons of the ids in orders_quarantine
    quarantineOf,  \* auxiliary: the rows it was built from
    verdict,       \* of the test since the last change: "pass", "fail", "none"
    seeds

splitVars == <<raw, clean, cleanOf, quarantine, quarantineOf, verdict, seeds>>

(* An amount, a status that is valid or not, a customer that is known or   *)
(* not, each possibly NULL.                                                *)
Row == [amount : Int \cup {Null}, status : BOOLEAN \cup {Null}, customer : BOOLEAN \cup {Null}]

ASSUME SplitAssumption ==
    /\ IsFiniteSet(RawIds) /\ Null \notin Int /\ Null \notin BOOLEAN
    /\ Values \subseteq Row /\ MaxSeeds \in Nat

NoRows == [i \in {} |-> Null]

-----------------------------------------------------------------------------
(* What is true, and what is not true, of a value: of a NULL neither.      *)
Holds(rule, v) == v # Null /\ v = rule

Positive(amount)    == amount # Null /\ amount > 0
Negative(amount)    == amount # Null /\ amount < 0          \* mutant: for NotPositive
NotPositive(amount) == amount # Null /\ amount <= 0

Passes(r) == Positive(r.amount) /\ Holds(TRUE, r.status) /\ Holds(TRUE, r.customer)

(* The first rule that a row fails.                                        *)
Reason(r) == CASE NotPositive(r.amount)        -> "non_positive_amount"
               [] ~NotPositive(r.amount) /\ Holds(FALSE, r.status) -> "invalid_status"
               [] OTHER                        -> "orphan_customer"
Fails(r) == NotPositive(r.amount) \/ Holds(FALSE, r.status) \/ Holds(FALSE, r.customer)

-----------------------------------------------------------------------------
SeedRaw ==
    /\ seeds < MaxSeeds /\ seeds' = seeds + 1
    /\ raw' \in [RawIds -> Values]
    /\ verdict' = "none"
    /\ UNCHANGED <<clean, cleanOf, quarantine, quarantineOf>>

BuildClean ==
    /\ raw # NoRows
    /\ clean' = {i \in RawIds : Passes(raw[i])} /\ cleanOf' = raw
    /\ verdict' = "none"
    /\ UNCHANGED <<raw, quarantine, quarantineOf, seeds>>

BuildQuarantine ==
    /\ raw # NoRows
    /\ quarantine' = [i \in {j \in RawIds : Fails(raw[j])} |-> Reason(raw[i])]
    /\ quarantineOf' = raw
    /\ verdict' = "none"
    /\ UNCHANGED <<raw, clean, cleanOf, seeds>>

(* assert_orders_reconcile: only the counts are compared.                  *)
Reconcile ==
    /\ raw # NoRows
    /\ verdict' = IF Cardinality(RawIds) = Cardinality(clean) + Cardinality(DOMAIN quarantine)
                  THEN "pass" ELSE "fail"
    /\ UNCHANGED <<raw, clean, cleanOf, quarantine, quarantineOf, seeds>>

SplitInit ==
    /\ raw = NoRows /\ verdict = "none" /\ seeds = 0
    /\ clean = {} /\ cleanOf = NoRows
    /\ quarantine = NoRows /\ quarantineOf = NoRows

SplitNext == SeedRaw \/ BuildClean \/ BuildQuarantine \/ Reconcile

SplitSpec == SplitInit /\ [][SplitNext]_splitVars

-----------------------------------------------------------------------------
Known(r) == Null \notin {r.amount, r.status, r.customer}

(* "Every raw quality row is either clean or quarantined (none             *)
(* lost/duplicated)": of tables that were built from the rows there are,   *)
(* the test's count says exactly this, and it passes when no row has a     *)
(* NULL.                                                                   *)
Placed(i) == (i \in clean) # (i \in DOMAIN quarantine)

SplitReconciles ==
    verdict # "none" /\ cleanOf = raw /\ quarantineOf = raw =>
        /\ verdict = "pass" <=> \A i \in RawIds : Placed(i)
        /\ (\A i \in RawIds : Known(raw[i])) => verdict = "pass"
=============================================================================
