-------------------------- MODULE CustomersSnapshot --------------------------
(***************************************************************************)
(* The snapshot of the customers' tiers as a slowly changing dimension of  *)
(* type 2: a run closes the current version of each customer whose tier    *)
(* differs, and opens a new one.  A customer who is no longer in the       *)
(* source keeps the current version.                                       *)
(***************************************************************************)
EXTENDS Integers, Sequences

CONSTANTS
    Customers, Tiers,
    C001, Platinum,     \* whom the var promote_c001 promotes, and to what
    Gone,               \* not in the source
    Open,               \* dbt_valid_to IS NULL: the current version
    MaxChanges,         \* bound: seedings and runs of the view
    MaxSnapshots        \* bound: runs of the snapshot

ASSUME SnapshotAssumption ==
    /\ Platinum \in Tiers /\ Gone \notin Tiers /\ Open \notin Int
    /\ MaxChanges \in Nat /\ MaxSnapshots \in Nat

VARIABLES
    membership,   \* stg_customers: each customer's tier, or Gone
    promoted,     \* promote_c001, as snap_customers_src was last run with
    versions,     \* customers_snapshot
    seen,         \* auxiliary: what each of its runs saw
    changes

snapshotVars == <<membership, promoted, versions, seen, changes>>

(* snap_customers_src.                                                     *)
Source == [c \in Customers |-> IF c = C001 /\ promoted /\ membership[c] # Gone
                               THEN Platinum ELSE membership[c]]

SeedCustomers ==
    /\ changes < MaxChanges /\ changes' = changes + 1
    /\ membership' \in [Customers -> Tiers \cup {Gone}]
    /\ UNCHANGED <<promoted, versions, seen>>

RunView ==
    /\ changes < MaxChanges /\ changes' = changes + 1
    /\ promoted' = ~promoted
    /\ UNCHANGED <<membership, versions, seen>>

Now == Len(seen) + 1

Current(v) == v.valid_to = Open
Outdated == {v \in versions : Current(v) /\ Source[v.customer] \notin {Gone, v.tier}}
KeptOpen(v) == v                           \* mutant: for Closed
Closed(v) == [v EXCEPT !.valid_to = Now]

Unknown == {c \in Customers : Source[c] # Gone
                              /\ \A v \in versions : v.customer = c => ~Current(v)}
Version(c) == [customer |-> c, tier |-> Source[c], valid_from |-> Now, valid_to |-> Open]

Snapshot ==
    /\ Len(seen) < MaxSnapshots
    /\ versions' = (versions \ Outdated) \cup {Closed(v) : v \in Outdated}
                   \cup {Version(c) : c \in Unknown \cup {v.customer : v \in Outdated}}
    /\ seen' = Append(seen, Source)
    /\ UNCHANGED <<membership, promoted, changes>>

SnapshotInit ==
    /\ membership = [c \in Customers |-> Gone] /\ promoted = FALSE
    /\ versions = {} /\ seen = <<>> /\ changes = 0

SnapshotNext == SeedCustomers \/ RunView \/ Snapshot

SnapshotSpec == SnapshotInit /\ [][SnapshotNext]_snapshotVars

-----------------------------------------------------------------------------
SnapshotTypeOK ==
    /\ membership \in [Customers -> Tiers \cup {Gone}] /\ promoted \in BOOLEAN
    /\ versions \subseteq [customer : Customers, tier : Tiers, valid_from : Nat,
                           valid_to : Nat \cup {Open}]
    /\ seen \in Seq([Customers -> Tiers \cup {Gone}])
    /\ changes \in Nat

(* '...' >= dbt_valid_from AND ('...' < dbt_valid_to OR dbt_valid_to IS    *)
(* NULL).                                                                  *)
ValidAt(v, c, t) ==
    v.customer = c /\ v.valid_from <= t /\ (v.valid_to = Open \/ t < v.valid_to)

(* dbt4_snapshots_scd2.md: the as-of query gives, for the time of every    *)
(* run there was, the one tier that this run saw of a customer, however    *)
(* often tiers changed, came back or customers went since; and nobody has  *)
(* two current versions.                                                   *)
AsOfExact ==
    /\ \A t \in 1 .. Len(seen), c \in Customers : seen[t][c] # Gone =>
           \E v \in versions : /\ ValidAt(v, c, t) /\ v.tier = seen[t][c]
                               /\ \A w \in versions : ValidAt(w, c, t) => w = v
    /\ \A v, w \in versions : Current(v) /\ Current(w) /\ v.customer = w.customer => v = w
=============================================================================
