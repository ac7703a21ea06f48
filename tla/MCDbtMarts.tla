----------------------------- MODULE MCDbtMarts ------------------------------
(***************************************************************************)
(* The dbt project's stateful models together: one lab of dbt/quality is   *)
(* worked through, in any order and with any vars.  The labs share no      *)
(* table, so that their product would show no more than their sum.         *)
(***************************************************************************)
EXTENDS OrdersMarts, QualitySplit, CustomersSnapshot

VARIABLE lab

vars == <<lab, ordersVars, splitVars, snapshotVars>>

Good == [amount |-> 1, status |-> TRUE, customer |-> TRUE]
SomeValues ==
    {Good, [Good EXCEPT !.amount = 0], [Good EXCEPT !.amount = -1], [Good EXCEPT !.status = FALSE],
     [Good EXCEPT !.customer = FALSE], [Good EXCEPT !.amount = Null],
     [Good EXCEPT !.status = Null, !.customer = FALSE]}

Init == OrdersInit /\ SplitInit /\ SnapshotInit /\ lab \in {"dbt3", "dbt4", "dbt5", "dbt7"}

Next ==
    /\ \/ /\ lab = "dbt3" /\ (Seed \/ RunFct)
          /\ UNCHANGED <<splitVars, snapshotVars>>
       \/ /\ lab = "dbt5" /\ (Seed \/ RunEvolving)
          /\ UNCHANGED <<splitVars, snapshotVars>>
       \/ /\ lab = "dbt7" /\ SplitNext
          /\ UNCHANGED <<ordersVars, snapshotVars>>
       \/ /\ lab = "dbt4" /\ SnapshotNext
          /\ UNCHANGED <<ordersVars, splitVars>>
    /\ UNCHANGED lab

Spec == Init /\ [][Next]_vars
=============================================================================
