------------------------------ MODULE Replica ------------------------------
(***************************************************************************)
(* What a CDC mirror promises: a copy of a table that is, at every moment, *)
(* either empty or exactly the table as it stood at some earlier point of  *)
(* its history, and that only moves forward until it is rebuilt.           *)
(***************************************************************************)
EXTENDS Integers, Sequences

CONSTANTS Keys,   \* primary keys
          Row,    \* what a key may map to, Gone included
          Gone    \* the row of a key that has none

VARIABLES
    history,   \* the source table after each of its changes, oldest first
    copy,      \* the mirror
    at         \* the point of the history the mirror shows, 0 when empty

Table == [Keys -> Row]

Empty == [k \in Keys |-> Gone]

Init ==
    /\ history \in {<<t>> : t \in Table}
    /\ copy = Empty
    /\ at = 0

Change ==
    /\ \E k \in Keys, r \in Row :
           history' = Append(history, [history[Len(history)] EXCEPT ![k] = r])
    /\ UNCHANGED <<copy, at>>

Sync ==
    /\ \E n \in 1 .. Len(history) : n >= at /\ at' = n /\ copy' = history[n]
    /\ UNCHANGED history

Rebuild ==
    /\ copy' = Empty
    /\ at' = 0
    /\ UNCHANGED history

vars == <<history, copy, at>>

Next == Change \/ Sync \/ Rebuild

Spec == Init /\ [][Next]_vars
=============================================================================
