------------------------------- MODULE Kernel -------------------------------
(***************************************************************************)
(* The kernel of a notebook: its cells run in order, each a sequence of    *)
(* operations.  A cell may fail under any of them: the Spark server is     *)
(* shared and may die of another notebook's doing, a broker may be away,   *)
(* the user may interrupt it.  The cell is then run again from its first   *)
(* operation, or the notebook from the top in a new kernel.                *)
(* What an operation does is the business of the module that extends this. *)
(***************************************************************************)
EXTENDS Integers, Sequences, FiniteSets

CONSTANTS
    MaxCrashes,   \* bound: faults, of cells and under them
    MaxReruns     \* bound: times the notebook is run again from the top

ASSUME KernelAssumption == MaxCrashes \in Nat /\ MaxReruns \in Nat

VARIABLES
    notebook,   \* the notebook that is run
    cell, op,   \* the operation that is due
    status,     \* "ready", in the middle of the operation, or how it failed
    retried,    \* auxiliary: cells that failed since the top
    crashes,
    reruns

kernelVars == <<notebook, cell, op, status, retried, crashes, reruns>>

KernelTypeOK(cells, phases) ==
    /\ cell \in 1 .. Len(cells) + 1
    /\ IF cell > Len(cells) THEN op = 1 ELSE op \in 1 .. Len(cells[cell])
    /\ status \in {"ready", "failed", "rejected"} \cup phases
    /\ retried \subseteq 1 .. Len(cells)
    /\ crashes \in 0 .. MaxCrashes /\ reruns \in 0 .. MaxReruns

KernelInit(notebooks) ==
    /\ notebook \in notebooks
    /\ cell = 1 /\ op = 1 /\ status = "ready" /\ retried = {}
    /\ crashes = 0 /\ reruns = 0

AtEnd(cells) == cell > Len(cells)

(* The operation o of the cell is due, and it is in this phase.            *)
Due(cells, phase) == status = phase /\ ~AtEnd(cells)

Finish(cells) ==
    /\ IF op < Len(cells[cell]) THEN op' = op + 1 /\ cell' = cell
                                ELSE op' = 1 /\ cell' = cell + 1
    /\ status' = "ready"
    /\ UNCHANGED <<notebook, retried, crashes, reruns>>

GoOn(phase) ==
    /\ status' = phase
    /\ UNCHANGED <<notebook, cell, op, retried, crashes, reruns>>

(* A fault that the cell survives in this phase.                           *)
Fault(phase) ==
    /\ crashes < MaxCrashes
    /\ crashes' = crashes + 1 /\ status' = phase
    /\ UNCHANGED <<notebook, cell, op, retried, reruns>>

(* The cell fails: a driver died, and Docker starts it again; a timeout.   *)
Die(cells) ==
    /\ ~AtEnd(cells) /\ status \notin {"failed", "rejected"}
    /\ Fault("failed")

RetryCell ==
    /\ status \in {"failed", "rejected"}
    /\ op' = 1 /\ status' = "ready" /\ retried' = retried \cup {cell}
    /\ UNCHANGED <<notebook, cell, crashes, reruns>>

FromTop ==
    /\ status \in {"failed", "rejected"} \/ (status = "ready" /\ op = 1)
    /\ reruns < MaxReruns
    /\ reruns' = reruns + 1
    /\ cell' = 1 /\ op' = 1 /\ status' = "ready" /\ retried' = {}
    /\ UNCHANGED <<notebook, crashes>>
=============================================================================
