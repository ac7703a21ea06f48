---------------------------- MODULE IcebergTable ----------------------------
(***************************************************************************)
(* What an Iceberg table promises to the notebooks that write, maintain    *)
(* and drop it: a snapshot, once committed, is a fixed set of files, and   *)
(* as long as it is retained all of them are on disk.  Writing, committing *)
(* and deleting files are separate steps, any of which may be the last one *)
(* before the driver dies, and writers may overlap with maintenance.       *)
(***************************************************************************)
CONSTANTS Ids,            \* what snapshot ids are taken from
          NoSnapshot      \* the current snapshot of a table without one

VARIABLES
    snapshots,   \* the files of every retained snapshot, by id
    current,     \* the id of the current one
    tagged,      \* ids that tags name
    disk,        \* files in the table's directory
    pending,     \* files written and not yet committed
    doomed       \* files that an expiry in progress may delete

vars == <<snapshots, current, tagged, disk, pending, doomed>>

Referenced == UNION {snapshots[i] : i \in DOMAIN snapshots}
Pinned == tagged \cup {i \in {current} : i # NoSnapshot}
CurrentFiles == IF current = NoSnapshot THEN {} ELSE snapshots[current]

TypeOK ==
    /\ DOMAIN snapshots \subseteq Ids
    /\ current \in Ids \cup {NoSnapshot} /\ tagged \subseteq Ids
    /\ pending \subseteq disk

(* The directory may hold any files; what a file is does not matter.       *)
Init ==
    /\ snapshots = [i \in {} |-> {}]
    /\ current = NoSnapshot /\ tagged = {}
    /\ pending = {} /\ doomed = {}

(* New files; those of a table write are pending, strays are nobody's.     *)
Write ==
    /\ disk \subseteq disk'
    /\ pending' \subseteq pending \cup (disk' \ disk) /\ pending \subseteq pending'
    /\ (disk' \ disk) \cap (Referenced \cup doomed) = {}
    /\ UNCHANGED <<snapshots, current, tagged, doomed>>

(* A new snapshot takes over files of the current one and pending ones.    *)
Commit ==
    /\ current' \in Ids \ DOMAIN snapshots
    /\ DOMAIN snapshots' = DOMAIN snapshots \cup {current'}
    /\ snapshots' = [i \in DOMAIN snapshots' |-> IF i = current' THEN snapshots'[i]
                                                                 ELSE snapshots[i]]
    /\ snapshots'[current'] \subseteq CurrentFiles \cup pending
    /\ pending' = {}
    /\ UNCHANGED <<tagged, disk, doomed>>

(* The writer, or the expiry, stops half way.                              *)
Abandon ==
    /\ pending' \subseteq pending /\ doomed' \subseteq doomed
    /\ UNCHANGED <<snapshots, current, tagged, disk>>

Rollback ==
    /\ current' \in DOMAIN snapshots
    /\ UNCHANGED <<snapshots, tagged, disk, pending, doomed>>

Tag ==
    /\ tagged' \subseteq tagged \cup Pinned /\ tagged \subseteq tagged'
    /\ UNCHANGED <<snapshots, current, disk, pending, doomed>>

(* First the metadata forgets the snapshots, then the files only they had  *)
(* may go.                                                                 *)
Expire ==
    /\ DOMAIN snapshots' \subseteq DOMAIN snapshots /\ Pinned \subseteq DOMAIN snapshots'
    /\ snapshots' = [i \in DOMAIN snapshots' |-> snapshots[i]]
    /\ doomed' \subseteq doomed \cup (Referenced \ Referenced')
    /\ UNCHANGED <<current, tagged, disk, pending>>

Reclaim ==
    /\ disk' \subseteq disk /\ disk \ disk' \subseteq doomed
    /\ doomed' = {}
    /\ UNCHANGED <<snapshots, current, tagged, pending>>

(* remove_orphan_files: what no snapshot references and nobody is writing. *)
RemoveOrphans ==
    /\ disk' \subseteq disk
    /\ (disk \ disk') \cap (Referenced \cup pending) = {}
    /\ UNCHANGED <<snapshots, current, tagged, pending, doomed>>

(* Dropped, or created anew; files may be left behind.                     *)
Drop ==
    /\ snapshots' = [i \in {} |-> {}] /\ current' = NoSnapshot /\ tagged' = {}
    /\ disk' \subseteq disk /\ pending' = {} /\ doomed' = {}

Next ==
    \/ Write \/ Commit \/ Abandon \/ Rollback \/ Tag
    \/ Expire \/ Reclaim \/ RemoveOrphans \/ Drop

Spec == Init /\ [][Next]_vars

-----------------------------------------------------------------------------
(* Every retained snapshot can be read: VERSION AS OF finds all its files. *)
Readable == Referenced \subseteq disk

(* What current and the tags name is retained.                             *)
PinnedRetained == Pinned \subseteq DOMAIN snapshots

(* A retained snapshot is what it was; only expiry and DROP lose one.      *)
Immutable ==
    [][\A i \in DOMAIN snapshots \cap DOMAIN snapshots' :
           snapshots'[i] = snapshots[i]]_vars
=============================================================================
