------------------------- MODULE Leftovers_proofs -------------------------
(***************************************************************************)
(* Proofs about what a job leaves for the next one to find: the slate that *)
(* a demo's teardown leaves, the rows of the incremental marts, of the     *)
(* quality gate's split and of the customers snapshot, the file of a daily *)
(* partition, and the files of an Iceberg table.                           *)
(***************************************************************************)
EXTENDS CdcLifecycle, OrdersMarts, QualitySplit, CustomersSnapshot, PartitionRuns, IcebergTable,
        FiniteSetTheorems, TLAPS

-----------------------------------------------------------------------------
(* THE CONNECTOR'S LIFE.  For any number of runs, polls and retries, and   *)
(* wherever runs and clean-ups were interrupted, the next run finds what   *)
(* the last drop_slot and the last reset of the offsets leave: nothing, if *)
(* they came after the old task had ended.                                 *)
(*                                                                         *)
(* The proof is about the order of teardown's calls.  Each clause of the   *)
(* invariant says what is behind the client at one point of them, and why  *)
(* Connect, which does things in its own time, cannot undo it: a connector *)
(* that is not running starts no task, and without a task nobody stores an *)
(* offset, holds the slot or publishes.                                    *)
Dropped == {"table", "topic", "seed", "register"}     \* drop_slot is behind the client
Running == {"await", "up"}                            \* register_connector is

(* The connector's state, by where the client is.                          *)
Told ==
    /\ at = "stop" => connector # "absent"
    /\ at \in {"poll", "clear"} => connector \in {"stopping", "stopped"}
    /\ at = "delete" => connector # "running"
    /\ at \in {"slot"} \cup Dropped => connector = "absent"
    /\ at \in Running => connector = "running"

(* A reset after the task's end stays done while there is no connector.    *)
Reset ==
    "reset" \notin late => (at = "delete" \/ connector = "absent" => task = 0 /\ ~offsets)

(* Once the slot is dropped nobody is left to publish, so that a deleted   *)
(* topic stays deleted until the run's own connector starts.               *)
Released ==
    "slot" \notin late =>
        /\ at \in Dropped => task = 0 /\ ~slot
        /\ at \in {"seed", "register"} => topic = {}
        /\ at \in Running => task \in {0, table} /\ topic \subseteq {table}

(* There is a table whenever a task can start.                             *)
Seeded ==
    /\ at \in {"topic", "seed"} => table = 0
    /\ at = "register" \/ connector = "running" => table # 0

(* The task of a run starts without a stored offset.                       *)
Snapshots ==
    "reset" \notin late /\ at \in Running => IF task = 0 THEN ~offsets ELSE snapped /\ task = table

LifecycleInv == LifecycleTypeOK /\ Told /\ Reset /\ Released /\ Seeded /\ Snapshots

-----------------------------------------------------------------------------
(* The order of the calls.                                                 *)
LEMMA Position ==
    ASSUME NEW i \in 1 .. 8
    PROVE  /\ DOMAIN Teardown = 1 .. 8 /\ Len(Teardown) = 8
           /\ (CHOOSE n \in DOMAIN Teardown : Teardown[n] = Teardown[i]) = i
<1>1. DOMAIN Teardown = 1 .. 8 /\ Len(Teardown) = 8
  BY DEF Teardown
<1>2. /\ Teardown[1] = "get" /\ Teardown[2] = "stop" /\ Teardown[3] = "poll"
      /\ Teardown[4] = "clear" /\ Teardown[5] = "delete" /\ Teardown[6] = "slot"
      /\ Teardown[7] = "table" /\ Teardown[8] = "topic"
  BY DEF Teardown
<1>3. \A n \in 1 .. 8 : Teardown[n] = Teardown[i] => n = i
  BY <1>2
<1> QED BY <1>1, <1>3

LEMMA CallOrder ==
    ASSUME Cleanup = Teardown
    PROVE  /\ Cleanup[1] = "get"
           /\ Done("get") => at' = "stop" /\ tries' = 0
           /\ Done("stop") => at' = "poll" /\ tries' = 0
           /\ Done("poll") => at' = "clear" /\ tries' = 0
           /\ Done("clear") => at' = "delete" /\ tries' = 0
           /\ Done("delete") => at' = "slot" /\ tries' = 0
           /\ Done("slot") => at' = "table" /\ tries' = 0
           /\ Done("table") => at' = "topic" /\ tries' = 0
           /\ Done("topic") => at' \in {"idle", "seed"} /\ tries' = 0
<1>1. /\ Teardown[1] = "get" /\ Teardown[2] = "stop" /\ Teardown[3] = "poll"
      /\ Teardown[4] = "clear" /\ Teardown[5] = "delete" /\ Teardown[6] = "slot"
      /\ Teardown[7] = "table" /\ Teardown[8] = "topic"
  BY DEF Teardown
<1>2. ASSUME NEW i \in 1 .. 7, Done(Teardown[i])
      PROVE  at' = Teardown[i + 1] /\ tries' = 0
  <2>1. (CHOOSE n \in DOMAIN Cleanup : Cleanup[n] = Teardown[i]) = i /\ Len(Cleanup) = 8
    BY Position
  <2>2. i < Len(Cleanup)
    BY <2>1
  <2>3. Goto(Cleanup[i + 1])
    BY <1>2, <2>1, <2>2 DEF Done
  <2> QED BY <2>3 DEF Goto
<1>3. ASSUME Done(Teardown[8]) PROVE at' \in {"idle", "seed"} /\ tries' = 0
  <2>1. (CHOOSE n \in DOMAIN Cleanup : Cleanup[n] = Teardown[8]) = 8 /\ Len(Cleanup) = 8
    BY Position
  <2>2. ~(8 < Len(Cleanup))
    BY <2>1
  <2>3. \E next \in {"idle", "seed"} : Goto(next)
    BY <1>3, <2>1, <2>2 DEF Done
  <2> QED BY <2>3 DEF Goto
<1> QED BY <1>1, <1>2, <1>3

-----------------------------------------------------------------------------
LEMMA InitInv == LifecycleInit => LifecycleInv
<1> SUFFICES ASSUME LifecycleInit PROVE LifecycleInv
  OBVIOUS
<1>1. LifecycleTypeOK
  <2>1. 0 \in 0 .. MaxPolls + MaxTries /\ 0 \in 0 .. MaxRuns /\ 0 \in 0 .. MaxInterrupts
    BY LifecycleAssumption
  <2>2. at = "idle" /\ tries \in 0 .. MaxPolls + MaxTries /\ connector = "absent"
        /\ snapped \in BOOLEAN /\ offsets \in BOOLEAN /\ slot \in BOOLEAN
    BY <2>1 DEF LifecycleInit
  <2>3. task \in 0 .. runs /\ table \in 0 .. runs /\ runs \in 0 .. MaxRuns
        /\ interrupts \in 0 .. MaxInterrupts /\ task = 0
    BY <2>1 DEF LifecycleInit
  <2>4. topic \subseteq 1 .. runs /\ late \subseteq {"reset", "slot"}
    BY DEF LifecycleInit
  <2> QED BY <2>2, <2>3, <2>4 DEF LifecycleTypeOK
<1>2. Told /\ Reset /\ Released /\ Seeded /\ Snapshots
  BY DEF LifecycleInit, Told, Reset, Released, Seeded, Snapshots, Dropped, Running
<1> QED BY <1>1, <1>2 DEF LifecycleInv

LEMMA CleanUpInv == ASSUME Cleanup = Teardown, LifecycleInv, CleanUp PROVE LifecycleInv'
<1> USE CallOrder, LifecycleAssumption
    DEF LifecycleInv, LifecycleTypeOK, Told, Reset, Released, Seeded, Snapshots, Dropped, Running,
        Steps, client, connect, data, rest
<1>1. CASE FindConnector
  BY <1>1 DEF FindConnector
<1>2. CASE StopConnector
  BY <1>2 DEF StopConnector
<1>3. CASE PollStopped
  <2>1. LifecycleTypeOK'
    <3>1. tries' \in 0 .. MaxPolls + MaxTries /\ at' \in {"poll", "clear"}
      BY <1>3 DEF PollStopped, Stopped
    <3>2. late' = late
      BY <1>3 DEF PollStopped
    <3> QED BY <1>3, <3>1, <3>2 DEF PollStopped
  <2>2. Told'
    BY <1>3 DEF PollStopped, Stopped
  <2>3. Reset'
    BY <1>3 DEF PollStopped, Stopped
  <2>4. Released'
    BY <1>3 DEF PollStopped, Stopped
  <2>5. Seeded'
    BY <1>3 DEF PollStopped, Stopped
  <2>6. Snapshots'
    BY <1>3 DEF PollStopped, Stopped
  <2> QED BY <2>1, <2>2, <2>3, <2>4, <2>5, <2>6
<1>4. CASE ClearOffsets
  <2>1. LifecycleTypeOK'
    <3>1. offsets' \in BOOLEAN
      BY <1>4 DEF ClearOffsets
    <3>2. at' = "delete" /\ tries' = 0
      BY <1>4 DEF ClearOffsets
    <3>3. tries' \in 0 .. MaxPolls + MaxTries
      BY <3>2
    <3>4. at' \in Steps \cup {"idle", "seed", "register", "await", "up"}
      BY <3>2
    <3>5. UNCHANGED <<connector, task, snapped, slot, table, topic, runs, interrupts>>
      BY <1>4 DEF ClearOffsets
    <3>6. late' \subseteq {"reset", "slot"}
      BY <1>4 DEF ClearOffsets
    <3> QED BY <3>1, <3>3, <3>4, <3>5, <3>6
  <2>2. Told'
    BY <1>4 DEF ClearOffsets, Stopped
  <2>3. Reset'
    BY <1>4 DEF ClearOffsets, Stopped
  <2>4. Released'
    BY <1>4 DEF ClearOffsets, Stopped
  <2>5. Seeded'
    BY <1>4 DEF ClearOffsets, Stopped
  <2>6. Snapshots'
    BY <1>4 DEF ClearOffsets, Stopped
  <2> QED BY <2>1, <2>2, <2>3, <2>4, <2>5, <2>6
<1>5. CASE DeleteConnector
  BY <1>5 DEF DeleteConnector
<1>6. CASE DropSlot
  <2>1. LifecycleTypeOK'
    <3>1. tries' \in 0 .. MaxPolls + MaxTries /\ at' \in {"slot", "table"}
      BY <1>6 DEF DropSlot
    <3>2. late' \subseteq {"reset", "slot"}
      BY <1>6 DEF DropSlot
    <3>3. slot' \in BOOLEAN /\ (task' # 0 => slot')
      BY <1>6 DEF DropSlot
    <3> QED BY <1>6, <3>1, <3>2, <3>3 DEF DropSlot
  <2>2. Told'
    BY <1>6 DEF DropSlot
  <2>3. Reset'
    BY <1>6 DEF DropSlot
  <2>4. Released'
    BY <1>6 DEF DropSlot
  <2>5. Seeded'
    BY <1>6 DEF DropSlot
  <2>6. Snapshots'
    BY <1>6 DEF DropSlot
  <2> QED BY <2>1, <2>2, <2>3, <2>4, <2>5, <2>6
<1>7. CASE DropTable
  BY <1>7 DEF DropTable
<1>8. CASE DeleteDataTopic
  BY <1>8 DEF DeleteDataTopic
<1> QED BY <1>1, <1>2, <1>3, <1>4, <1>5, <1>6, <1>7, <1>8 DEF CleanUp

LEMMA RunInv == ASSUME Cleanup = Teardown, LifecycleInv, Run \/ Interrupt PROVE LifecycleInv'
<1> USE CallOrder, LifecycleAssumption
    DEF LifecycleInv, LifecycleTypeOK, Told, Reset, Released, Seeded, Snapshots, Dropped, Running,
        Steps, Goto, client, connect, data, rest
<1>1. CASE Begin
  BY <1>1 DEF Begin
<1>2. CASE SeedOrders
  BY <1>2 DEF SeedOrders
<1>3. CASE RegisterConnector
  BY <1>3 DEF RegisterConnector
<1>4. CASE WaitForConnector
  BY <1>4 DEF WaitForConnector
<1>5. CASE Finish
  BY <1>5 DEF Finish
<1>6. CASE Interrupt
  BY <1>6 DEF Interrupt
<1> QED BY <1>1, <1>2, <1>3, <1>4, <1>5, <1>6 DEF Run

LEMMA WorkerInv == ASSUME LifecycleInv, Worker PROVE LifecycleInv'
<1> USE LifecycleAssumption
    DEF LifecycleInv, LifecycleTypeOK, Told, Reset, Released, Seeded, Snapshots, Dropped, Running,
        Steps, client, connect, data, rest
<1>1. CASE StartTask
  <2>1. LifecycleTypeOK'
    BY <1>1 DEF StartTask
  <2>2. Told'
    BY <1>1 DEF StartTask
  <2>3. Reset'
    BY <1>1 DEF StartTask
  <2>4. Released'
    BY <1>1 DEF StartTask
  <2>5. Seeded'
    BY <1>1 DEF StartTask
  <2>6. Snapshots'
    BY <1>1 DEF StartTask
  <2> QED BY <2>1, <2>2, <2>3, <2>4, <2>5, <2>6
<1>2. CASE Publish
  BY <1>2 DEF Publish
<1>3. CASE StoreOffset
  BY <1>3 DEF StoreOffset
<1>4. CASE StopTask
  <2>1. LifecycleTypeOK'
    <3>1. offsets' \in BOOLEAN
      BY <1>4 DEF StopTask
    <3> QED BY <1>4, <3>1 DEF StopTask
  <2>2. Told'
    BY <1>4 DEF StopTask
  <2>3. Reset'
    BY <1>4 DEF StopTask
  <2>4. Released'
    BY <1>4 DEF StopTask
  <2>5. Seeded'
    BY <1>4 DEF StopTask
  <2>6. Snapshots'
    BY <1>4 DEF StopTask
  <2> QED BY <2>1, <2>2, <2>3, <2>4, <2>5, <2>6
<1>5. CASE ReportStopped
  BY <1>5 DEF ReportStopped
<1> QED BY <1>1, <1>2, <1>3, <1>4, <1>5 DEF Worker
-----------------------------------------------------------------------------
LEMMA LifecycleStep == ASSUME Cleanup = Teardown PROVE LifecycleInv /\ [LifecycleNext]_lifecycleVars => LifecycleInv'
<1> SUFFICES ASSUME LifecycleInv, [LifecycleNext]_lifecycleVars PROVE LifecycleInv'
  OBVIOUS
<1>1. CASE UNCHANGED lifecycleVars
  BY <1>1 DEF LifecycleInv, LifecycleTypeOK, Told, Reset, Released, Seeded, Snapshots, Dropped,
              Running, lifecycleVars, client, connect, data, rest
<1> QED BY <1>1, CleanUpInv, RunInv, WorkerInv DEF LifecycleNext

LEMMA LifecycleHolds == ASSUME Cleanup = Teardown PROVE LifecycleSpec => []LifecycleInv
BY InitInv, LifecycleStep, PTL DEF LifecycleSpec

(* The client is at one of the calls there are, the loops stay within      *)
(* their bounds, and whoever has a task has the slot.                      *)
THEOREM LifecycleTypeCorrect == ASSUME Cleanup = Teardown PROVE LifecycleSpec => []LifecycleTypeOK
<1>1. LifecycleInv => LifecycleTypeOK
  BY DEF LifecycleInv
<1> QED BY <1>1, LifecycleHolds, PTL

(* A run that seeds, once drop_slot has outlived the old task, finds no    *)
(* connector, task, slot, table or event of an earlier run, and an offset  *)
(* only if the last reset came too early.                                  *)
THEOREM TeardownLeavesCleanSlate == ASSUME Cleanup = Teardown PROVE LifecycleSpec => []CleanSlate
<1>1. LifecycleInv => CleanSlate
  BY DEF LifecycleInv, Told, Reset, Released, Seeded, Dropped, CleanSlate
<1> QED BY <1>1, LifecycleHolds, PTL

(* The task of a run that is up has snapshotted this run's table, if the   *)
(* last reset of the offsets came after the old task had ended; what       *)
(* earlier clean-ups met does not matter.                                  *)
THEOREM RegistrationRunsSnapshot == ASSUME Cleanup = Teardown PROVE LifecycleSpec => []SnapshotsUnlessLate
<1>1. LifecycleInv => SnapshotsUnlessLate
  BY DEF LifecycleInv, Snapshots, Running, SnapshotsUnlessLate, RegistrationSnapshots
<1> QED BY <1>1, LifecycleHolds, PTL

(* The topic of a run holds no event of an earlier one, even if the old    *)
(* task outlived the reset, as long as the last drop_slot outlived it.     *)
THEOREM TopicBelongsToRun == ASSUME Cleanup = Teardown PROVE LifecycleSpec => []TopicOfThisRun
<1>1. LifecycleInv => TopicOfThisRun
  BY DEF LifecycleInv, Released, Running, TopicOfThisRun
<1> QED BY <1>1, LifecycleHolds, PTL

-----------------------------------------------------------------------------
(* THE INCREMENTAL MARTS.  Besides the property itself the invariant says  *)
(* that a table holds only what had landed: what is new to a run is then   *)
(* later, in event time less the lookback or in order_id, than all that is *)
(* there.                                                                  *)
FctLanded == fct # Absent => orders # Absent /\ fct \subseteq Staged(through)
EvolvingLanded == copies # Absent => orders # Absent /\ Loaded \subseteq Staged(landed)

OrdersInv == OrdersTypeOK /\ FctLanded /\ EvolvingLanded /\ MartsComplete

LEMMA OrdersInitially == OrdersInit => OrdersInv
BY DEF OrdersInit, OrdersInv, OrdersTypeOK, FctLanded, EvolvingLanded, MartsComplete, FctComplete,
       EvolvingOnce

(* The later of two load times.                                            *)
LEMMA LaterBounds ==
    ASSUME NEW s \in Nat, NEW t \in Nat
    PROVE  /\ Later(s, t) \in {s, t} /\ s <= Later(s, t) /\ t <= Later(s, t)
BY DEF Later

(* An order that landed after all that is there happened after it, less    *)
(* its lateness.                                                           *)
LEMMA NotBehind ==
    ASSUME NEW placed \in Nat, NEW loaded \in Nat, NEW h \in Nat, NEW other \in Nat,
           NEW otherLoaded \in Nat, NEW t \in Nat,
           loaded - placed <= h, other <= otherLoaded, otherLoaded <= t, ~(loaded <= t)
    PROVE  placed > other - h
OBVIOUS

(* fct_orders: the merge that follows a complete table completes it.       *)
LEMMA MergeKeeps ==
    ASSUME OrdersInv, NEW t \in Times, NEW h \in Lookbacks, MergeFct(t, h)
    PROVE  OrdersTypeOK' /\ FctLanded' /\ FctComplete'
<1> USE OrdersAssumption DEF OrdersInv, OrdersTypeOK
<1>1. orders \in [OrderIds -> Order] /\ fct \in SUBSET OrderIds /\ fct # Absent
  BY DEF MergeFct
<1>2. \A i \in OrderIds : orders[i].ordered_at \in Nat /\ orders[i].loaded_at \in Nat
                          /\ orders[i].ordered_at <= orders[i].loaded_at
  BY <1>1 DEF Order
<1>3. through \in Nat /\ through' = Later(through, t) /\ through' \in {through, t}
      /\ through <= through' /\ t <= through'
  BY LaterBounds DEF MergeFct
<1>4. OrdersTypeOK'
  BY <1>1, <1>3 DEF MergeFct, Staged, evolvingVars
<1>5. \A i \in OrderIds : orders'[i] = orders[i]
  BY DEF MergeFct
<1>6. FctLanded'
  <2>1. \A i \in fct' : i \in OrderIds /\ (i \in Staged(through) \/ i \in Staged(t))
    BY <1>1 DEF MergeFct, FctLanded, Staged
  <2>2. ASSUME NEW i \in fct' PROVE orders[i].loaded_at <= through'
    <3>1. orders[i].loaded_at \in Nat
          /\ (orders[i].loaded_at <= through \/ orders[i].loaded_at <= t)
      BY <1>2, <2>1 DEF Staged
    <3> QED BY <1>3, <3>1
  <2> QED BY <1>5, <2>1, <2>2 DEF FctLanded, Staged, MergeFct
<1>7. FctComplete'
  <2> SUFFICES ASSUME fct' \notin {Absent, {}}, Punctual',
                      NEW i \in OrderIds, orders[i].loaded_at <= through'
               PROVE  i \in fct'
    BY <1>5, <1>6 DEF FctComplete, FctLanded, Staged, MergeFct
  <2>1. fct # {} /\ Punctual
    BY <1>5 DEF MergeFct, Recent, Punctual
  <2>2. fct = Staged(through)
    BY <1>1, <2>1 DEF MartsComplete, FctComplete
  <2>3. CASE orders[i].loaded_at <= through
    BY <2>2, <2>3 DEF Staged, MergeFct
  <2>4. CASE ~(orders[i].loaded_at <= through)
    <3>1. i \in Staged(t)
      BY <1>2, <1>3, <2>4 DEF Staged
    <3>2. orders[i].loaded_at - orders[i].ordered_at <= h
      BY <1>5 DEF Punctual, MergeFct
    <3>3. ASSUME NEW j \in fct PROVE orders[i].ordered_at > orders[j].ordered_at - h
      <4>1. j \in OrderIds /\ orders[j].loaded_at <= through
        BY <2>2 DEF Staged
      <4>2. h \in Nat
        OBVIOUS
      <4>3. orders[j].ordered_at \in Nat /\ orders[j].loaded_at \in Nat
            /\ orders[j].ordered_at <= orders[j].loaded_at
        BY <1>2, <4>1
      <4>4. orders[i].ordered_at \in Nat /\ orders[i].loaded_at \in Nat
        BY <1>2
      <4> QED BY <1>3, <2>4, <3>2, <4>1, <4>2, <4>3, <4>4, NotBehind
    <3> QED BY <2>1, <3>1, <3>3 DEF MergeFct, Recent
  <2> QED BY <2>3, <2>4
<1> QED BY <1>4, <1>6, <1>7

(* fct_orders, built anew, is what had landed.                             *)
LEMMA RebuildKeeps ==
    ASSUME OrdersInv, NEW t \in Times, RebuildFct(t)
    PROVE  OrdersTypeOK' /\ FctLanded' /\ FctComplete'
BY DEF OrdersInv, OrdersTypeOK, RebuildFct, FctLanded, FctComplete, Staged, evolvingVars

(* fct_orders_evolving: what lies beyond a table's ids is not in it yet.   *)
LEMMA AppendKeeps ==
    ASSUME OrdersInv, NEW t \in Times, NEW add_tax \in BOOLEAN, AppendEvolving(t, add_tax)
    PROVE  OrdersTypeOK' /\ EvolvingLanded' /\ EvolvingOnce'
<1> USE OrdersAssumption DEF OrdersInv, OrdersTypeOK
<1> DEFINE new == {i \in Staged(t) : Beyond(i, Loaded)}
<1>1. orders \in [OrderIds -> Order] /\ copies \in [OrderIds -> Nat] /\ copies # Absent
  BY DEF AppendEvolving
<1>2. \A i \in OrderIds : orders[i].loaded_at \in Nat /\ i \in Nat
  BY <1>1 DEF Order
<1>3. landed \in Nat /\ landed' = Later(landed, t) /\ landed' \in {landed, t}
      /\ landed <= landed' /\ t <= landed'
  BY LaterBounds DEF AppendEvolving
<1>4. new \subseteq OrderIds /\ new \subseteq Staged(t) /\ new \cap Loaded = {}
  <2>1. \A i \in new : i \in OrderIds /\ \A j \in Loaded : i > j
    BY DEF Staged, Beyond
  <2>2. ASSUME NEW i \in new, i \in Loaded PROVE FALSE
    <3>1. i > i /\ i \in Nat
      BY <1>2, <2>1, <2>2
    <3> QED BY <3>1
  <2> QED BY <2>2 DEF Staged
<1>5. copies' = [i \in OrderIds |-> IF i \in new THEN copies[i] + 1 ELSE copies[i]]
  BY DEF AppendEvolving
<1>6. orders' = orders /\ Loaded' = Loaded \cup new
  <2>1. orders' = orders
    BY DEF AppendEvolving
  <2>2. copies' \in [OrderIds -> Nat]
    BY <1>1, <1>5
  <2>3. \A i \in OrderIds : copies'[i] > 0 <=> copies[i] > 0 \/ i \in new
    BY <1>1, <1>4, <1>5
  <2> HIDE DEF new
  <2> QED BY <1>4, <2>1, <2>3 DEF Loaded
<1>7. OrdersTypeOK'
  <2>1. copies' \in [OrderIds -> Nat]
    BY <1>1, <1>5
  <2>2. taxed' \in (SUBSET OrderIds) \cup {Absent}
    BY <1>4 DEF AppendEvolving
  <2> QED BY <1>3, <1>6, <2>1, <2>2 DEF AppendEvolving, fctVars
<1> HIDE DEF new
<1>8. \A i \in Loaded' : i \in OrderIds /\ orders[i].loaded_at <= landed'
  <2>1. \A i \in Loaded' : i \in OrderIds /\ (i \in Staged(landed) \/ i \in Staged(t))
    BY <1>1, <1>4, <1>6 DEF EvolvingLanded, Loaded
  <2>2. ASSUME NEW i \in Loaded' PROVE orders[i].loaded_at <= landed'
    <3>1. orders[i].loaded_at \in Nat
          /\ (orders[i].loaded_at <= landed \/ orders[i].loaded_at <= t)
      BY <1>2, <2>1 DEF Staged
    <3> QED BY <1>3, <3>1
  <2> QED BY <2>1, <2>2
<1>9. EvolvingLanded'
  BY <1>6, <1>8 DEF EvolvingLanded, Staged, AppendEvolving
<1>10. ASSUME NEW i \in OrderIds PROVE copies'[i] <= 1
  <2>1. copies[i] <= 1 /\ copies[i] \in Nat
    BY <1>1 DEF MartsComplete, EvolvingOnce
  <2>2. i \in new => copies[i] = 0
    BY <1>4, <2>1 DEF Loaded
  <2> QED BY <1>5, <2>1, <2>2
<1>11. ASSUME Loaded' # {}, InOrder' PROVE Loaded' = Staged(landed)'
  <2>1. Loaded # {} /\ InOrder
    BY <1>6, <1>11 DEF new, Beyond, InOrder
  <2>2. Loaded = Staged(landed)
    BY <1>1, <2>1 DEF MartsComplete, EvolvingOnce
  <2>3. ASSUME NEW i \in OrderIds, orders[i].loaded_at <= landed' PROVE i \in Loaded'
    <3>1. CASE orders[i].loaded_at <= landed
      BY <1>6, <2>2, <3>1 DEF Staged
    <3>2. CASE ~(orders[i].loaded_at <= landed)
      <4>1. i \in Staged(t)
        BY <1>2, <1>3, <2>3, <3>2 DEF Staged
      <4>2. ASSUME NEW j \in Loaded PROVE i > j
        <5>1. j \in OrderIds /\ orders[j].loaded_at <= landed
          BY <2>2 DEF Staged
        <5>2. ~(i < j) /\ i # j
          BY <1>2, <1>3, <2>1, <3>2, <5>1 DEF InOrder
        <5> QED BY <1>2, <5>1, <5>2
      <4> QED BY <1>6, <2>1, <4>1, <4>2 DEF new, Beyond
    <3> QED BY <3>1, <3>2
  <2> QED BY <1>6, <1>8, <2>3 DEF Staged
<1> QED BY <1>7, <1>9, <1>10, <1>11 DEF EvolvingOnce

LEMMA RebuildEvolvingKeeps ==
    ASSUME OrdersInv, NEW t \in Times, NEW add_tax \in BOOLEAN, RebuildEvolving(t, add_tax)
    PROVE  OrdersTypeOK' /\ EvolvingLanded' /\ EvolvingOnce'
<1> USE DEF OrdersInv, OrdersTypeOK, RebuildEvolving
<1>1. copies' \in [OrderIds -> Nat] /\ orders' = orders /\ orders # Absent
  OBVIOUS
<1>2. taxed' \in (SUBSET OrderIds) \cup {Absent}
  BY DEF Staged
<1>3. OrdersTypeOK'
  BY <1>1, <1>2 DEF fctVars
<1>4. Loaded' = Staged(t) /\ Staged(landed)' = Staged(t)
  BY DEF Loaded, Staged
<1>5. \A i \in OrderIds : copies'[i] <= 1
  OBVIOUS
<1> QED BY <1>1, <1>3, <1>4, <1>5 DEF EvolvingLanded, EvolvingOnce

LEMMA OrdersStep == OrdersInv /\ [OrdersNext]_ordersVars => OrdersInv'
<1> SUFFICES ASSUME OrdersInv, [OrdersNext]_ordersVars PROVE OrdersInv'
  OBVIOUS
<1>1. CASE Seed
  <2>1. fct = Absent /\ copies = Absent
    BY <1>1 DEF OrdersInv, FctLanded, EvolvingLanded, Seed
  <2> QED BY <1>1, <2>1 DEF OrdersInv, OrdersTypeOK, FctLanded, EvolvingLanded, MartsComplete,
                            FctComplete, EvolvingOnce, Seed, fctVars, evolvingVars
<1>2. ASSUME OrdersTypeOK' /\ FctLanded' /\ FctComplete', UNCHANGED <<orders, evolvingVars>>
      PROVE  OrdersInv'
  BY <1>2 DEF OrdersInv, EvolvingLanded, MartsComplete, EvolvingOnce, evolvingVars, Loaded, Staged,
              InOrder
<1>3. ASSUME OrdersTypeOK' /\ EvolvingLanded' /\ EvolvingOnce', UNCHANGED <<orders, fctVars>>
      PROVE  OrdersInv'
  BY <1>3 DEF OrdersInv, FctLanded, MartsComplete, FctComplete, Punctual, fctVars, Staged
<1>4. CASE RunFct
  <2>1. PICK t \in Times : RebuildFct(t) \/ \E h \in Lookbacks : MergeFct(t, h)
    BY <1>4 DEF RunFct
  <2>2. CASE RebuildFct(t)
    BY <1>2, <2>2, RebuildKeeps DEF RebuildFct
  <2>3. ASSUME NEW h \in Lookbacks, MergeFct(t, h) PROVE OrdersInv'
    BY <1>2, <2>3, MergeKeeps DEF MergeFct
  <2> QED BY <2>1, <2>2, <2>3
<1>5. CASE RunEvolving
  <2>1. PICK t \in Times, add_tax \in BOOLEAN :
            RebuildEvolving(t, add_tax) \/ AppendEvolving(t, add_tax)
    BY <1>5 DEF RunEvolving
  <2>2. CASE RebuildEvolving(t, add_tax)
    BY <1>3, <2>2, RebuildEvolvingKeeps DEF RebuildEvolving
  <2>3. CASE AppendEvolving(t, add_tax)
    BY <1>3, <2>3, AppendKeeps DEF AppendEvolving
  <2> QED BY <2>1, <2>2, <2>3
<1>6. CASE UNCHANGED ordersVars
  BY <1>6 DEF OrdersInv, OrdersTypeOK, FctLanded, EvolvingLanded, MartsComplete, FctComplete,
              EvolvingOnce, Punctual, InOrder, Loaded, Staged, ordersVars, fctVars, evolvingVars
<1> QED BY <1>1, <1>4, <1>5, <1>6 DEF OrdersNext

(* fct_orders and fct_orders_evolving hold, each under its condition, just *)
(* what had landed, and the latter nothing twice.                          *)
THEOREM MartsAreComplete == OrdersSpec => []MartsComplete
<1>1. OrdersInv => MartsComplete
  BY DEF OrdersInv
<1> QED BY <1>1, OrdersInitially, OrdersStep, PTL DEF OrdersSpec

-----------------------------------------------------------------------------
(* THE QUALITY SPLIT.  No row both passes and fails, so the reconcile      *)
(* test's count is that of the rows that do either; a row without a NULL   *)
(* does one of them.                                                       *)
SplitTypeOK ==
    /\ raw \in [RawIds -> Values] \cup {NoRows}
    /\ verdict \in {"pass", "fail", "none"}

CleanIs == cleanOf # NoRows => clean = {i \in RawIds : Passes(cleanOf[i])}
QuarantineIs ==
    quarantineOf # NoRows => DOMAIN quarantine = {i \in RawIds : Fails(quarantineOf[i])}
VerdictIs ==
    verdict # "none" =>
        /\ raw # NoRows
        /\ verdict = "pass" <=>
               Cardinality(RawIds) = Cardinality(clean) + Cardinality(DOMAIN quarantine)

SplitInv == SplitTypeOK /\ CleanIs /\ QuarantineIs /\ VerdictIs

LEMMA NeverBoth == ASSUME NEW r \in Row PROVE ~(Passes(r) /\ Fails(r))
<1>1. r.amount \in Int \/ r.amount = Null
  BY DEF Row
<1> QED BY <1>1 DEF Passes, Fails, Positive, NotPositive, Holds

LEMMA OneIfKnown == ASSUME NEW r \in Row, Known(r) PROVE Passes(r) \/ Fails(r)
<1>1. r.amount \in Int /\ r.status \in BOOLEAN /\ r.customer \in BOOLEAN
      /\ r.amount # Null /\ r.status # Null /\ r.customer # Null
  BY DEF Row, Known
<1>2. r.amount > 0 \/ r.amount <= 0
  BY <1>1
<1>3. (r.status = TRUE \/ r.status = FALSE) /\ (r.customer = TRUE \/ r.customer = FALSE)
  BY <1>1
<1> QED BY <1>1, <1>2, <1>3 DEF Passes, Fails, Positive, NotPositive, Holds

(* Two disjoint parts count as much as the whole exactly if they cover it. *)
LEMMA CountCovers ==
    ASSUME NEW R, IsFiniteSet(R), NEW C \in SUBSET R, NEW Q \in SUBSET R, C \cap Q = {}
    PROVE  Cardinality(R) = Cardinality(C) + Cardinality(Q) <=> R \subseteq C \cup Q
<1>1. IsFiniteSet(C) /\ IsFiniteSet(Q) /\ IsFiniteSet(C \cup Q)
  BY FS_Subset, FS_Union
<1>2. Cardinality(C \cap Q) = 0
  BY FS_EmptySet
<1>3. Cardinality(C) \in Nat /\ Cardinality(Q) \in Nat /\ Cardinality(R) \in Nat
      /\ Cardinality(C \cup Q) \in Nat
  BY <1>1, FS_CardinalityType
<1>4. Cardinality(C \cup Q) = Cardinality(C) + Cardinality(Q)
  <2>1. Cardinality(C \cup Q) = Cardinality(C) + Cardinality(Q) - Cardinality(C \cap Q)
    BY <1>1, FS_Union
  <2> QED BY <1>2, <1>3, <2>1
<1>5. C \cup Q \subseteq R
  OBVIOUS
<1>6. Cardinality(C \cup Q) = Cardinality(R) => C \cup Q = R
  BY <1>5, FS_Subset
<1>7. R \subseteq C \cup Q => C \cup Q = R
  BY <1>5
<1> QED BY <1>3, <1>4, <1>6, <1>7

LEMMA SplitInitially == SplitInit => SplitInv
BY DEF SplitInit, SplitInv, SplitTypeOK, CleanIs, QuarantineIs, VerdictIs

LEMMA SplitStep == SplitInv /\ [SplitNext]_splitVars => SplitInv'
<1> SUFFICES ASSUME SplitInv, [SplitNext]_splitVars PROVE SplitInv'
  OBVIOUS
<1> USE DEF SplitInv, SplitTypeOK, CleanIs, QuarantineIs, VerdictIs
<1>1. CASE SeedRaw
  BY <1>1 DEF SeedRaw
<1>2. CASE BuildClean
  BY <1>2 DEF BuildClean
<1>3. CASE BuildQuarantine
  BY <1>3 DEF BuildQuarantine
<1>4. CASE Reconcile
  BY <1>4 DEF Reconcile
<1>5. CASE UNCHANGED splitVars
  BY <1>5 DEF splitVars
<1> QED BY <1>1, <1>2, <1>3, <1>4, <1>5 DEF SplitNext

LEMMA CountTells == SplitInv => SplitReconciles
<1> SUFFICES ASSUME SplitInv, verdict # "none", cleanOf = raw, quarantineOf = raw
             PROVE  /\ verdict = "pass" <=> \A i \in RawIds : Placed(i)
                    /\ (\A i \in RawIds : Known(raw[i])) => verdict = "pass"
  BY DEF SplitReconciles
<1> DEFINE Q == DOMAIN quarantine
<1>1. raw \in [RawIds -> Row] /\ raw # NoRows
  BY SplitAssumption DEF SplitInv, SplitTypeOK, VerdictIs
<1>2. clean = {i \in RawIds : Passes(raw[i])} /\ Q = {i \in RawIds : Fails(raw[i])}
  BY <1>1 DEF SplitInv, CleanIs, QuarantineIs
<1>3. clean \cap Q = {}
  BY <1>1, <1>2, NeverBoth
<1>4. verdict = "pass" <=> RawIds \subseteq clean \cup Q
  <2>1. verdict = "pass" <=> Cardinality(RawIds) = Cardinality(clean) + Cardinality(Q)
    BY DEF SplitInv, VerdictIs
  <2>2. IsFiniteSet(RawIds) /\ clean \in SUBSET RawIds /\ Q \in SUBSET RawIds
    BY <1>2, SplitAssumption
  <2> HIDE DEF Q
  <2> QED BY <1>3, <2>1, <2>2, CountCovers
<1>5. \A i \in RawIds : Placed(i) <=> i \in clean \cup Q
  BY <1>3 DEF Placed
<1>6. ASSUME \A i \in RawIds : Known(raw[i]) PROVE RawIds \subseteq clean \cup Q
  BY <1>1, <1>2, <1>6, OneIfKnown
<1> HIDE DEF Q
<1> QED BY <1>4, <1>5, <1>6

(* The test passes exactly when every row is in one table and not in the   *)
(* other, and it passes if no row has a NULL.                              *)
THEOREM ReconcileIsSound == SplitSpec => []SplitReconciles
BY SplitInitially, SplitStep, CountTells, PTL DEF SplitSpec

-----------------------------------------------------------------------------
(* THE SNAPSHOT, for any customers and tiers and any number of changes     *)
(* between any number of runs.                                             *)
(* The span of a version lies in the runs there were.                      *)
Dated(v) ==
    /\ v.valid_from \in 1 .. Len(seen)
    /\ v.valid_to # Open => v.valid_from < v.valid_to /\ v.valid_to <= Len(seen)

(* No two versions of a customer share a time, and there is one of the     *)
(* tier that was seen.                                                     *)
OneAt(c, t)  == \A v, w \in versions : ValidAt(v, c, t) /\ ValidAt(w, c, t) => v = w
SeenAt(c, t) ==
    seen[t][c] # Gone => \E v \in versions : ValidAt(v, c, t) /\ v.tier = seen[t][c]

SnapshotInv ==
    /\ SnapshotTypeOK
    /\ \A v \in versions : Dated(v)
    /\ \A c \in Customers, t \in 1 .. Len(seen) : OneAt(c, t) /\ SeenAt(c, t)

LEMMA OneCurrent ==
    ASSUME SnapshotInv, NEW v \in versions, NEW w \in versions,
           Current(v), Current(w), v.customer = w.customer
    PROVE  v = w
<1>1. v.customer \in Customers /\ v.valid_from \in 1 .. Len(seen) /\ w.valid_from \in 1 .. Len(seen)
  BY DEF SnapshotInv, SnapshotTypeOK, Dated
<1>2. Len(seen) \in Nat
  BY DEF SnapshotInv, SnapshotTypeOK
<1>3. Len(seen) \in 1 .. Len(seen) /\ v.valid_from <= Len(seen) /\ w.valid_from <= Len(seen)
  BY <1>1, <1>2
<1>4. ValidAt(v, v.customer, Len(seen)) /\ ValidAt(w, v.customer, Len(seen))
  BY <1>3 DEF ValidAt, Current
<1> QED BY <1>1, <1>3, <1>4 DEF SnapshotInv, OneAt

LEMMA SnapshotInvExact == SnapshotInv => AsOfExact
<1> SUFFICES ASSUME SnapshotInv PROVE AsOfExact
  OBVIOUS
<1>1. ASSUME NEW t \in 1 .. Len(seen), NEW c \in Customers, seen[t][c] # Gone
      PROVE  \E v \in versions : /\ ValidAt(v, c, t) /\ v.tier = seen[t][c]
                                 /\ \A w \in versions : ValidAt(w, c, t) => w = v
  <2>1. PICK v \in versions : ValidAt(v, c, t) /\ v.tier = seen[t][c]
    BY <1>1 DEF SnapshotInv, SeenAt
  <2>2. \A w \in versions : ValidAt(w, c, t) => w = v
    BY <2>1 DEF SnapshotInv, OneAt
  <2> QED BY <2>1, <2>2
<1> QED BY <1>1, OneCurrent DEF AsOfExact

-----------------------------------------------------------------------------
LEMMA SnapshotInitially == SnapshotInit => SnapshotInv
<1> SUFFICES ASSUME SnapshotInit PROVE SnapshotInv
  OBVIOUS
<1>1. SnapshotTypeOK
  <2>1. membership \in [Customers -> Tiers \cup {Gone}]
    BY DEF SnapshotInit
  <2>2. seen \in Seq([Customers -> Tiers \cup {Gone}])
    BY DEF SnapshotInit
  <2> QED BY <2>1, <2>2 DEF SnapshotInit, SnapshotTypeOK
<1>2. versions = {} /\ 1 .. Len(seen) = {}
  BY DEF SnapshotInit
<1> QED BY <1>1, <1>2 DEF SnapshotInv

LEMMA SnapshotSame ==
    ASSUME SnapshotInv, UNCHANGED <<versions, seen>>, SnapshotTypeOK'
    PROVE  SnapshotInv'
BY DEF SnapshotInv, Dated, OneAt, SeenAt, ValidAt

LEMMA SourceType == SnapshotTypeOK => Source \in [Customers -> Tiers \cup {Gone}]
BY SnapshotAssumption DEF SnapshotTypeOK, Source

(* What a run of the snapshot makes of a version.                          *)
LEMMA ClosedIs ==
    ASSUME SnapshotTypeOK, NEW v \in Outdated
    PROVE  Closed(v) = [customer |-> v.customer, tier |-> v.tier,
                        valid_from |-> v.valid_from, valid_to |-> Now]
BY DEF Closed, Outdated, SnapshotTypeOK

LEMMA SnapshotType == ASSUME SnapshotInv, Snapshot PROVE SnapshotTypeOK'
<1> USE DEF SnapshotInv, SnapshotTypeOK
<1>1. Source \in [Customers -> Tiers \cup {Gone}]
  BY SourceType
<1>2. Now \in Nat
  BY DEF Now
<1> DEFINE V == [customer : Customers, tier : Tiers, valid_from : Nat, valid_to : Nat \cup {Open}]
<1>3. ASSUME NEW v \in Outdated PROVE Closed(v) \in V
  <2>1. v \in V
    BY DEF Outdated
  <2> QED BY <1>2, <2>1, ClosedIs
<1>4. ASSUME NEW c \in Customers, Source[c] # Gone PROVE Version(c) \in V
  <2>1. Source[c] \in Tiers
    BY <1>1, <1>4
  <2> QED BY <1>2, <2>1 DEF Version
<1>5. \A c \in Unknown : c \in Customers /\ Source[c] # Gone
  BY DEF Unknown
<1>6. \A v \in Outdated : v.customer \in Customers /\ Source[v.customer] # Gone
  BY DEF Outdated
<1>7. versions' \subseteq V
  <2> HIDE DEF V
  <2>1. versions \subseteq V
    BY DEF V
  <2> QED BY <1>3, <1>4, <1>5, <1>6, <2>1 DEF Snapshot
<1>8. seen' \in Seq([Customers -> Tiers \cup {Gone}])
  BY <1>1 DEF Snapshot
<1> QED BY <1>7, <1>8 DEF Snapshot

-----------------------------------------------------------------------------
(* A version after the run is one that was kept, one that was closed or a  *)
(* new one, and new ones are of customers with no version that is kept and *)
(* current.                                                                *)
Kept == versions \ Outdated
Opened == Unknown \cup {v.customer : v \in Outdated}

LEMMA After ==
    ASSUME Snapshot
    PROVE  versions' = Kept \cup {Closed(v) : v \in Outdated} \cup {Version(c) : c \in Opened}
BY DEF Snapshot, Kept, Opened

LEMMA NowIsLast ==
    ASSUME SnapshotInv, Snapshot
    PROVE  /\ Now \in Nat \ {0} /\ Len(seen) = Now - 1 /\ Len(seen') = Now
           /\ seen'[Now] = Source /\ \A t \in 1 .. Len(seen) : seen'[t] = seen[t]
<1>1. seen \in Seq([Customers -> Tiers \cup {Gone}]) /\ Source \in [Customers -> Tiers \cup {Gone}]
  BY SourceType DEF SnapshotInv, SnapshotTypeOK
<1>2. seen' = Append(seen, Source)
  BY DEF Snapshot
<1> QED BY <1>1, <1>2 DEF Now

LEMMA OpenedNotKept ==
    ASSUME SnapshotInv, NEW v \in Kept, Current(v) PROVE v.customer \notin Opened
<1>1. v \in versions /\ v \notin Outdated
  BY DEF Kept
<1>2. v.customer \notin Unknown
  BY <1>1 DEF Unknown
<1>3. ASSUME NEW w \in Outdated, w.customer = v.customer PROVE FALSE
  <2>1. w \in versions /\ Current(w)
    BY DEF Outdated
  <2> QED BY <1>1, <1>3, <2>1, OneCurrent
<1> QED BY <1>2, <1>3 DEF Opened

(* Before the run's time, a closed version counts as it did; at it, only   *)
(* those that stay current and the new ones count.                         *)
LEMMA ClosedThen ==
    ASSUME SnapshotInv, Snapshot, NEW v \in Outdated, NEW c \in Customers, NEW t \in 1 .. Len(seen)
    PROVE  ValidAt(Closed(v), c, t) <=> ValidAt(v, c, t)
<1>1. t < Now
  BY NowIsLast
<1>2. v.valid_to = Open /\ SnapshotTypeOK
  BY DEF SnapshotInv, Outdated, Current
<1> QED BY <1>1, <1>2, ClosedIs DEF ValidAt

LEMMA NewThen ==
    ASSUME SnapshotInv, Snapshot, NEW d \in Opened, NEW c \in Customers, NEW t \in 1 .. Len(seen)
    PROVE  ~ValidAt(Version(d), c, t)
BY NowIsLast DEF ValidAt, Version

LEMMA ClosedNow ==
    ASSUME SnapshotInv, Snapshot, NEW v \in Outdated, NEW c \in Customers
    PROVE  ~ValidAt(Closed(v), c, Now)
<1>1. Closed(v).valid_to = Now
  BY ClosedIs DEF SnapshotInv
<1>2. Now \in Nat /\ Now # Open
  BY NowIsLast, SnapshotAssumption
<1> QED BY <1>1, <1>2 DEF ValidAt

LEMMA KeptNow ==
    ASSUME SnapshotInv, Snapshot, NEW v \in Kept, NEW c \in Customers
    PROVE  ValidAt(v, c, Now) <=> v.customer = c /\ Current(v)
<1>1. v \in versions /\ Dated(v)
  BY DEF SnapshotInv, Kept
<1>2. v.valid_from \in Nat /\ v.valid_to \in Nat \cup {Open}
  BY <1>1 DEF SnapshotInv, SnapshotTypeOK
<1>3. v.valid_from <= Now
  BY <1>1, <1>2, NowIsLast DEF Dated
<1>4. CASE Current(v)
  BY <1>3, <1>4 DEF ValidAt, Current
<1>5. CASE ~Current(v)
  <2>1. v.valid_to \in Nat /\ v.valid_to <= Len(seen)
    BY <1>1, <1>2, <1>5 DEF Dated, Current
  <2>2. ~(Now < v.valid_to)
    BY <2>1, NowIsLast
  <2> QED BY <1>5, <2>2 DEF ValidAt, Current
<1> QED BY <1>4, <1>5

LEMMA NewNow ==
    ASSUME SnapshotInv, Snapshot, NEW d \in Opened, NEW c \in Customers
    PROVE  ValidAt(Version(d), c, Now) <=> d = c
BY NowIsLast DEF ValidAt, Version, Current

LEMMA DatedAfter == ASSUME SnapshotInv, Snapshot, NEW v \in versions' PROVE Dated(v)'
<1>1. CASE v \in Kept
  <2>1. Dated(v) /\ v.valid_from \in Nat /\ v.valid_to \in Nat \cup {Open}
    BY <1>1 DEF SnapshotInv, Kept, SnapshotTypeOK
  <2> QED BY <2>1, NowIsLast DEF Dated
<1>2. ASSUME NEW u \in Outdated, v = Closed(u) PROVE Dated(v)'
  <2>1. Dated(u) /\ u.valid_from \in Nat
    BY DEF SnapshotInv, Outdated, SnapshotTypeOK
  <2>2. v.valid_from = u.valid_from /\ v.valid_to = Now
    BY <1>2, ClosedIs DEF SnapshotInv
  <2> QED BY <2>1, <2>2, NowIsLast DEF Dated
<1>3. ASSUME NEW c \in Opened, v = Version(c) PROVE Dated(v)'
  BY <1>3, NowIsLast DEF Dated, Version
<1> QED BY <1>1, <1>2, <1>3, After

LEMMA OneAtAfter ==
    ASSUME SnapshotInv, Snapshot, NEW c \in Customers, NEW t \in 1 .. Len(seen') PROVE OneAt(c, t)'
<1> SUFFICES ASSUME NEW v \in versions', NEW w \in versions', ValidAt(v, c, t), ValidAt(w, c, t)
             PROVE  v = w
  BY DEF OneAt, ValidAt
<1>1. t \in 1 .. Len(seen) \/ t = Now
  BY NowIsLast
<1>2. CASE t \in 1 .. Len(seen)
  <2>1. \A x \in versions' : ValidAt(x, c, t) =>
            \E u \in versions : ValidAt(u, c, t) /\ x = IF u \in Outdated THEN Closed(u) ELSE u
    BY <1>2, After, ClosedThen, NewThen DEF Kept, Outdated
  <2>2. PICK u \in versions : ValidAt(u, c, t) /\ v = IF u \in Outdated THEN Closed(u) ELSE u
    BY <2>1
  <2>3. PICK x \in versions : ValidAt(x, c, t) /\ w = IF x \in Outdated THEN Closed(x) ELSE x
    BY <2>1
  <2>4. u = x
    BY <1>2, <2>2, <2>3 DEF SnapshotInv, OneAt
  <2> QED BY <2>2, <2>3, <2>4
<1>3. CASE t = Now
  <2>1. \A x \in versions' : ValidAt(x, c, Now) =>
            \/ x \in Kept /\ Current(x) /\ x.customer = c
            \/ c \in Opened /\ x = Version(c)
    BY After, ClosedNow, KeptNow, NewNow
  <2>2. \A x, y \in Kept : Current(x) /\ Current(y) /\ x.customer = y.customer => x = y
    BY OneCurrent DEF Kept
  <2> QED BY <1>3, <2>1, <2>2, OpenedNotKept
<1> QED BY <1>1, <1>2, <1>3

LEMMA SeenAtAfter ==
    ASSUME SnapshotInv, Snapshot, NEW c \in Customers, NEW t \in 1 .. Len(seen') PROVE SeenAt(c, t)'
<1> SUFFICES ASSUME seen'[t][c] # Gone
             PROVE  \E v \in versions' : ValidAt(v, c, t) /\ v.tier = seen'[t][c]
  BY DEF SeenAt, ValidAt
<1>1. t \in 1 .. Len(seen) \/ t = Now
  BY NowIsLast
<1>2. CASE t \in 1 .. Len(seen)
  <2>1. PICK u \in versions : ValidAt(u, c, t) /\ u.tier = seen'[t][c]
    BY <1>2, NowIsLast DEF SnapshotInv, SeenAt
  <2>2. CASE u \in Outdated
    <3>1. Closed(u) \in versions' /\ Closed(u).tier = u.tier
      BY <2>2, After, ClosedIs DEF SnapshotInv
    <3> QED BY <1>2, <2>1, <2>2, <3>1, ClosedThen
  <2>3. CASE u \notin Outdated
    BY <2>1, <2>3, After DEF Kept
  <2> QED BY <2>2, <2>3
<1>3. CASE t = Now
  <2>1. seen'[t][c] = Source[c] /\ Source[c] # Gone
    BY <1>3, NowIsLast
  <2>2. CASE c \in Opened
    <3>1. Version(c) \in versions' /\ Version(c).tier = Source[c]
      BY <2>2, After DEF Version
    <3> QED BY <1>3, <2>1, <2>2, <3>1, NewNow
  <2>3. CASE c \notin Opened
    <3>1. PICK v \in versions : v.customer = c /\ Current(v)
      BY <2>1, <2>3 DEF Opened, Unknown
    <3>2. v \notin Outdated
      BY <2>3, <3>1 DEF Opened
    <3>3. v \in Kept /\ v \in versions' /\ v.tier = Source[c]
      BY <2>1, <3>1, <3>2, After DEF Kept, Outdated
    <3> QED BY <1>3, <2>1, <3>1, <3>3, KeptNow
  <2> QED BY <2>2, <2>3
<1> QED BY <1>1, <1>2, <1>3

LEMMA SnapshotStep == SnapshotInv /\ [SnapshotNext]_snapshotVars => SnapshotInv'
<1> SUFFICES ASSUME SnapshotInv, [SnapshotNext]_snapshotVars PROVE SnapshotInv'
  OBVIOUS
<1>1. CASE SeedCustomers
  <2>1. SnapshotTypeOK'
    BY <1>1 DEF SnapshotInv, SnapshotTypeOK, SeedCustomers
  <2> QED BY <1>1, <2>1, SnapshotSame DEF SeedCustomers
<1>2. CASE RunView
  <2>1. SnapshotTypeOK'
    BY <1>2 DEF SnapshotInv, SnapshotTypeOK, RunView
  <2> QED BY <1>2, <2>1, SnapshotSame DEF RunView
<1>3. CASE Snapshot
  BY <1>3, SnapshotType, DatedAfter, OneAtAfter, SeenAtAfter DEF SnapshotInv
<1>4. CASE UNCHANGED snapshotVars
  <2>1. SnapshotTypeOK'
    BY <1>4 DEF SnapshotInv, SnapshotTypeOK, snapshotVars
  <2> QED BY <1>4, <2>1, SnapshotSame DEF snapshotVars
<1> QED BY <1>1, <1>2, <1>3, <1>4 DEF SnapshotNext

(* The as-of query is exact, and nobody has two current versions.          *)
THEOREM AsOfIsExact == SnapshotSpec => []AsOfExact
BY SnapshotInitially, SnapshotStep, SnapshotInvExact, PTL DEF SnapshotSpec

-----------------------------------------------------------------------------
(* THE DAILY PARTITIONS.  A re-run replaces its interval's file because an *)
(* attempt empties it first: what it has written so far is the beginning   *)
(* of its own rows.                                                        *)
Begun ==
    \A d \in Intervals : run[d] = "running" =>
        /\ Len(file[d]) = Lines - left[d]
        /\ \A i \in 1 .. Lines - left[d] : file[d][i] = seed[d]

PartitionInv == PartitionTypeOK /\ Begun /\ PartitionWhole

LEMMA LinesBound == Lines \in {2, 3}
  BY DEF Lines

LEMMA PartitionInitially == PartitionInit => PartitionInv
  <1> SUFFICES ASSUME PartitionInit PROVE PartitionInv
    OBVIOUS
  <1> USE PartitionAssumption, LinesBound DEF PartitionInit, Intervals
  <1>1. PartitionTypeOK
    <2>1. seed \in [Intervals -> Seeds]
      OBVIOUS
    <2>2. /\ left \in [Intervals -> 0 .. Lines]
          /\ run \in [Intervals -> {"none", "running", "success", "failed"}]
      OBVIOUS
    <2>3. \A d \in Intervals : run[d] = "none" /\ file[d] = <<>>
      OBVIOUS
    <2>4. file \in [Intervals -> Seq(Seeds)]
      OBVIOUS
    <2> QED
      BY <2>1, <2>2, <2>3, <2>4 DEF PartitionTypeOK
  <1> QED
    BY <1>1 DEF PartitionInv, Begun, PartitionWhole

LEMMA PartitionStep == PartitionInv /\ [PartitionNext]_partitionVars => PartitionInv'
  <1> SUFFICES ASSUME PartitionInv, [PartitionNext]_partitionVars PROVE PartitionInv'
    OBVIOUS
  <1> USE PartitionAssumption, LinesBound
  <1> USE DEF PartitionInv
  <1>1. CASE UNCHANGED partitionVars
    BY <1>1
       DEF partitionVars, PartitionTypeOK, Begun, PartitionWhole, Intervals, Lines,
           RowsForInterval
  <1>2. CASE Midnight
    <2>1. PartitionTypeOK'
      <3>1. \A d \in Intervals : d >= today' => run[d] = "none" /\ file[d] = <<>>
        BY <1>2 DEF Midnight, PartitionTypeOK, Intervals
      <3>2. today' \in 0 .. MaxDay
        BY <1>2 DEF Midnight, PartitionTypeOK
      <3> QED
        BY <1>2, <3>1, <3>2 DEF Midnight, PartitionTypeOK, Lines
    <2> QED
      BY <1>2, <2>1 DEF Midnight, Begun, PartitionWhole, Intervals, Lines, RowsForInterval
  <1>3. CASE TogglePause
    <2>1. PartitionTypeOK'
      BY <1>3 DEF TogglePause, PartitionTypeOK, Intervals, Lines
    <2> QED
      BY <1>3, <2>1 DEF TogglePause, Begun, PartitionWhole, Intervals, Lines, RowsForInterval
  <1>4. ASSUME NEW d \in Intervals, NEW s \in Seeds, OpenFile(d, s), d < today,
               UNCHANGED <<dag, today, paused, pauses>>, reruns' \in 0 .. MaxReruns
        PROVE  PartitionInv'
    <2>1. Lines' = Lines
      BY <1>4 DEF Lines
    <2>2. PartitionTypeOK'
      <3>1. file' \in [Intervals -> Seq(Seeds)]
        BY <1>4 DEF OpenFile, PartitionTypeOK
      <3>2. \A e \in Intervals : e >= today' => run'[e] = "none" /\ file'[e] = <<>>
        BY <1>4 DEF OpenFile, PartitionTypeOK, Intervals
      <3>3. /\ run' \in [Intervals -> {"none", "running", "success", "failed"}]
            /\ seed' \in [Intervals -> Seeds] /\ left' \in [Intervals -> 0 .. Lines]
        BY <1>4 DEF OpenFile, PartitionTypeOK
      <3> QED
        BY <1>4, <2>1, <3>1, <3>2, <3>3 DEF PartitionTypeOK
    <2>3. \A e \in Intervals : /\ e # d => /\ run'[e] = run[e] /\ file'[e] = file[e]
                                           /\ seed'[e] = seed[e] /\ left'[e] = left[e]
                               /\ e = d => /\ run'[e] = "running" /\ file'[e] = <<>>
                                           /\ left'[e] = Lines
      BY <1>4 DEF OpenFile, PartitionTypeOK
    <2>4. Begun'
      <3>1. Len(file'[d]) = Lines - left'[d] /\ 1 .. Lines - left'[d] = {}
        BY <2>3
      <3> QED
        BY <2>1, <2>3, <3>1 DEF Begun
    <2>5. PartitionWhole'
      <3>1. \A e \in Intervals : run'[e] = "success" =>
                run[e] = "success" /\ file'[e] = file[e] /\ seed'[e] = seed[e]
        BY <2>3
      <3>2. \A e \in Intervals : run'[e] = "success" => file'[e] = [i \in 1 .. Lines |-> seed'[e]]
        <4> TAKE e \in Intervals
        <4> HAVE run'[e] = "success"
        <4>1. file[e] = [i \in 1 .. Lines |-> seed[e]]
          BY <3>1 DEF PartitionWhole, RowsForInterval
        <4> QED
          BY <3>1, <4>1
      <3> QED
        BY <2>1, <3>2 DEF PartitionWhole, RowsForInterval
    <2> QED
      BY <2>2, <2>4, <2>5
  <1>5. ASSUME NEW d \in Intervals, CreateRun(d) PROVE PartitionInv'
    BY <1>4, <1>5 DEF CreateRun, Due, PartitionTypeOK
  <1>6. ASSUME NEW d \in Intervals, Rerun(d) PROVE PartitionInv'
    BY <1>4, <1>6 DEF Rerun, PartitionTypeOK
  <1>7. ASSUME NEW d \in Intervals, WriteRow(d) PROVE PartitionInv'
    <2>1. Lines' = Lines
      BY <1>7 DEF WriteRow, Lines
    <2>2. left[d] \in 1 .. Lines /\ seed[d] \in Seeds /\ file[d] \in Seq(Seeds) /\ d < today
      BY <1>7 DEF WriteRow, PartitionTypeOK, Intervals
    <2>3. RowsForInterval(seed[d])[Lines + 1 - left[d]] = seed[d]
      BY <2>2 DEF RowsForInterval
    <2>4. \A e \in Intervals : /\ e # d => file'[e] = file[e] /\ left'[e] = left[e]
                               /\ e = d => /\ file'[e] = Append(file[d], seed[d])
                                           /\ left'[e] = left[d] - 1
      BY <1>7, <2>3 DEF WriteRow, PartitionTypeOK
    <2>5. PartitionTypeOK'
      <3>1. file' \in [Intervals -> Seq(Seeds)]
        BY <1>7, <2>2, <2>3 DEF WriteRow, PartitionTypeOK
      <3>2. left' \in [Intervals -> 0 .. Lines]
        BY <1>7, <2>2 DEF WriteRow, PartitionTypeOK
      <3>3. \A e \in Intervals : e >= today' => run'[e] = "none" /\ file'[e] = <<>>
        BY <1>7, <2>2, <2>4 DEF WriteRow, PartitionTypeOK, Intervals
      <3> QED
        BY <1>7, <2>1, <3>1, <3>2, <3>3 DEF WriteRow, PartitionTypeOK
    <2>6. /\ Len(file'[d]) = Lines - left'[d]
          /\ \A i \in 1 .. Lines - left'[d] : file'[d][i] = seed[d]
      <3>1. Len(file[d]) = Lines - left[d] /\ \A i \in 1 .. Lines - left[d] : file[d][i] = seed[d]
        BY <1>7 DEF Begun, WriteRow
      <3>2. Len(file'[d]) = Len(file[d]) + 1 /\ left'[d] = left[d] - 1
        BY <2>2, <2>4
      <3>3. \A i \in 1 .. Len(file[d]) + 1 :
                file'[d][i] = IF i = Len(file[d]) + 1 THEN seed[d] ELSE file[d][i]
        BY <2>2, <2>4
      <3> QED
        BY <2>2, <3>1, <3>2, <3>3
    <2>7. Begun'
      <3> SUFFICES ASSUME NEW e \in Intervals, run'[e] = "running"
                   PROVE  /\ Len(file'[e]) = Lines - left'[e]
                          /\ \A i \in 1 .. Lines - left'[e] : file'[e][i] = seed[e]
        BY <1>7, <2>1 DEF Begun, WriteRow
      <3>1. CASE e = d
        BY <3>1, <2>6
      <3>2. CASE e # d
        BY <3>2, <1>7, <2>4 DEF WriteRow, Begun
      <3> QED
        BY <3>1, <3>2
    <2>8. PartitionWhole'
      <3>1. \A e \in Intervals : run'[e] = "success" =>
                run[e] = "success" /\ file'[e] = file[e] /\ seed'[e] = seed[e]
        BY <1>7, <2>4 DEF WriteRow
      <3>2. \A e \in Intervals : run'[e] = "success" => file'[e] = [i \in 1 .. Lines |-> seed'[e]]
        <4> TAKE e \in Intervals
        <4> HAVE run'[e] = "success"
        <4>1. file[e] = [i \in 1 .. Lines |-> seed[e]]
          BY <3>1 DEF PartitionWhole, RowsForInterval
        <4> QED
          BY <3>1, <4>1
      <3> QED
        BY <2>1, <3>2 DEF PartitionWhole, RowsForInterval
    <2> QED
      BY <2>5, <2>7, <2>8
  <1>8. ASSUME NEW d \in Intervals, Succeed(d) PROVE PartitionInv'
    <2>1. Lines' = Lines
      BY <1>8 DEF Succeed, Lines
    <2>2. d < today
      BY <1>8 DEF Succeed, PartitionTypeOK, Intervals
    <2>3. PartitionTypeOK'
      BY <1>8, <2>1, <2>2 DEF Succeed, PartitionTypeOK, Intervals
    <2>4. Begun'
      BY <1>8, <2>1 DEF Succeed, PartitionTypeOK, Begun
    <2>5. file[d] = RowsForInterval(seed[d])
      <3>1. /\ left[d] = 0 /\ file[d] \in Seq(Seeds) /\ Len(file[d]) = Lines
            /\ \A i \in 1 .. Lines : file[d][i] = seed[d]
        BY <1>8 DEF Succeed, Begun, PartitionTypeOK
      <3> QED
        BY <3>1 DEF RowsForInterval
    <2>6. PartitionWhole'
      BY <1>8, <2>1, <2>5 DEF Succeed, PartitionTypeOK, PartitionWhole, RowsForInterval
    <2> QED
      BY <2>3, <2>4, <2>6
  <1>9. ASSUME NEW d \in Intervals, Die(d) PROVE PartitionInv'
    <2>1. Lines' = Lines
      BY <1>9 DEF Die, Lines
    <2>2. d < today
      BY <1>9 DEF Die, PartitionTypeOK, Intervals
    <2>3. PartitionTypeOK'
      BY <1>9, <2>1, <2>2 DEF Die, PartitionTypeOK, Intervals
    <2>4. Begun' /\ PartitionWhole'
      BY <1>9, <2>1 DEF Die, PartitionTypeOK, Begun, PartitionWhole, RowsForInterval
    <2> QED
      BY <2>3, <2>4
  <1> QED
    BY <1>1, <1>2, <1>3, <1>5, <1>6, <1>7, <1>8, <1>9 DEF PartitionNext

(* A re-run replaces the partition: after any number of attempts, dead     *)
(* ones included, a successful one leaves the rows of one attempt, whole.  *)
THEOREM RerunReplacesPartition == PartitionSpec => []PartitionWhole
  <1>1. PartitionInv => PartitionWhole
    BY DEF PartitionInv
  <1> QED
    BY PartitionInitially, PartitionStep, <1>1, PTL DEF PartitionSpec

-----------------------------------------------------------------------------
(* ICEBERG'S SNAPSHOTS.  What a retained snapshot needs stays on disk, for *)
(* any files, writers, maintenance and points of failure.                  *)
(* Files being written and files about to be deleted are not those that a  *)
(* snapshot needs; this is what lets a commit take the former and an       *)
(* expiry delete the latter.                                               *)
FilesApart ==
    /\ pending \subseteq disk
    /\ pending \cap Referenced = {}
    /\ doomed \cap (Referenced \cup pending) = {}

TableInv == Readable /\ PinnedRetained /\ FilesApart

USE DEF Readable, PinnedRetained, Pinned, FilesApart, TableInv

LEMMA CurrentReferenced ==
    ASSUME PinnedRetained PROVE CurrentFiles \subseteq Referenced
  BY DEF CurrentFiles, Referenced

LEMMA ReferencedSame ==
    ASSUME UNCHANGED snapshots PROVE Referenced' = Referenced
  BY DEF Referenced

LEMMA TableInitially == Init => TableInv
  BY DEF Init, Referenced

LEMMA TableCommit == TableInv /\ Commit => TableInv'
  <1> SUFFICES ASSUME TableInv, Commit PROVE TableInv'
    OBVIOUS
  <1>1. Referenced' \subseteq Referenced \cup pending
    <2>1. \A i \in DOMAIN snapshots' : snapshots'[i] \subseteq Referenced \cup pending
      <3> TAKE i \in DOMAIN snapshots'
      <3>1. CASE i = current'
        BY <3>1, CurrentReferenced DEF Commit
      <3>2. CASE i # current'
        BY <3>2 DEF Commit, Referenced
      <3> QED
        BY <3>1, <3>2
    <2> QED
      BY <2>1 DEF Referenced
  <1>2. Readable' /\ FilesApart'
    BY <1>1 DEF Commit
  <1>3. PinnedRetained'
    BY DEF Commit
  <1> QED
    BY <1>2, <1>3

LEMMA TableExpire == TableInv /\ Expire => TableInv'
  <1> SUFFICES ASSUME TableInv, Expire PROVE TableInv'
    OBVIOUS
  <1>1. Referenced' \subseteq Referenced
    BY DEF Expire, Referenced
  <1>2. Readable' /\ FilesApart'
    BY <1>1 DEF Expire
  <1>3. PinnedRetained'
    BY DEF Expire
  <1> QED
    BY <1>2, <1>3

LEMMA TableStep == TableInv /\ [Next]_vars => TableInv'
  <1> SUFFICES ASSUME TableInv, [Next]_vars PROVE TableInv'
    OBVIOUS
  <1>1. CASE Write
    BY <1>1, ReferencedSame DEF Write
  <1>2. CASE Commit
    BY <1>2, TableCommit
  <1>3. CASE Abandon
    BY <1>3, ReferencedSame DEF Abandon
  <1>4. CASE Rollback
    BY <1>4, ReferencedSame DEF Rollback
  <1>5. CASE Tag
    BY <1>5, ReferencedSame DEF Tag
  <1>6. CASE Expire
    BY <1>6, TableExpire
  <1>7. CASE Reclaim
    BY <1>7, ReferencedSame DEF Reclaim
  <1>8. CASE RemoveOrphans
    BY <1>8, ReferencedSame DEF RemoveOrphans
  <1>9. CASE Drop
    BY <1>9 DEF Drop, Referenced
  <1>10. CASE UNCHANGED vars
    BY <1>10, ReferencedSame DEF vars
  <1> QED
    BY <1>1, <1>2, <1>3, <1>4, <1>5, <1>6, <1>7, <1>8, <1>9, <1>10 DEF Next

(* Time travel and rollback always find their files: every snapshot that   *)
(* is retained is whole on disk, and current and the tags name retained    *)
(* ones.                                                                   *)
THEOREM SnapshotsReadable == Spec => [](Readable /\ PinnedRetained)
  <1>1. TableInv => Readable /\ PinnedRetained
    OBVIOUS
  <1> QED
    BY TableInitially, TableStep, <1>1, PTL DEF Spec

(* A retained snapshot never changes, whatever maintenance runs.           *)
THEOREM SnapshotsImmutable == Spec => Immutable
  <1> DEFINE Same == \A i \in DOMAIN snapshots \cap DOMAIN snapshots' :
                         snapshots'[i] = snapshots[i]
  <1>1. [Next]_vars => [Same]_vars
    <2> SUFFICES ASSUME Next PROVE Same
      OBVIOUS
    <2>1. CASE Commit
      BY <2>1 DEF Commit
    <2>2. CASE Expire
      BY <2>2 DEF Expire
    <2>3. CASE Drop
      BY <2>3 DEF Drop
    <2>4. CASE UNCHANGED snapshots
      BY <2>4
    <2> QED
      BY <2>1, <2>2, <2>3, <2>4
         DEF Next, Write, Abandon, Rollback, Tag, Reclaim, RemoveOrphans
  <1> QED
    BY <1>1, PTL DEF Spec, Immutable
=============================================================================
