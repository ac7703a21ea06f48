---------------------------- MODULE CdcLifecycle ----------------------------
(***************************************************************************)
(* The life of a CDC demo under one connector name, run after run: clean   *)
(* up what an earlier run left, seed the table, register the connector,    *)
(* work, clean up again (common/cdc_helpers.py).  The client's calls are   *)
(* synchronous, but what they ask of Kafka Connect is not: a connector is  *)
(* STOPPED some time after it was told to stop, and its task ends, storing *)
(* a last offset and releasing its replication slot, before or after that. *)
(* The client may be interrupted before any call and start over.           *)
(*                                                                         *)
(* The module sees generations of the table, one per seeding, where        *)
(* CdcSource sees the rows of one generation.                              *)
(***************************************************************************)
EXTENDS Naturals, Sequences

CONSTANTS
    Cleanup,        \* the clean-up procedure: Teardown or Cdc4Cleanup
    MaxPolls,       \* bound: range(10) of reset_offsets
    MaxTries,       \* bound: retries of drop_slot
    MaxRuns,        \* bound: seedings
    MaxInterrupts   \* bound: times the client is interrupted

Steps == {"get", "stop", "poll", "clear", "delete", "slot", "table", "topic"}

(* teardown: reset_offsets (get to clear), delete_connector, drop_slot,    *)
(* DROP TABLE, delete_data_topic.                                          *)
DeleteFirst == <<"delete", "get", "stop", "poll", "clear",    \* mutant: the
                 "slot", "table", "topic">>                   \* reset comes later
NoReset     == <<"delete", "slot", "table", "topic">>         \* mutant

Teardown ==
    <<"get", "stop", "poll", "clear", "delete", "slot", "table", "topic">>

(* What the CDC-4 notebook does about its second connector, cdc4-unwrap.   *)
Cdc4Cleanup == <<"delete", "slot", "topic", "table">>

ASSUME LifecycleAssumption ==
    /\ Cleanup \in {Teardown, Cdc4Cleanup}
    /\ MaxPolls \in Nat /\ MaxTries \in Nat /\ MaxRuns \in Nat /\ MaxInterrupts \in Nat

VARIABLES
    at,         \* the client's next call
    tries,      \* rounds of the loop the client is in
    connector,  \* absent, or its state as the status call gives it
    task,       \* the generation the live task started with, 0 without a task
    snapped,    \* that task started with a snapshot
    offsets,    \* connect_offsets holds an offset of this name
    slot,       \* the slot exists; it is active while there is a task
    table,      \* the table's generation, 0 without a table
    topic,      \* the generations the data topic has events of
    runs,       \* seedings so far
    late,       \* auxiliary: which of reset_offsets and drop_slot, when last
                \* made, came before the task had ended
    interrupts  \* interruptions so far

client  == <<at, tries>>
connect == <<connector, task, snapped, offsets, slot>>
data    == <<table, topic, runs>>
rest    == <<late, interrupts>>
lifecycleVars == <<client, connect, data, rest>>

LifecycleTypeOK ==
    /\ at \in Steps \cup {"idle", "seed", "register", "await", "up"}
    /\ tries \in 0 .. MaxPolls + MaxTries
    /\ connector \in {"absent", "running", "stopping", "stopped"}
    /\ task \in 0 .. runs
    /\ snapped \in BOOLEAN /\ offsets \in BOOLEAN /\ slot \in BOOLEAN
    /\ (task # 0 => slot)
    /\ table \in 0 .. runs
    /\ topic \subseteq 1 .. runs
    /\ runs \in 0 .. MaxRuns
    /\ late \subseteq {"reset", "slot"}
    /\ interrupts \in 0 .. MaxInterrupts

Goto(step) == at' = step /\ tries' = 0

(* The call after a step of the procedure; the last one is followed by the *)
(* next run, if there is one.                                              *)
Done(step) ==
    LET i == CHOOSE n \in DOMAIN Cleanup : Cleanup[n] = step
    IN  IF i < Len(Cleanup) THEN Goto(Cleanup[i + 1])
        ELSE \E next \in {"idle", "seed"} : Goto(next)

Begin ==
    /\ at = "idle"
    /\ Goto(Cleanup[1])
    /\ UNCHANGED <<connect, data, rest>>

-----------------------------------------------------------------------------
(* reset_offsets.  Its result is not looked at.                            *)

(* GET /connectors/<name>: without a connector there is nothing to reset.  *)
FindConnector ==
    /\ at = "get"
    /\ IF connector = "absent" THEN Done("clear") ELSE Done("get")
    /\ UNCHANGED <<connect, data, rest>>

(* PUT /connectors/<name>/stop.                                            *)
StopConnector ==
    /\ at = "stop"
    /\ connector' = IF connector = "running" THEN "stopping" ELSE connector
    /\ Done("stop")
    /\ UNCHANGED <<task, snapped, offsets, slot, data, rest>>

(* The status of the connector, which says nothing about its task.         *)
Stopped == connector = "stopped"

PollStopped ==
    /\ at = "poll"
    /\ \/ Stopped /\ Done("poll")
       \/ ~Stopped /\ tries < MaxPolls /\ at' = at /\ tries' = tries + 1
       \/ ~Stopped /\ tries = MaxPolls /\ Done("poll")
    /\ UNCHANGED <<connect, data, rest>>

(* DELETE /connectors/<name>/offsets, refused unless STOPPED.  A task that *)
(* is still ending stores its last offset after it.                        *)
ClearOffsets ==
    /\ at = "clear"
    /\ offsets' = (offsets /\ ~Stopped)
    /\ late' = IF Stopped /\ task = 0 THEN late \ {"reset"} ELSE late \cup {"reset"}
    /\ Done("clear")
    /\ UNCHANGED <<connector, task, snapped, slot, data, interrupts>>

DeleteConnector ==
    /\ at = "delete"
    /\ connector' = "absent"
    /\ Done("delete")
    /\ UNCHANGED <<task, snapped, offsets, slot, data, rest>>

(* drop_slot: Postgres refuses to drop an active slot.  False, when the    *)
(* retries run out, is not looked at.                                      *)
DropSlotOnce ==                     \* mutant: no retry
    /\ at = "slot"
    /\ slot' = (slot /\ task # 0)
    /\ Done("slot")
    /\ UNCHANGED <<connector, task, snapped, offsets, data, rest>>

DropSlotForEver ==                  \* mutant: while True instead of for ... in range(retries)
    /\ at = "slot"
    /\ \/ task = 0 /\ slot' = FALSE /\ Done("slot")
       \/ task # 0 /\ UNCHANGED <<slot, client>>
    /\ UNCHANGED <<connector, task, snapped, offsets, data, rest>>

DropSlot ==
    /\ at = "slot"
    /\ \/ task = 0 /\ slot' = FALSE /\ Done("slot") /\ late' = late \ {"slot"}
       \/ /\ task # 0 /\ tries < MaxTries
          /\ at' = at /\ tries' = tries + 1
          /\ UNCHANGED <<slot, late>>
       \/ task # 0 /\ tries = MaxTries /\ Done("slot") /\ late' = late \cup {"slot"} /\ UNCHANGED slot
    /\ UNCHANGED <<connector, task, snapped, offsets, data, interrupts>>

DropTable ==
    /\ at = "table"
    /\ table' = 0
    /\ Done("table")
    /\ UNCHANGED <<connect, topic, runs, rest>>

DeleteDataTopic ==
    /\ at = "topic"
    /\ topic' = {}
    /\ Done("topic")
    /\ UNCHANGED <<connect, table, runs, rest>>

-----------------------------------------------------------------------------
(* A run: seed_orders, register_connector, wait_for_connector, which gives *)
(* up after its timeout, then the demo's own work.                         *)

SeedOrders ==
    /\ at = "seed" /\ runs < MaxRuns
    /\ runs' = runs + 1
    /\ table' = runs'
    /\ Goto("register")
    /\ UNCHANGED <<connect, topic, rest>>

RegisterConnector ==
    /\ at = "register"
    /\ connector' = "running"
    /\ Goto("await")
    /\ UNCHANGED <<task, snapped, offsets, slot, data, rest>>

WaitForConnector ==
    /\ at = "await"
    /\ Goto("up")
    /\ UNCHANGED <<connect, data, rest>>

Finish ==
    /\ at = "up"
    /\ Goto(Cleanup[1])
    /\ UNCHANGED <<connect, data, rest>>

(* The kernel is interrupted, or a call raises.                            *)
Interrupt ==
    /\ at # "idle" /\ interrupts < MaxInterrupts
    /\ Goto("idle")
    /\ interrupts' = interrupts + 1
    /\ UNCHANGED <<connect, data, late>>

-----------------------------------------------------------------------------
(* Kafka Connect.  A started task snapshots only when no offset is stored  *)
(* (snapshot.mode=initial), takes or creates the slot, publishes what its  *)
(* table changes and stores an offset now and then.  The broker creates a  *)
(* missing topic for it.                                                   *)

StartTask ==
    /\ connector = "running" /\ task = 0
    /\ task' = table
    /\ snapped' = ~offsets
    /\ topic' = IF offsets THEN topic ELSE topic \cup {table}
    /\ slot' = TRUE
    /\ UNCHANGED <<client, connector, offsets, table, runs, rest>>

Publish ==
    /\ task # 0
    /\ \E g \in {task, table} \ {0} : topic' = topic \cup {g}
    /\ UNCHANGED <<client, connect, table, runs, rest>>

StoreOffset ==
    /\ task # 0 /\ ~offsets
    /\ offsets' = TRUE
    /\ UNCHANGED <<client, connector, task, snapped, slot, data, rest>>

(* Told to stop, the connector is STOPPED after a while.                   *)
ReportStopped ==
    /\ connector = "stopping"
    /\ connector' = "stopped"
    /\ UNCHANGED <<client, task, snapped, offsets, slot, data, rest>>

(* The task of a stopped or deleted connector ends, in its own time, and   *)
(* stores its last offset, if it has one.                                  *)
StopTask ==
    /\ task # 0 /\ connector # "running"
    /\ task' = 0
    /\ offsets' \in {offsets, TRUE}
    /\ UNCHANGED <<client, connector, snapped, slot, data, rest>>

LifecycleInit ==
    /\ at = "idle" /\ tries = 0
    /\ connector = "absent" /\ task = 0 /\ snapped = FALSE
    /\ offsets = FALSE /\ slot = FALSE
    /\ table = 0 /\ topic = {} /\ runs = 0
    /\ late = {} /\ interrupts = 0

CleanUp ==
    \/ FindConnector \/ StopConnector \/ PollStopped \/ ClearOffsets
    \/ DeleteConnector \/ DropSlot \/ DropTable \/ DeleteDataTopic

Run == Begin \/ SeedOrders \/ RegisterConnector \/ WaitForConnector \/ Finish

Worker == StartTask \/ Publish \/ StoreOffset \/ ReportStopped \/ StopTask

LifecycleNext == CleanUp \/ Run \/ Interrupt \/ Worker

LifecycleSpec == LifecycleInit /\ [][LifecycleNext]_lifecycleVars

(* The client goes on with a clean-up it has begun; Connect may do nothing *)
(* at all.                                                                 *)
LifecycleFairSpec == LifecycleSpec /\ WF_lifecycleVars(CleanUp)

-----------------------------------------------------------------------------
(* teardown's "clean slate": whatever an earlier run left, and wherever    *)
(* runs and clean-ups were interrupted, a run seeds with nothing of it     *)
(* there once drop_slot's retries have outlived the task.  Only an offset  *)
(* may be left, and only if the last reset of them came before the task    *)
(* had ended, or before the connector was STOPPED.                         *)
CleanSlate ==
    at = "seed" /\ "slot" \notin late
        => /\ connector = "absent" /\ task = 0 /\ ~slot
           /\ table = 0 /\ topic = {}
           /\ (offsets => "reset" \in late)

(* "a re-registration with the same name re-runs the initial snapshot":    *)
(* the task of a run that is up has snapshotted this run's table.          *)
RegistrationSnapshots ==
    at = "up" /\ task # 0 => snapped /\ task = table

(* What teardown's docstring promises of a run's own task, whatever     *)
(* Connect did and when: it has taken its snapshot.                        *)
OwnTaskSnapshots == at = "up" /\ task = table => snapped

(* teardown makes it so if the last reset of the offsets came after the    *)
(* task had ended, whatever earlier resets and drop_slot met.              *)
SnapshotsUnlessLate == "reset" \notin late => RegistrationSnapshots

(* The topic a run reads holds no event of an earlier run, even if the old *)
(* task outlived the reset: drop_slot, which succeeds only once the task   *)
(* is gone, comes before the topic is deleted.                             *)
TopicOfThisRun == at = "up" /\ "slot" \notin late => topic \subseteq {table}

(* Every loop is bounded, so a clean-up ends even when Connect never stops *)
(* the task or releases the slot.                                          *)
CleanUpEnds == [](at \in Steps => <>(at \notin Steps))
=============================================================================
