-------------------------- MODULE CdcSource_proofs --------------------------
(***************************************************************************)
(* Proofs about CdcSource, for every set of keys and rows, every seed,     *)
(* snapshot mode and bound: first the state and what stays true of the log *)
(* and the slot, then why the topic can be trusted (TopicExact and         *)
(* AtLeastOnce).                                                           *)
(***************************************************************************)
EXTENDS CdcSource, TLAPS

(* The log: the seed, then single-row statements.                          *)
LogInv ==
    \A l \in 2 .. Lsn :
        /\ wal[l].op \in {"c", "u", "d"} /\ wal[l].key \in Keys
        /\ \A k \in Keys \ {wal[l].key} : wal[l].table[k] = wal[l - 1].table[k]

(* A registered connector has a slot and a place the capture started at,   *)
(* and its task streams from a position past that place.                   *)
PositionInv ==
    /\ task # "unregistered" => slot \in 1 .. Lsn /\ base \in 1 .. Lsn
    /\ task = "unregistered" => slot = 0 /\ offset = 0
    /\ task = "streaming"    => pos \in base .. Lsn
    /\ mode # "always"       => offset = 0 \/ offset >= base
    /\ mode = "never" /\ offset = 0 => slot = base \/ slot = 0
    /\ task = "snapshot"     => mode # "never"
    /\ task = "snapshot" /\ mode = "initial" => offset = 0

SourceTypeInv == TypeOK /\ LogInv /\ PositionInv

(* Every record of the log is a record, and leaves a table behind.         *)
LEMMA LogFacts ==
    ASSUME TypeOK
    PROVE  /\ Lsn \in Nat /\ Lsn >= 1 /\ Lsn = Len(wal)
           /\ \A l \in 1 .. Lsn : /\ wal[l] \in WalRecord
                                  /\ wal[l].table \in Table
                                  /\ wal[l].op \in {"seed", "c", "u", "d"}
                                  /\ wal[l].key \in Keys \cup {NoKey}
           /\ Rows \in Table
<1>1. wal \in Seq(WalRecord) /\ Lsn \in 1 .. MaxWrites + 1 /\ MaxWrites \in Nat
  BY ConstantsAssumption DEF TypeOK
<1>2. Lsn \in Nat /\ Lsn >= 1 /\ Lsn = Len(wal)
  BY <1>1 DEF Lsn
<1>3. \A l \in 1 .. Lsn : wal[l] \in WalRecord
  BY <1>1, <1>2
<1>4. \A r \in WalRecord : /\ r.table \in Table
                           /\ r.op \in {"seed", "c", "u", "d"}
                           /\ r.key \in Keys \cup {NoKey}
  BY DEF WalRecord
<1>5. Rows \in Table
  BY <1>2, <1>3, <1>4 DEF Rows
<1>6. QED
  BY <1>2, <1>3, <1>4, <1>5

LEMMA InitType == SourceInit => SourceTypeInv
<1>1. [op |-> "seed", key |-> NoKey, table |-> SeedTable] \in WalRecord
  BY ConstantsAssumption DEF WalRecord
<1>2. SUFFICES ASSUME SourceInit PROVE SourceTypeInv
  OBVIOUS
<1>3. wal \in Seq(WalRecord) /\ Lsn = 1
  BY <1>1, <1>2 DEF SourceInit, Lsn
<1>4. TypeOK
  <2>1. topic \in Seq(Event)
    BY <1>2 DEF SourceInit
  <2>2. Lsn \in 1 .. MaxWrites + 1 /\ bounces \in 0 .. MaxBounces
    BY <1>2, <1>3, ConstantsAssumption DEF SourceInit
  <2>3. upto \in [Keys -> 0 .. Lsn]
    BY <1>2, <1>3 DEF SourceInit
  <2>4. /\ mode \in Modes /\ paused \in BOOLEAN /\ todo \subseteq Keys /\ lost \subseteq Keys
        /\ task \in {"unregistered", "snapshot", "streaming", "down"}
    BY <1>2 DEF SourceInit
  <2>5. base \in 0 .. Lsn /\ pos \in 0 .. Lsn /\ offset \in 0 .. Lsn /\ slot \in 0 .. Lsn
    BY <1>2, <1>3 DEF SourceInit, NoOffset
  <2>6. QED
    BY <1>3, <2>1, <2>2, <2>3, <2>4, <2>5 DEF TypeOK
<1>5. LogInv /\ PositionInv
  BY <1>2, <1>3, ConstantsAssumption DEF SourceInit, LogInv, PositionInv, NoOffset
<1>6. QED
  BY <1>4, <1>5 DEF SourceTypeInv

(* A write appends one record and leaves every earlier one alone.          *)
LEMMA WriteLog ==
    ASSUME TypeOK, NEW op \in {"c", "u", "d"}, NEW k \in Keys, NEW row \in Row,
           Write(op, k, row)
    PROVE  /\ wal' \in Seq(WalRecord)
           /\ Lsn' = Lsn + 1 /\ Lsn' \in 1 .. MaxWrites + 1
           /\ \A l \in 1 .. Lsn : wal'[l] = wal[l]
           /\ wal'[Lsn + 1] = [op |-> op, key |-> k, table |-> [Rows EXCEPT ![k] = row]]
<1> DEFINE r == [op |-> op, key |-> k, table |-> [Rows EXCEPT ![k] = row]]
<1>1. wal \in Seq(WalRecord) /\ Lsn \in Nat /\ Lsn = Len(wal) /\ Rows \in Table
  BY LogFacts DEF TypeOK
<1>2. r \in WalRecord
  BY <1>1 DEF WalRecord, Table
<1>3. Lsn <= MaxWrites /\ wal' = Append(wal, r)
  BY DEF Write
<1>4. wal' \in Seq(WalRecord) /\ Len(wal') = Len(wal) + 1
  BY <1>1, <1>2, <1>3
<1>5. Lsn' = Lsn + 1 /\ Lsn' \in 1 .. MaxWrites + 1
  BY <1>1, <1>3, <1>4, ConstantsAssumption DEF Lsn
<1>6. \A l \in 1 .. Lsn : wal'[l] = wal[l]
  BY <1>1, <1>2, <1>3
<1>7. wal'[Lsn + 1] = r
  BY <1>1, <1>2, <1>3
<1>8. QED
  BY <1>4, <1>5, <1>6, <1>7

-----------------------------------------------------------------------------
(* Steps that leave the log alone keep its invariants.                     *)
LEMMA SameLog ==
    ASSUME SourceTypeInv, UNCHANGED wal
    PROVE  Lsn' = Lsn /\ Rows' = Rows /\ LogInv' /\ wal' \in Seq(WalRecord)
           /\ Lsn' \in 1 .. MaxWrites + 1
<1>1. Lsn' = Lsn /\ Rows' = Rows
  BY DEF Lsn, Rows
<1>2. wal' \in Seq(WalRecord) /\ Lsn' \in 1 .. MaxWrites + 1
  BY <1>1 DEF SourceTypeInv, TypeOK
<1>3. LogInv'
  BY <1>1 DEF SourceTypeInv, LogInv
<1>4. QED
  BY <1>1, <1>2, <1>3

(* Starting a task puts it at a position of the log, with a slot.          *)
LEMMA StartTaskType ==
    ASSUME SourceTypeInv, NEW stored \in 0 .. Lsn,
           \/ task = "streaming" /\ stored = pos
           \/ task # "streaming" /\ stored = offset,
           StartTask(stored), bounces' \in 0 .. MaxBounces
    PROVE  SourceTypeInv'
<1>1. /\ Lsn' = Lsn /\ Lsn \in Nat /\ Lsn >= 1
      /\ LogInv' /\ wal' \in Seq(WalRecord) /\ Lsn' \in 1 .. MaxWrites + 1
  BY SameLog, LogFacts DEF SourceTypeInv, StartTask
<1>2. /\ mode \in Modes /\ base \in 0 .. Lsn /\ todo \subseteq Keys /\ pos \in 0 .. Lsn
      /\ slot \in 0 .. Lsn /\ lost \subseteq Keys /\ upto \in [Keys -> 0 .. Lsn]
      /\ topic \in Seq(Event)
  BY DEF SourceTypeInv, TypeOK
<1>3. paused' \in BOOLEAN
  BY DEF SourceTypeInv, TypeOK, StartTask
<1>4. /\ mode' \in Modes /\ offset' \in 0 .. Lsn /\ slot' \in 1 .. Lsn
      /\ topic' \in Seq(Event) /\ upto' \in [Keys -> 0 .. Lsn]
  BY <1>1, <1>2 DEF StartTask
<1>5. \/ /\ task' = "snapshot" /\ base' = Lsn /\ pos' = 0
         /\ todo' \subseteq Keys /\ lost' \subseteq Keys
      \/ /\ task' = "streaming" /\ pos' = (IF stored # 0 THEN stored ELSE slot')
         /\ base' = (IF slot = 0 THEN slot' ELSE base) /\ todo' = todo /\ lost' = lost
  BY <1>2 DEF StartTask, NoOffset
<1>6. /\ task' \in {"snapshot", "streaming"}
      /\ base' \in 0 .. Lsn /\ pos' \in 0 .. Lsn
      /\ todo' \subseteq Keys /\ lost' \subseteq Keys
  BY <1>1, <1>2, <1>4, <1>5
<1>7. TypeOK'
  BY <1>1, <1>3, <1>4, <1>6 DEF TypeOK
<1>8. PositionInv'
  <2>1. mode \in {"initial", "always", "never"} /\ mode' = mode /\ offset' = stored
    BY <1>2, ConstantsAssumption DEF StartTask
  <2>2. slot' = IF slot = 0 THEN Lsn ELSE slot
    BY DEF StartTask
  <2>3. CASE task' = "snapshot"
    <3>1. base' = Lsn /\ (mode = "always" \/ (mode = "initial" /\ stored = 0))
      BY <2>3 DEF StartTask, NoOffset
    <3>2. QED
      BY <1>1, <1>4, <2>1, <2>3, <3>1 DEF PositionInv
  <2>4. CASE task' = "streaming"
    <3>1. /\ mode # "always" /\ (mode = "initial" => stored # 0)
          /\ pos' = (IF stored # 0 THEN stored ELSE slot')
          /\ base' = (IF slot = 0 THEN slot' ELSE base)
      BY <2>4 DEF StartTask, NoOffset
    <3>2. base \in 0 .. Lsn /\ PositionInv
      BY DEF SourceTypeInv, TypeOK
    <3>3. task = "unregistered" => slot = 0 /\ stored = 0
      BY <3>2 DEF PositionInv
    <3>4. base' \in 1 .. Lsn /\ pos' \in base' .. Lsn
      BY <1>1, <1>2, <1>4, <2>1, <2>2, <3>1, <3>2, <3>3 DEF PositionInv
    <3>5. offset' = 0 \/ offset' >= base'
      BY <1>1, <1>2, <1>4, <2>1, <2>2, <3>1, <3>2, <3>3, <3>4
    <3>6. offset' = 0 => slot' = base'
      BY <1>1, <1>2, <1>4, <2>1, <2>2, <3>1, <3>2, <3>3 DEF PositionInv
    <3>7. QED
      BY <1>1, <1>4, <2>1, <2>4, <3>4, <3>5, <3>6 DEF PositionInv
  <2>5. QED
    BY <1>6, <2>3, <2>4
<1>9. QED
  BY <1>1, <1>7, <1>8 DEF SourceTypeInv

LEMMA WriteType ==
    ASSUME SourceTypeInv, NEW op \in {"c", "u", "d"}, NEW k \in Keys, NEW row \in Row,
           Write(op, k, row)
    PROVE  SourceTypeInv'
<1>1. /\ wal' \in Seq(WalRecord)
      /\ Lsn' = Lsn + 1 /\ Lsn' \in 1 .. MaxWrites + 1
      /\ \A l \in 1 .. Lsn : wal'[l] = wal[l]
      /\ wal'[Lsn + 1] = [op |-> op, key |-> k, table |-> [Rows EXCEPT ![k] = row]]
  BY WriteLog DEF SourceTypeInv
<1>2. Lsn \in Nat /\ Lsn >= 1
  BY LogFacts DEF SourceTypeInv
<1>3. UNCHANGED <<mode, task, paused, base, todo, pos, offset, slot, topic, bounces, upto, lost>>
  BY DEF Write, connectVars, auxVars
<1>4. /\ base' \in 0 .. Lsn' /\ pos' \in 0 .. Lsn' /\ offset' \in 0 .. Lsn'
      /\ slot' \in 0 .. Lsn'
  BY <1>1, <1>2, <1>3 DEF SourceTypeInv, TypeOK
<1>5. upto' \in [Keys -> 0 .. Lsn']
  <2>1. upto \in [Keys -> 0 .. Lsn] /\ upto' = upto
    BY <1>3 DEF SourceTypeInv, TypeOK
  <2>2. 0 .. Lsn \subseteq 0 .. Lsn'
    BY <1>1, <1>2
  <2>3. QED
    BY <2>1, <2>2
<1>6. /\ mode' \in Modes /\ todo' \subseteq Keys /\ lost' \subseteq Keys /\ topic' \in Seq(Event)
      /\ task' \in {"unregistered", "snapshot", "streaming", "down"}
      /\ bounces' \in 0 .. MaxBounces
  BY <1>3 DEF SourceTypeInv, TypeOK
<1>7. paused' \in BOOLEAN
  BY <1>3 DEF SourceTypeInv, TypeOK
<1>8. TypeOK'
  BY <1>1, <1>4, <1>5, <1>6, <1>7 DEF TypeOK
<1>9. LogInv'
  <2>1. SUFFICES ASSUME NEW l \in 2 .. Lsn'
                 PROVE  /\ wal'[l].op \in {"c", "u", "d"} /\ wal'[l].key \in Keys
                        /\ \A j \in Keys \ {wal'[l].key} : wal'[l].table[j] = wal'[l - 1].table[j]
    BY DEF LogInv
  <2>2. CASE l \in 2 .. Lsn
    <3>1. wal'[l] = wal[l] /\ wal'[l - 1] = wal[l - 1]
      BY <1>1, <1>2, <2>2
    <3>2. QED
      BY <2>2, <3>1 DEF SourceTypeInv, LogInv
  <2>3. CASE l = Lsn + 1
    <3>1. wal'[l - 1] = wal[Lsn] /\ Rows = wal[Lsn].table /\ Rows \in Table
      BY <1>1, <1>2, <2>3, LogFacts DEF SourceTypeInv, Rows
    <3>2. \A j \in Keys \ {k} : [Rows EXCEPT ![k] = row][j] = Rows[j]
      BY <3>1 DEF Table
    <3>3. /\ wal'[l].op = op /\ wal'[l].key = k
          /\ wal'[l].table = [Rows EXCEPT ![k] = row]
          /\ wal'[l - 1].table = Rows
      BY <1>1, <2>3, <3>1
    <3>4. QED
      BY <3>2, <3>3
  <2>4. QED
    BY <1>1, <1>2, <2>2, <2>3
<1>10. PositionInv'
  <2>1. /\ slot \in 0 .. Lsn /\ base \in 0 .. Lsn /\ pos \in 0 .. Lsn /\ offset \in 0 .. Lsn
        /\ PositionInv
    BY DEF SourceTypeInv, TypeOK
  <2>2. QED
    BY <1>1, <1>2, <1>3, <2>1 DEF PositionInv
<1>11. QED
  BY <1>8, <1>9, <1>10 DEF SourceTypeInv

(* The events the connector emits are events.                              *)
LEMMA SnapshotEvent ==
    ASSUME SourceTypeInv, task = "snapshot", NEW k \in Keys
    PROVE  [op |-> "r", key |-> k, val |-> wal[base].table[k], lsn |-> base] \in Event
<1>1. base \in 1 .. Lsn /\ Lsn \in Nat
  BY LogFacts DEF SourceTypeInv, PositionInv
<1>2. wal[base].table \in Table
  BY <1>1, LogFacts DEF SourceTypeInv
<1>3. wal[base].table[k] \in Row
  BY <1>2 DEF Table
<1>4. QED
  BY <1>1, <1>3 DEF Event

LEMMA StreamedEvents ==
    ASSUME SourceTypeInv, task = "streaming", pos < Lsn
    PROVE  /\ pos + 1 \in 2 .. Lsn
           /\ wal[pos + 1].key \in Keys /\ wal[pos + 1].op \in {"c", "u", "d"}
           /\ ChangeEvent(pos + 1) \in Event
           /\ Tombstone(wal[pos + 1].key) \in Event
<1>1. pos + 1 \in 2 .. Lsn
  BY LogFacts DEF SourceTypeInv, PositionInv
<1>2. wal[pos + 1].key \in Keys /\ wal[pos + 1].op \in {"c", "u", "d"}
  BY <1>1 DEF SourceTypeInv, LogInv
<1>3. wal[pos + 1].table \in Table
  BY <1>1, LogFacts DEF SourceTypeInv
<1>4. wal[pos + 1].table[wal[pos + 1].key] \in Row
  BY <1>2, <1>3 DEF Table
<1>5. ChangeEvent(pos + 1) \in Event
  BY <1>1, <1>2, <1>4, LogFacts DEF ChangeEvent, Event, SourceTypeInv
<1>6. Tombstone(wal[pos + 1].key) \in Event
  BY <1>2 DEF Tombstone, Event, Row
<1>7. QED
  BY <1>1, <1>2, <1>5, <1>6

LEMMA SnapshotRowType ==
    ASSUME SourceTypeInv, NEW k \in Keys, SnapshotRow(k)
    PROVE  SourceTypeInv'
<1> DEFINE e == [op |-> "r", key |-> k, val |-> wal[base].table[k], lsn |-> base]
<1>1. /\ Lsn' = Lsn /\ Lsn \in Nat
      /\ LogInv' /\ wal' \in Seq(WalRecord) /\ Lsn' \in 1 .. MaxWrites + 1
  BY SameLog, LogFacts DEF SourceTypeInv, SnapshotRow
<1>2. task = "snapshot" /\ e \in Event
  BY SnapshotEvent DEF SnapshotRow
<1>3. base \in 0 .. Lsn /\ upto \in [Keys -> 0 .. Lsn] /\ topic \in Seq(Event)
  BY DEF SourceTypeInv, TypeOK
<1>4. topic' \in Seq(Event)
  BY <1>2, <1>3 DEF SnapshotRow
<1>5. upto' \in [Keys -> 0 .. Lsn']
  BY <1>1, <1>3 DEF SnapshotRow
<1>6. todo' \subseteq Keys /\ lost' \subseteq Keys
  BY DEF SourceTypeInv, TypeOK, SnapshotRow
<1>7. /\ mode' \in Modes /\ task' \in {"unregistered", "snapshot", "streaming", "down"}
      /\ base' \in 0 .. Lsn' /\ pos' \in 0 .. Lsn' /\ offset' \in 0 .. Lsn'
      /\ slot' \in 0 .. Lsn' /\ bounces' \in 0 .. MaxBounces
  BY <1>1 DEF SourceTypeInv, TypeOK, SnapshotRow
<1>8. paused' \in BOOLEAN
  BY DEF SourceTypeInv, TypeOK, SnapshotRow
<1>9. TypeOK'
  BY <1>1, <1>4, <1>5, <1>6, <1>7, <1>8 DEF TypeOK
<1>10. PositionInv'
  BY <1>1 DEF SourceTypeInv, PositionInv, SnapshotRow
<1>11. QED
  BY <1>1, <1>9, <1>10 DEF SourceTypeInv

LEMMA FinishSnapshotType ==
    ASSUME SourceTypeInv, FinishSnapshot
    PROVE  SourceTypeInv'
<1>1. /\ Lsn' = Lsn /\ Lsn \in Nat
      /\ LogInv' /\ wal' \in Seq(WalRecord) /\ Lsn' \in 1 .. MaxWrites + 1
  BY SameLog, LogFacts DEF SourceTypeInv, FinishSnapshot
<1>2. base \in 1 .. Lsn /\ slot \in 1 .. Lsn
  BY DEF SourceTypeInv, PositionInv, FinishSnapshot
<1>3. upto' \in [Keys -> 0 .. Lsn']
  BY <1>1, <1>2 DEF FinishSnapshot
<1>4. /\ mode' \in Modes /\ task' \in {"unregistered", "snapshot", "streaming", "down"}
      /\ todo' \subseteq Keys /\ lost' \subseteq Keys /\ topic' \in Seq(Event)
      /\ base' \in 0 .. Lsn' /\ pos' \in 0 .. Lsn' /\ offset' \in 0 .. Lsn'
      /\ slot' \in 0 .. Lsn' /\ bounces' \in 0 .. MaxBounces
  BY <1>1, <1>2 DEF SourceTypeInv, TypeOK, FinishSnapshot
<1>5. paused' \in BOOLEAN
  BY DEF SourceTypeInv, TypeOK, FinishSnapshot
<1>6. TypeOK'
  BY <1>1, <1>3, <1>4, <1>5 DEF TypeOK
<1>7. PositionInv'
  <2>1. PositionInv /\ offset \in 0 .. Lsn
    BY DEF SourceTypeInv, TypeOK
  <2>2. QED
    BY <1>1, <1>2, <2>1 DEF PositionInv, FinishSnapshot
<1>8. QED
  BY <1>1, <1>6, <1>7 DEF SourceTypeInv

LEMMA StreamNextType ==
    ASSUME SourceTypeInv, StreamNext
    PROVE  SourceTypeInv'
<1>1. /\ Lsn' = Lsn /\ Lsn \in Nat
      /\ LogInv' /\ wal' \in Seq(WalRecord) /\ Lsn' \in 1 .. MaxWrites + 1
  BY SameLog, LogFacts DEF SourceTypeInv, StreamNext
<1>2. task = "streaming" /\ pos < Lsn /\ pos' = pos + 1
  BY DEF StreamNext
<1>3. /\ pos + 1 \in 2 .. Lsn /\ wal[pos + 1].key \in Keys
      /\ ChangeEvent(pos + 1) \in Event /\ Tombstone(wal[pos + 1].key) \in Event
  BY <1>2, StreamedEvents
<1>4. topic' \in Seq(Event)
  <2>1. topic \in Seq(Event)
    BY DEF SourceTypeInv, TypeOK
  <2>2. Append(topic, ChangeEvent(pos + 1)) \in Seq(Event)
    BY <1>3, <2>1
  <2>3. topic \o <<ChangeEvent(pos + 1), Tombstone(wal[pos + 1].key)>> \in Seq(Event)
    BY <1>3, <2>1
  <2>4. QED
    BY <2>2, <2>3 DEF StreamNext
<1>5. upto' \in [Keys -> 0 .. Lsn']
  <2>1. upto \in [Keys -> 0 .. Lsn]
    BY DEF SourceTypeInv, TypeOK
  <2>2. QED
    BY <1>1, <1>3, <2>1 DEF StreamNext
<1>6. /\ mode' \in Modes /\ task' = "streaming" /\ todo' \subseteq Keys
      /\ base' \in 0 .. Lsn' /\ offset' \in 0 .. Lsn' /\ slot' \in 0 .. Lsn'
      /\ bounces' \in 0 .. MaxBounces
  BY <1>1, <1>2 DEF SourceTypeInv, TypeOK, StreamNext
<1>7. lost' \subseteq Keys
  BY DEF SourceTypeInv, TypeOK, StreamNext
<1>8. paused' \in BOOLEAN
  BY DEF SourceTypeInv, TypeOK, StreamNext
<1>9. TypeOK'
  BY <1>1, <1>2, <1>3, <1>4, <1>5, <1>6, <1>7, <1>8 DEF TypeOK
<1>10. PositionInv'
  BY <1>1, <1>2, <1>3, <1>6 DEF SourceTypeInv, PositionInv, StreamNext
<1>11. QED
  BY <1>1, <1>9, <1>10 DEF SourceTypeInv

(* What is left touches positions and flags only.                          *)
LEMMA CommitType ==
    ASSUME SourceTypeInv, CommitOffset \/ ConfirmSlot
    PROVE  SourceTypeInv'
<1>1. /\ Lsn' = Lsn /\ Lsn \in Nat
      /\ LogInv' /\ wal' \in Seq(WalRecord) /\ Lsn' \in 1 .. MaxWrites + 1
  BY SameLog, LogFacts DEF SourceTypeInv, CommitOffset, ConfirmSlot
<1>2. task = "streaming" /\ pos \in 1 .. Lsn /\ slot \in 1 .. Lsn
  BY DEF SourceTypeInv, PositionInv, CommitOffset, ConfirmSlot
<1>3. offset' \in 0 .. Lsn' /\ slot' \in 1 .. Lsn'
  BY <1>1, <1>2 DEF SourceTypeInv, TypeOK, CommitOffset, ConfirmSlot
<1>4. UNCHANGED <<mode, task, paused, base, todo, pos, topic, bounces, upto, lost>>
  BY DEF CommitOffset, ConfirmSlot, auxVars
<1>5. paused' \in BOOLEAN
  BY <1>4 DEF SourceTypeInv, TypeOK
<1>6. TypeOK'
  BY <1>1, <1>3, <1>4, <1>5 DEF SourceTypeInv, TypeOK
<1>7. PositionInv'
  <2>1. /\ PositionInv /\ offset \in 0 .. Lsn /\ slot \in 0 .. Lsn /\ base \in 0 .. Lsn
        /\ pos \in base .. Lsn
    BY <1>2 DEF SourceTypeInv, TypeOK, PositionInv
  <2>2. \/ offset' = pos /\ slot' = slot
        \/ offset' = offset /\ slot' = offset /\ offset > slot
    BY DEF CommitOffset, ConfirmSlot
  <2>3. QED
    BY <1>1, <1>2, <1>4, <2>1, <2>2 DEF PositionInv
<1>8. QED
  BY <1>1, <1>6, <1>7 DEF SourceTypeInv

LEMMA PauseResumeCrashType ==
    ASSUME SourceTypeInv, Pause \/ Resume \/ Crash
    PROVE  SourceTypeInv'
<1>1. /\ Lsn' = Lsn /\ Lsn \in Nat
      /\ LogInv' /\ wal' \in Seq(WalRecord) /\ Lsn' \in 1 .. MaxWrites + 1
  BY SameLog, LogFacts DEF SourceTypeInv, Pause, Resume, Crash
<1>2. bounces' \in 0 .. MaxBounces
  BY ConstantsAssumption DEF SourceTypeInv, TypeOK, Pause, Resume, Crash, MayBounce
<1>3. paused' \in BOOLEAN
  BY DEF SourceTypeInv, TypeOK, Pause, Resume, Crash
<1>4. UNCHANGED <<mode, base, todo, offset, slot, topic, upto, lost>>
  BY DEF Pause, Resume, Crash, auxVars
<1>5. \/ task' = task /\ pos' = pos
      \/ task' = "down" /\ pos' = 0 /\ task # "unregistered"
  BY ConstantsAssumption DEF Pause, Resume, Crash, MayBounce, Phase
<1>6. TypeOK'
  BY <1>1, <1>2, <1>3, <1>4, <1>5 DEF SourceTypeInv, TypeOK
<1>7. PositionInv'
  BY <1>1, <1>4, <1>5 DEF SourceTypeInv, PositionInv
<1>8. QED
  BY <1>1, <1>6, <1>7 DEF SourceTypeInv

(* The three ways to start a task, from the offset a stop stored.          *)
LEMMA Starts ==
    ASSUME SourceTypeInv, RegisterConnector \/ RestartTasks \/ Recover
    PROVE  /\ StartTask(StoredByStop)
           /\ StoredByStop \in 0 .. Lsn
           /\ \/ task = "streaming" /\ StoredByStop = pos
              \/ task # "streaming" /\ StoredByStop = offset
           /\ bounces' \in 0 .. MaxBounces
<1>1. /\ offset \in 0 .. Lsn /\ pos \in 0 .. Lsn /\ Lsn \in Nat
      /\ bounces \in 0 .. MaxBounces /\ MaxBounces \in Nat
  BY LogFacts, ConstantsAssumption DEF SourceTypeInv, TypeOK
<1>2. /\ StoredByStop \in 0 .. Lsn
      /\ \/ task = "streaming" /\ StoredByStop = pos
         \/ task # "streaming" /\ StoredByStop = offset
  BY <1>1 DEF StoredByStop
<1>3. CASE RegisterConnector
  BY <1>1, <1>2, <1>3 DEF RegisterConnector, NoOffset, SourceTypeInv, PositionInv, StoredByStop
<1>4. CASE RestartTasks
  BY <1>1, <1>2, <1>4 DEF RestartTasks, MayBounce
<1>5. CASE Recover
  BY <1>1, <1>2, <1>5 DEF Recover, StoredByStop
<1>6. QED
  BY <1>3, <1>4, <1>5

(* Every step is a write, the start of a task, or one of eight others.     *)
LEMMA Steps ==
    ASSUME SourceTypeInv, SourceNext
    PROVE  \/ \E op \in {"c", "u", "d"}, k \in Keys, row \in Row : Write(op, k, row)
           \/ RegisterConnector \/ RestartTasks \/ Recover
           \/ \E k \in Keys : SnapshotRow(k)
           \/ FinishSnapshot \/ StreamNext
           \/ CommitOffset \/ ConfirmSlot
           \/ Pause \/ Resume \/ Crash
<1>1. CASE Writers
  BY <1>1 DEF Writers, InsertRow, UpdateRow, DeleteRow, Row
<1>2. QED
  BY <1>1 DEF SourceNext, Worker, Capture, Operator

LEMMA TypeStep ==
    ASSUME SourceTypeInv, [SourceNext]_sourceVars
    PROVE  SourceTypeInv'
<1>1. CASE UNCHANGED sourceVars
  <2>1. UNCHANGED <<wal, mode, task, paused, base, todo, pos, offset, slot, topic, bounces,
                    upto, lost>>
    BY <1>1 DEF sourceVars, connectVars, auxVars
  <2>2. /\ Lsn' = Lsn /\ LogInv' /\ wal' \in Seq(WalRecord)
        /\ Lsn' \in 1 .. MaxWrites + 1
    BY <2>1, SameLog
  <2>3. paused' \in BOOLEAN
    BY <2>1 DEF SourceTypeInv, TypeOK
  <2>4. TypeOK' /\ PositionInv'
    BY <2>1, <2>2, <2>3 DEF SourceTypeInv, TypeOK, PositionInv
  <2>5. QED
    BY <2>2, <2>4 DEF SourceTypeInv
<1>2. CASE SourceNext
  BY <1>2, Steps, Starts, WriteType, StartTaskType, SnapshotRowType, FinishSnapshotType,
     StreamNextType, CommitType, PauseResumeCrashType
<1>3. QED
  BY <1>1, <1>2

(* Type correctness: positions, offsets and LSNs never leave the log, the  *)
(* topic only ever holds well-formed change events, and a task is started  *)
(* at a position that exists (Debezium's start and stop of a task).        *)
THEOREM TypeCorrect == SourceSpec => []TypeOK
<1>1. SourceInit => SourceTypeInv
  BY InitType
<1>2. SourceTypeInv /\ [SourceNext]_sourceVars => SourceTypeInv'
  BY TypeStep
<1>3. SourceTypeInv => TypeOK
  BY DEF SourceTypeInv
<1>4. QED
  BY <1>1, <1>2, <1>3, PTL DEF SourceSpec

-----------------------------------------------------------------------------
(* A key the topic tells of has a newest event: no induction over the      *)
(* topic is needed where every step preserves that there is one.           *)
NewestInv ==
    \A k \in Keys :
        (\E e \in Changes(topic) : e.key = k)
            => \E e \in Changes(topic) : e.key = k /\ IsNewest(e, Changes(topic))

(* upto is ahead of every event, and a snapshot is ahead of upto.          *)
UptoInv ==
    /\ \A e \in Changes(topic) : e.lsn <= upto[e.key]
    /\ task = "snapshot" => \A k \in Keys : upto[k] <= base

(* Halfway through a snapshot, the topic is exact at its LSN for the keys  *)
(* that are done.                                                          *)
SnapshotInv ==
    task = "snapshot" =>
        \A k \in Keys \ (todo \cup lost) : Told(topic, k) = wal[base].table[k]

(* Streaming leaves out no change, neither before the position or the      *)
(* stored offset nor where upto says that it is accounted for.             *)
Passed(l) ==
    \/ task = "streaming" /\ l <= pos
    \/ l <= offset
    \/ l <= upto[wal[l].key]

DeliveredInv ==
    task # "unregistered" =>
        \A l \in base + 1 .. Lsn : Passed(l) => ChangeEvent(l) \in Changes(topic)

(* The slot trails the stored offset, and the offset trails the task.      *)
SlotInv ==
    /\ offset # NoOffset => slot <= offset
    /\ offset = NoOffset => slot <= base
    /\ task = "streaming" => offset <= pos
    /\ task = "snapshot"  => offset <= base

(* Debezium copies every event out of the log: it carries the row as it    *)
(* was at the LSN the event names, and two events of a key with one LSN    *)
(* agree, whichever of them row_number() = 1 happens to keep.              *)
EventsFaithful ==
    \A e \in Changes(topic) : e.lsn \in 1 .. Lsn /\ e.val = wal[e.lsn].table[e.key]

TopicInv == EventsFaithful /\ NewestInv /\ UptoInv /\ SnapshotInv /\ TopicExact

SourceInv == SourceTypeInv /\ TopicInv /\ DeliveredInv /\ SlotInv

-----------------------------------------------------------------------------
(* What appending to a topic adds to its changes.                          *)
LEMMA ChangesAppend ==
    ASSUME NEW log \in Seq(Event), NEW e \in Event
    PROVE  Changes(Append(log, e)) = Changes(log) \cup (IF e.op = "t" THEN {} ELSE {e})
<1>1. {Append(log, e)[i] : i \in DOMAIN Append(log, e)} = {log[i] : i \in DOMAIN log} \cup {e}
  <2>1. DOMAIN log = 1 .. Len(log) /\ Len(log) \in Nat
    OBVIOUS
  <2>2. DOMAIN Append(log, e) = 1 .. Len(log) + 1
    OBVIOUS
  <2>3. \A i \in 1 .. Len(log) : Append(log, e)[i] = log[i]
    OBVIOUS
  <2>4. Append(log, e)[Len(log) + 1] = e
    OBVIOUS
  <2>5. QED
    BY <2>1, <2>2, <2>3, <2>4
<1>2. QED
  BY <1>1 DEF Changes

LEMMA ChangesAppendTwo ==
    ASSUME NEW log \in Seq(Event), NEW e \in Event, NEW t \in Event, e.op # "t", t.op = "t"
    PROVE  Changes(log \o <<e, t>>) = Changes(log) \cup {e}
<1>1. log \o <<e, t>> = Append(Append(log, e), t)
  OBVIOUS
<1>2. Append(log, e) \in Seq(Event)
  OBVIOUS
<1>3. Changes(Append(log, e)) = Changes(log) \cup {e}
  BY ChangesAppend
<1>4. Changes(Append(Append(log, e), t)) = Changes(Append(log, e))
  <2>1. ASSUME NEW longer \in Seq(Event)
        PROVE  Changes(Append(longer, t)) = Changes(longer)
    BY ChangesAppend
  <2>2. QED
    BY <1>2, <2>1
<1>5. QED
  BY <1>1, <1>3, <1>4

(* Events are typed, also those of the next state.                         *)
LEMMA ChangesType ==
    ASSUME TypeOK
    PROVE  \A e \in Changes(topic) : e \in Event /\ e.key \in Keys /\ e.lsn \in Nat
<1>1. topic \in Seq(Event)
  BY DEF TypeOK
<1>2. \A e \in Changes(topic) : e \in Event
  BY <1>1 DEF Changes
<1>3. QED
  BY <1>2 DEF Event

(* Told, by cases: the row at the LSN of a newest event, or nothing.       *)
LEMMA ToldNewest ==
    ASSUME NEW log, NEW w, NEW k, NEW e \in Changes(log),
           \A f \in Changes(log) : f.lsn \in Nat /\ f.val = w[f.lsn].table[f.key],
           e.key = k, IsNewest(e, Changes(log))
    PROVE  Told(log, k) = w[e.lsn].table[k]
<1> DEFINE newest == {f \in Changes(log) : f.key = k /\ IsNewest(f, Changes(log))}
<1>1. e \in newest
  OBVIOUS
<1>2. \A f \in newest : f.lsn = e.lsn
  <2>1. \A f \in newest : f.lsn <= e.lsn /\ e.lsn <= f.lsn
    BY DEF IsNewest
  <2>2. QED
    BY <2>1
<1>3. \A f \in newest : f.val = w[e.lsn].table[k]
  BY <1>2
<1>4. Told(log, k) = (CHOOSE f \in newest : TRUE).val
  BY <1>1 DEF Told
<1>5. (CHOOSE f \in newest : TRUE) \in newest
  BY <1>1
<1>6. QED
  BY <1>3, <1>4, <1>5

LEMMA ToldNow ==
    ASSUME TypeOK, EventsFaithful, NEW e \in Changes(topic), IsNewest(e, Changes(topic))
    PROVE  Told(topic, e.key) = wal[e.lsn].table[e.key]
<1>1. \A f \in Changes(topic) : f.lsn \in Nat /\ f.val = wal[f.lsn].table[f.key]
  BY ChangesType DEF EventsFaithful
<1>2. QED
  BY <1>1, ToldNewest

LEMMA ToldThen ==
    ASSUME TypeOK', EventsFaithful', UNCHANGED wal,
           NEW e \in Changes(topic'), IsNewest(e, Changes(topic'))
    PROVE  Told(topic', e.key) = wal[e.lsn].table[e.key]
<1>1. \A f \in Changes(topic') : f.lsn \in Nat
  <2>1. topic' \in Seq(Event)
    BY DEF TypeOK
  <2>2. \A f \in Changes(topic') : f \in Event
    BY <2>1 DEF Changes
  <2>3. QED
    BY <2>2 DEF Event
<1>2. \A f \in Changes(topic') : f.lsn \in Nat /\ f.val = wal[f.lsn].table[f.key]
  BY <1>1 DEF EventsFaithful
<1>3. QED
  BY <1>2, ToldNewest

LEMMA ToldNothing ==
    ASSUME NEW log, NEW k, \A e \in Changes(log) : e.key # k
    PROVE  Told(log, k) = Gone
BY DEF Told

(* What one more faithful event, c, does to what the topic tells.          *)
LEMMA OneMoreEvent ==
    ASSUME TypeOK, TypeOK', EventsFaithful, NewestInv, UNCHANGED wal,
           NEW c \in Event, Changes(topic') = Changes(topic) \cup {c},
           c.lsn \in 1 .. Lsn, c.val = wal[c.lsn].table[c.key]
    PROVE  /\ EventsFaithful' /\ NewestInv'
           /\ \A j \in Keys \ {c.key} : Told(topic', j) = Told(topic, j)
           /\ (\A e \in Changes(topic) : e.key = c.key => e.lsn <= c.lsn)
                 => Told(topic', c.key) = wal[c.lsn].table[c.key]
           /\ (\E e \in Changes(topic) : e.key = c.key /\ e.lsn >= c.lsn)
                 => Told(topic', c.key) = Told(topic, c.key)
<1>1. Lsn' = Lsn /\ c.key \in Keys /\ c.lsn \in Nat
  BY DEF Lsn, Event
<1>2. EventsFaithful'
  BY <1>1 DEF EventsFaithful
<1>3. /\ \A e \in Changes(topic) : e.key \in Keys /\ e.lsn \in Nat
      /\ \A e \in Changes(topic') : e.key \in Keys /\ e.lsn \in Nat
  BY <1>1, <1>2, ChangesType
<1>4. ASSUME NEW j \in Keys, NEW e \in Changes(topic), e.key = j, IsNewest(e, Changes(topic)),
             j = c.key => e.lsn >= c.lsn
      PROVE  IsNewest(e, Changes(topic')) /\ Told(topic', j) = Told(topic, j)
  <2>1. IsNewest(e, Changes(topic'))
    BY <1>4 DEF IsNewest
  <2>2. Told(topic, j) = wal[e.lsn].table[j]
    BY <1>4, ToldNow
  <2>3. Told(topic', j) = wal[e.lsn].table[j]
    BY <1>2, <1>4, <2>1, ToldThen
  <2>4. QED
    BY <2>1, <2>2, <2>3
<1>5. ASSUME \A e \in Changes(topic) : e.key = c.key => e.lsn <= c.lsn
      PROVE  IsNewest(c, Changes(topic')) /\ Told(topic', c.key) = wal[c.lsn].table[c.key]
  <2>1. IsNewest(c, Changes(topic'))
    BY <1>1, <1>5 DEF IsNewest
  <2>2. Told(topic', c.key) = wal[c.lsn].table[c.key]
    BY <1>2, <2>1, ToldThen
  <2>3. QED
    BY <2>1, <2>2
<1>6. ASSUME NEW j \in Keys \ {c.key}
      PROVE  Told(topic', j) = Told(topic, j)
  <2>1. CASE \E e \in Changes(topic) : e.key = j
    BY <1>4, <1>6, <2>1 DEF NewestInv
  <2>2. CASE \A e \in Changes(topic) : e.key # j
    <3>1. \A e \in Changes(topic') : e.key # j
      BY <1>6, <2>2
    <3>2. QED
      BY <2>2, <3>1, ToldNothing
  <2>3. QED
    BY <2>1, <2>2
<1>7. ASSUME NEW f \in Changes(topic), f.key = c.key, f.lsn >= c.lsn
      PROVE  \E e \in Changes(topic) : /\ e.key = c.key /\ IsNewest(e, Changes(topic))
                                       /\ e.lsn >= c.lsn
  <2>1. PICK e \in Changes(topic) : e.key = c.key /\ IsNewest(e, Changes(topic))
    BY <1>1, <1>7 DEF NewestInv
  <2>2. e.lsn >= f.lsn
    BY <1>7, <2>1 DEF IsNewest
  <2>3. e.lsn >= c.lsn
    BY <1>1, <1>3, <1>7, <2>2
  <2>4. QED
    BY <2>1, <2>3
<1>8. (\E e \in Changes(topic) : e.key = c.key /\ e.lsn >= c.lsn)
         => Told(topic', c.key) = Told(topic, c.key)
  BY <1>1, <1>4, <1>7
<1>9. NewestInv'
  <2>1. SUFFICES ASSUME NEW j \in Keys, NEW f \in Changes(topic'), f.key = j
                 PROVE  \E e \in Changes(topic') : e.key = j /\ IsNewest(e, Changes(topic'))
    BY DEF NewestInv
  <2>2. CASE j # c.key
    BY <1>4, <2>1, <2>2 DEF NewestInv
  <2>3. CASE j = c.key /\ \E e \in Changes(topic) : e.key = c.key /\ e.lsn >= c.lsn
    BY <1>1, <1>4, <1>7, <2>3
  <2>4. CASE j = c.key /\ ~\E e \in Changes(topic) : e.key = c.key /\ e.lsn >= c.lsn
    <3>1. \A e \in Changes(topic) : e.key = c.key => e.lsn <= c.lsn
      BY <1>1, <1>3, <2>4
    <3>2. QED
      BY <1>5, <2>4, <3>1
  <2>5. QED
    BY <2>2, <2>3, <2>4
<1>10. QED
  BY <1>2, <1>5, <1>6, <1>8, <1>9

-----------------------------------------------------------------------------
(* Where the parts of the invariant live, for arithmetic.                  *)
LEMMA Positions ==
    ASSUME SourceInv
    PROVE  /\ Lsn \in Nat /\ Lsn >= 1
           /\ base \in 0 .. Lsn /\ pos \in 0 .. Lsn /\ offset \in 0 .. Lsn /\ slot \in 0 .. Lsn
           /\ upto \in [Keys -> 0 .. Lsn] /\ \A k \in Keys : upto[k] \in 0 .. Lsn
           /\ TypeOK /\ LogInv /\ PositionInv
           /\ \A l \in 2 .. Lsn : wal[l].key \in Keys
           /\ task # "unregistered" => base >= 1
<1>1. TypeOK /\ LogInv /\ PositionInv
  BY DEF SourceInv, SourceTypeInv
<1>2. Lsn \in Nat /\ Lsn >= 1
  BY <1>1, LogFacts
<1>3. /\ base \in 0 .. Lsn /\ pos \in 0 .. Lsn /\ offset \in 0 .. Lsn /\ slot \in 0 .. Lsn
      /\ upto \in [Keys -> 0 .. Lsn]
  BY <1>1 DEF TypeOK
<1>4. QED
  BY <1>1, <1>2, <1>3 DEF LogInv, PositionInv

(* Steps that leave the topic and what it is compared with alone.          *)
LEMMA SameTopic ==
    ASSUME SourceInv, UNCHANGED <<wal, topic, upto, lost, base, todo>>,
           task' = task \/ task' # "snapshot"
    PROVE  TopicInv'
<1>1. Lsn' = Lsn
  BY DEF Lsn
<1>2. EventsFaithful' /\ NewestInv'
  BY <1>1 DEF SourceInv, TopicInv, EventsFaithful, NewestInv
<1>3. UptoInv' /\ SnapshotInv' /\ TopicExact'
  BY DEF SourceInv, TopicInv, UptoInv, SnapshotInv, TopicExact
<1>4. QED
  BY <1>2, <1>3 DEF TopicInv

LEMMA WriteTopic ==
    ASSUME SourceInv, NEW op \in {"c", "u", "d"}, NEW k \in Keys, NEW row \in Row,
           Write(op, k, row)
    PROVE  TopicInv' /\ DeliveredInv' /\ SlotInv'
<1>1. /\ Lsn' = Lsn + 1 /\ \A l \in 1 .. Lsn : wal'[l] = wal[l]
      /\ wal'[Lsn + 1].key = k
  <2>1. TypeOK
    BY Positions
  <2>2. /\ Lsn' = Lsn + 1 /\ \A l \in 1 .. Lsn : wal'[l] = wal[l]
        /\ wal'[Lsn + 1] = [op |-> op, key |-> k, table |-> [Rows EXCEPT ![k] = row]]
    BY <2>1, WriteLog
  <2>3. QED
    BY <2>2
<1>2. UNCHANGED <<mode, task, paused, base, todo, pos, offset, slot, topic, bounces, upto, lost>>
  BY DEF Write, connectVars, auxVars
<1>3. EventsFaithful'
  <2>1. \A e \in Changes(topic) : e.lsn \in 1 .. Lsn /\ e.val = wal[e.lsn].table[e.key]
    BY DEF SourceInv, TopicInv, EventsFaithful
  <2>2. \A e \in Changes(topic) : e.lsn \in 1 .. Lsn' /\ e.val = wal'[e.lsn].table[e.key]
    BY <1>1, <2>1, Positions
  <2>3. QED
    BY <1>2, <2>2 DEF EventsFaithful
<1>4. NewestInv' /\ UptoInv'
  BY <1>2 DEF SourceInv, TopicInv, NewestInv, UptoInv
<1>5. SnapshotInv'
  <2>1. task = "snapshot" => wal'[base] = wal[base]
    BY <1>1, Positions
  <2>2. QED
    BY <1>2, <2>1 DEF SourceInv, TopicInv, SnapshotInv
<1>6. TopicExact'
  <2>1. \A j \in Keys : upto[j] > 0 => wal'[upto[j]] = wal[upto[j]]
    BY <1>1, Positions
  <2>2. QED
    BY <1>2, <2>1 DEF SourceInv, TopicInv, TopicExact
<1>7. DeliveredInv'
  <2>1. SUFFICES ASSUME task # "unregistered", NEW l \in base + 1 .. Lsn + 1, Passed(l)'
                 PROVE  ChangeEvent(l)' \in Changes(topic)
    BY <1>1, <1>2 DEF DeliveredInv
  <2>2. l \in base + 1 .. Lsn
    BY <1>1, <1>2, <2>1, Positions DEF Passed
  <2>3. wal'[l] = wal[l]
    BY <1>1, <2>2, Positions
  <2>4. ChangeEvent(l)' = ChangeEvent(l) /\ (Passed(l)' => Passed(l))
    BY <1>2, <2>3 DEF ChangeEvent, Passed
  <2>5. QED
    BY <2>1, <2>2, <2>4 DEF SourceInv, DeliveredInv
<1>8. SlotInv'
  BY <1>2 DEF SourceInv, SlotInv
<1>9. QED
  BY <1>3, <1>4, <1>5, <1>6, <1>7, <1>8 DEF TopicInv

LEMMA StartTopic ==
    ASSUME SourceInv, NEW stored \in 0 .. Lsn,
           \/ task = "streaming" /\ stored = pos
           \/ task # "streaming" /\ stored = offset,
           StartTask(stored)
    PROVE  TopicInv' /\ DeliveredInv' /\ SlotInv'
<1>1. /\ Lsn' = Lsn /\ UNCHANGED <<wal, topic, upto, mode>>
      /\ offset' = stored /\ slot' = IF slot = 0 THEN Lsn ELSE slot
  BY DEF StartTask, Lsn
<1>2. EventsFaithful' /\ NewestInv'
  BY <1>1 DEF SourceInv, TopicInv, EventsFaithful, NewestInv
<1>3. /\ \A e \in Changes(topic) : e.lsn <= upto[e.key]
      /\ TopicExact /\ DeliveredInv /\ SlotInv /\ PositionInv
  BY Positions DEF SourceInv, TopicInv, UptoInv
<1>4. CASE task' = "snapshot"
  <2>1. /\ base' = Lsn
        /\ todo' = {k \in Keys : Rows[k] # Gone}
        /\ lost' = lost \cup {k \in Keys : Rows[k] = Gone /\ Told(topic, k) # Gone}
    BY <1>4 DEF StartTask
  <2>2. UptoInv'
    BY <1>1, <1>3, <2>1, Positions DEF UptoInv
  <2>3. SnapshotInv'
    BY <1>1, <2>1 DEF SnapshotInv, Rows
  <2>4. TopicExact'
    BY <1>1, <1>3, <2>1 DEF TopicExact
  <2>5. DeliveredInv'
    BY <1>1, <2>1, Positions DEF DeliveredInv
  <2>6. SlotInv'
    BY <1>1, <1>3, <1>4, <2>1, Positions DEF SlotInv, PositionInv, NoOffset
  <2>7. QED
    BY <1>2, <2>2, <2>3, <2>4, <2>5, <2>6 DEF TopicInv
<1>5. CASE task' = "streaming"
  <2>1. /\ lost' = lost
        /\ mode # "always" /\ (mode = "initial" => stored # 0)
        /\ pos' = (IF stored # 0 THEN stored ELSE slot')
        /\ base' = (IF slot = 0 THEN slot' ELSE base)
    BY <1>5 DEF StartTask, NoOffset
  <2>2. UptoInv' /\ SnapshotInv' /\ TopicExact'
    BY <1>1, <1>3, <1>5, <2>1 DEF UptoInv, SnapshotInv, TopicExact
  <2>3. mode \in {"initial", "always", "never"}
    BY ConstantsAssumption, Positions DEF TypeOK
  <2>4. slot # 0 /\ stored = 0 => slot = base
    BY <1>3, <2>1, <2>3, Positions DEF PositionInv
  <2>5. DeliveredInv'
    <3>1. SUFFICES ASSUME NEW l \in base' + 1 .. Lsn, Passed(l)'
                   PROVE  ChangeEvent(l) \in Changes(topic)
      BY <1>1 DEF DeliveredInv, ChangeEvent
    <3>2. slot # 0 /\ task # "unregistered" /\ base' = base
      BY <1>1, <1>3, <2>1, <3>1, Positions DEF PositionInv
    <3>3. l \in base + 1 .. Lsn /\ Passed(l)
      BY <1>1, <1>5, <2>1, <2>4, <3>1, <3>2, Positions DEF Passed
    <3>4. QED
      BY <1>3, <3>2, <3>3 DEF DeliveredInv
  <2>6. SlotInv'
    BY <1>1, <1>3, <1>5, <2>1, <2>4, Positions DEF SlotInv, PositionInv, NoOffset
  <2>7. QED
    BY <1>2, <2>2, <2>5, <2>6 DEF TopicInv
<1>6. QED
  BY <1>4, <1>5 DEF StartTask

LEMMA SnapshotRowTopic ==
    ASSUME SourceInv, SourceTypeInv', NEW k \in Keys, SnapshotRow(k)
    PROVE  TopicInv' /\ DeliveredInv' /\ SlotInv'
<1> DEFINE c == [op |-> "r", key |-> k, val |-> wal[base].table[k], lsn |-> base]
<1>1. /\ task = "snapshot" /\ Lsn' = Lsn
      /\ topic' = Append(topic, c) /\ todo' = todo \ {k} /\ lost' = lost \ {k}
      /\ upto' = [upto EXCEPT ![k] = base]
      /\ UNCHANGED <<wal, mode, task, base, pos, offset, slot>>
  BY DEF SnapshotRow, Lsn
<1>2. c \in Event /\ c.key = k /\ c.lsn = base /\ c.val = wal[base].table[k] /\ c.op # "t"
  BY <1>1, SnapshotEvent DEF SourceInv
<1> HIDE DEF c
<1>3. base \in 1 .. Lsn
  BY <1>1, Positions
<1>4. Changes(topic') = Changes(topic) \cup {c}
  <2>1. topic \in Seq(Event)
    BY Positions DEF TypeOK
  <2>2. QED
    BY <1>1, <1>2, <2>1, ChangesAppend
<1>5. /\ \A e \in Changes(topic) : e.key \in Keys /\ e.lsn \in Nat /\ e.lsn <= upto[e.key]
      /\ \A j \in Keys : upto[j] <= base
  BY <1>1, ChangesType, Positions DEF SourceInv, TopicInv, UptoInv
<1>6. \A e \in Changes(topic) : e.lsn <= base
  BY <1>5, Positions
<1>7. /\ EventsFaithful' /\ NewestInv'
      /\ \A j \in Keys \ {k} : Told(topic', j) = Told(topic, j)
      /\ Told(topic', k) = wal[base].table[k]
  <2>1. TypeOK /\ TypeOK' /\ EventsFaithful /\ NewestInv
    BY DEF SourceInv, SourceTypeInv, TopicInv
  <2>2. QED
    BY <1>1, <1>2, <1>3, <1>4, <1>6, <2>1, OneMoreEvent
<1>8. UptoInv'
  <2>1. upto'[k] = base /\ \A j \in Keys \ {k} : upto'[j] = upto[j]
    BY <1>1, Positions
  <2>2. QED
    BY <1>1, <1>2, <1>4, <1>5, <1>6, <2>1, Positions DEF UptoInv
<1>9. SnapshotInv'
  BY <1>1, <1>7 DEF SourceInv, TopicInv, SnapshotInv
<1>10. TopicExact'
  <2>1. upto'[k] = base /\ \A j \in Keys \ {k} : upto'[j] = upto[j]
    BY <1>1, Positions
  <2>2. QED
    BY <1>1, <1>7, <2>1 DEF SourceInv, TopicInv, TopicExact
<1>11. DeliveredInv'
  <2>1. SUFFICES ASSUME NEW l \in base + 1 .. Lsn, Passed(l)'
                 PROVE  ChangeEvent(l) \in Changes(topic')
    BY <1>1 DEF DeliveredInv, ChangeEvent
  <2>2. l \in 2 .. Lsn /\ wal[l].key \in Keys /\ base < l
    BY <1>3, <2>1, Positions
  <2>3. Passed(l)
    BY <1>1, <2>1, <2>2, Positions DEF Passed
  <2>4. QED
    BY <1>1, <1>4, <2>1, <2>3 DEF SourceInv, DeliveredInv
<1>12. SlotInv'
  BY <1>1 DEF SourceInv, SlotInv
<1>13. QED
  BY <1>7, <1>8, <1>9, <1>10, <1>11, <1>12 DEF TopicInv

LEMMA FinishSnapshotTopic ==
    ASSUME SourceInv, FinishSnapshot
    PROVE  TopicInv' /\ DeliveredInv' /\ SlotInv'
<1>1. /\ task = "snapshot" /\ todo = {} /\ Lsn' = Lsn
      /\ task' = "streaming" /\ pos' = base /\ upto' = [k \in Keys |-> base]
      /\ UNCHANGED <<wal, mode, base, todo, offset, slot, topic, lost>>
  BY DEF FinishSnapshot, Lsn
<1>2. EventsFaithful' /\ NewestInv'
  BY <1>1 DEF SourceInv, TopicInv, EventsFaithful, NewestInv
<1>3. UptoInv'
  <2>1. \A e \in Changes(topic) : /\ e.key \in Keys /\ e.lsn \in Nat
                                   /\ e.lsn <= upto[e.key] /\ upto[e.key] <= base
    BY <1>1, ChangesType, Positions DEF SourceInv, TopicInv, UptoInv
  <2>2. \A e \in Changes(topic) : e.lsn <= base
    BY <2>1, Positions
  <2>3. QED
    BY <1>1, <2>1, <2>2 DEF UptoInv
<1>4. SnapshotInv' /\ TopicExact'
  BY <1>1 DEF SourceInv, TopicInv, SnapshotInv, TopicExact
<1>5. DeliveredInv'
  <2>1. SUFFICES ASSUME NEW l \in base + 1 .. Lsn, Passed(l)' PROVE FALSE
    BY <1>1 DEF DeliveredInv, ChangeEvent
  <2>2. l \in 2 .. Lsn /\ wal[l].key \in Keys /\ offset <= base /\ base < l
    BY <1>1, <2>1, Positions DEF SourceInv, SlotInv
  <2>3. QED
    BY <1>1, <2>1, <2>2, Positions DEF Passed
<1>6. SlotInv'
  BY <1>1 DEF SourceInv, SlotInv
<1>7. QED
  BY <1>2, <1>3, <1>4, <1>5, <1>6 DEF TopicInv

LEMMA StreamNextTopic ==
    ASSUME SourceInv, SourceTypeInv', StreamNext
    PROVE  TopicInv' /\ DeliveredInv' /\ SlotInv'
<1> DEFINE l == pos + 1
           k == wal[l].key
           c == ChangeEvent(l)
<1>1. /\ task = "streaming" /\ pos < Lsn /\ Lsn' = Lsn /\ pos' = l
      /\ upto' = [j \in Keys |-> IF upto[j] = pos \/ (j = k /\ upto[j] < l) THEN l ELSE upto[j]]
      /\ lost' = (IF upto[k] < l THEN lost \ {k} ELSE lost)
      /\ UNCHANGED <<wal, mode, task, base, todo, offset, slot>>
  BY DEF StreamNext, Lsn
<1>2. /\ l \in 2 .. Lsn /\ k \in Keys /\ wal[l].op \in {"c", "u", "d"}
      /\ c \in Event /\ Tombstone(k) \in Event
  BY <1>1, StreamedEvents DEF SourceInv
<1>3. c.key = k /\ c.lsn = l /\ c.val = wal[l].table[k] /\ c.op # "t"
  BY <1>2 DEF ChangeEvent
<1>4. base \in 1 .. pos /\ base < l
  BY <1>1, Positions DEF PositionInv
<1>5. Changes(topic') = Changes(topic) \cup {c}
  <2>1. topic \in Seq(Event)
    BY Positions DEF TypeOK
  <2>2. topic' = topic \o <<c, Tombstone(k)>> \/ topic' = Append(topic, c)
    BY DEF StreamNext
  <2>3. Changes(Append(topic, c)) = Changes(topic) \cup {c}
    BY <1>2, <1>3, <2>1, ChangesAppend
  <2>4. Changes(topic \o <<c, Tombstone(k)>>) = Changes(topic) \cup {c}
    BY <1>2, <1>3, <2>1, ChangesAppendTwo DEF Tombstone
  <2>5. QED
    BY <2>2, <2>3, <2>4
<1> HIDE DEF c
<1>6. \A e \in Changes(topic) : e.key \in Keys /\ e.lsn \in Nat /\ e.lsn <= upto[e.key]
  BY ChangesType, Positions DEF SourceInv, TopicInv, UptoInv
<1>7. /\ EventsFaithful' /\ NewestInv'
      /\ \A j \in Keys \ {k} : Told(topic', j) = Told(topic, j)
      /\ (\A e \in Changes(topic) : e.key = k => e.lsn <= l)
            => Told(topic', k) = wal[l].table[k]
      /\ (\E e \in Changes(topic) : e.key = k /\ e.lsn >= l)
            => Told(topic', k) = Told(topic, k)
  <2>1. TypeOK /\ TypeOK' /\ EventsFaithful /\ NewestInv
    BY DEF SourceInv, SourceTypeInv, TopicInv
  <2>2. c.lsn \in 1 .. Lsn
    BY <1>2, <1>3
  <2>3. QED
    BY <1>1, <1>2, <1>3, <1>5, <2>1, <2>2, OneMoreEvent
<1>8. \A j \in Keys : upto'[j] = upto[j] \/ (upto'[j] = l /\ upto[j] \in 0 .. l)
  BY <1>1, <1>2, Positions
<1>9. upto'[k] >= l
  BY <1>1, <1>2, Positions
<1>10. UptoInv'
  <2>1. \A j \in Keys : \A n \in Nat : n <= upto[j] => n <= upto'[j]
    BY <1>2, <1>8
  <2>2. \A e \in Changes(topic) : e.lsn <= upto'[e.key]
    BY <1>6, <2>1
  <2>3. c.lsn <= upto'[c.key]
    BY <1>3, <1>9
  <2>4. QED
    BY <1>1, <1>5, <2>2, <2>3 DEF UptoInv
<1>11. SnapshotInv'
  BY <1>1 DEF SnapshotInv
<1>12. DeliveredInv /\ \A m \in base + 1 .. Lsn : Passed(m) => ChangeEvent(m) \in Changes(topic)
  BY <1>1 DEF SourceInv, DeliveredInv
<1>13. TopicExact'
  <2>1. SUFFICES ASSUME NEW j \in Keys \ lost', upto'[j] > 0
                 PROVE  Told(topic', j) = wal[upto'[j]].table[j]
    BY <1>1 DEF TopicExact
  <2>2. j \notin lost => (upto[j] > 0 => Told(topic, j) = wal[upto[j]].table[j])
    BY <2>1 DEF SourceInv, TopicInv, TopicExact
  <2>3. CASE j # k /\ upto[j] = pos
    <3>1. wal[l].table[j] = wal[l - 1].table[j]
      BY <1>2, <2>1, <2>3, Positions DEF LogInv
    <3>2. /\ upto'[j] = l /\ Told(topic', j) = Told(topic, j) /\ j \notin lost /\ upto[j] > 0
          /\ l - 1 = pos
      BY <1>1, <1>4, <1>7, <2>1, <2>3, Positions
    <3>3. QED
      BY <2>2, <2>3, <3>1, <3>2
  <2>4. CASE j # k /\ upto[j] # pos
    BY <1>1, <1>7, <2>1, <2>2, <2>4
  <2>5. CASE j = k /\ upto[k] < l
    <3>1. upto'[j] = l
      BY <1>1, <1>2, <2>5
    <3>2. \A e \in Changes(topic) : e.key = k => e.lsn <= l
      BY <1>2, <1>6, <2>5, Positions
    <3>3. QED
      BY <1>7, <2>5, <3>1, <3>2
  <2>6. CASE j = k /\ ~(upto[k] < l)
    <3>1. l <= upto[k] /\ upto[k] # pos
      BY <1>2, <2>6, Positions
    <3>2. upto'[j] = upto[j] /\ lost' = lost
      BY <1>1, <2>6, <3>1
    <3>3. c \in Changes(topic)
      <4>1. l \in base + 1 .. Lsn /\ Passed(l)
        BY <1>2, <1>4, <3>1, Positions DEF Passed
      <4>2. QED
        BY <1>12, <4>1 DEF c
    <3>4. Told(topic', k) = Told(topic, k)
      BY <1>2, <1>3, <1>7, <3>3
    <3>5. QED
      BY <2>1, <2>2, <2>6, <3>2, <3>4
  <2>7. QED
    BY <2>3, <2>4, <2>5, <2>6
<1>14. DeliveredInv'
  <2>1. SUFFICES ASSUME NEW m \in base + 1 .. Lsn, Passed(m)'
                 PROVE  ChangeEvent(m) \in Changes(topic')
    BY <1>1 DEF DeliveredInv, ChangeEvent
  <2>2. m \in 2 .. Lsn /\ wal[m].key \in Keys
    BY <1>4, <2>1, Positions
  <2>3. m = l \/ Passed(m)
    BY <1>1, <1>2, <1>8, <2>1, <2>2, Positions DEF Passed
  <2>4. QED
    BY <1>5, <1>12, <2>1, <2>3 DEF c
<1>15. SlotInv'
  BY <1>1, Positions DEF SourceInv, SlotInv
<1>16. QED
  BY <1>7, <1>10, <1>11, <1>13, <1>14, <1>15 DEF TopicInv

(* Storing a position, confirming it, pausing, resuming, dying: the topic  *)
(* stays as it is.                                                         *)
LEMMA QuietTopic ==
    ASSUME SourceInv, CommitOffset \/ ConfirmSlot \/ Pause \/ Resume \/ Crash
    PROVE  TopicInv' /\ DeliveredInv' /\ SlotInv'
<1>1. UNCHANGED <<wal, mode, base, todo, topic, upto, lost>> /\ Lsn' = Lsn
  BY DEF CommitOffset, ConfirmSlot, Pause, Resume, Crash, auxVars, Lsn
<1>2. \/ /\ task = "streaming" /\ UNCHANGED <<task, pos>>
         /\ \/ offset' = pos /\ slot' = slot
            \/ offset' = offset /\ slot' = offset /\ slot < offset
      \/ UNCHANGED <<task, pos, offset, slot>>
      \/ task' = "down" /\ UNCHANGED <<offset, slot>> /\ task # "unregistered"
  BY ConstantsAssumption DEF CommitOffset, ConfirmSlot, Pause, Resume, Crash, MayBounce, Phase
<1>3. TopicInv'
  BY <1>1, <1>2, SameTopic
<1>4. DeliveredInv'
  <2>1. SUFFICES ASSUME task' # "unregistered", NEW l \in base + 1 .. Lsn, Passed(l)'
                 PROVE  ChangeEvent(l) \in Changes(topic)
    BY <1>1 DEF DeliveredInv, ChangeEvent
  <2>2. task # "unregistered" /\ Passed(l)
    BY <1>1, <1>2, <2>1 DEF Passed
  <2>3. QED
    BY <2>1, <2>2 DEF SourceInv, DeliveredInv
<1>5. SlotInv'
  <2>1. SlotInv /\ (task = "streaming" => pos >= base /\ pos >= 1)
    BY Positions DEF SourceInv, PositionInv
  <2>2. QED
    BY <1>1, <1>2, <2>1, Positions DEF SlotInv, NoOffset
<1>6. QED
  BY <1>3, <1>4, <1>5

LEMMA InitTopic == SourceInit => SourceInv
<1> SUFFICES ASSUME SourceInit PROVE SourceInv
  OBVIOUS
<1>1. SourceTypeInv
  BY InitType
<1>2. Changes(topic) = {}
  BY DEF SourceInit, Changes
<1>3. \A k \in Keys : upto[k] = 0
  BY DEF SourceInit
<1>4. TopicInv
  BY <1>2, <1>3 DEF TopicInv, EventsFaithful, NewestInv, UptoInv, SnapshotInv, TopicExact,
     SourceInit
<1>5. DeliveredInv /\ SlotInv
  BY DEF DeliveredInv, SlotInv, SourceInit, NoOffset
<1>6. QED
  BY <1>1, <1>4, <1>5 DEF SourceInv

LEMMA TopicStep ==
    ASSUME SourceInv, [SourceNext]_sourceVars
    PROVE  SourceInv'
<1>1. SourceTypeInv /\ SourceTypeInv'
  BY TypeStep DEF SourceInv
<1>2. CASE UNCHANGED sourceVars
  <2>1. UNCHANGED <<wal, mode, task, paused, base, todo, pos, offset, slot, topic, bounces,
                    upto, lost>>
    BY <1>2 DEF sourceVars, connectVars, auxVars
  <2>2. TopicInv'
    BY <2>1, SameTopic
  <2>3. Lsn' = Lsn
    BY <2>1 DEF Lsn
  <2>4. DeliveredInv' /\ SlotInv'
    BY <2>1, <2>3 DEF SourceInv, DeliveredInv, Passed, ChangeEvent, SlotInv
  <2>5. QED
    BY <1>1, <2>2, <2>4 DEF SourceInv
<1>3. CASE SourceNext
  <2>1. CASE \E op \in {"c", "u", "d"}, k \in Keys, row \in Row : Write(op, k, row)
    BY <1>1, <2>1, WriteTopic DEF SourceInv
  <2>2. CASE RegisterConnector \/ RestartTasks \/ Recover
    <3>1. /\ StartTask(StoredByStop)
          /\ StoredByStop \in 0 .. Lsn
          /\ \/ task = "streaming" /\ StoredByStop = pos
             \/ task # "streaming" /\ StoredByStop = offset
      BY <1>1, <2>2, Starts
    <3>2. QED
      BY <1>1, <3>1, StartTopic DEF SourceInv
  <2>3. CASE \E k \in Keys : SnapshotRow(k)
    BY <1>1, <2>3, SnapshotRowTopic DEF SourceInv
  <2>4. CASE FinishSnapshot
    BY <1>1, <2>4, FinishSnapshotTopic DEF SourceInv
  <2>5. CASE StreamNext
    BY <1>1, <2>5, StreamNextTopic DEF SourceInv
  <2>6. CASE CommitOffset \/ ConfirmSlot \/ Pause \/ Resume \/ Crash
    BY <1>1, <2>6, QuietTopic DEF SourceInv
  <2>7. QED
    BY <1>1, <1>3, <2>1, <2>2, <2>3, <2>4, <2>5, <2>6, Steps
<1>4. QED
  BY <1>2, <1>3

LEMMA AlwaysSourceInv == SourceSpec => []SourceInv
<1>1. SourceInit => SourceInv
  BY InitTopic
<1>2. SourceInv /\ [SourceNext]_sourceVars => SourceInv'
  BY TopicStep
<1>3. QED
  BY <1>1, <1>2, PTL DEF SourceSpec

-----------------------------------------------------------------------------
(* What a consumer of the topic relies on, whatever it makes of it.        *)

(* A delete leaves no row behind, in the log and in its event.             *)
DeleteInv ==
    /\ \A l \in 2 .. Lsn : wal[l].op = "d" => wal[l].table[wal[l].key] = Gone
    /\ \A e \in Changes(topic) : e.op = "d" => e.val = Gone

(* The log is only appended to, and a record of a delete has no row.       *)
LEMMA LogGrows ==
    ASSUME SourceInv, [SourceNext]_sourceVars
    PROVE  \/ wal' = wal /\ Lsn' = Lsn
           \/ /\ Lsn' = Lsn + 1 /\ \A l \in 1 .. Lsn : wal'[l] = wal[l]
              /\ wal'[Lsn'].op = "d" => wal'[Lsn'].table[wal'[Lsn'].key] = Gone
              /\ topic' = topic /\ upto' = upto
<1>1. ASSUME NEW op \in {"c", "u", "d"}, NEW k \in Keys, NEW row \in Row, Write(op, k, row),
             op = "d" => row = Gone
      PROVE  /\ Lsn' = Lsn + 1 /\ \A l \in 1 .. Lsn : wal'[l] = wal[l]
             /\ wal'[Lsn'].op = "d" => wal'[Lsn'].table[wal'[Lsn'].key] = Gone
             /\ topic' = topic /\ upto' = upto
  <2>1. TypeOK /\ Rows \in Table
    BY Positions, LogFacts
  <2>2. /\ Lsn' = Lsn + 1 /\ \A l \in 1 .. Lsn : wal'[l] = wal[l]
        /\ wal'[Lsn'] = [op |-> op, key |-> k, table |-> [Rows EXCEPT ![k] = row]]
    BY <1>1, <2>1, WriteLog
  <2>3. [Rows EXCEPT ![k] = row][k] = row
    BY <2>1 DEF Table
  <2>4. wal'[Lsn'].op = op /\ wal'[Lsn'].key = k /\ wal'[Lsn'].table[k] = row
    BY <2>2, <2>3
  <2>5. topic' = topic /\ upto' = upto
    BY <1>1 DEF Write, auxVars
  <2>6. QED
    BY <1>1, <2>2, <2>4, <2>5
<1>2. CASE Writers
  <2>1. PICK k \in Keys : \/ \E v \in Vals : InsertRow(k, v) \/ UpdateRow(k, v)
                          \/ DeleteRow(k)
    BY <1>2 DEF Writers
  <2>2. CASE DeleteRow(k)
    BY <1>1, <2>2 DEF DeleteRow, Row
  <2>3. CASE \E v \in Vals : InsertRow(k, v) \/ UpdateRow(k, v)
    <3>1. PICK v \in Vals : Write("c", k, v) \/ Write("u", k, v)
      BY <2>3 DEF InsertRow, UpdateRow
    <3>2. QED
      BY <1>1, <3>1 DEF Row
  <2>4. QED
    BY <2>1, <2>2, <2>3
<1>3. CASE Worker \/ Operator \/ Crash
  <2>1. wal' = wal
    BY <1>3 DEF Worker, Operator, Crash, Capture, SnapshotRow, FinishSnapshot, StreamNext,
       CommitOffset, ConfirmSlot, Recover, RegisterConnector, Pause, Resume, RestartTasks,
       StartTask
  <2>2. QED
    BY <2>1 DEF Lsn
<1>4. CASE UNCHANGED sourceVars
  BY <1>4 DEF sourceVars, Lsn
<1>5. QED
  BY <1>2, <1>3, <1>4 DEF SourceNext

(* The topic is only appended to, and every new event of a delete is that  *)
(* of a record of the log.                                                 *)
LEMMA TopicGrows ==
    ASSUME SourceInv, [SourceNext]_sourceVars
    PROVE  /\ topic' = topic \/ Len(topic') > Len(topic)
           /\ Changes(topic) \subseteq Changes(topic')
           /\ \A e \in Changes(topic') :
                 \/ e \in Changes(topic) \/ e.op = "r"
                 \/ wal' = wal /\ \E l \in 2 .. Lsn : e = ChangeEvent(l)
           /\ \A k \in Keys : upto[k] <= upto'[k]
<1>1. TypeOK /\ topic \in Seq(Event) /\ \A k \in Keys : upto[k] \in 0 .. Lsn
  BY Positions DEF TypeOK
<1>2. CASE topic' = topic /\ upto' = upto
  BY <1>1, <1>2, Positions
<1>3. ASSUME NEW k \in Keys, SnapshotRow(k)
      PROVE  /\ Len(topic') > Len(topic)
             /\ Changes(topic) \subseteq Changes(topic')
             /\ \A e \in Changes(topic') : e \in Changes(topic) \/ e.op = "r"
             /\ \A j \in Keys : upto[j] <= upto'[j]
  <2> DEFINE c == [op |-> "r", key |-> k, val |-> wal[base].table[k], lsn |-> base]
  <2>1. topic' = Append(topic, c) /\ upto' = [upto EXCEPT ![k] = base] /\ task = "snapshot"
    BY <1>3 DEF SnapshotRow
  <2>2. c \in Event /\ c.op = "r"
    BY <2>1, SnapshotEvent DEF SourceInv
  <2> HIDE DEF c
  <2>3. Changes(topic') = Changes(topic) \cup {c}
    BY <1>1, <2>1, <2>2, ChangesAppend
  <2>4. \A j \in Keys : upto[j] <= base
    BY <2>1 DEF SourceInv, TopicInv, UptoInv
  <2>5. \A j \in Keys : upto[j] <= upto'[j]
    BY <1>1, <2>1, <2>4, Positions
  <2>6. Len(topic') > Len(topic)
    BY <1>1, <2>1, <2>2
  <2>7. QED
    BY <2>2, <2>3, <2>5, <2>6
<1>4. CASE FinishSnapshot
  <2>1. task = "snapshot" /\ topic' = topic /\ upto' = [k \in Keys |-> base]
    BY <1>4 DEF FinishSnapshot
  <2>2. \A j \in Keys : upto[j] <= upto'[j]
    BY <2>1 DEF SourceInv, TopicInv, UptoInv
  <2>3. QED
    BY <2>1, <2>2
<1>5. CASE StreamNext
  <2> DEFINE l == pos + 1
             c == ChangeEvent(l)
  <2>1. /\ task = "streaming" /\ pos < Lsn /\ wal' = wal
        /\ upto' = [j \in Keys |-> IF upto[j] = pos \/ (j = wal[l].key /\ upto[j] < l)
                                   THEN l ELSE upto[j]]
        /\ topic' = topic \o <<c, Tombstone(wal[l].key)>> \/ topic' = Append(topic, c)
    BY <1>5 DEF StreamNext
  <2>2. l \in 2 .. Lsn /\ c \in Event /\ Tombstone(wal[l].key) \in Event /\ c.op # "t"
    <3>1. /\ l \in 2 .. Lsn /\ c \in Event /\ Tombstone(wal[l].key) \in Event
          /\ wal[l].op \in {"c", "u", "d"}
      BY <2>1, StreamedEvents DEF SourceInv
    <3>2. QED
      BY <3>1 DEF ChangeEvent
  <2> HIDE DEF c
  <2>3. Changes(topic') = Changes(topic) \cup {c}
    <3>1. Changes(Append(topic, c)) = Changes(topic) \cup {c}
      BY <1>1, <2>2, ChangesAppend
    <3>2. Changes(topic \o <<c, Tombstone(wal[l].key)>>) = Changes(topic) \cup {c}
      BY <1>1, <2>2, ChangesAppendTwo DEF Tombstone
    <3>3. QED
      BY <2>1, <3>1, <3>2
  <2>4. Len(topic') > Len(topic)
    BY <1>1, <2>1, <2>2
  <2>5. \A j \in Keys : upto[j] <= upto'[j]
    BY <1>1, <2>1, Positions
  <2>6. QED
    BY <2>1, <2>2, <2>3, <2>4, <2>5 DEF c
<1>6. CASE \/ Writers \/ CommitOffset \/ ConfirmSlot \/ Recover \/ Operator \/ Crash
           \/ UNCHANGED sourceVars
  BY <1>2, <1>6 DEF Writers, InsertRow, UpdateRow, DeleteRow, Write, CommitOffset, ConfirmSlot,
     Recover, Operator, RegisterConnector, Pause, Resume, RestartTasks, Crash, StartTask,
     sourceVars, auxVars
<1>7. QED
  BY <1>3, <1>4, <1>5, <1>6 DEF SourceNext, Worker, Capture

(* Deletes stay deletes.                                                   *)
LEMMA DeleteStep ==
    ASSUME SourceInv, DeleteInv, [SourceNext]_sourceVars
    PROVE  DeleteInv'
<1>1. \A l \in 2 .. Lsn' : wal'[l].op = "d" => wal'[l].table[wal'[l].key] = Gone
  BY LogGrows, Positions DEF DeleteInv
<1>2. ASSUME NEW e \in Changes(topic'), e.op = "d"
      PROVE  e.val = Gone
  <2>1. CASE e \in Changes(topic)
    BY <1>2, <2>1 DEF DeleteInv
  <2>2. CASE e \notin Changes(topic)
    <3>1. PICK l \in 2 .. Lsn : e = ChangeEvent(l)
      BY <1>2, <2>2, TopicGrows
    <3>2. e.op = wal[l].op /\ e.val = wal[l].table[wal[l].key]
      BY <3>1 DEF ChangeEvent
    <3>3. QED
      BY <1>2, <3>2 DEF DeleteInv
  <2>3. QED
    BY <2>1, <2>2
<1>3. QED
  BY <1>1, <1>2 DEF DeleteInv

-----------------------------------------------------------------------------
(* The newest event of a key shows its row at the LSN the topic accounts   *)
(* for: what CDC-7 and cap1 rely on when they keep one change per key.     *)
THEOREM TopicIsExact == SourceSpec => []TopicExact
<1>1. SourceInv => TopicExact
  BY DEF SourceInv, TopicInv
<1>2. QED
  BY <1>1, AlwaysSourceInv, PTL

(* A restart re-reads from a stored offset behind which no change is       *)
(* missing, and Postgres still retains what comes after it.                *)
THEOREM NothingSkipped == SourceSpec => []AtLeastOnce
<1>1. SourceInv => AtLeastOnce
  <2>1. SUFFICES ASSUME SourceInv PROVE AtLeastOnce
    OBVIOUS
  <2>2. offset # NoOffset => slot <= offset
    BY <2>1 DEF SourceInv, SlotInv
  <2>3. task = "unregistered" => offset = 0
    BY <2>1, Positions DEF PositionInv
  <2>4. ASSUME NEW l \in base + 1 .. offset
        PROVE  ChangeEvent(l) \in Changes(topic)
    <3>1. task # "unregistered" /\ l \in base + 1 .. Lsn /\ Passed(l)
      BY <2>1, <2>3, <2>4, Positions DEF Passed
    <3>2. QED
      BY <2>1, <3>1 DEF SourceInv, DeliveredInv
  <2>5. QED
    BY <2>2, <2>4 DEF AtLeastOnce
<1>2. QED
  BY <1>1, AlwaysSourceInv, PTL
=============================================================================
