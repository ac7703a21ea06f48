-------------------------- MODULE CdcMirror_proofs --------------------------
(***************************************************************************)
(* What the MERGE makes of a topic that can be trusted: the mirror is      *)
(* exact at the LSN it was merged at, moves only forward, and a replay     *)
(* changes nothing; for every set of keys and rows, mode and bound.  And   *)
(* where every merged batch is complete, the mirror implements Replica.    *)
(***************************************************************************)
EXTENDS CdcMirror, CdcSource_proofs, FiniteSetTheorems, SequenceTheorems

(* A row of the mirror comes from an event, so that a MERGE reaches every  *)
(* row it has to replace.                                                  *)
KnownInv == \A k \in Keys : mirror[k] # Gone => \E e \in Changes(topic) : e.key = k

(* What the mirror was merged at lies behind what the topic accounts for.  *)
BehindInv == \A k \in Keys : at.upto[k] <= upto[k]

(* Just after a MERGE, the mirror is what the topic tells.                 *)
FreshInv ==
    merged > 0 /\ merged = Len(topic) => \A k \in Keys : mirror[k] = Told(topic, k)

MirrorInv ==
    /\ SourceInv /\ MirrorTypeOK /\ DeleteInv
    /\ KnownInv /\ BehindInv /\ FreshInv /\ MirrorExact

-----------------------------------------------------------------------------
(* Keeping the newest change per key and merging it leaves the row that    *)
(* the topic tells of, whatever row the mirror had before.                 *)
LEMMA MergedIsTold ==
    ASSUME SourceInv, MirrorTypeOK, DeleteInv, KnownInv, NEW k \in Keys
    PROVE  MergeInto(mirror, Newest(Changes(topic)))[k] = Told(topic, k)
<1> DEFINE changes == Changes(topic)
           batch == Newest(changes)
           NewestOf(j) == CHOOSE e \in changes : e.key = j /\ IsNewest(e, changes)
<1>1. TypeOK /\ EventsFaithful /\ NewestInv /\ mirror \in Table
  BY DEF SourceInv, SourceTypeInv, TopicInv, MirrorTypeOK
<1>2. \A e \in changes : e \in Event /\ e.key \in Keys
  BY <1>1, ChangesType
<1>3. ASSUME NEW j \in Keys, \E e \in changes : e.key = j
      PROVE  NewestOf(j) \in changes /\ NewestOf(j).key = j /\ IsNewest(NewestOf(j), changes)
  <2>1. \E e \in changes : e.key = j /\ IsNewest(e, changes)
    BY <1>1, <1>3 DEF NewestInv
  <2>2. QED
    BY <2>1
<1>4. batch = {NewestOf(j) : j \in {e.key : e \in changes}}
  BY DEF Newest
<1> HIDE DEF NewestOf, batch
<1>5. ASSUME NEW s \in batch
      PROVE  s \in changes /\ IsNewest(s, changes)
  <2>1. PICK e \in changes : s = NewestOf(e.key)
    BY <1>4, <1>5
  <2>2. QED
    BY <1>2, <1>3, <2>1
<1>6. CASE \E e \in changes : e.key = k
  <2>1. \E s \in batch : s.key = k
    <3>1. NewestOf(k) \in batch /\ NewestOf(k).key = k
      BY <1>3, <1>4, <1>6
    <3>2. QED
      BY <3>1
  <2> DEFINE s == CHOOSE t \in batch : t.key = k
  <2>2. s \in batch /\ s.key = k
    BY <2>1
  <2>3. MergeInto(mirror, batch)[k] = Merged(mirror[k], s)
    BY <2>1 DEF MergeInto
  <2> HIDE DEF s
  <2>4. s \in changes /\ IsNewest(s, changes)
    BY <1>5, <2>2
  <2>5. Told(topic, k) = s.val
    BY <1>1, <2>2, <2>4, ToldNow DEF EventsFaithful
  <2>6. s.op = "d" => s.val = Gone
    BY <2>4 DEF DeleteInv
  <2>7. Merged(mirror[k], s) = s.val
    BY <2>6 DEF Merged
  <2>8. QED
    BY <2>3, <2>5, <2>7 DEF batch
<1>7. CASE \A e \in changes : e.key # k
  <2>1. Told(topic, k) = Gone
    BY <1>7, ToldNothing
  <2>2. \A s \in batch : s.key # k
    BY <1>5, <1>7
  <2>3. MergeInto(mirror, batch)[k] = mirror[k]
    BY <2>2 DEF MergeInto
  <2>4. mirror[k] = Gone
    BY <1>7 DEF KnownInv
  <2>5. QED
    BY <2>1, <2>3, <2>4 DEF batch
<1>8. QED
  BY <1>6, <1>7

LEMMA InitMirror == Init => MirrorInv
<1> SUFFICES ASSUME Init PROVE MirrorInv
  OBVIOUS
<1>1. SourceInv /\ SourceInit
  BY InitTopic DEF Init
<1>2. Changes(topic) = {} /\ Lsn = 1 /\ topic = <<>>
  BY <1>1 DEF SourceInit, Changes, Lsn
<1>3. mirror = Empty /\ merged = 0 /\ at = Nowhere
  BY DEF Init
<1>4. MirrorTypeOK
  <2>1. Empty \in Table
    BY DEF Empty, Table, Row
  <2>2. Nowhere \in Position
    BY <1>2 DEF Nowhere, Position
  <2>3. QED
    BY <1>1, <1>2, <1>3, <2>1, <2>2, Positions DEF MirrorTypeOK
<1>5. DeleteInv
  BY <1>2 DEF DeleteInv
<1>6. KnownInv /\ FreshInv /\ MirrorExact
  BY <1>3 DEF KnownInv, Empty, FreshInv, MirrorExact, Nowhere
<1>7. BehindInv
  <2>1. \A k \in Keys : at.upto[k] = 0 /\ upto[k] = 0
    BY <1>1, <1>3 DEF Nowhere, SourceInit
  <2>2. \A k \in Keys : at.upto[k] <= upto[k]
    <3>1. 0 <= 0
      OBVIOUS
    <3>2. QED
      BY <2>1, <3>1, Zenon
  <2>3. QED
    BY <2>2 DEF BehindInv
<1>8. QED
  BY <1>1, <1>4, <1>5, <1>6, <1>7 DEF MirrorInv

(* The parts of Position, for arithmetic.                                  *)
LEMMA AtType ==
    ASSUME MirrorInv
    PROVE  /\ at.lost \subseteq Keys /\ at.upto \in [Keys -> 0 .. Lsn]
           /\ \A k \in Keys : at.upto[k] \in 0 .. Lsn /\ at.upto[k] \in Nat
           /\ merged \in 0 .. Len(topic) /\ Len(topic) \in Nat /\ Lsn \in Nat
<1>1. at \in Position /\ Lsn \in Nat /\ topic \in Seq(Event)
  BY Positions DEF MirrorInv, MirrorTypeOK, TypeOK
<1>2. QED
  BY <1>1 DEF MirrorInv, MirrorTypeOK, Position

(* A step of the source leaves the mirror behind, never in contradiction.  *)
LEMMA SourceStep ==
    ASSUME MirrorInv, [SourceNext]_sourceVars, UNCHANGED sinkVars
    PROVE  MirrorInv'
<1>1. SourceInv /\ SourceInv'
  BY TopicStep DEF MirrorInv
<1>2. mirror' = mirror /\ merged' = merged /\ at' = at
  BY DEF sinkVars
<1>3. TypeOK' /\ Len(topic') \in Nat
  BY <1>1 DEF SourceInv, SourceTypeInv, TypeOK
<1>4. Lsn' \in Nat /\ Lsn <= Lsn' /\ \A l \in 1 .. Lsn : wal'[l] = wal[l]
  BY <1>1, LogGrows, Positions
<1>5. MirrorTypeOK'
  <2>1. at \in [upto : [Keys -> 0 .. Lsn'], lost : SUBSET Keys]
    <3>1. at \in [upto : [Keys -> 0 .. Lsn], lost : SUBSET Keys]
      BY DEF MirrorInv, MirrorTypeOK, Position
    <3>2. 0 .. Lsn \subseteq 0 .. Lsn'
      BY <1>4, AtType
    <3>3. at.upto \in [Keys -> 0 .. Lsn']
      BY <3>1, <3>2
    <3>4. QED
      BY <3>1, <3>3
  <2>2. merged \in 0 .. Len(topic')
    BY <1>1, <1>3, AtType, TopicGrows
  <2>3. mirror \in Table
    BY DEF MirrorInv, MirrorTypeOK
  <2>4. QED
    BY <1>2, <1>3, <2>1, <2>2, <2>3 DEF MirrorTypeOK, Position
<1>6. DeleteInv'
  BY <1>1, DeleteStep DEF MirrorInv
<1>7. KnownInv'
  BY <1>1, <1>2, TopicGrows DEF MirrorInv, KnownInv
<1>8. BehindInv'
  <2>1. SUFFICES ASSUME NEW k \in Keys PROVE at.upto[k] <= upto'[k]
    BY <1>2 DEF BehindInv
  <2>2. at.upto[k] <= upto[k] /\ upto[k] <= upto'[k]
    BY <1>1, TopicGrows DEF MirrorInv, BehindInv
  <2>3. at.upto[k] \in Nat /\ upto[k] \in Nat /\ upto'[k] \in Nat
    <3>1. upto' \in [Keys -> 0 .. Lsn']
      BY <1>3 DEF TypeOK
    <3>2. QED
      BY <1>1, <1>4, <3>1, AtType, Positions
  <2>4. QED
    BY <2>2, <2>3
<1>9. FreshInv'
  <2>1. topic' = topic \/ Len(topic') # merged
    BY <1>1, <1>3, AtType, TopicGrows
  <2>2. QED
    BY <1>2, <2>1 DEF MirrorInv, FreshInv
<1>10. MirrorExact'
  <2>1. \A k \in Keys : at.upto[k] > 0 => wal'[at.upto[k]] = wal[at.upto[k]]
    BY <1>4, AtType
  <2>2. QED
    BY <1>2, <2>1 DEF MirrorInv, MirrorExact
<1>11. QED
  BY <1>1, <1>5, <1>6, <1>7, <1>8, <1>9, <1>10 DEF MirrorInv

(* A merge brings every row to what the topic tells, a rebuild to nothing. *)
LEMMA MergeStep ==
    ASSUME MirrorInv, MergeChanges
    PROVE  MirrorInv' /\ \A k \in Keys : mirror'[k] = Told(topic, k)
<1>1. /\ UNCHANGED <<wal, mode, task, paused, base, todo, pos, offset, slot, topic, bounces,
                      upto, lost>>
      /\ merged' = Len(topic) /\ at' = [upto |-> upto, lost |-> lost]
      /\ mirror' = MergeInto(mirror, Newest(Changes(topic)))
  BY DEF MergeChanges, sourceVars, connectVars, auxVars
<1>2. \A k \in Keys : mirror'[k] = Told(topic, k)
  BY <1>1, MergedIsTold DEF MirrorInv
<1>3. SourceInv /\ SourceInv' /\ Lsn' = Lsn
  <2>1. UNCHANGED sourceVars
    BY DEF MergeChanges
  <2>2. QED
    BY <1>1, <2>1, TopicStep DEF MirrorInv, Lsn
<1>4. KnownInv'
  <2>1. SUFFICES ASSUME NEW k \in Keys, Told(topic, k) # Gone
                 PROVE  \E e \in Changes(topic) : e.key = k
    BY <1>1, <1>2 DEF KnownInv
  <2>2. QED
    BY <2>1, ToldNothing
<1>5. MirrorTypeOK'
  <2>1. mirror' \in Table
    <3>1. mirror' = [k \in Keys |-> mirror'[k]]
      BY <1>1 DEF MergeInto
    <3>2. ASSUME NEW k \in Keys PROVE mirror'[k] \in Row
      <4>1. CASE \A e \in Changes(topic) : e.key # k
        BY <1>2, <4>1, ToldNothing DEF Row
      <4>2. CASE \E e \in Changes(topic) : e.key = k
        <5>1. PICK e \in Changes(topic) : e.key = k /\ IsNewest(e, Changes(topic))
          BY <1>3, <4>2 DEF SourceInv, TopicInv, NewestInv
        <5>2. TypeOK /\ EventsFaithful
          BY <1>3, Positions DEF SourceInv, TopicInv
        <5>3. Told(topic, k) = wal[e.lsn].table[k] /\ e.lsn \in 1 .. Lsn
          BY <5>1, <5>2, ToldNow DEF EventsFaithful
        <5>4. wal[e.lsn].table \in Table
          BY <5>2, <5>3, LogFacts
        <5>5. QED
          BY <1>2, <5>3, <5>4 DEF Table
      <4>3. QED
        BY <4>1, <4>2
    <3>3. QED
      BY <3>1, <3>2 DEF Table
  <2>2. TypeOK' /\ upto \in [Keys -> 0 .. Lsn] /\ lost \subseteq Keys
    BY <1>3, Positions DEF SourceInv, SourceTypeInv, TypeOK
  <2>3. at' \in [upto : [Keys -> 0 .. Lsn'], lost : SUBSET Keys]
    BY <1>1, <1>3, <2>2
  <2>4. merged' \in 0 .. Len(topic')
    BY <1>1, AtType
  <2>5. QED
    BY <2>1, <2>2, <2>3, <2>4 DEF MirrorTypeOK, Position
<1>6. DeleteInv'
  BY <1>1, <1>3 DEF MirrorInv, DeleteInv
<1>7. BehindInv' /\ FreshInv'
  BY <1>1, <1>2, <1>3, Positions DEF BehindInv, FreshInv
<1>8. MirrorExact'
  BY <1>1, <1>2, <1>3 DEF SourceInv, TopicInv, TopicExact, MirrorExact
<1>9. QED
  BY <1>2, <1>3, <1>4, <1>5, <1>6, <1>7, <1>8 DEF MirrorInv

LEMMA RebuildStep ==
    ASSUME MirrorInv, RecreateMirror
    PROVE  MirrorInv'
<1>1. UNCHANGED <<wal, mode, task, paused, base, todo, pos, offset, slot, topic, bounces,
                  upto, lost>>
  BY DEF RecreateMirror, sourceVars, connectVars, auxVars
<1>2. mirror' = Empty /\ merged' = 0 /\ at' = Nowhere
  BY DEF RecreateMirror
<1>3. SourceInv /\ SourceInv' /\ Lsn' = Lsn
  <2>1. UNCHANGED sourceVars
    BY DEF RecreateMirror
  <2>2. QED
    BY <1>1, <2>1, TopicStep DEF MirrorInv, Lsn
<1>4. MirrorTypeOK'
  <2>1. Empty \in Table
    BY DEF Empty, Table, Row
  <2>2. Nowhere \in [upto : [Keys -> 0 .. Lsn'], lost : SUBSET Keys]
    BY <1>3, AtType DEF Nowhere
  <2>3. TypeOK' /\ 0 \in 0 .. Len(topic')
    BY <1>1, <1>3, AtType DEF SourceInv, SourceTypeInv
  <2>4. QED
    BY <1>2, <2>1, <2>2, <2>3 DEF MirrorTypeOK, Position
<1>5. DeleteInv'
  BY <1>1, <1>3 DEF MirrorInv, DeleteInv
<1>6. KnownInv' /\ FreshInv' /\ MirrorExact'
  BY <1>2 DEF KnownInv, Empty, FreshInv, MirrorExact, Nowhere
<1>7. BehindInv'
  BY <1>1, <1>2, <1>3, Positions DEF BehindInv, Nowhere
<1>8. QED
  BY <1>3, <1>4, <1>5, <1>6, <1>7 DEF MirrorInv

LEMMA MirrorStep ==
    ASSUME MirrorInv, [Next]_vars
    PROVE  MirrorInv'
<1>1. CASE UNCHANGED vars
  BY <1>1, SourceStep DEF vars
<1>2. CASE Next
  BY <1>2, SourceStep, MergeStep, RebuildStep DEF Next
<1>3. QED
  BY <1>1, <1>2

LEMMA AlwaysMirrorInv == Spec => []MirrorInv
<1>1. Init => MirrorInv
  BY InitMirror
<1>2. MirrorInv /\ [Next]_vars => MirrorInv'
  BY MirrorStep
<1>3. QED
  BY <1>1, <1>2, PTL DEF Spec

-----------------------------------------------------------------------------
(* The mirror's columns keep their types and merged never passes the       *)
(* topic's end (the batch read of MergeChanges).                           *)
THEOREM MirrorTypeCorrect == Spec => []MirrorTypeOK
<1>1. MirrorInv => MirrorTypeOK
  BY DEF MirrorInv
<1>2. QED
  BY <1>1, AlwaysMirrorInv, PTL

(* Every row of the mirror is the source's row at the LSN the merged topic *)
(* accounted for: dedup by LSN and the three WHEN clauses lose nothing.    *)
THEOREM MirrorIsExact == Spec => []MirrorExact
<1>1. MirrorInv => MirrorExact
  BY DEF MirrorInv
<1>2. QED
  BY <1>1, AlwaysMirrorInv, PTL

(* A merge after any redelivery never takes a row back to an earlier point *)
(* of the log than the mirror was at.                                      *)
THEOREM MirrorMovesForward == Spec => MirrorForward
<1> DEFINE Forward ==
        merged > 0 /\ merged' > 0 =>
            \A k \in Keys \ at'.lost :
                at.upto[k] > 0 => \E n \in at.upto[k] .. Lsn : mirror'[k] = wal[n].table[k]
<1>1. ASSUME MirrorInv, [Next]_vars PROVE Forward
  <2>1. SUFFICES ASSUME merged' > 0, NEW k \in Keys \ at'.lost, at.upto[k] > 0
                 PROVE  \E n \in at.upto[k] .. Lsn : mirror'[k] = wal[n].table[k]
    OBVIOUS
  <2>2. CASE UNCHANGED sinkVars
    <3>1. mirror'[k] = wal[at.upto[k]].table[k]
      BY <1>1, <2>1, <2>2 DEF sinkVars, MirrorInv, MirrorExact
    <3>2. at.upto[k] \in at.upto[k] .. Lsn
      BY <1>1, AtType
    <3>3. QED
      BY <3>1, <3>2
  <2>3. CASE MergeChanges
    <3>1. mirror'[k] = Told(topic, k) /\ k \notin lost
      BY <1>1, <2>1, <2>3, MergeStep DEF MergeChanges
    <3>2. at.upto[k] <= upto[k] /\ upto[k] \in 0 .. Lsn /\ at.upto[k] \in Nat
      BY <1>1, AtType, Positions DEF MirrorInv, BehindInv
    <3>3. upto[k] > 0 /\ upto[k] \in at.upto[k] .. Lsn
      BY <1>1, <2>1, <3>2, AtType
    <3>4. Told(topic, k) = wal[upto[k]].table[k]
      BY <1>1, <3>1, <3>3 DEF MirrorInv, SourceInv, TopicInv, TopicExact
    <3>5. QED
      BY <3>1, <3>3, <3>4
  <2>4. CASE RecreateMirror
    BY <2>1, <2>4 DEF RecreateMirror
  <2>5. QED
    BY <1>1, <2>2, <2>3, <2>4 DEF Next, vars
<1>2. QED
  BY <1>1, AlwaysMirrorInv, PTL DEF Spec, MirrorForward

(* Merging the same topic again changes no row (the CDC-7 replay).         *)
THEOREM ReplayChangesNothing == Spec => ReplayIsNoOp
<1>1. ASSUME MirrorInv, MergeChanges, merged = Len(topic), merged > 0
      PROVE  mirror' = mirror
  <2>1. \A k \in Keys : mirror'[k] = Told(topic, k) /\ mirror[k] = Told(topic, k)
    BY <1>1, MergeStep DEF MirrorInv, FreshInv
  <2>2. mirror \in Table /\ mirror' \in Table
    BY <1>1, MergeStep DEF MirrorInv, MirrorTypeOK
  <2>3. QED
    BY <2>1, <2>2 DEF Table
<1>2. QED
  BY <1>1, AlwaysMirrorInv, PTL DEF Spec, ReplayIsNoOp

-----------------------------------------------------------------------------
(***************************************************************************)
(* The mirror implements Replica.  That needs more than an exact mirror:   *)
(* all its rows must be from one point of the log.  They are when every    *)
(* merged batch is complete, as in CdcReplica.cfg: the one snapshot ends   *)
(* before the first merge and the first write (the wait for its events is  *)
(* as long as it takes), and a task that stops has stored an offset.       *)
(***************************************************************************)
CompleteBatches ==
    /\ Modes = {"initial"}
    /\ WritersWait /\ ~WaitExpires
    /\ Bounceable \subseteq {"stored"}
    /\ IsFiniteSet(Keys) /\ SeedTable # Empty

Seeded == {k \in Keys : SeedTable[k] # Gone}

(* Before the connector is registered nobody writes or merges.             *)
RegisterInv ==
    task = "unregistered" => topic = <<>> /\ Lsn = 1 /\ \A k \in Keys : upto[k] = 0

(* During the snapshot every event of it is either on the topic or due.    *)
SnapshottingInv ==
    task = "snapshot" =>
        /\ base = 1 /\ todo \subseteq Seeded
        /\ Len(topic) + Cardinality(todo) = SeedCount
        /\ \A e \in Changes(topic) : e.key \in Seeded
        /\ \A k \in Keys : upto[k] = IF k \in Seeded \ todo THEN 1 ELSE 0

(* After it the topic accounts for every key up to the same LSN, and the   *)
(* task is never behind by more than it has told already.                  *)
StreamingInv ==
    task \in {"streaming", "down"} =>
        /\ Len(topic) >= SeedCount
        /\ \E n \in 1 .. Lsn : n >= pos /\ n >= offset /\ \A k \in Keys : upto[k] = n
        /\ task = "streaming" => pos >= 1
        /\ task = "down" => offset >= 1

(* The mirror is the table at one point of the log.                        *)
MirrorIsAt(n) ==
    /\ n \in 0 .. Lsn
    /\ \E k \in Keys : at.upto[k] = n
    /\ \A k \in Keys : at.upto[k] <= n
    /\ mirror = IF n = 0 THEN Empty ELSE wal[n].table

CopyInv ==
    /\ MirrorInv
    /\ mode = "initial" /\ lost = {} /\ wal[1].table = SeedTable
    /\ RegisterInv /\ SnapshottingInv /\ StreamingInv
    /\ \E n \in 0 .. Lsn : MirrorIsAt(n)

LEMMA SeedCounts ==
    ASSUME CompleteBatches
    PROVE  /\ IsFiniteSet(Seeded) /\ SeedCount = Cardinality(Seeded)
           /\ SeedCount \in Nat /\ SeedCount >= 1
           /\ \E k \in Keys : k \in Seeded
<1>1. IsFiniteSet(Seeded) /\ SeedCount = Cardinality(Seeded)
  BY FS_Subset DEF CompleteBatches, Seeded, SeedCount
<1>2. \E k \in Keys : k \in Seeded
  BY ConstantsAssumption DEF CompleteBatches, Seeded, Empty, Table
<1>3. Cardinality(Seeded) \in Nat /\ Cardinality(Seeded) # 0
  BY <1>1, <1>2, FS_CardinalityType, FS_EmptySet
<1>4. QED
  BY <1>1, <1>2, <1>3

(* Writers and merges wait for the whole snapshot.                         *)
LEMMA ReadyIsComplete ==
    ASSUME CompleteBatches, CopyInv, Ready
    PROVE  /\ Len(topic) >= SeedCount
           /\ task \in {"snapshot", "streaming", "down"}
           /\ task = "snapshot" => todo = {}
<1>1. Len(topic) >= SeedCount
  BY DEF Ready, CompleteBatches
<1>2. TypeOK
  BY Positions DEF CopyInv, MirrorInv
<1>3. task # "unregistered"
  <2>1. topic = <<>> => Len(topic) = 0
    OBVIOUS
  <2>2. QED
    BY <1>1, <2>1, SeedCounts DEF CopyInv, RegisterInv
<1>4. ASSUME task = "snapshot" PROVE todo = {}
  <2>1. todo \subseteq Seeded /\ Len(topic) + Cardinality(todo) = SeedCount
    BY <1>4 DEF CopyInv, SnapshottingInv
  <2>2. IsFiniteSet(todo)
    BY <2>1, SeedCounts, FS_Subset
  <2>3. Cardinality(todo) \in Nat /\ Len(topic) \in Nat
    BY <1>2, <2>2, FS_CardinalityType DEF TypeOK
  <2>4. Cardinality(todo) = 0
    BY <1>1, <2>1, <2>3, SeedCounts
  <2>5. QED
    BY <2>2, <2>4, FS_EmptySet
<1>5. QED
  BY <1>1, <1>2, <1>3, <1>4 DEF TypeOK

(* What a step of the source leaves alone, the mirror included.            *)
LEMMA SourceKeepsPoint ==
    ASSUME CopyInv, [SourceNext]_sourceVars, UNCHANGED sinkVars
    PROVE  /\ \E n \in 0 .. Lsn' : MirrorIsAt(n)'
           /\ wal'[1].table = SeedTable
<1>1. SourceInv /\ Lsn \in Nat /\ Lsn >= 1 /\ Lsn' \in Nat /\ Lsn <= Lsn'
      /\ \A l \in 1 .. Lsn : wal'[l] = wal[l]
  BY LogGrows, Positions DEF CopyInv, MirrorInv
<1>2. mirror' = mirror /\ at' = at
  BY DEF sinkVars
<1>3. PICK n \in 0 .. Lsn : MirrorIsAt(n)
  BY DEF CopyInv
<1>4. n \in 0 .. Lsn' /\ (n # 0 => wal'[n] = wal[n])
  BY <1>1
<1>5. MirrorIsAt(n)'
  BY <1>2, <1>3, <1>4 DEF MirrorIsAt
<1>6. QED
  BY <1>1, <1>4, <1>5 DEF CopyInv

PhaseInv ==
    mode = "initial" /\ lost = {} /\ RegisterInv /\ SnapshottingInv /\ StreamingInv

LEMMA WritePhase ==
    ASSUME CompleteBatches, CopyInv, NEW op, NEW k, NEW row, Write(op, k, row)
    PROVE  PhaseInv'
<1>1. Ready
  BY DEF Write, CompleteBatches
<1>2. /\ task' = task /\ mode' = mode /\ lost' = lost /\ topic' = topic /\ base' = base
      /\ todo' = todo /\ upto' = upto /\ pos' = pos /\ offset' = offset
  BY DEF Write, connectVars, auxVars
<1>3. TypeOK /\ Lsn \in Nat
  BY Positions DEF CopyInv, MirrorInv
<1>4. Lsn' = Lsn + 1
  BY <1>3 DEF Write, TypeOK, Lsn
<1>5. SnapshottingInv'
  BY <1>2 DEF CopyInv, SnapshottingInv
<1>6. StreamingInv'
  <2>1. \A n \in 1 .. Lsn : n \in 1 .. Lsn'
    BY <1>3, <1>4
  <2>2. QED
    BY <1>2, <2>1 DEF CopyInv, StreamingInv
<1>7. RegisterInv'
  BY <1>1, <1>2, ReadyIsComplete DEF RegisterInv
<1>8. QED
  BY <1>2, <1>5, <1>6, <1>7 DEF PhaseInv, CopyInv

(* Only the first start of the task snapshots, and it finds what was seeded. *)
LEMMA RegisterPhase ==
    ASSUME CompleteBatches, CopyInv, RegisterConnector
    PROVE  PhaseInv'
<1>1. task = "unregistered" /\ StartTask(NoOffset) /\ mode = "initial" /\ lost = {}
  BY DEF RegisterConnector, CopyInv
<1>2. topic = <<>> /\ Lsn = 1 /\ \A k \in Keys : upto[k] = 0
  BY <1>1 DEF CopyInv, RegisterInv
<1>3. /\ task' = "snapshot" /\ base' = 1 /\ mode' = "initial" /\ topic' = <<>> /\ upto' = upto
      /\ todo' = {k \in Keys : Rows[k] # Gone}
      /\ lost' = lost \cup {k \in Keys : Rows[k] = Gone /\ Told(topic, k) # Gone}
  BY <1>1, <1>2 DEF StartTask
<1>4. Changes(topic) = {}
  BY <1>2 DEF Changes
<1>5. \A k \in Keys : Told(topic, k) = Gone
  BY <1>4, ToldNothing
<1>6. lost' = {}
  BY <1>1, <1>3, <1>5
<1>7. todo' = Seeded
  BY <1>2, <1>3 DEF CopyInv, Seeded, Rows
<1>8. Len(topic') = 0 /\ Changes(topic') = {}
  BY <1>2, <1>3, <1>4
<1>9. SnapshottingInv'
  <2>1. SeedCount' = SeedCount /\ Seeded' = Seeded
    BY DEF SeedCount, Seeded
  <2>2. Len(topic') + Cardinality(todo') = SeedCount
    BY <1>7, <1>8, SeedCounts
  <2>3. \A k \in Keys : upto'[k] = IF k \in Seeded \ todo' THEN 1 ELSE 0
    BY <1>2, <1>3, <1>7
  <2>4. QED
    BY <1>3, <1>7, <1>8, <2>1, <2>2, <2>3 DEF SnapshottingInv
<1>10. QED
  BY <1>3, <1>6, <1>9 DEF PhaseInv, RegisterInv, StreamingInv

(* A later start resumes from an offset that is stored.                    *)
LEMMA ResumePhase ==
    ASSUME CompleteBatches, CopyInv, RestartTasks \/ Recover
    PROVE  PhaseInv'
<1>1. TypeOK /\ Lsn \in Nat /\ offset \in 0 .. Lsn /\ pos \in 0 .. Lsn
  BY Positions DEF CopyInv, MirrorInv
<1>2. task \in {"streaming", "down"}
  BY <1>1 DEF RestartTasks, Recover, MayBounce, Phase, CompleteBatches, TypeOK
<1>3. PICK n \in 1 .. Lsn : n >= pos /\ n >= offset /\ \A k \in Keys : upto[k] = n
  BY <1>2 DEF CopyInv, StreamingInv
<1>4. PICK stored \in 1 .. n : StartTask(stored)
  <2>1. CASE RestartTasks
    <3>1. task = "streaming" /\ StartTask(pos)
      BY <1>1, <2>1 DEF RestartTasks, MayBounce, Phase, CompleteBatches, StoredByStop, TypeOK
    <3>2. pos \in 1 .. n
      BY <1>1, <1>3, <3>1 DEF CopyInv, StreamingInv
    <3>3. QED
      BY <3>1, <3>2
  <2>2. CASE Recover
    <3>1. task = "down" /\ StartTask(offset)
      BY <2>2 DEF Recover
    <3>2. offset \in 1 .. n
      BY <1>1, <1>3, <3>1 DEF CopyInv, StreamingInv
    <3>3. QED
      BY <3>1, <3>2
  <2>3. QED
    BY <2>1, <2>2
<1>5. stored # NoOffset /\ mode = "initial"
  BY <1>4 DEF NoOffset, CopyInv
<1>6. /\ task' = "streaming" /\ pos' = stored /\ offset' = stored
      /\ UNCHANGED <<wal, mode, topic, upto, lost>>
  BY <1>4, <1>5 DEF StartTask
<1>7. Lsn' = Lsn
  BY <1>6 DEF Lsn
<1>8. StreamingInv'
  <2>1. n >= pos' /\ n >= offset' /\ pos' >= 1
    BY <1>4, <1>6
  <2>2. QED
    BY <1>2, <1>3, <1>6, <1>7, <2>1 DEF StreamingInv, CopyInv
<1>9. QED
  BY <1>6, <1>8 DEF PhaseInv, CopyInv, RegisterInv, SnapshottingInv

LEMMA SnapshotRowPhase ==
    ASSUME CompleteBatches, CopyInv, NEW k \in Keys, SnapshotRow(k)
    PROVE  PhaseInv'
<1> DEFINE e == [op |-> "r", key |-> k, val |-> wal[base].table[k], lsn |-> base]
<1>1. /\ task = "snapshot" /\ k \in todo /\ topic' = Append(topic, e) /\ todo' = todo \ {k}
      /\ upto' = [upto EXCEPT ![k] = base] /\ lost' = lost \ {k}
      /\ mode' = mode /\ task' = task /\ base' = base
  BY DEF SnapshotRow
<1>2. SourceTypeInv /\ topic \in Seq(Event) /\ upto \in [Keys -> 0 .. Lsn]
  BY Positions DEF CopyInv, MirrorInv, SourceInv, TypeOK
<1>3. e \in Event
  BY <1>1, <1>2, SnapshotEvent
<1>4. /\ base = 1 /\ todo \subseteq Seeded /\ Len(topic) + Cardinality(todo) = SeedCount
      /\ \A f \in Changes(topic) : f.key \in Seeded
      /\ \A j \in Keys : upto[j] = IF j \in Seeded \ todo THEN 1 ELSE 0
  BY <1>1 DEF CopyInv, SnapshottingInv
<1>5. e.op = "r" /\ e.key = k
  OBVIOUS
<1> HIDE DEF e
<1>6. \A f \in Changes(topic') : f.key \in Seeded
  <2>1. Changes(topic') = Changes(topic) \cup {e}
    BY <1>1, <1>2, <1>3, <1>5, ChangesAppend
  <2>2. QED
    BY <1>1, <1>4, <1>5, <2>1
<1>7. Len(topic') + Cardinality(todo') = SeedCount
  <2>1. IsFiniteSet(todo)
    BY <1>4, SeedCounts, FS_Subset
  <2>2. Cardinality(todo \ {k}) = Cardinality(todo) - 1 /\ Cardinality(todo) \in Nat
    BY <1>1, <2>1, FS_RemoveElement, FS_CardinalityType
  <2>3. Len(topic') = Len(topic) + 1 /\ Len(topic) \in Nat
    BY <1>1, <1>2, <1>3
  <2>4. QED
    BY <1>1, <1>4, <2>2, <2>3
<1>8. \A j \in Keys : upto'[j] = IF j \in Seeded \ todo' THEN 1 ELSE 0
  BY <1>1, <1>2, <1>4
<1>9. SnapshottingInv'
  BY <1>1, <1>4, <1>6, <1>7, <1>8 DEF SnapshottingInv
<1>10. QED
  BY <1>1, <1>9 DEF PhaseInv, CopyInv, RegisterInv, StreamingInv

LEMMA FinishSnapshotPhase ==
    ASSUME CompleteBatches, CopyInv, FinishSnapshot
    PROVE  PhaseInv'
<1>1. /\ task = "snapshot" /\ todo = {} /\ task' = "streaming" /\ pos' = base
      /\ upto' = [k \in Keys |-> base]
      /\ UNCHANGED <<wal, mode, offset, topic, lost>>
  BY DEF FinishSnapshot
<1>2. base = 1 /\ Len(topic) + Cardinality(todo) = SeedCount
  BY <1>1 DEF CopyInv, SnapshottingInv
<1>3. TypeOK /\ PositionInv /\ Lsn \in Nat /\ Lsn >= 1
  BY Positions DEF CopyInv, MirrorInv
<1>4. offset = 0
  BY <1>1, <1>3 DEF CopyInv, PositionInv
<1>5. Len(topic) >= SeedCount
  BY <1>1, <1>2, <1>3, FS_EmptySet, SeedCounts DEF TypeOK
<1>6. Lsn' = Lsn /\ 1 \in 1 .. Lsn
  BY <1>1, <1>3 DEF Lsn
<1>7. StreamingInv'
  <2>1. 1 \in 1 .. Lsn' /\ 1 >= pos' /\ 1 >= offset' /\ pos' >= 1 /\ \A k \in Keys : upto'[k] = 1
    BY <1>1, <1>2, <1>4, <1>6
  <2>2. SeedCount' = SeedCount /\ topic' = topic /\ task' = "streaming"
    BY <1>1 DEF SeedCount
  <2>3. QED
    BY <1>5, <2>1, <2>2 DEF StreamingInv
<1>8. QED
  BY <1>1, <1>7 DEF PhaseInv, CopyInv, RegisterInv, SnapshottingInv

(* A redelivered change moves no key's LSN, a new one moves every key's.   *)
LEMMA StreamNextPhase ==
    ASSUME CompleteBatches, CopyInv, StreamNext
    PROVE  PhaseInv'
<1> DEFINE l == pos + 1
           c == ChangeEvent(l)
<1>1. /\ task = "streaming" /\ task' = task /\ mode' = mode /\ pos < Lsn /\ pos' = l
      /\ wal' = wal /\ offset' = offset
      /\ topic' = topic \o <<c, Tombstone(wal[l].key)>> \/ topic' = Append(topic, c)
      /\ upto' = [j \in Keys |-> IF upto[j] = pos \/ (j = wal[l].key /\ upto[j] < l)
                                 THEN l ELSE upto[j]]
      /\ lost' = IF upto[wal[l].key] < l THEN lost \ {wal[l].key} ELSE lost
  BY DEF StreamNext
<1>2. SourceTypeInv /\ TypeOK /\ Lsn \in Nat /\ pos \in 0 .. Lsn /\ offset \in 0 .. Lsn
  BY Positions DEF CopyInv, MirrorInv, SourceInv
<1>3. c \in Event /\ Tombstone(wal[l].key) \in Event
  BY <1>1, <1>2, StreamedEvents
<1>4. PICK n \in 1 .. Lsn : n >= pos /\ n >= offset /\ \A k \in Keys : upto[k] = n
  BY <1>1 DEF CopyInv, StreamingInv
<1>5. PICK m \in 1 .. Lsn : m >= l /\ m >= offset /\ \A k \in Keys : upto'[k] = m
  <2>1. CASE n = pos
    <3>1. l \in 1 .. Lsn /\ l >= offset
      BY <1>1, <1>2, <1>4, <2>1
    <3>2. \A k \in Keys : upto'[k] = l
      BY <1>1, <1>4, <2>1
    <3>3. QED
      BY <3>1, <3>2
  <2>2. CASE n # pos
    <3>1. n >= l
      BY <1>2, <1>4, <2>2
    <3>2. \A k \in Keys : upto'[k] = n
      BY <1>1, <1>2, <1>4, <2>2, <3>1
    <3>3. QED
      BY <1>4, <3>1, <3>2
  <2>3. QED
    BY <2>1, <2>2
<1> HIDE DEF c
<1>6. Len(topic') >= SeedCount
  <2>1. Len(topic') >= Len(topic) /\ Len(topic') \in Nat
    BY <1>1, <1>2, <1>3 DEF TypeOK
  <2>2. QED
    BY <1>1, <1>2, <2>1, SeedCounts DEF CopyInv, StreamingInv, TypeOK
<1>7. StreamingInv'
  <2>1. Lsn' = Lsn /\ SeedCount' = SeedCount /\ pos' >= 1
    BY <1>1, <1>2 DEF Lsn, SeedCount
  <2>2. QED
    BY <1>1, <1>5, <1>6, <2>1 DEF StreamingInv
<1>8. QED
  BY <1>1, <1>7 DEF PhaseInv, CopyInv, RegisterInv, SnapshottingInv

LEMMA QuietPhase ==
    ASSUME CompleteBatches, CopyInv,
           CommitOffset \/ ConfirmSlot \/ Pause \/ Resume \/ Crash \/ UNCHANGED sourceVars
    PROVE  PhaseInv'
<1>0. TypeOK /\ Lsn \in Nat /\ pos \in 0 .. Lsn /\ offset \in 0 .. Lsn
  BY Positions DEF CopyInv, MirrorInv
<1>1. /\ UNCHANGED <<wal, mode, base, todo, topic, upto, lost>>
      /\ \/ task' = task /\ pos' = pos /\ offset' = offset
         \/ task = "streaming" /\ task' = task /\ pos' = pos /\ offset' = pos
         \/ /\ task = "streaming" /\ offset # NoOffset
            /\ task' = "down" /\ pos' = 0 /\ offset' = offset
  BY <1>0 DEF CommitOffset, ConfirmSlot, Pause, Resume, Crash, sourceVars, connectVars, auxVars,
     MayBounce, Phase, CompleteBatches, TypeOK
<1>2. Lsn' = Lsn /\ Changes(topic') = Changes(topic) /\ SeedCount' = SeedCount
  BY <1>1 DEF Lsn, SeedCount
<1>4. StreamingInv'
  BY <1>0, <1>1, <1>2 DEF CopyInv, StreamingInv, NoOffset
<1>5. SnapshottingInv' /\ RegisterInv'
  BY <1>1, <1>2 DEF CopyInv, SnapshottingInv, RegisterInv
<1>6. QED
  BY <1>1, <1>4, <1>5 DEF PhaseInv, CopyInv

LEMMA CopySourceStep ==
    ASSUME CompleteBatches, CopyInv, [SourceNext]_sourceVars, UNCHANGED sinkVars
    PROVE  CopyInv'
<1>1. SourceTypeInv /\ MirrorInv'
  BY SourceStep DEF CopyInv, MirrorInv, SourceInv
<1>2. PhaseInv'
  <2>1. CASE UNCHANGED sourceVars
    BY <2>1, QuietPhase
  <2>2. CASE SourceNext
    BY <1>1, <2>2, Steps, WritePhase, RegisterPhase, ResumePhase, SnapshotRowPhase,
       FinishSnapshotPhase, StreamNextPhase, QuietPhase
  <2>3. QED
    BY <2>1, <2>2
<1>3. QED
  BY <1>1, <1>2, SourceKeepsPoint DEF CopyInv, PhaseInv

(* A merge brings the mirror to one point of the log, no earlier one than  *)
(* it was at.                                                              *)
LEMMA CopyMergeStep ==
    ASSUME CompleteBatches, CopyInv, MergeChanges
    PROVE  /\ CopyInv'
           /\ \A n \in 0 .. Lsn, m \in 0 .. Lsn' : MirrorIsAt(n) /\ MirrorIsAt(m)' => n <= m
           /\ \E m \in 1 .. Lsn' : MirrorIsAt(m)'
<1>1. /\ UNCHANGED <<wal, mode, task, paused, base, todo, pos, offset, slot, topic, bounces,
                      upto, lost>>
      /\ at' = [upto |-> upto, lost |-> lost] /\ Ready
  BY DEF MergeChanges, sourceVars, connectVars, auxVars
<1>2. MirrorInv /\ MirrorInv' /\ \A k \in Keys : mirror'[k] = Told(topic, k)
  BY MergeStep DEF CopyInv
<1>3. SourceInv /\ TypeOK /\ Lsn \in Nat /\ Lsn >= 1 /\ Lsn' = Lsn
  BY <1>1, Positions DEF CopyInv, MirrorInv, Lsn
<1>4. task \in {"snapshot", "streaming", "down"} /\ (task = "snapshot" => todo = {})
  BY <1>1, ReadyIsComplete
<1>5. PICK m \in 1 .. Lsn :
          /\ \E k \in Keys : upto[k] = m
          /\ \A k \in Keys : upto[k] = m \/ (m = 1 /\ upto[k] = 0 /\ k \notin Seeded
                                               /\ \A e \in Changes(topic) : e.key # k)
  <2>1. CASE task = "snapshot"
    <3>1. /\ \A e \in Changes(topic) : e.key \in Seeded
          /\ \A k \in Keys : upto[k] = IF k \in Seeded THEN 1 ELSE 0
      BY <1>4, <2>1 DEF CopyInv, SnapshottingInv
    <3>2. \E k \in Keys : upto[k] = 1
      BY <3>1, SeedCounts
    <3>3. 1 \in 1 .. Lsn
      BY <1>3
    <3>4. QED
      BY <3>1, <3>2, <3>3
  <2>2. CASE task # "snapshot"
    BY <1>4, <2>2, SeedCounts DEF CopyInv, StreamingInv
  <2>3. QED
    BY <2>1, <2>2
<1>6. mirror' = wal[m].table
  <2>1. ASSUME NEW k \in Keys PROVE mirror'[k] = wal[m].table[k]
    <3>1. CASE upto[k] = m
      <4>1. upto[k] > 0 /\ k \notin lost
        BY <1>5, <3>1 DEF CopyInv
      <4>2. QED
        BY <1>2, <3>1, <4>1 DEF CopyInv, MirrorInv, SourceInv, TopicInv, TopicExact
    <3>2. CASE upto[k] # m
      <4>1. m = 1 /\ k \notin Seeded /\ \A e \in Changes(topic) : e.key # k
        BY <1>5, <3>2
      <4>2. Told(topic, k) = Gone
        BY <4>1, ToldNothing
      <4>3. wal[1].table[k] = Gone
        BY <4>1 DEF CopyInv, Seeded
      <4>4. QED
        BY <1>2, <4>1, <4>2, <4>3
    <3>3. QED
      BY <3>1, <3>2
  <2>2. mirror' \in Table /\ wal[m].table \in Table
    BY <1>2, <1>3, LogFacts DEF MirrorInv, MirrorTypeOK
  <2>3. QED
    BY <2>1, <2>2 DEF Table
<1>7. \A k \in Keys : upto[k] <= m
  BY <1>3, <1>5
<1>8. MirrorIsAt(m)'
  <2>1. m \in 0 .. Lsn' /\ m # 0
    BY <1>3
  <2>2. (at.upto)' = upto
    BY <1>1
  <2>3. QED
    BY <1>1, <1>5, <1>6, <1>7, <2>1, <2>2 DEF MirrorIsAt
<1>9. PhaseInv'
  BY <1>1, QuietPhase DEF sourceVars, connectVars, auxVars
<1>10. CopyInv'
  <2>1. m \in 0 .. Lsn'
    BY <1>3
  <2>2. QED
    BY <1>1, <1>2, <1>8, <1>9, <2>1 DEF CopyInv, PhaseInv
<1>11. ASSUME NEW n \in 0 .. Lsn, NEW p \in 0 .. Lsn', MirrorIsAt(n), MirrorIsAt(p)'
       PROVE  n <= p
  <2>1. PICK k \in Keys : at.upto[k] = n
    BY <1>11 DEF MirrorIsAt
  <2>2. at.upto[k] <= upto[k] /\ upto[k] <= p
    <3>1. (at.upto)'[k] <= p
      BY <1>11 DEF MirrorIsAt
    <3>2. QED
      BY <1>1, <3>1 DEF CopyInv, MirrorInv, BehindInv
  <2>3. upto[k] \in Nat
    BY <1>3, Positions
  <2>4. QED
    BY <1>3, <2>1, <2>2, <2>3
<1>12. \E p \in 1 .. Lsn' : MirrorIsAt(p)'
  BY <1>3, <1>8
<1>13. QED
  BY <1>10, <1>11, <1>12

LEMMA CopyRebuildStep ==
    ASSUME CompleteBatches, CopyInv, RecreateMirror
    PROVE  CopyInv' /\ MirrorIsAt(0)'
<1>1. /\ UNCHANGED sourceVars /\ mirror' = Empty /\ at' = Nowhere
      /\ wal' = wal
  BY DEF RecreateMirror, sourceVars
<1>2. MirrorInv'
  BY RebuildStep DEF CopyInv
<1>3. PhaseInv'
  BY <1>1, QuietPhase
<1>4. Lsn' \in Nat
  BY <1>2, Positions DEF MirrorInv, SourceInv, SourceTypeInv, TypeOK
<1>5. MirrorIsAt(0)'
  <2>1. \A k \in Keys : at'.upto[k] = 0
    BY <1>1 DEF Nowhere
  <2>2. \E k \in Keys : k \in Keys
    BY SeedCounts
  <2>3. 0 \in 0 .. Lsn' /\ 0 <= 0
    BY <1>4
  <2>4. (at.upto)' = at'.upto
    OBVIOUS
  <2>5. \A k \in Keys : at'.upto[k] <= 0
    BY <2>1, <2>3
  <2>6. QED
    BY <1>1, <2>1, <2>2, <2>3, <2>4, <2>5 DEF MirrorIsAt
<1>6. 0 \in 0 .. Lsn'
  BY <1>4
<1>7. QED
  BY <1>1, <1>2, <1>3, <1>5, <1>6 DEF CopyInv, PhaseInv

LEMMA InitCopy == CompleteBatches /\ Init => CopyInv /\ MirrorIsAt(0)
<1> SUFFICES ASSUME CompleteBatches, Init PROVE CopyInv /\ MirrorIsAt(0)
  OBVIOUS
<1>1. MirrorInv
  BY InitMirror
<1>2. SourceInit /\ mirror = Empty /\ at = Nowhere
  BY DEF Init
<1>3. wal[1].table = SeedTable /\ Lsn = 1 /\ mode = "initial" /\ lost = {} /\ task = "unregistered"
  BY <1>2 DEF SourceInit, Lsn, CompleteBatches
<1>4. RegisterInv
  BY <1>2, <1>3 DEF SourceInit, RegisterInv
<1>5. MirrorIsAt(0)
  <2>1. \A k \in Keys : at.upto[k] = 0
    BY <1>2 DEF Nowhere
  <2>2. \E k \in Keys : k \in Keys
    BY SeedCounts
  <2>3. 0 \in 0 .. Lsn /\ 0 <= 0
    BY <1>3
  <2>4. \A k \in Keys : at.upto[k] <= 0
    BY <2>1, <2>3
  <2>5. QED
    BY <1>2, <2>1, <2>2, <2>3, <2>4 DEF MirrorIsAt
<1>6. 0 \in 0 .. Lsn
  BY <1>3
<1>7. QED
  BY <1>1, <1>3, <1>4, <1>5, <1>6 DEF CopyInv, SnapshottingInv, StreamingInv

-----------------------------------------------------------------------------
(* The refinement mapping: the history is the tables of the log, and the   *)
(* point the mirror is at is the highest LSN of at.upto.                   *)
History == [l \in 1 .. Lsn |-> wal[l].table]
Point   == CHOOSE n \in {at.upto[k] : k \in Keys} : \A k \in Keys : at.upto[k] <= n

LEMMA PointIs ==
    ASSUME CopyInv, NEW n \in 0 .. Lsn, MirrorIsAt(n)
    PROVE  Point = n
<1>1. n \in {at.upto[k] : k \in Keys} /\ \A k \in Keys : at.upto[k] <= n
  BY DEF MirrorIsAt
<1>2. Lsn \in Nat /\ \A k \in Keys : at.upto[k] \in Nat
  BY AtType DEF CopyInv
<1>3. ASSUME NEW m \in {at.upto[k] : k \in Keys}, \A k \in Keys : at.upto[k] <= m
      PROVE  m = n
  <2>1. m <= n /\ n <= m /\ m \in Nat /\ n \in Nat
    BY <1>1, <1>2, <1>3
  <2>2. QED
    BY <2>1
<1>4. QED
  BY <1>1, <1>3 DEF Point

(* The same of the next state.                                             *)
LEMMA PointThen ==
    ASSUME CopyInv', NEW n \in 0 .. Lsn', MirrorIsAt(n)'
    PROVE  Point' = n
<1>1. n \in {at'.upto[k] : k \in Keys} /\ \A k \in Keys : at'.upto[k] <= n
  BY DEF MirrorIsAt
<1>2. Lsn' \in Nat /\ \A k \in Keys : at'.upto[k] \in Nat
  BY DEF CopyInv, MirrorInv, MirrorTypeOK, Position, SourceInv, SourceTypeInv, TypeOK
<1>3. ASSUME NEW m \in {at'.upto[k] : k \in Keys}, \A k \in Keys : at'.upto[k] <= m
      PROVE  m = n
  <2>1. m <= n /\ n <= m /\ m \in Nat /\ n \in Nat
    BY <1>1, <1>2, <1>3
  <2>2. QED
    BY <2>1
<1>4. QED
  BY <1>1, <1>3 DEF Point

LEMMA HistoryType ==
    ASSUME TypeOK
    PROVE  /\ History \in Seq(Table) /\ Len(History) = Lsn
           /\ \A l \in 1 .. Lsn : History[l] = wal[l].table
           /\ Lsn \in Nat /\ Lsn >= 1
<1>1. Lsn \in Nat /\ Lsn >= 1 /\ \A l \in 1 .. Lsn : wal[l].table \in Table
  BY LogFacts
<1>2. QED
  BY <1>1 DEF History

LEMMA ThenHistoryType ==
    ASSUME TypeOK'
    PROVE  History' \in Seq(Table) /\ Len(History') = Lsn'
<1>1. wal' \in Seq(WalRecord) /\ Lsn' = Len(wal')
  BY DEF TypeOK, Lsn
<1>2. Lsn' \in Nat /\ \A l \in 1 .. Lsn' : wal'[l] \in WalRecord
  BY <1>1
<1>3. \A r \in WalRecord : r.table \in Table
  BY DEF WalRecord
<1>4. \A l \in 1 .. Lsn' : wal'[l].table \in Table
  BY <1>2, <1>3
<1>5. QED
  BY <1>2, <1>4 DEF History

(* A statement of a writer changes one row of the last table.              *)
LEMMA WriteChanges ==
    ASSUME TypeOK, TypeOK', NEW op \in {"c", "u", "d"}, NEW k \in Keys, NEW row \in Row,
           Write(op, k, row)
    PROVE  History' = Append(History, [History[Len(History)] EXCEPT ![k] = row])
<1> DEFINE t == [Rows EXCEPT ![k] = row]
<1>1. /\ Lsn' = Lsn + 1 /\ \A l \in 1 .. Lsn : wal'[l] = wal[l]
      /\ wal'[Lsn + 1].table = t
  <2>1. /\ Lsn' = Lsn + 1 /\ \A l \in 1 .. Lsn : wal'[l] = wal[l]
        /\ wal'[Lsn + 1] = [op |-> op, key |-> k, table |-> t]
    BY WriteLog
  <2>2. QED
    BY <2>1
<1>2. /\ History \in Seq(Table) /\ Len(History) = Lsn /\ Lsn \in Nat /\ Lsn >= 1
      /\ \A l \in 1 .. Lsn : History[l] = wal[l].table
  BY HistoryType
<1>3. History[Len(History)] = Rows
  BY <1>2 DEF Rows
<1>4. t \in Table
  <2>1. Rows \in Table
    BY LogFacts
  <2>2. QED
    BY <2>1 DEF Table
<1>5. History' = [l \in 1 .. Lsn + 1 |-> wal'[l].table]
  BY <1>1 DEF History
<1> HIDE DEF t
<1>6. /\ Append(History, t) \in Seq(Table) /\ Len(Append(History, t)) = Lsn + 1
      /\ \A l \in 1 .. Lsn + 1 : Append(History, t)[l] = IF l <= Lsn THEN History[l] ELSE t
  <2>1. /\ Append(History, t) \in Seq(Table) /\ Len(Append(History, t)) = Len(History) + 1
        /\ \A l \in 1 .. Len(History) + 1 :
               Append(History, t)[l] = IF l <= Len(History) THEN History[l] ELSE t
    BY <1>2, <1>4
  <2>2. QED
    BY <1>2, <2>1
<1>7. ASSUME NEW l \in 1 .. Lsn + 1
      PROVE  wal'[l].table = IF l <= Lsn THEN History[l] ELSE t
  <2>1. CASE l \in 1 .. Lsn
    BY <1>1, <1>2, <2>1
  <2>2. CASE l = Lsn + 1
    BY <1>1, <1>2, <2>2
  <2>3. QED
    BY <1>2, <2>1, <2>2
<1>8. History' = Append(History, t)
  <2>1. History' \in Seq(Table) /\ Len(History') = Lsn + 1
    BY <1>1, ThenHistoryType
  <2>2. \A l \in 1 .. Lsn + 1 : History'[l] = Append(History, t)[l]
    BY <1>5, <1>6, <1>7
  <2>3. QED
    BY <1>6, <2>1, <2>2, SeqEqual
<1>9. QED
  BY <1>3, <1>8 DEF t

LEMMA InitImplements == CompleteBatches /\ Init => Abstract!Init
<1> SUFFICES ASSUME CompleteBatches, Init PROVE Abstract!Init
  OBVIOUS
<1>1. CopyInv /\ MirrorIsAt(0) /\ TypeOK
  BY InitCopy, Positions DEF CopyInv, MirrorInv
<1>2. Lsn = 1 /\ wal[1].table \in Table
  BY <1>1, LogFacts DEF Init, SourceInit, Lsn
<1>3. History = <<wal[1].table>>
  BY <1>2 DEF History
<1>4. Point = 0
  BY <1>1, <1>2, PointIs
<1>5. mirror = Abstract!Empty
  BY DEF Init, Empty, Abstract!Empty
<1>6. History \in {<<t>> : t \in Abstract!Table}
  BY <1>2, <1>3 DEF Table, Abstract!Table
<1>7. QED
  BY <1>4, <1>5, <1>6 DEF Abstract!Init, History, Point

LEMMA StepImplements ==
    ASSUME CompleteBatches, CopyInv, [Next]_vars
    PROVE  [Abstract!Next]_(Abstract!vars)
<1>1. TypeOK /\ TypeOK' /\ Lsn \in Nat
  <2>1. MirrorInv /\ MirrorInv'
    BY MirrorStep DEF CopyInv
  <2>2. QED
    BY <2>1, Positions DEF MirrorInv, SourceInv, SourceTypeInv
<1>2. PICK n \in 0 .. Lsn : MirrorIsAt(n)
  BY DEF CopyInv
<1>3. Point = n
  BY <1>2, PointIs
<1>4. CASE UNCHANGED <<wal, mirror, at>>
  <2>1. History' = History /\ Point' = Point /\ mirror' = mirror
    BY <1>4 DEF History, Point, Lsn
  <2>2. QED
    BY <2>1 DEF Abstract!vars, History, Point
<1>5. ASSUME NEW op \in {"c", "u", "d"}, NEW k \in Keys, NEW row \in Row, Write(op, k, row),
             UNCHANGED sinkVars
      PROVE  Abstract!Next
  <2>1. History' = Append(History, [History[Len(History)] EXCEPT ![k] = row])
    BY <1>1, <1>5, WriteChanges
  <2>2. Point' = Point /\ mirror' = mirror
    BY <1>5 DEF sinkVars, Point
  <2>3. Abstract!Change
    BY <2>1, <2>2 DEF Abstract!Change, History, Point
  <2>4. QED
    BY <2>3 DEF Abstract!Next
<1>6. CASE MergeChanges
  <2>1. PICK m \in 1 .. Lsn' : MirrorIsAt(m)'
    BY <1>6, CopyMergeStep
  <2>2. CopyInv' /\ wal' = wal /\ Lsn' = Lsn
    BY <1>6, CopyMergeStep DEF MergeChanges, sourceVars, Lsn
  <2>3. m \in 0 .. Lsn' /\ m \in 0 .. Lsn /\ m # 0
    BY <1>1, <2>2
  <2>4. Point' = m
    BY <2>1, <2>2, <2>3, PointThen
  <2>5. n <= m
    BY <1>2, <1>6, <2>1, <2>3, CopyMergeStep
  <2>6. Len(History) = Lsn /\ \A l \in 1 .. Lsn : History[l] = wal[l].table
    BY <1>1, HistoryType
  <2>7. mirror' = History[m] /\ m \in 1 .. Len(History) /\ m >= Point /\ History' = History
    BY <1>1, <1>3, <2>1, <2>2, <2>3, <2>5, <2>6 DEF MirrorIsAt, History
  <2>8. Abstract!Sync
    BY <2>4, <2>7 DEF Abstract!Sync, History, Point
  <2>9. QED
    BY <2>8 DEF Abstract!Next
<1>7. CASE RecreateMirror
  <2>1. CopyInv' /\ MirrorIsAt(0)' /\ wal' = wal /\ mirror' = Empty /\ Lsn' = Lsn
    BY <1>7, CopyRebuildStep DEF RecreateMirror, sourceVars, Lsn
  <2>2. 0 \in 0 .. Lsn'
    BY <1>1, <2>1
  <2>3. Point' = 0 /\ History' = History
    BY <2>1, <2>2, PointThen DEF History
  <2>4. Abstract!Rebuild
    BY <2>1, <2>3 DEF Abstract!Rebuild, History, Point, Empty, Abstract!Empty
  <2>5. QED
    BY <2>4 DEF Abstract!Next
<1>8. CASE SourceNext /\ UNCHANGED sinkVars
  <2>1. CASE wal' = wal
    BY <1>4, <1>8, <2>1 DEF sinkVars
  <2>2. CASE wal' # wal
    <3>1. \E op \in {"c", "u", "d"}, k \in Keys, row \in Row : Write(op, k, row)
      BY <1>8, <2>2, Steps DEF CopyInv, MirrorInv, SourceInv, RegisterConnector, RestartTasks,
         Recover, StartTask, SnapshotRow, FinishSnapshot, StreamNext, CommitOffset, ConfirmSlot,
         Pause, Resume, Crash
    <3>2. QED
      BY <1>5, <1>8, <3>1
  <2>3. QED
    BY <2>1, <2>2
<1>9. CASE UNCHANGED vars
  BY <1>4, <1>9 DEF vars, sourceVars, sinkVars
<1>10. QED
  BY <1>6, <1>7, <1>8, <1>9 DEF Next

(* The mirror of a run whose snapshot is complete before anything else     *)
(* happens is a replica: empty, or the whole table as it stood at some LSN *)
(* that never goes back (cdc_ingest of capstone/cap1_pipeline.py).         *)
THEOREM MirrorImplementsReplica ==
    ASSUME CompleteBatches
    PROVE  Spec => ImplementsReplica
<1>1. Init => CopyInv
  BY InitCopy
<1>2. CopyInv /\ [Next]_vars => CopyInv'
  <2> SUFFICES ASSUME CopyInv, [Next]_vars PROVE CopyInv'
    OBVIOUS
  <2>1. CASE UNCHANGED vars
    BY <2>1, CopySourceStep DEF vars
  <2>2. CASE Next
    BY <2>2, CopySourceStep, CopyMergeStep, CopyRebuildStep DEF Next
  <2>3. QED
    BY <2>1, <2>2
<1>3. Init => Abstract!Init
  BY InitImplements
<1>4. CopyInv /\ [Next]_vars => [Abstract!Next]_(Abstract!vars)
  BY StepImplements
<1>5. QED
  BY <1>1, <1>2, <1>3, <1>4, PTL DEF Spec, ImplementsReplica, Abstract!Spec
=============================================================================
