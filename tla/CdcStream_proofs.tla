-------------------------- MODULE CdcStream_proofs --------------------------
(***************************************************************************)
(* Proofs about the streaming sink.  A batch sees only a piece of the      *)
(* topic, so a redelivery can take a row back; what is proved is that a    *)
(* batch that runs again changes nothing, and that the mirror is the table *)
(* once everything published has been consumed: the last change of a key   *)
(* on the topic always settles its row.                                    *)
(***************************************************************************)
EXTENDS CdcStream, CdcSource_proofs, WellFoundedInduction, SequenceTheorems

(* A set of numbers has a least one, and one that is bounded a greatest.   *)
LEMMA LeastExists ==
    ASSUME NEW T \in SUBSET Nat, T # {}
    PROVE  \E x \in T : \A y \in T : x <= y
<1> DEFINE Less == {p \in Nat \X Nat : p[1] < p[2]}
<1>1. IsWellFoundedOn(Less, Nat)
  BY NatLessThanWellFounded DEF OpToRel
<1> HIDE DEF Less
<1>2. PICK x \in T : \A y \in T : ~(<<y, x>> \in Less)
  BY <1>1, WFMin
<1>3. ASSUME NEW y \in T PROVE x <= y
  <2>1. x \in Nat /\ y \in Nat
    OBVIOUS
  <2>2. ~(y < x)
    BY <1>2, <2>1 DEF Less
  <2>3. QED
    BY <2>1, <2>2
<1>4. QED
  BY <1>3

LEMMA GreatestExists ==
    ASSUME NEW T \in SUBSET Nat, T # {}, NEW b \in Nat, \A x \in T : x <= b
    PROVE  \E x \in T : \A y \in T : y <= x
<1> DEFINE D == {b - x : x \in T}
<1>1. D \in SUBSET Nat /\ D # {}
  <2>1. \A x \in T : b - x \in Nat
    OBVIOUS
  <2>2. \E x \in T : b - x \in D
    OBVIOUS
  <2>3. QED
    BY <2>1, <2>2
<1>2. PICK d \in D : \A e \in D : d <= e
  BY <1>1, LeastExists
<1>3. PICK x \in T : d = b - x
  OBVIOUS
<1>4. ASSUME NEW y \in T PROVE y <= x
  <2>1. d <= b - y
    BY <1>2
  <2>2. QED
    BY <1>3, <2>1
<1>5. QED
  BY <1>4

(* So a set of changes that has one of a key has a newest one of it, and   *)
(* the dedup keeps exactly that one.                                       *)
LEMMA NewestExists ==
    ASSUME NEW changes, NEW b \in Nat, \A e \in changes : e.lsn \in Nat /\ e.lsn <= b,
           NEW f \in changes
    PROVE  \E e \in changes : e.key = f.key /\ IsNewest(e, changes)
<1> DEFINE lsns == {e.lsn : e \in {g \in changes : g.key = f.key}}
<1>1. lsns \in SUBSET Nat /\ lsns # {} /\ \A n \in lsns : n <= b
  OBVIOUS
<1>2. PICK n \in lsns : \A o \in lsns : o <= n
  BY <1>1, GreatestExists
<1>3. PICK e \in changes : e.key = f.key /\ e.lsn = n
  OBVIOUS
<1>4. IsNewest(e, changes)
  BY <1>2, <1>3 DEF IsNewest
<1>5. QED
  BY <1>3, <1>4

LEMMA DedupKeeps ==
    ASSUME NEW changes, NEW b \in Nat, \A e \in changes : e.lsn \in Nat /\ e.lsn <= b
    PROVE  /\ \A s \in Newest(changes) : s \in changes /\ IsNewest(s, changes)
           /\ \A f \in changes : \E s \in Newest(changes) : s.key = f.key
           /\ \A s, t \in Newest(changes) : s.key = t.key => s = t
<1> DEFINE NewestOf(k) == CHOOSE e \in changes : e.key = k /\ IsNewest(e, changes)
<1>1. ASSUME NEW f \in changes
      PROVE  NewestOf(f.key) \in changes /\ NewestOf(f.key).key = f.key
             /\ IsNewest(NewestOf(f.key), changes)
  BY NewestExists
<1>2. Newest(changes) = {NewestOf(k) : k \in {f.key : f \in changes}}
  BY DEF Newest
<1> HIDE DEF NewestOf
<1>3. ASSUME NEW s \in Newest(changes)
      PROVE  s \in changes /\ IsNewest(s, changes) /\ s = NewestOf(s.key)
  <2>1. PICK f \in changes : s = NewestOf(f.key)
    BY <1>2
  <2>2. QED
    BY <1>1, <2>1
<1>4. ASSUME NEW f \in changes PROVE \E s \in Newest(changes) : s.key = f.key
  <2>1. NewestOf(f.key) \in Newest(changes)
    BY <1>2
  <2>2. QED
    BY <1>1, <2>1
<1>5. ASSUME NEW s \in Newest(changes), NEW t \in Newest(changes), s.key = t.key
      PROVE  s = t
  BY <1>3, <1>5
<1>6. QED
  BY <1>3, <1>4, <1>5

(* The MERGE of a batch after itself changes nothing.                      *)
LEMMA MergeTwice ==
    ASSUME NEW table, NEW changes
    PROVE  MergeInto(MergeInto(table, changes), changes) = MergeInto(table, changes)
<1> DEFINE once == MergeInto(table, changes)
<1>1. \A row, s : Merged(Merged(row, s), s) = Merged(row, s)
  BY DEF Merged
<1>2. ASSUME NEW k \in Keys
      PROVE  MergeInto(once, changes)[k] = once[k]
  <2>1. once[k] = IF \E s \in changes : s.key = k
                  THEN Merged(table[k], CHOOSE s \in changes : s.key = k)
                  ELSE table[k]
    BY DEF MergeInto
  <2>2. MergeInto(once, changes)[k] = IF \E s \in changes : s.key = k
                  THEN Merged(once[k], CHOOSE s \in changes : s.key = k)
                  ELSE once[k]
    BY DEF MergeInto
  <2> HIDE DEF once
  <2>3. QED
    BY <1>1, <2>1, <2>2
<1>3. QED
  BY <1>2 DEF MergeInto

-----------------------------------------------------------------------------
(* A step of the source only adds to the end of the topic.                 *)
LEMMA TopicPrefix ==
    ASSUME SourceInv, [SourceNext]_sourceVars
    PROVE  /\ topic \in Seq(Event) /\ topic' \in Seq(Event)
           /\ Len(topic) \in Nat /\ Len(topic') \in Nat /\ Len(topic) <= Len(topic')
           /\ \A i \in 1 .. Len(topic) : topic'[i] = topic[i]
<1>1. topic \in Seq(Event) /\ topic' \in Seq(Event)
  BY TopicStep, Positions DEF SourceInv, SourceTypeInv, TypeOK
<1>2. CASE \E k \in Keys : SnapshotRow(k)
  <2>1. PICK k \in Keys : SnapshotRow(k)
    BY <1>2
  <2>2. [op |-> "r", key |-> k, val |-> wal[base].table[k], lsn |-> base] \in Event
    BY <2>1, SnapshotEvent DEF SourceInv, SnapshotRow
  <2>3. \E e \in Event : topic' = Append(topic, e)
    BY <2>1, <2>2 DEF SnapshotRow
  <2>4. QED
    BY <1>1, <2>3
<1>3. CASE StreamNext
  <2>1. ChangeEvent(pos + 1) \in Event /\ Tombstone(wal[pos + 1].key) \in Event
    BY <1>3, StreamedEvents DEF SourceInv, StreamNext
  <2>2. \E e, t \in Event : topic' = Append(topic, e) \/ topic' = topic \o <<e, t>>
    BY <1>3, <2>1 DEF StreamNext
  <2>3. QED
    BY <1>1, <2>2
<1>4. CASE topic' = topic
  BY <1>1, <1>4
<1>5. CASE \/ Writers \/ CommitOffset \/ ConfirmSlot \/ Recover \/ Operator \/ Crash
           \/ FinishSnapshot \/ UNCHANGED sourceVars
  BY <1>4, <1>5 DEF Writers, InsertRow, UpdateRow, DeleteRow, Write, CommitOffset, ConfirmSlot,
     Recover, Operator, RegisterConnector, Pause, Resume, RestartTasks, Crash, StartTask,
     FinishSnapshot, sourceVars, auxVars
<1>6. QED
  BY <1>2, <1>3, <1>5 DEF SourceNext, Worker, Capture

(* The changes of a piece of the topic, by index.                          *)
LEMMA PieceChanges ==
    ASSUME NEW log \in Seq(Event), NEW n \in Nat, NEW m \in Nat, m <= Len(log)
    PROVE  Changes(SubSeq(log, n + 1, m)) = {log[i] : i \in {j \in n + 1 .. m : log[j].op # "t"}}
<1> DEFINE piece == SubSeq(log, n + 1, m)
<1>1. \A i \in n + 1 .. m : i \in 1 .. Len(log) /\ log[i] \in Event
  OBVIOUS
<1>2. /\ piece \in Seq(Event) /\ Len(piece) = (IF n + 1 <= m THEN m - n ELSE 0)
      /\ \A i \in 1 .. m - n : piece[i] = log[n + i]
  <2>1. /\ piece \in Seq(Event) /\ Len(piece) = (IF n + 1 <= m THEN m - (n + 1) + 1 ELSE 0)
        /\ \A i \in 1 .. m - (n + 1) + 1 : piece[i] = log[(n + 1) + i - 1]
    BY <1>1, SubSeqProperties
  <2>2. QED
    BY <2>1
<1> HIDE DEF piece
<1>3. DOMAIN piece = 1 .. Len(piece)
  BY <1>2
<1>4. {piece[i] : i \in DOMAIN piece} = {log[i] : i \in n + 1 .. m}
  <2>1. ASSUME NEW i \in DOMAIN piece
        PROVE  n + i \in n + 1 .. m /\ piece[i] = log[n + i]
    BY <1>2, <1>3
  <2>2. ASSUME NEW i \in n + 1 .. m
        PROVE  i - n \in DOMAIN piece /\ piece[i - n] = log[i]
    BY <1>2, <1>3
  <2>3. QED
    BY <2>1, <2>2
<1>5. QED
  BY <1>4 DEF Changes, piece

-----------------------------------------------------------------------------
(* The last batch planned, and that running it again would change nothing. *)
StreamTypeInv ==
    /\ SourceInv /\ DeleteInv /\ StreamTypeOK
    /\ RerunIsNoOp

LEMMA StreamFacts ==
    ASSUME StreamTypeInv
    PROVE  /\ commit \in Nat /\ batch \in Nat /\ Len(topic) \in Nat
           /\ commit <= batch /\ batch <= Len(topic)
           /\ topic \in Seq(Event) /\ Lsn \in Nat /\ TypeOK /\ mirror \in Table
           /\ \A i \in 1 .. Len(topic) : topic[i] \in Event
           /\ \A i \in 1 .. Len(topic) : topic[i].op # "t" => topic[i] \in Changes(topic)
           /\ \A e \in Changes(topic) : e.key \in Keys /\ e.lsn \in Nat /\ e.lsn <= Lsn
<1>1. TypeOK /\ topic \in Seq(Event) /\ Lsn \in Nat
  BY Positions DEF StreamTypeInv, TypeOK
<1>2. commit \in Nat /\ batch \in Nat
  BY <1>1 DEF StreamTypeInv, StreamTypeOK
<1>3. \A i \in 1 .. Len(topic) : topic[i].op # "t" => topic[i] \in Changes(topic)
  BY <1>1 DEF Changes
<1>4. \A e \in Changes(topic) : e.key \in Keys /\ e.lsn \in Nat /\ e.lsn <= Lsn
  BY <1>1, ChangesType DEF StreamTypeInv, SourceInv, TopicInv, EventsFaithful
<1>5. QED
  BY <1>1, <1>2, <1>3, <1>4 DEF StreamTypeInv, StreamTypeOK

(* The planned batch: its changes by index, one upsert for every key in it *)
(* and that one as new as any of the key in the batch.                     *)
LEMMA UpsertFacts ==
    ASSUME StreamTypeInv
    PROVE  /\ \A s \in Upserts :
                 /\ \E j \in commit + 1 .. batch : topic[j] = s
                 /\ s \in Changes(topic)
                 /\ \A i \in commit + 1 .. batch :
                       topic[i].op # "t" /\ topic[i].key = s.key => topic[i].lsn <= s.lsn
           /\ \A i \in commit + 1 .. batch :
                 topic[i].op # "t" => \E s \in Upserts : s.key = topic[i].key
           /\ \A s, t \in Upserts : s.key = t.key => s = t
<1> DEFINE changes == Changes(SubSeq(topic, commit + 1, batch))
<1>1. changes = {topic[i] : i \in {j \in commit + 1 .. batch : topic[j].op # "t"}}
  BY StreamFacts, PieceChanges
<1>2. changes \subseteq Changes(topic)
  BY <1>1, StreamFacts
<1>3. Lsn \in Nat /\ \A e \in changes : e.lsn \in Nat /\ e.lsn <= Lsn
  BY <1>2, StreamFacts
<1> HIDE DEF changes
<1>4. /\ \A s \in Newest(changes) : s \in changes /\ IsNewest(s, changes)
      /\ \A f \in changes : \E s \in Newest(changes) : s.key = f.key
      /\ \A s, t \in Newest(changes) : s.key = t.key => s = t
  BY <1>3, DedupKeeps
<1>5. Upserts = Newest(changes)
  BY DEF Upserts, changes
<1>6. ASSUME NEW s \in Upserts
      PROVE  /\ \E j \in commit + 1 .. batch : topic[j] = s
             /\ s \in Changes(topic)
             /\ \A i \in commit + 1 .. batch :
                   topic[i].op # "t" /\ topic[i].key = s.key => topic[i].lsn <= s.lsn
  <2>1. s \in changes /\ IsNewest(s, changes)
    BY <1>4, <1>5
  <2>2. ASSUME NEW i \in commit + 1 .. batch, topic[i].op # "t", topic[i].key = s.key
        PROVE  topic[i].lsn <= s.lsn
    <3>1. topic[i] \in changes
      BY <1>1, <2>2
    <3>2. QED
      BY <2>1, <2>2, <3>1 DEF IsNewest
  <2>3. QED
    BY <1>1, <1>2, <2>1, <2>2
<1>7. ASSUME NEW i \in commit + 1 .. batch, topic[i].op # "t"
      PROVE  \E s \in Upserts : s.key = topic[i].key
  <2>1. topic[i] \in changes
    BY <1>1, <1>7
  <2>2. QED
    BY <1>4, <1>5, <2>1
<1>8. QED
  BY <1>4, <1>5, <1>6, <1>7

(* A MERGE leaves the row of a key with an upsert as the upsert says.      *)
LEMMA BatchRow ==
    ASSUME StreamTypeInv, NEW k \in Keys
    PROVE  /\ \A s \in Upserts : s.key = k => MergeInto(mirror, Upserts)[k] = s.val
           /\ (\A s \in Upserts : s.key # k) => MergeInto(mirror, Upserts)[k] = mirror[k]
<1>1. ASSUME NEW s \in Upserts, s.key = k
      PROVE  MergeInto(mirror, Upserts)[k] = s.val
  <2>1. s = CHOOSE t \in Upserts : t.key = k
    BY <1>1, UpsertFacts
  <2>2. MergeInto(mirror, Upserts)[k] = Merged(mirror[k], s)
    BY <1>1, <2>1 DEF MergeInto
  <2>3. s.op = "d" => s.val = Gone
    BY UpsertFacts DEF StreamTypeInv, DeleteInv
  <2>4. QED
    BY <2>2, <2>3 DEF Merged
<1>2. (\A s \in Upserts : s.key # k) => MergeInto(mirror, Upserts)[k] = mirror[k]
  BY DEF MergeInto
<1>3. QED
  BY <1>1, <1>2

(* A step of the source leaves the planned batch as it is.                 *)
LEMMA SameBatch ==
    ASSUME StreamTypeInv, [SourceNext]_sourceVars, UNCHANGED sinkVars
    PROVE  Upserts' = Upserts
<1>1. /\ commit' = commit /\ batch' = batch /\ commit \in Nat /\ batch \in Nat
      /\ batch <= Len(topic)
  BY StreamFacts DEF sinkVars
<1>2. /\ topic \in Seq(Event) /\ topic' \in Seq(Event)
      /\ Len(topic) \in Nat /\ Len(topic') \in Nat /\ Len(topic) <= Len(topic')
      /\ \A i \in 1 .. Len(topic) : topic'[i] = topic[i]
  BY TopicPrefix DEF StreamTypeInv
<1>3. batch <= Len(topic') /\ \A i \in commit + 1 .. batch : topic'[i] = topic[i]
  BY <1>1, <1>2
<1>4. Changes(SubSeq(topic', commit + 1, batch)) = Changes(SubSeq(topic, commit + 1, batch))
  <2>1. Changes(SubSeq(topic', commit + 1, batch))
            = {topic'[i] : i \in {j \in commit + 1 .. batch : topic'[j].op # "t"}}
    BY <1>1, <1>2, <1>3, PieceChanges
  <2>2. Changes(SubSeq(topic, commit + 1, batch))
            = {topic[i] : i \in {j \in commit + 1 .. batch : topic[j].op # "t"}}
    BY <1>1, <1>2, PieceChanges
  <2>3. QED
    BY <1>3, <2>1, <2>2
<1>5. QED
  BY <1>1, <1>4 DEF Upserts

LEMMA StreamSourceStep ==
    ASSUME StreamTypeInv, [SourceNext]_sourceVars, UNCHANGED sinkVars
    PROVE  StreamTypeInv'
<1>1. SourceInv /\ SourceInv' /\ DeleteInv'
  BY TopicStep, DeleteStep DEF StreamTypeInv
<1>2. UNCHANGED <<mirror, batch, commit, merged, applied, deaths>>
  BY DEF sinkVars
<1>3. Upserts' = Upserts
  BY SameBatch
<1>4. RerunIsNoOp'
  BY <1>2, <1>3 DEF StreamTypeInv, RerunIsNoOp
<1>5. Lsn <= Lsn' /\ Lsn \in Nat /\ Lsn' \in Nat
  BY <1>1, LogGrows, Positions
<1>6. applied \in [Keys -> 0 .. Lsn']
  <2>1. 0 .. Lsn \subseteq 0 .. Lsn'
    BY <1>5
  <2>2. QED
    BY <2>1 DEF StreamTypeInv, StreamTypeOK
<1>7. batch <= Len(topic')
  BY <1>1, StreamFacts, TopicPrefix
<1>8. StreamTypeOK'
  BY <1>1, <1>2, <1>6, <1>7 DEF StreamTypeInv, StreamTypeOK, SourceInv, SourceTypeInv
<1>9. QED
  BY <1>1, <1>4, <1>8 DEF StreamTypeInv

LEMMA MergeBatchType ==
    ASSUME StreamTypeInv, MergeBatch
    PROVE  StreamTypeInv'
<1>1. /\ UNCHANGED <<wal, mode, task, paused, base, todo, pos, offset, slot, topic, bounces,
                      upto, lost, batch, commit, deaths>>
      /\ UNCHANGED sourceVars
      /\ batch > commit /\ merged' = TRUE /\ mirror' = MergeInto(mirror, Upserts)
  BY DEF MergeBatch, sourceVars, connectVars, auxVars
<1>2. SourceInv' /\ DeleteInv' /\ Lsn' = Lsn /\ Upserts' = Upserts
  BY <1>1, TopicStep, DeleteStep DEF StreamTypeInv, Lsn, Upserts
<1>3. RerunIsNoOp'
  BY <1>1, <1>2, MergeTwice DEF RerunIsNoOp
<1>4. mirror' \in Table
  <2>1. ASSUME NEW k \in Keys PROVE mirror'[k] \in Row
    <3>1. CASE \E s \in Upserts : s.key = k
      <4>1. PICK s \in Upserts : s.key = k
        BY <3>1
      <4>2. s \in Changes(topic) /\ mirror'[k] = s.val
        BY <1>1, <4>1, UpsertFacts, BatchRow
      <4>3. s \in Event
        BY <4>2, StreamFacts, ChangesType
      <4>4. QED
        BY <4>2, <4>3 DEF Event
    <3>2. CASE \A s \in Upserts : s.key # k
      <4>1. mirror'[k] = mirror[k] /\ mirror \in Table
        BY <1>1, <3>2, BatchRow, StreamFacts
      <4>2. QED
        BY <4>1 DEF Table
    <3>3. QED
      BY <3>1, <3>2
  <2>2. mirror' = [k \in Keys |-> mirror'[k]]
    BY <1>1 DEF MergeInto
  <2>3. QED
    BY <2>1, <2>2 DEF Table
<1>5. applied' \in [Keys -> 0 .. Lsn]
  <2>1. ASSUME NEW k \in Keys
        PROVE  LET lsns == {s.lsn : s \in {u \in Upserts : u.key = k}} \cup {applied[k]}
               IN  (CHOOSE n \in lsns : \A l \in lsns : l <= n) \in 0 .. Lsn
    <3> DEFINE lsns == {s.lsn : s \in {u \in Upserts : u.key = k}} \cup {applied[k]}
    <3>1. applied[k] \in 0 .. Lsn /\ Lsn \in Nat
      BY StreamFacts DEF StreamTypeInv, StreamTypeOK
    <3>2. \A s \in Upserts : s.lsn \in Nat /\ s.lsn <= Lsn
      BY UpsertFacts, StreamFacts
    <3>3. lsns \in SUBSET Nat /\ lsns # {} /\ \A n \in lsns : n <= Lsn
      BY <3>1, <3>2
    <3> HIDE DEF lsns
    <3>4. \E n \in lsns : \A l \in lsns : l <= n
      BY <3>1, <3>3, GreatestExists
    <3>5. (CHOOSE n \in lsns : \A l \in lsns : l <= n) \in lsns
      BY <3>4
    <3>6. \A n \in lsns : n \in 0 .. Lsn
      BY <3>1, <3>3
    <3>7. (CHOOSE n \in lsns : \A l \in lsns : l <= n) \in 0 .. Lsn
      BY <3>5, <3>6
    <3>8. QED
      BY <3>7 DEF lsns
  <2>2. QED
    BY <2>1 DEF MergeBatch
<1>6. StreamTypeOK'
  BY <1>1, <1>2, <1>4, <1>5 DEF StreamTypeInv, StreamTypeOK, SourceInv, SourceTypeInv
<1>7. QED
  BY <1>2, <1>3, <1>6 DEF StreamTypeInv

(* Planning, committing and dying leave the mirror alone.                  *)
LEMMA CheckpointType ==
    ASSUME StreamTypeInv, PlanBatch \/ CommitBatch \/ SinkCrash
    PROVE  StreamTypeInv'
<1>1. /\ UNCHANGED <<wal, mode, task, paused, base, todo, pos, offset, slot, topic, bounces,
                      upto, lost, mirror, applied>>
      /\ UNCHANGED sourceVars
  BY DEF PlanBatch, CommitBatch, SinkCrash, sourceVars, connectVars, auxVars
<1>2. SourceInv' /\ DeleteInv' /\ Lsn' = Lsn
  BY <1>1, TopicStep, DeleteStep DEF StreamTypeInv, Lsn
<1>3. merged' = FALSE
  <2>1. merged \in BOOLEAN /\ (batch = commit => ~merged)
    BY StreamFacts DEF StreamTypeInv, StreamTypeOK
  <2>2. QED
    BY <2>1 DEF PlanBatch, CommitBatch, SinkCrash
<1>4. batch' \in 0 .. Len(topic) /\ commit' \in 0 .. batch'
  BY StreamFacts DEF PlanBatch, CommitBatch, SinkCrash
<1>5. deaths' \in 0 .. MaxSinkCrashes
  <2>1. deaths \in 0 .. MaxSinkCrashes /\ MaxSinkCrashes \in Nat
    BY SinkAssumption DEF StreamTypeInv, StreamTypeOK
  <2>2. QED
    BY <2>1 DEF PlanBatch, CommitBatch, SinkCrash
<1>6. StreamTypeOK'
  BY <1>1, <1>2, <1>3, <1>4, <1>5 DEF StreamTypeInv, StreamTypeOK, SourceInv, SourceTypeInv
<1>7. QED
  BY <1>2, <1>3, <1>6 DEF StreamTypeInv, RerunIsNoOp

-----------------------------------------------------------------------------
(* The topic's tail.  A change at an index, and the last one of a key      *)
(* among the first n records.                                              *)
ChangeAt(log, i, k)  == i \in DOMAIN log /\ log[i].op # "t" /\ log[i].key = k
LastAt(log, i, k, n) ==
    i \in 1 .. n /\ ChangeAt(log, i, k) /\ \A j \in i + 1 .. n : ~ChangeAt(log, j, k)

(* From change i on, the changes of key k up to LSN p that are not older   *)
(* than change i agree with the table at p.                                *)
Settled(log, w, i, k, p) ==
    \A j \in DOMAIN log :
        ChangeAt(log, j, k) /\ log[i].lsn <= log[j].lsn /\ log[j].lsn <= p
            => log[j].val = w[p].table[k]

(* While a start may snapshot, no event was redelivered.                   *)
OrderInv ==
    mode = "always" \/ offset = NoOffset =>
        /\ \A i, j \in DOMAIN topic :
              i <= j /\ topic[i].op # "t" /\ topic[j].op # "t" => topic[i].lsn <= topic[j].lsn
        /\ task = "streaming" => \A e \in Changes(topic) : e.lsn <= pos

(* The last change of a key settles it, at the position of the task and at *)
(* the offset the task would resume from.                                  *)
TailInv ==
    \A k \in Keys \ lost : \A i \in DOMAIN topic :
        LastAt(topic, i, k, Len(topic)) =>
            /\ task = "streaming" => Settled(topic, wal, i, k, pos)
            /\ task = "snapshot" /\ k \notin todo => Settled(topic, wal, i, k, base)
            /\ mode = "initial" /\ offset # NoOffset => Settled(topic, wal, i, k, offset)

(* Nothing is accounted for less far than the task is.                     *)
AheadInv ==
    /\ task = "streaming" => \A k \in Keys : upto[k] >= pos
    /\ mode = "initial" /\ offset # NoOffset => \A k \in Keys : upto[k] >= offset

SettledInv == OrderInv /\ TailInv /\ AheadInv

AlwaysCaptured == "never" \notin Modes

(* Events by index.                                                        *)
LEMMA EventAt ==
    ASSUME SourceInv
    PROVE  /\ topic \in Seq(Event) /\ Len(topic) \in Nat /\ DOMAIN topic = 1 .. Len(topic)
           /\ \A i \in 1 .. Len(topic) : topic[i] \in Event /\ topic[i].lsn \in Nat
           /\ \A i \in 1 .. Len(topic) :
                 topic[i].op # "t" =>
                     /\ topic[i] \in Changes(topic) /\ topic[i].lsn \in 1 .. Lsn
                     /\ topic[i].val = wal[topic[i].lsn].table[topic[i].key]
<1>1. topic \in Seq(Event)
  BY Positions DEF TypeOK
<1>2. Len(topic) \in Nat /\ DOMAIN topic = 1 .. Len(topic)
  BY <1>1
<1>3. \A i \in 1 .. Len(topic) : topic[i] \in Event
  BY <1>1
<1>4. \A i \in 1 .. Len(topic) : topic[i].lsn \in Nat
  BY <1>3 DEF Event
<1>5. \A i \in 1 .. Len(topic) : topic[i].op # "t" => topic[i] \in Changes(topic)
  BY <1>2 DEF Changes
<1>6. QED
  BY <1>1, <1>2, <1>3, <1>4, <1>5 DEF SourceInv, TopicInv, EventsFaithful

(* What one more change, followed by a tombstone or not, does to the tail. *)
Lengthens(log, longer, c, n) ==
    /\ n \in Nat /\ Len(longer) \in Nat /\ Len(longer) > n
    /\ \A i \in 1 .. n : longer[i] = log[i]
    /\ longer[n + 1] = c
    /\ \A i \in DOMAIN longer : \A k : ChangeAt(longer, i, k) =>
          (i \in 1 .. n /\ ChangeAt(log, i, k)) \/ (i = n + 1 /\ k = c.key)
    /\ \A i, k : LastAt(longer, i, k, Len(longer)) =>
          IF k = c.key THEN i = n + 1 ELSE LastAt(log, i, k, n)

LEMMA LongerTail ==
    ASSUME NEW log \in Seq(Event), NEW longer \in Seq(Event), NEW c \in Event, c.op # "t",
           \/ longer = Append(log, c)
           \/ \E t \in Event : t.op = "t" /\ longer = log \o <<c, t>>
    PROVE  Lengthens(log, longer, c, Len(log))
<1> DEFINE n == Len(log)
<1>1. /\ n \in Nat /\ Len(longer) \in Nat /\ Len(longer) > n
      /\ DOMAIN log = 1 .. n /\ DOMAIN longer = 1 .. Len(longer)
      /\ \A i \in 1 .. n : longer[i] = log[i]
      /\ longer[n + 1] = c
      /\ \A i \in 1 .. Len(longer) : i > n + 1 => longer[i].op = "t"
  <2>1. CASE longer = Append(log, c)
    BY <2>1
  <2>2. CASE \E t \in Event : t.op = "t" /\ longer = log \o <<c, t>>
    <3>1. PICK t \in Event : t.op = "t" /\ longer = log \o <<c, t>>
      BY <2>2
    <3>2. /\ Len(longer) = n + 2 /\ n \in Nat
          /\ \A i \in 1 .. n : longer[i] = log[i]
          /\ longer[n + 1] = c /\ longer[n + 2] = t
      BY <3>1
    <3>3. \A i \in 1 .. Len(longer) : i > n + 1 => longer[i].op = "t"
      <4>1. \A i \in 1 .. Len(longer) : i > n + 1 => i = n + 2
        BY <3>2
      <4>2. QED
        BY <3>1, <3>2, <4>1
    <3>4. DOMAIN log = 1 .. n /\ DOMAIN longer = 1 .. Len(longer)
      OBVIOUS
    <3>5. QED
      BY <3>2, <3>3, <3>4
  <2>3. QED
    BY <2>1, <2>2
<1> HIDE DEF n
<1>2. n \in Nat /\ Len(longer) \in Nat /\ n + 1 <= Len(longer)
  <2>1. n \in Nat /\ Len(longer) \in Nat /\ Len(longer) > n
    BY <1>1
  <2>2. QED
    BY <2>1
<1>3. ASSUME NEW i \in DOMAIN longer, NEW k, ChangeAt(longer, i, k)
      PROVE  (i \in 1 .. n /\ ChangeAt(log, i, k)) \/ (i = n + 1 /\ k = c.key)
  <2>1. i \in 1 .. Len(longer) /\ longer[i].op # "t" /\ longer[i].key = k
    BY <1>1, <1>3 DEF ChangeAt
  <2>2. ~(i > n + 1)
    BY <1>1, <2>1
  <2>3. i \in 1 .. n \/ i = n + 1
    BY <1>2, <2>1, <2>2
  <2>4. CASE i \in 1 .. n
    <3>1. longer[i] = log[i] /\ i \in DOMAIN log
      BY <1>1, <2>4
    <3>2. log[i].op # "t" /\ log[i].key = k
      BY <2>1, <3>1
    <3>3. ChangeAt(log, i, k)
      BY <3>1, <3>2 DEF ChangeAt
    <3>4. QED
      BY <2>4, <3>3
  <2>5. CASE i = n + 1
    BY <1>1, <2>1, <2>5
  <2>6. QED
    BY <2>3, <2>4, <2>5
<1>4. ASSUME NEW i \in 1 .. n, NEW k, ChangeAt(log, i, k)
      PROVE  ChangeAt(longer, i, k)
  <2>1. i \in 1 .. Len(longer)
    BY <1>2
  <2>2. QED
    BY <1>1, <1>4, <2>1 DEF ChangeAt
<1>5. ASSUME NEW i, NEW k, LastAt(longer, i, k, Len(longer))
      PROVE  IF k = c.key THEN i = n + 1 ELSE LastAt(log, i, k, n)
  <2>1. /\ i \in 1 .. Len(longer) /\ ChangeAt(longer, i, k)
        /\ \A j \in i + 1 .. Len(longer) : ~ChangeAt(longer, j, k)
    BY <1>5 DEF LastAt
  <2>2. (i \in 1 .. n /\ ChangeAt(log, i, k)) \/ (i = n + 1 /\ k = c.key)
    BY <1>1, <1>3, <2>1
  <2>3. CASE k = c.key
    <3>1. n + 1 \in 1 .. Len(longer)
      BY <1>2
    <3>2. ChangeAt(longer, n + 1, k)
      BY <1>1, <2>3, <3>1 DEF ChangeAt
    <3>3. ~(n + 1 \in i + 1 .. Len(longer))
      BY <2>1, <3>2
    <3>4. i = n + 1
      BY <1>2, <2>1, <2>2, <3>1, <3>3
    <3>5. QED
      BY <2>3, <3>4
  <2>4. CASE k # c.key
    <3>1. ASSUME NEW j \in i + 1 .. n PROVE ~ChangeAt(log, j, k)
      <4>1. j \in 1 .. n /\ j \in i + 1 .. Len(longer)
        BY <1>2, <2>1
      <4>2. QED
        BY <1>4, <2>1, <4>1
    <3>2. QED
      BY <2>2, <2>4, <3>1 DEF LastAt
  <2>5. QED
    BY <2>3, <2>4
<1>6. QED
  BY <1>1, <1>3, <1>5 DEF n, Lengthens

LEMMA WriteSettled ==
    ASSUME SourceInv, SettledInv, NEW op \in {"c", "u", "d"}, NEW k \in Keys, NEW row \in Row,
           Write(op, k, row)
    PROVE  SettledInv'
<1>1. \A l \in 1 .. Lsn : wal'[l] = wal[l]
  BY Positions, WriteLog
<1>2. UNCHANGED <<mode, task, base, todo, pos, offset, topic, upto, lost>>
  BY DEF Write, connectVars, auxVars
<1>3. /\ task = "streaming" => wal'[pos] = wal[pos]
      /\ task = "snapshot" => wal'[base] = wal[base]
      /\ offset # NoOffset => wal'[offset] = wal[offset]
  BY <1>1, Positions DEF PositionInv, NoOffset
<1>4. TailInv'
  BY <1>2, <1>3 DEF SettledInv, TailInv, Settled
<1>5. QED
  BY <1>2, <1>4 DEF SettledInv, OrderInv, AheadInv

(* A start either snapshots anew, over a topic in order, or streams from   *)
(* an offset that is stored.                                               *)
LEMMA StartSettled ==
    ASSUME AlwaysCaptured, SourceInv, SettledInv, NEW stored \in 0 .. Lsn,
           \/ task = "streaming" /\ stored = pos
           \/ task # "streaming" /\ stored = offset,
           StartTask(stored)
    PROVE  SettledInv'
<1>1. UNCHANGED <<wal, topic, upto, mode>> /\ offset' = stored /\ Lsn' = Lsn
  BY DEF StartTask, Lsn
<1>2. mode \in {"initial", "always"}
  BY ConstantsAssumption, Positions DEF TypeOK, AlwaysCaptured
<1>3. task = "streaming" => pos >= 1
  BY Positions DEF PositionInv
<1>4. CASE task' = "streaming"
  <2>1. mode = "initial" /\ stored # NoOffset /\ pos' = stored /\ lost' = lost /\ todo' = todo
    BY <1>2, <1>4 DEF StartTask
  <2>2. OrderInv'
    BY <1>1, <2>1 DEF OrderInv
  <2>3. AheadInv'
    BY <1>1, <2>1 DEF SettledInv, AheadInv
  <2>4. TailInv'
    BY <1>1, <1>4, <2>1 DEF SettledInv, TailInv
  <2>5. QED
    BY <2>2, <2>3, <2>4 DEF SettledInv
<1>5. CASE task' = "snapshot"
  <2>1. /\ mode = "always" \/ (mode = "initial" /\ stored = NoOffset)
        /\ base' = Lsn /\ todo' = {k \in Keys : Rows[k] # Gone}
        /\ lost' = lost \cup {k \in Keys : Rows[k] = Gone /\ Told(topic, k) # Gone}
    BY <1>2, <1>5 DEF StartTask
  <2>2. mode = "always" \/ offset = NoOffset
    BY <1>3, <2>1, Positions DEF NoOffset
  <2>3. OrderInv'
    BY <1>1, <1>5, <2>2 DEF SettledInv, OrderInv
  <2>4. AheadInv'
    BY <1>1, <1>5, <2>1 DEF AheadInv
  <2>5. \A i, j \in DOMAIN topic :
            i <= j /\ topic[i].op # "t" /\ topic[j].op # "t" => topic[i].lsn <= topic[j].lsn
    BY <2>2 DEF SettledInv, OrderInv
  <2>6. ASSUME NEW k \in Keys, k \notin lost', k \notin todo', NEW i \in DOMAIN topic,
               LastAt(topic, i, k, Len(topic))
        PROVE  Settled(topic, wal, i, k, Lsn)
    <3>1. Rows[k] = Gone /\ Told(topic, k) = Gone
      BY <2>1, <2>6
    <3>2. /\ i \in 1 .. Len(topic) /\ topic[i].op # "t" /\ topic[i].key = k
          /\ \A j \in i + 1 .. Len(topic) : ~ChangeAt(topic, j, k)
      BY <2>6 DEF LastAt, ChangeAt
    <3>3. /\ Len(topic) \in Nat /\ DOMAIN topic = 1 .. Len(topic)
          /\ \A j \in 1 .. Len(topic) : topic[j].lsn \in Nat
          /\ \A j \in 1 .. Len(topic) : topic[j].op # "t" =>
                /\ topic[j] \in Changes(topic)
                /\ topic[j].val = wal[topic[j].lsn].table[topic[j].key]
      BY EventAt
    <3>4. ASSUME NEW j \in DOMAIN topic, ChangeAt(topic, j, k)
          PROVE  topic[j].lsn <= topic[i].lsn
      <4>1. j <= i
        BY <3>2, <3>3, <3>4
      <4>2. QED
        BY <2>5, <3>2, <3>4, <4>1 DEF ChangeAt
    <3>5. IsNewest(topic[i], Changes(topic))
      <4>1. \A e \in Changes(topic) : e.key = k => e.lsn <= topic[i].lsn
        BY <3>4 DEF Changes, ChangeAt
      <4>2. QED
        BY <3>2, <3>3, <4>1 DEF IsNewest
    <3>6. Told(topic, k) = wal[topic[i].lsn].table[k]
      <4>1. TypeOK /\ EventsFaithful /\ topic[i] \in Changes(topic)
        BY <3>2, <3>3, Positions DEF SourceInv, TopicInv
      <4>2. QED
        BY <3>2, <3>5, <4>1, ToldNow
    <3>7. ASSUME NEW j \in DOMAIN topic, ChangeAt(topic, j, k), topic[i].lsn <= topic[j].lsn
          PROVE  topic[j].val = Gone
      <4>1. topic[j].lsn = topic[i].lsn
        BY <3>2, <3>3, <3>4, <3>7
      <4>2. QED
        BY <3>1, <3>3, <3>6, <3>7, <4>1 DEF ChangeAt
    <3>8. QED
      BY <3>1, <3>7 DEF Settled, Rows
  <2>7. TailInv'
    <3>1. mode = "initial" => offset' = NoOffset
      BY <1>1, <2>1
    <3>2. QED
      BY <1>1, <1>5, <2>1, <2>6, <3>1 DEF TailInv
  <2>8. QED
    BY <2>3, <2>4, <2>7 DEF SettledInv
<1>6. QED
  BY <1>4, <1>5 DEF StartTask

LEMMA SnapshotRowSettled ==
    ASSUME SourceInv, SourceInv', SettledInv, NEW k \in Keys, SnapshotRow(k)
    PROVE  SettledInv'
<1> DEFINE c == [op |-> "r", key |-> k, val |-> wal[base].table[k], lsn |-> base]
           n == Len(topic)
<1>1. /\ task = "snapshot" /\ Lsn' = Lsn
      /\ topic' = Append(topic, c) /\ todo' = todo \ {k} /\ lost' = lost \ {k}
      /\ UNCHANGED <<wal, mode, task, base, pos, offset>>
  BY DEF SnapshotRow, Lsn
<1>2. c \in Event /\ c.key = k /\ c.lsn = base /\ c.op # "t"
  BY <1>1, SnapshotEvent DEF SourceInv
<1> HIDE DEF c
<1>3. topic \in Seq(Event) /\ topic' \in Seq(Event)
  BY Positions DEF SourceInv, SourceTypeInv, TypeOK
<1>4. Lengthens(topic, topic', c, n)
  BY <1>1, <1>2, <1>3, LongerTail
<1> HIDE DEF n
<1>5. ASSUME NEW i \in 1 .. n, topic[i].op # "t"
      PROVE  topic[i].lsn <= base
  <2>1. topic[i] \in Changes(topic) /\ topic[i].key \in Keys /\ topic[i].lsn \in Nat
    BY <1>5, EventAt, ChangesType, Positions DEF n
  <2>2. topic[i].lsn <= upto[topic[i].key] /\ upto[topic[i].key] <= base
    BY <1>1, <2>1 DEF SourceInv, TopicInv, UptoInv
  <2>3. QED
    BY <2>1, <2>2, Positions
<1>6. /\ DOMAIN topic' = 1 .. Len(topic')
      /\ \A i \in 1 .. Len(topic') : topic'[i].op # "t" =>
            topic'[i].val = wal[topic'[i].lsn].table[topic'[i].key]
  <2>1. DOMAIN topic' = 1 .. Len(topic')
    BY <1>3
  <2>2. \A i \in 1 .. Len(topic') : topic'[i].op # "t" => topic'[i] \in Changes(topic')
    BY <2>1 DEF Changes
  <2>3. QED
    BY <1>1, <2>1, <2>2 DEF SourceInv, TopicInv, EventsFaithful
<1>7. OrderInv'
  <2>1. SUFFICES ASSUME mode = "always" \/ offset = NoOffset,
                        NEW i \in DOMAIN topic', NEW j \in DOMAIN topic',
                        i <= j, topic'[i].op # "t", topic'[j].op # "t"
                 PROVE  topic'[i].lsn <= topic'[j].lsn
    BY <1>1 DEF OrderInv
  <2>2. /\ i \in 1 .. n \/ i = n + 1
        /\ j \in 1 .. n \/ j = n + 1
    BY <1>4, <2>1 DEF ChangeAt, Lengthens
  <2>3. CASE j \in 1 .. n
    <3>1. i \in 1 .. n
      BY <1>4, <2>1, <2>2, <2>3 DEF Lengthens
    <3>2. i \in DOMAIN topic /\ j \in DOMAIN topic
      BY <2>3, <3>1, EventAt DEF n
    <3>3. topic'[i] = topic[i] /\ topic'[j] = topic[j]
      BY <1>4, <2>3, <3>1 DEF Lengthens
    <3>4. QED
      BY <2>1, <3>2, <3>3 DEF SettledInv, OrderInv
  <2>4. CASE j = n + 1 /\ i \in 1 .. n
    BY <1>2, <1>4, <1>5, <2>1, <2>4 DEF Lengthens
  <2>5. CASE j = n + 1 /\ i = n + 1
    BY <1>2, <1>4, <2>5, Positions DEF Lengthens
  <2>6. QED
    BY <2>2, <2>3, <2>4, <2>5
<1>8. TailInv'
  <2>1. SUFFICES ASSUME NEW j \in Keys \ lost', NEW i \in DOMAIN topic', j \notin todo',
                        LastAt(topic', i, j, Len(topic'))
                 PROVE  Settled(topic', wal, i, j, base)
    <3>1. mode = "initial" => offset = NoOffset
      BY <1>1, Positions DEF PositionInv, NoOffset
    <3>2. QED
      BY <1>1, <2>1, <3>1 DEF TailInv
  <2>2. SUFFICES ASSUME NEW m \in DOMAIN topic', ChangeAt(topic', m, j),
                        topic'[i].lsn <= topic'[m].lsn, topic'[m].lsn <= base
                 PROVE  topic'[m].val = wal[base].table[j]
    BY DEF Settled
  <2>3. topic'[m].val = wal[topic'[m].lsn].table[j]
    BY <1>6, <2>2 DEF ChangeAt
  <2>4. CASE topic'[m].lsn = base
    BY <2>3, <2>4
  <2>5. CASE topic'[m].lsn # base /\ j = k
    <3>1. topic'[i].lsn = base
      BY <1>2, <1>4, <2>1, <2>5 DEF Lengthens
    <3>2. topic'[m] \in Event
      BY <1>3, <1>6
    <3>3. topic'[m].lsn \in Nat
      BY <3>2 DEF Event
    <3>4. QED
      BY <2>2, <2>5, <3>1, <3>3, Positions
  <2>6. CASE topic'[m].lsn # base /\ j # k
    <3>1. LastAt(topic, i, j, n)
      BY <1>2, <1>4, <2>1, <2>6 DEF Lengthens
    <3>2. i \in 1 .. n /\ m \in 1 .. n /\ ChangeAt(topic, m, j)
      BY <1>2, <1>4, <2>2, <2>6, <3>1 DEF LastAt, Lengthens
    <3>3. topic'[i] = topic[i] /\ topic'[m] = topic[m]
      BY <1>4, <3>2 DEF Lengthens
    <3>4. i \in DOMAIN topic /\ m \in DOMAIN topic
      BY <3>2, EventAt DEF n
    <3>5. j \notin lost /\ j \notin todo
      BY <1>1, <2>1, <2>6
    <3>6. Settled(topic, wal, i, j, base)
      BY <1>1, <3>1, <3>4, <3>5 DEF SettledInv, TailInv, n
    <3>7. QED
      BY <2>2, <3>2, <3>3, <3>4, <3>6 DEF Settled
  <2>7. QED
    BY <2>4, <2>5, <2>6
<1>9. AheadInv'
  <2>1. mode = "initial" => offset = NoOffset
    BY <1>1, Positions DEF PositionInv, NoOffset
  <2>2. QED
    BY <1>1, <2>1 DEF AheadInv
<1>10. QED
  BY <1>7, <1>8, <1>9 DEF SettledInv

LEMMA FinishSnapshotSettled ==
    ASSUME SourceInv, SettledInv, FinishSnapshot
    PROVE  SettledInv'
<1>1. /\ task = "snapshot" /\ todo = {} /\ task' = "streaming" /\ pos' = base
      /\ upto' = [k \in Keys |-> base]
      /\ UNCHANGED <<wal, mode, base, todo, offset, topic, lost>>
  BY DEF FinishSnapshot
<1>2. mode = "initial" => offset = NoOffset
  BY <1>1, Positions DEF PositionInv, NoOffset
<1>3. \A e \in Changes(topic) : e.lsn <= base
  <2>1. \A e \in Changes(topic) : /\ e.key \in Keys /\ e.lsn \in Nat
                                   /\ e.lsn <= upto[e.key] /\ upto[e.key] <= base
    BY <1>1, ChangesType, Positions DEF SourceInv, TopicInv, UptoInv
  <2>2. QED
    BY <2>1, Positions
<1>4. OrderInv'
  BY <1>1, <1>3 DEF SettledInv, OrderInv
<1>5. TailInv'
  BY <1>1, <1>2 DEF SettledInv, TailInv
<1>6. AheadInv'
  BY <1>1, <1>2, Positions DEF AheadInv
<1>7. QED
  BY <1>4, <1>5, <1>6 DEF SettledInv

LEMMA StreamNextSettled ==
    ASSUME SourceInv, SourceInv', SettledInv, StreamNext
    PROVE  SettledInv'
<1> DEFINE l == pos + 1
           k == wal[l].key
           c == ChangeEvent(l)
           n == Len(topic)
<1>1. /\ task = "streaming" /\ pos < Lsn /\ Lsn' = Lsn /\ pos' = l
      /\ upto' = [j \in Keys |-> IF upto[j] = pos \/ (j = k /\ upto[j] < l) THEN l ELSE upto[j]]
      /\ lost' = (IF upto[k] < l THEN lost \ {k} ELSE lost)
      /\ topic' = Append(topic, c) \/ topic' = topic \o <<c, Tombstone(k)>>
      /\ UNCHANGED <<wal, mode, task, base, todo, offset>>
  BY DEF StreamNext, Lsn
<1>2. /\ l \in 2 .. Lsn /\ k \in Keys /\ wal[l].op \in {"c", "u", "d"}
      /\ c \in Event /\ Tombstone(k) \in Event
  BY <1>1, StreamedEvents DEF SourceInv
<1>3. c.key = k /\ c.lsn = l /\ c.op # "t" /\ Tombstone(k).op = "t"
  BY <1>2 DEF ChangeEvent, Tombstone
<1> HIDE DEF c
<1>4. topic \in Seq(Event) /\ topic' \in Seq(Event)
  BY Positions DEF SourceInv, SourceTypeInv, TypeOK
<1>5. Lengthens(topic, topic', c, n)
  <2>1. \/ topic' = Append(topic, c)
        \/ \E t \in Event : t.op = "t" /\ topic' = topic \o <<c, t>>
    BY <1>1, <1>2, <1>3
  <2>2. QED
    BY <1>2, <1>3, <1>4, <2>1, LongerTail
<1> HIDE DEF n
<1>6. /\ DOMAIN topic' = 1 .. Len(topic')
      /\ \A i \in 1 .. Len(topic') : topic'[i] \in Event /\ topic'[i].lsn \in Nat
      /\ \A i \in 1 .. Len(topic') : topic'[i].op # "t" =>
            topic'[i].val = wal[topic'[i].lsn].table[topic'[i].key]
  <2>1. DOMAIN topic' = 1 .. Len(topic') /\ \A i \in 1 .. Len(topic') : topic'[i] \in Event
    BY <1>4
  <2>2. \A i \in 1 .. Len(topic') : topic'[i].op # "t" => topic'[i] \in Changes(topic')
    BY <2>1 DEF Changes
  <2>3. \A i \in 1 .. Len(topic') : topic'[i].lsn \in Nat
    BY <2>1 DEF Event
  <2>4. QED
    BY <1>1, <2>1, <2>2, <2>3 DEF SourceInv, TopicInv, EventsFaithful
<1>7. offset <= pos /\ offset \in Nat /\ pos \in Nat /\ l = pos + 1
  BY <1>1, Positions DEF SourceInv, SlotInv
<1> HIDE DEF l
<1>8. OrderInv'
  <2>1. SUFFICES ASSUME mode = "always" \/ offset = NoOffset
                 PROVE  /\ \A i, j \in DOMAIN topic' :
                              i <= j /\ topic'[i].op # "t" /\ topic'[j].op # "t"
                                  => topic'[i].lsn <= topic'[j].lsn
                        /\ \A e \in Changes(topic') : e.lsn <= l
    BY <1>1 DEF OrderInv
  <2>2. \A e \in Changes(topic) : e.lsn <= pos
    BY <1>1, <2>1 DEF SettledInv, OrderInv
  <2>3. ASSUME NEW i \in 1 .. n, topic[i].op # "t"
        PROVE  topic[i].lsn <= l
    <3>1. topic[i].lsn <= pos /\ topic[i].lsn \in Nat
      BY <2>2, <2>3, EventAt DEF n
    <3>2. QED
      BY <1>7, <3>1
  <2>4. ASSUME NEW i \in DOMAIN topic', topic'[i].op # "t"
        PROVE  i \in 1 .. n \/ i = n + 1
    BY <1>5, <2>4 DEF ChangeAt, Lengthens
  <2>5. ASSUME NEW i \in DOMAIN topic', topic'[i].op # "t"
        PROVE  topic'[i].lsn <= l
    <3>1. CASE i \in 1 .. n
      BY <1>5, <2>3, <2>5, <3>1 DEF Lengthens
    <3>2. CASE i = n + 1
      BY <1>3, <1>5, <1>7, <3>2 DEF Lengthens
    <3>3. QED
      BY <2>4, <2>5, <3>1, <3>2
  <2>6. ASSUME NEW i \in DOMAIN topic', NEW j \in DOMAIN topic', i <= j,
               topic'[i].op # "t", topic'[j].op # "t"
        PROVE  topic'[i].lsn <= topic'[j].lsn
    <3>1. CASE j \in 1 .. n
      <4>1. i \in 1 .. n
        BY <1>5, <2>4, <2>6, <3>1 DEF Lengthens
      <4>2. i \in DOMAIN topic /\ j \in DOMAIN topic
        BY <3>1, <4>1, EventAt DEF n
      <4>3. topic'[i] = topic[i] /\ topic'[j] = topic[j]
        BY <1>5, <3>1, <4>1 DEF Lengthens
      <4>4. QED
        BY <2>1, <2>6, <4>2, <4>3 DEF SettledInv, OrderInv
    <3>2. CASE j = n + 1
      BY <1>3, <1>5, <2>5, <2>6, <3>2 DEF Lengthens
    <3>3. QED
      BY <2>4, <2>6, <3>1, <3>2
  <2>7. \A e \in Changes(topic') : e.lsn <= l
    BY <2>5 DEF Changes
  <2>8. QED
    BY <2>6, <2>7
<1>9. ASSUME NEW j \in Keys \ lost', NEW i \in DOMAIN topic', LastAt(topic', i, j, Len(topic')),
             NEW m \in DOMAIN topic', ChangeAt(topic', m, j), topic'[i].lsn <= topic'[m].lsn
      PROVE  /\ topic'[m].lsn <= l => topic'[m].val = wal[l].table[j]
             /\ /\ mode = "initial" /\ offset # NoOffset
                /\ topic'[m].lsn <= offset
                => topic'[m].val = wal[offset].table[j]
  <2>1. topic'[m].val = wal[topic'[m].lsn].table[j] /\ topic'[m].lsn \in Nat
    BY <1>6, <1>9 DEF ChangeAt
  <2>2. CASE j = k
    <3>1. l <= topic'[m].lsn
      BY <1>3, <1>5, <1>9, <2>2 DEF Lengthens
    <3>2. ~(topic'[m].lsn <= offset) /\ (topic'[m].lsn <= l => topic'[m].lsn = l)
      BY <1>7, <2>1, <3>1
    <3>3. QED
      BY <2>1, <3>2
  <2>3. CASE j # k
    <3>1. LastAt(topic, i, j, n)
      BY <1>3, <1>5, <1>9, <2>3 DEF Lengthens
    <3>2. i \in 1 .. n /\ m \in 1 .. n /\ ChangeAt(topic, m, j)
      BY <1>3, <1>5, <1>9, <2>3, <3>1 DEF LastAt, Lengthens
    <3>3. topic'[i] = topic[i] /\ topic'[m] = topic[m]
      BY <1>5, <3>2 DEF Lengthens
    <3>4. i \in DOMAIN topic /\ m \in DOMAIN topic
      BY <3>2, EventAt DEF n
    <3>5. j \notin lost
      BY <1>1, <1>9, <2>3
    <3>6. /\ Settled(topic, wal, i, j, pos)
          /\ mode = "initial" /\ offset # NoOffset => Settled(topic, wal, i, j, offset)
      BY <1>1, <3>1, <3>4, <3>5 DEF SettledInv, TailInv, n
    <3>7. wal[l].table[j] = wal[pos].table[j]
      <4>1. l - 1 = pos
        BY <1>7
      <4>2. QED
        BY <1>2, <1>9, <2>3, <4>1, Positions DEF LogInv
    <3>8. topic'[m].lsn <= pos => topic'[m].val = wal[l].table[j]
      BY <1>9, <3>2, <3>3, <3>4, <3>6, <3>7 DEF Settled
    <3>9. topic'[m].lsn <= l => topic'[m].val = wal[l].table[j]
      <4>1. topic'[m].lsn <= l => topic'[m].lsn <= pos \/ topic'[m].lsn = l
        BY <1>7, <2>1
      <4>2. QED
        BY <2>1, <3>8, <4>1
    <3>10. /\ mode = "initial" /\ offset # NoOffset
           /\ topic'[m].lsn <= offset
           => topic'[m].val = wal[offset].table[j]
      BY <1>9, <3>2, <3>3, <3>4, <3>6 DEF Settled
    <3>11. QED
      BY <3>9, <3>10
  <2>4. QED
    BY <2>2, <2>3
<1>10. TailInv'
  BY <1>1, <1>9 DEF TailInv, Settled
<1>11. AheadInv'
  <2>1. ASSUME NEW j \in Keys PROVE upto'[j] >= l /\ upto'[j] >= upto[j]
    <3>1. upto[j] >= pos /\ upto[j] \in Nat
      BY <1>1, Positions DEF SettledInv, AheadInv
    <3>2. QED
      BY <1>1, <1>7, <3>1
  <2>2. ASSUME NEW j \in Keys, mode = "initial", offset # NoOffset PROVE upto'[j] >= offset
    <3>1. upto[j] >= pos /\ upto[j] \in Nat /\ upto'[j] \in Nat
      BY <1>1, <1>7, Positions DEF SettledInv, AheadInv
    <3>2. QED
      BY <1>7, <2>1, <3>1
  <2>3. QED
    BY <1>1, <2>1, <2>2 DEF AheadInv
<1>12. QED
  BY <1>8, <1>10, <1>11 DEF SettledInv

LEMMA QuietSettled ==
    ASSUME SourceInv, SettledInv,
           CommitOffset \/ ConfirmSlot \/ Pause \/ Resume \/ Crash \/ UNCHANGED sourceVars
    PROVE  SettledInv'
<1>1. /\ UNCHANGED <<wal, mode, base, todo, topic, upto, lost>>
      /\ \/ task' = task /\ pos' = pos /\ offset' = offset
         \/ task = "streaming" /\ task' = task /\ pos' = pos /\ offset' = pos
         \/ task' = "down" /\ offset' = offset
  BY DEF CommitOffset, ConfirmSlot, Pause, Resume, Crash, sourceVars, connectVars, auxVars
<1>2. task = "streaming" => pos >= 1 /\ pos \in Nat
  BY Positions DEF PositionInv
<1>3. OrderInv'
  BY <1>1, <1>2 DEF SettledInv, OrderInv, NoOffset
<1>4. TailInv' /\ AheadInv'
  BY <1>1 DEF SettledInv, TailInv, AheadInv
<1>5. QED
  BY <1>3, <1>4 DEF SettledInv

LEMMA SettledStep ==
    ASSUME AlwaysCaptured, SourceInv, SettledInv, [SourceNext]_sourceVars
    PROVE  SettledInv'
<1>1. SourceInv' /\ SourceTypeInv
  BY TopicStep DEF SourceInv
<1>2. CASE UNCHANGED sourceVars
  BY <1>2, QuietSettled
<1>3. CASE RegisterConnector \/ RestartTasks \/ Recover
  <2>1. /\ StartTask(StoredByStop)
        /\ StoredByStop \in 0 .. Lsn
        /\ \/ task = "streaming" /\ StoredByStop = pos
           \/ task # "streaming" /\ StoredByStop = offset
    BY <1>1, <1>3, Starts
  <2>2. QED
    BY <2>1, StartSettled
<1>4. CASE SourceNext
  BY <1>1, <1>3, <1>4, Steps, WriteSettled, SnapshotRowSettled, FinishSnapshotSettled,
     StreamNextSettled, QuietSettled
<1>5. QED
  BY <1>2, <1>4

-----------------------------------------------------------------------------
(* The row of a key after the first n records: that of a change of it no   *)
(* older than the last one among them.  It need not be the newest: a batch *)
(* that redelivers takes the row back, until the redelivery is over.       *)
RowFrom(log, row, k, n) ==
    \/ row = Gone /\ \A i \in 1 .. n : ~ChangeAt(log, i, k)
    \/ \E i, j \in 1 .. n :
          /\ LastAt(log, i, k, n) /\ ChangeAt(log, j, k)
          /\ log[i].lsn <= log[j].lsn /\ row = log[j].val

(* A query that died after its MERGE is a batch ahead of its checkpoint.   *)
BatchInv ==
    \A k \in Keys :
        \/ RowFrom(topic, mirror[k], k, batch)
        \/ ~merged /\ RowFrom(topic, mirror[k], k, commit)

StreamInv == StreamTypeInv /\ SettledInv /\ BatchInv

LEMMA RowFromKept ==
    ASSUME NEW log \in Seq(Event), NEW longer \in Seq(Event), Len(log) <= Len(longer),
           \A i \in 1 .. Len(log) : longer[i] = log[i],
           NEW row, NEW k, NEW n \in Nat, n <= Len(log), RowFrom(log, row, k, n)
    PROVE  RowFrom(longer, row, k, n)
<1>1. /\ Len(log) \in Nat /\ Len(longer) \in Nat
      /\ DOMAIN log = 1 .. Len(log) /\ DOMAIN longer = 1 .. Len(longer)
  OBVIOUS
<1>2. ASSUME NEW i \in 1 .. n
      PROVE  longer[i] = log[i] /\ (ChangeAt(longer, i, k) <=> ChangeAt(log, i, k))
  <2>1. i \in 1 .. Len(log) /\ i \in 1 .. Len(longer)
    BY <1>1
  <2>2. QED
    BY <1>1, <2>1 DEF ChangeAt
<1>3. ASSUME NEW i \in 1 .. n, LastAt(log, i, k, n)
      PROVE  LastAt(longer, i, k, n)
  <2>1. \A j \in i + 1 .. n : j \in 1 .. n
    OBVIOUS
  <2>2. QED
    BY <1>2, <1>3, <2>1 DEF LastAt
<1>4. CASE row = Gone /\ \A i \in 1 .. n : ~ChangeAt(log, i, k)
  BY <1>2, <1>4 DEF RowFrom
<1>5. CASE \E i, j \in 1 .. n :
              /\ LastAt(log, i, k, n) /\ ChangeAt(log, j, k)
              /\ log[i].lsn <= log[j].lsn /\ row = log[j].val
  <2>1. PICK i \in 1 .. n, j \in 1 .. n :
              /\ LastAt(log, i, k, n) /\ ChangeAt(log, j, k)
              /\ log[i].lsn <= log[j].lsn /\ row = log[j].val
    BY <1>5
  <2>2. /\ LastAt(longer, i, k, n) /\ ChangeAt(longer, j, k)
        /\ longer[i].lsn <= longer[j].lsn /\ row = longer[j].val
    BY <1>2, <1>3, <2>1
  <2>3. QED
    BY <2>2 DEF RowFrom
<1>6. QED
  BY <1>4, <1>5 DEF RowFrom

LEMMA RowFromBatch ==
    ASSUME StreamInv, batch > commit, NEW k \in Keys
    PROVE  RowFrom(topic, MergeInto(mirror, Upserts)[k], k, batch)
<1>1. /\ StreamTypeInv /\ commit \in Nat /\ batch \in Nat /\ Len(topic) \in Nat
      /\ commit <= batch /\ batch <= Len(topic)
      /\ DOMAIN topic = 1 .. Len(topic)
  BY StreamFacts DEF StreamInv
<1>2. RowFrom(topic, mirror[k], k, batch) \/ RowFrom(topic, mirror[k], k, commit)
  BY DEF StreamInv, BatchInv
<1>3. CASE \E i \in commit + 1 .. batch : ChangeAt(topic, i, k)
  <2> DEFINE here == {i \in commit + 1 .. batch : ChangeAt(topic, i, k)}
  <2>1. here \in SUBSET Nat /\ here # {} /\ \A i \in here : i <= batch
    BY <1>1, <1>3
  <2>2. PICK i \in here : \A j \in here : j <= i
    BY <1>1, <2>1, GreatestExists
  <2>3. i \in 1 .. batch /\ i \in commit + 1 .. batch
    BY <1>1
  <2>4. LastAt(topic, i, k, batch)
    <3>1. ASSUME NEW j \in i + 1 .. batch PROVE ~ChangeAt(topic, j, k)
      <4>1. j \in commit + 1 .. batch /\ ~(j <= i)
        BY <1>1, <2>3
      <4>2. QED
        BY <2>2, <4>1
    <3>2. QED
      BY <2>3, <3>1 DEF LastAt
  <2>5. topic[i].op # "t" /\ topic[i].key = k
    BY DEF ChangeAt
  <2>6. PICK s \in Upserts : s.key = k
    BY <1>1, <2>3, <2>5, UpsertFacts
  <2>7. PICK j \in commit + 1 .. batch : topic[j] = s
    BY <1>1, UpsertFacts
  <2>8. j \in 1 .. batch /\ j \in DOMAIN topic
    BY <1>1
  <2>9. ChangeAt(topic, j, k)
    <3>1. s \in Changes(topic)
      BY <1>1, UpsertFacts
    <3>2. QED
      BY <2>6, <2>7, <2>8, <3>1 DEF ChangeAt, Changes
  <2>10. topic[i].lsn <= topic[j].lsn
    BY <1>1, <2>3, <2>5, <2>6, <2>7, UpsertFacts
  <2>11. MergeInto(mirror, Upserts)[k] = topic[j].val
    BY <1>1, <2>6, <2>7, BatchRow
  <2>12. QED
    BY <2>3, <2>4, <2>8, <2>9, <2>10, <2>11 DEF RowFrom
<1>4. CASE \A i \in commit + 1 .. batch : ~ChangeAt(topic, i, k)
  <2>1. ASSUME NEW s \in Upserts PROVE s.key # k
    <3>1. PICK j \in commit + 1 .. batch : topic[j] = s
      BY <1>1, UpsertFacts
    <3>2. s \in Changes(topic) /\ j \in DOMAIN topic
      BY <1>1, UpsertFacts
    <3>3. QED
      BY <1>4, <3>1, <3>2 DEF ChangeAt, Changes
  <2>2. MergeInto(mirror, Upserts)[k] = mirror[k]
    BY <1>1, <2>1, BatchRow
  <2>3. \A i \in 1 .. batch : i \in 1 .. commit \/ i \in commit + 1 .. batch
    BY <1>1
  <2>4. ASSUME RowFrom(topic, mirror[k], k, commit)
        PROVE  RowFrom(topic, mirror[k], k, batch)
    <3>1. CASE mirror[k] = Gone /\ \A i \in 1 .. commit : ~ChangeAt(topic, i, k)
      BY <1>4, <2>3, <3>1 DEF RowFrom
    <3>2. CASE \E i, j \in 1 .. commit :
                  /\ LastAt(topic, i, k, commit) /\ ChangeAt(topic, j, k)
                  /\ topic[i].lsn <= topic[j].lsn /\ mirror[k] = topic[j].val
      <4>1. PICK i \in 1 .. commit, j \in 1 .. commit :
                  /\ LastAt(topic, i, k, commit) /\ ChangeAt(topic, j, k)
                  /\ topic[i].lsn <= topic[j].lsn /\ mirror[k] = topic[j].val
        BY <3>2
      <4>2. i \in 1 .. batch /\ j \in 1 .. batch
        BY <1>1
      <4>3. ASSUME NEW m \in i + 1 .. batch PROVE ~ChangeAt(topic, m, k)
        <5>1. m \in i + 1 .. commit \/ m \in commit + 1 .. batch
          BY <1>1, <4>2
        <5>2. QED
          BY <1>4, <4>1, <5>1 DEF LastAt
      <4>4. LastAt(topic, i, k, batch)
        BY <4>1, <4>2, <4>3 DEF LastAt
      <4>5. QED
        BY <4>1, <4>2, <4>4 DEF RowFrom
    <3>3. QED
      BY <2>4, <3>1, <3>2 DEF RowFrom
  <2>5. QED
    BY <1>2, <2>2, <2>4
<1>5. QED
  BY <1>3, <1>4

LEMMA InitStream == Init => StreamInv
<1> SUFFICES ASSUME Init PROVE StreamInv
  OBVIOUS
<1>1. SourceInv /\ SourceInit
  BY InitTopic DEF Init
<1>2. /\ Changes(topic) = {} /\ topic = <<>> /\ Lsn = 1 /\ task = "unregistered"
      /\ offset = NoOffset /\ Len(topic) = 0 /\ DOMAIN topic = {}
  BY <1>1 DEF SourceInit, Changes, Lsn
<1>3. /\ mirror = Empty /\ batch = 0 /\ commit = 0 /\ merged = FALSE
      /\ applied = [k \in Keys |-> 0] /\ deaths = 0
  BY DEF Init
<1>4. StreamTypeOK
  <2>1. Empty \in Table
    BY DEF Empty, Table, Row
  <2>2. applied \in [Keys -> 0 .. Lsn]
    BY <1>2, <1>3
  <2>3. deaths \in 0 .. MaxSinkCrashes
    BY <1>3, SinkAssumption
  <2>4. TypeOK /\ mirror \in Table /\ merged \in BOOLEAN /\ ~merged
    BY <1>1, <1>3, <2>1, Positions
  <2>5. batch \in 0 .. Len(topic) /\ commit \in 0 .. batch
    BY <1>2, <1>3
  <2>6. QED
    BY <2>2, <2>3, <2>4, <2>5 DEF StreamTypeOK
<1>5. DeleteInv /\ RerunIsNoOp
  BY <1>2, <1>3 DEF DeleteInv, RerunIsNoOp
<1>6. SettledInv
  BY <1>2 DEF SettledInv, OrderInv, TailInv, AheadInv
<1>7. BatchInv
  <2>1. \A k \in Keys : mirror[k] = Gone
    BY <1>3 DEF Empty
  <2>2. QED
    <3>1. \A i \in 1 .. batch : FALSE
      BY <1>3
    <3>2. QED
      BY <2>1, <3>1 DEF BatchInv, RowFrom
<1>8. QED
  BY <1>1, <1>4, <1>5, <1>6, <1>7 DEF StreamInv, StreamTypeInv

LEMMA StreamTypeStep ==
    ASSUME StreamTypeInv, [Next]_vars
    PROVE  StreamTypeInv'
<1>1. CASE UNCHANGED vars
  BY <1>1, StreamSourceStep DEF vars
<1>2. CASE Next
  BY <1>2, StreamSourceStep, MergeBatchType, CheckpointType DEF Next, Sink
<1>3. QED
  BY <1>1, <1>2

LEMMA StreamSourceBatch ==
    ASSUME StreamInv, [SourceNext]_sourceVars, UNCHANGED sinkVars
    PROVE  BatchInv'
<1>1. /\ topic \in Seq(Event) /\ topic' \in Seq(Event) /\ Len(topic) <= Len(topic')
      /\ \A i \in 1 .. Len(topic) : topic'[i] = topic[i]
  BY TopicPrefix DEF StreamInv, StreamTypeInv
<1>2. /\ commit \in Nat /\ batch \in Nat /\ commit <= Len(topic) /\ batch <= Len(topic)
      /\ UNCHANGED <<mirror, batch, commit, merged>>
  BY StreamFacts DEF StreamInv, sinkVars
<1>3. ASSUME NEW k \in Keys, NEW n \in {commit, batch}, RowFrom(topic, mirror[k], k, n)
      PROVE  RowFrom(topic', mirror[k], k, n)
  BY <1>1, <1>2, <1>3, RowFromKept
<1>4. QED
  BY <1>2, <1>3 DEF StreamInv, BatchInv

LEMMA StreamStep ==
    ASSUME AlwaysCaptured, StreamInv, [Next]_vars
    PROVE  StreamInv'
<1>1. StreamTypeInv'
  BY StreamTypeStep DEF StreamInv
<1>2. SettledInv'
  <2>1. [SourceNext]_sourceVars
    BY DEF Next, Sink, PlanBatch, MergeBatch, CommitBatch, SinkCrash, vars
  <2>2. QED
    BY <2>1, SettledStep DEF StreamInv, StreamTypeInv
<1>3. BatchInv'
  <2>1. CASE SourceNext /\ UNCHANGED sinkVars
    BY <2>1, StreamSourceBatch
  <2>2. CASE UNCHANGED vars
    BY <2>2, StreamSourceBatch DEF vars
  <2>3. CASE MergeBatch
    <3>1. /\ batch > commit /\ mirror' = MergeInto(mirror, Upserts)
          /\ topic' = topic /\ batch' = batch
      BY <2>3 DEF MergeBatch, sourceVars
    <3>2. QED
      BY <3>1, RowFromBatch DEF BatchInv
  <2>4. CASE PlanBatch
    <3>1. /\ topic' = topic /\ mirror' = mirror /\ merged' = merged
          /\ commit' = commit /\ batch = commit
      BY <2>4 DEF PlanBatch, sourceVars
    <3>2. ~merged
      BY <3>1, StreamFacts DEF StreamInv, StreamTypeInv, StreamTypeOK
    <3>3. QED
      BY <3>1, <3>2 DEF StreamInv, BatchInv
  <2>5. CASE CommitBatch \/ SinkCrash
    <3>1. /\ topic' = topic /\ mirror' = mirror /\ merged /\ ~merged' /\ batch' = batch
      BY <2>5 DEF CommitBatch, SinkCrash, sourceVars
    <3>2. QED
      BY <3>1 DEF StreamInv, BatchInv
  <2>6. QED
    BY <2>1, <2>2, <2>3, <2>4, <2>5 DEF Next, Sink
<1>4. QED
  BY <1>1, <1>2, <1>3 DEF StreamInv

-----------------------------------------------------------------------------
LEMMA AlwaysStreamTypeInv == Spec => []StreamTypeInv
<1>1. Init => StreamTypeInv
  BY InitStream DEF StreamInv
<1>2. StreamTypeInv /\ [Next]_vars => StreamTypeInv'
  BY StreamTypeStep
<1>3. QED
  BY <1>1, <1>2, PTL DEF Spec

(* The checkpoint stays within the topic and a planned batch ahead of its  *)
(* commit, whatever dies (start() and foreachBatch of the CDC-7 notebook). *)
THEOREM StreamTypeCorrect == Spec => []StreamTypeOK
<1>1. StreamTypeInv => StreamTypeOK
  BY DEF StreamTypeInv
<1>2. QED
  BY <1>1, AlwaysStreamTypeInv, PTL

(* A batch that runs again because the query died before its commit        *)
(* changes nothing, whatever the connector has published since (upsert of  *)
(* the CDC-7 notebook).                                                    *)
THEOREM RerunChangesNothing == Spec => []RerunIsNoOp
<1>1. StreamTypeInv => RerunIsNoOp
  BY DEF StreamTypeInv
<1>2. QED
  BY <1>1, AlwaysStreamTypeInv, PTL

(* When the query has consumed all that was published of the whole log,    *)
(* the mirror is the table: however the topic was cut into batches and     *)
(* however often it was redelivered, with any snapshot.mode that           *)
(* snapshots, keys whose delete was never published excepted.              *)
THEOREM DrainedMirrorIsExact ==
    ASSUME AlwaysCaptured
    PROVE  Spec => []ExactWhenDrained
<1>1. ASSUME StreamInv PROVE ExactWhenDrained
  <2>1. SUFFICES ASSUME task = "streaming", pos = Lsn, commit = Len(topic),
                        NEW k \in Keys \ lost
                 PROVE  mirror[k] = Rows[k]
    BY DEF ExactWhenDrained
  <2>2. /\ SourceInv /\ batch = Len(topic) /\ Lsn \in Nat /\ Lsn >= 1
        /\ DOMAIN topic = 1 .. Len(topic)
    BY <1>1, <2>1, StreamFacts, Positions DEF StreamInv, StreamTypeInv
  <2>3. RowFrom(topic, mirror[k], k, Len(topic))
    BY <1>1, <2>1, <2>2 DEF StreamInv, BatchInv
  <2>4. CASE mirror[k] = Gone /\ \A i \in 1 .. Len(topic) : ~ChangeAt(topic, i, k)
    <3>1. \A e \in Changes(topic) : e.key # k
      BY <2>2, <2>4 DEF ChangeAt, Changes
    <3>2. upto[k] = Lsn
      BY <1>1, <2>1, <2>2, Positions DEF StreamInv, SettledInv, AheadInv
    <3>3. Told(topic, k) = Rows[k]
      BY <2>1, <2>2, <3>2 DEF SourceInv, TopicInv, TopicExact, Rows
    <3>4. QED
      BY <2>4, <3>1, <3>3, ToldNothing
  <2>5. CASE \E i, j \in 1 .. Len(topic) :
                /\ LastAt(topic, i, k, Len(topic)) /\ ChangeAt(topic, j, k)
                /\ topic[i].lsn <= topic[j].lsn /\ mirror[k] = topic[j].val
    <3>1. PICK i \in 1 .. Len(topic), j \in 1 .. Len(topic) :
                /\ LastAt(topic, i, k, Len(topic)) /\ ChangeAt(topic, j, k)
                /\ topic[i].lsn <= topic[j].lsn /\ mirror[k] = topic[j].val
      BY <2>5
    <3>2. Settled(topic, wal, i, k, Lsn)
      BY <1>1, <2>1, <2>2, <3>1 DEF StreamInv, SettledInv, TailInv
    <3>3. topic[j].lsn <= Lsn
      BY <2>2, <3>1, EventAt DEF ChangeAt
    <3>4. QED
      BY <2>2, <3>1, <3>2, <3>3 DEF Settled, Rows
  <2>6. QED
    BY <2>3, <2>4, <2>5 DEF RowFrom
<1>2. Init => StreamInv
  BY InitStream
<1>3. StreamInv /\ [Next]_vars => StreamInv'
  BY StreamStep
<1>4. QED
  BY <1>1, <1>2, <1>3, PTL DEF Spec
=============================================================================
