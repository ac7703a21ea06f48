----------------------- MODULE KafkaNotebooks_proofs -----------------------
(***************************************************************************)
(* Proofs about the client notebooks kaf1 to kaf5 and the broker's group,  *)
(* for any number of faults and runs from the top: a group has read what   *)
(* it committed (LogsInv and ReadsInv: a topic that is consumed keeps all  *)
(* of its records, and a reader is where its reads have brought it,        *)
(* wherever consumer_timeout_ms ended them).                               *)
(***************************************************************************)
EXTENDS KafkaNotebooks, FiniteSetTheorems, TLAPS

-----------------------------------------------------------------------------
(* THE GROUP.  Who comes, goes, joins a round or leads it leaves a group   *)
(* whose joined are among its members.                                     *)
GroupOK(g) ==
    /\ g \in [members : {g.members}, ghosts : {g.ghosts}, joined : {g.joined},
              phase : {"stable", "joining", "syncing"}, plan : {g.plan}]
    /\ g.joined \subseteq g.members

LEMMA RoundOverOK ==
    ASSUME NEW g, GroupOK(g)
    PROVE  GroupOK(RoundOver(g)) /\ RoundOver(g).members = g.members
  BY DEF GroupOK, RoundOver

LEMMA LeftOK ==
    ASSUME NEW g, GroupOK(g), NEW c
    PROVE  GroupOK(Left(g, c)) /\ Left(g, c).members = g.members \ {c}
  <1> DEFINE rest == [g EXCEPT !.members = @ \ {c}, !.joined = @ \ {c}]
  <1>1. GroupOK(rest) /\ rest.members = g.members \ {c}
    BY DEF GroupOK
  <1>2. /\ GroupOK([rest EXCEPT !.phase = "stable"]) /\ GroupOK([rest EXCEPT !.phase = "joining"])
        /\ [rest EXCEPT !.phase = "stable"].members = g.members \ {c}
        /\ [rest EXCEPT !.phase = "joining"].members = g.members \ {c}
    BY DEF GroupOK
  <1>3. Left(g, c) \in {g, rest, RoundOver(rest), [rest EXCEPT !.phase = "stable"],
                       [rest EXCEPT !.phase = "joining"]}
        /\ (Left(g, c) = g => c \notin g.members \/ g.members = g.members \ {c})
    <2>1. CASE c \notin g.members
      BY <2>1 DEF Left
    <2>2. CASE c \in g.members
      <3>1. Left(g, c) \in {RoundOver(rest), [rest EXCEPT !.phase = "stable"],
                          [rest EXCEPT !.phase = "joining"]}
        BY <2>2 DEF Left
      <3>2. Left(g, c).members = g.members \ {c}
        BY <1>1, <1>2, <3>1, RoundOverOK
      <3> QED
        BY <3>1, <3>2
    <2> QED
      BY <2>1, <2>2
  <1> HIDE DEF rest
  <1> QED
    BY <1>1, <1>2, <1>3, RoundOverOK

LEMMA AbandonedOK ==
    ASSUME NEW g, GroupOK(g), NEW cs
    PROVE  GroupOK(Abandoned(g, cs)) /\ Abandoned(g, cs).members = g.members \ cs
  BY DEF Abandoned, GroupOK

LEMMA RejoinedOK ==
    ASSUME NEW g, GroupOK(g), NEW c
    PROVE  GroupOK(Rejoined(g, c)) /\ Rejoined(g, c).members = g.members \cup {c}
  <1> DEFINE r == [g EXCEPT !.members = @ \cup {c}, !.joined = @ \cup {c}, !.phase = "joining"]
  <1>1. GroupOK(r) /\ r.members = g.members \cup {c}
    BY DEF GroupOK
  <1>2. Rejoined(g, c) = RoundOver(r)
    BY DEF Rejoined
  <1> HIDE DEF r
  <1> QED
    BY <1>1, <1>2, RoundOverOK

LEMMA PolledOK ==
    ASSUME NEW g, GroupOK(g), NEW c, NEW v, NEW heard, NEW n
    PROVE  LET p == Polled(g, v, c, heard, n)
           IN  GroupOK(p.group) /\ p.group.members \subseteq g.members \cup {c}
  <1> DEFINE g1 == IF c \notin g.members \/ (g.phase = "joining" /\ c \notin g.joined /\ heard)
                   THEN Rejoined(g, c) ELSE g
  <1>1. GroupOK(g1) /\ g1.members \subseteq g.members \cup {c}
    BY RejoinedOK
  <1>2. Polled(g, v, c, heard, n).group = Led(g1, c, n)
    BY DEF Polled
  <1> HIDE DEF g1
  <1>3. GroupOK(Led(g1, c, n)) /\ Led(g1, c, n).members = g1.members
    BY <1>1 DEF Led, GroupOK
  <1> QED
    BY <1>1, <1>2, <1>3

-----------------------------------------------------------------------------
(* THE SCRIPTS, whose operations come with the arguments that the steps    *)
(* rely on.                                                                *)
Event == [key : Nat, id : Nat]
Policies == {"default", "short", "compact"}
Names == {"skewed", "balanced", "seen", "crashed", "reread", "drained", "lag_broken", "lag_fixed",
          "step1", "step2", "step3", "owners", "records", "counts", "end", "earliest", "latest",
          "committed", "uncommitted"}

(* The operations that the cells of a notebook are made of: only kaf2      *)
(* consumes as a group, from a topic with the broker's default policy.     *)
Ensures(n) ==
    {Ensure(t, k, p) : t \in Topics, k \in Nat \ {0},
                       p \in IF n = "kaf2" THEN {"default"} ELSE Policies}
Produces == {Produce(t, recs) : t \in Topics, recs \in Seq(Event) \ {<<>>}}
Consumes(n) ==
    {Consume(g, k, commit, x) : g \in Groups, k \in Nat, x \in Names,
                                commit \in IF n = "kaf2" THEN BOOLEAN ELSE {}}
Asks ==
    {EndOffsets(t, x) : t \in Topics, x \in Names} \cup {ReadAll(t, x) : t \in Topics, x \in Names}
        \cup {First(t, x) : t \in Topics, x \in Names} \cup {Lag(g, x) : g \in Groups, x \in Names}
        \cup {Assigned(cs, x) : cs \in SUBSET Clients, x \in Names}
Others ==
    {New(c) : c \in Clients} \cup {Poll(c) : c \in Clients} \cup {Close(c) : c \in Clients}
        \cup {DeleteTopic(t) : t \in Topics} \cup {CheckPolicies, Prove}
Operations(n) == Ensures(n) \cup Produces \cup Consumes(n) \cup Asks \cup Others

CellsOf(n) == Seq(Operations(n)) \ {<<>>}

LEMMA OperationFacts ==
    ASSUME NEW n, NEW x \in Operations(n)
    PROVE  /\ x.op = "ensure" => x.n \in Nat \ {0} /\ x.policy \in Policies
                                 /\ (n = "kaf2" => x.policy = "default")
           /\ x.op = "produce" => x.recs \in Seq(Event) \ {<<>>}
           /\ x.op = "consume" => n = "kaf2" /\ x.t = "t" /\ x.g \in Groups
           /\ x.op = "new" => x.c \in Clients
  <1>1. CASE x \in Ensures(n)
    BY <1>1 DEF Ensures, Ensure, Policies
  <1>2. CASE x \in Produces
    BY <1>2 DEF Produces, Produce
  <1>3. CASE x \in Consumes(n)
    BY <1>3 DEF Consumes, Consume
  <1>4. CASE x \in Asks
    BY <1>4 DEF Asks, EndOffsets, ReadAll, First, Lag, Assigned
  <1>5. CASE x \in Others
    BY <1>5 DEF Others, New, Poll, Close, Member, DeleteTopic, CheckPolicies, Prove, Simple
  <1> QED
    BY <1>1, <1>2, <1>3, <1>4, <1>5 DEF Operations

LEMMA OperationsAre ==
    ASSUME NEW n
    PROVE  /\ \A t \in Topics, k \in Nat \ {0} : Ensure(t, k, "default") \in Operations(n)
           /\ n # "kaf2" => \A t \in Topics, k \in Nat \ {0}, p \in Policies :
                                Ensure(t, k, p) \in Operations(n)
           /\ \A t \in Topics, recs \in Seq(Event) \ {<<>>} : Produce(t, recs) \in Operations(n)
           /\ n = "kaf2" => \A g \in Groups, k \in Nat, x \in Names, commit \in BOOLEAN :
                                Consume(g, k, commit, x) \in Operations(n)
           /\ \A g \in Groups, x \in Names : Lag(g, x) \in Operations(n)
           /\ \A cs \in SUBSET Clients, x \in Names : Assigned(cs, x) \in Operations(n)
           /\ \A t \in Topics, x \in Names : /\ EndOffsets(t, x) \in Operations(n)
                                             /\ ReadAll(t, x) \in Operations(n)
                                             /\ First(t, x) \in Operations(n)
           /\ \A c \in Clients : /\ New(c) \in Operations(n) /\ Poll(c) \in Operations(n)
                                 /\ Close(c) \in Operations(n)
           /\ \A t \in Topics : DeleteTopic(t) \in Operations(n)
           /\ CheckPolicies \in Operations(n) /\ Prove \in Operations(n)
  <1>1. \A t \in Topics, k \in Nat \ {0}, p \in IF n = "kaf2" THEN {"default"} ELSE Policies :
            Ensure(t, k, p) \in Ensures(n)
    BY DEF Ensures
  <1>2. \A t \in Topics, recs \in Seq(Event) \ {<<>>} : Produce(t, recs) \in Produces
    BY DEF Produces
  <1>3. \A g \in Groups, k \in Nat, x \in Names, commit \in IF n = "kaf2" THEN BOOLEAN ELSE {} :
            Consume(g, k, commit, x) \in Consumes(n)
    BY DEF Consumes
  <1>4. /\ \A t \in Topics, x \in Names : /\ EndOffsets(t, x) \in Asks /\ ReadAll(t, x) \in Asks
                                          /\ First(t, x) \in Asks
        /\ \A g \in Groups, x \in Names : Lag(g, x) \in Asks
        /\ \A cs \in SUBSET Clients, x \in Names : Assigned(cs, x) \in Asks
    BY DEF Asks
  <1>5. /\ \A c \in Clients : New(c) \in Others /\ Poll(c) \in Others /\ Close(c) \in Others
        /\ \A t \in Topics : DeleteTopic(t) \in Others
        /\ CheckPolicies \in Others /\ Prove \in Others
    BY DEF Others
  <1> QED
    BY <1>1, <1>2, <1>3, <1>4, <1>5 DEF Operations, Policies

LEMMA Kaf1Cells == Kaf1Skewed \o Kaf1Balanced \in Seq(CellsOf("kaf1"))
  <1> DEFINE n == "kaf1"
  <1>1. Events(<<0, 0, 0, 1>>) \in Seq(Event) \ {<<>>} /\ Events(<<0, 1, 2>>) \in Seq(Event) \ {<<>>}
    BY DEF Events, Event
  <1>2. /\ Ensure("t", 3, "default") \in Operations(n)
        /\ Produce("t", Events(<<0, 0, 0, 1>>)) \in Operations(n)
        /\ Produce("t", Events(<<0, 1, 2>>)) \in Operations(n)
        /\ EndOffsets("t", "skewed") \in Operations(n) /\ EndOffsets("t", "balanced") \in Operations(n)
        /\ Prove \in Operations(n) /\ DeleteTopic("t") \in Operations(n)
    BY <1>1, OperationsAre DEF Topics, Names
  <1> HIDE DEF n
  <1>3. Kaf1Skewed \in Seq(CellsOf(n))
    BY <1>2 DEF Kaf1Skewed, CellsOf
  <1>4. Kaf1Balanced \in Seq(CellsOf(n))
    BY <1>2 DEF Kaf1Balanced, CellsOf
  <1> QED
    BY <1>3, <1>4 DEF n

LEMMA Kaf2Cells == Kaf2Break \o Kaf2Drain \in Seq(CellsOf("kaf2"))
  <1> DEFINE n == "kaf2"
             C1 == Consume("app", 1, TRUE, "seen")
             C2 == Consume("dup", 2, FALSE, "crashed")
             C3 == Consume("dup", 2, TRUE, "reread")
             C4 == Consume("app", N, TRUE, "drained")
  <1>1. Events([i \in 1 .. N |-> 0]) \in Seq(Event) \ {<<>>}
    BY DEF Events, Event, N
  <1>2. /\ Ensure("t", 1, "default") \in Operations(n)
        /\ Produce("t", Events([i \in 1 .. N |-> 0])) \in Operations(n)
    BY <1>1, OperationsAre DEF Topics
  <1>3. C1 \in Operations(n) /\ C2 \in Operations(n) /\ C3 \in Operations(n) /\ C4 \in Operations(n)
    <2>1. \A g \in Groups, k \in Nat, x \in Names, commit \in BOOLEAN :
              Consume(g, k, commit, x) \in Operations(n)
      BY OperationsAre
    <2>2. N \in Nat /\ {"app", "dup"} \subseteq Groups
      BY DEF N, Groups
    <2>3. {"seen", "crashed", "reread", "drained"} \subseteq Names
      BY DEF Names
    <2> QED
      BY <2>1, <2>2, <2>3
  <1>4. /\ Lag("app", "lag_broken") \in Operations(n) /\ Lag("app", "lag_fixed") \in Operations(n)
        /\ Prove \in Operations(n) /\ DeleteTopic("t") \in Operations(n)
    BY OperationsAre DEF Topics, Groups, Names
  <1>5. Backlog \in CellsOf(n)
    BY <1>2 DEF Backlog, CellsOf
  <1>6. Kaf2Break = <<Backlog, <<C1>>, <<Lag("app", "lag_broken")>>, Backlog \o <<C2, C3>>>>
    BY Zenon DEF Kaf2Break
  <1>7. Kaf2Drain = <<<<C4>>, <<Lag("app", "lag_fixed"), Prove>>, <<DeleteTopic("t")>>>>
    BY Zenon DEF Kaf2Drain
  <1> HIDE DEF n, C1, C2, C3, C4
  <1>8. Kaf2Break \in Seq(CellsOf(n))
    <2>1. <<C1>> \in CellsOf(n) /\ <<Lag("app", "lag_broken")>> \in CellsOf(n)
      BY <1>3, <1>4 DEF CellsOf
    <2>2. Backlog \o <<C2, C3>> \in CellsOf(n)
      <3>1. <<C2, C3>> \in Seq(Operations(n))
        BY <1>3
      <3> QED
        BY <1>5, <3>1 DEF CellsOf
    <2>3. \A a, b, c, d \in CellsOf(n) : <<a, b, c, d>> \in Seq(CellsOf(n))
      OBVIOUS
    <2> QED
      BY <1>5, <1>6, <2>1, <2>2, <2>3
  <1>9. Kaf2Drain \in Seq(CellsOf(n))
    BY <1>3, <1>4, <1>7 DEF CellsOf
  <1> QED
    BY <1>8, <1>9 DEF n

LEMMA Kaf4Cells == Kaf4Produce \o Kaf4Read \in Seq(CellsOf("kaf4"))
  <1> DEFINE n == "kaf4"
  <1>1. Events(<<0, 0>>) \in Seq(Event) \ {<<>>} /\ Events(<<0, 1, 0>>) \in Seq(Event) \ {<<>>}
    BY DEF Events, Event
  <1>2. /\ Ensure("t", 1, "short") \in Operations(n) /\ Ensure("s", 1, "compact") \in Operations(n)
        /\ Produce("t", Events(<<0, 0>>)) \in Operations(n)
        /\ Produce("s", Events(<<0, 1, 0>>)) \in Operations(n)
        /\ CheckPolicies \in Operations(n)
    BY <1>1, OperationsAre DEF Topics, Policies
  <1>3. /\ ReadAll("s", "records") \in Operations(n) /\ ReadAll("s", "counts") \in Operations(n)
        /\ EndOffsets("t", "end") \in Operations(n) /\ First("t", "earliest") \in Operations(n)
        /\ EndOffsets("t", "latest") \in Operations(n)
        /\ Prove \in Operations(n) /\ DeleteTopic("t") \in Operations(n)
        /\ DeleteTopic("s") \in Operations(n)
    BY OperationsAre DEF Topics, Names
  <1> HIDE DEF n
  <1>4. Kaf4Produce \in Seq(CellsOf(n))
    BY <1>2 DEF Kaf4Produce, CellsOf
  <1>5. Kaf4Read \in Seq(CellsOf(n))
    BY <1>3 DEF Kaf4Read, CellsOf
  <1> QED
    BY <1>4, <1>5 DEF n

LEMMA Kaf5Cells == Kaf5Send \o Kaf5Dedup \in Seq(CellsOf("kaf5"))
  <1> DEFINE n == "kaf5"
  <1>1. Events(<<0, 0, 0>>) \in Seq(Event) \ {<<>>} /\ Events(<<0>>) \in Seq(Event) \ {<<>>}
    BY DEF Events, Event
  <1>2. /\ Ensure("t", 1, "default") \in Operations(n)
        /\ Produce("t", Events(<<0, 0, 0>>)) \in Operations(n)
        /\ Produce("t", Events(<<0>>)) \in Operations(n)
        /\ Produce("s", Events(<<0>>)) \in Operations(n)
    BY <1>1, OperationsAre DEF Topics
  <1>3. /\ ReadAll("t", "counts") \in Operations(n) /\ ReadAll("t", "committed") \in Operations(n)
        /\ ReadAll("t", "uncommitted") \in Operations(n)
        /\ Prove \in Operations(n) /\ DeleteTopic("t") \in Operations(n)
        /\ DeleteTopic("s") \in Operations(n)
    BY OperationsAre DEF Topics, Names
  <1> HIDE DEF n
  <1>4. Kaf5Send \in Seq(CellsOf(n))
    BY <1>2, <1>3 DEF Kaf5Send, CellsOf
  <1>5. Kaf5Dedup \in Seq(CellsOf(n))
    BY <1>2, <1>3 DEF Kaf5Dedup, CellsOf
  <1> QED
    BY <1>4, <1>5 DEF n

LEMMA RepeatPolls ==
    ASSUME NEW n, NEW k \in Nat, NEW polls \in Seq(Clients), polls # <<>>
    PROVE  Repeat(k, polls) \in Seq(Operations(n))
  <1>1. \A i \in Nat : polls[((i - 1) % Len(polls)) + 1] \in Clients
    OBVIOUS
  <1>2. \A i \in Nat : Poll(polls[((i - 1) % Len(polls)) + 1]) \in Operations(n)
    BY <1>1, OperationsAre
  <1>3. k * Len(polls) \in Nat
    OBVIOUS
  <1> QED
    BY <1>2, <1>3 DEF Repeat

LEMMA Kaf3Cells == Kaf3Rebalance \o Kaf3Sizing \in Seq(CellsOf("kaf3"))
  <1> DEFINE n == "kaf3"
             Ops == Operations(n)
  <1>1. Events(<<0>>) \in Seq(Event) \ {<<>>}
    BY DEF Events, Event
  <1>2. /\ Ensure("t", 3, "default") \in Ops /\ Produce("t", Events(<<0>>)) \in Ops
        /\ Prove \in Ops /\ DeleteTopic("t") \in Ops
    BY <1>1, OperationsAre DEF Topics
  <1>3. \A c \in {"A", "B", "C", "D", "E"} : New(c) \in Ops /\ Poll(c) \in Ops /\ Close(c) \in Ops
    BY OperationsAre DEF Clients
  <1>4. /\ Assigned({"A"}, "step1") \in Ops /\ Assigned({"A", "B"}, "step2") \in Ops
        /\ Assigned({"A"}, "step3") \in Ops /\ Assigned({"A", "C", "D", "E"}, "owners") \in Ops
    BY OperationsAre DEF Clients, Names
  <1>5. /\ Repeat(3, <<"A", "B">>) \in Seq(Ops) /\ Repeat(3, <<"A">>) \in Seq(Ops)
        /\ Repeat(4, <<"A", "C", "D", "E">>) \in Seq(Ops)
    <2>1. /\ <<"A", "B">> \in Seq(Clients) \ {<<>>} /\ <<"A">> \in Seq(Clients) \ {<<>>}
          /\ <<"A", "C", "D", "E">> \in Seq(Clients) \ {<<>>}
      BY DEF Clients
    <2> QED
      BY <2>1, RepeatPolls
  <1> HIDE DEF Ops, n
  <1>6. Kaf3Rebalance \in Seq(Seq(Ops) \ {<<>>})
    <2>1. <<New("B")>> \o Repeat(3, <<"A", "B">>) \o <<Assigned({"A", "B"}, "step2")>>
              \in Seq(Ops) \ {<<>>}
      BY <1>3, <1>4, <1>5
    <2>2. <<Close("B")>> \o Repeat(3, <<"A">>) \o <<Assigned({"A"}, "step3")>> \in Seq(Ops) \ {<<>>}
      BY <1>3, <1>4, <1>5
    <2>3. /\ <<Ensure("t", 3, "default"), Produce("t", Events(<<0>>))>> \in Seq(Ops) \ {<<>>}
          /\ <<New("A"), Poll("A"), Assigned({"A"}, "step1")>> \in Seq(Ops) \ {<<>>}
      BY <1>2, <1>3, <1>4
    <2> QED
      BY <2>1, <2>2, <2>3 DEF Kaf3Rebalance
  <1>7. Kaf3Sizing \in Seq(Seq(Ops) \ {<<>>})
    <2>1. <<Poll("A"), New("C"), New("D"), New("E")>> \o Repeat(4, <<"A", "C", "D", "E">>)
              \o <<Assigned({"A", "C", "D", "E"}, "owners"), Close("C"), Close("D"), Close("E")>>
              \in Seq(Ops) \ {<<>>}
      BY <1>3, <1>4, <1>5
    <2>2. <<Prove>> \in Seq(Ops) \ {<<>>}
          /\ <<Close("A"), Close("B"), DeleteTopic("t")>> \in Seq(Ops) \ {<<>>}
      BY <1>2, <1>3
    <2> QED
      BY <2>1, <2>2 DEF Kaf3Sizing
  <1> QED
    BY <1>6, <1>7 DEF Ops, n, CellsOf

(* Every notebook's script is of such operations, and no cell is empty.    *)
LEMMA Scripts == \A n \in Notebooks : Cells[n] \in Seq(CellsOf(n)) /\ Len(Cells[n]) >= 1
  <1>1. Notebooks \subseteq {"kaf1", "kaf2", "kaf3", "kaf4", "kaf5"}
    BY KafkaAssumption DEF Cells
  <1>2. /\ Cells["kaf1"] \in Seq(CellsOf("kaf1")) /\ Cells["kaf2"] \in Seq(CellsOf("kaf2"))
        /\ Cells["kaf3"] \in Seq(CellsOf("kaf3")) /\ Cells["kaf4"] \in Seq(CellsOf("kaf4"))
        /\ Cells["kaf5"] \in Seq(CellsOf("kaf5"))
    BY Kaf1Cells, Kaf2Cells, Kaf3Cells, Kaf4Cells, Kaf5Cells DEF Cells
  <1>3. /\ Cells["kaf1"] # <<>> /\ Cells["kaf2"] # <<>> /\ Cells["kaf3"] # <<>>
        /\ Cells["kaf4"] # <<>> /\ Cells["kaf5"] # <<>>
    BY DEF Cells, Kaf1Skewed, Kaf1Balanced, Kaf2Break, Kaf2Drain, Kaf3Rebalance, Kaf3Sizing,
           Kaf4Produce, Kaf4Read, Kaf5Send, Kaf5Dedup
  <1>4. \A n \in {"kaf1", "kaf2", "kaf3", "kaf4", "kaf5"} :
            Cells[n] \in Seq(CellsOf(n)) /\ Cells[n] # <<>>
    BY <1>2, <1>3
  <1>5. \A S : \A s \in Seq(S) : s # <<>> => Len(s) >= 1
    OBVIOUS
  <1> QED
    BY <1>1, <1>4, <1>5

-----------------------------------------------------------------------------
(* THE KERNEL is at an operation of the notebook's script, unless it is at *)
(* the end and has not failed.                                             *)
Phases == {"creating", "reading", "late", "read"}

KernelInv ==
    /\ notebook \in Notebooks /\ KernelTypeOK(Script, Phases)
    /\ AtEnd(Script) => status = "ready"

LEMMA ScriptFacts ==
    ASSUME NEW n \in Notebooks
    PROVE  /\ Len(Cells[n]) \in Nat \ {0}
           /\ \A i \in 1 .. Len(Cells[n]) : /\ Cells[n][i] \in Seq(Operations(n))
                                            /\ Len(Cells[n][i]) \in Nat \ {0}
  <1>1. Cells[n] \in Seq(CellsOf(n)) /\ Len(Cells[n]) >= 1
    BY Scripts
  <1>2. \A S : \A s \in Seq(S) \ {<<>>} : Len(s) \in Nat \ {0}
    OBVIOUS
  <1> QED
    BY <1>1, <1>2 DEF CellsOf

LEMMA OperationAt ==
    ASSUME NEW n \in Notebooks, NEW i \in 1 .. Len(Cells[n]), NEW j \in 1 .. Len(Cells[n][i])
    PROVE  Cells[n][i][j] \in Operations(n)
  <1>1. \A S : \A s \in Seq(S) : \A k \in 1 .. Len(s) : s[k] \in S
    OBVIOUS
  <1>2. Cells[n][i] \in Seq(Operations(n))
    BY ScriptFacts
  <1> QED
    BY <1>1, <1>2

LEMMA DueFacts ==
    ASSUME KernelInv, ~AtEnd(Script)
    PROVE  /\ cell \in 1 .. Len(Script) /\ op \in 1 .. Len(Script[cell])
           /\ o \in Operations(notebook)
  <1>1. cell \in 1 .. Len(Script) /\ op \in 1 .. Len(Script[cell])
    BY ScriptFacts DEF KernelInv, KernelTypeOK, AtEnd, Script
  <1> QED
    BY <1>1, OperationAt DEF o, Script, KernelInv

(* How a step may move the kernel.                                         *)
Moves ==
    \/ ~AtEnd(Script) /\ Finish(Script)
    \/ ~AtEnd(Script) /\ \E phase \in Phases \cup {"ready", "rejected"} : GoOn(phase)
    \/ ~AtEnd(Script) /\ \E phase \in Phases \cup {"ready", "failed"} : Fault(phase)
    \/ RetryCell
    \/ FromTop
    \/ UNCHANGED kernelVars

LEMMA NextMoves == [Next]_vars => Moves
  <1> SUFFICES ASSUME [Next]_vars PROVE Moves
    OBVIOUS
  <1> USE DEF Moves, Phases, DueOp, Due
  <1>1. CASE RequestDelete \/ RequestLost \/ Create \/ CreateRefused \/ GiveUp \/ Send
    BY <1>1 DEF RequestDelete, RequestLost, Create, CreateRefused, GiveUp, Send
  <1>2. CASE StartRead \/ ReadNext \/ TooLate \/ EndRead \/ CommitRead
    BY <1>2 DEF StartRead, ReadNext, TooLate, EndRead, CommitRead
  <1>3. CASE Ask
    BY <1>3 DEF Ask
  <1>4. CASE NewConsumer \/ PollConsumer \/ CloseConsumer \/ Pause
    BY <1>4 DEF NewConsumer, PollConsumer, CloseConsumer, Pause
  <1>5. CASE BrokerStep \/ Fail \/ Retry \/ FromTheTop \/ UNCHANGED vars
    BY <1>5 DEF BrokerStep, Fail, Die, Retry, FromTheTop, vars
  <1> QED
    BY <1>1, <1>2, <1>3, <1>4, <1>5 DEF Next, KernelStep

LEMMA KernelPreserved == KernelInv /\ [Next]_vars => KernelInv' /\ notebook' = notebook /\ Script' = Script
  <1> SUFFICES ASSUME KernelInv, Moves PROVE KernelInv' /\ notebook' = notebook
    BY NextMoves DEF Script
  <1>1. notebook' = notebook /\ Script' = Script
    BY DEF Moves, Finish, GoOn, Fault, RetryCell, FromTop, kernelVars, Script
  <1>0. /\ Len(Script) \in Nat \ {0} /\ \A i \in 1 .. Len(Script) : Len(Script[i]) \in Nat \ {0}
    BY ScriptFacts DEF KernelInv, Script
  <1> USE KernelAssumption, <1>0, <1>1 DEF KernelInv, KernelTypeOK, AtEnd, Phases
  <1>2. CASE ~AtEnd(Script) /\ Finish(Script)
    BY <1>2, DueFacts DEF Finish
  <1>3. CASE ~AtEnd(Script) /\ \E phase \in Phases \cup {"ready", "rejected"} : GoOn(phase)
    BY <1>3 DEF GoOn
  <1>4. CASE ~AtEnd(Script) /\ \E phase \in Phases \cup {"ready", "failed"} : Fault(phase)
    BY <1>4 DEF Fault
  <1>5. CASE RetryCell
    BY <1>5, DueFacts DEF RetryCell
  <1>6. CASE FromTop
    BY <1>6 DEF FromTop
  <1>7. CASE UNCHANGED kernelVars
    BY <1>7 DEF kernelVars
  <1> QED
    BY <1>2, <1>3, <1>4, <1>5, <1>6, <1>7 DEF Moves

-----------------------------------------------------------------------------
(* THE LOGS.  Records have distinct offsets below the end; a topic with    *)
(* the default policy, as kaf2's is, has them all.                         *)
LogType == [end : Nat, recs : SUBSET [off : Nat, key : Nat, id : Nat]]
TopicType == [state : {"absent", "live", "deleting"}, policy : Policies, log : Seq(LogType)]

Distinct(l) == \A r \in l.recs : r.off < l.end /\ \A q \in l.recs : q.off = r.off => q = r
Dense(l) == \A i \in 0 .. l.end - 1 : \E r \in l.recs : r.off = i

TopicOK(t) ==
    /\ t \in TopicType
    /\ t.state = "live" => Len(t.log) >= 1
    /\ \A p \in 1 .. Len(t.log) : Distinct(t.log[p]) /\ (t.policy = "default" => Dense(t.log[p]))

LogsInv ==
    /\ topics \in [Topics -> TopicType]
    /\ \A t \in Topics : TopicOK(topics[t])
    /\ notebook = "kaf2" => topics["t"].policy = "default"

LEMMA NoTopicOK == TopicOK(NoTopic)
  BY DEF TopicOK, NoTopic, TopicType, Policies

LEMMA NewTopicOK ==
    ASSUME NEW n \in Nat \ {0}, NEW policy \in Policies
    PROVE  /\ TopicOK(NewTopic(n, policy))
           /\ NewTopic(n, policy).policy = policy /\ NewTopic(n, policy).state = "live"
  <1> DEFINE l == [p \in 1 .. n |-> [end |-> 0, recs |-> {}]]
  <1>1. NewTopic(n, policy) = [state |-> "live", policy |-> policy, log |-> l]
    BY DEF NewTopic
  <1>2. l \in Seq(LogType) /\ Len(l) = n /\ \A p \in 1 .. n : Distinct(l[p]) /\ Dense(l[p])
    BY DEF LogType, Distinct, Dense
  <1> HIDE DEF l
  <1> QED
    BY <1>1, <1>2 DEF TopicOK, TopicType

LEMMA ShorterOK ==
    ASSUME NEW t, TopicOK(t), t.state = "live", t.policy # "default",
           NEW keep \in SUBSET t.log[1].recs
    PROVE  TopicOK([t EXCEPT !.log[1].recs = keep])
  <1> DEFINE u == [t EXCEPT !.log[1].recs = keep]
  <1>1. t.log \in Seq(LogType) /\ Len(t.log) \in Nat /\ Len(t.log) >= 1
    BY DEF TopicOK, TopicType
  <1>2. /\ u.state = t.state /\ u.policy = t.policy
        /\ u = [state |-> t.state, policy |-> t.policy, log |-> u.log]
        /\ u.log = [t.log EXCEPT ![1] = [@ EXCEPT !.recs = keep]]
    <2>1. t \in TopicType
      BY DEF TopicOK
    <2> QED
      BY <2>1 DEF TopicType
  <1> DEFINE m == [t.log[1] EXCEPT !.recs = keep]
  <1>3. m \in LogType /\ Distinct(m)
    <2>1. t.log[1] \in LogType /\ Distinct(t.log[1])
      BY <1>1 DEF TopicOK
    <2>2. m = [end |-> t.log[1].end, recs |-> keep]
      BY <2>1 DEF LogType
    <2> QED
      BY <2>1, <2>2 DEF LogType, Distinct
  <1>4. u.log \in Seq(LogType) /\ Len(u.log) = Len(t.log)
    <2>1. u.log = [t.log EXCEPT ![1] = m]
      BY <1>2
    <2> HIDE DEF m, u
    <2> QED
      BY <1>1, <1>3, <2>1
  <1>5. \A p \in 1 .. Len(u.log) : Distinct(u.log[p])
    <2>1. u.log = [t.log EXCEPT ![1] = m]
      BY <1>2
    <2> HIDE DEF m, u
    <2> QED
      BY <1>1, <1>3, <1>4, <2>1 DEF TopicOK
  <1>6. u \in TopicType
    BY <1>2, <1>4 DEF TopicOK, TopicType
  <1> HIDE DEF u
  <1>7. TopicOK(u)
    BY <1>2, <1>4, <1>5, <1>6 DEF TopicOK
  <1> QED
    BY <1>7 DEF u

LEMMA AppendedOK ==
    ASSUME NEW t, TopicOK(t), t.state = "live", NEW r \in Event
    PROVE  /\ TopicOK(Appended(t, r))
           /\ Appended(t, r).policy = t.policy /\ Appended(t, r).state = t.state
  <1> DEFINE p == PartitionOf(t, r.key)
             l == t.log[p]
             m == [end |-> l.end + 1,
                   recs |-> l.recs \cup {[off |-> l.end, key |-> r.key, id |-> r.id]}]
             u == Appended(t, r)
  <1>1. t.log \in Seq(LogType) /\ Len(t.log) \in Nat /\ Len(t.log) >= 1
    BY DEF TopicOK, TopicType
  <1>2. p \in 1 .. Len(t.log)
    BY <1>1 DEF PartitionOf, Event
  <1> HIDE DEF p
  <1>3. /\ u.state = t.state /\ u.policy = t.policy
        /\ u = [state |-> t.state, policy |-> t.policy, log |-> u.log]
        /\ u.log = [t.log EXCEPT ![p] = m]
    BY DEF TopicOK, TopicType, Appended, p
  <1>4. l \in LogType /\ Distinct(l) /\ (t.policy = "default" => Dense(l))
    BY <1>1, <1>2 DEF TopicOK
  <1>5. m \in LogType
    BY <1>4 DEF LogType, Event
  <1>6. Distinct(m)
    BY <1>4 DEF Distinct, LogType
  <1>7. t.policy = "default" => Dense(m)
    <2> SUFFICES ASSUME t.policy = "default", NEW i \in 0 .. l.end
                 PROVE  \E q \in m.recs : q.off = i
      BY <1>4 DEF Dense, LogType
    <2>1. CASE i < l.end
      BY <1>4, <2>1 DEF Dense, LogType
    <2>2. CASE i = l.end
      <3>1. [off |-> l.end, key |-> r.key, id |-> r.id] \in m.recs
        OBVIOUS
      <3> QED
        BY <2>2, <3>1
    <2> QED
      BY <1>4, <2>1, <2>2 DEF LogType
  <1> HIDE DEF m, u, l
  <1>8. u.log \in Seq(LogType) /\ Len(u.log) = Len(t.log)
    BY <1>1, <1>2, <1>3, <1>5
  <1>9. u \in TopicType
    BY <1>3, <1>8 DEF TopicOK, TopicType
  <1>10. TopicOK(u)
    BY <1>1, <1>2, <1>3, <1>6, <1>7, <1>8, <1>9 DEF TopicOK
  <1> QED
    BY <1>3, <1>10 DEF u

(* Where a producer or a reader is: past 0 only in the middle.             *)
AtInv ==
    /\ status \in {"creating", "failed", "rejected"} => at = 0
    /\ status = "ready" => IF ~AtEnd(Script) /\ o.op = "produce"
                           THEN at \in 0 .. Len(o.recs) - 1 ELSE at = 0

LEMMA AtPreserved == KernelInv /\ AtInv /\ [Next]_vars => AtInv'
  <1> SUFFICES ASSUME KernelInv, AtInv, [Next]_vars PROVE AtInv'
    OBVIOUS
  <1>1. KernelInv' /\ Script' = Script
    BY KernelPreserved
  <1>2. ASSUME at' = 0 PROVE AtInv'
    <2>1. \A S : \A s \in Seq(S) \ {<<>>} : 0 \in 0 .. Len(s) - 1
      OBVIOUS
    <2>2. ~AtEnd(Script)' /\ o'.op = "produce" => o'.recs \in Seq(Event) \ {<<>>}
      <3> SUFFICES ASSUME ~AtEnd(Script)', o'.op = "produce" PROVE o'.recs \in Seq(Event) \ {<<>>}
        OBVIOUS
      <3>1. cell' \in 1 .. Len(Script) /\ op' \in 1 .. Len(Script[cell'])
        BY <1>1, ScriptFacts DEF KernelInv, KernelTypeOK, AtEnd, Script
      <3>2. o' \in Operations(notebook)
        BY <1>1, <3>1, OperationAt DEF o, Script, KernelInv
      <3> QED
        BY <3>2, OperationFacts
    <2> QED
      BY <1>2, <2>1, <2>2 DEF AtInv
  <1> USE DEF DueOp, Due
  <1>3. ASSUME at' = at, status \in {"creating", "failed", "rejected"} PROVE AtInv'
    BY <1>2, <1>3 DEF AtInv
  <1>4. ASSUME at' = at, status = "ready", ~AtEnd(Script), o.op # "produce" PROVE AtInv'
    BY <1>2, <1>4 DEF AtInv
  <1>5. ASSUME at' = at, UNCHANGED <<cell, op, status>> PROVE AtInv'
    BY <1>1, <1>5 DEF AtInv, AtEnd, o
  <1>6. CASE RequestDelete \/ RequestLost
    BY <1>4, <1>6 DEF RequestDelete, RequestLost, clientVars
  <1>7. CASE Create \/ CreateRefused \/ GiveUp
    BY <1>3, <1>7 DEF Create, CreateRefused, GiveUp
  <1>8. CASE Send
    <2>1. o.recs \in Seq(Event) /\ at \in 0 .. Len(o.recs) - 1
      BY <1>8, DueFacts, OperationFacts DEF Send, AtInv
    <2>2. CASE at + 1 = Len(o.recs)
      BY <1>2, <1>8, <2>2 DEF Send
    <2>3. CASE at + 1 # Len(o.recs)
      <3>1. at' = at + 1 /\ status' = "ready" /\ cell' = cell /\ op' = op
        BY <1>8, <2>3 DEF Send, GoOn
      <3>2. o' = o /\ AtEnd(Script)' = AtEnd(Script)
        BY <1>1, <3>1 DEF o, AtEnd
      <3> QED
        BY <1>8, <2>1, <2>3, <3>1, <3>2 DEF Send, AtInv
    <2> QED
      BY <2>2, <2>3
  <1>9. CASE StartRead \/ ReadNext \/ TooLate
    BY <1>9 DEF StartRead, ReadNext, TooLate, GoOn, Fault, AtInv
  <1>10. CASE EndRead
    <2>1. at' = 0 \/ GoOn("read")
      BY <1>10 DEF EndRead
    <2> QED
      BY <1>2, <2>1 DEF GoOn, AtInv
  <1>11. CASE CommitRead \/ Fail \/ FromTheTop
    BY <1>2, <1>11 DEF CommitRead, Fail, FromTheTop
  <1>12. CASE Ask
    BY <1>4, <1>12 DEF Ask
  <1>13. CASE NewConsumer \/ PollConsumer \/ CloseConsumer
    BY <1>4, <1>13 DEF NewConsumer, PollConsumer, CloseConsumer, clientVars
  <1>14. CASE Pause
    BY <1>5, <1>14 DEF Pause, Fault, clientVars
  <1>15. CASE BrokerStep
    BY <1>5, <1>15 DEF BrokerStep, kernelVars, clientVars
  <1>16. CASE Retry
    BY <1>3, <1>16 DEF Retry, RetryCell, clientVars
  <1>17. CASE UNCHANGED vars
    BY <1>5, <1>17 DEF vars, kernelVars, clientVars
  <1> QED
    BY <1>6, <1>7, <1>8, <1>9, <1>10, <1>11, <1>12, <1>13, <1>14, <1>15, <1>16, <1>17
       DEF Next, KernelStep

(* ensure_topic is where its retries are.                                  *)
CreatingInv == status = "creating" => ~AtEnd(Script) /\ o.op = "ensure"

LEMMA CreatingPreserved == KernelInv /\ CreatingInv /\ [Next]_vars => CreatingInv'
  <1> SUFFICES ASSUME KernelInv, CreatingInv, [Next]_vars PROVE CreatingInv'
    OBVIOUS
  <1>1. Script' = Script
    BY KernelPreserved
  <1>2. ASSUME status' # "creating" PROVE CreatingInv'
    BY <1>2 DEF CreatingInv
  <1>3. ASSUME ~AtEnd(Script), o.op = "ensure" \/ status = "creating", cell' = cell, op' = op
        PROVE  CreatingInv'
    BY <1>1, <1>3 DEF CreatingInv, AtEnd, o
  <1> USE DEF DueOp, Due
  <1>4. CASE RequestDelete \/ RequestLost
    BY <1>2, <1>3, <1>4 DEF RequestDelete, RequestLost, GoOn, Fault, Finish
  <1>5. CASE Create \/ CreateRefused \/ GiveUp
    BY <1>2, <1>3, <1>5 DEF Create, CreateRefused, GiveUp, GoOn, Finish
  <1>6. CASE Send \/ StartRead \/ ReadNext \/ TooLate \/ EndRead \/ CommitRead
    BY <1>2, <1>6 DEF Send, StartRead, ReadNext, TooLate, EndRead, CommitRead, GoOn, Fault, Finish
  <1>7. CASE Ask
    BY <1>2, <1>7 DEF Ask, GoOn, Finish
  <1>8. CASE NewConsumer \/ PollConsumer \/ CloseConsumer \/ Pause
    BY <1>2, <1>8 DEF NewConsumer, PollConsumer, CloseConsumer, Pause, GoOn, Fault, Finish
  <1>9. CASE Fail \/ Retry \/ FromTheTop
    BY <1>2, <1>9 DEF Fail, Die, Fault, Retry, RetryCell, FromTheTop, FromTop
  <1>10. CASE BrokerStep \/ UNCHANGED vars
    <2>1. UNCHANGED kernelVars
      BY <1>10 DEF BrokerStep, vars
    <2> QED
      BY <1>1, <2>1 DEF kernelVars, CreatingInv, AtEnd, o
  <1> QED
    BY <1>4, <1>5, <1>6, <1>7, <1>8, <1>9, <1>10 DEF Next, KernelStep

LEMMA LogsPreserved == KernelInv /\ CreatingInv /\ AtInv /\ LogsInv /\ [Next]_vars => LogsInv'
  <1> SUFFICES ASSUME KernelInv, CreatingInv, AtInv, LogsInv, [Next]_vars PROVE LogsInv'
    OBVIOUS
  <1>1. notebook' = notebook
    BY KernelPreserved
  <1>2. ASSUME topics' = topics PROVE LogsInv'
    BY <1>1, <1>2 DEF LogsInv
  <1>3. ASSUME NEW t \in Topics, NEW u, topics' = [topics EXCEPT ![t] = u], TopicOK(u),
               u.policy = "default" \/ u.policy = topics[t].policy \/ notebook # "kaf2"
        PROVE  LogsInv'
    BY <1>1, <1>3 DEF LogsInv, TopicOK, Topics
  <1>4. ASSUME NEW t, t \notin Topics, NEW u, topics' = [topics EXCEPT ![t] = u] PROVE LogsInv'
    BY <1>1, <1>4 DEF LogsInv
  <1> USE DEF DueOp, Due
  <1>5. CASE RequestDelete
    <2>1. CASE o.t \in Topics /\ topics[o.t].state = "live"
      <3> DEFINE u == [topics[o.t] EXCEPT !.state = "deleting"]
      <3>1. topics[o.t] \in TopicType /\ TopicOK(topics[o.t])
        BY <2>1 DEF LogsInv
      <3>2. u = [state |-> "deleting", policy |-> topics[o.t].policy, log |-> topics[o.t].log]
        BY <3>1 DEF TopicType
      <3>3. TopicOK(u)
        BY <3>1, <3>2 DEF TopicOK, TopicType
      <3>4. topics' = [topics EXCEPT ![o.t] = u]
        BY <1>5, <2>1 DEF RequestDelete
      <3> HIDE DEF u
      <3>5. u.policy = topics[o.t].policy
        BY <3>2
      <3> QED
        BY <1>3, <2>1, <3>3, <3>4, <3>5
    <2>2. CASE topics[o.t].state # "live"
      BY <1>2, <1>5, <2>2 DEF RequestDelete
    <2>3. CASE o.t \notin Topics /\ topics[o.t].state = "live"
      BY <1>4, <1>5, <2>3 DEF RequestDelete
    <2> QED
      BY <2>1, <2>2, <2>3
  <1>6. CASE Create
    <2>1. o.n \in Nat \ {0} /\ o.policy \in Policies /\ (notebook = "kaf2" => o.policy = "default")
      BY <1>6, DueFacts, OperationFacts DEF Create, CreatingInv
    <2>2. topics' = [topics EXCEPT ![o.t] = NewTopic(o.n, o.policy)]
      BY <1>6 DEF Create
    <2> QED
      BY <1>3, <1>4, <2>1, <2>2, NewTopicOK
  <1>7. CASE Send
    <2> DEFINE t == IF topics[o.t].state = "absent" THEN NewTopic(1, "default") ELSE topics[o.t]
    <2>1. topics' = [topics EXCEPT ![o.t] = Appended(t, o.recs[at + 1])] /\ topics[o.t].state # "deleting"
      BY <1>7 DEF Send
    <2>2. CASE o.t \notin Topics
      BY <1>4, <2>1, <2>2
    <2>3. CASE o.t \in Topics
      <3>1. /\ TopicOK(t) /\ t.state = "live"
            /\ t.policy = "default" \/ t.policy = topics[o.t].policy
        <4>1. TopicOK(topics[o.t]) /\ topics[o.t] \in TopicType
          BY <2>3 DEF LogsInv
        <4>2. TopicOK(NewTopic(1, "default")) /\ NewTopic(1, "default").policy = "default"
              /\ NewTopic(1, "default").state = "live"
          BY NewTopicOK DEF Policies
        <4>3. topics[o.t].state \in {"absent", "live"}
          BY <2>1, <4>1 DEF TopicType
        <4> QED
          BY <4>1, <4>2, <4>3
      <3>2. o.recs[at + 1] \in Event
        <4>1. o.recs \in Seq(Event) /\ at \in 0 .. Len(o.recs) - 1
          BY <1>7, DueFacts, OperationFacts DEF Send, AtInv
        <4> QED
          BY <4>1
      <3> DEFINE u == Appended(t, o.recs[at + 1])
      <3> HIDE DEF t
      <3>3. TopicOK(u) /\ u.policy = t.policy
        BY <3>1, <3>2, AppendedOK
      <3>4. topics' = [topics EXCEPT ![o.t] = u]
        BY <2>1 DEF t
      <3> HIDE DEF u
      <3> QED
        BY <1>3, <2>3, <3>1, <3>3, <3>4
    <2> QED
      BY <2>2, <2>3
  <1>8. CASE BrokerStep
    <2>1. CASE Vanish
      <3>1. PICK t \in Topics : topics' = [topics EXCEPT ![t] = NoTopic]
        BY <2>1 DEF Vanish
      <3> QED
        BY <1>3, <3>1, NoTopicOK DEF NoTopic
    <2>2. ASSUME NEW t \in Topics, topics[t].state = "live", topics[t].policy # "default",
                 NEW keep \in SUBSET topics[t].log[1].recs,
                 topics' = [topics EXCEPT ![t].log[1].recs = keep]
          PROVE  LogsInv'
      <3> DEFINE u == [topics[t] EXCEPT !.log[1].recs = keep]
      <3>1. TopicOK(topics[t]) /\ topics[t] \in TopicType
        BY <2>2 DEF LogsInv
      <3>2. TopicOK(u)
        BY <2>2, <3>1, ShorterOK
      <3>3. u.policy = topics[t].policy
        BY <3>1 DEF TopicType
      <3>4. topics' = [topics EXCEPT ![t] = u]
        BY <2>2
      <3> HIDE DEF u
      <3> QED
        BY <1>3, <2>2, <3>2, <3>3, <3>4
    <2>3. CASE Retain
      <3>1. PICK t \in Topics : topics[t].policy = "short" /\ topics[t].state = "live" /\
                   \E r \in topics[t].log[1].recs :
                       topics' = [topics EXCEPT ![t].log[1].recs = {q \in @ : q.off > r.off}]
        BY <2>3 DEF Retain
      <3>2. PICK r : topics' = [topics EXCEPT ![t].log[1].recs = {q \in @ : q.off > r.off}]
        BY <3>1
      <3>3. /\ topics' = [topics EXCEPT ![t].log[1].recs = {q \in topics[t].log[1].recs : q.off > r.off}]
            /\ {q \in topics[t].log[1].recs : q.off > r.off} \in SUBSET topics[t].log[1].recs
        BY <3>2
      <3> QED
        BY <2>2, <3>1, <3>3
    <2>4. CASE Compact
      <3>1. PICK t \in Topics : topics[t].policy = "compact" /\ topics[t].state = "live" /\
                   \E point \in 1 .. topics[t].log[1].end :
                       LET recs == topics[t].log[1].recs
                           kept == {r \in recs : ~Superseded(recs, r, point)}
                       IN  kept # recs /\ topics' = [topics EXCEPT ![t].log[1].recs = kept]
        BY <2>4 DEF Compact
      <3>2. \E kept \in SUBSET topics[t].log[1].recs : topics' = [topics EXCEPT ![t].log[1].recs = kept]
        BY <3>1
      <3> QED
        BY <2>2, <3>1, <3>2
    <2>5. CASE Expire
      BY <1>2, <2>5 DEF Expire
    <2> QED
      BY <1>8, <2>1, <2>3, <2>4, <2>5 DEF BrokerStep
  <1>9. CASE RequestLost \/ CreateRefused \/ GiveUp \/ StartRead \/ ReadNext \/ TooLate \/ EndRead
             \/ CommitRead
    BY <1>2, <1>9 DEF RequestLost, CreateRefused, GiveUp, StartRead, ReadNext, TooLate, EndRead,
                      CommitRead, brokerVars
  <1>10. CASE Ask \/ NewConsumer \/ PollConsumer \/ CloseConsumer \/ Pause \/ Fail \/ Retry
              \/ FromTheTop \/ UNCHANGED vars
    BY <1>2, <1>10 DEF Ask, NewConsumer, PollConsumer, CloseConsumer, Pause, Fail, Retry, FromTheTop,
                       brokerVars, vars
  <1> QED
    BY <1>5, <1>6, <1>7, <1>8, <1>9, <1>10 DEF Next, KernelStep

-----------------------------------------------------------------------------
(* THE READERS.  A group has read all below what it committed, and a       *)
(* reader in the middle all below where it is; its topic cannot go while   *)
(* it reads.                                                               *)
Reading == status \in {"reading", "late", "read"} /\ o.op = "consume"

ReadsInv ==
    /\ offsets \in [Groups -> Int] /\ seen \in [Groups -> SUBSET Nat]
    /\ AtLeastOnce
    /\ Reading => /\ topics["t"].state = "live"
                  /\ at \in Nat /\ 0 .. at - 1 \subseteq seen[o.g]
    /\ status = "read" => o.op = "consume"

LEMMA EarliestDense ==
    ASSUME NEW l \in LogType, Distinct(l), Dense(l)
    PROVE  Earliest(l) = 0
  <1> DEFINE S == {r.off : r \in l.recs} \cup {l.end}
  <1>1. S \subseteq Nat /\ 0 \in S
    BY DEF LogType, Dense
  <1>2. \A x \in S : (\A y \in S : x <= y) => x = 0
    BY <1>1
  <1>3. \A y \in S : 0 <= y
    BY <1>1
  <1> HIDE DEF S
  <1>4. Min(S) = 0
    BY <1>1, <1>2, <1>3 DEF Min
  <1> QED
    BY <1>4 DEF Earliest, S

(* The topic that a group consumes has all of its records.                 *)
LEMMA ConsumedLog ==
    ASSUME KernelInv, LogsInv, ~AtEnd(Script), o.op = "consume", topics["t"].state = "live"
    PROVE  /\ notebook = "kaf2" /\ o.t = "t" /\ o.g \in Groups
           /\ Log \in LogType /\ Distinct(Log) /\ Dense(Log)
  <1>1. notebook = "kaf2" /\ o.t = "t" /\ o.g \in Groups
    BY DueFacts, OperationFacts
  <1>2. TopicOK(topics["t"]) /\ topics["t"].policy = "default" /\ topics["t"].log \in Seq(LogType)
    BY <1>1 DEF LogsInv, Topics, TopicType
  <1>3. topics["t"].log[1] \in LogType
    BY <1>2 DEF TopicOK
  <1> QED
    BY <1>1, <1>2, <1>3 DEF TopicOK, Log

LEMMA ReadsPreserved == KernelInv /\ LogsInv /\ ReadsInv /\ [Next]_vars => ReadsInv'
  <1> SUFFICES ASSUME KernelInv, LogsInv, ReadsInv, [Next]_vars PROVE ReadsInv'
    OBVIOUS
  <1> USE DEF DueOp, Due
  <1>1. ASSUME UNCHANGED <<offsets, seen>>, status' \notin {"reading", "late", "read"}
        PROVE  ReadsInv'
    BY <1>1 DEF ReadsInv, AtLeastOnce, Reading
  <1>2. Script' = Script /\ (AtEnd(Script) => status = "ready")
    BY KernelPreserved DEF KernelInv
  <1>3. ASSUME UNCHANGED <<offsets, seen, cell, op, at>>,
               status' = status \/ (status = "reading" /\ status' = "late"),
               topics["t"].state = "live" => topics'["t"].state = "live"
        PROVE  ReadsInv'
    <2>1. o' = o
      BY <1>2, <1>3 DEF o
    <2> QED
      BY <1>3, <2>1 DEF ReadsInv, AtLeastOnce, Reading
  <1>4. CASE RequestDelete \/ RequestLost \/ Create \/ CreateRefused \/ GiveUp \/ Send
    <2>1. UNCHANGED <<offsets, seen>> /\ status' \notin {"reading", "late", "read"}
      BY <1>4 DEF RequestDelete, RequestLost, Create, CreateRefused, GiveUp, Send, Finish, GoOn,
                  Fault, brokerVars
    <2> QED
      BY <1>1, <2>1
  <1>5. CASE StartRead
    <2>1. o' = o /\ UNCHANGED <<topics, offsets, seen>> /\ at' = StartOffset /\ status' = "reading"
      BY <1>2, <1>5 DEF StartRead, GoOn, brokerVars, o
    <2>2. ASSUME o.op = "consume"
          PROVE  topics["t"].state = "live" /\ StartOffset \in Nat /\ 0 .. StartOffset - 1 \subseteq seen[o.g]
      <3>1. o.t = "t" /\ topics["t"].state = "live"
        BY <1>5, <2>2, DueFacts, OperationFacts DEF StartRead
      <3>2. o.g \in Groups /\ Log \in LogType /\ Earliest(Log) = 0
        BY <1>5, <2>2, <3>1, ConsumedLog, EarliestDense DEF StartRead
      <3>3. StartOffset = 0 \/ (StartOffset = offsets[o.g] /\ offsets[o.g] \in 0 .. Log.end)
        BY <3>2 DEF StartOffset
      <3>4. 0 .. offsets[o.g] - 1 \subseteq seen[o.g] /\ Log.end \in Nat
        BY <3>2 DEF ReadsInv, AtLeastOnce, LogType
      <3> QED
        BY <3>1, <3>3, <3>4
    <2> QED
      BY <2>1, <2>2 DEF ReadsInv, AtLeastOnce, Reading
  <1>6. CASE ReadNext
    <2>1. PICK r \in After(Log, at) : /\ at' = r.off + 1
                                      /\ seen' = IF o.op = "consume"
                                                 THEN [seen EXCEPT ![o.g] = @ \cup {r.off}] ELSE seen
      BY <1>6 DEF ReadNext
    <2>2. o' = o /\ UNCHANGED <<topics, offsets>> /\ status' = "reading" /\ status = "reading"
      BY <1>2, <1>6 DEF ReadNext, GoOn, o
    <2>3. CASE o.op # "consume"
      BY <2>1, <2>2, <2>3 DEF ReadsInv, AtLeastOnce, Reading
    <2>4. CASE o.op = "consume"
      <3>1. topics["t"].state = "live" /\ at \in Nat /\ 0 .. at - 1 \subseteq seen[o.g]
        BY <2>2, <2>4 DEF ReadsInv, Reading
      <3>2. o.g \in Groups /\ Log \in LogType /\ Distinct(Log) /\ Dense(Log)
        BY <1>6, <2>4, <3>1, ConsumedLog DEF ReadNext
      <3>3. r.off = at
        <4>1. r \in Log.recs /\ r.off >= at /\ \A q \in Log.recs : q.off >= at => r.off <= q.off
          BY DEF After
        <4>2. r.off \in Nat /\ r.off < Log.end /\ Log.end \in Nat
          BY <3>2, <4>1 DEF LogType, Distinct
        <4>3. PICK q \in Log.recs : q.off = at
          BY <3>1, <3>2, <4>1, <4>2 DEF Dense
        <4> QED
          BY <3>1, <4>1, <4>2, <4>3
      <3>4. seen' = [seen EXCEPT ![o.g] = @ \cup {at}] /\ at' = at + 1
        BY <2>1, <2>4, <3>3
      <3>5. seen'[o.g] = seen[o.g] \cup {at} /\ \A g \in Groups : seen[g] \subseteq seen'[g]
        BY <3>2, <3>4 DEF ReadsInv
      <3>6. 0 .. at' - 1 \subseteq seen'[o.g] /\ at' \in Nat
        BY <3>1, <3>4, <3>5
      <3>7. seen' \in [Groups -> SUBSET Nat] /\ AtLeastOnce'
        BY <2>2, <3>1, <3>4, <3>5 DEF ReadsInv, AtLeastOnce
      <3> QED
        BY <2>2, <2>4, <3>1, <3>6, <3>7 DEF ReadsInv, Reading
    <2> QED
      BY <2>3, <2>4
  <1>7. CASE TooLate
    BY <1>3, <1>7 DEF TooLate, Fault, brokerVars, clientVars
  <1>8. CASE EndRead
    <2>1. CASE GoOn("read")
      <3>1. o.op = "consume" /\ UNCHANGED <<at, topics, offsets, seen>> /\ Reading
        <4>1. status' = "read" /\ status \in {"late", "reading"} /\ UNCHANGED <<topics, offsets, seen>>
          BY <1>8, <2>1 DEF EndRead, GoOn, brokerVars
        <4>2. o.op = "consume" /\ o.commit
          BY <1>8, <4>1 DEF EndRead, GoOn, Finish
        <4> QED
          BY <1>8, <4>1, <4>2 DEF EndRead, Reading
      <3>2. o' = o /\ status' = "read"
        BY <1>2, <2>1 DEF GoOn, o
      <3> QED
        BY <3>1, <3>2 DEF ReadsInv, AtLeastOnce, Reading
    <2>2. CASE status' # "read"
      BY <1>1, <1>8, <2>2 DEF EndRead, GoOn, Finish, brokerVars
    <2> QED
      BY <1>8, <2>1, <2>2 DEF EndRead, GoOn, Finish
  <1>9. CASE CommitRead
    <2>1. o.op = "consume" /\ Reading /\ status' = "ready" /\ seen' = seen
      BY <1>9 DEF CommitRead, ReadsInv, Reading, Finish
    <2>2. offsets' = offsets \/ offsets' = [offsets EXCEPT ![o.g] = at]
      BY <1>9 DEF CommitRead, CommitPosition
    <2>3. at \in Nat /\ 0 .. at - 1 \subseteq seen[o.g]
      BY <2>1 DEF ReadsInv
    <2>4. offsets' \in [Groups -> Int] /\ AtLeastOnce'
      BY <2>1, <2>2, <2>3 DEF ReadsInv, AtLeastOnce
    <2> QED
      BY <2>1, <2>4 DEF ReadsInv, Reading
  <1>10. CASE Ask \/ NewConsumer \/ PollConsumer \/ CloseConsumer
    <2>1. UNCHANGED <<offsets, seen>> /\ status' \notin {"reading", "late", "read"}
      BY <1>10 DEF Ask, NewConsumer, PollConsumer, CloseConsumer, Finish, GoOn, brokerVars
    <2> QED
      BY <1>1, <2>1
  <1>11. CASE Pause \/ Fail \/ Retry \/ FromTheTop
    <2>1. UNCHANGED <<offsets, seen>> /\ status' \notin {"reading", "late", "read"}
      BY <1>11 DEF Pause, Fail, Die, Retry, RetryCell, FromTheTop, FromTop, Fault, brokerVars
    <2> QED
      BY <1>1, <2>1
  <1>12. CASE BrokerStep
    <2>1. UNCHANGED <<cell, op, status, at>>
      BY <1>12 DEF BrokerStep, kernelVars, clientVars
    <2>2. CASE Vanish
      <3>1. PICK t \in Topics : /\ topics[t].state = "deleting"
                                /\ topics' = [topics EXCEPT ![t] = NoTopic]
                                /\ offsets' = Vanished(t)
                                /\ seen' = IF t = "t" THEN [g \in Groups |-> {}] ELSE seen
        BY <2>2 DEF Vanish
      <3>2. CASE t # "t"
        <4>1. UNCHANGED <<offsets, seen>> /\ topics'["t"] = topics["t"]
          BY <3>1, <3>2 DEF Vanished, LogsInv, Topics
        <4> QED
          BY <1>3, <2>1, <4>1
      <3>3. CASE t = "t"
        <4>1. offsets' = [g \in Groups |-> -1] /\ seen' = [g \in Groups |-> {}]
          BY <3>1, <3>3 DEF Vanished, NoOffsets
        <4>2. offsets' \in [Groups -> Int] /\ seen' \in [Groups -> SUBSET Nat] /\ AtLeastOnce'
          BY <4>1 DEF AtLeastOnce
        <4>3. ~Reading
          BY <3>1, <3>3 DEF ReadsInv
        <4>4. o' = o
          BY <1>2, <2>1 DEF o
        <4> QED
          BY <2>1, <4>2, <4>3, <4>4 DEF ReadsInv, Reading
      <3> QED
        BY <3>2, <3>3
    <2>3. CASE Retain \/ Compact
      <3>1. UNCHANGED <<offsets, seen>>
        BY <2>3 DEF Retain, Compact
      <3>2. topics'["t"].state = topics["t"].state
        BY <2>3 DEF Retain, Compact, LogsInv, Topics, TopicType
      <3> QED
        BY <1>3, <2>1, <3>1, <3>2
    <2>4. CASE Expire
      BY <1>3, <2>1, <2>4 DEF Expire
    <2> QED
      BY <1>12, <2>2, <2>3, <2>4 DEF BrokerStep
  <1>13. CASE UNCHANGED vars
    BY <1>3, <1>13 DEF vars, kernelVars, brokerVars, clientVars
  <1> QED
    BY <1>4, <1>5, <1>6, <1>7, <1>8, <1>9, <1>10, <1>11, <1>12, <1>13 DEF Next, KernelStep

-----------------------------------------------------------------------------
(* THE MEMBERS are consumers that the kernel has open.                     *)
MembersInv == GroupOK(group) /\ open \subseteq Clients /\ group.members \subseteq open

LEMMA MembersPreserved == KernelInv /\ MembersInv /\ [Next]_vars => MembersInv'
  <1> SUFFICES ASSUME KernelInv, MembersInv, [Next]_vars PROVE MembersInv'
    OBVIOUS
  <1> USE DEF DueOp, Due
  <1>1. ASSUME UNCHANGED <<group, open>> PROVE MembersInv'
    BY <1>1 DEF MembersInv
  <1>2. CASE NewConsumer
    <2>1. group' = Abandoned(group, {o.c}) /\ open' = open \cup {o.c} /\ o.c \in Clients
      BY <1>2, DueFacts, OperationFacts DEF NewConsumer
    <2> QED
      BY <2>1, AbandonedOK DEF MembersInv
  <1>3. CASE PollConsumer
    <2>1. PICK heard \in BOOLEAN :
              group' = Polled(group, views[o.c], o.c, heard, Len(topics["t"].log)).group
      BY <1>3 DEF PollConsumer
    <2>2. o.c \in open /\ open' = open
      BY <1>3 DEF PollConsumer, clientVars
    <2> QED
      BY <2>1, <2>2, PolledOK DEF MembersInv
  <1>4. CASE CloseConsumer
    <2>1. group' = (IF o.c \in open THEN Left(group, o.c) ELSE group) /\ open' = open \ {o.c}
      BY <1>4 DEF CloseConsumer
    <2> QED
      BY <2>1, LeftOK DEF MembersInv
  <1>5. CASE Pause
    <2>1. PICK c \in open \cap group.members : group' = Left(group, c)
      BY <1>5 DEF Pause
    <2>2. open' = open
      BY <1>5 DEF Pause, clientVars
    <2> QED
      BY <2>1, <2>2, LeftOK DEF MembersInv
  <1>6. CASE FromTheTop
    <2>1. group' = Abandoned(group, open) /\ open' = {}
      BY <1>6 DEF FromTheTop
    <2> QED
      BY <2>1, AbandonedOK DEF MembersInv
  <1>7. CASE BrokerStep /\ Expire
    <2> DEFINE rest == [group EXCEPT !.ghosts = {}]
               joining == [rest EXCEPT !.phase = "joining"]
               stable == [rest EXCEPT !.phase = "stable"]
    <2>1. open' = open /\ group' \in {stable, RoundOver(joining)}
      BY <1>7 DEF BrokerStep, Expire, clientVars
    <2>2. /\ GroupOK(stable) /\ stable.members = group.members
          /\ GroupOK(joining) /\ joining.members = group.members
      BY DEF MembersInv, GroupOK
    <2> HIDE DEF stable, joining
    <2> QED
      BY <2>1, <2>2, RoundOverOK DEF MembersInv
  <1>8. CASE BrokerStep /\ (Vanish \/ Retain \/ Compact)
    BY <1>1, <1>8 DEF BrokerStep, Vanish, Retain, Compact, clientVars
  <1>9. CASE RequestDelete \/ RequestLost \/ Create \/ CreateRefused \/ GiveUp \/ Send
    BY <1>1, <1>9 DEF RequestDelete, RequestLost, Create, CreateRefused, GiveUp, Send, brokerVars,
                      clientVars
  <1>10. CASE StartRead \/ ReadNext \/ TooLate \/ EndRead \/ CommitRead
    BY <1>1, <1>10 DEF StartRead, ReadNext, TooLate, EndRead, CommitRead, brokerVars, clientVars
  <1>11. CASE Ask \/ Fail \/ Retry \/ UNCHANGED vars
    BY <1>1, <1>11 DEF Ask, Fail, Retry, vars, brokerVars, clientVars
  <1> QED
    BY <1>2, <1>3, <1>4, <1>5, <1>6, <1>7, <1>8, <1>9, <1>10, <1>11 DEF Next, KernelStep, BrokerStep

-----------------------------------------------------------------------------
AttemptsInv == attempts \in 0 .. Attempts

KafkaInv == KernelInv /\ AttemptsInv /\ CreatingInv /\ AtInv /\ LogsInv /\ ReadsInv /\ MembersInv

LEMMA AttemptsPreserved == AttemptsInv /\ [Next]_vars => AttemptsInv'
  <1> SUFFICES ASSUME AttemptsInv, [Next]_vars PROVE AttemptsInv'
    OBVIOUS
  <1> USE DEF AttemptsInv, Attempts
  <1>1. CASE RequestDelete \/ RequestLost \/ Create \/ CreateRefused \/ GiveUp \/ Send
    BY <1>1 DEF RequestDelete, RequestLost, Create, CreateRefused, GiveUp, Send, clientVars
  <1>2. CASE StartRead \/ ReadNext \/ TooLate \/ EndRead \/ CommitRead \/ Ask
    BY <1>2 DEF StartRead, ReadNext, TooLate, EndRead, CommitRead, Ask, clientVars
  <1>3. CASE NewConsumer \/ PollConsumer \/ CloseConsumer \/ Pause
    BY <1>3 DEF NewConsumer, PollConsumer, CloseConsumer, Pause, clientVars
  <1>4. CASE BrokerStep \/ Fail \/ Retry \/ FromTheTop \/ UNCHANGED vars
    BY <1>4 DEF BrokerStep, Fail, Retry, FromTheTop, vars, clientVars
  <1> QED
    BY <1>1, <1>2, <1>3, <1>4 DEF Next, KernelStep

LEMMA KafkaInitially == Init => KafkaInv
  <1> SUFFICES ASSUME Init PROVE KafkaInv
    OBVIOUS
  <1>1. KernelInv
    <2>1. Len(Script) \in Nat \ {0} /\ \A i \in 1 .. Len(Script) : Len(Script[i]) \in Nat \ {0}
      BY ScriptFacts DEF Init, KernelInit, Script
    <2> QED
      BY <2>1, KernelAssumption DEF Init, KernelInit, KernelInv, KernelTypeOK, AtEnd
  <1>2. AttemptsInv
    BY DEF Init, AttemptsInv, Attempts
  <1>3. AtInv
    <2>1. \A S : \A s \in Seq(S) \ {<<>>} : 0 \in 0 .. Len(s) - 1
      OBVIOUS
    <2>2. ~AtEnd(Script) /\ o.op = "produce" => 0 \in 0 .. Len(o.recs) - 1
      BY <1>1, <2>1, DueFacts, OperationFacts
    <2> QED
      BY <2>2 DEF Init, KernelInit, AtInv
  <1>4. LogsInv
    <2>1. topics = [t \in Topics |-> NoTopic] /\ NoTopic \in TopicType
      BY NoTopicOK DEF Init, BrokerInit, TopicOK
    <2> QED
      BY <2>1, NoTopicOK DEF LogsInv, NoTopic, Topics
  <1>5. ReadsInv
    BY DEF Init, BrokerInit, KernelInit, NoOffsets, ReadsInv, Reading, AtLeastOnce
  <1>6. MembersInv
    <2>1. group = NoGroup /\ open = {}
      BY DEF Init, BrokerInit
    <2> QED
      BY <2>1 DEF NoGroup, GroupOK, MembersInv
  <1>7. CreatingInv
    BY DEF Init, KernelInit, CreatingInv
  <1> QED
    BY <1>1, <1>2, <1>3, <1>4, <1>5, <1>6, <1>7 DEF KafkaInv

LEMMA AlwaysKafkaInv == Spec => []KafkaInv
  <1>1. KafkaInv /\ [Next]_vars => KafkaInv'
    BY KernelPreserved, AttemptsPreserved, CreatingPreserved, AtPreserved, LogsPreserved, ReadsPreserved,
       MembersPreserved DEF KafkaInv
  <1> QED
    BY <1>1, KafkaInitially, PTL DEF Spec

(* The kernel is at an operation of its script, the records of a log have  *)
(* offsets of their own, and the members of the group are open consumers.  *)
THEOREM KafkaTypeCorrect == Spec => []KafkaTypeOK
  <1>1. KafkaInv => KafkaTypeOK
    <2> SUFFICES ASSUME KafkaInv PROVE KafkaTypeOK
      OBVIOUS
    <2>1. KernelTypeOK(Script, {"creating", "reading", "late", "read"}) /\ attempts \in 0 .. Attempts
      BY DEF KafkaInv, KernelInv, AttemptsInv, Phases
    <2>2. \A t \in Topics : \A l \in ToSet(topics[t].log) : Distinct(l)
      <3> TAKE t \in Topics
      <3>1. topics[t] \in TopicType /\ \A p \in 1 .. Len(topics[t].log) : Distinct(topics[t].log[p])
        BY DEF KafkaInv, LogsInv, TopicOK
      <3>2. DOMAIN topics[t].log = 1 .. Len(topics[t].log)
        BY <3>1 DEF TopicType
      <3> QED
        BY <3>1, <3>2 DEF ToSet
    <2>3. /\ group.joined \subseteq group.members /\ group.phase \in {"stable", "joining", "syncing"}
          /\ group.members \subseteq open
      BY DEF KafkaInv, MembersInv, GroupOK
    <2> QED
      BY <2>1, <2>2, <2>3 DEF KafkaTypeOK, Distinct
  <1> QED
    BY <1>1, AlwaysKafkaInv, PTL

(* What a group has committed it has read, through faults of the cell,     *)
(* topics made anew, and broker steps in between.                          *)
THEOREM CommittedIsRead == Spec => []AtLeastOnce
  <1>1. KafkaInv => AtLeastOnce
    BY DEF KafkaInv, ReadsInv
  <1> QED
    BY <1>1, AlwaysKafkaInv, PTL
=============================================================================
