---------------------------- MODULE KafkaBroker ----------------------------
(***************************************************************************)
(* Kafka as the notebooks kaf1 to kaf5 rely on it, external to the         *)
(* repository: topics that are deleted asynchronously and created again    *)
(* under the same name, logs that retention and compaction shorten at the  *)
(* broker's leisure, offsets of groups, and the classic group protocol.    *)
(***************************************************************************)
EXTENDS Integers, Sequences, FiniteSets, FiniteSetsExt

Topics  == {"t", "s"}                     \* a notebook's topic, and its second one
Groups  == {"app", "dup"}
ByMemberId == <<"A", "B", "C", "D", "E">>
Clients == {"A", "B", "C", "D", "E"}

VARIABLES
    topics,    \* per topic, its state, its policy and its partitions' logs
    offsets,   \* per group, the offset committed on "t", if there is one
    seen,      \* auxiliary: per group, the offsets that it has read of "t"
    group,     \* the group that kaf3's consumers share
    views      \* per client, the partitions that it believes to own

brokerVars == <<topics, offsets, seen, group, views>>

-----------------------------------------------------------------------------
(* Topics.                                                                 *)

NoTopic == [state |-> "absent", policy |-> "default", log |-> <<>>]
NewTopic(n, policy) ==
    [state |-> "live", policy |-> policy,
     log |-> [p \in 1 .. n |-> [end |-> 0, recs |-> {}]]]

PartitionOf(t, key) == (key % Len(t.log)) + 1
Appended(t, r) ==
    [t EXCEPT !.log[PartitionOf(t, r.key)] =
         [end |-> @.end + 1, recs |-> @.recs \cup {[off |-> @.end, key |-> r.key, id |-> r.id]}]]

Ends(t) == [p \in DOMAIN t.log |-> t.log[p].end]
Earliest(l) == Min({r.off : r \in l.recs} \cup {l.end})

(* The next record of the log that a reader at this offset gets.           *)
After(l, at) == {r \in l.recs : r.off >= at /\ \A q \in l.recs : q.off >= at => r.off <= q.off}

NoOffsets == [g \in Groups |-> -1]
Vanished(t) == IF t = "t" THEN NoOffsets ELSE offsets

(* A deletion that was requested takes place, the offsets with it.         *)
Vanish ==
    /\ \E t \in Topics :
           /\ topics[t].state = "deleting"
           /\ topics' = [topics EXCEPT ![t] = NoTopic]
           /\ offsets' = Vanished(t)
           /\ seen' = IF t = "t" THEN [g \in Groups |-> {}] ELSE seen
    /\ UNCHANGED <<group, views>>

(* Retention removes what is older than the segment it rolled last.        *)
Retain ==
    /\ \E t \in Topics : topics[t].policy = "short" /\ topics[t].state = "live" /\
           \E r \in topics[t].log[1].recs :
               topics' = [topics EXCEPT ![t].log[1].recs = {q \in @ : q.off > r.off}]
    /\ UNCHANGED <<offsets, seen, group, views>>

(* The cleaner removes the records below its point that have a newer one   *)
(* of the same key below that point.                                       *)
Superseded(recs, r, point) ==
    \E q \in recs : q.key = r.key /\ q.off > r.off /\ q.off < point

Compact ==
    /\ \E t \in Topics : topics[t].policy = "compact" /\ topics[t].state = "live" /\
           \E point \in 1 .. topics[t].log[1].end :
               LET recs == topics[t].log[1].recs
                   kept == {r \in recs : ~Superseded(recs, r, point)}
               IN  kept # recs /\ topics' = [topics EXCEPT ![t].log[1].recs = kept]
    /\ UNCHANGED <<offsets, seen, group, views>>

-----------------------------------------------------------------------------
(* The group.  A change of its members opens a round that every member has *)
(* to join; the leader's next poll decides the plan, and each member       *)
(* learns its part in its own next poll.  A process that is gone without   *)
(* closing its consumer leaves a ghost until the session times out.        *)

NoGroup == [members |-> {}, ghosts |-> {}, joined |-> {}, phase |-> "stable",
            plan |-> <<>>]
NoView  == [owned |-> {}, on |-> FALSE]

Rank(ms, c) == Cardinality({i \in 1 .. 5 : ByMemberId[i] \in ms /\
                                           \E j \in i .. 5 : ByMemberId[j] = c})
Leader(ms) == CHOOSE c \in ms : Rank(ms, c) = 1

(* The range assignor on the partitions 1 .. n.                            *)
Shares(ms, n) ==
    LET k == Cardinality(ms)
        share(i) == (n \div k) + IF i <= n % k THEN 1 ELSE 0
        from(i) == (i - 1) * (n \div k) + IF i - 1 <= n % k THEN i - 1 ELSE n % k
    IN  [c \in ms |-> from(Rank(ms, c)) + 1 .. from(Rank(ms, c)) + share(Rank(ms, c))]

Everyone(g) == g.joined = g.members /\ g.ghosts = {}
RoundOver(g) == IF g.phase = "joining" /\ Everyone(g) /\ g.members # {}
                THEN [g EXCEPT !.phase = "syncing", !.joined = {}] ELSE g

Led(g, c, n) == IF g.phase = "syncing" /\ c = Leader(g.members)
                THEN [g EXCEPT !.phase = "stable", !.plan = Shares(g.members, n)] ELSE g

Rejoined(g, c) == RoundOver([g EXCEPT !.members = @ \cup {c}, !.joined = @ \cup {c},
                                      !.phase = "joining"])
Left(g, c) ==
    LET rest == [g EXCEPT !.members = @ \ {c}, !.joined = @ \ {c}]
    IN  IF c \notin g.members THEN g
        ELSE IF rest.members \cup rest.ghosts = {} THEN [rest EXCEPT !.phase = "stable"]
        ELSE IF g.phase = "joining" THEN RoundOver(rest)
        ELSE [rest EXCEPT !.phase = "joining"]

Abandoned(g, cs) == [g EXCEPT !.members = @ \ cs, !.joined = @ \ cs,
                              !.ghosts = @ \cup (cs \cap g.members)]

(* A poll joins if the consumer is no member (any more) or has heard of a  *)
(* round, and learns what is decided.  assignment() goes on showing what   *)
(* was owned last, but nothing is fetched from it during a round.          *)
Polled(g, v, c, heard, n) ==
    LET g1 == IF c \notin g.members \/ (g.phase = "joining" /\ c \notin g.joined /\ heard)
              THEN Rejoined(g, c) ELSE g
        g2 == Led(g1, c, n)
    IN  [group |-> g2,
         view  |-> IF g2.phase = "stable" THEN [owned |-> g2.plan[c], on |-> TRUE]
                   ELSE [v EXCEPT !.on = @ /\ g2.phase = "joining" /\ c \notin g2.joined]]

(* The session of a ghost times out.                                       *)
Expire ==
    /\ group.ghosts # {}
    /\ group' = LET rest == [group EXCEPT !.ghosts = {}]
                IN  IF rest.members = {} THEN [rest EXCEPT !.phase = "stable"]
                    ELSE RoundOver([rest EXCEPT !.phase = "joining"])
    /\ UNCHANGED <<topics, offsets, seen, views>>

BrokerInit ==
    /\ topics = [t \in Topics |-> NoTopic] /\ offsets = NoOffsets
    /\ seen = [g \in Groups |-> {}]
    /\ group = NoGroup /\ views = [c \in Clients |-> NoView]
=============================================================================
