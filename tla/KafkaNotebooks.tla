--------------------------- MODULE KafkaNotebooks ---------------------------
(***************************************************************************)
(* The client notebooks kaf1 to kaf5 and the helpers they share: scripts   *)
(* of administration, production, consumption and proofs against a broker  *)
(* that deletes, truncates, compacts and rebalances when it gets to it.    *)
(***************************************************************************)
EXTENDS Kernel, KafkaBroker, SequencesExt

CONSTANT Notebooks    \* which of kaf1 ... kaf5 there are

Attempts == 5

Simple(name, t)      == [op |-> name, t |-> t]
Ensure(t, n, policy) == [op |-> "ensure", t |-> t, n |-> n, policy |-> policy]
Produce(t, recs)     == [op |-> "produce", t |-> t, recs |-> recs]
EndOffsets(t, x)     == [op |-> "ends", t |-> t, into |-> x]
Lag(g, x)            == [op |-> "lag", t |-> "t", g |-> g, into |-> x]
Consume(g, n, commit, x) ==
    [op |-> "consume", t |-> "t", g |-> g, n |-> n, commit |-> commit, into |-> x]
ReadAll(t, x)        == [op |-> "readall", t |-> t, n |-> 99, into |-> x]
First(t, x)          == [op |-> "first", t |-> t, into |-> x]
Assigned(cs, x)      == [op |-> "assigned", t |-> "t", cs |-> cs, into |-> x]
Member(name, c)      == [op |-> name, t |-> "t", c |-> c]
New(c)               == Member("new", c)
Poll(c)              == Member("poll", c)
Close(c)             == Member("close", c)
CheckPolicies        == Simple("policies", "t")
DeleteTopic(t)       == Simple("delete", t)
Prove                == Simple("prove", "t")

(* n events; the key is what the partition is chosen by, a state is kept   *)
(* under, or nothing.                                                      *)
Events(keys) == [i \in DOMAIN keys |-> [key |-> keys[i], id |-> i]]

(* kaf1: a dominant key, then many keys.                                   *)
Kaf1Skewed == <<
    <<Ensure("t", 3, "default")>>,
    <<Produce("t", Events(<<0, 0, 0, 1>>)), EndOffsets("t", "skewed")>>>>
Kaf1Balanced == <<
    <<Ensure("t", 3, "default"), Produce("t", Events(<<0, 1, 2>>)), EndOffsets("t", "balanced")>>,
    <<Prove>>, <<DeleteTopic("t")>>>>

(* kaf2: a group that lags behind, one that reads twice, and the drain.    *)
N == 4
Backlog == <<Ensure("t", 1, "default"), Produce("t", Events([i \in 1 .. N |-> 0]))>>
Kaf2Break == <<
    Backlog, <<Consume("app", 1, TRUE, "seen")>>, <<Lag("app", "lag_broken")>>,
    Backlog \o <<Consume("dup", 2, FALSE, "crashed"), Consume("dup", 2, TRUE, "reread")>>>>
Kaf2Drain == <<
    <<Consume("app", N, TRUE, "drained")>>, <<Lag("app", "lag_fixed"), Prove>>,
    <<DeleteTopic("t")>>>>

(* kaf3: the members of a group come and go.                               *)
Repeat(n, polls) == [i \in 1 .. n * Len(polls) |-> Poll(polls[((i - 1) % Len(polls)) + 1])]
Kaf3OneRound == <<                         \* mutant: one round of polls
    <<Ensure("t", 3, "default"), Produce("t", Events(<<0>>))>>,
    <<New("A"), Poll("A"), Assigned({"A"}, "step1")>>,
    <<New("B")>> \o Repeat(1, <<"A", "B">>) \o <<Assigned({"A", "B"}, "step2")>>,
    <<Close("B")>> \o Repeat(1, <<"A">>) \o <<Assigned({"A"}, "step3")>>>>
Kaf3Rebalance == <<
    <<Ensure("t", 3, "default"), Produce("t", Events(<<0>>))>>,
    <<New("A"), Poll("A"), Assigned({"A"}, "step1")>>,
    <<New("B")>> \o Repeat(3, <<"A", "B">>) \o <<Assigned({"A", "B"}, "step2")>>,
    <<Close("B")>> \o Repeat(3, <<"A">>) \o <<Assigned({"A"}, "step3")>>>>
Kaf3Sizing == <<
    <<Poll("A"), New("C"), New("D"), New("E")>> \o Repeat(4, <<"A", "C", "D", "E">>)
        \o <<Assigned({"A", "C", "D", "E"}, "owners"), Close("C"), Close("D"), Close("E")>>,
    <<Prove>>, <<Close("A"), Close("B"), DeleteTopic("t")>>>>

(* kaf4: a topic under retention, and a changelog under compaction.        *)
Kaf4Produce == <<
    <<Ensure("t", 1, "short"), Produce("t", Events(<<0, 0>>))>>,
    <<Ensure("s", 1, "compact"), Produce("s", Events(<<0, 1, 0>>))>>,
    <<CheckPolicies>>>>
Kaf4Read == <<
    <<ReadAll("s", "records")>>, <<ReadAll("s", "counts")>>,
    <<EndOffsets("t", "end"), First("t", "earliest"), EndOffsets("t", "latest")>>,
    <<Prove>>, <<DeleteTopic("t"), DeleteTopic("s")>>>>

(* kaf5: charges, some of them sent twice, and their deduplication.        *)
Kaf5Send == <<
    <<Ensure("t", 1, "default")>>,
    <<Produce("t", Events(<<0, 0, 0>>)), Produce("t", Events(<<0>>))>>,
    <<ReadAll("t", "counts")>>>>
Kaf5Dedup == <<
    <<Produce("s", Events(<<0>>))>>,
    <<ReadAll("t", "committed"), ReadAll("t", "uncommitted")>>,
    <<Prove>>, <<DeleteTopic("t"), DeleteTopic("s")>>>>

Cells == [kaf1 |-> Kaf1Skewed \o Kaf1Balanced, kaf2 |-> Kaf2Break \o Kaf2Drain,
          kaf3 |-> Kaf3Rebalance \o Kaf3Sizing, kaf4 |-> Kaf4Produce \o Kaf4Read,
          kaf5 |-> Kaf5Send \o Kaf5Dedup]

Script == Cells[notebook]
o == Script[cell][op]          \* the operation that is due

ASSUME KafkaAssumption == Notebooks # {} /\ Notebooks \subseteq DOMAIN Cells

VARIABLES
    attempts,  \* creates that ensure_topic has tried
    at, got,   \* where a reader, or a producer, is and what it has read
    mem,       \* the kernel's variables
    open,      \* the kernel's consumers that are not closed
    gaveUp,    \* auxiliary: topics that ensure_topic gave up on since the top
    disturbed  \* auxiliary: a poll missed a round, or the user paused too long

clientVars == <<attempts, at, got, mem, open>>
auxVars == <<gaveUp, disturbed>>
vars == <<kernelVars, brokerVars, clientVars, auxVars>>

DueOp(ops) == Due(Script, "ready") /\ o.op \in ops
Store(v) == mem' = (o.into :> v) @@ mem
Log == topics[o.t].log[1]

-----------------------------------------------------------------------------
(* ensure_topic and delete_topic.  A request that fails is not noticed.    *)
RequestDelete ==
    /\ DueOp({"ensure", "delete"})
    /\ topics' = IF topics[o.t].state = "live"
                 THEN [topics EXCEPT ![o.t].state = "deleting"] ELSE topics
    /\ IF o.op = "ensure" THEN GoOn("creating") ELSE Finish(Script)
    /\ UNCHANGED <<offsets, seen, group, views, clientVars, auxVars>>

RequestLost ==
    /\ DueOp({"ensure"})
    /\ Fault("creating")
    /\ UNCHANGED <<brokerVars, clientVars, auxVars>>

Create ==
    /\ Due(Script, "creating") /\ attempts < Attempts
    /\ topics[o.t].state = "absent"
    /\ topics' = [topics EXCEPT ![o.t] = NewTopic(o.n, o.policy)]
    /\ attempts' = 0
    /\ Finish(Script)
    /\ UNCHANGED <<offsets, seen, group, views, at, got, mem, open, auxVars>>

RefusedForEver ==                          \* mutant: while True
    /\ Due(Script, "creating") /\ topics[o.t].state # "absent"
    /\ GoOn("creating")
    /\ UNCHANGED <<brokerVars, clientVars, auxVars>>
CreateRefused ==
    /\ Due(Script, "creating") /\ attempts < Attempts
    /\ topics[o.t].state # "absent"
    /\ attempts' = attempts + 1
    /\ GoOn("creating")
    /\ UNCHANGED <<brokerVars, at, got, mem, open, auxVars>>

GiveUp ==
    /\ Due(Script, "creating") /\ attempts = Attempts
    /\ gaveUp' = gaveUp \cup {o.t}
    /\ attempts' = 0
    /\ Finish(Script)
    /\ UNCHANGED <<brokerVars, at, got, mem, open, disturbed>>

(* produce_events, one send after the other; the first one to a topic that *)
(* does not exist creates it, with the broker's defaults.                  *)
Send ==
    /\ DueOp({"produce"})
    /\ topics[o.t].state # "deleting"
    /\ LET t == IF topics[o.t].state = "absent" THEN NewTopic(1, "default") ELSE topics[o.t]
       IN  topics' = [topics EXCEPT ![o.t] = Appended(t, o.recs[at + 1])]
    /\ IF at + 1 = Len(o.recs) THEN at' = 0 /\ Finish(Script)
                               ELSE at' = at + 1 /\ GoOn("ready")
    /\ UNCHANGED <<offsets, seen, group, views, attempts, got, mem, open, auxVars>>

-----------------------------------------------------------------------------
Ids(recs) == {r.id : r \in ToSet(recs)}

(* Reading, record by record, from what the group committed or from the    *)
(* earliest record there is, until n records or a poll without any.        *)
StartOffset ==
    IF o.op = "consume" /\ offsets[o.g] \in Earliest(Log) .. Log.end
    THEN offsets[o.g] ELSE Earliest(Log)

StartRead ==
    /\ DueOp({"consume", "readall"})
    /\ topics[o.t].state = "live"
    /\ at' = StartOffset /\ got' = <<>>
    /\ GoOn("reading")
    /\ UNCHANGED <<brokerVars, attempts, mem, open, auxVars>>

ReadNext ==
    /\ Due(Script, "reading") /\ Len(got) < o.n
    /\ topics[o.t].state = "live"
    /\ \E r \in After(Log, at) :
           /\ at' = r.off + 1 /\ got' = Append(got, r)
           /\ seen' = IF o.op = "consume"
                      THEN [seen EXCEPT ![o.g] = @ \cup {r.off}] ELSE seen
    /\ GoOn("reading")
    /\ UNCHANGED <<topics, offsets, group, views, attempts, mem, open, auxVars>>

(* No record came within consumer_timeout_ms: the group is not joined yet, *)
(* the broker is slow.  The loop ends as it does at the end of the log.    *)
TooLate ==
    /\ Due(Script, "reading")
    /\ Fault("late")
    /\ UNCHANGED <<brokerVars, clientVars, auxVars>>

(* The cells that look into what they read fail on too little: kaf2 prints *)
(* its first offset, kaf5 its first duplicate.                             *)
TooLittle ==
    \/ o.op = "consume" /\ ~o.commit /\ got = <<>>
    \/ notebook = "kaf5" /\ o.into = "counts" /\ Cardinality(Ids(got)) = Len(got)

EndRead ==
    /\ \/ Due(Script, "late")
       \/ Due(Script, "reading") /\ (Len(got) = o.n \/ After(Log, at) = {})
    /\ Store(got)
    /\ IF o.op = "consume" /\ o.commit THEN GoOn("read") /\ UNCHANGED <<at, got>>
       ELSE /\ at' = 0 /\ got' = <<>>
            /\ IF TooLittle THEN GoOn("rejected") ELSE Finish(Script)
    /\ UNCHANGED <<brokerVars, attempts, open, auxVars>>

CommitEnd == Log.end                       \* mutant: the end, not the position
CommitPosition == at

CommitRead ==
    /\ Due(Script, "read")
    /\ offsets' = IF got = <<>> THEN offsets ELSE [offsets EXCEPT ![o.g] = CommitPosition]
    /\ at' = 0 /\ got' = <<>>
    /\ Finish(Script)
    /\ UNCHANGED <<topics, seen, group, views, attempts, mem, open, auxVars>>

-----------------------------------------------------------------------------
(* What the notebooks ask the broker.                                      *)

LagOf(g) == [p \in {1} |-> LET com == IF offsets[g] = -1 THEN 0 ELSE offsets[g]
                           IN  IF Log.end >= com THEN Log.end - com ELSE 0]

Ask ==
    /\ DueOp({"ends", "lag", "first", "assigned", "prove", "policies"})
    /\ CASE o.op = "ends"     -> Store(Ends(topics[o.t]))
         [] o.op = "lag"      -> Store(LagOf(o.g))
         [] o.op = "first"    -> Store(Earliest(Log))
         [] o.op = "assigned" -> Store([c \in o.cs |-> views[c].owned])
         [] OTHER             -> UNCHANGED mem
    /\ IF o.op = "policies" /\ (topics["t"].policy # "short" \/ topics["s"].policy # "compact")
       THEN GoOn("rejected") ELSE Finish(Script)
    /\ UNCHANGED <<brokerVars, attempts, at, got, open, auxVars>>

(* The consumers of kaf3.  A new one takes the name of an old one, which   *)
(* the interpreter drops without closing it.                               *)
NewConsumer ==
    /\ DueOp({"new"})
    /\ group' = Abandoned(group, {o.c})
    /\ views' = [views EXCEPT ![o.c] = NoView]
    /\ open' = open \cup {o.c}
    /\ Finish(Script)
    /\ UNCHANGED <<topics, offsets, seen, attempts, at, got, mem, auxVars>>

(* A poll that has records to return does not wait for the heartbeat.      *)
PollConsumer ==
    /\ DueOp({"poll"}) /\ o.c \in open
    /\ \E heard \in BOOLEAN :
           LET p == Polled(group, views[o.c], o.c, heard, Len(topics["t"].log))
           IN  /\ group' = p.group
               /\ views' = [views EXCEPT ![o.c] = p.view]
               /\ disturbed' = (disturbed \/ group.ghosts # {}
                                            \/ (~heard /\ group.phase = "joining"))
    /\ Finish(Script)
    /\ UNCHANGED <<topics, offsets, seen, clientVars, gaveUp>>

CloseConsumer ==
    /\ DueOp({"close"})
    /\ group' = IF o.c \in open THEN Left(group, o.c) ELSE group
    /\ views' = [views EXCEPT ![o.c] = NoView]
    /\ open' = open \ {o.c}
    /\ Finish(Script)
    /\ UNCHANGED <<topics, offsets, seen, attempts, at, got, mem, auxVars>>

(* No poll for more than max.poll.interval, as the user reads on or the    *)
(* host sleeps: the consumer leaves, and learns of it in its next poll.    *)
Pause ==
    /\ Due(Script, "ready") /\ notebook = "kaf3"
    /\ \E c \in open \cap group.members : group' = Left(group, c)
    /\ disturbed' = TRUE
    /\ Fault("ready")
    /\ UNCHANGED <<topics, offsets, seen, views, clientVars, gaveUp>>

-----------------------------------------------------------------------------
BrokerStep == (Vanish \/ Retain \/ Compact \/ Expire) /\ UNCHANGED <<kernelVars, clientVars, auxVars>>

Fail == /\ Die(Script)
        /\ at' = 0 /\ got' = <<>> /\ attempts' = 0
        /\ UNCHANGED <<brokerVars, mem, open, auxVars>>

Retry == RetryCell /\ UNCHANGED <<brokerVars, clientVars, auxVars>>

FromTheTop ==
    /\ FromTop
    /\ group' = Abandoned(group, open)
    /\ views' = [c \in Clients |-> NoView]
    /\ mem' = <<>> /\ open' = {} /\ gaveUp' = {} /\ at' = 0 /\ got' = <<>> /\ disturbed' = FALSE
    /\ UNCHANGED <<topics, offsets, seen, attempts>>

Init ==
    /\ KernelInit(Notebooks) /\ BrokerInit
    /\ attempts = 0 /\ at = 0 /\ got = <<>> /\ mem = <<>> /\ open = {}
    /\ gaveUp = {} /\ disturbed = FALSE

KernelStep ==
    \/ RequestDelete \/ Create \/ CreateRefused \/ GiveUp \/ Send
    \/ StartRead \/ ReadNext \/ EndRead \/ CommitRead
    \/ Ask \/ NewConsumer \/ PollConsumer \/ CloseConsumer

Next == KernelStep \/ RequestLost \/ TooLate \/ Pause \/ BrokerStep \/ Fail \/ Retry \/ FromTheTop

Spec == /\ Init /\ [][Next]_vars
        /\ WF_vars(KernelStep) /\ WF_vars(Vanish /\ BrokerStep)

-----------------------------------------------------------------------------
KafkaTypeOK ==
    /\ KernelTypeOK(Script, {"creating", "reading", "late", "read"})
    /\ attempts \in 0 .. Attempts
    /\ \A t \in Topics : \A l \in ToSet(topics[t].log) :
           \A r \in l.recs : r.off < l.end /\ \A q \in l.recs : q.off = r.off => q = r
    /\ group.joined \subseteq group.members /\ group.phase \in {"stable", "joining", "syncing"}
    /\ group.members \subseteq open

(* What a group committed on the topic as it is now, it has read: a reader *)
(* that dies before its commit, or a topic made anew, costs no record.     *)
AtLeastOnce ==
    \A g \in Groups : 0 .. offsets[g] - 1 \subseteq seen[g]

(* Every notebook comes to its end or fails, whatever the broker does: no  *)
(* read, no send and no wait for a topic goes on for ever.                 *)
NotebookEnds == []<>(AtEnd(Script) \/ status \in {"failed", "rejected"})

-----------------------------------------------------------------------------
(* What the notebooks print or assert at the end.                          *)
Sum(f) == FoldFunction(+, 0, f)
Most(f) == Max({f[i] : i \in DOMAIN f})
Latest(recs) == FoldLeft(LAMBDA m, r : (r.key :> r.id) @@ m, <<>>, recs)

Spread ==       \* kaf1: the dominant key is on one partition, many keys are on all
    Most(mem.skewed) > Most(mem.balanced) /\ \A p \in 1 .. 3 : mem.balanced[p] = 1

(* The read-back came to the end of the log.  One that consumer_timeout_ms *)
(* cut short is not told apart by the notebooks.                           *)
Whole(x, t) == mem[x] # <<>> /\ Last(mem[x]).off = topics[t].log[1].end - 1

(* Two reads of one log from one offset: one may be cut short.             *)
SameStart(x, y) == IsPrefix(mem[x], mem[y]) \/ IsPrefix(mem[y], mem[x])

CaughtUp ==     \* kaf2: the lag covers what the group has not read; what was
                \* not committed is read again
    LET unread(g) == {r \in topics["t"].log[1].recs : r.off \notin seen[g]}
    IN  /\ Sum(mem.lag_fixed) >= Cardinality(unread("app"))
        /\ Whole("drained", "t") => Sum(mem.lag_fixed) = 0
        /\ SameStart("crashed", "reread")

Covered(x) ==   \* a step of kaf3: every partition has exactly one owner
    /\ UNION Range(mem[x]) = 1 .. 3
    /\ \A c, d \in DOMAIN mem[x] : c # d => mem[x][c] \cap mem[x][d] = {}

Rebalanced ==   \* kaf3: three partitions at each step; the fourth member is idle
    ~disturbed => /\ \A x \in {"step1", "step2", "step3", "owners"} : Covered(x)
                  /\ mem.step2["B"] # {} /\ mem.owners["E"] = {}

Converged ==    \* kaf4: a state is its last version; earliest skips nothing
    /\ \A x \in {"records", "counts"} :
           Whole(x, "s") => Latest(mem[x]) = (0 :> 3) @@ (1 :> 2)
    /\ Whole("records", "s") => Len(mem.counts) <= Len(mem.records)
    /\ mem.earliest <= Earliest(topics["t"].log[1])
    /\ Sum(mem.end) = Sum(mem.latest) /\ Sum(mem.end) = Sum(Ends(topics["t"]))

Deduplicated == \* kaf5: a revenue called overstated is; every charge is there
                \* once after the dedup; no isolation level hides one
    /\ Len(mem.counts) > Cardinality(Ids(mem.counts))
    /\ Whole("counts", "t") => Ids(mem.counts) = 1 .. 3
    /\ SameStart("committed", "uncommitted")

(* What read_all's docstring says, "read of a whole topic": what kaf4 takes *)
(* its compaction target from ends with the topic's last record.           *)
WholeTopicRead ==
    Due(Script, "ready") /\ o.op = "prove" /\ notebook = "kaf4" => Whole("records", "s")

(* The notebooks' proofs hold whatever the broker has got to, whichever    *)
(* cells were run again, and wherever a read-back was cut short, of what   *)
(* the notebook read; those that rest on the number of partitions, unless  *)
(* ensure_topic has given up on the topic.                                 *)
Proved ==
    Due(Script, "ready") /\ o.op = "prove" =>
        CASE notebook = "kaf1" -> gaveUp = {} => Spread
          [] notebook = "kaf2" -> CaughtUp
          [] notebook = "kaf3" -> gaveUp = {} => Rebalanced
          [] notebook = "kaf4" -> Converged
          [] notebook = "kaf5" -> Deduplicated
=============================================================================
