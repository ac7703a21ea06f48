---------------------------- MODULE WindowCounts ----------------------------
(***************************************************************************)
(* The watermarked count per minute of str1_watermarking: what one         *)
(* micro-batch makes of the query's state.  An event is an offset of the   *)
(* topic, and its time is a tick, three of them to the minute (:00, :30    *)
(* and :57, the last second the notebook uses), so that adding or taking   *)
(* away whole minutes is exact.                                            *)
(***************************************************************************)
EXTENDS Integers, FiniteSetsExt

Minute == 3

(* window("event_time", "1 minute"): the end of the window an event is in. *)
WindowEnd(time) == (time \div Minute + 1) * Minute

(* A window is final when the watermark has reached its end.               *)
Closed(time, watermark) == WindowEnd(time) <= watermark

(* The state: the latest event time seen (it starts at the watermark's 0), *)
(* the events in open windows, and those dropped by the watermark.         *)
NoState == [frontier |-> 0, open |-> {}, late |-> {}]

(* withWatermark: a batch sees the frontier as of the batches before it.   *)
Watermark(state, delay) == state.frontier - delay * Minute

Emitted(state, topic, delay) ==
    {o \in state.open : Closed(topic[o + 1], Watermark(state, delay))}

AdvanceAtOnce(state, batch, topic, delay) ==        \* mutant: the batch's own
    LET frontier == Max({state.frontier} \cup {topic[o + 1] : o \in batch})   \* events
        wm       == frontier - delay * Minute                             \* count
        open     == state.open \cup {o \in batch : ~Closed(topic[o + 1], wm)}
    IN  [frontier |-> frontier,
         open     |-> {o \in open : ~Closed(topic[o + 1], wm)},
         late     |-> state.late \cup {o \in batch : Closed(topic[o + 1], wm)}]

Advance(state, batch, topic, delay) ==
    LET wm   == Watermark(state, delay)
        open == state.open \cup {o \in batch : ~Closed(topic[o + 1], wm)}
    IN  [frontier |-> Max({state.frontier} \cup {topic[o + 1] : o \in batch}),
         open     |-> {o \in open : ~Closed(topic[o + 1], wm)},
         late     |-> state.late \cup {o \in batch : Closed(topic[o + 1], wm)}]
=============================================================================
