---------------------------- MODULE SegmentTrace ----------------------------
(***************************************************************************)
(* The trace of one transaction: lib/transaction/trace/index.js, its       *)
(* segments, their timers (lib/timer.js) and the calculation of the time   *)
(* that is a segment's own.                                                *)
(*                                                                         *)
(* Time is counted in ticks; nothing in the code takes a whole tick.       *)
(***************************************************************************)
EXTENDS Integers, Sequences, FiniteSets
SegmentSeqs == INSTANCE SequencesExt
SegmentSets == INSTANCE FiniteSetsExt

CONSTANTS
    MaxSegments,      \* bound: segments besides the root
    MaxTraceSegments, \* max_trace_segments
    MaxTime           \* bound: ticks

ASSUME SegmentTraceAssumption == {MaxSegments, MaxTraceSegments, MaxTime} \subseteq Nat

VARIABLES
    clock,
    segments,   \* in the order they were added, the root first
    exclusive,  \* what was calculated for a segment: its own time, of which duration
    finalized,    \* the segments the end of the trace went through
    traceEnded

segmentVars == <<clock, segments, exclusive, finalized, traceEnded>>

Root == 1
None == -1
NotCalculated == [own |-> 0, of |-> 0]
Pending == [state |-> "pending", touched |-> FALSE, start |-> 0, measured |-> None, fixed |-> None]
NewSegment(parent, collect) ==
    [parent |-> parent, timer |-> Pending, collect |-> collect, ignore |-> FALSE, truncated |-> FALSE]

-----------------------------------------------------------------------------
\* lib/timer.js
Begun(t) == IF t.state = "pending" THEN [t EXCEPT !.state = "running", !.start = clock] ELSE t
Measured(t) == [Begun(t) EXCEPT !.touched = TRUE, !.measured = clock - Begun(t).start]

Ended(t) == IF t.state = "stopped" THEN t ELSE [Measured(t) EXCEPT !.state = "stopped"]
Touched(t) == IF t.state = "stopped" THEN [t EXCEPT !.touched = TRUE] ELSE Measured(t)

\* Slip: the timer goes on.
SoftEndedRunning(t) == IF t.state = "stopped" \/ t.touched THEN t ELSE Measured(t)
SoftEnded(t) ==
    IF t.state = "stopped" THEN t
    ELSE [(IF t.touched THEN t ELSE Measured(t)) EXCEPT !.state = "stopped"]

Duration(t) ==
    CASE t.state = "pending" -> 0
      [] t.state # "pending" /\ t.fixed # None -> t.fixed
      [] t.state # "pending" /\ t.fixed = None /\ t.measured # None -> t.measured
      [] OTHER -> clock - t.start
EndOf(t) == t.start + Duration(t)
Fixed(t, duration) == [t EXCEPT !.touched = TRUE, !.fixed = duration, !.state = "stopped"]

-----------------------------------------------------------------------------
MayCollect(count) == count < MaxTraceSegments

SegmentTypeOK ==
    /\ clock \in 0..MaxTime
    /\ \A s \in DOMAIN segments :
          /\ segments[s].timer.state \in {"pending", "running", "stopped"}
          /\ Duration(segments[s].timer) \in Nat
    /\ Cardinality({s \in DOMAIN segments : s # Root /\ segments[s].collect}) <= MaxTraceSegments
    /\ finalized \subseteq DOMAIN segments

SegmentInit ==
    /\ clock = 0
    /\ segments = <<[NewSegment(0, TRUE) EXCEPT !.timer.state = "running"]>>
    /\ exclusive = [s \in 1..MaxSegments + 1 |-> NotCalculated]
    /\ finalized = {}
    /\ traceEnded = FALSE

\* getChildren, and those of a segment the end of the trace gets to.
Children(segs, s) == {c \in DOMAIN segs : segs[c].parent = s /\ ~segs[c].ignore}
Reached(segs) ==
    LET reaches[s \in DOMAIN segs] == s = Root \/ (~segs[s].ignore /\ reaches[segs[s].parent])
    IN  {s \in DOMAIN segs : reaches[s]}

\* _updateRootTimer: the start of a timer is rounded, so a segment that ends with the
\* root may seem to end after it.
RootUpdated(segs, s, rounded) ==
    LET end  == EndOf(segs[s].timer)
        root == segs[Root].timer
    IN  IF end > EndOf(root) \/ (end = EndOf(root) /\ rounded)
        THEN [segs EXCEPT ![Root].timer = Fixed(root, end - root.start)]
        ELSE segs

\* TraceSegment#add; the tracer adds none to a transaction that has ended.  Bound: to a
\* segment that has started, as it has wherever a function is recorded.  (One that starts
\* after one below it is left with less than no time of its own.)
AddChild(parent) ==
    /\ ~traceEnded /\ segments[parent].timer.state # "pending"
    /\ Len(segments) <= MaxSegments
    /\ segments' = Append(segments, NewSegment(parent, MayCollect(Len(segments) - 1)))
    /\ UNCHANGED <<clock, exclusive, finalized, traceEnded>>

StartSegment(s) ==
    /\ segments[s].timer.state = "pending"
    /\ segments' = [segments EXCEPT ![s].timer = Begun(@)]
    /\ UNCHANGED <<clock, exclusive, finalized, traceEnded>>

TouchSegment(s, rounded) ==
    /\ s # Root
    /\ segments' = RootUpdated([segments EXCEPT ![s].timer = Touched(@)], s, rounded)
    /\ UNCHANGED <<clock, exclusive, finalized, traceEnded>>

EndSegment(s, rounded) ==
    /\ s # Root /\ segments[s].timer.state # "stopped"
    /\ segments' = RootUpdated([segments EXCEPT ![s].timer = Ended(@)], s, rounded)
    /\ UNCHANGED <<clock, exclusive, finalized, traceEnded>>

\* clearTimeout (bound: one of them).
IgnoreSegment(s) ==
    /\ s # Root /\ \A other \in DOMAIN segments : ~segments[other].ignore
    /\ segments' = [segments EXCEPT ![s].ignore = TRUE]
    /\ UNCHANGED <<clock, exclusive, finalized, traceEnded>>

Tick ==
    /\ clock < MaxTime
    /\ clock' = clock + 1
    /\ UNCHANGED <<segments, exclusive, finalized, traceEnded>>

-----------------------------------------------------------------------------
\* ExclusiveCalculator: ranges are pairs of start and end.
RangeOf(t) == <<t.start, EndOf(t)>>
ByStart(a, b) == a[1] < b[1] \/ (a[1] = b[1] /\ a[2] < b[2])

\* merge: ranges that overlap or touch become one.
JoinedRange(pairs, p) ==
    LET last == SegmentSeqs!Last(pairs)
    IN  IF pairs # <<>> /\ p[1] <= last[2]
        THEN Append(SegmentSeqs!Front(pairs), <<last[1], SegmentSets!Max({last[2], p[2]})>>)
        ELSE Append(pairs, p)
MergedRanges(first, second) ==
    SegmentSeqs!FoldLeft(JoinedRange, <<>>,
        SegmentSeqs!SetToSortSeq(SegmentSeqs!Range(first) \cup SegmentSeqs!Range(second), ByStart))

\* The ranges a segment's children report to it: their own and those of their children.
ChildPairs(segs, s) ==
    LET pairs[p \in DOMAIN segs] ==
            SegmentSets!FoldSet(
                LAMBDA c, others : MergedRanges(others, MergedRanges(pairs[c], <<RangeOf(segs[c].timer)>>)),
                <<>>, Children(segs, p))
    IN  pairs[s]

\* Of the duration, what no child's range covers.
ExclusiveOf(segs, s) ==
    LET end == EndOf(segs[s].timer)
    IN  SegmentSeqs!FoldLeft(
            LAMBDA left, p : IF p[1] >= end THEN left ELSE left - (SegmentSets!Min({p[2], end}) - p[1]),
            Duration(segs[s].timer), ChildPairs(segs, s))

\* Trace#end finalizes the segments from the root down; the calculation for the root is
\* that for all of them, with their durations of then.
Finalized(segs, s, rounded) ==
    LET soft == [segs EXCEPT ![s].timer = SoftEnded(@), ![s].truncated = ~segs[s].timer.touched]
    IN  IF segs[s].timer.state = "stopped" THEN segs
        ELSE IF segs[s].timer.touched THEN [soft EXCEPT ![s].truncated = FALSE]
        ELSE RootUpdated(soft, s, rounded)

FinalizedAll(segs, rounded) ==
    LET after[k \in 0 .. Len(segs)] ==
            IF k = 0 THEN segs
            ELSE IF k \in Reached(segs) THEN Finalized(after[k - 1], k, k # Root /\ rounded)
            ELSE after[k - 1]
    IN  after[Len(segs)]

EndTrace(rounded) ==
    /\ ~traceEnded
    /\ traceEnded' = TRUE
    /\ finalized' = Reached(segments)
    /\ LET root == Finalized(segments, Root, FALSE)
       IN  exclusive' = [s \in DOMAIN exclusive |->
               IF s \in Reached(segments)
               THEN [own |-> ExclusiveOf(root, s), of |-> Duration(root[s].timer)] ELSE NotCalculated]
    /\ segments' = FinalizedAll(segments, rounded)
    /\ UNCHANGED clock

SegmentNext ==
    \/ Tick
    \/ \E rounded \in BOOLEAN : EndTrace(rounded)
    \/ \E s \in DOMAIN segments :
          \/ AddChild(s) \/ StartSegment(s) \/ IgnoreSegment(s)
          \/ \E rounded \in BOOLEAN : TouchSegment(s, rounded) \/ EndSegment(s, rounded)

SegmentSpec == SegmentInit /\ [][SegmentNext]_segmentVars

-----------------------------------------------------------------------------
\* The ticks a segment ran in, and the finalized segments below it.
Ticks(s) == segments[s].timer.start .. EndOf(segments[s].timer) - 1
Below(s) ==
    LET isBelow[c \in finalized] == c # Root /\ (segments[c].parent = s \/ isBelow[segments[c].parent])
    IN  {c \in finalized : isBelow[c]}

\* "The duration of the transaction trace tree that only this level accounts for": the
\* ticks of a segment in which nothing below it ran.
ExclusiveIsUncovered ==
    \A s \in finalized :
        LET start == segments[s].timer.start
        IN  exclusive[s].own = Cardinality(
                (start .. start + exclusive[s].of - 1) \ UNION {Ticks(c) : c \in Below(s)})

\* "The end of the root timer to this segment's root if it is later in time": the root
\* ends with its last segment or later.
RootCovers ==
    traceEnded => \A s \in finalized : EndOf(segments[s].timer) <= EndOf(segments[Root].timer)

\* What was measured when the trace ended is what is sent: late callbacks change nothing.
DurationsAreFinal ==
    [][\A s \in finalized \ {Root} : Duration(segments[s].timer)' = Duration(segments[s].timer)]_segmentVars
=============================================================================
