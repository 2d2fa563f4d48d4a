----------------------------- MODULE SpanStreaming -----------------------------
(***************************************************************************)
(* Spans streamed to a trace observer as transactions end: the aggregator  *)
(* (lib/spans/streaming-span-event-aggregator.js), the streamer with its   *)
(* queue (lib/spans/span-streamer.js) and the connection, which comes back *)
(* after most errors (lib/grpc/connection.js).                             *)
(***************************************************************************)
EXTENDS Integers, Sequences

CONSTANTS
    SegmentTrees,    \* what transactions' traces may be: the children of each segment, the
                     \*   first being the root
    QueueSize,       \* infinite_tracing.span_events.queue_size
    MaxSpans,        \* bound: spans of all transactions
    MaxObserverRoom, \* bound: spans the observer takes before it is drained
    MaxReconnects,   \* bound: reconnects waiting for their timer
    MaxSpanRuns      \* bound: runs of the agent

ASSUME SpansAssumption ==
    /\ \A tree \in SegmentTrees : tree \in Seq(Seq(1..Len(tree))) /\ tree # <<>>
    /\ QueueSize \in Nat /\ MaxSpans \in Nat /\ MaxObserverRoom \in Nat
    /\ MaxReconnects \in Nat /\ MaxSpanRuns \in Nat \ {0}

VARIABLES
    spanAgg,     \* the aggregator: [started, run]
    link,        \* the connection: [up : its state is connected, run : of its details,
                 \*   stream : the run its stream was opened for, open : streams not ended]
    streamer,    \* [writable, room, drains : it listens for the drain, queue, sent]
    reconnects,  \* timers that will call connectSpans
    spanPast     \* [made : spans so far, gaveUp : the last connection ended for good,
                 \*   leftover : a reconnect was pending at the last stop]

spanVars == <<spanAgg, link, streamer, reconnects, spanPast>>

SpanRuns == 1..MaxSpanRuns
StreamedSpan == [id : 1..MaxSpans, parent : 0..MaxSpans]

SpanStreamTypeOK ==
    /\ spanAgg \in [started : BOOLEAN, run : SpanRuns]
    /\ link \in [up : BOOLEAN, run : {0} \cup SpanRuns, stream : {0} \cup SpanRuns, open : 0..2]
    /\ streamer.room \in 0..MaxObserverRoom
    /\ \A i \in DOMAIN streamer.queue : streamer.queue[i] \in StreamedSpan
    /\ \A i \in DOMAIN streamer.sent : streamer.sent[i] \in StreamedSpan
    /\ reconnects \in 0..MaxReconnects

SpanStreamInit ==
    /\ spanAgg = [started |-> FALSE, run |-> 1]
    /\ link = [up |-> FALSE, run |-> 0, stream |-> 0, open |-> 0]
    /\ streamer = [writable |-> FALSE, room |-> 0, drains |-> FALSE, queue |-> <<>>, sent |-> <<>>]
    /\ reconnects = 0
    /\ spanPast = [made |-> 0, gaveUp |-> FALSE, leftover |-> FALSE]

-----------------------------------------------------------------------------
(***************************************************************************)
(* The streamer.                                                           *)
(***************************************************************************)

\* SpanStreamer#send: a write that fills the observer's buffer counts, and is the last one
\* until the buffer is drained.
SendSpan(s, span) ==
    [writable |-> s.room > 1, room |-> s.room - 1, drains |-> s.drains \/ s.room <= 1,
     queue |-> s.queue, sent |-> Append(s.sent, span)]

\* SpanStreamer#write; the queue takes one span more than its size.
WriteSpan(s, span) ==
    IF s.writable THEN SendSpan(s, span)
    ELSE IF Len(s.queue) <= QueueSize THEN [s EXCEPT !.queue = Append(@, span)]
    ELSE s

\* sendQueue, on a stream that takes another `room` spans.
Unqueued(s, span) == IF s.writable THEN SendSpan(s, span) ELSE [s EXCEPT !.queue = Append(@, span)]
SendQueue(s, room) ==
    LET taken[k \in 0..Len(s.queue)] ==
            IF k = 0 THEN [writable |-> TRUE, room |-> room, drains |-> FALSE, queue |-> <<>>, sent |-> s.sent]
            ELSE Unqueued(taken[k - 1], s.queue[k])
    IN  taken[Len(s.queue)]

\* The streamer's listeners of the connection: 'connected' and 'disconnected'.
OnLinkUp(room) == streamer' = SendQueue(streamer, room)
OnLinkDown(s) == [s EXCEPT !.writable = FALSE, !.room = 0, !.drains = FALSE]

\* The observer's buffer is empty again: the 'drain' event.
DrainStream(room) ==
    /\ streamer.drains
    /\ streamer' = SendQueue(streamer, room)
    /\ UNCHANGED <<spanAgg, link, reconnects, spanPast>>

-----------------------------------------------------------------------------
(***************************************************************************)
(* The connection.  Removing a stream's listeners when it is left also     *)
(* removes the streamer's for its drain.                                   *)
(***************************************************************************)

\* connectSpans, which opens a stream or gives up.
ConnectSpans(details) ==
    IF link.up
    THEN link' = [link EXCEPT !.run = details] /\ UNCHANGED <<streamer, spanPast>>
    ELSE \/ \E room \in 1..MaxObserverRoom :
               /\ link' = [up |-> TRUE, run |-> details, stream |-> details, open |-> link.open + 1]
               /\ OnLinkUp(room)
               /\ spanPast' = [spanPast EXCEPT !.gaveUp = FALSE]
         \/ /\ link' = [link EXCEPT !.run = details]
            /\ spanPast' = [spanPast EXCEPT !.gaveUp = TRUE]
            /\ UNCHANGED streamer

\* _disconnect.
LinkDown == [link EXCEPT !.up = FALSE, !.stream = 0, !.open = @ - 1]

\* Slip: the delayed reconnect of an error is forgotten.
StreamStatusFinal(status) ==
    /\ link.up /\ reconnects < MaxReconnects
    /\ link' = LinkDown /\ streamer' = OnLinkDown(streamer)
    /\ IF status = "UNIMPLEMENTED"
       THEN spanPast' = [spanPast EXCEPT !.gaveUp = TRUE] /\ UNCHANGED reconnects
       ELSE reconnects' = (IF status = "OK" THEN reconnects + 1 ELSE reconnects) /\ UNCHANGED spanPast
    /\ UNCHANGED spanAgg

\* The observer ends the stream with a status: UNIMPLEMENTED for good, with OK to be called
\* again at once, with any other after a delay.
StreamStatus(status) ==
    /\ link.up /\ reconnects < MaxReconnects
    /\ link' = LinkDown /\ streamer' = OnLinkDown(streamer)
    /\ IF status = "UNIMPLEMENTED"
       THEN spanPast' = [spanPast EXCEPT !.gaveUp = TRUE] /\ UNCHANGED reconnects
       ELSE reconnects' = reconnects + 1 /\ UNCHANGED spanPast
    /\ UNCHANGED spanAgg

\* The timer set by _reconnect, which nothing cancels.
ReconnectSpans ==
    /\ reconnects > 0
    /\ reconnects' = reconnects - 1
    /\ ConnectSpans(link.run)
    /\ UNCHANGED spanAgg

-----------------------------------------------------------------------------
(***************************************************************************)
(* The aggregator, and the transactions that end.                          *)
(***************************************************************************)

\* start, by Agent#startStreaming and #startAggregators.
StartSpans ==
    /\ ~spanAgg.started
    /\ spanAgg' = [spanAgg EXCEPT !.started = TRUE]
    /\ ConnectSpans(spanAgg.run)
    /\ UNCHANGED reconnects

\* stop, by Agent#stopAggregators.
StopSpans ==
    /\ spanAgg.started
    /\ spanAgg' = [spanAgg EXCEPT !.started = FALSE]
    /\ IF link.up THEN link' = LinkDown /\ streamer' = OnLinkDown(streamer)
       ELSE UNCHANGED <<link, streamer>>
    /\ spanPast' = [spanPast EXCEPT !.leftover = reconnects > 0]
    /\ UNCHANGED reconnects

\* Agent#onConnect, in a restart: a new run while the aggregators are stopped.
NewSpanRun ==
    /\ ~spanAgg.started /\ spanAgg.run < MaxSpanRuns
    /\ spanAgg' = [spanAgg EXCEPT !.run = @ + 1]
    /\ UNCHANGED <<link, streamer, reconnects, spanPast>>

\* The children of a segment, each with the span that is its parent's.
NodesBelow(tree, segment, span) ==
    [i \in DOMAIN tree[segment] |-> [segment |-> tree[segment][i], parent |-> span]]

\* Trace#generateSpanEvents takes a segment off a stack and puts its children on it; the root
\* becomes no span, its children's parent is the caller's.
TakeSegment(tree, walk, made) ==
    LET node == walk.stack[Len(walk.stack)]
        id == made + Len(walk.spans) + 1
    IN  [stack |-> SubSeq(walk.stack, 1, Len(walk.stack) - 1) \o NodesBelow(tree, node.segment, id),
         spans |-> Append(walk.spans, [id |-> id, parent |-> node.parent])]
SpansOf(tree, made) ==
    LET walk[k \in 0..(Len(tree) - 1)] ==
            IF k = 0 THEN [stack |-> NodesBelow(tree, 1, 0), spans |-> <<>>]
            ELSE IF walk[k - 1].stack = <<>> THEN walk[k - 1]
            ELSE TakeSegment(tree, walk[k - 1], made)
    IN  walk[Len(tree) - 1].spans

\* addSegment for each of them.
WriteSpans(s, spans) ==
    LET written[k \in 0..Len(spans)] == IF k = 0 THEN s ELSE WriteSpan(written[k - 1], spans[k])
    IN  written[Len(spans)]

\* A transaction ends; its spans are dropped unless the aggregator has been started.
TransactionSpans(tree) ==
    LET spans == SpansOf(tree, spanPast.made) IN
    /\ spanPast.made + Len(spans) <= MaxSpans
    /\ spanPast' = [spanPast EXCEPT !.made = @ + Len(spans)]
    /\ streamer' = IF spanAgg.started THEN WriteSpans(streamer, spans) ELSE streamer
    /\ UNCHANGED <<spanAgg, link, reconnects>>

SpanStreamNext ==
    \/ StartSpans \/ StopSpans \/ NewSpanRun \/ ReconnectSpans
    \/ \E room \in 1..MaxObserverRoom : DrainStream(room)
    \/ \E status \in {"OK", "UNIMPLEMENTED", "other"} : StreamStatus(status)
    \/ \E tree \in SegmentTrees : TransactionSpans(tree)

-----------------------------------------------------------------------------
Streamed == streamer.sent \o streamer.queue

\* Spans leave in the order in which their transactions ended, whatever was queued, drained
\* and reconnected in between.
SpansInOrder == \A i, j \in DOMAIN Streamed : i < j => Streamed[i].id < Streamed[j].id

\* No orphans: the parent of a span that was kept was kept too, and goes before it.
NoOrphans ==
    \A i \in DOMAIN Streamed : Streamed[i].parent # 0 =>
        \E j \in 1..(i - 1) : Streamed[j].id = Streamed[i].parent

\* Queued spans have something to wait for: a drain, or a connection.
QueueIsWaiting ==
    /\ streamer.writable => streamer.queue = <<>> /\ link.up
    /\ link.up /\ ~streamer.writable => streamer.drains
    /\ Len(streamer.queue) <= QueueSize + 1

\* The agent tries to reconnect unless it is told not to: a started aggregator has a stream or a timer
\* that will open one.
ComesBack == spanAgg.started /\ ~link.up => reconnects > 0 \/ spanPast.gaveUp

\* One stream is open at a time, and it is of the aggregator's run, unless a reconnect was
\* pending when the aggregator was stopped.
OneStreamOfTheRun ==
    /\ link.open = IF link.up THEN 1 ELSE 0
    /\ link.up /\ ~spanPast.leftover => spanAgg.started /\ link.stream = spanAgg.run

\* Spans are in order, each with its parent sent before it; what waits has a reader to come; the stream
\* is that of the run, and lost streams are tried again or given up.
SpanStreamCorrect ==
    /\ SpanStreamTypeOK /\ SpansInOrder /\ NoOrphans
    /\ QueueIsWaiting /\ ComesBack /\ OneStreamOfTheRun

SpanStreamSpec == SpanStreamInit /\ [][SpanStreamNext]_spanVars
=============================================================================
