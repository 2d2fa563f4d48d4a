---------------------------- MODULE EventHarvest ----------------------------
(***************************************************************************)
(* Harvesting events: lib/aggregators/event-aggregator.js and              *)
(* base-aggregator.js over lib/priority-queue.js, with the aggregators     *)
(* built on them for transaction events (split payloads), span events      *)
(* (segments refused early), custom events and error events.               *)
(*                                                                         *)
(* The queue keeps the `limit` events of highest priority.  A send hands   *)
(* the queue to the collector and starts an empty one; when the collector  *)
(* wants the data kept, the old queue is merged into whatever the new one  *)
(* holds by then.  Several batches may be on their way at once.            *)
(***************************************************************************)
EXTENDS Integers, FiniteSets

CONSTANTS
    Priorities,      \* priorities an event may have
    Limits,          \* harvest limits the server may set
    DefaultLimit,    \* the limit of the local configuration
    SplitThreshold,  \* splitThreshold of the transaction event aggregator
    MaxEvents,       \* bound: events recorded
    MaxBatches,      \* bound: batches in flight when another is sent
    MaxAttempts      \* bound: events sent, those sent again included

ASSUME EventAssumption ==
    /\ Priorities \subseteq Nat \ {0}
    /\ Limits \subseteq Nat
    /\ DefaultLimit \in Nat
    /\ SplitThreshold \in Nat \ {0}
    /\ MaxEvents \in Nat
    /\ MaxBatches \in Nat
    /\ MaxAttempts \in Nat

VARIABLES
    queue,     \* the PriorityQueue: limit, seen and its events
    aggLimit,  \* the aggregator's own limit
    batches,   \* payloads in flight, the second half of a split one with its first
    counted,   \* the supportability metrics SEEN, SENT and DROPPED
    history    \* what became of the events, for the properties only

eventVars == <<queue, aggLimit, batches, counted, history>>

Event == [id : 1 .. MaxEvents, priority : Priorities]
Queue == [limit : Nat, seen : Nat, items : SUBSET Event]

EventTypeOK ==
    /\ queue \in Queue
    /\ aggLimit \in Nat
    /\ batches \subseteq [items : SUBSET Event, rest : SUBSET Event]
    /\ counted \in [seen : Nat, sent : Int, dropped : Int]
    /\ history \in [recorded : 0 .. MaxEvents, gone : SUBSET Event, lost : SUBSET Event,
                    early : Nat, attempted : Nat, resized : BOOLEAN]

EmptyQueue(limit) == [limit |-> limit, seen |-> 0, items |-> {}]

EventInit ==
    /\ queue = EmptyQueue(DefaultLimit)
    /\ aggLimit = DefaultLimit
    /\ batches = {}
    /\ counted = [seen |-> 0, sent |-> 0, dropped |-> 0]
    /\ history = [recorded |-> 0, gone |-> {}, lost |-> {}, early |-> 0,
                  attempted |-> 0, resized |-> FALSE]

-----------------------------------------------------------------------------
\* The priority queue.  Which of several least events the heap extracts is open.
Least(S) == {e \in S : \A x \in S : e.priority <= x.priority}
Overflow(q) == IF q.seen >= q.limit THEN q.seen - q.limit ELSE 0

\* n events of S than which no other one of S is greater.
Best(n, S) ==
    {K \in SUBSET S :
        /\ Cardinality(K) = IF Cardinality(S) < n THEN Cardinality(S) ELSE n
        /\ \A k \in K, e \in S \ K : e.priority <= k.priority}

\* The queues that adding e may lead to.
Added(q, e) ==
    LET seen == [q EXCEPT !.seen = @ + 1]
        full == Cardinality(q.items) = q.limit
    IN  IF q.limit = 0 \/ (full /\ \E m \in Least(q.items) : e.priority <= m.priority)
        THEN {seen}
        ELSE IF full
             THEN {[seen EXCEPT !.items = (@ \cup {e}) \ {m}] : m \in Least(q.items)}
             ELSE {[seen EXCEPT !.items = @ \cup {e}]}

\* merge takes the least event first and adds every one; in the end the best of
\* both are kept (MergeIsAdding).
AddedInTurn(q, S) ==
    LET after[T \in SUBSET S] ==
            IF T = {} THEN {q}
            ELSE LET last == CHOOSE e \in T : \A x \in T : x.priority <= e.priority
                 IN  UNION {Added(r, last) : r \in after[T \ {last}]}
    IN  after[S]

\* Slip: the merged events are taken before those the queue holds.
MergedFirst(q, S) ==
    {[q EXCEPT !.seen = @ + Cardinality(S), !.items = K] :
        K \in {S \cup T : T \in Best(q.limit - Cardinality(S), q.items)}}
Merged(q, S) ==
    {[q EXCEPT !.seen = @ + Cardinality(S), !.items = K] :
        K \in Best(q.limit, q.items \cup S)}

Resized(q, limit) ==
    {[q EXCEPT !.limit = limit, !.items = K] : K \in Best(limit, q.items)}

-----------------------------------------------------------------------------
\* The aggregator.  An event that finds the queue seen-over counts as dropped, the
\* one it replaces having been counted as sent before.
CountedAdd(didAdd, q) ==
    IF didAdd /\ Overflow(q) = 0
    THEN [counted EXCEPT !.seen = @ + 1, !.sent = @ + 1]
    ELSE [counted EXCEPT !.seen = @ + 1, !.dropped = @ + 1]

CountedMerge(S, q) ==
    LET n == Cardinality(S)
        room == aggLimit - Cardinality(queue.items)
        sent == IF n < room THEN n ELSE room
    IN  [counted EXCEPT !.seen = @ + n, !.sent = @ + sent, !.dropped = @ + (n - sent)]

Add ==
    /\ history.recorded < MaxEvents
    /\ \E p \in Priorities :
          LET e == [id |-> history.recorded + 1, priority |-> p]
          IN  \E q \in Added(queue, e) :
                /\ queue' = q
                /\ counted' = CountedAdd(e \in q.items, q)
                /\ history' = [history EXCEPT
                        !.recorded = @ + 1,
                        !.lost = @ \cup ((queue.items \cup {e}) \ q.items)]
    /\ UNCHANGED <<aggLimit, batches>>

\* SpanEventAggregator.addSegment: a segment the queue would refuse is not made
\* into an event.
AddSegment ==
    /\ history.recorded < MaxEvents
    /\ queue.limit > 0 /\ Cardinality(queue.items) = queue.limit
    /\ \E p \in Priorities :
          /\ \A m \in Least(queue.items) : p < m.priority
          /\ history' = [history EXCEPT !.recorded = @ + 1, !.early = @ + 1]
    /\ queue' = [queue EXCEPT !.seen = @ + 1]
    /\ counted' = [counted EXCEPT !.seen = @ + 1]
    /\ UNCHANGED <<aggLimit, batches>>

Cleared == EmptyQueue(queue.limit)

\* Splitting halves the events, whichever come first in the heap.
Halves(S) == {H \in SUBSET S : Cardinality(H) = Cardinality(S) \div 2}

Send ==
    /\ Cardinality(batches) < MaxBatches
    /\ queue.items # {}
    /\ history.attempted + Cardinality(queue.items) <= MaxAttempts
    /\ \E first \in IF Cardinality(queue.items) < SplitThreshold
                    THEN {queue.items} ELSE Halves(queue.items) :
          batches' = batches \cup {[items |-> first, rest |-> queue.items \ first]}
    /\ queue' = Cleared
    /\ history' = [history EXCEPT !.attempted = @ + Cardinality(queue.items),
                                  !.lost = {}]
    /\ UNCHANGED <<aggLimit, counted>>

SendNothing ==
    /\ queue.items = {}
    /\ queue' = Cleared
    /\ history' = [history EXCEPT !.lost = {}]
    /\ UNCHANGED <<aggLimit, batches, counted>>

\* The next payload of a split send goes out when the one before is answered.
Onwards(b) ==
    (batches \ {b}) \cup
        (IF b.rest = {} THEN {} ELSE {[items |-> b.rest, rest |-> {}]})

\* The collector took the payload, or told the agent to discard it.
Settled(b) ==
    /\ batches' = Onwards(b)
    /\ history' = [history EXCEPT !.gone = @ \cup b.items]
    /\ UNCHANGED <<queue, aggLimit, counted>>

\* retainData.
Retained(b) ==
    /\ batches' = Onwards(b)
    /\ \E q \in Merged(queue, b.items) :
          /\ queue' = q
          /\ counted' = CountedMerge(b.items, q)
          /\ history' = [history EXCEPT
                            !.lost = @ \cup ((queue.items \cup b.items) \ q.items)]
    /\ UNCHANGED aggLimit

\* A connect with a limit for this type, or without one.
Reconfigure ==
    /\ \/ \E limit \in Limits :
             /\ aggLimit' = limit
             /\ queue' \in Resized(queue, limit)
       \/ /\ aggLimit' = DefaultLimit
          /\ queue' = queue
    /\ history' = [history EXCEPT !.lost = {}, !.resized = TRUE]
    /\ UNCHANGED <<batches, counted>>

EventNext ==
    \/ Add \/ AddSegment \/ Send \/ SendNothing \/ Reconfigure
    \/ \E b \in batches : Settled(b) \/ Retained(b)

EventSpec == EventInit /\ [][EventNext]_eventVars

-----------------------------------------------------------------------------
\* The queue never holds more than its limit, after merges and new limits too.
QueueBounded == Cardinality(queue.items) <= queue.limit

\* "we want the ones with the highest priority": of the events that went into a
\* queue, by add or by merge, none it lost outranks one it keeps.
BestAreKept ==
    \A e \in history.lost, k \in queue.items : e.priority <= k.priority

\* Merging a retained batch one event at a time keeps the best of both queues.
MergeIsAdding ==
    \A b \in batches : AddedInTurn(queue, b.items) \subseteq Merged(queue, b.items)

\* An event waits in one place only: retained batches, queues and payloads in flight
\* share none, and no event that was settled is sent again.
NoEventTwice ==
    /\ \A b \in batches : queue.items \cap (b.items \cup b.rest) = {}
    /\ \A b \in batches : b.items \cap b.rest = {}
    /\ \A b, c \in batches : b # c => (b.items \cup b.rest) \cap (c.items \cup c.rest) = {}
    /\ history.gone \cap (queue.items \cup UNION {b.items \cup b.rest : b \in batches}) = {}

\* The metrics agree with the events: what was seen was sent or dropped, or is a
\* segment refused early, and what counts as sent was in a batch or still waits.
MetricsAddUp ==
    /\ counted.seen = counted.sent + counted.dropped + history.early
    /\ ~history.resized =>
          counted.sent = history.attempted + Cardinality(queue.items)

\* What is kept for a harvest: the best of what came, once, within the limit and counted.
EventsCorrect ==
    EventTypeOK /\ QueueBounded /\ BestAreKept /\ MergeIsAdding /\ NoEventTwice /\ MetricsAddUp
=============================================================================
