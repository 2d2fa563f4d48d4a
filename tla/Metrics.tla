------------------------------- MODULE Metrics -------------------------------
(***************************************************************************)
(* The agent's metrics: lib/stats/index.js, lib/metrics/index.js and       *)
(* metric-aggregator.js.  Values are recorded in the agent's collection or *)
(* in that of a transaction, which is merged into the agent's when the     *)
(* transaction ends.  A harvest sends the agent's collection and starts a  *)
(* new one; what the collector wants retained is merged back when its      *)
(* answer comes, after any number of harvests.                             *)
(*                                                                         *)
(* The model numbers the values; of is the set of those a metric stands    *)
(* for.  The code keeps no such thing.                                     *)
(***************************************************************************)
EXTENDS Integers, FiniteSets

CONSTANTS
    MetricNames,   \* names with their scopes
    Counters,      \* those that only count
    MetricValues,  \* values: not negative
    MaxValues,     \* bound: values recorded
    MaxClock,      \* bound: the clock
    MetricSlots    \* bound: payloads in flight

ASSUME MetricsAssumption ==
    /\ MetricValues \subseteq Nat /\ MetricValues # {}
    /\ Counters \subseteq MetricNames
    /\ MaxValues \in Nat /\ MaxClock \in Nat

VARIABLES
    second,
    value,       \* the values recorded so far, by number: [amount, since]
    metrics,     \* the agent's collection: [started, stats]
    own,         \* the collection of the transaction
    payloads,    \* per slot what was sent: [sent, begin, end, data], sent FALSE when free
    taken        \* the values of payloads that were accepted or given up

metricVars == <<second, value, metrics, own, payloads, taken>>

\* Stats: an absent one is its initial value with of empty.
NoStats == [count |-> 0, total |-> 0, min |-> 0, max |-> 0, of |-> {}]
NoMetrics == [n \in MetricNames |-> NoStats]
Collection(now) == [started |-> now, stats |-> NoMetrics]
NotSent == [sent |-> FALSE, begin |-> 0, end |-> 0, data |-> Collection(0)]
Values == DOMAIN value
Of(stats) == UNION {stats[n].of : n \in MetricNames}

MetricTypeOK ==
    /\ second \in 0 .. MaxClock
    /\ Values = 1 .. Cardinality(Values)
    /\ metrics.started \in 0 .. second
    /\ \A s \in MetricSlots : payloads[s].sent => payloads[s].begin <= payloads[s].end /\ payloads[s].end <= second

MetricInit ==
    /\ second = 0
    /\ value = <<>>
    /\ metrics = Collection(0)
    /\ own = NoMetrics
    /\ payloads = [s \in MetricSlots |-> NotSent]
    /\ taken = {}

-----------------------------------------------------------------------------
Lower(a, b) == IF a < b THEN a ELSE b
Higher(a, b) == IF a > b THEN a ELSE b

\* recordValue and, for counters, incrementCallCount.
Recorded(stats, n, v, id) ==
    IF n \in Counters
    THEN [stats EXCEPT !.count = @ + 1, !.of = @ \cup {id}]
    ELSE [count |-> stats.count + 1, total |-> stats.total + v,
          min |-> IF stats.count > 0 THEN Lower(v, stats.min) ELSE v,
          max |-> Higher(v, stats.max), of |-> stats.of \cup {id}]

\* Stats.merge.
StatsMerged(a, b) ==
    [count |-> a.count + b.count, total |-> a.total + b.total,
     min |-> IF b.count = 0 THEN a.min ELSE IF a.count > 0 THEN Lower(a.min, b.min) ELSE b.min,
     max |-> Higher(a.max, b.max), of |-> a.of \cup b.of]

\* Slip: what is there already is replaced.
MergedOver(a, b) == [n \in MetricNames |-> IF b[n].of = {} THEN a[n] ELSE b[n]]

\* _merge: names the collection does not have yet are taken over as they are.
NamesMerged(a, b) ==
    [n \in MetricNames |-> IF a[n] = NoStats THEN b[n]
                           ELSE IF b[n] = NoStats THEN a[n] ELSE StatsMerged(a[n], b[n])]

IsEmpty(c) == \A n \in MetricNames : c[n] = NoStats

Numbered(v) ==
    /\ Cardinality(Values) < MaxValues
    /\ value' = [i \in 1 .. Cardinality(Values) + 1 |->
                    IF i \in Values THEN value[i] ELSE [amount |-> v, since |-> second]]

NextId == Cardinality(Values) + 1

\* measureMilliseconds and measureBytes on the agent's collection.
Measure(n, v) ==
    /\ Numbered(v)
    /\ metrics' = [metrics EXCEPT !.stats[n] = Recorded(@, n, v, NextId)]
    /\ UNCHANGED <<second, own, payloads, taken>>

\* A recorder of the transaction, whose values count from the time of the merge.
TxMeasure(n, v) ==
    /\ Numbered(v)
    /\ own' = [own EXCEPT ![n] = Recorded(@, n, v, NextId)]
    /\ UNCHANGED <<second, metrics, payloads, taken>>

\* _transactionFinished: the period is not adjusted.
TxMerged ==
    /\ ~IsEmpty(own)
    /\ metrics' = [metrics EXCEPT !.stats = NamesMerged(@, own)]
    /\ value' = [i \in Values |-> IF i \in Of(own) THEN [value[i] EXCEPT !.since = second] ELSE value[i]]
    /\ own' = NoMetrics
    /\ UNCHANGED <<second, payloads, taken>>

\* send: the payload keeps the collection; a new one starts.
SendMetrics(s) ==
    /\ ~payloads[s].sent
    /\ IF IsEmpty(metrics.stats)
       THEN UNCHANGED payloads
       ELSE payloads' = [payloads EXCEPT ![s] =
                [sent |-> TRUE, begin |-> metrics.started, end |-> second, data |-> metrics]]
    /\ metrics' = Collection(second)
    /\ UNCHANGED <<second, value, own, taken>>

Restored(c) == [started |-> Lower(metrics.started, c.started), stats |-> NamesMerged(metrics.stats, c.stats)]

MetricsAnswered(s, retain) ==
    /\ payloads[s].sent
    /\ payloads' = [payloads EXCEPT ![s] = NotSent]
    /\ IF retain
       THEN metrics' = Restored(payloads[s].data) /\ UNCHANGED taken
       ELSE taken' = taken \cup Of(payloads[s].data.stats) /\ UNCHANGED metrics
    /\ UNCHANGED <<second, value, own>>

MetricsTick ==
    /\ second < MaxClock
    /\ second' = second + 1
    /\ UNCHANGED <<value, metrics, own, payloads, taken>>

MetricNext ==
    \/ \E n \in MetricNames, v \in MetricValues : Measure(n, v) \/ TxMeasure(n, v)
    \/ TxMerged
    \/ \E s \in MetricSlots : SendMetrics(s) \/ MetricsAnswered(s, TRUE) \/ MetricsAnswered(s, FALSE)
    \/ MetricsTick

MetricSpec == MetricInit /\ [][MetricNext]_metricVars

-----------------------------------------------------------------------------
\* The sum of the values of f whose numbers are in S.
TotalOf(f, S) ==
    LET total[k \in 0 .. MaxValues] ==
            IF k = 0 THEN 0 ELSE total[k - 1] + (IF k \in S THEN f[k].amount ELSE 0)
    IN  total[MaxValues]

Collections == {metrics.stats, own} \cup {payloads[s].data.stats : s \in MetricSlots}

\* However often it was merged, a metric says of its values how many they are, what they
\* come to, and which is the least and the greatest.
StatsAddUp ==
    \A c \in Collections, n \in MetricNames :
        LET amounts == {value[i].amount : i \in c[n].of} IN
        /\ c[n].count = Cardinality(c[n].of)
        /\ n \notin Counters => c[n].total = TotalOf(value, c[n].of)
        /\ (n \notin Counters /\ amounts # {}) =>
              /\ {c[n].min, c[n].max} \subseteq amounts
              /\ \A a \in amounts : c[n].min <= a /\ a <= c[n].max

\* "merged back into the metrics collection for the ongoing harvest cycle": no value is
\* lost or counted twice between the collections, whatever the order of the answers.
EveryValueOnce ==
    /\ Values = taken \cup UNION {Of(c) : c \in Collections}
    /\ \A s, t \in MetricSlots : s # t =>
          Of(payloads[s].data.stats) \cap Of(payloads[t].data.stats) = {}
    /\ \A s \in MetricSlots : Of(payloads[s].data.stats) \cap (Of(metrics.stats) \cup Of(own) \cup taken) = {}
    /\ Of(metrics.stats) \cap (Of(own) \cup taken) = {}

\* "Adjust start when merging due to server round-trip": the period of a payload has in it
\* the time at which each of its values reached the agent's metrics.
PeriodCovers ==
    /\ \A i \in Of(metrics.stats) : metrics.started <= value[i].since
    /\ \A s \in MetricSlots : \A i \in Of(payloads[s].data.stats) :
          value[i].since \in payloads[s].begin .. payloads[s].end

\* The agent's metrics say what was measured, when, and nothing twice.
MetricsCorrect == MetricTypeOK /\ StatsAddUp /\ EveryValueOnce /\ PeriodCovers
=============================================================================
