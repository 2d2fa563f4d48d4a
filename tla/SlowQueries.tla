---------------------------- MODULE SlowQueries ----------------------------
(***************************************************************************)
(* Slow queries: lib/db/query-trace-aggregator.js keeps one sample per     *)
(* normalized statement, db/query-sample.js sums its queries up with the   *)
(* statistics of lib/stats.  Beyond max_samples the statement whose        *)
(* slowest query was the fastest is dropped.                               *)
(***************************************************************************)
EXTENDS Integers, FiniteSets

CONSTANTS
    Statements,    \* normalized statements
    QueryTimes,    \* durations over explain_threshold
    MaxSamples,    \* slow_sql.max_samples
    Serverless,    \* serverless_mode.enabled
    MaxQueries     \* bound: queries recorded

ASSUME SlowQueriesAssumption ==
    /\ IsFiniteSet(Statements)
    /\ QueryTimes \subseteq Nat \ {0}
    /\ MaxSamples \in Nat \ {0}
    /\ Serverless \in BOOLEAN
    /\ MaxQueries \in Nat

VARIABLES
    samples,      \* per statement its QuerySample
    samplesOut,   \* the payload in flight; bound: one
    queryHistory  \* for the properties: what became of the queries

queryVars == <<samples, samplesOut, queryHistory>>

Sample == [count : Nat, total : Nat, min : Nat, max : Nat, slowest : Nat]
NoSample == [count |-> 0, total |-> 0, min |-> 0, max |-> 0, slowest |-> 0]
NoSamples == [s \in Statements |-> NoSample]
InUse(ss) == {s \in Statements : ss[s].count > 0}

\* The queries of all samples.
QueriesIn(ss) ==
    LET sum[S \in SUBSET Statements] ==
            IF S = {} THEN 0 ELSE LET s == CHOOSE s \in S : TRUE IN ss[s].count + sum[S \ {s}]
    IN  sum[Statements]

QueryTypeOK ==
    /\ samples \in [Statements -> Sample]
    /\ samplesOut \in [Statements -> Sample]
    /\ queryHistory \in [recorded : 0 .. MaxQueries, gone : Nat,
                         dropped : {0} \cup QueryTimes, merged : Nat]

QueryInit ==
    /\ samples = NoSamples
    /\ samplesOut = NoSamples
    /\ queryHistory = [recorded |-> 0, gone |-> 0, dropped |-> 0, merged |-> 0]

Faster(x, y) == IF x < y THEN x ELSE y
Slower(x, y) == IF x > y THEN x ELSE y

SampleOf(d) == [count |-> 1, total |-> d, min |-> d, max |-> d, slowest |-> d]

\* Slip: the merged sample keeps its first representative.
SampleSumStale(a, b) ==
    CASE a.count = 0 -> b
      [] a.count > 0 /\ b.count = 0 -> a
      [] a.count > 0 /\ b.count > 0 ->
            [count |-> a.count + b.count, total |-> a.total + b.total,
             min |-> Faster(a.min, b.min), max |-> Slower(a.max, b.max), slowest |-> a.slowest]

\* QuerySample.merge and aggregate, over Stats.merge and recordValue.
SampleSum(a, b) ==
    CASE a.count = 0 -> b
      [] a.count > 0 /\ b.count = 0 -> a
      [] a.count > 0 /\ b.count > 0 ->
            [count |-> a.count + b.count, total |-> a.total + b.total,
             min |-> Faster(a.min, b.min), max |-> Slower(a.max, b.max),
             slowest |-> Slower(a.slowest, b.slowest)]

\* removeShortest; of several shortest ones the first in the map goes.
Removable(ss) == {s \in InUse(ss) : \A r \in InUse(ss) : ss[s].slowest <= ss[r].slowest}

AddQuery(s, d) ==
    /\ queryHistory.recorded < MaxQueries
    /\ LET added == [samples EXCEPT ![s] = SampleSum(@, SampleOf(d))]
           counted == [queryHistory EXCEPT !.recorded = @ + 1]
           fits == s \in InUse(samples) \/ Serverless \/ Cardinality(InUse(added)) <= MaxSamples
       IN  IF fits THEN samples' = added /\ queryHistory' = counted
           ELSE \E r \in Removable(added) :
                  /\ samples' = [added EXCEPT ![r] = NoSample]
                  /\ queryHistory' = [counted EXCEPT
                        !.gone = @ + added[r].count,
                        !.dropped = Slower(@, added[r].slowest)]
    /\ UNCHANGED samplesOut

SendQueries ==
    /\ InUse(samplesOut) = {}
    /\ samplesOut' = samples
    /\ samples' = NoSamples
    /\ queryHistory' = [queryHistory EXCEPT !.dropped = 0, !.merged = 0]

QueriesSettled ==
    /\ InUse(samplesOut) # {}
    /\ samplesOut' = NoSamples
    /\ queryHistory' = [queryHistory EXCEPT !.gone = @ + QueriesIn(samplesOut)]
    /\ UNCHANGED samples

MergedSamples(b) == [s \in Statements |-> SampleSum(samples[s], b[s])]

\* retainData: the samples come back, over max_samples if need be.
QueriesRetained ==
    /\ InUse(samplesOut) # {}
    /\ samplesOut' = NoSamples
    /\ samples' = MergedSamples(samplesOut)
    /\ queryHistory' = [queryHistory EXCEPT
            !.merged = @ + Cardinality(InUse(samplesOut) \ InUse(samples))]

QueryNext ==
    \/ \E s \in Statements, d \in QueryTimes : AddQuery(s, d)
    \/ SendQueries \/ QueriesSettled \/ QueriesRetained

QuerySpec == QueryInit /\ [][QueryNext]_queryVars

-----------------------------------------------------------------------------
\* Every slow query is counted once: in a sample, in the payload in flight, or in
\* one that was settled or dropped.
QueriesAddUp ==
    queryHistory.recorded = queryHistory.gone + QueriesIn(samples) + QueriesIn(samplesOut)

\* A sample's statistics are those of some queries, its representative is the slowest
\* of them.
SamplesAreConsistent ==
    \A ss \in {samples, samplesOut}, s \in Statements :
        LET q == ss[s]
        IN  /\ q.slowest = q.max
            /\ q.count * q.min <= q.total /\ q.total <= q.count * q.max

\* Until a failed harvest comes back, no statement that was dropped had a slower
\* query than any statement kept.
SlowestAreKept ==
    queryHistory.merged = 0 =>
        \A s \in InUse(samples) : queryHistory.dropped <= samples[s].slowest

\* The samples of slow queries agree with the queries and are the slowest.
SlowQueriesCorrect == QueryTypeOK /\ QueriesAddUp /\ SamplesAreConsistent /\ SlowestAreKept
=============================================================================
