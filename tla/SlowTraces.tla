----------------------------- MODULE SlowTraces -----------------------------
(***************************************************************************)
(* Which slow transaction is reported: lib/transaction/trace/aggregator.js *)
(* keeps one trace per harvest and remembers how slow each name has been.  *)
(* Traces of synthetics requests are kept beside it, in order of arrival.  *)
(* A batch that the collector wants kept is merged back when its answer    *)
(* comes, after any number of further harvests; the synthetics traces of   *)
(* it are lost, since _getMergeData misspells their field.                 *)
(***************************************************************************)
EXTENDS Integers, FiniteSets

CONSTANTS
    TraceNames,    \* names of transactions
    TraceTimes,    \* durations, positive
    Threshold,     \* transaction_threshold, or apdex_f
    TopN,          \* transaction_tracer.top_n
    Guarantee,     \* payloads sent before the rules of top_n apply: 5
    Patience,      \* harvests without a trace before times are forgotten: 5
    MaxSynthetics, \* synthetics traces of one harvest: 20
    TraceSlots     \* bound: payloads in flight

ASSUME SlowTracesAssumption ==
    /\ TraceTimes \subseteq Nat \ {0}
    /\ Threshold \in Nat
    /\ MaxSynthetics \in Nat
    /\ TopN \in Nat \ {0} /\ Guarantee \in Nat /\ Patience \in Nat \ {0}

VARIABLES
    held,         \* the trace held for the next harvest: a set of at most one
    synthetics,   \* the number of synthetics traces held
    requestTimes, \* per name the slowest duration captured, 0 when absent
    noTrace,      \* noTraceSubmitted
    reported,     \* as far as isBetter tells: at most Guarantee
    tracesOut     \* per slot the payload in flight, if any, as what a merge gets

traceVars == <<held, synthetics, requestTimes, noTrace, reported, tracesOut>>

Trace == [name : TraceNames, time : TraceTimes]

TraceTypeOK ==
    /\ held \subseteq Trace /\ Cardinality(held) <= 1
    /\ requestTimes \in [TraceNames -> {0} \cup TraceTimes]
    /\ noTrace \in 0 .. Patience - 1
    /\ reported \in 0 .. Guarantee
    /\ synthetics \in 0 .. MaxSynthetics
    /\ tracesOut \in [TraceSlots -> SUBSET SUBSET Trace]

TraceInit ==
    /\ held = {} /\ synthetics = 0
    /\ requestTimes = [n \in TraceNames |-> 0]
    /\ noTrace = 0
    /\ reported = 0
    /\ tracesOut = [s \in TraceSlots |-> {}]

Known == {n \in TraceNames : requestTimes[n] > 0}
GuaranteeMet == reported >= Guarantee

\* Slip: a name may enter a full map.
IsBetterAnyName(t) ==
    /\ t.time >= Threshold
    /\ \A h \in held : h.time < t.time
    /\ GuaranteeMet => requestTimes[t.name] < t.time

IsBetter(t) ==
    /\ t.time >= Threshold
    /\ \A h \in held : h.time < t.time
    /\ GuaranteeMet =>
          /\ requestTimes[t.name] < t.time
          /\ t.name \in Known \/ Cardinality(Known) < TopN

\* "because of the "first 5" rule, this may or may not be the slowest"
Capture(t) ==
    /\ held' = {t}
    /\ requestTimes' = [requestTimes EXCEPT ![t.name] = IF @ < t.time THEN t.time ELSE @]

AddTrace(t) ==
    /\ IsBetter(t)
    /\ Capture(t)
    /\ UNCHANGED <<synthetics, noTrace, reported, tracesOut>>

AddSynthetics ==
    /\ synthetics < MaxSynthetics
    /\ synthetics' = synthetics + 1
    /\ UNCHANGED <<held, requestTimes, noTrace, reported, tracesOut>>

Forget ==
    IF noTrace + 1 >= Patience
    THEN noTrace' = 0 /\ requestTimes' = [n \in TraceNames |-> 0]
    ELSE noTrace' = noTrace + 1 /\ UNCHANGED requestTimes

\* getTraces: a harvest without a slow trace counts as idle, synthetics or not.
GetTraces ==
    IF held # {} THEN noTrace' = 0 /\ UNCHANGED requestTimes ELSE Forget

SendTraces(s) ==
    /\ held # {} \/ synthetics > 0
    /\ tracesOut[s] = {}
    /\ GetTraces
    /\ tracesOut' = [tracesOut EXCEPT ![s] = {held}]
    /\ held' = {} /\ synthetics' = 0
    /\ UNCHANGED reported

SendNoTrace ==
    /\ held = {} /\ synthetics = 0
    /\ GetTraces
    /\ UNCHANGED <<held, synthetics, reported, tracesOut>>

\* The answer: _merge for a retained batch, then _afterSend whatever it was.
TraceAnswered(s) ==
    /\ tracesOut[s] # {}
    /\ tracesOut' = [tracesOut EXCEPT ![s] = {}]
    /\ reported' = IF GuaranteeMet THEN reported ELSE reported + 1
    /\ \/ UNCHANGED <<held, requestTimes>>
       \/ \E t \in UNION tracesOut[s] : IsBetter(t) /\ Capture(t)
    /\ UNCHANGED <<synthetics, noTrace>>

TraceNext ==
    \/ \E t \in Trace : AddTrace(t)
    \/ AddSynthetics
    \/ SendNoTrace
    \/ \E s \in TraceSlots : SendTraces(s) \/ TraceAnswered(s)

TraceSpec == TraceInit /\ [][TraceNext]_traceVars

-----------------------------------------------------------------------------
\* A name's recorded time covers the trace held for it, whichever rule let it in
\* and however often the times were forgotten in between.
TimesCoverHeld == \A t \in held : t.time <= requestTimes[t.name]

\* "Ensure this name is either already in the request time map or that the map still
\* hasn't hit capacity": once the guarantee is met the map, which the guarantee may
\* have overfilled, grows no further than top_n.
TopNIsKept ==
    [][GuaranteeMet => Known' \subseteq Known \/ Cardinality(Known') <= TopN]_traceVars

\* The held trace and the recorded times agree, and what counts them is within its bounds.
SlowTracesCorrect == TraceTypeOK /\ TimesCoverHeld

\* Both, at every step of the aggregator.
SlowTracesAreKept == []SlowTracesCorrect /\ TopNIsKept
=============================================================================
