---------------------------- MODULE HarvestProofs ----------------------------
(***************************************************************************)
(* What aggregators keep between harvests: the sampler's decisions, the    *)
(* slow trace and its times, the queue of events, the metrics, the errors, *)
(* the segments of a trace and the samples of slow queries; the calls that *)
(* deliver them; and the invocations of a serverless function, which       *)
(* deliver when they end.  Each part is about one of the modules below and *)
(* has an invariant of its own.                                            *)
(***************************************************************************)
EXTENDS AdaptiveSampler, SlowTraces, EventHarvest, Metrics, RemoteMethod, ErrorCollector, SegmentTrace,
        SlowQueries, Serverless, Induction, SequenceTheorems, FiniteSetTheorems, TLAPS

(***************************************************************************)
(* The sampler.  From the moment the target is reached, the threshold is   *)
(* the one of the last adjustment and out of reach of every roll as soon   *)
(* as the aim is used up.                                                  *)
(***************************************************************************)
TargetMet == ~retarget /\ sampled >= target

SamplerNumbers ==
    /\ target \in Targets
    /\ seen \in 0 .. MaxSeen /\ sampled \in 0 .. seen
    /\ aim \in Int /\ outOf \in 0 .. MaxSeen
    /\ windows \in {0, 1}

SamplerFacts ==
    /\ SamplerNumbers
    /\ TargetMet => outOf > 0 /\ aim = AdjustedAim(sampled)
    /\ windows = 0 /\ ~retarget =>
          /\ aim = 0 /\ sampled <= target
          /\ sampled < target => outOf = 0 /\ sampled = seen
    /\ seen = 0 \/ (~retarget /\ sampled < target) => aim > 0 \/ outOf = 0
    /\ SampledIsBounded

SamplerInv == retarget \in BOOLEAN /\ SamplerFacts

\* The assumption without what it says of the back-off.
LEMMA SamplerBounds ==
    /\ \A t \in Targets : t \in Nat /\ t > 0
    /\ MaxSeen \in Nat
    /\ \A roll \in Rolls : roll \in Int /\ 100 - roll > 0
BY SamplerAssumption

\* A used-up aim is out of reach, and nothing is before the first adjustment.
LEMMA UsedUp ==
    ASSUME NEW roll \in Rolls, NEW a \in Int, NEW n \in Nat
    PROVE  /\ n = 0 => Reaches(roll, a, n)
           /\ n > 0 /\ a <= 0 => ~Reaches(roll, a, n)
<1>1. roll \in Int /\ 100 - roll > 0
  BY SamplerBounds
<1>2. \A x, y \in Int : x > 0 /\ y > 0 => x * y > 0
  OBVIOUS
<1>3. n > 0 => (100 - roll) * n > 0
  BY <1>1, <1>2
<1> DEFINE product == (100 - roll) * n
<1>4. product \in Int
  BY <1>1
<1> HIDE DEF product
<1> QED  BY <1>3, <1>4 DEF Reaches, product

LEMMA AimType ==
    ASSUME SamplerNumbers, NEW n \in 1 .. MaxSeen
    PROVE  /\ AdjustedAim(n) \in Int
           /\ n >= 2 * target => AdjustedAim(n) <= 0
BY SamplerAssumption DEF SamplerNumbers, AdjustedAim

LEMMA SamplerInitial == SamplerInit => SamplerInv
<1> SUFFICES ASSUME SamplerInit
             PROVE  SamplerInv
  OBVIOUS
<1>1. retarget \in BOOLEAN
  BY DEF SamplerInit
<1>2. SamplerFacts
  BY SamplerBounds DEF SamplerInit, SamplerFacts, SamplerNumbers, TargetMet, SampledIsBounded
<1> QED  BY <1>1, <1>2 DEF SamplerInv

LEMMA SampleStep ==
    ASSUME SamplerFacts, NEW roll \in Rolls, ShouldSample(roll)
    PROVE  SamplerFacts'
<1>1. /\ seen < MaxSeen /\ seen' = seen + 1
      /\ target' = target /\ windows' = windows /\ retarget' = retarget
  BY DEF ShouldSample
<1>2. target \in Nat /\ target > 0 /\ MaxSeen \in Nat
  BY SamplerBounds DEF SamplerFacts, SamplerNumbers
<1>3. CASE ~Reaches(roll, aim, outOf)
  <2>1. sampled' = sampled /\ aim' = aim /\ outOf' = outOf /\ outOf > 0
    BY <1>2, <1>3, UsedUp DEF ShouldSample, SamplerFacts, SamplerNumbers
  <2>2. AdjustedAim(sampled)' = AdjustedAim(sampled)
    BY <1>1, <2>1 DEF AdjustedAim
  <2> QED
    BY <1>1, <1>2, <2>1, <2>2
    DEF SamplerFacts, SamplerNumbers, TargetMet, SampledIsBounded
<1>4. CASE Reaches(roll, aim, outOf)
  <2>1. sampled' = sampled + 1 /\ sampled' \in 1 .. MaxSeen /\ sampled' <= seen'
    BY <1>1, <1>2, <1>4 DEF ShouldSample, SamplerFacts, SamplerNumbers
  <2>2. ~(outOf > 0 /\ aim <= 0)
    BY <1>2, <1>4, UsedUp DEF SamplerFacts, SamplerNumbers
  <2>3. TargetMet => sampled < 2 * target /\ windows # 0
    <3>1. SUFFICES ASSUME TargetMet
                   PROVE  sampled < 2 * target /\ windows # 0
      OBVIOUS
    <3>2. outOf > 0 /\ aim = AdjustedAim(sampled) /\ aim > 0
      BY <2>2, <3>1, <1>2 DEF SamplerFacts, SamplerNumbers
    <3>3. sampled \in 1 .. MaxSeen /\ 2 * target \in Int /\ SamplerNumbers
      BY <1>2, <3>1 DEF SamplerFacts, SamplerNumbers, TargetMet
    <3>4. ~(sampled >= 2 * target)
      BY <3>2, <3>3, AimType
    <3>5. windows # 0
      BY <3>2 DEF AdjustedAim
    <3> QED  BY <3>3, <3>4, <3>5
  <2>4. CASE sampled' >= target
    <3>1. aim' = AdjustedAim(sampled') /\ outOf' = seen' /\ aim' \in Int
      BY <1>4, <2>1, <2>4, AimType DEF ShouldSample, SamplerFacts
    <3>2. aim' = AdjustedAim(sampled)'
      BY <1>1, <3>1 DEF AdjustedAim
    <3>3. ~retarget /\ sampled < target => sampled' = target
      BY <1>2, <2>1, <2>4 DEF SamplerFacts, SamplerNumbers
    <3>4. windows = 0 => aim' = 0
      BY <3>1 DEF AdjustedAim
    <3> QED
      BY <1>1, <1>2, <2>1, <2>3, <2>4, <3>1, <3>2, <3>3, <3>4
      DEF SamplerFacts, SamplerNumbers, TargetMet, SampledIsBounded
  <2>5. CASE ~(sampled' >= target)
    <3>1. aim' = aim /\ outOf' = outOf
      BY <1>4, <2>5 DEF ShouldSample
    <3> QED
      BY <1>1, <1>2, <2>1, <2>5, <3>1
      DEF SamplerFacts, SamplerNumbers, TargetMet, SampledIsBounded
  <2> QED  BY <2>4, <2>5
<1> QED  BY <1>3, <1>4

LEMMA NextWindowStep == SamplerFacts /\ NextWindow => SamplerFacts'
<1> SUFFICES ASSUME SamplerFacts, NextWindow
             PROVE  SamplerFacts'
  OBVIOUS
<1>1. target \in Nat /\ target > 0 /\ MaxSeen \in Nat
  BY SamplerBounds DEF SamplerFacts, SamplerNumbers
<1>2. /\ target' = target /\ seen' = 0 /\ sampled' = 0 /\ windows' = 1
      /\ IF seen = 0 THEN aim' = aim /\ outOf' = outOf ELSE aim' = 100 * target /\ outOf' = seen
  BY DEF NextWindow, Readjusted
<1>3. SamplerNumbers'
  BY <1>1, <1>2 DEF SamplerFacts, SamplerNumbers
<1> QED
  BY <1>1, <1>2, <1>3 DEF SamplerFacts, SamplerNumbers, TargetMet, SampledIsBounded

LEMMA SetTargetStep == SamplerFacts /\ SetTarget => SamplerFacts'
<1> SUFFICES ASSUME SamplerFacts, NEW t \in Targets, target' = t, Readjusted(t), retarget' = TRUE,
                    UNCHANGED <<seen, sampled, windows>>
             PROVE  SamplerFacts'
  BY DEF SetTarget
<1>1. t \in Nat /\ t > 0 /\ MaxSeen \in Nat
  BY SamplerBounds
<1>2. IF seen = 0 THEN aim' = aim /\ outOf' = outOf ELSE aim' = 100 * t /\ outOf' = seen
  BY DEF Readjusted
<1>3. SamplerNumbers'
  BY <1>1, <1>2 DEF SamplerFacts, SamplerNumbers
<1> QED
  BY <1>1, <1>2, <1>3 DEF SamplerFacts, SamplerNumbers, TargetMet, SampledIsBounded

LEMMA SamplerStep == SamplerInv /\ [SamplerNext]_samplerVars => SamplerInv'
<1> SUFFICES ASSUME SamplerInv, [SamplerNext]_samplerVars
             PROVE  SamplerInv'
  OBVIOUS
<1>1. SamplerFacts
  BY DEF SamplerInv
<1>2. UNCHANGED samplerVars => SamplerFacts'
  BY <1>1
  DEF samplerVars, SamplerFacts, SamplerNumbers, TargetMet, SampledIsBounded, AdjustedAim
<1>3. SamplerFacts'
  BY <1>1, <1>2, SampleStep, NextWindowStep, SetTargetStep DEF SamplerNext
<1>4. retarget' \in BOOLEAN
  BY DEF SamplerInv, SamplerNext, samplerVars, ShouldSample, NextWindow, SetTarget
<1> QED  BY <1>3, <1>4 DEF SamplerInv

\* Every window samples what is expected of it, for any targets, rolls and back-off that is
\* used up at twice the target: the first ones in the first window, never more than twice
\* the target, and each window is open until its target is reached.
THEOREM SamplerIsCorrect == SamplerSpec => []SamplerCorrect
<1>1. SamplerInv => SamplerTypeOK
  BY DEF SamplerInv, SamplerFacts, SamplerNumbers, SamplerTypeOK
<1>2. SamplerFacts => FirstOnesAreSampled
  BY SamplerBounds DEF SamplerFacts, SamplerNumbers, FirstOnesAreSampled
<1>3. SamplerFacts => SampledIsBounded /\ WindowsAreOpen
  BY DEF SamplerFacts, WindowsAreOpen
<1>4. SamplerInv => SamplerCorrect
  BY <1>1, <1>2, <1>3 DEF SamplerCorrect, SamplerInv
<1> QED  BY <1>4, SamplerInitial, SamplerStep, PTL DEF SamplerSpec

-----------------------------------------------------------------------------
(***************************************************************************)
(* Slow traces.                                                            *)
(***************************************************************************)
TracesKept ==
    /\ held \subseteq Trace /\ Cardinality(held) <= 1
    /\ requestTimes \in [TraceNames -> {0} \cup TraceTimes]
    /\ TimesCoverHeld
    /\ IsFiniteSet(Known)

TraceCounts ==
    noTrace \in 0 .. Patience - 1 /\ reported \in 0 .. Guarantee /\ synthetics \in 0 .. MaxSynthetics

TracesSent == tracesOut \in [TraceSlots -> SUBSET SUBSET Trace]

TraceInv == TracesKept /\ TraceCounts /\ TracesSent

\* What is captured is a trace, its name's time covers it, and no other name becomes known.
LEMMA Captured ==
    ASSUME TracesKept, NEW t \in Trace, Capture(t)
    PROVE  /\ held' = {t} /\ Cardinality(held') = 1
           /\ requestTimes' \in [TraceNames -> {0} \cup TraceTimes]
           /\ t.time <= requestTimes'[t.name]
           /\ Known' = Known \cup {t.name}
<1>1. t.name \in TraceNames /\ t.time \in TraceTimes /\ TraceTimes \subseteq Nat \ {0}
  BY SlowTracesAssumption DEF Trace
<1>2. held' = {t} /\ Cardinality(held') = 1
  BY FS_Singleton DEF Capture
<1>3. requestTimes \in [TraceNames -> {0} \cup TraceTimes]
  BY DEF TracesKept
<1>4. requestTimes' = [requestTimes EXCEPT ![t.name] = IF @ < t.time THEN t.time ELSE @]
  BY DEF Capture
<1>5. requestTimes' \in [TraceNames -> {0} \cup TraceTimes]
  BY <1>1, <1>3, <1>4
<1>6. t.time <= requestTimes'[t.name] /\ requestTimes'[t.name] > 0
  <2> DEFINE old == requestTimes[t.name]
  <2>1. old \in {0} \cup TraceTimes /\ t.time \in Nat \ {0}
    BY <1>1, <1>3
  <2> HIDE DEF old
  <2>3. old \in Nat
    BY <1>1, <2>1
  <2>2. requestTimes'[t.name] = IF old < t.time THEN t.time ELSE old
    BY <1>1, <1>3, <1>4 DEF old
  <2> QED  BY <2>1, <2>2, <2>3
<1>7. \A n \in TraceNames \ {t.name} : requestTimes'[n] = requestTimes[n]
  BY <1>3, <1>4
<1>8. Known' = Known \cup {t.name}
  BY <1>1, <1>6, <1>7 DEF Known
<1> QED  BY <1>2, <1>5, <1>6, <1>8

\* What a step does to the trace held and to the times.
LEMMA KeptOrCaptured ==
    ASSUME TraceInv, [TraceNext]_traceVars
    PROVE  \/ UNCHANGED <<held, requestTimes>>
           \/ held' = {} /\ (UNCHANGED requestTimes \/ requestTimes' = [n \in TraceNames |-> 0])
           \/ \E t \in Trace : IsBetter(t) /\ Capture(t)
<1>1. ASSUME NEW s \in TraceSlots, TraceAnswered(s), ~UNCHANGED <<held, requestTimes>>
      PROVE  \E t \in Trace : IsBetter(t) /\ Capture(t)
  BY <1>1 DEF TraceAnswered, TraceInv, TracesSent
<1>2. GetTraces => UNCHANGED requestTimes \/ requestTimes' = [n \in TraceNames |-> 0]
  BY DEF GetTraces, Forget
<1> QED
  BY <1>1, <1>2
  DEF TraceNext, AddTrace, AddSynthetics, SendTraces, SendNoTrace, TraceAnswered, traceVars

\* The names that are known: that of a slow trace is added, or all are forgotten.
LEMMA KnownGrows ==
    ASSUME TraceInv, [TraceNext]_traceVars
    PROVE  Known' \subseteq Known \/ \E t \in Trace : IsBetter(t) /\ Capture(t)
BY KeptOrCaptured DEF Known

LEMMA TraceInitial == TraceInit => TraceInv
<1> SUFFICES ASSUME TraceInit
             PROVE  TraceInv
  OBVIOUS
<1>1. Known = {}
  BY DEF TraceInit, Known
<1>2. TracesKept
  BY <1>1, FS_EmptySet DEF TraceInit, TracesKept, TimesCoverHeld
<1> QED
  BY <1>2, SlowTracesAssumption DEF TraceInit, TraceInv, TraceCounts, TracesSent

LEMMA TracesKeptStep == TraceInv /\ [TraceNext]_traceVars => TracesKept'
<1> SUFFICES ASSUME TraceInv, [TraceNext]_traceVars
             PROVE  TracesKept'
  OBVIOUS
<1>1. TracesKept
  BY DEF TraceInv
<1>2. CASE UNCHANGED <<held, requestTimes>>
  BY <1>1, <1>2 DEF TracesKept, TimesCoverHeld, Known
<1>3. CASE held' = {} /\ (UNCHANGED requestTimes \/ requestTimes' = [n \in TraceNames |-> 0])
  <2>1. Known' \subseteq Known
    BY <1>3 DEF Known
  <2>2. IsFiniteSet(Known')
    BY <1>1, <2>1, FS_Subset DEF TracesKept
  <2> QED  BY <1>1, <1>3, <2>2, FS_EmptySet DEF TracesKept, TimesCoverHeld
<1>4. CASE \E t \in Trace : IsBetter(t) /\ Capture(t)
  <2>1. PICK t \in Trace : Capture(t)
    BY <1>4
  <2>2. /\ held' = {t} /\ Cardinality(held') = 1
        /\ requestTimes' \in [TraceNames -> {0} \cup TraceTimes]
        /\ t.time <= requestTimes'[t.name]
        /\ Known' = Known \cup {t.name}
    BY <1>1, <2>1, Captured
  <2>3. IsFiniteSet(Known')
    BY <1>1, <2>2, FS_AddElement DEF TracesKept
  <2> QED  BY <2>2, <2>3 DEF TracesKept, TimesCoverHeld
<1> QED  BY <1>2, <1>3, <1>4, KeptOrCaptured

LEMMA TraceCountsStep == TraceCounts /\ [TraceNext]_traceVars => TraceCounts'
<1> SUFFICES ASSUME TraceCounts, [TraceNext]_traceVars
             PROVE  TraceCounts'
  OBVIOUS
<1> USE SlowTracesAssumption DEF TraceCounts
<1>1. GetTraces => noTrace' \in 0 .. Patience - 1
  BY DEF GetTraces, Forget
<1>2. AddSynthetics => TraceCounts'
  BY DEF AddSynthetics
<1>3. ASSUME NEW s \in TraceSlots
      PROVE  SendTraces(s) \/ TraceAnswered(s) => TraceCounts'
  BY <1>1 DEF SendTraces, TraceAnswered, GuaranteeMet
<1>4. SendNoTrace => TraceCounts'
  BY <1>1 DEF SendNoTrace
<1> QED  BY <1>2, <1>3, <1>4 DEF TraceNext, AddTrace, traceVars

LEMMA TracesSentStep == TraceInv /\ [TraceNext]_traceVars => TracesSent'
<1> SUFFICES ASSUME TraceInv, [TraceNext]_traceVars
             PROVE  TracesSent'
  OBVIOUS
<1> USE DEF TraceInv, TracesSent
<1>1. ASSUME NEW s \in TraceSlots
      PROVE  SendTraces(s) \/ TraceAnswered(s) => TracesSent'
  BY DEF SendTraces, TraceAnswered, TracesKept
<1> QED  BY <1>1 DEF TraceNext, AddTrace, AddSynthetics, SendNoTrace, traceVars

LEMMA TraceStep == TraceInv /\ [TraceNext]_traceVars => TraceInv'
BY TracesKeptStep, TraceCountsStep, TracesSentStep DEF TraceInv

LEMMA TraceInvariant == TraceSpec => []TraceInv
BY TraceInitial, TraceStep, PTL DEF TraceSpec

\* A name's recorded time covers the trace held for it, and the counts that decide on it stay
\* within their limits, for any limits and thresholds.
THEOREM SlowTracesAreCorrect == TraceSpec => []SlowTracesCorrect
<1>1. TraceInv => SlowTracesCorrect
  BY DEF TraceInv, TracesKept, TraceCounts, TracesSent, SlowTracesCorrect, TraceTypeOK
<1> QED  BY <1>1, TraceInvariant, PTL

\* Once the guarantee is met no step takes the known names past top_n.
THEOREM TopNIsKeptCorrect == TraceSpec => TopNIsKept
<1> DEFINE kept == GuaranteeMet => Known' \subseteq Known \/ Cardinality(Known') <= TopN
<1>1. TraceInv /\ [TraceNext]_traceVars => kept
  <2> SUFFICES ASSUME TraceInv, [TraceNext]_traceVars, GuaranteeMet,
                      NEW t \in Trace, IsBetter(t), Capture(t)
               PROVE  Known' \subseteq Known \/ Cardinality(Known') <= TopN
    BY KnownGrows
  <2>1. t.name \in Known \/ Cardinality(Known) < TopN
    BY DEF IsBetter
  <2>2. Cardinality(Known) \in Nat
    BY FS_CardinalityType DEF TraceInv, TracesKept
  <2>3. Known' = Known \cup {t.name} /\ IsFiniteSet(Known)
    BY Captured DEF TraceInv, TracesKept
  <2>4. Cardinality(Known') = IF t.name \in Known THEN Cardinality(Known) ELSE Cardinality(Known) + 1
    BY <2>3, FS_AddElement
  <2>5. TopN \in Nat
    BY SlowTracesAssumption
  <2>6. CASE t.name \in Known
    BY <2>3, <2>6
  <2>7. CASE t.name \notin Known
    BY <2>1, <2>2, <2>4, <2>5, <2>7
  <2> QED  BY <2>6, <2>7
<1>2. TraceInv /\ [TraceNext]_traceVars => [kept]_traceVars
  BY <1>1
<1> QED  BY <1>2, TraceInvariant, PTL DEF TraceSpec, TopNIsKept

\* What the aggregator of slow traces keeps, and how it comes to keep more.
THEOREM KeepingSlowTraces == TraceSpec => SlowTracesAreKept
BY SlowTracesAreCorrect, TopNIsKeptCorrect DEF SlowTracesAreKept
-----------------------------------------------------------------------------
(***************************************************************************)
(* Events.  A queue that lost an event is full, so whatever it takes in    *)
(* later outranks something it held; and until a limit changes, what it    *)
(* holds is as much as it saw, up to its limit.                            *)
(***************************************************************************)
HistoryType ==
    history \in [recorded : 0 .. MaxEvents, gone : SUBSET Event, lost : SUBSET Event,
                 early : Nat, attempted : Nat, resized : BOOLEAN]

QueueInv ==
    /\ queue \in Queue /\ IsFiniteSet(queue.items)
    /\ QueueBounded
    /\ history.lost # {} => Cardinality(queue.items) = queue.limit
    /\ BestAreKept

Carried(b) == b.items \cup b.rest

\* NoEventTwice, event by event.
OnePlaceOnly ==
    /\ \A b \in batches : \A e \in Carried(b) : e \notin queue.items /\ e \notin history.gone
    /\ \A b \in batches : \A e \in b.items : e \notin b.rest
    /\ \A b, c \in batches : b # c => \A e \in Carried(b) : e \notin Carried(c)
    /\ \A e \in queue.items : e \notin history.gone

BatchesInv ==
    /\ batches \subseteq [items : SUBSET Event, rest : SUBSET Event]
    /\ \A b \in batches : IsFiniteSet(b.items) /\ IsFiniteSet(b.rest)
    /\ \A e \in queue.items \cup history.gone : e.id <= history.recorded
    /\ \A b \in batches : \A e \in Carried(b) : e.id <= history.recorded
    /\ OnePlaceOnly

CountsInv ==
    /\ aggLimit \in Nat
    /\ counted \in [seen : Nat, sent : Int, dropped : Int]
    /\ counted.seen = counted.sent + counted.dropped + history.early
    /\ ~history.resized =>
          /\ aggLimit = queue.limit
          /\ Cardinality(queue.items) = Lower(queue.seen, queue.limit)
          /\ counted.sent = history.attempted + Cardinality(queue.items)

EventInv == HistoryType /\ QueueInv /\ BatchesInv /\ CountsInv

LEMMA EventFields ==
    /\ \A e \in Event : e.id \in Nat /\ e.priority \in Nat
    /\ \A q \in Queue : q.limit \in Nat /\ q.seen \in Nat /\ q.items \subseteq Event
<1>1. \A i \in 1 .. MaxEvents : i \in Nat
  BY EventAssumption
<1>2. \A p \in Priorities : p \in Nat
  BY EventAssumption
<1> QED  BY <1>1, <1>2 DEF Event, Queue

\* What adding one event leads to: it is refused, it replaces a least one, or there is room.
LEMMA AddedOne ==
    ASSUME NEW q \in Queue, IsFiniteSet(q.items), Cardinality(q.items) <= q.limit,
           NEW e \in Event, e \notin q.items, NEW r \in Added(q, e)
    PROVE  /\ r \in Queue /\ r.limit = q.limit /\ r.seen = q.seen + 1
           /\ \/ /\ r.items = q.items /\ Cardinality(q.items) = q.limit
                 /\ \A k \in q.items : e.priority <= k.priority
              \/ \E m \in q.items :
                    /\ r.items = (q.items \cup {e}) \ {m}
                    /\ Cardinality(q.items) = q.limit /\ Cardinality(r.items) = q.limit
                    /\ IsFiniteSet(r.items)
                    /\ m.priority < e.priority /\ \A k \in q.items : m.priority <= k.priority
              \/ /\ r.items = q.items \cup {e} /\ Cardinality(q.items) < q.limit
                 /\ IsFiniteSet(r.items) /\ Cardinality(r.items) = Cardinality(q.items) + 1
<1> DEFINE onlySeen == [q EXCEPT !.seen = @ + 1]
           full == Cardinality(q.items) = q.limit
           refused == q.limit = 0 \/ (full /\ \E m \in Least(q.items) : e.priority <= m.priority)
<1>1. /\ onlySeen \in Queue /\ onlySeen.limit = q.limit /\ onlySeen.seen = q.seen + 1 /\ onlySeen.items = q.items
      /\ q.items \subseteq Event
  BY DEF Queue
<1>2. Cardinality(q.items) \in Nat /\ q.limit \in Nat
  BY FS_CardinalityType, EventFields
<1>3. \A S \in SUBSET Event : LET x == [onlySeen EXCEPT !.items = S]
        IN x \in Queue /\ x.limit = q.limit /\ x.seen = q.seen + 1 /\ x.items = S
  BY <1>1 DEF Queue
<1>4. Cardinality(q.items \cup {e}) = Cardinality(q.items) + 1 /\ IsFiniteSet(q.items \cup {e})
  BY FS_AddElement
<1>5. /\ refused => r = onlySeen
      /\ ~refused /\ full => \E m \in Least(q.items) : r = [onlySeen EXCEPT !.items = (q.items \cup {e}) \ {m}]
      /\ ~refused /\ ~full => r = [onlySeen EXCEPT !.items = q.items \cup {e}]
  BY <1>1 DEF Added
<1> HIDE DEF onlySeen
<1>6. CASE refused
  <2>1. r = onlySeen
    BY <1>5, <1>6
  <2>2. CASE q.limit = 0
    <3>1. Cardinality(q.items) = 0
      BY <1>2, <2>2
    <3>2. q.items = {}
      BY <3>1, FS_EmptySet
    <3> QED  BY <1>1, <2>1, <2>2, <3>1, <3>2
  <2>3. CASE full /\ \E m \in Least(q.items) : e.priority <= m.priority
    BY <1>1, <2>1, <2>3, EventFields DEF Least
  <2> QED  BY <1>6, <2>2, <2>3
<1>7. CASE ~refused /\ full
  <2>1. PICK m \in Least(q.items) : r = [onlySeen EXCEPT !.items = (q.items \cup {e}) \ {m}]
    BY <1>5, <1>7
  <2>2. m \in q.items /\ m.priority < e.priority /\ \A k \in q.items : m.priority <= k.priority
    BY <1>1, <1>7, EventFields DEF Least
  <2>3. r \in Queue /\ r.limit = q.limit /\ r.seen = q.seen + 1 /\ r.items = (q.items \cup {e}) \ {m}
    BY <1>1, <1>3, <2>1
  <2>4. IsFiniteSet(r.items) /\ Cardinality(r.items) = Cardinality(q.items \cup {e}) - 1
    <3> DEFINE both == q.items \cup {e}
    <3>1. m \in both /\ r.items = both \ {m} /\ IsFiniteSet(both)
      BY <1>4, <2>2, <2>3
    <3> HIDE DEF both
    <3>2. IsFiniteSet(both \ {m}) /\ Cardinality(both \ {m}) = Cardinality(both) - 1
      BY <3>1, FS_RemoveElement
    <3> QED  BY <3>1, <3>2 DEF both
  <2>5. Cardinality(r.items) = q.limit /\ Cardinality(q.items) = q.limit
    BY <1>2, <1>4, <1>7, <2>4
  <2> QED  BY <2>2, <2>3, <2>4, <2>5
<1>8. CASE ~refused /\ ~full
  <2>1. r = [onlySeen EXCEPT !.items = q.items \cup {e}]
    BY <1>5, <1>8
  <2>2. r \in Queue /\ r.limit = q.limit /\ r.seen = q.seen + 1 /\ r.items = q.items \cup {e}
    BY <1>1, <1>3, <2>1
  <2>3. Cardinality(q.items) < q.limit
    BY <1>2, <1>8
  <2> QED  BY <1>4, <2>2, <2>3
<1> QED  BY <1>6, <1>7, <1>8

\* The best n of a set are n of it or all of it, and outrank the rest.
LEMMA BestOf ==
    ASSUME NEW S, IsFiniteSet(S), NEW n \in Nat, NEW K \in Best(n, S)
    PROVE  /\ K \subseteq S /\ IsFiniteSet(K)
           /\ Cardinality(K) = Lower(Cardinality(S), n)
           /\ Cardinality(K) <= n
           /\ K # S => Cardinality(K) = n
           /\ \A k \in K, e \in S \ K : e.priority <= k.priority
<1>1. /\ K \subseteq S
      /\ Cardinality(K) = Lower(Cardinality(S), n)
      /\ \A k \in K, e \in S \ K : e.priority <= k.priority
  BY DEF Best, Lower
<1>2. IsFiniteSet(K) /\ (Cardinality(S) = Cardinality(K) => S = K) /\ Cardinality(S) \in Nat
  BY <1>1, FS_Subset, FS_CardinalityType
<1> QED  BY <1>1, <1>2 DEF Lower

\* What a merge leads to.
LEMMA MergedBest ==
    ASSUME NEW q \in Queue, IsFiniteSet(q.items), NEW S \in SUBSET Event, IsFiniteSet(S),
           NEW r \in Merged(q, S)
    PROVE  /\ r \in Queue /\ r.limit = q.limit /\ r.seen = q.seen + Cardinality(S)
           /\ r.items \in Best(q.limit, q.items \cup S)
           /\ IsFiniteSet(q.items \cup S)
<1>1. PICK K \in Best(q.limit, q.items \cup S) :
         r = [q EXCEPT !.seen = @ + Cardinality(S), !.items = K]
  BY DEF Merged
<1>2. Cardinality(S) \in Nat /\ IsFiniteSet(q.items \cup S)
  BY FS_CardinalityType, FS_Union
<1>3. K \in SUBSET Event
  BY DEF Best, Queue
<1> DEFINE total == q.seen + Cardinality(S)
<1>4. total \in Nat
  BY <1>2, EventFields
<1>5. r = [q EXCEPT !.seen = total, !.items = K]
  BY <1>1
<1> HIDE DEF total
<1>6. r \in Queue /\ r.limit = q.limit /\ r.seen = total /\ r.items = K
  BY <1>3, <1>4, <1>5 DEF Queue
<1> QED  BY <1>2, <1>6 DEF total

-----------------------------------------------------------------------------
\* What each action does to the history, field by field.
LEMMA AddEffect ==
    ASSUME HistoryType, queue.items \subseteq Event, Add
    PROVE  \E e \in Event : \E q \in Added(queue, e) :
              /\ e.id = history.recorded + 1
              /\ queue' = q /\ counted' = CountedAdd(e \in q.items, q)
              /\ HistoryType' /\ history'.recorded = history.recorded + 1
              /\ history'.lost = history.lost \cup ((queue.items \cup {e}) \ q.items)
              /\ history'.gone = history.gone /\ history'.early = history.early
              /\ history'.attempted = history.attempted /\ history'.resized = history.resized
<1> DEFINE next == history.recorded + 1
<1>1. next \in 1 .. MaxEvents
  BY EventAssumption DEF HistoryType, Add
<1>2. PICK p \in Priorities : \E q \in Added(queue, [id |-> next, priority |-> p]) :
        /\ queue' = q
        /\ counted' = CountedAdd([id |-> next, priority |-> p] \in q.items, q)
        /\ history' = [history EXCEPT
                !.recorded = @ + 1,
                !.lost = @ \cup ((queue.items \cup {[id |-> next, priority |-> p]}) \ q.items)]
  BY DEF Add
<1> DEFINE e == [id |-> next, priority |-> p]
<1>3. e \in Event /\ e.id = next
  BY <1>1 DEF Event
<1>4. PICK q \in Added(queue, e) :
        /\ queue' = q /\ counted' = CountedAdd(e \in q.items, q)
        /\ history' = [history EXCEPT !.recorded = @ + 1,
                                      !.lost = @ \cup ((queue.items \cup {e}) \ q.items)]
  BY <1>2
<1> HIDE DEF e
<1> DEFINE more == history.lost \cup ((queue.items \cup {e}) \ q.items)
<1>5. more \in SUBSET Event
  BY <1>3 DEF HistoryType
<1>6. history' = [history EXCEPT !.recorded = next, !.lost = more]
  BY <1>4
<1> HIDE DEF more
<1>7. /\ HistoryType' /\ history'.recorded = next /\ history'.lost = more
      /\ history'.gone = history.gone /\ history'.early = history.early
      /\ history'.attempted = history.attempted /\ history'.resized = history.resized
  <2> HIDE DEF next
  <2>1. next \in 0 .. MaxEvents
    BY <1>1
  <2> QED  BY <2>1, <1>5, <1>6 DEF HistoryType
<1> QED  BY <1>3, <1>4, <1>7 DEF more

LEMMA AddSegmentEffect ==
    ASSUME HistoryType, queue \in Queue, AddSegment
    PROVE  /\ queue' \in Queue /\ queue'.limit = queue.limit /\ queue'.items = queue.items
           /\ queue'.seen = queue.seen + 1 /\ Cardinality(queue.items) = queue.limit
           /\ HistoryType' /\ history'.recorded = history.recorded + 1
           /\ history'.lost = history.lost /\ history'.gone = history.gone
           /\ history'.early = history.early + 1
           /\ history'.attempted = history.attempted /\ history'.resized = history.resized
<1> DEFINE next == history.recorded + 1
           more == history.early + 1
<1>1. next \in 0 .. MaxEvents /\ more \in Nat
  BY EventAssumption DEF HistoryType, AddSegment
<1>2. history' = [history EXCEPT !.recorded = next, !.early = more]
  BY DEF AddSegment
<1> HIDE DEF next, more
<1>3. /\ HistoryType' /\ history'.recorded = next
      /\ history'.lost = history.lost /\ history'.gone = history.gone /\ history'.early = more
      /\ history'.attempted = history.attempted /\ history'.resized = history.resized
  BY <1>1, <1>2 DEF HistoryType
<1> QED  BY <1>3 DEF AddSegment, Queue, next, more

\* A send, of events or of none, empties the queue.
LEMMA SendEffect ==
    ASSUME HistoryType, queue \in Queue, IsFiniteSet(queue.items), Send \/ SendNothing
    PROVE  /\ queue' \in Queue /\ queue'.limit = queue.limit /\ queue'.items = {} /\ queue'.seen = 0
           /\ HistoryType' /\ history'.recorded = history.recorded /\ history'.lost = {}
           /\ history'.gone = history.gone /\ history'.early = history.early
           /\ history'.resized = history.resized
           /\ history'.attempted = history.attempted + Cardinality(queue.items)
<1>1. queue' = EmptyQueue(queue.limit)
  BY DEF Send, SendNothing, Cleared
<1>2. Cardinality(queue.items) \in Nat /\ (queue.items = {} => Cardinality(queue.items) = 0)
  BY FS_CardinalityType, FS_EmptySet
<1> DEFINE more == history.attempted + Cardinality(queue.items)
<1>3. more \in Nat /\ (queue.items = {} => more = history.attempted)
  BY <1>2 DEF HistoryType
<1>4. history' = [history EXCEPT !.attempted = more, !.lost = {}]
  <2>1. Send => history' = [history EXCEPT !.attempted = more, !.lost = {}]
    BY DEF Send
  <2>2. SendNothing => history' = [history EXCEPT !.attempted = more, !.lost = {}]
    <3> HIDE DEF more
    <3> QED  BY <1>3 DEF SendNothing, HistoryType
  <2> QED  BY <2>1, <2>2
<1> HIDE DEF more
<1>5. /\ history'.recorded = history.recorded /\ history'.lost = {}
      /\ history'.gone = history.gone /\ history'.early = history.early
      /\ history'.resized = history.resized /\ history'.attempted = more
      /\ HistoryType'
  BY <1>3, <1>4 DEF HistoryType
<1> QED  BY <1>1, <1>5 DEF EmptyQueue, Queue, more

LEMMA RetainedEffect ==
    ASSUME HistoryType, queue.items \subseteq Event, NEW b \in batches, b.items \subseteq Event, Retained(b)
    PROVE  /\ queue' \in Merged(queue, b.items) /\ counted' = CountedMerge(b.items, queue')
           /\ HistoryType' /\ history'.recorded = history.recorded
           /\ history'.lost = history.lost \cup ((queue.items \cup b.items) \ queue'.items)
           /\ history'.gone = history.gone /\ history'.early = history.early
           /\ history'.attempted = history.attempted /\ history'.resized = history.resized
<1> DEFINE more == history.lost \cup ((queue.items \cup b.items) \ queue'.items)
<1>1. /\ queue' \in Merged(queue, b.items) /\ counted' = CountedMerge(b.items, queue')
      /\ history' = [history EXCEPT !.lost = more]
  BY DEF Retained
<1>2. more \in SUBSET Event
  BY DEF HistoryType
<1> HIDE DEF more
<1>3. /\ HistoryType' /\ history'.recorded = history.recorded /\ history'.lost = more
      /\ history'.gone = history.gone /\ history'.early = history.early
      /\ history'.attempted = history.attempted /\ history'.resized = history.resized
  BY <1>1, <1>2 DEF HistoryType
<1> QED  BY <1>1, <1>3 DEF more

LEMMA SettledEffect ==
    ASSUME HistoryType, NEW b \in batches, b.items \subseteq Event, Settled(b)
    PROVE  /\ HistoryType' /\ history'.recorded = history.recorded /\ history'.lost = history.lost
           /\ history'.gone = history.gone \cup b.items /\ history'.early = history.early
           /\ history'.attempted = history.attempted /\ history'.resized = history.resized
<1>1. history' = [history EXCEPT !.gone = @ \cup b.items]
  BY DEF Settled
<1> QED  BY <1>1 DEF HistoryType

LEMMA ReconfigureEffect ==
    ASSUME HistoryType, queue \in Queue, IsFiniteSet(queue.items), Reconfigure
    PROVE  /\ queue' \in Queue /\ IsFiniteSet(queue'.items) /\ queue'.items \subseteq queue.items
           /\ queue' = queue \/ Cardinality(queue'.items) <= queue'.limit
           /\ aggLimit' \in Nat
           /\ HistoryType' /\ history'.recorded = history.recorded /\ history'.lost = {}
           /\ history'.gone = history.gone /\ history'.early = history.early
           /\ history'.resized
<1>1. history' = [history EXCEPT !.lost = {}, !.resized = TRUE]
  BY DEF Reconfigure
<1>2. /\ HistoryType' /\ history'.recorded = history.recorded /\ history'.lost = {}
      /\ history'.gone = history.gone /\ history'.early = history.early
      /\ history'.resized
  BY <1>1 DEF HistoryType
<1>3. ASSUME NEW limit \in Limits, queue' \in Resized(queue, limit)
      PROVE  /\ queue' \in Queue /\ IsFiniteSet(queue'.items) /\ queue'.items \subseteq queue.items
             /\ Cardinality(queue'.items) <= queue'.limit
  <2>1. limit \in Nat
    BY EventAssumption
  <2>2. PICK K \in Best(limit, queue.items) : queue' = [queue EXCEPT !.limit = limit, !.items = K]
    BY <1>3 DEF Resized
  <2>3. K \subseteq queue.items /\ IsFiniteSet(K) /\ Cardinality(K) <= limit
    BY <2>1, BestOf
  <2> QED  BY <2>1, <2>2, <2>3 DEF Queue
<1>4. aggLimit' \in Nat
  BY EventAssumption DEF Reconfigure
<1> QED  BY <1>2, <1>3, <1>4 DEF Reconfigure

-----------------------------------------------------------------------------
\* An event that is recorded is nowhere yet.
LEMMA IsNew ==
    ASSUME HistoryType, BatchesInv, NEW e \in Event, e.id = history.recorded + 1
    PROVE  /\ e \notin queue.items /\ e \notin history.gone
           /\ \A b \in batches : e \notin Carried(b)
<1>1. history.recorded \in Int
  BY DEF HistoryType
<1> QED  BY <1>1 DEF BatchesInv

LEMMA QueueParts ==
    ASSUME QueueInv
    PROVE  /\ queue \in Queue /\ IsFiniteSet(queue.items) /\ queue.items \subseteq Event
           /\ Cardinality(queue.items) \in Nat /\ queue.limit \in Nat /\ queue.seen \in Nat
           /\ Cardinality(queue.items) <= queue.limit
BY EventFields, FS_CardinalityType DEF QueueInv, QueueBounded

LEMMA QueueAdd == EventInv /\ Add => QueueInv'
<1> SUFFICES ASSUME EventInv, Add
             PROVE  QueueInv'
  OBVIOUS
<1> USE DEF EventInv
<1> DEFINE effect(e, q) ==
              /\ e.id = history.recorded + 1 /\ queue' = q
              /\ history'.lost = history.lost \cup ((queue.items \cup {e}) \ q.items)
<1>0. PICK e \in Event : \E q \in Added(queue, e) : effect(e, q)
  BY QueueParts, AddEffect
<1>1. PICK q \in Added(queue, e) : effect(e, q)
  BY <1>0
<1>2. e \notin queue.items
  BY <1>1, IsNew
<1>3. /\ q \in Queue /\ q.limit = queue.limit /\ IsFiniteSet(queue.items)
      /\ \/ /\ q.items = queue.items /\ Cardinality(queue.items) = queue.limit
            /\ \A k \in queue.items : e.priority <= k.priority
         \/ \E m \in queue.items :
               /\ q.items = (queue.items \cup {e}) \ {m}
               /\ Cardinality(queue.items) = queue.limit /\ Cardinality(q.items) = queue.limit
               /\ IsFiniteSet(q.items)
               /\ m.priority < e.priority /\ \A k \in queue.items : m.priority <= k.priority
         \/ /\ q.items = queue.items \cup {e} /\ Cardinality(queue.items) < queue.limit
            /\ IsFiniteSet(q.items) /\ Cardinality(q.items) = Cardinality(queue.items) + 1
  BY <1>2, AddedOne, QueueParts
<1>4. /\ Cardinality(queue.items) \in Nat /\ queue.limit \in Nat
      /\ \A x, k \in Event : x.priority \in Nat
      /\ history.lost \subseteq Event /\ queue.items \subseteq Event
  BY QueueParts, EventFields DEF HistoryType
<1>5. /\ history.lost # {} => Cardinality(queue.items) = queue.limit
      /\ \A x \in history.lost, k \in queue.items : x.priority <= k.priority
  BY DEF QueueInv, BestAreKept
<1>6. CASE /\ q.items = queue.items /\ Cardinality(queue.items) = queue.limit
           /\ \A k \in queue.items : e.priority <= k.priority
  BY <1>1, <1>3, <1>4, <1>5, <1>6 DEF QueueInv, QueueBounded, BestAreKept
<1>7. ASSUME NEW m \in queue.items,
             q.items = (queue.items \cup {e}) \ {m},
             Cardinality(queue.items) = queue.limit, Cardinality(q.items) = queue.limit,
             IsFiniteSet(q.items),
             m.priority < e.priority, \A k \in queue.items : m.priority <= k.priority
      PROVE  QueueInv'
  <2>1. history'.lost = history.lost \cup {m}
    BY <1>1, <1>2, <1>7
  <2>2. \A x \in history'.lost, k \in q.items : x.priority <= k.priority
    <3> SUFFICES ASSUME NEW x \in history'.lost, NEW k \in q.items
                 PROVE  x.priority <= k.priority
      OBVIOUS
    <3>1. x \in Event /\ m \in Event /\ x.priority \in Nat /\ m.priority \in Nat /\ e.priority \in Nat
      BY <2>1, <1>4, EventFields
    <3>2. x.priority <= m.priority
      BY <1>5, <2>1, <3>1
    <3>3. k \in queue.items \/ k = e
      BY <1>7
    <3>4. k \in queue.items => m.priority <= k.priority /\ k.priority \in Nat
      BY <1>4, <1>7
    <3> QED  BY <1>7, <3>1, <3>2, <3>3, <3>4
  <2> QED  BY <1>1, <1>3, <1>4, <1>7, <2>2 DEF QueueInv, QueueBounded, BestAreKept
<1>8. CASE /\ q.items = queue.items \cup {e} /\ Cardinality(queue.items) < queue.limit
           /\ IsFiniteSet(q.items) /\ Cardinality(q.items) = Cardinality(queue.items) + 1
  <2>1. history'.lost = {}
    BY <1>1, <1>4, <1>5, <1>8
  <2>2. Cardinality(q.items) <= q.limit
    BY <1>3, <1>4, <1>8
  <2> QED  BY <1>1, <1>3, <1>8, <2>1, <2>2 DEF QueueInv, QueueBounded, BestAreKept
<1> QED  BY <1>3, <1>6, <1>7, <1>8

\* What a merge leaves out is outranked by everything that stays.
LEMMA QueueRetained ==
    ASSUME EventInv, NEW b \in batches, Retained(b)
    PROVE  QueueInv'
<1> USE DEF EventInv
<1> DEFINE both == queue.items \cup b.items
<1>1. b.items \in SUBSET Event /\ IsFiniteSet(b.items)
  BY DEF BatchesInv
<1>2. /\ queue' \in Merged(queue, b.items)
      /\ history'.lost = history.lost \cup (both \ queue'.items)
  BY <1>1, QueueParts, RetainedEffect
<1>3. /\ queue' \in Queue /\ queue'.limit = queue.limit
      /\ queue'.items \in Best(queue.limit, both) /\ IsFiniteSet(both)
  BY <1>1, <1>2, QueueParts, MergedBest
<1>4. queue.limit \in Nat /\ Cardinality(queue.items) \in Nat
  BY QueueParts
<1>5. /\ queue'.items \subseteq both /\ IsFiniteSet(queue'.items)
      /\ Cardinality(queue'.items) = Lower(Cardinality(both), queue.limit)
      /\ Cardinality(queue'.items) <= queue.limit
      /\ queue'.items # both => Cardinality(queue'.items) = queue.limit
      /\ \A k \in queue'.items, x \in both \ queue'.items : x.priority <= k.priority
  BY <1>3, <1>4, BestOf
<1>6. queue.items \subseteq both /\ both \subseteq Event /\ history.lost \subseteq Event
  BY <1>1, QueueParts DEF HistoryType
<1>7. /\ history.lost # {} => Cardinality(queue.items) = queue.limit
      /\ \A x \in history.lost, k \in queue.items : x.priority <= k.priority
  BY DEF QueueInv, BestAreKept
<1> HIDE DEF both
<1>8. history.lost # {} => Cardinality(queue'.items) = queue.limit
  <2> SUFFICES ASSUME history.lost # {}
               PROVE  Cardinality(queue'.items) = queue.limit
    OBVIOUS
  <2>1. Cardinality(queue.items) = queue.limit
    BY <1>7
  <2>2. Cardinality(queue.items) <= Cardinality(both) /\ Cardinality(both) \in Nat
    BY <1>3, <1>6, FS_Subset, FS_CardinalityType
  <2> QED  BY <1>4, <1>5, <2>1, <2>2 DEF Lower
<1>9. history'.lost # {} => Cardinality(queue'.items) = queue'.limit
  BY <1>2, <1>3, <1>5, <1>8
<1>10. ASSUME NEW x \in history.lost, NEW k \in queue'.items
       PROVE  x.priority <= k.priority
  <2>1. CASE k \in queue.items
    BY <1>7, <2>1
  <2>2. CASE k \notin queue.items
    <3>1. Cardinality(queue'.items) = queue.limit /\ Cardinality(queue.items) = queue.limit
      BY <1>7, <1>8
    <3>2. ~(queue.items \subseteq queue'.items)
      BY <1>5, <2>2, <3>1, FS_Subset
    <3>3. PICK i \in queue.items : i \notin queue'.items
      BY <3>2
    <3>4. x.priority <= i.priority /\ i.priority <= k.priority
      BY <1>5, <1>6, <1>7, <3>3
    <3>5. x.priority \in Nat /\ i.priority \in Nat /\ k.priority \in Nat
      BY <1>5, <1>6, <3>3, EventFields
    <3> QED  BY <3>4, <3>5
  <2> QED  BY <2>1, <2>2
<1>11. \A x \in history'.lost, k \in queue'.items : x.priority <= k.priority
  BY <1>2, <1>5, <1>10
<1> QED  BY <1>3, <1>5, <1>9, <1>11 DEF QueueInv, QueueBounded, BestAreKept

LEMMA QueueStep == EventInv /\ [EventNext]_eventVars => QueueInv'
<1> SUFFICES ASSUME EventInv, [EventNext]_eventVars
             PROVE  QueueInv'
  OBVIOUS
<1> USE DEF EventInv
<1>1. CASE AddSegment
  BY <1>1, AddSegmentEffect DEF QueueInv, QueueBounded, BestAreKept
<1>2. CASE Send \/ SendNothing
  <2>1. queue' \in Queue /\ queue'.items = {} /\ history'.lost = {}
    BY <1>2, QueueParts, SendEffect
  <2>2. 0 <= queue'.limit
    BY <2>1, EventFields
  <2> QED  BY <2>1, <2>2, FS_EmptySet DEF QueueInv, QueueBounded, BestAreKept
<1>3. CASE Reconfigure
  <2>1. /\ queue' \in Queue /\ IsFiniteSet(queue'.items) /\ history'.lost = {}
        /\ queue' = queue \/ Cardinality(queue'.items) <= queue'.limit
    BY <1>3, QueueParts, ReconfigureEffect
  <2>2. Cardinality(queue.items) <= queue.limit
    BY QueueParts
  <2> QED  BY <2>1, <2>2 DEF QueueInv, QueueBounded, BestAreKept
<1>4. ASSUME NEW b \in batches, Settled(b)
      PROVE  QueueInv'
  <2>1. history'.lost = history.lost /\ queue' = queue
    BY <1>4, SettledEffect DEF BatchesInv, Settled
  <2> QED  BY <2>1 DEF QueueInv, QueueBounded, BestAreKept
<1>5. CASE UNCHANGED eventVars
  BY <1>5 DEF eventVars, QueueInv, QueueBounded, BestAreKept
<1> QED  BY <1>1, <1>2, <1>3, <1>4, <1>5, QueueAdd, QueueRetained DEF EventNext

-----------------------------------------------------------------------------
\* Nothing goes on its way or arrives, and the queue takes in new events only.
LEMMA BatchesStay ==
    ASSUME EventInv, HistoryType', UNCHANGED batches, history'.gone = history.gone,
           NEW new \in SUBSET Event, queue'.items \subseteq queue.items \cup new,
           \A e \in new : /\ e \notin history.gone /\ \A b \in batches : e \notin Carried(b)
                          /\ e.id <= history'.recorded,
           history.recorded <= history'.recorded
    PROVE  BatchesInv'
<1> USE DEF EventInv
<1>1. history.recorded \in Int /\ history'.recorded \in Int
  BY DEF HistoryType
<1>2. /\ \A b \in batches : Carried(b) \subseteq Event
      /\ history.gone \subseteq Event /\ queue.items \subseteq Event
  BY QueueParts DEF BatchesInv, Carried, HistoryType
<1>3. \A e \in Event : e.id <= history.recorded => e.id <= history'.recorded
  BY <1>1, EventFields
<1>4. /\ \A b \in batches' : \A e \in Carried(b) : e.id <= history'.recorded
      /\ \A e \in queue'.items \cup history'.gone : e.id <= history'.recorded
  BY <1>2, <1>3 DEF BatchesInv
<1>5. OnePlaceOnly'
  BY DEF BatchesInv, OnePlaceOnly
<1> QED  BY <1>4, <1>5 DEF BatchesInv

\* One payload is answered: its events are gone, or back in the queue, and the other half
\* of a split one follows.
LEMMA BatchesAnswered ==
    ASSUME EventInv, HistoryType', NEW b \in batches, batches' = Onwards(b),
           history'.recorded = history.recorded,
           \/ queue'.items = queue.items /\ history'.gone = history.gone \cup b.items
           \/ queue'.items \subseteq queue.items \cup b.items /\ history'.gone = history.gone
    PROVE  BatchesInv'
<1> USE DEF EventInv
<1> DEFINE after == [items |-> b.rest, rest |-> {}]
<1>1. \A c \in batches' : (c \in batches /\ c # b) \/ (c = after /\ b.rest # {})
  BY DEF Onwards
<1>2. after.items = b.rest /\ after.rest = {} /\ Carried(after) = b.rest
  BY DEF Carried
<1>3. Carried(b) = b.items \cup b.rest /\ b.items \in SUBSET Event /\ b.rest \in SUBSET Event
  BY DEF Carried, BatchesInv
<1>4. after \in [items : SUBSET Event, rest : SUBSET Event]
  BY <1>3
<1> HIDE DEF after
<1>5. /\ batches' \subseteq [items : SUBSET Event, rest : SUBSET Event]
      /\ \A c \in batches' : IsFiniteSet(c.items) /\ IsFiniteSet(c.rest)
  BY <1>1, <1>2, <1>4, FS_EmptySet DEF BatchesInv
<1>6. \A c \in batches' : \A e \in Carried(c) : e.id <= history'.recorded
  BY <1>1, <1>2, <1>3 DEF BatchesInv
<1>7. \A e \in queue'.items \cup history'.gone : e.id <= history'.recorded
  BY <1>3 DEF BatchesInv
<1>8. \A c \in batches' : \A e \in Carried(c) : /\ e \notin b.items /\ e \notin queue.items
                                                /\ e \notin history.gone
  BY <1>1, <1>2, <1>3 DEF BatchesInv, OnePlaceOnly
<1>9. \A c \in batches' : \A e \in Carried(c) : e \notin queue'.items /\ e \notin history'.gone
  BY <1>8
<1>10. \A c \in batches' : \A e \in c.items : e \notin c.rest
  BY <1>1, <1>2 DEF BatchesInv, OnePlaceOnly
<1>11. \A c, d \in batches' : c # d => \A e \in Carried(c) : e \notin Carried(d)
  BY <1>1, <1>2, <1>3 DEF BatchesInv, OnePlaceOnly
<1>12. \A e \in b.items : e \notin queue.items /\ e \notin history.gone
  BY <1>3 DEF BatchesInv, OnePlaceOnly
<1>13. \A e \in queue.items : e \notin history.gone
  BY DEF BatchesInv, OnePlaceOnly
<1>14. \A e \in queue'.items : e \notin history'.gone
  BY <1>12, <1>13
<1> QED  BY <1>5, <1>6, <1>7, <1>9, <1>10, <1>11, <1>14 DEF BatchesInv, OnePlaceOnly

\* A send: the queue's events are on their way, in one batch.
LEMMA BatchesSent ==
    ASSUME EventInv, Send
    PROVE  BatchesInv'
<1> USE DEF EventInv
<1>1. PICK first \in SUBSET queue.items :
         batches' = batches \cup {[items |-> first, rest |-> queue.items \ first]}
  BY DEF Send, Halves
<1> DEFINE sent == [items |-> first, rest |-> queue.items \ first]
<1>2. sent.items = first /\ sent.rest = queue.items \ first /\ Carried(sent) = queue.items
  BY DEF Carried
<1>3. queue.items \subseteq Event /\ IsFiniteSet(queue.items)
  BY QueueParts
<1>4. sent \in [items : SUBSET Event, rest : SUBSET Event]
  BY <1>3
<1> HIDE DEF sent
<1>5. IsFiniteSet(sent.items) /\ IsFiniteSet(sent.rest)
  BY <1>2, <1>3, FS_Subset
<1>6. batches' = batches \cup {sent}
  BY <1>1 DEF sent
<1>7. /\ HistoryType' /\ history'.recorded = history.recorded /\ history'.gone = history.gone
      /\ queue'.items = {}
  BY QueueParts, SendEffect
<1>8. /\ batches' \subseteq [items : SUBSET Event, rest : SUBSET Event]
      /\ \A c \in batches' : IsFiniteSet(c.items) /\ IsFiniteSet(c.rest)
      /\ \A e \in queue'.items \cup history'.gone : e.id <= history'.recorded
      /\ \A c \in batches' : \A e \in Carried(c) : e.id <= history'.recorded
  BY <1>2, <1>4, <1>5, <1>6, <1>7 DEF BatchesInv
<1>9. OnePlaceOnly'
  BY <1>2, <1>6, <1>7 DEF BatchesInv, OnePlaceOnly
<1> QED  BY <1>8, <1>9 DEF BatchesInv

LEMMA BatchesStep == EventInv /\ [EventNext]_eventVars => BatchesInv'
<1> SUFFICES ASSUME EventInv, [EventNext]_eventVars
             PROVE  BatchesInv'
  OBVIOUS
<1> USE DEF EventInv
<1>1. history.recorded \in Int
  BY DEF HistoryType
<1>2. CASE Add
  <2> DEFINE effect(e, q) ==
                /\ e.id = history.recorded + 1 /\ queue' = q
                /\ HistoryType' /\ history'.recorded = history.recorded + 1
                /\ history'.gone = history.gone
  <2>1. PICK e \in Event : \E q \in Added(queue, e) : effect(e, q)
    BY <1>2, QueueParts, AddEffect
  <2>2. PICK q \in Added(queue, e) : effect(e, q)
    BY <2>1
  <2>3. e \notin queue.items /\ e \notin history.gone /\ \A b \in batches : e \notin Carried(b)
    BY <2>2, IsNew
  <2>4. q.items \subseteq queue.items \cup {e}
    BY <2>3, QueueParts, AddedOne
  <2>5. /\ {e} \in SUBSET Event /\ UNCHANGED batches /\ history.recorded <= history'.recorded
        /\ \A x \in {e} : x.id <= history'.recorded
    BY <1>1, <1>2, <2>2 DEF Add
  <2> QED  BY <2>2, <2>3, <2>4, <2>5, BatchesStay
<1>3. CASE AddSegment
  <2>1. /\ HistoryType' /\ queue'.items = queue.items /\ history'.gone = history.gone
        /\ history'.recorded = history.recorded + 1
    BY <1>3, QueueParts, AddSegmentEffect
  <2>2. UNCHANGED batches /\ history.recorded <= history'.recorded
    BY <1>1, <1>3, <2>1 DEF AddSegment
  <2>3. {} \in SUBSET Event /\ queue'.items \subseteq queue.items \cup {}
    BY <2>1
  <2> HIDE DEF EventInv
  <2> QED  BY <2>1, <2>2, <2>3, BatchesStay
<1>4. CASE SendNothing
  <2>1. /\ HistoryType' /\ queue'.items = {} /\ history'.gone = history.gone
        /\ history'.recorded = history.recorded
    BY <1>4, QueueParts, SendEffect
  <2>2. UNCHANGED batches /\ history.recorded <= history'.recorded
    BY <1>1, <1>4, <2>1 DEF SendNothing
  <2>3. {} \in SUBSET Event /\ queue'.items \subseteq queue.items \cup {}
    BY <2>1
  <2> HIDE DEF EventInv
  <2> QED  BY <2>1, <2>2, <2>3, BatchesStay
<1>5. CASE Reconfigure
  <2>1. /\ HistoryType' /\ queue'.items \subseteq queue.items /\ history'.gone = history.gone
        /\ history'.recorded = history.recorded
    BY <1>5, QueueParts, ReconfigureEffect
  <2>2. UNCHANGED batches /\ history.recorded <= history'.recorded
    BY <1>1, <1>5, <2>1 DEF Reconfigure
  <2>3. {} \in SUBSET Event /\ queue'.items \subseteq queue.items \cup {}
    BY <2>1
  <2> HIDE DEF EventInv
  <2> QED  BY <2>1, <2>2, <2>3, BatchesStay
<1>6. ASSUME NEW b \in batches, Settled(b)
      PROVE  BatchesInv'
  <2>1. b.items \subseteq Event
    BY DEF BatchesInv
  <2>2. /\ HistoryType' /\ history'.recorded = history.recorded
        /\ history'.gone = history.gone \cup b.items
    BY <1>6, <2>1, SettledEffect
  <2>3. batches' = Onwards(b) /\ queue'.items = queue.items
    BY <1>6 DEF Settled
  <2> QED  BY <2>2, <2>3, BatchesAnswered
<1>7. ASSUME NEW b \in batches, Retained(b)
      PROVE  BatchesInv'
  <2>1. b.items \in SUBSET Event /\ IsFiniteSet(b.items)
    BY DEF BatchesInv
  <2>2. /\ HistoryType' /\ history'.recorded = history.recorded /\ history'.gone = history.gone
        /\ queue' \in Merged(queue, b.items)
    BY <1>7, <2>1, QueueParts, RetainedEffect
  <2>3. queue'.items \subseteq queue.items \cup b.items
    BY <2>1, <2>2, QueueParts, MergedBest DEF Best
  <2>4. batches' = Onwards(b)
    BY <1>7 DEF Retained
  <2> QED  BY <2>2, <2>3, <2>4, BatchesAnswered
<1>8. CASE UNCHANGED eventVars
  BY <1>8 DEF eventVars, BatchesInv, OnePlaceOnly
<1> QED  BY <1>2, <1>3, <1>4, <1>5, <1>6, <1>7, <1>8, BatchesSent DEF EventNext

-----------------------------------------------------------------------------
\* The counters after an event was added, and after some were merged.
CountType == counted \in [seen : Nat, sent : Int, dropped : Int]

LEMMA CountedOne ==
    ASSUME CountType, NEW q \in Queue, NEW e, counted' = CountedAdd(e \in q.items, q)
    PROVE  /\ CountType' /\ counted'.seen = counted.seen + 1
           /\ e \in q.items /\ q.seen <= q.limit =>
                 counted'.sent = counted.sent + 1 /\ counted'.dropped = counted.dropped
           /\ e \notin q.items \/ q.seen > q.limit =>
                 counted'.sent = counted.sent /\ counted'.dropped = counted.dropped + 1
<1> DEFINE counter == counted.seen + 1
           sent == counted.sent + 1
           dropped == counted.dropped + 1
<1>1. counter \in Nat /\ sent \in Int /\ dropped \in Int
  BY DEF CountType
<1>2. q.seen \in Nat /\ q.limit \in Nat
  BY EventFields
<1>3. Overflow(q) = 0 <=> q.seen <= q.limit
  BY <1>2 DEF Overflow
<1>4. /\ e \in q.items /\ q.seen <= q.limit => counted' = [counted EXCEPT !.seen = counter, !.sent = sent]
      /\ ~(e \in q.items /\ q.seen <= q.limit) => counted' = [counted EXCEPT !.seen = counter, !.dropped = dropped]
  BY <1>3 DEF CountedAdd
<1>5. q.seen > q.limit <=> ~(q.seen <= q.limit)
  BY <1>2
<1> HIDE DEF counter, sent, dropped
<1>6. CASE e \in q.items /\ q.seen <= q.limit
  <2>1. CountType' /\ counted'.seen = counter /\ counted'.sent = sent /\ counted'.dropped = counted.dropped
    BY <1>1, <1>4, <1>6 DEF CountType
  <2> QED  BY <1>5, <1>6, <2>1 DEF counter, sent
<1>7. CASE ~(e \in q.items /\ q.seen <= q.limit)
  <2>1. CountType' /\ counted'.seen = counter /\ counted'.dropped = dropped /\ counted'.sent = counted.sent
    BY <1>1, <1>4, <1>7 DEF CountType
  <2> QED  BY <1>5, <1>7, <2>1 DEF counter, dropped
<1> QED  BY <1>6, <1>7

LEMMA CountedMany ==
    ASSUME CountType, aggLimit \in Nat, Cardinality(queue.items) \in Nat,
           NEW S, Cardinality(S) \in Nat, NEW q, counted' = CountedMerge(S, q)
    PROVE  LET sent == Lower(Cardinality(S), aggLimit - Cardinality(queue.items))
           IN  /\ CountType' /\ counted'.seen = counted.seen + Cardinality(S)
               /\ counted'.sent = counted.sent + sent
               /\ counted'.dropped = counted.dropped + (Cardinality(S) - sent)
<1> DEFINE n == Cardinality(S)
           part == Lower(n, aggLimit - Cardinality(queue.items))
           counter == counted.seen + n
           sent == counted.sent + part
           dropped == counted.dropped + (n - part)
<1>1. part \in Int
  BY DEF Lower
<1>2. counted' = [counted EXCEPT !.seen = counter, !.sent = sent, !.dropped = dropped]
  BY DEF CountedMerge, Lower
<1> HIDE DEF part
<1>3. counter \in Nat /\ sent \in Int /\ dropped \in Int
  BY <1>1 DEF CountType
<1> HIDE DEF counter, sent, dropped
<1>4. CountType' /\ counted'.seen = counter /\ counted'.sent = sent /\ counted'.dropped = dropped
  BY <1>2, <1>3 DEF CountType
<1> QED  BY <1>4 DEF counter, sent, dropped, part

\* How the numbers have to change, for the metrics to go on adding up.
Numbers ==
    /\ counted.seen = counted.sent + counted.dropped + history.early
    /\ ~history.resized =>
          /\ aggLimit = queue.limit
          /\ Cardinality(queue.items) = Lower(queue.seen, queue.limit)
          /\ counted.sent = history.attempted + Cardinality(queue.items)

LEMMA CountsAdd == EventInv /\ Add => CountsInv'
<1> SUFFICES ASSUME EventInv, Add
             PROVE  CountsInv'
  OBVIOUS
<1> USE DEF EventInv
<1> DEFINE effect(e, q) ==
              /\ e.id = history.recorded + 1 /\ queue' = q
              /\ counted' = CountedAdd(e \in q.items, q)
              /\ history'.early = history.early
              /\ history'.attempted = history.attempted /\ history'.resized = history.resized
<1>1. PICK e \in Event : \E q \in Added(queue, e) : effect(e, q)
  BY QueueParts, AddEffect
<1>2. PICK q \in Added(queue, e) : effect(e, q)
  BY <1>1
<1>3. e \notin queue.items
  BY <1>2, IsNew
<1>4. /\ q \in Queue /\ q.limit = queue.limit /\ q.seen = queue.seen + 1
      /\ \/ Cardinality(queue.items) = queue.limit /\ Cardinality(q.items) = queue.limit
         \/ /\ e \in q.items /\ Cardinality(queue.items) < queue.limit
            /\ Cardinality(q.items) = Cardinality(queue.items) + 1
  <2>1. \/ q.items = queue.items /\ Cardinality(queue.items) = queue.limit
        \/ Cardinality(queue.items) = queue.limit /\ Cardinality(q.items) = queue.limit
        \/ /\ q.items = queue.items \cup {e} /\ Cardinality(queue.items) < queue.limit
           /\ Cardinality(q.items) = Cardinality(queue.items) + 1
    BY <1>3, AddedOne, QueueParts
  <2>2. q \in Queue /\ q.limit = queue.limit /\ q.seen = queue.seen + 1
    BY <1>3, AddedOne, QueueParts
  <2> QED  BY <2>1, <2>2
<1>5. CountType
  BY DEF CountsInv, CountType
<1>6. /\ CountType' /\ counted'.seen = counted.seen + 1
      /\ e \in q.items /\ q.seen <= q.limit =>
            counted'.sent = counted.sent + 1 /\ counted'.dropped = counted.dropped
      /\ e \notin q.items \/ q.seen > q.limit =>
            counted'.sent = counted.sent /\ counted'.dropped = counted.dropped + 1
  BY <1>2, <1>4, <1>5, CountedOne
<1>7. /\ counted.seen \in Int /\ counted.sent \in Int /\ counted.dropped \in Int /\ history.early \in Int
      /\ history.attempted \in Int
      /\ queue.seen \in Nat /\ queue.limit \in Nat /\ Cardinality(queue.items) \in Nat
  BY <1>5, QueueParts DEF CountType, HistoryType
<1>8. /\ queue'.limit = queue.limit /\ queue'.seen = queue.seen + 1 /\ queue'.items = q.items
      /\ aggLimit' = aggLimit /\ aggLimit \in Nat
      /\ history'.early = history.early
      /\ history'.attempted = history.attempted /\ history'.resized = history.resized
  BY <1>2, <1>4 DEF Add, CountsInv
<1>9. Numbers
  BY DEF CountsInv, Numbers
<1>10. CASE Cardinality(queue.items) = queue.limit /\ Cardinality(q.items) = queue.limit
  <2>1. counted'.seen = counted'.sent + counted'.dropped + history'.early
    BY <1>4, <1>6, <1>7, <1>8, <1>9 DEF Numbers
  <2>2. SUFFICES ASSUME ~history.resized
                 PROVE  Numbers'
    BY <1>6, <1>8, <2>1 DEF CountsInv, CountType, Numbers
  <2>3. queue.seen >= queue.limit
    BY <1>7, <1>9, <1>10, <2>2 DEF Numbers, Lower
  <2>4. counted'.sent = counted.sent
    BY <1>4, <1>6, <1>7, <2>3
  <2> QED  BY <1>7, <1>8, <1>9, <1>10, <2>1, <2>2, <2>3, <2>4 DEF Numbers, Lower
<1>11. CASE /\ e \in q.items /\ Cardinality(queue.items) < queue.limit
            /\ Cardinality(q.items) = Cardinality(queue.items) + 1
  <2>1. counted'.seen = counted'.sent + counted'.dropped + history'.early
    BY <1>4, <1>6, <1>7, <1>8, <1>9 DEF Numbers
  <2>2. SUFFICES ASSUME ~history.resized
                 PROVE  Numbers'
    BY <1>6, <1>8, <2>1 DEF CountsInv, CountType, Numbers
  <2>3. queue.seen = Cardinality(queue.items) /\ queue.seen < queue.limit
    BY <1>7, <1>9, <1>11, <2>2 DEF Numbers, Lower
  <2>4. counted'.sent = counted.sent + 1
    BY <1>4, <1>6, <1>7, <1>11, <2>3
  <2> QED  BY <1>7, <1>8, <1>9, <1>11, <2>1, <2>2, <2>3, <2>4 DEF Numbers, Lower
<1> QED  BY <1>4, <1>10, <1>11

LEMMA CountsRetained ==
    ASSUME EventInv, NEW b \in batches, Retained(b)
    PROVE  CountsInv'
<1> USE DEF EventInv
<1> DEFINE n == Cardinality(b.items)
           m == Cardinality(queue.items)
           sent == Lower(n, aggLimit - m)
<1>1. b.items \in SUBSET Event /\ IsFiniteSet(b.items) /\ n \in Nat
  BY FS_CardinalityType DEF BatchesInv
<1>2. /\ queue' \in Merged(queue, b.items) /\ counted' = CountedMerge(b.items, queue')
      /\ history'.early = history.early
      /\ history'.attempted = history.attempted /\ history'.resized = history.resized
  BY <1>1, QueueParts, RetainedEffect
<1>3. /\ queue'.limit = queue.limit /\ queue'.seen = queue.seen + n
      /\ queue'.items \in Best(queue.limit, queue.items \cup b.items)
      /\ IsFiniteSet(queue.items \cup b.items)
  BY <1>1, <1>2, QueueParts, MergedBest
<1>4. m \in Nat /\ queue.limit \in Nat /\ queue.seen \in Nat /\ IsFiniteSet(queue.items)
  BY QueueParts
<1>5. Cardinality(queue'.items) = Lower(m + n, queue.limit)
  <2>1. queue.items \cap b.items = {}
    BY DEF BatchesInv, OnePlaceOnly, Carried
  <2>2. Cardinality(queue.items \cup b.items) = m + n - 0
    BY <1>1, <1>4, <2>1, FS_Union, FS_EmptySet
  <2>3. Cardinality(queue.items \cup b.items) = m + n
    BY <1>1, <1>4, <2>2
  <2> QED  BY <1>3, <1>4, <2>3, BestOf
<1>6. CountType /\ aggLimit \in Nat
  BY DEF CountsInv, CountType
<1>7. /\ CountType' /\ counted'.seen = counted.seen + n
      /\ counted'.sent = counted.sent + sent
      /\ counted'.dropped = counted.dropped + (n - sent)
  BY <1>1, <1>2, <1>4, <1>6, CountedMany
<1>8. /\ counted.seen \in Int /\ counted.sent \in Int /\ counted.dropped \in Int /\ history.early \in Int
      /\ history.attempted \in Int /\ aggLimit' = aggLimit
  BY <1>6 DEF CountType, HistoryType, Retained
<1>9. Numbers
  BY DEF CountsInv, Numbers
<1>10. ~history.resized => aggLimit = queue.limit /\ m = Lower(queue.seen, queue.limit)
                           /\ counted.sent = history.attempted + m
  BY <1>9 DEF Numbers
<1>11. counted.seen = counted.sent + counted.dropped + history.early
  BY <1>9 DEF Numbers
<1>12. sent \in Int
  BY <1>1, <1>4, <1>6 DEF Lower
<1> HIDE DEF n, m
<1>13. counted'.seen = counted'.sent + counted'.dropped + history'.early
  <2> HIDE DEF sent
  <2> QED  BY <1>1, <1>2, <1>7, <1>8, <1>11, <1>12
<1>14. ~history.resized => Lower(m + n, queue.limit) = Lower(queue.seen + n, queue.limit)
                           /\ m + sent = Lower(m + n, queue.limit)
  BY <1>1, <1>4, <1>10 DEF Lower
<1> HIDE DEF sent
<1>15. ~history.resized => counted'.sent = history.attempted + Lower(m + n, queue.limit)
  BY <1>1, <1>4, <1>7, <1>8, <1>10, <1>12, <1>14
<1>16. Numbers'
  BY <1>2, <1>3, <1>5, <1>8, <1>10, <1>13, <1>14, <1>15 DEF Numbers
<1> QED  BY <1>6, <1>7, <1>8, <1>16 DEF CountsInv, CountType, Numbers

LEMMA CountsStep == EventInv /\ [EventNext]_eventVars => CountsInv'
<1> SUFFICES ASSUME EventInv, [EventNext]_eventVars
             PROVE  CountsInv'
  OBVIOUS
<1> USE DEF EventInv
<1>1. CountType /\ aggLimit \in Nat /\ Numbers
  BY DEF CountsInv, CountType, Numbers
<1>2. /\ counted.seen \in Int /\ counted.sent \in Int /\ counted.dropped \in Int /\ history.early \in Int
      /\ history.attempted \in Int
      /\ queue.seen \in Nat /\ queue.limit \in Nat /\ Cardinality(queue.items) \in Nat
  BY <1>1, QueueParts DEF CountType, HistoryType
<1>3. CASE AddSegment
  <2>1. /\ queue'.limit = queue.limit /\ queue'.items = queue.items /\ queue'.seen = queue.seen + 1
        /\ Cardinality(queue.items) = queue.limit
        /\ history'.early = history.early + 1
        /\ history'.attempted = history.attempted /\ history'.resized = history.resized
    BY <1>3, QueueParts, AddSegmentEffect
  <2> DEFINE counter == counted.seen + 1
  <2>2. counter \in Nat /\ counted' = [counted EXCEPT !.seen = counter]
    BY <1>1, <1>3 DEF AddSegment, CountType
  <2> HIDE DEF counter
  <2>3. /\ CountType' /\ counted'.seen = counter /\ counted'.sent = counted.sent
        /\ counted'.dropped = counted.dropped
    BY <1>1, <2>2 DEF CountType
  <2>4. aggLimit' = aggLimit
    BY <1>3 DEF AddSegment
  <2>5. Numbers'
    BY <1>1, <1>2, <2>1, <2>3, <2>4 DEF Numbers, Lower, counter
  <2> QED  BY <1>1, <2>3, <2>4, <2>5 DEF CountsInv, CountType, Numbers
<1>4. CASE Send \/ SendNothing
  <2>1. /\ queue'.limit = queue.limit /\ queue'.items = {} /\ queue'.seen = 0
        /\ history'.early = history.early /\ history'.resized = history.resized
        /\ history'.attempted = history.attempted + Cardinality(queue.items)
    BY <1>4, QueueParts, SendEffect
  <2>2. UNCHANGED <<aggLimit, counted>> /\ Cardinality(queue'.items) = 0
    BY <1>4, <2>1, FS_EmptySet DEF Send, SendNothing
  <2>3. Numbers'
    BY <1>1, <1>2, <2>1, <2>2 DEF Numbers, Lower
  <2> QED  BY <1>1, <2>2, <2>3 DEF CountsInv, CountType, Numbers
<1>5. CASE Reconfigure
  <2>1. aggLimit' \in Nat /\ history'.early = history.early /\ history'.resized
    BY <1>5, QueueParts, ReconfigureEffect
  <2> QED  BY <1>1, <1>5, <2>1 DEF Reconfigure, CountsInv, CountType, Numbers
<1>6. ASSUME NEW b \in batches, Settled(b)
      PROVE  CountsInv'
  <2>1. /\ history'.early = history.early /\ history'.attempted = history.attempted
        /\ history'.resized = history.resized
    BY <1>6, SettledEffect DEF BatchesInv
  <2> QED  BY <1>1, <1>6, <2>1 DEF Settled, CountsInv, CountType, Numbers
<1>7. CASE UNCHANGED eventVars
  BY <1>7 DEF eventVars, CountsInv
<1> QED  BY <1>3, <1>4, <1>5, <1>6, <1>7, CountsAdd, CountsRetained DEF EventNext

LEMMA HistoryStep == EventInv /\ [EventNext]_eventVars => HistoryType'
<1> SUFFICES ASSUME EventInv, [EventNext]_eventVars
             PROVE  HistoryType'
  OBVIOUS
<1> USE DEF EventInv
<1>1. Add => HistoryType'
  BY QueueParts, AddEffect
<1>2. AddSegment \/ Send \/ SendNothing \/ Reconfigure => HistoryType'
  BY QueueParts, AddSegmentEffect, SendEffect, ReconfigureEffect
<1>3. ASSUME NEW b \in batches, Settled(b) \/ Retained(b)
      PROVE  HistoryType'
  BY <1>3, QueueParts, SettledEffect, RetainedEffect DEF BatchesInv
<1>4. UNCHANGED eventVars => HistoryType'
  BY DEF eventVars, HistoryType
<1> QED  BY <1>1, <1>2, <1>3, <1>4 DEF EventNext

LEMMA EventInitial == EventInit => EventInv
<1> SUFFICES ASSUME EventInit
             PROVE  EventInv
  OBVIOUS
<1> USE EventAssumption DEF EventInit
<1>1. queue \in Queue /\ queue.items = {} /\ queue.seen = 0 /\ queue.limit = DefaultLimit
  BY DEF EmptyQueue, Queue
<1>2. HistoryType /\ history.lost = {} /\ history.gone = {}
  BY DEF HistoryType
<1>3. IsFiniteSet(queue.items) /\ Cardinality(queue.items) = 0
  BY <1>1, FS_EmptySet
<1>4. QueueInv
  BY <1>1, <1>2, <1>3 DEF QueueInv, QueueBounded, BestAreKept
<1>5. BatchesInv
  BY <1>1, <1>2 DEF BatchesInv, OnePlaceOnly
<1>6. CountsInv
  BY <1>1, <1>3 DEF CountsInv, Lower
<1> QED  BY <1>2, <1>4, <1>5, <1>6 DEF EventInv

LEMMA EventInvariant == EventSpec => []EventInv
<1>1. EventInv /\ [EventNext]_eventVars => EventInv'
  BY HistoryStep, QueueStep, BatchesStep, CountsStep DEF EventInv
<1> QED  BY <1>1, EventInitial, PTL DEF EventSpec

\* Of some events one is the greatest: the one that the fewest outrank.
LEMMA GreatestEvent ==
    ASSUME NEW S \in SUBSET Event, IsFiniteSet(S), S # {}
    PROVE  \E e \in S : \A x \in S : x.priority <= e.priority
<1> DEFINE above(e) == {y \in S : y.priority > e.priority}
<1>1. \A e \in S : e.priority \in Nat
  BY EventFields
<1>2. \A e \in S : IsFiniteSet(above(e)) /\ Cardinality(above(e)) \in Nat
  BY FS_Subset, FS_CardinalityType
<1>3. PICK T : T = {Cardinality(above(e)) : e \in S}
  OBVIOUS
<1>4. T \subseteq Nat /\ T # {}
  BY <1>2, <1>3
<1>5. PICK k \in T : \A j \in T : k <= j
  BY <1>4, LeastElement
<1>6. PICK e \in S : k = Cardinality(above(e))
  BY <1>3, <1>5
<1>7. ASSUME NEW x \in S, ~(x.priority <= e.priority) PROVE FALSE
  <2>1. x.priority > e.priority
    BY <1>1, <1>6, <1>7
  <2>2. above(x) \subseteq above(e) /\ x \in above(e) /\ x \notin above(x)
    BY <2>1, <1>1
  <2>3. above(x) \in SUBSET above(e) /\ above(x) # above(e)
    BY <2>2
  <2> HIDE DEF above
  <2>4. Cardinality(above(x)) <= Cardinality(above(e)) /\ Cardinality(above(x)) # Cardinality(above(e))
    BY <2>3, <1>2, FS_Subset
  <2>5. Cardinality(above(x)) \in T
    BY <1>3
  <2> QED BY <2>4, <2>5, <1>2, <1>5, <1>6
<1> QED BY <1>6, <1>7

\* Adding an event to what a merge leads to is merging one event more.
LEMMA OneMoreMerged ==
    ASSUME NEW q \in Queue, IsFiniteSet(q.items), NEW T \in SUBSET Event, IsFiniteSet(T),
           NEW e \in Event, e \notin q.items, e \notin T, NEW r \in Merged(q, T), NEW s \in Added(r, e)
    PROVE  s \in Merged(q, T \cup {e})
<1>1. PICK U : U = q.items \cup T
  OBVIOUS
<1>2. q.limit \in Nat /\ q.seen \in Nat /\ q.items \subseteq Event
  BY EventFields
<1>3. /\ r \in Queue /\ r.limit = q.limit /\ r.seen = q.seen + Cardinality(T)
      /\ r.items \in Best(q.limit, U) /\ IsFiniteSet(U)
  BY <1>1, MergedBest
<1>4. PICK K : K = r.items
  OBVIOUS
<1>5. /\ K \subseteq U /\ IsFiniteSet(K)
      /\ Cardinality(K) = Lower(Cardinality(U), q.limit) /\ Cardinality(K) <= q.limit
      /\ K # U => Cardinality(K) = q.limit
      /\ \A k \in K, x \in U \ K : x.priority <= k.priority
  BY <1>2, <1>3, <1>4, BestOf
<1>6. e \notin U /\ U \subseteq Event
  BY <1>1, <1>2
<1>7. PICK V : V = U \cup {e}
  OBVIOUS
<1>8. /\ Cardinality(V) = Cardinality(U) + 1 /\ Cardinality(U) \in Nat /\ Cardinality(K) \in Nat
      /\ Cardinality(T \cup {e}) = Cardinality(T) + 1 /\ Cardinality(T) \in Nat
  BY <1>3, <1>5, <1>6, <1>7, FS_AddElement, FS_CardinalityType
<1>9. \A x \in V : x.priority \in Nat
  BY <1>6, <1>7, EventFields
<1>10. /\ s \in Queue /\ s.limit = q.limit /\ s.seen = r.seen + 1
       /\ \/ /\ s.items = K /\ Cardinality(K) = q.limit
             /\ \A k \in K : e.priority <= k.priority
          \/ \E m \in K :
                /\ s.items = (K \cup {e}) \ {m} /\ Cardinality(s.items) = q.limit /\ Cardinality(K) = q.limit
                /\ m.priority < e.priority /\ \A k \in K : m.priority <= k.priority
          \/ /\ s.items = K \cup {e} /\ Cardinality(K) < q.limit
             /\ Cardinality(s.items) = Cardinality(K) + 1
  <2>1. IsFiniteSet(r.items) /\ Cardinality(r.items) <= r.limit /\ e \notin r.items /\ r \in Queue
    BY <1>3, <1>4, <1>5, <1>6
  <2> QED BY <2>1, <1>3, <1>4, AddedOne
<1>11. s.items \in Best(q.limit, V)
  <2>1. /\ s.items \subseteq V
        /\ Cardinality(s.items) = IF Cardinality(V) < q.limit THEN Cardinality(V) ELSE q.limit
        /\ \A k \in s.items, x \in V \ s.items : x.priority <= k.priority
    <3>1. CASE /\ s.items = K /\ Cardinality(K) = q.limit
               /\ \A k \in K : e.priority <= k.priority
      BY <3>1, <1>2, <1>5, <1>7, <1>8 DEF Lower
    <3>2. ASSUME NEW m \in K, s.items = (K \cup {e}) \ {m}, Cardinality(s.items) = q.limit, Cardinality(K) = q.limit,
                 m.priority < e.priority, \A k \in K : m.priority <= k.priority
          PROVE  /\ s.items \subseteq V
                 /\ Cardinality(s.items) = IF Cardinality(V) < q.limit THEN Cardinality(V) ELSE q.limit
                 /\ \A k \in s.items, x \in V \ s.items : x.priority <= k.priority
      <4>1. s.items \subseteq V
        BY <3>2, <1>5, <1>7
      <4>2. Cardinality(s.items) = IF Cardinality(V) < q.limit THEN Cardinality(V) ELSE q.limit
        BY <3>2, <1>2, <1>5, <1>8 DEF Lower
      <4>3. ASSUME NEW k \in s.items, NEW x \in V \ s.items PROVE x.priority <= k.priority
        <5>1. (k = e \/ k \in K) /\ (x = m \/ x \in U \ K)
          BY <4>3, <3>2, <1>7
        <5>2. x.priority <= m.priority /\ m \in V /\ k \in V
          BY <5>1, <3>2, <1>5, <1>7, <1>9
        <5>3. CASE k = e
          BY <5>2, <5>3, <3>2, <1>7, <1>9, <4>3
        <5>4. CASE k \in K
          BY <5>1, <5>4, <3>2, <1>5
        <5> QED BY <5>1, <5>3, <5>4
      <4> QED BY <4>1, <4>2, <4>3
    <3>3. CASE /\ s.items = K \cup {e} /\ Cardinality(K) < q.limit
               /\ Cardinality(s.items) = Cardinality(K) + 1
      <4>1. K = U
        BY <3>3, <1>5, <1>8, <1>2
      <4> QED BY <4>1, <3>3, <1>2, <1>7, <1>8
    <3> QED BY <1>10, <3>1, <3>2, <3>3
  <2> QED BY <2>1 DEF Best
<1>12. PICK n \in Nat : n = q.seen + Cardinality(T \cup {e}) /\ s.seen = n
  BY <1>2, <1>3, <1>8, <1>10
<1>13. s = [q EXCEPT !.seen = n, !.items = s.items]
  BY <1>10, <1>12 DEF Queue
<1>14. V = q.items \cup (T \cup {e})
  BY <1>1, <1>7
<1> QED BY <1>11, <1>12, <1>13, <1>14 DEF Merged

\* Events added one after another, the least first, are merged.
LEMMA AddedAreMerged ==
    ASSUME NEW q \in Queue, IsFiniteSet(q.items), Cardinality(q.items) <= q.limit,
           NEW S \in SUBSET Event, IsFiniteSet(S), S \cap q.items = {}
    PROVE  AddedInTurn(q, S) \subseteq Merged(q, S)
<1>1. PICK L : L = [T \in SUBSET S |-> CHOOSE e \in T : \A x \in T : x.priority <= e.priority]
  OBVIOUS
<1>2. ASSUME NEW T \in SUBSET S, T # {}
      PROVE  /\ L[T] \in T /\ IsFiniteSet(T)
             /\ L[T] = CHOOSE e \in T : \A x \in T : x.priority <= e.priority
  <2>1. T \in SUBSET Event /\ IsFiniteSet(T)
    BY FS_Subset
  <2>2. \E e \in T : \A x \in T : x.priority <= e.priority
    BY <1>2, <2>1, GreatestEvent
  <2>3. L[T] = CHOOSE e \in T : \A x \in T : x.priority <= e.priority
    BY <1>1
  <2>4. (CHOOSE e \in T : \A x \in T : x.priority <= e.priority) \in T
    BY <2>2
  <2> QED BY <2>1, <2>3, <2>4
<1>3. PICK C : C = SUBSET Queue
  OBVIOUS
<1>4. PICK H : H = [p \in (SUBSET S) \X C |-> IF p[1] = {} THEN {} ELSE UNION {Added(r, L[p[1]]) : r \in p[2]}]
  OBVIOUS
<1>5. H \in [(SUBSET S) \X C -> C]
  <2>1. ASSUME NEW r \in Queue, NEW e \in Event PROVE Added(r, e) \subseteq Queue
    <3>1. PICK o : o = [r EXCEPT !.seen = @ + 1]
      OBVIOUS
    <3>2. o \in Queue /\ r.items \subseteq Event
      BY <3>1 DEF Queue
    <3>3. \A K \in SUBSET Event : [o EXCEPT !.items = K] \in Queue
      BY <3>2 DEF Queue
    <3>4. o.items = r.items
      BY <3>1 DEF Queue
    <3>5. ASSUME NEW x \in Added(r, e) PROVE x = o \/ \E K \in SUBSET Event : x = [o EXCEPT !.items = K]
      <4>1. \/ x = o
            \/ \E m \in Least(r.items) : x = [o EXCEPT !.items = (@ \cup {e}) \ {m}]
            \/ x = [o EXCEPT !.items = @ \cup {e}]
        BY <3>1, <3>5 DEF Added
      <4>2. (r.items \cup {e}) \in SUBSET Event /\ \A m : ((r.items \cup {e}) \ {m}) \in SUBSET Event
        BY <3>2
      <4> QED BY <4>1, <4>2, <3>4
    <3> QED BY <3>2, <3>3, <3>5
  <2>2. ASSUME NEW p \in (SUBSET S) \X C
        PROVE  (IF p[1] = {} THEN {} ELSE UNION {Added(r, L[p[1]]) : r \in p[2]}) \in C
    <3>1. CASE p[1] = {}
      BY <3>1, <1>3
    <3>2. CASE p[1] # {}
      <4>1. L[p[1]] \in Event /\ p[2] \subseteq Queue
        BY <3>2, <1>2, <1>3
      <4> QED BY <4>1, <3>2, <2>1, <1>3
    <3> QED BY <3>1, <3>2
  <2> QED BY <2>2, <1>4
<1>6. {q} \in C
  BY <1>3
<1>7. RunsDown(S, C, {q}, L, H) # {}
  <2>1. \A T \in SUBSET S : T # {} => L[T] \in T
    BY <1>2
  <2> QED BY <2>1, <1>5, <1>6, SubsetRecursion
<1>8. PICK g \in [SUBSET S -> C] : \A T \in SUBSET S : g[T] = IF T = {} THEN {q} ELSE H[<<T, g[T \ {L[T]}]>>]
  BY <1>7 DEF RunsDown
<1> DEFINE step(m, T) ==
        IF T = {} THEN {q}
        ELSE LET last == CHOOSE e \in T : \A x \in T : x.priority <= e.priority
             IN  UNION {Added(r, last) : r \in m[T \ {last}]}
<1>9. g = [T \in SUBSET S |-> step(g, T)]
  <2>1. ASSUME NEW T \in SUBSET S PROVE g[T] = step(g, T)
    <3>1. CASE T = {}
      BY <3>1, <1>8
    <3>2. CASE T # {}
      <4>1. T \ {L[T]} \in SUBSET S
        OBVIOUS
      <4>2. PICK R \in C : R = g[T \ {L[T]}]
        BY <4>1, <1>8
      <4>3. <<T, R>> \in (SUBSET S) \X C
        BY <4>2
      <4>4. H[<<T, R>>] = UNION {Added(r, L[T]) : r \in R}
        BY <4>3, <3>2, <1>4
      <4>5. g[T] = UNION {Added(r, L[T]) : r \in R}
        BY <4>2, <4>4, <3>2, <1>8
      <4>6. L[T] = CHOOSE e \in T : \A x \in T : x.priority <= e.priority
        BY <3>2, <1>2
      <4>7. PICK l : l = CHOOSE e \in T : \A x \in T : x.priority <= e.priority
        OBVIOUS
      <4>8. g[T] = UNION {Added(r, l) : r \in g[T \ {l}]}
        BY <4>2, <4>5, <4>6, <4>7
      <4>9. step(g, T) = UNION {Added(r, l) : r \in g[T \ {l}]}
        <5> DEFINE taking(e) == UNION {Added(r, e) : r \in g[T \ {e}]}
        <5>1. step(g, T) = taking(CHOOSE e \in T : \A x \in T : x.priority <= e.priority)
          BY ONLY <3>2, Zenon DEF step
        <5> HIDE DEF taking, step
        <5>2. step(g, T) = taking(l)
          BY <5>1, <4>7
        <5> QED BY <5>2 DEF taking
      <4> HIDE DEF step
      <4> QED BY <4>8, <4>9
    <3> QED BY <3>1, <3>2
  <2>2. PICK h : h = [T \in SUBSET S |-> step(g, T)]
    OBVIOUS
  <2>3. \A T \in SUBSET S : g[T] = h[T]
    BY <2>1, <2>2, Zenon
  <2> HIDE DEF step
  <2>4. g = h
    BY <2>2, <2>3, <1>8
  <2> QED BY <2>2, <2>4
<1>10. PICK m : m = CHOOSE mm : mm = [T \in SUBSET S |-> step(mm, T)]
  OBVIOUS
<1>11. m = [T \in SUBSET S |-> step(m, T)]
  <2> HIDE DEF step
  <2> QED BY <1>9, <1>10
<1>12. AddedInTurn(q, S) = m[S]
  BY <1>10, Zenon DEF AddedInTurn
<1>13. ASSUME NEW T \in SUBSET S
       PROVE  /\ T = {} => m[T] = {q}
              /\ T # {} => m[T] = UNION {Added(r, L[T]) : r \in m[T \ {L[T]}]}
  <2>1. m[T] = step(m, T)
    <3> HIDE DEF step
    <3> QED BY <1>11
  <2>2. T # {} => L[T] = CHOOSE e \in T : \A x \in T : x.priority <= e.priority
    BY <1>2
  <2> QED BY <2>1, <2>2, Zenon
<1> HIDE DEF step
<1>14. PICK n \in Nat : n = Cardinality(S)
  BY FS_CardinalityType
<1>15. PICK J : J = {k \in 0..n : \A T \in SUBSET S : Cardinality(T) = k => m[T] \subseteq Merged(q, T)}
  OBVIOUS
<1>16. q \in Merged(q, {})
  <2>1. q.items \cup {} = q.items /\ Cardinality({}) = 0 /\ q.seen + 0 = q.seen
    BY FS_EmptySet, EventFields
  <2>2. q.items \in Best(q.limit, q.items)
    BY FS_CardinalityType, EventFields DEF Best
  <2>3. q = [q EXCEPT !.seen = @ + Cardinality({}), !.items = q.items]
    BY <2>1 DEF Queue
  <2> QED BY <2>1, <2>2, <2>3 DEF Merged
<1>17. 0 \in J
  <2>1. ASSUME NEW T \in SUBSET S, Cardinality(T) = 0 PROVE m[T] \subseteq Merged(q, T)
    <3>1. IsFiniteSet(T)
      BY FS_Subset
    <3>2. T = {}
      BY <3>1, <2>1, FS_EmptySet
    <3> QED BY <3>2, <1>13, <1>16
  <2> QED BY <2>1, <1>15
<1>18. ASSUME NEW k \in 1..n, k - 1 \in J PROVE k \in J
  <2>1. ASSUME NEW T \in SUBSET S, Cardinality(T) = k PROVE m[T] \subseteq Merged(q, T)
    <3>1. T # {}
      <4>1. k # 0 /\ Cardinality({}) = 0
        BY FS_EmptySet
      <4> QED BY <4>1, <2>1
    <3>2. PICK e \in T : e = L[T]
      BY <3>1, <1>2
    <3>3. PICK U \in SUBSET S : U = T \ {e}
      OBVIOUS
    <3>4. IsFiniteSet(T) /\ IsFiniteSet(U) /\ Cardinality(U) = k - 1
      BY <3>1, <3>3, <2>1, <1>2, FS_RemoveElement
    <3>5. m[U] \subseteq Merged(q, U)
      BY <3>4, <1>15, <1>18
    <3>6. ASSUME NEW s \in m[T] PROVE s \in Merged(q, T)
      <4>1. PICK r \in m[U] : s \in Added(r, e)
        <5>1. m[T] = UNION {Added(x, L[T]) : x \in m[T \ {L[T]}]}
          BY <3>1, <1>13, Zenon
        <5>2. PICK r \in m[T \ {L[T]}] : s \in Added(r, L[T])
          BY <5>1, <3>6
        <5>3. T \ {L[T]} = U
          BY <3>2, <3>3
        <5> QED BY <5>2, <5>3, <3>2
      <4>2. r \in Merged(q, U)
        BY <4>1, <3>5
      <4>3. e \in Event /\ e \notin q.items /\ e \notin U /\ U \in SUBSET Event /\ T = U \cup {e}
        BY <3>3
      <4>4. s \in Merged(q, U \cup {e})
        BY <4>1, <4>2, <4>3, <3>4, OneMoreMerged
      <4> QED BY <4>3, <4>4
    <3> QED BY <3>6
  <2>2. k \in 0..n
    OBVIOUS
  <2> QED BY <2>1, <2>2, <1>15
<1>19. n \in J
  <2> Climbs(J, n)
    BY <1>17, <1>18 DEF Climbs
  <2> QED BY StepByStep
<1>20. m[S] \subseteq Merged(q, S)
  BY <1>14, <1>15, <1>19
<1> QED BY <1>12, <1>20

\* A queue is within its limit and has the best of what went into it, no event is in two
\* places or sent again, and the metrics agree with the events: for any limits and
\* priorities, whatever is answered or reconfigured meanwhile.
THEOREM EventsAreCorrect == EventSpec => []EventsCorrect
<1>1. EventInv => EventTypeOK /\ QueueBounded /\ BestAreKept /\ MetricsAddUp
  BY DEF EventInv, HistoryType, QueueInv, BatchesInv, CountsInv, EventTypeOK, MetricsAddUp
<1>2. BatchesInv => NoEventTwice
  BY DEF BatchesInv, OnePlaceOnly, Carried, NoEventTwice
<1>3. ASSUME EventInv
      PROVE  MergeIsAdding
  <2>1. queue \in Queue /\ IsFiniteSet(queue.items) /\ Cardinality(queue.items) <= queue.limit
    BY <1>3 DEF EventInv, QueueInv, QueueBounded
  <2>2. ASSUME NEW b \in batches
        PROVE  b.items \in SUBSET Event /\ IsFiniteSet(b.items) /\ b.items \cap queue.items = {}
    <3>1. b \in [items : SUBSET Event, rest : SUBSET Event] /\ IsFiniteSet(b.items)
      BY <1>3 DEF EventInv, BatchesInv
    <3>2. \A e \in Carried(b) : e \notin queue.items
      BY <1>3 DEF EventInv, BatchesInv, OnePlaceOnly
    <3> QED  BY <3>1, <3>2 DEF Carried
  <2> QED  BY <2>1, <2>2, AddedAreMerged DEF MergeIsAdding
<1>4. EventInv => EventsCorrect
  BY <1>1, <1>2, <1>3 DEF EventInv, EventsCorrect
<1> QED  BY <1>4, EventInvariant, PTL

-----------------------------------------------------------------------------
(***************************************************************************)
(* Metrics.  Of each metric the invariant says what it stands for; of the  *)
(* collections, that they share no value; of the values, that they reached *)
(* the agent's metrics within the period of the collection they are in.    *)
(***************************************************************************)
\* What the k-th value adds to the sum of those in S.
AmountOf(f, S, k) == IF k \in S THEN f[k].amount ELSE 0
Amounts(f, S) == \A i \in S : f[i].amount \in Nat
SumsUp(f, S, h) ==
    /\ h \in [0..MaxValues -> Nat] /\ h[0] = 0
    /\ \A k \in 1..MaxValues : h[k] = h[k - 1] + AmountOf(f, S, k)
    /\ TotalOf(f, S) = h[MaxValues]

LEMMA TotalIsSum ==
    ASSUME NEW f, NEW S, Amounts(f, S)
    PROVE  \E h : SumsUp(f, S, h)
<1>1. PICK n \in Nat : n = MaxValues
  BY MetricsAssumption
<1>2. \A k : AmountOf(f, S, k) \in Nat
  BY DEF AmountOf, Amounts
<1>3. PICK F : F = [p \in Nat \X (1..n) |-> p[1] + AmountOf(f, S, p[2])]
  OBVIOUS
<1>4. F \in [Nat \X (1..n) -> Nat]
  BY <1>2, <1>3
<1>5. RunsOf(Nat, n, F, 0) # {}
  BY <1>4, Repeated
<1>6. PICK g \in [0..n -> Nat] : g[0] = 0 /\ \A k \in 1..n : g[k] = F[<<g[k - 1], k>>]
  BY <1>5 DEF RunsOf
<1>7. ASSUME NEW k \in 1..n PROVE g[k] = g[k - 1] + AmountOf(f, S, k)
  <2>1. k - 1 \in 0..n
    OBVIOUS
  <2>2. <<g[k - 1], k>> \in Nat \X (1..n)
    BY <2>1, <1>6, Zenon
  <2> QED BY <2>2, <1>3, <1>6
<1> DEFINE next(m, k) == IF k = 0 THEN 0 ELSE m[k - 1] + (IF k \in S THEN f[k].amount ELSE 0)
<1>8. g = [k \in 0..MaxValues |-> next(g, k)]
  <2>1. PICK h : h = [k \in 0..n |-> next(g, k)]
    OBVIOUS
  <2>2. ASSUME NEW k \in 0..n PROVE g[k] = next(g, k)
    <3>1. CASE k = 0
      BY <3>1, <1>6
    <3>2. CASE k # 0
      <4>1. k \in 1..n
        BY <3>2
      <4>2. g[k] = g[k - 1] + AmountOf(f, S, k)
        BY <4>1, <1>7
      <4> QED BY <4>2, <3>2, Zenon DEF AmountOf
    <3> QED BY <3>1, <3>2
  <2> HIDE DEF next
  <2>3. g = h
    BY <2>1, <2>2, <1>6
  <2> QED BY <2>1, <2>3, <1>1
<1>9. PICK m : m = CHOOSE mm : mm = [k \in 0..MaxValues |-> next(mm, k)]
  OBVIOUS
<1>10. m = [k \in 0..MaxValues |-> next(m, k)]
  <2> HIDE DEF next
  <2> QED BY <1>8, <1>9
<1>11. TotalOf(f, S) = m[n]
  BY <1>1, <1>9, Zenon DEF TotalOf
<1>12. m[0] = 0 /\ \A k \in 1..n : m[k] = m[k - 1] + AmountOf(f, S, k)
  <2>1. 0 \in 0..n /\ \A k \in 1..n : k \in 0..n /\ k # 0
    OBVIOUS
  <2>2. \A k \in 0..n : m[k] = next(m, k)
    <3> HIDE DEF next
    <3> QED BY <1>1, <1>10
  <2> QED BY <2>1, <2>2, Zenon DEF AmountOf
<1>13. PICK J : J = {k \in 0..n : m[k] \in Nat /\ m[k] = g[k]}
  OBVIOUS
<1> HIDE DEF next
<1>14. ASSUME NEW j \in 0..n PROVE m[j] = g[j]
  <2>1. 0 \in J
    BY <1>6, <1>12, <1>13
  <2>2. ASSUME NEW k \in 1..j, k - 1 \in J PROVE k \in J
    <3>1. k \in 1..n /\ k \in 0..n
      OBVIOUS
    <3>2. m[k] = g[k] /\ g[k] \in Nat
      BY <2>2, <3>1, <1>6, <1>7, <1>12, <1>13
    <3> QED BY <3>1, <3>2, <1>13
  <2>3. j \in J
    <3> Climbs(J, j)
      BY <2>1, <2>2 DEF Climbs
    <3> QED BY StepByStep
  <2> QED BY <2>3, <1>13
<1>15. SumsUp(f, S, g)
  <2>1. n \in 0..n
    OBVIOUS
  <2>2. TotalOf(f, S) = g[n]
    BY ONLY <2>1, <1>11, <1>14
  <2> QED BY ONLY <1>1, <1>6, <1>7, <2>2 DEF SumsUp
<1> QED BY <1>15

\* The total of values added to others.
LEMMA TotalOfBoth ==
    ASSUME NEW f, NEW A, NEW B, Amounts(f, A), Amounts(f, B), A \cap B = {}
    PROVE  TotalOf(f, A \cup B) = TotalOf(f, A) + TotalOf(f, B)
<1>1. PICK n \in Nat : n = MaxValues
  BY MetricsAssumption
<1>2. Amounts(f, A \cup B)
  BY DEF Amounts
<1>3. PICK a : SumsUp(f, A, a)
  BY TotalIsSum
<1>4. PICK b : SumsUp(f, B, b)
  BY TotalIsSum
<1>5. PICK c : SumsUp(f, A \cup B, c)
  BY <1>2, TotalIsSum
<1>6. \A k : /\ AmountOf(f, A \cup B, k) = AmountOf(f, A, k) + AmountOf(f, B, k)
             /\ AmountOf(f, A, k) \in Nat /\ AmountOf(f, B, k) \in Nat
  BY DEF AmountOf, Amounts
<1>7. PICK J : J = {k \in 0..n : c[k] = a[k] + b[k]}
  OBVIOUS
<1>8. 0 \in J
  BY <1>3, <1>4, <1>5, <1>7 DEF SumsUp
<1>9. ASSUME NEW k \in 1..n, k - 1 \in J PROVE k \in J
  <2>1. k - 1 \in 0..n /\ k \in 0..n
    OBVIOUS
  <2>2. /\ a[k - 1] \in Nat /\ b[k - 1] \in Nat
        /\ a[k] = a[k - 1] + AmountOf(f, A, k) /\ b[k] = b[k - 1] + AmountOf(f, B, k)
        /\ c[k] = c[k - 1] + AmountOf(f, A \cup B, k) /\ c[k - 1] = a[k - 1] + b[k - 1]
    BY <2>1, <1>1, <1>3, <1>4, <1>5, <1>7, <1>9 DEF SumsUp
  <2>3. PICK x \in Nat, y \in Nat : x = AmountOf(f, A, k) /\ y = AmountOf(f, B, k)
    BY <1>6
  <2>4. AmountOf(f, A \cup B, k) = x + y
    BY <2>3, <1>6
  <2>5. c[k] = a[k] + b[k]
    BY <2>2, <2>3, <2>4
  <2> QED BY <2>1, <2>5, <1>7
<1>10. n \in J
  <2> Climbs(J, n)
    BY <1>8, <1>9 DEF Climbs
  <2> QED BY StepByStep
<1> QED BY <1>1, <1>3, <1>4, <1>5, <1>7, <1>10 DEF SumsUp

LEMMA TotalOfNone ==
    ASSUME NEW f
    PROVE  TotalOf(f, {}) = 0
<1>1. PICK n \in Nat : n = MaxValues
  BY MetricsAssumption
<1>2. Amounts(f, {})
  BY DEF Amounts
<1>3. PICK h : SumsUp(f, {}, h)
  BY <1>2, TotalIsSum
<1>4. TotalOf(f, {}) \in Nat
  BY <1>1, <1>3 DEF SumsUp
<1>5. PICK N : N = {}
  OBVIOUS
<1>6. TotalOf(f, N \cup N) = TotalOf(f, N) + TotalOf(f, N)
  BY <1>2, <1>5, TotalOfBoth
<1>7. N \cup N = N
  BY <1>5
<1>8. TotalOf(f, N) = TotalOf(f, N) + TotalOf(f, N)
  BY <1>6, <1>7, Zenon
<1>9. PICK x \in Nat : x = TotalOf(f, N)
  BY <1>4, <1>5
<1>10. x = 0
  <2>1. x = x + x
    BY <1>8, <1>9
  <2> QED BY <2>1
<1>11. TotalOf(f, N) = 0
  BY <1>9, <1>10
<1> QED BY <1>5, <1>11, Zenon

\* The total of one value.
LEMMA TotalOfOne ==
    ASSUME NEW f, NEW id \in 1..MaxValues, f[id].amount \in Nat
    PROVE  TotalOf(f, {id}) = f[id].amount
<1>1. PICK n \in Nat : n = MaxValues
  BY MetricsAssumption
<1>2. Amounts(f, {id})
  BY DEF Amounts
<1>3. PICK a : SumsUp(f, {id}, a)
  BY <1>2, TotalIsSum
<1>4. PICK v \in Nat : v = f[id].amount
  OBVIOUS
<1>5. PICK J : J = {k \in 0..n : a[k] = IF id <= k THEN v ELSE 0}
  OBVIOUS
<1>6. 0 \in J
  BY <1>3, <1>5 DEF SumsUp
<1>7. ASSUME NEW k \in 1..n, k - 1 \in J PROVE k \in J
  <2>1. k - 1 \in 0..n /\ k \in 0..n
    OBVIOUS
  <2>2. a[k] = a[k - 1] + AmountOf(f, {id}, k) /\ a[k - 1] = IF id <= k - 1 THEN v ELSE 0
    BY <2>1, <1>1, <1>3, <1>5, <1>7 DEF SumsUp
  <2>3. AmountOf(f, {id}, k) = IF k = id THEN v ELSE 0
    BY <1>4 DEF AmountOf
  <2>4. a[k] = IF id <= k THEN v ELSE 0
    BY <2>2, <2>3, <1>1
  <2> QED BY <2>1, <2>4, <1>5
<1>8. n \in J
  <2> Climbs(J, n)
    BY <1>6, <1>7 DEF Climbs
  <2> QED BY StepByStep
<1>9. TotalOf(f, {id}) = v
  BY <1>1, <1>3, <1>5, <1>8 DEF SumsUp
<1> QED BY <1>4, <1>9

\* The total stays when f goes on with more values.
LEMMA TotalStays ==
    ASSUME NEW f, NEW g, NEW S, Amounts(f, S), \A i \in S : g[i].amount = f[i].amount
    PROVE  TotalOf(g, S) = TotalOf(f, S)
<1>1. PICK n \in Nat : n = MaxValues
  BY MetricsAssumption
<1>2. Amounts(g, S)
  BY DEF Amounts
<1>3. PICK a : SumsUp(f, S, a)
  BY TotalIsSum
<1>4. PICK b : SumsUp(g, S, b)
  BY <1>2, TotalIsSum
<1>5. \A k : AmountOf(g, S, k) = AmountOf(f, S, k)
  BY DEF AmountOf
<1>6. PICK J : J = {k \in 0..n : b[k] = a[k]}
  OBVIOUS
<1>7. 0 \in J
  BY <1>3, <1>4, <1>6 DEF SumsUp
<1>8. ASSUME NEW k \in 1..n, k - 1 \in J PROVE k \in J
  <2>1. k - 1 \in 0..n /\ k \in 0..n
    OBVIOUS
  <2>2. /\ b[k - 1] = a[k - 1]
        /\ a[k] = a[k - 1] + AmountOf(f, S, k) /\ b[k] = b[k - 1] + AmountOf(g, S, k)
    BY <1>1, <1>3, <1>4, <1>6, <1>8 DEF SumsUp
  <2> QED BY <2>1, <2>2, <1>5, <1>6
<1>9. n \in J
  <2> Climbs(J, n)
    BY <1>7, <1>8 DEF Climbs
  <2> QED BY StepByStep
<1> QED BY <1>1, <1>3, <1>4, <1>6, <1>9 DEF SumsUp

StatsRecord == [count : Nat, total : Int, min : Int, max : Int, of : SUBSET Nat]

\* s is what values of f, those numbered s.of, add up to.
GoodStats(f, s, n) ==
    /\ s \in StatsRecord /\ IsFiniteSet(s.of) /\ s.of \subseteq DOMAIN f
    /\ s.count = Cardinality(s.of)
    /\ s.of = {} => s = NoStats
    /\ Amounts(f, s.of)
    /\ n \notin Counters =>
          /\ s.total = TotalOf(f, s.of)
          /\ \A i \in s.of : s.min <= f[i].amount /\ f[i].amount <= s.max
          /\ s.of # {} => /\ \E i \in s.of : f[i].amount = s.min
                          /\ \E i \in s.of : f[i].amount = s.max

Good(f, c) ==
    /\ c \in [MetricNames -> StatsRecord]
    /\ \A n \in MetricNames : GoodStats(f, c[n], n)

\* f goes on as g, with more values.
GoesOn(f, g) ==
    /\ DOMAIN f \subseteq DOMAIN g
    /\ \A i \in DOMAIN f : g[i].amount = f[i].amount

LEMMA GoodStays ==
    ASSUME NEW f, NEW g, GoesOn(f, g), NEW c, Good(f, c)
    PROVE  Good(g, c)
<1> SUFFICES ASSUME NEW n \in MetricNames
             PROVE  GoodStats(g, c[n], n)
  BY DEF Good
<1>1. GoodStats(f, c[n], n)
  BY DEF Good
<1>2. PICK s : s = c[n]
  OBVIOUS
<1>3. Amounts(f, s.of) /\ \A i \in s.of : g[i].amount = f[i].amount
  BY <1>1, <1>2 DEF GoesOn, GoodStats
<1>4. TotalOf(g, s.of) = TotalOf(f, s.of) /\ Amounts(g, s.of)
  BY <1>3, TotalStays DEF Amounts
<1>5. GoodStats(g, s, n)
  BY <1>1, <1>2, <1>3, <1>4 DEF GoesOn, GoodStats
<1> QED  BY <1>2, <1>5

LEMMA NoneIsGood ==
    ASSUME NEW f
    PROVE  Good(f, NoMetrics)
<1>1. NoStats \in StatsRecord
  BY DEF NoStats, StatsRecord
<1>2. NoStats.of = {} /\ NoStats.count = 0 /\ NoStats.total = 0
  BY DEF NoStats
<1>3. NoStats.total = TotalOf(f, NoStats.of) /\ Amounts(f, NoStats.of)
  BY <1>2, TotalOfNone DEF Amounts
<1>4. \A n \in MetricNames : GoodStats(f, NoStats, n)
  BY <1>1, <1>2, <1>3, FS_EmptySet DEF GoodStats
<1> QED  BY <1>1, <1>4 DEF Good, NoMetrics

LEMMA GoodRecorded ==
    ASSUME NEW f, NEW s, NEW n, GoodStats(f, s, n),
           NEW v \in Nat, NEW id \in 1 .. MaxValues, id \in DOMAIN f, f[id].amount = v, id \notin s.of
    PROVE  /\ GoodStats(f, Recorded(s, n, v, id), n)
           /\ Recorded(s, n, v, id).of = s.of \cup {id}
<1> DEFINE r == Recorded(s, n, v, id)
           of == s.of \cup {id}
           one == s.count + 1
           sum == s.total + v
           low == IF s.count > 0 THEN Lower(v, s.min) ELSE v
           high == Higher(v, s.max)
<1>1. /\ s \in StatsRecord /\ IsFiniteSet(s.of) /\ s.of \subseteq DOMAIN f
      /\ s.count = Cardinality(s.of) /\ (s.of = {} => s = NoStats)
      /\ Amounts(f, s.of) /\ id \in Nat
  BY DEF GoodStats
<1>2. /\ s.count \in Nat /\ s.total \in Int /\ s.min \in Int /\ s.max \in Int /\ s.of \in SUBSET Nat
  BY <1>1 DEF StatsRecord
<1>3. IsFiniteSet(of) /\ Cardinality(of) = one /\ of \in SUBSET Nat /\ of \subseteq DOMAIN f /\ of # {}
  BY <1>1, <1>2, FS_AddElement
<1>4. one \in Nat /\ sum \in Int /\ low \in Int /\ high \in Int
  BY <1>2 DEF Lower, Higher
<1>5. Amounts(f, of) /\ (n \notin Counters => sum = TotalOf(f, of))
  <2>1. TotalOf(f, s.of \cup {id}) = TotalOf(f, s.of) + TotalOf(f, {id})
    <3>1. Amounts(f, {id}) /\ s.of \cap {id} = {}
      BY DEF Amounts
    <3> QED  BY <1>1, <3>1, TotalOfBoth
  <2>2. TotalOf(f, {id}) = v
    BY TotalOfOne
  <2>3. n \notin Counters => s.total = TotalOf(f, s.of)
    BY DEF GoodStats
  <2> QED  BY <1>1, <2>1, <2>2, <2>3 DEF Amounts
<1>6. CASE n \in Counters
  <2>1. r = [s EXCEPT !.count = one, !.of = of]
    BY <1>6 DEF Recorded
  <2> HIDE DEF r, of, one
  <2>2. r \in StatsRecord /\ r.count = one /\ r.of = of
    BY <1>1, <1>3, <1>4, <2>1 DEF StatsRecord
  <2>3. GoodStats(f, r, n)
    BY <1>3, <1>6, <1>5, <2>2 DEF GoodStats
  <2> QED  BY <2>2, <2>3 DEF r, of
<1>7. CASE n \notin Counters
  <2>1. r = [count |-> one, total |-> sum, min |-> low, max |-> high, of |-> of]
    BY <1>7 DEF Recorded
  <2>2. s.count = 0 <=> s.of = {}
    BY <1>1, FS_EmptySet
  <2>3. /\ \A i \in s.of : s.min <= f[i].amount /\ f[i].amount <= s.max
        /\ s.of # {} => /\ \E i \in s.of : f[i].amount = s.min
                        /\ \E i \in s.of : f[i].amount = s.max
    BY <1>7 DEF GoodStats
  <2>4. s.of = {} => low = v /\ high = v
    BY <1>1, <2>2 DEF NoStats, Higher
  <2>5. s.of # {} => low = Lower(v, s.min) /\ high = Higher(v, s.max)
    BY <1>2, <2>2
  <2>6. \A i \in of : low <= f[i].amount /\ f[i].amount <= high
    BY <1>1, <1>2, <2>3, <2>4, <2>5 DEF Lower, Higher, Amounts
  <2>7. (\E i \in of : f[i].amount = low) /\ \E i \in of : f[i].amount = high
    BY <1>1, <1>2, <2>3, <2>4, <2>5 DEF Lower, Higher, Amounts
  <2> HIDE DEF r, of, one, sum, low, high
  <2>8. /\ r \in StatsRecord /\ r.count = one /\ r.total = sum
        /\ r.of = of /\ r.min = low /\ r.max = high
    BY <1>3, <1>4, <2>1 DEF StatsRecord
  <2>9. GoodStats(f, r, n)
    BY <1>3, <1>5, <2>6, <2>7, <2>8 DEF GoodStats
  <2> QED  BY <2>8, <2>9 DEF r, of
<1> QED  BY <1>6, <1>7

Both(a, b) == IF a = NoStats THEN b ELSE IF b = NoStats THEN a ELSE StatsMerged(a, b)

LEMMA GoodBoth ==
    ASSUME NEW f, NEW n, NEW a, GoodStats(f, a, n), NEW b, GoodStats(f, b, n),
           a.of \cap b.of = {}
    PROVE  GoodStats(f, Both(a, b), n) /\ Both(a, b).of = a.of \cup b.of
<1>1. NoStats.of = {}
  BY DEF NoStats
<1>2. CASE a = NoStats
  BY <1>1, <1>2 DEF Both
<1>3. CASE a # NoStats /\ b = NoStats
  BY <1>1, <1>3 DEF Both
<1>4. CASE a # NoStats /\ b # NoStats
  <2> DEFINE r == StatsMerged(a, b)
             of == a.of \cup b.of
             count == a.count + b.count
             sum == a.total + b.total
             low == Lower(a.min, b.min)
             high == Higher(a.max, b.max)
  <2>1. /\ a \in StatsRecord /\ IsFiniteSet(a.of) /\ a.of \subseteq DOMAIN f
        /\ a.count = Cardinality(a.of) /\ a.of # {}
        /\ b \in StatsRecord /\ IsFiniteSet(b.of) /\ b.of \subseteq DOMAIN f
        /\ b.count = Cardinality(b.of) /\ b.of # {}
    BY <1>4 DEF GoodStats
  <2>2. /\ a.count \in Nat /\ a.total \in Int /\ a.min \in Int /\ a.max \in Int /\ a.of \in SUBSET Nat
        /\ b.count \in Nat /\ b.total \in Int /\ b.min \in Int /\ b.max \in Int /\ b.of \in SUBSET Nat
    BY <2>1 DEF StatsRecord
  <2>3. a.count # 0 /\ b.count # 0
    BY <2>1, FS_EmptySet
  <2>4. IsFiniteSet(of) /\ Cardinality(of) = a.count + b.count - 0
    <3>1. IsFiniteSet(of) /\ Cardinality(of) = Cardinality(a.of) + Cardinality(b.of) - Cardinality(a.of \cap b.of)
      BY <2>1, FS_Union
    <3>2. Cardinality(a.of \cap b.of) = 0
      BY FS_EmptySet
    <3> QED  BY <2>1, <3>1, <3>2
  <2>5. Cardinality(of) = count /\ of \in SUBSET Nat /\ of \subseteq DOMAIN f /\ of # {}
    BY <2>1, <2>2, <2>4
  <2>6. count \in Nat /\ sum \in Int /\ low \in Int /\ high \in Int
    BY <2>2 DEF Lower, Higher
  <2>7. r = [count |-> count, total |-> sum, min |-> low, max |-> high, of |-> of]
    <3>1. b.count # 0 /\ a.count > 0
      BY <2>2, <2>3
    <3>2. low = IF b.count = 0 THEN a.min ELSE IF a.count > 0 THEN Lower(a.min, b.min) ELSE b.min
      BY <3>1
    <3> HIDE DEF low
    <3> QED  BY <3>2 DEF StatsMerged
  <2>8. \A i \in of : f[i].amount \in Nat
    BY DEF GoodStats, Amounts
  <2>9. n \notin Counters =>
          /\ \A i \in of : low <= f[i].amount /\ f[i].amount <= high
          /\ \E i \in of : f[i].amount = low
          /\ \E i \in of : f[i].amount = high
    <3> SUFFICES ASSUME n \notin Counters
                 PROVE  /\ \A i \in of : low <= f[i].amount /\ f[i].amount <= high
                        /\ \E i \in of : f[i].amount = low
                        /\ \E i \in of : f[i].amount = high
      OBVIOUS
    <3>1. /\ \A i \in a.of : a.min <= f[i].amount /\ f[i].amount <= a.max
          /\ \A i \in b.of : b.min <= f[i].amount /\ f[i].amount <= b.max
          /\ (\E i \in a.of : f[i].amount = a.min) /\ \E i \in a.of : f[i].amount = a.max
          /\ (\E i \in b.of : f[i].amount = b.min) /\ \E i \in b.of : f[i].amount = b.max
      BY <2>1 DEF GoodStats
    <3>2. \A i \in of : low <= f[i].amount /\ f[i].amount <= high
      BY <2>2, <2>8, <3>1 DEF Lower, Higher
    <3>3. (\E i \in of : f[i].amount = low) /\ \E i \in of : f[i].amount = high
      BY <2>2, <3>1 DEF Lower, Higher
    <3> QED  BY <3>2, <3>3
  <2>10. Amounts(f, of) /\ (n \notin Counters => sum = TotalOf(f, of))
    <3>1. Amounts(f, a.of) /\ Amounts(f, b.of)
      BY DEF GoodStats
    <3>2. TotalOf(f, of) = TotalOf(f, a.of) + TotalOf(f, b.of)
      BY <3>1, TotalOfBoth
    <3>3. n \notin Counters => a.total = TotalOf(f, a.of) /\ b.total = TotalOf(f, b.of)
      BY DEF GoodStats
    <3> QED  BY <3>1, <3>2, <3>3 DEF Amounts
  <2> HIDE DEF r, of, count, sum, low, high
  <2>11. /\ r \in StatsRecord /\ r.count = count /\ r.total = sum
        /\ r.of = of /\ r.min = low /\ r.max = high
    BY <2>5, <2>6, <2>7 DEF StatsRecord
  <2>12. GoodStats(f, r, n)
    BY <2>4, <2>5, <2>9, <2>11, <2>10 DEF GoodStats
  <2> QED  BY <1>4, <2>11, <2>12 DEF Both, r, of
<1> QED  BY <1>2, <1>3, <1>4

LEMMA GoodMerged ==
    ASSUME NEW f, NEW a, Good(f, a), NEW b, Good(f, b), Of(a) \cap Of(b) = {}
    PROVE  Good(f, NamesMerged(a, b)) /\ Of(NamesMerged(a, b)) = Of(a) \cup Of(b)
<1> DEFINE c == NamesMerged(a, b)
<1>1. c = [n \in MetricNames |-> Both(a[n], b[n])]
  BY DEF NamesMerged, Both
<1>2. ASSUME NEW n \in MetricNames
      PROVE  GoodStats(f, c[n], n) /\ c[n].of = a[n].of \cup b[n].of
  <2>1. GoodStats(f, a[n], n) /\ GoodStats(f, b[n], n)
    BY DEF Good
  <2>2. a[n].of \cap b[n].of = {}
    BY DEF Of
  <2> QED  BY <1>1, <2>1, <2>2, GoodBoth
<1> HIDE DEF c
<1>3. Of(c) = Of(a) \cup Of(b)
  BY <1>2 DEF Of
<1>4. c \in [MetricNames -> StatsRecord]
  BY <1>1, <1>2 DEF GoodStats
<1>5. Good(f, c)
  BY <1>2, <1>4 DEF Good
<1> QED  BY <1>3, <1>5 DEF c

LEMMA OfNothing ==
    /\ Of(NoMetrics) = {}
    /\ \A c : IsEmpty(c) => Of(c) = {}
<1>1. NoStats.of = {}
  BY DEF NoStats
<1> QED  BY <1>1 DEF Of, NoMetrics, IsEmpty

-----------------------------------------------------------------------------
\* The values of a payload.
In(s) == Of(payloads[s].data.stats)

PayloadRecord ==
    [sent : BOOLEAN, begin : Nat, end : Nat,
     data : [started : Nat, stats : [MetricNames -> StatsRecord]]]

MetricShape ==
    /\ second \in 0 .. MaxClock
    /\ \E k \in Nat : Values = 1 .. k
    /\ value \in [Values -> [amount : Nat, since : Nat]]
    /\ metrics \in [started : Nat, stats : [MetricNames -> StatsRecord]]
    /\ own \in [MetricNames -> StatsRecord]
    /\ payloads \in [MetricSlots -> PayloadRecord]
    /\ \A s \in MetricSlots : ~payloads[s].sent => payloads[s] = NotSent

AllGood ==
    /\ Good(value, metrics.stats) /\ Good(value, own)
    /\ \A s \in MetricSlots : Good(value, payloads[s].data.stats)

\* EveryValueOnce, value by value.
InOnePlace ==
    /\ \A i \in Values : \/ i \in taken \/ i \in Of(metrics.stats) \/ i \in Of(own)
                         \/ \E s \in MetricSlots : i \in In(s)
    /\ taken \subseteq Values
    /\ \A s, t \in MetricSlots : s # t => In(s) \cap In(t) = {}
    /\ \A s \in MetricSlots : In(s) \cap (Of(metrics.stats) \cup Of(own) \cup taken) = {}
    /\ Of(metrics.stats) \cap (Of(own) \cup taken) = {}
    /\ Of(own) \cap taken = {}

Periods ==
    /\ metrics.started <= second
    /\ \A i \in Values : value[i].since <= second
    /\ \A i \in Of(metrics.stats) : metrics.started <= value[i].since
    /\ \A s \in MetricSlots :
          /\ payloads[s].begin <= payloads[s].end /\ payloads[s].end <= second
          /\ payloads[s].data.started = payloads[s].begin
          /\ \A i \in In(s) : payloads[s].begin <= value[i].since /\ value[i].since <= payloads[s].end

MetricInv == MetricShape /\ AllGood /\ InOnePlace /\ Periods

LEMMA OfGood ==
    ASSUME NEW f, NEW c, Good(f, c)
    PROVE  Of(c) \subseteq DOMAIN f
BY DEF Good, GoodStats, Of

LEMMA NextNumber ==
    ASSUME MetricShape
    PROVE  /\ NextId \in Nat /\ NextId \notin Values
           /\ Values \cup {NextId} = 1 .. NextId /\ Values = 1 .. Cardinality(Values)
<1>1. PICK k \in Nat : Values = 1 .. k
  BY DEF MetricShape
<1>2. Cardinality(1 .. k) = k
  BY FS_Interval
<1>3. NextId = k + 1
  BY <1>1, <1>2 DEF NextId
<1> QED  BY <1>1, <1>2, <1>3

\* The value that is recorded has the next number and the time of the recording.
LEMMA NumberedEffect ==
    ASSUME MetricShape, NEW v \in MetricValues, Numbered(v)
    PROVE  /\ Values' = Values \cup {NextId} /\ \E k \in Nat : Values' = 1 .. k
           /\ value' \in [Values' -> [amount : Nat, since : Nat]]
           /\ value'[NextId].amount = v /\ value'[NextId].since = second
           /\ \A i \in Values : value'[i] = value[i]
           /\ GoesOn(value, value') /\ v \in Nat
<1>1. v \in Nat /\ second \in Nat
  BY MetricsAssumption DEF MetricShape
<1>2. value' = [i \in 1 .. NextId |-> IF i \in Values THEN value[i] ELSE [amount |-> v, since |-> second]]
  BY DEF Numbered, NextId
<1>3. Values' = 1 .. NextId /\ Values' = Values \cup {NextId}
  BY <1>2, NextNumber DEF Values
<1>4. \A i \in Values : value'[i] = value[i]
  BY <1>2, <1>3
<1>5. value'[NextId].amount = v /\ value'[NextId].since = second
  BY <1>2, <1>3, NextNumber
<1>6. [amount |-> v, since |-> second] \in [amount : Nat, since : Nat]
  BY <1>1
<1>7. value' \in [Values' -> [amount : Nat, since : Nat]]
  BY <1>2, <1>3, <1>6 DEF MetricShape
<1>8. GoesOn(value, value')
  BY <1>3, <1>4 DEF GoesOn, Values
<1> QED  BY <1>1, <1>3, <1>4, <1>5, <1>7, <1>8, NextNumber

\* A collection that takes the value in.
LEMMA TakesValue ==
    ASSUME MetricShape, NEW v \in MetricValues, Numbered(v),
           NEW c, Good(value, c), NEW n \in MetricNames
    PROVE  LET d == [c EXCEPT ![n] = Recorded(@, n, v, NextId)]
           IN  Good(value', d) /\ Of(d) = Of(c) \cup {NextId}
<1> DEFINE id == NextId
           r == Recorded(c[n], n, v, id)
<1>1. /\ value' \in [Values' -> [amount : Nat, since : Nat]]
      /\ Values' = Values \cup {id} /\ value'[id].amount = v /\ v \in Nat
      /\ GoesOn(value, value')
  BY NumberedEffect
<1>2. id \in 1 .. MaxValues /\ id \notin Values
  <2>1. NextId \in Nat /\ NextId \notin Values /\ Values = 1 .. Cardinality(Values)
    BY NextNumber
  <2>2. Cardinality(Values) \in Nat
    <3>1. PICK k \in Nat : Values = 1 .. k
      BY DEF MetricShape
    <3> QED  BY <3>1, FS_Interval
  <2> QED  BY <2>1, <2>2, MetricsAssumption DEF Numbered, NextId
<1> HIDE DEF id
<1>3. Good(value', c) /\ c \in [MetricNames -> StatsRecord]
  BY <1>1, GoodStays DEF Good
<1>4. GoodStats(value', c[n], n) /\ \A m \in MetricNames : GoodStats(value', c[m], m)
  BY <1>3 DEF Good
<1>5. id \notin c[n].of /\ id \in DOMAIN value'
  BY <1>1, <1>2 DEF Good, GoodStats, Values
<1>6. GoodStats(value', r, n) /\ r.of = c[n].of \cup {id}
  BY <1>1, <1>2, <1>4, <1>5, GoodRecorded
<1> HIDE DEF r
<1> DEFINE d == [c EXCEPT ![n] = r]
<1>7. d[n] = r /\ (\A m \in MetricNames : m # n => d[m] = c[m]) /\ DOMAIN d = MetricNames
  BY <1>3
<1>8. d \in [MetricNames -> StatsRecord]
  BY <1>3, <1>6 DEF GoodStats
<1>9. d = [c EXCEPT ![n] = Recorded(@, n, v, NextId)]
  BY DEF r, id
<1> HIDE DEF d
<1>10. Good(value', d)
  BY <1>4, <1>6, <1>7, <1>8 DEF Good
<1>11. Of(d) = Of(c) \cup {id}
  BY <1>6, <1>7 DEF Of
<1> QED  BY <1>9, <1>10, <1>11 DEF id

LEMMA MeasureStep ==
    ASSUME MetricInv, NEW n \in MetricNames, NEW v \in MetricValues, Measure(n, v)
    PROVE  MetricInv'
<1> USE DEF MetricInv
<1> DEFINE d == [metrics.stats EXCEPT ![n] = Recorded(@, n, v, NextId)]
<1>1. /\ Numbered(v) /\ UNCHANGED <<second, own, payloads, taken>>
      /\ metrics' = [metrics EXCEPT !.stats = d]
  BY DEF Measure
<1>2. Good(value, metrics.stats)
  BY DEF AllGood
<1>3. Good(value', d) /\ Of(d) = Of(metrics.stats) \cup {NextId}
  BY <1>1, <1>2, TakesValue
<1>4. /\ Values' = Values \cup {NextId} /\ \E k \in Nat : Values' = 1 .. k
      /\ value' \in [Values' -> [amount : Nat, since : Nat]]
      /\ value'[NextId].amount = v /\ value'[NextId].since = second
      /\ \A i \in Values : value'[i] = value[i]
      /\ GoesOn(value, value')
  BY <1>1, NumberedEffect
<1>5. NextId \notin Values
  BY NextNumber
<1> HIDE DEF d
<1>6. d \in [MetricNames -> StatsRecord]
  BY <1>3 DEF Good
<1>7. /\ metrics' \in [started : Nat, stats : [MetricNames -> StatsRecord]]
      /\ metrics'.started = metrics.started /\ metrics'.stats = d
  BY <1>1, <1>6 DEF MetricShape
<1>8. MetricShape'
  BY <1>1, <1>4, <1>7 DEF MetricShape
<1>9. Good(value', own) /\ \A s \in MetricSlots : Good(value', payloads[s].data.stats)
  BY <1>4, GoodStays DEF AllGood
<1>10. AllGood'
  BY <1>1, <1>3, <1>7, <1>9 DEF AllGood
<1>11. /\ Of(metrics.stats) \subseteq Values /\ Of(own) \subseteq Values /\ taken \subseteq Values
       /\ \A s \in MetricSlots : In(s) \subseteq Values /\ In(s)' = In(s)
  BY <1>1, <1>2, OfGood DEF AllGood, Values, In, InOnePlace
<1>12. Of(metrics'.stats) = Of(metrics.stats) \cup {NextId} /\ Of(own') = Of(own)
  BY <1>1, <1>3, <1>7
<1>13. InOnePlace'
  <2>1. /\ taken' = taken /\ \A s \in MetricSlots : In(s)' = In(s)
        /\ \A i : i \in Values' <=> i \in Values \/ i = NextId
        /\ \A i : i \in Of(metrics'.stats) <=> i \in Of(metrics.stats) \/ i = NextId
    BY <1>1, <1>4, <1>11, <1>12
  <2>2. /\ NextId \notin Of(own) /\ NextId \notin taken
        /\ \A s \in MetricSlots : NextId \notin In(s)
    BY <1>5, <1>11
  <2>3. \A i \in Values' : \/ i \in taken' \/ i \in Of(metrics'.stats) \/ i \in Of(own')
                            \/ \E s \in MetricSlots : i \in In(s)'
    BY <1>12, <2>1 DEF InOnePlace
  <2>4. \A s \in MetricSlots : In(s)' \cap (Of(metrics'.stats) \cup Of(own') \cup taken') = {}
    BY <1>12, <2>1, <2>2 DEF InOnePlace
  <2>5. /\ Of(metrics'.stats) \cap (Of(own') \cup taken') = {}
        /\ Of(own') \cap taken' = {}
    BY <1>12, <2>1, <2>2 DEF InOnePlace
  <2>6. taken' \subseteq Values' /\ \A s, t \in MetricSlots : s # t => In(s)' \cap In(t)' = {}
    BY <2>1 DEF InOnePlace
  <2> QED  BY <2>3, <2>4, <2>5, <2>6 DEF InOnePlace
<1>14. second \in Nat
  BY MetricsAssumption DEF MetricShape
<1>15. \A i \in Values' : value'[i].since <= second'
  BY <1>1, <1>4, <1>14 DEF Periods
<1>16. \A i \in Of(metrics'.stats) : metrics'.started <= value'[i].since
  BY <1>4, <1>7, <1>11, <1>12 DEF Periods
<1>17. \A s \in MetricSlots : \A i \in In(s) : value'[i] = value[i]
  BY <1>4, <1>11
<1>18. Periods'
  BY <1>1, <1>7, <1>11, <1>15, <1>16, <1>17 DEF Periods
<1> QED  BY <1>8, <1>10, <1>13, <1>18

LEMMA TxMeasureStep ==
    ASSUME MetricInv, NEW n \in MetricNames, NEW v \in MetricValues, TxMeasure(n, v)
    PROVE  MetricInv'
<1> USE DEF MetricInv
<1> DEFINE d == [own EXCEPT ![n] = Recorded(@, n, v, NextId)]
<1>1. /\ Numbered(v) /\ UNCHANGED <<second, metrics, payloads, taken>> /\ own' = d
  BY DEF TxMeasure
<1>2. Good(value, own)
  BY DEF AllGood
<1>3. Good(value', d) /\ Of(d) = Of(own) \cup {NextId}
  BY <1>1, <1>2, TakesValue
<1>4. /\ Values' = Values \cup {NextId} /\ \E k \in Nat : Values' = 1 .. k
      /\ value' \in [Values' -> [amount : Nat, since : Nat]]
      /\ value'[NextId].amount = v /\ value'[NextId].since = second
      /\ \A i \in Values : value'[i] = value[i]
      /\ GoesOn(value, value')
  BY <1>1, NumberedEffect
<1>5. NextId \notin Values
  BY NextNumber
<1> HIDE DEF d
<1>6. d \in [MetricNames -> StatsRecord]
  BY <1>3 DEF Good
<1>7. MetricShape'
  BY <1>1, <1>4, <1>6 DEF MetricShape
<1>8. Good(value', metrics.stats) /\ \A s \in MetricSlots : Good(value', payloads[s].data.stats)
  BY <1>4, GoodStays DEF AllGood
<1>9. AllGood'
  BY <1>1, <1>3, <1>8 DEF AllGood
<1>10. /\ Of(metrics.stats) \subseteq Values /\ Of(own) \subseteq Values /\ taken \subseteq Values
       /\ \A s \in MetricSlots : In(s) \subseteq Values /\ In(s)' = In(s)
  BY <1>1, <1>2, OfGood DEF AllGood, Values, In, InOnePlace
<1>11. Of(own') = Of(own) \cup {NextId} /\ Of(metrics'.stats) = Of(metrics.stats)
  BY <1>1, <1>3
<1>12. InOnePlace'
  <2>1. /\ taken' = taken /\ \A s \in MetricSlots : In(s)' = In(s)
        /\ \A i : i \in Values' <=> i \in Values \/ i = NextId
        /\ \A i : i \in Of(own') <=> i \in Of(own) \/ i = NextId
    BY <1>1, <1>4, <1>10, <1>11
  <2>2. /\ NextId \notin Of(metrics.stats) /\ NextId \notin taken
        /\ \A s \in MetricSlots : NextId \notin In(s)
    BY <1>5, <1>10
  <2>3. \A i \in Values' : \/ i \in taken' \/ i \in Of(metrics'.stats) \/ i \in Of(own')
                            \/ \E s \in MetricSlots : i \in In(s)'
    BY <1>11, <2>1 DEF InOnePlace
  <2>4. \A s \in MetricSlots : In(s)' \cap (Of(metrics'.stats) \cup Of(own') \cup taken') = {}
    BY <1>11, <2>1, <2>2 DEF InOnePlace
  <2>5. /\ Of(metrics'.stats) \cap (Of(own') \cup taken') = {}
        /\ Of(own') \cap taken' = {}
    BY <1>11, <2>1, <2>2 DEF InOnePlace
  <2>6. taken' \subseteq Values' /\ \A s, t \in MetricSlots : s # t => In(s)' \cap In(t)' = {}
    BY <2>1 DEF InOnePlace
  <2> QED  BY <2>3, <2>4, <2>5, <2>6 DEF InOnePlace
<1>13. second \in Nat
  BY MetricsAssumption DEF MetricShape
<1>14. \A i \in Values' : value'[i].since <= second'
  <2>1. \A i \in Values : value'[i].since <= second
    BY <1>4 DEF Periods
  <2>2. value'[NextId].since <= second
    BY <1>4, <1>13
  <2> QED  BY <1>1, <1>4, <2>1, <2>2
<1>15. Periods'
  BY <1>1, <1>4, <1>10, <1>11, <1>14 DEF Periods
<1> QED  BY <1>7, <1>9, <1>12, <1>15

LEMMA TxMergedStep == MetricInv /\ TxMerged => MetricInv'
<1> SUFFICES ASSUME MetricInv, TxMerged
             PROVE  MetricInv'
  OBVIOUS
<1> USE DEF MetricInv
<1> DEFINE d == NamesMerged(metrics.stats, own)
<1>1. /\ metrics' = [metrics EXCEPT !.stats = d] /\ own' = NoMetrics
      /\ UNCHANGED <<second, payloads, taken>>
      /\ value' = [i \in Values |-> IF i \in Of(own) THEN [value[i] EXCEPT !.since = second] ELSE value[i]]
  BY DEF TxMerged
<1>2. second \in Nat /\ value \in [Values -> [amount : Nat, since : Nat]]
  BY MetricsAssumption DEF MetricShape
<1>3. Values' = Values
  BY <1>1 DEF Values
<1>4. /\ \A i \in Values : value'[i].amount = value[i].amount /\ value'[i] \in [amount : Nat, since : Nat]
      /\ \A i \in Of(own) : i \in Values => value'[i].since = second
      /\ \A i \in Values : i \notin Of(own) => value'[i].since = value[i].since
      /\ value' \in [Values -> [amount : Nat, since : Nat]]
  BY <1>1, <1>2
<1>5. GoesOn(value, value') /\ \A i \in DOMAIN value' : value'[i].amount \in Nat
  BY <1>3, <1>4 DEF GoesOn, Values
<1>6. /\ Good(value', metrics.stats) /\ Good(value', own)
      /\ \A s \in MetricSlots : Good(value', payloads[s].data.stats)
  BY <1>5, GoodStays DEF AllGood
<1>7. Of(metrics.stats) \cap Of(own) = {}
  BY DEF InOnePlace
<1>8. Good(value', d) /\ Of(d) = Of(metrics.stats) \cup Of(own)
  BY <1>5, <1>6, <1>7, GoodMerged
<1> HIDE DEF d
<1>9. /\ metrics' \in [started : Nat, stats : [MetricNames -> StatsRecord]]
      /\ metrics'.started = metrics.started /\ metrics'.stats = d
  BY <1>1, <1>8 DEF MetricShape, Good
<1>10. Good(value', NoMetrics) /\ Of(NoMetrics) = {} /\ NoMetrics \in [MetricNames -> StatsRecord]
  BY NoneIsGood, OfNothing DEF Good
<1>11. MetricShape'
  BY <1>1, <1>3, <1>4, <1>9, <1>10 DEF MetricShape
<1>12. AllGood'
  BY <1>1, <1>6, <1>8, <1>9, <1>10 DEF AllGood
<1>13. \A s \in MetricSlots : In(s)' = In(s) /\ In(s) \subseteq Values
  BY <1>1, OfGood DEF In, AllGood, Values
<1>14. Of(metrics'.stats) = Of(metrics.stats) \cup Of(own) /\ Of(own') = {}
  BY <1>1, <1>8, <1>9, <1>10
<1>15. InOnePlace'
  BY <1>1, <1>3, <1>13, <1>14 DEF InOnePlace
<1>16. Of(metrics.stats) \subseteq Values /\ Of(own) \subseteq Values
  BY OfGood DEF AllGood, Values
<1>17. \A i \in Values : value'[i].since <= second
  BY <1>2, <1>4 DEF Periods
<1>18. \A i \in Of(metrics'.stats) : metrics'.started <= value'[i].since
  BY <1>4, <1>7, <1>9, <1>14, <1>16 DEF Periods
<1>19. \A s \in MetricSlots : \A i \in In(s) : value'[i].since = value[i].since
  BY <1>4, <1>13 DEF InOnePlace
<1>20. Periods'
  BY <1>1, <1>3, <1>9, <1>13, <1>17, <1>18, <1>19 DEF Periods
<1> QED  BY <1>11, <1>12, <1>15, <1>20

\* A new collection.
LEMMA NewCollection ==
    ASSUME NEW f, NEW now \in Nat
    PROVE  /\ Collection(now) \in [started : Nat, stats : [MetricNames -> StatsRecord]]
           /\ Collection(now).started = now /\ Collection(now).stats = NoMetrics
           /\ Good(f, NoMetrics) /\ Of(NoMetrics) = {}
BY NoneIsGood, OfNothing DEF Collection, Good

\* A slot takes another payload.
LEMMA SlotChanged ==
    ASSUME payloads \in [MetricSlots -> PayloadRecord], NEW s \in MetricSlots, NEW p \in PayloadRecord,
           payloads' = [payloads EXCEPT ![s] = p]
    PROVE  /\ payloads' \in [MetricSlots -> PayloadRecord]
           /\ payloads'[s] = p /\ In(s)' = Of(p.data.stats)
           /\ \A t \in MetricSlots : t # s => payloads'[t] = payloads[t] /\ In(t)' = In(t)
BY DEF In

LEMMA EmptySlot ==
    /\ NotSent \in PayloadRecord /\ ~NotSent.sent /\ NotSent.data.stats = NoMetrics
    /\ NotSent.begin = 0 /\ NotSent.end = 0 /\ NotSent.data.started = 0
    /\ Of(NotSent.data.stats) = {}
<1>1. /\ Collection(0) \in [started : Nat, stats : [MetricNames -> StatsRecord]]
      /\ Collection(0).started = 0 /\ Collection(0).stats = NoMetrics /\ Of(NoMetrics) = {}
  BY NewCollection
<1> QED  BY <1>1 DEF NotSent, PayloadRecord

LEMMA SendMetricsStep ==
    ASSUME MetricInv, NEW s \in MetricSlots, SendMetrics(s)
    PROVE  MetricInv'
<1> USE DEF MetricInv
<1>1. /\ ~payloads[s].sent /\ metrics' = Collection(second)
      /\ UNCHANGED <<second, value, own, taken>>
  BY DEF SendMetrics
<1>2. second \in Nat
  BY MetricsAssumption DEF MetricShape
<1>3. /\ metrics' \in [started : Nat, stats : [MetricNames -> StatsRecord]]
      /\ metrics'.started = second /\ metrics'.stats = NoMetrics
      /\ Good(value, NoMetrics) /\ Of(NoMetrics) = {}
  BY <1>1, <1>2, NewCollection
<1>4. In(s) = {}
  BY <1>1, EmptySlot DEF In, MetricShape
<1>5. Values' = Values /\ value' = value /\ Of(own') = Of(own) /\ Of(metrics'.stats) = {}
  BY <1>1, <1>3 DEF Values
<1>6. CASE IsEmpty(metrics.stats)
  <2>1. payloads' = payloads /\ \A t \in MetricSlots : In(t)' = In(t)
    BY <1>6 DEF SendMetrics, In
  <2>2. Of(metrics.stats) = {}
    BY <1>6, OfNothing
  <2>3. MetricShape'
    BY <1>1, <1>3, <1>5, <2>1 DEF MetricShape
  <2>4. AllGood'
    BY <1>1, <1>3, <2>1 DEF AllGood
  <2>5. InOnePlace'
    BY <1>1, <1>5, <2>1, <2>2 DEF InOnePlace
  <2>6. Periods'
    BY <1>1, <1>2, <1>3, <1>5, <2>1 DEF Periods
  <2> QED  BY <2>3, <2>4, <2>5, <2>6
<1>7. CASE ~IsEmpty(metrics.stats)
  <2> DEFINE p == [sent |-> TRUE, begin |-> metrics.started, end |-> second, data |-> metrics]
  <2>1. payloads' = [payloads EXCEPT ![s] = p]
    BY <1>7 DEF SendMetrics
  <2>2. /\ p \in PayloadRecord /\ p.sent /\ p.begin = metrics.started /\ p.end = second
        /\ p.data = metrics
    BY <1>2 DEF PayloadRecord, MetricShape
  <2> HIDE DEF p
  <2>3. /\ payloads' \in [MetricSlots -> PayloadRecord]
        /\ payloads'[s] = p /\ In(s)' = Of(metrics.stats)
        /\ \A t \in MetricSlots : t # s => payloads'[t] = payloads[t] /\ In(t)' = In(t)
    <3>1. payloads \in [MetricSlots -> PayloadRecord]
      BY DEF MetricShape
    <3> QED  BY <2>1, <2>2, <3>1, SlotChanged
  <2>4. MetricShape'
    BY <1>1, <1>3, <1>5, <2>2, <2>3 DEF MetricShape
  <2>5. AllGood'
    BY <1>1, <1>3, <2>2, <2>3 DEF AllGood
  <2>6. InOnePlace'
    <3>1. \A i \in Values : \/ i \in taken \/ i \in Of(own) \/ \E t \in MetricSlots : i \in In(t)'
      BY <1>4, <2>3 DEF InOnePlace
    <3>2. \A t, u \in MetricSlots : t # u => In(t)' \cap In(u)' = {}
      BY <2>3 DEF InOnePlace
    <3>3. \A t \in MetricSlots : In(t)' \cap (Of(own) \cup taken) = {}
      BY <2>3 DEF InOnePlace
    <3> QED  BY <1>1, <1>5, <3>1, <3>2, <3>3 DEF InOnePlace
  <2>7. \A t \in MetricSlots :
           /\ payloads'[t].begin <= payloads'[t].end /\ payloads'[t].end <= second
           /\ payloads'[t].data.started = payloads'[t].begin
    BY <1>2, <2>2, <2>3 DEF Periods
  <2>8. Of(metrics.stats) \subseteq Values
    BY OfGood DEF AllGood, Values
  <2>9. \A t \in MetricSlots : \A i \in In(t)' :
           payloads'[t].begin <= value[i].since /\ value[i].since <= payloads'[t].end
    BY <2>2, <2>3, <2>8 DEF Periods
  <2>10. Periods'
    BY <1>1, <1>2, <1>3, <1>5, <2>7, <2>9 DEF Periods
  <2> QED  BY <2>4, <2>5, <2>6, <2>10
<1> QED  BY <1>6, <1>7

LEMMA AnsweredStep ==
    ASSUME MetricInv, NEW s \in MetricSlots, NEW retain \in BOOLEAN, MetricsAnswered(s, retain)
    PROVE  MetricInv'
<1> USE DEF MetricInv
<1>1. /\ payloads' = [payloads EXCEPT ![s] = NotSent] /\ UNCHANGED <<second, value, own>>
      /\ Values' = Values /\ value' = value /\ Of(own') = Of(own)
  BY DEF MetricsAnswered, Values
<1>2. second \in Nat
  BY MetricsAssumption DEF MetricShape
<1>3. /\ payloads' \in [MetricSlots -> PayloadRecord]
      /\ payloads'[s] = NotSent /\ In(s)' = {}
      /\ \A t \in MetricSlots : t # s => payloads'[t] = payloads[t] /\ In(t)' = In(t)
  <2>1. payloads \in [MetricSlots -> PayloadRecord]
    BY DEF MetricShape
  <2> QED  BY <1>1, <2>1, SlotChanged, EmptySlot
<1>4. /\ \A t \in MetricSlots : ~payloads'[t].sent => payloads'[t] = NotSent
      /\ \A t \in MetricSlots : Good(value, payloads'[t].data.stats)
  BY <1>3, NoneIsGood, EmptySlot DEF MetricShape, AllGood
<1>5. \A t \in MetricSlots :
          /\ payloads'[t].begin <= payloads'[t].end /\ payloads'[t].end <= second
          /\ payloads'[t].data.started = payloads'[t].begin
          /\ \A i \in In(t)' : payloads'[t].begin <= value[i].since /\ value[i].since <= payloads'[t].end
  BY <1>2, <1>3, EmptySlot DEF Periods
<1>6. In(s) \subseteq Values /\ Of(metrics.stats) \subseteq Values /\ Of(own) \subseteq Values
  BY OfGood DEF AllGood, Values, In
<1>7. \A t, u \in MetricSlots : t # u => In(t)' \cap In(u)' = {}
  BY <1>3 DEF InOnePlace
<1>8. \A t \in MetricSlots : In(t)' \cap (In(s) \cup Of(metrics.stats) \cup Of(own) \cup taken) = {}
  BY <1>3 DEF InOnePlace
<1>9. CASE ~retain
  <2>1. taken' = taken \cup In(s) /\ metrics' = metrics /\ Of(metrics'.stats) = Of(metrics.stats)
    BY <1>9 DEF MetricsAnswered, In
  <2>2. MetricShape'
    BY <1>1, <1>3, <1>4, <2>1 DEF MetricShape
  <2>3. AllGood'
    BY <1>1, <1>4, <2>1 DEF AllGood
  <2>4. \A i \in Values : \/ i \in taken' \/ i \in Of(metrics.stats) \/ i \in Of(own)
                          \/ \E t \in MetricSlots : i \in In(t)'
    BY <1>3, <2>1 DEF InOnePlace
  <2>5. taken' \subseteq Values /\ Of(metrics.stats) \cap taken' = {} /\ Of(own) \cap taken' = {}
    BY <1>6, <2>1 DEF InOnePlace
  <2>6. InOnePlace'
    BY <1>1, <1>7, <1>8, <2>1, <2>4, <2>5 DEF InOnePlace
  <2>7. Periods'
    BY <1>1, <1>5, <2>1 DEF Periods
  <2> QED  BY <2>2, <2>3, <2>6, <2>7
<1>10. CASE retain
  <2> DEFINE old == payloads[s].data
             d == NamesMerged(metrics.stats, old.stats)
             start == Lower(metrics.started, old.started)
  <2>1. metrics' = [started |-> start, stats |-> d] /\ taken' = taken
    BY <1>10 DEF MetricsAnswered, Restored
  <2>2. /\ metrics.started \in Nat /\ old.started \in Nat
        /\ value \in [Values -> [amount : Nat, since : Nat]]
    BY DEF MetricShape, PayloadRecord
  <2>3. start \in Nat /\ start <= metrics.started /\ start <= old.started
    BY <2>2 DEF Lower
  <2>4. Good(value, d) /\ Of(d) = Of(metrics.stats) \cup In(s)
    <3>1. Good(value, metrics.stats) /\ Good(value, old.stats) /\ Of(metrics.stats) \cap Of(old.stats) = {}
      BY DEF AllGood, InOnePlace, In
    <3>2. \A i \in DOMAIN value : value[i].amount \in Nat
      BY <2>2 DEF Values
    <3> QED  BY <3>1, <3>2, GoodMerged DEF In
  <2>5. old.started = payloads[s].begin /\ payloads[s].begin \in Nat
    BY DEF Periods, MetricShape, PayloadRecord
  <2> HIDE DEF d, start, old
  <2>6. metrics' \in [started : Nat, stats : [MetricNames -> StatsRecord]] /\ metrics'.started = start
        /\ metrics'.stats = d
    BY <2>1, <2>3, <2>4 DEF Good
  <2>7. MetricShape'
    BY <1>1, <1>3, <1>4, <2>6 DEF MetricShape
  <2>8. AllGood'
    BY <1>1, <1>4, <2>4, <2>6 DEF AllGood
  <2>9. \A i \in Values : \/ i \in taken \/ i \in Of(d) \/ i \in Of(own)
                          \/ \E t \in MetricSlots : i \in In(t)'
    BY <1>3, <2>4 DEF InOnePlace
  <2>10. Of(d) \cap (Of(own) \cup taken) = {}
    BY <2>4 DEF InOnePlace
  <2>11. \A t \in MetricSlots : In(t)' \cap (Of(d) \cup Of(own) \cup taken) = {}
    BY <1>8, <2>4
  <2>12. InOnePlace'
    BY <1>1, <1>7, <2>1, <2>6, <2>9, <2>10, <2>11 DEF InOnePlace
  <2>13. \A i \in Of(d) : start <= value[i].since
    <3> SUFFICES ASSUME NEW i \in Of(d)
                 PROVE  start <= value[i].since
      OBVIOUS
    <3>1. i \in Values /\ value[i].since \in Nat
      BY <1>6, <2>2, <2>4
    <3>2. metrics.started <= value[i].since \/ old.started <= value[i].since
      BY <2>4, <2>5 DEF Periods
    <3> QED  BY <2>2, <2>3, <3>1, <3>2
  <2>14. start <= second
    BY <1>2, <2>2, <2>3 DEF Periods
  <2>15. Periods'
    BY <1>1, <1>5, <2>6, <2>13, <2>14 DEF Periods
  <2> QED  BY <2>7, <2>8, <2>12, <2>15
<1> QED  BY <1>9, <1>10

LEMMA MetricInitial == MetricInit => MetricInv
<1> SUFFICES ASSUME MetricInit
             PROVE  MetricInv
  OBVIOUS
<1> USE DEF MetricInit, MetricInv
<1>1. 0 \in 0 .. MaxClock
  BY MetricsAssumption
<1>2. Values = {} /\ Values = 1 .. 0
  BY DEF Values
<1>3. /\ metrics \in [started : Nat, stats : [MetricNames -> StatsRecord]]
      /\ metrics.started = 0 /\ metrics.stats = NoMetrics
      /\ Good(value, NoMetrics) /\ Of(NoMetrics) = {} /\ NoMetrics \in [MetricNames -> StatsRecord]
  BY NewCollection DEF Good
<1>4. \A s \in MetricSlots : payloads[s] = NotSent /\ In(s) = {}
  BY EmptySlot DEF In
<1>5. payloads \in [MetricSlots -> PayloadRecord]
  BY EmptySlot
<1>6. value \in [Values -> [amount : Nat, since : Nat]]
  BY <1>2 DEF Values
<1>7. MetricShape
  BY <1>1, <1>2, <1>3, <1>4, <1>5, <1>6 DEF MetricShape
<1>8. AllGood
  BY <1>3, <1>4, EmptySlot DEF AllGood
<1>9. InOnePlace
  BY <1>2, <1>3, <1>4 DEF InOnePlace
<1>10. Periods
  BY <1>2, <1>3, <1>4, EmptySlot DEF Periods
<1> QED  BY <1>7, <1>8, <1>9, <1>10

LEMMA MetricStep == MetricInv /\ [MetricNext]_metricVars => MetricInv'
<1> SUFFICES ASSUME MetricInv, [MetricNext]_metricVars
             PROVE  MetricInv'
  OBVIOUS
<1>1. CASE MetricsTick
  <2> USE DEF MetricInv
  <2>1. /\ second' = second + 1 /\ second < MaxClock
        /\ UNCHANGED <<value, metrics, own, payloads, taken>>
    BY <1>1 DEF MetricsTick
  <2>2. second \in Nat /\ second' \in 0 .. MaxClock
    BY <2>1, MetricsAssumption DEF MetricShape
  <2>3. Values' = Values /\ \A s \in MetricSlots : In(s)' = In(s)
    BY <2>1 DEF Values, In
  <2>4. MetricShape' /\ AllGood' /\ InOnePlace'
    <3>1. MetricShape'
      BY <2>1, <2>2, <2>3 DEF MetricShape
    <3>2. AllGood'
      BY <2>1 DEF AllGood
    <3>3. InOnePlace'
      BY <2>1, <2>3 DEF InOnePlace
    <3> QED  BY <3>1, <3>2, <3>3
  <2>5. \A i \in Values : value[i].since \in Nat
    BY DEF MetricShape
  <2>6. \A s \in MetricSlots : payloads[s].end \in Nat
    BY DEF MetricShape, PayloadRecord
  <2>7. metrics.started \in Nat
    BY DEF MetricShape
  <2>8. Periods'
    BY <2>1, <2>2, <2>3, <2>5, <2>6, <2>7 DEF Periods
  <2> QED  BY <2>4, <2>8
<1>2. CASE UNCHANGED metricVars
  BY <1>2 DEF metricVars, MetricInv, MetricShape, AllGood, InOnePlace, Periods, Values, In
<1> QED
  BY <1>1, <1>2, MeasureStep, TxMeasureStep, TxMergedStep, SendMetricsStep, AnsweredStep DEF MetricNext

\* Metrics say what was measured, each value once, in a period that covers it: for any names,
\* values and number of payloads on their way, whatever the order of their answers.
THEOREM MetricsAreCorrect == MetricSpec => []MetricsCorrect
<1> SUFFICES MetricInv => MetricsCorrect
  BY MetricInitial, MetricStep, PTL DEF MetricSpec
<1> SUFFICES ASSUME MetricInv
             PROVE  MetricsCorrect
  OBVIOUS
<1> USE DEF MetricInv
<1>0. /\ second \in Nat /\ metrics.started \in Nat
      /\ \A i \in Values : value[i].since \in Nat
      /\ \A s \in MetricSlots : payloads[s].begin \in Nat /\ payloads[s].end \in Nat
  BY MetricsAssumption DEF MetricShape, PayloadRecord
<1>1. MetricTypeOK
  <2>1. Values = 1 .. Cardinality(Values)
    BY NextNumber
  <2>2. second \in 0 .. MaxClock
    BY DEF MetricShape
  <2>3. metrics.started \in 0 .. second
    BY <1>0 DEF Periods
  <2>4. \A s \in MetricSlots : payloads[s].begin <= payloads[s].end /\ payloads[s].end <= second
    BY DEF Periods
  <2> QED  BY <2>1, <2>2, <2>3, <2>4 DEF MetricTypeOK
<1>2. StatsAddUp
  <2> SUFFICES ASSUME NEW c \in Collections, NEW n \in MetricNames
               PROVE  LET amounts == {value[i].amount : i \in c[n].of} IN
                      /\ c[n].count = Cardinality(c[n].of)
                      /\ n \notin Counters => c[n].total = TotalOf(value, c[n].of)
                      /\ (n \notin Counters /\ amounts # {}) =>
                            /\ {c[n].min, c[n].max} \subseteq amounts
                            /\ \A a \in amounts : c[n].min <= a /\ a <= c[n].max
    BY DEF StatsAddUp
  <2>1. GoodStats(value, c[n], n)
    BY DEF Collections, AllGood, Good
  <2> QED  BY <2>1 DEF GoodStats
<1>3. EveryValueOnce
  <2>1. /\ Of(metrics.stats) \subseteq Values /\ Of(own) \subseteq Values
        /\ \A s \in MetricSlots : In(s) \subseteq Values
    BY OfGood DEF AllGood, Values, In
  <2>2. Values = taken \cup UNION {Of(c) : c \in Collections}
    BY <2>1 DEF InOnePlace, Collections, In
  <2> QED  BY <2>2 DEF EveryValueOnce, InOnePlace, In
<1>4. PeriodCovers
  <2>1. \A s \in MetricSlots : \A i \in In(s) : value[i].since \in payloads[s].begin .. payloads[s].end
    <3> SUFFICES ASSUME NEW s \in MetricSlots, NEW i \in In(s)
                 PROVE  value[i].since \in payloads[s].begin .. payloads[s].end
      OBVIOUS
    <3>1. i \in Values
      BY OfGood DEF AllGood, Values, In
    <3> QED  BY <1>0, <3>1 DEF Periods
  <2> QED  BY <2>1 DEF PeriodCovers, Periods, In
<1> QED  BY <1>1, <1>2, <1>3, <1>4 DEF MetricsCorrect

-----------------------------------------------------------------------------
(***************************************************************************)
(* Calls of the collector.  At each stage an exchange has as many answers, *)
(* given or due, as have been earned, and what it took from the            *)
(* configuration belongs together.                                         *)
(***************************************************************************)
BackWith == {"error", "whole", "partial"}

Exchange ==
    [stage : {"new", "compressing", "requested", "responding", "over"},
     run : RemoteRuns, headers : RemoteRuns, host : RemoteRuns, hostHeader : RemoteRuns,
     compressed : BOOLEAN, fits : BOOLEAN, brokeOff : BOOLEAN, due : SUBSET BackWith, answers : Seq(BackWith)]

Earned(x) ==
    CASE x.stage = "over" -> Len(x.answers) + Cardinality(x.due) = 1 + (IF x.brokeOff THEN 1 ELSE 0)
      [] x.stage = "responding" -> x.due = {} /\ Len(x.answers) = (IF x.brokeOff THEN 1 ELSE 0)
      [] OTHER -> x.due = {} /\ x.answers = <<>> /\ ~x.brokeOff

Together(x) ==
    /\ x.stage = "compressing" => x.compressed
    /\ x.stage \in {"compressing", "requested", "responding"} =>
           /\ x.run # NoRun /\ x.headers = x.run
           /\ ~x.compressed /\ x.stage # "compressing" => x.hostHeader = x.host

SoundExchange(x) == x \in Exchange /\ Earned(x) /\ Together(x)

RemoteInv ==
    /\ remoteHost \in Restarts \cup {Original}
    /\ remoteRun \in RemoteRuns /\ reqHeaders = remoteRun
    /\ restarts \in [Restarts -> {"idle", "leaving", "redirecting", "joining", "joined"}]
    /\ DOMAIN exchanges = Exchanges
    /\ \A e \in Exchanges : SoundExchange(exchanges[e])

LEMMA AnswersCount ==
    ASSUME NEW x, Earned(x)
    PROVE  Len(x.answers) + Cardinality(x.due)
               = (IF x.stage = "over" THEN 1 ELSE 0) + (IF x.brokeOff THEN 1 ELSE 0)
<1>1. Len(<<>>) = 0 /\ Cardinality({}) = 0
  BY FS_EmptySet
<1>2. CASE x.stage = "over"
  BY <1>2 DEF Earned
<1>3. CASE x.stage = "responding"
  <2>1. x.due = {} /\ Len(x.answers) = (IF x.brokeOff THEN 1 ELSE 0)
    BY <1>3 DEF Earned
  <2> QED  BY <1>1, <1>3, <2>1
<1>4. CASE x.stage \notin {"over", "responding"}
  <2>1. x.due = {} /\ x.answers = <<>> /\ ~x.brokeOff
    BY <1>4 DEF Earned
  <2> QED  BY <1>1, <1>4, <2>1
<1> QED  BY <1>2, <1>3, <1>4

LEMMA DueCounts ==
    ASSUME NEW D \in SUBSET BackWith
    PROVE  /\ Cardinality(D) \in Nat
           /\ \A d \in D : Cardinality(D \ {d}) = Cardinality(D) - 1
<1>1. IsFiniteSet(BackWith)
  <2>1. IsFiniteSet({"error"})
    BY FS_Singleton
  <2>2. IsFiniteSet({"error"} \cup {"whole"})
    BY <2>1, FS_AddElement
  <2>3. IsFiniteSet({"error"} \cup {"whole"} \cup {"partial"})
    BY <2>2, FS_AddElement
  <2>4. BackWith = {"error"} \cup {"whole"} \cup {"partial"}
    BY DEF BackWith
  <2> QED  BY <2>3, <2>4
<1>2. IsFiniteSet(D)
  BY <1>1, FS_Subset
<1> QED  BY <1>2, FS_RemoveElement, FS_CardinalityType

LEMMA AnswersGrow ==
    ASSUME NEW s \in Seq(BackWith), NEW a \in BackWith
    PROVE  Append(s, a) \in Seq(BackWith) /\ Len(Append(s, a)) = Len(s) + 1 /\ Len(s) \in Nat
BY AppendProperties, LenProperties

\* A call that fails before a response has begun is over with one answer, given or due.
LEMMA FailureIsSound ==
    ASSUME NEW x \in Exchange, x.due = {}, x.answers = <<>>, ~x.brokeOff
    PROVE  SoundExchange(ExchangeFailed(x)) /\ SoundExchange(ExchangeFailsLater(x))
<1> DEFINE f == ExchangeFailed(x)
           l == ExchangeFailsLater(x)
<1>1. f \in Exchange /\ f.stage = "over" /\ f.answers = Append(x.answers, "error") /\ f.due = {} /\ ~f.brokeOff
  <2>1. Append(x.answers, "error") \in Seq(BackWith)
    BY AnswersGrow DEF Exchange, BackWith
  <2> QED  BY <2>1 DEF ExchangeFailed, Exchange
<1>2. Len(f.answers) = 1
  <2>1. Len(<<>>) = 0
    OBVIOUS
  <2> QED  BY <1>1, <2>1, AnswersGrow DEF Exchange, BackWith
<1>3. l \in Exchange /\ l.stage = "over" /\ l.answers = <<>> /\ l.due = {"error"} /\ ~l.brokeOff
  BY DEF ExchangeFailsLater, Exchange, BackWith
<1>4. Cardinality({"error"}) = 1 /\ Cardinality({}) = 0
  BY FS_Singleton, FS_EmptySet
<1> HIDE DEF f, l
<1>5. Earned(f) /\ Together(f)
  BY <1>1, <1>2, <1>4 DEF Earned, Together
<1>6. Earned(l) /\ Together(l)
  BY <1>3, <1>4 DEF Earned, Together
<1> QED  BY <1>1, <1>3, <1>5, <1>6 DEF SoundExchange, f, l

\* A request that is made names the host in force, which without compression is the one
\* the call took.
LEMMA PostIsSound ==
    ASSUME RemoteInv, NEW x \in Exchange, x.due = {}, x.answers = <<>>, ~x.brokeOff,
           x.run # NoRun, x.headers = x.run, x.compressed \/ x.host = remoteHost
    PROVE  SoundExchange(PostMade(x))
<1>1. CASE ~x.fits
  BY <1>1, FailureIsSound DEF PostMade
<1>2. CASE x.fits
  <2> DEFINE y == [x EXCEPT !.stage = "requested", !.hostHeader = remoteHost]
  <2>1. /\ y \in Exchange /\ y.stage = "requested" /\ y.hostHeader = remoteHost
        /\ y.due = x.due /\ y.answers = x.answers /\ y.brokeOff = x.brokeOff
        /\ y.run = x.run /\ y.headers = x.headers /\ y.compressed = x.compressed /\ y.host = x.host
    BY DEF Exchange, RemoteInv, RemoteRuns
  <2>2. PostMade(x) = y
    BY <1>2 DEF PostMade
  <2> HIDE DEF y
  <2> QED  BY <2>1, <2>2 DEF SoundExchange, Earned, Together
<1> QED  BY <1>1, <1>2

LEMMA OneExchange ==
    ASSUME RemoteInv, NEW e \in Exchanges, NEW x, exchanges' = [exchanges EXCEPT ![e] = x],
           SoundExchange(x), UNCHANGED <<remoteHost, remoteRun, reqHeaders, restarts>>
    PROVE  RemoteInv'
<1>1. DOMAIN exchanges' = Exchanges /\ \A f \in Exchanges : exchanges'[f] = IF f = e THEN x ELSE exchanges[f]
  BY DEF RemoteInv
<1>2. \A f \in Exchanges : SoundExchange(exchanges'[f])
  BY <1>1 DEF RemoteInv
<1> QED  BY <1>1, <1>2 DEF RemoteInv

LEMMA SendIsSound ==
    ASSUME RemoteInv, NEW e \in Exchanges, NEW p \in Payloads, SendBatch(e, p)
    PROVE  RemoteInv'
<1> DEFINE x == exchanges[e]
<1>1. x \in Exchange /\ x.stage = "new" /\ x.due = {} /\ x.answers = <<>> /\ ~x.brokeOff
  BY DEF SendBatch, RemoteInv, SoundExchange, Earned
<1>2. p.large \in BOOLEAN /\ p.fits \in BOOLEAN
  BY RemoteAssumption
<1> HIDE DEF x
<1>3. ASSUME remoteRun # NoRun  PROVE SoundExchange(Posted(x, p))
  <2> DEFINE y == [x EXCEPT !.host = remoteHost, !.run = remoteRun, !.headers = reqHeaders,
                            !.compressed = p.large, !.fits = p.fits]
             z == [y EXCEPT !.stage = "compressing"]
  <2>1. /\ y \in Exchange /\ y.host = remoteHost /\ y.run = remoteRun /\ y.headers = remoteRun
        /\ y.compressed = p.large /\ y.due = {} /\ y.answers = <<>> /\ ~y.brokeOff
    BY <1>1, <1>2 DEF Exchange, RemoteInv, RemoteRuns
  <2>2. Posted(x, p) = IF p.large THEN z ELSE PostMade(y)
    BY DEF Posted
  <2> HIDE DEF y
  <2>3. CASE ~p.large
    BY <1>2, <1>3, <2>1, <2>2, <2>3, PostIsSound
  <2>4. CASE p.large
    <3>1. /\ z \in Exchange /\ z.stage = "compressing" /\ z.run = remoteRun /\ z.headers = remoteRun
          /\ z.compressed /\ z.due = {} /\ z.answers = <<>> /\ ~z.brokeOff
      BY <2>1, <2>4 DEF Exchange
    <3> HIDE DEF z
    <3>2. SoundExchange(z)
      BY <1>3, <3>1 DEF SoundExchange, Earned, Together
    <3> QED  BY <2>2, <2>4, <3>2
  <2> QED  BY <2>3, <2>4
<1>4. SoundExchange(ExchangeFailsLater(x))
  BY <1>1, FailureIsSound
<1> DEFINE n == IF remoteRun = NoRun \/ ~p.serializes THEN ExchangeFailsLater(x) ELSE Posted(x, p)
<1>5. SoundExchange(n)
  BY <1>3, <1>4
<1>6. exchanges' = [exchanges EXCEPT ![e] = n] /\ UNCHANGED <<remoteHost, remoteRun, reqHeaders, restarts>>
  BY Zenon DEF SendBatch, x
<1> HIDE DEF n
<1> QED  BY <1>5, <1>6, OneExchange

LEMMA CompressedIsSound ==
    ASSUME RemoteInv, NEW e \in Exchanges, NEW works \in BOOLEAN, BatchCompressed(e, works)
    PROVE  RemoteInv'
<1> DEFINE x == exchanges[e]
           n == IF works THEN PostMade(x) ELSE ExchangeFailed(x)
<1>1. /\ x \in Exchange /\ x.compressed /\ x.due = {} /\ x.answers = <<>> /\ ~x.brokeOff
      /\ x.run # NoRun /\ x.headers = x.run
  BY DEF BatchCompressed, RemoteInv, SoundExchange, Earned, Together
<1>2. /\ exchanges' = [exchanges EXCEPT ![e] = n]
      /\ UNCHANGED <<remoteHost, remoteRun, reqHeaders, restarts>>
  BY Zenon DEF BatchCompressed, Answering
<1> HIDE DEF x
<1>3. SoundExchange(n)
  BY <1>1, PostIsSound, FailureIsSound
<1> HIDE DEF n
<1> QED  BY <1>2, <1>3, OneExchange

LEMMA ResponseIsSound ==
    ASSUME RemoteInv, NEW e \in Exchanges,
           \/ RespondsTo(e)
           \/ ConnectionFails(e)
           \/ \E body \in {"whole", "partial"} : ResponseDone(e, body)
    PROVE  RemoteInv'
<1> DEFINE x == exchanges[e]
<1>1. SoundExchange(x)
  BY DEF RemoteInv
<1>2. x \in Exchange /\ Len(x.answers) \in Nat
  BY <1>1, LenProperties DEF SoundExchange, Exchange
<1> HIDE DEF x
<1>3. CASE RespondsTo(e)
  <2> DEFINE y == [x EXCEPT !.stage = "responding"]
  <2>1. x.stage = "requested" /\ exchanges' = [exchanges EXCEPT ![e] = y]
        /\ UNCHANGED <<remoteHost, remoteRun, reqHeaders, restarts>>
    BY <1>3, Zenon DEF RespondsTo, Answering, x
  <2>2. /\ y \in Exchange /\ y.stage = "responding" /\ y.run = x.run /\ y.headers = x.headers
        /\ y.compressed = x.compressed /\ y.hostHeader = x.hostHeader /\ y.host = x.host
        /\ y.due = x.due /\ y.answers = x.answers /\ y.brokeOff = x.brokeOff
    BY <1>2 DEF Exchange
  <2>3. Len(<<>>) = 0
    OBVIOUS
  <2> HIDE DEF y
  <2>4. SoundExchange(y)
    BY <1>1, <2>1, <2>2, <2>3 DEF SoundExchange, Earned, Together
  <2> QED  BY <2>1, <2>4, OneExchange
<1>4. CASE ConnectionFails(e)
  <2>1. CASE x.stage = "requested"
    <3>1. x.due = {} /\ x.answers = <<>> /\ ~x.brokeOff
      BY <1>1, <2>1 DEF SoundExchange, Earned
    <3>2. SoundExchange(ExchangeFailed(x))
      BY <1>2, <3>1, FailureIsSound
    <3>3. Answering(e, ExchangeFailed(x))
      BY <1>4, <2>1 DEF ConnectionFails, x
    <3> QED  BY <3>2, <3>3, OneExchange DEF Answering
  <2>2. CASE x.stage # "requested"
    <3> DEFINE y == [x EXCEPT !.answers = Append(@, "error"), !.brokeOff = TRUE]
    <3>1. x.stage = "responding" /\ ~x.brokeOff /\ Answering(e, y)
      BY <1>4, <2>2 DEF ConnectionFails, x
    <3>2. Append(x.answers, "error") \in Seq(BackWith) /\ Len(Append(x.answers, "error")) = Len(x.answers) + 1
      BY <1>2, AnswersGrow DEF Exchange, BackWith
    <3>3. /\ y \in Exchange /\ y.stage = x.stage /\ y.run = x.run /\ y.headers = x.headers
          /\ y.compressed = x.compressed /\ y.hostHeader = x.hostHeader /\ y.host = x.host
          /\ y.due = x.due /\ y.brokeOff /\ Len(y.answers) = Len(x.answers) + 1
      BY <1>2, <3>2 DEF Exchange
    <3> HIDE DEF y
    <3>4. SoundExchange(y)
      BY <1>1, <3>1, <3>3 DEF SoundExchange, Earned, Together
    <3> QED  BY <3>1, <3>4, OneExchange DEF Answering
  <2> QED  BY <2>1, <2>2
<1>5. ASSUME NEW body \in {"whole", "partial"}, ResponseDone(e, body)  PROVE RemoteInv'
  <2> DEFINE y == [x EXCEPT !.stage = "over", !.due = @ \cup {body}]
  <2>1. x.stage = "responding" /\ Answering(e, y)
    BY <1>5 DEF ResponseDone, x
  <2>2. x.due = {} /\ Len(x.answers) = (IF x.brokeOff THEN 1 ELSE 0)
    BY <1>1, <2>1 DEF SoundExchange, Earned
  <2>3. /\ y \in Exchange /\ y.stage = "over" /\ y.answers = x.answers /\ y.brokeOff = x.brokeOff
        /\ y.due = {body}
    BY <1>2, <2>2 DEF Exchange, BackWith
  <2>4. Cardinality({body}) = 1
    BY FS_Singleton
  <2>5. x.brokeOff \in BOOLEAN
    BY <1>2 DEF Exchange
  <2> HIDE DEF y
  <2>6. Earned(y)
    BY <2>2, <2>3, <2>4, <2>5 DEF Earned
  <2>7. Together(y)
    BY <2>3 DEF Together
  <2> QED  BY <2>1, <2>3, <2>6, <2>7, OneExchange DEF Answering, SoundExchange
<1> QED  BY <1>3, <1>4, <1>5

LEMMA CallBackIsSound ==
    ASSUME RemoteInv, NEW e \in Exchanges, NEW answer \in exchanges[e].due, ExchangeCallBack(e, answer)
    PROVE  RemoteInv'
<1> DEFINE x == exchanges[e]
           y == [x EXCEPT !.due = @ \ {answer}, !.answers = Append(@, answer)]
<1>1. SoundExchange(x)
  BY DEF RemoteInv
<1>2. Answering(e, y) /\ answer \in x.due
  BY DEF ExchangeCallBack
<1> HIDE DEF x
<1>3. x \in Exchange /\ x.stage = "over" /\ answer \in BackWith
  BY <1>1, <1>2 DEF SoundExchange, Earned, Exchange
<1>4. /\ Append(x.answers, answer) \in Seq(BackWith) /\ Len(Append(x.answers, answer)) = Len(x.answers) + 1
      /\ Len(x.answers) \in Nat
  BY <1>3, AnswersGrow DEF Exchange
<1>5. Cardinality(x.due \ {answer}) = Cardinality(x.due) - 1 /\ Cardinality(x.due) \in Nat
  BY <1>2, <1>3, DueCounts DEF Exchange
<1>6. /\ y \in Exchange /\ y.stage = "over" /\ y.brokeOff = x.brokeOff
      /\ y.due = x.due \ {answer} /\ y.answers = Append(x.answers, answer)
  BY <1>3, <1>4 DEF Exchange
<1>7. Len(x.answers) + Cardinality(x.due) = 1 + (IF x.brokeOff THEN 1 ELSE 0)
  BY <1>1, <1>3 DEF SoundExchange, Earned
<1> HIDE DEF y
<1>8. Earned(y)
  BY <1>4, <1>5, <1>6, <1>7 DEF Earned
<1>9. Together(y)
  BY <1>6 DEF Together
<1> QED  BY <1>2, <1>6, <1>8, <1>9, OneExchange DEF Answering, SoundExchange

\* Run and headers change together, and what a call has taken of them stays.
LEMMA RestartIsSound ==
    ASSUME RemoteInv, NEW r \in Restarts,
           LeaveRun(r) \/ RunLeft(r) \/ Redirected(r) \/ RunJoined(r)
    PROVE  RemoteInv'
<1>1. UNCHANGED exchanges
  BY DEF LeaveRun, RunLeft, Redirected, RunJoined
<1>2. restarts' \in [Restarts -> {"idle", "leaving", "redirecting", "joining", "joined"}]
  BY DEF LeaveRun, RunLeft, Redirected, RunJoined, Restarting, RemoteInv
<1>3. remoteHost' \in Restarts \cup {Original}
  BY DEF LeaveRun, RunLeft, Redirected, RunJoined, RemoteInv
<1>4. remoteRun' \in RemoteRuns /\ reqHeaders' = remoteRun'
  BY DEF LeaveRun, RunLeft, Redirected, RunJoined, RemoteInv, RemoteRuns
<1> QED  BY <1>1, <1>2, <1>3, <1>4 DEF RemoteInv

LEMMA RemoteInvAlways == RemoteSpec => []RemoteInv
<1>1. RemoteInit => RemoteInv
  <2> SUFFICES ASSUME RemoteInit PROVE RemoteInv
    OBVIOUS
  <2> DEFINE x == NewExchange
  <2>1. /\ x \in Exchange /\ x.stage = "new" /\ x.due = {} /\ x.answers = <<>> /\ ~x.brokeOff
    BY DEF NewExchange, Exchange, RemoteRuns
  <2> HIDE DEF x
  <2>2. SoundExchange(x)
    BY <2>1 DEF SoundExchange, Earned, Together
  <2>3. \A e \in Exchanges : exchanges[e] = x
    BY DEF RemoteInit, x
  <2> QED  BY <2>2, <2>3 DEF RemoteInit, RemoteInv, RemoteRuns
<1>2. RemoteInv /\ [RemoteNext]_remoteVars => RemoteInv'
  <2> SUFFICES ASSUME RemoteInv, [RemoteNext]_remoteVars PROVE RemoteInv'
    OBVIOUS
  <2>1. CASE UNCHANGED remoteVars
    BY <2>1 DEF remoteVars, RemoteInv
  <2> QED
    BY <2>1, SendIsSound, CompressedIsSound, ResponseIsSound, CallBackIsSound, RestartIsSound DEF RemoteNext
<1> QED  BY <1>1, <1>2, PTL DEF RemoteSpec

\* For any exchanges, payloads and overlapping restarts: whoever sends is called back once, by
\* whatever step the call ends, and only twice where a connection fails in mid response; and the
\* run a request names is the one whose headers it carries.
THEOREM RemoteCallsAreCorrect == RemoteSpec => []RemoteCallsCorrect
<1>1. RemoteInv => RemoteCallsCorrect
  <2> SUFFICES ASSUME RemoteInv PROVE RemoteCallsCorrect
    OBVIOUS
  <2>1. RemoteTypeOK
    <3>1. ASSUME NEW e \in Exchanges
          PROVE  /\ exchanges[e].stage \in {"new", "compressing", "requested", "responding", "over"}
                 /\ exchanges[e].due \subseteq BackWith
                 /\ \A i \in DOMAIN exchanges[e].answers : exchanges[e].answers[i] \in BackWith
      <4>1. exchanges[e] \in Exchange
        BY DEF RemoteInv, SoundExchange
      <4>2. exchanges[e].answers \in Seq(BackWith)
        BY <4>1 DEF Exchange
      <4>3. \A i \in DOMAIN exchanges[e].answers : exchanges[e].answers[i] \in BackWith
        BY <4>2, ElementOfSeq, LenProperties
      <4> QED  BY <4>1, <4>3 DEF Exchange
    <3> QED  BY <3>1 DEF RemoteInv, RemoteTypeOK, BackWith
  <2>2. ASSUME NEW e \in Exchanges
        PROVE  Len(exchanges[e].answers) + Cardinality(exchanges[e].due)
                   = (IF exchanges[e].stage = "over" THEN 1 ELSE 0) + (IF exchanges[e].brokeOff THEN 1 ELSE 0)
    BY AnswersCount DEF RemoteInv, SoundExchange
  <2>3. RequestsHangTogether
    BY DEF RequestsHangTogether, RemoteInv, SoundExchange, Together
  <2> QED  BY <2>1, <2>2, <2>3 DEF RemoteCallsCorrect, CalledBackOnce
<1> QED  BY <1>1, RemoteInvAlways, PTL

-----------------------------------------------------------------------------
(***************************************************************************)
(* The errors.  While the collector works through the errors of a          *)
(* transaction its books agree: each error collected is one of Errors/all  *)
(* or Errors/expected, it is remembered so that it is not collected again, *)
(* and the list of those collected is as long as what the transaction's    *)
(* own count needs.  That holds after one error (BookedStep), after a list *)
(* of them (AllCollected, with Repeated of Induction) and after the status *)
(* code (AllGathered); the end of the transaction only forgets what it     *)
(* remembered of its own (ClosedBooks).                                    *)
(***************************************************************************)
\* The counts of one step, and the books while errors are worked through.
Counts == [traces : Nat, events : Nat, all : Nat, expected : Nat, inTransaction : Nat, named : Nat,
           userExpected : Nat, thrown : BOOLEAN, frustrating : BOOLEAN, error : BOOLEAN]
SeenOnce == {"own", Outside} \X ErrorObjects
Ledger == [seen : SUBSET SeenOnce, booked : Counts, traces : 0 .. MaxErrorTraces,
           collected : Seq(ErrorObjects \cup {NoError}), expected : Nat]

\* Traces and events, where they are on, are as many as the errors.
CountsAgree(c) ==
    /\ errorConfig.traces => c.traces = c.all + c.expected
    /\ errorConfig.events => c.events = c.all + c.expected

\* One and all of the errors collected so far, in their transaction.
Booked(b, status) ==
    /\ b \in Ledger
    /\ CountsAgree(b.booked) /\ b.booked.named = 0
    /\ Len(b.collected) = b.booked.inTransaction + b.booked.userExpected + b.expected
    /\ \A i, j \in 1..Len(b.collected) : b.collected[i] = b.collected[j] => i = j
    /\ \A i \in 1..Len(b.collected) : b.collected[i] # NoError /\ <<"own", b.collected[i]>> \in b.seen
    /\ status = "bad" => \A e \in ErrorObjects \ ExpectedErrors : <<"own", e>> \in b.seen => b.booked.all > 0

\* One for a condition that holds.
OneIf(yes) == IF yes THEN 1 ELSE 0

\* What one more error adds.
Adds(b, c, where, e, status, user) ==
    /\ c \in Ledger
    /\ c.seen = b.seen \cup IF e = NoError THEN {} ELSE {<<where, e>>}
    /\ c.collected = Append(b.collected, e)
    /\ c.expected = b.expected + OneIf(IsExpected(e, status) /\ ~user)
    /\ c.booked.traces = b.booked.traces + OneIf(errorConfig.traces)
    /\ c.booked.events = b.booked.events + OneIf(errorConfig.events)
    /\ c.booked.all = b.booked.all + OneIf(~IsExpected(e, status))
    /\ c.booked.expected = b.booked.expected + OneIf(IsExpected(e, status))
    /\ c.booked.inTransaction = b.booked.inTransaction + OneIf(~IsExpected(e, status) /\ where # Outside)
    /\ c.booked.userExpected = b.booked.userExpected + OneIf(IsExpected(e, status) /\ user /\ where # Outside)
    /\ c.booked.named = b.booked.named /\ c.booked.frustrating = b.booked.frustrating

\* Six counts raised, the others as they were.
Raised(k, x1, x2, x3, x4, x5, x6) ==
    [k EXCEPT !.traces = @ + x1, !.events = @ + x2, !.all = @ + x3, !.expected = @ + x4,
              !.inTransaction = @ + x5, !.userExpected = @ + x6]

CountsRaised(m, k, x1, x2, x3, x4, x5, x6) ==
    /\ m \in Counts
    /\ m.traces = k.traces + x1 /\ m.events = k.events + x2 /\ m.all = k.all + x3
    /\ m.expected = k.expected + x4 /\ m.inTransaction = k.inTransaction + x5
    /\ m.userExpected = k.userExpected + x6 /\ m.named = k.named /\ m.frustrating = k.frustrating

\* What Raised changes and what it leaves.
LEMMA CountsChanged ==
    ASSUME NEW k \in Counts, NEW x1 \in Nat, NEW x2 \in Nat, NEW x3 \in Nat, NEW x4 \in Nat,
           NEW x5 \in Nat, NEW x6 \in Nat
    PROVE  CountsRaised(Raised(k, x1, x2, x3, x4, x5, x6), k, x1, x2, x3, x4, x5, x6)
<1>0. PICK m : m = Raised(k, x1, x2, x3, x4, x5, x6)
  OBVIOUS
<1>1. PICK k1 : k1 = [k EXCEPT !.traces = k.traces + x1]
  OBVIOUS
<1>2. PICK k2 : k2 = [k1 EXCEPT !.events = k.events + x2]
  OBVIOUS
<1>3. PICK k3 : k3 = [k2 EXCEPT !.all = k.all + x3]
  OBVIOUS
<1>4. PICK k4 : k4 = [k3 EXCEPT !.expected = k.expected + x4]
  OBVIOUS
<1>5. PICK k5 : k5 = [k4 EXCEPT !.inTransaction = k.inTransaction + x5]
  OBVIOUS
<1>6. PICK k6 : k6 = [k5 EXCEPT !.userExpected = k.userExpected + x6]
  OBVIOUS
<1>7. /\ k.traces \in Nat /\ k.events \in Nat /\ k.all \in Nat /\ k.expected \in Nat
      /\ k.inTransaction \in Nat /\ k.userExpected \in Nat
  BY DEF Counts
<1>8. /\ k1 \in Counts /\ k1.traces = k.traces + x1
      /\ \A f \in {"events", "all", "expected", "inTransaction", "userExpected", "named", "frustrating"} : k1[f] = k[f]
  BY <1>1, <1>7 DEF Counts
<1>9. /\ k2 \in Counts /\ k2.events = k.events + x2
      /\ \A f \in {"traces", "all", "expected", "inTransaction", "userExpected", "named", "frustrating"} : k2[f] = k1[f]
  BY <1>2, <1>7, <1>8 DEF Counts
<1>10. /\ k3 \in Counts /\ k3.all = k.all + x3
       /\ \A f \in {"traces", "events", "expected", "inTransaction", "userExpected", "named", "frustrating"} : k3[f] = k2[f]
  BY <1>3, <1>7, <1>9 DEF Counts
<1>11. /\ k4 \in Counts /\ k4.expected = k.expected + x4
       /\ \A f \in {"traces", "events", "all", "inTransaction", "userExpected", "named", "frustrating"} : k4[f] = k3[f]
  BY <1>4, <1>7, <1>10 DEF Counts
<1>12. /\ k5 \in Counts /\ k5.inTransaction = k.inTransaction + x5
       /\ \A f \in {"traces", "events", "all", "expected", "userExpected", "named", "frustrating"} : k5[f] = k4[f]
  BY <1>5, <1>7, <1>11 DEF Counts
<1>13. /\ k6 \in Counts /\ k6.userExpected = k.userExpected + x6
       /\ \A f \in {"traces", "events", "all", "expected", "inTransaction", "named", "frustrating"} : k6[f] = k5[f]
  BY <1>6, <1>7, <1>12 DEF Counts
<1>14. k6 = m
  <2>1. m = [k EXCEPT !.traces = @ + x1, !.events = @ + x2, !.all = @ + x3, !.expected = @ + x4,
                      !.inTransaction = @ + x5, !.userExpected = @ + x6]
    BY <1>0, Zenon DEF Raised
  <2> QED BY <2>1, <1>1, <1>2, <1>3, <1>4, <1>5, <1>6, <1>8, <1>9, <1>10, <1>11, <1>12, <1>13
<1> QED BY <1>0, <1>8, <1>9, <1>10, <1>11, <1>12, <1>13, <1>14 DEF CountsRaised

\* An error was seen before, says nothing at all, or is collected.
CollectedAs(b, c, where, e, status, user) ==
    \/ c = b /\ e # NoError /\ <<where, e>> \in b.seen
    \/ /\ c = [b EXCEPT !.seen = Remembered(b, where, e)] /\ c \in Ledger
       /\ e \in BlankErrors \cup {NoError} /\ status = "none"
    \/ /\ Adds(b, c, where, e, status, user)
       /\ e = NoError \/ <<where, e>> \notin b.seen

\* collect, by its cases.
LEMMA Collected ==
    ASSUME errorConfig \in [enabled : BOOLEAN, traces : BOOLEAN, events : BOOLEAN],
           NEW b \in Ledger, NEW where \in {"own", Outside}, NEW e \in ErrorObjects \cup {NoError},
           NEW status, NEW user \in BOOLEAN, NEW c, c = Collect(b, where, e, status, user)
    PROVE  CollectedAs(b, c, where, e, status, user)
<1>1. PICK marked : marked = Remembered(b, where, e)
  OBVIOUS
<1>2. marked = b.seen \cup IF e = NoError THEN {} ELSE {<<where, e>>}
  BY <1>1 DEF Remembered
<1>3. b.seen \in SUBSET SeenOnce
  BY DEF Ledger
<1>4. marked \in SUBSET SeenOnce
  BY <1>2, <1>3 DEF SeenOnce
<1>5. CASE e # NoError /\ <<where, e>> \in b.seen
  <2>1. c = b
    BY <1>5 DEF Collect
  <2> QED BY <2>1, <1>5 DEF CollectedAs
<1>6. CASE ~(e # NoError /\ <<where, e>> \in b.seen) /\ ~(e \notin BlankErrors \cup {NoError} \/ status # "none")
  <2>1. c = [b EXCEPT !.seen = marked]
    BY <1>1, <1>6, Zenon DEF Collect
  <2>2. c \in Ledger
    BY <2>1, <1>4 DEF Ledger
  <2> QED BY <2>1, <2>2, <1>1, <1>6 DEF CollectedAs
<1>7. CASE ~(e # NoError /\ <<where, e>> \in b.seen) /\ (e \notin BlankErrors \cup {NoError} \/ status # "none")
  <2>1. PICK t \in 0 .. MaxErrorTraces : t = IF errorConfig.traces THEN KeptTraces(b.traces) ELSE b.traces
    BY ErrorsAssumption DEF Ledger, KeptTraces
  <2>2. PICK x \in BOOLEAN : x = IsExpected(e, status)
    BY DEF IsExpected
  <2>3. x = ExpectedInEnd(e, status)
    BY <2>2 DEF IsExpected, ExpectedInEnd
  <2>4. PICK k \in Counts : k = b.booked
    BY DEF Ledger
  <2>5. PICK m : m = [k EXCEPT !.traces = @ + OneIf(errorConfig.traces), !.events = @ + OneIf(errorConfig.events),
                               !.all = @ + OneIf(~x), !.expected = @ + OneIf(x),
                               !.inTransaction = @ + OneIf(~x /\ where # Outside),
                               !.userExpected = @ + OneIf(x /\ user /\ where # Outside)]
    OBVIOUS
  <2>6. \A y : OneIf(y) \in Nat
    BY DEF OneIf
  <2>7. /\ OneIf(errorConfig.traces) \in Nat /\ OneIf(errorConfig.events) \in Nat /\ OneIf(~x) \in Nat
        /\ OneIf(x) \in Nat /\ OneIf(~x /\ where # Outside) \in Nat
        /\ OneIf(x /\ user /\ where # Outside) \in Nat /\ OneIf(x /\ ~user) \in Nat
    BY <2>6, Zenon
  <2>8. /\ m \in Counts
        /\ m.traces = k.traces + OneIf(errorConfig.traces) /\ m.events = k.events + OneIf(errorConfig.events)
        /\ m.all = k.all + OneIf(~x) /\ m.expected = k.expected + OneIf(x)
        /\ m.inTransaction = k.inTransaction + OneIf(~x /\ where # Outside)
        /\ m.userExpected = k.userExpected + OneIf(x /\ user /\ where # Outside) /\ m.named = k.named
        /\ m.frustrating = k.frustrating
    <3>1. PICK x1 \in Nat, x2 \in Nat, x3 \in Nat :
            x1 = OneIf(errorConfig.traces) /\ x2 = OneIf(errorConfig.events) /\ x3 = OneIf(~x)
      BY <2>7
    <3>2. PICK x4 \in Nat, x5 \in Nat, x6 \in Nat :
            x4 = OneIf(x) /\ x5 = OneIf(~x /\ where # Outside) /\ x6 = OneIf(x /\ user /\ where # Outside)
      BY <2>7
    <3>3. m = Raised(k, x1, x2, x3, x4, x5, x6)
      BY <2>5, <3>1, <3>2, Zenon DEF Raised
    <3>4. CountsRaised(m, k, x1, x2, x3, x4, x5, x6)
      BY <3>3, CountsChanged
    <3> QED BY <3>1, <3>2, <3>4, Zenon DEF CountsRaised
  <2>9. PICK list : list = Append(b.collected, e)
    OBVIOUS
  <2>10. list \in Seq(ErrorObjects \cup {NoError})
    BY <2>9 DEF Ledger
  <2>11. PICK more : more = b.expected + OneIf(x /\ ~user)
    OBVIOUS
  <2>12. more \in Nat
    <3>1. PICK p \in Nat : p = OneIf(x /\ ~user)
      BY <2>7
    <3>2. b.expected \in Nat
      BY DEF Ledger
    <3> QED BY <3>1, <3>2, <2>11
  <2>13. c = [seen |-> marked, traces |-> t, collected |-> list, expected |-> more, booked |-> m]
    <3>1. c = [seen |-> Remembered(b, where, e),
               traces |-> IF errorConfig.traces THEN KeptTraces(b.traces) ELSE b.traces,
               collected |-> Append(b.collected, e),
               expected |-> b.expected + (IF ExpectedInEnd(e, status) /\ ~user THEN 1 ELSE 0),
               booked |-> [b.booked EXCEPT
                    !.traces = @ + (IF errorConfig.traces THEN 1 ELSE 0),
                    !.events = @ + (IF errorConfig.events THEN 1 ELSE 0),
                    !.all = @ + (IF ~IsExpected(e, status) THEN 1 ELSE 0),
                    !.expected = @ + (IF IsExpected(e, status) THEN 1 ELSE 0),
                    !.inTransaction = @ + (IF ~IsExpected(e, status) /\ where # Outside THEN 1 ELSE 0),
                    !.userExpected = @ + (IF IsExpected(e, status) /\ user /\ where # Outside THEN 1 ELSE 0)]]
      BY <1>7 DEF Collect
    <3> QED BY <3>1, <1>1, <2>1, <2>2, <2>3, <2>4, <2>5, <2>9, <2>11, Zenon DEF OneIf
  <2>14. c \in Ledger
    BY <2>8, <2>10, <2>12, <2>13, <1>4 DEF Ledger
  <2>15. /\ c.seen = marked /\ c.collected = list /\ c.expected = more /\ c.booked = m
    BY <2>13
  <2>16. Adds(b, c, where, e, status, user)
    BY <2>2, <2>4, <2>8, <2>9, <2>11, <2>14, <2>15, <1>2, Zenon DEF Adds
  <2> QED BY <2>16, <1>7 DEF CollectedAs
<1> QED BY <1>5, <1>6, <1>7

\* An error more, in one of three sums.
LEMMA SumsMeet ==
    ASSUME NEW y1 \in Nat, NEW y2 \in Nat, NEW y3 \in Nat, NEW x3 \in Nat, NEW x4 \in Nat, NEW x6 \in Nat,
           NEW x7 \in Nat, x3 + x4 = 1, x6 + x7 = x4
    PROVE  (y1 + x3) + (y2 + x6) + (y3 + x7) = (y1 + y2 + y3) + 1
OBVIOUS

\* What one more error does to the books.
OneMore(b, c, e, status) ==
    /\ Booked(c, status)
    /\ <<"own", e>> \in c.seen /\ b.seen \subseteq c.seen

\* One more error of a transaction is booked as it should be.
LEMMA BookedStep ==
    ASSUME errorConfig \in [enabled : BOOLEAN, traces : BOOLEAN, events : BOOLEAN],
           NEW status, NEW b, Booked(b, status), NEW e \in ErrorObjects, NEW user \in BOOLEAN,
           NEW c, c = Collect(b, "own", e, status, user)
    PROVE  OneMore(b, c, e, status)
<1>1. b \in Ledger /\ e # NoError /\ "own" # Outside
  BY ErrorsAssumption DEF Booked, Outside
<1>2. CASE c = b /\ <<"own", e>> \in b.seen
  BY <1>2 DEF OneMore
<1>3. CASE /\ c = [b EXCEPT !.seen = Remembered(b, "own", e)] /\ c \in Ledger
           /\ e \in BlankErrors \cup {NoError} /\ status = "none"
  <2>1. Remembered(b, "own", e) = b.seen \cup {<<"own", e>>}
    BY <1>1 DEF Remembered
  <2>2. c.seen = b.seen \cup {<<"own", e>>} /\ c.booked = b.booked /\ c.collected = b.collected /\ c.expected = b.expected
    BY <2>1, <1>1, <1>3 DEF Ledger
  <2> QED BY <2>2, <1>3 DEF Booked, OneMore
<1>4. CASE Adds(b, c, "own", e, status, user) /\ <<"own", e>> \notin b.seen
  <2>1. c \in Ledger /\ c.seen = b.seen \cup {<<"own", e>>}
    BY <1>1, <1>4 DEF Adds
  <2>2. PICK x \in BOOLEAN : x = IsExpected(e, status)
    BY DEF IsExpected
  <2>3. PICK k \in Counts : k = b.booked
    BY <1>1 DEF Ledger
  <2>4. PICK m \in Counts : m = c.booked
    BY <2>1 DEF Ledger
  <2>5. /\ m.traces = k.traces + OneIf(errorConfig.traces) /\ m.events = k.events + OneIf(errorConfig.events)
        /\ m.all = k.all + OneIf(~x) /\ m.expected = k.expected + OneIf(x)
        /\ m.inTransaction = k.inTransaction + OneIf(~x)
        /\ m.userExpected = k.userExpected + OneIf(x /\ user)
        /\ c.expected = b.expected + OneIf(x /\ ~user)
        /\ c.collected = Append(b.collected, e)
    BY <2>2, <2>3, <2>4, <1>1, <1>4, Zenon DEF Adds
  <2>6. /\ k.traces \in Nat /\ k.events \in Nat /\ k.all \in Nat /\ k.expected \in Nat /\ k.inTransaction \in Nat
        /\ k.userExpected \in Nat /\ b.expected \in Nat
    BY <1>1 DEF Counts, Ledger
  <2>20. /\ OneIf(errorConfig.traces) \in Nat /\ OneIf(errorConfig.events) \in Nat /\ OneIf(~x) \in Nat
         /\ OneIf(x) \in Nat /\ OneIf(x /\ user) \in Nat /\ OneIf(x /\ ~user) \in Nat
    <3>1. \A y : OneIf(y) \in Nat
      BY DEF OneIf
    <3> QED BY <3>1, Zenon
  <2>21. PICK x1 \in Nat, x2 \in Nat, x3 \in Nat :
            x1 = OneIf(errorConfig.traces) /\ x2 = OneIf(errorConfig.events) /\ x3 = OneIf(~x)
    BY <2>20
  <2>22. PICK x4 \in Nat, x6 \in Nat, x7 \in Nat :
            x4 = OneIf(x) /\ x6 = OneIf(x /\ user) /\ x7 = OneIf(x /\ ~user)
    BY <2>20
  <2>23. /\ m.traces = k.traces + x1 /\ m.events = k.events + x2
         /\ m.all = k.all + x3 /\ m.expected = k.expected + x4
         /\ m.inTransaction = k.inTransaction + x3
         /\ m.userExpected = k.userExpected + x6
         /\ c.expected = b.expected + x7
    BY <2>5, <2>21, <2>22, Zenon
  <2>26. x1 \in Nat /\ x2 \in Nat /\ x3 \in Nat /\ x4 \in Nat /\ x6 \in Nat /\ x7 \in Nat
    BY <2>21, <2>22
  <2>24. x3 + x4 = 1
    <3>1. CASE x
      <4>1. x3 = 0
        BY <3>1, <2>21 DEF OneIf
      <4>2. x4 = 1
        BY <3>1, <2>22 DEF OneIf
      <4> QED BY <4>1, <4>2
    <3>2. CASE ~x
      <4>1. x3 = 1
        BY <3>2, <2>21 DEF OneIf
      <4>2. x4 = 0
        BY <3>2, <2>22 DEF OneIf
      <4> QED BY <4>1, <4>2
    <3> QED BY <3>1, <3>2
  <2>25. x6 + x7 = x4
    <3>1. CASE ~x
      <4>1. x6 = 0 /\ x7 = 0 /\ x4 = 0
        BY <3>1, <2>22, Zenon DEF OneIf
      <4> QED BY <4>1
    <3>2. CASE x /\ user
      <4>1. x6 = 1 /\ x7 = 0 /\ x4 = 1
        BY <3>2, <2>22, Zenon DEF OneIf
      <4> QED BY <4>1
    <3>3. CASE x /\ ~user
      <4>1. x6 = 0 /\ x7 = 1 /\ x4 = 1
        BY <3>3, <2>22, Zenon DEF OneIf
      <4> QED BY <4>1
    <3> QED BY <3>1, <3>2, <3>3
  <2>7. CountsAgree(m)
    <3>1. CountsAgree(k)
      BY <2>3 DEF Booked
    <3>2. errorConfig.traces => x1 = 1
      BY <2>21, Zenon DEF OneIf
    <3>3. errorConfig.events => x2 = 1
      BY <2>21, Zenon DEF OneIf
    <3>5. ASSUME errorConfig.traces PROVE m.traces = m.all + m.expected
      <4>1. k.traces = k.all + k.expected
        BY <3>1, <3>5 DEF CountsAgree
      <4>2. x1 = 1
        BY <3>2, <3>5
      <4> QED BY <4>1, <4>2, <2>6, <2>23, <2>24, <2>26
    <3>6. ASSUME errorConfig.events PROVE m.events = m.all + m.expected
      <4>1. k.events = k.all + k.expected
        BY <3>1, <3>6 DEF CountsAgree
      <4>2. x2 = 1
        BY <3>3, <3>6
      <4> QED BY <4>1, <4>2, <2>6, <2>23, <2>24, <2>26
    <3> QED BY <3>5, <3>6 DEF CountsAgree
  <2>8. PICK list \in Seq(ErrorObjects \cup {NoError}) : list = b.collected
    BY <1>1 DEF Ledger
  <2>9. PICK longer \in Seq(ErrorObjects \cup {NoError}) : longer = c.collected /\ longer = Append(list, e)
    BY <2>1, <2>5, <2>8 DEF Ledger
  <2>10. PICK n \in Nat : n = Len(list)
    BY <2>8
  <2>11. Len(longer) = n + 1 /\ longer[n + 1] = e /\ \A i \in 1..n : longer[i] = list[i]
    BY <2>9, <2>10, AppendProperties
  <2>12. n + 1 = m.inTransaction + m.userExpected + c.expected
    <3>1. n = k.inTransaction + k.userExpected + b.expected
      BY <2>3, <2>8, <2>10 DEF Booked
    <3>2. PICK y1 \in Nat, y2 \in Nat, y3 \in Nat : y1 = k.inTransaction /\ y2 = k.userExpected /\ y3 = b.expected
      BY <2>6
    <3>3. n = y1 + y2 + y3
      BY <3>1, <3>2
    <3>4. m.inTransaction = y1 + x3 /\ m.userExpected = y2 + x6 /\ c.expected = y3 + x7
      BY <3>2, <2>23
    <3>7. y1 \in Nat /\ y2 \in Nat /\ y3 \in Nat
      BY <3>2, <2>6
    <3>5. (y1 + x3) + (y2 + x6) + (y3 + x7) = (y1 + y2 + y3) + 1
      BY <3>7, <2>24, <2>25, <2>26, SumsMeet
    <3>6. n + 1 = (y1 + x3) + (y2 + x6) + (y3 + x7)
      BY <3>3, <3>5
    <3> QED BY <3>4, <3>6, Zenon
  <2>13. \A i \in 1..n : list[i] # NoError /\ <<"own", list[i]>> \in b.seen
    BY <2>8, <2>10 DEF Booked
  <2>14. \A i \in 1..n : list[i] # e
    BY <2>13, <1>4
  <2>15. \A i, j \in 1..n : list[i] = list[j] => i = j
    BY <2>8, <2>10 DEF Booked
  <2>16. ASSUME NEW i \in 1..n + 1 PROVE longer[i] # NoError /\ <<"own", longer[i]>> \in c.seen
    <3>1. CASE i \in 1..n
      BY <3>1, <2>1, <2>11, <2>13
    <3>2. CASE i = n + 1
      BY <3>2, <2>1, <2>11, <1>1
    <3> QED BY <3>1, <3>2
  <2>17. ASSUME NEW i \in 1..n + 1, NEW j \in 1..n + 1, longer[i] = longer[j] PROVE i = j
    BY <2>11, <2>14, <2>15, <2>17
  <2>18. ASSUME status = "bad", NEW f \in ErrorObjects \ ExpectedErrors, <<"own", f>> \in c.seen PROVE m.all > 0
    <3>1. CASE f # e
      <4>1. <<"own", f>> \in b.seen
        BY <3>1, <2>1, <2>18
      <4>2. k.all > 0
        BY <4>1, <2>3, <2>18 DEF Booked
      <4> QED BY <4>2, <2>6, <2>23, <2>26
    <3>2. CASE f = e
      <4>1. ~x
        BY <3>2, <2>2, <2>18 DEF IsExpected
      <4>2. x3 = 1
        BY <4>1, <2>21, Zenon DEF OneIf
      <4> QED BY <4>2, <2>6, <2>23, <2>26
    <3> QED BY <3>1, <3>2
  <2>19. Booked(c, status)
    <3>1. Len(c.collected) = n + 1 /\ c.collected = longer
      BY <2>9, <2>11
    <3>2. Len(c.collected) = c.booked.inTransaction + c.booked.userExpected + c.expected
      BY <3>1, <2>4, <2>12
    <3>3. /\ \A i, j \in 1..Len(c.collected) : c.collected[i] = c.collected[j] => i = j
          /\ \A i \in 1..Len(c.collected) : c.collected[i] # NoError /\ <<"own", c.collected[i]>> \in c.seen
      BY <3>1, <2>16, <2>17
    <3>4. status = "bad" => \A f \in ErrorObjects \ ExpectedErrors : <<"own", f>> \in c.seen => c.booked.all > 0
      BY <2>4, <2>18
    <3>5. CountsAgree(c.booked) /\ c.booked.named = 0
      <4>1. c.booked.named = b.booked.named
        BY <1>1, <1>4 DEF Adds
      <4> QED BY <4>1, <2>4, <2>7 DEF Booked
    <3> QED BY <3>2, <3>3, <3>4, <3>5, <2>1 DEF Booked
  <2> QED BY <2>1, <2>19 DEF OneMore
<1>5. CollectedAs(b, c, "own", e, status, user)
  BY <1>1, Collected
<1> QED BY <1>1, <1>2, <1>3, <1>4, <1>5 DEF CollectedAs, OneMore

\* What a list of errors does to the books.
CollectsAll(b, c, errors, status) ==
    /\ Booked(c, status) /\ b.seen \subseteq c.seen
    /\ errors = <<>> => c = b
    /\ \A i \in 1..Len(errors) : <<"own", errors[i]>> \in c.seen

\* A list of errors, one after another.
LEMMA AllCollected ==
    ASSUME errorConfig \in [enabled : BOOLEAN, traces : BOOLEAN, events : BOOLEAN],
           NEW status, NEW b, Booked(b, status), NEW errors \in Seq(ErrorObjects), NEW user \in BOOLEAN,
           NEW c, c = CollectAll(b, errors, status, user)
    PROVE  CollectsAll(b, c, errors, status)
<1>1. PICK n \in Nat : n = Len(errors)
  OBVIOUS
<1>2. \A i \in 1..n : errors[i] \in ErrorObjects
  BY <1>1
<1>3. PICK B : B = {x \in Ledger : Booked(x, status)}
  OBVIOUS
<1>4. PICK F : F = [p \in B \X (1..n) |-> Collect(p[1], "own", errors[p[2]], status, user)]
  OBVIOUS
<1>5. F \in [B \X (1..n) -> B]
  <2>1. ASSUME NEW p \in B \X (1..n) PROVE Collect(p[1], "own", errors[p[2]], status, user) \in B
    <3>1. Booked(p[1], status) /\ errors[p[2]] \in ErrorObjects
      BY <1>2, <1>3
    <3>2. OneMore(p[1], Collect(p[1], "own", errors[p[2]], status, user), errors[p[2]], status)
      BY <3>1, BookedStep
    <3> QED BY <3>2, <1>3 DEF Booked, OneMore
  <2> QED BY <1>4, <2>1
<1>6. b \in B
  BY <1>3 DEF Booked
<1>7. RunsOf(B, n, F, b) # {}
  BY <1>5, <1>6, Repeated
<1>8. PICK g \in [0..n -> B] : g[0] = b /\ \A k \in 1..n : g[k] = F[<<g[k - 1], k>>]
  BY <1>7 DEF RunsOf
<1>9. ASSUME NEW k \in 1..n PROVE g[k] = Collect(g[k - 1], "own", errors[k], status, user)
  <2> k - 1 \in 0..n
    OBVIOUS
  <2>1. <<g[k - 1], k>> \in B \X (1..n)
    BY <1>8, Zenon
  <2> QED BY <2>1, <1>4, <1>8
<1>10. g = [k \in 0..Len(errors) |-> IF k = 0 THEN b ELSE Collect(g[k - 1], "own", errors[k], status, user)]
  <2>1. PICK h : h = [k \in 0..n |-> IF k = 0 THEN b ELSE Collect(g[k - 1], "own", errors[k], status, user)]
    OBVIOUS
  <2>2. ASSUME NEW k \in 0..n PROVE g[k] = h[k]
    <3>1. k = 0 \/ k \in 1..n
      OBVIOUS
    <3> QED BY <3>1, <2>1, <1>8, <1>9
  <2>3. g = h
    BY <2>1, <2>2, <1>8
  <2> QED BY <2>3, <2>1, <1>1
<1>11. PICK m : m = CHOOSE mm : mm = [k \in 0..Len(errors) |->
                                        IF k = 0 THEN b ELSE Collect(mm[k - 1], "own", errors[k], status, user)]
  OBVIOUS
<1>12. m = [k \in 0..Len(errors) |-> IF k = 0 THEN b ELSE Collect(m[k - 1], "own", errors[k], status, user)]
  BY <1>10, <1>11
<1>13. c = m[n]
  BY <1>1, <1>11 DEF CollectAll
<1>14. m[0] = b /\ \A k \in 1..n : m[k] = Collect(m[k - 1], "own", errors[k], status, user)
  <2>1. 0 \in 0..Len(errors)
    BY <1>1
  <2>2. ASSUME NEW k \in 1..n PROVE k \in 0..Len(errors) /\ k # 0
    BY <1>1
  <2> QED BY <2>1, <2>2, <1>12, Zenon
<1> DEFINE fits(x, k) == /\ Booked(x, status) /\ b.seen \subseteq x.seen
                         /\ \A i \in 1..k : <<"own", errors[i]>> \in x.seen
<1>15. PICK J : J = {k \in 0..n : fits(m[k], k)}
  OBVIOUS
<1>16. 0 \in J
  BY <1>14, <1>15
<1>17. ASSUME NEW k \in 1..n, k - 1 \in J PROVE k \in J
  <2>1. PICK x : x = m[k - 1] /\ fits(x, k - 1)
    BY <1>15, <1>17
  <2>2. PICK y : y = m[k] /\ y = Collect(x, "own", errors[k], status, user)
    BY <2>1, <1>14
  <2>3. Booked(y, status) /\ <<"own", errors[k]>> \in y.seen /\ x.seen \subseteq y.seen
    <3>1. PICK e \in ErrorObjects : e = errors[k]
      BY <1>2
    <3>2. Booked(x, status)
      BY <2>1
    <3>3. y = Collect(x, "own", e, status, user)
      BY <2>2, <3>1
    <3>4. OneMore(x, y, e, status)
      BY <3>2, <3>3, BookedStep
    <3> QED BY <3>1, <3>4 DEF OneMore
  <2>4. \A i \in 1..k : i = k \/ i \in 1..k - 1
    OBVIOUS
  <2>5. fits(y, k)
    BY <2>1, <2>3, <2>4
  <2>6. k \in 0..n
    OBVIOUS
  <2> HIDE DEF fits
  <2> QED BY <2>2, <2>5, <2>6, <1>15
<1>18. n \in J
  <2> Climbs(J, n)
    BY <1>16, <1>17 DEF Climbs
  <2> QED BY StepByStep
<1>19. fits(m[n], n)
  <2> HIDE DEF fits
  <2> QED BY <1>15, <1>18
<1>20. errors = <<>> => c = b
  BY <1>1, <1>13, <1>14
<1> QED BY <1>1, <1>13, <1>19, <1>20 DEF CollectsAll

\* All of a transaction's errors, its status code among them.
AllBooked(a, status) ==
    /\ a \in Ledger
    /\ CountsAgree(a.booked) /\ a.booked.named = 0
    /\ Len(a.collected) = a.booked.inTransaction + a.booked.userExpected + a.expected
    /\ \A i, j \in 1..Len(a.collected) : a.collected[i] = a.collected[j] => i = j
    /\ \A i \in 1..Len(a.collected) : a.collected[i] = NoError => i = Len(a.collected) /\ exceptions = <<>>
    /\ Frustrates(status) => a.booked.all > 0
    /\ a.booked.inTransaction > 0 => HasErrors(status)

\* The collector's state as the end of a transaction leaves it.
Closed(a, t, f, h) ==
    [a EXCEPT !.booked.named = @ + Len(a.collected) - a.expected,
              !.booked.thrown = t,
              !.booked.frustrating = f,
              !.booked.error = h,
              !.seen = {x \in @ : x[1] = Outside}]

\* What that leaves.
ClosedAs(z, a, t, f, h) ==
    /\ z \in Ledger
    /\ z.seen = {x \in a.seen : x[1] = Outside}
    /\ z.traces = a.traces /\ z.collected = a.collected
    /\ z.booked.traces = a.booked.traces /\ z.booked.events = a.booked.events /\ z.booked.all = a.booked.all
    /\ z.booked.expected = a.booked.expected /\ z.booked.inTransaction = a.booked.inTransaction
    /\ z.booked.userExpected = a.booked.userExpected
    /\ z.booked.named = a.booked.inTransaction + a.booked.userExpected
    /\ z.booked.thrown = t /\ z.booked.frustrating = f /\ z.booked.error = h

\* The end of a transaction leaves the counts and forgets its errors.
LEMMA ClosedBooks ==
    ASSUME NEW a \in Ledger, NEW t \in BOOLEAN, NEW f \in BOOLEAN, NEW h \in BOOLEAN, a.booked.named = 0,
           Len(a.collected) = a.booked.inTransaction + a.booked.userExpected + a.expected
    PROVE  ClosedAs(Closed(a, t, f, h), a, t, f, h)
<1>1. PICK k \in Counts : k = a.booked
  BY DEF Ledger
<1>2. PICK v : v = k.named + Len(a.collected) - a.expected
  OBVIOUS
<1>3. v = k.inTransaction + k.userExpected /\ v \in Nat
  <2>1. PICK y1 \in Nat, y2 \in Nat, y3 \in Nat : y1 = k.inTransaction /\ y2 = k.userExpected /\ y3 = a.expected
    BY <1>1 DEF Counts, Ledger
  <2>2. Len(a.collected) = y1 + y2 + y3 /\ k.named = 0
    BY <1>1, <2>1
  <2>3. v = 0 + (y1 + y2 + y3) - y3
    BY <1>2, <2>1, <2>2
  <2> QED BY <2>1, <2>3
<1>4. PICK z : z = Closed(a, t, f, h)
  OBVIOUS
<1>5. PICK marked : marked = {x \in a.seen : x[1] = Outside}
  OBVIOUS
<1>6. PICK k1 : k1 = [k EXCEPT !.named = v]
  OBVIOUS
<1>23. PICK k0 : k0 = [k1 EXCEPT !.thrown = t]
  OBVIOUS
<1>7. PICK k2 : k2 = [k0 EXCEPT !.frustrating = f]
  OBVIOUS
<1>8. PICK k3 : k3 = [k2 EXCEPT !.error = h]
  OBVIOUS
<1>9. /\ k1 \in Counts /\ k1.named = v
      /\ \A g \in {"traces", "events", "all", "expected", "inTransaction", "userExpected"} : k1[g] = k[g]
  BY <1>6, <1>3 DEF Counts
<1>24. /\ k0 \in Counts /\ k0.thrown = t
       /\ \A g \in {"traces", "events", "all", "expected", "inTransaction", "userExpected", "named"} : k0[g] = k1[g]
  BY <1>23, <1>9 DEF Counts
<1>10. /\ k2 \in Counts /\ k2.frustrating = f
       /\ \A g \in {"traces", "events", "all", "expected", "inTransaction", "userExpected", "named", "thrown"} :
             k2[g] = k0[g]
  BY <1>7, <1>24 DEF Counts
<1>11. /\ k3 \in Counts /\ k3.error = h
       /\ \A g \in {"traces", "events", "all", "expected", "inTransaction", "userExpected", "named", "thrown", "frustrating"} :
             k3[g] = k2[g]
  BY <1>8, <1>10 DEF Counts
<1>12. marked \in SUBSET SeenOnce
  <2>1. a.seen \in SUBSET SeenOnce
    BY DEF Ledger
  <2> QED BY <2>1, <1>5
<1>13. PICK a1 : a1 = [a EXCEPT !.booked = k1]
  OBVIOUS
<1>25. PICK a0 : a0 = [a1 EXCEPT !.booked = k0]
  OBVIOUS
<1>14. PICK a2 : a2 = [a0 EXCEPT !.booked = k2]
  OBVIOUS
<1>15. PICK a3 : a3 = [a2 EXCEPT !.booked = k3]
  OBVIOUS
<1>16. PICK a4 : a4 = [a3 EXCEPT !.seen = marked]
  OBVIOUS
<1>17. a1 \in Ledger /\ a1.booked = k1 /\ a1.seen = a.seen /\ a1.traces = a.traces /\ a1.collected = a.collected
  BY <1>9, <1>13 DEF Ledger
<1>26. a0 \in Ledger /\ a0.booked = k0 /\ a0.seen = a.seen /\ a0.traces = a.traces /\ a0.collected = a.collected
  BY <1>24, <1>25, <1>17 DEF Ledger
<1>18. a2 \in Ledger /\ a2.booked = k2 /\ a2.seen = a.seen /\ a2.traces = a.traces /\ a2.collected = a.collected
  BY <1>10, <1>14, <1>26 DEF Ledger
<1>19. a3 \in Ledger /\ a3.booked = k3 /\ a3.seen = a.seen /\ a3.traces = a.traces /\ a3.collected = a.collected
  BY <1>11, <1>15, <1>18 DEF Ledger
<1>20. a4 \in Ledger /\ a4.booked = k3 /\ a4.seen = marked /\ a4.traces = a.traces /\ a4.collected = a.collected
  BY <1>12, <1>16, <1>19 DEF Ledger
<1>21. z = a4
  <2>1. a1 = [a EXCEPT !.booked.named = k.named + Len(a.collected) - a.expected]
    BY <1>1, <1>2, <1>6, <1>13
  <2>6. a0 = [a1 EXCEPT !.booked.thrown = t]
    BY <1>23, <1>25, <1>17
  <2>2. a2 = [a0 EXCEPT !.booked.frustrating = f]
    BY <1>7, <1>14, <1>26
  <2>3. a3 = [a2 EXCEPT !.booked.error = h]
    BY <1>8, <1>15, <1>18
  <2>4. a4 = [a3 EXCEPT !.seen = {x \in a3.seen : x[1] = Outside}]
    BY <1>5, <1>16, <1>19
  <2>5. z = [a EXCEPT !.booked.named = @ + Len(a.collected) - a.expected,
                      !.booked.thrown = t,
                      !.booked.frustrating = f,
                      !.booked.error = h,
                      !.seen = {x \in @ : x[1] = Outside}]
    BY <1>4, Zenon DEF Closed
  <2> QED BY <2>1, <2>2, <2>3, <2>4, <2>5, <2>6, <1>1, <1>17, <1>18, <1>19, <1>26
<1>22. ClosedAs(z, a, t, f, h)
  BY <1>3, <1>1, <1>5, <1>9, <1>24, <1>10, <1>11, <1>20, <1>21 DEF ClosedAs
<1> QED BY <1>4, <1>22

\* The whole of onTransactionFinished's collecting.
Gathered(status) ==
    StatusError(CollectAll(CollectAll(Books, userErrors, status, TRUE), exceptions, status, FALSE), status)

\* The counts a step starts from.
LEMMA NothingYet ==
    /\ NothingBooked \in Counts
    /\ NothingBooked.traces = 0 /\ NothingBooked.events = 0 /\ NothingBooked.all = 0 /\ NothingBooked.expected = 0
    /\ NothingBooked.inTransaction = 0 /\ NothingBooked.userExpected = 0 /\ NothingBooked.named = 0
    /\ NothingBooked.thrown = FALSE /\ NothingBooked.frustrating = FALSE /\ NothingBooked.error = FALSE
<1> QED BY DEF NothingBooked, Counts

\* The books a step starts from.
LEMMA EmptyBooks ==
    ASSUME ErrorTypeOK, seenErrors \subseteq {Outside} \X ErrorObjects
    PROVE  /\ Books \in Ledger
           /\ Books.seen = seenErrors /\ Books.booked = NothingBooked /\ Books.traces = errorTraces
           /\ Books.collected = <<>> /\ Books.expected = 0
           /\ \A status : Booked(Books, status)
<1>1. Books \in Ledger
  <2>1. seenErrors \in SUBSET SeenOnce
    BY DEF SeenOnce
  <2>2. <<>> \in Seq(ErrorObjects \cup {NoError})
    OBVIOUS
  <2> QED BY <2>1, <2>2, NothingYet DEF Books, Ledger, ErrorTypeOK
<1>2. /\ Books.seen = seenErrors /\ Books.booked = NothingBooked /\ Books.traces = errorTraces
      /\ Books.collected = <<>> /\ Books.expected = 0
  BY DEF Books
<1>3. CountsAgree(NothingBooked)
  BY NothingYet DEF CountsAgree
<1>4. ASSUME NEW e PROVE <<"own", e>> \notin seenErrors
  BY DEF Outside
<1>5. ASSUME NEW status PROVE Booked(Books, status)
  BY <1>1, <1>2, <1>3, <1>4, NothingYet DEF Booked
<1> QED BY <1>1, <1>2, <1>5

\* The errors of a transaction and its status code are booked as they should be.
LEMMA AllGathered ==
    ASSUME ErrorTypeOK, seenErrors \subseteq {Outside} \X ErrorObjects, NEW status
    PROVE  AllBooked(Gathered(status), status)
<1>0. /\ errorConfig \in [enabled : BOOLEAN, traces : BOOLEAN, events : BOOLEAN]
      /\ exceptions \in Seq(ErrorObjects) /\ userErrors \in Seq(ErrorObjects)
  BY DEF ErrorTypeOK
<1>1. PICK b : b = Books
  OBVIOUS
<1>2. Booked(b, status) /\ b.booked = NothingBooked /\ b.collected = <<>>
  BY <1>1, EmptyBooks
<1>3. PICK c : c = CollectAll(b, userErrors, status, TRUE)
  OBVIOUS
<1>4. Booked(c, status) /\ (userErrors = <<>> => c = b)
  <2>1. PICK u \in BOOLEAN : u = TRUE
    OBVIOUS
  <2>2. c = CollectAll(b, userErrors, status, u)
    BY <1>3, <2>1, Zenon
  <2>3. CollectsAll(b, c, userErrors, status)
    BY <1>0, <1>2, <2>2, AllCollected
  <2> QED BY <2>3 DEF CollectsAll
<1>5. PICK d : d = CollectAll(c, exceptions, status, FALSE)
  OBVIOUS
<1>6. /\ Booked(d, status) /\ (exceptions = <<>> => d = c)
      /\ \A i \in 1..Len(exceptions) : <<"own", exceptions[i]>> \in d.seen
  <2>1. PICK u \in BOOLEAN : u = FALSE
    OBVIOUS
  <2>2. d = CollectAll(c, exceptions, status, u)
    BY <1>5, <2>1, Zenon
  <2>3. CollectsAll(c, d, exceptions, status)
    BY <1>0, <1>4, <2>2, AllCollected
  <2> QED BY <2>3 DEF CollectsAll
<1>7. PICK a : a = StatusError(d, status)
  OBVIOUS
<1>8. a = Gathered(status)
  BY <1>1, <1>3, <1>5, <1>7 DEF Gathered
<1>9. CASE ~(exceptions = <<>> /\ status \in {"bad", "expected"})
  <2>1. a = d
    BY <1>7, <1>9 DEF StatusError
  <2>2. \A i \in 1..Len(a.collected) : a.collected[i] # NoError
    BY <2>1, <1>6 DEF Booked
  <2>3. ASSUME Frustrates(status) PROVE a.booked.all > 0
    <3>1. status = "bad" /\ ~HasOnlyExpectedErrors(status)
      BY <2>3 DEF Frustrates
    <3>2. exceptions # <<>>
      BY <3>1, <1>9
    <3>3. PICK i \in DOMAIN exceptions : ~(exceptions[i] \in ExpectedErrors \/ IgnoredByRules(exceptions[i], status))
      BY <3>1, <3>2 DEF HasOnlyExpectedErrors
    <3>4. i \in 1..Len(exceptions) /\ exceptions[i] \in ErrorObjects \ ExpectedErrors
      BY <3>3, <1>0
    <3>5. <<"own", exceptions[i]>> \in d.seen
      BY <3>4, <1>6
    <3> QED BY <3>1, <3>4, <3>5, <2>1, <1>6 DEF Booked
  <2>4. ASSUME ~HasErrors(status) PROVE ~(a.booked.inTransaction > 0)
    <3>1. exceptions = <<>> /\ userErrors = <<>>
      BY <2>4 DEF HasErrors
    <3>2. a = b
      BY <3>1, <2>1, <1>4, <1>6
    <3>3. a.booked.inTransaction = 0
      BY <3>2, <1>2, NothingYet
    <3> QED BY <3>3
  <2>5. /\ a \in Ledger
        /\ CountsAgree(a.booked) /\ a.booked.named = 0
        /\ Len(a.collected) = a.booked.inTransaction + a.booked.userExpected + a.expected
        /\ \A i, j \in 1..Len(a.collected) : a.collected[i] = a.collected[j] => i = j
    BY <2>1, <1>6 DEF Booked
  <2> QED BY <2>2, <2>3, <2>4, <2>5, <1>8 DEF AllBooked
<1>10. CASE exceptions = <<>> /\ status \in {"bad", "expected"}
  <2>1. a = Collect(d, "own", NoError, status, FALSE)
    BY <1>7, <1>10 DEF StatusError
  <2>2. d \in Ledger
    BY <1>6 DEF Booked
  <2>3. status # "none" /\ status \in {"bad", "expected"}
    BY <1>10
  <2>4. Adds(d, a, "own", NoError, status, FALSE)
    <3>1. PICK u \in BOOLEAN : u = FALSE
      OBVIOUS
    <3>2. a = Collect(d, "own", NoError, status, u)
      BY <2>1, <3>1, Zenon
    <3>3. CollectedAs(d, a, "own", NoError, status, u)
      BY <2>2, <3>2, <1>0, Collected
    <3> QED BY <3>1, <3>3, <2>3, Zenon DEF CollectedAs
  <2>5. PICK x \in BOOLEAN : x = IsExpected(NoError, status)
    BY DEF IsExpected
  <2>6. x = (status = "expected")
    BY <2>5, ErrorsAssumption DEF IsExpected
  <2>7. PICK k \in Counts, m \in Counts : k = d.booked /\ m = a.booked
    BY <2>2, <2>4 DEF Ledger, Adds
  <2>8. "own" # Outside
    BY DEF Outside
  <2>9. /\ m.traces = k.traces + OneIf(errorConfig.traces) /\ m.events = k.events + OneIf(errorConfig.events)
        /\ m.all = k.all + OneIf(~x) /\ m.expected = k.expected + OneIf(x)
        /\ m.inTransaction = k.inTransaction + OneIf(~x)
        /\ m.userExpected = k.userExpected + OneIf(FALSE)
        /\ a.expected = d.expected + OneIf(x)
        /\ a.collected = Append(d.collected, NoError)
        /\ m.named = k.named
    BY <2>4, <2>5, <2>7, <2>8, Zenon DEF Adds, OneIf
  <2>10. OneIf(FALSE) = 0
    BY DEF OneIf
  <2>11. PICK x1 \in Nat, x2 \in Nat : x1 = OneIf(errorConfig.traces) /\ x2 = OneIf(errorConfig.events)
    <3>1. \A y : OneIf(y) \in Nat
      BY DEF OneIf
    <3> QED BY <3>1, Zenon
  <2>12. PICK x3 \in Nat, x4 \in Nat : x3 = OneIf(~x) /\ x4 = OneIf(x)
    <3>1. \A y : OneIf(y) \in Nat
      BY DEF OneIf
    <3> QED BY <3>1, Zenon
  <2>13. x3 + x4 = 1
    <3>1. CASE x
      <4>1. x3 = 0 /\ x4 = 1
        BY <3>1, <2>12, Zenon DEF OneIf
      <4> QED BY <4>1
    <3>2. CASE ~x
      <4>1. x3 = 1 /\ x4 = 0
        BY <3>2, <2>12, Zenon DEF OneIf
      <4> QED BY <4>1
    <3> QED BY <3>1, <3>2
  <2>14. /\ m.traces = k.traces + x1 /\ m.events = k.events + x2
         /\ m.all = k.all + x3 /\ m.expected = k.expected + x4
         /\ m.inTransaction = k.inTransaction + x3
         /\ m.userExpected = k.userExpected + 0
         /\ a.expected = d.expected + x4 /\ m.named = k.named
    BY <2>9, <2>10, <2>11, <2>12, Zenon
  <2>15. /\ k.traces \in Nat /\ k.events \in Nat /\ k.all \in Nat /\ k.expected \in Nat /\ k.inTransaction \in Nat
         /\ k.userExpected \in Nat /\ d.expected \in Nat
    BY <2>2 DEF Counts, Ledger
  <2>16. CountsAgree(m)
    <3>1. CountsAgree(k)
      BY <1>6, <2>7 DEF Booked
    <3>2. errorConfig.traces => x1 = 1
      BY <2>11, Zenon DEF OneIf
    <3>3. errorConfig.events => x2 = 1
      BY <2>11, Zenon DEF OneIf
    <3>4. x1 \in Nat /\ x2 \in Nat /\ x3 \in Nat /\ x4 \in Nat
      BY <2>11, <2>12
    <3>5. ASSUME errorConfig.traces PROVE m.traces = m.all + m.expected
      <4>1. k.traces = k.all + k.expected
        BY <3>1, <3>5 DEF CountsAgree
      <4>2. x1 = 1
        BY <3>2, <3>5
      <4> QED BY <4>1, <4>2, <3>4, <2>13, <2>14, <2>15
    <3>6. ASSUME errorConfig.events PROVE m.events = m.all + m.expected
      <4>1. k.events = k.all + k.expected
        BY <3>1, <3>6 DEF CountsAgree
      <4>2. x2 = 1
        BY <3>3, <3>6
      <4> QED BY <4>1, <4>2, <3>4, <2>13, <2>14, <2>15
    <3> QED BY <3>5, <3>6 DEF CountsAgree
  <2>17. PICK list \in Seq(ErrorObjects \cup {NoError}) : list = d.collected
    BY <2>2 DEF Ledger
  <2>18. PICK longer : longer = a.collected /\ longer = Append(list, NoError)
    BY <2>9, <2>17
  <2>19. PICK n \in Nat : n = Len(list)
    BY <2>17
  <2>20. Len(longer) = n + 1 /\ longer[n + 1] = NoError /\ \A i \in 1..n : longer[i] = list[i]
    BY <2>17, <2>18, <2>19, AppendProperties
  <2>21. n + 1 = m.inTransaction + m.userExpected + a.expected
    <3>1. n = k.inTransaction + k.userExpected + d.expected
      BY <1>6, <2>7, <2>17, <2>19 DEF Booked
    <3>2. PICK y1 \in Nat, y2 \in Nat, y3 \in Nat : y1 = k.inTransaction /\ y2 = k.userExpected /\ y3 = d.expected
      BY <2>15
    <3>3. n = y1 + y2 + y3
      BY <3>1, <3>2
    <3>4. m.inTransaction = y1 + x3 /\ m.userExpected = y2 + 0 /\ a.expected = y3 + x4
      BY <3>2, <2>14
    <3>5. /\ y1 \in Nat /\ y2 \in Nat /\ y3 \in Nat /\ x3 \in Nat /\ x4 \in Nat
      BY <3>2, <2>12, <2>15
    <3>6. 0 + x4 = x4
      BY <3>5
    <3>7. (y1 + x3) + (y2 + 0) + (y3 + x4) = (y1 + y2 + y3) + 1
      BY <3>5, <3>6, <2>13, SumsMeet
    <3>8. n + 1 = (y1 + x3) + (y2 + 0) + (y3 + x4)
      BY <3>3, <3>7
    <3> QED BY <3>4, <3>8, Zenon
  <2>22. \A i \in 1..n : list[i] # NoError
    BY <1>6, <2>17, <2>19 DEF Booked
  <2>23. \A i, j \in 1..n : list[i] = list[j] => i = j
    BY <1>6, <2>17, <2>19 DEF Booked
  <2>24. ASSUME NEW i \in 1..n + 1, longer[i] = NoError PROVE i = n + 1
    BY <2>20, <2>22, <2>24
  <2>25. ASSUME NEW i \in 1..n + 1, NEW j \in 1..n + 1, longer[i] = longer[j] PROVE i = j
    BY <2>20, <2>22, <2>23, <2>25
  <2>26. ASSUME Frustrates(status) PROVE m.all > 0
    <3>1. status = "bad"
      BY <2>26 DEF Frustrates
    <3>2. ~x
      BY <3>1, <2>6
    <3>3. x3 = 1
      BY <3>2, <2>12, Zenon DEF OneIf
    <3> QED BY <3>3, <2>14, <2>15
  <2>27. HasErrors(status)
    BY <2>3 DEF HasErrors
  <2>28. k.named = 0
    BY <1>6, <2>7 DEF Booked
  <2>29. a \in Ledger
    BY <2>4 DEF Adds
  <2>30. Len(a.collected) = n + 1 /\ a.collected = longer
    BY <2>18, <2>20
  <2>31. Len(a.collected) = a.booked.inTransaction + a.booked.userExpected + a.expected
    BY <2>30, <2>7, <2>21
  <2>32. /\ \A i, j \in 1..Len(a.collected) : a.collected[i] = a.collected[j] => i = j
         /\ \A i \in 1..Len(a.collected) : a.collected[i] = NoError => i = Len(a.collected) /\ exceptions = <<>>
    BY <2>30, <2>24, <2>25, <1>10
  <2> QED BY <1>8, <2>7, <2>14, <2>16, <2>26, <2>27, <2>28, <2>29, <2>31, <2>32 DEF AllBooked
<1> QED BY <1>8, <1>9, <1>10

\* What every step keeps: between transactions only errors outside of them are remembered.
ErrorInv ==
    /\ ErrorTypeOK
    /\ seenErrors \subseteq {Outside} \X ErrorObjects
    /\ collected \in Seq(ErrorObjects \cup {NoError})
    /\ booked \in Counts
    /\ ErrorCountsAgree /\ NoErrorTwice /\ ApdexAgrees

\* A step that collects nothing satisfies the three properties.
LEMMA NothingHappened ==
    ASSUME NothingCollected
    PROVE  /\ booked' \in Counts /\ collected' \in Seq(ErrorObjects \cup {NoError})
           /\ ErrorCountsAgree' /\ NoErrorTwice' /\ ApdexAgrees'
<1>1. booked' = NothingBooked /\ collected' = <<>>
  BY DEF NothingCollected
<1>2. ErrorCountsAgree'
  BY <1>1, NothingYet DEF ErrorCountsAgree
<1>3. NoErrorTwice'
  BY <1>1 DEF NoErrorTwice
<1>4. ApdexAgrees'
  BY <1>1, NothingYet DEF ApdexAgrees
<1> QED BY <1>1, <1>2, <1>3, <1>4, NothingYet

\* An error outside of a transaction keeps the invariant.
LEMMA NowCollected ==
    ASSUME ErrorInv, NEW e \in ErrorObjects, NEW user \in BOOLEAN, CollectNow(e, user)
    PROVE  ErrorInv'
<1>1. PICK b : b = Books
  OBVIOUS
<1>2. /\ b \in Ledger /\ b.seen = seenErrors /\ b.booked = NothingBooked /\ b.traces = errorTraces
      /\ b.collected = <<>> /\ b.expected = 0
  BY <1>1, EmptyBooks DEF ErrorInv
<1>3. PICK c : c = Collect(b, Outside, e, "none", user)
  OBVIOUS
<1>4. seenErrors' = c.seen /\ booked' = c.booked /\ errorTraces' = c.traces /\ collected' = c.collected
  BY <1>1, <1>3, Zenon DEF CollectNow, Book
<1>5. UNCHANGED <<errorConfig, exceptions, userErrors, errorsOut>>
  BY DEF CollectNow
<1>6. e # NoError
  BY ErrorsAssumption
<1>7. ErrorTypeOK /\ seenErrors \subseteq {Outside} \X ErrorObjects
  BY DEF ErrorInv
<1>8. CountsAgree(NothingBooked)
  BY NothingYet DEF CountsAgree
<1>9. c \in Ledger /\ c.seen \subseteq {Outside} \X ErrorObjects
    /\ CountsAgree(c.booked) /\ c.booked.named = 0 /\ c.booked.inTransaction = 0 /\ c.booked.userExpected = 0
    /\ c.booked.frustrating = FALSE
    /\ c.collected \in {<<>>, <<e>>}
  <2>1. b.seen \subseteq {Outside} \X ErrorObjects
    BY <1>2, <1>7
  <2>2. CASE c = b
    BY <2>2, <2>1, <1>2, <1>8, NothingYet
  <2>3. CASE c = [b EXCEPT !.seen = Remembered(b, Outside, e)] /\ c \in Ledger
    <3>1. Remembered(b, Outside, e) = b.seen \cup {<<Outside, e>>}
      BY <1>6 DEF Remembered
    <3>2. c.seen = b.seen \cup {<<Outside, e>>} /\ c.booked = b.booked /\ c.collected = b.collected
      BY <3>1, <1>2, <2>3 DEF Ledger
    <3>3. c.seen \subseteq {Outside} \X ErrorObjects
      BY <3>2, <2>1
    <3> QED BY <3>2, <3>3, <2>3, <1>2, <1>8, NothingYet
  <2>4. CASE Adds(b, c, Outside, e, "none", user)
    <3>1. PICK x \in BOOLEAN : x = IsExpected(e, "none")
      BY DEF IsExpected
    <3>2. c \in Ledger /\ c.seen = b.seen \cup {<<Outside, e>>} /\ c.collected = Append(b.collected, e)
      BY <2>4, <1>6, Zenon DEF Adds
    <3>3. PICK m \in Counts : m = c.booked
      BY <3>2 DEF Ledger
    <3>4. OneIf(FALSE) = 0 /\ OneIf(TRUE) = 1
      BY DEF OneIf
    <3>5. /\ m.traces = 0 + OneIf(errorConfig.traces) /\ m.events = 0 + OneIf(errorConfig.events)
          /\ m.all = 0 + OneIf(~x) /\ m.expected = 0 + OneIf(x)
          /\ m.inTransaction = 0 + OneIf(FALSE) /\ m.userExpected = 0 + OneIf(FALSE) /\ m.named = 0
      BY <2>4, <3>1, <3>3, <1>2, NothingYet, Zenon DEF Adds, OneIf
    <3>6. m.inTransaction = 0 /\ m.userExpected = 0
      <4>1. m.inTransaction = 0 + 0 /\ m.userExpected = 0 + 0
        BY <3>4, <3>5, Zenon
      <4> QED BY <4>1
    <3>7. errorConfig.traces => m.traces = 1
      <4>1. errorConfig.traces => m.traces = 0 + 1
        BY <3>5, Zenon DEF OneIf
      <4> QED BY <4>1
    <3>8. errorConfig.events => m.events = 1
      <4>1. errorConfig.events => m.events = 0 + 1
        BY <3>5, Zenon DEF OneIf
      <4> QED BY <4>1
    <3>9. m.all + m.expected = 1
      <4>1. CASE x
        <5>1. m.all = 0 + 0 /\ m.expected = 0 + 1
          BY <4>1, <3>5, Zenon DEF OneIf
        <5> QED BY <5>1
      <4>2. CASE ~x
        <5>1. m.all = 0 + 1 /\ m.expected = 0 + 0
          BY <4>2, <3>5, Zenon DEF OneIf
        <5> QED BY <5>1
      <4> QED BY <4>1, <4>2
    <3>10. CountsAgree(m)
      BY <3>7, <3>8, <3>9 DEF CountsAgree
    <3>11. c.collected = <<e>>
      BY <3>2, <1>2
    <3>12. m.frustrating = FALSE
      BY <2>4, <3>3, <1>2, NothingYet DEF Adds
    <3>13. c.seen \subseteq {Outside} \X ErrorObjects
      BY <3>2, <2>1
    <3> QED BY <3>2, <3>3, <3>5, <3>6, <3>10, <3>11, <3>12, <3>13
  <2>5. Outside \in {"own", Outside} /\ e \in ErrorObjects \cup {NoError}
    OBVIOUS
  <2>6. errorConfig \in [enabled : BOOLEAN, traces : BOOLEAN, events : BOOLEAN]
    BY <1>7 DEF ErrorTypeOK
  <2>7. \/ c = b
        \/ c = [b EXCEPT !.seen = Remembered(b, Outside, e)] /\ c \in Ledger
        \/ Adds(b, c, Outside, e, "none", user)
    <3>1. CollectedAs(b, c, Outside, e, "none", user)
      BY <2>5, <2>6, <1>2, <1>3, Collected
    <3> QED BY <3>1, Zenon DEF CollectedAs
  <2> QED BY <2>2, <2>3, <2>4, <2>7, Zenon
<1>10. ErrorTypeOK'
  <2>1. c.traces \in 0 .. MaxErrorTraces /\ c.seen \subseteq SeenOnce
    BY <1>9 DEF Ledger
  <2> QED BY <2>1, <1>4, <1>5, <1>7 DEF ErrorTypeOK, SeenOnce
<1>11. booked' \in Counts /\ collected' \in Seq(ErrorObjects \cup {NoError})
  BY <1>4, <1>9 DEF Ledger
<1>12. ErrorCountsAgree'
  BY <1>4, <1>5, <1>9 DEF ErrorCountsAgree, CountsAgree
<1>13. NoErrorTwice'
  BY <1>4, <1>6, <1>9 DEF NoErrorTwice
<1>14. ApdexAgrees'
  BY <1>4, <1>9 DEF ApdexAgrees
<1> QED BY <1>4, <1>9, <1>10, <1>11, <1>12, <1>13, <1>14 DEF ErrorInv

\* The end of a transaction keeps it.
LEMMA FinishedCorrect ==
    ASSUME ErrorInv, NEW status, TransactionFinished(status)
    PROVE  ErrorInv'
<1>1. ErrorTypeOK /\ seenErrors \subseteq {Outside} \X ErrorObjects
  BY DEF ErrorInv
<1>2. PICK a : a = Gathered(status)
  OBVIOUS
<1>3. AllBooked(a, status)
  BY <1>1, <1>2, AllGathered
<1>4. PICK f \in BOOLEAN : f = Frustrates(status)
  BY DEF Frustrates
<1>5. PICK h \in BOOLEAN : h = HasErrors(status)
  BY DEF HasErrors
<1>19. PICK t \in BOOLEAN : t = (exceptions # <<>>)
  OBVIOUS
<1>6. PICK z : z = Closed(a, t, f, h)
  OBVIOUS
<1>7. ClosedAs(z, a, t, f, h)
  BY <1>3, <1>6, ClosedBooks DEF AllBooked
<1>8. /\ seenErrors' = z.seen /\ booked' = z.booked /\ errorTraces' = z.traces /\ collected' = z.collected
      /\ exceptions' = <<>> /\ userErrors' = <<>>
      /\ UNCHANGED <<errorConfig, errorsOut>>
  <2>1. z = [a EXCEPT !.booked.named = @ + Len(a.collected) - a.expected,
                      !.booked.thrown = exceptions # <<>>,
                      !.booked.frustrating = Frustrates(status),
                      !.booked.error = HasErrors(status),
                      !.seen = {x \in @ : x[1] = Outside}]
    BY <1>4, <1>5, <1>6, <1>19, Zenon DEF Closed
  <2> QED BY <2>1, <1>2, Zenon DEF TransactionFinished, Gathered, Book
<1>9. /\ z \in Ledger /\ a \in Ledger
      /\ z.seen = {x \in a.seen : x[1] = Outside} /\ z.collected = a.collected
  BY <1>3, <1>7 DEF ClosedAs, AllBooked
<1>10. PICK m \in Counts : m = z.booked
  BY <1>9 DEF Ledger
<1>11. PICK k \in Counts : k = a.booked
  BY <1>9 DEF Ledger
<1>12. /\ m.traces = k.traces /\ m.events = k.events /\ m.all = k.all /\ m.expected = k.expected
       /\ m.inTransaction = k.inTransaction /\ m.userExpected = k.userExpected
       /\ m.named = k.inTransaction + k.userExpected /\ m.thrown = t /\ m.frustrating = f /\ m.error = h
  BY <1>7, <1>10, <1>11 DEF ClosedAs
<1>13. z.seen \subseteq {Outside} \X ErrorObjects
  <2>1. a.seen \subseteq SeenOnce
    BY <1>9 DEF Ledger
  <2> QED BY <2>1, <1>9 DEF SeenOnce
<1>14. ErrorTypeOK'
  <2>1. z.traces \in 0 .. MaxErrorTraces
    BY <1>9 DEF Ledger
  <2> QED BY <2>1, <1>1, <1>8, <1>13 DEF ErrorTypeOK
<1>15. booked' \in Counts /\ collected' \in Seq(ErrorObjects \cup {NoError})
  BY <1>8, <1>9 DEF Ledger
<1>16. ErrorCountsAgree'
  <2>1. CountsAgree(k)
    BY <1>3, <1>11 DEF AllBooked
  <2> QED BY <2>1, <1>8, <1>10, <1>12 DEF CountsAgree, ErrorCountsAgree
<1>17. NoErrorTwice'
  <2>1. PICK list \in Seq(ErrorObjects \cup {NoError}) : list = a.collected
    BY <1>9 DEF Ledger
  <2>2. collected' = list /\ DOMAIN list = 1..Len(list)
    BY <1>8, <1>9, <2>1
  <2>3. /\ \A i, j \in 1..Len(list) : list[i] = list[j] => i = j
        /\ \A i \in 1..Len(list) : list[i] = NoError => i = Len(list) /\ exceptions = <<>>
    BY <1>3, <2>1 DEF AllBooked
  <2>4. \A i \in 1..Len(list) : list[i] = NoError => i = Len(list) /\ ~booked'.thrown
    BY <2>3, <1>8, <1>10, <1>12, <1>19
  <2> QED BY <2>2, <2>3, <2>4 DEF NoErrorTwice
<1>18. ApdexAgrees'
  <2>1. f => k.all > 0
    BY <1>3, <1>4, <1>11 DEF AllBooked
  <2>2. k.inTransaction > 0 => h
    BY <1>3, <1>5, <1>11 DEF AllBooked
  <2> QED BY <2>1, <2>2, <1>8, <1>10, <1>12 DEF ApdexAgrees
<1> QED BY <1>8, <1>13, <1>14, <1>15, <1>16, <1>17, <1>18 DEF ErrorInv

\* So does a step that collects nothing.
LEMMA KeptErrors ==
    ASSUME ErrorInv, NothingCollected, UNCHANGED <<seenErrors>> \/ seenErrors' = {}, ErrorTypeOK'
    PROVE  ErrorInv'
<1>1. seenErrors' \subseteq {Outside} \X ErrorObjects
  BY DEF ErrorInv
<1> QED BY <1>1, NothingHappened DEF ErrorInv

\* The invariant holds throughout.
LEMMA ErrorInvHolds == ErrorSpec => []ErrorInv
<1>1. ASSUME ErrorInit PROVE ErrorInv
  <2>1. /\ booked = NothingBooked /\ collected = <<>> /\ seenErrors = {}
    BY <1>1 DEF ErrorInit
  <2>2. ErrorTypeOK
    BY <1>1, ErrorsAssumption DEF ErrorInit, ErrorTypeOK
  <2>3. ErrorCountsAgree
    BY <2>1, NothingYet DEF ErrorCountsAgree
  <2>4. NoErrorTwice
    BY <2>1 DEF NoErrorTwice
  <2>5. ApdexAgrees
    BY <2>1, NothingYet DEF ApdexAgrees
  <2> QED BY <2>1, <2>2, <2>3, <2>4, <2>5, NothingYet DEF ErrorInv
<1>2. ASSUME ErrorInv, [ErrorNext]_errorVars PROVE ErrorInv'
  <2> USE <1>2
  <2>0. ErrorTypeOK
    BY DEF ErrorInv
  <2>1. CASE \E e \in ErrorObjects, user \in BOOLEAN : CollectNow(e, user)
    BY <2>1, NowCollected
  <2>2. ASSUME NEW e \in ErrorObjects, NEW status, AddException(e, status) PROVE ErrorInv'
    <3>1. Append(exceptions, e) \in Seq(ErrorObjects)
      BY <2>0 DEF ErrorTypeOK
    <3>2. ErrorTypeOK'
      BY <2>0, <2>2, <3>1 DEF AddException, KeepException, ErrorTypeOK
    <3> QED BY <2>2, <3>2, KeptErrors DEF AddException
  <2>3. ASSUME NEW e \in ErrorObjects, AddUserError(e) PROVE ErrorInv'
    <3>1. Append(userErrors, e) \in Seq(ErrorObjects)
      BY <2>0 DEF ErrorTypeOK
    <3>2. ErrorTypeOK'
      BY <2>0, <2>3, <3>1 DEF AddUserError, KeepUserError, ErrorTypeOK
    <3> QED BY <2>3, <3>2, KeptErrors DEF AddUserError
  <2>4. CASE \E status \in StatusCodes : TransactionFinished(status)
    BY <2>4, FinishedCorrect
  <2>5. CASE TransactionIgnored
    <3>1. ErrorTypeOK'
      BY <2>0, <2>5 DEF TransactionIgnored, ErrorTypeOK
    <3> QED BY <2>5, <3>1, KeptErrors DEF TransactionIgnored
  <2>6. CASE SendErrors
    <3>1. ErrorTypeOK'
      BY <2>0, <2>6, ErrorsAssumption DEF SendErrors, ErrorTypeOK
    <3> QED BY <2>6, <3>1, KeptErrors DEF SendErrors
  <2>7. ASSUME NEW retain \in BOOLEAN, ErrorsAnswered(retain) PROVE ErrorInv'
    <3>1. MergedErrors \in 0 .. MaxErrorTraces
      BY <2>0, ErrorsAssumption DEF MergedErrors, ErrorTypeOK
    <3>2. ErrorTypeOK'
      BY <2>0, <2>7, <3>1, ErrorsAssumption DEF ErrorsAnswered, ErrorTypeOK
    <3> QED BY <2>7, <3>2, KeptErrors DEF ErrorsAnswered
  <2>8. CASE ErrorsReconfigured
    <3>1. errorConfig' \in [enabled : BOOLEAN, traces : BOOLEAN, events : BOOLEAN]
      BY <2>0, <2>8 DEF ErrorsReconfigured, ErrorTypeOK
    <3>2. ErrorTypeOK'
      BY <2>0, <2>8, <3>1 DEF ErrorsReconfigured, ErrorTypeOK
    <3> QED BY <2>8, <3>2, KeptErrors DEF ErrorsReconfigured
  <2>9. CASE UNCHANGED errorVars
    <3>1. ErrorTypeOK'
      BY <2>0, <2>9 DEF errorVars, ErrorTypeOK
    <3>2. ErrorCountsAgree'
      BY <2>9 DEF errorVars, ErrorInv, ErrorCountsAgree
    <3>3. NoErrorTwice'
      BY <2>9 DEF errorVars, ErrorInv, NoErrorTwice
    <3>4. ApdexAgrees'
      BY <2>9 DEF errorVars, ErrorInv, ApdexAgrees
    <3> QED BY <2>9, <3>1, <3>2, <3>3, <3>4 DEF errorVars, ErrorInv
  <2> QED BY <2>1, <2>2, <2>3, <2>4, <2>5, <2>6, <2>7, <2>8, <2>9 DEF ErrorNext, NoticeError
<1> QED BY <1>1, <1>2, PTL DEF ErrorSpec

\* However errors are thrown, noticed and collected, each counts once, in one of Errors/all and
\* Errors/expected and with its trace and event, the limit of traces holds, and a transaction is
\* frustrating only if one of its errors counts.
THEOREM ErrorsAreCorrect == ErrorSpec => []ErrorsCorrect
<1>1. ErrorInv => ErrorsCorrect
  BY DEF ErrorInv, ErrorsCorrect
<1> QED BY <1>1, ErrorInvHolds, PTL

(***************************************************************************)
(* Segments and their timers.  The invariant says what is so of a timer in *)
(* each of its states (SoundTimer), that the root starts at once and       *)
(* measures nothing before it is ended (Tree), that it covers every        *)
(* segment that has been measured (AllCovered), and that what the end of   *)
(* the trace got to is stopped.  It holds after each timer that changes    *)
(* (TimerReplaced, RootUpdates), after each segment that is finalized      *)
(* (FinalizedStep) and after all of them (FinalizedOneByOne, with Repeated *)
(* of Induction).                                                          *)
(***************************************************************************)
\* Timers, and what is so of one at any time.
Timers == [state : {"pending", "running", "stopped"}, touched : BOOLEAN, start : Nat,
           measured : Nat \cup {None}, fixed : Nat \cup {None}]
SegmentRecords == [parent : Nat, timer : Timers, collect : BOOLEAN, ignore : BOOLEAN, truncated : BOOLEAN]

SoundTimer(t, now) ==
    /\ t \in Timers /\ t.start <= now
    /\ t.state = "pending" => t.start = 0 /\ ~t.touched /\ t.measured = None /\ t.fixed = None
    /\ t.state = "running" => t.fixed = None /\ (~t.touched => t.measured = None) /\ (t.touched => t.measured # None)
    /\ t.state = "stopped" => t.measured # None \/ t.fixed # None

\* Duration and EndOf, of any time.
DurationAt(t, now) ==
    IF t.state = "pending" THEN 0
    ELSE IF t.fixed # None THEN t.fixed
    ELSE IF t.measured # None THEN t.measured ELSE now - t.start
EndAt(t, now) == t.start + DurationAt(t, now)
IsMeasured(t) == t.touched \/ t.state = "stopped"

LEMMA DurationNow ==
    ASSUME NEW t \in Timers
    PROVE  Duration(t) = DurationAt(t, clock) /\ EndOf(t) = EndAt(t, clock)
<1>1. Duration(t) = DurationAt(t, clock)
  BY DEF Duration, DurationAt, Timers
<1> QED BY <1>1 DEF EndOf, EndAt

LEMMA DurationIsNat ==
    ASSUME NEW now \in Nat, NEW t, SoundTimer(t, now)
    PROVE  DurationAt(t, now) \in Nat /\ EndAt(t, now) \in Nat
<1>1. t \in Timers /\ t.start \in Nat /\ t.start <= now
  BY DEF SoundTimer, Timers
<1>2. DurationAt(t, now) \in Nat
  BY <1>1 DEF DurationAt, Timers
<1> QED BY <1>1, <1>2 DEF EndAt

\* Time changes nothing of a timer that is measured.
LEMMA MeasuredStays ==
    ASSUME NEW now \in Nat, NEW t, SoundTimer(t, now)
    PROVE  /\ SoundTimer(t, now + 1)
           /\ IsMeasured(t) => DurationAt(t, now + 1) = DurationAt(t, now) /\ EndAt(t, now + 1) = EndAt(t, now)
           /\ EndAt(t, now) <= EndAt(t, now + 1)
<1>1. t \in Timers /\ t.start \in Nat /\ t.start <= now
  BY DEF SoundTimer, Timers
<1>2. SoundTimer(t, now + 1)
  BY <1>1 DEF SoundTimer
<1>3. ASSUME IsMeasured(t) PROVE DurationAt(t, now + 1) = DurationAt(t, now)
  BY <1>1, <1>3 DEF SoundTimer, IsMeasured, DurationAt, Timers
<1>4. DurationAt(t, now) <= DurationAt(t, now + 1)
  BY <1>1 DEF DurationAt, Timers
<1>5. DurationAt(t, now) \in Nat /\ DurationAt(t, now + 1) \in Nat
  BY <1>2, DurationIsNat
<1> QED BY <1>1, <1>2, <1>3, <1>4, <1>5 DEF EndAt

\* What the timers' operations make.
LEMMA TimerSteps ==
    ASSUME clock \in Nat, NEW t, SoundTimer(t, clock)
    PROVE  /\ SoundTimer(Begun(t), clock)
           /\ SoundTimer(Touched(t), clock) /\ IsMeasured(Touched(t))
           /\ t.state # "stopped" => SoundTimer(Ended(t), clock) /\ IsMeasured(Ended(t))
           /\ SoundTimer(SoftEnded(t), clock) /\ SoftEnded(t).state = "stopped"
           /\ t.touched => EndAt(SoftEnded(t), clock) = EndAt(t, clock)
           /\ t.state = "stopped" => /\ Touched(t).state = "stopped"
                                     /\ \A now : DurationAt(Touched(t), now) = DurationAt(t, now)
                                     /\ EndAt(Touched(t), clock) = EndAt(t, clock)
           /\ t.state # "pending" => Begun(t) = t
           /\ t.state = "pending" => ~IsMeasured(Begun(t))
<1>1. t \in Timers /\ t.start \in Nat /\ t.start <= clock
  BY DEF SoundTimer, Timers
<1>2. PICK b : b = Begun(t)
  OBVIOUS
<1>3. SoundTimer(b, clock) /\ b.state # "pending" /\ (t.state # "pending" => b = t) /\ (b = t \/ b.state = "running")
  <2>1. CASE t.state # "pending"
    <3>1. b = t
      BY <2>1, <1>2 DEF Begun
    <3> QED BY <3>1, <2>1
  <2>2. CASE t.state = "pending"
    <3>1. PICK r : r = [t EXCEPT !.state = "running"]
      OBVIOUS
    <3>2. b = [r EXCEPT !.start = clock]
      BY <2>2, <3>1, <1>2 DEF Begun
    <3>3. r \in Timers /\ r.state = "running" /\ r.touched = t.touched /\ r.measured = t.measured /\ r.fixed = t.fixed
      BY <3>1, <1>1 DEF Timers
    <3>4. /\ b \in Timers /\ b.state = "running" /\ b.touched = t.touched /\ b.measured = t.measured
          /\ b.fixed = t.fixed /\ b.start = clock
      BY <3>2, <3>3, <1>1 DEF Timers
    <3>5. ~t.touched /\ t.measured = None /\ t.fixed = None
      BY <2>2 DEF SoundTimer
    <3> QED BY <3>4, <3>5, <2>2 DEF SoundTimer
  <2> QED BY <2>1, <2>2
<1>4. t.state = "pending" => ~IsMeasured(b)
  BY <1>1, <1>2 DEF SoundTimer, Timers, Begun, IsMeasured
<1>5. b \in Timers /\ b.start \in Nat /\ b.start <= clock
  BY <1>3 DEF SoundTimer, Timers
<1>6. PICK m : m = Measured(t)
  OBVIOUS
<1>7. m = [b EXCEPT !.touched = TRUE, !.measured = clock - b.start]
  BY <1>2, <1>6, Zenon DEF Measured
<1>8. /\ m \in Timers /\ m.touched = TRUE /\ m.measured = clock - b.start /\ m.start = b.start /\ m.state = b.state
      /\ m.fixed = b.fixed
  <2>1. PICK d \in Nat : d = clock - b.start
    BY <1>5
  <2>2. PICK r : r = [b EXCEPT !.touched = TRUE]
    OBVIOUS
  <2>3. m = [r EXCEPT !.measured = d]
    BY <2>1, <2>2, <1>7
  <2>4. r \in Timers /\ r.touched = TRUE /\ r.start = b.start /\ r.state = b.state /\ r.fixed = b.fixed
    BY <2>2, <1>5 DEF Timers
  <2> QED BY <2>1, <2>3, <2>4 DEF Timers
<1>9. m.measured \in Nat /\ m.measured # None
  BY <1>5, <1>8 DEF None
<1>10. SoundTimer(m, clock) /\ IsMeasured(m)
  BY <1>3, <1>5, <1>8, <1>9 DEF SoundTimer, IsMeasured
<1>11. SoundTimer(Touched(t), clock) /\ IsMeasured(Touched(t))
  <2>1. CASE t.state # "stopped"
    BY <2>1, <1>6, <1>10 DEF Touched
  <2>2. CASE t.state = "stopped"
    <3>1. Touched(t) = [t EXCEPT !.touched = TRUE]
      BY <2>2 DEF Touched
    <3> QED BY <3>1, <2>2, <1>1 DEF SoundTimer, IsMeasured, Timers
  <2> QED BY <2>1, <2>2
<1>12. PICK e : e = [m EXCEPT !.state = "stopped"]
  OBVIOUS
<1>13. SoundTimer(e, clock) /\ IsMeasured(e) /\ e.state = "stopped"
  BY <1>8, <1>9, <1>10, <1>12 DEF SoundTimer, IsMeasured, Timers
<1>14. t.state # "stopped" => Ended(t) = e
  BY <1>6, <1>12 DEF Ended
<1>15. SoundTimer(SoftEnded(t), clock) /\ SoftEnded(t).state = "stopped"
       /\ (t.touched => EndAt(SoftEnded(t), clock) = EndAt(t, clock))
  <2>1. CASE t.state = "stopped"
    BY <2>1 DEF SoftEnded
  <2>2. CASE t.state # "stopped" /\ ~t.touched
    <3>1. SoftEnded(t) = e
      BY <2>2, <1>6, <1>12 DEF SoftEnded
    <3> QED BY <3>1, <2>2, <1>13
  <2>3. CASE t.state # "stopped" /\ t.touched
    <3>1. PICK z : z = SoftEnded(t)
      OBVIOUS
    <3>2. z = [t EXCEPT !.state = "stopped"]
      BY <2>3, <3>1 DEF SoftEnded
    <3>3. t.state = "running"
      BY <2>3, <1>1 DEF SoundTimer, Timers
    <3>4. /\ z \in Timers /\ z.state = "stopped" /\ z.start = t.start /\ z.measured = t.measured
          /\ z.fixed = t.fixed /\ z.touched = t.touched
      BY <3>2, <1>1 DEF Timers
    <3>5. t.measured # None /\ t.fixed = None
      BY <3>3, <2>3 DEF SoundTimer
    <3>6. SoundTimer(z, clock)
      BY <3>4, <3>5, <1>1 DEF SoundTimer
    <3>7. DurationAt(z, clock) = DurationAt(t, clock)
      BY <3>3, <3>4, <3>5 DEF DurationAt
    <3> QED BY <3>1, <3>4, <3>6, <3>7 DEF EndAt
  <2> QED BY <2>1, <2>2, <2>3
<1>16. ASSUME t.state = "stopped"
       PROVE  /\ Touched(t).state = "stopped"
              /\ \A now : DurationAt(Touched(t), now) = DurationAt(t, now)
              /\ EndAt(Touched(t), clock) = EndAt(t, clock)
  <2>1. PICK z : z = Touched(t)
    OBVIOUS
  <2>2. z = [t EXCEPT !.touched = TRUE]
    BY <1>16, <2>1 DEF Touched
  <2>3. z.state = t.state /\ z.fixed = t.fixed /\ z.measured = t.measured /\ z.start = t.start
    BY <2>2, <1>1 DEF Timers
  <2>4. ASSUME NEW now PROVE DurationAt(z, now) = DurationAt(t, now)
    BY <2>3, Zenon DEF DurationAt
  <2>5. EndAt(z, clock) = EndAt(t, clock)
    BY <2>3, <2>4, Zenon DEF EndAt
  <2> QED BY <2>1, <2>3, <2>4, <2>5, <1>16
<1> QED BY <1>2, <1>3, <1>4, <1>11, <1>13, <1>14, <1>15, <1>16

\* The segments of a trace, at any time.
Tree(segs, now) ==
    /\ segs \in Seq(SegmentRecords) /\ Len(segs) \in 1..MaxSegments + 1
    /\ segs[Root].timer.start = 0 /\ segs[Root].timer.state # "pending"
    /\ segs[Root].timer.state = "running" => ~segs[Root].timer.touched
    /\ \A s \in 1..Len(segs) :
          /\ SoundTimer(segs[s].timer, now)
          /\ s # Root /\ segs[s].collect => s <= MaxTraceSegments + 1

\* A segment that has been measured ends with the root at the latest.
Covered(segs, s, now) ==
    IsMeasured(segs[s].timer) => EndAt(segs[s].timer, now) <= EndAt(segs[Root].timer, now)
AllCovered(segs, now) == \A s \in 1..Len(segs) : Covered(segs, s, now)

LEMMA RootIsSound ==
    ASSUME clock \in Nat, NEW segs, Tree(segs, clock)
    PROVE  /\ Root \in 1..Len(segs) /\ SoundTimer(segs[Root].timer, clock) /\ Len(segs) \in Nat
           /\ segs[Root].timer \in Timers /\ DOMAIN segs = 1..Len(segs)
           /\ EndAt(segs[Root].timer, clock) = DurationAt(segs[Root].timer, clock)
           /\ EndAt(segs[Root].timer, clock) \in Nat
           /\ EndOf(segs[Root].timer) = EndAt(segs[Root].timer, clock)
<1>1. Len(segs) \in Nat /\ 1 \in 1..Len(segs) /\ Root = 1 /\ DOMAIN segs = 1..Len(segs)
  BY SegmentTraceAssumption DEF Tree, Root
<1>2. PICK t : t = segs[Root].timer
  OBVIOUS
<1>3. SoundTimer(t, clock) /\ t.start = 0
  BY <1>1, <1>2 DEF Tree
<1>4. t \in Timers
  BY <1>3 DEF SoundTimer
<1>5. DurationAt(t, clock) \in Nat /\ EndAt(t, clock) \in Nat
  BY <1>3, DurationIsNat
<1>6. EndAt(t, clock) = DurationAt(t, clock)
  BY <1>3, <1>5 DEF EndAt
<1>7. EndOf(t) = EndAt(t, clock)
  BY <1>4, DurationNow
<1> QED BY <1>1, <1>2, <1>3, <1>4, <1>5, <1>6, <1>7

\* One segment replaced by another record with the same flag.
MayReplace(segs, s, r) ==
    /\ r \in SegmentRecords /\ r.collect = segs[s].collect /\ SoundTimer(r.timer, clock)
    /\ s = Root => r.timer.start = 0 /\ r.timer.state # "pending"
    /\ s = Root /\ r.timer.state = "running" => ~r.timer.touched
Replaces(z, segs, s, r) ==
    /\ Tree(z, clock) /\ Len(z) = Len(segs) /\ z[s] = r
    /\ \A o \in 1..Len(segs) : o # s => z[o] = segs[o]

LEMMA SegmentReplaced ==
    ASSUME clock \in Nat, NEW segs, Tree(segs, clock), NEW s \in 1..Len(segs), NEW r, MayReplace(segs, s, r),
           NEW z, z = [segs EXCEPT ![s] = r]
    PROVE  Replaces(z, segs, s, r)
<1>1. PICK n \in Nat : n = Len(segs) /\ DOMAIN segs = 1..n
  BY RootIsSound
<1>2. segs \in Seq(SegmentRecords) /\ r \in SegmentRecords
  BY DEF Tree, MayReplace
<1>4. z \in Seq(SegmentRecords) /\ Len(z) = n
  BY <1>1, <1>2, ExceptSeq
<1>5. z[s] = r /\ \A o \in 1..n : o # s => z[o] = segs[o]
  BY <1>1, <1>2, ExceptSeq
<1>6. Root \in 1..n
  BY <1>1, RootIsSound
<1>7. ASSUME NEW o \in 1..n
      PROVE  SoundTimer(z[o].timer, clock) /\ (o # Root /\ z[o].collect => o <= MaxTraceSegments + 1)
  BY <1>1, <1>5, <1>7 DEF Tree, MayReplace
<1>8. /\ z[Root].timer.start = 0 /\ z[Root].timer.state # "pending"
      /\ z[Root].timer.state = "running" => ~z[Root].timer.touched
  <2>1. CASE s = Root
    BY <2>1, <1>5 DEF MayReplace
  <2>2. CASE s # Root
    BY <2>2, <1>5, <1>6 DEF Tree
  <2> QED BY <2>1, <2>2
<1>9. n \in 1..MaxSegments + 1
  BY <1>1 DEF Tree
<1>10. Tree(z, clock)
  BY <1>4, <1>7, <1>8, <1>9 DEF Tree
<1> QED BY <1>1, <1>4, <1>5, <1>10 DEF Replaces

\* A root updated for a segment covers that one as well.
OthersCovered(segs, s) == \A o \in 1..Len(segs) : o # s => Covered(segs, o, clock)
CoversAll(z, segs) ==
    /\ Tree(z, clock) /\ AllCovered(z, clock) /\ Len(z) = Len(segs)
    /\ \A o \in 1..Len(segs) : o # Root => z[o] = segs[o]
    /\ z = segs \/ z[Root].timer.state = "stopped"

LEMMA RootUpdates ==
    ASSUME clock \in Nat, NEW segs, Tree(segs, clock), NEW s \in 1..Len(segs), NEW rounded \in BOOLEAN,
           OthersCovered(segs, s), NEW z, z = RootUpdated(segs, s, rounded)
    PROVE  CoversAll(z, segs)
<1>1. PICK n \in Nat : n = Len(segs) /\ DOMAIN segs = 1..n
  BY RootIsSound
<1>2. PICK end : end = EndOf(segs[s].timer)
  OBVIOUS
<1>3. SoundTimer(segs[s].timer, clock) /\ segs[s].timer \in Timers
  BY DEF Tree, SoundTimer
<1>4. end = EndAt(segs[s].timer, clock) /\ end \in Nat
  BY <1>2, <1>3, DurationNow, DurationIsNat
<1>5. PICK root : root = segs[Root].timer
  OBVIOUS
<1>6. /\ Root \in 1..n /\ root \in Timers /\ EndOf(root) = EndAt(root, clock) /\ EndAt(root, clock) \in Nat
      /\ SoundTimer(root, clock) /\ root.start = 0
  BY <1>1, <1>5, RootIsSound DEF Tree
<1>7. CASE end > EndOf(root) \/ (end = EndOf(root) /\ rounded)
  <2>1. PICK t : t = Fixed(root, end)
    OBVIOUS
  <2>2. /\ t \in Timers /\ t.state = "stopped" /\ t.start = 0 /\ t.fixed = end /\ t.touched = TRUE
    <3>1. PICK t1 : t1 = [root EXCEPT !.touched = TRUE]
      OBVIOUS
    <3>2. PICK t2 : t2 = [t1 EXCEPT !.fixed = end]
      OBVIOUS
    <3>3. t = [t2 EXCEPT !.state = "stopped"]
      BY <2>1, <3>1, <3>2, Zenon DEF Fixed
    <3>4. t1 \in Timers /\ t1.start = 0 /\ t1.touched = TRUE
      BY <3>1, <1>6 DEF Timers
    <3>5. t2 \in Timers /\ t2.start = 0 /\ t2.touched = TRUE /\ t2.fixed = end
      BY <3>2, <3>4, <1>4 DEF Timers
    <3> QED BY <3>3, <3>5 DEF Timers
  <2>3. end # None /\ 0 <= clock
    BY <1>4 DEF None
  <2>4. SoundTimer(t, clock)
    BY <2>2, <2>3 DEF SoundTimer
  <2>5. DurationAt(t, clock) = end
    BY <2>2, <2>3 DEF DurationAt
  <2>6. EndAt(t, clock) = end
    BY <2>2, <2>5, <1>4 DEF EndAt
  <2>7. PICK r : r = [segs[Root] EXCEPT !.timer = t]
    OBVIOUS
  <2>8. segs[Root] \in SegmentRecords
    BY <1>1, <1>6 DEF Tree
  <2>9. r \in SegmentRecords /\ r.timer = t /\ r.collect = segs[Root].collect
    BY <2>2, <2>7, <2>8 DEF SegmentRecords
  <2>10. z = [segs EXCEPT ![Root] = r]
    <3>1. end - root.start = end
      BY <1>4, <1>6
    <3>2. z = [segs EXCEPT ![Root].timer = t]
      BY <1>2, <1>5, <1>7, <2>1, <3>1 DEF RootUpdated
    <3> QED BY <3>2, <2>7
  <2>11. /\ Tree(z, clock) /\ Len(z) = Len(segs)
         /\ z[Root] = r /\ \A o \in 1..Len(segs) : o # Root => z[o] = segs[o]
    <3>1. MayReplace(segs, Root, r)
      BY <2>2, <2>4, <2>9 DEF MayReplace
    <3>2. Replaces(z, segs, Root, r)
      BY <3>1, <2>10, <1>1, <1>6, SegmentReplaced
    <3> QED BY <3>2 DEF Replaces
  <2>12. z[Root].timer = t
    BY <2>9, <2>11
  <2>13. ASSUME NEW o \in 1..n PROVE Covered(z, o, clock)
    <3>1. CASE o = Root
      BY <3>1, <2>6, <2>12, <1>4 DEF Covered
    <3>2. CASE o # Root /\ o = s
      BY <3>2, <2>6, <2>11, <2>12, <1>1, <1>4 DEF Covered
    <3>3. CASE o # Root /\ o # s
      <4>1. IsMeasured(segs[o].timer) => EndAt(segs[o].timer, clock) <= EndAt(root, clock)
        BY <3>3, <1>1, <1>5 DEF OthersCovered, Covered
      <4>2. EndAt(segs[o].timer, clock) \in Nat
        <5>1. SoundTimer(segs[o].timer, clock)
          BY <1>1 DEF Tree
        <5> QED BY <5>1, DurationIsNat
      <4>3. EndAt(root, clock) <= end
        BY <1>4, <1>6, <1>7
      <4>4. z[o] = segs[o]
        BY <3>3, <2>11, <1>1
      <4> QED BY <4>1, <4>2, <4>3, <4>4, <2>6, <2>12, <1>4, <1>6 DEF Covered
    <3> QED BY <3>1, <3>2, <3>3
  <2>14. AllCovered(z, clock)
    BY <2>11, <2>13, <1>1 DEF AllCovered
  <2> QED BY <2>2, <2>11, <2>12, <2>14 DEF CoversAll
<1>8. CASE ~(end > EndOf(root) \/ (end = EndOf(root) /\ rounded))
  <2>1. z = segs
    BY <1>2, <1>5, <1>8 DEF RootUpdated
  <2>2. end <= EndAt(root, clock)
    BY <1>4, <1>6, <1>8
  <2>3. Covered(segs, s, clock)
    BY <2>2, <1>4, <1>5 DEF Covered
  <2> QED BY <2>1, <2>3 DEF OthersCovered, AllCovered, CoversAll
<1> QED BY <1>7, <1>8

\* What the operations on timers put into a segment.
MayTime(s, t) ==
    /\ SoundTimer(t, clock)
    /\ s = Root => t.start = 0 /\ t.state # "pending"
    /\ s = Root /\ t.state = "running" => ~t.touched
Timed(z, segs, s, t) ==
    /\ Tree(z, clock) /\ Len(z) = Len(segs) /\ z[s].timer = t
    /\ \A o \in 1..Len(segs) : o # s => z[o] = segs[o]

LEMMA TimerReplaced ==
    ASSUME clock \in Nat, NEW segs, Tree(segs, clock), NEW s \in 1..Len(segs), NEW t, MayTime(s, t),
           NEW z, z = [segs EXCEPT ![s].timer = t]
    PROVE  Timed(z, segs, s, t)
<1>1. segs[s] \in SegmentRecords /\ t \in Timers
  BY DEF Tree, SoundTimer, MayTime
<1>2. PICK r : r = [segs[s] EXCEPT !.timer = t]
  OBVIOUS
<1>3. r \in SegmentRecords /\ r.timer = t /\ r.collect = segs[s].collect
  BY <1>1, <1>2 DEF SegmentRecords
<1>4. z = [segs EXCEPT ![s] = r]
  BY <1>2
<1>5. MayReplace(segs, s, r)
  BY <1>3 DEF MayReplace, MayTime
<1>6. Replaces(z, segs, s, r)
  BY <1>4, <1>5, SegmentReplaced
<1> QED BY <1>3, <1>6 DEF Replaces, Timed

LEMMA FlagReplaced ==
    ASSUME clock \in Nat, NEW segs, Tree(segs, clock), NEW s \in 1..Len(segs), NEW yes \in BOOLEAN,
           NEW z, \/ z = [segs EXCEPT ![s].truncated = yes]
                  \/ z = [segs EXCEPT ![s].ignore = yes]
    PROVE  Timed(z, segs, s, segs[s].timer)
<1>1. segs[s] \in SegmentRecords /\ SoundTimer(segs[s].timer, clock)
  BY DEF Tree
<1>2. PICK r : (r = [segs[s] EXCEPT !.truncated = yes] \/ r = [segs[s] EXCEPT !.ignore = yes])
               /\ z = [segs EXCEPT ![s] = r]
  OBVIOUS
<1>3. r \in SegmentRecords /\ r.timer = segs[s].timer /\ r.collect = segs[s].collect
  BY <1>1, <1>2 DEF SegmentRecords
<1>4. MayReplace(segs, s, r)
  BY <1>1, <1>3 DEF MayReplace, Tree
<1>5. Replaces(z, segs, s, r)
  BY <1>2, <1>4, SegmentReplaced
<1> QED BY <1>3, <1>5 DEF Replaces, Timed

\* A root that is still running ends now, which is when it would end.
LEMMA RootEnds ==
    ASSUME clock \in Nat, NEW t, SoundTimer(t, clock), t.state = "running", ~t.touched, t.start = 0,
           NEW e, e = SoftEnded(t)
    PROVE  e.start = 0 /\ EndAt(e, clock) = EndAt(t, clock)
<1>1. t \in Timers /\ t.measured = None /\ t.fixed = None
  BY DEF SoundTimer
<1>2. DurationAt(t, clock) = clock
  BY <1>1 DEF DurationAt
<1>3. EndAt(t, clock) = clock
  BY <1>2 DEF EndAt
<1>4. e = [Measured(t) EXCEPT !.state = "stopped"]
  BY DEF SoftEnded
<1>5. Begun(t) = t
  BY DEF Begun
<1>6. PICK m1 : m1 = [t EXCEPT !.touched = TRUE]
  OBVIOUS
<1>7. PICK m2 : m2 = [m1 EXCEPT !.measured = clock - t.start]
  OBVIOUS
<1>8. Measured(t) = m2
  BY <1>5, <1>6, <1>7, Zenon DEF Measured
<1>9. clock - t.start = clock
  OBVIOUS
<1>10. m1 \in Timers /\ m1.start = 0 /\ m1.fixed = None
  BY <1>1, <1>6 DEF Timers
<1>11. m2 \in Timers /\ m2.start = 0 /\ m2.fixed = None /\ m2.measured = clock
  BY <1>7, <1>9, <1>10 DEF Timers
<1>12. e.start = 0 /\ e.fixed = None /\ e.measured = clock /\ e.state = "stopped"
  BY <1>4, <1>8, <1>11 DEF Timers
<1>13. DurationAt(e, clock) = clock
  BY <1>12 DEF DurationAt, None
<1>14. EndAt(e, clock) = clock
  BY <1>12, <1>13 DEF EndAt
<1> QED BY <1>3, <1>12, <1>14

\* The end of the trace for one segment.
Finalizes(z, segs, k) ==
    /\ Tree(z, clock) /\ AllCovered(z, clock) /\ Len(z) = Len(segs)
    /\ z[k].timer.state = "stopped"
    /\ \A o \in 1..Len(segs) : segs[o].timer.state = "stopped" => z[o].timer.state = "stopped"

LEMMA FinalizedStep ==
    ASSUME clock \in Nat, NEW segs, Tree(segs, clock), AllCovered(segs, clock), NEW k \in 1..Len(segs),
           NEW rounded \in BOOLEAN, k = Root => ~rounded, NEW z, z = Finalized(segs, k, rounded)
    PROVE  Finalizes(z, segs, k)
<1>1. PICK n \in Nat : n = Len(segs) /\ DOMAIN segs = 1..n /\ Root \in 1..n
  BY RootIsSound
<1>2. PICK t : t = segs[k].timer
  OBVIOUS
<1>3. SoundTimer(t, clock) /\ t \in Timers
  BY <1>2 DEF Tree, SoundTimer
<1>4. PICK e : e = SoftEnded(t)
  OBVIOUS
<1>5. SoundTimer(e, clock) /\ e.state = "stopped" /\ (t.touched => EndAt(e, clock) = EndAt(t, clock))
  BY <1>3, <1>4, TimerSteps
<1>6. CASE t.state = "stopped"
  <2>1. z = segs
    BY <1>2, <1>6 DEF Finalized
  <2> QED BY <2>1, <1>2, <1>6 DEF Finalizes
<1>7. CASE t.state # "stopped"
  <2>1. PICK z1 : z1 = [segs EXCEPT ![k].timer = e]
    OBVIOUS
  <2>2. k = Root => e.start = 0
    <3>1. k = Root => t.state = "running" /\ ~t.touched /\ t.start = 0
      BY <1>2, <1>3, <1>7 DEF Tree, Timers
    <3> QED BY <3>1, <1>3, <1>4, RootEnds
  <2>3. /\ Tree(z1, clock) /\ Len(z1) = n /\ z1[k].timer = e
        /\ \A o \in 1..n : o # k => z1[o] = segs[o]
    <3>1. MayTime(k, e)
      BY <2>2, <1>5 DEF MayTime
    <3>2. Timed(z1, segs, k, e)
      BY <3>1, <2>1, TimerReplaced
    <3> QED BY <3>2, <1>1 DEF Timed
  <2>4. t.touched \in BOOLEAN
    BY <1>3 DEF Timers
  <2>5. PICK soft : soft = [z1 EXCEPT ![k].truncated = ~t.touched]
    OBVIOUS
  <2>6. soft = [segs EXCEPT ![k].timer = SoftEnded(@), ![k].truncated = ~segs[k].timer.touched]
    BY <2>1, <2>5, <1>2, <1>4, Zenon
  <2>7. /\ Tree(soft, clock) /\ Len(soft) = n /\ soft[k].timer = e
        /\ \A o \in 1..n : o # k => soft[o] = segs[o]
    <3>1. PICK yes \in BOOLEAN : yes = ~t.touched
      BY <2>4
    <3>2. soft = [z1 EXCEPT ![k].truncated = yes]
      BY <3>1, <2>5
    <3>3. k \in 1..Len(z1)
      BY <2>3, <1>1
    <3>4. Timed(soft, z1, k, z1[k].timer)
      BY <3>2, <3>3, <2>3, FlagReplaced
    <3> QED BY <3>4, <2>3 DEF Timed
  <2>8. CASE t.touched
    <3>1. z = [soft EXCEPT ![k].truncated = FALSE]
      BY <2>6, <2>8, <1>2, <1>7, Zenon DEF Finalized
    <3>2. /\ Tree(z, clock) /\ Len(z) = n /\ z[k].timer = e
          /\ \A o \in 1..n : o # k => z[o] = segs[o]
      <4>1. PICK yes \in BOOLEAN : yes = FALSE
        OBVIOUS
      <4>2. z = [soft EXCEPT ![k].truncated = yes]
        BY <4>1, <3>1
      <4>3. k \in 1..Len(soft)
        BY <2>7, <1>1
      <4>4. Timed(z, soft, k, soft[k].timer)
        BY <4>2, <4>3, <2>7, FlagReplaced
      <4> QED BY <4>4, <2>7 DEF Timed
    <3>3. k # Root
      BY <2>8, <1>2, <1>7, <1>3 DEF Tree, Timers
    <3>4. ASSUME NEW o \in 1..n PROVE Covered(z, o, clock)
      <4>1. Covered(segs, o, clock)
        BY <1>1 DEF AllCovered
      <4>2. z[Root] = segs[Root]
        BY <3>2, <3>3, <1>1
      <4>3. CASE o # k
        BY <4>1, <4>2, <4>3, <3>2 DEF Covered
      <4>4. CASE o = k
        <5>1. IsMeasured(t)
          BY <2>8 DEF IsMeasured
        <5>2. EndAt(e, clock) = EndAt(t, clock)
          BY <2>8, <1>5
        <5> QED BY <5>1, <5>2, <4>1, <4>2, <4>4, <3>2, <1>2 DEF Covered
      <4> QED BY <4>3, <4>4
    <3>5. AllCovered(z, clock)
      BY <3>2, <3>4 DEF AllCovered
    <3>6. \A o \in 1..n : segs[o].timer.state = "stopped" => z[o].timer.state = "stopped"
      BY <3>2, <1>5
    <3> QED BY <3>2, <3>5, <3>6, <1>1, <1>5 DEF Finalizes
  <2>9. CASE ~t.touched
    <3>1. z = RootUpdated(soft, k, rounded)
      BY <2>6, <2>9, <1>2, <1>7, Zenon DEF Finalized
    <3>2. ASSUME NEW o \in 1..Len(soft), o # k PROVE Covered(soft, o, clock)
      <4>1. Covered(segs, o, clock) /\ soft[o] = segs[o]
        BY <3>2, <2>7, <1>1 DEF AllCovered
      <4>2. CASE k # Root
        BY <4>1, <4>2, <2>7, <1>1 DEF Covered
      <4>3. CASE k = Root
        <5>1. t.state = "running" /\ t.start = 0
          BY <4>3, <1>2, <1>3, <1>7 DEF Tree, Timers
        <5>2. EndAt(e, clock) = EndAt(t, clock)
          BY <5>1, <2>9, <1>3, <1>4, RootEnds
        <5> QED BY <5>2, <4>1, <4>3, <2>7, <1>2 DEF Covered
      <4> QED BY <4>2, <4>3
    <3>3. /\ Tree(z, clock) /\ AllCovered(z, clock) /\ Len(z) = Len(soft)
          /\ \A o \in 1..Len(soft) : o # Root => z[o] = soft[o]
          /\ z = soft \/ z[Root].timer.state = "stopped"
      <4>1. OthersCovered(soft, k) /\ k \in 1..Len(soft)
        BY <3>2, <2>7, <1>1 DEF OthersCovered
      <4>2. CoversAll(z, soft)
        BY <4>1, <3>1, <2>7, RootUpdates
      <4> QED BY <4>2 DEF CoversAll
    <3>4. ASSUME NEW o \in 1..n, o = k \/ segs[o].timer.state = "stopped" PROVE z[o].timer.state = "stopped"
      <4>1. soft[o].timer.state = "stopped"
        BY <3>4, <2>7, <1>5
      <4> QED BY <4>1, <3>3, <2>7
    <3> QED BY <3>3, <3>4, <2>7, <1>1 DEF Finalizes
  <2> QED BY <2>4, <2>8, <2>9
<1> QED BY <1>6, <1>7

SegmentsOK(segs, now, done, ended) ==
    /\ now \in 0..MaxTime /\ ended \in BOOLEAN
    /\ Tree(segs, now) /\ AllCovered(segs, now)
    /\ done \subseteq 1..Len(segs) /\ (~ended => done = {})
    /\ \A s \in done : segs[s].timer.state = "stopped"

SegInv == SegmentsOK(segments, clock, finalized, traceEnded)

\* The durations that are final at a later time.
DurationsKept(segs, now) ==
    \A s \in finalized \ {Root} :
        segs[s].timer \in Timers /\ DurationAt(segs[s].timer, now) = DurationAt(segments[s].timer, clock)

\* Time passes.
LEMMA TimePasses ==
    ASSUME SegInv, clock < MaxTime
    PROVE  SegmentsOK(segments, clock + 1, finalized, traceEnded) /\ DurationsKept(segments, clock + 1)
<1>1. clock \in Nat /\ clock + 1 \in 0..MaxTime
  BY SegmentTraceAssumption DEF SegInv, SegmentsOK
<1>2. PICK n \in Nat : n = Len(segments) /\ Root \in 1..n
  BY <1>1, RootIsSound DEF SegInv, SegmentsOK
<1>3. ASSUME NEW s \in 1..n
      PROVE  /\ segments[s].timer \in Timers
             /\ SoundTimer(segments[s].timer, clock) /\ SoundTimer(segments[s].timer, clock + 1)
             /\ IsMeasured(segments[s].timer)
                  => /\ DurationAt(segments[s].timer, clock + 1) = DurationAt(segments[s].timer, clock)
                     /\ EndAt(segments[s].timer, clock + 1) = EndAt(segments[s].timer, clock)
             /\ EndAt(segments[s].timer, clock) <= EndAt(segments[s].timer, clock + 1)
             /\ EndAt(segments[s].timer, clock) \in Nat /\ EndAt(segments[s].timer, clock + 1) \in Nat
  <2>1. SoundTimer(segments[s].timer, clock)
    BY <1>2, <1>3 DEF SegInv, SegmentsOK, Tree
  <2>2. SoundTimer(segments[s].timer, clock + 1)
    BY <2>1, <1>1, MeasuredStays
  <2>3. EndAt(segments[s].timer, clock + 1) \in Nat
    BY <2>2, <1>1, DurationIsNat
  <2>4. segments[s].timer \in Timers
    BY <2>1 DEF SoundTimer
  <2> QED BY <2>1, <2>2, <2>3, <2>4, <1>1, MeasuredStays, DurationIsNat
<1>4. Tree(segments, clock + 1)
  BY <1>2, <1>3 DEF SegInv, SegmentsOK, Tree
<1>5. ASSUME NEW s \in 1..n PROVE Covered(segments, s, clock + 1)
  <2>1. Covered(segments, s, clock)
    BY <1>2, <1>5 DEF SegInv, SegmentsOK, AllCovered
  <2> QED BY <2>1, <1>2, <1>3, <1>5 DEF Covered
<1>6. AllCovered(segments, clock + 1)
  BY <1>2, <1>5 DEF AllCovered
<1>7. DurationsKept(segments, clock + 1)
  <2>1. ASSUME NEW s \in finalized \ {Root} PROVE s \in 1..n /\ IsMeasured(segments[s].timer)
    BY <2>1, <1>2 DEF SegInv, SegmentsOK, IsMeasured
  <2> QED BY <2>1, <1>3 DEF DurationsKept
<1> QED BY <1>1, <1>4, <1>6, <1>7 DEF SegInv, SegmentsOK

\* A segment's timer is touched or ended, and the root with it.
Measures(s, t) ==
    /\ s # Root /\ SoundTimer(t, clock)
    /\ segments[s].timer.state = "stopped"
         => t.state = "stopped" /\ DurationAt(t, clock) = DurationAt(segments[s].timer, clock)

LEMMA SegmentMeasured ==
    ASSUME SegInv, NEW s \in 1..Len(segments), NEW t, Measures(s, t), NEW rounded \in BOOLEAN,
           NEW z, z = RootUpdated([segments EXCEPT ![s].timer = t], s, rounded)
    PROVE  SegmentsOK(z, clock, finalized, traceEnded) /\ DurationsKept(z, clock)
<1>1. clock \in Nat /\ Tree(segments, clock) /\ AllCovered(segments, clock)
  BY SegmentTraceAssumption DEF SegInv, SegmentsOK
<1>2. PICK n \in Nat : n = Len(segments) /\ Root \in 1..n
  BY <1>1, RootIsSound
<1>3. PICK z1 : z1 = [segments EXCEPT ![s].timer = t]
  OBVIOUS
<1>4. /\ Tree(z1, clock) /\ Len(z1) = n /\ z1[s].timer = t
      /\ \A o \in 1..n : o # s => z1[o] = segments[o]
  <2>1. MayTime(s, t)
    BY DEF MayTime, Measures
  <2>2. Timed(z1, segments, s, t)
    BY <2>1, <1>1, <1>3, TimerReplaced
  <2> QED BY <2>2, <1>2 DEF Timed
<1>5. ASSUME NEW o \in 1..Len(z1), o # s PROVE Covered(z1, o, clock)
  <2>1. Covered(segments, o, clock) /\ z1[o] = segments[o] /\ z1[Root] = segments[Root]
    BY <1>1, <1>2, <1>4, <1>5 DEF AllCovered, Measures
  <2> QED BY <2>1 DEF Covered
<1>6. /\ Tree(z, clock) /\ AllCovered(z, clock) /\ Len(z) = n
      /\ \A o \in 1..n : o # Root => z[o] = z1[o]
      /\ z = z1 \/ z[Root].timer.state = "stopped"
  <2>1. z = RootUpdated(z1, s, rounded)
    BY <1>3
  <2>2. s \in 1..Len(z1)
    BY <1>2, <1>4
  <2>3. OthersCovered(z1, s)
    BY <1>5 DEF OthersCovered
  <2>4. CoversAll(z, z1)
    BY <2>1, <2>2, <2>3, <1>1, <1>4, RootUpdates
  <2> QED BY <2>4, <1>4 DEF CoversAll
<1>7. ASSUME NEW o \in finalized
      PROVE  /\ z[o].timer.state = "stopped"
             /\ o # Root => z[o].timer \in Timers
                            /\ DurationAt(z[o].timer, clock) = DurationAt(segments[o].timer, clock)
  <2>1. o \in 1..n /\ segments[o].timer.state = "stopped"
    BY <1>2 DEF SegInv, SegmentsOK
  <2>2. z[o].timer \in Timers
    BY <2>1, <1>6 DEF Tree, SoundTimer
  <2>3. CASE o = Root
    <3>1. s # Root
      BY DEF Measures
    <3>2. z1[Root].timer.state = "stopped"
      BY <3>1, <2>1, <2>3, <1>2, <1>4
    <3>3. z[Root].timer.state = "stopped"
      BY <3>2, <1>6
    <3> QED BY <3>3, <2>3
  <2>4. CASE o # Root /\ o = s
    BY <2>1, <2>2, <2>4, <1>4, <1>6 DEF Measures
  <2>5. CASE o # Root /\ o # s
    BY <2>1, <2>2, <2>5, <1>4, <1>6
  <2> QED BY <2>3, <2>4, <2>5
<1> QED BY <1>2, <1>6, <1>7 DEF SegInv, SegmentsOK, DurationsKept

\* A segment whose timer stays as it is, or starts; nothing is final yet then.
LEMMA SegmentUnmeasured ==
    ASSUME SegInv, NEW s \in 1..Len(segments), NEW t, NEW z, Timed(z, segments, s, t),
           t = segments[s].timer \/ (segments[s].timer.state = "pending" /\ ~IsMeasured(t))
    PROVE  SegmentsOK(z, clock, finalized, traceEnded) /\ DurationsKept(z, clock)
<1>1. clock \in Nat /\ Tree(segments, clock) /\ AllCovered(segments, clock)
  BY SegmentTraceAssumption DEF SegInv, SegmentsOK
<1>2. PICK n \in Nat : n = Len(segments) /\ Root \in 1..n
  BY <1>1, RootIsSound
<1>3. /\ Tree(z, clock) /\ Len(z) = n /\ z[s].timer = t
      /\ \A o \in 1..n : o # s => z[o] = segments[o]
  BY <1>2 DEF Timed
<1>4. ASSUME NEW o \in 1..n PROVE z[o].timer = segments[o].timer \/ (o = s /\ o # Root /\ ~IsMeasured(z[o].timer))
  BY <1>1, <1>3, <1>4 DEF Tree
<1>5. ASSUME NEW o \in 1..n PROVE Covered(z, o, clock)
  <2>1. Covered(segments, o, clock) /\ z[Root].timer = segments[Root].timer
    BY <1>1, <1>2, <1>4 DEF AllCovered
  <2> QED BY <2>1, <1>4 DEF Covered
<1>6. AllCovered(z, clock)
  BY <1>3, <1>5 DEF AllCovered
<1>7. ASSUME NEW o \in finalized PROVE o \in 1..n /\ z[o].timer = segments[o].timer /\ z[o].timer \in Timers
  <2>1. o \in 1..n /\ segments[o].timer.state = "stopped"
    BY <1>2 DEF SegInv, SegmentsOK
  <2>2. z[o].timer = segments[o].timer
    BY <2>1, <1>3
  <2> QED BY <2>1, <2>2, <1>3 DEF Tree, SoundTimer
<1> QED BY <1>3, <1>6, <1>7 DEF SegInv, SegmentsOK, DurationsKept

\* One more segment.
LEMMA SegmentAdded ==
    ASSUME SegInv, ~traceEnded, Len(segments) <= MaxSegments, NEW parent \in 1..Len(segments),
           NEW z, z = Append(segments, NewSegment(parent, MayCollect(Len(segments) - 1)))
    PROVE  SegmentsOK(z, clock, finalized, traceEnded) /\ DurationsKept(z, clock)
<1>1. clock \in Nat /\ Tree(segments, clock) /\ AllCovered(segments, clock) /\ finalized = {}
  BY SegmentTraceAssumption DEF SegInv, SegmentsOK
<1>2. PICK n \in Nat : n = Len(segments) /\ Root \in 1..n
  BY <1>1, RootIsSound
<1>3. MayCollect(Len(segments) - 1) \in BOOLEAN /\ (MayCollect(Len(segments) - 1) => n - 1 < MaxTraceSegments)
  BY <1>2 DEF MayCollect
<1>4. PICK r : r = NewSegment(parent, MayCollect(Len(segments) - 1))
  OBVIOUS
<1>5. z = Append(segments, r)
  BY <1>4
<1>6. r \in SegmentRecords /\ r.timer = Pending /\ (r.collect => n - 1 < MaxTraceSegments)
  <2>1. Pending \in Timers
    BY DEF Pending, Timers, None
  <2>2. parent \in Nat
    BY <1>2
  <2>3. PICK c \in BOOLEAN : c = MayCollect(Len(segments) - 1)
    BY <1>3
  <2>4. c => n - 1 < MaxTraceSegments
    BY <2>3, <1>3, Zenon
  <2>5. r = NewSegment(parent, c)
    BY <2>3, <1>4, Zenon
  <2> QED BY <2>1, <2>2, <2>4, <2>5 DEF NewSegment, SegmentRecords
<1>7. SoundTimer(Pending, clock) /\ ~IsMeasured(Pending)
  BY <1>1 DEF SoundTimer, IsMeasured, Pending, Timers, None
<1>8. segments \in Seq(SegmentRecords)
  BY <1>1 DEF Tree
<1>9. /\ z \in Seq(SegmentRecords) /\ Len(z) = n + 1 /\ z[n + 1] = r
      /\ \A o \in 1..n : z[o] = segments[o]
  BY <1>2, <1>5, <1>6, <1>8, AppendProperties
<1>10. r.collect => n + 1 <= MaxTraceSegments + 1
  BY <1>2, <1>6, SegmentTraceAssumption
<1>11. ASSUME NEW o \in 1..n + 1
       PROVE  /\ SoundTimer(z[o].timer, clock)
              /\ o # Root /\ z[o].collect => o <= MaxTraceSegments + 1
              /\ Covered(z, o, clock)
  <2>1. CASE o \in 1..n
    <3>1. Covered(segments, o, clock) /\ z[o] = segments[o] /\ z[Root] = segments[Root]
      BY <2>1, <1>1, <1>2, <1>9 DEF AllCovered
    <3> QED BY <3>1, <2>1, <1>1, <1>2 DEF Covered, Tree
  <2>2. CASE o = n + 1
    BY <2>2, <1>6, <1>7, <1>9, <1>10 DEF Covered
  <2> QED BY <2>1, <2>2, <1>2
<1>12. Tree(z, clock)
  <2>1. n + 1 \in 1..MaxSegments + 1
    BY <1>2, SegmentTraceAssumption
  <2>2. z[Root] = segments[Root]
    BY <1>2, <1>9
  <2> QED BY <2>1, <2>2, <1>1, <1>9, <1>11 DEF Tree
<1>13. AllCovered(z, clock)
  BY <1>9, <1>11 DEF AllCovered
<1> QED BY <1>1, <1>12, <1>13 DEF SegInv, SegmentsOK, DurationsKept

\* All segments the end of the trace gets to.
FinalizesAll(z, segs) ==
    /\ Tree(z, clock) /\ AllCovered(z, clock) /\ Len(z) = Len(segs)
    /\ \A s \in Reached(segs) : s \in 1..Len(segs) /\ z[s].timer.state = "stopped"

LEMMA FinalizedOneByOne ==
    ASSUME clock \in Nat, NEW segs, Tree(segs, clock), AllCovered(segs, clock), NEW rounded \in BOOLEAN,
           NEW z, z = FinalizedAll(segs, rounded)
    PROVE  FinalizesAll(z, segs)
<1>1. PICK n \in Nat : n = Len(segs) /\ DOMAIN segs = 1..n
  BY RootIsSound
<1>2. PICK R : R = Reached(segs)
  OBVIOUS
<1>3. R \subseteq 1..n
  BY <1>1, <1>2 DEF Reached
<1>4. PICK B : B = {x \in Seq(SegmentRecords) : Tree(x, clock) /\ AllCovered(x, clock) /\ Len(x) = n}
  OBVIOUS
<1> DEFINE after(x, k) == IF k \in R THEN Finalized(x, k, k # Root /\ rounded) ELSE x
<1>5. ASSUME NEW x \in B, NEW k \in 1..n
      PROVE  /\ after(x, k) \in B
             /\ k \in R => after(x, k)[k].timer.state = "stopped"
             /\ \A j \in 1..n : x[j].timer.state = "stopped" => after(x, k)[j].timer.state = "stopped"
  <2>1. CASE k \notin R
    BY <2>1
  <2>2. CASE k \in R
    <3>1. PICK u \in BOOLEAN : u = (k # Root /\ rounded)
      OBVIOUS
    <3>2. PICK y : y = Finalized(x, k, u)
      OBVIOUS
    <3>3. Tree(x, clock) /\ AllCovered(x, clock) /\ Len(x) = n
      BY <1>4
    <3>4. k = Root => ~u
      BY <3>1
    <3>5. Finalizes(y, x, k)
      BY <3>2, <3>3, <3>4, FinalizedStep
    <3>6. y = after(x, k)
      BY <3>1, <3>2, <2>2, Zenon
    <3>7. y \in B
      BY <3>3, <3>5, <1>4 DEF Finalizes, Tree
    <3> HIDE DEF after
    <3> QED BY <3>3, <3>5, <3>6, <3>7 DEF Finalizes
  <2> QED BY <2>1, <2>2
<1> HIDE DEF after
<1>6. PICK F : F = [p \in B \X (1..n) |-> after(p[1], p[2])]
  OBVIOUS
<1>7. F \in [B \X (1..n) -> B]
  BY <1>5, <1>6
<1>8. segs \in B
  BY <1>1, <1>4 DEF Tree
<1>9. RunsOf(B, n, F, segs) # {}
  BY <1>7, <1>8, Repeated
<1>10. PICK g \in [0..n -> B] : g[0] = segs /\ \A k \in 1..n : g[k] = F[<<g[k - 1], k>>]
  BY <1>9 DEF RunsOf
<1>11. ASSUME NEW k \in 1..n PROVE g[k] = after(g[k - 1], k)
  <2> k - 1 \in 0..n
    OBVIOUS
  <2>1. <<g[k - 1], k>> \in B \X (1..n)
    BY <1>10, Zenon
  <2> QED BY <2>1, <1>6, <1>10
<1>12. g = [k \in 0..Len(segs) |->
              IF k = 0 THEN segs
              ELSE IF k \in Reached(segs) THEN Finalized(g[k - 1], k, k # Root /\ rounded) ELSE g[k - 1]]
  <2>1. PICK h : h = [k \in 0..n |-> IF k = 0 THEN segs ELSE after(g[k - 1], k)]
    OBVIOUS
  <2>2. ASSUME NEW k \in 0..n PROVE g[k] = h[k]
    <3>1. k = 0 \/ k \in 1..n
      OBVIOUS
    <3> QED BY <3>1, <2>1, <1>10, <1>11
  <2>3. g = h
    BY <2>1, <2>2, <1>10
  <2> QED BY <2>3, <2>1, <1>1, <1>2, Zenon DEF after
<1>13. PICK m : m = CHOOSE mm : mm = [k \in 0..Len(segs) |->
              IF k = 0 THEN segs
              ELSE IF k \in Reached(segs) THEN Finalized(mm[k - 1], k, k # Root /\ rounded) ELSE mm[k - 1]]
  OBVIOUS
<1>14. m = [k \in 0..Len(segs) |->
              IF k = 0 THEN segs
              ELSE IF k \in Reached(segs) THEN Finalized(m[k - 1], k, k # Root /\ rounded) ELSE m[k - 1]]
  BY <1>12, <1>13
<1>15. z = m[n]
  BY <1>1, <1>13 DEF FinalizedAll
<1>16. m[0] = segs /\ \A k \in 1..n : m[k] = after(m[k - 1], k)
  <2>1. 0 \in 0..Len(segs)
    BY <1>1
  <2>2. ASSUME NEW k \in 1..n PROVE k \in 0..Len(segs) /\ k # 0
    BY <1>1
  <2> QED BY <2>1, <2>2, <1>2, <1>14, Zenon DEF after
<1> DEFINE fits(x, k) == x \in B /\ \A j \in 1..k : j \in R => x[j].timer.state = "stopped"
<1>17. PICK J : J = {k \in 0..n : fits(m[k], k)}
  OBVIOUS
<1>18. 0 \in J
  BY <1>8, <1>16, <1>17
<1>19. ASSUME NEW k \in 1..n, k - 1 \in J PROVE k \in J
  <2>1. PICK x \in B : x = m[k - 1] /\ fits(x, k - 1)
    BY <1>17, <1>19
  <2>2. PICK y : y = m[k] /\ y = after(x, k)
    BY <2>1, <1>16
  <2>3. /\ y \in B /\ (k \in R => y[k].timer.state = "stopped")
        /\ \A j \in 1..n : x[j].timer.state = "stopped" => y[j].timer.state = "stopped"
    BY <2>2, <1>5
  <2>4. \A j \in 1..k : j \in 1..n /\ (j = k \/ j \in 1..k - 1)
    OBVIOUS
  <2>5. fits(y, k)
    BY <2>1, <2>3, <2>4
  <2>6. k \in 0..n
    OBVIOUS
  <2> HIDE DEF fits
  <2> QED BY <2>2, <2>5, <2>6, <1>17
<1>20. n \in J
  <2> Climbs(J, n)
    BY <1>18, <1>19 DEF Climbs
  <2> QED BY StepByStep
<1>21. fits(m[n], n)
  <2> HIDE DEF fits
  <2> QED BY <1>17, <1>20
<1>22. z \in B /\ \A j \in 1..n : j \in R => z[j].timer.state = "stopped"
  BY <1>15, <1>21
<1> HIDE DEF fits
<1> QED BY <1>1, <1>2, <1>3, <1>4, <1>22 DEF FinalizesAll

LEMMA SegmentStart == SegmentInit => SegInv
<1> SUFFICES ASSUME SegmentInit PROVE SegInv
  OBVIOUS
<1>1. PICK t : t = [Pending EXCEPT !.state = "running"]
  OBVIOUS
<1>2. /\ t \in Timers /\ t.state = "running" /\ t.start = 0 /\ ~t.touched /\ t.measured = None /\ t.fixed = None
  BY <1>1 DEF Pending, Timers, None
<1>3. PICK r : r = [NewSegment(0, TRUE) EXCEPT !.timer = t]
  OBVIOUS
<1>4. segments = <<r>>
  <2>1. [NewSegment(0, TRUE) EXCEPT !.timer.state = "running"] = r
    <3>1. NewSegment(0, TRUE).timer = Pending
      BY DEF NewSegment
    <3> QED BY <3>1, <1>1, <1>3
  <2> QED BY <2>1 DEF SegmentInit
<1>5. r \in SegmentRecords /\ r.timer = t
  <2>1. Pending \in Timers
    BY DEF Pending, Timers, None
  <2>2. NewSegment(0, TRUE) \in SegmentRecords
    BY <2>1 DEF NewSegment, SegmentRecords
  <2> QED BY <2>2, <1>2, <1>3 DEF SegmentRecords
<1>6. clock = 0 /\ finalized = {} /\ traceEnded = FALSE
  BY DEF SegmentInit
<1>7. SoundTimer(t, clock)
  BY <1>2, <1>6 DEF SoundTimer
<1>8. segments \in Seq(SegmentRecords) /\ Len(segments) = 1 /\ segments[1] = r
  BY <1>4, <1>5
<1>9. Root = 1 /\ 1..Len(segments) = {1} /\ Len(segments) \in 1..MaxSegments + 1
  BY <1>8, SegmentTraceAssumption DEF Root
<1>10. Tree(segments, clock)
  BY <1>2, <1>5, <1>7, <1>8, <1>9 DEF Tree
<1>11. ~IsMeasured(t)
  BY <1>2 DEF IsMeasured
<1>12. AllCovered(segments, clock)
  BY <1>5, <1>8, <1>9, <1>11 DEF AllCovered, Covered
<1>13. 0 \in 0..MaxTime
  BY SegmentTraceAssumption
<1> QED BY <1>6, <1>10, <1>12, <1>13 DEF SegInv, SegmentsOK

LEMMA SegmentStep ==
    ASSUME SegInv, SegmentNext
    PROVE  SegmentsOK(segments', clock', finalized', traceEnded') /\ DurationsKept(segments', clock')
<1>1. clock \in Nat /\ Tree(segments, clock) /\ AllCovered(segments, clock)
  BY SegmentTraceAssumption DEF SegInv, SegmentsOK
<1>2. DOMAIN segments = 1..Len(segments)
  BY <1>1, RootIsSound
<1>3. CASE Tick
  BY <1>3, TimePasses DEF Tick
<1>4. ASSUME NEW rounded \in BOOLEAN, EndTrace(rounded)
      PROVE  SegmentsOK(segments', clock', finalized', traceEnded') /\ DurationsKept(segments', clock')
  <2>1. /\ ~traceEnded /\ traceEnded' = TRUE /\ finalized' = Reached(segments) /\ clock' = clock
        /\ segments' = FinalizedAll(segments, rounded)
    BY <1>4, Zenon DEF EndTrace
  <2>2. FinalizesAll(segments', segments)
    BY <2>1, <1>1, FinalizedOneByOne
  <2>3. DurationsKept(segments', clock')
    BY <2>1 DEF DurationsKept, SegInv, SegmentsOK
  <2> QED BY <2>1, <2>2, <2>3 DEF FinalizesAll, SegInv, SegmentsOK
<1>5. ASSUME NEW s \in DOMAIN segments, AddChild(s) \/ StartSegment(s) \/ IgnoreSegment(s)
      PROVE  SegmentsOK(segments', clock', finalized', traceEnded') /\ DurationsKept(segments', clock')
  <2>1. clock' = clock /\ finalized' = finalized /\ traceEnded' = traceEnded /\ s \in 1..Len(segments)
    BY <1>2, <1>5 DEF AddChild, StartSegment, IgnoreSegment
  <2>2. SoundTimer(segments[s].timer, clock)
    BY <2>1, <1>1 DEF Tree
  <2>3. CASE AddChild(s)
    <3>1. /\ ~traceEnded /\ Len(segments) <= MaxSegments
          /\ segments' = Append(segments, NewSegment(s, MayCollect(Len(segments) - 1)))
      BY <2>3 DEF AddChild
    <3> QED BY <3>1, <2>1, SegmentAdded
  <2>4. CASE StartSegment(s)
    <3>1. segments[s].timer.state = "pending" /\ segments' = [segments EXCEPT ![s].timer = Begun(@)]
      BY <2>4 DEF StartSegment
    <3>2. PICK t : t = Begun(segments[s].timer)
      OBVIOUS
    <3>3. SoundTimer(t, clock) /\ ~IsMeasured(t)
      BY <3>1, <3>2, <2>2, <1>1, TimerSteps
    <3>4. MayTime(s, t)
      BY <3>1, <3>3, <1>1 DEF MayTime, Tree
    <3>5. segments' = [segments EXCEPT ![s].timer = t]
      BY <3>1, <3>2
    <3>6. Timed(segments', segments, s, t)
      BY <3>4, <3>5, <2>1, <1>1, TimerReplaced
    <3> QED BY <3>1, <3>3, <3>6, <2>1, SegmentUnmeasured
  <2>5. CASE IgnoreSegment(s)
    <3>1. PICK u \in BOOLEAN : segments' = [segments EXCEPT ![s].ignore = u]
      BY <2>5 DEF IgnoreSegment
    <3>2. Timed(segments', segments, s, segments[s].timer)
      BY <3>1, <2>1, <1>1, FlagReplaced
    <3> QED BY <3>2, <2>1, SegmentUnmeasured
  <2> QED BY <1>5, <2>3, <2>4, <2>5
<1>6. ASSUME NEW s \in DOMAIN segments, NEW rounded \in BOOLEAN, TouchSegment(s, rounded) \/ EndSegment(s, rounded)
      PROVE  SegmentsOK(segments', clock', finalized', traceEnded') /\ DurationsKept(segments', clock')
  <2>1. /\ clock' = clock /\ finalized' = finalized /\ traceEnded' = traceEnded /\ s \in 1..Len(segments)
        /\ s # Root
    BY <1>2, <1>6 DEF TouchSegment, EndSegment
  <2>2. SoundTimer(segments[s].timer, clock)
    BY <2>1, <1>1 DEF Tree
  <2>3. PICK t : /\ Measures(s, t)
                 /\ segments' = RootUpdated([segments EXCEPT ![s].timer = t], s, rounded)
    <3>1. CASE TouchSegment(s, rounded)
      <4>1. segments' = RootUpdated([segments EXCEPT ![s].timer = Touched(segments[s].timer)], s, rounded)
        BY <3>1 DEF TouchSegment
      <4>2. Measures(s, Touched(segments[s].timer))
        BY <2>1, <2>2, <1>1, TimerSteps DEF Measures
      <4> QED BY <4>1, <4>2
    <3>2. CASE EndSegment(s, rounded)
      <4>1. /\ segments' = RootUpdated([segments EXCEPT ![s].timer = Ended(segments[s].timer)], s, rounded)
            /\ segments[s].timer.state # "stopped"
        BY <3>2 DEF EndSegment
      <4>2. Measures(s, Ended(segments[s].timer))
        BY <4>1, <2>1, <2>2, <1>1, TimerSteps DEF Measures
      <4> QED BY <4>1, <4>2
    <3> QED BY <1>6, <3>1, <3>2
  <2> QED BY <2>1, <2>3, SegmentMeasured
<1> QED BY <1>3, <1>4, <1>5, <1>6 DEF SegmentNext

\* lib/transaction/trace/index.js and lib/timer.js: what was measured of a segment when the
\* trace ended is what is sent: no callback that comes late changes its duration.
THEOREM DurationsAreFinalCorrect == SegmentSpec => DurationsAreFinal
<1>1. SegmentInit => SegInv
  BY SegmentStart
<1>2. SegInv /\ [SegmentNext]_segmentVars => SegInv'
  <2>1. ASSUME SegInv, SegmentNext PROVE SegInv'
    BY <2>1, SegmentStep DEF SegInv
  <2>2. ASSUME SegInv, UNCHANGED segmentVars PROVE SegInv'
    BY <2>2 DEF SegInv, segmentVars
  <2> QED BY <2>1, <2>2
<1>3. ASSUME SegInv, [SegmentNext]_segmentVars
      PROVE  [\A s \in finalized \ {Root} :
                 Duration(segments[s].timer)' = Duration(segments[s].timer)]_segmentVars
  <2> SUFFICES ASSUME SegmentNext, NEW s \in finalized \ {Root}
               PROVE  Duration(segments[s].timer)' = Duration(segments[s].timer)
    BY <1>3
  <2>1. /\ segments'[s].timer \in Timers
        /\ DurationAt(segments'[s].timer, clock') = DurationAt(segments[s].timer, clock)
    BY <1>3, SegmentStep DEF DurationsKept
  <2>2. Duration(segments[s].timer)' = DurationAt(segments'[s].timer, clock')
    BY <2>1 DEF Duration, DurationAt, Timers
  <2>3. segments[s].timer \in Timers
    BY <1>3 DEF SegInv, SegmentsOK, Tree, SoundTimer
  <2>4. Duration(segments[s].timer) = DurationAt(segments[s].timer, clock)
    BY <2>3, DurationNow
  <2> QED BY <2>1, <2>2, <2>4
<1> QED BY <1>1, <1>2, <1>3, PTL DEF SegmentSpec, DurationsAreFinal

\* The same state: timers are sound, no more segments than max_trace_segments are kept for
\* the trace, and the root ends with its last segment or later.
THEOREM SegmentsAreCovered == SegmentSpec => [](SegmentTypeOK /\ RootCovers)
<1>1. SegmentInit => SegInv
  BY SegmentStart
<1>2. SegInv /\ [SegmentNext]_segmentVars => SegInv'
  <2>1. ASSUME SegInv, SegmentNext PROVE SegInv'
    BY <2>1, SegmentStep DEF SegInv
  <2>2. ASSUME SegInv, UNCHANGED segmentVars PROVE SegInv'
    BY <2>2 DEF SegInv, segmentVars
  <2> QED BY <2>1, <2>2
<1>3. SegInv => SegmentTypeOK /\ RootCovers
  <2> SUFFICES ASSUME SegInv PROVE SegmentTypeOK /\ RootCovers
    OBVIOUS
  <2>1. clock \in Nat /\ Tree(segments, clock) /\ AllCovered(segments, clock)
    BY SegmentTraceAssumption DEF SegInv, SegmentsOK
  <2>2. PICK n \in Nat : n = Len(segments) /\ DOMAIN segments = 1..n /\ Root \in 1..n
    BY <2>1, RootIsSound
  <2>3. ASSUME NEW s \in 1..n
        PROVE  /\ segments[s].timer \in Timers /\ Duration(segments[s].timer) \in Nat
               /\ EndOf(segments[s].timer) = EndAt(segments[s].timer, clock)
    <3>1. SoundTimer(segments[s].timer, clock)
      BY <2>1, <2>2 DEF Tree
    <3>2. segments[s].timer \in Timers
      BY <3>1 DEF SoundTimer
    <3> QED BY <3>1, <3>2, <2>1, DurationNow, DurationIsNat
  <2>4. Cardinality({s \in DOMAIN segments : s # Root /\ segments[s].collect}) <= MaxTraceSegments
    <3>1. PICK S : S = {s \in DOMAIN segments : s # Root /\ segments[s].collect}
      OBVIOUS
    <3>2. S \subseteq 2..MaxTraceSegments + 1
      BY <3>1, <2>1, <2>2 DEF Tree, Root
    <3>3. IsFiniteSet(2..MaxTraceSegments + 1) /\ Cardinality(2..MaxTraceSegments + 1) = MaxTraceSegments
      <4>1. PICK k \in Nat : k = MaxTraceSegments
        BY SegmentTraceAssumption
      <4>2. PICK a \in Int, b \in Int : a = 2 /\ b = k + 1
        OBVIOUS
      <4>3. IsFiniteSet(a..b) /\ Cardinality(a..b) = IF a > b THEN 0 ELSE b - a + 1
        BY FS_Interval
      <4> QED BY <4>1, <4>2, <4>3
    <3>4. Cardinality(S) <= Cardinality(2..MaxTraceSegments + 1)
      BY <3>2, <3>3, FS_Subset
    <3> QED BY <3>1, <3>3, <3>4
  <2>5. SegmentTypeOK
    BY <2>2, <2>3, <2>4 DEF SegmentTypeOK, SegInv, SegmentsOK, Timers
  <2>6. ASSUME NEW s \in finalized PROVE EndOf(segments[s].timer) <= EndOf(segments[Root].timer)
    <3>1. s \in 1..n /\ IsMeasured(segments[s].timer)
      BY <2>2 DEF SegInv, SegmentsOK, IsMeasured
    <3> QED BY <3>1, <2>1, <2>2, <2>3 DEF AllCovered, Covered
  <2> QED BY <2>5, <2>6 DEF RootCovers
<1> QED BY <1>1, <1>2, <1>3, PTL DEF SegmentSpec

(***************************************************************************)
(* Slow queries.  Their number is a sum over the statements: a lemma says  *)
(* what it is when one sample changes, and when samples are merged.  That  *)
(* no dropped statement was slower than a kept one needs FullOfSlower: a   *)
(* statement is only taken in, slow or not, while nothing has been dropped.*)
(***************************************************************************)
\* The element a sum over statements leaves out next.
Chosen == [T \in SUBSET Statements |-> CHOOSE s \in T : TRUE]

\* m sums the counts of ss up.
SumsCounts(ss, m) ==
    /\ m[{}] = 0
    /\ \A T \in SUBSET Statements :
          T # {} => m[T] = ss[Chosen[T]].count + m[T \ {Chosen[T]}] /\ m[T \ {Chosen[T]}] \in Nat
    /\ m[Statements] \in Nat /\ QueriesIn(ss) = m[Statements]

LEMMA ChosenIsIn == \A T \in SUBSET Statements : T # {} => Chosen[T] \in T
BY DEF Chosen

LEMMA CountsHaveSum ==
    ASSUME NEW ss, \A s \in Statements : ss[s].count \in Nat
    PROVE  \E m : SumsCounts(ss, m)
<1>1. PICK H : H = [p \in (SUBSET Statements) \X Nat |-> IF p[1] = {} THEN 0 ELSE ss[Chosen[p[1]]].count + p[2]]
  OBVIOUS
<1>2. H \in [(SUBSET Statements) \X Nat -> Nat]
  <2>1. ASSUME NEW p \in (SUBSET Statements) \X Nat
        PROVE  (IF p[1] = {} THEN 0 ELSE ss[Chosen[p[1]]].count + p[2]) \in Nat
    <3>1. p[1] # {} => ss[Chosen[p[1]]].count \in Nat
      BY ChosenIsIn
    <3> QED BY <3>1
  <2> QED BY <1>1, <2>1
<1>3. PICK z \in Nat : z = 0
  OBVIOUS
<1>4. RunsDown(Statements, Nat, z, Chosen, H) # {}
  BY <1>2, ChosenIsIn, SlowQueriesAssumption, SubsetRecursion
<1>5. PICK g \in [SUBSET Statements -> Nat] :
          \A T \in SUBSET Statements : g[T] = IF T = {} THEN z ELSE H[<<T, g[T \ {Chosen[T]}]>>]
  BY <1>4 DEF RunsDown
<1> DEFINE next(m, T) == IF T = {} THEN 0 ELSE LET s == CHOOSE s \in T : TRUE IN ss[s].count + m[T \ {s}]
<1>6. ASSUME NEW T \in SUBSET Statements PROVE g[T] = next(g, T)
  <2>1. CASE T = {}
    BY <2>1, <1>3, <1>5
  <2>2. CASE T # {}
    <3>1. T \ {Chosen[T]} \in SUBSET Statements
      OBVIOUS
    <3>2. PICK k \in Nat : k = g[T \ {Chosen[T]}]
      BY <3>1, <1>5
    <3>3. <<T, k>> \in (SUBSET Statements) \X Nat
      BY <3>2
    <3>4. g[T] = ss[Chosen[T]].count + k
      BY <2>2, <3>2, <3>3, <1>1, <1>5
    <3>5. Chosen[T] = CHOOSE s \in T : TRUE
      BY DEF Chosen
    <3> QED BY <2>2, <3>2, <3>4, <3>5, Zenon
  <2> QED BY <2>1, <2>2
<1>7. g = [T \in SUBSET Statements |-> next(g, T)]
  <2>1. PICK h : h = [T \in SUBSET Statements |-> next(g, T)]
    OBVIOUS
  <2>2. \A T \in SUBSET Statements : g[T] = h[T]
    BY <1>6, <2>1, Zenon
  <2> HIDE DEF next
  <2>3. g = h
    BY <2>1, <2>2, <1>5
  <2> QED BY <2>1, <2>3
<1>8. PICK m : m = CHOOSE mm : mm = [T \in SUBSET Statements |-> next(mm, T)]
  OBVIOUS
<1>9. m = [T \in SUBSET Statements |-> next(m, T)]
  <2> HIDE DEF next
  <2> QED BY <1>7, <1>8
<1>10. QueriesIn(ss) = m[Statements]
  BY <1>8, Zenon DEF QueriesIn
<1>11. /\ m[{}] = 0
       /\ \A T \in SUBSET Statements : T # {} => m[T] = ss[Chosen[T]].count + m[T \ {Chosen[T]}]
  <2> SUFFICES ASSUME NEW T \in SUBSET Statements
               PROVE  (T = {} => m[T] = 0) /\ (T # {} => m[T] = ss[Chosen[T]].count + m[T \ {Chosen[T]}])
    <3>1. {} \in SUBSET Statements
      OBVIOUS
    <3> QED BY <3>1, Zenon
  <2>1. m[T] = next(m, T)
    <3> HIDE DEF next
    <3> QED BY <1>9
  <2>2. Chosen[T] = CHOOSE s \in T : TRUE
    BY DEF Chosen
  <2> QED BY <2>1, <2>2, Zenon
<1> HIDE DEF next
<1>13. \A T \in SUBSET Statements : m[T] \in Nat
  <2> SUFFICES ASSUME NEW S \in SUBSET Statements PROVE m[S] \in Nat
    OBVIOUS
  <2>1. PICK K : K = {T \in SUBSET S : m[T] \in Nat}
    OBVIOUS
  <2>2. {} \in K
    <3>1. m[{}] \in Nat
      BY <1>11
    <3> QED BY <2>1, <3>1
  <2>3. ASSUME NEW T \in SUBSET S, T # {}, T \ {Chosen[T]} \in K PROVE T \in K
    <3>1. T \in SUBSET Statements /\ Chosen[T] \in Statements
      BY <2>3, ChosenIsIn
    <3>2. ss[Chosen[T]].count \in Nat /\ m[T \ {Chosen[T]}] \in Nat
      BY <2>1, <2>3, <3>1
    <3>3. m[T] = ss[Chosen[T]].count + m[T \ {Chosen[T]}]
      BY <2>3, <3>1, <1>11
    <3>4. m[T] \in Nat
      BY <3>2, <3>3
    <3> QED BY <2>1, <3>4
  <2>4. Shrinks(K, S, Chosen)
    BY <2>2, <2>3 DEF Shrinks
  <2>5. IsFiniteSet(S) /\ \A T \in SUBSET S : T # {} => Chosen[T] \in T
    BY ChosenIsIn, FS_Subset, SlowQueriesAssumption
  <2>6. S \in K
    BY <2>4, <2>5, ElementByElement
  <2> QED BY <2>1, <2>6
<1>14. SumsCounts(ss, m)
  BY <1>10, <1>11, <1>13 DEF SumsCounts
<1> QED BY <1>14

\* Where no statement has queries, there are none.
LEMMA NoQueries ==
    ASSUME NEW a, \A s \in Statements : a[s].count = 0
    PROVE  QueriesIn(a) = 0
<1>1. PICK g : SumsCounts(a, g)
  BY CountsHaveSum
<1>2. PICK J : J = {T \in SUBSET Statements : g[T] = 0}
  OBVIOUS
<1>3. Shrinks(J, Statements, Chosen)
  <2>1. {} \in J
    BY <1>1, <1>2 DEF SumsCounts
  <2>2. ASSUME NEW T \in SUBSET Statements, T # {}, T \ {Chosen[T]} \in J PROVE T \in J
    <3>1. g[T] = a[Chosen[T]].count + g[T \ {Chosen[T]}] /\ g[T \ {Chosen[T]}] = 0
      BY <1>1, <1>2, <2>2 DEF SumsCounts
    <3>2. a[Chosen[T]].count = 0
      BY <2>2, ChosenIsIn
    <3>3. g[T] = 0
      BY <3>1, <3>2
    <3> QED BY <1>2, <3>3
  <2> QED BY <2>1, <2>2 DEF Shrinks
<1>4. Statements \in J
  BY <1>3, ChosenIsIn, SlowQueriesAssumption, ElementByElement
<1> QED BY <1>1, <1>2, <1>4 DEF SumsCounts

\* The queries of samples that are merged.
LEMMA QueriesOfBoth ==
    ASSUME NEW a, NEW b, NEW c, \A s \in Statements : a[s].count \in Nat /\ b[s].count \in Nat,
           \A s \in Statements : c[s].count = a[s].count + b[s].count
    PROVE  QueriesIn(c) = QueriesIn(a) + QueriesIn(b)
<1>1. PICK f : SumsCounts(a, f)
  BY CountsHaveSum
<1>2. PICK g : SumsCounts(b, g)
  BY CountsHaveSum
<1>3. PICK h : SumsCounts(c, h)
  BY CountsHaveSum
<1>4. PICK J : J = {T \in SUBSET Statements : h[T] = f[T] + g[T]}
  OBVIOUS
<1>5. ASSUME NEW T \in SUBSET Statements, T # {}, T \ {Chosen[T]} \in J PROVE T \in J
  <2>1. PICK s \in Statements : s = Chosen[T]
    BY <1>5, ChosenIsIn
  <2>2. PICK U : U = T \ {s}
    OBVIOUS
  <2>3. /\ f[T] = a[s].count + f[U] /\ f[U] \in Nat /\ g[T] = b[s].count + g[U] /\ g[U] \in Nat
        /\ h[T] = c[s].count + h[U] /\ h[U] = f[U] + g[U]
    BY <1>1, <1>2, <1>3, <1>4, <1>5, <2>1, <2>2 DEF SumsCounts
  <2>4. h[T] = f[T] + g[T]
    BY <2>3
  <2> QED BY <2>4, <1>4
<1>6. {} \in J
  BY <1>1, <1>2, <1>3, <1>4 DEF SumsCounts
<1>7. Statements \in J
  <2> Shrinks(J, Statements, Chosen)
    BY <1>5, <1>6 DEF Shrinks
  <2> QED BY ChosenIsIn, SlowQueriesAssumption, ElementByElement
<1> QED BY <1>1, <1>2, <1>3, <1>4, <1>7 DEF SumsCounts

\* The queries when one statement's sample changes.
LEMMA QueriesOfChanged ==
    ASSUME NEW a, NEW b, \A s \in Statements : a[s].count \in Nat /\ b[s].count \in Nat,
           NEW r \in Statements, \A s \in Statements : s # r => b[s].count = a[s].count
    PROVE  QueriesIn(b) + a[r].count = QueriesIn(a) + b[r].count /\ QueriesIn(a) \in Nat /\ QueriesIn(b) \in Nat
<1>1. PICK f : SumsCounts(a, f)
  BY CountsHaveSum
<1>2. PICK g : SumsCounts(b, g)
  BY CountsHaveSum
<1>3. PICK x \in Nat, y \in Nat : x = a[r].count /\ y = b[r].count
  OBVIOUS
<1>4. PICK J : J = {T \in SUBSET Statements : IF r \in T THEN g[T] + x = f[T] + y ELSE g[T] = f[T]}
  OBVIOUS
<1>5. ASSUME NEW T \in SUBSET Statements, T # {}, T \ {Chosen[T]} \in J PROVE T \in J
  <2>1. PICK s \in T : s = Chosen[T]
    BY <1>5, ChosenIsIn
  <2>2. PICK U : U = T \ {s}
    OBVIOUS
  <2>3. /\ f[T] = a[s].count + f[U] /\ f[U] \in Nat /\ g[T] = b[s].count + g[U] /\ g[U] \in Nat
        /\ U \in J /\ a[s].count \in Nat /\ b[s].count \in Nat
    BY <1>1, <1>2, <1>5, <2>1, <2>2 DEF SumsCounts
  <2>4. CASE s = r
    <3>1. g[U] = f[U] /\ r \in T
      BY <2>2, <2>3, <2>4, <1>4
    <3>2. g[T] + x = f[T] + y
      BY <3>1, <2>3, <2>4, <1>3
    <3> QED BY <3>1, <3>2, <1>4
  <2>5. CASE s # r
    <3>1. a[s].count = b[s].count /\ (r \in T <=> r \in U)
      BY <2>2, <2>5
    <3>2. CASE r \in T
      <4>1. g[U] + x = f[U] + y
        BY <2>3, <3>1, <3>2, <1>4
      <4>2. g[T] + x = f[T] + y
        BY <4>1, <2>3, <3>1
      <4> QED BY <3>2, <4>2, <1>4
    <3>3. CASE r \notin T
      <4>1. g[U] = f[U]
        BY <2>3, <3>1, <3>3, <1>4
      <4> QED BY <4>1, <2>3, <3>1, <3>3, <1>4
    <3> QED BY <3>2, <3>3
  <2> QED BY <2>4, <2>5
<1>6. {} \in J
  BY <1>1, <1>2, <1>4 DEF SumsCounts
<1>7. Statements \in J
  <2> Shrinks(J, Statements, Chosen)
    BY <1>5, <1>6 DEF Shrinks
  <2> QED BY ChosenIsIn, SlowQueriesAssumption, ElementByElement
<1> QED BY <1>1, <1>2, <1>3, <1>4, <1>7 DEF SumsCounts

\* A sample is of queries: its statistics agree, and the slowest of them is its representative.
GoodSample(q) ==
    /\ q \in Sample /\ q.slowest = q.max
    /\ q.count = 0 => q = NoSample
    /\ q.count > 0 => q.slowest \in QueryTimes
    /\ q.count * q.min <= q.total /\ q.total <= q.count * q.max

GoodSamples(ss) == ss \in [Statements -> Sample] /\ \A s \in Statements : GoodSample(ss[s])

HistoryOfQueries ==
    queryHistory \in [recorded : 0 .. MaxQueries, gone : Nat, dropped : {0} \cup QueryTimes, merged : Nat]

\* What has been dropped since the last harvest made room in samples that are full.
FullOfSlower ==
    /\ Serverless => queryHistory.dropped = 0
    /\ queryHistory.merged = 0 /\ queryHistory.dropped > 0 => Cardinality(InUse(samples)) >= MaxSamples

QueryInv ==
    /\ GoodSamples(samples) /\ GoodSamples(samplesOut)
    /\ HistoryOfQueries /\ QueriesAddUp /\ SlowestAreKept /\ FullOfSlower

LEMMA Times ==
    ASSUME NEW k \in Nat, NEW x \in Nat, NEW y \in Nat, x <= y
    PROVE  k * x <= k * y
<1>1. PICK d \in Nat : y = x + d
  <2>1. y = x + (y - x) /\ y - x \in Nat
    OBVIOUS
  <2> QED BY <2>1
<1>2. k * y = k * x + k * d
  BY <1>1
<1>3. PICK p \in Nat, q \in Nat : p = k * x /\ q = k * d
  OBVIOUS
<1> QED BY <1>2, <1>3

LEMMA AddedProducts ==
    ASSUME NEW k \in Nat, NEW n \in Nat, NEW x \in Nat, NEW y \in Nat, NEW z \in Nat, NEW t \in Nat, NEW u \in Nat
    PROVE  /\ k * x <= k * y /\ n * x <= n * z /\ k * y <= t /\ n * z <= u => (k + n) * x <= t + u
           /\ k * y <= k * x /\ n * z <= n * x /\ t <= k * y /\ u <= n * z => t + u <= (k + n) * x
<1>1. PICK a \in Nat : a = k * x
  OBVIOUS
<1>2. PICK b \in Nat : b = n * x
  OBVIOUS
<1>3. PICK c \in Nat : c = k * y
  OBVIOUS
<1>4. PICK d \in Nat : d = n * z
  OBVIOUS
<1>5. PICK e \in Nat : e = (k + n) * x
  OBVIOUS
<1>6. e = a + b
  BY <1>1, <1>2, <1>5
<1>7. /\ a <= c /\ b <= d /\ c <= t /\ d <= u => e <= t + u
      /\ c <= a /\ d <= b /\ t <= c /\ u <= d => t + u <= e
  BY <1>6
<1> QED BY <1>1, <1>2, <1>3, <1>4, <1>5, <1>7

LEMMA NoSampleIsGood == GoodSample(NoSample) /\ GoodSamples(NoSamples) /\ InUse(NoSamples) = {}
<1>1. GoodSample(NoSample)
  BY DEF GoodSample, NoSample, Sample
<1>2. \A s \in Statements : NoSamples[s] = NoSample
  BY DEF NoSamples
<1>3. NoSamples \in [Statements -> Sample]
  BY <1>1 DEF NoSamples, GoodSample
<1>4. GoodSamples(NoSamples)
  BY <1>1, <1>2, <1>3 DEF GoodSamples
<1>5. InUse(NoSamples) = {}
  BY <1>2 DEF InUse, NoSample
<1> QED BY <1>1, <1>4, <1>5

LEMMA OneIsGood ==
    ASSUME NEW d \in QueryTimes
    PROVE  GoodSample(SampleOf(d)) /\ SampleOf(d).count = 1 /\ SampleOf(d).slowest = d /\ d \in Nat /\ d > 0
<1>1. d \in Nat /\ d > 0
  BY SlowQueriesAssumption
<1> QED BY <1>1 DEF GoodSample, SampleOf, Sample

\* A sum of good samples is good, and has the slowest of both.
LEMMA SumIsGood ==
    ASSUME NEW a, GoodSample(a), NEW b, GoodSample(b)
    PROVE  /\ GoodSample(SampleSum(a, b))
           /\ SampleSum(a, b).count = a.count + b.count
           /\ a.slowest <= SampleSum(a, b).slowest /\ b.slowest <= SampleSum(a, b).slowest
           /\ SampleSum(a, b).slowest \in {a.slowest, b.slowest}
<1>1. /\ a.count \in Nat /\ a.total \in Nat /\ a.min \in Nat /\ a.max \in Nat /\ a.slowest \in Nat
      /\ b.count \in Nat /\ b.total \in Nat /\ b.min \in Nat /\ b.max \in Nat /\ b.slowest \in Nat
  BY DEF GoodSample, Sample
<1>2. CASE a.count = 0
  <2>1. a.slowest = 0
    BY <1>2 DEF GoodSample, NoSample
  <2> QED BY <1>1, <1>2, <2>1 DEF SampleSum
<1>3. CASE a.count > 0 /\ b.count = 0
  <2>1. b.slowest = 0
    BY <1>3 DEF GoodSample, NoSample
  <2>2. a.count # 0
    BY <1>1, <1>3
  <2>3. SampleSum(a, b) = a
    BY <1>3, <2>2 DEF SampleSum
  <2> QED BY <1>1, <1>3, <2>1, <2>3
<1>4. CASE a.count > 0 /\ b.count > 0
  <2>1. PICK k \in Nat : k = a.count + b.count
    BY <1>1
  <2>2. PICK sum \in Nat : sum = a.total + b.total
    BY <1>1
  <2>3. PICK low \in Nat : low = Faster(a.min, b.min)
    BY <1>1 DEF Faster
  <2>4. PICK high \in Nat : high = Slower(a.max, b.max)
    BY <1>1 DEF Slower
  <2>5. PICK r : r = [count |-> k, total |-> sum, min |-> low, max |-> high, slowest |-> high]
    OBVIOUS
  <2>6. a.slowest = a.max /\ b.slowest = b.max
    BY DEF GoodSample
  <2>7. SampleSum(a, b) = r
    <3>1. a.count # 0 /\ b.count # 0
      BY <1>1, <1>4
    <3> QED BY <1>4, <2>1, <2>2, <2>3, <2>4, <2>5, <2>6, <3>1 DEF SampleSum
  <2>8. low <= a.min /\ low <= b.min /\ a.max <= high /\ b.max <= high /\ high \in {a.max, b.max}
    BY <1>1, <2>3, <2>4 DEF Faster, Slower
  <2>9. k * low <= sum
    <3>1. a.count * low <= a.count * a.min /\ b.count * low <= b.count * b.min
      BY <1>1, <2>8, Times
    <3>2. a.count * a.min <= a.total /\ b.count * b.min <= b.total
      BY DEF GoodSample
    <3> QED BY <1>1, <2>1, <2>2, <3>1, <3>2, AddedProducts
  <2>10. sum <= k * high
    <3>1. a.count * a.max <= a.count * high /\ b.count * b.max <= b.count * high
      BY <1>1, <2>8, Times
    <3>2. a.total <= a.count * a.max /\ b.total <= b.count * b.max
      BY DEF GoodSample
    <3> QED BY <1>1, <2>1, <2>2, <3>1, <3>2, AddedProducts
  <2>11. a.slowest \in QueryTimes /\ b.slowest \in QueryTimes
    BY <1>4 DEF GoodSample
  <2>12. r \in Sample /\ r.count = k /\ r.total = sum /\ r.min = low /\ r.max = high /\ r.slowest = high
    BY <2>5 DEF Sample
  <2>13. k # 0
    BY <1>1, <1>4, <2>1
  <2>14. GoodSample(r)
    BY <2>6, <2>8, <2>9, <2>10, <2>11, <2>12, <2>13 DEF GoodSample
  <2> QED BY <2>1, <2>6, <2>7, <2>8, <2>12, <2>14
<1> QED BY <1>1, <1>2, <1>3, <1>4

LEMMA InUseIsFinite ==
    ASSUME NEW ss
    PROVE  InUse(ss) \subseteq Statements /\ IsFiniteSet(InUse(ss)) /\ Cardinality(InUse(ss)) \in Nat
<1>1. InUse(ss) \subseteq Statements
  BY DEF InUse
<1> QED BY <1>1, SlowQueriesAssumption, FS_Subset, FS_CardinalityType

\* The samples with one more query.
LEMMA OneMoreQuery ==
    ASSUME GoodSamples(samples), NEW s \in Statements, NEW d \in QueryTimes,
           NEW added, added = [samples EXCEPT ![s] = SampleSum(@, SampleOf(d))]
    PROVE  /\ GoodSamples(added) /\ InUse(added) = InUse(samples) \cup {s}
           /\ QueriesIn(added) = QueriesIn(samples) + 1 /\ QueriesIn(samples) \in Nat
           /\ \A r \in Statements : samples[r].slowest <= added[r].slowest
           /\ d <= added[s].slowest
<1>1. PICK new : new = SampleSum(samples[s], SampleOf(d))
  OBVIOUS
<1>2. GoodSample(samples[s])
  BY DEF GoodSamples
<1>3. /\ GoodSample(new) /\ new.count = samples[s].count + 1
      /\ samples[s].slowest <= new.slowest /\ d <= new.slowest
  BY <1>1, <1>2, OneIsGood, SumIsGood
<1>4. added[s] = new /\ (\A r \in Statements : r # s => added[r] = samples[r]) /\ added \in [Statements -> Sample]
  BY <1>1, <1>3 DEF GoodSamples, GoodSample
<1>5. GoodSamples(added)
  BY <1>3, <1>4 DEF GoodSamples
<1>6. \A r \in Statements : samples[r].count \in Nat /\ added[r].count \in Nat /\ samples[r].slowest \in Nat
  BY <1>5 DEF GoodSamples, GoodSample, Sample
<1>7. InUse(added) = InUse(samples) \cup {s}
  <2>1. added[s].count > 0
    BY <1>3, <1>4, <1>6
  <2> QED BY <1>4, <2>1 DEF InUse
<1>8. QueriesIn(added) + samples[s].count = QueriesIn(samples) + added[s].count /\ QueriesIn(samples) \in Nat /\ QueriesIn(added) \in Nat
  BY <1>4, <1>6, QueriesOfChanged
<1>9. QueriesIn(added) = QueriesIn(samples) + 1
  BY <1>3, <1>4, <1>6, <1>8
<1>10. \A r \in Statements : samples[r].slowest <= added[r].slowest
  <2> SUFFICES ASSUME NEW r \in Statements PROVE samples[r].slowest <= added[r].slowest
    OBVIOUS
  <2>1. CASE r = s
    BY <1>3, <1>4, <2>1
  <2>2. CASE r # s
    <3>1. added[r] = samples[r] /\ samples[r].slowest \in Nat
      BY <1>4, <1>6, <2>2
    <3> QED BY <3>1
  <2> QED BY <2>1, <2>2
<1>11. d <= added[s].slowest
  BY <1>3, <1>4
<1> QED BY <1>5, <1>7, <1>8, <1>9, <1>10, <1>11

LEMMA QueriesAreCounted ==
    ASSUME NEW ss, \A s \in Statements : ss[s].count \in Nat
    PROVE  QueriesIn(ss) \in Nat
<1>1. PICK g : SumsCounts(ss, g)
  BY CountsHaveSum
<1>2. Statements \in SUBSET Statements
  OBVIOUS
<1> QED BY <1>1, <1>2 DEF SumsCounts

\* The parts of what is known of the queries.
LEMMA QueryFacts ==
    ASSUME QueryInv
    PROVE  /\ queryHistory.recorded \in 0 .. MaxQueries /\ queryHistory.gone \in Nat /\ queryHistory.merged \in Nat
           /\ queryHistory.dropped \in Nat /\ queryHistory.dropped \in {0} \cup QueryTimes
           /\ MaxQueries \in Nat /\ MaxSamples \in Nat /\ MaxSamples > 0
           /\ QueriesIn(samples) \in Nat /\ QueriesIn(samplesOut) \in Nat
           /\ queryHistory.recorded = queryHistory.gone + QueriesIn(samples) + QueriesIn(samplesOut)
           /\ \A s \in Statements : /\ samples[s].count \in Nat /\ samples[s].slowest \in Nat
                                     /\ samplesOut[s].count \in Nat /\ samplesOut[s].slowest \in Nat
<1>1. HistoryOfQueries
  BY DEF QueryInv
<1>2. PICK h : h = queryHistory
  OBVIOUS
<1>3. h \in [recorded : 0 .. MaxQueries, gone : Nat, dropped : {0} \cup QueryTimes, merged : Nat]
  BY <1>1, <1>2 DEF HistoryOfQueries
<1>4. h.recorded \in 0 .. MaxQueries /\ h.gone \in Nat /\ h.dropped \in {0} \cup QueryTimes /\ h.merged \in Nat
  BY <1>3
<1>5. h.dropped \in Nat /\ MaxQueries \in Nat /\ MaxSamples \in Nat /\ MaxSamples > 0
  <2>1. MaxQueries \in Nat /\ MaxSamples \in Nat /\ MaxSamples # 0 /\ QueryTimes \subseteq Nat
    BY SlowQueriesAssumption
  <2>2. h.dropped = 0 \/ h.dropped \in QueryTimes
    BY <1>4
  <2>3. PICK d : d = h.dropped
    OBVIOUS
  <2>4. d \in Nat
    <3>1. d = 0 \/ d \in QueryTimes
      BY <2>2, <2>3
    <3>2. QueryTimes \subseteq Nat
      BY <2>1
    <3>3. CASE d = 0
      BY <3>3
    <3>4. CASE d \in QueryTimes
      BY <3>2, <3>4
    <3> QED BY <3>1, <3>3, <3>4
  <2>5. MaxSamples > 0
    <3>1. MaxSamples \in Nat /\ MaxSamples # 0
      BY <2>1
    <3> QED BY <3>1
  <2> QED BY <2>1, <2>3, <2>4, <2>5
<1>6. \A s \in Statements : /\ samples[s].count \in Nat /\ samples[s].slowest \in Nat
                            /\ samplesOut[s].count \in Nat /\ samplesOut[s].slowest \in Nat
  BY DEF QueryInv, GoodSamples, GoodSample, Sample
<1>7. QueriesIn(samples) \in Nat
  BY <1>6, QueriesAreCounted
<1>8. QueriesIn(samplesOut) \in Nat
  BY <1>6, QueriesAreCounted
<1>9. queryHistory.recorded = queryHistory.gone + QueriesIn(samples) + QueriesIn(samplesOut)
  BY DEF QueryInv, QueriesAddUp
<1> QED BY <1>2, <1>4, <1>5, <1>6, <1>7, <1>8, <1>9

\* What AddQuery does when its statement fits, and when room is made for it.
QueryFits(s, added, noted) ==
    /\ s \in InUse(samples) \/ Serverless \/ Cardinality(InUse(added)) <= MaxSamples
    /\ samples' = added /\ queryHistory' = noted

RoomIsMade(s, added, noted, r) ==
    /\ s \notin InUse(samples) /\ ~Serverless /\ ~(Cardinality(InUse(added)) <= MaxSamples)
    /\ samples' = [added EXCEPT ![r] = NoSample]
    /\ queryHistory' = [noted EXCEPT !.gone = @ + added[r].count, !.dropped = Slower(@, added[r].slowest)]

AddedQuery(s, d, added, noted) ==
    /\ s \in Statements /\ d \in QueryTimes /\ queryHistory.recorded < MaxQueries
    /\ samplesOut' = samplesOut
    /\ added = [samples EXCEPT ![s] = SampleSum(@, SampleOf(d))]
    /\ noted = [queryHistory EXCEPT !.recorded = @ + 1]

LEMMA AddQueryCases ==
    ASSUME NEW s \in Statements, NEW d \in QueryTimes, AddQuery(s, d)
    PROVE  \E added, noted :
              /\ AddedQuery(s, d, added, noted)
              /\ \/ QueryFits(s, added, noted)
                 \/ \E r \in Removable(added) : RoomIsMade(s, added, noted, r)
<1>1. PICK added : added = [samples EXCEPT ![s] = SampleSum(@, SampleOf(d))]
  OBVIOUS
<1>2. PICK noted : noted = [queryHistory EXCEPT !.recorded = @ + 1]
  OBVIOUS
<1>3. AddedQuery(s, d, added, noted)
  BY <1>1, <1>2 DEF AddQuery, AddedQuery
<1>4. \/ QueryFits(s, added, noted)
      \/ \E r \in Removable(added) : RoomIsMade(s, added, noted, r)
  BY <1>1, <1>2, Zenon DEF AddQuery, QueryFits, RoomIsMade
<1> QED BY <1>3, <1>4

\* The queries before and with the one that is added.
QueryIsAdded(s, added, noted) ==
    /\ GoodSamples(added) /\ InUse(added) = InUse(samples) \cup {s}
    /\ QueriesIn(added) = QueriesIn(samples) + 1
    /\ \A r \in Statements : /\ samples[r].slowest <= added[r].slowest
                             /\ samples[r].slowest \in Nat /\ added[r].slowest \in Nat /\ added[r].count \in Nat
                             /\ added[r].count > 0 => added[r].slowest \in QueryTimes
    /\ Cardinality(InUse(samples)) \in Nat
    /\ s \notin InUse(samples) => Cardinality(InUse(added)) = Cardinality(InUse(samples)) + 1
    /\ s \in InUse(samples) => InUse(added) = InUse(samples)
    /\ noted.recorded = queryHistory.recorded + 1 /\ noted.gone = queryHistory.gone
    /\ noted.dropped = queryHistory.dropped /\ noted.merged = queryHistory.merged
    /\ noted \in [recorded : 0 .. MaxQueries, gone : Nat, dropped : {0} \cup QueryTimes, merged : Nat]

LEMMA QueryAddition ==
    ASSUME QueryInv, NEW s, NEW d, NEW added, NEW noted, AddedQuery(s, d, added, noted)
    PROVE  QueryIsAdded(s, added, noted)
<1>1. s \in Statements /\ d \in QueryTimes /\ added = [samples EXCEPT ![s] = SampleSum(@, SampleOf(d))]
  BY DEF AddedQuery
<1>2. GoodSamples(samples)
  BY DEF QueryInv
<1>3. /\ GoodSamples(added) /\ InUse(added) = InUse(samples) \cup {s}
      /\ QueriesIn(added) = QueriesIn(samples) + 1
      /\ \A r \in Statements : samples[r].slowest <= added[r].slowest
  BY <1>1, <1>2, OneMoreQuery
<1>4. \A r \in Statements : /\ samples[r].slowest \in Nat /\ added[r].slowest \in Nat /\ added[r].count \in Nat
                            /\ added[r].count > 0 => added[r].slowest \in QueryTimes
  BY <1>2, <1>3 DEF GoodSamples, GoodSample, Sample
<1>5. IsFiniteSet(InUse(samples)) /\ Cardinality(InUse(samples)) \in Nat
  BY InUseIsFinite
<1>6. s \notin InUse(samples) => Cardinality(InUse(added)) = Cardinality(InUse(samples)) + 1
  BY <1>3, <1>5, FS_AddElement
<1>7. s \in InUse(samples) => InUse(added) = InUse(samples)
  BY <1>3
<1>8. PICK h : h = queryHistory
  OBVIOUS
<1>9. h \in [recorded : 0 .. MaxQueries, gone : Nat, dropped : {0} \cup QueryTimes, merged : Nat]
  BY <1>8 DEF QueryInv, HistoryOfQueries
<1>10. PICK n : n = h.recorded + 1
  OBVIOUS
<1>11. n \in 0 .. MaxQueries
  <2>1. h.recorded \in 0 .. MaxQueries /\ h.recorded < MaxQueries /\ MaxQueries \in Nat
    BY <1>8, <1>9, SlowQueriesAssumption DEF AddedQuery
  <2> QED BY <1>10, <2>1
<1>12. noted = [h EXCEPT !.recorded = n]
  BY <1>8, <1>10 DEF AddedQuery
<1>13. /\ noted.recorded = n /\ noted.gone = h.gone /\ noted.dropped = h.dropped /\ noted.merged = h.merged
       /\ noted \in [recorded : 0 .. MaxQueries, gone : Nat, dropped : {0} \cup QueryTimes, merged : Nat]
  BY <1>9, <1>11, <1>12
<1> QED BY <1>3, <1>4, <1>5, <1>6, <1>7, <1>8, <1>10, <1>13 DEF QueryIsAdded

LEMMA QueryFitsStep ==
    ASSUME QueryInv, NEW s, NEW d, NEW added, NEW noted, AddedQuery(s, d, added, noted),
           QueryFits(s, added, noted)
    PROVE  QueryInv'
<1>1. QueryIsAdded(s, added, noted)
  BY QueryAddition
<1>2. samples' = added /\ queryHistory' = noted /\ samplesOut' = samplesOut
  BY DEF QueryFits, AddedQuery
<1>3. GoodSamples(samples)' /\ GoodSamples(samplesOut)'
  BY <1>1, <1>2 DEF QueryInv, QueryIsAdded, GoodSamples
<1>4. HistoryOfQueries'
  BY <1>1, <1>2 DEF QueryIsAdded, HistoryOfQueries
<1>5. QueriesAddUp'
  <2>1. QueriesIn(samples)' = QueriesIn(added) /\ QueriesIn(samplesOut)' = QueriesIn(samplesOut)
    BY <1>2
  <2>2. noted.recorded = noted.gone + QueriesIn(added) + QueriesIn(samplesOut)
    BY <1>1, QueryFacts DEF QueryIsAdded
  <2> QED BY <1>2, <2>1, <2>2 DEF QueriesAddUp
<1>6. ASSUME queryHistory.merged = 0, s \notin InUse(samples) PROVE queryHistory.dropped = 0
  <2>1. CASE Serverless
    BY <2>1 DEF QueryInv, FullOfSlower
  <2>2. CASE ~Serverless
    <3>1. Cardinality(InUse(added)) <= MaxSamples /\ Cardinality(InUse(added)) = Cardinality(InUse(samples)) + 1
      BY <1>1, <1>6, <2>2 DEF QueryFits, QueryIsAdded
    <3>2. Cardinality(InUse(samples)) \in Nat /\ MaxSamples \in Nat /\ queryHistory.dropped \in Nat
      BY <1>1, QueryFacts DEF QueryIsAdded
    <3>3. ~(Cardinality(InUse(samples)) >= MaxSamples)
      BY <3>1, <3>2
    <3> QED BY <1>6, <3>2, <3>3 DEF QueryInv, FullOfSlower
  <2> QED BY <2>1, <2>2
<1>7. SlowestAreKept'
  <2> SUFFICES ASSUME queryHistory.merged = 0, NEW r \in InUse(added)
               PROVE  queryHistory.dropped <= added[r].slowest
    BY <1>1, <1>2 DEF SlowestAreKept, QueryIsAdded
  <2>1. r \in Statements
    BY DEF InUse
  <2>2. samples[r].slowest <= added[r].slowest /\ samples[r].slowest \in Nat /\ added[r].slowest \in Nat
        /\ queryHistory.dropped \in Nat
    BY <1>1, <2>1, QueryFacts DEF QueryIsAdded
  <2>3. CASE r \in InUse(samples)
    <3>1. queryHistory.dropped <= samples[r].slowest
      BY <2>3 DEF QueryInv, SlowestAreKept
    <3> QED BY <2>2, <3>1
  <2>4. CASE r \notin InUse(samples)
    <3>1. r = s
      BY <1>1, <2>4 DEF QueryIsAdded
    <3>2. queryHistory.dropped = 0
      BY <1>6, <2>4, <3>1
    <3> QED BY <2>2, <3>2
  <2> QED BY <2>3, <2>4
<1>8. FullOfSlower'
  <2>1. Cardinality(InUse(added)) >= Cardinality(InUse(samples)) /\ Cardinality(InUse(added)) \in Nat /\ Cardinality(InUse(samples)) \in Nat
    BY <1>1 DEF QueryIsAdded
  <2>2. Cardinality(InUse(samples))' = Cardinality(InUse(added))
    BY <1>2
  <2>3. noted.dropped = queryHistory.dropped /\ noted.merged = queryHistory.merged
    BY <1>1 DEF QueryIsAdded
  <2>4. Cardinality(InUse(samples)) >= MaxSamples => Cardinality(InUse(added)) >= MaxSamples
    BY <2>1, QueryFacts
  <2> QED BY <1>2, <2>2, <2>3, <2>4 DEF QueryInv, FullOfSlower
<1> QED BY <1>3, <1>4, <1>5, <1>7, <1>8 DEF QueryInv

LEMMA RoomIsMadeStep ==
    ASSUME QueryInv, NEW s, NEW d, NEW added, NEW noted, AddedQuery(s, d, added, noted),
           NEW r \in Removable(added), RoomIsMade(s, added, noted, r)
    PROVE  QueryInv'
<1>1. QueryIsAdded(s, added, noted)
  BY QueryAddition
<1>2. r \in Statements /\ r \in InUse(added) /\ \A q \in InUse(added) : added[r].slowest <= added[q].slowest
  BY DEF Removable, InUse
<1>3. samples' = [added EXCEPT ![r] = NoSample] /\ samplesOut' = samplesOut /\ added \in [Statements -> Sample]
  BY <1>1 DEF RoomIsMade, AddedQuery, QueryIsAdded, GoodSamples
<1>4. samples'[r] = NoSample /\ \A q \in Statements : q # r => samples'[q] = added[q]
  BY <1>2, <1>3
<1>5. PICK x \in Nat, y \in Nat : x = added[r].count /\ y = added[r].slowest /\ y \in QueryTimes
  <2>1. added[r].count > 0 /\ added[r].count \in Nat /\ added[r].slowest \in Nat
    BY <1>1, <1>2 DEF InUse, QueryIsAdded
  <2> QED BY <1>1, <1>2, <2>1 DEF QueryIsAdded
<1>6. PICK gone \in Nat : gone = queryHistory.gone + x
  BY QueryFacts
<1>7. PICK dropped \in Nat : dropped = Slower(queryHistory.dropped, y)
  BY QueryFacts DEF Slower
<1>8. dropped \in {0} \cup QueryTimes /\ y <= dropped /\ dropped \in {queryHistory.dropped, y} /\ queryHistory.dropped <= dropped
  BY <1>5, <1>7, QueryFacts DEF Slower
<1>9. PICK h1 : h1 = [noted EXCEPT !.gone = gone]
  OBVIOUS
<1>10. queryHistory' = [h1 EXCEPT !.dropped = dropped]
  <2>1. noted.gone = queryHistory.gone /\ noted.dropped = queryHistory.dropped
    BY <1>1 DEF QueryIsAdded
  <2>2. h1.dropped = noted.dropped
    BY <1>1, <1>9 DEF QueryIsAdded
  <2>3. noted.gone + added[r].count = gone /\ Slower(noted.dropped, added[r].slowest) = dropped
    BY <1>5, <1>6, <1>7, <2>1
  <2> QED BY <1>9, <2>2, <2>3, Zenon DEF RoomIsMade
<1>11. h1 \in [recorded : 0 .. MaxQueries, gone : Nat, dropped : {0} \cup QueryTimes, merged : Nat]
       /\ h1.gone = gone /\ h1.recorded = noted.recorded /\ h1.merged = noted.merged
  BY <1>1, <1>6, <1>9 DEF QueryIsAdded
<1>12. PICK h2 : h2 = queryHistory'
  OBVIOUS
<1>13. h2 \in [recorded : 0 .. MaxQueries, gone : Nat, dropped : {0} \cup QueryTimes, merged : Nat]
       /\ h2.gone = gone /\ h2.recorded = noted.recorded /\ h2.merged = noted.merged /\ h2.dropped = dropped
  BY <1>8, <1>10, <1>11, <1>12
<1>14. noted.recorded = queryHistory.recorded + 1 /\ noted.merged = queryHistory.merged
  BY <1>1 DEF QueryIsAdded
<1>15. GoodSamples(samples')
  <2>1. samples' \in [Statements -> Sample]
    BY <1>3, NoSampleIsGood DEF GoodSample
  <2> QED BY <1>1, <1>4, <2>1, NoSampleIsGood DEF QueryIsAdded, GoodSamples
<1>16. GoodSamples(samples)' /\ GoodSamples(samplesOut)'
  BY <1>3, <1>15 DEF GoodSamples, QueryInv
<1>17. HistoryOfQueries'
  BY <1>12, <1>13 DEF HistoryOfQueries
<1>18. QueriesAddUp'
  <2>1. \A q \in Statements : samples'[q].count \in Nat /\ added[q].count \in Nat
    BY <1>15, <1>1 DEF GoodSamples, Sample, QueryIsAdded
  <2>2. /\ QueriesIn(samples') + added[r].count = QueriesIn(added) + samples'[r].count
        /\ QueriesIn(samples') \in Nat /\ QueriesIn(added) \in Nat
    <3> HIDE <1>3
    <3> QED BY <1>2, <1>4, <2>1, QueriesOfChanged
  <2>3. samples'[r].count = 0
    BY <1>4 DEF NoSample
  <2>4. QueriesIn(samples)' = QueriesIn(samples') /\ QueriesIn(samplesOut)' = QueriesIn(samplesOut)
    BY <1>3
  <2>5. QueriesIn(samples') + x = QueriesIn(samples) + 1
    BY <1>1, <1>5, <2>2, <2>3 DEF QueryIsAdded
  <2>6. h2.recorded = h2.gone + QueriesIn(samples') + QueriesIn(samplesOut)
    BY <1>6, <1>13, <1>14, <2>2, <2>5, QueryFacts
  <2> QED BY <1>12, <2>4, <2>6 DEF QueriesAddUp
<1>19. InUse(samples') = InUse(added) \ {r}
  BY <1>4 DEF InUse, NoSample
<1>20. SlowestAreKept'
  <2> SUFFICES ASSUME queryHistory.merged = 0, NEW q \in InUse(samples')
               PROVE  dropped <= samples'[q].slowest
    BY <1>12, <1>13, <1>14 DEF SlowestAreKept
  <2>1. q \in Statements /\ q \in InUse(added) /\ samples'[q] = added[q]
    BY <1>4, <1>19 DEF InUse
  <2>2. y <= added[q].slowest /\ added[q].slowest \in Nat
    BY <1>1, <1>2, <1>5, <2>1 DEF QueryIsAdded
  <2>3. ASSUME NEW t \in InUse(samples) PROVE queryHistory.dropped <= added[t].slowest
    <3>1. t \in Statements /\ queryHistory.dropped <= samples[t].slowest
      BY DEF QueryInv, SlowestAreKept, InUse
    <3>2. samples[t].slowest <= added[t].slowest /\ samples[t].slowest \in Nat /\ added[t].slowest \in Nat
      BY <1>1, <3>1 DEF QueryIsAdded
    <3> QED BY <3>1, <3>2, QueryFacts
  <2>4. queryHistory.dropped <= added[q].slowest
    <3>1. CASE q \in InUse(samples)
      BY <2>3, <3>1
    <3>2. CASE q \notin InUse(samples)
      <4>1. q = s /\ r # s
        BY <1>1, <1>19, <2>1, <3>2 DEF QueryIsAdded
      <4>2. r \in InUse(samples)
        BY <1>1, <1>2, <4>1 DEF QueryIsAdded
      <4>3. queryHistory.dropped <= y
        BY <1>5, <2>3, <4>2
      <4> QED BY <2>2, <4>3, QueryFacts
    <3> QED BY <3>1, <3>2
  <2> QED BY <1>8, <2>1, <2>2, <2>4
<1>21. FullOfSlower'
  <2>1. ~Serverless /\ ~(Cardinality(InUse(added)) <= MaxSamples) /\ s \notin InUse(samples)
    BY DEF RoomIsMade
  <2>2. IsFiniteSet(InUse(added)) /\ Cardinality(InUse(added)) \in Nat
    BY InUseIsFinite
  <2>3. Cardinality(InUse(added) \ {r}) = Cardinality(InUse(added)) - 1
    BY <1>2, <2>2, FS_RemoveElement
  <2>4. Cardinality(InUse(samples')) >= MaxSamples
    BY <1>19, <2>1, <2>2, <2>3, QueryFacts
  <2>5. Cardinality(InUse(samples))' = Cardinality(InUse(samples'))
    OBVIOUS
  <2> QED BY <2>1, <2>4, <2>5 DEF FullOfSlower
<1> QED BY <1>16, <1>17, <1>18, <1>20, <1>21 DEF QueryInv

LEMMA AddQueryStep ==
    ASSUME QueryInv, NEW s \in Statements, NEW d \in QueryTimes, AddQuery(s, d)
    PROVE  QueryInv'
<1>1. PICK added, noted :
              /\ AddedQuery(s, d, added, noted)
              /\ \/ QueryFits(s, added, noted)
                 \/ \E r \in Removable(added) : RoomIsMade(s, added, noted, r)
  BY AddQueryCases
<1>2. CASE QueryFits(s, added, noted)
  BY <1>1, <1>2, QueryFitsStep
<1>3. CASE \E r \in Removable(added) : RoomIsMade(s, added, noted, r)
  BY <1>1, <1>3, RoomIsMadeStep
<1> QED BY <1>1, <1>2, <1>3

LEMMA QueryInitial == QueryInit => QueryInv
<1> SUFFICES ASSUME QueryInit PROVE QueryInv
  OBVIOUS
<1>1. samples = NoSamples /\ samplesOut = NoSamples
      /\ queryHistory = [recorded |-> 0, gone |-> 0, dropped |-> 0, merged |-> 0]
  BY DEF QueryInit
<1>2. HistoryOfQueries
  <2>1. 0 \in 0 .. MaxQueries
    BY SlowQueriesAssumption
  <2> QED BY <1>1, <2>1 DEF HistoryOfQueries
<1>3. QueriesIn(NoSamples) = 0
  BY NoQueries DEF NoSamples, NoSample
<1>4. QueriesAddUp
  BY <1>1, <1>3 DEF QueriesAddUp
<1>5. SlowestAreKept
  BY <1>1, NoSampleIsGood DEF SlowestAreKept
<1>6. FullOfSlower
  BY <1>1 DEF FullOfSlower
<1> QED BY <1>1, <1>2, <1>4, <1>5, <1>6, NoSampleIsGood DEF QueryInv

\* Samples without queries are not there.
LEMMA UnusedAreEmpty ==
    ASSUME NEW ss, GoodSamples(ss), InUse(ss) = {}
    PROVE  QueriesIn(ss) = 0
<1>1. \A s \in Statements : ss[s].count = 0
  <2> SUFFICES ASSUME NEW s \in Statements PROVE ss[s].count = 0
    OBVIOUS
  <2>1. ss[s].count \in Nat /\ ~(ss[s].count > 0)
    BY DEF GoodSamples, Sample, InUse
  <2> QED BY <2>1
<1> QED BY <1>1, NoQueries

LEMMA SendQueriesStep ==
    ASSUME QueryInv, SendQueries
    PROVE  QueryInv'
<1>1. samplesOut' = samples /\ samples' = NoSamples /\ InUse(samplesOut) = {}
      /\ queryHistory' = [queryHistory EXCEPT !.dropped = 0, !.merged = 0]
  BY DEF SendQueries
<1>2. PICK h : h = queryHistory
  OBVIOUS
<1>3. h \in [recorded : 0 .. MaxQueries, gone : Nat, dropped : {0} \cup QueryTimes, merged : Nat]
  BY <1>2 DEF QueryInv, HistoryOfQueries
<1>4. PICK h1 : h1 = [h EXCEPT !.dropped = 0]
  OBVIOUS
<1>5. PICK h2 : h2 = [h1 EXCEPT !.merged = 0]
  OBVIOUS
<1>6. queryHistory' = h2
  BY <1>1, <1>2, <1>4, <1>5
<1>7. /\ h1 \in [recorded : 0 .. MaxQueries, gone : Nat, dropped : {0} \cup QueryTimes, merged : Nat]
      /\ h1.recorded = h.recorded /\ h1.gone = h.gone /\ h1.dropped = 0
  BY <1>3, <1>4
<1>8. /\ h2 \in [recorded : 0 .. MaxQueries, gone : Nat, dropped : {0} \cup QueryTimes, merged : Nat]
      /\ h2.recorded = h.recorded /\ h2.gone = h.gone /\ h2.dropped = 0 /\ h2.merged = 0
  BY <1>5, <1>7
<1>9. HistoryOfQueries'
  BY <1>6, <1>8 DEF HistoryOfQueries
<1>10. GoodSamples(samples)' /\ GoodSamples(samplesOut)'
  BY <1>1, NoSampleIsGood DEF QueryInv
<1>11. QueriesAddUp'
  <2>1. QueriesIn(samplesOut) = 0
    BY <1>1, UnusedAreEmpty DEF QueryInv
  <2>2. QueriesIn(NoSamples) = 0
    BY NoQueries DEF NoSamples, NoSample
  <2>3. QueriesIn(samples)' = QueriesIn(NoSamples) /\ QueriesIn(samplesOut)' = QueriesIn(samples)
    BY <1>1
  <2>4. h2.recorded = h2.gone + 0 + QueriesIn(samples)
    BY <1>2, <1>8, <2>1, QueryFacts
  <2> QED BY <1>6, <2>2, <2>3, <2>4 DEF QueriesAddUp
<1>12. SlowestAreKept'
  BY <1>1, NoSampleIsGood DEF SlowestAreKept
<1>13. FullOfSlower'
  BY <1>6, <1>8 DEF FullOfSlower
<1> QED BY <1>9, <1>10, <1>11, <1>12, <1>13 DEF QueryInv

LEMMA QueriesSettledStep ==
    ASSUME QueryInv, QueriesSettled
    PROVE  QueryInv'
<1>1. samplesOut' = NoSamples /\ samples' = samples
      /\ queryHistory' = [queryHistory EXCEPT !.gone = @ + QueriesIn(samplesOut)]
  BY DEF QueriesSettled
<1>2. PICK h : h = queryHistory
  OBVIOUS
<1>3. h \in [recorded : 0 .. MaxQueries, gone : Nat, dropped : {0} \cup QueryTimes, merged : Nat]
  BY <1>2 DEF QueryInv, HistoryOfQueries
<1>4. PICK gone \in Nat : gone = h.gone + QueriesIn(samplesOut)
  BY <1>2, QueryFacts
<1>5. PICK h1 : h1 = queryHistory'
  OBVIOUS
<1>6. h1 = [h EXCEPT !.gone = gone]
  BY <1>1, <1>2, <1>4, <1>5
<1>7. /\ h1 \in [recorded : 0 .. MaxQueries, gone : Nat, dropped : {0} \cup QueryTimes, merged : Nat]
      /\ h1.recorded = h.recorded /\ h1.gone = gone /\ h1.dropped = h.dropped /\ h1.merged = h.merged
  BY <1>3, <1>6
<1>8. HistoryOfQueries'
  BY <1>5, <1>7 DEF HistoryOfQueries
<1>9. GoodSamples(samples)' /\ GoodSamples(samplesOut)'
  BY <1>1, NoSampleIsGood DEF QueryInv
<1>10. QueriesAddUp'
  <2>1. QueriesIn(NoSamples) = 0
    BY NoQueries DEF NoSamples, NoSample
  <2>2. QueriesIn(samples)' = QueriesIn(samples) /\ QueriesIn(samplesOut)' = QueriesIn(NoSamples)
    BY <1>1
  <2>3. h1.recorded = h1.gone + QueriesIn(samples) + 0
    BY <1>2, <1>4, <1>7, QueryFacts
  <2> QED BY <1>5, <2>1, <2>2, <2>3 DEF QueriesAddUp
<1>11. SlowestAreKept'
  BY <1>1, <1>2, <1>5, <1>7 DEF QueryInv, SlowestAreKept
<1>12. FullOfSlower'
  BY <1>1, <1>2, <1>5, <1>7 DEF QueryInv, FullOfSlower
<1> QED BY <1>8, <1>9, <1>10, <1>11, <1>12 DEF QueryInv

\* Samples that come back add their queries, and no sample gets faster.
LEMMA SamplesMerge ==
    ASSUME NEW a, GoodSamples(a), NEW b, GoodSamples(b), NEW c, c = [s \in Statements |-> SampleSum(a[s], b[s])]
    PROVE  /\ GoodSamples(c) /\ InUse(c) = InUse(a) \cup InUse(b)
           /\ QueriesIn(c) = QueriesIn(a) + QueriesIn(b)
           /\ \A s \in Statements : a[s].slowest <= c[s].slowest
<1>1. \A s \in Statements : a[s].count \in Nat /\ b[s].count \in Nat
  BY DEF GoodSamples, Sample
<1>2. \A s \in Statements :
          GoodSample(c[s]) /\ c[s].count = a[s].count + b[s].count /\ a[s].slowest <= c[s].slowest
  <2> SUFFICES ASSUME NEW s \in Statements
               PROVE  GoodSample(c[s]) /\ c[s].count = a[s].count + b[s].count /\ a[s].slowest <= c[s].slowest
    OBVIOUS
  <2>1. GoodSample(a[s]) /\ GoodSample(b[s])
    BY DEF GoodSamples
  <2>2. c[s] = SampleSum(a[s], b[s])
    OBVIOUS
  <2>3. PICK q : q = SampleSum(a[s], b[s])
    OBVIOUS
  <2>4. GoodSample(q) /\ q.count = a[s].count + b[s].count /\ a[s].slowest <= q.slowest
    BY <2>1, <2>3, SumIsGood
  <2> QED BY <2>2, <2>3, <2>4
<1>3. GoodSamples(c)
  <2>1. DOMAIN c = Statements /\ c = [s \in Statements |-> c[s]]
    OBVIOUS
  <2>2. \A s \in Statements : c[s] \in Sample
    BY <1>2 DEF GoodSample
  <2>3. c \in [Statements -> Sample]
    BY <2>1, <2>2
  <2> QED BY <1>2, <2>3 DEF GoodSamples
<1>4. QueriesIn(c) = QueriesIn(a) + QueriesIn(b)
  BY <1>1, <1>2, QueriesOfBoth
<1>5. InUse(c) = InUse(a) \cup InUse(b)
  <2>1. \A s \in Statements : c[s].count > 0 <=> (a[s].count > 0 \/ b[s].count > 0)
    BY <1>1, <1>2
  <2> QED BY <2>1 DEF InUse
<1> QED BY <1>2, <1>3, <1>4, <1>5

LEMMA QueriesRetainedStep ==
    ASSUME QueryInv, QueriesRetained
    PROVE  QueryInv'
<1>1. samplesOut' = NoSamples /\ samples' = MergedSamples(samplesOut)
      /\ queryHistory' = [queryHistory EXCEPT !.merged = @ + Cardinality(InUse(samplesOut) \ InUse(samples))]
  BY DEF QueriesRetained
<1>2. PICK h : h = queryHistory
  OBVIOUS
<1>3. h \in [recorded : 0 .. MaxQueries, gone : Nat, dropped : {0} \cup QueryTimes, merged : Nat]
  BY <1>2 DEF QueryInv, HistoryOfQueries
<1>4. PICK New : New = InUse(samplesOut) \ InUse(samples)
  OBVIOUS
<1>5. IsFiniteSet(New) /\ Cardinality(New) \in Nat
  BY <1>4, InUseIsFinite, FS_Subset, FS_CardinalityType
<1>6. PICK merged \in Nat : merged = h.merged + Cardinality(New)
  BY <1>3, <1>5
<1>7. PICK h1 : h1 = queryHistory'
  OBVIOUS
<1>8. h1 = [h EXCEPT !.merged = merged]
  BY <1>1, <1>2, <1>4, <1>6, <1>7
<1>9. /\ h1 \in [recorded : 0 .. MaxQueries, gone : Nat, dropped : {0} \cup QueryTimes, merged : Nat]
      /\ h1.recorded = h.recorded /\ h1.gone = h.gone /\ h1.dropped = h.dropped /\ h1.merged = merged
  BY <1>3, <1>8
<1>10. HistoryOfQueries'
  BY <1>7, <1>9 DEF HistoryOfQueries
<1>11. PICK c : c = MergedSamples(samplesOut)
  OBVIOUS
<1>12. /\ GoodSamples(c) /\ InUse(c) = InUse(samples) \cup InUse(samplesOut)
       /\ QueriesIn(c) = QueriesIn(samples) + QueriesIn(samplesOut)
       /\ \A s \in Statements : samples[s].slowest <= c[s].slowest
  <2>1. GoodSamples(samples) /\ GoodSamples(samplesOut)
    BY DEF QueryInv
  <2>2. c = [s \in Statements |-> SampleSum(samples[s], samplesOut[s])]
    BY <1>11 DEF MergedSamples
  <2> QED BY <2>1, <2>2, SamplesMerge
<1>13. samples' = c
  BY <1>1, <1>11
<1>14. GoodSamples(samples)' /\ GoodSamples(samplesOut)'
  BY <1>1, <1>12, <1>13, NoSampleIsGood
<1>15. QueriesAddUp'
  <2>1. QueriesIn(NoSamples) = 0
    BY NoQueries DEF NoSamples, NoSample
  <2>2. QueriesIn(samples)' = QueriesIn(c) /\ QueriesIn(samplesOut)' = QueriesIn(NoSamples)
    BY <1>1, <1>13
  <2>3. h1.recorded = h1.gone + QueriesIn(c) + 0
    BY <1>2, <1>9, <1>12, QueryFacts
  <2> QED BY <1>7, <2>1, <2>2, <2>3 DEF QueriesAddUp
<1>16. merged = 0 => h.merged = 0 /\ InUse(c) = InUse(samples)
  <2> SUFFICES ASSUME merged = 0 PROVE h.merged = 0 /\ InUse(c) = InUse(samples)
    OBVIOUS
  <2>1. h.merged \in Nat
    BY <1>3
  <2>2. h.merged = 0 /\ Cardinality(New) = 0
    BY <1>5, <1>6, <2>1
  <2>3. New = {}
    BY <1>5, <2>2, FS_EmptySet
  <2> QED BY <1>4, <1>12, <2>2, <2>3
<1>17. SlowestAreKept'
  <2> SUFFICES ASSUME merged = 0, NEW s \in InUse(c) PROVE h.dropped <= c[s].slowest
    BY <1>7, <1>9, <1>13 DEF SlowestAreKept
  <2>1. s \in InUse(samples) /\ s \in Statements /\ queryHistory.merged = 0
    BY <1>2, <1>16 DEF InUse
  <2>2. h.dropped <= samples[s].slowest
    BY <1>2, <2>1 DEF QueryInv, SlowestAreKept
  <2>3. samples[s].slowest <= c[s].slowest /\ samples[s].slowest \in Nat /\ c[s].slowest \in Nat /\ h.dropped \in Nat
    <3>1. c[s].slowest \in Nat
      BY <1>12, <2>1 DEF GoodSamples, Sample
    <3> QED BY <1>2, <1>12, <2>1, <3>1, QueryFacts
  <2> QED BY <2>2, <2>3
<1>18. FullOfSlower'
  <2>1. Cardinality(InUse(samples))' = Cardinality(InUse(c))
    BY <1>13
  <2>2. Serverless => h1.dropped = 0
    BY <1>2, <1>9 DEF QueryInv, FullOfSlower
  <2>3. ASSUME h1.merged = 0, h1.dropped > 0 PROVE Cardinality(InUse(c)) >= MaxSamples
    <3>1. queryHistory.merged = 0 /\ queryHistory.dropped > 0 /\ InUse(c) = InUse(samples)
      BY <1>2, <1>9, <1>16, <2>3
    <3> QED BY <3>1 DEF QueryInv, FullOfSlower
  <2> QED BY <1>7, <2>1, <2>2, <2>3 DEF FullOfSlower
<1> QED BY <1>10, <1>14, <1>15, <1>17, <1>18 DEF QueryInv

LEMMA QueryStep == QueryInv /\ [QueryNext]_queryVars => QueryInv'
<1> SUFFICES ASSUME QueryInv, [QueryNext]_queryVars PROVE QueryInv'
  OBVIOUS
<1>1. ASSUME NEW s \in Statements, NEW d \in QueryTimes, AddQuery(s, d) PROVE QueryInv'
  BY <1>1, AddQueryStep
<1>2. CASE SendQueries
  BY <1>2, SendQueriesStep
<1>3. CASE QueriesSettled
  BY <1>3, QueriesSettledStep
<1>4. CASE QueriesRetained
  BY <1>4, QueriesRetainedStep
<1>5. CASE UNCHANGED queryVars
  <2>1. samples' = samples /\ samplesOut' = samplesOut /\ queryHistory' = queryHistory
    BY <1>5 DEF queryVars
  <2> QED BY <2>1 DEF QueryInv, GoodSamples, HistoryOfQueries, QueriesAddUp, SlowestAreKept, FullOfSlower, InUse, QueriesIn
<1> QED BY <1>1, <1>2, <1>3, <1>4, <1>5 DEF QueryNext

LEMMA QueryInvIsCorrect == QueryInv => SlowQueriesCorrect
<1> SUFFICES ASSUME QueryInv PROVE SlowQueriesCorrect
  OBVIOUS
<1>1. QueryTypeOK
  BY DEF QueryInv, GoodSamples, HistoryOfQueries, QueryTypeOK
<1>2. SamplesAreConsistent
  BY DEF QueryInv, GoodSamples, GoodSample, SamplesAreConsistent
<1> QED BY <1>1, <1>2 DEF QueryInv, SlowQueriesCorrect

\* Every slow query is counted once, whether it is in a sample, in the payload, settled
\* or dropped; the samples agree with their queries, through any number of payloads that
\* come back and are merged; and no statement that was dropped had a slower query than
\* one that was kept (query-trace-aggregator.js, query-sample.js).
THEOREM SlowQueriesAreCorrect == QuerySpec => []SlowQueriesCorrect
<1>1. QuerySpec => []QueryInv
  BY QueryInitial, QueryStep, PTL DEF QuerySpec
<1> QED BY <1>1, QueryInvIsCorrect, PTL

(***************************************************************************)
(* Invocations of a serverless function, any number of them.  A place      *)
(* among the enders is the one of the invocation it will end, and one that *)
(* has not ended is still at its place unless another has cleared it; an   *)
(* exception only waits, once a step is over, that came too late for its   *)
(* own invocation.  All are ended one by one (EndedNext), and the first    *)
(* that is has the exception of the step (FirstAt).                        *)
(***************************************************************************)
\* A state of N invocations, and who is where in it.
InvocationRecord == [ended : BOOLEAN, index : Nat, errors : SUBSET Nat, cold : BOOLEAN, calls : 0..MaxLambdaCalls,
                     answered : BOOLEAN, printed : BOOLEAN]
LambdaStates(N) == [all : [1..N -> InvocationRecord], enders : Seq({Cleaned, Hole} \cup 1..N),
                    uncaught : {Nobody} \cup 1..N, cleared : SUBSET (1..N)]

OwnPlaces(s, N) ==
    /\ Len(s.enders) <= N
    /\ \A i \in 1..N : s.all[i].index \in 1..i
    /\ \A p \in 1..Len(s.enders) : s.enders[p] \in 1..N => s.all[s.enders[p]].index = p
HaveEnders(s, N) ==
    \A i \in 1..N : ~s.all[i].ended /\ i \notin s.cleared => PlaceAt(s, s.all[i].index) = i
InvocationsPlaced(s, N) ==
    /\ OwnPlaces(s, N) /\ HaveEnders(s, N)
    /\ \A i \in 1..N : s.all[i].ended = s.all[i].printed /\ (s.all[i].cold <=> i = 1)
ErrorsAtHome(s, late, N) == \A i \in 1..N : s.all[i].errors \ {i} \subseteq late

\* What ends of invocations leave alone.
OnlyEnds(t, s, N) ==
    /\ \A j \in 1..N : /\ t.all[j].index = s.all[j].index /\ t.all[j].calls = s.all[j].calls
                       /\ t.all[j].answered = s.all[j].answered
                       /\ (s.all[j].ended => t.all[j].ended)
    /\ s.cleared \subseteq t.cleared

\* What the end of one does: nothing, or it is ended at its place with the error that waits.
EndsOne(t, s, i, N) ==
    \/ t = s /\ PlaceAt(s, s.all[i].index) = Cleaned
    \/ /\ PlaceAt(s, s.all[i].index) # Cleaned
       /\ t.all[i].ended /\ t.uncaught = Nobody
       /\ \A j \in 1..N \ {i} : t.all[j] = s.all[j]
       /\ t.all[i].errors \subseteq s.all[i].errors \cup ({s.uncaught} \ {Nobody})
       /\ t.enders = Clear(s, s.all[i].index)

\* A place that is cleared is the only one that changes.
IsClearedAt(e, s, p, N) ==
    /\ e \in Seq({Cleaned, Hole} \cup 1..N)
    /\ Len(e) = IF p > Len(s.enders) THEN p ELSE Len(s.enders)
    /\ \A q \in 1..Len(e) : e[q] = IF q = p THEN Cleaned ELSE PlaceAt(s, q)

LEMMA ClearIsOnePlace ==
    ASSUME NEW N \in Nat, NEW s \in LambdaStates(N), NEW p \in 1..N, Len(s.enders) <= N
    PROVE  IsClearedAt(Clear(s, p), s, p, N)
<1>1. PICK e : e = s.enders
  OBVIOUS
<1>2. e \in Seq({Cleaned, Hole} \cup 1..N)
  BY <1>1 DEF LambdaStates
<1>3. PICK n \in Nat : n = Len(e)
  BY <1>2, LenProperties
<1>4. PICK m \in Nat : m = IF p > n THEN p ELSE n
  OBVIOUS
<1>5. \A q \in 1..n : e[q] \in {Cleaned, Hole} \cup 1..N
  BY <1>2, <1>3, ElementOfSeq
<1>6. DOMAIN e = 1..n
  BY <1>2, <1>3, LenProperties
<1>7. \A q \in 1..m : PlaceAt(s, q) \in {Cleaned, Hole} \cup 1..N
  BY <1>1, <1>5, <1>6 DEF PlaceAt
<1>8. PICK c : c = [q \in 1..m |-> IF q = p THEN Cleaned ELSE PlaceAt(s, q)]
  OBVIOUS
<1>9. Clear(s, p) = c
  BY <1>1, <1>3, <1>4, <1>8, Zenon DEF Clear
<1>10. \A q \in 1..m : c[q] = (IF q = p THEN Cleaned ELSE PlaceAt(s, q)) /\ c[q] \in {Cleaned, Hole} \cup 1..N
  BY <1>7, <1>8
<1>11. c \in [1..m -> {Cleaned, Hole} \cup 1..N]
  BY <1>8, <1>10
<1>12. c \in Seq({Cleaned, Hole} \cup 1..N)
  BY <1>11, SeqDef
<1>13. Len(c) = m
  BY <1>11, <1>12, LenProperties
<1> QED BY <1>1, <1>3, <1>4, <1>9, <1>10, <1>12, <1>13 DEF IsClearedAt

\* So is an error that is added to an invocation the only thing that changes.
GivenError(b, all, i, error, N) ==
    /\ b \in [1..N -> InvocationRecord]
    /\ \A j \in 1..N \ {i} : b[j] = all[j]
    /\ \E u \in SUBSET Nat : /\ b[i] = [all[i] EXCEPT !.errors = u]
                             /\ u \subseteq all[i].errors \cup ({error} \ {Nobody})

LEMMA AddedError ==
    ASSUME NEW N \in Nat, NEW all \in [1..N -> InvocationRecord], NEW i \in 1..N, NEW error \in {Nobody} \cup 1..N
    PROVE  GivenError(AddError(all, i, error), all, i, error, N)
<1>1. PICK b : b = AddError(all, i, error)
  OBVIOUS
<1>2. all[i] \in InvocationRecord
  OBVIOUS
<1>3. CASE b = all
  <2>1. PICK u : u = all[i].errors
    OBVIOUS
  <2>2. u \in SUBSET Nat
    BY <1>2, <2>1 DEF InvocationRecord
  <2>3. all[i] = [all[i] EXCEPT !.errors = u]
    BY <1>2, <2>1 DEF InvocationRecord
  <2> QED BY <1>1, <1>3, <2>1, <2>2, <2>3 DEF GivenError
<1>4. CASE error # Nobody /\ b = [all EXCEPT ![i].errors = @ \cup {error}]
  <2>1. PICK u : u = all[i].errors \cup {error}
    OBVIOUS
  <2>2. error \in Nat
    BY <1>4
  <2>3. u \in SUBSET Nat
    BY <1>2, <2>1, <2>2 DEF InvocationRecord
  <2>4. PICK r : r = [all[i] EXCEPT !.errors = u]
    OBVIOUS
  <2>5. r \in InvocationRecord
    BY <1>2, <2>3, <2>4 DEF InvocationRecord
  <2>6. b = [all EXCEPT ![i] = r]
    BY <1>4, <2>1, <2>4
  <2>7. b \in [1..N -> InvocationRecord] /\ b[i] = r /\ \A j \in 1..N \ {i} : b[j] = all[j]
    BY <2>5, <2>6
  <2> QED BY <1>1, <1>4, <2>1, <2>3, <2>4, <2>7 DEF GivenError
<1> QED BY <1>1, <1>3, <1>4 DEF AddError

\* The end of an invocation.
LEMMA EndedOne ==
    ASSUME NEW N \in Nat, NEW s \in LambdaStates(N), InvocationsPlaced(s, N), NEW i \in 1..N,
           NEW t, t = EndInvocation(s, i)
    PROVE  t \in LambdaStates(N) /\ InvocationsPlaced(t, N) /\ EndsOne(t, s, i, N) /\ OnlyEnds(t, s, N)
<1>1. PICK p \in 1..N : p = s.all[i].index /\ p \in 1..i
  BY DEF InvocationsPlaced, OwnPlaces
<1>2. CASE PlaceAt(s, p) = Cleaned
  <2>1. t = s
    BY <1>1, <1>2, Zenon DEF EndInvocation
  <2> QED BY <1>1, <1>2, <2>1 DEF EndsOne, OnlyEnds
<1>3. CASE PlaceAt(s, p) # Cleaned
  <2>1. PICK b : b = AddError(s.all, i, s.uncaught)
    OBVIOUS
  <2>2. s.all \in [1..N -> InvocationRecord] /\ s.uncaught \in {Nobody} \cup 1..N
    BY DEF LambdaStates
  <2>3. GivenError(b, s.all, i, s.uncaught, N)
    BY <2>1, <2>2, AddedError
  <2>4. PICK u \in SUBSET Nat : /\ b[i] = [s.all[i] EXCEPT !.errors = u]
                                /\ u \subseteq s.all[i].errors \cup ({s.uncaught} \ {Nobody})
    BY <2>3 DEF GivenError
  <2>5. PICK c : c = [b EXCEPT ![i].ended = TRUE]
    OBVIOUS
  <2>6. PICK d : d = [c EXCEPT ![i].printed = TRUE]
    OBVIOUS
  <2>7. PICK e : e = Clear(s, p)
    OBVIOUS
  <2>8. PICK x : x = s.cleared \cup ({PlaceAt(s, p)} \ {i, Hole})
    OBVIOUS
  <2>9. t = [all |-> d, enders |-> e, uncaught |-> Nobody, cleared |-> x]
    BY <1>1, <1>3, <2>1, <2>5, <2>6, <2>7, <2>8, Zenon DEF EndInvocation
  <2>10. s.all[i] \in InvocationRecord
    BY <2>2
  <2>11. PICK q \in InvocationRecord : q = b[i]
    BY <2>3 DEF GivenError
  <2>12. /\ q.errors = u /\ q.index = s.all[i].index /\ q.calls = s.all[i].calls /\ q.answered = s.all[i].answered
         /\ q.cold = s.all[i].cold
    BY <2>4, <2>10, <2>11 DEF InvocationRecord
  <2>13. PICK r : r = [[q EXCEPT !.ended = TRUE] EXCEPT !.printed = TRUE]
    OBVIOUS
  <2>14. /\ r \in InvocationRecord /\ r.ended = TRUE /\ r.printed = TRUE /\ r.errors = u /\ r.index = p
         /\ r.calls = s.all[i].calls /\ r.answered = s.all[i].answered /\ r.cold = s.all[i].cold
    BY <1>1, <2>11, <2>12, <2>13 DEF InvocationRecord
  <2>15. c = [b EXCEPT ![i] = [q EXCEPT !.ended = TRUE]]
    BY <2>5, <2>11
  <2>16. d = [b EXCEPT ![i] = r]
    <3>1. d = [c EXCEPT ![i] = [c[i] EXCEPT !.printed = TRUE]]
      BY <2>6
    <3>2. c[i] = [q EXCEPT !.ended = TRUE]
      BY <2>3, <2>15 DEF GivenError
    <3> QED BY <3>1, <3>2, <2>3, <2>13, <2>15 DEF GivenError
  <2>17. d \in [1..N -> InvocationRecord] /\ d[i] = r /\ \A j \in 1..N \ {i} : d[j] = s.all[j]
    BY <2>3, <2>14, <2>16 DEF GivenError
  <2>18. Len(s.enders) <= N
    BY DEF InvocationsPlaced, OwnPlaces
  <2>19. /\ e \in Seq({Cleaned, Hole} \cup 1..N)
         /\ Len(e) = IF p > Len(s.enders) THEN p ELSE Len(s.enders)
         /\ \A k \in 1..Len(e) : e[k] = IF k = p THEN Cleaned ELSE PlaceAt(s, k)
    BY <2>7, <2>18, ClearIsOnePlace DEF IsClearedAt
  <2>20. PICK n \in Nat : n = Len(s.enders) /\ n <= N /\ DOMAIN s.enders = 1..n
    <3> s.enders \in Seq({Cleaned, Hole} \cup 1..N)
      BY DEF LambdaStates
    <3> QED BY <2>18, LenProperties
  <2>21. PICK m \in Nat : m = Len(e) /\ m = (IF p > n THEN p ELSE n) /\ DOMAIN e = 1..m
    BY <2>19, <2>20, LenProperties
  <2>22. PlaceAt(s, p) \in {Cleaned, Hole} \cup 1..N
    <3> s.enders \in Seq({Cleaned, Hole} \cup 1..N)
      BY DEF LambdaStates
    <3> QED BY <2>20, ElementOfSeq DEF PlaceAt
  <2>23. x \in SUBSET (1..N) /\ s.cleared \subseteq x
    <3> s.cleared \in SUBSET (1..N)
      BY DEF LambdaStates
    <3> QED BY <1>3, <2>8, <2>22
  <2>24. t \in LambdaStates(N)
    BY <2>9, <2>17, <2>19, <2>23 DEF LambdaStates
  <2>25. t.all = d /\ t.enders = e /\ t.uncaught = Nobody /\ t.cleared = x
    BY <2>9
  <2>26. PlaceAt(t, p) = Cleaned /\ \A k \in 1..N : k # p => PlaceAt(t, k) = PlaceAt(s, k)
    <3>1. p \in 1..m
      BY <2>21
    <3>2. ASSUME NEW k \in 1..N, k # p PROVE PlaceAt(t, k) = PlaceAt(s, k)
      <4>1. CASE k \in 1..m
        BY <4>1, <3>2, <2>19, <2>21, <2>25 DEF PlaceAt
      <4>2. CASE k \notin 1..m
        <5>1. k \notin 1..n
          BY <4>2, <2>21
        <5> QED BY <5>1, <4>2, <2>20, <2>21, <2>25 DEF PlaceAt
      <4> QED BY <4>1, <4>2
    <3>3. PlaceAt(t, p) = Cleaned
      BY <3>1, <2>19, <2>21, <2>25 DEF PlaceAt
    <3> QED BY <3>2, <3>3
  <2>27. \A j \in 1..N : d[j].index = s.all[j].index
    BY <1>1, <2>14, <2>17
  <2>28. OwnPlaces(t, N)
    <3>1. ASSUME NEW k \in 1..m, e[k] \in 1..N PROVE d[e[k]].index = k
      <4>1. k # p
        BY <3>1, <2>19, <2>21 DEF Cleaned
      <4>2. PlaceAt(s, k) \in 1..N
        BY <3>1, <4>1, <2>19, <2>21
      <4>3. k \in 1..n /\ e[k] = s.enders[k]
        BY <3>1, <4>1, <4>2, <2>19, <2>20, <2>21 DEF PlaceAt, Hole
      <4> QED BY <3>1, <4>3, <2>20, <2>27 DEF InvocationsPlaced, OwnPlaces
    <3>2. m <= N
      BY <2>20, <2>21
    <3>3. \A j \in 1..N : d[j].index \in 1..j
      BY <2>27 DEF InvocationsPlaced, OwnPlaces
    <3> QED BY <3>1, <3>2, <3>3, <2>21, <2>25 DEF OwnPlaces
  <2>29. HaveEnders(t, N)
    <3> SUFFICES ASSUME NEW j \in 1..N, ~d[j].ended, j \notin x PROVE PlaceAt(t, d[j].index) = j
      BY <2>25 DEF HaveEnders
    <3>1. j # i
      BY <2>14, <2>17
    <3>2. d[j] = s.all[j] /\ j \notin s.cleared
      BY <3>1, <2>17, <2>23
    <3>3. PlaceAt(s, s.all[j].index) = j
      BY <3>2 DEF InvocationsPlaced, HaveEnders
    <3>4. s.all[j].index # p
      BY <3>1, <3>3, <2>8 DEF Hole
    <3>5. s.all[j].index \in 1..N
      BY DEF InvocationsPlaced, OwnPlaces
    <3> QED BY <3>2, <3>3, <3>4, <3>5, <2>26
  <2>30. InvocationsPlaced(t, N)
    <3> ASSUME NEW j \in 1..N PROVE d[j].ended = d[j].printed /\ (d[j].cold <=> j = 1)
      BY <2>14, <2>17 DEF InvocationsPlaced
    <3> QED BY <2>25, <2>28, <2>29 DEF InvocationsPlaced
  <2>31. OnlyEnds(t, s, N)
    BY <2>14, <2>17, <2>23, <2>25, <2>27 DEF OnlyEnds
  <2>32. EndsOne(t, s, i, N)
    <3>1. t.all[i].ended /\ t.all[i].errors \subseteq s.all[i].errors \cup ({s.uncaught} \ {Nobody})
      BY <2>4, <2>14, <2>17, <2>25
    <3>2. t.enders = Clear(s, s.all[i].index)
      BY <1>1, <2>7, <2>25
    <3> QED BY <1>1, <1>3, <3>1, <3>2, <2>17, <2>25, Zenon DEF EndsOne
  <2> QED BY <2>24, <2>30, <2>31, <2>32
<1> QED BY <1>2, <1>3

\* The invocation that is ended first.
FirstAt(e, u) ==
    \E p \in 1..Len(e) : e[p] = u /\ \A q \in 1..Len(e) : e[q] \notin {Cleaned, Hole} => p <= q

\* After the first k enders: their places are clear, those of the others as they were, and an
\* error that waits still does only while no invocation has been ended.
EndedSoFar(x, s, late, N, k) ==
    /\ x \in LambdaStates(N) /\ InvocationsPlaced(x, N) /\ OnlyEnds(x, s, N)
    /\ Len(x.enders) = Len(s.enders)
    /\ \A q \in 1..Len(s.enders) :
          IF q <= k THEN x.enders[q] \in {Cleaned, Hole} ELSE x.enders[q] = s.enders[q]
    /\ ErrorsAtHome(x, late, N)
    /\ \/ x.uncaught \in {Nobody} \cup late
       \/ /\ FirstAt(s.enders, x.uncaught)
          /\ \A q \in 1..k : s.enders[q] \in {Cleaned, Hole}

AfterEnder(x, s, k) == IF s.enders[k] \in {Cleaned, Hole} THEN x ELSE EndInvocation(x, s.enders[k])

\* One ender more.
LEMMA EndedNext ==
    ASSUME NEW N \in Nat, NEW s \in LambdaStates(N), NEW late, NEW k \in 1..Len(s.enders), InvocationsPlaced(s, N),
           NEW x, EndedSoFar(x, s, late, N, k - 1), NEW y, y = AfterEnder(x, s, k)
    PROVE  EndedSoFar(y, s, late, N, k)
<1>1. PICK n \in Nat : n = Len(s.enders) /\ n <= N /\ k \in 1..n
  <2> s.enders \in Seq({Cleaned, Hole} \cup 1..N)
    BY DEF LambdaStates
  <2> QED BY LenProperties DEF InvocationsPlaced, OwnPlaces
<1>2. s.enders[k] \in {Cleaned, Hole} \cup 1..N
  <2> s.enders \in Seq({Cleaned, Hole} \cup 1..N)
    BY DEF LambdaStates
  <2> QED BY <1>1, ElementOfSeq
<1>3. x.enders[k] = s.enders[k]
  <2>1. k \in 1..Len(s.enders) /\ ~(k <= k - 1)
    BY <1>1
  <2> QED BY <2>1 DEF EndedSoFar
<1>4. \A q \in 1..k : q = k \/ q \in 1..(k - 1)
  OBVIOUS
<1>5. CASE s.enders[k] \in {Cleaned, Hole}
  <2>1. y = x
    BY <1>5 DEF AfterEnder
  <2>2. ASSUME NEW q \in 1..n
        PROVE  IF q <= k THEN x.enders[q] \in {Cleaned, Hole} ELSE x.enders[q] = s.enders[q]
    <3>1. IF q <= k - 1 THEN x.enders[q] \in {Cleaned, Hole} ELSE x.enders[q] = s.enders[q]
      BY <1>1 DEF EndedSoFar
    <3>2. q = k \/ q <= k - 1 \/ ~(q <= k)
      BY <1>1
    <3>3. ~(q <= k) => ~(q <= k - 1)
      BY <1>1
    <3>4. q = k => x.enders[q] \in {Cleaned, Hole} /\ q <= k
      BY <1>3, <1>5
    <3>5. q <= k - 1 => q <= k
      BY <1>1
    <3> QED BY <3>1, <3>2, <3>3, <3>4, <3>5
  <2>3. \/ x.uncaught \in {Nobody} \cup late
        \/ /\ FirstAt(s.enders, x.uncaught)
           /\ \A q \in 1..k : s.enders[q] \in {Cleaned, Hole}
    BY <1>4, <1>5 DEF EndedSoFar
  <2> QED BY <2>1, <2>2, <2>3, <1>1 DEF EndedSoFar
<1>6. CASE s.enders[k] \in 1..N
  <2>1. PICK i \in 1..N : i = s.enders[k] /\ x.enders[k] = i
    BY <1>3, <1>6
  <2>2. i \notin {Cleaned, Hole}
    BY DEF Cleaned, Hole
  <2>3. y = EndInvocation(x, i)
    BY <2>1, <2>2 DEF AfterEnder
  <2>4. x \in LambdaStates(N) /\ InvocationsPlaced(x, N) /\ OnlyEnds(x, s, N) /\ Len(x.enders) = n
    BY <1>1 DEF EndedSoFar
  <2>5. y \in LambdaStates(N) /\ InvocationsPlaced(y, N) /\ EndsOne(y, x, i, N) /\ OnlyEnds(y, x, N)
    BY <2>3, <2>4, EndedOne
  <2>6. x.all[i].index = k
    BY <1>1, <2>1, <2>4 DEF InvocationsPlaced, OwnPlaces
  <2>7. DOMAIN x.enders = 1..n
    <3> x.enders \in Seq({Cleaned, Hole} \cup 1..N)
      BY <2>4 DEF LambdaStates
    <3> QED BY <2>4, LenProperties
  <2>8. PlaceAt(x, k) = i
    BY <1>1, <2>1, <2>7 DEF PlaceAt
  <2>9. /\ y.all[i].ended /\ y.uncaught = Nobody
        /\ \A j \in 1..N \ {i} : y.all[j] = x.all[j]
        /\ y.all[i].errors \subseteq x.all[i].errors \cup ({x.uncaught} \ {Nobody})
        /\ y.enders = Clear(x, k)
    BY <2>2, <2>5, <2>6, <2>8 DEF EndsOne
  <2>10. k \in 1..N
    BY <1>1
  <2>11. Len(x.enders) <= N
    BY <1>1, <2>4
  <2>12. /\ Len(y.enders) = IF k > Len(x.enders) THEN k ELSE Len(x.enders)
         /\ \A q \in 1..Len(y.enders) : y.enders[q] = IF q = k THEN Cleaned ELSE PlaceAt(x, q)
    <3> IsClearedAt(y.enders, x, k, N)
      BY <2>4, <2>9, <2>10, <2>11, ClearIsOnePlace
    <3> QED BY DEF IsClearedAt
  <2>13. Len(y.enders) = n
    BY <1>1, <2>4, <2>12
  <2>14. \A q \in 1..n : y.enders[q] = IF q = k THEN Cleaned ELSE x.enders[q]
    BY <2>7, <2>12, <2>13 DEF PlaceAt
  <2>15. OnlyEnds(y, s, N)
    BY <2>4, <2>5 DEF OnlyEnds
  <2>16. ASSUME NEW q \in 1..n
         PROVE  IF q <= k THEN y.enders[q] \in {Cleaned, Hole} ELSE y.enders[q] = s.enders[q]
    <3>1. IF q <= k - 1 THEN x.enders[q] \in {Cleaned, Hole} ELSE x.enders[q] = s.enders[q]
      BY <1>1 DEF EndedSoFar
    <3>2. CASE q = k
      BY <1>1, <3>2, <2>14
    <3>3. CASE q # k
      <4>1. y.enders[q] = x.enders[q]
        BY <3>3, <2>14
      <4>2. (q <= k) <=> (q <= k - 1)
        BY <1>1, <3>3
      <4> QED BY <3>1, <4>1, <4>2
    <3> QED BY <3>2, <3>3
  <2>17. x.uncaught \in {Nobody} \cup late \cup {i}
    <3>1. CASE x.uncaught \in {Nobody} \cup late
      BY <3>1
    <3>2. CASE FirstAt(s.enders, x.uncaught) /\ \A q \in 1..(k - 1) : s.enders[q] \in {Cleaned, Hole}
      <4>1. PICK p \in 1..n : s.enders[p] = x.uncaught /\ \A q \in 1..n : s.enders[q] \notin {Cleaned, Hole} => p <= q
        BY <1>1, <3>2 DEF FirstAt
      <4>2. p <= k
        BY <1>1, <2>1, <2>2, <4>1
      <4>3. CASE p = k
        BY <4>1, <4>3, <2>1
      <4>4. CASE p # k
        <5>1. p \in 1..(k - 1)
          BY <4>2, <4>4, <1>1
        <5>2. x.uncaught \in {Cleaned, Hole}
          BY <5>1, <4>1, <3>2
        <5>3. x.uncaught \in {Nobody} \cup 1..N
          BY <2>4 DEF LambdaStates
        <5> QED BY <5>2, <5>3 DEF Cleaned, Hole, Nobody
      <4> QED BY <4>3, <4>4
    <3> QED BY <3>1, <3>2 DEF EndedSoFar
  <2>18. ErrorsAtHome(y, late, N)
    <3> SUFFICES ASSUME NEW j \in 1..N PROVE y.all[j].errors \ {j} \subseteq late
      BY DEF ErrorsAtHome
    <3>1. x.all[j].errors \ {j} \subseteq late
      BY DEF EndedSoFar, ErrorsAtHome
    <3>2. CASE j # i
      BY <3>1, <3>2, <2>9
    <3>3. CASE j = i
      BY <3>1, <3>3, <2>9, <2>17
    <3> QED BY <3>2, <3>3
  <2> QED BY <2>5, <2>9, <2>13, <2>15, <2>16, <2>18, <1>1 DEF EndedSoFar
<1> QED BY <1>2, <1>5, <1>6

\* The end of all that are left.
AllAreEnded(t, s, late, N) ==
    /\ t \in LambdaStates(N) /\ InvocationsPlaced(t, N) /\ OnlyEnds(t, s, N) /\ ErrorsAtHome(t, late, N)
    /\ t.uncaught \in {Nobody} \cup late
    /\ \A i \in 1..N : t.all[i].ended \/ i \in t.cleared

LEMMA EndedAll ==
    ASSUME NEW N \in Nat, NEW s \in LambdaStates(N), InvocationsPlaced(s, N), NEW late, ErrorsAtHome(s, late, N),
           s.uncaught \in {Nobody} \cup late \/ FirstAt(s.enders, s.uncaught)
    PROVE  AllAreEnded(EndAll(s), s, late, N)
<1>1. PICK n \in Nat : n = Len(s.enders) /\ n <= N
  <2> s.enders \in Seq({Cleaned, Hole} \cup 1..N)
    BY DEF LambdaStates
  <2> QED BY LenProperties DEF InvocationsPlaced, OwnPlaces
<1>2. PICK B : B = {x \in LambdaStates(N) : InvocationsPlaced(x, N)}
  OBVIOUS
<1>3. ASSUME NEW x \in B, NEW k \in 1..n PROVE AfterEnder(x, s, k) \in B
  <2>1. s.enders[k] \in {Cleaned, Hole} \cup 1..N
    <3> s.enders \in Seq({Cleaned, Hole} \cup 1..N)
      BY DEF LambdaStates
    <3> QED BY <1>1, ElementOfSeq
  <2>2. x \in LambdaStates(N) /\ InvocationsPlaced(x, N)
    BY <1>2
  <2>3. CASE s.enders[k] \in {Cleaned, Hole}
    BY <2>3 DEF AfterEnder
  <2>4. CASE s.enders[k] \notin {Cleaned, Hole}
    <3>1. PICK i \in 1..N : i = s.enders[k]
      BY <2>1, <2>4
    <3>2. PICK y : y = EndInvocation(x, i)
      OBVIOUS
    <3>3. y \in B
      BY <3>2, <2>2, <1>2, EndedOne
    <3> QED BY <2>4, <3>1, <3>2, <3>3 DEF AfterEnder
  <2> QED BY <2>3, <2>4
<1>4. PICK F : F = [p \in B \X (1..n) |-> AfterEnder(p[1], s, p[2])]
  OBVIOUS
<1>5. F \in [B \X (1..n) -> B]
  BY <1>3, <1>4
<1>6. s \in B
  BY <1>2
<1>7. RunsOf(B, n, F, s) # {}
  BY <1>5, <1>6, Repeated
<1>8. PICK g \in [0..n -> B] : g[0] = s /\ \A k \in 1..n : g[k] = F[<<g[k - 1], k>>]
  BY <1>7 DEF RunsOf
<1>9. ASSUME NEW k \in 1..n PROVE g[k] = AfterEnder(g[k - 1], s, k)
  <2> k - 1 \in 0..n
    OBVIOUS
  <2>1. <<g[k - 1], k>> \in B \X (1..n)
    BY <1>8, Zenon
  <2> QED BY <2>1, <1>4, <1>8
<1> DEFINE next(m, p) == IF p = 0 THEN s
                         ELSE IF s.enders[p] \in {Cleaned, Hole} THEN m[p - 1]
                         ELSE EndInvocation(m[p - 1], s.enders[p])
<1>10. g = [p \in 0..Len(s.enders) |-> next(g, p)]
  <2>1. PICK h : h = [p \in 0..n |-> next(g, p)]
    OBVIOUS
  <2>2. ASSUME NEW k \in 0..n PROVE g[k] = next(g, k)
    <3>1. CASE k = 0
      BY <3>1, <1>8
    <3>2. CASE k # 0
      <4>1. k \in 1..n
        BY <3>2
      <4>2. g[k] = AfterEnder(g[k - 1], s, k)
        BY <4>1, <1>9
      <4> QED BY <4>2, <3>2, Zenon DEF AfterEnder
    <3> QED BY <3>1, <3>2
  <2> HIDE DEF next
  <2>3. g = h
    BY <2>1, <2>2, <1>8
  <2> QED BY <2>1, <2>3, <1>1
<1>11. PICK m : m = CHOOSE mm : mm = [p \in 0..Len(s.enders) |-> next(mm, p)]
  OBVIOUS
<1>12. m = [p \in 0..Len(s.enders) |-> next(m, p)]
  <2> HIDE DEF next
  <2> QED BY <1>10, <1>11
<1>13. EndAll(s) = [m[n] EXCEPT !.enders = <<>>]
  BY <1>1, <1>11, Zenon DEF EndAll
<1>14. m[0] = s /\ \A k \in 1..n : m[k] = AfterEnder(m[k - 1], s, k)
  <2>1. 0 \in 0..n /\ \A k \in 1..n : k \in 0..n /\ k # 0
    OBVIOUS
  <2>2. \A k \in 0..n : m[k] = next(m, k)
    <3> HIDE DEF next
    <3> QED BY <1>1, <1>12
  <2> QED BY <2>1, <2>2, Zenon DEF AfterEnder
<1> HIDE DEF next
<1>15. PICK J : J = {k \in 0..n : EndedSoFar(m[k], s, late, N, k)}
  OBVIOUS
<1>16. 0 \in J
  <2>1. EndedSoFar(s, s, late, N, 0)
    <3>1. OnlyEnds(s, s, N)
      BY DEF OnlyEnds
    <3>2. ASSUME NEW q \in 1..n PROVE ~(q <= 0)
      OBVIOUS
    <3>3. \A q \in 1..0 : s.enders[q] \in {Cleaned, Hole}
      OBVIOUS
    <3> QED BY <3>1, <3>2, <3>3, <1>1 DEF EndedSoFar
  <2> QED BY <2>1, <1>14, <1>15
<1>17. ASSUME NEW k \in 1..n, k - 1 \in J PROVE k \in J
  <2>1. PICK x : x = m[k - 1] /\ EndedSoFar(x, s, late, N, k - 1)
    BY <1>15, <1>17
  <2>2. PICK y : y = m[k] /\ y = AfterEnder(x, s, k)
    BY <2>1, <1>14
  <2>3. EndedSoFar(y, s, late, N, k)
    BY <2>1, <2>2, <1>1, EndedNext
  <2>4. k \in 0..n
    OBVIOUS
  <2> QED BY <2>2, <2>3, <2>4, <1>15
<1>18. n \in J
  <2> Climbs(J, n)
    BY <1>16, <1>17 DEF Climbs
  <2> QED BY StepByStep
<1>19. PICK z : z = m[n] /\ EndedSoFar(z, s, late, N, n)
  BY <1>15, <1>18
<1>20. z \in LambdaStates(N) /\ InvocationsPlaced(z, N) /\ OnlyEnds(z, s, N) /\ Len(z.enders) = n /\ ErrorsAtHome(z, late, N)
  BY <1>1, <1>19 DEF EndedSoFar
<1>21. \A q \in 1..n : z.enders[q] \in {Cleaned, Hole}
  <2>1. \A q \in 1..n : q <= n
    OBVIOUS
  <2> QED BY <2>1, <1>1, <1>19 DEF EndedSoFar
<1>22. z.uncaught \in {Nobody} \cup late
  <2>1. CASE FirstAt(s.enders, z.uncaught) /\ \A q \in 1..n : s.enders[q] \in {Cleaned, Hole}
    <3>1. z.uncaught \in {Cleaned, Hole}
      BY <2>1, <1>1 DEF FirstAt
    <3>2. z.uncaught \in {Nobody} \cup 1..N
      BY <1>20 DEF LambdaStates
    <3> QED BY <3>1, <3>2 DEF Cleaned, Hole, Nobody
  <2> QED BY <2>1, <1>19 DEF EndedSoFar
<1>23. ASSUME NEW i \in 1..N, ~z.all[i].ended, i \notin z.cleared PROVE FALSE
  <2>1. PlaceAt(z, z.all[i].index) = i
    BY <1>20, <1>23 DEF InvocationsPlaced, HaveEnders
  <2>2. DOMAIN z.enders = 1..n
    <3> z.enders \in Seq({Cleaned, Hole} \cup 1..N)
      BY <1>20 DEF LambdaStates
    <3> QED BY <1>20, LenProperties
  <2>3. i \in {Cleaned, Hole}
    BY <2>1, <2>2, <1>21 DEF PlaceAt
  <2> QED BY <2>3 DEF Cleaned, Hole
<1>24. PICK t : t = EndAll(s) /\ t = [z EXCEPT !.enders = <<>>]
  BY <1>13, <1>19
<1>25. t.all = z.all /\ t.uncaught = z.uncaught /\ t.cleared = z.cleared /\ t.enders = <<>>
  BY <1>20, <1>24 DEF LambdaStates
<1>26. <<>> \in Seq({Cleaned, Hole} \cup 1..N) /\ Len(<<>>) = 0 /\ DOMAIN <<>> = 1..0
  BY EmptySeq, LenProperties
<1>27. t \in LambdaStates(N)
  BY <1>20, <1>24, <1>26 DEF LambdaStates
<1>28. InvocationsPlaced(t, N)
  <2>1. OwnPlaces(t, N)
    <3> HIDE <1>24
    <3> QED BY <1>20, <1>25, <1>26 DEF InvocationsPlaced, OwnPlaces
  <2>2. HaveEnders(t, N)
    BY <1>23, <1>25 DEF HaveEnders
  <2> QED BY <2>1, <2>2, <1>20, <1>25 DEF InvocationsPlaced
<1>29. OnlyEnds(t, s, N) /\ ErrorsAtHome(t, late, N)
  BY <1>20, <1>25 DEF OnlyEnds, ErrorsAtHome
<1> QED BY <1>22, <1>23, <1>24, <1>25, <1>27, <1>28, <1>29 DEF AllAreEnded

\* Between the steps: an error only waits that comes too late for its invocation, and what
\* has been answered has ended.
LambdaParts(s, late, turn, N) ==
    /\ N \in 0..MaxInvocations /\ s \in LambdaStates(N) /\ InvocationsPlaced(s, N) /\ ErrorsAtHome(s, late, N)
    /\ late \subseteq 1..N /\ s.uncaught \in {Nobody} \cup late /\ turn \in {Nobody} \cup 1..N
    /\ \A i \in 1..N : s.all[i].answered => s.all[i].ended \/ i \in s.cleared

LambdaInv ==
    /\ invocations \in Seq(InvocationRecord) /\ outside \in [cleared : SUBSET Nat, late : SUBSET Nat]
    /\ LambdaParts(Lambda, outside.late, serving, Len(invocations))

\* The next state has the invariant if its values have the parts of it.
LEMMA PartsOfLambda ==
    ASSUME NEW s, NEW late, NEW turn, NEW N, LambdaParts(s, late, turn, N), Becomes(s, late), serving' = turn
    PROVE  LambdaInv'
<1>1. N \in Nat /\ s \in LambdaStates(N)
  BY LambdaAssumption DEF LambdaParts
<1>2. PICK all \in [1..N -> InvocationRecord] : all = s.all
  BY <1>1 DEF LambdaStates
<1>3. all \in Seq(InvocationRecord) /\ Len(all) = N
  BY <1>1, <1>2, SeqDef, LenProperties
<1>4. PICK e : e = s.enders
  OBVIOUS
<1>5. PICK u : u = s.uncaught
  OBVIOUS
<1>6. PICK c : c = s.cleared
  OBVIOUS
<1>7. s = [all |-> all, enders |-> e, uncaught |-> u, cleared |-> c]
  BY <1>1, <1>2, <1>4, <1>5, <1>6 DEF LambdaStates
<1>8. invocations' = all /\ enders' = e /\ uncaught' = u /\ outside' = [cleared |-> c, late |-> late]
  BY <1>2, <1>4, <1>5, <1>6 DEF Becomes
<1>9. [all |-> invocations', enders |-> enders', uncaught |-> uncaught', cleared |-> outside'.cleared] = s
  BY <1>7, <1>8
<1>10. Len(invocations') = N /\ outside'.late = late /\ invocations' \in Seq(InvocationRecord)
  BY <1>3, <1>8
<1>11. outside' \in [cleared : SUBSET Nat, late : SUBSET Nat]
  <2>1. c \in SUBSET Nat /\ late \in SUBSET Nat
    BY <1>1, <1>6 DEF LambdaParts, LambdaStates
  <2> QED BY <2>1, <1>8
<1>12. LambdaParts(s, late, turn, N)
  OBVIOUS
<1> QED BY <1>9, <1>10, <1>11, <1>12 DEF LambdaInv, Lambda

\* The state there is.
LEMMA LambdaNow ==
    ASSUME LambdaInv
    PROVE  \E N \in 0..MaxInvocations :
              /\ N = Len(invocations) /\ invocations \in [1..N -> InvocationRecord] /\ Invocations = 1..N
              /\ Lambda \in LambdaStates(N) /\ LambdaParts(Lambda, outside.late, serving, N)
<1>1. invocations \in Seq(InvocationRecord)
  BY DEF LambdaInv
<1>2. PICK N : N = Len(invocations) /\ N \in 0..MaxInvocations
  BY DEF LambdaInv, LambdaParts
<1>3. invocations \in [1..N -> InvocationRecord] /\ DOMAIN invocations = 1..N
  BY <1>1, <1>2, LenProperties
<1> QED BY <1>2, <1>3 DEF LambdaInv, LambdaParts, Invocations

\* An invocation's code has called: until it is ended, only the answer has been given.
HasCalled(s, N, i) ==
    /\ s \in LambdaStates(N) /\ InvocationsPlaced(s, N)
    /\ \A j \in 1..N \ {i} : s.all[j].answered => s.all[j].ended \/ j \in s.cleared

\* The state the code of an invocation ends things in.
LEMMA CalledAll ==
    ASSUME LambdaInv, NEW N, N = Len(invocations), NEW i \in 1..N, MayCall(i),
           NEW u \in {Nobody} \cup 1..N, NEW s, s = [all |-> InvocationCalled(i), enders |-> enders,
                                                   uncaught |-> u, cleared |-> outside.cleared]
    PROVE  HasCalled(s, N, i) /\ ErrorsAtHome(s, outside.late, N) /\ s.all[i].index = invocations[i].index
<1>1. /\ N \in Nat /\ invocations \in [1..N -> InvocationRecord] /\ Lambda \in LambdaStates(N)
      /\ LambdaParts(Lambda, outside.late, serving, N)
  BY LambdaNow, LambdaAssumption
<1>2. PICK r \in InvocationRecord : r = invocations[i]
  BY <1>1
<1>3. r.calls < MaxLambdaCalls /\ r.calls \in 0..MaxLambdaCalls
  BY <1>2 DEF MayCall, InvocationRecord
<1>4. PICK n \in 0..MaxLambdaCalls : n = r.calls + 1
  BY <1>3, LambdaAssumption
<1>5. PICK q : q = [r EXCEPT !.calls = n]
  OBVIOUS
<1>6. q \in InvocationRecord /\ q.ended = r.ended /\ q.index = r.index /\ q.errors = r.errors /\ q.cold = r.cold
      /\ q.printed = r.printed
  BY <1>4, <1>5 DEF InvocationRecord
<1>7. PICK w : w = [q EXCEPT !.answered = TRUE]
  OBVIOUS
<1>8. w \in InvocationRecord /\ w.ended = r.ended /\ w.index = r.index /\ w.errors = r.errors /\ w.cold = r.cold
      /\ w.printed = r.printed
  BY <1>6, <1>7 DEF InvocationRecord
<1>9. PICK b : b = [invocations EXCEPT ![i] = q]
  OBVIOUS
<1>10. b = [invocations EXCEPT ![i].calls = @ + 1]
  BY <1>1, <1>2, <1>4, <1>5, <1>9
<1>11. PICK d : d = [b EXCEPT ![i] = w]
  OBVIOUS
<1>12. d = [b EXCEPT ![i].answered = TRUE]
  BY <1>1, <1>7, <1>9, <1>11
<1>13. InvocationCalled(i) = d
  BY <1>10, <1>12 DEF InvocationCalled
<1>14. d \in [1..N -> InvocationRecord] /\ d[i] = w /\ \A j \in 1..N \ {i} : d[j] = invocations[j]
  BY <1>1, <1>6, <1>8, <1>9, <1>11
<1>15. PICK e : e = enders
  OBVIOUS
<1>16. PICK c : c = outside.cleared
  OBVIOUS
<1>17. s = [all |-> d, enders |-> e, uncaught |-> u, cleared |-> c]
  BY <1>13, <1>15, <1>16
<1>18. s.all = d /\ s.enders = e /\ s.uncaught = u /\ s.cleared = c
  BY <1>17
<1>19. Lambda.all = invocations /\ Lambda.enders = e /\ Lambda.cleared = c
  BY <1>15, <1>16 DEF Lambda
<1>20. e \in Seq({Cleaned, Hole} \cup 1..N) /\ c \in SUBSET (1..N)
  BY <1>1, <1>19 DEF LambdaStates
<1>21. s \in LambdaStates(N)
  BY <1>14, <1>17, <1>20 DEF LambdaStates
<1>22. \A j \in 1..N : d[j].ended = invocations[j].ended /\ d[j].index = invocations[j].index
                       /\ d[j].errors = invocations[j].errors /\ d[j].cold = invocations[j].cold
                       /\ d[j].printed = invocations[j].printed
  BY <1>2, <1>8, <1>14
<1>23. /\ OwnPlaces(Lambda, N) /\ HaveEnders(Lambda, N)
       /\ \A j \in 1..N : invocations[j].ended = invocations[j].printed /\ (invocations[j].cold <=> j = 1)
  BY <1>1, <1>19 DEF LambdaParts, InvocationsPlaced
<1>24. OwnPlaces(s, N)
  BY <1>18, <1>19, <1>22, <1>23 DEF OwnPlaces
<1>25. HaveEnders(s, N)
  BY <1>18, <1>19, <1>22, <1>23 DEF HaveEnders, PlaceAt
<1>26. InvocationsPlaced(s, N)
  BY <1>18, <1>22, <1>23, <1>24, <1>25 DEF InvocationsPlaced
<1>27. ErrorsAtHome(s, outside.late, N)
  BY <1>1, <1>18, <1>19, <1>22 DEF LambdaParts, ErrorsAtHome
<1>28. \A j \in 1..N \ {i} : s.all[j].answered => s.all[j].ended \/ j \in s.cleared
  BY <1>1, <1>14, <1>18, <1>19 DEF LambdaParts
<1> QED BY <1>18, <1>21, <1>22, <1>26, <1>27, <1>28 DEF HasCalled

\* The end of the invocation that has called.
LEMMA CalledEnds ==
    ASSUME NEW N \in 0..MaxInvocations, NEW i \in 1..N, NEW s, HasCalled(s, N, i), NEW late \in SUBSET (1..N),
           ErrorsAtHome(s, late, N), s.uncaught \in {Nobody} \cup late \cup {i},
           PlaceAt(s, s.all[i].index) = Cleaned => s.uncaught \in {Nobody} \cup late,
           NEW turn \in {Nobody} \cup 1..N
    PROVE  LambdaParts(EndInvocation(s, i), late, turn, N)
<1>1. PICK t : t = EndInvocation(s, i)
  OBVIOUS
<1>2. N \in Nat /\ s \in LambdaStates(N) /\ InvocationsPlaced(s, N)
  BY LambdaAssumption DEF HasCalled
<1>3. t \in LambdaStates(N) /\ InvocationsPlaced(t, N) /\ EndsOne(t, s, i, N) /\ OnlyEnds(t, s, N)
  BY <1>1, <1>2, EndedOne
<1>4. CASE t = s /\ PlaceAt(s, s.all[i].index) = Cleaned
  <2>1. s.all[i].ended \/ i \in s.cleared
    BY <1>2, <1>4 DEF InvocationsPlaced, HaveEnders, Cleaned
  <2>2. \A j \in 1..N : s.all[j].answered => s.all[j].ended \/ j \in s.cleared
    BY <2>1 DEF HasCalled
  <2> QED BY <1>1, <1>2, <1>4, <2>2 DEF LambdaParts
<1>5. CASE /\ t.all[i].ended /\ t.uncaught = Nobody
           /\ \A j \in 1..N \ {i} : t.all[j] = s.all[j]
           /\ t.all[i].errors \subseteq s.all[i].errors \cup ({s.uncaught} \ {Nobody})
  <2>1. ErrorsAtHome(t, late, N)
    <3> SUFFICES ASSUME NEW j \in 1..N PROVE t.all[j].errors \ {j} \subseteq late
      BY DEF ErrorsAtHome
    <3>1. s.all[j].errors \ {j} \subseteq late
      BY DEF ErrorsAtHome
    <3>2. CASE j # i
      BY <3>1, <3>2, <1>5
    <3>3. CASE j = i
      BY <3>1, <3>3, <1>5
    <3> QED BY <3>2, <3>3
  <2>2. \A j \in 1..N : t.all[j].answered => t.all[j].ended \/ j \in t.cleared
    BY <1>3, <1>5 DEF HasCalled, OnlyEnds
  <2> QED BY <1>1, <1>3, <1>5, <2>1, <2>2 DEF LambdaParts
<1> QED BY <1>3, <1>4, <1>5 DEF EndsOne

\* The state an error is added to.
LEMMA CalledBack ==
    ASSUME NEW N \in Nat, NEW i \in 1..N, NEW s, HasCalled(s, N, i), NEW late, ErrorsAtHome(s, late, N),
           NEW error \in {Nobody, i}, NEW x, x = [s EXCEPT !.all = AddError(s.all, i, error)]
    PROVE  /\ HasCalled(x, N, i) /\ ErrorsAtHome(x, late, N)
           /\ x.uncaught = s.uncaught
<1>1. s \in LambdaStates(N) /\ InvocationsPlaced(s, N)
  BY DEF HasCalled
<1>2. PICK all \in [1..N -> InvocationRecord] : all = s.all
  BY <1>1 DEF LambdaStates
<1>3. PICK b : b = AddError(all, i, error)
  OBVIOUS
<1>4. error \in {Nobody} \cup 1..N
  OBVIOUS
<1>5. GivenError(b, all, i, error, N)
  BY <1>3, <1>4, AddedError
<1>6. PICK u \in SUBSET Nat : /\ b[i] = [all[i] EXCEPT !.errors = u]
                              /\ u \subseteq all[i].errors \cup ({error} \ {Nobody})
  BY <1>5 DEF GivenError
<1>7. b \in [1..N -> InvocationRecord] /\ \A j \in 1..N \ {i} : b[j] = all[j]
  BY <1>5 DEF GivenError
<1>8. all[i] \in InvocationRecord
  OBVIOUS
<1>9. /\ b[i].ended = all[i].ended /\ b[i].index = all[i].index /\ b[i].cold = all[i].cold
      /\ b[i].printed = all[i].printed /\ b[i].errors = u /\ b[i].answered = all[i].answered
  BY <1>6, <1>8 DEF InvocationRecord
<1>10. x = [s EXCEPT !.all = b]
  BY <1>2, <1>3
<1>11. x \in LambdaStates(N) /\ x.all = b /\ x.enders = s.enders /\ x.uncaught = s.uncaught /\ x.cleared = s.cleared
  BY <1>1, <1>7, <1>10 DEF LambdaStates
<1>12. \A j \in 1..N : b[j].ended = all[j].ended /\ b[j].index = all[j].index /\ b[j].cold = all[j].cold
                       /\ b[j].printed = all[j].printed /\ b[j].answered = all[j].answered
  BY <1>7, <1>9
<1>13. OwnPlaces(x, N)
  BY <1>1, <1>2, <1>11, <1>12 DEF InvocationsPlaced, OwnPlaces
<1>14. HaveEnders(x, N)
  BY <1>1, <1>2, <1>11, <1>12 DEF InvocationsPlaced, HaveEnders, PlaceAt
<1>15. InvocationsPlaced(x, N)
  BY <1>1, <1>2, <1>11, <1>12, <1>13, <1>14 DEF InvocationsPlaced
<1>16. ErrorsAtHome(x, late, N)
  <2> SUFFICES ASSUME NEW j \in 1..N PROVE b[j].errors \ {j} \subseteq late
    BY <1>11 DEF ErrorsAtHome
  <2>1. all[j].errors \ {j} \subseteq late
    BY <1>2 DEF ErrorsAtHome
  <2>2. CASE j # i
    BY <2>1, <2>2, <1>7
  <2>3. CASE j = i
    BY <2>1, <2>3, <1>6, <1>9
  <2> QED BY <2>2, <2>3
<1>17. \A j \in 1..N \ {i} : x.all[j].answered => x.all[j].ended \/ j \in x.cleared
  BY <1>2, <1>11, <1>12 DEF HasCalled
<1> QED BY <1>11, <1>15, <1>16, <1>17 DEF HasCalled

\* Of the enders that are left the first is FirstOpen's.
LEMMA FirstIsFirst ==
    ASSUME LambdaInv, NEW i \in Invocations, FirstOpen = i
    PROVE  FirstAt(enders, i)
<1>1. PICK N \in Nat : /\ N = Len(invocations) /\ Invocations = 1..N
                       /\ Lambda \in LambdaStates(N)
  BY LambdaNow, LambdaAssumption
<1>2. enders \in Seq({Cleaned, Hole} \cup 1..N)
  BY <1>1 DEF Lambda, LambdaStates
<1>3. PICK n \in Nat : n = Len(enders) /\ DOMAIN enders = 1..n
  BY <1>2, LenProperties
<1>4. PICK open : open = {p \in DOMAIN enders : enders[p] \notin {Cleaned, Hole}}
  OBVIOUS
<1>5. open # {}
  <2>1. i # Nobody
    BY <1>1 DEF Nobody
  <2> QED BY <2>1, <1>4, Zenon DEF FirstOpen
<1>6. open \subseteq Nat
  BY <1>3, <1>4
<1>7. PICK p : p = CHOOSE q \in open : \A r \in open : q <= r
  OBVIOUS
<1>8. \E q \in open : \A r \in open : q <= r
  BY <1>5, <1>6, LeastElement
<1>9. p \in open /\ \A r \in open : p <= r
  BY <1>7, <1>8
<1>10. enders[p] = i
  BY <1>4, <1>5, <1>7 DEF FirstOpen
<1> QED BY <1>3, <1>4, <1>9, <1>10 DEF FirstAt

\* Each of the actions keeps the invariant.
LEMMA InvokeStep ==
    ASSUME LambdaInv, Invoke
    PROVE  LambdaInv'
<1>1. PICK N \in Nat : /\ N = Len(invocations) /\ N \in 0..MaxInvocations /\ invocations \in [1..N -> InvocationRecord]
                       /\ Lambda \in LambdaStates(N) /\ LambdaParts(Lambda, outside.late, serving, N)
  BY LambdaNow, LambdaAssumption
<1>2. PICK e : e = enders
  OBVIOUS
<1>3. e \in Seq({Cleaned, Hole} \cup 1..N) /\ Lambda.enders = e /\ Lambda.all = invocations
      /\ Lambda.cleared = outside.cleared /\ Lambda.uncaught = uncaught
  BY <1>1, <1>2 DEF Lambda, LambdaStates
<1>4. PICK n \in Nat : n = Len(e) /\ DOMAIN e = 1..n /\ n <= N
  BY <1>1, <1>3, LenProperties DEF LambdaParts, InvocationsPlaced, OwnPlaces
<1>5. PICK M \in 1..MaxInvocations : M = N + 1
  BY <1>1, LambdaAssumption DEF Invoke
<1>6. PICK f : f = Append(e, M)
  OBVIOUS
<1>7. M \in {Cleaned, Hole} \cup 1..M /\ 1..N \subseteq 1..M
  BY <1>5
<1>8. e \in Seq({Cleaned, Hole} \cup 1..M)
  <2>1. \A p \in 1..n : e[p] \in {Cleaned, Hole} \cup 1..N
    BY <1>3, <1>4, ElementOfSeq
  <2>2. \A p \in 1..n : e[p] \in {Cleaned, Hole} \cup 1..M
    BY <2>1, <1>7
  <2>3. e \in [1..n -> {Cleaned, Hole} \cup 1..M]
    BY <2>2, <1>3, <1>4, LenProperties
  <2> QED BY <2>3, SeqDef
<1>9. f \in Seq({Cleaned, Hole} \cup 1..M) /\ Len(f) = n + 1 /\ f[n + 1] = M /\ \A p \in 1..n : f[p] = e[p]
  BY <1>4, <1>6, <1>7, <1>8, AppendProperties
<1>10. DOMAIN f = 1..(n + 1)
  BY <1>4, <1>9, LenProperties
<1>11. PICK v \in BOOLEAN : v = (invocations = <<>>)
  OBVIOUS
<1>12. PICK r : r = [ended |-> FALSE, index |-> n + 1, errors |-> {}, cold |-> v, calls |-> 0,
                     answered |-> FALSE, printed |-> FALSE]
  OBVIOUS
<1>13. r \in InvocationRecord
  <2>1. 0 \in 0..MaxLambdaCalls
    BY LambdaAssumption
  <2> QED BY <2>1, <1>12 DEF InvocationRecord
<1>14. r.ended = FALSE /\ r.index = n + 1 /\ r.errors = {} /\ r.cold = v /\ r.answered = FALSE /\ r.printed = FALSE
  BY <1>12
<1>15. PICK all : all = Append(invocations, r)
  OBVIOUS
<1>16. serving' = M /\ enders' = f /\ Len(enders') = n + 1
  BY <1>1, <1>2, <1>5, <1>6, <1>9 DEF Invoke
<1>17. invocations' = all /\ uncaught' = uncaught /\ outside' = outside
  <2>1. invocations' = Append(invocations,
           [ended |-> FALSE, index |-> Len(enders'), errors |-> {}, cold |-> invocations = <<>>,
            calls |-> 0, answered |-> FALSE, printed |-> FALSE])
    BY DEF Invoke
  <2>2. [ended |-> FALSE, index |-> Len(enders'), errors |-> {}, cold |-> invocations = <<>>,
            calls |-> 0, answered |-> FALSE, printed |-> FALSE] = r
    BY <1>11, <1>12, <1>16
  <2>3. uncaught' = uncaught /\ outside' = outside
    BY DEF Invoke
  <2> QED BY <2>1, <2>2, <2>3, <1>15
<1>18. invocations \in Seq(InvocationRecord)
  BY DEF LambdaInv
<1>19. all \in Seq(InvocationRecord) /\ Len(all) = M /\ all[M] = r /\ \A j \in 1..N : all[j] = invocations[j]
  BY <1>1, <1>5, <1>13, <1>15, <1>18, AppendProperties
<1>20. all \in [1..M -> InvocationRecord]
  BY <1>19, LenProperties
<1>21. v = (N = 0)
  BY <1>1, <1>11, <1>18, EmptySeq, LenProperties
<1>22. PICK c : c = outside.cleared
  OBVIOUS
<1>23. PICK u : u = uncaught
  OBVIOUS
<1>24. c \in SUBSET (1..N) /\ u \in {Nobody} \cup 1..N
  BY <1>1, <1>3, <1>22, <1>23 DEF LambdaStates
<1>25. PICK s : s = [all |-> all, enders |-> f, uncaught |-> u, cleared |-> c]
  OBVIOUS
<1>26. s \in LambdaStates(M) /\ s.all = all /\ s.enders = f /\ s.uncaught = u /\ s.cleared = c
  <2>1. c \in SUBSET (1..M) /\ u \in {Nobody} \cup 1..M
    BY <1>7, <1>24
  <2> QED BY <2>1, <1>9, <1>20, <1>25 DEF LambdaStates
<1>27. Becomes(s, outside.late)
  <2>1. outside = [cleared |-> c, late |-> outside.late]
    BY <1>22 DEF LambdaInv
  <2>2. outside' = [cleared |-> s.cleared, late |-> outside.late]
    BY <2>1, <1>17, <1>26
  <2>3. invocations' = s.all /\ enders' = s.enders /\ uncaught' = s.uncaught
    BY <1>16, <1>17, <1>23, <1>26
  <2> QED BY <2>2, <2>3, Zenon DEF Becomes
<1>28. \A j \in 1..M : j \in 1..N \/ j = M
  BY <1>5
<1>29. OwnPlaces(s, M)
  <2>1. ASSUME NEW j \in 1..M PROVE all[j].index \in 1..j
    <3>1. CASE j \in 1..N
      BY <3>1, <1>1, <1>3, <1>19 DEF LambdaParts, InvocationsPlaced, OwnPlaces
    <3>2. CASE j = M
      BY <3>2, <1>4, <1>5, <1>14, <1>19
    <3> QED BY <3>1, <3>2, <1>28
  <2>2. ASSUME NEW p \in 1..(n + 1), f[p] \in 1..M PROVE all[f[p]].index = p
    <3>1. CASE p = n + 1
      BY <3>1, <1>9, <1>14, <1>19
    <3>2. CASE p # n + 1
      <4>1. p \in 1..n
        BY <3>2
      <4>2. f[p] = e[p] /\ e[p] \in {Cleaned, Hole} \cup 1..N
        BY <4>1, <1>3, <1>4, <1>9, ElementOfSeq
      <4>3. e[p] \in 1..N
        BY <2>2, <4>2 DEF Cleaned, Hole
      <4>4. invocations[e[p]].index = p
        BY <4>1, <4>3, <1>1, <1>3, <1>4 DEF LambdaParts, InvocationsPlaced, OwnPlaces
      <4> QED BY <4>2, <4>3, <4>4, <1>19
    <3> QED BY <3>1, <3>2
  <2>3. Len(f) <= M
    BY <1>4, <1>5, <1>9
  <2> QED BY <2>1, <2>2, <2>3, <1>9, <1>26 DEF OwnPlaces
<1>30. HaveEnders(s, M)
  <2> SUFFICES ASSUME NEW j \in 1..M, ~all[j].ended, j \notin c PROVE PlaceAt(s, all[j].index) = j
    BY <1>26 DEF HaveEnders
  <2>1. CASE j \in 1..N
    <3>1. PlaceAt(Lambda, invocations[j].index) = j
      BY <2>1, <1>1, <1>3, <1>19, <1>22 DEF LambdaParts, InvocationsPlaced, HaveEnders
    <3>2. PICK p : p = invocations[j].index
      OBVIOUS
    <3>3. p \in 1..n /\ e[p] = j
      BY <2>1, <3>1, <3>2, <1>3, <1>4 DEF PlaceAt, Hole
    <3>4. p \in 1..(n + 1) /\ f[p] = j
      BY <3>3, <1>9
    <3> QED BY <3>2, <3>4, <2>1, <1>10, <1>19, <1>26 DEF PlaceAt
  <2>2. CASE j = M
    BY <2>2, <1>9, <1>10, <1>14, <1>19, <1>26 DEF PlaceAt
  <2> QED BY <2>1, <2>2, <1>28
<1>31. InvocationsPlaced(s, M)
  <2> SUFFICES ASSUME NEW j \in 1..M PROVE all[j].ended = all[j].printed /\ (all[j].cold <=> j = 1)
    BY <1>26, <1>29, <1>30 DEF InvocationsPlaced
  <2>1. CASE j \in 1..N
    BY <2>1, <1>1, <1>3, <1>19 DEF LambdaParts, InvocationsPlaced
  <2>2. CASE j = M
    <3>1. all[j].ended = all[j].printed /\ all[j].cold = v
      BY <2>2, <1>14, <1>19
    <3>2. v <=> j = 1
      <4>1. N = 0 <=> j = 1
        BY <2>2, <1>1, <1>5
      <4> QED BY <4>1, <1>21, Zenon
    <3> QED BY <3>1, <3>2
  <2> QED BY <2>1, <2>2, <1>28
<1>32. ErrorsAtHome(s, outside.late, M)
  BY <1>1, <1>3, <1>14, <1>19, <1>26, <1>28 DEF LambdaParts, ErrorsAtHome
<1>33. LambdaParts(s, outside.late, M, M)
  <2>1. outside.late \subseteq 1..M /\ u \in {Nobody} \cup outside.late
    BY <1>1, <1>3, <1>7, <1>23 DEF LambdaParts
  <2>2. \A j \in 1..M : all[j].answered => all[j].ended \/ j \in c
    BY <1>1, <1>3, <1>14, <1>19, <1>22, <1>28 DEF LambdaParts
  <2> QED BY <2>1, <2>2, <1>5, <1>26, <1>31, <1>32 DEF LambdaParts
<1> QED BY <1>16, <1>27, <1>33, PartsOfLambda

\* What an exception finds.
LEMMA WithUncaught ==
    ASSUME NEW a, NEW u
    PROVE  [Lambda EXCEPT !.all = a, !.uncaught = u] =
               [all |-> a, enders |-> enders, uncaught |-> u, cleared |-> outside.cleared]
<1>1. PICK e : e = enders
  OBVIOUS
<1>2. PICK c : c = outside.cleared
  OBVIOUS
<1>3. PICK w : w = uncaught
  OBVIOUS
<1>4. PICK b : b = invocations
  OBVIOUS
<1>5. Lambda = [all |-> b, enders |-> e, uncaught |-> w, cleared |-> c]
  BY <1>1, <1>2, <1>3, <1>4 DEF Lambda
<1>6. PICK x : x = [Lambda EXCEPT !.all = a]
  OBVIOUS
<1>7. x = [all |-> a, enders |-> e, uncaught |-> w, cleared |-> c]
  BY <1>5, <1>6
<1>8. [x EXCEPT !.uncaught = u] = [all |-> a, enders |-> e, uncaught |-> u, cleared |-> c]
  BY <1>7
<1> QED BY <1>1, <1>2, <1>6, <1>8

LEMMA CallbackStep ==
    ASSUME LambdaInv, NEW i \in Invocations, NEW failed \in BOOLEAN, CallbackCalled(i, failed)
    PROVE  LambdaInv'
<1>1. PICK N \in 0..MaxInvocations :
          /\ N = Len(invocations) /\ Invocations = 1..N
          /\ Lambda \in LambdaStates(N) /\ LambdaParts(Lambda, outside.late, serving, N)
  BY LambdaNow
<1>2. N \in Nat /\ i \in 1..N
  BY <1>1, LambdaAssumption
<1>3. PICK u \in {Nobody} \cup 1..N : u = uncaught
  BY <1>1 DEF Lambda, LambdaStates
<1>4. PICK late \in SUBSET (1..N) : late = outside.late
  BY <1>1 DEF LambdaParts
<1>5. PICK s : s = [all |-> InvocationCalled(i), enders |-> enders, uncaught |-> u, cleared |-> outside.cleared]
  OBVIOUS
<1>6. MayCall(i)
  BY DEF CallbackCalled
<1>7. HasCalled(s, N, i) /\ ErrorsAtHome(s, outside.late, N)
  BY <1>1, <1>2, <1>5, <1>6, CalledAll
<1>8. PICK error \in {Nobody, i} : error = IF failed THEN i ELSE Nobody
  OBVIOUS
<1>9. PICK x : x = [s EXCEPT !.all = AddError(s.all, i, error)]
  OBVIOUS
<1>10. HasCalled(x, N, i) /\ ErrorsAtHome(x, late, N) /\ x.uncaught = s.uncaught
  BY <1>2, <1>4, <1>7, <1>9, CalledBack
<1>11. x.uncaught \in {Nobody} \cup late
  BY <1>1, <1>3, <1>4, <1>5, <1>10 DEF LambdaParts, Lambda
<1>12. PICK a : a = AddError(InvocationCalled(i), i, error)
  OBVIOUS
<1>13. x = [all |-> a, enders |-> enders, uncaught |-> u, cleared |-> outside.cleared]
  BY <1>5, <1>9, <1>12
<1>14. [Lambda EXCEPT !.all = a] = x
  BY <1>3, <1>13 DEF Lambda
<1>15. PICK t : t = EndInvocation(x, i)
  OBVIOUS
<1>16. Becomes(t, late) /\ serving' = (IF serving = i THEN Nobody ELSE serving)
  BY <1>4, <1>8, <1>12, <1>14, <1>15 DEF CallbackCalled, RuntimeAnswered
<1>17. PICK turn \in {Nobody} \cup 1..N : turn = IF serving = i THEN Nobody ELSE serving
  BY <1>1 DEF LambdaParts
<1>18. LambdaParts(t, late, turn, N)
  BY <1>2, <1>10, <1>11, <1>15, CalledEnds
<1> QED BY <1>16, <1>17, <1>18, PartsOfLambda

LEMMA HandlerStep ==
    ASSUME LambdaInv, NEW i \in Invocations, NEW failed \in BOOLEAN, HandlerEnds(i, failed)
    PROVE  LambdaInv'
<1>1. PICK N \in 0..MaxInvocations :
          /\ N = Len(invocations) /\ Invocations = 1..N /\ invocations \in [1..N -> InvocationRecord]
          /\ Lambda \in LambdaStates(N) /\ LambdaParts(Lambda, outside.late, serving, N)
  BY LambdaNow
<1>2. N \in Nat /\ i \in 1..N
  BY <1>1, LambdaAssumption
<1>3. PICK u \in {Nobody} \cup 1..N : u = IF failed THEN i ELSE uncaught
  BY <1>1, <1>2 DEF Lambda, LambdaStates
<1>4. PICK gone \in BOOLEAN : gone = (failed /\ (PlaceAt(Lambda, invocations[i].index) = Cleaned \/ invocations[i].ended))
  OBVIOUS
<1>5. PICK late \in SUBSET (1..N) : late = IF gone THEN outside.late \cup {i} ELSE outside.late
  BY <1>1, <1>2 DEF LambdaParts
<1>6. PICK s : s = [all |-> InvocationCalled(i), enders |-> enders, uncaught |-> u, cleared |-> outside.cleared]
  OBVIOUS
<1>7. MayCall(i)
  BY DEF HandlerEnds
<1>8. HasCalled(s, N, i) /\ ErrorsAtHome(s, outside.late, N)
  BY <1>1, <1>2, <1>6, <1>7, CalledAll
<1>9. ErrorsAtHome(s, late, N)
  BY <1>5, <1>8 DEF ErrorsAtHome
<1>10. s.uncaught = u /\ s.all = InvocationCalled(i) /\ s.enders = enders
  BY <1>6
<1>11. u \in {Nobody} \cup late \cup {i}
  <2>1. uncaught \in {Nobody} \cup outside.late
    BY <1>1 DEF LambdaParts, Lambda
  <2> QED BY <2>1, <1>3, <1>5
<1>12. s.all[i].index = invocations[i].index
  BY <1>1, <1>2, <1>6, <1>7, CalledAll
<1>13. PlaceAt(s, s.all[i].index) = Cleaned => u \in {Nobody} \cup late
  <2> SUFFICES ASSUME PlaceAt(s, s.all[i].index) = Cleaned PROVE u \in {Nobody} \cup late
    OBVIOUS
  <2>1. PlaceAt(Lambda, invocations[i].index) = Cleaned
    BY <1>10, <1>12 DEF PlaceAt, Lambda
  <2>2. CASE failed
    BY <2>1, <2>2, <1>3, <1>4, <1>5
  <2>3. CASE ~failed
    <3>1. uncaught \in {Nobody} \cup outside.late
      BY <1>1 DEF LambdaParts, Lambda
    <3> QED BY <3>1, <2>3, <1>3, <1>5
  <2> QED BY <2>2, <2>3
<1>14. [Lambda EXCEPT !.all = InvocationCalled(i), !.uncaught = u] = s
  BY <1>6, WithUncaught
<1>15. [Lambda EXCEPT !.all = InvocationCalled(i), !.uncaught = IF failed THEN i ELSE @] = s
  <2>1. uncaught = [Lambda EXCEPT !.all = InvocationCalled(i)].uncaught
    BY DEF Lambda
  <2> QED BY <2>1, <1>3, <1>14
<1>16. PICK t : t = EndInvocation(s, i)
  OBVIOUS
<1>17. Becomes(t, late) /\ serving' = (IF serving = i THEN Nobody ELSE serving)
  BY <1>4, <1>5, <1>15, <1>16 DEF HandlerEnds, RuntimeAnswered
<1>18. PICK turn \in {Nobody} \cup 1..N : turn = IF serving = i THEN Nobody ELSE serving
  BY <1>1 DEF LambdaParts
<1>19. LambdaParts(t, late, turn, N)
  BY <1>2, <1>8, <1>9, <1>10, <1>11, <1>13, <1>16, CalledEnds
<1> QED BY <1>17, <1>18, <1>19, PartsOfLambda

\* What all of them end on.
LEMMA EndsAllStep ==
    ASSUME LambdaInv, NEW N \in 0..MaxInvocations, N = Len(invocations), NEW s \in LambdaStates(N),
           InvocationsPlaced(s, N), NEW late \in SUBSET (1..N), ErrorsAtHome(s, late, N),
           s.uncaught \in {Nobody} \cup late \/ FirstAt(s.enders, s.uncaught),
           Becomes(EndAll(s), late), serving' = Nobody
    PROVE  LambdaInv'
<1>1. PICK t : t = EndAll(s)
  OBVIOUS
<1>2. N \in Nat
  BY LambdaAssumption
<1>3. AllAreEnded(t, s, late, N)
  BY <1>1, <1>2, EndedAll
<1>4. LambdaParts(t, late, Nobody, N)
  BY <1>3 DEF AllAreEnded, LambdaParts
<1>5. Becomes(t, late)
  BY <1>1
<1> QED BY <1>4, <1>5, PartsOfLambda

LEMMA BeforeExitStep ==
    ASSUME LambdaInv, BeforeExit
    PROVE  LambdaInv'
<1>1. PICK N \in 0..MaxInvocations :
          N = Len(invocations) /\ Lambda \in LambdaStates(N) /\ LambdaParts(Lambda, outside.late, serving, N)
  BY LambdaNow
<1>2. PICK s : s = Lambda
  OBVIOUS
<1>3. PICK late \in SUBSET (1..N) : late = outside.late
  BY <1>1 DEF LambdaParts
<1>4. s \in LambdaStates(N) /\ InvocationsPlaced(s, N) /\ ErrorsAtHome(s, late, N) /\ s.uncaught \in {Nobody} \cup late
  BY <1>1, <1>2, <1>3 DEF LambdaParts
<1>5. Becomes(EndAll(s), late) /\ serving' = Nobody
  BY <1>2, <1>3 DEF BeforeExit
<1> QED BY <1>1, <1>4, <1>5, EndsAllStep

LEMMA FatalStep ==
    ASSUME LambdaInv, NEW i \in Invocations, FatalException(i)
    PROVE  LambdaInv'
<1>1. PICK N \in 0..MaxInvocations :
          /\ N = Len(invocations) /\ Invocations = 1..N
          /\ Lambda \in LambdaStates(N) /\ LambdaParts(Lambda, outside.late, serving, N)
  BY LambdaNow
<1>2. N \in Nat /\ i \in {Nobody} \cup 1..N /\ i \in 1..N
  BY <1>1, LambdaAssumption
<1>3. PICK late \in SUBSET (1..N) : late = IF FirstOpen = i THEN outside.late ELSE outside.late \cup {i}
  BY <1>1, <1>2 DEF LambdaParts
<1>4. PICK s : s = [all |-> InvocationCalled(i), enders |-> enders, uncaught |-> i, cleared |-> outside.cleared]
  OBVIOUS
<1>5. MayCall(i)
  BY DEF FatalException
<1>6. HasCalled(s, N, i) /\ ErrorsAtHome(s, outside.late, N)
  BY <1>1, <1>2, <1>4, <1>5, CalledAll
<1>7. s \in LambdaStates(N) /\ InvocationsPlaced(s, N) /\ ErrorsAtHome(s, late, N)
  BY <1>3, <1>6 DEF HasCalled, ErrorsAtHome
<1>8. s.uncaught = i /\ s.enders = enders
  BY <1>4
<1>9. s.uncaught \in {Nobody} \cup late \/ FirstAt(s.enders, s.uncaught)
  <2>1. CASE FirstOpen = i
    BY <2>1, <1>8, FirstIsFirst
  <2>2. CASE FirstOpen # i
    BY <2>2, <1>3, <1>8
  <2> QED BY <2>1, <2>2
<1>10. [Lambda EXCEPT !.all = InvocationCalled(i), !.uncaught = i] = s
  BY <1>4, WithUncaught
<1>11. Becomes(EndAll(s), late) /\ serving' = Nobody
  BY <1>3, <1>10 DEF FatalException
<1> QED BY <1>1, <1>7, <1>9, <1>11, EndsAllStep

LEMMA LambdaStays ==
    ASSUME LambdaInv, UNCHANGED <<invocations, enders, uncaught, outside>>, serving' \in {Nobody, serving}
    PROVE  LambdaInv'
<1>1. Lambda' = Lambda
  BY DEF Lambda
<1> QED BY <1>1 DEF LambdaInv, LambdaParts

\* Nothing has been invoked at first.
LEMMA ServerlessInitial == ServerlessInit => LambdaInv
<1> SUFFICES ASSUME ServerlessInit PROVE LambdaInv
  OBVIOUS
<1>1. invocations = <<>> /\ enders = <<>> /\ uncaught = Nobody /\ serving = Nobody
      /\ outside = [cleared |-> {}, late |-> {}]
  BY DEF ServerlessInit
<1>2. invocations \in Seq(InvocationRecord) /\ Len(invocations) = 0 /\ enders \in Seq({Cleaned, Hole} \cup 1..0) /\ Len(enders) = 0
  BY <1>1, EmptySeq
<1>3. invocations \in [1..0 -> InvocationRecord]
  BY <1>2, LenProperties
<1>4. PICK s : s = Lambda
  OBVIOUS
<1>5. s \in LambdaStates(0) /\ s.all = invocations /\ s.enders = enders /\ s.uncaught = Nobody /\ s.cleared = {}
  BY <1>1, <1>2, <1>3, <1>4 DEF LambdaStates, Lambda
<1>6. LambdaParts(s, {}, Nobody, 0)
  BY <1>1, <1>2, <1>5, LambdaAssumption DEF LambdaParts, InvocationsPlaced, OwnPlaces, HaveEnders, ErrorsAtHome
<1> QED BY <1>1, <1>2, <1>4, <1>6 DEF LambdaInv

\* The invariant is kept.
LEMMA ServerlessStep == LambdaInv /\ [ServerlessNext]_lambdaVars => LambdaInv'
<1> SUFFICES ASSUME LambdaInv, [ServerlessNext]_lambdaVars PROVE LambdaInv'
  OBVIOUS
<1>1. CASE Invoke
  BY <1>1, InvokeStep
<1>2. CASE BeforeExit
  BY <1>2, BeforeExitStep
<1>3. CASE TimedOut
  BY <1>3, LambdaStays DEF TimedOut
<1>4. ASSUME NEW i \in Invocations, FatalException(i) PROVE LambdaInv'
  BY <1>4, FatalStep
<1>5. ASSUME NEW i \in Invocations, NEW failed \in BOOLEAN, CallbackCalled(i, failed) PROVE LambdaInv'
  BY <1>5, CallbackStep
<1>6. ASSUME NEW i \in Invocations, NEW failed \in BOOLEAN, HandlerEnds(i, failed) PROVE LambdaInv'
  BY <1>6, HandlerStep
<1>7. CASE UNCHANGED lambdaVars
  BY <1>7, LambdaStays DEF lambdaVars
<1> QED BY <1>1, <1>2, <1>3, <1>4, <1>5, <1>6, <1>7 DEF ServerlessNext

\* And says what is claimed of the invocations.
LEMMA LambdaInvIsCorrect == LambdaInv => ServerlessCorrect
<1> SUFFICES ASSUME LambdaInv PROVE ServerlessCorrect
  OBVIOUS
<1>1. PICK N \in 0..MaxInvocations :
          /\ N = Len(invocations) /\ Invocations = 1..N /\ invocations \in [1..N -> InvocationRecord]
          /\ Lambda \in LambdaStates(N) /\ LambdaParts(Lambda, outside.late, serving, N)
  BY LambdaNow
<1>2. N \in Nat /\ N <= MaxInvocations
  BY <1>1, LambdaAssumption
<1>3. Lambda.all = invocations /\ Lambda.enders = enders /\ Lambda.uncaught = uncaught /\ Lambda.cleared = outside.cleared
  BY DEF Lambda
<1>4. /\ OwnPlaces(Lambda, N) /\ HaveEnders(Lambda, N) /\ ErrorsAtHome(Lambda, outside.late, N)
      /\ \A i \in 1..N : invocations[i].ended = invocations[i].printed /\ (invocations[i].cold <=> i = 1)
  BY <1>1, <1>3 DEF LambdaParts, InvocationsPlaced
<1>5. AnsweredEnds
  BY <1>1, <1>3, <1>4 DEF AnsweredEnds, LambdaParts
<1>6. EndersAreThere
  BY <1>1, <1>3, <1>4 DEF EndersAreThere, HaveEnders
<1>7. ErrorsStayHome
  BY <1>1, <1>3, <1>4 DEF ErrorsStayHome, ErrorsAtHome
<1>8. OneColdStart
  BY <1>1, <1>4 DEF OneColdStart
<1>9. ServerlessTypeOK
  <2>1. ASSUME NEW i \in 1..N
        PROVE  /\ invocations[i].errors \subseteq 1..N /\ invocations[i].index \in 1..MaxInvocations
               /\ invocations[i].calls \in 0..MaxLambdaCalls
    <3>1. invocations[i] \in InvocationRecord
      BY <1>1
    <3>2. invocations[i].errors \ {i} \subseteq outside.late /\ outside.late \subseteq 1..N
      BY <1>1, <1>3, <1>4 DEF ErrorsAtHome, LambdaParts
    <3>3. invocations[i].index \in 1..i
      BY <1>3, <1>4 DEF OwnPlaces
    <3>4. invocations[i].errors \subseteq 1..N
      BY <3>2
    <3>5. invocations[i].index \in 1..MaxInvocations
      BY <3>3, <1>2, LambdaAssumption
    <3>6. invocations[i].calls \in 0..MaxLambdaCalls
      BY <3>1 DEF InvocationRecord
    <3> QED BY <3>4, <3>5, <3>6
  <2>2. enders \in Seq({Cleaned, Hole} \cup 1..N)
    BY <1>1, <1>3 DEF LambdaStates
  <2>3. \A p \in DOMAIN enders : enders[p] \in {Cleaned, Hole} \cup 1..N
    BY <2>2, LenProperties, ElementOfSeq
  <2>4. uncaught \in {Nobody} \cup 1..N /\ outside.cleared \subseteq 1..N
    BY <1>1, <1>3 DEF LambdaStates
  <2>5. serving \in {Nobody} \cup 1..N /\ outside.late \subseteq 1..N
    BY <1>1 DEF LambdaParts
  <2> QED BY <2>1, <2>3, <2>4, <2>5, <1>1 DEF ServerlessTypeOK
<1> QED BY <1>5, <1>6, <1>7, <1>8, <1>9 DEF ServerlessCorrect

\* For any number of invocations, and any calls their code makes of what ends them: what has been
\* answered has ended and been printed, what has not has someone to end it, and errors are reported
\* with the invocation they belong to (lib/serverless/aws-lambda.js).
THEOREM InvocationsAreCorrect == ServerlessSpec => []ServerlessCorrect
<1>1. ServerlessSpec => []LambdaInv
  BY ServerlessInitial, ServerlessStep, PTL DEF ServerlessSpec
<1>2. LambdaInv => ServerlessCorrect
  BY LambdaInvIsCorrect
<1> QED BY <1>1, <1>2, PTL
=============================================================================
