------------------------------- MODULE Attributes ------------------------------
(***************************************************************************)
(* The custom attributes of a transaction and of its span: API's calls,    *)
(* lib/attributes.js, which takes a number of calls, and                   *)
(* lib/prioritized-attributes.js, which takes a number of keys and drops   *)
(* what was meant for the transaction before what was meant for the span.  *)
(***************************************************************************)
EXTENDS Integers, Sequences, FiniteSets
CustomSeqs == INSTANCE SequencesExt
CustomSets == INSTANCE FiniteSetsExt

CONSTANTS
    CustomKeys,     \* keys of custom attributes
    MaxCustom,      \* MAXIMUM_CUSTOM_ATTRIBUTES
    MaxCustomCalls  \* bound: calls of the API

ASSUME AttributesAssumption == MaxCustom \in Nat

VARIABLES
    passes,      \* keys the filter lets pass: [trace, span]
    custom,      \* of the trace: [values : by key, count : attributeCount]
    spanCustom,  \* of the span, in order: [key, value, high]
    lastFound,   \* lastFoundIndexCache of the high priority; -2 when not set
    asked        \* what the application has set, in order: [key, high]

attributeVars == <<passes, custom, spanCustom, lastFound, asked>>

AttributesTypeOK ==
    /\ DOMAIN custom.values \subseteq CustomKeys /\ custom.count \in 0..MaxCustom
    /\ \A i \in DOMAIN spanCustom : spanCustom[i].key \in CustomKeys /\ spanCustom[i].value \in DOMAIN asked
    /\ lastFound \in {-2, -1} \cup 0..MaxCustom

AttributesInit ==
    /\ passes \in [trace : {CustomKeys}, span : {CustomKeys, {CHOOSE k \in CustomKeys : TRUE}}]
    /\ custom = [values |-> <<>>, count |-> 0]
    /\ spanCustom = <<>> /\ lastFound = -2 /\ asked = <<>>

-----------------------------------------------------------------------------
Entry(key) == {i \in DOMAIN spanCustom : spanCustom[i].key = key}
Full == Len(spanCustom) = MaxCustom

\* Attributes#addAttribute.
AddToTrace(key, value) ==
    IF custom.count + 1 > MaxCustom \/ key \notin passes.trace THEN custom
    ELSE [values |-> [k \in DOMAIN custom.values \cup {key} |-> IF k = key THEN value ELSE custom.values[k]],
          count |-> custom.count + 1]

\* _getDroppableAttributeKey: the last entry of low priority, as far as the last search got.
Droppable(high) ==
    IF ~high \/ lastFound = -1 THEN 0
    ELSE LET upTo == IF lastFound > 0 THEN lastFound + 1 ELSE Len(spanCustom)
             low == {i \in 1..upTo : i <= Len(spanCustom) /\ ~spanCustom[i].high}
         IN  IF low = {} THEN 0 ELSE CustomSets!Max(low)

\* PrioritizedAttributes#addAttribute.
AddToSpan(key, value, high) ==
    LET old == Entry(key)
        drop == IF old = {} /\ Full THEN Droppable(high) ELSE 0
        searched == old = {} /\ Full /\ high /\ lastFound # -1
        refused == (old = {} /\ Full /\ drop = 0) \/ key \notin passes.span
                      \/ \E i \in old : spanCustom[i].high /\ ~high
        entry == [key |-> key, value |-> value, high |-> high]
    IN  /\ lastFound' = IF searched THEN drop - 1 ELSE lastFound
        /\ spanCustom' = IF refused THEN spanCustom
                         ELSE IF old # {} THEN [spanCustom EXCEPT ![CustomSets!Max(old)] = entry]
                         ELSE Append(IF drop = 0 THEN spanCustom ELSE CustomSeqs!RemoveAt(spanCustom, drop), entry)

Ask(key, high) == Len(asked) < MaxCustomCalls /\ asked' = Append(asked, [key |-> key, high |-> high])

\* API#addCustomAttribute.
AddCustomAttribute(key) ==
    /\ Ask(key, FALSE)
    /\ custom' = AddToTrace(key, Len(asked'))
    /\ AddToSpan(key, Len(asked'), FALSE)
    /\ UNCHANGED passes

\* API#addCustomSpanAttribute.
AddCustomSpanAttribute(key) ==
    /\ Ask(key, TRUE)
    /\ AddToSpan(key, Len(asked'), TRUE)
    /\ UNCHANGED <<passes, custom>>

AttributesNext ==
    \E key \in CustomKeys : AddCustomAttribute(key) \/ AddCustomSpanAttribute(key)

AttributesSpec == AttributesInit /\ [][AttributesNext]_attributeVars

-----------------------------------------------------------------------------
CallsFor(key, high) == {i \in DOMAIN asked : asked[i] = [key |-> key, high |-> high]}

\* "Most recently set value wins": what the application has set for the span is there with
\* its last value, unless the span is full of such attributes.
SpanAttributesWin ==
    \A key \in passes.span : CallsFor(key, TRUE) # {} =>
        \/ \E i \in Entry(key) : spanCustom[i].high /\ spanCustom[i].value = CustomSets!Max(CallsFor(key, TRUE))
        \/ Full /\ Entry(key) = {} /\ \A i \in DOMAIN spanCustom : spanCustom[i].high

\* An attribute of the transaction is missing from the span only if the span is full, and is
\* there with its last value unless it was set for the span.
TransactionAttributesFollow ==
    \A key \in passes.span : CallsFor(key, FALSE) # {} /\ CallsFor(key, TRUE) = {} =>
        IF Entry(key) = {} THEN Full
        ELSE \A i \in Entry(key) : ~spanCustom[i].high /\ spanCustom[i].value = CustomSets!Max(CallsFor(key, FALSE))

\* The search for an entry to drop is cut short only where there is none: entries of low
\* priority that are to be dropped are never past the last place found.
SearchReachesAll ==
    Full /\ lastFound \in {-1} \cup 1..MaxCustom =>
        \A i \in DOMAIN spanCustom : ~spanCustom[i].high => i <= lastFound + 1

\* Both stores keep what was set first, and no more than they may.
StoresAreBounded ==
    /\ Len(spanCustom) <= MaxCustom /\ Cardinality(DOMAIN custom.values) <= custom.count
    /\ \A i, j \in DOMAIN spanCustom : i # j => spanCustom[i].key # spanCustom[j].key
    /\ \A key \in DOMAIN custom.values :
           custom.count < MaxCustom => custom.values[key] = CustomSets!Max(CallsFor(key, FALSE))

\* What is kept of an application's custom attributes, on the span and on the trace.
AttributesCorrect ==
    /\ AttributesTypeOK /\ SpanAttributesWin /\ TransactionAttributesFollow
    /\ SearchReachesAll /\ StoresAreBounded
=============================================================================
