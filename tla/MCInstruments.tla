---------------------------- MODULE MCInstruments ----------------------------
(***************************************************************************)
(* One model for the components that follow the application's code, which  *)
(* share no state with each other: every behaviour is a behaviour of the   *)
(* one its initial state names (see MCComponents).                         *)
(***************************************************************************)
EXTENDS WebRequest, TransactionLife, SegmentTrace, AsyncContext,
        Normalizer, Metrics, PromiseContext, RecordedCalls,
        Messages, AttributeFilter, Attributes, Wrapping,
        ModuleLoading

VARIABLE component

\* A web request: a router, and what it or the application runs after it.
Routes == <<"a", "", "a", "e">>
Kinds == <<"callback", "promise", "noNext", "errorware">>

\* The life of a transaction.
Rules == {[url |-> "ignore", tx |-> "rename", terms |-> TRUE]}

\* Naming rules.
SomePaths == {<<"b", "a">>, <<"a", "b", "c">>, <<"c", "a", "b", "b">>}
ConfiguredRules == <<RuleOf("c1", 500, FALSE, TRUE, FALSE, FALSE, {"a"}, "x"),
    RuleOf("c2", 100, FALSE, FALSE, FALSE, FALSE, {"b"}, "c"),
    RuleOf("c3", 500, TRUE, TRUE, TRUE, FALSE, {"c"}, "y")>>
ServerLoads ==
    LET all == RuleOf("s1", 2, FALSE, FALSE, TRUE, FALSE, {"a", "b"}, "c")
        each == RuleOf("s2", 1, TRUE, TRUE, FALSE, FALSE, {"b"}, "d")
        ignore(g) == RuleOf("s3", 1, TRUE, FALSE, g, TRUE, {"c"}, "c")
    IN {<<>>, <<all, each, all>>, <<all, ignore(FALSE)>>, <<ignore(TRUE), each>>}
SomeTerms == {<<[prefix |-> "p", terms |-> {"a"}, wellFormed |-> TRUE],
                [prefix |-> "q", terms |-> {"b", "c"}, wellFormed |-> TRUE],
                [prefix |-> "p", terms |-> {"b"}, wellFormed |-> TRUE],
                [prefix |-> "p", terms |-> {}, wellFormed |-> FALSE]>>}

\* Segments of promise chains, each of a transaction of its own.
SomePromSegments == {"a", "b"}
TxOfName(s) == s

\* What drivers record: an operation, an opaque query, one with a promise, one with rows, one
\* that is not to be internal, one without a text; of another library a stream and a call that
\* needs a callback.
CallSpec(f, opaque, prom, arg) ==
    [fn |-> f, record |-> TRUE, text |-> TRUE, said |-> FALSE, internal |-> FALSE, opaque |-> opaque, promise |-> prom,
     arg |-> arg, required |-> FALSE]
SomeCallSpecs ==
    {CallSpec("operation", FALSE, FALSE, "callback"), CallSpec("query", TRUE, FALSE, "callback"),
     CallSpec("query", TRUE, TRUE, "none"), CallSpec("query", FALSE, FALSE, "row"),
     [CallSpec("query", FALSE, FALSE, "stream") EXCEPT !.said = TRUE],
     [CallSpec("query", FALSE, FALSE, "none") EXCEPT !.text = FALSE],
     CallSpec("other", FALSE, FALSE, "stream"), [CallSpec("other", FALSE, FALSE, "none") EXCEPT !.required = TRUE]}

\* Keys and rules of attributes.
Wildcard(path) == [path |-> path, wild |-> TRUE]
Named(path) == [path |-> path, wild |-> FALSE]
SomeKeys == {<<"a">>, <<"a", ".", "b">>, <<"a", ".", "b", "c">>, <<"a", "b">>}
SomeRules == {{Wildcard(<<"a">>), Wildcard(<<"a", ".", "b">>)}, {Wildcard(<<"a", ".">>), Named(<<"a", "b">>)},
    {Wildcard(<<"a", "b">>), Wildcard(<<"a", ".", "b", "c">>), Wildcard(<<>>)}}
SomePolicyRule == Wildcard(<<"a">>)
\* Requires: "a" is a module of its own in each file, and "a/lib" that of the second.
SomeFiles == {"f1", "f2"}
SomeNames == {"a", "a/lib"}
ResolvedIn(file, name) == IF name = "a" THEN file ELSE "f2"
SomeRequires == {<<"f1", "a">>, <<"f2", "a">>, <<"f1", "a/lib">>}
OutcomeOf(handler) == handler.id
SomeHandlers == {[name |-> "a", id |-> "exported"], [name |-> "a/lib", id |-> "thrown"]}
Init ==
    /\ component \in {"web", "life", "segments", "async", "names", "metrics",
                      "promises", "calls", "messages",
                      "filter", "attributes",
                      "wrapping", "loading"}
    /\ WebInit /\ LifeInit /\ SegmentInit /\ AsyncInit
    /\ NormalizerInit /\ MetricInit /\ PromInit /\ CallInit
    /\ MessagesInit /\ AttributeFilterInit /\ AttributesInit
    /\ WrappingInit /\ LoadingInit
    /\ component = "messages" \/ (mode.tracing /\ mode.cat /\ broker = {})
    /\ component = "filter" \/ (settings.includeEnabled /\ settings.rules = NoRules)
    /\ component = "attributes" \/ (passes.span = CustomKeys)

\* Components other than the named one stay as they are.
Idle(name) ==
    /\ UNCHANGED component
    /\ IF name \notin {"web", "life", "segments", "async"}
       THEN UNCHANGED <<webVars, lifeVars, segmentVars, asyncVars>>
       ELSE /\ IF name = "web" THEN TRUE ELSE UNCHANGED webVars
            /\ IF name = "life" THEN TRUE ELSE UNCHANGED lifeVars
            /\ IF name = "segments" THEN TRUE ELSE UNCHANGED segmentVars
            /\ IF name = "async" THEN TRUE ELSE UNCHANGED asyncVars
    /\ IF name \notin {"names", "metrics", "promises", "calls"}
       THEN UNCHANGED <<normalizerVars, metricVars, promVars, callVars>>
       ELSE /\ IF name = "names" THEN TRUE ELSE UNCHANGED normalizerVars
            /\ IF name = "metrics" THEN TRUE ELSE UNCHANGED metricVars
            /\ IF name = "promises" THEN TRUE ELSE UNCHANGED promVars
            /\ IF name = "calls" THEN TRUE ELSE UNCHANGED callVars
    /\ IF name \notin {"messages", "filter", "attributes", "wrapping"}
       THEN UNCHANGED <<msgVars, filterVars, attributeVars, wrapVars>>
       ELSE /\ IF name = "messages" THEN TRUE ELSE UNCHANGED msgVars
            /\ IF name = "filter" THEN TRUE ELSE UNCHANGED filterVars
            /\ IF name = "attributes" THEN TRUE ELSE UNCHANGED attributeVars
            /\ IF name = "wrapping" THEN TRUE ELSE UNCHANGED wrapVars
    /\ IF name \notin {"loading"}
       THEN UNCHANGED <<loadingVars>>
       ELSE /\ IF name = "loading" THEN TRUE ELSE UNCHANGED loadingVars

Next ==
    \/ component = "web"        /\ WebNext             /\ Idle("web")
    \/ component = "life"       /\ LifeNext            /\ Idle("life")
    \/ component = "segments"   /\ SegmentNext         /\ Idle("segments")
    \/ component = "async"      /\ AsyncNext           /\ Idle("async")
    \/ component = "names"      /\ NormalizerNext      /\ Idle("names")
    \/ component = "metrics"    /\ MetricNext          /\ Idle("metrics")
    \/ component = "promises"   /\ PromNext            /\ Idle("promises")
    \/ component = "calls"      /\ CallNext            /\ Idle("calls")
    \/ component = "messages"   /\ MessagesNext        /\ Idle("messages")
    \/ component = "filter"     /\ AttributeFilterNext /\ Idle("filter")
    \/ component = "attributes" /\ AttributesNext      /\ Idle("attributes")
    \/ component = "wrapping"   /\ WrappingNext        /\ Idle("wrapping")
    \/ component = "loading"    /\ LoadingNext         /\ Idle("loading")

vars == <<component, webVars, lifeVars, segmentVars, asyncVars, normalizerVars,
          metricVars, promVars, callVars, msgVars,
          filterVars, attributeVars, wrapVars, loadingVars>>

Spec == Init /\ [][Next]_vars

\* Methods are wrapped in layers that come off in order, handlers of promises run under the segment
\* their chain has reached, the rules for names keep their order, are not doubled, answer alike and
\* hide what they have to, a trace's times agree, and attributes are kept by what they were set for,
\* at the destinations the rules in force admit.
SurroundingsCorrect ==
    /\ component = "wrapping" =>
           /\ WrappingTypeOK /\ UnwrappedIsFree /\ OthersStayWrapped /\ CallsReachTheModule
           /\ ApplicationLayersStay
    /\ component = "promises" =>
           PromisesCorrect
    /\ component = "names" =>
           /\ NormalizerTypeOK /\ InConfiguredOrder /\ NoRuleTwice /\ SameAnswers
           /\ TermsAreHidden
    /\ component = "segments" =>
           /\ SegmentTypeOK /\ ExclusiveIsUncovered /\ RootCovers
    /\ component = "filter" =>
           /\ AttributeFilterTypeOK /\ LongestWins /\ FilterObeysRules /\ ExclusionHolds
    /\ component = "attributes" =>
           AttributesCorrect
=============================================================================
