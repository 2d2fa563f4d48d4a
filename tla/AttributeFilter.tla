---------------------------- MODULE AttributeFilter ----------------------------
(***************************************************************************)
(* lib/config/attribute-filter.js: which attributes may go where.  Rules   *)
(* include and exclude keys, for everything and for one destination, by    *)
(* name or by a prefix and a star; the rules of a list are merged into one *)
(* regular expression, and results are cached.                             *)
(***************************************************************************)
EXTENDS Integers, Sequences, FiniteSets
FilterSeqs == INSTANCE SequencesExt
FilterSets == INSTANCE FiniteSetsExt

CONSTANTS
    AttributeKeys,  \* keys, as sequences of characters
    RuleSets,       \* the lists of rules a setting may hold
    PolicyRule,     \* what a security policy excludes: request.parameters.*
    CacheLimit      \* attributes.filter_cache_limit

VARIABLES
    settings,    \* [includeEnabled, enabled : destinations, rules : of each list]
    imported,    \* the rules the filter has compiled
    cache        \* results by destination and key

filterVars == <<settings, imported, cache>>

Destinations == {"trace", "span"}
Lists == {"global"} \cup Destinations
ExactMatch == 99
NoMatch == 0

AttributeFilterTypeOK ==
    /\ settings.enabled \subseteq Destinations
    /\ \A l \in Lists : imported[l].include \in RuleSets \cup {{}}
    /\ DOMAIN cache \subseteq Destinations \X AttributeKeys
    /\ \A pair \in DOMAIN cache : cache[pair] \in {"none", "in", "out"}
    /\ Cardinality(DOMAIN cache) <= CacheLimit

-----------------------------------------------------------------------------
(***************************************************************************)
(* _convertRulesToRegex: rules are sorted by length and merged by their    *)
(* dotted parts, so rules that begin alike become neighbours; a regular    *)
(* expression takes the first alternative that matches.                    *)
(***************************************************************************)
Wild(rules) == {r \in rules : r.wild}

\* The parts of a rule: each is what it begins with up to a dot, or the whole of it.
PartsOf(rule) ==
    LET dots == SelectSeq([i \in DOMAIN rule.path |-> i], LAMBDA i : rule.path[i] = ".")
    IN  Append([i \in DOMAIN dots |-> [text |-> SubSeq(rule.path, 1, dots[i]), last |-> FALSE]],
               [text |-> rule.path, last |-> TRUE])

\* A part's place, the greater the earlier, is that of the longest rule it is a part of.
PlaceOf(part, rules) ==
    FilterSets!Max({Len(r.path) : r \in {s \in rules : \E k \in DOMAIN PartsOf(s) : PartsOf(s)[k] = part}})

\* Of two rules the one is tried first whose part has the earlier place where they part.
TriedBefore(r, s, rules) ==
    \E k \in DOMAIN PartsOf(r) \cap DOMAIN PartsOf(s) :
        /\ PlaceOf(PartsOf(r)[k], rules) > PlaceOf(PartsOf(s)[k], rules)
        /\ \A i \in 1..(k - 1) : PartsOf(r)[i] = PartsOf(s)[i]

\* _matchRules: the strength of a match is what the first alternative matched.
MatchRules(rules, key) ==
    LET matching == {r \in Wild(rules) : FilterSeqs!IsPrefix(r.path, key)}
        first == CHOOSE r \in matching : \A s \in matching \ {r} : TriedBefore(r, s, Wild(rules))
    IN  IF \E r \in rules \ Wild(rules) : r.path = key THEN ExactMatch
        ELSE IF matching = {} THEN NoMatch
        ELSE Len(first.path) + 1

\* _doTest.
TestKey(globalInclude, globalExclude, include, exclude) ==
    IF globalExclude = ExactMatch \/ exclude = ExactMatch THEN "out"
    ELSE IF globalInclude = ExactMatch \/ include = ExactMatch THEN "in"
    ELSE IF {globalInclude, globalExclude, include, exclude} = {NoMatch} THEN "none"
    ELSE IF \/ include > exclude /\ include >= globalExclude
            \/ globalInclude > exclude /\ globalInclude > globalExclude THEN "in" ELSE "out"

ResultFor(dest, key) ==
    TestKey(MatchRules(imported["global"].include, key), MatchRules(imported["global"].exclude, key),
            MatchRules(imported[dest].include, key), MatchRules(imported[dest].exclude, key))

\* AttributeFilter#update.
Import(s) ==
    [l \in Lists |-> [include |-> IF s.includeEnabled THEN s.rules[l].include ELSE {},
                      exclude |-> s.rules[l].exclude]]

NoRules == [l \in Lists |-> [include |-> {}, exclude |-> {}]]

AttributeFilterInit ==
    /\ settings \in [includeEnabled : BOOLEAN, enabled : {Destinations, {"trace"}},
                     rules : {NoRules} \cup {[NoRules EXCEPT !["trace"] = rules] :
                                                 rules \in [include : RuleSets, exclude : RuleSets]}]
    /\ settings.includeEnabled = (settings.enabled = Destinations)
    /\ imported = Import(settings)
    /\ cache = <<>>

\* A setting changes with an event the filter listens to.
SettingChanges(list, kind, rules) ==
    /\ settings.rules[list][kind] # rules
    /\ settings' = [settings EXCEPT !.rules[list][kind] = rules]
    /\ imported' = Import(settings')
    /\ cache' = <<>>

\* applyLasp adds a rule and emits nothing.
SettingChangesSilently(rule) ==
    /\ rule \notin settings.rules["global"].exclude
    /\ settings' = [settings EXCEPT !.rules["global"].exclude = @ \cup {rule}]
    /\ UNCHANGED <<imported, cache>>

\* The result for a destination that is enabled: from the cache if it is there.
CachedResult(dest, key) ==
    IF <<dest, key>> \in DOMAIN cache THEN cache[<<dest, key>>] ELSE ResultFor(dest, key)

\* filterTransaction and filterSegment: _filter for the destinations of a scope.
FilterKey(scope, key) ==
    /\ LET missing == {d \in scope \cap settings.enabled : <<d, key>> \notin DOMAIN cache}
       IN  /\ missing # {} /\ Cardinality(DOMAIN cache) < CacheLimit
           /\ \E d \in missing :
                 cache' = [p \in DOMAIN cache \cup {<<d, key>>} |->
                              IF p \in DOMAIN cache THEN cache[p] ELSE ResultFor(d, key)]
    /\ UNCHANGED <<settings, imported>>

\* Where _filter lets a key go that is wanted at some destinations.
PassesTo(wanted, scope, key) ==
    {d \in wanted \cup scope :
        IF d \notin scope THEN TRUE
        ELSE /\ d \in settings.enabled
             /\ CachedResult(d, key) = "in" \/ (CachedResult(d, key) = "none" /\ d \in wanted)}

AttributeFilterNext ==
    \/ \E kind \in {"include", "exclude"}, rules \in RuleSets : SettingChanges("global", kind, rules)
    \/ SettingChangesSilently(PolicyRule)
    \/ \E dest \in Destinations, key \in AttributeKeys : FilterKey({dest}, key)

-----------------------------------------------------------------------------
\* "This way the regex will test the rules with the highest possible strength before weaker
\* rules": however rules are merged, the alternative that matches is the longest that does.
LongestWins ==
    \A rules \in {imported[l].include \cup imported[l].exclude : l \in Lists}, key \in AttributeKeys :
        LET lengths == {Len(r.path) + 1 : r \in {w \in Wild(rules) : FilterSeqs!IsPrefix(w.path, key)}}
        IN  (\A r \in rules : r.path = key => r.wild) =>
                MatchRules(rules, key) = IF lengths = {} THEN NoMatch ELSE FilterSets!Max(lengths)

\* Rules that match a key by name, and the longest prefixes: of these a destination's exclude
\* comes first, then its include, then the global exclude.
Matching(list, kind, key) == {r \in imported[list][kind] : IF r.wild THEN FilterSeqs!IsPrefix(r.path, key) ELSE r.path = key}
Allowed(dest, key) ==
    LET all == [l \in {"global", dest} |-> [k \in {"include", "exclude"} |-> Matching(l, k, key)]]
        of(k) == all["global"][k] \cup all[dest][k]
        longest == FilterSets!Max({Len(r.path) : r \in of("include") \cup of("exclude")})
        Strongest(rules) == \E r \in rules : Len(r.path) = longest
    IN  IF of("include") \cup of("exclude") = {} THEN "none"
        ELSE IF \E r \in of("exclude") : ~r.wild THEN "out"
        ELSE IF \E r \in of("include") : ~r.wild THEN "in"
        ELSE IF Strongest(all[dest]["exclude"]) THEN "out"
        ELSE IF Strongest(all[dest]["include"]) THEN "in"
        ELSE IF Strongest(all["global"]["exclude"]) THEN "out" ELSE "in"

\* What is cached is what the rules say that are in force, also after they have changed.
FilterObeysRules ==
    \A dest \in settings.enabled, key \in AttributeKeys : CachedResult(dest, key) = Allowed(dest, key)

\* Nothing goes to a destination that is not enabled, or was excluded from it by name.
ExclusionHolds ==
    \A key \in AttributeKeys :
        \A d \in PassesTo(Destinations, Destinations, key) :
            /\ d \in settings.enabled
            /\ [path |-> key, wild |-> FALSE] \notin imported["global"].exclude \cup imported[d].exclude
=============================================================================
