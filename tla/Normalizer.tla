----------------------------- MODULE Normalizer -----------------------------
(***************************************************************************)
(* The rules that rename and ignore: lib/metrics/normalizer.js, its        *)
(* rule.js and tx_segment.js.  The application's list starts with the      *)
(* rules of the configuration; the server's list comes with each connect.  *)
(*                                                                         *)
(* A path is a sequence of segments of one character; a pattern matches a  *)
(* segment that it hits.  A regular expression with the flag g remembers   *)
(* in lastIndex where its last test ended, and RegExp#test starts there.   *)
(***************************************************************************)
EXTENDS Integers, Sequences
LOCAL INSTANCE SequencesExt

CONSTANTS
    NamePaths,      \* paths to normalize
    Configured,     \* rules.name of the configuration, with distinct names
    ConfiguredReverse, \* feature_flag.reverse_naming_rules
    SimplePatterns, \* patterns of the API's rules: sets of segments they hit
    SimpleName,     \* the segment the API's naming rules rename to
    SimpleLimit,    \* bound: calls to the API's addNamingRule and addIgnoringRule
    Loads,          \* lists of rules that connects bring
    TermLoads       \* lists of transaction_segment_terms that connects bring

VARIABLES
    userRules,   \* userNormalizer.rules
    serverRules, \* the rules of a normalizer that the server fills
    terms,       \* txSegmentNormalizer.terms: per prefix the listed segments
    answers      \* what each path was last answered under these rules, per list

normalizerVars == <<userRules, serverRules, terms, answers>>

Star == "*"
NoAnswers == [p \in NamePaths |-> {}]

\* A rule as NormalizerRule leaves it; from is what a reader would call it.
RuleOf(from, order, each, terminal, all, ignore, hits, to) ==
    [from |-> from, order |-> order, each |-> each, terminal |-> terminal, all |-> all,
     ignore |-> ignore, hits |-> hits, to |-> to, lastIndex |-> 0]

\* Only what ignores keeps a place: a rule that renames replaces after its test.
NormalizerTypeOK ==
    /\ \A list \in {userRules, serverRules} : \A i \in DOMAIN list :
          list[i].lastIndex > 0 => list[i].ignore /\ list[i].all
    /\ answers \in [{"user", "server"} -> [NamePaths -> SUBSET UNION
                     {answers[list][p] : list \in {"user", "server"}, p \in NamePaths}]]
    /\ \A list \in {"user", "server"}, p \in NamePaths : \A a \in answers[list][p] :
          Len(a.path) = Len(p)

-----------------------------------------------------------------------------
\* loadFromConfig, one rule: in front of the first that must come later.
Inserted(list, rule) ==
    LET after == {i \in DOMAIN list : IF ConfiguredReverse THEN list[i].order >= rule.order
                                                           ELSE list[i].order > rule.order} IN
    IF after = {} THEN Append(list, rule)
    ELSE InsertAt(list, CHOOSE i \in after : \A j \in after : i <= j, rule)

\* The application's pattern keeps its own flags, g among them.
Simple(hits, global, ignore) ==
    RuleOf("api", 0, FALSE, TRUE, global, ignore, hits, SimpleName)

\* load: no rule twice, then by precedence; the sort is stable.
Loaded(json) ==
    SortSeq(FoldLeft(LAMBDA list, r : IF Contains(list, r) THEN list ELSE Append(list, r),
                     <<>>, json),
            LAMBDA a, b : a.order < b.order)

\* filterRules: the last entry of a prefix counts; malformed ones are left out.
FilteredTerms(json) ==
    LET good == {i \in DOMAIN json : json[i].wellFormed}
        lastOf(p) == CHOOSE i \in good : json[i].prefix = p
                                      /\ \A j \in good : json[j].prefix = p => j <= i
    IN [p \in {json[i].prefix : i \in good} |-> json[lastOf(p)].terms]

-----------------------------------------------------------------------------
\* RegExp#test on a string, here a sequence of segments.
Tested(rule, string) ==
    LET found == {k \in DOMAIN string : k > rule.lastIndex /\ string[k] \in rule.hits} IN
    [matched |-> found # {},
     rule |-> [rule EXCEPT !.lastIndex =
        IF found # {} /\ rule.all THEN CHOOSE k \in found : \A j \in found : k <= j ELSE 0]]

GetSegments(rule, path) == IF rule.each THEN [i \in DOMAIN path |-> <<path[i]>>] ELSE <<path>>

\* rule.matches, up to the first string that matches.
Matches(rule, path) ==
    FoldLeft(LAMBDA acc, s : IF acc.matched THEN acc ELSE Tested(acc.rule, s),
             [matched |-> FALSE, rule |-> rule], GetSegments(rule, path))

\* String#replace, of the first hit or of all of them.
Replaced(rule, string) ==
    LET hit == {k \in DOMAIN string : string[k] \in rule.hits} IN
    [k \in DOMAIN string |->
        IF k \in hit /\ (rule.all \/ \A j \in hit : k <= j) THEN rule.to ELSE string[k]]

\* rule.apply.
Apply(rule, path) ==
    IF rule.ignore
    THEN [matched |-> Matches(rule, path).matched, rule |-> Matches(rule, path).rule, path |-> path]
    ELSE LET strings == GetSegments(rule, path) IN
         [matched |-> \E i \in DOMAIN path : path[i] \in rule.hits,
          rule |-> [rule EXCEPT !.lastIndex = 0],
          path |-> FlattenSeq([i \in DOMAIN strings |-> Replaced(rule, strings[i])])]

\* normalize: each rule on what the ones before have made of the path.
Normalized(list, path) ==
    FoldLeft(LAMBDA acc, i :
        LET a == Apply(acc.list[i], acc.path) IN
        IF acc.done THEN acc
        ELSE [list |-> [acc.list EXCEPT ![i] = a.rule],
              path |-> a.path,
              matched |-> acc.matched \/ (a.matched /\ ~list[i].ignore),
              ignore |-> acc.ignore \/ (a.matched /\ list[i].ignore),
              done |-> a.matched /\ list[i].terminal],
        [list |-> list, path |-> path, matched |-> FALSE, ignore |-> FALSE, done |-> FALSE],
        [i \in DOMAIN list |-> i])

Answer(n) == [path |-> n.path, matched |-> n.matched, ignore |-> n.ignore]

\* txSegmentNormalizer.normalize behind a prefix.
Hidden(listed, parts) ==
    FoldLeft(LAMBDA out, s : IF s \in listed THEN Append(out, s)
                             ELSE IF out # <<>> /\ Last(out) = Star THEN out ELSE Append(out, Star),
             <<>>, parts)

NormalizerInit ==
    /\ userRules = FoldLeft(Inserted, <<>>, Configured)
    /\ serverRules = <<>>
    /\ terms = <<>>
    /\ answers = [list \in {"user", "server"} |-> NoAnswers]

-----------------------------------------------------------------------------
\* addNamingRule and addIgnoringRule: to the head of the list.
AddSimple(hits, global, ignore) ==
    /\ Len(userRules) < Len(Configured) + SimpleLimit
    /\ userRules' = <<Simple(hits, global, ignore)>> \o userRules
    /\ answers' = [answers EXCEPT !.user = NoAnswers]
    /\ UNCHANGED <<serverRules, terms>>

\* A connect.
LoadNames(json) ==
    /\ serverRules' = Loaded(json)
    /\ answers' = [answers EXCEPT !.server = NoAnswers]
    /\ UNCHANGED <<userRules, terms>>

LoadTerms(json) ==
    /\ terms' = FilteredTerms(json)
    /\ UNCHANGED <<userRules, serverRules, answers>>

NormalizeUser(p) ==
    /\ userRules' = Normalized(userRules, p).list
    /\ answers' = [answers EXCEPT !.user[p] = {Answer(Normalized(userRules, p))}]
    /\ UNCHANGED <<serverRules, terms>>

NormalizeServer(p) ==
    /\ serverRules' = Normalized(serverRules, p).list
    /\ answers' = [answers EXCEPT !.server[p] = {Answer(Normalized(serverRules, p))}]
    /\ UNCHANGED <<userRules, terms>>

NormalizerNext ==
    \/ \E hits \in SimplePatterns, global, ignore \in BOOLEAN : AddSimple(hits, global, ignore)
    \/ \E json \in Loads : LoadNames(json)
    \/ \E json \in TermLoads : LoadTerms(json)
    \/ \E p \in NamePaths : NormalizeUser(p) \/ NormalizeServer(p)

-----------------------------------------------------------------------------
\* "These rules will always be highest precedence": the API's rules come first; those of
\* the configuration follow by precedence, and among equals as configured, or the other
\* way round when the flag says so.
InConfiguredOrder ==
    LET place(r) == CHOOSE k \in DOMAIN Configured : Configured[k].from = r.from IN
    \A i, j \in DOMAIN userRules : (i < j /\ userRules[i].from # "api")
        => \/ userRules[j].from # "api" /\ userRules[i].order < userRules[j].order
           \/ /\ userRules[i].order = userRules[j].order
              /\ userRules[j].from # "api"
              /\ (place(userRules[i]) < place(userRules[j])) # ConfiguredReverse

\* "no need to add the same rule twice": nor does a duplicate change where a rule stands.
NoRuleTwice ==
    \A i, j \in DOMAIN serverRules : i < j =>
        /\ serverRules[i].order <= serverRules[j].order
        /\ [serverRules[i] EXCEPT !.lastIndex = 0] # [serverRules[j] EXCEPT !.lastIndex = 0]

\* "RegExp#test advances internal state": all the same a path is answered alike until the
\* rules change.  Not by a list with a rule that ignores and whose expression has the flag g,
\* the server's replace_all or the application's own: nothing resets what such a rule remembers.
Forgets(list) == \A i \in DOMAIN list : ~(list[i].ignore /\ list[i].all)
SameAnswers ==
    \A p \in NamePaths :
        /\ Forgets(userRules) => \A a \in answers.user[p] : a = Answer(Normalized(userRules, p))
        /\ Forgets(serverRules) => \A a \in answers.server[p] : a = Answer(Normalized(serverRules, p))

\* "Collapse all adjacent placeholder segments": what is kept of a name are its listed
\* segments, in place, and one placeholder for every run of others.
TermsAreHidden ==
    \A prefix \in DOMAIN terms, parts \in NamePaths :
        LET listed == terms[prefix]
            kept == SelectSeq([i \in DOMAIN parts |-> i],
                              LAMBDA i : parts[i] \in listed \/ i = 1 \/ parts[i - 1] \in listed)
        IN Hidden(listed, parts)
             = [k \in DOMAIN kept |-> IF parts[kept[k]] \in listed THEN parts[kept[k]] ELSE Star]
=============================================================================
