--------------------------- MODULE TransactionLife ---------------------------
(***************************************************************************)
(* How a transaction starts, is named and ends: the functions of api.js,   *)
(* the http server's instrumentation, lib/transaction/index.js and what    *)
(* lib/agent.js does with a transaction that has ended.                    *)
(*                                                                         *)
(* JavaScript runs one call stack at a time; its frames hold the           *)
(* transaction that is current in them.  A name is the sequence of what    *)
(* it is made of: where it comes from, then the rules applied to it.       *)
(***************************************************************************)
EXTENDS Integers, Sequences, FiniteSets

CONSTANTS
    Txs,        \* transactions there may be
    Plain,      \* bound: those that are no requests and in which no API is called
    UserRules,  \* "rename", "ignore": rules the application may add
    ServerRules, \* rules a connect may bring: url, tx: "none", "rename", "ignore"; terms
    MaxDepth    \* bound: frames on the call stack

ASSUME LifeAssumption ==
    /\ IsFiniteSet(Txs) /\ Plain \subseteq Txs
    /\ UserRules \subseteq {"rename", "ignore"}
    /\ ServerRules \subseteq [url : {"none", "rename", "ignore"}, tx : {"none", "rename", "ignore"}, terms : BOOLEAN]
    /\ MaxDepth \in Nat

VARIABLES
    tx,         \* the transactions
    calls,      \* the call stack: [tx, creates], innermost last
    activeTransactions,
    rules       \* the server's rules, and user: those of the configuration and the API

lifeVars == <<tx, calls, activeTransactions, rules>>

NoName == <<>>
Unborn == [phase |-> "none", type |-> "none", http |-> FALSE, url |-> FALSE, route |-> FALSE,
           partial |-> NoName, name |-> NoName, ignore |-> FALSE, forceIgnore |-> "unset",
           forceName |-> NoName, external |-> FALSE, pending |-> FALSE, threw |-> FALSE,
           asked |-> FALSE, recorded |-> NoName, handed |-> NoName]

Alive(t) == tx[t].phase = "active"
Innermost == calls[Len(calls)]
Current == IF calls = <<>> THEN "none" ELSE Innermost.tx
\* tracer.getTransaction.
InTransaction == calls # <<>> /\ Alive(Current)
MayCallApi == InTransaction /\ Current \notin Plain

\* Every active transaction is counted, and none twice.
LifeTypeOK ==
    /\ \A t \in Txs : tx[t].phase \in {"none", "active", "ended"}
    /\ activeTransactions = Cardinality({t \in Txs : Alive(t)})

LifeInit ==
    /\ tx = [t \in Txs |-> Unborn]
    /\ calls = <<>>
    /\ activeTransactions = 0
    /\ rules = [user |-> "none", url |-> "none", tx |-> "none", terms |-> FALSE]

-----------------------------------------------------------------------------
\* Names.  A rule renames, ignores or does not match.
Applied(rule, tag, name) ==
    [matched |-> rule = "rename", ignore |-> rule = "ignore",
     value |-> IF rule = "rename" THEN Append(name, tag) ELSE name]
ServerNamed(name) == Applied(rules.tx, "txRule", name)

\* _runUserNamingRules: the server's rules for URLs work on what the user's have made of it.
RunUserNamingRules ==
    LET user   == Applied(rules.user, "userRule", <<"url">>)
        server == Applied(rules.url, "urlRule", user.value)
    IN  IF user.matched THEN [server EXCEPT !.matched = TRUE] ELSE user

\* The URL, when nothing has named the transaction: by a rule, or the backstop.
UrlName ==
    LET server == Applied(rules.url, "urlRule", <<"url">>)
    IN  IF server.matched THEN server ELSE [server EXCEPT !.value = <<"backstop">>]

GivenName(x) ==
    IF x.forceName # NoName THEN x.forceName ELSE IF x.route THEN <<"route">> ELSE x.partial

\* _partialNameFromUri; bad is a status code with a name of its own.
PartialNameFromUri(x, bad) ==
    LET user == RunUserNamingRules
    IN  CASE user.matched -> user
          [] ~user.matched /\ GivenName(x) # NoName -> [user EXCEPT !.value = GivenName(x)]
          [] ~user.matched /\ GivenName(x) = NoName /\ bad -> [user EXCEPT !.value = <<"status">>]
          [] OTHER -> [UrlName EXCEPT !.ignore = @ \/ user.ignore]

Forced(x, ignore) == IF x.forceIgnore = "unset" THEN ignore ELSE x.forceIgnore = "yes"

NamedIgnored(x, ignore) == Forced(x, ignore)

FinalizedFromUri(x, bad) ==
    LET partial == PartialNameFromUri(x, bad)
        server  == ServerNamed(partial.value)
    IN  [x EXCEPT
            !.partial = partial.value,
            !.name = IF rules.terms THEN Append(server.value, "terms") ELSE server.value,
            !.ignore = NamedIgnored(x, @ \/ partial.ignore \/ server.ignore)]

\* finalizeName(null), which does not look at the segment terms.
FinalizedName(x) ==
    LET partial == IF x.forceName # NoName THEN x.forceName ELSE x.partial
    IN  CASE x.type = "web" /\ x.url -> FinalizedFromUri(x, FALSE)
          [] ~(x.type = "web" /\ x.url) /\ partial = NoName -> [x EXCEPT !.partial = partial]
          [] OTHER -> [x EXCEPT !.partial = partial,
                                !.name = ServerNamed(partial).value,
                                !.ignore = NamedIgnored(x, @ \/ ServerNamed(partial).ignore)]

FullName(x) == IF x.forceName # NoName THEN ServerNamed(x.forceName).value ELSE x.name

\* _transactionFinished: what is kept of it, under which name.
HandedOver(x) ==
    IF Forced(x, x.ignore) THEN [x EXCEPT !.ignore = TRUE]
    ELSE [x EXCEPT !.ignore = FALSE, !.handed = FullName(x)]

\* Transaction#end, once it is named: the recorders run before it is handed over.
EndedNow(x) ==
    LET named == IF x.name = NoName THEN FinalizedName(x) ELSE x
    IN  HandedOver([named EXCEPT
            !.phase = "ended", !.recorded = IF named.ignore THEN NoName ELSE named.name])

End(t, x) ==
    /\ tx' = [tx EXCEPT ![t] = IF x.phase = "active" THEN EndedNow(x) ELSE x]
    /\ activeTransactions' = activeTransactions - IF x.phase = "active" THEN 1 ELSE 0

-----------------------------------------------------------------------------
\* The user's rules on the URL of a transaction that starts.
NamedEarly(x) ==
    [x EXCEPT !.ignore = RunUserNamingRules.ignore,
              !.partial = IF RunUserNamingRules.matched THEN RunUserNamingRules.value ELSE @]

Called(t, creates) == calls' = Append(calls, [tx |-> t, creates |-> creates])
Left == calls' = SubSeq(calls, 1, Len(calls) - 1)

\* A request comes in: its listeners run in a transaction of its own.
HttpStart(t) ==
    /\ tx[t].phase = "none" /\ calls = <<>> /\ t \notin Plain
    /\ tx' = [tx EXCEPT ![t] = NamedEarly([Unborn EXCEPT
                !.phase = "active", !.type = "web", !.http = TRUE, !.url = TRUE])]
    /\ activeTransactions' = activeTransactions + 1
    /\ Called(t, FALSE)
    /\ UNCHANGED rules

\* transactionNestProxy: transactions of one type are not nested.
Reused(type) == InTransaction /\ tx[Current].type = type

Started(type) ==
    IF type = "web" THEN NamedEarly([Unborn EXCEPT !.phase = "active", !.type = "web",
                                                   !.url = TRUE, !.route = TRUE])
    ELSE [Unborn EXCEPT !.phase = "active", !.type = "bg", !.partial = <<"background">>]

Creates(type) == ~Reused(type)

\* startWebTransaction, startBackgroundTransaction: the handler is called.
StartTransaction(t, type) ==
    /\ Len(calls) < MaxDepth
    /\ IF Reused(type) THEN t = Current ELSE tx[t].phase = "none"
    /\ tx' = IF Reused(type) THEN tx ELSE [tx EXCEPT ![t] = Started(type)]
    /\ activeTransactions' = activeTransactions + IF Reused(type) THEN 0 ELSE 1
    /\ Called(t, Creates(type))
    /\ UNCHANGED rules

\* A callback that was bound to a segment of the transaction; a plain one has none (bound).
Resume(t) ==
    /\ calls = <<>> /\ tx[t].phase # "none" /\ t \notin Plain
    /\ Called(t, FALSE)
    /\ UNCHANGED <<tx, activeTransactions, rules>>

\* The handler returns a value.
Return ==
    /\ calls # <<>>
    /\ Left
    /\ IF Innermost.creates /\ ~tx[Current].external THEN End(Current, tx[Current])
       ELSE UNCHANGED <<tx, activeTransactions>>
    /\ UNCHANGED rules

\* Slip: the promise of a background transaction is forgotten.
AwaitsRequests(x) == x.type = "web"
Awaits(x) == TRUE
\* The handler returns a promise; whatever becomes of it, the transaction ends then.
ReturnPromise ==
    /\ calls # <<>> /\ Innermost.creates
    /\ Left
    /\ tx' = [tx EXCEPT ![Current].pending = Awaits(tx[Current])]
    /\ UNCHANGED <<activeTransactions, rules>>

PromiseSettled(t) ==
    /\ tx[t].pending /\ calls = <<>>
    /\ End(t, [tx[t] EXCEPT !.pending = FALSE])
    /\ UNCHANGED <<calls, rules>>

\* The handler throws: the frame goes, and nothing ends the transaction.
Throw ==
    /\ calls # <<>>
    /\ Left
    /\ tx' = [tx EXCEPT ![Current].threw = @ \/ Innermost.creates]
    /\ UNCHANGED <<activeTransactions, rules>>

\* setTransactionName, setControllerName.
SetTransactionName ==
    /\ MayCallApi
    /\ tx' = [tx EXCEPT ![Current].forceName = <<"custom">>]
    /\ UNCHANGED <<calls, activeTransactions, rules>>

\* The name state of a web framework.
SetRoute ==
    /\ MayCallApi /\ tx[Current].http
    /\ tx' = [tx EXCEPT ![Current].route = TRUE]
    /\ UNCHANGED <<calls, activeTransactions, rules>>

\* setIgnoreTransaction, and ignore() of a handle, which may come late.
SetIgnore(t, value) ==
    /\ IF MayCallApi /\ Current = t THEN TRUE ELSE value = "yes" /\ tx[t].external
    /\ tx' = [tx EXCEPT ![t].forceIgnore = value]
    /\ UNCHANGED <<calls, activeTransactions, rules>>

\* getTransaction: the application will end it.
GetTransaction ==
    /\ MayCallApi
    /\ tx' = [tx EXCEPT ![Current].external = TRUE]
    /\ UNCHANGED <<calls, activeTransactions, rules>>

\* TransactionHandle#end.
HandleEnd(t) ==
    /\ tx[t].external
    /\ End(t, [tx[t] EXCEPT !.asked = TRUE])
    /\ UNCHANGED <<calls, rules>>

EndTransaction ==
    /\ MayCallApi
    /\ LET x == [tx[Current] EXCEPT !.asked = TRUE]
       IN  End(Current, IF x.type = "web" THEN FinalizedFromUri(x, FALSE) ELSE x)
    /\ UNCHANGED <<calls, rules>>

\* instrumentedFinish: named by its URL, though it may have ended.
HttpFinish(t, bad) ==
    /\ tx[t].http /\ calls = <<>>
    /\ End(t, [FinalizedFromUri(tx[t], bad) EXCEPT !.http = FALSE])
    /\ UNCHANGED <<calls, rules>>

\* A connect brings rules (bound: once); addNamingRule and addIgnoringRule (bound: once).
LoadRules(loaded) ==
    /\ rules.url = "none" /\ rules.tx = "none" /\ ~rules.terms
    /\ rules' = [rules EXCEPT !.url = loaded.url, !.tx = loaded.tx, !.terms = loaded.terms]
    /\ UNCHANGED <<tx, calls, activeTransactions>>
AddUserRule(rule) ==
    /\ rules.user = "none"
    /\ rules' = [rules EXCEPT !.user = rule]
    /\ UNCHANGED <<tx, calls, activeTransactions>>

LifeNext ==
    \/ Return \/ ReturnPromise \/ Throw
    \/ SetTransactionName \/ SetRoute \/ GetTransaction \/ EndTransaction
    \/ \E t \in Txs :
          \/ HttpStart(t) \/ Resume(t) \/ PromiseSettled(t) \/ HandleEnd(t)
          \/ \E type \in {"web", "bg"} : StartTransaction(t, type)
          \/ \E value \in {"yes", "no"} : SetIgnore(t, value)
          \/ \E bad \in BOOLEAN : HttpFinish(t, bad)
    \/ \E loaded \in ServerRules : LoadRules(loaded)
    \/ \E rule \in UserRules : AddUserRule(rule)

LifeSpec == LifeInit /\ [][LifeNext]_lifeVars

-----------------------------------------------------------------------------
\* "This will cause the transaction to clean up after itself without collecting any
\* data": one that is not handed over has not run its recorders either, though the two
\* decide at different places.
IgnoredRecordsNothing ==
    \A t \in Txs : tx[t].phase = "ended" => (tx[t].handed = NoName <=> tx[t].recorded = NoName)

\* The metrics and the events of a transaction bear one name, unless the API has named
\* one whose URL a rule of the user's, or a segment term, names otherwise.
OneName ==
    \A t \in Txs : tx[t].handed # tx[t].recorded =>
        tx[t].forceName # NoName /\ (rules.user = "rename" \/ rules.terms)

\* "Overrides any New Relic naming rules set in configuration or from New Relic's servers": a
\* name the application gives by the API does so for the route, the URL and the server's rules
\* for URLs.  It does not for a rule of the user's that renames, which wins, nor for the
\* server's rules for transactions and its segment terms, which work on the name.
ApiNameWins ==
    \A t \in Txs : tx[t].recorded # NoName /\ tx[t].forceName # NoName =>
        \/ rules.user = "rename"
        \/ /\ Head(tx[t].recorded) = "custom"
           /\ \A i \in 2..Len(tx[t].recorded) : tx[t].recorded[i] \in {"txRule", "terms"}

\* "This transaction will run until the handle synchronously returns": nobody else ends
\* it before, unless the application asks for it.
RunsToReturn ==
    \A i \in DOMAIN calls :
        calls[i].creates /\ tx[calls[i].tx].phase = "ended" => tx[calls[i].tx].asked

\* A transaction that is active has someone who will end it: its handler, a promise, the
\* application or the response.  (If the handler throws, nobody does.)
NoneForgotten ==
    \A t \in Txs : Alive(t) =>
        \/ tx[t].http \/ tx[t].pending \/ tx[t].external \/ tx[t].threw
        \/ \E i \in DOMAIN calls : calls[i].tx = t /\ calls[i].creates

\* Transactions end once, by whom they should, and under one name.
LivesCorrect ==
    /\ LifeTypeOK /\ IgnoredRecordsNothing /\ OneName /\ ApiNameWins
    /\ RunsToReturn /\ NoneForgotten
================================================================================
