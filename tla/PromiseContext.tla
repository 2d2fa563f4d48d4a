---------------------------- MODULE PromiseContext -----------------------------
(***************************************************************************)
(* The segment a promise's handlers run under: lib/instrumentation/        *)
(* promise.js and lib/shim/promise-shim.js, which hold the same algorithm  *)
(* twice.  Promises of one chain share a context, a table of segments;     *)
(* each has its place in it and the place of the one it came from.         *)
(*                                                                         *)
(* Creating segments for promises is a feature flag that is off: what a    *)
(* chain hands on are the segments application code had at its start and   *)
(* those of the promises its handlers return.                              *)
(***************************************************************************)
EXTENDS Integers, Sequences, FiniteSets

CONSTANTS
    PromSegments,   \* segments, by name
    TxOf(_),        \* the transaction of a segment
    NoSegment,
    MaxPromises,    \* bound: promises, while no transaction has ended and all are linked
    MaxOthers,      \* bound: promises otherwise
    MaxWork,        \* bound: promises and the segments handlers return
    MaxMade         \* bound: promises that are made and not chained

VARIABLES
    promises,  \* [linked, link, prev, up, status, cont, own, ran]: see PromTypeOK
    tables,    \* the segments of each context, NoSegment where null
    ended,     \* transactions that have ended
    crossed    \* for the properties: contexts with branches the algorithm does not account for
               \* or a place left empty in the middle

promVars == <<promises, tables, ended, crossed>>

Chain == DOMAIN promises
Unlinked == [context |-> 0, idx |-> 0, parentIdx |-> 0, child |-> 0]
Many == -1      \* the child of a promise that has several, false in the code

\* link is a promise's Contextualizer, which those before it and its handler may hold on to
\* when the promise has dropped it (linked).  prev is the promise it was chained to, or 0;
\* cont the segment of the promise its handler has returned.  For the properties: up, prev if
\* they were linked, own, the segment it started or continued with, and ran, the one its
\* handler ran under.
PromTypeOK ==
    \A p \in Chain :
        LET l == promises[p].link IN
        /\ l.context \in 0 .. Len(tables)
        /\ l.context # 0 => /\ l.idx \in DOMAIN tables[l.context]
                            /\ l.parentIdx \in {0} \cup DOMAIN tables[l.context]
                            /\ l.child \in {Many, 0} \cup Chain
        /\ promises[p].status \in {"pending", "waiting", "done"}
        /\ promises[p].prev < p /\ promises[p].up \in {0, promises[p].prev}

PromInit == promises = <<>> /\ tables = <<>> /\ ended = {} /\ crossed = {}

-----------------------------------------------------------------------------
OrElse(s, t) == IF s # NoSegment THEN s ELSE t
At(table, i) == IF i = 0 THEN NoSegment ELSE table[i]

\* segments[idx] || segments[parentIdx] || segments[0]; places are counted from 1 here,
\* and none is 0.
SegmentAt(ts, l) ==
    LET table == ts[l.context] IN OrElse(At(table, l.idx), OrElse(At(table, l.parentIdx), table[1]))

\* getSegment keeps what it finds.
Kept(ts, l) == [ts EXCEPT ![l.context][l.idx] = SegmentAt(ts, l)]

IsActive(p) == promises[p].linked /\ TxOf(SegmentAt(tables, promises[p].link)) \notin ended

Fresh(prev) == [linked |-> FALSE, link |-> Unlinked, prev |-> prev, up |-> 0, status |-> "pending",
                cont |-> NoSegment, own |-> NoSegment, ran |-> NoSegment]

\* Contextualizer.link without a previous promise: the root of a chain.
LinkRoot(ps, next, segment) ==
    IF segment = NoSegment THEN promises' = Append(ps, next) /\ UNCHANGED tables
    ELSE /\ tables' = Append(tables, <<segment>>)
         /\ promises' = Append(ps, [next EXCEPT !.own = segment, !.linked = TRUE, !.link =
                [Unlinked EXCEPT !.context = Len(tables) + 1, !.idx = 1]])

\* The only child of p, the only child of that one and so on.
Line(ps, p) ==
    LET Closed(S) == \A q \in S \cup {p} : ps[q].link.child > 0 => ps[q].link.child \in S
    IN  {q \in DOMAIN ps : \A S \in SUBSET DOMAIN ps : Closed(S) => q \in S}

\* The second child of p: p gets a place of its own unless it is the root of the chain, and
\* the line of its first child moves to a new branch.
Branched(ps, ts, p) ==
    LET l == ps[p].link
        own == IF l.parentIdx # 0 THEN Append(ts[l.context], NoSegment) ELSE ts[l.context]
        branch == Len(own) + 1
        place == IF l.parentIdx # 0 THEN Len(own) ELSE l.idx
    IN  [table |-> Append(own, NoSegment),
         promises |-> [q \in DOMAIN ps |->
             IF q = p THEN [ps[q] EXCEPT !.link.child = Many, !.link.idx = place]
             ELSE IF q \in Line(ps, p)
             THEN [ps[q] EXCEPT !.link.idx = branch,
                                !.link.parentIdx = IF q = l.child THEN place ELSE branch]
             ELSE ps[q]]]

\* Contextualizer.link with a previous promise that has a context.
LinkNext(prev, next) ==
    LET b == IF promises[prev].link.child > 0 THEN Branched(promises, tables, prev)
             ELSE [table |-> tables[promises[prev].link.context], promises |-> promises]
        l == b.promises[prev].link
        place == IF l.child = Many THEN Len(b.table) + 1 ELSE l.idx
        link == [context |-> l.context, idx |-> place, parentIdx |-> l.idx, child |-> 0]
        n == Len(promises) + 1
    IN  /\ tables' = [tables EXCEPT ![l.context] = IF l.child = Many THEN Append(b.table, NoSegment) ELSE b.table]
        /\ promises' = Append(IF l.child = 0 THEN [b.promises EXCEPT ![prev].link.child = n] ELSE b.promises,
                              [next EXCEPT !.linked = TRUE, !.link = link, !.up = prev])

\* A second branch where there is one elsewhere in the chain, or when a handler has moved
\* the chain on: "This does not account for branches of branches."
Crossing(prev) ==
    LET l == promises[prev].link
        others == {q \in Chain \ {prev} : promises[q].link.context = l.context}
    IN  /\ l.child # 0
        /\ \E q \in others : promises[q].link.child = Many \/ (promises[q].up # 0 /\ promises[q].own # NoSegment)

\* A link that is dropped before its handler has run: that will not fill its place, on which
\* those that were chained to it rely.
LeavesGap(prev) ==
    promises[prev].linked /\ promises[prev].link.child # 0 /\ promises[prev].status = "pending"

\* So does one whose handler is passed over while its place is empty.
SkipsAPlace(p) ==
    LET l == promises[p].link IN promises[p].linked /\ tables[l.context][l.idx] = NoSegment

-----------------------------------------------------------------------------
PutThere == {p \in Chain : promises[p].cont # NoSegment \/ (promises[p].up # 0 /\ promises[p].own # NoSegment)}
Work == Len(promises) + Cardinality(PutThere)
More ==
    /\ Work < MaxWork
    /\ Len(promises) < IF ended = {} /\ \A p \in Chain : promises[p].linked THEN MaxPromises ELSE MaxOthers
Made == Cardinality({p \in Chain : promises[p].prev = 0})

\* wrapConstructor and wrapExecutorCaller link a promise made under an active segment,
\* wrapCast and wrapPromisify one made under any.
Construct(segment) ==
    /\ More /\ Made < MaxMade
    /\ LinkRoot(promises, Fresh(0), IF segment # NoSegment /\ TxOf(segment) \notin ended THEN segment ELSE NoSegment)
    /\ UNCHANGED <<ended, crossed>>
Cast(segment) == More /\ Made < MaxMade /\ LinkRoot(promises, Fresh(0), segment) /\ UNCHANGED <<ended, crossed>>

\* _wrapThen, called under some segment; a handler that is wrapped already is not linked.
Then(prev, segment, isWrapped) ==
    /\ More
    /\ IF isWrapped THEN promises' = Append(promises, Fresh(prev)) /\ UNCHANGED <<tables, crossed>>
       ELSE IF IsActive(prev)
       THEN /\ LinkNext(prev, Fresh(prev))
            /\ crossed' = IF Crossing(prev) THEN crossed \cup {promises[prev].link.context} ELSE crossed
       ELSE /\ LinkRoot([promises EXCEPT ![prev].linked = FALSE], Fresh(prev), segment)
            /\ crossed' = IF LeavesGap(prev) THEN crossed \cup {promises[prev].link.context} ELSE crossed
    /\ UNCHANGED ended

\* A promise that was made settles in its own time.
Settle(p) ==
    /\ promises[p].prev = 0 /\ promises[p].status = "pending"
    /\ promises' = [promises EXCEPT ![p].status = "done"]
    /\ UNCHANGED <<tables, ended, crossed>>

\* The promise p was chained to is done, and it is p's turn.
HasItsTurn(p) ==
    /\ promises[p].status = "pending"
    /\ promises[p].prev # 0 /\ promises[promises[p].prev].status = "done"

\* The handler of p runs: under p's segment if p is linked.  It returns a value, or a promise
\* that has a segment or not.
Handler(p, returned) ==
    LET l == promises[p].link
        segment == IF promises[p].linked THEN SegmentAt(tables, l) ELSE NoSegment
    IN  /\ HasItsTurn(p)
        /\ returned # NoSegment => promises[p].linked /\ Work < MaxWork
        /\ tables' = IF promises[p].linked THEN Kept(tables, l) ELSE tables
        /\ promises' = [promises EXCEPT ![p].ran = segment, ![p].cont = returned,
                            ![p].status = IF returned = NoSegment THEN "done" ELSE "waiting"]
        /\ UNCHANGED <<ended, crossed>>

\* A rejection passes a then, a fulfilment a catch: p takes over what was before it, and
\* nothing of the agent's is called.
Skip(p) ==
    /\ HasItsTurn(p)
    /\ promises' = [promises EXCEPT ![p].status = "done"]
    /\ crossed' = IF SkipsAPlace(p) THEN crossed \cup {promises[p].link.context} ELSE crossed
    /\ UNCHANGED <<tables, ended>>

\* continueContext: the returned promise settles, and p goes on with its segment.
ContinueContext(p) ==
    LET l == promises[p].link IN
    /\ promises[p].status = "waiting"
    /\ promises' = [promises EXCEPT ![p].status = "done", ![p].own = promises[p].cont, ![p].cont = NoSegment]
    /\ tables' = [tables EXCEPT ![l.context][l.idx] = promises[p].cont]
    /\ UNCHANGED <<ended, crossed>>

\* Bound: one transaction ends.
EndTx(tx) ==
    /\ ended = {} /\ Len(promises) <= MaxOthers
    /\ ended' = ended \cup {tx}
    /\ UNCHANGED <<promises, tables, crossed>>

PromNext ==
    \/ \E s \in PromSegments : Construct(s) \/ Cast(s)
    \/ \E p \in Chain, s \in PromSegments \cup {NoSegment}, w \in BOOLEAN : Then(p, s, w)
    \/ \E p \in Chain, s \in PromSegments \cup {NoSegment} : Handler(p, s)
    \/ \E p \in Chain : Settle(p) \/ Skip(p) \/ ContinueContext(p)
    \/ \E s \in PromSegments : EndTx(TxOf(s))

PromSpec == PromInit /\ [][PromNext]_promVars

-----------------------------------------------------------------------------
\* The segment each promise's chain has reached with it: of the nearest promise, it or one
\* before it, that started or continued with one.
SegmentReached ==
    LET own[q \in 0 .. Len(promises)] ==
            IF q = 0 THEN NoSegment ELSE OrElse(promises[q].own, own[promises[q].up])
    IN  own

\* The promise each one's chain started with.
ChainRoot ==
    LET root[q \in 0 .. Len(promises)] ==
            IF q = 0 \/ promises[q].up = 0 THEN q ELSE root[promises[q].up]
    IN  root

\* "so the branches can parent their segments on the branch-point": a handler runs under
\* the segment its chain had reached, whatever else is chained to the promises before it,
\* unless the chain has branches of branches, a branch that came after handlers had run, or a
\* promise in its middle that dropped its link or was passed over in a place not yet filled.
HandlersFollowTheirChain ==
    \A p \in Chain :
        promises[p].ran # NoSegment /\ promises[p].up # 0 /\ promises[p].link.context \notin crossed =>
            promises[p].ran = SegmentReached[promises[p].up]

\* However the branches are: a handler runs under a segment of its own chain.
NoStrangersSegment ==
    \A p \in Chain :
        promises[p].ran # NoSegment /\ promises[p].up # 0 =>
            \E q \in Chain : ChainRoot[q] = ChainRoot[p] /\ promises[q].own = promises[p].ran

\* "If prev has one child already": a promise that is linked always has a segment to run
\* under, in every place of its context.
AlwaysASegment ==
    \A p \in Chain : promises[p].link.context # 0 => SegmentAt(tables, promises[p].link) # NoSegment

\* The segment a handler runs under, on which everything it calls is hung.
PromisesCorrect ==
    PromTypeOK /\ HandlersFollowTheirChain /\ NoStrangersSegment /\ AlwaysASegment
=============================================================================
