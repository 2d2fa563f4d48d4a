---------------------------- MODULE RecordedCalls ------------------------------
(***************************************************************************)
(* What instrumentation records of a driver's functions: Shim#record, the  *)
(* callbacks, row callbacks, promises and streams it binds (lib/shim/      *)
(* shim.js, lib/shim/datastore-shim.js, lib/shim/specs/index.js).          *)
(*                                                                         *)
(* A call has a segment, and so has each of its callbacks, so that what    *)
(* the application does in one is part of its transaction.  What a driver  *)
(* does to serve a call is not recorded again: calls that are internal to  *)
(* a shim, and everything under a segment that is opaque, until the call   *)
(* is answered; a nested call that has no segment of its own answers for   *)
(* that of the call it serves when its promise settles or its stream ends. *)
(***************************************************************************)
EXTENDS Integers, Sequences, FiniteSets

CONSTANTS
    CallSpecs,      \* specs: [fn, record, text, said, internal, opaque, promise, arg, required];
                    \* said tells whether the spec says that a query is internal, or is not
    ClientCount,    \* transactions of the application
    Callers,        \* bound: those in which drivers are called
    MaxCallSegs,    \* bound: segments besides the roots
    MaxCallDepth,   \* bound: frames on the call stack
    MaxPending      \* bound: callbacks that are waiting

Clients == 1 .. ClientCount
SpecType ==
    [fn : {"operation", "query", "other"}, record : BOOLEAN, text : BOOLEAN, said : BOOLEAN,
     internal : BOOLEAN, opaque : BOOLEAN, promise : BOOLEAN, arg : {"none", "callback", "row", "stream"}, required : BOOLEAN]

ASSUME CallAssumption ==
    /\ ClientCount \in Nat /\ Callers \subseteq Clients
    /\ CallSpecs \subseteq SpecType
    /\ MaxCallSegs \in Nat /\ MaxCallDepth \in Nat /\ MaxPending \in Nat

VARIABLES
    callSegs,   \* segments, by number: [tx, kind, opaque, internal, shim, hid]
    running,    \* tracer.segment, 0 when there is none
    callStack,  \* frames: [prev, by, tx, hid, live, spec, seg], innermost last
    pending,    \* callbacks and the like: [kind, seg, by, tx, hid, made]
    over,       \* transactions that have ended
    answered,   \* for the properties: segments whose own call has been answered
    revealed    \* and those whose opacity the end of another call took away

callVars == <<callSegs, running, callStack, pending, over, answered, revealed>>

NoSpec == [fn |-> "other", record |-> TRUE, text |-> FALSE, said |-> FALSE, internal |-> FALSE, opaque |-> FALSE,
           promise |-> FALSE, arg |-> "none", required |-> FALSE]
NoCall == 0
Top == callStack[Len(callStack)]
Codes == {"app", "driver"}

\* by says whose code it is; tx whose request it serves and hid the opaque call it is part
\* of, both for the properties.  A frame is live if its transaction was when it began.
CallTypeOK ==
    /\ \A s \in DOMAIN callSegs : callSegs[s].tx \in Clients /\ callSegs[s].opaque \in BOOLEAN
    /\ running \in {NoCall} \cup DOMAIN callSegs
    /\ \A i \in DOMAIN callStack : callStack[i].by \in Codes /\ callStack[i].tx \in Clients
    /\ \A t \in pending : t.kind \in {"callback", "bound", "row", "settle", "boundSettle", "stream", "boundStream"}

\* Operations and queries are those of one library, other calls of another.
Library(spec) == IF spec.fn = "other" THEN "other" ELSE "datastore"

Seg(tx, kind, spec, hid) ==
    [tx |-> tx, kind |-> kind, opaque |-> spec.opaque, internal |-> spec.internal, shim |-> Library(spec), hid |-> hid]

CallInit ==
    /\ callSegs = [tx \in Clients |-> Seg(tx, "root", NoSpec, NoCall)]
    /\ running = NoCall /\ callStack = <<>> /\ pending = {} /\ over = {}
    /\ answered = {} /\ revealed = {}

-----------------------------------------------------------------------------
Live(s) == s # NoCall /\ callSegs[s].tx \notin over
\* getActiveSegment.
ActiveSegment == IF Live(running) THEN running ELSE NoCall

\* What makes a segment is named by the opaque call it is part of, until that is answered.
PartOf(hid) == IF hid \in answered THEN NoCall ELSE hid

\* _rawCreateSegment: under an opaque parent the parent is taken, in a transaction that is
\* over there is none.
Created(segs, parent, kind, spec, hid) ==
    IF ~Live(parent) THEN [segs |-> segs, seg |-> NoCall]
    ELSE IF segs[parent].opaque THEN [segs |-> segs, seg |-> parent]
    ELSE [segs |-> Append(segs, Seg(segs[parent].tx, kind, spec, hid)), seg |-> Len(segs) + 1]

\* recordOperation and recordQuery make the descriptor: what is recorded is internal to the
\* shim, unless a query's spec says otherwise; an operation has neither rows nor a stream, a
\* query without a text no descriptor.
\* Other shims describe a call themselves.
Descriptor(spec) ==
    CASE spec.fn = "operation" ->
             [spec EXCEPT !.internal = @ \/ spec.record, !.arg = IF @ \in {"row", "stream"} THEN "none" ELSE @]
      [] spec.fn = "query" -> [spec EXCEPT !.internal = IF spec.said THEN @ ELSE spec.record]
      [] spec.fn = "other" -> spec
Described(spec) == spec.fn = "query" /\ spec.record => spec.text

\* applySegment: without a segment the function just runs.
Push(seg, code) ==
    /\ callStack' = Append(callStack, [code EXCEPT !.prev = running, !.seg = seg, !.live = code.tx \notin over])
    /\ running' = IF seg = NoCall THEN running ELSE seg

Code(by, tx, hid, spec) ==
    [prev |-> NoCall, by |-> by, tx |-> tx, hid |-> hid, live |-> TRUE, spec |-> spec, seg |-> NoCall]

CanPush == Len(callStack) < MaxCallDepth
RoomForSegs == Len(callSegs) < MaxCallSegs + ClientCount

\* The application gets to run in a transaction, from the outside.
AppRuns(tx) ==
    /\ callStack = <<>> /\ tx \notin over
    /\ \E root \in DOMAIN callSegs :
           /\ callSegs[root].kind = "root" /\ callSegs[root].tx = tx
           /\ Push(root, Code("app", tx, NoCall, NoSpec))
    /\ UNCHANGED <<callSegs, pending, over, answered, revealed>>

\* _bindAllCallbacks and _bindStream: a call without a segment of its own has them bound
\* to its parent's.
Bound(spec, seg, created) ==
    CASE spec.arg = "none" -> {}
      [] spec.arg = "callback" -> {[kind |-> IF created THEN "callback" ELSE "bound", seg |-> seg]}
      [] spec.arg = "row" -> {[kind |-> IF created THEN "row" ELSE "bound", seg |-> seg]}
      [] spec.arg = "stream" -> {[kind |-> IF created THEN "stream" ELSE "boundStream", seg |-> seg]}

Waiting(kind, seg, by, tx, hid, made) ==
    [kind |-> kind, seg |-> seg, by |-> by, tx |-> tx, hid |-> hid, made |-> made]

\* Slip: whether the parent is opaque is not asked.
SharesParentNot(spec, parent) ==
    spec.internal /\ callSegs[parent].internal /\ Library(spec) = callSegs[parent].shim
SharesParent(spec, parent) ==
    \/ callSegs[parent].opaque
    \/ spec.internal /\ callSegs[parent].internal /\ Library(spec) = callSegs[parent].shim

\* record: what runs calls a function.  Without a descriptor or an active segment nothing is
\* recorded, and nothing if a callback that is required is missing.
Call(raw) ==
    LET spec == Descriptor(raw)
        parent == ActiveSegment
        create == ~SharesParent(spec, parent)
        hid == PartOf(Top.hid)
        seg == IF create THEN Len(callSegs) + 1 ELSE parent
        inside == IF create /\ spec.opaque THEN seg ELSE hid
        owner == IF Top.by = "app" THEN NoCall ELSE hid
    IN  /\ callStack # <<>> /\ CanPush /\ Top.tx \in Callers
        /\ parent # NoCall
        /\ IF ~Described(raw) \/ (spec.required /\ spec.arg = "none")
           THEN /\ Push(NoCall, Code("driver", Top.tx, hid, NoSpec))
                /\ UNCHANGED <<callSegs, pending>>
           ELSE /\ create => RoomForSegs
                /\ callSegs' = IF create THEN Append(callSegs, Seg(callSegs[parent].tx, "call", spec, hid)) ELSE callSegs
                /\ pending' = pending \cup {Waiting(b.kind, b.seg, Top.by, Top.tx, owner, NoCall) : b \in Bound(spec, seg, create)}
                /\ Cardinality(pending') <= MaxPending
                /\ Push(seg, Code("driver", Top.tx, inside, spec))
        /\ UNCHANGED <<over, answered, revealed>>

\* It returns or throws; a promise it returns is bound to its segment, its own or its parent's.
Returned ==
    /\ callStack # <<>>
    /\ running' = Top.prev
    /\ callStack' = SubSeq(callStack, 1, Len(callStack) - 1)
    /\ pending' = IF Top.spec.promise /\ Top.seg # NoCall
                  THEN pending \cup {Waiting(IF Top.seg = Top.prev THEN "boundSettle" ELSE "settle",
                                            Top.seg, Top.by, Top.tx, NoCall, NoCall)}
                  ELSE pending
    /\ Cardinality(pending') <= MaxPending
    /\ UNCHANGED <<callSegs, over, answered, revealed>>

-----------------------------------------------------------------------------
\* Callbacks are called from the event loop, or from a frame of any transaction: drivers
\* share connections.
Unhidden(seg) == [callSegs EXCEPT ![seg].opaque = FALSE]

\* What is not opaque any longer: the call has answered, or one that shares its segment has.
Clears(t) ==
    IF t.kind \in {"callback", "stream", "settle"}
    THEN answered' = answered \cup {t.seg} /\ UNCHANGED revealed
    ELSE revealed' = revealed \cup {t.seg} /\ UNCHANGED answered

\* bindCallbackSegment: the call is answered, and the callback gets a segment under it.
CallBack(t) ==
    /\ t \in pending /\ t.kind = "callback" /\ CanPush /\ RoomForSegs
    /\ LET c == Created(Unhidden(t.seg), t.seg, "callback", NoSpec, PartOf(t.hid)) IN
       /\ callSegs' = c.segs
       /\ Push(c.seg, Code(t.by, t.tx, t.hid, NoSpec))
    /\ pending' = pending \ {t} /\ Clears(t)
    /\ UNCHANGED over

\* bindSegment in full; of a stream, for its listeners that are not bound themselves.
BoundBack(t) ==
    /\ t \in pending /\ t.kind \in {"bound", "boundStream"} /\ CanPush
    /\ Push(t.seg, Code(t.by, t.tx, t.hid, NoSpec))
    /\ pending' = pending \ {t}
    /\ UNCHANGED <<callSegs, over, answered, revealed>>

\* bindRowCallbackSegment: one segment for all rows, made with the first.  The wrapper is
\* bound to the call's segment itself.
Row(t) ==
    /\ t \in pending /\ t.kind = "row" /\ CanPush /\ RoomForSegs
    /\ LET c == IF t.made = NoCall THEN Created(callSegs, t.seg, "rows", NoSpec, PartOf(t.hid))
                ELSE [segs |-> callSegs, seg |-> t.made]
       IN  /\ callSegs' = c.segs
           /\ Push(IF c.seg = NoCall THEN t.seg ELSE c.seg, Code(t.by, t.tx, t.hid, NoSpec))
           /\ pending' = (pending \ {t}) \cup {[t EXCEPT !.made = c.seg]}
    /\ UNCHANGED <<over, answered, revealed>>

\* The emit of a bound stream: of the event it is about, and of its end or error for listeners
\* that on and addListener have not bound (once, pipe).
StreamEvent(t) ==
    /\ t \in pending /\ t.kind = "stream" /\ CanPush /\ RoomForSegs
    /\ LET c == IF t.tx \in over THEN [segs |-> callSegs, seg |-> t.seg]
                ELSE IF t.made # NoCall THEN [segs |-> callSegs, seg |-> t.made]
                ELSE Created(callSegs, t.seg, "event", NoSpec, PartOf(t.hid))
       IN  /\ callSegs' = c.segs
           /\ Push(c.seg, Code(t.by, t.tx, t.hid, NoSpec))
           /\ pending' = (pending \ {t}) \cup {[t EXCEPT !.made = IF t.tx \in over THEN @ ELSE c.seg]}
    /\ UNCHANGED <<over, answered, revealed>>
StreamEnds(t) ==
    /\ t \in pending /\ t.kind = "stream" /\ CanPush
    /\ callSegs' = Unhidden(t.seg)
    /\ Push(t.seg, Code(t.by, t.tx, t.hid, NoSpec))
    /\ pending' = pending \ {t} /\ Clears(t)
    /\ UNCHANGED over

\* A listener for the end or an error that on or addListener bound by bindCallbackSegment, also
\* of a stream that shares its parent's segment; it runs inside the emit.
ListenerHears(t) ==
    /\ t \in pending /\ t.kind \in {"stream", "boundStream"} /\ CanPush /\ RoomForSegs
    /\ LET c == Created(Unhidden(t.seg), t.seg, "callback", NoSpec, PartOf(t.hid)) IN
       /\ callSegs' = c.segs
       /\ Push(IF c.seg = NoCall THEN t.seg ELSE c.seg, Code(t.by, t.tx, t.hid, NoSpec))
    /\ pending' = pending \ {t} /\ Clears(t)
    /\ UNCHANGED over

\* bindPromise: its segment is no longer opaque once the promise settles.
Settles(t) ==
    /\ t \in pending /\ t.kind \in {"settle", "boundSettle"}
    /\ callSegs' = Unhidden(t.seg)
    /\ pending' = pending \ {t} /\ Clears(t)
    /\ UNCHANGED <<running, callStack, over>>

Finishes(tx) ==
    /\ tx \notin over
    /\ over' = over \cup {tx}
    /\ UNCHANGED <<callSegs, running, callStack, pending, answered, revealed>>

CallNext ==
    \/ \E tx \in Clients : AppRuns(tx)
    \/ \E tx \in Callers : Finishes(tx)
    \/ \E spec \in CallSpecs : Call(spec)
    \/ Returned
    \/ \E t \in pending :
           \/ CallBack(t) \/ BoundBack(t) \/ Row(t) \/ Settles(t)
           \/ StreamEvent(t) \/ StreamEnds(t) \/ ListenerHears(t)

CallsSpec == CallInit /\ [][CallNext]_callVars

-----------------------------------------------------------------------------
\* "extends the transaction context": code of the application runs in its own transaction,
\* from whatever frame it is called, if that transaction was active then.
CallbacksComeHome ==
    callStack # <<>> /\ Top.by = "app" /\ Top.live => running # NoCall /\ callSegs[running].tx = Top.tx

\* "Segments may now be flagged as opaque, causing internal segments to be omitted": what a
\* driver does to serve a call that is opaque is not recorded, in callbacks of its own
\* neither, until the call has answered.
\* That is not kept once a promise of a nested call has settled or a listener has heard of the
\* end of its stream (see the findings of the README); no nested callback, row or event ends it.
DriversStayHidden == \A s \in DOMAIN callSegs : callSegs[s].hid \in {NoCall} \cup revealed

\* And what the application does is: its code does not run under an opaque segment, apart
\* from the rows and events of an opaque call, which do not end it.
AppCodeIsSeen ==
    callStack # <<>> /\ Top.by = "app" /\ Top.live /\ callSegs[running].opaque =>
        \E t \in pending : t.kind \in {"row", "stream"} /\ t.made = running /\ t.seg = running

\* A frame that returns leaves the segment as it was: with no code running there is none.
NothingLeftSet == callStack = <<>> => running = NoCall

\* Calls are recorded in the transaction they serve, and what serves them is not.
CallsCorrect == CallTypeOK /\ CallbacksComeHome /\ DriversStayHidden /\ AppCodeIsSeen /\ NothingLeftSet
=============================================================================
