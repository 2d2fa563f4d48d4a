------------------------------ MODULE WebRequest ------------------------------
(***************************************************************************)
(* One request through a web framework: lib/instrumentation/core/http.js   *)
(* starts and ends its transaction, lib/shim/webframework-shim.js wraps    *)
(* the middlewares it goes through, and lib/transaction/name-state.js      *)
(* keeps the stack of mount points its name is made from.                  *)
(*                                                                         *)
(* Middlewares are entered in their order; a router's own ones are entered *)
(* inside of it.  Each goes on by next(), with an error or not, or ends    *)
(* the response; one that uses promises takes up again when what it called *)
(* is done.  Paths are sequences of route names, "" being a mount point    *)
(* without one.                                                            *)
(***************************************************************************)
EXTENDS Integers, Sequences
Stacks == INSTANCE SequencesExt

CONSTANTS
    RouteOf,  \* the mount points of the middlewares, in the order they are registered
    KindOf,   \* "callback", "noNext", "errorware" or "promise"
    Routers   \* the middlewares that run others of their own

Middlewares == DOMAIN RouteOf

ASSUME WebRequestAssumption ==
    /\ RouteOf \in Seq(STRING)
    /\ KindOf \in [Middlewares -> {"callback", "noNext", "errorware", "promise"}]
    /\ Routers \subseteq Middlewares

VARIABLES
    nameState,  \* the stack of paths
    frames,     \* middlewares the request is in, outermost first
    entered,
    waiting,    \* promise middlewares waiting for what their next() started
    failing,    \* next() was called with an error that no errorware has taken yet
    txInfo,     \* segmentStack, error, errorHandled
    response,   \* "open", "ended" by Response#end, "finished" or aborted
    webTx,      \* the transaction: its name, whether the error was added, how often it ended
    webHistory  \* for the properties

webVars == <<nameState, frames, entered, waiting, failing, txInfo, response, webTx, webHistory>>

Base == 0  \* the segment of the request itself
NoPath == <<"none">>
Kind(m, k) == KindOf[m] = k

WebTypeOK ==
    /\ entered \subseteq Middlewares
    /\ \A i \in DOMAIN frames : frames[i] \in entered
    /\ \A i \in DOMAIN waiting : waiting[i] \in entered /\ Kind(waiting[i], "promise")
    /\ failing \in BOOLEAN
    /\ response \in {"open", "ended", "finished"}
    /\ \A i \in DOMAIN nameState.cache : nameState.cache[i] # ""

WebInit ==
    /\ nameState = [path |-> <<>>, marked |-> <<>>, cache |-> NoPath, frozen |-> FALSE]
    /\ frames = <<>> /\ entered = {} /\ waiting = <<>> /\ failing = FALSE
    /\ txInfo = [stack |-> <<Base>>, error |-> FALSE, handled |-> FALSE]
    /\ response = "open"
    /\ webTx = [name |-> NoPath, excepted |-> FALSE, ends |-> 0]
    /\ webHistory = [calm |-> TRUE, orderly |-> TRUE, late |-> FALSE, gone |-> {}, marked |-> FALSE, answered |-> NoPath]

-----------------------------------------------------------------------------
\* The name state.
NamePath(ns) == IF ns.path = <<>> THEN ns.marked ELSE ns.path
Joined(path) ==
    LET joined[n \in 0..Len(path)] ==
            IF n = 0 THEN <<>> ELSE IF path[n] = "" THEN joined[n - 1] ELSE Append(joined[n - 1], path[n])
    IN  joined[Len(path)]

\* getPath: the cached path, or the non-empty elements of the stack, or none.
GetPath(ns) ==
    IF ns.cache # NoPath THEN ns.cache
    ELSE IF NamePath(ns) = <<>> THEN NoPath ELSE Joined(NamePath(ns))
IsEmptyName(ns) == NamePath(ns) = <<>>
Cached(ns) == [ns EXCEPT !.cache = GetPath(ns)]

AppendPath(ns, p) ==
    IF ns.frozen THEN ns
    ELSE [ns EXCEPT !.path = Append(@, p), !.cache = IF p = "" THEN @ ELSE NoPath]

PlacesOf(p, path) == {i \in DOMAIN path : path[i] = p}
Latest(places) == CHOOSE i \in places : \A j \in places : j <= i

\* popPath: back to the last element that matches, if any does.
PopPath(ns, p) ==
    IF ns.frozen \/ ns.path = <<>> THEN ns
    ELSE [ns EXCEPT !.cache = NoPath, !.path = IF PlacesOf(p, ns.path) = {} THEN @
                    ELSE SubSeq(@, 1, Latest(PlacesOf(p, ns.path)) - 1)]

\* Slip: the name goes on changing.
FrozenNot(ns) == ns
Frozen(ns) == [ns EXCEPT !.frozen = TRUE]

-----------------------------------------------------------------------------
PopSegment(stack) == IF stack = <<>> THEN stack ELSE Stacks!Front(stack)
NoticedError(info) == [info EXCEPT !.error = TRUE, !.handled = FALSE]
MayDispatch == IF frames = <<>> THEN TRUE ELSE Stacks!Last(frames) \in Routers
\* The mount points of middlewares.
MountsOf(fr) == [i \in DOMAIN fr |-> RouteOf[fr[i]]]
GoesOn(m) == frames # <<>> /\ Stacks!Last(frames) = m /\ m \notin webHistory.gone
IsCurrent(m) == frames # <<>> /\ Stacks!Last(frames) = m

\* The wrapped middleware is called; its segment's parent is the top of the stack.
EnterMiddleware(m) ==
    /\ (\A other \in entered : other < m) /\ response # "finished"
    /\ MayDispatch
    /\ Kind(m, "errorware") <=> failing
    /\ entered' = entered \cup {m}
    /\ frames' = Append(frames, m)
    /\ nameState' = Cached(IF Kind(m, "errorware") THEN nameState ELSE AppendPath(nameState, RouteOf[m]))
    /\ txInfo' = [txInfo EXCEPT
            !.handled = @ \/ Kind(m, "errorware"),
            !.stack = IF Kind(m, "noNext") THEN @ ELSE Append(@, m)]
    /\ webHistory' = [webHistory EXCEPT !.orderly = @ /\ txInfo.stack # <<>> /\
            Stacks!Last(txInfo.stack) = Stacks!Last(<<Base>> \o frames)]
    /\ UNCHANGED <<waiting, failing, response, webTx>>

\* afterExec of a middleware without next(): its path is popped as soon as it returns,
\* and a segment with it that it never pushed.
ReturnedWithoutNext(m) ==
    /\ IsCurrent(m) /\ Kind(m, "noNext")
    /\ frames' = Stacks!Front(frames)
    /\ nameState' = PopPath(nameState, RouteOf[m])
    /\ txInfo' = [txInfo EXCEPT !.stack = PopSegment(@)]
    /\ webHistory' = [webHistory EXCEPT !.calm = FALSE]
    /\ UNCHANGED <<entered, waiting, failing, response, webTx>>

\* afterExec when a middleware throws.
Threw(m) ==
    /\ IsCurrent(m) /\ ~Kind(m, "promise")
    /\ frames' = Stacks!Front(frames) /\ failing' = TRUE
    /\ txInfo' = [NoticedError(txInfo) EXCEPT !.stack = PopSegment(@)]
    /\ webHistory' = [webHistory EXCEPT !.calm = FALSE]
    /\ UNCHANGED <<nameState, entered, waiting, response, webTx>>

\* boundNext.  A middleware that has gone on already may call it once more (bound: one of
\* this and of MarkPath).
Next1(m, err) ==
    /\ m \in entered /\ KindOf[m] \in {"callback", "errorware", "promise"}
    /\ GoesOn(m) \/ ~(webHistory.late \/ webHistory.marked)
    /\ frames' = IF GoesOn(m) THEN Stacks!Front(frames) ELSE frames
    /\ failing' = IF GoesOn(m) THEN err ELSE failing
    /\ waiting' = IF GoesOn(m) /\ Kind(m, "promise") THEN Append(waiting, m) ELSE waiting
    /\ nameState' = IF err \/ Kind(m, "errorware") THEN nameState ELSE PopPath(nameState, RouteOf[m])
    /\ txInfo' = [(IF err THEN NoticedError(txInfo) ELSE txInfo) EXCEPT
            !.stack = IF Kind(m, "promise") THEN @ ELSE PopSegment(@)]
    /\ webHistory' = [webHistory EXCEPT !.calm = @ /\ GoesOn(m) /\ ~err,
                                        !.late = @ \/ ~GoesOn(m),
                                        !.gone = @ \cup {m}]
    /\ UNCHANGED <<entered, response, webTx>>

\* onNextFinish: what a promise middleware called has been resolved.
NextFinished(m) ==
    /\ waiting # <<>> /\ Stacks!Last(waiting) = m
    /\ ~failing /\ MayDispatch
    /\ waiting' = Stacks!Front(waiting)
    /\ frames' = Append(frames, m)
    /\ nameState' = AppendPath(nameState, RouteOf[m])
    /\ txInfo' = [txInfo EXCEPT !.stack = Append(@, m)]
    /\ UNCHANGED <<entered, failing, response, webTx, webHistory>>

\* afterExec of a promise middleware, with its result or its error.
Settled1(m, err, responds) ==
    /\ IsCurrent(m) /\ Kind(m, "promise")
    /\ frames' = Stacks!Front(frames)
    /\ failing' = (failing \/ err)
    /\ LET ns == IF responds THEN Frozen(nameState) ELSE nameState
       IN  nameState' = IF err THEN ns ELSE PopPath(ns, RouteOf[m])
    /\ txInfo' = [(IF err THEN NoticedError(txInfo) ELSE [txInfo EXCEPT !.handled = TRUE]) EXCEPT
            !.stack = PopSegment(@)]
    /\ webHistory' = [webHistory EXCEPT !.calm = @ /\ ~err /\ ~responds]
    /\ UNCHANGED <<entered, waiting, response, webTx>>

\* savePossibleTransactionName; nothing keeps it from a frozen name.  Bound: once.
MarkPath ==
    /\ ~webHistory.marked /\ ~webHistory.late
    /\ nameState' = [nameState EXCEPT !.marked = nameState.path]
    /\ webHistory' = [webHistory EXCEPT !.marked = TRUE]
    /\ UNCHANGED <<frames, entered, waiting, failing, txInfo, response, webTx>>

\* Response#end; the status code may be an error's.  Called again it adds the same
\* error again, which the collector does not count twice.
ResponseEnd(bad) ==
    /\ response = "open"
    /\ response' = "ended"
    /\ webTx' = [webTx EXCEPT !.excepted = txInfo.error /\ (~txInfo.handled \/ bad)]
    /\ nameState' = Frozen(nameState)
    /\ webHistory' = [webHistory EXCEPT
            !.answered = IF frames = <<>> THEN @
                         ELSE Joined(MountsOf(frames))]
    /\ UNCHANGED <<frames, entered, waiting, failing, txInfo>>

\* instrumentedFinish: the name, then the end; the listeners are removed.
Finish ==
    /\ response # "finished"
    /\ response' = "finished"
    /\ webTx' = [webTx EXCEPT !.name = IF IsEmptyName(nameState) THEN NoPath ELSE GetPath(nameState),
                             !.ends = @ + 1]
    /\ nameState' = Cached(nameState)
    /\ UNCHANGED <<frames, entered, waiting, failing, txInfo, webHistory>>

WebNext ==
    \/ MarkPath \/ Finish
    \/ \E bad \in BOOLEAN : ResponseEnd(bad)
    \/ \E m \in Middlewares :
          \/ EnterMiddleware(m) \/ ReturnedWithoutNext(m) \/ Threw(m) \/ NextFinished(m)
          \/ \E err \in BOOLEAN : Next1(m, err) \/ \E responds \in BOOLEAN : Settled1(m, err, responds)

WebSpec == WebInit /\ [][WebNext]_webVars

-----------------------------------------------------------------------------
\* Unless a path has been marked, the cached path is that of the stack.  (A marked one
\* stays cached when "" is pushed, or another path marked, after it.)
CacheIsFresh ==
    nameState.cache # NoPath /\ ~webHistory.marked => nameState.cache = Joined(NamePath(nameState))

\* "On end, we must freeze the current name state to maintain the route that responded":
\* the transaction is named after the mount points of the middlewares the response
\* was ended in, whatever they do afterwards, unless something had failed before.
NamedAfterResponder ==
    response = "finished" /\ webHistory.calm /\ webHistory.answered # NoPath =>
        webTx.name = webHistory.answered

\* While nothing fails and no next() is called twice, a middleware's segment has its
\* parent in the router it runs in, or in the request's own.  (A promise middleware's
\* segment is pushed twice and popped once, that of a router without next() never pushed.)
SegmentsAreNested ==
    webHistory.calm /\ (\A m \in entered : ~Kind(m, "promise") /\ (Kind(m, "noNext") => m \notin Routers))
        => webHistory.orderly

\* A request is named after, and its segments nest along, the middlewares it goes through.
RoutesCorrect == WebTypeOK /\ CacheIsFresh /\ NamedAfterResponder /\ SegmentsAreNested
=============================================================================
