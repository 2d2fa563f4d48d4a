------------------------------- MODULE Wrapping --------------------------------
(***************************************************************************)
(* How methods of other people's modules are replaced and put back: wrap,  *)
(* wrapReturn, unwrap, unwrapOnce and unwrapAll of lib/shim/shim.js, with  *)
(* wrapMethod, unwrapMethod and unwrapAll of lib/shimmer.js.               *)
(*                                                                         *)
(* A wrapped function knows what it has wrapped (__NR_original) and how to *)
(* take itself off (__NR_unwrap), which puts that back into the property   *)
(* it was wrapped in.  The application wraps the same methods, copies them *)
(* to other properties, and some libraries copy a function's properties    *)
(* too.                                                                    *)
(***************************************************************************)
EXTENDS Integers, Sequences
LOCAL INSTANCE SequencesExt

CONSTANTS
    MethodCount,  \* properties of a module
    MaxFunctions  \* bound: functions there may be

ASSUME WrappingAssumption == MethodCount \in Nat

Methods == 1..MethodCount

VARIABLES
    functions,  \* [maker, inner : what it calls, original, unwrap : a way to put back, or none]
    method,     \* the function each property holds
    retained,   \* in debug mode: what the shim and shimmer have wrapped
    wrapNotes   \* for the properties: [shared, clean, stray : properties,
                  \*   layers : what the application has put on each]

wrapVars == <<functions, method, retained, wrapNotes>>

AllFunctions == DOMAIN functions
NotThere == 0
NoUnwrap == [at |-> NotThere, function |-> NotThere, answers |-> FALSE]

WrappingTypeOK ==
    /\ \A f \in AllFunctions :
        /\ functions[f].maker \in {"module", "shim", "shimmer", "application"}
        /\ functions[f].inner < f /\ functions[f].original < f
        /\ functions[f].unwrap # NoUnwrap => functions[f].original # NotThere
    /\ \A p \in Methods : method[p] \in AllFunctions

WrappingInit ==
    /\ functions = [p \in Methods |->
           [maker |-> "module", inner |-> NotThere, original |-> NotThere, unwrap |-> NoUnwrap]]
    /\ method = [p \in Methods |-> p]
    /\ retained = [shim |-> <<>>, shimmer |-> <<>>]
    /\ wrapNotes = [shared |-> {}, clean |-> {}, stray |-> {}, layers |-> [p \in Methods |-> {}]]

-----------------------------------------------------------------------------
\* Slip: the closure does not say what it has put back.
PutsBackSilently(p) == [at |-> p, function |-> method[p], answers |-> FALSE]
PutsBack(p) == [at |-> p, function |-> method[p], answers |-> TRUE]

Wrapped(f) == functions[f].original # NotThere

Replace(p, function) ==
    /\ Len(functions) < MaxFunctions
    /\ functions' = Append(functions, function)
    /\ method' = [method EXCEPT ![p] = Len(functions')]

\* shim.wrap, and wrapReturn with its proxy: on top of whatever is there.
ShimWrap(p) ==
    /\ Replace(p, [maker |-> "shim", inner |-> method[p], original |-> method[p], unwrap |-> PutsBack(p)])
    /\ retained' = [retained EXCEPT !.shim = Append(@, method'[p])]
    /\ wrapNotes' = [wrapNotes EXCEPT !.clean = @ \ {p}]

\* shimmer.wrapMethod: not on top of what can be unwrapped; what unwraps it answers nothing.
WrapMethod(p) ==
    /\ functions[method[p]].unwrap = NoUnwrap
    /\ Replace(p, [maker |-> "shimmer", inner |-> method[p], original |-> method[p],
                   unwrap |-> [at |-> p, function |-> method[p], answers |-> FALSE]])
    /\ retained' = [retained EXCEPT !.shimmer = Append(@, method'[p])]
    /\ wrapNotes' = [wrapNotes EXCEPT !.clean = @ \ {p}]

\* The application wraps a method itself, and may copy what it finds on the function.
ApplicationWraps(p, copies) ==
    LET f == functions[method[p]] IN
    /\ Replace(p, [maker |-> "application", inner |-> method[p],
                   original |-> IF copies THEN f.original ELSE NotThere,
                   unwrap |-> IF copies THEN f.unwrap ELSE NoUnwrap])
    /\ wrapNotes' = [wrapNotes EXCEPT !.clean = @ \ {p},
                                      !.layers[p] = IF copies THEN {} ELSE @ \cup {method'[p]}]
    /\ UNCHANGED retained

\* One method becomes another too (bound: once).
AliasMethod(p, q) ==
    /\ wrapNotes.shared = {} /\ method[q] # method[p]
    /\ method' = [method EXCEPT ![q] = method[p]]
    /\ wrapNotes' = [wrapNotes EXCEPT !.clean = @ \ {q}, !.shared = @ \cup {p, q}]
    /\ UNCHANGED <<functions, retained>>

-----------------------------------------------------------------------------
\* unwrapOnce: f's own way to put back if it has one.  s.here is the function at hand.
TakeOff(s) ==
    LET f == functions[s.here] IN
    IF s.here = NotThere \/ f.original = NotThere THEN s
    ELSE IF f.unwrap = NoUnwrap THEN [s EXCEPT !.here = f.original]
    ELSE [method |-> [s.method EXCEPT ![f.unwrap.at] = f.unwrap.function],
          here |-> IF f.unwrap.answers THEN f.unwrap.function ELSE NotThere]

\* unwrap: until there is nothing to take off.
TakeAllOff(m, f) == FoldLeft(LAMBDA s, i : TakeOff(s), [method |-> m, here |-> f], functions).method

Noted(p, clean) ==
    wrapNotes' = [wrapNotes EXCEPT
        !.clean = IF clean THEN @ \cup {p} ELSE @,
        !.stray = @ \cup {q \in Methods \ {p} : method'[q] # method[q]}]

Unwrap(p) ==
    /\ Wrapped(method[p])
    /\ method' = TakeAllOff(method, method[p])
    /\ Noted(p, TRUE)
    /\ UNCHANGED <<functions, retained>>

\* shim.unwrapOnce, and shimmer.unwrapMethod, which forgets the function.
UnwrapOnce(p) ==
    /\ Wrapped(method[p])
    /\ method' = TakeOff([method |-> method, here |-> method[p]]).method
    /\ retained' = IF functions[method[p]].maker = "shimmer"
                   THEN [retained EXCEPT !.shimmer = SelectSeq(@, LAMBDA f : f # method[p])]
                   ELSE retained
    /\ Noted(p, FALSE)
    /\ UNCHANGED functions

\* shimmer.unwrapAll: first all of the shim's, then those of wrapMethod, each in the order
\* they were wrapped; the shim does not forget them.
UnwrapAll ==
    LET shims == FoldLeft(LAMBDA m, f : TakeAllOff(m, f), method, retained.shim)
    IN  /\ retained.shim # <<>> \/ retained.shimmer # <<>>
        /\ method' = FoldLeft(LAMBDA m, f : TakeOff([method |-> m, here |-> f]).method, shims, retained.shimmer)
        /\ retained' = [shim |-> <<>>, shimmer |-> <<>>]
        /\ wrapNotes' = [wrapNotes EXCEPT !.clean = Methods, !.layers = [p \in Methods |-> {}]]
        /\ UNCHANGED functions

WrappingNext ==
    \/ UnwrapAll
    \/ \E p \in Methods :
          \/ ShimWrap(p) \/ WrapMethod(p) \/ Unwrap(p) \/ UnwrapOnce(p)
          \/ \E copies \in BOOLEAN : ApplicationWraps(p, copies)
          \/ \E q \in Methods : AliasMethod(p, q)

-----------------------------------------------------------------------------
\* What a function calls, and what that calls, down to the module's own.
CalledBy(f) ==
    FoldLeft(LAMBDA s, i : s \cup ({functions[g].inner : g \in s} \ {NotThere}), {f}, functions)

\* "Fully unwrap nested wrappers": a method that has been unwrapped, and all of them when
\* all have been, is free of the agent down to what the application has put there.
UnwrappedIsFree ==
    \A p \in wrapNotes.clean \ wrapNotes.shared : ~Wrapped(method[p])

\* Who unwraps one method leaves the others alone, unless they share a function.
OthersStayWrapped == wrapNotes.stray \subseteq wrapNotes.shared

\* However it was wrapped and unwrapped, a method still comes down to the one the module
\* has defined, unless it was replaced by another.
CallsReachTheModule ==
    \A p \in Methods \ wrapNotes.shared : p \in CalledBy(method[p])

\* The agent takes off no layer of the application's, unless everything is unwrapped or the
\* application has copied the agent's marks to one.
ApplicationLayersStay ==
    \A p \in Methods \ wrapNotes.shared : wrapNotes.layers[p] \subseteq CalledBy(method[p])
=============================================================================
