----------------------------- MODULE ModuleLoading -----------------------------
(***************************************************************************)
(* How modules are instrumented as they are required: patchModule,         *)
(* instrument and _postLoad of lib/shimmer.js, with wrapExport and         *)
(* getExport of lib/shim/shim.js.                                          *)
(*                                                                         *)
(* Module._load is wrapped, so every require comes by; what has been done  *)
(* to a module is marked on what it exports.  Files that require a module  *)
(* by one name may get different modules, and Node resolves the name but   *)
(* once for each of them.  Between the name and the instrumentation the    *)
(* module's body runs, which may require others, itself half loaded among  *)
(* them, export something else, or throw.  A handler's own requires are    *)
(* not modelled.                                                           *)
(***************************************************************************)
EXTENDS Integers, Sequences

CONSTANTS
    Files,          \* files that require
    ModuleNames,    \* names they require
    Requires,       \* the pairs of a file and a name it requires
    ResolvedTo(_, _),  \* the module a name stands for in a file
    Outcome(_),     \* what a handler makes of its module: "patched" (also if it fails and is the
                    \*   agent's), "exported", "proxied", "declined" or "thrown"
    Handlers,       \* instrumentations, each [name, id]
    MaxRuns,        \* bound: runs of handlers
    MaxLoads        \* bound: modules whose bodies run, one inside the other

Outcomes == {"patched", "exported", "proxied", "declined", "thrown"}
NoHandler == [name |-> "none", id |-> 0]

ASSUME LoadingAssumption ==
    /\ NoHandler \notin Handlers /\ \A h \in Handlers : h.name \in ModuleNames /\ Outcome(h) \in Outcomes
    /\ Requires \subseteq Files \X ModuleNames /\ MaxRuns \in Nat /\ MaxLoads \in Nat

Loadable == {ResolvedTo(f, n) : f \in Files, n \in ModuleNames}

VARIABLES
    registered,    \* registeredInstrumentations, by name
    mark,          \* on what a module exports: "none", "instrumented" or "errored"
    filepathMap,   \* the module a name was last resolved to, "none" if it was not
    cached,        \* modules in Node's cache, from before their bodies run
    resolvedBy,    \* the files and names Node has resolved
    loads,         \* the calls of wrappedLoad whose modules' bodies run, the innermost last:
                   \*   [file, name, elsewhere : has the name been resolved to another since]
    handlerRuns,   \* [module, name, path, outcome, fresh, elsewhere, stands : of each run], where
                   \*   a run stands if it came with a require, on what its module exports now
    handed         \* [wrapper, runs : so far] for what a file got last for a name

loadingVars == <<registered, mark, filepathMap, cached, resolvedBy, loads, handlerRuns, handed>>

LoadingTypeOK ==
    /\ \A n \in ModuleNames : registered[n] \in Handlers \cup {NoHandler}
    /\ \A m \in Loadable : mark[m] \in {"none", "instrumented", "errored"}
    /\ \A n \in ModuleNames : filepathMap[n] \in Loadable \cup {"none"}
    /\ cached \subseteq Loadable /\ resolvedBy \subseteq Files \X ModuleNames
    /\ loads \in Seq([file : Files, name : ModuleNames, elsewhere : BOOLEAN])
    /\ DOMAIN handed \subseteq Files \X ModuleNames

LoadingInit ==
    /\ registered = [n \in ModuleNames |-> NoHandler]
    /\ mark = [m \in Loadable |-> "none"]
    /\ filepathMap = [n \in ModuleNames |-> "none"]
    /\ cached = {} /\ resolvedBy = {} /\ loads = <<>> /\ handlerRuns = <<>> /\ handed = <<>>

-----------------------------------------------------------------------------
\* registerInstrumentation, by the agent at its start or by the application later: the last
\* one for a name is in force.
Register(handler) ==
    /\ registered[handler.name] # handler
    /\ registered' = [registered EXCEPT ![handler.name] = handler]
    /\ UNCHANGED <<mark, filepathMap, cached, resolvedBy, loads, handlerRuns, handed>>

\* wrappedResolveFilename, which Node calls when the file requires the name for the first time.
PathSeen(file, name) ==
    IF <<file, name>> \in resolvedBy THEN filepathMap
    ELSE [filepathMap EXCEPT ![name] = ResolvedTo(file, name)]

\* Slip: only what went well is marked.
MarkAfterSuccess(outcome) == IF outcome \in {"patched", "proxied"} THEN "instrumented" ELSE "none"

\* A handler that throws leaves a mark of its own.
MarkAfter(outcome) ==
    CASE outcome \in {"patched", "proxied"} -> "instrumented"  \* the proxy hands the mark on
      [] outcome = "exported" -> "none"                         \* it is on the wrapper
      [] outcome = "declined" -> "none"
      [] outcome = "thrown" -> "errored"

\* instrument: not what bears a mark.
Instruments(module, name) == registered[name] # NoHandler /\ mark[module] = "none"

Received(file, name, wrapper) ==
    handed' = [pair \in DOMAIN handed \cup {<<file, name>>} |->
                   IF pair = <<file, name>> THEN [wrapper |-> wrapper, runs |-> Len(handlerRuns')] ELSE handed[pair]]

RunHandler(file, name, path, fresh, elsewhere, stands) ==
    /\ Len(handlerRuns) < MaxRuns
    /\ handlerRuns' = Append(handlerRuns,
           [module |-> ResolvedTo(file, name), name |-> name, path |-> path, outcome |-> Outcome(registered[name]),
            fresh |-> fresh, elsewhere |-> elsewhere, stands |-> stands])

\* What wrappedLoad does when load returns: the path is the one the name has by now.
PostLoad(file, name, path, fresh, elsewhere) ==
    LET module == ResolvedTo(file, name)
        outcome == Outcome(registered[name])
    IN  IF Instruments(module, name)
        THEN /\ RunHandler(file, name, path, fresh, elsewhere, TRUE)
             /\ mark' = [mark EXCEPT ![module] = MarkAfter(outcome)]
             /\ Received(file, name, outcome \in {"exported", "proxied"})
        ELSE /\ UNCHANGED <<mark, handlerRuns>>
             /\ Received(file, name, FALSE)

\* The calls on the stack, after a file has had a name resolved.
Overtaken(file, name) ==
    [i \in DOMAIN loads |->
        IF <<file, name>> \notin resolvedBy /\ loads[i].name = name
           /\ ResolvedTo(loads[i].file, name) # ResolvedTo(file, name)
        THEN [loads[i] EXCEPT !.elsewhere = TRUE] ELSE loads[i]]

\* wrappedLoad of a module in Node's cache, half loaded or whole: no other code runs in it.
Require(file, name) ==
    /\ ResolvedTo(file, name) \in cached
    /\ filepathMap' = PathSeen(file, name)
    /\ resolvedBy' = resolvedBy \cup {<<file, name>>}
    /\ loads' = Overtaken(file, name)
    /\ PostLoad(file, name, filepathMap'[name], <<file, name>> \notin resolvedBy, FALSE)
    /\ UNCHANGED <<registered, cached>>

\* wrappedLoad of another: its body starts to run.
StartLoad(file, name) ==
    /\ ResolvedTo(file, name) \notin cached /\ Len(loads) < MaxLoads
    /\ filepathMap' = PathSeen(file, name)
    /\ cached' = cached \cup {ResolvedTo(file, name)}
    /\ resolvedBy' = resolvedBy \cup {<<file, name>>}
    /\ loads' = Append(Overtaken(file, name), [file |-> file, name |-> name, elsewhere |-> FALSE])
    /\ UNCHANGED <<registered, mark, handlerRuns, handed>>

LoadingNow == loads[Len(loads)]
LoadingModule == ResolvedTo(LoadingNow.file, LoadingNow.name)
CallersLoads == [i \in 1..Len(loads) - 1 |-> loads[i]]

\* What a module has exported so far is given out no more.
ExportsGone(module) ==
    /\ mark' = [mark EXCEPT ![module] = "none"]
    /\ handlerRuns' = [i \in DOMAIN handlerRuns |->
           IF handlerRuns[i].module = module THEN [handlerRuns[i] EXCEPT !.stands = FALSE] ELSE handlerRuns[i]]

\* The body makes another object its exports, after a circular require has had the first one
\* instrumented.
ReplaceExports ==
    /\ loads # <<>> /\ \E i \in DOMAIN handlerRuns : handlerRuns[i].module = LoadingModule /\ handlerRuns[i].stands
    /\ ExportsGone(LoadingModule)
    /\ UNCHANGED <<registered, filepathMap, cached, resolvedBy, loads, handed>>

\* The body has run to its end.
FinishLoad ==
    /\ loads # <<>>
    /\ PostLoad(LoadingNow.file, LoadingNow.name, filepathMap[LoadingNow.name], TRUE, LoadingNow.elsewhere)
    /\ loads' = CallersLoads
    /\ UNCHANGED <<registered, filepathMap, cached, resolvedBy>>

\* The body throws: Node forgets the module, and wrappedLoad throws on.
LoadFails ==
    /\ loads # <<>>
    /\ ExportsGone(LoadingModule)
    /\ cached' = cached \ {LoadingModule}
    /\ resolvedBy' = {pair \in resolvedBy : ResolvedTo(pair[1], pair[2]) # LoadingModule}
    /\ loads' = CallersLoads
    /\ UNCHANGED <<registered, filepathMap, handed>>

\* instrumentLoadedModule, which neither looks at the mark nor leaves one.
InstrumentLoaded(file, name) ==
    /\ <<file, name>> \in DOMAIN handed /\ registered[name] # NoHandler
    /\ RunHandler(file, name, ResolvedTo(file, name), FALSE, FALSE, FALSE)
    /\ UNCHANGED <<registered, mark, filepathMap, cached, resolvedBy, loads, handed>>

LoadingNext ==
    \/ \E handler \in Handlers : Register(handler)
    \/ \E file \in Files, name \in ModuleNames :
           /\ <<file, name>> \in Requires
           /\ Require(file, name) \/ StartLoad(file, name) \/ InstrumentLoaded(file, name)
    \/ ReplaceExports \/ FinishLoad \/ LoadFails

LoadingSpec == LoadingInit /\ [][LoadingNext]_loadingVars

-----------------------------------------------------------------------------
\* Runs on what a module exports, of those that have come with a require.
RunsOn(module, outcomes) ==
    {i \in DOMAIN handlerRuns : LET r == handlerRuns[i]
                               IN  r.module = module /\ r.stands /\ r.outcome \in outcomes}
Marking == {"patched", "proxied", "thrown"}

\* "Already instrumented or failed to instrument, skipping redundant instrumentation": by
\* whatever names, in whatever files, half loaded or whole and however late its handler is
\* registered, what a module exports is not instrumented any more once a handler has been
\* done with it.
InstrumentedOnce ==
    \A module \in Loadable : \A i \in RunsOn(module, Marking) :
        \A j \in RunsOn(module, Marking \cup {"exported", "declined"}) : j <= i

\* "Should replace the return value from require": wherever a module is required by a
\* name for which its exports have been replaced, they are replaced again.  (A proxy hands the mark on to the
\* module, which is then given away as it is.)
EverybodyGetsTheWrapper ==
    \A pair \in DOMAIN handed :
        LET module == ResolvedTo(pair[1], pair[2])
            before == 1..handed[pair].runs
        IN  /\ \E i \in RunsOn(module, {"exported"}) \cap before : handlerRuns[i].name = pair[2]
            /\ RunsOn(module, Marking \cup {"declined"}) \cap before = {}
            => handed[pair].wrapper

\* The path a shim is told is one the name stands for in some file, so no path has to be
\* resolved by force; it is the module's own when a file requires it for the first time,
\* unless the name was resolved to another while the module's body ran.  (After that it may
\* be told that of any module of the name.)
PathsAreRight ==
    \A i \in DOMAIN handlerRuns :
        LET r == handlerRuns[i]
        IN  /\ r.path \in {ResolvedTo(f, r.name) : f \in Files}
            /\ r.fresh /\ ~r.elsewhere => r.path = r.module

\* Modules are instrumented once, under their own paths, and given to all who require them.
LoadingCorrect == LoadingTypeOK /\ InstrumentedOnce /\ EverybodyGetsTheWrapper /\ PathsAreRight
================================================================================
