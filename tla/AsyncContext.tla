---------------------------- MODULE AsyncContext ----------------------------
(***************************************************************************)
(* Which transaction code runs in: tracer.segment, the functions of        *)
(* lib/transaction/tracer/index.js that set and restore it around bound    *)
(* functions, the timers, and the hooks of async_hooks.js around the       *)
(* callbacks of native promises.                                           *)
(*                                                                         *)
(* JavaScript runs one call stack at a time.  The model tells segments     *)
(* apart by their transaction only, and remembers with every frame, task   *)
(* and promise the transaction that code is causally part of.              *)
(***************************************************************************)
EXTENDS Integers, Sequences, FiniteSets

CONSTANTS
    Requests,    \* requests, each of which starts a transaction of its own
    Nested,      \* transactions that the application starts
    TaskLimit,   \* bound: callbacks waiting
    Promises,    \* ids of native promises
    FrameLimit   \* bound: frames on the call stack

VARIABLES
    current,   \* tracer.segment, by its transaction; NoTx is null
    jsFrames,    \* the call stack: [kind, prev, promise, part], innermost last
    tasks,     \* callbacks of instrumented functions: [bound, part]
    segmentMap, \* the segment of each promise, Absent when there is none
    promise,   \* each promise's state and the transaction its callback is part of
    state      \* of each transaction

asyncVars == <<current, jsFrames, tasks, segmentMap, promise, state>>

NoTx == "null"
Absent == "undefined"
AsyncTxs == Requests \cup Nested
Anyone == AsyncTxs \cup {NoTx}

ASSUME AsyncAssumption ==
    /\ NoTx \notin AsyncTxs /\ Absent \notin AsyncTxs
    /\ NoTx \notin Promises /\ Absent \notin Promises

Active(t) == t \in AsyncTxs /\ state[t] = "active"
\* tracer.getTransaction and shim.getActiveSegment.
ActiveContext == IF Active(current) THEN current ELSE NoTx
Running == jsFrames # <<>>
LastFrame == jsFrames[Len(jsFrames)]
Part == IF Running THEN LastFrame.part ELSE NoTx
MayNest == Len(jsFrames) < FrameLimit

ContextTypeOK ==
    /\ current \in Anyone
    /\ \A i \in DOMAIN jsFrames : jsFrames[i].prev \in Anyone /\ jsFrames[i].part \in Anyone
    /\ \A t \in tasks : t.bound \in Anyone /\ t.part \in Anyone
    /\ segmentMap \in [Promises -> Anyone \cup {Absent}]
    /\ \A p \in Promises : segmentMap[p] # Absent => promise[p].phase \notin {"none", "gone"}

AsyncInit ==
    /\ current = NoTx
    /\ jsFrames = <<>>
    /\ tasks = {}
    /\ segmentMap = [p \in Promises |-> Absent]
    /\ promise = [p \in Promises |-> [phase |-> "none", part |-> NoTx]]
    /\ state = [t \in AsyncTxs |-> "none"]

-----------------------------------------------------------------------------
\* bindFunction's wrapped: the segment is set, the function runs.
Enter(segment, part) ==
    /\ jsFrames' = Append(jsFrames, [kind |-> "bound", prev |-> current, promise |-> NoTx, part |-> part])
    /\ current' = segment

\* transactionProxy: "don't nest transactions, reuse existing ones".
Reuses == current # NoTx

\* A request comes to the http server, whose emit is proxied.
Request(t) ==
    /\ ~Running
    /\ state[t] = "none"
    /\ IF Reuses
       THEN Enter(current, t) /\ UNCHANGED state
       ELSE Enter(t, t) /\ state' = [state EXCEPT ![t] = "active"]
    /\ UNCHANGED <<tasks, segmentMap, promise>>

\* transactionNestProxy: reuse a transaction of the type; otherwise a new one.
StartNested(t, sameType) ==
    /\ MayNest /\ state[t] = "none"
    /\ IF ActiveContext # NoTx /\ sameType
       THEN Enter(current, Part) /\ UNCHANGED state
       ELSE Enter(t, t) /\ state' = [state EXCEPT ![t] = "active"]
    /\ UNCHANGED <<tasks, segmentMap, promise>>

EndCurrent ==
    /\ Running /\ ActiveContext # NoTx
    /\ state' = [state EXCEPT ![ActiveContext] = "ended"]
    /\ UNCHANGED <<current, jsFrames, tasks, segmentMap, promise>>

\* wrapFunction..., setTimeout, nextTick: a callback is bound to the segment it was
\* passed in; setImmediate binds even without one.
ScheduleBound == [bound |-> current, part |-> Part]

Schedule ==
    /\ Running /\ Cardinality(tasks) < TaskLimit
    /\ tasks' = tasks \cup {ScheduleBound}
    /\ UNCHANGED <<current, jsFrames, segmentMap, promise, state>>

RunTask(task) ==
    /\ ~Running /\ task \in tasks
    /\ tasks' = tasks \ {task}
    /\ Enter(task.bound, task.part)
    /\ UNCHANGED <<segmentMap, promise, state>>

\* The finally of wrapped.
RestoredAlways(frame, throws) == frame.prev

\* A bound function comes back.  What nobody catches ends in process._fatalException,
\* which removes the segment, and other jsFrames with it.
LeaveBound(throws) ==
    /\ Running /\ LastFrame.kind = "bound"
    /\ IF throws /\ Len(jsFrames) = 1
       THEN current' = NoTx
       ELSE current' = RestoredAlways(LastFrame, throws)
    /\ jsFrames' = SubSeq(jsFrames, 1, Len(jsFrames) - 1)
    /\ UNCHANGED <<tasks, segmentMap, promise, state>>

-----------------------------------------------------------------------------
\* The init hook.  trigger is the promise that then was called on, Absent for a new one.
Inherited(trigger) == IF trigger \in Promises THEN segmentMap[trigger] ELSE Absent
HookInit(p, trigger) ==
    LET parent == Inherited(trigger) IN
    IF parent \in {Absent, NoTx} /\ ActiveContext = NoTx
    THEN UNCHANGED segmentMap
    ELSE segmentMap' = [segmentMap EXCEPT ![p] =
            IF ActiveContext # NoTx THEN ActiveContext ELSE parent]

\* A callback is part of the transaction in which then was called; outside of any, of
\* that of the promise it was called on, unless that is running itself.
CreatePromise(p, trigger) ==
    /\ Running /\ promise[p].phase = "none"
    /\ trigger \in Promises => promise[trigger].phase # "none"
    /\ HookInit(p, trigger)
    /\ promise' = [promise EXCEPT ![p] = [phase |-> "waiting",
            part |-> IF Active(Part) \/ Inherited(trigger) \in {Absent, NoTx}
                     THEN Part ELSE promise[trigger].part]]
    /\ UNCHANGED <<current, jsFrames, tasks, state>>

\* The before hook: the promise's segment and the one that is current change places.
HookBefore(p) ==
    IF segmentMap[p] \in {Absent, NoTx}
    THEN UNCHANGED <<current, segmentMap>>
    ELSE /\ current' = segmentMap[p]
         /\ segmentMap' = [segmentMap EXCEPT ![p] = ActiveContext]

RunCallback(p) ==
    /\ ~Running /\ promise[p].phase = "waiting"
    /\ HookBefore(p)
    /\ jsFrames' = <<[kind |-> "hook", prev |-> NoTx, promise |-> p, part |-> promise[p].part]>>
    /\ promise' = [promise EXCEPT ![p].phase = "running"]
    /\ UNCHANGED <<tasks, state>>

\* Slip: null counts as no segment.
HookAfterFalsy(p) ==
    IF segmentMap[p] \in {Absent, NoTx}
    THEN UNCHANGED <<current, segmentMap>>
    ELSE /\ current' = segmentMap[p]
         /\ segmentMap' = [segmentMap EXCEPT ![p] = ActiveContext]

\* The after hook: "undefined is the only invalid value here".
HookAfter(p) ==
    IF segmentMap[p] = Absent
    THEN UNCHANGED <<current, segmentMap>>
    ELSE /\ current' = segmentMap[p]
         /\ segmentMap' = [segmentMap EXCEPT ![p] = ActiveContext]

\* The callback returns, awaits another time, or rejects.
LeaveCallback(phase) ==
    /\ Running /\ LastFrame.kind = "hook"
    /\ LET p == LastFrame.promise IN
       /\ HookAfter(p)
       /\ promise' = [promise EXCEPT ![p].phase = phase]
    /\ jsFrames' = <<>>
    /\ UNCHANGED <<tasks, state>>

Forgotten(p) == [segmentMap EXCEPT ![p] = Absent]

\* The destroy hook, when the promise has been collected.
Destroy(p) ==
    /\ promise[p].phase \in {"done", "rejected"}
    /\ promise' = [promise EXCEPT ![p].phase = "gone"]
    /\ segmentMap' = Forgotten(p)
    /\ UNCHANGED <<current, jsFrames, tasks, state>>

AsyncNext ==
    \/ \E t \in Requests : Request(t)
    \/ \E t \in Nested, sameType \in BOOLEAN : Running /\ StartNested(t, sameType)
    \/ EndCurrent
    \/ Schedule
    \/ \E task \in tasks : RunTask(task)
    \/ \E throws \in BOOLEAN : LeaveBound(throws)
    \/ \E p \in Promises, trigger \in Promises \cup {Absent} : p # trigger /\ CreatePromise(p, trigger)
    \/ \E p \in Promises : RunCallback(p) \/ Destroy(p)
    \/ \E phase \in {"waiting", "done", "rejected"} : LeaveCallback(phase)

AsyncSpec == AsyncInit /\ [][AsyncNext]_asyncVars

-----------------------------------------------------------------------------
\* Between two callbacks no segment is left in the tracer, however the last one ended:
\* the next request would be taken for part of it, and start no transaction.
NothingLeftBehind == ~Running => current = NoTx

\* Code never runs in another transaction than the one it is part of, and runs in that
\* one as long as it is active.
ContextFollowsCause == Running => ActiveContext = IF Active(Part) THEN Part ELSE NoTx

\* An unhandled rejection is noticed in the transaction of the code that caused it as long
\* as that is active, and never in another: segmentMap has the segment the callback ended in.
RejectionsBelong ==
    \A p \in Promises : promise[p].phase = "rejected" =>
        /\ Active(promise[p].part) => segmentMap[p] = promise[p].part
        /\ segmentMap[p] \in {promise[p].part, NoTx, Absent}

\* What holds of the context that code runs in, together.
ContextCorrect == ContextTypeOK /\ NothingLeftBehind /\ ContextFollowsCause /\ RejectionsBelong
=============================================================================
