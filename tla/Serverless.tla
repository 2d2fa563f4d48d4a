------------------------------- MODULE Serverless ------------------------------
(***************************************************************************)
(* The agent in an AWS Lambda function: lib/serverless/aws-lambda.js, with *)
(* lib/collector/serverless.js.  An invocation's transaction is ended by   *)
(* its callback, its promise, an exception or the end of the process's     *)
(* work, whichever comes first; data is printed when a transaction ends.   *)
(* The runtime may give up on an invocation, whose code then goes on       *)
(* during a later one.                                                     *)
(***************************************************************************)
EXTENDS Integers, Sequences

CONSTANTS
    MaxInvocations,  \* bound
    MaxLambdaCalls   \* bound: ends of one invocation's code: callbacks, promises, exceptions

ASSUME LambdaAssumption == MaxInvocations \in Nat /\ MaxLambdaCalls \in Nat

VARIABLES
    invocations,  \* [ended, index : of its ender, errors, cold, calls, answered, printed]
    enders,       \* transactionEnders: each place's invocation, Cleaned or Hole
    uncaught,     \* uncaughtException: the invocation whose error it is
    serving,      \* the invocation the runtime waits for
    outside       \* what an ender did out of its turn: [cleared : invocations whose place
                  \*   another has cleared, late : invocations whose errors
                  \*   may go elsewhere: they had ended, or one before them had not]

lambdaVars == <<invocations, enders, uncaught, serving, outside>>

Invocations == DOMAIN invocations
Nobody == 0
Cleaned == -1
Hole == -2

ServerlessTypeOK ==
    /\ \A i \in Invocations : /\ invocations[i].errors \subseteq Invocations
                              /\ invocations[i].index \in 1..MaxInvocations
                              /\ invocations[i].calls \in 0..MaxLambdaCalls
    /\ \A p \in DOMAIN enders : enders[p] \in {Cleaned, Hole} \cup Invocations
    /\ uncaught \in {Nobody} \cup Invocations /\ serving \in {Nobody} \cup Invocations
    /\ outside.cleared \subseteq Invocations /\ outside.late \subseteq Invocations

ServerlessInit ==
    /\ invocations = <<>> /\ enders = <<>> /\ uncaught = Nobody /\ serving = Nobody
    /\ outside = [cleared |-> {}, late |-> {}]

-----------------------------------------------------------------------------
\* The state the enders work on.
Lambda == [all |-> invocations, enders |-> enders, uncaught |-> uncaught, cleared |-> outside.cleared]

PlaceAt(s, p) == IF p \in DOMAIN s.enders THEN s.enders[p] ELSE Hole
Clear(s, p) == [q \in 1..(IF p > Len(s.enders) THEN p ELSE Len(s.enders)) |->
                   IF q = p THEN Cleaned ELSE PlaceAt(s, q)]

\* errors.add: an error that comes when the transaction has ended is added to nothing.
AddError(all, i, error) ==
    IF error = Nobody \/ all[i].ended THEN all ELSE [all EXCEPT ![i].errors = @ \cup {error}]

\* Slip: the exception is not forgotten when it has been added.
EndInvocationKeeping(s, i) ==
    LET p == s.all[i].index
    IN  IF PlaceAt(s, p) = Cleaned THEN s
        ELSE [all |-> [AddError(s.all, i, s.uncaught) EXCEPT ![i].ended = TRUE, ![i].printed = TRUE],
              enders |-> Clear(s, p), uncaught |-> s.uncaught,
              cleared |-> s.cleared \cup ({PlaceAt(s, p)} \ {i, Hole})]

\* endTransaction: its place tells whether it has been called.  The harvest prints what has
\* been collected.
EndInvocation(s, i) ==
    LET p == s.all[i].index
    IN  IF PlaceAt(s, p) = Cleaned THEN s
        ELSE [all |-> [AddError(s.all, i, s.uncaught) EXCEPT ![i].ended = TRUE, ![i].printed = TRUE],
              enders |-> Clear(s, p), uncaught |-> Nobody,
              cleared |-> s.cleared \cup ({PlaceAt(s, p)} \ {i, Hole})]

\* All that are left, in order; then the array is a new one.
EndAll(s) ==
    LET ended[p \in 0..Len(s.enders)] ==
            IF p = 0 THEN s
            ELSE IF s.enders[p] \in {Cleaned, Hole} THEN ended[p - 1]
            ELSE EndInvocation(ended[p - 1], s.enders[p])
    IN  [ended[Len(s.enders)] EXCEPT !.enders = <<>>]

Becomes(s, late) ==
    /\ invocations' = s.all /\ enders' = s.enders /\ uncaught' = s.uncaught
    /\ outside' = [cleared |-> s.cleared, late |-> late]

\* wrappedHandler: a transaction, and a place for what ends it.
Invoke ==
    /\ serving = Nobody /\ Len(invocations) < MaxInvocations
    /\ serving' = Len(invocations) + 1
    /\ enders' = Append(enders, serving')
    /\ invocations' = Append(invocations,
           [ended |-> FALSE, index |-> Len(enders'), errors |-> {}, cold |-> invocations = <<>>,
            calls |-> 0, answered |-> FALSE, printed |-> FALSE])
    /\ UNCHANGED <<uncaught, outside>>

RuntimeAnswered(i) == serving' = IF serving = i THEN Nobody ELSE serving
MayCall(i) == invocations[i].calls < MaxLambdaCalls
InvocationCalled(i) == [invocations EXCEPT ![i].calls = @ + 1, ![i].answered = TRUE]

\* wrappedCallback, of the callback and of context's done and fail; wrappedSucceed.
CallbackCalled(i, failed) ==
    /\ MayCall(i)
    /\ Becomes(EndInvocation([Lambda EXCEPT !.all = AddError(InvocationCalled(i), i, IF failed THEN i ELSE Nobody)], i),
               outside.late)
    /\ RuntimeAnswered(i)

\* The handler throws or its promise settles: lambdaInterceptPromise.
HandlerEnds(i, failed) ==
    /\ MayCall(i)
    /\ Becomes(EndInvocation([Lambda EXCEPT !.all = InvocationCalled(i), !.uncaught = IF failed THEN i ELSE @], i),
               IF failed /\ (PlaceAt(Lambda, invocations[i].index) = Cleaned \/ invocations[i].ended)
               THEN outside.late \cup {i} ELSE outside.late)
    /\ RuntimeAnswered(i)

\* process emits beforeExit: nothing is left to be done.
BeforeExit ==
    /\ enders # <<>>
    /\ Becomes(EndAll(Lambda), outside.late)
    /\ serving' = Nobody

\* The invocation that is ended first.
FirstOpen ==
    LET open == {p \in DOMAIN enders : enders[p] \notin {Cleaned, Hole}}
    IN  IF open = {} THEN Nobody ELSE enders[CHOOSE p \in open : \A q \in open : p <= q]

\* _fatalException: an error nobody has caught, in the code of an invocation.  The first
\* transaction to end gets it.
FatalException(i) ==
    /\ MayCall(i)
    /\ Becomes(EndAll([Lambda EXCEPT !.all = InvocationCalled(i), !.uncaught = i]),
               IF FirstOpen = i THEN outside.late ELSE outside.late \cup {i})
    /\ serving' = Nobody

\* The runtime stops waiting: "the lambda is left in a dirty state after thread suspension".
TimedOut ==
    /\ serving # Nobody
    /\ serving' = Nobody
    /\ UNCHANGED <<invocations, enders, uncaught, outside>>

ServerlessNext ==
    \/ Invoke \/ BeforeExit \/ TimedOut
    \/ \E i \in Invocations : FatalException(i) \/ \E failed \in BOOLEAN : CallbackCalled(i, failed) \/ HandlerEnds(i, failed)

ServerlessSpec == ServerlessInit /\ [][ServerlessNext]_lambdaVars

-----------------------------------------------------------------------------
\* An invocation that has been answered, by whatever its code did first, has ended and its
\* data has been printed, unless code of an earlier one has cleared its place.
AnsweredEnds ==
    \A i \in Invocations :
        /\ invocations[i].answered => invocations[i].ended \/ i \in outside.cleared
        /\ invocations[i].ended = invocations[i].printed

\* What has not ended has someone who will end it.
EndersAreThere ==
    \A i \in Invocations : ~invocations[i].ended /\ i \notin outside.cleared =>
        PlaceAt(Lambda, invocations[i].index) = i

\* An error is reported with the invocation it belongs to, unless that had ended, or another
\* was still open before it.
ErrorsStayHome ==
    \A i \in Invocations : invocations[i].errors \ {i} \subseteq outside.late

\* One invocation is the cold start, and it is the first.
OneColdStart == \A i \in Invocations : invocations[i].cold <=> i = 1

\* Invocations end and are reported, each with its own errors.
ServerlessCorrect == ServerlessTypeOK /\ AnsweredEnds /\ EndersAreThere /\ ErrorsStayHome /\ OneColdStart
=============================================================================
