---------------------------- MODULE ErrorCollector ----------------------------
(***************************************************************************)
(* lib/errors/error-collector.js with errors/helper.js, the exceptions a   *)
(* transaction gathers (lib/transaction/index.js) and the error traces'    *)
(* aggregator.  Errors outside a transaction are collected at once, those  *)
(* of a transaction when it ends.                                          *)
(*                                                                         *)
(* What an error or a status code is to the configuration (expected,       *)
(* ignored) is a constant set; the error events go the way of any event    *)
(* (module EventHarvest) and are only counted here.                        *)
(***************************************************************************)
EXTENDS Integers, Sequences

CONSTANTS
    ErrorObjects,     \* errors that may be thrown or noticed, more than once each
    ExpectedErrors,   \* by expected_classes or expected_messages
    IgnoredErrors,    \* by ignore_classes or ignore_messages
    BlankErrors,      \* neither a string nor with a message or a stack
    MaxErrorTraces,   \* the traces' limit
    MaxNoticed        \* bound: errors of one transaction

\* collect(transaction) is called without an error for the status code itself.
NoError == "status"

ASSUME ErrorsAssumption ==
    /\ NoError \notin ErrorObjects
    /\ ExpectedErrors \subseteq ErrorObjects /\ IgnoredErrors \subseteq ErrorObjects
    /\ BlankErrors \subseteq ErrorObjects \ (ExpectedErrors \cup IgnoredErrors)
    /\ MaxErrorTraces \in Nat /\ MaxNoticed \in Nat

VARIABLES
    errorConfig,  \* enabled, collect_errors, capture_events
    exceptions, userErrors,   \* of the transaction that is running, in order
    seenErrors,   \* <<in the transaction?, error>>: the WeakSets and string maps
    booked,       \* what the collector added to its counts in the last step, and why
    errorTraces,  \* how many the aggregator holds
    collected,    \* for the properties: the errors collected in the last step
    errorsOut     \* how many are in flight; bound: one batch

errorVars == <<errorConfig, exceptions, userErrors, seenErrors, booked, errorTraces, collected, errorsOut>>

\* Status codes: none yet, a success, an error, an expected error, an ignored error.
StatusCodes == {"none", "ok", "bad", "expected", "ignored"}
Outside == "outside"

NothingBooked ==
    [traces |-> 0, events |-> 0, all |-> 0, expected |-> 0, inTransaction |-> 0, named |-> 0,
     userExpected |-> 0, thrown |-> FALSE, frustrating |-> FALSE, error |-> FALSE]

ErrorTypeOK ==
    /\ errorConfig \in [enabled : BOOLEAN, traces : BOOLEAN, events : BOOLEAN]
    /\ exceptions \in Seq(ErrorObjects) /\ userErrors \in Seq(ErrorObjects)
    /\ seenErrors \subseteq {"own", Outside} \X ErrorObjects
    /\ errorTraces \in 0 .. MaxErrorTraces
    /\ errorsOut \in 0 .. MaxErrorTraces

ErrorInit ==
    /\ errorConfig = [enabled |-> TRUE, traces |-> TRUE, events |-> TRUE]
    /\ exceptions = <<>> /\ userErrors = <<>>
    /\ seenErrors = {}
    /\ booked = NothingBooked
    /\ errorTraces = 0 /\ errorsOut = 0
    /\ collected = <<>>

ShouldCollect == errorConfig.enabled /\ (errorConfig.traces \/ errorConfig.events)

\* The collector's state while it works through a list of errors.
Books == [seen |-> seenErrors, booked |-> NothingBooked, traces |-> errorTraces, collected |-> <<>>, expected |-> 0]

\* Slip: only errors outside of transactions are remembered.
RememberedOutside(b, where, e) == IF where = Outside THEN b.seen \cup {<<where, e>>} ELSE b.seen
\* _haveSeen marks the error in passing.
Remembered(b, where, e) ==
    IF e = NoError THEN b.seen ELSE b.seen \cup {<<where, e>>}

\* createError: error.expected, by class, message or the transaction's status code.
IsExpected(e, status) == e \in ExpectedErrors \/ status = "expected"

\* What onTransactionFinished takes for expected, of the exceptions only.
ExpectedInEnd(e, status) == e \in ExpectedErrors \/ status = "expected"

\* add of the trace aggregator: first come, first kept.
KeptTraces(traces) == IF traces < MaxErrorTraces THEN traces + 1 ELSE traces

\* collect for one error; without an error or a text there has to be a status code.
Collect(b, where, e, status, user) ==
    LET traceable == e \notin BlankErrors \cup {NoError} \/ status # "none"
        seen == e # NoError /\ <<where, e>> \in b.seen
        expected == IsExpected(e, status)
        One(yes) == IF yes THEN 1 ELSE 0
    IN  CASE seen -> b
          [] ~seen /\ ~traceable -> [b EXCEPT !.seen = Remembered(b, where, e)]
          [] ~seen /\ traceable ->
               [seen |-> Remembered(b, where, e),
                traces |-> IF errorConfig.traces THEN KeptTraces(b.traces) ELSE b.traces,
                collected |-> Append(b.collected, e),
                expected |-> b.expected + One(ExpectedInEnd(e, status) /\ ~user),
                booked |-> [b.booked EXCEPT
                    !.traces = @ + One(errorConfig.traces),
                    !.events = @ + One(errorConfig.events),
                    !.all = @ + One(~expected),
                    !.expected = @ + One(expected),
                    !.inTransaction = @ + One(~expected /\ where # Outside),
                    !.userExpected = @ + One(expected /\ user /\ where # Outside)]]

Book(b) ==
    /\ seenErrors' = b.seen
    /\ booked' = b.booked
    /\ errorTraces' = b.traces
    /\ collected' = b.collected

NothingCollected == booked' = NothingBooked /\ collected' = <<>>

IgnoredByRules(e, status) == e \in IgnoredErrors \/ status = "ignored"

\* add and addUserError outside of a transaction; only add heeds the ignore rules.
CollectNow(e, user) ==
    /\ ShouldCollect
    /\ user \/ ~IgnoredByRules(e, "none")
    /\ Book(Collect(Books, Outside, e, "none", user))
    /\ UNCHANGED <<errorConfig, exceptions, userErrors, errorsOut>>

\* Transaction#_addException and #_addUserError.
KeepException(e) == exceptions' = Append(exceptions, e) /\ UNCHANGED userErrors
KeepUserError(e) == userErrors' = Append(userErrors, e) /\ UNCHANGED exceptions

\* add within one: the status code, if there is one yet, may tell to ignore it too; it matters
\* in no other way.
AddException(e, status) ==
    /\ ShouldCollect
    /\ ~IgnoredByRules(e, status)
    /\ Len(exceptions) + Len(userErrors) < MaxNoticed
    /\ KeepException(e)
    /\ NothingCollected
    /\ UNCHANGED <<errorConfig, seenErrors, errorTraces, errorsOut>>

AddUserError(e) ==
    /\ ShouldCollect
    /\ Len(exceptions) + Len(userErrors) < MaxNoticed
    /\ KeepUserError(e)
    /\ NothingCollected
    /\ UNCHANGED <<errorConfig, seenErrors, errorTraces, errorsOut>>

\* API#noticeError, whose own switch is left on.
NoticeError(e) == CollectNow(e, TRUE) \/ AddUserError(e)

CollectAll(b, errors, status, user) ==
    LET after[k \in 0 .. Len(errors)] ==
            IF k = 0 THEN b ELSE Collect(after[k - 1], "own", errors[k], status, user)
    IN  after[Len(errors)]

StatusError(b, status) ==
    IF exceptions = <<>> /\ status \in {"bad", "expected"}
    THEN Collect(b, "own", NoError, status, FALSE)
    ELSE b

\* What the transaction itself makes of its errors, for its event and for its apdex, at
\* which a status code counts that is neither expected nor explained by expected errors.
HasErrors(status) == exceptions # <<>> \/ userErrors # <<>> \/ status \in {"bad", "expected"}
HasOnlyExpectedErrors(status) ==
    /\ exceptions # <<>>
    /\ \A i \in DOMAIN exceptions : exceptions[i] \in ExpectedErrors \/ IgnoredByRules(exceptions[i], status)
Frustrates(status) == status = "bad" /\ ~HasOnlyExpectedErrors(status)

\* onTransactionFinished, user errors first.  The next transaction has another id.
TransactionFinished(status) ==
    LET noticed == CollectAll(Books, userErrors, status, TRUE)
        thrown == CollectAll(noticed, exceptions, status, FALSE)
        all == StatusError(thrown, status)
    IN  /\ Book([all EXCEPT
                !.booked.named = @ + Len(all.collected) - all.expected,
                !.booked.thrown = exceptions # <<>>,
                !.booked.frustrating = Frustrates(status),
                !.booked.error = HasErrors(status),
                !.seen = {x \in @ : x[1] = Outside}])
        /\ exceptions' = <<>> /\ userErrors' = <<>>
        /\ UNCHANGED <<errorConfig, errorsOut>>

TransactionIgnored ==
    /\ exceptions' = <<>> /\ userErrors' = <<>>
    /\ NothingCollected
    /\ UNCHANGED <<errorConfig, seenErrors, errorTraces, errorsOut>>

\* "starting error_data data send." clears the seen errors.
SendErrors ==
    /\ errorsOut = 0
    /\ errorsOut' = errorTraces
    /\ errorTraces' = 0
    /\ seenErrors' = {}
    /\ NothingCollected
    /\ UNCHANGED <<errorConfig, exceptions, userErrors>>

\* _merge: as many of the retained ones as there is room for.
MergedErrors ==
    IF errorsOut <= MaxErrorTraces - errorTraces THEN errorTraces + errorsOut ELSE MaxErrorTraces

ErrorsAnswered(retain) ==
    /\ errorsOut # 0
    /\ errorTraces' = IF retain THEN MergedErrors ELSE errorTraces
    /\ errorsOut' = 0
    /\ NothingCollected
    /\ UNCHANGED <<errorConfig, exceptions, userErrors, seenErrors>>

\* A connect may turn the traces or the events off or on, or all of it.
ErrorsReconfigured ==
    /\ \E part \in DOMAIN errorConfig : errorConfig' = [errorConfig EXCEPT ![part] = ~@]
    /\ NothingCollected
    /\ UNCHANGED <<exceptions, userErrors, seenErrors, errorTraces, errorsOut>>

ErrorNext ==
    \/ \E e \in ErrorObjects : \/ CollectNow(e, FALSE)
                               \/ NoticeError(e)
                               \/ \E status \in {"none", "ignored"} : AddException(e, status)
    \/ \E status \in StatusCodes : TransactionFinished(status)
    \/ TransactionIgnored
    \/ SendErrors
    \/ \E retain \in BOOLEAN : ErrorsAnswered(retain)
    \/ ErrorsReconfigured

ErrorSpec == ErrorInit /\ [][ErrorNext]_errorVars

-----------------------------------------------------------------------------
\* Every collected error is in exactly one of Errors/all and Errors/expected, and
\* has its trace and its event if those are on.  "the metric should be incremented only if the
\* error was not expected", says onTransactionFinished of the count under the transaction's
\* name, and asks that of what was thrown, not of what the application noticed: of an expected
\* error that is noticed the comment is wrong, and it counts there (userExpected); nothing else does.
ErrorCountsAgree ==
    /\ errorConfig.traces => booked.traces = booked.all + booked.expected
    /\ errorConfig.events => booked.events = booked.all + booked.expected
    /\ booked.named = booked.inTransaction + booked.userExpected

\* No error object counts twice in its transaction, thrown, noticed or both, and a
\* status code counts as an error of its own only if nothing was thrown, collected or not.  Of
\* an error that was only noticed the code does not ask whether the status code stands for it:
\* the two are two errors there.
NoErrorTwice ==
    /\ \A i, j \in DOMAIN collected : collected[i] = collected[j] => i = j
    /\ \A i \in DOMAIN collected : collected[i] = NoError => i = Len(collected) /\ ~booked.thrown

\* "if we have an error-like status code, and all the errors are expected, we know the status
\* code was caused by an expected error, so we will not report frustrating": the apdex blames a
\* transaction only for what is in Errors/all too, and its event calls it an error if any is.
ApdexAgrees ==
    /\ booked.frustrating => booked.all > 0
    /\ booked.inTransaction > 0 => booked.error

\* Errors are counted, traced and kept as they should be.
ErrorsCorrect == ErrorTypeOK /\ ErrorCountsAgree /\ NoErrorTwice /\ ApdexAgrees
=============================================================================
