------------------------------- MODULE Messages --------------------------------
(***************************************************************************)
(* Messages a service sends and consumes: lib/shim/message-shim.js and     *)
(* lib/shim/transaction-shim.js.  A consumer runs in a transaction made    *)
(* for the message, which ends when the consumer is done, and which is     *)
(* linked to the transaction that sent the message by headers: those of    *)
(* distributed tracing, or of the older cross application tracing (cat).   *)
(***************************************************************************)
EXTENDS Integers, Sequences, FiniteSets

CONSTANTS
    MaxMsgTxs,      \* bound: transactions
    MaxQueued,    \* bound: messages in the broker
    MaxMsgDepth     \* bound: msgFrames on the call stack

ASSUME MaxQueuedAssumption == MaxQueued \in Nat \ {0}

VARIABLES
    mode,     \* [tracing, cat : enabled, key : the encoding key is known, collect]
    msgTxs,   \* transactions: [type, state, parent, external, ended, left]
    msgFrames,   \* of consumers and requests: [tx, own], innermost last
    broker,   \* messages: [from, headers]
    ending    \* what will end a transaction: [tx, by]

msgVars == <<mode, msgTxs, msgFrames, broker, ending>>

OtherService == 0    \* a sender that is not this service
NoMsgTx == 0

\* own: the frame ends the transaction.  ended says what ended a transaction, left whether its
\* consumer returned a promise.
MessagesTypeOK ==
    /\ \A t \in DOMAIN msgTxs :
           /\ msgTxs[t].type \in {"web", "message"} /\ msgTxs[t].state \in {"active", "ended", "ignored"}
           /\ msgTxs[t].parent \subseteq {OtherService} \cup DOMAIN msgTxs
    /\ \A i \in DOMAIN msgFrames : msgFrames[i].tx \in {NoMsgTx} \cup DOMAIN msgTxs
    /\ \A e \in ending : e.by \in {"immediate", "promise", "handle"}
    /\ Cardinality(broker) <= MaxQueued

MessagesInit ==
    /\ mode \in [tracing : BOOLEAN, cat : BOOLEAN, key : {FALSE}, collect : {FALSE}]
    /\ msgTxs = <<>> /\ msgFrames = <<>> /\ ending = {}
    /\ broker \in {{}, {[from |-> OtherService, headers |-> "dt"]}, {[from |-> OtherService, headers |-> "cat"]}}

-----------------------------------------------------------------------------
Frame == msgFrames[Len(msgFrames)]
CurrentTx == IF msgFrames = <<>> THEN NoMsgTx ELSE Frame.tx
\* tracer.getTransaction.
TheTx == IF CurrentTx # NoMsgTx /\ msgTxs[CurrentTx].state = "active" THEN CurrentTx ELSE NoMsgTx

MsgTx(type, parent) ==
    [type |-> type, state |-> "active", parent |-> parent, external |-> FALSE, ended |-> "no", left |-> FALSE]
EnterFrame(tx, own) == msgFrames' = Append(msgFrames, [tx |-> tx, own |-> own])
RoomForTx == Len(msgTxs) < MaxMsgTxs /\ Len(msgFrames) < MaxMsgDepth

\* The collector answers connect; only then does the agent collect and has it a key.
Connected1 ==
    /\ ~mode.collect
    /\ mode' = [mode EXCEPT !.key = TRUE, !.collect = TRUE]
    /\ UNCHANGED <<msgTxs, msgFrames, broker, ending>>

\* A request: _makeTransWrapper starts a transaction unless there is one.
RequestRuns ==
    /\ RoomForTx /\ msgFrames = <<>>
    /\ IF mode.collect
       THEN msgTxs' = Append(msgTxs, MsgTx("web", {})) /\ EnterFrame(Len(msgTxs) + 1, TRUE)
       ELSE EnterFrame(NoMsgTx, FALSE) /\ UNCHANGED msgTxs
    /\ UNCHANGED <<mode, broker, ending>>

\* insertCATRequestHeaders.
HeadersOf(tx) ==
    IF tx = NoMsgTx THEN "none"
    ELSE IF mode.tracing THEN "dt"
    ELSE IF mode.cat /\ mode.key THEN "cat" ELSE "none"

\* recordProduce, with headers or without.
Produce(withHeaders) ==
    /\ msgFrames # <<>> /\ Cardinality(broker) < MaxQueued
    /\ broker' = broker \cup {[from |-> TheTx, headers |-> IF withHeaders THEN HeadersOf(TheTx) ELSE "none"]}
    /\ UNCHANGED <<mode, msgTxs, msgFrames, ending>>

\* handleCATHeaders: it wants cat enabled and a key, and with tracing enabled too it takes
\* tracing's headers.
Accepted(m) ==
    IF ~mode.cat \/ ~mode.key \/ m.headers # (IF mode.tracing THEN "dt" ELSE "cat") THEN {} ELSE {m.from}

\* createConsumeTrans, in the nested wrapper: a transaction for the message unless one of
\* its type is active.  A consumer that describes the message has it named and linked; one
\* that does not has it ignored.  The broker may deliver a message again.
Deliver(m, described, again) ==
    /\ RoomForTx
    /\ broker' = IF again THEN broker ELSE broker \ {m}
    /\ IF ~mode.collect \/ (TheTx # NoMsgTx /\ msgTxs[TheTx].type = "message")
       THEN EnterFrame(CurrentTx, FALSE) /\ UNCHANGED msgTxs
       ELSE LET tx == [MsgTx("message", IF described THEN Accepted(m) ELSE {}) EXCEPT
                           !.state = IF described THEN "active" ELSE "ignored"]
            IN  /\ msgTxs' = Append(msgTxs, tx)
                /\ EnterFrame(Len(msgTxs) + 1, described)
    /\ UNCHANGED <<mode, ending>>

\* API#getTransaction: the transaction is handled externally, until its handle ends it.
TakeHandle ==
    /\ TheTx # NoMsgTx
    /\ ~msgTxs[TheTx].external
    /\ msgTxs' = [msgTxs EXCEPT ![TheTx].external = TRUE]
    /\ ending' = ending \cup {[tx |-> TheTx, by |-> "handle"]}
    /\ UNCHANGED <<mode, msgFrames, broker>>

\* Slip: a transaction that is handled externally is ended all the same.
LeaveNot(how) ==
    /\ msgFrames # <<>>
    /\ msgFrames' = SubSeq(msgFrames, 1, Len(msgFrames) - 1)
    /\ ending' = IF Frame.own
                 THEN ending \cup {[tx |-> Frame.tx, by |-> IF how = "promise" THEN "promise" ELSE "immediate"]}
                 ELSE ending
    /\ UNCHANGED <<mode, msgTxs, broker>>

\* The consumer returns, returns a promise or throws.
Leave(how) ==
    /\ msgFrames # <<>>
    /\ msgFrames' = SubSeq(msgFrames, 1, Len(msgFrames) - 1)
    /\ IF ~Frame.own THEN UNCHANGED <<msgTxs, ending>>
       ELSE /\ msgTxs' = [msgTxs EXCEPT ![Frame.tx].left = (how = "promise")]
            /\ ending' = ending \cup
                   (IF how = "promise" THEN {[tx |-> Frame.tx, by |-> "promise"]}
                    ELSE IF ~msgTxs[Frame.tx].external THEN {[tx |-> Frame.tx, by |-> "immediate"]} ELSE {})
    /\ UNCHANGED <<mode, broker>>

\* endTransaction, from the event loop; the handle's end, from anywhere.
EndMessageTx(e) ==
    /\ e \in ending /\ (e.by # "handle" => msgFrames = <<>>)
    /\ ending' = ending \ {e}
    /\ msgTxs' = IF msgTxs[e.tx].state = "active"
                 THEN [msgTxs EXCEPT ![e.tx].state = "ended", ![e.tx].ended = e.by] ELSE msgTxs
    /\ UNCHANGED <<mode, msgFrames, broker>>

MessagesNext ==
    \/ Connected1 \/ RequestRuns \/ TakeHandle
    \/ \E w \in BOOLEAN : Produce(w)
    \/ \E m \in broker, d, a \in BOOLEAN : Deliver(m, d, a)
    \/ \E how \in {"value", "promise"} : Leave(how)
    \/ \E e \in ending : EndMessageTx(e)

MessagesSpec == MessagesInit /\ [][MessagesNext]_msgVars

-----------------------------------------------------------------------------
\* A transaction that is active is one whose consumer runs or that something is going to
\* end; none is left open.
NothingLeftOpen ==
    \A t \in DOMAIN msgTxs : msgTxs[t].state = "active" =>
        \/ \E i \in DOMAIN msgFrames : msgFrames[i].tx = t /\ msgFrames[i].own
        \/ \E e \in ending : e.tx = t

\* "If handledExternally is set to true the transaction will not ended automatically": while
\* its consumer runs only a handle ends a transaction, and one that is handled is ended by
\* its handle unless its consumer returned a promise.
HandlesAreRespected ==
    /\ \A i \in DOMAIN msgFrames : msgFrames[i].own /\ msgTxs[msgFrames[i].tx].state = "ended" =>
           msgTxs[msgFrames[i].tx].ended = "handle"
    /\ \A t \in DOMAIN msgTxs : msgTxs[t].external /\ msgTxs[t].state = "ended" =>
           msgTxs[t].ended = "handle" \/ msgTxs[t].left

\* A transaction is linked to one that sent a message and was collected, earlier than it and
\* never to itself or in a circle; without tracing of either kind there are no links.
LinksGoBack ==
    \A t \in DOMAIN msgTxs : \A p \in msgTxs[t].parent :
        /\ mode.cat
        /\ p # OtherService => p < t /\ msgTxs[p].state # "ignored"
        /\ msgTxs[t].type = "message"

\* The service understands its own messages: what it sends with headers it links, if both
\* kinds of tracing are enabled or only the older one.
OwnMessagesLink ==
    mode.cat /\ mode.key => \A m \in broker : m.headers # "none" /\ m.from # OtherService => Accepted(m) = {m.from}

\* Messages are consumed in transactions that follow from them and end.
MessagesCorrect ==
    MessagesTypeOK /\ NothingLeftOpen /\ HandlesAreRespected /\ LinksGoBack /\ OwnMessagesLink
=============================================================================
