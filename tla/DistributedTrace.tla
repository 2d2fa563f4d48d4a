--------------------------- MODULE DistributedTrace ---------------------------
(***************************************************************************)
(* A distributed trace: one transaction per service, and the headers they  *)
(* hand on.  lib/transaction/index.js decides on the sampling and handles  *)
(* the newrelic payload, lib/transaction/tracecontext.js the W3C headers.  *)
(*                                                                         *)
(* A message stays on the wire: it can be delivered again, or never.  A    *)
(* trace id is the service that made it up and whether it has the length   *)
(* the W3C asks for.  A priority is a roll, plus Boost when sampled; the   *)
(* times, parent spans and supportability metrics are left out.            *)
(***************************************************************************)
EXTENDS Integers, Sequences, FiniteSets

CONSTANTS
    Services,         \* each runs an agent with one transaction
    KeyOf,            \* trusted_account_key of each service
    Excluding,        \* those with exclude_newrelic_header
    PriorityRolls,    \* what Math.random may lead to
    OutsideMessages,  \* what callers without this agent may send
    EarlyServices,    \* those connected from the start
    MaxMessages       \* bound: messages on the wire

Boost == 2
NoPriority == -1
NoOne == "none"
NoTrace == [by |-> NoOne, wide |-> TRUE]
BadTrace == [by |-> NoOne, wide |-> FALSE]
NoPayload == [app |-> NoOne]
NoMessage == [parent |-> NoTrace]

DtTraceId == [by : Services \cup {"outside"}, wide : BOOLEAN]
Decision == {"unset", "yes", "no"}
MessageFields == {"parent", "state", "wellFormed", "payload"}

\* The entries of a tracestate, under the keys of the services or any vendor's.
StateEntry == [key : {KeyOf[s] : s \in Services}
                  \cup UNION {{msg.state[i].key : i \in DOMAIN msg.state} : msg \in OutsideMessages},
          app : Services \cup {"outside"}, valid : BOOLEAN, sampled : Decision,
          priority : Nat \cup {NoPriority}]

\* What callers without this agent send says nothing of the services' transactions.
IsOutside(msg) ==
    /\ DOMAIN msg = MessageFields
    /\ msg.parent \in DtTraceId \cup {NoTrace, BadTrace}
    /\ msg.state \in Seq(StateEntry)
    /\ \A i \in DOMAIN msg.state : msg.state[i].app = "outside"
    /\ msg.payload # NoPayload =>
          /\ msg.payload.app = "outside" /\ msg.payload.trace \in DtTraceId
          /\ msg.payload.priority \in Nat \cup {NoPriority} /\ msg.payload.sampled \in Decision

ASSUME DistributedTraceAssumption ==
    /\ {NoOne, "outside"} \cap Services = {}
    /\ DOMAIN KeyOf = Services
    /\ Excluding \subseteq Services /\ EarlyServices \subseteq Services
    /\ PriorityRolls \subseteq 0 .. Boost - 1
    /\ MaxMessages \in Nat
    /\ \A msg \in OutsideMessages : IsOutside(msg)

VARIABLES
    hop,      \* per service its transaction
    ready,    \* services whose agent has connected: it knows its account and key
    wire,     \* messages sent
    origin    \* for the properties: the message a transaction accepted

dtVars == <<hop, ready, wire, origin>>


DtTypeOK ==
    /\ ready \subseteq Services
    /\ \A s \in Services :
          /\ hop[s].traceId \in DtTraceId
          /\ hop[s].priority \in Nat \cup {NoPriority}
          /\ hop[s].sampled \in Decision
          /\ hop[s].parentApp \in Services \cup {"outside", NoOne}
          /\ hop[s].accepted => hop[s].distributed
    /\ \A msg \in wire : DOMAIN msg = MessageFields

NewHop(s) == [traceId |-> [by |-> s, wide |-> TRUE], priority |-> NoPriority, sampled |-> "unset",
              parentApp |-> NoOne, raw |-> <<>>, distributed |-> FALSE, accepted |-> FALSE]

DtInit ==
    /\ hop = [s \in Services |-> NewHop(s)]
    /\ ready = EarlyServices
    /\ wire = {}
    /\ origin = [s \in Services |-> NoMessage]

\* The connect response brings account_id, primary_application_id and the key.
Connected(s) ==
    /\ s \notin ready
    /\ ready' = ready \cup {s}
    /\ UNCHANGED <<hop, wire, origin>>

\* A caller without this agent; bound: one such message.
OutsideCall ==
    /\ wire \cap OutsideMessages = {}
    /\ \E msg \in OutsideMessages : wire' = wire \cup {msg}
    /\ Cardinality(wire) < MaxMessages
    /\ UNCHANGED <<hop, ready, origin>>

\* Slip: every call decides.
DecidedAnew(h) ==
    {[h EXCEPT !.priority = r, !.sampled = "no"] : r \in PriorityRolls}
      \cup {[h EXCEPT !.priority = r + Boost, !.sampled = "yes"] : r \in PriorityRolls}

\* _calculatePriority: the transactions h may be afterwards.
Decided(h) ==
    IF h.priority # NoPriority THEN {h}
    ELSE {[h EXCEPT !.priority = r, !.sampled = "no"] : r \in PriorityRolls}
      \cup {[h EXCEPT !.priority = r + Boost, !.sampled = "yes"] : r \in PriorityRolls}

\* isSampled and the intrinsics of the transaction's events.
Decide(s) ==
    /\ hop[s].priority = NoPriority
    /\ \E h \in Decided(hop[s]) : hop' = [hop EXCEPT ![s] = h]
    /\ UNCHANGED <<ready, wire, origin>>

\* createTraceparent pads the trace id.
Padded(traceId) == [traceId EXCEPT !.wide = TRUE]

\* What the tracestate says of this service; a priority of zero is left empty.
OwnEntry(s, h) ==
    [key |-> KeyOf[s], app |-> s, valid |-> TRUE,
     sampled |-> IF h.sampled = "yes" THEN "yes" ELSE "no",
     priority |-> IF h.priority = 0 THEN NoPriority ELSE h.priority]

CreatedState(s, h) == IF s \in ready THEN <<OwnEntry(s, h)>> \o h.raw ELSE h.raw

CreatedPayload(s, h) ==
    IF s \notin ready THEN NoPayload
    ELSE [app |-> s, key |-> KeyOf[s], major |-> 0, complete |-> TRUE,
          trace |-> h.traceId, priority |-> h.priority, sampled |-> h.sampled]

\* Slip: headers go out before the decision is taken.
PreparedNot(h) == {[h EXCEPT !.distributed = TRUE]}

\* insertDistributedTraceHeaders, at its start: there has to be a priority.
Prepared(h) == {[d EXCEPT !.distributed = TRUE] : d \in Decided(h)}

\* insertDistributedTraceHeaders.
InsertHeaders(s) ==
    \E h \in Prepared(hop[s]) :
        LET msg == [parent |-> Padded(h.traceId), state |-> CreatedState(s, h), wellFormed |-> TRUE,
                    payload |-> IF s \in Excluding THEN NoPayload ELSE CreatedPayload(s, h)]
        IN  /\ Cardinality(wire \cup {msg}) <= MaxMessages
            /\ hop' = [hop EXCEPT ![s] = h]
            /\ wire' = wire \cup {msg}
            /\ UNCHANGED <<ready, origin>>

\* createDistributedTracePayload, called by the application for another transport.
CreatePayload(s) ==
    /\ s \in ready
    /\ \E h \in Prepared(hop[s]) :
        LET msg == [parent |-> NoTrace, state |-> <<>>, wellFormed |-> TRUE,
                    payload |-> CreatedPayload(s, h)]
        IN  /\ Cardinality(wire \cup {msg}) <= MaxMessages
            /\ hop' = [hop EXCEPT ![s] = h]
            /\ wire' = wire \cup {msg}
            /\ UNCHANGED <<ready, origin>>

\* The first entry under the trusted key, and the entries under other keys.
IsMine(s, state, i) == state[i].key = KeyOf[s] /\ \A j \in 1 .. i - 1 : state[j].key # KeyOf[s]
Others(s, state) ==
    LET kept[k \in 0 .. Len(state)] ==
            IF k = 0 THEN <<>>
            ELSE IF state[k].key = KeyOf[s] THEN kept[k - 1] ELSE Append(kept[k - 1], state[k])
    IN  kept[Len(state)]

\* The tracestate's part: the first entry under the trusted key is adopted if it is
\* valid, the rest is kept for handing on.
Adopted(h, e) == [h EXCEPT !.parentApp = e.app, !.sampled = e.sampled, !.priority = e.priority]
WithState(s, h, state) ==
    LET rest == [h EXCEPT !.raw = IF s \in ready THEN Others(s, state) ELSE state]
        mine == {i \in DOMAIN state : s \in ready /\ IsMine(s, state, i) /\ state[i].valid}
    IN  IF mine = {} THEN rest ELSE Adopted(rest, state[CHOOSE i \in mine : TRUE])

\* acceptTraceContextPayload.
WithContext(s, h, msg) ==
    LET traced == [h EXCEPT !.traceId = msg.parent, !.accepted = TRUE, !.distributed = TRUE]
    IN  IF msg.wellFormed THEN WithState(s, traced, msg.state) ELSE traced

PayloadRefused(s, p) ==
    \/ p = NoPayload
    \/ s \notin ready
    \/ p.major > 0
    \/ ~p.complete
    \/ p.key # KeyOf[s]

\* acceptDistributedTracePayload; sampled is taken only with a priority.
WithPayload(h, p) ==
    LET traced == [h EXCEPT !.traceId = p.trace, !.parentApp = p.app,
                            !.accepted = TRUE, !.distributed = TRUE]
    IN  IF p.priority \in {0, NoPriority} THEN traced
        ELSE [traced EXCEPT !.priority = p.priority,
                            !.sampled = IF p.sampled = "unset" THEN @ ELSE p.sampled]

\* acceptDistributedTraceHeaders: with a traceparent, even a bad one, the newrelic
\* header is not looked at.  Deliveries that change nothing are left out.
AcceptHeaders(s, msg) ==
    /\ ~hop[s].distributed
    /\ \/ /\ msg.parent \notin {NoTrace, BadTrace}
          /\ hop' = [hop EXCEPT ![s] = WithContext(s, @, msg)]
       \/ /\ msg.parent = NoTrace
          /\ ~PayloadRefused(s, msg.payload)
          /\ hop' = [hop EXCEPT ![s] = WithPayload(@, msg.payload)]
    /\ origin' = [origin EXCEPT ![s] = msg]
    /\ UNCHANGED <<ready, wire>>

DtNext ==
    \/ OutsideCall
    \/ \E s \in Services :
        \/ Connected(s) \/ Decide(s) \/ InsertHeaders(s) \/ CreatePayload(s)
        \/ \E msg \in wire : AcceptHeaders(s, msg)

DtSpec == DtInit /\ [][DtNext]_dtVars

-----------------------------------------------------------------------------
\* Once a transaction is part of a distributed trace and has its priority, neither
\* its trace id nor the decision changes: others have been told.
DecisionIsFinal ==
    [][\A s \in Services :
          hop[s].distributed /\ hop[s].priority # NoPriority =>
              /\ hop'[s].traceId = hop[s].traceId
              /\ hop'[s].priority = hop[s].priority
              /\ hop'[s].sampled = hop[s].sampled]_dtVars

\* A transaction whose parent is another service's has the trace id and the decision
\* of that service, whatever services of other accounts, or not yet connected, handed
\* the headers on, and whenever they were delivered.  A priority of zero is lost, and a
\* priority from outside may have come without a decision.
OneDecision ==
    \A s, u \in Services :
        hop[s].parentApp = u =>
            /\ Padded(hop[s].traceId) = Padded(hop[u].traceId)
            /\ hop[u].priority > 0 =>
                  /\ hop[s].priority = hop[u].priority
                  /\ hop[u].sampled # "unset" => hop[s].sampled = hop[u].sampled

\* The entries of others in a tracestate it accepted are in every W3C message of the
\* trace the service sends, in their order.
VendorsPassedOn ==
    \A s \in Services, msg \in wire :
        /\ origin[s] # NoMessage
        /\ hop[s].accepted /\ origin[s].parent # NoTrace /\ origin[s].wellFormed
        /\ msg.state # <<>> /\ Head(msg.state).app = s
        => Others(s, msg.state) = Others(s, origin[s].state)

\* All services of a trace agree, and others' entries travel with it.
TraceContextCorrect == DtTypeOK /\ OneDecision /\ VendorsPassedOn
=============================================================================
