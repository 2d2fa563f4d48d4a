--------------------------- MODULE CrossApplication ---------------------------
(***************************************************************************)
(* Cross application tracing, which is in force without distributed        *)
(* tracing: the headers of outbound requests and of responses.             *)
(* lib/instrumentation/core/http-outbound.js, wrapWriteHead of http.js,    *)
(* lib/util/cat.js and the path hashes of lib/transaction/index.js.        *)
(*                                                                         *)
(* Several applications, each with its agent, call each other.  An agent   *)
(* tells the next a hash of the path that led there, under the name its    *)
(* transaction has at that time; the name may change until the end, so the *)
(* transaction remembers the hashes it has sent.  What comes back in a     *)
(* response names the segment of the request, if the account is trusted.   *)
(***************************************************************************)
EXTENDS Integers, Sequences, FiniteSets

CONSTANTS
    Calls,          \* transactions; each but First serves a request of another
    First,          \* the one that nothing traced has called
    AppOf(_),       \* the application a transaction runs in
    CalledFrom(_),     \* the transactions whose requests it may serve
    AccountOf(_),   \* an application's account
    Trusts(_),      \* trusted_account_ids of an application
    EncodingKey(_),       \* its encoding_key; what another key has obfuscated cannot be read
    NamesOf(_),     \* names a transaction may have, each a number
    PathHashLimit,  \* the hashes a transaction remembers: 10
    RequestBound(_) \* bound: requests of a transaction

ASSUME CatAssumption ==
    /\ First \in Calls /\ "none" \notin Calls
    /\ PathHashLimit \in Nat
    /\ \A t \in Calls : NamesOf(t) \subseteq Nat \ {0}

VARIABLES
    catCalls,   \* each transaction: [state, name, hashes, referring, guid, trip, client, invalid]
    outbound,   \* each request: [from, headers, state, segment, appData]
    catReported    \* each ended transaction's intrinsics for its event

catVars == <<catCalls, outbound, catReported>>

Nothing == [kind |-> "nothing"]
NotCalled == [state |-> "none", name |-> 0, hashes |-> {}, referring |-> Nothing, guid |-> "none",
              trip |-> "none", client |-> Nothing, invalid |-> FALSE]
RequestsOf(t) == {r \in DOMAIN outbound : outbound[r].from = t}

CatTypeOK ==
    /\ \A t \in Calls : /\ catCalls[t].state \in {"none", "open", "ended"} /\ catCalls[t].name \in NamesOf(t) \cup {0}
                        /\ Cardinality(catCalls[t].hashes) <= PathHashLimit
                        /\ catReported[t] = Nothing <=> catCalls[t].state # "ended"
    /\ \A r \in DOMAIN outbound : outbound[r].state \in {"sent", "served", "responding", "over"}

CatInit ==
    /\ catCalls = [t \in Calls |-> IF t = First THEN [NotCalled EXCEPT !.state = "open"] ELSE NotCalled]
    /\ outbound = <<>>
    /\ catReported = [t \in Calls |-> Nothing]

-----------------------------------------------------------------------------
\* calculatePathHash: the application, the name and what it was called along; that different ones
\* have the same hash is left out.
PathHash(t, name) == [kind |-> "hash", app |-> AppOf(t), name |-> name, along |-> catCalls[t].referring]

TripOf(t) == IF catCalls[t].trip = "none" THEN t ELSE catCalls[t].trip

\* Slip: the hash that was sent last is the one that is kept.
PushedLast(hashes, hash) == {hash}

\* pushPathHash: the first ten different ones.
Pushed(hashes, hash) ==
    IF Cardinality(hashes) >= PathHashLimit THEN hashes ELSE hashes \cup {hash}

\* _addCATHeaders; without a key there are none.
CatHeaders(t) ==
    IF EncodingKey(AppOf(t)) = "none" THEN Nothing
    ELSE [kind |-> "headers", key |-> EncodingKey(AppOf(t)), account |-> AccountOf(AppOf(t)),
          guid |-> t, trip |-> TripOf(t), hash |-> PathHash(t, catCalls[t].name)]

\* instrumentOutbound, under a segment that is not opaque.
SendRequest(t) ==
    /\ catCalls[t].state = "open" /\ Cardinality(RequestsOf(t)) < RequestBound(t)
    /\ outbound' = Append(outbound, [from |-> t, by |-> "none", headers |-> CatHeaders(t),
                                     state |-> "sent", segment |-> Nothing, appData |-> Nothing])
    /\ catCalls' = [catCalls EXCEPT ![t].hashes =
                    IF CatHeaders(t) = Nothing THEN @ ELSE Pushed(@, PathHash(t, catCalls[t].name))]
    /\ UNCHANGED catReported

\* parsedHeadersToTrans of what handleCatHeaders reads: an identification is any text, so what
\* another key makes of it is one too, but the transaction's data is not an array then.
TakenFrom(t, headers) ==
    LET app == AppOf(t)
    IN CASE headers = Nothing \/ EncodingKey(app) = "none" -> [NotCalled EXCEPT !.state = "open"]
         [] headers # Nothing /\ EncodingKey(app) \notin {"none", headers.key} ->
                [NotCalled EXCEPT !.state = "open", !.client = [kind |-> "garbage"]]
         [] OTHER -> [NotCalled EXCEPT !.state = "open", !.referring = headers.hash, !.guid = headers.guid,
                                       !.trip = headers.trip,
                                       !.client = [kind |-> "account", id |-> headers.account]]

\* The request arrives, and a transaction is made for it.
ServeRequest(r, t) ==
    /\ outbound[r].state = "sent" /\ catCalls[t].state = "none" /\ outbound[r].from \in CalledFrom(t)
    /\ catCalls' = [catCalls EXCEPT ![t] = TakenFrom(t, outbound[r].headers)]
    /\ outbound' = [outbound EXCEPT ![r].state = "served", ![r].by = t]
    /\ UNCHANGED catReported

\* The application or a framework names the transaction; the name is known at its end.  A bound:
\* no name comes back.
NameCall(t, name) ==
    /\ catCalls[t].state = "open" /\ catCalls[t].name < name
    /\ catCalls' = [catCalls EXCEPT ![t].name = name]
    /\ UNCHANGED <<outbound, catReported>>

\* wrappedWriteHead: the caller's account has to be one that is trusted.
WriteHead(r) ==
    LET t == outbound[r].by
        app == AppOf(t)
        client == catCalls[t].client
    IN /\ outbound[r].state = "served" /\ catCalls[t].state = "open"
       /\ outbound' = [outbound EXCEPT ![r].state = "responding", ![r].appData =
              IF client.kind = "account" /\ client.id \in Trusts(app) /\ EncodingKey(app) # "none"
              THEN [kind |-> "data", key |-> EncodingKey(app), account |-> AccountOf(app), app |-> app,
                    name |-> catCalls[t].name, guid |-> t]
              ELSE Nothing]
       /\ UNCHANGED <<catCalls, catReported>>

\* handleResponse with pullCatHeaders: the segment is of the called transaction then.
HandleResponse(r) ==
    LET data == outbound[r].appData
        app == AppOf(outbound[r].from)
    IN /\ outbound[r].state = "responding"
       /\ outbound' = [outbound EXCEPT ![r].state = "over", ![r].segment =
              IF data # Nothing /\ EncodingKey(app) \in {"none", data.key} /\ data.account \in Trusts(app)
              THEN data ELSE Nothing]
       /\ UNCHANGED <<catCalls, catReported>>

\* recordExternal: what one segment is counted under in its transaction's scope.
ScopedMetric(r) == IF outbound[r].segment = Nothing THEN "host" ELSE "transaction"

\* alternatePathHashes, with the name there is in the end.
Alternates(t) == catCalls[t].hashes \ {PathHash(t, catCalls[t].name)}

\* _addIntrinsicAttrsFromTransaction: only transactions that were called, or have called.
CatIntrinsics(t) ==
    IF ~catCalls[t].invalid /\ (catCalls[t].guid # "none" \/ catCalls[t].hashes # {})
    THEN [kind |-> "intrinsics", guid |-> t, trip |-> TripOf(t), hash |-> PathHash(t, catCalls[t].name),
          referring |-> catCalls[t].referring, caller |-> catCalls[t].guid, alternates |-> Alternates(t),
          external |-> [r \in RequestsOf(t) |-> ScopedMetric(r)]]
    ELSE [kind |-> "plain"]

EndCall(t) ==
    /\ catCalls[t].state = "open" /\ catCalls[t].name # 0
    /\ catCalls' = [catCalls EXCEPT ![t].state = "ended"]
    /\ catReported' = [catReported EXCEPT ![t] = CatIntrinsics(t)]
    /\ UNCHANGED outbound

CatNext ==
    \E t \in Calls :
        \/ SendRequest(t) \/ EndCall(t)
        \/ \E name \in NamesOf(t) : NameCall(t, name)
        \/ \E r \in DOMAIN outbound :
               ServeRequest(r, t) \/ (t = First /\ (WriteHead(r) \/ HandleResponse(r)))

CatSpec == CatInit /\ [][CatNext]_catVars

-----------------------------------------------------------------------------
Traced(t) == catReported[t].kind = "intrinsics"

\* The path a transaction reports it was called along is one its caller answers for, under its
\* final name or as an alternate, however its name changed between its requests, unless the
\* caller's list was full.
PathsMeet ==
    \A t \in Calls : Traced(t) => \A c \in Calls :
        Traced(c) /\ catReported[t].caller = c =>
            \/ catReported[t].referring \in {catReported[c].hash} \cup catReported[c].alternates
            \/ Cardinality(catCalls[c].hashes) = PathHashLimit

\* A hash is not catReported both as the transaction's and as an alternate.
AlternatesAreOthers == \A t \in Calls : Traced(t) => catReported[t].hash \notin catReported[t].alternates

\* All the transactions along a path of calls have one trip, that of the first of them.
OneTrip ==
    \A t \in Calls : Traced(t) => \A c \in Calls : catReported[t].caller = c => catCalls[t].trip = TripOf(c)

\* A segment is of a called transaction only if that has served the request and is of a trusted
\* account, whose agent trusts the caller's in turn.
OnlyTrustedAreNamed ==
    \A r \in DOMAIN outbound :
        outbound[r].segment # Nothing =>
            /\ outbound[r].segment.guid = outbound[r].by
            /\ AccountOf(AppOf(outbound[r].by)) \in Trusts(AppOf(outbound[r].from))
            /\ AccountOf(AppOf(outbound[r].from)) \in Trusts(AppOf(outbound[r].by))

\* What holds across the applications, together.
CrossApplicationCorrect ==
    CatTypeOK /\ PathsMeet /\ AlternatesAreOthers /\ OneTrip /\ OnlyTrustedAreNamed
================================================================================
