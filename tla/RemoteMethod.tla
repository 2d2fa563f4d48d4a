----------------------------- MODULE RemoteMethod -----------------------------
(***************************************************************************)
(* One call of the collector: lib/collector/remote-method.js with the      *)
(* parser and the sink of its response, and the part of                    *)
(* lib/collector/api.js that hands it a batch.                             *)
(*                                                                         *)
(* A payload is serialized, compressed when it is large, which takes a     *)
(* while, and posted; the caller is called back with an error of any of    *)
(* these, with one of the request's, or, later, with the response.         *)
(* Meanwhile restarts, which may overlap, change the host, the run and the *)
(* headers of the configuration that the call reads as it goes.            *)
(*                                                                         *)
(* A connection that fails while its response arrives raises the request's *)
(* error and then ends the response with what has come, as Node up to      *)
(* version 14 has it.  The collector may also never answer.                *)
(***************************************************************************)
EXTENDS Integers, Sequences, FiniteSets

CONSTANTS
    Exchanges,  \* calls of methods that send data
    Payloads,   \* [serializes, large : over 64 KB, fits : within max_payload_size_in_bytes]
    Restarts    \* restarts of the collector: each joins a run of its own, maybe at a host of its own

Original == "original"
NoRun == "none"
ASSUME RemoteAssumption ==
    /\ {Original, NoRun} \cap Restarts = {}
    /\ Payloads \subseteq [serializes : BOOLEAN, large : BOOLEAN, fits : BOOLEAN]

VARIABLES
    remoteHost, \* config.host: the restart that was redirected to it, or Original
    remoteRun,  \* config.run_id, NoRun when there is none
    reqHeaders, \* _reqHeadersMap: that of a run, or NoRun
    restarts,   \* restarts[r]: what it waits for
    exchanges   \* exchanges[e]: see NewExchange

remoteVars == <<remoteHost, remoteRun, reqHeaders, restarts, exchanges>>

\* run and headers go into the URL and the headers of the request, host is where it goes and
\* hostHeader what its header says; due are callbacks that wait for a turn of the event loop.
NewExchange == [stage |-> "new", run |-> NoRun, headers |-> NoRun, host |-> NoRun, hostHeader |-> NoRun,
                compressed |-> FALSE, fits |-> TRUE, brokeOff |-> FALSE, due |-> {}, answers |-> <<>>]

RemoteRuns == Restarts \cup {Original, NoRun}

RemoteTypeOK ==
    /\ remoteHost \in Restarts \cup {Original} /\ remoteRun \in RemoteRuns /\ reqHeaders \in RemoteRuns
    /\ \A r \in Restarts : restarts[r] \in {"idle", "leaving", "redirecting", "joining", "joined"}
    /\ \A e \in Exchanges :
          /\ exchanges[e].stage \in {"new", "compressing", "requested", "responding", "over"}
          /\ exchanges[e].due \subseteq {"error", "whole", "partial"}
          /\ \A i \in DOMAIN exchanges[e].answers : exchanges[e].answers[i] \in {"error", "whole", "partial"}

RemoteInit ==
    /\ remoteHost = Original /\ remoteRun = Original /\ reqHeaders = Original
    /\ restarts = [r \in Restarts |-> "idle"]
    /\ exchanges = [e \in Exchanges |-> NewExchange]

-----------------------------------------------------------------------------
\* Back with an error, at once or at the next turn.
ExchangeFailed(x) == [x EXCEPT !.stage = "over", !.answers = Append(@, "error")]
ExchangeFailsLater(x) == [x EXCEPT !.stage = "over", !.due = {"error"}]

\* makeRequest with _safeRequest, which throws for a body that is too long, and _request.
PostMade(x) ==
    IF ~x.fits THEN ExchangeFailed(x) ELSE [x EXCEPT !.stage = "requested", !.hostHeader = remoteHost]

\* Slip: the URL is built when the request is made.
PostedLate(x, p) ==
    LET y == [x EXCEPT !.host = remoteHost, !.run = NoRun, !.headers = reqHeaders,
                       !.compressed = p.large, !.fits = p.fits]
    IN  IF p.large THEN [y EXCEPT !.stage = "compressing"] ELSE PostMade([y EXCEPT !.run = remoteRun])

\* _post: the URL with the run, the headers and the host are those of now.
Posted(x, p) ==
    LET y == [x EXCEPT !.host = remoteHost, !.run = remoteRun, !.headers = reqHeaders,
                       !.compressed = p.large, !.fits = p.fits]
    IN  IF p.large THEN [y EXCEPT !.stage = "compressing"] ELSE PostMade(y)

\* _runLifecycle, invoke and serialize.
SendBatch(e, p) ==
    LET x == exchanges[e] IN
    /\ x.stage = "new"
    /\ exchanges' = [exchanges EXCEPT ![e] =
           IF remoteRun = NoRun \/ ~p.serializes THEN ExchangeFailsLater(x) ELSE Posted(x, p)]
    /\ UNCHANGED <<remoteHost, remoteRun, reqHeaders, restarts>>

Answering(e, x) ==
    /\ exchanges' = [exchanges EXCEPT ![e] = x]
    /\ UNCHANGED <<remoteHost, remoteRun, reqHeaders, restarts>>

\* onCompress.
BatchCompressed(e, works) ==
    /\ exchanges[e].stage = "compressing"
    /\ Answering(e, IF works THEN PostMade(exchanges[e]) ELSE ExchangeFailed(exchanges[e]))

RespondsTo(e) ==
    /\ exchanges[e].stage = "requested"
    /\ Answering(e, [exchanges[e] EXCEPT !.stage = "responding"])

\* The sink ends, the parser takes what it can read and calls back a turn later.
ResponseDone(e, body) ==
    /\ exchanges[e].stage = "responding"
    /\ exchanges[e].brokeOff => body = "partial"
    /\ Answering(e, [exchanges[e] EXCEPT !.stage = "over", !.due = @ \cup {body}])

\* The request's error.  When the response has begun it still ends.
ConnectionFails(e) ==
    LET x == exchanges[e] IN
    \/ x.stage = "requested" /\ Answering(e, ExchangeFailed(x))
    \/ /\ x.stage = "responding" /\ ~x.brokeOff
       /\ Answering(e, [x EXCEPT !.answers = Append(@, "error"), !.brokeOff = TRUE])

\* A callback's turn.
ExchangeCallBack(e, answer) ==
    /\ answer \in exchanges[e].due
    /\ Answering(e, [exchanges[e] EXCEPT !.due = @ \ {answer}, !.answers = Append(@, answer)])

-----------------------------------------------------------------------------
Restarting(r, from, to) == restarts[r] = from /\ restarts' = [restarts EXCEPT ![r] = to]

\* restart: shutdown is on its way.
LeaveRun(r) ==
    /\ Restarting(r, "idle", "leaving")
    /\ UNCHANGED <<remoteHost, remoteRun, reqHeaders, exchanges>>

\* onShutdown, and with it the start of connect.
RunLeft(r) ==
    /\ Restarting(r, "leaving", "redirecting")
    /\ remoteRun' = NoRun /\ reqHeaders' = NoRun
    /\ UNCHANGED <<remoteHost, exchanges>>

\* onPreConnect: redirected, or not.
Redirected(r) ==
    /\ Restarting(r, "redirecting", "joining")
    /\ remoteHost' \in {remoteHost, r}
    /\ UNCHANGED <<remoteRun, reqHeaders, exchanges>>

\* onConnect; when it fails the login begins again.
RunJoined(r) ==
    /\ \/ /\ Restarting(r, "joining", "joined")
          /\ remoteRun' = r /\ reqHeaders' = r
       \/ /\ Restarting(r, "joining", "redirecting")
          /\ UNCHANGED <<remoteRun, reqHeaders>>
    /\ UNCHANGED <<remoteHost, exchanges>>

RemoteNext ==
    \/ \E e \in Exchanges, p \in Payloads : SendBatch(e, p)
    \/ \E e \in Exchanges, works \in BOOLEAN : BatchCompressed(e, works)
    \/ \E e \in Exchanges : RespondsTo(e) \/ ConnectionFails(e)
    \/ \E e \in Exchanges : \E body \in {"whole", "partial"} : ResponseDone(e, body)
    \/ \E e \in Exchanges : \E answer \in exchanges[e].due : ExchangeCallBack(e, answer)
    \/ \E r \in Restarts : LeaveRun(r) \/ RunLeft(r) \/ Redirected(r) \/ RunJoined(r)

RemoteSpec == RemoteInit /\ [][RemoteNext]_remoteVars

-----------------------------------------------------------------------------
\* Whoever sends is called back once, whichever step fails, and not before the call is over:
\* only a connection that fails while its response arrives gives an error and the response.
CalledBackOnce ==
    \A e \in Exchanges :
        LET x == exchanges[e]
            n == Len(x.answers) + Cardinality(x.due)
        IN  n = (IF x.stage = "over" THEN 1 ELSE 0) + (IF x.brokeOff THEN 1 ELSE 0)

\* A request speaks for one run, however long its payload is compressed and whatever restarts
\* overlap meanwhile: the URL's run and the headers the collector gave out for it.
RequestsHangTogether ==
    \A e \in Exchanges :
        LET x == exchanges[e] IN
        x.stage \in {"compressing", "requested", "responding"} =>
            /\ x.run # NoRun /\ x.headers = x.run
            /\ ~x.compressed /\ x.stage # "compressing" => x.hostHeader = x.host

\* What holds of the calls of the collector, together.
RemoteCallsCorrect == RemoteTypeOK /\ CalledBackOnce /\ RequestsHangTogether
=============================================================================
