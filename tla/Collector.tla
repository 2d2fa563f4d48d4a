------------------------------ MODULE Collector ------------------------------
(***************************************************************************)
(* The New Relic agent's conversation with its collector:                  *)
(* lib/collector/api.js with response.js, and the parts of lib/agent.js    *)
(* it calls synchronously.  The module has no variables: each operator     *)
(* takes the agent `a`, a record, and returns the agent after the call, so *)
(* that a handler which calls another one in the same JavaScript task is   *)
(* the composition of two operators.                                       *)
(*                                                                         *)
(* `calls` holds what will call back later: requests on their way and the  *)
(* back-off timer of a failed login.  `for` says whose continuation waits  *)
(* (Agent.start, the restart made by a batch, or a stop) and `agg` names   *)
(* the aggregator whose batch led to it, NoAgg when there is none.         *)
(***************************************************************************)
EXTENDS Naturals, FiniteSets

CONSTANTS
    Aggregators,  \* the enabled data types, each with its send timer
    NoAgg,        \* in place of an aggregator: a call no batch waits for
    Runs,         \* agent run ids the collector may hand out
    NoRun         \* config.run_id before a connect and after a shutdown

ASSUME CollectorAssumption ==
    /\ IsFiniteSet(Aggregators)
    /\ NoAgg \notin Aggregators
    /\ NoRun \notin Runs

State == {"stopped", "starting", "connecting", "connected", "started",
          "disconnected", "stopping", "errored"}
Collecting == {"starting", "connecting", "connected", "started"}

Kind == {"preconnect", "connect", "backoff", "shutdown", "data", "unsent", "timeout"}
Call == [id : Nat, kind : Kind, for : {"start", "restart", "stop", "data"},
         agg : Aggregators \cup {NoAgg}]

IsConnected(a) == a.runId # NoRun
CanCollectData(a) == a.state \in Collecting

\* The smallest free id tells two otherwise equal calls apart.
NewCall(a, kind, for, agg) ==
    LET call(n) == [id |-> n, kind |-> kind, for |-> for, agg |-> agg]
        free == {n \in 0 .. Cardinality(a.calls) : call(n) \notin a.calls}
    IN  call(CHOOSE n \in free : \A k \in free : n <= k)

Invoke(a, kind, for, agg) ==
    [a EXCEPT !.calls = @ \cup {NewCall(a, kind, for, agg)}]

Returned(a, c) == [a EXCEPT !.calls = @ \ {c}]

Goto(a, s) == [a EXCEPT !.state = s]
StopAggregators(a)  == [a EXCEPT !.timers = {}]
StartAggregators(a) == [a EXCEPT !.timers = Aggregators]

\* Agent.onConnect: every aggregator stamps its payloads with config.run_id.
OnConnect(a) == [a EXCEPT !.stampedRun = a.runId]

\* "finished <type> data send.": resolves that type in every forced harvest.
Finished(a, g) == [a EXCEPT !.harvests = [w \in DOMAIN @ |-> @[w] \ {g}]]

Connect(a, for, agg) == Invoke(Goto(a, "connecting"), "preconnect", for, agg)
Shutdown(a, for, agg) == Invoke(a, "shutdown", for, agg)
Restart(a, agg) == Shutdown(StopAggregators(a), "restart", agg)

\* Agent.stop.  Without a run its callback is due at once, and what waits for it
\* is the batch answered with 410, if any.
Stop(a, agg) ==
    LET halted == [StopAggregators(Goto(a, "stopping")) EXCEPT !.sampler = FALSE]
    IN  IF IsConnected(a) THEN Shutdown(halted, "stop", agg) ELSE Finished(halted, agg)

\* A batch of aggregator g.  Without a run it is never sent: an error calls back.
Send(a, g) == Invoke(a, IF IsConnected(a) THEN "data" ELSE "unsent", "data", g)

\* Every aggregator sends a batch and `who` waits for all of them.  One without
\* data finishes at once: here its batch may be over before anything else happens.
ForceHarvestAll(a, who) ==
    [a EXCEPT !.calls = @ \cup UNION {Send(a, g).calls : g \in Aggregators},
              !.harvests[who] = Aggregators,
              !.forced = @ \cup {who}]

\* setState with its listeners: those of an API.shutdown that found the agent not
\* started and is to send what is pending first.
SetState(a, s) ==
    IF ~a.shutdownListens \/ s \notin {"started", "errored"} THEN Goto(a, s)
    ELSE IF s = "started" THEN ForceHarvestAll(Goto(a, s), "shutdown")
    ELSE Stop(Goto(a, s), NoAgg)

\* What a login that is over, with a run or with a fatal response, calls back.
StartConnected(a, fatal, immediate) ==
    CASE fatal -> [SetState([a EXCEPT !.sampler = FALSE], "errored")
                      EXCEPT !.startup = "failed"]
      [] ~fatal /\ ~IsConnected(a) -> [a EXCEPT !.startup = "failed"]
      [] ~fatal /\ IsConnected(a) ->
            LET started == SetState(OnConnect(a), "started")
            IN  IF immediate THEN [started EXCEPT !.startup = "delay"]
                ELSE [StartAggregators(started) EXCEPT !.startup = "done"]

\* Slip: the batch is never called back.
AfterConnectForgetful(a, agg) == StartAggregators(OnConnect(a))

AfterConnect(a, agg) == Finished(StartAggregators(OnConnect(a)), agg)

LoginOver(a, c, fatal, immediate) ==
    IF c.for = "start" THEN StartConnected(a, fatal, immediate)
    ELSE AfterConnect(a, c.agg)

\* Slip: only the login of the start is tried again.
RetryAtStartOnly(a, c) ==
    IF c.for = "start" THEN Invoke(a, "backoff", c.for, c.agg) ELSE a

Retry(a, c) == Invoke(a, "backoff", c.for, c.agg)
Login(a, c) == Invoke(a, "preconnect", c.for, c.agg)
Handshake(a, c) == Invoke(a, "connect", c.for, c.agg)

\* The connect answer's configuration.  Without the high-security flag a
\* high-security agent is disabled and stopped, and takes no run.
Reconfigure(a, run, mismatch) ==
    IF mismatch THEN Stop(a, NoAgg) ELSE [a EXCEPT !.runId = run]

\* Slip: a restart ends with the shutdown.
OnShutdownForGood(a, c, error) ==
    Finished(SetState([Goto(a, "disconnected") EXCEPT !.runId = NoRun],
                      IF error THEN "errored" ELSE "stopped"), c.agg)

OnShutdown(a, c, error) ==
    LET gone == [Goto(a, "disconnected") EXCEPT !.runId = NoRun]
    IN  IF c.for = "restart" THEN Connect(gone, "restart", c.agg)
        ELSE Finished(SetState(gone, IF error THEN "errored" ELSE "stopped"), c.agg)
=============================================================================
