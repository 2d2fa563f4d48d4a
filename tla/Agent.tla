-------------------------------- MODULE Agent --------------------------------
(***************************************************************************)
(* The agent process: lib/agent.js and API.shutdown over the collector.    *)
(* A step is one JavaScript task: a call by the application, a timer, or   *)
(* the answer to a request with everything it calls synchronously.  The    *)
(* collector may answer each request in any way and in any order.          *)
(***************************************************************************)
EXTENDS Collector

CONSTANTS
    ImmediateHarvest,  \* ~config.no_immediate_harvest
    HighSecurity,      \* config.high_security
    MaxCalls           \* bound: calls in flight when a timer or the user adds one

ASSUME AgentAssumption ==
    /\ ImmediateHarvest \in BOOLEAN
    /\ HighSecurity \in BOOLEAN
    /\ MaxCalls \in Nat

VARIABLES
    agent,     \* the agent, as the operators of Collector take it
    healthy,   \* from now on the collector accepts everything
    told       \* what the collector or the application has told the agent:
               \* "rejected" by a login, "gone" by a 410 for a batch, "stop"

vars == <<agent, healthy, told>>

AgentRecord ==
    [state : State, runId : Runs \cup {NoRun}, stampedRun : Runs \cup {NoRun},
     sampler : BOOLEAN, timers : SUBSET Aggregators, calls : SUBSET Call,
     harvests : [{"startup", "shutdown"} -> SUBSET Aggregators],
     forced : SUBSET {"startup", "shutdown"}, shutdownListens : BOOLEAN,
     startup : {"new", "connecting", "delay", "harvest", "done", "failed"}]

TypeOK ==
    /\ agent \in AgentRecord
    /\ healthy \in BOOLEAN
    /\ told \in SUBSET {"rejected", "gone", "stop"}

Init ==
    /\ agent = [state |-> "stopped", runId |-> NoRun, stampedRun |-> NoRun,
                sampler |-> FALSE, timers |-> {}, calls |-> {},
                harvests |-> [w \in {"startup", "shutdown"} |-> {}], forced |-> {},
                shutdownListens |-> FALSE, startup |-> "new"]
    /\ healthy = FALSE
    /\ told = {}

Tell(what) == told' = told \cup what
Room == Cardinality(agent.calls) < MaxCalls

\* Agent.start, by its configuration: disabled, no license key, or to be connected.
Start ==
    /\ agent.startup = "new"
    /\ \E config \in {"disabled", "unlicensed", "licensed"} :
          agent' = CASE config = "disabled" -> [agent EXCEPT !.startup = "failed"]
                     [] config = "unlicensed" ->
                            [Goto(agent, "errored") EXCEPT !.startup = "failed"]
                     [] config = "licensed" ->
                            [Connect(agent, "start", NoAgg) EXCEPT
                                !.sampler = TRUE, !.startup = "connecting"]
    /\ UNCHANGED <<healthy, told>>

Answered(kind, c) == c \in agent.calls /\ c.kind = kind

\* A login attempt that failed, without an answer or with any status but 410.
LoginFails(c) ==
    /\ Answered("preconnect", c) \/ Answered("connect", c)
    /\ ~healthy
    /\ agent' = Retry(Returned(agent, c), c)
    /\ UNCHANGED <<healthy, told>>

Again(c) ==
    /\ Answered("backoff", c)
    /\ agent' = Login(Returned(agent, c), c)
    /\ UNCHANGED <<healthy, told>>

\* 410, or security policies the agent cannot honour.
LoginRejected(c) ==
    /\ Answered("preconnect", c) \/ Answered("connect", c)
    /\ ~healthy
    /\ agent' = LoginOver(Returned(agent, c), c, TRUE, ImmediateHarvest)
    /\ Tell({"rejected"})
    /\ UNCHANGED healthy

Preconnected(c) ==
    /\ Answered("preconnect", c)
    /\ agent' = Handshake(Returned(agent, c), c)
    /\ UNCHANGED <<healthy, told>>

Connected(c) ==
    /\ Answered("connect", c)
    /\ \E run \in Runs, mismatch \in {FALSE, HighSecurity /\ ~healthy} :
          /\ agent' = LoginOver(
                Reconfigure(Goto(Returned(agent, c), "connected"), run, mismatch),
                c, FALSE, ImmediateHarvest)
          /\ Tell(IF mismatch THEN {"stop"} ELSE {})
    /\ UNCHANGED healthy

ShutdownAnswered(c) ==
    /\ Answered("shutdown", c)
    /\ \E error \in {FALSE, ~healthy} :
          agent' = OnShutdown(Returned(agent, c), c, error)
    /\ UNCHANGED <<healthy, told>>

\* _handleResponseCode: accepted, discarded, retained or failed, the batch is over.
BatchOver(c) ==
    /\ Answered("data", c) \/ Answered("unsent", c)
    /\ agent' = Finished(Returned(agent, c), c.agg)
    /\ UNCHANGED <<healthy, told>>

BatchRestarts(c) ==   \* 401, 409
    /\ Answered("data", c)
    /\ ~healthy
    /\ agent' = Restart(Returned(agent, c), c.agg)
    /\ UNCHANGED <<healthy, told>>

BatchDisconnects(c) ==   \* 410
    /\ Answered("data", c)
    /\ ~healthy
    /\ agent' = Stop(Returned(agent, c), c.agg)
    /\ Tell({"gone", "stop"})
    /\ UNCHANGED healthy

Tick(g) ==
    /\ g \in agent.timers
    /\ Room
    /\ agent' = Send(agent, g)
    /\ UNCHANGED <<healthy, told>>

StartupDelayOver ==
    /\ agent.startup = "delay"
    /\ agent' = [ForceHarvestAll(agent, "startup") EXCEPT !.startup = "harvest"]
    /\ UNCHANGED <<healthy, told>>

StartupHarvested ==
    /\ "startup" \in agent.forced
    /\ agent.harvests["startup"] = {}
    /\ agent' = [StartAggregators(agent) EXCEPT
                    !.forced = @ \ {"startup"}, !.startup = "done"]
    /\ UNCHANGED <<healthy, told>>

\* API.shutdown without options, and with collectPendingData.
ApiShutdown ==
    /\ "stop" \notin told
    /\ agent.startup # "new"
    /\ Room
    /\ agent' = Stop(agent, NoAgg)
    /\ Tell({"stop"})
    /\ UNCHANGED healthy

ApiShutdownCollecting ==
    /\ "stop" \notin told
    /\ agent.startup # "new"
    /\ Room
    /\ IF agent.state = "started"
       THEN agent' = ForceHarvestAll(agent, "shutdown")
       ELSE \E timeout \in BOOLEAN :
                agent' = IF timeout
                         THEN [Invoke(agent, "timeout", "stop", NoAgg)
                                  EXCEPT !.shutdownListens = TRUE]
                         ELSE [agent EXCEPT !.shutdownListens = TRUE]
    /\ Tell({"stop"})
    /\ UNCHANGED healthy

ShutdownTimeout(c) ==
    /\ Answered("timeout", c)
    /\ agent' = Stop(Returned(agent, c), NoAgg)
    /\ UNCHANGED <<healthy, told>>

ShutdownHarvested ==
    /\ "shutdown" \in agent.forced
    /\ agent.harvests["shutdown"] = {}
    /\ agent' = Stop([agent EXCEPT !.forced = @ \ {"shutdown"}], NoAgg)
    /\ UNCHANGED <<healthy, told>>

CollectorRecovers ==
    /\ ~healthy
    /\ healthy' = TRUE
    /\ UNCHANGED <<agent, told>>

Returns(c) ==
    \/ LoginFails(c) \/ Again(c) \/ LoginRejected(c) \/ Preconnected(c)
    \/ Connected(c) \/ ShutdownAnswered(c) \/ BatchOver(c) \/ BatchRestarts(c)
    \/ BatchDisconnects(c) \/ ShutdownTimeout(c)

Next ==
    \/ Start \/ StartupDelayOver \/ StartupHarvested
    \/ ApiShutdown \/ ApiShutdownCollecting \/ ShutdownHarvested
    \/ CollectorRecovers
    \/ \E c \in agent.calls : Returns(c)
    \/ \E g \in Aggregators : Tick(g)

\* The collector or the network answers every request, timers fire, and promise
\* callbacks run.  Batches of different types are answered independently.
Fairness ==
    /\ \A kind \in Kind \ {"data", "unsent"} :
          WF_vars(\E c \in agent.calls : c.kind = kind /\ Returns(c))
    /\ \A g \in Aggregators :
          WF_vars(\E c \in agent.calls :
                     c.kind \in {"data", "unsent"} /\ c.agg = g /\ Returns(c))
    /\ WF_vars(StartupDelayOver) /\ WF_vars(StartupHarvested)
    /\ WF_vars(ShutdownHarvested)

Spec == Init /\ [][Next]_vars /\ Fairness

-----------------------------------------------------------------------------

LoggingIn(c) ==
    \/ c.kind \in {"preconnect", "connect", "backoff"}
    \/ c.kind = "shutdown" /\ c.for = "restart"

\* The run id the aggregators stamp on payloads is the one the request path names
\* (remote-method's _path), through restarts of which several may be under way.
RunIsStamped == IsConnected(agent) => agent.stampedRun = agent.runId

\* An agent that was started, and neither told to stop nor rejected, collects, and has a
\* run or is getting one: no order of restarts and their shutdowns leaves it without.
NeverStranded ==
    agent.startup \notin {"new", "failed"} /\ told = {} =>
        /\ CanCollectData(agent)
        /\ IsConnected(agent) \/ \E c \in agent.calls : LoggingIn(c)

\* The agent is in a state it knows, works for one run, and gets on.
AgentCorrect == TypeOK /\ RunIsStamped /\ NeverStranded

\* "Retry everything except for an explicit Disconnect": once the collector accepts
\* logins, whatever login is under way leads to a run.
LoginsSucceed ==
    healthy /\ (\E c \in agent.calls : LoggingIn(c)) ~> IsConnected(agent)

\* The forced harvest of the start ends, and the send timers start, whatever
\* restarts and stops its batches have caused.
StartupEnds ==
    healthy /\ agent.startup = "harvest" ~> agent.startup = "done"

\* "Callback function that runs when agent stops": a stopped agent has no timers.
StoppedHasNoTimers == agent.state = "stopped" => agent.timers = {}
=============================================================================
