------------------------------ MODULE AgentProofs ------------------------------
(***************************************************************************)
(* The agent process for any aggregators, run ids and bound on calls: its  *)
(* type, that payloads are stamped with the run in force, and that no      *)
(* order of answers strands it.  The operators of Collector are taken one  *)
(* by one: what each returns is an agent, and which fields it moves.       *)
(*                                                                         *)
(* After it its configuration, for any installations, policies and replies *)
(* of any length: induction over their keys is taken from the least        *)
(* element that a set of naturals has.  Then the facts it gathers of its   *)
(* host before it connects, its log, the modules it instruments, the       *)
(* stream of its spans, and what it tells of its environment.              *)
(***************************************************************************)
EXTENDS Agent, Configuration, HostFacts, Logging, ModuleLoading, SpanStreaming, Environment,
        Induction, SequenceTheorems, FiniteSetTheorems, TLAPS

\* A new call needs an id that is free, and there is one as long as calls are finite.
AgentInv == TypeOK /\ IsFiniteSet(agent.calls)

Agents == {a \in AgentRecord : IsFiniteSet(a.calls)}

For == {"start", "restart", "stop", "data"}
Waiting == Aggregators \cup {NoAgg}

-----------------------------------------------------------------------------
\* Among as many ids as there are calls and one more, one makes a call that is new.
LEMMA OneIsFree ==
    ASSUME NEW S, IsFiniteSet(S), NEW kind, NEW for, NEW agg
    PROVE  \E n \in 0 .. Cardinality(S) :
              [id |-> n, kind |-> kind, for |-> for, agg |-> agg] \notin S
<1> DEFINE D == 0 .. Cardinality(S)
           f == [i \in D |-> [id |-> i, kind |-> kind, for |-> for, agg |-> agg]]
<1>1. Cardinality(S) \in Nat
  BY FS_CardinalityType
<1>2. SUFFICES ASSUME \A i \in D : f[i] \in S
               PROVE  FALSE
  OBVIOUS
<1>3. \A i, j \in D : f[i] = f[j] => i = j
  OBVIOUS
<1> HIDE DEF f
<1>4. DOMAIN f = D /\ f \in [D -> S]
  BY <1>2 DEF f
<1>5. f \in Injection(D, S)
  BY <1>3, <1>4 DEF Injection, IsInjective
<1>6. Cardinality(D) <= Cardinality(S)
  BY <1>5, FS_Injection
<1>7. Cardinality(D) = Cardinality(S) + 1
  BY <1>1, FS_Interval
<1> QED  BY <1>1, <1>6, <1>7

LEMMA LeastOf ==
    ASSUME NEW S \in SUBSET Nat, S # {}
    PROVE  \E n \in S : \A k \in S : n <= k
<1>1. PICK n \in S : \A k \in S : ~(<<k, n>> \in OpToRel(<, Nat))
  BY NatLessThanWellFounded, WFMin
<1>2. \A k \in S : ~(k < n)
  BY <1>1 DEF OpToRel
<1> QED  BY <1>2

LEMMA NewCallType ==
    ASSUME NEW a, IsFiniteSet(a.calls), NEW kind \in Kind, NEW for \in For, NEW agg \in Waiting
    PROVE  /\ NewCall(a, kind, for, agg) \in Call
           /\ NewCall(a, kind, for, agg).kind = kind
           /\ NewCall(a, kind, for, agg).for = for
<1> DEFINE call(n) == [id |-> n, kind |-> kind, for |-> for, agg |-> agg]
           free == {n \in 0 .. Cardinality(a.calls) : call(n) \notin a.calls}
           least == CHOOSE n \in free : \A k \in free : n <= k
<1>1. free # {}
  BY OneIsFree
<1>2. free \subseteq Nat
  BY FS_CardinalityType
<1>3. \E n \in free : \A k \in free : n <= k
  <2> HIDE DEF free
  <2> QED  BY <1>1, <1>2, LeastOf
<1>4. least \in free
  BY <1>3
<1>5. NewCall(a, kind, for, agg) = call(least)
  BY DEF NewCall
<1> HIDE DEF free, least
<1> QED  BY <1>2, <1>4, <1>5 DEF Call, For, Waiting

-----------------------------------------------------------------------------
\* The operators of Collector return agents.
LEMMA InvokeType ==
    ASSUME NEW a \in Agents, NEW kind \in Kind, NEW for \in For, NEW agg \in Waiting
    PROVE  /\ Invoke(a, kind, for, agg) \in Agents
           /\ \E c \in Call : /\ c.kind = kind /\ c.for = for
                             /\ Invoke(a, kind, for, agg) = [a EXCEPT !.calls = a.calls \cup {c}]
<1> DEFINE c == NewCall(a, kind, for, agg)
<1>1. c \in Call /\ c.kind = kind /\ c.for = for
  BY NewCallType DEF Agents
<1>2. IsFiniteSet(a.calls \cup {c})
  BY FS_AddElement DEF Agents
<1>3. Invoke(a, kind, for, agg) = [a EXCEPT !.calls = a.calls \cup {c}]
  BY DEF Invoke
<1> HIDE DEF c
<1>4. [a EXCEPT !.calls = a.calls \cup {c}] \in AgentRecord
  <2>1. a \in AgentRecord /\ a.calls \cup {c} \in SUBSET Call
    BY <1>1 DEF Agents, AgentRecord
  <2> HIDE DEF Call
  <2> QED  BY <2>1 DEF AgentRecord
<1>5. Invoke(a, kind, for, agg) \in Agents
  <2>1. [a EXCEPT !.calls = a.calls \cup {c}].calls = a.calls \cup {c}
    BY DEF Agents, AgentRecord
  <2> QED  BY <1>2, <1>3, <1>4, <2>1 DEF Agents
<1> QED  BY <1>1, <1>3, <1>5

LEMMA ReturnedType ==
    ASSUME NEW a \in Agents, NEW c
    PROVE  Returned(a, c) \in Agents
<1>1. IsFiniteSet(a.calls \ {c})
  BY FS_Difference DEF Agents
<1> QED  BY <1>1 DEF Returned, Agents, AgentRecord

LEMMA FieldsType ==
    ASSUME NEW a \in Agents
    PROVE  /\ \A s \in State : Goto(a, s) \in Agents
           /\ StopAggregators(a) \in Agents
           /\ StartAggregators(a) \in Agents
           /\ OnConnect(a) \in Agents
           /\ \A g : Finished(a, g) \in Agents
BY DEF Agents, AgentRecord, Goto, StopAggregators, StartAggregators, OnConnect, Finished

LEMMA SendType ==
    ASSUME NEW a \in Agents
    PROVE  /\ \A for \in For, agg \in Waiting : Connect(a, for, agg) \in Agents /\ Shutdown(a, for, agg) \in Agents
           /\ \A agg \in Waiting : Restart(a, agg) \in Agents /\ Stop(a, agg) \in Agents
           /\ \A g \in Aggregators : Send(a, g) \in Agents
           /\ \A c \in Call : Retry(a, c) \in Agents /\ Login(a, c) \in Agents /\ Handshake(a, c) \in Agents
<1>1. \A b \in Agents, for \in For, agg \in Waiting : Shutdown(b, for, agg) \in Agents
  BY InvokeType DEF Shutdown, Kind
<1>2. \A agg \in Waiting : Restart(a, agg) \in Agents
  BY <1>1, FieldsType DEF Restart, For
<1>3. \A for \in For, agg \in Waiting : Connect(a, for, agg) \in Agents
  BY InvokeType, FieldsType DEF Connect, Kind, State
<1>4. \A g \in Aggregators : Send(a, g) \in Agents
  <2> TAKE g \in Aggregators
  <2> DEFINE kind == IF IsConnected(a) THEN "data" ELSE "unsent"
  <2>1. kind \in Kind /\ "data" \in For /\ g \in Waiting
    BY DEF Kind, For, Waiting
  <2> HIDE DEF kind
  <2> QED  BY <2>1, InvokeType DEF Send, kind
<1>5. \A agg \in Waiting : Stop(a, agg) \in Agents
  <2> DEFINE halted == [StopAggregators(Goto(a, "stopping")) EXCEPT !.sampler = FALSE]
  <2>1. halted \in Agents
    BY DEF Agents, AgentRecord, StopAggregators, Goto, State
  <2> HIDE DEF halted
  <2> TAKE agg \in Waiting
  <2>2. Shutdown(halted, "stop", agg) \in Agents /\ Finished(halted, agg) \in Agents
    BY <1>1, <2>1, FieldsType DEF For
  <2> QED  BY <2>2 DEF Stop, halted
<1>6. \A c \in Call : c.for \in For /\ c.agg \in Waiting
  BY DEF Call, For, Waiting
<1>7. \A c \in Call : Retry(a, c) \in Agents /\ Login(a, c) \in Agents /\ Handshake(a, c) \in Agents
  BY <1>6, InvokeType DEF Retry, Login, Handshake, Kind
<1> QED  BY <1>1, <1>2, <1>3, <1>4, <1>5, <1>7

LEMMA ForceHarvestAllType ==
    ASSUME NEW a \in Agents, NEW who \in {"startup", "shutdown"}
    PROVE  ForceHarvestAll(a, who) \in Agents
<1> DEFINE S == {Send(a, g).calls : g \in Aggregators}
           f == [g \in Aggregators |-> Send(a, g).calls]
<1>1. \A g \in Aggregators : Send(a, g) \in Agents
  BY SendType
<1>2. IsFiniteSet(S)
  <2>1. f \in Surjection(Aggregators, S)
    BY DEF Surjection
  <2> QED  BY <2>1, CollectorAssumption, FS_Surjection
<1>3. \A calls \in S : IsFiniteSet(calls) /\ calls \subseteq Call
  BY <1>1 DEF Agents, AgentRecord
<1>4. IsFiniteSet(a.calls \cup UNION S) /\ a.calls \cup UNION S \subseteq Call
  <2>1. IsFiniteSet(UNION S) /\ UNION S \subseteq Call
    BY <1>2, <1>3, FS_UNION
  <2> HIDE DEF S, Call
  <2> QED  BY <2>1, FS_Union DEF Agents, AgentRecord
<1> HIDE DEF S
<1>5. ForceHarvestAll(a, who) =
         [a EXCEPT !.calls = a.calls \cup UNION S, !.harvests[who] = Aggregators, !.forced = a.forced \cup {who}]
  BY DEF ForceHarvestAll, S
<1> DEFINE b == [a EXCEPT !.calls = a.calls \cup UNION S, !.harvests[who] = Aggregators,
                          !.forced = a.forced \cup {who}]
<1>6. b \in AgentRecord /\ b.calls = a.calls \cup UNION S
  <2> HIDE DEF Call
  <2> QED  BY <1>4 DEF Agents, AgentRecord
<1> QED  BY <1>4, <1>5, <1>6 DEF Agents

LEMMA SetStateType ==
    ASSUME NEW a \in Agents, NEW s \in State
    PROVE  SetState(a, s) \in Agents
BY FieldsType, SendType, ForceHarvestAllType DEF SetState, Waiting

LEMMA LoginOverType ==
    ASSUME NEW a \in Agents, NEW c \in Call, NEW fatal \in BOOLEAN, NEW immediate \in BOOLEAN
    PROVE  LoginOver(a, c, fatal, immediate) \in Agents
<1>1. c.agg \in Waiting
  BY DEF Call, Waiting
<1>2. AfterConnect(a, c.agg) \in Agents
  BY <1>1, FieldsType DEF AfterConnect
<1>3. StartConnected(a, fatal, immediate) \in Agents
  <2>1. [a EXCEPT !.sampler = FALSE] \in Agents
    BY DEF Agents, AgentRecord
  <2>2. SetState([a EXCEPT !.sampler = FALSE], "errored") \in Agents /\ SetState(OnConnect(a), "started") \in Agents
    BY <2>1, SetStateType, FieldsType DEF State
  <2>3. \A b \in Agents : \A v \in {"failed", "delay", "done"} : [b EXCEPT !.startup = v] \in Agents
    BY DEF Agents, AgentRecord
  <2> QED  BY <2>2, <2>3, FieldsType DEF StartConnected
<1> QED  BY <1>2, <1>3 DEF LoginOver

LEMMA OnShutdownType ==
    ASSUME NEW a \in Agents, NEW c \in Call, NEW error \in BOOLEAN
    PROVE  OnShutdown(a, c, error) \in Agents
<1> DEFINE gone == [Goto(a, "disconnected") EXCEPT !.runId = NoRun]
<1>1. gone \in Agents
  BY DEF Agents, AgentRecord, Goto, State
<1>2. c.agg \in Waiting
  BY DEF Call, Waiting
<1> HIDE DEF gone
<1>3. Connect(gone, "restart", c.agg) \in Agents
  BY <1>1, <1>2, SendType DEF For
<1>4. \A s \in {"errored", "stopped"} : SetState(gone, s) \in Agents
  BY <1>1, SetStateType DEF State
<1> QED  BY <1>3, <1>4, FieldsType DEF OnShutdown, gone

LEMMA ReconfigureType ==
    ASSUME NEW a \in Agents, NEW run \in Runs, NEW mismatch \in BOOLEAN
    PROVE  Reconfigure(a, run, mismatch) \in Agents
BY SendType DEF Reconfigure, Agents, AgentRecord, Waiting

LEMMA StartupType ==
    ASSUME NEW a \in Agents
    PROVE  /\ \A v \in {"failed", "connecting", "harvest", "done"} : [a EXCEPT !.startup = v] \in Agents
           /\ \A w : [a EXCEPT !.forced = a.forced \ {w}] \in Agents
           /\ \A on \in BOOLEAN : [a EXCEPT !.shutdownListens = on] \in Agents
BY DEF Agents, AgentRecord

-----------------------------------------------------------------------------
\* Each kind of step leaves an agent.
LEMMA StartStepType ==
    ASSUME agent \in Agents, Start \/ StartupDelayOver \/ StartupHarvested
    PROVE  agent' \in Agents
<1>1. CASE Start
  <2>1. Goto(agent, "errored") \in Agents /\ Connect(agent, "start", NoAgg) \in Agents
    BY FieldsType, SendType DEF State, For, Waiting
  <2>2. \A b \in Agents : [b EXCEPT !.sampler = TRUE, !.startup = "connecting"] \in Agents
    BY DEF Agents, AgentRecord
  <2> QED  BY <1>1, <2>1, <2>2, StartupType DEF Start
<1>2. CASE StartupDelayOver
  BY <1>2, ForceHarvestAllType, StartupType DEF StartupDelayOver
<1>3. CASE StartupHarvested
  <2> DEFINE b == StartAggregators(agent)
  <2>1. b \in Agents
    BY FieldsType
  <2> HIDE DEF b
  <2>2. [b EXCEPT !.forced = @ \ {"startup"}, !.startup = "done"] \in Agents
    BY <2>1 DEF Agents, AgentRecord
  <2> QED  BY <1>3, <2>2 DEF StartupHarvested, b
<1> QED  BY <1>1, <1>2, <1>3

LEMMA ShutdownStepType ==
    ASSUME agent \in Agents, ApiShutdown \/ ApiShutdownCollecting \/ ShutdownHarvested
    PROVE  agent' \in Agents
<1>1. \A b \in Agents : Stop(b, NoAgg) \in Agents
  BY SendType DEF Waiting
<1>2. CASE ApiShutdown
  BY <1>1, <1>2 DEF ApiShutdown
<1>3. CASE ApiShutdownCollecting
  <2>1. Invoke(agent, "timeout", "stop", NoAgg) \in Agents
    BY InvokeType DEF Kind, For, Waiting
  <2> QED  BY <1>3, <2>1, ForceHarvestAllType, StartupType DEF ApiShutdownCollecting
<1>4. CASE ShutdownHarvested
  BY <1>1, <1>4, StartupType DEF ShutdownHarvested
<1> QED  BY <1>2, <1>3, <1>4

LEMMA ReturnStepType ==
    ASSUME agent \in Agents, ImmediateHarvest \in BOOLEAN, NEW c \in agent.calls, Returns(c)
    PROVE  agent' \in Agents
<1> DEFINE a == Returned(agent, c)
<1>1. c \in Call
  BY DEF Agents, AgentRecord
<1>2. a \in Agents
  BY ReturnedType
<1>3. c.agg \in Waiting /\ NoAgg \in Waiting
  BY <1>1 DEF Call, Waiting
<1> HIDE DEF a
<1>4. CASE LoginFails(c) \/ Again(c) \/ Preconnected(c)
  BY <1>1, <1>2, <1>4, SendType DEF LoginFails, Again, Preconnected, a
<1>5. CASE LoginRejected(c)
  BY <1>1, <1>2, <1>5, LoginOverType DEF LoginRejected, a
<1>6. CASE Connected(c)
  <2>1. PICK run \in Runs, mismatch \in BOOLEAN :
           agent' = LoginOver(Reconfigure(Goto(a, "connected"), run, mismatch), c, FALSE, ImmediateHarvest)
    BY <1>6 DEF Connected, a
  <2>2. Goto(a, "connected") \in Agents
    BY <1>2, FieldsType DEF State
  <2>3. Reconfigure(Goto(a, "connected"), run, mismatch) \in Agents
    BY <2>2, ReconfigureType
  <2> QED  BY <1>1, <2>1, <2>3, LoginOverType
<1>7. CASE ShutdownAnswered(c)
  <2>1. PICK error \in BOOLEAN : agent' = OnShutdown(a, c, error)
    BY <1>7 DEF ShutdownAnswered, a
  <2> QED  BY <1>1, <1>2, <2>1, OnShutdownType
<1>8. CASE BatchOver(c)
  BY <1>2, <1>8, FieldsType DEF BatchOver, a
<1>9. CASE BatchRestarts(c) \/ BatchDisconnects(c) \/ ShutdownTimeout(c)
  BY <1>2, <1>3, <1>9, SendType DEF BatchRestarts, BatchDisconnects, ShutdownTimeout, a
<1> QED  BY <1>4, <1>5, <1>6, <1>7, <1>8, <1>9 DEF Returns

LEMMA InitType == Init => AgentInv
<1> SUFFICES ASSUME Init PROVE AgentInv
  OBVIOUS
<1>1. agent \in AgentRecord
  BY DEF Init, AgentRecord, State
<1>2. agent.calls = {}
  BY DEF Init
<1> QED  BY <1>1, <1>2, FS_EmptySet DEF Init, AgentInv, TypeOK

LEMMA StepType == AgentInv /\ [Next]_vars => AgentInv'
<1> SUFFICES ASSUME AgentInv, [Next]_vars
             PROVE  AgentInv'
  OBVIOUS
<1>1. agent \in Agents
  BY DEF AgentInv, TypeOK, Agents
<1>2. agent' \in Agents
  <2>1. CASE Start \/ StartupDelayOver \/ StartupHarvested
    BY <1>1, <2>1, StartStepType
  <2>2. CASE ApiShutdown \/ ApiShutdownCollecting \/ ShutdownHarvested
    BY <1>1, <2>2, ShutdownStepType
  <2>3. CASE \E c \in agent.calls : Returns(c)
    BY <1>1, <2>3, ReturnStepType, AgentAssumption
  <2>4. CASE \E g \in Aggregators : Tick(g)
    BY <1>1, <2>4, SendType DEF Tick
  <2>5. CASE CollectorRecovers \/ UNCHANGED vars
    BY <1>1, <2>5 DEF CollectorRecovers, vars
  <2> QED  BY <2>1, <2>2, <2>3, <2>4, <2>5 DEF Next
<1>3. healthy' \in BOOLEAN /\ told' \in SUBSET {"rejected", "gone", "stop"}
  <2>1. healthy \in BOOLEAN /\ told \in SUBSET {"rejected", "gone", "stop"}
    BY DEF AgentInv, TypeOK
  <2> QED  BY <2>1 DEF Next, vars, Start, StartupDelayOver, StartupHarvested, ApiShutdown,
             ApiShutdownCollecting, ShutdownHarvested, CollectorRecovers, Tick, Returns, LoginFails, Again,
             LoginRejected, Preconnected, Connected, ShutdownAnswered, BatchOver, BatchRestarts,
             BatchDisconnects, ShutdownTimeout, Tell
<1> QED  BY <1>2, <1>3 DEF AgentInv, TypeOK, Agents

\* The agent keeps its shape through every order of answers: its state is one of the
\* machine's, its run one the collector handed out, and what it waits for are calls it made.
THEOREM AgentTypeCorrect == Spec => []TypeOK
<1>1. AgentInv => TypeOK
  BY DEF AgentInv
<1> QED  BY <1>1, InitType, StepType, PTL DEF Spec
-----------------------------------------------------------------------------
\* Payloads of a connected agent name its run.
Stamped(a) == IsConnected(a) => a.stampedRun = a.runId
SameRun(a, b) == b.runId = a.runId /\ b.stampedRun = a.stampedRun

LEMMA OperatorsKeepRun ==
    ASSUME NEW a \in Agents
    PROVE  /\ \A c : SameRun(a, Returned(a, c)) /\ SameRun(a, Retry(a, c)) /\ SameRun(a, Login(a, c))
                   /\ SameRun(a, Handshake(a, c))
           /\ \A s, who : SameRun(a, Goto(a, s)) /\ SameRun(a, ForceHarvestAll(a, who))
           /\ \A g : SameRun(a, Send(a, g)) /\ SameRun(a, Stop(a, g)) /\ SameRun(a, Restart(a, g))
                   /\ SameRun(a, Finished(a, g))
           /\ \A kind, for, agg : SameRun(a, Invoke(a, kind, for, agg)) /\ SameRun(a, Connect(a, for, agg))
           /\ SameRun(a, StartAggregators(a))
           /\ \A s : SameRun(a, SetState(a, s))
BY DEF SameRun, Returned, Retry, Login, Handshake, Goto, ForceHarvestAll, Send, Stop, Restart, Finished,
       Invoke, Connect, Shutdown, StartAggregators, StopAggregators, SetState, Agents, AgentRecord

LEMMA LoginOverStamps ==
    ASSUME NEW a \in Agents, NEW c, NEW fatal \in BOOLEAN, NEW immediate \in BOOLEAN, fatal => Stamped(a)
    PROVE  Stamped(LoginOver(a, c, fatal, immediate))
<1>1. OnConnect(a) \in Agents /\ Stamped(OnConnect(a))
  BY FieldsType DEF OnConnect, Stamped, IsConnected, Agents, AgentRecord
<1>2. Stamped(AfterConnect(a, c.agg))
  <2>1. StartAggregators(OnConnect(a)) \in Agents
    BY <1>1, FieldsType
  <2> QED  BY <1>1, <2>1, OperatorsKeepRun DEF AfterConnect, Stamped, SameRun, IsConnected
<1>3. Stamped(StartConnected(a, fatal, immediate))
  <2> DEFINE b == [a EXCEPT !.sampler = FALSE]
             up == SetState(OnConnect(a), "started")
             down == SetState(b, "errored")
  <2>1. b \in Agents /\ SameRun(a, b)
    BY DEF Agents, AgentRecord, SameRun
  <2> HIDE DEF b
  <2>2. up \in Agents /\ down \in Agents
    BY <1>1, <2>1, SetStateType DEF State
  <2>3. Stamped(up) /\ SameRun(a, down)
    BY <1>1, <2>1, OperatorsKeepRun DEF Stamped, SameRun, IsConnected
  <2>4. StartAggregators(up) \in Agents /\ SameRun(up, StartAggregators(up))
    BY <2>2, FieldsType, OperatorsKeepRun
  <2>5. \A e \in Agents : \A v : SameRun(e, [e EXCEPT !.startup = v])
    BY DEF Agents, AgentRecord, SameRun
  <2> HIDE DEF up, down
  <2>6. CASE fatal
    BY <2>2, <2>3, <2>5, <2>6 DEF StartConnected, Stamped, SameRun, IsConnected, down, b
  <2>7. CASE ~fatal /\ ~IsConnected(a)
    BY <2>5, <2>7 DEF StartConnected, Stamped, SameRun, IsConnected
  <2>8. CASE ~fatal /\ IsConnected(a)
    BY <2>2, <2>3, <2>4, <2>5, <2>8 DEF StartConnected, Stamped, SameRun, IsConnected, up
  <2> QED  BY <2>6, <2>7, <2>8
<1> QED  BY <1>2, <1>3 DEF LoginOver

LEMMA OnShutdownStamps ==
    ASSUME NEW a \in Agents, NEW c \in Call, NEW error \in BOOLEAN
    PROVE  Stamped(OnShutdown(a, c, error))
<1> DEFINE gone == [Goto(a, "disconnected") EXCEPT !.runId = NoRun]
           s == IF error THEN "errored" ELSE "stopped"
<1>1. gone \in Agents /\ gone.runId = NoRun
  BY DEF Agents, AgentRecord, Goto, State
<1> HIDE DEF gone
<1>2. SetState(gone, s) \in Agents
  BY <1>1, SetStateType DEF State
<1> HIDE DEF s
<1>3. Connect(gone, "restart", c.agg).runId = NoRun /\ Finished(SetState(gone, s), c.agg).runId = NoRun
  BY <1>1, <1>2, OperatorsKeepRun DEF SameRun
<1> QED  BY <1>3 DEF OnShutdown, Stamped, IsConnected, gone, s
LEMMA ReturnStepStamps ==
    ASSUME agent \in Agents, Stamped(agent), NEW c \in agent.calls, Returns(c)
    PROVE  Stamped(agent')
<1> DEFINE a == Returned(agent, c)
<1>1. c \in Call
  BY DEF Agents, AgentRecord
<1>2. a \in Agents /\ Stamped(a)
  BY ReturnedType, OperatorsKeepRun DEF Stamped, SameRun, IsConnected
<1> HIDE DEF a
<1>3. CASE LoginFails(c) \/ Again(c) \/ Preconnected(c)
  BY <1>2, <1>3, OperatorsKeepRun DEF LoginFails, Again, Preconnected, Stamped, SameRun, IsConnected, a
<1>4. CASE LoginRejected(c)
  BY <1>2, <1>4, LoginOverStamps, AgentAssumption DEF LoginRejected, a
<1>5. CASE Connected(c)
  <2>1. PICK run \in Runs, mismatch \in BOOLEAN :
           agent' = LoginOver(Reconfigure(Goto(a, "connected"), run, mismatch), c, FALSE, ImmediateHarvest)
    BY <1>5 DEF Connected, a
  <2>2. Reconfigure(Goto(a, "connected"), run, mismatch) \in Agents
    BY <1>2, FieldsType, ReconfigureType DEF State
  <2> QED  BY <2>1, <2>2, LoginOverStamps, AgentAssumption
<1>6. CASE ShutdownAnswered(c)
  BY <1>1, <1>2, <1>6, OnShutdownStamps DEF ShutdownAnswered, a
<1>7. CASE BatchOver(c) \/ BatchRestarts(c) \/ BatchDisconnects(c) \/ ShutdownTimeout(c)
  BY <1>2, <1>7, OperatorsKeepRun DEF BatchOver, BatchRestarts, BatchDisconnects, ShutdownTimeout,
     Stamped, SameRun, IsConnected, a
<1> QED  BY <1>3, <1>4, <1>5, <1>6, <1>7 DEF Returns

LEMMA OtherStepStamps ==
    ASSUME agent \in Agents, Stamped(agent),
           \/ Start \/ StartupDelayOver \/ StartupHarvested
           \/ ApiShutdown \/ ApiShutdownCollecting \/ ShutdownHarvested
           \/ \E g \in Aggregators : Tick(g)
           \/ CollectorRecovers \/ UNCHANGED vars
    PROVE  Stamped(agent')
<1>1. \A b : SameRun(agent, b) => Stamped(b)
  BY DEF Stamped, SameRun, IsConnected
<1>2. \A b, d : SameRun(agent, b) /\ SameRun(b, d) => Stamped(d)
  BY DEF Stamped, SameRun, IsConnected
<1>3. CASE Start
  <2> DEFINE down == Goto(agent, "errored")
             up == Connect(agent, "start", NoAgg)
  <2>1. down \in Agents /\ up \in Agents
    BY FieldsType, SendType DEF State, For, Waiting
  <2>2. SameRun(agent, down) /\ SameRun(agent, up)
    BY OperatorsKeepRun
  <2>3. \/ agent' = [agent EXCEPT !.startup = "failed"]
        \/ agent' = [down EXCEPT !.startup = "failed"]
        \/ agent' = [up EXCEPT !.sampler = TRUE, !.startup = "connecting"]
    BY <1>3 DEF Start
  <2> HIDE DEF up, down
  <2>4. SameRun(agent, agent') \/ SameRun(down, agent') \/ SameRun(up, agent')
    BY <2>1, <2>3 DEF Agents, AgentRecord, SameRun
  <2> QED  BY <1>1, <1>2, <2>2, <2>4
<1>4. CASE StartupDelayOver
  <2> DEFINE b == ForceHarvestAll(agent, "startup")
  <2>1. b \in Agents /\ SameRun(agent, b)
    BY ForceHarvestAllType, OperatorsKeepRun
  <2>2. agent' = [b EXCEPT !.startup = "harvest"]
    BY <1>4 DEF StartupDelayOver
  <2> HIDE DEF b
  <2>3. SameRun(b, agent')
    BY <2>1, <2>2 DEF Agents, AgentRecord, SameRun
  <2> QED  BY <1>2, <2>1, <2>3
<1>5. CASE StartupHarvested
  <2> DEFINE b == StartAggregators(agent)
  <2>1. b \in Agents /\ SameRun(agent, b)
    BY FieldsType, OperatorsKeepRun
  <2>2. agent' = [b EXCEPT !.forced = @ \ {"startup"}, !.startup = "done"]
    BY <1>5 DEF StartupHarvested
  <2> HIDE DEF b
  <2>3. SameRun(b, agent')
    BY <2>1, <2>2 DEF Agents, AgentRecord, SameRun
  <2> QED  BY <1>2, <2>1, <2>3
<1>6. CASE ApiShutdown
  BY <1>1, <1>6, OperatorsKeepRun DEF ApiShutdown
<1>7. CASE ApiShutdownCollecting
  <2> DEFINE b == Invoke(agent, "timeout", "stop", NoAgg)
             h == ForceHarvestAll(agent, "shutdown")
  <2>1. b \in Agents /\ SameRun(agent, b) /\ SameRun(agent, h)
    <3>1. b \in Agents
      BY InvokeType DEF Kind, For, Waiting
    <3>2. SameRun(agent, b) /\ SameRun(agent, h)
      BY OperatorsKeepRun
    <3> QED  BY <3>1, <3>2
  <2>2. \/ agent' = h
        \/ agent' = [b EXCEPT !.shutdownListens = TRUE]
        \/ agent' = [agent EXCEPT !.shutdownListens = TRUE]
    BY <1>7 DEF ApiShutdownCollecting
  <2> HIDE DEF b, h
  <2>3. SameRun(agent, agent') \/ SameRun(b, agent')
    BY <2>1, <2>2 DEF Agents, AgentRecord, SameRun
  <2> QED  BY <1>1, <1>2, <2>1, <2>3
<1>8. CASE ShutdownHarvested
  <2> DEFINE b == [agent EXCEPT !.forced = @ \ {"shutdown"}]
  <2>1. b \in Agents
    BY StartupType
  <2>2. SameRun(agent, b)
    BY DEF Agents, AgentRecord, SameRun
  <2>3. agent' = Stop(b, NoAgg)
    BY <1>8 DEF ShutdownHarvested
  <2> HIDE DEF b
  <2> QED  BY <1>2, <2>1, <2>2, <2>3, OperatorsKeepRun
<1>9. CASE \E g \in Aggregators : Tick(g)
  BY <1>1, <1>9, OperatorsKeepRun DEF Tick
<1>10. CASE CollectorRecovers \/ UNCHANGED vars
  BY <1>10 DEF CollectorRecovers, vars
<1> QED  BY <1>3, <1>4, <1>5, <1>6, <1>7, <1>8, <1>9, <1>10

\* Whatever restarts are under way, and however often the collector hands out another run,
\* a payload never names a run other than the one its request goes to.
THEOREM RunIsStampedCorrect == Spec => []RunIsStamped
<1>1. Init => Stamped(agent)
  BY DEF Init, Stamped, IsConnected
<1>2. AgentInv /\ Stamped(agent) /\ [Next]_vars => Stamped(agent)'
  <2>1. AgentInv => agent \in Agents
    BY DEF AgentInv, TypeOK, Agents
  <2> QED  BY <2>1, ReturnStepStamps, OtherStepStamps DEF Next
<1>3. Stamped(agent) => RunIsStamped
  BY DEF Stamped, RunIsStamped
<1> QED  BY <1>1, <1>2, <1>3, InitType, StepType, PTL DEF Spec
-----------------------------------------------------------------------------
\* While nobody has told the agent to stop or that it is gone, it waits for nothing that stops
\* it, and between its start and its end it has a run or is getting one.
Untroubled(a) ==
    /\ \A c \in a.calls : c.kind # "timeout" /\ (c.kind = "shutdown" => c.for = "restart")
    /\ "shutdown" \notin a.forced /\ ~a.shutdownListens
Placed(a) ==
    IF a.startup \in {"new", "failed"} THEN a.calls = {} /\ a.timers = {} /\ a.forced = {}
    ELSE CanCollectData(a) /\ (IsConnected(a) \/ \E c \in a.calls : LoggingIn(c))
NeverStrandedInv == told = {} => Untroubled(agent) /\ Placed(agent)

LEMMA InvokeUntroubled ==
    ASSUME NEW a \in Agents, Untroubled(a), NEW kind \in Kind, NEW for \in For, NEW agg \in Waiting,
           kind # "timeout", kind = "shutdown" => for = "restart"
    PROVE  LET b == Invoke(a, kind, for, agg)
           IN  /\ Untroubled(b)
               /\ b.startup = a.startup /\ b.state = a.state /\ b.runId = a.runId
               /\ a.calls \subseteq b.calls
               /\ kind \in {"preconnect", "connect", "backoff", "shutdown"} => \E c \in b.calls : LoggingIn(c)
<1>1. PICK c \in Call : /\ c.kind = kind /\ c.for = for
                         /\ Invoke(a, kind, for, agg) = [a EXCEPT !.calls = a.calls \cup {c}]
  BY InvokeType
<1> HIDE DEF Call
<1> QED  BY <1>1 DEF Untroubled, LoggingIn, Agents, AgentRecord
LEMMA FieldsUntroubled ==
    ASSUME NEW a \in Agents, Untroubled(a)
    PROVE  /\ \A c : Untroubled(Returned(a, c))
           /\ \A s : Untroubled(Goto(a, s)) /\ SetState(a, s) = Goto(a, s)
           /\ Untroubled(StopAggregators(a)) /\ Untroubled(StartAggregators(a)) /\ Untroubled(OnConnect(a))
           /\ \A g : Untroubled(Finished(a, g))
BY DEF Untroubled, Returned, Goto, SetState, StopAggregators, StartAggregators, OnConnect, Finished, Agents, AgentRecord

LEMMA ConnectedStays ==
    ASSUME NEW a \in Agents, Untroubled(a), a.startup \notin {"new", "failed"}, NEW c, NEW run \in Runs,
           NEW immediate \in BOOLEAN
    PROVE  LET b == LoginOver(Reconfigure(Goto(a, "connected"), run, FALSE), c, FALSE, immediate)
           IN  Untroubled(b) /\ Placed(b)
<1> DEFINE d == [Goto(a, "connected") EXCEPT !.runId = run]
           e == OnConnect(d)
           up == Goto(e, "started")
<1>1. /\ d \in Agents /\ Untroubled(d) /\ d.startup = a.startup
      /\ d.runId = run /\ d.state = "connected"
  BY DEF Goto, Untroubled, Agents, AgentRecord, State
<1> HIDE DEF d
<1>2. e \in Agents /\ Untroubled(e) /\ e.startup = a.startup /\ e.runId = run /\ e.state = "connected"
  <2>1. e \in Agents /\ Untroubled(e)
    BY <1>1, FieldsType, FieldsUntroubled
  <2> QED  BY <1>1, <2>1 DEF OnConnect, Agents, AgentRecord
<1>3. run # NoRun
  BY CollectorAssumption
<1>4. Reconfigure(Goto(a, "connected"), run, FALSE) = d
  BY DEF Reconfigure, d
<1> HIDE DEF e
<1>5. Untroubled(AfterConnect(d, c.agg)) /\ Placed(AfterConnect(d, c.agg))
  <2>1. StartAggregators(e) \in Agents /\ Untroubled(StartAggregators(e))
    BY <1>2, FieldsType, FieldsUntroubled
  <2>2. AfterConnect(d, c.agg) = Finished(StartAggregators(e), c.agg)
    BY DEF AfterConnect, e
  <2>3. Untroubled(AfterConnect(d, c.agg))
    BY <2>1, <2>2, FieldsUntroubled
  <2>4. /\ AfterConnect(d, c.agg).startup = a.startup
        /\ AfterConnect(d, c.agg).runId = run /\ AfterConnect(d, c.agg).state = "connected"
    BY <1>2, <2>2 DEF Finished, StartAggregators, Agents, AgentRecord
  <2> QED  BY <1>3, <2>3, <2>4 DEF Placed, CanCollectData, Collecting, IsConnected
<1>6. Untroubled(StartConnected(d, FALSE, immediate)) /\ Placed(StartConnected(d, FALSE, immediate))
  <2>1. up \in Agents /\ Untroubled(up) /\ SetState(e, "started") = up
    BY <1>2, FieldsType, FieldsUntroubled DEF State
  <2>2. up.runId = run /\ up.state = "started"
    BY <1>2 DEF Goto, Agents, AgentRecord
  <2>3. StartAggregators(up) \in Agents /\ Untroubled(StartAggregators(up))
    BY <2>1, FieldsType, FieldsUntroubled
  <2>4. StartAggregators(up).runId = run /\ StartAggregators(up).state = "started"
    BY <2>1, <2>2 DEF StartAggregators, Agents, AgentRecord
  <2> HIDE DEF up
  <2>5. StartConnected(d, FALSE, immediate) =
           IF immediate THEN [up EXCEPT !.startup = "delay"] ELSE [StartAggregators(up) EXCEPT !.startup = "done"]
    BY <1>1, <1>3, <2>1 DEF StartConnected, IsConnected, e
  <2>6. \A b \in Agents, v \in {"delay", "done"} :
           Untroubled(b) /\ b.runId = run /\ b.state = "started" =>
              Untroubled([b EXCEPT !.startup = v]) /\ Placed([b EXCEPT !.startup = v])
    BY <1>3 DEF Untroubled, Placed, CanCollectData, Collecting, IsConnected, Agents, AgentRecord
  <2> QED  BY <2>1, <2>2, <2>3, <2>4, <2>5, <2>6
<1> QED  BY <1>4, <1>5, <1>6 DEF LoginOver
LEMMA ForceHarvestAllUntroubled ==
    ASSUME NEW a \in Agents, Untroubled(a), Placed(a), a.startup \notin {"new", "failed"}
    PROVE  LET b == ForceHarvestAll(a, "startup")
           IN  Untroubled(b) /\ Placed(b) /\ b.startup = a.startup
<1> DEFINE S == UNION {Send(a, g).calls : g \in Aggregators}
           b == [a EXCEPT !.calls = a.calls \cup S, !.harvests["startup"] = Aggregators, !.forced = a.forced \cup {"startup"}]
<1>1. \A g \in Aggregators : Untroubled(Send(a, g))
  BY InvokeUntroubled DEF Send, Kind, For, Waiting
<1>2. \A c \in S : c.kind # "timeout" /\ (c.kind = "shutdown" => c.for = "restart")
  BY <1>1 DEF Untroubled
<1>3. ForceHarvestAll(a, "startup") = b
  BY DEF ForceHarvestAll
<1> HIDE DEF S
<1>4. /\ b.calls = a.calls \cup S /\ b.forced = a.forced \cup {"startup"}
      /\ b.shutdownListens = a.shutdownListens /\ b.startup = a.startup
      /\ b.state = a.state /\ b.runId = a.runId
  BY DEF Agents, AgentRecord
<1> HIDE DEF b
<1> QED  BY <1>2, <1>3, <1>4 DEF Untroubled, Placed, CanCollectData, IsConnected

LEMMA ReturnStepStays ==
    ASSUME agent \in Agents, Untroubled(agent), Placed(agent), told' = {}, told = {},
           NEW c \in agent.calls, Returns(c)
    PROVE  Untroubled(agent') /\ Placed(agent')
<1> DEFINE a == Returned(agent, c)
<1>1. c \in Call /\ c.agg \in Waiting /\ c.for \in For
  BY DEF Agents, AgentRecord, Call, Waiting, For
<1>2. a \in Agents /\ Untroubled(a)
  BY ReturnedType, FieldsUntroubled
<1>3. agent.startup \notin {"new", "failed"} /\ CanCollectData(agent)
  BY DEF Placed
<1>4. /\ a.startup = agent.startup /\ a.state = agent.state /\ a.runId = agent.runId
      /\ a.calls = agent.calls \ {c}
  BY DEF Returned, Agents, AgentRecord
<1> HIDE DEF a
<1>5. CASE LoginFails(c) \/ Again(c) \/ Preconnected(c)
  <2>1. PICK kind \in {"backoff", "preconnect", "connect"} : agent' = Invoke(a, kind, c.for, c.agg)
    BY <1>5 DEF LoginFails, Again, Preconnected, Retry, Login, Handshake, a
  <2>2. kind \in Kind
    BY DEF Kind
  <2>3. /\ Untroubled(agent') /\ agent'.startup = a.startup /\ agent'.state = a.state
        /\ \E d \in agent'.calls : LoggingIn(d)
    BY <1>1, <1>2, <2>1, <2>2, InvokeUntroubled
  <2> QED  BY <1>3, <1>4, <2>3 DEF Placed, CanCollectData
<1>6. CASE LoginRejected(c)
  BY <1>6 DEF LoginRejected, Tell
<1>7. CASE Connected(c)
  <2>1. PICK run \in Runs :
           agent' = LoginOver(Reconfigure(Goto(a, "connected"), run, FALSE), c, FALSE, ImmediateHarvest)
    BY <1>7 DEF Connected, Tell, a
  <2> QED  BY <1>2, <1>3, <1>4, <2>1, ConnectedStays, AgentAssumption
<1>8. CASE ShutdownAnswered(c)
  <2> DEFINE gone == [Goto(a, "disconnected") EXCEPT !.runId = NoRun]
             d == Goto(gone, "connecting")
  <2>1. c.for = "restart"
    BY <1>8 DEF ShutdownAnswered, Answered, Untroubled
  <2>2. agent' = Connect(gone, "restart", c.agg)
    BY <1>8, <2>1 DEF ShutdownAnswered, OnShutdown, a
  <2>3. gone \in Agents /\ Untroubled(gone) /\ gone.startup = a.startup
    BY <1>2 DEF Goto, Untroubled, Agents, AgentRecord, State
  <2> HIDE DEF gone
  <2>4. d \in Agents /\ Untroubled(d) /\ d.startup = a.startup /\ d.state = "connecting"
    <3>1. d \in Agents /\ Untroubled(d)
      BY <2>3, FieldsType, FieldsUntroubled DEF State
    <3>2. d.startup = gone.startup /\ d.state = "connecting"
      BY <2>3 DEF Goto, Agents, AgentRecord
    <3> QED  BY <2>3, <3>1, <3>2
  <2>5. agent' = Invoke(d, "preconnect", "restart", c.agg)
    BY <2>2 DEF Connect
  <2> HIDE DEF d
  <2>6. /\ Untroubled(agent') /\ agent'.startup = a.startup /\ agent'.state = "connecting"
        /\ \E e \in agent'.calls : LoggingIn(e)
    BY <1>1, <2>4, <2>5, InvokeUntroubled DEF Kind, For
  <2> QED  BY <1>3, <1>4, <2>6 DEF Placed, CanCollectData, Collecting
<1>9. CASE BatchOver(c)
  <2>1. c.kind \in {"data", "unsent"} /\ agent' = Finished(a, c.agg)
    BY <1>9 DEF BatchOver, Answered, a
  <2>2. ~LoggingIn(c)
    BY <2>1 DEF LoggingIn
  <2>3. Untroubled(agent')
    BY <1>2, <2>1, FieldsUntroubled
  <2>4. /\ agent'.calls = a.calls /\ agent'.startup = a.startup
        /\ agent'.state = a.state /\ agent'.runId = a.runId
    BY <1>2, <2>1 DEF Finished, Agents, AgentRecord
  <2> QED  BY <1>3, <1>4, <2>2, <2>3, <2>4 DEF Placed, CanCollectData, IsConnected
<1>10. CASE BatchRestarts(c)
  <2> DEFINE b == StopAggregators(a)
  <2>1. b \in Agents /\ Untroubled(b)
    BY <1>2, FieldsType, FieldsUntroubled
  <2>2. b.startup = a.startup /\ b.state = a.state
    BY <1>2 DEF StopAggregators, Agents, AgentRecord
  <2>3. agent' = Invoke(b, "shutdown", "restart", c.agg)
    BY <1>10 DEF BatchRestarts, Restart, Shutdown, a
  <2> HIDE DEF b
  <2>4. /\ Untroubled(agent') /\ agent'.startup = b.startup /\ agent'.state = b.state
        /\ \E e \in agent'.calls : LoggingIn(e)
    BY <1>1, <2>1, <2>3, InvokeUntroubled DEF Kind, For
  <2> QED  BY <1>3, <1>4, <2>2, <2>4 DEF Placed, CanCollectData
<1>11. CASE BatchDisconnects(c)
  BY <1>11 DEF BatchDisconnects, Tell
<1>12. CASE ShutdownTimeout(c)
  BY <1>12 DEF ShutdownTimeout, Answered, Untroubled
<1> QED  BY <1>5, <1>6, <1>7, <1>8, <1>9, <1>10, <1>11, <1>12 DEF Returns

LEMMA StartStepStays ==
    ASSUME agent \in Agents, Untroubled(agent), Placed(agent), Start
    PROVE  Untroubled(agent') /\ Placed(agent')
<1> DEFINE down == Goto(agent, "errored")
           d == Goto(agent, "connecting")
           up == Invoke(d, "preconnect", "start", NoAgg)
<1>1. agent.calls = {} /\ agent.timers = {} /\ agent.forced = {}
  BY DEF Start, Placed
<1>2. \A b \in Agents : b.calls = {} /\ b.timers = {} /\ b.forced = {} /\ Untroubled(b) =>
         Untroubled([b EXCEPT !.startup = "failed"]) /\ Placed([b EXCEPT !.startup = "failed"])
  BY DEF Untroubled, Placed, Agents, AgentRecord
<1>3. /\ down \in Agents /\ Untroubled(down) /\ down.calls = {} /\ down.timers = {} /\ down.forced = {}
  BY <1>1 DEF Goto, Untroubled, Agents, AgentRecord, State
<1>4. d \in Agents /\ Untroubled(d) /\ d.state = "connecting"
  <2>1. d \in Agents /\ Untroubled(d)
    BY FieldsType, FieldsUntroubled DEF State
  <2> QED  BY <2>1 DEF Goto, Agents, AgentRecord
<1> HIDE DEF d
<1>5. /\ up \in Agents /\ Untroubled(up) /\ up.state = "connecting"
      /\ \E e \in up.calls : LoggingIn(e)
  BY <1>4, InvokeType, InvokeUntroubled DEF Kind, For, Waiting
<1>6. \/ agent' = [agent EXCEPT !.startup = "failed"]
      \/ agent' = [down EXCEPT !.startup = "failed"]
      \/ agent' = [up EXCEPT !.sampler = TRUE, !.startup = "connecting"]
  BY DEF Start, Connect, d
<1> HIDE DEF down, up
<1>7. \A b \in Agents : Untroubled(b) /\ b.state = "connecting" /\ (\E e \in b.calls : LoggingIn(e)) =>
         LET e == [b EXCEPT !.sampler = TRUE, !.startup = "connecting"] IN Untroubled(e) /\ Placed(e)
  BY DEF Untroubled, Placed, CanCollectData, Collecting, Agents, AgentRecord
<1> QED  BY <1>1, <1>2, <1>3, <1>5, <1>6, <1>7

LEMMA OtherStepStays ==
    ASSUME agent \in Agents, Untroubled(agent), Placed(agent), told = {}, told' = {},
           \/ StartupDelayOver \/ StartupHarvested
           \/ ApiShutdown \/ ApiShutdownCollecting \/ ShutdownHarvested
           \/ \E g \in Aggregators : Tick(g)
           \/ CollectorRecovers \/ UNCHANGED vars
    PROVE  Untroubled(agent') /\ Placed(agent')
<1>1. \A b \in Agents, v \in {"harvest", "done"} :
         Untroubled(b) /\ Placed(b) /\ b.startup \notin {"new", "failed"} =>
            Untroubled([b EXCEPT !.startup = v]) /\ Placed([b EXCEPT !.startup = v])
  BY DEF Untroubled, Placed, CanCollectData, IsConnected, Agents, AgentRecord
<1>2. CASE StartupDelayOver
  <2> DEFINE b == ForceHarvestAll(agent, "startup")
  <2>1. agent.startup = "delay" /\ agent' = [b EXCEPT !.startup = "harvest"]
    BY <1>2 DEF StartupDelayOver
  <2>2. b \in Agents /\ Untroubled(b) /\ Placed(b) /\ b.startup = "delay"
    BY <2>1, ForceHarvestAllType, ForceHarvestAllUntroubled
  <2> HIDE DEF b
  <2> QED  BY <1>1, <2>1, <2>2
<1>3. CASE StartupHarvested
  <2> DEFINE b == StartAggregators(agent)
             d == [b EXCEPT !.forced = b.forced \ {"startup"}]
  <2>1. agent.startup \notin {"new", "failed"} /\ agent' = [b EXCEPT !.forced = b.forced \ {"startup"}, !.startup = "done"]
    BY <1>3 DEF StartupHarvested, Placed
  <2>2. b \in Agents /\ Untroubled(b)
    BY FieldsType, FieldsUntroubled
  <2>3. b.calls = agent.calls /\ b.runId = agent.runId /\ b.state = agent.state /\ b.startup = agent.startup
    BY DEF StartAggregators, Agents, AgentRecord
  <2> HIDE DEF b
  <2>4. /\ agent'.calls = b.calls /\ agent'.runId = b.runId /\ agent'.state = b.state /\ agent'.startup = "done"
        /\ agent'.forced = b.forced \ {"startup"} /\ agent'.shutdownListens = b.shutdownListens
    BY <2>1, <2>2 DEF Agents, AgentRecord
  <2> QED  BY <2>1, <2>2, <2>3, <2>4 DEF Untroubled, Placed, CanCollectData, IsConnected
<1>4. CASE ApiShutdown \/ ApiShutdownCollecting
  BY <1>4 DEF ApiShutdown, ApiShutdownCollecting, Tell
<1>5. CASE ShutdownHarvested
  BY <1>5 DEF ShutdownHarvested, Untroubled
<1>6. CASE \E g \in Aggregators : Tick(g)
  <2>1. PICK g \in Aggregators : g \in agent.timers /\ agent' = Send(agent, g)
    BY <1>6 DEF Tick
  <2>2. agent.startup \notin {"new", "failed"}
    BY <2>1 DEF Placed
  <2>3. /\ Untroubled(agent') /\ agent'.startup = agent.startup /\ agent'.state = agent.state
        /\ agent'.runId = agent.runId /\ agent.calls \subseteq agent'.calls
    <3> DEFINE kind == IF IsConnected(agent) THEN "data" ELSE "unsent"
    <3>1. kind \in Kind /\ kind \notin {"timeout", "shutdown"} /\ "data" \in For /\ g \in Waiting
      BY DEF Kind, For, Waiting
    <3>2. agent' = Invoke(agent, kind, "data", g)
      BY <2>1 DEF Send
    <3> HIDE DEF kind
    <3> QED  BY <3>1, <3>2, InvokeUntroubled
  <2> QED  BY <2>2, <2>3 DEF Placed, CanCollectData, IsConnected
<1>7. CASE CollectorRecovers \/ UNCHANGED vars
  BY <1>7 DEF CollectorRecovers, vars
<1> QED  BY <1>2, <1>3, <1>4, <1>5, <1>6, <1>7

\* An agent that was started, and neither told to stop nor rejected, collects, and has a run or
\* is getting one, in whatever order its batches are answered and its restarts overlap.
THEOREM NeverStrandedCorrect == Spec => []NeverStranded
<1>1. Init => NeverStrandedInv
  BY DEF Init, NeverStrandedInv, Untroubled, Placed
<1>2. AgentInv /\ NeverStrandedInv /\ [Next]_vars => NeverStrandedInv'
  <2> SUFFICES ASSUME AgentInv, NeverStrandedInv, [Next]_vars, told' = {}
               PROVE  Untroubled(agent') /\ Placed(agent')
    BY DEF NeverStrandedInv
  <2>1. agent \in Agents
    BY DEF AgentInv, TypeOK, Agents
  <2>2. told = {}
    BY DEF Next, vars, Start, StartupDelayOver, StartupHarvested, ApiShutdown,
       ApiShutdownCollecting, ShutdownHarvested, CollectorRecovers, Tick, Returns, LoginFails, Again,
       LoginRejected, Preconnected, Connected, ShutdownAnswered, BatchOver, BatchRestarts,
       BatchDisconnects, ShutdownTimeout, Tell
  <2>3. Untroubled(agent) /\ Placed(agent)
    BY <2>2 DEF NeverStrandedInv
  <2> QED  BY <2>1, <2>2, <2>3, ReturnStepStays, StartStepStays, OtherStepStays DEF Next
<1>3. NeverStrandedInv => NeverStranded
  BY DEF NeverStrandedInv, NeverStranded, Placed
<1> QED  BY <1>1, <1>2, <1>3, InitType, StepType, PTL DEF Spec

\* All of it together: the agent is in a state setState knows, its aggregators are stamped with
\* the run the collector has given it, and no order of restarts leaves it without one or another
\* coming (lib/agent.js, lib/collector/api.js).
THEOREM AgentIsCorrect == Spec => []AgentCorrect
<1>1. TypeOK /\ RunIsStamped /\ NeverStranded => AgentCorrect
  BY DEF AgentCorrect
<1> QED BY <1>1, AgentTypeCorrect, RunIsStampedCorrect, NeverStrandedCorrect, PTL

-----------------------------------------------------------------------------
LEMMA ListedTogether ==
    ASSUME NEW a \in Seq(Nat), NEW b \in Seq(Nat)
    PROVE  a \o b \in Seq(Nat) /\ Listed(a \o b) = Listed(a) \cup Listed(b)
<1>1. /\ a \o b \in Seq(Nat) /\ Len(a \o b) = Len(a) + Len(b)
      /\ \A i \in 1..Len(a) + Len(b) : (a \o b)[i] = IF i <= Len(a) THEN a[i] ELSE b[i - Len(a)]
  BY ConcatProperties
<1>2. DOMAIN (a \o b) = 1..Len(a) + Len(b) /\ DOMAIN a = 1..Len(a) /\ DOMAIN b = 1..Len(b)
  BY <1>1
<1>3. Len(a) \in Nat /\ Len(b) \in Nat
  OBVIOUS
<1>4. ASSUME NEW x \in Listed(a \o b) PROVE x \in Listed(a) \cup Listed(b)
  <2>1. PICK i \in 1..Len(a) + Len(b) : x = (a \o b)[i]
    BY <1>2, <1>4 DEF Listed
  <2>2. CASE i <= Len(a)
    BY <2>1, <2>2, <1>1, <1>2, <1>3 DEF Listed
  <2>3. CASE ~(i <= Len(a))
    <3>1. i - Len(a) \in 1..Len(b) /\ x = b[i - Len(a)]
      BY <2>1, <2>3, <1>1, <1>3
    <3> QED BY <3>1, <1>2 DEF Listed
  <2> QED BY <2>2, <2>3
<1>5. ASSUME NEW x \in Listed(a) PROVE x \in Listed(a \o b)
  <2>1. PICK i \in 1..Len(a) : x = a[i]
    BY <1>2, <1>5 DEF Listed
  <2>2. i \in 1..Len(a) + Len(b) /\ x = (a \o b)[i]
    BY <2>1, <1>1, <1>3
  <2> QED BY <2>2, <1>2 DEF Listed
<1>6. ASSUME NEW x \in Listed(b) PROVE x \in Listed(a \o b)
  <2>1. PICK i \in 1..Len(b) : x = b[i]
    BY <1>2, <1>6 DEF Listed
  <2>2. i + Len(a) \in 1..Len(a) + Len(b) /\ x = (a \o b)[i + Len(a)]
    BY <2>1, <1>1, <1>3
  <2> QED BY <2>2, <1>2 DEF Listed
<1> QED BY <1>1, <1>4, <1>5, <1>6

LEMMA ItemMerged ==
    ASSUME NEW list \in Seq(Nat), NEW item, IsItem(item)
    PROVE  /\ WithItem(list, item) \in Seq(Nat)
           /\ Listed(WithItem(list, item)) = Listed(list) \cup Listed(item.codes)
<1>1. CASE ~item.text /\ Head(item.codes) \in Listed(list)
  <2>1. WithItem(list, item) = list
    BY <1>1 DEF WithItem
  <2>2. PICK codes \in Seq(Nat) : codes = item.codes
    BY DEF IsItem
  <2>3. Len(codes) = 1 /\ Head(codes) = codes[1] /\ DOMAIN codes = 1..1
    BY <2>2, <1>1 DEF IsItem
  <2>4. Listed(codes) = {Head(codes)}
    BY <2>3 DEF Listed
  <2> QED BY <2>1, <2>2, <2>4, <1>1
<1>2. CASE ~(~item.text /\ Head(item.codes) \in Listed(list))
  <2>1. WithItem(list, item) = list \o item.codes
    BY <1>2 DEF WithItem
  <2> QED BY <2>1, ListedTogether DEF IsItem
<1> QED BY <1>1, <1>2

\* Merging takes every item in.
LEMMA CodesMerged ==
    ASSUME NEW list \in Seq(Nat), NEW items, Len(items) \in Nat, \A k \in 1..Len(items) : IsItem(items[k])
    PROVE  /\ MergedCodes(list, items) \in Seq(Nat)
           /\ Listed(MergedCodes(list, items)) =
                 Listed(list) \cup UNION {Listed(items[k].codes) : k \in 1..Len(items)}
<1>1. PICK n \in Nat : n = Len(items)
  OBVIOUS
<1>2. PICK F : F = [p \in Seq(Nat) \X (1..n) |-> WithItem(p[1], items[p[2]])]
  OBVIOUS
<1>3. F \in [Seq(Nat) \X (1..n) -> Seq(Nat)]
  <2>1. ASSUME NEW p \in Seq(Nat) \X (1..n) PROVE WithItem(p[1], items[p[2]]) \in Seq(Nat)
    BY <1>1, ItemMerged
  <2> QED BY <1>2, <2>1
<1>4. PICK g \in [0..n -> Seq(Nat)] : g[0] = list /\ \A k \in 1..n : g[k] = F[<<g[k - 1], k>>]
  <2>1. PICK C : C = Seq(Nat)
    OBVIOUS
  <2>2. F \in [C \X (1..n) -> C] /\ list \in C
    BY <1>3, <2>1
  <2>3. RunsOf(C, n, F, list) # {}
    BY <2>2, Repeated
  <2> QED BY <2>1, <2>3 DEF RunsOf
<1>5. ASSUME NEW k \in 1..n PROVE g[k] = WithItem(g[k - 1], items[k])
  <2> k - 1 \in 0..n
    OBVIOUS
  <2>1. g[k - 1] \in Seq(Nat) /\ <<g[k - 1], k>> \in Seq(Nat) \X (1..n)
    BY <1>4, Zenon
  <2> QED BY <2>1, <1>2, <1>4
<1>6. g = [k \in 0..Len(items) |-> IF k = 0 THEN list ELSE WithItem(g[k - 1], items[k])]
  <2>1. PICK h : h = [k \in 0..n |-> IF k = 0 THEN list ELSE WithItem(g[k - 1], items[k])]
    OBVIOUS
  <2>2. ASSUME NEW k \in 0..n PROVE g[k] = h[k]
    <3>1. k = 0 \/ k \in 1..n
      OBVIOUS
    <3> QED BY <3>1, <2>1, <1>4, <1>5
  <2>3. g = h
    BY <2>1, <2>2, <1>4
  <2> QED BY <2>3, <2>1, <1>1
<1>7. PICK m : m = CHOOSE mm : mm = [k \in 0..Len(items) |-> IF k = 0 THEN list ELSE WithItem(mm[k - 1], items[k])]
  OBVIOUS
<1>8. m = [k \in 0..Len(items) |-> IF k = 0 THEN list ELSE WithItem(m[k - 1], items[k])]
  BY <1>6, <1>7
<1>9. MergedCodes(list, items) = m[n]
  BY <1>1, <1>7 DEF MergedCodes
<1>10. m[0] = list /\ \A k \in 1..n : m[k] = WithItem(m[k - 1], items[k])
  BY <1>1, <1>8
<1> DEFINE Taken(k) == UNION {Listed(items[i].codes) : i \in 1..k}
<1>11. PICK J : J = {k \in 0..n : m[k] \in Seq(Nat) /\ Listed(m[k]) = Listed(list) \cup Taken(k)}
  OBVIOUS
<1>12. 0 \in J
  BY <1>10, <1>11
<1>13. ASSUME NEW k \in 1..n, k - 1 \in J PROVE k \in J
  <2>1. PICK before \in Seq(Nat) : before = m[k - 1] /\ Listed(before) = Listed(list) \cup Taken(k - 1)
    BY <1>11, <1>13
  <2>2. PICK item : item = items[k] /\ IsItem(item)
    BY <1>1
  <2>3. m[k] = WithItem(before, item)
    BY <2>1, <2>2, <1>10
  <2>4. m[k] \in Seq(Nat) /\ Listed(m[k]) = Listed(before) \cup Listed(item.codes)
    BY <2>2, <2>3, ItemMerged
  <2>5. 1..k = 1..(k - 1) \cup {k}
    OBVIOUS
  <2>6. Taken(k) = Taken(k - 1) \cup Listed(item.codes)
    BY <2>2, <2>5, Zenon
  <2>7. Listed(m[k]) = Listed(list) \cup Taken(k)
    BY <2>1, <2>4, <2>6
  <2>8. k \in 0..n
    OBVIOUS
  <2> QED BY <2>4, <2>7, <2>8, <1>11, Zenon
<1>14. n \in J
  <2> Climbs(J, n)
    BY <1>12, <1>13 DEF Climbs
  <2> QED BY StepByStep
<1> QED BY <1>1, <1>9, <1>11, <1>14

-----------------------------------------------------------------------------
Movable == ServerFlags \cup {"custom_insights_events.enabled", "api.custom_attributes_enabled"}
Canonical(c) == c.flag["api.custom_attributes_enabled"] => c.flag["api.custom_parameters_enabled"]

\* What no server setting changes.
Kept(c, d) ==
    /\ \A f \in Flags \ Movable : d.flag[f] = c.flag[f]
    /\ Canonical(c) => d.flag["api.custom_attributes_enabled"] = c.flag["api.custom_attributes_enabled"]
    /\ c.flag["high_security"] => /\ d.flag["slow_sql.enabled"] = c.flag["slow_sql.enabled"]
                                 /\ d.flag["allow_all_headers"] = c.flag["allow_all_headers"]
    /\ ~c.flag["custom_insights_events.enabled"] => ~d.flag["custom_insights_events.enabled"]
    /\ d.recordSql = c.recordSql /\ d.token = c.token

LEMMA KeptKept ==
    ASSUME NEW c, NEW d, NEW e, Kept(c, d), Kept(d, e)
    PROVE  Kept(c, e)
<1>1. {"high_security", "api.custom_parameters_enabled"} \subseteq Flags \ Movable
  BY DEF Flags, On, Off, Movable, ServerFlags
<1>2. d.flag["high_security"] = c.flag["high_security"]
  BY <1>1 DEF Kept
<1>3. d.flag["api.custom_parameters_enabled"] = c.flag["api.custom_parameters_enabled"]
  BY <1>1 DEF Kept
<1>4. Canonical(c) => Canonical(d)
  BY <1>3 DEF Kept, Canonical
<1> QED BY <1>2, <1>4, Zenon DEF Kept

\* One flag more or less.
LEMMA FlagSet ==
    ASSUME NEW c \in ConfigSettings, NEW f \in Flags, NEW v \in BOOLEAN
    PROVE  /\ [c EXCEPT !.flag[f] = v] \in ConfigSettings
           /\ [c EXCEPT !.flag[f] = v].flag = [c.flag EXCEPT ![f] = v]
           /\ [c EXCEPT !.flag[f] = v].recordSql = c.recordSql
           /\ [c EXCEPT !.flag[f] = v].token = c.token
           /\ [c EXCEPT !.flag[f] = v].codes = c.codes
           /\ [c EXCEPT !.flag[f] = v].account = c.account
<1>1. [c.flag EXCEPT ![f] = v] \in [Flags -> BOOLEAN]
  BY DEF ConfigSettings
<1> QED BY <1>1 DEF ConfigSettings

\* What one setting of the server's may make of a configuration.
After(c, s, d) == d \in ConfigSettings /\ Kept(c, d) /\ Listed(d.codes) = Listed(c.codes) \cup CodesOf(s)

LEMMA FlagUpdated ==
    ASSUME NEW c \in ConfigSettings, NEW f \in ServerFlags, NEW v \in BOOLEAN
    PROVE  UpdateFlag(c, f, v) \in ConfigSettings /\ Kept(c, UpdateFlag(c, f, v))
           /\ UpdateFlag(c, f, v).codes = c.codes
<1>1. PICK d : d = UpdateFlag(c, f, v)
  OBVIOUS
<1>2. f \in Flags
  BY DEF ServerFlags, Flags, On, Off
<1>3. CASE c.flag["high_security"] /\ f \in HighSecurityKeys
  BY <1>1, <1>3 DEF UpdateFlag, Kept
<1>4. CASE ~(c.flag["high_security"] /\ f \in HighSecurityKeys)
  <2>1. d = [c EXCEPT !.flag[f] = v]
    BY <1>1, <1>4 DEF UpdateFlag
  <2>2. /\ d \in ConfigSettings /\ d.flag = [c.flag EXCEPT ![f] = v]
        /\ d.recordSql = c.recordSql /\ d.token = c.token /\ d.codes = c.codes
    BY <2>1, <1>2, FlagSet
  <2>3. c.flag \in [Flags -> BOOLEAN]
    BY DEF ConfigSettings
  <2>4. \A g \in Flags : g # f => d.flag[g] = c.flag[g]
    BY <2>2, <2>3
  <2>5. \A g \in Flags \ Movable : d.flag[g] = c.flag[g]
    BY <2>4 DEF Movable
  <2>6. f \notin {"api.custom_attributes_enabled", "custom_insights_events.enabled"}
    BY DEF ServerFlags
  <2>7. c.flag["high_security"] => f \notin {"slow_sql.enabled", "allow_all_headers"}
    BY <1>4 DEF HighSecurityKeys, HighSecuritySettings, SecureOn, SecureOff
  <2>8. {"api.custom_attributes_enabled", "custom_insights_events.enabled", "slow_sql.enabled",
         "allow_all_headers"} \subseteq Flags
    BY DEF Flags, On, Off
  <2>9. Kept(c, d)
    BY <2>2, <2>4, <2>5, <2>6, <2>7, <2>8 DEF Kept
  <2> QED BY <1>1, <2>2, <2>9
<1> QED BY <1>3, <1>4

Disabled == {"transaction_events.enabled", "custom_insights_events.enabled", "error_collector.capture_events"}

LEMMA OnlyDisabled ==
    ASSUME NEW c \in ConfigSettings, NEW f \in Disabled, NEW v \in BOOLEAN
    PROVE  DisableOnly(c, f, v) \in ConfigSettings /\ Kept(c, DisableOnly(c, f, v))
           /\ DisableOnly(c, f, v).codes = c.codes
<1>1. CASE v
  BY <1>1 DEF DisableOnly, Kept
<1>2. CASE ~v
  <2>1. PICK d : d = [c EXCEPT !.flag[f] = FALSE]
    OBVIOUS
  <2>2. DisableOnly(c, f, v) = d
    BY <1>2, <2>1 DEF DisableOnly
  <2>3. f \in Flags
    BY DEF Disabled, Flags, On, Off
  <2>4. /\ d \in ConfigSettings /\ d.flag = [c.flag EXCEPT ![f] = FALSE]
        /\ d.recordSql = c.recordSql /\ d.token = c.token /\ d.codes = c.codes
    BY <2>1, <2>3, FlagSet
  <2>5. c.flag \in [Flags -> BOOLEAN]
    BY DEF ConfigSettings
  <2>6. /\ \A g \in Flags : g # f => d.flag[g] = c.flag[g]
        /\ ~d.flag[f]
    BY <2>3, <2>4, <2>5
  <2>7. f \in Movable /\ f \notin {"api.custom_attributes_enabled", "slow_sql.enabled", "allow_all_headers"}
    BY DEF Disabled, Movable, ServerFlags
  <2>8. {"api.custom_attributes_enabled", "custom_insights_events.enabled", "slow_sql.enabled",
         "allow_all_headers"} \subseteq Flags
    BY DEF Flags, On, Off
  <2>9. \A g \in Flags \ Movable : d.flag[g] = c.flag[g]
    BY <2>6, <2>7
  <2>10. ~c.flag["custom_insights_events.enabled"] => ~d.flag["custom_insights_events.enabled"]
    BY <2>6, <2>8
  <2>11. Kept(c, d)
    BY <2>4, <2>6, <2>7, <2>8, <2>9, <2>10 DEF Kept
  <2> QED BY <2>2, <2>4, <2>11
<1> QED BY <1>1, <1>2

\* Canonicalizing changes one flag, and only if it was not canonical.
LEMMA OnlyCanonicalized ==
    ASSUME NEW c \in ConfigSettings
    PROVE  /\ [c EXCEPT !.flag = Canonicalized(@)] \in ConfigSettings
           /\ Kept(c, [c EXCEPT !.flag = Canonicalized(@)])
           /\ [c EXCEPT !.flag = Canonicalized(@)].codes = c.codes
<1>1. PICK flag : flag = c.flag
  OBVIOUS
<1>2. PICK new : new = Canonicalized(flag)
  OBVIOUS
<1>3. PICK d : d = [c EXCEPT !.flag = new]
  OBVIOUS
<1>4. d = [c EXCEPT !.flag = Canonicalized(@)]
  BY <1>1, <1>2, <1>3
<1>5. flag \in [Flags -> BOOLEAN]
  BY <1>1 DEF ConfigSettings
<1>6. new = [flag EXCEPT !["api.custom_attributes_enabled"] = flag["api.custom_attributes_enabled"]
                                                             /\ flag["api.custom_parameters_enabled"]]
  BY <1>2 DEF Canonicalized
<1>7. {"api.custom_attributes_enabled", "api.custom_parameters_enabled", "custom_insights_events.enabled",
       "slow_sql.enabled", "allow_all_headers"} \subseteq Flags
  BY DEF Flags, On, Off
<1>8. /\ new \in [Flags -> BOOLEAN]
      /\ \A g \in Flags : g # "api.custom_attributes_enabled" => new[g] = flag[g]
      /\ Canonical(c) => new["api.custom_attributes_enabled"] = flag["api.custom_attributes_enabled"]
  BY <1>1, <1>5, <1>6, <1>7 DEF Canonical
<1>9. d \in ConfigSettings /\ d.flag = new /\ d.recordSql = c.recordSql /\ d.token = c.token /\ d.codes = c.codes
  BY <1>3, <1>8 DEF ConfigSettings
<1>10. \A g \in Flags \ Movable : new[g] = flag[g]
  BY <1>8 DEF Movable
<1>11. Kept(c, d)
  BY <1>1, <1>7, <1>8, <1>9, <1>10 DEF Kept
<1> QED BY <1>4, <1>9, <1>11

LEMMA KeptAsIs == \A c : Kept(c, c)
  BY DEF Kept

\* Each kind of setting.
LEMMA SettingKept ==
    ASSUME NEW c \in ConfigSettings, NEW s, IsSetting(s)
    PROVE  After(c, s, FromServer(c, s))
<1>1. PICK d : d = FromServer(c, s)
  OBVIOUS
<1>2. CASE s.key = "allow_all_headers"
  <2>1. PICK u : u = UpdateFlag(c, s.key, s.value)
    OBVIOUS
  <2>2. s.key \in ServerFlags /\ s.value \in BOOLEAN
    BY <1>2 DEF IsSetting, ServerFlags, DisableKeys, LeftAlone, CodesKey
  <2>3. u \in ConfigSettings /\ Kept(c, u) /\ u.codes = c.codes
    BY <2>1, <2>2, FlagUpdated
  <2>4. d = [u EXCEPT !.flag = Canonicalized(@)]
    BY <1>1, <1>2, <2>1 DEF FromServer, ServerFlags, LeftAlone, CodesKey
  <2>5. d \in ConfigSettings /\ Kept(u, d) /\ d.codes = u.codes
    BY <2>3, <2>4, OnlyCanonicalized
  <2>6. CodesOf(s) = {}
    BY <1>2 DEF CodesOf, CodesKey
  <2> QED BY <1>1, <2>3, <2>5, <2>6, KeptKept DEF After
<1>3. CASE s.key \in ServerFlags \ {"allow_all_headers"}
  <2>1. d = UpdateFlag(c, s.key, s.value)
    BY <1>1, <1>3 DEF FromServer, ServerFlags, LeftAlone, CodesKey
  <2>2. s.value \in BOOLEAN
    BY <1>3 DEF IsSetting, ServerFlags, DisableKeys, LeftAlone, CodesKey
  <2>3. CodesOf(s) = {}
    BY <1>3 DEF CodesOf, CodesKey, ServerFlags
  <2> QED BY <1>1, <1>3, <2>1, <2>2, <2>3, FlagUpdated DEF After
<1>4. CASE s.key \in DisableKeys
  <2>1. s.value \in BOOLEAN
    BY <1>4 DEF IsSetting, ServerFlags, DisableKeys, LeftAlone, CodesKey
  <2>2. PICK f \in Disabled : d = DisableOnly(c, f, s.value)
    BY <1>1, <1>4 DEF FromServer, DisableKeys, Disabled, ServerFlags, LeftAlone, CodesKey
  <2>3. CodesOf(s) = {}
    BY <1>4 DEF CodesOf, CodesKey, DisableKeys
  <2> QED BY <1>1, <2>1, <2>2, <2>3, OnlyDisabled DEF After
<1>5. CASE s.key \in LeftAlone
  <2>1. d = c
    BY <1>1, <1>5 DEF FromServer, LeftAlone, ServerFlags, CodesKey
  <2>2. CodesOf(s) = {}
    BY <1>5 DEF CodesOf, CodesKey, LeftAlone
  <2> QED BY <1>1, <2>1, <2>2, KeptAsIs DEF After
<1>6. CASE s.key = "account_id"
  <2>1. s.value \in AccountIds
    BY <1>6 DEF IsSetting, ServerFlags, DisableKeys, LeftAlone, CodesKey, AccountIds
  <2>2. d = [c EXCEPT !.account = s.value]
    BY <1>1, <1>6 DEF FromServer, ServerFlags, LeftAlone, CodesKey
  <2>3. d \in ConfigSettings /\ d.flag = c.flag /\ d.recordSql = c.recordSql /\ d.token = c.token /\ d.codes = c.codes
    BY <2>1, <2>2 DEF ConfigSettings
  <2>4. CodesOf(s) = {}
    BY <1>6 DEF CodesOf, CodesKey
  <2>5. Kept(c, d)
    BY <2>3 DEF Kept, Canonical
  <2> QED BY <1>1, <2>3, <2>4, <2>5 DEF After
<1>7. CASE s.key = CodesKey
  <2>1. IsCodes(s.value)
    BY <1>7 DEF IsSetting, ServerFlags, DisableKeys, LeftAlone, CodesKey
  <2>2. d = UpdateCodes(c, s.value)
    BY <1>1, <1>7 DEF FromServer, ServerFlags, LeftAlone, CodesKey
  <2>3. CASE ~s.value.valid
    BY <1>1, <2>2, <2>3, KeptAsIs DEF UpdateCodes, CodesOf, After
  <2>4. CASE s.value.valid
    <3>1. PICK items : items = s.value.items
      OBVIOUS
    <3>2. PICK codes : codes = MergedCodes(c.codes, items)
      OBVIOUS
    <3>3. d = [c EXCEPT !.codes = codes]
      BY <2>2, <2>4, <3>1, <3>2 DEF UpdateCodes
    <3>4. Len(items) \in Nat /\ DOMAIN items = 1..Len(items) /\ \A k \in 1..Len(items) : IsItem(items[k])
      <4>1. IsList(items)
        BY <2>1, <3>1 DEF IsCodes
      <4>2. DOMAIN items = 1..Len(items)
        BY <4>1 DEF IsList
      <4> QED BY <2>1, <3>1, <4>1, <4>2 DEF IsCodes, IsList, IsItem
    <3>5. c.codes \in Seq(Nat)
      BY DEF ConfigSettings
    <3>6. /\ codes \in Seq(Nat)
          /\ Listed(codes) = Listed(c.codes) \cup UNION {Listed(items[k].codes) : k \in 1..Len(items)}
      BY <3>2, <3>4, <3>5, CodesMerged
    <3>7. d \in ConfigSettings /\ d.flag = c.flag /\ d.recordSql = c.recordSql /\ d.token = c.token /\ d.codes = codes
      BY <3>3, <3>6 DEF ConfigSettings
    <3>8. Kept(c, d)
      BY <3>7 DEF Kept, Canonical
    <3>9. CodesOf(s) = UNION {Listed(items[k].codes) : k \in 1..Len(items)}
      BY <1>7, <2>4, <3>1, <3>4 DEF CodesOf
    <3> QED BY <1>1, <3>6, <3>7, <3>8, <3>9 DEF After
  <2> QED BY <2>3, <2>4, <2>1 DEF IsCodes
<1> QED BY <1>2, <1>3, <1>4, <1>5, <1>6, <1>7 DEF IsSetting

\* A whole reply.
AfterAll(c, keys, n, d) ==
    /\ d \in ConfigSettings /\ Kept(c, d)
    /\ Listed(d.codes) = Listed(c.codes) \cup UNION {CodesOf(keys[i]) : i \in 1..n}

LEMMA ReplyKept ==
    ASSUME NEW c \in ConfigSettings, NEW keys, Len(keys) \in Nat, \A k \in 1..Len(keys) : IsSetting(keys[k])
    PROVE  AfterAll(c, keys, Len(keys), AllFromServer(c, keys))
<1>1. PICK n \in Nat : n = Len(keys)
  OBVIOUS
<1>2. PICK C : C = ConfigSettings
  OBVIOUS
<1>3. PICK F : F = [p \in C \X (1..n) |-> FromServer(p[1], keys[p[2]])]
  OBVIOUS
<1>4. F \in [C \X (1..n) -> C]
  <2>1. ASSUME NEW p \in C \X (1..n) PROVE FromServer(p[1], keys[p[2]]) \in C
    <3>1. p[1] \in ConfigSettings /\ IsSetting(keys[p[2]])
      BY <1>1, <1>2, <2>1
    <3>2. After(p[1], keys[p[2]], FromServer(p[1], keys[p[2]]))
      BY <3>1, SettingKept
    <3> QED BY <3>2, <1>2 DEF After
  <2> QED BY <1>3, <2>1
<1>5. PICK g \in [0..n -> C] : g[0] = c /\ \A k \in 1..n : g[k] = F[<<g[k - 1], k>>]
  <2>1. c \in C
    BY <1>2
  <2>2. RunsOf(C, n, F, c) # {}
    BY <1>4, <2>1, Repeated
  <2> QED BY <2>2 DEF RunsOf
<1>6. ASSUME NEW k \in 1..n PROVE g[k] = FromServer(g[k - 1], keys[k])
  <2> k - 1 \in 0..n
    OBVIOUS
  <2>1. g[k - 1] \in C /\ <<g[k - 1], k>> \in C \X (1..n)
    BY <1>5, Zenon
  <2> QED BY <2>1, <1>3, <1>5
<1>7. g = [k \in 0..Len(keys) |-> IF k = 0 THEN c ELSE FromServer(g[k - 1], keys[k])]
  <2>1. PICK h : h = [k \in 0..n |-> IF k = 0 THEN c ELSE FromServer(g[k - 1], keys[k])]
    OBVIOUS
  <2>2. ASSUME NEW k \in 0..n PROVE g[k] = h[k]
    <3>1. k = 0 \/ k \in 1..n
      OBVIOUS
    <3> QED BY <3>1, <2>1, <1>5, <1>6
  <2>3. g = h
    BY <2>1, <2>2, <1>5
  <2> QED BY <2>3, <2>1, <1>1
<1>8. PICK a : a = CHOOSE aa : aa = [k \in 0..Len(keys) |-> IF k = 0 THEN c ELSE FromServer(aa[k - 1], keys[k])]
  OBVIOUS
<1>9. a = [k \in 0..Len(keys) |-> IF k = 0 THEN c ELSE FromServer(a[k - 1], keys[k])]
  BY <1>7, <1>8
<1>10. AllFromServer(c, keys) = a[n]
  BY <1>1, <1>8 DEF AllFromServer
<1>11. a[0] = c /\ \A k \in 1..n : a[k] = FromServer(a[k - 1], keys[k])
  BY <1>1, <1>9
<1> DEFINE Taken(k) == UNION {CodesOf(keys[i]) : i \in 1..k}
<1>12. PICK J : J = {k \in 0..n : AfterAll(c, keys, k, a[k])}
  OBVIOUS
<1>13. 0 \in J
  BY <1>11, <1>12, KeptAsIs DEF AfterAll
<1>14. ASSUME NEW k \in 1..n, k - 1 \in J PROVE k \in J
  <2>1. IsSetting(keys[k]) /\ AfterAll(c, keys, k - 1, a[k - 1])
    BY <1>1, <1>12, <1>14
  <2>2. PICK b \in ConfigSettings : b = a[k - 1]
    BY <2>1 DEF AfterAll
  <2>3. a[k] = FromServer(b, keys[k])
    BY <2>2, <1>11
  <2>4. After(b, keys[k], a[k])
    BY <2>1, <2>3, SettingKept
  <2>5. Kept(c, b) /\ Listed(b.codes) = Listed(c.codes) \cup Taken(k - 1)
    BY <2>1, <2>2 DEF AfterAll
  <2>6. 1..k = 1..(k - 1) \cup {k}
    OBVIOUS
  <2>7. Taken(k) = Taken(k - 1) \cup CodesOf(keys[k])
    BY <2>6, Zenon
  <2>8. Kept(c, a[k])
    BY <2>4, <2>5, KeptKept DEF After
  <2>9. Listed(a[k].codes) = Listed(c.codes) \cup Taken(k)
    BY <2>4, <2>5, <2>7 DEF After
  <2> QED BY <2>4, <2>8, <2>9, <1>12 DEF AfterAll, After
<1>15. n \in J
  <2> Climbs(J, n)
    BY <1>13, <1>14 DEF Climbs
  <2> QED BY StepByStep
<1> QED BY <1>1, <1>10, <1>12, <1>15

-----------------------------------------------------------------------------
\* The configuration as it is made.
LEMMA FlagsOverridden ==
    ASSUME NEW flag \in [Flags -> BOOLEAN], flag["ssl"], NEW by, FlagsIn(by)
    PROVE  /\ Overridden(flag, by) \in [Flags -> BOOLEAN] /\ Overridden(flag, by)["ssl"]
           /\ \A f \in Flags \ {"ssl"} : Overridden(flag, by)[f] = IF f \in DOMAIN by THEN by[f] ELSE flag[f]
<1>1. "ssl" \in Flags
  BY DEF Flags, On
<1>2. PICK new : new = Overridden(flag, by)
  OBVIOUS
<1>3. new = [f \in Flags |-> IF f \notin DOMAIN by \/ (f = "ssl" /\ ~by[f]) THEN flag[f] ELSE by[f]]
  BY <1>2 DEF Overridden
<1>4. ASSUME NEW f \in Flags PROVE new[f] \in BOOLEAN
  BY <1>3, <1>4 DEF FlagsIn
<1>5. new["ssl"]
  BY <1>1, <1>3 DEF FlagsIn
<1>6. new \in [Flags -> BOOLEAN]
  BY <1>3, <1>4
<1> QED BY <1>2, <1>3, <1>5, <1>6

Strongest(inst, c) ==
    \A f \in (DOMAIN inst.file \cup DOMAIN inst.env) \ TextVars :
        \/ f \in {"ssl", "distributed_tracing.enabled", "cross_application_tracer.enabled"}
        \/ c.flag["high_security"] /\ f \in DOMAIN HighSecuritySettings \cup {"attributes.exclude"}
        \/ c.flag[f] = IF f \in DOMAIN inst.env THEN inst.env[f] ELSE inst.file[f]

Secured(c) ==
    c.flag["high_security"] =>
        /\ \A f \in DOMAIN HighSecuritySettings : c.flag[f] = HighSecuritySettings[f]
        /\ c.flag["attributes.exclude"]
        /\ c.recordSql = "obfuscated"

ServerlessTraces(c) ==
    c.flag["serverless_mode.enabled"] =>
        /\ c.flag["distributed_tracing.enabled"] => c.account = "local"
        /\ ~c.flag["cross_application_tracer.enabled"]

\* Before serverless and high security mode have their say.
LEMMA PlainFlags ==
    ASSUME NEW inst, IsInstallation(inst)
    PROVE  \E flag \in [Flags -> BOOLEAN] :
              /\ flag = Canonicalized(FromEnvironment(Overridden(Defaults, inst.file), inst.env))
              /\ flag["ssl"]
              /\ flag["api.custom_attributes_enabled"] => flag["api.custom_parameters_enabled"]
              /\ \A f \in (DOMAIN inst.file \cup DOMAIN inst.env) \ TextVars :
                    f = "ssl" \/ flag[f] = IF f \in DOMAIN inst.env THEN inst.env[f] ELSE inst.file[f]
<1>1. FlagsIn(inst.file) /\ FlagsIn(inst.env)
  BY DEF IsInstallation
<1>2. Defaults \in [Flags -> BOOLEAN] /\ Defaults["ssl"]
  <2>1. \A f \in Flags : (f \in On) \in BOOLEAN
    OBVIOUS
  <2>2. Defaults \in [Flags -> BOOLEAN]
    BY <2>1, Zenon DEF Defaults
  <2>3. "ssl" \in Flags /\ "ssl" \in On
    BY DEF Flags, On
  <2>4. Defaults["ssl"] = ("ssl" \in On)
    BY <2>3, Zenon DEF Defaults
  <2> QED BY <2>2, <2>3, <2>4
<1>3. PICK passed \in [Flags -> BOOLEAN] :
         /\ passed = Overridden(Defaults, inst.file) /\ passed["ssl"]
         /\ \A f \in Flags \ {"ssl"} : f \in DOMAIN inst.file => passed[f] = inst.file[f]
  BY <1>1, <1>2, FlagsOverridden
<1>4. PICK env : env = [f \in DOMAIN inst.env |-> inst.env[f] \/ f \in TextVars]
  OBVIOUS
<1>5. FlagsIn(env) /\ DOMAIN env = DOMAIN inst.env
  BY <1>1, <1>4 DEF FlagsIn
<1>6. \A f \in DOMAIN inst.env \ TextVars : env[f] = inst.env[f]
  BY <1>1, <1>4 DEF FlagsIn
<1>7. PICK set \in [Flags -> BOOLEAN] :
         /\ set = FromEnvironment(passed, inst.env) /\ set["ssl"]
         /\ \A f \in Flags \ {"ssl"} : set[f] = IF f \in DOMAIN env THEN env[f] ELSE passed[f]
  BY <1>3, <1>4, <1>5, FlagsOverridden DEF FromEnvironment
<1>8. {"ssl", "api.custom_attributes_enabled", "api.custom_parameters_enabled"} \subseteq Flags
  BY DEF Flags, On
<1>9. PICK flag : flag = Canonicalized(set)
  OBVIOUS
<1>10. flag = [set EXCEPT !["api.custom_attributes_enabled"] = set["api.custom_attributes_enabled"]
                                                           /\ set["api.custom_parameters_enabled"]]
  BY <1>9 DEF Canonicalized
<1>11. /\ flag \in [Flags -> BOOLEAN] /\ flag["ssl"]
       /\ flag["api.custom_attributes_enabled"] => flag["api.custom_parameters_enabled"]
       /\ \A f \in Flags : f # "api.custom_attributes_enabled" => flag[f] = set[f]
  BY <1>7, <1>8, <1>10
<1>12. ASSUME NEW f \in (DOMAIN inst.file \cup DOMAIN inst.env) \ TextVars, f # "ssl"
       PROVE  flag[f] = IF f \in DOMAIN inst.env THEN inst.env[f] ELSE inst.file[f]
  <2>1. f \in Flags \ {"ssl"} /\ f # "api.custom_attributes_enabled"
    BY <1>1, <1>12 DEF FlagsIn, TextVars
  <2>2. flag[f] = set[f] /\ set[f] = IF f \in DOMAIN env THEN env[f] ELSE passed[f]
    BY <2>1, <1>7, <1>11
  <2> QED BY <2>1, <2>2, <1>3, <1>5, <1>6
<1> QED BY <1>3, <1>7, <1>9, <1>11, <1>12

\* With them.
Made(inst, c) ==
    /\ c \in ConfigSettings /\ Canonical(c) /\ c.flag["ssl"] /\ Secured(c) /\ ServerlessTraces(c)
    /\ Strongest(inst, c) /\ c.codes = inst.codes

LEMMA MadeCorrectly ==
    ASSUME NEW inst, IsInstallation(inst)
    PROVE  Made(inst, Constructed(inst))
<1>1. PICK flag \in [Flags -> BOOLEAN] :
         /\ flag = Canonicalized(FromEnvironment(Overridden(Defaults, inst.file), inst.env))
         /\ flag["ssl"]
         /\ flag["api.custom_attributes_enabled"] => flag["api.custom_parameters_enabled"]
         /\ \A f \in (DOMAIN inst.file \cup DOMAIN inst.env) \ TextVars :
               f = "ssl" \/ flag[f] = IF f \in DOMAIN inst.env THEN inst.env[f] ELSE inst.file[f]
  BY PlainFlags
<1>2. PICK c : c = [NoConfig EXCEPT !.flag = flag, !.recordSql = inst.recordSql,
                                    !.codes = inst.codes, !.token = inst.token]
  OBVIOUS
<1>3. c \in ConfigSettings /\ c.flag = flag /\ c.codes = inst.codes
  <2>1. c = [flag |-> flag, recordSql |-> inst.recordSql, codes |-> inst.codes, token |-> inst.token,
             account |-> "none"]
    BY <1>2 DEF NoConfig
  <2>2. inst.token \in BOOLEAN /\ inst.recordSql \in SqlModes /\ inst.codes \in Seq(Nat) /\ "none" \in AccountIds
    BY DEF IsInstallation, AccountIds
  <2> QED BY <2>1, <2>2 DEF ConfigSettings
<1>4. PICK d : d = ServerlessEnforced(c, inst)
  OBVIOUS
<1>5. PICK e : e = HighSecurityApplied(d)
  OBVIOUS
<1>6. Constructed(inst) = e
  BY <1>1, <1>2, <1>4, <1>5 DEF Constructed
<1>7. (DOMAIN inst.file \cup DOMAIN inst.env) \subseteq Flags
  BY DEF IsInstallation, FlagsIn
<1>8. {"ssl", "api.custom_attributes_enabled", "api.custom_parameters_enabled", "distributed_tracing.enabled",
       "cross_application_tracer.enabled", "serverless_mode.enabled", "high_security", "attributes.exclude"}
         \subseteq Flags
  BY DEF Flags, On, Off
<1>9. /\ d \in ConfigSettings /\ d.codes = inst.codes /\ ServerlessTraces(d)
      /\ \A f \in Flags \ {"distributed_tracing.enabled", "cross_application_tracer.enabled"} :
            d.flag[f] = flag[f]
  <2>1. CASE ~flag["serverless_mode.enabled"]
    <3>1. d = c
      BY <2>1, <1>3, <1>4 DEF ServerlessEnforced
    <3> QED BY <3>1, <2>1, <1>3 DEF ServerlessTraces
  <2>2. CASE flag["serverless_mode.enabled"]
    <3>1. PICK tracing : tracing = TracingLeft(c, inst)
      OBVIOUS
    <3>2. tracing \in BOOLEAN /\ (tracing => inst.account)
      BY <3>1, Zenon DEF TracingLeft
    <3>3. PICK new : new = [[flag EXCEPT !["cross_application_tracer.enabled"] = FALSE]
                                  EXCEPT !["distributed_tracing.enabled"] = tracing]
      OBVIOUS
    <3>4. PICK account : account = IF inst.account THEN "local" ELSE "none"
      OBVIOUS
    <3>5. d = [[c EXCEPT !.flag = new] EXCEPT !.account = account]
      <4>1. d = [c EXCEPT !.flag["cross_application_tracer.enabled"] = FALSE,
                          !.flag["distributed_tracing.enabled"] = tracing,
                          !.account = account]
        BY <2>2, <1>3, <1>4, <3>1, <3>4, Zenon DEF ServerlessEnforced
      <4> QED BY <4>1, <1>3, <3>3 DEF ConfigSettings
    <3>6. /\ new \in [Flags -> BOOLEAN]
          /\ \A f \in Flags \ {"distributed_tracing.enabled", "cross_application_tracer.enabled"} : new[f] = flag[f]
          /\ new["distributed_tracing.enabled"] = tracing /\ ~new["cross_application_tracer.enabled"]
      BY <3>2, <3>3, <1>8
    <3>7. account \in AccountIds
      BY <3>4 DEF AccountIds
    <3>8. d \in ConfigSettings /\ d.flag = new /\ d.account = account /\ d.codes = inst.codes
      BY <3>5, <3>6, <3>7, <1>3 DEF ConfigSettings
    <3>9. ServerlessTraces(d)
      <4>1. d.flag["distributed_tracing.enabled"] => inst.account
        BY <3>2, <3>6, <3>8
      <4>2. inst.account => d.account = "local"
        BY <3>4, <3>8
      <4>3. ~d.flag["cross_application_tracer.enabled"]
        BY <3>6, <3>8
      <4> QED BY <4>1, <4>2, <4>3 DEF ServerlessTraces
    <3> QED BY <3>6, <3>8, <3>9
  <2> QED BY <2>1, <2>2
<1>10. /\ ServerlessTraces(e) /\ e \in ConfigSettings /\ e.codes = inst.codes /\ Secured(e)
       /\ \A f \in Flags \ {"distributed_tracing.enabled", "cross_application_tracer.enabled"} :
             \/ e.flag["high_security"] /\ f \in DOMAIN HighSecuritySettings \cup {"attributes.exclude"}
             \/ e.flag[f] = flag[f]
       /\ e.flag["ssl"]
  <2>1. d.flag \in [Flags -> BOOLEAN]
    BY <1>9 DEF ConfigSettings
  <2>2. CASE ~d.flag["high_security"]
    <3>1. e = d
      BY <2>2, <1>5 DEF HighSecurityApplied
    <3> QED BY <3>1, <2>2, <1>1, <1>8, <1>9 DEF Secured
  <2>3. CASE d.flag["high_security"]
    <3>1. PICK new : new = [f \in Flags |->
                        IF f = "attributes.exclude" THEN TRUE
                        ELSE IF f \in DOMAIN HighSecuritySettings THEN HighSecuritySettings[f] ELSE d.flag[f]]
      OBVIOUS
    <3>2. e = [[d EXCEPT !.flag = new] EXCEPT !.recordSql = "obfuscated"]
      BY <2>3, <3>1, <1>5, <1>9 DEF HighSecurityApplied, ConfigSettings
    <3>3. \A f \in DOMAIN HighSecuritySettings : HighSecuritySettings[f] \in BOOLEAN
      <4>1. \A f : (f \in SecureOn) \in BOOLEAN
        OBVIOUS
      <4> QED BY <4>1, Zenon DEF HighSecuritySettings
    <3>4. new \in [Flags -> BOOLEAN]
      BY <2>1, <3>1, <3>3
    <3>5. /\ DOMAIN HighSecuritySettings \subseteq Flags \ {"attributes.exclude"}
          /\ "ssl" \in DOMAIN HighSecuritySettings /\ HighSecuritySettings["ssl"]
          /\ {"high_security", "serverless_mode.enabled", "distributed_tracing.enabled",
              "cross_application_tracer.enabled"} \cap (DOMAIN HighSecuritySettings \cup {"attributes.exclude"}) = {}
      BY DEF HighSecuritySettings, SecureOn, SecureOff, Flags, On, Off
    <3>6. /\ \A f \in DOMAIN HighSecuritySettings : new[f] = HighSecuritySettings[f]
          /\ new["attributes.exclude"] /\ new["ssl"]
          /\ \A f \in Flags \ (DOMAIN HighSecuritySettings \cup {"attributes.exclude"}) : new[f] = d.flag[f]
      BY <3>1, <3>5, <1>8
    <3>7. e \in ConfigSettings /\ e.flag = new /\ e.codes = inst.codes /\ e.recordSql = "obfuscated" /\ e.account = d.account
      BY <3>2, <3>4, <1>9 DEF ConfigSettings, SqlModes
    <3>8. Secured(e)
      BY <3>6, <3>7 DEF Secured
    <3>9. /\ new["serverless_mode.enabled"] = d.flag["serverless_mode.enabled"]
          /\ new["distributed_tracing.enabled"] = d.flag["distributed_tracing.enabled"]
          /\ new["cross_application_tracer.enabled"] = d.flag["cross_application_tracer.enabled"]
          /\ new["high_security"] = d.flag["high_security"]
      BY <3>5, <3>6, <1>8
    <3>10. ServerlessTraces(e)
      BY <3>7, <3>9, <1>9 DEF ServerlessTraces
    <3>11. ASSUME NEW f \in Flags \ {"distributed_tracing.enabled", "cross_application_tracer.enabled"}
           PROVE  \/ e.flag["high_security"] /\ f \in DOMAIN HighSecuritySettings \cup {"attributes.exclude"}
                  \/ e.flag[f] = flag[f]
      BY <2>3, <3>6, <3>7, <3>9, <1>9
    <3> QED BY <3>6, <3>7, <3>8, <3>10, <3>11
  <2> QED BY <2>2, <2>3
<1>11. Canonical(e)
  <2>1. {"api.custom_attributes_enabled", "api.custom_parameters_enabled"}
           \cap (DOMAIN HighSecuritySettings \cup {"attributes.exclude"}) = {}
    BY DEF HighSecuritySettings, SecureOn, SecureOff
  <2> QED BY <2>1, <1>1, <1>8, <1>10 DEF Canonical
<1>12. Strongest(inst, e)
  <2> SUFFICES ASSUME NEW f \in (DOMAIN inst.file \cup DOMAIN inst.env) \ TextVars,
                      f \notin {"ssl", "distributed_tracing.enabled", "cross_application_tracer.enabled"},
                      ~(e.flag["high_security"] /\ f \in DOMAIN HighSecuritySettings \cup {"attributes.exclude"})
               PROVE  e.flag[f] = IF f \in DOMAIN inst.env THEN inst.env[f] ELSE inst.file[f]
    BY DEF Strongest
  <2>1. e.flag[f] = flag[f]
    BY <1>7, <1>10
  <2> QED BY <2>1, <1>1
<1> QED BY <1>6, <1>10, <1>11, <1>12 DEF Made

-----------------------------------------------------------------------------
\* Policies and their flags.
Flagged == DOMAIN PolicyFlag

LEMMA PolicyNames ==
    /\ Flagged = {"attributes_include", "allow_raw_exception_messages", "custom_events", "custom_parameters"}
    /\ Mapped = Flagged \cup {"record_sql"} /\ "record_sql" \notin Flagged
    /\ PolicyFlag["attributes_include"] = "attributes.include_enabled"
    /\ PolicyFlag["allow_raw_exception_messages"] = "strip_exception_messages.enabled"
    /\ PolicyFlag["custom_events"] = "api.custom_events_enabled"
    /\ PolicyFlag["custom_parameters"] = "api.custom_attributes_enabled"
  BY DEF Flagged, PolicyFlag, Mapped

LEMMA PolicyFlags ==
    /\ \A n \in Flagged : /\ PolicyFlag[n] \in DOMAIN PolicyOf /\ PolicyOf[PolicyFlag[n]] = n
                         /\ PolicyFlag[n] \in Flags \ {"attributes.exclude"}
    /\ \A f \in DOMAIN PolicyOf : PolicyOf[f] \in Flagged /\ PolicyFlag[PolicyOf[f]] = f
    /\ \A f \in DOMAIN PolicyOf : f \in {"attributes.include_enabled", "strip_exception_messages.enabled",
                                       "api.custom_events_enabled", "api.custom_attributes_enabled"}
<1>1. \A m, n \in Flagged : PolicyFlag[m] = PolicyFlag[n] => m = n
  BY PolicyNames
<1>2. DOMAIN PolicyOf = {PolicyFlag[n] : n \in Flagged}
  BY DEF PolicyOf, Flagged
<1>3. ASSUME NEW n \in Flagged PROVE PolicyOf[PolicyFlag[n]] = n
  <2>1. PICK f : f = PolicyFlag[n]
    OBVIOUS
  <2>2. f \in {PolicyFlag[m] : m \in DOMAIN PolicyFlag}
    BY <2>1, <1>3 DEF Flagged
  <2>3. PolicyOf[f] = CHOOSE m \in DOMAIN PolicyFlag : PolicyFlag[m] = f
    BY <2>2 DEF PolicyOf
  <2>4. \E m \in DOMAIN PolicyFlag : PolicyFlag[m] = f
    BY <2>1 DEF Flagged
  <2>5. PolicyOf[f] \in Flagged /\ PolicyFlag[PolicyOf[f]] = f
    BY <2>3, <2>4 DEF Flagged
  <2> QED BY <2>1, <2>5, <1>1
<1>4. \A n \in Flagged : PolicyFlag[n] \in {"attributes.include_enabled", "strip_exception_messages.enabled",
                                           "api.custom_events_enabled", "api.custom_attributes_enabled"}
  BY PolicyNames
<1>5. \A n \in Flagged : PolicyFlag[n] \in Flags \ {"attributes.exclude"}
  BY <1>4 DEF Flags, On, Off
<1> QED BY <1>2, <1>3, <1>4, <1>5

\* What a policy set does: it tightens what its policies speak of and leaves the rest.
LEMMA PoliciesTighten ==
    ASSUME NEW c \in ConfigSettings, NEW ps
    PROVE  LET d == WithPolicies(c, ps) IN
           /\ d \in ConfigSettings /\ d.token = c.token /\ d.codes = c.codes /\ d.account = c.account
           /\ \A f \in Flags \ (DOMAIN PolicyOf \cup {"attributes.exclude"}) : d.flag[f] = c.flag[f]
           /\ \A n \in Mapped : Lax(d, n) <=> Lax(c, n) /\ (n \in ps.sent => n \in ps.enabled)
<1>1. c.flag \in [Flags -> BOOLEAN] /\ c.recordSql \in SqlModes
  BY DEF ConfigSettings
<1> DEFINE sent(f) == f \in DOMAIN PolicyOf /\ PolicyOf[f] \in ps.sent
<1>2. PICK flag : flag = [f \in Flags |-> IF sent(f) THEN MostSecure(c.flag[f], PolicyOf[f], PolicyOf[f] \in ps.enabled)
                                         ELSE c.flag[f]]
  OBVIOUS
<1>3. PICK sql : sql = IF "record_sql" \in ps.sent THEN MostSecureSql(c.recordSql, "record_sql" \in ps.enabled)
                       ELSE c.recordSql
  OBVIOUS
<1>4. \A v \in BOOLEAN : \A n, x : MostSecure(v, n, x) \in BOOLEAN
  BY Zenon DEF MostSecure
<1>5. flag \in [Flags -> BOOLEAN]
  BY <1>1, <1>2, <1>4
<1>6. sql \in SqlModes
  BY <1>1, <1>3 DEF MostSecureSql, SqlModes
<1>7. PICK applied : applied = [[c EXCEPT !.flag = flag] EXCEPT !.recordSql = sql]
  OBVIOUS
<1>8. /\ applied \in ConfigSettings /\ applied.flag = flag /\ applied.recordSql = sql
      /\ applied.token = c.token /\ applied.codes = c.codes /\ applied.account = c.account
  BY <1>5, <1>6, <1>7 DEF ConfigSettings
<1>9. PICK d : d = WithPolicies(c, ps)
  OBVIOUS
<1>10. d = IF "attributes_include" \in ps.sent /\ ~Lax(applied, "attributes_include")
           THEN [applied EXCEPT !.flag["attributes.exclude"] = TRUE] ELSE applied
  BY <1>2, <1>3, <1>7, <1>9, Zenon DEF WithPolicies
<1>11. "attributes.exclude" \in Flags
  BY DEF Flags, Off
<1>12. /\ d \in ConfigSettings /\ d.recordSql = sql
       /\ d.token = c.token /\ d.codes = c.codes /\ d.account = c.account
       /\ \A f \in Flags \ {"attributes.exclude"} : d.flag[f] = flag[f]
  <2>1. PICK e : e = [applied EXCEPT !.flag["attributes.exclude"] = TRUE]
    OBVIOUS
  <2>2. /\ e \in ConfigSettings /\ e.recordSql = sql /\ e.flag = [flag EXCEPT !["attributes.exclude"] = TRUE]
        /\ e.token = c.token /\ e.codes = c.codes /\ e.account = c.account
    <3>1. /\ e \in ConfigSettings /\ e.flag = [applied.flag EXCEPT !["attributes.exclude"] = TRUE]
          /\ e.recordSql = applied.recordSql /\ e.codes = applied.codes
          /\ e.token = applied.token /\ e.account = applied.account
      BY <2>1, <1>8, <1>11, FlagSet
    <3> QED BY <3>1, <1>8
  <2>3. \A f \in Flags \ {"attributes.exclude"} : e.flag[f] = flag[f]
    BY <2>2, <1>5
  <2>4. d = e \/ d = applied
    BY <2>1, <1>10
  <2> QED BY <2>2, <2>3, <2>4, <1>8
<1>13. ASSUME NEW f \in Flags \ (DOMAIN PolicyOf \cup {"attributes.exclude"}) PROVE d.flag[f] = c.flag[f]
  BY <1>2, <1>12, <1>13
<1>14. ASSUME NEW n \in Flagged PROVE Lax(d, n) <=> Lax(c, n) /\ (n \in ps.sent => n \in ps.enabled)
  <2>1. PICK f : f = PolicyFlag[n]
    OBVIOUS
  <2>2. f \in Flags \ {"attributes.exclude"} /\ f \in DOMAIN PolicyOf /\ PolicyOf[f] = n
    BY <2>1, PolicyFlags
  <2>3. d.flag[f] = IF n \in ps.sent THEN MostSecure(c.flag[f], n, n \in ps.enabled) ELSE c.flag[f]
    BY <2>2, <1>2, <1>12, Zenon
  <2>4. n # "record_sql"
    BY <1>14, PolicyNames
  <2>5. Lax(d, n) = (d.flag[f] = LaxValue(n)) /\ Lax(c, n) = (c.flag[f] = LaxValue(n))
    BY <2>1, <2>4, Zenon DEF Lax
  <2>6. c.flag[f] \in BOOLEAN /\ LaxValue(n) \in BOOLEAN
    BY <2>2, <1>1 DEF LaxValue
  <2>7. CASE n \notin ps.sent
    BY <2>3, <2>5, <2>7
  <2>8. CASE n \in ps.sent
    <3>1. d.flag[f] = MostSecure(c.flag[f], n, n \in ps.enabled)
      BY <2>3, <2>8
    <3>2. CASE LaxValue(n)
      BY <2>5, <2>6, <2>8, <3>1, <3>2, Zenon DEF MostSecure
    <3>3. CASE ~LaxValue(n)
      BY <2>5, <2>6, <2>8, <3>1, <3>3, Zenon DEF MostSecure
    <3> QED BY <3>2, <3>3
  <2> QED BY <2>7, <2>8
<1>15. Lax(d, "record_sql") <=> Lax(c, "record_sql") /\ ("record_sql" \in ps.sent => "record_sql" \in ps.enabled)
  BY <1>3, <1>12 DEF Lax, MostSecureSql
<1> QED BY <1>9, <1>12, <1>13, <1>14, <1>15, PolicyNames

-----------------------------------------------------------------------------
\* The inductive invariant.  It holds in every phase; beyond what is to be shown, the settings
\* stay canonical, high security excludes a token, and only an agent with a server connects.
PastOK ==
    /\ past = [from |-> past.from, allowed |-> past.allowed, off |-> past.off, codes |-> past.codes,
               late |-> past.late]
    /\ past.allowed \subseteq Mapped
NoTokenInHighSecurity == ~(config.flag["high_security"] /\ config.token)
LaxIsAllowed == \A name \in Mapped : Lax(config, name) => name \in past.allowed
InsightsStayOff ==
    "custom_insights_events.enabled" \in past.off => ~config.flag["custom_insights_events.enabled"]
ServerlessStaysAlone ==
    phase \in {"preconnected", "connected", "reconnecting"} => ~config.flag["serverless_mode.enabled"]
CodesKnown == Listed(config.codes) = past.codes

\* Where attributes are not let in at all, no collection they belong to has any.
NoneWithout ==
    \A name \in gathered \cup underway :
        name \in {"attributes_include", "custom_parameters"} => config.flag["attributes.enabled"]

ConfigInv ==
    /\ ConfigTypeOK /\ PastOK
    /\ phase = "new" => gathered = {} /\ underway = {}
    /\ NoneWithout
    /\ Canonical(config) /\ config.flag["ssl"] /\ Secured(config) /\ ServerlessTraces(config)
    /\ NoTokenInHighSecurity /\ LaxIsAllowed /\ NothingLaxHeld /\ ToldAsItIs /\ StrongestSource
    /\ InsightsStayOff /\ ServerlessStaysAlone /\ CodesKnown

LEMMA ConfigInvImplies == ConfigInv => ConfigurationCorrect
<1> SUFFICES ASSUME ConfigInv PROVE ConfigurationCorrect
  OBVIOUS
<1>1. HighSecurityHolds
  BY DEF ConfigInv, Secured, HighSecurityHolds
<1>2. NeverLoosened
  BY DEF ConfigInv, LaxIsAllowed, NeverLoosened
<1>3. StaysOff
  BY DEF ConfigInv, InsightsStayOff, StaysOff
<1>4. ServerlessTracing
  BY DEF ConfigInv, ServerlessTraces, ServerlessTracing
<1>5. CodesAreMerged
  BY DEF ConfigInv, CodesKnown, CodesAreMerged
<1> QED BY <1>1, <1>2, <1>3, <1>4, <1>5 DEF ConfigInv, ConfigurationCorrect

LEMMA ConfigInvInit == ConfigInit => ConfigInv
<1> SUFFICES ASSUME ConfigInit PROVE ConfigInv
  OBVIOUS
<1>1. PICK flag : flag = Defaults
  OBVIOUS
<1>2. flag \in [Flags -> BOOLEAN] /\ \A f \in Flags : flag[f] = (f \in On)
  <2>1. \A f \in Flags : (f \in On) \in BOOLEAN
    OBVIOUS
  <2> QED BY <2>1, <1>1, Zenon DEF Defaults
<1>3. {"ssl", "api.custom_parameters_enabled", "high_security", "serverless_mode.enabled"} \subseteq Flags
  BY DEF Flags, On, Off
<1>4. /\ "ssl" \in On /\ "api.custom_parameters_enabled" \in On
      /\ "high_security" \notin On /\ "serverless_mode.enabled" \notin On
  BY DEF On
<1>5. /\ flag["ssl"] /\ flag["api.custom_parameters_enabled"]
      /\ ~flag["high_security"] /\ ~flag["serverless_mode.enabled"]
  BY <1>2, <1>3, <1>4
<1>6. config = [flag |-> flag, recordSql |-> "off", codes |-> <<>>, token |-> FALSE, account |-> "none"]
  BY <1>1 DEF ConfigInit, NoConfig
<1>7. phase = "new" /\ gathered = {} /\ underway = {} /\ announced = {} /\ rules = FALSE
      /\ past = [from |-> {}, allowed |-> Mapped, off |-> {}, codes |-> {}, late |-> {}]
  BY DEF ConfigInit
<1>8. config \in ConfigSettings
  BY <1>2, <1>6 DEF ConfigSettings, SqlModes, AccountIds
<1>9. ConfigTypeOK /\ PastOK
  BY <1>7, <1>8 DEF ConfigTypeOK, PastOK
<1>10. Canonical(config) /\ config.flag["ssl"] /\ Secured(config) /\ ServerlessTraces(config)
  BY <1>5, <1>6 DEF Canonical, Secured, ServerlessTraces
<1>11. NoTokenInHighSecurity /\ LaxIsAllowed /\ NothingLaxHeld /\ ToldAsItIs /\ StrongestSource
  BY <1>5, <1>6, <1>7 DEF NoTokenInHighSecurity, LaxIsAllowed, NothingLaxHeld, ToldAsItIs, StrongestSource
<1>12. InsightsStayOff /\ ServerlessStaysAlone /\ NoneWithout
  BY <1>7 DEF InsightsStayOff, ServerlessStaysAlone, NoneWithout
<1>13. CodesKnown
  BY <1>6, <1>7 DEF CodesKnown, Listed
<1> QED BY <1>7, <1>9, <1>10, <1>11, <1>12, <1>13 DEF ConfigInv

LEMMA LoadKeeps ==
    ASSUME ConfigInv, NEW inst \in Installations, Load(inst)
    PROVE  ConfigInv'
<1>1. IsInstallation(inst)
  BY ConfigurationAssumption
<1>2. PICK c : c = Constructed(inst)
  OBVIOUS
<1>3. Made(inst, c)
  BY <1>1, <1>2, MadeCorrectly
<1>4. /\ phase = "new" /\ gathered' = gathered /\ announced' = announced /\ gathered = {}
      /\ underway' = underway /\ underway = {}
  BY DEF Load, ConfigInv
<1>5. CASE c.token /\ c.flag["high_security"]
  <2>1. phase' = "disabled" /\ config' = config /\ rules' = rules /\ past' = past
    BY <1>2, <1>5 DEF Load
  <2> QED BY <2>1, <1>4 DEF ConfigInv, ConfigTypeOK, PastOK, NoTokenInHighSecurity, LaxIsAllowed, NothingLaxHeld,
            ToldAsItIs, StrongestSource, InsightsStayOff, ServerlessStaysAlone, CodesKnown, NoneWithout
<1>6. CASE ~(c.token /\ c.flag["high_security"])
  <2>1. /\ config' = c /\ phase' = "loaded" /\ rules' = Compiled(c.flag)
        /\ past' = [from |-> {inst}, allowed |-> {n \in Mapped : Lax(c, n)},
                    off |-> {f \in Flags : ~c.flag[f]}, codes |-> Listed(inst.codes), late |-> {}]
    BY <1>2, <1>6 DEF Load
  <2>8. Compiled(c.flag) \in BOOLEAN
    BY <1>3 DEF Made, ConfigSettings, Compiled, Flags, On, Off
  <2>2. ConfigTypeOK' /\ PastOK'
    BY <2>1, <2>8, <1>3, <1>4 DEF ConfigTypeOK, PastOK, Made, ConfigInv
  <2>3. Canonical(c) /\ c.flag["ssl"] /\ Secured(c) /\ ServerlessTraces(c)
    BY <1>3 DEF Made
  <2>4. NoTokenInHighSecurity' /\ LaxIsAllowed' /\ NothingLaxHeld' /\ ToldAsItIs'
    BY <1>4, <1>6, <2>1 DEF NoTokenInHighSecurity, LaxIsAllowed, NothingLaxHeld, ToldAsItIs
  <2>9. NoneWithout'
    BY <1>4 DEF NoneWithout
  <2>5. StrongestSource'
    BY <1>3, <2>1 DEF Made, Strongest, StrongestSource
  <2>6. InsightsStayOff' /\ ServerlessStaysAlone' /\ CodesKnown'
    BY <1>3, <2>1 DEF Made, InsightsStayOff, ServerlessStaysAlone, CodesKnown, NoneWithout
  <2>7. phase' # "new"
    BY <2>1
  <2> QED BY <2>1, <2>2, <2>3, <2>4, <2>5, <2>6, <2>7, <2>9 DEF ConfigInv, Canonical, Secured, ServerlessTraces
<1> QED BY <1>5, <1>6

LEMMA PreconnectKeeps ==
    ASSUME ConfigInv, NEW ps \in PolicySets, Preconnect(ps)
    PROVE  ConfigInv'
<1>1. phase \in {"loaded", "reconnecting"} /\ ~config.flag["serverless_mode.enabled"]
  BY DEF Preconnect
<1>2. CASE ~config.token
  <2>1. /\ config' = config /\ gathered' = gathered /\ past' = past /\ announced' = {}
        /\ phase' \in {"preconnected", "stopped"} /\ rules' = rules /\ underway' = underway
    BY <1>2 DEF Preconnect
  <2> QED BY <1>1, <1>2, <2>1 DEF ConfigInv, ConfigTypeOK, PastOK, NoTokenInHighSecurity, LaxIsAllowed, NothingLaxHeld,
            ToldAsItIs, StrongestSource, InsightsStayOff, ServerlessStaysAlone, CodesKnown, NoneWithout
<1>3. CASE config.token
  <2>1. PICK c \in ConfigSettings : c = config
    BY DEF ConfigInv, ConfigTypeOK
  <2>2. PICK d : d = WithPolicies(c, ps)
    OBVIOUS
  <2>3. /\ config' = d /\ gathered' = Cleared1(c, d) /\ announced' = {n \in ps.sent \cap Mapped : Lax(d, n)}
        /\ phase' = IF Missing(ps) \/ Unknown(ps) THEN "stopped" ELSE "preconnected"
        /\ past' = [past EXCEPT !.allowed = @ \cap (ps.enabled \cup (Mapped \ ps.sent))]
        /\ rules' = rules /\ underway' = underway
    BY <1>3, <2>1, <2>2, Zenon DEF Preconnect
  <2>4. /\ d \in ConfigSettings /\ d.token = c.token /\ d.codes = c.codes /\ d.account = c.account
        /\ \A f \in Flags \ (DOMAIN PolicyOf \cup {"attributes.exclude"}) : d.flag[f] = c.flag[f]
        /\ \A n \in Mapped : Lax(d, n) <=> Lax(c, n) /\ (n \in ps.sent => n \in ps.enabled)
    BY <2>2, PoliciesTighten
  <2>5. PICK p : p = past
    OBVIOUS
  <2>6. /\ p = [from |-> p.from, allowed |-> p.allowed, off |-> p.off, codes |-> p.codes, late |-> p.late]
        /\ p.allowed \subseteq Mapped
        /\ past' = [p EXCEPT !.allowed = @ \cap (ps.enabled \cup (Mapped \ ps.sent))]
    BY <2>3, <2>5 DEF ConfigInv, PastOK
  <2>7. /\ past'.from = p.from /\ past'.off = p.off /\ past'.codes = p.codes /\ past'.late = p.late
        /\ past'.allowed = p.allowed \cap (ps.enabled \cup (Mapped \ ps.sent))
        /\ past' = [from |-> p.from, allowed |-> past'.allowed, off |-> p.off, codes |-> p.codes,
                    late |-> p.late]
    BY <2>6
  <2>8. \A f \in {"ssl", "api.custom_parameters_enabled", "high_security", "serverless_mode.enabled",
                  "distributed_tracing.enabled", "cross_application_tracer.enabled",
                  "custom_insights_events.enabled", "attributes.enabled", "attributes.include"} :
           d.flag[f] = c.flag[f]
    <3>1. {"ssl", "api.custom_parameters_enabled", "high_security", "serverless_mode.enabled",
           "distributed_tracing.enabled", "cross_application_tracer.enabled", "custom_insights_events.enabled",
           "attributes.enabled", "attributes.include"}
             \subseteq Flags \ {"attributes.include_enabled", "strip_exception_messages.enabled",
                       "api.custom_events_enabled", "api.custom_attributes_enabled", "attributes.exclude"}
      BY DEF Flags, On, Off
    <3> QED BY <2>4, <3>1, PolicyFlags
  <2>9. ConfigTypeOK' /\ PastOK'
    <3>1. gathered' \subseteq Mapped /\ announced' \subseteq Mapped
      BY <2>3 DEF Cleared1, ConfigInv, ConfigTypeOK
    <3>2. past'.allowed \subseteq Mapped
      BY <2>6, <2>7
    <3>3. rules' \in BOOLEAN /\ underway' \subseteq Mapped
      BY <2>3 DEF ConfigInv, ConfigTypeOK
    <3>4. ConfigTypeOK'
      BY <2>3, <2>4, <3>1, <3>3 DEF ConfigTypeOK
    <3>5. PastOK'
      BY <2>7, <3>2 DEF PastOK
    <3> QED BY <3>4, <3>5
  <2>10. Canonical(d)
    <3>1. Lax(c, "custom_parameters") = c.flag["api.custom_attributes_enabled"]
      <4>1. Lax(c, "custom_parameters") = (c.flag["api.custom_attributes_enabled"] = TRUE)
        BY PolicyNames DEF Lax, LaxValue
      <4> QED BY <4>1, <2>1 DEF ConfigSettings, Flags, On
    <3>2. Lax(d, "custom_parameters") = d.flag["api.custom_attributes_enabled"]
      <4>1. Lax(d, "custom_parameters") = (d.flag["api.custom_attributes_enabled"] = TRUE)
        BY PolicyNames DEF Lax, LaxValue
      <4> QED BY <4>1, <2>4 DEF ConfigSettings, Flags, On
    <3>3. Lax(d, "custom_parameters") => Lax(c, "custom_parameters")
      BY <2>4, PolicyNames
    <3> QED BY <2>1, <2>8, <3>1, <3>2, <3>3 DEF ConfigInv, Canonical
  <2>11. ~c.flag["high_security"]
    BY <1>3, <2>1 DEF ConfigInv, NoTokenInHighSecurity
  <2>12. d.flag["ssl"] /\ Secured(d) /\ ServerlessTraces(d)
    BY <1>1, <2>1, <2>8, <2>11 DEF ConfigInv, Secured, ServerlessTraces
  <2>13. NoTokenInHighSecurity' /\ LaxIsAllowed'
    <3>1. NoTokenInHighSecurity'
      BY <2>3, <2>8, <2>11 DEF NoTokenInHighSecurity
    <3>2. ASSUME NEW n \in Mapped, Lax(d, n) PROVE n \in past'.allowed
      <4>1. n \in p.allowed
        BY <2>1, <2>4, <2>5, <3>2 DEF ConfigInv, LaxIsAllowed
      <4> QED BY <4>1, <2>4, <2>7, <3>2
    <3> QED BY <2>3, <3>1, <3>2 DEF LaxIsAllowed
  <2>14. NothingLaxHeld'
    <3>1. ASSUME NEW n \in gathered', ~Lax(d, n)
          PROVE  n \in p.late \/ (n = "attributes_include" /\ ~d.flag["attributes.include"])
      <4>1. n \in gathered /\ ~(Tightened(c, d, n) /\ Clears(d, n))
        BY <2>3, <3>1 DEF Cleared1
      <4>2. Lax(c, n) \/ n \in p.late \/ (n = "attributes_include" /\ ~c.flag["attributes.include"])
        BY <4>1, <2>1, <2>5 DEF ConfigInv, NothingLaxHeld
      <4>3. n \in {"attributes_include", "custom_parameters"} => c.flag["attributes.enabled"]
        BY <4>1, <2>1 DEF ConfigInv, NoneWithout
      <4>4. CASE Lax(c, n)
        <5>1. Tightened(c, d, n)
          BY <4>4, <3>1 DEF Tightened
        <5>2. ~Clears(d, n)
          BY <5>1, <4>1
        <5>3. n \in {"attributes_include", "custom_parameters"} => d.flag["attributes.enabled"]
          BY <4>3, <2>8
        <5> QED BY <5>2, <5>3 DEF Clears
      <4>5. d.flag["attributes.include"] = c.flag["attributes.include"]
        BY <2>8
      <4> QED BY <4>2, <4>4, <4>5
    <3> QED BY <2>3, <2>7, <3>1 DEF NothingLaxHeld
  <2>20. NoneWithout'
    <3>1. gathered' \subseteq gathered
      BY <2>3 DEF Cleared1
    <3>2. d.flag["attributes.enabled"] = config.flag["attributes.enabled"]
      BY <2>8, <2>1
    <3> QED BY <2>3, <3>1, <3>2 DEF ConfigInv, NoneWithout
  <2>15. ToldAsItIs'
    <3> SUFFICES ASSUME phase' = "preconnected" PROVE announced' = {n \in Mapped : Lax(d, n)}
      BY <2>3 DEF ToldAsItIs
    <3>1. ~Missing(ps)
      BY <2>3
    <3>2. Mapped \subseteq ps.sent
      BY <3>1 DEF Missing
    <3> QED BY <3>2, <2>3
  <2>16. StrongestSource'
    BY <2>3 DEF StrongestSource
  <2>17. InsightsStayOff' /\ ServerlessStaysAlone' /\ CodesKnown'
    BY <1>1, <2>1, <2>3, <2>4, <2>5, <2>7, <2>8 DEF ConfigInv, InsightsStayOff, ServerlessStaysAlone, CodesKnown, NoneWithout
  <2>18. phase' # "new"
    BY <2>3
  <2>19. Canonical(config)' /\ (config.flag["ssl"])' /\ Secured(config)' /\ ServerlessTraces(config)'
    BY <2>3, <2>10, <2>12 DEF Canonical, Secured, ServerlessTraces
  <2> QED BY <2>9, <2>13, <2>14, <2>15, <2>16, <2>17, <2>18, <2>19, <2>20 DEF ConfigInv
<1> QED BY <1>2, <1>3

LEMMA ConnectKeeps ==
    ASSUME ConfigInv, NEW i \in DOMAIN Replies, Connect1(Replies[i])
    PROVE  ConfigInv'
<1>1. /\ phase = "preconnected" /\ gathered' = gathered /\ announced' = announced
      /\ rules' = rules /\ underway' = underway
  BY DEF Connect1
<1>2. PICK reply : reply = Replies[i]
  OBVIOUS
<1>3. CASE config.flag["high_security"] /\ ~reply.highSecurity
  <2>1. phase' = "disabled" /\ config' = config /\ past' = past
    BY <1>2, <1>3 DEF Connect1
  <2> QED BY <2>1, <1>1 DEF ConfigInv, ConfigTypeOK, PastOK, NoTokenInHighSecurity, LaxIsAllowed, NothingLaxHeld,
            ToldAsItIs, StrongestSource, InsightsStayOff, ServerlessStaysAlone, CodesKnown, NoneWithout
<1>4. CASE ~(config.flag["high_security"] /\ ~reply.highSecurity)
  <2>1. PICK c \in ConfigSettings : c = config
    BY DEF ConfigInv, ConfigTypeOK
  <2>2. PICK keys : keys = reply.keys
    OBVIOUS
  <2>3. Len(keys) \in Nat /\ DOMAIN keys = 1..Len(keys) /\ \A k \in 1..Len(keys) : IsSetting(keys[k])
    BY <1>2, <2>2, ConfigurationAssumption DEF IsList
  <2>4. PICK d : d = AllFromServer(c, keys)
    OBVIOUS
  <2>5. /\ d \in ConfigSettings /\ Kept(c, d)
        /\ Listed(d.codes) = Listed(c.codes) \cup UNION {CodesOf(keys[k]) : k \in DOMAIN keys}
    BY <2>3, <2>4, ReplyKept DEF AfterAll
  <2>6. /\ config' = d /\ phase' = "connected"
        /\ past' = [past EXCEPT !.off = @ \cup {f \in Flags : ~d.flag[f]}, !.codes = @ \cup CodesSent(reply)]
    BY <1>2, <1>4, <2>1, <2>2, <2>4, Zenon DEF Connect1
  <2>7. PICK p : p = past
    OBVIOUS
  <2>8. /\ p = [from |-> p.from, allowed |-> p.allowed, off |-> p.off, codes |-> p.codes, late |-> p.late]
        /\ p.allowed \subseteq Mapped
        /\ past' = [from |-> p.from, allowed |-> p.allowed, off |-> p.off \cup {f \in Flags : ~d.flag[f]},
                    codes |-> p.codes \cup CodesSent(reply), late |-> p.late]
    BY <2>6, <2>7 DEF ConfigInv, PastOK
  <2>9. CodesSent(reply) = UNION {CodesOf(keys[k]) : k \in DOMAIN keys}
    BY <2>2 DEF CodesSent
  <2>10. \A f \in {"ssl", "api.custom_parameters_enabled", "high_security", "serverless_mode.enabled",
                   "distributed_tracing.enabled", "attributes.exclude", "attributes.include",
                   "attributes.enabled", "transaction_tracer.attributes.include",
                   "attributes.include_enabled", "strip_exception_messages.enabled",
                   "api.custom_events_enabled"} : f \in Flags /\ d.flag[f] = c.flag[f]
    <3>1. {"ssl", "api.custom_parameters_enabled", "high_security", "serverless_mode.enabled",
           "distributed_tracing.enabled", "attributes.exclude", "attributes.include",
           "attributes.enabled", "transaction_tracer.attributes.include", "attributes.include_enabled", "strip_exception_messages.enabled", "api.custom_events_enabled"}
             \subseteq Flags \ Movable
      BY DEF Flags, On, Off, Movable, ServerFlags
    <3> QED BY <2>5, <3>1 DEF Kept
  <2>11. Canonical(c)
    BY <2>1 DEF ConfigInv
  <2>12. d.flag["api.custom_attributes_enabled"] = c.flag["api.custom_attributes_enabled"]
    BY <2>5, <2>11 DEF Kept
  <2>13. d.recordSql = c.recordSql /\ d.token = c.token
    BY <2>5 DEF Kept
  <2>14. \A n \in Mapped : Lax(d, n) = Lax(c, n)
    <3>1. ASSUME NEW n \in Flagged PROVE Lax(d, n) = Lax(c, n)
      <4>1. PICK f : f = PolicyFlag[n]
        OBVIOUS
      <4>2. d.flag[f] = c.flag[f]
        BY <4>1, <2>10, <2>12, PolicyNames
      <4>3. n # "record_sql"
        BY <3>1, PolicyNames
      <4> QED BY <4>1, <4>2, <4>3, Zenon DEF Lax
    <3>2. Lax(d, "record_sql") = Lax(c, "record_sql")
      BY <2>13, Zenon DEF Lax
    <3> QED BY <3>1, <3>2, PolicyNames
  <2>15. ConfigTypeOK' /\ PastOK'
    BY <1>1, <2>5, <2>6, <2>8 DEF ConfigInv, ConfigTypeOK, PastOK
  <2>16. Canonical(d) /\ d.flag["ssl"]
    BY <2>1, <2>10, <2>11, <2>12 DEF ConfigInv, Canonical
  <2>17. Secured(d)
    <3> SUFFICES ASSUME d.flag["high_security"] PROVE Secured(d)
      BY DEF Secured
    <3>1. c.flag["high_security"]
      BY <2>10
    <3>2. /\ \A f \in DOMAIN HighSecuritySettings : c.flag[f] = HighSecuritySettings[f]
          /\ c.flag["attributes.exclude"] /\ c.recordSql = "obfuscated"
      BY <2>1, <3>1 DEF ConfigInv, Secured
    <3>3. DOMAIN HighSecuritySettings = SecureOn \cup SecureOff
      BY DEF HighSecuritySettings
    <3>4. d.flag["slow_sql.enabled"] = c.flag["slow_sql.enabled"] /\ d.flag["allow_all_headers"] = c.flag["allow_all_headers"]
      BY <2>5, <3>1 DEF Kept
    <3>5. \A f \in DOMAIN HighSecuritySettings : d.flag[f] = c.flag[f]
      BY <2>10, <3>3, <3>4 DEF SecureOn, SecureOff
    <3> QED BY <2>10, <2>13, <3>2, <3>5 DEF Secured
  <2>18. ~c.flag["serverless_mode.enabled"] /\ ~d.flag["serverless_mode.enabled"]
    BY <1>1, <2>1, <2>10 DEF ConfigInv, ServerlessStaysAlone
  <2>19. NoTokenInHighSecurity' /\ LaxIsAllowed' /\ NothingLaxHeld'
    <3>1. gathered \subseteq Mapped
      BY DEF ConfigInv, ConfigTypeOK
    <3>2. NoTokenInHighSecurity'
      BY <2>1, <2>6, <2>10, <2>13 DEF ConfigInv, NoTokenInHighSecurity
    <3>3. LaxIsAllowed'
      BY <2>1, <2>6, <2>7, <2>8, <2>14 DEF ConfigInv, LaxIsAllowed
    <3>4. ASSUME NEW n \in gathered, ~Lax(d, n), n \notin p.late
          PROVE  n = "attributes_include" /\ ~d.flag["attributes.include"]
      <4>1. ~Lax(c, n)
        BY <3>1, <3>4, <2>14
      <4>2. Lax(c, n) \/ n \in p.late \/ (n = "attributes_include" /\ ~c.flag["attributes.include"])
        BY <2>1, <2>7 DEF ConfigInv, NothingLaxHeld
      <4>3. d.flag["attributes.include"] = c.flag["attributes.include"]
        BY <2>10
      <4> QED BY <3>4, <4>1, <4>2, <4>3
    <3>5. past'.late = p.late
      BY <2>8
    <3> QED BY <1>1, <2>6, <3>2, <3>3, <3>4, <3>5 DEF NothingLaxHeld
  <2>20. ToldAsItIs'
    <3> SUFFICES ASSUME d.token PROVE announced = {n \in Mapped : Lax(d, n)}
      BY <1>1, <2>6 DEF ToldAsItIs
    <3>1. announced = {n \in Mapped : Lax(c, n)}
      BY <1>1, <2>1, <2>13 DEF ConfigInv, ToldAsItIs
    <3> QED BY <3>1, <2>14
  <2>21. StrongestSource'
    BY <2>6 DEF StrongestSource
  <2>22. InsightsStayOff'
    <3>1. "custom_insights_events.enabled" \in p.off => ~c.flag["custom_insights_events.enabled"]
      BY <2>1, <2>7 DEF ConfigInv, InsightsStayOff
    <3>2. ~c.flag["custom_insights_events.enabled"] => ~d.flag["custom_insights_events.enabled"]
      BY <2>5 DEF Kept
    <3>3. past'.off = p.off \cup {f \in Flags : ~d.flag[f]}
      BY <2>8
    <3>4. "custom_insights_events.enabled" \in past'.off =>
             "custom_insights_events.enabled" \in p.off \/ ~d.flag["custom_insights_events.enabled"]
      BY <3>3, Zenon
    <3> QED BY <2>6, <3>1, <3>2, <3>4 DEF InsightsStayOff
  <2>23. ServerlessStaysAlone' /\ CodesKnown'
    BY <2>1, <2>5, <2>6, <2>7, <2>8, <2>9, <2>18 DEF ConfigInv, ServerlessStaysAlone, CodesKnown
  <2>24. Canonical(config)' /\ (config.flag["ssl"])' /\ Secured(config)' /\ ServerlessTraces(config)'
    BY <2>6, <2>16, <2>17, <2>18 DEF Canonical, Secured, ServerlessTraces
  <2>25. phase' # "new"
    BY <2>6
  <2>26. NoneWithout'
    <3>1. d.flag["attributes.enabled"] = config.flag["attributes.enabled"]
      BY <2>10, <2>1
    <3> QED BY <1>1, <2>6, <3>1 DEF ConfigInv, NoneWithout
  <2> QED BY <2>26, <2>15, <2>19, <2>20, <2>21, <2>22, <2>23, <2>24, <2>25 DEF ConfigInv
<1> QED BY <1>3, <1>4

\* The rest leaves the settings alone.
SameSettings == config' = config /\ rules' = rules /\ announced' = announced

\* What comes to a collection is lax, or it comes late.
LEMMA ComesKeeps ==
    ASSUME ConfigInv, NEW name \in Mapped, TakesData, Comes(name),
           name \in {"attributes_include", "custom_parameters"} => config.flag["attributes.enabled"]
    PROVE  ConfigInv'
<1>1. PICK p : p = past
  OBVIOUS
<1>2. PICK late : late = IF Lax(config, name) THEN p.late ELSE p.late \cup {name}
  OBVIOUS
<1>3. /\ gathered' = gathered \cup {name} /\ SameSettings
      /\ past' = [p EXCEPT !.late = late] /\ phase' = phase /\ underway' = underway
  BY <1>1, <1>2, Zenon DEF Comes, SameSettings
<1>4. /\ p = [from |-> p.from, allowed |-> p.allowed, off |-> p.off, codes |-> p.codes, late |-> p.late]
      /\ p.allowed \subseteq Mapped
  BY <1>1 DEF ConfigInv, PastOK
<1>5. past' = [from |-> p.from, allowed |-> p.allowed, off |-> p.off, codes |-> p.codes, late |-> late]
  BY <1>3, <1>4
<1>6. ConfigTypeOK' /\ PastOK'
  BY <1>3, <1>4, <1>5 DEF ConfigInv, ConfigTypeOK, PastOK, SameSettings
<1>7. NothingLaxHeld'
  <2>1. p.late \subseteq late /\ (Lax(config, name) \/ name \in late)
    BY <1>2
  <2>2. past'.late = late
    BY <1>5
  <2> QED BY <1>1, <1>3, <2>1, <2>2 DEF ConfigInv, NothingLaxHeld, SameSettings
<1>8. NoneWithout'
  BY <1>3 DEF ConfigInv, NoneWithout, SameSettings
<1>9. phase' # "new"
  BY <1>3 DEF TakesData
<1>10. past'.from = past.from /\ past'.allowed = past.allowed /\ past'.off = past.off /\ past'.codes = past.codes
  BY <1>1, <1>5
<1>11. LaxIsAllowed' /\ StrongestSource' /\ InsightsStayOff' /\ CodesKnown'
  BY <1>3, <1>10 DEF ConfigInv, LaxIsAllowed, StrongestSource, InsightsStayOff, CodesKnown, SameSettings
<1> QED BY <1>3, <1>6, <1>7, <1>8, <1>9, <1>11
        DEF ConfigInv, SameSettings, NoTokenInHighSecurity, ToldAsItIs, ServerlessStaysAlone, Canonical, Secured, ServerlessTraces

LEMMA DataKeeps ==
    ASSUME ConfigInv, NEW name \in Mapped, Gather(name) \/ TakeIn(name) \/ Arrive(name)
    PROVE  ConfigInv'
<1>1. CASE Gather(name)
  BY <1>1, ComesKeeps DEF Gather, LetsIn
<1>2. CASE Arrive(name)
  <2>1. name \in {"attributes_include", "custom_parameters"} => config.flag["attributes.enabled"]
    BY <1>2 DEF Arrive, ConfigInv, NoneWithout
  <2> QED BY <1>2, <2>1, ComesKeeps DEF Arrive
<1>3. CASE TakeIn(name)
  <2>1. /\ underway' = underway \cup {name} /\ phase # "new"
        /\ UNCHANGED <<config, rules, phase, gathered, announced, past>>
    BY <1>3 DEF TakeIn, TakesData
  <2>2. NoneWithout'
    BY <1>3, <2>1 DEF TakeIn, LetsIn, ConfigInv, NoneWithout
  <2> QED BY <2>1, <2>2 DEF ConfigInv, ConfigTypeOK, PastOK, NoTokenInHighSecurity, LaxIsAllowed, NothingLaxHeld,
            ToldAsItIs, StrongestSource, InsightsStayOff, ServerlessStaysAlone, CodesKnown
<1> QED BY <1>1, <1>2, <1>3

LEMMA OthersKeep ==
    ASSUME ConfigInv, Reconnect \/ Harvested \/ NoneUnderway \/ UNCHANGED configVars
    PROVE  ConfigInv'
<1>1. CASE Reconnect
  BY <1>1 DEF Reconnect, ConfigInv, ConfigTypeOK, PastOK, NoTokenInHighSecurity, LaxIsAllowed, NothingLaxHeld,
            ToldAsItIs, StrongestSource, InsightsStayOff, ServerlessStaysAlone, CodesKnown, NoneWithout
<1>2. CASE Harvested
  <2>1. PICK p : p = past
    OBVIOUS
  <2>2. PICK back \in SUBSET gathered : underway' = underway \cup back
    BY <1>2 DEF Harvested
  <2>3. /\ phase = "connected" /\ phase' = phase /\ gathered' = {} /\ past' = [p EXCEPT !.late = {}] /\ SameSettings
    BY <1>2, <2>1 DEF Harvested, SameSettings
  <2>4. /\ p = [from |-> p.from, allowed |-> p.allowed, off |-> p.off, codes |-> p.codes, late |-> p.late]
        /\ p.allowed \subseteq Mapped
    BY <2>1 DEF ConfigInv, PastOK
  <2>5. past' = [from |-> p.from, allowed |-> p.allowed, off |-> p.off, codes |-> p.codes, late |-> {}]
    BY <2>3, <2>4
  <2>6. ConfigTypeOK' /\ PastOK' /\ NoneWithout' /\ NothingLaxHeld'
    BY <2>2, <2>3, <2>4, <2>5 DEF ConfigInv, ConfigTypeOK, PastOK, NoneWithout, NothingLaxHeld, SameSettings
  <2>7. past'.from = past.from /\ past'.allowed = past.allowed /\ past'.off = past.off /\ past'.codes = past.codes
    BY <2>1, <2>5
  <2>8. LaxIsAllowed' /\ StrongestSource' /\ InsightsStayOff' /\ CodesKnown'
    BY <2>3, <2>7 DEF ConfigInv, LaxIsAllowed, StrongestSource, InsightsStayOff, CodesKnown, SameSettings
  <2> QED BY <2>3, <2>6, <2>8
          DEF ConfigInv, SameSettings, NoTokenInHighSecurity, ToldAsItIs, ServerlessStaysAlone, Canonical, Secured, ServerlessTraces
<1>3. CASE NoneUnderway
  BY <1>3 DEF NoneUnderway, ConfigInv, ConfigTypeOK, PastOK, NoTokenInHighSecurity, LaxIsAllowed, NothingLaxHeld,
            ToldAsItIs, StrongestSource, InsightsStayOff, ServerlessStaysAlone, CodesKnown, NoneWithout
<1>4. CASE UNCHANGED configVars
  BY <1>4 DEF configVars, ConfigInv, ConfigTypeOK, PastOK, NoTokenInHighSecurity, LaxIsAllowed, NothingLaxHeld,
            ToldAsItIs, StrongestSource, InsightsStayOff, ServerlessStaysAlone, CodesKnown, NoneWithout
<1> QED BY <1>1, <1>2, <1>3, <1>4

\* "override config with environment variables", "get the most secure setting between local config
\* and the policy", "never enable from server-side": for any installations, policies and replies of
\* any length, and any number of logins, the configuration is what its strongest sources make of
\* it, high security mode and the policies stay in force, and the codes to ignore are merged.
THEOREM ConfigurationIsCorrect == ConfigSpec => []ConfigurationCorrect
<1>1. ConfigInv /\ [ConfigNext]_configVars => ConfigInv'
  <2> SUFFICES ASSUME ConfigInv, [ConfigNext]_configVars PROVE ConfigInv'
    OBVIOUS
  <2>1. CASE \E inst \in Installations : Load(inst)
    BY <2>1, LoadKeeps
  <2>2. CASE \E ps \in PolicySets : Preconnect(ps)
    BY <2>2, PreconnectKeeps
  <2>3. CASE \E i \in DOMAIN Replies : Connect1(Replies[i])
    BY <2>3, ConnectKeeps
  <2>4. CASE \E name \in Mapped : Gather(name) \/ TakeIn(name) \/ Arrive(name)
    BY <2>4, DataKeeps
  <2>5. CASE Reconnect \/ Harvested \/ NoneUnderway \/ UNCHANGED configVars
    BY <2>5, OthersKeep
  <2> QED BY <2>1, <2>2, <2>3, <2>4, <2>5 DEF ConfigNext
<1> QED BY <1>1, ConfigInvInit, ConfigInvImplies, PTL DEF ConfigSpec

(***************************************************************************)
(* Facts about the host, for any vendors.  Two counters decide when they   *)
(* are told; the invariant says what each stands for: how many of those    *)
(* it waits for have answered, and how often vendors that had answered     *)
(* have called again.  That no task answers twice, or not at all, is then  *)
(* that the requests and commands under way are those of who still waits.  *)
(***************************************************************************)
\* What a request can be doing.
RequestStates == {"none", "sent", "streaming", "aborted", "cut", "failed", "closing"}
Gathering ==
    [parts : [Parts -> Answers \cup {"idle", "waiting"}], known : SUBSET Vendors, stopped : BOOLEAN,
     vendorsTold : Nat, again : Nat, tasksTold : Nat, systemInfo : BOOLEAN, told : Nat,
     requests : [MetadataVendors -> RequestStates],
     sysctl : [ProcParts -> [step : Nat, responses : Nat, returned : BOOLEAN]]]

\* What the two counters stand for.
AnsweredVendors(g) == {v \in Vendors : g.parts[v] \in Answers}
AnsweredTasks(g) ==
    {t \in Tasks : IF t = "vendors" THEN g.vendorsTold >= Cardinality(Vendors) ELSE g.parts[t] \in Answers}

TypedAndCounted(g, n) ==
    /\ g \in Gathering /\ \A p \in Parts : g.parts[p] # "idle"
    /\ g.vendorsTold = Cardinality(AnsweredVendors(g)) + g.again
    /\ g.tasksTold + n = Cardinality(AnsweredTasks(g))

AllCounted(g) ==
    /\ TypedAndCounted(g, 0)
    /\ g.systemInfo => AnsweredTasks(g) = Tasks
    /\ AnsweredTasks(g) = Tasks => g.systemInfo
    /\ g.systemInfo /\ g.parts["environment"] \in Answers => g.told = 1
    /\ ~(g.systemInfo /\ g.parts["environment"] \in Answers) => g.told = 0

\* h is g but for what is counted.
SameButCounts(g, h) ==
    /\ h.parts = g.parts /\ h.known = g.known /\ h.stopped = g.stopped
    /\ h.requests = g.requests /\ h.sysctl = g.sysctl
    /\ h.vendorsTold = g.vendorsTold /\ h.again = g.again

\* The names of vendors, tasks and parts: what each set has and has not.
LEMMA HostNames ==
    /\ IsFiniteSet(Vendors) /\ IsFiniteSet(Tasks) /\ "docker" \in Vendors
    /\ Vendors \subseteq Parts /\ ProcParts \subseteq Parts /\ "boot" \in Parts /\ "environment" \in Parts
    /\ MetadataVendors \subseteq Vendors
    /\ \A v \in Vendors : v \notin ProcParts /\ v # "boot" /\ v # "environment" /\ v # "vendors"
    /\ ProcParts \subseteq Tasks /\ "vendors" \in Tasks /\ "boot" \in Tasks
    /\ \A t \in Tasks : t # "vendors" => t \in Parts /\ t \notin Vendors /\ t # "environment"
<1>1. IsFiniteSet(Vendors)
  BY HostAssumption, FS_AddElement DEF Vendors
<1>2. IsFiniteSet(Tasks)
  <2>1. IsFiniteSet({"processors"})
    BY FS_Singleton
  <2>2. IsFiniteSet({"processors"} \cup {"memory"})
    BY <2>1, FS_AddElement
  <2>3. IsFiniteSet(({"processors"} \cup {"memory"}) \cup {"kernel"})
    BY <2>2, FS_AddElement
  <2>4. IsFiniteSet((({"processors"} \cup {"memory"}) \cup {"kernel"}) \cup {"vendors"})
    BY <2>3, FS_AddElement
  <2>5. IsFiniteSet(((({"processors"} \cup {"memory"}) \cup {"kernel"}) \cup {"vendors"}) \cup {"boot"})
    BY <2>4, FS_AddElement
  <2>6. Tasks = ((({"processors"} \cup {"memory"}) \cup {"kernel"}) \cup {"vendors"}) \cup {"boot"}
    BY DEF Tasks, ProcParts
  <2> QED BY <2>5, <2>6
<1>3. \A v \in Vendors : v \notin ProcParts /\ v # "boot" /\ v # "environment" /\ v # "vendors"
  BY HostAssumption DEF Vendors, ProcParts
<1>4. \A t \in Tasks : t # "vendors" => t \in Parts /\ t \notin Vendors /\ t # "environment"
  BY <1>3 DEF Tasks, Parts, ProcParts
<1> QED BY <1>1, <1>2, <1>3, <1>4 DEF Vendors, Parts, Tasks, ProcParts

\* Those who have answered can be counted, and when the count is full all have.
LEMMA AnsweredAreFinite ==
    ASSUME NEW g
    PROVE  /\ IsFiniteSet(AnsweredVendors(g)) /\ Cardinality(AnsweredVendors(g)) \in Nat
           /\ Cardinality(AnsweredVendors(g)) <= Cardinality(Vendors) /\ Cardinality(Vendors) \in Nat
           /\ Cardinality(AnsweredVendors(g)) = Cardinality(Vendors) => AnsweredVendors(g) = Vendors
           /\ IsFiniteSet(AnsweredTasks(g)) /\ Cardinality(AnsweredTasks(g)) \in Nat
           /\ Cardinality(AnsweredTasks(g)) <= Cardinality(Tasks) /\ Cardinality(Tasks) \in Nat
           /\ Cardinality(AnsweredTasks(g)) = Cardinality(Tasks) => AnsweredTasks(g) = Tasks
<1>1. AnsweredVendors(g) \in SUBSET Vendors
  BY DEF AnsweredVendors
<1>2. AnsweredTasks(g) \in SUBSET Tasks
  BY DEF AnsweredTasks
<1>3. /\ IsFiniteSet(AnsweredVendors(g)) /\ Cardinality(AnsweredVendors(g)) <= Cardinality(Vendors)
      /\ Cardinality(Vendors) = Cardinality(AnsweredVendors(g)) => Vendors = AnsweredVendors(g)
  BY <1>1, HostNames, FS_Subset
<1>4. /\ IsFiniteSet(AnsweredTasks(g)) /\ Cardinality(AnsweredTasks(g)) <= Cardinality(Tasks)
      /\ Cardinality(Tasks) = Cardinality(AnsweredTasks(g)) => Tasks = AnsweredTasks(g)
  BY <1>2, HostNames, FS_Subset
<1>5. Cardinality(AnsweredVendors(g)) \in Nat /\ Cardinality(Vendors) \in Nat
      /\ Cardinality(AnsweredTasks(g)) \in Nat /\ Cardinality(Tasks) \in Nat
  BY <1>3, <1>4, HostNames, FS_CardinalityType
<1> QED BY <1>3, <1>4, <1>5

\* The answered are those of the parts and of the vendors' counter.
LEMMA SameAnswered ==
    ASSUME NEW g, NEW h, h.parts = g.parts, h.vendorsTold = g.vendorsTold
    PROVE  AnsweredVendors(h) = AnsweredVendors(g) /\ AnsweredTasks(h) = AnsweredTasks(g)
BY DEF AnsweredVendors, AnsweredTasks

\* The facts are told when the environment's are there too.
LEMMA TellFactsCounts ==
    ASSUME NEW g, TypedAndCounted(g, 0), AnsweredTasks(g) = Tasks, g.systemInfo, g.told = 0
    PROVE  AllCounted(TellFacts(g)) /\ SameButCounts(g, TellFacts(g))
<1>1. CASE g.parts["environment"] \in Answers
  <2>1. PICK h : h = [g EXCEPT !.told = 1]
    OBVIOUS
  <2>2. TellFacts(g) = h
    BY <1>1, <2>1 DEF TellFacts
  <2>3. h \in Gathering /\ h.told = 1 /\ h.systemInfo = g.systemInfo /\ h.vendorsTold = g.vendorsTold
        /\ h.again = g.again /\ h.tasksTold = g.tasksTold /\ SameButCounts(g, h)
    BY <2>1 DEF TypedAndCounted, Gathering, SameButCounts
  <2>4. AnsweredVendors(h) = AnsweredVendors(g) /\ AnsweredTasks(h) = AnsweredTasks(g) /\ h.parts = g.parts
    BY <2>3, SameAnswered DEF SameButCounts
  <2> QED BY <1>1, <2>2, <2>3, <2>4 DEF AllCounted, TypedAndCounted
<1>2. CASE g.parts["environment"] \notin Answers
  BY <1>2 DEF TellFacts, AllCounted, SameButCounts
<1> QED BY <1>1, <1>2

\* The last of the tasks ends what is gathered of the system.
LEMMA FinishTaskCounts ==
    ASSUME NEW g, TypedAndCounted(g, 1), ~g.systemInfo, g.told = 0
    PROVE  AllCounted(FinishTask(g)) /\ SameButCounts(g, FinishTask(g))
<1>1. g \in Gathering /\ g.tasksTold \in Nat
  BY DEF TypedAndCounted, Gathering
<1>2. PICK n \in Nat : n = g.tasksTold + 1
  BY <1>1
<1>3. PICK f : f = [g EXCEPT !.tasksTold = n]
  OBVIOUS
<1>4. f \in Gathering /\ f.tasksTold = n /\ f.systemInfo = g.systemInfo /\ f.told = g.told
      /\ f.vendorsTold = g.vendorsTold /\ f.again = g.again /\ SameButCounts(g, f)
  BY <1>1, <1>2, <1>3 DEF Gathering, SameButCounts
<1>5. AnsweredVendors(f) = AnsweredVendors(g) /\ AnsweredTasks(f) = AnsweredTasks(g) /\ f.parts = g.parts
  BY <1>4, SameAnswered DEF SameButCounts
<1>6. TypedAndCounted(f, 0)
  BY <1>1, <1>2, <1>4, <1>5, AnsweredAreFinite DEF TypedAndCounted
<1>7. CASE n = Cardinality(Tasks)
  <2>1. AnsweredTasks(f) = Tasks
    BY <1>2, <1>4, <1>5, <1>7, AnsweredAreFinite DEF TypedAndCounted
  <2>2. PICK k : k = [f EXCEPT !.systemInfo = TRUE]
    OBVIOUS
  <2>3. k \in Gathering /\ k.systemInfo /\ k.told = f.told /\ k.tasksTold = f.tasksTold
        /\ k.vendorsTold = f.vendorsTold /\ k.again = f.again /\ SameButCounts(f, k)
    BY <1>4, <2>2 DEF Gathering, SameButCounts
  <2>4. AnsweredVendors(k) = AnsweredVendors(f) /\ AnsweredTasks(k) = AnsweredTasks(f) /\ k.parts = f.parts
    BY <2>3, SameAnswered DEF SameButCounts
  <2>5. TypedAndCounted(k, 0)
    BY <1>6, <2>3, <2>4 DEF TypedAndCounted
  <2>6. AllCounted(TellFacts(k)) /\ SameButCounts(k, TellFacts(k))
    BY <1>4, <2>1, <2>3, <2>4, <2>5, TellFactsCounts
  <2>7. FinishTask(g) = TellFacts(k)
    BY <1>2, <1>3, <1>4, <1>7, <2>2 DEF FinishTask
  <2> QED BY <1>4, <2>3, <2>6, <2>7 DEF SameButCounts
<1>8. CASE n # Cardinality(Tasks)
  <2>1. FinishTask(g) = f
    BY <1>2, <1>3, <1>4, <1>8 DEF FinishTask
  <2>2. AnsweredTasks(f) # Tasks
    BY <1>2, <1>5, <1>8, <1>1 DEF TypedAndCounted
  <2> QED BY <1>4, <1>6, <2>1, <2>2 DEF AllCounted
<1> QED BY <1>7, <1>8

\* Nobody has been told while a part waits that is no vendor.
LEMMA WaitingIsUntold ==
    ASSUME NEW g, AllCounted(g), NEW p \in Parts \ Vendors, g.parts[p] = "waiting"
    PROVE  /\ g.told = 0
           /\ p # "environment" => ~g.systemInfo /\ AnsweredTasks(g) # Tasks
<1>1. g.parts[p] \notin Answers
  BY DEF Answers
<1>2. p \in ProcParts \cup {"boot"} => p \notin AnsweredTasks(g) /\ p \in Tasks
  <2>1. "vendors" \notin ProcParts \cup {"boot"}
    BY DEF ProcParts
  <2> QED BY <1>1, <2>1 DEF AnsweredTasks, Tasks
<1>3. p # "environment" => AnsweredTasks(g) # Tasks
  BY <1>2 DEF Parts
<1>4. p # "environment" => ~g.systemInfo
  BY <1>3 DEF AllCounted
<1>5. p = "environment" => ~(g.parts["environment"] \in Answers)
  BY <1>1
<1> QED BY <1>3, <1>4, <1>5 DEF AllCounted

\* A task that answers is counted once.
TaskIsCounted(h, g, p) ==
    /\ AllCounted(h) /\ h.parts = [g.parts EXCEPT ![p] = "found"] /\ h.known = g.known
    /\ h.stopped = g.stopped /\ h.requests = g.requests /\ h.sysctl = g.sysctl

LEMMA TellTaskCounts ==
    ASSUME NEW g, AllCounted(g), NEW p \in ProcParts \cup {"boot"}, g.parts[p] = "waiting", NEW h, h = TellTask(g, p)
    PROVE  TaskIsCounted(h, g, p)
<1>1. p \in Parts /\ p \in Tasks /\ p \notin Vendors /\ p # "environment" /\ p # "vendors"
  BY HostNames DEF Parts, Tasks, ProcParts
<1>2. g.told = 0 /\ ~g.systemInfo
  BY <1>1, WaitingIsUntold
<1>3. g \in Gathering /\ g.tasksTold \in Nat
  BY DEF AllCounted, TypedAndCounted, Gathering
<1>4. PICK parts \in [Parts -> Answers \cup {"idle", "waiting"}] : parts = [g.parts EXCEPT ![p] = "found"]
  BY <1>3 DEF Gathering, Answers
<1>5. PICK f : f = [g EXCEPT !.parts = parts]
  OBVIOUS
<1>6. f \in Gathering /\ f.parts = parts /\ f.vendorsTold = g.vendorsTold /\ f.again = g.again /\ f.tasksTold = g.tasksTold
      /\ f.systemInfo = g.systemInfo /\ f.told = g.told /\ f.known = g.known /\ f.stopped = g.stopped
      /\ f.requests = g.requests /\ f.sysctl = g.sysctl
  BY <1>3, <1>4, <1>5 DEF Gathering
<1>7. parts[p] = "found" /\ \A q \in Parts : q # p => parts[q] = g.parts[q]
  BY <1>1, <1>3, <1>4 DEF Gathering
<1>8. AnsweredVendors(f) = AnsweredVendors(g)
  BY <1>1, <1>6, <1>7, HostNames DEF AnsweredVendors
<1>9. AnsweredTasks(f) = AnsweredTasks(g) \cup {p} /\ p \notin AnsweredTasks(g)
  BY <1>1, <1>6, <1>7, <1>8, HostNames DEF AnsweredTasks, Answers
<1>10. Cardinality(AnsweredTasks(f)) = Cardinality(AnsweredTasks(g)) + 1
  BY <1>9, AnsweredAreFinite, FS_AddElement
<1>11. TypedAndCounted(f, 1)
  <2>1. \A q \in Parts : parts[q] # "idle"
    BY <1>7 DEF AllCounted, TypedAndCounted
  <2>2. f.tasksTold + 1 = Cardinality(AnsweredTasks(f))
    BY <1>3, <1>6, <1>10, AnsweredAreFinite DEF AllCounted, TypedAndCounted
  <2> QED BY <1>6, <1>8, <2>1, <2>2 DEF AllCounted, TypedAndCounted
<1>12. h = FinishTask(f)
  BY <1>4, <1>5 DEF TellTask
<1>13. AllCounted(h) /\ SameButCounts(f, h)
  BY <1>2, <1>6, <1>11, <1>12, FinishTaskCounts
<1> QED BY <1>4, <1>6, <1>13 DEF SameButCounts, TaskIsCounted

\* So is a vendor, each time it calls; the call that fills the count answers the vendors' task.
VendorIsCounted(h, g, v, a) ==
    /\ AllCounted(h) /\ h.parts = [g.parts EXCEPT ![v] = IF @ = "found" THEN @ ELSE a]
    /\ h.known = g.known /\ h.stopped = g.stopped /\ h.requests = g.requests /\ h.sysctl = g.sysctl

LEMMA TellVendorCounts ==
    ASSUME NEW g, AllCounted(g), NEW v \in Vendors, NEW a \in Answers, NEW h, h = TellVendor(g, v, a)
    PROVE  VendorIsCounted(h, g, v, a)
<1>1. v \in Parts /\ v # "environment" /\ v \notin Tasks
  BY HostNames DEF Tasks, ProcParts
<1>2. PICK k \in Nat : k = Cardinality(Vendors)
  BY AnsweredAreFinite
<1>3. g \in Gathering /\ g.tasksTold \in Nat /\ g.vendorsTold \in Nat /\ g.again \in Nat
  BY DEF AllCounted, TypedAndCounted, Gathering
<1>4. PICK parts : parts = [g.parts EXCEPT ![v] = IF @ = "found" THEN @ ELSE a]
  OBVIOUS
<1>5. /\ parts \in [Parts -> Answers \cup {"idle", "waiting"}] /\ parts[v] \in Answers
      /\ \A q \in Parts : q # v => parts[q] = g.parts[q]
  BY <1>1, <1>3, <1>4 DEF Gathering, Answers
<1>6. PICK n \in Nat : n = g.vendorsTold + 1
  BY <1>3
<1>7. PICK m \in Nat : m = IF g.parts[v] = "waiting" THEN g.again ELSE g.again + 1
  BY <1>3
<1>8. PICK f : f = [g EXCEPT !.parts = parts, !.vendorsTold = n, !.again = m]
  OBVIOUS
<1>9. f \in Gathering /\ f.parts = parts /\ f.vendorsTold = n /\ f.again = m /\ f.tasksTold = g.tasksTold
      /\ f.systemInfo = g.systemInfo /\ f.told = g.told /\ f.known = g.known /\ f.stopped = g.stopped
      /\ f.requests = g.requests /\ f.sysctl = g.sysctl
  BY <1>3, <1>5, <1>8 DEF Gathering
<1>10. h = IF n = k THEN FinishTask(f) ELSE f
  <2>1. PICK f2 : f2 = [g EXCEPT !.parts[v] = IF @ = "found" THEN @ ELSE a,
                                !.vendorsTold = @ + 1,
                                !.again = IF g.parts[v] = "waiting" THEN @ ELSE @ + 1]
    OBVIOUS
  <2>2. f2 = f
    BY <1>3, <1>4, <1>6, <1>7, <1>8, <2>1 DEF Gathering
  <2>3. h = IF f2.vendorsTold = Cardinality(Vendors) THEN FinishTask(f2) ELSE f2
    BY <2>1, Zenon DEF TellVendor
  <2> QED BY <1>2, <1>9, <2>2, <2>3
<1>11. n = Cardinality(AnsweredVendors(f)) + m
  <2>1. g.vendorsTold = Cardinality(AnsweredVendors(g)) + g.again /\ Cardinality(AnsweredVendors(g)) \in Nat
    BY AnsweredAreFinite DEF AllCounted, TypedAndCounted
  <2>2. CASE g.parts[v] = "waiting"
    <3>1. AnsweredVendors(f) = AnsweredVendors(g) \cup {v} /\ v \notin AnsweredVendors(g)
      BY <1>5, <1>9, <2>2, HostNames DEF AnsweredVendors, Answers
    <3>2. Cardinality(AnsweredVendors(f)) = Cardinality(AnsweredVendors(g)) + 1
      BY <3>1, AnsweredAreFinite, FS_AddElement
    <3> QED BY <1>3, <1>6, <1>7, <2>1, <2>2, <3>2
  <2>3. CASE g.parts[v] # "waiting"
    <3>1. g.parts[v] \in Answers
      BY <1>1, <1>3, <2>3 DEF AllCounted, TypedAndCounted, Gathering
    <3>2. AnsweredVendors(f) = AnsweredVendors(g)
      BY <1>5, <1>9, <3>1, HostNames DEF AnsweredVendors
    <3> QED BY <1>3, <1>6, <1>7, <2>1, <2>3, <3>2
  <2> QED BY <2>2, <2>3
<1>12. \A q \in Parts : parts[q] # "idle"
  BY <1>5 DEF AllCounted, TypedAndCounted, Answers
<1>13. \A t \in Tasks : t # "vendors" => parts[t] = g.parts[t]
  BY <1>1, <1>5, HostNames
<1>14. parts["environment"] = g.parts["environment"]
  BY <1>1, <1>5, HostNames
<1>15. CASE n = k
  <2>1. ~(g.vendorsTold >= Cardinality(Vendors)) /\ f.vendorsTold >= Cardinality(Vendors)
    BY <1>2, <1>3, <1>6, <1>9, <1>15
  <2>2. AnsweredTasks(f) = AnsweredTasks(g) \cup {"vendors"} /\ "vendors" \notin AnsweredTasks(g)
    BY <1>9, <1>13, <2>1, HostNames DEF AnsweredTasks
  <2>3. Cardinality(AnsweredTasks(f)) = Cardinality(AnsweredTasks(g)) + 1
    <3>1. IsFiniteSet(AnsweredTasks(g))
      BY AnsweredAreFinite
    <3>2. PICK S : S = AnsweredTasks(g)
      OBVIOUS
    <3>3. Cardinality(S \cup {"vendors"}) = Cardinality(S) + 1
      BY ONLY <2>2, <3>1, <3>2, FS_AddElement
    <3> QED BY <2>2, <3>2, <3>3
  <2>4. f.tasksTold + 1 = Cardinality(AnsweredTasks(f))
    BY <1>3, <1>9, <2>3, AnsweredAreFinite DEF AllCounted, TypedAndCounted
  <2>5. TypedAndCounted(f, 1)
    BY <1>9, <1>11, <1>12, <2>4 DEF TypedAndCounted
  <2>6. ~g.systemInfo /\ g.told = 0
    <3>1. "vendors" \in Tasks
      BY HostNames
    <3> QED BY <2>2, <3>1 DEF AllCounted
  <2>7. AllCounted(h) /\ SameButCounts(f, h)
    BY <1>9, <1>10, <1>15, <2>5, <2>6, FinishTaskCounts
  <2> QED BY <1>4, <1>9, <2>7 DEF SameButCounts, VendorIsCounted
<1>16. CASE n # k
  <2>1. h = f
    BY <1>10, <1>16
  <2>2. (f.vendorsTold >= Cardinality(Vendors)) <=> (g.vendorsTold >= Cardinality(Vendors))
    BY <1>2, <1>3, <1>6, <1>9, <1>16
  <2>3. AnsweredTasks(f) = AnsweredTasks(g)
    BY <1>9, <1>13, <2>2 DEF AnsweredTasks
  <2>4. TypedAndCounted(f, 0)
    BY <1>9, <1>11, <1>12, <2>3 DEF AllCounted, TypedAndCounted
  <2>5. AllCounted(f)
    BY <1>9, <1>14, <2>3, <2>4 DEF AllCounted
  <2> QED BY <1>4, <1>9, <2>1, <2>5 DEF VendorIsCounted
<1> QED BY <1>15, <1>16

\* And so is the environment, which is no task.
LEMMA EnvironmentCounts ==
    ASSUME NEW g, AllCounted(g), g.parts["environment"] = "waiting",
           NEW h, h = TellFacts([g EXCEPT !.parts["environment"] = "found"])
    PROVE  /\ AllCounted(h) /\ h.parts = [g.parts EXCEPT !["environment"] = "found"] /\ h.known = g.known
           /\ h.stopped = g.stopped /\ h.requests = g.requests /\ h.sysctl = g.sysctl
<1>1. g \in Gathering /\ "environment" \in Parts
  BY HostNames DEF AllCounted, TypedAndCounted
<1>2. g.told = 0
  BY <1>1, WaitingIsUntold, HostNames
<1>3. PICK parts \in [Parts -> Answers \cup {"idle", "waiting"}] : parts = [g.parts EXCEPT !["environment"] = "found"]
  BY <1>1 DEF Gathering, Answers
<1>4. PICK f : f = [g EXCEPT !.parts = parts]
  OBVIOUS
<1>5. f \in Gathering /\ f.parts = parts /\ f.vendorsTold = g.vendorsTold /\ f.again = g.again /\ f.tasksTold = g.tasksTold
      /\ f.systemInfo = g.systemInfo /\ f.told = g.told /\ f.known = g.known /\ f.stopped = g.stopped
      /\ f.requests = g.requests /\ f.sysctl = g.sysctl
  BY <1>1, <1>3, <1>4 DEF Gathering
<1>6. parts["environment"] = "found" /\ \A q \in Parts : q # "environment" => parts[q] = g.parts[q]
  BY <1>1, <1>3 DEF Gathering
<1>7. AnsweredVendors(f) = AnsweredVendors(g)
  BY <1>5, <1>6, HostNames DEF AnsweredVendors
<1>8. AnsweredTasks(f) = AnsweredTasks(g)
  BY <1>5, <1>6, <1>7, HostNames DEF AnsweredTasks
<1>9. TypedAndCounted(f, 0)
  <2>1. \A q \in Parts : parts[q] # "idle"
    BY <1>6 DEF AllCounted, TypedAndCounted
  <2> QED BY <1>5, <1>7, <1>8, <2>1 DEF AllCounted, TypedAndCounted
<1>10. h = TellFacts(f)
  BY <1>3, <1>4
<1>11. CASE f.systemInfo
  <2>1. AnsweredTasks(f) = Tasks /\ f.told = 0
    BY <1>2, <1>5, <1>8, <1>11 DEF AllCounted
  <2>2. AllCounted(h) /\ SameButCounts(f, h)
    BY <1>9, <1>10, <1>11, <2>1, TellFactsCounts
  <2> QED BY <1>3, <1>5, <2>2 DEF SameButCounts
<1>12. CASE ~f.systemInfo
  <2>1. h = f
    BY <1>10, <1>12 DEF TellFacts
  <2>2. AllCounted(f)
    BY <1>2, <1>5, <1>8, <1>9, <1>12 DEF AllCounted
  <2> QED BY <1>3, <1>5, <2>1, <2>2
<1> QED BY <1>11, <1>12

\* Nothing is counted of what a request or a command does before it answers.
LEMMA UncountedChange ==
    ASSUME NEW g, AllCounted(g), NEW h \in Gathering, h.parts = g.parts, h.vendorsTold = g.vendorsTold,
           h.again = g.again, h.tasksTold = g.tasksTold, h.systemInfo = g.systemInfo, h.told = g.told
    PROVE  AllCounted(h)
<1>1. AnsweredVendors(h) = AnsweredVendors(g) /\ AnsweredTasks(h) = AnsweredTasks(g)
  BY SameAnswered
<1> QED BY <1>1 DEF AllCounted, TypedAndCounted

\* One request, or one command, is in another state.
LEMMA RequestsChange ==
    ASSUME NEW g, AllCounted(g), NEW rs \in [MetadataVendors -> RequestStates], NEW h, h = [g EXCEPT !.requests = rs]
    PROVE  /\ AllCounted(h) /\ h.parts = g.parts /\ h.known = g.known /\ h.stopped = g.stopped
           /\ h.requests = rs /\ h.sysctl = g.sysctl /\ h.told = g.told /\ h \in Gathering
<1>1. g \in Gathering
  BY DEF AllCounted, TypedAndCounted
<1>2. h \in Gathering /\ h.parts = g.parts /\ h.known = g.known /\ h.stopped = g.stopped
      /\ h.requests = rs /\ h.sysctl = g.sysctl /\ h.vendorsTold = g.vendorsTold /\ h.again = g.again
      /\ h.tasksTold = g.tasksTold /\ h.systemInfo = g.systemInfo /\ h.told = g.told
  BY <1>1 DEF Gathering
<1> QED BY <1>2, UncountedChange

\* The same of the commands.
LEMMA SysctlChanges ==
    ASSUME NEW g, AllCounted(g), NEW ss \in [ProcParts -> [step : Nat, responses : Nat, returned : BOOLEAN]],
           NEW h, h = [g EXCEPT !.sysctl = ss]
    PROVE  /\ AllCounted(h) /\ h.parts = g.parts /\ h.known = g.known /\ h.stopped = g.stopped
           /\ h.requests = g.requests /\ h.sysctl = ss /\ h.told = g.told /\ h \in Gathering
<1>1. g \in Gathering
  BY DEF AllCounted, TypedAndCounted
<1>2. h \in Gathering /\ h.parts = g.parts /\ h.known = g.known /\ h.stopped = g.stopped
      /\ h.requests = g.requests /\ h.sysctl = ss /\ h.vendorsTold = g.vendorsTold /\ h.again = g.again
      /\ h.tasksTold = g.tasksTold /\ h.systemInfo = g.systemInfo /\ h.told = g.told
  BY <1>1 DEF Gathering
<1> QED BY <1>2, UncountedChange

\* The requests and the answers agree: who waits has been asked, and who is known is told.
RequestsAgree(g, cache) ==
    /\ \A v \in MetadataVendors :
          /\ v \in host.detects /\ v \notin cache /\ g.parts[v] = "waiting" => g.requests[v] # "none"
          /\ g.stopped => g.requests[v] \notin {"sent", "streaming"}
    /\ g.known \subseteq cache
    /\ \A v \in g.known \cap host.detects :
          /\ g.parts[v] \in {"waiting", "found"} /\ (v = "docker" => g.parts[v] = "found")
          /\ v \in MetadataVendors => g.requests[v] = "none"

\* The commands and the answer they wait for agree.
SysctlAgrees(p, s, answer) ==
    /\ s.step \in 1..Len(SysctlNames(host.platform, p))
    /\ ~s.returned => answer = "waiting" /\ s.responses < SysctlNames(host.platform, p)[s.step]
    /\ s.returned => answer # "waiting"

Commands == host.platform \in {"darwin", "bsd"}

GatherInv(g, cache) ==
    /\ AllCounted(g) /\ RequestsAgree(g, cache)
    /\ Commands => \A p \in ProcParts : SysctlAgrees(p, g.sysctl[p], g.parts[p])

HostInv ==
    /\ host \in Hosts /\ vendorCache \subseteq MetadataVendors \cup {"docker"}
    /\ gathers \in 0..MaxGathers /\ hostDown \in BOOLEAN
    /\ gathers = 0 => gather = NotAsked
    /\ gathers > 0 => GatherInv(gather, vendorCache)

\* A vendor that answers leaves a gathering in which who waits has been asked.
LEMMA VendorAnswers ==
    ASSUME NEW g, NEW cache, GatherInv(g, cache), NEW v \in Vendors, NEW a \in Answers,
           v \in g.known \cap host.detects => a = "found",
           NEW rs \in [MetadataVendors -> RequestStates],
           \A w \in MetadataVendors : w # v => rs[w] = g.requests[w],
           v \in MetadataVendors => /\ rs[v] \notin {"sent", "streaming"}
                                    /\ v \in g.known \cap host.detects => rs[v] = "none",
           NEW c, cache \subseteq c, NEW h, h = TellVendor([g EXCEPT !.requests = rs], v, a)
    PROVE  GatherInv(h, c)
<1>1. PICK f : f = [g EXCEPT !.requests = rs]
  OBVIOUS
<1>2. AllCounted(f) /\ f.parts = g.parts /\ f.known = g.known /\ f.stopped = g.stopped
      /\ f.requests = rs /\ f.sysctl = g.sysctl
  BY <1>1, RequestsChange DEF GatherInv
<1>3. h = TellVendor(f, v, a)
  BY <1>1
<1>12. PICK x \in Answers : x = IF g.parts[v] = "found" THEN "found" ELSE a
  BY DEF Answers
<1>4. AllCounted(h) /\ h.parts = [g.parts EXCEPT ![v] = x] /\ h.known = g.known /\ h.stopped = g.stopped
      /\ h.requests = rs /\ h.sysctl = g.sysctl
  <2>1. VendorIsCounted(h, f, v, a)
    BY <1>2, <1>3, TellVendorCounts
  <2>2. h.parts = [g.parts EXCEPT ![v] = IF @ = "found" THEN @ ELSE a]
    BY <1>2, <2>1 DEF VendorIsCounted
  <2>3. h.parts = [g.parts EXCEPT ![v] = x]
    <3>1. (IF g.parts[v] = "found" THEN g.parts[v] ELSE a) = x
      BY <1>12
    <3> QED BY <2>2, <3>1, Zenon
  <2> QED BY <1>2, <2>1, <2>3 DEF VendorIsCounted
<1>5. g.parts \in [Parts -> Answers \cup {"idle", "waiting"}]
  BY DEF GatherInv, AllCounted, TypedAndCounted, Gathering
<1>6. h.parts[v] = x /\ (\A q \in Parts : q # v => h.parts[q] = g.parts[q]) /\ x # "waiting"
      /\ (a = "found" => x = "found")
  BY <1>4, <1>5, <1>12, HostNames DEF Answers
<1>7. \A w \in MetadataVendors :
          /\ w \in host.detects /\ w \notin c /\ h.parts[w] = "waiting" => h.requests[w] # "none"
          /\ h.stopped => h.requests[w] \notin {"sent", "streaming"}
  <2> SUFFICES ASSUME NEW w \in MetadataVendors
               PROVE  /\ w \in host.detects /\ w \notin c /\ h.parts[w] = "waiting" => h.requests[w] # "none"
                      /\ h.stopped => h.requests[w] \notin {"sent", "streaming"}
    OBVIOUS
  <2>1. CASE w = v
    BY <1>4, <1>6, <2>1
  <2>2. CASE w # v
    <3>1. h.requests[w] = g.requests[w] /\ h.parts[w] = g.parts[w] /\ h.stopped = g.stopped
      BY <1>4, <1>6, <2>2, HostNames
    <3> QED BY <3>1 DEF GatherInv, RequestsAgree
  <2> QED BY <2>1, <2>2
<1>8. \A w \in h.known \cap host.detects :
          /\ h.parts[w] \in {"waiting", "found"} /\ (w = "docker" => h.parts[w] = "found")
          /\ w \in MetadataVendors => h.requests[w] = "none"
  <2> SUFFICES ASSUME NEW w \in g.known \cap host.detects
               PROVE  /\ h.parts[w] \in {"waiting", "found"} /\ (w = "docker" => h.parts[w] = "found")
                      /\ w \in MetadataVendors => h.requests[w] = "none"
    BY <1>4
  <2>1. CASE w = v
    BY <1>4, <1>6, <2>1
  <2>2. CASE w # v
    <3>1. w \in Parts
      BY HostNames DEF GatherInv, AllCounted, TypedAndCounted, Gathering
    <3>2. h.parts[w] = g.parts[w] /\ (w \in MetadataVendors => h.requests[w] = g.requests[w])
      BY <1>4, <1>6, <2>2, <3>1
    <3> QED BY <3>2 DEF GatherInv, RequestsAgree
  <2> QED BY <2>1, <2>2
<1>9. h.known \subseteq c
  BY <1>4 DEF GatherInv, RequestsAgree
<1>10. RequestsAgree(h, c)
  BY <1>7, <1>8, <1>9 DEF RequestsAgree
<1>11. Commands => \A p \in ProcParts : SysctlAgrees(p, h.sysctl[p], h.parts[p])
  <2> SUFFICES ASSUME Commands, NEW p \in ProcParts PROVE SysctlAgrees(p, h.sysctl[p], h.parts[p])
    OBVIOUS
  <2>1. h.sysctl[p] = g.sysctl[p] /\ h.parts[p] = g.parts[p]
    BY <1>4, <1>6, HostNames
  <2> QED BY <2>1 DEF GatherInv
<1> QED BY <1>4, <1>10, <1>11 DEF GatherInv

\* So does a task.
LEMMA TaskAnswers ==
    ASSUME NEW g, NEW cache, GatherInv(g, cache), NEW p \in ProcParts \cup {"boot"}, g.parts[p] = "waiting",
           NEW ss \in [ProcParts -> [step : Nat, responses : Nat, returned : BOOLEAN]],
           \A q \in ProcParts : q # p => ss[q] = g.sysctl[q],
           Commands /\ p \in ProcParts => SysctlAgrees(p, ss[p], "found"),
           NEW h, h = TellTask([g EXCEPT !.sysctl = ss], p)
    PROVE  GatherInv(h, cache)
<1>1. PICK f : f = [g EXCEPT !.sysctl = ss]
  OBVIOUS
<1>2. AllCounted(f) /\ f.parts = g.parts /\ f.known = g.known /\ f.stopped = g.stopped
      /\ f.requests = g.requests /\ f.sysctl = ss
  BY <1>1, SysctlChanges DEF GatherInv
<1>3. h = TellTask(f, p)
  BY <1>1
<1>4. AllCounted(h) /\ h.parts = [g.parts EXCEPT ![p] = "found"] /\ h.known = g.known /\ h.stopped = g.stopped
      /\ h.requests = g.requests /\ h.sysctl = ss
  <2>1. f.parts[p] = "waiting"
    BY <1>2
  <2>2. TaskIsCounted(h, f, p)
    BY <1>2, <1>3, <2>1, TellTaskCounts
  <2> QED BY <1>2, <2>2 DEF TaskIsCounted
<1>5. g.parts \in [Parts -> Answers \cup {"idle", "waiting"}]
  BY DEF GatherInv, AllCounted, TypedAndCounted, Gathering
<1>6. h.parts[p] = "found" /\ (\A q \in Parts : q # p => h.parts[q] = g.parts[q]) /\ p \notin Vendors
  BY <1>4, <1>5, HostNames
<1>7. \A v \in Vendors : h.parts[v] = g.parts[v]
  BY <1>6, HostNames
<1>8. RequestsAgree(h, cache)
  <2>1. h.known \subseteq Vendors
    BY <1>4 DEF AllCounted, TypedAndCounted, Gathering
  <2> QED BY <1>4, <1>7, <2>1, HostNames DEF GatherInv, RequestsAgree
<1>9. Commands => \A q \in ProcParts : SysctlAgrees(q, h.sysctl[q], h.parts[q])
  <2> SUFFICES ASSUME Commands, NEW q \in ProcParts PROVE SysctlAgrees(q, h.sysctl[q], h.parts[q])
    OBVIOUS
  <2>1. CASE q = p
    BY <1>4, <1>6, <2>1
  <2>2. CASE q # p
    <3>1. h.sysctl[q] = g.sysctl[q] /\ h.parts[q] = g.parts[q]
      BY <1>4, <1>6, <2>2, HostNames
    <3> QED BY <3>1 DEF GatherInv
  <2> QED BY <2>1, <2>2
<1> QED BY <1>4, <1>8, <1>9 DEF GatherInv

\* A request that does not answer yet: requests stay open as they were, and none that is new.
LEMMA RequestsGoOn ==
    ASSUME NEW g, NEW cache, GatherInv(g, cache), NEW rs \in [MetadataVendors -> RequestStates],
           \A w \in MetadataVendors : /\ rs[w] = "none" => g.requests[w] = "none"
                                      /\ g.requests[w] = "none" => rs[w] = "none"
                                      /\ rs[w] \in {"sent", "streaming"} => ~g.stopped \/ g.requests[w] \in {"sent", "streaming"},
           NEW h, h = [g EXCEPT !.requests = rs]
    PROVE  GatherInv(h, cache)
<1>1. AllCounted(h) /\ h.parts = g.parts /\ h.known = g.known /\ h.stopped = g.stopped
      /\ h.requests = rs /\ h.sysctl = g.sysctl
  BY RequestsChange DEF GatherInv
<1>2. RequestsAgree(h, cache)
  BY <1>1 DEF GatherInv, RequestsAgree
<1> QED BY <1>1, <1>2 DEF GatherInv

\* Each value of a Mac's is asked for under one name or more.
LEMMA NamesOfSysctl ==
    ASSUME NEW p, NEW f
    PROVE  Len(SysctlNames(f, p)) \in Nat /\ Len(SysctlNames(f, p)) >= 1
           /\ \A i \in 1..Len(SysctlNames(f, p)) : SysctlNames(f, p)[i] \in Nat /\ SysctlNames(f, p)[i] > 0
BY DEF SysctlNames

\* Before the first gathering nothing waits and nothing is counted.
LEMMA NothingAskedYet ==
    /\ \A p \in Parts : NotAsked.parts[p] = "idle"
    /\ \A v \in MetadataVendors : NotAsked.requests[v] = "none"
    /\ NotAsked.known = {} /\ ~NotAsked.stopped /\ NotAsked.vendorsTold = 0 /\ NotAsked.again = 0 /\ NotAsked.tasksTold = 0
    /\ ~NotAsked.systemInfo /\ NotAsked.told = 0
    /\ \A p \in ProcParts : NotAsked.sysctl[p] = [step |-> 1, responses |-> 0, returned |-> FALSE]
    /\ NotAsked.sysctl \in [ProcParts -> [step : Nat, responses : Nat, returned : BOOLEAN]]
<1>1. PICK ss : ss = [p \in ProcParts |-> [step |-> 1, responses |-> 0, returned |-> FALSE]]
  OBVIOUS
<1>2. ss \in [ProcParts -> [step : Nat, responses : Nat, returned : BOOLEAN]]
  BY <1>1
<1>3. NotAsked.sysctl = ss
  BY <1>1 DEF NotAsked
<1>4. \A p \in ProcParts : ss[p] = [step |-> 1, responses |-> 0, returned |-> FALSE]
  BY <1>1
<1> QED BY <1>2, <1>3, <1>4 DEF NotAsked

\* If something waits, a gathering has begun.
LEMMA GatheringIsOn ==
    ASSUME HostInv, (\E p \in Parts : gather.parts[p] = "waiting") \/ (\E v \in MetadataVendors : gather.requests[v] # "none") \/ gathers > 0
    PROVE  gathers > 0 /\ GatherInv(gather, vendorCache)
<1>1. CASE gathers = 0
  <2>1. gather = NotAsked
    BY <1>1 DEF HostInv
  <2> QED BY <1>1, <2>1, NothingAskedYet
<1>2. CASE gathers # 0
  <2>1. gathers \in Nat
    BY HostAssumption DEF HostInv
  <2> QED BY <1>2, <2>1 DEF HostInv
<1> QED BY <1>1, <1>2

\* What a gathering that has begun needs to go on.
LEMMA GatheringGoesOn ==
    ASSUME HostInv, gathers > 0, host' = host, gathers' = gathers, hostDown' \in BOOLEAN,
           vendorCache' \subseteq MetadataVendors \cup {"docker"},
           NEW g, gather' = g, NEW c, vendorCache' = c, GatherInv(g, c)
    PROVE  HostInv'
<1>1. GatherInv(gather, vendorCache)'
  BY DEF GatherInv, RequestsAgree, Commands, SysctlAgrees
<1> QED BY <1>1 DEF HostInv

\* A gathering that begins has counted what is answered at once.
LEMMA GatherFactsStep ==
    ASSUME HostInv, GatherFacts
    PROVE  HostInv'
<1>1. PICK P : P = [p \in Parts |-> CASE ~AtOnce(p) -> "waiting"
                                      [] AtOnce(p) /\ p \in vendorCache \cap host.detects -> "found"
                                      [] OTHER -> "absent"]
  OBVIOUS
<1>2. PICK R : R = [v \in MetadataVendors |-> IF Asked(v) THEN "sent" ELSE "none"]
  OBVIOUS
<1>3. PICK AV : AV = {v \in Vendors : AtOnce(v)}
  OBVIOUS
<1>4. PICK AP : AP = {p \in ProcParts : AtOnce(p)}
  OBVIOUS
<1>5. PICK n : n = Cardinality(AV)
  OBVIOUS
<1>6. PICK m : m = Cardinality(AP)
  OBVIOUS
<1>7. PICK g : g = [NotAsked EXCEPT !.parts = P, !.known = vendorCache, !.vendorsTold = n, !.tasksTold = m, !.requests = R]
  OBVIOUS
<1>8. gather' = g /\ host' = host /\ vendorCache' = vendorCache /\ hostDown' = hostDown /\ gathers' = gathers + 1 /\ gathers < MaxGathers
  BY <1>1, <1>2, <1>3, <1>4, <1>5, <1>6, <1>7, Zenon DEF GatherFacts
<1>9. P \in [Parts -> Answers \cup {"idle", "waiting"}] /\ \A p \in Parts : P[p] # "idle" /\ (P[p] \in Answers <=> AtOnce(p)) /\ (~AtOnce(p) => P[p] = "waiting")
  BY <1>1 DEF Answers
<1>10. R \in [MetadataVendors -> RequestStates] /\ \A v \in MetadataVendors : (Asked(v) => R[v] = "sent") /\ (~Asked(v) => R[v] = "none")
  BY <1>2 DEF RequestStates
<1>11. vendorCache \subseteq Vendors
  BY HostNames DEF HostInv
<1>12. AV \in SUBSET Vendors /\ AP \in SUBSET Tasks
  BY <1>3, <1>4, HostNames
<1>13. n \in Nat /\ m \in Nat
  BY <1>5, <1>6, <1>12, HostNames, FS_Subset, FS_CardinalityType
<1>14. /\ g.parts = P /\ g.known = vendorCache /\ g.vendorsTold = n /\ g.again = 0 /\ g.tasksTold = m /\ g.requests = R
       /\ ~g.stopped /\ ~g.systemInfo /\ g.told = 0 /\ g.sysctl = NotAsked.sysctl
  BY <1>7 DEF NotAsked
<1>15. g \in Gathering
  <2>1. PICK ss \in [ProcParts -> [step : Nat, responses : Nat, returned : BOOLEAN]] : ss = NotAsked.sysctl
    BY NothingAskedYet
  <2>2. g = [parts |-> P, known |-> vendorCache, stopped |-> FALSE, vendorsTold |-> n, again |-> 0, tasksTold |-> m,
             systemInfo |-> FALSE, told |-> 0, requests |-> R, sysctl |-> ss]
    <3>1. ss = [p \in ProcParts |-> [step |-> 1, responses |-> 0, returned |-> FALSE]]
      BY <2>1 DEF NotAsked
    <3> QED BY <1>7, <3>1 DEF NotAsked
  <2> QED BY <1>9, <1>10, <1>11, <1>13, <2>2 DEF Gathering
<1>16. AnsweredVendors(g) = AV
  BY <1>3, <1>9, <1>14, HostNames DEF AnsweredVendors
<1>17. AV # Vendors
  <2>1. PICK v \in MetadataVendors \cup EnvironmentVendors : TRUE
    BY HostAssumption
  <2>2. v \in Vendors /\ v # "docker" /\ v \notin ProcParts
    BY HostAssumption DEF Vendors, ProcParts
  <2>3. ~AtOnce(v)
    BY <2>2 DEF AtOnce
  <2> QED BY <1>3, <2>2, <2>3
<1>25. ~(g.vendorsTold >= Cardinality(Vendors))
  <2>1. n <= Cardinality(Vendors) /\ n # Cardinality(Vendors) /\ Cardinality(Vendors) \in Nat
    BY <1>5, <1>16, <1>17, AnsweredAreFinite
  <2> QED BY <1>13, <1>14, <2>1
<1>18. AnsweredTasks(g) = AP /\ AP # Tasks
  <2>1. ~AtOnce("boot") /\ "boot" \notin ProcParts
    BY DEF AtOnce, ProcParts
  <2>2. "vendors" \notin ProcParts
    BY DEF ProcParts
  <2>3. \A t \in Tasks : t \in AnsweredTasks(g) <=> t \in AP
    <3> SUFFICES ASSUME NEW t \in Tasks PROVE t \in AnsweredTasks(g) <=> t \in AP
      OBVIOUS
    <3>1. CASE t = "vendors"
      BY <1>4, <1>25, <2>2, <3>1 DEF AnsweredTasks
    <3>2. CASE t = "boot"
      BY <1>4, <1>9, <1>14, <2>1, <3>2, HostNames DEF AnsweredTasks
    <3>3. CASE t \in ProcParts
      BY <1>4, <1>9, <1>14, <2>2, <3>3, HostNames DEF AnsweredTasks
    <3> QED BY <3>1, <3>2, <3>3 DEF Tasks
  <2>4. AnsweredTasks(g) = AP
    BY <1>12, <2>3 DEF AnsweredTasks
  <2> QED BY <1>4, <2>1, <2>4, HostNames
<1>19. AllCounted(g)
  BY <1>5, <1>6, <1>9, <1>13, <1>14, <1>15, <1>16, <1>18 DEF AllCounted, TypedAndCounted
<1>20. RequestsAgree(g, vendorCache)
  <2>1. ASSUME NEW v \in MetadataVendors
        PROVE  /\ v \in host.detects /\ v \notin vendorCache /\ P[v] = "waiting" => R[v] # "none"
    <3>1. v \in Parts /\ ~AtOnce(v)
      BY HostAssumption, HostNames DEF AtOnce, ProcParts
    <3> QED BY <1>9, <1>10, <3>1 DEF Asked
  <2>2. ASSUME NEW v \in vendorCache \cap host.detects
        PROVE  /\ P[v] \in {"waiting", "found"} /\ (v = "docker" => P[v] = "found")
               /\ v \in MetadataVendors => R[v] = "none"
    <3>1. v \in Parts
      BY <1>11, HostNames
    <3>2. v = "docker" => AtOnce(v)
      BY DEF AtOnce
    <3> QED BY <1>1, <1>10, <3>1, <3>2 DEF Asked
  <2> QED BY <1>14, <2>1, <2>2 DEF RequestsAgree
<1>21. Commands => \A p \in ProcParts : SysctlAgrees(p, g.sysctl[p], g.parts[p])
  <2> SUFFICES ASSUME Commands, NEW p \in ProcParts PROVE SysctlAgrees(p, g.sysctl[p], g.parts[p])
    OBVIOUS
  <2>1. PICK s : s = [step |-> 1, responses |-> 0, returned |-> FALSE]
    OBVIOUS
  <2>2. g.sysctl[p] = s /\ s.step = 1 /\ s.responses = 0 /\ ~s.returned
    BY <1>14, <2>1, NothingAskedYet
  <2>3. ~AtOnce(p)
    BY DEF AtOnce, Commands, ProcParts
  <2>4. g.parts[p] = "waiting"
    BY <1>9, <1>14, <2>3, HostNames
  <2>5. 1 \in 1..Len(SysctlNames(host.platform, p)) /\ 0 < SysctlNames(host.platform, p)[1]
    BY NamesOfSysctl
  <2> QED BY <2>2, <2>4, <2>5 DEF SysctlAgrees
<1>22. GatherInv(g, vendorCache)
  BY <1>19, <1>20, <1>21 DEF GatherInv
<1>23. gathers' \in 0..MaxGathers /\ gathers' > 0
  BY <1>8, HostAssumption DEF HostInv
<1>24. GatherInv(gather, vendorCache)'
  BY <1>8, <1>22 DEF GatherInv, RequestsAgree, Commands, SysctlAgrees
<1> QED BY <1>8, <1>23, <1>24 DEF HostInv

\* Each of the actions keeps the invariant.
LEMMA ReadProcStep ==
    ASSUME HostInv, NEW p \in ProcParts \cup {"boot"}, NEW readable \in BOOLEAN, ReadProc(p, readable)
    PROVE  HostInv'
<1>1. p \in Parts /\ gather.parts[p] = "waiting" /\ host.platform = "linux"
      /\ host' = host /\ vendorCache' = vendorCache /\ gathers' = gathers
  BY HostNames DEF ReadProc, Waits
<1>2. gathers > 0 /\ GatherInv(gather, vendorCache)
  BY <1>1, GatheringIsOn
<1>3. CASE ~readable /\ p \in {"processors", "memory"}
  <2>1. hostDown' = TRUE /\ gather' = gather
    BY <1>3 DEF ReadProc
  <2> QED BY <1>1, <1>2, <2>1, GatheringGoesOn DEF HostInv
<1>4. CASE ~(~readable /\ p \in {"processors", "memory"})
  <2>1. hostDown' = FALSE /\ gather' = TellTask(gather, p)
    BY <1>4 DEF ReadProc
  <2>2. PICK ss \in [ProcParts -> [step : Nat, responses : Nat, returned : BOOLEAN]] : ss = gather.sysctl
    BY <1>2 DEF GatherInv, AllCounted, TypedAndCounted, Gathering
  <2>3. gather = [gather EXCEPT !.sysctl = ss]
    BY <1>2, <2>2 DEF GatherInv, AllCounted, TypedAndCounted, Gathering
  <2>4. PICK h : h = TellTask(gather, p)
    OBVIOUS
  <2>5. h = TellTask([gather EXCEPT !.sysctl = ss], p)
    BY <2>3, <2>4
  <2>6. ~Commands
    BY <1>1 DEF Commands
  <2>7. GatherInv(h, vendorCache)
    BY <1>1, <1>2, <2>2, <2>5, <2>6, TaskAnswers
  <2> QED BY <1>1, <1>2, <2>1, <2>4, <2>7, GatheringGoesOn DEF HostInv
<1> QED BY <1>3, <1>4

LEMMA NoBootIdStep ==
    ASSUME HostInv, NoBootId
    PROVE  HostInv'
<1>1. "boot" \in Parts /\ gather.parts["boot"] = "waiting" /\ gather' = TellTask(gather, "boot")
      /\ host' = host /\ vendorCache' = vendorCache /\ gathers' = gathers /\ hostDown' = hostDown
  BY HostNames DEF NoBootId, Waits
<1>2. gathers > 0 /\ GatherInv(gather, vendorCache)
  BY <1>1, GatheringIsOn
<1>3. PICK ss \in [ProcParts -> [step : Nat, responses : Nat, returned : BOOLEAN]] : ss = gather.sysctl
  BY <1>2 DEF GatherInv, AllCounted, TypedAndCounted, Gathering
<1>4. gather = [gather EXCEPT !.sysctl = ss]
  BY <1>2, <1>3 DEF GatherInv, AllCounted, TypedAndCounted, Gathering
<1>5. PICK h : h = TellTask(gather, "boot")
  OBVIOUS
<1>6. h = TellTask([gather EXCEPT !.sysctl = ss], "boot") /\ "boot" \notin ProcParts
  BY <1>4, <1>5 DEF ProcParts
<1>7. GatherInv(h, vendorCache)
  BY <1>1, <1>2, <1>3, <1>6, TaskAnswers
<1> QED BY <1>1, <1>2, <1>5, <1>7, GatheringGoesOn DEF HostInv

LEMMA ReadGroupsStep ==
    ASSUME HostInv, NEW a \in Answers, ReadGroups(a)
    PROVE  HostInv'
<1>1. "docker" \in Vendors /\ "docker" \in Parts /\ gather.parts["docker"] = "waiting" /\ gather' = TellVendor(gather, "docker", a)
      /\ host' = host /\ gathers' = gathers /\ hostDown' = hostDown
      /\ vendorCache' = IF a = "found" THEN vendorCache \cup {"docker"} ELSE vendorCache
  BY HostNames DEF ReadGroups, Waits
<1>2. gathers > 0 /\ GatherInv(gather, vendorCache)
  BY <1>1, GatheringIsOn
<1>3. PICK rs \in [MetadataVendors -> RequestStates] : rs = gather.requests
  BY <1>2 DEF GatherInv, AllCounted, TypedAndCounted, Gathering
<1>4. gather = [gather EXCEPT !.requests = rs]
  BY <1>2, <1>3 DEF GatherInv, AllCounted, TypedAndCounted, Gathering
<1>5. PICK h : h = TellVendor(gather, "docker", a)
  OBVIOUS
<1>6. h = TellVendor([gather EXCEPT !.requests = rs], "docker", a)
  BY <1>4, <1>5
<1>7. "docker" \notin gather.known \cap host.detects
  BY <1>1, <1>2 DEF GatherInv, RequestsAgree
<1>8. PICK c : c = vendorCache'
  OBVIOUS
<1>9. vendorCache \subseteq c /\ c \subseteq MetadataVendors \cup {"docker"}
  BY <1>1, <1>8 DEF HostInv
<1>10. "docker" \notin MetadataVendors
  BY HostAssumption
<1>11. GatherInv(h, c)
  BY <1>1, <1>2, <1>3, <1>6, <1>7, <1>9, <1>10, VendorAnswers
<1> QED BY <1>1, <1>2, <1>5, <1>8, <1>9, <1>11, GatheringGoesOn DEF HostInv

LEMMA AnswerLaterStep ==
    ASSUME HostInv, NEW v \in Vendors, NEW a \in Answers, AnswerLater(v, a)
    PROVE  HostInv'
<1>1. v \in Parts /\ gather.parts[v] = "waiting" /\ gather' = TellVendor(gather, v, a) /\ v # "docker"
      /\ host' = host /\ gathers' = gathers /\ hostDown' = hostDown /\ vendorCache' = vendorCache
      /\ (v \in MetadataVendors => gather.requests[v] = "none")
      /\ (v \in host.detects => (v \in MetadataVendors => a = "found"))
  BY HostNames DEF AnswerLater, Waits
<1>2. gathers > 0 /\ GatherInv(gather, vendorCache)
  BY <1>1, GatheringIsOn
<1>3. PICK rs \in [MetadataVendors -> RequestStates] : rs = gather.requests
  BY <1>2 DEF GatherInv, AllCounted, TypedAndCounted, Gathering
<1>4. gather = [gather EXCEPT !.requests = rs]
  BY <1>2, <1>3 DEF GatherInv, AllCounted, TypedAndCounted, Gathering
<1>5. PICK h : h = TellVendor(gather, v, a)
  OBVIOUS
<1>6. h = TellVendor([gather EXCEPT !.requests = rs], v, a)
  BY <1>4, <1>5
<1>7. v \in gather.known \cap host.detects => a = "found"
  BY <1>1, <1>2 DEF GatherInv, RequestsAgree, HostInv
<1>8. /\ \A w \in MetadataVendors : w # v => rs[w] = gather.requests[w]
      /\ v \in MetadataVendors => rs[v] = "none"
  BY <1>1, <1>3
<1>9. GatherInv(h, vendorCache)
  BY <1>1, <1>2, <1>3, <1>6, <1>7, <1>8, VendorAnswers
<1> QED BY <1>1, <1>2, <1>5, <1>9, GatheringGoesOn DEF HostInv

\* A request that ends, or fails, with metadata or without.
LEMMA RequestEnds ==
    ASSUME HostInv, NEW v \in MetadataVendors, gather.requests[v] # "none", NEW a \in Answers,
           NEW r \in RequestStates \ {"sent", "streaming"},
           NEW c, vendorCache' = c, vendorCache \subseteq c, c \subseteq MetadataVendors \cup {"docker"},
           gather' = TellVendor([gather EXCEPT !.requests[v] = r], v, a),
           host' = host /\ gathers' = gathers /\ hostDown' = hostDown
    PROVE  HostInv'
<1>1. gathers > 0 /\ GatherInv(gather, vendorCache)
  BY GatheringIsOn
<1>2. v \in Vendors /\ v \notin gather.known \cap host.detects
  BY <1>1, HostNames DEF GatherInv, RequestsAgree
<1>3. gather.requests \in [MetadataVendors -> RequestStates]
  BY <1>1 DEF GatherInv, AllCounted, TypedAndCounted, Gathering
<1>4. PICK rs \in [MetadataVendors -> RequestStates] : rs = [gather.requests EXCEPT ![v] = r]
  BY <1>3
<1>5. rs[v] = r /\ \A w \in MetadataVendors : w # v => rs[w] = gather.requests[w]
  BY <1>3, <1>4
<1>6. PICK h : h = TellVendor([gather EXCEPT !.requests = rs], v, a)
  OBVIOUS
<1>7. gather' = h
  BY <1>4, <1>6, Zenon
<1>8. GatherInv(h, c)
  BY <1>1, <1>2, <1>5, <1>6, VendorAnswers
<1> QED BY <1>1, <1>7, <1>8, GatheringGoesOn DEF HostInv

LEMMA ResponseEndsStep ==
    ASSUME HostInv, NEW v \in MetadataVendors, NEW quality \in {"valid", "unusable"}, ResponseEnds(v, quality)
    PROVE  HostInv'
<1>1. PICK a \in Answers : a = IF quality = "valid" THEN "found" ELSE "absent"
  BY DEF Answers
<1>2. PICK c : c = vendorCache'
  OBVIOUS
<1>3. vendorCache \subseteq c /\ c \subseteq MetadataVendors \cup {"docker"}
  BY <1>2 DEF HostInv, ResponseEnds, KeptMetadata
<1>4. gather.requests[v] # "none" /\ host' = host /\ gathers' = gathers /\ hostDown' = hostDown
  BY DEF ResponseEnds
<1>5. PICK r : r = IF gather.requests[v] = "streaming" THEN "closing" ELSE "none"
  OBVIOUS
<1>6. r \in RequestStates \ {"sent", "streaming"}
  BY <1>5 DEF RequestStates
<1>7. gather' = TellVendor([gather EXCEPT !.requests[v] = r], v, a)
  BY <1>1, <1>5, Zenon DEF ResponseEnds
<1> QED BY <1>2, <1>3, <1>4, <1>6, <1>7, RequestEnds

LEMMA RequestFailsStep ==
    ASSUME HostInv, NEW v \in MetadataVendors, RequestFails(v)
    PROVE  HostInv'
<1>1. gather.requests[v] # "none" /\ host' = host /\ gathers' = gathers /\ hostDown' = hostDown /\ vendorCache' = vendorCache
  BY DEF RequestFails
<1>2. PICK r : r = IF gather.requests[v] = "streaming" THEN "failed" ELSE "none"
  OBVIOUS
<1>3. r \in RequestStates \ {"sent", "streaming"}
  BY <1>2 DEF RequestStates
<1>4. gather' = TellVendor([gather EXCEPT !.requests[v] = r], v, "absent")
  BY <1>2, Zenon DEF RequestFails
<1>5. "absent" \in Answers /\ vendorCache \subseteq MetadataVendors \cup {"docker"}
  BY DEF Answers, HostInv
<1> QED BY <1>1, <1>3, <1>4, <1>5, RequestEnds

\* One request goes on to another state.
LEMMA RequestMovesOn ==
    ASSUME HostInv, NEW v \in MetadataVendors, NEW state \in RequestStates \ {"none"}, gather.requests[v] # "none",
           state \in {"sent", "streaming"} => gather.requests[v] \in {"sent", "streaming"},
           gather' = [gather EXCEPT !.requests[v] = state],
           host' = host /\ gathers' = gathers /\ hostDown' = hostDown /\ vendorCache' = vendorCache
    PROVE  HostInv'
<1>1. gathers > 0 /\ GatherInv(gather, vendorCache)
  BY GatheringIsOn
<1>2. gather.requests \in [MetadataVendors -> RequestStates]
  BY <1>1 DEF GatherInv, AllCounted, TypedAndCounted, Gathering
<1>3. PICK rs \in [MetadataVendors -> RequestStates] : rs = [gather.requests EXCEPT ![v] = state]
  BY <1>2
<1>4. \A w \in MetadataVendors : rs[w] = IF w = v THEN state ELSE gather.requests[w]
  BY <1>2, <1>3
<1>5. PICK h : h = [gather EXCEPT !.requests = rs]
  OBVIOUS
<1>6. gather' = h
  BY <1>3, <1>5, Zenon
<1>7. GatherInv(h, vendorCache)
  BY <1>1, <1>3, <1>4, <1>5, RequestsGoOn
<1> QED BY <1>1, <1>6, <1>7, GatheringGoesOn DEF HostInv

LEMMA ResponseBeginsStep ==
    ASSUME HostInv, NEW v \in MetadataVendors, ResponseBegins(v)
    PROVE  HostInv'
BY RequestMovesOn DEF ResponseBegins, RequestStates

LEMMA RequestTimesOutStep ==
    ASSUME HostInv, NEW v \in MetadataVendors, RequestTimesOut(v)
    PROVE  HostInv'
<1>1. PICK state : state = Aborted(gather.requests[v])
  OBVIOUS
<1>2. gather.requests[v] \in {"sent", "streaming"} /\ state \in {"aborted", "cut"}
  BY <1>1 DEF RequestTimesOut, Aborted
<1>3. gather' = [gather EXCEPT !.requests[v] = state]
  BY <1>1, Zenon DEF RequestTimesOut
<1>4. host' = host /\ gathers' = gathers /\ hostDown' = hostDown /\ vendorCache' = vendorCache
  BY DEF RequestTimesOut
<1>5. state \in RequestStates \ {"none"}
  BY <1>2 DEF RequestStates
<1> QED BY <1>2, <1>3, <1>4, <1>5, RequestMovesOn

LEMMA AgentLeavesStep ==
    ASSUME HostInv, AgentLeaves
    PROVE  HostInv'
<1>1. gathers > 0 /\ host' = host /\ gathers' = gathers /\ hostDown' = hostDown /\ vendorCache' = vendorCache
  BY DEF AgentLeaves
<1>2. GatherInv(gather, vendorCache)
  BY <1>1, GatheringIsOn
<1>3. gather.requests \in [MetadataVendors -> RequestStates] /\ gather \in Gathering
  BY <1>2 DEF GatherInv, AllCounted, TypedAndCounted, Gathering
<1>4. \A w \in MetadataVendors : /\ Aborted(gather.requests[w]) \in RequestStates \ {"sent", "streaming"}
                                 /\ (Aborted(gather.requests[w]) = "none" <=> gather.requests[w] = "none")
  BY <1>3 DEF Aborted, RequestStates
<1>5. PICK rs : rs = [w \in MetadataVendors |-> Aborted(gather.requests[w])]
  OBVIOUS
<1>6. rs \in [MetadataVendors -> RequestStates]
      /\ \A w \in MetadataVendors : rs[w] \notin {"sent", "streaming"} /\ (rs[w] = "none" => gather.requests[w] = "none")
                                    /\ (gather.requests[w] = "none" => rs[w] = "none")
  BY <1>4, <1>5
<1>7. PICK g : g = [gather EXCEPT !.requests = rs]
  OBVIOUS
<1>8. GatherInv(g, vendorCache)
  BY <1>2, <1>6, <1>7, RequestsGoOn
<1>9. PICK h : h = [g EXCEPT !.stopped = TRUE]
  OBVIOUS
<1>10. gather' = h
  <2>1. gather' = [gather EXCEPT !.stopped = TRUE, !.requests = rs]
    BY <1>5, Zenon DEF AgentLeaves
  <2> QED BY <1>3, <1>7, <1>9, <2>1 DEF Gathering
<1>11. g \in Gathering /\ g.requests = rs
  BY <1>3, <1>6, <1>7 DEF Gathering
<1>12. h \in Gathering /\ h.parts = g.parts /\ h.known = g.known /\ h.stopped
      /\ h.requests = rs /\ h.sysctl = g.sysctl /\ h.vendorsTold = g.vendorsTold /\ h.again = g.again
      /\ h.tasksTold = g.tasksTold /\ h.systemInfo = g.systemInfo /\ h.told = g.told
  BY <1>9, <1>11 DEF Gathering
<1>13. AllCounted(h)
  BY <1>8, <1>12, UncountedChange DEF GatherInv
<1>14. RequestsAgree(h, vendorCache)
  BY <1>6, <1>8, <1>11, <1>12 DEF GatherInv, RequestsAgree
<1>15. GatherInv(h, vendorCache)
  BY <1>8, <1>12, <1>13, <1>14 DEF GatherInv
<1> QED BY <1>1, <1>10, <1>15, GatheringGoesOn DEF HostInv

LEMMA EnvironmentKnownStep ==
    ASSUME HostInv, EnvironmentKnown
    PROVE  HostInv'
<1>1. "environment" \in Parts /\ gather.parts["environment"] = "waiting"
      /\ host' = host /\ gathers' = gathers /\ hostDown' = hostDown /\ vendorCache' = vendorCache
  BY HostNames DEF EnvironmentKnown, Waits
<1>2. gathers > 0 /\ GatherInv(gather, vendorCache)
  BY <1>1, GatheringIsOn
<1>3. PICK h : h = TellFacts([gather EXCEPT !.parts["environment"] = "found"])
  OBVIOUS
<1>4. gather' = h
  BY <1>3, Zenon DEF EnvironmentKnown
<1>5. AllCounted(h) /\ h.parts = [gather.parts EXCEPT !["environment"] = "found"] /\ h.known = gather.known
      /\ h.stopped = gather.stopped /\ h.requests = gather.requests /\ h.sysctl = gather.sysctl
  <2>1. AllCounted(gather)
    BY <1>2 DEF GatherInv
  <2> QED BY <1>1, <1>3, <2>1, EnvironmentCounts
<1>6. gather.parts \in [Parts -> Answers \cup {"idle", "waiting"}] /\ gather.known \subseteq Vendors
  BY <1>2 DEF GatherInv, AllCounted, TypedAndCounted, Gathering
<1>7. \A q \in Parts : q # "environment" => h.parts[q] = gather.parts[q]
  BY <1>5, <1>6
<1>8. (\A v \in Vendors : h.parts[v] = gather.parts[v]) /\ \A p \in ProcParts : h.parts[p] = gather.parts[p]
  <2>1. "environment" \notin Vendors /\ "environment" \notin ProcParts
    BY HostNames DEF ProcParts
  <2> QED BY <1>7, <2>1, HostNames
<1>9. RequestsAgree(h, vendorCache)
  BY <1>2, <1>5, <1>6, <1>8, HostNames DEF GatherInv, RequestsAgree
<1>10. GatherInv(h, vendorCache)
  BY <1>2, <1>5, <1>8, <1>9 DEF GatherInv
<1> QED BY <1>1, <1>2, <1>4, <1>10, GatheringGoesOn DEF HostInv

LEMMA SysctlStep ==
    ASSUME HostInv, NEW p \in ProcParts, NEW outcome \in {"answer", "complaint"}, Sysctl(p, outcome)
    PROVE  HostInv'
<1>1. PICK names : names = SysctlNames(host.platform, p)
  OBVIOUS
<1>2. Len(names) \in Nat /\ \A i \in 1..Len(names) : names[i] \in Nat /\ names[i] > 0
  BY <1>1, NamesOfSysctl
<1>3. PICK s : s = gather.sysctl[p]
  OBVIOUS
<1>4. gathers > 0 /\ Commands /\ s.responses < names[s.step]
      /\ host' = host /\ gathers' = gathers /\ hostDown' = hostDown /\ vendorCache' = vendorCache
  BY <1>1, <1>3 DEF Sysctl, SysctlOpen, Commands
<1>5. GatherInv(gather, vendorCache)
  BY <1>4, GatheringIsOn
<1>6. SysctlAgrees(p, s, gather.parts[p]) /\ s \in [step : Nat, responses : Nat, returned : BOOLEAN]
  BY <1>3, <1>4, <1>5 DEF GatherInv, AllCounted, TypedAndCounted, Gathering
<1>7. PICK responded : responded = [s EXCEPT !.responses = @ + 1]
  OBVIOUS
<1>8. responded \in [step : Nat, responses : Nat, returned : BOOLEAN] /\ responded.step = s.step
      /\ responded.responses = s.responses + 1 /\ responded.returned = s.returned
  BY <1>6, <1>7
<1>9. s.step \in 1..Len(names) /\ names[s.step] \in Nat /\ s.responses \in Nat
      /\ (~s.returned => gather.parts[p] = "waiting") /\ (s.returned => gather.parts[p] # "waiting")
  BY <1>1, <1>2, <1>6 DEF SysctlAgrees
<1>10. gather \in Gathering /\ gather.sysctl \in [ProcParts -> [step : Nat, responses : Nat, returned : BOOLEAN]]
  BY <1>5 DEF GatherInv, AllCounted, TypedAndCounted, Gathering
<1>11. PICK answers \in BOOLEAN : answers = (~s.returned /\ (outcome # "complaint" \/ responded.responses = names[s.step]))
  OBVIOUS
<1>12. gather' = CASE ~answers -> [gather EXCEPT !.sysctl[p] = responded]
                   [] answers /\ s.step < Len(names) ->
                         [gather EXCEPT !.sysctl[p] = [step |-> s.step + 1, responses |-> 0, returned |-> FALSE]]
                   [] OTHER -> TellTask([gather EXCEPT !.sysctl[p] = [responded EXCEPT !.returned = TRUE]], p)
  BY <1>1, <1>3, <1>7, <1>11, Zenon DEF Sysctl
\* One command's state changes, and its part still waits or still does not.
<1>13. ASSUME NEW r \in [step : Nat, responses : Nat, returned : BOOLEAN], SysctlAgrees(p, r, gather.parts[p]),
              gather' = [gather EXCEPT !.sysctl[p] = r]
       PROVE  HostInv'
  <2>1. PICK ss \in [ProcParts -> [step : Nat, responses : Nat, returned : BOOLEAN]] : ss = [gather.sysctl EXCEPT ![p] = r]
    BY <1>10
  <2>2. ss[p] = r /\ \A q \in ProcParts : q # p => ss[q] = gather.sysctl[q]
    BY <1>10, <2>1
  <2>3. PICK h : h = [gather EXCEPT !.sysctl = ss]
    OBVIOUS
  <2>4. gather' = h
    BY <1>13, <2>1, <2>3, Zenon
  <2>5. /\ AllCounted(h) /\ h.parts = gather.parts /\ h.known = gather.known /\ h.stopped = gather.stopped
        /\ h.requests = gather.requests /\ h.sysctl = ss
    BY <1>5, <2>3, SysctlChanges DEF GatherInv
  <2>6. RequestsAgree(h, vendorCache)
    BY <1>5, <2>5 DEF GatherInv, RequestsAgree
  <2>7. \A q \in ProcParts : SysctlAgrees(q, h.sysctl[q], h.parts[q])
    <3> SUFFICES ASSUME NEW q \in ProcParts PROVE SysctlAgrees(q, h.sysctl[q], h.parts[q])
      OBVIOUS
    <3>1. CASE q = p
      BY <1>13, <2>2, <2>5, <3>1
    <3>2. CASE q # p
      BY <1>4, <1>5, <2>2, <2>5, <3>2 DEF GatherInv
    <3> QED BY <3>1, <3>2
  <2>8. GatherInv(h, vendorCache)
    BY <2>5, <2>6, <2>7 DEF GatherInv
  <2> QED BY <1>4, <2>4, <2>8, GatheringGoesOn DEF HostInv
<1>14. CASE ~answers
  <2>1. gather' = [gather EXCEPT !.sysctl[p] = responded]
    BY <1>12, <1>14
  <2>2. ~s.returned => responded.responses < names[s.step]
    <3>1. ~s.returned => responded.responses # names[s.step]
      BY <1>11, <1>14, Zenon
    <3>2. PICK x \in Nat, y \in Nat : x = s.responses /\ y = names[s.step]
      BY <1>9
    <3>3. x < y /\ responded.responses = x + 1
      BY <1>4, <1>8, <3>2
    <3> QED BY <3>1, <3>2, <3>3
  <2>3. SysctlAgrees(p, responded, gather.parts[p])
    BY <1>1, <1>8, <1>9, <2>2 DEF SysctlAgrees
  <2> QED BY <1>8, <1>13, <2>1, <2>3
<1>15. CASE answers /\ s.step < Len(names)
  <2>1. PICK r : r = [step |-> s.step + 1, responses |-> 0, returned |-> FALSE]
    OBVIOUS
  <2>2. gather' = [gather EXCEPT !.sysctl[p] = r]
    BY <1>12, <1>15, <2>1
  <2>3. r \in [step : Nat, responses : Nat, returned : BOOLEAN] /\ r.step = s.step + 1 /\ r.responses = 0 /\ ~r.returned
    BY <1>9, <1>2, <2>1
  <2>4. r.step \in 1..Len(names)
    BY <1>2, <1>9, <1>15, <2>3
  <2>5. names[r.step] > 0
    BY <1>2, <2>4
  <2>6. SysctlAgrees(p, r, gather.parts[p])
    BY <1>1, <1>9, <1>11, <1>15, <2>3, <2>4, <2>5 DEF SysctlAgrees
  <2> QED BY <1>13, <2>2, <2>3, <2>6
<1>16. CASE answers /\ ~(s.step < Len(names))
  <2>1. PICK r : r = [responded EXCEPT !.returned = TRUE]
    OBVIOUS
  <2>2. r \in [step : Nat, responses : Nat, returned : BOOLEAN] /\ r.step = s.step /\ r.returned
    BY <1>8, <2>1
  <2>3. PICK ss \in [ProcParts -> [step : Nat, responses : Nat, returned : BOOLEAN]] : ss = [gather.sysctl EXCEPT ![p] = r]
    BY <1>10, <2>2
  <2>4. ss[p] = r /\ \A q \in ProcParts : q # p => ss[q] = gather.sysctl[q]
    BY <1>10, <2>3
  <2>5. PICK h : h = TellTask([gather EXCEPT !.sysctl = ss], p)
    OBVIOUS
  <2>6. gather' = h
    <3>1. gather' = TellTask([gather EXCEPT !.sysctl[p] = r], p)
      BY <1>12, <1>16, <2>1
    <3> QED BY <2>3, <2>5, <3>1, Zenon
  <2>7. SysctlAgrees(p, ss[p], "found")
    BY <1>1, <1>9, <2>2, <2>4 DEF SysctlAgrees
  <2>8. gather.parts[p] = "waiting"
    BY <1>9, <1>11, <1>16
  <2>9. GatherInv(h, vendorCache)
    BY <1>5, <2>3, <2>4, <2>5, <2>7, <2>8, TaskAnswers
  <2> QED BY <1>4, <2>6, <2>9, GatheringGoesOn DEF HostInv
<1> QED BY <1>14, <1>15, <1>16

\* The first state has the invariant.
LEMMA HostInitial == HostInit => HostInv
<1>1. 0 \in 0..MaxGathers
  BY HostAssumption
<1> SUFFICES ASSUME HostInit PROVE HostInv
  OBVIOUS
<1>2. gathers = 0 /\ ~(gathers > 0)
  BY DEF HostInit
<1>3. host \in Hosts /\ vendorCache = {} /\ gather = NotAsked /\ hostDown \in BOOLEAN
  BY DEF HostInit
<1> QED BY <1>1, <1>2, <1>3 DEF HostInv

\* So has the next.
LEMMA HostStep == HostInv /\ [HostNext]_hostVars => HostInv'
<1> SUFFICES ASSUME HostInv, [HostNext]_hostVars PROVE HostInv'
  OBVIOUS
<1>1. CASE GatherFacts \/ NoBootId \/ AgentLeaves \/ EnvironmentKnown
  BY <1>1, GatherFactsStep, NoBootIdStep, AgentLeavesStep, EnvironmentKnownStep
<1>2. CASE \E part \in ProcParts \cup {"boot"}, readable \in BOOLEAN : ReadProc(part, readable)
  BY <1>2, ReadProcStep
<1>3. CASE \E part \in ProcParts, outcome \in {"answer", "complaint"} : Sysctl(part, outcome)
  BY <1>3, SysctlStep
<1>4. CASE \E answer \in Answers : ReadGroups(answer) \/ \E v \in Vendors : AnswerLater(v, answer)
  BY <1>4, ReadGroupsStep, AnswerLaterStep
<1>5. CASE \E v \in MetadataVendors :
           \/ ResponseBegins(v) \/ RequestFails(v) \/ RequestTimesOut(v)
           \/ \E quality \in {"valid", "unusable"} : ResponseEnds(v, quality)
  BY <1>5, ResponseBeginsStep, RequestFailsStep, RequestTimesOutStep, ResponseEndsStep
<1>6. CASE UNCHANGED hostVars
  BY <1>6 DEF hostVars, HostInv, GatherInv, RequestsAgree, Commands, SysctlAgrees
<1> QED BY <1>1, <1>2, <1>3, <1>4, <1>5, <1>6 DEF HostNext

\* What the invariant says of what is told.
LEMMA HostInvIsCorrect == HostInv => HostFactsCorrect
<1> SUFFICES ASSUME HostInv PROVE HostFactsCorrect
  OBVIOUS
<1>1. CASE gathers = 0
  <2>1. gather = NotAsked
    BY <1>1 DEF HostInv
  <2>2. HostTypeOK
    <3>1. vendorCache \subseteq Vendors
      BY HostNames DEF HostInv
    <3>2. 0 \in 0..Cardinality(Tasks)
      BY AnsweredAreFinite
    <3> QED BY <2>1, <3>1, <3>2, NothingAskedYet DEF HostTypeOK, HostInv
  <2>3. \A p \in Parts : ~Waits(p)
    BY <2>1, NothingAskedYet DEF Waits
  <2> QED BY <1>1, <2>1, <2>2, <2>3, NothingAskedYet, HostNames
          DEF HostFactsCorrect, FactsAreWhole, FactsAreTold, EachWaitEnds, NothingLingers, KnownIsTold
<1>2. CASE gathers > 0
  <2>1. GatherInv(gather, vendorCache)
    BY <1>2 DEF HostInv
  <2>2. gather \in Gathering /\ TypedAndCounted(gather, 0)
    BY <2>1 DEF GatherInv, AllCounted, TypedAndCounted
  <2>3. \A p \in Parts : gather.parts[p] \in Answers \/ gather.parts[p] = "waiting"
    BY <2>2 DEF TypedAndCounted, Gathering
  <2>4. HostTypeOK
    <3>1. vendorCache \subseteq Vendors
      BY HostNames DEF HostInv
    <3>2. {gather.vendorsTold, gather.again} \subseteq Nat /\ gather.tasksTold \in 0..Cardinality(Tasks)
      <4>1. gather.tasksTold \in Nat
        BY <2>2 DEF Gathering
      <4>2. {gather.vendorsTold, gather.again} \subseteq Nat
        BY <2>2 DEF Gathering
      <4> QED BY <2>2, <4>1, <4>2, AnsweredAreFinite DEF TypedAndCounted
    <3> QED BY <2>3, <3>1, <3>2 DEF HostTypeOK, HostInv
  <2>5. FactsAreWhole
    <3>1. gather.told \in {0, 1}
      BY <2>1 DEF GatherInv, AllCounted
    <3>2. gather.told = 1 => \A p \in Parts \ Vendors : gather.parts[p] \in Answers
      BY <2>1, <2>3, WaitingIsUntold DEF GatherInv
    <3>3. ASSUME gather.told = 1
          PROVE  Cardinality({v \in Vendors : gather.parts[v] = "waiting"}) <= gather.again
      <4>1. PICK W : W = {v \in Vendors : gather.parts[v] = "waiting"}
        OBVIOUS
      <4>2. PICK A : A = AnsweredVendors(gather)
        OBVIOUS
      <4>3. W \in SUBSET Vendors /\ A \in SUBSET Vendors /\ W = Vendors \ A
        BY <4>1, <4>2, <2>3, HostNames DEF AnsweredVendors, Answers
      <4>4. IsFiniteSet(W) /\ IsFiniteSet(A) /\ Cardinality(W) \in Nat /\ Cardinality(A) \in Nat
            /\ IsFiniteSet(Vendors) /\ Cardinality(Vendors) \in Nat
        BY <4>3, HostNames, FS_Subset, FS_CardinalityType
      <4>5. Cardinality(W) = Cardinality(Vendors) - Cardinality(A)
        <5>1. Cardinality(Vendors \ A) = Cardinality(Vendors) - Cardinality(Vendors \cap A)
          BY <4>4, FS_Difference
        <5>2. Vendors \cap A = A
          BY <4>3
        <5> QED BY <4>3, <5>1, <5>2
      <4>6. gather.vendorsTold >= Cardinality(Vendors)
        <5>1. gather.systemInfo
          BY <2>1, <3>3 DEF GatherInv, AllCounted
        <5>2. "vendors" \in AnsweredTasks(gather)
          BY <2>1, <5>1, HostNames DEF GatherInv, AllCounted
        <5> QED BY <5>2 DEF AnsweredTasks
      <4>7. gather.vendorsTold = Cardinality(A) + gather.again /\ gather.again \in Nat
        BY <2>2, <4>2 DEF TypedAndCounted, Gathering
      <4> QED BY <4>1, <4>4, <4>5, <4>6, <4>7
    <3> QED BY <3>1, <3>2, <3>3 DEF FactsAreWhole
  <2>6. FactsAreTold
    <3> SUFFICES ASSUME \A p \in Parts : gather.parts[p] # "waiting" PROVE gather.told = 1
      BY DEF FactsAreTold
    <3>1. \A p \in Parts : gather.parts[p] \in Answers
      BY <2>3
    <3>2. AnsweredVendors(gather) = Vendors
      BY <3>1, HostNames DEF AnsweredVendors
    <3>4. gather.vendorsTold >= Cardinality(Vendors)
      BY <2>2, <3>2, AnsweredAreFinite DEF TypedAndCounted, Gathering
    <3>3. AnsweredTasks(gather) = Tasks
      BY <3>1, <3>4, HostNames DEF AnsweredTasks
    <3> QED BY <2>1, <3>1, <3>3, HostNames DEF GatherInv, AllCounted
  <2>7. EachWaitEnds
    <3>1. ASSUME NEW v \in MetadataVendors, Waits(v), Asked(v) PROVE gather.requests[v] # "none"
      BY <2>1, <3>1 DEF GatherInv, RequestsAgree, Waits, Asked
    <3>2. ASSUME Commands, NEW p \in ProcParts, Waits(p) PROVE SysctlOpen(p)
      <4>1. gather.parts[p] = "waiting" /\ ~hostDown
        BY <3>2 DEF Waits
      <4>2. gather.told = 0
        BY <2>1, <4>1, WaitingIsUntold, HostNames DEF GatherInv
      <4>3. SysctlAgrees(p, gather.sysctl[p], gather.parts[p])
        BY <2>1, <3>2 DEF GatherInv
      <4> QED BY <1>2, <3>2, <4>1, <4>2, <4>3 DEF SysctlOpen, SysctlAgrees, Commands
    <3> QED BY <3>1, <3>2 DEF EachWaitEnds, Commands
  <2>8. NothingLingers
    BY <2>1 DEF NothingLingers, GatherInv, RequestsAgree
  <2>9. KnownIsTold
    <3>1. ASSUME NEW v \in gather.known \cap host.detects PROVE gather.parts[v] \in {"found", "waiting"}
      BY <2>1 DEF GatherInv, RequestsAgree
    <3> QED BY <3>1 DEF KnownIsTold
  <2> QED BY <2>4, <2>5, <2>6, <2>7, <2>8, <2>9 DEF HostFactsCorrect
<1>3. gathers \in Nat
  BY HostAssumption DEF HostInv
<1> QED BY <1>1, <1>2, <1>3

\* The agent connects once, when all there is to find out has answered, but for a vendor for each
\* call that another has made too much: whatever of its host's services, files and commands
\* fails, is slow or is aborted, in whatever order (facts.js, system-info.js, utilization/*.js).
THEOREM HostFactsAreCorrect == HostSpec => []HostFactsCorrect
<1>1. HostSpec => []HostInv
  BY HostInitial, HostStep, PTL DEF HostSpec
<1> QED BY <1>1, HostInvIsCorrect, PTL

(***************************************************************************)
(* The log, for any levels, messages and size of the buffer.  What a       *)
(* logger keeps is what it has pushed and what waits, in one sequence: its *)
(* numbers rise, and a key in it is one that has been marked, by which no  *)
(* later message has the same.                                             *)
(***************************************************************************)
\* What a logger has taken: an entry is known by its number and, to be logged once, by a key.
LogEntry == [n : Nat, key : Seq(Nat)]
LoggerRecord ==
    [there : BOOLEAN, level : LogLevels, enabled : BOOLEAN, nested : BOOLEAN, buffer : Seq(LogEntry),
     reading : BOOLEAN, piped : BOOLEAN, out : Seq(LogEntry), written : 0..MaxLogged, lost : SUBSET Nat,
     untold : SUBSET Seq(Nat)]
KeptBy(s) == s.out \o s.buffer

\* One logger: what it has numbered is kept in order, or lost.
OrderedLog(s) ==
    /\ s \in LoggerRecord /\ Len(s.buffer) <= MaxLogBuffer
    /\ \A k \in s.lost : k \in 1..s.written
    /\ \A i \in 1..Len(KeptBy(s)) : KeptBy(s)[i].n \in 1..s.written /\ KeptBy(s)[i].n \notin s.lost
    /\ \A i \in 2..Len(KeptBy(s)) : KeptBy(s)[i - 1].n < KeptBy(s)[i].n
    /\ \A k \in 1..s.written : k \in s.lost \/ \E i \in 1..Len(KeptBy(s)) : KeptBy(s)[i].n = k
    /\ s.reading => s.buffer = <<>>
    /\ ~s.there => KeptBy(s) = <<>> /\ s.lost = {} /\ s.untold = {} /\ ~s.nested

\* A key is one of a message logged once, or once in an interval that has begun.
KeyIsKnown(k, seen, now, ended) ==
    \/ k = <<>>
    \/ Len(k) = 1 /\ k[1] \in seen
    \/ Len(k) = 2 /\ k[1] \in LogLevels /\ (k[2] < ended[k[1]] \/ (k[2] = ended[k[1]] /\ k[1] \in now))

KeysAreKnown(L, seen, now, ended) ==
    \A l \in Loggers : \A i \in 1..Len(KeptBy(L[l])) : KeyIsKnown(KeptBy(L[l])[i].key, seen, now, ended)
KeysAreApart(L) ==
    \A l, m \in Loggers : \A i \in 1..Len(KeptBy(L[l])), j \in 1..Len(KeptBy(L[m])) :
        KeptBy(L[l])[i].key # <<>> /\ KeptBy(L[l])[i].key = KeptBy(L[m])[j].key => l = m /\ i = j
SeenAreTaken(L, seen) ==
    \A v \in seen : \/ \E l \in Loggers : \E i \in 1..Len(KeptBy(L[l])) : KeptBy(L[l])[i].key = <<v>>
                    \/ \E l \in Loggers : <<v>> \in L[l].untold

LogInv ==
    /\ loggers \in [Loggers -> LoggerRecord] /\ \A l \in Loggers : OrderedLog(loggers[l])
    /\ seenMessages \subseteq LogLevels /\ seenPerInterval \subseteq LogLevels /\ threw \subseteq Loggers
    /\ intervals \in [LogLevels -> Nat]
    /\ KeysAreKnown(loggers, seenMessages, seenPerInterval, intervals)
    /\ KeysAreApart(loggers) /\ SeenAreTaken(loggers, seenMessages)
    /\ \A l \in Loggers : loggers[l].nested => l \in threw

\* An entry that is kept is the last one kept.
GrownBy(s, t, key) ==
    /\ Len(KeptBy(t)) = Len(KeptBy(s)) + 1
    /\ \A i \in 1..Len(KeptBy(s)) : KeptBy(t)[i] = KeptBy(s)[i]
    /\ KeptBy(t)[Len(KeptBy(s)) + 1].key = key

-----------------------------------------------------------------------------
\* An entry put behind a buffer is put behind what went out before the buffer.
LEMMA BehindTheBuffer ==
    ASSUME NEW S, NEW o \in Seq(S), NEW b \in Seq(S), NEW e \in S
    PROVE  o \o Append(b, e) = Append(o \o b, e)
<1>1. PICK c : c = o \o b
  OBVIOUS
<1>2. PICK d \in Seq(S) : d = Append(b, e)
  BY AppendProperties
<1>3. PICK x : x = o \o d
  OBVIOUS
<1>4. PICK y : y = Append(c, e)
  OBVIOUS
<1>5. Len(o) \in Nat /\ Len(b) \in Nat
  BY LenProperties
<1>6. c \in Seq(S) /\ Len(c) = Len(o) + Len(b)
      /\ \A i \in 1..Len(o) + Len(b) : c[i] = IF i <= Len(o) THEN o[i] ELSE b[i - Len(o)]
  BY <1>1, ConcatProperties
<1>7. d \in Seq(S) /\ Len(d) = Len(b) + 1 /\ d[Len(b) + 1] = e /\ \A i \in 1..Len(b) : d[i] = b[i]
  BY <1>2, AppendProperties
<1>8. x \in Seq(S) /\ Len(x) = Len(o) + Len(d)
      /\ \A i \in 1..Len(o) + Len(d) : x[i] = IF i <= Len(o) THEN o[i] ELSE d[i - Len(o)]
  BY <1>3, ConcatProperties
<1>9. y \in Seq(S) /\ Len(y) = Len(c) + 1 /\ y[Len(c) + 1] = e /\ \A i \in 1..Len(c) : y[i] = c[i]
  BY <1>4, <1>6, AppendProperties
<1>10. Len(x) = Len(y) /\ Len(x) = Len(o) + Len(b) + 1
  <2>1. Len(x) = Len(o) + (Len(b) + 1)
    BY <1>7, <1>8
  <2>2. Len(y) = (Len(o) + Len(b)) + 1
    BY <1>6, <1>9
  <2> QED BY <2>1, <2>2, <1>5
<1>13. PICK m \in Nat, n \in Nat : m = Len(o) /\ n = Len(b)
  BY <1>5
<1>14. Len(x) = m + n + 1 /\ Len(c) = m + n /\ Len(d) = n + 1
  BY <1>6, <1>7, <1>10, <1>13
<1>11. ASSUME NEW i \in 1..(m + n + 1)
       PROVE  x[i] = y[i]
  <2>1. CASE i \in 1..m
    <3>1. i \in 1..Len(o) + Len(d) /\ i \in 1..Len(o) + Len(b) /\ i \in 1..Len(c) /\ i <= Len(o)
      BY <2>1, <1>13, <1>14
    <3>2. x[i] = o[i]
      BY <3>1, <1>8
    <3>3. c[i] = o[i]
      BY <3>1, <1>6
    <3>4. y[i] = c[i]
      BY <3>1, <1>9
    <3> QED BY <3>2, <3>3, <3>4
  <2>2. CASE i \in (m + 1)..(m + n)
    <3>1. PICK j \in 1..n : j = i - m
      BY <2>2
    <3>2. i \in 1..Len(o) + Len(d) /\ i \in 1..Len(o) + Len(b) /\ i \in 1..Len(c) /\ ~(i <= Len(o)) /\ i - Len(o) = j
      BY <2>2, <3>1, <1>13, <1>14
    <3>3. x[i] = d[j]
      BY <3>2, <1>8
    <3>4. c[i] = b[j]
      BY <3>2, <1>6
    <3>5. y[i] = c[i]
      BY <3>2, <1>9
    <3> QED BY <3>1, <3>3, <3>4, <3>5, <1>7, <1>13
  <2>3. CASE i = m + n + 1
    <3>1. i \in 1..Len(o) + Len(d) /\ ~(i <= Len(o)) /\ i - Len(o) = Len(b) + 1 /\ i = Len(c) + 1
      BY <2>3, <1>13, <1>14
    <3> QED BY <3>1, <1>7, <1>8, <1>9
  <2> QED BY <2>1, <2>2, <2>3
<1>12. x = y
  BY <1>8, <1>9, <1>10, <1>11, <1>14, SeqEqual
<1> QED BY <1>1, <1>2, <1>3, <1>4, <1>12

\* What is kept is a sequence of entries.
LEMMA KeptAreEntries ==
    ASSUME NEW s \in LoggerRecord
    PROVE  KeptBy(s) \in Seq(LogEntry) /\ Len(KeptBy(s)) \in Nat
           /\ \A i \in 1..Len(KeptBy(s)) : KeptBy(s)[i] \in LogEntry
<1>1. s.out \in Seq(LogEntry) /\ s.buffer \in Seq(LogEntry)
  BY DEF LoggerRecord
<1>2. KeptBy(s) \in Seq(LogEntry)
  BY <1>1, ConcatProperties DEF KeptBy
<1> QED BY <1>2, LenProperties, ElementOfSeq

\* To write is to keep the entry last, or to lose it.
LEMMA WriteKeepsOrder ==
    ASSUME NEW s, OrderedLog(s), s.there, s.written < MaxLogged, NEW key \in Seq(Nat), NEW says \in BOOLEAN,
           NEW wanted \in BOOLEAN, NEW t, t = WrittenTo(s, [n |-> 0, key |-> key], says, wanted)
    PROVE  /\ OrderedLog(t) /\ t.nested = s.nested /\ t.there
           /\ GrownBy(s, t, key) \/ (KeptBy(t) = KeptBy(s) /\ key \in t.untold)
           /\ s.untold \subseteq t.untold
<1>1. s \in LoggerRecord /\ s.written \in Nat /\ MaxLogged \in Nat
  BY LogBounds DEF OrderedLog, LoggerRecord
<1>2. PICK n \in Nat : n = s.written + 1
  BY <1>1
<1>3. PICK e : e = [n |-> n, key |-> key]
  OBVIOUS
<1>4. e \in LogEntry /\ e.n = n /\ e.key = key
  BY <1>3 DEF LogEntry
<1>5. n \in 0..MaxLogged /\ n \in 1..MaxLogged
  BY <1>1, <1>2
<1>6. [[n |-> 0, key |-> key] EXCEPT !.n = s.written + 1] = e
  BY <1>2, <1>3
<1>7. s.out \in Seq(LogEntry) /\ s.buffer \in Seq(LogEntry) /\ Len(s.buffer) \in Nat /\ Len(s.out) \in Nat
  BY <1>1, LenProperties DEF LoggerRecord
<1>8. KeptBy(s) \in Seq(LogEntry) /\ Len(KeptBy(s)) \in Nat
  BY <1>1, KeptAreEntries
<1> DEFINE K == KeptBy(s)
<1>9. PICK A : A = Append(K, e)
  OBVIOUS
<1>10. A \in Seq(LogEntry) /\ Len(A) = Len(K) + 1 /\ A[Len(K) + 1] = e /\ \A i \in 1..Len(K) : A[i] = K[i]
  BY <1>4, <1>8, <1>9, AppendProperties
<1>15. PICK w \in Nat : w = s.written
  BY <1>1
<1>16. /\ \A k \in s.lost : k \in 1..w
       /\ \A i \in 1..Len(K) : K[i].n \in 1..w /\ K[i].n \notin s.lost
       /\ \A i \in 2..Len(K) : K[i - 1].n < K[i].n
       /\ \A k \in 1..w : k \in s.lost \/ \E i \in 1..Len(K) : K[i].n = k
  BY <1>15 DEF OrderedLog
<1>17. n = w + 1
  BY <1>2, <1>15
<1>11. ASSUME t \in LoggerRecord, KeptBy(t) = A, t.written = n, t.lost = s.lost, t.untold = s.untold, Len(t.buffer) <= MaxLogBuffer,
              t.reading => t.buffer = <<>>, t.there, t.nested = s.nested
       PROVE  OrderedLog(t) /\ GrownBy(s, t, key)
  <2>1. GrownBy(s, t, key)
    BY <1>4, <1>10, <1>11 DEF GrownBy
  <2>2. \A k \in t.lost : k \in 1..t.written
    BY <1>1, <1>2, <1>11 DEF OrderedLog
  <2>3. \A i \in 1..Len(A) : A[i].n \in 1..n /\ A[i].n \notin s.lost
    <3> SUFFICES ASSUME NEW i \in 1..Len(A) PROVE A[i].n \in 1..n /\ A[i].n \notin s.lost
      OBVIOUS
    <3>1. CASE i \in 1..Len(K)
      <4>1. A[i] = K[i]
        BY <3>1, <1>10
      <4>2. K[i].n \in 1..w /\ K[i].n \notin s.lost
        BY <3>1, <1>16
      <4> QED BY <4>1, <4>2, <1>17
    <3>2. CASE i = Len(K) + 1
      <4>1. A[i].n = n
        BY <3>2, <1>4, <1>10
      <4>2. n \notin s.lost
        BY <1>1, <1>2 DEF OrderedLog
      <4> QED BY <4>1, <4>2, <1>5
    <3> QED BY <3>1, <3>2, <1>8, <1>10
  <2>4. \A i \in 2..Len(A) : A[i - 1].n < A[i].n
    <3> SUFFICES ASSUME NEW i \in 2..Len(A) PROVE A[i - 1].n < A[i].n
      OBVIOUS
    <3>1. CASE i \in 1..Len(K)
      <4>1. i \in 2..Len(K) /\ i - 1 \in 1..Len(K)
        BY <3>1, <1>8
      <4> QED BY <3>1, <4>1, <1>10 DEF OrderedLog
    <3>2. CASE i = Len(K) + 1
      <4>1. i - 1 \in 1..Len(K)
        BY <3>2, <1>8, <1>10
      <4>2. A[i - 1].n \in 1..s.written
        BY <4>1, <1>10 DEF OrderedLog
      <4>3. A[i].n = n
        BY <3>2, <1>4, <1>10
      <4> QED BY <4>2, <4>3, <1>1, <1>2
    <3> QED BY <3>1, <3>2, <1>8, <1>10
  <2>5. \A k \in 1..n : k \in s.lost \/ \E i \in 1..Len(A) : A[i].n = k
    <3> SUFFICES ASSUME NEW k \in 1..n, k \notin s.lost PROVE \E i \in 1..Len(A) : A[i].n = k
      OBVIOUS
    <3>1. CASE k \in 1..s.written
      <4>1. PICK i \in 1..Len(K) : K[i].n = k
        BY <3>1 DEF OrderedLog
      <4>2. i \in 1..Len(A) /\ A[i].n = k
        BY <4>1, <1>8, <1>10
      <4> QED BY <4>2
    <3>2. CASE k = n
      <4>1. Len(K) + 1 \in 1..Len(A)
        BY <1>8, <1>10
      <4>2. A[Len(K) + 1].n = k
        BY <3>2, <1>4, <1>10
      <4> QED BY <4>1, <4>2
    <3> QED BY <3>1, <3>2, <1>1, <1>2
  <2>6. /\ \A i \in 1..Len(KeptBy(t)) : KeptBy(t)[i].n \in 1..t.written /\ KeptBy(t)[i].n \notin t.lost
        /\ \A i \in 2..Len(KeptBy(t)) : KeptBy(t)[i - 1].n < KeptBy(t)[i].n
        /\ \A k \in 1..t.written : k \in t.lost \/ \E i \in 1..Len(KeptBy(t)) : KeptBy(t)[i].n = k
    BY ONLY <2>3, <2>4, <2>5, <1>11
  <2>7. t.reading => t.buffer = <<>>
    BY <1>11
  <2>8. OrderedLog(t)
    BY <2>2, <2>6, <2>7, <1>11 DEF OrderedLog
  <2> QED BY <2>1, <2>8
<1>12. CASE says /\ s.reading
  <2>1. PICK o : o = Append(s.out, e)
    OBVIOUS
  <2>2. o \in Seq(LogEntry)
    BY <2>1, <1>4, <1>7, AppendProperties
  <2>3. t = [s EXCEPT !.written = n, !.out = o, !.reading = wanted]
    BY <1>2, <1>6, <1>12, <2>1 DEF WrittenTo
  <2>4. s.buffer = <<>>
    BY <1>12 DEF OrderedLog
  <2>5. t \in LoggerRecord
    BY <2>2, <2>3, <1>1, <1>5 DEF LoggerRecord
  <2>6. t.out = o /\ t.written = n /\ t.buffer = <<>> /\ t.lost = s.lost /\ t.untold = s.untold /\ t.there = s.there /\ t.nested = s.nested
    BY <2>3, <2>4, <1>1 DEF LoggerRecord
  <2>7. KeptBy(t) = A
    <3>1. K = s.out
      BY <2>4, <1>7, ConcatEmptySeq DEF KeptBy
    <3>2. KeptBy(t) = o
      BY <2>2, <2>6, ConcatEmptySeq DEF KeptBy
    <3> QED BY <3>1, <3>2, <2>1, <1>9
  <2>8. Len(t.buffer) <= MaxLogBuffer
    BY <2>4, <2>6 DEF OrderedLog
  <2> QED BY <1>11, <2>5, <2>6, <2>7, <2>8
<1>13. CASE says /\ ~s.reading /\ Len(s.buffer) < MaxLogBuffer
  <2>1. PICK b : b = Append(s.buffer, e)
    OBVIOUS
  <2>2. b \in Seq(LogEntry) /\ Len(b) = Len(s.buffer) + 1
    BY <2>1, <1>4, <1>7, AppendProperties
  <2>3. t = [s EXCEPT !.written = n, !.buffer = b]
    BY <1>2, <1>6, <1>13, <2>1 DEF WrittenTo
  <2>4. t \in LoggerRecord
    BY <2>2, <2>3, <1>1, <1>5 DEF LoggerRecord
  <2>5. t.out = s.out /\ t.written = n /\ t.buffer = b /\ t.lost = s.lost /\ t.untold = s.untold /\ t.there = s.there /\ t.nested = s.nested
        /\ t.reading = s.reading
    BY <2>3, <1>1 DEF LoggerRecord
  <2>6. KeptBy(t) = A
    <3>1. PICK o \in Seq(LogEntry), c \in Seq(LogEntry) : o = s.out /\ c = s.buffer
      BY <1>7
    <3>2. o \o Append(c, e) = Append(o \o c, e)
      BY <1>4, BehindTheBuffer
    <3> QED BY <3>1, <3>2, <2>1, <2>5, <1>9 DEF KeptBy
  <2>7. Len(t.buffer) <= MaxLogBuffer
    <3>1. PICK k \in Nat : k = Len(s.buffer)
      BY <1>7
    <3>2. MaxLogBuffer \in Nat /\ k < MaxLogBuffer /\ Len(t.buffer) = k + 1
      BY <3>1, <2>2, <2>5, <1>13, LogBounds
    <3> QED BY ONLY <3>1, <3>2
  <2> QED BY <1>11, <1>13, <2>4, <2>5, <2>6, <2>7
<1>14. ASSUME NEW r \in BOOLEAN, r => s.reading,
              t = [s EXCEPT !.written = n, !.lost = @ \cup {n}, !.untold = @ \cup {key}, !.reading = r]
       PROVE  OrderedLog(t) /\ KeptBy(t) = KeptBy(s) /\ key \in t.untold /\ s.untold \subseteq t.untold
              /\ t.nested = s.nested /\ t.there
  <2>1. PICK G : G = s.lost \cup {n}
    OBVIOUS
  <2>13. PICK U : U = s.untold \cup {key}
    OBVIOUS
  <2>2. t = [s EXCEPT !.written = n, !.lost = G, !.untold = U, !.reading = r]
    BY <1>1, <1>14, <2>1, <2>13 DEF LoggerRecord
  <2>3. s.lost \subseteq Nat /\ G \subseteq Nat /\ U \subseteq Seq(Nat)
    BY <2>1, <2>13, <1>1 DEF LoggerRecord
  <2>4. t \in LoggerRecord
    BY <2>2, <2>3, <1>1, <1>5, <1>14 DEF LoggerRecord
  <2>5. t.out = s.out /\ t.written = n /\ t.buffer = s.buffer /\ t.lost = G /\ t.there = s.there /\ t.nested = s.nested
        /\ t.untold = U /\ t.reading = r
    BY <2>2, <1>1 DEF LoggerRecord
  <2>6. KeptBy(t) = K
    BY <2>5 DEF KeptBy
  <2>7. \A k \in G : k \in 1..n
    BY <2>1, <1>16, <1>17
  <2>8. \A i \in 1..Len(K) : K[i].n \in 1..n /\ K[i].n \notin G
    BY <2>1, <1>16, <1>17
  <2>9. \A k \in 1..n : k \in G \/ \E i \in 1..Len(K) : K[i].n = k
    BY <2>1, <1>16, <1>17
  <2>11. /\ \A k \in t.lost : k \in 1..t.written
         /\ \A i \in 1..Len(KeptBy(t)) : KeptBy(t)[i].n \in 1..t.written /\ KeptBy(t)[i].n \notin t.lost
         /\ \A i \in 2..Len(KeptBy(t)) : KeptBy(t)[i - 1].n < KeptBy(t)[i].n
         /\ \A k \in 1..t.written : k \in t.lost \/ \E i \in 1..Len(KeptBy(t)) : KeptBy(t)[i].n = k
    <3>1. t.written = n /\ t.lost = G
      BY <2>5
    <3>2. \A i \in 2..Len(K) : K[i - 1].n < K[i].n
      BY <1>16
    <3> QED BY ONLY <2>6, <2>7, <2>8, <2>9, <3>1, <3>2
  <2>12. Len(t.buffer) <= MaxLogBuffer /\ t.there /\ (t.reading => t.buffer = <<>>)
    BY <2>5, <1>14 DEF OrderedLog
  <2>10. OrderedLog(t)
    BY <2>4, <2>11, <2>12 DEF OrderedLog
  <2> QED BY <2>5, <2>6, <2>10, <2>13
<1>18. CASE says /\ ~s.reading /\ ~(Len(s.buffer) < MaxLogBuffer)
  <2>1. t = Gone(s, [n |-> 0, key |-> key])
    BY <1>18 DEF WrittenTo
  <2>2. t = [s EXCEPT !.written = n, !.lost = @ \cup {n}, !.untold = @ \cup {key}, !.reading = s.reading]
    BY <2>1, <1>1, <1>2 DEF Gone, LoggerRecord
  <2> QED BY <2>2, <1>1, <1>14 DEF LoggerRecord
<1>19. CASE ~says
  <2>1. PICK r \in BOOLEAN : r = (s.reading /\ wanted)
    OBVIOUS
  <2>2. t = [Gone(s, [n |-> 0, key |-> key]) EXCEPT !.reading = @ /\ wanted]
    BY <1>19 DEF WrittenTo
  <2>3. t = [s EXCEPT !.written = n, !.lost = @ \cup {n}, !.untold = @ \cup {key}, !.reading = r]
    BY <2>1, <2>2, <1>1, <1>2 DEF Gone, LoggerRecord
  <2> QED BY <2>1, <2>3, <1>14
<1> QED BY <1>12, <1>13, <1>18, <1>19

\* A logger that keeps what it has kept is still in order.
LEMMA SameKeepsOrder ==
    ASSUME NEW s, OrderedLog(s), NEW t \in LoggerRecord, KeptBy(t) = KeptBy(s), t.written = s.written,
           t.lost = s.lost, Len(t.buffer) <= MaxLogBuffer, t.reading => t.buffer = <<>>, t.there
    PROVE  OrderedLog(t)
<1>1. /\ \A k \in t.lost : k \in 1..t.written
      /\ \A i \in 1..Len(KeptBy(t)) : KeptBy(t)[i].n \in 1..t.written /\ KeptBy(t)[i].n \notin t.lost
      /\ \A i \in 2..Len(KeptBy(t)) : KeptBy(t)[i - 1].n < KeptBy(t)[i].n
      /\ \A k \in 1..t.written : k \in t.lost \/ \E i \in 1..Len(KeptBy(t)) : KeptBy(t)[i].n = k
  BY DEF OrderedLog
<1> QED BY <1>1 DEF OrderedLog

\* Reading moves the buffer out and keeps all of it.
LEMMA ReadKeepsOrder ==
    ASSUME NEW s, OrderedLog(s), s.there, NEW wanted \in BOOLEAN, NEW t,
           t = IF s.buffer # <<>> THEN [s EXCEPT !.out = s.out \o s.buffer, !.buffer = <<>>, !.reading = wanted]
               ELSE [s EXCEPT !.reading = TRUE]
    PROVE  OrderedLog(t) /\ KeptBy(t) = KeptBy(s) /\ t.untold = s.untold /\ t.nested = s.nested
<1>1. s \in LoggerRecord /\ s.out \in Seq(LogEntry) /\ s.buffer \in Seq(LogEntry)
  BY DEF OrderedLog, LoggerRecord
<1>2. CASE s.buffer # <<>>
  <2>1. PICK o : o = s.out \o s.buffer
    OBVIOUS
  <2>2. o \in Seq(LogEntry)
    BY <2>1, <1>1, ConcatProperties
  <2>3. t = [s EXCEPT !.out = o, !.buffer = <<>>, !.reading = wanted]
    BY <1>2, <2>1
  <2>4. <<>> \in Seq(LogEntry) /\ Len(<<>>) = 0
    BY EmptySeq
  <2>5. t \in LoggerRecord
    BY <1>1, <2>2, <2>3, <2>4 DEF LoggerRecord
  <2>6. t.out = o /\ t.buffer = <<>> /\ t.lost = s.lost /\ t.untold = s.untold /\ t.nested = s.nested /\ t.there = s.there /\ t.written = s.written
    BY <1>1, <2>3 DEF LoggerRecord
  <2>7. KeptBy(t) = KeptBy(s)
    BY <2>1, <2>2, <2>6, ConcatEmptySeq DEF KeptBy
  <2>8. Len(t.buffer) <= MaxLogBuffer
    BY <2>4, <2>6, LogBounds
  <2> QED BY <2>5, <2>6, <2>7, <2>8, SameKeepsOrder
<1>3. CASE s.buffer = <<>>
  <2>1. t = [s EXCEPT !.reading = TRUE]
    BY <1>3
  <2>2. t \in LoggerRecord
    BY <1>1, <2>1 DEF LoggerRecord
  <2>3. t.out = s.out /\ t.buffer = s.buffer /\ t.lost = s.lost /\ t.untold = s.untold /\ t.nested = s.nested /\ t.there = s.there /\ t.written = s.written
    BY <1>1, <2>1 DEF LoggerRecord
  <2>4. KeptBy(t) = KeptBy(s)
    BY <2>3 DEF KeptBy
  <2>5. Len(t.buffer) <= MaxLogBuffer
    BY <2>3 DEF OrderedLog
  <2> QED BY <2>2, <2>3, <2>4, <2>5, <1>3, SameKeepsOrder
<1> QED BY <1>2, <1>3

-----------------------------------------------------------------------------
KeysAgree(L, seen, now, ended) ==
    KeysAreKnown(L, seen, now, ended) /\ KeysAreApart(L) /\ SeenAreTaken(L, seen)

\* As long as nothing new is kept, the keys agree as before.
LEMMA KeysStay ==
    ASSUME NEW L, NEW seen, NEW now, NEW ended, KeysAgree(L, seen, now, ended), NEW M,
           \A l \in Loggers : KeptBy(M[l]) = KeptBy(L[l]) /\ L[l].untold \subseteq M[l].untold
    PROVE  KeysAgree(M, seen, now, ended)
<1>1. KeysAreKnown(M, seen, now, ended)
  BY DEF KeysAgree, KeysAreKnown
<1>2. KeysAreApart(M)
  <2> SUFFICES ASSUME NEW m \in Loggers, NEW n \in Loggers,
                      NEW i \in 1..Len(KeptBy(M[m])), NEW j \in 1..Len(KeptBy(M[n])),
                      KeptBy(M[m])[i].key # <<>>, KeptBy(M[m])[i].key = KeptBy(M[n])[j].key
               PROVE  m = n /\ i = j
    BY DEF KeysAreApart
  <2>1. KeptBy(M[m]) = KeptBy(L[m]) /\ KeptBy(M[n]) = KeptBy(L[n])
    OBVIOUS
  <2>2. KeysAreApart(L)
    BY DEF KeysAgree
  <2>3. i \in 1..Len(KeptBy(L[m])) /\ j \in 1..Len(KeptBy(L[n]))
    BY <2>1
  <2>4. KeptBy(L[m])[i].key # <<>> /\ KeptBy(L[m])[i].key = KeptBy(L[n])[j].key
    BY <2>1
  <2> QED BY ONLY <2>2, <2>3, <2>4 DEF KeysAreApart
<1>3. SeenAreTaken(M, seen)
  <2> SUFFICES ASSUME NEW v \in seen
               PROVE  \/ \E l \in Loggers : \E i \in 1..Len(KeptBy(M[l])) : KeptBy(M[l])[i].key = <<v>>
                      \/ \E l \in Loggers : <<v>> \in M[l].untold
    BY DEF SeenAreTaken
  <2>1. \/ \E l \in Loggers : \E i \in 1..Len(KeptBy(L[l])) : KeptBy(L[l])[i].key = <<v>>
        \/ \E l \in Loggers : <<v>> \in L[l].untold
    BY DEF KeysAgree, SeenAreTaken
  <2> QED BY <2>1
<1> QED BY <1>1, <1>2, <1>3 DEF KeysAgree

\* A key nobody has, known from now on; and keys that go on being known.
KeyIsNew(key, seen, now, ended, seen2, now2) ==
    /\ key \in Seq(Nat)
    /\ key = <<>> \/ ~KeyIsKnown(key, seen, now, ended)
    /\ KeyIsKnown(key, seen2, now2, ended)
    /\ \A v \in seen2 : v \in seen \/ key = <<v>>
StayKnown(seen, now, ended, seen2, now2) ==
    \A k : KeyIsKnown(k, seen, now, ended) => KeyIsKnown(k, seen2, now2, ended)

\* A key is added that nobody has kept.
LEMMA KeyIsAdded ==
    ASSUME NEW L, NEW seen, NEW now, NEW ended, KeysAgree(L, seen, now, ended), NEW M, NEW l \in Loggers, NEW key,
           \A m \in Loggers : m # l => M[m] = L[m],
           GrownBy(L[l], M[l], key), L[l].untold \subseteq M[l].untold,
           Len(KeptBy(L[l])) \in Nat,
           NEW seen2, NEW now2, KeyIsNew(key, seen, now, ended, seen2, now2), StayKnown(seen, now, ended, seen2, now2)
    PROVE  KeysAgree(M, seen2, now2, ended)
<1> DEFINE s == L[l]
           t == M[l]
           N == Len(KeptBy(s)) + 1
<1>1. Len(KeptBy(t)) = N /\ KeptBy(t)[N].key = key /\ \A i \in 1..Len(KeptBy(s)) : KeptBy(t)[i] = KeptBy(s)[i]
  BY DEF GrownBy
<1>2. \A i \in 1..N : i = N \/ i \in 1..Len(KeptBy(s))
  OBVIOUS
<1>3. N \in 1..N
  OBVIOUS
<1>4. \A m \in Loggers : \A i \in 1..Len(KeptBy(M[m])) :
          (m = l /\ i = N) \/ (i \in 1..Len(KeptBy(L[m])) /\ KeptBy(M[m])[i] = KeptBy(L[m])[i])
  BY <1>1, <1>2
<1>5. \A m \in Loggers : \A i \in 1..Len(KeptBy(L[m])) :
          i \in 1..Len(KeptBy(M[m])) /\ KeptBy(M[m])[i] = KeptBy(L[m])[i]
  BY <1>1
<1>6. KeysAreKnown(M, seen2, now2, ended)
  <2> SUFFICES ASSUME NEW m \in Loggers, NEW i \in 1..Len(KeptBy(M[m]))
               PROVE  KeyIsKnown(KeptBy(M[m])[i].key, seen2, now2, ended)
    BY DEF KeysAreKnown
  <2>1. CASE m = l /\ i = N
    BY <2>1, <1>1 DEF KeyIsNew
  <2>2. CASE i \in 1..Len(KeptBy(L[m])) /\ KeptBy(M[m])[i] = KeptBy(L[m])[i]
    BY <2>2 DEF KeysAgree, KeysAreKnown, StayKnown
  <2> QED BY <2>1, <2>2, <1>4
<1>7. KeysAreApart(M)
  <2> SUFFICES ASSUME NEW m \in Loggers, NEW n \in Loggers,
                      NEW i \in 1..Len(KeptBy(M[m])), NEW j \in 1..Len(KeptBy(M[n])),
                      KeptBy(M[m])[i].key # <<>>, KeptBy(M[m])[i].key = KeptBy(M[n])[j].key
               PROVE  m = n /\ i = j
    BY DEF KeysAreApart
  <2>1. ASSUME NEW o \in Loggers, NEW x \in 1..Len(KeptBy(L[o])), KeptBy(L[o])[x].key = key
        PROVE  key = <<>>
    BY <2>1 DEF KeysAgree, KeysAreKnown, KeyIsNew
  <2>2. CASE (m = l /\ i = N) /\ (n = l /\ j = N)
    BY <2>2
  <2>3. CASE (m = l /\ i = N) /\ (j \in 1..Len(KeptBy(L[n])) /\ KeptBy(M[n])[j] = KeptBy(L[n])[j])
    BY <2>1, <2>3, <1>1
  <2>4. CASE (n = l /\ j = N) /\ (i \in 1..Len(KeptBy(L[m])) /\ KeptBy(M[m])[i] = KeptBy(L[m])[i])
    BY <2>1, <2>4, <1>1
  <2>5. CASE /\ i \in 1..Len(KeptBy(L[m])) /\ KeptBy(M[m])[i] = KeptBy(L[m])[i]
             /\ j \in 1..Len(KeptBy(L[n])) /\ KeptBy(M[n])[j] = KeptBy(L[n])[j]
    BY <2>5 DEF KeysAgree, KeysAreApart
  <2> QED BY <2>2, <2>3, <2>4, <2>5, <1>4
<1>8. SeenAreTaken(M, seen2)
  <2> SUFFICES ASSUME NEW v \in seen2
               PROVE  \/ \E m \in Loggers : \E i \in 1..Len(KeptBy(M[m])) : KeptBy(M[m])[i].key = <<v>>
                      \/ \E m \in Loggers : <<v>> \in M[m].untold
    BY DEF SeenAreTaken
  <2>1. CASE key = <<v>>
    BY <2>1, <1>1, <1>3
  <2>2. CASE v \in seen
    <3>1. \/ \E m \in Loggers : \E i \in 1..Len(KeptBy(L[m])) : KeptBy(L[m])[i].key = <<v>>
          \/ \E m \in Loggers : <<v>> \in L[m].untold
      BY <2>2 DEF KeysAgree, SeenAreTaken
    <3>2. CASE \E m \in Loggers : \E i \in 1..Len(KeptBy(L[m])) : KeptBy(L[m])[i].key = <<v>>
      BY <3>2, <1>5
    <3>3. CASE \E m \in Loggers : <<v>> \in L[m].untold
      BY <3>3
    <3> QED BY <3>1, <3>2, <3>3
  <2> QED BY <2>1, <2>2 DEF KeyIsNew
<1> QED BY <1>6, <1>7, <1>8 DEF KeysAgree

\* A key that went nowhere counts as taken.
LEMMA KeyIsLost ==
    ASSUME NEW L, NEW seen, NEW now, NEW ended, KeysAgree(L, seen, now, ended), NEW M, NEW l \in Loggers,
           NEW key, \A m \in Loggers : KeptBy(M[m]) = KeptBy(L[m]) /\ L[m].untold \subseteq M[m].untold,
           key \in M[l].untold, NEW seen2, NEW now2, KeyIsNew(key, seen, now, ended, seen2, now2),
           StayKnown(seen, now, ended, seen2, now2)
    PROVE  KeysAgree(M, seen2, now2, ended)
<1>4. KeysAgree(M, seen, now, ended)
  BY KeysStay
<1>1. KeysAreKnown(M, seen2, now2, ended)
  BY <1>4 DEF KeysAgree, KeysAreKnown, StayKnown
<1>2. KeysAreApart(M)
  BY <1>4 DEF KeysAgree
<1>3. SeenAreTaken(M, seen2)
  <2> SUFFICES ASSUME NEW v \in seen2
               PROVE  \/ \E m \in Loggers : \E i \in 1..Len(KeptBy(M[m])) : KeptBy(M[m])[i].key = <<v>>
                      \/ \E m \in Loggers : <<v>> \in M[m].untold
    BY DEF SeenAreTaken
  <2>1. CASE key = <<v>>
    BY <2>1
  <2>2. CASE v \in seen
    <3>1. \/ \E m \in Loggers : \E i \in 1..Len(KeptBy(L[m])) : KeptBy(L[m])[i].key = <<v>>
          \/ \E m \in Loggers : <<v>> \in L[m].untold
      BY <2>2 DEF KeysAgree, SeenAreTaken
    <3> QED BY <3>1
  <2> QED BY <2>1, <2>2 DEF KeyIsNew
<1> QED BY <1>1, <1>2, <1>3 DEF KeysAgree

\* What is known stays known when more is.
LEMMA MoreIsKnown ==
    ASSUME NEW seen, NEW now, NEW ended, NEW seen2, seen \subseteq seen2, NEW now2, now \subseteq now2
    PROVE  StayKnown(seen, now, ended, seen2, now2)
BY DEF KeyIsKnown, StayKnown

\* A message that may be logged has a key that nobody has, and that is known afterwards.
LEMMA OnceKeyIsNew ==
    ASSUME LogInv, NEW level \in LogLevels, NEW mode \in LogModes,
           ~(mode = "once" /\ level \in seenMessages), ~(mode = "oncePer" /\ level \in seenPerInterval),
           NEW key, key = OnceKey(mode, level),
           NEW seen2, seen2 = seenMessages \cup IF mode = "once" THEN {level} ELSE {},
           NEW now2, now2 = seenPerInterval \cup IF mode = "oncePer" THEN {level} ELSE {}
    PROVE  KeyIsNew(key, seenMessages, seenPerInterval, intervals, seen2, now2)
<1>1. level \in Nat /\ intervals[level] \in Nat
  BY LogBounds DEF LogInv
<1>2. CASE mode = "always"
  <2>1. key = <<>> /\ seen2 = seenMessages
    BY <1>2 DEF OnceKey
  <2> QED BY <2>1 DEF KeyIsKnown, KeyIsNew
<1>3. CASE mode = "once"
  <2>1. key = <<level>> /\ level \notin seenMessages /\ seen2 = seenMessages \cup {level}
    BY <1>3 DEF OnceKey
  <2>2. Len(key) = 1 /\ key[1] = level /\ key \in Seq(Nat)
    BY <2>1, <1>1
  <2> QED BY <2>1, <2>2 DEF KeyIsKnown, KeyIsNew
<1>4. CASE mode = "oncePer"
  <2>1. key = <<level, intervals[level]>> /\ level \notin seenPerInterval /\ seen2 = seenMessages
        /\ now2 = seenPerInterval \cup {level}
    BY <1>4 DEF OnceKey
  <2>2. Len(key) = 2 /\ key[1] = level /\ key[2] = intervals[level] /\ key \in Seq(Nat)
    BY <2>1, <1>1
  <2>3. KeyIsKnown(key, seen2, now2, intervals)
    BY <2>1, <2>2 DEF KeyIsKnown
  <2>4. ~KeyIsKnown(key, seenMessages, seenPerInterval, intervals)
    <3>1. key # <<>>
      BY <2>2
    <3>2. ~(intervals[level] < intervals[level])
      BY <1>1
    <3> QED BY <3>1, <3>2, <2>1, <2>2 DEF KeyIsKnown
  <2> QED BY <2>1, <2>2, <2>3, <2>4 DEF KeyIsNew
<1> QED BY <1>2, <1>3, <1>4 DEF LogModes

-----------------------------------------------------------------------------
\* One logger changes and is in order.
LoggerIsNow(M, L, l, t) ==
    /\ M \in [Loggers -> LoggerRecord] /\ \A m \in Loggers : OrderedLog(M[m])
    /\ M[l] = t /\ \A m \in Loggers : m # l => M[m] = L[m]

LEMMA LoggerGoesOn ==
    ASSUME LogInv, NEW l \in Loggers, NEW t, OrderedLog(t)
    PROVE  LoggerIsNow([loggers EXCEPT ![l] = t], loggers, l, t)
<1>0. PICK M : M = [loggers EXCEPT ![l] = t]
  OBVIOUS
<1>1. t \in LoggerRecord /\ loggers \in [Loggers -> LoggerRecord]
  BY DEF OrderedLog, LogInv
<1>2. M \in [Loggers -> LoggerRecord] /\ M[l] = t /\ \A m \in Loggers : m # l => M[m] = loggers[m]
  BY <1>0, <1>1
<1>3. \A m \in Loggers : OrderedLog(M[m])
  BY <1>2 DEF LogInv
<1> QED BY <1>0, <1>2, <1>3 DEF LoggerIsNow

LogParts(M, seen, now, ended, thrown) ==
    /\ M \in [Loggers -> LoggerRecord] /\ \A l \in Loggers : OrderedLog(M[l])
    /\ seen \subseteq LogLevels /\ now \subseteq LogLevels /\ thrown \subseteq Loggers
    /\ ended \in [LogLevels -> Nat] /\ KeysAgree(M, seen, now, ended)
    /\ \A l \in Loggers : M[l].nested => l \in thrown

\* The next state has the invariant if its values have the parts of it.
LEMMA PartsOfNext ==
    ASSUME NEW M, loggers' = M, NEW seen, seenMessages' = seen, NEW now, seenPerInterval' = now,
           NEW ended, intervals' = ended, NEW thrown, threw' = thrown, LogParts(M, seen, now, ended, thrown)
    PROVE  LogInv'
<1>1. KeysAreKnown(M, seen, now, ended) /\ KeysAreApart(M) /\ SeenAreTaken(M, seen)
  BY DEF LogParts, KeysAgree
<1>2. KeysAreKnown(loggers, seenMessages, seenPerInterval, intervals)'
  BY <1>1
<1>3. KeysAreApart(loggers)' /\ SeenAreTaken(loggers, seenMessages)'
  BY <1>1
<1>4. (\A l \in Loggers : OrderedLog(loggers[l]))' /\ (loggers \in [Loggers -> LoggerRecord])'
      /\ (\A l \in Loggers : loggers[l].nested => l \in threw)'
  BY DEF LogParts
<1>5. (seenMessages \subseteq LogLevels /\ seenPerInterval \subseteq LogLevels /\ threw \subseteq Loggers
       /\ intervals \in [LogLevels -> Nat])'
  BY DEF LogParts
<1> QED BY <1>2, <1>3, <1>4, <1>5 DEF LogInv

\* Each of the actions keeps the invariant.
LEMMA CreateLoggerStep ==
    ASSUME LogInv, NEW level \in LogLevels, NEW enabled \in BOOLEAN, CreateLogger(level, enabled)
    PROVE  LogInv'
<1>1. PICK t : t = NewLogger(level, enabled)
  OBVIOUS
<1>2. <<>> \in Seq(LogEntry) /\ Len(<<>>) = 0 /\ 0 \in 0..MaxLogged /\ 0 <= MaxLogBuffer
  BY EmptySeq, LogBounds
<1>3. t \in LoggerRecord /\ t.out = <<>> /\ t.buffer = <<>> /\ t.lost = {} /\ t.untold = {} /\ ~t.nested /\ t.there
      /\ ~t.reading /\ t.written = 0
  BY <1>1, <1>2 DEF NewLogger, LoggerRecord
<1>4. KeptBy(t) = <<>>
  BY <1>2, <1>3, ConcatEmptySeq DEF KeptBy
<1>5. OrderedLog(t)
  BY <1>2, <1>3, <1>4 DEF OrderedLog
<1>6. PICK M : M = [loggers EXCEPT !["agent"] = t]
  OBVIOUS
<1>7. "agent" \in Loggers
  BY DEF Loggers
<1>8. KeptBy(loggers["agent"]) = <<>> /\ loggers["agent"].untold = {}
  BY <1>7 DEF LogInv, OrderedLog, CreateLogger
<1>9. /\ M \in [Loggers -> LoggerRecord] /\ \A m \in Loggers : OrderedLog(M[m])
      /\ M["agent"] = t /\ \A m \in Loggers : m # "agent" => M[m] = loggers[m]
  <2>1. LoggerIsNow([loggers EXCEPT !["agent"] = t], loggers, "agent", t)
    BY <1>5, <1>7, LoggerGoesOn
  <2> QED BY <2>1, <1>6 DEF LoggerIsNow
<1>10. KeysAgree(M, seenMessages, seenPerInterval, intervals)
  <2>1. KeysAgree(loggers, seenMessages, seenPerInterval, intervals)
    BY DEF LogInv, KeysAgree
  <2>2. \A m \in Loggers : KeptBy(M[m]) = KeptBy(loggers[m]) /\ loggers[m].untold \subseteq M[m].untold
    BY <1>4, <1>8, <1>9
  <2> QED BY <2>1, <2>2, KeysStay
<1>11. LogParts(M, seenMessages, seenPerInterval, intervals, threw)
  BY <1>3, <1>9, <1>10 DEF LogParts, LogInv
<1>12. loggers' = M /\ seenMessages' = seenMessages /\ seenPerInterval' = seenPerInterval
       /\ intervals' = intervals /\ threw' = threw
  BY <1>1, <1>6 DEF CreateLogger
<1> QED BY <1>11, <1>12, PartsOfNext

LEMMA ReadLogStep ==
    ASSUME LogInv, NEW l \in Loggers, NEW wanted \in BOOLEAN, ReadLog(l, wanted)
    PROVE  LogInv'
<1>1. PICK s : s = loggers[l]
  OBVIOUS
<1>2. PICK t : t = IF s.buffer # <<>> THEN [s EXCEPT !.out = s.out \o s.buffer, !.buffer = <<>>, !.reading = wanted]
                   ELSE [s EXCEPT !.reading = TRUE]
  OBVIOUS
<1>3. OrderedLog(s) /\ s.there
  BY <1>1 DEF LogInv, ReadLog
<1>4. OrderedLog(t) /\ KeptBy(t) = KeptBy(s) /\ t.untold = s.untold /\ t.nested = s.nested
  BY <1>2, <1>3, ReadKeepsOrder
<1>5. PICK M : M = [loggers EXCEPT ![l] = t]
  OBVIOUS
<1>6. /\ M \in [Loggers -> LoggerRecord] /\ \A m \in Loggers : OrderedLog(M[m])
      /\ M[l] = t /\ \A m \in Loggers : m # l => M[m] = loggers[m]
  <2>1. LoggerIsNow([loggers EXCEPT ![l] = t], loggers, l, t)
    BY <1>4, LoggerGoesOn
  <2> QED BY <2>1, <1>5 DEF LoggerIsNow
<1>7. KeysAgree(M, seenMessages, seenPerInterval, intervals)
  <2>1. KeysAgree(loggers, seenMessages, seenPerInterval, intervals)
    BY DEF LogInv, KeysAgree
  <2>2. \A m \in Loggers : KeptBy(M[m]) = KeptBy(loggers[m]) /\ loggers[m].untold \subseteq M[m].untold
    BY <1>1, <1>4, <1>6
  <2> QED BY <2>1, <2>2, KeysStay
<1>8. LogParts(M, seenMessages, seenPerInterval, intervals, threw)
  BY <1>1, <1>4, <1>6, <1>7 DEF LogParts, LogInv
<1>9. loggers' = M /\ seenMessages' = seenMessages /\ seenPerInterval' = seenPerInterval
      /\ intervals' = intervals /\ threw' = threw
  BY <1>1, <1>2, <1>5, Zenon DEF ReadLog
<1> QED BY <1>8, <1>9, PartsOfNext

LEMMA EndIntervalStep ==
    ASSUME LogInv, NEW level \in LogLevels, EndInterval(level)
    PROVE  LogInv'
<1>1. PICK e : e = [intervals EXCEPT ![level] = @ + 1]
  OBVIOUS
<1>2. PICK now : now = seenPerInterval \ {level}
  OBVIOUS
<1>3. intervals \in [LogLevels -> Nat]
  BY DEF LogInv
<1>4. e \in [LogLevels -> Nat] /\ e[level] = intervals[level] + 1 /\ \A v \in LogLevels : v # level => e[v] = intervals[v]
  BY <1>1, <1>3
<1>5. KeysAreKnown(loggers, seenMessages, now, e)
  <2> SUFFICES ASSUME NEW m \in Loggers, NEW i \in 1..Len(KeptBy(loggers[m]))
               PROVE  KeyIsKnown(KeptBy(loggers[m])[i].key, seenMessages, now, e)
    BY DEF KeysAreKnown
  <2>1. PICK k : k = KeptBy(loggers[m])[i].key
    OBVIOUS
  <2>2. KeyIsKnown(k, seenMessages, seenPerInterval, intervals)
    BY <2>1 DEF LogInv, KeysAreKnown
  <2>3. k \in Seq(Nat)
    <3>1. loggers[m] \in LoggerRecord
      BY DEF LogInv
    <3> QED BY <2>1, <3>1, KeptAreEntries DEF LogEntry
  <2>4. CASE Len(k) = 2 /\ k[1] \in LogLevels
    <3>1. k[2] \in Nat
      <4>1. k \in [1..2 -> Nat]
        BY <2>3, <2>4, LenProperties
      <4> QED BY <4>1
    <3>2. k # <<>>
      <4>1. Len(<<>>) = 0
        OBVIOUS
      <4> QED BY ONLY <2>4, <4>1
    <3>3. CASE k[1] = level
      <4>1. intervals[level] \in Nat
        BY <1>3
      <4>2. k[2] < intervals[level] \/ k[2] = intervals[level]
        BY <2>2, <2>4, <3>2, <3>3 DEF KeyIsKnown
      <4>3. k[2] < e[level]
        BY <4>1, <4>2, <3>1, <1>4
      <4> QED BY <2>1, <2>4, <3>3, <4>3 DEF KeyIsKnown
    <3>4. CASE k[1] # level
      <4>1. e[k[1]] = intervals[k[1]] /\ (k[1] \in seenPerInterval => k[1] \in now)
        BY <1>2, <1>4, <2>4, <3>4
      <4> QED BY <2>1, <2>2, <2>4, <4>1 DEF KeyIsKnown
    <3> QED BY <3>3, <3>4
  <2>5. CASE ~(Len(k) = 2 /\ k[1] \in LogLevels)
    BY <2>1, <2>2, <2>5 DEF KeyIsKnown
  <2> QED BY <2>4, <2>5
<1>6. LogParts(loggers, seenMessages, now, e, threw)
  BY <1>2, <1>4, <1>5 DEF LogParts, LogInv, KeysAgree
<1> QED BY <1>1, <1>2, <1>6, PartsOfNext DEF EndInterval

\* A logger that is writing already, or whose message throws, writes nothing.
LEMMA NothingWritten ==
    ASSUME LogInv, NEW l \in Loggers, NEW nested \in BOOLEAN, loggers[l].there, NEW t, t = [loggers[l] EXCEPT !.nested = nested],
           NEW thrown, threw \subseteq thrown, thrown \subseteq Loggers, nested => l \in thrown,
           loggers' = [loggers EXCEPT ![l] = t],
           seenMessages' = seenMessages, seenPerInterval' = seenPerInterval, intervals' = intervals, threw' = thrown
    PROVE  LogInv'
<1>1. PICK s : s = loggers[l]
  OBVIOUS
<1>2. OrderedLog(s) /\ s \in LoggerRecord /\ s.there
  BY <1>1 DEF LogInv, OrderedLog
<1>3. t = [s EXCEPT !.nested = nested]
  BY <1>1
<1>4. t \in LoggerRecord
  BY <1>2, <1>3 DEF LoggerRecord
<1>5. t.out = s.out /\ t.buffer = s.buffer /\ t.lost = s.lost /\ t.untold = s.untold /\ t.nested = nested /\ t.there = s.there
      /\ t.written = s.written /\ t.reading = s.reading
  BY <1>2, <1>3 DEF LoggerRecord
<1>6. KeptBy(t) = KeptBy(s)
  BY <1>5 DEF KeptBy
<1>7. Len(t.buffer) <= MaxLogBuffer /\ (t.reading => t.buffer = <<>>)
  BY <1>2, <1>5 DEF OrderedLog
<1>8. OrderedLog(t)
  BY <1>2, <1>4, <1>5, <1>6, <1>7, SameKeepsOrder
<1>9. PICK M : M = [loggers EXCEPT ![l] = t]
  OBVIOUS
<1>10. /\ M \in [Loggers -> LoggerRecord] /\ \A m \in Loggers : OrderedLog(M[m])
       /\ M[l] = t /\ \A m \in Loggers : m # l => M[m] = loggers[m]
  <2>1. LoggerIsNow([loggers EXCEPT ![l] = t], loggers, l, t)
    BY <1>8, LoggerGoesOn
  <2> QED BY <2>1, <1>9 DEF LoggerIsNow
<1>11. KeysAgree(M, seenMessages, seenPerInterval, intervals)
  <2>1. KeysAgree(loggers, seenMessages, seenPerInterval, intervals)
    BY DEF LogInv, KeysAgree
  <2>2. \A m \in Loggers : KeptBy(M[m]) = KeptBy(loggers[m]) /\ loggers[m].untold \subseteq M[m].untold
    BY <1>1, <1>5, <1>6, <1>10
  <2> QED BY <2>1, <2>2, KeysStay
<1>12. LogParts(M, seenMessages, seenPerInterval, intervals, thrown)
  BY <1>5, <1>10, <1>11 DEF LogParts, LogInv
<1>13. loggers' = M
  BY <1>9
<1> QED BY <1>12, <1>13, PartsOfNext

\* A message that is written is kept under a key that is new, or lost.
LEMMA MessageWritten ==
    ASSUME LogInv, NEW l \in Loggers, NEW level \in LogLevels, NEW mode \in LogModes, NEW says \in BOOLEAN,
           NEW wanted \in BOOLEAN,
           loggers[l].there, loggers[l].written < MaxLogged,
           ~(mode = "once" /\ level \in seenMessages), ~(mode = "oncePer" /\ level \in seenPerInterval),
           NEW t, t = WrittenTo(loggers[l], [n |-> 0, key |-> OnceKey(mode, level)], says, wanted),
           loggers' = [loggers EXCEPT ![l] = t],
           seenMessages' = seenMessages \cup IF mode = "once" THEN {level} ELSE {},
           seenPerInterval' = seenPerInterval \cup IF mode = "oncePer" THEN {level} ELSE {},
           intervals' = intervals, threw' = threw
    PROVE  LogInv'
<1>1. PICK s : s = loggers[l]
  OBVIOUS
<1>2. PICK key : key = OnceKey(mode, level)
  OBVIOUS
<1>3. PICK seen : seen = seenMessages \cup IF mode = "once" THEN {level} ELSE {}
  OBVIOUS
<1>4. PICK now : now = seenPerInterval \cup IF mode = "oncePer" THEN {level} ELSE {}
  OBVIOUS
<1>5. KeyIsNew(key, seenMessages, seenPerInterval, intervals, seen, now) /\ key \in Seq(Nat)
  <2>1. KeyIsNew(key, seenMessages, seenPerInterval, intervals, seen, now)
    BY <1>2, <1>3, <1>4, OnceKeyIsNew
  <2> QED BY <2>1 DEF KeyIsNew
<1>6. OrderedLog(s) /\ s.there /\ s.written < MaxLogged
  BY <1>1 DEF LogInv
<1>7. t = WrittenTo(s, [n |-> 0, key |-> key], says, wanted)
  BY <1>1, <1>2
<1>8. /\ OrderedLog(t) /\ t.nested = s.nested /\ t.there
      /\ GrownBy(s, t, key) \/ (KeptBy(t) = KeptBy(s) /\ key \in t.untold)
      /\ s.untold \subseteq t.untold
  BY <1>5, <1>6, <1>7, WriteKeepsOrder
<1>9. PICK M : M = [loggers EXCEPT ![l] = t]
  OBVIOUS
<1>10. /\ M \in [Loggers -> LoggerRecord] /\ \A m \in Loggers : OrderedLog(M[m])
       /\ M[l] = t /\ \A m \in Loggers : m # l => M[m] = loggers[m]
  <2>1. LoggerIsNow([loggers EXCEPT ![l] = t], loggers, l, t)
    BY <1>8, LoggerGoesOn
  <2> QED BY <2>1, <1>9 DEF LoggerIsNow
<1>11. KeysAgree(loggers, seenMessages, seenPerInterval, intervals)
  BY DEF LogInv, KeysAgree
<1>12. StayKnown(seenMessages, seenPerInterval, intervals, seen, now)
  <2>1. seenMessages \subseteq seen /\ seenPerInterval \subseteq now
    BY <1>3, <1>4
  <2> QED BY <2>1, MoreIsKnown
<1>13. KeysAgree(M, seen, now, intervals)
  <2>1. CASE GrownBy(s, t, key)
    <3>0. M[l] = t /\ loggers[l] = s
      BY <1>1, <1>10
    <3>1. GrownBy(loggers[l], M[l], key) /\ loggers[l].untold \subseteq M[l].untold
      BY <2>1, <3>0, <1>8
    <3>2. Len(KeptBy(loggers[l])) \in Nat
      BY KeptAreEntries DEF LogInv
    <3> QED BY <3>1, <3>2, <1>5, <1>10, <1>11, <1>12, KeyIsAdded
  <2>2. CASE KeptBy(t) = KeptBy(s) /\ key \in t.untold
    <3>1. \A m \in Loggers : KeptBy(M[m]) = KeptBy(loggers[m]) /\ loggers[m].untold \subseteq M[m].untold
      BY <2>2, <1>1, <1>8, <1>10
    <3>2. key \in M[l].untold
      BY <2>2, <1>10
    <3> QED BY <3>1, <3>2, <1>5, <1>11, <1>12, KeyIsLost
  <2> QED BY <2>1, <2>2, <1>8
<1>14. seen \subseteq LogLevels /\ now \subseteq LogLevels
  BY <1>3, <1>4 DEF LogInv
<1>15. LogParts(M, seen, now, intervals, threw)
  BY <1>1, <1>8, <1>10, <1>13, <1>14 DEF LogParts, LogInv
<1>16. loggers' = M /\ seenMessages' = seen /\ seenPerInterval' = now
  BY <1>3, <1>4, <1>9
<1> QED BY <1>15, <1>16, PartsOfNext

LEMMA LogStep ==
    ASSUME LogInv, NEW l \in Loggers, NEW level \in LogLevels, NEW mode \in LogModes, NEW kind,
           NEW wanted \in BOOLEAN, Log(l, level, mode, kind, wanted)
    PROVE  LogInv'
<1>1. PICK wrote \in BOOLEAN : wrote = (~loggers[l].nested /\ kind # "hostile")
  OBVIOUS
<1>2. PICK t : t = IF loggers[l].nested THEN loggers[l]
                   ELSE IF wrote THEN WrittenTo(loggers[l], [n |-> 0, key |-> OnceKey(mode, level)], kind # "unsayable", wanted)
                   ELSE [loggers[l] EXCEPT !.nested = TRUE]
  OBVIOUS
<1>3. /\ loggers[l].there /\ loggers[l].written < MaxLogged
      /\ ~(mode = "once" /\ level \in seenMessages) /\ ~(mode = "oncePer" /\ level \in seenPerInterval)
      /\ intervals' = intervals
  BY DEF Log
<1>4. loggers' = [loggers EXCEPT ![l] = t]
  BY <1>1, <1>2, Zenon DEF Log
<1>5. /\ seenMessages' = seenMessages \cup IF wrote /\ mode = "once" THEN {level} ELSE {}
      /\ seenPerInterval' = seenPerInterval \cup IF wrote /\ mode = "oncePer" THEN {level} ELSE {}
      /\ threw' = threw \cup IF ~loggers[l].nested /\ kind = "hostile" THEN {l} ELSE {}
  BY <1>1, Zenon DEF Log
<1>6. loggers[l] \in LoggerRecord /\ threw \subseteq Loggers /\ (loggers[l].nested => l \in threw)
  BY DEF LogInv
<1>7. CASE loggers[l].nested
  <2>1. t = [loggers[l] EXCEPT !.nested = TRUE]
    BY <1>2, <1>6, <1>7 DEF LoggerRecord
  <2>2. seenMessages' = seenMessages /\ seenPerInterval' = seenPerInterval /\ threw' = threw
    BY <1>1, <1>5, <1>7
  <2> QED BY <2>1, <2>2, <1>3, <1>4, <1>6, <1>7, NothingWritten
<1>8. CASE ~loggers[l].nested /\ kind = "hostile"
  <2>1. t = [loggers[l] EXCEPT !.nested = TRUE]
    BY <1>1, <1>2, <1>8
  <2>2. seenMessages' = seenMessages /\ seenPerInterval' = seenPerInterval /\ threw' = threw \cup {l}
    BY <1>1, <1>5, <1>8
  <2>3. PICK thrown : thrown = threw \cup {l}
    OBVIOUS
  <2>4. threw \subseteq thrown /\ thrown \subseteq Loggers /\ l \in thrown /\ threw' = thrown
    BY <2>2, <2>3, <1>6
  <2> QED BY <2>1, <2>2, <2>4, <1>3, <1>4, NothingWritten
<1>9. CASE ~loggers[l].nested /\ kind # "hostile"
  <2>1. t = WrittenTo(loggers[l], [n |-> 0, key |-> OnceKey(mode, level)], kind # "unsayable", wanted)
    BY <1>1, <1>2, <1>9
  <2>2. /\ seenMessages' = seenMessages \cup IF mode = "once" THEN {level} ELSE {}
        /\ seenPerInterval' = seenPerInterval \cup IF mode = "oncePer" THEN {level} ELSE {}
        /\ threw' = threw
    BY <1>1, <1>5, <1>9
  <2>3. PICK says \in BOOLEAN : says = (kind # "unsayable")
    OBVIOUS
  <2>4. t = WrittenTo(loggers[l], [n |-> 0, key |-> OnceKey(mode, level)], says, wanted)
    BY <2>1, <2>3
  <2> QED BY <2>2, <2>4, <1>3, <1>4, MessageWritten
<1> QED BY <1>7, <1>8, <1>9

-----------------------------------------------------------------------------
\* No logger has taken anything at first.
LEMMA LogInitial == LogInit => LogInv
<1> SUFFICES ASSUME LogInit PROVE LogInv
  OBVIOUS
<1>1. PICK t : t = NewLogger(Info, TRUE)
  OBVIOUS
<1>2. PICK u : u = NewLogger(Info, FALSE)
  OBVIOUS
<1>3. PICK v : v = [u EXCEPT !.there = FALSE]
  OBVIOUS
<1>4. <<>> \in Seq(LogEntry) /\ Len(<<>>) = 0 /\ 0 \in 0..MaxLogged /\ 0 <= MaxLogBuffer /\ Info \in LogLevels
  BY EmptySeq, LogBounds
<1>5. /\ t \in LoggerRecord /\ t.out = <<>> /\ t.buffer = <<>> /\ t.lost = {} /\ t.untold = {} /\ ~t.nested
      /\ ~t.reading /\ t.written = 0
  BY <1>1, <1>4 DEF NewLogger, LoggerRecord
<1>6. u \in LoggerRecord /\ u.out = <<>> /\ u.buffer = <<>> /\ u.lost = {} /\ u.untold = {} /\ ~u.nested /\ ~u.reading /\ u.written = 0
  BY <1>2, <1>4 DEF NewLogger, LoggerRecord
<1>7. v \in LoggerRecord /\ v.out = <<>> /\ v.buffer = <<>> /\ v.lost = {} /\ v.untold = {} /\ ~v.nested /\ ~v.reading /\ v.written = 0
  BY <1>3, <1>6 DEF LoggerRecord
<1>8. \A l \in Loggers : loggers[l] \in {t, v}
  BY <1>1, <1>2, <1>3 DEF LogInit
<1>9. loggers \in [Loggers -> LoggerRecord]
  BY <1>5, <1>7, <1>8 DEF LogInit
<1>10. \A l \in Loggers : KeptBy(loggers[l]) = <<>> /\ loggers[l].lost = {} /\ loggers[l].untold = {} /\ ~loggers[l].nested
  <2>1. KeptBy(t) = <<>> /\ KeptBy(v) = <<>>
    BY <1>4, <1>5, <1>7, ConcatEmptySeq DEF KeptBy
  <2> QED BY <2>1, <1>5, <1>7, <1>8
<1>11. \A l \in Loggers : OrderedLog(loggers[l])
  BY <1>4, <1>5, <1>7, <1>8, <1>10 DEF OrderedLog
<1>12. KeysAreKnown(loggers, seenMessages, seenPerInterval, intervals) /\ KeysAreApart(loggers)
  BY <1>4, <1>10 DEF KeysAreKnown, KeysAreApart
<1>13. SeenAreTaken(loggers, seenMessages)
  BY DEF SeenAreTaken, LogInit
<1>14. seenMessages \subseteq LogLevels /\ seenPerInterval \subseteq LogLevels /\ threw \subseteq Loggers
       /\ intervals \in [LogLevels -> Nat]
  BY DEF LogInit
<1> QED BY <1>9, <1>10, <1>11, <1>12, <1>13, <1>14 DEF LogInv

\* The invariant is kept.
LEMMA LogInvStep == LogInv /\ [LogNext]_logVars => LogInv'
<1> SUFFICES ASSUME LogInv, [LogNext]_logVars PROVE LogInv'
  OBVIOUS
<1>1. CASE \E level \in LogLevels, enabled \in BOOLEAN : CreateLogger(level, enabled)
  BY <1>1, CreateLoggerStep
<1>2. CASE \E l \in Loggers, level \in LogLevels, mode \in LogModes, kind \in MessageKinds, wanted \in BOOLEAN :
             Log(l, level, mode, kind, wanted)
  BY <1>2, LogStep
<1>3. CASE \E level \in LogLevels : EndInterval(level)
  BY <1>3, EndIntervalStep
<1>4. CASE \E l \in Loggers, wanted \in BOOLEAN : ReadLog(l, wanted)
  BY <1>4, ReadLogStep
<1>5. CASE UNCHANGED logVars
  <2>1. LogParts(loggers, seenMessages, seenPerInterval, intervals, threw)
    BY DEF LogInv, LogParts, KeysAgree
  <2>2. loggers' = loggers /\ seenMessages' = seenMessages /\ seenPerInterval' = seenPerInterval
        /\ intervals' = intervals /\ threw' = threw
    BY <1>5 DEF logVars
  <2> QED BY <2>1, <2>2, PartsOfNext
<1> QED BY <1>1, <1>2, <1>3, <1>4, <1>5 DEF LogNext

\* And says what is claimed of the log.
LEMMA LogInvIsCorrect == LogInv => LoggingCorrect
<1> SUFFICES ASSUME LogInv PROVE LoggingCorrect
  OBVIOUS
<1>1. \A l \in Loggers : loggers[l] \in LoggerRecord /\ OrderedLog(loggers[l]) /\ LogKept(l) = KeptBy(loggers[l])
  BY DEF LogInv, LogKept, KeptBy
<1>2. LogTypeOK
  <2>1. \A l \in Loggers : loggers[l].level \in LogLevels /\ loggers[l].written \in 0..MaxLogged
    BY <1>1 DEF LoggerRecord
  <2>2. \A l \in Loggers : loggers[l].lost \subseteq 1..loggers[l].written /\ Len(loggers[l].buffer) <= MaxLogBuffer
    BY <1>1 DEF OrderedLog
  <2>3. DOMAIN loggers = Loggers
    BY DEF LogInv
  <2> QED BY <2>1, <2>2, <2>3 DEF LogTypeOK, LogInv
<1>3. EntriesInOrder
  <2> SUFFICES ASSUME NEW l \in Loggers
               PROVE  /\ \A i \in DOMAIN LogKept(l) \ {1} : LogKept(l)[i - 1].n < LogKept(l)[i].n
                      /\ { LogKept(l)[i].n : i \in DOMAIN LogKept(l) } = (1..loggers[l].written) \ loggers[l].lost
                      /\ loggers[l].reading => loggers[l].buffer = <<>>
    BY DEF EntriesInOrder
  <2>1. PICK K : K = LogKept(l)
    OBVIOUS
  <2>2. K = KeptBy(loggers[l]) /\ K \in Seq(LogEntry) /\ Len(K) \in Nat
    BY <2>1, <1>1, KeptAreEntries
  <2>3. DOMAIN K = 1..Len(K)
    BY <2>2, LenProperties
  <2>4. \A i \in 2..Len(K) : K[i - 1].n < K[i].n
    BY <2>2, <1>1 DEF OrderedLog
  <2>5. \A i \in DOMAIN K \ {1} : i \in 2..Len(K)
    BY <2>2, <2>3
  <2>6. /\ \A i \in 1..Len(K) : K[i].n \in 1..loggers[l].written /\ K[i].n \notin loggers[l].lost
        /\ \A k \in 1..loggers[l].written : k \in loggers[l].lost \/ \E i \in 1..Len(K) : K[i].n = k
    BY <2>2, <1>1 DEF OrderedLog
  <2>7. { K[i].n : i \in DOMAIN K } = (1..loggers[l].written) \ loggers[l].lost
    <3>1. PICK R : R = (1..loggers[l].written) \ loggers[l].lost
      OBVIOUS
    <3>2. (\A i \in DOMAIN K : K[i].n \in R) /\ \A k \in R : \E i \in DOMAIN K : K[i].n = k
      BY <2>3, <2>6, <3>1
    <3> QED BY ONLY <3>1, <3>2
  <2>8. loggers[l].reading => loggers[l].buffer = <<>>
    BY <1>1 DEF OrderedLog
  <2> QED BY <2>1, <2>4, <2>5, <2>7, <2>8
<1>4. \A l \in Loggers : DOMAIN LogKept(l) = 1..Len(KeptBy(loggers[l])) /\ LogKept(l) = KeptBy(loggers[l])
  BY <1>1, KeptAreEntries, LenProperties
<1>5. OnceIsOnce
  <2>1. ASSUME NEW e \in LogEntries, NEW f \in LogEntries, LogEntryAt(e).key # <<>>, LogEntryAt(e).key = LogEntryAt(f).key
        PROVE  e = f
    <3>1. PICK l \in Loggers : \E i \in DOMAIN LogKept(l) : e = <<l, i>>
      BY DEF LogEntries
    <3>2. PICK m \in Loggers : \E j \in DOMAIN LogKept(m) : f = <<m, j>>
      BY DEF LogEntries
    <3>6. PICK i \in DOMAIN LogKept(l) : e = <<l, i>>
      BY <3>1
    <3>7. PICK j \in DOMAIN LogKept(m) : f = <<m, j>>
      BY <3>2
    <3>3. LogEntryAt(e) = KeptBy(loggers[l])[i] /\ LogEntryAt(f) = KeptBy(loggers[m])[j]
      BY <3>6, <3>7, <1>4 DEF LogEntryAt
    <3>4. i \in 1..Len(KeptBy(loggers[l])) /\ j \in 1..Len(KeptBy(loggers[m]))
      BY <1>4
    <3>5. l = m /\ i = j
      BY <2>1, <3>3, <3>4 DEF LogInv, KeysAreApart
    <3> QED BY <3>6, <3>7, <3>5
  <2>2. ASSUME NEW v \in seenMessages
        PROVE  \/ \E e \in LogEntries : LogEntryAt(e).key = <<v>>
               \/ \E l \in Loggers : <<v>> \in loggers[l].untold
    <3>1. \/ \E l \in Loggers : \E i \in 1..Len(KeptBy(loggers[l])) : KeptBy(loggers[l])[i].key = <<v>>
          \/ \E l \in Loggers : <<v>> \in loggers[l].untold
      BY DEF LogInv, SeenAreTaken
    <3>2. ASSUME NEW l \in Loggers, NEW i \in 1..Len(KeptBy(loggers[l])), KeptBy(loggers[l])[i].key = <<v>>
          PROVE  \E e \in LogEntries : LogEntryAt(e).key = <<v>>
      <4>1. <<l, i>> \in LogEntries
        BY <1>4 DEF LogEntries
      <4>2. LogEntryAt(<<l, i>>) = KeptBy(loggers[l])[i]
        BY <1>4 DEF LogEntryAt
      <4> QED BY <4>1, <4>2, <3>2
    <3> QED BY <3>1, <3>2
  <2> QED BY <2>1, <2>2 DEF OnceIsOnce
<1>6. MuteOnlyAfterThrow
  BY DEF LogInv, MuteOnlyAfterThrow
<1> QED BY <1>2, <1>3, <1>5, <1>6 DEF LoggingCorrect

\* Whatever is logged, by whichever logger and however the stream is read: entries come out in their
\* order and whole but for what the buffer had no room for or could not be made a text, what is to be logged once is logged once,
\* and a logger is only silent for good after a message that threw (util/logger.js).
THEOREM LoggingIsCorrect == LogSpec => []LoggingCorrect
<1>1. LogSpec => []LogInv
  BY LogInitial, LogInvStep, PTL DEF LogSpec
<1> QED BY <1>1, LogInvIsCorrect, PTL

(***************************************************************************)
(* Module loading, for any files, names, modules and handlers.  A mark     *)
(* stands for a run that has left it, and is why no other comes after it   *)
(* as long as the module exports the same.                                 *)
(***************************************************************************)
\* A handler's run, and the paths it may be told.
HandlerRun ==
    [module : Loadable, name : ModuleNames, path : Loadable \cup {"none"}, outcome : Outcomes,
     fresh : BOOLEAN, elsewhere : BOOLEAN, stands : BOOLEAN]
LoadFrame == [file : Files, name : ModuleNames, elsewhere : BOOLEAN]

PathsOf(name) == {ResolvedTo(f, name) : f \in Files}
RunIsTold(r) == r.path \in PathsOf(r.name) /\ (r.fresh /\ ~r.elsewhere => r.path = r.module)

\* A run that leaves a mark on its module, and one that comes with a require.
DoneWith(r, module) == r.module = module /\ r.stands /\ r.outcome \in Marking

\* The runs so far, the handlers in force and the marks.
RunsAgree(R, reg, mk) ==
    /\ R \in Seq(HandlerRun) /\ mk \in [Loadable -> {"none", "instrumented", "errored"}]
    /\ \A i \in 1..Len(R) : reg[R[i].name] # NoHandler /\ RunIsTold(R[i])
    /\ \A i, j \in 1..Len(R) : DoneWith(R[i], R[j].module) /\ R[j].stands => j <= i
    /\ \A m \in Loadable : mk[m] # "none" => \E i \in 1..Len(R) : DoneWith(R[i], m)
    /\ \A i \in 1..Len(R) : \A m \in Loadable : DoneWith(R[i], m) => mk[m] # "none"

\* What a file has got, by the runs there were then.
WrapperIsDue(R, pair, n) ==
    /\ \E i \in 1..n : /\ R[i].module = ResolvedTo(pair[1], pair[2]) /\ R[i].stands
                       /\ R[i].outcome = "exported" /\ R[i].name = pair[2]
    /\ \A i \in 1..n : R[i].module = ResolvedTo(pair[1], pair[2]) /\ R[i].stands =>
                           R[i].outcome \notin Marking \cup {"declined"}
HandedAgree(R, hd) ==
    /\ DOMAIN hd \subseteq Files \X ModuleNames
    /\ \A pair \in DOMAIN hd : /\ hd[pair].runs \in 0..Len(R)
                               /\ WrapperIsDue(R, pair, hd[pair].runs) => hd[pair].wrapper

\* What is resolved is cached, and its name has a path; the one it has while a body runs is the
\* module's own unless it was overtaken.
PathsAgree(fp, rb, ca, ls) ==
    /\ fp \in [ModuleNames -> Loadable \cup {"none"}] /\ rb \subseteq Files \X ModuleNames
    /\ ca \subseteq Loadable /\ ls \in Seq(LoadFrame)
    /\ \A pair \in rb : fp[pair[2]] \in PathsOf(pair[2]) /\ ResolvedTo(pair[1], pair[2]) \in ca
    /\ \A i \in 1..Len(ls) : /\ fp[ls[i].name] \in PathsOf(ls[i].name)
                             /\ ~ls[i].elsewhere => fp[ls[i].name] = ResolvedTo(ls[i].file, ls[i].name)

LoadingInv ==
    /\ registered \in [ModuleNames -> Handlers \cup {NoHandler}]
    /\ PathsAgree(filepathMap, resolvedBy, cached, loads)
    /\ RunsAgree(handlerRuns, registered, mark) /\ HandedAgree(handlerRuns, handed)

-----------------------------------------------------------------------------
\* One more run, of a module without a mark if it comes with a require.
MayBeNext(r, reg, mk, mk2) ==
    /\ reg[r.name] # NoHandler /\ RunIsTold(r) /\ (r.stands => mk[r.module] = "none")
    /\ mk2 \in [Loadable -> {"none", "instrumented", "errored"}]
    /\ \A m \in Loadable : m # r.module => mk2[m] = mk[m]
    /\ ~r.stands => mk2[r.module] = mk[r.module]
    /\ r.stands => (mk2[r.module] # "none" <=> r.outcome \in Marking)

LEMMA RunIsAdded ==
    ASSUME NEW R, NEW reg, NEW mk, RunsAgree(R, reg, mk), NEW r \in HandlerRun, NEW mk2, MayBeNext(r, reg, mk, mk2)
    PROVE  RunsAgree(Append(R, r), reg, mk2)
<1>0. PICK S : S = Append(R, r)
  OBVIOUS
<1>20. /\ reg[r.name] # NoHandler /\ RunIsTold(r) /\ (r.stands => mk[r.module] = "none")
       /\ mk2 \in [Loadable -> {"none", "instrumented", "errored"}]
       /\ \A m \in Loadable : m # r.module => mk2[m] = mk[m]
       /\ ~r.stands => mk2[r.module] = mk[r.module]
       /\ r.stands => (mk2[r.module] # "none" <=> r.outcome \in Marking)
  BY DEF MayBeNext
<1>1. R \in Seq(HandlerRun) /\ Len(R) \in Nat
  BY LenProperties DEF RunsAgree
<1>2. S \in Seq(HandlerRun) /\ Len(S) = Len(R) + 1 /\ S[Len(R) + 1] = r /\ \A i \in 1..Len(R) : S[i] = R[i]
  BY <1>0, <1>1, AppendProperties
<1>3. PICK n \in Nat : n = Len(R)
  BY <1>1
<1>4. Len(S) = n + 1 /\ S[n + 1] = r /\ \A i \in 1..n : S[i] = R[i]
  BY <1>2, <1>3
<1>5. /\ \A i \in 1..n : reg[R[i].name] # NoHandler /\ RunIsTold(R[i])
      /\ \A i, j \in 1..n : DoneWith(R[i], R[j].module) /\ R[j].stands => j <= i
      /\ \A m \in Loadable : mk[m] # "none" => \E i \in 1..n : DoneWith(R[i], m)
      /\ \A i \in 1..n : \A m \in Loadable : DoneWith(R[i], m) => mk[m] # "none"
  BY <1>3 DEF RunsAgree
<1>6. \A i \in 1..n + 1 : i = n + 1 \/ i \in 1..n
  OBVIOUS
<1>7. \A i \in 1..Len(S) : reg[S[i].name] # NoHandler /\ RunIsTold(S[i])
  BY <1>4, <1>5, <1>6, <1>20
<1>8. r.module \in Loadable
  BY DEF HandlerRun
<1>9. ASSUME NEW i \in 1..Len(S), NEW j \in 1..Len(S), DoneWith(S[i], S[j].module), S[j].stands
      PROVE  j <= i
  <2>1. CASE i = n + 1
    BY <2>1, <1>4
  <2>2. CASE i \in 1..n /\ j \in 1..n
    BY <2>2, <1>4, <1>5, <1>9
  <2>3. CASE i \in 1..n /\ j = n + 1
    <3>1. DoneWith(R[i], r.module) /\ r.stands
      BY <2>3, <1>4, <1>9
    <3> QED BY <2>3, <3>1, <1>5, <1>8, <1>20
  <2> QED BY <2>1, <2>2, <2>3, <1>4, <1>6
<1>10. ASSUME NEW m \in Loadable, mk2[m] # "none"
       PROVE  \E i \in 1..Len(S) : DoneWith(S[i], m)
  <2>1. CASE mk[m] # "none"
    <3>1. PICK i \in 1..n : DoneWith(R[i], m)
      BY <2>1, <1>5
    <3>2. i \in 1..Len(S) /\ S[i] = R[i]
      BY <1>4
    <3> QED BY <3>1, <3>2
  <2>2. CASE mk[m] = "none"
    <3>1. m = r.module /\ r.stands /\ r.outcome \in Marking
      BY <2>2, <1>8, <1>10, <1>20
    <3>2. DoneWith(S[n + 1], m) /\ n + 1 \in 1..Len(S)
      BY <3>1, <1>4 DEF DoneWith
    <3> QED BY <3>2
  <2> QED BY <2>1, <2>2
<1>11. ASSUME NEW i \in 1..Len(S), NEW m \in Loadable, DoneWith(S[i], m)
       PROVE  mk2[m] # "none"
  <2>1. CASE i = n + 1
    <3>1. m = r.module /\ r.stands /\ r.outcome \in Marking
      BY <2>1, <1>4, <1>11 DEF DoneWith
    <3> QED BY <3>1, <1>20
  <2>2. CASE i \in 1..n
    <3>1. mk[m] # "none"
      BY <2>2, <1>4, <1>5, <1>11
    <3> QED BY <3>1, <1>8, <1>20
  <2> QED BY <2>1, <2>2, <1>4, <1>6
<1> QED BY <1>0, <1>20, <1>2, <1>7, <1>9, <1>10, <1>11 DEF RunsAgree

\* What was handed out before does not depend on it.
LEMMA HandedStays ==
    ASSUME NEW R \in Seq(HandlerRun), NEW hd, HandedAgree(R, hd), NEW r \in HandlerRun, NEW S, S = Append(R, r)
    PROVE  HandedAgree(S, hd)
<1>1. Len(R) \in Nat /\ Len(S) = Len(R) + 1 /\ \A i \in 1..Len(R) : S[i] = R[i]
  BY AppendProperties, LenProperties
<1> SUFFICES ASSUME NEW pair \in DOMAIN hd
             PROVE  hd[pair].runs \in 0..Len(S) /\ (WrapperIsDue(S, pair, hd[pair].runs) => hd[pair].wrapper)
  BY DEF HandedAgree
<1>2. PICK n : n = hd[pair].runs
  OBVIOUS
<1>3. n \in 0..Len(R) /\ (WrapperIsDue(R, pair, n) => hd[pair].wrapper)
  BY <1>2 DEF HandedAgree
<1>4. n \in 0..Len(S) /\ \A i \in 1..n : S[i] = R[i]
  BY <1>1, <1>3
<1>5. WrapperIsDue(S, pair, n) => WrapperIsDue(R, pair, n)
  BY <1>4 DEF WrapperIsDue
<1> QED BY <1>2, <1>3, <1>4, <1>5

-----------------------------------------------------------------------------
LoadingParts(reg, fp, rb, ca, ls, R, mk, hd) ==
    /\ reg \in [ModuleNames -> Handlers \cup {NoHandler}] /\ PathsAgree(fp, rb, ca, ls)
    /\ RunsAgree(R, reg, mk) /\ HandedAgree(R, hd)

\* The next state has the invariant if its values have the parts of it.
LEMMA LoadingPartsOfNext ==
    ASSUME NEW reg, registered' = reg, NEW fp, filepathMap' = fp, NEW rb, resolvedBy' = rb, NEW ca, cached' = ca,
           NEW ls, loads' = ls, NEW R, handlerRuns' = R, NEW mk, mark' = mk, NEW hd, handed' = hd,
           LoadingParts(reg, fp, rb, ca, ls, R, mk, hd)
    PROVE  LoadingInv'
<1>1. (registered \in [ModuleNames -> Handlers \cup {NoHandler}])'
  BY DEF LoadingParts
<1>2. RunsAgree(R, reg, mk) /\ HandedAgree(R, hd) /\ PathsAgree(fp, rb, ca, ls)
  BY DEF LoadingParts
<1>3. RunsAgree(handlerRuns, registered, mark)' /\ HandedAgree(handlerRuns, handed)'
      /\ PathsAgree(filepathMap, resolvedBy, cached, loads)'
  BY <1>2
<1> QED BY <1>1, <1>3 DEF LoadingInv

\* Another handler in force leaves all runs with a name that has one.
LEMMA RegisterStep ==
    ASSUME LoadingInv, NEW handler \in Handlers, Register(handler)
    PROVE  LoadingInv'
<1>1. PICK reg : reg = [registered EXCEPT ![handler.name] = handler]
  OBVIOUS
<1>2. handler.name \in ModuleNames /\ handler # NoHandler
  BY LoadingAssumption
<1>3. reg \in [ModuleNames -> Handlers \cup {NoHandler}] /\ \A n \in ModuleNames : registered[n] # NoHandler => reg[n] # NoHandler
  BY <1>1, <1>2 DEF LoadingInv
<1>7. PICK R \in Seq(HandlerRun) : R = handlerRuns /\ RunsAgree(R, registered, mark)
  BY DEF LoadingInv, RunsAgree
<1>4. \A i \in 1..Len(R) : R[i].name \in ModuleNames
  <2>1. \A i \in 1..Len(R) : R[i] \in HandlerRun
    BY ElementOfSeq
  <2> QED BY <2>1 DEF HandlerRun
<1>5. RunsAgree(handlerRuns, reg, mark)
  <2>1. \A i \in 1..Len(R) : reg[R[i].name] # NoHandler /\ RunIsTold(R[i])
    BY <1>3, <1>4, <1>7 DEF RunsAgree
  <2> QED BY <2>1, <1>7 DEF RunsAgree
<1>6. LoadingParts(reg, filepathMap, resolvedBy, cached, loads, handlerRuns, mark, handed)
  BY <1>3, <1>5 DEF LoadingParts, LoadingInv
<1> QED BY <1>1, <1>6, LoadingPartsOfNext DEF Register

\* A module instrumented without a require.
LEMMA InstrumentLoadedStep ==
    ASSUME LoadingInv, NEW file \in Files, NEW name \in ModuleNames, InstrumentLoaded(file, name)
    PROVE  LoadingInv'
<1>1. PICK r : r = [module |-> ResolvedTo(file, name), name |-> name, path |-> ResolvedTo(file, name),
                    outcome |-> Outcome(registered[name]), fresh |-> FALSE, elsewhere |-> FALSE, stands |-> FALSE]
  OBVIOUS
<1>2. registered[name] # NoHandler /\ registered[name] \in Handlers
  BY DEF LoadingInv, InstrumentLoaded
<1>3. ResolvedTo(file, name) \in Loadable /\ Outcome(registered[name]) \in Outcomes
  BY <1>2, LoadingAssumption DEF Loadable
<1>4. r \in HandlerRun /\ ~r.stands /\ r.name = name /\ ~r.fresh /\ r.path = ResolvedTo(file, name)
  BY <1>1, <1>3 DEF HandlerRun
<1>5. PICK S : S = Append(handlerRuns, r)
  OBVIOUS
<1>6. handlerRuns' = S
  BY <1>1, <1>5 DEF InstrumentLoaded, RunHandler
<1>7. RunsAgree(handlerRuns, registered, mark) /\ HandedAgree(handlerRuns, handed)
      /\ handlerRuns \in Seq(HandlerRun) /\ mark \in [Loadable -> {"none", "instrumented", "errored"}]
  BY DEF LoadingInv, RunsAgree
<1>8. RunsAgree(S, registered, mark)
  <2>1. RunIsTold(r)
    BY <1>4 DEF RunIsTold, PathsOf
  <2>2. MayBeNext(r, registered, mark, mark)
    BY <2>1, <1>2, <1>4, <1>7 DEF MayBeNext
  <2> QED BY <2>2, <1>4, <1>5, <1>7, RunIsAdded
<1>9. HandedAgree(S, handed)
  BY <1>4, <1>5, <1>7, HandedStays
<1>10. LoadingParts(registered, filepathMap, resolvedBy, cached, loads, S, mark, handed)
  BY <1>8, <1>9 DEF LoadingParts, LoadingInv
<1> QED BY <1>6, <1>10, LoadingPartsOfNext DEF InstrumentLoaded

-----------------------------------------------------------------------------
\* A require that is given what the runs so far make of it.
HandedTo(pair, wrapper, n, hd) ==
    [p \in DOMAIN hd \cup {pair} |-> IF p = pair THEN [wrapper |-> wrapper, runs |-> n] ELSE hd[p]]

GivenRightly(R, pair, wrapper) == WrapperIsDue(R, pair, Len(R)) => wrapper

\* What a file gets is what is due by the runs so far.
LEMMA RequireHands ==
    ASSUME NEW R, NEW hd, HandedAgree(R, hd), Len(R) \in Nat, NEW pair \in Files \X ModuleNames, NEW wrapper, GivenRightly(R, pair, wrapper)
    PROVE  HandedAgree(R, HandedTo(pair, wrapper, Len(R), hd))
<1>0. PICK h2 : h2 = HandedTo(pair, wrapper, Len(R), hd)
  OBVIOUS
<1>3. h2 = [p \in DOMAIN hd \cup {pair} |-> IF p = pair THEN [wrapper |-> wrapper, runs |-> Len(R)] ELSE hd[p]]
  BY <1>0 DEF HandedTo
<1>1. DOMAIN h2 = DOMAIN hd \cup {pair}
  BY <1>3
<1>2. ASSUME NEW p \in DOMAIN hd \cup {pair}
      PROVE  h2[p].runs \in 0..Len(R) /\ (WrapperIsDue(R, p, h2[p].runs) => h2[p].wrapper)
  <2>1. CASE p = pair
    <3>1. h2[p].runs = Len(R) /\ h2[p].wrapper = wrapper
      BY <2>1, <1>3
    <3> QED BY <2>1, <3>1 DEF GivenRightly
  <2>2. CASE p # pair
    <3>1. h2[p] = hd[p] /\ p \in DOMAIN hd
      BY <2>2, <1>3
    <3> QED BY <3>1 DEF HandedAgree
  <2> QED BY <2>1, <2>2
<1>4. DOMAIN hd \subseteq Files \X ModuleNames
  BY DEF HandedAgree
<1> QED BY <1>0, <1>1, <1>2, <1>4 DEF HandedAgree

\* A require that runs no handler: either none is registered, so none has run, or the mark is there.
LEMMA NoWrapperIsDue ==
    ASSUME LoadingInv, NEW file \in Files, NEW name \in ModuleNames, ~Instruments(ResolvedTo(file, name), name)
    PROVE  ~WrapperIsDue(handlerRuns, <<file, name>>, Len(handlerRuns))
<1> SUFFICES ASSUME WrapperIsDue(handlerRuns, <<file, name>>, Len(handlerRuns)) PROVE FALSE
  OBVIOUS
<1>1. PICK m : m = ResolvedTo(file, name)
  OBVIOUS
<1>2. m \in Loadable /\ <<file, name>>[1] = file /\ <<file, name>>[2] = name
  BY <1>1 DEF Loadable
<1>3. /\ \E i \in 1..Len(handlerRuns) : handlerRuns[i].name = name
      /\ \A i \in 1..Len(handlerRuns) : handlerRuns[i].module = m /\ handlerRuns[i].stands =>
             handlerRuns[i].outcome \notin Marking \cup {"declined"}
  BY <1>1, <1>2 DEF WrapperIsDue
<1>4. registered[name] # NoHandler
  BY <1>3 DEF LoadingInv, RunsAgree
<1>5. mark[m] # "none"
  BY <1>1, <1>4 DEF Instruments
<1>6. PICK i \in 1..Len(handlerRuns) : DoneWith(handlerRuns[i], m)
  BY <1>2, <1>5 DEF LoadingInv, RunsAgree
<1> QED BY <1>3, <1>6 DEF DoneWith


\* What a require may tell a handler, were it to run one.
ToldRightly(file, name, path, fresh, elsewhere) ==
    /\ path \in PathsOf(name) /\ (fresh /\ ~elsewhere => path = ResolvedTo(file, name))
    /\ fresh \in BOOLEAN /\ elsewhere \in BOOLEAN

\* What wrappedLoad does once load has returned, with a run and without.
LEMMA PostLoadAgrees ==
    ASSUME LoadingInv, NEW file \in Files, NEW name \in ModuleNames, NEW path, NEW fresh, NEW elsewhere,
           ToldRightly(file, name, path, fresh, elsewhere), PostLoad(file, name, path, fresh, elsewhere)
    PROVE  RunsAgree(handlerRuns', registered, mark') /\ HandedAgree(handlerRuns', handed')
<1>1. PICK m : m = ResolvedTo(file, name)
  OBVIOUS
<1>2. PICK o : o = Outcome(registered[name])
  OBVIOUS
<1>3. PICK pair \in Files \X ModuleNames : pair = <<file, name>>
  OBVIOUS
<1>4. PICK D : D = DOMAIN handed
  OBVIOUS
<1>6. m \in Loadable
  BY <1>1 DEF Loadable
<1>8. /\ RunsAgree(handlerRuns, registered, mark) /\ HandedAgree(handlerRuns, handed)
      /\ handlerRuns \in Seq(HandlerRun) /\ mark \in [Loadable -> {"none", "instrumented", "errored"}]
      /\ registered \in [ModuleNames -> Handlers \cup {NoHandler}]
  BY DEF LoadingInv, RunsAgree
<1>9. Len(handlerRuns) \in Nat
  BY <1>8, LenProperties
<1>10. CASE Instruments(m, name)
  <2>1. registered[name] \in Handlers /\ registered[name] # NoHandler /\ mark[m] = "none" /\ o \in Outcomes
    BY <1>2, <1>8, <1>10, LoadingAssumption DEF Instruments
  <2>2. path \in PathsOf(name) /\ path \in Loadable \cup {"none"} /\ (fresh /\ ~elsewhere => path = m)
        /\ fresh \in BOOLEAN /\ elsewhere \in BOOLEAN
    BY <1>1 DEF ToldRightly, PathsOf, Loadable
  <2>3. PICK r : r = [module |-> m, name |-> name, path |-> path, outcome |-> o,
                      fresh |-> fresh, elsewhere |-> elsewhere, stands |-> TRUE]
    OBVIOUS
  <2>4. r \in HandlerRun /\ r.name = name /\ r.module = m /\ r.stands /\ r.outcome = o
        /\ r.path = path /\ r.fresh = fresh /\ r.elsewhere = elsewhere
    BY <2>1, <2>2, <2>3, <1>6 DEF HandlerRun
  <2>5. PICK R : R = Append(handlerRuns, r)
    OBVIOUS
  <2>6. handlerRuns' = R
    BY <2>3, <2>5, <1>1, <1>2, <1>10, Zenon DEF PostLoad, RunHandler
  <2>7. PICK mk : mk = [mark EXCEPT ![m] = MarkAfter(o)]
    OBVIOUS
  <2>8. mark' = mk
    BY <2>7, <1>1, <1>2, <1>10, Zenon DEF PostLoad
  <2>9. /\ MarkAfter(o) \in {"none", "instrumented", "errored"}
        /\ MarkAfter(o) # "none" <=> o \in Marking
    BY <2>1 DEF MarkAfter, Outcomes, Marking
  <2>10. /\ mk \in [Loadable -> {"none", "instrumented", "errored"}]
         /\ \A x \in Loadable : x # m => mk[x] = mark[x]
         /\ mk[m] # "none" <=> o \in Marking
    BY <2>7, <2>9, <1>6, <1>8
  <2>11. RunsAgree(R, registered, mk)
    <3>1. RunIsTold(r)
      BY <2>2, <2>4 DEF RunIsTold
    <3>2. MayBeNext(r, registered, mark, mk)
      BY <3>1, <2>1, <2>4, <2>10 DEF MayBeNext
    <3> QED BY <3>2, <2>4, <2>5, <1>8, RunIsAdded
  <2>12. HandedAgree(R, handed)
    BY <2>4, <2>5, <1>8, HandedStays
  <2>13. R \in Seq(HandlerRun) /\ Len(R) = Len(handlerRuns) + 1 /\ R[Len(handlerRuns) + 1] = r
    BY <2>4, <2>5, <1>8, AppendProperties
  <2>14. PICK wrapper \in BOOLEAN : wrapper = (o \in {"exported", "proxied"})
    <3>1. (o \in {"exported", "proxied"}) \in BOOLEAN
      OBVIOUS
    <3> QED BY <3>1
  <2>16. PICK hd : hd = [p \in D \cup {pair} |-> IF p = pair THEN [wrapper |-> wrapper, runs |-> Len(R)] ELSE handed[p]]
    OBVIOUS
  <2>17. handed' = hd
    BY <2>6, <2>14, <2>16, <1>1, <1>2, <1>3, <1>4, <1>10, Zenon DEF PostLoad, Received
  <2>18. WrapperIsDue(R, pair, Len(R)) => wrapper
    <3> SUFFICES ASSUME WrapperIsDue(R, pair, Len(R)) PROVE wrapper
      OBVIOUS
    <3>1. Len(R) \in 1..Len(R) /\ R[Len(R)] = r
      BY <2>13, <1>9
    <3>2. pair[1] = file /\ pair[2] = name
      BY <1>3
    <3>3. r.outcome \notin Marking \cup {"declined"}
      BY <3>1, <3>2, <2>4, <1>1 DEF WrapperIsDue
    <3>4. o = "exported"
      BY <3>3, <2>1, <2>4 DEF Marking, Outcomes
    <3> QED BY <3>4, <2>14
  <2>19. HandedAgree(R, hd)
    <3>1. Len(R) \in Nat
      BY <2>13, <1>9
    <3>2. hd = HandedTo(pair, wrapper, Len(R), handed)
      BY <2>16, <1>4 DEF HandedTo
    <3>3. GivenRightly(R, pair, wrapper)
      BY <2>18 DEF GivenRightly
    <3>4. HandedAgree(R, HandedTo(pair, wrapper, Len(R), handed))
      BY <3>1, <3>3, <2>12, RequireHands
    <3> QED BY <3>2, <3>4
  <2> QED BY <2>6, <2>8, <2>11, <2>17, <2>19
<1>11. CASE ~Instruments(m, name)
  <2>1. handlerRuns' = handlerRuns /\ mark' = mark
    BY <1>1, <1>11, Zenon DEF PostLoad
  <2>3. PICK hd : hd = [p \in D \cup {pair} |-> IF p = pair THEN [wrapper |-> FALSE, runs |-> Len(handlerRuns)] ELSE handed[p]]
    OBVIOUS
  <2>4. handed' = hd
    BY <2>1, <2>3, <1>1, <1>3, <1>4, <1>11, Zenon DEF PostLoad, Received
  <2>5. WrapperIsDue(handlerRuns, pair, Len(handlerRuns)) => FALSE
    BY <1>1, <1>3, <1>11, NoWrapperIsDue
  <2>6. HandedAgree(handlerRuns, hd)
    <3>1. hd = HandedTo(pair, FALSE, Len(handlerRuns), handed)
      BY <2>3, <1>4 DEF HandedTo
    <3>2. GivenRightly(handlerRuns, pair, FALSE)
      BY <2>5 DEF GivenRightly
    <3>3. HandedAgree(handlerRuns, HandedTo(pair, FALSE, Len(handlerRuns), handed))
      BY <3>2, <1>8, <1>9, RequireHands
    <3> QED BY <3>1, <3>3
  <2> QED BY <2>1, <2>4, <2>6, <1>8
<1> QED BY <1>10, <1>11

-----------------------------------------------------------------------------
\* The paths after a name has been looked up: it has one, and the calls on the stack that it is
\* not the path of are overtaken.
LEMMA PathsAfter ==
    ASSUME LoadingInv, NEW file \in Files, NEW name \in ModuleNames, NEW fp, fp = PathSeen(file, name),
           NEW ls, ls = Overtaken(file, name), NEW ca, cached \subseteq ca, ca \subseteq Loadable,
           ResolvedTo(file, name) \in ca, NEW rb, rb = resolvedBy \cup {<<file, name>>}
    PROVE  /\ PathsAgree(fp, rb, ca, ls) /\ fp[name] \in PathsOf(name)
           /\ <<file, name>> \notin resolvedBy => fp[name] = ResolvedTo(file, name)
<1>1. /\ filepathMap \in [ModuleNames -> Loadable \cup {"none"}] /\ loads \in Seq(LoadFrame)
      /\ resolvedBy \subseteq Files \X ModuleNames
      /\ \A pair \in resolvedBy : filepathMap[pair[2]] \in PathsOf(pair[2]) /\ ResolvedTo(pair[1], pair[2]) \in cached
      /\ \A i \in 1..Len(loads) : /\ filepathMap[loads[i].name] \in PathsOf(loads[i].name)
                                  /\ ~loads[i].elsewhere => filepathMap[loads[i].name] = ResolvedTo(loads[i].file, loads[i].name)
  BY DEF LoadingInv, PathsAgree
<1>2. PICK m : m = ResolvedTo(file, name)
  OBVIOUS
<1>3. PICK new \in BOOLEAN : new = (<<file, name>> \notin resolvedBy)
  OBVIOUS
<1>4. m \in Loadable /\ m \in PathsOf(name)
  BY <1>2 DEF Loadable, PathsOf
<1>5. fp = IF new THEN [filepathMap EXCEPT ![name] = m] ELSE filepathMap
  BY <1>2, <1>3 DEF PathSeen
<1>6. fp \in [ModuleNames -> Loadable \cup {"none"}] /\ (new => fp[name] = m)
      /\ \A n \in ModuleNames : n # name => fp[n] = filepathMap[n]
  BY <1>1, <1>4, <1>5
<1>7. \A n \in ModuleNames : filepathMap[n] \in PathsOf(n) => fp[n] \in PathsOf(n)
  BY <1>4, <1>5, <1>6
<1>8. fp[name] \in PathsOf(name)
  <2>1. CASE new
    BY <2>1, <1>4, <1>6
  <2>2. CASE ~new
    <3>1. filepathMap[<<file, name>>[2]] \in PathsOf(<<file, name>>[2])
      BY <2>2, <1>1, <1>3
    <3> QED BY <3>1, <2>2, <1>5
  <2> QED BY <2>1, <2>2
<1>9. \A pair \in rb : fp[pair[2]] \in PathsOf(pair[2]) /\ ResolvedTo(pair[1], pair[2]) \in ca
  <2> SUFFICES ASSUME NEW pair \in rb
               PROVE  fp[pair[2]] \in PathsOf(pair[2]) /\ ResolvedTo(pair[1], pair[2]) \in ca
    OBVIOUS
  <2>1. CASE pair = <<file, name>>
    BY <2>1, <1>8
  <2>2. CASE pair \in resolvedBy
    <3>1. pair[2] \in ModuleNames
      BY <2>2, <1>1
    <3> QED BY <3>1, <2>2, <1>1, <1>7
  <2> QED BY <2>1, <2>2
<1>10. Len(loads) \in Nat /\ DOMAIN loads = 1..Len(loads) /\ \A i \in 1..Len(loads) : loads[i] \in LoadFrame
  BY <1>1, LenProperties, ElementOfSeq
<1>11. PICK n \in Nat : n = Len(loads)
  BY <1>10
<1>12. ls = [i \in 1..n |-> IF new /\ loads[i].name = name /\ ResolvedTo(loads[i].file, name) # m
                            THEN [loads[i] EXCEPT !.elsewhere = TRUE] ELSE loads[i]]
  BY <1>2, <1>3, <1>10, <1>11 DEF Overtaken
<1>13. ASSUME NEW i \in 1..n
       PROVE  /\ ls[i] \in LoadFrame /\ ls[i].file = loads[i].file /\ ls[i].name = loads[i].name
              /\ ls[i].elsewhere = (loads[i].elsewhere \/ (new /\ loads[i].name = name /\ ResolvedTo(loads[i].file, name) # m))
  <2>1. loads[i] \in LoadFrame
    BY <1>10, <1>11
  <2>2. CASE new /\ loads[i].name = name /\ ResolvedTo(loads[i].file, name) # m
    <3>1. ls[i] = [loads[i] EXCEPT !.elsewhere = TRUE]
      BY <2>2, <1>12
    <3> QED BY <2>1, <2>2, <3>1 DEF LoadFrame
  <2>3. CASE ~(new /\ loads[i].name = name /\ ResolvedTo(loads[i].file, name) # m)
    <3>1. ls[i] = loads[i]
      BY <2>3, <1>12
    <3> QED BY <2>1, <2>3, <3>1 DEF LoadFrame
  <2> QED BY <2>2, <2>3
<1>14. ls \in Seq(LoadFrame) /\ Len(ls) = n
  <2>1. DOMAIN ls = 1..n /\ ls = [i \in 1..n |-> ls[i]]
    BY <1>12, Zenon
  <2>2. \A i \in 1..n : ls[i] \in LoadFrame
    BY <1>13
  <2>3. ls \in [1..n -> LoadFrame]
    BY ONLY <2>1, <2>2
  <2> QED BY ONLY <2>3, n \in Nat
<1>15. ASSUME NEW i \in 1..n
       PROVE  fp[ls[i].name] \in PathsOf(ls[i].name) /\ (~ls[i].elsewhere => fp[ls[i].name] = ResolvedTo(ls[i].file, ls[i].name))
  <2>1. PICK k \in ModuleNames, g \in Files : k = loads[i].name /\ g = loads[i].file
    BY <1>10, <1>11 DEF LoadFrame
  <2>2. ls[i].name = k /\ ls[i].file = g
    BY <2>1, <1>13
  <2>3. filepathMap[k] \in PathsOf(k) /\ (~loads[i].elsewhere => filepathMap[k] = ResolvedTo(g, k))
    BY <2>1, <1>1, <1>11
  <2>4. fp[k] \in PathsOf(k)
    BY <2>3, <1>7
  <2>5. ASSUME ~ls[i].elsewhere PROVE fp[k] = ResolvedTo(g, k)
    <3>1. ~loads[i].elsewhere /\ (new /\ k = name => ResolvedTo(g, name) = m)
      BY <2>1, <2>5, <1>13
    <3>2. CASE new /\ k = name
      BY <3>1, <3>2, <1>6
    <3>3. CASE ~(new /\ k = name)
      BY <3>1, <3>3, <2>3, <1>5, <1>6
    <3> QED BY <3>2, <3>3
  <2> QED BY <2>2, <2>4, <2>5
<1>16. rb \subseteq Files \X ModuleNames
  BY <1>1
<1>17. PathsAgree(fp, rb, ca, ls)
  BY <1>6, <1>9, <1>11, <1>14, <1>15, <1>16 DEF PathsAgree
<1> QED BY <1>2, <1>3, <1>6, <1>8, <1>17

\* The innermost call returns.
LEMMA CallReturns ==
    ASSUME NEW fp, NEW rb, NEW ca, PathsAgree(fp, rb, ca, loads), loads # <<>>
    PROVE  /\ LoadingNow \in LoadFrame /\ Len(loads) \in 1..Len(loads)
           /\ PathsAgree(fp, rb, ca, CallersLoads)
<1>1. loads \in Seq(LoadFrame)
  BY DEF PathsAgree
<1>2. PICK n \in Nat : n = Len(loads)
  BY <1>1, LenProperties
<1>3. n # 0 /\ n \in 1..n
  BY <1>1, <1>2, EmptySeq
<1>4. \A i \in 1..n : loads[i] \in LoadFrame
  BY <1>1, <1>2, ElementOfSeq
<1>5. PICK ls : ls = CallersLoads
  OBVIOUS
<1>6. n - 1 \in Nat /\ ls = [i \in 1..n - 1 |-> loads[i]] /\ \A i \in 1..n - 1 : i \in 1..n
  BY <1>2, <1>3, <1>5 DEF CallersLoads
<1>7. ls \in Seq(LoadFrame) /\ Len(ls) = n - 1 /\ \A i \in 1..n - 1 : ls[i] = loads[i]
  BY <1>4, <1>6
<1>8. PathsAgree(fp, rb, ca, ls)
  <2>1. \A i \in 1..Len(ls) : /\ fp[ls[i].name] \in PathsOf(ls[i].name)
                              /\ ~ls[i].elsewhere => fp[ls[i].name] = ResolvedTo(ls[i].file, ls[i].name)
    BY <1>2, <1>6, <1>7 DEF PathsAgree
  <2> QED BY <2>1, <1>7 DEF PathsAgree
<1> QED BY <1>2, <1>3, <1>4, <1>5, <1>8 DEF LoadingNow

\* A require of a module in the cache.
LEMMA RequireStep ==
    ASSUME LoadingInv, NEW file \in Files, NEW name \in ModuleNames, Require(file, name)
    PROVE  LoadingInv'
<1>1. PICK fp : fp = PathSeen(file, name)
  OBVIOUS
<1>2. PICK ls : ls = Overtaken(file, name)
  OBVIOUS
<1>3. PICK rb : rb = resolvedBy \cup {<<file, name>>}
  OBVIOUS
<1>4. PICK fresh \in BOOLEAN : fresh = (<<file, name>> \notin resolvedBy)
  OBVIOUS
<1>5. filepathMap' = fp /\ resolvedBy' = rb /\ registered' = registered /\ loads' = ls /\ cached' = cached
      /\ ResolvedTo(file, name) \in cached /\ cached \subseteq Loadable
  BY <1>1, <1>2, <1>3 DEF Require, LoadingInv, PathsAgree
<1>6. /\ PathsAgree(fp, rb, cached, ls) /\ fp[name] \in PathsOf(name)
      /\ <<file, name>> \notin resolvedBy => fp[name] = ResolvedTo(file, name)
  BY <1>1, <1>2, <1>3, <1>5, PathsAfter
<1>7. ToldRightly(file, name, fp[name], fresh, FALSE)
  BY <1>4, <1>6 DEF ToldRightly
<1>8. PostLoad(file, name, fp[name], fresh, FALSE)
  BY <1>4, <1>5 DEF Require
<1>9. RunsAgree(handlerRuns', registered, mark') /\ HandedAgree(handlerRuns', handed')
  BY <1>7, <1>8, PostLoadAgrees
<1>10. PICK R, mk, hd : R = handlerRuns' /\ mk = mark' /\ hd = handed'
  OBVIOUS
<1>11. LoadingParts(registered, fp, rb, cached, ls, R, mk, hd)
  BY <1>6, <1>9, <1>10 DEF LoadingParts, LoadingInv
<1> QED BY <1>5, <1>10, <1>11, LoadingPartsOfNext

\* One that has its body run: the call is put on the stack.
LEMMA StartLoadStep ==
    ASSUME LoadingInv, NEW file \in Files, NEW name \in ModuleNames, StartLoad(file, name)
    PROVE  LoadingInv'
<1>1. PICK fp : fp = PathSeen(file, name)
  OBVIOUS
<1>2. PICK ov : ov = Overtaken(file, name)
  OBVIOUS
<1>3. PICK rb : rb = resolvedBy \cup {<<file, name>>}
  OBVIOUS
<1>4. PICK ca : ca = cached \cup {ResolvedTo(file, name)}
  OBVIOUS
<1>5. PICK c : c = [file |-> file, name |-> name, elsewhere |-> FALSE]
  OBVIOUS
<1>6. PICK ls : ls = Append(ov, c)
  OBVIOUS
<1>7. filepathMap' = fp /\ resolvedBy' = rb /\ registered' = registered /\ loads' = ls /\ cached' = ca
      /\ handlerRuns' = handlerRuns /\ mark' = mark /\ handed' = handed
  BY <1>1, <1>2, <1>3, <1>4, <1>5, <1>6 DEF StartLoad
<1>8. ca \subseteq Loadable /\ cached \subseteq ca /\ ResolvedTo(file, name) \in ca
  BY <1>4 DEF Loadable, LoadingInv, PathsAgree
<1>9. <<file, name>> \notin resolvedBy
  <2> SUFFICES ASSUME <<file, name>> \in resolvedBy PROVE FALSE
    OBVIOUS
  <2>1. ResolvedTo(<<file, name>>[1], <<file, name>>[2]) \in cached
    BY DEF LoadingInv, PathsAgree
  <2> QED BY <2>1 DEF StartLoad
<1>10. PathsAgree(fp, rb, ca, ov) /\ fp[name] \in PathsOf(name) /\ fp[name] = ResolvedTo(file, name)
  BY <1>1, <1>2, <1>3, <1>8, <1>9, PathsAfter
<1>11. c \in LoadFrame /\ c.name = name /\ c.file = file /\ ov \in Seq(LoadFrame)
  BY <1>5, <1>10 DEF LoadFrame, PathsAgree
<1>12. PICK n \in Nat : n = Len(ov)
  BY <1>11, LenProperties
<1>13. ls \in Seq(LoadFrame) /\ Len(ls) = n + 1 /\ ls[n + 1] = c /\ \A i \in 1..n : ls[i] = ov[i]
  BY <1>6, <1>11, <1>12, AppendProperties
<1>14. ASSUME NEW i \in 1..Len(ls)
       PROVE  fp[ls[i].name] \in PathsOf(ls[i].name) /\ (~ls[i].elsewhere => fp[ls[i].name] = ResolvedTo(ls[i].file, ls[i].name))
  <2>1. CASE i = n + 1
    BY <2>1, <1>10, <1>11, <1>13
  <2>2. CASE i \in 1..n
    BY <2>2, <1>10, <1>12, <1>13 DEF PathsAgree
  <2> QED BY <2>1, <2>2, <1>13
<1>15. PathsAgree(fp, rb, ca, ls)
  BY <1>10, <1>13, <1>14 DEF PathsAgree
<1>16. LoadingParts(registered, fp, rb, ca, ls, handlerRuns, mark, handed)
  BY <1>15 DEF LoadingParts, LoadingInv
<1> QED BY <1>7, <1>16, LoadingPartsOfNext

\* A body that has run to its end.
LEMMA FinishLoadStep == LoadingInv /\ FinishLoad => LoadingInv'
<1> SUFFICES ASSUME LoadingInv, FinishLoad PROVE LoadingInv'
  OBVIOUS
<1>1. loads # <<>> /\ PathsAgree(filepathMap, resolvedBy, cached, loads)
  BY DEF LoadingInv, FinishLoad
<1>2. LoadingNow \in LoadFrame /\ Len(loads) \in 1..Len(loads) /\ PathsAgree(filepathMap, resolvedBy, cached, CallersLoads)
  BY <1>1, CallReturns
<1>3. PICK file \in Files, name \in ModuleNames, elsewhere \in BOOLEAN :
          file = LoadingNow.file /\ name = LoadingNow.name /\ elsewhere = LoadingNow.elsewhere
  BY <1>2 DEF LoadFrame
<1>4. PICK path : path = filepathMap[name]
  OBVIOUS
<1>5. path \in PathsOf(name) /\ (~elsewhere => path = ResolvedTo(file, name))
  BY <1>1, <1>2, <1>3, <1>4 DEF PathsAgree, LoadingNow
<1>6. ToldRightly(file, name, path, TRUE, elsewhere)
  BY <1>5 DEF ToldRightly
<1>7. PostLoad(file, name, path, TRUE, elsewhere)
  BY <1>3, <1>4 DEF FinishLoad
<1>8. RunsAgree(handlerRuns', registered, mark') /\ HandedAgree(handlerRuns', handed')
  BY <1>6, <1>7, PostLoadAgrees
<1>9. PICK R, mk, hd, ls : R = handlerRuns' /\ mk = mark' /\ hd = handed' /\ ls = CallersLoads
  OBVIOUS
<1>10. LoadingParts(registered, filepathMap, resolvedBy, cached, ls, R, mk, hd)
  BY <1>2, <1>8, <1>9 DEF LoadingParts, LoadingInv
<1>11. registered' = registered /\ filepathMap' = filepathMap /\ resolvedBy' = resolvedBy /\ cached' = cached /\ loads' = ls
  BY <1>9 DEF FinishLoad
<1> QED BY <1>9, <1>10, <1>11, LoadingPartsOfNext

-----------------------------------------------------------------------------
\* The runs and the marks once a module exports something else.
LEMMA ExportsAreGone ==
    ASSUME LoadingInv, NEW module \in Loadable, ExportsGone(module)
    PROVE  RunsAgree(handlerRuns', registered, mark') /\ HandedAgree(handlerRuns', handed)
<1>1. PICK R \in Seq(HandlerRun) : R = handlerRuns /\ RunsAgree(R, registered, mark) /\ HandedAgree(R, handed)
  BY DEF LoadingInv, RunsAgree
<1>2. PICK n \in Nat : n = Len(R) /\ DOMAIN R = 1..n /\ \A i \in 1..n : R[i] \in HandlerRun
  BY LenProperties, ElementOfSeq
<1>3. PICK S : S = [i \in 1..n |-> IF R[i].module = module THEN [R[i] EXCEPT !.stands = FALSE] ELSE R[i]]
  OBVIOUS
<1>4. handlerRuns' = S
  BY <1>1, <1>2, <1>3 DEF ExportsGone
<1>5. PICK mk : mk = [mark EXCEPT ![module] = "none"]
  OBVIOUS
<1>6. mark' = mk
  BY <1>5 DEF ExportsGone
<1>7. mk \in [Loadable -> {"none", "instrumented", "errored"}] /\ mk[module] = "none"
      /\ \A m \in Loadable : m # module => mk[m] = mark[m]
  BY <1>1, <1>5 DEF RunsAgree
<1>8. ASSUME NEW i \in 1..n
      PROVE  /\ S[i] \in HandlerRun /\ S[i].module = R[i].module /\ S[i].name = R[i].name /\ S[i].path = R[i].path
             /\ S[i].fresh = R[i].fresh /\ S[i].elsewhere = R[i].elsewhere /\ S[i].outcome = R[i].outcome
             /\ S[i].stands = (R[i].stands /\ R[i].module # module)
  <2>1. R[i] \in HandlerRun
    BY <1>2
  <2>2. CASE R[i].module = module
    <3>1. S[i] = [R[i] EXCEPT !.stands = FALSE]
      BY <2>2, <1>3
    <3> QED BY <2>1, <2>2, <3>1 DEF HandlerRun
  <2>3. CASE R[i].module # module
    <3>1. S[i] = R[i]
      BY <2>3, <1>3
    <3> QED BY <2>1, <2>3, <3>1 DEF HandlerRun
  <2> QED BY <2>2, <2>3
<1>9. S \in Seq(HandlerRun) /\ Len(S) = n
  <2>1. DOMAIN S = 1..n /\ S = [i \in 1..n |-> S[i]]
    BY <1>3, Zenon
  <2>2. \A i \in 1..n : S[i] \in HandlerRun
    BY <1>8
  <2>3. S \in [1..n -> HandlerRun]
    BY ONLY <2>1, <2>2
  <2> QED BY ONLY <2>3, n \in Nat
<1>10. ASSUME NEW i \in 1..n, NEW m
       PROVE  DoneWith(S[i], m) <=> DoneWith(R[i], m) /\ m # module
  BY <1>8 DEF DoneWith
<1>11. \A i \in 1..n : registered[S[i].name] # NoHandler /\ RunIsTold(S[i])
  <2>1. \A i \in 1..n : registered[R[i].name] # NoHandler /\ RunIsTold(R[i])
    BY <1>1, <1>2 DEF RunsAgree
  <2> QED BY <2>1, <1>8 DEF RunIsTold
<1>12. ASSUME NEW i \in 1..n, NEW j \in 1..n, DoneWith(S[i], S[j].module), S[j].stands
       PROVE  j <= i
  <2>1. DoneWith(R[i], R[j].module) /\ R[j].stands
    BY <1>8, <1>10, <1>12
  <2> QED BY <2>1, <1>1, <1>2 DEF RunsAgree
<1>13. ASSUME NEW m \in Loadable, mk[m] # "none"
       PROVE  \E i \in 1..n : DoneWith(S[i], m)
  <2>1. m # module /\ mark[m] # "none"
    BY <1>7, <1>13
  <2>2. PICK i \in 1..n : DoneWith(R[i], m)
    BY <2>1, <1>1, <1>2 DEF RunsAgree
  <2> QED BY <2>1, <2>2, <1>10
<1>14. ASSUME NEW i \in 1..n, NEW m \in Loadable, DoneWith(S[i], m)
       PROVE  mk[m] # "none"
  <2>1. DoneWith(R[i], m) /\ m # module
    BY <1>10, <1>14
  <2> QED BY <2>1, <1>1, <1>2, <1>7 DEF RunsAgree
<1>15. RunsAgree(S, registered, mk)
  BY <1>7, <1>9, <1>11, <1>12, <1>13, <1>14 DEF RunsAgree
<1>16. ASSUME NEW pair, NEW k \in 0..n, WrapperIsDue(S, pair, k)
       PROVE  WrapperIsDue(R, pair, k)
  <2>1. \A i \in 1..k : i \in 1..n
    BY <1>2
  <2>2. PICK m : m = ResolvedTo(pair[1], pair[2])
    OBVIOUS
  <2>3. PICK i \in 1..k : S[i].module = m /\ S[i].stands /\ S[i].outcome = "exported" /\ S[i].name = pair[2]
    BY <2>2, <1>16 DEF WrapperIsDue
  <2>4. R[i].module = m /\ R[i].stands /\ R[i].outcome = "exported" /\ R[i].name = pair[2] /\ m # module
    BY <2>1, <2>3, <1>8
  <2>5. \A j \in 1..k : R[j].module = m /\ R[j].stands => R[j].outcome \notin Marking \cup {"declined"}
    BY <2>1, <2>2, <2>4, <1>8, <1>16 DEF WrapperIsDue
  <2> QED BY <2>2, <2>4, <2>5 DEF WrapperIsDue
<1>17. HandedAgree(S, handed)
  <2>1. \A pair \in DOMAIN handed : handed[pair].runs \in 0..n /\ (WrapperIsDue(R, pair, handed[pair].runs) => handed[pair].wrapper)
    BY <1>1, <1>2 DEF HandedAgree
  <2>2. \A pair \in DOMAIN handed : handed[pair].runs \in 0..Len(S) /\ (WrapperIsDue(S, pair, handed[pair].runs) => handed[pair].wrapper)
    BY <2>1, <1>9, <1>16
  <2> QED BY <2>2, <1>1 DEF HandedAgree
<1> QED BY <1>4, <1>6, <1>15, <1>17

\* A body that exports something else, and one that throws.
LEMMA ReplaceExportsStep == LoadingInv /\ ReplaceExports => LoadingInv'
<1> SUFFICES ASSUME LoadingInv, ReplaceExports PROVE LoadingInv'
  OBVIOUS
<1>1. LoadingNow \in LoadFrame
  BY CallReturns DEF LoadingInv, ReplaceExports
<1>2. PICK module \in Loadable : module = LoadingModule
  BY <1>1 DEF LoadingModule, Loadable, LoadFrame
<1>3. ExportsGone(module)
  BY <1>2 DEF ReplaceExports
<1>4. RunsAgree(handlerRuns', registered, mark') /\ HandedAgree(handlerRuns', handed)
  BY <1>3, ExportsAreGone
<1>5. PICK R, mk : R = handlerRuns' /\ mk = mark'
  OBVIOUS
<1>6. LoadingParts(registered, filepathMap, resolvedBy, cached, loads, R, mk, handed)
  BY <1>4, <1>5 DEF LoadingParts, LoadingInv
<1> QED BY <1>5, <1>6, LoadingPartsOfNext DEF ReplaceExports

LEMMA LoadFailsStep == LoadingInv /\ LoadFails => LoadingInv'
<1> SUFFICES ASSUME LoadingInv, LoadFails PROVE LoadingInv'
  OBVIOUS
<1>0. PathsAgree(filepathMap, resolvedBy, cached, loads) /\ loads # <<>>
  BY DEF LoadingInv, LoadFails
<1>1. LoadingNow \in LoadFrame /\ PathsAgree(filepathMap, resolvedBy, cached, CallersLoads)
  BY <1>0, CallReturns
<1>2. PICK module \in Loadable : module = LoadingModule
  BY <1>1 DEF LoadingModule, Loadable, LoadFrame
<1>3. ExportsGone(module)
  BY <1>2 DEF LoadFails
<1>4. RunsAgree(handlerRuns', registered, mark') /\ HandedAgree(handlerRuns', handed)
  BY <1>3, ExportsAreGone
<1>5. PICK R, mk, ls : R = handlerRuns' /\ mk = mark' /\ ls = CallersLoads
  OBVIOUS
<1>6. PICK ca : ca = cached \ {module}
  OBVIOUS
<1>7. PICK rb : rb = {pair \in resolvedBy : ResolvedTo(pair[1], pair[2]) # module}
  OBVIOUS
<1>8. PathsAgree(filepathMap, rb, ca, ls)
  BY <1>1, <1>5, <1>6, <1>7 DEF PathsAgree
<1>9. LoadingParts(registered, filepathMap, rb, ca, ls, R, mk, handed)
  BY <1>4, <1>5, <1>8 DEF LoadingParts, LoadingInv
<1>10. registered' = registered /\ filepathMap' = filepathMap /\ resolvedBy' = rb /\ cached' = ca /\ loads' = ls /\ handed' = handed
  BY <1>2, <1>5, <1>6, <1>7 DEF LoadFails
<1> QED BY <1>5, <1>9, <1>10, LoadingPartsOfNext

-----------------------------------------------------------------------------
\* Nothing has run at first.
LEMMA LoadingInitial == LoadingInit => LoadingInv
<1> SUFFICES ASSUME LoadingInit PROVE LoadingInv
  OBVIOUS
<1>1. handlerRuns = <<>> /\ handed = <<>> /\ resolvedBy = {} /\ Len(<<>>) = 0 /\ loads = <<>> /\ cached = {}
  BY DEF LoadingInit
<1>2. DOMAIN handed = {}
  BY <1>1
<1>3. mark \in [Loadable -> {"none", "instrumented", "errored"}] /\ \A m \in Loadable : mark[m] = "none"
  BY DEF LoadingInit
<1>4. RunsAgree(handlerRuns, registered, mark)
  BY <1>1, <1>3, EmptySeq DEF RunsAgree
<1>5. HandedAgree(handlerRuns, handed)
  BY <1>2 DEF HandedAgree
<1>6. PathsAgree(filepathMap, resolvedBy, cached, loads)
  BY <1>1, EmptySeq DEF PathsAgree, LoadingInit
<1> QED BY <1>4, <1>5, <1>6 DEF LoadingInv, LoadingInit

\* The invariant is kept.
LEMMA LoadingStep == LoadingInv /\ [LoadingNext]_loadingVars => LoadingInv'
<1> SUFFICES ASSUME LoadingInv, [LoadingNext]_loadingVars PROVE LoadingInv'
  OBVIOUS
<1>1. CASE \E handler \in Handlers : Register(handler)
  BY <1>1, RegisterStep
<1>2. CASE \E file \in Files, name \in ModuleNames :
               Require(file, name) \/ StartLoad(file, name) \/ InstrumentLoaded(file, name)
  BY <1>2, RequireStep, StartLoadStep, InstrumentLoadedStep
<1>4. CASE ReplaceExports \/ FinishLoad \/ LoadFails
  BY <1>4, ReplaceExportsStep, FinishLoadStep, LoadFailsStep
<1>3. CASE UNCHANGED loadingVars
  <2>1. LoadingParts(registered, filepathMap, resolvedBy, cached, loads, handlerRuns, mark, handed)
    BY DEF LoadingInv, LoadingParts
  <2>2. registered' = registered /\ filepathMap' = filepathMap /\ resolvedBy' = resolvedBy /\ cached' = cached
        /\ loads' = loads /\ handlerRuns' = handlerRuns /\ mark' = mark /\ handed' = handed
    BY <1>3 DEF loadingVars
  <2> QED BY <2>1, <2>2, LoadingPartsOfNext
<1> QED BY <1>1, <1>2, <1>3, <1>4 DEF LoadingNext

\* And says what is claimed of the modules.
LEMMA LoadingInvIsCorrect == LoadingInv => LoadingCorrect
<1> SUFFICES ASSUME LoadingInv PROVE LoadingCorrect
  OBVIOUS
<1>1. PICK R \in Seq(HandlerRun) : R = handlerRuns /\ RunsAgree(R, registered, mark) /\ HandedAgree(R, handed)
  BY DEF LoadingInv, RunsAgree
<1>2. Len(R) \in Nat /\ DOMAIN R = 1..Len(R) /\ \A i \in 1..Len(R) : R[i] \in HandlerRun
  BY LenProperties, ElementOfSeq
<1>3. LoadingTypeOK
  <2>1. loads \in Seq([file : Files, name : ModuleNames, elsewhere : BOOLEAN])
    BY DEF LoadingInv, PathsAgree, LoadFrame
  <2>2. cached \subseteq Loadable /\ resolvedBy \subseteq Files \X ModuleNames
        /\ filepathMap \in [ModuleNames -> Loadable \cup {"none"}]
    BY DEF LoadingInv, PathsAgree
  <2>3. DOMAIN handed \subseteq Files \X ModuleNames
    BY DEF LoadingInv, HandedAgree
  <2>4. mark \in [Loadable -> {"none", "instrumented", "errored"}]
        /\ registered \in [ModuleNames -> Handlers \cup {NoHandler}]
    BY DEF LoadingInv, RunsAgree
  <2> QED BY <2>1, <2>2, <2>3, <2>4 DEF LoadingTypeOK
<1>4. ASSUME NEW m, NEW os, NEW i \in RunsOn(m, os)
      PROVE  i \in 1..Len(R) /\ R[i].module = m /\ R[i].stands /\ R[i].outcome \in os
  BY <1>1, <1>2, <1>4 DEF RunsOn
<1>5. ASSUME NEW m, NEW os, NEW i \in 1..Len(R), R[i].module = m, R[i].stands, R[i].outcome \in os
      PROVE  i \in RunsOn(m, os)
  BY <1>1, <1>2, <1>5 DEF RunsOn
<1>6. InstrumentedOnce
  <2> SUFFICES ASSUME NEW m \in Loadable, NEW i \in RunsOn(m, Marking), NEW j \in RunsOn(m, Marking \cup {"exported", "declined"})
               PROVE  j <= i
    BY DEF InstrumentedOnce
  <2>1. i \in 1..Len(R) /\ R[i].module = m /\ R[i].stands /\ R[i].outcome \in Marking
    BY <1>4
  <2>2. j \in 1..Len(R) /\ R[j].module = m /\ R[j].stands
    BY <1>4
  <2>3. DoneWith(R[i], R[j].module)
    BY <2>1, <2>2 DEF DoneWith
  <2> QED BY <2>1, <2>2, <2>3, <1>1 DEF RunsAgree
<1>7. EverybodyGetsTheWrapper
  <2> SUFFICES ASSUME NEW pair \in DOMAIN handed,
                      \E i \in RunsOn(ResolvedTo(pair[1], pair[2]), {"exported"}) \cap (1..handed[pair].runs) :
                          handlerRuns[i].name = pair[2],
                      RunsOn(ResolvedTo(pair[1], pair[2]), Marking \cup {"declined"}) \cap (1..handed[pair].runs) = {}
               PROVE  handed[pair].wrapper
    BY DEF EverybodyGetsTheWrapper
  <2>1. PICK n : n = handed[pair].runs
    OBVIOUS
  <2>2. n \in 0..Len(R) /\ (WrapperIsDue(R, pair, n) => handed[pair].wrapper)
    BY <2>1, <1>1 DEF HandedAgree, LoadingInv
  <2>3. PICK m : m = ResolvedTo(pair[1], pair[2])
    OBVIOUS
  <2>4. \E i \in 1..n : R[i].module = m /\ R[i].stands /\ R[i].outcome = "exported" /\ R[i].name = pair[2]
    <3>1. PICK i \in RunsOn(m, {"exported"}) \cap (1..n) : handlerRuns[i].name = pair[2]
      BY <2>1, <2>3
    <3>2. i \in 1..Len(R) /\ R[i].module = m /\ R[i].stands /\ R[i].outcome \in {"exported"}
      BY <1>4
    <3> QED BY <3>1, <3>2, <1>1
  <2>5. \A i \in 1..n : R[i].module = m /\ R[i].stands => R[i].outcome \notin Marking \cup {"declined"}
    <3> SUFFICES ASSUME NEW i \in 1..n, R[i].module = m, R[i].stands, R[i].outcome \in Marking \cup {"declined"}
                 PROVE  FALSE
      OBVIOUS
    <3>1. i \in 1..Len(R)
      BY <2>2, <1>2
    <3>2. i \in RunsOn(m, Marking \cup {"declined"})
      BY <3>1, <1>5
    <3> QED BY <3>2, <2>1, <2>3
  <2> QED BY <2>2, <2>3, <2>4, <2>5 DEF WrapperIsDue
<1>8. PathsAreRight
  BY <1>1, <1>2 DEF PathsAreRight, RunsAgree, RunIsTold, PathsOf
<1> QED BY <1>3, <1>6, <1>7, <1>8 DEF LoadingCorrect

\* By whatever names and in whatever files modules are required, from within each other's bodies too,
\* and whenever handlers are registered for them: none is instrumented again after a handler is done
\* with it, whoever requires what has been replaced gets the replacement, and a shim is told the right
\* path at first, unless another module has taken it meanwhile (shimmer.js).
THEOREM LoadingIsCorrect == LoadingSpec => []LoadingCorrect
<1>1. LoadingSpec => []LoadingInv
  BY LoadingInitial, LoadingStep, PTL DEF LoadingSpec
<1> QED BY <1>1, LoadingInvIsCorrect, PTL


(***************************************************************************)
(* The streamer of spans.  What is sent and what waits are one sequence,   *)
(* sent \o queue, and its invariant says that it is in order with each     *)
(* span after its parent: what is dropped of a transaction is a tail, as   *)
(* the queue only gets shorter when all of it has gone out.  The streamer  *)
(* can write, or waits for a drain, while there is a connection; unless a  *)
(* timer has outlived a stop, nothing of a stopped run is connected.       *)
(***************************************************************************)
AnySpan == [id : Nat, parent : Nat]
StreamStates == [writable : BOOLEAN, room : Int, drains : BOOLEAN, queue : Seq(AnySpan), sent : Seq(AnySpan)]
StreamedBy(s) == s.sent \o s.queue

\* u is all of base and the first k of more.
Put(u, base, more, k) ==
    /\ u \in Seq(AnySpan) /\ Len(u) = Len(base) + k
    /\ \A i \in 1..Len(base) : u[i] = base[i]
    /\ \A i \in 1..k : u[Len(base) + i] = more[i]

\* Spans in order, up to the number made, each after its parent.
WellStreamed(w, made) ==
    /\ \A i \in 1..Len(w) : w[i].id \in 1..made
    /\ \A i, j \in 1..Len(w) : i < j => w[i].id < w[j].id
    /\ \A i \in 1..Len(w) : w[i].parent # 0 => \E j \in 1..(i - 1) : w[j].id = w[i].parent

\* The spans of one transaction.
Batch(spans, made) ==
    /\ spans \in Seq(AnySpan)
    /\ \A k \in 1..Len(spans) : spans[k].id = made + k
    /\ \A k \in 1..Len(spans) : spans[k].parent = 0 \/ spans[k].parent \in (made + 1)..(made + k - 1)

LEMMA PutOneMore ==
    ASSUME NEW u, NEW base \in Seq(AnySpan), NEW more \in Seq(AnySpan), NEW k \in 1..Len(more),
           Put(u, base, more, k - 1)
    PROVE  Put(Append(u, more[k]), base, more, k)
<1>1. PICK n \in Nat, l \in Nat : n = Len(base) /\ l = Len(more)
  BY LenProperties
<1>2. PICK e \in AnySpan : e = more[k]
  BY ElementOfSeq
<1>3. u \in Seq(AnySpan) /\ Len(u) = n + (k - 1)
  BY <1>1 DEF Put
<1>4. PICK v \in Seq(AnySpan) : v = Append(u, e)
  BY <1>3, AppendProperties
<1>5. Len(v) = n + k /\ v[n + k] = e
  BY <1>1, <1>3, <1>4
<1>6. \A i \in 1..(n + k - 1) : v[i] = u[i]
  BY ONLY <1>1, <1>2, <1>3, <1>4, k \in 1..Len(more), AppendProperties
<1>7. ASSUME NEW i \in 1..n PROVE v[i] = base[i]
  <2> i \in 1..(n + k - 1)
    BY <1>1
  <2> QED BY <1>1, <1>6 DEF Put
<1>8. ASSUME NEW i \in 1..k PROVE v[n + i] = more[i]
  <2>1. CASE i = k
    BY <2>1, <1>2, <1>5
  <2>2. CASE i # k
    <3>1. i \in 1..(k - 1) /\ n + i \in 1..(n + k - 1)
      BY <2>2, <1>1
    <3>2. u[n + i] = more[i]
      BY <3>1, <1>1 DEF Put
    <3> QED BY <3>1, <3>2, <1>6
  <2> QED BY <2>1, <2>2
<1> QED BY <1>1, <1>2, <1>4, <1>5, <1>7, <1>8 DEF Put

LEMMA PutAll ==
    ASSUME NEW u, NEW base \in Seq(AnySpan), NEW more \in Seq(AnySpan), Put(u, base, more, Len(more))
    PROVE  u = base \o more
<1>1. PICK n \in Nat, l \in Nat : n = Len(base) /\ l = Len(more)
  BY LenProperties
<1>2. PICK v \in Seq(AnySpan) : v = base \o more
  BY ConcatProperties
<1>3. u \in Seq(AnySpan) /\ Len(u) = n + l /\ Len(v) = n + l
  BY <1>1, <1>2, ConcatProperties DEF Put
<1>4. ASSUME NEW i \in 1..(n + l) PROVE u[i] = v[i]
  <2>1. CASE i <= n
    BY <2>1, <1>1, <1>2, ConcatProperties DEF Put
  <2>2. CASE i > n
    <3>1. PICK j \in 1..l : i = n + j
      <4> i - n \in 1..l /\ i = n + (i - n)
        BY <2>2
      <4> QED OBVIOUS
    <3>2. u[n + j] = more[j]
      BY <3>1, <1>1 DEF Put
    <3>3. v[n + j] = more[j]
      BY <3>1, <1>1, <1>2, ConcatProperties
    <3> QED BY <3>1, <3>2, <3>3
  <2> QED BY <2>1, <2>2
<1> QED BY <1>2, <1>3, <1>4, SeqEqual

LEMMA PutKeepsWell ==
    ASSUME NEW made \in Nat, NEW base \in Seq(AnySpan), WellStreamed(base, made),
           NEW spans, Batch(spans, made), NEW k \in Nat, k <= Len(spans), NEW u, Put(u, base, spans, k)
    PROVE  WellStreamed(u, made + Len(spans))
<1>1. PICK n \in Nat, l \in Nat : n = Len(base) /\ l = Len(spans)
  BY LenProperties DEF Batch
<1>2. Len(u) = n + k /\ k <= l
  BY <1>1 DEF Put
<1>3. ASSUME NEW i \in 1..n PROVE u[i] = base[i] /\ u[i].id \in 1..made
  BY <1>1 DEF Put, WellStreamed
<1>4. ASSUME NEW i \in 1..k
      PROVE  /\ u[n + i] = spans[i] /\ u[n + i].id = made + i
             /\ u[n + i].parent = 0 \/ u[n + i].parent \in (made + 1)..(made + i - 1)
  <2>1. i \in 1..l
    BY <1>2
  <2>2. u[n + i] = spans[i]
    BY <1>1 DEF Put
  <2> QED BY <2>1, <2>2, <1>1 DEF Batch
<1>5. ASSUME NEW i \in 1..(n + k), i > n PROVE i - n \in 1..k /\ i = n + (i - n)
  BY <1>5
<1>6. ASSUME NEW i \in 1..(n + k) PROVE u[i].id \in 1..(made + l)
  <2>1. CASE i <= n
    BY <2>1, <1>3
  <2>2. CASE i > n
    <3>1. PICK j \in 1..k : i = n + j
      BY <2>2, <1>5
    <3>2. u[i].id = made + j
      BY <3>1, <1>4
    <3>3. made + j \in 1..(made + l)
      BY <1>2
    <3> QED BY <3>2, <3>3
  <2> QED BY <2>1, <2>2
<1>7. ASSUME NEW i \in 1..(n + k), NEW j \in 1..(n + k), i < j PROVE u[i].id < u[j].id
  <2>1. CASE j <= n
    <3>1. i \in 1..n /\ j \in 1..n
      BY <2>1, <1>7
    <3>2. base[i].id < base[j].id
      BY <3>1, <1>7, <1>1 DEF WellStreamed
    <3> QED BY <3>1, <3>2, <1>3
  <2>2. CASE j > n
    <3>1. PICK q \in 1..k : j = n + q
      BY <2>2, <1>5
    <3>2. u[j].id = made + q
      BY <3>1, <1>4
    <3>3. CASE i <= n
      BY <3>2, <3>3, <1>3
    <3>4. CASE i > n
      <4>1. PICK p \in 1..k : i = n + p
        BY <3>4, <1>5
      <4>2. u[i].id = made + p
        BY <4>1, <1>4
      <4> QED BY <3>1, <3>2, <4>1, <4>2, <1>7
    <3> QED BY <3>3, <3>4
  <2> QED BY <2>1, <2>2
<1>8. ASSUME NEW i \in 1..(n + k), u[i].parent # 0
      PROVE  \E j \in 1..(i - 1) : u[j].id = u[i].parent
  <2>1. CASE i <= n
    <3>1. i \in 1..n
      BY <2>1
    <3>2. PICK j \in 1..(i - 1) : base[j].id = base[i].parent
      BY <3>1, <1>1, <1>3, <1>8 DEF WellStreamed
    <3>3. j \in 1..n
      BY <3>1
    <3> QED BY <3>1, <3>2, <3>3, <1>3
  <2>2. CASE i > n
    <3>1. PICK q \in 1..k : i = n + q
      BY <2>2, <1>5
    <3>2. u[i].parent \in (made + 1)..(made + q - 1)
      BY <3>1, <1>4, <1>8
    <3>3. PICK p \in 1..(q - 1) : u[i].parent = made + p
      <4> u[i].parent - made \in 1..(q - 1) /\ u[i].parent = made + (u[i].parent - made)
        BY <3>2
      <4> QED OBVIOUS
    <3>4. p \in 1..k /\ n + p \in 1..(i - 1)
      BY <3>1, <3>3
    <3>5. u[n + p].id = made + p
      BY <3>4, <1>4
    <3> QED BY <3>3, <3>4, <3>5
  <2> QED BY <2>1, <2>2
<1> QED BY <1>1, <1>2, <1>6, <1>7, <1>8 DEF WellStreamed


-----------------------------------------------------------------------------
\* What sendQueue has done after k spans of its queue.
Sending(t, s, room, k) ==
    /\ t \in StreamStates /\ t.room \in 0..room
    /\ Put(StreamedBy(t), s.sent, s.queue, k) /\ Len(t.queue) <= k
    /\ t.writable => t.queue = <<>> /\ t.room >= 1
    /\ t.writable <=> ~t.drains

LEMMA SendSpanIs ==
    ASSUME NEW s \in StreamStates, NEW e \in AnySpan
    PROVE  /\ SendSpan(s, e) \in StreamStates
           /\ SendSpan(s, e).sent = Append(s.sent, e) /\ SendSpan(s, e).queue = s.queue
           /\ SendSpan(s, e).room = s.room - 1 /\ (SendSpan(s, e).writable <=> s.room > 1)
           /\ (SendSpan(s, e).drains <=> s.drains \/ s.room <= 1)
<1>1. PICK a \in Seq(AnySpan) : a = Append(s.sent, e)
  BY AppendProperties DEF StreamStates
<1>2. PICK w \in BOOLEAN : w = (s.room > 1)
  BY (s.room > 1) \in BOOLEAN, Zenon
<1>5. PICK d \in BOOLEAN : d = (s.drains \/ s.room <= 1)
  OBVIOUS
<1>6. (w <=> s.room > 1) /\ (d <=> s.drains \/ s.room <= 1)
  BY <1>2, <1>5, Zenon
<1>3. PICK r \in Int : r = s.room - 1
  BY DEF StreamStates
<1>4. SendSpan(s, e) = [writable |-> w, room |-> r, drains |-> d, queue |-> s.queue, sent |-> a]
  BY <1>1, <1>2, <1>3, <1>5, Zenon DEF SendSpan
<1> QED BY <1>1, <1>3, <1>4, <1>6 DEF StreamStates

LEMMA QueueSpanIs ==
    ASSUME NEW s \in StreamStates, NEW e \in AnySpan, NEW t, t = [s EXCEPT !.queue = Append(@, e)]
    PROVE  /\ t \in StreamStates /\ t.sent = s.sent /\ t.queue = Append(s.queue, e)
           /\ t.room = s.room /\ t.writable = s.writable /\ t.drains = s.drains
<1>1. PICK a \in Seq(AnySpan) : a = Append(s.queue, e)
  BY AppendProperties DEF StreamStates
<1>2. t = [s EXCEPT !.queue = a]
  BY <1>1
<1> QED BY <1>1, <1>2 DEF StreamStates

\* A span that is sent or queued comes after all others, if the queue is empty when it is sent.
LEMMA StreamedGrows ==
    ASSUME NEW s \in StreamStates, NEW e \in AnySpan, NEW t \in StreamStates,
           \/ s.queue = <<>> /\ t.queue = <<>> /\ t.sent = Append(s.sent, e)
           \/ t.sent = s.sent /\ t.queue = Append(s.queue, e)
    PROVE  StreamedBy(t) = Append(StreamedBy(s), e)
<1>1. PICK a \in Seq(AnySpan), b \in Seq(AnySpan) : a = s.sent /\ b = s.queue
  BY DEF StreamStates
<1>2. CASE b = <<>> /\ t.queue = <<>> /\ t.sent = Append(a, e)
  <2>1. Append(a, e) \in Seq(AnySpan)
    BY AppendProperties
  <2>2. a \o <<>> = a /\ Append(a, e) \o <<>> = Append(a, e)
    BY <2>1, ConcatEmptySeq
  <2> QED BY <2>2, <1>1, <1>2 DEF StreamedBy
<1>3. CASE t.sent = a /\ t.queue = Append(b, e)
  <2>1. <<e>> \in Seq(AnySpan)
    OBVIOUS
  <2>2. Append(b, e) = b \o <<e>>
    BY AppendIsConcat
  <2>3. a \o (b \o <<e>>) = (a \o b) \o <<e>>
    BY <2>1, ConcatAssociative
  <2>4. PICK c \in Seq(AnySpan) : c = a \o b
    BY ConcatProperties
  <2>5. c \o <<e>> = Append(c, e)
    BY AppendIsConcat
  <2> QED BY <2>2, <2>3, <2>4, <2>5, <1>1, <1>3 DEF StreamedBy
<1> QED BY <1>1, <1>2, <1>3

LEMMA UnqueuedIs ==
    ASSUME NEW s \in StreamStates, NEW room \in Nat, NEW k \in 1..Len(s.queue), NEW t, Sending(t, s, room, k - 1)
    PROVE  Sending(Unqueued(t, s.queue[k]), s, room, k)
<1>1. PICK q \in Seq(AnySpan), b \in Seq(AnySpan) : q = s.queue /\ b = s.sent
  BY DEF StreamStates
<1>2. PICK e \in AnySpan : e = q[k]
  BY <1>1, ElementOfSeq
<1>3. t \in StreamStates
  BY DEF Sending
<1>4. PICK u : u = Unqueued(t, e)
  OBVIOUS
<1>5. Put(StreamedBy(t), b, q, k - 1)
  BY <1>1 DEF Sending
<1>6. Put(Append(StreamedBy(t), e), b, q, k)
  BY <1>1, <1>2, <1>5, PutOneMore
<1>7. CASE t.writable
  <2>1. u = SendSpan(t, e)
    BY <1>4, <1>7 DEF Unqueued
  <2>2. /\ u \in StreamStates /\ u.sent = Append(t.sent, e) /\ u.queue = t.queue
        /\ u.room = t.room - 1 /\ (u.writable <=> t.room > 1) /\ (u.drains <=> t.drains \/ t.room <= 1)
    BY <2>1, <1>3, SendSpanIs
  <2>3. t.queue = <<>> /\ t.room >= 1 /\ t.room \in 0..room /\ ~t.drains
    BY <1>7 DEF Sending
  <2>4. StreamedBy(u) = Append(StreamedBy(t), e)
    BY <2>2, <2>3, <1>3, StreamedGrows
  <2>5. Put(StreamedBy(u), b, q, k)
    BY <2>4, <1>6
  <2>6. u.room \in 0..room /\ u.queue = <<>> /\ Len(u.queue) <= k
    BY <2>2, <2>3
  <2>7. u.writable => u.room >= 1
    BY <2>2, <2>3
  <2>8. u.writable <=> ~u.drains
    BY <2>2, <2>3
  <2> QED BY <2>2, <2>5, <2>6, <2>7, <2>8, <1>1, <1>2, <1>4 DEF Sending
<1>8. CASE ~t.writable
  <2>1. u = [t EXCEPT !.queue = Append(@, e)]
    BY <1>4, <1>8 DEF Unqueued
  <2>2. /\ u \in StreamStates /\ u.sent = t.sent /\ u.queue = Append(t.queue, e)
        /\ u.room = t.room /\ u.writable = t.writable /\ u.drains = t.drains
    BY <2>1, <1>3, QueueSpanIs
  <2>3. StreamedBy(u) = Append(StreamedBy(t), e)
    BY <2>2, <1>3, StreamedGrows
  <2>4. Put(StreamedBy(u), b, q, k)
    BY <2>3, <1>6
  <2>5. Len(u.queue) <= k
    <3>1. PICK x \in Seq(AnySpan) : x = t.queue
      BY <1>3 DEF StreamStates
    <3>2. Len(x) <= k - 1
      BY <3>1 DEF Sending
    <3> QED BY <3>1, <3>2, <2>2
  <2> QED BY <2>2, <2>4, <2>5, <1>1, <1>2, <1>4, <1>8 DEF Sending
<1> QED BY <1>7, <1>8


\* What sendQueue leaves: everything once, in order, and a drain to wait for unless it all went.
Sent(t, s, room) ==
    /\ t \in StreamStates /\ t.room \in 0..room
    /\ StreamedBy(t) = StreamedBy(s) /\ Len(t.queue) <= Len(s.queue)
    /\ t.writable => t.queue = <<>> /\ t.room >= 1
    /\ t.writable <=> ~t.drains

LEMMA SendQueueIs ==
    ASSUME NEW s \in StreamStates, NEW room \in Nat \ {0}
    PROVE  Sent(SendQueue(s, room), s, room)
<1>1. PICK q \in Seq(AnySpan), b \in Seq(AnySpan) : q = s.queue /\ b = s.sent
  BY DEF StreamStates
<1>2. PICK n \in Nat : n = Len(q)
  BY LenProperties
<1>3. PICK c \in StreamStates : c = [writable |-> TRUE, room |-> room, drains |-> FALSE, queue |-> <<>>, sent |-> s.sent]
  <2>1. [writable |-> TRUE, room |-> room, drains |-> FALSE, queue |-> <<>>, sent |-> s.sent] \in StreamStates
    BY <1>1 DEF StreamStates
  <2> QED BY <2>1
<1>4. /\ c.writable = TRUE /\ c.room = room /\ c.drains = FALSE /\ c.queue = <<>> /\ c.sent = b
  BY <1>1, <1>3 DEF StreamStates
<1>5. ASSUME NEW x \in StreamStates, NEW k \in 1..n PROVE Unqueued(x, q[k]) \in StreamStates
  <2>1. PICK e \in AnySpan : e = q[k]
    BY <1>2, ElementOfSeq
  <2>2. SendSpan(x, e) \in StreamStates
    BY SendSpanIs
  <2>3. PICK y : y = [x EXCEPT !.queue = Append(@, e)]
    OBVIOUS
  <2>4. y \in StreamStates
    BY <2>3, QueueSpanIs
  <2> QED BY <2>1, <2>2, <2>3, <2>4 DEF Unqueued
<1>6. PICK F : F = [p \in StreamStates \X (1..n) |-> Unqueued(p[1], q[p[2]])]
  OBVIOUS
<1>7. F \in [StreamStates \X (1..n) -> StreamStates]
  BY <1>5, <1>6
<1>8. RunsOf(StreamStates, n, F, c) # {}
  BY <1>7, Repeated
<1>9. PICK g \in [0..n -> StreamStates] : g[0] = c /\ \A k \in 1..n : g[k] = F[<<g[k - 1], k>>]
  BY <1>8 DEF RunsOf
<1>10. ASSUME NEW k \in 1..n PROVE g[k] = Unqueued(g[k - 1], q[k])
  <2> k - 1 \in 0..n
    OBVIOUS
  <2>1. <<g[k - 1], k>> \in StreamStates \X (1..n)
    BY <1>9, Zenon
  <2> QED BY <2>1, <1>6, <1>9
<1> DEFINE next(m, k) == IF k = 0 THEN [writable |-> TRUE, room |-> room, drains |-> FALSE, queue |-> <<>>, sent |-> s.sent]
                         ELSE Unqueued(m[k - 1], s.queue[k])
<1>11. g = [k \in 0..Len(s.queue) |-> next(g, k)]
  <2>1. PICK h : h = [k \in 0..n |-> next(g, k)]
    OBVIOUS
  <2>2. ASSUME NEW k \in 0..n PROVE g[k] = next(g, k)
    <3>1. CASE k = 0
      BY <3>1, <1>3, <1>9
    <3>2. CASE k # 0
      <4>1. k \in 1..n
        BY <3>2
      <4>2. g[k] = Unqueued(g[k - 1], q[k])
        BY <4>1, <1>10
      <4> QED BY <4>2, <3>2, <1>1, Zenon
    <3> QED BY <3>1, <3>2
  <2> HIDE DEF next
  <2>3. g = h
    BY <2>1, <2>2, <1>9
  <2> QED BY <2>1, <2>3, <1>1, <1>2
<1>12. PICK m : m = CHOOSE mm : mm = [k \in 0..Len(s.queue) |-> next(mm, k)]
  OBVIOUS
<1>13. m = [k \in 0..Len(s.queue) |-> next(m, k)]
  <2> HIDE DEF next
  <2> QED BY <1>11, <1>12
<1>14. SendQueue(s, room) = m[n]
  BY <1>1, <1>2, <1>12, Zenon DEF SendQueue
<1>15. m[0] = c /\ \A k \in 1..n : m[k] = Unqueued(m[k - 1], q[k])
  <2>1. 0 \in 0..n /\ \A k \in 1..n : k \in 0..n /\ k # 0
    OBVIOUS
  <2>2. \A k \in 0..n : m[k] = next(m, k)
    <3> HIDE DEF next
    <3> QED BY <1>1, <1>2, <1>13
  <2> QED BY <2>1, <2>2, <1>1, <1>3, Zenon
<1> HIDE DEF next
<1>16. PICK J : J = {k \in 0..n : Sending(m[k], s, room, k)}
  OBVIOUS
<1>17. 0 \in J
  <2>1. StreamedBy(c) = b
    BY <1>1, <1>4, ConcatEmptySeq DEF StreamedBy
  <2>2. Put(b, b, q, 0)
    BY LenProperties DEF Put
  <2>3. Sending(c, s, room, 0)
    BY <2>1, <2>2, <1>1, <1>4 DEF Sending
  <2> QED BY <2>3, <1>15, <1>16
<1>18. ASSUME NEW k \in 1..n, k - 1 \in J PROVE k \in J
  <2>1. PICK t : t = m[k - 1] /\ Sending(t, s, room, k - 1)
    BY <1>16, <1>18
  <2>2. Sending(Unqueued(t, s.queue[k]), s, room, k)
    BY <2>1, <1>1, <1>2, UnqueuedIs
  <2> QED BY <2>1, <2>2, <1>1, <1>15, <1>16
<1>19. n \in J
  <2> Climbs(J, n)
    BY <1>17, <1>18 DEF Climbs
  <2> QED BY StepByStep
<1>20. PICK t : t = SendQueue(s, room) /\ Sending(t, s, room, n)
  BY <1>14, <1>16, <1>19
<1>21. Put(StreamedBy(t), b, q, Len(q))
  BY <1>1, <1>2, <1>20 DEF Sending
<1>22. StreamedBy(t) = b \o q
  BY <1>21, PutAll
<1>23. StreamedBy(t) = StreamedBy(s)
  BY <1>1, <1>22 DEF StreamedBy
<1> QED BY <1>1, <1>2, <1>20, <1>23 DEF Sending, Sent


-----------------------------------------------------------------------------
\* A streamer between steps.
StreamOk(s) ==
    /\ s \in StreamStates /\ s.room \in Nat /\ Len(s.queue) <= QueueSize + 1
    /\ s.writable => s.queue = <<>> /\ s.room >= 1
    /\ ~(s.writable /\ s.drains)
Stuck(s) == ~s.writable /\ Len(s.queue) > QueueSize

\* After k spans were written: some first ones have been taken, and all unless the queue is full.
Writing(t, s, spans, k) ==
    /\ StreamOk(t) /\ t.room <= s.room
    /\ (t.writable \/ t.drains) <=> (s.writable \/ s.drains)
    /\ \E j \in 0..k : Put(StreamedBy(t), StreamedBy(s), spans, j) /\ (j = k \/ Stuck(t))

LEMMA WriteSpanIs ==
    ASSUME NEW s, StreamOk(s), NEW spans \in Seq(AnySpan), NEW k \in 1..Len(spans),
           NEW t, Writing(t, s, spans, k - 1)
    PROVE  Writing(WriteSpan(t, spans[k]), s, spans, k)
<1>1. PICK e \in AnySpan : e = spans[k]
  BY ElementOfSeq
<1>2. PICK u : u = WriteSpan(t, e)
  OBVIOUS
<1>3. StreamOk(t) /\ t \in StreamStates /\ s \in StreamStates
  BY DEF Writing, StreamOk
<1>4. PICK b \in Seq(AnySpan) : b = StreamedBy(s)
  BY <1>3, ConcatProperties DEF StreamStates, StreamedBy
<1>5. PICK j \in 0..(k - 1) : Put(StreamedBy(t), b, spans, j) /\ (j = k - 1 \/ Stuck(t))
  BY <1>4 DEF Writing
<1>6. QueueSize \in Nat /\ t.room <= s.room /\ t.room \in Nat /\ s.room \in Nat
  BY SpansAssumption DEF Writing, StreamOk
<1>7. (t.writable \/ t.drains) <=> (s.writable \/ s.drains)
  BY DEF Writing
<1>8. PICK x \in Seq(AnySpan) : x = t.queue
  BY <1>3 DEF StreamStates
<1>9. CASE t.writable
  <2>1. u = SendSpan(t, e)
    BY <1>2, <1>9 DEF WriteSpan
  <2>2. /\ u \in StreamStates /\ u.sent = Append(t.sent, e) /\ u.queue = t.queue
        /\ u.room = t.room - 1 /\ (u.writable <=> t.room > 1) /\ (u.drains <=> t.drains \/ t.room <= 1)
    BY <2>1, <1>3, SendSpanIs
  <2>3. t.queue = <<>> /\ t.room >= 1 /\ ~t.drains
    BY <1>3, <1>9 DEF StreamOk
  <2>4. StreamedBy(u) = Append(StreamedBy(t), e)
    BY <2>2, <2>3, <1>3, StreamedGrows
  <2>5. j = k - 1
    BY <1>5, <1>9 DEF Stuck
  <2>6. Put(StreamedBy(u), b, spans, k)
    BY <2>4, <2>5, <1>1, <1>5, PutOneMore
  <2>7. StreamOk(u)
    BY <2>2, <2>3, <1>6 DEF StreamOk
  <2>8. u.room <= s.room
    BY <2>2, <1>6
  <2>9. (u.writable \/ u.drains) <=> (s.writable \/ s.drains)
    BY <2>2, <1>6, <1>7, <1>9
  <2>10. k \in 0..k
    OBVIOUS
  <2> QED BY <2>6, <2>7, <2>8, <2>9, <2>10, <1>1, <1>2, <1>4 DEF Writing
<1>10. CASE ~t.writable /\ Len(x) <= QueueSize
  <2>1. u = [t EXCEPT !.queue = Append(@, e)]
    BY <1>2, <1>8, <1>10 DEF WriteSpan
  <2>2. /\ u \in StreamStates /\ u.sent = t.sent /\ u.queue = Append(t.queue, e)
        /\ u.room = t.room /\ u.writable = t.writable /\ u.drains = t.drains
    BY <2>1, <1>3, QueueSpanIs
  <2>3. StreamedBy(u) = Append(StreamedBy(t), e)
    BY <2>2, <1>3, StreamedGrows
  <2>4. j = k - 1
    <3> PICK l \in Nat : l = Len(x)
      BY LenProperties
    <3> QED BY <1>5, <1>6, <1>8, <1>10 DEF Stuck
  <2>5. Put(StreamedBy(u), b, spans, k)
    BY <2>3, <2>4, <1>1, <1>5, PutOneMore
  <2>6. Len(u.queue) <= QueueSize + 1
    <3>1. Len(Append(x, e)) = Len(x) + 1 /\ Len(x) \in Nat
      BY AppendProperties, LenProperties
    <3> QED BY <3>1, <2>2, <1>6, <1>8, <1>10
  <2>7. StreamOk(u)
    BY <2>2, <2>6, <1>6, <1>10 DEF StreamOk
  <2>8. k \in 0..k
    OBVIOUS
  <2> QED BY <2>2, <2>5, <2>7, <2>8, <1>1, <1>2, <1>4, <1>6, <1>7 DEF Writing
<1>11. CASE ~t.writable /\ ~(Len(x) <= QueueSize)
  <2>1. u = t
    BY <1>2, <1>8, <1>11 DEF WriteSpan
  <2>2. Stuck(t)
    <3> PICK l \in Nat : l = Len(x)
      BY LenProperties
    <3> QED BY <1>6, <1>8, <1>11 DEF Stuck
  <2>3. j \in 0..k
    OBVIOUS
  <2> QED BY <2>1, <2>2, <2>3, <1>1, <1>2, <1>3, <1>4, <1>5, <1>6, <1>7 DEF Writing
<1> QED BY <1>9, <1>10, <1>11

LEMMA WriteSpansIs ==
    ASSUME NEW s, StreamOk(s), NEW spans \in Seq(AnySpan)
    PROVE  Writing(WriteSpans(s, spans), s, spans, Len(spans))
<1>1. PICK n \in Nat : n = Len(spans)
  BY LenProperties
<1>2. s \in StreamStates
  BY DEF StreamOk
<1>3. ASSUME NEW x \in StreamStates, NEW k \in 1..n PROVE WriteSpan(x, spans[k]) \in StreamStates
  <2>1. PICK e \in AnySpan : e = spans[k]
    BY <1>1, ElementOfSeq
  <2>2. SendSpan(x, e) \in StreamStates
    BY SendSpanIs
  <2>3. PICK y : y = [x EXCEPT !.queue = Append(@, e)]
    OBVIOUS
  <2>4. y \in StreamStates
    BY <2>3, QueueSpanIs
  <2> QED BY <2>1, <2>2, <2>3, <2>4 DEF WriteSpan
<1>4. PICK F : F = [p \in StreamStates \X (1..n) |-> WriteSpan(p[1], spans[p[2]])]
  OBVIOUS
<1>5. F \in [StreamStates \X (1..n) -> StreamStates]
  BY <1>3, <1>4
<1>6. RunsOf(StreamStates, n, F, s) # {}
  BY <1>2, <1>5, Repeated
<1>7. PICK g \in [0..n -> StreamStates] : g[0] = s /\ \A k \in 1..n : g[k] = F[<<g[k - 1], k>>]
  BY <1>6 DEF RunsOf
<1>8. ASSUME NEW k \in 1..n PROVE g[k] = WriteSpan(g[k - 1], spans[k])
  <2> k - 1 \in 0..n
    OBVIOUS
  <2>1. <<g[k - 1], k>> \in StreamStates \X (1..n)
    BY <1>7, Zenon
  <2> QED BY <2>1, <1>4, <1>7
<1> DEFINE next(m, k) == IF k = 0 THEN s ELSE WriteSpan(m[k - 1], spans[k])
<1>9. g = [k \in 0..Len(spans) |-> next(g, k)]
  <2>1. PICK h : h = [k \in 0..n |-> next(g, k)]
    OBVIOUS
  <2>2. ASSUME NEW k \in 0..n PROVE g[k] = next(g, k)
    <3>1. CASE k = 0
      BY <3>1, <1>7
    <3>2. CASE k # 0
      <4>1. k \in 1..n
        BY <3>2
      <4>2. g[k] = WriteSpan(g[k - 1], spans[k])
        BY <4>1, <1>8
      <4> QED BY <4>2, <3>2, Zenon
    <3> QED BY <3>1, <3>2
  <2> HIDE DEF next
  <2>3. g = h
    BY <2>1, <2>2, <1>7
  <2> QED BY <2>1, <2>3, <1>1
<1>10. PICK m : m = CHOOSE mm : mm = [k \in 0..Len(spans) |-> next(mm, k)]
  OBVIOUS
<1>11. m = [k \in 0..Len(spans) |-> next(m, k)]
  <2> HIDE DEF next
  <2> QED BY <1>9, <1>10
<1>12. WriteSpans(s, spans) = m[n]
  BY <1>1, <1>10, Zenon DEF WriteSpans
<1>13. m[0] = s /\ \A k \in 1..n : m[k] = WriteSpan(m[k - 1], spans[k])
  <2>1. 0 \in 0..n /\ \A k \in 1..n : k \in 0..n /\ k # 0
    OBVIOUS
  <2>2. \A k \in 0..n : m[k] = next(m, k)
    <3> HIDE DEF next
    <3> QED BY <1>1, <1>11
  <2> QED BY <2>1, <2>2, Zenon
<1> HIDE DEF next
<1>14. PICK J : J = {k \in 0..n : Writing(m[k], s, spans, k)}
  OBVIOUS
<1>15. 0 \in J
  <2>1. PICK b \in Seq(AnySpan) : b = StreamedBy(s)
    BY <1>2, ConcatProperties DEF StreamStates, StreamedBy
  <2>2. Put(b, b, spans, 0)
    BY LenProperties DEF Put
  <2>3. s.room <= s.room /\ 0 \in 0..0
    BY DEF StreamOk
  <2>4. Writing(s, s, spans, 0)
    BY <2>1, <2>2, <2>3 DEF Writing
  <2> QED BY <2>4, <1>13, <1>14
<1>16. ASSUME NEW k \in 1..n, k - 1 \in J PROVE k \in J
  <2>1. PICK t : t = m[k - 1] /\ Writing(t, s, spans, k - 1)
    BY <1>14, <1>16
  <2>2. Writing(WriteSpan(t, spans[k]), s, spans, k)
    BY <2>1, <1>1, WriteSpanIs
  <2> QED BY <2>1, <2>2, <1>13, <1>14
<1>17. n \in J
  <2> Climbs(J, n)
    BY <1>15, <1>16 DEF Climbs
  <2> QED BY StepByStep
<1> QED BY <1>1, <1>12, <1>14, <1>17


-----------------------------------------------------------------------------
Nodes(tree) == [segment : 1..Len(tree), parent : Nat]
Walks(tree) == [stack : Seq(Nodes(tree)), spans : Seq(AnySpan)]
\* Who waits on the stack has a parent whose span has been made, or is the caller's.
WalkOk(w, tree, made) ==
    /\ w \in Walks(tree) /\ Batch(w.spans, made)
    /\ \A i \in 1..Len(w.stack) :
           w.stack[i].parent = 0 \/ w.stack[i].parent \in (made + 1)..(made + Len(w.spans))

LEMMA NodesAre ==
    ASSUME NEW tree \in SegmentTrees, NEW x \in 1..Len(tree), NEW id \in Nat
    PROVE  /\ NodesBelow(tree, x, id) \in Seq(Nodes(tree))
           /\ \A i \in 1..Len(NodesBelow(tree, x, id)) : NodesBelow(tree, x, id)[i].parent = id
<1>1. PICK P : P = 1..Len(tree)
  OBVIOUS
<1>2. tree \in Seq(Seq(P))
  BY <1>1, SpansAssumption
<1>3. PICK c \in Seq(P) : c = tree[x]
  BY <1>2, ElementOfSeq
<1>4. PICK n \in Nat : n = Len(c) /\ DOMAIN c = 1..n
  BY LenProperties
<1>5. PICK b : b = [i \in 1..n |-> [segment |-> c[i], parent |-> id]]
  OBVIOUS
<1>6. ASSUME NEW i \in 1..n PROVE [segment |-> c[i], parent |-> id] \in Nodes(tree)
  <2> c[i] \in P
    BY <1>4, ElementOfSeq
  <2> QED BY <1>1 DEF Nodes
<1>7. b \in Seq(Nodes(tree)) /\ Len(b) = n
  BY <1>5, <1>6, IsASeq, LenProperties
<1>8. NodesBelow(tree, x, id) = b
  BY <1>3, <1>4, <1>5 DEF NodesBelow
<1> QED BY <1>5, <1>7, <1>8

LEMMA TakeIs ==
    ASSUME NEW tree \in SegmentTrees, NEW made \in Nat, NEW w \in Walks(tree), w.stack # <<>>
    PROVE  /\ TakeSegment(tree, w, made) \in Walks(tree)
           /\ WalkOk(w, tree, made) => WalkOk(TakeSegment(tree, w, made), tree, made)
<1>1. PICK st \in Seq(Nodes(tree)), sp \in Seq(AnySpan) : st = w.stack /\ sp = w.spans
  BY DEF Walks
<1>2. PICK n \in Nat, l \in Nat : n = Len(st) /\ l = Len(sp)
  BY LenProperties
<1>3. n >= 1
  BY <1>1, <1>2, EmptySeq
<1>4. PICK node \in Nodes(tree) : node = st[n]
  BY <1>2, <1>3, ElementOfSeq
<1>5. PICK id \in Nat : id = made + l + 1
  OBVIOUS
<1>6. PICK front \in Seq(Nodes(tree)) : front = SubSeq(st, 1, n - 1) /\ Len(front) = n - 1
                                       /\ \A i \in 1..(n - 1) : front[i] = st[i]
  <2>1. \A i \in 1..(n - 1) : i \in 1..Len(st)
    BY <1>2
  <2>2. SubSeq(st, 1, n - 1) \in Seq(Nodes(tree)) /\ Len(SubSeq(st, 1, n - 1)) = n - 1
    BY <1>2, <1>3, SubSeqProperties
  <2>3. \A i \in 1..(n - 1) : SubSeq(st, 1, n - 1)[i] = st[i]
    BY <1>2, <1>3, SubSeqProperties
  <2> QED BY <2>2, <2>3
<1>7. node.segment \in 1..Len(tree) /\ node.parent \in Nat
  BY DEF Nodes
<1>8. PICK below \in Seq(Nodes(tree)) : /\ below = NodesBelow(tree, node.segment, id)
                                       /\ \A i \in 1..Len(below) : below[i].parent = id
  BY <1>7, NodesAre
<1>9. PICK b \in Nat : b = Len(below)
  BY LenProperties
<1>10. PICK stack \in Seq(Nodes(tree)) : stack = front \o below
  BY ConcatProperties
<1>11. /\ Len(stack) = n - 1 + b /\ \A i \in 1..(n - 1) : stack[i] = front[i]
       /\ \A i \in 1..(n - 1 + b) : i > n - 1 => stack[i] = below[i - (n - 1)]
  <2>1. PICK f \in Nat : f = n - 1
    BY <1>3
  <2>2. Len(front) = f /\ Len(below) = b
    BY <2>1, <1>6, <1>9
  <2>3. /\ Len(front \o below) = Len(front) + Len(below)
        /\ \A i \in 1..(Len(front) + Len(below)) :
               (front \o below)[i] = IF i <= Len(front) THEN front[i] ELSE below[i - Len(front)]
    BY ConcatProperties
  <2>4. Len(stack) = f + b /\ \A i \in 1..(f + b) : stack[i] = IF i <= f THEN front[i] ELSE below[i - f]
    BY ONLY <2>2, <2>3, <1>10
  <2> QED BY ONLY <2>1, <2>4, n \in Nat, b \in Nat
<1>12. PICK e \in AnySpan : e = [id |-> id, parent |-> node.parent]
  BY <1>7 DEF AnySpan
<1>13. PICK spans \in Seq(AnySpan) : spans = Append(sp, e) /\ Len(spans) = l + 1 /\ spans[l + 1] = e
                                    /\ \A i \in 1..l : spans[i] = sp[i]
  <2>1. PICK a \in Seq(AnySpan) : a = Append(sp, e)
    BY AppendProperties
  <2>2. Len(a) = l + 1 /\ a[l + 1] = e /\ \A i \in 1..l : a[i] = sp[i]
    BY ONLY <2>1, <1>2, sp \in Seq(AnySpan), e \in AnySpan, AppendProperties
  <2> QED BY <2>1, <2>2
<1>14. PICK v : v = [stack |-> stack, spans |-> spans]
  OBVIOUS
<1>15. v = TakeSegment(tree, w, made)
  <2>1. TakeSegment(tree, w, made) =
            [stack |-> SubSeq(st, 1, n - 1) \o NodesBelow(tree, st[n].segment, made + l + 1),
             spans |-> Append(sp, [id |-> made + l + 1, parent |-> st[n].parent])]
    BY <1>1, <1>2, Zenon DEF TakeSegment
  <2> QED BY <2>1, <1>4, <1>5, <1>6, <1>8, <1>10, <1>12, <1>13, <1>14, Zenon
<1>16. v \in Walks(tree) /\ v.stack = stack /\ v.spans = spans
  BY <1>14 DEF Walks
<1>17. ASSUME WalkOk(w, tree, made) PROVE WalkOk(v, tree, made)
  <2>1. \A k \in 1..l : sp[k].id = made + k /\ (sp[k].parent = 0 \/ sp[k].parent \in (made + 1)..(made + k - 1))
    BY <1>1, <1>2, <1>17 DEF WalkOk, Batch
  <2>2. \A i \in 1..n : st[i].parent = 0 \/ st[i].parent \in (made + 1)..(made + l)
    BY <1>1, <1>2, <1>17 DEF WalkOk
  <2>3. e.id = made + (l + 1) /\ (e.parent = 0 \/ e.parent \in (made + 1)..(made + l))
    BY <2>2, <1>3, <1>4, <1>5, <1>12
  <2>4. ASSUME NEW k \in 1..(l + 1)
        PROVE  spans[k].id = made + k /\ (spans[k].parent = 0 \/ spans[k].parent \in (made + 1)..(made + k - 1))
    <3>1. CASE k = l + 1
      BY <3>1, <2>3, <1>13
    <3>2. CASE k # l + 1
      <4> k \in 1..l
        BY <3>2
      <4> QED BY <2>1, <1>13
    <3> QED BY <3>1, <3>2
  <2>5. Batch(spans, made)
    BY <2>4, <1>13 DEF Batch
  <2>6. ASSUME NEW i \in 1..(n - 1 + b)
        PROVE  stack[i].parent = 0 \/ stack[i].parent \in (made + 1)..(made + (l + 1))
    <3>1. CASE i <= n - 1
      <4>1. i \in 1..(n - 1) /\ i \in 1..n
        BY <3>1
      <4>2. stack[i] = st[i]
        BY <4>1, <1>6, <1>11
      <4>3. (made + 1)..(made + l) \subseteq (made + 1)..(made + (l + 1))
        OBVIOUS
      <4> QED BY <4>1, <4>2, <4>3, <2>2
    <3>2. CASE i > n - 1
      <4>1. i - (n - 1) \in 1..b
        BY <3>2, <1>3
      <4>2. stack[i].parent = id
        BY <4>1, <3>2, <1>8, <1>9, <1>11
      <4> QED BY <4>2, <1>5
    <3> QED BY <3>1, <3>2, <1>3
  <2> QED BY <2>5, <2>6, <1>11, <1>13, <1>16 DEF WalkOk
<1> QED BY <1>15, <1>16, <1>17

LEMMA SpansAreBatch ==
    ASSUME NEW tree \in SegmentTrees, NEW made \in Nat
    PROVE  Batch(SpansOf(tree, made), made)
<1>1. PICK n \in Nat : n = Len(tree) - 1
  <2>1. tree \in Seq(Seq(1..Len(tree))) /\ tree # <<>>
    BY SpansAssumption
  <2>2. Len(tree) \in Nat /\ Len(tree) # 0
    BY <2>1, EmptySeq, LenProperties
  <2> QED BY <2>2
<1>2. PICK B : B = Walks(tree)
  OBVIOUS
<1>3. PICK c : c = [stack |-> NodesBelow(tree, 1, 0), spans |-> <<>>]
  OBVIOUS
<1>4. c \in B /\ WalkOk(c, tree, made)
  <2>1. 1 \in 1..Len(tree)
    BY <1>1
  <2>2. PICK st \in Seq(Nodes(tree)) : st = NodesBelow(tree, 1, 0) /\ \A i \in 1..Len(st) : st[i].parent = 0
    BY <2>1, NodesAre
  <2>3. c.stack = st /\ c.spans = <<>> /\ c \in Walks(tree)
    BY <2>2, <1>3 DEF Walks
  <2>4. Batch(c.spans, made)
    BY <2>3 DEF Batch
  <2> QED BY <2>2, <2>3, <2>4, <1>2 DEF WalkOk
<1>5. PICK F : F = [p \in B \X (1..n) |-> IF p[1].stack = <<>> THEN p[1] ELSE TakeSegment(tree, p[1], made)]
  OBVIOUS
<1>6. F \in [B \X (1..n) -> B]
  <2>1. ASSUME NEW x \in B PROVE (IF x.stack = <<>> THEN x ELSE TakeSegment(tree, x, made)) \in B
    BY <1>2, TakeIs
  <2> QED BY <2>1, <1>5
<1>7. RunsOf(B, n, F, c) # {}
  BY <1>4, <1>6, Repeated
<1>8. PICK g \in [0..n -> B] : g[0] = c /\ \A k \in 1..n : g[k] = F[<<g[k - 1], k>>]
  BY <1>7 DEF RunsOf
<1>9. ASSUME NEW k \in 1..n
      PROVE  g[k] = IF g[k - 1].stack = <<>> THEN g[k - 1] ELSE TakeSegment(tree, g[k - 1], made)
  <2> k - 1 \in 0..n
    OBVIOUS
  <2>1. <<g[k - 1], k>> \in B \X (1..n)
    BY <1>8, Zenon
  <2> QED BY <2>1, <1>5, <1>8
<1> DEFINE next(m, k) == IF k = 0 THEN [stack |-> NodesBelow(tree, 1, 0), spans |-> <<>>]
                         ELSE IF m[k - 1].stack = <<>> THEN m[k - 1]
                         ELSE TakeSegment(tree, m[k - 1], made)
<1>10. g = [k \in 0..(Len(tree) - 1) |-> next(g, k)]
  <2>1. PICK h : h = [k \in 0..n |-> next(g, k)]
    OBVIOUS
  <2>2. ASSUME NEW k \in 0..n PROVE g[k] = next(g, k)
    <3>1. CASE k = 0
      BY <3>1, <1>3, <1>8
    <3>2. CASE k # 0
      <4>1. k \in 1..n
        BY <3>2
      <4>2. g[k] = IF g[k - 1].stack = <<>> THEN g[k - 1] ELSE TakeSegment(tree, g[k - 1], made)
        BY <4>1, <1>9
      <4> QED BY <4>2, <3>2, Zenon
    <3> QED BY <3>1, <3>2
  <2> HIDE DEF next
  <2>3. g = h
    BY <2>1, <2>2, <1>8
  <2> QED BY <2>1, <2>3, <1>1
<1>11. PICK m : m = CHOOSE mm : mm = [k \in 0..(Len(tree) - 1) |-> next(mm, k)]
  OBVIOUS
<1>12. m = [k \in 0..(Len(tree) - 1) |-> next(m, k)]
  <2> HIDE DEF next
  <2> QED BY <1>10, <1>11
<1>13. SpansOf(tree, made) = m[n].spans
  BY <1>1, <1>11, Zenon DEF SpansOf
<1>14. m[0] = c /\ \A k \in 1..n : m[k] = IF m[k - 1].stack = <<>> THEN m[k - 1] ELSE TakeSegment(tree, m[k - 1], made)
  <2>1. 0 \in 0..n /\ \A k \in 1..n : k \in 0..n /\ k # 0
    OBVIOUS
  <2>2. \A k \in 0..n : m[k] = next(m, k)
    <3> HIDE DEF next
    <3> QED BY <1>1, <1>12
  <2> QED BY <2>1, <2>2, <1>3, Zenon
<1> HIDE DEF next
<1>15. PICK J : J = {k \in 0..n : WalkOk(m[k], tree, made)}
  OBVIOUS
<1>16. 0 \in J
  BY <1>4, <1>14, <1>15
<1>17. ASSUME NEW k \in 1..n, k - 1 \in J PROVE k \in J
  <2>1. PICK w : w = m[k - 1] /\ WalkOk(w, tree, made)
    BY <1>15, <1>17
  <2>2. w \in Walks(tree)
    BY <2>1 DEF WalkOk
  <2>3. CASE w.stack = <<>>
    BY <2>1, <2>3, <1>14, <1>15
  <2>4. CASE w.stack # <<>>
    <3>1. WalkOk(TakeSegment(tree, w, made), tree, made)
      BY <2>1, <2>2, <2>4, TakeIs
    <3> QED BY <3>1, <2>1, <2>4, <1>14, <1>15
  <2> QED BY <2>3, <2>4
<1>18. n \in J
  <2> Climbs(J, n)
    BY <1>16, <1>17 DEF Climbs
  <2> QED BY StepByStep
<1> QED BY <1>13, <1>15, <1>18 DEF WalkOk


-----------------------------------------------------------------------------
Aggs == [started : BOOLEAN, run : SpanRuns]
Links == [up : BOOLEAN, run : {0} \cup SpanRuns, stream : {0} \cup SpanRuns, open : 0..1]
Pasts == [made : 0..MaxSpans, gaveUp : BOOLEAN, leftover : BOOLEAN]
SpanTypes(a, k, r, p) == a \in Aggs /\ r \in 0..MaxReconnects /\ k \in Links /\ p \in Pasts

\* The streamer knows of the connection: it may write, or hears when it may, while that is up.
StreamFits(k, s, p) ==
    /\ StreamOk(s) /\ s.room <= MaxObserverRoom
    /\ k.up <=> (s.writable \/ s.drains)
    /\ WellStreamed(StreamedBy(s), p.made)

\* Unless a timer outlived the last stop, a stopped aggregator has none, and no stream.
RunFits(a, k, r, p) ==
    /\ k.open = IF k.up THEN 1 ELSE 0
    /\ a.started => k.run = a.run
    /\ a.started /\ ~k.up => r > 0 \/ p.gaveUp
    /\ ~p.leftover /\ k.up => a.started /\ k.stream = a.run
    /\ ~p.leftover /\ ~a.started => r = 0

SpanInv ==
    /\ SpanTypes(spanAgg, link, reconnects, spanPast)
    /\ StreamFits(link, streamer, spanPast)
    /\ RunFits(spanAgg, link, reconnects, spanPast)

LEMMA SpanInitially == SpanStreamInit => SpanInv
<1> SUFFICES ASSUME SpanStreamInit PROVE SpanInv
  OBVIOUS
<1>1. PICK a, k, s, p : /\ a = [started |-> FALSE, run |-> 1]
                        /\ k = [up |-> FALSE, run |-> 0, stream |-> 0, open |-> 0]
                        /\ s = [writable |-> FALSE, room |-> 0, drains |-> FALSE, queue |-> <<>>, sent |-> <<>>]
                        /\ p = [made |-> 0, gaveUp |-> FALSE, leftover |-> FALSE]
  OBVIOUS
<1>2. SpanTypes(a, k, 0, p)
  BY <1>1, SpansAssumption DEF SpanTypes, SpanRuns, Aggs, Links, Pasts
<1>3. s \in StreamStates
  BY <1>1 DEF StreamStates
<1>4. StreamOk(s)
  BY <1>1, <1>3, SpansAssumption DEF StreamOk
<1>5. StreamedBy(s) = <<>>
  <2>1. <<>> \in Seq(AnySpan)
    OBVIOUS
  <2> QED BY <2>1, <1>1, ConcatEmptySeq DEF StreamedBy
<1>6. StreamFits(k, s, p)
  <2>1. WellStreamed(<<>>, p.made)
    BY DEF WellStreamed
  <2> QED BY <2>1, <1>1, <1>4, <1>5, SpansAssumption DEF StreamFits
<1>7. RunFits(a, k, 0, p)
  BY <1>1 DEF RunFits
<1> QED BY <1>1, <1>2, <1>6, <1>7 DEF SpanStreamInit, SpanInv

\* The stream ends.
EndedStream(k) == [k EXCEPT !.up = FALSE, !.stream = 0, !.open = @ - 1]

LEMMA StreamEnds ==
    ASSUME NEW k \in Links, k.up,
           k.open = 1
    PROVE  /\ EndedStream(k) \in Links
           /\ EndedStream(k).up = FALSE /\ EndedStream(k).open = 0 /\ EndedStream(k).run = k.run
<1>1. EndedStream(k) = [k EXCEPT !.up = FALSE, !.stream = 0, !.open = 0]
  BY DEF EndedStream
<1>2. PICK x : x = [k EXCEPT !.up = FALSE]
  OBVIOUS
<1>3. x \in Links
      /\ x.up = FALSE /\ x.run = k.run
  BY <1>2 DEF Links
<1>4. PICK y : y = [x EXCEPT !.stream = 0]
  OBVIOUS
<1>5. y \in Links
      /\ y.up = FALSE /\ y.run = k.run
  BY <1>3, <1>4 DEF Links
<1>6. EndedStream(k) = [y EXCEPT !.open = 0]
  BY <1>1, <1>2, <1>4, Zenon
<1> QED BY <1>5, <1>6 DEF Links

LEMMA LinkGoesDown ==
    ASSUME NEW k, NEW s, NEW p, p.made \in Nat, StreamFits(k, s, p), NEW n, n.up = FALSE
    PROVE  StreamFits(n, OnLinkDown(s), p)
<1>1. s \in StreamStates /\ StreamOk(s)
  BY DEF StreamFits, StreamOk
<1>2. PICK x : x = [s EXCEPT !.writable = FALSE]
  OBVIOUS
<1>3. x \in StreamStates /\ x.writable = FALSE /\ x.queue = s.queue /\ x.sent = s.sent
  BY <1>1, <1>2 DEF StreamStates
<1>4. PICK y : y = [x EXCEPT !.room = 0]
  OBVIOUS
<1>5. y \in StreamStates /\ y.writable = FALSE /\ y.room = 0 /\ y.queue = s.queue /\ y.sent = s.sent
  BY <1>3, <1>4 DEF StreamStates
<1>6. PICK z : z = [y EXCEPT !.drains = FALSE]
  OBVIOUS
<1>7. /\ z \in StreamStates /\ z.writable = FALSE /\ z.room = 0 /\ z.drains = FALSE
      /\ z.queue = s.queue /\ z.sent = s.sent
  BY <1>5, <1>6 DEF StreamStates
<1>8. z = OnLinkDown(s)
  BY <1>2, <1>4, <1>6, Zenon DEF OnLinkDown
<1>9. StreamOk(z)
  BY <1>1, <1>7 DEF StreamOk
<1>10. WellStreamed(StreamedBy(z), p.made)
  BY <1>7 DEF StreamFits, StreamedBy
<1> QED BY <1>7, <1>8, <1>9, <1>10, SpansAssumption DEF StreamFits

LEMMA LinkGoesUp ==
    ASSUME NEW k, NEW s, NEW p, p.made \in Nat, StreamFits(k, s, p), NEW n, n.up = TRUE,
           NEW room \in 1..MaxObserverRoom, NEW q, q.made = p.made
    PROVE  StreamFits(n, SendQueue(s, room), q)
<1>1. s \in StreamStates /\ StreamOk(s)
  BY DEF StreamFits, StreamOk
<1>2. room \in Nat \ {0} /\ MaxObserverRoom \in Nat
  BY SpansAssumption
<1>3. PICK t : t = SendQueue(s, room) /\ Sent(t, s, room)
  BY <1>1, <1>2, SendQueueIs
<1>4. t \in StreamStates /\ t.room \in Nat /\ t.room <= MaxObserverRoom
  BY <1>2, <1>3 DEF Sent
<1>5. Len(t.queue) <= QueueSize + 1
  <2>1. PICK x \in Nat, y \in Nat : x = Len(t.queue) /\ y = Len(s.queue)
    BY <1>1, <1>4, LenProperties DEF StreamStates
  <2> QED BY <2>1, <1>1, <1>3, SpansAssumption DEF Sent, StreamOk
<1>6. (t.writable => t.queue = <<>> /\ t.room >= 1) /\ (t.writable <=> ~t.drains)
  BY <1>3 DEF Sent
<1>7. StreamOk(t)
  BY <1>4, <1>5, <1>6 DEF StreamOk
<1>8. WellStreamed(StreamedBy(t), q.made)
  BY <1>3 DEF Sent, StreamFits
<1> QED BY <1>3, <1>4, <1>6, <1>7, <1>8 DEF StreamFits


\* What connectSpans leaves: a stream, which may have been there, or the end of all attempts.
LinkMade(k, p, k2, s2, p2, details) ==
    /\ k2 \in Links /\ p2 \in Pasts /\ p2.leftover = p.leftover
    /\ StreamFits(k2, s2, p2)
    /\ k2.open = IF k2.up THEN 1 ELSE 0
    /\ k2.run = details
    /\ k2.up => (k.up /\ k2.stream = k.stream) \/ k2.stream = details
    /\ ~k2.up => p2.gaveUp

LEMMA Connects ==
    ASSUME NEW details \in {0} \cup SpanRuns, SpanInv, ConnectSpans(details)
    PROVE  LinkMade(link, spanPast, link', streamer', spanPast', details)
<1>1. PICK k, p, s : k = link /\ p = spanPast /\ s = streamer
  OBVIOUS
<1>2. k \in Links /\ p \in Pasts /\ StreamFits(k, s, p) /\ k.open = IF k.up THEN 1 ELSE 0
  BY <1>1 DEF SpanInv, SpanTypes, RunFits
<1>3. p.made \in Nat
  BY <1>2, SpansAssumption DEF Pasts
<1>4. PICK k2, s2, p2 : k2 = link' /\ s2 = streamer' /\ p2 = spanPast'
  OBVIOUS
<1>5. CASE k.up
  <2>1. k2 = [k EXCEPT !.run = details] /\ s2 = s /\ p2 = p
    BY <1>1, <1>4, <1>5 DEF ConnectSpans
  <2>2. k2 \in Links /\ k2.run = details /\ k2.up = k.up /\ k2.open = k.open /\ k2.stream = k.stream
    BY <2>1, <1>2 DEF Links
  <2>3. StreamFits(k2, s2, p2)
    BY <2>1, <2>2, <1>2 DEF StreamFits
  <2> QED BY <2>1, <2>2, <2>3, <1>1, <1>2, <1>4, <1>5 DEF LinkMade
<1>6. CASE ~k.up
  <2>1. \/ \E room \in 1..MaxObserverRoom :
               /\ k2 = [up |-> TRUE, run |-> details, stream |-> details, open |-> k.open + 1]
               /\ s2 = SendQueue(s, room)
               /\ p2 = [p EXCEPT !.gaveUp = FALSE]
        \/ k2 = [k EXCEPT !.run = details] /\ p2 = [p EXCEPT !.gaveUp = TRUE] /\ s2 = s
    BY <1>1, <1>4, <1>6 DEF ConnectSpans, OnLinkUp
  <2>2. ASSUME NEW room \in 1..MaxObserverRoom,
               k2 = [up |-> TRUE, run |-> details, stream |-> details, open |-> k.open + 1],
               s2 = SendQueue(s, room), p2 = [p EXCEPT !.gaveUp = FALSE]
        PROVE  LinkMade(k, p, k2, s2, p2, details)
    <3>1. k2 = [up |-> TRUE, run |-> details, stream |-> details, open |-> 1]
      BY <2>2, <1>2, <1>6
    <3>2. k2 \in Links /\ k2.up = TRUE /\ k2.run = details /\ k2.stream = details /\ k2.open = 1
      BY <3>1 DEF Links
    <3>3. p2 \in Pasts /\ p2.made = p.made /\ p2.leftover = p.leftover
      BY <2>2, <1>2 DEF Pasts
    <3>4. StreamFits(k2, s2, p2)
      BY <2>2, <3>2, <3>3, <1>2, <1>3, LinkGoesUp
    <3> QED BY <3>2, <3>3, <3>4 DEF LinkMade
  <2>3. ASSUME k2 = [k EXCEPT !.run = details], p2 = [p EXCEPT !.gaveUp = TRUE], s2 = s
        PROVE  LinkMade(k, p, k2, s2, p2, details)
    <3>1. k2 \in Links /\ k2.up = k.up /\ k2.run = details /\ k2.open = k.open
      BY <2>3, <1>2 DEF Links
    <3>2. p2 \in Pasts /\ p2.made = p.made /\ p2.leftover = p.leftover /\ p2.gaveUp = TRUE
      BY <2>3, <1>2 DEF Pasts
    <3>3. StreamFits(k2, s2, p2)
      BY <2>3, <3>1, <3>2, <1>2 DEF StreamFits
    <3> QED BY <3>1, <3>2, <3>3, <1>2, <1>6 DEF LinkMade
  <2> QED BY <2>1, <2>2, <2>3, <1>1, <1>4
<1> QED BY <1>5, <1>6

LEMMA SpanParts ==
    ASSUME NEW a, NEW k, NEW s, NEW r, NEW p,
           spanAgg' = a, link' = k, streamer' = s, reconnects' = r, spanPast' = p,
           SpanTypes(a, k, r, p), StreamFits(k, s, p), RunFits(a, k, r, p)
    PROVE  SpanInv'
BY DEF SpanInv

LEMMA SpanValues ==
    ASSUME SpanInv, NEW a, NEW k, NEW s, NEW r, NEW p,
           spanAgg = a, link = k, streamer = s, reconnects = r, spanPast = p
    PROVE  /\ a \in Aggs /\ r \in 0..MaxReconnects /\ k \in Links /\ p \in Pasts
           /\ StreamFits(k, s, p) /\ RunFits(a, k, r, p)
BY DEF SpanInv, SpanTypes

LEMMA StartsSpans == ASSUME SpanInv, StartSpans PROVE SpanInv'
<1>1. PICK a, k, s, r, p : spanAgg = a /\ link = k /\ streamer = s /\ reconnects = r /\ spanPast = p
  OBVIOUS
<1>2. /\ a \in Aggs /\ r \in 0..MaxReconnects /\ k \in Links /\ p \in Pasts
      /\ RunFits(a, k, r, p) /\ ~a.started
  BY <1>1, SpanValues DEF StartSpans
<1>3. PICK b \in Aggs : b = [a EXCEPT !.started = TRUE] /\ b.started = TRUE /\ b.run = a.run
  <2>1. [a EXCEPT !.started = TRUE] \in Aggs
    BY <1>2 DEF Aggs
  <2> QED BY <2>1, <1>2 DEF Aggs
<1>4. PICK k2, s2, p2 : k2 = link' /\ s2 = streamer' /\ p2 = spanPast'
  OBVIOUS
<1>5. LinkMade(k, p, k2, s2, p2, a.run)
  <2>1. ConnectSpans(a.run) /\ a.run \in SpanRuns
    BY <1>1, <1>2 DEF StartSpans, Aggs
  <2>2. LinkMade(link, spanPast, link', streamer', spanPast', a.run)
    BY <2>1, Connects
  <2> QED BY <2>2, <1>1, <1>4
<1>6. spanAgg' = b /\ reconnects' = r
  BY <1>1, <1>3 DEF StartSpans
<1>7. k2 \in Links /\ p2 \in Pasts /\ StreamFits(k2, s2, p2)
  BY <1>5 DEF LinkMade
<1>8. SpanTypes(b, k2, r, p2)
  BY <1>2, <1>7 DEF SpanTypes
<1>9. RunFits(b, k2, r, p2)
  <2>1. ASSUME ~p2.leftover, k2.up PROVE k2.stream = b.run
    BY <2>1, <1>2, <1>3, <1>5 DEF LinkMade, RunFits
  <2> QED BY <2>1, <1>2, <1>3, <1>5 DEF LinkMade, RunFits
<1> QED BY <1>4, <1>6, <1>7, <1>8, <1>9, SpanParts

LEMMA ReconnectsSpans == ASSUME SpanInv, ReconnectSpans PROVE SpanInv'
<1>1. PICK a, k, s, r, p : spanAgg = a /\ link = k /\ streamer = s /\ reconnects = r /\ spanPast = p
  OBVIOUS
<1>2. /\ a \in Aggs /\ r \in 0..MaxReconnects /\ k \in Links /\ p \in Pasts
      /\ RunFits(a, k, r, p) /\ r > 0
  BY <1>1, SpanValues DEF ReconnectSpans
<1>3. PICK q \in 0..MaxReconnects : q = r - 1
  BY <1>2, SpansAssumption
<1>4. PICK k2, s2, p2 : k2 = link' /\ s2 = streamer' /\ p2 = spanPast'
  OBVIOUS
<1>5. LinkMade(k, p, k2, s2, p2, k.run)
  <2>1. ConnectSpans(k.run) /\ k.run \in {0} \cup SpanRuns
    BY <1>1, <1>2 DEF ReconnectSpans, Links
  <2>2. LinkMade(link, spanPast, link', streamer', spanPast', k.run)
    BY <2>1, Connects
  <2> QED BY <2>2, <1>1, <1>4
<1>6. spanAgg' = a /\ reconnects' = q
  BY <1>1, <1>3 DEF ReconnectSpans
<1>7. k2 \in Links /\ p2 \in Pasts /\ StreamFits(k2, s2, p2)
  BY <1>5 DEF LinkMade
<1>8. SpanTypes(a, k2, q, p2)
  BY <1>2, <1>3, <1>7 DEF SpanTypes
<1>9. RunFits(a, k2, q, p2)
  <2>1. p2.leftover \/ a.started
    BY <1>2, <1>5 DEF LinkMade, RunFits
  <2>2. ASSUME ~p2.leftover, k2.up PROVE k2.stream = a.run
    BY <2>1, <2>2, <1>2, <1>5 DEF LinkMade, RunFits
  <2> QED BY <2>1, <2>2, <1>2, <1>5 DEF LinkMade, RunFits
<1> QED BY <1>4, <1>6, <1>7, <1>8, <1>9, SpanParts

LEMMA StopsSpans == ASSUME SpanInv, StopSpans PROVE SpanInv'
<1>1. PICK a, k, s, r, p : spanAgg = a /\ link = k /\ streamer = s /\ reconnects = r /\ spanPast = p
  OBVIOUS
<1>2. /\ a \in Aggs /\ r \in 0..MaxReconnects /\ k \in Links /\ p \in Pasts
      /\ RunFits(a, k, r, p) /\ StreamFits(k, s, p)
  BY <1>1, SpanValues
<1>3. PICK b \in Aggs : b = [a EXCEPT !.started = FALSE] /\ b.started = FALSE /\ b.run = a.run
  <2>1. [a EXCEPT !.started = FALSE] \in Aggs
    BY <1>2 DEF Aggs
  <2> QED BY <2>1, <1>2 DEF Aggs
<1>4. PICK x \in BOOLEAN : x = (r > 0)
  BY (r > 0) \in BOOLEAN, Zenon
<1>10. (x <=> r > 0) /\ (~x => r = 0)
  <2>1. x <=> r > 0
    BY <1>4, Zenon
  <2> QED BY <2>1, <1>2
<1>5. PICK p2 \in Pasts : p2 = [p EXCEPT !.leftover = x] /\ p2.made = p.made /\ p2.leftover = x
  <2>1. [p EXCEPT !.leftover = x] \in Pasts
    BY <1>2 DEF Pasts
  <2> QED BY <2>1, <1>2 DEF Pasts
<1>6. spanAgg' = b /\ reconnects' = r /\ spanPast' = p2
  BY <1>1, <1>3, <1>4, <1>5 DEF StopSpans
<1>7. p.made \in Nat
  BY <1>2, SpansAssumption DEF Pasts
<1>8. CASE k.up
  <2>1. k.open = 1
    BY <1>2, <1>8 DEF RunFits
  <2>2. PICK k2 : k2 = EndedStream(k)
    OBVIOUS
  <2>3. k2 \in Links /\ k2.up = FALSE /\ k2.open = 0 /\ k2.run = k.run
    BY <2>1, <2>2, <1>2, <1>8, StreamEnds
  <2>4. PICK s2 : s2 = OnLinkDown(s)
    OBVIOUS
  <2>5. StreamFits(k2, s2, p)
    BY <2>3, <2>4, <1>2, <1>7, LinkGoesDown
  <2>6. StreamFits(k2, s2, p2)
    BY <2>5, <1>5 DEF StreamFits
  <2>7. link' = k2 /\ streamer' = s2
    BY <2>2, <2>4, <1>1, <1>8 DEF StopSpans, LinkDown, EndedStream
  <2>8. SpanTypes(b, k2, r, p2)
    BY <2>3, <1>2 DEF SpanTypes
  <2>9. RunFits(b, k2, r, p2)
    BY <2>3, <1>2, <1>3, <1>5, <1>10 DEF RunFits
  <2> QED BY <2>6, <2>7, <2>8, <2>9, <1>6, SpanParts
<1>9. CASE ~k.up
  <2>1. link' = k /\ streamer' = s
    BY <1>1, <1>9 DEF StopSpans
  <2>2. StreamFits(k, s, p2)
    BY <1>2, <1>5 DEF StreamFits
  <2>3. SpanTypes(b, k, r, p2)
    BY <1>2 DEF SpanTypes
  <2>4. RunFits(b, k, r, p2)
    BY <1>2, <1>3, <1>5, <1>9, <1>10 DEF RunFits
  <2> QED BY <2>1, <2>2, <2>3, <2>4, <1>6, SpanParts
<1> QED BY <1>8, <1>9

LEMMA EndsStream == ASSUME SpanInv, NEW status, StreamStatus(status) PROVE SpanInv'
<1>1. PICK a, k, s, r, p : spanAgg = a /\ link = k /\ streamer = s /\ reconnects = r /\ spanPast = p
  OBVIOUS
<1>2. /\ a \in Aggs /\ r \in 0..MaxReconnects /\ k \in Links /\ p \in Pasts
      /\ RunFits(a, k, r, p) /\ StreamFits(k, s, p) /\ k.up /\ r < MaxReconnects
  BY <1>1, SpanValues DEF StreamStatus
<1>3. p.made \in Nat
  BY <1>2, SpansAssumption DEF Pasts
<1>4. k.open = 1
  BY <1>2 DEF RunFits
<1>5. PICK k2 : k2 = EndedStream(k)
  OBVIOUS
<1>6. k2 \in Links /\ k2.up = FALSE /\ k2.open = 0 /\ k2.run = k.run
  BY <1>2, <1>4, <1>5, StreamEnds
<1>7. PICK s2 : s2 = OnLinkDown(s)
  OBVIOUS
<1>8. StreamFits(k2, s2, p)
  BY <1>2, <1>3, <1>6, <1>7, LinkGoesDown
<1>9. spanAgg' = a /\ link' = k2 /\ streamer' = s2
  BY <1>1, <1>5, <1>7 DEF StreamStatus, LinkDown, EndedStream
<1>10. CASE status = "UNIMPLEMENTED"
  <2>1. PICK p2 \in Pasts : p2 = [p EXCEPT !.gaveUp = TRUE] /\ p2.made = p.made /\ p2.leftover = p.leftover /\ p2.gaveUp
    <3>1. [p EXCEPT !.gaveUp = TRUE] \in Pasts
      BY <1>2 DEF Pasts
    <3> QED BY <3>1, <1>2 DEF Pasts
  <2>2. spanPast' = p2 /\ reconnects' = r
    BY <2>1, <1>1, <1>10 DEF StreamStatus
  <2>3. StreamFits(k2, s2, p2)
    BY <2>1, <1>8 DEF StreamFits
  <2>4. SpanTypes(a, k2, r, p2)
    BY <1>2, <1>6 DEF SpanTypes
  <2>5. RunFits(a, k2, r, p2)
    BY <2>1, <1>2, <1>6 DEF RunFits
  <2> QED BY <2>2, <2>3, <2>4, <2>5, <1>9, SpanParts
<1>11. CASE status # "UNIMPLEMENTED"
  <2>1. PICK q \in 0..MaxReconnects : q = r + 1
    BY <1>2, SpansAssumption
  <2>2. spanPast' = p /\ reconnects' = q
    BY <2>1, <1>1, <1>11 DEF StreamStatus
  <2>3. SpanTypes(a, k2, q, p)
    BY <1>2, <1>6 DEF SpanTypes
  <2>4. RunFits(a, k2, q, p)
    BY <2>1, <1>2, <1>6 DEF RunFits
  <2> QED BY <2>2, <2>3, <2>4, <1>8, <1>9, SpanParts
<1> QED BY <1>10, <1>11

LEMMA RunsAnew == ASSUME SpanInv, NewSpanRun PROVE SpanInv'
<1>1. PICK a, k, s, r, p : spanAgg = a /\ link = k /\ streamer = s /\ reconnects = r /\ spanPast = p
  OBVIOUS
<1>2. /\ a \in Aggs /\ r \in 0..MaxReconnects /\ k \in Links /\ p \in Pasts
      /\ RunFits(a, k, r, p) /\ StreamFits(k, s, p) /\ ~a.started /\ a.run < MaxSpanRuns
  BY <1>1, SpanValues DEF NewSpanRun
<1>3. PICK b \in Aggs : b = [a EXCEPT !.run = @ + 1] /\ b.started = a.started
  <2>1. [a EXCEPT !.run = @ + 1] \in Aggs
    BY <1>2, SpansAssumption DEF Aggs, SpanRuns
  <2> QED BY <2>1, <1>2 DEF Aggs
<1>4. spanAgg' = b /\ link' = k /\ streamer' = s /\ reconnects' = r /\ spanPast' = p
  BY <1>1, <1>3 DEF NewSpanRun
<1>5. SpanTypes(b, k, r, p)
  BY <1>2 DEF SpanTypes
<1>6. RunFits(b, k, r, p)
  BY <1>2, <1>3 DEF RunFits
<1> QED BY <1>2, <1>4, <1>5, <1>6, SpanParts

LEMMA DrainsStream == ASSUME SpanInv, NEW room \in 1..MaxObserverRoom, DrainStream(room) PROVE SpanInv'
<1>1. PICK a, k, s, r, p : spanAgg = a /\ link = k /\ streamer = s /\ reconnects = r /\ spanPast = p
  OBVIOUS
<1>2. /\ a \in Aggs /\ r \in 0..MaxReconnects /\ k \in Links /\ p \in Pasts
      /\ RunFits(a, k, r, p) /\ StreamFits(k, s, p) /\ s.drains
  BY <1>1, SpanValues DEF DrainStream
<1>3. p.made \in Nat
  BY <1>2, SpansAssumption DEF Pasts
<1>4. k.up = TRUE
  BY <1>2 DEF StreamFits, Links
<1>5. PICK s2 : s2 = SendQueue(s, room)
  OBVIOUS
<1>6. StreamFits(k, s2, p)
  BY <1>2, <1>3, <1>4, <1>5, LinkGoesUp
<1>7. spanAgg' = a /\ link' = k /\ streamer' = s2 /\ reconnects' = r /\ spanPast' = p
  BY <1>1, <1>5 DEF DrainStream
<1>8. SpanTypes(a, k, r, p)
  BY <1>2 DEF SpanTypes
<1> QED BY <1>2, <1>6, <1>7, <1>8, SpanParts

LEMMA GivesSpans == ASSUME SpanInv, NEW tree \in SegmentTrees, TransactionSpans(tree) PROVE SpanInv'
<1>1. PICK a, k, s, r, p : spanAgg = a /\ link = k /\ streamer = s /\ reconnects = r /\ spanPast = p
  OBVIOUS
<1>2. /\ a \in Aggs /\ r \in 0..MaxReconnects /\ k \in Links /\ p \in Pasts
      /\ RunFits(a, k, r, p) /\ StreamFits(k, s, p)
  BY <1>1, SpanValues
<1>3. PICK made \in Nat : made = p.made
  BY <1>2, SpansAssumption DEF Pasts
<1>4. PICK spans : spans = SpansOf(tree, made) /\ Batch(spans, made)
  BY SpansAreBatch
<1>5. spans \in Seq(AnySpan)
  BY <1>4 DEF Batch
<1>6. PICK n \in Nat : n = Len(spans)
  BY <1>5, LenProperties
<1>7. made + n <= MaxSpans
  BY <1>1, <1>3, <1>4, <1>6 DEF TransactionSpans
<1>8. PICK p2 \in Pasts : /\ p2 = [p EXCEPT !.made = made + n] /\ p2.made = made + n
                         /\ p2.leftover = p.leftover /\ p2.gaveUp = p.gaveUp
  <2>1. made + n \in 0..MaxSpans
    BY <1>7, SpansAssumption
  <2>2. [p EXCEPT !.made = made + n] \in Pasts
    BY <2>1, <1>2 DEF Pasts
  <2> QED BY <2>2, <1>2 DEF Pasts
<1>9. PICK s2 : s2 = IF a.started THEN WriteSpans(s, spans) ELSE s
  OBVIOUS
<1>10. spanAgg' = a /\ link' = k /\ streamer' = s2 /\ reconnects' = r /\ spanPast' = p2
  BY <1>1, <1>3, <1>4, <1>6, <1>8, <1>9 DEF TransactionSpans
<1>11. StreamOk(s) /\ s \in StreamStates /\ s.room <= MaxObserverRoom /\ WellStreamed(StreamedBy(s), made)
  BY <1>2, <1>3 DEF StreamFits, StreamOk
<1>12. PICK b \in Seq(AnySpan) : b = StreamedBy(s)
  BY <1>11, ConcatProperties DEF StreamStates, StreamedBy
<1>13. StreamFits(k, s2, p2)
  <2>1. CASE a.started
    <3>1. Writing(s2, s, spans, n)
      BY <2>1, <1>5, <1>6, <1>9, <1>11, WriteSpansIs
    <3>2. PICK j \in 0..n : Put(StreamedBy(s2), b, spans, j)
      BY <3>1, <1>12 DEF Writing
    <3>3. j \in Nat /\ j <= Len(spans)
      BY <1>6
    <3>4. WellStreamed(StreamedBy(s2), made + n)
      BY <3>2, <3>3, <1>4, <1>6, <1>11, <1>12, PutKeepsWell
    <3>5. StreamOk(s2) /\ s2.room <= s.room /\ ((s2.writable \/ s2.drains) <=> (s.writable \/ s.drains))
      BY <3>1 DEF Writing
    <3>6. s2.room <= MaxObserverRoom
      BY <3>5, <1>11, SpansAssumption DEF StreamOk
    <3>7. k.up <=> s2.writable \/ s2.drains
      BY <3>5, <1>2 DEF StreamFits
    <3> QED BY <3>4, <3>5, <3>6, <3>7, <1>8 DEF StreamFits
  <2>2. CASE ~a.started
    <3>1. s2 = s
      BY <2>2, <1>9
    <3>2. Batch(<<>>, made)
      BY DEF Batch
    <3>3. WellStreamed(b, made + n)
      <4>1. \A i \in 1..Len(b) : b[i].id \in 1..made => b[i].id \in 1..(made + n)
        OBVIOUS
      <4> QED BY <4>1, <1>11, <1>12 DEF WellStreamed
    <3> QED BY <3>1, <3>3, <1>2, <1>8, <1>12 DEF StreamFits
  <2> QED BY <2>1, <2>2
<1>14. SpanTypes(a, k, r, p2)
  BY <1>2 DEF SpanTypes
<1>15. RunFits(a, k, r, p2)
  BY <1>2, <1>8 DEF RunFits
<1> QED BY <1>10, <1>13, <1>14, <1>15, SpanParts

LEMMA SpanStep == SpanInv /\ [SpanStreamNext]_spanVars => SpanInv'
<1> SUFFICES ASSUME SpanInv, [SpanStreamNext]_spanVars PROVE SpanInv'
  OBVIOUS
<1>1. CASE StartSpans
  BY <1>1, StartsSpans
<1>2. CASE StopSpans
  BY <1>2, StopsSpans
<1>3. CASE NewSpanRun
  BY <1>3, RunsAnew
<1>4. CASE ReconnectSpans
  BY <1>4, ReconnectsSpans
<1>5. CASE \E room \in 1..MaxObserverRoom : DrainStream(room)
  BY <1>5, DrainsStream
<1>6. CASE \E status \in {"OK", "UNIMPLEMENTED", "other"} : StreamStatus(status)
  BY <1>6, EndsStream
<1>7. CASE \E tree \in SegmentTrees : TransactionSpans(tree)
  BY <1>7, GivesSpans
<1>8. CASE UNCHANGED spanVars
  BY <1>8 DEF spanVars, SpanInv
<1> QED BY <1>1, <1>2, <1>3, <1>4, <1>5, <1>6, <1>7, <1>8 DEF SpanStreamNext

LEMMA SpanInvGives == SpanInv => SpanStreamCorrect
<1> SUFFICES ASSUME SpanInv PROVE SpanStreamCorrect
  OBVIOUS
<1>1. PICK a, k, s, r, p : spanAgg = a /\ link = k /\ streamer = s /\ reconnects = r /\ spanPast = p
  OBVIOUS
<1>2. /\ a \in Aggs /\ r \in 0..MaxReconnects /\ k \in Links /\ p \in Pasts
      /\ RunFits(a, k, r, p) /\ StreamFits(k, s, p)
  BY <1>1, SpanValues
<1>3. StreamOk(s) /\ s \in StreamStates /\ s.room <= MaxObserverRoom /\ WellStreamed(StreamedBy(s), p.made)
  BY <1>2 DEF StreamFits, StreamOk
<1>4. PICK w \in Seq(AnySpan) : w = StreamedBy(s)
  BY <1>3, ConcatProperties DEF StreamStates, StreamedBy
<1>5. PICK n \in Nat : n = Len(w) /\ DOMAIN w = 1..n
  BY LenProperties
<1>6. Streamed = w
  BY <1>1, <1>4 DEF Streamed, StreamedBy
<1>7. WellStreamed(w, p.made)
  BY <1>3, <1>4
<1>8. SpansInOrder /\ NoOrphans
  BY <1>5, <1>6, <1>7 DEF WellStreamed, SpansInOrder, NoOrphans
<1>9. ASSUME NEW i \in 1..n PROVE w[i] \in StreamedSpan
  <2>1. p.made \in 0..MaxSpans
    BY <1>2 DEF Pasts
  <2>2. w[i] \in AnySpan
    BY <1>5, ElementOfSeq
  <2>3. w[i].id \in 1..p.made
    BY <1>5, <1>7 DEF WellStreamed
  <2>4. w[i].parent \in 0..MaxSpans
    <3>1. CASE w[i].parent = 0
      BY <3>1, SpansAssumption
    <3>2. CASE w[i].parent # 0
      <4>1. PICK j \in 1..(i - 1) : w[j].id = w[i].parent
        BY <3>2, <1>5, <1>7 DEF WellStreamed
      <4>2. w[j].id \in 1..p.made
        BY <4>1, <1>5, <1>7 DEF WellStreamed
      <4> QED BY <4>1, <4>2, <2>1, SpansAssumption
    <3> QED BY <3>1, <3>2
  <2>5. w[i].id \in 1..MaxSpans
    BY <2>1, <2>3, SpansAssumption
  <2> QED BY <2>2, <2>4, <2>5 DEF AnySpan, StreamedSpan
<1>10. /\ \A i \in DOMAIN s.queue : s.queue[i] \in StreamedSpan
       /\ \A i \in DOMAIN s.sent : s.sent[i] \in StreamedSpan
  <2>1. PICK b \in Seq(AnySpan), q \in Seq(AnySpan) : b = s.sent /\ q = s.queue
    BY <1>3 DEF StreamStates
  <2>2. PICK x \in Nat, y \in Nat : x = Len(b) /\ y = Len(q) /\ DOMAIN b = 1..x /\ DOMAIN q = 1..y
    BY LenProperties
  <2>3. w = b \o q
    BY <2>1, <1>4 DEF StreamedBy
  <2>4. n = x + y /\ (\A i \in 1..x : w[i] = b[i]) /\ (\A i \in 1..y : w[x + i] = q[i])
    BY <2>2, <2>3, <1>5, ConcatProperties
  <2>5. ASSUME NEW i \in 1..x PROVE b[i] \in StreamedSpan
    <3>1. i \in 1..n /\ w[i] = b[i]
      BY <2>2, <2>4
    <3> QED BY <3>1, <1>9
  <2>6. ASSUME NEW i \in 1..y PROVE q[i] \in StreamedSpan
    <3>0. n = x + y
      BY <2>4
    <3>1. x + i \in 1..n
      BY <3>0
    <3>2. w[x + i] = q[i]
      BY <2>4
    <3> QED BY <3>1, <3>2, <1>9
  <2> QED BY <2>1, <2>2, <2>5, <2>6
<1>11. SpanStreamTypeOK
  <2>1. s.room \in 0..MaxObserverRoom
    BY <1>3, SpansAssumption DEF StreamOk
  <2>2. link \in [up : BOOLEAN, run : {0} \cup SpanRuns, stream : {0} \cup SpanRuns, open : 0..2]
    BY <1>1, <1>2 DEF Links
  <2> QED BY <2>1, <2>2, <1>1, <1>2, <1>10 DEF SpanStreamTypeOK, Aggs
<1>12. QueueIsWaiting
  BY <1>1, <1>2, <1>3 DEF StreamFits, StreamOk, QueueIsWaiting
<1>13. ComesBack /\ OneStreamOfTheRun
  BY <1>1, <1>2 DEF RunFits, ComesBack, OneStreamOfTheRun
<1> QED BY <1>8, <1>11, <1>12, <1>13 DEF SpanStreamCorrect

\* However the observer's room, the connection and its timers run, spans go in the order they were made
\* in and after their parents, what is queued waits for a drain, a lost stream is tried again or given
\* up, and no more than one is open (lib/spans/span-streamer.js, lib/grpc/connection.js).
THEOREM SpansAreStreamed == SpanStreamSpec => []SpanStreamCorrect
<1>1. SpanStreamInit => SpanInv
  BY SpanInitially
<1>2. SpanInv /\ [SpanStreamNext]_spanVars => SpanInv'
  BY SpanStep
<1>3. SpanInv => SpanStreamCorrect
  BY SpanInvGives
<1> QED BY <1>1, <1>2, <1>3, PTL DEF SpanStreamSpec

(***************************************************************************)
(* The environment.  A walk's invariant is that of a search: of what is    *)
(* listed, each entry is still open or has been visited, and whatever has  *)
(* been taken up and can be read is listed.  When nothing is open, what is *)
(* not readable or listed is closed, so all that can be reached is in it.  *)
(***************************************************************************)
NodeWalks == [root : Nat \ {0}, visited : SUBSET Directories,
              open : SUBSET (Directories \X Directories), listed : Seq(Directories)]
PackageLists == [by : Refreshes, dirs : SUBSET Directories]
EnvRefreshes == [state : {"none", "walking", "answered"}, overlaps : BOOLEAN, walks : [Places -> NodeWalks]]

ListedIn(seq) == {seq[i] : i \in DOMAIN seq}
PlacesOf(seq, d) == {i \in DOMAIN seq : seq[i] = d}
RootsBefore(p, k, d) == {i \in 1..(k - 1) : Roots(p)[i] = d}

WalkStays(p, walk) ==
    /\ walk.root <= Len(Roots(p)) + 1
    /\ \A d \in ListedIn(walk.listed) : Readable(d)
    /\ p \notin Dropped => ListedIn(walk.listed) \cup walk.visited \cup {e[2] : e \in walk.open} \subseteq Reachable
WalkGoesOn(p, walk) ==
    /\ \A d \in ListedIn(walk.listed) : \A e \in Entries(d) : <<d, e>> \in walk.open \/ e \in walk.visited
    /\ \A d \in walk.visited : Readable(d) => d \in ListedIn(walk.listed)
    /\ \A i \in 1..(walk.root - 1) : Readable(Roots(p)[i]) => Roots(p)[i] \in ListedIn(walk.listed)
WalkIsShort(p, walk) ==
    \A d \in Directories : Cardinality(PlacesOf(walk.listed, d)) <=
        Cardinality(RootsBefore(p, walk.root, d)) + (IF d \in walk.visited THEN 1 ELSE 0)

EnvTypes ==
    /\ DOMAIN envSettings = Settings
    /\ envSettings["Packages"] \in Seq(PackageLists)
    /\ refreshes \in [Refreshes -> EnvRefreshes]
    /\ DOMAIN envAnswers = Refreshes
WalksFit == \A r \in Refreshes, p \in Places :
    LET walk == refreshes[r].walks[p] IN WalkStays(p, walk) /\ WalkGoesOn(p, walk) /\ WalkIsShort(p, walk)
AloneFindsNothing == \A r \in Refreshes : refreshes[r].state = "walking" /\ ~refreshes[r].overlaps =>
    envSettings["Packages"] = <<>> /\ \A q \in Refreshes : refreshes[q].state = "walking" => q = r

EnvInv == EnvTypes /\ EnvTypeOK /\ UsersDispatcherStays /\ WalksFit /\ AnswersAreWhole /\ PackagesListedOnce
          /\ AloneFindsNothing

LEMMA ReachableIsClosed == Reachable \in SUBSET Directories /\ Closed(Reachable)
  <1>1. Reachable \in SUBSET Directories
    BY DEF Reachable
  <1>2. RootsTaken \subseteq Directories
    <2>1. ASSUME NEW p \in Places, NEW i \in DOMAIN Roots(p) PROVE Roots(p)[i] \in Directories
      <3>1. PICK s \in Seq(Directories) : s = Roots(p)
        BY EnvironmentAssumption
      <3>2. s[i] \in Directories
        BY <3>1
      <3> QED
        BY <3>1, <3>2
    <2>2. ASSUME NEW p \in Places PROVE {Roots(p)[i] : i \in DOMAIN Roots(p)} \subseteq Directories
      BY <2>1
    <2> QED
      BY <2>2 DEF RootsTaken
  <1>3. RootsTaken \subseteq Reachable
    BY <1>2, Zenon DEF Reachable, Closed
  <1>4. ASSUME NEW d \in Reachable, Readable(d) PROVE Entries(d) \subseteq Reachable
    <2>1. SUFFICES ASSUME NEW e \in Entries(d) PROVE e \in Reachable
      OBVIOUS
    <2>2. e \in Directories
      BY <1>1, EnvironmentAssumption
    <2>3. ASSUME NEW dirs \in SUBSET Directories, Closed(dirs) PROVE e \in dirs
      <3>1. d \in dirs
        BY <2>3, Zenon DEF Reachable
      <3> QED
        BY <3>1, <1>4, <2>3, Zenon DEF Closed
    <2> QED
      BY <2>2, <2>3, Zenon DEF Reachable
  <1> QED
    BY <1>1, <1>3, <1>4, Zenon DEF Closed

LEMMA ReachableIsLeast == \A dirs \in SUBSET Directories : Closed(dirs) => Reachable \subseteq dirs
  BY DEF Reachable

LEMMA ListedAppended ==
  ASSUME NEW S, NEW s \in Seq(S), NEW x \in S
  PROVE  /\ Append(s, x) \in Seq(S)
         /\ ListedIn(Append(s, x)) = ListedIn(s) \cup {x}
         /\ \A d : /\ IsFiniteSet(PlacesOf(s, d)) /\ Cardinality(PlacesOf(s, d)) \in Nat
                   /\ d = x => Cardinality(PlacesOf(Append(s, x), d)) = Cardinality(PlacesOf(s, d)) + 1
                   /\ d # x => Cardinality(PlacesOf(Append(s, x), d)) = Cardinality(PlacesOf(s, d))
  <1>1. PICK n \in Nat : n = Len(s) /\ DOMAIN s = 1..n
    BY LenProperties
  <1>2. /\ Append(s, x) \in Seq(S) /\ Len(Append(s, x)) = n + 1
        /\ \A i \in 1..n : Append(s, x)[i] = s[i]
        /\ Append(s, x)[n + 1] = x
    BY <1>1, AppendProperties
  <1>3. DOMAIN Append(s, x) = 1..(n + 1)
    BY <1>2, LenProperties
  <1>4. ListedIn(Append(s, x)) = ListedIn(s) \cup {x}
    <2>1. ListedIn(Append(s, x)) \subseteq ListedIn(s) \cup {x}
      <3>1. ASSUME NEW i \in 1..(n + 1) PROVE Append(s, x)[i] \in ListedIn(s) \cup {x}
        <4>1. CASE i = n + 1
          BY <4>1, <1>2
        <4>2. CASE i # n + 1
          <5>1. i \in 1..n
            BY <4>2, <1>1
          <5> QED
            BY <5>1, <1>1, <1>2, Zenon DEF ListedIn
        <4> QED
          BY <4>1, <4>2
      <3> QED
        BY <3>1, <1>3, Zenon DEF ListedIn
    <2>2. ListedIn(s) \subseteq ListedIn(Append(s, x))
      <3>1. ASSUME NEW i \in 1..n PROVE s[i] \in ListedIn(Append(s, x))
        <4>1. i \in 1..(n + 1) /\ Append(s, x)[i] = s[i]
          BY <1>1, <1>2
        <4> QED
          BY <4>1, <1>3, Zenon DEF ListedIn
      <3> QED
        BY <3>1, <1>1, Zenon DEF ListedIn
    <2>3. x \in ListedIn(Append(s, x))
      <3>1. n + 1 \in 1..(n + 1)
        BY <1>1
      <3> QED
        BY <3>1, <1>2, <1>3, Zenon DEF ListedIn
    <2> QED
      BY <2>1, <2>2, <2>3
  <1>5. ASSUME NEW d
        PROVE  /\ IsFiniteSet(PlacesOf(s, d)) /\ Cardinality(PlacesOf(s, d)) \in Nat
               /\ d = x => Cardinality(PlacesOf(Append(s, x), d)) = Cardinality(PlacesOf(s, d)) + 1
               /\ d # x => Cardinality(PlacesOf(Append(s, x), d)) = Cardinality(PlacesOf(s, d))
    <2>1. IsFiniteSet(PlacesOf(s, d)) /\ Cardinality(PlacesOf(s, d)) \in Nat
      <3>1. IsFiniteSet(1..n) /\ PlacesOf(s, d) \subseteq 1..n
        BY <1>1, FS_Interval DEF PlacesOf
      <3>2. IsFiniteSet(PlacesOf(s, d))
        BY <3>1, FS_Subset
      <3> QED
        BY <3>2, FS_CardinalityType
    <2>2. CASE d = x
      <3>1. PlacesOf(Append(s, x), d) = PlacesOf(s, d) \cup {n + 1}
        BY <2>2, <1>1, <1>2, <1>3 DEF PlacesOf
      <3>2. n + 1 \notin PlacesOf(s, d)
        BY <1>1 DEF PlacesOf
      <3> QED
        BY <2>1, <2>2, <3>1, <3>2, FS_AddElement
    <2>3. CASE d # x
      <3>1. PlacesOf(Append(s, x), d) = PlacesOf(s, d)
        BY <2>3, <1>1, <1>2, <1>3 DEF PlacesOf
      <3> QED
        BY <2>1, <2>3, <3>1
    <2> QED
      BY <2>2, <2>3
  <1> QED
    BY <1>2, <1>4, <1>5

LEMMA RootsBeforeGrow ==
  ASSUME NEW p, NEW k \in Nat \ {0}
  PROVE  \A d : /\ Cardinality(RootsBefore(p, k, d)) \in Nat
                /\ Roots(p)[k] = d => Cardinality(RootsBefore(p, k + 1, d)) = Cardinality(RootsBefore(p, k, d)) + 1
                /\ Roots(p)[k] # d => Cardinality(RootsBefore(p, k + 1, d)) = Cardinality(RootsBefore(p, k, d))
  <1>1. SUFFICES ASSUME NEW d
                 PROVE  /\ Cardinality(RootsBefore(p, k, d)) \in Nat
                        /\ Roots(p)[k] = d => Cardinality(RootsBefore(p, k + 1, d)) = Cardinality(RootsBefore(p, k, d)) + 1
                        /\ Roots(p)[k] # d => Cardinality(RootsBefore(p, k + 1, d)) = Cardinality(RootsBefore(p, k, d))
    OBVIOUS
  <1>2. IsFiniteSet(1..(k - 1)) /\ RootsBefore(p, k, d) \subseteq 1..(k - 1)
    BY FS_Interval DEF RootsBefore
  <1>3. IsFiniteSet(RootsBefore(p, k, d))
    BY <1>2, FS_Subset
  <1>4. Cardinality(RootsBefore(p, k, d)) \in Nat
    BY <1>3, FS_CardinalityType
  <1>5. CASE Roots(p)[k] = d
    <2>1. RootsBefore(p, k + 1, d) = RootsBefore(p, k, d) \cup {k} /\ k \notin RootsBefore(p, k, d)
      BY <1>5 DEF RootsBefore
    <2> QED
      BY <1>3, <1>4, <1>5, <2>1, FS_AddElement
  <1>6. CASE Roots(p)[k] # d
    <2>1. RootsBefore(p, k + 1, d) = RootsBefore(p, k, d)
      BY <1>6 DEF RootsBefore
    <2> QED
      BY <1>4, <1>6, <2>1
  <1> QED
    BY <1>5, <1>6

\* What Visit makes of a walk, whatever of it has been set before.
LEMMA VisitIs ==
  ASSUME NEW w \in NodeWalks, NEW dir \in Directories
  PROVE  \E v \in NodeWalks :
           /\ v = Visit(w, dir) /\ v.root = w.root /\ v.visited = w.visited
           /\ Readable(dir) => /\ v.listed = Append(w.listed, dir)
                               /\ v.open = w.open \cup {<<dir, e>> : e \in Entries(dir)}
           /\ ~Readable(dir) => v = w
  <1>1. CASE ~Readable(dir)
    BY <1>1, Zenon DEF Visit
  <1>2. CASE Readable(dir)
    <2>1. PICK added : added = {<<dir, e>> : e \in Entries(dir)}
      OBVIOUS
    <2>2. added \subseteq Directories \X Directories
      BY <2>1, EnvironmentAssumption
    <2>3. w.listed \in Seq(Directories) /\ Append(w.listed, dir) \in Seq(Directories)
      BY AppendProperties DEF NodeWalks
    <2>4. PICK v : v = [w EXCEPT !.listed = Append(w.listed, dir), !.open = w.open \cup added]
      OBVIOUS
    <2>5. /\ v.root = w.root /\ v.visited = w.visited /\ v.listed = Append(w.listed, dir) /\ v.open = w.open \cup added
          /\ v \in NodeWalks
      BY <2>2, <2>3, <2>4 DEF NodeWalks
    <2>6. v = Visit(w, dir)
      BY <1>2, <2>1, <2>4, Zenon DEF Visit
    <2> QED
      BY <1>2, <2>1, <2>5, <2>6
  <1> QED
    BY <1>1, <1>2

LEMMA RootVisited ==
  ASSUME NEW p \in Places, NEW w \in NodeWalks, w.root <= Len(Roots(p)), w.open = {},
         WalkStays(p, w), WalkGoesOn(p, w), WalkIsShort(p, w)
  PROVE  LET v == Visit([w EXCEPT !.root = w.root + 1], Roots(p)[w.root])
         IN v \in NodeWalks /\ WalkStays(p, v) /\ WalkGoesOn(p, v) /\ WalkIsShort(p, v)
  <1>1. PICK k \in Nat \ {0}, n \in Nat : k = w.root /\ n = Len(Roots(p)) /\ k <= n /\ DOMAIN Roots(p) = 1..n
    BY EnvironmentAssumption, LenProperties DEF NodeWalks
  <1>2. PICK dir \in Directories : dir = Roots(p)[k]
    BY <1>1, EnvironmentAssumption, ElementOfSeq
  <1>3. PICK u \in NodeWalks : /\ u = [w EXCEPT !.root = w.root + 1] /\ u.root = k + 1 /\ u.visited = w.visited
                               /\ u.open = w.open /\ u.listed = w.listed
    <2>1. PICK next \in Nat \ {0} : next = w.root + 1 /\ next = k + 1
      BY <1>1
    <2>2. PICK u : u = [w EXCEPT !.root = next]
      OBVIOUS
    <2>3. u \in NodeWalks
      BY <2>2 DEF NodeWalks
    <2>4. u.root = next /\ u.visited = w.visited /\ u.open = w.open /\ u.listed = w.listed
      BY <2>2 DEF NodeWalks
    <2> QED
      BY <2>1, <2>2, <2>3, <2>4
  <1>4. PICK v \in NodeWalks :
           /\ v = Visit(u, dir) /\ v.root = u.root /\ v.visited = u.visited
           /\ Readable(dir) => /\ v.listed = Append(u.listed, dir)
                               /\ v.open = u.open \cup {<<dir, e>> : e \in Entries(dir)}
           /\ ~Readable(dir) => v = u
    BY VisitIs
  <1>5. w.listed \in Seq(Directories)
    BY DEF NodeWalks
  <1>6. p \notin Dropped => dir \in Reachable
    <2>1. p \notin Dropped => dir \in RootsTaken
      <3>1. k \in DOMAIN Roots(p)
        BY <1>1
      <3> QED
        BY <3>1, <1>2 DEF RootsTaken
    <2> QED
      BY <2>1, ReachableIsClosed DEF Closed
  <1>7. /\ \A d \in Directories : Cardinality(RootsBefore(p, k, d)) \in Nat
        /\ Cardinality(RootsBefore(p, k + 1, dir)) = Cardinality(RootsBefore(p, k, dir)) + 1
        /\ \A d \in Directories : d # dir => Cardinality(RootsBefore(p, k + 1, d)) = Cardinality(RootsBefore(p, k, d))
    BY <1>2, RootsBeforeGrow
  <1>8. \A d \in Directories : Cardinality(PlacesOf(w.listed, d)) <=
            Cardinality(RootsBefore(p, k, d)) + (IF d \in w.visited THEN 1 ELSE 0)
    BY <1>1, Zenon DEF WalkIsShort
  <1>9. ListedIn(Append(w.listed, dir)) = ListedIn(w.listed) \cup {dir}
    BY <1>5, ListedAppended
  <1>10. \A i \in 1..k : i \in 1..(k - 1) \/ i = k
    BY <1>1
  <1>11. CASE Readable(dir)
    <2>1. v.listed = Append(w.listed, dir) /\ v.open = {<<dir, e>> : e \in Entries(dir)} /\ v.root = k + 1 /\ v.visited = w.visited
      BY <1>3, <1>4, <1>11
    <2>2. ListedIn(v.listed) = ListedIn(w.listed) \cup {dir}
      BY <2>1, <1>9
    <2>3. WalkStays(p, v)
      <3>1. v.root <= Len(Roots(p)) + 1
        BY <2>1, <1>1
      <3>2. \A d \in ListedIn(v.listed) : Readable(d)
        BY <2>2, <1>11, Zenon DEF WalkStays
      <3>3. ASSUME p \notin Dropped
            PROVE  ListedIn(v.listed) \cup v.visited \cup {e[2] : e \in v.open} \subseteq Reachable
        <4>1. ListedIn(w.listed) \subseteq Reachable /\ w.visited \subseteq Reachable
          BY <3>3 DEF WalkStays
        <4>2. Entries(dir) \subseteq Reachable
          BY <3>3, <1>6, <1>11, ReachableIsClosed, Zenon DEF Closed
        <4>3. {e[2] : e \in v.open} \subseteq Reachable
          BY <2>1, <4>2
        <4> QED
          BY <2>1, <2>2, <4>1, <4>3, <3>3, <1>6
      <3> QED
        BY <3>1, <3>2, <3>3, Zenon DEF WalkStays
    <2>4. WalkGoesOn(p, v)
      <3>1. ASSUME NEW d \in ListedIn(v.listed), NEW e \in Entries(d) PROVE <<d, e>> \in v.open \/ e \in v.visited
        <4>1. CASE d = dir
          BY <4>1, <2>1
        <4>2. CASE d # dir
          <5>1. <<d, e>> \in w.open \/ e \in w.visited
            BY <4>2, <2>2, <3>1, Zenon DEF WalkGoesOn
          <5> QED
            BY <5>1, <2>1
        <4> QED
          BY <4>1, <4>2
      <3>2. \A d \in v.visited : Readable(d) => d \in ListedIn(v.listed)
        BY <2>1, <2>2 DEF WalkGoesOn
      <3>3. ASSUME NEW i \in 1..(v.root - 1), Readable(Roots(p)[i]) PROVE Roots(p)[i] \in ListedIn(v.listed)
        <4>1. i \in 1..k
          BY <2>1, <1>1
        <4>2. CASE i = k
          BY <4>2, <2>2, <1>2
        <4>3. CASE i # k
          <5>1. i \in 1..(w.root - 1)
            BY <4>1, <4>3, <1>1
          <5>2. Roots(p)[i] \in ListedIn(w.listed)
            BY <5>1, <3>3, Zenon DEF WalkGoesOn
          <5> QED
            BY <5>2, <2>2
        <4> QED
          BY <4>2, <4>3
      <3> QED
        BY <3>1, <3>2, <3>3, Zenon DEF WalkGoesOn
    <2>5. ASSUME NEW d \in Directories
          PROVE  Cardinality(PlacesOf(v.listed, d)) <=
                     Cardinality(RootsBefore(p, v.root, d)) + (IF d \in v.visited THEN 1 ELSE 0)
      <3>1. PICK a \in Nat : a = Cardinality(PlacesOf(w.listed, d))
        BY <1>5, <1>2, ListedAppended
      <3>2. PICK b \in Nat : b = Cardinality(RootsBefore(p, k, d))
        BY <1>7
      <3>3. PICK c \in {0, 1} : c = IF d \in w.visited THEN 1 ELSE 0
        OBVIOUS
      <3>4. a <= b + c
        BY <3>1, <3>2, <3>3, <1>8
      <3>5. CASE d = dir
        <4>1. Cardinality(PlacesOf(v.listed, d)) = a + 1
          BY <3>5, <2>1, <1>5, <3>1, ListedAppended
        <4>2. Cardinality(RootsBefore(p, v.root, d)) = b + 1
          BY <3>5, <2>1, <1>7, <3>2
        <4> QED
          BY <4>1, <4>2, <3>3, <3>4, <2>1
      <3>6. CASE d # dir
        <4>1. Cardinality(PlacesOf(v.listed, d)) = a
          BY <3>6, <2>1, <1>5, <3>1, ListedAppended
        <4>2. Cardinality(RootsBefore(p, v.root, d)) = b
          BY <3>6, <2>1, <1>7, <3>2
        <4> QED
          BY <4>1, <4>2, <3>3, <3>4, <2>1
      <3> QED
        BY <3>5, <3>6
    <2>6. WalkIsShort(p, v)
      BY <2>5, Zenon DEF WalkIsShort
    <2> QED
      BY <2>3, <2>4, <2>6, <1>1, <1>2, <1>3, <1>4
  <1>12. CASE ~Readable(dir)
    <2>1. v.listed = w.listed /\ v.open = w.open /\ v.root = k + 1 /\ v.visited = w.visited
      BY <1>3, <1>4, <1>12
    <2>2. v.root <= Len(Roots(p)) + 1
      BY <2>1, <1>1
    <2>3. WalkStays(p, v)
      BY <2>1, <2>2, Zenon DEF WalkStays
    <2>4. ASSUME NEW i \in 1..(v.root - 1), Readable(Roots(p)[i]) PROVE Roots(p)[i] \in ListedIn(v.listed)
      <3>1. i \in 1..k
        BY <2>1, <1>1
      <3>2. i # k
        BY <2>4, <1>2, <1>12
      <3>3. i \in 1..(w.root - 1)
        BY <3>1, <3>2, <1>1
      <3> QED
        BY <3>3, <2>1, <2>4, Zenon DEF WalkGoesOn
    <2>5. WalkGoesOn(p, v)
      BY <2>1, <2>4, Zenon DEF WalkGoesOn
    <2>6. ASSUME NEW d \in Directories
          PROVE  Cardinality(PlacesOf(v.listed, d)) <=
                     Cardinality(RootsBefore(p, v.root, d)) + (IF d \in v.visited THEN 1 ELSE 0)
      <3>1. PICK a \in Nat : a = Cardinality(PlacesOf(w.listed, d))
        BY <1>5, <1>2, ListedAppended
      <3>2. PICK b \in Nat : b = Cardinality(RootsBefore(p, k, d))
        BY <1>7
      <3>3. PICK c \in {0, 1} : c = IF d \in w.visited THEN 1 ELSE 0
        OBVIOUS
      <3>4. a <= b + c
        BY <3>1, <3>2, <3>3, <1>8
      <3>5. Cardinality(RootsBefore(p, k + 1, d)) \in {b, b + 1}
        BY <3>2, <1>7
      <3> QED
        BY <3>1, <3>3, <3>4, <3>5, <2>1
    <2>7. WalkIsShort(p, v)
      BY <2>6, Zenon DEF WalkIsShort
    <2> QED
      BY <2>3, <2>5, <2>7, <1>1, <1>2, <1>3, <1>4
  <1> QED
    BY <1>11, <1>12

AfterEntry(walk, entry) ==
    LET left == [walk EXCEPT !.open = walk.open \ {entry}]
    IN IF entry[2] \in walk.visited THEN left
       ELSE Visit([left EXCEPT !.visited = left.visited \cup {entry[2]}], entry[2])

LEMMA EntryFollowed ==
  ASSUME NEW p \in Places, NEW w \in NodeWalks, NEW entry \in w.open,
         WalkStays(p, w), WalkGoesOn(p, w), WalkIsShort(p, w)
  PROVE  LET v == AfterEntry(w, entry)
         IN v \in NodeWalks /\ WalkStays(p, v) /\ WalkGoesOn(p, v) /\ WalkIsShort(p, v)
  <1>1. PICK from \in Directories, dir \in Directories : entry = <<from, dir>> /\ entry[2] = dir
    BY DEF NodeWalks
  <1>2. PICK left \in NodeWalks : /\ left = [w EXCEPT !.open = w.open \ {entry}] /\ left.root = w.root
                                  /\ left.visited = w.visited /\ left.listed = w.listed
                                  /\ left.open = w.open \ {entry}
    <2>1. PICK left : left = [w EXCEPT !.open = w.open \ {entry}]
      OBVIOUS
    <2>2. /\ left \in NodeWalks /\ left.root = w.root /\ left.visited = w.visited /\ left.listed = w.listed
          /\ left.open = w.open \ {entry}
      BY <2>1 DEF NodeWalks
    <2> QED
      BY <2>1, <2>2
  <1>3. PICK k \in Nat \ {0} : k = w.root
    BY DEF NodeWalks
  <1>5. w.listed \in Seq(Directories)
    BY DEF NodeWalks
  <1>6. /\ p \notin Dropped => /\ ListedIn(w.listed) \subseteq Reachable /\ w.visited \subseteq Reachable
                               /\ \A e \in w.open : e[2] \in Reachable
                               /\ dir \in Reachable
    BY <1>1 DEF WalkStays
  <1>7. \A d \in Directories : Cardinality(RootsBefore(p, k, d)) \in Nat
    BY RootsBeforeGrow
  <1>8. \A d \in Directories : Cardinality(PlacesOf(w.listed, d)) <=
            Cardinality(RootsBefore(p, k, d)) + (IF d \in w.visited THEN 1 ELSE 0)
    BY <1>3, Zenon DEF WalkIsShort
  <1>9. CASE dir \in w.visited
    <2>1. WalkStays(p, left)
      <3>1. p \notin Dropped => {e[2] : e \in left.open} \subseteq Reachable
        BY <1>2, <1>6
      <3> QED
        BY <3>1, <1>2, <1>6 DEF WalkStays
    <2>2. ASSUME NEW d \in ListedIn(left.listed), NEW e \in Entries(d) PROVE <<d, e>> \in left.open \/ e \in left.visited
      <3>1. <<d, e>> \in w.open \/ e \in w.visited
        BY <2>2, <1>2, Zenon DEF WalkGoesOn
      <3> QED
        BY <3>1, <1>1, <1>2, <1>9
    <2>3. WalkGoesOn(p, left)
      BY <2>2, <1>2, Zenon DEF WalkGoesOn
    <2>4. WalkIsShort(p, left)
      BY <1>2, Zenon DEF WalkIsShort
    <2>5. AfterEntry(w, entry) = left
      BY <1>1, <1>2, <1>9, Zenon DEF AfterEntry
    <2> QED
      BY <2>1, <2>3, <2>4, <2>5
  <1>10. CASE dir \notin w.visited
    <2>1. PICK u \in NodeWalks : /\ u = [left EXCEPT !.visited = left.visited \cup {dir}] /\ u.root = w.root
                                 /\ u.visited = w.visited \cup {dir} /\ u.open = left.open /\ u.listed = w.listed
      <3>1. PICK u : u = [left EXCEPT !.visited = left.visited \cup {dir}]
        OBVIOUS
      <3>2. /\ u \in NodeWalks /\ u.root = left.root /\ u.visited = left.visited \cup {dir} /\ u.open = left.open
            /\ u.listed = left.listed
        BY <3>1 DEF NodeWalks
      <3> QED
        BY <3>1, <3>2, <1>2
    <2>2. PICK v \in NodeWalks :
             /\ v = Visit(u, dir) /\ v.root = u.root /\ v.visited = u.visited
             /\ Readable(dir) => /\ v.listed = Append(u.listed, dir)
                                 /\ v.open = u.open \cup {<<dir, e>> : e \in Entries(dir)}
             /\ ~Readable(dir) => v = u
      BY VisitIs
    <2>3. ListedIn(w.listed) \subseteq ListedIn(v.listed) /\ ListedIn(v.listed) \subseteq ListedIn(w.listed) \cup {dir}
          /\ (Readable(dir) => dir \in ListedIn(v.listed)) /\ (~Readable(dir) => ListedIn(v.listed) = ListedIn(w.listed))
      <3>1. ListedIn(Append(w.listed, dir)) = ListedIn(w.listed) \cup {dir}
        BY <1>5, ListedAppended
      <3>2. CASE Readable(dir)
        BY <3>1, <3>2, <2>1, <2>2
      <3>3. CASE ~Readable(dir)
        BY <3>3, <2>1, <2>2
      <3> QED
        BY <3>2, <3>3
    <2>4. left.open \subseteq v.open /\ v.open \subseteq w.open \cup {<<dir, e>> : e \in Entries(dir)}
          /\ (~Readable(dir) => v.open \subseteq w.open) /\ (Readable(dir) => {<<dir, e>> : e \in Entries(dir)} \subseteq v.open)
      <3>2. CASE Readable(dir)
        BY <3>2, <2>1, <2>2, <1>2
      <3>3. CASE ~Readable(dir)
        BY <3>3, <2>1, <2>2, <1>2
      <3> QED
        BY <3>2, <3>3
    <2>5. v.visited = w.visited \cup {dir} /\ v.root = w.root
      BY <2>1, <2>2
    <2>6. WalkStays(p, v)
      <3>1. v.root <= Len(Roots(p)) + 1
        BY <2>5, Zenon DEF WalkStays
      <3>2. \A d \in ListedIn(w.listed) : Readable(d)
        BY Zenon DEF WalkStays
      <3>3. \A d \in ListedIn(v.listed) : Readable(d)
        <4>1. CASE Readable(dir)
          BY <4>1, <3>2, <2>3
        <4>2. CASE ~Readable(dir)
          BY <4>2, <3>2, <2>3
        <4> QED
          BY <4>1, <4>2
      <3>4. ASSUME p \notin Dropped
            PROVE  ListedIn(v.listed) \cup v.visited \cup {e[2] : e \in v.open} \subseteq Reachable
        <4>1. Readable(dir) => Entries(dir) \subseteq Reachable
          BY <3>4, <1>6, ReachableIsClosed, Zenon DEF Closed
        <4>2. \A e \in v.open : e[2] \in Reachable
          <5>1. CASE Readable(dir)
            BY <5>1, <4>1, <2>4, <1>6, <3>4
          <5>2. CASE ~Readable(dir)
            BY <5>2, <2>4, <1>6, <3>4
          <5> QED
            BY <5>1, <5>2
        <4> QED
          BY <4>2, <2>3, <2>5, <1>6, <3>4
      <3> QED
        BY <3>1, <3>3, <3>4, Zenon DEF WalkStays
    <2>7. WalkGoesOn(p, v)
      <3>1. ASSUME NEW d \in ListedIn(v.listed), NEW e \in Entries(d) PROVE <<d, e>> \in v.open \/ e \in v.visited
        <4>1. CASE d \in ListedIn(w.listed)
          <5>1. <<d, e>> \in w.open \/ e \in w.visited
            BY <4>1, <3>1, Zenon DEF WalkGoesOn
          <5> QED
            BY <5>1, <1>1, <1>2, <2>4, <2>5
        <4>2. CASE d \notin ListedIn(w.listed)
          <5>1. d = dir /\ Readable(dir)
            BY <4>2, <2>3, <3>1
          <5> QED
            BY <5>1, <2>4, <3>1
        <4> QED
          BY <4>1, <4>2
      <3>2. \A d \in v.visited : Readable(d) => d \in ListedIn(v.listed)
        BY <2>3, <2>5 DEF WalkGoesOn
      <3>3. \A i \in 1..(v.root - 1) : Readable(Roots(p)[i]) => Roots(p)[i] \in ListedIn(v.listed)
        BY <2>3, <2>5 DEF WalkGoesOn
      <3> QED
        BY <3>1, <3>2, <3>3, Zenon DEF WalkGoesOn
    <2>8. ASSUME NEW d \in Directories
          PROVE  Cardinality(PlacesOf(v.listed, d)) <=
                     Cardinality(RootsBefore(p, v.root, d)) + (IF d \in v.visited THEN 1 ELSE 0)
      <3>1. PICK a \in Nat : a = Cardinality(PlacesOf(w.listed, d))
        BY <1>5, <1>1, ListedAppended
      <3>2. PICK b \in Nat : b = Cardinality(RootsBefore(p, k, d)) /\ b = Cardinality(RootsBefore(p, v.root, d))
        BY <1>7, <1>3, <2>5
      <3>3. PICK c \in {0, 1} : c = IF d \in w.visited THEN 1 ELSE 0
        OBVIOUS
      <3>4. a <= b + c
        BY <3>1, <3>2, <3>3, <1>8
      <3>7. \/ Cardinality(PlacesOf(v.listed, d)) = a
            \/ d = dir /\ Cardinality(PlacesOf(v.listed, d)) = a + 1
        <4>1. CASE Readable(dir)
          <5>1. v.listed = Append(w.listed, dir)
            BY <4>1, <2>1, <2>2
          <5>2. CASE d = dir
            BY <5>1, <5>2, <3>1, <1>1, <1>5, ListedAppended
          <5>3. CASE d # dir
            BY <5>1, <5>3, <3>1, <1>1, <1>5, ListedAppended
          <5> QED
            BY <5>2, <5>3
        <4>2. CASE ~Readable(dir)
          <5>1. v.listed = w.listed
            BY <4>2, <2>1, <2>2
          <5> QED
            BY <5>1, <3>1
        <4> QED
          BY <4>1, <4>2
      <3>5. CASE d = dir
        <4>1. c = 0 /\ d \in v.visited
          BY <3>5, <3>3, <1>10, <2>5
        <4>2. Cardinality(PlacesOf(v.listed, d)) \in {a, a + 1}
          BY <3>1, <3>5, <3>7
        <4> QED
          BY <4>1, <4>2, <3>2, <3>4
      <3>6. CASE d # dir
        <4>1. Cardinality(PlacesOf(v.listed, d)) = a
          BY <3>1, <3>6, <3>7
        <4>2. d \in v.visited <=> d \in w.visited
          BY <3>6, <2>5
        <4> QED
          BY <4>1, <4>2, <3>2, <3>3, <3>4
      <3> QED
        BY <3>5, <3>6
    <2>9. WalkIsShort(p, v)
      BY <2>8, Zenon DEF WalkIsShort
    <2>10. AfterEntry(w, entry) = v
      BY <1>1, <1>2, <1>10, <2>1, <2>2, Zenon DEF AfterEntry
    <2> QED
      BY <2>6, <2>7, <2>9, <2>10
  <1> QED
    BY <1>9, <1>10

LEMMA WalkMoves ==
  ASSUME EnvInv, NEW r \in Refreshes, NEW p \in Places, NEW v \in NodeWalks,
         WalkStays(p, v), WalkGoesOn(p, v), WalkIsShort(p, v),
         refreshes' = [refreshes EXCEPT ![r].walks[p] = v],
         UNCHANGED <<envSettings, userSetDispatcher, envAnswers>>
  PROVE  EnvInv'
  <1>1. PICK walks \in [Places -> NodeWalks] : /\ walks = [refreshes[r].walks EXCEPT ![p] = v]
                                               /\ walks[p] = v /\ \A q \in Places : q # p => walks[q] = refreshes[r].walks[q]
    <2>1. refreshes[r].walks \in [Places -> NodeWalks]
      BY DEF EnvInv, EnvTypes, EnvRefreshes
    <2>2. PICK walks : walks = [refreshes[r].walks EXCEPT ![p] = v]
      OBVIOUS
    <2>3. walks \in [Places -> NodeWalks] /\ walks[p] = v /\ \A q \in Places : q # p => walks[q] = refreshes[r].walks[q]
      BY <2>1, <2>2
    <2> QED
      BY <2>2, <2>3
  <1>2. PICK x \in EnvRefreshes : /\ x = [refreshes[r] EXCEPT !.walks = walks] /\ x.walks = walks
                                  /\ x.state = refreshes[r].state /\ x.overlaps = refreshes[r].overlaps
    <2>1. refreshes[r] \in EnvRefreshes
      BY DEF EnvInv, EnvTypes
    <2>2. PICK x : x = [refreshes[r] EXCEPT !.walks = walks]
      OBVIOUS
    <2> QED
      BY <2>1, <2>2 DEF EnvRefreshes
  <1>3. refreshes' = [refreshes EXCEPT ![r] = x]
    BY <1>1, <1>2, Zenon
  <1>4. /\ refreshes' \in [Refreshes -> EnvRefreshes] /\ refreshes'[r] = x
        /\ \A q \in Refreshes : q # r => refreshes'[q] = refreshes[q]
    BY <1>3 DEF EnvInv, EnvTypes
  <1>5. \A q \in Refreshes : refreshes'[q].state = refreshes[q].state /\ refreshes'[q].overlaps = refreshes[q].overlaps
    BY <1>2, <1>4
  <1>6. \A q \in Refreshes, o \in Places :
           (refreshes'[q].walks[o] = v /\ o = p) \/ refreshes'[q].walks[o] = refreshes[q].walks[o]
    BY <1>1, <1>2, <1>4
  <1>7. WalksFit'
    BY <1>6 DEF EnvInv, WalksFit
  <1>8. EnvTypes'
    BY <1>4 DEF EnvInv, EnvTypes
  <1>9. EnvTypeOK'
    BY <1>5 DEF EnvInv, EnvTypeOK
  <1>10. UsersDispatcherStays' /\ AnswersAreWhole'
    BY Zenon DEF EnvInv, UsersDispatcherStays, AnswersAreWhole
  <1>11. PackagesListedOnce'
    BY <1>5 DEF EnvInv, PackagesListedOnce
  <1>12. AloneFindsNothing'
    BY <1>5 DEF EnvInv, AloneFindsNothing
  <1> QED
    BY <1>7, <1>8, <1>9, <1>10, <1>11, <1>12, Zenon DEF EnvInv

LEMMA RootIsBegun ==
  ASSUME EnvInv, NEW r \in Refreshes, NEW p \in Places, BeginRoot(r, p)
  PROVE  EnvInv'
  <1>1. PICK walk \in NodeWalks : walk = refreshes[r].walks[p]
    BY DEF EnvInv, EnvTypes, EnvRefreshes
  <1>2. WalkStays(p, walk) /\ WalkGoesOn(p, walk) /\ WalkIsShort(p, walk)
    BY <1>1, Zenon DEF EnvInv, WalksFit
  <1>3. PICK v : v = Visit([walk EXCEPT !.root = walk.root + 1], Roots(p)[walk.root])
    OBVIOUS
  <1>4. walk.open = {} /\ walk.root <= Len(Roots(p)) /\ refreshes' = [refreshes EXCEPT ![r].walks[p] = v]
        /\ UNCHANGED <<envSettings, userSetDispatcher, envAnswers>>
    BY <1>1, <1>3, Zenon DEF BeginRoot
  <1>5. v \in NodeWalks /\ WalkStays(p, v) /\ WalkGoesOn(p, v) /\ WalkIsShort(p, v)
    BY <1>2, <1>3, <1>4, RootVisited, Zenon
  <1> QED
    BY <1>4, <1>5, WalkMoves

LEMMA EntryIsFollowed ==
  ASSUME EnvInv, NEW r \in Refreshes, NEW p \in Places, NEW entry, FollowEntry(r, p, entry)
  PROVE  EnvInv'
  <1>1. PICK walk \in NodeWalks : walk = refreshes[r].walks[p]
    BY DEF EnvInv, EnvTypes, EnvRefreshes
  <1>2. WalkStays(p, walk) /\ WalkGoesOn(p, walk) /\ WalkIsShort(p, walk)
    BY <1>1, Zenon DEF EnvInv, WalksFit
  <1>3. PICK v : v = AfterEntry(refreshes[r].walks[p], entry)
    OBVIOUS
  <1>4. entry \in refreshes[r].walks[p].open
        /\ refreshes' = [refreshes EXCEPT ![r].walks[p] = AfterEntry(refreshes[r].walks[p], entry)]
        /\ UNCHANGED <<envSettings, userSetDispatcher, envAnswers>>
    BY Zenon DEF FollowEntry, AfterEntry
  <1>5. entry \in walk.open /\ refreshes' = [refreshes EXCEPT ![r].walks[p] = v]
        /\ UNCHANGED <<envSettings, userSetDispatcher, envAnswers>>
    BY <1>1, <1>3, <1>4, Zenon
  <1>6. v \in NodeWalks /\ WalkStays(p, v) /\ WalkGoesOn(p, v) /\ WalkIsShort(p, v)
    BY <1>1, <1>2, <1>3, <1>5, EntryFollowed, Zenon
  <1> QED
    BY <1>5, <1>6, WalkMoves

\* A walk that is done has listed all that can be reached and read.
LEMMA FoundIsWhole ==
  ASSUME EnvInv, NEW r \in Refreshes, \A p \in Places : Walked(r, p)
  PROVE  UNION {ListedIn(refreshes[r].walks[p].listed) : p \in Places \ Dropped} = {d \in Reachable : Readable(d)}
  <1>1. PICK found : found = UNION {ListedIn(refreshes[r].walks[p].listed) : p \in Places \ Dropped}
    OBVIOUS
  <1>2. ASSUME NEW p \in Places PROVE LET walk == refreshes[r].walks[p]
                                      IN walk \in NodeWalks /\ WalkStays(p, walk) /\ WalkGoesOn(p, walk)
    BY DEF EnvInv, EnvTypes, EnvRefreshes, WalksFit
  <1>3. found \subseteq {d \in Reachable : Readable(d)}
    <2>1. ASSUME NEW p \in Places \ Dropped, NEW d \in ListedIn(refreshes[r].walks[p].listed)
          PROVE  d \in Reachable /\ Readable(d)
      BY <1>2 DEF WalkStays
    <2> QED
      BY <1>1, <2>1
  <1>4. found \subseteq Directories
    BY <1>3, ReachableIsClosed
  <1>5. PICK dirs \in SUBSET Directories : \A d \in Directories : d \in dirs <=> (Readable(d) => d \in found)
    <2>1. PICK dirs : dirs = {d \in Directories : Readable(d) => d \in found}
      OBVIOUS
    <2>2. dirs \in SUBSET Directories
      BY <2>1
    <2>3. \A d \in Directories : d \in dirs <=> (Readable(d) => d \in found)
      BY <2>1, Zenon
    <2> QED
      BY <2>2, <2>3
  <1>6. Closed(dirs)
    <2>1. ASSUME NEW p \in Places \ Dropped, NEW i \in DOMAIN Roots(p) PROVE Roots(p)[i] \in dirs
      <3>1. PICK walk \in NodeWalks : walk = refreshes[r].walks[p] /\ WalkGoesOn(p, walk) /\ walk.root > Len(Roots(p))
        BY <1>2 DEF Walked
      <3>2. PICK s \in Seq(Directories) : s = Roots(p)
        BY EnvironmentAssumption
      <3>3. Roots(p)[i] \in Directories
        BY <2>1, <3>2
      <3>4. i \in 1..(walk.root - 1)
        BY <2>1, <3>1, <3>2 DEF NodeWalks
      <3>5. Readable(Roots(p)[i]) => Roots(p)[i] \in ListedIn(walk.listed)
        BY <3>1, <3>4, Zenon DEF WalkGoesOn
      <3>6. ListedIn(walk.listed) \subseteq found
        BY <1>1, <3>1
      <3> QED
        BY <3>3, <3>5, <3>6, <1>5
    <2>2. ASSUME NEW p \in Places \ Dropped PROVE {Roots(p)[i] : i \in DOMAIN Roots(p)} \subseteq dirs
      BY <2>1
    <2>3. RootsTaken \subseteq dirs
      BY <2>2 DEF RootsTaken
    <2>4. ASSUME NEW d \in dirs, Readable(d), NEW e \in Entries(d) PROVE e \in dirs
      <3>1. d \in found
        BY <1>5, <2>4
      <3>2. PICK p \in Places \ Dropped : d \in ListedIn(refreshes[r].walks[p].listed)
        BY <1>1, <3>1
      <3>3. PICK walk : walk = refreshes[r].walks[p] /\ WalkGoesOn(p, walk) /\ walk.open = {}
        BY <1>2 DEF Walked
      <3>4. e \in walk.visited
        BY <2>4, <3>2, <3>3 DEF WalkGoesOn
      <3>5. Readable(e) => e \in ListedIn(walk.listed)
        BY <3>3, <3>4, Zenon DEF WalkGoesOn
      <3>6. ListedIn(walk.listed) \subseteq found
        BY <1>1, <3>2, <3>3
      <3>7. e \in Directories
        BY <2>4, EnvironmentAssumption
      <3> QED
        BY <3>5, <3>6, <3>7, <1>5
    <2> QED
      BY <2>3, <2>4, Zenon DEF Closed
  <1>7. ASSUME NEW d \in Reachable, Readable(d) PROVE d \in found
    <2>1. d \in dirs
      BY <1>6, <1>7, ReachableIsLeast
    <2> QED
      BY <2>1, <1>5, <1>7
  <1> QED
    BY <1>1, <1>3, <1>7

\* A value that is added to the packages changes nothing else, and is then among them.
LEMMA PackagesAdded ==
  ASSUME DOMAIN envSettings = Settings, envSettings["Packages"] \in Seq(PackageLists), NEW list \in PackageLists
  PROVE  LET settings == AddedSetting(envSettings, "Packages", list)
         IN /\ DOMAIN settings = Settings /\ settings["Dispatcher"] = envSettings["Dispatcher"]
            /\ settings["Packages"] \in Seq(PackageLists) /\ Has(settings["Packages"], list)
            /\ envSettings["Packages"] = <<>> => Len(settings["Packages"]) = 1
  <1>1. PICK seq \in Seq(PackageLists) : seq = envSettings["Packages"]
    OBVIOUS
  <1>2. CASE Has(seq, list)
    <2>1. AddedSetting(envSettings, "Packages", list) = envSettings
      BY <1>1, <1>2 DEF AddedSetting
    <2>2. seq # <<>>
      BY <1>2 DEF Has
    <2> QED
      BY <1>1, <1>2, <2>1, <2>2
  <1>3. CASE ~Has(seq, list)
    <2>1. PICK settings : settings = [envSettings EXCEPT !["Packages"] = Append(seq, list)]
      OBVIOUS
    <2>2. settings = AddedSetting(envSettings, "Packages", list)
      BY <2>1, <1>1, <1>3, Zenon DEF AddedSetting
    <2>3. /\ DOMAIN settings = Settings /\ settings["Dispatcher"] = envSettings["Dispatcher"]
          /\ settings["Packages"] = Append(seq, list)
      BY <2>1 DEF Settings
    <2>4. /\ Append(seq, list) \in Seq(PackageLists) /\ Len(Append(seq, list)) = Len(seq) + 1
          /\ Append(seq, list)[Len(seq) + 1] = list
      BY AppendProperties
    <2>5. Has(Append(seq, list), list)
      <3>1. Len(seq) + 1 \in DOMAIN Append(seq, list)
        BY <2>4, LenProperties
      <3> QED
        BY <3>1, <2>4, Zenon DEF Has
    <2>6. seq = <<>> => Len(Append(seq, list)) = 1
      BY <2>4
    <2> QED
      BY <1>1, <2>2, <2>3, <2>4, <2>5, <2>6
  <1> QED
    BY <1>2, <1>3

LEMMA RefreshIsAnswered ==
  ASSUME EnvInv, NEW r \in Refreshes, AnswerRefresh(r)
  PROVE  EnvInv'
  <1>1. PICK found : found = UNION {ListedIn(refreshes[r].walks[p].listed) : p \in Places \ Dropped}
    OBVIOUS
  <1>2. PICK list : list = [by |-> r, dirs |-> found]
    OBVIOUS
  <1>3. PICK settings : settings = AddedSetting(envSettings, "Packages", list)
    OBVIOUS
  <1>4. /\ refreshes[r].state = "walking" /\ \A p \in Places : Walked(r, p)
        /\ envSettings' = settings
        /\ envAnswers' = [envAnswers EXCEPT ![r] = <<settings>>]
        /\ refreshes' = [refreshes EXCEPT ![r].state = "answered"]
        /\ userSetDispatcher' = userSetDispatcher
    BY <1>1, <1>2, <1>3, Zenon DEF AnswerRefresh, ListedIn
  <1>5. found = {d \in Reachable : Readable(d)}
    BY <1>1, <1>4, FoundIsWhole
  <1>6. list \in PackageLists /\ list.by = r /\ list.dirs = {d \in Reachable : Readable(d)}
    BY <1>2, <1>5, ReachableIsClosed DEF PackageLists
  <1>7. /\ DOMAIN settings = Settings /\ settings["Dispatcher"] = envSettings["Dispatcher"]
        /\ settings["Packages"] \in Seq(PackageLists) /\ Has(settings["Packages"], list)
        /\ envSettings["Packages"] = <<>> => Len(settings["Packages"]) = 1
    BY <1>3, <1>6, PackagesAdded DEF EnvInv, EnvTypes
  <1>8. PICK x \in EnvRefreshes : /\ x = [refreshes[r] EXCEPT !.state = "answered"] /\ x.walks = refreshes[r].walks
                                  /\ x.state = "answered" /\ x.overlaps = refreshes[r].overlaps
    <2>1. refreshes[r] \in EnvRefreshes
      BY DEF EnvInv, EnvTypes
    <2>2. PICK x : x = [refreshes[r] EXCEPT !.state = "answered"]
      OBVIOUS
    <2> QED
      BY <2>1, <2>2 DEF EnvRefreshes
  <1>9. /\ refreshes' \in [Refreshes -> EnvRefreshes] /\ refreshes'[r] = x
        /\ \A q \in Refreshes : q # r => refreshes'[q] = refreshes[q]
    <2>1. refreshes' = [refreshes EXCEPT ![r] = x]
      BY <1>4, <1>8, Zenon
    <2> QED
      BY <2>1 DEF EnvInv, EnvTypes
  <1>10. \A q \in Refreshes : refreshes'[q].overlaps = refreshes[q].overlaps /\ refreshes'[q].walks = refreshes[q].walks
    BY <1>8, <1>9
  <1>11. DOMAIN envAnswers' = Refreshes /\ envAnswers'[r] = <<settings>> /\ \A q \in Refreshes : q # r => envAnswers'[q] = envAnswers[q]
    BY <1>4 DEF EnvInv, EnvTypes
  <1>12. EnvTypes'
    BY <1>4, <1>7, <1>9, <1>11 DEF EnvTypes
  <1>13. EnvTypeOK'
    <2>1. userSetDispatcher' \in {c.name : c \in DispatcherCalls} \cup {"none"}
      BY <1>4 DEF EnvInv, EnvTypeOK
    <2>2. ASSUME NEW q \in Refreshes
          PROVE  /\ refreshes'[q].state \in {"none", "walking", "answered"}
                 /\ (envAnswers'[q] = <<>>) <=> refreshes'[q].state # "answered"
      <3>1. CASE q = r
        <4>1. <<settings>> # <<>>
          OBVIOUS
        <4> QED
          BY <3>1, <4>1, <1>8, <1>9, <1>11
      <3>2. CASE q # r
        BY <3>2, <1>9, <1>11 DEF EnvInv, EnvTypeOK
      <3> QED
        BY <3>1, <3>2
    <2>3. DOMAIN envSettings' = Settings
      BY <1>4, <1>7
    <2> QED
      BY <2>1, <2>2, <2>3, Zenon DEF EnvTypeOK
  <1>14. UsersDispatcherStays'
    BY <1>4, <1>7 DEF EnvInv, UsersDispatcherStays
  <1>15. WalksFit'
    BY <1>10 DEF EnvInv, WalksFit
  <1>16. AnswersAreWhole'
    <2>1. ASSUME NEW q \in Refreshes, envAnswers'[q] # <<>>
          PROVE  \E i \in DOMAIN envAnswers'[q][1]["Packages"] :
                     LET it == envAnswers'[q][1]["Packages"][i]
                     IN it.by = q /\ it.dirs = {d \in Reachable : Readable(d)}
      <3>1. CASE q = r
        <4>1. envAnswers'[q][1] = settings
          BY <3>1, <1>11
        <4>2. PICK i \in DOMAIN settings["Packages"] : settings["Packages"][i] = list
          BY <1>7, Zenon DEF Has
        <4> QED
          BY <4>1, <4>2, <1>6, <3>1
      <3>2. CASE q # r
        <4>1. envAnswers'[q] = envAnswers[q] /\ envAnswers[q] # <<>>
          BY <3>2, <1>11, <2>1
        <4>2. PICK i \in DOMAIN envAnswers[q][1]["Packages"] :
                 LET it == envAnswers[q][1]["Packages"][i]
                 IN it.by = q /\ it.dirs = {d \in Reachable : Readable(d)}
          BY <4>1, Zenon DEF EnvInv, AnswersAreWhole
        <4> QED
          BY <4>1, <4>2
      <3> QED
        BY <3>1, <3>2
    <2> QED
      BY <2>1, Zenon DEF AnswersAreWhole
  <1>17. PackagesListedOnce'
    <2>1. ASSUME NEW q \in Refreshes, envAnswers'[q] # <<>>, ~refreshes'[q].overlaps
          PROVE  Len(envAnswers'[q][1]["Packages"]) = 1
      <3>1. CASE q = r
        <4>1. envAnswers'[q][1] = settings
          BY <3>1, <1>11
        <4>2. envSettings["Packages"] = <<>>
          BY <3>1, <2>1, <1>4, <1>10 DEF EnvInv, AloneFindsNothing
        <4> QED
          BY <4>1, <4>2, <1>7
      <3>2. CASE q # r
        BY <3>2, <2>1, <1>9, <1>11 DEF EnvInv, PackagesListedOnce
      <3> QED
        BY <3>1, <3>2
    <2> QED
      BY <2>1, Zenon DEF PackagesListedOnce
  <1>18. AloneFindsNothing'
    <2>1. ASSUME NEW q \in Refreshes, refreshes'[q].state = "walking", ~refreshes'[q].overlaps PROVE FALSE
      <3>1. q # r
        BY <2>1, <1>8, <1>9
      <3>2. refreshes[q].state = "walking" /\ ~refreshes[q].overlaps
        BY <2>1, <3>1, <1>9
      <3> QED
        BY <3>1, <3>2, <1>4 DEF EnvInv, AloneFindsNothing
    <2> QED
      BY <2>1, Zenon DEF AloneFindsNothing
  <1> QED
    BY <1>12, <1>13, <1>14, <1>15, <1>16, <1>17, <1>18, Zenon DEF EnvInv

LEMMA OverlapsSet ==
  ASSUME NEW x \in EnvRefreshes, NEW b \in BOOLEAN
  PROVE  LET y == [x EXCEPT !.overlaps = b]
         IN y \in EnvRefreshes /\ y.state = x.state /\ y.walks = x.walks /\ y.overlaps = b
  <1>1. PICK y : y = [x EXCEPT !.overlaps = b]
    OBVIOUS
  <1>2. y \in EnvRefreshes
    BY <1>1 DEF EnvRefreshes
  <1>3. y.state = x.state /\ y.walks = x.walks
    BY <1>1 DEF EnvRefreshes
  <1>4. y.overlaps = b
    BY <1>1 DEF EnvRefreshes
  <1> QED
    BY <1>1, <1>2, <1>3, <1>4, Zenon

LEMMA RefreshIsBegun ==
  ASSUME EnvInv, NEW r \in Refreshes, Refresh(r)
  PROVE  EnvInv'
  <1>1. PICK walking : walking = {q \in Refreshes : refreshes[q].state = "walking"}
    OBVIOUS
  <1>2. /\ refreshes[r].state = "none" /\ envSettings' = Refreshed(envSettings)
        /\ userSetDispatcher' = userSetDispatcher /\ envAnswers' = envAnswers
        /\ refreshes' = [q \in Refreshes |->
              CASE q = r -> [refreshes[q] EXCEPT !.state = "walking", !.overlaps = walking # {}]
                [] q # r /\ q \in walking -> [refreshes[q] EXCEPT !.overlaps = TRUE]
                [] OTHER -> refreshes[q]]
    BY <1>1, Zenon DEF Refresh
  <1>3. refreshes \in [Refreshes -> EnvRefreshes]
    BY DEF EnvInv, EnvTypes
  <1>4. PICK crowd \in BOOLEAN : crowd = (walking # {})
    <2>1. (walking # {}) \in BOOLEAN
      OBVIOUS
    <2> QED
      BY <2>1, Zenon
  <1>5. crowd <=> walking # {}
    BY <1>4, Zenon
  <1>6. /\ DOMAIN refreshes' = Refreshes
        /\ refreshes'[r] = [[refreshes[r] EXCEPT !.state = "walking"] EXCEPT !.overlaps = crowd]
        /\ \A q \in Refreshes : q # r /\ q \in walking => refreshes'[q] = [refreshes[q] EXCEPT !.overlaps = TRUE]
        /\ \A q \in Refreshes : q # r /\ q \notin walking => refreshes'[q] = refreshes[q]
    <2>1. DOMAIN refreshes' = Refreshes
      BY <1>2, Zenon
    <2>2. refreshes'[r] = [refreshes[r] EXCEPT !.state = "walking", !.overlaps = walking # {}]
      BY <1>2, Zenon
    <2>3. refreshes'[r] = [refreshes[r] EXCEPT !.state = "walking", !.overlaps = crowd]
      BY <2>2, <1>4, Zenon
    <2>4. \A q \in Refreshes : q # r /\ q \in walking => refreshes'[q] = [refreshes[q] EXCEPT !.overlaps = TRUE]
      BY <1>2, Zenon
    <2>5. \A q \in Refreshes : q # r /\ q \notin walking => refreshes'[q] = refreshes[q]
      BY <1>2, Zenon
    <2> QED
      BY <2>1, <2>3, <2>4, <2>5, Zenon
  <1>7. /\ refreshes'[r] \in EnvRefreshes /\ refreshes'[r].state = "walking" /\ refreshes'[r].walks = refreshes[r].walks
        /\ (refreshes'[r].overlaps <=> crowd)
    <2>1. PICK x \in EnvRefreshes : x = refreshes[r]
      BY <1>3
    <2>2. PICK y \in EnvRefreshes : y = [x EXCEPT !.state = "walking"] /\ y.state = "walking" /\ y.walks = x.walks
      <3>1. PICK y : y = [x EXCEPT !.state = "walking"]
        OBVIOUS
      <3> QED
        BY <2>1, <3>1 DEF EnvRefreshes
    <2>3. PICK z \in EnvRefreshes : z = [y EXCEPT !.overlaps = crowd] /\ z.state = y.state /\ z.walks = y.walks
                                   /\ (z.overlaps <=> crowd)
      <3>1. PICK z \in EnvRefreshes : z = [y EXCEPT !.overlaps = crowd] /\ z.state = y.state /\ z.walks = y.walks
                                     /\ z.overlaps = crowd
        <4>1. PICK z : z = [y EXCEPT !.overlaps = crowd]
          OBVIOUS
        <4>2. z \in EnvRefreshes /\ z.state = y.state /\ z.walks = y.walks /\ z.overlaps = crowd
          BY ONLY <4>1, y \in EnvRefreshes, crowd \in BOOLEAN, OverlapsSet, Zenon
        <4> QED
          BY <4>1, <4>2, Zenon
      <3> QED
        BY <3>1, Zenon
    <2> QED
      BY <1>6, <2>1, <2>2, <2>3
  <1>8. ASSUME NEW q \in Refreshes, q # r
        PROVE  /\ refreshes'[q] \in EnvRefreshes /\ refreshes'[q].state = refreshes[q].state
               /\ refreshes'[q].walks = refreshes[q].walks
               /\ refreshes[q].overlaps => refreshes'[q].overlaps
               /\ refreshes[q].state = "walking" => refreshes'[q].overlaps
               /\ refreshes[q].state # "walking" => refreshes'[q].overlaps = refreshes[q].overlaps
    <2>1. CASE q \in walking
      <3>1. PICK x \in EnvRefreshes : x = refreshes[q] /\ x.state = "walking"
        BY <2>1, <1>1, <1>3
      <3>2. PICK y \in EnvRefreshes : /\ y = [x EXCEPT !.overlaps = TRUE] /\ y.state = x.state /\ y.walks = x.walks
                                     /\ y.overlaps
        <4>1. PICK y \in EnvRefreshes : y = [x EXCEPT !.overlaps = TRUE] /\ y.state = x.state /\ y.walks = x.walks
                                       /\ y.overlaps = TRUE
          BY <3>1, OverlapsSet
        <4> QED
          BY <4>1, Zenon
      <3> QED
        BY <1>6, <1>8, <2>1, <3>1, <3>2
    <2>2. CASE q \notin walking
      BY <2>2, <1>3, <1>6, <1>8, <1>1
    <2> QED
      BY <2>1, <2>2
  <1>9. \A q \in Refreshes : refreshes'[q].walks = refreshes[q].walks /\ refreshes'[q] \in EnvRefreshes
    BY <1>7, <1>8
  <1>10. DOMAIN envSettings' = Settings /\ envSettings'["Packages"] = <<>> /\ envSettings'["Dispatcher"] = envSettings["Dispatcher"]
    BY <1>2 DEF Refreshed, Empty, Settings
  <1>11. EnvTypes'
    <2>1. refreshes' \in [Refreshes -> EnvRefreshes]
      BY <1>2, <1>9
    <2>2. <<>> \in Seq(PackageLists)
      OBVIOUS
    <2>3. DOMAIN envAnswers' = Refreshes
      BY <1>2, Zenon DEF EnvInv, EnvTypes
    <2> QED
      BY <2>1, <2>2, <2>3, <1>10, Zenon DEF EnvTypes
  <1>12. EnvTypeOK'
    <2>1. userSetDispatcher' \in {c.name : c \in DispatcherCalls} \cup {"none"}
      BY <1>2 DEF EnvInv, EnvTypeOK
    <2>2. ASSUME NEW q \in Refreshes
          PROVE  /\ refreshes'[q].state \in {"none", "walking", "answered"}
                 /\ (envAnswers'[q] = <<>>) <=> refreshes'[q].state # "answered"
      <3>1. CASE q = r
        BY <3>1, <1>2, <1>7 DEF EnvInv, EnvTypeOK
      <3>2. CASE q # r
        BY <3>2, <1>2, <1>8 DEF EnvInv, EnvTypeOK
      <3> QED
        BY <3>1, <3>2
    <2> QED
      BY <2>1, <2>2, <1>10, Zenon DEF EnvTypeOK
  <1>13. UsersDispatcherStays'
    BY <1>2, <1>10 DEF EnvInv, UsersDispatcherStays
  <1>14. WalksFit'
    BY <1>9 DEF EnvInv, WalksFit
  <1>15. AnswersAreWhole'
    BY <1>2, Zenon DEF EnvInv, AnswersAreWhole
  <1>16. PackagesListedOnce'
    <2>1. ASSUME NEW q \in Refreshes, envAnswers'[q] # <<>>, ~refreshes'[q].overlaps
          PROVE  Len(envAnswers'[q][1]["Packages"]) = 1
      <3>1. envAnswers[q] # <<>> /\ refreshes[q].state = "answered" /\ q # r
        BY <2>1, <1>2 DEF EnvInv, EnvTypeOK
      <3>2. ~refreshes[q].overlaps
        BY <3>1, <2>1, <1>8
      <3> QED
        BY <3>1, <3>2, <1>2 DEF EnvInv, PackagesListedOnce
    <2> QED
      BY <2>1, Zenon DEF PackagesListedOnce
  <1>17. AloneFindsNothing'
    <2>1. ASSUME NEW q \in Refreshes, refreshes'[q].state = "walking", ~refreshes'[q].overlaps,
                 NEW o \in Refreshes, refreshes'[o].state = "walking"
          PROVE  o = q
      <3>1. q = r
        BY <2>1, <1>8
      <3>2. walking = {}
        BY <3>1, <2>1, <1>5, <1>7
      <3> QED
        BY <3>1, <3>2, <2>1, <1>1, <1>8
    <2> QED
      BY <2>1, <1>10, Zenon DEF AloneFindsNothing
  <1> QED
    BY <1>11, <1>12, <1>13, <1>14, <1>15, <1>16, <1>17, Zenon DEF EnvInv

\* What the instrumentations set leaves the packages and the walks alone.
LEMMA OthersAreSet ==
  ASSUME EnvInv, UNCHANGED <<refreshes, envAnswers>>, DOMAIN envSettings' = Settings,
         envSettings'["Packages"] = envSettings["Packages"], UsersDispatcherStays',
         userSetDispatcher' \in {c.name : c \in DispatcherCalls} \cup {"none"}
  PROVE  EnvInv'
  <1>1. EnvTypes' /\ EnvTypeOK'
    BY DEF EnvInv, EnvTypes, EnvTypeOK
  <1>2. WalksFit' /\ AnswersAreWhole' /\ PackagesListedOnce'
    BY Zenon DEF EnvInv, WalksFit, AnswersAreWhole, PackagesListedOnce
  <1>3. AloneFindsNothing'
    BY DEF EnvInv, AloneFindsNothing
  <1> QED
    BY <1>1, <1>2, <1>3, Zenon DEF EnvInv

LEMMA EnvStarts == EnvInit => EnvInv
  <1> SUFFICES ASSUME EnvInit PROVE EnvInv
    OBVIOUS
  <1>1. \A r \in Refreshes : /\ refreshes[r].state = "none" /\ refreshes[r].overlaps = FALSE
                             /\ \A p \in Places : refreshes[r].walks[p] = NoWalk
    BY DEF EnvInit
  <1>2. NoWalk \in NodeWalks /\ NoWalk.root = 1 /\ NoWalk.visited = {} /\ NoWalk.open = {} /\ NoWalk.listed = <<>>
    <2>1. <<>> \in Seq(Directories)
      OBVIOUS
    <2> QED
      BY <2>1 DEF NoWalk, NodeWalks
  <1>3. refreshes \in [Refreshes -> EnvRefreshes]
    BY <1>2 DEF EnvInit, EnvRefreshes
  <1>4. EnvTypes
    <2>1. DOMAIN envSettings = Settings /\ envSettings["Packages"] = <<>>
      BY DEF EnvInit, Empty, Settings
    <2>2. <<>> \in Seq(PackageLists)
      OBVIOUS
    <2> QED
      BY <2>1, <2>2, <1>3 DEF EnvInit, EnvTypes
  <1>5. EnvTypeOK
    BY <1>1, <1>4 DEF EnvInit, EnvTypeOK, EnvTypes
  <1>6. ASSUME NEW p \in Places PROVE WalkStays(p, NoWalk) /\ WalkGoesOn(p, NoWalk) /\ WalkIsShort(p, NoWalk)
    <2>1. ListedIn(NoWalk.listed) = {} /\ {e[2] : e \in NoWalk.open} = {}
      BY <1>2 DEF ListedIn
    <2>2. Len(Roots(p)) \in Nat
      BY EnvironmentAssumption, LenProperties
    <2>3. WalkStays(p, NoWalk)
      BY <2>1, <2>2, <1>2 DEF WalkStays
    <2>4. WalkGoesOn(p, NoWalk)
      BY <2>1, <1>2 DEF WalkGoesOn
    <2>5. ASSUME NEW d PROVE PlacesOf(NoWalk.listed, d) = {} /\ RootsBefore(p, NoWalk.root, d) = {}
      BY <1>2 DEF PlacesOf, RootsBefore
    <2>6. WalkIsShort(p, NoWalk)
      <3>1. Cardinality({}) = 0
        BY FS_EmptySet
      <3>2. ASSUME NEW d \in Directories
            PROVE  Cardinality(PlacesOf(NoWalk.listed, d)) <=
                       Cardinality(RootsBefore(p, NoWalk.root, d)) + (IF d \in NoWalk.visited THEN 1 ELSE 0)
        <4>1. PICK a, b : a = Cardinality(PlacesOf(NoWalk.listed, d)) /\ b = Cardinality(RootsBefore(p, NoWalk.root, d))
                          /\ a = 0 /\ b = 0
          BY <2>5, <3>1
        <4> QED
          BY <4>1
      <3> QED
        BY <3>2, Zenon DEF WalkIsShort
    <2> QED
      BY <2>3, <2>4, <2>6
  <1>7. WalksFit
    BY <1>1, <1>6, Zenon DEF WalksFit
  <1>8. AnswersAreWhole /\ PackagesListedOnce /\ UsersDispatcherStays
    BY DEF EnvInit, AnswersAreWhole, PackagesListedOnce, UsersDispatcherStays
  <1>9. AloneFindsNothing
    BY <1>1 DEF AloneFindsNothing
  <1> QED
    BY <1>4, <1>5, <1>7, <1>8, <1>9, Zenon DEF EnvInv

LEMMA EnvStep == EnvInv /\ [EnvNext]_envVars => EnvInv'
  <1> SUFFICES ASSUME EnvInv, [EnvNext]_envVars PROVE EnvInv'
    OBVIOUS
  <1>0. DOMAIN envSettings = Settings /\ userSetDispatcher \in {c.name : c \in DispatcherCalls} \cup {"none"}
        /\ UsersDispatcherStays
    BY DEF EnvInv, EnvTypes, EnvTypeOK
  <1>1. ASSUME NEW f \in Frameworks, SetFramework(f) PROVE EnvInv'
    <2>1. envSettings' = [envSettings EXCEPT !["Framework"] = Append(envSettings["Framework"], f)]
      BY <1>1, Zenon DEF SetFramework, AddedSetting
    <2>2. DOMAIN envSettings' = Settings /\ envSettings'["Packages"] = envSettings["Packages"]
          /\ envSettings'["Dispatcher"] = envSettings["Dispatcher"]
      BY <2>1, <1>0
    <2>3. UNCHANGED <<userSetDispatcher, refreshes, envAnswers>>
      BY <1>1 DEF SetFramework
    <2>4. UsersDispatcherStays'
      BY <2>2, <2>3, <1>0 DEF UsersDispatcherStays
    <2> QED
      BY <2>2, <2>3, <2>4, <1>0, OthersAreSet
  <1>2. ASSUME NEW call \in DispatcherCalls, SetDispatcher(call) PROVE EnvInv'
    <2>1. CASE userSetDispatcher # "none"
      BY <2>1, <1>0, <1>2, OthersAreSet DEF SetDispatcher, UsersDispatcherStays
    <2>2. CASE userSetDispatcher = "none"
      <3>1. /\ userSetDispatcher' = IF call.user THEN call.name ELSE "none"
            /\ envSettings' = [envSettings EXCEPT !["Dispatcher"] = <<call.name>>, !["Dispatcher Version"] = call.version]
            /\ UNCHANGED <<refreshes, envAnswers>>
        BY <1>2, <2>2, Zenon DEF SetDispatcher
      <3>2. DOMAIN envSettings' = Settings /\ envSettings'["Packages"] = envSettings["Packages"]
            /\ envSettings'["Dispatcher"] = <<call.name>>
        BY <3>1, <1>0 DEF Settings
      <3>3. userSetDispatcher' = call.name \/ userSetDispatcher' = "none"
        BY <3>1
      <3>4. UsersDispatcherStays'
        BY <3>2, <3>3 DEF UsersDispatcherStays
      <3>5. userSetDispatcher' \in {c.name : c \in DispatcherCalls} \cup {"none"}
        BY <3>3
      <3> QED
        BY <3>1, <3>2, <3>4, <3>5, OthersAreSet
    <2> QED
      BY <2>1, <2>2
  <1>3. ASSUME NEW r \in Refreshes, Refresh(r) \/ AnswerRefresh(r) PROVE EnvInv'
    BY <1>3, RefreshIsBegun, RefreshIsAnswered
  <1>4. ASSUME NEW r \in Refreshes, NEW p \in Places,
               BeginRoot(r, p) \/ \E entry \in Directories \X Directories : FollowEntry(r, p, entry)
        PROVE  EnvInv'
    BY <1>4, RootIsBegun, EntryIsFollowed
  <1>5. CASE UNCHANGED envVars
    <2>1. UsersDispatcherStays'
      BY <1>0, <1>5 DEF envVars, UsersDispatcherStays
    <2> QED
      BY <2>1, <1>0, <1>5, OthersAreSet DEF envVars
  <1> QED
    BY <1>1, <1>2, <1>3, <1>4, <1>5, Zenon DEF EnvNext

LEMMA EnvInvGives == EnvInv => EnvironmentCorrect
  <1> SUFFICES ASSUME EnvInv PROVE EnvironmentCorrect
    OBVIOUS
  <1>1. ASSUME NEW r \in Refreshes, NEW p \in Places, NEW d \in Directories
        PROVE  LET walk == refreshes[r].walks[p]
               IN Cardinality(PlacesOf(walk.listed, d)) <= Cardinality(RootsBefore(p, walk.root, d)) + 1
    <2>1. PICK walk \in NodeWalks : walk = refreshes[r].walks[p] /\ WalkIsShort(p, walk)
      BY DEF EnvInv, EnvTypes, EnvRefreshes, WalksFit
    <2>2. PICK c \in {0, 1} : c = IF d \in walk.visited THEN 1 ELSE 0
      OBVIOUS
    <2>3. Cardinality(PlacesOf(walk.listed, d)) <= Cardinality(RootsBefore(p, walk.root, d)) + c
      BY <2>1, <2>2, Zenon DEF WalkIsShort
    <2>4. Cardinality(RootsBefore(p, walk.root, d)) \in Nat
      <3>1. walk.root \in Nat \ {0}
        BY DEF NodeWalks
      <3> QED
        BY <3>1, RootsBeforeGrow
    <2>5. Cardinality(PlacesOf(walk.listed, d)) \in Nat
      <3>1. walk.listed \in Seq(Directories)
        BY DEF NodeWalks
      <3> QED
        BY <3>1, ListedAppended
    <2> QED
      BY <2>1, <2>2, <2>3, <2>4, <2>5
  <1>2. EachVisitedOnce
    BY <1>1, Zenon DEF EachVisitedOnce, PlacesOf, RootsBefore
  <1> QED
    BY <1>2, Zenon DEF EnvInv, EnvironmentCorrect

\* For any places, directories and links between them, and any refreshes that overlap: no walk visits a
\* directory twice but as a root, each answer has all that can be reached and read, once unless
\* refreshes overlap, and the application's dispatcher stays (lib/environment.js).
THEOREM EnvironmentIsCorrect == EnvSpec => []EnvironmentCorrect
  <1>1. EnvInit => EnvInv
    BY EnvStarts
  <1>2. EnvInv /\ [EnvNext]_envVars => EnvInv'
    BY EnvStep
  <1>3. EnvInv => EnvironmentCorrect
    BY EnvInvGives
  <1> QED
    BY <1>1, <1>2, <1>3, PTL DEF EnvSpec
=============================================================================
