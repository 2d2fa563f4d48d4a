---------------------------- MODULE MCComponents -----------------------------
(***************************************************************************)
(* One model for components that share no state with each other: every     *)
(* behaviour is a behaviour of the one component its initial state names,  *)
(* so the states to explore add up instead of multiplying.                 *)
(***************************************************************************)
EXTENDS EventHarvest, AdaptiveSampler, SlowTraces, SlowQueries,
        DistributedTrace, ErrorCollector, Configuration,
        SpanStreaming, Serverless, HostFacts, Environment,
        CrossApplication, Logging, RemoteMethod, FakeBackend

VARIABLE component

\* 100 * (t ^ (t / n) - t ^ (1/2)) for targets 1 and 2.
BackOff == [t \in {1, 2} |-> IF t = 1 THEN [n \in 1 .. 6 |-> 0]
                             ELSE <<259, 59, 17, 0, -9, -15>>]

\* Distributed traces: o3 belongs to another account.
Keys == [s \in {"o1", "o2", "o3"} |-> IF s = "o3" THEN "theirs" ELSE "ours"]
Vendor == [key |-> "vendor", app |-> "outside", valid |-> TRUE, sampled |-> "unset", priority |-> NoPriority]
Browser == [app |-> "outside", key |-> "ours", major |-> 0, complete |-> TRUE,
            trace |-> [by |-> "outside", wide |-> FALSE], priority |-> NoPriority, sampled |-> "yes"]
W3C == [parent |-> [by |-> "outside", wide |-> TRUE], state |-> <<Vendor, [Vendor EXCEPT !.key = "ours"]>>,
        wellFormed |-> TRUE, payload |-> NoPayload]
FromOutside == {W3C, [W3C EXCEPT !.parent = BadTrace],
    [W3C EXCEPT !.state = <<Vendor, [Vendor EXCEPT !.key = "ours", !.valid = FALSE]>>]}
    \cup {[parent |-> NoTrace, state |-> <<>>, wellFormed |-> TRUE, payload |-> p] :
            p \in {[Browser EXCEPT !.priority = 3], [Browser EXCEPT !.major = 1],
                   [Browser EXCEPT !.priority = 3, !.sampled = "unset"], [Browser EXCEPT !.key = "theirs"]}}

\* Configurations: of an installation, of policies, of replies to connect.
LOCAL INSTANCE TLC
Inst(file, env, token) ==
    [file |-> file, env |-> env, token |-> token, account |-> FALSE, recordSql |-> "raw", codes |-> <<404>>]
SomeInstallations ==
    {Inst(<<>>, <<>>, TRUE), Inst(<<>>, ("high_security" :> TRUE), TRUE),
     Inst(("attributes.include" :> TRUE) @@ ("strip_exception_messages.enabled" :> TRUE) @@ ("ssl" :> FALSE),
          ("api.custom_events_enabled" :> FALSE) @@ ("ssl" :> FALSE), TRUE),
     Inst(("high_security" :> FALSE) @@ ("slow_sql.enabled" :> TRUE) @@ ("allow_all_headers" :> TRUE),
          ("high_security" :> TRUE) @@ ("slow_sql.enabled" :> TRUE), FALSE),
     Inst(("transaction_tracer.attributes.include" :> TRUE), ("attributes.include" :> FALSE), TRUE),
     Inst(("attributes.include" :> TRUE), ("attributes.enabled" :> FALSE), TRUE),
     Inst(("custom_insights_events.enabled" :> FALSE) @@ ("slow_sql.enabled" :> FALSE),
          ("slow_sql.enabled" :> TRUE), FALSE),
     Inst(<<>>, ("serverless_mode.enabled" :> TRUE), FALSE),
     [Inst(("serverless_mode.enabled" :> TRUE), <<>>, FALSE) EXCEPT !.account = TRUE]}
AllPolicies == {"record_sql", "attributes_include", "allow_raw_exception_messages",
                "custom_events", "custom_parameters", "job_arguments"}
Policies(enabled, required) == [sent |-> AllPolicies, enabled |-> enabled, required |-> required]
SomePolicies ==
    {Policies(AllPolicies, {}), Policies(AllPolicies \ {"record_sql", "custom_events"}, {}),
     Policies({"custom_events"}, {"record_sql"}), Policies({}, {"job_arguments"}),
     [sent |-> {}, enabled |-> {}, required |-> {}]}
Key(k, v) == [key |-> k, value |-> v]
SomeReplies ==
    <<[highSecurity |-> FALSE, keys |-> <<Key("account_id", "server"), Key("collect_custom_events", FALSE),
            Key("slow_sql.enabled", TRUE), Key("transaction_tracer.record_sql", "raw")>>],
      [highSecurity |-> TRUE, keys |-> <<Key("collect_error_events", FALSE), Key("ssl", FALSE),
            Key("allow_all_headers", TRUE), Key("error_collector.capture_events", TRUE)>>],
      [highSecurity |-> TRUE, keys |-> <<Key("collect_custom_events", TRUE), Key("collect_analytics_events", FALSE),
            Key("error_collector.ignore_status_codes", [valid |-> TRUE, items |->
                <<[text |-> FALSE, codes |-> <<404>>], [text |-> TRUE, codes |-> <<500>>]>>])>>],
      [highSecurity |-> TRUE, keys |-> <<Key("error_collector.ignore_status_codes",
            [valid |-> FALSE, items |-> <<[text |-> FALSE, codes |-> <<600>>]>>])>>]>>

\* Traces, by the children of each segment: of one segment, of two in a row, of two beside each
\* other with one below.
Trees == {<<<<2>>, <<>>>>, <<<<2>>, <<3>>, <<>>>>, <<<<2, 3>>, <<4>>, <<>>, <<>>>>}
\* The host's facts: every vendor is looked for on Linux, none on a Mac.
SomeHosts == {[platform |-> "linux", detects |-> {"aws", "pcf", "docker"}], [platform |-> "darwin", detects |-> {}],
              [platform |-> "other", detects |-> {"aws", "docker"}]}
\* The environment: the working directory's packages have packages of their own, one of which
\* links back and to itself, and the home's directory cannot be read.
SomePlaces == {"local", "home"}
RootsOf(p) == IF p = "local" THEN <<"d1", "d2">> ELSE <<"d3">>
EntriesOf(d) == CASE d = "d1" -> {"d2", "d3"} [] d = "d2" -> {"d1", "d2"} [] OTHER -> {}
CanRead(d) == d # "d3"
SomeDispatchers == {[name |-> "http", version |-> <<>>, user |-> FALSE],
                    [name |-> "own", version |-> <<"2">>, user |-> TRUE]}
\* Cross application tracing: a and b are of one account and trust each other; b also calls c, of
\* another, which trusts both.
AppOfCall(t) == CASE t = "t1" -> "a" [] t = "t2" -> "b" [] OTHER -> "c"
AccountOfApp(app) == IF app = "c" THEN 2 ELSE 1
TrustsOf(app) == IF app = "c" THEN {1, 2} ELSE {1}
KeyOfApp(app) == "key"
NamesOfCall(t) == IF t = "t1" THEN {1, 2} ELSE {1}
RequestsOfCall(t) == CASE t = "t1" -> 2 [] t = "t2" -> 1 [] OTHER -> 0
CallersOf(t) == CASE t = "t2" -> {"t1"} [] t = "t3" -> {"t2"} [] OTHER -> {}
\* Payloads: what cannot be serialized, and the others small or large, and too long or not.
SomePayloads == [serializes : {TRUE}, large : BOOLEAN, fits : BOOLEAN]
                \cup {[serializes |-> FALSE, large |-> FALSE, fits |-> TRUE]}
\* The fake backend, with ids up to 3 (bound).
BackendInBounds ==
    /\ BackendNext
    /\ \A t \in Tabs : \A a \in users'[t] : a.id <= 3

Init ==
    /\ component \in {"events", "sampler", "traces", "queries",
                      "distributed", "errors",
                      "configuration", "spans",
                      "lambda", "facts", "environment",
                      "cat", "log", "remote", "backend"}
    /\ EventInit /\ SamplerInit /\ TraceInit /\ QueryInit /\ DtInit
    /\ ErrorInit /\ ConfigInit /\ SpanStreamInit
    /\ ServerlessInit /\ HostInit /\ EnvInit /\ CatInit
    /\ LogInit /\ RemoteInit /\ BackendInit
    /\ component = "sampler" \/ (target = 1)
    /\ component = "facts" \/ (host.platform = "linux")

\* Components other than the named one stay as they are.
Idle(name) ==
    /\ UNCHANGED component
    /\ IF name \notin {"events", "sampler", "traces", "queries"}
       THEN UNCHANGED <<eventVars, samplerVars, traceVars, queryVars>>
       ELSE /\ IF name = "events" THEN TRUE ELSE UNCHANGED eventVars
            /\ IF name = "sampler" THEN TRUE ELSE UNCHANGED samplerVars
            /\ IF name = "traces" THEN TRUE ELSE UNCHANGED traceVars
            /\ IF name = "queries" THEN TRUE ELSE UNCHANGED queryVars
    /\ IF name \notin {"distributed", "errors", "configuration", "spans"}
       THEN UNCHANGED <<dtVars, errorVars, configVars, spanVars>>
       ELSE /\ IF name = "distributed" THEN TRUE ELSE UNCHANGED dtVars
            /\ IF name = "errors" THEN TRUE ELSE UNCHANGED errorVars
            /\ IF name = "configuration" THEN TRUE ELSE UNCHANGED configVars
            /\ IF name = "spans" THEN TRUE ELSE UNCHANGED spanVars
    /\ IF name \notin {"lambda", "facts", "environment", "cat"}
       THEN UNCHANGED <<lambdaVars, hostVars, envVars, catVars>>
       ELSE /\ IF name = "lambda" THEN TRUE ELSE UNCHANGED lambdaVars
            /\ IF name = "facts" THEN TRUE ELSE UNCHANGED hostVars
            /\ IF name = "environment" THEN TRUE ELSE UNCHANGED envVars
            /\ IF name = "cat" THEN TRUE ELSE UNCHANGED catVars
    /\ IF name \notin {"log", "remote", "backend"}
       THEN UNCHANGED <<logVars, remoteVars, backendVars>>
       ELSE /\ IF name = "log" THEN TRUE ELSE UNCHANGED logVars
            /\ IF name = "remote" THEN TRUE ELSE UNCHANGED remoteVars
            /\ IF name = "backend" THEN TRUE ELSE UNCHANGED backendVars

Next ==
    \/ component = "events"        /\ EventNext       /\ Idle("events")
    \/ component = "sampler"       /\ SamplerNext     /\ Idle("sampler")
    \/ component = "traces"        /\ TraceNext       /\ Idle("traces")
    \/ component = "queries"       /\ QueryNext       /\ Idle("queries")
    \/ component = "distributed"   /\ DtNext          /\ Idle("distributed")
    \/ component = "errors"        /\ ErrorNext       /\ Idle("errors")
    \/ component = "configuration" /\ ConfigNext      /\ Idle("configuration")
    \/ component = "spans"         /\ SpanStreamNext  /\ Idle("spans")
    \/ component = "lambda"        /\ ServerlessNext  /\ Idle("lambda")
    \/ component = "facts"         /\ HostNext        /\ Idle("facts")
    \/ component = "environment"   /\ EnvNext         /\ Idle("environment")
    \/ component = "cat"           /\ CatNext         /\ Idle("cat")
    \/ component = "log"           /\ LogNext         /\ Idle("log")
    \/ component = "remote"        /\ RemoteNext      /\ Idle("remote")
    \/ component = "backend"       /\ BackendInBounds /\ Idle("backend")

vars == <<component, eventVars, samplerVars, traceVars, queryVars, dtVars,
          errorVars, configVars, spanVars, lambdaVars,
          hostVars, envVars, catVars, logVars, remoteVars,
          backendVars>>

Spec == Init /\ [][Next]_vars

=============================================================================
