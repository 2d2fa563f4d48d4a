---------------------------- MODULE Configuration ----------------------------
(***************************************************************************)
(* The agent's configuration: lib/config/index.js with hsm.js, lasp.js and *)
(* merge-server-config.js.  It is made once, from the defaults, the file   *)
(* and the environment, and from then on changed by every login: the       *)
(* policies of preconnect first, the server's settings after them.         *)
(*                                                                         *)
(* A setting that is on or off, or a list of which only matters whether    *)
(* there is something in it, is a flag; the lists of the destinations of   *)
(* attributes are one, that of the traces.                                 *)
(***************************************************************************)
EXTENDS Integers, Sequences, FiniteSets

CONSTANTS
    Installations,  \* [file, env : flags set there, token, account : BOOLEAN, recordSql, codes]
    PolicySets,     \* what preconnect may bring: [sent, enabled, required : SUBSET policies]
    Replies,        \* what connect may bring: a sequence of [highSecurity : BOOLEAN, keys]
    MaxCodes,       \* bound: codes on the list of ignored ones, which connects lengthen
    MaxUnderway     \* bound: policies whose data is under way to their collection

SqlModes == {"off", "obfuscated", "raw"}

\* Whose account it is: unknown, set by the application for lack of a server, or the server's.
AccountIds == {"none", "local", "server"}

\* Settings on by default, and off.
On == {"ssl", "attributes.enabled", "attributes.include_enabled", "api.custom_events_enabled",
       "api.custom_attributes_enabled", "api.custom_parameters_enabled",
       "cross_application_tracer.enabled", "transaction_events.enabled",
       "custom_insights_events.enabled", "error_collector.capture_events"}
Off == {"high_security", "serverless_mode.enabled", "slow_sql.enabled", "allow_all_headers",
        "strip_exception_messages.enabled", "attributes.include", "attributes.exclude",
        "transaction_tracer.attributes.include", "distributed_tracing.enabled"}
Flags == On \cup Off
Defaults == [f \in Flags |-> f \in On]

\* hsm.js.
SecureOn == {"ssl", "strip_exception_messages.enabled"}
SecureOff == {"allow_all_headers", "attributes.include", "transaction_tracer.attributes.include", "slow_sql.enabled"}
HighSecuritySettings == [f \in SecureOn \cup SecureOff |-> f \in SecureOn]
HighSecurityKeys == DOMAIN HighSecuritySettings \cup {"transaction_tracer.record_sql"}

\* lasp.js: the flag of a policy, and the value it has when the policy is enabled.
\* record_sql has three values; a policy without a mapping is null there.
PolicyFlag ==
    [attributes_include |-> "attributes.include_enabled",
     allow_raw_exception_messages |-> "strip_exception_messages.enabled",
     custom_events |-> "api.custom_events_enabled",
     custom_parameters |-> "api.custom_attributes_enabled"]
Mapped == DOMAIN PolicyFlag \cup {"record_sql"}
Unmapped == {"job_arguments"}
LaxValue(name) == name # "allow_raw_exception_messages"

\* What connect may bring a value for, and what it leaves alone.
ServerFlags == {"allow_all_headers", "slow_sql.enabled", "transaction_events.enabled",
                "error_collector.capture_events", "cross_application_tracer.enabled"}
DisableKeys == {"collect_analytics_events", "collect_custom_events", "collect_error_events"}
LeftAlone == {"ssl", "attributes.enabled", "attributes.include", "attributes.include_enabled",
              "transaction_tracer.attributes.include", "transaction_tracer.record_sql",
              "strip_exception_messages.enabled", "serverless_mode.enabled", "api.custom_events_enabled"}
CodesKey == "error_collector.ignore_status_codes"

IsList(s) == s = [i \in 1..Len(s) |-> s[i]] /\ Len(s) \in Nat
FlagsIn(source) == DOMAIN source \subseteq Flags /\ \A f \in DOMAIN source : source[f] \in BOOLEAN
IsInstallation(inst) ==
    /\ FlagsIn(inst.file) /\ FlagsIn(inst.env)
    /\ {inst.token, inst.account} \subseteq BOOLEAN
    /\ inst.recordSql \in SqlModes /\ inst.codes \in Seq(Nat)
\* Codes: a number is one, and is no text.
IsItem(item) ==
    /\ item.text \in BOOLEAN /\ item.codes \in Seq(Nat)
    /\ ~item.text => Len(item.codes) = 1
IsCodes(value) ==
    /\ value.valid \in BOOLEAN /\ IsList(value.items)
    /\ \A k \in 1..Len(value.items) : IsItem(value.items[k])
IsSetting(s) ==
    \/ s.key \in ServerFlags \cup DisableKeys /\ s.value \in BOOLEAN
    \/ s.key \in LeftAlone
    \/ s.key = "account_id" /\ s.value = "server"
    \/ s.key = CodesKey /\ IsCodes(s.value)
ASSUME ConfigurationAssumption ==
    /\ \A inst \in Installations : IsInstallation(inst)
    /\ \A r \in DOMAIN Replies : /\ IsList(Replies[r].keys)
                              /\ \A i \in 1..Len(Replies[r].keys) : IsSetting(Replies[r].keys[i])

VARIABLES
    config,  \* the settings: flag, recordSql, codes, token, account
    rules,   \* does the attribute filter, compiled with the settings, include by a list?
    phase,   \* "new", "loaded", "preconnected", "connected", "reconnecting", "disabled" or "stopped"
    gathered,    \* policies whose collection (queries, traces, errors, custom events) has data
    underway,    \* policies whose data may still come to it: of transactions that run, of batches that are out
    announced,   \* the policies connect was told are enabled
    past   \* for the properties: the installation, what policies allow, what was turned off, codes,
           \* late: what came to a collection after its setting had been tightened

configVars == <<config, rules, phase, gathered, underway, announced, past>>

Listed(list) == {list[i] : i \in DOMAIN list}

NoConfig == [flag |-> Defaults, recordSql |-> "off", codes |-> <<>>, token |-> FALSE, account |-> "none"]

\* Is what the policy speaks of reported?
Lax(c, name) ==
    IF name = "record_sql" THEN c.recordSql # "off" ELSE c.flag[PolicyFlag[name]] = LaxValue(name)

ConfigSettings ==
    [flag : [Flags -> BOOLEAN], recordSql : SqlModes, codes : Seq(Nat), token : BOOLEAN, account : AccountIds]

ConfigTypeOK ==
    /\ config \in ConfigSettings
    /\ phase \in {"new", "loaded", "preconnected", "connected", "reconnecting", "disabled", "stopped"}
    /\ rules \in BOOLEAN
    /\ gathered \subseteq Mapped /\ underway \subseteq Mapped /\ announced \subseteq Mapped

ConfigInit ==
    /\ config = NoConfig /\ rules = FALSE
    /\ phase = "new"
    /\ gathered = {} /\ underway = {} /\ announced = {}
    /\ past = [from |-> {}, allowed |-> Mapped, off |-> {}, codes |-> {}, late |-> {}]

-----------------------------------------------------------------------------
\* The constructor.  TLS cannot be turned off, from nowhere.
Overridden(flag, by) ==
    [f \in Flags |-> IF f \notin DOMAIN by \/ (f = "ssl" /\ ~by[f]) THEN flag[f] ELSE by[f]]

\* A variable that env.js does not list as a boolean stays text, and no text is falsy.
TextVars == {"api.custom_attributes_enabled", "api.custom_events_enabled", "api.custom_parameters_enabled"}
FromEnvironment(flag, env) ==
    Overridden(flag, [f \in DOMAIN env |-> env[f] \/ f \in TextVars])

Canonicalized(flag) ==
    [flag EXCEPT !["api.custom_attributes_enabled"] = @ /\ flag["api.custom_parameters_enabled"]]

\* _enforceServerless; tracing needs an account, which otherwise only the server names.
TracingLeft(c, inst) ==
    LET manual == "distributed_tracing.enabled" \in DOMAIN inst.file \cup DOMAIN inst.env
    IN  (~manual \/ c.flag["distributed_tracing.enabled"]) /\ inst.account
ServerlessEnforced(c, inst) ==
    IF c.flag["serverless_mode.enabled"]
    THEN [c EXCEPT !.flag["cross_application_tracer.enabled"] = FALSE,
                   !.flag["distributed_tracing.enabled"] = TracingLeft(c, inst),
                   !.account = IF inst.account THEN "local" ELSE "none"]
    ELSE c

\* _applyHighSecurity.
HighSecurityApplied(c) ==
    IF ~c.flag["high_security"] THEN c
    ELSE [c EXCEPT !.flag = [f \in Flags |->
                        IF f = "attributes.exclude" THEN TRUE
                        ELSE IF f \in DOMAIN HighSecuritySettings THEN HighSecuritySettings[f] ELSE @[f]],
                   !.recordSql = "obfuscated"]

Constructed(inst) ==
    LET passed == Overridden(Defaults, inst.file)
        flag == Canonicalized(FromEnvironment(passed, inst.env))
        c == [NoConfig EXCEPT !.flag = flag, !.recordSql = inst.recordSql,
                              !.codes = inst.codes, !.token = inst.token]
    IN  HighSecurityApplied(ServerlessEnforced(c, inst))

\* The attribute filter: made with the configuration, and compiled again on events that
\* neither a policy nor the server gives rise to.
Compiled(flag) ==
    flag["attributes.include_enabled"] /\ (flag["attributes.include"] \/ flag["transaction_tracer.attributes.include"])

\* getOrCreateInstance: with a token and high security the constructor throws, and the
\* agent is disabled.
Load(inst) ==
    /\ phase = "new"
    /\ LET c == Constructed(inst) IN
       IF c.token /\ c.flag["high_security"]
       THEN phase' = "disabled" /\ UNCHANGED <<config, rules, past>>
       ELSE /\ config' = c /\ rules' = Compiled(c.flag)
            /\ phase' = "loaded"
            /\ past' = [from |-> {inst}, allowed |-> {n \in Mapped : Lax(c, n)},
                          off |-> {f \in Flags : ~c.flag[f]}, codes |-> Listed(inst.codes), late |-> {}]
    /\ UNCHANGED <<gathered, underway, announced>>

-----------------------------------------------------------------------------
\* applyLasp.  Slip: the policy's value is taken.
MostSecureNot(value, name, enabled) == enabled = LaxValue(name)

\* The most secure of a flag and what the policy that speaks of it allows.
MostSecure(value, name, enabled) == IF LaxValue(name) THEN value /\ enabled ELSE value \/ ~enabled

MostSecureSql(value, enabled) == IF enabled /\ value # "off" THEN "obfuscated" ELSE "off"

\* The policy that speaks of a flag.
PolicyOf == [f \in {PolicyFlag[n] : n \in DOMAIN PolicyFlag} |->
                CHOOSE n \in DOMAIN PolicyFlag : PolicyFlag[n] = f]

\* What of a policy set is applied, whatever becomes of it as a whole: no two of its policies
\* speak of the same setting.
WithPolicies(c, ps) ==
    LET sent(f) == f \in DOMAIN PolicyOf /\ PolicyOf[f] \in ps.sent
        applied ==
            [c EXCEPT
               !.flag = [f \in Flags |-> IF sent(f) THEN MostSecure(@[f], PolicyOf[f], PolicyOf[f] \in ps.enabled)
                                        ELSE @[f]],
               !.recordSql = IF "record_sql" \in ps.sent THEN MostSecureSql(@, "record_sql" \in ps.enabled) ELSE @]
    IN  IF "attributes_include" \in ps.sent /\ ~Lax(applied, "attributes_include")
        THEN [applied EXCEPT !.flag["attributes.exclude"] = TRUE]
        ELSE applied

\* A setting that has become more secure drops the collection of the data it speaks of, that of
\* the traces only for attributes that the settings let in: the lists of the destinations are
\* not looked at.
Tightened(old, new, name) ==
    Lax(old, name) # Lax(new, name) \/ (name = "record_sql" /\ old.recordSql # new.recordSql)
Clears(c, name) ==
    /\ name \in {"attributes_include", "custom_parameters"} => c.flag["attributes.enabled"]
    /\ name = "attributes_include" => c.flag["attributes.include"]
Cleared1(old, new) == {name \in gathered : ~(Tightened(old, new, name) /\ Clears(new, name))}

Missing(ps) == (Mapped \cup Unmapped) \ ps.sent # {}
Unknown(ps) == \E name \in ps.required \ Mapped : name \in ps.sent

Preconnect(ps) ==
    /\ phase \in {"loaded", "reconnecting"} /\ ~config.flag["serverless_mode.enabled"]
    /\ IF ~config.token
       THEN /\ phase' = IF ps.sent = {} THEN "preconnected" ELSE "stopped"
            /\ announced' = {}
            /\ UNCHANGED <<config, gathered, past>>
       ELSE /\ config' = WithPolicies(config, ps)
            /\ gathered' = Cleared1(config, config')
            /\ announced' = {n \in ps.sent \cap Mapped : Lax(config', n)}
            /\ phase' = IF Missing(ps) \/ Unknown(ps) THEN "stopped" ELSE "preconnected"
            /\ past' = [past EXCEPT !.allowed = @ \cap (ps.enabled \cup (Mapped \ ps.sent))]
    /\ UNCHANGED <<rules, underway>>

-----------------------------------------------------------------------------
\* onConnect.  _updateNestedIfChanged for a flag.
UpdateFlag(c, key, value) ==
    IF c.flag["high_security"] /\ key \in HighSecurityKeys THEN c ELSE [c EXCEPT !.flag[key] = value]

\* "never enable from server-side but we allow the server to disable".
DisableOnly(c, flag, value) == IF value THEN c ELSE [c EXCEPT !.flag[flag] = FALSE]

\* _validateThenUpdateStatusCodes, updateArray and _parseCodes: a number is pushed if it
\* is not there yet, a text or a range is parsed after it has been pushed.
WithItem(list, item) == IF ~item.text /\ Head(item.codes) \in Listed(list) THEN list ELSE list \o item.codes
MergedCodes(list, remote) ==
    LET merged[k \in 0..Len(remote)] == IF k = 0 THEN list ELSE WithItem(merged[k - 1], remote[k])
    IN  merged[Len(remote)]
UpdateCodes(c, value) ==
    IF ~value.valid THEN c ELSE [c EXCEPT !.codes = MergedCodes(@, value.items)]

\* _fromServer.  The keys of agent_config come where it stands among the others.
FromServer(c, setting) ==
    CASE setting.key = "allow_all_headers" ->
             LET d == UpdateFlag(c, setting.key, setting.value) IN [d EXCEPT !.flag = Canonicalized(@)]
      [] setting.key \in ServerFlags \ {"allow_all_headers"} ->
             UpdateFlag(c, setting.key, setting.value)
      [] setting.key = "account_id" -> [c EXCEPT !.account = setting.value]
      [] setting.key = "collect_analytics_events" -> DisableOnly(c, "transaction_events.enabled", setting.value)
      [] setting.key = "collect_custom_events" -> DisableOnly(c, "custom_insights_events.enabled", setting.value)
      [] setting.key = "collect_error_events" -> DisableOnly(c, "error_collector.capture_events", setting.value)
      [] setting.key = CodesKey -> UpdateCodes(c, setting.value)
      [] setting.key \in LeftAlone -> c

\* The keys of a reply, one after another.
AllFromServer(c, keys) ==
    LET after[k \in 0..Len(keys)] == IF k = 0 THEN c ELSE FromServer(after[k - 1], keys[k])
    IN  after[Len(keys)]

CodesOf(setting) ==
    IF setting.key = CodesKey /\ setting.value.valid
    THEN UNION {Listed(setting.value.items[k].codes) : k \in DOMAIN setting.value.items}
    ELSE {}
CodesSent(reply) == UNION {CodesOf(reply.keys[i]) : i \in DOMAIN reply.keys}

Connect1(reply) ==
    /\ phase = "preconnected"
    /\ IF config.flag["high_security"] /\ ~reply.highSecurity
       THEN phase' = "disabled" /\ UNCHANGED <<config, past>>
       ELSE /\ config' = AllFromServer(config, reply.keys)
            /\ Len(config'.codes) <= MaxCodes
            /\ phase' = "connected"
            /\ past' = [past EXCEPT !.off = @ \cup {f \in Flags : ~config'.flag[f]},
                                        !.codes = @ \cup CodesSent(reply)]
    /\ UNCHANGED <<rules, gathered, underway, announced>>

Reconnect ==
    /\ phase = "connected" /\ phase' = "reconnecting"
    /\ UNCHANGED <<config, rules, gathered, underway, announced, past>>

\* Data coming and going.  What is recorded at once, when it comes up, asks the settings; the
\* attributes a list includes ask the filter, with the rules it was compiled with.
TakesData == phase \in {"loaded", "preconnected", "connected", "reconnecting"}
LetsIn(name) ==
    /\ IF name = "attributes_include" THEN rules ELSE Lax(config, name)
    /\ name \in {"attributes_include", "custom_parameters"} => config.flag["attributes.enabled"]

Comes(name) ==
    /\ gathered' = gathered \cup {name}
    /\ past' = [past EXCEPT !.late = IF Lax(config, name) THEN @ ELSE @ \cup {name}]
    /\ UNCHANGED <<config, rules, phase, underway, announced>>

\* A transaction takes data in that comes to the collection when it ends, whatever has become
\* of the settings; so does a batch that is sent and not taken.
Gather(name) == TakesData /\ LetsIn(name) /\ Comes(name)
TakeIn(name) ==
    /\ TakesData /\ LetsIn(name)
    /\ underway' = underway \cup {name} /\ Cardinality(underway') <= MaxUnderway
    /\ UNCHANGED <<config, rules, phase, gathered, announced, past>>
Arrive(name) == TakesData /\ name \in underway /\ Comes(name)
Harvested ==
    /\ phase = "connected" /\ gathered' = {}
    /\ \E back \in SUBSET gathered : underway' = underway \cup back /\ Cardinality(underway') <= MaxUnderway
    /\ past' = [past EXCEPT !.late = {}]
    /\ UNCHANGED <<config, rules, phase, announced>>
NoneUnderway ==
    /\ underway # {} /\ underway' = {}
    /\ UNCHANGED <<config, rules, phase, gathered, announced, past>>

ConfigNext ==
    \/ \E inst \in Installations : Load(inst)
    \/ \E ps \in PolicySets : Preconnect(ps)
    \/ \E i \in DOMAIN Replies : Connect1(Replies[i])
    \/ Reconnect \/ Harvested \/ NoneUnderway
    \/ \E name \in Mapped : Gather(name) \/ TakeIn(name) \/ Arrive(name)

ConfigSpec == ConfigInit /\ [][ConfigNext]_configVars

-----------------------------------------------------------------------------
InForce == phase \notin {"new", "disabled"}

\* "override config with environment variables": each flag is as its strongest source has
\* it, unless one of the modes decides.
StrongestSource ==
    phase = "loaded" => \A inst \in past.from : \A f \in (DOMAIN inst.file \cup DOMAIN inst.env) \ TextVars :
        \/ f \in {"ssl", "distributed_tracing.enabled", "cross_application_tracer.enabled"}
        \/ config.flag["high_security"] /\ f \in DOMAIN HighSecuritySettings \cup {"attributes.exclude"}
        \/ config.flag[f] = IF f \in DOMAIN inst.env THEN inst.env[f] ELSE inst.file[f]

\* "Config keys that can't be set by the server if high_security is enabled": whatever the
\* file, the environment and any number of logins bring.
HighSecurityHolds ==
    InForce /\ config.flag["high_security"] =>
        /\ \A f \in DOMAIN HighSecuritySettings : config.flag[f] = HighSecuritySettings[f]
        /\ config.flag["attributes.exclude"]
        /\ config.recordSql = "obfuscated"

\* "get the most secure setting between local config and the policy", of every login's
\* policies so far: a later, laxer policy and the server's settings loosen nothing.
NeverLoosened ==
    InForce => \A name \in Mapped : Lax(config, name) => name \in past.allowed

\* "finalValue is more secure than original local val, so drop corresponding data": of what a
\* collection held when its setting was tightened nothing is left, but of the attributes a
\* list of a destination includes, for which lasp.js does not look.  What comes later comes as
\* it was taken in, and a filter that is not compiled again goes on taking in (see the findings
\* of the README).
NothingLaxHeld ==
    \A name \in gathered :
        \/ Lax(config, name)
        \/ name \in past.late
        \/ name = "attributes_include" /\ ~config.flag["attributes.include"]

\* What connect is told of the policies is what the agent does.
ToldAsItIs ==
    phase \in {"preconnected", "connected"} /\ config.token =>
        announced = {name \in Mapped : Lax(config, name)}

\* "never enable from server-side", and nobody turns TLS off.
StaysOff ==
    InForce => config.flag["ssl"] /\ ("custom_insights_events.enabled" \in past.off =>
                                         ~config.flag["custom_insights_events.enabled"])

\* "requires account_id be defined": no tracing without a server unless the account is known.
ServerlessTracing ==
    InForce /\ config.flag["serverless_mode.enabled"] =>
        /\ config.flag["distributed_tracing.enabled"] => config.account = "local"
        /\ ~config.flag["cross_application_tracer.enabled"]

\* "Will merge local and remote if and only if both are arrays": the codes that are ignored
\* are those of the installation and all the server has sent since.
CodesAreMerged == InForce => Listed(config.codes) = past.codes

\* The configuration is what its sources make of it, and no login loosens it.
ConfigurationCorrect ==
    /\ ConfigTypeOK /\ StrongestSource /\ HighSecurityHolds /\ NeverLoosened /\ NothingLaxHeld
    /\ ToldAsItIs /\ StaysOff /\ ServerlessTracing /\ CodesAreMerged
=============================================================================
