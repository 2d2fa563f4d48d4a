------------------------------- MODULE HostFacts -------------------------------
(***************************************************************************)
(* What the agent finds out about its host before it connects: facts of    *)
(* lib/collector/facts.js, lib/system-info.js, lib/utilization/*.js.       *)
(*                                                                         *)
(* Nothing connects before every part has called back: facts waits for the *)
(* system's information and the environment's, the first for five tasks    *)
(* by counting, one of those for the vendors by counting again.  A part    *)
(* that calls twice, or never, gives a report too early, or none.          *)
(*                                                                         *)
(* As Node up to version 14 has it, a response that is aborted ends with   *)
(* what has arrived, and so does one whose connection fails, after the     *)
(* request has had its error: a vendor calls back twice, and is counted    *)
(* twice.                                                                  *)
(***************************************************************************)
EXTENDS Integers, Sequences, FiniteSets

CONSTANTS
    MetadataVendors,    \* vendors whose metadata service is asked: aws, azure, gcp
    EnvironmentVendors, \* those known by environment variables: pcf, kubernetes
    Hosts,              \* hosts: [platform, detects : vendors the configuration looks for]
    MaxGathers          \* bound: times facts are gathered

ASSUME HostAssumption ==
    /\ IsFiniteSet(MetadataVendors \cup EnvironmentVendors) /\ MetadataVendors \cup EnvironmentVendors # {}
    /\ \A p \in {"docker", "processors", "memory", "kernel", "vendors", "boot", "environment"} :
           p \notin MetadataVendors \cup EnvironmentVendors
    /\ MaxGathers \in Nat

Vendors == MetadataVendors \cup EnvironmentVendors \cup {"docker"}
ProcParts == {"processors", "memory", "kernel"}
Tasks == ProcParts \cup {"vendors", "boot"}
Parts == Vendors \cup ProcParts \cup {"boot", "environment"}

\* The names tried one after the other, each with so many spellings.
SysctlNames(platform, part) ==
    IF platform = "darwin" /\ part = "processors" THEN <<1, 2, 3>> ELSE <<1>>

VARIABLES
    host,       \* where this is
    vendorCache, \* vendors whose information is kept
    gather,     \* the gathering under way, or the last one; again, for the properties, counts
                \* the answers of vendors that had answered
    gathers,    \* how many have been started
    hostDown    \* whether a callback threw, which ends the application

hostVars == <<host, vendorCache, gather, gathers, hostDown>>

Answers == {"absent", "found"}  \* only of vendors does it matter which
NotAsked == [parts |-> [p \in Parts |-> "idle"], known |-> {}, stopped |-> FALSE,
             vendorsTold |-> 0, again |-> 0, tasksTold |-> 0, systemInfo |-> FALSE, told |-> 0,
             requests |-> [v \in MetadataVendors |-> "none"],
             sysctl |-> [p \in ProcParts |-> [step |-> 1, responses |-> 0, returned |-> FALSE]]]

HostTypeOK ==
    /\ host \in Hosts
    /\ vendorCache \subseteq Vendors /\ gathers \in 0..MaxGathers /\ hostDown \in BOOLEAN
    /\ \A p \in Parts : gather.parts[p] \in Answers \cup {"idle", "waiting"}
    /\ {gather.vendorsTold, gather.again} \subseteq Nat /\ gather.tasksTold \in 0..Cardinality(Tasks)

HostInit ==
    /\ host \in Hosts
    /\ vendorCache = {} /\ gather = NotAsked /\ gathers = 0 /\ hostDown = FALSE

-----------------------------------------------------------------------------
\* factMapCb, once the system's information and the environment's are there.
TellFacts(g) ==
    IF g.systemInfo /\ g.parts["environment"] \in Answers THEN [g EXCEPT !.told = @ + 1] ELSE g

\* finishedResponse: the fifth answer is the last.
FinishTask(g) ==
    LET finished == [g EXCEPT !.tasksTold = @ + 1]
    IN IF finished.tasksTold = Cardinality(Tasks)
       THEN TellFacts([finished EXCEPT !.systemInfo = TRUE]) ELSE finished

TellTask(g, part) == FinishTask([g EXCEPT !.parts[part] = "found"])

\* getInfo: the vendors are a task of their own.  It counts calls, and a result is not taken back.
TellVendor(g, vendor, answer) ==
    LET told == [g EXCEPT !.parts[vendor] = IF @ = "found" THEN @ ELSE answer,
                          !.vendorsTold = @ + 1,
                          !.again = IF g.parts[vendor] = "waiting" THEN @ ELSE @ + 1]
    IN IF told.vendorsTold = Cardinality(Vendors) THEN FinishTask(told) ELSE told

\* Parts that call back before fetchSystemInfo returns: docker, unless its file is read, and the
\* /proc parts of a platform that has neither /proc nor sysctl.
AtOnce(part) ==
    \/ part = "docker"
       /\ (part \notin host.detects \/ part \in vendorCache \/ host.platform # "linux")
    \/ part \in ProcParts /\ host.platform = "other"

Asked(part) == part \in (MetadataVendors \cap host.detects) \ vendorCache

\* facts, with fetchSystemInfo, getVendors and each vendor's function up to its first callback.
GatherFacts ==
    /\ ~hostDown /\ gathers < MaxGathers /\ (gathers > 0 => gather.told > 0)
    /\ gathers' = gathers + 1
    /\ gather' = [NotAsked EXCEPT
            !.parts = [p \in Parts |-> CASE ~AtOnce(p) -> "waiting"
                                         [] AtOnce(p) /\ p \in vendorCache \cap host.detects -> "found"
                                         [] OTHER -> "absent"],
            !.known = vendorCache,
            !.vendorsTold = Cardinality({v \in Vendors : AtOnce(v)}),
            !.tasksTold = Cardinality({p \in ProcParts : AtOnce(p)}),
            !.requests = [v \in MetadataVendors |-> IF Asked(v) THEN "sent" ELSE "none"]]
    /\ UNCHANGED <<host, vendorCache, hostDown>>

Waits(part) == ~hostDown /\ gather.parts[part] = "waiting"

\* readProc of a task's file; a file that cannot be read has no data, and the parsers of the
\* processors' and the memory's do not expect that.
ReadProc(part, readable) ==
    /\ Waits(part) /\ host.platform = "linux" /\ part \in ProcParts \cup {"boot"}
    /\ IF ~readable /\ part \in {"processors", "memory"}
       THEN hostDown' = TRUE /\ UNCHANGED gather
       ELSE hostDown' = FALSE /\ gather' = TellTask(gather, part)
    /\ UNCHANGED <<host, vendorCache, gathers>>

\* getBootId elsewhere, by setImmediate.
NoBootId ==
    /\ Waits("boot") /\ host.platform # "linux"
    /\ gather' = TellTask(gather, "boot")
    /\ UNCHANGED <<host, vendorCache, gathers, hostDown>>

\* fetchDockerVendorInfo: the container's id, if the file has one.
ReadGroups(answer) ==
    /\ Waits("docker")
    /\ gather' = TellVendor(gather, "docker", answer)
    /\ vendorCache' = IF answer = "found" THEN vendorCache \cup {"docker"} ELSE vendorCache
    /\ UNCHANGED <<host, gathers, hostDown>>

\* sysctl commands that have not responded.
SysctlOpen(part) ==
    /\ ~hostDown /\ host.platform \in {"darwin", "bsd"} /\ gather.told = 0 /\ gathers > 0
    /\ gather.sysctl[part].responses < SysctlNames(host.platform, part)[gather.sysctl[part].step]

\* Slip: a spelling that responds after another has answered calls back again.
SysctlAgain(part, outcome) ==
    LET names == SysctlNames(host.platform, part)
        s == gather.sysctl[part]
        responded == [s EXCEPT !.responses = @ + 1]
        answers == outcome # "complaint" \/ responded.responses = names[s.step]
    IN /\ SysctlOpen(part)
       /\ gather' =
            CASE ~answers -> [gather EXCEPT !.sysctl[part] = responded]
              [] answers /\ s.step < Len(names) ->
                    [gather EXCEPT !.sysctl[part] = [step |-> s.step + 1, responses |-> 0, returned |-> FALSE]]
              [] OTHER -> TellTask([gather EXCEPT !.sysctl[part] = responded], part)
       /\ UNCHANGED <<host, vendorCache, gathers, hostDown>>

\* respond of getSysctlValue, for one of the spellings: the first that fails or says something is
\* the answer, and it takes all of them to have nothing to say.  An answer goes on to the next
\* names, the last of which is the task's; what the others respond after that is not heard.  An
\* "answer" is output or a failure.
Sysctl(part, outcome) ==
    LET names == SysctlNames(host.platform, part)
        s == gather.sysctl[part]
        responded == [s EXCEPT !.responses = @ + 1]
        answers == ~s.returned /\ (outcome # "complaint" \/ responded.responses = names[s.step])
    IN /\ SysctlOpen(part)
       /\ gather' =
            CASE ~answers -> [gather EXCEPT !.sysctl[part] = responded]
              [] answers /\ s.step < Len(names) ->
                    [gather EXCEPT !.sysctl[part] = [step |-> s.step + 1, responses |-> 0, returned |-> FALSE]]
              [] OTHER -> TellTask([gather EXCEPT !.sysctl[part] = [responded EXCEPT !.returned = TRUE]], part)
       /\ UNCHANGED <<host, vendorCache, gathers, hostDown>>

\* setImmediate of a vendor that is not looked for, is known, or is told by the environment's
\* variables; Kubernetes and the like keep no more than they can read again.
AnswerLater(vendor, answer) ==
    /\ Waits(vendor) /\ vendor # "docker" /\ ~(vendor \in MetadataVendors /\ gather.requests[vendor] # "none")
    /\ IF vendor \notin host.detects THEN answer = "absent"
       ELSE vendor \in MetadataVendors => answer = "found"
    /\ gather' = TellVendor(gather, vendor, answer)
    /\ UNCHANGED <<host, vendorCache, gathers, hostDown>>

\* The service's response begins.
ResponseBegins(vendor) ==
    /\ ~hostDown /\ gather.requests[vendor] = "sent"
    /\ gather' = [gather EXCEPT !.requests[vendor] = "streaming"]
    /\ UNCHANGED <<host, vendorCache, gathers, hostDown>>

\* getMetadata of the vendor: metadata that lacks a key, or has one that will not do, is not kept.
KeptMetadata(vendor, quality) == IF quality = "valid" THEN vendorCache \cup {vendor} ELSE vendorCache

\* respond of common.request; a bad status and an empty body are no better than metadata that
\* cannot be used, which a body that was cut is unless it had all arrived.  A connection that
\* has not failed is still to close.
ResponseEnds(vendor, quality) ==
    /\ ~hostDown /\ gather.requests[vendor] \in {"streaming", "cut", "failed"}
    /\ gather' = TellVendor([gather EXCEPT !.requests[vendor] = IF @ = "streaming" THEN "closing" ELSE "none"], vendor,
                            IF quality = "valid" THEN "found" ELSE "absent")
    /\ vendorCache' = KeptMetadata(vendor, quality)
    /\ UNCHANGED <<host, gathers, hostDown>>

\* requestError: no connection, an abort before the response, or a connection that fails or does
\* not speak HTTP while the response comes in, which the response's end follows, or closes.
RequestFails(vendor) ==
    /\ ~hostDown /\ gather.requests[vendor] \in {"sent", "aborted", "streaming", "closing"}
    /\ gather' = TellVendor([gather EXCEPT !.requests[vendor] = IF @ = "streaming" THEN "failed" ELSE "none"],
                            vendor, "absent")
    /\ UNCHANGED <<host, vendorCache, gathers, hostDown>>

Aborted(request) == CASE request = "sent" -> "aborted" [] request = "streaming" -> "cut" [] OTHER -> request

\* requestTimeout, after a second.
RequestTimesOut(vendor) ==
    /\ ~hostDown /\ gather.requests[vendor] \in {"sent", "streaming"}
    /\ gather' = [gather EXCEPT !.requests[vendor] = Aborted(@)]
    /\ UNCHANGED <<host, vendorCache, gathers, hostDown>>

\* abortRequest, when the agent has stopped, failed or been disconnected.
AgentLeaves ==
    /\ ~hostDown /\ gathers > 0 /\ ~gather.stopped
    /\ gather' = [gather EXCEPT !.stopped = TRUE,
                                !.requests = [v \in MetadataVendors |-> Aborted(@[v])]]
    /\ UNCHANGED <<host, vendorCache, gathers, hostDown>>

\* getJSON of the environment has called back (Environment).
EnvironmentKnown ==
    /\ Waits("environment")
    /\ gather' = TellFacts([gather EXCEPT !.parts["environment"] = "found"])
    /\ UNCHANGED <<host, vendorCache, gathers, hostDown>>

HostNext ==
    \/ GatherFacts \/ NoBootId \/ AgentLeaves \/ EnvironmentKnown
    \/ \E part \in ProcParts \cup {"boot"}, readable \in BOOLEAN : ReadProc(part, readable)
    \/ \E part \in ProcParts, outcome \in {"answer", "complaint"} : Sysctl(part, outcome)
    \/ \E answer \in Answers : ReadGroups(answer) \/ \E v \in Vendors : AnswerLater(v, answer)
    \/ \E v \in MetadataVendors :
           \/ ResponseBegins(v) \/ RequestFails(v) \/ RequestTimesOut(v)
           \/ \E quality \in {"valid", "unusable"} : ResponseEnds(v, quality)

HostSpec == HostInit /\ [][HostNext]_hostVars

-----------------------------------------------------------------------------
\* The facts are told at most once, and not before every part has answered, but for as many
\* vendors as there were second calls of others: a vendor whose connection fails while it
\* responds is taken for two (see the findings of the README).  The tasks' counter never takes
\* one's two calls for those of two.
FactsAreWhole ==
    /\ gather.told <= 1
    /\ gather.told = 1 => /\ \A p \in Parts \ Vendors : gather.parts[p] \in Answers
                          /\ Cardinality({v \in Vendors : gather.parts[v] = "waiting"}) <= gather.again

\* And they are told: once no part has an answer outstanding the agent goes on to connect, what-
\* ever failed, timed out or was aborted, unless a part took the application down.
FactsAreTold ==
    gathers > 0 /\ ~hostDown /\ (\A p \in Parts : gather.parts[p] # "waiting") => gather.told = 1

\* A part that waits has something under way that will answer it, so none waits for ever.
EachWaitEnds ==
    /\ \A v \in MetadataVendors : Waits(v) /\ Asked(v) => gather.requests[v] # "none"
    /\ host.platform \in {"darwin", "bsd"} => \A p \in ProcParts : Waits(p) => SysctlOpen(p)

\* No request stays open once the agent has gone: each is aborted when it stops, fails or is
\* disconnected, also one whose response has begun.
NothingLingers == gather.stopped => \A v \in MetadataVendors : gather.requests[v] \notin {"sent", "streaming"}

\* What has been found out about a vendor is told at every later connect, whatever its service
\* says then, unless the facts do not wait for it.
KnownIsTold ==
    gather.told = 1 => \A v \in gather.known \cap host.detects : gather.parts[v] \in {"found", "waiting"}

\* What the agent tells of its host is whole, told once, and told whatever fails.
HostFactsCorrect ==
    HostTypeOK /\ FactsAreWhole /\ FactsAreTold /\ EachWaitEnds /\ NothingLingers /\ KnownIsTold
================================================================================
