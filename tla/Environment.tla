------------------------------ MODULE Environment ------------------------------
(***************************************************************************)
(* What the agent tells of its environment: lib/environment.js, the        *)
(* settings that are kept for the process and the packages that are        *)
(* looked for on disk each time they are asked for.                        *)
(*                                                                         *)
(* The settings are the module's, so two refreshes (two restarts of the    *)
(* agent that overlap) write into the same ones, while each walks the      *)
(* directories at its own pace and the instrumentations set the framework  *)
(* and the dispatcher.  A walk goes where node_modules lead, links         *)
(* included, and remembers where it has been.                              *)
(***************************************************************************)
EXTENDS Integers, Sequences, FiniteSets

CONSTANTS
    Refreshes,      \* calls of getJSON
    Places,         \* where packages are looked for: the working directory, NODE_PATH, the home
    Roots(_),       \* a place's directories of packages, in order
    Dropped,        \* places whose packages nobody takes up: the home's, which come in an array
    Directories,    \* directories of packages
    Entries(_),     \* directories of packages of a directory's packages, by their real paths
    Readable(_),    \* whether a directory can be read
    Frameworks,     \* what instrumentations set
    DispatcherCalls \* calls of setDispatcher: [name, version, user : whether the application's]

ASSUME EnvironmentAssumption ==
    /\ IsFiniteSet(Directories)
    /\ \A p \in Places : Roots(p) \in Seq(Directories)
    /\ \A d \in Directories : Entries(d) \subseteq Directories

Settings == {"Framework", "Dispatcher", "Dispatcher Version", "Packages"}

VARIABLES
    envSettings,        \* settings: a sequence of values for each name
    userSetDispatcher,  \* whether the application has set the dispatcher, and which
    refreshes,          \* of each call: [state, overlaps, walks : of each place]
    envAnswers             \* of each call, the answer: the settings as they were, or <<>>

envVars == <<envSettings, userSetDispatcher, refreshes, envAnswers>>

NoWalk == [root |-> 1, visited |-> {}, open |-> {}, listed |-> <<>>]
Empty == [s \in Settings |-> <<>>]

EnvTypeOK ==
    /\ DOMAIN envSettings = Settings
    /\ userSetDispatcher \in {c.name : c \in DispatcherCalls} \cup {"none"}
    /\ \A r \in Refreshes : refreshes[r].state \in {"none", "walking", "answered"}
    /\ \A r \in Refreshes : envAnswers[r] = <<>> <=> refreshes[r].state # "answered"

EnvInit ==
    /\ envSettings = Empty /\ userSetDispatcher = "none"
    /\ refreshes = [r \in Refreshes |-> [state |-> "none", overlaps |-> FALSE,
                                         walks |-> [p \in Places |-> NoWalk]]]
    /\ envAnswers = [r \in Refreshes |-> <<>>]

-----------------------------------------------------------------------------
Has(seq, value) == \E i \in DOMAIN seq : seq[i] = value

\* addSetting: a value is there once; a list of packages is a value of its own, never the same.
AddedSetting(settings, name, value) ==
    IF Has(settings[name], value) THEN settings ELSE [settings EXCEPT ![name] = Append(@, value)]

\* setFramework, by an instrumentation.
SetFramework(framework) ==
    /\ envSettings' = AddedSetting(envSettings, "Framework", framework)
    /\ ~Has(envSettings["Framework"], framework)
    /\ UNCHANGED <<userSetDispatcher, refreshes, envAnswers>>

\* setDispatcher, by an instrumentation or the application's call: the application's is final, and
\* the last one before that replaces the others.
SetDispatcher(call) ==
    /\ IF userSetDispatcher # "none" THEN UNCHANGED <<envSettings, userSetDispatcher>>
       ELSE /\ userSetDispatcher' = IF call.user THEN call.name ELSE "none"
            /\ envSettings' = [envSettings EXCEPT !["Dispatcher"] = <<call.name>>,
                                                  !["Dispatcher Version"] = call.version]
    /\ UNCHANGED <<refreshes, envAnswers>>

\* refreshSyncOnly: all but three names start anew, and for want of the right name the dispatchers
\* become their own versions.
Refreshed(settings) ==
    [Empty EXCEPT !["Framework"] = settings["Framework"], !["Dispatcher"] = settings["Dispatcher"],
                  !["Dispatcher Version"] = IF settings["Dispatcher Version"] = <<>> THEN <<>>
                                            ELSE settings["Dispatcher"]]

\* refresh: what it would take for packages found before is gone by the time it looks.
Refresh(r) ==
    /\ refreshes[r].state = "none"
    /\ envSettings' = Refreshed(envSettings)
    /\ LET walking == {q \in Refreshes : refreshes[q].state = "walking"}
       IN refreshes' = [q \in Refreshes |->
              CASE q = r -> [refreshes[q] EXCEPT !.state = "walking", !.overlaps = walking # {}]
                [] q # r /\ q \in walking -> [refreshes[q] EXCEPT !.overlaps = TRUE]
                [] OTHER -> refreshes[q]]
    /\ UNCHANGED <<userSetDispatcher, envAnswers>>

\* listPackages and the first steps of listDependencies: the packages of a directory that can be
\* read, and the entries that may lead on.
Visit(walk, dir) ==
    IF Readable(dir)
    THEN [walk EXCEPT !.listed = Append(@, dir), !.open = @ \cup {<<dir, e>> : e \in Entries(dir)}]
    ELSE walk

\* getLocalPackages and getPackages: the next of the place's roots, once the one before is done.
BeginRoot(r, p) ==
    LET walk == refreshes[r].walks[p]
    IN /\ refreshes[r].state = "walking" /\ walk.open = {} /\ walk.root <= Len(Roots(p))
       /\ refreshes' = [refreshes EXCEPT ![r].walks[p] =
              Visit([walk EXCEPT !.root = @ + 1], Roots(p)[walk.root])]
       /\ UNCHANGED <<envSettings, userSetDispatcher, envAnswers>>

\* Slip: forEachEntry does not remember where it has been.
FollowEntryAgain(r, p, entry) ==
    LET walk == refreshes[r].walks[p]
        left == [walk EXCEPT !.open = @ \ {entry}]
    IN /\ refreshes[r].state = "walking" /\ entry \in walk.open
       /\ refreshes' = [refreshes EXCEPT ![r].walks[p] =
              IF entry[2] \in walk.visited THEN left ELSE Visit(left, entry[2])]
       /\ UNCHANGED <<envSettings, userSetDispatcher, envAnswers>>

\* forEachEntry: a real path that has been visited is not visited again.
FollowEntry(r, p, entry) ==
    LET walk == refreshes[r].walks[p]
        left == [walk EXCEPT !.open = @ \ {entry}]
    IN /\ refreshes[r].state = "walking" /\ entry \in walk.open
       /\ refreshes' = [refreshes EXCEPT ![r].walks[p] =
              IF entry[2] \in walk.visited THEN left
              ELSE Visit([left EXCEPT !.visited = @ \cup {entry[2]}], entry[2])]
       /\ UNCHANGED <<envSettings, userSetDispatcher, envAnswers>>

Walked(r, p) == refreshes[r].walks[p].open = {} /\ refreshes[r].walks[p].root > Len(Roots(p))

\* onPackageComplete, and getJSON's callback: the packages of this refresh are added to what the
\* settings are by now, and those are the answer.
AnswerRefresh(r) ==
    LET found == UNION {{refreshes[r].walks[p].listed[i] : i \in DOMAIN refreshes[r].walks[p].listed} :
                            p \in Places \ Dropped}
        settings == AddedSetting(envSettings, "Packages", [by |-> r, dirs |-> found])
    IN /\ refreshes[r].state = "walking" /\ \A p \in Places : Walked(r, p)
       /\ envSettings' = settings
       /\ envAnswers' = [envAnswers EXCEPT ![r] = <<settings>>]
       /\ refreshes' = [refreshes EXCEPT ![r].state = "answered"]
       /\ UNCHANGED userSetDispatcher

EnvNext ==
    \/ \E f \in Frameworks : SetFramework(f)
    \/ \E call \in DispatcherCalls : SetDispatcher(call)
    \/ \E r \in Refreshes :
           \/ Refresh(r) \/ AnswerRefresh(r)
           \/ \E p \in Places :
                  \/ BeginRoot(r, p)
                  \/ \E entry \in Directories \X Directories : FollowEntry(r, p, entry)

-----------------------------------------------------------------------------
\* The dispatcher the application has set stays the only one, whatever instrumentations set later
\* and however many refreshes rebuild the settings.
UsersDispatcherStays ==
    userSetDispatcher # "none" => envSettings["Dispatcher"] = <<userSetDispatcher>>

\* A walk ends although links lead back: it visits no directory twice but a root, once as such.
EachVisitedOnce ==
    \A r \in Refreshes, p \in Places :
        LET walk == refreshes[r].walks[p]
            times(d) == Cardinality({i \in DOMAIN walk.listed : walk.listed[i] = d})
            asRoot(d) == Cardinality({i \in 1..(walk.root - 1) : Roots(p)[i] = d})
        IN \A d \in Directories : times(d) <= asRoot(d) + 1

\* What can be reached from the places' roots through directories that can be read.
RootsTaken == UNION {{Roots(p)[i] : i \in DOMAIN Roots(p)} : p \in Places \ Dropped}
Closed(dirs) == RootsTaken \subseteq dirs /\ \A d \in dirs : Readable(d) => Entries(d) \subseteq dirs
Reachable == {d \in Directories : \A dirs \in SUBSET Directories : Closed(dirs) => d \in dirs}

\* An answer has every directory that can be reached and read, in the list of the refresh it
\* answers.
AnswersAreWhole ==
    \A r \in Refreshes : envAnswers[r] # <<>> =>
        \E i \in DOMAIN envAnswers[r][1]["Packages"] :
            LET list == envAnswers[r][1]["Packages"][i]
            IN list.by = r /\ list.dirs = {d \in Reachable : Readable(d)}

\* The packages are listed once in an answer, unless refreshes have overlapped.
PackagesListedOnce ==
    \A r \in Refreshes : envAnswers[r] # <<>> /\ ~refreshes[r].overlaps => Len(envAnswers[r][1]["Packages"]) = 1

\* Walks end with all there is to list, once, and what has been answered stays right.
EnvironmentCorrect ==
    /\ EnvTypeOK /\ UsersDispatcherStays /\ EachVisitedOnce
    /\ AnswersAreWhole /\ PackagesListedOnce

EnvSpec == EnvInit /\ [][EnvNext]_envVars
================================================================================
