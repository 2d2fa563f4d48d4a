# Verification of the user-management application and its agent

TLA+ models, model-checking runs and machine-checked proofs for what the repository
holds: the React/Redux user registration and login application in `src/src`, and
the New Relic agent for Node.js in `src/node-newrelic-main`, which `src/newrelic.js`
configures. No file of the application requires the agent; the two are verified side
by side. The reference is the code as it is. Every definition is tied to source lines
in `PROJECT.json` under `map`, and the hazards the properties are aimed at are
listed there at their lines. Below, `lib/` stands for `src/node-newrelic-main/lib/`.

1. [The application](#the-application)
2. [The agent](#the-agent)
3. [Modules](#modules)
4. [Runs, bounds and fairness](#runs-bounds-and-fairness)
5. [What the violation runs show](#what-the-violation-runs-show)
6. [Proofs](#proofs)
7. [Findings without a run](#findings-without-a-run)
8. [Not modelled](#not-modelled)
9. [Plan](#plan)

## The application

It has no server. `_helpers/fake-backend.js` replaces `window.fetch` in every browser
tab by a simulated account service that keeps its accounts in localStorage, which all
tabs of the browser share.

| Component | State | Operations | Talks to |
|---|---|---|---|
| Fake backend | `users`: an array per tab, read once from localStorage; localStorage `users` | authenticate, list, get by id, register, delete, pass-through | answers a request 500 ms after it was made |
| User service, auth header | localStorage `user` (the session) | login, logout, register, getAll, getById, update, delete; `handleResponse` | `window.fetch`, localStorage |
| Actions | none | thunks: dispatch a request, call the service, dispatch the outcome, navigate | service, store, history |
| Reducers and store | `authentication`, `registration`, `users`, `alert`, per tab | one case per action type | pages, through react-redux |
| Routing (`App`, `PrivateRoute`, `history`) | session history of the tab, current location | push, redirect, back and forward, clear the alert on a move | pages, localStorage |
| Pages | what is mounted; the forms' text | mount, click a link, submit, delete a row | actions |
| Page load | none of its own | open, reload | all of the above |

What makes it hard:

- **Two sources of truth for a session.** PrivateRoute and the Authorization
  header read localStorage at the moment they need it. HomePage and the reducers
  keep what they were told. A step that changes one and not the other shows
  later, on another page.
- **Answers come late.** Half a second is long enough to leave a page, log out,
  submit again or reload, and callbacks are applied in whatever state they find.
- **Tabs interleave** over one localStorage, with copies of different age.
- **Writes may throw** (a full quota), between a change in memory and its answer.
- **Order inside one callback matters**: dispatch, navigate, dispatch again, with
  a render after each, because React does not batch outside its event handlers.

### Its state and steps

`users`, `storedUsers` are the tab's array and localStorage's `users`;
`storedUser` is localStorage's `user`; `store`, `timers`, `hist`, `at` and `page`
are, per tab, the Redux state, the requests whose 500 ms timer has not fired, the
session history, its current entry, and what is rendered.

A step of `UserApp` is one JavaScript task with the promise callbacks and
synchronous renders it leads to. That is the grain at which the code can be
interrupted: in a tab nothing runs between a task and its microtasks. Timers of
equal delay fire in the order they were set, so a tab answers first in, first
out; tabs interleave freely. `Open` starts a document with a history of its own,
`Reload` evaluates the modules again in place.

- `SubmitLogin`, `SubmitRegister`, `ClickDelete`, `ClickLink`, `Traverse` are the
  user's steps, `AnswerLogin`, `AnswerRegister`, `AnswerGetAll`, `AnswerDelete` the
  requests' timers: backend handler, `handleResponse`, the thunk's callback, its
  dispatches and its navigation in one step, in the code's order.
- `Rendered` is what React Router makes of a location: PrivateRoute's decision
  from localStorage, the redirect (which replaces the entry and clears the alert
  again), mounting LoginPage (its constructor logs out) or HomePage (it requests the
  list). A HomePage whose `user` is undefined throws in `render`, and with no error
  boundary React unmounts the tree: the page is `"blank"`. The App's history
  listener stays subscribed, so a blank tab still clears alerts and navigates.
- A changed alert re-renders App and with it PrivateRoute. A HomePage whose
  session another tab removed is then redirected (`Evicted`, `Rerender`). On back
  and forward the listener dispatches before the Router hears of the move, so an
  evicted HomePage redirects first, and its redirect replaces the entry the user
  moved to: the one case in which a page is shown at another page's address
  (`Traverse`).
- `UsersThrows`: the delete cases of the users reducer need `state.items`. Outside the
  loaded list they throw, the dispatch is lost and the store stays as it was.
- When `setItem` throws in the backend's timer, memory has changed and the promise
  is never settled: no answer. When it throws in `userService.login`, the login
  fails.

First and last names, messages, the token's text (a constant) and React's virtual
DOM are left out. The array is a set: no property depends on its order, and
`UniqueAccounts` makes "the first match" the only one. A browser starts without
stored accounts or session. Typing an address into an open tab is `Open`: what it
leaves behind in the history is dropped.

## The agent

The agent instruments an application from inside: it replaces functions of the modules
the application loads, keeps track of the transaction each piece of code runs in,
gathers names, times, errors and events, and sends them to a collector in harvests.
It is one JavaScript thread, and hard for these reasons:

- **Everything is a callback.** Requests to the collector, timers of harvests and of
  retries, and restarts overlap; what a callback finds has changed since it was set up.
- **The collector steers it.** Each batch may be answered with success, a retry, a
  restart or a disconnect. A restart changes run, host and headers under calls in
  flight; a connect changes configuration, naming rules, limits and sampling targets.
- **Data comes back.** What could not be sent is merged into whatever the next period
  has collected by then, under limits that may have changed.
- **Context is implicit.** One variable says which segment runs; every instrumented
  callback, promise and framework middleware has to set it and put it back.
- **It is a guest.** The application ends, names and ignores transactions when it
  likes, wraps the same methods, throws in handlers, calls `next()` twice.

| Part | State | Operations | Module |
|---|---|---|---|
| lifecycle and collector conversation (`agent.js`, `collector/api.js`) | agent state, run, listeners, calls under way | start, stop, shutdown, restart, forced harvest, every answer | `Agent` over `Collector` |
| one call of the collector (`remote-method.js`) | host, run, headers, exchanges | serialize, compress, post, errors, responses | `RemoteMethod` |
| events, metrics, slow traces, slow queries, errors | queues and collections, payloads under way | add, send, merge back, reconfigure | `EventHarvest`, `Metrics`, `SlowTraces`, `SlowQueries`, `ErrorCollector` |
| adaptive sampler | counts and threshold of a window | sample, next window, new target | `AdaptiveSampler` |
| transactions | phase, names, flags, the call stack | every way to start, name, ignore and end one | `TransactionLife` |
| traces | segments and timers | start, end, truncate, exclusive times | `SegmentTrace` |
| naming | rules, segment terms; stack of mount points | load, apply; middlewares of a request | `Normalizer`, `WebRequest` |
| distributed tracing, cross application tracing, messages | headers, decisions, links | create, accept; request, respond; produce, consume | `DistributedTrace`, `CrossApplication`, `Messages` |
| context | the current segment, bound functions, hooks, promise chains | bind, call, settle | `AsyncContext`, `PromiseContext`, `RecordedCalls` |
| instrumentation | wrapped methods, loaded modules | wrap, unwrap; require, patch | `Wrapping`, `ModuleLoading` |
| configuration | settings, policies | construct, preconnect, connect | `Configuration` |
| attributes | rules, cache; custom attributes | filter; add, drop | `AttributeFilter`, `Attributes` |
| spans, serverless mode | the stream; invocations | stream, reconnect; end an invocation | `SpanStreaming`, `Serverless` |
| host, environment, log | reports under way; buffers | gather; refresh; write | `HostFacts`, `Environment`, `Logging` |

## Modules

### Application

| Module | What it models |
|---|---|
| `Accounts` | accounts, sessions and the operations of the request handler on its array |
| `AccountRegistry` | the abstract account service: one account enters, one account leaves |
| `FakeBackend` | the array of every tab and the stored list; load, register, delete, failing writes; refines `AccountRegistry` for one tab |
| `Reducers` | the four reducers, their combination and the initial store |
| `UserService` | the requests and their Authorization header |
| `UserApp` | tabs, pages, routing, history, thunks and answers: composes all of the above |
| `UserAppProps` | the properties of the application |
| `MCUserApp` | bounds and symmetry for TLC |

### Agent

`Collector` has no variables: each of its operators takes the agent, a record, and
returns the agent after a call, so that a handler which calls others in the same
JavaScript task is a composition of operators. `Agent` makes steps of them: a call by
the application, a timer, or an answer with everything it calls synchronously.

The other modules each model a component that shares no state with the others in the
model. Their header comments say what a step is and what is abstracted; the
properties stand at their ends. What one hands to another is an input there: the
sampler's roll, the rules a connect brings, the headers another service has sent.

`MCComponents` and `MCInstruments` check them together: the second those that follow the
application's code, the first the rest and the fake backend by itself. Their variable `component` names the one that is
explored, the initial state of every other is pinned and stays, so the states to
explore add up instead of multiplying, and no invariant of one depends on another.
A property that holds of one component is stated in its own module (`EventsCorrect`,
`LivesCorrect`, ...), and most are proved there. `SurroundingsCorrect` gathers those of wrapping,
promises, naming rules, trace segments, filter and attributes, each under the name of its
component, so that it is only evaluated while that one is explored.

### Slips

Some definitions stand beside a slip of the same shape (`NextIdUnguarded`,
`IsBetterAnyName`, `AwaitsRequests`, ...): the change a plausible bug would make. They
are not part of any specification. With the slip in the place of the definition the
property it is listed with under `mutants` is violated, so the property is able to fail.

## Runs, bounds and fairness

| Run | Configuration | Question |
|---|---|---|
| `one_tab` | 1 tab, 2 names, second submits allowed, 2 requests in flight before new ones, 3 history entries, ids to 3 | do session, spinners, list and storage agree, and is the stored list an account service? |
| `patient_user` | as above, one login at a time, ids to 2, fair timers | is no page ever blank, is a stored session a logged-in one, do spinners stop? |
| `two_tabs` | 2 symmetric tabs, 1 name, 2 history entries, ids to 2 | does an alert stay behind on the page it belongs to, whatever the other tab does? |
| `full_storage` | 1 tab, 2 names, writes may throw | which promises survive a full localStorage? |
| `agent` | 2 aggregators, 2 runs, high security, forced harvest at the start, fair answers | is every payload stamped with the run in force, is the agent never stranded, do logins lead to runs? |
| `components` | one component at a time, see below; the backend with 2 tabs, 3 names, ids to 3, writes that may throw | does what the agent collects, decides and sends keep its promises, and are ids and names of accounts unique everywhere? |
| `instruments` | one component at a time, see below | is a transaction followed, named and measured as promised, and what is wrapped unwrapped? |
| `lost_account`, `blank_home`, `other_tab_logout`, `late_login`, `agent_stopped` | | violations, see the next section |

All passing runs explore their whole state space; a violation ends at its first
counterexample.

**Bounds of the application.** `MaxTimers` stops the user from starting something new
while that many requests are in flight. Mounting HomePage still adds its own, so with 2
there can be a login, a registration and a list request together, and every pair of
kinds of request meets in a queue. `MaxHist` is the browser's own limit (50) made small:
the oldest entry is dropped. With 3 entries the pages can be walked back and forth
across a login and a logout. `MaxId` caps registrations; with 3 ids and 2 names a
largest id is deleted and given out again. Spinners and lists need the two requests in
flight, as a delete answer meets a list that is loading again only then, which is why they are
checked in `one_tab`. Two tabs are what it takes for a stale copy
and a stale session.

**Bounds of the agent.** `MaxCalls` limits what is under way at once; with 1 or 2 a
restart made by a batch overlaps a shutdown and the forced harvest. In `components` and `instruments` the
bounds are chosen where the interesting thing happens at the smallest number:

- limits of queues and tables are 0 to 2 with one item more than fits, two payloads are
  under way, so that a merge meets newer data and a full queue;
- three services, two of one account and one of another that is connected early or late,
  is the shortest chain that passes through a stranger;
- two transactions and two frames give nesting of equal and of different types
  (`TransactionLife`); one of them is called no API in, to keep the combinations down (`Plain`);
- every kind of middleware is in the request's chain once, a router among them;
- trees of two segments below the root over three ticks have every way two intervals may
  lie to each other: apart, touching, nested, equal and overlapping in part;
- chains of five promises that are linked, of four otherwise, have a branch of a branch, a
  promise in the middle that drops its link and a handler that is passed over; six is the
  bound of promises and of what their handlers return together (`MaxWork`);
- two invocations have one that was given up; two modules load one inside the other, with a
  name that stands for either of them; three frames of calls have a driver that calls another
  driver, which calls back;
- two gatherings of facts, two entries in a logger's buffer and one policy whose data is under
  way are where what is late meets what is new.

**Fairness.** `FairSpec` of the application asks for weak fairness of each tab's
`Answer`: a due timer fires, which is what an open page's event loop does. Nobody has
to click. A reload discards timers, and one every 400 ms would discard them for ever, so
`SpinnersStop` speaks only of behaviours in which tabs are reloaded or reopened
finitely often. The agent's specification asks that what is under way is answered:
sockets answer or fail. `LoginsSucceed` and `StartupEnds` speak of behaviours in
which the collector from some time on accepts everything (`healthy`). The code has no
time-outs of its own for these requests, so without that assumption a request that is
never answered holds up its restart for good. No component of theirs has a
liveness property; what would be one is stated as "somebody is left to do it"
(`NoneForgotten`, `NothingLeftOpen`, `EachWaitEnds`, `ComesBack`, `NeverStranded`).

**Properties only a single tab keeps.** `HomeIsLoggedIn`, `StoredSessionIsLoggedIn`,
`NeverBlank`, `NeverUnauthorised`, `MemoryIsStored`, `ImplementsRegistry` hold for one tab
and fail for two.

## What the violation runs show

1. `lost_account`: two tabs at /register. Each registers; the second overwrites
   the stored list with its own copy, and the first account is gone.
2. `blank_home`: log out in one tab, log in in another, press Back in the
   first. PrivateRoute sees the session, HomePage has no user, the page goes blank.
3. `other_tab_logout`: log out in another tab and delete a row: "Unauthorised" is
   shown, but the promised automatic logout never happens, because the fake backend
   rejects the promise and `handleResponse` never sees a 401.
4. `late_login`: submit, follow Register, Cancel; LoginPage has reset the login
   status, and the answer logs in all the same.
5. `agent_stopped`: a stop, by the application or by a 410, while the forced harvest of
   the start is out. The harvest's end starts the send timers of a stopped agent.

A blank page needs no second tab if the user does not wait (`Impatient`): submit
a good login and a bad one within half a second. The failure's `LOGIN_FAILURE`
resets `authentication` under the HomePage that the success has mounted. That is why
`NeverBlank` is checked with a patient user, and `HomeIsLoggedIn` with an impatient one.


## Proofs

Each theorem holds for every value of the constants: any sets of tabs, names, services,
transactions or priorities, any bounds, writes that fail or not, unless its statement
says otherwise. What is assumed of the constants are the ASSUMEs the modules name
(`NoUserAssumption`: the null session is no session; `BoundsAssumption`,
`MaxQueuedAssumption`, ...: a bound is a number; `LifeAssumption`: what rules and names
are made of), which TLC evaluates in the runs. A theorem's invariant was an invariant of
a TLC run before it was proved.

**`UserAppProofs`.** First the backend. `BackendInv` adds to the types and `UniqueAccounts` that the
ids of every array are bounded. Without it `LargestId` could be anything:
`LargestIdProperties` gets the largest of a bounded set of ids from the well-foundedness of
the naturals, and `NextIdIsFresh` follows. `AccountsAreUnique`, and with the types
`AccountsAreCorrect`, holds for any number of tabs since every write stores a whole array that was distinct, stale or not.
`OneTabIsARegistry`: with one tab and writes that succeed the array equals the stored
list, so every change of the list is one account entering or leaving, and `BackendSpec`
implements `AccountRegistry`.

Then the application. `DispatchType`: every action dispatched keeps the store well formed.
`TypeCorrect` for the whole application, one lemma per action over two for the ways a
step changes a tab (`StayType`, `ShowType`). `AppUsesBackend`: every step is a
`FakeBackend` step or leaves its variables alone, which lifts both backend theorems to the
application. The two are intertwined: `BackendInv` gives `TypeOK` the new account's
id, `TypeOK` gives the backend step the request's name and password.

**`PageProofs`.** `SpinnersAreServed`, `ReadSpinnersAreServed`: `Served` relates one tab's store to
its queue. A dispatch that starts a spinner finds its request in the queue
(`DispatchServed`), an answer stops the spinner of the request that leaves it
(`AnswerServed`). A request queued behind another of its kind may outlive its spinner,
never the other way round. What a failing write leaves unanswered is a registration or a
deletion (`DropServed`), hence two theorems. `ListsAreCurrent`: HomePage shows as
loaded only a list whose answer arrived there, since mounting starts a new request; a
registration leaves HomePage, and a deletion takes the same entries from list and array.
`AlertsStayBehindCorrect`, an action property: a step that moves a tab renders the new page from
a store whose alert the move has cleared, and what is dispatched while it mounts sets
none; only a registration's success, which moves first, sets its alert afterwards.

The properties only a single tab keeps: the invariant (`TabsFit`) relates the page, the
stored session, the authentication slice and the requests under way: a shown HomePage has
the stored session's user or a login's answer to come, and with a user who waits (`Ready`)
no failed login can follow a success.

**`AgentProofs`.** `AgentIsCorrect` joins three theorems that hold for any aggregators, runs and
bounds: `AgentTypeCorrect`, `RunIsStampedCorrect` and `NeverStrandedCorrect`: an agent nobody stopped, which is not connected, has a call under way
that will take it on. Its invariant (`NeverStrandedInv`) says where a startup can be
(`Placed`) and follows each answer through the operators of `Collector`. The configuration:
`ConfigInv` holds in every phase, and rests on what the server's settings keep (`Kept`) and what
policies tighten (`PoliciesTighten`); what a collection still holds of a policy's data (`NothingLaxHeld`)
was held before, or comes late; as the keys of a reply and the codes of a setting are taken one
after another, it needs induction over their number. Host facts (`HostInv`): the counters are the
numbers of what has answered, twice where a vendor was called back twice, and requests and
commands agree with who still waits. The log
(`LogInv`): what a logger keeps is one sequence, pushed and then waiting, whose numbers rise and
miss those that went nowhere.
Module loading (`LoadingInv`): exports are marked iff some run of the hooks that stands has left
them so, and
the wrapper they are due is the one of the runs so far.

Span streaming (`SpanInv`): there is a stream iff the connection is up; what was sent,
followed by what is queued, is in order, each span after its parent, and what is dropped is the
tail of a batch, because the queue stays full until a drain. Once stopped there is neither a timer nor a
stream, unless a timer outlived the stop. Environment (`EnvInv`): a refresh is a search. Every entry
of a listed directory is open or visited; when nothing is open any more, the directories that
are listed or cannot be read are closed under their entries, so that what is reachable is among
them. A directory is listed at most once more than it is a root, and a refresh that walks
alone has found the list empty.

**`InstrumentProofs`.** Custom attributes (`CustomInv`): an entry of the span holds the last
call for its key that counts (`HeldFor`), a key whose call counts is missing only from a full span
(`OnlyFullMisses`), and once there was a search the span stays full, with no entry of low
priority past the one the last search found (`IsSearched`).

Promises (`PromInv`): in a context the algorithm accounts for, at most one promise has
several children, promises with one place are a line in the order they were chained (`InLine`),
a branch starts at the end of the trunk (`TrunkEnds`), and they run in that order. So the
first of a line finds its place empty until it has run (`FirstIsEmpty`), and whoever comes next
sees in its own place, its parent's or the first one the segment its chain has reached
(`NextSees`, from `EndLeaves` of the promise before); every segment of a context is one that a
promise of it started or continued with (`Owned`), which holds in crossed contexts too. Each action is
one of six steps on the records and the tables: a promise at the top of a chain (`AtTop`), a root
or a later promise that gets further (`RootGoes`, `Fills`, `Passes`), a second child
(`Branches`) and one child more (`Appends`).

**`Induction`.** What proofs about recursive functions rest on, stated of sets and functions
since the provers cannot instantiate a theorem about predicates: sets of naturals have a least
element (`LeastElement`, from well-foundedness), what each step keeps holds at last (`StepByStep`),
a step can be repeated (`Repeated`), so that a recursive definition has a solution, and what
holds of a finite set is reached by taking up its elements one by one (`ElementByElement`), which also
gives a recursive function on its subsets (`SubsetRecursion`).

**`TracingProofs`.** Messages: `MessagesInv` says that records are whole, which frame owns
which transaction, how each ends and where its links go; with the order of the queue,
`MessagesCorrect` follows. Distributed tracing: by `DtInv` whatever a message says of a service
(`Agrees`) that service has told and keeps to, in every entry of a tracestate and every
payload, and whoever's entry comes first has handed on the others it was given (`Passes`).
`TraceContextIsCorrect` follows; which entries are kept, and that keeping them twice keeps the
same, is induction over the entries. `DecisionIsFinal` is an action property. Lives: `LifeInv` says
of each record what an ended one holds (`RightlyEnded`) and who named it (`RightlyNamed`), and of
the frames that one which creates a transaction is alone in doing so, and that an
active transaction is minded by somebody. Cross application tracing: by `CatInv` a called
transaction keeps what it took from its request for good, and its caller remembers the
hash it sent, unless its list is full, so that under whatever name it ends it reports that
hash as its own or as an alternate; a request, its response and its segment say of both
ends what is so. The context: a segment and the transaction code is part of *fit* if
they are the same or neither is active. By `AsyncInv` the current segment fits the
innermost frame, what each frame restores fits the frame below, what is bound fits whoever
bound it, and a promise has its own transaction in the map whenever it has one that
matters; transactions only ever begin and end (`Ages`), so what fits goes on fitting.
Recorded calls: `CallInv` says under which segment each frame runs and each callback that
waits will run (`FrameIsRight`, `WaitIsRight`): the opaque call it is part of until that is
answered or revealed, and for the application a segment of its own transaction. Steps only answer
or reveal calls and
make segments (`Evolves`), which keeps what is right so; an opaque segment the application
runs under is that of rows or events, whose callback stays.

Web requests (`RoutesAreCorrect`). `WebInv` has two halves, before and after the answer. As long as
nobody has answered and no error is on its way, the path is that of the middlewares the request is in,
and its cache, if there is one, is that path joined. From the answer on the path is frozen,
and the cache is the one that was true at the answer. The current segment is the base's or that of the frames
in progress, one for each, with an exception reading the code would hardly show: a router without
`next` pushes no segment, so `SegmentsAreNested` speaks of requests that have entered none.

**`HarvestProofs`.** The sampler (`SamplerInv`); events (`EventInv`: a queue that has lost an
event is full of better ones, and each event is in one place), slow traces
(`SlowTracesAreKept`, by `TraceInv`, with the action property `TopNIsKept`); metrics (`MetricInv`: each
value in one collection, whose period covers it, with statistics that its values give: their
total is the sum over the set, which a merge of disjoint sets adds, `TotalOf`,
`AddedAreMerged`). Slow queries (`QueryInv`): samples agree with the statements recorded under them
(`GoodSamples`), and once a statement has been dropped those that stay are slower (`FullOfSlower`).
Serverless mode (`LambdaInv`): every invocation has its own place and somebody to end it
(`HaveEnders`), and an error nobody caught is, between steps, a late one's; the end of all that
are open is induction over their number. The calls of
the collector (`RemoteInv`): at each stage an exchange has as many answers, given or
due, as it has earned, which is two only where a response broke off and its request
failed as well; the run and the headers change together. Errors (`ErrorInv`): the books agree
(`Booked`) after each error of a transaction, hence after any list of them, and still do when
the status code is added, which it is if nothing was thrown, and the transaction's errors are forgotten. Segments (`SegInv`): what
the end of a trace got to is stopped for good, and the root covers every segment that has
been measured, after each timer that changes and each segment that is finalized; thus
`DurationsAreFinal`, an action property, and `RootCovers`.

What stays with TLC:

- liveness (`SpinnersStop`, `LoginsSucceed`, `StartupEnds`): fairness and ENABLED are out of
  the prover's reach;
- the parts of `SurroundingsCorrect` but `AttributesCorrect` and `PromisesCorrect`. The
  exclusive times of `SegmentTrace` are recursive over the tree and fold over ranges,
  `Normalizer`, `Wrapping` and `AttributeFilter` nest folds of the community modules, whose
  induction theorems take operators no prover here can instantiate.

## Findings without a run

Reading the code for the models turned up behaviours that no property of a run is about,
or that contradict no promise of the repository. They are listed for its maintainers.

*Host and environment.* A failed read of /proc/cpuinfo or /proc/meminfo makes the parser
throw in a callback, which nobody catches. A refresh looks for cached packages after it
has cleared them, so "Using cached values" never happens; overlapping refreshes list
packages twice. The list of the home directory's packages is always dropped:
`async.mapSeries` gives an array where an object is expected. An error in
`common.request` leaves its abort listeners on the agent, and an aborted response ends
only on Node up to 14. A request that fails after its response has begun calls back for the
error (`utilization/common.js:95-103`) and once more when the response ends (`:71`), and
`utilization/index.js:32` counts the vendor twice: the facts may be told while another is
still being asked. `FactsAreWhole` allows as many missing vendors as there were second calls.

*Calls of the collector.* A connection error after the response has begun calls back twice. A
compressed request reads the Host header after the compression, and may name another host
than the one it connects to. Requests have no time-out. A 410 that races another batch's
409 logs the stopped agent in again; a 410 does not cancel another batch's restart.
`api.shutdown` listens with `on`, not `once`.

*Harvest.* `_afterSend(true)` also counts sends that failed. A split event payload's second half
carries the old run id. `getMinimumPriority` of an empty queue with limit 0 throws.
`slow_sql.max_samples` is not enforced on a merge. The slow trace
aggregator reads `synthetricsTraces` and so loses synthetic ones. Renamed metrics with
equal names are sent twice; `incrementCallCount` before a value leaves a minimum of 0.

*Errors.* "the metric should be incremented only if the error was not expected", says
`error-collector.js:178` of the count under `Errors/<name>`, but only what was thrown is asked
whether it was expected: an expected error that the application notices is counted there.
`ErrorCountsAgree` states the count as it is. A noticed error and the status code it
is behind are two errors (`:169`, where only `exceptions` are looked at), which `NoErrorTwice`
allows, while it holds that a status code counts only if nothing was thrown. Exceptions are
collected although the status turns out to be ignored. Under high security
`hasOnlyExpectedErrors` does not see an error's class.

*Names.* `finalizeNameFromUri` renames a transaction that the API has ended already.
`getFullName` with a forced name may differ from the name that was finalized. A handler that
throws synchronously in `startWebTransaction` leaks its transaction. A rule to ignore whose
expression has the flag `g`, the server's `replace_all` or the application's own RegExp
(`rule.js:47-48`, `:157-167`), keeps its `lastIndex`, which only rules that rename reset
(`:126`), so it lets every other one of equal names pass (`Normalizer` models the place it
keeps). A name given by the API "Overrides any New Relic naming rules set
in configuration or from New Relic's servers" (`api.js:69-70`, `:226-228`): not so for a rule of the
user's that renames, which wins, nor for the server's rules for transactions and segment
terms, which work on the name (`ApiNameWins`). `index.js:101` has a transaction handled
externally end by user code only, `api.js:820-824` by a returned promise as well, which is
what it does. `markPath` heeds no freeze; a middleware without `next` pops a segment it has
not pushed; that of a promise middleware is pushed twice and popped once.

*Tracing.* A priority that truncates to 0 is lost. Headers accepted before the connect keep
the own key's entry and send it twice. `majorVersion == null` is never true for false. The
id of an incoming cross application request is used for its path before it is found to be
trusted. A message consumer requires cross application tracing and an encoding key
even for distributed tracing, the producer does not.

*Traces and context.* A segment that starts after one below it gets a negative exclusive time. A
promise chain "does not account for branches of branches" (`promise-shim.js:487-492`), nor for
two other things the comment does not mention: a pending promise in the middle that drops its
link, when `then` is called on it without an active transaction, and a handler that is
passed over, a `then` by a rejection or a `catch` by a fulfilment (`:410-431`). Neither fills
its place, and those whose place is read through it run under an outdated segment
(`:525-531`). `HandlersFollowTheirChain` exempts chains in which one of the three has
happened. A callback of an ended
transaction runs under whatever segment is current. Row callbacks of an opaque call
do not clear its mark. "Segments may now be flagged as opaque, causing internal segments to be
omitted" (`NEWS.md:1807`), but a driver's nested call that runs under the opaque segment and
returns a promise clears the mark when that settles (`shim.js:1941-1945`), and so does a
listener for the end of its stream (`:2239-2252`): what the driver does after that, before it
has answered, is recorded. `DriversStayHidden` names those cases (`revealed`) and holds for all others.

*Spans and serverless mode.* Queued spans are sent as they are and arrive empty; the queue
holds one more than its size; its reconnect timer is never cancelled. Errors added after the
end of an invocation are lost, and a late callback clears the place of a later invocation.

*Attributes and configuration.* `attributeCount` counts overwrites; `has` of the prioritized
attributes returns nothing; `noticeError` passes custom attributes on in high security
although it says it does not. Some boolean environment variables are read as text
(`NEW_RELIC_API_CUSTOM_ATTRIBUTES` among them). Status code ranges are appended at every
connect. "finalValue is more secure than original local val, so drop corresponding data"
(`config/index.js:1502-1503`): filter rules are not compiled again after `applyLasp`, so the
filter goes on letting in what a policy forbids; of included attributes only the global list
is looked at (`lasp.js:57`), not those of the destinations; where anything is dropped it is
the traces, not the events; and what is under way, in transactions or in batches that come
back, is not dropped. `NothingLaxHeld` says what is: nothing that was held when the setting was
tightened is left, but for those.

*Wrapping, loading, log.* Unwrapping a property that shares a wrapped function with another
unwraps the other. `unwrapAll` drops layers the application put on top. Exports replaced by
a plain wrapper are replaced anew at every require; handlers that fail are marked as
instrumented. "record the path that has been seen so we can examine it after the load call has
returned" (`shimmer.js:362-363`): in between the module's body runs, and a require of the same
name in it, resolved elsewhere, leaves that path instead, so that the shim is told another
module's (`PathsAreRight` exempts it). A message whose inspection throws mutes the logger for good.
`write` "Returns a boolean representing the status of the write (success/failure)"
(`logger.js:181-182`), but returns true for an entry that cannot be made a text
(`:207-212`) or that a full buffer drops: a message to be logged once then counts as logged.

## Not modelled

`PROJECT.json` lists each part that is left out, with the reason. In the application: the
build files, redux-logger (which only prints), CSS, texts, the forms' local state, the
routes for one account and the pass-through of the fake backend. The 401 branch of
`handleResponse` cannot be reached, because the fake backend is always installed. In
the agent: the instrumentations of single libraries, which only say what to wrap; system
metrics; parsers and obfuscators of statements, names and addresses; http agents and
certificates; what of the public API only passes a call on; scripts. Of the modelled
parts, `agent.js`'s `_enabledChange` and a second gathering of host facts while one is
under way are left out. That names finally get in, spans finally leave and the like is not
checked, only that somebody is left to do it.

## Plan

1. `Wrapping`, `AttributeFilter`, `Normalizer` and the exclusive times of `SegmentTrace` with
   their folds written as recursive functions, and proved by `Induction`, as `Configuration`,
   `ErrorCollector` and `Serverless` are.
2. A real API behind `UserService`: answers in any order, a 401 that logs out, network
   failures. Its abstract specification: a call settles exactly once, or never.
3. An abstract session that one patient tab implements, with its refinement proved.
