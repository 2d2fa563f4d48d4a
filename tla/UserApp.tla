------------------------------- MODULE UserApp -------------------------------
(***************************************************************************)
(* The application: browser tabs that share localStorage, each running the *)
(* pages, the router, the Redux store, the user service and the fake       *)
(* backend.                                                                *)
(*                                                                         *)
(* A step is one JavaScript task together with the promise callbacks and   *)
(* the synchronous renders it leads to: a click, a history move, a page    *)
(* load, or the timer of a request.  Every request waits in a timer of     *)
(* 500 ms, timers of equal delay fire in the order they were set, and the  *)
(* whole answer (handler, handleResponse, the thunk's callback, dispatches *)
(* and navigation) runs before the next task.  So a tab answers its        *)
(* requests first in, first out, while different tabs interleave freely.   *)
(***************************************************************************)
EXTENDS FakeBackend, Reducers, UserService, Sequences

CONSTANTS
    Impatient,   \* TRUE if a user may submit a login while one is in flight
    MaxTimers,   \* bound: requests in flight when the user starts something new
    MaxHist,     \* bound: session-history entries a tab keeps (browsers: 50)
    MaxId        \* bound: largest account id registrations may lead to

ASSUME BoundsAssumption ==
    /\ Impatient \in BOOLEAN
    /\ MaxTimers \in Nat
    /\ MaxHist \in Nat \ {0}
    /\ MaxId \in Nat

VARIABLES
    storedUser,  \* localStorage's 'user' key, NoUser when absent
    store,       \* store[t]: the Redux state
    timers,      \* timers[t]: requests whose timer has not fired
    hist, at,    \* session history of a tab and the index of the current entry
    page         \* what is rendered: a page, "blank" after React unmounted the
                 \* tree because a render threw, "closed" before the first load

tabVars == <<storedUser, store, timers, hist, at, page>>
vars    == <<users, storedUsers, storedUser, store, timers, hist, at, page>>

Path == {"/", "/login", "/register", "*"}   \* "*" is any other path
Page == {"HomePage", "LoginPage", "RegisterPage", "blank", "closed"}

TypeOK ==
    /\ BackendTypeOK
    /\ storedUser \in Session \cup {NoUser}
    /\ store \in [Tabs -> StoreState]
    /\ timers \in [Tabs -> Seq(Request)]
    /\ hist \in [Tabs -> Seq(Path)]
    /\ at \in [Tabs -> Nat]
    /\ page \in [Tabs -> Page]
    /\ \A t \in Tabs :
          at[t] \in (IF page[t] = "closed" THEN {0} ELSE 1 .. Len(hist[t]))

Init ==
    /\ BackendInit
    /\ storedUser = NoUser
    /\ store = [t \in Tabs |-> InitialStore(NoUser)]
    /\ timers = [t \in Tabs |-> <<>>]
    /\ hist = [t \in Tabs |-> <<>>]
    /\ at = [t \in Tabs |-> 0]
    /\ page = [t \in Tabs |-> "closed"]

-----------------------------------------------------------------------------
(***************************************************************************)
(* Routing.  Rendered(old, p, u, s, q) is the tab after React Router has   *)
(* rendered location p: `old` is the page shown before, u what             *)
(* localStorage holds under 'user', s the Redux state and q the timers.    *)
(* PrivateRoute reads localStorage, not the Redux state.  A redirect       *)
(* replaces the location, which clears the alert again.  A page that was   *)
(* not rendered before is mounted: LoginPage's constructor logs out,       *)
(* HomePage's componentDidMount requests the users.  HomePage's render     *)
(* throws when authentication.user is undefined; no error boundary catches *)
(* it, so React unmounts everything.                                       *)
(***************************************************************************)
PageOf(p) == CASE p = "/"         -> "HomePage"
               [] p = "/login"    -> "LoginPage"
               [] p = "/register" -> "RegisterPage"

\* A slip: the route is not guarded.
DestinationUnguarded(p, u) == IF p = "*" THEN "/" ELSE p

Destination(p, u) ==
    IF p \in {"/", "*"} THEN (IF u = NoUser THEN "/login" ELSE "/") ELSE p

Shown(pg, p, u, s, q) == [page |-> pg, path |-> p, user |-> u, store |-> s, timers |-> q]

\* A slip: the constructor resets the Redux state but leaves the stored session.
LoginPageMountedKeepingUser(u, s, q) ==
    Shown("LoginPage", "/login", u, Dispatch(s, [type |-> "LOGOUT"]), q)

LoginPageMounted(u, s, q) ==
    Shown("LoginPage", "/login", NoUser, Dispatch(s, [type |-> "LOGOUT"]), q)

HomePageMounted(u, s, q) ==
    Shown("HomePage", "/", u, Dispatch(s, [type |-> "GETALL_REQUEST"]),
          Append(q, GetAll(u)))

Rendered(old, p, u, s, q) ==
    LET d  == Destination(p, u)
        s1 == IF d = p THEN s ELSE Dispatch(s, [type |-> "ALERT_CLEAR"])
        mounts == d # p \/ old # PageOf(d)
    IN  CASE old = "blank" -> Shown("blank", p, u, s, q)
          [] old # "blank" /\ d = "/" /\ s1.authentication.user = NoUser ->
                 Shown("blank", d, u, s1, q)
          [] old # "blank" /\ d = "/" /\ s1.authentication.user # NoUser /\ mounts ->
                 HomePageMounted(u, s1, q)
          [] old # "blank" /\ d = "/login" /\ mounts -> LoginPageMounted(u, s1, q)
          [] OTHER -> Shown(PageOf(d), d, u, s1, q)

\* Tab t shows r.
Show(t, r) ==
    /\ page' = [page EXCEPT ![t] = r.page]
    /\ storedUser' = r.user
    /\ store' = [store EXCEPT ![t] = r.store]
    /\ timers' = [timers EXCEPT ![t] = r.timers]

\* A slip: the listener is gone.
MovedKeepingAlert(s) == s

\* history.listen in App: every location change clears the alert first.
Moved(s) == Dispatch(s, [type |-> "ALERT_CLEAR"])

\* history.push drops the entries after the current one; a browser that is out of room
\* drops the oldest entry.
Pushed(h, i, p) ==
    LET longer == Append(SubSeq(h, 1, i), p)
    IN  IF Len(longer) > MaxHist THEN Tail(longer) ELSE longer

Push(t, p, u, s, q) ==
    LET r == Rendered(page[t], p, u, Moved(s), q)
    IN  /\ Show(t, r)
        /\ hist' = [hist EXCEPT ![t] = Pushed(@, at[t], r.path)]
        /\ at' = [at EXCEPT ![t] = Len(hist'[t])]

\* Only the Redux state and the timers change.
Stay(t, s, q) ==
    /\ store' = [store EXCEPT ![t] = s]
    /\ timers' = [timers EXCEPT ![t] = q]
    /\ UNCHANGED <<storedUser, hist, at, page>>

\* PrivateRoute would send the tab's mounted HomePage away if it were rendered again.
Evicted(t) == page[t] = "HomePage" /\ storedUser = NoUser

\* A changed alert renders App, and with it the routes, where the tab is.
Rerender(t, s, q) ==
    IF Evicted(t)
      THEN /\ Show(t, LoginPageMounted(storedUser, Moved(s), q))
           /\ hist' = [hist EXCEPT ![t][at[t]] = "/login"]
           /\ UNCHANGED at
      ELSE Stay(t, s, q)

-----------------------------------------------------------------------------
(***************************************************************************)
(* Page loads: the modules are evaluated, so the backend copies the stored *)
(* accounts and the store starts from the stored session; what was in      *)
(* flight is gone.                                                         *)
(***************************************************************************)
Load(t, h, i) ==
    LET r == Rendered("closed", h[i], storedUser, InitialStore(storedUser), <<>>)
    IN  /\ LoadUsers(t)
        /\ Show(t, r)
        /\ hist' = [hist EXCEPT ![t] = [h EXCEPT ![i] = r.path]]
        /\ at' = [at EXCEPT ![t] = i]

\* The user opens the application in tab t at an address.
Open(t, p) == Load(t, <<p>>, 1)

Reload(t) ==
    /\ page[t] # "closed"
    /\ Load(t, hist[t], at[t])

-----------------------------------------------------------------------------
(***************************************************************************)
(* What the user does.                                                     *)
(***************************************************************************)
CanStart(t) == Len(timers[t]) < MaxTimers

InFlight(t, route) == { i \in DOMAIN timers[t] : timers[t][i].route = route }

Link(t, from, to) ==
    /\ page[t] = from
    /\ Push(t, to, storedUser, store[t], timers[t])
    /\ UNCHANGED backendVars

\* HomePage's "Logout", LoginPage's "Register", RegisterPage's "Cancel".
ClickLink(t) ==
    \/ Link(t, "HomePage", "/login")
    \/ Link(t, "LoginPage", "/register")
    \/ Link(t, "RegisterPage", "/login")

\* Back, forward, or a jump in the session history.  popstate runs outside React's
\* batching: App's listener dispatches first and renders the routes at the location the
\* Router still has.  An evicted HomePage then redirects before the Router hears of the
\* move, and the redirect replaces the entry the user moved to.
Traverse(t, i) ==
    /\ page[t] # "closed"
    /\ CanStart(t)
    /\ i \in 1 .. Len(hist[t]) /\ i # at[t]
    /\ LET s == Moved(store[t])
           before == IF Evicted(t)
                       THEN LoginPageMounted(storedUser, s, timers[t])
                       ELSE Shown(page[t], "/", storedUser, s, timers[t])
           r == Rendered(before.page, hist[t][i], storedUser, before.store, timers[t])
       IN  /\ Show(t, r)
           /\ hist' = [hist EXCEPT ![t][i] = IF Evicted(t) THEN "/login" ELSE r.path]
           /\ at' = [at EXCEPT ![t] = i]
    /\ UNCHANGED backendVars

SubmitLogin(t, n, pw) ==
    /\ page[t] = "LoginPage"
    /\ CanStart(t)
    /\ Impatient \/ InFlight(t, "authenticate") = {}
    /\ Stay(t, Dispatch(store[t], [type |-> "LOGIN_REQUEST", name |-> n]),
            Append(timers[t], Authenticate(n, pw)))
    /\ UNCHANGED backendVars

SubmitRegister(t, n, pw) ==
    /\ page[t] = "RegisterPage"
    /\ CanStart(t)
    /\ NextId(users[t]) + Cardinality(InFlight(t, "register")) <= MaxId
    /\ Stay(t, Dispatch(store[t], [type |-> "REGISTER_REQUEST"]),
            Append(timers[t], Register(n, pw)))
    /\ UNCHANGED backendVars

\* A row offers the link only while it is neither being deleted nor showing an error.
ClickDelete(t, r) ==
    /\ page[t] = "HomePage"
    /\ CanStart(t)
    /\ r.mark = "none"
    /\ Stay(t, Dispatch(store[t], [type |-> "DELETE_REQUEST", id |-> r.id]),
            Append(timers[t], Delete(r.id, storedUser)))
    /\ UNCHANGED backendVars

-----------------------------------------------------------------------------
(***************************************************************************)
(* A request's timer fires: the backend's handler, the service's promise   *)
(* chain and the thunk's callback.                                         *)
(***************************************************************************)
Firing(t, route) ==
    /\ timers[t] # <<>>
    /\ Head(timers[t]).route = route

\* The credentials match and localStorage takes the session.
LoginSucceeds(t, a) ==
    LET u == SessionOf(a)
    IN  Push(t, "/", u, Dispatch(store[t], [type |-> "LOGIN_SUCCESS", user |-> u]),
             Tail(timers[t]))

\* They do not, or setItem throws.  Resetting authentication makes a mounted HomePage
\* throw in its render, inside the first dispatch, so the alert is never dispatched.
LoginFails(t) ==
    LET s == Dispatch(store[t], [type |-> "LOGIN_FAILURE"])
    IN  \/ /\ page[t] = "HomePage"
           /\ Show(t, Shown("blank", "/", storedUser, s, Tail(timers[t])))
           /\ UNCHANGED <<hist, at>>
        \/ /\ page[t] # "HomePage"
           /\ Stay(t, Dispatch(s, [type |-> "ALERT_ERROR"]), Tail(timers[t]))

AnswerLogin(t) ==
    /\ Firing(t, "authenticate")
    /\ LET found == Matching(users[t], Head(timers[t]).name, Head(timers[t]).pw)
       IN  \E saved \in SetItemOutcomes :
              \/ saved /\ \E a \in found : LoginSucceeds(t, a)
              \/ (found = {} \/ ~saved) /\ LoginFails(t)
    /\ UNCHANGED backendVars

\* The callbacks after the promise is resolved: the store, the move to the login page and
\* then the alert, which the move would have cleared.
Registered(t) ==
    LET s == Moved(Dispatch(store[t], [type |-> "REGISTER_SUCCESS"]))
        r == Rendered(page[t], "/login", storedUser, s, Tail(timers[t]))
    IN  /\ Show(t, [r EXCEPT !.store = Dispatch(@, [type |-> "ALERT_SUCCESS"])])
        /\ hist' = [hist EXCEPT ![t] = Pushed(@, at[t], r.path)]
        /\ at' = [at EXCEPT ![t] = Len(hist'[t])]

\* The name is taken, or the account is added and stored, or it is added and setItem
\* throws inside the timer's callback, which leaves the promise pending for ever.
AnswerRegister(t) ==
    LET r == Head(timers[t])
    IN  /\ Firing(t, "register")
        /\ \/ /\ Taken(users[t], r.name)
              /\ Rerender(t,
                          Dispatch(Dispatch(store[t], [type |-> "REGISTER_FAILURE"]),
                                   [type |-> "ALERT_ERROR"]),
                          Tail(timers[t]))
              /\ UNCHANGED backendVars
           \/ \E saved \in SetItemOutcomes :
                 /\ RegisterUser(t, r.name, r.pw, saved)
                 /\ IF saved THEN Registered(t) ELSE Stay(t, store[t], Tail(timers[t]))

AnswerGetAll(t) ==
    /\ Firing(t, "getAll")
    /\ Stay(t, Dispatch(store[t], IF Head(timers[t]).token
                                    THEN [type |-> "GETALL_SUCCESS", users |-> users[t]]
                                    ELSE [type |-> "GETALL_FAILURE"]),
            Tail(timers[t]))
    /\ UNCHANGED backendVars

\* When the reducer throws the callback ends there, with the store as it was; when
\* setItem throws there is no answer at all.
AnswerDelete(t) ==
    LET r == Head(timers[t])
        found == \E a \in users[t] : a.id = r.id
        Answered(type) == Stay(t, Dispatch(store[t], [type |-> type, id |-> r.id]),
                               Tail(timers[t]))
    IN  /\ Firing(t, "delete")
        /\ \/ /\ ~r.token
              /\ Answered("DELETE_FAILURE")
              /\ UNCHANGED backendVars
           \/ /\ r.token
              /\ \E saved \in SetItemOutcomes :
                    /\ DeleteUser(t, r.id, saved)
                    /\ IF found /\ ~saved
                         THEN Stay(t, store[t], Tail(timers[t]))
                         ELSE Answered("DELETE_SUCCESS")

Answer(t) == AnswerLogin(t) \/ AnswerRegister(t) \/ AnswerGetAll(t) \/ AnswerDelete(t)

-----------------------------------------------------------------------------
Next ==
    \E t \in Tabs :
        \/ \E p \in Path : Open(t, p)
        \/ Reload(t)
        \/ ClickLink(t)
        \/ \E i \in DOMAIN hist[t] : Traverse(t, i)
        \/ \E n \in Names, pw \in Passwords : SubmitLogin(t, n, pw)
        \/ \E n \in Names, pw \in Passwords : SubmitRegister(t, n, pw)
        \/ \E r \in store[t].users.items : ClickDelete(t, r)
        \/ AnswerLogin(t)
        \/ AnswerRegister(t)
        \/ AnswerGetAll(t)
        \/ AnswerDelete(t)

Spec == Init /\ [][Next]_vars

\* An open page's event loop keeps firing due timers; nobody has to click.
FairSpec == Spec /\ \A t \in Tabs : WF_vars(Answer(t))
=============================================================================
