---------------------------- MODULE UserAppProps ----------------------------
(***************************************************************************)
(* What the application promises its user, as invariants, action           *)
(* properties and liveness properties of UserApp.  Those that only one tab *)
(* can keep say so.                                                        *)
(***************************************************************************)
EXTENDS UserApp

LoginSpinnerHasRequest ==
    \A t \in Tabs :
        store[t].authentication.status = "loggingIn" => InFlight(t, "authenticate") # {}

RegisterSpinnerHasRequest ==
    \A t \in Tabs : store[t].registration => InFlight(t, "register") # {}

ListSpinnerHasRequest ==
    \A t \in Tabs : store[t].users.phase = "loading" => InFlight(t, "getAll") # {}

RowSpinnersHaveRequests ==
    \A t \in Tabs : \A r \in store[t].users.items :
        r.mark = "deleting" => \E i \in InFlight(t, "delete") : timers[t][i].id = r.id

\* localStorage can take every write: the login and register spinners, "Loading
\* users..." and a row's "Deleting..." are shown only while a request that will take
\* them away is in flight.  Whatever the user clicks meanwhile, and in whatever order
\* pages come and go, the reducer that waits for an answer gets it.
SpinnersHaveRequests ==
    /\ LoginSpinnerHasRequest
    /\ RegisterSpinnerHasRequest
    /\ ListSpinnerHasRequest
    /\ RowSpinnersHaveRequests

\* Also when localStorage is full: the spinners that no write stands between.  (A
\* registration or deletion whose write throws leaves its promise pending for ever.)
ReadSpinnersHaveRequests == LoginSpinnerHasRequest /\ ListSpinnerHasRequest

\* One tab: HomePage greets the user whose session localStorage holds, and the Redux
\* state never takes for logged in a user whose session is gone.  PrivateRoute decides
\* from localStorage, HomePage shows what the Redux state says, and logins submitted
\* twice answer while any page is shown.
HomeIsLoggedIn ==
    \A t \in Tabs :
        page[t] = "HomePage" \/ store[t].authentication.status = "loggedIn" =>
            store[t].authentication = LoggedIn(storedUser)

\* One tab, a user who waits for a login's answer: a stored session is one the Redux
\* state is logged in with, on every page and after every reload.  (Without waiting, a
\* failed second login resets the Redux state and leaves the session.)
StoredSessionIsLoggedIn ==
    \A t \in Tabs :
        page[t] # "closed" /\ storedUser # NoUser =>
            store[t].authentication = LoggedIn(storedUser)

\* localStorage can take every write: the list HomePage shows as loaded is exactly the
\* array of its tab's backend, although registrations and deletions are answered while it
\* is loaded, reloaded and left.
ListIsCurrent ==
    \A t \in Tabs :
        page[t] = "HomePage" /\ store[t].users.phase = "loaded" =>
            { [id |-> r.id, name |-> r.name] : r \in store[t].users.items }
              = { SessionOf(a) : a \in users[t] }

\* One tab: no request that needs a session is ever sent without the Authorization
\* header, so the backend's "Unauthorised" is never seen.
NeverUnauthorised ==
    \A t \in Tabs : \A i \in InFlight(t, "getAll") \cup InFlight(t, "delete") :
        timers[t][i].token

\* No render throws: HomePage's user is never undefined where the tree would render it.
NeverBlank == \A t \in Tabs : page[t] # "blank"

\* One tab: the backend's array is the "array in local storage for registered users"
\* of the comment that declares it.
MemoryIsStored == \A t \in Tabs : page[t] # "closed" => users[t] = storedUsers

\* An account that is stored stays stored until a deletion of that account is answered.
RegisteredStay ==
    [][\A a \in storedUsers \ storedUsers' :
          \E t \in Tabs : Firing(t, "delete") /\ Head(timers[t]).id = a.id]_vars

\* "clear alert on location change": a tab whose location moves shows no alert
\* afterwards, except the one that follows a registration to the login page.
AlertsStayBehind ==
    [][\A t \in Tabs :
          <<hist[t], at[t]>>' # <<hist[t], at[t]>> =>
              \/ store'[t].alert = "none"
              \/ store'[t].alert = "success" /\ Firing(t, "register")]_vars

\* "reset login status": once LoginPage has reset the status, an answer to a login
\* submitted before does not log anybody in.
ResetLoginsAreDropped ==
    [][\A t \in Tabs :
          AnswerLogin(t) /\ store[t].authentication.status = "out" =>
              store'[t].authentication.status = "out"]_vars

\* "auto logout if 401 response returned from api": a tab to which the backend has
\* answered Unauthorised does not stay on HomePage.
UnauthorisedLogsOut ==
    \A t \in Tabs :
        page[t] = "HomePage" =>
            /\ store[t].users.phase # "error"
            /\ \A r \in store[t].users.items : r.mark # "failed"

\* A user who does not reload or reopen tabs for ever sees every spinner stop.
SpinnersStop ==
    (\A t \in Tabs : <>[][~(Reload(t) \/ \E p \in Path : Open(t, p))]_vars) =>
    \A t \in Tabs :
        /\ store[t].authentication.status = "loggingIn" ~>
              store[t].authentication.status # "loggingIn"
        /\ store[t].registration ~> ~store[t].registration
        /\ store[t].users.phase = "loading" ~> store[t].users.phase # "loading"
=============================================================================
