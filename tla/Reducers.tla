------------------------------ MODULE Reducers ------------------------------
(***************************************************************************)
(* src/src/_reducers: the Redux state of one tab and how each dispatched   *)
(* action changes it.  Action types carry the names of                     *)
(* src/src/_constants without their prefixes.                              *)
(***************************************************************************)
EXTENDS Accounts

\* authentication: {}, { loggingIn, user: { username } } or { loggedIn, user }.
LoggedOut   == [status |-> "out", user |-> NoUser]
LoggingIn(n) == [status |-> "loggingIn", user |-> [name |-> n]]
LoggedIn(u) == [status |-> "loggedIn", user |-> u]

AuthState == {LoggedOut}
             \cup [status : {"loggingIn"}, user : [name : Names]]
             \cup [status : {"loggedIn"}, user : Session]

\* A slip: the failure case is missing.
AuthenticationSticky(s, a) ==
    CASE a.type = "LOGIN_REQUEST" -> LoggingIn(a.name)
      [] a.type = "LOGIN_SUCCESS" -> LoggedIn(a.user)
      [] a.type = "LOGOUT"        -> LoggedOut
      [] OTHER                    -> s

Authentication(s, a) ==
    CASE a.type = "LOGIN_REQUEST" -> LoggingIn(a.name)
      [] a.type = "LOGIN_SUCCESS" -> LoggedIn(a.user)
      [] a.type = "LOGIN_FAILURE" -> LoggedOut
      [] a.type = "LOGOUT"        -> LoggedOut
      [] OTHER                    -> s

-----------------------------------------------------------------------------
\* registration: TRUE for { registering: true }, FALSE for {}.  A slip: the failure
\* case is missing.
RegistrationSticky(s, a) ==
    CASE a.type = "REGISTER_REQUEST" -> TRUE
      [] a.type = "REGISTER_SUCCESS" -> FALSE
      [] OTHER                       -> s

Registration(s, a) ==
    CASE a.type = "REGISTER_REQUEST" -> TRUE
      [] a.type = "REGISTER_SUCCESS" -> FALSE
      [] a.type = "REGISTER_FAILURE" -> FALSE
      [] OTHER                       -> s

-----------------------------------------------------------------------------
\* users: {}, { loading }, { error } or { items }.  A row's mark is its `deleting` or
\* `deleteError` property; HomePage shows `deleting` first when a row has both.
Row     == [id : AccountId, name : Names, mark : {"none", "deleting", "failed"}]
RowOf(a) == [id |-> a.id, name |-> a.name, mark |-> "none"]

ListState == [phase : {"empty", "loading", "error"}, items : {{}}]
             \cup [phase : {"loaded"}, items : SUBSET Row]

NotLoaded(phase) == [phase |-> phase, items |-> {}]
Loaded(rows)     == [phase |-> "loaded", items |-> rows]

Marked(rows, id, m) == { IF r.id = id THEN [r EXCEPT !.mark = m] ELSE r : r \in rows }

\* The delete cases map or filter state.items, which only the loaded list has: in any
\* other phase the reducer throws a TypeError and the store keeps its state.
UsersThrows(s, a) ==
    /\ a.type \in {"DELETE_REQUEST", "DELETE_SUCCESS", "DELETE_FAILURE"}
    /\ s.phase # "loaded"

\* A slip: the row of a deleted account stays in the list.
UsersKeepingRow(s, a) ==
    IF UsersThrows(s, a) THEN s
    ELSE CASE a.type = "GETALL_REQUEST" -> NotLoaded("loading")
           [] a.type = "GETALL_SUCCESS" -> Loaded({ RowOf(u) : u \in a.users })
           [] a.type = "GETALL_FAILURE" -> NotLoaded("error")
           [] a.type = "DELETE_REQUEST" -> Loaded(Marked(s.items, a.id, "deleting"))
           [] a.type = "DELETE_SUCCESS" -> Loaded(Marked(s.items, a.id, "none"))
           [] a.type = "DELETE_FAILURE" -> Loaded(Marked(s.items, a.id, "failed"))
           [] OTHER                     -> s

UsersList(s, a) ==
    IF UsersThrows(s, a) THEN s
    ELSE CASE a.type = "GETALL_REQUEST" -> NotLoaded("loading")
           [] a.type = "GETALL_SUCCESS" -> Loaded({ RowOf(u) : u \in a.users })
           [] a.type = "GETALL_FAILURE" -> NotLoaded("error")
           [] a.type = "DELETE_REQUEST" -> Loaded(Marked(s.items, a.id, "deleting"))
           [] a.type = "DELETE_SUCCESS" -> Loaded({ r \in s.items : r.id # a.id })
           [] a.type = "DELETE_FAILURE" -> Loaded(Marked(s.items, a.id, "failed"))
           [] OTHER                     -> s

-----------------------------------------------------------------------------
\* alert: the kind of message shown, "none" for {}.
AlertState == {"none", "success", "error"}

Alert(s, a) ==
    CASE a.type = "ALERT_SUCCESS" -> "success"
      [] a.type = "ALERT_ERROR"   -> "error"
      [] a.type = "ALERT_CLEAR"   -> "none"
      [] OTHER                    -> s

-----------------------------------------------------------------------------
StoreState == [authentication : AuthState, registration : BOOLEAN,
               users : ListState, alert : AlertState]

Dispatch(s, a) ==
    [authentication |-> Authentication(s.authentication, a),
     registration   |-> Registration(s.registration, a),
     users          |-> UsersList(s.users, a),
     alert          |-> Alert(s.alert, a)]

\* A slip: authentication starts from {} too.
InitialStoreLoggedOut(u) ==
    [authentication |-> LoggedOut,
     registration   |-> FALSE,
     users          |-> NotLoaded("empty"),
     alert          |-> "none"]

\* createStore: authentication starts from the session a page load finds in
\* localStorage, the other slices from {}.
InitialStore(u) ==
    [authentication |-> IF u = NoUser THEN LoggedOut ELSE LoggedIn(u),
     registration   |-> FALSE,
     users          |-> NotLoaded("empty"),
     alert          |-> "none"]
=============================================================================
