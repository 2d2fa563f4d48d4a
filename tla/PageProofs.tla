------------------------------ MODULE PageProofs ------------------------------
(***************************************************************************)
(* What pages show, for any number of tabs, any names and passwords and    *)
(* any bounds: spinners have requests, the list is current, and alerts     *)
(* stay behind when a tab moves.  Then what only one tab can promise: its  *)
(* memory is the stored list, and pages, session and requests agree.       *)
(***************************************************************************)
EXTENDS UserAppProps, UserAppProofs

-----------------------------------------------------------------------------
(***************************************************************************)
(* Spinners have requests.  The inductive invariant is TypeOK with         *)
(* Serving, which says it tab by tab and makes an exception for what a     *)
(* write that throws leaves unanswered.                                    *)
(*                                                                         *)
(* The store s and the queue q of a tab fit.  Registrations and deletions  *)
(* get their answer only when their write succeeds.                        *)
(***************************************************************************)
Has(q, route) == \E i \in 1 .. Len(q) : q[i].route = route

HasDelete(q, id) == \E i \in 1 .. Len(q) : q[i].route = "delete" /\ q[i].id = id

Served(s, q) ==
    /\ s.authentication.status = "loggingIn" => Has(q, "authenticate")
    /\ s.users.phase = "loading" => Has(q, "getAll")
    /\ ~StorageFails =>
          /\ s.registration => Has(q, "register")
          /\ \A r \in s.users.items : r.mark = "deleting" => HasDelete(q, r.id)

LEMMA ServedIsSpinners ==
    ASSUME TypeOK, \A t \in Tabs : Served(store[t], timers[t])
    PROVE  /\ ReadSpinnersHaveRequests
           /\ ~StorageFails => SpinnersHaveRequests
<1>1. \A t \in Tabs : DOMAIN timers[t] = 1 .. Len(timers[t])
  BY LenProperties DEF TypeOK
<1>2. ASSUME NEW t \in Tabs, NEW route
      PROVE  InFlight(t, route) # {} <=> Has(timers[t], route)
  <2>1. InFlight(t, route) = { i \in 1 .. Len(timers[t]) : timers[t][i].route = route }
    BY <1>1 DEF InFlight
  <2> QED  BY <2>1 DEF Has
<1>3. ASSUME NEW t \in Tabs, NEW id
      PROVE  (\E i \in InFlight(t, "delete") : timers[t][i].id = id) <=> HasDelete(timers[t], id)
  BY <1>1 DEF HasDelete, InFlight
<1> QED
  BY <1>2, <1>3
     DEF SpinnersHaveRequests, ReadSpinnersHaveRequests, LoginSpinnerHasRequest, RegisterSpinnerHasRequest,
         ListSpinnerHasRequest, RowSpinnersHaveRequests, Served

\* A queue that grows serves what it served, and what was appended.
LEMMA AppendHas ==
    ASSUME NEW q \in Seq(Request), NEW r \in Request
    PROVE  /\ \A route : Has(q, route) => Has(Append(q, r), route)
           /\ \A id : HasDelete(q, id) => HasDelete(Append(q, r), id)
           /\ Has(Append(q, r), r.route)
           /\ r.route = "delete" => HasDelete(Append(q, r), r.id)
<1> DEFINE p == Append(q, r)
<1>1. /\ Len(q) \in Nat /\ Len(p) = Len(q) + 1
      /\ \A i \in 1 .. Len(q) : p[i] = q[i]
      /\ p[Len(q) + 1] = r
  BY AppendProperties, LenProperties
<1> HIDE DEF p
<1>2. \A i \in 1 .. Len(q) : i \in 1 .. Len(p) /\ p[i] = q[i]
  BY <1>1
<1>3. Len(q) + 1 \in 1 .. Len(p) /\ p[Len(q) + 1] = r
  BY <1>1
<1>4. /\ \A route : Has(q, route) => Has(p, route)
      /\ \A id : HasDelete(q, id) => HasDelete(p, id)
  BY <1>2 DEF Has, HasDelete
<1>5. Has(p, r.route) /\ (r.route = "delete" => HasDelete(p, r.id))
  BY <1>3 DEF Has, HasDelete
<1> QED  BY <1>4, <1>5 DEF p

\* A queue that loses its head still serves everything but that.
LEMMA TailHas ==
    ASSUME NEW q \in Seq(Request), q # <<>>
    PROVE  /\ \A route : Has(q, route) /\ Head(q).route # route => Has(Tail(q), route)
           /\ \A id : HasDelete(q, id) /\ ~(Head(q).route = "delete" /\ Head(q).id = id)
                        => HasDelete(Tail(q), id)
<1>1. /\ Len(q) \in Nat /\ Len(Tail(q)) = Len(q) - 1
      /\ \A i \in 1 .. Len(Tail(q)) : Tail(q)[i] = q[i + 1]
      /\ Head(q) = q[1]
  BY HeadTailProperties, LenProperties
<1>2. \A i \in 1 .. Len(q) : i # 1 => i - 1 \in 1 .. Len(Tail(q)) /\ Tail(q)[i - 1] = q[i]
  BY <1>1
<1> QED  BY <1>1, <1>2 DEF Has, HasDelete

LEMMA AppendServed ==
    ASSUME NEW s, NEW q \in Seq(Request), NEW r \in Request, Served(s, q)
    PROVE  Served(s, Append(q, r))
BY AppendHas DEF Served

LEMMA FailedRow ==
    ASSUME NEW rows \in SUBSET Row, NEW id, NEW r \in Marked(rows, id, "failed"),
           r.mark = "deleting"
    PROVE  r.id # id
<1>1. PICK row \in rows : r.id = row.id /\ r.mark = IF row.id = id THEN "failed" ELSE row.mark
  BY MarkedRows
<1> QED  BY <1>1

\* A reducer that starts to wait has its request in the queue; the others start nothing.
LEMMA DispatchServed ==
    ASSUME NEW s \in StoreState, NEW q, Served(s, q), NEW a,
           a.type = "LOGIN_REQUEST" => Has(q, "authenticate"),
           a.type = "REGISTER_REQUEST" => Has(q, "register"),
           a.type = "GETALL_REQUEST" => Has(q, "getAll"),
           a.type = "DELETE_REQUEST" => HasDelete(q, a.id)
    PROVE  Served(Dispatch(s, a), q)
<1> DEFINE d == Dispatch(s, a)
<1>1. d.authentication.status = "loggingIn" => Has(q, "authenticate")
  BY DEF Served, Dispatch, Authentication, LoggedOut, LoggedIn
<1>2. ~StorageFails /\ d.registration => Has(q, "register")
  BY DEF Served, Dispatch, Registration
<1>3. d.users = UsersList(s.users, a)
  BY DEF Dispatch
<1>4. d.users.phase = "loading" => Has(q, "getAll")
  BY <1>3 DEF Served, UsersList, UsersThrows, NotLoaded, Loaded
<1>5. ASSUME ~StorageFails, NEW r \in UsersList(s.users, a).items, r.mark = "deleting"
      PROVE  HasDelete(q, r.id)
  <2>1. \A rr \in s.users.items : rr.mark = "deleting" => HasDelete(q, rr.id)
    BY <1>5 DEF Served
  <2> DEFINE rows == s.users.items
  <2>7. rows \in SUBSET Row
    BY DEF StoreState, ListState
  <2> HIDE DEF rows
  <2>2. CASE r \in s.users.items
    BY <1>5, <2>1, <2>2
  <2>3. CASE a.type = "DELETE_REQUEST" /\ r \in Marked(rows, a.id, "deleting")
    <3>1. PICK row \in rows : /\ r.id = row.id
                              /\ r.mark = IF row.id = a.id THEN "deleting" ELSE row.mark
      BY <2>3, <2>7, MarkedRows
    <3>2. CASE row.id = a.id
      BY <2>3, <3>1, <3>2
    <3>3. CASE row.id # a.id
      BY <1>5, <2>1, <3>1, <3>3 DEF rows
    <3> QED  BY <3>2, <3>3
  <2>4. CASE a.type = "DELETE_SUCCESS"
    BY <1>5, <2>1, <2>4 DEF UsersList, UsersThrows, Loaded
  <2>5. CASE a.type = "DELETE_FAILURE" /\ r \in Marked(rows, a.id, "failed")
    <3>1. PICK row \in rows : /\ r.id = row.id
                              /\ r.mark = IF row.id = a.id THEN "failed" ELSE row.mark
      BY <2>5, <2>7, MarkedRows
    <3> QED  BY <1>5, <2>1, <3>1 DEF rows
  <2>6. CASE a.type \in {"GETALL_REQUEST", "GETALL_SUCCESS", "GETALL_FAILURE"}
    <3>1. UsersList(s.users, a).items \in {{}, { RowOf(u) : u \in a.users }}
      BY <2>6 DEF UsersList, UsersThrows, Loaded, NotLoaded
    <3>2. \A u : RowOf(u).mark = "none"
      BY DEF RowOf
    <3> QED  BY <1>5, <3>1, <3>2
  <2> QED  BY <1>5, <2>2, <2>3, <2>4, <2>5, <2>6 DEF UsersList, Loaded, rows
<1> QED  BY <1>1, <1>2, <1>3, <1>4, <1>5 DEF Served

\* The reducer that waits for the request that leaves the queue waits no longer.
LEMMA AnswerServed ==
    ASSUME NEW s \in StoreState, NEW q \in Seq(Request), q # <<>>, Served(s, q), NEW a,
           \/ /\ Head(q).route = "authenticate"
              /\ a.type \in {"LOGIN_SUCCESS", "LOGIN_FAILURE"}
           \/ /\ Head(q).route = "register"
              /\ a.type \in {"REGISTER_SUCCESS", "REGISTER_FAILURE"}
           \/ /\ Head(q).route = "getAll"
              /\ a.type \in {"GETALL_SUCCESS", "GETALL_FAILURE"}
           \/ /\ Head(q).route = "delete"
              /\ a.type \in {"DELETE_SUCCESS", "DELETE_FAILURE"}
              /\ a.id = Head(q).id
    PROVE  Served(Dispatch(s, a), Tail(q))
<1> DEFINE d == Dispatch(s, a)
           h == Head(q)
<1>1. Served(d, q)
  BY DispatchServed
<1>2. /\ \A route : Has(q, route) /\ h.route # route => Has(Tail(q), route)
      /\ \A id : HasDelete(q, id) /\ ~(h.route = "delete" /\ h.id = id) => HasDelete(Tail(q), id)
  BY TailHas
<1>3. h.route = "authenticate" => d.authentication.status # "loggingIn"
  BY DEF Dispatch, Authentication, LoggedOut, LoggedIn
<1>4. h.route = "register" => ~d.registration
  BY DEF Dispatch, Registration
<1>5. h.route = "getAll" => d.users.phase # "loading"
  BY DEF Dispatch, UsersList, UsersThrows, NotLoaded, Loaded
<1>6. ASSUME h.route = "delete", NEW r \in d.users.items, r.mark = "deleting"
      PROVE  r.id # h.id
  <2>1. a.type \in {"DELETE_SUCCESS", "DELETE_FAILURE"} /\ a.id = h.id
    BY <1>6
  <2>2. d.users = UsersList(s.users, a)
    BY DEF Dispatch
  <2>3. CASE s.users.phase # "loaded"
    <3>1. d.users = s.users
      BY <2>1, <2>2, <2>3 DEF UsersList, UsersThrows
    <3>2. s.users.items = {}
      BY <2>3 DEF StoreState, ListState
    <3> QED  BY <1>6, <3>1, <3>2
  <2>4. CASE s.users.phase = "loaded" /\ a.type = "DELETE_SUCCESS"
    BY <1>6, <2>1, <2>2, <2>4 DEF UsersList, UsersThrows, Loaded
  <2>5. CASE s.users.phase = "loaded" /\ a.type = "DELETE_FAILURE"
    <3> DEFINE rows == s.users.items
               id == h.id
    <3>1. rows \in SUBSET Row
      BY DEF StoreState, ListState
    <3>2. r \in Marked(rows, id, "failed")
      BY <1>6, <2>1, <2>2, <2>5 DEF UsersList, UsersThrows, Loaded
    <3>3. r.id # id
      BY <1>6, <3>1, <3>2, FailedRow
    <3> QED  BY <3>3 DEF id
  <2> QED  BY <2>1, <2>3, <2>4, <2>5
<1> HIDE DEF d, h
<1>7. /\ d.authentication.status = "loggingIn" => Has(Tail(q), "authenticate")
      /\ ~StorageFails /\ d.registration => Has(Tail(q), "register")
      /\ d.users.phase = "loading" => Has(Tail(q), "getAll")
  BY <1>1, <1>2, <1>3, <1>4, <1>5 DEF Served
<1>8. ~StorageFails => \A r \in d.users.items : r.mark = "deleting" => HasDelete(Tail(q), r.id)
  BY <1>1, <1>2, <1>6 DEF Served
<1> QED  BY <1>7, <1>8 DEF Served, d

\* A write that throws leaves only spinners of registrations and deletions behind.
LEMMA DropServed ==
    ASSUME StorageFails, NEW s, NEW q \in Seq(Request), q # <<>>, Served(s, q),
           Head(q).route \in {"register", "delete"}
    PROVE  Served(s, Tail(q))
<1>1. \A route \in {"authenticate", "getAll"} : Has(q, route) => Has(Tail(q), route)
  BY TailHas
<1> QED  BY <1>1 DEF Served

-----------------------------------------------------------------------------
(***************************************************************************)
(* What the router does to a tab.                                          *)
(***************************************************************************)
LEMMA RenderedServed ==
    ASSUME NEW old, NEW p, NEW u, NEW s \in StoreState, NEW q \in Seq(Request),
           Served(s, q)
    PROVE  Served(Rendered(old, p, u, s, q).store, Rendered(old, p, u, s, q).timers)
<1> DEFINE d  == Destination(p, u)
           s1 == IF d = p THEN s ELSE Dispatch(s, [type |-> "ALERT_CLEAR"])
<1>1. s1 \in StoreState /\ Served(s1, q)
  BY DispatchServed, DispatchType DEF AnAction
<1>2. GetAll(u) \in Request /\ GetAll(u).route = "getAll"
  BY RequestType DEF GetAll
<1> HIDE DEF d, s1
<1>3. Served(LoginPageMounted(u, s1, q).store, LoginPageMounted(u, s1, q).timers)
  BY <1>1, DispatchServed DEF LoginPageMounted, Shown
<1>4. Served(HomePageMounted(u, s1, q).store, HomePageMounted(u, s1, q).timers)
  <2> DEFINE longer == Append(q, GetAll(u))
  <2>1. Served(s1, longer) /\ Has(longer, "getAll")
    BY <1>1, <1>2, AppendServed, AppendHas
  <2> HIDE DEF longer
  <2> DEFINE a == [type |-> "GETALL_REQUEST"]
  <2>2. /\ a.type = "GETALL_REQUEST"
        /\ Has(longer, "getAll")
    BY <2>1
  <2> HIDE DEF a
  <2>3. Served(Dispatch(s1, a), longer)
    BY <1>1, <2>1, <2>2, DispatchServed
  <2> QED  BY <2>3 DEF HomePageMounted, Shown, longer, a
<1>5. \A pg, pth : /\ Served(Shown(pg, pth, u, s1, q).store, Shown(pg, pth, u, s1, q).timers)
                   /\ Served(Shown(pg, pth, u, s, q).store, Shown(pg, pth, u, s, q).timers)
  BY <1>1 DEF Shown
<1> QED  BY <1>3, <1>4, <1>5 DEF Rendered, d, s1

LEMMA MovedServed ==
    ASSUME NEW s \in StoreState, NEW q, Served(s, q)
    PROVE  Served(Moved(s), q)
BY DispatchServed DEF Moved

-----------------------------------------------------------------------------
(***************************************************************************)
(* Each step keeps every tab's spinners served.                            *)
(***************************************************************************)
Serving == \A t \in Tabs : Served(store[t], timers[t])

LEMMA TabServed ==
    ASSUME TypeOK, Serving, NEW t \in Tabs, NEW s, NEW q, Served(s, q),
           store' = [store EXCEPT ![t] = s], timers' = [timers EXCEPT ![t] = q]
    PROVE  Serving'
<1>1. /\ store'[t] = s /\ timers'[t] = q
      /\ \A u \in Tabs : u # t => store'[u] = store[u] /\ timers'[u] = timers[u]
  BY DEF TypeOK
<1> QED  BY <1>1 DEF Serving

LEMMA ShowServed ==
    ASSUME TypeOK, Serving, NEW t \in Tabs, NEW v, Served(v.store, v.timers), Show(t, v)
    PROVE  Serving'
BY TabServed DEF Show

LEMMA StayServed ==
    ASSUME TypeOK, Serving, NEW t \in Tabs, NEW s, NEW q, Served(s, q), Stay(t, s, q)
    PROVE  Serving'
BY TabServed DEF Stay

LEMMA PushServed ==
    ASSUME TypeOK, Serving, NEW t \in Tabs, NEW p, NEW u, NEW s \in StoreState,
           NEW q \in Seq(Request), Served(s, q), Push(t, p, u, s, q)
    PROVE  Serving'
<1> DEFINE r == Rendered(page[t], p, u, Moved(s), q)
<1>1. Served(r.store, r.timers)
  BY MovedServed, MovedType, RenderedServed
<1>2. Show(t, r)
  BY DEF Push
<1> HIDE DEF r
<1> QED  BY <1>1, <1>2, ShowServed

LEMMA LoadServed ==
    ASSUME TypeOK, Serving, NEW t \in Tabs, NEW h, NEW i, Load(t, h, i)
    PROVE  Serving'
<1> DEFINE s == InitialStore(storedUser)
           r == Rendered("closed", h[i], storedUser, s, <<>>)
<1>1. s \in StoreState
  BY InitialStoreType DEF TypeOK
<1>2. Served(s, <<>>)
  BY DEF InitialStore, Served, LoggedOut, LoggedIn, NotLoaded
<1>3. <<>> \in Seq(Request)
  OBVIOUS
<1> HIDE DEF s
<1>4. Served(r.store, r.timers)
  BY <1>1, <1>2, <1>3, RenderedServed
<1>5. Show(t, r)
  BY DEF Load, s
<1> HIDE DEF r
<1> QED  BY <1>4, <1>5, ShowServed

LEMMA TraverseServed ==
    ASSUME TypeOK, Serving, NEW t \in Tabs, NEW i, Traverse(t, i)
    PROVE  Serving'
<1> DEFINE s == Moved(store[t])
           before == IF Evicted(t) THEN LoginPageMounted(storedUser, s, timers[t])
                     ELSE Shown(page[t], "/", storedUser, s, timers[t])
           r == Rendered(before.page, hist[t][i], storedUser, before.store, timers[t])
<1>1. s \in StoreState /\ timers[t] \in Seq(Request)
  BY MovedType DEF TypeOK
<1>2. Served(s, timers[t])
  BY MovedServed DEF Serving, TypeOK
<1>3. before.store \in StoreState
  BY <1>1, LoginPageMountedType DEF View, Shown
<1>4. Served(before.store, timers[t])
  <2>1. Served(Dispatch(s, [type |-> "LOGOUT"]), timers[t])
    BY <1>1, <1>2, DispatchServed
  <2> QED  BY <1>2, <2>1 DEF LoginPageMounted, Shown
<1> HIDE DEF before
<1>5. Served(r.store, r.timers)
  BY <1>1, <1>3, <1>4, RenderedServed
<1>6. Show(t, r)
  BY DEF Traverse, before
<1> HIDE DEF r
<1> QED  BY <1>5, <1>6, ShowServed

LEMMA UserActionServed ==
    ASSUME TypeOK, Serving, NEW t \in Tabs,
           \/ ClickLink(t)
           \/ \E n \in Names, pw \in Passwords : SubmitLogin(t, n, pw) \/ SubmitRegister(t, n, pw)
           \/ \E row \in store[t].users.items : ClickDelete(t, row)
    PROVE  Serving'
<1>1. store[t] \in StoreState /\ timers[t] \in Seq(Request) /\ Served(store[t], timers[t])
  BY DEF TypeOK, Serving
<1>2. CASE ClickLink(t)
  BY <1>1, <1>2, PushServed DEF ClickLink, Link
<1>3. ASSUME NEW r \in Request, NEW a, Stay(t, Dispatch(store[t], a), Append(timers[t], r)),
             a.type = "LOGIN_REQUEST" => r.route = "authenticate",
             a.type = "REGISTER_REQUEST" => r.route = "register",
             a.type = "DELETE_REQUEST" => r.route = "delete" /\ r.id = a.id,
             a.type # "GETALL_REQUEST"
      PROVE  Serving'
  <2> DEFINE q == Append(timers[t], r)
  <2>1. Served(store[t], q) /\ Has(q, r.route) /\ (r.route = "delete" => HasDelete(q, r.id))
    BY <1>1, AppendServed, AppendHas
  <2> HIDE DEF q
  <2>2. Served(Dispatch(store[t], a), q)
    BY <1>1, <1>3, <2>1, DispatchServed
  <2> QED  BY <1>3, <2>2, StayServed DEF q
<1>4. ASSUME NEW n \in Names, NEW pw \in Passwords, SubmitLogin(t, n, pw)  PROVE Serving'
  <2> DEFINE a == [type |-> "LOGIN_REQUEST", name |-> n]
             r == Authenticate(n, pw)
  <2>1. a.type = "LOGIN_REQUEST" /\ r \in Request /\ r.route = "authenticate"
    BY RequestType DEF Authenticate
  <2>2. Stay(t, Dispatch(store[t], a), Append(timers[t], r))
    BY <1>4 DEF SubmitLogin
  <2> HIDE DEF a, r
  <2> QED  BY <1>3, <2>1, <2>2
<1>5. ASSUME NEW n \in Names, NEW pw \in Passwords, SubmitRegister(t, n, pw)  PROVE Serving'
  <2> DEFINE a == [type |-> "REGISTER_REQUEST"]
             r == Register(n, pw)
  <2>1. a.type = "REGISTER_REQUEST" /\ r \in Request /\ r.route = "register"
    BY RequestType DEF Register
  <2>2. Stay(t, Dispatch(store[t], a), Append(timers[t], r))
    BY <1>5 DEF SubmitRegister
  <2> HIDE DEF a, r
  <2> QED  BY <1>3, <2>1, <2>2
<1>6. ASSUME NEW row \in store[t].users.items, ClickDelete(t, row)  PROVE Serving'
  <2> DEFINE a == [type |-> "DELETE_REQUEST", id |-> row.id]
             r == Delete(row.id, storedUser)
  <2>1. row.id \in AccountId
    BY <1>1 DEF StoreState, ListState, Row
  <2>2. /\ a.type = "DELETE_REQUEST" /\ r \in Request
        /\ r.route = "delete" /\ r.id = a.id
    BY <2>1, RequestType DEF Delete
  <2>3. Stay(t, Dispatch(store[t], a), Append(timers[t], r))
    BY <1>6 DEF ClickDelete
  <2> HIDE DEF a, r
  <2> QED  BY <1>3, <2>2, <2>3
<1> QED  BY <1>2, <1>4, <1>5, <1>6

LEMMA RerenderServed ==
    ASSUME TypeOK, Serving, NEW t \in Tabs, NEW s \in StoreState,
           NEW q \in Seq(Request), Served(s, q), Rerender(t, s, q)
    PROVE  Serving'
<1>1. CASE Evicted(t)
  <2> DEFINE r == LoginPageMounted(storedUser, Moved(s), q)
  <2>1. Served(Moved(s), q) /\ Moved(s) \in StoreState
    BY MovedServed, MovedType
  <2>2. Served(Dispatch(Moved(s), [type |-> "LOGOUT"]), q)
    BY <2>1, DispatchServed
  <2>3. Served(r.store, r.timers)
    BY <2>2 DEF LoginPageMounted, Shown
  <2>4. Show(t, r)
    BY <1>1 DEF Rerender
  <2> HIDE DEF r
  <2> QED  BY <2>3, <2>4, ShowServed
<1>2. CASE ~Evicted(t)
  BY <1>2, StayServed DEF Rerender
<1> QED  BY <1>1, <1>2

LEMMA AnswerLoginServed ==
    ASSUME TypeOK, Serving, NEW t \in Tabs, AnswerLogin(t)
    PROVE  Serving'
<1> DEFINE q == timers[t]
<1>1. /\ store[t] \in StoreState /\ q \in Seq(Request) /\ Served(store[t], q)
      /\ q # <<>> /\ Head(q).route = "authenticate" /\ Tail(q) \in Seq(Request)
  BY HeadTailProperties DEF TypeOK, Serving, AnswerLogin, Firing
<1> HIDE DEF q
<1>2. ASSUME NEW a, a.type \in {"LOGIN_SUCCESS", "LOGIN_FAILURE"}
      PROVE  Served(Dispatch(store[t], a), Tail(q))
  BY <1>1, <1>2, AnswerServed
<1>3. ASSUME NEW acc \in users[t], LoginSucceeds(t, acc)  PROVE Serving'
  <2> DEFINE a == [type |-> "LOGIN_SUCCESS", user |-> SessionOf(acc)]
             s == Dispatch(store[t], a)
  <2>1. SessionOf(acc) \in Session
    BY DEF SessionOf, Session, Account, TypeOK, BackendTypeOK
  <2>2. s \in StoreState /\ Served(s, Tail(q))
    BY <1>1, <1>2, <2>1, DispatchType DEF AnAction
  <2>3. Push(t, "/", SessionOf(acc), s, Tail(q))
    BY <1>3 DEF LoginSucceeds, q
  <2> HIDE DEF s
  <2> QED  BY <1>1, <2>2, <2>3, PushServed
<1>4. ASSUME LoginFails(t)  PROVE Serving'
  <2> DEFINE s == Dispatch(store[t], [type |-> "LOGIN_FAILURE"])
             v == Shown("blank", "/", storedUser, s, Tail(q))
  <2>1. s \in StoreState /\ Served(s, Tail(q))
    BY <1>1, <1>2, DispatchType DEF AnAction
  <2> HIDE DEF s
  <2>2. Served(v.store, v.timers)
    BY <2>1 DEF Shown
  <2>3. Served(Dispatch(s, [type |-> "ALERT_ERROR"]), Tail(q))
    BY <2>1, DispatchServed
  <2>4. \/ Show(t, v)
        \/ Stay(t, Dispatch(s, [type |-> "ALERT_ERROR"]), Tail(q))
    BY <1>4 DEF LoginFails, s, q
  <2> HIDE DEF v
  <2> QED  BY <2>2, <2>3, <2>4, ShowServed, StayServed
<1> QED  BY <1>3, <1>4 DEF AnswerLogin, Matching

LEMMA AnswerRegisterServed ==
    ASSUME TypeOK, Serving, NEW t \in Tabs, AnswerRegister(t)
    PROVE  Serving'
<1> DEFINE q == timers[t]
<1>1. /\ store[t] \in StoreState /\ q \in Seq(Request) /\ Served(store[t], q)
      /\ q # <<>> /\ Head(q).route = "register" /\ Tail(q) \in Seq(Request)
  BY HeadTailProperties DEF TypeOK, Serving, AnswerRegister, Firing
<1> HIDE DEF q
<1>2. ASSUME NEW a, a.type \in {"REGISTER_SUCCESS", "REGISTER_FAILURE"}
      PROVE  Served(Dispatch(store[t], a), Tail(q))
  BY <1>1, <1>2, AnswerServed
<1>3. ASSUME Registered(t)  PROVE Serving'
  <2> DEFINE d == Dispatch(store[t], [type |-> "REGISTER_SUCCESS"])
             s == Moved(d)
             r == Rendered(page[t], "/login", storedUser, s, Tail(q))
             v == [r EXCEPT !.store = Dispatch(@, [type |-> "ALERT_SUCCESS"])]
  <2>1. d \in StoreState /\ Served(d, Tail(q))
    BY <1>1, <1>2, DispatchType DEF AnAction
  <2> HIDE DEF d
  <2>2. s \in StoreState /\ Served(s, Tail(q))
    BY <2>1, MovedServed, MovedType
  <2> HIDE DEF s
  <2>3. r \in View /\ Served(r.store, r.timers)
    BY <1>1, <2>2, RenderedServed, RenderedType DEF Path, TypeOK
  <2> HIDE DEF r
  <2>4. r.store \in StoreState
    BY <2>3 DEF View
  <2>5. Served(Dispatch(r.store, [type |-> "ALERT_SUCCESS"]), r.timers)
    BY <2>3, <2>4, DispatchServed
  <2>6. v.store = Dispatch(r.store, [type |-> "ALERT_SUCCESS"]) /\ v.timers = r.timers
    BY <2>3 DEF View
  <2>7. Show(t, v)
    BY <1>3 DEF Registered, r, s, d, q
  <2> HIDE DEF v
  <2> QED  BY <2>5, <2>6, <2>7, ShowServed
<1>4. ASSUME NEW s, s = Dispatch(Dispatch(store[t], [type |-> "REGISTER_FAILURE"]), [type |-> "ALERT_ERROR"]),
             Rerender(t, s, Tail(q))
      PROVE  Serving'
  <2> DEFINE d == Dispatch(store[t], [type |-> "REGISTER_FAILURE"])
  <2>1. d \in StoreState /\ Served(d, Tail(q))
    BY <1>1, <1>2, DispatchType DEF AnAction
  <2> HIDE DEF d
  <2>2. s \in StoreState /\ Served(s, Tail(q))
    BY <1>4, <2>1, DispatchServed, DispatchType DEF AnAction, d
  <2> QED  BY <1>1, <1>4, <2>2, RerenderServed
<1>5. ASSUME StorageFails, Stay(t, store[t], Tail(q))  PROVE Serving'
  BY <1>1, <1>5, DropServed, StayServed
<1> QED  BY <1>3, <1>4, <1>5 DEF AnswerRegister, SetItemOutcomes, q

LEMMA AnswerGetAllServed ==
    ASSUME TypeOK, Serving, NEW t \in Tabs, AnswerGetAll(t)
    PROVE  Serving'
<1> DEFINE q == timers[t]
           a == IF Head(q).token THEN [type |-> "GETALL_SUCCESS", users |-> users[t]]
                                 ELSE [type |-> "GETALL_FAILURE"]
<1>1. /\ store[t] \in StoreState /\ q \in Seq(Request) /\ Served(store[t], q)
      /\ q # <<>> /\ Head(q).route = "getAll"
  BY DEF TypeOK, Serving, AnswerGetAll, Firing
<1>2. a.type \in {"GETALL_SUCCESS", "GETALL_FAILURE"}
  OBVIOUS
<1>3. Stay(t, Dispatch(store[t], a), Tail(q))
  BY DEF AnswerGetAll
<1> HIDE DEF q, a
<1>4. Served(Dispatch(store[t], a), Tail(q))
  BY <1>1, <1>2, AnswerServed
<1> QED  BY <1>3, <1>4, StayServed

LEMMA AnswerDeleteServed ==
    ASSUME TypeOK, Serving, NEW t \in Tabs, AnswerDelete(t)
    PROVE  Serving'
<1> DEFINE q == timers[t]
           a(type) == [type |-> type, id |-> Head(q).id]
<1>1. /\ store[t] \in StoreState /\ q \in Seq(Request) /\ Served(store[t], q)
      /\ q # <<>> /\ Head(q).route = "delete"
  BY DEF TypeOK, Serving, AnswerDelete, Firing
<1>2. \/ Stay(t, Dispatch(store[t], a("DELETE_SUCCESS")), Tail(q))
      \/ Stay(t, Dispatch(store[t], a("DELETE_FAILURE")), Tail(q))
      \/ StorageFails /\ Stay(t, store[t], Tail(q))
  BY DEF AnswerDelete, SetItemOutcomes
<1>3. \A type : a(type).type = type /\ a(type).id = Head(q).id
  OBVIOUS
<1> HIDE DEF q, a
<1>4. /\ Served(Dispatch(store[t], a("DELETE_SUCCESS")), Tail(q))
      /\ Served(Dispatch(store[t], a("DELETE_FAILURE")), Tail(q))
  BY <1>1, <1>3, AnswerServed
<1>5. StorageFails => Served(store[t], Tail(q))
  BY <1>1, DropServed
<1> QED  BY <1>2, <1>4, <1>5, StayServed

LEMMA ServingStep == TypeOK /\ Serving /\ [Next]_vars => Serving'
<1> SUFFICES ASSUME TypeOK, Serving, [Next]_vars  PROVE Serving'
  OBVIOUS
<1>1. ASSUME NEW t \in Tabs, (\E p \in Path : Open(t, p)) \/ Reload(t)  PROVE Serving'
  BY <1>1, LoadServed DEF Open, Reload
<1>2. ASSUME NEW t \in Tabs, \E i \in DOMAIN hist[t] : Traverse(t, i)  PROVE Serving'
  BY <1>2, TraverseServed
<1>3. ASSUME NEW t \in Tabs,
             \/ ClickLink(t)
             \/ \E n \in Names, pw \in Passwords : SubmitLogin(t, n, pw)
             \/ \E n \in Names, pw \in Passwords : SubmitRegister(t, n, pw)
             \/ \E row \in store[t].users.items : ClickDelete(t, row)
      PROVE  Serving'
  BY <1>3, UserActionServed
<1>4. ASSUME NEW t \in Tabs,
             AnswerLogin(t) \/ AnswerRegister(t) \/ AnswerGetAll(t) \/ AnswerDelete(t)
      PROVE  Serving'
  BY <1>4, AnswerLoginServed, AnswerRegisterServed, AnswerGetAllServed, AnswerDeleteServed
<1>5. ASSUME UNCHANGED vars  PROVE Serving'
  BY <1>5 DEF vars, Serving
<1> QED  BY <1>1, <1>2, <1>3, <1>4, <1>5 DEF Next

LEMMA ServingAlways == Spec => [](TypeOK /\ Serving)
<1>1. Init => Serving
  BY DEF Init, Serving, Served, InitialStore, LoggedOut, NotLoaded
<1> QED  BY <1>1, ServingStep, TypeCorrect, PTL DEF Spec

\* When writes to localStorage succeed, no spinner outlives its request: in any number of
\* tabs, with any number of requests in flight in any order, through redirects, evictions
\* and reloads.
THEOREM SpinnersAreServed ==
    ASSUME ~StorageFails
    PROVE  Spec => []SpinnersHaveRequests
<1>1. TypeOK /\ Serving => SpinnersHaveRequests
  BY ServedIsSpinners DEF Serving
<1> QED  BY <1>1, ServingAlways, PTL

\* The login spinner and "Loading users..." do not even when writes throw: no write stands
\* between those requests and their answers.
THEOREM ReadSpinnersAreServed == Spec => []ReadSpinnersHaveRequests
<1>1. TypeOK /\ Serving => ReadSpinnersHaveRequests
  BY ServedIsSpinners DEF Serving
<1> QED  BY <1>1, ServingAlways, PTL

-----------------------------------------------------------------------------
(***************************************************************************)
(* ListIsCurrent, tab by tab: with page pg, list l and accounts S.  It     *)
(* goes through every step because HomePage is only ever entered by        *)
(* mounting it, which starts a new request, and because the only change    *)
(* of a tab's array that is answered on HomePage is a deletion.            *)
(***************************************************************************)
Entries(rows) == { [id |-> r.id, name |-> r.name] : r \in rows }

ListFits(pg, l, S) ==
    pg = "HomePage" /\ l.phase = "loaded" => Entries(l.items) = { SessionOf(a) : a \in S }

OthersKeepUsers(t) == \A u \in Tabs : u # t => users'[u] = users[u]

LEMMA TabCurrent ==
    ASSUME TypeOK, ListIsCurrent, NEW t \in Tabs, OthersKeepUsers(t),
           ListFits(page'[t], store'[t].users, users'[t]),
           \A u \in Tabs : u # t => page'[u] = page[u] /\ store'[u] = store[u]
    PROVE  ListIsCurrent'
BY DEF ListIsCurrent, ListFits, Entries, OthersKeepUsers

\* Other slices' actions leave the list alone.
LEMMA OtherSlices ==
    ASSUME NEW s, NEW a,
           a.type \notin {"GETALL_REQUEST", "GETALL_SUCCESS", "GETALL_FAILURE",
                          "DELETE_REQUEST", "DELETE_SUCCESS", "DELETE_FAILURE"}
    PROVE  Dispatch(s, a).users = s.users
BY DEF Dispatch, UsersList, UsersThrows

LEMMA MarkedEntries ==
    ASSUME NEW rows \in SUBSET Row, NEW id, NEW m \in {"none", "deleting", "failed"}
    PROVE  Entries(Marked(rows, id, m)) = Entries(rows)
<1>1. \A r \in Marked(rows, id, m) : \E row \in rows : r.id = row.id /\ r.name = row.name
  <2> SUFFICES ASSUME NEW r \in Marked(rows, id, m)
               PROVE  \E row \in rows : r.id = row.id /\ r.name = row.name
    OBVIOUS
  <2>1. PICK row \in rows :
                /\ r.id = row.id /\ r.name = row.name
                /\ r.mark = IF row.id = id THEN m ELSE row.mark
    BY MarkedRows
  <2> QED  BY <2>1
<1>2. \A row \in rows : \E r \in Marked(rows, id, m) : r.id = row.id /\ r.name = row.name
  <2> SUFFICES ASSUME NEW row \in rows
               PROVE  \E r \in Marked(rows, id, m) : r.id = row.id /\ r.name = row.name
    OBVIOUS
  <2> DEFINE r == IF row.id = id THEN [row EXCEPT !.mark = m] ELSE row
  <2>1. row \in Row
    OBVIOUS
  <2>2. r.id = row.id /\ r.name = row.name
    BY <2>1 DEF Row
  <2>3. r \in Marked(rows, id, m)
    BY DEF Marked
  <2> HIDE DEF r
  <2> QED  BY <2>2, <2>3
<1> QED  BY <1>1, <1>2 DEF Entries

\* The router shows a loaded list only where HomePage was there before.
LEMMA RenderedCurrent ==
    ASSUME NEW old, NEW p \in Path, NEW u, NEW s, NEW q, NEW S, ListFits(old, s.users, S)
    PROVE  ListFits(Rendered(old, p, u, s, q).page, Rendered(old, p, u, s, q).store.users, S)
<1> DEFINE d  == Destination(p, u)
           s1 == IF d = p THEN s ELSE Dispatch(s, [type |-> "ALERT_CLEAR"])
           r  == Rendered(old, p, u, s, q)
<1>1. s1.users = s.users
  BY OtherSlices
<1>2. d \in Path \ {"*"}
  BY DEF Destination, Path
<1> HIDE DEF d, s1
<1>3. LoginPageMounted(u, s1, q).page = "LoginPage"
  BY DEF LoginPageMounted, Shown
<1>4. HomePageMounted(u, s1, q).store.users.phase = "loading"
  BY DEF HomePageMounted, Shown, Dispatch, UsersList, UsersThrows, NotLoaded
<1>5. \A pth, ss : Shown("blank", pth, u, ss, q).page = "blank"
  BY DEF Shown
<1>6. /\ Shown(PageOf(d), d, u, s1, q).page = PageOf(d)
      /\ Shown(PageOf(d), d, u, s1, q).store = s1
  BY DEF Shown
<1>7. PageOf(d) = "HomePage" => d = "/"
  BY <1>2 DEF PageOf, Path
<1>8. PageOf("/") = "HomePage"
  BY DEF PageOf
<1>9. \/ r.page # "HomePage"
      \/ r.store.users.phase = "loading"
      \/ r.page = "HomePage" /\ r.store = s1 /\ old = "HomePage"
  BY <1>3, <1>4, <1>5, <1>6, <1>7, <1>8 DEF Rendered, d, s1
<1> HIDE DEF r
<1>10. ListFits(r.page, r.store.users, S)
  BY <1>1, <1>9 DEF ListFits
<1> QED  BY <1>10 DEF r

LEMMA ShowCurrent ==
    ASSUME TypeOK, ListIsCurrent, NEW t \in Tabs, OthersKeepUsers(t), NEW v, Show(t, v),
           ListFits(v.page, v.store.users, users'[t])
    PROVE  ListIsCurrent'
<1>1. /\ page'[t] = v.page /\ store'[t] = v.store
      /\ \A u \in Tabs : u # t => page'[u] = page[u] /\ store'[u] = store[u]
  BY DEF Show, TypeOK
<1> QED  BY <1>1, TabCurrent

LEMMA StayCurrent ==
    ASSUME TypeOK, ListIsCurrent, NEW t \in Tabs, OthersKeepUsers(t), NEW s, NEW q,
           Stay(t, s, q), ListFits(page[t], s.users, users'[t])
    PROVE  ListIsCurrent'
<1>1. /\ page'[t] = page[t] /\ store'[t] = s
      /\ \A u \in Tabs : u # t => page'[u] = page[u] /\ store'[u] = store[u]
  BY DEF Stay, TypeOK
<1> QED  BY <1>1, TabCurrent

LEMMA PushCurrent ==
    ASSUME TypeOK, ListIsCurrent, NEW t \in Tabs, UNCHANGED backendVars,
           NEW p \in Path, NEW u, NEW s, NEW q, s.users = store[t].users, Push(t, p, u, s, q)
    PROVE  ListIsCurrent'
<1> DEFINE r == Rendered(page[t], p, u, Moved(s), q)
<1>1. Moved(s).users = store[t].users
  BY OtherSlices DEF Moved
<1>2. OthersKeepUsers(t) /\ ListFits(page[t], Moved(s).users, users'[t])
  BY <1>1 DEF ListIsCurrent, ListFits, Entries, OthersKeepUsers, backendVars
<1>3. ListFits(r.page, r.store.users, users'[t])
  BY <1>2, RenderedCurrent
<1>4. Show(t, r)
  BY DEF Push
<1> HIDE DEF r
<1> QED  BY <1>2, <1>3, <1>4, ShowCurrent

LEMMA LoadCurrent ==
    ASSUME TypeOK, ListIsCurrent, NEW t \in Tabs, NEW h \in Seq(Path), NEW i \in 1 .. Len(h),
           Load(t, h, i)
    PROVE  ListIsCurrent'
<1> DEFINE r == Rendered("closed", h[i], storedUser, InitialStore(storedUser), <<>>)
<1>1. h[i] \in Path
  BY ElementOfSeq
<1>2. ListFits("closed", InitialStore(storedUser).users, users'[t])
  BY DEF ListFits
<1>3. ListFits(r.page, r.store.users, users'[t])
  BY <1>1, <1>2, RenderedCurrent
<1>4. Show(t, r) /\ OthersKeepUsers(t)
  BY DEF Load, LoadUsers, Overwrite, OthersKeepUsers, TypeOK, BackendTypeOK
<1> HIDE DEF r
<1> QED  BY <1>3, <1>4, ShowCurrent

LEMMA TraverseCurrent ==
    ASSUME TypeOK, ListIsCurrent, NEW t \in Tabs, NEW i, Traverse(t, i)
    PROVE  ListIsCurrent'
<1> DEFINE s == Moved(store[t])
           before == IF Evicted(t) THEN LoginPageMounted(storedUser, s, timers[t])
                     ELSE Shown(page[t], "/", storedUser, s, timers[t])
           p == hist[t][i]
           r == Rendered(before.page, p, storedUser, before.store, timers[t])
<1>1. p \in Path
  BY ElementOfSeq DEF Traverse, TypeOK
<1>2. s.users = store[t].users
  BY OtherSlices DEF Moved
<1>3. OthersKeepUsers(t) /\ ListFits(page[t], s.users, users'[t])
  BY <1>2 DEF ListIsCurrent, ListFits, Entries, OthersKeepUsers, backendVars, Traverse
<1>4. ListFits(before.page, before.store.users, users'[t])
  BY <1>3 DEF LoginPageMounted, Shown, ListFits
<1> HIDE DEF before, p
<1>5. ListFits(r.page, r.store.users, users'[t])
  BY <1>1, <1>4, RenderedCurrent
<1>6. Show(t, r)
  BY DEF Traverse, before, p
<1> HIDE DEF r
<1> QED  BY <1>3, <1>5, <1>6, ShowCurrent

\* The tab's array and the list's entries stay, or the tab is not on HomePage.
LEMMA SameEntries ==
    ASSUME TypeOK, ListIsCurrent, NEW t \in Tabs, UNCHANGED backendVars, NEW s, NEW q, Stay(t, s, q),
           page[t] = "HomePage" /\ s.users.phase = "loaded" =>
              /\ store[t].users.phase = "loaded"
              /\ Entries(s.users.items) = Entries(store[t].users.items)
    PROVE  ListIsCurrent'
<1>1. OthersKeepUsers(t) /\ ListFits(page[t], s.users, users'[t])
  BY DEF ListIsCurrent, ListFits, Entries, OthersKeepUsers, backendVars
<1> QED  BY <1>1, StayCurrent

LEMMA UserActionCurrent ==
    ASSUME TypeOK, ListIsCurrent, NEW t \in Tabs,
           \/ ClickLink(t)
           \/ \E n \in Names, pw \in Passwords : SubmitLogin(t, n, pw) \/ SubmitRegister(t, n, pw)
           \/ \E row \in store[t].users.items : ClickDelete(t, row)
    PROVE  ListIsCurrent'
<1>1. CASE ClickLink(t)
  BY <1>1, PushCurrent DEF ClickLink, Link, Path
<1>2. ASSUME NEW n \in Names, NEW pw \in Passwords, SubmitLogin(t, n, pw)  PROVE ListIsCurrent'
  <2> DEFINE s == Dispatch(store[t], [type |-> "LOGIN_REQUEST", name |-> n])
  <2>1. s.users = store[t].users
    BY OtherSlices
  <2>2. Stay(t, s, Append(timers[t], Authenticate(n, pw))) /\ UNCHANGED backendVars
    BY <1>2 DEF SubmitLogin
  <2> HIDE DEF s
  <2> QED  BY <2>1, <2>2, SameEntries
<1>3. ASSUME NEW n \in Names, NEW pw \in Passwords, SubmitRegister(t, n, pw)  PROVE ListIsCurrent'
  <2> DEFINE s == Dispatch(store[t], [type |-> "REGISTER_REQUEST"])
  <2>1. s.users = store[t].users
    BY OtherSlices
  <2>2. Stay(t, s, Append(timers[t], Register(n, pw))) /\ UNCHANGED backendVars
    BY <1>3 DEF SubmitRegister
  <2> HIDE DEF s
  <2> QED  BY <2>1, <2>2, SameEntries
<1>4. ASSUME NEW row \in store[t].users.items, ClickDelete(t, row)  PROVE ListIsCurrent'
  <2> DEFINE rows == store[t].users.items
             s == Dispatch(store[t], [type |-> "DELETE_REQUEST", id |-> row.id])
  <2>1. rows \in SUBSET Row
    BY DEF TypeOK, StoreState, ListState
  <2>2. store[t].users.phase = "loaded"
    BY <1>4 DEF TypeOK, StoreState, ListState
  <2>3. s.users.items = Marked(rows, row.id, "deleting")
    BY <2>2 DEF Dispatch, UsersList, UsersThrows, Loaded
  <2>4. Entries(s.users.items) = Entries(rows)
    BY <2>1, <2>3, MarkedEntries
  <2>5. Stay(t, s, Append(timers[t], Delete(row.id, storedUser))) /\ UNCHANGED backendVars
    BY <1>4 DEF ClickDelete
  <2> HIDE DEF s
  <2> QED  BY <2>2, <2>4, <2>5, SameEntries
<1> QED  BY <1>1, <1>2, <1>3, <1>4

LEMMA AnswerLoginCurrent ==
    ASSUME TypeOK, ListIsCurrent, NEW t \in Tabs, AnswerLogin(t)
    PROVE  ListIsCurrent'
<1>1. UNCHANGED backendVars
  BY DEF AnswerLogin
<1>2. ASSUME NEW acc \in users[t], LoginSucceeds(t, acc)  PROVE ListIsCurrent'
  <2> DEFINE s == Dispatch(store[t], [type |-> "LOGIN_SUCCESS", user |-> SessionOf(acc)])
  <2>1. s.users = store[t].users
    BY OtherSlices
  <2>2. Push(t, "/", SessionOf(acc), s, Tail(timers[t]))
    BY <1>2 DEF LoginSucceeds
  <2> HIDE DEF s
  <2> QED  BY <1>1, <2>1, <2>2, PushCurrent DEF Path
<1>3. ASSUME LoginFails(t)  PROVE ListIsCurrent'
  <2> DEFINE d == Dispatch(store[t], [type |-> "LOGIN_FAILURE"])
             s == Dispatch(d, [type |-> "ALERT_ERROR"])
             v == Shown("blank", "/", storedUser, d, Tail(timers[t]))
  <2>1. d.users = store[t].users /\ s.users = d.users
    BY OtherSlices
  <2>2. OthersKeepUsers(t) /\ ListFits(v.page, v.store.users, users'[t])
    BY <1>1 DEF OthersKeepUsers, backendVars, ListFits, Shown
  <2>3. Show(t, v) \/ Stay(t, s, Tail(timers[t]))
    BY <1>3 DEF LoginFails
  <2> HIDE DEF d, s, v
  <2> QED  BY <1>1, <2>1, <2>2, <2>3, ShowCurrent, SameEntries
<1> QED  BY <1>2, <1>3 DEF AnswerLogin, Matching

LEMMA AnswerRegisterCurrent ==
    ASSUME ~StorageFails, TypeOK, ListIsCurrent, NEW t \in Tabs, AnswerRegister(t)
    PROVE  ListIsCurrent'
<1> DEFINE h == Head(timers[t])
           q == Tail(timers[t])
<1>1. ASSUME Registered(t), OthersKeepUsers(t)  PROVE ListIsCurrent'
  <2> DEFINE s == Moved(Dispatch(store[t], [type |-> "REGISTER_SUCCESS"]))
             r == Rendered(page[t], "/login", storedUser, s, q)
             v == [r EXCEPT !.store = Dispatch(@, [type |-> "ALERT_SUCCESS"])]
  <2>1. r.page # "HomePage"
    BY DEF Rendered, Destination, LoginPageMounted, Shown, PageOf
  <2>2. r = [page |-> r.page, path |-> r.path, user |-> r.user, store |-> r.store, timers |-> r.timers]
    BY DEF Rendered, LoginPageMounted, HomePageMounted, Shown
  <2>3. Show(t, v)
    BY <1>1 DEF Registered
  <2> HIDE DEF r
  <2>4. v.page # "HomePage"
    BY <2>1, <2>2
  <2> HIDE DEF v
  <2>5. ListFits(v.page, v.store.users, users'[t])
    BY <2>4 DEF ListFits
  <2> QED  BY <1>1, <2>3, <2>5, ShowCurrent
<1>2. ASSUME UNCHANGED backendVars,
             Rerender(t, Dispatch(Dispatch(store[t], [type |-> "REGISTER_FAILURE"]),
                                  [type |-> "ALERT_ERROR"]), q)
      PROVE  ListIsCurrent'
  <2> DEFINE s == Dispatch(Dispatch(store[t], [type |-> "REGISTER_FAILURE"]), [type |-> "ALERT_ERROR"])
             v == LoginPageMounted(storedUser, Moved(s), q)
  <2>1. s.users = store[t].users
    BY OtherSlices
  <2>2. ListFits(v.page, v.store.users, users'[t]) /\ OthersKeepUsers(t)
    BY <1>2 DEF LoginPageMounted, Shown, ListFits, OthersKeepUsers, backendVars
  <2>3. Show(t, v) \/ Stay(t, s, q)
    BY <1>2 DEF Rerender
  <2> HIDE DEF s, v, q
  <2> QED  BY <1>2, <2>1, <2>2, <2>3, ShowCurrent, SameEntries
<1>3. ASSUME RegisterUser(t, h.name, h.pw, TRUE)  PROVE OthersKeepUsers(t)
  BY <1>3 DEF RegisterUser, Overwrite, OthersKeepUsers, TypeOK, BackendTypeOK
<1> QED  BY <1>1, <1>2, <1>3 DEF AnswerRegister, SetItemOutcomes

LEMMA AnswerGetAllCurrent ==
    ASSUME TypeOK, ListIsCurrent, NEW t \in Tabs, AnswerGetAll(t)
    PROVE  ListIsCurrent'
<1>1. OthersKeepUsers(t) /\ users'[t] = users[t]
  BY DEF AnswerGetAll, OthersKeepUsers, backendVars
<1>2. ASSUME NEW s, s = Dispatch(store[t], [type |-> "GETALL_SUCCESS", users |-> users[t]])
      PROVE  ListFits(page[t], s.users, users'[t])
  <2>1. s.users.items = { RowOf(a) : a \in users[t] }
    BY <1>2 DEF Dispatch, UsersList, UsersThrows, Loaded
  <2>2. \A a : [id |-> RowOf(a).id, name |-> RowOf(a).name] = SessionOf(a)
    BY DEF RowOf, SessionOf
  <2> QED  BY <1>1, <2>1, <2>2 DEF ListFits, Entries
<1>3. ASSUME NEW s, s = Dispatch(store[t], [type |-> "GETALL_FAILURE"])
      PROVE  ListFits(page[t], s.users, users'[t])
  BY <1>3 DEF Dispatch, UsersList, UsersThrows, NotLoaded, ListFits
<1> QED  BY <1>1, <1>2, <1>3, StayCurrent DEF AnswerGetAll

LEMMA AnswerDeleteCurrent ==
    ASSUME ~StorageFails, TypeOK, ListIsCurrent, NEW t \in Tabs, AnswerDelete(t)
    PROVE  ListIsCurrent'
<1> DEFINE id == Head(timers[t]).id
           l == store[t].users
           S(type) == Dispatch(store[t], [type |-> type, id |-> id])
<1>1. l \in ListState /\ l.items \in SUBSET Row
  BY DEF TypeOK, StoreState, ListState
<1>2. ASSUME DeleteUser(t, id, TRUE), Stay(t, S("DELETE_SUCCESS"), Tail(timers[t]))
      PROVE  ListIsCurrent'
  <2> DEFINE s == S("DELETE_SUCCESS")
  <2>1. OthersKeepUsers(t) /\ users'[t] = Without(users[t], id)
    BY <1>2 DEF DeleteUser, Overwrite, OthersKeepUsers, Without, backendVars, TypeOK, BackendTypeOK
  <2>2. CASE l.phase # "loaded"
    <3>1. s.users = l
      BY <2>2 DEF Dispatch, UsersList, UsersThrows
    <3>2. ListFits(page[t], s.users, users'[t])
      BY <2>2, <3>1 DEF ListFits
    <3> QED  BY <1>2, <2>1, <3>2, StayCurrent
  <2>3. CASE l.phase = "loaded" /\ page[t] = "HomePage"
    <3>1. s.users.items = { r \in l.items : r.id # id }
      BY <2>3 DEF Dispatch, UsersList, UsersThrows, Loaded
    <3>2. Entries(l.items) = { SessionOf(a) : a \in users[t] }
      BY <2>3 DEF ListIsCurrent, Entries
    <3>3. Entries({ r \in l.items : r.id # id }) = { e \in Entries(l.items) : e.id # id }
      BY DEF Entries
    <3>4. { SessionOf(a) : a \in Without(users[t], id) }
            = { e \in { SessionOf(a) : a \in users[t] } : e.id # id }
      BY DEF SessionOf, Without
    <3>5. ListFits(page[t], s.users, users'[t])
      BY <2>1, <3>1, <3>2, <3>3, <3>4 DEF ListFits
    <3> QED  BY <1>2, <2>1, <3>5, StayCurrent
  <2>4. CASE page[t] # "HomePage"
    BY <1>2, <2>1, <2>4, StayCurrent DEF ListFits
  <2> QED  BY <2>2, <2>3, <2>4
<1>3. ASSUME UNCHANGED backendVars, Stay(t, S("DELETE_FAILURE"), Tail(timers[t]))
      PROVE  ListIsCurrent'
  <2> DEFINE s == S("DELETE_FAILURE")
  <2>1. CASE l.phase # "loaded"
    <3>1. s.users = l
      BY <2>1 DEF Dispatch, UsersList, UsersThrows
    <3> HIDE DEF s
    <3> QED  BY <1>3, <3>1, SameEntries DEF s
  <2>2. CASE l.phase = "loaded"
    <3>1. s.users.items = Marked(l.items, id, "failed")
      BY <2>2 DEF Dispatch, UsersList, UsersThrows, Loaded
    <3>2. Entries(s.users.items) = Entries(l.items)
      BY <1>1, <3>1, MarkedEntries
    <3> HIDE DEF s
    <3> QED  BY <1>3, <2>2, <3>2, SameEntries DEF s
  <2> QED  BY <2>1, <2>2
<1> QED  BY <1>2, <1>3 DEF AnswerDelete, SetItemOutcomes

LEMMA ListStep ==
    ASSUME ~StorageFails
    PROVE  TypeOK /\ ListIsCurrent /\ [Next]_vars => ListIsCurrent'
<1> SUFFICES ASSUME TypeOK, ListIsCurrent, [Next]_vars  PROVE ListIsCurrent'
  OBVIOUS
<1>1. ASSUME NEW t \in Tabs, NEW p \in Path, Open(t, p)  PROVE ListIsCurrent'
  <2> DEFINE h == <<p>>
  <2>1. h \in Seq(Path) /\ 1 \in 1 .. Len(h)
    OBVIOUS
  <2>2. Load(t, h, 1)
    BY <1>1 DEF Open
  <2> HIDE DEF h
  <2> QED  BY <2>1, <2>2, LoadCurrent
<1>2. ASSUME NEW t \in Tabs, Reload(t)  PROVE ListIsCurrent'
  <2>1. hist[t] \in Seq(Path) /\ at[t] \in 1 .. Len(hist[t])
    BY <1>2 DEF Reload, TypeOK
  <2> QED  BY <1>2, <2>1, LoadCurrent DEF Reload
<1>3. ASSUME NEW t \in Tabs, \E i \in DOMAIN hist[t] : Traverse(t, i)  PROVE ListIsCurrent'
  BY <1>3, TraverseCurrent
<1>4. ASSUME NEW t \in Tabs,
             \/ ClickLink(t)
             \/ \E n \in Names, pw \in Passwords : SubmitLogin(t, n, pw)
             \/ \E n \in Names, pw \in Passwords : SubmitRegister(t, n, pw)
             \/ \E row \in store[t].users.items : ClickDelete(t, row)
      PROVE  ListIsCurrent'
  BY <1>4, UserActionCurrent
<1>5. ASSUME NEW t \in Tabs,
             AnswerLogin(t) \/ AnswerRegister(t) \/ AnswerGetAll(t) \/ AnswerDelete(t)
      PROVE  ListIsCurrent'
  BY <1>5, AnswerLoginCurrent, AnswerRegisterCurrent, AnswerGetAllCurrent, AnswerDeleteCurrent
<1>6. ASSUME UNCHANGED vars  PROVE ListIsCurrent'
  BY <1>6 DEF vars, ListIsCurrent
<1> QED  BY <1>1, <1>2, <1>3, <1>4, <1>5, <1>6 DEF Next

\* When writes succeed, a loaded list on HomePage is its tab's array of accounts, in every
\* tab: registrations and deletions that are answered late never make them differ.
THEOREM ListsAreCurrent ==
    ASSUME ~StorageFails
    PROVE  Spec => []ListIsCurrent
<1>1. Init => ListIsCurrent
  BY DEF Init, ListIsCurrent
<1>2. TypeOK /\ ListIsCurrent /\ [Next]_vars => ListIsCurrent'
  BY ListStep
<1> QED  BY <1>1, <1>2, TypeCorrect, PTL DEF Spec

-----------------------------------------------------------------------------
(***************************************************************************)
(* Alerts stay behind: a step that moves a tab shows it without an alert,  *)
(* or fires its registration.                                              *)
(***************************************************************************)
LEMMA RenderedAlert ==
    ASSUME NEW old, NEW p, NEW u, NEW s, s.alert = "none", NEW q
    PROVE  Rendered(old, p, u, s, q).store.alert = "none"
<1> DEFINE d  == Destination(p, u)
           s1 == IF d = p THEN s ELSE Dispatch(s, [type |-> "ALERT_CLEAR"])
<1>1. s1.alert = "none"
  BY DEF Dispatch, Alert
<1> HIDE DEF d, s1
<1>2. Dispatch(s1, [type |-> "GETALL_REQUEST"]).alert = "none" /\ Dispatch(s1, [type |-> "LOGOUT"]).alert = "none"
  BY <1>1 DEF Dispatch, Alert
<1>3. /\ HomePageMounted(u, s1, q).store.alert = "none"
      /\ LoginPageMounted(u, s1, q).store.alert = "none"
      /\ \A pg, path : Shown(pg, path, u, s1, q).store.alert = "none"
      /\ Shown("blank", p, u, s, q).store.alert = "none"
  BY <1>1, <1>2 DEF HomePageMounted, LoginPageMounted, Shown
<1> QED  BY <1>3, Zenon DEF Rendered, d, s1

LEMMA MovedAlert ==
    ASSUME NEW s
    PROVE  Moved(s).alert = "none"
BY DEF Moved, Dispatch, Alert

LEMMA LoginPageAlert ==
    ASSUME NEW u, NEW s, s.alert = "none", NEW q
    PROVE  LoginPageMounted(u, s, q).store.alert = "none"
BY DEF LoginPageMounted, Shown, Dispatch, Alert

\* A tab that has moved shows no alert, or that of its registration.
AlertLeft(t) ==
    <<hist[t], at[t]>>' # <<hist[t], at[t]>> =>
        \/ store'[t].alert = "none"
        \/ store'[t].alert = "success" /\ Firing(t, "register")

\* Steps of one tab, seen from every tab.
LEMMA ShowAlert ==
    ASSUME TypeOK, NEW t \in Tabs, NEW v, Show(t, v), v.store.alert = "none"
    PROVE  AlertLeft(t)
BY DEF Show, AlertLeft, TypeOK

LEMMA StayAlert ==
    ASSUME TypeOK, NEW t \in Tabs, UNCHANGED <<hist, at>>
    PROVE  AlertLeft(t)
BY DEF AlertLeft

LEMMA PushAlert ==
    ASSUME TypeOK, NEW t \in Tabs, NEW p, NEW u, NEW s, NEW q, Push(t, p, u, s, q)
    PROVE  AlertLeft(t)
<1>1. Rendered(page[t], p, u, Moved(s), q).store.alert = "none"
  BY MovedAlert, RenderedAlert
<1>2. Show(t, Rendered(page[t], p, u, Moved(s), q))
  BY DEF Push
<1> QED  BY <1>1, <1>2, ShowAlert

LEMMA LoadAlert ==
    ASSUME TypeOK, NEW t \in Tabs, NEW h, NEW i, Load(t, h, i)
    PROVE  AlertLeft(t)
<1>1. InitialStore(storedUser).alert = "none"
  BY DEF InitialStore
<1>2. Rendered("closed", h[i], storedUser, InitialStore(storedUser), <<>>).store.alert = "none"
  BY <1>1, RenderedAlert
<1>3. Show(t, Rendered("closed", h[i], storedUser, InitialStore(storedUser), <<>>))
  BY DEF Load
<1> QED  BY <1>2, <1>3, ShowAlert

LEMMA TraverseAlert ==
    ASSUME TypeOK, NEW t \in Tabs, NEW i, Traverse(t, i)
    PROVE  AlertLeft(t)
<1> DEFINE s == Moved(store[t])
           before == IF Evicted(t)
                       THEN LoginPageMounted(storedUser, s, timers[t])
                       ELSE Shown(page[t], "/", storedUser, s, timers[t])
           r == Rendered(before.page, hist[t][i], storedUser, before.store, timers[t])
<1>1. before.store.alert = "none"
  BY MovedAlert, LoginPageAlert DEF Shown
<1>2. r.store.alert = "none"
  BY <1>1, RenderedAlert
<1>3. Show(t, r)
  BY DEF Traverse
<1> QED  BY <1>2, <1>3, ShowAlert

LEMMA RerenderAlert ==
    ASSUME TypeOK, NEW t \in Tabs, NEW s, NEW q, Rerender(t, s, q)
    PROVE  AlertLeft(t)
<1>1. CASE Evicted(t)
  <2>1. Show(t, LoginPageMounted(storedUser, Moved(s), q))
    BY <1>1 DEF Rerender
  <2>2. LoginPageMounted(storedUser, Moved(s), q).store.alert = "none"
    BY MovedAlert, LoginPageAlert
  <2> QED  BY <2>1, <2>2, ShowAlert
<1>2. CASE ~Evicted(t)
  BY <1>2, StayAlert DEF Rerender, Stay
<1> QED  BY <1>1, <1>2

\* The move to the login page clears the alert, the alert of the success comes after it.
LEMMA RegisteredAlert ==
    ASSUME TypeOK, NEW t \in Tabs, Firing(t, "register"), Registered(t)
    PROVE  AlertLeft(t)
<1> DEFINE s == Moved(Dispatch(store[t], [type |-> "REGISTER_SUCCESS"]))
           r == Rendered(page[t], "/login", storedUser, s, Tail(timers[t]))
           v == [r EXCEPT !.store = Dispatch(@, [type |-> "ALERT_SUCCESS"])]
<1>1. Show(t, v)
  BY DEF Registered
<1>2. DOMAIN r = {"page", "path", "user", "store", "timers"}
  BY Zenon DEF Rendered, Shown, HomePageMounted, LoginPageMounted
<1> HIDE DEF r
<1>3. v.store = Dispatch(r.store, [type |-> "ALERT_SUCCESS"])
  BY <1>2
<1>4. Dispatch(r.store, [type |-> "ALERT_SUCCESS"]).alert = "success"
  BY DEF Dispatch, Alert
<1> HIDE DEF v
<1>5. store'[t].alert = "success"
  BY <1>1, <1>3, <1>4 DEF Show, TypeOK
<1> QED  BY <1>5 DEF AlertLeft

LEMMA AnswerAlert ==
    ASSUME TypeOK, NEW t \in Tabs,
           AnswerLogin(t) \/ AnswerRegister(t) \/ AnswerGetAll(t) \/ AnswerDelete(t)
    PROVE  AlertLeft(t)
<1>1. CASE AnswerLogin(t)
  <2>1. ASSUME NEW a, LoginSucceeds(t, a)  PROVE AlertLeft(t)
    BY <2>1, PushAlert DEF LoginSucceeds
  <2>2. ASSUME LoginFails(t)  PROVE AlertLeft(t)
    BY <2>2, StayAlert DEF LoginFails, Stay
  <2> QED  BY <1>1, <2>1, <2>2 DEF AnswerLogin
<1>2. CASE AnswerRegister(t)
  <2>1. ASSUME NEW s, NEW q, Rerender(t, s, q)  PROVE AlertLeft(t)
    BY <2>1, RerenderAlert
  <2>2. ASSUME NEW s, NEW q, Stay(t, s, q)  PROVE AlertLeft(t)
    BY <2>2, StayAlert DEF Stay
  <2>3. Firing(t, "register")
    BY <1>2 DEF AnswerRegister
  <2>4. Registered(t) => AlertLeft(t)
    BY <2>3, RegisteredAlert
  <2> QED  BY <1>2, <2>1, <2>2, <2>4, Zenon DEF AnswerRegister
<1>3. CASE AnswerGetAll(t)
  BY <1>3, StayAlert DEF AnswerGetAll, Stay
<1>4. CASE AnswerDelete(t)
  <2>1. ASSUME NEW s, NEW q, Stay(t, s, q)  PROVE AlertLeft(t)
    BY <2>1, StayAlert DEF Stay
  <2> QED  BY <1>4, <2>1, Zenon DEF AnswerDelete
<1> QED  BY <1>1, <1>2, <1>3, <1>4

LEMMA UserActionAlert ==
    ASSUME TypeOK, NEW t \in Tabs,
           \/ ClickLink(t)
           \/ \E n \in Names, pw \in Passwords : SubmitLogin(t, n, pw)
           \/ \E n \in Names, pw \in Passwords : SubmitRegister(t, n, pw)
           \/ \E row \in store[t].users.items : ClickDelete(t, row)
    PROVE  AlertLeft(t)
<1>1. ClickLink(t) => AlertLeft(t)
  BY PushAlert DEF ClickLink, Link
<1>2. ASSUME NEW s, NEW q, Stay(t, s, q)  PROVE AlertLeft(t)
  BY <1>2, StayAlert DEF Stay
<1> QED  BY <1>1, <1>2, Zenon DEF SubmitLogin, SubmitRegister, ClickDelete

\* The tabs that a step does not concern do not move.
TabsAction(t) ==
    \/ \E p \in Path : Open(t, p)
    \/ Reload(t)
    \/ ClickLink(t)
    \/ \E i \in DOMAIN hist[t] : Traverse(t, i)
    \/ \E n \in Names, pw \in Passwords : SubmitLogin(t, n, pw)
    \/ \E n \in Names, pw \in Passwords : SubmitRegister(t, n, pw)
    \/ \E row \in store[t].users.items : ClickDelete(t, row)
    \/ AnswerLogin(t) \/ AnswerRegister(t) \/ AnswerGetAll(t) \/ AnswerDelete(t)

LEMMA OthersDoNotMove ==
    ASSUME TypeOK, NEW t \in Tabs, TabsAction(t), NEW u \in Tabs, u # t
    PROVE  hist'[u] = hist[u] /\ at'[u] = at[u]
<1> DEFINE Still == hist'[u] = hist[u] /\ at'[u] = at[u]
<1>1. DOMAIN hist = Tabs /\ DOMAIN at = Tabs
  BY DEF TypeOK
<1>2. ASSUME NEW h, NEW i, hist' = [hist EXCEPT ![t] = h], at' = [at EXCEPT ![t] = i]  PROVE Still
  BY <1>1, <1>2
<1>3. ASSUME NEW s, NEW q, Stay(t, s, q)  PROVE Still
  BY <1>3 DEF Stay
<1>4. ASSUME NEW p, NEW w, NEW s, NEW q, Push(t, p, w, s, q)  PROVE Still
  BY <1>1, <1>4 DEF Push
<1>5. ASSUME NEW h, NEW i, Load(t, h, i)  PROVE Still
  BY <1>1, <1>5 DEF Load
<1>6. ASSUME NEW i, Traverse(t, i)  PROVE Still
  BY <1>1, <1>6 DEF Traverse
<1>7. ASSUME NEW s, NEW q, Rerender(t, s, q)  PROVE Still
  <2>1. CASE Evicted(t)
    BY <1>1, <1>7, <2>1 DEF Rerender
  <2> QED  BY <1>3, <1>7, <2>1 DEF Rerender
<1>8. Registered(t) => Still
  BY <1>1 DEF Registered
<1>9. AnswerLogin(t) => Still
  <2>1. ASSUME NEW a, LoginSucceeds(t, a)  PROVE Still
    BY <1>4, <2>1 DEF LoginSucceeds
  <2>2. LoginFails(t) => Still
    BY <1>3 DEF LoginFails
  <2> QED  BY <2>1, <2>2 DEF AnswerLogin
<1>10. AnswerRegister(t) => Still
  BY <1>3, <1>7, <1>8, Zenon DEF AnswerRegister
<1>11. AnswerGetAll(t) \/ AnswerDelete(t) => Still
  BY <1>3, Zenon DEF AnswerGetAll, AnswerDelete
<1>12. ClickLink(t) => Still
  BY <1>4, Zenon DEF ClickLink, Link
<1>13. /\ \A n, pw : SubmitLogin(t, n, pw) => Still
       /\ \A n, pw : SubmitRegister(t, n, pw) => Still
       /\ \A row : ClickDelete(t, row) => Still
  BY <1>3, Zenon DEF SubmitLogin, SubmitRegister, ClickDelete
<1>14. Reload(t) \/ (\E p \in Path : Open(t, p)) => Still
  BY <1>5, Zenon DEF Reload, Open
<1> HIDE DEF Still
<1>15. Still
  BY <1>6, <1>9, <1>10, <1>11, <1>12, <1>13, <1>14, Zenon DEF TabsAction
<1> QED  BY <1>15 DEF Still

LEMMA AlertStep ==
    ASSUME TypeOK, [Next]_vars, NEW t \in Tabs
    PROVE  AlertLeft(t)
<1>1. CASE UNCHANGED vars
  BY <1>1, StayAlert DEF vars
<1>2. CASE TabsAction(t)
  <2>1. \A p \in Path : Open(t, p) => AlertLeft(t)
    BY LoadAlert DEF Open
  <2>2. Reload(t) => AlertLeft(t)
    BY LoadAlert DEF Reload
  <2> QED  BY <1>2, <2>1, <2>2, TraverseAlert, AnswerAlert, UserActionAlert, Zenon DEF TabsAction
<1>3. ASSUME NEW u \in Tabs, TabsAction(u), u # t  PROVE AlertLeft(t)
  BY <1>3, OthersDoNotMove DEF AlertLeft
<1>4. Next => \E u \in Tabs : TabsAction(u)
  BY Zenon DEF Next, TabsAction
<1> QED  BY <1>1, <1>2, <1>3, <1>4

\* No move of a tab leaves an alert on the page it comes to, in any number of tabs and with
\* writes that may fail: only the alert of a registration is set after the move to the login page.
THEOREM AlertsStayBehindCorrect == Spec => AlertsStayBehind
<1>1. TypeOK /\ [Next]_vars =>
          [\A t \in Tabs :
              <<hist[t], at[t]>>' # <<hist[t], at[t]>> =>
                  \/ store'[t].alert = "none"
                  \/ store'[t].alert = "success" /\ Firing(t, "register")]_vars
  BY AlertStep DEF AlertLeft
<1> QED  BY <1>1, TypeCorrect, PTL DEF Spec, AlertsStayBehind

-----------------------------------------------------------------------------
(***************************************************************************)
(* What only one tab can promise: MemoryIsStored, HomeIsLoggedIn,          *)
(* NeverUnauthorised and, of a user who waits for a login's answer,        *)
(* NeverBlank and StoredSessionIsLoggedIn.                                 *)
(*                                                                         *)
(* A tab's invariant relates the page pg, the stored session u, the        *)
(* authentication slice a and the timers q.  Ready is the part a render    *)
(* needs before it; what is rendered adds the rest.                        *)
(***************************************************************************)
OneTab == \A t, u \in Tabs : t = u

Logins(q) == { i \in DOMAIN q : q[i].route = "authenticate" }

HasTokens(q) == \A i \in DOMAIN q : q[i].route \in {"getAll", "delete"} => q[i].token

\* Of a user who waits: one login in flight, and none while a session is stored.
LoginsWait(u, a, q) ==
    /\ \A i, j \in Logins(q) : i = j
    /\ u # NoUser => Logins(q) = {} /\ a = LoggedIn(u)

Ready(u, a, q) ==
    /\ a.status = "loggingIn" => u = NoUser
    /\ a.status = "loggedIn" => a.user = u
    /\ HasTokens(q)
    /\ ~Impatient => LoginsWait(u, a, q)

TabFits(pg, u, a, q) ==
    /\ Ready(u, a, q)
    /\ pg = "LoginPage" => u = NoUser
    /\ pg = "HomePage" => a.status = "loggedIn"
    /\ ~Impatient => pg # "blank"

TabsFit ==
    \A t \in Tabs : TabFits(page[t], storedUser, store[t].authentication, timers[t])

-----------------------------------------------------------------------------
\* A user or a name is there exactly while somebody is logged in or logging in.
LEMMA AuthStates ==
    ASSUME NEW a \in AuthState
    PROVE  /\ a.status = "loggedIn" => a.user \in Session /\ a = LoggedIn(a.user)
           /\ a.status \notin {"loggedIn", "loggingIn"} => a = LoggedOut
           /\ a.user = NoUser <=> a = LoggedOut
BY NoUserAssumption DEF AuthState, LoggedOut, LoggedIn, Session, AccountId

LEMMA NoSession == NoUser \notin Session
BY NoUserAssumption DEF Session, AccountId

\* Other slices' actions leave authentication alone.
LEMMA OtherAuth ==
    ASSUME NEW s, NEW a,
           a.type \notin {"LOGIN_REQUEST", "LOGIN_SUCCESS", "LOGIN_FAILURE", "LOGOUT"}
    PROVE  Dispatch(s, a).authentication = s.authentication
BY DEF Dispatch, Authentication

\* A new request is the last, an answered one was the first.
LEMMA AppendedRequest ==
    ASSUME NEW q \in Seq(Request), NEW r \in Request
    PROVE  LET n == Len(q) + 1
           IN  /\ HasTokens(q) /\ (r.route \in {"getAll", "delete"} => r.token)
                    => HasTokens(Append(q, r))
               /\ r.route = "authenticate" => Logins(Append(q, r)) = Logins(q) \cup {n}
               /\ r.route # "authenticate" => Logins(Append(q, r)) = Logins(q)
<1>1. /\ DOMAIN Append(q, r) = 1 .. Len(q) + 1 /\ DOMAIN q = 1 .. Len(q) /\ Len(q) \in Nat
      /\ \A i \in 1 .. Len(q) : Append(q, r)[i] = q[i]
      /\ Append(q, r)[Len(q) + 1] = r
  BY AppendProperties, LenProperties
<1>2. 1 .. Len(q) + 1 = (1 .. Len(q)) \cup {Len(q) + 1}
  BY <1>1
<1>3. Len(q) + 1 \notin 1 .. Len(q)
  BY <1>1
<1> QED  BY <1>1, <1>2, <1>3 DEF HasTokens, Logins

LEMMA AnsweredRequest ==
    ASSUME NEW q \in Seq(Request), q # <<>>
    PROVE  /\ HasTokens(q) => HasTokens(Tail(q))
           /\ \A i \in Logins(Tail(q)) : i \in Nat /\ i + 1 \in Logins(q) /\ i + 1 # 1
           /\ Head(q).route = "authenticate" => 1 \in Logins(q)
<1>1. /\ DOMAIN Tail(q) = 1 .. Len(q) - 1 /\ DOMAIN q = 1 .. Len(q) /\ Len(q) \in Nat \ {0}
      /\ \A i \in 1 .. Len(q) - 1 : Tail(q)[i] = q[i + 1]
      /\ Head(q) = q[1]
  BY HeadTailProperties, LenProperties, EmptySeq
<1>2. \A i \in 1 .. Len(q) - 1 : i \in Nat /\ i + 1 \in 1 .. Len(q) /\ i + 1 # 1
  BY <1>1
<1>3. 1 \in 1 .. Len(q)
  BY <1>1
<1> QED  BY <1>1, <1>2, <1>3 DEF HasTokens, Logins

LEMMA AnsweredLogin ==
    ASSUME NEW q \in Seq(Request), q # <<>>, NEW u, NEW a, LoginsWait(u, a, q)
    PROVE  /\ LoginsWait(u, a, Tail(q))
           /\ Head(q).route = "authenticate" => u = NoUser /\ Logins(Tail(q)) = {}
<1>1. \A i \in Logins(Tail(q)) : i \in Nat /\ i + 1 \in Logins(q) /\ i + 1 # 1
  BY AnsweredRequest
<1>2. ASSUME NEW i \in Logins(Tail(q)), NEW j \in Logins(Tail(q))  PROVE i = j
  <2>1. i + 1 = j + 1 /\ i \in Nat /\ j \in Nat
    BY <1>1 DEF LoginsWait
  <2> QED  BY <2>1
<1>3. u # NoUser => Logins(Tail(q)) = {} /\ a = LoggedIn(u)
  BY <1>1 DEF LoginsWait
<1>4. Head(q).route = "authenticate" => u = NoUser /\ Logins(Tail(q)) = {}
  BY <1>1, AnsweredRequest DEF LoginsWait
<1> QED  BY <1>2, <1>3, <1>4 DEF LoginsWait

LEMMA ReadyAnswered ==
    ASSUME NEW q \in Seq(Request), q # <<>>, NEW u, NEW a, Ready(u, a, q)
    PROVE  Ready(u, a, Tail(q))
BY AnsweredRequest, AnsweredLogin DEF Ready

\* A request that is not a login.
LEMMA ReadyAppended ==
    ASSUME NEW q \in Seq(Request), NEW u, NEW a, Ready(u, a, q), NEW r \in Request,
           r.route # "authenticate", r.route \in {"getAll", "delete"} => r.token
    PROVE  Ready(u, a, Append(q, r))
BY AppendedRequest DEF Ready, LoginsWait

-----------------------------------------------------------------------------
(***************************************************************************)
(* Rendering.                                                              *)
(***************************************************************************)
LEMMA LoginPageFits ==
    ASSUME NEW u, NEW a, NEW s, NEW q, Ready(u, a, q)
    PROVE  LET v == LoginPageMounted(u, s, q)
           IN  TabFits(v.page, v.user, v.store.authentication, v.timers)
<1>1. Dispatch(s, [type |-> "LOGOUT"]).authentication = LoggedOut
  BY DEF Dispatch, Authentication
<1> QED  BY <1>1 DEF LoginPageMounted, Shown, TabFits, Ready, LoginsWait, LoggedOut

LEMMA HomePageFits ==
    ASSUME NEW u \in Session, NEW s \in StoreState, NEW q \in Seq(Request),
           Ready(u, s.authentication, q), s.authentication.status = "loggedIn"
    PROVE  LET v == HomePageMounted(u, s, q)
           IN  TabFits(v.page, v.user, v.store.authentication, v.timers)
<1> DEFINE s1 == Dispatch(s, [type |-> "GETALL_REQUEST"])
           q1 == Append(q, GetAll(u))
<1>1. s1.authentication = s.authentication
  BY OtherAuth
<1>2. GetAll(u) \in Request /\ GetAll(u).route = "getAll" /\ GetAll(u).token
  BY NoSession, RequestType DEF GetAll, AuthHeader
<1>3. Ready(u, s.authentication, q1)
  BY <1>2, ReadyAppended
<1>4. HomePageMounted(u, s, q) =
        [page |-> "HomePage", path |-> "/", user |-> u, store |-> s1, timers |-> q1]
  BY DEF HomePageMounted, Shown
<1> HIDE DEF s1, q1
<1> QED  BY <1>1, <1>3, <1>4 DEF TabFits

LEMMA RenderedFits ==
    ASSUME NEW old, NEW p \in Path, NEW u \in Session \cup {NoUser}, NEW s \in StoreState,
           NEW q \in Seq(Request), Ready(u, s.authentication, q),
           old = "LoginPage" /\ p = "/login" => u = NoUser, ~Impatient => old # "blank"
    PROVE  LET r == Rendered(old, p, u, s, q)
           IN  TabFits(r.page, r.user, r.store.authentication, r.timers)
<1> DEFINE d  == Destination(p, u)
           s1 == IF d = p THEN s ELSE Dispatch(s, [type |-> "ALERT_CLEAR"])
           a  == s1.authentication
           r  == Rendered(old, p, u, s, q)
           Fits(v) == TabFits(v.page, v.user, v.store.authentication, v.timers)
<1>1. s1 \in StoreState /\ a = s.authentication
  BY DispatchType, OtherAuth DEF AnAction
<1>2. a \in AuthState /\ Ready(u, a, q)
  BY <1>1 DEF StoreState
<1>3. d \in {"/", "/login", "/register"} /\ (d = "/" => u \in Session)
  BY DEF Destination, Path
<1> HIDE DEF s1
<1>4. ASSUME d = "/", a.user # NoUser  PROVE a.status = "loggedIn"
  <2>1. u # NoUser
    BY <1>3, <1>4, NoSession
  <2> QED  BY <1>2, <1>4, <2>1, AuthStates DEF Ready
<1>5. ASSUME d = "/", a.user = NoUser  PROVE Impatient
  <2>1. u # NoUser
    BY <1>3, <1>5, NoSession
  <2>2. a # LoggedIn(u)
    BY <1>5, <2>1 DEF LoggedIn
  <2> QED  BY <1>2, <2>1, <2>2 DEF Ready, LoginsWait
<1>6. CASE old = "blank"
  <2>1. r = [page |-> "blank", path |-> p, user |-> u, store |-> s, timers |-> q]
    BY <1>6 DEF Rendered, Shown
  <2> HIDE DEF r
  <2> QED  BY <1>6, <2>1 DEF TabFits, r
<1>7. CASE old # "blank" /\ d = "/" /\ a.user = NoUser
  <2>1. r = [page |-> "blank", path |-> d, user |-> u, store |-> s1, timers |-> q]
    BY <1>7 DEF Rendered, Shown, s1
  <2> HIDE DEF r, d
  <2> QED  BY <1>2, <1>5, <1>7, <2>1 DEF TabFits, r
<1> DEFINE mounts == d # p \/ old # PageOf(d)
<1>8. CASE old # "blank" /\ d = "/" /\ a.user # NoUser /\ mounts
  <2>1. r = HomePageMounted(u, s1, q)
    BY <1>8 DEF Rendered, s1
  <2> HIDE DEF r, d
  <2> QED  BY <1>1, <1>2, <1>3, <1>4, <1>8, <2>1, HomePageFits DEF r
<1>9. CASE old # "blank" /\ d = "/login" /\ mounts
  <2>1. r = LoginPageMounted(u, s1, q)
    BY <1>9 DEF Rendered, s1
  <2> HIDE DEF r, d
  <2> QED  BY <1>2, <2>1, LoginPageFits DEF r
<1>10. CASE /\ old # "blank" /\ ~(d = "/" /\ a.user = NoUser) /\ ~(d = "/" /\ mounts)
            /\ ~(d = "/login" /\ mounts)
  <2>1. r = [page |-> PageOf(d), path |-> d, user |-> u, store |-> s1, timers |-> q]
    BY <1>10 DEF Rendered, Shown, s1
  <2>2. /\ PageOf(d) = "HomePage" => d = "/"
        /\ PageOf(d) = "LoginPage" => d = "/login"
        /\ PageOf(d) # "blank"
    BY <1>3 DEF PageOf
  <2>3. d = "/login" => u = NoUser
    BY <1>10 DEF PageOf
  <2>4. d = "/" => a.status = "loggedIn"
    BY <1>4, <1>10
  <2> HIDE DEF r, d
  <2> QED  BY <1>2, <2>1, <2>2, <2>3, <2>4 DEF TabFits, r
<1> QED  BY <1>6, <1>7, <1>8, <1>9, <1>10

-----------------------------------------------------------------------------
(***************************************************************************)
(* The ways a step changes the tab.                                        *)
(***************************************************************************)
LEMMA TabKnown ==
    ASSUME TypeOK, TabsFit, NEW t \in Tabs
    PROVE  /\ store[t] \in StoreState /\ store[t].authentication \in AuthState
           /\ timers[t] \in Seq(Request) /\ storedUser \in Session \cup {NoUser}
           /\ TabFits(page[t], storedUser, store[t].authentication, timers[t])
           /\ Ready(storedUser, store[t].authentication, timers[t])
BY DEF TypeOK, StoreState, TabsFit, TabFits

\* HomePage is never shown without a session.
LEMMA HomeHasSession ==
    ASSUME TypeOK, TabsFit, NEW t \in Tabs
    PROVE  /\ page[t] = "HomePage" => storedUser \in Session /\ storedUser # NoUser
           /\ ~Evicted(t)
BY TabKnown, AuthStates, NoSession DEF TabFits, Ready, Evicted

LEMMA ShowFits ==
    ASSUME OneTab, TypeOK, NEW t \in Tabs, NEW v, Show(t, v),
           TabFits(v.page, v.user, v.store.authentication, v.timers)
    PROVE  TabsFit'
<1>1. /\ page'[t] = v.page /\ storedUser' = v.user /\ store'[t] = v.store
      /\ timers'[t] = v.timers
  BY DEF Show, TypeOK
<1> QED  BY <1>1 DEF TabsFit, OneTab

LEMMA StayFits ==
    ASSUME OneTab, TypeOK, TabsFit, NEW t \in Tabs, NEW s, NEW q, Stay(t, s, q),
           TabFits(page[t], storedUser, s.authentication, q)
    PROVE  TabsFit'
<1>1. /\ page'[t] = page[t] /\ storedUser' = storedUser /\ store'[t] = s /\ timers'[t] = q
  BY DEF Stay, TypeOK
<1> QED  BY <1>1 DEF TabsFit, OneTab

LEMMA PushFits ==
    ASSUME OneTab, TypeOK, NEW t \in Tabs, NEW p \in Path, NEW u \in Session \cup {NoUser},
           NEW s \in StoreState, NEW q \in Seq(Request), Push(t, p, u, s, q),
           Ready(u, s.authentication, q),
           page[t] = "LoginPage" /\ p = "/login" => u = NoUser, ~Impatient => page[t] # "blank"
    PROVE  TabsFit'
<1> DEFINE r == Rendered(page[t], p, u, Moved(s), q)
<1>1. Moved(s) \in StoreState /\ Moved(s).authentication = s.authentication
  BY MovedType, OtherAuth DEF Moved
<1>2. TabFits(r.page, r.user, r.store.authentication, r.timers)
  BY <1>1, RenderedFits
<1>3. Show(t, r)
  BY DEF Push
<1> HIDE DEF r
<1> QED  BY <1>2, <1>3, ShowFits

LEMMA LoadFits ==
    ASSUME OneTab, TypeOK, NEW t \in Tabs, NEW h \in Seq(Path), NEW i \in 1 .. Len(h),
           Load(t, h, i)
    PROVE  TabsFit'
<1> DEFINE s == InitialStore(storedUser)
           r == Rendered("closed", h[i], storedUser, s, <<>>)
<1>1. h[i] \in Path /\ storedUser \in Session \cup {NoUser} /\ <<>> \in Seq(Request)
  BY ElementOfSeq, EmptySeq DEF TypeOK
<1>2. s \in StoreState
  BY <1>1, InitialStoreType
<1>3. s.authentication = IF storedUser = NoUser THEN LoggedOut ELSE LoggedIn(storedUser)
  BY DEF InitialStore
<1>4. Ready(storedUser, s.authentication, <<>>)
  BY <1>3 DEF Ready, LoginsWait, HasTokens, Logins, LoggedOut, LoggedIn
<1> HIDE DEF s
<1>5. TabFits(r.page, r.user, r.store.authentication, r.timers)
  BY <1>1, <1>2, <1>4, RenderedFits
<1>6. Show(t, r)
  BY DEF Load, s
<1> HIDE DEF r
<1> QED  BY <1>5, <1>6, ShowFits

LEMMA TraverseFits ==
    ASSUME OneTab, TypeOK, TabsFit, NEW t \in Tabs, NEW i, Traverse(t, i)
    PROVE  TabsFit'
<1> DEFINE s == Moved(store[t])
           p == hist[t][i]
           r == Rendered(page[t], p, storedUser, s, timers[t])
<1>1. p \in Path
  BY ElementOfSeq DEF Traverse, TypeOK
<1>2. s \in StoreState /\ s.authentication = store[t].authentication
  BY TabKnown, MovedType, OtherAuth DEF Moved
<1>3. TabFits(r.page, r.user, r.store.authentication, r.timers)
  BY <1>1, <1>2, TabKnown, RenderedFits DEF TabFits
<1>4. Show(t, r)
  BY HomeHasSession DEF Traverse, Shown
<1> HIDE DEF r
<1> QED  BY <1>3, <1>4, ShowFits

-----------------------------------------------------------------------------
LEMMA UserActionFits ==
    ASSUME OneTab, TypeOK, TabsFit, NEW t \in Tabs,
           \/ ClickLink(t)
           \/ \E n \in Names, pw \in Passwords : SubmitLogin(t, n, pw) \/ SubmitRegister(t, n, pw)
           \/ \E row \in store[t].users.items : ClickDelete(t, row)
    PROVE  TabsFit'
<1> DEFINE q == timers[t]
           a == store[t].authentication
<1>1. CASE ClickLink(t)
  BY <1>1, TabKnown, PushFits DEF ClickLink, Link, Path, TabFits
<1>2. ASSUME NEW n \in Names, NEW pw \in Passwords, SubmitLogin(t, n, pw)  PROVE TabsFit'
  <2> DEFINE s == Dispatch(store[t], [type |-> "LOGIN_REQUEST", name |-> n])
             r == Authenticate(n, pw)
  <2>1. s.authentication = LoggingIn(n)
    BY DEF Dispatch, Authentication
  <2>2. r \in Request /\ r.route = "authenticate"
    BY RequestType DEF Authenticate
  <2>3. storedUser = NoUser /\ page[t] = "LoginPage"
    BY <1>2, TabKnown DEF SubmitLogin, TabFits
  <2>4. HasTokens(Append(q, r)) /\ Logins(Append(q, r)) = Logins(q) \cup {Len(q) + 1}
    BY <2>2, TabKnown, AppendedRequest DEF Ready
  <2>5. ~Impatient => Logins(q) = {}
    BY <1>2 DEF SubmitLogin, InFlight, Logins
  <2>6. ~Impatient => \A i, j \in Logins(Append(q, r)) : i = j
    BY <2>4, <2>5
  <2>7. Stay(t, s, Append(q, r))
    BY <1>2 DEF SubmitLogin
  <2> HIDE DEF s, r
  <2>8. TabFits(page[t], storedUser, s.authentication, Append(q, r))
    BY <2>1, <2>3, <2>4, <2>6 DEF TabFits, Ready, LoginsWait, LoggingIn
  <2> QED  BY <2>7, <2>8, StayFits
<1>3. ASSUME NEW n \in Names, NEW pw \in Passwords, SubmitRegister(t, n, pw)  PROVE TabsFit'
  <2> DEFINE s == Dispatch(store[t], [type |-> "REGISTER_REQUEST"])
             r == Register(n, pw)
  <2>1. s.authentication = a
    BY OtherAuth
  <2>2. r \in Request /\ r.route = "register"
    BY RequestType DEF Register
  <2>3. Stay(t, s, Append(q, r))
    BY <1>3 DEF SubmitRegister
  <2> HIDE DEF s, r
  <2>4. Ready(storedUser, a, Append(q, r))
    BY <2>2, TabKnown, ReadyAppended
  <2> QED  BY <2>1, <2>3, <2>4, TabKnown, StayFits DEF TabFits
<1>4. ASSUME NEW row \in store[t].users.items, ClickDelete(t, row)  PROVE TabsFit'
  <2> DEFINE s == Dispatch(store[t], [type |-> "DELETE_REQUEST", id |-> row.id])
             r == Delete(row.id, storedUser)
  <2>1. s.authentication = a
    BY OtherAuth
  <2>2. row.id \in AccountId
    BY TabKnown DEF StoreState, ListState, Row
  <2>3. r \in Request /\ r.route = "delete"
    BY <2>2, RequestType DEF Delete
  <2>4. r.token
    BY <1>4, HomeHasSession DEF ClickDelete, Delete, AuthHeader
  <2>5. Stay(t, s, Append(q, r))
    BY <1>4 DEF ClickDelete
  <2> HIDE DEF s, r
  <2>6. Ready(storedUser, a, Append(q, r))
    BY <2>3, <2>4, TabKnown, ReadyAppended
  <2> QED  BY <2>1, <2>5, <2>6, TabKnown, StayFits DEF TabFits
<1> QED  BY <1>1, <1>2, <1>3, <1>4

\* The timers of a tab one of whose requests is answered.
LEMMA AnswerTimers ==
    ASSUME TypeOK, NEW t \in Tabs, NEW route, Firing(t, route)
    PROVE  /\ timers[t] \in Seq(Request) /\ timers[t] # <<>>
           /\ Tail(timers[t]) \in Seq(Request)
           /\ Head(timers[t]).route = route
BY HeadTailProperties DEF Firing, TypeOK

\* An answer that leaves authentication and the page alone.
LEMMA AnswerStays ==
    ASSUME OneTab, TypeOK, TabsFit, NEW t \in Tabs, NEW route, Firing(t, route), NEW s,
           s.authentication = store[t].authentication, Stay(t, s, Tail(timers[t]))
    PROVE  TabsFit'
<1>1. Ready(storedUser, store[t].authentication, Tail(timers[t]))
  BY AnswerTimers, TabKnown, ReadyAnswered
<1> QED  BY <1>1, TabKnown, StayFits DEF TabFits

LEMMA AnswerLoginFits ==
    ASSUME OneTab, TypeOK, TabsFit, NEW t \in Tabs, AnswerLogin(t)
    PROVE  TabsFit'
<1> DEFINE q == Tail(timers[t])
           a == store[t].authentication
<1>1. /\ timers[t] \in Seq(Request) /\ timers[t] # <<>> /\ q \in Seq(Request)
      /\ Head(timers[t]).route = "authenticate"
  BY AnswerTimers DEF AnswerLogin
<1>2. HasTokens(q)
  BY <1>1, TabKnown, AnsweredRequest DEF Ready
<1>3. ~Impatient => storedUser = NoUser /\ Logins(q) = {}
  BY <1>1, TabKnown, AnsweredLogin DEF Ready
<1>4. ASSUME NEW acc \in users[t], LoginSucceeds(t, acc)  PROVE TabsFit'
  <2> DEFINE u == SessionOf(acc)
             s == Dispatch(store[t], [type |-> "LOGIN_SUCCESS", user |-> u])
  <2>1. u \in Session
    BY DEF SessionOf, Session, Account, TypeOK, BackendTypeOK
  <2>2. s \in StoreState
    BY <2>1, TabKnown, DispatchType DEF AnAction
  <2>3. s.authentication = LoggedIn(u)
    BY DEF Dispatch, Authentication
  <2>4. Push(t, "/", u, s, q)
    BY <1>4 DEF LoginSucceeds
  <2> HIDE DEF u, s, q
  <2>5. Ready(u, s.authentication, q)
    BY <1>2, <1>3, <2>3 DEF Ready, LoginsWait, LoggedIn
  <2>6. ~Impatient => page[t] # "blank"
    BY TabKnown DEF TabFits
  <2> QED  BY <1>1, <2>1, <2>2, <2>4, <2>5, <2>6, PushFits DEF Path
<1>5. ASSUME LoginFails(t)  PROVE TabsFit'
  <2> DEFINE d == Dispatch(store[t], [type |-> "LOGIN_FAILURE"])
             s == Dispatch(d, [type |-> "ALERT_ERROR"])
             v == Shown("blank", "/", storedUser, d, q)
  <2>1. d.authentication = LoggedOut
    BY DEF Dispatch, Authentication
  <2>2. s.authentication = LoggedOut
    BY <2>1, OtherAuth
  <2> HIDE DEF d, s, q
  <2>3. Ready(storedUser, LoggedOut, q)
    BY <1>2, <1>3 DEF Ready, LoginsWait, LoggedOut
  <2>4. CASE page[t] = "HomePage" /\ Show(t, v)
    <3>1. Impatient
      BY <1>3, <2>4, HomeHasSession
    <3>2. TabFits(v.page, v.user, v.store.authentication, v.timers)
      BY <2>1, <2>3, <3>1 DEF TabFits, Shown
    <3> HIDE DEF v
    <3> QED  BY <2>4, <3>2, ShowFits
  <2>5. CASE page[t] # "HomePage" /\ Stay(t, s, q)
    <3>1. TabFits(page[t], storedUser, s.authentication, q)
      BY <2>2, <2>3, <2>5, TabKnown DEF TabFits
    <3> QED  BY <2>5, <3>1, StayFits
  <2> QED  BY <1>5, <2>4, <2>5 DEF LoginFails, d, s, q
<1> QED  BY <1>4, <1>5 DEF AnswerLogin, Matching

LEMMA AnswerRegisterFits ==
    ASSUME OneTab, TypeOK, TabsFit, NEW t \in Tabs, AnswerRegister(t)
    PROVE  TabsFit'
<1> DEFINE q == Tail(timers[t])
<1>1. Firing(t, "register")
  BY DEF AnswerRegister
<1>2. q \in Seq(Request) /\ Ready(storedUser, store[t].authentication, q)
  BY <1>1, AnswerTimers, TabKnown, ReadyAnswered
<1>3. ASSUME Registered(t)  PROVE TabsFit'
  <2> DEFINE s0 == Dispatch(store[t], [type |-> "REGISTER_SUCCESS"])
             s == Moved(s0)
             r == Rendered(page[t], "/login", storedUser, s, q)
             v == [r EXCEPT !.store = Dispatch(@, [type |-> "ALERT_SUCCESS"])]
  <2>1. s0 \in StoreState /\ s0.authentication = store[t].authentication
    BY TabKnown, DispatchType, OtherAuth DEF AnAction
  <2>2. s \in StoreState /\ s.authentication = store[t].authentication
    BY <2>1, MovedType, OtherAuth DEF Moved
  <2>3. Show(t, v)
    BY <1>3 DEF Registered
  <2> HIDE DEF s, q
  <2>4. /\ "/login" \in Path /\ storedUser \in Session \cup {NoUser}
        /\ Ready(storedUser, s.authentication, q)
        /\ page[t] = "LoginPage" => storedUser = NoUser
        /\ ~Impatient => page[t] # "blank"
    BY <1>2, <2>2, TabKnown DEF TabFits, Path
  <2>5. TabFits(r.page, r.user, r.store.authentication, r.timers)
    BY <1>2, <2>2, <2>4, RenderedFits
  <2>6. r \in View
    BY <1>2, <2>2, <2>4, RenderedType
  <2> HIDE DEF r
  <2>7. v.store.authentication = r.store.authentication
    BY <2>6, OtherAuth DEF View
  <2>8. v.page = r.page /\ v.user = r.user /\ v.timers = r.timers
    BY <2>6 DEF View
  <2> HIDE DEF v
  <2> QED  BY <2>3, <2>5, <2>7, <2>8, ShowFits
<1>4. ASSUME Rerender(t, Dispatch(Dispatch(store[t], [type |-> "REGISTER_FAILURE"]),
                                  [type |-> "ALERT_ERROR"]), q)
      PROVE  TabsFit'
  <2> DEFINE s == Dispatch(Dispatch(store[t], [type |-> "REGISTER_FAILURE"]), [type |-> "ALERT_ERROR"])
  <2>1. s.authentication = store[t].authentication
    BY OtherAuth
  <2>2. Stay(t, s, q)
    BY <1>4, HomeHasSession DEF Rerender
  <2> HIDE DEF s
  <2> QED  BY <1>1, <2>1, <2>2, AnswerStays
<1> QED  BY <1>1, <1>3, <1>4, AnswerStays DEF AnswerRegister

LEMMA AnswerOtherFits ==
    ASSUME OneTab, TypeOK, TabsFit, NEW t \in Tabs, AnswerGetAll(t) \/ AnswerDelete(t)
    PROVE  TabsFit'
<1> DEFINE id == Head(timers[t]).id
           S(type) == Dispatch(store[t], [type |-> type, id |-> id])
           all == Dispatch(store[t], [type |-> "GETALL_SUCCESS", users |-> users[t]])
           none == Dispatch(store[t], [type |-> "GETALL_FAILURE"])
<1>1. \A type \in {"DELETE_SUCCESS", "DELETE_FAILURE"} :
          S(type).authentication = store[t].authentication
  BY OtherAuth
<1>2. /\ all.authentication = store[t].authentication
      /\ none.authentication = store[t].authentication
  BY OtherAuth
<1>3. CASE AnswerGetAll(t)
  <2>1. Firing(t, "getAll")
        /\ (Stay(t, all, Tail(timers[t])) \/ Stay(t, none, Tail(timers[t])))
    BY <1>3 DEF AnswerGetAll
  <2> HIDE DEF all, none
  <2> QED  BY <1>2, <2>1, AnswerStays
<1>4. CASE AnswerDelete(t)
  <2>1. Firing(t, "delete")
        /\ \/ Stay(t, store[t], Tail(timers[t]))
           \/ \E type \in {"DELETE_SUCCESS", "DELETE_FAILURE"} : Stay(t, S(type), Tail(timers[t]))
    BY <1>4 DEF AnswerDelete
  <2> HIDE DEF S
  <2> QED  BY <1>1, <2>1, AnswerStays
<1> QED  BY <1>3, <1>4

LEMMA TabStep ==
    ASSUME OneTab
    PROVE  TypeOK /\ TabsFit /\ [Next]_vars => TabsFit'
<1> SUFFICES ASSUME TypeOK, TabsFit, [Next]_vars  PROVE TabsFit'
  OBVIOUS
<1>1. ASSUME NEW t \in Tabs, NEW p \in Path, Open(t, p)  PROVE TabsFit'
  <2> DEFINE h == <<p>>
  <2>1. h \in Seq(Path) /\ 1 \in 1 .. Len(h)
    OBVIOUS
  <2>2. Load(t, h, 1)
    BY <1>1 DEF Open
  <2> HIDE DEF h
  <2> QED  BY <2>1, <2>2, LoadFits
<1>2. ASSUME NEW t \in Tabs, Reload(t)  PROVE TabsFit'
  <2>1. hist[t] \in Seq(Path) /\ at[t] \in 1 .. Len(hist[t])
    BY <1>2 DEF Reload, TypeOK
  <2> QED  BY <1>2, <2>1, LoadFits DEF Reload
<1>3. ASSUME NEW t \in Tabs, \E i \in DOMAIN hist[t] : Traverse(t, i)  PROVE TabsFit'
  BY <1>3, TraverseFits
<1>4. ASSUME NEW t \in Tabs,
             \/ ClickLink(t)
             \/ \E n \in Names, pw \in Passwords : SubmitLogin(t, n, pw)
             \/ \E n \in Names, pw \in Passwords : SubmitRegister(t, n, pw)
             \/ \E row \in store[t].users.items : ClickDelete(t, row)
      PROVE  TabsFit'
  BY <1>4, UserActionFits
<1>5. ASSUME NEW t \in Tabs,
             AnswerLogin(t) \/ AnswerRegister(t) \/ AnswerGetAll(t) \/ AnswerDelete(t)
      PROVE  TabsFit'
  BY <1>5, AnswerLoginFits, AnswerRegisterFits, AnswerOtherFits
<1>6. ASSUME UNCHANGED vars  PROVE TabsFit'
  BY <1>6 DEF vars, TabsFit
<1> QED  BY <1>1, <1>2, <1>3, <1>4, <1>5, <1>6 DEF Next

LEMMA TabsFitInit == Init => TabsFit
<1> SUFFICES ASSUME Init, NEW t \in Tabs
             PROVE  TabFits(page[t], storedUser, store[t].authentication, timers[t])
  BY DEF TabsFit
<1>1. /\ page[t] = "closed" /\ storedUser = NoUser /\ timers[t] = <<>>
      /\ store[t].authentication = LoggedOut
  BY DEF Init, InitialStore
<1> QED  BY <1>1 DEF TabFits, Ready, LoginsWait, HasTokens, Logins, LoggedOut

LEMMA AlwaysFits ==
    ASSUME OneTab
    PROVE  Spec => [](TypeOK /\ TabsFit)
<1>1. TypeOK /\ TabsFit /\ [Next]_vars => TabsFit'
  BY TabStep
<1> QED  BY <1>1, TabsFitInit, TypeCorrect, PTL DEF Spec

-----------------------------------------------------------------------------
\* With one tab, HomePage and the Redux state only ever show the user whose session
\* localStorage holds, whatever is submitted, left, reloaded or answered late.
THEOREM HomeIsLoggedInCorrect ==
    ASSUME OneTab
    PROVE  Spec => []HomeIsLoggedIn
<1>1. TypeOK /\ TabsFit => HomeIsLoggedIn
  <2> SUFFICES ASSUME TypeOK, TabsFit, NEW t \in Tabs, store[t].authentication.status = "loggedIn"
               PROVE  store[t].authentication = LoggedIn(storedUser)
    BY DEF HomeIsLoggedIn, TabsFit, TabFits
  <2> QED  BY TabKnown, AuthStates DEF Ready
<1> QED  BY <1>1, AlwaysFits, PTL

\* With one tab, every request that needs a session is sent with its token.
THEOREM NeverUnauthorisedCorrect ==
    ASSUME OneTab
    PROVE  Spec => []NeverUnauthorised
<1>1. TypeOK /\ TabsFit => NeverUnauthorised
  BY DEF NeverUnauthorised, InFlight, TabsFit, TabFits, Ready, HasTokens
<1> QED  BY <1>1, AlwaysFits, PTL

\* With one tab whose user waits for a login's answer, no render throws.
THEOREM NeverBlankCorrect ==
    ASSUME OneTab, ~Impatient
    PROVE  Spec => []NeverBlank
<1>1. TypeOK /\ TabsFit => NeverBlank
  BY DEF NeverBlank, TabsFit, TabFits
<1> QED  BY <1>1, AlwaysFits, PTL

\* With one tab whose user waits, a stored session is the one the Redux state has.
THEOREM StoredSessionCorrect ==
    ASSUME OneTab, ~Impatient
    PROVE  Spec => []StoredSessionIsLoggedIn
<1>1. TypeOK /\ TabsFit => StoredSessionIsLoggedIn
  BY DEF StoredSessionIsLoggedIn, TabsFit, TabFits, Ready, LoginsWait
<1> QED  BY <1>1, AlwaysFits, PTL

\* With one tab whose writes succeed, the backend's array is what is stored.
THEOREM MemoryIsStoredCorrect ==
    ASSUME OneTab, ~StorageFails
    PROVE  Spec => []MemoryIsStored
<1>1. Init => BackendInv /\ Current
  BY BackendInvInit DEF Init, BackendInit, Current
<1>2. TypeOK /\ BackendInv /\ Current /\ [Next]_vars => BackendInv' /\ Current'
  BY StepIsBackendStep, BackendInvStep, RegistryStep DEF OneTab
<1>3. Current => MemoryIsStored
  BY DEF Current, MemoryIsStored
<1> QED  BY <1>1, <1>2, <1>3, TypeCorrect, PTL DEF Spec
=============================================================================
