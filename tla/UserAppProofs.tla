---------------------------- MODULE UserAppProofs ----------------------------
(***************************************************************************)
(* Proofs about FakeBackend and UserApp for every number of tabs, every    *)
(* set of names and passwords, every bound, and whether or not             *)
(* localStorage.setItem may throw.                                         *)
(*                                                                         *)
(* UniqueAccounts is not inductive alone: NextId has to be larger than     *)
(* every id in use, and the maximum that Math.max returns exists only      *)
(* because the ids of an array are bounded.  BackendInv adds that.         *)
(*                                                                         *)
(* Every step of the application is a step of FakeBackend or leaves its    *)
(* variables alone, so what is shown of the accounts holds of the          *)
(* application.  TypeOK is inductive together with BackendInv, which       *)
(* bounds the ids that NextId goes on from.                                *)
(***************************************************************************)
EXTENDS UserApp, WellFoundedInduction, SequenceTheorems, TLAPS

BoundedIds(S) == \E m \in Nat : \A a \in S : a.id <= m

BackendInv ==
    /\ BackendTypeOK
    /\ UniqueAccounts
    /\ BoundedIds(storedUsers)
    /\ \A t \in Tabs : BoundedIds(users[t])

-----------------------------------------------------------------------------
\* Ids that are bounded have a largest one, and it is what LargestId returns.
LEMMA LargestIdProperties ==
    ASSUME NEW S \in SUBSET Account, S # {}, BoundedIds(S)
    PROVE  /\ \E a \in S : LargestId(S) = a.id
           /\ \A a \in S : a.id <= LargestId(S)
<1> DEFINE Ids == { a.id : a \in S }
           Bounds == { m \in Nat : \A i \in Ids : i <= m }
<1>1. \A a \in S : a.id \in Nat \ {0}
  BY DEF Account, AccountId
<1>2. Bounds \subseteq Nat /\ Bounds # {}
  BY <1>1 DEF BoundedIds
<1>3. PICK m \in Bounds : \A n \in Bounds : ~(<<n, m>> \in OpToRel(<, Nat))
  <2> HIDE DEF Bounds
  <2> QED  BY <1>2, NatLessThanWellFounded, WFMin
<1>4. \A n \in Bounds : ~(n < m)
  BY <1>2, <1>3 DEF OpToRel
<1>5. m \in Nat /\ \A a \in S : a.id <= m
  BY <1>2, <1>3
<1>6. PICK b \in S : b.id = m
  <2>1. SUFFICES ASSUME \A a \in S : a.id # m  PROVE FALSE
    OBVIOUS
  <2>2. m - 1 \in Nat
    <3>1. PICK a \in S : TRUE
      OBVIOUS
    <3> QED  BY <1>1, <1>5, <3>1
  <2>3. \A a \in S : a.id <= m - 1
    BY <1>1, <1>5, <2>1
  <2>4. m - 1 \in Bounds
    BY <2>2, <2>3
  <2>5. ~(m - 1 < m)
    <3> HIDE DEF Bounds
    <3> QED  BY <1>4, <2>4
  <2> QED  BY <1>5, <2>5
<1>7. m \in Ids /\ \A a \in S : a.id <= m
  BY <1>5, <1>6
<1>8. LargestId(S) \in Ids /\ \A a \in S : a.id <= LargestId(S)
  BY <1>7 DEF LargestId
<1> QED  BY <1>8

\* NextId is an id that no account of the array has.
LEMMA NextIdIsFresh ==
    ASSUME NEW S \in SUBSET Account, BoundedIds(S)
    PROVE  NextId(S) \in AccountId /\ \A a \in S : a.id < NextId(S)
<1>1. CASE S = {}
  BY <1>1 DEF NextId, AccountId
<1>2. CASE S # {}
  <2>1. \A a \in S : a.id \in Nat \ {0}
    BY DEF Account, AccountId
  <2>2. LargestId(S) \in Nat /\ \A a \in S : a.id <= LargestId(S)
    BY <1>2, <2>1, LargestIdProperties
  <2> QED  BY <1>2, <2>1, <2>2 DEF NextId, AccountId
<1> QED  BY <1>1, <1>2

\* What a registration makes of an array, in memory or in storage.
LEMMA RegistrationKeepsDistinct ==
    ASSUME NEW S \in SUBSET Account, BoundedIds(S), Distinct(S),
           NEW n \in Names, NEW pw \in Passwords, ~Taken(S, n),
           NEW T, T = S \cup {[id |-> NextId(S), name |-> n, pw |-> pw]}
    PROVE  T \in SUBSET Account /\ Distinct(T) /\ BoundedIds(T)
<1> DEFINE new == [id |-> NextId(S), name |-> n, pw |-> pw]
<1>1. NextId(S) \in AccountId /\ \A a \in S : a.id < NextId(S)
  BY NextIdIsFresh
<1>2. \A a \in S : a.id \in Nat /\ a.name # n
  BY DEF Account, AccountId, Taken
<1>3. T \in SUBSET Account
  BY <1>1 DEF Account
<1>4. Distinct(T)
  <2>1. \A a \in S : a.id # new.id /\ a.name # new.name
    BY <1>1, <1>2 DEF AccountId
  <2> QED  BY <2>1 DEF Distinct
<1>5. BoundedIds(T)
  <2>1. NextId(S) \in Nat /\ \A a \in T : a.id <= NextId(S)
    BY <1>1, <1>2 DEF AccountId
  <2> QED  BY <2>1 DEF BoundedIds
<1> QED  BY <1>3, <1>4, <1>5

\* What a deletion makes of it.
LEMMA DeletionKeepsDistinct ==
    ASSUME NEW S \in SUBSET Account, BoundedIds(S), Distinct(S), NEW id
    PROVE  /\ Without(S, id) \in SUBSET Account
           /\ Distinct(Without(S, id))
           /\ BoundedIds(Without(S, id))
BY DEF Without, Distinct, BoundedIds

\* Any write of a good list keeps the invariant, whether or not it reaches storage.
LEMMA OverwriteKeepsInv ==
    ASSUME BackendInv, NEW t \in Tabs, NEW S, NEW saved \in BOOLEAN,
           S \in SUBSET Account, Distinct(S), BoundedIds(S),
           Overwrite(t, S, saved)
    PROVE  BackendInv'
<1>1. BackendTypeOK'
  BY DEF BackendInv, BackendTypeOK, Overwrite
<1>2. \A u \in Tabs : users'[u] = IF u = t THEN S ELSE users[u]
  BY DEF BackendInv, BackendTypeOK, Overwrite
<1>3. storedUsers' = S \/ storedUsers' = storedUsers
  BY DEF Overwrite
<1>4. UniqueAccounts'
  <2>1. Distinct(storedUsers')
    BY <1>3 DEF BackendInv, UniqueAccounts
  <2>2. \A u \in Tabs : Distinct(users'[u])
    BY <1>2 DEF BackendInv, UniqueAccounts
  <2> QED  BY <2>1, <2>2 DEF UniqueAccounts, Distinct
<1>5. BoundedIds(storedUsers)' /\ \A u \in Tabs : BoundedIds(users[u])'
  BY <1>2, <1>3 DEF BackendInv, BoundedIds
<1> QED  BY <1>1, <1>4, <1>5 DEF BackendInv

-----------------------------------------------------------------------------
LEMMA BackendInvInit == BackendInit => BackendInv
BY DEF BackendInit, BackendInv, BackendTypeOK, UniqueAccounts, Distinct, BoundedIds

LEMMA BackendInvStep == BackendInv /\ [BackendNext]_backendVars => BackendInv'
<1> SUFFICES ASSUME BackendInv, [BackendNext]_backendVars  PROVE BackendInv'
  OBVIOUS
<1>1. ASSUME NEW t \in Tabs, LoadUsers(t)  PROVE BackendInv'
  BY <1>1, OverwriteKeepsInv DEF LoadUsers, BackendInv, BackendTypeOK, UniqueAccounts
<1>2. ASSUME NEW t \in Tabs, NEW saved \in BOOLEAN, NEW n \in Names, NEW pw \in Passwords,
             RegisterUser(t, n, pw, saved)
      PROVE  BackendInv'
  <2> DEFINE T == users[t] \cup {[id |-> NextId(users[t]), name |-> n, pw |-> pw]}
  <2>1. users[t] \in SUBSET Account /\ BoundedIds(users[t]) /\ Distinct(users[t])
    BY DEF BackendInv, BackendTypeOK, UniqueAccounts
  <2>2. ~Taken(users[t], n) /\ Overwrite(t, T, saved)
    BY <1>2 DEF RegisterUser
  <2>3. T \in SUBSET Account /\ Distinct(T) /\ BoundedIds(T)
    BY <2>1, <2>2, RegistrationKeepsDistinct
  <2> QED  BY <2>2, <2>3, OverwriteKeepsInv
<1>3. ASSUME NEW t \in Tabs, NEW saved \in BOOLEAN, NEW id, DeleteUser(t, id, saved)
      PROVE  BackendInv'
  <2>1. users[t] \in SUBSET Account /\ BoundedIds(users[t]) /\ Distinct(users[t])
    BY DEF BackendInv, BackendTypeOK, UniqueAccounts
  <2>2. CASE UNCHANGED backendVars
    BY <2>2 DEF backendVars, BackendInv, BackendTypeOK, UniqueAccounts, Distinct, BoundedIds
  <2>3. CASE Overwrite(t, Without(users[t], id), saved)
    BY <2>1, <2>3, DeletionKeepsDistinct, OverwriteKeepsInv
  <2> QED  BY <1>3, <2>2, <2>3 DEF DeleteUser
<1>4. ASSUME UNCHANGED backendVars  PROVE BackendInv'
  BY <1>4 DEF backendVars, BackendInv, BackendTypeOK, UniqueAccounts, Distinct, BoundedIds
<1>5. \A saved \in SetItemOutcomes : saved \in BOOLEAN
  BY DEF SetItemOutcomes
<1> QED  BY <1>1, <1>2, <1>3, <1>4, <1>5 DEF BackendNext

\* The backend's arrays and the stored list hold accounts, whatever tabs do.
THEOREM BackendTypeCorrect == BackendSpec => []BackendTypeOK
<1>1. BackendInv => BackendTypeOK
  BY DEF BackendInv
<1> QED  BY <1>1, BackendInvInit, BackendInvStep, PTL DEF BackendSpec

\* No two accounts of an array or of the stored list share an id or a name, for any
\* number of tabs overwriting the list with copies of different age.
THEOREM AccountsAreUnique == BackendSpec => []UniqueAccounts
<1>1. BackendInv => UniqueAccounts
  BY DEF BackendInv
<1> QED  BY <1>1, BackendInvInit, BackendInvStep, PTL DEF BackendSpec

\* Both together: what any tabs leave of the accounts.
THEOREM AccountsAreCorrect == BackendSpec => []AccountsCorrect
BY BackendTypeCorrect, AccountsAreUnique, PTL DEF AccountsCorrect

-----------------------------------------------------------------------------
(***************************************************************************)
(* One tab whose writes succeed.  Its array is then always what is stored, *)
(* so each write to localStorage adds or removes one account.              *)
(***************************************************************************)
Current == \A t \in Tabs : users[t] = storedUsers

\* What deleting an id removes from a list of distinct accounts is one account.
LEMMA WithoutOne ==
    ASSUME NEW S, Distinct(S), NEW a \in S
    PROVE  Without(S, a.id) = S \ {a}
BY DEF Without, Distinct

LEMMA RegistryStep ==
    ASSUME ~StorageFails, \A t, u \in Tabs : t = u,
           BackendInv, Current, [BackendNext]_backendVars
    PROVE  Current' /\ [Registry!Enter \/ Registry!Leave]_storedUsers
<1>1. ASSUME NEW t \in Tabs, NEW S, NEW saved,
             Overwrite(t, S, saved), saved = TRUE \/ S = storedUsers
      PROVE  Current' /\ storedUsers' = S
  BY <1>1 DEF Overwrite, Current, BackendInv, BackendTypeOK
<1>2. ASSUME NEW t \in Tabs, LoadUsers(t)  PROVE Current' /\ UNCHANGED storedUsers
  BY <1>1, <1>2 DEF LoadUsers
<1>3. ASSUME NEW t \in Tabs, NEW n \in Names, NEW pw \in Passwords, RegisterUser(t, n, pw, TRUE)
      PROVE  Current' /\ Registry!Enter
  <2> DEFINE new == [id |-> NextId(users[t]), name |-> n, pw |-> pw]
  <2>1. users[t] = storedUsers /\ users[t] \in SUBSET Account /\ BoundedIds(users[t])
    BY DEF Current, BackendInv, BackendTypeOK
  <2>2. ~Taken(users[t], n) /\ Overwrite(t, users[t] \cup {new}, TRUE)
    BY <1>3 DEF RegisterUser
  <2>3. NextId(users[t]) \in AccountId /\ \A a \in users[t] : a.id < NextId(users[t])
    BY <2>1, NextIdIsFresh
  <2>4. Current' /\ storedUsers' = storedUsers \cup {new}
    BY <1>1, <2>1, <2>2
  <2>5. new \in Account /\ new \in storedUsers'
    BY <2>3, <2>4 DEF Account
  <2>6. \A b \in storedUsers : new.id # b.id /\ new.name # b.name
    <3>1. \A b \in storedUsers : b.id \in Nat /\ b.id < new.id /\ new.id \in Nat
      BY <2>1, <2>3 DEF Account, AccountId
    <3>2. \A b \in storedUsers : b.name # n
      BY <2>1, <2>2 DEF Taken
    <3> QED  BY <3>1, <3>2
  <2> QED  BY <2>4, <2>5, <2>6
          DEF Registry!Enter, Registry!Account, Registry!AccountId, Account, AccountId
<1>4. ASSUME NEW t \in Tabs, NEW a \in users[t], DeleteUser(t, a.id, TRUE)
      PROVE  Current' /\ Registry!Leave
  <2>1. users[t] = storedUsers /\ Distinct(users[t])
    BY DEF Current, BackendInv, UniqueAccounts
  <2>2. Overwrite(t, Without(users[t], a.id), TRUE)
    BY <1>4 DEF DeleteUser
  <2>3. Current' /\ storedUsers' = storedUsers \ {a}
    BY <1>1, <2>1, <2>2, WithoutOne
  <2> QED  BY <2>1, <2>3 DEF Registry!Leave
<1>5. ASSUME UNCHANGED backendVars  PROVE Current' /\ UNCHANGED storedUsers
  BY <1>5 DEF backendVars, Current
<1> QED  BY <1>2, <1>3, <1>4, <1>5 DEF BackendNext, SetItemOutcomes

\* One tab whose writes succeed is an account service: each change of the stored list is
\* one account entering under an unused id and name, or one leaving, across all reloads.
THEOREM OneTabIsARegistry ==
    ASSUME ~StorageFails, \A t, u \in Tabs : t = u
    PROVE  BackendSpec => ImplementsRegistry
<1>1. BackendInit => BackendInv /\ Current /\ Registry!RegistryInit
  BY BackendInvInit DEF BackendInit, Current, Registry!RegistryInit
<1>2. BackendInv /\ Current /\ [BackendNext]_backendVars
        => BackendInv' /\ Current' /\ [Registry!Enter \/ Registry!Leave]_storedUsers
  BY BackendInvStep, RegistryStep
<1> QED  BY <1>1, <1>2, PTL DEF BackendSpec, ImplementsRegistry, Registry!RegistrySpec

-----------------------------------------------------------------------------
AppInv == TypeOK /\ BackendInv

\* What Rendered returns: never a closed tab.
View == [page  : Page \ {"closed"},
         path  : Path,
         user  : Session \cup {NoUser},
         store : StoreState,
         timers : Seq(Request)]

-----------------------------------------------------------------------------
(***************************************************************************)
(* The reducers keep their slices well-formed: whatever a thunk or a page  *)
(* dispatches, in whatever state, the store stays one that the pages can   *)
(* read.                                                                   *)
(***************************************************************************)
\* The actions that are dispatched, by their type and payload.
AnAction ==
    [type : {"LOGIN_FAILURE", "LOGOUT", "REGISTER_REQUEST", "REGISTER_SUCCESS",
             "REGISTER_FAILURE", "GETALL_REQUEST", "GETALL_FAILURE",
             "ALERT_SUCCESS", "ALERT_ERROR", "ALERT_CLEAR"}]
    \cup [type : {"LOGIN_REQUEST"}, name : Names]
    \cup [type : {"LOGIN_SUCCESS"}, user : Session]
    \cup [type : {"GETALL_SUCCESS"}, users : SUBSET Account]
    \cup [type : {"DELETE_REQUEST", "DELETE_SUCCESS", "DELETE_FAILURE"}, id : AccountId]

-----------------------------------------------------------------------------
LEMMA AuthenticationType ==
    ASSUME NEW s \in AuthState, NEW a \in AnAction
    PROVE  Authentication(s, a) \in AuthState
<1>1. LoggedOut \in AuthState
  BY DEF AuthState
<1>2. \A n \in Names : LoggingIn(n) \in AuthState
  BY DEF AuthState, LoggingIn
<1>3. \A u \in Session : LoggedIn(u) \in AuthState
  BY DEF AuthState, LoggedIn
<1>4. a.type = "LOGIN_REQUEST" => a.name \in Names
  BY DEF AnAction
<1>5. a.type = "LOGIN_SUCCESS" => a.user \in Session
  BY DEF AnAction
<1> QED  BY <1>1, <1>2, <1>3, <1>4, <1>5 DEF Authentication

LEMMA RegistrationType ==
    ASSUME NEW s \in BOOLEAN, NEW a
    PROVE  Registration(s, a) \in BOOLEAN
BY DEF Registration

\* Marking a row leaves the rows rows.
LEMMA MarkedType ==
    ASSUME NEW rows \in SUBSET Row, NEW id, NEW m \in {"none", "deleting", "failed"}
    PROVE  Marked(rows, id, m) \in SUBSET Row
BY DEF Marked, Row

\* Marking changes the mark of one row.
LEMMA MarkedRows ==
    ASSUME NEW rows \in SUBSET Row, NEW id, NEW m \in {"none", "deleting", "failed"},
           NEW r \in Marked(rows, id, m)
    PROVE  \E row \in rows :
              /\ r.id = row.id /\ r.name = row.name
              /\ r.mark = IF row.id = id THEN m ELSE row.mark
<1>1. PICK row \in rows : r = IF row.id = id THEN [row EXCEPT !.mark = m] ELSE row
  BY DEF Marked
<1>2. row \in Row
  OBVIOUS
<1>3. CASE row.id = id
  BY <1>1, <1>2, <1>3 DEF Row
<1>4. CASE row.id # id
  BY <1>1, <1>4
<1> QED  BY <1>3, <1>4

LEMMA UsersListType ==
    ASSUME NEW s \in ListState, NEW a \in AnAction
    PROVE  UsersList(s, a) \in ListState
<1>1. \A ph \in {"empty", "loading", "error"} : NotLoaded(ph) \in ListState
  BY DEF NotLoaded, ListState
<1>2. \A rows \in SUBSET Row : Loaded(rows) \in ListState
  BY DEF Loaded, ListState
<1>3. s.items \in SUBSET Row
  BY DEF ListState
<1>4. a.type = "GETALL_SUCCESS" => { RowOf(u) : u \in a.users } \in SUBSET Row
  <2>1. a.type = "GETALL_SUCCESS" => a.users \in SUBSET Account
    BY DEF AnAction
  <2>2. \A u \in Account : RowOf(u) \in Row
    BY DEF RowOf, Row, Account
  <2> QED  BY <2>1, <2>2
<1>5. /\ Marked(s.items, a.id, "deleting") \in SUBSET Row
      /\ Marked(s.items, a.id, "failed") \in SUBSET Row
      /\ { r \in s.items : r.id # a.id } \in SUBSET Row
  BY <1>3, MarkedType
<1> QED  BY <1>1, <1>2, <1>4, <1>5 DEF UsersList

LEMMA AlertType ==
    ASSUME NEW s \in AlertState, NEW a
    PROVE  Alert(s, a) \in AlertState
BY DEF Alert, AlertState

LEMMA DispatchType ==
    ASSUME NEW s \in StoreState, NEW a \in AnAction
    PROVE  Dispatch(s, a) \in StoreState
<1>1. /\ s.authentication \in AuthState
      /\ s.registration \in BOOLEAN
      /\ s.users \in ListState
      /\ s.alert \in AlertState
  BY DEF StoreState
<1>2. /\ Authentication(s.authentication, a) \in AuthState
      /\ Registration(s.registration, a) \in BOOLEAN
      /\ UsersList(s.users, a) \in ListState
      /\ Alert(s.alert, a) \in AlertState
  BY <1>1, AuthenticationType, RegistrationType, UsersListType, AlertType
<1> QED  BY <1>2 DEF Dispatch, StoreState

LEMMA InitialStoreType ==
    ASSUME NEW u \in Session \cup {NoUser}
    PROVE  InitialStore(u) \in StoreState
<1>1. LoggedOut \in AuthState /\ (u # NoUser => LoggedIn(u) \in AuthState)
  BY DEF AuthState, LoggedIn
<1>2. NotLoaded("empty") \in ListState
  BY DEF NotLoaded, ListState
<1> QED  BY <1>1, <1>2 DEF InitialStore, StoreState, AlertState

-----------------------------------------------------------------------------
\* Requests the services build.
LEMMA RequestType ==
    /\ \A n \in Names, pw \in Passwords :
          Authenticate(n, pw) \in Request /\ Register(n, pw) \in Request
    /\ \A u : GetAll(u) \in Request
    /\ \A u, id : id \in AccountId => Delete(id, u) \in Request
BY DEF Request, Authenticate, Register, GetAll, Delete, AuthHeader

\* What a request carries, by its route.
LEMMA RequestFields ==
    ASSUME NEW r \in Request
    PROVE  /\ r.route \in {"authenticate", "register"} => r.name \in Names /\ r.pw \in Passwords
           /\ r.route = "delete" => r.id \in AccountId
           /\ r.route \in {"getAll", "delete"} => r.token \in BOOLEAN
BY DEF Request

LEMMA MovedType ==
    ASSUME NEW s \in StoreState
    PROVE  Moved(s) \in StoreState
BY DispatchType DEF Moved, AnAction

LEMMA LoginPageMountedType ==
    ASSUME NEW u, NEW s \in StoreState, NEW q \in Seq(Request)
    PROVE  LoginPageMounted(u, s, q) \in View
<1>1. Dispatch(s, [type |-> "LOGOUT"]) \in StoreState
  BY DispatchType DEF AnAction
<1> QED  BY <1>1 DEF LoginPageMounted, Shown, View, Page, Path

LEMMA HomePageMountedType ==
    ASSUME NEW u \in Session \cup {NoUser}, NEW s \in StoreState, NEW q \in Seq(Request)
    PROVE  HomePageMounted(u, s, q) \in View
<1>1. Dispatch(s, [type |-> "GETALL_REQUEST"]) \in StoreState
  BY DispatchType DEF AnAction
<1>2. Append(q, GetAll(u)) \in Seq(Request)
  BY RequestType, AppendProperties
<1> QED  BY <1>1, <1>2 DEF HomePageMounted, Shown, View, Page, Path

LEMMA RenderedType ==
    ASSUME NEW old, NEW p \in Path, NEW u \in Session \cup {NoUser},
           NEW s \in StoreState, NEW q \in Seq(Request)
    PROVE  Rendered(old, p, u, s, q) \in View
<1> DEFINE d  == Destination(p, u)
           s1 == IF d = p THEN s ELSE Dispatch(s, [type |-> "ALERT_CLEAR"])
<1>1. d \in Path \ {"*"}
  BY DEF Destination, Path
<1>2. s1 \in StoreState
  BY DispatchType DEF AnAction
<1>3. PageOf(d) \in Page \ {"closed"}
  BY <1>1 DEF PageOf, Path, Page
<1> HIDE DEF d, s1
<1>4. Shown("blank", p, u, s, q) \in View /\ Shown("blank", d, u, s1, q) \in View
  BY <1>1, <1>2 DEF Shown, View, Page
<1>5. Shown(PageOf(d), d, u, s1, q) \in View
  BY <1>1, <1>2, <1>3 DEF Shown, View
<1>6. HomePageMounted(u, s1, q) \in View /\ LoginPageMounted(u, s1, q) \in View
  BY <1>2, HomePageMountedType, LoginPageMountedType
<1> QED  BY <1>4, <1>5, <1>6 DEF Rendered, d, s1

LEMMA PushedType ==
    ASSUME NEW h \in Seq(Path), NEW i \in 0 .. Len(h), NEW p \in Path
    PROVE  Pushed(h, i, p) \in Seq(Path) /\ Len(Pushed(h, i, p)) \in Nat \ {0}
<1> DEFINE longer == Append(SubSeq(h, 1, i), p)
<1>1. SubSeq(h, 1, i) \in Seq(Path) /\ Len(SubSeq(h, 1, i)) \in Nat
  BY SubSeqProperties, ElementOfSeq, LenProperties
<1>2. longer \in Seq(Path) /\ longer # <<>> /\ Len(longer) \in Nat \ {0}
  BY <1>1, AppendProperties
<1> HIDE DEF longer
<1>3. Tail(longer) \in Seq(Path) /\ Len(Tail(longer)) = Len(longer) - 1
  BY <1>2, HeadTailProperties
<1>4. Len(longer) > MaxHist => Len(longer) - 1 \in Nat \ {0}
  <2>1. MaxHist \in Nat \ {0}
    BY BoundsAssumption
  <2> DEFINE k == Len(longer)
  <2>2. k \in Nat
    BY <1>2
  <2> HIDE DEF k
  <2>3. k > MaxHist => k - 1 \in Nat \ {0}
    BY <2>1, <2>2
  <2> QED  BY <2>3 DEF k
<1> QED  BY <1>2, <1>3, <1>4 DEF Pushed, longer

-----------------------------------------------------------------------------
(***************************************************************************)
(* Each step as the backend sees it.                                       *)
(***************************************************************************)
LEMMA StepIsBackendStep == TypeOK /\ [Next]_vars => [BackendNext]_backendVars
<1> SUFFICES ASSUME TypeOK, [Next]_vars  PROVE [BackendNext]_backendVars
  OBVIOUS
<1>1. ASSUME NEW t \in Tabs, LoadUsers(t)  PROVE BackendNext
  BY <1>1 DEF BackendNext
<1>2. ASSUME NEW t \in Tabs, NEW saved \in SetItemOutcomes, NEW n \in Names, NEW pw \in Passwords,
             RegisterUser(t, n, pw, saved)
      PROVE  BackendNext
  BY <1>2 DEF BackendNext
<1>3. ASSUME NEW t \in Tabs, NEW saved \in SetItemOutcomes, NEW id, DeleteUser(t, id, saved)
      PROVE  [BackendNext]_backendVars
  <2>1. CASE \E a \in users[t] : a.id = id
    BY <1>3, <2>1 DEF BackendNext
  <2>2. CASE ~ \E a \in users[t] : a.id = id
    BY <1>3, <2>2 DEF DeleteUser
  <2> QED  BY <2>1, <2>2
<1>4. ASSUME NEW t \in Tabs, NEW p, Open(t, p)  PROVE [BackendNext]_backendVars
  BY <1>1, <1>4 DEF Open, Load
<1>5. ASSUME NEW t \in Tabs, Reload(t)  PROVE [BackendNext]_backendVars
  BY <1>1, <1>5 DEF Reload, Load
<1>6. ASSUME NEW t \in Tabs, AnswerRegister(t)  PROVE [BackendNext]_backendVars
  <2> DEFINE r == Head(timers[t])
  <2>1. r \in Request /\ r.route = "register"
    BY <1>6, HeadTailProperties DEF AnswerRegister, Firing, TypeOK
  <2>2. r.name \in Names /\ r.pw \in Passwords
    BY <2>1, RequestFields
  <2>3. \/ UNCHANGED backendVars
        \/ \E saved \in SetItemOutcomes : RegisterUser(t, r.name, r.pw, saved)
    BY <1>6 DEF AnswerRegister
  <2> QED  BY <1>2, <2>2, <2>3
<1>7. ASSUME NEW t \in Tabs, AnswerDelete(t)  PROVE [BackendNext]_backendVars
  BY <1>3, <1>7 DEF AnswerDelete
<1>8. ASSUME UNCHANGED vars  PROVE UNCHANGED backendVars
  BY <1>8 DEF vars, backendVars
<1> QED
  BY <1>4, <1>5, <1>6, <1>7, <1>8
     DEF Next, ClickLink, Link, Traverse, SubmitLogin, SubmitRegister, ClickDelete,
         AnswerLogin, AnswerGetAll

-----------------------------------------------------------------------------
(***************************************************************************)
(* The two ways a step changes a tab keep the types.                       *)
(***************************************************************************)
LEMMA StayType ==
    ASSUME TypeOK, BackendTypeOK', NEW t \in Tabs,
           NEW s \in StoreState, NEW q \in Seq(Request), Stay(t, s, q)
    PROVE  TypeOK'
BY DEF TypeOK, Stay

LEMMA ShowType ==
    ASSUME TypeOK, BackendTypeOK', NEW t \in Tabs, NEW v \in View, Show(t, v),
           NEW h \in Seq(Path), NEW i \in 1 .. Len(h),
           hist' = [hist EXCEPT ![t] = h], at' = [at EXCEPT ![t] = i]
    PROVE  TypeOK'
<1>1. /\ v.page \in Page /\ v.page # "closed"
      /\ v.user \in Session \cup {NoUser}
      /\ v.store \in StoreState
      /\ v.timers \in Seq(Request)
  BY DEF View
<1>2. i \in Nat
  BY LenProperties
<1>3. /\ storedUser' \in Session \cup {NoUser}
      /\ store' \in [Tabs -> StoreState]
      /\ timers' \in [Tabs -> Seq(Request)]
      /\ page' \in [Tabs -> Page]
  BY <1>1 DEF TypeOK, Show
<1>4. hist' \in [Tabs -> Seq(Path)] /\ at' \in [Tabs -> Nat]
  BY <1>2 DEF TypeOK
<1>5. ASSUME NEW u \in Tabs
      PROVE  at'[u] \in (IF page'[u] = "closed" THEN {0} ELSE 1 .. Len(hist'[u]))
  <2>1. CASE u = t
    BY <1>1, <2>1 DEF TypeOK, Show
  <2>2. CASE u # t
    BY <2>2 DEF TypeOK, Show
  <2> QED  BY <2>1, <2>2
<1> QED  BY <1>3, <1>4, <1>5 DEF TypeOK

LEMMA PushType ==
    ASSUME TypeOK, BackendTypeOK', NEW t \in Tabs, NEW p \in Path,
           NEW u \in Session \cup {NoUser}, NEW s \in StoreState, NEW q \in Seq(Request),
           Push(t, p, u, s, q)
    PROVE  TypeOK'
<1> DEFINE r == Rendered(page[t], p, u, Moved(s), q)
           h == Pushed(hist[t], at[t], r.path)
<1>1. r \in View
  BY MovedType, RenderedType
<1>2. r.path \in Path
  BY <1>1 DEF View
<1>3. hist[t] \in Seq(Path) /\ at[t] \in 0 .. Len(hist[t])
  BY LenProperties DEF TypeOK
<1>4. h \in Seq(Path) /\ Len(h) \in Nat \ {0}
  BY <1>2, <1>3, PushedType
<1> HIDE DEF r
<1>5. Show(t, r) /\ hist' = [hist EXCEPT ![t] = h] /\ at' = [at EXCEPT ![t] = Len(hist'[t])]
  BY DEF Push, r
<1> HIDE DEF h
<1>6. at' = [at EXCEPT ![t] = Len(h)] /\ Len(h) \in 1 .. Len(h)
  BY <1>4, <1>5 DEF TypeOK
<1> QED  BY <1>1, <1>4, <1>5, <1>6, ShowType

-----------------------------------------------------------------------------
(***************************************************************************)
(* TypeOK, action by action.                                               *)
(***************************************************************************)
LEMMA LoadType ==
    ASSUME TypeOK, BackendTypeOK', NEW t \in Tabs, NEW h \in Seq(Path), NEW i \in 1 .. Len(h),
           Load(t, h, i)
    PROVE  TypeOK'
<1> DEFINE r == Rendered("closed", h[i], storedUser, InitialStore(storedUser), <<>>)
<1>1. storedUser \in Session \cup {NoUser} /\ h[i] \in Path
  BY ElementOfSeq DEF TypeOK
<1>2. r \in View
  BY <1>1, InitialStoreType, RenderedType, EmptySeq
<1>3. r.path \in Path
  BY <1>2 DEF View
<1> HIDE DEF r
<1>4. [h EXCEPT ![i] = r.path] \in Seq(Path) /\ Len([h EXCEPT ![i] = r.path]) = Len(h)
  BY <1>3, ExceptSeq
<1>5. /\ Show(t, r)
      /\ hist' = [hist EXCEPT ![t] = [h EXCEPT ![i] = r.path]]
      /\ at' = [at EXCEPT ![t] = i]
  BY DEF Load, r
<1> QED  BY <1>2, <1>4, <1>5, ShowType

LEMMA TraverseType ==
    ASSUME TypeOK, BackendTypeOK', NEW t \in Tabs, NEW i, Traverse(t, i)
    PROVE  TypeOK'
<1> DEFINE s == Moved(store[t])
           before == IF Evicted(t)
                       THEN LoginPageMounted(storedUser, s, timers[t])
                       ELSE Shown(page[t], "/", storedUser, s, timers[t])
           r == Rendered(before.page, hist[t][i], storedUser, before.store, timers[t])
           p == IF Evicted(t) THEN "/login" ELSE r.path
           h == [hist[t] EXCEPT ![i] = p]
<1>1. hist[t] \in Seq(Path) /\ i \in 1 .. Len(hist[t]) /\ hist[t][i] \in Path
  BY ElementOfSeq DEF Traverse, TypeOK
<1>2. s \in StoreState /\ timers[t] \in Seq(Request)
  BY MovedType DEF TypeOK
<1>3. before.store \in StoreState
  BY <1>2, LoginPageMountedType DEF View, Shown
<1>4. r \in View
  BY <1>1, <1>2, <1>3, RenderedType DEF TypeOK
<1> HIDE DEF r
<1>5. p \in Path
  BY <1>4 DEF View, Path
<1> HIDE DEF p
<1>6. h \in Seq(Path) /\ Len(h) = Len(hist[t])
  BY <1>1, <1>5, ExceptSeq
<1>7. Show(t, r) /\ hist' = [hist EXCEPT ![t] = h] /\ at' = [at EXCEPT ![t] = i]
  BY DEF Traverse, TypeOK, r, p
<1> QED  BY <1>1, <1>4, <1>6, <1>7, ShowType

LEMMA RerenderType ==
    ASSUME TypeOK, BackendTypeOK', NEW t \in Tabs,
           NEW s \in StoreState, NEW q \in Seq(Request), Rerender(t, s, q)
    PROVE  TypeOK'
<1>1. CASE Evicted(t)
  <2> DEFINE r == LoginPageMounted(storedUser, Moved(s), q)
             h == [hist[t] EXCEPT ![at[t]] = "/login"]
  <2>1. r \in View
    BY MovedType, LoginPageMountedType
  <2> HIDE DEF r
  <2>2. hist[t] \in Seq(Path) /\ at[t] \in 1 .. Len(hist[t])
    BY <1>1 DEF TypeOK, Evicted
  <2>3. h \in Seq(Path) /\ Len(h) = Len(hist[t])
    BY <2>2, ExceptSeq DEF Path
  <2>4. Show(t, r) /\ hist' = [hist EXCEPT ![t] = h] /\ at' = [at EXCEPT ![t] = at[t]]
    BY <1>1 DEF Rerender, TypeOK, r
  <2> QED  BY <2>1, <2>2, <2>3, <2>4, ShowType
<1>2. CASE ~Evicted(t)
  BY <1>2, StayType DEF Rerender
<1> QED  BY <1>1, <1>2

LEMMA UserActionType ==
    ASSUME TypeOK, BackendTypeOK', NEW t \in Tabs,
           \/ ClickLink(t)
           \/ \E n \in Names, pw \in Passwords : SubmitLogin(t, n, pw) \/ SubmitRegister(t, n, pw)
           \/ \E row \in store[t].users.items : ClickDelete(t, row)
    PROVE  TypeOK'
<1>1. /\ store[t] \in StoreState
      /\ timers[t] \in Seq(Request)
      /\ storedUser \in Session \cup {NoUser}
  BY DEF TypeOK
<1>2. CASE ClickLink(t)
  BY <1>1, <1>2, PushType DEF ClickLink, Link, Path
<1>3. ASSUME NEW n \in Names, NEW pw \in Passwords, SubmitLogin(t, n, pw)  PROVE TypeOK'
  <2>1. Dispatch(store[t], [type |-> "LOGIN_REQUEST", name |-> n]) \in StoreState
    BY <1>1, DispatchType DEF AnAction
  <2>2. Append(timers[t], Authenticate(n, pw)) \in Seq(Request)
    BY <1>1, RequestType, AppendProperties
  <2> QED  BY <1>3, <2>1, <2>2, StayType DEF SubmitLogin
<1>4. ASSUME NEW n \in Names, NEW pw \in Passwords, SubmitRegister(t, n, pw)  PROVE TypeOK'
  <2>1. Dispatch(store[t], [type |-> "REGISTER_REQUEST"]) \in StoreState
    BY <1>1, DispatchType DEF AnAction
  <2>2. Append(timers[t], Register(n, pw)) \in Seq(Request)
    BY <1>1, RequestType, AppendProperties
  <2> QED  BY <1>4, <2>1, <2>2, StayType DEF SubmitRegister
<1>5. ASSUME NEW row \in store[t].users.items, ClickDelete(t, row)  PROVE TypeOK'
  <2>1. row.id \in AccountId
    BY <1>1 DEF StoreState, ListState, Row
  <2>2. Dispatch(store[t], [type |-> "DELETE_REQUEST", id |-> row.id]) \in StoreState
    BY <1>1, <2>1, DispatchType DEF AnAction
  <2>3. Append(timers[t], Delete(row.id, storedUser)) \in Seq(Request)
    BY <1>1, <2>1, RequestType, AppendProperties
  <2> QED  BY <1>5, <2>2, <2>3, StayType DEF ClickDelete
<1> QED  BY <1>2, <1>3, <1>4, <1>5

LEMMA AnswerLoginType ==
    ASSUME TypeOK, BackendTypeOK', NEW t \in Tabs, AnswerLogin(t)
    PROVE  TypeOK'
<1>1. store[t] \in StoreState /\ storedUser \in Session \cup {NoUser}
  BY DEF TypeOK
<1>2. Tail(timers[t]) \in Seq(Request)
  BY HeadTailProperties DEF AnswerLogin, Firing, TypeOK
<1>3. ASSUME NEW a \in users[t], LoginSucceeds(t, a)  PROVE TypeOK'
  <2>1. SessionOf(a) \in Session
    BY DEF SessionOf, Session, Account, TypeOK, BackendTypeOK
  <2>2. Dispatch(store[t], [type |-> "LOGIN_SUCCESS", user |-> SessionOf(a)]) \in StoreState
    BY <1>1, <2>1, DispatchType DEF AnAction
  <2> QED  BY <1>2, <1>3, <2>1, <2>2, PushType DEF LoginSucceeds, Path
<1>4. ASSUME LoginFails(t)  PROVE TypeOK'
  <2> DEFINE s == Dispatch(store[t], [type |-> "LOGIN_FAILURE"])
             v == Shown("blank", "/", storedUser, s, Tail(timers[t]))
  <2>1. s \in StoreState
    BY <1>1, DispatchType DEF AnAction
  <2> HIDE DEF s
  <2>2. Dispatch(s, [type |-> "ALERT_ERROR"]) \in StoreState
    BY <2>1, DispatchType DEF AnAction
  <2>3. ASSUME page[t] = "HomePage", Show(t, v), UNCHANGED <<hist, at>>  PROVE TypeOK'
    <3>1. v \in View
      BY <1>1, <1>2, <2>1 DEF View, Shown, Page, Path
    <3>2. hist[t] \in Seq(Path) /\ at[t] \in 1 .. Len(hist[t])
      BY <2>3 DEF TypeOK
    <3>3. hist' = [hist EXCEPT ![t] = hist[t]] /\ at' = [at EXCEPT ![t] = at[t]]
      BY <2>3 DEF TypeOK
    <3> HIDE DEF v
    <3> QED  BY <2>3, <3>1, <3>2, <3>3, ShowType
  <2>4. ASSUME Stay(t, Dispatch(s, [type |-> "ALERT_ERROR"]), Tail(timers[t]))  PROVE TypeOK'
    BY <1>2, <2>2, <2>4, StayType
  <2> QED  BY <1>4, <2>3, <2>4 DEF LoginFails, s
<1> QED  BY <1>3, <1>4 DEF AnswerLogin, Matching

LEMMA RegisteredType ==
    ASSUME TypeOK, BackendTypeOK', NEW t \in Tabs, Tail(timers[t]) \in Seq(Request),
           Registered(t)
    PROVE  TypeOK'
<1> DEFINE s == Moved(Dispatch(store[t], [type |-> "REGISTER_SUCCESS"]))
           r == Rendered(page[t], "/login", storedUser, s, Tail(timers[t]))
           v == [r EXCEPT !.store = Dispatch(@, [type |-> "ALERT_SUCCESS"])]
           h == Pushed(hist[t], at[t], r.path)
<1>1. s \in StoreState
  BY DispatchType, MovedType DEF AnAction, TypeOK
<1> HIDE DEF s
<1>2. r \in View
  BY <1>1, RenderedType DEF TypeOK, Path
<1> HIDE DEF r
<1>3. r.path \in Path /\ Dispatch(r.store, [type |-> "ALERT_SUCCESS"]) \in StoreState
  BY <1>2, DispatchType DEF View, AnAction
<1>4. v \in View
  BY <1>2, <1>3 DEF View
<1>5. hist[t] \in Seq(Path) /\ at[t] \in 0 .. Len(hist[t])
  BY LenProperties DEF TypeOK
<1>6. h \in Seq(Path) /\ Len(h) \in Nat \ {0}
  BY <1>3, <1>5, PushedType
<1>7. Show(t, v) /\ hist' = [hist EXCEPT ![t] = h] /\ at' = [at EXCEPT ![t] = Len(hist'[t])]
  BY DEF Registered, s, r, TypeOK
<1> HIDE DEF v, h
<1>8. at' = [at EXCEPT ![t] = Len(h)] /\ Len(h) \in 1 .. Len(h)
  BY <1>6, <1>7 DEF TypeOK
<1> QED  BY <1>4, <1>6, <1>7, <1>8, ShowType

LEMMA AnswerRegisterType ==
    ASSUME TypeOK, BackendTypeOK', NEW t \in Tabs, AnswerRegister(t)
    PROVE  TypeOK'
<1> DEFINE s == Dispatch(Dispatch(store[t], [type |-> "REGISTER_FAILURE"]), [type |-> "ALERT_ERROR"])
<1>1. store[t] \in StoreState
  BY DEF TypeOK
<1>2. Tail(timers[t]) \in Seq(Request)
  BY HeadTailProperties DEF AnswerRegister, Firing, TypeOK
<1>3. Dispatch(store[t], [type |-> "REGISTER_FAILURE"]) \in StoreState
  BY <1>1, DispatchType DEF AnAction
<1>4. s \in StoreState
  BY <1>3, DispatchType DEF AnAction
<1> QED  BY <1>1, <1>2, <1>4, RerenderType, RegisteredType, StayType DEF AnswerRegister

LEMMA AnswerGetAllType ==
    ASSUME TypeOK, BackendTypeOK', NEW t \in Tabs, AnswerGetAll(t)
    PROVE  TypeOK'
<1>1. store[t] \in StoreState /\ users[t] \in SUBSET Account
  BY DEF TypeOK, BackendTypeOK
<1>2. Tail(timers[t]) \in Seq(Request)
  BY HeadTailProperties DEF AnswerGetAll, Firing, TypeOK
<1>3. /\ Dispatch(store[t], [type |-> "GETALL_SUCCESS", users |-> users[t]]) \in StoreState
      /\ Dispatch(store[t], [type |-> "GETALL_FAILURE"]) \in StoreState
  <2>1. [type |-> "GETALL_SUCCESS", users |-> users[t]] \in AnAction
    BY <1>1 DEF AnAction
  <2>2. [type |-> "GETALL_FAILURE"] \in AnAction
    BY DEF AnAction
  <2> QED  BY <1>1, <2>1, <2>2, DispatchType
<1> QED  BY <1>2, <1>3, StayType DEF AnswerGetAll

LEMMA AnswerDeleteType ==
    ASSUME TypeOK, BackendTypeOK', NEW t \in Tabs, AnswerDelete(t)
    PROVE  TypeOK'
<1> DEFINE r == Head(timers[t])
<1>1. store[t] \in StoreState
  BY DEF TypeOK
<1>2. Tail(timers[t]) \in Seq(Request) /\ r \in Request /\ r.route = "delete"
  BY HeadTailProperties DEF AnswerDelete, Firing, TypeOK
<1>3. r.id \in AccountId
  BY <1>2, RequestFields
<1>4. \A type \in {"DELETE_SUCCESS", "DELETE_FAILURE"} :
          Dispatch(store[t], [type |-> type, id |-> r.id]) \in StoreState
  BY <1>1, <1>3, DispatchType DEF AnAction
<1> QED  BY <1>1, <1>2, <1>4, StayType DEF AnswerDelete

-----------------------------------------------------------------------------
LEMMA AppInvInit == Init => AppInv
<1> SUFFICES ASSUME Init  PROVE AppInv
  OBVIOUS
<1>1. BackendInv
  BY BackendInvInit DEF Init
<1>2. InitialStore(NoUser) \in StoreState
  BY InitialStoreType
<1>3. TypeOK
  BY <1>1, <1>2, EmptySeq DEF BackendInv, Init, TypeOK, Page
<1> QED  BY <1>1, <1>3 DEF AppInv

LEMMA AppInvStep == AppInv /\ [Next]_vars => AppInv'
<1> SUFFICES ASSUME AppInv, [Next]_vars  PROVE AppInv'
  OBVIOUS
<1>1. TypeOK /\ BackendInv
  BY DEF AppInv
<1>2. BackendInv' /\ BackendTypeOK'
  BY <1>1, StepIsBackendStep, BackendInvStep DEF BackendInv
<1>3. ASSUME NEW t \in Tabs, NEW p \in Path, Open(t, p)  PROVE TypeOK'
  <2> DEFINE h == <<p>>
  <2>1. h \in Seq(Path) /\ 1 \in 1 .. Len(h)
    OBVIOUS
  <2>2. Load(t, h, 1)
    BY <1>3 DEF Open
  <2> HIDE DEF h
  <2> QED  BY <1>1, <1>2, <2>1, <2>2, LoadType
<1>4. ASSUME NEW t \in Tabs, Reload(t)  PROVE TypeOK'
  <2>1. hist[t] \in Seq(Path) /\ at[t] \in 1 .. Len(hist[t])
    BY <1>1, <1>4 DEF Reload, TypeOK
  <2> QED  BY <1>1, <1>2, <1>4, <2>1, LoadType DEF Reload
<1>5. ASSUME UNCHANGED vars  PROVE TypeOK'
  BY <1>1, <1>5 DEF vars, TypeOK, BackendTypeOK
<1>6. ASSUME NEW t \in Tabs,
             \/ ClickLink(t)
             \/ \E i \in DOMAIN hist[t] : Traverse(t, i)
             \/ \E n \in Names, pw \in Passwords : SubmitLogin(t, n, pw)
             \/ \E n \in Names, pw \in Passwords : SubmitRegister(t, n, pw)
             \/ \E row \in store[t].users.items : ClickDelete(t, row)
      PROVE  TypeOK'
  BY <1>1, <1>2, <1>6, TraverseType, UserActionType
<1>7. ASSUME NEW t \in Tabs,
             AnswerLogin(t) \/ AnswerRegister(t) \/ AnswerGetAll(t) \/ AnswerDelete(t)
      PROVE  TypeOK'
  BY <1>1, <1>2, <1>7, AnswerLoginType, AnswerRegisterType, AnswerGetAllType, AnswerDeleteType
<1>8. TypeOK'
  BY <1>3, <1>4, <1>5, <1>6, <1>7 DEF Next
<1> QED  BY <1>2, <1>8 DEF AppInv

\* Every variable keeps its type: in particular the current entry of an open tab's
\* history exists, through pushes at the limit, redirects and jumps, and every request in
\* flight carries what its route needs.
THEOREM TypeCorrect == Spec => []TypeOK
<1>1. AppInv => TypeOK
  BY DEF AppInv
<1> QED  BY <1>1, AppInvInit, AppInvStep, PTL DEF Spec

\* The application uses the backend as BackendSpec lets it.
THEOREM AppUsesBackend == Spec => BackendSpec
<1>1. Init => BackendInit
  BY DEF Init
<1>2. AppInv /\ [Next]_vars => [BackendNext]_backendVars
  BY StepIsBackendStep DEF AppInv
<1> QED  BY <1>1, <1>2, AppInvInit, AppInvStep, PTL DEF Spec, BackendSpec

\* So accounts stay unique in every tab and in storage, whatever users do in the pages.
THEOREM AppAccountsAreUnique == Spec => []UniqueAccounts
BY AppUsesBackend, AccountsAreUnique, PTL

\* And one tab whose writes succeed is an account service.
THEOREM OneTabAppIsARegistry ==
    ASSUME ~StorageFails, \A t, u \in Tabs : t = u
    PROVE  Spec => ImplementsRegistry
<1>1. BackendSpec => ImplementsRegistry
  BY OneTabIsARegistry
<1> QED  BY <1>1, AppUsesBackend, PTL
=============================================================================
