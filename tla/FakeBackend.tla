----------------------------- MODULE FakeBackend -----------------------------
(***************************************************************************)
(* src/src/_helpers/fake-backend.js: the account service that runs inside  *)
(* every browser tab.  Each tab reads localStorage's 'users' once, when    *)
(* its modules are evaluated, works on that copy, and overwrites the       *)
(* stored list with the whole copy after each change.                      *)
(*                                                                         *)
(* The actions are the state-changing routes of the request handler,       *)
(* called by UserApp when a request's 500 ms timer fires.  `saved` is      *)
(* whether localStorage.setItem succeeds: it throws when the origin's      *)
(* quota is used up, after the copy in memory has already changed.         *)
(***************************************************************************)
EXTENDS Accounts

CONSTANTS
    Tabs,          \* the browser tabs that have the application open
    StorageFails   \* TRUE if localStorage.setItem may throw

ASSUME StorageAssumption == StorageFails \in BOOLEAN

VARIABLES
    users,        \* users[t]: tab t's module-level `users` array
    storedUsers   \* localStorage's 'users' key (absent is the empty list)

backendVars == <<users, storedUsers>>

BackendTypeOK ==
    /\ users \in [Tabs -> SUBSET Account]
    /\ storedUsers \in SUBSET Account

BackendInit ==
    /\ users = [t \in Tabs |-> {}]
    /\ storedUsers = {}

SetItemOutcomes == IF StorageFails THEN BOOLEAN ELSE {TRUE}

\* The handler changes the array first and stores it afterwards.
Overwrite(t, S, saved) ==
    /\ users' = [users EXCEPT ![t] = S]
    /\ storedUsers' = IF saved THEN S ELSE storedUsers

\* A slip: the stored list is not read.
LoadUsersEmpty(t) == Overwrite(t, {}, FALSE)

LoadUsers(t) == Overwrite(t, storedUsers, FALSE)

RegisterUser(t, n, pw, saved) ==
    /\ ~Taken(users[t], n)
    /\ Overwrite(t, users[t] \cup {[id |-> NextId(users[t]), name |-> n, pw |-> pw]}, saved)

\* A slip: the shorter array is not stored.
DeleteUserInMemory(t, id, saved) ==
    IF \E a \in users[t] : a.id = id
      THEN Overwrite(t, Without(users[t], id), FALSE)
      ELSE UNCHANGED backendVars

DeleteUser(t, id, saved) ==
    IF \E a \in users[t] : a.id = id
      THEN Overwrite(t, Without(users[t], id), saved)
      ELSE UNCHANGED backendVars

BackendNext ==
    \E t \in Tabs :
        \/ LoadUsers(t)
        \/ \E saved \in SetItemOutcomes :
              \/ \E n \in Names, pw \in Passwords : RegisterUser(t, n, pw, saved)
              \/ \E a \in users[t] : DeleteUser(t, a.id, saved)

BackendSpec == BackendInit /\ [][BackendNext]_backendVars

-----------------------------------------------------------------------------
\* No two accounts share an id or a user name, in any tab's array and in the stored
\* list, however many tabs overwrite it with copies of different age and even when a
\* write fails half-way.  The handler's duplicate check and Math.max(...)+1 look at
\* one tab's copy only.
Distinct(S) == \A a, b \in S : a.id = b.id \/ a.name = b.name => a = b

UniqueAccounts ==
    /\ Distinct(storedUsers)
    /\ \A t \in Tabs : Distinct(users[t])

\* Accounts of the types they have, and distinct, in every array and in the stored list.
AccountsCorrect == BackendTypeOK /\ UniqueAccounts

\* The stored accounts are those of one account service: each change is one account
\* entering under an unused id and name, or one leaving.  The backend changes an array
\* and stores a copy of it, so this takes the array to be current whenever it is
\* written, across every reload.
Registry == INSTANCE AccountRegistry WITH accounts <- storedUsers

ImplementsRegistry == Registry!RegistrySpec
=============================================================================
