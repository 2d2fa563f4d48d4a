------------------------------ MODULE Accounts ------------------------------
(***************************************************************************)
(* The data of the user-management application: accounts as the fake       *)
(* backend keeps them, sessions as a successful login returns them, and    *)
(* the list operations the backend's request handler performs on its       *)
(* accounts.                                                               *)
(*                                                                         *)
(* An account's first and last name only appear in what the pages show,    *)
(* so they are left out.  The backend's array is a set: no property here   *)
(* depends on its order, and UniqueAccounts (FakeBackend) is what makes    *)
(* "the first match" in the source the only match.                         *)
(***************************************************************************)
EXTENDS Naturals, FiniteSets

CONSTANTS
    Names,      \* the user names people register and log in with
    Passwords,  \* the passwords they use
    NoUser      \* what getItem('user') returns when there is no session (null),
                \* and authentication.user when it is undefined

ASSUME NoUserAssumption ==
    /\ NoUser \notin [id : Nat \ {0}, name : Names]
    /\ NoUser \notin [name : Names]

AccountId == Nat \ {0}
Account   == [id : AccountId, name : Names, pw : Passwords]

\* The login response without its constant token.
Session == [id : AccountId, name : Names]

SessionOf(a) == [id |-> a.id, name |-> a.name]

-----------------------------------------------------------------------------
Matching(S, n, pw) == { a \in S : a.name = n /\ a.pw = pw }

Taken(S, n) == \E a \in S : a.name = n

LargestId(S) == CHOOSE i \in { a.id : a \in S } : \A a \in S : a.id <= i

\* Slips NextId could have: ids counted from the array's length, and no guard for the
\* empty array.
NextIdFromLength(S) == Cardinality(S) + 1
NextIdUnguarded(S)  == IF S = {} THEN 0 ELSE LargestId(S) + 1

NextId(S) == IF S = {} THEN 1 ELSE LargestId(S) + 1

Without(S, id) == { a \in S : a.id # id }
=============================================================================
