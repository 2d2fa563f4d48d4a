----------------------------- MODULE UserService -----------------------------
(***************************************************************************)
(* src/src/_services/user.service.js as the pages use it: the request each *)
(* call hands to window.fetch.  The Authorization header is computed when  *)
(* the call is made, from the session localStorage holds at that moment,   *)
(* and travels with the request; `token` says whether it is there.         *)
(***************************************************************************)
EXTENDS Accounts

Request ==
    [route : {"authenticate", "register"}, name : Names, pw : Passwords]
    \cup [route : {"getAll"}, token : BOOLEAN]
    \cup [route : {"delete"}, token : BOOLEAN, id : AccountId]

AuthHeader(u) == u # NoUser

Authenticate(n, pw) == [route |-> "authenticate", name |-> n, pw |-> pw]
Register(n, pw)     == [route |-> "register", name |-> n, pw |-> pw]
GetAll(u)           == [route |-> "getAll", token |-> AuthHeader(u)]
Delete(id, u)       == [route |-> "delete", token |-> AuthHeader(u), id |-> id]
=============================================================================
