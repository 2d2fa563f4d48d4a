--------------------------- MODULE AccountRegistry ---------------------------
(***************************************************************************)
(* What an account service promises, whatever it is made of: one set of    *)
(* accounts that grows by one fresh account at a time and shrinks by one   *)
(* deleted account at a time.  The simulated API of                        *)
(* src/src/_helpers/fake-backend.js stands in for such a service.          *)
(***************************************************************************)
EXTENDS Accounts

VARIABLE accounts

RegistryInit == accounts = {}

Enter ==
    \E a \in accounts' :
        /\ a \in Account
        /\ \A b \in accounts : a.id # b.id /\ a.name # b.name
        /\ accounts' = accounts \cup {a}

Leave == \E a \in accounts : accounts' = accounts \ {a}

RegistrySpec == RegistryInit /\ [][Enter \/ Leave]_accounts
=============================================================================
