--------------------------- MODULE ConnectionLease ---------------------------
(***************************************************************************)
(* What the OCM interface promises about connections (pkg/ocm/ocm.go),     *)
(* whatever its cache, its mutex and its watchers do: at most one is live  *)
(* at a time, a user is lent the live one, and one that has expired never  *)
(* comes back.  A loan may outlast its connection: nobody tells the user.  *)
(***************************************************************************)

CONSTANTS
    Users,     \* who may ask for a connection
    Items,     \* the connections there may ever be
    Nothing    \* no connection

VARIABLES
    live,      \* the connections that work
    spent,     \* those that were ever live
    loan       \* loan[u]: the connection lent to u

vars == <<live, spent, loan>>

Init ==
    /\ live = {}
    /\ spent = {}
    /\ loan = [u \in Users |-> Nothing]

Connect(k) ==
    /\ live = {}
    /\ k \notin spent
    /\ live' = {k}
    /\ spent' = spent \cup {k}
    /\ UNCHANGED loan

Lend(u, k) ==
    /\ loan[u] = Nothing
    /\ k \in live
    /\ loan' = [loan EXCEPT ![u] = k]
    /\ UNCHANGED <<live, spent>>

GiveBack(u) ==
    /\ loan[u] # Nothing
    /\ loan' = [loan EXCEPT ![u] = Nothing]
    /\ UNCHANGED <<live, spent>>

Expire(k) ==
    /\ k \in live
    /\ live' = live \ {k}
    /\ UNCHANGED <<spent, loan>>

Next ==
    \/ \E k \in Items : Connect(k) \/ Expire(k)
    \/ \E u \in Users : GiveBack(u) \/ \E k \in Items : Lend(u, k)

Spec == Init /\ [][Next]_vars
=============================================================================
