---------------------------- MODULE AuthService ----------------------------
(***************************************************************************)
(* What the auth system promises the rest of the ircd: a connection that   *)
(* was handed to start_auth is handed back by release_auth_client at most  *)
(* once, unless it departed (exit_client) before; nobody is handed back    *)
(* who was not handed over.  Both Connections, which only knows that auth  *)
(* is pending, and AuthResolver, which runs the lookups, implement it.     *)
(***************************************************************************)
CONSTANT Client

VARIABLES
    pending,   \* connections the auth system has
    released   \* connections it gave back and that are still there

serviceVars == <<pending, released>>

Init == pending = {} /\ released = {}

Start(c) ==
    /\ c \notin pending \cup released
    /\ pending' = pending \cup {c}
    /\ UNCHANGED released

Release(c) ==
    /\ c \in pending
    /\ pending' = pending \ {c}
    /\ released' = released \cup {c}

\* exit_client of the connections X, pending or released.
Depart(X) ==
    /\ pending' = pending \ X
    /\ released' = released \ X

Next ==
    \/ \E c \in Client : Start(c) \/ Release(c)
    \/ \E X \in SUBSET Client : Depart(X)

Spec == Init /\ [][Next]_serviceVars
=============================================================================
