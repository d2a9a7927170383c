----------------------------- MODULE MCNickNet -----------------------------
(* Two scenarios of NickTS on three servers in a line. *)
EXTENDS MCNickTS

VARIABLE cut   \* c is cut off all along

\* On two of the three servers a nick change, a QUIT and a KILL, by three users;
\* on all three, by two users, a link that breaks.
MCInit ==
    /\ cut \in BOOLEAN
    /\ nick = [s \in Server |-> [u \in Uid |-> NULL]]
    /\ tsinfo = [s \in Server |-> [u \in Uid |-> 0]]
    /\ unregistered = {}
    /\ used = IF cut THEN {} ELSE {"va"}
    /\ link = [l \in Link |-> IF cut /\ "c" \in {l[1], l[2]} THEN "down" ELSE "up"]
    /\ queue = [l \in Link |-> <<>>]
    /\ left = [e \in Event |-> IF (e = "break") = cut THEN 0 ELSE 1]

MCNext ==
    /\ UNCHANGED cut
    /\ \/ Local
       \/ \E s, v \in Server : Receive(s, v) \/ Break(s, v) \/ (~cut /\ Connect(s, v))

MCFairSpec ==
    /\ MCInit /\ [][MCNext]_<<vars, cut>>
    /\ \A l \in Link : WF_vars(Receive(l[1], l[2]))
=============================================================================
