\* Two heap slots, one TLS and one plain port: a client can die in the exit of
\* another, and its slot is used again. The proofs cover any number of slots.
CONSTANTS
    c1 = c1
    c2 = c2
    c3 = c3
    tls = tls
    plain = plain
    NULL = NULL
    Client <- MCTwoClients
    Listener <- MCListener
    SSLListener <- MCSSLListener
    MaxLocal = 1
SPECIFICATION FairSpec
INVARIANTS
    NoDanglingClient
    AbortsDrained
    ListenerRefs
    ConnInv
PROPERTIES
    WalkSafe
    ServiceSpec
    DeadIsFreed
    FinishedLeaveUnknown
