CONSTANTS
    r1 = r1
    r2 = r2
    r3 = r3
    alice = alice
    bob = bob
    Requests <- MCTwoRequests
    Clients <- MCTwoClients
    Kinds <- MCAllKinds
    RequestsPerMinute <- MCOneSlot
    ConcurrentRequests <- MCPermits
    GlobalConcurrency = 1
    Window = 1
    MaxStall = 0
    MaxReloads = 1
SPECIFICATION FairSpec
INVARIANTS
    TypeOK
    PermitsConserved
PROPERTIES
    TurnedAwayOnlyWhenFull
    CallsReturnPermits
