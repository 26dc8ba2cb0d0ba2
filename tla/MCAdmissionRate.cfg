CONSTANTS
    r1 = r1
    r2 = r2
    r3 = r3
    alice = alice
    bob = bob
    Requests <- MCRequests
    Clients <- MCOneClient
    Kinds <- MCOneKind
    RequestsPerMinute <- MCSlots
    ConcurrentRequests <- MCPermits
    GlobalConcurrency = 2
    Window = 4
    MaxStall = 2
    MaxReloads = 0
SPECIFICATION Spec
SYMMETRY MCSymmetry
INVARIANTS
    RateHonoured
PROPERTIES
    RateRefusalJustified
