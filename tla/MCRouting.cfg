CONSTANTS
    r1 = r1
    r2 = r2
    a = a
    b = b
    Requests <- MCRequests
    Providers <- MCProviders
    Targets <- MCTargets
    Weights <- MCWeights
    Untokenizable <- MCUntokenizable
    Statuses <- MCStatuses
    MaxAttempts = 2
    FailureThreshold = 2
    Cooldown = 1
    MaxFailures = 3
SPECIFICATION Spec
SYMMETRY MCSymmetry
CHECK_DEADLOCK FALSE
INVARIANTS
    TypeOK
    OpenOnlyIfTripped
    NoDuplicatedWork
    BetterPriorityFirst
    DrawsByWeight
PROPERTIES
    GivesUpOnlyWhenExhausted
    OpenCircuitAdmitsNoOne
    CircuitsKeepPromise
