CONSTANTS
    r1 = r1
    r2 = r2
    a = a
    b = b
    Requests <- MCRequests
    Providers <- MCProviders
    Targets <- MCShortTargets
    Weights <- MCShortWeights
    Untokenizable <- MCUntokenizable
    Statuses <- MCFewStatuses
    MaxAttempts = 2
    FailureThreshold = 2
    Cooldown = 1
    MaxFailures = 3
SPECIFICATION FairSpec
CHECK_DEADLOCK FALSE
PROPERTIES
    EveryRequestResolves
