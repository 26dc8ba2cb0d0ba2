CONSTANTS
    r1 = r1
    Requests <- MCRequests
    Files <- MCFiles
    Edits <- MCEdits
    Vaults <- MCVaults
    Rotations <- MCRotations
    Config <- MCConfig
    Unreadable = "unreadable"
    Models <- MCModels
    Secrets <- MCSecrets
    Keys <- MCKeys
    ShortKeys <- MCShortKeys
    NoSecret = "unset"
    MaxPermits = 3
    Grace = 2
    MaxEdits = 2
SPECIFICATION FairSpec
CHECK_DEADLOCK FALSE
INVARIANTS
    TypeOK
    RuntimeSound
    AdmittedByOneRuntime
PROPERTIES
    GraceHonoured
    ProcessEnds
    ReloadTakesEffect
