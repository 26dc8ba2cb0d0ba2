CONSTANTS
    alice = alice
    bob = bob
    red = red
    factory = factory
    sample = sample
    other = other
    Admins <- MCAdmins
    Configs <- MCConfigs
    SampleConfig <- factory
    ReadsFail = TRUE
    MaxRows = 3
    Ids <- MCIds
    SampleClient <- sample
    SampleProvider <- sample
    SampleRoute <- sample
    PathsAccepted = {TRUE, FALSE}
    MaxCrashes = 2
    AdminSecrets <- MCSecrets
    Placeholder = "placeholder"
SPECIFICATION FairSpec
INVARIANTS
    TypeOK
    NoVersionSkipped
    NoOrphanTargets
    CurrentSecretOnly
PROPERTIES
    HistoryKept
    StartKeepsRows
    SeedingGetsThrough
