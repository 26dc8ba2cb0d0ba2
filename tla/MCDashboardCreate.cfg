CONSTANTS
    alice = alice
    bob = bob
    red = red
    factory = factory
    sample = sample
    other = other
    Admins <- MCAdmins
    Configs <- MCConfigs
    SampleConfig <- factory
    ReadsFail = FALSE
    MaxRows = 4
    Ids <- MCIds
    SampleClient <- sample
    SampleProvider <- sample
    SampleRoute <- sample
    PathsAccepted = {TRUE}
    MaxCrashes = 0
    AdminSecrets <- MCSecrets
    Placeholder = "placeholder"
SPECIFICATION Spec
INVARIANTS
    CreateFailsOnlyIfTaken
