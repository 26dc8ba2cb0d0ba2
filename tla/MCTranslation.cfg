CONSTANTS
    Blocks <- MCConversation
    Options <- MCOptions
    Capabilities <- MCCapabilities
    Strict = TRUE
    MaxBlocks = 4
SPECIFICATION Spec
CHECK_DEADLOCK FALSE
INVARIANTS
    TypeOK
    HistoryAsDefined
    ResultsFollowCalls
    NothingLeftOut
    UnsendableOnlyImages
PROPERTIES
    TargetRespected
