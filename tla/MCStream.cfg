CONSTANTS
    Indexes <- MCIndexes
    Texts <- MCTexts
    Ids <- MCIds
    Names <- MCNames
    Pieces <- MCPieces
    ValidJson <- MCValidJson
    Reasons <- MCReasons
    Usages <- MCUsages
    Estimate = 3
    MaxParts = 5
SPECIFICATION FairSpec
CHECK_DEADLOCK FALSE
INVARIANTS
    TypeOK
    CompleteOnlyIfWhole
    NothingLost
    SameContent
PROPERTIES
    ObeysProtocol
    EveryStreamEnds
