CONSTANTS
    Blocks <- MCConversation
    Options <- MCOptions
    Capabilities <- MCCapabilities
    Strict = TRUE
    MaxBlocks = 1
SPECIFICATION Spec
CHECK_DEADLOCK FALSE
INVARIANTS
    ParallelToolsDeclared
