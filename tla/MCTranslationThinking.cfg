CONSTANTS
    Blocks <- MCFlaws
    Options <- MCAllOptions
    Capabilities <- MCCapabilities
    Strict = TRUE
    MaxBlocks = 1
SPECIFICATION Spec
CHECK_DEADLOCK FALSE
INVARIANTS
    ThinkingRefused
