CONSTANTS
    CmdSlots = 2
    SeqMod = 2
    InOrder = TRUE
    NestedFetch = TRUE
    FetchBeforeIdle = FALSE
    ReuseDirty = FALSE
    Garbled = TRUE
    MaxDepth = 4

SPECIFICATION FairSpec

PROPERTY CallsReturn

CHECK_DEADLOCK FALSE
