CONSTANTS
    CmdSlots = 3
    SeqMod = 3
    InOrder = FALSE
    NestedFetch = FALSE
    FetchBeforeIdle = TRUE
    ReuseDirty = FALSE
    Garbled = FALSE
    MaxDepth = 4

SPECIFICATION Spec

INVARIANTS
    RingSafe
    PipelineAccepts

PROPERTY ExecDrains

CHECK_DEADLOCK FALSE
