CONSTANTS
    CmdSlots = 3
    SeqMod = 3
    InOrder = TRUE
    NestedFetch = TRUE
    FetchBeforeIdle = FALSE
    ReuseDirty = FALSE
    Garbled = TRUE
    MaxDepth = 3

SPECIFICATION Spec

INVARIANTS
    TypeOK
    PipelineRight

PROPERTY FatalIsSilent

\* A connection that was closed after an error is not used again.
CHECK_DEADLOCK FALSE
