\* Two mutts and the delivery agent; nobody breaks a lock.
CONSTANTS
    Procs = {a, b}
    a = a
    b = b
    MaxMsgs = 2
    MaxFiles = 2
    MAXLOCKATTEMPT = 1
    HARDMAXATTEMPTS = 3
    Agent = TRUE
    Breaking = FALSE
    Crash = FALSE
    SyncEmpties = FALSE

SPECIFICATION Spec
SYMMETRY Symmetry
INVARIANTS
    TypeOK
    DotlockHeld
    NoMailLost
    LockIsReturned
PROPERTY ImplementsSharedLock

\* The bounds on messages and files end a behaviour.
CHECK_DEADLOCK FALSE
