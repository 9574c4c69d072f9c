\* Two mutts that may be killed, whose users break locks that may be held.
CONSTANTS
    Procs = {a, b}
    a = a
    b = b
    MaxMsgs = 2
    MaxFiles = 2
    MAXLOCKATTEMPT = 1
    HARDMAXATTEMPTS = 3
    Agent = FALSE
    Breaking = TRUE
    Crash = TRUE
    SyncEmpties = FALSE

SPECIFICATION Spec
SYMMETRY Symmetry
INVARIANTS
    ExclusiveAccess
    HolderHasMailbox

\* The bounds on messages and files end a behaviour.
CHECK_DEADLOCK FALSE
