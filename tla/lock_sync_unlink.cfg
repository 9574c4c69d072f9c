\* A mailbox that is emptied by a sync, not by closing it.
CONSTANTS
    Procs = {a, b}
    a = a
    b = b
    MaxMsgs = 2
    MaxFiles = 2
    MAXLOCKATTEMPT = 1
    HARDMAXATTEMPTS = 3
    Agent = TRUE
    Breaking = FALSE
    Crash = FALSE
    SyncEmpties = TRUE

SPECIFICATION Spec
SYMMETRY Symmetry
INVARIANT NoMailLost

\* The bounds on messages and files end a behaviour.
CHECK_DEADLOCK FALSE
