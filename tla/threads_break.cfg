\* <break-thread> in a thread with a missing message.
SPECIFICATION Spec
CONSTANTS
    Mail <- Thread
    Matching = {1}
    MaxBatch = 1
    MaxCommands = 2
    Settings <- Default
INVARIANT BrokenStaysBroken
CHECK_DEADLOCK FALSE
