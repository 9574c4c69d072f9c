\* Messages vanish while only the cache of POP's own is used.
CONSTANTS
    MaxMsgs = 2
    CacheLen = 1
    StaleCache = TRUE
    LoginRefused = FALSE

SPECIFICATION Spec
INVARIANT ShownIsRight
CHECK_DEADLOCK FALSE
