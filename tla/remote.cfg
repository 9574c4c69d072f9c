\* POP: two messages that share the one slot of the cache of POP's own.
CONSTANTS
    MaxMsgs = 2
    CacheLen = 1
    StaleCache = FALSE
    LoginRefused = FALSE

SPECIFICATION RemoteSpec
INVARIANTS
    TypesOK
    PopFollowed
    ImapFollowed
    FlagsConverge
    OpenedRight
    ConnectionsRight
PROPERTY PopSynced
\* The bounds end behaviours.
CHECK_DEADLOCK FALSE
