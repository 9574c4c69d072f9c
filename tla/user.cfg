\* Autocrypt: two peers.
CONSTANTS
    Peers = {"p", "q"}
    Future = 9
    Stale = 2
    MaxRevoked = 1
    Messages <- Mail

SPECIFICATION UserSpec
INVARIANTS
    TypesOK
    ComposeIsClear
    SessionsRight
    SmtpRight
    KeysRight
    ScreenRight
    InputRight
    PartsRight
\* The bounds end behaviours.
CHECK_DEADLOCK FALSE
