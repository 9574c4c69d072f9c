\* Three mailboxes, each with the commands and options that matter to it.
CONSTANTS
    MaxMsgs = 2
    MaxCopies = 1
    Settings <- AllSettings

SPECIFICATION Spec
INVARIANTS
    TypeOK
    CountersMatch
    ViewRight
    NoChangeForgotten
PROPERTIES
    NoMailLost
    MovedIsDeleted
