\* MailCheck: an mbox and a maildir, or an mbox checked by its size and an IMAP mailbox.
CONSTANTS
    WatchedSets = {{"mbox", "maildir"}, {"sized", "imap"}}
    NoNotify = {"sized"}
    MaxTime = 6

SPECIFICATION LocalSpec
INVARIANTS
    TypesOK
    MaildirFollowed
    MboxFollowed
    NewMailRight
    ShownRight
\* The bounds end behaviours.
CHECK_DEADLOCK FALSE
