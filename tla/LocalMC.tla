------------------------------ MODULE LocalMC ------------------------------
(* The mailboxes on disk, the checks for new mail in them, and what is shown of a
   mailbox: its threads, what matches a pattern, and its messages in the pager. *)
EXTENDS MailCheck


\* Two threads: 3 answers 2, which is new, as its references say, in the thread of 1; 4
\* has the subject of both.
Thread ==
  [ m \in 1 .. 4 |->
      [ id   |-> <<"a", "b", "c", "d">>[m],
        irt  |-> << <<>>, <<>>, <<"b">>, <<>> >>[m],
        refs |-> << <<>>, <<>>, <<"b", "a">>, <<>> >>[m],
        subj |-> IF m = 3 THEN "t" ELSE "s", re |-> m > 2, date |-> m ] ]
\* $sort_aux by date, or by the last date of a subthread.
SortAux ==
  { [aux_last |-> last, aux_reverse |-> FALSE, groups |-> "aux", groups_reverse |-> FALSE,
     strict |-> FALSE, dup_threads |-> TRUE, sort_re |-> TRUE, reverse |-> FALSE,
     uncollapse_new |-> FALSE] : last \in BOOLEAN }
\* Two threads, of the second of which the first message is missing; what is in the
\* messages; and what is searched for.
Answers == <<0, 1, 1, 0, 4, 5>>
Bodies  == <<{"x"}, {"x", "y"}, {}, {}, {"y"}, {}>>
Letters == {"l", "x", "y", "^", "!", "|", "(", ")"}
Wanted  == {<<"U">>, <<"!", "x", "!", "D">>, <<"~(", "x", ")">>}

\* Two texts, with lines of one to three rows; and prefixes that begin each other.
Line(kind, end, hit) == [kind |-> kind, end |-> end, hit |-> hit]
Pages ==
  { << Line("hdr", 2, FALSE), Line("norm", 8, TRUE), Line("quoted", 10, TRUE), Line("quoted", 14, FALSE),
       Line("norm", 16, FALSE), Line("quoted", 18, FALSE), Line("norm", 23, TRUE) >>,
    << Line("norm", 4, FALSE), Line("quoted", 10, TRUE), Line("norm", 12, FALSE) >> }
Quoting == { <<">">>, <<">", ">">>, <<">", "|">>, <<">", ">", ">">>, <<"|">>, <<"|", ">">> }

\* A behaviour is one of a single module.  The others, but for the one extended, are given
\* the same variables, so that a state has no more of them than the largest needs.
VARIABLES
    part,          \* the module that is checked
    x1, x2, x3, x4, x5, x6, x7, x8, x9, x10, x11, x12, x13, x14, x15, x16, x17, x18,
    x19

Md == INSTANCE Maildir WITH
  Names <- {1, 2}, MaxChanges <- 4,
  disk <- x1, used <- x2, hdrs <- x3, fresh <- x4, changed <- x5, md <- x6,
  todo <- x7, pc <- x8, syncing <- x9, monitor <- x10, touched <- x11, dirty <- x12,
  missed <- x13, left <- x14, lost <- x15
Mb == INSTANCE Mbox WITH
  MaxMsgs <- 3, MaxForeign <- 1, MaxPending <- 1, Alike <- {2, 3},
  UndeleteStale <- FALSE,
  kind <- x1, disk <- x2, zsize <- x3, file <- x4, newer <- x5, hdrs <- x6,
  size <- x7, isOpen <- x8, delivered <- x9, foreign <- x10, gone <- x11,
  saved <- x12, hookFailed <- x13, blind <- x14, wishes <- x15
Mon == INSTANCE Monitor WITH
  Boxes <- {"a", "m"}, MH <- {"m"}, MaxIno <- 4, MaxQueue <- 2, BufEvents <- 2,
  Refusals <- FALSE,
  ino <- x1, files <- x2, kernel <- x3, mon <- x4, Incoming <- x5, Context <- x6,
  unseen <- x7
Thr == INSTANCE Threads WITH
  Mail <- Thread, Matching <- {2, 4}, MaxBatch <- 1, MaxCommands <- 2,
  Settings <- SortAux,
  conf <- x1, hdrs <- x2, arrived <- x3, thread <- x4, hash <- x5, env <- x6,
  changed <- x7, shown <- x8, collapsed <- x9, limited <- x10, hides <- x11,
  pattern <- x12, collapse_all <- x13, resort <- x14, commands <- x15, apart <- x16
Pat == INSTANCE Patterns WITH
  Parent <- Answers, Absent <- {4}, ToList <- {1, 2, 6}, OnlyToLists <- {2},
  Text <- Bodies, Tokens <- Letters, MaxTokens <- 5, MaxRange <- 4,
  Searches <- Wanted, MaxCommands <- 2, Magics <- {"mbox", "imap"},
  prompt <- x1, typed <- x2, magic <- x3, wrap <- x4, arrived <- x5, unread <- x6,
  deleted <- x7, changed <- x8, searched <- x9, matched <- x10,
  SearchPattern <- x11, reverse <- x12, invalid <- x13, pattern <- x14,
  shown <- x15, current <- x16, answer <- x17, missed <- x18, commands <- x19
Page == INSTANCE Pager WITH
  Files <- Pages, Widths <- {2, 3}, Height <- 3, PagerContext <- 1,
  SearchContext <- 1, SkipContext <- 1, MaxRows <- 16, MaxCommands <- 3,
  QuotePrefixes <- Quoting, LineLength <- 3,
  mode <- x1, file <- x2, message <- x3, rows <- x4, topline <- x5, curline <- x6,
  screen <- x7, redraw <- x8, hideQuoted <- x9, SearchCompiled <- x10,
  SearchFlag <- x11, SearchBack <- x12, wrap <- x13, TopLine <- x14, did <- x15,
  commands <- x16, quotes <- x17, Matches <- x18

own == <<Boxes, now, file, buffy, open, BuffyNotify, checked, fresh, overlooked, told,
         skipped>>

MailCheckStarts ==
  /\ part = "MailCheck" /\ Init
  /\ x1 = 0 /\ x2 = 0 /\ x3 = 0 /\ x4 = 0 /\ x5 = 0 /\ x6 = 0 /\ x7 = 0 /\ x8 = 0
  /\ x9 = 0 /\ x10 = 0 /\ x11 = 0 /\ x12 = 0 /\ x13 = 0 /\ x14 = 0 /\ x15 = 0
  /\ x16 = 0 /\ x17 = 0 /\ x18 = 0 /\ x19 = 0
MailCheckSteps ==
  /\ part = "MailCheck" /\ Next
  /\ UNCHANGED <<part, x1, x2, x3, x4, x5, x6, x7, x8, x9, x10, x11, x12, x13, x14,
                 x15, x16, x17, x18, x19>>
MaildirStarts ==
  /\ part = "Maildir" /\ Md!Init
  /\ Boxes = 0 /\ now = 0 /\ file = 0 /\ buffy = 0 /\ open = 0 /\ BuffyNotify = 0 /\ checked = 0 /\ fresh = 0 /\ overlooked = 0 /\ told = 0 /\ skipped = 0
  /\ x16 = 0 /\ x17 = 0 /\ x18 = 0 /\ x19 = 0
MaildirSteps ==
  /\ part = "Maildir" /\ Md!Next
  /\ UNCHANGED <<part, own, x16, x17, x18, x19>>
MboxStarts ==
  /\ part = "Mbox" /\ Mb!Init
  /\ Boxes = 0 /\ now = 0 /\ file = 0 /\ buffy = 0 /\ open = 0 /\ BuffyNotify = 0 /\ checked = 0 /\ fresh = 0 /\ overlooked = 0 /\ told = 0 /\ skipped = 0
  /\ x16 = 0 /\ x17 = 0 /\ x18 = 0 /\ x19 = 0
MboxSteps ==
  /\ part = "Mbox" /\ Mb!Next
  /\ UNCHANGED <<part, own, x16, x17, x18, x19>>
MonitorStarts ==
  /\ part = "Monitor" /\ Mon!Init
  /\ Boxes = 0 /\ now = 0 /\ file = 0 /\ buffy = 0 /\ open = 0 /\ BuffyNotify = 0 /\ checked = 0 /\ fresh = 0 /\ overlooked = 0 /\ told = 0 /\ skipped = 0
  /\ x8 = 0 /\ x9 = 0 /\ x10 = 0 /\ x11 = 0 /\ x12 = 0 /\ x13 = 0 /\ x14 = 0
  /\ x15 = 0 /\ x16 = 0 /\ x17 = 0 /\ x18 = 0 /\ x19 = 0
MonitorSteps ==
  /\ part = "Monitor" /\ Mon!Next
  /\ UNCHANGED <<part, own, x8, x9, x10, x11, x12, x13, x14, x15, x16, x17, x18, x19>>
ThreadsStarts ==
  /\ part = "Threads" /\ Thr!Init
  /\ Boxes = 0 /\ now = 0 /\ file = 0 /\ buffy = 0 /\ open = 0 /\ BuffyNotify = 0 /\ checked = 0 /\ fresh = 0 /\ overlooked = 0 /\ told = 0 /\ skipped = 0
  /\ x17 = 0 /\ x18 = 0 /\ x19 = 0
ThreadsSteps ==
  /\ part = "Threads" /\ Thr!Next
  /\ UNCHANGED <<part, own, x17, x18, x19>>
PatternsStarts ==
  /\ part = "Patterns" /\ Pat!Init
  /\ Boxes = 0 /\ now = 0 /\ file = 0 /\ buffy = 0 /\ open = 0 /\ BuffyNotify = 0 /\ checked = 0 /\ fresh = 0 /\ overlooked = 0 /\ told = 0 /\ skipped = 0
PatternsSteps ==
  /\ part = "Patterns" /\ Pat!Next
  /\ UNCHANGED <<part, own>>
PagerStarts ==
  /\ part = "Pager" /\ Page!Init
  /\ Boxes = 0 /\ now = 0 /\ file = 0 /\ buffy = 0 /\ open = 0 /\ BuffyNotify = 0 /\ checked = 0 /\ fresh = 0 /\ overlooked = 0 /\ told = 0 /\ skipped = 0
  /\ x19 = 0
PagerSteps ==
  /\ part = "Pager" /\ Page!Next
  /\ UNCHANGED <<part, own, x19>>

allVars == <<part, own, x1, x2, x3, x4, x5, x6, x7, x8, x9, x10, x11, x12, x13, x14,
             x15, x16, x17, x18, x19>>
LocalInit ==
  \/ MailCheckStarts
  \/ MaildirStarts
  \/ MboxStarts
  \/ MonitorStarts
  \/ ThreadsStarts
  \/ PatternsStarts
  \/ PagerStarts
LocalNext ==
  \/ MailCheckSteps
  \/ MaildirSteps
  \/ MboxSteps
  \/ MonitorSteps
  \/ ThreadsSteps
  \/ PatternsSteps
  \/ PagerSteps
LocalSpec == LocalInit /\ [][LocalNext]_allVars


\* The variables of the part that is explored have their types.
TypesOK ==
  /\ part = "MailCheck" => TypeOK
  /\ part = "Maildir" => Md!TypeOK
  /\ part = "Mbox" => Mb!TypeOK
  /\ part = "Monitor" => Mon!TypeOK
  /\ part = "Threads" => Thr!TypeOK
  /\ part = "Patterns" => Pat!TypeOK
  /\ part = "Pager" => Page!TypeOK

\* A check of a maildir finds what other clients did and forgets nothing of the user's.
MaildirFollowed == part = "Maildir" => Md!MaildirFollowed

\* A check of an mbox, or of a compressed one, finds what other programs did.
MboxFollowed == part = "Mbox" => Mb!MboxFollowed

\* New mail is announced, and the mailboxes that should be watched are, and what
\* their watches say is heeded.
NewMailRight ==
  /\ part = "MailCheck" => NewMailFound
  /\ part = "Monitor" => Mon!MonitorsRight

\* The thread tree built step by step is that of the messages, sorted, and what is
\* collapsed and limited is shown and counted; patterns find what they mean; and what the
\* pager shows is the text, where the commands say.
ShownRight ==
  /\ part = "Threads" => Thr!ThreadsRight
  /\ part = "Patterns" => Pat!PatternsRight
  /\ part = "Pager" => Page!PagerRight
==============================================================================
