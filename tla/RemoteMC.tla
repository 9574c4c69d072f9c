------------------------------ MODULE RemoteMC ------------------------------
(* The mailboxes on servers: each part is a module of its own, and TLC explores one
   after the other. *)
EXTENDS Pop

\* A behaviour is one of a single module.  The others, but for the one extended, are given
\* the same variables, so that a state has no more of them than the largest needs.
VARIABLES
    part,          \* the module that is checked
    x1, x2, x3, x4, x5, x6, x7, x8, x9, x10, x11, x12, x13, x14, x15, x16, x17

Imap == INSTANCE ImapMailbox WITH
  MaxUid <- 4, MaxWire <- 1, FirstUids <- 2, ChunkSize <- 1,
  mbox <- x1, sess <- x2, nextUid <- x3, cur <- x4, sent <- x5, wire <- x6,
  index <- x7, msn <- x8, gone <- x9, reopen <- x10, newMailCount <- x11,
  idle <- x12, pc <- x13, range <- x14, qresync <- x15, raced <- x16, short <- x17
Flags == INSTANCE ImapFlags WITH
  Refusals <- FALSE, MaxWire <- 1, MaxLosses <- 1,
  stored <- x1, owed <- x2, sent <- x3, wire <- x4, flags <- x5, recorded <- x6,
  changed <- x7, active <- x8, pending <- x9, news <- x10, pc <- x11, result <- x12,
  losses <- x13, want <- x14, touched <- x15, raced <- x16, refused <- x17
Cache == INSTANCE ImapCache WITH
  MaxUid <- 3, MaxModseq <- 3, SyncLost <- TRUE,
  box <- x1, nextUid <- x2, modseq <- x3, flagOf <- x4, modOf <- x5, caps <- x6,
  hcache <- x7, hc <- x8, pc <- x9, sess <- x10, highest <- x11, method <- x12,
  index <- x13, flag <- x14, changed <- x15, unsynced <- x16
Conn == INSTANCE Connection WITH
  MaxConns <- 3,
  setup <- x1, Connections <- x2, conn <- x3, Context <- x4, other <- x5

own == <<option, drop, arrived, server, pop, hdrs, cache, bcache, spool, marked, asked,
         taken, pc>>

PopStarts ==
  /\ part = "Pop" /\ Init
  /\ x1 = 0 /\ x2 = 0 /\ x3 = 0 /\ x4 = 0 /\ x5 = 0 /\ x6 = 0 /\ x7 = 0 /\ x8 = 0
  /\ x9 = 0 /\ x10 = 0 /\ x11 = 0 /\ x12 = 0 /\ x13 = 0 /\ x14 = 0 /\ x15 = 0
  /\ x16 = 0 /\ x17 = 0
PopSteps ==
  /\ part = "Pop" /\ Next
  /\ UNCHANGED <<part, x1, x2, x3, x4, x5, x6, x7, x8, x9, x10, x11, x12, x13, x14,
                 x15, x16, x17>>
ImapMailboxStarts ==
  /\ part = "ImapMailbox" /\ Imap!Init
  /\ option = 0 /\ drop = 0 /\ arrived = 0 /\ server = 0 /\ pop = 0 /\ hdrs = 0 /\ cache = 0 /\ bcache = 0 /\ spool = 0 /\ marked = 0 /\ asked = 0 /\ taken = 0 /\ pc = 0
ImapMailboxSteps ==
  /\ part = "ImapMailbox" /\ Imap!Next
  /\ UNCHANGED <<part, own>>
ImapFlagsStarts ==
  /\ part = "ImapFlags" /\ Flags!Init
  /\ option = 0 /\ drop = 0 /\ arrived = 0 /\ server = 0 /\ pop = 0 /\ hdrs = 0 /\ cache = 0 /\ bcache = 0 /\ spool = 0 /\ marked = 0 /\ asked = 0 /\ taken = 0 /\ pc = 0
ImapFlagsSteps ==
  /\ part = "ImapFlags" /\ Flags!Next
  /\ UNCHANGED <<part, own>>
ImapCacheStarts ==
  /\ part = "ImapCache" /\ Cache!Init
  /\ option = 0 /\ drop = 0 /\ arrived = 0 /\ server = 0 /\ pop = 0 /\ hdrs = 0 /\ cache = 0 /\ bcache = 0 /\ spool = 0 /\ marked = 0 /\ asked = 0 /\ taken = 0 /\ pc = 0
  /\ x17 = 0
ImapCacheSteps ==
  /\ part = "ImapCache" /\ Cache!Next
  /\ UNCHANGED <<part, own, x17>>
ConnectionStarts ==
  /\ part = "Connection" /\ Conn!Init
  /\ option = 0 /\ drop = 0 /\ arrived = 0 /\ server = 0 /\ pop = 0 /\ hdrs = 0 /\ cache = 0 /\ bcache = 0 /\ spool = 0 /\ marked = 0 /\ asked = 0 /\ taken = 0 /\ pc = 0
  /\ x6 = 0 /\ x7 = 0 /\ x8 = 0 /\ x9 = 0 /\ x10 = 0 /\ x11 = 0 /\ x12 = 0
  /\ x13 = 0 /\ x14 = 0 /\ x15 = 0 /\ x16 = 0 /\ x17 = 0
ConnectionSteps ==
  /\ part = "Connection" /\ Conn!Next
  /\ UNCHANGED <<part, own, x6, x7, x8, x9, x10, x11, x12, x13, x14, x15, x16, x17>>

allVars == <<part, own, x1, x2, x3, x4, x5, x6, x7, x8, x9, x10, x11, x12, x13, x14,
             x15, x16, x17>>
RemoteInit ==
  \/ PopStarts
  \/ ImapMailboxStarts
  \/ ImapFlagsStarts
  \/ ImapCacheStarts
  \/ ConnectionStarts
RemoteNext ==
  \/ PopSteps
  \/ ImapMailboxSteps
  \/ ImapFlagsSteps
  \/ ImapCacheSteps
  \/ ConnectionSteps
RemoteSpec == RemoteInit /\ [][RemoteNext]_allVars


\* The variables of the part that is explored have their types.
TypesOK ==
  /\ part = "Pop" => TypeOK
  /\ part = "ImapMailbox" => Imap!TypeOK
  /\ part = "ImapFlags" => Flags!TypeOK
  /\ part = "ImapCache" => Cache!TypeOK
  /\ part = "Connection" => Conn!TypeOK

\* What the maildrop, the index and the caches of a POP mailbox have to do with
\* each other.
PopFollowed == part = "Pop" => RefnoIsRight /\ NoMailLost /\ ShownIsRight

\* A message that leaves the index of a POP mailbox has left the maildrop.
PopSynced == [][part = "Pop" => Removal]_allVars

\* mutt's numbers for the messages of an IMAP mailbox are the server's, whatever
\* arrives and is expunged while headers are fetched and flags are announced.
ImapFollowed ==
  part = "ImapMailbox" =>
    Imap!NumbersAgree /\ Imap!FlagsHitTheirMessage /\ Imap!AnnouncedIsKnown

\* The server ends with the flags the user set.
FlagsConverge == part = "ImapFlags" => Flags!FlagsConverge

\* A mailbox opened from the header cache has the messages and flags of the server.
OpenedRight == part = "ImapCache" => Cache!OpenedRight

\* Commands go to a connection that is fit for them.
ConnectionsRight == part = "Connection" => Conn!ConnectionsRight
==============================================================================
