---------------------------------- MODULE Pop ----------------------------------
(***************************************************************************)
(* A POP mailbox (pop.c, pop_lib.c): the headers mutt shows against the    *)
(* maildrop on the server.  A message number means something only within   *)
(* one session: every new session must map UIDLs to numbers again before a *)
(* message is fetched or deleted, and what a session deletes is removed    *)
(* when it ends with QUIT and only then.  <fetch-mail>, which copies the   *)
(* maildrop to $spoolfile over a connection of its own, is here too.       *)
(*                                                                         *)
(* One action is one command and its answer, or what mutt does without the *)
(* server.  The link may be lost at any moment, mail arrives at any, and   *)
(* other clients work on the maildrop between the sessions of mutt.        *)
(***************************************************************************)
EXTENDS Integers, FiniteSets

CONSTANTS
    MaxMsgs,    \* bound on the messages that ever arrive
    CacheLen,   \* POP_CACHE_LEN
    StaleCache, \* TRUE: messages vanish even if $message_cachedir is unset
    LoginRefused \* TRUE: a check may fail after the server has answered

ASSUME BoundsAssumption == MaxMsgs \in Nat /\ CacheLen \in Nat \ {0}
ASSUME SwitchesAssumption == StaleCache \in BOOLEAN /\ LoginRefused \in BOOLEAN

Uids == 1 .. MaxMsgs    \* UIDLs, in the order of arrival
NoBody == 0
Slots == 0 .. CacheLen - 1

VARIABLES
    option,     \* the configuration variables that are set
    drop,       \* the messages in the maildrop
    arrived,    \* uids 1 .. arrived have been delivered
    server,     \* the session on the server
    pop,        \* POP_DATA
    hdrs,       \* ctx->hdrs
    cache,      \* pop_data->cache
    bcache,     \* the files in $message_cachedir, and what they hold
    spool,      \* what <fetch-mail> has put into $spoolfile
    marked,     \* messages the user has marked deleted and not unmarked
    asked,      \* messages that were marked when a sync began
    taken,      \* messages other clients have removed
    pc          \* the operation that is running

ghosts == <<marked, asked, taken>>
vars == <<option, drop, arrived, server, pop, hdrs, cache, bcache, spool, marked, asked, taken, pc>>
------------------------------------------------------------------------------
Options == {"message_cachedir", "message_cache_clean"}
On(o) == o \in option

\* hdrs gives the messages mutt knows their headers: h->refno is the number in this
\* session, h->index that of the last listing less one.
Header == [refno : {-1} \cup (1 .. MaxMsgs), index : Nat, deleted : BOOLEAN]
Known == DOMAIN hdrs

Statuses == {"NONE", "CONNECTED", "DISCONNECTED"}
NoData == [open |-> FALSE, status |-> "NONE"]

\* box is the maildrop as the session found it, dele the numbers of the messages that
\* go when it ends.
NoSession == [state |-> "none", box |-> {}, dele |-> {}]
Login == [NoSession EXCEPT !.state = "authorization"]
Session == [state |-> "transaction", box |-> drop, dele |-> {}]

\* A session numbers its messages in the order of their arrival.
Number(box, u) == Cardinality({v \in box : v <= u})
Message(box, n) == CHOOSE u \in box : Number(box, u) = n

EmptyCache == [s \in Slots |-> [index |-> 0, body |-> NoBody]]

Ops == {"none", "open", "check", "fetch", "sync", "close", "getmail"}
Places == {"idle", "connect", "reconnect", "headers", "retr", "dele", "quit", "logout", "stat", "rset"}

\* i is the message the operation is at, shown what it has shown of it, done the
\* messages a sync has come past; headers and del are arguments of pop_fetch_message()
\* and the answer to $pop_delete.
Idle == [op |-> "none", at |-> "idle", i |-> 0, done |-> {}, shown |-> {},
         headers |-> FALSE, del |-> FALSE]
Ready == pc.op = "none"
Begin(op, at) == pc' = [Idle EXCEPT !.op = op, !.at = at]
Goto(at) == pc' = [pc EXCEPT !.at = at]
Finish == pc' = Idle
At(op, at) == pc.op = op /\ pc.at = at

Answering == server.state = "transaction"

\* The connection turns out to be lost: pop_query_d() and pop_fetch_data().
Lost == server.state = "none" /\ pop' = [pop EXCEPT !.status = "DISCONNECTED"]

\* What QUIT leaves of the maildrop when the messages numbered gone go.
Without(gone) == drop \ {u \in server.box : Number(server.box, u) \in gone}

\* Messages may leave the maildrop behind the back of the cache of POP's own.
Vanishing == On("message_cachedir") \/ StaleCache
------------------------------------------------------------------------------
(***************************************************************************)
(* Connecting, pop_lib.c.                                                  *)
(***************************************************************************)
\* pop_open_connection()
Opens == server' = Session /\ pop' = [pop EXCEPT !.status = "CONNECTED"]
OpenFails ==
  \/ /\ server' = NoSession
     /\ \E s \in {"NONE", "DISCONNECTED"} : pop' = [pop EXCEPT !.status = s]
  \/ /\ pc.op = "check" => LoginRefused
     /\ server' = Login /\ pop' = [pop EXCEPT !.status = "CONNECTED"]

\* The number of u in the first k lines of a listing.
Line(box, u, k) ==
  IF u \in box /\ Number(box, u) <= k THEN Number(box, u) ELSE -1

\* Mutant: after a reconnect the numbers of the last session are used.
Verified_Stale(k) == hdrs

\* check_uidl() has seen the first k lines of the new session.
Verified(k) == [u \in Known |-> [hdrs[u] EXCEPT !.refno = Line(drop, u, k)]]

\* Where an operation goes on that has a session.
Resume == CASE pc.op = "open" -> "headers" [] pc.op = "fetch" -> "retr" [] OTHER -> "dele"

\* An operation fails: a mailbox that is not open yet is closed again.
Fail == IF pc.op = "open" THEN Begin("close", "logout") ELSE Finish

\* pop_reconnect(): nothing to do while the session lasts.
Reconnected ==
  /\ pc.at = "reconnect" /\ pop.status = "CONNECTED"
  /\ Goto(Resume)
  /\ UNCHANGED <<option, drop, arrived, server, pop, hdrs, cache, bcache, spool, ghosts>>

\* A new session, whose numbers are verified.
Reconnect ==
  /\ pc.at = "reconnect" /\ pop.status # "CONNECTED"
  /\ Opens
  /\ hdrs' = Verified(Cardinality(drop))
  /\ Goto(Resume)
  /\ UNCHANGED <<option, drop, arrived, cache, bcache, spool, ghosts>>

\* No session, or one that ends before the listing does.  The user may have it
\* tried again.
ReconnectFails ==
  /\ pc.at = "reconnect" /\ pop.status # "CONNECTED"
  /\ server' = NoSession
  /\ pop' = [pop EXCEPT !.status = "DISCONNECTED"]
  /\ hdrs' \in {hdrs} \cup {Verified(k) : k \in 0 .. Cardinality(drop)}
  /\ UNCHANGED pc \/ Fail
  /\ UNCHANGED <<option, drop, arrived, cache, bcache, spool, ghosts>>

\* pop_logout(), if there is something to log out from, and the socket closed.
Logout ==
  /\ pc.at = "logout"
  /\ drop' = IF pop.status = "CONNECTED" THEN Without(server.dele) ELSE drop
  /\ server' = NoSession
  /\ IF pc.op = "check"
       THEN /\ pop' = [pop EXCEPT !.status = "DISCONNECTED"]
            /\ Goto("connect")
            /\ UNCHANGED <<hdrs, cache, marked>>
       ELSE /\ pop' = NoData /\ hdrs' = <<>> /\ cache' = EmptyCache /\ marked' = {}
            /\ Finish
  /\ UNCHANGED <<option, arrived, bcache, spool, asked, taken>>
------------------------------------------------------------------------------
(***************************************************************************)
(* Opening, checking and closing a mailbox, pop.c.                         *)
(***************************************************************************)
OpenMailbox ==
  /\ Ready /\ ~pop.open
  /\ pop' = [NoData EXCEPT !.open = TRUE]
  /\ Begin("open", "connect")
  /\ UNCHANGED <<option, drop, arrived, server, hdrs, cache, bcache, spool, ghosts>>

CheckMailbox ==
  /\ Ready /\ pop.open
  /\ Begin("check", "logout")
  /\ UNCHANGED <<option, drop, arrived, server, pop, hdrs, cache, bcache, spool, ghosts>>

CloseMailbox ==
  /\ Ready /\ pop.open
  /\ Begin("close", "logout")
  /\ UNCHANGED <<option, drop, arrived, server, pop, hdrs, cache, bcache, spool, ghosts>>

Connect ==
  /\ pc.at = "connect"
  /\ \/ Opens /\ Goto(CASE pc.op = "open" -> "reconnect" [] pc.op = "check" -> "headers"
                       [] OTHER -> "stat")
     \/ OpenFails /\ Fail
  /\ UNCHANGED <<option, drop, arrived, hdrs, cache, bcache, spool, ghosts>>

\* fetch_uidl() of the first k lines: the headers mutt has, with the number
\* and index of this session, and the new ones.
Listed(k) ==
  [u \in Known |->
     LET n == Line(server.box, u, k)
     IN [hdrs[u] EXCEPT !.refno = n, !.index = IF n = -1 THEN @ ELSE n - 1]]

\* Mutant: the index of a new message is one too low.
NewHeader_Low(n) == [refno |-> n, index |-> n - 2, deleted |-> FALSE]

NewHeader(n) == [refno |-> n, index |-> n - 1, deleted |-> FALSE]

New == server.box \ Known

\* pop_clear_cache(), after a listing in which a message has moved.
Cleared(listed) ==
  IF pc.op = "check" /\ \E u \in Known : listed[u].index # hdrs[u].index
    THEN EmptyCache ELSE cache

\* pop_fetch_headers() loses the link: while opening a mailbox it is tried again.
LosesLink ==
  /\ server' = NoSession
  /\ pop' = [pop EXCEPT !.status = "DISCONNECTED"]
  /\ IF pc.op = "open" THEN Goto("reconnect") ELSE Finish

\* The server has no UIDL, which opening the mailbox finds out, or the listing
\* ends after k lines.
ListingFails ==
  /\ pc.at = "headers"
  /\ \/ pc.op = "open" /\ Answering /\ hdrs' = Listed(0) /\ Fail /\ UNCHANGED <<server, pop, cache>>
     \/ /\ LosesLink
        /\ \E k \in 0 .. Cardinality(server.box) : hdrs' = Listed(k) /\ cache' = Cleared(Listed(k))
  /\ UNCHANGED <<option, drop, arrived, bcache, spool, ghosts>>

\* It is complete: messages that have vanished are marked deleted, and the
\* headers of the new ones are read, until that fails.
FetchHeaders ==
  /\ pc.at = "headers" /\ Answering
  /\ LET listed == Listed(Cardinality(server.box))
     IN \E read \in SUBSET New :
          /\ \A u \in read, v \in New \ read : u < v
          /\ hdrs' = [u \in Known \cup read |->
                        IF u \in read THEN NewHeader(Number(server.box, u))
                        ELSE [listed[u] EXCEPT !.deleted = @ \/ listed[u].refno = -1]]
          /\ cache' = Cleared(listed)
          /\ IF read = New
               THEN /\ Finish
                    /\ bcache' = IF On("message_cache_clean")
                                   THEN [u \in DOMAIN bcache \cap (Known \cup read) |-> bcache[u]]
                                   ELSE bcache
                    /\ UNCHANGED <<server, pop>>
               ELSE /\ LosesLink \/ (Fail /\ UNCHANGED <<server, pop>>)
                    /\ UNCHANGED bcache
  /\ UNCHANGED <<option, drop, arrived, spool, ghosts>>
------------------------------------------------------------------------------
(***************************************************************************)
(* The user.                                                               *)
(***************************************************************************)
Delete ==
  /\ Ready
  /\ \E u \in Known :
       /\ hdrs' = [hdrs EXCEPT ![u].deleted = ~@]
       /\ marked' = IF hdrs[u].deleted THEN marked \ {u} ELSE marked \cup {u}
  /\ UNCHANGED <<option, drop, arrived, server, pop, cache, bcache, spool, asked, taken, pc>>

\* The slot of the cache of POP's own that a header has holds its message.
Cached(slot, h) == slot.body # NoBody /\ slot.index = h.index

SlotOf(h) == h.index % CacheLen
Show(u, body) == pc' = [Idle EXCEPT !.i = u, !.shown = {body}]

\* pop_fetch_message(), up to its loop: the message, or its header only.
FetchMessage ==
  /\ Ready /\ pop.open
  /\ \E u \in Known, headers \in BOOLEAN :
       LET h == hdrs[u]
           slot == cache[SlotOf(h)]
       IN IF On("message_cachedir") /\ u \in DOMAIN bcache
            THEN Show(u, bcache[u]) /\ UNCHANGED cache
          ELSE IF Cached(slot, h)
            THEN Show(u, slot.body) /\ UNCHANGED cache
          ELSE /\ pc' = [Idle EXCEPT !.op = "fetch", !.at = "reconnect", !.i = u, !.headers = headers]
               /\ cache' = IF headers THEN cache
                           ELSE [cache EXCEPT ![SlotOf(h)] = EmptyCache[SlotOf(h)]]
  /\ UNCHANGED <<option, drop, arrived, server, pop, hdrs, bcache, spool, ghosts>>

\* RETR, or TOP: the message goes to the body cache, or failing that to that of
\* POP's own.
Retrieve ==
  LET h == hdrs[pc.i]
      body == Message(server.box, h.refno)
  IN /\ At("fetch", "retr") /\ Answering /\ h.refno \notin {-1} \cup server.dele
     /\ Show(pc.i, body)
     /\ \/ pc.headers /\ UNCHANGED <<cache, bcache>>
        \/ /\ ~pc.headers /\ On("message_cachedir")
           /\ bcache' = [u \in DOMAIN bcache \cup {pc.i} |-> IF u = pc.i THEN body ELSE bcache[u]]
           /\ UNCHANGED cache
        \/ /\ ~pc.headers /\ (~On("message_cachedir") \/ StaleCache)
           /\ cache' = [cache EXCEPT ![SlotOf(h)] = [index |-> h.index, body |-> body]]
           /\ UNCHANGED bcache
     /\ UNCHANGED <<option, drop, arrived, server, pop, hdrs, spool, ghosts>>

\* "The message index is incorrect", or the server refuses, or there is no room.
RetrieveFails ==
  /\ At("fetch", "retr")
  /\ hdrs[pc.i].refno = -1 \/ server.state # "none"
  /\ Finish
  /\ UNCHANGED <<option, drop, arrived, server, pop, hdrs, cache, bcache, spool, ghosts>>

RetrieveLost ==
  /\ At("fetch", "retr") /\ hdrs[pc.i].refno # -1
  /\ Lost
  /\ Goto("reconnect")
  /\ UNCHANGED <<option, drop, arrived, server, hdrs, cache, bcache, spool, ghosts>>
------------------------------------------------------------------------------
(***************************************************************************)
(* pop_sync_mailbox()                                                      *)
(***************************************************************************)
Sync ==
  /\ Ready /\ pop.open
  /\ pc' = [Idle EXCEPT !.op = "sync", !.at = "reconnect"]
  /\ asked' = asked \cup marked
  /\ UNCHANGED <<option, drop, arrived, server, pop, hdrs, cache, bcache, spool, marked, taken>>

\* The messages still to be deleted in this session.
ToDelete == {u \in Known \ pc.done : hdrs[u].deleted /\ hdrs[u].refno # -1}

\* DELE of the next of them: which that is depends on how the user has sorted the
\* mailbox.
SyncDele ==
  /\ At("sync", "dele") /\ Answering
  /\ \E u \in ToDelete :
       /\ hdrs[u].refno \notin server.dele
       /\ server' = [server EXCEPT !.dele = @ \cup {hdrs[u].refno}]
       /\ bcache' = [v \in DOMAIN bcache \ {u} |-> bcache[v]]
       /\ pc' = [pc EXCEPT !.done = @ \cup {u}]
  /\ UNCHANGED <<option, drop, arrived, pop, hdrs, cache, spool, ghosts>>

\* The server refuses, as it does for a message that is deleted already; what
\* this session has deleted goes with its QUIT, whenever that comes.
SyncRefused ==
  /\ At("sync", "dele") /\ ToDelete # {} /\ server.state # "none" /\ Vanishing
  /\ Finish
  /\ UNCHANGED <<option, drop, arrived, server, pop, hdrs, cache, bcache, spool, ghosts>>

\* Mutant: after a reconnect the deletions go on where they were.
SyncLost_GoesOn ==
  /\ At("sync", "dele")
  /\ Lost
  /\ Goto("reconnect")
  /\ UNCHANGED <<option, drop, arrived, server, hdrs, cache, bcache, spool, ghosts>>

\* The link is lost, and with it every DELE: all of it again.
SyncLost ==
  /\ At("sync", "dele")
  /\ Lost
  /\ pc' = [pc EXCEPT !.at = "reconnect", !.done = {}]
  /\ UNCHANGED <<option, drop, arrived, server, hdrs, cache, bcache, spool, ghosts>>

\* QUIT, and mx_update_tables() after it.
SyncQuit ==
  /\ At("sync", "dele") /\ ToDelete = {} /\ server.state # "none"
  /\ drop' = Without(server.dele)
  /\ server' = NoSession
  /\ pop' = [pop EXCEPT !.status = "DISCONNECTED"]
  /\ cache' = EmptyCache
  /\ hdrs' = [u \in {v \in Known : ~hdrs[v].deleted} |-> hdrs[u]]
  /\ marked' = {}
  /\ Finish
  /\ UNCHANGED <<option, arrived, bcache, spool, asked, taken>>

\* The answer is lost: the messages are gone, and mutt does it all again.
SyncQuitLost ==
  /\ At("sync", "dele") /\ ToDelete = {} /\ server.state # "none"
  /\ server.dele # {} => Vanishing
  /\ drop' = Without(server.dele)
  /\ server' = NoSession
  /\ pop' = [pop EXCEPT !.status = "DISCONNECTED"]
  /\ pc' = [pc EXCEPT !.at = "reconnect", !.done = {}]
  /\ UNCHANGED <<option, arrived, hdrs, cache, bcache, spool, ghosts>>

\* The server could not remove all of them.
SyncQuitRefused ==
  /\ At("sync", "dele") /\ ToDelete = {} /\ Vanishing
  /\ \E gone \in SUBSET server.dele : gone # server.dele /\ drop' = Without(gone)
  /\ server' = NoSession
  /\ Finish
  /\ UNCHANGED <<option, arrived, pop, hdrs, cache, bcache, spool, ghosts>>
------------------------------------------------------------------------------
(***************************************************************************)
(* pop_fetch_mail(), with no POP mailbox open.                             *)
(***************************************************************************)
FetchMail ==
  /\ Ready /\ ~pop.open
  /\ Begin("getmail", "connect")
  /\ UNCHANGED <<option, drop, arrived, server, pop, hdrs, cache, bcache, spool, ghosts>>

\* STAT and LAST: the messages from i on are wanted, if there are any.
Stat ==
  /\ pc.at = "stat" /\ server.state # "none"
  /\ \/ Goto("quit")
     \/ /\ Answering
        /\ \E i \in 1 .. Cardinality(server.box), del \in BOOLEAN :
             pc' = [pc EXCEPT !.at = "retr", !.i = i, !.del = del]
  /\ UNCHANGED <<option, drop, arrived, server, pop, hdrs, cache, bcache, spool, ghosts>>

GoOn ==
  IF pc.i = Cardinality(server.box) THEN Goto("quit")
  ELSE pc' = [pc EXCEPT !.at = "retr", !.i = @ + 1]

\* A message is retrieved and committed to the spool file.
GetMessage ==
  /\ At("getmail", "retr") /\ Answering
  /\ spool' = spool \cup {Message(server.box, pc.i)}
  /\ IF pc.del THEN Goto("dele") ELSE GoOn
  /\ UNCHANGED <<option, drop, arrived, server, pop, hdrs, cache, bcache, ghosts>>

\* It cannot be had, or not be opened, or not be written ("make sure no
\* messages get deleted").
GetFails ==
  /\ At("getmail", "retr") /\ server.state # "none"
  /\ Goto("quit") \/ Goto("rset")
  /\ UNCHANGED <<option, drop, arrived, server, pop, hdrs, cache, bcache, spool, ghosts>>

GetDele ==
  /\ At("getmail", "dele") /\ Answering
  /\ \/ server' = [server EXCEPT !.dele = @ \cup {pc.i}] /\ GoOn
     \/ UNCHANGED server /\ Goto("quit")
  /\ UNCHANGED <<option, drop, arrived, pop, hdrs, cache, bcache, spool, ghosts>>

GetRset ==
  /\ pc.at = "rset" /\ Answering
  /\ server' = [server EXCEPT !.dele = {}] \/ UNCHANGED server
  /\ Goto("quit")
  /\ UNCHANGED <<option, drop, arrived, pop, hdrs, cache, bcache, spool, ghosts>>

GetQuit ==
  /\ pc.at = "quit" /\ server.state # "none"
  /\ drop' = Without(server.dele)
  /\ server' = NoSession
  /\ pop' = NoData
  /\ Finish
  /\ UNCHANGED <<option, arrived, hdrs, cache, bcache, spool, ghosts>>

\* "Server closed connection!"
GetLost ==
  /\ pc.op = "getmail" /\ pc.at # "connect" /\ server.state = "none"
  /\ pop' = NoData
  /\ Finish
  /\ UNCHANGED <<option, drop, arrived, server, hdrs, cache, bcache, spool, ghosts>>
------------------------------------------------------------------------------
(***************************************************************************)
(* Outside mutt.                                                           *)
(***************************************************************************)
Arrive ==
  /\ arrived < MaxMsgs
  /\ arrived' = arrived + 1
  /\ drop' = drop \cup {arrived + 1}
  /\ UNCHANGED <<option, server, pop, hdrs, cache, bcache, spool, ghosts, pc>>

\* The maildrop is locked while a session lasts.
TakenElsewhere ==
  /\ server.state # "transaction" /\ Vanishing
  /\ \E u \in drop :
       /\ drop' = drop \ {u}
       /\ taken' = taken \cup {u}
  /\ UNCHANGED <<option, arrived, server, pop, hdrs, cache, bcache, spool, marked, asked, pc>>

\* The session ends without QUIT, and so nothing is removed.
LoseLink ==
  /\ server.state # "none"
  /\ server' = NoSession
  /\ UNCHANGED <<option, drop, arrived, pop, hdrs, cache, bcache, spool, ghosts, pc>>
------------------------------------------------------------------------------
Init ==
  /\ option \in SUBSET Options
  /\ drop = {} /\ arrived = 0 /\ server = NoSession
  /\ pop = NoData /\ hdrs = <<>> /\ cache = EmptyCache /\ bcache = <<>>
  /\ spool = {} /\ marked = {} /\ asked = {} /\ taken = {}
  /\ pc = Idle

Mailbox == OpenMailbox \/ CheckMailbox \/ CloseMailbox \/ Connect \/ Reconnected \/ Reconnect
             \/ ReconnectFails \/ Logout \/ ListingFails \/ FetchHeaders
Reading == FetchMessage \/ Retrieve \/ RetrieveFails \/ RetrieveLost
Syncing == Delete \/ Sync \/ SyncDele \/ SyncRefused \/ SyncLost \/ SyncQuit \/ SyncQuitLost
             \/ SyncQuitRefused
GetMail == FetchMail \/ Stat \/ GetMessage \/ GetFails \/ GetDele \/ GetRset \/ GetQuit \/ GetLost
Outside == Arrive \/ TakenElsewhere \/ LoseLink

Next == Mailbox \/ Reading \/ Syncing \/ GetMail \/ Outside

Spec == Init /\ [][Next]_vars
------------------------------------------------------------------------------
TypeOK ==
  /\ option \subseteq Options
  /\ arrived \in 0 .. MaxMsgs /\ drop \subseteq 1 .. arrived
  /\ server \in [state : {"none", "authorization", "transaction"},
                 box : SUBSET (1 .. arrived), dele : SUBSET Nat]
  /\ pop \in [open : BOOLEAN, status : Statuses]
  /\ Known \subseteq 1 .. arrived /\ hdrs \in [Known -> Header]
  /\ cache \in [Slots -> [index : Nat, body : {NoBody} \cup (1 .. arrived)]]
  /\ DOMAIN bcache \subseteq 1 .. arrived /\ bcache \in [DOMAIN bcache -> 1 .. arrived]
  /\ {spool, marked, asked, taken} \subseteq SUBSET (1 .. arrived)
  /\ pc \in [op : Ops, at : Places, i : Nat, done : SUBSET Known,
             shown : SUBSET (1 .. arrived), headers : BOOLEAN, del : BOOLEAN]

\* While mutt has a session and is not about to ask for its listing, the number
\* of a header is that of its message in this session, or there is none.
RefnoIsRight ==
  pop.open /\ pop.status = "CONNECTED" /\ Answering /\ pc.at \notin {"headers", "logout"} =>
    \A u \in Known :
      hdrs[u].refno # -1 => u \in server.box /\ hdrs[u].refno = Number(server.box, u)

\* A message leaves the maildrop because another client has removed it, because
\* it is in the spool file, or because it was marked deleted when a sync began:
\* never another one in its place (pop_reconnect(), "make sure no messages get
\* deleted").
NoMailLost == 1 .. arrived \subseteq drop \cup taken \cup spool \cup asked

\* A message that leaves the index while the mailbox stays open has left the
\* maildrop, however often the link was lost during the sync.
Removal == pop.open /\ pop'.open => (Known \ Known') \cap drop' = {}

\* What is shown for a header is its message, whichever cache it comes from.
ShownIsRight == \A body \in pc.shown : pc.i = body
==============================================================================
