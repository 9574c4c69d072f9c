----------------------------- MODULE ImapMailbox -----------------------------
(***************************************************************************)
(* The numbering of the messages of an open IMAP mailbox.  The server      *)
(* numbers the messages of a session from 1 (message sequence numbers,     *)
(* msn); mutt keeps msn_index, the header of each number, and changes it   *)
(* as EXISTS, EXPUNGE, VANISHED and FETCH responses are read: from         *)
(* imap/command.c, imap_read_headers() and read_headers_fetch_new() of     *)
(* imap/message.c, imap_expunge_mailbox() and imap_check_mailbox() of      *)
(* imap/imap.c.                                                            *)
(*                                                                         *)
(* The server answers commands in order over a connection that keeps the   *)
(* order of its lines.  It announces other clients' changes as RFC 3501    *)
(* allows: EXISTS at any time, EXPUNGE and VANISHED only while a command   *)
(* other than FETCH is in progress.                                        *)
(***************************************************************************)
EXTENDS Integers, FiniteSets, SequencesExt

CONSTANTS
    MaxUid,      \* bound: UIDs are 1 .. MaxUid
    MaxWire,     \* bound: lines of the server on their way
    FirstUids,   \* UIDs in the mailbox when it is opened: 1 .. FirstUids
    ChunkSize    \* $imap_fetch_chunk_size, 0 for no limit

VARIABLES
    mbox,        \* the UIDs that exist in the mailbox
    sess,        \* the server's numbering of this session: UIDs by msn
    nextUid,
    cur,         \* what the server executes: "none", "IDLE", "ANY" or "FETCH"
    sent,        \* commands on their way to the server
    wire,        \* lines on their way to mutt
    index,       \* idata->msn_index up to max_msn: a UID, or 0 for NULL
    msn,         \* HEADER_DATA(h)->msn of every header in the context, by UID
    gone,        \* headers with h->index = INT_MAX
    reopen,      \* of idata->reopen: ALLOW, EXPUNGE_PENDING, NEWMAIL_PENDING
    newMailCount,
    idle,        \* idata->state = IMAP_IDLE
    pc,          \* what mutt waits for
    range,       \* msn_begin, fetch_msn_end and msn_end of the header download
    qresync,     \* the server says VANISHED instead of EXPUNGE
    raced,       \* messages were renumbered in the middle of a download
    short        \* a download did not get every message it asked for

serverVars == <<mbox, sess, nextUid>>
clientVars == <<index, msn, gone, newMailCount>>
ghosts == <<qresync, raced, short>>
vars == <<mbox, sess, nextUid, cur, sent, wire, index, msn, gone, reopen,
          newMailCount, idle, pc, range, qresync, raced, short>>
------------------------------------------------------------------------------
Uids == 1 .. MaxUid
NULL == 0
max_msn == Len(index)
NoRange == [begin |-> 0, upto |-> 0, last |-> 0]

Line(kind, n, uid) == [kind |-> kind, n |-> n, uid |-> uid]
Command(verb, b, e) == [verb |-> verb, b |-> b, e |-> e]

\* The server reports a change only while mutt may be told of it.
MayExpunge == cur \in {"IDLE", "ANY"}
Room == Len(wire) < MaxWire

Drop(f, S) == [u \in DOMAIN f \ S |-> f[u]]

\* The sequence, if there is one, of the members of S in order.
Ascending(S) == {s \in [1 .. Cardinality(S) -> S] :
                   Range(s) = S /\ \A i, j \in DOMAIN s : i < j => s[i] < s[j]}

Init ==
  /\ mbox = 1 .. FirstUids
  /\ sess = [i \in 1 .. FirstUids |-> i]
  /\ nextUid = FirstUids + 1
  /\ cur = "none" /\ sent = <<>> /\ wire = <<>>
  /\ index = sess
  /\ msn = [u \in 1 .. FirstUids |-> u]
  /\ gone = {} /\ reopen = {} /\ newMailCount = 0
  /\ idle = FALSE /\ pc = "ready" /\ range = NoRange
  /\ qresync \in BOOLEAN /\ raced = FALSE /\ short = FALSE
------------------------------------------------------------------------------
(* The server and its other clients.                                       *)

Deliver ==
  /\ nextUid \in Uids
  /\ mbox' = mbox \cup {nextUid}
  /\ nextUid' = nextUid + 1
  /\ UNCHANGED <<sess, cur, sent, wire, clientVars, reopen, idle,
                 pc, range, ghosts>>

OtherClientExpunges(u) ==
  /\ u \in mbox
  /\ mbox' = mbox \ {u}
  /\ UNCHANGED <<sess, nextUid, cur, sent, wire, clientVars, reopen,
                 idle, pc, range, ghosts>>

\* New messages get the numbers after the last one.
SendExists ==
  /\ Room
  /\ cur # "none"
  /\ \E new \in Ascending({u \in mbox : \A i \in DOMAIN sess : sess[i] < u}) :
       /\ new # <<>>
       /\ sess' = sess \o new
       /\ wire' = Append(wire, Line("EXISTS", Len(sess'), NULL))
  /\ UNCHANGED <<mbox, nextUid, cur, sent, clientVars, reopen, idle, pc, range, ghosts>>

\* A server may repeat itself.
RepeatExists ==
  /\ wire = <<>>
  /\ cur # "none"
  /\ wire' = Append(wire, Line("EXISTS", Len(sess), NULL))
  /\ UNCHANGED <<serverVars, cur, sent, clientVars, reopen, idle,
                 pc, range, ghosts>>

SendExpunge(i) ==
  /\ Room
  /\ MayExpunge
  /\ i \in DOMAIN sess
  /\ sess[i] \notin mbox
  /\ sess' = RemoveAt(sess, i)
  /\ wire' = Append(wire, IF qresync THEN Line("VANISHED", 0, sess[i])
                                     ELSE Line("EXPUNGE", i, NULL))
  /\ UNCHANGED <<mbox, nextUid, cur, sent, clientVars, reopen, idle, pc, range, ghosts>>

\* Flags were changed by another client; the line may or may not have a UID.
SendFlags(i) ==
  /\ Room
  /\ cur # "none"
  /\ i \in DOMAIN sess
  /\ \A j \in DOMAIN wire : wire[j].kind # "FLAGS"
  /\ wire' = Append(wire, Line("FLAGS", i, sess[i]))
  /\ UNCHANGED <<serverVars, cur, sent, clientVars, reopen, idle,
                 pc, range, ghosts>>

\* The server turns to the next command.  A FETCH beyond the last message, or
\* of one that another client has expunged and the server has not announced
\* yet, is answered with what there is, or refused.
ServerReads ==
  /\ sent # <<>>
  /\ sent' = Tail(sent)
  /\ LET c == Head(sent)
         asked == {i \in c.b .. c.e : i <= Len(sess) /\ sess[i] \in mbox}
     IN \/ /\ c.verb = "IDLE" /\ cur = "none"
           /\ cur' = "IDLE" /\ wire' = Append(wire, Line("+", 0, NULL))
           /\ UNCHANGED short
        \/ /\ c.verb = "DONE" /\ cur = "IDLE"
           /\ cur' = "none" /\ UNCHANGED <<wire, short>>
        \/ /\ c.verb = "ANY" /\ cur = "none"
           /\ cur' = "ANY" /\ UNCHANGED <<wire, short>>
        \/ /\ c.verb = "FETCH" /\ cur = "none"
           /\ short' = (short \/ asked # c.b .. c.e)
           /\ \E order \in Ascending(asked) :
                LET lines == [k \in DOMAIN order |-> Line("HEADER", order[k], sess[order[k]])]
                IN \/ cur' = "FETCH" /\ wire' = wire \o lines
                   \/ /\ asked # c.b .. c.e
                      /\ wire' = (IF c.e > Len(sess) THEN wire ELSE wire \o lines)
                                   \o <<Line("NO", 0, NULL)>>
                      /\ UNCHANGED cur
  /\ UNCHANGED <<serverVars, clientVars, reopen, idle, pc, range,
                 qresync, raced>>

ServerCompletes ==
  /\ cur \in {"ANY", "FETCH"}
  /\ wire' = Append(wire, Line("OK", 0, NULL))
  /\ cur' = "none"
  /\ UNCHANGED <<serverVars, sent, clientVars, reopen, idle, pc,
                 range, ghosts>>
------------------------------------------------------------------------------
(* Commands of mutt.                                                       *)

\* cmd_start(): DONE, queued when IDLE was entered, goes out first.
Send(c) == (IF idle THEN <<Command("DONE", 0, 0)>> ELSE <<>>) \o <<c>>

\* imap_check_mailbox() with $imap_idle, not idling yet.
imap_cmd_idle ==
  /\ pc = "ready"
  /\ ~idle
  /\ reopen' = reopen \cup {"ALLOW"}
  /\ sent' = sent \o Send(Command("IDLE", 0, 0))
  /\ pc' = "enter"
  /\ UNCHANGED <<serverVars, cur, wire, clientVars, idle, range, ghosts>>

\* imap_check_mailbox() while idling reads what has arrived.
PollIdle ==
  /\ pc = "ready"
  /\ idle
  /\ reopen' = reopen \cup {"ALLOW"}
  /\ pc' = "poll"
  /\ UNCHANGED <<serverVars, cur, sent, wire, clientVars, idle, range, ghosts>>

\* imap_exec(): NOOP of a check and the commands of a sync run with reopening
\* allowed, a message is fetched for the pager without.
Exec(allow) ==
  /\ pc = "ready"
  /\ reopen' = reopen \cup allow
  /\ sent' = sent \o Send(Command("ANY", 0, 0))
  /\ idle' = FALSE
  /\ pc' = "exec"
  /\ UNCHANGED <<serverVars, cur, wire, clientVars, range, ghosts>>
------------------------------------------------------------------------------
(* The lines of the server.                                                *)

HandleExists(n) ==
  /\ IF n > max_msn
       THEN reopen' = reopen \cup {"NEWMAIL_PENDING"} /\ newMailCount' = n
       ELSE UNCHANGED <<reopen, newMailCount>>
  /\ UNCHANGED <<index, msn, gone, ghosts>>

\* The numbers above n move down by one.
Renumber(n) ==
  /\ index' = RemoveAt(index, n)
  /\ msn' = [u \in DOMAIN msn |->
               IF u = index[n] THEN 0 ELSE IF msn[u] > n THEN msn[u] - 1 ELSE msn[u]]

\* Mutant: an expunge waits until messages may be removed.
cmd_parse_expunge_Deferred(n) ==
  /\ IF n \in DOMAIN index /\ "ALLOW" \in reopen
       THEN /\ Renumber(n)
            /\ gone' = gone \cup ({index[n]} \ {NULL})
            /\ reopen' = reopen \cup {"EXPUNGE_PENDING"}
       ELSE UNCHANGED <<index, msn, gone, reopen>>
  /\ raced' = (raced \/ pc = "fetch")
  /\ UNCHANGED <<newMailCount, qresync, short>>

cmd_parse_expunge(n) ==
  /\ IF n \in DOMAIN index
       THEN /\ Renumber(n)
            /\ gone' = gone \cup ({index[n]} \ {NULL})
            /\ reopen' = reopen \cup {"EXPUNGE_PENDING"}
       ELSE UNCHANGED <<index, msn, gone, reopen>>
  /\ raced' = (raced \/ pc = "fetch")
  /\ UNCHANGED <<newMailCount, qresync, short>>

\* One UID of the set; mutt does not number messages it has not seen.
cmd_parse_vanished(u) ==
  /\ IF u \in DOMAIN msn
       THEN /\ gone' = gone \cup {u}
            /\ IF msn[u] \in DOMAIN index /\ index[msn[u]] = u
                 THEN Renumber(msn[u])
                 ELSE msn' = [msn EXCEPT ![u] = 0] /\ UNCHANGED index
       ELSE UNCHANGED <<index, msn, gone>>
  /\ reopen' = reopen \cup {"EXPUNGE_PENDING"}
  /\ raced' = (raced \/ pc = "fetch")
  /\ UNCHANGED <<newMailCount, qresync, short>>

\* read_headers_fetch_new() takes a header line for a number in its range
\* that has no header yet.
NewHeader(n, u) == n \in 1 .. range.upto /\ (n <= max_msn => index[n] = NULL)

HandleHeader(n, u) ==
  /\ IF pc = "fetch" /\ NewHeader(n, u)
       THEN /\ index' = [i \in 1 .. (IF n > max_msn THEN n ELSE max_msn) |->
                           IF i = n THEN u ELSE IF i > max_msn THEN NULL ELSE index[i]]
            /\ msn' = [v \in DOMAIN msn \cup {u} |-> IF v = u THEN n ELSE msn[v]]
       ELSE UNCHANGED <<index, msn>>
  /\ UNCHANGED <<gone, reopen, newMailCount, ghosts>>

\* An untagged line, read in any of the loops around imap_cmd_step().
HandleUntagged ==
  /\ pc # "ready"
  /\ wire # <<>>
  /\ LET l == Head(wire)
     IN \/ l.kind = "EXISTS" /\ HandleExists(l.n)
        \/ l.kind = "EXPUNGE" /\ cmd_parse_expunge(l.n)
        \/ l.kind = "VANISHED" /\ cmd_parse_vanished(l.uid)
        \/ l.kind = "HEADER" /\ HandleHeader(l.n, l.uid)
        \/ l.kind = "FLAGS" /\ UNCHANGED <<clientVars, reopen, ghosts>>
  /\ wire' = Tail(wire)
  /\ UNCHANGED <<serverVars, cur, sent, idle, pc, range>>

ExpungePending == "ALLOW" \in reopen /\ "EXPUNGE_PENDING" \in reopen
NewMailPending == "ALLOW" \in reopen /\ "NEWMAIL_PENDING" \in reopen

Chunk(b, e) == IF ChunkSize = 0 \/ e - b + 1 <= ChunkSize THEN e ELSE b + ChunkSize - 1

\* imap_fetch_msn_seqset() and the FETCH of the next chunk.
FetchChunk(b, e) ==
  /\ range' = [begin |-> b, upto |-> Chunk(b, e), last |-> e]
  /\ sent' = sent \o Send(Command("FETCH", b, Chunk(b, e)))
  /\ idle' = FALSE
  /\ pc' = "fetch"

DownloadFlags == reopen \ {"ALLOW", "EXPUNGE_PENDING", "NEWMAIL_PENDING"}

\* imap_cmd_finish() with imap_expunge_mailbox() and mx_update_tables(), which
\* remove the headers that are gone, and imap_read_headers() for new mail.
imap_cmd_finish ==
  /\ LET removed == IF ExpungePending THEN gone ELSE {}
     IN msn' = Drop(msn, removed) /\ gone' = gone \ removed
  /\ IF NewMailPending /\ newMailCount > max_msn
       THEN /\ FetchChunk(max_msn + 1, newMailCount)
            /\ reopen' = DownloadFlags
            /\ newMailCount' = 0
       ELSE /\ pc' = "ready"
            /\ reopen' = IF ExpungePending THEN DownloadFlags
                         ELSE reopen \ ({"ALLOW"} \cup {x \in {"NEWMAIL_PENDING"} : NewMailPending})
            /\ newMailCount' = IF NewMailPending THEN 0 ELSE newMailCount
            /\ UNCHANGED <<sent, idle, range>>
  /\ UNCHANGED <<serverVars, cur, index, ghosts>>

\* "+": IDLE has been entered, and mutt goes on to read what has arrived.
EnterIdle ==
  /\ pc = "enter"
  /\ wire # <<>> /\ Head(wire).kind = "+"
  /\ wire' = Tail(wire)
  /\ idle' = TRUE
  /\ pc' = "poll"
  /\ UNCHANGED <<serverVars, cur, sent, clientVars, reopen, range, ghosts>>

\* Nothing more has arrived while idling.
PollEnds ==
  /\ pc = "poll"
  /\ wire = <<>>
  /\ imap_cmd_finish
  /\ UNCHANGED wire

ExecEnds ==
  /\ pc = "exec"
  /\ wire # <<>> /\ Head(wire).kind = "OK"
  /\ wire' = Tail(wire)
  /\ imap_cmd_finish

\* A chunk is complete: the next one, which mail that came meanwhile may
\* extend, or the end of the download.
ChunkEnds ==
  /\ pc = "fetch"
  /\ wire # <<>> /\ Head(wire).kind = "OK"
  /\ wire' = Tail(wire)
  /\ LET more == "NEWMAIL_PENDING" \in reopen
         last == IF more THEN newMailCount ELSE range.last
         b == range.upto + 1
     IN /\ newMailCount' = IF more THEN 0 ELSE newMailCount
        /\ reopen' = reopen \ {"NEWMAIL_PENDING"}
        /\ IF range.upto < last /\ b <= last
             THEN FetchChunk(b, last)
             ELSE pc' = "ready" /\ range' = NoRange /\ UNCHANGED <<sent, idle>>
  /\ UNCHANGED <<serverVars, cur, index, msn, gone, ghosts>>

\* A refused FETCH ends the download; what was pending is forgotten.
DownloadFails ==
  /\ pc = "fetch"
  /\ wire # <<>> /\ Head(wire).kind = "NO"
  /\ wire' = Tail(wire)
  /\ pc' = "ready" /\ range' = NoRange
  /\ UNCHANGED <<serverVars, cur, sent, clientVars, reopen, idle, ghosts>>

Next ==
  \/ Deliver
  \/ \E u \in Uids : OtherClientExpunges(u)
  \/ SendExists
  \/ RepeatExists
  \/ \E i \in 1 .. MaxUid : SendExpunge(i) \/ SendFlags(i)
  \/ ServerReads
  \/ ServerCompletes
  \/ imap_cmd_idle
  \/ PollIdle
  \/ \E allow \in {{}, {"ALLOW"}} : Exec(allow)
  \/ HandleUntagged
  \/ EnterIdle
  \/ PollEnds
  \/ ExecEnds
  \/ ChunkEnds
  \/ DownloadFails

Spec == Init /\ [][Next]_vars
------------------------------------------------------------------------------
\* The variables hold what their comments say.
TypeOK ==
  /\ mbox \subseteq Uids /\ nextUid \in 1 .. MaxUid + 1
  /\ Range(sess) \subseteq Uids
  /\ cur \in {"none", "IDLE", "ANY", "FETCH"}
  /\ Range(index) \subseteq Uids \cup {NULL}
  /\ gone \subseteq DOMAIN msn /\ DOMAIN msn \subseteq Uids
  /\ reopen \subseteq {"ALLOW", "EXPUNGE_PENDING", "NEWMAIL_PENDING"}
  /\ newMailCount \in 0 .. MaxUid
  /\ pc \in {"ready", "enter", "poll", "exec", "fetch"}

\* A download with gaps, or one that lines renumbered, before VANISHED lines.
Adrift == qresync /\ (short \/ raced)

\* Every number mutt knows is the server's number for the same message once
\* what the server has sent is read, and header and index agree at any time:
\* EXPUNGE and VANISHED renumber both in step with the lines around them
\* (cmd_parse_expunge(), cmd_parse_vanished()), also in the middle of a
\* download.  VANISHED of a message whose header was never received does not
\* renumber what follows it: with VANISHED, every download must have been
\* complete.
NumbersAgree ==
  /\ \A u \in DOMAIN msn \ gone : msn[u] \in DOMAIN index /\ index[msn[u]] = u
  /\ wire = <<>> /\ ~Adrift => \A i \in DOMAIN index :
       index[i] # NULL => i \in DOMAIN sess /\ sess[i] = index[i]

\* Flags that come without a UID reach the message they were sent for
\* (cmd_parse_fetch()): no number means another message by the time the line
\* is read; but for the downloads named above.
FlagsHitTheirMessage ==
  /\ ~Adrift
  /\ wire # <<>> /\ Head(wire).kind = "FLAGS"
  /\ Head(wire).n \in DOMAIN index /\ index[Head(wire).n] # NULL
  => index[Head(wire).n] = Head(wire).uid

\* A message the server has announced is in the context, or still to be
\* downloaded, unless it has been expunged: read_headers_fetch_new() fills
\* every number up to the last one announced, in chunks, while more mail
\* arrives.  The numbers must not change under the download.
AnnouncedIsKnown ==
  wire = <<>> /\ sent = <<>> /\ pc = "ready" /\ ~raced /\ ~short /\ "NEWMAIL_PENDING" \notin reopen
    => Range(sess) \cap mbox \subseteq DOMAIN msn

\* What the comment in read_headers_fetch_new() relies on: the numbers have
\* not been altered during or after the fetch.
NumbersStayDuringFetch == ~raced
==============================================================================
