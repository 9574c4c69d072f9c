------------------------------ MODULE ImapFlags ------------------------------
(***************************************************************************)
(* The flags of a message in an open IMAP mailbox: what the user sees and  *)
(* changes (HEADER), mutt's record of what the server has (HEADER_DATA),   *)
(* and the server, where other clients change the same flags.  From        *)
(* imap_set_flags() and cmd_parse_fetch(), imap_sync_mailbox() with        *)
(* imap_exec_msgset() and sync_helper(), and imap_reconnect().             *)
(*                                                                         *)
(* The old, read and replied flags are handled like FLAG.  The other       *)
(* messages of the mailbox appear when one of them is expunged.            *)
(***************************************************************************)
EXTENDS Integers, Sequences, FiniteSets

CONSTANTS
    Refusals,   \* the server may answer NO to a STORE
    MaxWire,    \* bound: lines on their way to mutt
    MaxLosses   \* bound: how often the connection is lost

VARIABLES
    stored,     \* the flags the server has; "gone" when the message is expunged
    owed,       \* another client changed them and mutt has not been told
    sent,       \* commands on their way to the server
    wire,       \* lines on their way to mutt
    flags,      \* h->deleted and h->flagged
    recorded,   \* HEADER_DATA(h)->deleted and ->flagged
    changed,    \* h->changed
    active,     \* h->active
    pending,    \* idata->reopen has EXPUNGE_PENDING
    news,       \* idata->check_status is not 0
    pc,         \* the call mutt is in
    result,     \* the status of the last tagged line that was read
    losses,
    want,       \* what the user set: flag -> value
    touched,    \* flags another client changed after the user had set them,
                \* or before without mutt having been told
    raced,      \* flags were announced to a message mutt was writing, or a
                \* sync left a change of an inactive message out
    refused     \* a STORE was refused

server == <<stored, owed>>
header == <<flags, recorded, changed, active>>
session == <<pending, news>>
ghosts == <<want, touched, raced, refused>>
vars == <<server, sent, wire, header, session, pc, result, losses, ghosts>>
------------------------------------------------------------------------------
Flag == {"DELETE", "FLAG"}
Gone == {"gone"}
Exists == stored # Gone
Open == pc \notin {"lost", "closed"}

Line(kind, set) == [kind |-> kind, set |-> set]
Store(sign, f) == [verb |-> sign, flag |-> f]
Command(verb) == [verb |-> verb, flag |-> "none"]
Tagged == {"OK", "NO"}

\* Commands mutt has sent or queued and not been answered.
waiting == Len(sent) + Cardinality({i \in DOMAIN wire : wire[i].kind \in Tagged})

With(set, f, on) == IF on THEN set \cup {f} ELSE set \ {f}
Toggle(set, f) == With(set, f, f \notin set)

Init ==
  /\ stored \in SUBSET Flag /\ owed = FALSE
  /\ sent = <<>> /\ wire = <<>>
  /\ flags = stored /\ recorded = stored
  /\ changed = FALSE /\ active = TRUE
  /\ pending = FALSE /\ news = FALSE
  /\ pc = "ready" /\ result = "OK" /\ losses = 0
  /\ want = <<>> /\ touched = {} /\ raced = FALSE /\ refused = FALSE
------------------------------------------------------------------------------
(* The server and the other clients.                                       *)

OtherClientStores(f) ==
  /\ Exists
  /\ stored' = Toggle(stored, f)
  /\ owed' = TRUE
  /\ touched' = touched \cup {f}
  /\ UNCHANGED <<sent, wire, header, session, pc, result, losses, want, raced, refused>>

\* Changes of other clients are announced while a command is in progress.
Announce ==
  /\ Open /\ owed /\ Exists
  /\ sent # <<>>
  /\ Len(wire) < MaxWire
  /\ wire' = Append(wire, Line("FETCH", stored))
  /\ owed' = FALSE
  /\ UNCHANGED <<stored, sent, header, session, pc, result, losses, ghosts>>

\* Another message is expunged.
AnnounceOther ==
  /\ Open /\ sent # <<>> /\ wire = <<>>
  /\ wire' = Append(wire, Line("EXPUNGE_OTHER", {}))
  /\ UNCHANGED <<server, sent, header, session, pc, result, losses, ghosts>>

\* The server carries out the next command.  A STORE is silent.
ServerExecutes ==
  /\ Open /\ sent # <<>>
  /\ sent' = Tail(sent)
  /\ LET c == Head(sent)
     IN \/ /\ c.verb \in {"+", "-"}
           /\ stored' = IF Exists THEN With(stored, c.flag, c.verb = "+") ELSE stored
           /\ wire' = Append(wire, Line("OK", {}))
           /\ UNCHANGED refused
        \/ /\ c.verb \in {"+", "-"} /\ Refusals
           /\ wire' = Append(wire, Line("NO", {}))
           /\ refused' = TRUE
           /\ UNCHANGED stored
        \/ /\ c.verb = "NOOP"
           /\ wire' = Append(wire, Line("OK", {}))
           /\ UNCHANGED <<stored, refused>>
        \/ /\ c.verb = "EXPUNGE"
           /\ IF "DELETE" \in stored
                THEN /\ stored' = Gone
                     /\ wire' = wire \o <<Line("EXPUNGE", {}), Line("OK", {})>>
                ELSE /\ wire' = Append(wire, Line("OK", {}))
                     /\ UNCHANGED stored
           /\ UNCHANGED refused
  /\ UNCHANGED <<owed, header, session, pc, result, losses, want, touched, raced>>
------------------------------------------------------------------------------
(* The user.                                                               *)

\* mutt_set_flag(): an IMAP message is changed when any of its flags is.
mutt_set_flag(f) ==
  /\ pc = "ready"
  /\ flags' = Toggle(flags, f)
  /\ changed' = TRUE
  /\ want' = [g \in DOMAIN want \cup {f} |-> IF g = f THEN f \notin flags ELSE want[g]]
  /\ touched' = IF owed THEN touched ELSE touched \ {f}
  /\ UNCHANGED <<server, sent, wire, recorded, active, session, pc, result,
                 losses, raced, refused>>

\* imap_check_mailbox() with a NOOP.
imap_check_mailbox ==
  /\ pc = "ready"
  /\ sent' = Append(sent, Command("NOOP"))
  /\ pc' = "check"
  /\ UNCHANGED <<server, wire, header, session, result, losses, ghosts>>
------------------------------------------------------------------------------
(* Lines of the server.                                                    *)

\* Mutant: the flags of the server replace the user's.
imap_set_flags_Overwrite(set) ==
  /\ recorded' = set
  /\ flags' = set
  /\ news' = TRUE
  /\ UNCHANGED pending

\* imap_set_flags() and the end of cmd_parse_fetch(): local changes have
\* priority; that the server's are others is noted.
imap_set_flags(set) ==
  /\ recorded' = set
  /\ flags' = IF changed THEN flags ELSE set
  /\ LET server_changes == \E f \in Flag : /\ f \in set <=> f \notin flags
                                           /\ changed => (f \in set <=> f \notin recorded)
     IN /\ pending' = (pending \/ (server_changes /\ changed))
        /\ news' = (news \/ (server_changes /\ ~changed))

cmd_parse_fetch(set) ==
  /\ IF active THEN imap_set_flags(set) ELSE UNCHANGED <<flags, recorded, session>>
  /\ raced' = (raced \/ ~active \/ pc \in {"flush", "flushx"})
  /\ UNCHANGED <<changed, active, want, touched, refused>>

ReadLine ==
  /\ Open /\ pc # "ready"
  /\ wire # <<>>
  /\ wire' = Tail(wire)
  /\ LET l == Head(wire)
     IN \/ /\ l.kind = "FETCH" /\ cmd_parse_fetch(l.set)
           /\ UNCHANGED result
        \/ /\ l.kind \in {"EXPUNGE", "EXPUNGE_OTHER"}
           /\ pending' = TRUE
           /\ UNCHANGED <<header, news, result, ghosts>>
        \/ /\ l.kind \in Tagged
           /\ result' = l.kind
           /\ UNCHANGED <<header, session, ghosts>>
  /\ UNCHANGED <<server, sent, pc, losses>>

\* imap_cmd_finish() where the context may change, and imap_expunge_mailbox():
\* headers that were not expunged are active again.
imap_cmd_finish ==
  /\ active' = (active \/ pending)
  /\ pending' = FALSE

CheckEnds ==
  /\ pc = "check"
  /\ waiting = 0
  /\ imap_cmd_finish
  /\ news' = FALSE
  /\ pc' = IF Exists THEN "ready" ELSE "closed"
  /\ UNCHANGED <<server, sent, wire, flags, recorded, changed, result, losses, ghosts>>
------------------------------------------------------------------------------
(* imap_sync_mailbox()                                                     *)

\* It begins with a check, which need not ask the server; news end the sync.
SyncBegins ==
  /\ pc = "ready"
  /\ \/ sent' = Append(sent, Command("NOOP"))
     \/ UNCHANGED sent
  /\ pc' = "sync"
  /\ UNCHANGED <<server, wire, header, session, result, losses, ghosts>>

\* sync_helper(): one command for the messages that got the flag, one for
\* those that lost it, if they are changed and active.
sync_helper(f, isActive) ==
  IF isActive /\ changed /\ (f \in flags <=> f \notin recorded)
    THEN <<Store(IF f \in flags THEN "+" ELSE "-", f)>>
    ELSE <<>>

\* Deleted messages are done first when they will be expunged anyway.
QuickDelete == changed /\ "DELETE" \in flags /\ "DELETE" \notin recorded /\ active

StillActive(expunge) == active /\ ~(expunge /\ QuickDelete)

LeftOut(f, expunge) ==
  /\ changed /\ (f \in flags <=> f \notin recorded)
  /\ ~StillActive(expunge) /\ ~(f = "DELETE" /\ QuickDelete)

QueueStores ==
  /\ pc = "sync"
  /\ waiting = 0
  /\ IF news \/ pending
       THEN /\ imap_cmd_finish
            /\ news' = FALSE
            /\ pc' = IF Exists THEN "ready" ELSE "closed"
            /\ UNCHANGED <<sent, raced>>
       ELSE \E expunge \in BOOLEAN :
              /\ sent' = (IF expunge /\ QuickDelete THEN <<Store("+", "DELETE")>> ELSE <<>>)
                           \o sync_helper("DELETE", StillActive(expunge))
                           \o sync_helper("FLAG", StillActive(expunge))
              /\ active' = StillActive(expunge)
              /\ pc' = IF expunge THEN "flushx" ELSE "flush"
              /\ raced' = (raced \/ \E f \in Flag : LeftOut(f, expunge))
              /\ UNCHANGED session
  /\ result' = "OK"
  /\ UNCHANGED <<server, wire, flags, recorded, changed, losses, want, touched, refused>>

\* The local record of what the server has after a sync.
Synced == recorded' = flags /\ changed' = FALSE

\* imap_exec() returns the status of the last line: an earlier one is lost.
FlushEnds ==
  /\ pc \in {"flush", "flushx"}
  /\ waiting = 0
  /\ imap_cmd_finish
  /\ news' = (news \/ pending)
  /\ IF result = "OK"
       THEN /\ Synced
            /\ IF pc = "flushx"
                 THEN sent' = <<Command("EXPUNGE")>> /\ pc' = "expunge"
                 ELSE UNCHANGED sent /\ pc' = "ready"
       ELSE UNCHANGED <<recorded, changed, sent>> /\ pc' = "ready"
  /\ UNCHANGED <<server, wire, flags, result, losses, ghosts>>

ExpungeEnds ==
  /\ pc = "expunge"
  /\ waiting = 0
  /\ imap_cmd_finish
  /\ pc' = IF Exists THEN "ready" ELSE "closed"
  /\ UNCHANGED <<server, sent, wire, flags, recorded, changed, news, result, losses, ghosts>>
------------------------------------------------------------------------------
(* The connection is lost at any moment; a later check opens the mailbox   *)
(* again.  A STORE of the lost session that is carried out after that is   *)
(* to mutt what OtherClientStores() is.                                    *)

Lose ==
  /\ Open
  /\ losses < MaxLosses
  /\ losses' = losses + 1
  /\ \E n \in 0 .. Len(sent) : sent' = SubSeq(sent, 1, n)
  /\ pc' = "lost"
  /\ wire' = <<>>
  /\ UNCHANGED <<server, header, session, result, ghosts>>

\* What reached the server before the connection broke is carried out.
OrphansExecute ==
  /\ pc = "lost"
  /\ sent # <<>>
  /\ LET c == Head(sent)
     IN stored' = CASE c.verb \in {"+", "-"} /\ Exists -> With(stored, c.flag, c.verb = "+")
                    [] c.verb = "EXPUNGE" /\ "DELETE" \in stored -> Gone
                    [] OTHER -> stored
  /\ sent' = Tail(sent)
  /\ UNCHANGED <<owed, wire, header, session, pc, result, losses, ghosts>>

\* The flags of a changed message are carried over to the new header, its
\* deletion also when it is not changed.
Merged(set) ==
  With(With(set, "FLAG", IF changed THEN "FLAG" \in flags ELSE "FLAG" \in set),
       "DELETE", "DELETE" \in flags)

\* "Reconnect failed.  Mailbox closed.", or there is no such message any more.
imap_reconnect ==
  /\ pc = "lost"
  /\ sent' = <<>>
  /\ \/ /\ Exists
        /\ recorded' = stored
        /\ flags' = Merged(stored)
        /\ changed' = (Merged(stored) # stored)
        /\ pc' = "ready"
     \/ UNCHANGED <<recorded, flags, changed>> /\ pc' = "closed"
  /\ active' = TRUE /\ pending' = FALSE /\ news' = FALSE
  /\ owed' = FALSE
  /\ UNCHANGED <<stored, wire, result, losses, ghosts>>

Next ==
  \/ \E f \in Flag : OtherClientStores(f) \/ mutt_set_flag(f)
  \/ Announce
  \/ AnnounceOther
  \/ ServerExecutes
  \/ imap_check_mailbox
  \/ ReadLine
  \/ CheckEnds
  \/ SyncBegins
  \/ QueueStores
  \/ FlushEnds
  \/ ExpungeEnds
  \/ Lose
  \/ OrphansExecute
  \/ imap_reconnect

Spec == Init /\ [][Next]_vars
------------------------------------------------------------------------------
\* The variables hold what their comments say.
TypeOK ==
  /\ stored \in (SUBSET Flag) \cup {Gone} /\ owed \in BOOLEAN
  /\ flags \subseteq Flag /\ recorded \subseteq Flag
  /\ {changed, active, pending, news} \subseteq BOOLEAN
  /\ pc \in {"ready", "check", "sync", "flush", "flushx", "expunge", "lost", "closed"}
  /\ DOMAIN want \subseteq Flag /\ touched \subseteq Flag

Quiet == pc = "ready" /\ wire = <<>> /\ sent = <<>> /\ ~owed /\ Exists

\* When nothing is on its way, mutt's record is what the server has, a
\* message without changes shows it, and what the user last set is on the
\* server unless another client set it later or unseen: whatever clients do to the same
\* flags, and wherever the connection breaks in a sync (imap_set_flags(),
\* imap_sync_mailbox(), imap_reconnect()).
FlagsConverge ==
  Quiet /\ ~raced /\ ~refused =>
    /\ recorded = stored
    /\ ~changed => /\ flags = stored
                   /\ \A f \in DOMAIN want \ touched : want[f] = (f \in stored)
    /\ changed => \A f \in DOMAIN want \ touched : want[f] = (f \in flags)

\* What imap_sync_mailbox() says of its record: it reflects the
\* synchronization just completed.
RecordIsServer == Quiet /\ ~raced /\ ~changed => recorded = stored
==============================================================================
