-------------------------------- MODULE Mbox --------------------------------
(***************************************************************************)
(* An mbox file that other programs write to: what mutt reads of it, how   *)
(* it notices changes, how it carries the user's changes over when it      *)
(* reads the file again, and how it rewrites it (mbox.c).  With a          *)
(* compressed mailbox all of this happens to a plain copy, which an        *)
(* open-hook makes and a close-hook writes back (compress.c).              *)
(*                                                                         *)
(* Positions in the file matter: a header knows the offset its message was *)
(* found at, and what is at that offset is what a sync copies.  Locking is *)
(* the subject of MailboxLock; here everybody locks, and check, reopen and *)
(* sync are steps.                                                         *)
(***************************************************************************)
EXTENDS Naturals, Sequences, SequencesExt, FiniteSetsExt

CONSTANTS
    MaxMsgs,       \* bound: messages ever delivered
    MaxForeign,    \* bound: rewrites by another program
    MaxPending,    \* bound: messages the user has changed since the last sync
    Alike,         \* messages mbox_strict_cmp_headers() cannot tell apart
    UndeleteStale  \* may the user undelete after a close-hook has failed?

VARIABLES
    kind,          \* "mbox" or "compressed"
    disk,          \* the compressed file: what the close-hook made it of
    zsize,         \* its size when it was last unpacked or packed
    file,          \* the mbox (or plain copy): messages in order
    newer,         \* its mtime is not ctx->mtime
    hdrs, size,    \* ctx->hdrs and ctx->size
    isOpen,        \* the mailbox is open
    delivered,     \* messages delivered so far
    foreign,       \* number of rewrites by others
    gone,          \* messages another program, or a sync, removed
    saved,         \* what "Saved partial mailbox to" names
    hookFailed,    \* a close-hook has failed since the last successful sync
    blind,         \* a change was taken for no change, or for new mail only
    wishes         \* what the user did last to each message, until it is synced

vars == <<kind, disk, zsize, file, newer, hdrs, size, isOpen, delivered, foreign,
          gone, saved, hookFailed, blind, wishes>>
------------------------------------------------------------------------------
Ids == 1 .. MaxMsgs

\* A message is longer by a status line when it is flagged.
SizeOf(m) == IF m.flagged THEN 3 ELSE 2
Size(f) == FoldSeq(LAMBDA m, sum : sum + SizeOf(m), 0, f)
Offset(f, k) == Size(SubSeq(f, 1, k - 1))
IdsOf(f) == {f[k].id : k \in DOMAIN f}

\* The messages whose offset is off: one, or none when it is inside another.
StartingAt(f, off) == {k \in DOMAIN f : Offset(f, k) = off}

\* mbox_parse_mailbox() from the message number k on.
Parsed(f, k) ==
  [j \in 1 .. Len(f) - k + 1 |->
     LET m == f[k + j - 1]
     IN [id |-> m.id, off |-> Offset(f, k + j - 1), flagged |-> m.flagged,
         changed |-> FALSE, deleted |-> FALSE]]

Init ==
  /\ kind \in {"mbox", "compressed"}
  /\ delivered = 2
  /\ file = [k \in 1 .. delivered |-> [id |-> k, flagged |-> FALSE]]
  /\ disk = file /\ zsize = Size(disk)
  /\ hdrs = Parsed(file, 1) /\ size = Size(file) /\ newer = FALSE
  /\ isOpen = TRUE
  /\ foreign = 0 /\ gone = {} /\ saved = {} /\ hookFailed = FALSE /\ blind = FALSE
  /\ wishes = [id \in Ids |-> [del |-> FALSE, flag |-> "any"]]
------------------------------------------------------------------------------
(* Other programs, and the user.                                           *)

Pending == {i \in DOMAIN hdrs : hdrs[i].deleted \/ hdrs[i].changed}

\* The file others see and write to.
Real == IF kind = "mbox" THEN file ELSE disk

Written(f) ==
  IF kind = "mbox" THEN file' = f /\ newer' = TRUE /\ UNCHANGED disk
  ELSE disk' = f /\ UNCHANGED <<file, newer>>

Deliver ==
  /\ delivered < MaxMsgs
  /\ delivered' = delivered + 1
  /\ Written(Append(Real, [id |-> delivered', flagged |-> FALSE]))
  /\ UNCHANGED <<kind, zsize, hdrs, size, isOpen, foreign, gone, saved, hookFailed, blind, wishes>>

ForeignFlag ==
  /\ foreign < MaxForeign
  /\ foreign' = foreign + 1
  /\ \E k \in DOMAIN Real : Written([Real EXCEPT ![k].flagged = ~@])
  /\ UNCHANGED <<kind, zsize, hdrs, size, isOpen, delivered, gone, saved, hookFailed, blind, wishes>>

ForeignDelete ==
  /\ foreign < MaxForeign
  /\ foreign' = foreign + 1
  /\ \E k \in DOMAIN Real :
       /\ Written(RemoveAt(Real, k))
       /\ gone' = gone \cup {Real[k].id}
  /\ UNCHANGED <<kind, zsize, hdrs, size, isOpen, delivered, saved, hookFailed, blind, wishes>>

UserFlag ==
  /\ isOpen
  /\ \E i \in DOMAIN hdrs :
       /\ Cardinality(Pending \cup {i}) <= MaxPending
       /\ hdrs' = [hdrs EXCEPT ![i].flagged = ~@, ![i].changed = TRUE]
       /\ wishes' = [wishes EXCEPT ![hdrs[i].id].flag = IF hdrs[i].flagged THEN "off" ELSE "on"]
  /\ UNCHANGED <<kind, disk, zsize, file, newer, size, isOpen, delivered, foreign, gone,
                 saved, hookFailed, blind>>

UserDelete ==
  /\ isOpen
  /\ \E i \in DOMAIN hdrs :
       /\ Cardinality(Pending \cup {i}) <= MaxPending
       /\ hdrs[i].deleted => UndeleteStale \/ ~hookFailed
       /\ hdrs' = [hdrs EXCEPT ![i].deleted = ~@]
       /\ wishes' = [wishes EXCEPT ![hdrs[i].id].del = ~hdrs[i].deleted]
  /\ UNCHANGED <<kind, disk, zsize, file, newer, size, isOpen, delivered, foreign, gone,
                 saved, hookFailed, blind>>
------------------------------------------------------------------------------
(* mbox_check_mailbox() and mutt_reopen_mailbox()                          *)

Same(h, o) == h.id = o.id \/ (h.id \in Alike /\ o.id \in Alike)

\* Mutant: the deletion goes with the flags.
Merged_Changed(h, o) ==
  [h EXCEPT !.flagged = IF o.changed THEN o.flagged ELSE @,
            !.changed = o.changed /\ h.flagged # o.flagged,
            !.deleted = o.changed /\ o.deleted]

\* A header read again takes over the flags of its old self if the user has
\* changed it, and the deletion in any case.
Merged(h, o) ==
  [h EXCEPT !.flagged = IF o.changed THEN o.flagged ELSE @,
            !.changed = o.changed /\ h.flagged # o.flagged,
            !.deleted = o.deleted]

\* Which old header goes to the i-th new one: the search starts at i, then
\* from the beginning; an old header is used once.
Match(new, old, i, used) ==
  LET fits == {j \in DOMAIN old \ used : Same(new[i], old[j])}
      ahead == {j \in fits : j >= i}
  IN IF fits = {} THEN 0 ELSE IF ahead # {} THEN Min(ahead) ELSE Min(fits)

Recovered(new, old) ==
  LET match[i \in 0 .. Len(new)] ==
        IF i = 0 THEN [used |-> {}, of |-> <<>>]
        ELSE LET before == match[i - 1]
                 j == Match(new, old, i, before.used)
             IN [used |-> before.used \cup {j}, of |-> Append(before.of, j)]
      of == match[Len(new)].of
  IN [i \in DOMAIN new |-> IF of[i] = 0 THEN new[i] ELSE Merged(new[i], old[of[i]])]

\* What a check of the file f finds.
Grown(f) == Size(f) > size /\ StartingAt(f, size) # {}

Finding(f, isNewer) ==
  CASE ~isNewer /\ Size(f) = size -> "same"
    [] isNewer /\ Size(f) = size -> "touched"
    [] Grown(f) -> "new mail"
    [] OTHER -> "reopened"

\* The headers afterwards, and whether the file is not what they say.
HdrsAfter(f, found) ==
  CASE found \in {"same", "touched"} -> hdrs
    [] found = "new mail" -> hdrs \o Parsed(f, CHOOSE k \in StartingAt(f, size) : TRUE)
    [] found = "reopened" -> Recovered(Parsed(f, 1), hdrs)

Agrees(f, hs) ==
  \A i \in DOMAIN hs : \E k \in StartingAt(f, hs[i].off) :
    f[k].id = hs[i].id /\ (f[k].flagged = hs[i].flagged \/ hs[i].changed)

\* check_mailbox() of compress.c unpacks the file when its size has changed.
Unpack == kind = "compressed" /\ Size(disk) # zsize

\* Only a file that is not read again from the start can be misjudged: when it
\* differs from what is known of it and has the size, or the start, it had;
\* nor does the size say much when a close-hook has failed on the last copy.
Missed(found, f, hs) ==
  \/ blind
  \/ found # "reopened" /\ hookFailed /\ f # file
  \/ found # "reopened" /\ ~hookFailed /\ ~Agrees(f, hs)
  \/ kind = "compressed" /\ ~Unpack /\ ~(IdsOf(disk) \subseteq {hs[i].id : i \in DOMAIN hs})

Checked(f, isNewer) ==
  LET found == Finding(f, isNewer)
  IN /\ file' = f
     /\ newer' = FALSE
     /\ hdrs' = HdrsAfter(f, found)
     /\ size' = Size(f)
     /\ blind' = Missed(found, f, hdrs')

Seen == IF Unpack THEN disk ELSE file
SeenNewer == newer \/ Unpack

\* A wish the file agrees with is fulfilled.
StillWished(id, w) ==
  IF \E i \in DOMAIN hdrs' : LET h == hdrs'[i]
                            IN h.id = id /\ ~h.changed /\ h.flagged = (w.flag = "on")
  THEN [w EXCEPT !.flag = "any"] ELSE w

Check ==
  /\ isOpen
  /\ Checked(Seen, SeenNewer)
  /\ wishes' = [id \in Ids |-> StillWished(id, wishes[id])]
  /\ zsize' = IF Unpack THEN Size(disk) ELSE zsize
  /\ hookFailed' = (hookFailed /\ Finding(Seen, SeenNewer) # "reopened")
  /\ UNCHANGED <<kind, disk, isOpen, delivered, foreign, gone, saved>>
------------------------------------------------------------------------------
(* mbox_sync_mailbox() and sync_mailbox() of compress.c                    *)

First == Min(Pending)

\* The messages that are written, each copied from its offset with the flags
\* of its header: everything from the first changed one on.
Kept == SelectSeq([j \in 1 .. Len(hdrs) - First + 1 |-> hdrs[First + j - 1]],
                  LAMBDA h : ~h.deleted)
Readable == \A i \in DOMAIN hdrs : i >= First => StartingAt(file, hdrs[i].off) # {}

Copied ==
  [j \in DOMAIN Kept |->
     [id |-> file[CHOOSE k \in StartingAt(file, Kept[j].off) : TRUE].id,
      flagged |-> Kept[j].flagged]]

Head1 == SubSeq(file, 1, (CHOOSE k \in StartingAt(file, hdrs[First].off) : TRUE) - 1)

\* The headers with the offsets of the new file; a deleted one keeps its own.
Moved(f) ==
  [i \in DOMAIN hdrs |->
     IF i < First \/ hdrs[i].deleted THEN hdrs[i]
     ELSE LET before == {j \in First .. i - 1 : ~hdrs[j].deleted}
              at == Len(Head1) + Cardinality(before) + 1
          IN [hdrs[i] EXCEPT !.off = Offset(f, at)]]

\* What mx_sync_mailbox() does when the driver has succeeded.
Purged(hs) ==
  LET kept == SelectSeq(hs, LAMBDA h : ~h.deleted)
  IN [i \in DOMAIN kept |-> [kept[i] EXCEPT !.changed = FALSE]]

\* The mailbox is as it was when last read: nothing new, nothing to unpack.
Quiet == isOpen /\ Pending # {} /\ ~Unpack /\ Finding(file, newer) \in {"same", "touched"}

Removed == {hdrs[i].id : i \in {j \in DOMAIN hdrs : hdrs[j].deleted}}

Sync ==
  /\ Quiet
  /\ Readable
  /\ LET new == Head1 \o Copied
     IN /\ file' = new
        /\ size' = Size(new)
        /\ newer' = FALSE
        /\ \/ /\ hdrs' = Purged(Moved(new))          \* success
              /\ disk' = IF kind = "compressed" THEN new ELSE disk
              /\ zsize' = Size(disk')
              /\ gone' = gone \cup Removed
              /\ hookFailed' = FALSE
              /\ wishes' = [id \in Ids |-> [del |-> FALSE, flag |-> "any"]]
           \/ /\ kind = "compressed"                 \* the close-hook fails
              /\ hdrs' = Moved(new)
              /\ zsize' = Size(disk)
              /\ hookFailed' = TRUE
              /\ UNCHANGED <<disk, gone, wishes>>
  /\ blind' = Missed(Finding(file, newer), file, hdrs)
  /\ UNCHANGED <<kind, isOpen, delivered, foreign, saved>>

\* The disk is full while the new messages are copied back: the file has some
\* of them, all of them stay in the temporary file, the mailbox is closed.
WriteFails ==
  /\ Quiet
  /\ Readable
  /\ \E n \in 0 .. Len(Copied) : file' = Head1 \o SubSeq(Copied, 1, n)
  /\ saved' = saved \cup IdsOf(Copied)
  /\ gone' = gone \cup Removed
  /\ isOpen' = FALSE
  /\ blind' = Missed(Finding(file, newer), file, hdrs)
  /\ UNCHANGED <<kind, disk, zsize, newer, hdrs, size, delivered, foreign, hookFailed, wishes>>

Next ==
  \/ Deliver \/ ForeignFlag \/ ForeignDelete
  \/ UserFlag \/ UserDelete
  \/ Check \/ Sync \/ WriteFails

Spec == Init /\ [][Next]_vars
------------------------------------------------------------------------------
TypeOK ==
  /\ kind \in {"mbox", "compressed"}
  /\ \A k \in DOMAIN file : file[k].id \in Ids
  /\ \A i \in DOMAIN hdrs : hdrs[i].id \in Ids
  /\ gone \cup saved \subseteq Ids
  /\ delivered \in 0 .. MaxMsgs

\* Mail nobody removed is in the mailbox, or in the copy that is kept when
\* the mailbox could not be written.
NoMailLost ==
  ~blind =>
    \A id \in 1 .. delivered :
      id \in gone \cup saved \cup IdsOf(Real)

\* After a check the headers say what the file has: each is at the offset of
\* its own message, with the flags of the file unless the user has changed
\* them; so a sync copies the right messages and undoes no change of another
\* program.  The headers a failed close-hook leaves are not covered.
HeadersMatchFile ==
  isOpen /\ ~newer /\ ~hookFailed /\ ~blind =>
    \A i \in DOMAIN hdrs : \E k \in StartingAt(file, hdrs[i].off) :
      /\ Same(file[k], hdrs[i])
      /\ file[k].flagged = hdrs[i].flagged \/ hdrs[i].changed

\* Reading the file again forgets nothing the user has asked for, of messages
\* that look like no other.
WishesKept ==
  isOpen /\ ~blind =>
    \A i \in DOMAIN hdrs : hdrs[i].id \notin Alike =>
      LET wish == wishes[hdrs[i].id]
      IN /\ hdrs[i].deleted = wish.del
         /\ wish.flag # "any" => hdrs[i].flagged = (wish.flag = "on")

MboxFollowed == WishesKept /\ NoMailLost /\ HeadersMatchFile
==============================================================================
