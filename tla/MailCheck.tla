------------------------------ MODULE MailCheck ------------------------------
(***************************************************************************)
(* New mail in the mailboxes of the "mailboxes" command: how each kind of  *)
(* mailbox is judged (buffy.c, imap_buffy_check() and cmd_parse_status()), *)
(* and what is announced.  $mail_check_recent is set, as it is by default. *)
(*                                                                         *)
(* A mailbox is judged by marks left at different moments by different     *)
(* programs: the times of its file, the time mutt closed it, the size or   *)
(* the UIDNEXT mutt remembers.                                             *)
(***************************************************************************)
EXTENDS Naturals, FiniteSets, FiniteSetsExt

CONSTANTS
    WatchedSets,      \* the sets of mailboxes to take, each of one kind of AllKinds
    NoNotify,     \* those added with -nonotify
    MaxTime       \* bound: changes to mailboxes and visits

AllKinds == {"mbox", "sized", "maildir", "imap"}

ASSUME MailCheckAssumption == WatchedSets \subseteq SUBSET AllKinds /\ NoNotify \subseteq AllKinds

VARIABLES
    Boxes,        \* the mailboxes of the "mailboxes" command
    now,          \* the clock
    file,         \* [Boxes -> what other programs and the server keep]
    buffy,        \* [Boxes -> the BUFFY, and status->uidnext for IMAP]
    open,         \* the mailbox that is open, or "none"
    BuffyNotify,  \* mailboxes to announce
    checked,      \* boxes judged since anything last changed
    fresh,        \* boxes with unread mail received since the user opened them
    overlooked,   \* boxes whose mail was there before a mark was set
    told,         \* boxes announced since they last had no new mail
    skipped       \* boxes whose next mail is taken for announced

vars == <<Boxes, now, file, buffy, open, BuffyNotify, checked, fresh, overlooked, told, skipped>>
------------------------------------------------------------------------------
\* size stands for UIDNEXT in an IMAP mailbox; arrived is the ctime of the
\* newest unread message of a maildir.
Init ==
  /\ Boxes \in WatchedSets
  /\ now = 1
  /\ file = [b \in Boxes |-> [exists |-> TRUE, mtime |-> 0, atime |-> 1, size |-> 1,
                              unread |-> FALSE, arrived |-> 0]]
  /\ \E uv \in BOOLEAN :
       buffy = [b \in Boxes |-> [new |-> FALSE, notified |-> TRUE, visited |-> 0,
                                 newly |-> FALSE, known |-> IF b = "imap" /\ ~uv THEN 0 ELSE 1,
                                 uv |-> uv]]
  /\ open = "none" /\ BuffyNotify = 0
  /\ checked = {} /\ fresh = {} /\ overlooked = {} /\ told = {} /\ skipped = Boxes

Tick == now < MaxTime /\ now' = now + 1 /\ checked' = {} /\ UNCHANGED Boxes
------------------------------------------------------------------------------
(* Other programs.                                                         *)

\* A file that is created has one time for everything: only a mailbox known
\* not to have existed shows by it that it is new.  A file that is no larger
\* than it was shows nothing by its size.
Unremarkable(b) ==
  \/ b = "mbox" /\ ~file[b].exists /\ ~buffy[b].newly
  \/ b = "sized" /\ file[b].size < buffy[b].known

Deliver(b) ==
  /\ Tick
  /\ file' = [file EXCEPT ![b] = [exists |-> TRUE, mtime |-> now', size |-> @.size + 1,
                                  atime |-> IF @.exists THEN @.atime ELSE now',
                                  unread |-> TRUE, arrived |-> now']]
  /\ fresh' = fresh \cup {b}
  /\ overlooked' = IF Unremarkable(b) THEN overlooked \cup {b} ELSE overlooked \ {b}
  /\ UNCHANGED <<buffy, open, BuffyNotify, told, skipped>>

OtherReads(b) ==
  /\ Tick
  /\ file[b].unread
  /\ file' = [file EXCEPT ![b].unread = FALSE, ![b].atime = now']
  /\ fresh' = fresh \ {b} /\ overlooked' = overlooked \ {b}
  /\ UNCHANGED <<buffy, open, BuffyNotify, told, skipped>>

\* Another program takes all mail away, and the file with it.
OtherRemoves(b) ==
  /\ Tick
  /\ b \in {"mbox", "sized"} /\ file[b].exists /\ open # b
  /\ file' = [file EXCEPT ![b].unread = FALSE, ![b].exists = FALSE, ![b].size = 0]
  /\ fresh' = fresh \ {b} /\ overlooked' = overlooked \ {b}
  /\ UNCHANGED <<buffy, open, BuffyNotify, told, skipped>>
------------------------------------------------------------------------------
(* The user opens and closes mailboxes, and mutt appends to them.          *)

\* imap_open_mailbox() and read_headers() note UIDNEXT; reading an mbox sets
\* its atime.
Seen(b) ==
  /\ file' = [file EXCEPT ![b].atime = now']
  /\ buffy' = [buffy EXCEPT ![b].known = IF b = "imap" THEN file[b].size ELSE @,
                            ![b].uv = TRUE]

Open(b) ==
  /\ Tick
  /\ open = "none" /\ file[b].exists
  /\ open' = b
  /\ Seen(b)
  /\ fresh' = fresh \ {b} /\ overlooked' = overlooked \ {b} /\ told' = told \ {b}
  /\ UNCHANGED <<BuffyNotify, skipped>>

\* mx_check_mailbox() of the index shows what has arrived in the open mailbox.
CheckOpen ==
  /\ Tick
  /\ open \in fresh
  /\ Seen(open)
  /\ fresh' = fresh \ {open}
  /\ UNCHANGED <<open, BuffyNotify, overlooked, told, skipped>>

mutt_buffy_setnotified(b, bf) == [bf EXCEPT ![b].notified = TRUE, ![b].visited = now']

\* Mail that came after the last check of the open mailbox has the time it was
\* closed against it, except on a server.
Close ==
  /\ Tick
  /\ open # "none"
  /\ buffy' = mutt_buffy_setnotified(open, buffy)
  /\ overlooked' = IF open # "imap" THEN overlooked \cup (fresh \cap {open}) ELSE overlooked
  /\ skipped' = skipped \cup {open}
  /\ open' = "none"
  /\ UNCHANGED <<file, BuffyNotify, fresh, told>>

\* mutt_buffy_cleanup() after mutt has appended to an mbox means to leave new
\* mail new; but the mtime it sets is that of the visit, as clocks of files go.
mutt_buffy_cleanup(b, bf) ==
  CASE b = "sized" ->
         /\ buffy' = IF bf[b].new THEN bf ELSE [bf EXCEPT ![b].known = file[b].size + 1]
         /\ file' = [file EXCEPT ![b].size = @ + 1, ![b].mtime = now']
    [] b = "mbox" ->
         /\ buffy' = bf
         /\ file' = [file EXCEPT ![b].size = @ + 1, ![b].mtime = now',
                                 ![b].atime = IF file[b].mtime > @ THEN @ ELSE now']
    [] OTHER -> buffy' = bf /\ file' = [file EXCEPT ![b].size = @ + 1]

\* A copy is saved to a mailbox: opening it to append and closing it is a
\* visit like any other.
Append(b) ==
  /\ Tick
  /\ open # b /\ file[b].exists
  /\ mutt_buffy_cleanup(b, mutt_buffy_setnotified(b, buffy))
  /\ overlooked' = IF b # "imap" THEN overlooked \cup (fresh \cap {b}) ELSE overlooked
  /\ skipped' = skipped \cup {b}
  /\ UNCHANGED <<open, BuffyNotify, fresh, told>>
------------------------------------------------------------------------------
(* mutt_buffy_check()                                                      *)

Recent(b) == file[b].mtime > buffy[b].visited

\* Mutant: the two times of the file are enough.
buffy_mbox_check_Times(b) ==
  \/ file[b].mtime > file[b].atime
  \/ buffy[b].newly /\ file[b].mtime = file[b].atime

buffy_mbox_check(b) ==
  /\ \/ file[b].mtime > file[b].atime
     \/ buffy[b].newly /\ file[b].mtime = file[b].atime
  /\ Recent(b)

BySize(b) == file[b].size > buffy[b].known /\ Recent(b)

buffy_maildir_check(b) == file[b].unread /\ file[b].arrived > buffy[b].visited

\* The first STATUS of a session goes by RECENT, later ones by UIDNEXT.
cmd_parse_status(b) ==
  IF buffy[b].uv THEN buffy[b].known < file[b].size /\ file[b].unread
  ELSE b \in fresh

Judged(b) ==
  CASE b = "mbox" -> file[b].exists /\ buffy_mbox_check(b)
    [] b = "sized" -> file[b].exists /\ BySize(b)
    [] b = "maildir" -> buffy_maildir_check(b)
    [] b = "imap" -> cmd_parse_status(b)

\* What is remembered for the next check: the size of an mbox that has not
\* grown or is open; UIDNEXT unless there is new mail.
KnownAfter(b, new) ==
  CASE b = "sized" -> IF ~file[b].exists THEN 0
                      ELSE IF open = b \/ file[b].size <= buffy[b].known THEN file[b].size
                      ELSE buffy[b].known
    [] b = "imap" /\ open # b -> IF new THEN buffy[b].known ELSE file[b].size
    [] OTHER -> buffy[b].known

NotifiedAfter(b, new) == new /\ (buffy[b].notified \/ b \in NoNotify)

\* Mutant: the count of the last check is not reset.
Counted_On(due) == BuffyNotify + Cardinality(due)

Counted(due) == Cardinality(due)

\* up: the server answered.  Without an answer an IMAP mailbox has no new mail.
mutt_buffy_check ==
  \E up \in BOOLEAN :
    LET polled == {b \in Boxes : b = "imap" => up \/ open = b}
        new == {b \in polled \ {open} : Judged(b)}
    IN /\ checked # polled
       /\ buffy' = [b \in Boxes |->
            [buffy[b] EXCEPT
               !.new = b \in new,
               !.notified = NotifiedAfter(b, b \in new),
               !.known = IF b \in polled THEN KnownAfter(b, b \in new) ELSE @,
               !.uv = @ \/ (b \in polled /\ open # b),
               !.newly = IF ~file[b].exists THEN TRUE
                         ELSE @ /\ (open = b \/ file[b].mtime = file[b].atime)]]
       /\ BuffyNotify' = Counted({b \in new : ~buffy'[b].notified})
       /\ checked' = polled
       /\ told' = told \cap new
       /\ skipped' = skipped \cap new
       /\ UNCHANGED <<Boxes, now, file, open, fresh, overlooked>>

\* mutt_buffy_list() called by mutt_buffy_notify(): the line has room for some
\* of the mailboxes not announced yet; when there are none, BuffyNotify is wrong.
mutt_buffy_list ==
  /\ BuffyNotify > 0
  /\ LET due == {b \in Boxes : buffy[b].new /\ ~buffy[b].notified}
     IN IF due = {} THEN BuffyNotify' = 0 /\ UNCHANGED <<buffy, told>>
        ELSE \E shown \in SUBSET due \ {{}} :
               /\ buffy' = [b \in Boxes |->
                              [buffy[b] EXCEPT !.notified = @ \/ b \in shown]]
               /\ BuffyNotify' = BuffyNotify - Cardinality(shown)
               /\ told' = told \cup shown
  /\ UNCHANGED <<Boxes, now, file, open, checked, fresh, overlooked, skipped>>

Next ==
  \/ \E b \in Boxes : \/ Deliver(b) \/ OtherReads(b) \/ OtherRemoves(b)
                      \/ Open(b) \/ Append(b)
  \/ CheckOpen \/ Close
  \/ mutt_buffy_check \/ mutt_buffy_list

Spec == Init /\ [][Next]_vars
------------------------------------------------------------------------------
TypeOK ==
  /\ Boxes \in WatchedSets
  /\ now \in 1 .. MaxTime
  /\ open \in Boxes \cup {"none"}
  /\ BuffyNotify \in 0 .. Cardinality(Boxes)
  /\ checked \cup fresh \cup overlooked \cup told \cup skipped \subseteq Boxes

\* A check finds the mail that came since the user last opened a mailbox, and
\* in an mbox or a maildir nothing else.
FreshIsFound ==
  \A b \in checked \ {open} :
    /\ b \in fresh \ overlooked => buffy[b].new
    /\ buffy[b].new => b \in fresh \/ b \in {"sized", "imap"}

\* A mailbox with new mail is announced, and only once until it has none.
AnnouncedOnce ==
  /\ \A b \in checked \ (NoNotify \cup skipped) :
       buffy[b].new => b \in told \/ (~buffy[b].notified /\ BuffyNotify > 0)
  /\ \A b \in told : buffy[b].new => buffy[b].notified

NewMailFound == FreshIsFound /\ AnnouncedOnce

\* "When set, Mutt will only notify you about new mail that has been received
\* since the last time you opened the mailbox" (init.h): mail that came since
\* then and is unread is new mail.
ReceivedSinceOpenedIsNew ==
  \A b \in checked \ {open} : b \in fresh /\ file[b].exists => buffy[b].new
==============================================================================
