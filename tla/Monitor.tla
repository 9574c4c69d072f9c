------------------------------- MODULE Monitor -------------------------------
(***************************************************************************)
(* The inotify watches of monitor.c: one list of monitors serves the       *)
(* mailboxes of the "mailboxes" command and the open mailbox, which share  *)
(* a watch when they are one file.  The kernel has its own table, and its  *)
(* events come later, when mutt waits for a key.                           *)
(*                                                                         *)
(* Files are known by inode.  The .mh_sequences of an MH mailbox is        *)
(* replaced by a new file each time: the kernel then drops the watch and   *)
(* says so (IN_IGNORED).                                                   *)
(***************************************************************************)
EXTENDS Naturals, SequencesExt, FiniteSets

CONSTANTS
    Boxes,         \* paths of mailboxes
    MH,            \* those that are MH mailboxes
    MaxIno,        \* bound: files ever created
    MaxQueue,      \* bound: events not read yet
    BufEvents,     \* events one read() returns: what EVENT_BUFLEN holds
    Refusals       \* may mx_close_mailbox() refuse to close a mailbox that is
                   \* one of the "mailboxes", too?

VARIABLES
    ino,           \* [Boxes -> inode of the file to watch, 0: there is none]
    files,         \* files created so far
    kernel,        \* [watches: set of [wd, ino], wds: descriptors given out, queue]
    mon,           \* [list: of [descr, ino, box], newest first; descr, changed:
                   \*  MonitorContextDescriptor (0: none) and MonitorContextChanged]
    Incoming,      \* [Boxes -> "no", "poll" or "nopoll"]
    Context,       \* the open mailbox, or "none"
    unseen         \* the open mailbox has changed, watched, since it was checked

vars == <<ino, files, kernel, mon, Incoming, Context, unseen>>
------------------------------------------------------------------------------
Numbering == CHOOSE f \in [Boxes -> 1 .. Cardinality(Boxes)] :
               \A a, b \in Boxes : a # b => f[a] # f[b]

NoKernel == [watches |-> {}, wds |-> 0, queue |-> <<>>]

Init ==
  /\ ino = Numbering /\ files = Cardinality(Boxes)
  /\ kernel = NoKernel
  /\ mon = [list |-> <<>>, descr |-> 0, changed |-> FALSE]
  /\ Incoming = [b \in Boxes |-> "no"]
  /\ Context = "none" /\ unseen = FALSE
------------------------------------------------------------------------------
(* The kernel.  k is [kernel, mon] while a function of monitor.c works.    *)

\* inotify_add_watch(): a file that is watched keeps its descriptor.
WdFor(k, i) ==
  IF \E w \in k.kernel.watches : w.ino = i
  THEN (CHOOSE w \in k.kernel.watches : w.ino = i).wd ELSE k.kernel.wds + 1

Watched(k, i) ==
  LET wd == WdFor(k, i)
  IN [k EXCEPT !.kernel.watches = @ \cup {[wd |-> wd, ino |-> i]},
               !.kernel.wds = IF wd > @ THEN wd ELSE @]

Queued(k, event) ==
  IF k.queue # <<>> /\ Last(k.queue) = event THEN k ELSE [k EXCEPT !.queue = Append(@, event)]

\* The file of b is gone: so is the watch.
Dropped(i) ==
  LET gone == {w \in kernel.watches : w.ino = i}
  IN IF gone = {} THEN kernel
     ELSE Queued([kernel EXCEPT !.watches = @ \ gone],
                 [wd |-> (CHOOSE w \in gone : TRUE).wd, what |-> "ignored"])
------------------------------------------------------------------------------
(* monitor_resolve(), mutt_monitor_add(), mutt_monitor_remove()            *)

Indexes(k, i) == {n \in DOMAIN k.mon.list : k.mon.list[n].ino = i}
First(S) == CHOOSE n \in S : \A other \in S : n <= other

Added(k, b, forContext) ==
  IF ino[b] = 0 THEN k
  ELSE IF Indexes(k, ino[b]) # {} THEN
    IF forContext
    THEN [k EXCEPT !.mon.descr = k.mon.list[First(Indexes(k, ino[b]))].descr] ELSE k
  ELSE LET wd == WdFor(k, ino[b])
           with == Watched(k, ino[b])
       IN [with EXCEPT !.mon.list = <<[descr |-> wd, ino |-> ino[b], box |-> b]>> \o @,
                       !.mon.descr = IF forContext THEN wd ELSE @]

\* monitor_delete() and monitor_check_free(): with the last monitor the inotify
\* descriptor is closed, and the kernel forgets everything.
Deleted(k, n) ==
  LET rest == [k EXCEPT !.mon.list = RemoveAt(@, n)]
  IN IF rest.mon.list = <<>> THEN [rest EXCEPT !.kernel = NoKernel] ELSE rest

\* Mutant: a monitor the open mailbox uses goes with the "mailboxes" entry.
SharedByContext_Not(b) == FALSE

SharedByContext(b) == b = Context
SharedByBuffy(b) == Incoming[b] # "no"

\* What mutt_monitor_remove() returns.
RemoveRc(k, b, forContext) ==
  IF ino[b] = 0 \/ Indexes(k, ino[b]) = {} THEN 2
  ELSE IF (IF forContext THEN SharedByBuffy(b) ELSE SharedByContext(b)) THEN 1 ELSE 0

\* The watch stays in the kernel: inotify_rm_watch() is called with its two
\* arguments the other way round and fails.
Removed(k, b, forContext) ==
  LET forgot == IF forContext THEN [k EXCEPT !.mon.descr = 0, !.mon.changed = FALSE] ELSE k
  IN IF RemoveRc(k, b, forContext) = 0
     THEN Deleted(forgot, First(Indexes(forgot, ino[b]))) ELSE forgot

Now == [kernel |-> kernel, mon |-> mon]
Becomes(k) == kernel' = k.kernel /\ mon' = k.mon
------------------------------------------------------------------------------
(* The commands and the index.                                             *)

\* mutt_buffy_add(), for -poll and -nopoll
mailboxes(b, how) ==
  /\ Incoming[b] # how
  /\ Incoming' = [Incoming EXCEPT ![b] = how]
  /\ Becomes(IF how = "poll" THEN Added(Now, b, FALSE) ELSE Removed(Now, b, FALSE))
  /\ UNCHANGED <<ino, files, Context, unseen>>

\* buffy_remove()
unmailboxes(b) ==
  /\ Incoming[b] # "no"
  /\ Incoming' = [Incoming EXCEPT ![b] = "no"]
  /\ Becomes(IF Incoming[b] = "poll" THEN Removed(Now, b, FALSE) ELSE Now)
  /\ UNCHANGED <<ino, files, Context, unseen>>

OpenMailbox(b) ==
  /\ Context = "none" /\ ino[b] # 0
  /\ Context' = b
  /\ Becomes(Added(Now, b, TRUE))
  /\ UNCHANGED <<ino, files, Incoming, unseen>>

\* OP_MAIN_CHANGE_FOLDER; a mailbox that is not closed after all, because a
\* last check found new mail, is watched again if its monitor was removed.
CloseMailbox ==
  /\ Context # "none"
  /\ LET k == Removed(Now, Context, TRUE)
     IN \/ Becomes(k) /\ Context' = "none" /\ unseen' = FALSE
        \/ /\ Refusals \/ RemoveRc(Now, Context, TRUE) = 0
           /\ Becomes(IF RemoveRc(Now, Context, TRUE) = 0 THEN Added(k, Context, TRUE) ELSE k)
           /\ unseen' = FALSE /\ UNCHANGED Context
  /\ UNCHANGED <<ino, files, Incoming>>

\* mx_check_mailbox(); an MH mailbox clears MonitorContextChanged.
CheckMailbox ==
  /\ Context # "none" /\ (unseen \/ mon.changed)
  /\ unseen' = FALSE
  /\ mon' = IF Context \in MH THEN [mon EXCEPT !.changed = FALSE] ELSE mon
  /\ UNCHANGED <<ino, files, kernel, Incoming, Context>>
------------------------------------------------------------------------------
(* Other programs.                                                         *)

Room == Len(kernel.queue) < MaxQueue

Change(b) ==
  /\ Room /\ ino[b] # 0
  /\ kernel' = IF \E w \in kernel.watches : w.ino = ino[b]
               THEN Queued(kernel, [wd |-> WdFor(Now, ino[b]), what |-> "change"]) ELSE kernel
  /\ unseen' = (unseen \/ (b = Context /\ [wd |-> mon.descr, ino |-> ino[b]] \in kernel.watches))
  /\ UNCHANGED <<ino, files, mon, Incoming, Context>>

\* An .mh_sequences is replaced by another; another file is removed, and
\* created again.
Replace(b) ==
  /\ Room
  /\ \/ /\ files < MaxIno /\ (ino[b] = 0 \/ b \in MH)
        /\ files' = files + 1 /\ ino' = [ino EXCEPT ![b] = files']
     \/ /\ b \notin MH \cup {Context} /\ ino[b] # 0
        /\ ino' = [ino EXCEPT ![b] = 0] /\ UNCHANGED files
  /\ kernel' = IF ino[b] # 0 THEN Dropped(ino[b]) ELSE kernel
  /\ UNCHANGED <<mon, Incoming, Context, unseen>>
------------------------------------------------------------------------------
(* mutt_monitor_poll()                                                     *)

Rewatched(k, wd, n) ==
  LET box == k.mon.list[n].box
      new == WdFor(k, ino[box])
  IN [Watched(k, ino[box]) EXCEPT
        !.mon.list[n].descr = new, !.mon.list[n].ino = ino[box],
        !.mon.descr = IF @ = wd THEN new ELSE @]

monitor_handle_ignore(k, wd) ==
  LET known == {n \in DOMAIN k.mon.list : k.mon.list[n].descr = wd}
      n == First(known)
      box == k.mon.list[n].box
  IN IF known = {} THEN k
     ELSE IF box \in MH /\ ino[box] # 0 THEN Rewatched(k, wd, n)
     ELSE Deleted([k EXCEPT !.mon.descr = IF @ = wd THEN 0 ELSE @], n)

Handled(k, event) ==
  IF event.what = "ignored" THEN monitor_handle_ignore(k, event.wd)
  ELSE IF event.wd = k.mon.descr THEN [k EXCEPT !.mon.changed = TRUE] ELSE k

\* A read() returns as many events as the buffer holds, until there are none;
\* the pointer stays behind the first batch, so no later one is looked at.
mutt_monitor_poll ==
  /\ kernel.queue # <<>>
  /\ LET size == Len(kernel.queue)
         read == SubSeq(kernel.queue, 1, IF size < BufEvents THEN size ELSE BufEvents)
     IN Becomes(FoldLeft(Handled, [Now EXCEPT !.kernel.queue = <<>>], read))
  /\ UNCHANGED <<ino, files, Incoming, Context, unseen>>

Next ==
  \/ \E b \in Boxes :
       \/ \E how \in {"poll", "nopoll"} : mailboxes(b, how)
       \/ unmailboxes(b)
       \/ OpenMailbox(b)
       \/ Change(b) \/ Replace(b)
  \/ CloseMailbox \/ CheckMailbox \/ mutt_monitor_poll

Spec == Init /\ [][Next]_vars
------------------------------------------------------------------------------
TypeOK ==
  /\ ino \in [Boxes -> 0 .. MaxIno] /\ files \in 0 .. MaxIno
  /\ Context \in Boxes \cup {"none"} /\ unseen \in BOOLEAN
  /\ Incoming \in [Boxes -> {"no", "poll", "nopoll"}]
  /\ kernel.watches \subseteq [wd : 1 .. kernel.wds, ino : 1 .. MaxIno]
  /\ mon.changed \in BOOLEAN

IgnoredIsQueued(wd) == [wd |-> wd, what |-> "ignored"] \in Range(kernel.queue)

\* A mailbox that is monitored has a watch on its file, or the news that the
\* file has gone is on its way.  (When an .mh_sequences has been replaced and a
\* monitor is added before that news is read, there are two for the mailbox,
\* and one is left behind with the next replacement.)
MonitoredIsWatched ==
  \A m \in Range(mon.list) :
    \/ ino[m.box] = 0
    \/ \E w \in kernel.watches : w.ino = ino[m.box]
    \/ \E other \in Range(mon.list) : other.box = m.box /\ IgnoredIsQueued(other.descr)

\* The watch of the open mailbox is known to be its watch.
ContextIsRecognised ==
  Context # "none" /\ ~IgnoredIsQueued(mon.descr) =>
    LET own == Indexes(Now, ino[Context])
    IN own # {} => \E n \in own : mon.list[n].descr = mon.descr

\* A change of the open mailbox that was watched is known, or will be.
ChangesShow ==
  unseen =>
    mon.changed \/ [wd |-> mon.descr, what |-> "change"] \in Range(kernel.queue)

MonitorsRight ==
  /\ MonitoredIsWatched /\ ContextIsRecognised /\ ChangesShow
  /\ Context = "none" => mon.descr = 0 /\ ~mon.changed

\* "0 monitor removed (not shared)" (mutt_monitor_remove()): what is watched is
\* what is monitored.
WatchesAreMonitored ==
  \A w \in kernel.watches : \E n \in DOMAIN mon.list : mon.list[n].descr = w.wd
==============================================================================
