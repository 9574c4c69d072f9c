------------------------------- MODULE Maildir -------------------------------
(***************************************************************************)
(* An open maildir (mh.c).  mutt remembers the modification times of the   *)
(* directories new and cur and reads a directory again only when its time  *)
(* is newer: maildir_check_mailbox() merges what it finds with the headers *)
(* of the context, matching files by their name without flags;             *)
(* mh_sync_mailbox() renames or unlinks file by file.  Another client      *)
(* delivers, renames and removes files at any time and takes no lock.      *)
(*                                                                         *)
(* A modification time is its comparison with the recorded one: every      *)
(* change of a directory makes it newer.                                   *)
(***************************************************************************)
EXTENDS Integers, FiniteSets

CONSTANTS
    Names,         \* file names without flags
    MaxChanges     \* bound: what other clients and the user do to messages

VARIABLES
    disk,          \* the files: name -> [dir, flags]
    used,          \* names given so far
    hdrs,          \* ctx->hdrs, a set
    fresh,         \* the recorded time of a directory is its time
    changed,       \* directories a check has to scan
    md,            \* what a scan has found
    todo,          \* headers a sync has still to look at
    pc,            \* where mutt is
    syncing,       \* the check is part of mh_sync_mailbox(): "no", or whether
                   \* deleted messages are removed or, with $maildir_trash, marked
    monitor,       \* MonitorContextChanged
    touched,       \* names other clients changed since the check began
    dirty,         \* directories they changed since then
    missed,        \* directories changed after they were looked at and before
                   \* their time was recorded, and not changed again
    left,          \* of MaxChanges
    lost           \* a check forgot unsaved changes of a file nobody touched

vars == <<disk, used, hdrs, fresh, changed, md, todo, pc, syncing, monitor,
          touched, dirty, missed, left, lost>>
------------------------------------------------------------------------------
Dirs == {"new", "cur"}
Flags == SUBSET {"S", "T"}

\* maildir_parse_flags() and maildir_parse_dir() of a file's name.
Parsed(n, f) ==
  [name |-> n, dir |-> f.dir, flags |-> f.flags,
   read |-> "S" \in f.flags, old |-> f.dir = "cur",
   deleted |-> "T" \in f.flags, trash |-> "T" \in f.flags, changed |-> FALSE]

Scan(d) == {Parsed(n, disk[n]) : n \in {m \in DOMAIN disk : disk[m].dir = d}}

\* The name a header should have: maildir_sync_message() and maildir_flags().
Target(h) ==
  [dir |-> IF h.read \/ h.old THEN "cur" ELSE "new",
   flags |-> {x \in {"S", "T"} : (x = "S" /\ h.read) \/ (x = "T" /\ h.deleted)}]

Path(h) == [dir |-> h.dir, flags |-> h.flags]
IsThere(h) == h.name \in DOMAIN disk /\ disk[h.name] = Path(h)

Unsaved(h) == h.changed \/ h.deleted # h.trash

Init ==
  /\ disk = [n \in {} |-> Path(n)]
  /\ used = {} /\ hdrs = {} /\ md = {} /\ todo = {} /\ changed = {}
  /\ fresh = [d \in Dirs |-> FALSE]
  /\ pc = "open_new" /\ syncing = "no" /\ monitor = FALSE
  /\ left = MaxChanges
  /\ touched = {} /\ dirty = {} /\ missed = {} /\ lost = FALSE
------------------------------------------------------------------------------
(* Other clients.                                                          *)

\* A change of directories D, with file n, nobody but inotify tells mutt of.
Touch(D, n) ==
  /\ left > 0 /\ left' = left - 1
  /\ fresh' = [d \in Dirs |-> fresh[d] /\ d \notin D]
  /\ touched' = touched \cup {n}
  /\ dirty' = dirty \cup D
  /\ missed' = missed \ D
  /\ monitor' \in {monitor, monitor \/ pc = "idle"}
  /\ UNCHANGED <<hdrs, changed, md, todo, pc, syncing, lost>>

Deliver(n) ==
  /\ n \notin used
  /\ used' = used \cup {n}
  /\ disk' = [m \in DOMAIN disk \cup {n} |->
                IF m = n THEN [dir |-> "new", flags |-> {}] ELSE disk[m]]
  /\ Touch({"new"}, n)

OtherRenames(n, dir, flags) ==
  /\ n \in DOMAIN disk
  /\ dir = "new" => flags = {}
  /\ LET f == [dir |-> dir, flags |-> flags]
     IN /\ f # disk[n]
        /\ disk' = [disk EXCEPT ![n] = f]
        /\ Touch({dir, disk[n].dir}, n)
  /\ UNCHANGED used

OtherRemoves(n) ==
  /\ n \in DOMAIN disk
  /\ disk' = [m \in DOMAIN disk \ {n} |-> disk[m]]
  /\ Touch({disk[n].dir}, n)
  /\ UNCHANGED used
------------------------------------------------------------------------------
(* Opening.                                                                *)

\* Both times are recorded.
maildir_update_mtime == fresh' = [d \in Dirs |-> TRUE]

\* mh_read_dir() of one directory: both times are recorded, then it is read.
RecordTimes(here, next) ==
  /\ pc = here
  /\ maildir_update_mtime
  /\ missed' = missed \cup dirty
  /\ dirty' = {}
  /\ pc' = next
  /\ UNCHANGED <<disk, used, hdrs, changed, md, todo, syncing, monitor, touched, left, lost>>

ReadDir(d, here, next) ==
  /\ pc = here
  /\ hdrs' = hdrs \cup Scan(d)
  /\ pc' = next
  /\ UNCHANGED <<disk, used, fresh, changed, md, todo, syncing, monitor, touched, dirty, missed, left, lost>>
------------------------------------------------------------------------------
(* maildir_check_mailbox().                                                *)

\* stat() of one directory.  A check that inotify asked for does not record
\* the times.
Stat(d) ==
  /\ changed' = IF fresh[d] THEN changed ELSE changed \cup {d}
  /\ fresh' = [fresh EXCEPT ![d] = @ \/ ~monitor]

CheckBegins(sync) ==
  /\ pc = "idle"
  /\ Stat("new")
  /\ syncing' = sync
  /\ touched' = {} /\ dirty' = {}
  /\ md' = {}
  /\ pc' = "stat"
  /\ UNCHANGED <<disk, used, hdrs, todo, monitor, missed, left, lost>>

StatCur ==
  /\ pc = "stat"
  /\ Stat("cur")
  /\ pc' = IF changed' = {} THEN "checked" ELSE "scan_new"
  /\ monitor' = (monitor /\ changed' = {})
  /\ UNCHANGED <<disk, used, hdrs, md, todo, syncing, touched, dirty, missed, left, lost>>

ScanDir(d, here, next) ==
  /\ pc = here
  /\ md' = IF d \in changed THEN md \cup Scan(d) ELSE md
  /\ pc' = next
  /\ UNCHANGED <<disk, used, hdrs, fresh, changed, todo, syncing, monitor, touched, dirty, missed, left, lost>>

\* The entry of a name that the hash table has: the first one, from new.
Found(n) == LET es == {e \in md : e.name = n}
            IN IF \E e \in es : e.dir = "new" THEN {e \in es : e.dir = "new"} ELSE es

\* Mutant: a message whose changes are unsaved takes the flags of the file.
MergedFlags_Always(h, e) == [read |-> e.read, old |-> e.old, changed |-> FALSE]

MergedFlags(h, e) ==
  IF h.changed THEN [read |-> h.read, old |-> h.old, changed |-> TRUE]
  ELSE [read |-> e.read, old |-> e.old, changed |-> FALSE]

\* A file that is known already: its path, the flags the user did not change,
\* and a deletion that has been written.
Merged(h, e) ==
  LET f == MergedFlags(h, e)
  IN [h EXCEPT !.dir = e.dir, !.flags = e.flags,
               !.read = f.read, !.old = f.old, !.changed = f.changed,
               !.deleted = IF h.deleted = h.trash THEN e.deleted ELSE @,
               !.trash = e.trash]

\* MUTT_FLAGS: the merge changed a header.
FlagsChanged(h, e) ==
  \/ ~h.changed /\ (h.read # e.read \/ h.old # e.old)
  \/ h.deleted = h.trash /\ h.deleted # e.deleted

\* It was not found in the directory it was in.
Occult(h) == h.dir \in changed

Merge ==
  /\ pc = "merge"
  /\ \E hs \in [{h.name : h \in hdrs} -> hdrs] :
       \* of two headers with one name, the first takes the entry
       /\ \A n \in DOMAIN hs : hs[n].name = n
       /\ LET matched == {h \in hdrs : hs[h.name] = h /\ Found(h.name) # {}}
              kept == {h \in hdrs \ matched : ~Occult(h)}
              dropped == hdrs \ (matched \cup kept)
              entry(h) == CHOOSE e \in Found(h.name) : TRUE
              merged == {Merged(h, entry(h)) : h \in matched}
              used_up == UNION {Found(h.name) : h \in matched}
          IN /\ hdrs' = merged \cup kept \cup (md \ used_up)
             /\ lost' = (lost \/ \E h \in hdrs :
                           /\ h.name \notin touched
                           /\ IsThere(h)
                           /\ {g \in hdrs : g.name = h.name} = {h}
                           /\ \/ h \in dropped /\ Unsaved(h)
                              \/ h \in matched /\ h.changed /\ ~\E g \in hdrs' :
                                   g.name = h.name /\ g.changed /\ g.read = h.read
                              \/ h \in matched /\ h.deleted # h.trash /\ ~\E g \in hdrs' :
                                   g.name = h.name /\ g.deleted = h.deleted)
             /\ pc' = IF /\ syncing # "no"
                         /\ dropped = {}
                         /\ md = used_up
                         /\ \A h \in matched : ~FlagsChanged(h, entry(h))
                      THEN "checked" ELSE "idle"
  /\ changed' = {} /\ md' = {}
  /\ UNCHANGED <<disk, used, fresh, todo, syncing, monitor, touched, dirty, missed, left>>

\* Nothing has changed; a sync goes on, and every file will be looked at.
Checked ==
  /\ pc = "checked"
  /\ changed' = {}
  /\ todo' = IF syncing # "no" THEN hdrs ELSE {}
  /\ pc' = IF syncing # "no" THEN "sync" ELSE "idle"
  /\ UNCHANGED <<disk, used, hdrs, fresh, md, syncing, monitor, touched, dirty, missed, left, lost>>
------------------------------------------------------------------------------
(* The user, and mh_sync_mailbox().                                        *)

Edit(h, g) ==
  /\ pc = "idle"
  /\ h \in hdrs
  /\ g # h
  /\ left > 0 /\ left' = left - 1
  /\ hdrs' = (hdrs \ {h}) \cup {g}
  /\ UNCHANGED <<disk, used, fresh, changed, md, todo, pc, syncing, monitor, touched, dirty, missed, lost>>

MarkRead(h) == Edit(h, [h EXCEPT !.read = TRUE, !.changed = TRUE])
MarkNew(h) == Edit(h, [h EXCEPT !.read = FALSE, !.old = FALSE, !.changed = TRUE])
MarkDeleted(h, b) == Edit(h, [h EXCEPT !.deleted = b])

maildir_trash == syncing = "trash"

\* unlink() of a deleted message; its result is not looked at.
Unlink(h) ==
  /\ h.deleted /\ ~maildir_trash
  /\ disk' = IF IsThere(h) THEN [m \in DOMAIN disk \ {h.name} |-> disk[m]] ELSE disk
  /\ fresh' = [d \in Dirs |-> fresh[d] /\ ~(IsThere(h) /\ d = h.dir)]
  /\ UNCHANGED <<hdrs, pc>>

NeedsRename(h) ==
  h.changed \/ ((maildir_trash \/ h.trash) /\ h.deleted # h.trash)

\* rename() to the name the flags ask for; it fails when another client has
\* renamed the file, and ends the sync.
maildir_sync_message(h) ==
  /\ ~(h.deleted /\ ~maildir_trash)
  /\ IF ~NeedsRename(h) \/ Target(h) = Path(h)
       THEN UNCHANGED <<disk, fresh, hdrs, pc>>
       ELSE LET g == [h EXCEPT !.trash = h.deleted]
                t == Target(h)
            IN IF IsThere(h)
               THEN /\ disk' = [disk EXCEPT ![h.name] = t]
                    /\ fresh' = [d \in Dirs |-> fresh[d] /\ d \notin {h.dir, t.dir}]
                    /\ hdrs' = (hdrs \ {h}) \cup {[g EXCEPT !.dir = t.dir, !.flags = t.flags]}
                    /\ UNCHANGED pc
               ELSE /\ hdrs' = (hdrs \ {h}) \cup {g}
                    /\ pc' = "idle"
                    /\ UNCHANGED <<disk, fresh>>

SyncOne(h) ==
  /\ pc = "sync"
  /\ h \in todo
  /\ Unlink(h) \/ maildir_sync_message(h)
  /\ todo' = IF pc' = "idle" THEN {} ELSE todo \ {h}
  /\ UNCHANGED <<used, changed, md, syncing, monitor, touched, dirty, missed, left, lost>>

\* maildir_update_mtime(), and mx_update_tables() for what was synced.
SyncEnds ==
  /\ pc = "sync"
  /\ todo = {}
  /\ maildir_update_mtime
  /\ missed' = missed \cup dirty
  /\ dirty' = {}
  /\ hdrs' = {[h EXCEPT !.changed = FALSE] :
                h \in {g \in hdrs : maildir_trash \/ ~g.deleted}}
  /\ pc' = "idle"
  /\ UNCHANGED <<disk, used, changed, md, todo, syncing, monitor, touched, left, lost>>

Next ==
  \/ \E n \in Names : Deliver(n) \/ OtherRemoves(n)
  \/ \E n \in Names, d \in Dirs, f \in Flags : OtherRenames(n, d, f)
  \/ RecordTimes("open_new", "read_new")
  \/ ReadDir("new", "read_new", "open_cur")
  \/ RecordTimes("open_cur", "read_cur")
  \/ ReadDir("cur", "read_cur", "idle")
  \/ \E s \in {"no", "remove", "trash"} : CheckBegins(s)
  \/ StatCur
  \/ ScanDir("new", "scan_new", "scan_cur")
  \/ ScanDir("cur", "scan_cur", "merge")
  \/ Merge
  \/ Checked
  \/ \E h \in hdrs : MarkRead(h) \/ MarkNew(h) \/ \E b \in BOOLEAN : MarkDeleted(h, b)
  \/ \E h \in todo : SyncOne(h)
  \/ SyncEnds

Spec == Init /\ [][Next]_vars
------------------------------------------------------------------------------
TypeOK ==
  /\ DOMAIN disk \subseteq used /\ used \subseteq Names
  /\ \A h \in hdrs \cup md : h.name \in Names /\ h.dir \in Dirs
  /\ changed \subseteq Dirs /\ missed \cup dirty \subseteq Dirs /\ touched \subseteq Names
  /\ todo \subseteq hdrs /\ left \in 0 .. MaxChanges
  /\ pc \in {"open_new", "read_new", "open_cur", "read_cur", "idle", "stat", "scan_new", "scan_cur",
             "merge", "checked", "sync"}

\* When no directory would be read again, the context has one header for each
\* file, under its name, with its flags unless the user has changed them.
KnowsEveryFile ==
  pc = "idle" /\ fresh["new"] /\ fresh["cur"] =>
    /\ {h.name : h \in hdrs} = DOMAIN disk
    /\ \A h \in hdrs : IsThere(h)
    /\ \A h \in hdrs : ~h.changed => h.read = ("S" \in disk[h.name].flags)

ContextMatchesDirs == missed = {} => KnowsEveryFile

\* Merging what other clients did forgets no change of the user to a message
\* whose file nobody touched.
ChangesSurvive == ~lost

\* Comparing times misses no change, whatever a check, a sync and another
\* client do between two looks, and merging loses no change of the user
\* (maildir_check_mailbox(), mh_sync_mailbox()).  What others do between the
\* check of a sync and maildir_update_mtime(), or between the two directories
\* of an opening, is left out.
MaildirFollowed == ContextMatchesDirs /\ ChangesSurvive
==============================================================================
