# TLA+ specifications of mutt

Mutt is a mail reader of about 120 000 lines of C. One process shows one
mailbox at a time (mbox, MMDF, maildir, MH, IMAP or POP), changes flags on its
messages, moves, deletes and sends them. It has one thread; what makes it hard
is everything outside it: other programs that write the same mailbox, servers
that talk when they like, links that break between two commands, loops over
messages that stop half way, and handlers that call back into the function that
called them.

This directory holds TLA+ modules for the parts where that matters most, the
TLC configurations that check them, and proofs for TLAPS. `PROJECT.json` maps
every definition to the lines it models and lists components, runs, hazards and
theorems.

1. [The system](#the-system)
2. [Plan](#plan)
3. [Modules](#modules)
4. [Runs, bounds and fairness](#runs-bounds-and-fairness)
5. [Proofs](#proofs)
6. [Where the code differs from what it says](#where-the-code-differs-from-what-it-says)
7. [What is not modelled](#what-is-not-modelled)

## The system

How the parts interact:

```
   index / pager (curs_main.c)          background editors, new mail polling
        |  commands, periodic check              |
        v                                        v
   CONTEXT: mx.c, flags.c, pattern.c, sort.c   send.c ---> smtp.c / sendmail
        |  mx_ops: open, check, sync, close, open_msg, append
        +-----------+-----------+------------+-----------+
        v           v           v            v           v
     mbox.c       mh.c       imap/         pop.c     compress.c
        |           |           |            |           | (wraps another driver)
   locks: mx.c,  rename(),  command.c     pop_lib.c      v
   dotlock.c     new/ cur/  pipeline          |       shell commands
        |           |           |             |
   other mutts, delivery     IMAP server   POP server, other clients
   agents
```

The drivers fill the CONTEXT through `mx_ops`; the CONTEXT's code calls a
driver's `check` and `sync`. Drivers call back: a driver that finds new mail
calls `mx_update_context()` and the index re-sorts afterwards; an IMAP response
handler may fetch a message, and with it re-enters the command pipeline.

For each component: what it keeps, what changes it, what is hard, and what
makes it correct.

**IMAP command pipeline** (`imap/command.c`, parts of `imap/imap.c`).
State: a ring of command blocks `cmds[lastcmd .. nextcmd)` with tag and status,
the buffer `cmdbuf` of commands not written yet, `status` (fatal, bye), `state`
(disconnected to IDLE), `reopen` flags. Operations: `cmd_queue`, `cmd_start`,
`imap_exec`, `imap_cmd_step`, `imap_cmd_idle`, `imap_cmd_finish`,
`cmd_handle_fatal`, and each caller that waits. Hard: re-entry from handlers,
completions in any order, a full ring, IDLE and DONE, failure at any read.
Correct if: no waiting command is overwritten or mistaken for another; a call
waits only for what the server owes; slots come back; a failure is remembered
until the connection is closed; every call returns.

**IMAP mailbox** (`imap/message.c`, `imap/imap.c`). State: `msn_index`,
`max_msn`, `uid_hash`, header data, `check_status`, MODSEQ, header and body
cache. Operations: open, header download, EXISTS, EXPUNGE, VANISHED and FETCH
handlers, flag sync, expunge, reconnect. Hard: numbers that shift under
commands in flight, local against remote flag changes, lost connections with
unsaved changes. Correct if: the numbers agree with the server once all
responses are handled; no local change is lost; no message is expunged that the
user did not delete.

**Open mailbox** (`mx.c`, `flags.c`, `pattern.c`, `sort.c`, `score.c`,
`curs_main.c`). State: `hdrs`, `v2r`, `virtual`, the counters (`tagged`, `new`,
`unread`, `deleted`, `flagged`), `changed`, `pattern`, each header's bits.
Operations: every command that sets a flag, limit, sort, score, new mail, sync,
close with `$move` and `$trash`. Hard: counters updated by difference, loops
that stop half way, mail that arrives in the middle of a sync. Correct if: the
counters equal a recount, the view and its inverse agree, no change is
forgotten, no message is lost on the way to `$mbox` or `$trash`.

**Locking** (`mx.c`, `dotlock.c`, `mbox.c`). State: the file the path names,
`fcntl()` locks, the dotlock and whose it is, per process the loop counters.
Operations: lock, unlock, break a lock, open, check, append, sync, unlink.
Hard: many processes, crashes, locks that users break, files that are removed
while somebody waits. Correct if: a writer is alone with the file the path
names, and no delivered message vanishes.

**mbox driver** (`mbox.c`). State: offsets of the messages in the file, size
and time of the last look. Operations: parse, check, append, rewrite in place,
reopen and match headers. Hard: heuristics on size and time, a rewrite that
fails in the middle. Correct if: what is not deleted survives any sync.

**maildir and MH driver** (`mh.c`). State: file names in `new/` and `cur/`,
their flags, modification times. Operations: check, sync by rename, commit,
`.mh_sequences`. Hard: other clients rename at the same time, times with the
resolution of a second. Correct if: a message is never lost between two names.

**POP mailbox** (`pop.c`, `pop_lib.c`). State: `status`, `refno` and `index` of
each header, a body cache on disk, a second of ten slots. Operations: open,
check, fetch, sync, close, `<fetch-mail>`. Hard: numbers that mean something in
one session only, deletions that happen at QUIT, retries. Correct if: a number
is that of its message, and only what the user deleted or mutt saved goes.

**Sending** (`send.c`, `sendlib.c`, `compose.c`, `postpone.c`), **SMTP**
(`smtp.c`), **background editing** (`background.c`). State: the `SEND_CONTEXT`
with its state number, the list of editor processes, a dialogue with the
server. Hard: a reply that is lost after the final dot, a child that another
`waitpid()` reaps, a draft that is deleted before the message is sent. Correct
if: a message is sent or kept, and Fcc happens once.

**New mail** (`buffy.c`, `monitor.c`, `sidebar.c`). State: `new`, `notified`,
`size`, times per mailbox, inotify descriptors. Hard: times of different
moments compared, events read in batches. Correct if: mail that has come is
reported, and reported once.

**Compressed mailboxes** (`compress.c`). State: a plain copy, the size of the
compressed file, which lock is held. Hard: a hook that fails between the rewrite of the
copy and its compression. Correct if: the compressed file has every message of
the last successful sync.

**Caches and connections** (`bcache.c`, `hcache.c`, `mutt_socket.c`, the SSL and
SASL layers). State: files named by message, a key-value store, a read buffer.
Correct if: a cache never answers with another message.

**Threads** (`thread.c`, `sort.c`). State: the tree of THREADs, a hash of
Message-IDs, keys and flags that say which siblings are in order. Operations:
place new mail, thread by references and by subject, sort subthreads, limit,
collapse, break and link. Hard: the tree is kept for as long as the mailbox is
open, while mail arrives before what it answers. Correct if: it is the tree that
would be made from nothing.

**Autocrypt** (`autocrypt/`). State: peers, their keys and the dates they were
seen, in a database. Hard: mail is read in any order, and again. Correct if: the
newest statement wins, and a key is used for whom its owner announced it.

**Menus and input** (`menu.c`, `sidebar.c`, `curs_lib.c`, `keymap.c`, `enter.c`,
`history.c`). State: indicator and window of a menu and what has to be drawn,
the entries of the sidebar, lists of key bindings, queues of events, the line
being typed, a ring of older lines. Hard: what is drawn in parts over what
somebody else drew; keys that are put back; indices into lists that change.
Correct if: the screen shows what is there, a key does what it is bound to, and
no input is lost.

**Patterns** (`pattern.c`). State: the compiled pattern of a search or a limit,
per header the cached verdict of the search (`searched`, `matched`) and what an
IMAP server answered. Operations: compile, match, search, limit, tag, delete by
pattern. Hard: flags of a node that change where it is negated, verdicts that
stay while messages change, one question to the server for a whole pattern.
Correct if: a pattern matches what it means, now.

**Pager** (`pager.c`). State: `lineInfo[]`, the rows made so far, the first row of the
screen, search results per row, a tree of quoting prefixes. Operations: paging,
hiding quoted text, searching, skipping, a new width. Hard: rows are made only as
far as somebody looked. Correct if: the screen has the text from the first row on and
commands pass over nothing.

**Attachments** (`compose.c`, `attach.c`; `recvattach.c`, `recvcmd.c`, `copy.c`).
State: a list of BODYs with their files and an array of pointers into it; for received
mail a tree, the array of its parts and a view without what is collapsed.
Operations: attach, move, group, detach, edit, send; collapse, tag, delete,
answer, forward. Hard: list, array and view are changed one by one; files are
the user's or mutt's own. Correct if: what is listed is what is sent, deleted,
or forwarded, and no file of the user's is removed.

**Security of messages** (`send.c`, `pgp.c`, `smime.c`, `compose.c`,
`postpone.c`). State: the flags `hdr->security`. Operations: options, the message
answered, three menus, opportunistic encryption, postponing, resending. Hard:
each of them changes the flags the others rely on. Correct if: what the user
wanted encrypted is not sent in the clear.

**Everything else** — parsing and MIME, charsets, the tools of cryptography,
configuration, colours, the library — turns text into structures or runs
programs, and keeps little or nothing from one command to the next.
`PROJECT.json` lists each with its files.

## Plan

Done, in this order; "bundle" says with which module TLC runs it:

| | modules | bundle | abstract specification | proofs |
|---|---|---|---|---|
| 1 | `ImapCommand` | | | `ImapCommand_proofs` |
| 2 | `Context` with an mbox or a maildir below it | `ContextMC` | | `Context_proofs` |
| 3 | `MailboxLock`: processes, locks and file | `MailboxLockMC` | `SharedLock` | `MailboxLock_proofs` |
| 4 | `Pop`: mutt, server and another client | `RemoteMC` | | `RemoteMC_proofs` |
| 5 | `ImapMailbox`, `ImapFlags`, `ImapCache`, `Connection` | `RemoteMC` | | `ImapMailbox_proofs`, `ImapFlags_proofs`, `ImapCache_proofs`, `Connection_proofs`, `RemoteMC_proofs` |
| 6 | `Maildir`, `Mbox` (with `compress.c`), `MailCheck`, `Monitor` | `LocalMC` | | |
| 7 | `Send` (with `background.c`), `Smtp`, `Autocrypt` | `UserMC` | | |
| 8 | `Threads` | `LocalMC`, `ThreadsMC` | the tree made from nothing | |
| 9 | `Menu`, `Sidebar`, `Keymap`, `LineEditor`, `History` | `UserMC` | | |
| 10 | `Attachments`, `RecvAttach`, `Security` | `UserMC` | | |
| 11 | `Patterns`, `Pager` | `LocalMC` | what a pattern means; the rows of a text | |

Theorems that could be added on what exists: `RingIsList` of `History`,
`MonitoredIsWatched` of `Monitor`. `Threads`, `Patterns` and `Pager` declare recursive operators and are checked only.

## Modules

### ImapCommand

One connection and its server. `idata` is the part of `IMAP_DATA` that the
pipeline uses. The C stack is a variable: `stack` has a frame per C function
that waits for the server (`exec` for `imap_exec`, `idle`, `fetch`, `select`,
`open`, `check` ...) with a place in that function, because
`imap_cmd_step()` may call a handler that calls `imap_exec()` again. `ret` is
the value the last frame returned. The server is what it has received and not
yet answered; a line is made when the client reads it.

| code | actions |
|---|---|
| `cmd_start`, `cmd_queue` | `StartFatal StartDrain StartQueue Drained QueueOnly NothingToWrite Write StartFailed` |
| `imap_cmd_step` | `ReadFatal ReadFails ReadAnswer ReadUnsolicited ScanRespond ScanContinue ScanDrained` |
| `imap_cmd_finish` | `Finished ReadHeadersDone` |
| `imap_check_mailbox` | `Check...` |
| `imap_open_mailbox`, `imap_conn_find`, `imap_logout`, ... | `Select... Open... Logout... Close...` |

`MaxDepth` bounds nesting. Four switches admit behaviour that is legal for a
server, or possible in mutt, and breaks a property (see below): `InOrder`,
`NestedFetch`, `FetchBeforeIdle`, `ReuseDirty`.

### Context

One open mailbox: `conf` (the mailbox driver and the configuration a behaviour
starts with), `ctx` (counters and switches), `hdrs`, `v2r`, `header`, the
disk below it, and what has gone to `$mbox` (`saved`) and `$trash`. mutt has one
thread, so `pc` says which C loop runs and `todo` what is left of it: one step is
one message. Interruptions are where the code can meet them: an append that
fails, mail that arrives before the lock is taken, SIGINT between two messages
of a limit. `Settings` gives the drivers, configuration variables and commands that
are looked at together.

| code | actions |
|---|---|
| `_mutt_set_flag` | operators `set_delete set_new set_old set_read set_replied set_flagged set_tagged` |
| `mutt_tag_set_flag`, `mutt_change_flag`, index commands | `Command Apply Applied` |
| `mutt_pattern_func` | `Command`, `Limit` |
| `mx_check_mailbox`, `mx_update_context`, `update_index_unthreaded` | `mx_check_mailbox mx_update_context update_index` |
| `mx_sync_mailbox`, `trash_append` | `mx_sync_mailbox trash_append Trashed` |
| `mx_close_mailbox` | `mx_close_mailbox CloseMove AppendToMbox Moved CloseUnchanged CloseChanged` |
| `mbox_sync_mailbox`, `mh_sync_mailbox` | `Mbox...`, `Maildir...` |

A message is a number; its headers are the flags alone, its score a set of
flags a scoring rule sets.

### MailboxLock, SharedLock

Any number of mutts and a delivery agent on one path. A file is a number, since
a path may name another file after an unlink; its contents are the set of its
messages. One action is one system call, or what a process does to the file
while it has the lock. `mutt[p]` holds the place of a process in its call, the
file that call has open and that of its context, the counters of the loop it is
in, and the messages it has seen and deleted. `Breaking` lets users answer yes
to "remove lock", `Crash` kills a mutt, fails its `stat()` of the lock file or the
rewriting of the mailbox (what is left is any part of the mail, as when it is killed then), `Agent` delivers with a dotlock only,
`SyncEmpties` lets a mailbox be emptied by a sync without closing.

| code | actions |
|---|---|
| `mx_lock_file` | `FcntlLock FcntlWait Prepare Link Stat Ask` |
| `mx_unlock_file` | `FcntlUnlock Undotlock` |
| `mbox_open_mailbox`, `mbox_check_mailbox`, append, sync | `Open Check AppendMessage Sync Quit`, `Parse CheckLocked AppendLocked SyncLocked SyncWrite` |
| `mx_unlink_empty`, `unlink` in `mx_sync_mailbox` | `UnlinkEmpty`, `EndSync` |

`SharedLock` is the promise: at most one holder. `ImplementsSharedLock`
maps its `holders` to the processes between the return of `mx_lock_file()` and
the call of `mx_unlock_file()`. `MailboxLockMC` adds the symmetry of processes.

Assumed: files of different contents differ in size (the code compares sizes);
`fcntl()` and dotlock are both compiled in and `dotlock_invoke()` runs in the
process. A mailbox that could not be locked is read at one moment, not in the middle of a
rewriting.

### Pop

One maildrop, its server, mutt and other clients. A message is its UIDL, a number
in the order of arrival; UIDLs do not come back. `server` is the session: `box` is
the maildrop as it was at login, in which a message has the number of those not later than
it (`Number`), and `dele` what QUIT removes. `hdrs` is a function from the messages that mutt knows
(`Known`) to `refno`, `index` and the D flag; `cache` is the small cache of
`POP_DATA`, `bcache` the files of `$message_cachedir`. `pc` is the operation in progress.
The link may be lost in every state, mail arrives in every state, other clients
take messages while mutt has no session. `spool` is what `<fetch-mail>` saved.

| code | actions |
|---|---|
| `pop_open_connection`, `pop_reconnect`, `pop_logout` | `Connect Reconnected Reconnect ReconnectFails Logout` |
| `pop_fetch_headers`, `fetch_uidl`, `pop_read_header` | `ListingFails FetchHeaders` |
| `pop_fetch_message` | `FetchMessage Retrieve RetrieveFails RetrieveLost` |
| `pop_sync_mailbox`, `mx_update_tables` | `Sync SyncDele SyncRefused SyncLost SyncQuit SyncQuitLost SyncQuitRefused` |
| `pop_fetch_mail` | `FetchMail Stat Get...` |

`marked`, `asked` and `taken` are history variables of the properties. Assumed:
the maildrop lists messages in the order of arrival; a server that has answered
UIDL or STAT with +OK once does not refuse it later.

### ImapMailbox, ImapFlags, ImapCache, Connection

`ImapMailbox` has the numbers: the server's list of UIDs in this session, mutt's
`msn_index`, the `msn` in every header, the lines on the wire. Another client
delivers and expunges at any time; the server announces EXISTS whenever it likes
and EXPUNGE or VANISHED while a command other than FETCH runs. mutt idles, polls,
runs a command, downloads headers in chunks.

| code | actions |
|---|---|
| `imap_cmd_idle`, `imap_exec` | `imap_cmd_idle PollIdle Exec EnterIdle PollEnds ExecEnds` |
| `cmd_handle_untagged`, `cmd_parse_expunge`, `cmd_parse_vanished`, `cmd_parse_fetch` | `HandleUntagged` with an operator for each |
| `read_headers_fetch_new`, `imap_read_headers` | `FetchChunk` and what follows it |

`ImapFlags` has one message and two of its flags: in the header, in mutt's record
of the server, on the server. STORE commands and announcements are on a wire that may break at
any moment; a sync stores flag after flag and then expunges; `imap_reconnect()`
carries changes over by UID, or fails and closes the mailbox. A STORE of the lost session
that the server carries out after the reconnect is one of another client's. The sync of a
mailbox that is being closed, after which there is no header to speak of, is left out.

`ImapCache` opens a mailbox from the header cache, plain, with CONDSTORE and with
QRESYNC; other clients change it between two sessions, and deliver while it is open, but not
between SELECT and the end of the download (`ImapMailbox` explores that, without a cache); a
sync writes to the cache before the server has answered.

`Connection` has the list of connections of an account, what of each outlives its
closing, and which one `imap_conn_find()` gives to an open mailbox, to a second
one and to a question about another.

### Maildir, Mbox, MailCheck, Monitor

`Maildir`: files by name, directory and flags; the header list; directories whose
recorded time is their time. Another client delivers, renames and removes at any
moment of a scan or a sync. `maildir_check_mailbox` is `StatCur ScanDir Merge
Checked`, `mh_sync_mailbox` a step for each file.

`Mbox`: the file as a sequence of messages, the offsets mutt has read to, and for
a compressed mailbox the plain copy. Others append, rewrite or replace it.
`mbox_check_mailbox` with `mutt_reopen_mailbox`, `mbox_sync_mailbox` with its
bail-outs, and the `compress.c` wrappers with a close-hook that may fail.

`MailCheck`: per watched mailbox its size, times and messages, what BUFFY recorded of
it, `new` and `notified`; visits open a mailbox and close it with the times set
back as the drivers do. `buffy_mbox_check`, `buffy_maildir_check`,
`buffy_check_imap`, `mutt_buffy_notify` are operators of one check.

`Monitor`: the kernel's table of watches and its queue, mutt's list of monitors,
`MonitorContextDescriptor`. Files are replaced under their path.

### Send, Smtp, Autocrypt

`Send`: sessions (`SEND_CONTEXT`), one active; `pc` follows the states of
`send_message_resume_*` and the steps of sending, each of which may fail; `shape`
is what sending has wrapped around the message. Editors are processes, `ProcessList` and SIGCHLD as in `background.c`.

`Smtp`: one session with a server that answers, refuses or hangs up; the text is
read in pieces of a buffer, so a line may be cut anywhere.

`Autocrypt`: the peer and history tables and the keyring; messages are read in any order and again, each write to the
database may fail. The recommendation for a new message and what the user overrides.

### Threads

The tree of THREADs as a function from nodes to records with parent, children in
order, the two sort keys and the flags of `mutt_sort_subthreads()`. An arrival is
a whole `mx_update_context()` with `update_index_threaded()`; expunging makes the tree
from nothing, as the code does. `ThreadsRight` compares the tree
with the one that would be made from nothing at each step.

| code | definitions |
|---|---|
| `mutt_sort_threads` | `Place`, `Refer`, `check_subjects`, `pseudo_threads`, `mutt_sort_subthreads` |
| `_mutt_traverse_thread`, `mutt_set_virtual` | `Collapse`, `Uncollapse`, `Visible` |
| `mutt_sort_headers`, `resort_index`, `update_index_threaded` | `mutt_sort_headers`, `Resort`, `Arrive` |
| `mutt_break_thread`, `clean_references`, `mutt_link_threads` | `BreakThread`, `LinkThreads` |

### Menu, Sidebar, Keymap, LineEditor, History

`Menu`: the MUTTMENU, the windows and what every row of the screen shows; an
operation changes the menu and asks for a part to be drawn. Prompts of several
lines, menus on top, and a terminal of another height come in between.
`Sidebar`: the entries with the four indices into them, drawn in pages.
`Keymap`: the sorted list of bindings of two menus, the two queues of events, and
`km_dokey()` one event at a time. `LineEditor`: the text, cursor and first visible
character under every editing function. `History`: the ring and the file.

### Attachments, Security, RecvAttach

`Attachments`: BODYs with the file each names, `next` and `content` for the list,
`idx` for the array of the menu. Files are there before (the user's) or made by
mutt, and other programs write and remove them meanwhile. A command of the menu
is an action; `Send`, `Postpone` and `Exit` end the session with what they
unlink.

| code | definitions |
|---|---|
| `mutt_gen_compose_attach_list`, `update_idx` | `Generated`, `update_idx` |
| attaching files, messages and new bodies, deleting, moving, editing, copies, renaming | `AttachFile AttachMade NewMime Delete Move EditFile GetAttachment RenameFile ToggleUnlink` |
| `mutt_update_encoding`, `mutt_stamp_attachment`, stuffing of `format=flowed` | `UpdateEncoding`, `Stamped`, `Stuff` |
| editing the message, also in the background; `mutt_edit_headers` | `EditMessage EditInBackground Resume EditHeaders ResumeHeaders` |
| `check_attachments`, `mutt_free_body` | `Changed check_attachments Send Postpone Exit`, `Freed` |

`Security`: the flags of one message from `Start` (options, and the message answered)
through recipients, headers, the built-in editor and the menus of PGP, S/MIME and Autocrypt to
`Send`, `postpone_message`, `Recall` and `Resend`; `asked` is whether the user
wanted it encrypted.

`RecvAttach`: a message is a sequence of parts in the order of the tree; `idx` has the
part and level of each entry, from which the code makes the view. Deleting marks
parts; the copy of the message (`copy_delete_attach`, `count_delete_lines`) is computed
byte by byte and compared with what is left of the tree.

### Patterns, Pager

`Patterns`: at one prompt a pattern is typed token by token and compiled
(`mutt_pattern_comp`), at others ranges and dates; then it is searched for,
limited to, and used to set flags, while messages arrive, are read and deleted.
`imap_search` asks the server about the full-text parts. `Meant` is what a pattern
means, written from the manual's grammar and used to compare only.

`Pager`: `rows` is `lineInfo[]`, which `display_line` fills as far as somebody looks;
a command moves `topline`, hides, searches, or breaks the text anew. `screen` is
what is drawn. The tree of quoting prefixes (`classify_quote`) and the colors of a
line (`match_body_patterns`) are explored by themselves.

### Bundles

`RemoteMC`, `LocalMC` and `UserMC` put independent modules into one run: `part`
is chosen in the initial state, the variables of the other modules are 0, and a
property speaks of its own part. Each part is explored as if it were alone.
`ThreadsMC` has the threads of the violated property, `ContextMC` the settings of
`Context`, `MailboxLockMC` the symmetry of processes.

## Runs, bounds and fairness

| run | result | what it shows |
|---|---|---|
| `imap_pipeline` | holds | With a server that answers in order, and handlers that fetch messages (`PipelineRight`): the ring lists exactly the commands the server owes and those not written, is free when nothing is outstanding, no call waits for a line nobody will send, DONE follows IDLE; and over a connection marked as failed nothing is sent, nor is the mark lost before it is closed, except where `imap_cmd_finish()` clears it after a download of its own (`FatalIsSilent`; see `FatalSticks` below). |
| `imap_anyorder` | holds | With completions in any order: no waiting command is overwritten or shares a tag (`RingSafe`), none is refused (`PipelineAccepts`), `imap_exec()` returns with nothing outstanding (`ExecDrains`). |
| `imap_calls_return` | holds | Every call that waits for the server returns (`CallsReturn`, liveness). |
| `context` | holds | Three mailboxes with the commands and options that matter to each: counters are those of a recount (`CountersMatch`), the view and its numbers agree and a limit shows what matches (`ViewRight`), what is shown and not on disk is marked, and a mailbox marked changed has something to write (`NoChangeForgotten`), no message is lost on the way to `$mbox` or `$trash` (`NoMailLost`) or moved and kept (`MovedIsDeleted`). |
| `lock_mail` | holds | Two mutts and an agent: who has the mailbox has the dotlock, the locks come back, no mail is lost, and the lock implements `SharedLock`. |
| `lock_force` | holds | With mutts killed at any step, also while they write, and broken locks, `fcntl()` still keeps a writer alone, with the right file. |
| `lock_sync_unlink` | violated | `NoMailLost`, see below. |
| `remote` | holds | POP: numbers, caches and deletions over many sessions (`PopFollowed`, `PopSynced`). IMAP: message numbers under all announcements (`ImapFollowed`), flags of both sides converge (`FlagsConverge`), a mailbox opened from the cache is the server's (`OpenedRight`), commands go to a connection fit for them (`ConnectionsRight`). |
| `pop_stale_cache` | violated | `ShownIsRight`, see below. |
| `local` | holds | A check finds what others did to a maildir or an mbox and keeps the user's changes (`MaildirFollowed`, `MboxFollowed`); new mail is found and announced once, and what should be watched is (`NewMailRight`); the tree of threads is the one made from nothing, in order, complete, and what is hidden is counted; patterns match what they mean; the pager shows the text from where the commands say (`ShownRight`). |
| `threads_break` | violated | `BrokenStaysBroken`, see below. |
| `user` | holds | A message that could not be sent comes back as it was (`ComposeIsClear`), sessions end once and nothing of them is lost (`SessionsRight`), the server gets the text and the recipients (`SmtpRight`), Autocrypt keys are used as announced, and what should be encrypted is (`KeysRight`), menus and sidebar show what is there (`ScreenRight`), keys, the line editor and its history do what they should (`InputRight`), and the attachments that are listed are those that are sent, deleted and forwarded (`PartsRight`). |

**Bounds.** The ring has 3 slots (2 usable, as one is always free; the smallest in which
two commands are in flight and it can be full) or 2, and as many tags as slots, so
that ring and tags wrap around. `MaxDepth` 3 is a command whose answer makes a handler
fetch a message whose pipeline has to be drained; at 4 there is one more level. Two messages are
enough for every property of a pair of messages (order in the view, one done
and one not); one is enough for properties of each message, which leaves room
for every flag command. Two mutts and two files give a lock that is contended
and a file that is replaced; `MAXLOCKATTEMPT` 1 makes a process give up, wait or
break, `HARDMAXATTEMPTS` 3 is out of its reach as 10 is out of that of 5. Two POP
messages share the one slot of the small cache, so that it is both hit and
overwritten.

`ImapMailbox` has four UIDs of which two are there at first: one is expunged while
another arrives and a chunk of one header is fetched. `ImapFlags` has one line
and one lost connection at a time; `ImapCache` three UIDs, of which one vanishes and one
is new. `Connection` has three connections: an open mailbox, another, a spare.
`Maildir` has two names and four changes; `Mbox` three messages, two of which look alike,
and one change by another program at a time; `MailCheck` runs to time 6, enough for a
visit, a delivery and a check in any order within the same tick or not; `Monitor`
replaces files up to inode 4 and reads as many events at a time as may wait (two), so none is skipped (see below). `Threads` has four
messages: a missing one that arrives late, one joined by subject, and two siblings; one
message is found per check and two commands are given. `Send` has two sessions
and one retry; `Smtp` texts of four characters read two at a time; `Autocrypt` five
messages about two peers. `Menu` has four entries in windows of two or three rows;
`Keymap` three keys, two more bindings, three keys typed; `LineEditor` three characters in
four columns, one character being two columns wide; `History` three lines and a file of four; `Sidebar`
three mailboxes in two rows. `Attachments` has three bodies and files, of which one is
the user's, and three commands: a body is moved, renamed or removed after another was
added. `Security` has two recipients with keys of different systems, five sets of
options and four commands; `RecvAttach` four messages (one inside another, alternatives,
a message alone, an encrypted part) and four commands. `Patterns` has patterns of up to
five tokens, ranges of four, six messages in two threads and two commands on them;
`Pager` two texts of up to seven lines in two widths, of which three rows are shown, and
three commands. The proofs below have none of these bounds.

Deadlock checking is off where a behaviour ends: a connection closed by an error with unsent commands is not used again while
`ReuseDirty` is false, and in the other runs the bounds end it.

**Fairness.** Only `imap_calls_return` needs it. `Fairness` is weak fairness of the client's own steps (it is
a loop in one thread, and runs until it returns or waits), of the server answering
what it has received, and of a read failing once the connection is closed or the server said BYE. The
property excludes a server that sends unasked lines for ever: then
`imap_cmd_step()` does loop for ever. A link that goes silent is not fair to
the client; the code then waits, unless `$imap_poll_timeout` is set.

## Proofs

TLAPS checks every theorem below for every value of the constants that
satisfies the assumptions named in the modules; TLC evaluates those assumptions
in the runs. They are:

* `ImapCommand`: `CmdSlots >= 2` and `SeqMod >= CmdSlots` (`$imap_pipeline_depth` + 2 and 10 000
  in the code).
* `MailboxLock`: `MAXLOCKATTEMPT < HARDMAXATTEMPTS` (5 and 10), processes are none of the
  other owners a lock file may have.
* `Context`: a setting is a driver, a set of configuration variables and commands, and
  numbers within the bounds.
* `Pop`: the bounds are numbers and `CacheLen` is not 0; `Connection`: `MaxConns` is a number. Nothing is
  assumed of the constants of `ImapFlags`.
* `ImapMailbox`: the hypothesis `Bounds` of its theorems, that the bounds and
  `$imap_fetch_chunk_size` are numbers and no more messages are there at first than there are UIDs.
  It holds of the instance in `RemoteMC` (`ImapSoundAlways` shows it).
* `ImapCache`: its own `Bounds`, that the bounds are numbers which leave room for the two messages and
  the one change of the beginning (`CacheSoundAlways` shows it of the instance).

Bounds such as `MaxMsgs` cap what TLC explores; a theorem holds whatever their value.
Switches that admit behaviour by which a property is broken are conditions of
the theorem, and each is named where it is used.

**ImapCommand_proofs.**

| theorem | property | when |
|---|---|---|
| `TypeCorrect` | `TypeOK` | always |
| `RingIsSafe` | `RingSafe` | always |
| `FailedIsSilent` | `FatalIsSilent` | handling a FETCH issues no command (`NestedFetch = FALSE`) |
| `PipelineIsOpen` | `PipelineAccepts` | the same, no connection is reopened with commands unsent (`ReuseDirty = FALSE`), and mutt can parse what the server says to SELECT (`Garbled = FALSE`) |
| `ExecLeavesNone` | `ExecDrains` | the same three |
| `PipelineIsRight` | `PipelineRight` | the same three, and the server answers in order (`InOrder = TRUE`) |

All but the last hold with servers that answer in order and in any order. `RingSafe` is not
inductive: that two waiting commands have different tags follows from how tags are given
out. The invariant `Good` says that the tag of a waiting command is the next
number to be given out, counted back by the distance of its slot from `nextcmd`
(`Back`, `Distance`), and the window has no more slots than there are numbers.
The lemmas `WindowGrows`, `WindowTakes`, `WindowShrinks` and `NextNumber` are the
arithmetic of the ring; `NewCommand`, `ScanGood`, `HandleFatal` and
`CloseConnection` show `Good` for each function that writes it. The invariant
also says that a frame waiting for the pipeline to drain has a command to queue.

The theorems from `FailedIsSilent` on need to know where in which call a command is issued. `Safe` says which
calls may stand on which (`Shaped`) and what each place of the innermost one relies on (`Sound`): to
send, that the connection has not failed. With nested fetches a call further down may have
noticed a failure that the innermost has not, so there `FatalIsSilent` is checked by
`imap_pipeline` and not proved. `Owed` relates the ring to the server: every command sent
or in the buffer, DONE aside, has one slot that waits, a slot of its own. `Lag` says that a full ring
holds a command that waits, so that a ring which is drained has room (`PipelineAccepts`). `Inner`, with `Stage` for the places of the
innermost call, says for `ExecDrains` what is still waiting in the loop of `imap_exec()`; `Starting` is the IDLE that is
sent but not begun: it is the last command, and its caller reads. `Draining` is the conjunction
of these, with `Flagged`: while a connection mutt has given up is still open (a poll timed out), no
`imap_cmd_finish()` is under way that would clear the mark. `Linked` is a connection that is open, `Alive`
one that mutt has not given up either; `StaysDead` says that it lives only by being opened. With nested
fetches, or out of order with `ReuseDirty`, `ExecDrains` is false: see the section below. A SELECT whose
responses cannot be parsed (`SelectGarbled`) leaves answers unread that the next command meets; with
`Garbled` the run `imap_pipeline` shows that the ring and the server still agree.

`PipelineIsRight` adds the order. `RingMatchesServer` compares the ring with what the server owes only between lines;
while a line is being looked at, the server has dropped a command whose slot is still
waiting. `Order` therefore speaks of `Now`, the ring as it will be when the line in hand has been scanned,
and of `Queue`, what the server has not answered followed by what is not written: position by position,
the queue has the tags of the slots from `lastcmd` on (`LinedUp`), with DONE second while the server
idles (`Lined`). `Told` is the moment after the `+`, when the caller of IDLE does not
know yet that it may send DONE. `Tight` says that every slot between `lastcmd` and `nextcmd` waits, so that a ring with
nothing outstanding is free (`SlotsComeBack`), and an answer in order moves `lastcmd` by
one. `Shut` is what a reopened connection relies on: a closed one has an empty ring, unless it has
commands that were never sent, and no call goes on with the old mailbox. `Ended` says the same of DONE where the
connection has failed. There is one lemma per kind of step (`OrderNew`, `OrderWrite`, `OrderStep`, ...; `TightStep`,
`ShutKeeps`, `EndedStep`), and `OrderedInductive` puts them together. An out-of-order server leaves gaps in the
window, and there `PipelineRight` is not claimed; with nested fetches, which the run `imap_pipeline` has, it
is model-checked, because a handler then sends commands while the line it handles is half looked at.

**Context_proofs.** Every property of the run `context`:

| theorem | property | when |
|---|---|---|
| `TypeCorrect` | `TypeOK` | always |
| `CountersCorrect` | `CountersMatch` | unless `Rescores`: `$score` and messages that supersede others of their batch |
| `NoMailIsLost` | `NoMailLost` | always |
| `NothingIsForgotten` | `NoChangeForgotten` | marks always; that a marked mailbox has a marked message, unless `Rescores` |
| `MovedStaysDeleted` | `MovedIsDeleted` | `$flag_safe` only with `$keep_flagged` |
| `ViewCorrect` | `ViewRight` | an mbox is not limited and sorted by another key at once |

The excluded cases are those the section below lists, and there the property is false. `Base` has types
and `Shape`: headers are of messages that have arrived, each once, and none of a message on disk is
missing. On it stand five invariants, each proved with the ones before:

* `Tallied`: `Counting` (what a batch of new messages is not counted yet is neither in view nor
  tagged), and the difference of each counter from a recount is 0 (`Off0`; for the D counter at least
  not below it, `Over`, which is what a sync relies on to find deleted messages). It holds in the middle of every
  loop, because a header's flag and the counter change in the same step; the work is in
  showing this for each of the seven flags with all they drag along (`set_delete` ...).
* `Trashing`: a deleted message is in `$trash`, still to be appended there, or purged.
* `Remembered`: a header that differs from the disk is marked (`Stays`), marks mark the mailbox
  (`Recorded`), a maildir sync has passed only what is the same on disk (`Renamed`), and a marked
  mailbox has a message that is marked (`Found`).
* `Departing`: what `$move` has copied is deleted, and nothing deleted is left when the headers
  go (`Parting`, `Moving`, `Asked`).
* `Viewing`: in which part of the loop over new messages what is matched is in view (`Limits`, `View`,
  `Entering`).

**MailboxLock_proofs.**

| theorem | property | when |
|---|---|---|
| `TypeCorrect` | `TypeOK` | always |
| `DotlockIsHeld` | `DotlockHeld` | locks are not broken |
| `LockImplementsSharedLock` | `ImplementsSharedLock` | locks are not broken |
| `HolderKeepsMailbox` | `HolderHasMailbox` | no mailbox is emptied by a sync |
| `WriterIsAlone` | `ExclusiveAccess` | no mailbox is emptied by a sync |
| `MailIsSafe` | `NoMailLost` | neither, and no mutt crashes: an mbox is rewritten in place |
| `LockComesBack` | `LockIsReturned` | crashes are allowed, or neither |

`OwnInv` strengthens `DotlockHeld`: `Owns` extends the lock to the way out
(a process on its way to `unlink()` still has it), and `Attempts` says that the
hard counter of `dotlock_lock()` never gets ahead of the soft one, without which
the loop would end by exhaustion and return success without a lock: this is
where the assumption is used. `HolderInv` says of every process from `fcntl()` on that
it has its `fcntl()` lock (`Holds`), that the file it has open is the one at the
path while it works, and that locks of two processes on one file are shared ones
(`Sharing`). `MailInv` adds that a process about to write has seen all there is
(`Sees`), which holds because only the holder changes the contents
(`OthersLeaveContent`). For `LockComesBack`, `Ways` says that whoever has the lock file is at a
place from which it goes on to remove it, and `WayInv` that its open file is the one the path
names, so that it does not give up for a changed file with the lock in its hands.

**RemoteMC_proofs** has the proofs about `Pop`, which `RemoteMC` extends, and takes the theorems of the four
modules below for the instances that the run `remote` explores.

| theorem | states | when |
|---|---|---|
| `NumbersCorrect` | `RefnoIsRight` | always |
| `NothingLost` | `NoMailLost` | always |
| `IndexLeaves` | `Removal` of every step | no login is refused during a check (`LoginRefused = FALSE`) |
| `ShowsTheMessage` | `ShownIsRight` | messages do not vanish while `$message_cachedir` is unset (`StaleCache = FALSE`) |
| `PopIsFollowed`, `PopIsSynced` | `PopFollowed`, `PopSynced` of the run `remote` | the same |
| `ImapIsFollowed`, `ImapFlagsConverge`, `CachedIsOpenedRight`, `ConnectionsAreRight` | `ImapFollowed`, `FlagsConverge`, `OpenedRight`, `ConnectionsRight` of `remote` | always |
| `RemoteTypes` | `TypesOK` of `remote` | always |

The two conditions are the finding `pop_stale_cache` and the entry on `Pop` below. `Base`
says where an operation may be and in which state of the connection (`Control`, `Status`,
`Closed`, `LoggedIn`); that a session has the maildrop to itself and what arrives meanwhile is
newer (`Locked`), from which follows that numbers stay; that headers have the numbers of a verified
session (`Agreed`); that a D flag is the user's or of a message that is gone (`Deletions`);
that what QUIT will remove is saved or wanted (`Doomed`); and that a sync has told the server
of all it has come past (`Passed`). `Caches` is about the bodies: without `$message_cachedir`,
the index of a header is a position in some listing (`Positions`), a slot of the small cache holds the message
whose header has its index (`Slotted`), and deletions happen where mutt knows of them (`Tidy`).

**Connection_proofs**, for any number of connections. `ConnectionsCorrect` proves `TypeOK` and
`ConnectionsRight`, from `Right`: the list has the numbers up to its length (`Typed`), a mailbox
that is open is selected on a connection of its own, and what is not in the list was never opened (`Owned`),
and every connection is encrypted as it must be and open unless it failed (`Sound`). There is a lemma
for each thing that may become of a connection (`Opening`, `LoggingIn`, `Selecting`,
`Losing`, `Closing`), and one for taking it (`Taking`). `ConnectionsAreRight` in
`RemoteMC_proofs` takes the invariant for the instance with three connections that the run explores.

**ImapFlags_proofs**, for any bounds. `FlagsTypes` proves the types, `FlagsAgree` proves
`FlagsConverge`, and `ImapFlagsConverge` in `RemoteMC_proofs` the same for the run `remote`.
`FlagsConverge` speaks only of moments when nothing is on its way; `Converging` says what holds in
between. `Flow`: which lines and commands may be on their way where, and that a
STORE which waits carries the value the header has. `Told`: outside a flush, what no other
client touched is on the server as in mutt's record and as in every announcement not read yet, and when the
server owes nothing more, the last announcement (or, without one, the record) is what the server has.
`Stored`: in a flush, a flag that differs from the server's is in a STORE that waits. `Untouched`
survives the loss of the link, where all that was announced is gone; it is what `imap_reconnect()`
relies on when it merges. `Wanted` ties the user's last wish to the header. `Shown` says that a header not marked
as changed shows the record. There is one lemma per action.

**ImapMailbox_proofs**, for any number of messages, lines on their way and chunks. `NumbersTypes`
proves the types, `NumbersFollow` proves `NumbersAgree`, `FlagsHitTheirMessage` and `AnnouncedIsKnown`, and
`ImapIsFollowed` in `RemoteMC_proofs` their conjunction `ImapFollowed` for the run `remote`. mutt and
the server are apart by the lines that are on their way, and each line may renumber what those
behind it speak of, so no relation between the two lists alone is inductive. `Numbered` says instead
that there are numberings N[0] .. N[n], one before and after each of the n lines, such that each
line tells how its numbering came from the last (`Tells`), the last is the server's now
(`Followed`), and mutt's numbers are those of N[0] (`Agreed`). A handler then takes one step along N,
which is all it can see, and the server adds one at the end. What has left one numbering is in none
that follows, nor in the mailbox, so what mutt has marked as gone does not come back (`Departed`); what N[0] has
mutt has, knows to be new or is downloading (`Reached`). Beside it, `Protocol` says what the
server does while mutt waits where, `Found` that header and index point at each other, and
`Complete` that a number without a header belongs to a download that goes on. `Agreed`, `Departed` and
`Reached` exclude the downloads with gaps and those that lines renumbered, as the properties do.
Each action has lemmas for N and for the rest (`...Keeps`).

**ImapCache_proofs**, for any number of messages and of changes on the server. `CacheTypes` proves
the types, `CacheOpensRight` proves `OpenedRight`, and `CachedIsOpenedRight` the same for the run
`remote`. `OpenedRight` speaks only of the open mailbox; what it rests on is what the cache may
hold while the mailbox is closed. `Opening` has four parts. `Server`: UIDs and modification sequences only
grow. `Stored`: the stored UID set ascends, and a UID in it that has left the mailbox left
after the stored MODSEQ, so the server will report it as vanished. `Fresh`: a cached header whose
message did not change since that MODSEQ has the server's flag, unless a lost sync wrote it
(`unsynced`). `Stage` says what each step of `imap_read_headers()` may rely on. Without QRESYNC,
headers from the cache are under their numbers (`Placed`). With it, a header that is missing from the
cache has moved all that follow down, so that a number may have another message's header; all that
remains true is that the UIDs ascend and are in the session (`AtFetch`). The download then fills
up to the last number (`AtVerify`), and what was moved down is there twice, unless
nothing was: that `verify_qresync()` finds no UID twice means, by counting, that every number is
right (`NotJumbled`). `Sound` carries the flags through: they are right wherever the number
is. `Kept` in the model has a closed form where a fold or `SelectSeq` would be
recursive; `KeptParts` and `KeptAll` say what it returns.

**Model-checked and not proved.** Liveness (`CallsReturn`) is out of the prover's reach.
`Threads`, `Patterns` and `Pager` have recursive operators on trees, patterns and texts, for
which the provers have no induction. Of
the modules in `LocalMC` and `UserMC` nothing is proved, nor of `PipelineRight` and `FatalIsSilent` with nested
fetches.

## Where the code differs from what it says

Shown by a run that finds the property violated:

* `lock_sync_unlink`: `mx_sync_mailbox()` removes an emptied mbox after the
  locks were returned and without looking at it again.
* `pop_stale_cache`: the small POP cache is keyed by position and cleared only
  when a known message moves; when the last message is replaced by another
  one, the old body is shown for the new header.
* `threads_break`: `clean_references()` stops at the first sibling without a
  message where its comment says it skips it (`thread.c:1588`); the siblings
  behind keep references from above the break and go back there when the tree is
  made again.

Met while modelling, and stated by a formula that a module keeps although no run
checks it, because it does not hold:

| formula | what happens |
|---|---|
| `ImapCommand!FatalSticks` | `imap_cmd_finish()` sets `idata->status = 0` after it has fetched new mail, also when the fetch lost the connection (`imap/command.c:331`). |
| `ImapMailbox!NumbersStayDuringFetch` | A server may send EXPUNGE in the middle of a download of several commands, which the comment at `imap/message.c:1030` excludes. |
| `ImapFlags!RecordIsServer` | A refused STORE is recorded as done (`imap/imap.c:1658`); so are other flags of a message whose deletion alone was sent. |
| `ImapCache!CachedFlagsAreOverwritten` | The comment at `imap/imap.c:1658` says flags cached before a lost sync are overwritten at the next opening; with QRESYNC they are not. |
| `Connection!TunnelIsSecure` | A tunnel that was closed and opened again is no longer taken for encrypted with `$tunnel_is_secure` (`mutt_socket.c:84`, `mutt_tunnel.c:62`). |
| `MailCheck!ReceivedSinceOpenedIsNew` | mutt's own append to a mailbox clears the newness of mail that waits there (`mx.c:719`). |
| `Monitor!WatchesAreMonitored` | `inotify_rm_watch()` gets its arguments in the wrong order where a monitor is removed (`monitor.c:441`, `:485`), and a watch stays. |
| `Threads!WholeThreadsCollapse` | A missing message that arrives on top of a collapsed thread leaves the others flagged collapsed and shown (`sort.c:346`). |
| `Sidebar!HighlightedIsShown` | A highlighted mailbox is hidden with `$sidebar_new_mail_only` once it has no new mail, unlike the comment at `sidebar.c:286` says. |
| `Keymap!TrialRunsNothing` | Trying out the help key runs a macro that the menu has on the beginning of that key (`keymap.c:824`). |

Met while modelling, and excluded from the passing runs by a constant, a setting
or a guard:

* `ImapCommand`: `InOrder = FALSE` leaves slots behind `lastcmd` until the ring
  drains; `NestedFetch = TRUE` with completions out of order may find the ring
  full; `FetchBeforeIdle = TRUE` with nested fetches sends DONE for an IDLE that
  was never acknowledged; `ReuseDirty = TRUE`: `imap_close_connection()` does not
  empty `cmdbuf`, and commands of the old connection go out on the next one.
* `Context`: with `"supersedes"` a message that supersedes one of the same batch
  makes it counted twice (`mx.c:1528`); with `"limit"`, `"sort"` and an mbox,
  mail found by a sync is sorted in before `update_index_unthreaded()` tries the
  last messages against the limit (`mbox.c:1230`); an interrupted limit leaves
  numbers on messages out of view (`pattern.c:1924`); with `"flag_safe"` and
  `"move"` a flagged message is copied to `$mbox` at every close (`mx.c:986`); a
  sync that finds new mail after `$trash` was filled fills it again
  (`mx.c:1273`); with `$delete=no` messages that were moved are undeleted; a
  mailbox that is toggled unwritable after a `$move` was broken off loses the D
  flags of what was moved.
  An mbox whose rewriting fails in the middle is closed at once and keeps part of the mail
  (`mbox.c:1140`; the rest is in a temporary file whose name mutt shows), and what `$move` has
  copied from it may be there still: `Context` writes all or nothing.
* `MailboxLock`: with `Crash = TRUE` such a failure loses mail, so `NoMailLost` is checked
  without it.
* `Pop`: `LoginRefused = TRUE`: a login refused during a check leaves
  `POP_CONNECTED`, so `pop_reconnect()` verifies nothing (`pop_lib.c:343`), and a
  sync may drop all messages from the index without deleting them.
* `ImapMailbox`: VANISHED for a UID that was never downloaded does not renumber
  what follows (`Adrift`).
* `ImapFlags`: another client's change between a STORE and its OK leaves the
  record different from the server; a reconnect writes all flags of a changed
  message back, others' changes included.
* `ImapCache`: a download gives every number a header, so a UID set with holes is never stored, and
  reading one is not explored.
* `Maildir`: a failed rename leaves `h->trash` set; a message that is moved while a
  scan runs is dropped with its changes, or is there twice; a failed unlink is
  ignored; times are recorded before `cur` is read.
* `Mbox`: a change that keeps the size goes unnoticed; `compress.c` compares
  nothing but the size; a reopened mailbox loses edited envelopes; with
  `UndeleteStale = TRUE` a failed close-hook leaves offsets of a file that was
  rewritten (`compress.c:876`).
* `MailCheck`: mail that arrives between the last check and the closing; an
  mbox checked by size that is replaced.
* `Monitor`: `Refusals = TRUE`: a close that is refused has already dropped
  `MonitorContextDescriptor`. The loop over events does not reset its pointer
  (`monitor.c:297`), and what a second `read()` returns is skipped.
* `Send`: a failed `invoke_mta()` leaves an inline signature in the text; a recalled
  draft is deleted before its message is sent; `$fcc_before_send` leaves a copy
  of a message that was not sent; a failed Fcc while postponing leaves
  `x-mutt-noconv`; `waitpid(-1)` may reap a tunnel's process.
* `Smtp`: a dot that begins a piece of a long line is doubled in the middle of it; a
  lost last answer is reported as an error though the message was sent.
* `Autocrypt`: an insert into the history that failed is never repeated.
* `Menu`: where the margins of `$menu_context` fill the window, `<next-page>`
  skips an entry; a tagged attachment that is deleted stays counted in
  `menu->tagged` (`compose.c:1412`); the refused deletion of the last one clears its
  tag without drawing (`compose.c:632`).
* `LineEditor`: the completion of aliases and labels may start behind the cursor,
  with a length below zero.
* `Keymap`: a macro found among keys that were put back is expanded behind the rest
  of them.
* `Threads`: a message whose references form a circle; duplicates after
  the hash has grown come in another order (`hash.c:120`).
* `Attachments`: after the built-in editor `update_crypt_info()` is not called
  (`stale` in `Security`); making the array again forgets whose file a body names
  (`unowned`); copies made with `<get-attachment>` stay when the message is given
  up.
* `Security`: with Autocrypt on, any choice in the S/MIME menu drops AUTOCRYPT;
  `X-Mutt-SMIME` has no letter for a cleared algorithm; a
  resent message that was PGP signed and encrypted is encrypted only.
* `RecvAttach`: with `<tag-prefix>` deleting and undeleting go through the
  first `menu->max` entries of an array that has more when something is collapsed
  (`recvattach.c`, `Counted`); `attach_forward_msgs()` may use the name of a
  temporary file that was freed when the user gives up.
* `Patterns`: `a | (b) c` is compiled as `a | b | c` (`Doubtful`); the answer of
  `imap_search()` is taken for the whole pattern, full-text part or not
  (`ServerKnows`); new mail is not tried by the server against a full-text limit;
  `flags.c:287` compares `h->changed` and keeps the verdict of a search for a
  message that was changed before (`missed`).
* `Pager`: after hiding quoted text only the rows that were drawn again can be
  found; a search that fails while the screen begins in the middle of a line moves to
  the line's beginning; with `$search_context` a match among the first rows is passed over.

## What is not modelled

* `ImapCommand`: literals, COMPRESS and STARTTLS. `Context`: the
  pattern language (a pattern is the set it matches), threads. `MailboxLock`: `flock()`,
  NFS caches, the external `mutt_dotlock`, files of equal size and different
  contents. `Pop`: authentication, the probing of TOP and UIDL, old and read flags
  derived from the header cache, read-only mailboxes. `ImapMailbox`: APPEND and
  COPY, bodies, searches, custom flags. `Maildir`: MH, with `.mh_sequences`.
  `MailCheck`: MH and POP, `$mail_check_stats`, `mbox_reset_atime`. `Send`: texts,
  recipients, the saved settings of a session. `Smtp`: size, DSN,
  the methods of authentication. `Autocrypt`: more than one account, prompts.
  `Keymap`: functions of other menus spelled out, meta keys. `History`: two running mutts
  that shrink one file. `Threads`: drawing the tree, `$collapse_unread`, moving
  between messages. `Attachments`: the built-in editor, remailers, the types of files.
  `RecvAttach`: saving, piping and printing, the display of a part. `Patterns`: most
  letters of the language, hooks and groups, IMAP servers that find by other rules.
  `Pager`: MIME autoview, markers and tildes, colors but those of quoting and bodies.
* Parsing and MIME, character sets, the tools and libraries of cryptography,
  configuration, colours, the file browser, and the library: little
  state that a step of another part could upset, or code of other projects. Each
  is listed in `PROJECT.json`.
