------------------------------ MODULE MailboxLock ------------------------------
(***************************************************************************)
(* Several mutts and a delivery agent on one mbox file.  Each mutt opens,  *)
(* checks, appends to, writes and removes the file under the locks of      *)
(* mx_lock_file(): fcntl() on the open file, then the dotlock of           *)
(* dotlock.c, whose name belongs to whoever links it first.  The build is  *)
(* the usual one: USE_FCNTL and USE_DOTLOCK, with dotlock_invoke() in      *)
(* process.                                                                *)
(*                                                                         *)
(* One action is one system call, or what a process does to the file while *)
(* it has the lock.  A file is a number, its contents the set of the       *)
(* messages in it; the sizes of different contents are taken to differ,    *)
(* and which is larger is left open where neither contains the other.      *)
(***************************************************************************)
EXTENDS Integers, Sequences, FiniteSets

CONSTANTS
    Procs,              \* the mutts
    MaxMsgs, MaxFiles,  \* bounds on the messages, and on the files made
    MAXLOCKATTEMPT, HARDMAXATTEMPTS,
    Agent,              \* TRUE: there is a delivery agent, which dotlocks
    Breaking,           \* TRUE: "remove lock for ...?" may be answered yes
    Crash,              \* TRUE: a mutt may be killed, or a call to the system fail
    SyncEmpties         \* TRUE: a mailbox may be emptied without closing it

NoFile == 0
NoLock == "none"        \* the owner of the lock file, besides a mutt
AgentsLock == "agent"
StaleLock == "stale"
NotOwners == {NoLock, AgentsLock, StaleLock}

ASSUME ProcsAssumption == Procs \cap NotOwners = {}
ASSUME BoundsAssumption == MaxMsgs \in Nat /\ MaxFiles \in Nat
\* dotlock_lock() cannot run out of HARDMAXATTEMPTS (10) before its count
\* passes MAXLOCKATTEMPT (5).
ASSUME AttemptsAssumption ==
  MAXLOCKATTEMPT \in Nat /\ HARDMAXATTEMPTS \in Nat /\ MAXLOCKATTEMPT < HARDMAXATTEMPTS
ASSUME SwitchesAssumption == {Agent, Breaking, Crash, SyncEmpties} \subseteq BOOLEAN

VARIABLES
    mailbox,    \* the file the path names
    files,      \* the contents of the files made so far
    lockfile,   \* whose NFS lock file <path>.lock is a link to
    fcntl,      \* the fcntl() locks: [file, proc, excl]
    mutt,       \* the state of each mutt
    agent,      \* has the agent the dotlock?
    arrived,    \* messages 1 .. arrived exist
    delivered,  \* those whose writer was told they are in the mailbox
    purged      \* those a user has deleted

vars == <<mailbox, files, lockfile, fcntl, mutt, agent, arrived, delivered, purged>>
mail == <<arrived, delivered, purged>>
------------------------------------------------------------------------------
Msgs == 1 .. MaxMsgs
Files == 1 .. MaxFiles
Calls == {"open", "check", "append", "sync", "close", "unlink"}
Places == {"idle", "fcntl", "prepare", "link", "stat", "ask", "held", "write",
           "unfcntl", "undotlock", "end"}
Results == {"ok", "nolock", "bail", "fatal"}

\* A mutt: at its place in a call, with fd the file the call has open and fp
\* that of ctx; count, hard and prev_sb are the counters and the last size of
\* the loop it is in, retry and force the arguments of dotlock_invoke(), rc how
\* the call fares.  ctx holds the messages in seen, of which del are deleted.
Mutt ==
  [ at : Places, call : Calls, fd : Files \cup {NoFile}, fp : Files \cup {NoFile},
    count : Nat, hard : Nat, prev_sb : SUBSET Msgs, retry : BOOLEAN, force : BOOLEAN,
    rc : Results, readonly : BOOLEAN, seen : SUBSET Msgs, del : SUBSET Msgs ]

Fresh ==
  [ at |-> "idle", call |-> "open", fd |-> NoFile, fp |-> NoFile, count |-> 0, hard |-> 0,
    prev_sb |-> {}, retry |-> FALSE, force |-> FALSE, rc |-> "ok", readonly |-> FALSE,
    seen |-> {}, del |-> {} ]

At(p, place) == mutt[p].at = place
In(p, calls) == mutt[p].call \in calls
Excl(p) == mutt[p].call \in {"append", "sync", "close", "unlink"}

\* What is in the mailbox, which may not be there.
Content == IF mailbox = NoFile THEN {} ELSE files[mailbox]

\* The next state of p, and p going on to a place.
Leave(p, m) == mutt' = [mutt EXCEPT ![p] = m]
Go(p, place) == Leave(p, [mutt[p] EXCEPT !.at = place])

\* close() or freopen() on a file drops the fcntl() locks of p on it.
WithoutLocks(p, f) == {l \in fcntl : ~(l.proc = p /\ l.file = f)}
------------------------------------------------------------------------------
(***************************************************************************)
(* The calls, up to mx_lock_file().                                        *)
(***************************************************************************)
\* The call of p has opened f; mx_lock_file() is next.
Call(p, call, f) ==
  [mutt[p] EXCEPT !.at = "fcntl", !.call = call, !.fd = f, !.count = 0, !.hard = 0,
                  !.prev_sb = {}, !.retry = call # "check", !.force = FALSE, !.rc = "ok"]

\* mbox_open_mailbox()
Open(p) ==
  /\ At(p, "idle") /\ mutt[p].fp = NoFile
  /\ mailbox # NoFile
  /\ Leave(p, [Call(p, "open", mailbox) EXCEPT !.fp = mailbox])
  /\ UNCHANGED <<mailbox, files, lockfile, fcntl, agent, mail>>

\* mutt_reopen_mailbox() closes the file of ctx and opens what is there now.
Reopened(m) == [m EXCEPT !.fp = mailbox, !.fd = mailbox, !.seen = Content]

\* mbox_check_mailbox(): a mailbox that has grown is looked at under a lock,
\* one that has shrunk is reopened without.
Check(p) ==
  /\ At(p, "idle") /\ mutt[p].fp # NoFile
  /\ \/ mailbox = NoFile /\ Leave(p, Fresh)
     \/ /\ mailbox # NoFile /\ ~(Content \subseteq mutt[p].seen)
        /\ Leave(p, Call(p, "check", mutt[p].fp))
     \/ /\ mailbox # NoFile /\ ~(mutt[p].seen \subseteq Content)
        /\ Leave(p, Reopened(mutt[p]))
  /\ UNCHANGED <<mailbox, files, lockfile, fcntl, agent, mail>>

\* Mutant: the number of a new file is taken after it was counted.
Created_Late ==
  \/ mailbox # NoFile /\ UNCHANGED <<mailbox, files>>
  \/ /\ mailbox = NoFile /\ Len(files) < MaxFiles
     /\ files' = Append(files, {})
     /\ mailbox' = Len(files') + 1

\* A file is made at the path if there is none: open(O_CREAT).
Created ==
  \/ mailbox # NoFile /\ UNCHANGED <<mailbox, files>>
  \/ /\ mailbox = NoFile /\ Len(files) < MaxFiles
     /\ files' = Append(files, {})
     /\ mailbox' = Len(files) + 1

\* mbox_open_mailbox_append(); ctx is another one.
AppendMessage(p) ==
  /\ At(p, "idle") /\ arrived < MaxMsgs
  /\ Created
  /\ Leave(p, Call(p, "append", mailbox'))
  /\ UNCHANGED <<lockfile, fcntl, agent, mail>>

\* mbox_sync_mailbox(), from mx_sync_mailbox() or from mx_close_mailbox().
Sync(p) ==
  /\ At(p, "idle") /\ mutt[p].fp # NoFile /\ ~mutt[p].readonly
  /\ \E del \in SUBSET mutt[p].seen \ {{}}, call \in {"sync", "close"} :
       /\ call = "close" \/ del # mutt[p].seen \/ SyncEmpties
       /\ IF mailbox = NoFile THEN Leave(p, Fresh)
          ELSE Leave(p, [Call(p, call, mailbox) EXCEPT !.fp = mailbox, !.del = del])
  /\ UNCHANGED <<mailbox, files, lockfile, fcntl, agent, mail>>

\* mx_fastclose_mailbox() of a mailbox with nothing to write.
Quit(p) ==
  /\ At(p, "idle") /\ mutt[p].fp # NoFile
  /\ Leave(p, Fresh)
  /\ UNCHANGED <<mailbox, files, lockfile, fcntl, agent, mail>>
------------------------------------------------------------------------------
(***************************************************************************)
(* mx_lock_file(): fcntl() first, and with it in hand the dotlock.         *)
(***************************************************************************)
\* Mutant: a writer does not wait for readers.
Conflicts_Writers(p) ==
  {l \in fcntl : l.file = mutt[p].fd /\ l.proc # p /\ l.excl}

Conflicts(p) ==
  {l \in fcntl : l.file = mutt[p].fd /\ l.proc # p /\ (l.excl \/ Excl(p))}

Without(p) == [mutt[p] EXCEPT !.at = "unfcntl", !.rc = "nolock"]

FcntlLock(p) ==
  /\ At(p, "fcntl")
  /\ Conflicts(p) = {}
  /\ fcntl' = WithoutLocks(p, mutt[p].fd)
                \cup {[file |-> mutt[p].fd, proc |-> p, excl |-> Excl(p)]}
  /\ Go(p, "prepare")
  /\ UNCHANGED <<mailbox, files, lockfile, agent, mail>>

\* An attempt counts if the file has not changed size since the last one.
FcntlWait(p) ==
  LET m == mutt[p]
      size == files[m.fd]
      n == IF m.count = 0 \/ m.prev_sb = size THEN m.count + 1 ELSE m.count
      limit == IF m.retry THEN MAXLOCKATTEMPT ELSE 0
  IN /\ At(p, "fcntl")
     /\ Conflicts(p) # {}
     /\ Leave(p, IF n > m.count /\ n >= limit THEN Without(p)
                 ELSE [m EXCEPT !.count = n, !.prev_sb = size])
     /\ UNCHANGED <<mailbox, files, lockfile, fcntl, agent, mail>>

\* Mutant: dotlock_prepare() does not compare the open file with the path.
Named_Any(p) == mailbox # NoFile

\* dotlock_prepare(): the path must name the file that is open.
Named(p) == mailbox # NoFile /\ mutt[p].fd = mailbox

\* It also fails when the file changes between fstat() and lstat().
Prepare(p) ==
  /\ At(p, "prepare")
  /\ \/ /\ Named(p)
        /\ Leave(p, [mutt[p] EXCEPT !.at = "link", !.count = 0, !.hard = 0])
     \/ Leave(p, Without(p))
  /\ UNCHANGED <<mailbox, files, lockfile, fcntl, agent, mail>>

\* Mutant: rename() instead of link().
Link_Rename(p) ==
  /\ At(p, "link")
  /\ lockfile' = p
  /\ Leave(p, [mutt[p] EXCEPT !.at = "stat", !.hard = @ + 1])
  /\ UNCHANGED <<mailbox, files, fcntl, agent, mail>>

\* link(nfslockfile, lockfile), and what HARDMAXATTEMPTS makes of the loop.
Link(p) ==
  LET m == mutt[p]
  IN /\ At(p, "link")
     /\ IF m.hard < HARDMAXATTEMPTS
          THEN /\ lockfile' = IF lockfile = NoLock THEN p ELSE lockfile
               /\ Leave(p, [m EXCEPT !.at = "stat", !.hard = @ + 1])
          ELSE Go(p, "held") /\ UNCHANGED lockfile
     /\ UNCHANGED <<mailbox, files, fcntl, agent, mail>>

Retry(p) == IF mutt[p].retry THEN MAXLOCKATTEMPT ELSE 0

\* Mutant: the lock counts as taken whoever has linked the lock file.
Linked_Any(p) == lockfile # NoLock

\* st_nlink == 2
Linked(p) == lockfile = p

\* What follows link(): the lock is ours, or another attempt is made, or too
\* many have been made and the lock file is removed, or the caller is told.
\* When stat() fails the lock is not had, and a lock file just linked stays.
Stat(p) ==
  LET m == mutt[p]
  IN /\ At(p, "stat")
     /\ \/ IF Linked(p) THEN Go(p, "held") /\ UNCHANGED lockfile
           ELSE IF m.count < Retry(p)
             THEN Leave(p, [m EXCEPT !.at = "link", !.count = @ + 1]) /\ UNCHANGED lockfile
           ELSE IF m.force
             THEN Leave(p, [m EXCEPT !.at = "link", !.count = 0]) /\ lockfile' = NoLock
           ELSE /\ IF m.call = "unlink" \/ ~m.retry THEN Leave(p, Without(p)) ELSE Go(p, "ask")
                /\ UNCHANGED lockfile
        \/ /\ Crash
           /\ Leave(p, Without(p))
           /\ lockfile' = IF lockfile = p THEN StaleLock ELSE lockfile
     /\ UNCHANGED <<mailbox, files, fcntl, agent, mail>>

\* dotlock_file(): "Lock count exceeded, remove lock for %s?"
Ask(p) ==
  /\ At(p, "ask")
  /\ \/ Leave(p, Without(p))
     \/ Breaking /\ Leave(p, [mutt[p] EXCEPT !.at = "prepare", !.retry = FALSE, !.force = TRUE])
  /\ UNCHANGED <<mailbox, files, lockfile, fcntl, agent, mail>>
------------------------------------------------------------------------------
(***************************************************************************)
(* What is done with the lock.                                             *)
(***************************************************************************)
Then(p, rc) == [mutt[p] EXCEPT !.at = "unfcntl", !.rc = rc]

\* A killed mutt leaves its lock file behind.
Killed(p) ==
  /\ Leave(p, Fresh)
  /\ fcntl' = {l \in fcntl : l.proc # p}
  /\ lockfile' = IF lockfile = p THEN StaleLock ELSE lockfile

\* mbox_open_mailbox() parses the file.
Parse(p) ==
  /\ At(p, "held") /\ In(p, {"open"})
  /\ Leave(p, [Then(p, "ok") EXCEPT !.seen = files[mutt[p].fd]])
  /\ UNCHANGED <<mailbox, files, lockfile, fcntl, agent, mail>>

\* mbox_check_mailbox() under the lock, with rc for its caller: messages were
\* appended, or else the mailbox is reopened, which drops the fcntl() lock.
\* If there is none any more, mbox_unlock_mailbox() uses a ctx->fp that is NULL.
LookAgain(p, rc) ==
  IF mutt[p].seen \subseteq files[mutt[p].fd]
    THEN /\ Leave(p, [Then(p, rc) EXCEPT !.seen = files[mutt[p].fd]])
         /\ UNCHANGED <<fcntl, lockfile>>
  ELSE IF mailbox # NoFile
    THEN /\ Leave(p, Reopened(Then(p, rc)))
         /\ fcntl' = WithoutLocks(p, mutt[p].fd)
         /\ UNCHANGED lockfile
  ELSE Killed(p)

CheckLocked(p) ==
  /\ At(p, "held") /\ In(p, {"check"})
  /\ LookAgain(p, "ok")
  /\ UNCHANGED <<mailbox, files, agent, mail>>

\* mutt_copy_message() and mbox_commit_message()
AppendLocked(p) ==
  /\ At(p, "held") /\ In(p, {"append"})
  /\ IF arrived < MaxMsgs
       THEN /\ arrived' = arrived + 1
            /\ files' = [files EXCEPT ![mutt[p].fd] = @ \cup {arrived + 1}]
            /\ delivered' = delivered \cup {arrived + 1}
       ELSE UNCHANGED <<arrived, files, delivered>>
  /\ Leave(p, Then(p, "ok"))
  /\ UNCHANGED <<mailbox, lockfile, fcntl, agent, purged>>

\* Mutant: the mailbox is written without looking at it again.
SyncLocked_Blind(p) ==
  /\ At(p, "held") /\ In(p, {"sync", "close"})
  /\ Go(p, "write")
  /\ UNCHANGED <<mailbox, files, lockfile, fcntl, agent, mail>>

\* mbox_sync_mailbox() has the lock and checks the mailbox.
SyncLocked(p) ==
  /\ At(p, "held") /\ In(p, {"sync", "close"})
  /\ IF mailbox = NoFile
       THEN Leave(p, Then(p, "fatal")) /\ UNCHANGED <<lockfile, fcntl>>
     ELSE IF Content = mutt[p].seen
       THEN Go(p, "write") /\ UNCHANGED <<lockfile, fcntl>>
     ELSE LookAgain(p, "bail")
  /\ UNCHANGED <<mailbox, files, agent, mail>>

\* It writes what is not deleted over the old contents, or gives up.  Writing
\* may fail in the middle, or mutt be killed then: part of the mail is left.
SyncWrite(p) ==
  LET m == mutt[p]
  IN /\ At(p, "write")
     /\ \/ /\ Leave(p, Then(p, "bail"))
           /\ UNCHANGED <<files, purged>>
        \/ /\ Crash /\ mailbox # NoFile
           /\ \E left \in SUBSET m.seen : files' = [files EXCEPT ![m.fd] = left]
           /\ purged' = purged \cup m.del
           /\ Leave(p, Then(p, "fatal"))
        \/ /\ mailbox # NoFile
           /\ files' = [files EXCEPT ![m.fd] = m.seen \ m.del]
           /\ purged' = purged \cup m.del
           /\ Leave(p, [Then(p, "ok") EXCEPT !.seen = @ \ m.del])
     /\ UNCHANGED <<mailbox, lockfile, fcntl, agent, arrived, delivered>>

\* Mutant: dotlock_unlink() does not look at the size of the file.
UnlinkEmpty_Any(p) ==
  /\ At(p, "held") /\ In(p, {"unlink"})
  /\ mailbox' = NoFile
  /\ Go(p, "undotlock")
  /\ UNCHANGED <<files, lockfile, fcntl, agent, mail>>

\* dotlock_unlink(): the path is removed if what it names is empty.
UnlinkEmpty(p) ==
  /\ At(p, "held") /\ In(p, {"unlink"})
  /\ mailbox' = IF Content = {} THEN NoFile ELSE mailbox
  /\ Go(p, "undotlock")
  /\ UNCHANGED <<files, lockfile, fcntl, agent, mail>>
------------------------------------------------------------------------------
(***************************************************************************)
(* mx_unlock_file(), and the end of the call.                              *)
(***************************************************************************)
\* Mutant: a call that gives up returns the fcntl() lock only.
FcntlUnlock_Only(p) ==
  /\ At(p, "unfcntl")
  /\ fcntl' = WithoutLocks(p, mutt[p].fd)
  /\ Go(p, IF mutt[p].rc # "ok" \/ In(p, {"unlink"}) THEN "end" ELSE "undotlock")
  /\ UNCHANGED <<mailbox, files, lockfile, agent, mail>>

FcntlUnlock(p) ==
  /\ At(p, "unfcntl")
  /\ fcntl' = WithoutLocks(p, mutt[p].fd)
  /\ Go(p, IF mutt[p].rc = "nolock" \/ In(p, {"unlink"}) THEN "end" ELSE "undotlock")
  /\ UNCHANGED <<mailbox, files, lockfile, agent, mail>>

\* dotlock_unlock() removes the lock file by its name; dotlock_prepare() comes
\* before it, except in dotlock_unlink().
Undotlock(p) ==
  /\ At(p, "undotlock")
  /\ lockfile' = IF In(p, {"unlink"}) \/ Named(p) THEN NoLock
                 ELSE IF lockfile = p THEN StaleLock ELSE lockfile
  /\ Go(p, IF In(p, {"unlink"}) THEN "unfcntl" ELSE "end")
  /\ UNCHANGED <<mailbox, files, fcntl, agent, mail>>

\* Without a lock a mailbox is read all the same, but read-only.
EndOpen(p) ==
  /\ At(p, "end") /\ In(p, {"open"})
  /\ LET m == [mutt[p] EXCEPT !.at = "idle"]
     IN Leave(p, IF m.rc = "nolock" THEN [m EXCEPT !.readonly = TRUE, !.seen = files[m.fd]]
                 ELSE m)
  /\ UNCHANGED <<mailbox, files, lockfile, fcntl, agent, mail>>

EndCheck(p) ==
  /\ At(p, "end") /\ In(p, {"check", "append"})
  /\ Go(p, "idle")
  /\ UNCHANGED <<mailbox, files, lockfile, fcntl, agent, mail>>

\* mbox_sync_mailbox() opens the mailbox again.  One that is empty now is
\* removed: by mx_sync_mailbox() at once, by mx_close_mailbox() under locks.
EndSync(p) ==
  LET m == [mutt[p] EXCEPT !.at = "idle", !.fp = mailbox, !.del = {}]
      emptied == m.rc = "ok" /\ m.seen = {}
  IN /\ At(p, "end") /\ In(p, {"sync", "close"})
     /\ IF mailbox = NoFile \/ m.rc = "fatal"
          THEN Leave(p, Fresh) /\ UNCHANGED mailbox
        ELSE IF emptied /\ m.call = "sync"
          THEN Leave(p, Fresh) /\ mailbox' = NoFile
        ELSE IF emptied
          THEN Leave(p, Call(p, "unlink", mailbox)) /\ UNCHANGED mailbox
        ELSE /\ Leave(p, IF m.call = "close" /\ m.rc = "ok" THEN Fresh ELSE m)
             /\ UNCHANGED mailbox
     /\ UNCHANGED <<files, lockfile, fcntl, agent, mail>>

EndUnlink(p) ==
  /\ At(p, "end") /\ In(p, {"unlink"})
  /\ Leave(p, Fresh)
  /\ UNCHANGED <<mailbox, files, lockfile, fcntl, agent, mail>>
------------------------------------------------------------------------------
(***************************************************************************)
(* Outside mutt.                                                           *)
(***************************************************************************)
Kill(p) ==
  /\ Crash /\ ~At(p, "idle")
  /\ Killed(p)
  /\ UNCHANGED <<mailbox, files, agent, mail>>

AgentLocks ==
  /\ Agent /\ agent = "idle" /\ lockfile = NoLock
  /\ lockfile' = AgentsLock
  /\ agent' = "locked"
  /\ UNCHANGED <<mailbox, files, fcntl, mutt, mail>>

AgentDelivers ==
  /\ agent = "locked" /\ arrived < MaxMsgs
  /\ \/ /\ mailbox # NoFile
        /\ files' = [files EXCEPT ![mailbox] = @ \cup {arrived + 1}]
        /\ UNCHANGED mailbox
     \/ /\ mailbox = NoFile /\ Len(files) < MaxFiles
        /\ files' = Append(files, {arrived + 1})
        /\ mailbox' = Len(files) + 1
  /\ arrived' = arrived + 1
  /\ delivered' = delivered \cup {arrived + 1}
  /\ agent' = "done"
  /\ UNCHANGED <<lockfile, fcntl, mutt, purged>>

AgentUnlocks ==
  /\ agent \in {"locked", "done"}
  /\ lockfile' = NoLock
  /\ agent' = "idle"
  /\ UNCHANGED <<mailbox, files, fcntl, mutt, mail>>
------------------------------------------------------------------------------
Init ==
  /\ mailbox = NoFile /\ files = <<>>
  /\ lockfile = NoLock /\ fcntl = {}
  /\ mutt = [p \in Procs |-> Fresh]
  /\ agent = "idle"
  /\ arrived = 0 /\ delivered = {} /\ purged = {}

Begin(p) == Open(p) \/ Check(p) \/ AppendMessage(p) \/ Sync(p) \/ Quit(p)
Lock(p) == FcntlLock(p) \/ FcntlWait(p) \/ Prepare(p) \/ Link(p) \/ Stat(p) \/ Ask(p)
Work(p) == Parse(p) \/ CheckLocked(p) \/ AppendLocked(p) \/ SyncLocked(p) \/ SyncWrite(p) \/ UnlinkEmpty(p)
Unlock(p) == FcntlUnlock(p) \/ Undotlock(p)
End(p) == EndOpen(p) \/ EndCheck(p) \/ EndSync(p) \/ EndUnlink(p)

Next ==
  \/ \E p \in Procs : Begin(p) \/ Lock(p) \/ Work(p) \/ Unlock(p) \/ End(p) \/ Kill(p)
  \/ AgentLocks \/ AgentDelivers \/ AgentUnlocks

Spec == Init /\ [][Next]_vars
------------------------------------------------------------------------------
TypeOK ==
  /\ files \in Seq(SUBSET Msgs) /\ Len(files) <= MaxFiles
  /\ mailbox \in DOMAIN files \cup {NoFile}
  /\ lockfile \in Procs \cup NotOwners
  /\ fcntl \subseteq [file : Files, proc : Procs, excl : BOOLEAN]
  /\ mutt \in [Procs -> Mutt]
  /\ \A p \in Procs : {mutt[p].fd, mutt[p].fp} \subseteq DOMAIN files \cup {NoFile}
  /\ agent \in {"idle", "locked", "done"}
  /\ arrived \in 0 .. MaxMsgs /\ delivered \subseteq 1 .. arrived /\ purged \subseteq Msgs

\* p was told that it has the lock, and has not begun to return it.
Inside(p) == mutt[p].at \in {"held", "write"}

\* Unless locks are broken, who has the mailbox has linked the lock file, so
\* that no two have it, and the agent has not (dotlock.c returns DL_EX_OK).
DotlockHeld == \A p \in Procs : Inside(p) => lockfile = p

\* Broken locks or not, who may write the mailbox is alone with it.
ExclusiveAccess ==
  \A p, q \in Procs : Inside(p) /\ Inside(q) /\ Excl(p) => p = q

\* Who has the mailbox has the file open that the path names: what it writes
\* does not go to a file that was removed while it waited.
HolderHasMailbox == \A p \in Procs : Inside(p) => mutt[p].fd = mailbox

\* A message whose writer was told that it is in the mailbox stays there until
\* a user deletes it (the rewriting of an mbox is not safe from crashes).
NoMailLost == delivered \ purged \subseteq Content

\* A lock file belongs to a process that is on its way to removing it, unless
\* that process was killed or could not look at what it had linked.
LockIsReturned ==
  /\ lockfile = StaleLock => Crash
  /\ lockfile = AgentsLock => agent # "idle"
  /\ \A p \in Procs :
       lockfile = p => mutt[p].at \in {"stat", "held", "write", "unfcntl", "undotlock"}

\* The lock implements that of SharedLock.
Holders == {p \in Procs : Inside(p)}
Abstract == INSTANCE SharedLock WITH holders <- Holders
ImplementsSharedLock == Abstract!Spec
==============================================================================
