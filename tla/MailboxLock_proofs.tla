-------------------------- MODULE MailboxLock_proofs --------------------------
(***************************************************************************)
(* Proofs about the locks of MailboxLock for any number of mutts, any      *)
(* number of attempts and any number of messages and files.                *)
(***************************************************************************)
EXTENDS MailboxLock, SequenceTheorems, TLAPS

(***************************************************************************)
(* Type correctness.  A step of p gives it a new state m: what makes that  *)
(* state well typed is shown for each action, the rest once.               *)
(***************************************************************************)
Opened == DOMAIN files \cup {NoFile}
WellTyped(m) ==
  /\ m \in Mutt /\ {m.fd, m.fp} \subseteq Opened
  /\ m.at # "idle" => m.fd # NoFile
MuttOK == mutt \in [Procs -> Mutt] /\ \A p \in Procs : WellTyped(mutt[p])
FilesOK == files \in Seq(SUBSET Msgs) /\ Len(files) <= MaxFiles /\ mailbox \in Opened

LEMMA OpenedFiles ==
  ASSUME FilesOK
  PROVE  /\ Opened = 0 .. Len(files) /\ DOMAIN files = 1 .. Len(files)
         /\ Opened \subseteq Files \cup {NoFile} /\ DOMAIN files \subseteq Files
         /\ MaxFiles \in Nat
  BY BoundsAssumption DEF FilesOK, Opened, Files, NoFile

LEMMA ContentTyped ==
  ASSUME FilesOK
  PROVE  Content \in SUBSET Msgs /\ \A f \in DOMAIN files : files[f] \in SUBSET Msgs
<1>1. \A f \in DOMAIN files : files[f] \in SUBSET Msgs BY DEF FilesOK
<1> QED BY <1>1 DEF FilesOK, Content, Opened

LEMMA MoreOpened ==
  ASSUME MuttOK, NEW p \in Procs, NEW m, WellTyped(m), Leave(p, m), Opened \subseteq Opened'
  PROVE  MuttOK'
  BY DEF MuttOK, Leave, WellTyped

\* The updates of a mutt's state, one by one.
LEMMA AtTyped ==
  ASSUME NEW m, WellTyped(m), NEW at \in Places, m.fd # NoFile \/ at = "idle"
  PROVE  WellTyped([m EXCEPT !.at = at])
  BY DEF WellTyped, Mutt

LEMMA ThenTyped ==
  ASSUME NEW m, WellTyped(m), NEW rc \in Results, m.fd # NoFile
  PROVE  WellTyped([m EXCEPT !.at = "unfcntl", !.rc = rc])
  BY DEF WellTyped, Mutt, Places

LEMMA SeenTyped ==
  ASSUME NEW m, WellTyped(m), NEW S \in SUBSET Msgs
  PROVE  WellTyped([m EXCEPT !.seen = S])
  BY DEF WellTyped, Mutt

LEMMA FilesTyped ==
  ASSUME NEW m, WellTyped(m), NEW f \in Opened, NEW g \in Opened, FilesOK,
         m.at # "idle" => g # NoFile
  PROVE  WellTyped([m EXCEPT !.fp = f, !.fd = g])
  BY OpenedFiles DEF WellTyped, Mutt

LEMMA FreshTyped == WellTyped(Fresh)
  BY DEF WellTyped, Mutt, Fresh, Opened, Places, Calls, Results

LEMMA CallTyped ==
  ASSUME NEW m, WellTyped(m), NEW call \in Calls, NEW f \in Opened, f # NoFile, FilesOK
  PROVE  WellTyped([m EXCEPT !.at = "fcntl", !.call = call, !.fd = f, !.count = 0, !.hard = 0,
                             !.prev_sb = {}, !.retry = call # "check", !.force = FALSE, !.rc = "ok"])
<1>1. f \in Files /\ f # NoFile BY OpenedFiles DEF Opened
<1> QED BY <1>1 DEF WellTyped, Mutt, Places, Results

LEMMA MuttTyped ==
  ASSUME MuttOK, NEW p \in Procs
  PROVE  WellTyped(mutt[p])
  BY DEF MuttOK, WellTyped

LEMMA SameFiles ==
  ASSUME FilesOK, UNCHANGED <<mailbox, files>>
  PROVE  FilesOK' /\ Opened' = Opened
  BY DEF FilesOK, Opened

LEMMA Leaves ==
  ASSUME MuttOK, FilesOK, NEW p \in Procs, NEW m, WellTyped(m), Leave(p, m),
         UNCHANGED <<mailbox, files>>
  PROVE  MuttOK' /\ FilesOK'
  BY SameFiles DEF MuttOK, Leave, WellTyped

\* The places a mutt goes to without touching anything else.
LEMMA Goes ==
  ASSUME MuttOK, FilesOK, NEW p \in Procs, NEW at \in Places, Go(p, at),
         mutt[p].at # "idle",
         UNCHANGED <<mailbox, files>>
  PROVE  MuttOK' /\ FilesOK'
<1>1. WellTyped(mutt[p]) /\ mutt[p].fd # NoFile BY MuttTyped DEF WellTyped
<1> QED BY <1>1, AtTyped, Leaves DEF Go

LEMMA BeginTyped ==
  ASSUME MuttOK, FilesOK, NEW p \in Procs, Open(p) \/ Check(p) \/ Sync(p) \/ Quit(p)
  PROVE  MuttOK' /\ FilesOK'
<1> DEFINE m == mutt[p]
<1>1. WellTyped(m) /\ m.at = "idle" /\ UNCHANGED <<mailbox, files>>
  BY MuttTyped DEF Open, Check, Sync, Quit, At
<1>2. m.fp \in Opened /\ m.fd \in Opened /\ mailbox \in Opened
  BY <1>1 DEF WellTyped, FilesOK
<1>3. WellTyped(Fresh) BY FreshTyped
<1>4. ASSUME NEW call \in Calls, NEW f \in Opened, f # NoFile PROVE WellTyped(Call(p, call, f))
  BY <1>1, <1>4, CallTyped DEF Call
<1> HIDE DEF m
<1>5. CASE Open(p)
  <2>1. WellTyped(Call(p, "open", mailbox)) BY <1>2, <1>4, <1>5 DEF Calls, Open
  <2>2. WellTyped([Call(p, "open", mailbox) EXCEPT !.fp = mailbox])
    BY <1>2, <2>1, OpenedFiles DEF WellTyped, Mutt
  <2> QED BY <1>1, <1>5, <2>2, Leaves DEF Open
<1>6. CASE Check(p)
  <2>1. m.fp # NoFile BY <1>6 DEF Check, m
  <2>2. WellTyped(Call(p, "check", mutt[p].fp)) BY <1>2, <1>4, <2>1 DEF Calls, m
  <2>3. WellTyped(Reopened(mutt[p]))
    <3>1. WellTyped([m EXCEPT !.fp = mailbox, !.fd = mailbox]) BY <1>1, <1>2, FilesTyped
    <3>2. WellTyped([[m EXCEPT !.fp = mailbox, !.fd = mailbox] EXCEPT !.seen = Content])
      BY <3>1, SeenTyped, ContentTyped
    <3> QED BY <3>2 DEF Reopened, m
  <2> QED BY <1>1, <1>3, <1>6, <2>2, <2>3, Leaves DEF Check
<1>7. CASE Sync(p)
  <2> PICK del \in SUBSET mutt[p].seen \ {{}}, call \in {"sync", "close"} :
        IF mailbox = NoFile THEN Leave(p, Fresh)
        ELSE Leave(p, [Call(p, call, mailbox) EXCEPT !.fp = mailbox, !.del = del])
    BY <1>7 DEF Sync
  <2>1. CASE mailbox = NoFile BY <1>1, <1>3, <2>1, Leaves
  <2>2. CASE mailbox # NoFile
    <3>1. WellTyped(Call(p, call, mailbox)) BY <1>2, <1>4, <2>2 DEF Calls
    <3>2. del \in SUBSET Msgs BY <1>1 DEF WellTyped, Mutt, m
    <3>3. WellTyped([Call(p, call, mailbox) EXCEPT !.fp = mailbox, !.del = del])
      BY <1>2, <3>1, <3>2, OpenedFiles DEF WellTyped, Mutt
    <3> QED BY <1>1, <2>2, <3>3, Leaves
  <2> QED BY <2>1, <2>2
<1>8. CASE Quit(p) BY <1>1, <1>3, <1>8, Leaves DEF Quit
<1> QED BY <1>5, <1>6, <1>7, <1>8

LEMMA LockTyped ==
  ASSUME MuttOK, FilesOK, NEW p \in Procs, Lock(p)
  PROVE  MuttOK' /\ FilesOK'
<1> DEFINE m == mutt[p]
<1>1. WellTyped(m) /\ m.at # "idle" /\ UNCHANGED <<mailbox, files>>
  BY MuttTyped DEF Lock, FcntlLock, FcntlWait, Prepare, Link, Stat, Ask, At
<1>2. m \in Mutt /\ m.fd \in Opened /\ m.fd # NoFile BY <1>1 DEF WellTyped
<1>3. WellTyped(Without(p)) BY <1>1, <1>2, ThenTyped DEF Without, Results
<1>4. ASSUME NEW at \in Places, NEW n \in Nat, NEW k \in Nat
      PROVE  WellTyped([m EXCEPT !.at = at, !.count = n, !.hard = k])
  BY <1>1, <1>2 DEF WellTyped, Mutt
<1>5. ASSUME NEW at \in Places, NEW n \in Nat
      PROVE  /\ WellTyped([m EXCEPT !.at = at, !.count = n])
             /\ WellTyped([m EXCEPT !.at = at, !.hard = n])
  BY <1>1, <1>2 DEF WellTyped, Mutt
<1>6. m.count \in Nat /\ m.hard \in Nat /\ m.count + 1 \in Nat /\ m.hard + 1 \in Nat
  BY <1>2 DEF Mutt
<1>7. WellTyped([m EXCEPT !.at = "prepare", !.retry = FALSE, !.force = TRUE])
  BY <1>1, <1>2 DEF WellTyped, Mutt, Places
<1>8. CASE FcntlLock(p) BY <1>8, <1>1, Goes DEF FcntlLock, Places
<1>9. CASE FcntlWait(p)
  <2> DEFINE size == files[m.fd]
             n == IF m.count = 0 \/ m.prev_sb = size THEN m.count + 1 ELSE m.count
  <2>1. n \in Nat BY <1>6
  <2>2. size \in SUBSET Msgs BY <1>2, ContentTyped DEF Opened
  <2> HIDE DEF n, size
  <2>3. WellTyped([m EXCEPT !.count = n, !.prev_sb = size])
    BY <1>1, <1>2, <2>1, <2>2 DEF WellTyped, Mutt
  <2> QED BY <1>9, <1>1, <1>3, <2>3, Leaves DEF FcntlWait, n, size
<1> HIDE DEF m
<1>10. CASE Prepare(p)
  <2>1. WellTyped([m EXCEPT !.at = "link", !.count = 0, !.hard = 0]) BY <1>4 DEF Places
  <2> QED BY <1>10, <1>1, <1>3, <2>1, Leaves DEF Prepare, m
<1>11. CASE Link(p)
  <2>1. WellTyped([m EXCEPT !.at = "stat", !.hard = m.hard + 1]) BY <1>5, <1>6 DEF Places
  <2>2. Go(p, "held") \/ Leave(p, [m EXCEPT !.at = "stat", !.hard = m.hard + 1])
    BY <1>11 DEF Link, m
  <2> QED BY <1>1, <2>1, <2>2, Leaves, Goes DEF Places, m
<1>12. CASE Stat(p)
  <2>1. /\ WellTyped([m EXCEPT !.at = "link", !.count = m.count + 1])
        /\ WellTyped([m EXCEPT !.at = "link", !.count = 0])
    BY <1>5, <1>6 DEF Places
  <2>2. \/ Go(p, "held") \/ Go(p, "ask") \/ Leave(p, Without(p))
        \/ Leave(p, [m EXCEPT !.at = "link", !.count = m.count + 1])
        \/ Leave(p, [m EXCEPT !.at = "link", !.count = 0])
    BY <1>12 DEF Stat, m
  <2> QED BY <1>1, <1>3, <2>1, <2>2, Leaves, Goes DEF Places, m
<1>13. CASE Ask(p) BY <1>13, <1>1, <1>3, <1>7, Leaves DEF Ask, m
<1> QED BY <1>8, <1>9, <1>10, <1>11, <1>12, <1>13 DEF Lock

LEMMA LookAgainTyped ==
  ASSUME MuttOK, FilesOK, NEW p \in Procs, NEW rc \in Results, LookAgain(p, rc),
         mutt[p].at # "idle", UNCHANGED <<mailbox, files>>
  PROVE  MuttOK' /\ FilesOK'
<1> DEFINE m == mutt[p]
<1>1. WellTyped(m) /\ m.fd \in DOMAIN files
  BY MuttTyped DEF WellTyped, Opened
<1>2. WellTyped(Then(p, rc)) BY <1>1, ThenTyped DEF Then, WellTyped
<1>3. WellTyped([Then(p, rc) EXCEPT !.seen = files[m.fd]])
  BY <1>1, <1>2, SeenTyped, ContentTyped
<1>4. ASSUME mailbox # NoFile PROVE WellTyped(Reopened(Then(p, rc)))
  <2> DEFINE t == Then(p, rc)
  <2>1. WellTyped(t) BY <1>2
  <2> HIDE DEF t
  <2>2. WellTyped([t EXCEPT !.fp = mailbox, !.fd = mailbox])
    BY <1>4, <2>1, FilesTyped DEF FilesOK
  <2>3. WellTyped([[t EXCEPT !.fp = mailbox, !.fd = mailbox] EXCEPT !.seen = Content])
    BY <2>2, SeenTyped, ContentTyped
  <2>4. Reopened(t) = [[t EXCEPT !.fp = mailbox, !.fd = mailbox] EXCEPT !.seen = Content]
    BY DEF Reopened
  <2> QED BY <2>3, <2>4 DEF t
<1>5. WellTyped(Fresh) BY FreshTyped
<1>6. \/ Leave(p, [Then(p, rc) EXCEPT !.seen = files[m.fd]])
      \/ mailbox # NoFile /\ Leave(p, Reopened(Then(p, rc)))
      \/ Leave(p, Fresh)
  BY DEF LookAgain, Killed
<1> QED BY <1>3, <1>4, <1>5, <1>6, Leaves

LEMMA ReadTyped ==
  ASSUME MuttOK, FilesOK, NEW p \in Procs, Parse(p) \/ CheckLocked(p) \/ SyncLocked(p)
  PROVE  MuttOK' /\ FilesOK'
<1> DEFINE m == mutt[p]
<1>1. WellTyped(m) /\ m.at # "idle" /\ UNCHANGED <<mailbox, files>>
  BY MuttTyped DEF Parse, CheckLocked, SyncLocked, At
<1>2. m.fd \in DOMAIN files BY <1>1 DEF WellTyped, Opened
<1>3. ASSUME NEW rc \in Results PROVE WellTyped(Then(p, rc))
  BY <1>1, ThenTyped DEF Then, WellTyped
<1> HIDE DEF m
<1>4. CASE Parse(p)
  <2>1. WellTyped([Then(p, "ok") EXCEPT !.seen = files[m.fd]])
    BY <1>2, <1>3, SeenTyped, ContentTyped DEF Results
  <2> QED BY <1>1, <1>4, <2>1, Leaves DEF Parse, m
<1>5. CASE CheckLocked(p) BY <1>1, <1>5, LookAgainTyped DEF CheckLocked, Results, m
<1>6. CASE SyncLocked(p)
  <2>1. Leave(p, Then(p, "fatal")) \/ Go(p, "write") \/ LookAgain(p, "bail")
    BY <1>6 DEF SyncLocked
  <2> QED BY <1>1, <1>3, <2>1, Leaves, Goes, LookAgainTyped DEF Places, Results, m
<1> QED BY <1>4, <1>5, <1>6

\* The steps that change a file's contents leave the files the same.
LEMMA Rewrites ==
  ASSUME MuttOK, FilesOK, NEW p \in Procs, NEW m, WellTyped(m), Leave(p, m),
         NEW f \in DOMAIN files, NEW S \in SUBSET Msgs, files' = [files EXCEPT ![f] = S],
         UNCHANGED mailbox
  PROVE  MuttOK' /\ FilesOK'
<1>1. files \in Seq(SUBSET Msgs) /\ f \in 1 .. Len(files) BY OpenedFiles DEF FilesOK
<1>2. files' \in Seq(SUBSET Msgs) /\ Len(files') = Len(files) BY <1>1, ExceptSeq
<1>3. DOMAIN files' = DOMAIN files BY <1>1
<1>4. Opened' = Opened BY <1>3 DEF Opened
<1> QED BY <1>2, <1>4, MoreOpened DEF FilesOK

LEMMA WriteTyped ==
  ASSUME MuttOK, FilesOK, arrived \in 0 .. MaxMsgs, NEW p \in Procs,
         AppendLocked(p) \/ SyncWrite(p)
  PROVE  MuttOK' /\ FilesOK'
<1> DEFINE m == mutt[p]
<1>1. WellTyped(m) /\ m.at # "idle" /\ UNCHANGED mailbox
  BY MuttTyped DEF AppendLocked, SyncWrite, At
<1>2. m.fd \in DOMAIN files /\ files[m.fd] \in SUBSET Msgs
  BY <1>1, ContentTyped DEF WellTyped, Opened
<1>3. ASSUME NEW rc \in Results PROVE WellTyped(Then(p, rc))
  BY <1>1, ThenTyped DEF Then, WellTyped
<1>4. m.seen \ m.del \in SUBSET Msgs BY <1>1 DEF WellTyped, Mutt
<1> HIDE DEF m
<1>5. CASE AppendLocked(p)
  <2>1. Leave(p, Then(p, "ok")) BY <1>5 DEF AppendLocked
  <2>2. CASE arrived < MaxMsgs
    <3>1. files' = [files EXCEPT ![m.fd] = files[m.fd] \cup {arrived + 1}]
      BY <1>5, <2>2 DEF AppendLocked, m
    <3>2. files[m.fd] \cup {arrived + 1} \in SUBSET Msgs
      BY <1>2, <2>2, BoundsAssumption DEF Msgs
    <3> QED BY <1>1, <1>2, <1>3, <2>1, <3>1, <3>2, Rewrites DEF Results
  <2>3. CASE ~(arrived < MaxMsgs)
    <3>1. UNCHANGED files BY <1>5, <2>3 DEF AppendLocked
    <3> QED BY <1>1, <1>3, <2>1, <3>1, Leaves DEF Results
  <2> QED BY <2>2, <2>3
<1>6. CASE SyncWrite(p)
  <2>1. CASE Leave(p, Then(p, "bail")) /\ UNCHANGED files
    BY <1>1, <1>3, <2>1, Leaves DEF Results
  <2>2. CASE /\ files' = [files EXCEPT ![m.fd] = m.seen \ m.del]
             /\ Leave(p, [Then(p, "ok") EXCEPT !.seen = @ \ m.del])
    <3>1. Then(p, "ok").seen = m.seen BY <1>1 DEF Then, WellTyped, Mutt, m
    <3>2. Leave(p, [Then(p, "ok") EXCEPT !.seen = m.seen \ m.del]) BY <2>2, <3>1
    <3>3. WellTyped([Then(p, "ok") EXCEPT !.seen = m.seen \ m.del])
      BY <1>3, <1>4, SeenTyped DEF Results
    <3> QED BY <1>1, <1>2, <1>4, <2>2, <3>2, <3>3, Rewrites
  <2>3. ASSUME NEW left \in SUBSET m.seen, files' = [files EXCEPT ![m.fd] = left],
               Leave(p, Then(p, "fatal"))
        PROVE  MuttOK' /\ FilesOK'
    <3>1. left \in SUBSET Msgs BY <1>1, <2>3 DEF WellTyped, Mutt
    <3> QED BY <1>1, <1>2, <1>3, <2>3, <3>1, Rewrites DEF Results
  <2> QED BY <1>6, <2>1, <2>2, <2>3 DEF SyncWrite, m
<1> QED BY <1>5, <1>6

\* The steps that change what the path names.
LEMMA Renames ==
  ASSUME MuttOK, FilesOK, NEW p \in Procs, NEW m, WellTyped(m), Leave(p, m),
         mailbox' \in {mailbox, NoFile}, UNCHANGED files
  PROVE  MuttOK' /\ FilesOK'
<1>1. Opened' = Opened BY DEF Opened
<1> QED BY <1>1, MoreOpened DEF FilesOK, Opened

LEMMA EndTyped ==
  ASSUME MuttOK, FilesOK, NEW p \in Procs, UnlinkEmpty(p) \/ Unlock(p) \/ End(p)
  PROVE  MuttOK' /\ FilesOK'
<1> DEFINE m == mutt[p]
<1>1. WellTyped(m) /\ m.at # "idle" /\ UNCHANGED files
  BY MuttTyped DEF UnlinkEmpty, Unlock, FcntlUnlock, Undotlock, End, EndOpen, EndCheck, EndSync,
                   EndUnlink, At
<1>2. m \in Mutt /\ m.fd \in DOMAIN files /\ mailbox \in Opened
  BY <1>1 DEF WellTyped, Opened, FilesOK
<1>3. WellTyped(Fresh) BY FreshTyped
<1>4. ASSUME NEW at \in Places PROVE WellTyped([m EXCEPT !.at = at])
  BY <1>1, <1>2, AtTyped DEF WellTyped
<1>5. CASE UnlinkEmpty(p)
  BY <1>1, <1>4, <1>5, Renames DEF UnlinkEmpty, Go, Places
<1>6. CASE Unlock(p)
  <2>1. UNCHANGED mailbox /\ \E at \in Places : Go(p, at)
    BY <1>6 DEF Unlock, FcntlUnlock, Undotlock, Places
  <2> QED BY <1>1, <2>1, Goes
<1>7. CASE EndOpen(p)
  <2> DEFINE i == [m EXCEPT !.at = "idle"]
  <2>1. WellTyped(i) BY <1>4 DEF Places
  <2> HIDE DEF i
  <2>2. WellTyped([i EXCEPT !.readonly = TRUE, !.seen = files[m.fd]])
    BY <1>2, <2>1, ContentTyped DEF WellTyped, Mutt
  <2>3. i.fd = m.fd BY <1>2 DEF Mutt, i
  <2>4. Leave(p, i) \/ Leave(p, [i EXCEPT !.readonly = TRUE, !.seen = files[m.fd]])
    BY <1>7, <2>3 DEF EndOpen, i
  <2> QED BY <1>1, <1>7, <2>1, <2>2, <2>4, Leaves DEF EndOpen
<1>8. CASE EndCheck(p) BY <1>1, <1>8, Goes DEF EndCheck, Places
<1>9. CASE EndSync(p)
  <2> DEFINE i == [m EXCEPT !.at = "idle", !.fp = mailbox, !.del = {}]
  <2>1. WellTyped(i)
    BY <1>1, <1>2, OpenedFiles DEF WellTyped, Mutt, Places
  <2>2. ASSUME mailbox # NoFile PROVE WellTyped(Call(p, "unlink", mailbox))
    BY <1>1, <1>2, <2>2, CallTyped DEF Call, Calls
  <2>3. /\ \/ Leave(p, Fresh) \/ Leave(p, i)
           \/ mailbox # NoFile /\ Leave(p, Call(p, "unlink", mailbox))
        /\ mailbox' \in {mailbox, NoFile}
    BY <1>9 DEF EndSync
  <2> QED BY <1>1, <1>3, <2>1, <2>2, <2>3, Renames
<1>10. CASE EndUnlink(p) BY <1>1, <1>3, <1>10, Leaves DEF EndUnlink
<1> QED BY <1>5, <1>6, <1>7, <1>8, <1>9, <1>10 DEF End

\* A file made by open(O_CREAT), or by the delivery agent.
LEMMA NewFile ==
  ASSUME FilesOK, NEW S \in SUBSET Msgs, Len(files) < MaxFiles,
         files' = Append(files, S), mailbox' = Len(files) + 1
  PROVE  FilesOK' /\ Opened \subseteq Opened' /\ mailbox' # NoFile
<1>1. files \in Seq(SUBSET Msgs) /\ Len(files) \in Nat BY DEF FilesOK
<1>2. /\ files' \in Seq(SUBSET Msgs) /\ Len(files') = Len(files) + 1
  BY <1>1, AppendProperties
<1>3. DOMAIN files = 1 .. Len(files) /\ DOMAIN files' = 1 .. Len(files) + 1
  BY <1>1, <1>2, LenProperties
<1>4. Opened \subseteq Opened' /\ mailbox' \in Opened' /\ mailbox' # NoFile
  BY <1>1, <1>3 DEF Opened, NoFile
<1> QED BY <1>1, <1>2, <1>4, BoundsAssumption DEF FilesOK

LEMMA CreatedTyped ==
  ASSUME FilesOK, Created
  PROVE  FilesOK' /\ Opened \subseteq Opened' /\ mailbox' \in Opened' /\ mailbox' # NoFile
<1>1. CASE mailbox # NoFile /\ UNCHANGED <<mailbox, files>>
  BY <1>1 DEF FilesOK, Opened
<1>2. CASE /\ mailbox = NoFile /\ Len(files) < MaxFiles
           /\ files' = Append(files, {}) /\ mailbox' = Len(files) + 1
  <2>1. {} \in SUBSET Msgs OBVIOUS
  <2>2. FilesOK' /\ Opened \subseteq Opened' /\ mailbox' # NoFile BY <1>2, <2>1, NewFile
  <2> QED BY <2>2 DEF FilesOK
<1> QED BY <1>1, <1>2 DEF Created

\* The process state is typed whatever else happens.
LEMMA ProcessTyped ==
  ASSUME MuttOK, FilesOK, arrived \in 0 .. MaxMsgs, [Next]_vars
  PROVE  MuttOK' /\ FilesOK'
<1>1. ASSUME NEW p \in Procs, AppendMessage(p) PROVE MuttOK' /\ FilesOK'
  <2>1. FilesOK' /\ Opened \subseteq Opened' /\ mailbox' \in Opened' /\ mailbox' # NoFile
    BY <1>1, CreatedTyped DEF AppendMessage
  <2>2. mutt[p] \in Mutt /\ {mutt[p].fd, mutt[p].fp} \subseteq Opened'
    BY <2>1, MuttTyped DEF WellTyped
  <2>3. mailbox' \in Files \cup {NoFile}
    BY <2>1, BoundsAssumption DEF FilesOK, Opened, Files, NoFile
  <2> DEFINE g == mailbox'
  <2>4. Leave(p, Call(p, "append", g)) BY <1>1 DEF AppendMessage
  <2>5. g \in Opened' /\ g \in Files \cup {NoFile} /\ g # NoFile BY <2>1, <2>3
  <2> HIDE DEF g
  <2>6. Call(p, "append", g) \in Mutt
    BY <2>2, <2>5 DEF Call, Mutt, Places, Calls, Results
  <2>7. /\ Call(p, "append", g).fd = g /\ Call(p, "append", g).fp = mutt[p].fp
    BY <2>2 DEF Call, Mutt
  <2>8. \A q \in Procs : mutt'[q] = IF q = p THEN Call(p, "append", g) ELSE mutt[q]
    BY <2>4 DEF Leave, MuttOK
  <2>9. mutt' \in [Procs -> Mutt] BY <2>4, <2>6 DEF Leave, MuttOK
  <2>10. ASSUME NEW q \in Procs PROVE WellTyped(mutt[q])'
    BY <2>1, <2>2, <2>5, <2>6, <2>7, <2>8, MuttTyped DEF WellTyped
  <2> QED BY <2>1, <2>9, <2>10 DEF MuttOK
<1>2. ASSUME NEW p \in Procs, Kill(p) PROVE MuttOK' /\ FilesOK'
  BY <1>2, FreshTyped, Leaves DEF Kill, Killed
<1>3. ASSUME NEW p \in Procs, Work(p) PROVE MuttOK' /\ FilesOK'
  BY <1>3, ReadTyped, WriteTyped, EndTyped DEF Work
<1>4. CASE AgentDelivers
  <2>1. Msgs = 1 .. MaxMsgs /\ arrived + 1 \in Msgs
    BY <1>4, BoundsAssumption DEF AgentDelivers, Msgs
  <2>2. FilesOK' /\ Opened \subseteq Opened'
    <3>1. CASE mailbox # NoFile /\ files' = [files EXCEPT ![mailbox] = @ \cup {arrived + 1}]
                 /\ UNCHANGED mailbox
      <4>1. mailbox \in 1 .. Len(files) /\ mailbox \in DOMAIN files /\ files \in Seq(SUBSET Msgs)
        BY <3>1, OpenedFiles DEF FilesOK, Opened
      <4>2. files[mailbox] \cup {arrived + 1} \in SUBSET Msgs BY <2>1, <4>1, ContentTyped
      <4>3. files' \in Seq(SUBSET Msgs) /\ Len(files') = Len(files)
        BY <3>1, <4>1, <4>2, ExceptSeq
      <4>4. DOMAIN files' = DOMAIN files BY <3>1
      <4> QED BY <3>1, <4>3, <4>4 DEF FilesOK, Opened
    <3>2. CASE mailbox = NoFile /\ Len(files) < MaxFiles
                 /\ files' = Append(files, {arrived + 1}) /\ mailbox' = Len(files) + 1
      BY <2>1, <3>2, NewFile
    <3> QED BY <1>4, <3>1, <3>2 DEF AgentDelivers
  <2>3. UNCHANGED mutt BY <1>4 DEF AgentDelivers
  <2> QED BY <2>2, <2>3 DEF MuttOK, WellTyped
<1>5. CASE UNCHANGED <<mailbox, files, mutt>>
  BY <1>5 DEF MuttOK, FilesOK, WellTyped, Opened
<1>6. CASE Next
  BY <1>1, <1>2, <1>3, <1>4, <1>5, <1>6, BeginTyped, LockTyped, EndTyped
     DEF Next, Begin, AgentLocks, AgentUnlocks
<1> QED BY <1>5, <1>6 DEF vars

LEMMA LocksTyped ==
  ASSUME MuttOK, FilesOK, lockfile \in Procs \cup NotOwners,
         fcntl \subseteq [file : Files, proc : Procs, excl : BOOLEAN], [Next]_vars
  PROVE  /\ lockfile' \in Procs \cup NotOwners
         /\ fcntl' \subseteq [file : Files, proc : Procs, excl : BOOLEAN]
<1> USE DEF NotOwners
<1>1. ASSUME NEW p \in Procs, FcntlLock(p)
      PROVE  fcntl' \subseteq [file : Files, proc : Procs, excl : BOOLEAN]
  <2>1. mutt[p].fd \in Files
    BY <1>1, MuttTyped, OpenedFiles DEF FcntlLock, At, WellTyped, Opened, NoFile
  <2>2. Excl(p) \in BOOLEAN BY DEF Excl
  <2>3. [file |-> mutt[p].fd, proc |-> p, excl |-> Excl(p)]
          \in [file : Files, proc : Procs, excl : BOOLEAN]
    BY <2>1, <2>2
  <2> QED BY <1>1, <2>3 DEF FcntlLock, WithoutLocks
<1>2. ASSUME NEW p \in Procs, LookAgain(p, "ok") \/ LookAgain(p, "bail")
      PROVE  fcntl' \subseteq fcntl /\ lockfile' \in {lockfile, StaleLock}
  BY <1>2 DEF LookAgain, WithoutLocks, Killed
<1>3. ASSUME NEW p \in Procs, Begin(p)
      PROVE  UNCHANGED <<fcntl, lockfile>>
  BY <1>3 DEF Begin, Open, Check, AppendMessage, Sync, Quit
<1>4. ASSUME NEW p \in Procs, Lock(p)
      PROVE  /\ fcntl' = fcntl \/ FcntlLock(p)
             /\ lockfile' \in {lockfile, p, NoLock, StaleLock}
  BY <1>4 DEF Lock, FcntlLock, FcntlWait, Prepare, Link, Stat, Ask
<1>5. ASSUME NEW p \in Procs, Work(p) \/ Unlock(p) \/ End(p) \/ Kill(p)
      PROVE  fcntl' \subseteq fcntl /\ lockfile' \in {lockfile, StaleLock, NoLock}
  <2>1. CASE Work(p)
    BY <1>2, <2>1 DEF Work, Parse, CheckLocked, AppendLocked, SyncLocked, SyncWrite, UnlinkEmpty
  <2>2. CASE Unlock(p) BY <2>2 DEF Unlock, FcntlUnlock, Undotlock, WithoutLocks
  <2>3. CASE End(p) BY <2>3 DEF End, EndOpen, EndCheck, EndSync, EndUnlink
  <2>4. CASE Kill(p) BY <2>4 DEF Kill, Killed
  <2> QED BY <1>5, <2>1, <2>2, <2>3, <2>4
<1>6. CASE AgentLocks \/ AgentDelivers \/ AgentUnlocks
  BY <1>6 DEF AgentLocks, AgentDelivers, AgentUnlocks
<1> QED BY <1>1, <1>3, <1>4, <1>5, <1>6 DEF Next, vars

LEMMA MailTyped ==
  ASSUME MuttOK, FilesOK, arrived \in 0 .. MaxMsgs, delivered \subseteq 1 .. arrived,
         purged \subseteq Msgs, agent \in {"idle", "locked", "done"}, [Next]_vars
  PROVE  /\ arrived' \in 0 .. MaxMsgs /\ delivered' \subseteq 1 .. arrived'
         /\ purged' \subseteq Msgs /\ agent' \in {"idle", "locked", "done"}
<1>1. ASSUME NEW p \in Procs, SyncWrite(p) PROVE purged' \subseteq Msgs /\ UNCHANGED <<arrived, delivered, agent>>
  BY <1>1, MuttTyped DEF SyncWrite, WellTyped, Mutt
<1>2. ASSUME arrived < MaxMsgs, arrived' = arrived + 1, delivered' = delivered \cup {arrived + 1}
      PROVE  arrived' \in 0 .. MaxMsgs /\ delivered' \subseteq 1 .. arrived'
  BY <1>2, BoundsAssumption
<1>3. ASSUME NEW p \in Procs, AppendLocked(p)
      PROVE  arrived' \in 0 .. MaxMsgs /\ delivered' \subseteq 1 .. arrived' /\ UNCHANGED <<purged, agent>>
  BY <1>2, <1>3 DEF AppendLocked
<1>4. CASE AgentDelivers BY <1>2, <1>4 DEF AgentDelivers
<1>5. CASE AgentLocks \/ AgentUnlocks BY <1>5 DEF AgentLocks, AgentUnlocks, mail
<1>6. ASSUME NEW p \in Procs, Begin(p) \/ Lock(p) \/ Unlock(p) \/ End(p) \/ Kill(p)
      PROVE  UNCHANGED <<arrived, delivered, purged, agent>>
  <2>1. CASE Begin(p) BY <2>1 DEF Begin, Open, Check, AppendMessage, Sync, Quit, mail
  <2>2. CASE Lock(p) BY <2>2 DEF Lock, FcntlLock, FcntlWait, Prepare, Link, Stat, Ask, mail
  <2>3. CASE Unlock(p) \/ Kill(p) BY <2>3 DEF Unlock, FcntlUnlock, Undotlock, Kill, mail
  <2>4. CASE End(p) BY <2>4 DEF End, EndOpen, EndCheck, EndSync, EndUnlink, mail
  <2> QED BY <1>6, <2>1, <2>2, <2>3, <2>4
<1>7. ASSUME NEW p \in Procs, Work(p), ~SyncWrite(p), ~AppendLocked(p)
      PROVE  UNCHANGED <<arrived, delivered, purged, agent>>
  BY <1>7 DEF Work, Parse, CheckLocked, SyncLocked, UnlinkEmpty, mail
<1> QED BY <1>1, <1>3, <1>4, <1>5, <1>6, <1>7 DEF Next, Work, vars, mail

\* The inductive form of TypeOK: a mutt in a call has a file open.
Typed ==
  /\ TypeOK
  /\ \A p \in Procs : ~At(p, "idle") => mutt[p].fd # NoFile

LEMMA TypedParts ==
  Typed <=> /\ MuttOK /\ FilesOK
            /\ lockfile \in Procs \cup NotOwners
            /\ fcntl \subseteq [file : Files, proc : Procs, excl : BOOLEAN]
            /\ agent \in {"idle", "locked", "done"}
            /\ arrived \in 0 .. MaxMsgs /\ delivered \subseteq 1 .. arrived /\ purged \subseteq Msgs
  BY DEF Typed, TypeOK, MuttOK, FilesOK, WellTyped, Opened, At

LEMMA InitTyped == Init => Typed
  BY BoundsAssumption DEF Init, Typed, TypeOK, At, Fresh, Mutt, Places, Calls, Results, NoFile,
                          NotOwners

LEMMA StepTyped == Typed /\ [Next]_vars => Typed'
<1> SUFFICES ASSUME Typed, [Next]_vars PROVE Typed' OBVIOUS
<1>1. MuttOK' /\ FilesOK' BY TypedParts, ProcessTyped
<1>2. /\ lockfile' \in Procs \cup NotOwners
      /\ fcntl' \subseteq [file : Files, proc : Procs, excl : BOOLEAN]
  BY TypedParts, LocksTyped
<1>3. /\ arrived' \in 0 .. MaxMsgs /\ delivered' \subseteq 1 .. arrived'
      /\ purged' \subseteq Msgs /\ agent' \in {"idle", "locked", "done"}
  BY TypedParts, MailTyped
<1>4. Files' = Files /\ Msgs' = Msgs BY DEF Files, Msgs
<1> QED BY <1>1, <1>2, <1>3, <1>4 DEF Typed, TypeOK, MuttOK, FilesOK, WellTyped, Opened, At

\* Every state the locks reach is well typed: no call works on a file that
\* is not open, and no message or file number is made up.
THEOREM TypeCorrect == Spec => []TypeOK
<1>1. Typed => TypeOK BY DEF Typed
<1> QED BY <1>1, InitTyped, StepTyped, PTL DEF Spec

(***************************************************************************)
(* The dotlock.  While nobody breaks a lock, the lock file is a mutt's     *)
(* from the link() that gave it the lock to the unlink() that returns it,  *)
(* and a mutt touches no lock file but a free one and its own.  The loop   *)
(* of dotlock_lock() never gets to HARDMAXATTEMPTS, where it would say     *)
(* that it has the lock.                                                   *)
(***************************************************************************)
Owns(p) ==
  \/ mutt[p].at \in {"held", "write", "undotlock"}
  \/ mutt[p].at = "unfcntl" /\ mutt[p].rc # "nolock" /\ mutt[p].call # "unlink"
Attempts(p) ==
  /\ mutt[p].at = "link" => mutt[p].hard = mutt[p].count /\ mutt[p].count <= Retry(p)
  /\ mutt[p].at = "stat" => mutt[p].hard = mutt[p].count + 1 /\ mutt[p].count <= Retry(p)
  /\ ~mutt[p].force
OwnInv ==
  /\ \A p \in Procs : (Owns(p) => lockfile = p) /\ Attempts(p)
  /\ agent # "idle" => lockfile = AgentsLock

LEMMA OneMoves ==
  ASSUME MuttOK, NEW p \in Procs, NEW m, Leave(p, m)
  PROVE  mutt'[p] = m /\ \A q \in Procs : q # p => mutt'[q] = mutt[q]
  BY DEF MuttOK, Leave

LEMMA OneGoes ==
  ASSUME MuttOK, NEW p \in Procs, NEW at, Go(p, at)
  PROVE  /\ mutt'[p] = [mutt[p] EXCEPT !.at = at] /\ mutt'[p].at = at
         /\ \A q \in Procs : q # p => mutt'[q] = mutt[q]
  BY OneMoves DEF Go, MuttOK, WellTyped, Mutt

LEMMA AloneMoves ==
  ASSUME MuttOK, NEW p \in Procs,
         Begin(p) \/ Lock(p) \/ Work(p) \/ Unlock(p) \/ End(p) \/ Kill(p)
  PROVE  \A q \in Procs : q # p => mutt'[q] = mutt[q]
<1>1. ASSUME NEW m, Leave(p, m) PROVE \A q \in Procs : q # p => mutt'[q] = mutt[q]
  BY <1>1, OneMoves
<1>2. CASE Begin(p) BY <1>1, <1>2 DEF Begin, Open, Check, AppendMessage, Sync, Quit
<1>3. CASE Lock(p) BY <1>1, <1>3 DEF Lock, FcntlLock, FcntlWait, Prepare, Link, Stat, Ask, Go
<1>4. CASE Work(p)
  BY <1>1, <1>4 DEF Work, Parse, CheckLocked, LookAgain, AppendLocked, SyncLocked, SyncWrite,
                    UnlinkEmpty, Killed, Go
<1>5. CASE Unlock(p) BY <1>1, <1>5 DEF Unlock, FcntlUnlock, Undotlock, Go
<1>6. CASE End(p) BY <1>1, <1>6 DEF End, EndOpen, EndCheck, EndSync, EndUnlink, Go
<1>7. CASE Kill(p) BY <1>1, <1>7 DEF Kill, Killed
<1> QED BY <1>2, <1>3, <1>4, <1>5, <1>6, <1>7

\* p changes the lock file only if it is free or its own.
LEMMA OwnLockOnly ==
  ASSUME OwnInv, MuttOK, NEW p \in Procs,
         Begin(p) \/ Lock(p) \/ Work(p) \/ Unlock(p) \/ End(p) \/ Kill(p)
  PROVE  lockfile \notin {NoLock, p} => lockfile' = lockfile
<1>1. CASE Begin(p) BY <1>1 DEF Begin, Open, Check, AppendMessage, Sync, Quit
<1>2. CASE Stat(p) BY <1>2 DEF Stat, OwnInv, Attempts
<1>3. CASE Lock(p) /\ ~Stat(p) BY <1>3 DEF Lock, FcntlLock, FcntlWait, Prepare, Link, Ask
<1>4. CASE Work(p)
  BY <1>4 DEF Work, Parse, CheckLocked, LookAgain, AppendLocked, SyncLocked, SyncWrite,
              UnlinkEmpty, Killed
<1>5. CASE Unlock(p) BY <1>5 DEF Unlock, FcntlUnlock, Undotlock, At, OwnInv, Owns
<1>6. CASE End(p) BY <1>6 DEF End, EndOpen, EndCheck, EndSync, EndUnlink
<1>7. CASE Kill(p) BY <1>7 DEF Kill, Killed
<1> QED BY <1>1, <1>2, <1>3, <1>4, <1>5, <1>6, <1>7

\* A state that p does not hold the lock in, and is not in the loop.
LEMMA Idles ==
  ASSUME OwnInv, MuttOK, NEW p \in Procs, NEW m, Leave(p, m),
         m.at \in {"idle", "fcntl", "prepare", "ask", "end"}, ~m.force
  PROVE  ~Owns(p)' /\ Attempts(p)'
  BY OneMoves DEF Owns, Attempts

LEMMA BeginOwn ==
  ASSUME OwnInv, MuttOK, NEW p \in Procs, Begin(p)
  PROVE  ~Owns(p)' /\ Attempts(p)'
<1>1. mutt[p] \in Mutt /\ ~mutt[p].force BY MuttTyped DEF WellTyped, OwnInv, Attempts
<1>2. ASSUME NEW call, NEW f PROVE Call(p, call, f).at = "fcntl" /\ ~Call(p, call, f).force
  BY <1>1 DEF Call, Mutt
<1>3. ASSUME NEW call, NEW f, NEW del
      PROVE  /\ [Call(p, call, f) EXCEPT !.fp = f].at = "fcntl"
             /\ ~[Call(p, call, f) EXCEPT !.fp = f].force
             /\ [Call(p, call, f) EXCEPT !.fp = f, !.del = del].at = "fcntl"
             /\ ~[Call(p, call, f) EXCEPT !.fp = f, !.del = del].force
  BY <1>1 DEF Call, Mutt
<1>4. Fresh.at = "idle" /\ ~Fresh.force BY DEF Fresh
<1>5. Reopened(mutt[p]).at = mutt[p].at /\ ~Reopened(mutt[p]).force BY <1>1 DEF Reopened, Mutt
<1>6. CASE Open(p) BY <1>3, <1>6, Idles DEF Open
<1>7. CASE Check(p) BY <1>2, <1>4, <1>5, <1>7, Idles DEF Check, At
<1>8. CASE AppendMessage(p) BY <1>2, <1>8, Idles DEF AppendMessage
<1>9. CASE Sync(p) BY <1>3, <1>4, <1>9, Idles DEF Sync
<1>10. CASE Quit(p) BY <1>4, <1>10, Idles DEF Quit
<1> QED BY <1>6, <1>7, <1>8, <1>9, <1>10 DEF Begin

LEMMA LockOwn ==
  ASSUME Breaking = FALSE, OwnInv, MuttOK, NEW p \in Procs, Lock(p)
  PROVE  (Owns(p)' => lockfile' = p) /\ Attempts(p)'
<1> DEFINE m == mutt[p]
<1>1. m \in Mutt /\ ~m.force /\ Attempts(p) BY MuttTyped DEF WellTyped, OwnInv, Attempts
<1>2. Without(p).at = "unfcntl" /\ Without(p).rc = "nolock" /\ ~Without(p).force
  BY <1>1 DEF Without, Mutt
<1>3. ASSUME Leave(p, Without(p)) PROVE ~Owns(p)' /\ Attempts(p)'
  BY <1>2, <1>3, OneMoves DEF Owns, Attempts
<1>4. CASE FcntlLock(p)
  <2>1. [m EXCEPT !.at = "prepare"].at = "prepare" /\ ~[m EXCEPT !.at = "prepare"].force
    BY <1>1 DEF Mutt
  <2> QED BY <1>4, <2>1, Idles DEF FcntlLock, Go
<1>5. CASE FcntlWait(p)
  <2>1. ASSUME NEW n, NEW s
        PROVE  [m EXCEPT !.count = n, !.prev_sb = s].at = m.at /\ ~[m EXCEPT !.count = n, !.prev_sb = s].force
    BY <1>1 DEF Mutt
  <2>2. Leave(p, Without(p)) \/ \E n, s : Leave(p, [m EXCEPT !.count = n, !.prev_sb = s])
    BY <1>5 DEF FcntlWait
  <2>3. m.at = "fcntl" BY <1>5 DEF FcntlWait, At
  <2> QED BY <1>3, <2>1, <2>2, <2>3, Idles
<1>6. CASE Prepare(p)
  <2> DEFINE l == [m EXCEPT !.at = "link", !.count = 0, !.hard = 0]
  <2>1. l.at = "link" /\ l.count = 0 /\ l.hard = 0 /\ ~l.force /\ l.retry = m.retry
    BY <1>1 DEF Mutt
  <2>2. Leave(p, l) \/ Leave(p, Without(p)) BY <1>6 DEF Prepare
  <2> HIDE DEF l
  <2>3. ASSUME Leave(p, l) PROVE ~Owns(p)' /\ Attempts(p)'
    BY <2>1, <2>3, OneMoves, AttemptsAssumption DEF Owns, Attempts, Retry
  <2> QED BY <1>3, <2>2, <2>3
<1>7. CASE Link(p)
  <2> DEFINE s == [m EXCEPT !.at = "stat", !.hard = m.hard + 1]
  <2>1. m.at = "link" BY <1>7 DEF Link, At
  <2>2. m.hard = m.count /\ m.count <= Retry(p) /\ m.hard \in Nat
    BY <1>1, <2>1 DEF Attempts, Mutt
  <2>3. m.hard < HARDMAXATTEMPTS BY <2>2, AttemptsAssumption DEF Retry
  <2>4. Leave(p, s) BY <1>7, <2>3 DEF Link
  <2>5. /\ s.at = "stat" /\ s.hard = m.hard + 1 /\ s.count = m.count
        /\ ~s.force /\ s.retry = m.retry
    BY <1>1 DEF Mutt
  <2> HIDE DEF s
  <2> QED BY <2>2, <2>4, <2>5, OneMoves DEF Owns, Attempts, Retry
<1>8. CASE Stat(p)
  <2>1. m.at = "stat" /\ m.hard = m.count + 1 /\ m.count <= Retry(p) /\ m.hard \in Nat /\ m.count \in Nat
    BY <1>1, <1>8 DEF Stat, At, Attempts, Mutt
  <2>0. CASE Leave(p, Without(p)) BY <1>3, <2>0
  <2>2. CASE Linked(p) /\ ~Leave(p, Without(p))
    <3>1. Go(p, "held") /\ lockfile' = p BY <1>8, <2>2 DEF Stat, Linked
    <3>2. ~mutt'[p].force /\ mutt'[p].at = "held" BY <1>1, <3>1, OneGoes DEF Mutt
    <3> QED BY <3>1, <3>2 DEF Attempts
  <2>3. CASE ~Linked(p) /\ m.count < Retry(p) /\ ~Leave(p, Without(p))
    <3> DEFINE l == [m EXCEPT !.at = "link", !.count = m.count + 1]
    <3>1. /\ l.at = "link" /\ l.count = m.count + 1 /\ l.hard = m.hard
          /\ ~l.force /\ l.retry = m.retry
      BY <1>1 DEF Mutt
    <3>2. Leave(p, l) BY <1>8, <2>3 DEF Stat, m
    <3> HIDE DEF l
    <3>3. Retry(p)' = Retry(p) BY <3>1, <3>2, OneMoves DEF Retry
    <3>4. Retry(p) \in Nat BY AttemptsAssumption DEF Retry
    <3> QED BY <2>1, <2>3, <3>1, <3>2, <3>3, <3>4, OneMoves DEF Owns, Attempts
  <2>4. CASE ~Linked(p) /\ ~(m.count < Retry(p))
    <3>1. [m EXCEPT !.at = "ask"].at = "ask" /\ ~[m EXCEPT !.at = "ask"].force
      BY <1>1 DEF Mutt
    <3>2. Leave(p, Without(p)) \/ Leave(p, [m EXCEPT !.at = "ask"])
      BY <1>1, <1>8, <2>4 DEF Stat, Go
    <3> QED BY <1>3, <3>1, <3>2, Idles
  <2> QED BY <2>0, <2>2, <2>3, <2>4
<1>9. CASE Ask(p) BY <1>3, <1>9 DEF Ask
<1> QED BY <1>4, <1>5, <1>6, <1>7, <1>8, <1>9 DEF Lock

\* Who has the lock keeps it while it works.
LEMMA WorkOwn ==
  ASSUME OwnInv, MuttOK, NEW p \in Procs, Work(p)
  PROVE  (Owns(p)' => lockfile' = p) /\ Attempts(p)'
<1>1. mutt[p] \in Mutt /\ ~mutt[p].force BY MuttTyped DEF WellTyped, OwnInv, Attempts
<1>2. lockfile = p
  BY DEF OwnInv, Owns, Work, Parse, CheckLocked, AppendLocked, SyncLocked, SyncWrite, UnlinkEmpty, At
<1>3. ASSUME NEW m, Leave(p, m), lockfile' = lockfile, ~m.force, m.at \notin {"link", "stat"}
      PROVE  (Owns(p)' => lockfile' = p) /\ Attempts(p)'
  BY <1>2, <1>3, OneMoves DEF Attempts
<1>4. ASSUME NEW at, Go(p, at), lockfile' = lockfile, at \notin {"link", "stat"}
      PROVE  (Owns(p)' => lockfile' = p) /\ Attempts(p)'
  <2>1. ~[mutt[p] EXCEPT !.at = at].force /\ [mutt[p] EXCEPT !.at = at].at = at BY <1>1 DEF Mutt
  <2> QED BY <1>3, <1>4, <2>1 DEF Go
<1>5. ASSUME NEW rc, NEW S
      PROVE  /\ Then(p, rc).at = "unfcntl" /\ ~Then(p, rc).force
             /\ [Then(p, rc) EXCEPT !.seen = S].at = "unfcntl"
             /\ ~[Then(p, rc) EXCEPT !.seen = S].force
             /\ Reopened(Then(p, rc)).at = "unfcntl" /\ ~Reopened(Then(p, rc)).force
  BY <1>1 DEF Then, Reopened, Mutt
<1>6. CASE Parse(p) BY <1>3, <1>5, <1>6 DEF Parse
<1>7. ASSUME NEW rc, LookAgain(p, rc)
      PROVE  (Owns(p)' => lockfile' = p) /\ Attempts(p)'
  <2>1. CASE Killed(p)
    <3>1. Fresh.at = "idle" /\ ~Fresh.force BY DEF Fresh
    <3> QED BY <2>1, <3>1, Idles DEF Killed
  <2>2. CASE Leave(p, [Then(p, rc) EXCEPT !.seen = files[mutt[p].fd]]) /\ lockfile' = lockfile
    BY <1>3, <1>5, <2>2
  <2>3. CASE Leave(p, Reopened(Then(p, rc))) /\ lockfile' = lockfile BY <1>3, <1>5, <2>3
  <2> QED BY <1>7, <2>1, <2>2, <2>3 DEF LookAgain
<1>8. CASE CheckLocked(p) BY <1>7, <1>8 DEF CheckLocked
<1>9. CASE AppendLocked(p) BY <1>3, <1>5, <1>9 DEF AppendLocked
<1>10. CASE SyncLocked(p) BY <1>3, <1>4, <1>5, <1>7, <1>10 DEF SyncLocked
<1>11. CASE SyncWrite(p)
  <2>1. ASSUME NEW S, Leave(p, [Then(p, "ok") EXCEPT !.seen = S]), lockfile' = lockfile
        PROVE  (Owns(p)' => lockfile' = p) /\ Attempts(p)'
    BY <1>3, <1>5, <2>1
  <2>2. lockfile' = lockfile
        /\ \/ Leave(p, Then(p, "bail")) \/ Leave(p, Then(p, "fatal"))
           \/ \E S : Leave(p, [Then(p, "ok") EXCEPT !.seen = S])
    BY <1>11 DEF SyncWrite
  <2> QED BY <1>3, <1>5, <2>1, <2>2
<1>12. CASE UnlinkEmpty(p) BY <1>4, <1>12 DEF UnlinkEmpty
<1> QED BY <1>6, <1>8, <1>9, <1>10, <1>11, <1>12 DEF Work

LEMMA EndOwn ==
  ASSUME OwnInv, MuttOK, NEW p \in Procs, Unlock(p) \/ End(p) \/ Kill(p)
  PROVE  (Owns(p)' => lockfile' = p) /\ Attempts(p)'
<1>1. mutt[p] \in Mutt /\ ~mutt[p].force BY MuttTyped DEF WellTyped, OwnInv, Attempts
<1>2. ASSUME NEW at PROVE [mutt[p] EXCEPT !.at = at].at = at /\ ~[mutt[p] EXCEPT !.at = at].force
  BY <1>1 DEF Mutt
<1>3. Fresh.at = "idle" /\ ~Fresh.force BY DEF Fresh
<1>4. ASSUME NEW call, NEW f PROVE Call(p, call, f).at = "fcntl" /\ ~Call(p, call, f).force
  BY <1>1 DEF Call, Mutt
<1>5. CASE FcntlUnlock(p)
  <2>1. CASE Go(p, "end") BY <1>2, <2>1, Idles DEF Go
  <2>2. CASE Go(p, "undotlock") /\ mutt[p].rc # "nolock" /\ mutt[p].call # "unlink"
    <3>1. lockfile' = p BY <1>5, <2>2 DEF FcntlUnlock, OwnInv, Owns, At
    <3>2. mutt'[p] = [mutt[p] EXCEPT !.at = "undotlock"] BY <2>2, OneGoes
    <3>3. mutt'[p].at = "undotlock" /\ ~mutt'[p].force BY <1>1, <3>2 DEF Mutt
    <3> QED BY <3>1, <3>3 DEF Attempts
  <2> QED BY <1>5, <2>1, <2>2 DEF FcntlUnlock, In
<1>6. CASE Undotlock(p)
  <2>1. CASE Go(p, "end") BY <1>2, <2>1, Idles DEF Go
  <2>2. CASE Go(p, "unfcntl") /\ mutt[p].call = "unlink"
    <3>1. mutt'[p] = [mutt[p] EXCEPT !.at = "unfcntl"] BY <2>2, OneGoes
    <3>2. mutt'[p].at = "unfcntl" /\ ~mutt'[p].force /\ mutt'[p].call = "unlink"
      BY <1>1, <2>2, <3>1 DEF Mutt
    <3> QED BY <3>2 DEF Owns, Attempts
  <2> QED BY <1>6, <2>1, <2>2 DEF Undotlock, In
<1>7. CASE EndOpen(p)
  <2> DEFINE i == [mutt[p] EXCEPT !.at = "idle"]
             j == [i EXCEPT !.readonly = TRUE, !.seen = files[i.fd]]
  <2>1. i.at = "idle" /\ ~i.force /\ j.at = "idle" /\ ~j.force BY <1>1 DEF Mutt
  <2>2. Leave(p, i) \/ Leave(p, j) BY <1>7 DEF EndOpen
  <2> HIDE DEF i, j
  <2> QED BY <2>1, <2>2, Idles
<1>8. CASE EndCheck(p) BY <1>2, <1>8, Idles DEF EndCheck, Go
<1>9. CASE EndSync(p)
  <2> DEFINE i == [mutt[p] EXCEPT !.at = "idle", !.fp = mailbox, !.del = {}]
  <2>1. i.at = "idle" /\ ~i.force BY <1>1 DEF Mutt
  <2>2. Leave(p, Fresh) \/ Leave(p, i) \/ Leave(p, Call(p, "unlink", mailbox))
    BY <1>9 DEF EndSync
  <2> QED BY <1>3, <1>4, <2>1, <2>2, Idles
<1>10. CASE EndUnlink(p) BY <1>3, <1>10, Idles DEF EndUnlink
<1>11. CASE Kill(p) BY <1>3, <1>11, Idles DEF Kill, Killed
<1> QED BY <1>5, <1>6, <1>7, <1>8, <1>9, <1>10, <1>11 DEF Unlock, End

LEMMA InitOwn == Init => OwnInv
  BY DEF Init, OwnInv, Owns, Attempts, Fresh

LEMMA StepOwn ==
  ASSUME Breaking = FALSE, Typed, OwnInv, [Next]_vars
  PROVE  OwnInv'
<1>1. MuttOK /\ AgentsLock \notin Procs /\ NoLock \notin Procs /\ NoLock # AgentsLock
  BY TypedParts, ProcsAssumption DEF NotOwners, NoLock, AgentsLock
<1>2. ASSUME NEW p \in Procs,
             Begin(p) \/ Lock(p) \/ Work(p) \/ Unlock(p) \/ End(p) \/ Kill(p)
      PROVE  OwnInv'
  <2>1. (Owns(p)' => lockfile' = p) /\ Attempts(p)'
    BY <1>1, <1>2, BeginOwn, LockOwn, WorkOwn, EndOwn
  <2>2. lockfile \notin {NoLock, p} => lockfile' = lockfile BY <1>1, <1>2, OwnLockOnly
  <2>3. ASSUME NEW q \in Procs, q # p PROVE (Owns(q)' => lockfile' = q) /\ Attempts(q)'
    <3>1. mutt'[q] = mutt[q] BY <1>1, <1>2, <2>3, AloneMoves
    <3>2. (Owns(q)' = Owns(q)) /\ (Attempts(q)' = Attempts(q))
      BY <3>1 DEF Owns, Attempts, Retry
    <3> QED BY <1>1, <2>2, <2>3, <3>2 DEF OwnInv
  <2>4. agent' = agent
    BY <1>2 DEF Begin, Open, Check, AppendMessage, Sync, Quit, Lock, FcntlLock, FcntlWait, Prepare,
                Link, Stat, Ask, Work, Parse, CheckLocked, AppendLocked, SyncLocked, SyncWrite,
                UnlinkEmpty, Unlock, FcntlUnlock, Undotlock, End, EndOpen, EndCheck, EndSync,
                EndUnlink, Kill
  <2>5. agent' # "idle" => lockfile' = AgentsLock BY <1>1, <2>2, <2>4 DEF OwnInv
  <2> QED BY <2>1, <2>3, <2>5 DEF OwnInv
<1>3. CASE AgentLocks \/ AgentDelivers \/ AgentUnlocks \/ UNCHANGED vars
  <2>1. UNCHANGED mutt /\ (lockfile' = lockfile \/ lockfile \notin Procs)
    BY <1>1, <1>3 DEF AgentLocks, AgentDelivers, AgentUnlocks, vars, OwnInv
  <2>2. ASSUME NEW q \in Procs PROVE (Owns(q)' => lockfile' = q) /\ Attempts(q)'
    BY <2>1 DEF OwnInv, Owns, Attempts, Retry
  <2>3. agent' # "idle" => lockfile' = AgentsLock
    BY <1>3 DEF AgentLocks, AgentDelivers, AgentUnlocks, vars, OwnInv
  <2> QED BY <2>2, <2>3 DEF OwnInv
<1> QED BY <1>2, <1>3 DEF Next

\* Whoever has the mailbox has the lock file, however many mutts and attempts
\* there are: dotlock_lock() is right to return DL_EX_OK.
THEOREM DotlockIsHeld ==
  (Breaking = FALSE) /\ Spec => []DotlockHeld
<1> DEFINE Inv == Breaking = FALSE /\ Typed /\ OwnInv
<1>1. (Breaking = FALSE) /\ Init => Inv BY InitTyped, InitOwn
<1>2. Inv /\ [Next]_vars => Inv' BY StepTyped, StepOwn
<1>3. Inv => DotlockHeld BY DEF OwnInv, Owns, DotlockHeld, Inside
<1> QED BY <1>1, <1>2, <1>3, PTL DEF Spec

\* mx_lock_file() and mx_unlock_file() implement a lock that one process has
\* at a time, for as long as nobody breaks a lock.
THEOREM LockImplementsSharedLock ==
  (Breaking = FALSE) /\ Spec => ImplementsSharedLock
<1> DEFINE Inv == Breaking = FALSE /\ Typed /\ OwnInv
<1>1. (Breaking = FALSE) /\ Init => Inv BY InitTyped, InitOwn
<1>2. Inv /\ [Next]_vars => Inv' BY StepTyped, StepOwn
<1>3. Init => Abstract!Init BY DEF Init, Abstract!Init, Holders, Inside, Fresh
<1>4. Inv /\ Inv' /\ [Next]_vars => [Abstract!Next]_Holders
  <2> SUFFICES ASSUME Inv, Inv', [Next]_vars PROVE [Abstract!Next]_Holders OBVIOUS
  <2>1. \A q \in Procs : (q \in Holders => lockfile = q) /\ (q \in Holders' => lockfile' = q)
    BY DEF Holders, Inside, OwnInv, Owns
  <2>2. Holders \subseteq Procs /\ Holders' \subseteq Procs BY DEF Holders
  <2>3. ASSUME NEW p \in Procs, \A q \in Procs : q # p => mutt'[q] = mutt[q]
        PROVE  [Abstract!Next]_Holders
    <3>1. \A q \in Procs : q # p => (q \in Holders <=> q \in Holders')
      BY <2>3 DEF Holders, Inside
    <3>2. CASE p \in Holders <=> p \in Holders'
      <4>1. Holders' = Holders BY <2>2, <3>1, <3>2
      <4> QED BY <4>1
    <3>3. CASE p \in Holders /\ p \notin Holders'
      <4>1. Holders' = Holders \ {p} BY <2>2, <3>1, <3>3
      <4> QED BY <3>3, <4>1 DEF Abstract!Next, Abstract!Release
    <3>4. CASE p \notin Holders /\ p \in Holders'
      <4>1. Holders' = {p} /\ Holders = {} BY <2>1, <2>2, <3>1, <3>4
      <4> QED BY <4>1 DEF Abstract!Next, Abstract!Acquire
    <3> QED BY <3>2, <3>3, <3>4
  <2>4. CASE UNCHANGED mutt BY <2>4 DEF Holders, Inside
  <2>5. CASE \E p \in Procs : Begin(p) \/ Lock(p) \/ Work(p) \/ Unlock(p) \/ End(p) \/ Kill(p)
    BY <2>3, <2>5, AloneMoves, TypedParts
  <2> QED BY <2>4, <2>5 DEF Next, AgentLocks, AgentDelivers, AgentUnlocks, vars
<1> QED BY <1>1, <1>2, <1>3, <1>4, PTL DEF Spec, ImplementsSharedLock, Abstract!Spec

(***************************************************************************)
(* The file.  Broken locks and killed mutts or not, the fcntl() lock keeps *)
(* the path on the file that a mutt has locked and compared with it: the   *)
(* path is only removed by a mutt that has locked the same file for        *)
(* writing.  That needs mx_sync_mailbox() never to find the mailbox empty, *)
(* since it removes the file without a lock.                               *)
(***************************************************************************)
Working == {"link", "stat", "held", "write"}
HasLock(p) == [file |-> mutt[p].fd, proc |-> p, excl |-> Excl(p)] \in fcntl
LeavesMail(m) ==
  /\ m.at \in {"fcntl", "prepare", "ask"} \cup Working => m.seen \ m.del # {}
  /\ m.at \in {"unfcntl", "undotlock", "end"} /\ m.rc = "ok" => m.seen # {}
Holds(p) ==
  /\ mutt[p].at \in Working \cup {"prepare", "ask"} => HasLock(p)
  /\ mutt[p].at \in Working => mutt[p].fd = mailbox
  /\ mutt[p].call = "sync" => LeavesMail(mutt[p])
Sharing == \A k, l \in fcntl : k.file = l.file /\ k.proc # l.proc => ~k.excl
HolderInv == Sharing /\ \A p \in Procs : Holds(p)

Step(p) == Begin(p) \/ Lock(p) \/ Work(p) \/ Unlock(p) \/ End(p) \/ Kill(p)

LEMMA LocksOfOthers ==
  ASSUME NEW p \in Procs, Step(p)
  PROVE  /\ \A l \in fcntl : l.proc # p => l \in fcntl'
         /\ fcntl' \subseteq fcntl \/ FcntlLock(p)
<1>1. CASE Begin(p) BY <1>1 DEF Begin, Open, Check, AppendMessage, Sync, Quit
<1>2. CASE Lock(p) /\ ~FcntlLock(p) BY <1>2 DEF Lock, FcntlWait, Prepare, Link, Stat, Ask
<1>3. CASE FcntlLock(p) BY <1>3 DEF FcntlLock, WithoutLocks
<1>4. CASE Work(p)
  BY <1>4 DEF Work, Parse, CheckLocked, LookAgain, AppendLocked, SyncLocked, SyncWrite,
              UnlinkEmpty, Killed, WithoutLocks
<1>5. CASE Unlock(p) BY <1>5 DEF Unlock, FcntlUnlock, Undotlock, WithoutLocks
<1>6. CASE End(p) BY <1>6 DEF End, EndOpen, EndCheck, EndSync, EndUnlink
<1>7. CASE Kill(p) BY <1>7 DEF Kill, Killed
<1> QED BY <1>1, <1>2, <1>3, <1>4, <1>5, <1>6, <1>7 DEF Step

LEMMA SharingKept ==
  ASSUME HolderInv, NEW p \in Procs, Step(p),
         fcntl \subseteq [file : Files, proc : Procs, excl : BOOLEAN]
  PROVE  Sharing'
<1>1. CASE fcntl' \subseteq fcntl BY <1>1 DEF HolderInv, Sharing
<1>2. CASE FcntlLock(p)
  <2> DEFINE new == [file |-> mutt[p].fd, proc |-> p, excl |-> Excl(p)]
  <2>1. \A l \in fcntl : l.file = mutt[p].fd /\ l.proc # p => ~l.excl /\ ~Excl(p)
    BY <1>2 DEF FcntlLock, Conflicts
  <2>2. new.file = mutt[p].fd /\ new.proc = p /\ new.excl = Excl(p) OBVIOUS
  <2>3. \A l \in fcntl' : l \in fcntl \/ l = new BY <1>2 DEF FcntlLock, WithoutLocks
  <2> HIDE DEF new
  <2> QED BY <2>1, <2>2, <2>3 DEF HolderInv, Sharing
<1> QED BY <1>1, <1>2, LocksOfOthers

\* A sync leaves a mailbox that is not empty where it is.
LEMMA SyncStays ==
  ASSUME SyncEmpties = FALSE, HolderInv, MuttOK, NEW p \in Procs, EndSync(p)
  PROVE  mailbox' = mailbox
<1>1. mutt[p].at = "end" /\ mutt[p] \in Mutt BY MuttTyped DEF EndSync, At, WellTyped
<1>2. mutt[p].call = "sync" /\ mutt[p].rc = "ok" => mutt[p].seen # {}
  BY <1>1 DEF HolderInv, Holds, LeavesMail
<1> DEFINE m == [mutt[p] EXCEPT !.at = "idle", !.fp = mailbox, !.del = {}]
<1>3. m.rc = mutt[p].rc /\ m.seen = mutt[p].seen /\ m.call = mutt[p].call BY <1>1 DEF Mutt
<1> HIDE DEF m
<1>4. mailbox' = mailbox \/ (m.rc = "ok" /\ m.seen = {} /\ m.call = "sync") BY DEF EndSync, m
<1> QED BY <1>2, <1>3, <1>4

\* What the path names does not change under another mutt that works on it.
LEMMA Steady ==
  ASSUME SyncEmpties = FALSE, HolderInv, MuttOK, FilesOK, NEW p \in Procs, Step(p),
         NEW q \in Procs, q # p, mutt[q].at \in Working
  PROVE  mailbox' = mailbox
<1>1. mutt[q].fd = mailbox /\ mailbox # NoFile /\ HasLock(q)
  BY MuttTyped DEF HolderInv, Holds, WellTyped, Working
<1>2. CASE Begin(p) BY <1>1, <1>2 DEF Begin, Open, Check, AppendMessage, Created, Sync, Quit
<1>3. CASE UnlinkEmpty(p)
  <2>1. mutt[p].at = "held" /\ mutt[p].call = "unlink" BY <1>3 DEF UnlinkEmpty, At, In
  <2>2. mutt[p].fd = mailbox /\ HasLock(p) /\ Excl(p)
    BY <2>1 DEF HolderInv, Holds, Working, Excl
  <2> QED BY <1>1, <2>2 DEF HolderInv, Sharing, HasLock
<1>4. CASE EndSync(p) BY <1>4, SyncStays
<1>5. CASE Lock(p) BY <1>5 DEF Lock, FcntlLock, FcntlWait, Prepare, Link, Stat, Ask
<1>6. CASE Work(p) /\ ~UnlinkEmpty(p)
  BY <1>6 DEF Work, Parse, CheckLocked, AppendLocked, SyncLocked, SyncWrite
<1>7. CASE Unlock(p) BY <1>7 DEF Unlock, FcntlUnlock, Undotlock
<1>8. CASE End(p) /\ ~EndSync(p) BY <1>8 DEF End, EndOpen, EndCheck, EndUnlink
<1>9. CASE Kill(p) BY <1>9 DEF Kill
<1> QED BY <1>2, <1>3, <1>4, <1>5, <1>6, <1>7, <1>8, <1>9 DEF Step

\* What p is about to write over the mailbox is what it has seen there.
Sees(p) == mutt[p].at = "write" => mutt[p].seen = Content
Kept(p) == Holds(p)' /\ Sees(p)'

\* p holds no lock in its next state m, or gives it up.
LEMMA Rests ==
  ASSUME MuttOK, NEW p \in Procs, NEW m, Leave(p, m),
         m.at \in {"idle", "fcntl", "unfcntl", "undotlock", "end"},
         m.call = "sync" => LeavesMail(m)
  PROVE  Kept(p)
  BY OneMoves DEF Kept, Sees, Holds, Working

\* p goes on with the lock.
LEMMA Carries ==
  ASSUME MuttOK, NEW p \in Procs, Holds(p), NEW m, Leave(p, m), UNCHANGED <<mailbox, fcntl>>,
         mutt[p].at \in Working \cup {"prepare", "ask"},
         m.at \in Working \cup {"prepare", "ask"},
         m.at \in Working => mutt[p].fd = mailbox,
         m.at = "write" => mutt[p].seen = Content /\ UNCHANGED files,
         m.fd = mutt[p].fd, m.call = mutt[p].call, m.seen = mutt[p].seen, m.del = mutt[p].del
  PROVE  Kept(p)
<1>1. mutt'[p] = m BY OneMoves
<1>2. HasLock(p)' BY <1>1 DEF Holds, HasLock, Excl
<1>3. Sees(p)' BY <1>1 DEF Sees, Content
<1> QED BY <1>1, <1>2, <1>3 DEF Kept, Holds, LeavesMail, Working

LEMMA BeginHolds ==
  ASSUME SyncEmpties = FALSE, MuttOK, NEW p \in Procs, Begin(p)
  PROVE  Kept(p)
<1>1. mutt[p] \in Mutt BY MuttTyped DEF WellTyped
<1>2. ASSUME NEW call, NEW f PROVE Call(p, call, f).at = "fcntl" /\ Call(p, call, f).call = call
  BY <1>1 DEF Call, Mutt
<1>3. Fresh.at = "idle" /\ Fresh.call = "open" BY DEF Fresh
<1>4. CASE Open(p)
  <2>1. /\ [Call(p, "open", mailbox) EXCEPT !.fp = mailbox].at = "fcntl"
        /\ [Call(p, "open", mailbox) EXCEPT !.fp = mailbox].call = "open"
    BY <1>1 DEF Call, Mutt
  <2> QED BY <1>4, <2>1, Rests DEF Open
<1>5. CASE Check(p)
  <2>1. Reopened(mutt[p]).at = "idle" BY <1>1, <1>5 DEF Check, At, Reopened, Mutt
  <2>2. LeavesMail(Reopened(mutt[p])) BY <2>1 DEF LeavesMail, Working
  <2> QED BY <1>2, <1>3, <1>5, <2>1, <2>2, Rests DEF Check
<1>6. CASE AppendMessage(p) BY <1>2, <1>6, Rests DEF AppendMessage
<1>7. CASE Sync(p)
  <2> PICK del \in SUBSET mutt[p].seen \ {{}}, call \in {"sync", "close"} :
        /\ call = "close" \/ del # mutt[p].seen \/ SyncEmpties
        /\ IF mailbox = NoFile THEN Leave(p, Fresh)
           ELSE Leave(p, [Call(p, call, mailbox) EXCEPT !.fp = mailbox, !.del = del])
    BY <1>7 DEF Sync
  <2> DEFINE m == [Call(p, call, mailbox) EXCEPT !.fp = mailbox, !.del = del]
  <2>1. m.at = "fcntl" /\ m.call = call /\ m.del = del /\ m.seen = mutt[p].seen
    BY <1>1 DEF Call, Mutt
  <2>2. Leave(p, Fresh) \/ Leave(p, m) OBVIOUS
  <2> HIDE DEF m
  <2>3. call = "sync" => mutt[p].seen \ del # {} OBVIOUS
  <2>4. m.call = "sync" => LeavesMail(m) BY <2>1, <2>3 DEF LeavesMail
  <2> QED BY <1>3, <2>1, <2>2, <2>4, Rests
<1>8. CASE Quit(p) BY <1>3, <1>8, Rests DEF Quit
<1> QED BY <1>4, <1>5, <1>6, <1>7, <1>8 DEF Begin

LEMMA LockHolds ==
  ASSUME MuttOK, NEW p \in Procs, Holds(p), Lock(p)
  PROVE  Kept(p)
<1> DEFINE m == mutt[p]
<1>1. m \in Mutt BY MuttTyped DEF WellTyped
<1>2. ASSUME Leave(p, Without(p)) PROVE Kept(p)
  <2>1. Without(p).at = "unfcntl" /\ Without(p).rc = "nolock" BY <1>1 DEF Without, Mutt
  <2>2. LeavesMail(Without(p)) BY <2>1 DEF LeavesMail, Working
  <2> QED BY <1>2, <2>1, <2>2, Rests
<1>3. ASSUME NEW at \in Working \cup {"prepare", "ask"}, Go(p, at), UNCHANGED <<mailbox, fcntl>>,
             m.at \in Working \cup {"prepare", "ask"}, at # "write",
             at \in Working => m.fd = mailbox
      PROVE  Kept(p)
  <2> DEFINE n == [m EXCEPT !.at = at]
  <2>1. n.at = at /\ n.fd = m.fd /\ n.call = m.call /\ n.seen = m.seen /\ n.del = m.del
    BY <1>1 DEF Mutt
  <2>2. Leave(p, n) BY <1>3 DEF Go
  <2> HIDE DEF n
  <2> QED BY <1>3, <2>1, <2>2, Carries
<1>4. CASE FcntlLock(p)
  <2>1. mutt'[p] = [m EXCEPT !.at = "prepare"] BY <1>4, OneGoes DEF FcntlLock
  <2>2. /\ mutt'[p].at = "prepare" /\ mutt'[p].fd = m.fd /\ mutt'[p].call = m.call
        /\ mutt'[p].seen = m.seen /\ mutt'[p].del = m.del
    BY <1>1, <2>1 DEF Mutt
  <2>3. HasLock(p)' BY <1>4, <2>2 DEF FcntlLock, HasLock, Excl
  <2>4. m.at = "fcntl" BY <1>4 DEF FcntlLock, At
  <2> QED BY <2>2, <2>3, <2>4 DEF Kept, Sees, Holds, LeavesMail, Working
<1>5. CASE FcntlWait(p)
  <2>1. m.at = "fcntl" BY <1>5 DEF FcntlWait, At
  <2>2. ASSUME NEW n, NEW s, Leave(p, [m EXCEPT !.count = n, !.prev_sb = s]) PROVE Kept(p)
    <3> DEFINE w == [m EXCEPT !.count = n, !.prev_sb = s]
    <3>1. w.at = "fcntl" /\ w.call = m.call /\ w.seen = m.seen /\ w.del = m.del
      BY <1>1, <2>1 DEF Mutt
    <3>2. Leave(p, w) BY <2>2
    <3> HIDE DEF w
    <3>3. w.call = "sync" => LeavesMail(w) BY <2>1, <3>1 DEF Holds, LeavesMail, Working
    <3> QED BY <3>1, <3>2, <3>3, Rests
  <2>3. Leave(p, Without(p)) \/ \E n, s : Leave(p, [m EXCEPT !.count = n, !.prev_sb = s])
    BY <1>5 DEF FcntlWait
  <2> QED BY <1>2, <2>2, <2>3
<1>6. CASE Prepare(p)
  <2> DEFINE l == [m EXCEPT !.at = "link", !.count = 0, !.hard = 0]
  <2>1. l.at = "link" /\ l.fd = m.fd /\ l.call = m.call /\ l.seen = m.seen /\ l.del = m.del
    BY <1>1 DEF Mutt
  <2>2. (Leave(p, l) /\ m.fd = mailbox) \/ Leave(p, Without(p)) BY <1>6 DEF Prepare, Named
  <2>3. m.at = "prepare" /\ UNCHANGED <<mailbox, fcntl>> BY <1>6 DEF Prepare, At
  <2> HIDE DEF l
  <2> QED BY <1>2, <2>1, <2>2, <2>3, Carries DEF Working
<1>7. CASE Link(p)
  <2> DEFINE s == [m EXCEPT !.at = "stat", !.hard = m.hard + 1]
  <2>1. s.at = "stat" /\ s.fd = m.fd /\ s.call = m.call /\ s.seen = m.seen /\ s.del = m.del
    BY <1>1 DEF Mutt
  <2>2. Leave(p, s) \/ Go(p, "held") BY <1>7 DEF Link
  <2>3. m.at = "link" /\ UNCHANGED <<mailbox, fcntl>> /\ m.fd = mailbox
    BY <1>7 DEF Link, At, Holds, Working
  <2> HIDE DEF s
  <2> QED BY <1>3, <2>1, <2>2, <2>3, Carries DEF Working
<1>8. CASE Stat(p)
  <2>1. ASSUME NEW n, Leave(p, [m EXCEPT !.at = "link", !.count = n]) PROVE Kept(p)
    <3> DEFINE l == [m EXCEPT !.at = "link", !.count = n]
    <3>1. l.at = "link" /\ l.fd = m.fd /\ l.call = m.call /\ l.seen = m.seen /\ l.del = m.del
      BY <1>1 DEF Mutt
    <3>2. m.at = "stat" /\ UNCHANGED <<mailbox, fcntl>> /\ m.fd = mailbox
      BY <1>8 DEF Stat, At, Holds, Working
    <3>3. Leave(p, l) BY <2>1
    <3> HIDE DEF l
    <3> QED BY <3>1, <3>2, <3>3, Carries DEF Working
  <2>2. \/ Go(p, "held") \/ Go(p, "ask") \/ Leave(p, Without(p))
        \/ \E n : Leave(p, [m EXCEPT !.at = "link", !.count = n])
    BY <1>8 DEF Stat
  <2>3. m.at = "stat" /\ UNCHANGED <<mailbox, fcntl>> /\ m.fd = mailbox
    BY <1>8 DEF Stat, At, Holds, Working
  <2> QED BY <1>2, <1>3, <2>1, <2>2, <2>3 DEF Working
<1>9. CASE Ask(p)
  <2> DEFINE a == [m EXCEPT !.at = "prepare", !.retry = FALSE, !.force = TRUE]
  <2>1. a.at = "prepare" /\ a.fd = m.fd /\ a.call = m.call /\ a.seen = m.seen /\ a.del = m.del
    BY <1>1 DEF Mutt
  <2>2. Leave(p, a) \/ Leave(p, Without(p)) BY <1>9 DEF Ask
  <2>3. m.at = "ask" /\ UNCHANGED <<mailbox, fcntl>> BY <1>9 DEF Ask, At
  <2> HIDE DEF a
  <2> QED BY <1>2, <2>1, <2>2, <2>3, Carries DEF Working
<1> QED BY <1>4, <1>5, <1>6, <1>7, <1>8, <1>9 DEF Lock

LEMMA WorkHolds ==
  ASSUME MuttOK, NEW p \in Procs, Holds(p), Work(p)
  PROVE  Kept(p)
<1>1. mutt[p] \in Mutt BY MuttTyped DEF WellTyped
<1>2. ASSUME NEW rc, NEW S
      PROVE  /\ Then(p, rc).at = "unfcntl" /\ Then(p, rc).rc = rc /\ Then(p, rc).call = mutt[p].call
             /\ [Then(p, rc) EXCEPT !.seen = S].at = "unfcntl"
             /\ [Then(p, rc) EXCEPT !.seen = S].rc = rc
             /\ [Then(p, rc) EXCEPT !.seen = S].call = mutt[p].call
             /\ [Then(p, rc) EXCEPT !.seen = S].seen = S
             /\ Reopened(Then(p, rc)).at = "unfcntl" /\ Reopened(Then(p, rc)).rc = rc
             /\ Reopened(Then(p, rc)).call = mutt[p].call
  BY <1>1 DEF Then, Reopened, Mutt
<1>3. ASSUME NEW m, Leave(p, m), m.at = "unfcntl", m.call # "sync" \/ m.rc # "ok" PROVE Kept(p)
  <2>1. m.call = "sync" => LeavesMail(m) BY <1>3 DEF LeavesMail, Working
  <2> QED BY <1>3, <2>1, Rests
<1>4. CASE Parse(p)
  <2> DEFINE m == [Then(p, "ok") EXCEPT !.seen = files[mutt[p].fd]]
  <2>1. Leave(p, m) BY <1>4 DEF Parse
  <2>2. m.at = "unfcntl" /\ m.call = mutt[p].call BY <1>2
  <2>3. mutt[p].call # "sync" BY <1>4 DEF Parse, In
  <2> HIDE DEF m
  <2> QED BY <1>3, <2>1, <2>2, <2>3
<1>5. ASSUME NEW rc, rc # "ok" \/ mutt[p].call # "sync", LookAgain(p, rc) PROVE Kept(p)
  <2>1. CASE Killed(p)
    <3>1. Fresh.at = "idle" /\ Fresh.call = "open" BY DEF Fresh
    <3> QED BY <2>1, <3>1, Rests DEF Killed
  <2>2. CASE Leave(p, [Then(p, rc) EXCEPT !.seen = files[mutt[p].fd]]) 
    <3> DEFINE m == [Then(p, rc) EXCEPT !.seen = files[mutt[p].fd]]
    <3>1. m.at = "unfcntl" /\ m.call = mutt[p].call /\ m.rc = rc BY <1>2
    <3>2. Leave(p, m) BY <2>2
    <3> HIDE DEF m
    <3> QED BY <1>3, <1>5, <3>1, <3>2
  <2>3. CASE Leave(p, Reopened(Then(p, rc))) BY <1>2, <1>3, <1>5, <2>3
  <2> QED BY <1>5, <2>1, <2>2, <2>3 DEF LookAgain
<1>6. CASE CheckLocked(p) BY <1>5, <1>6 DEF CheckLocked, In
<1>7. CASE AppendLocked(p) BY <1>2, <1>3, <1>7 DEF AppendLocked, In
<1>8. CASE SyncLocked(p)
  <2>1. CASE Leave(p, Then(p, "fatal")) BY <1>2, <1>3, <2>1
  <2>2. CASE Go(p, "write") /\ Content = mutt[p].seen
             /\ UNCHANGED <<mailbox, files, fcntl>>
    <3> DEFINE n == [mutt[p] EXCEPT !.at = "write"]
    <3>1. /\ n.at = "write" /\ n.fd = mutt[p].fd /\ n.call = mutt[p].call
          /\ n.seen = mutt[p].seen /\ n.del = mutt[p].del
      BY <1>1 DEF Mutt
    <3>2. Leave(p, n) BY <2>2 DEF Go
    <3>3. mutt[p].at = "held" /\ mutt[p].fd = mailbox BY <1>8 DEF SyncLocked, At, Holds, Working
    <3> HIDE DEF n
    <3> QED BY <2>2, <3>1, <3>2, <3>3, Carries DEF Working
  <2>3. CASE LookAgain(p, "bail") BY <1>5, <2>3
  <2> QED BY <1>8, <2>1, <2>2, <2>3 DEF SyncLocked
<1>9. CASE SyncWrite(p)
  <2>1. CASE Leave(p, Then(p, "bail")) \/ Leave(p, Then(p, "fatal")) BY <1>2, <1>3, <2>1
  <2>2. CASE Leave(p, [Then(p, "ok") EXCEPT !.seen = @ \ mutt[p].del])
    <3>1. mutt[p].at = "write" BY <1>9 DEF SyncWrite, At
    <3>2. mutt[p].call = "sync" => mutt[p].seen \ mutt[p].del # {}
      BY <3>1 DEF Holds, LeavesMail, Working
    <3>3. Then(p, "ok").seen = mutt[p].seen BY <1>1 DEF Then, Mutt
    <3> DEFINE S == mutt[p].seen \ mutt[p].del
               m == [Then(p, "ok") EXCEPT !.seen = S]
    <3>4. Leave(p, m) BY <2>2, <3>3
    <3>5. m.at = "unfcntl" /\ m.call = mutt[p].call /\ m.seen = S BY <1>2
    <3> HIDE DEF m
    <3>6. m.call = "sync" => LeavesMail(m) BY <3>2, <3>5 DEF LeavesMail, Working
    <3> QED BY <3>4, <3>5, <3>6, Rests
  <2> QED BY <1>9, <2>1, <2>2 DEF SyncWrite
<1>10. CASE UnlinkEmpty(p)
  <2> DEFINE m == [mutt[p] EXCEPT !.at = "undotlock"]
  <2>1. m.at = "undotlock" /\ m.call = "unlink" BY <1>1, <1>10 DEF UnlinkEmpty, In, Mutt
  <2>2. Leave(p, m) BY <1>10 DEF UnlinkEmpty, Go
  <2> HIDE DEF m
  <2> QED BY <2>1, <2>2, Rests
<1> QED BY <1>4, <1>6, <1>7, <1>8, <1>9, <1>10 DEF Work

LEMMA EndHolds ==
  ASSUME MuttOK, NEW p \in Procs, Holds(p), Unlock(p) \/ End(p) \/ Kill(p)
  PROVE  Kept(p)
<1>1. mutt[p] \in Mutt BY MuttTyped DEF WellTyped
<1>2. Fresh.at = "idle" /\ Fresh.call = "open" BY DEF Fresh
<1>3. ASSUME NEW m, Leave(p, m), m.at = "idle" PROVE Kept(p)
  <2>1. LeavesMail(m) BY <1>3 DEF LeavesMail, Working
  <2> QED BY <1>3, <2>1, Rests
<1>4. CASE Unlock(p)
  <2> DEFINE n(at) == [mutt[p] EXCEPT !.at = at]
  <2>1. \E at \in {"end", "undotlock", "unfcntl"} : Leave(p, n(at))
    BY <1>4 DEF Unlock, FcntlUnlock, Undotlock, Go
  <2>2. PICK at \in {"end", "undotlock", "unfcntl"} : Leave(p, n(at)) BY <2>1
  <2> DEFINE m == n(at)
  <2>3. m.at = at /\ m.call = mutt[p].call /\ m.rc = mutt[p].rc /\ m.seen = mutt[p].seen
    BY <1>1 DEF Mutt
  <2>4. Leave(p, m) BY <2>2
  <2> HIDE DEF m
  <2>5. mutt[p].at \in {"undotlock", "unfcntl"} BY <1>4 DEF Unlock, FcntlUnlock, Undotlock, At
  <2>6. m.call = "sync" => LeavesMail(m) BY <2>3, <2>5 DEF LeavesMail, Holds, Working
  <2> QED BY <2>3, <2>4, <2>6, Rests
<1>5. CASE EndOpen(p)
  <2> DEFINE i == [mutt[p] EXCEPT !.at = "idle"]
             j == [i EXCEPT !.readonly = TRUE, !.seen = files[i.fd]]
  <2>1. i.at = "idle" /\ j.at = "idle" BY <1>1 DEF Mutt
  <2>2. Leave(p, i) \/ Leave(p, j) BY <1>5 DEF EndOpen
  <2> HIDE DEF i, j
  <2> QED BY <1>3, <2>1, <2>2
<1>6. CASE EndCheck(p)
  <2>1. [mutt[p] EXCEPT !.at = "idle"].at = "idle" BY <1>1 DEF Mutt
  <2> QED BY <1>3, <1>6, <2>1 DEF EndCheck, Go
<1>7. CASE EndSync(p)
  <2> DEFINE i == [mutt[p] EXCEPT !.at = "idle", !.fp = mailbox, !.del = {}]
  <2>1. i.at = "idle" BY <1>1 DEF Mutt
  <2>2. Leave(p, Fresh) \/ Leave(p, i) \/ Leave(p, Call(p, "unlink", mailbox))
    BY <1>7 DEF EndSync
  <2>3. Call(p, "unlink", mailbox).at = "fcntl" /\ Call(p, "unlink", mailbox).call = "unlink"
    BY <1>1 DEF Call, Mutt
  <2> HIDE DEF i
  <2> QED BY <1>2, <1>3, <2>1, <2>2, <2>3, Rests
<1>8. CASE EndUnlink(p) BY <1>2, <1>3, <1>8 DEF EndUnlink
<1>9. CASE Kill(p) BY <1>2, <1>3, <1>9 DEF Kill, Killed
<1> QED BY <1>4, <1>5, <1>6, <1>7, <1>8, <1>9 DEF End

LEMMA InitHolder == Init => HolderInv
  BY DEF Init, HolderInv, Sharing, Holds, Fresh, Working

LEMMA StepHolder ==
  ASSUME SyncEmpties = FALSE, Typed, HolderInv, [Next]_vars
  PROVE  HolderInv'
<1>1. MuttOK /\ FilesOK /\ fcntl \subseteq [file : Files, proc : Procs, excl : BOOLEAN]
  BY TypedParts
<1>2. ASSUME NEW p \in Procs, Step(p) PROVE HolderInv'
  <2>1. Holds(p)' BY <1>1, <1>2, BeginHolds, LockHolds, WorkHolds, EndHolds
    DEF Step, HolderInv, Kept
  <2>2. ASSUME NEW q \in Procs, q # p PROVE Holds(q)'
    <3>1. mutt'[q] = mutt[q] BY <1>1, <1>2, <2>2, AloneMoves DEF Step
    <3>2. HasLock(q) => HasLock(q)'
      <4>1. Excl(q)' = Excl(q) BY <3>1 DEF Excl
      <4>2. \A l \in fcntl : l.proc # p => l \in fcntl' BY <1>2, LocksOfOthers
      <4>3. [file |-> mutt[q].fd, proc |-> q, excl |-> Excl(q)].proc # p BY <2>2
      <4> QED BY <3>1, <4>1, <4>2, <4>3 DEF HasLock
    <3>3. mutt[q].at \in Working => mailbox' = mailbox BY <1>1, <1>2, <2>2, Steady
    <3>4. Holds(q) BY DEF HolderInv
    <3> QED BY <3>1, <3>2, <3>3, <3>4 DEF Holds, LeavesMail, Working
  <2>3. Sharing' BY <1>1, <1>2, SharingKept
  <2> QED BY <2>1, <2>2, <2>3 DEF HolderInv
<1>3. CASE AgentLocks \/ AgentDelivers \/ AgentUnlocks \/ UNCHANGED vars
  <2>1. UNCHANGED <<mutt, fcntl>> /\ (mailbox' = mailbox \/ mailbox = NoFile)
    BY <1>3 DEF AgentLocks, AgentDelivers, AgentUnlocks, vars
  <2>2. ASSUME NEW q \in Procs PROVE Holds(q)'
    <3>1. mutt[q].at \in Working => mutt[q].fd # NoFile
      BY <1>1, MuttTyped DEF WellTyped, Working
    <3> QED BY <2>1, <3>1 DEF HolderInv, Holds, HasLock, Excl, LeavesMail, Working
  <2>3. Sharing' BY <2>1 DEF HolderInv, Sharing
  <2> QED BY <2>2, <2>3 DEF HolderInv
<1> QED BY <1>2, <1>3 DEF Next, Step

\* Who works on the mailbox works on the file that the path names, even with
\* locks broken and mutts killed: no mail is written to an unlinked file.
THEOREM HolderKeepsMailbox ==
  (SyncEmpties = FALSE) /\ Spec => []HolderHasMailbox
<1> DEFINE Inv == SyncEmpties = FALSE /\ Typed /\ HolderInv
<1>1. (SyncEmpties = FALSE) /\ Init => Inv BY InitTyped, InitHolder
<1>2. Inv /\ [Next]_vars => Inv' BY StepTyped, StepHolder
<1>3. Inv => HolderHasMailbox BY DEF HolderInv, Holds, HolderHasMailbox, Inside, Working
<1> QED BY <1>1, <1>2, <1>3, PTL DEF Spec

\* Who may write the mailbox is alone with it, even with locks broken: the
\* fcntl() lock alone keeps mutts apart.
THEOREM WriterIsAlone ==
  (SyncEmpties = FALSE) /\ Spec => []ExclusiveAccess
<1> DEFINE Inv == SyncEmpties = FALSE /\ Typed /\ HolderInv
<1>1. (SyncEmpties = FALSE) /\ Init => Inv BY InitTyped, InitHolder
<1>2. Inv /\ [Next]_vars => Inv' BY StepTyped, StepHolder
<1>3. Inv => ExclusiveAccess
  <2> SUFFICES ASSUME Inv, NEW p \in Procs, NEW q \in Procs, Inside(p), Inside(q), Excl(p), p # q
               PROVE  FALSE
    BY DEF ExclusiveAccess
  <2>1. HasLock(p) /\ HasLock(q) /\ mutt[p].fd = mailbox /\ mutt[q].fd = mailbox
    BY DEF HolderInv, Holds, Inside, Working
  <2> QED BY <2>1 DEF HolderInv, Sharing, HasLock
<1> QED BY <1>1, <1>2, <1>3, PTL DEF Spec

(***************************************************************************)
(* The mail.  What a mutt is about to write over the mailbox is what it    *)
(* has seen there under the lock, less what its user deleted: nothing can  *)
(* be delivered in between, by anyone who takes the locks.                 *)
(***************************************************************************)
MailInv ==
  /\ NoMailLost
  /\ \A p \in Procs : Sees(p)
Safe == Breaking = FALSE /\ SyncEmpties = FALSE /\ Typed /\ OwnInv /\ HolderInv

\* Only who has the lock changes what is in the mailbox.
LEMMA OthersLeaveContent ==
  ASSUME Safe, NEW p \in Procs, Step(p), NEW q \in Procs, q # p, mutt[q].at = "write"
  PROVE  Content' = Content
<1>1. lockfile = q /\ mutt[q].fd = mailbox /\ mailbox # NoFile
  BY TypedParts, MuttTyped DEF Safe, OwnInv, Owns, HolderInv, Holds, Working, WellTyped
<1>2. mutt[p].at \notin {"held", "write"} BY <1>1 DEF Safe, OwnInv, Owns
<1>3. mailbox' = mailbox BY TypedParts, Steady DEF Safe, Working
<1>4. ~Work(p)
  BY <1>2 DEF Work, Parse, CheckLocked, AppendLocked, SyncLocked, SyncWrite, UnlinkEmpty, At
<1>5. files' = files
  <2>1. CASE Begin(p) BY <1>1, <2>1 DEF Begin, Open, Check, AppendMessage, Created, Sync, Quit
  <2>2. CASE Lock(p) BY <2>2 DEF Lock, FcntlLock, FcntlWait, Prepare, Link, Stat, Ask
  <2>3. CASE Unlock(p) \/ Kill(p) BY <2>3 DEF Unlock, FcntlUnlock, Undotlock, Kill
  <2>4. CASE End(p) BY <2>4 DEF End, EndOpen, EndCheck, EndSync, EndUnlink
  <2> QED BY <1>4, <2>1, <2>2, <2>3, <2>4 DEF Step
<1> QED BY <1>3, <1>5 DEF Content

LEMMA KeptMail ==
  ASSUME NoMailLost, Content \subseteq Content', delivered' = delivered, purged' = purged
  PROVE  NoMailLost'
  BY DEF NoMailLost

LEMMA BeginKeeps ==
  ASSUME FilesOK, NoMailLost, NEW p \in Procs, Begin(p) \/ Lock(p) \/ Unlock(p) \/ Kill(p)
  PROVE  NoMailLost'
<1>1. CASE AppendMessage(p)
  <2>1. Content \subseteq Content' BY <1>1 DEF AppendMessage, Created, Content
  <2> QED BY <1>1, <2>1, KeptMail DEF AppendMessage, mail
<1>2. CASE UNCHANGED <<mailbox, files, mail>> BY <1>2 DEF Content, mail, NoMailLost
<1>3. Begin(p) /\ ~AppendMessage(p) => UNCHANGED <<mailbox, files, mail>>
  BY DEF Begin, Open, Check, Sync, Quit
<1>4. Lock(p) => UNCHANGED <<mailbox, files, mail>>
  BY DEF Lock, FcntlLock, FcntlWait, Prepare, Link, Stat, Ask
<1>5. Unlock(p) \/ Kill(p) => UNCHANGED <<mailbox, files, mail>>
  BY DEF Unlock, FcntlUnlock, Undotlock, Kill
<1> QED BY <1>1, <1>2, <1>3, <1>4, <1>5

LEMMA WorkKeeps ==
  ASSUME Safe, Crash = FALSE, MailInv, NEW p \in Procs, Work(p)
  PROVE  NoMailLost'
<1>1. /\ mutt[p] \in Mutt /\ mutt[p].fd = mailbox /\ mailbox \in DOMAIN files
      /\ mailbox # NoFile
  <2>1. mutt[p].at \in {"held", "write"}
    BY DEF Work, Parse, CheckLocked, AppendLocked, SyncLocked, SyncWrite, UnlinkEmpty, At
  <2>2. mutt[p].fd = mailbox BY <2>1 DEF Safe, HolderInv, Holds, Working
  <2> QED BY <2>1, <2>2, TypedParts, MuttTyped DEF Safe, WellTyped, Opened
<1>2. NoMailLost BY DEF MailInv
<1>3. CASE AppendLocked(p)
  <2>1. CASE UNCHANGED <<arrived, files, delivered>>
    BY <1>2, <1>3, <2>1 DEF AppendLocked, NoMailLost, Content
  <2>2. CASE /\ files' = [files EXCEPT ![mailbox] = files[mailbox] \cup {arrived + 1}]
             /\ delivered' = delivered \cup {arrived + 1}
    <3>1. Content' = Content \cup {arrived + 1}
      BY <1>1, <1>3, <2>2 DEF AppendLocked, Content
    <3> QED BY <1>2, <1>3, <2>2, <3>1 DEF AppendLocked, NoMailLost
  <2> QED BY <1>1, <1>3, <2>1, <2>2 DEF AppendLocked
<1>4. CASE SyncWrite(p)
  <2>1. CASE UNCHANGED <<files, purged>>
    BY <1>2, <1>4, <2>1 DEF SyncWrite, NoMailLost, Content
  <2>2. CASE /\ files' = [files EXCEPT ![mailbox] = mutt[p].seen \ mutt[p].del]
             /\ purged' = purged \cup mutt[p].del
    <3>1. mutt[p].seen = Content BY <1>4 DEF SyncWrite, MailInv, Sees, At
    <3>2. Content' = Content \ mutt[p].del
      BY <1>1, <1>4, <2>2, <3>1 DEF SyncWrite, Content
    <3> QED BY <1>2, <1>4, <2>2, <3>2 DEF SyncWrite, NoMailLost
  <2> QED BY <1>1, <1>4, <2>1, <2>2 DEF SyncWrite
<1>5. CASE UnlinkEmpty(p)
  <2>1. (Content = {} /\ mailbox' = NoFile) \/ UNCHANGED mailbox BY <1>5 DEF UnlinkEmpty
  <2>2. Content \subseteq Content' BY <1>5, <2>1 DEF UnlinkEmpty, Content
  <2> QED BY <1>2, <1>5, <2>2, KeptMail DEF UnlinkEmpty, mail
<1>6. CASE Parse(p) \/ CheckLocked(p) \/ SyncLocked(p)
  BY <1>2, <1>6 DEF Parse, CheckLocked, SyncLocked, mail, NoMailLost, Content
<1> QED BY <1>3, <1>4, <1>5, <1>6 DEF Work

\* The path is not removed from under the mail once a call ends.
LEMMA EndKeeps ==
  ASSUME Safe, NoMailLost, NEW p \in Procs, End(p)
  PROVE  NoMailLost'
<1>1. mailbox' = mailbox
  <2>1. CASE EndSync(p) BY <2>1, SyncStays, TypedParts DEF Safe
  <2>2. CASE End(p) /\ ~EndSync(p) BY <2>2 DEF End, EndOpen, EndCheck, EndUnlink
  <2> QED BY <2>1, <2>2
<1>2. UNCHANGED <<files, mail>> BY DEF End, EndOpen, EndCheck, EndSync, EndUnlink
<1> QED BY <1>1, <1>2 DEF mail, NoMailLost, Content

LEMMA AgentKeeps ==
  ASSUME Safe, MailInv, AgentLocks \/ AgentDelivers \/ AgentUnlocks \/ UNCHANGED vars
  PROVE  MailInv'
<1>1. CASE AgentDelivers
  <2>1. agent # "idle" /\ lockfile \notin Procs
    BY <1>1, ProcsAssumption DEF AgentDelivers, Safe, OwnInv, NotOwners
  <2>2. ASSUME NEW q \in Procs PROVE Sees(q)'
    <3>1. mutt[q].at # "write" BY <2>1 DEF Safe, OwnInv, Owns
    <3> QED BY <1>1, <3>1 DEF AgentDelivers, Sees
  <2>3. Content' = Content \cup {arrived + 1}
    <3>1. files \in Seq(SUBSET Msgs) /\ mailbox \in DOMAIN files \cup {NoFile}
      BY TypedParts DEF Safe, FilesOK, Opened
    <3>2. CASE mailbox # NoFile /\ files' = [files EXCEPT ![mailbox] = @ \cup {arrived + 1}]
                 /\ UNCHANGED mailbox
      BY <3>1, <3>2 DEF Content
    <3>3. CASE mailbox = NoFile /\ files' = Append(files, {arrived + 1}) /\ mailbox' = Len(files) + 1
      <4>1. Len(files) \in Nat BY <3>1
      <4>2. Append(files, {arrived + 1})[Len(files) + 1] = {arrived + 1} BY <3>1, <4>1
      <4> QED BY <3>3, <4>1, <4>2 DEF Content, NoFile
    <3> QED BY <1>1, <3>2, <3>3 DEF AgentDelivers
  <2>4. NoMailLost' BY <1>1, <2>3 DEF AgentDelivers, MailInv, NoMailLost
  <2> QED BY <2>2, <2>4 DEF MailInv
<1>2. CASE UNCHANGED <<mailbox, files, mutt, mail>>
  BY <1>2 DEF MailInv, NoMailLost, Sees, Content, mail
<1> QED BY <1>1, <1>2 DEF AgentLocks, AgentUnlocks, vars, mail

LEMMA StepMail ==
  ASSUME Safe, Crash = FALSE, MailInv, [Next]_vars
  PROVE  MailInv'
<1>1. ASSUME NEW p \in Procs, Step(p) PROVE MailInv'
  <2>1. NoMailLost'
    BY <1>1, BeginKeeps, WorkKeeps, EndKeeps, TypedParts DEF Step, Safe, MailInv
  <2>2. Sees(p)'
    BY <1>1, BeginHolds, LockHolds, WorkHolds, EndHolds, TypedParts
    DEF Step, Safe, HolderInv, Kept
  <2>3. ASSUME NEW q \in Procs, q # p PROVE Sees(q)'
    <3>1. mutt'[q] = mutt[q] BY <1>1, <2>3, AloneMoves, TypedParts DEF Step, Safe
    <3>2. mutt[q].at = "write" => Content' = Content BY <1>1, <2>3, OthersLeaveContent
    <3> QED BY <3>1, <3>2 DEF MailInv, Sees
  <2> QED BY <2>1, <2>2, <2>3 DEF MailInv
<1> QED BY <1>1, AgentKeeps DEF Next, Step

\* A message whose writer was told that it is in the mailbox stays there
\* until a user deletes it: mbox_sync_mailbox() overwrites no delivery.  It
\* does write in place, so that a crash may cost mail.
THEOREM MailIsSafe ==
  (Breaking = FALSE) /\ (SyncEmpties = FALSE) /\ (Crash = FALSE) /\ Spec => []NoMailLost
<1> DEFINE Inv == Safe /\ Crash = FALSE /\ MailInv
<1>1. (Breaking = FALSE) /\ (SyncEmpties = FALSE) /\ (Crash = FALSE) /\ Init => Inv
  <2>1. Init => MailInv BY DEF Init, MailInv, NoMailLost, Sees, Fresh
  <2> QED BY <2>1, InitTyped, InitOwn, InitHolder DEF Safe
<1>2. Inv /\ [Next]_vars => Inv' BY StepTyped, StepOwn, StepHolder, StepMail DEF Safe
<1>3. Inv => NoMailLost BY DEF MailInv
<1> QED BY <1>1, <1>2, <1>3, PTL DEF Spec

(***************************************************************************)
(* The way back.  A mutt leaves mx_lock_file() with the lock file only to  *)
(* the places from which it removes it, whoever breaks what.  It removes   *)
(* it as long as the path names the file it has open, and that nobody but  *)
(* the owner of the lock changes.                                          *)
(***************************************************************************)
Returns(p) ==
  \/ mutt[p].at \in {"stat", "held", "write", "undotlock"}
  \/ mutt[p].at = "unfcntl" /\ mutt[p].rc # "nolock" /\ mutt[p].call # "unlink"
Ways ==
  /\ lockfile = AgentsLock => agent # "idle"
  /\ \A p \in Procs :
       /\ lockfile = p => Returns(p)
       /\ mutt[p].at = "write" => mutt[p].call # "unlink"

\* p may unlink the lock file without looking whose it is.
Leads(p) == Owns(p) /\ mutt[p].call # "unlink" => mutt[p].fd = mailbox
WayInv ==
  /\ lockfile = StaleLock => Crash
  /\ \A p \in Procs : Leads(p)

LEMMA OwnersDiffer ==
  /\ NoLock \notin Procs /\ AgentsLock \notin Procs /\ StaleLock \notin Procs
  /\ NoLock # AgentsLock /\ StaleLock # AgentsLock /\ NoLock # StaleLock
  BY ProcsAssumption DEF NotOwners, NoLock, AgentsLock, StaleLock

\* A step of p gives the lock file to p or to nobody.
LEMMA LockfileMoves ==
  ASSUME NEW p \in Procs, Step(p)
  PROVE  lockfile' \in {lockfile, p, NoLock, StaleLock} /\ agent' = agent
<1>1. CASE Begin(p) BY <1>1 DEF Begin, Open, Check, AppendMessage, Sync, Quit
<1>2. CASE Lock(p) BY <1>2 DEF Lock, FcntlLock, FcntlWait, Prepare, Link, Stat, Ask
<1>3. CASE Work(p)
  BY <1>3 DEF Work, Parse, CheckLocked, LookAgain, AppendLocked, SyncLocked, SyncWrite,
              UnlinkEmpty, Killed
<1>4. CASE Unlock(p) BY <1>4 DEF Unlock, FcntlUnlock, Undotlock
<1>5. CASE End(p) BY <1>5 DEF End, EndOpen, EndCheck, EndSync, EndUnlink
<1>6. CASE Kill(p) BY <1>6 DEF Kill, Killed
<1> QED BY <1>1, <1>2, <1>3, <1>4, <1>5, <1>6 DEF Step

\* Only mbox_sync_mailbox() writes.
LEMMA SyncsWrite ==
  ASSUME MuttOK, NEW p \in Procs, Step(p), mutt'[p].at = "write"
  PROVE  mutt[p].call # "unlink" /\ mutt'[p].call = mutt[p].call
<1> DEFINE m == mutt[p]
<1>1. m \in Mutt BY MuttTyped DEF WellTyped
<1>2. ASSUME NEW n, Leave(p, n), n.at # "write" PROVE FALSE BY <1>2, OneMoves
<1>3. ASSUME NEW at, Go(p, at), at # "write" PROVE FALSE BY <1>3, OneGoes
<1>4. Fresh.at # "write" BY DEF Fresh
<1>5. ASSUME NEW call, NEW f, NEW del
      PROVE  /\ Call(p, call, f).at # "write"
             /\ [Call(p, call, f) EXCEPT !.fp = f].at # "write"
             /\ [Call(p, call, f) EXCEPT !.fp = f, !.del = del].at # "write"
  BY <1>1 DEF Call, Mutt
<1>6. ASSUME NEW rc, NEW S
      PROVE  /\ Then(p, rc).at # "write" /\ [Then(p, rc) EXCEPT !.seen = S].at # "write"
             /\ Reopened(Then(p, rc)).at # "write" /\ Without(p).at # "write"
  BY <1>1 DEF Then, Reopened, Without, Mutt
<1>7. ASSUME NEW rc, LookAgain(p, rc) PROVE FALSE BY <1>2, <1>4, <1>6, <1>7 DEF LookAgain, Killed
<1>8. ~Begin(p)
  <2>1. ~Open(p) BY <1>2, <1>5 DEF Open
  <2>2. ~Check(p)
    <3>1. Check(p) => Reopened(m).at # "write" BY <1>1 DEF Check, At, Reopened, Mutt
    <3> QED BY <1>2, <1>4, <1>5, <3>1 DEF Check
  <2>3. ~AppendMessage(p) BY <1>2, <1>5 DEF AppendMessage
  <2>4. ~Sync(p) BY <1>2, <1>4, <1>5 DEF Sync
  <2>5. ~Quit(p) BY <1>2, <1>4 DEF Quit
  <2> QED BY <2>1, <2>2, <2>3, <2>4, <2>5 DEF Begin
<1>9. ~Lock(p)
  <2>1. ~FcntlLock(p) BY <1>3 DEF FcntlLock
  <2>2. ~FcntlWait(p)
    <3>1. ASSUME m.at = "fcntl", NEW n, NEW z
          PROVE  [m EXCEPT !.count = n, !.prev_sb = z].at # "write"
      BY <1>1, <3>1 DEF Mutt
    <3> QED BY <1>2, <1>6, <3>1 DEF FcntlWait, At
  <2>3. ~Prepare(p)
    <3>1. [m EXCEPT !.at = "link", !.count = 0, !.hard = 0].at # "write" BY <1>1 DEF Mutt
    <3> QED BY <1>2, <1>6, <3>1 DEF Prepare
  <2>4. ~Link(p)
    <3>1. [m EXCEPT !.at = "stat", !.hard = m.hard + 1].at # "write" BY <1>1 DEF Mutt
    <3>2. Link(p) => Go(p, "held") \/ Leave(p, [m EXCEPT !.at = "stat", !.hard = m.hard + 1])
      BY DEF Link
    <3> QED BY <1>2, <1>3, <3>1, <3>2
  <2>5. ~Stat(p)
    <3>1. ASSUME NEW n PROVE [m EXCEPT !.at = "link", !.count = n].at # "write" BY <1>1 DEF Mutt
    <3>2. Stat(p) => \/ Go(p, "held") \/ Go(p, "ask") \/ Leave(p, Without(p))
                     \/ \E n : Leave(p, [m EXCEPT !.at = "link", !.count = n])
      BY DEF Stat
    <3> QED BY <1>2, <1>3, <1>6, <3>1, <3>2
  <2>6. ~Ask(p)
    <3>1. [m EXCEPT !.at = "prepare", !.retry = FALSE, !.force = TRUE].at # "write"
      BY <1>1 DEF Mutt
    <3> QED BY <1>2, <1>6, <3>1 DEF Ask
  <2> QED BY <2>1, <2>2, <2>3, <2>4, <2>5, <2>6 DEF Lock
<1>10. Work(p) => SyncLocked(p)
  <2>1. ~Parse(p) BY <1>2, <1>6 DEF Parse
  <2>2. ~CheckLocked(p) BY <1>7 DEF CheckLocked
  <2>3. ~AppendLocked(p) BY <1>2, <1>6 DEF AppendLocked
  <2>4. ~SyncWrite(p)
    <3>1. SyncWrite(p) => \/ Leave(p, Then(p, "bail")) \/ Leave(p, Then(p, "fatal"))
                          \/ \E S : Leave(p, [Then(p, "ok") EXCEPT !.seen = S])
      BY DEF SyncWrite
    <3> QED BY <1>2, <1>6, <3>1
  <2>5. ~UnlinkEmpty(p) BY <1>3 DEF UnlinkEmpty
  <2> QED BY <2>1, <2>2, <2>3, <2>4, <2>5 DEF Work
<1>11. ~Unlock(p) /\ ~Kill(p)
  BY <1>2, <1>3, <1>4 DEF Unlock, FcntlUnlock, Undotlock, Kill, Killed
<1>12. ~End(p)
  <2>1. ~EndOpen(p)
    <3> DEFINE i == [m EXCEPT !.at = "idle"]
               j == [i EXCEPT !.readonly = TRUE, !.seen = files[i.fd]]
    <3>1. i.at # "write" /\ j.at # "write" BY <1>1 DEF Mutt
    <3>2. EndOpen(p) => Leave(p, i) \/ Leave(p, j) BY DEF EndOpen
    <3> HIDE DEF i, j
    <3> QED BY <1>2, <3>1, <3>2
  <2>2. ~EndCheck(p) /\ ~EndUnlink(p) BY <1>2, <1>3, <1>4 DEF EndCheck, EndUnlink
  <2>3. ~EndSync(p)
    <3> DEFINE i == [m EXCEPT !.at = "idle", !.fp = mailbox, !.del = {}]
    <3>1. i.at # "write" BY <1>1 DEF Mutt
    <3>2. EndSync(p) => Leave(p, Fresh) \/ Leave(p, i) \/ Leave(p, Call(p, "unlink", mailbox))
      BY DEF EndSync
    <3> HIDE DEF i
    <3> QED BY <1>2, <1>4, <1>5, <3>1, <3>2
  <2> QED BY <2>1, <2>2, <2>3 DEF End
<1>13. SyncLocked(p) BY <1>8, <1>9, <1>10, <1>11, <1>12 DEF Step
<1>14. Go(p, "write") BY <1>2, <1>6, <1>7, <1>13 DEF SyncLocked
<1>15. mutt'[p] = [m EXCEPT !.at = "write"] BY <1>14, OneGoes
<1> QED BY <1>1, <1>13, <1>15 DEF SyncLocked, In, Mutt

LEMMA BeginWay ==
  ASSUME Ways, MuttOK, NEW p \in Procs, Begin(p) \/ End(p)
  PROVE  lockfile' # p
<1>1. mutt[p].at \in {"idle", "end"}
  BY DEF Begin, Open, Check, AppendMessage, Sync, Quit, End, EndOpen, EndCheck, EndSync,
         EndUnlink, At
<1>2. lockfile # p BY <1>1 DEF Ways, Returns
<1> QED BY <1>2 DEF Begin, Open, Check, AppendMessage, Sync, Quit, End, EndOpen, EndCheck,
                    EndSync, EndUnlink

LEMMA LockWay ==
  ASSUME Ways, MuttOK, NEW p \in Procs, Lock(p)
  PROVE  lockfile' = p => Returns(p)'
<1> DEFINE m == mutt[p]
<1>1. m \in Mutt BY MuttTyped DEF WellTyped
<1>2. CASE ~Link(p) /\ ~Stat(p)
  <2>1. m.at \in {"fcntl", "prepare", "ask"} /\ lockfile' = lockfile
    BY <1>2 DEF Lock, FcntlLock, FcntlWait, Prepare, Ask, At
  <2> QED BY <2>1 DEF Ways, Returns
<1>3. CASE Link(p)
  <2> DEFINE s == [m EXCEPT !.at = "stat", !.hard = m.hard + 1]
  <2>1. s.at = "stat" BY <1>1 DEF Mutt
  <2>2. Leave(p, s) \/ Go(p, "held") BY <1>3 DEF Link
  <2> HIDE DEF s
  <2>3. mutt'[p].at \in {"stat", "held"} BY <2>1, <2>2, OneMoves, OneGoes
  <2> QED BY <2>3 DEF Returns
<1>4. CASE Stat(p)
  <2>1. CASE Go(p, "held")
    <3>1. mutt'[p].at = "held" BY <2>1, OneGoes
    <3> QED BY <3>1 DEF Returns
  <2>2. CASE ~Go(p, "held")
    <3>1. lockfile' # p BY <1>4, <2>2, OwnersDiffer DEF Stat, Linked
    <3> QED BY <3>1
  <2> QED BY <2>1, <2>2
<1> QED BY <1>2, <1>3, <1>4

LEMMA WorkWay ==
  ASSUME Ways, MuttOK, NEW p \in Procs, Work(p)
  PROVE  lockfile' = p => Returns(p)'
<1>1. mutt[p] \in Mutt BY MuttTyped DEF WellTyped
<1>2. ASSUME NEW rc \in {"ok", "bail", "fatal"}, mutt[p].call # "unlink",
             NEW m, Leave(p, m),
             m = Then(p, rc) \/ m = Reopened(Then(p, rc)) \/ \E S : m = [Then(p, rc) EXCEPT !.seen = S]
      PROVE  Returns(p)'
  <2>1. ASSUME NEW S
        PROVE  /\ Then(p, rc).at = "unfcntl" /\ Then(p, rc).rc = rc /\ Then(p, rc).call = mutt[p].call
               /\ [Then(p, rc) EXCEPT !.seen = S].at = "unfcntl"
               /\ [Then(p, rc) EXCEPT !.seen = S].rc = rc
               /\ [Then(p, rc) EXCEPT !.seen = S].call = mutt[p].call
               /\ Reopened(Then(p, rc)).at = "unfcntl" /\ Reopened(Then(p, rc)).rc = rc
               /\ Reopened(Then(p, rc)).call = mutt[p].call
    BY <1>1 DEF Then, Reopened, Mutt
  <2>2. m.at = "unfcntl" /\ m.rc = rc /\ m.call = mutt[p].call BY <1>2, <2>1
  <2> QED BY <1>2, <2>2, OneMoves DEF Returns
<1>3. ASSUME NEW rc \in {"ok", "bail", "fatal"}, mutt[p].call # "unlink", LookAgain(p, rc)
      PROVE  lockfile' = p => Returns(p)'
  <2>1. CASE Killed(p) BY <2>1, OwnersDiffer DEF Killed
  <2>2. CASE Leave(p, [Then(p, rc) EXCEPT !.seen = files[mutt[p].fd]]) BY <1>2, <1>3, <2>2
  <2>3. CASE Leave(p, Reopened(Then(p, rc))) BY <1>2, <1>3, <2>3
  <2> QED BY <1>3, <2>1, <2>2, <2>3 DEF LookAgain
<1>4. CASE Parse(p) BY <1>2, <1>4 DEF Parse, In
<1>5. CASE CheckLocked(p) BY <1>3, <1>5 DEF CheckLocked, In
<1>6. CASE AppendLocked(p) BY <1>2, <1>6 DEF AppendLocked, In
<1>7. CASE SyncLocked(p)
  <2>1. CASE Go(p, "write")
    <3>1. mutt'[p].at = "write" BY <2>1, OneGoes
    <3> QED BY <3>1 DEF Returns
  <2>2. mutt[p].call # "unlink" BY <1>7 DEF SyncLocked, In
  <2> QED BY <1>2, <1>3, <1>7, <2>1, <2>2 DEF SyncLocked
<1>8. CASE SyncWrite(p)
  <2>1. mutt[p].call # "unlink" BY <1>8 DEF SyncWrite, At, Ways
  <2>2. \/ Leave(p, Then(p, "bail")) \/ Leave(p, Then(p, "fatal"))
        \/ \E S : Leave(p, [Then(p, "ok") EXCEPT !.seen = S])
    BY <1>8 DEF SyncWrite
  <2> QED BY <1>2, <2>1, <2>2
<1>9. CASE UnlinkEmpty(p)
  <2>1. mutt'[p].at = "undotlock" BY <1>9, OneGoes DEF UnlinkEmpty
  <2> QED BY <2>1 DEF Returns
<1> QED BY <1>4, <1>5, <1>6, <1>7, <1>8, <1>9 DEF Work

LEMMA UnlockWay ==
  ASSUME Ways, MuttOK, NEW p \in Procs, Unlock(p) \/ Kill(p)
  PROVE  lockfile' = p => Returns(p)'
<1>1. mutt[p] \in Mutt BY MuttTyped DEF WellTyped
<1>2. CASE FcntlUnlock(p)
  <2>1. CASE mutt[p].rc = "nolock" \/ mutt[p].call = "unlink"
    <3>1. mutt[p].at = "unfcntl" /\ lockfile' = lockfile BY <1>2 DEF FcntlUnlock, At
    <3> QED BY <2>1, <3>1 DEF Ways, Returns
  <2>2. CASE ~(mutt[p].rc = "nolock" \/ mutt[p].call = "unlink")
    <3>1. mutt'[p].at = "undotlock" BY <1>2, <2>2, OneGoes DEF FcntlUnlock, In
    <3> QED BY <3>1 DEF Returns
  <2> QED BY <2>1, <2>2
<1>3. CASE Undotlock(p) BY <1>3, OwnersDiffer DEF Undotlock
<1>4. CASE Kill(p) BY <1>4, OwnersDiffer DEF Kill, Killed
<1> QED BY <1>2, <1>3, <1>4 DEF Unlock

LEMMA InitWays == Init => Ways
  BY OwnersDiffer DEF Init, Ways, Fresh

LEMMA StepWays ==
  ASSUME Typed, Ways, [Next]_vars
  PROVE  Ways'
<1>1. MuttOK BY TypedParts
<1>2. ASSUME NEW p \in Procs, Step(p) PROVE Ways'
  <2>1. lockfile' \in {lockfile, p, NoLock, StaleLock} /\ agent' = agent BY <1>2, LockfileMoves
  <2>2. lockfile' = p => Returns(p)'
    BY <1>1, <1>2, BeginWay, LockWay, WorkWay, UnlockWay DEF Step
  <2>3. mutt'[p].at = "write" => mutt'[p].call # "unlink" BY <1>1, <1>2, SyncsWrite
  <2>4. ASSUME NEW q \in Procs, q # p
        PROVE  /\ lockfile' = q => Returns(q)'
               /\ mutt'[q].at = "write" => mutt'[q].call # "unlink"
    <3>1. mutt'[q] = mutt[q] BY <1>1, <1>2, <2>4, AloneMoves DEF Step
    <3>2. lockfile' = q => lockfile = q BY <2>1, <2>4, OwnersDiffer
    <3> QED BY <3>1, <3>2 DEF Ways, Returns
  <2>5. lockfile' = AgentsLock => agent' # "idle" BY <2>1, OwnersDiffer DEF Ways
  <2> QED BY <2>2, <2>3, <2>4, <2>5 DEF Ways
<1>3. CASE AgentLocks \/ AgentDelivers \/ AgentUnlocks \/ UNCHANGED vars
  <2>1. UNCHANGED mutt /\ (lockfile' = lockfile \/ lockfile' \in {NoLock, AgentsLock})
    BY <1>3 DEF AgentLocks, AgentDelivers, AgentUnlocks, vars
  <2>2. lockfile' = AgentsLock => agent' # "idle"
    BY <1>3, OwnersDiffer DEF AgentLocks, AgentDelivers, AgentUnlocks, vars, Ways
  <2> QED BY <2>1, <2>2, OwnersDiffer DEF Ways, Returns
<1> QED BY <1>2, <1>3 DEF Next, Step

\* What the path names does not change under the lock, nor on the way out.
LEMMA OwnerSteady ==
  ASSUME Safe, NEW q \in Procs, Owns(q), mutt[q].fd = mailbox,
         NEW p \in Procs, p # q, Step(p)
  PROVE  mailbox' = mailbox
<1>1. mailbox # NoFile BY DEF Safe, Typed, At, Owns
<1>2. ~Owns(p) BY DEF Safe, OwnInv
<1>3. CASE Begin(p) BY <1>1, <1>3 DEF Begin, Open, Check, AppendMessage, Created, Sync, Quit
<1>4. CASE Work(p)
  BY <1>2, <1>4 DEF Work, Parse, CheckLocked, AppendLocked, SyncLocked, SyncWrite, UnlinkEmpty,
                    Owns, At
<1>5. CASE Lock(p) BY <1>5 DEF Lock, FcntlLock, FcntlWait, Prepare, Link, Stat, Ask
<1>6. CASE Unlock(p) BY <1>6 DEF Unlock, FcntlUnlock, Undotlock
<1>7. CASE EndSync(p) BY <1>7, SyncStays, TypedParts DEF Safe
<1>8. CASE End(p) /\ ~EndSync(p) BY <1>8 DEF End, EndOpen, EndCheck, EndUnlink
<1>9. CASE Kill(p) BY <1>9 DEF Kill
<1> QED BY <1>3, <1>4, <1>5, <1>6, <1>7, <1>8, <1>9 DEF Step

\* p leaves the file it works on with the file still open.
LEMMA LeadsOn ==
  ASSUME Safe, Ways, NEW p \in Procs, Step(p), Leads(p)
  PROVE  Leads(p)'
<1> DEFINE m == mutt[p]
<1>0. MuttOK BY TypedParts DEF Safe
<1>1. m \in Mutt BY <1>0, MuttTyped DEF WellTyped
<1>2. m.at \in Working => m.fd = mailbox BY DEF Safe, HolderInv, Holds
<1>3. CASE Begin(p) BY <1>0, <1>3, BeginOwn DEF Leads, Safe
<1>4. CASE Lock(p)
  <2>1. CASE ~Link(p) /\ ~Stat(p)
    <3>1. Owns(p)' => lockfile' = p BY <1>0, <1>4, LockOwn DEF Safe
    <3>2. m.at \in {"fcntl", "prepare", "ask"} /\ lockfile' = lockfile
      BY <1>4, <2>1 DEF Lock, FcntlLock, FcntlWait, Prepare, Ask, At
    <3>3. lockfile # p BY <3>2 DEF Ways, Returns
    <3> QED BY <3>1, <3>2, <3>3 DEF Leads
  <2>2. CASE Link(p)
    <3> DEFINE s == [m EXCEPT !.at = "stat", !.hard = m.hard + 1]
    <3>1. s.fd = m.fd BY <1>1 DEF Mutt
    <3>2. Leave(p, s) \/ Go(p, "held") BY <2>2 DEF Link
    <3> HIDE DEF s
    <3>3. mutt'[p].fd = m.fd BY <1>0, <1>1, <3>1, <3>2, OneMoves, OneGoes DEF Mutt
    <3>4. mailbox' = mailbox /\ m.fd = mailbox BY <1>2, <2>2 DEF Link, At, Working
    <3> QED BY <3>3, <3>4 DEF Leads
  <2>3. CASE Stat(p)
    <3>1. m.at = "stat" /\ mailbox' = mailbox /\ m.fd = mailbox BY <1>2, <2>3 DEF Stat, At, Working
    <3>2. \/ Go(p, "held") \/ Go(p, "ask") \/ Leave(p, Without(p))
          \/ \E n : Leave(p, [m EXCEPT !.at = "link", !.count = n])
      BY <2>3 DEF Stat
    <3>3. ASSUME NEW n PROVE [m EXCEPT !.at = "link", !.count = n].fd = m.fd BY <1>1 DEF Mutt
    <3>4. Without(p).fd = m.fd BY <1>1 DEF Without, Mutt
    <3>5. ASSUME NEW n, Leave(p, n), n.fd = m.fd PROVE mutt'[p].fd = m.fd
      BY <1>0, <3>5, OneMoves
    <3>6. ASSUME NEW at, Go(p, at) PROVE mutt'[p].fd = m.fd
      <4>1. mutt'[p] = [m EXCEPT !.at = at] BY <1>0, <3>6, OneGoes
      <4> QED BY <1>1, <4>1 DEF Mutt
    <3>7. mutt'[p].fd = m.fd BY <3>2, <3>3, <3>4, <3>5, <3>6
    <3> QED BY <3>1, <3>7 DEF Leads
  <2> QED BY <2>1, <2>2, <2>3
<1>5. CASE Work(p)
  <2>1. m.at \in {"held", "write"}
    BY <1>5 DEF Work, Parse, CheckLocked, AppendLocked, SyncLocked, SyncWrite, UnlinkEmpty, At
  <2>2. m.fd = mailbox BY <1>2, <2>1 DEF Working
  <2>3. CASE UnlinkEmpty(p)
    <3>1. mutt'[p] = [m EXCEPT !.at = "undotlock"] /\ m.call = "unlink"
      BY <1>0, <2>3, OneGoes DEF UnlinkEmpty, In
    <3>2. mutt'[p].call = "unlink" BY <1>1, <3>1 DEF Mutt
    <3> QED BY <3>2 DEF Leads
  <2>4. CASE ~UnlinkEmpty(p)
    <3>1. mailbox' = mailbox
      BY <1>5, <2>4 DEF Work, Parse, CheckLocked, AppendLocked, SyncLocked, SyncWrite
    <3>2. ASSUME NEW rc, NEW S
          PROVE  /\ Then(p, rc).fd = m.fd /\ [Then(p, rc) EXCEPT !.seen = S].fd = m.fd
                 /\ Reopened(Then(p, rc)).fd = mailbox
      BY <1>1 DEF Then, Reopened, Mutt
    <3>3. ASSUME NEW n, Leave(p, n), n.fd = mailbox PROVE Leads(p)'
      BY <1>0, <3>1, <3>3, OneMoves DEF Leads
    <3>4. ASSUME NEW rc, LookAgain(p, rc) PROVE Leads(p)'
      <4>1. CASE Killed(p)
        <5>1. Fresh.at = "idle" BY DEF Fresh
        <5> QED BY <1>0, <4>1, <5>1, OneMoves DEF Killed, Leads, Owns
      <4> QED BY <2>2, <3>2, <3>3, <3>4, <4>1 DEF LookAgain
    <3>5. CASE Parse(p) BY <2>2, <3>2, <3>3, <3>5 DEF Parse
    <3>6. CASE CheckLocked(p) BY <3>4, <3>6 DEF CheckLocked
    <3>7. CASE AppendLocked(p) BY <2>2, <3>2, <3>3, <3>7 DEF AppendLocked
    <3>8. CASE SyncLocked(p)
      <4>1. [m EXCEPT !.at = "write"].fd = m.fd BY <1>1 DEF Mutt
      <4> QED BY <2>2, <3>2, <3>3, <3>4, <3>8, <4>1 DEF SyncLocked, Go
    <3>9. CASE SyncWrite(p)
      <4>1. \/ Leave(p, Then(p, "bail")) \/ Leave(p, Then(p, "fatal"))
            \/ \E S : Leave(p, [Then(p, "ok") EXCEPT !.seen = S])
        BY <3>9 DEF SyncWrite
      <4> QED BY <2>2, <3>2, <3>3, <4>1
    <3> QED BY <1>5, <2>4, <3>5, <3>6, <3>7, <3>8, <3>9 DEF Work
  <2> QED BY <2>3, <2>4
<1>6. CASE FcntlUnlock(p)
  <2>1. PICK at \in {"end", "undotlock"} :
          /\ Go(p, at) /\ (at = "undotlock" => m.rc # "nolock" /\ m.call # "unlink")
    BY <1>6 DEF FcntlUnlock, In
  <2>2. /\ mutt'[p].at = at /\ mutt'[p].fd = m.fd /\ mutt'[p].call = m.call
    BY <1>0, <1>1, <2>1, OneGoes DEF Mutt
  <2>3. m.at = "unfcntl" /\ mailbox' = mailbox BY <1>6 DEF FcntlUnlock, At
  <2> QED BY <2>1, <2>2, <2>3 DEF Leads, Owns
<1>7. CASE Undotlock(p)
  <2>1. Go(p, "end") \/ (Go(p, "unfcntl") /\ m.call = "unlink") BY <1>7 DEF Undotlock, In
  <2>2. mutt'[p].at = "end" \/ mutt'[p].call = "unlink" BY <1>0, <1>1, <2>1, OneGoes DEF Mutt
  <2> QED BY <2>2 DEF Leads, Owns
<1>8. CASE End(p) \/ Kill(p)
  <2>1. Owns(p)' => lockfile' = p BY <1>0, <1>8, EndOwn DEF Safe
  <2>2. CASE End(p) BY <1>0, <2>1, <2>2, BeginWay DEF Leads
  <2>3. CASE Kill(p)
    <3>1. lockfile' # p BY <2>3, OwnersDiffer DEF Kill, Killed
    <3> QED BY <2>1, <3>1 DEF Leads
  <2> QED BY <1>8, <2>2, <2>3
<1> QED BY <1>3, <1>4, <1>5, <1>6, <1>7, <1>8 DEF Step, Unlock

\* Only a mutt that is killed, or whose stat() fails, leaves its lock file.
LEMMA NoneIsLeft ==
  ASSUME Safe, WayInv, NEW p \in Procs, Step(p), lockfile' = StaleLock
  PROVE  Crash
<1>1. CASE lockfile = StaleLock BY <1>1 DEF WayInv
<1>2. CASE Kill(p) BY <1>2 DEF Kill
<1>3. CASE Begin(p) \/ Lock(p) \/ End(p)
  <2>1. lockfile' \in {lockfile, p, NoLock} \/ Crash
    BY <1>3 DEF Begin, Open, Check, AppendMessage, Sync, Quit, Lock, FcntlLock, FcntlWait, Prepare,
                Link, Stat, Ask, End, EndOpen, EndCheck, EndSync, EndUnlink
  <2> QED BY <1>1, <2>1, OwnersDiffer
<1>4. CASE Work(p)
  <2>1. mutt[p].at \in {"held", "write"}
    BY <1>4 DEF Work, Parse, CheckLocked, AppendLocked, SyncLocked, SyncWrite, UnlinkEmpty, At
  <2>2. mailbox # NoFile
    <3>1. mutt[p].fd = mailbox BY <2>1 DEF Safe, HolderInv, Holds, Working
    <3>2. mutt[p].fd # NoFile BY <2>1 DEF Safe, Typed, At
    <3> QED BY <3>1, <3>2
  <2>3. lockfile' = lockfile
    BY <1>4, <2>2 DEF Work, Parse, CheckLocked, LookAgain, AppendLocked, SyncLocked, SyncWrite,
                      UnlinkEmpty
  <2> QED BY <1>1, <2>3
<1>5. CASE FcntlUnlock(p) BY <1>1, <1>5 DEF FcntlUnlock
<1>6. CASE Undotlock(p)
  <2>1. mutt[p].at = "undotlock" BY <1>6 DEF Undotlock, At
  <2>2. CASE mutt[p].call = "unlink" BY <1>6, <2>2, OwnersDiffer DEF Undotlock, In
  <2>3. CASE mutt[p].call # "unlink"
    <3>1. mutt[p].fd = mailbox BY <2>1, <2>3 DEF WayInv, Leads, Owns
    <3>2. Named(p) BY <2>1, <3>1 DEF Named, Safe, Typed, At
    <3> QED BY <1>6, <3>2, OwnersDiffer DEF Undotlock
  <2> QED BY <2>2, <2>3
<1> QED BY <1>2, <1>3, <1>4, <1>5, <1>6 DEF Step, Unlock

LEMMA StepWay ==
  ASSUME Safe, Ways, WayInv, [Next]_vars
  PROVE  WayInv'
<1>1. ASSUME NEW p \in Procs, Step(p) PROVE WayInv'
  <2>1. Leads(p)' BY <1>1, LeadsOn DEF WayInv
  <2>2. ASSUME NEW q \in Procs, q # p PROVE Leads(q)'
    <3>1. mutt'[q] = mutt[q] BY <1>1, <2>2, AloneMoves, TypedParts DEF Step, Safe
    <3>2. Owns(q) /\ mutt[q].fd = mailbox => mailbox' = mailbox BY <1>1, <2>2, OwnerSteady
    <3> QED BY <3>1, <3>2 DEF WayInv, Leads, Owns
  <2>3. lockfile' = StaleLock => Crash BY <1>1, NoneIsLeft
  <2> QED BY <2>1, <2>2, <2>3 DEF WayInv
<1>2. CASE AgentLocks \/ AgentDelivers \/ AgentUnlocks \/ UNCHANGED vars
  <2>1. UNCHANGED mutt /\ (mailbox' = mailbox \/ mailbox = NoFile)
        /\ (lockfile' = lockfile \/ lockfile' \in {NoLock, AgentsLock})
    BY <1>2 DEF AgentLocks, AgentDelivers, AgentUnlocks, vars
  <2>2. ASSUME NEW q \in Procs PROVE Leads(q)'
    <3>1. Owns(q) => mutt[q].fd # NoFile BY DEF Safe, Typed, At, Owns
    <3> QED BY <2>1, <3>1 DEF WayInv, Leads, Owns
  <2> QED BY <2>1, <2>2, OwnersDiffer DEF WayInv
<1> QED BY <1>1, <1>2 DEF Next, Step

\* A lock file is there only while somebody is on the way to removing it, and
\* only a crash leaves one behind: every way out of mx_lock_file() goes
\* through mx_unlock_file() or dotlock_unlink(), and the path names the same
\* file as when the lock was taken.  Where mutts are killed that holds with
\* broken locks and emptied mailboxes as well.
THEOREM LockComesBack ==
  Crash \/ (Breaking = FALSE /\ SyncEmpties = FALSE) => (Spec => []LockIsReturned)
<1>1. Ways /\ (lockfile = StaleLock => Crash) => LockIsReturned BY DEF Ways, Returns, LockIsReturned
<1>2. Crash /\ Spec => []LockIsReturned
  <2> DEFINE Inv == Crash /\ Typed /\ Ways
  <2>1. Crash /\ Init => Inv BY InitTyped, InitWays
  <2>2. Inv /\ [Next]_vars => Inv' BY StepTyped, StepWays
  <2>3. Inv => LockIsReturned BY <1>1
  <2> QED BY <2>1, <2>2, <2>3, PTL DEF Spec
<1>3. (Breaking = FALSE /\ SyncEmpties = FALSE) /\ Spec => []LockIsReturned
  <2> DEFINE Inv == Safe /\ Ways /\ WayInv
  <2>1. (Breaking = FALSE /\ SyncEmpties = FALSE) /\ Init => Inv
    <3>1. Init => WayInv BY OwnersDiffer DEF Init, WayInv, Leads, Owns, Fresh
    <3> QED BY <3>1, InitTyped, InitOwn, InitHolder, InitWays DEF Safe
  <2>2. Inv /\ [Next]_vars => Inv'
    BY StepTyped, StepOwn, StepHolder, StepWays, StepWay DEF Safe
  <2>3. Inv => LockIsReturned BY <1>1 DEF WayInv
  <2> QED BY <2>1, <2>2, <2>3, PTL DEF Spec
<1> QED BY <1>2, <1>3, PTL
=======
