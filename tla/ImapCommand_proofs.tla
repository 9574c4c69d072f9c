------------------------- MODULE ImapCommand_proofs -------------------------
(***************************************************************************)
(* Proofs about ImapCommand: every variable keeps its type, and no command *)
(* that waits for its completion is overwritten or confused with another,  *)
(* for every size of the ring, every tag space at least as large, and both *)
(* kinds of server.                                                        *)
(*                                                                         *)
(* RingSafe is not inductive: that two tags differ follows only because    *)
(* every waiting command holds the number cmd_new() gave it, counted back  *)
(* from idata->seqno by its distance from idata->nextcmd.                  *)
(*                                                                         *)
(* Then, where handling a FETCH issues no command of its own: nothing is   *)
(* sent once the connection has failed (Safe: the shape of the call stack, *)
(* and what its innermost call may stand at).  Where moreover no           *)
(* connection is reopened with commands unsent: a live pipeline accepts    *)
(* every command, and imap_exec() drains it.  While the connection lives,  *)
(* every command sent or buffered has one slot that waits for it (Owed),   *)
(* the ring is full only of commands that wait (Lag), one that waits is    *)
(* followed by something to send or by a call that reads, and an IDLE not  *)
(* yet begun is the last command sent, and its caller reads (Inner).       *)
(*                                                                         *)
(* With a server that answers in order, the two sides agree (Ordered):     *)
(* what the server has not answered, followed by what is not written yet,  *)
(* lines up slot by slot with the ring (Order), every slot of the window   *)
(* waits (Tight), and a connection that was closed left no commands behind *)
(* that the next one would find (Shut).                                    *)
(***************************************************************************)
EXTENDS ImapCommand, SequenceTheorems, FiniteSetTheorems, TLAPS

\* The sequence number given out k commands before s.
Back(s, k) == IF s >= k THEN s - k ELSE s - k + SeqMod

\* The inductive part of RingSafe.
RingOK(d) ==
  /\ Waiting(d) \subseteq Window(d)
  /\ \A i \in Waiting(d) : d.cmds[i].seq = Back(d.seqno, Distance(i, d.nextcmd))

Good(d) == d \in IData /\ RingOK(d)

\* A frame waiting for the pipeline to drain has a command to queue.
FrameOK(f) == f \in Frame /\ (f.pc = "drained" => f.verb # "NULL")

StackOK(s) == s \in Seq(Frame) /\ \A k \in 1 .. Len(s) : FrameOK(s[k])

Calls == buf \in Line /\ StackOK(stack) /\ ret \in {"0", "-1", "-2"}
Peer == server \in [input : Seq(Token), idling : BOOLEAN, bye : BOOLEAN]

IInv == Good(idata) /\ Calls /\ Peer
------------------------------------------------------------------------------
(* The ring.                                                                *)

LEMMA SuccType == ASSUME NEW i \in Slots PROVE Succ(i) \in Slots
BY CmdSlotsAssumption DEF Slots, Succ

\* Moving nextcmd up by one puts every slot of the window one further away.
LEMMA WindowGrows ==
  ASSUME NEW l \in Slots, NEW n \in Slots, NEW i \in Slots, Succ(n) # l,
         Distance(l, i) < Distance(l, n)
  PROVE /\ Distance(l, i) < Distance(l, Succ(n))
        /\ Distance(i, Succ(n)) = Distance(i, n) + 1
        /\ Distance(i, n) \in 0 .. SeqMod - 1
BY CmdSlotsAssumption, SeqModAssumption DEF Slots, Succ, Distance

\* The slot just taken is the last of the window.
LEMMA WindowTakes ==
  ASSUME NEW l \in Slots, NEW n \in Slots, Succ(n) # l
  PROVE Distance(l, n) < Distance(l, Succ(n)) /\ Distance(n, Succ(n)) = 1
BY CmdSlotsAssumption DEF Slots, Succ, Distance

\* Moving lastcmd up by one drops only the slot it was on.
LEMMA WindowShrinks ==
  ASSUME NEW l \in Slots, NEW n \in Slots, NEW i \in Slots, i # l,
         Distance(l, i) < Distance(l, n)
  PROVE Distance(Succ(l), i) < Distance(Succ(l), n)
BY CmdSlotsAssumption DEF Slots, Succ, Distance

\* cmd_new() gives out the next number, round SeqMod.
LEMMA NextNumber ==
  ASSUME NEW s \in Tags, NEW k \in 0 .. SeqMod - 1
  PROVE LET t == IF s + 1 > SeqMod - 1 THEN 0 ELSE s + 1
        IN Back(t, k + 1) = Back(s, k) /\ Back(t, 1) = s
BY CmdSlotsAssumption, SeqModAssumption DEF Tags, Back

\* What does not touch the ring keeps it.
LEMMA SameRing ==
  ASSUME NEW d, NEW e \in IData, Good(d),
         e.cmds = d.cmds, e.nextcmd = d.nextcmd, e.lastcmd = d.lastcmd,
         e.seqno = d.seqno
  PROVE Good(e)
BY DEF Good, RingOK, Waiting, Window

\* Fields outside the ring may change freely.
LEMMA SetFields ==
  ASSUME NEW d, Good(d)
  PROVE /\ \A x \in States : Good([d EXCEPT !.state = x])
        /\ \A x \in {"none", "FATAL", "BYE"} : Good([d EXCEPT !.status = x])
        /\ \A x \in {"none", "Context", "other"} : Good([d EXCEPT !.ctx = x])
        /\ \A x \in SUBSET {"ALLOW", "NEWMAIL"} : Good([d EXCEPT !.reopen = x])
        /\ \A x \in BOOLEAN : Good([d EXCEPT !.fd = x])
        /\ \A x \in Seq(Token) : Good([d EXCEPT !.cmdbuf = x])
<1>1. ASSUME NEW x \in States PROVE Good([d EXCEPT !.state = x])
  <2> DEFINE e == [d EXCEPT !.state = x]
  <2>1. /\ e \in IData /\ e.cmds = d.cmds /\ e.nextcmd = d.nextcmd
        /\ e.lastcmd = d.lastcmd /\ e.seqno = d.seqno
    BY DEF Good, IData
  <2>2. QED
    BY <2>1, SameRing
<1>2. ASSUME NEW x \in {"none", "FATAL", "BYE"} PROVE Good([d EXCEPT !.status = x])
  <2> DEFINE e == [d EXCEPT !.status = x]
  <2>1. /\ e \in IData /\ e.cmds = d.cmds /\ e.nextcmd = d.nextcmd
        /\ e.lastcmd = d.lastcmd /\ e.seqno = d.seqno
    BY DEF Good, IData
  <2>2. QED
    BY <2>1, SameRing
<1>3. ASSUME NEW x \in {"none", "Context", "other"} PROVE Good([d EXCEPT !.ctx = x])
  <2> DEFINE e == [d EXCEPT !.ctx = x]
  <2>1. /\ e \in IData /\ e.cmds = d.cmds /\ e.nextcmd = d.nextcmd
        /\ e.lastcmd = d.lastcmd /\ e.seqno = d.seqno
    BY DEF Good, IData
  <2>2. QED
    BY <2>1, SameRing
<1>4. ASSUME NEW x \in SUBSET {"ALLOW", "NEWMAIL"} PROVE Good([d EXCEPT !.reopen = x])
  <2> DEFINE e == [d EXCEPT !.reopen = x]
  <2>1. /\ e \in IData /\ e.cmds = d.cmds /\ e.nextcmd = d.nextcmd
        /\ e.lastcmd = d.lastcmd /\ e.seqno = d.seqno
    BY DEF Good, IData
  <2>2. QED
    BY <2>1, SameRing
<1>5. ASSUME NEW x \in BOOLEAN PROVE Good([d EXCEPT !.fd = x])
  <2> DEFINE e == [d EXCEPT !.fd = x]
  <2>1. /\ e \in IData /\ e.cmds = d.cmds /\ e.nextcmd = d.nextcmd
        /\ e.lastcmd = d.lastcmd /\ e.seqno = d.seqno
    BY DEF Good, IData
  <2>2. QED
    BY <2>1, SameRing
<1>6. ASSUME NEW x \in Seq(Token) PROVE Good([d EXCEPT !.cmdbuf = x])
  <2> DEFINE e == [d EXCEPT !.cmdbuf = x]
  <2>1. /\ e \in IData /\ e.cmds = d.cmds /\ e.nextcmd = d.nextcmd
        /\ e.lastcmd = d.lastcmd /\ e.seqno = d.seqno
    BY DEF Good, IData
  <2>2. QED
    BY <2>1, SameRing
<1>7. QED
  BY <1>1, <1>2, <1>3, <1>4, <1>5, <1>6

\* An empty ring is safe wherever its pointers are.
LEMMA EmptyRing ==
  ASSUME NEW d \in IData, d.cmds = NoCmds
  PROVE Good(d)
<1>1. Waiting(d) = {}
  BY DEF Waiting, NoCmds
<1>2. QED
  BY <1>1 DEF Good, RingOK

LEMMA NewIdata == Good(imap_new_idata)
<1>1. imap_new_idata \in IData
  BY CmdSlotsAssumption, SeqModAssumption
  DEF imap_new_idata, IData, NoCmds, Slots, Tags, CmdState, States
<1>2. QED
  BY <1>1, EmptyRing DEF imap_new_idata

LEMMA CloseConnection ==
  ASSUME NEW d, Good(d)
  PROVE Good(imap_close_connection(d))
<1> DEFINE e == imap_close_connection(d)
<1>1. /\ NoCmds \in [Slots -> [seq : Tags, state : CmdState]]
      /\ 0 \in Slots /\ 0 \in Tags
  BY CmdSlotsAssumption, SeqModAssumption DEF NoCmds, Slots, Tags, CmdState
<1>2. e \in IData /\ e.cmds = NoCmds
  BY <1>1 DEF Good, imap_close_connection, IData, States
<1>3. QED
  BY <1>2, EmptyRing

LEMMA CloseMailboxGood ==
  ASSUME NEW d, Good(d)
  PROVE Good(imap_close_mailbox(d))
<1> DEFINE e == imap_close_mailbox(d)
<1>1. /\ e \in IData /\ e.cmds = d.cmds /\ e.nextcmd = d.nextcmd
      /\ e.lastcmd = d.lastcmd /\ e.seqno = d.seqno
  BY DEF Good, imap_close_mailbox, IData, States
<1>2. QED
  BY <1>1, SameRing

LEMMA HandleFatal ==
  ASSUME NEW d, Good(d)
  PROVE Good(cmd_handle_fatal(d))
<1> DEFINE fatal == [d EXCEPT !.status = "FATAL"]
           gone == [imap_close_mailbox(fatal) EXCEPT
                      !.state = "DISCONNECTED", !.fd = FALSE]
           left == IF Selected(d) /\ "ALLOW" \in d.reopen THEN gone ELSE fatal
<1>1. /\ fatal \in IData /\ fatal.cmds = d.cmds /\ fatal.nextcmd = d.nextcmd
      /\ fatal.lastcmd = d.lastcmd /\ fatal.seqno = d.seqno
  BY DEF Good, IData
<1>2. Good(fatal)
  BY <1>1, SameRing
<1> DEFINE shut == imap_close_mailbox(fatal)
<1>3. Good(shut)
  BY <1>2, CloseMailboxGood
<1>4. Good(gone)
  <2> HIDE DEF shut, fatal
  <2> DEFINE e == [shut EXCEPT !.state = "DISCONNECTED", !.fd = FALSE]
  <2>1. /\ e \in IData /\ e.cmds = shut.cmds /\ e.nextcmd = shut.nextcmd
        /\ e.lastcmd = shut.lastcmd /\ e.seqno = shut.seqno
    BY <1>3 DEF Good, IData, States
  <2>2. Good(e)
    BY <2>1, <1>3, SameRing
  <2> QED
    BY <2>2 DEF shut
<1>5. Good(left)
  BY <1>2, <1>4
<1>6. Good(imap_close_connection(left))
  BY <1>5, CloseConnection
<1>7. cmd_handle_fatal(d) \in {fatal, left, imap_close_connection(left)}
  BY DEF cmd_handle_fatal
<1>8. QED
  BY <1>2, <1>5, <1>6, <1>7

\* A slot not in use yet takes the next command.
LEMMA NewCommand ==
  ASSUME NEW d, Good(d), ~cmd_queue_full(d), NEW verb \in {"CMD", "IDLE"}
  PROVE Good(cmd_new(d, verb))
<1> DEFINE e == cmd_new(d, verb)
           n == d.nextcmd
<1>0. 0 \in 0 .. SeqMod - 1
  BY SeqModAssumption, CmdSlotsAssumption
<1>1. /\ n \in Slots /\ d.lastcmd \in Slots /\ d.seqno \in Tags
      /\ d.cmds \in [Slots -> [seq : Tags, state : CmdState]]
      /\ d.cmdbuf \in Seq(Token)
  BY DEF Good, IData
<1>2. Succ(n) \in Slots
  BY <1>1, SuccType
<1>3. e.cmdbuf \in Seq(Token)
  <2>1. [verb |-> verb, seq |-> d.seqno] \in Token
    BY <1>1 DEF Token
  <2>2. QED
    BY <1>1, <2>1 DEF Good, IData, cmd_new
<1>4. e.cmds = [d.cmds EXCEPT ![n] = [seq |-> d.seqno, state |-> "NEW"]]
  BY DEF Good, IData, cmd_new
<1>5. /\ e.nextcmd = Succ(n) /\ e.lastcmd = d.lastcmd
      /\ e.seqno = IF d.seqno + 1 > SeqMod - 1 THEN 0 ELSE d.seqno + 1
  BY DEF Good, IData, cmd_new
<1>6. e.seqno \in Tags
  BY <1>1, <1>5, SeqModAssumption DEF Tags
<1>7. e.cmds \in [Slots -> [seq : Tags, state : CmdState]]
  BY <1>1, <1>4 DEF CmdState
<1>8. e \in IData
  BY <1>1, <1>2, <1>3, <1>5, <1>6, <1>7 DEF Good, IData, cmd_new
<1>9. Succ(n) # d.lastcmd
  BY DEF cmd_queue_full
<1>10. ASSUME NEW i \in Waiting(e)
       PROVE i \in Window(e) /\ e.cmds[i].seq = Back(e.seqno, Distance(i, e.nextcmd))
  <2>1. i \in Slots
    BY DEF Waiting
  <2>2. CASE i = n
    <3>1. e.cmds[i].seq = d.seqno
      BY <1>1, <1>4, <2>2
    <3>2. Distance(i, e.nextcmd) = 1
      BY <1>1, <1>5, <1>9, <2>2, WindowTakes
    <3>3. Back(e.seqno, 1) = d.seqno
      BY <1>0, <1>1, <1>5, NextNumber
    <3>4. i \in Window(e)
      BY <1>1, <1>5, <1>9, <2>2, WindowTakes DEF Window
    <3>5. QED
      BY <3>1, <3>2, <3>3, <3>4
  <2>3. CASE i # n
    <3>1. e.cmds[i] = d.cmds[i]
      BY <1>1, <1>4, <2>1, <2>3
    <3>2. i \in Waiting(d)
      BY <2>1, <3>1 DEF Waiting
    <3>3. i \in Window(d) /\ d.cmds[i].seq = Back(d.seqno, Distance(i, n))
      BY <3>2 DEF Good, RingOK
    <3>4. Distance(d.lastcmd, i) < Distance(d.lastcmd, n)
      BY <3>3 DEF Window
    <3>5. /\ Distance(d.lastcmd, i) < Distance(d.lastcmd, Succ(n))
          /\ Distance(i, Succ(n)) = Distance(i, n) + 1
          /\ Distance(i, n) \in 0 .. SeqMod - 1
      BY <1>1, <1>9, <2>1, <3>4, WindowGrows
    <3>6. i \in Window(e)
      BY <1>5, <2>1, <3>5 DEF Window
    <3>7. Back(e.seqno, Distance(i, e.nextcmd)) = Back(d.seqno, Distance(i, n))
      BY <1>1, <1>5, <3>5, NextNumber
    <3>8. QED
      BY <3>1, <3>3, <3>6, <3>7
  <2>4. QED
    BY <2>2, <2>3
<1>11. QED
  BY <1>8, <1>10 DEF Good, RingOK

\* A completion frees a slot, and the queue pointer passes none that waits.
LEMMA ScanGood ==
  ASSUME NEW d, Good(d), NEW line \in Line
  PROVE Good(Scan(d, line))
<1> DEFINE e == Scan(d, line)
<1>1. /\ d.nextcmd \in Slots /\ d.lastcmd \in Slots /\ d.seqno \in Tags
      /\ d.cmds \in [Slots -> [seq : Tags, state : CmdState]]
  BY DEF Good, IData
<1>2. line.code \in {"OK", "NO", "BAD"}
  BY DEF Line
<1>3. /\ e.cmds = [i \in Slots |->
                     IF i \in Scanned(d) /\ Matches(d, line, i)
                       THEN [d.cmds[i] EXCEPT !.state = line.code]
                       ELSE d.cmds[i]]
      /\ e.nextcmd = d.nextcmd /\ e.seqno = d.seqno
      /\ e.lastcmd = IF First(d, line) # {} THEN Succ(d.lastcmd) ELSE d.lastcmd
  BY DEF Good, IData, Scan
<1>4. e.cmds \in [Slots -> [seq : Tags, state : CmdState]]
  BY <1>1, <1>2, <1>3 DEF CmdState
<1>5. Succ(d.lastcmd) \in Slots
  BY <1>1, SuccType
<1>6. e \in IData
  BY <1>3, <1>4, <1>5 DEF Good, IData, Scan
<1>7. \A i \in Waiting(e) : /\ i \in Slots /\ i \in Waiting(d)
                            /\ e.cmds[i] = d.cmds[i]
                            /\ ~(i \in Scanned(d) /\ Matches(d, line, i))
  BY <1>1, <1>2, <1>3 DEF Waiting
<1>8. ASSUME NEW i \in Waiting(e), First(d, line) # {}
      PROVE i # d.lastcmd
  <2>1. PICK k \in Scanned(d) :
          /\ Matches(d, line, k)
          /\ \A j \in StillRunning(d, line) :
                Distance(d.lastcmd, k) < Distance(d.lastcmd, j)
    BY <1>8 DEF First
  <2>2. SUFFICES ASSUME i = d.lastcmd PROVE FALSE
    OBVIOUS
  <2>3. i \in Window(d)
    BY <1>7 DEF Good, RingOK
  <2>4. i \in Scanned(d)
    BY <1>1, <2>3, CmdSlotsAssumption DEF Window, Scanned, ScanLength, Distance, Slots
  <2>5. i \in StillRunning(d, line)
    BY <1>7, <2>4 DEF StillRunning, Waiting
  <2>6. Distance(d.lastcmd, k) < Distance(d.lastcmd, i)
    BY <2>1, <2>5
  <2>7. QED
    BY <1>1, <2>1, <2>2, <2>6, CmdSlotsAssumption DEF Distance, Slots, Scanned
<1>9. ASSUME NEW i \in Waiting(e) PROVE i \in Window(e)
  <2>1. i \in Window(d) /\ i \in Slots
    BY <1>7 DEF Good, RingOK
  <2>2. CASE First(d, line) = {}
    BY <1>3, <2>1, <2>2 DEF Window
  <2>3. CASE First(d, line) # {}
    <3>1. i # d.lastcmd
      BY <1>8, <2>3
    <3>2. QED
      BY <1>1, <1>3, <2>1, <2>3, <3>1, WindowShrinks DEF Window
  <2>4. QED
    BY <2>2, <2>3
<1>10. \A i \in Waiting(e) : e.cmds[i].seq = Back(e.seqno, Distance(i, e.nextcmd))
  BY <1>3, <1>7 DEF Good, RingOK
<1>11. QED
  BY <1>6, <1>9, <1>10 DEF Good, RingOK

\* The inductive form implies the property.
LEMMA DistinctTags ==
  ASSUME NEW d, Good(d)
  PROVE /\ Waiting(d) \subseteq Window(d)
        /\ \A i, j \in Waiting(d) : d.cmds[i].seq = d.cmds[j].seq => i = j
<1>1. /\ d.nextcmd \in Slots /\ d.lastcmd \in Slots /\ d.seqno \in Tags
  BY DEF Good, IData
<1>2. ASSUME NEW i \in Waiting(d), NEW j \in Waiting(d),
             d.cmds[i].seq = d.cmds[j].seq
      PROVE i = j
  <2>1. /\ i \in Slots /\ j \in Slots /\ i \in Window(d) /\ j \in Window(d)
    BY DEF Good, RingOK, Waiting
  <2>2. Back(d.seqno, Distance(i, d.nextcmd)) = Back(d.seqno, Distance(j, d.nextcmd))
    BY <1>2 DEF Good, RingOK
  <2>3. Distance(i, d.nextcmd) = Distance(j, d.nextcmd)
    BY <1>1, <2>1, <2>2, CmdSlotsAssumption, SeqModAssumption
    DEF Back, Distance, Slots, Tags
  <2>4. QED
    BY <1>1, <2>1, <2>3, CmdSlotsAssumption DEF Distance, Slots
<1>3. QED
  BY <1>2 DEF Good, RingOK
------------------------------------------------------------------------------
(* The call stack.                                                          *)

LEMMA SetPc ==
  ASSUME NEW s, StackOK(s), s # <<>>, NEW p \in PCs,
         p = "drained" => s[Len(s)].verb # "NULL"
  PROVE LET t == [s EXCEPT ![Len(s)].pc = p] IN StackOK(t) /\ Len(t) = Len(s) /\ t # <<>>
<1> DEFINE t == [s EXCEPT ![Len(s)].pc = p]
           f == [s[Len(s)] EXCEPT !.pc = p]
<1>1. s \in Seq(Frame) /\ Len(s) \in 1 .. Len(s) /\ \A k \in 1 .. Len(s) : FrameOK(s[k])
  BY DEF StackOK
<1>2. f \in Frame /\ FrameOK(f)
  BY <1>1 DEF Frame, FrameOK
<1>3. t = [s EXCEPT ![Len(s)] = f]
  OBVIOUS
<1>4. t \in Seq(Frame) /\ Len(t) = Len(s)
  BY <1>1, <1>2, <1>3
<1>5. \A k \in 1 .. Len(t) : t[k] = IF k = Len(s) THEN f ELSE s[k]
  BY <1>1, <1>3, <1>4
<1>6. \A k \in 1 .. Len(t) : FrameOK(t[k])
  BY <1>1, <1>2, <1>4, <1>5
<1>7. t # <<>>
  BY <1>1, <1>4
<1>8. QED
  BY <1>4, <1>6, <1>7 DEF StackOK

LEMMA AppendFrame ==
  ASSUME NEW s, StackOK(s), NEW f, FrameOK(f)
  PROVE StackOK(Append(s, f))
<1>1. s \in Seq(Frame) /\ f \in Frame
  BY DEF StackOK, FrameOK
<1>2. Append(s, f) \in Seq(Frame) /\ Len(Append(s, f)) = Len(s) + 1
  BY <1>1
<1>3. \A k \in 1 .. Len(s) + 1 : Append(s, f)[k] = IF k = Len(s) + 1 THEN f ELSE s[k]
  BY <1>1
<1>4. QED
  BY <1>1, <1>2, <1>3 DEF StackOK

LEMMA PopFrame ==
  ASSUME NEW s, StackOK(s), s # <<>>
  PROVE StackOK(SubSeq(s, 1, Len(s) - 1))
<1>1. s \in Seq(Frame) /\ Len(s) \in Nat \ {0}
  BY DEF StackOK
<1>2. PICK n \in Nat : n = Len(s) - 1
  BY <1>1
<1> DEFINE t == SubSeq(s, 1, n)
<1>3. /\ t \in Seq(Frame) /\ Len(t) = IF 1 <= n THEN n - 1 + 1 ELSE 0
      /\ \A k \in 1 .. n - 1 + 1 : t[k] = s[1 + k - 1]
  <2>1. \A k \in 1 .. n : s[k] \in Frame
    BY <1>1, <1>2
  <2>2. QED
    BY <2>1, SubSeqProperties
<1> HIDE DEF t
<1>4. Len(t) = n
  BY <1>3
<1>5. \A k \in 1 .. Len(t) : k \in 1 .. Len(s) /\ t[k] = s[k]
  BY <1>1, <1>2, <1>3, <1>4
<1>6. StackOK(t)
  BY <1>3, <1>5 DEF StackOK
<1>7. QED
  BY <1>2, <1>6 DEF t

LEMMA TopFrame ==
  ASSUME Calls, stack # <<>>
  PROVE FrameOK(top)
BY DEF Calls, StackOK, top

LEMMA SteppedFrame ==
  ASSUME Calls, stack # <<>>, NEW rc \in StepResult
  PROVE StackOK(Stepped(rc)) /\ Stepped(rc) # <<>> /\ Len(Stepped(rc)) = Len(stack)
<1> DEFINE s == [stack EXCEPT ![Len(stack)].rc = rc]
           f == [top EXCEPT !.rc = rc]
<1>1. stack \in Seq(Frame) /\ Len(stack) \in 1 .. Len(stack) /\ StackOK(stack)
  BY DEF Calls, StackOK
<1>2. FrameOK(f) /\ f \in Frame
  BY TopFrame DEF FrameOK, Frame
<1>3. s = [stack EXCEPT ![Len(stack)] = f]
  BY DEF top
<1>4. s \in Seq(Frame) /\ Len(s) = Len(stack) /\ s # <<>>
  BY <1>1, <1>2, <1>3
<1>5. \A k \in 1 .. Len(s) : s[k] = IF k = Len(s) THEN f ELSE stack[k]
  BY <1>1, <1>3, <1>4
<1>6. StackOK(s)
  BY <1>1, <1>2, <1>4, <1>5 DEF StackOK
<1>7. [stack EXCEPT ![Len(stack)].rc = rc, ![Len(stack)].pc = "done"]
        = [s EXCEPT ![Len(s)].pc = "done"]
  BY <1>1, <1>4
<1>8. {"done", "poll", "read"} \subseteq PCs
  BY DEF PCs
<1> HIDE DEF s
<1>9. CASE rc # "CONTINUE"
  BY <1>4, <1>6, <1>7, <1>8, <1>9, SetPc DEF Stepped
<1>10. CASE rc = "CONTINUE" /\ top.op = "check"
  BY <1>1, <1>8, <1>10, SetPc DEF Stepped
<1>11. CASE rc = "CONTINUE" /\ top.op # "check"
  BY <1>1, <1>8, <1>11, SetPc DEF Stepped
<1>12. QED
  BY <1>9, <1>10, <1>11

LEMMA GotoCalls ==
  ASSUME Calls, stack # <<>>, NEW p \in PCs,
         p = "drained" => top.verb # "NULL", Goto(p)
  PROVE Calls'
<1>1. StackOK(stack)
  BY DEF Calls
<1>2. StackOK([stack EXCEPT ![Len(stack)].pc = p])
  BY <1>1, SetPc DEF top
<1>3. QED
  BY <1>2 DEF Calls, Goto

LEMMA PushCalls ==
  ASSUME Calls, stack # <<>>, NEW p \in PCs, NEW f, FrameOK(f),
         p = "drained" => top.verb # "NULL", Push(f, p)
  PROVE Calls'
<1>1. StackOK(stack)
  BY DEF Calls
<1>2. StackOK([stack EXCEPT ![Len(stack)].pc = p])
  BY <1>1, SetPc DEF top
<1>3. StackOK(Append([stack EXCEPT ![Len(stack)].pc = p], f))
  BY <1>2, AppendFrame
<1>4. QED
  BY <1>3 DEF Calls, Push

LEMMA PlainLine ==
  ASSUME NEW k \in {"untagged", "EXISTS", "FETCH", "BYE", "+"}
  PROVE Plain(k) \in Line
BY DEF Plain, Line

LEMMA ReturnCalls ==
  ASSUME Calls, stack # <<>>, NEW v \in {"0", "-1", "-2"}, Return(v)
  PROVE Calls'
<1>1. StackOK(SubSeq(stack, 1, Len(stack) - 1))
  BY PopFrame DEF Calls
<1>2. QED
  BY <1>1, PlainLine DEF Calls, Return

LEMMA StepCalls ==
  ASSUME Calls, stack # <<>>, NEW rc \in StepResult, Step(rc)
  PROVE Calls'
BY SteppedFrame DEF Calls, Step

LEMMA BeginCalls ==
  ASSUME Calls, NEW f, FrameOK(f), Begin(f)
  PROVE Calls'
<1>1. <<f>> \in Seq(Frame) /\ Len(<<f>>) = 1 /\ <<f>>[1] = f
  BY DEF FrameOK
<1>2. StackOK(<<f>>)
  BY <1>1 DEF StackOK
<1>3. QED
  BY <1>2 DEF Calls, Begin

\* The frames the code pushes.
LEMMA NewFrames ==
  /\ \A op \in Ops, p \in PCs \ {"drained"} : FrameOK(Call(op, p))
  /\ \A verb \in {"CMD", "IDLE", "NULL"}, queue, failok \in BOOLEAN :
       FrameOK(Exec(verb, queue, failok))
  /\ FrameOK(Command)
  /\ FrameOK([Call("idle", "start") EXCEPT !.verb = "IDLE"])
<1>1. \A op \in Ops, p \in PCs \ {"drained"} : FrameOK(Call(op, p))
  BY DEF FrameOK, Frame, Call, StepResult
<1>2. \A verb \in {"CMD", "IDLE", "NULL"}, queue, failok \in BOOLEAN :
        FrameOK(Exec(verb, queue, failok))
  <2>1. ASSUME NEW verb \in {"CMD", "IDLE", "NULL"},
               NEW queue \in BOOLEAN, NEW failok \in BOOLEAN
        PROVE FrameOK(Exec(verb, queue, failok))
    <3> DEFINE c == Call("exec", "start")
    <3>1. c \in Frame /\ c.pc = "start"
      BY DEF Frame, Call, Ops, PCs, StepResult
    <3> HIDE DEF c
    <3>2. [c EXCEPT !.verb = verb, !.queue = queue, !.failok = failok] \in Frame
      BY <3>1 DEF Frame
    <3>3. [c EXCEPT !.verb = verb, !.queue = queue, !.failok = failok].pc = "start"
      BY <3>1 DEF Frame
    <3>4. QED
      BY <3>2, <3>3 DEF FrameOK, Exec, c
  <2>2. QED
    BY <2>1
<1>3. FrameOK(Command)
  BY <1>2 DEF Command
<1>4. FrameOK([Call("idle", "start") EXCEPT !.verb = "IDLE"])
  BY DEF FrameOK, Frame, Call, Ops, PCs, StepResult
<1>5. QED
  BY <1>1, <1>2, <1>3, <1>4
------------------------------------------------------------------------------
(* The server.                                                              *)

LEMMA RestPeer ==
  ASSUME Peer, NEW n \in Nat
  PROVE Rest(n) \in [input : Seq(Token), idling : BOOLEAN, bye : BOOLEAN]
<1>1. server.input \in Seq(Token)
  BY DEF Peer
<1>2. /\ n + 1 \in Int /\ Len(server.input) \in Int
      /\ \A i \in n + 1 .. Len(server.input) : server.input[i] \in Token
  BY <1>1
<1>3. SubSeq(server.input, n + 1, Len(server.input)) \in Seq(Token)
  BY <1>2, SubSeqProperties
<1>4. QED
  BY <1>3 DEF Peer, Rest

LEMMA DropPeer ==
  ASSUME Peer, NEW i \in 1 .. Len(server.input)
  PROVE Drop(i) \in [input : Seq(Token), idling : BOOLEAN, bye : BOOLEAN]
<1>1. server.input \in Seq(Token) /\ Len(server.input) - 1 \in Nat
  BY DEF Peer
<1> DEFINE n == Len(server.input) - 1
           t == [j \in 1 .. n |-> IF j < i THEN server.input[j] ELSE server.input[j + 1]]
<1>2. t \in [1 .. n -> Token]
  BY <1>1
<1>3. t \in Seq(Token)
  BY <1>1, <1>2, SeqDef
<1>4. QED
  BY <1>3 DEF Peer, Drop

LEMMA AnswerTypes ==
  ASSUME Peer, NEW a \in Answers \cup Unsolicited
  PROVE /\ a[1] \in Line
        /\ a[2] \in [input : Seq(Token), idling : BOOLEAN, bye : BOOLEAN]
<1> DEFINE T == [input : Seq(Token), idling : BOOLEAN, bye : BOOLEAN]
           in == server.input
           head == IF in = <<>> THEN "NULL" ELSE in[1].verb
<1>1. in \in Seq(Token) /\ server \in T
  BY DEF Peer
<1>2. \A i \in 1 .. Len(in) : in[i] \in Token /\ in[i].seq \in Tags
  BY <1>1, SeqModAssumption, CmdSlotsAssumption DEF Token, Tags
<1>3. \A i \in 1 .. Len(in), c \in {"OK", "NO", "BAD"} : Tagged(in[i].seq, c) \in Line
  BY <1>2 DEF Tagged, Line
<1>4. CASE a \in Unsolicited
  <2>1. PICK k \in {"untagged", "EXISTS", "FETCH", "BYE", "+"} :
          a = <<Plain(k), [server EXCEPT !.bye = (k = "BYE")]>>
    BY <1>4 DEF Unsolicited
  <2>2. QED
    BY <1>1, <2>1, PlainLine
<1>5. CASE \E i \in 1 .. Len(in), c \in {"OK", "NO", "BAD"} :
             a = <<Tagged(in[i].seq, c), Drop(i)>>
  BY <1>3, <1>5, DropPeer
<1>6. CASE a = <<Plain("untagged"), server>>
  BY <1>1, <1>6, PlainLine
<1>7. CASE a = <<Plain("+"), [server EXCEPT !.idling = TRUE]>>
  BY <1>1, <1>7, PlainLine
<1>8. CASE in # <<>> /\ \E n \in {1, 2}, c \in {"OK", "NO", "BAD"} :
             a = <<Tagged(in[1].seq, c), Rest(n)>>
  <2>1. 1 \in 1 .. Len(in)
    BY <1>1, <1>8
  <2>2. QED
    BY <1>3, <1>8, <2>1, RestPeer
<1>9. CASE a = <<Plain("untagged"), Rest(1)>>
  BY <1>9, PlainLine, RestPeer
<1>10. CASE a \in Answers
  <2> DEFINE more ==
        CASE head = "IDLE" /\ ~server.idling ->
               {<<Plain("+"), [server EXCEPT !.idling = TRUE]>>}
                 \cup {<<Tagged(in[1].seq, c), Rest(1)>> : c \in {"NO", "BAD"}}
          [] head = "IDLE" /\ server.idling /\ Len(in) > 1 ->
               {<<Tagged(in[1].seq, IF in[2].verb = "DONE" THEN "OK" ELSE "BAD"), Rest(2)>>}
          [] head = "DONE" -> {<<Plain("untagged"), Rest(1)>>}
          [] OTHER -> {}
  <2>1. \/ \E i \in 1 .. Len(in), c \in {"OK", "NO", "BAD"} :
             a = <<Tagged(in[i].seq, c), Drop(i)>>
        \/ a = <<Plain("untagged"), server>>
        \/ a \in more
    BY <1>10 DEF Answers
  <2>2. ASSUME a \in more
        PROVE \/ a = <<Plain("+"), [server EXCEPT !.idling = TRUE]>>
              \/ a = <<Plain("untagged"), Rest(1)>>
              \/ in # <<>> /\ \E n \in {1, 2}, c \in {"OK", "NO", "BAD"} :
                    a = <<Tagged(in[1].seq, c), Rest(n)>>
    BY <2>2
  <2>3. QED
    BY <1>5, <1>6, <1>7, <1>8, <1>9, <2>1, <2>2
<1>11. QED
  BY <1>4, <1>10
------------------------------------------------------------------------------
(* Every step keeps the invariant.                                          *)

LEMMA AtTop == ASSUME NEW p, At(p) PROVE stack # <<>>
BY DEF At

LEMMA PeerSame == ASSUME Peer, UNCHANGED server PROVE Peer'
BY DEF Peer

LEMMA GoodSame == ASSUME Good(idata), UNCHANGED idata PROVE Good(idata')
OBVIOUS

LEMMA SentGood ==
  ASSUME NEW d, Good(d)
  PROVE Good(Sent(d)) /\ Sent(d).status = d.status /\ Sent(d).fd = d.fd
<1> DEFINE state == IF d.state = "IDLE" THEN "SELECTED" ELSE d.state
           e == [d EXCEPT !.cmdbuf = <<>>]
<1>1. Good(e)
  <2>1. <<>> \in Seq(Token)
    OBVIOUS
  <2>2. QED
    BY <2>1, SetFields
<1>2. d \in IData /\ state \in States
  BY DEF Good, IData, States
<1>3. /\ Sent(d) = [e EXCEPT !.state = state]
      /\ Sent(d).status = d.status /\ Sent(d).fd = d.fd
  BY <1>2 DEF Sent, IData
<1> HIDE DEF e, state
<1>4. Good([e EXCEPT !.state = state])
  BY <1>1, <1>2, SetFields
<1>5. QED
  BY <1>3, <1>4

LEMMA StartKeeps == IInv /\ CmdStart => IInv'
<1> SUFFICES ASSUME IInv, CmdStart PROVE IInv'
  OBVIOUS
<1>1. Good(idata) /\ Calls /\ Peer
  BY DEF IInv
<1>2. {"failed", "drained", "write", "read"} \subseteq PCs
  BY DEF PCs
<1>3. CASE StartFatal
  <2>1. stack # <<>> /\ Goto("failed") /\ UNCHANGED server /\ idata' = cmd_handle_fatal(idata)
    BY <1>3, AtTop DEF StartFatal
  <2>2. Good(idata')
    BY <1>1, <2>1, HandleFatal
  <2>3. QED
    BY <1>1, <1>2, <2>1, <2>2, GotoCalls, PeerSame DEF IInv
<1>4. CASE StartDrain
  <2>1. /\ stack # <<>> /\ top.verb # "NULL" /\ UNCHANGED <<idata, server>>
        /\ Push(Exec("NULL", FALSE, TRUE), "drained")
    BY <1>4, AtTop DEF StartDrain
  <2>2. FrameOK(Exec("NULL", FALSE, TRUE))
    BY NewFrames
  <2>3. Calls'
    BY <1>1, <1>2, <2>1, <2>2, PushCalls
  <2>4. QED
    BY <1>1, <2>1, <2>3, PeerSame, GoodSame DEF IInv
<1>5. CASE StartQueue
  <2>1. /\ stack # <<>> /\ Goto("write") /\ UNCHANGED server
        /\ top.verb # "NULL" => ~cmd_queue_full(idata)
        /\ idata' = IF top.verb = "NULL" THEN idata ELSE cmd_new(idata, top.verb)
    BY <1>5, AtTop DEF StartQueue
  <2>2. top.verb \in {"CMD", "IDLE", "NULL"}
    BY <1>1, <2>1, TopFrame DEF FrameOK, Frame
  <2>3. Good(idata')
    BY <1>1, <2>1, <2>2, NewCommand
  <2>4. QED
    BY <1>1, <1>2, <2>1, <2>3, GotoCalls, PeerSame DEF IInv
<1>6. CASE Drained
  <2>1. /\ stack # <<>> /\ UNCHANGED server /\ top.pc = "drained"
        /\ \/ UNCHANGED idata /\ Goto("failed")
           \/ /\ ~cmd_queue_full(idata)
              /\ idata' = cmd_new(idata, top.verb) /\ Goto("write")
    BY <1>6, AtTop DEF Drained, At
  <2>2. top.verb \in {"CMD", "IDLE"}
    BY <1>1, <2>1, TopFrame DEF FrameOK, Frame
  <2>3. Good(idata')
    BY <1>1, <2>1, <2>2, NewCommand
  <2>4. Calls'
    BY <1>1, <1>2, <2>1, GotoCalls
  <2>5. QED
    BY <1>1, <2>1, <2>3, <2>4, PeerSame DEF IInv
<1>7. CASE QueueOnly
  <2>1. stack # <<>> /\ Return("0") /\ UNCHANGED <<idata, server>>
    BY <1>7, AtTop DEF QueueOnly
  <2>2. QED
    BY <1>1, <2>1, ReturnCalls, PeerSame DEF IInv
<1>8. CASE NothingToWrite
  <2>1. stack # <<>> /\ Goto("failed") /\ UNCHANGED <<idata, server>>
    BY <1>8, AtTop DEF NothingToWrite
  <2>2. QED
    BY <1>1, <1>2, <2>1, GotoCalls, PeerSame DEF IInv
<1>9. CASE Write \/ PollTimesOut
  <2>1. stack # <<>> /\ Good(Sent(idata))
    BY <1>1, <1>9, AtTop, SentGood DEF Write, PollTimesOut
  <2>2. idata.cmdbuf \in Seq(Token) /\ server.input \in Seq(Token)
    BY <1>1 DEF Good, IData, Peer
  <2>3. ASSUME server' = [server EXCEPT !.input = @ \o idata.cmdbuf] PROVE Peer'
    <3>1. server.input \o idata.cmdbuf \in Seq(Token)
      BY <2>2
    <3>2. QED
      BY <1>1, <2>3, <3>1 DEF Peer
  <2>4. CASE /\ idata' = Sent(idata) /\ Goto("read")
             /\ server' = [server EXCEPT !.input = @ \o idata.cmdbuf]
    BY <1>1, <1>2, <2>1, <2>3, <2>4, GotoCalls DEF IInv
  <2>5. CASE idata' = [Sent(idata) EXCEPT !.fd = FALSE] /\ Goto("failed") /\ UNCHANGED server
    <3>1. Good(idata')
      BY <2>1, <2>5, SetFields
    <3>2. QED
      BY <1>1, <1>2, <2>1, <2>5, <3>1, GotoCalls, PeerSame DEF IInv
  <2>6. CASE PollTimesOut
    <3>1. /\ idata' = cmd_handle_fatal(Sent(idata)) /\ Return("-1")
          /\ server' = [server EXCEPT !.input = @ \o idata.cmdbuf]
      BY <2>6 DEF PollTimesOut
    <3>2. QED
      BY <1>1, <2>1, <2>3, <3>1, HandleFatal, ReturnCalls DEF IInv
  <2>7. QED
    BY <1>9, <2>4, <2>5, <2>6 DEF Write
<1>10. CASE StartFailed
  <2>1. stack # <<>> /\ UNCHANGED server
    BY <1>10, AtTop DEF StartFailed
  <2>2. CASE idata' = cmd_handle_fatal(idata) /\ Return("-1")
    BY <1>1, <2>1, <2>2, HandleFatal, ReturnCalls, PeerSame DEF IInv
  <2>3. CASE UNCHANGED idata /\ Goto("read")
    BY <1>1, <1>2, <2>1, <2>3, GotoCalls, PeerSame DEF IInv
  <2>4. QED
    BY <1>10, <2>2, <2>3 DEF StartFailed
<1>11. QED
  BY <1>3, <1>4, <1>5, <1>6, <1>7, <1>8, <1>9, <1>10 DEF CmdStart

LEMMA FinishGood ==
  ASSUME NEW d, Good(d)
  PROVE Good(imap_cmd_finish(d))
<1>1. d.reopen \ {"ALLOW", "NEWMAIL"} \in SUBSET {"ALLOW", "NEWMAIL"}
  BY DEF Good, IData
<1>2. imap_cmd_finish(d) \in {cmd_handle_fatal(d), d, [d EXCEPT !.status = "none"],
                              [d EXCEPT !.reopen = @ \ {"ALLOW", "NEWMAIL"}]}
  BY DEF imap_cmd_finish
<1>3. Good([d EXCEPT !.reopen = @ \ {"ALLOW", "NEWMAIL"}])
  BY <1>1, SetFields
<1>4. Good([d EXCEPT !.status = "none"])
  BY SetFields
<1>5. QED
  BY <1>2, <1>3, <1>4, HandleFatal

LEMMA UntaggedGood ==
  ASSUME NEW d, Good(d), NEW line \in Line
  PROVE Good(cmd_handle_untagged(d, line))
<1>1. d.reopen \cup {"NEWMAIL"} \in SUBSET {"ALLOW", "NEWMAIL"}
  BY DEF Good, IData
<1>2. cmd_handle_untagged(d, line) \in
        {cmd_handle_fatal(d), d, [d EXCEPT !.reopen = @ \cup {"NEWMAIL"}]}
  BY DEF cmd_handle_untagged
<1>3. Good([d EXCEPT !.reopen = @ \cup {"NEWMAIL"}])
  BY <1>1, SetFields
<1>4. QED
  BY <1>2, <1>3, HandleFatal

LEMMA StepKeeps == IInv /\ CmdStep => IInv'
<1> SUFFICES ASSUME IInv, CmdStep PROVE IInv'
  OBVIOUS
<1>1. Good(idata) /\ Calls /\ Peer /\ buf \in Line
  BY DEF IInv, Calls
<1>2. Reading => stack # <<>>
  BY DEF Reading, At, In
<1>3. {"scan", "finished", "errcleanup"} \subseteq PCs
  BY DEF PCs
<1>4. CASE ReadFatal
  <2>1. stack # <<>> /\ UNCHANGED server /\ Step("BAD") /\ idata' = cmd_handle_fatal(idata)
    BY <1>2, <1>4 DEF ReadFatal
  <2>2. "BAD" \in StepResult
    BY DEF StepResult
  <2>3. QED
    BY <1>1, <2>1, <2>2, HandleFatal, StepCalls, PeerSame DEF IInv
<1>5. CASE ReadFails
  <2>1. /\ stack # <<>> /\ UNCHANGED server /\ Step("BAD")
        /\ idata' = cmd_handle_fatal([idata EXCEPT !.fd = FALSE])
    BY <1>2, <1>5 DEF ReadFails
  <2>2. "BAD" \in StepResult
    BY DEF StepResult
  <2>3. Good([idata EXCEPT !.fd = FALSE])
    BY <1>1, SetFields
  <2>4. QED
    BY <1>1, <2>1, <2>2, <2>3, HandleFatal, StepCalls, PeerSame DEF IInv
<1>6. ASSUME NEW lines, lines \subseteq Answers \cup Unsolicited, ReadLine(lines)
      PROVE IInv'
  <2>1. stack # <<>>
    BY <1>2, <1>6 DEF ReadLine
  <2>2. PICK answer \in lines :
          /\ server' = answer[2] /\ buf' = answer[1] /\ UNCHANGED ret
          /\ idata' = cmd_handle_untagged(idata, answer[1])
          /\ \/ stack' = Stepped("BAD")
             \/ stack' = [stack EXCEPT ![Len(stack)].pc = "scan"]
             \/ stack' = Append([stack EXCEPT ![Len(stack)].pc = "scan"],
                                Call("fetch", "start"))
    BY <1>6 DEF ReadLine
  <2>3. answer[1] \in Line /\ Peer'
    BY <1>1, <1>6, <2>2, AnswerTypes DEF Peer
  <2>4. Good(idata')
    BY <1>1, <2>2, <2>3, UntaggedGood
  <2>5. StackOK(stack) /\ "BAD" \in StepResult
    BY <1>1 DEF Calls, StepResult
  <2>6. StackOK([stack EXCEPT ![Len(stack)].pc = "scan"])
    BY <1>3, <2>1, <2>5, SetPc
  <2>7. FrameOK(Call("fetch", "start"))
    BY NewFrames DEF Ops, PCs
  <2>8. StackOK(stack')
    BY <1>1, <2>1, <2>2, <2>5, <2>6, <2>7, SteppedFrame, AppendFrame
  <2>9. QED
    BY <1>1, <2>2, <2>3, <2>4, <2>8 DEF IInv, Calls
<1>7. CASE ReadAnswer
  BY <1>6, <1>7 DEF ReadAnswer
<1>8. CASE ReadUnsolicited
  BY <1>6, <1>8 DEF ReadUnsolicited
<1>9. CASE ScanRespond
  <2>1. stack # <<>> /\ Step("RESPOND") /\ UNCHANGED <<idata, server>>
    BY <1>9, AtTop DEF ScanRespond
  <2>2. "RESPOND" \in StepResult
    BY DEF StepResult
  <2>3. QED
    BY <1>1, <2>1, <2>2, StepCalls, PeerSame DEF IInv
<1>10. CASE ScanContinue
  <2>1. stack # <<>> /\ Step("CONTINUE") /\ idata' = Scan(idata, buf) /\ UNCHANGED server
    BY <1>10, AtTop DEF ScanContinue
  <2>2. "CONTINUE" \in StepResult
    BY DEF StepResult
  <2>3. QED
    BY <1>1, <2>1, <2>2, ScanGood, StepCalls, PeerSame DEF IInv
<1>11. CASE ScanDrained
  <2> DEFINE d == Scan(idata, buf)
             rc == ScanResult(idata, buf)
             s == [Stepped(rc) EXCEPT ![Len(stack)].pc = "finished"]
  <2>1. /\ stack # <<>> /\ idata' = imap_cmd_finish(d) /\ UNCHANGED <<ret, buf, server>>
        /\ stack' \in {Append(s, Call("read_headers", "start")), Stepped(rc)}
    BY <1>11, AtTop DEF ScanDrained
  <2>2. rc \in StepResult
    BY <1>1 DEF ScanResult, StepResult, Line
  <2>3. Good(d)
    BY <1>1, ScanGood
  <2>4. StackOK(Stepped(rc)) /\ Stepped(rc) # <<>> /\ Len(Stepped(rc)) = Len(stack)
    BY <1>1, <2>1, <2>2, SteppedFrame
  <2> HIDE DEF d, rc
  <2>5. StackOK(s)
    BY <1>3, <2>4, SetPc
  <2>6. FrameOK(Call("read_headers", "start"))
    BY NewFrames DEF Ops, PCs
  <2>7. StackOK(stack')
    BY <2>1, <2>4, <2>5, <2>6, AppendFrame
  <2>8. QED
    BY <1>1, <2>1, <2>3, <2>7, FinishGood, PeerSame DEF IInv, Calls
<1>12. CASE Finished
  <2>1. /\ stack # <<>> /\ idata' = [idata EXCEPT !.status = "none"] /\ UNCHANGED server
        /\ Goto("errcleanup") \/ Step(top.rc)
    BY <1>12, AtTop DEF Finished
  <2>2. top.rc \in StepResult
    BY <1>1, <2>1, TopFrame DEF FrameOK, Frame
  <2>3. Good(idata')
    BY <1>1, <2>1, SetFields
  <2>4. Calls'
    BY <1>1, <1>3, <2>1, <2>2, GotoCalls, StepCalls
  <2>5. QED
    BY <1>1, <2>1, <2>3, <2>4, PeerSame DEF IInv
<1>13. QED
  BY <1>4, <1>5, <1>7, <1>8, <1>9, <1>10, <1>11, <1>12 DEF CmdStep

LEMMA Reopens ==
  ASSUME NEW d, Good(d)
  PROVE /\ Good([d EXCEPT !.reopen = @ \ {"NEWMAIL"}])
        /\ Good([d EXCEPT !.reopen = @ \ {"ALLOW"}])
        /\ Good([d EXCEPT !.reopen = @ \cup {"ALLOW"}])
        /\ Good([d EXCEPT !.reopen = @ \ {"ALLOW", "NEWMAIL"}])
<1>1. ASSUME NEW r \in SUBSET {"ALLOW", "NEWMAIL"} PROVE Good([d EXCEPT !.reopen = r])
  BY SetFields
<1>2. d.reopen \in SUBSET {"ALLOW", "NEWMAIL"}
  BY DEF Good, IData
<1>3. /\ d.reopen \ {"NEWMAIL"} \in SUBSET {"ALLOW", "NEWMAIL"}
      /\ d.reopen \ {"ALLOW"} \in SUBSET {"ALLOW", "NEWMAIL"}
      /\ d.reopen \cup {"ALLOW"} \in SUBSET {"ALLOW", "NEWMAIL"}
      /\ d.reopen \ {"ALLOW", "NEWMAIL"} \in SUBSET {"ALLOW", "NEWMAIL"}
  BY <1>2
<1>4. QED
  BY <1>1, <1>3

LEMMA SelectFailsKeeps ==
  ASSUME Good(idata), Calls, stack # <<>>, SelectFails(idata)
  PROVE Good(idata') /\ Calls'
<1> DEFINE state == IF idata.state = "SELECTED" THEN "AUTHENTICATED" ELSE idata.state
           e == [idata EXCEPT !.state = state]
<1>1. idata' = imap_close_mailbox(e) /\ Return("-1")
  BY DEF SelectFails
<1>2. state \in States
  BY DEF Good, IData, States
<1>3. Good(e)
  BY <1>2, SetFields
<1>4. QED
  BY <1>1, <1>3, CloseMailboxGood, ReturnCalls

LEMMA DoneKeeps == IInv /\ CallDone => IInv'
<1> SUFFICES ASSUME IInv, CallDone PROVE IInv'
  OBVIOUS
<1>1. Good(idata) /\ Calls /\ Peer
  BY DEF IInv
<1>2. {"start", "capa", "auth", "recheck", "compress", "enable", "flush", "opened",
       "selecting"} \subseteq PCs
  BY DEF PCs
<1>3. /\ FrameOK(Command) /\ FrameOK(Exec("CMD", FALSE, TRUE)) /\ FrameOK(Exec("CMD", TRUE, FALSE))
      /\ FrameOK(Exec("NULL", FALSE, TRUE)) /\ FrameOK(Call("read_headers", "start"))
  BY <1>2, NewFrames DEF Ops
<1>4. stack # <<>>
  BY DEF CallDone, ExecDone, IdleDone, FetchDone, ReadHeadersDone, SelectAcl, SelectSend,
         SelectDone, SelectOpened, OpenDone, OpenCapability, OpenAuthenticated,
           OpenRecheck, OpenCompress, OpenEnable,
         OpenFlush, OpenOpened, LogoutDone, CloseDone, In, At
<1>5. \A p \in PCs : \A f : p # "drained" /\ FrameOK(f) /\ Push(f, p) => Calls'
  BY <1>1, <1>4, PushCalls
<1>6. \A p \in PCs : p # "drained" /\ Goto(p) => Calls'
  BY <1>1, <1>4, GotoCalls
<1>7. \A v \in {"0", "-1", "-2"} : Return(v) => Calls'
  BY <1>1, <1>4, ReturnCalls
<1>8. CASE ExecDone
  <2>1. \E v \in {"0", "-1", "-2"} : Return(v)
    BY <1>8 DEF ExecDone
  <2>2. UNCHANGED <<idata, server>>
    BY <1>8 DEF ExecDone
  <2>3. QED
    BY <1>1, <1>7, <2>1, <2>2, PeerSame DEF IInv
<1>9. CASE IdleDone
  <2> DEFINE done == [verb |-> "DONE", seq |-> 0]
             e == [idata EXCEPT !.state = "IDLE"]
  <2>1. /\ idata' \in {idata, [e EXCEPT !.cmdbuf = Append(@, done)]}
        /\ UNCHANGED server
    BY <1>9 DEF IdleDone
  <2>2. \E v \in {"0", "-1", "-2"} : Return(v)
    BY <1>9 DEF IdleDone
  <2>3. Good(e) /\ e.cmdbuf = idata.cmdbuf
    <3>1. "IDLE" \in States
      BY DEF States
    <3>2. Good(e)
      BY <1>1, <3>1, SetFields
    <3>3. e.cmdbuf = idata.cmdbuf
      BY <1>1 DEF Good, IData
    <3>4. QED
      BY <3>2, <3>3
  <2>4. Append(idata.cmdbuf, done) \in Seq(Token)
    <3>1. done \in Token
      BY DEF Token
    <3>2. idata.cmdbuf \in Seq(Token)
      BY <1>1 DEF Good, IData
    <3>3. QED
      BY <3>1, <3>2
  <2> HIDE DEF e, done
  <2>5. Good([e EXCEPT !.cmdbuf = Append(@, done)])
    BY <2>3, <2>4, SetFields
  <2>6. QED
    BY <1>1, <1>7, <2>1, <2>2, <2>5, PeerSame DEF IInv
<1>10. CASE FetchDone
  <2>1. (\E v \in {"0", "-1", "-2"} : Return(v)) /\ UNCHANGED <<idata, server>>
    BY <1>10 DEF FetchDone
  <2>2. QED
    BY <1>1, <1>7, <2>1, PeerSame DEF IInv
<1>11. CASE ReadHeadersDone
  <2>1. /\ UNCHANGED server
        /\ idata' \in {idata, [idata EXCEPT !.reopen = @ \ {"NEWMAIL"}],
                       [idata EXCEPT !.reopen = @ \cup {"ALLOW"}]}
        /\ Goto("start") \/ Return("0") \/ Return("-1")
    BY <1>11 DEF ReadHeadersDone
  <2>2. QED
    BY <1>1, <1>2, <1>6, <1>7, <2>1, Reopens, PeerSame DEF IInv
<1>12. CASE SelectAcl
  <2>1. /\ UNCHANGED <<idata, server>>
        /\ Push(Exec("CMD", TRUE, FALSE), "selecting") \/ Goto("selecting")
    BY <1>12 DEF SelectAcl
  <2>2. QED
    BY <1>1, <1>2, <1>3, <1>5, <1>6, <2>1, PeerSame DEF IInv
<1>13. CASE SelectSend
  <2>1. idata' = [idata EXCEPT !.state = "SELECTED"] /\ Goto("start") /\ UNCHANGED server
    BY <1>13 DEF SelectSend
  <2>2. Good(idata')
    BY <1>1, <2>1, SetFields DEF States
  <2>3. QED
    BY <1>1, <1>2, <1>6, <2>1, <2>2, PeerSame DEF IInv
<1>14. CASE SelectDone
  <2>1. UNCHANGED server
    BY <1>14 DEF SelectDone
  <2>2. CASE SelectFails(idata)
    BY <1>1, <1>4, <2>1, <2>2, SelectFailsKeeps, PeerSame DEF IInv
  <2>3. CASE /\ idata' = [idata EXCEPT !.reopen = @ \ {"ALLOW", "NEWMAIL"}]
             /\ Push(Call("read_headers", "start"), "opened")
    BY <1>1, <1>2, <1>3, <1>5, <2>1, <2>3, Reopens, PeerSame DEF IInv
  <2>4. CASE UNCHANGED idata /\ Return("0")
    BY <1>1, <1>7, <2>1, <2>4, PeerSame DEF IInv
  <2>5. QED
    BY <1>14, <2>2, <2>3, <2>4 DEF SelectDone
<1>15. CASE SelectOpened
  <2>1. UNCHANGED server
    BY <1>15 DEF SelectOpened
  <2>2. CASE SelectFails(idata)
    BY <1>1, <1>4, <2>1, <2>2, SelectFailsKeeps, PeerSame DEF IInv
  <2>3. CASE idata' = [idata EXCEPT !.reopen = @ \ {"ALLOW"}] /\ Return("0")
    BY <1>1, <1>7, <2>1, <2>3, Reopens, PeerSame DEF IInv
  <2>4. QED
    BY <1>15, <2>2, <2>3 DEF SelectOpened
<1>16. CASE OpenDone \/ OpenCapability
  <2>1. UNCHANGED server
    BY <1>16 DEF OpenDone, OpenCapability
  <2>2. CASE /\ idata' \in {idata, [idata EXCEPT !.state = "AUTHENTICATED"]}
             /\ \/ Push(Command, "capa") \/ Push(Exec("CMD", FALSE, TRUE), "auth")
                \/ Push(Exec("CMD", FALSE, TRUE), "recheck") \/ Goto("opened")
    <3>1. Good(idata')
      BY <1>1, <2>2, SetFields DEF States
    <3>2. Calls'
      BY <1>2, <1>3, <1>5, <1>6, <2>2
    <3>3. QED
      BY <1>1, <2>1, <3>1, <3>2, PeerSame DEF IInv
  <2>3. CASE idata' = imap_close_connection(idata) /\ Return("-1")
    BY <1>1, <1>7, <2>1, <2>3, CloseConnection, PeerSame DEF IInv
  <2>4. QED
    BY <1>16, <2>2, <2>3 DEF OpenDone, OpenCapability
<1>17. CASE OpenRecheck \/ OpenCompress
  <2>1. /\ UNCHANGED <<idata, server>>
        /\ \/ Push(Exec("CMD", FALSE, TRUE), "compress")
           \/ Push(Exec("CMD", TRUE, FALSE), "enable")
    BY <1>17 DEF OpenRecheck, OpenCompress
  <2>2. QED
    BY <1>1, <1>2, <1>3, <1>5, <2>1, PeerSame DEF IInv
<1>18. CASE OpenAuthenticated
  <2>1. UNCHANGED server
    BY <1>18 DEF OpenAuthenticated
  <2>2. CASE /\ idata' = [idata EXCEPT !.state = "AUTHENTICATED"]
             /\ Push(Exec("CMD", FALSE, TRUE), "recheck")
    <3>1. Good(idata')
      BY <1>1, <2>2, SetFields DEF States
    <3>2. QED
      BY <1>1, <1>2, <1>3, <1>5, <2>1, <2>2, <3>1, PeerSame DEF IInv
  <2>3. CASE UNCHANGED idata /\ Return("-1")
    BY <1>1, <1>7, <2>1, <2>3, PeerSame DEF IInv
  <2>4. QED
    BY <1>18, <2>2, <2>3 DEF OpenAuthenticated
<1>19. CASE OpenEnable
  <2>1. /\ UNCHANGED <<idata, server>>
        /\ Push(Exec("CMD", TRUE, FALSE), "flush") \/ Goto("flush")
    BY <1>19 DEF OpenEnable
  <2>2. QED
    BY <1>1, <1>2, <1>3, <1>5, <1>6, <2>1, PeerSame DEF IInv
<1>20. CASE OpenFlush
  <2>1. UNCHANGED <<idata, server>> /\ Push(Exec("NULL", FALSE, TRUE), "opened")
    BY <1>20 DEF OpenFlush
  <2>2. QED
    BY <1>1, <1>2, <1>3, <1>5, <2>1, PeerSame DEF IInv
<1>21. CASE OpenOpened
  <2>1. (\E v \in {"0", "-1", "-2"} : Return(v)) /\ UNCHANGED <<idata, server>>
    BY <1>21 DEF OpenOpened
  <2>2. QED
    BY <1>1, <1>7, <2>1, PeerSame DEF IInv
<1>22. CASE LogoutDone
  <2>1. idata' = imap_new_idata /\ server' = NoServer /\ Return("0")
    BY <1>22 DEF LogoutDone
  <2>2. Peer'
    BY <2>1 DEF Peer, NoServer
  <2>3. QED
    BY <1>1, <1>7, <2>1, <2>2, NewIdata DEF IInv
<1>23. CASE CloseDone
  <2>1. idata' = imap_close_mailbox(idata) /\ Return("0") /\ UNCHANGED server
    BY <1>23 DEF CloseDone
  <2>2. QED
    BY <1>1, <1>7, <2>1, CloseMailboxGood, PeerSame DEF IInv
<1>24. QED
  BY <1>8, <1>9, <1>10, <1>11, <1>12, <1>13, <1>14, <1>15, <1>16, <1>17, <1>18, <1>19,
     <1>20, <1>21, <1>22, <1>23 DEF CallDone

LEMMA GarbledKeeps == IInv /\ SelectGarbled => IInv'
<1>1. ASSUME IInv, SelectGarbled PROVE IInv'
  <2>1. /\ Good(idata) /\ Calls /\ Peer /\ stack # <<>>
        /\ SelectFails(idata) /\ UNCHANGED server
    BY <1>1 DEF IInv, SelectGarbled, In, At
  <2>2. QED
    BY <2>1, SelectFailsKeeps, PeerSame DEF IInv
<1>2. QED
  BY <1>1

LEMMA CheckKeeps == IInv /\ Check => IInv'
<1> SUFFICES ASSUME IInv, Check PROVE IInv'
  OBVIOUS
<1>1. Good(idata) /\ Calls /\ Peer
  BY DEF IInv
<1>2. {"idled", "poll", "errcleanup", "noop", "nooped", "finish", "finished"} \subseteq PCs
  BY DEF PCs
<1>3. /\ FrameOK(Command) /\ FrameOK([Call("idle", "start") EXCEPT !.verb = "IDLE"])
      /\ FrameOK(Call("read_headers", "start"))
  BY NewFrames DEF Ops, PCs
<1>4. stack # <<>>
  BY DEF Check, CheckIdle, CheckIdled, CheckPoll, CheckPolled, CheckNoop, CheckNooped,
         CheckFinish, CheckErrcleanup, In, At
<1>5. \A p \in PCs : \A f : p # "drained" /\ FrameOK(f) /\ Push(f, p) => Calls'
  BY <1>1, <1>4, PushCalls
<1>6. \A p \in PCs : p # "drained" /\ Goto(p) => Calls'
  BY <1>1, <1>4, GotoCalls
<1>7. CASE CheckIdle
  <2>1. /\ UNCHANGED <<idata, server>>
        /\ \/ Push([Call("idle", "start") EXCEPT !.verb = "IDLE"], "idled")
           \/ Goto("poll")
    BY <1>7 DEF CheckIdle
  <2>2. QED
    BY <1>1, <1>2, <1>3, <1>5, <1>6, <2>1, PeerSame DEF IInv
<1>8. CASE CheckIdled \/ CheckPoll \/ CheckPolled \/ CheckNooped
  <2>1. /\ UNCHANGED <<idata, server>>
        /\ \E p \in {"errcleanup", "poll", "noop", "finish"} : Goto(p)
    BY <1>8 DEF CheckIdled, CheckPoll, CheckPolled, CheckNooped
  <2>2. QED
    BY <1>1, <1>2, <1>6, <2>1, PeerSame DEF IInv
<1>9. CASE CheckNoop
  <2>1. /\ UNCHANGED <<idata, server>>
        /\ Push(Command, "nooped") \/ Goto("finish")
    BY <1>9 DEF CheckNoop
  <2>2. QED
    BY <1>1, <1>2, <1>3, <1>5, <1>6, <2>1, PeerSame DEF IInv
<1>10. CASE CheckFinish
  <2>1. /\ UNCHANGED server /\ idata' = imap_cmd_finish(idata)
        /\ Push(Call("read_headers", "start"), "finished") \/ Goto("errcleanup")
    BY <1>10 DEF CheckFinish
  <2>2. QED
    BY <1>1, <1>2, <1>3, <1>5, <1>6, <2>1, FinishGood, PeerSame DEF IInv
<1>11. CASE CheckErrcleanup
  <2>1. /\ UNCHANGED server /\ Return("0")
        /\ idata' \in {imap_close_connection(imap_close_mailbox(idata)),
                       [idata EXCEPT !.reopen = @ \ {"ALLOW"}]}
    BY <1>11 DEF CheckErrcleanup
  <2>2. Calls'
    BY <1>1, <1>4, <2>1, ReturnCalls
  <2>3. QED
    BY <1>1, <2>1, <2>2, CloseMailboxGood, CloseConnection, Reopens, PeerSame DEF IInv
<1>12. QED
  BY <1>7, <1>8, <1>9, <1>10, <1>11 DEF Check

LEMMA UserKeeps == IInv /\ User => IInv'
<1> SUFFICES ASSUME IInv, User PROVE IInv'
  OBVIOUS
<1>1. Good(idata) /\ Calls /\ Peer
  BY DEF IInv
<1>2. {"read", "start", "auth", "acl", "idle", "closed", "done"} \subseteq PCs \ {"drained"}
  BY DEF PCs
<1>3. {"open", "select", "fetch", "check", "close", "logout"} \subseteq Ops
  BY DEF Ops
<1>4. \A op \in Ops, p \in PCs \ {"drained"} : Begin(Call(op, p)) => Calls'
  BY <1>1, NewFrames, BeginCalls
<1>5. \A verb \in {"CMD", "NULL"}, queue, failok \in BOOLEAN :
        Begin(Exec(verb, queue, failok)) => Calls'
  BY <1>1, NewFrames, BeginCalls
<1>6. ASSUME NEW f, FrameOK(f), NEW g, FrameOK(g), stack' = <<f, g>>, UNCHANGED <<ret, buf>>
      PROVE Calls'
  <2>1. /\ <<f, g>> \in Seq(Frame) /\ Len(<<f, g>>) = 2
        /\ <<f, g>>[1] = f /\ <<f, g>>[2] = g
    BY <1>6 DEF FrameOK
  <2>2. StackOK(<<f, g>>)
    BY <1>6, <2>1 DEF StackOK
  <2>3. QED
    BY <1>1, <1>6, <2>2 DEF Calls
<1>7. CASE Open
  <2>1. CASE /\ idata' = [idata EXCEPT !.state = "CONNECTED", !.fd = TRUE]
             /\ server' = NoServer /\ Begin(Call("open", "read"))
    <3> DEFINE e == [idata EXCEPT !.state = "CONNECTED"]
    <3>1. Good(e)
      BY <1>1, SetFields DEF States
    <3> HIDE DEF e
    <3>2. Good([e EXCEPT !.fd = TRUE])
      BY <3>1, SetFields
    <3>3. Peer'
      BY <2>1 DEF Peer, NoServer
    <3>4. QED
      BY <1>2, <1>3, <1>4, <2>1, <3>2, <3>3 DEF IInv, e
  <2>2. CASE /\ UNCHANGED <<idata, server>> /\ UNCHANGED <<ret, buf>>
             /\ stack' = <<Call("open", "auth"), Exec("CMD", FALSE, TRUE)>>
    <3>1. FrameOK(Call("open", "auth")) /\ FrameOK(Exec("CMD", FALSE, TRUE))
      BY <1>2, <1>3, NewFrames
    <3>2. QED
      BY <1>1, <1>6, <2>2, <3>1, PeerSame DEF IInv
  <2>3. QED
    BY <1>7, <2>1, <2>2 DEF Open
<1>8. CASE Select
  <2> DEFINE e == [idata EXCEPT !.ctx = "other"]
  <2>1. Good(e)
    BY <1>1, SetFields
  <2> HIDE DEF e
  <2>2. Good([e EXCEPT !.status = "none"])
    BY <2>1, SetFields
  <2>3. /\ idata' = [e EXCEPT !.status = "none"] /\ Begin(Call("select", "acl"))
        /\ UNCHANGED server
    BY <1>8 DEF Select, e
  <2>4. QED
    BY <1>1, <1>2, <1>3, <1>4, <2>2, <2>3, PeerSame DEF IInv
<1>9. CASE SetContext
  <2>1. /\ idata' = [idata EXCEPT !.ctx = "Context"] /\ UNCHANGED <<buf, stack, ret, server>>
    BY <1>9 DEF SetContext
  <2>2. Good(idata')
    BY <1>1, <2>1, SetFields
  <2>3. QED
    BY <1>1, <2>1, <2>2, PeerSame DEF IInv, Calls
<1>10. CASE AllowReopen \/ DisallowReopen
  <2>1. /\ idata' \in {[idata EXCEPT !.reopen = @ \cup {"ALLOW"}],
                       [idata EXCEPT !.reopen = @ \ {"ALLOW"}]}
        /\ UNCHANGED <<buf, stack, ret, server>>
    BY <1>10 DEF AllowReopen, DisallowReopen
  <2>2. QED
    BY <1>1, <2>1, Reopens, PeerSame DEF IInv, Calls
<1>11. CASE DoExec \/ Flush
  <2>1. /\ UNCHANGED <<idata, server>>
        /\ \E verb \in {"CMD", "NULL"}, queue, failok \in BOOLEAN :
              Begin(Exec(verb, queue, failok))
    BY <1>11 DEF DoExec, Flush
  <2>2. QED
    BY <1>1, <1>5, <2>1, PeerSame DEF IInv
<1>12. CASE FetchMessage
  <2>1. UNCHANGED <<idata, server>> /\ Begin(Call("fetch", "start"))
    BY <1>12 DEF FetchMessage
  <2>2. QED
    BY <1>1, <1>2, <1>3, <1>4, <2>1, PeerSame DEF IInv
<1>13. CASE CheckMailbox
  <2>1. /\ UNCHANGED server /\ Begin(Call("check", "idle"))
        /\ idata' = [idata EXCEPT !.reopen = @ \cup {"ALLOW"}]
    BY <1>13 DEF CheckMailbox
  <2>2. QED
    BY <1>1, <1>2, <1>3, <1>4, <2>1, Reopens, PeerSame DEF IInv
<1>14. CASE CloseMailbox
  <2>1. UNCHANGED <<idata, server>>
    BY <1>14 DEF CloseMailbox
  <2>2. CASE Begin(Call("close", "closed"))
    BY <1>1, <1>2, <1>3, <1>4, <2>1, <2>2, PeerSame DEF IInv
  <2>3. CASE stack' = <<Call("close", "closed"), Command>> /\ UNCHANGED <<ret, buf>>
    <3>1. FrameOK(Call("close", "closed")) /\ FrameOK(Command)
      BY <1>2, <1>3, NewFrames
    <3>2. QED
      BY <1>1, <1>6, <2>1, <2>3, <3>1, PeerSame DEF IInv
  <2>4. QED
    BY <1>14, <2>2, <2>3 DEF CloseMailbox
<1>15. CASE Logout
  <2>1. /\ UNCHANGED server
        /\ \/ Begin(Call("logout", "done")) /\ UNCHANGED idata
           \/ /\ idata' = [idata EXCEPT !.status = "BYE"]
              /\ Begin(Call("logout", "start"))
    BY <1>15 DEF Logout
  <2>2. Good([idata EXCEPT !.status = "BYE"])
    BY <1>1, SetFields
  <2>3. QED
    BY <1>1, <1>2, <1>3, <1>4, <2>1, <2>2, PeerSame DEF IInv
<1>16. QED
  BY <1>7, <1>8, <1>9, <1>10, <1>11, <1>12, <1>13, <1>14, <1>15 DEF User
------------------------------------------------------------------------------
(* The theorems.                                                            *)

LEMMA InitHolds == Init => IInv
<1>1. ASSUME Init PROVE IInv
  <2>1. Good(idata)
    BY <1>1, NewIdata DEF Init
  <2>2. Calls
    <3>1. <<>> \in Seq(Frame) /\ Len(<<>>) = 0
      OBVIOUS
    <3>2. StackOK(<<>>)
      BY <3>1 DEF StackOK
    <3>3. QED
      BY <1>1, <3>2, PlainLine DEF Init, Calls
  <2>3. Peer
    BY <1>1 DEF Init, Peer, NoServer
  <2>4. QED
    BY <2>1, <2>2, <2>3 DEF IInv
<1>2. QED
  BY <1>1

LEMMA NextKeeps == IInv /\ [Next]_vars => IInv'
<1>1. ASSUME IInv, UNCHANGED vars PROVE IInv'
  BY <1>1 DEF IInv, Calls, Peer, vars
<1>2. QED
  BY <1>1, StartKeeps, StepKeeps, DoneKeeps, GarbledKeeps, CheckKeeps, UserKeeps DEF Next

LEMMA Inductive == Spec => []IInv
BY InitHolds, NextKeeps, PTL DEF Spec

\* Every variable has its type, for every ring size and tag space: no index of
\* the ring leaves it, however calls nest and whatever the server says.
THEOREM TypeCorrect == Spec => []TypeOK
<1>1. IInv => TypeOK
  BY DEF IInv, TypeOK, Good, Calls, StackOK, Peer
<1>2. QED
  BY <1>1, Inductive, PTL

\* No waiting command is ever overwritten by cmd_new() or skipped by the scan
\* of imap_cmd_step(), and no two waiting commands share a tag, also when the
\* server completes them out of order or the connection fails in between.
THEOREM RingIsSafe == Spec => []RingSafe
<1>1. IInv => RingSafe
  BY DistinctTags DEF IInv, RingSafe
<1>2. QED
  BY <1>1, Inductive, PTL
------------------------------------------------------------------------------
(* What the call stack looks like.                                          *)

\* Where a frame stands while another one runs above it.
Resting == {"drained", "finished", "capa", "auth", "recheck", "compress", "enable", "flush",
            "opened", "selecting", "closed", "idled", "nooped"}

\* Where imap_cmd_start() and the loops round imap_cmd_step() stand.
Commanding == {"start", "drained", "write", "failed", "read"}

\* A frame that only queues its command never reads an answer; IDLE is the
\* command of imap_cmd_idle() and of nothing else; imap_check_mailbox() sends
\* no command of its own and only polls; imap_cmd_finish() keeps the result of
\* the scan that called it.
Framed(f) ==
  /\ f.queue => /\ f.op = "exec" /\ f.verb = "CMD"
                /\ f.pc \in {"start", "drained", "write", "failed"}
  /\ f.op = "idle" <=> f.verb = "IDLE"
  /\ f.op = "check" => f.pc \notin Commanding
  /\ f.verb = "NULL" => f.op = "exec"
  /\ f.pc = "finished" => f.op = "check" \/ f.rc \in {"OK", "NO", "BAD"}

\* What frame f may have called g for.
Called(f, g) ==
  /\ f.pc \in Resting
  /\ f.pc = "drained" => g.op = "exec" /\ ~g.queue /\ g.failok
  /\ f.pc = "finished" => g.op = "read_headers"
  /\ f.pc \in {"enable", "flush"} => g.queue

Shaped(s) == /\ \A k \in 1 .. Len(s) : Framed(s[k])
             /\ \A k \in 1 .. Len(s) - 1 : Called(s[k], s[k + 1])

\* The stack after each of the ways it changes, frame by frame.
LEMMA GotoStack ==
  ASSUME Calls, stack # <<>>, NEW p, stack' = [stack EXCEPT ![Len(stack)].pc = p]
  PROVE /\ stack' # <<>> /\ Len(stack') = Len(stack) /\ Len(stack) \in Nat \ {0}
        /\ top' = [top EXCEPT !.pc = p]
        /\ \A k \in 1 .. Len(stack) - 1 : stack'[k] = stack[k]
<1>1. stack \in Seq(Frame) /\ Len(stack) \in Nat \ {0}
  BY DEF Calls, StackOK
<1>2. stack' = [stack EXCEPT ![Len(stack)].pc = p]
  OBVIOUS
<1>3. Len(stack') = Len(stack)
  BY <1>1, <1>2
<1>4. stack' # <<>>
  BY <1>1, <1>2, <1>3
<1>5. stack'[Len(stack)] = [stack[Len(stack)] EXCEPT !.pc = p]
  BY <1>1, <1>2
<1>6. \A k \in 1 .. Len(stack) - 1 : stack'[k] = stack[k]
  BY <1>1, <1>2
<1>7. QED
  BY <1>1, <1>3, <1>4, <1>5, <1>6 DEF top

LEMMA AppendAt ==
  ASSUME NEW T, NEW s \in Seq(T), NEW f \in T
  PROVE /\ Len(Append(s, f)) = Len(s) + 1 /\ Append(s, f)[Len(s) + 1] = f
        /\ Append(s, f) # <<>>
        /\ \A k \in 1 .. Len(s) : Append(s, f)[k] = s[k]
OBVIOUS

LEMMA PushStack ==
  ASSUME Calls, stack # <<>>, NEW p, NEW f, stack' = Append([stack EXCEPT ![Len(stack)].pc = p], f)
  PROVE /\ stack' # <<>> /\ Len(stack') = Len(stack) + 1 /\ Len(stack) \in Nat \ {0}
        /\ top' = f
        /\ stack'[Len(stack)] = [top EXCEPT !.pc = p]
        /\ \A k \in 1 .. Len(stack) - 1 : stack'[k] = stack[k]
<1>1. stack \in Seq(Frame) /\ Len(stack) \in Nat \ {0}
  BY DEF Calls, StackOK
<1> DEFINE g == [top EXCEPT !.pc = p]
           s == [stack EXCEPT ![Len(stack)] = g]
<1>2. [stack EXCEPT ![Len(stack)].pc = p] = s
  BY DEF top
<1> HIDE DEF g
<1>3. s \in Seq(Frame \cup {g, f}) /\ Len(s) = Len(stack) /\ s[Len(stack)] = g
      /\ \A k \in 1 .. Len(stack) - 1 : s[k] = stack[k]
  <2>1. stack \in Seq(Frame \cup {g, f})
    BY <1>1
  <2>2. QED
    BY <1>1, <2>1
<1>4. stack' = Append(s, f)
  BY <1>2
<1> HIDE DEF s
<1>5. /\ Len(stack') = Len(stack) + 1 /\ stack'[Len(stack) + 1] = f
      /\ \A k \in 1 .. Len(stack) : stack'[k] = s[k]
      /\ stack' # <<>>
  <2>1. f \in Frame \cup {g, f} /\ s \in Seq(Frame \cup {g, f})
    BY <1>3
  <2>2. PICK T : T = Frame \cup {g, f}
    OBVIOUS
  <2>3. s \in Seq(T) /\ f \in T
    BY <2>1, <2>2
  <2>4. /\ Len(Append(s, f)) = Len(s) + 1 /\ Append(s, f)[Len(s) + 1] = f
        /\ Append(s, f) # <<>>
        /\ \A k \in 1 .. Len(s) : Append(s, f)[k] = s[k]
    BY <2>3, AppendAt
  <2>5. QED
    BY <1>3, <1>4, <2>4
<1>6. stack' # <<>>
  BY <1>5
<1>7. top' = f
  BY <1>5 DEF top
<1>8. stack'[Len(stack)] = g /\ \A k \in 1 .. Len(stack) - 1 : stack'[k] = stack[k]
  BY <1>1, <1>3, <1>5
<1>9. QED
  BY <1>1, <1>5, <1>6, <1>7, <1>8 DEF g

\* imap_cmd_finish() that goes on to imap_read_headers().
LEMMA FinishStack ==
  ASSUME Calls, stack # <<>>, NEW rc, rc # "CONTINUE", NEW f,
         stack' = Append([Stepped(rc) EXCEPT ![Len(stack)].pc = "finished"], f)
  PROVE /\ stack' # <<>> /\ Len(stack') = Len(stack) + 1 /\ Len(stack) \in Nat \ {0}
        /\ top' = f
        /\ stack'[Len(stack)] = [top EXCEPT !.rc = rc, !.pc = "finished"]
        /\ \A k \in 1 .. Len(stack) - 1 : stack'[k] = stack[k]
<1>1. stack \in Seq(Frame) /\ Len(stack) \in Nat \ {0} /\ top \in Frame /\ top = stack[Len(stack)]
  BY TopFrame DEF Calls, StackOK, FrameOK, top
<1> DEFINE r == [top EXCEPT !.rc = rc]
           d == [r EXCEPT !.pc = "done"]
           g == [r EXCEPT !.pc = "finished"]
           n == Len(stack)
           s1 == [stack EXCEPT ![n] = r]
           s2 == [stack EXCEPT ![n] = d]
           s == [stack EXCEPT ![n] = g]
<1>2. Stepped(rc) = [s1 EXCEPT ![n].pc = "done"]
  BY <1>1 DEF Stepped
<1>3. [s1 EXCEPT ![n].pc = "done"] = s2
  <2> HIDE DEF r
  <2>1. s1[n] = r
    BY <1>1
  <2>2. [s1 EXCEPT ![n].pc = "done"] = [s1 EXCEPT ![n] = d]
    BY <2>1
  <2> HIDE DEF d
  <2>3. [s1 EXCEPT ![n] = d] = s2
    BY <1>1
  <2>4. QED
    BY <2>2, <2>3
<1>4. [s2 EXCEPT ![n].pc = "finished"] = s
  <2>0. [d EXCEPT !.pc = "finished"] = g
    <3>1. r = [op |-> top.op, pc |-> top.pc, rc |-> rc, verb |-> top.verb,
               queue |-> top.queue, failok |-> top.failok]
      BY <1>1 DEF Frame
    <3> HIDE DEF r
    <3>2. QED
      BY <3>1
  <2> HIDE DEF d
  <2>1. s2[n] = d
    BY <1>1
  <2>2. [s2 EXCEPT ![n].pc = "finished"] = [s2 EXCEPT ![n] = g]
    BY <2>0, <2>1
  <2> HIDE DEF g
  <2>3. [s2 EXCEPT ![n] = g] = s
    BY <1>1
  <2>4. QED
    BY <2>2, <2>3
<1> HIDE DEF g, s1, s2
<1>5. s \in Seq(Frame \cup {g, f}) /\ Len(s) = n /\ s[n] = g
      /\ \A k \in 1 .. n - 1 : s[k] = stack[k]
  <2>1. stack \in Seq(Frame \cup {g, f})
    BY <1>1
  <2>2. QED
    BY <1>1, <2>1
<1>6. stack' = Append(s, f)
  BY <1>2, <1>3, <1>4
<1> HIDE DEF s
<1>7. /\ Len(stack') = n + 1 /\ stack'[n + 1] = f
      /\ \A k \in 1 .. n : stack'[k] = s[k]
      /\ stack' # <<>>
  <2>1. f \in Frame \cup {g, f} /\ s \in Seq(Frame \cup {g, f})
    BY <1>5
  <2>2. PICK T : T = Frame \cup {g, f}
    OBVIOUS
  <2>3. s \in Seq(T) /\ f \in T
    BY <2>1, <2>2
  <2>4. /\ Len(Append(s, f)) = Len(s) + 1 /\ Append(s, f)[Len(s) + 1] = f
        /\ Append(s, f) # <<>>
        /\ \A k \in 1 .. Len(s) : Append(s, f)[k] = s[k]
    BY <2>3, AppendAt
  <2>5. QED
    BY <1>5, <1>6, <2>4
<1>8. stack' # <<>>
  BY <1>7
<1>9. g = [top EXCEPT !.rc = rc, !.pc = "finished"]
  BY DEF g
<1>10. top' = f
  BY <1>7 DEF top
<1>11. stack'[n] = g /\ \A k \in 1 .. n - 1 : stack'[k] = stack[k]
  BY <1>1, <1>5, <1>7
<1>12. QED
  BY <1>1, <1>7, <1>8, <1>9, <1>10, <1>11

LEMMA ReturnStack ==
  ASSUME Calls, stack # <<>>, NEW v, Return(v)
  PROVE /\ Len(stack') = Len(stack) - 1 /\ Len(stack) \in Nat \ {0} /\ ret' = v
        /\ \A k \in 1 .. Len(stack) - 1 : stack'[k] = stack[k]
        /\ stack' # <<>> => Len(stack) > 1 /\ top' = stack[Len(stack) - 1]
<1>1. stack \in Seq(Frame) /\ Len(stack) \in Nat \ {0}
  BY DEF Calls, StackOK
<1>2. PICK n \in Nat : n = Len(stack) - 1
  BY <1>1
<1>3. stack' = SubSeq(stack, 1, n)
  BY <1>2 DEF Return
<1>4. /\ Len(stack') = n
      /\ \A k \in 1 .. n : stack'[k] = stack[k]
  <2>1. \A k \in 1 .. n : stack[k] \in Frame
    BY <1>1, <1>2
  <2>2. /\ Len(stack') = IF 1 <= n THEN n - 1 + 1 ELSE 0
        /\ \A k \in 1 .. n - 1 + 1 : stack'[k] = stack[1 + k - 1]
    BY <1>3, <2>1, SubSeqProperties
  <2>3. QED
    BY <2>2
<1>5. stack' # <<>> => n > 0
  <2>1. SUFFICES ASSUME n = 0 PROVE stack' = <<>>
    OBVIOUS
  <2>2. QED
    BY <1>1, <1>3, <2>1
<1>6. QED
  BY <1>1, <1>2, <1>4, <1>5 DEF top, Return

LEMMA SteppedStack ==
  ASSUME Calls, stack # <<>>, NEW rc, stack' = Stepped(rc)
  PROVE /\ stack' # <<>> /\ Len(stack') = Len(stack) /\ Len(stack) \in Nat \ {0}
        /\ top' = IF rc # "CONTINUE" THEN [top EXCEPT !.rc = rc, !.pc = "done"]
                  ELSE [top EXCEPT !.pc = IF top.op = "check" THEN "poll" ELSE "read"]
        /\ \A k \in 1 .. Len(stack) - 1 : stack'[k] = stack[k]
<1>1. stack \in Seq(Frame) /\ Len(stack) \in Nat \ {0}
  BY DEF Calls, StackOK
<1>2. stack' = IF rc # "CONTINUE"
                 THEN [stack EXCEPT ![Len(stack)].rc = rc, ![Len(stack)].pc = "done"]
                 ELSE [stack EXCEPT ![Len(stack)].pc = IF top.op = "check" THEN "poll" ELSE "read"]
  BY DEF Stepped
<1>3. DOMAIN stack' = DOMAIN stack
  BY <1>2
<1>4. Len(stack') = Len(stack)
  BY <1>1, <1>2
<1>5. stack' # <<>>
  BY <1>1, <1>3
<1>6. \A k \in 1 .. Len(stack) - 1 : stack'[k] = stack[k]
  BY <1>1, <1>2
<1>7. stack'[Len(stack)] = IF rc # "CONTINUE" THEN [stack[Len(stack)] EXCEPT !.rc = rc, !.pc = "done"]
                  ELSE [stack[Len(stack)] EXCEPT !.pc = IF top.op = "check" THEN "poll" ELSE "read"]
  <2>1. CASE rc # "CONTINUE"
    <3> DEFINE g == [stack[Len(stack)] EXCEPT !.rc = rc]
               h == [g EXCEPT !.pc = "done"]
               s == [stack EXCEPT ![Len(stack)] = g]
    <3>1. /\ [stack EXCEPT ![Len(stack)].rc = rc] = s
          /\ s[Len(stack)] = g /\ Len(stack) \in DOMAIN s
      BY <1>1
    <3>2. stack' = [s EXCEPT ![Len(stack)].pc = "done"]
      BY <1>2, <2>1, <3>1
    <3> HIDE DEF s, g
    <3>3. stack'[Len(stack)] = h
      BY <3>1, <3>2
    <3>4. QED
      BY <2>1, <3>3 DEF g
  <2>2. CASE rc = "CONTINUE"
    BY <1>1, <1>2, <2>2
  <2>3. QED
    BY <2>1, <2>2
<1>8. QED
  BY <1>1, <1>4, <1>5, <1>6, <1>7 DEF top

LEMMA BeginStack ==
  ASSUME NEW f, Begin(f)
  PROVE stack' # <<>> /\ Len(stack') = 1 /\ top' = f /\ stack'[1] = f
BY DEF Begin, top

\* The shape of the stack after each of them.
LEMMA TopShape ==
  ASSUME Shaped(stack), stack # <<>>, Calls
  PROVE /\ Framed(top)
        /\ Len(stack) > 1 => Called(stack[Len(stack) - 1], top)
<1>1. Len(stack) \in Nat \ {0}
  BY DEF Calls, StackOK
<1>2. QED
  BY <1>1 DEF Shaped, top

LEMMA ReplaceShape ==
  ASSUME Calls, Shaped(stack), stack # <<>>, stack' # <<>>, Len(stack') = Len(stack),
         \A k \in 1 .. Len(stack) - 1 : stack'[k] = stack[k],
         Framed(top'), top'.op = top.op, top'.queue = top.queue, top'.failok = top.failok
  PROVE Shaped(stack')
<1>1. Len(stack) \in Nat \ {0} /\ stack'[Len(stack)] = top' /\ top = stack[Len(stack)]
  BY DEF Calls, StackOK, top
<1>2. \A k \in 1 .. Len(stack') : Framed(stack'[k])
  BY <1>1 DEF Shaped
<1>3. ASSUME NEW k \in 1 .. Len(stack') - 1 PROVE Called(stack'[k], stack'[k + 1])
  <2>1. stack'[k] = stack[k] /\ Called(stack[k], stack[k + 1])
    BY <1>1, <1>3 DEF Shaped
  <2>2. CASE k + 1 = Len(stack)
    BY <1>1, <2>1, <2>2 DEF Called
  <2>3. CASE k + 1 # Len(stack)
    <3>1. stack'[k + 1] = stack[k + 1]
      BY <1>1, <1>3, <2>3
    <3>2. QED
      BY <2>1, <3>1
  <2>4. QED
    BY <2>2, <2>3
<1>4. QED
  BY <1>2, <1>3 DEF Shaped

LEMMA GotoShape ==
  ASSUME Calls, Shaped(stack), stack # <<>>, NEW p,
         stack' = [stack EXCEPT ![Len(stack)].pc = p],
         ~top.queue \/ p \in {"write", "failed", "drained"},
         top.op # "check" \/ p \notin Commanding, p # "finished"
  PROVE Shaped(stack')
<1>1. top \in Frame /\ Framed(top)
  BY TopFrame, TopShape DEF FrameOK
<1>2. /\ stack' # <<>> /\ Len(stack') = Len(stack) /\ top' = [top EXCEPT !.pc = p]
      /\ \A k \in 1 .. Len(stack) - 1 : stack'[k] = stack[k]
  BY GotoStack
<1>3. /\ top'.op = top.op /\ top'.queue = top.queue /\ top'.failok = top.failok
      /\ top'.verb = top.verb /\ top'.pc = p
  BY <1>1, <1>2 DEF Frame
<1>4. Framed(top')
  BY <1>1, <1>3 DEF Framed
<1>5. QED
  BY <1>2, <1>3, <1>4, ReplaceShape

LEMMA SteppedShape ==
  ASSUME Calls, Shaped(stack), stack # <<>>, NEW rc, stack' = Stepped(rc), ~top.queue
  PROVE Shaped(stack')
<1>1. top \in Frame /\ Framed(top)
  BY TopFrame, TopShape DEF FrameOK
<1>2. /\ stack' # <<>> /\ Len(stack') = Len(stack)
      /\ top' = IF rc # "CONTINUE" THEN [top EXCEPT !.rc = rc, !.pc = "done"]
                  ELSE [top EXCEPT !.pc = IF top.op = "check" THEN "poll" ELSE "read"]
      /\ \A k \in 1 .. Len(stack) - 1 : stack'[k] = stack[k]
  BY SteppedStack
<1>3. /\ top'.op = top.op /\ top'.queue = top.queue /\ top'.failok = top.failok
      /\ top'.verb = top.verb /\ top'.pc \in {"done", "poll", "read"}
      /\ top.op = "check" => top'.pc # "read"
  BY <1>1, <1>2 DEF Frame
<1>4. Framed(top')
  BY <1>1, <1>3 DEF Framed, Commanding
<1>5. QED
  BY <1>2, <1>3, <1>4, ReplaceShape

LEMMA ExtendShape ==
  ASSUME Calls, Shaped(stack), stack # <<>>, stack' # <<>>, Len(stack') = Len(stack) + 1,
         \A k \in 1 .. Len(stack) - 1 : stack'[k] = stack[k],
         NEW g, stack'[Len(stack)] = g, Framed(g), Framed(top'), Called(g, top'),
         g.op = top.op, g.queue = top.queue, g.failok = top.failok
  PROVE Shaped(stack')
<1>1. Len(stack) \in Nat \ {0} /\ stack'[Len(stack) + 1] = top'
  BY DEF Calls, StackOK, top
<1>2. \A k \in 1 .. Len(stack') : Framed(stack'[k])
  BY <1>1 DEF Shaped
<1>3. ASSUME NEW k \in 1 .. Len(stack') - 1 PROVE Called(stack'[k], stack'[k + 1])
  <2>1. CASE k = Len(stack)
    BY <1>1, <2>1
  <2>2. CASE k + 1 = Len(stack)
    <3>1. stack'[k] = stack[k] /\ Called(stack[k], top)
      BY <1>1, <2>2 DEF Shaped, top
    <3>2. stack'[k + 1] = g
      BY <2>2
    <3>3. QED
      BY <3>1, <3>2 DEF Called
  <2>3. CASE k + 1 < Len(stack)
    <3>1. stack'[k] = stack[k] /\ stack'[k + 1] = stack[k + 1]
      BY <1>1, <2>3
    <3>2. QED
      BY <1>1, <2>3, <3>1 DEF Shaped
  <2>4. QED
    BY <1>1, <1>3, <2>1, <2>2, <2>3
<1>4. QED
  BY <1>2, <1>3 DEF Shaped

LEMMA PushShape ==
  ASSUME Calls, Shaped(stack), stack # <<>>, NEW p, NEW f, Push(f, p), Framed(f),
         ~top.queue \/ p = "drained", p \in Resting, top.op # "check" \/ p # "drained",
         p = "drained" => f.op = "exec" /\ ~f.queue /\ f.failok,
         p = "finished" => top.op = "check" /\ f.op = "read_headers",
         p \in {"enable", "flush"} => f.queue
  PROVE Shaped(stack')
<1>1. top \in Frame /\ Framed(top) /\ Len(stack) \in Nat \ {0}
  BY TopFrame, TopShape DEF FrameOK, Calls, StackOK
<1> DEFINE g == [top EXCEPT !.pc = p]
<1>2. /\ stack' # <<>> /\ Len(stack') = Len(stack) + 1 /\ top' = f
      /\ stack'[Len(stack)] = g
      /\ \A k \in 1 .. Len(stack) - 1 : stack'[k] = stack[k]
  BY PushStack DEF Push
<1>3. /\ g.op = top.op /\ g.queue = top.queue /\ g.failok = top.failok
      /\ g.verb = top.verb /\ g.pc = p
  BY <1>1 DEF Frame
<1> HIDE DEF g
<1>4. Framed(g)
  BY <1>1, <1>3 DEF Framed, Resting, Commanding
<1>5. Called(g, f)
  BY <1>3 DEF Called
<1>6. QED
  BY <1>2, <1>3, <1>4, <1>5, ExtendShape

LEMMA FinishShape ==
  ASSUME Calls, Shaped(stack), stack # <<>>, NEW rc \in {"OK", "NO", "BAD"}, ~top.queue,
         stack' = Append([Stepped(rc) EXCEPT ![Len(stack)].pc = "finished"],
                         Call("read_headers", "start"))
  PROVE Shaped(stack')
<1> DEFINE f == Call("read_headers", "start")
           g == [top EXCEPT !.rc = rc, !.pc = "finished"]
<1>1. top \in Frame /\ Framed(top)
  BY TopFrame, TopShape DEF FrameOK
<1>2. /\ stack' # <<>> /\ Len(stack') = Len(stack) + 1 /\ top' = f
      /\ stack'[Len(stack)] = g
      /\ \A k \in 1 .. Len(stack) - 1 : stack'[k] = stack[k]
  BY FinishStack
<1>3. /\ g.op = top.op /\ g.queue = top.queue /\ g.failok = top.failok
      /\ g.verb = top.verb /\ g.pc = "finished" /\ g.rc = rc
  BY <1>1 DEF Frame
<1>4. f.op = "read_headers" /\ Framed(f)
  BY DEF Call, Framed, Commanding
<1> HIDE DEF g, f
<1>5. Framed(g)
  BY <1>1, <1>3 DEF Framed, Commanding
<1>6. Called(g, f)
  BY <1>3, <1>4 DEF Called, Resting
<1>7. QED
  BY <1>2, <1>3, <1>4, <1>5, <1>6, ExtendShape

LEMMA ReturnShape ==
  ASSUME Calls, Shaped(stack), stack # <<>>, NEW v, Return(v)
  PROVE Shaped(stack')
<1>1. /\ Len(stack') = Len(stack) - 1 /\ Len(stack) \in Nat \ {0}
      /\ \A k \in 1 .. Len(stack) - 1 : stack'[k] = stack[k]
  BY ReturnStack
<1>2. \A k \in 1 .. Len(stack') : Framed(stack'[k])
  BY <1>1 DEF Shaped
<1>3. \A k \in 1 .. Len(stack') - 1 : Called(stack'[k], stack'[k + 1])
  BY <1>1 DEF Shaped
<1>4. QED
  BY <1>2, <1>3 DEF Shaped

LEMMA BeginShape ==
  ASSUME NEW f, Begin(f), Framed(f)
  PROVE Shaped(stack')
BY BeginStack DEF Shaped

LEMMA BeginPairShape ==
  ASSUME NEW f, NEW g, stack' = <<f, g>>, Framed(f), Framed(g), Called(f, g)
  PROVE Shaped(stack') /\ top' = g /\ stack' # <<>>
<1>1. Len(<<f, g>>) = 2 /\ <<f, g>>[1] = f /\ <<f, g>>[2] = g
  OBVIOUS
<1>2. QED
  BY <1>1 DEF Shaped, top

\* The frames that are pushed.
LEMMA FramedCalls ==
  /\ \A op \in Ops \ {"idle"}, p \in PCs :
       /\ p # "finished" /\ (op # "check" \/ p \notin Commanding) => Framed(Call(op, p))
       /\ Call(op, p).op = op /\ Call(op, p).pc = p /\ Call(op, p).rc = "OK"
       /\ ~Call(op, p).queue /\ Call(op, p).verb = "CMD"
  /\ \A verb \in {"CMD", "NULL"}, queue, failok \in BOOLEAN :
       /\ Exec(verb, queue, failok).op = "exec" /\ Exec(verb, queue, failok).pc = "start"
       /\ Exec(verb, queue, failok).queue = queue /\ Exec(verb, queue, failok).failok = failok
       /\ Exec(verb, queue, failok).verb = verb
       /\ verb = "CMD" \/ ~queue => Framed(Exec(verb, queue, failok))
  /\ LET idle == [Call("idle", "start") EXCEPT !.verb = "IDLE"]
     IN /\ Framed(idle) /\ idle.op = "idle" /\ idle.pc = "start" /\ ~idle.queue
        /\ idle.verb = "IDLE"
<1>1. ASSUME NEW op \in Ops \ {"idle"}, NEW p \in PCs
      PROVE /\ p # "finished" /\ (op # "check" \/ p \notin Commanding) => Framed(Call(op, p))
            /\ Call(op, p).op = op /\ Call(op, p).pc = p
            /\ Call(op, p).rc = "OK" /\ ~Call(op, p).queue /\ Call(op, p).verb = "CMD"
  BY DEF Framed, Call
<1>2. ASSUME NEW verb \in {"CMD", "NULL"}, NEW queue \in BOOLEAN, NEW failok \in BOOLEAN
      PROVE /\ Exec(verb, queue, failok).op = "exec" /\ Exec(verb, queue, failok).pc = "start"
            /\ Exec(verb, queue, failok).queue = queue /\ Exec(verb, queue, failok).failok = failok
            /\ Exec(verb, queue, failok).verb = verb
            /\ verb = "CMD" \/ ~queue => Framed(Exec(verb, queue, failok))
  <2> DEFINE e == Exec(verb, queue, failok)
             c == Call("exec", "start")
  <2>1. c \in Frame /\ c.op = "exec" /\ c.pc = "start" /\ c.rc = "OK"
    BY DEF Frame, Call, Ops, PCs, StepResult
  <2>2. /\ e.op = "exec" /\ e.pc = "start" /\ e.verb = verb /\ e.rc = "OK"
        /\ e.queue = queue /\ e.failok = failok
    <3> HIDE DEF c
    <3>1. e = [c EXCEPT !.verb = verb, !.queue = queue, !.failok = failok]
      BY DEF Exec, c
    <3> HIDE DEF e
    <3>2. QED
      BY <2>1, <3>1 DEF Frame
  <2> HIDE DEF e
  <2>3. verb = "CMD" \/ ~queue => Framed(e)
    BY <2>2 DEF Framed
  <2>4. QED
    BY <2>2, <2>3 DEF e
<1>3. LET idle == [Call("idle", "start") EXCEPT !.verb = "IDLE"]
      IN /\ Framed(idle) /\ idle.op = "idle" /\ idle.pc = "start" /\ ~idle.queue
         /\ idle.verb = "IDLE"
  BY DEF Framed, Call
<1>4. QED
  BY <1>1, <1>2, <1>3

\* What those steps leave on top.
LEMMA GotoTop ==
  ASSUME Calls, stack # <<>>, NEW p, stack' = [stack EXCEPT ![Len(stack)].pc = p]
  PROVE /\ stack' # <<>> /\ top'.pc = p /\ top'.op = top.op /\ top'.verb = top.verb
        /\ top'.rc = top.rc /\ top'.queue = top.queue /\ top'.failok = top.failok
<1>1. top \in Frame
  BY TopFrame DEF FrameOK
<1>2. stack' # <<>> /\ top' = [top EXCEPT !.pc = p]
  BY GotoStack
<1>3. QED
  BY <1>1, <1>2 DEF Frame

LEMMA ReturnTop ==
  ASSUME Calls, Shaped(stack), stack # <<>>, NEW v, Return(v)
  PROVE ret' = v /\ (stack' # <<>> => Called(top', top) /\ Framed(top') /\ FrameOK(top'))
<1>1. /\ ret' = v /\ Len(stack) \in Nat \ {0}
      /\ stack' # <<>> => Len(stack) > 1 /\ top' = stack[Len(stack) - 1]
  BY ReturnStack
<1>2. ASSUME stack' # <<>> PROVE Called(top', top) /\ Framed(top') /\ FrameOK(top')
  <2>1. Len(stack) - 1 \in 1 .. Len(stack) /\ top' = stack[Len(stack) - 1]
    BY <1>1, <1>2
  <2>2. Called(stack[Len(stack) - 1], top)
    BY <1>1, <1>2, TopShape
  <2>3. Framed(stack[Len(stack) - 1]) /\ FrameOK(stack[Len(stack) - 1])
    BY <2>1 DEF Shaped, Calls, StackOK
  <2>4. QED
    BY <2>1, <2>2, <2>3
<1>3. QED
  BY <1>1, <1>2

LEMMA SteppedTop ==
  ASSUME Calls, stack # <<>>, NEW rc, stack' = Stepped(rc)
  PROVE /\ stack' # <<>> /\ top'.op = top.op /\ top'.verb = top.verb
        /\ top'.queue = top.queue /\ top'.failok = top.failok
        /\ rc # "CONTINUE" => top'.pc = "done" /\ top'.rc = rc
        /\ rc = "CONTINUE" => top'.pc = IF top.op = "check" THEN "poll" ELSE "read"
<1>1. top \in Frame
  BY TopFrame DEF FrameOK
<1>2. /\ stack' # <<>>
      /\ top' = IF rc # "CONTINUE" THEN [top EXCEPT !.rc = rc, !.pc = "done"]
                  ELSE [top EXCEPT !.pc = IF top.op = "check" THEN "poll" ELSE "read"]
  BY SteppedStack
<1>3. QED
  BY <1>1, <1>2 DEF Frame
------------------------------------------------------------------------------
(* A connection that has failed is silent.                                  *)

\* A command is on its way to the server, or has been answered, only if the
\* connection had not failed.
Sound(f) ==
  /\ f.pc \in {"scan", "write"} => idata.status # "FATAL"
  /\ f.op = "exec" /\ f.pc = "done" /\ f.rc \in {"OK", "NO"} => idata.status # "FATAL"
  /\ f.pc = "drained" /\ ret # "-1" => idata.status # "FATAL"

Safe == Shaped(stack) /\ (stack # <<>> => Sound(top))

\* A queued command, or a call that has not read an answer, is not at these.
LEMMA QueueNot ==
  ASSUME Safe, stack # <<>>, Calls,
         ~(top.op = "exec" /\ top.pc \in {"start", "drained", "write", "failed"})
  PROVE ~top.queue
BY TopShape DEF Safe, Framed

\* The innermost call goes on at p.
Moved(p) == stack' = [stack EXCEPT ![Len(stack)].pc = p]

LEMMA GotoMoved == \A p : Goto(p) => Moved(p)
BY DEF Goto, Moved

LEMMA GotoSafe ==
  ASSUME Calls, Safe, stack # <<>>, NEW p, Moved(p),
         ~top.queue \/ p \in {"write", "failed", "drained"},
         top.op # "check" \/ p \notin Commanding, p \notin {"done", "drained", "finished"},
         p \in {"scan", "write"} => idata'.status # "FATAL"
  PROVE Safe'
<1>1. Shaped(stack')
  BY GotoShape DEF Safe, Moved
<1>2. top'.pc = p
  BY GotoTop DEF Moved
<1>3. QED
  BY <1>1, <1>2 DEF Safe, Sound

LEMMA PushSafe ==
  ASSUME Calls, Safe, stack # <<>>, NEW p, NEW f, Push(f, p), Framed(f),
         ~top.queue \/ p = "drained", p \in Resting, top.op # "check" \/ p # "drained",
         p = "drained" => f.op = "exec" /\ ~f.queue /\ f.failok,
         p = "finished" => top.op = "check" /\ f.op = "read_headers",
         p \in {"enable", "flush"} => f.queue,
         f.pc = "start"
  PROVE Safe'
<1>1. Shaped(stack')
  BY PushShape DEF Safe
<1>2. top' = f
  BY PushStack DEF Push
<1>3. QED
  BY <1>1, <1>2 DEF Safe, Sound

LEMMA ReturnSafe ==
  ASSUME Calls, Safe, stack # <<>>, NEW v, Return(v),
         v = "-1" \/ top.op # "exec" \/ top.queue \/ ~top.failok \/ idata'.status # "FATAL"
  PROVE Safe'
<1>1. Shaped(stack')
  BY ReturnShape DEF Safe
<1>2. ret' = v /\ (stack' # <<>> => Called(top', top))
  BY ReturnTop DEF Safe
<1>3. QED
  BY <1>1, <1>2 DEF Safe, Sound, Called, Resting

LEMMA SteppedSafe ==
  ASSUME Calls, Safe, stack # <<>>, NEW rc, stack' = Stepped(rc), ~top.queue,
         rc \in {"OK", "NO"} /\ top.op = "exec" => idata'.status # "FATAL"
  PROVE Safe'
<1>1. Shaped(stack')
  BY SteppedShape DEF Safe
<1>2. /\ top'.op = top.op
      /\ rc # "CONTINUE" => top'.pc = "done" /\ top'.rc = rc
      /\ rc = "CONTINUE" => top'.pc \in {"poll", "read"}
  BY SteppedTop
<1>3. QED
  BY <1>1, <1>2 DEF Safe, Sound

LEMMA BeginSafe ==
  ASSUME NEW f, Begin(f), Framed(f), f.pc \notin {"scan", "write", "drained"},
         f.op = "exec" => f.pc # "done"
  PROVE Safe'
<1>1. Shaped(stack') /\ top' = f
  BY BeginShape, BeginStack
<1>2. QED
  BY <1>1 DEF Safe, Sound

\* Queueing a command leaves the status of the connection.
LEMMA NewStatus ==
  ASSUME NEW d, Good(d), NEW verb
  PROVE LET e == cmd_new(d, verb)
        IN /\ e.status = d.status /\ e.state = d.state /\ e.ctx = d.ctx
           /\ e.reopen = d.reopen /\ e.fd = d.fd
BY DEF cmd_new, Good, IData

LEMMA ScanStatus ==
  ASSUME NEW d, Good(d), NEW line
  PROVE LET e == Scan(d, line)
        IN /\ e.status = d.status /\ e.state = d.state /\ e.ctx = d.ctx
           /\ e.reopen = d.reopen /\ e.fd = d.fd /\ e.cmdbuf = d.cmdbuf
BY DEF Scan, Good, IData

LEMMA SafeStart ==
  ASSUME IInv, Safe, CmdStart
  PROVE Safe'
<1>1. Good(idata) /\ Calls
  BY DEF IInv
<1>2. ASSUME NEW p, At(p) PROVE stack # <<>> /\ top.pc = p /\ Sound(top) /\ Framed(top)
                             /\ (p \in Commanding => top.op # "check")
  BY <1>1, <1>2, TopShape DEF At, Safe, Framed
<1>3. CASE StartFatal
  <2>1. stack # <<>> /\ Goto("failed") /\ top.op # "check"
    BY <1>2, <1>3 DEF StartFatal, Commanding
  <2>2. QED
    BY <1>1, <2>1, GotoSafe, GotoMoved
<1>4. CASE StartDrain
  <2>1. stack # <<>> /\ Push(Exec("NULL", FALSE, TRUE), "drained") /\ top.op # "check"
    BY <1>2, <1>4 DEF StartDrain, Commanding
  <2> DEFINE f == Exec("NULL", FALSE, TRUE)
  <2>2. Framed(f) /\ f.op = "exec" /\ ~f.queue /\ f.failok /\ f.pc = "start"
    BY FramedCalls
  <2> HIDE DEF f
  <2>3. Push(f, "drained")
    BY <2>1 DEF f
  <2>4. QED
    BY <1>1, <2>1, <2>2, <2>3, PushSafe DEF Resting
<1>5. CASE StartQueue
  <2>1. /\ stack # <<>> /\ Goto("write") /\ idata.status # "FATAL" /\ top.op # "check"
        /\ idata' = IF top.verb = "NULL" THEN idata ELSE cmd_new(idata, top.verb)
    BY <1>2, <1>5 DEF StartQueue, Commanding
  <2>2. idata'.status # "FATAL"
    BY <1>1, <2>1, NewStatus
  <2>3. QED
    BY <1>1, <2>1, <2>2, GotoSafe, GotoMoved
<1>6. CASE Drained
  <2>1. /\ stack # <<>> /\ Sound(top) /\ top.pc = "drained" /\ top.op # "check"
        /\ \/ Goto("failed")
           \/ ret # "-1" /\ idata' = cmd_new(idata, top.verb) /\ Goto("write")
    BY <1>2, <1>6 DEF Drained, Commanding
  <2>2. Goto("write") => idata'.status # "FATAL"
    <3>1. CASE ret # "-1" /\ idata' = cmd_new(idata, top.verb)
      BY <1>1, <2>1, <3>1, NewStatus DEF Sound
    <3>2. CASE Goto("failed") /\ Goto("write")
      <4>1. top'.pc = "failed" /\ top'.pc = "write"
        BY <1>1, <2>1, <3>2, GotoTop DEF Goto
      <4>2. QED
        BY <4>1
    <3>3. QED
      BY <2>1, <3>1, <3>2
  <2>3. QED
    BY <1>1, <2>1, <2>2, GotoSafe, GotoMoved
<1>7. CASE QueueOnly
  <2>1. stack # <<>> /\ top.queue /\ Return("0")
    BY <1>2, <1>7 DEF QueueOnly
  <2>2. QED
    BY <1>1, <2>1, ReturnSafe
<1>8. CASE NothingToWrite
  <2>1. stack # <<>> /\ Goto("failed") /\ top.op # "check"
    BY <1>2, <1>8 DEF NothingToWrite, Commanding
  <2>2. QED
    BY <1>1, <2>1, GotoSafe, GotoMoved
<1>9. CASE Write
  <2>1. stack # <<>> /\ ~top.queue /\ (Goto("read") \/ Goto("failed")) /\ top.op # "check"
    BY <1>2, <1>9 DEF Write, Sent, Commanding
  <2>2. QED
    BY <1>1, <2>1, GotoSafe, GotoMoved
<1>10. CASE StartFailed
  <2>1. /\ stack # <<>> /\ Framed(top) /\ top.op # "check"
        /\ Return("-1") \/ (top.op # "exec" /\ Goto("read"))
    BY <1>2, <1>10 DEF StartFailed, Commanding
  <2>2. CASE Return("-1")
    BY <1>1, <2>1, <2>2, ReturnSafe
  <2>3. CASE top.op # "exec" /\ Goto("read")
    BY <1>1, <2>1, <2>3, GotoSafe, GotoMoved DEF Framed
  <2>4. QED
    BY <2>1, <2>2, <2>3
<1>11. CASE PollTimesOut
  <2>1. stack # <<>> /\ Return("-1")
    BY <1>2, <1>11 DEF PollTimesOut
  <2>2. QED
    BY <1>1, <2>1, ReturnSafe
<1>12. QED
  BY <1>3, <1>4, <1>5, <1>6, <1>7, <1>8, <1>9, <1>10, <1>11 DEF CmdStart

\* imap_cmd_finish() never brings a failure about.
LEMMA FinishStatus ==
  ASSUME NEW d, Good(d), d.status # "FATAL"
  PROVE LET e == imap_cmd_finish(d)
        IN /\ e.status # "FATAL" /\ e.state = d.state /\ e.ctx = d.ctx /\ e.fd = d.fd
           /\ e.cmds = d.cmds /\ e.nextcmd = d.nextcmd /\ e.lastcmd = d.lastcmd
           /\ e.seqno = d.seqno /\ e.cmdbuf = d.cmdbuf
<1> DEFINE e == imap_cmd_finish(d)
<1>1. e \in {d, [d EXCEPT !.status = "none"], [d EXCEPT !.reopen = @ \ {"ALLOW", "NEWMAIL"}]}
  BY DEF imap_cmd_finish
<1> HIDE DEF e
<1>2. QED
  BY <1>1 DEF Good, IData, e

LEMMA SafeStep ==
  ASSUME IInv, Safe, CmdStep, NestedFetch = FALSE
  PROVE Safe'
<1>1. Good(idata) /\ Calls
  BY DEF IInv
<1>2. ASSUME NEW p, At(p) PROVE stack # <<>> /\ top.pc = p /\ Sound(top)
  BY <1>2 DEF At, Safe
<1>3. ASSUME Reading PROVE stack # <<>> /\ ~top.queue
  <2>1. stack # <<>> /\ top.pc \in {"read", "poll"}
    BY <1>3 DEF Reading, At, In
  <2>2. QED
    BY <1>1, <2>1, QueueNot
<1>4. CASE ReadFatal
  <2>1. stack # <<>> /\ ~top.queue /\ Step("BAD")
    BY <1>3, <1>4 DEF ReadFatal
  <2>2. QED
    BY <1>1, <2>1, SteppedSafe DEF Step
<1>5. CASE ReadFails
  <2>1. stack # <<>> /\ ~top.queue /\ Step("BAD")
    BY <1>3, <1>5 DEF ReadFails
  <2>2. QED
    BY <1>1, <2>1, SteppedSafe DEF Step
<1>6. ASSUME NEW lines, ReadLine(lines) PROVE Safe'
  <2>1. stack # <<>> /\ ~top.queue /\ idata.status # "FATAL"
    BY <1>3, <1>6 DEF ReadLine
  <2>2. PICK answer \in lines :
          /\ idata' = cmd_handle_untagged(idata, answer[1])
          /\ \/ stack' = Stepped("BAD")
             \/ /\ ~(answer[1].kind = "BYE" /\ idata.status # "BYE")
                /\ stack' = [stack EXCEPT ![Len(stack)].pc = "scan"]
    BY <1>6 DEF ReadLine
  <2>3. CASE stack' = Stepped("BAD")
    BY <1>1, <2>1, <2>3, SteppedSafe
  <2>4. CASE /\ ~(answer[1].kind = "BYE" /\ idata.status # "BYE")
             /\ stack' = [stack EXCEPT ![Len(stack)].pc = "scan"]
    <3>1. idata' \in {idata, [idata EXCEPT !.reopen = @ \cup {"NEWMAIL"}]}
      BY <2>2, <2>4 DEF cmd_handle_untagged
    <3>2. idata'.status # "FATAL"
      BY <1>1, <2>1, <3>1 DEF Good, IData
    <3>3. Moved("scan")
      BY <2>4 DEF Moved
    <3>4. QED
      BY <1>1, <2>1, <3>2, <3>3, GotoSafe DEF Commanding
  <2>5. QED
    BY <2>2, <2>3, <2>4
<1>7. CASE ReadAnswer \/ ReadUnsolicited
  BY <1>6, <1>7 DEF ReadAnswer, ReadUnsolicited
<1>8. ASSUME At("scan") PROVE /\ stack # <<>> /\ ~top.queue /\ idata.status # "FATAL"
                              /\ Scan(idata, buf).status # "FATAL" /\ Good(Scan(idata, buf))
  <2>1. stack # <<>> /\ top.pc = "scan" /\ idata.status # "FATAL" /\ buf \in Line
    BY <1>1, <1>2, <1>8 DEF Sound, Calls
  <2>2. ~top.queue
    BY <1>1, <2>1, QueueNot
  <2>3. Scan(idata, buf).status = idata.status /\ Good(Scan(idata, buf))
    BY <1>1, <2>1, ScanStatus, ScanGood
  <2>4. QED
    BY <2>1, <2>2, <2>3
<1>9. CASE ScanRespond
  <2>1. stack # <<>> /\ ~top.queue /\ Step("RESPOND")
    BY <1>8, <1>9 DEF ScanRespond
  <2>2. QED
    BY <1>1, <2>1, SteppedSafe DEF Step
<1>10. CASE ScanContinue
  <2>1. stack # <<>> /\ ~top.queue /\ Step("CONTINUE")
    BY <1>8, <1>10 DEF ScanContinue
  <2>2. QED
    BY <1>1, <2>1, SteppedSafe DEF Step
<1>11. CASE ScanDrained
  <2>1. PICK d, rc : d = Scan(idata, buf) /\ rc = ScanResult(idata, buf)
    OBVIOUS
  <2>0. rc \in {"OK", "NO", "BAD", "CONTINUE"}
    BY <1>1, <2>1 DEF ScanResult, Calls, Line
  <2>2. /\ stack # <<>> /\ ~top.queue /\ rc # "CONTINUE" /\ d.status # "FATAL" /\ Good(d)
        /\ idata' = imap_cmd_finish(d)
        /\ \/ stack' = Append([Stepped(rc) EXCEPT ![Len(stack)].pc = "finished"],
                              Call("read_headers", "start"))
           \/ stack' = Stepped(rc)
    BY <1>8, <1>11, <2>1 DEF ScanDrained
  <2>3. idata'.status # "FATAL"
    BY <2>2, FinishStatus
  <2>4. CASE stack' = Stepped(rc)
    BY <1>1, <2>2, <2>3, <2>4, SteppedSafe
  <2>5. CASE stack' = Append([Stepped(rc) EXCEPT ![Len(stack)].pc = "finished"],
                             Call("read_headers", "start"))
    <3>1. Shaped(stack')
      BY <1>1, <2>0, <2>2, <2>5, FinishShape DEF Safe
    <3>2. top' = Call("read_headers", "start")
      BY <1>1, <2>2, <2>5, FinishStack
    <3>3. top'.pc = "start"
      BY <3>2 DEF Call
    <3>4. QED
      BY <3>1, <3>3 DEF Safe, Sound
  <2>6. QED
    BY <2>2, <2>4, <2>5
<1>12. CASE Finished
  <2>1. /\ stack # <<>> /\ top.pc = "finished" /\ idata'.status = "none"
        /\ Goto("errcleanup") \/ Step(top.rc)
    BY <1>1, <1>2, <1>12 DEF Finished, Good, IData
  <2>2. ~top.queue
    BY <1>1, <2>1, QueueNot
  <2>3. CASE Goto("errcleanup")
    BY <1>1, <2>1, <2>2, <2>3, GotoSafe, GotoMoved DEF Commanding
  <2>4. CASE Step(top.rc)
    BY <1>1, <2>1, <2>2, <2>4, SteppedSafe DEF Step
  <2>5. QED
    BY <2>1, <2>3, <2>4
<1>13. QED
  BY <1>4, <1>5, <1>7, <1>9, <1>10, <1>11, <1>12 DEF CmdStep

LEMMA SafeDone ==
  ASSUME IInv, Safe, CallDone
  PROVE Safe'
<1>1. Good(idata) /\ Calls
  BY DEF IInv
<1>2. ASSUME NEW op, NEW p, In(op, p), p \notin {"start", "drained", "write", "failed"}
      PROVE stack # <<>> /\ ~top.queue /\ top.op = op /\ top.pc = p /\ Sound(top) /\ FrameOK(top)
  <2>1. stack # <<>> /\ top.op = op /\ top.pc = p
    BY <1>2 DEF In, At
  <2>2. QED
    BY <1>1, <1>2, <2>1, QueueNot, TopFrame DEF Safe
<1>3. ASSUME NEW v \in {"0", "-1", "-2"}, Return(v), stack # <<>>, top.op # "exec"
      PROVE Safe'
  BY <1>1, <1>3, ReturnSafe
<1>4. ASSUME NEW p, Goto(p), stack # <<>>, ~top.queue, top.op # "check",
             p \in {"selecting", "start", "flush", "opened"}
      PROVE Safe'
  BY <1>1, <1>4, GotoSafe, GotoMoved
<1>5. ASSUME NEW p, NEW queue \in BOOLEAN, NEW failok \in BOOLEAN, NEW verb \in {"CMD", "NULL"},
             Push(Exec(verb, queue, failok), p), verb = "CMD" \/ ~queue,
             p \in {"selecting", "opened", "capa", "auth", "recheck", "compress"}
               \/ (p \in {"enable", "flush"} /\ queue),
             stack # <<>>, ~top.queue
      PROVE Safe'
  <2> DEFINE f == Exec(verb, queue, failok)
  <2>1. Framed(f) /\ f.pc = "start" /\ f.queue = queue
    BY <1>5, FramedCalls
  <2>2. Push(f, p)
    BY <1>5
  <2> HIDE DEF f
  <2>3. p \in Resting /\ p \notin {"drained", "finished"}
    BY <1>5 DEF Resting
  <2>4. p \in {"enable", "flush"} => f.queue
    BY <1>5, <2>1
  <2>5. QED
    BY <1>1, <1>5, <2>1, <2>2, <2>3, <2>4, PushSafe
<1>6. ASSUME Push(Call("read_headers", "start"), "opened"), stack # <<>>, ~top.queue PROVE Safe'
  <2> DEFINE f == Call("read_headers", "start")
  <2>1. Framed(f) /\ f.pc = "start"
    BY FramedCalls DEF Ops, PCs
  <2>2. Push(f, "opened")
    BY <1>6
  <2> HIDE DEF f
  <2>3. QED
    BY <1>1, <1>6, <2>1, <2>2, PushSafe DEF Resting
<1>7. CASE ExecDone
  <2>1. /\ stack # <<>> /\ top.op = "exec" /\ top.pc = "done" /\ Sound(top) /\ UNCHANGED idata
        /\ FrameOK(top)
    BY <1>2, <1>7 DEF ExecDone
  <2>2. PICK v \in {"0", "-1", "-2"} :
          /\ Return(v)
          /\ v = "0" => top.rc = "OK"
          /\ v = "-2" => top.rc = "NO" \/ idata.status # "FATAL"
    BY <1>7 DEF ExecDone
  <2>3. v = "-1" \/ idata'.status # "FATAL"
    BY <2>1, <2>2 DEF Sound
  <2>4. QED
    BY <1>1, <2>1, <2>2, <2>3, ReturnSafe
<1>8. CASE IdleDone
  <2>1. stack # <<>> /\ top.op = "idle" /\ \E v \in {"0", "-1"} : Return(v)
    BY <1>2, <1>8 DEF IdleDone
  <2>2. QED
    BY <1>3, <2>1
<1>9. CASE FetchDone
  <2>1. stack # <<>> /\ top.op = "fetch" /\ \E v \in {"0", "-1"} : Return(v)
    BY <1>2, <1>9 DEF FetchDone
  <2>2. QED
    BY <1>3, <2>1
<1>10. CASE ReadHeadersDone
  <2>1. stack # <<>> /\ ~top.queue /\ top.op = "read_headers"
    BY <1>2, <1>10 DEF ReadHeadersDone
  <2>2. Goto("start") \/ Return("0") \/ Return("-1")
    BY <1>10 DEF ReadHeadersDone
  <2>3. QED
    BY <1>3, <1>4, <2>1, <2>2
<1>11. CASE SelectAcl
  <2>1. stack # <<>> /\ ~top.queue /\ top.op = "select"
    BY <1>2, <1>11 DEF SelectAcl
  <2>2. Push(Exec("CMD", TRUE, FALSE), "selecting") \/ Goto("selecting")
    BY <1>11 DEF SelectAcl
  <2>3. QED
    BY <1>4, <1>5, <2>1, <2>2
<1>12. CASE SelectSend
  <2>1. stack # <<>> /\ ~top.queue /\ top.op = "select" /\ Goto("start")
    BY <1>2, <1>12 DEF SelectSend
  <2>2. QED
    BY <1>4, <2>1
<1>13. CASE SelectDone
  <2>1. stack # <<>> /\ ~top.queue /\ top.op = "select"
    BY <1>2, <1>13 DEF SelectDone
  <2>2. Return("-1") \/ Push(Call("read_headers", "start"), "opened") \/ Return("0")
    BY <1>13 DEF SelectDone, SelectFails
  <2>3. QED
    BY <1>3, <1>6, <2>1, <2>2
<1>14. CASE SelectOpened
  <2>1. stack # <<>> /\ ~top.queue /\ top.op = "select" /\ (Return("-1") \/ Return("0"))
    BY <1>2, <1>14 DEF SelectOpened, SelectFails
  <2>2. QED
    BY <1>3, <2>1
<1>15. CASE OpenDone
  <2>1. stack # <<>> /\ ~top.queue /\ top.op = "open"
    BY <1>2, <1>15 DEF OpenDone
  <2>2. \/ Push(Exec("CMD", FALSE, FALSE), "capa") \/ Return("-1")
        \/ Push(Exec("CMD", FALSE, TRUE), "auth")
    BY <1>15 DEF OpenDone, Command
  <2>3. QED
    BY <1>3, <1>5, <2>1, <2>2
<1>16. CASE OpenCapability
  <2>1. stack # <<>> /\ ~top.queue /\ top.op = "open"
    BY <1>2, <1>16 DEF OpenCapability
  <2>2. \/ Push(Exec("CMD", FALSE, TRUE), "auth") \/ Return("-1")
        \/ Push(Exec("CMD", FALSE, TRUE), "recheck") \/ Goto("opened")
    BY <1>16 DEF OpenCapability
  <2>3. QED
    BY <1>3, <1>4, <1>5, <2>1, <2>2
<1>17. CASE OpenAuthenticated
  <2>1. stack # <<>> /\ ~top.queue /\ top.op = "open"
    BY <1>2, <1>17 DEF OpenAuthenticated
  <2>2. Push(Exec("CMD", FALSE, TRUE), "recheck") \/ Return("-1")
    BY <1>17 DEF OpenAuthenticated
  <2>3. QED
    BY <1>3, <1>5, <2>1, <2>2
<1>18. CASE OpenEnable
  <2>1. stack # <<>> /\ ~top.queue /\ top.op = "open"
    BY <1>2, <1>18 DEF OpenEnable
  <2>2. Push(Exec("CMD", TRUE, FALSE), "flush") \/ Goto("flush")
    BY <1>18 DEF OpenEnable
  <2>3. QED
    BY <1>4, <1>5, <2>1, <2>2
<1>19. CASE OpenFlush
  <2>1. stack # <<>> /\ ~top.queue /\ Push(Exec("NULL", FALSE, TRUE), "opened")
    BY <1>2, <1>19 DEF OpenFlush
  <2>2. QED
    BY <1>5, <2>1
<1>20. CASE OpenOpened \/ LogoutDone \/ CloseDone
  <2>1. stack # <<>> /\ top.op \in {"open", "logout", "close"}
    BY <1>2, <1>20 DEF OpenOpened, LogoutDone, CloseDone
  <2>2. Return("0") \/ Return("-1")
    BY <1>20 DEF OpenOpened, LogoutDone, CloseDone
  <2>3. QED
    BY <1>3, <2>1, <2>2
<1>21. CASE OpenRecheck \/ OpenCompress
  <2>1. stack # <<>> /\ ~top.queue /\ top.op = "open"
    BY <1>2, <1>21 DEF OpenRecheck, OpenCompress
  <2>2. Push(Exec("CMD", FALSE, TRUE), "compress") \/ Push(Exec("CMD", TRUE, FALSE), "enable")
    BY <1>21 DEF OpenRecheck, OpenCompress
  <2>3. QED
    BY <1>5, <2>1, <2>2
<1>22. QED
  BY <1>7, <1>8, <1>9, <1>10, <1>11, <1>12, <1>13, <1>14, <1>15, <1>16, <1>17, <1>18, <1>19,
     <1>20, <1>21 DEF CallDone

LEMMA SafeGarbled ==
  ASSUME IInv, Safe, SelectGarbled
  PROVE Safe'
<1>1. Calls /\ stack # <<>> /\ top.op = "select" /\ Return("-1")
  BY DEF IInv, SelectGarbled, SelectFails, In, At
<1>2. QED
  BY <1>1, ReturnSafe

LEMMA SafeCheck ==
  ASSUME IInv, Safe, Check
  PROVE Safe'
<1>1. Calls
  BY DEF IInv
<1>2. stack # <<>> /\ ~top.queue /\ top.op = "check"
  <2>1. \E p \in {"idle", "idled", "poll", "done", "noop", "nooped", "finish", "errcleanup"} :
          In("check", p)
    BY DEF Check, CheckIdle, CheckIdled, CheckPoll, CheckPolled, CheckNoop, CheckNooped,
           CheckFinish, CheckErrcleanup
  <2>2. stack # <<>> /\ top.op = "check"
    BY <2>1 DEF In, At
  <2>3. QED
    BY <1>1, <2>2, QueueNot
<1>3. ASSUME NEW p, Goto(p), p \in {"poll", "errcleanup", "noop", "finish"}
      PROVE Safe'
  BY <1>1, <1>2, <1>3, GotoSafe, GotoMoved DEF Commanding
<1>4. ASSUME NEW f, NEW p, Push(f, p), Framed(f), f.pc = "start",
             p \in {"idled", "nooped", "finished"}, p = "finished" => f.op = "read_headers"
      PROVE Safe'
  BY <1>1, <1>2, <1>4, PushSafe DEF Resting
<1>5. CASE CheckIdle
  <2> DEFINE f == [Call("idle", "start") EXCEPT !.verb = "IDLE"]
  <2>1. Push(f, "idled") \/ Goto("poll")
    BY <1>5 DEF CheckIdle
  <2>2. Framed(f) /\ f.pc = "start"
    BY FramedCalls
  <2> HIDE DEF f
  <2>3. QED
    BY <1>3, <1>4, <2>1, <2>2
<1>6. CASE CheckIdled \/ CheckPoll \/ CheckPolled \/ CheckNooped
  <2>1. \E p \in {"poll", "errcleanup", "noop", "finish"} : Goto(p)
    BY <1>6 DEF CheckIdled, CheckPoll, CheckPolled, CheckNooped
  <2>2. QED
    BY <1>3, <2>1
<1>7. CASE CheckNoop
  <2>1. Push(Command, "nooped") \/ Goto("finish")
    BY <1>7 DEF CheckNoop
  <2>2. Framed(Command) /\ Command.pc = "start"
    BY FramedCalls DEF Command
  <2>3. QED
    BY <1>3, <1>4, <2>1, <2>2
<1>8. CASE CheckFinish
  <2> DEFINE f == Call("read_headers", "start")
  <2>1. Push(f, "finished") \/ Goto("errcleanup")
    BY <1>8 DEF CheckFinish
  <2>2. Framed(f) /\ f.pc = "start" /\ f.op = "read_headers"
    BY FramedCalls DEF Ops, PCs
  <2> HIDE DEF f
  <2>3. QED
    BY <1>3, <1>4, <2>1, <2>2
<1>9. CASE CheckErrcleanup
  <2>1. Return("0")
    BY <1>9 DEF CheckErrcleanup
  <2>2. QED
    BY <1>1, <1>2, <2>1, ReturnSafe
<1>10. QED
  BY <1>5, <1>6, <1>7, <1>8, <1>9 DEF Check

LEMMA SafeUser ==
  ASSUME Safe, User
  PROVE Safe'
<1>1. ASSUME UNCHANGED stack, stack = <<>> PROVE Safe'
  BY <1>1 DEF Safe
<1>2. ASSUME NEW op \in Ops \ {"idle", "exec"}, NEW p \in PCs, Begin(Call(op, p)),
             p \notin {"scan", "write", "drained", "finished"},
             op # "check" \/ p = "idle"
      PROVE Safe'
  <2> DEFINE f == Call(op, p)
  <2>1. Framed(f) /\ f.pc = p /\ f.op = op
    BY <1>2, FramedCalls DEF Commanding
  <2>2. Begin(f)
    BY <1>2
  <2> HIDE DEF f
  <2>3. QED
    BY <1>2, <2>1, <2>2, BeginSafe
<1>3. ASSUME NEW verb \in {"CMD", "NULL"}, NEW queue \in BOOLEAN, NEW failok \in BOOLEAN,
             verb = "CMD" \/ ~queue, Begin(Exec(verb, queue, failok))
      PROVE Safe'
  <2> DEFINE f == Exec(verb, queue, failok)
  <2>1. Framed(f) /\ f.pc = "start"
    BY <1>3, FramedCalls
  <2>2. Begin(f)
    BY <1>3
  <2> HIDE DEF f
  <2>3. QED
    BY <2>1, <2>2, BeginSafe
<1>4. ASSUME NEW op \in {"open", "close"}, NEW p \in {"auth", "closed"}, NEW failok \in BOOLEAN,
             stack' = <<Call(op, p), Exec("CMD", FALSE, failok)>>
      PROVE Safe'
  <2> DEFINE f == Call(op, p)
             g == Exec("CMD", FALSE, failok)
  <2>1. Framed(f) /\ f.pc = p /\ Framed(g) /\ g.pc = "start"
    <3>1. op \in Ops \ {"idle"} /\ p \in PCs
      BY DEF Ops, PCs
    <3>2. Framed(f) /\ f.pc = p
      BY <3>1, FramedCalls
    <3>3. Framed(g) /\ g.pc = "start"
      BY FramedCalls
    <3>4. QED
      BY <3>2, <3>3
  <2>2. stack' = <<f, g>>
    BY <1>4
  <2> HIDE DEF f, g
  <2>3. Called(f, g)
    BY <2>1 DEF Called, Resting
  <2>4. Shaped(stack') /\ top' = g
    BY <2>1, <2>2, <2>3, BeginPairShape
  <2>5. QED
    BY <2>1, <2>4 DEF Safe, Sound
<1>5. CASE Open
  <2>1. \/ Begin(Call("open", "read"))
        \/ stack' = <<Call("open", "auth"), Exec("CMD", FALSE, TRUE)>>
    BY <1>5 DEF Open
  <2>2. QED
    BY <1>2, <1>4, <2>1 DEF Ops, PCs
<1>6. CASE Select \/ FetchMessage \/ CheckMailbox \/ Logout
  <2>1. \E op \in {"select", "fetch", "check", "logout"}, p \in {"acl", "start", "idle", "done"} :
          (op # "check" \/ p = "idle") /\ Begin(Call(op, p))
    BY <1>6 DEF Select, FetchMessage, CheckMailbox, Logout
  <2>2. QED
    BY <1>2, <2>1 DEF Ops, PCs
<1>7. CASE SetContext \/ AllowReopen \/ DisallowReopen
  BY <1>1, <1>7 DEF SetContext, AllowReopen, DisallowReopen, TopLevel
<1>8. CASE DoExec \/ Flush
  <2>1. \E verb \in {"CMD", "NULL"}, queue, failok \in BOOLEAN :
          (verb = "CMD" \/ ~queue) /\ Begin(Exec(verb, queue, failok))
    BY <1>8 DEF DoExec, Flush
  <2>2. QED
    BY <1>3, <2>1
<1>9. CASE CloseMailbox
  <2>1. \/ stack' = <<Call("close", "closed"), Exec("CMD", FALSE, FALSE)>>
        \/ Begin(Call("close", "closed"))
    BY <1>9 DEF CloseMailbox, Command
  <2>2. QED
    BY <1>2, <1>4, <2>1 DEF Ops, PCs
<1>10. QED
  BY <1>5, <1>6, <1>7, <1>8, <1>9 DEF User

LEMMA SafeInductive == NestedFetch = FALSE => (Spec => [](IInv /\ Safe))
<1> SUFFICES ASSUME NestedFetch = FALSE PROVE Spec => [](IInv /\ Safe)
  OBVIOUS
<1>1. Init => IInv /\ Safe
  <2>1. ASSUME Init PROVE Safe
    BY <2>1 DEF Init, Safe, Shaped
  <2>2. QED
    BY <2>1, InitHolds
<1>2. IInv /\ Safe /\ [Next]_vars => (IInv /\ Safe)'
  <2>1. ASSUME IInv, Safe, UNCHANGED vars PROVE Safe'
    BY <2>1 DEF Safe, Sound, vars, top
  <2>2. QED
    BY <2>1, NextKeeps, SafeStart, SafeStep, SafeDone, SafeGarbled, SafeCheck,
       SafeUser DEF Next
<1>3. QED
  BY <1>1, <1>2, PTL DEF Spec

\* What is done about a failure leaves it noted, or closes the connection.
LEMMA FatalNoted ==
  ASSUME NEW d, Good(d)
  PROVE LET e == cmd_handle_fatal(d)
        IN e.status = "FATAL" \/ (e.state = "DISCONNECTED" /\ ~e.fd)
<1> DEFINE fatal == [d EXCEPT !.status = "FATAL"]
           shut == imap_close_mailbox(fatal)
           gone == [shut EXCEPT !.state = "DISCONNECTED", !.fd = FALSE]
<1>1. fatal \in IData /\ fatal.status = "FATAL"
  BY DEF Good, IData
<1> HIDE DEF fatal
<1>2. shut \in IData /\ shut.status = "FATAL"
  BY <1>1 DEF imap_close_mailbox, IData
<1> HIDE DEF shut
<1>3. gone \in IData /\ gone.status = "FATAL"
  BY <1>2 DEF IData, States
<1> HIDE DEF gone
<1>4. \A e \in IData : LET c == imap_close_connection(e)
                      IN c.state = "DISCONNECTED" /\ ~c.fd
  BY DEF imap_close_connection, IData
<1>5. cmd_handle_fatal(d) \in {fatal, gone, imap_close_connection(fatal),
                              imap_close_connection(gone)}
  BY DEF cmd_handle_fatal, fatal, gone, shut
<1>6. QED
  BY <1>1, <1>3, <1>4, <1>5

\* Closing a mailbox leaves the status alone, closing the connection does not.
LEMMA StatusKept ==
  ASSUME NEW d \in IData
  PROVE /\ imap_close_mailbox(d).status = d.status
        /\ LET c == imap_close_connection(d) IN c.state = "DISCONNECTED" /\ ~c.fd
BY DEF imap_close_mailbox, imap_close_connection, IData

\* A failure stays noted until the connection is closed, except where
\* imap_cmd_finish() returns from a download.
Failing == \/ idata.status = "FATAL"
           \/ idata.state = "DISCONNECTED" /\ ~idata.fd

LEMMA FatalStays ==
  ASSUME IInv, Safe, [Next]_vars, idata.status = "FATAL"
  PROVE Failing' \/ At("finished")
<1>1. Good(idata) /\ idata \in IData
  BY DEF IInv, Good
<1>2. ASSUME NEW d, Good(d), idata' = cmd_handle_fatal(d) PROVE Failing'
  BY <1>2, FatalNoted DEF Failing
<1>3. ASSUME idata'.status = idata.status PROVE Failing'
  BY <1>3 DEF Failing
<1>4. ~At("scan") /\ ~At("write")
  BY DEF Safe, Sound, At
<1>5. CASE CmdStart
  <2>1. ~(StartQueue \/ QueueOnly \/ NothingToWrite \/ Write \/ PollTimesOut)
    BY <1>4 DEF StartQueue, QueueOnly, NothingToWrite, Write, PollTimesOut
  <2>2. CASE Drained
    BY <1>1, <1>3, <2>2, NewStatus DEF Drained
  <2>3. CASE StartFatal \/ StartDrain \/ StartFailed
    BY <1>1, <1>2, <1>3, <2>3 DEF StartFatal, StartDrain, StartFailed
  <2>4. QED
    BY <1>5, <2>1, <2>2, <2>3 DEF CmdStart
<1>6. CASE CmdStep
  BY <1>1, <1>2, <1>4, <1>6 DEF CmdStep, ReadFatal, ReadFails, ReadAnswer, ReadUnsolicited, ReadLine,
       ScanRespond, ScanContinue, ScanDrained, Finished
<1>7. ASSUME SelectFails(idata) PROVE Failing'
  <2> DEFINE d == [idata EXCEPT !.state = IF @ = "SELECTED" THEN "AUTHENTICATED" ELSE @]
  <2>1. d \in IData /\ d.status = idata.status
    BY <1>1 DEF IData, States
  <2>2. idata' = imap_close_mailbox(d)
    BY <1>7 DEF SelectFails
  <2> HIDE DEF d
  <2>3. QED
    BY <1>3, <2>1, <2>2, StatusKept
<1>8. CASE CallDone \/ SelectGarbled
  <2>1. CASE ExecDone \/ FetchDone \/ SelectAcl \/ OpenRecheck \/ OpenCompress \/ OpenEnable
               \/ OpenFlush \/ OpenOpened
    BY <1>3, <2>1 DEF ExecDone, FetchDone, SelectAcl, OpenRecheck, OpenCompress, OpenEnable,
                      OpenFlush, OpenOpened
  <2>2. CASE IdleDone
    <3>1. idata'.status = idata.status
      BY <1>1, <2>2 DEF IdleDone, IData
    <3>2. QED
      BY <1>3, <3>1
  <2>3. CASE ReadHeadersDone \/ SelectSend \/ OpenAuthenticated
    <3>1. idata'.status = idata.status
      BY <1>1, <2>3 DEF ReadHeadersDone, SelectSend, OpenAuthenticated, IData
    <3>2. QED
      BY <1>3, <3>1
  <2>4. CASE SelectDone \/ SelectOpened \/ SelectGarbled
    <3>1. SelectFails(idata) \/ idata'.status = idata.status
      BY <1>1, <2>4 DEF SelectDone, SelectOpened, SelectGarbled, IData
    <3>2. QED
      BY <1>3, <1>7, <3>1
  <2>5. CASE OpenDone \/ OpenCapability
    <3>1. idata' = imap_close_connection(idata) \/ idata'.status = idata.status
      BY <1>1, <2>5 DEF OpenDone, OpenCapability, IData
    <3>2. QED
      BY <1>1, <1>3, <3>1, StatusKept DEF Failing
  <2>6. CASE LogoutDone
    BY <2>6 DEF LogoutDone, imap_new_idata, Failing
  <2>7. CASE CloseDone
    BY <1>1, <1>3, <2>7, StatusKept DEF CloseDone
  <2>8. QED
    BY <1>8, <2>1, <2>2, <2>3, <2>4, <2>5, <2>6, <2>7 DEF CallDone
<1>9. CASE Check
  <2>1. CASE CheckFinish
    BY <1>1, <1>2, <2>1 DEF CheckFinish, imap_cmd_finish, FetchesNewMail
  <2>2. CASE CheckErrcleanup
    <3>1. imap_close_mailbox(idata) \in IData
      BY <1>1, CloseMailboxGood DEF Good
    <3>2. \/ idata' = imap_close_connection(imap_close_mailbox(idata))
          \/ idata'.status = idata.status
      BY <1>1, <2>2 DEF CheckErrcleanup, IData
    <3>3. QED
      BY <1>3, <3>1, <3>2, StatusKept DEF Failing
  <2>3. QED
    BY <1>3, <1>9, <2>1, <2>2 DEF Check, CheckIdle, CheckIdled, CheckPoll, CheckPolled, CheckNoop,
                                  CheckNooped
<1>10. CASE User
  <2>1. idata'.status = idata.status
    BY <1>1, <1>10 DEF User, Open, Select, SetContext, AllowReopen, DisallowReopen,
         DoExec, Flush, FetchMessage, CheckMailbox, CloseMailbox, Logout, IData
  <2>2. QED
    BY <1>3, <2>1
<1>11. QED
  BY <1>3, <1>5, <1>6, <1>8, <1>9, <1>10 DEF Next, vars

\* Once the connection has failed no step hands the server anything more, and
\* the failure stays noted until the connection is closed or imap_cmd_finish()
\* returns from a download of its own, as long as no FETCH makes its handler
\* issue commands of its own (with those, TLC checks it).
THEOREM FailedIsSilent == NestedFetch = FALSE => (Spec => FatalIsSilent)
<1> SUFFICES ASSUME NestedFetch = FALSE PROVE Spec => FatalIsSilent
  OBVIOUS
<1>1. ASSUME IInv, Safe, [Next]_vars, idata.status = "FATAL"
      PROVE Len(server'.input) <= Len(server.input)
  <2>1. server.input \in Seq(Token) /\ Len(server.input) \in Nat
    BY <1>1 DEF IInv, Peer
  <2>2. CASE UNCHANGED server
    BY <2>1, <2>2
  <2>3. CASE server' = NoServer
    BY <2>1, <2>3 DEF NoServer
  <2>4. CASE Write
    BY <1>1, <2>4 DEF Write, At, Safe, Sound
  <2>5. CASE CmdStart
    <3>1. ~PollTimesOut
      BY <1>1 DEF PollTimesOut, At, Safe, Sound
    <3>2. QED
      BY <2>2, <2>4, <2>5, <3>1 DEF CmdStart, StartFatal, StartDrain, StartQueue, Drained, QueueOnly,
                                    NothingToWrite, StartFailed
  <2>6. CASE CmdStep
    BY <1>1, <2>2, <2>6 DEF CmdStep, ReadFatal, ReadFails, ReadAnswer, ReadUnsolicited, ReadLine,
                            ScanRespond, ScanContinue, ScanDrained, Finished
  <2>7. CASE CallDone
    BY <2>2, <2>3, <2>7
    DEF CallDone, ExecDone, IdleDone, FetchDone, ReadHeadersDone, SelectAcl, SelectSend,
        SelectDone, SelectOpened, OpenDone, OpenCapability, OpenAuthenticated,
          OpenRecheck, OpenCompress, OpenEnable,
        OpenFlush, OpenOpened, LogoutDone, CloseDone
  <2>8. CASE Check
    BY <2>2, <2>8 DEF Check, CheckIdle, CheckIdled, CheckPoll, CheckPolled, CheckNoop, CheckNooped,
                      CheckFinish, CheckErrcleanup
  <2>9. CASE User
    BY <2>2, <2>3, <2>9 DEF User, Open, Select, SetContext, AllowReopen, DisallowReopen, DoExec,
                            Flush, FetchMessage, CheckMailbox, CloseMailbox, Logout
  <2>10. CASE UNCHANGED vars
    BY <2>2, <2>10 DEF vars
  <2>11. CASE SelectGarbled
    BY <2>2, <2>11 DEF SelectGarbled
  <2>12. QED
    BY <1>1, <2>5, <2>6, <2>7, <2>8, <2>9, <2>10, <2>11 DEF Next
<1>2. IInv /\ Safe /\ [Next]_vars
        => [idata.status = "FATAL" =>
              /\ Len(server'.input) <= Len(server.input)
              /\ \/ idata'.status = "FATAL" \/ idata'.state = "DISCONNECTED"
                 \/ At("finished")]_vars
  BY <1>1, FatalStays DEF Failing
<1>3. QED
  BY <1>2, SafeInductive, PTL DEF Spec, FatalIsSilent
------------------------------------------------------------------------------
(* What is owed: every command on its way has a slot that waits for it.     *)

\* The commands among tokens: DONE is not one.
Commands(s) == {i \in 1 .. Len(s) : s[i].verb # "DONE"}

Distinct(s) == \A i, j \in Commands(s) : s[i].seq = s[j].seq => i = j
Apart(s, t) == \A i \in Commands(s), j \in Commands(t) : s[i].seq # t[j].seq
WaitedFor(s, d) == \A i \in Commands(s) : \E k \in Waiting(d) : d.cmds[k].seq = s[i].seq

\* Of what the server was sent (in) and the buffer of d: one slot each.
Owed(d, in) == /\ Distinct(in) /\ Distinct(d.cmdbuf) /\ Apart(in, d.cmdbuf)
               /\ WaitedFor(in, d) /\ WaitedFor(d.cmdbuf, d)

\* The command a tagged line completes is not on its way any more.
Answered(d, in, line) ==
  line.kind = "tagged" => /\ \A i \in Commands(in) : in[i].seq # line.seq
                          /\ \A i \in Commands(d.cmdbuf) : d.cmdbuf[i].seq # line.seq

LEMMA OwedNew ==
  ASSUME NEW d, Good(d), ~cmd_queue_full(d), NEW verb \in {"CMD", "IDLE"}, NEW in,
         Owed(d, in)
  PROVE Owed(cmd_new(d, verb), in)
<1> DEFINE e == cmd_new(d, verb)
           n == d.nextcmd
           t == [verb |-> verb, seq |-> d.seqno]
<1>1. /\ n \in Slots /\ d.cmds \in [Slots -> [seq : Tags, state : CmdState]]
      /\ d.cmdbuf \in Seq(Token) /\ d.lastcmd \in Slots /\ d.seqno \in Tags
  BY DEF Good, IData
<1>2. /\ e.cmds = [d.cmds EXCEPT ![n] = [seq |-> d.seqno, state |-> "NEW"]]
      /\ e.cmdbuf = Append(d.cmdbuf, t)
  BY DEF Good, IData, cmd_new
<1>3. n \in Waiting(e) /\ e.cmds[n].seq = d.seqno
  BY <1>1, <1>2 DEF Waiting
<1>4. n \notin Waiting(d)
  <2>1. Distance(d.lastcmd, n) \in Int
    BY <1>1, CmdSlotsAssumption DEF Distance, Slots
  <2>2. n \notin Window(d)
    BY <2>1 DEF Window
  <2>3. QED
    BY <2>2 DEF Good, RingOK
<1>5. \A k \in Waiting(d) : k \in Waiting(e) /\ e.cmds[k].seq = d.cmds[k].seq /\ k # n
  BY <1>1, <1>2, <1>4 DEF Waiting
<1>6. \A k \in Waiting(d) : d.cmds[k].seq # d.seqno
  <2>1. Good(e)
    BY NewCommand
  <2>2. \A i, j \in Waiting(e) : e.cmds[i].seq = e.cmds[j].seq => i = j
    BY <2>1, DistinctTags
  <2>3. QED
    BY <1>3, <1>5, <2>2
<1>7. t \in Token /\ t.verb # "DONE" /\ t.seq = d.seqno
  BY <1>1 DEF Token
<1> HIDE DEF t
<1>8. /\ Len(e.cmdbuf) = Len(d.cmdbuf) + 1 /\ e.cmdbuf[Len(d.cmdbuf) + 1] = t
      /\ \A i \in 1 .. Len(d.cmdbuf) : e.cmdbuf[i] = d.cmdbuf[i]
      /\ Len(d.cmdbuf) \in Nat
  BY <1>1, <1>2, <1>7
<1> DEFINE last == Len(d.cmdbuf) + 1
<1>9. Commands(e.cmdbuf) = Commands(d.cmdbuf) \cup {last}
  BY <1>7, <1>8 DEF Commands
<1>10. \A i \in Commands(d.cmdbuf) : i # last /\ e.cmdbuf[i] = d.cmdbuf[i]
  BY <1>8 DEF Commands
<1>11. e.cmdbuf[last].seq = d.seqno
  BY <1>7, <1>8
<1>12. \A i \in Commands(d.cmdbuf) : d.cmdbuf[i].seq # d.seqno
  BY <1>6 DEF Owed, WaitedFor
<1>13. \A i \in Commands(in) : in[i].seq # d.seqno
  BY <1>6 DEF Owed, WaitedFor
<1> HIDE DEF e, last
<1>14. Distinct(e.cmdbuf)
  BY <1>9, <1>10, <1>11, <1>12 DEF Distinct, Owed
<1>15. Apart(in, e.cmdbuf)
  BY <1>9, <1>10, <1>11, <1>13 DEF Apart, Owed
<1>16. WaitedFor(in, e)
  BY <1>5 DEF WaitedFor, Owed
<1>17. WaitedFor(e.cmdbuf, e)
  BY <1>3, <1>5, <1>9, <1>10, <1>11 DEF WaitedFor, Owed
<1>18. QED
  BY <1>14, <1>15, <1>16, <1>17 DEF Owed, e

\* DONE owes nothing.
LEMMA OwedDone ==
  ASSUME NEW d \in IData, NEW e, NEW in, Owed(d, in), e.cmds = d.cmds,
         e.cmdbuf = Append(d.cmdbuf, [verb |-> "DONE", seq |-> 0])
  PROVE Owed(e, in)
<1>1. d.cmdbuf \in Seq(Token) /\ [verb |-> "DONE", seq |-> 0] \in Token
  BY DEF IData, Token
<1>2. /\ Len(e.cmdbuf) = Len(d.cmdbuf) + 1 /\ e.cmdbuf[Len(d.cmdbuf) + 1].verb = "DONE"
      /\ \A i \in 1 .. Len(d.cmdbuf) : e.cmdbuf[i] = d.cmdbuf[i]
      /\ Len(d.cmdbuf) \in Nat
  BY <1>1
<1>3. Commands(e.cmdbuf) = Commands(d.cmdbuf)
  BY <1>2 DEF Commands
<1>4. \A i \in Commands(d.cmdbuf) : e.cmdbuf[i] = d.cmdbuf[i]
  BY <1>2 DEF Commands
<1>5. Waiting(e) = Waiting(d)
  BY DEF Waiting
<1>6. Distinct(e.cmdbuf)
  BY <1>3, <1>4 DEF Owed, Distinct
<1>7. Apart(in, e.cmdbuf)
  BY <1>3, <1>4 DEF Owed, Apart
<1>8. WaitedFor(in, e) /\ WaitedFor(e.cmdbuf, e)
  BY <1>3, <1>4, <1>5 DEF Owed, WaitedFor
<1>9. QED
  BY <1>6, <1>7, <1>8 DEF Owed

\* What is written moves from the buffer to the server.
LEMMA OwedSend ==
  ASSUME NEW d \in IData, NEW e, NEW in \in Seq(Token), Owed(d, in), e.cmds = d.cmds,
         e.cmdbuf = <<>>
  PROVE Owed(e, in \o d.cmdbuf)
<1> DEFINE s == in \o d.cmdbuf
           n == Len(in)
<1>1. d.cmdbuf \in Seq(Token)
  BY DEF IData
<1>2. /\ n \in Nat /\ Len(d.cmdbuf) \in Nat /\ Len(s) = n + Len(d.cmdbuf)
      /\ \A i \in 1 .. Len(s) : s[i] = IF i <= n THEN in[i] ELSE d.cmdbuf[i - n]
  BY <1>1
<1> HIDE DEF s, n
<1>3. \A i \in Commands(s) : \/ i <= n /\ i \in Commands(in) /\ s[i] = in[i]
                             \/ i > n /\ i - n \in Commands(d.cmdbuf) /\ s[i] = d.cmdbuf[i - n]
  <2>1. ASSUME NEW i \in Commands(s), i <= n PROVE i \in Commands(in) /\ s[i] = in[i]
    BY <1>2, <2>1 DEF Commands, n
  <2>2. ASSUME NEW i \in Commands(s), i > n
        PROVE i - n \in Commands(d.cmdbuf) /\ s[i] = d.cmdbuf[i - n]
    BY <1>2, <2>2 DEF Commands
  <2>3. QED
    BY <1>2, <2>1, <2>2 DEF Commands
<1>4. Commands(s) \subseteq Nat /\ n \in Int
  BY <1>2 DEF Commands
<1>5. Distinct(s)
  BY <1>3, <1>4 DEF Distinct, Owed, Apart
<1>6. Waiting(e) = Waiting(d)
  BY DEF Waiting
<1>7. WaitedFor(s, e)
  BY <1>3, <1>6 DEF WaitedFor, Owed
<1>8. Commands(e.cmdbuf) = {}
  BY DEF Commands
<1>9. QED
  BY <1>5, <1>7, <1>8 DEF Owed, Distinct, Apart, WaitedFor, s

\* What the server keeps was there before, each token once.
Kept(new, old, g) ==
  /\ g \in [1 .. Len(new) -> 1 .. Len(old)]
  /\ \A i, j \in 1 .. Len(new) : g[i] = g[j] => i = j
  /\ \A i \in 1 .. Len(new) : new[i] = old[g[i]]

LEMMA OwedKept ==
  ASSUME NEW d, NEW in, NEW new, Owed(d, in), NEW g, Kept(new, in, g)
  PROVE /\ Owed(d, new)
        /\ \A i \in Commands(in) : \A line :
             /\ line.seq = in[i].seq
             /\ \A k \in 1 .. Len(new) : g[k] # i
             => Answered(d, new, line)
<1>1. \A k \in Commands(new) : g[k] \in Commands(in) /\ new[k] = in[g[k]] /\ k \in 1 .. Len(new)
  BY DEF Commands, Kept
<1>2. Owed(d, new)
  <2>1. Distinct(new)
    <3>1. ASSUME NEW i \in Commands(new), NEW j \in Commands(new), new[i].seq = new[j].seq
          PROVE i = j
      <4>1. g[i] = g[j]
        BY <1>1, <3>1 DEF Owed, Distinct
      <4>2. QED
        BY <1>1, <4>1 DEF Kept
    <3>2. QED
      BY <3>1 DEF Distinct
  <2>2. Apart(new, d.cmdbuf)
    BY <1>1 DEF Owed, Apart
  <2>3. WaitedFor(new, d)
    BY <1>1 DEF Owed, WaitedFor
  <2>4. QED
    BY <2>1, <2>2, <2>3 DEF Owed
<1>3. ASSUME NEW i \in Commands(in), NEW line, line.seq = in[i].seq,
             \A k \in 1 .. Len(new) : g[k] # i
      PROVE Answered(d, new, line)
  BY <1>1, <1>3 DEF Owed, Distinct, Apart, Answered
<1>4. QED
  BY <1>2, <1>3

\* The scan frees only the slot of the command that was answered.
LEMMA ScanWaiting ==
  ASSUME NEW d, Good(d), NEW line \in Line
  PROVE LET e == Scan(d, line)
        IN /\ \A k \in Waiting(d) : k \in Waiting(e) \/ Matches(d, line, k)
           /\ \A k \in Waiting(e) : k \in StillRunning(d, line)
           /\ \A k \in StillRunning(d, line) : k \in Waiting(e)
           /\ \A k \in Slots : e.cmds[k].seq = d.cmds[k].seq
           /\ Waiting(d) \subseteq Scanned(d)
<1> DEFINE e == Scan(d, line)
<1>1. /\ d.nextcmd \in Slots /\ d.lastcmd \in Slots
      /\ d.cmds \in [Slots -> [seq : Tags, state : CmdState]]
  BY DEF Good, IData
<1>2. e.cmds = [i \in Slots |->
                  IF i \in Scanned(d) /\ Matches(d, line, i)
                    THEN [d.cmds[i] EXCEPT !.state = line.code]
                    ELSE d.cmds[i]]
  BY DEF Good, IData, Scan
<1>3. line.code # "NEW"
  BY DEF Line
<1>4. Waiting(d) \subseteq Scanned(d)
  BY <1>1, CmdSlotsAssumption DEF Good, RingOK, Window, Scanned, ScanLength, Distance, Slots
<1>5. \A k \in Slots : /\ e.cmds[k].seq = d.cmds[k].seq
                       /\ e.cmds[k].state = IF k \in Scanned(d) /\ Matches(d, line, k)
                                              THEN line.code ELSE d.cmds[k].state
  BY <1>1, <1>2
<1> HIDE DEF e
<1>6. Waiting(e) = {k \in Waiting(d) : ~(k \in Scanned(d) /\ Matches(d, line, k))}
  BY <1>3, <1>5 DEF Waiting, Matches
<1>7. StillRunning(d, line) = {k \in Scanned(d) : k \in Waiting(d) /\ ~Matches(d, line, k)}
  BY DEF StillRunning, Waiting, Scanned
<1>8. QED
  BY <1>4, <1>5, <1>6, <1>7 DEF e

LEMMA OwedScan ==
  ASSUME NEW d, Good(d), NEW line \in Line, NEW in, Owed(d, in), Answered(d, in, line)
  PROVE Owed(Scan(d, line), in)
<1> DEFINE e == Scan(d, line)
<1>1. e.cmdbuf = d.cmdbuf
  BY ScanStatus
<1>2. /\ \A k \in Waiting(d) : k \in Waiting(e) \/ Matches(d, line, k)
      /\ \A k \in Slots : e.cmds[k].seq = d.cmds[k].seq
  BY ScanWaiting
<1> HIDE DEF e
<1>3. \A k \in Waiting(d) : k \in Slots
  BY DEF Waiting
<1>4. ASSUME NEW s, WaitedFor(s, d),
             line.kind = "tagged" => \A i \in Commands(s) : s[i].seq # line.seq
      PROVE WaitedFor(s, e)
  BY <1>2, <1>3, <1>4 DEF WaitedFor, Matches
<1>5. WaitedFor(in, e) /\ WaitedFor(e.cmdbuf, e)
  BY <1>1, <1>4 DEF Owed, Answered
<1>6. QED
  BY <1>1, <1>5 DEF Owed, e
------------------------------------------------------------------------------
(* What each step does to the ring, the command buffer and the connection.   *)

\* The ring and the buffer stay, or the connection is closed and the ring
\* emptied.
Same(d, e) == e.cmds = d.cmds /\ e.nextcmd = d.nextcmd /\ e.lastcmd = d.lastcmd
Leaves(d, e) ==
  /\ e.cmdbuf = d.cmdbuf
  /\ e.fd => d.fd
  /\ Same(d, e) \/ (~e.fd /\ e.nextcmd = 0 /\ e.lastcmd = 0)

LEMMA LeavesFields ==
  ASSUME NEW d, Good(d)
  PROVE /\ \A x : Leaves(d, [d EXCEPT !.state = x])
        /\ \A x : Leaves(d, [d EXCEPT !.status = x])
        /\ \A x : Leaves(d, [d EXCEPT !.ctx = x])
        /\ \A x : Leaves(d, [d EXCEPT !.reopen = x])
        /\ Leaves(d, [d EXCEPT !.fd = FALSE])
<1>1. ASSUME NEW x
      PROVE /\ Leaves(d, [d EXCEPT !.state = x]) /\ Leaves(d, [d EXCEPT !.status = x])
            /\ Leaves(d, [d EXCEPT !.ctx = x]) /\ Leaves(d, [d EXCEPT !.reopen = x])
            /\ Leaves(d, [d EXCEPT !.fd = FALSE])
  <2>1. Leaves(d, [d EXCEPT !.state = x])
    BY DEF Good, IData, Leaves, Same
  <2>2. Leaves(d, [d EXCEPT !.status = x])
    BY DEF Good, IData, Leaves, Same
  <2>3. Leaves(d, [d EXCEPT !.ctx = x])
    BY DEF Good, IData, Leaves, Same
  <2>4. Leaves(d, [d EXCEPT !.reopen = x])
    BY DEF Good, IData, Leaves, Same
  <2>5. Leaves(d, [d EXCEPT !.fd = FALSE])
    BY DEF Good, IData, Leaves, Same
  <2>6. QED
    BY <2>1, <2>2, <2>3, <2>4, <2>5
<1>2. QED
  BY <1>1

LEMMA LeavesTwice ==
  ASSUME NEW d, NEW e, NEW f, Leaves(d, e), Leaves(e, f)
  PROVE Leaves(d, f)
BY DEF Leaves, Same

LEMMA CloseMailboxRing ==
  ASSUME NEW d, Good(d)
  PROVE LET e == imap_close_mailbox(d)
        IN /\ e.cmds = d.cmds /\ e.nextcmd = d.nextcmd /\ e.lastcmd = d.lastcmd
           /\ e.cmdbuf = d.cmdbuf /\ e.status = d.status /\ e.fd = d.fd
           /\ e.state = IF d.status # "FATAL" /\ Selected(d) THEN "AUTHENTICATED" ELSE d.state
BY DEF imap_close_mailbox, Good, IData

LEMMA LeavesClosed ==
  ASSUME NEW d, Good(d)
  PROVE Leaves(d, imap_close_connection(d)) /\ Leaves(d, imap_close_mailbox(d))
<1>1. Leaves(d, imap_close_connection(d))
  BY DEF imap_close_connection, Good, IData, Leaves, Same
<1>2. Leaves(d, imap_close_mailbox(d))
  BY CloseMailboxRing DEF Leaves, Same
<1>3. QED
  BY <1>1, <1>2

LEMMA LeavesFatal ==
  ASSUME NEW d, Good(d)
  PROVE Leaves(d, cmd_handle_fatal(d))
<1> DEFINE fatal == [d EXCEPT !.status = "FATAL"]
           shut == imap_close_mailbox(fatal)
           off == [shut EXCEPT !.state = "DISCONNECTED"]
           gone == [shut EXCEPT !.state = "DISCONNECTED", !.fd = FALSE]
           left == IF Selected(d) /\ "ALLOW" \in d.reopen THEN gone ELSE fatal
<1>1. Good(fatal) /\ Leaves(d, fatal)
  BY SetFields, LeavesFields
<1>2. cmd_handle_fatal(d) \in {fatal, left, imap_close_connection(left)}
  BY DEF cmd_handle_fatal
<1> HIDE DEF fatal
<1>3. Good(shut) /\ Leaves(d, shut)
  BY <1>1, CloseMailboxGood, LeavesClosed, LeavesTwice
<1>4. gone = [off EXCEPT !.fd = FALSE]
  OBVIOUS
<1> HIDE DEF shut
<1>5. Good(off) /\ Leaves(d, off)
  BY <1>3, SetFields, LeavesFields, LeavesTwice DEF States
<1> HIDE DEF off, gone
<1>6. Good(gone) /\ Leaves(d, gone)
  BY <1>4, <1>5, SetFields, LeavesFields, LeavesTwice
<1>7. Good(left) /\ Leaves(d, left)
  BY <1>1, <1>6
<1> HIDE DEF left
<1>8. Leaves(d, imap_close_connection(left))
  BY <1>7, LeavesClosed, LeavesTwice
<1>9. QED
  BY <1>1, <1>2, <1>7, <1>8

LEMMA LeavesFinish ==
  ASSUME NEW d, Good(d)
  PROVE Leaves(d, imap_cmd_finish(d))
<1>1. CASE d.status = "FATAL"
  <2>1. imap_cmd_finish(d) \in {cmd_handle_fatal(d), d}
    BY <1>1 DEF imap_cmd_finish, FetchesNewMail
  <2>2. QED
    BY <2>1, LeavesFatal DEF Leaves, Same
<1>2. CASE d.status # "FATAL"
  BY <1>2, FinishStatus DEF Leaves, Same
<1>3. QED
  BY <1>1, <1>2

LEMMA LeavesUntagged ==
  ASSUME NEW d, Good(d), NEW line
  PROVE Leaves(d, cmd_handle_untagged(d, line))
<1> DEFINE e == [d EXCEPT !.reopen = @ \cup {"NEWMAIL"}]
<1>1. cmd_handle_untagged(d, line) \in {cmd_handle_fatal(d), d, e}
  BY DEF cmd_handle_untagged
<1>2. Leaves(d, e)
  BY DEF Good, IData, Leaves, Same
<1>3. Leaves(d, d) /\ Leaves(d, cmd_handle_fatal(d))
  BY LeavesFatal DEF Leaves, Same
<1> HIDE DEF e
<1>4. QED
  BY <1>1, <1>2, <1>3

Adds == /\ UNCHANGED server
        /\ ~cmd_queue_full(idata) /\ stack # <<>> /\ top.verb # "NULL"
        /\ idata' = cmd_new(idata, top.verb)
Scans == UNCHANGED server /\ Leaves(Scan(idata, buf), idata')

LEMMA RingSteps ==
  ASSUME IInv, Next
  PROVE \/ UNCHANGED server /\ Leaves(idata, idata')
        \/ (StartQueue \/ Drained) /\ Adds
        \/ Write
        \/ PollTimesOut /\ Leaves(Sent(idata), idata')
        \/ ReadAnswer \/ ReadUnsolicited
        \/ (ScanContinue \/ ScanDrained) /\ Scans
        \/ IdleDone /\ top.rc = "RESPOND"
        \/ LogoutDone
        \/ Open /\ server' = NoServer
<1> DEFINE Leaving == UNCHANGED server /\ Leaves(idata, idata')
<1>1. Good(idata) /\ buf \in Line
  BY DEF IInv, Calls
<1>2. ASSUME idata' = idata, UNCHANGED server PROVE Leaving
  BY <1>2 DEF Leaves, Same
<1>3. ASSUME idata' = cmd_handle_fatal(idata), UNCHANGED server PROVE Leaving
  BY <1>1, <1>3, LeavesFatal
<1>4. ASSUME \/ \E x : idata' = [idata EXCEPT !.reopen = x]
             \/ \E x : idata' = [idata EXCEPT !.state = x]
             \/ \E x : idata' = [idata EXCEPT !.status = x]
             \/ \E x : idata' = [idata EXCEPT !.ctx = x],
             UNCHANGED server
      PROVE Leaving
  <2>1. CASE \E x : idata' = [idata EXCEPT !.reopen = x]
    BY <1>1, <1>4, <2>1 DEF Good, IData, Leaves, Same
  <2>2. CASE \E x : idata' = [idata EXCEPT !.state = x]
    BY <1>1, <1>4, <2>2 DEF Good, IData, Leaves, Same
  <2>3. CASE \E x : idata' = [idata EXCEPT !.status = x]
    BY <1>1, <1>4, <2>3 DEF Good, IData, Leaves, Same
  <2>4. CASE \E x : idata' = [idata EXCEPT !.ctx = x]
    BY <1>1, <1>4, <2>4 DEF Good, IData, Leaves, Same
  <2>5. QED
    BY <1>4, <2>1, <2>2, <2>3, <2>4
<1>5. CASE CmdStart
  <2>1. CASE StartQueue \/ Drained
    <3>1. /\ idata' = idata \/ (/\ idata' = cmd_new(idata, top.verb) /\ top.verb # "NULL"
                                /\ ~cmd_queue_full(idata))
          /\ UNCHANGED server /\ stack # <<>>
      <4>1. CASE StartQueue
        BY <4>1 DEF StartQueue, At
      <4>2. CASE Drained
        <5>1. stack # <<>> /\ top.pc = "drained" /\ UNCHANGED server
              /\ (UNCHANGED idata \/ (idata' = cmd_new(idata, top.verb) /\ ~cmd_queue_full(idata)))
          BY <4>2 DEF Drained, At
        <5>2. top.verb # "NULL"
          BY <5>1, TopFrame DEF IInv, FrameOK
        <5>3. QED
          BY <5>1, <5>2
      <4>3. QED
        BY <2>1, <4>1, <4>2
    <3>2. QED
      BY <1>2, <2>1, <3>1 DEF Adds
  <2>2. CASE StartFatal \/ StartFailed
    <3>1. (idata' = idata \/ idata' = cmd_handle_fatal(idata)) /\ UNCHANGED server
      BY <2>2 DEF StartFatal, StartFailed
    <3>2. QED
      BY <1>2, <1>3, <3>1
  <2>3. CASE StartDrain \/ QueueOnly \/ NothingToWrite
    BY <1>2, <2>3 DEF StartDrain, QueueOnly, NothingToWrite
  <2>4. CASE PollTimesOut
    <3>1. Leaves(Sent(idata), cmd_handle_fatal(Sent(idata)))
      BY <1>1, SentGood, LeavesFatal
    <3>2. QED
      BY <2>4, <3>1 DEF PollTimesOut
  <2>5. QED
    BY <1>5, <2>1, <2>2, <2>3, <2>4 DEF CmdStart
<1>6. CASE CmdStep
  <2>1. CASE ReadFatal
    BY <1>3, <2>1 DEF ReadFatal
  <2>2. CASE ReadFails
    <3> DEFINE e == [idata EXCEPT !.fd = FALSE]
    <3>1. Good(e) /\ Leaves(idata, e)
      BY <1>1, SetFields, LeavesFields
    <3> HIDE DEF e
    <3>2. idata' = cmd_handle_fatal(e) /\ UNCHANGED server
      BY <2>2 DEF ReadFails, e
    <3>3. QED
      BY <3>1, <3>2, LeavesFatal, LeavesTwice
  <2>3. CASE ScanRespond
    BY <1>2, <2>3 DEF ScanRespond
  <2>4. CASE ScanContinue
    BY <2>4 DEF ScanContinue, Scans, Leaves, Same
  <2>5. CASE ScanDrained
    <3>1. idata' = imap_cmd_finish(Scan(idata, buf)) /\ UNCHANGED server
      BY <2>5 DEF ScanDrained
    <3>2. QED
      BY <1>1, <2>5, <3>1, ScanGood, LeavesFinish DEF Scans
  <2>6. CASE Finished
    BY <1>4, <2>6 DEF Finished
  <2>7. QED
    BY <1>6, <2>1, <2>2, <2>3, <2>4, <2>5, <2>6 DEF CmdStep
<1>7. ASSUME \/ idata' = imap_close_connection(idata)
             \/ idata' = imap_close_mailbox(idata)
             \/ idata' = imap_close_connection(imap_close_mailbox(idata)),
             UNCHANGED server
      PROVE Leaving
  BY <1>1, <1>7, CloseMailboxGood, LeavesClosed, LeavesTwice
<1>8. CASE CallDone \/ SelectGarbled
  <2>1. CASE IdleDone
    BY <1>2, <2>1 DEF IdleDone
  <2>2. CASE SelectDone \/ SelectOpened \/ SelectGarbled
    <3> DEFINE e == [idata EXCEPT !.state = IF @ = "SELECTED" THEN "AUTHENTICATED" ELSE @]
    <3>1. /\ \/ idata' = idata \/ \E x : idata' = [idata EXCEPT !.reopen = x]
             \/ idata' = imap_close_mailbox(e)
          /\ UNCHANGED server
      BY <2>2 DEF SelectDone, SelectOpened, SelectGarbled, SelectFails
    <3>2. Good(e) /\ Leaves(idata, e)
      <4>1. (IF idata.state = "SELECTED" THEN "AUTHENTICATED" ELSE idata.state) \in States
        BY <1>1 DEF Good, IData, States
      <4>2. QED
        BY <1>1, <4>1, SetFields, LeavesFields
    <3> HIDE DEF e
    <3>3. Leaves(idata, imap_close_mailbox(e))
      BY <3>2, LeavesClosed, LeavesTwice
    <3>4. QED
      BY <1>2, <1>4, <3>1, <3>3
  <2>3. CASE ReadHeadersDone
    <3>1. UNCHANGED server /\ (UNCHANGED idata \/ \E x : idata' = [idata EXCEPT !.reopen = x])
      BY <2>3 DEF ReadHeadersDone
    <3>2. QED
      BY <1>2, <1>4, <3>1
  <2>4. CASE SelectSend \/ OpenDone \/ OpenCapability \/ OpenAuthenticated \/ CloseDone
    BY <1>2, <1>4, <1>7, <2>4 DEF SelectSend, OpenDone, OpenCapability, OpenAuthenticated, CloseDone
  <2>5. QED
    BY <1>2, <1>8, <2>1, <2>2, <2>3, <2>4
    DEF CallDone, ExecDone, FetchDone, SelectAcl, OpenRecheck, OpenCompress, OpenEnable, OpenFlush,
        OpenOpened
<1>9. CASE Check
  <2>1. CASE CheckFinish
    BY <1>1, <2>1, LeavesFinish DEF CheckFinish
  <2>2. CASE CheckErrcleanup
    BY <1>4, <1>7, <2>2 DEF CheckErrcleanup
  <2>3. QED
    BY <1>2, <1>9, <2>1, <2>2
    DEF Check, CheckIdle, CheckIdled, CheckPoll, CheckPolled, CheckNoop, CheckNooped
<1>10. CASE User
  <2>1. CASE Open
    BY <1>2, <2>1 DEF Open
  <2>2. CASE Select
    BY <1>1, <2>2 DEF Select, Good, IData, Leaves, Same
  <2>3. CASE SetContext \/ Logout
    BY <1>2, <1>4, <2>3 DEF SetContext, Logout
  <2>4. CASE AllowReopen \/ DisallowReopen \/ CheckMailbox
    BY <1>4, <2>4 DEF AllowReopen, DisallowReopen, CheckMailbox
  <2>5. QED
    BY <1>2, <1>10, <2>1, <2>2, <2>3, <2>4 DEF User, DoExec, Flush, FetchMessage, CloseMailbox
<1>11. QED
  BY <1>5, <1>6, <1>8, <1>9, <1>10 DEF Next

\* Up to the fields outside it, the ring stays, is emptied, or takes a command
\* or the completion of one.
LEMMA RingAfter ==
  ASSUME IInv, Next
  PROVE \/ Same(idata, idata')
        \/ idata'.nextcmd = 0 /\ idata'.lastcmd = 0
        \/ Adds
        \/ At("scan") /\ Same(Scan(idata, buf), idata')
<1>1. Good(idata)
  BY DEF IInv
<1>2. CASE UNCHANGED server /\ Leaves(idata, idata')
  BY <1>2 DEF Leaves
<1>3. CASE Write
  BY <1>1, <1>3 DEF Write, Sent, Good, IData, Same
<1>4. CASE ReadAnswer \/ ReadUnsolicited
  <2>1. \E line : idata' = cmd_handle_untagged(idata, line)
    BY <1>4 DEF ReadAnswer, ReadUnsolicited, ReadLine
  <2>2. QED
    BY <1>1, <2>1, LeavesUntagged DEF Leaves
<1>5. CASE (ScanContinue \/ ScanDrained) /\ Scans
  BY <1>5 DEF Scans, Leaves, ScanContinue, ScanDrained
<1>6. CASE IdleDone /\ top.rc = "RESPOND"
  BY <1>1, <1>6 DEF IdleDone, Good, IData, Same
<1>7. CASE LogoutDone
  BY <1>7 DEF LogoutDone, imap_new_idata
<1>8. CASE Open
  <2>1. idata' = idata \/ idata' = [idata EXCEPT !.state = "CONNECTED", !.fd = TRUE]
    BY <1>8 DEF Open
  <2>2. QED
    BY <1>1, <2>1 DEF Good, IData, Same
<1>9. CASE PollTimesOut /\ Leaves(Sent(idata), idata')
  <2>1. Same(idata, Sent(idata))
    BY <1>1 DEF Sent, Good, IData, Same
  <2>2. QED
    BY <1>9, <2>1 DEF Leaves, Same
<1>10. QED
  BY <1>2, <1>3, <1>4, <1>5, <1>6, <1>7, <1>8, <1>9, RingSteps
------------------------------------------------------------------------------
(* The ring is full only of commands that wait.                             *)

Lag(d) == cmd_queue_full(d) => Waiting(d) # {}

LEMMA LagSame ==
  ASSUME NEW d, NEW e, Lag(d), Same(d, e)
  PROVE Lag(e)
BY DEF Lag, cmd_queue_full, Waiting, Same

LEMMA LagEmpty ==
  ASSUME NEW d, d.nextcmd = 0, d.lastcmd = 0
  PROVE Lag(d)
BY CmdSlotsAssumption DEF Lag, cmd_queue_full, Succ

LEMMA LagNew ==
  ASSUME NEW d, Good(d), NEW verb
  PROVE Lag(cmd_new(d, verb))
<1>1. cmd_new(d, verb).cmds[d.nextcmd].state = "NEW" /\ d.nextcmd \in Slots
  BY DEF Good, IData, cmd_new
<1>2. QED
  BY <1>1 DEF Lag, Waiting

LEMMA LagScan ==
  ASSUME NEW d, Good(d), NEW line \in Line, Lag(d)
  PROVE Lag(Scan(d, line))
<1> DEFINE e == Scan(d, line)
<1>1. /\ d.nextcmd \in Slots /\ d.lastcmd \in Slots /\ e.nextcmd = d.nextcmd
      /\ e.lastcmd = IF First(d, line) # {} THEN Succ(d.lastcmd) ELSE d.lastcmd
  BY DEF Good, IData, Scan
<1>2. /\ \A k \in Waiting(d) : k \in Waiting(e) \/ Matches(d, line, k)
      /\ \A k \in StillRunning(d, line) : k \in Waiting(e)
      /\ Waiting(d) \subseteq Scanned(d)
  BY ScanWaiting
<1> HIDE DEF e
<1>3. SUFFICES ASSUME cmd_queue_full(e), Waiting(e) = {} PROVE FALSE
  BY DEF Lag, e
<1>4. StillRunning(d, line) = {}
  BY <1>2, <1>3
<1>5. CASE First(d, line) # {}
  <2>1. Succ(d.nextcmd) = Succ(d.lastcmd)
    BY <1>1, <1>3, <1>5 DEF cmd_queue_full
  <2>2. d.nextcmd = d.lastcmd
    BY <1>1, <2>1, CmdSlotsAssumption DEF Succ, Slots
  <2>3. Window(d) = {}
    BY <1>1, <2>2, CmdSlotsAssumption DEF Window, Distance, Slots
  <2>4. Waiting(d) = {}
    BY <2>3 DEF Good, RingOK
  <2>5. PICK k \in First(d, line) : TRUE
    BY <1>5
  <2>6. k \in Waiting(d)
    BY <2>5 DEF First, Scanned, Matches, Waiting
  <2>7. QED
    BY <2>4, <2>6
<1>6. CASE First(d, line) = {}
  <2>1. Waiting(d) # {}
    BY <1>1, <1>3, <1>6 DEF Lag, cmd_queue_full
  <2>2. PICK k \in Waiting(d) : Matches(d, line, k) /\ k \in Scanned(d)
    BY <1>2, <1>3, <2>1
  <2>3. k \in First(d, line)
    BY <1>4, <2>2 DEF First
  <2>4. QED
    BY <1>6, <2>3
<1>7. QED
  BY <1>5, <1>6

\* A completion with nothing else running leaves nothing running.
LEMMA ScanDrains ==
  ASSUME NEW d, Good(d), NEW line \in Line, ScanResult(d, line) # "CONTINUE"
  PROVE Waiting(Scan(d, line)) = {}
<1>1. StillRunning(d, line) = {}
  BY DEF ScanResult
<1>2. QED
  BY <1>1, ScanWaiting

LEMMA LagKeeps ==
  ASSUME IInv, Lag(idata), Next
  PROVE Lag(idata')
<1>1. Good(idata) /\ buf \in Line
  BY DEF IInv, Calls
<1>2. CASE Same(idata, idata')
  BY <1>2, LagSame
<1>3. CASE idata'.nextcmd = 0 /\ idata'.lastcmd = 0
  BY <1>3, LagEmpty
<1>4. CASE Adds
  BY <1>1, <1>4, LagNew DEF Adds
<1>5. CASE Same(Scan(idata, buf), idata')
  BY <1>1, <1>5, LagScan, LagSame
<1>6. QED
  BY <1>2, <1>3, <1>4, <1>5, RingAfter
------------------------------------------------------------------------------
(* A live connection.                                                       *)

\* A connection may be open after mutt has given it up: when a poll timed out.
Linked == idata.fd /\ ~server.bye
Alive == Linked /\ idata.status # "FATAL"

\* What holds of the innermost call while the connection lives.
Stage(f) ==
  /\ f.op = "check" /\ f.pc = "scan" => idata.state = "IDLE"
  /\ f.pc = "scan" /\ buf.kind = "+" => f.op = "idle"
  /\ f.pc = "done" /\ f.rc = "RESPOND" => f.op = "idle"
  /\ f.pc = "drained" => ret # "-1" /\ ~cmd_queue_full(idata)
  /\ f.pc # "failed"
  /\ f.pc \in {"write", "enable", "flush"} => idata.cmdbuf # <<>>
  /\ f.pc = "start" /\ f.verb = "NULL" => idata.cmdbuf # <<>>
  /\ f.pc = "finished" \/ (f.pc = "done" /\ f.rc # "RESPOND") => Waiting(idata) = {}

\* IDLE commands the server has not answered with "+" yet.
Unstarted(sv) == {i \in 1 .. Len(sv.input) : sv.input[i].verb = "IDLE" /\ ~(sv.idling /\ i = 1)}

\* IDLE is sent at once, with nothing behind it, and waited for.
Starting ==
  /\ \A i \in 1 .. Len(idata.cmdbuf) : idata.cmdbuf[i].verb = "IDLE" =>
       i = Len(idata.cmdbuf) /\ In("idle", "write")
  /\ \A i \in Unstarted(server) :
       /\ i = Len(server.input)
       /\ In("idle", "read") \/ (In("idle", "scan") /\ buf.kind # "+")

\* imap_cmd_step() is reading, or has just been told "+".
Stepping == /\ stack # <<>>
            /\ \/ top.pc \in {"read", "scan"}
               \/ top.pc = "done" /\ top.rc = "RESPOND"

Inner ==
  /\ idata.status # "FATAL"
  /\ idata.state = "IDLE" => idata.cmdbuf # <<>>
  /\ Waiting(idata) # {} => idata.cmdbuf # <<>> \/ Stepping
  /\ stack # <<>> => Stage(top)
  /\ Owed(idata, server.input)
  /\ At("scan") => Answered(idata, server.input, buf)
  /\ Starting

\* A step that leaves the ring, the buffer and the server alone.
LEMMA QuietKeeps ==
  ASSUME Inner, ~Stepping, stack # <<>> /\ top.pc = "write" => top.op # "idle",
         UNCHANGED server, idata'.cmdbuf = idata.cmdbuf, idata'.cmds = idata.cmds,
         idata'.status # "FATAL", idata'.state = "IDLE" => idata.state = "IDLE",
         stack' # <<>> => Stage(top)' /\ top'.pc # "scan"
  PROVE Inner'
<1>1. Waiting(idata') = Waiting(idata)
  BY DEF Waiting
<1>2. Waiting(idata) # {} => idata.cmdbuf # <<>>
  BY DEF Inner
<1>3. Owed(idata', server'.input)
  BY <1>1 DEF Inner, Owed, WaitedFor
<1>4. ~In("idle", "write") /\ ~In("idle", "read") /\ ~In("idle", "scan")
  BY DEF In, At, Stepping
<1>5. Unstarted(server) = {} /\ \A i \in 1 .. Len(idata.cmdbuf) : idata.cmdbuf[i].verb # "IDLE"
  BY <1>4 DEF Inner, Starting
<1>6. Starting'
  BY <1>5 DEF Starting, Unstarted
<1>7. ~At("scan")'
  BY DEF At
<1>8. QED
  BY <1>1, <1>2, <1>3, <1>6, <1>7 DEF Inner

\* The same with each way the stack moves.
LEMMA QuietGoto ==
  ASSUME IInv, Inner, ~Stepping, stack # <<>>, top.pc # "write",
         UNCHANGED server, idata'.cmdbuf = idata.cmdbuf, idata'.cmds = idata.cmds,
         idata'.status # "FATAL", idata'.state = "IDLE" => idata.state = "IDLE",
         NEW p, Moved(p), p \notin {"scan", "done", "drained", "failed", "finished", "write", "enable"},
         p = "flush" => idata.cmdbuf # <<>>,
         p = "start" => top.verb # "NULL"
  PROVE Inner'
<1>1. Calls
  BY DEF IInv
<1>2. top'.pc = p /\ top'.verb = top.verb
  BY <1>1, GotoTop DEF Moved
<1>3. Stage(top)' /\ top'.pc # "scan"
  BY <1>2 DEF Stage
<1>4. QED
  BY <1>3, QuietKeeps

LEMMA QuietPush ==
  ASSUME IInv, Inner, ~Stepping, stack # <<>>, top.pc # "write",
         UNCHANGED server, idata'.cmdbuf = idata.cmdbuf, idata'.cmds = idata.cmds,
         idata'.status # "FATAL", idata'.state = "IDLE" => idata.state = "IDLE",
         NEW p, NEW f, Push(f, p), f.pc = "start", f.verb = "NULL" => idata.cmdbuf # <<>>
  PROVE Inner'
<1>1. Calls
  BY DEF IInv
<1>2. top' = f
  BY <1>1, PushStack DEF Push
<1>3. Stage(top)' /\ top'.pc # "scan"
  BY <1>2 DEF Stage
<1>4. QED
  BY <1>3, QuietKeeps

LEMMA QuietReturn ==
  ASSUME IInv, Safe, Lag(idata), Inner, ~Stepping, stack # <<>>,
         top.pc = "write" => top.queue,
         UNCHANGED server, idata'.cmdbuf = idata.cmdbuf, idata'.cmds = idata.cmds,
         idata'.status # "FATAL", idata'.state = "IDLE" => idata.state = "IDLE",
         NEW v, Return(v),
         top.op = "exec" /\ ~top.queue /\ top.failok =>
            top.pc = "done" /\ v # "-1" /\ UNCHANGED idata,
         top.op = "read_headers" => top.pc = "done",
         top.queue => idata.cmdbuf # <<>>
  PROVE Inner'
<1>1. Calls /\ Shaped(stack)
  BY DEF IInv, Safe
<1>2. Framed(top)
  BY <1>1, TopShape
<1>3. stack' # <<>> => Called(top', top) /\ ret' = v
  BY <1>1, ReturnTop
<1>4. top.pc = "done" => Waiting(idata) = {}
  BY DEF Inner, Stage, Stepping
<1>5. Waiting(idata') = Waiting(idata)
  BY DEF Waiting
<1>6. ASSUME stack' # <<>> PROVE Stage(top)' /\ top'.pc # "scan"
  <2>1. Called(top', top) /\ ret' = v
    BY <1>3, <1>6
  <2>2. top'.pc = "drained" => ret' # "-1" /\ ~cmd_queue_full(idata')
    BY <1>4, <2>1 DEF Called, Lag
  <2>3. top'.pc \in {"enable", "flush"} => idata'.cmdbuf # <<>>
    BY <2>1 DEF Called
  <2>4. top'.pc = "finished" => Waiting(idata') = {}
    BY <1>4, <1>5, <2>1 DEF Called
  <2>5. top'.pc \notin {"scan", "done", "failed", "write", "start"}
    BY <2>1 DEF Called, Resting
  <2>6. QED
    BY <2>2, <2>3, <2>4, <2>5 DEF Stage
<1>7. top.pc = "write" => top.op # "idle"
  BY <1>2 DEF Framed
<1>8. QED
  BY <1>6, <1>7, QuietKeeps

\* cmd_new(): a slot is taken and its command buffered.
LEMMA NewKeeps ==
  ASSUME IInv, Safe, Inner, stack # <<>>, top.pc \in {"start", "drained"}, ~cmd_queue_full(idata),
         top.verb # "NULL", idata' = cmd_new(idata, top.verb), UNCHANGED server, Moved("write")
  PROVE Inner'
<1>1. Good(idata) /\ Calls /\ Framed(top) /\ top.verb \in {"CMD", "IDLE"}
  BY TopShape, TopFrame DEF IInv, Safe, FrameOK, Frame
<1>2. top'.pc = "write" /\ top'.op = top.op /\ top'.verb = top.verb /\ stack' # <<>>
  BY <1>1, GotoTop DEF Moved
<1>3. idata'.status = idata.status /\ idata'.state = idata.state
  BY <1>1, NewStatus
<1>4. Owed(idata', server'.input)
  BY <1>1, OwedNew DEF Inner
<1> DEFINE t == [verb |-> top.verb, seq |-> idata.seqno]
<1>5. idata.cmdbuf \in Seq(Token) /\ t \in Token /\ t.verb = top.verb
  BY <1>1 DEF Good, IData, Token
<1>6. idata'.cmdbuf = Append(idata.cmdbuf, t)
  BY <1>1 DEF cmd_new, Good, IData
<1> HIDE DEF t
<1>7. /\ Len(idata'.cmdbuf) = Len(idata.cmdbuf) + 1 /\ idata'.cmdbuf[Len(idata.cmdbuf) + 1] = t
      /\ \A i \in 1 .. Len(idata.cmdbuf) : idata'.cmdbuf[i] = idata.cmdbuf[i]
      /\ Len(idata.cmdbuf) \in Nat /\ idata'.cmdbuf # <<>>
  BY <1>5, <1>6
<1>8. ~In("idle", "write") /\ ~In("idle", "read") /\ ~In("idle", "scan")
  BY DEF In, At
<1>9. Unstarted(server) = {} /\ \A i \in 1 .. Len(idata.cmdbuf) : idata.cmdbuf[i].verb # "IDLE"
  BY <1>8 DEF Inner, Starting
<1>10. Unstarted(server') = {}
  BY <1>9
<1>11. ASSUME NEW i \in 1 .. Len(idata'.cmdbuf), idata'.cmdbuf[i].verb = "IDLE"
       PROVE i = Len(idata'.cmdbuf) /\ In("idle", "write")'
  <2>1. i = Len(idata.cmdbuf) + 1
    BY <1>7, <1>9, <1>11
  <2>2. top.verb = "IDLE"
    BY <1>5, <1>7, <1>11, <2>1
  <2>3. top.op = "idle"
    BY <1>1, <2>2 DEF Framed
  <2>4. QED
    BY <1>2, <1>7, <2>1, <2>3 DEF In, At
<1>12. Starting'
  BY <1>10, <1>11 DEF Starting
<1>13. Stage(top)'
  BY <1>2, <1>7 DEF Stage
<1>14. ~At("scan")'
  BY <1>2 DEF At
<1>15. QED
  BY <1>3, <1>4, <1>7, <1>12, <1>13, <1>14 DEF Inner

\* imap_cmd_start() writes the buffer.
LEMMA WriteKeeps ==
  ASSUME IInv, Inner, At("write"), idata.cmdbuf # <<>>,
         idata' = [idata EXCEPT !.cmdbuf = <<>>,
                                !.state = IF @ = "IDLE" THEN "SELECTED" ELSE @],
         server' = [server EXCEPT !.input = @ \o idata.cmdbuf], Moved("read")
  PROVE Inner'
<1>1. /\ Good(idata) /\ Calls /\ stack # <<>> /\ top.pc = "write"
      /\ idata \in IData /\ server.input \in Seq(Token) /\ idata.cmdbuf \in Seq(Token)
  BY DEF IInv, At, Good, IData, Peer
<1>2. top'.pc = "read" /\ top'.op = top.op /\ stack' # <<>>
  BY <1>1, GotoTop DEF Moved
<1>3. /\ idata'.cmds = idata.cmds /\ idata'.cmdbuf = <<>> /\ idata'.status = idata.status
      /\ idata'.state # "IDLE"
  BY <1>1 DEF IData
<1>4. server'.input = server.input \o idata.cmdbuf /\ server'.idling = server.idling
  BY DEF IInv, Peer
<1>5. Owed(idata', server'.input)
  BY <1>1, <1>3, <1>4, OwedSend DEF Inner
<1> DEFINE n == Len(server.input)
           m == Len(idata.cmdbuf)
<1>6. /\ n \in Nat /\ m \in Nat
        /\ n = Len(server.input) /\ m = Len(idata.cmdbuf) /\ Len(server'.input) = n + m
        /\ \A i \in 1 .. n + m :
             server'.input[i] = IF i <= n THEN server.input[i] ELSE idata.cmdbuf[i - n]
  <2>1. \A s, t \in Seq(Token) :
          /\ Len(s) \in Nat /\ Len(t) \in Nat /\ Len(s \o t) = Len(s) + Len(t)
          /\ \A i \in 1 .. Len(s) + Len(t) : (s \o t)[i] = IF i <= Len(s) THEN s[i] ELSE t[i - Len(s)]
    OBVIOUS
  <2>2. PICK in \in Seq(Token), out \in Seq(Token) : in = server.input /\ out = idata.cmdbuf
    BY <1>1
  <2>3. server'.input = in \o out
    BY <1>4, <2>2
  <2>4. /\ Len(in) \in Nat /\ Len(out) \in Nat /\ Len(in \o out) = Len(in) + Len(out)
        /\ \A i \in 1 .. Len(in) + Len(out) :
             (in \o out)[i] = IF i <= Len(in) THEN in[i] ELSE out[i - Len(in)]
    BY <2>1, <2>2
  <2>5. n = Len(in) /\ m = Len(out)
    BY <2>2
  <2> HIDE DEF n, m
  <2>6. n = Len(server.input) /\ m = Len(idata.cmdbuf)
    BY DEF n, m
  <2>7. QED
    BY <2>2, <2>3, <2>4, <2>5, <2>6
<1> HIDE DEF n, m
<1>7. ASSUME NEW i \in Unstarted(server')
      PROVE i = Len(server'.input) /\ In("idle", "read")'
  <2>1. /\ i \in 1 .. n + m /\ server'.input[i].verb = "IDLE"
        /\ ~(server.idling /\ i = 1)
    BY <1>4, <1>6, <1>7 DEF Unstarted
  <2>4. i \in Int /\ n \in Int
    BY <1>6, <2>1
  <2>2. CASE i <= n
    <3>1. i \in Unstarted(server)
      BY <1>6, <2>1, <2>2 DEF Unstarted
    <3>2. In("idle", "read") \/ In("idle", "scan")
      BY <3>1 DEF Inner, Starting
    <3>3. QED
      BY <1>1, <3>2 DEF In, At
  <2>3. CASE i > n
    <3>0. i - n \in 1 .. m
      <4>1. m \in Nat /\ n \in Nat
        BY <1>6
      <4>2. i \in 1 .. n + m
        BY <2>1
      <4>3. QED
        BY <2>3, <4>1, <4>2
    <3>1. i - n \in 1 .. Len(idata.cmdbuf) /\ idata.cmdbuf[i - n].verb = "IDLE"
      BY <1>6, <2>1, <2>3, <3>0
    <3>2. i - n = Len(idata.cmdbuf) /\ In("idle", "write")
      BY <3>1 DEF Inner, Starting
    <3>3. i - n = m
      BY <1>6, <3>2
    <3>7. i \in Int /\ n \in Int /\ m \in Int
      BY <1>6, <2>4
    <3>4. In("idle", "read")'
      BY <1>2, <3>2 DEF In, At
    <3>5. i = n + m
      BY <3>3, <3>7
    <3>6. QED
      BY <1>6, <3>4, <3>5
  <2>5. i <= n \/ i > n
    BY <2>4
  <2>6. QED
    BY <2>2, <2>3, <2>5
<1>8. Starting'
  <2>1. idata'.cmdbuf = <<>> /\ Len(<<>>) = 0
    BY <1>3
  <2>2. \A i \in 1 .. Len(idata'.cmdbuf) : FALSE
    BY <2>1
  <2>3. QED
    BY <1>7, <2>2 DEF Starting
<1>9. Stage(top)' /\ ~At("scan")'
  BY <1>2 DEF Stage, At
<1>10. Stepping'
  BY <1>2 DEF Stepping
<1>11. QED
  BY <1>3, <1>5, <1>8, <1>9, <1>10 DEF Inner
------------------------------------------------------------------------------
(* What every action keeps on a live connection.                            *)

Running == IInv /\ Safe /\ Lag(idata) /\ Alive /\ Inner

\* The fields of the innermost call, and what the invariants say of it.
LEMMA RunningTop ==
  ASSUME Running, stack # <<>>
  PROVE /\ Good(idata) /\ Calls /\ Framed(top) /\ FrameOK(top) /\ top \in Frame /\ Stage(top)
        /\ idata.status # "FATAL"
        /\ top.pc \notin {"start", "drained", "write", "failed"} => ~top.queue
        /\ top.op # "idle" /\ top.pc = "done" => top.rc # "RESPOND"
<1>1. Good(idata) /\ Calls /\ Framed(top) /\ FrameOK(top) /\ top \in Frame
  BY TopShape, TopFrame DEF Running, IInv, Safe, FrameOK
<1>2. Stage(top) /\ idata.status # "FATAL"
  BY DEF Running, Inner
<1>3. top.pc \notin {"start", "drained", "write", "failed"} => ~top.queue
  BY <1>1 DEF Framed
<1>4. top.op # "idle" /\ top.pc = "done" => top.rc # "RESPOND"
  BY <1>2 DEF Stage
<1>5. QED
  BY <1>1, <1>2, <1>3, <1>4

LEMMA InnerStart ==
  ASSUME Running, CmdStart, Linked', ~PollTimesOut
  PROVE Inner'
<1>1. ASSUME NEW p, At(p) PROVE stack # <<>> /\ top.pc = p
  BY <1>1 DEF At
<1>2. stack # <<>> /\ top.pc \in {"start", "drained", "write", "failed"}
  BY <1>1 DEF CmdStart, StartFatal, StartDrain, StartQueue, Drained, QueueOnly,
              NothingToWrite, Write, Sent, PollTimesOut, StartFailed
<1>3. /\ Good(idata) /\ Calls /\ Framed(top) /\ FrameOK(top) /\ top \in Frame /\ Stage(top)
      /\ idata.status # "FATAL"
  BY <1>2, RunningTop
<1>4. ~Stepping \/ top.pc = "read"
  BY <1>2 DEF Stepping
<1>5. IInv /\ Safe /\ Lag(idata) /\ Inner
  BY DEF Running
<1>6. CASE StartDrain
  <2> DEFINE f == Exec("NULL", FALSE, TRUE)
  <2>1. /\ top.pc = "start" /\ Push(f, "drained") /\ cmd_queue_full(idata) /\ UNCHANGED <<idata, server>>
    BY <1>1, <1>6 DEF StartDrain
  <2>2. f.pc = "start"
    BY FramedCalls
  <2> HIDE DEF f
  <2>3. idata.cmdbuf # <<>>
    BY <1>4, <1>5, <2>1 DEF Lag, Inner
  <2>4. ~Stepping /\ top.pc # "write"
    BY <1>4, <2>1
  <2>5. QED
    BY <1>2, <1>3, <1>5, <2>1, <2>2, <2>3, <2>4, QuietPush
<1>7. CASE StartQueue
  <2>1. /\ top.pc = "start" /\ Goto("write") /\ UNCHANGED server
        /\ top.verb # "NULL" => ~cmd_queue_full(idata)
        /\ idata' = IF top.verb = "NULL" THEN idata ELSE cmd_new(idata, top.verb)
    BY <1>1, <1>7 DEF StartQueue
  <2>2. Moved("write")
    BY <2>1, GotoMoved
  <2>3. CASE top.verb = "NULL"
    <3>1. idata.cmdbuf # <<>> /\ ~Stepping
      BY <1>3, <1>4, <2>1, <2>3 DEF Stage
    <3>2. top'.pc = "write" /\ idata' = idata
      BY <1>2, <1>3, <2>1, <2>2, <2>3, GotoTop DEF Moved
    <3>3. Stage(top)' /\ top'.pc # "scan"
      BY <3>1, <3>2 DEF Stage
    <3>4. QED
      BY <1>3, <1>5, <2>1, <3>1, <3>2, <3>3, QuietKeeps
  <2>4. CASE top.verb # "NULL"
    BY <1>2, <1>5, <2>1, <2>2, <2>4, NewKeeps
  <2>5. QED
    BY <2>3, <2>4
<1>8. CASE Drained
  <2>1. top.pc = "drained" /\ ret # "-1" /\ ~cmd_queue_full(idata)
    BY <1>1, <1>3, <1>8 DEF Drained, Stage
  <2>2. idata' = cmd_new(idata, top.verb) /\ Goto("write") /\ UNCHANGED server
    BY <1>8, <2>1 DEF Drained
  <2>3. Moved("write") /\ top.verb # "NULL"
    BY <1>3, <2>1, <2>2, GotoMoved DEF FrameOK
  <2>4. QED
    BY <1>2, <1>5, <2>1, <2>2, <2>3, NewKeeps
<1>9. CASE QueueOnly
  <2>1. top.pc = "write" /\ top.queue /\ Return("0") /\ UNCHANGED <<idata, server>>
    BY <1>1, <1>9 DEF QueueOnly
  <2>2. idata.cmdbuf # <<>> /\ ~Stepping /\ top.op = "exec"
    BY <1>3, <1>4, <2>1 DEF Stage, Framed
  <2>3. QED
    BY <1>2, <1>3, <1>5, <2>1, <2>2, QuietReturn
<1>10. CASE Write
  <2>1. At("write") /\ idata.cmdbuf # <<>> /\ idata'.fd
    BY <1>10 DEF Write, Linked
  <2>2. CASE /\ idata' = [idata EXCEPT !.cmdbuf = <<>>,
                                !.state = IF @ = "IDLE" THEN "SELECTED" ELSE @]
             /\ server' = [server EXCEPT !.input = @ \o idata.cmdbuf]
             /\ Goto("read")
    BY <1>5, <2>1, <2>2, WriteKeeps, GotoMoved
  <2>3. CASE \E d : idata' = [d EXCEPT !.fd = FALSE] /\ d \in IData
    BY <2>1, <2>3 DEF IData
  <2>4. [idata EXCEPT !.cmdbuf = <<>>, !.state = IF @ = "IDLE" THEN "SELECTED" ELSE @] \in IData
    <3> DEFINE state == IF idata.state = "IDLE" THEN "SELECTED" ELSE idata.state
    <3>1. state \in States /\ <<>> \in Seq(Token) /\ idata \in IData
      BY <1>3 DEF Good, IData, States
    <3> HIDE DEF state
    <3>2. [idata EXCEPT !.cmdbuf = <<>>, !.state = state] \in IData
      BY <3>1 DEF IData
    <3>3. QED
      BY <3>2 DEF state
  <2>5. QED
    BY <1>10, <2>2, <2>3, <2>4 DEF Write, Sent
<1>11. CASE StartFatal \/ NothingToWrite \/ StartFailed
  BY <1>3, <1>11 DEF StartFatal, NothingToWrite, StartFailed, At, Stage
<1>12. QED
  BY <1>6, <1>7, <1>8, <1>9, <1>10, <1>11 DEF CmdStart
------------------------------------------------------------------------------
(* A line is read.                                                          *)

\* A line that is to be looked at, from a server that still owes what it did.
LEMMA ReadKeeps ==
  ASSUME Running, Reading, Moved("scan"),
         Owed(idata, server'.input), Answered(idata, server'.input, buf'),
         idata'.cmds = idata.cmds, idata'.cmdbuf = idata.cmdbuf,
         idata'.status = idata.status, idata'.state = idata.state,
         buf'.kind = "+" => top.op = "idle",
         \A i \in Unstarted(server') :
            i = Len(server'.input) /\ In("idle", "read") /\ buf'.kind # "+"
  PROVE Inner'
<1>1. stack # <<>> /\ (top.pc = "read" \/ (top.op = "check" /\ top.pc = "poll" /\ idata.state = "IDLE"))
  BY DEF Reading, At, In
<1>2. /\ Calls /\ Framed(top) /\ Stage(top) /\ Inner /\ idata.status # "FATAL"
  BY <1>1, RunningTop DEF Running
<1>3. stack' # <<>> /\ top'.pc = "scan" /\ top'.op = top.op
  BY <1>1, <1>2, GotoTop DEF Moved
<1>4. top.op = "check" => idata.state = "IDLE"
  BY <1>1, <1>2 DEF Framed, Commanding
<1>5. Stage(top)'
  BY <1>3, <1>4 DEF Stage
<1>6. Stepping'
  BY <1>3 DEF Stepping
<1>7. Waiting(idata') = Waiting(idata)
  BY DEF Waiting
<1>8. Owed(idata', server'.input) /\ Answered(idata', server'.input, buf')
  BY <1>7 DEF Owed, WaitedFor, Answered
<1>9. ~In("idle", "write")
  BY <1>1 DEF In, At
<1>10. \A i \in 1 .. Len(idata.cmdbuf) : idata.cmdbuf[i].verb # "IDLE"
  BY <1>2, <1>9 DEF Inner, Starting
<1>11. \A i \in Unstarted(server') : i = Len(server'.input) /\ In("idle", "scan")' /\ buf'.kind # "+"
  BY <1>1, <1>3 DEF In, At
<1>12. Starting'
  BY <1>10, <1>11 DEF Starting
<1>13. QED
  BY <1>2, <1>5, <1>6, <1>8, <1>12 DEF Inner

\* An IDLE that has not started is the last thing sent, and is waited for.
LEMMA ReadUnstarted ==
  ASSUME Running, Reading, NEW i \in Unstarted(server)
  PROVE i = Len(server.input) /\ In("idle", "read")
<1>1. top.pc # "scan"
  BY DEF Reading, At, In
<1>2. i = Len(server.input) /\ (In("idle", "read") \/ In("idle", "scan"))
  BY DEF Running, Inner, Starting
<1>3. ~In("idle", "scan")
  BY <1>1 DEF In, At
<1>4. QED
  BY <1>2, <1>3

\* The completion of one command takes it out.
LEMMA DropKeeps ==
  ASSUME Running, Reading, NEW i \in 1 .. Len(server.input),
         \A j \in 1 .. i : server.input[j].verb = "CMD",
         server' = Drop(i)
  PROVE /\ Owed(idata, server'.input)
        /\ \A line : line.seq = server.input[i].seq => Answered(idata, server'.input, line)
        /\ \A k \in Unstarted(server') : k = Len(server'.input) /\ In("idle", "read")
<1> DEFINE in == server.input
           n == Len(in)
           new == [j \in 1 .. n - 1 |-> IF j < i THEN in[j] ELSE in[j + 1]]
           g == [j \in 1 .. n - 1 |-> IF j < i THEN j ELSE j + 1]
<1>1. in \in Seq(Token) /\ n \in Nat /\ server \in [input : Seq(Token), idling : BOOLEAN, bye : BOOLEAN]
  BY DEF Running, IInv, Peer
<1>2. server'.input = new /\ server'.idling = server.idling
  BY <1>1 DEF Drop
<1>3. n - 1 \in Nat /\ i \in 1 .. n /\ i \in Int
  BY <1>1
<1>4. Len(new) = n - 1
  <2>1. DOMAIN new = 1 .. n - 1
    OBVIOUS
  <2>2. new \in [1 .. n - 1 -> Token]
    BY <1>1, <1>3
  <2> HIDE DEF new
  <2>3. new \in Seq(Token)
    <3>1. PICK m \in Nat : m = n - 1
      BY <1>3
    <3>2. new \in [1 .. m -> Token]
      BY <2>2, <3>1
    <3>3. QED
      BY <3>1, <3>2, SeqDef
  <2>4. QED
    BY <1>3, <2>1, <2>3
<1>5. /\ \A j \in 1 .. n - 1 : new[j] = in[g[j]] /\ g[j] = (IF j < i THEN j ELSE j + 1)
      /\ DOMAIN g = 1 .. n - 1
  OBVIOUS
<1>6. g \in [1 .. n - 1 -> 1 .. n]
  BY <1>1, <1>3
<1> HIDE DEF new, g
<1>7. Kept(new, in, g)
  <2>1. ASSUME NEW j \in 1 .. n - 1, NEW k \in 1 .. n - 1, g[j] = g[k] PROVE j = k
    <3>1. j \in Int /\ k \in Int
      BY <1>1
    <3>2. QED
      BY <1>3, <1>5, <2>1, <3>1
  <2>2. QED
    BY <1>4, <1>5, <1>6, <2>1 DEF Kept
<1>8. \A k \in 1 .. Len(new) : g[k] # i
  BY <1>3, <1>4, <1>5
<1>9. i \in Commands(in)
  <2>1. i \in 1 .. i
    BY <1>3
  <2>2. in[i].verb = "CMD"
    BY <2>1
  <2>3. QED
    BY <2>2 DEF Commands
<1>10. Owed(idata, in)
  BY DEF Running, Inner
<1>11. Owed(idata, new) /\ \A line : line.seq = in[i].seq => Answered(idata, new, line)
  BY <1>7, <1>8, <1>9, <1>10, OwedKept
<1>12. ASSUME NEW k \in Unstarted(server') PROVE k = n - 1 /\ In("idle", "read")
  <2>1. k \in 1 .. n - 1 /\ new[k].verb = "IDLE"
    BY <1>2, <1>4, <1>12 DEF Unstarted
  <2>2. k \in Int /\ 1 <= k /\ k <= n - 1
    BY <1>1, <2>1
  <2>3. ~(k < i)
    <3>1. ASSUME k < i PROVE FALSE
      <4>1. k \in 1 .. i /\ new[k] = in[k]
        BY <1>3, <1>5, <2>1, <2>2, <3>1
      <4>2. in[k].verb = "CMD"
        BY <4>1
      <4>3. QED
        BY <2>1, <4>1, <4>2
    <3>2. QED
      BY <3>1
  <2>4. new[k] = in[k + 1] /\ k + 1 \in 1 .. n /\ k + 1 # 1
    BY <1>1, <1>5, <2>1, <2>2, <2>3
  <2>5. k + 1 \in Unstarted(server)
    BY <2>1, <2>4 DEF Unstarted
  <2>6. k + 1 = n /\ In("idle", "read")
    BY <2>5, ReadUnstarted
  <2>7. QED
    BY <1>1, <2>2, <2>6
<1>13. QED
  BY <1>2, <1>4, <1>11, <1>12

\* What is at the head goes, after IDLE or DONE.
LEMMA RestKeeps ==
  ASSUME Running, Reading, NEW n \in {1, 2}, n <= Len(server.input), server' = Rest(n)
  PROVE /\ Owed(idata, server'.input)
        /\ \A line : line.seq = server.input[1].seq /\ server.input[1].verb # "DONE"
                       => Answered(idata, server'.input, line)
        /\ \A k \in Unstarted(server') : k = Len(server'.input) /\ In("idle", "read")
        /\ \A k \in Unstarted(server') : Len(server.input) # 1
<1> DEFINE in == server.input
           len == Len(in)
           new == SubSeq(in, n + 1, len)
           g == [j \in 1 .. len - n |-> j + n]
<1>1. in \in Seq(Token) /\ len \in Nat /\ server \in [input : Seq(Token), idling : BOOLEAN, bye : BOOLEAN]
  BY DEF Running, IInv, Peer
<1>2. server'.input = new /\ server'.idling = FALSE
  <2>1. server.input \in Seq(Token)
    BY <1>1
  <2> DEFINE r == [server EXCEPT !.input = new]
  <2>2. r \in [input : {new}, idling : BOOLEAN, bye : BOOLEAN]
    BY <1>1
  <2>3. server' = [r EXCEPT !.idling = FALSE]
    BY DEF Rest
  <2> HIDE DEF r, new
  <2>4. QED
    BY <2>2, <2>3
<1>3. n \in Nat /\ len - n \in Nat /\ n \in 1 .. len
  BY <1>1
<1>4. /\ Len(new) = len - n
      /\ \A j \in 1 .. len - n : new[j] = in[n + j]
  <2>1. \A j \in n + 1 .. len : in[j] \in Token
    BY <1>1, <1>3
  <2>2. /\ Len(new) = IF n + 1 <= len THEN len - (n + 1) + 1 ELSE 0
        /\ \A j \in 1 .. len - (n + 1) + 1 : new[j] = in[n + 1 + j - 1]
    BY <1>1, <1>3, <2>1, SubSeqProperties
  <2>3. len - (n + 1) + 1 = len - n
    BY <1>1, <1>3
  <2>4. Len(new) = len - n
    BY <1>1, <1>3, <2>2, <2>3
  <2>5. ASSUME NEW j \in 1 .. len - n PROVE new[j] = in[n + j]
    <3>1. n + 1 + j - 1 = n + j
      BY <1>3
    <3>2. QED
      BY <2>2, <2>3, <3>1
  <2>6. QED
    BY <2>4, <2>5
<1>5. /\ \A j \in 1 .. len - n : g[j] = j + n
      /\ DOMAIN g = 1 .. len - n
  OBVIOUS
<1>6. g \in [1 .. len - n -> 1 .. len]
  BY <1>1, <1>3
<1> HIDE DEF new, g, len
<1>7. Kept(new, in, g)
  <2>1. ASSUME NEW j \in 1 .. len - n, NEW k \in 1 .. len - n, g[j] = g[k] PROVE j = k
    <3>1. j \in Int /\ k \in Int
      BY <1>1
    <3>2. QED
      BY <1>3, <1>5, <2>1, <3>1
  <2>2. ASSUME NEW j \in 1 .. len - n PROVE new[j] = in[g[j]]
    <3>1. j + n = n + j
      BY <1>3
    <3>2. QED
      BY <1>4, <1>5, <3>1
  <2>3. QED
    BY <1>4, <1>6, <2>1, <2>2 DEF Kept, len
<1>8. \A k \in 1 .. Len(new) : g[k] # 1
  BY <1>3, <1>4, <1>5
<1>9. Owed(idata, in)
  BY DEF Running, Inner
<1>10. Owed(idata, new)
  BY <1>7, <1>9, OwedKept
<1>11. ASSUME NEW line, line.seq = in[1].seq, in[1].verb # "DONE" PROVE Answered(idata, new, line)
  <2>1. 1 \in Commands(in)
    BY <1>1, <1>3, <1>11 DEF Commands, len
  <2>2. Owed(idata, new) /\ \A l : l.seq = in[1].seq => Answered(idata, new, l)
    BY <1>7, <1>8, <1>9, <2>1, OwedKept
  <2>3. QED
    BY <1>11, <2>2
<1>12. ASSUME NEW k \in Unstarted(server') PROVE k = len - n /\ In("idle", "read") /\ len # 1
  <2>1. k \in 1 .. len - n /\ new[k].verb = "IDLE"
    BY <1>2, <1>4, <1>12 DEF Unstarted
  <2>2. k \in Int /\ 1 <= k /\ k <= len - n
    BY <1>1, <2>1
  <2>3. new[k] = in[n + k] /\ n + k \in 1 .. len /\ n + k # 1
    BY <1>1, <1>3, <1>4, <2>1, <2>2
  <2>4. n + k \in Unstarted(server)
    BY <2>1, <2>3 DEF Unstarted, len
  <2>5. n + k = len /\ In("idle", "read")
    BY <2>4, ReadUnstarted DEF len
  <2>6. QED
    BY <1>1, <1>3, <2>2, <2>5
<1>13. QED
  BY <1>2, <1>4, <1>10, <1>11, <1>12 DEF len

\* What the server can answer.
LEMMA AnswerCases ==
  ASSUME NEW a \in Answers
  PROVE LET in == server.input
            head == IF in = <<>> THEN "NULL" ELSE in[1].verb
        IN \/ \E i \in 1 .. Len(in), c \in {"OK", "NO", "BAD"} :
                /\ \A j \in 1 .. i : in[j].verb = "CMD"
                /\ InOrder => i = 1
                /\ a = <<Tagged(in[i].seq, c), Drop(i)>>
           \/ a = <<Plain("untagged"), server>>
           \/ /\ head = "IDLE" /\ ~server.idling
              /\ \/ a = <<Plain("+"), [server EXCEPT !.idling = TRUE]>>
                 \/ \E c \in {"NO", "BAD"} : a = <<Tagged(in[1].seq, c), Rest(1)>>
           \/ /\ head = "IDLE" /\ server.idling /\ Len(in) > 1
              /\ \E c \in {"OK", "BAD"} : a = <<Tagged(in[1].seq, c), Rest(2)>>
           \/ head = "DONE" /\ a = <<Plain("untagged"), Rest(1)>>
<1> DEFINE in == server.input
           head == IF in = <<>> THEN "NULL" ELSE in[1].verb
           more ==
             CASE head = "IDLE" /\ ~server.idling ->
                    {<<Plain("+"), [server EXCEPT !.idling = TRUE]>>}
                      \cup {<<Tagged(in[1].seq, c), Rest(1)>> : c \in {"NO", "BAD"}}
               [] head = "IDLE" /\ server.idling /\ Len(in) > 1 ->
                    {<<Tagged(in[1].seq, IF in[2].verb = "DONE" THEN "OK" ELSE "BAD"), Rest(2)>>}
               [] head = "DONE" -> {<<Plain("untagged"), Rest(1)>>}
               [] OTHER -> {}
<1>1. \/ \E i \in 1 .. Len(in), c \in {"OK", "NO", "BAD"} :
           /\ \A j \in 1 .. i : in[j].verb = "CMD"
           /\ InOrder => i = 1
           /\ a = <<Tagged(in[i].seq, c), Drop(i)>>
      \/ a = <<Plain("untagged"), server>>
      \/ a \in more
  BY DEF Answers
<1>2. ASSUME a \in more
      PROVE \/ /\ head = "IDLE" /\ ~server.idling
               /\ \/ a = <<Plain("+"), [server EXCEPT !.idling = TRUE]>>
                  \/ \E c \in {"NO", "BAD"} : a = <<Tagged(in[1].seq, c), Rest(1)>>
            \/ /\ head = "IDLE" /\ server.idling /\ Len(in) > 1
               /\ \E c \in {"OK", "BAD"} : a = <<Tagged(in[1].seq, c), Rest(2)>>
            \/ head = "DONE" /\ a = <<Plain("untagged"), Rest(1)>>
  BY <1>2
<1>3. QED
  BY <1>1, <1>2

LEMMA LineFields ==
  /\ \A k : Plain(k).kind = k
  /\ \A s, c : Tagged(s, c).kind = "tagged" /\ Tagged(s, c).seq = s
BY DEF Plain, Tagged

LEMMA AnswerKeeps ==
  ASSUME Running, Reading, NEW a \in Answers, server' = a[2]
  PROVE /\ a[1].kind \in {"tagged", "untagged", "+"}
        /\ Owed(idata, server'.input) /\ Answered(idata, server'.input, a[1])
        /\ a[1].kind = "+" => top.op = "idle"
        /\ \A k \in Unstarted(server') :
              k = Len(server'.input) /\ In("idle", "read") /\ a[1].kind # "+"
<1> DEFINE in == server.input
           head == IF in = <<>> THEN "NULL" ELSE in[1].verb
<1>1. /\ in \in Seq(Token) /\ Len(in) \in Nat
      /\ server \in [input : Seq(Token), idling : BOOLEAN, bye : BOOLEAN]
  BY DEF Running, IInv, Peer
<1>2. Owed(idata, in)
  BY DEF Running, Inner
<1>3. head # "NULL" => Len(in) >= 1 /\ 1 \in 1 .. Len(in) /\ head = in[1].verb
  BY <1>1 DEF Token
<1>4. head = "IDLE" /\ ~server.idling => Len(in) = 1 /\ In("idle", "read")
  <2>1. SUFFICES ASSUME head = "IDLE", ~server.idling PROVE Len(in) = 1 /\ In("idle", "read")
    OBVIOUS
  <2>2. 1 \in Unstarted(server)
    BY <1>3, <2>1 DEF Unstarted
  <2>3. QED
    BY <2>2, ReadUnstarted
<1> HIDE DEF head
<1>5. CASE \E i \in 1 .. Len(in), c \in {"OK", "NO", "BAD"} :
             /\ \A j \in 1 .. i : in[j].verb = "CMD"
             /\ a = <<Tagged(in[i].seq, c), Drop(i)>>
  <2>1. PICK i \in 1 .. Len(in), c \in {"OK", "NO", "BAD"} :
             /\ \A j \in 1 .. i : in[j].verb = "CMD"
             /\ a = <<Tagged(in[i].seq, c), Drop(i)>>
    BY <1>5
  <2>2. server' = Drop(i) /\ a[1].kind = "tagged" /\ a[1].seq = in[i].seq
    BY <2>1, LineFields
  <2>3. /\ Owed(idata, server'.input)
        /\ \A line : line.seq = server.input[i].seq => Answered(idata, server'.input, line)
        /\ \A k \in Unstarted(server') : k = Len(server'.input) /\ In("idle", "read")
    BY <2>1, <2>2, DropKeeps
  <2>4. QED
    BY <2>2, <2>3
<1>6. CASE a = <<Plain("untagged"), server>>
  <2>1. a[1].kind = "untagged" /\ server' = server
    BY <1>6, LineFields
  <2>2. \A k \in Unstarted(server') : k = Len(server'.input) /\ In("idle", "read")
    BY <2>1, ReadUnstarted
  <2>3. QED
    BY <1>2, <2>1, <2>2 DEF Answered
<1>7. CASE /\ head = "IDLE" /\ ~server.idling
           /\ a = <<Plain("+"), [server EXCEPT !.idling = TRUE]>>
  <2>1. a[1].kind = "+" /\ server' = [server EXCEPT !.idling = TRUE]
    BY <1>7, LineFields
  <2>2. server'.input = in /\ server'.idling = TRUE
    BY <1>1, <2>1
  <2>3. Len(in) = 1 /\ top.op = "idle"
    BY <1>4, <1>7 DEF In
  <2>4. Unstarted(server') = {}
    BY <2>2, <2>3 DEF Unstarted
  <2>5. QED
    BY <1>2, <2>1, <2>2, <2>3, <2>4 DEF Answered
<1>8. CASE /\ head = "IDLE" /\ ~server.idling
           /\ \E c \in {"NO", "BAD"} : a = <<Tagged(in[1].seq, c), Rest(1)>>
  <2>1. a[1].kind = "tagged" /\ a[1].seq = in[1].seq /\ server' = Rest(1)
    BY <1>8, LineFields
  <2>2. Len(in) = 1 /\ in[1].verb # "DONE"
    BY <1>3, <1>4, <1>8
  <2>3. 1 <= Len(server.input)
    BY <2>2
  <2>4. /\ Owed(idata, server'.input) /\ Answered(idata, server'.input, a[1])
        /\ Unstarted(server') = {}
    BY <2>1, <2>2, <2>3, RestKeeps
  <2>5. QED
    BY <2>1, <2>4
<1>9. CASE /\ head = "IDLE" /\ server.idling /\ Len(in) > 1
           /\ \E c \in {"OK", "BAD"} : a = <<Tagged(in[1].seq, c), Rest(2)>>
  <2>1. a[1].kind = "tagged" /\ a[1].seq = in[1].seq /\ server' = Rest(2)
    BY <1>9, LineFields
  <2>2. 2 <= Len(server.input) /\ in[1].verb # "DONE"
    BY <1>1, <1>3, <1>9
  <2>3. /\ Owed(idata, server'.input) /\ Answered(idata, server'.input, a[1])
        /\ \A k \in Unstarted(server') : k = Len(server'.input) /\ In("idle", "read")
    BY <2>1, <2>2, RestKeeps
  <2>4. QED
    BY <2>1, <2>3
<1>10. CASE head = "DONE" /\ a = <<Plain("untagged"), Rest(1)>>
  <2>1. a[1].kind = "untagged" /\ server' = Rest(1)
    BY <1>10, LineFields
  <2>2. 1 <= Len(server.input)
    BY <1>1, <1>3, <1>10
  <2>3. /\ Owed(idata, server'.input)
        /\ \A k \in Unstarted(server') : k = Len(server'.input) /\ In("idle", "read")
    BY <2>1, <2>2, RestKeeps
  <2>4. QED
    BY <2>1, <2>3 DEF Answered
<1>11. QED
  <2>1. \/ \E i \in 1 .. Len(in), c \in {"OK", "NO", "BAD"} :
             /\ \A j \in 1 .. i : in[j].verb = "CMD"
             /\ a = <<Tagged(in[i].seq, c), Drop(i)>>
        \/ a = <<Plain("untagged"), server>>
        \/ /\ head = "IDLE" /\ ~server.idling
           /\ \/ a = <<Plain("+"), [server EXCEPT !.idling = TRUE]>>
              \/ \E c \in {"NO", "BAD"} : a = <<Tagged(in[1].seq, c), Rest(1)>>
        \/ /\ head = "IDLE" /\ server.idling /\ Len(in) > 1
           /\ \E c \in {"OK", "BAD"} : a = <<Tagged(in[1].seq, c), Rest(2)>>
        \/ head = "DONE" /\ a = <<Plain("untagged"), Rest(1)>>
    BY AnswerCases DEF head
  <2>2. QED
    BY <1>5, <1>6, <1>7, <1>8, <1>9, <1>10, <2>1

LEMMA UnsolicitedKeeps ==
  ASSUME Running, Reading, NEW a \in Unsolicited, server' = a[2], Linked'
  PROVE /\ a[1].kind \in {"untagged", "EXISTS", "FETCH"}
        /\ Owed(idata, server'.input) /\ Answered(idata, server'.input, a[1])
        /\ \A k \in Unstarted(server') : k = Len(server'.input) /\ In("idle", "read")
<1>1. server \in [input : Seq(Token), idling : BOOLEAN, bye : BOOLEAN]
  BY DEF Running, IInv, Peer
<1>2. PICK k \in {"untagged", "EXISTS", "FETCH", "BYE"} :
        a = <<Plain(k), [server EXCEPT !.bye = (k = "BYE")]>>
  BY DEF Unsolicited
<1>3. a[1].kind = k /\ server' = [server EXCEPT !.bye = (k = "BYE")]
  BY <1>2, LineFields
<1>4. server'.input = server.input /\ server'.idling = server.idling /\ server'.bye = (k = "BYE")
  BY <1>1, <1>3
<1>5. k # "BYE"
  BY <1>4 DEF Linked
<1>6. Owed(idata, server'.input) /\ Unstarted(server') = Unstarted(server)
  BY <1>4 DEF Running, Inner, Unstarted
<1>7. \A i \in Unstarted(server') : i = Len(server'.input) /\ In("idle", "read")
  BY <1>4, <1>6, ReadUnstarted
<1>8. QED
  BY <1>3, <1>5, <1>6, <1>7 DEF Answered

LEMMA InnerRead ==
  ASSUME Running, NestedFetch = FALSE, ReadAnswer \/ ReadUnsolicited, Linked'
  PROVE Inner'
<1>1. PICK a \in Answers \cup Unsolicited :
        /\ Reading /\ server' = a[2] /\ buf' = a[1]
        /\ idata' = cmd_handle_untagged(idata, a[1])
        /\ \/ a[1].kind = "BYE"
           \/ stack' = [stack EXCEPT ![Len(stack)].pc = "scan"]
  BY DEF ReadAnswer, ReadUnsolicited, ReadLine
<1>2. /\ a[1].kind \in {"untagged", "EXISTS", "FETCH", "tagged", "+"}
      /\ Owed(idata, server'.input) /\ Answered(idata, server'.input, buf')
      /\ buf'.kind = "+" => top.op = "idle"
      /\ \A k \in Unstarted(server') :
            k = Len(server'.input) /\ In("idle", "read") /\ buf'.kind # "+"
  BY <1>1, AnswerKeeps, UnsolicitedKeeps
<1>3. idata' \in {idata, [idata EXCEPT !.reopen = @ \cup {"NEWMAIL"}]}
  BY <1>1, <1>2 DEF cmd_handle_untagged
<1>4. /\ idata'.cmds = idata.cmds /\ idata'.cmdbuf = idata.cmdbuf
      /\ idata'.status = idata.status /\ idata'.state = idata.state
  BY <1>3 DEF Running, IInv, Good, IData
<1>5. Moved("scan")
  BY <1>1, <1>2 DEF Moved
<1>6. QED
  BY <1>1, <1>2, <1>4, <1>5, ReadKeeps
------------------------------------------------------------------------------
(* The line is looked at.                                                   *)

\* No IDLE is on its way but the one of a call that is writing or reading.
LEMMA NoIdle ==
  ASSUME Inner, ~In("idle", "write"), ~In("idle", "read"),
         ~In("idle", "scan") \/ buf.kind = "+"
  PROVE /\ Unstarted(server) = {}
        /\ \A i \in 1 .. Len(idata.cmdbuf) : idata.cmdbuf[i].verb # "IDLE"
BY DEF Inner, Starting

LEMMA RespondKeeps ==
  ASSUME Running, ScanRespond
  PROVE Inner'
<1>1. stack # <<>> /\ top.pc = "scan" /\ buf.kind = "+" /\ UNCHANGED <<idata, server, buf>>
      /\ stack' = Stepped("RESPOND")
  BY DEF ScanRespond, At, Step
<1>2. Calls /\ Stage(top) /\ Inner
  BY <1>1, RunningTop DEF Running
<1>3. stack' # <<>> /\ top'.pc = "done" /\ top'.rc = "RESPOND" /\ top'.op = top.op
  BY <1>1, <1>2, SteppedTop
<1>4. top.op = "idle"
  BY <1>1, <1>2 DEF Stage
<1>5. Stage(top)' /\ Stepping' /\ ~At("scan")'
  BY <1>3, <1>4 DEF Stage, Stepping, At
<1>6. /\ Unstarted(server) = {}
      /\ \A i \in 1 .. Len(idata.cmdbuf) : idata.cmdbuf[i].verb # "IDLE"
  BY <1>1, <1>2, NoIdle DEF In, At
<1>7. Starting'
  BY <1>1, <1>6 DEF Starting
<1>8. Owed(idata', server'.input)
  BY <1>1, <1>2 DEF Inner
<1>9. QED
  BY <1>1, <1>2, <1>5, <1>7, <1>8 DEF Inner

LEMMA ContinueKeeps ==
  ASSUME Running, ScanContinue
  PROVE Inner'
<1>1. stack # <<>> /\ top.pc = "scan" /\ buf.kind # "+" /\ UNCHANGED <<server, buf>>
      /\ stack' = Stepped("CONTINUE") /\ idata' = Scan(idata, buf) /\ At("scan")
  BY DEF ScanContinue, At, Step
<1>2. Calls /\ Good(idata) /\ buf \in Line /\ Stage(top) /\ Inner
  BY <1>1, RunningTop DEF Running, Calls
<1>3. stack' # <<>> /\ top'.op = top.op /\ top'.pc = IF top.op = "check" THEN "poll" ELSE "read"
  BY <1>1, <1>2, SteppedTop
<1>4. idata'.status = idata.status /\ idata'.state = idata.state /\ idata'.cmdbuf = idata.cmdbuf
  BY <1>1, <1>2, ScanStatus
<1>5. Owed(idata', server'.input)
  BY <1>1, <1>2, OwedScan DEF Inner
<1>6. Stage(top)' /\ ~At("scan")'
  BY <1>3 DEF Stage, At
<1>7. idata'.cmdbuf # <<>> \/ Stepping'
  <2>1. CASE top.op = "check"
    <3>1. idata.state = "IDLE"
      BY <1>1, <1>2, <2>1 DEF Stage
    <3>2. QED
      BY <1>2, <1>4, <3>1 DEF Inner
  <2>2. CASE top.op # "check"
    BY <1>3, <2>2 DEF Stepping
  <2>3. QED
    BY <2>1, <2>2
<1>8. ~In("idle", "write") /\ ~In("idle", "read")
  BY <1>1 DEF In, At
<1>9. \A i \in 1 .. Len(idata.cmdbuf) : idata.cmdbuf[i].verb # "IDLE"
  BY <1>2, <1>8 DEF Inner, Starting
<1>10. ASSUME NEW i \in Unstarted(server) PROVE i = Len(server.input) /\ In("idle", "read")'
  <2>1. i = Len(server.input) /\ In("idle", "scan")
    BY <1>2, <1>8, <1>10 DEF Inner, Starting
  <2>2. QED
    BY <1>3, <2>1 DEF In, At
<1>11. Starting'
  BY <1>1, <1>4, <1>9, <1>10 DEF Starting
<1>12. QED
  BY <1>2, <1>4, <1>5, <1>6, <1>7, <1>11 DEF Inner

LEMMA DrainedKeeps ==
  ASSUME Running, ScanDrained
  PROVE Inner'
<1>1. PICK d, rc : d = Scan(idata, buf) /\ rc = ScanResult(idata, buf)
  OBVIOUS
<1>2. /\ stack # <<>> /\ top.pc = "scan" /\ rc # "CONTINUE" /\ UNCHANGED <<server, buf>>
      /\ idata' = imap_cmd_finish(d) /\ At("scan")
      /\ \/ stack' = Append([Stepped(rc) EXCEPT ![Len(stack)].pc = "finished"],
                            Call("read_headers", "start"))
         \/ stack' = Stepped(rc)
  BY <1>1 DEF ScanDrained, At
<1>3. Calls /\ Good(idata) /\ buf \in Line /\ Inner /\ idata.status # "FATAL"
  BY <1>2, RunningTop DEF Running, Calls
<1>4. rc \in {"OK", "NO", "BAD"}
  BY <1>1, <1>2, <1>3 DEF ScanResult, Line
<1>5. d.status = idata.status /\ d.state = idata.state /\ d.cmdbuf = idata.cmdbuf /\ Good(d)
  BY <1>1, <1>3, ScanStatus, ScanGood
<1>6. /\ idata'.status # "FATAL" /\ idata'.state = d.state /\ idata'.cmds = d.cmds
      /\ idata'.cmdbuf = d.cmdbuf
  BY <1>2, <1>3, <1>5, FinishStatus
<1>7. Waiting(d) = {}
  BY <1>1, <1>2, <1>3, ScanDrains
<1>8. Owed(d, server.input)
  BY <1>1, <1>2, <1>3, OwedScan DEF Inner
<1>9. Waiting(idata') = {} /\ Owed(idata', server'.input)
  BY <1>2, <1>6, <1>7, <1>8 DEF Waiting, Owed, WaitedFor
<1>10. Commands(server'.input) = {} /\ Commands(idata'.cmdbuf) = {}
  BY <1>9 DEF Owed, WaitedFor
<1>11. Starting'
  BY <1>10 DEF Starting, Unstarted, Commands
<1>12. stack' # <<>> /\ Stage(top)' /\ ~At("scan")'
  <2>1. CASE stack' = Stepped(rc)
    <3>1. stack' # <<>> /\ top'.pc = "done" /\ top'.rc = rc
      BY <1>2, <1>3, <2>1, SteppedTop
    <3>2. QED
      BY <1>4, <1>9, <3>1 DEF Stage, At
  <2>2. CASE stack' = Append([Stepped(rc) EXCEPT ![Len(stack)].pc = "finished"],
                             Call("read_headers", "start"))
    <3>1. stack' # <<>> /\ top' = Call("read_headers", "start")
      BY <1>2, <1>3, <2>2, FinishStack
    <3>2. top'.pc = "start" /\ top'.verb = "CMD"
      BY <3>1 DEF Call
    <3>3. QED
      BY <3>1, <3>2 DEF Stage, At
  <2>3. QED
    BY <1>2, <2>1, <2>2
<1>13. idata'.state = "IDLE" => idata'.cmdbuf # <<>>
  BY <1>3, <1>5, <1>6 DEF Inner
<1>14. QED
  BY <1>6, <1>9, <1>11, <1>12, <1>13 DEF Inner

LEMMA FinishedKeeps ==
  ASSUME Running, Finished
  PROVE Inner'
<1>1. /\ stack # <<>> /\ top.pc = "finished" /\ UNCHANGED server
      /\ idata' = [idata EXCEPT !.status = "none"]
      /\ IF top.op = "check" THEN Goto("errcleanup") ELSE Step(top.rc)
  BY DEF Finished, At
<1>2. Calls /\ Good(idata) /\ Inner /\ Framed(top) /\ Stage(top)
  BY <1>1, RunningTop DEF Running
<1>3. /\ idata'.status # "FATAL" /\ idata'.state = idata.state /\ idata'.cmds = idata.cmds
      /\ idata'.cmdbuf = idata.cmdbuf
  BY <1>1, <1>2 DEF Good, IData
<1>4. Waiting(idata') = {}
  BY <1>1, <1>2, <1>3 DEF Stage, Waiting
<1>5. ~Stepping /\ top.pc # "write"
  BY <1>1 DEF Stepping
<1>6. Stage(top)' /\ top'.pc # "scan"
  <2>1. CASE top.op = "check"
    <3>1. Moved("errcleanup")
      BY <1>1, <2>1, GotoMoved
    <3>2. top'.pc = "errcleanup"
      BY <1>1, <1>2, <3>1, GotoTop DEF Moved
    <3>3. QED
      BY <3>2 DEF Stage
  <2>2. CASE top.op # "check"
    <3>1. top.rc \in {"OK", "NO", "BAD"} /\ stack' = Stepped(top.rc)
      BY <1>1, <1>2, <2>2 DEF Framed, Step
    <3>2. top'.pc = "done" /\ top'.rc = top.rc
      BY <1>1, <1>2, <3>1, SteppedTop
    <3>3. QED
      BY <1>4, <3>1, <3>2 DEF Stage
  <2>3. QED
    BY <2>1, <2>2
<1>7. QED
  BY <1>1, <1>2, <1>3, <1>5, <1>6, QuietKeeps

LEMMA InnerStep ==
  ASSUME Running, NestedFetch = FALSE, CmdStep, Linked'
  PROVE Inner'
<1>1. Good(idata) /\ idata.status # "FATAL"
  BY DEF Running, IInv, Inner
<1>2. CASE ReadFatal
  BY <1>1, <1>2 DEF ReadFatal
<1>3. CASE ReadFails
  <2> DEFINE d == [idata EXCEPT !.fd = FALSE]
  <2>1. Good(d) /\ ~d.fd
    <3>1. Good(d)
      BY <1>1, SetFields
    <3>2. QED
      BY <1>1, <3>1 DEF Good, IData
  <2> HIDE DEF d
  <2>2. idata' = cmd_handle_fatal(d)
    BY <1>3 DEF ReadFails, d
  <2>3. QED
    BY <2>1, <2>2, LeavesFatal DEF Linked, Leaves
<1>4. QED
  BY <1>2, <1>3, InnerRead, RespondKeeps, ContinueKeeps, DrainedKeeps, FinishedKeeps DEF CmdStep
------------------------------------------------------------------------------
(* The callers go on.                                                       *)

\* A call that is not at imap_cmd_start(), nor reading, moves on or returns.
LEMMA CallerReturns ==
  ASSUME Running, stack # <<>>, ~Stepping, top.pc \notin {"start", "drained", "write", "failed"},
         UNCHANGED server, idata'.cmdbuf = idata.cmdbuf, idata'.cmds = idata.cmds,
         idata'.status # "FATAL", idata'.state = "IDLE" => idata.state = "IDLE",
         NEW v, Return(v),
         top.op = "exec" /\ top.failok => top.pc = "done" /\ v # "-1" /\ UNCHANGED idata,
         top.op = "read_headers" => top.pc = "done"
  PROVE Inner'
<1>1. ~top.queue
  BY RunningTop
<1>2. IInv /\ Safe /\ Lag(idata) /\ Inner
  BY DEF Running
<1>3. QED
  BY <1>1, <1>2, QuietReturn

\* The command a call goes on with.
LEMMA CallerCalls ==
  ASSUME Running, stack # <<>>, ~Stepping, top.pc \notin {"start", "drained", "write", "failed"},
         UNCHANGED server, idata'.cmdbuf = idata.cmdbuf, idata'.cmds = idata.cmds,
         idata'.status # "FATAL", idata'.state = "IDLE" => idata.state = "IDLE",
         NEW p, NEW verb \in {"CMD", "NULL"}, NEW queue \in BOOLEAN, NEW failok \in BOOLEAN,
         Push(Exec(verb, queue, failok), p), verb = "NULL" => idata.cmdbuf # <<>>
  PROVE Inner'
<1> DEFINE f == Exec(verb, queue, failok)
<1>1. f.pc = "start" /\ f.verb = verb
  BY FramedCalls
<1>2. Push(f, p)
  OBVIOUS
<1> HIDE DEF f
<1>3. IInv /\ Inner
  BY DEF Running
<1>4. QED
  BY <1>1, <1>2, <1>3, QuietPush

LEMMA CallerReads ==
  ASSUME Running, stack # <<>>, ~Stepping, top.pc \notin {"start", "drained", "write", "failed"},
         UNCHANGED server, idata'.cmdbuf = idata.cmdbuf, idata'.cmds = idata.cmds,
         idata'.status # "FATAL", idata'.state = "IDLE" => idata.state = "IDLE",
         NEW p, Push(Call("read_headers", "start"), p)
  PROVE Inner'
<1> DEFINE f == Call("read_headers", "start")
<1>1. f.pc = "start" /\ f.verb = "CMD"
  BY DEF Call
<1>2. Push(f, p)
  OBVIOUS
<1> HIDE DEF f
<1>3. IInv /\ Inner
  BY DEF Running
<1>4. QED
  BY <1>1, <1>2, <1>3, QuietPush

LEMMA CallerGoes ==
  ASSUME Running, stack # <<>>, ~Stepping, top.pc \notin {"start", "drained", "write", "failed"},
         UNCHANGED server, idata'.cmdbuf = idata.cmdbuf, idata'.cmds = idata.cmds,
         idata'.status # "FATAL", idata'.state = "IDLE" => idata.state = "IDLE",
         NEW p, Goto(p), top.op # "exec", p = "flush" => top.pc = "enable",
         p \in {"start", "selecting", "flush", "opened", "poll", "errcleanup", "noop", "finish"}
  PROVE Inner'
<1>1. Framed(top) /\ Stage(top)
  BY RunningTop
<1>2. top.verb # "NULL" /\ (p = "flush" => idata.cmdbuf # <<>>)
  BY <1>1 DEF Framed, Stage
<1>3. Moved(p) /\ IInv /\ Inner
  BY GotoMoved DEF Running
<1>4. QED
  BY <1>2, <1>3, QuietGoto

LEMMA IdleKeeps ==
  ASSUME Running, IdleDone, top.rc = "RESPOND"
  PROVE Inner'
<1>1. /\ stack # <<>> /\ top.op = "idle" /\ top.pc = "done" /\ UNCHANGED server /\ Return("0")
      /\ idata' = [idata EXCEPT !.state = "IDLE",
                     !.cmdbuf = Append(@, [verb |-> "DONE", seq |-> 0])]
  BY DEF IdleDone, In, At
<1>2. Calls /\ Shaped(stack) /\ Good(idata) /\ Inner /\ Framed(top)
  BY <1>1, RunningTop DEF Running, Safe
<1> DEFINE t == [verb |-> "DONE", seq |-> 0]
<1>3. idata.cmdbuf \in Seq(Token) /\ t \in Token /\ t.verb = "DONE" /\ idata \in IData
  BY <1>2 DEF Good, IData, Token
<1>4. /\ idata'.state = "IDLE" /\ idata'.cmds = idata.cmds /\ idata'.status = idata.status
      /\ idata'.cmdbuf = Append(idata.cmdbuf, t)
  BY <1>1, <1>3 DEF IData
<1>5. Owed(idata', server'.input)
  BY <1>1, <1>2, <1>3, <1>4, OwedDone DEF Inner
<1> HIDE DEF t
<1>6. /\ Len(idata'.cmdbuf) = Len(idata.cmdbuf) + 1 /\ idata'.cmdbuf[Len(idata.cmdbuf) + 1] = t
      /\ \A i \in 1 .. Len(idata.cmdbuf) : idata'.cmdbuf[i] = idata.cmdbuf[i]
      /\ Len(idata.cmdbuf) \in Nat /\ idata'.cmdbuf # <<>>
  BY <1>3, <1>4
<1>7. /\ Unstarted(server) = {}
      /\ \A i \in 1 .. Len(idata.cmdbuf) : idata.cmdbuf[i].verb # "IDLE"
  BY <1>1, <1>2, NoIdle DEF In, At
<1>8. \A i \in 1 .. Len(idata'.cmdbuf) : idata'.cmdbuf[i].verb # "IDLE"
  BY <1>3, <1>6, <1>7
<1>9. Starting'
  BY <1>1, <1>7, <1>8 DEF Starting
<1>10. ASSUME stack' # <<>> PROVE Stage(top)' /\ ~At("scan")'
  <2>1. Called(top', top)
    BY <1>1, <1>2, <1>10, ReturnTop
  <2>2. top'.pc \in Resting \ {"drained", "finished", "enable", "flush"}
    BY <1>1, <1>2, <2>1 DEF Called, Framed
  <2>3. QED
    BY <2>2 DEF Stage, At, Resting
<1>11. ~At("scan")'
  BY <1>10 DEF At
<1>12. QED
  BY <1>2, <1>4, <1>5, <1>6, <1>9, <1>10, <1>11 DEF Inner

LEMMA InnerDone ==
  ASSUME Running, CallDone, Linked'
  PROVE Inner'
<1>1. Good(idata) /\ idata.status # "FATAL"
  BY DEF Running, IInv, Inner
<1>2. ASSUME NEW op, NEW p, In(op, p), p \notin {"start", "drained", "write", "failed", "read", "scan"},
             op # "idle" \/ p # "done" \/ top.rc # "RESPOND"
      PROVE /\ stack # <<>> /\ top.op = op /\ top.pc = p /\ ~Stepping
            /\ top.pc \notin {"start", "drained", "write", "failed"}
  <2>1. stack # <<>> /\ top.op = op /\ top.pc = p
    BY <1>2 DEF In, At
  <2>2. QED
    BY <1>2, <2>1, RunningTop DEF Stepping
<1>3. CASE ExecDone
  <2>1. stack # <<>> /\ top.op = "exec" /\ top.pc = "done" /\ ~Stepping
    BY <1>2, <1>3 DEF ExecDone
  <2>2. PICK v : Return(v) /\ (top.failok => v # "-1")
    BY <1>1, <1>3 DEF ExecDone
  <2>3. UNCHANGED <<idata, server>>
    BY <1>3 DEF ExecDone
  <2>4. QED
    BY <1>1, <2>1, <2>2, <2>3, CallerReturns
<1>4. CASE IdleDone
  <2>1. CASE top.rc = "RESPOND"
    BY <1>4, <2>1, IdleKeeps
  <2>2. CASE top.rc # "RESPOND"
    <3>1. stack # <<>> /\ top.op = "idle" /\ top.pc = "done" /\ ~Stepping
      BY <1>2, <1>4, <2>2 DEF IdleDone
    <3>2. UNCHANGED <<idata, server>> /\ \E v : Return(v)
      BY <1>4, <2>2 DEF IdleDone
    <3>3. QED
      BY <1>1, <3>1, <3>2, CallerReturns
  <2>3. QED
    BY <2>1, <2>2
<1>5. CASE FetchDone
  <2>1. stack # <<>> /\ top.op = "fetch" /\ top.pc = "done" /\ ~Stepping
    BY <1>2, <1>5 DEF FetchDone
  <2>2. UNCHANGED <<idata, server>> /\ \E v : Return(v)
    BY <1>5 DEF FetchDone
  <2>3. QED
    BY <1>1, <2>1, <2>2, CallerReturns
<1>6. ASSUME NEW x, idata' = [idata EXCEPT !.reopen = x] \/ UNCHANGED idata
      PROVE /\ idata'.cmdbuf = idata.cmdbuf /\ idata'.cmds = idata.cmds
            /\ idata'.status # "FATAL" /\ (idata'.state = "IDLE" => idata.state = "IDLE")
  BY <1>1, <1>6 DEF Good, IData
<1>7. CASE ReadHeadersDone
  <2>1. stack # <<>> /\ top.op = "read_headers" /\ top.pc = "done" /\ ~Stepping
    BY <1>2, <1>7 DEF ReadHeadersDone
  <2>2. /\ \E x : idata' = [idata EXCEPT !.reopen = x] \/ UNCHANGED idata
        /\ UNCHANGED server
        /\ Goto("start") \/ \E v : Return(v)
    BY <1>7 DEF ReadHeadersDone
  <2>3. /\ idata'.cmdbuf = idata.cmdbuf /\ idata'.cmds = idata.cmds
        /\ idata'.status # "FATAL" /\ (idata'.state = "IDLE" => idata.state = "IDLE")
    BY <1>6, <2>2
  <2>4. QED
    BY <2>1, <2>2, <2>3, CallerReturns, CallerGoes
<1>8. CASE SelectAcl
  <2>1. stack # <<>> /\ top.op = "select" /\ top.pc = "acl" /\ ~Stepping
    BY <1>2, <1>8 DEF SelectAcl
  <2>2. /\ UNCHANGED <<idata, server>>
        /\ Push(Exec("CMD", TRUE, FALSE), "selecting") \/ Goto("selecting")
    BY <1>8 DEF SelectAcl
  <2>3. QED
    BY <1>1, <2>1, <2>2, CallerCalls, CallerGoes
<1>9. CASE SelectSend
  <2>1. stack # <<>> /\ top.op = "select" /\ top.pc = "selecting" /\ ~Stepping
    BY <1>2, <1>9 DEF SelectSend
  <2>2. /\ idata'.cmdbuf = idata.cmdbuf /\ idata'.cmds = idata.cmds
        /\ idata'.status # "FATAL" /\ idata'.state # "IDLE"
    BY <1>1, <1>9 DEF SelectSend, Good, IData
  <2>3. UNCHANGED server /\ Goto("start")
    BY <1>9 DEF SelectSend
  <2>4. QED
    BY <2>1, <2>2, <2>3, CallerGoes
<1>10. ASSUME SelectFails(idata)
       PROVE /\ idata'.cmdbuf = idata.cmdbuf /\ idata'.cmds = idata.cmds
             /\ idata'.status # "FATAL" /\ (idata'.state = "IDLE" => idata.state = "IDLE")
  <2> DEFINE state == IF idata.state = "SELECTED" THEN "AUTHENTICATED" ELSE idata.state
             d == [idata EXCEPT !.state = state]
  <2>1. Good(d)
    <3>1. state \in States
      BY <1>1 DEF Good, IData, States
    <3>2. QED
      BY <1>1, <3>1, SetFields
  <2>2. /\ d.cmdbuf = idata.cmdbuf /\ d.cmds = idata.cmds /\ d.status = idata.status
        /\ d.state = state
    BY <1>1 DEF Good, IData
  <2>3. idata' = imap_close_mailbox(d)
    BY <1>10 DEF SelectFails
  <2> HIDE DEF d
  <2>4. /\ idata'.cmdbuf = d.cmdbuf /\ idata'.cmds = d.cmds /\ idata'.status = d.status
        /\ idata'.state = IF d.status # "FATAL" /\ Selected(d) THEN "AUTHENTICATED" ELSE d.state
    BY <2>1, <2>3, CloseMailboxRing
  <2>5. QED
    BY <1>1, <2>2, <2>4
<1>11. CASE SelectDone
  <2>1. stack # <<>> /\ top.op = "select" /\ top.pc = "done" /\ ~Stepping
    BY <1>2, <1>11 DEF SelectDone
  <2>2. /\ UNCHANGED server
        /\ \/ SelectFails(idata) /\ Return("-1")
           \/ /\ \E x : idata' = [idata EXCEPT !.reopen = x]
              /\ Push(Call("read_headers", "start"), "opened")
           \/ UNCHANGED idata /\ Return("0")
    BY <1>11 DEF SelectDone, SelectFails
  <2>3. /\ idata'.cmdbuf = idata.cmdbuf /\ idata'.cmds = idata.cmds
        /\ idata'.status # "FATAL" /\ (idata'.state = "IDLE" => idata.state = "IDLE")
    BY <1>6, <1>10, <2>2
  <2>4. QED
    BY <2>1, <2>2, <2>3, CallerReturns, CallerReads
<1>12. CASE SelectOpened
  <2>1. stack # <<>> /\ top.op = "select" /\ top.pc = "opened" /\ ~Stepping
    BY <1>2, <1>12 DEF SelectOpened
  <2>2. /\ UNCHANGED server /\ \E v : Return(v)
        /\ SelectFails(idata) \/ \E x : idata' = [idata EXCEPT !.reopen = x]
    BY <1>12 DEF SelectOpened, SelectFails
  <2>3. /\ idata'.cmdbuf = idata.cmdbuf /\ idata'.cmds = idata.cmds
        /\ idata'.status # "FATAL" /\ (idata'.state = "IDLE" => idata.state = "IDLE")
    BY <1>6, <1>10, <2>2
  <2>4. QED
    BY <2>1, <2>2, <2>3, CallerReturns
<1>13. ASSUME idata' = imap_close_connection(idata) \/ idata' = imap_new_idata PROVE FALSE
  <2>1. imap_close_connection(idata).fd = FALSE
    BY <1>1 DEF imap_close_connection, Good, IData
  <2>2. imap_new_idata.fd = FALSE
    BY DEF imap_new_idata
  <2>3. idata'.fd = FALSE
    BY <1>13, <2>1, <2>2
  <2>4. QED
    BY <2>3 DEF Linked
<1>14. ASSUME NEW x, idata' = [idata EXCEPT !.state = x] \/ UNCHANGED idata, x # "IDLE"
       PROVE /\ idata'.cmdbuf = idata.cmdbuf /\ idata'.cmds = idata.cmds
             /\ idata'.status # "FATAL" /\ (idata'.state = "IDLE" => idata.state = "IDLE")
  BY <1>1, <1>14 DEF Good, IData
<1>15. CASE OpenDone \/ OpenCapability \/ OpenAuthenticated \/ OpenRecheck \/ OpenCompress
  <2>1. /\ stack # <<>> /\ top.op = "open" /\ ~Stepping
        /\ top.pc \in {"done", "capa", "auth", "recheck", "compress"}
    BY <1>2, <1>15 DEF OpenDone, OpenCapability, OpenAuthenticated, OpenRecheck, OpenCompress
  <2>2. /\ UNCHANGED server
        /\ idata' = [idata EXCEPT !.state = "AUTHENTICATED"] \/ UNCHANGED idata
        /\ \/ Push(Exec("CMD", FALSE, FALSE), "capa") \/ Push(Exec("CMD", FALSE, TRUE), "auth")
           \/ Push(Exec("CMD", FALSE, TRUE), "recheck") \/ Push(Exec("CMD", FALSE, TRUE), "compress")
           \/ Push(Exec("CMD", TRUE, FALSE), "enable") \/ Goto("opened") \/ Return("-1")
    BY <1>13, <1>15 DEF OpenDone, OpenCapability, OpenAuthenticated, OpenRecheck, OpenCompress, Command
  <2>3. /\ idata'.cmdbuf = idata.cmdbuf /\ idata'.cmds = idata.cmds
        /\ idata'.status # "FATAL" /\ (idata'.state = "IDLE" => idata.state = "IDLE")
    BY <1>14, <2>2
  <2>4. CASE Goto("opened") \/ Return("-1")
    BY <2>1, <2>2, <2>3, <2>4, CallerReturns, CallerGoes
  <2>5. CASE \E p : \E queue, failok \in BOOLEAN : Push(Exec("CMD", queue, failok), p)
    BY <2>1, <2>2, <2>3, <2>5, CallerCalls
  <2>6. QED
    BY <2>2, <2>4, <2>5
<1>16. CASE OpenEnable
  <2>1. stack # <<>> /\ top.op = "open" /\ top.pc = "enable" /\ ~Stepping
    BY <1>2, <1>16 DEF OpenEnable
  <2>2. /\ UNCHANGED <<idata, server>>
        /\ Push(Exec("CMD", TRUE, FALSE), "flush") \/ Goto("flush")
    BY <1>16 DEF OpenEnable
  <2>3. QED
    BY <1>1, <2>1, <2>2, CallerCalls, CallerGoes
<1>17. CASE OpenFlush
  <2>1. stack # <<>> /\ top.op = "open" /\ top.pc = "flush" /\ ~Stepping
    BY <1>2, <1>17 DEF OpenFlush
  <2>2. idata.cmdbuf # <<>>
    BY <2>1, RunningTop DEF Stage
  <2>3. UNCHANGED <<idata, server>> /\ Push(Exec("NULL", FALSE, TRUE), "opened")
    BY <1>17 DEF OpenFlush
  <2>4. QED
    BY <1>1, <2>1, <2>2, <2>3, CallerCalls
<1>18. CASE OpenOpened
  <2>1. stack # <<>> /\ top.op = "open" /\ top.pc = "opened" /\ ~Stepping
    BY <1>2, <1>18 DEF OpenOpened
  <2>2. UNCHANGED <<idata, server>> /\ \E v : Return(v)
    BY <1>18 DEF OpenOpened
  <2>3. QED
    BY <1>1, <2>1, <2>2, CallerReturns
<1>19. CASE LogoutDone
  BY <1>13, <1>19 DEF LogoutDone
<1>20. CASE CloseDone
  <2>1. stack # <<>> /\ top.op = "close" /\ top.pc = "closed" /\ ~Stepping
    BY <1>2, <1>20 DEF CloseDone
  <2>2. idata' = imap_close_mailbox(idata) /\ UNCHANGED server /\ Return("0")
    BY <1>20 DEF CloseDone
  <2>3. /\ idata'.cmdbuf = idata.cmdbuf /\ idata'.cmds = idata.cmds
        /\ idata'.status # "FATAL" /\ (idata'.state = "IDLE" => idata.state = "IDLE")
    BY <1>1, <2>2, CloseMailboxRing
  <2>4. QED
    BY <2>1, <2>2, <2>3, CallerReturns
<1>21. QED
  BY <1>3, <1>4, <1>5, <1>7, <1>8, <1>9, <1>11, <1>12, <1>14, <1>15, <1>16, <1>17, <1>18,
     <1>19, <1>20 DEF CallDone


LEMMA InnerCheck ==
  ASSUME Running, Check
  PROVE Inner'
<1>1. Good(idata) /\ idata.status # "FATAL"
  BY DEF Running, IInv, Inner
<1>2. /\ stack # <<>> /\ top.op = "check" /\ ~Stepping
      /\ top.pc \notin {"start", "drained", "write", "failed"}
  <2>1. \E p \in {"idle", "idled", "poll", "done", "noop", "nooped", "finish", "errcleanup"} :
          In("check", p)
    BY DEF Check, CheckIdle, CheckIdled, CheckPoll, CheckPolled, CheckNoop, CheckNooped,
           CheckFinish, CheckErrcleanup
  <2>2. /\ stack # <<>> /\ top.op = "check"
        /\ top.pc \in {"idle", "idled", "poll", "done", "noop", "nooped", "finish", "errcleanup"}
    BY <2>1 DEF In, At
  <2>3. QED
    BY <2>2, RunningTop DEF Stepping
<1>3. CASE CheckIdle
  <2> DEFINE f == [Call("idle", "start") EXCEPT !.verb = "IDLE"]
  <2>1. UNCHANGED <<idata, server>> /\ (Push(f, "idled") \/ Goto("poll"))
    BY <1>3 DEF CheckIdle
  <2>2. f.pc = "start" /\ f.verb = "IDLE"
    BY FramedCalls
  <2> HIDE DEF f
  <2>3. IInv /\ Inner
    BY DEF Running
  <2>4. CASE Push(f, "idled")
    BY <1>1, <1>2, <2>1, <2>2, <2>3, <2>4, QuietPush
  <2>5. CASE Goto("poll")
    BY <1>1, <1>2, <2>1, <2>5, CallerGoes
  <2>6. QED
    BY <2>1, <2>4, <2>5
<1>4. CASE CheckIdled \/ CheckPoll \/ CheckPolled \/ CheckNooped
  <2>1. UNCHANGED <<idata, server>> /\ \E p \in {"poll", "errcleanup", "noop", "finish"} : Goto(p)
    BY <1>4 DEF CheckIdled, CheckPoll, CheckPolled, CheckNooped
  <2>2. PICK p \in {"poll", "errcleanup", "noop", "finish"} : Goto(p)
    BY <2>1
  <2>3. QED
    BY <1>1, <1>2, <2>1, <2>2, CallerGoes
<1>5. CASE CheckNoop
  <2>1. UNCHANGED <<idata, server>> /\ (Push(Exec("CMD", FALSE, FALSE), "nooped") \/ Goto("finish"))
    BY <1>5 DEF CheckNoop, Command
  <2>2. QED
    BY <1>1, <1>2, <2>1, CallerCalls, CallerGoes
<1>6. CASE CheckFinish
  <2>1. /\ idata' = imap_cmd_finish(idata) /\ UNCHANGED server
        /\ Push(Call("read_headers", "start"), "finished") \/ Goto("errcleanup")
    BY <1>6 DEF CheckFinish
  <2>2. /\ idata'.cmdbuf = idata.cmdbuf /\ idata'.cmds = idata.cmds
        /\ idata'.status # "FATAL" /\ idata'.state = idata.state
    BY <1>1, <2>1, FinishStatus
  <2>3. QED
    BY <1>2, <2>1, <2>2, CallerReads, CallerGoes
<1>7. CASE CheckErrcleanup
  <2>1. /\ idata' = [idata EXCEPT !.reopen = @ \ {"ALLOW"}] /\ UNCHANGED server /\ Return("0")
    BY <1>1, <1>7 DEF CheckErrcleanup
  <2>2. /\ idata'.cmdbuf = idata.cmdbuf /\ idata'.cmds = idata.cmds
        /\ idata'.status # "FATAL" /\ idata'.state = idata.state
    BY <1>1, <2>1 DEF Good, IData
  <2>3. QED
    BY <1>2, <2>1, <2>2, CallerReturns
<1>8. QED
  BY <1>3, <1>4, <1>5, <1>6, <1>7 DEF Check

\* mutt_socket_open(): nothing is left of what was sent before.
LEMMA OpenKeeps ==
  ASSUME Good(idata), ReuseDirty = FALSE, Open, idata.state = "DISCONNECTED",
         server' = NoServer
  PROVE Inner'
<1>1. /\ idata.status # "FATAL" /\ idata.cmdbuf = <<>>
      /\ idata' = [idata EXCEPT !.state = "CONNECTED", !.fd = TRUE]
      /\ Begin(Call("open", "read"))
  BY DEF Open
<1>2. /\ idata'.status = idata.status /\ idata'.cmdbuf = <<>> /\ idata'.state = "CONNECTED"
  BY <1>1 DEF Good, IData
<1>3. stack' # <<>> /\ top'.pc = "read"
  BY <1>1, BeginStack DEF Call
<1>4. Stage(top)' /\ Stepping' /\ ~At("scan")'
  BY <1>3 DEF Stage, Stepping, At
<1>5. Len(idata'.cmdbuf) = 0 /\ Len(server'.input) = 0
  BY <1>2 DEF NoServer
<1>6. \A i \in 1 .. 0 : FALSE
  OBVIOUS
<1>7. Owed(idata', server'.input)
  BY <1>5, <1>6 DEF Owed, Distinct, Apart, WaitedFor, Commands
<1>8. Starting'
  BY <1>5, <1>6 DEF Starting, Unstarted
<1>9. QED
  BY <1>1, <1>2, <1>3, <1>4, <1>7, <1>8 DEF Inner

LEMMA InnerUser ==
  ASSUME Running, User, Linked', ~(Open /\ idata.state = "DISCONNECTED")
  PROVE Inner'
<1>1. Good(idata) /\ idata.status # "FATAL" /\ Inner /\ idata \in IData
  BY DEF Running, IInv, Inner, Good
<1>2. stack = <<>>
  BY DEF User, Open, Select, SetContext, AllowReopen, DisallowReopen, DoExec, Flush,
         FetchMessage, CheckMailbox, CloseMailbox, Logout, TopLevel
<1>3. ~Stepping
  BY <1>2 DEF Stepping
<1> DEFINE Quiet == /\ UNCHANGED server /\ idata'.cmdbuf = idata.cmdbuf
                    /\ idata'.cmds = idata.cmds /\ idata'.status # "FATAL"
                    /\ (idata'.state = "IDLE" => idata.state = "IDLE")
<1>4. ASSUME Quiet, stack' = <<>> PROVE Inner'
  BY <1>1, <1>2, <1>3, <1>4, QuietKeeps
<1>5. ASSUME Quiet, NEW op, NEW p, Begin(Call(op, p)),
             p \in {"acl", "start", "idle", "closed"}
      PROVE Inner'
  <2>1. top' = Call(op, p) /\ stack' # <<>>
    BY <1>5, BeginStack
  <2>2. top'.pc = p /\ top'.verb = "CMD"
    BY <2>1 DEF Call
  <2>3. Stage(top)' /\ top'.pc # "scan"
    BY <1>5, <2>2 DEF Stage
  <2>4. QED
    BY <1>1, <1>2, <1>3, <1>5, <2>3, QuietKeeps
<1>6. ASSUME Quiet, NEW verb \in {"CMD", "NULL"}, NEW queue \in BOOLEAN, NEW failok \in BOOLEAN,
             stack' # <<>>, top' = Exec(verb, queue, failok), verb = "NULL" => idata.cmdbuf # <<>>
      PROVE Inner'
  <2>1. top'.pc = "start" /\ top'.verb = verb
    BY <1>6, FramedCalls
  <2>2. Stage(top)' /\ top'.pc # "scan"
    BY <1>6, <2>1 DEF Stage
  <2>3. QED
    BY <1>1, <1>2, <1>3, <1>6, <2>2, QuietKeeps
<1>7. ASSUME NEW f, NEW g, stack' = <<f, g>> PROVE stack' # <<>> /\ top' = g
  BY <1>7 DEF top
<1>8. CASE Open
  <2>1. /\ UNCHANGED <<idata, server>>
        /\ stack' = <<Call("open", "auth"), Exec("CMD", FALSE, TRUE)>>
    BY <1>8 DEF Open
  <2>2. Quiet
    BY <1>1, <2>1
  <2>3. stack' # <<>> /\ top' = Exec("CMD", FALSE, TRUE)
    BY <1>7, <2>1
  <2>4. QED
    BY <1>6, <2>2, <2>3
<1>9. CASE Select
  <2>1. Quiet
    BY <1>1, <1>9 DEF Select, IData
  <2>2. QED
    BY <1>5, <1>9, <2>1 DEF Select
<1>10. CASE SetContext \/ AllowReopen \/ DisallowReopen
  <2>1. Quiet
    BY <1>1, <1>10 DEF SetContext, AllowReopen, DisallowReopen, IData
  <2>2. QED
    BY <1>2, <1>4, <1>10, <2>1 DEF SetContext, AllowReopen, DisallowReopen
<1>11. CASE DoExec \/ Flush
  <2>1. Quiet
    BY <1>1, <1>11 DEF DoExec, Flush
  <2>2. \E verb \in {"CMD", "NULL"}, queue, failok \in BOOLEAN :
          Begin(Exec(verb, queue, failok)) /\ (verb = "NULL" => idata.cmdbuf # <<>>)
    BY <1>11 DEF DoExec, Flush
  <2>3. QED
    BY <1>6, <2>1, <2>2, BeginStack
<1>12. CASE FetchMessage
  <2>1. Quiet
    BY <1>1, <1>12 DEF FetchMessage
  <2>2. QED
    BY <1>5, <1>12, <2>1 DEF FetchMessage
<1>13. CASE CheckMailbox
  <2>1. Quiet
    BY <1>1, <1>13 DEF CheckMailbox, IData
  <2>2. QED
    BY <1>5, <1>13, <2>1 DEF CheckMailbox
<1>14. CASE CloseMailbox
  <2>1. Quiet
    BY <1>1, <1>14 DEF CloseMailbox
  <2>2. CASE stack' = <<Call("close", "closed"), Exec("CMD", FALSE, FALSE)>>
    <3>1. stack' # <<>> /\ top' = Exec("CMD", FALSE, FALSE)
      BY <1>7, <2>2
    <3>2. QED
      BY <1>6, <2>1, <3>1
  <2>3. CASE Begin(Call("close", "closed"))
    BY <1>5, <2>1, <2>3
  <2>4. QED
    BY <1>14, <2>2, <2>3 DEF CloseMailbox, Command
<1>15. CASE Logout
  <2>1. Quiet
    BY <1>1, <1>15 DEF Logout, IData
  <2>2. QED
    BY <1>1, <1>5, <1>15, <2>1 DEF Logout
<1>16. QED
  BY <1>8, <1>9, <1>10, <1>11, <1>12, <1>13, <1>14, <1>15 DEF User
------------------------------------------------------------------------------
(* The frames below the innermost one stay.                                  *)

\* What a call may call.
Pushed(f) == f.op \in {"exec", "idle", "read_headers"} /\ f.pc = "start"

\* The stack changes in one of five ways while a call is in progress.  It is for
\* imap_cmd_finish() to go on to a download, if the connection has not failed.
Moves ==
  \/ \E p : Moved(p) /\ p # "finished"
  \/ \E f, p : /\ Push(f, p) /\ Pushed(f)
               /\ p = "finished" => idata'.status # "FATAL"
  \/ \E v : Return(v)
  \/ \E rc : stack' = Stepped(rc)
  \/ \E rc : /\ rc # "CONTINUE" /\ idata'.status # "FATAL"
             /\ stack' = Append([Stepped(rc) EXCEPT ![Len(stack)].pc = "finished"],
                                Call("read_headers", "start"))

LEMMA PushedOps ==
  /\ \A verb \in {"CMD", "NULL"}, queue, failok \in BOOLEAN : Pushed(Exec(verb, queue, failok))
  /\ Pushed(Command) /\ Pushed(Call("read_headers", "start"))
  /\ Pushed([Call("idle", "start") EXCEPT !.verb = "IDLE"])
<1>1. \A verb \in {"CMD", "NULL"}, queue, failok \in BOOLEAN : Pushed(Exec(verb, queue, failok))
  BY FramedCalls DEF Pushed
<1>2. Pushed(Command)
  BY FramedCalls DEF Command, Pushed
<1>3. Pushed(Call("read_headers", "start")) /\ Pushed([Call("idle", "start") EXCEPT !.verb = "IDLE"])
  BY DEF Call, Pushed
<1>4. QED
  BY <1>1, <1>2, <1>3

\* A step goes on, calls, returns or takes the result of imap_cmd_step().
LEMMA StackMoves ==
  ASSUME IInv, NestedFetch = FALSE, stack # <<>>, Next
  PROVE Moves
<1>0. Good(idata) /\ Good(Scan(idata, buf))
  BY ScanGood DEF IInv, Calls
<1>1. ASSUME NEW p, Goto(p), p # "finished" PROVE Moves
  BY <1>1, GotoMoved DEF Moves
<1>2. ASSUME NEW v, Return(v) PROVE Moves
  BY <1>2 DEF Moves
<1>3. ASSUME NEW rc, Step(rc) PROVE Moves
  BY <1>3 DEF Moves, Step
<1>4. ASSUME NEW f, NEW p, Push(f, p), Pushed(f),
             p = "finished" => idata'.status # "FATAL"
      PROVE Moves
  BY <1>4 DEF Moves
<1>5. CASE CmdStart
  <2>1. CASE StartDrain
    BY <1>4, <2>1, PushedOps DEF StartDrain
  <2>2. QED
    BY <1>1, <1>2, <1>5, <2>1 DEF CmdStart, StartFatal, StartQueue, Drained, QueueOnly,
       NothingToWrite, Write, PollTimesOut, StartFailed
<1>6. CASE CmdStep
  <2>1. ASSUME NEW lines, ReadLine(lines) PROVE Moves
    <3>1. stack' = Stepped("BAD") \/ Moved("scan")
      BY <2>1 DEF ReadLine, Moved
    <3>2. QED
      BY <3>1 DEF Moves
  <2>2. CASE ScanDrained
    <3>1. PICK rc : /\ rc # "CONTINUE"
                    /\ \/ /\ stack' = Append([Stepped(rc) EXCEPT ![Len(stack)].pc = "finished"],
                                             Call("read_headers", "start"))
                          /\ FetchesNewMail(Scan(idata, buf))
                       \/ stack' = Stepped(rc)
      BY <2>2 DEF ScanDrained
    <3>2. FetchesNewMail(Scan(idata, buf)) => idata'.status # "FATAL"
      BY <1>0, <2>2, FinishStatus DEF ScanDrained, FetchesNewMail
    <3>3. QED
      BY <3>1, <3>2 DEF Moves
  <2>3. QED
    BY <1>1, <1>3, <1>6, <2>1, <2>2
    DEF CmdStep, ReadFatal, ReadFails, ReadAnswer, ReadUnsolicited, ScanRespond, ScanContinue, Finished
<1>7. CASE CallDone \/ SelectGarbled
  <2>1. CASE SelectAcl \/ SelectDone \/ SelectGarbled
    BY <1>1, <1>2, <1>4, <2>1, PushedOps DEF SelectAcl, SelectDone, SelectGarbled, SelectFails
  <2>2. CASE OpenDone \/ OpenCapability \/ OpenAuthenticated \/ OpenRecheck \/ OpenCompress
               \/ OpenEnable \/ OpenFlush
    BY <1>1, <1>2, <1>4, <2>2, PushedOps
    DEF OpenDone, OpenCapability, OpenAuthenticated, OpenRecheck, OpenCompress, OpenEnable,
        OpenFlush
  <2>3. CASE ReadHeadersDone \/ SelectSend \/ SelectOpened
    BY <1>1, <1>2, <2>3 DEF ReadHeadersDone, SelectSend, SelectOpened, SelectFails
  <2>4. QED
    BY <1>2, <1>7, <2>1, <2>2, <2>3
    DEF CallDone, ExecDone, IdleDone, FetchDone, OpenOpened, LogoutDone, CloseDone
<1>8. CASE Check
  <2>1. CASE CheckIdle \/ CheckNoop
    BY <1>1, <1>4, <2>1, PushedOps DEF CheckIdle, CheckNoop
  <2>2. CASE CheckFinish
    <3>1. FetchesNewMail(idata) => idata'.status # "FATAL"
      BY <1>0, <2>2, FinishStatus DEF CheckFinish, FetchesNewMail
    <3>2. QED
      BY <1>1, <1>4, <2>2, <3>1, PushedOps DEF CheckFinish
  <2>3. QED
    BY <1>1, <1>2, <1>8, <2>1, <2>2
    DEF Check, CheckIdled, CheckPoll, CheckPolled, CheckNooped, CheckErrcleanup
<1>9. ~User
  BY DEF User, TopLevel, Open, Select, SetContext, AllowReopen, DisallowReopen, DoExec, Flush,
         FetchMessage, CheckMailbox, CloseMailbox, Logout
<1>10. QED
  BY <1>5, <1>6, <1>7, <1>8, <1>9 DEF Next

LEMMA BelowStays ==
  ASSUME Calls, stack # <<>>, Moves
  PROVE /\ Len(stack) \in Nat \ {0} /\ Len(stack') \in Nat
        /\ \A k \in 1 .. Len(stack) - 1 : k \in 1 .. Len(stack') /\ stack'[k] = stack[k]
        /\ \A k \in 1 .. Len(stack') :
             k >= Len(stack) => stack'[k].op \in {top.op, "exec", "idle", "read_headers"}
<1>0. top \in Frame /\ Len(stack) \in Nat \ {0} /\ stack[Len(stack)] = top
  BY TopFrame DEF FrameOK, Calls, StackOK, top
<1>1. ASSUME Len(stack') = Len(stack), NEW f, stack' # <<>>, top' = f, f.op = top.op,
             \A k \in 1 .. Len(stack) - 1 : stack'[k] = stack[k]
      PROVE /\ \A k \in 1 .. Len(stack) - 1 : k \in 1 .. Len(stack') /\ stack'[k] = stack[k]
            /\ \A k \in 1 .. Len(stack') :
                 k >= Len(stack) => stack'[k].op \in {top.op, "exec", "idle", "read_headers"}
  <2>1. stack'[Len(stack)] = f
    BY <1>1 DEF top
  <2>2. QED
    BY <1>0, <1>1, <2>1
<1>2. ASSUME Len(stack') = Len(stack) + 1, NEW f, NEW g, top' = f, stack'[Len(stack)] = g,
             f.op \in {"exec", "idle", "read_headers"}, g.op = top.op,
             \A k \in 1 .. Len(stack) - 1 : stack'[k] = stack[k]
      PROVE /\ \A k \in 1 .. Len(stack) - 1 : k \in 1 .. Len(stack') /\ stack'[k] = stack[k]
            /\ \A k \in 1 .. Len(stack') :
                 k >= Len(stack) => stack'[k].op \in {top.op, "exec", "idle", "read_headers"}
  <2>1. stack'[Len(stack) + 1] = f
    BY <1>2 DEF top
  <2>2. \A k \in 1 .. Len(stack') : k >= Len(stack) => k \in {Len(stack), Len(stack) + 1}
    BY <1>0, <1>2
  <2>3. QED
    BY <1>0, <1>2, <2>1, <2>2
<1>3. ASSUME NEW p, Moved(p)
      PROVE Len(stack') = Len(stack) /\ stack' # <<>> /\ top'.op = top.op
            /\ \A k \in 1 .. Len(stack) - 1 : stack'[k] = stack[k]
  <2>1. /\ stack' # <<>> /\ Len(stack') = Len(stack) /\ top' = [top EXCEPT !.pc = p]
        /\ \A k \in 1 .. Len(stack) - 1 : stack'[k] = stack[k]
    BY <1>3, GotoStack DEF Moved
  <2>2. QED
    BY <1>0, <2>1 DEF Frame
<1>4. ASSUME NEW rc, stack' = Stepped(rc)
      PROVE Len(stack') = Len(stack) /\ stack' # <<>> /\ top'.op = top.op
            /\ \A k \in 1 .. Len(stack) - 1 : stack'[k] = stack[k]
  BY <1>4, SteppedStack, SteppedTop
<1>5. CASE \E p : Moved(p)
  BY <1>0, <1>1, <1>3, <1>5
<1>6. CASE \E rc : stack' = Stepped(rc)
  BY <1>0, <1>1, <1>4, <1>6
<1>7. CASE \E f, p : Push(f, p) /\ Pushed(f)
  <2>1. PICK f, p : Push(f, p) /\ f.op \in {"exec", "idle", "read_headers"}
    BY <1>7 DEF Pushed
  <2> DEFINE g == [top EXCEPT !.pc = p]
  <2>2. /\ Len(stack') = Len(stack) + 1 /\ top' = f /\ stack'[Len(stack)] = g
        /\ \A k \in 1 .. Len(stack) - 1 : stack'[k] = stack[k]
    BY <2>1, PushStack DEF Push
  <2>3. g.op = top.op
    BY <1>0 DEF Frame
  <2> HIDE DEF g
  <2>4. QED
    BY <1>0, <1>2, <2>1, <2>2, <2>3
<1>8. CASE \E rc : /\ rc # "CONTINUE"
                   /\ stack' = Append([Stepped(rc) EXCEPT ![Len(stack)].pc = "finished"],
                                      Call("read_headers", "start"))
  <2>1. PICK rc : /\ rc # "CONTINUE"
                  /\ stack' = Append([Stepped(rc) EXCEPT ![Len(stack)].pc = "finished"],
                                     Call("read_headers", "start"))
    BY <1>8
  <2> DEFINE f == Call("read_headers", "start")
             g == [top EXCEPT !.rc = rc, !.pc = "finished"]
  <2>2. /\ Len(stack') = Len(stack) + 1 /\ top' = f /\ stack'[Len(stack)] = g
        /\ \A k \in 1 .. Len(stack) - 1 : stack'[k] = stack[k]
    BY <2>1, FinishStack
  <2>3. g.op = top.op /\ f.op \in {"exec", "idle", "read_headers"}
    BY <1>0, PushedOps DEF Frame, Pushed
  <2> HIDE DEF g, f
  <2>4. QED
    BY <1>0, <1>2, <2>2, <2>3
<1>9. CASE \E v : Return(v)
  <2>1. Len(stack') = Len(stack) - 1 /\ \A k \in 1 .. Len(stack) - 1 : stack'[k] = stack[k]
    BY <1>9, ReturnStack
  <2>2. QED
    BY <1>0, <2>1
<1>10. QED
  BY <1>5, <1>6, <1>7, <1>8, <1>9 DEF Moves
------------------------------------------------------------------------------
(* A connection lives only by being opened.                                 *)

LEMMA StaysCut ==
  ASSUME IInv, Next, Linked', ~(Open /\ server' = NoServer)
  PROVE Linked
<1>1. Good(idata) /\ Peer /\ idata'.fd /\ ~server'.bye
  BY DEF IInv, Linked
<1>2. ASSUME UNCHANGED server, idata'.fd => idata.fd PROVE Linked
  BY <1>1, <1>2 DEF Linked
<1>3. CASE UNCHANGED server /\ Leaves(idata, idata')
  BY <1>2, <1>3 DEF Leaves
<1>4. CASE Adds
  <2>1. idata'.fd = idata.fd
    BY <1>1, <1>4, NewStatus DEF Adds
  <2>2. QED
    BY <1>2, <1>4, <2>1 DEF Adds
<1>5. CASE Write
  <2> DEFINE sent == [idata EXCEPT !.cmdbuf = <<>>,
                                   !.state = IF @ = "IDLE" THEN "SELECTED" ELSE @]
  <2>1. idata.fd \/ idata' = [sent EXCEPT !.fd = FALSE]
    BY <1>5 DEF Write, Sent
  <2>2. "fd" \in DOMAIN sent
    BY <1>1 DEF Good, IData
  <2> HIDE DEF sent
  <2>3. idata.fd
    BY <1>1, <2>1, <2>2
  <2>4. server'.bye = server.bye
    BY <1>1, <1>5 DEF Write, Sent, Peer
  <2>5. QED
    BY <1>1, <2>3, <2>4 DEF Linked
<1>6. CASE ReadAnswer \/ ReadUnsolicited
  BY <1>6 DEF ReadAnswer, ReadUnsolicited, ReadLine, Linked
<1>7. CASE Scans
  <2>1. Scan(idata, buf).fd = idata.fd
    BY <1>1, ScanStatus
  <2>2. QED
    BY <1>2, <1>7, <2>1 DEF Scans, Leaves
<1>8. CASE IdleDone
  <2>1. UNCHANGED server /\ idata'.fd = idata.fd
    BY <1>1, <1>8 DEF IdleDone, Good, IData
  <2>2. QED
    BY <1>2, <2>1
<1>9. CASE LogoutDone
  BY <1>1, <1>9 DEF LogoutDone, imap_new_idata
<1>10. CASE PollTimesOut
  BY <1>1, <1>10 DEF PollTimesOut, Peer, Linked
<1>11. QED
  BY <1>3, <1>4, <1>5, <1>6, <1>7, <1>8, <1>9, <1>10, RingSteps

\* While it is open a connection that mutt has given up is under no
\* imap_cmd_finish() that downloads new mail.
Flagged == Linked /\ idata.status = "FATAL"
             => \A k \in 1 .. Len(stack) : stack[k].pc # "finished"

LEMMA StaysDead ==
  ASSUME IInv, Safe, Flagged, Next, Alive', ~(Open /\ server' = NoServer)
  PROVE Alive
<1>1. Linked
  BY StaysCut DEF Alive
<1>2. CASE idata.status = "FATAL"
  <2>1. Failing' \/ At("finished")
    BY <1>2, FatalStays
  <2>2. ~At("finished")
    <3>1. ASSUME stack # <<>> PROVE Len(stack) \in 1 .. Len(stack)
      BY <3>1 DEF IInv, Calls, StackOK
    <3>2. QED
      BY <1>1, <1>2, <3>1 DEF Flagged, At, top
  <2>3. QED
    BY <2>1, <2>2 DEF Failing, Alive, Linked
<1>3. QED
  BY <1>1, <1>2 DEF Alive
------------------------------------------------------------------------------
(* The pipeline takes every command and is drained by it.                   *)

\* The case in which the theorems below are proved: no handler issues commands,
\* no connection is reopened with commands left, the server's data is well-formed.
Plainly == NestedFetch = FALSE /\ ReuseDirty = FALSE /\ Garbled = FALSE

LEMMA InnerKeeps ==
  ASSUME Running, Plainly, Next, Linked', ~PollTimesOut, ~(Open /\ idata.state = "DISCONNECTED")
  PROVE Inner'
<1>1. ~SelectGarbled
  BY DEF Plainly, SelectGarbled
<1>2. QED
  BY <1>1, InnerStart, InnerStep, InnerDone, InnerCheck, InnerUser DEF Plainly, Next

LEMMA NextAtTop ==
  ASSUME Next, ~User
  PROVE stack # <<>>
<1>1. CASE CmdStart
  BY <1>1 DEF CmdStart, StartFatal, StartDrain, StartQueue, Drained, QueueOnly, NothingToWrite, Write,
              PollTimesOut, StartFailed, At
<1>2. CASE CmdStep
  BY <1>2 DEF CmdStep, ReadFatal, ReadFails, ReadAnswer, ReadUnsolicited, ReadLine, Reading,
              ScanRespond, ScanContinue, ScanDrained, Finished, In, At
<1>3. CASE CallDone \/ SelectGarbled
  BY <1>3 DEF CallDone, ExecDone, IdleDone, FetchDone, ReadHeadersDone, SelectAcl, SelectSend,
        SelectDone, SelectOpened, OpenDone, OpenCapability, OpenAuthenticated, OpenRecheck,
        OpenCompress, OpenEnable, OpenFlush, OpenOpened, LogoutDone, CloseDone, SelectGarbled, In, At
<1>4. CASE Check
  BY <1>4 DEF Check, CheckIdle, CheckIdled, CheckPoll, CheckPolled, CheckNoop, CheckNooped,
              CheckFinish, CheckErrcleanup, In, At
<1>5. QED
  BY <1>1, <1>2, <1>3, <1>4 DEF Next

LEMMA UserFrames ==
  ASSUME User
  PROVE stack = <<>> /\ \A k \in 1 .. Len(stack') : stack'[k].pc # "finished"
<1>1. stack = <<>>
  BY DEF User, Open, Select, SetContext, AllowReopen, DisallowReopen, DoExec, Flush,
         FetchMessage, CheckMailbox, CloseMailbox, Logout, TopLevel
<1> DEFINE Fine == \A k \in 1 .. Len(stack') : stack'[k].pc # "finished"
<1>2. ASSUME NEW f, f.pc # "finished", stack' = <<f>> PROVE Fine
  <2>1. Len(stack') = 1 /\ stack'[1] = f
    BY <1>2
  <2>2. QED
    BY <1>2, <2>1
<1>3. ASSUME NEW f, NEW g, f.pc # "finished", g.pc # "finished", stack' = <<f, g>> PROVE Fine
  <2>1. Len(stack') = 2 /\ stack'[1] = f /\ stack'[2] = g
    BY <1>3
  <2>2. \A k \in 1 .. Len(stack') : k = 1 \/ k = 2
    BY <2>1
  <2>3. QED
    BY <1>3, <2>1, <2>2
<1>4. \A op, p : Call(op, p).pc = p
  BY DEF Call
<1>5. \A verb \in {"CMD", "NULL"}, queue, failok \in BOOLEAN : Exec(verb, queue, failok).pc = "start"
  BY FramedCalls
<1>6. ASSUME stack' = <<>> PROVE Fine
  <2>1. Len(stack') = 0
    BY <1>6
  <2>2. QED
    BY <2>1
<1>7. ASSUME NEW op, NEW p, Begin(Call(op, p)), p # "finished" PROVE Fine
  BY <1>2, <1>4, <1>7 DEF Begin
<1>8. ASSUME NEW verb \in {"CMD", "NULL"}, NEW queue \in BOOLEAN, NEW failok \in BOOLEAN,
             Begin(Exec(verb, queue, failok))
      PROVE Fine
  <2> DEFINE g == Exec(verb, queue, failok)
  <2>1. g.pc # "finished" /\ Begin(g)
    BY <1>5, <1>8
  <2> HIDE DEF g
  <2>2. QED
    BY <1>2, <2>1 DEF Begin
<1>14. ASSUME NEW op, NEW p, p # "finished", NEW failok \in BOOLEAN,
              stack' = <<Call(op, p), Exec("CMD", FALSE, failok)>>
       PROVE Fine
  <2> DEFINE f == Call(op, p)
             g == Exec("CMD", FALSE, failok)
  <2>1. f.pc # "finished" /\ g.pc # "finished" /\ stack' = <<f, g>>
    BY <1>4, <1>5, <1>14
  <2> HIDE DEF f, g
  <2>2. QED
    BY <1>3, <2>1
<1> SUFFICES Fine
  BY <1>1
<1> HIDE DEF Fine
<1>9. CASE Open
  <2>1. Begin(Call("open", "read")) \/ stack' = <<Call("open", "auth"), Exec("CMD", FALSE, TRUE)>>
    BY <1>9 DEF Open
  <2>2. QED
    BY <1>7, <1>14, <2>1
<1>10. CASE SetContext \/ AllowReopen \/ DisallowReopen
  BY <1>1, <1>6, <1>10 DEF SetContext, AllowReopen, DisallowReopen
<1>11. CASE DoExec \/ Flush
  BY <1>8, <1>11 DEF DoExec, Flush
<1>12. CASE Select \/ FetchMessage \/ CheckMailbox \/ Logout
  BY <1>7, <1>12 DEF Select, FetchMessage, CheckMailbox, Logout
<1>13. CASE CloseMailbox
  <2>1. \/ Begin(Call("close", "closed"))
        \/ stack' = <<Call("close", "closed"), Exec("CMD", FALSE, FALSE)>>
    BY <1>13 DEF CloseMailbox, Command
  <2>2. QED
    BY <1>7, <1>14, <2>1
<1>15. QED
  BY <1>9, <1>10, <1>11, <1>12, <1>13 DEF User

\* A call of imap_cmd_finish() goes on to a download only by a step that leaves
\* the connection without a failure.
LEMMA FinishesBelow ==
  ASSUME IInv, NestedFetch = FALSE, stack # <<>>, Next, idata'.status = "FATAL",
         NEW k \in 1 .. Len(stack'), stack'[k].pc = "finished"
  PROVE k \in 1 .. Len(stack) - 1 /\ stack[k].pc = "finished"
<1>1. Calls /\ Moves /\ Len(stack) \in Nat \ {0} /\ Len(stack') \in Nat
      /\ top \in Frame /\ stack[Len(stack)] = top
  BY StackMoves, TopFrame, BelowStays DEF IInv, FrameOK, top
<1>2. \A j \in 1 .. Len(stack) - 1 : stack'[j] = stack[j]
  BY <1>1, BelowStays
<1>3. SUFFICES ASSUME k >= Len(stack) PROVE FALSE
  BY <1>1, <1>2
<1>4. ASSUME Len(stack') = Len(stack), stack' # <<>>, top'.pc # "finished" PROVE FALSE
  <2>1. k = Len(stack) /\ stack'[k] = top'
    BY <1>1, <1>3, <1>4 DEF top
  <2>2. QED
    BY <1>4, <2>1
<1>5. ASSUME NEW p, Moved(p), p # "finished" PROVE FALSE
  <2>1. /\ stack' # <<>> /\ Len(stack') = Len(stack) /\ top' = [top EXCEPT !.pc = p]
    BY <1>1, <1>5, GotoStack DEF Moved
  <2>2. top'.pc = p
    BY <1>1, <2>1 DEF Frame
  <2>3. QED
    BY <1>4, <1>5, <2>1, <2>2
<1>6. ASSUME NEW f, NEW p, Push(f, p), Pushed(f), p # "finished" PROVE FALSE
  <2> DEFINE g == [top EXCEPT !.pc = p]
  <2>1. Len(stack') = Len(stack) + 1 /\ top' = f /\ stack'[Len(stack)] = g
    BY <1>1, <1>6, PushStack DEF Push
  <2>2. g.pc = p
    BY <1>1 DEF Frame
  <2> HIDE DEF g
  <2>3. k = Len(stack) \/ (k = Len(stack') /\ stack'[k] = top')
    BY <1>1, <1>3, <2>1 DEF top
  <2>4. QED
    BY <1>6, <2>1, <2>2, <2>3 DEF Pushed
<1>7. ASSUME NEW v, Return(v) PROVE FALSE
  <2>1. Len(stack') = Len(stack) - 1
    BY <1>1, <1>7, ReturnStack
  <2>2. QED
    BY <1>1, <1>3, <2>1
<1>8. ASSUME NEW rc, stack' = Stepped(rc) PROVE FALSE
  <2>1. Len(stack') = Len(stack) /\ stack' # <<>>
    BY <1>1, <1>8, SteppedStack
  <2>2. top'.pc # "finished"
    BY <1>1, <1>8, SteppedTop
  <2>3. QED
    BY <1>4, <2>1, <2>2
<1>9. ASSUME NEW f, NEW p, Push(f, p), Pushed(f), p = "finished" => idata'.status # "FATAL"
      PROVE FALSE
  BY <1>6, <1>9
<1>10. QED
  <2>1. CASE \E p : Moved(p) /\ p # "finished"
    BY <1>5, <2>1
  <2>2. CASE \E f, p : Push(f, p) /\ Pushed(f) /\ (p = "finished" => idata'.status # "FATAL")
    BY <1>9, <2>2
  <2>3. CASE (\E v : Return(v)) \/ \E rc : stack' = Stepped(rc)
    BY <1>7, <1>8, <2>3
  <2>4. QED
    BY <1>1, <2>1, <2>2, <2>3 DEF Moves

LEMMA FlaggedKeeps ==
  ASSUME IInv, Safe, Lag(idata), Flagged, Alive => Inner, Plainly, Next
  PROVE Flagged'
<1>1. SUFFICES ASSUME Linked', idata'.status = "FATAL",
                      NEW k \in 1 .. Len(stack'), stack'[k].pc = "finished"
               PROVE FALSE
  BY DEF Flagged
<1>2. ~User
  BY <1>1, UserFrames
<1>3. stack # <<>>
  BY <1>2, NextAtTop
<1>4. k \in 1 .. Len(stack) - 1 /\ stack[k].pc = "finished" /\ Len(stack) \in Nat
  <2>1. NestedFetch = FALSE /\ Len(stack) \in Nat
    BY DEF Plainly, IInv, Calls, StackOK
  <2>2. QED
    BY <1>1, <1>3, <2>1, FinishesBelow
<1>5. Linked
  BY <1>1, <1>2, StaysCut DEF User
<1>6. Alive
  BY <1>4, <1>5 DEF Flagged, Alive
<1>7. PollTimesOut
  <2>1. ASSUME Inner' PROVE FALSE
    BY <1>1, <2>1 DEF Inner
  <2>2. Running
    BY <1>6 DEF Running
  <2>3. QED
    BY <1>1, <1>2, <2>1, <2>2, InnerKeeps DEF User
<1>8. Called(stack[k], stack[k + 1]) /\ k + 1 \in 1 .. Len(stack)
  BY <1>4 DEF Safe, Shaped
<1>9. QED
  BY <1>4, <1>7, <1>8 DEF Called, PollTimesOut, Polls

Draining == IInv /\ Safe /\ Lag(idata) /\ Flagged /\ (Alive => Inner)

\* The connection is given up for a poll that times out.
LEMMA TimedOut ==
  ASSUME Good(idata), PollTimesOut
  PROVE ~Alive'
<1>1. idata' = cmd_handle_fatal(Sent(idata)) /\ Good(Sent(idata))
  BY SentGood DEF PollTimesOut
<1>2. QED
  BY <1>1, FatalNoted DEF Alive, Linked

LEMMA DrainingInductive == Plainly => (Spec => []Draining)
<1> SUFFICES ASSUME Plainly PROVE Spec => []Draining
  OBVIOUS
<1>1. Init => Draining
  <2>1. SUFFICES ASSUME Init PROVE Draining
    OBVIOUS
  <2>2. Safe
    BY <2>1 DEF Init, Safe, Shaped
  <2>3. Lag(idata)
    BY <2>1, LagEmpty DEF Init, imap_new_idata
  <2>4. ~Alive
    BY <2>1 DEF Init, Alive, Linked, imap_new_idata
  <2>5. Flagged
    BY <2>1 DEF Init, Flagged
  <2>6. QED
    BY <2>1, <2>2, <2>3, <2>4, <2>5, InitHolds DEF Draining
<1>2. Draining /\ [Next]_vars => Draining'
  <2>1. ASSUME Draining, UNCHANGED vars PROVE Draining'
    <3>1. IInv' /\ Safe' /\ Lag(idata)'
      BY <2>1, NextKeeps DEF Draining, Safe, Sound, vars, top
    <3>2. (Alive => Inner)'
      BY <2>1 DEF Draining, vars, Alive, Linked, Inner, Stage, Starting, Stepping, At, In, top
    <3>3. Flagged'
      BY <2>1 DEF Draining, vars, Flagged, Linked
    <3>4. QED
      BY <3>1, <3>2, <3>3 DEF Draining
  <2>2. ASSUME Draining, Next PROVE Draining'
    <3>1. IInv /\ Safe /\ Lag(idata) /\ Flagged /\ (Alive => Inner) /\ Good(idata)
      BY <2>2 DEF Draining, IInv
    <3>2. IInv' /\ Lag(idata)' /\ Flagged'
      BY <2>2, <3>1, NextKeeps, LagKeeps, FlaggedKeeps
    <3>3. Safe'
      BY <2>2, <3>1, SafeStart, SafeStep, SafeDone, SafeGarbled, SafeCheck, SafeUser DEF Next, Plainly
    <3>4. ASSUME Alive' PROVE Inner'
      <4>1. CASE Open /\ server' = NoServer /\ idata.state = "DISCONNECTED"
        BY <3>1, <4>1, OpenKeeps DEF Plainly
      <4>2. CASE ~(Open /\ server' = NoServer /\ idata.state = "DISCONNECTED")
        <5>1. Open /\ server' = NoServer => Alive
          BY <3>4, <4>2 DEF Open, Alive, Linked
        <5>2. Alive
          BY <2>2, <3>1, <3>4, <5>1, StaysDead
        <5>3. Running
          BY <3>1, <5>2 DEF Running
        <5>4. Open /\ idata.state = "DISCONNECTED" => server' = NoServer
          BY DEF Open
        <5>5. ~PollTimesOut
          BY <3>1, <3>4, TimedOut
        <5>6. QED
          BY <2>2, <3>4, <4>2, <5>3, <5>4, <5>5, InnerKeeps DEF Alive
      <4>3. QED
        BY <4>1, <4>2
    <3>5. QED
      BY <3>2, <3>3, <3>4 DEF Draining
  <2>3. QED
    BY <2>1, <2>2
<1>3. QED
  BY <1>1, <1>2, PTL DEF Spec

\* On a live connection a command never finds the ring full after the queue has
\* been run, nor nothing to send, whatever the order the server answers in.
THEOREM PipelineIsOpen ==
  NestedFetch = FALSE /\ ReuseDirty = FALSE /\ Garbled = FALSE => (Spec => []PipelineAccepts)
<1> SUFFICES ASSUME Plainly PROVE Spec => []PipelineAccepts
  BY DEF Plainly
<1>1. Draining => PipelineAccepts
  BY DEF Draining, PipelineAccepts, Live, Alive, Linked, Inner, Stage, At
<1>2. QED
  BY <1>1, DrainingInductive, PTL

\* imap_exec() that does not fail leaves no command outstanding.
THEOREM ExecLeavesNone ==
  NestedFetch = FALSE /\ ReuseDirty = FALSE /\ Garbled = FALSE => (Spec => ExecDrains)
<1> SUFFICES ASSUME Plainly PROVE Spec => ExecDrains
  BY DEF Plainly
<1>1. ASSUME Draining, In("exec", "done"), Live PROVE Waiting(idata) = {}
  <2>1. stack # <<>> /\ top.op = "exec" /\ top.pc = "done" /\ Alive
    BY <1>1 DEF In, At, Live, Alive, Linked
  <2>2. Stage(top)
    BY <1>1, <2>1 DEF Draining, Inner
  <2>3. QED
    BY <2>1, <2>2 DEF Stage
<1>2. Draining /\ [Next]_vars
        => [In("exec", "done") /\ Live /\ stack' # stack /\ ret' # "-1"
              => Waiting(idata) = {}]_vars
  BY <1>1
<1>3. QED
  BY <1>2, DrainingInductive, PTL DEF Spec, ExecDrains
------------------------------------------------------------------------------
(* A connection that is closed has an empty ring, or one that will be        *)
(* emptied before the connection can be opened again.                        *)

\* imap_open_mailbox() before it sends SELECT; imap_open_connection().
Early == \E k \in 1 .. Len(stack) : stack[k].op = "select" /\ stack[k].pc \in {"acl", "selecting"}
Opening == \E k \in 1 .. Len(stack) : stack[k].op = "open"

Fresh(d) == d.state = "DISCONNECTED" => d.lastcmd = d.nextcmd

\* Where a command whose slot may be left on a closed connection stands.
Undone == idata.cmdbuf # <<>> \/ (stack # <<>> /\ top.pc \in {"failed", "read"})

Shut ==
  /\ idata.state = "DISCONNECTED" => ~idata.fd
  /\ Opening => idata.ctx = "none"
  /\ idata.ctx # "none" => Selected(idata) \/ (idata.ctx = "other" /\ Early)
  /\ Fresh(idata) \/ Undone

\* What a call may do to its connection and context.
Falls(d, e) ==
  /\ e.state = "DISCONNECTED" => ~e.fd
  /\ e.ctx \in {"none", d.ctx}
  /\ e.ctx # "none" /\ Selected(d) => Selected(e)

LEMMA EarlyStays ==
  ASSUME Calls, stack # <<>>, Moves
  PROVE /\ Opening' => Opening
        /\ Early /\ ~(top.op = "select" /\ top.pc \in {"acl", "selecting"}) => Early'
<1>1. /\ Len(stack) \in Nat \ {0} /\ Len(stack') \in Nat
      /\ \A k \in 1 .. Len(stack) - 1 : k \in 1 .. Len(stack') /\ stack'[k] = stack[k]
      /\ \A k \in 1 .. Len(stack') :
           k >= Len(stack) => stack'[k].op \in {top.op, "exec", "idle", "read_headers"}
  BY BelowStays
<1>2. stack[Len(stack)] = top
  BY DEF top
<1>3. ASSUME NEW k \in 1 .. Len(stack'), stack'[k].op = "open" PROVE Opening
  <2>1. CASE k >= Len(stack)
    <3>1. top.op = "open" /\ Len(stack) \in 1 .. Len(stack)
      BY <1>1, <1>3, <2>1
    <3>2. QED
      BY <1>2, <3>1 DEF Opening
  <2>2. CASE k < Len(stack)
    <3>1. k \in 1 .. Len(stack) - 1 /\ k \in 1 .. Len(stack)
      BY <1>1, <2>2
    <3>2. QED
      BY <1>1, <1>3, <3>1 DEF Opening
  <2>3. QED
    BY <1>1, <2>1, <2>2
<1>4. ASSUME Early, ~(top.op = "select" /\ top.pc \in {"acl", "selecting"}) PROVE Early'
  <2>1. PICK k \in 1 .. Len(stack) : stack[k].op = "select" /\ stack[k].pc \in {"acl", "selecting"}
    BY <1>4 DEF Early
  <2>2. k # Len(stack)
    BY <1>2, <1>4, <2>1
  <2>3. k \in 1 .. Len(stack) - 1
    BY <1>1, <2>2
  <2>4. k \in 1 .. Len(stack') /\ stack'[k] = stack[k]
    BY <1>1, <2>3
  <2>5. QED
    BY <2>1, <2>4 DEF Early
<1>5. QED
  BY <1>3, <1>4 DEF Opening

LEMMA OnlySelect ==
  ASSUME stack # <<>>, Next, top.op = "select", top.pc \in {"acl", "selecting"}
  PROVE SelectAcl \/ SelectSend
<1>1. /\ \A p : ~In("exec", p) /\ ~In("idle", p) /\ ~In("fetch", p) /\ ~In("read_headers", p)
      /\ \A p : ~In("open", p) /\ ~In("logout", p) /\ ~In("close", p) /\ ~In("check", p)
      /\ ~In("select", "done") /\ ~In("select", "opened")
  BY DEF In, At
<1>2. /\ ~At("start") /\ ~At("drained") /\ ~At("write") /\ ~At("failed")
      /\ ~At("read") /\ ~At("scan") /\ ~At("finished")
  BY DEF At
<1>3. ~CmdStart
  BY <1>2 DEF CmdStart, StartFatal, StartDrain, StartQueue, Drained, QueueOnly,
              NothingToWrite, Write, Sent, PollTimesOut, StartFailed
<1>4. ~CmdStep
  BY <1>1, <1>2 DEF CmdStep, ReadFatal, ReadFails, ReadAnswer, ReadUnsolicited, ReadLine, Reading,
              ScanRespond, ScanContinue, ScanDrained, Finished
<1>5. CallDone => SelectAcl \/ SelectSend
  BY <1>1 DEF CallDone, ExecDone, IdleDone, FetchDone, ReadHeadersDone, SelectDone, SelectOpened,
     OpenDone, OpenCapability, OpenAuthenticated,
       OpenRecheck, OpenCompress, OpenEnable, OpenFlush, OpenOpened, LogoutDone,
     CloseDone
<1>6. ~Check
  BY <1>1 DEF Check, CheckIdle, CheckIdled, CheckPoll, CheckPolled, CheckNoop, CheckNooped,
              CheckFinish, CheckErrcleanup
<1>7. ~User
  BY DEF User, TopLevel, Open, Select, SetContext, AllowReopen, DisallowReopen, DoExec, Flush,
         FetchMessage, CheckMailbox, CloseMailbox, Logout
<1>8. ~SelectGarbled
  BY <1>2 DEF SelectGarbled, In, At
<1>9. QED
  BY <1>3, <1>4, <1>5, <1>6, <1>7, <1>8 DEF Next

\* A step of a call that is in progress.
LEMMA ShutStep ==
  ASSUME IInv, Shut, NestedFetch = FALSE, stack # <<>>, Next, ~SelectAcl, ~SelectSend,
         Falls(idata, idata'), Fresh(idata') \/ Undone'
  PROVE Shut'
<1>1. Calls /\ Moves
  BY StackMoves DEF IInv
<1>2. ~(top.op = "select" /\ top.pc \in {"acl", "selecting"})
  BY OnlySelect
<1>3. (Opening' => Opening) /\ (Early => Early')
  BY <1>1, <1>2, EarlyStays
<1>4. (Opening => idata.ctx = "none")'
  BY <1>3 DEF Shut, Falls
<1>5. (idata.ctx # "none" => Selected(idata) \/ (idata.ctx = "other" /\ Early))'
  BY <1>3 DEF Shut, Falls
<1>6. QED
  BY <1>4, <1>5 DEF Shut, Falls

\* Where the connection and its ring are left alone.
LEMMA FallsSame ==
  ASSUME Shut, NEW e, e.state = idata.state, e.fd = idata.fd \/ e.fd = FALSE,
         e.ctx \in {"none", idata.ctx}
  PROVE Falls(idata, e)
BY DEF Shut, Falls, Selected

LEMMA UndoneSame ==
  ASSUME Shut, NEW e, e = idata', e.state = "DISCONNECTED" => idata.state = "DISCONNECTED",
         e.lastcmd = idata.lastcmd,
         e.nextcmd = idata.nextcmd, e.cmdbuf = idata.cmdbuf,
         stack # <<>> => top.pc \notin {"failed", "read"}
  PROVE Fresh(idata') \/ Undone'
BY DEF Shut, Fresh, Undone

LEMMA FallsClosed ==
  ASSUME NEW d, Good(d), NEW e, e = imap_close_connection(d)
  PROVE /\ Falls(d, e) \/ (Selected(d) /\ d.ctx # "none")
        /\ Fresh(e) /\ e.ctx = d.ctx /\ e.state = "DISCONNECTED" /\ e.fd = FALSE
        /\ e.lastcmd = e.nextcmd /\ e.cmdbuf = d.cmdbuf
<1>1. /\ e.state = "DISCONNECTED" /\ e.fd = FALSE /\ e.ctx = d.ctx /\ e.lastcmd = 0 /\ e.nextcmd = 0
      /\ e.cmdbuf = d.cmdbuf
  BY DEF imap_close_connection, Good, IData
<1>2. QED
  BY <1>1 DEF Falls, Fresh

LEMMA FallsFatal ==
  ASSUME NEW d, Good(d), d.ctx = "Context" => Selected(d), d.state = "DISCONNECTED" => ~d.fd,
         NEW e, e = cmd_handle_fatal(d)
  PROVE Falls(d, e) /\ Fresh(e)
<1> DEFINE fatal == [d EXCEPT !.status = "FATAL"]
           shut == imap_close_mailbox(fatal)
           gone == [shut EXCEPT !.state = "DISCONNECTED", !.fd = FALSE]
           left == IF Selected(d) /\ "ALLOW" \in d.reopen THEN gone ELSE fatal
<1>1. Good(fatal) /\ fatal.state = d.state /\ fatal.fd = d.fd /\ fatal.ctx = d.ctx
  <2>1. Good(fatal)
    BY SetFields
  <2>2. QED
    BY <2>1 DEF Good, IData
<1>2. \/ e = fatal /\ d.ctx = "Context"
      \/ e = left /\ d.ctx # "Context" /\ Selected(left)
      \/ e = imap_close_connection(left) /\ d.ctx # "Context" /\ ~Selected(left)
  BY DEF cmd_handle_fatal
<1>3. Good(gone) /\ gone.state = "DISCONNECTED" /\ gone.ctx = "none"
  <2> HIDE DEF fatal
  <2>1. Good(shut) /\ shut.ctx = "none"
    BY <1>1, CloseMailboxGood DEF imap_close_mailbox, Good, IData
  <2> HIDE DEF shut
  <2> DEFINE f == [shut EXCEPT !.state = "DISCONNECTED"]
  <2>2. Good(f) /\ f.ctx = "none" /\ f.state = "DISCONNECTED"
    <3>1. Good(f)
      BY <2>1, SetFields DEF States
    <3>2. QED
      BY <2>1, <3>1 DEF Good, IData
  <2>3. gone = [f EXCEPT !.fd = FALSE]
    OBVIOUS
  <2> HIDE DEF f
  <2>4. Good(gone)
    BY <2>2, <2>3, SetFields
  <2>5. QED
    BY <2>2, <2>3, <2>4 DEF Good, IData
<1> HIDE DEF fatal, gone
<1>4. CASE e = fatal /\ d.ctx = "Context"
  BY <1>1, <1>4 DEF Falls, Fresh, Selected
<1>5. CASE e = left /\ d.ctx # "Context" /\ Selected(left)
  <2>1. left = fatal
    BY <1>3, <1>5 DEF Selected
  <2>2. QED
    BY <1>1, <1>5, <2>1 DEF Falls, Fresh, Selected
<1>6. CASE e = imap_close_connection(left) /\ d.ctx # "Context" /\ ~Selected(left)
  <2>1. Good(left)
    BY <1>1, <1>3
  <2>2. left.ctx \in {"none", d.ctx} /\ (left.ctx # "none" => ~Selected(d))
    BY <1>1, <1>3, <1>6 DEF Selected
  <2> HIDE DEF left
  <2>3. Fresh(e) /\ e.ctx = left.ctx /\ e.state = "DISCONNECTED" /\ e.fd = FALSE
    BY <1>6, <2>1, FallsClosed
  <2>4. QED
    BY <2>2, <2>3 DEF Falls
<1>7. QED
  BY <1>2, <1>4, <1>5, <1>6

\* A scan of a ring that is empty finds nothing.
LEMMA ScanEmpty ==
  ASSUME NEW d, Good(d), NEW line, d.lastcmd = d.nextcmd
  PROVE Scan(d, line).lastcmd = Scan(d, line).nextcmd
<1>1. d.lastcmd \in Slots /\ d.nextcmd \in Slots
  BY DEF Good, IData
<1>2. \A i \in Slots : Distance(d.lastcmd, d.nextcmd) = 0 /\ Distance(d.lastcmd, i) >= 0
  BY <1>1, CmdSlotsAssumption DEF Distance, Slots
<1>3. \A i \in Slots : Distance(d.lastcmd, i) \in Int
  BY <1>1, CmdSlotsAssumption DEF Distance, Slots
<1>4. Window(d) = {}
  BY <1>2, <1>3 DEF Window
<1>5. Waiting(d) = {}
  BY <1>4 DEF Good, RingOK
<1>6. First(d, line) = {}
  BY <1>5 DEF First, Matches, Waiting, Scanned
<1>7. QED
  BY <1>6 DEF Scan, Good, IData

\* A step that leaves the ring, the buffer and the connection alone keeps Shut.
LEMMA ShutSame ==
  ASSUME IInv, Shut, NestedFetch = FALSE, stack # <<>>, Next, ~SelectAcl, ~SelectSend,
         idata'.state = idata.state, idata'.fd = idata.fd, idata'.ctx \in {"none", idata.ctx},
         idata'.lastcmd = idata.lastcmd, idata'.nextcmd = idata.nextcmd,
         idata'.cmdbuf = idata.cmdbuf, top.pc \notin {"failed", "read"}
  PROVE Shut'
<1>1. Falls(idata, idata')
  BY FallsSame
<1>2. Fresh(idata') \/ Undone'
  BY UndoneSame
<1>3. QED
  BY <1>1, <1>2, ShutStep

LEMMA ShutFatal ==
  ASSUME IInv, Shut, NestedFetch = FALSE, stack # <<>>, Next, ~SelectAcl, ~SelectSend,
         NEW d \in {idata, [idata EXCEPT !.fd = FALSE]}, idata' = cmd_handle_fatal(d)
  PROVE Shut'
<1>1. Good(idata)
  BY DEF IInv
<1>2. Good(d) /\ d.state = idata.state /\ d.ctx = idata.ctx /\ (d.fd => idata.fd)
  <2> DEFINE e == [idata EXCEPT !.fd = FALSE]
  <2>1. Good(e)
    BY <1>1, SetFields
  <2>2. e.state = idata.state /\ e.ctx = idata.ctx /\ e.fd = FALSE
    BY <1>1 DEF Good, IData
  <2> HIDE DEF e
  <2>3. d = idata \/ d = e
    BY DEF e
  <2>4. QED
    BY <1>1, <2>1, <2>2, <2>3
<1>3. d.ctx = "Context" => Selected(d)
  BY <1>2 DEF Shut, Selected
<1>4. d.state = "DISCONNECTED" => ~d.fd
  BY <1>2 DEF Shut
<1>5. Falls(d, idata') /\ Fresh(idata')
  BY <1>2, <1>3, <1>4, FallsFatal
<1>6. Falls(idata, idata')
  BY <1>2, <1>5 DEF Falls, Selected
<1>7. QED
  BY <1>5, <1>6, ShutStep

LEMMA ShutStart ==
  ASSUME IInv, Shut, NestedFetch = FALSE, Next, CmdStart
  PROVE Shut'
<1>0. Good(idata) /\ Calls
  BY DEF IInv
<1>2. stack # <<>> /\ top.pc \in {"start", "drained", "write", "failed"}
  BY DEF At, CmdStart, StartFatal, StartDrain, StartQueue, Drained, QueueOnly,
              NothingToWrite, Write, Sent, PollTimesOut, StartFailed
<1>3. ~SelectAcl /\ ~SelectSend
  BY <1>2 DEF SelectAcl, SelectSend, In, At
<1>4. CASE UNCHANGED idata /\ top.pc # "failed"
  BY <1>2, <1>3, <1>4, ShutSame
<1>5. CASE idata' = cmd_handle_fatal(idata)
  BY <1>2, <1>3, <1>5, ShutFatal
<1>6. CASE idata' = cmd_new(idata, top.verb) /\ top.pc \in {"start", "drained"}
  <2>1. /\ idata'.state = idata.state /\ idata'.ctx = idata.ctx /\ idata'.fd = idata.fd
    BY <1>0, <1>6, NewStatus
  <2>2. idata'.cmdbuf = Append(idata.cmdbuf, [verb |-> top.verb, seq |-> idata.seqno])
        /\ idata.cmdbuf \in Seq(Token)
    BY <1>0, <1>6 DEF cmd_new, Good, IData
  <2>3. idata'.cmdbuf # <<>>
    <3>1. idata.cmdbuf \in Seq(Token \cup {[verb |-> top.verb, seq |-> idata.seqno]})
      BY <2>2
    <3>2. QED
      BY <2>2, <3>1, AppendAt
  <2>4. Falls(idata, idata')
    BY <2>1, FallsSame
  <2>5. QED
    BY <1>2, <1>3, <2>3, <2>4, ShutStep DEF Undone
<1>7. CASE Write
  <2>1. /\ idata'.state = (IF idata.state = "IDLE" THEN "SELECTED" ELSE idata.state)
        /\ idata'.ctx = idata.ctx /\ (idata'.fd = idata.fd \/ idata'.fd = FALSE)
    BY <1>0, <1>7 DEF Write, Sent, Good, IData
  <2>2. stack' # <<>> /\ top'.pc \in {"failed", "read"}
    <3>1. Goto("read") \/ Goto("failed")
      BY <1>7 DEF Write, Sent
    <3>2. QED
      BY <1>0, <1>2, <3>1, GotoMoved, GotoTop DEF Moved
  <2>3. Falls(idata, idata')
    BY <2>1 DEF Shut, Falls, Selected
  <2>4. QED
    BY <1>2, <1>3, <2>2, <2>3, ShutStep DEF Undone
<1>8. CASE UNCHANGED idata /\ Goto("read")
  <2>1. stack' # <<>> /\ top'.pc = "read"
    BY <1>0, <1>2, <1>8, GotoMoved, GotoTop DEF Moved
  <2>2. Falls(idata, idata')
    BY <1>8, FallsSame
  <2>3. QED
    BY <1>2, <1>3, <2>1, <2>2, ShutStep DEF Undone
<1>9. CASE StartFailed
  <2>1. idata' = cmd_handle_fatal(idata) \/ (UNCHANGED idata /\ Goto("read"))
    BY <1>9 DEF StartFailed
  <2>2. QED
    BY <1>5, <1>8, <2>1
<1>10. CASE StartFatal
  BY <1>5, <1>10 DEF StartFatal
<1>11. CASE StartDrain \/ QueueOnly \/ NothingToWrite
  <2>1. UNCHANGED idata /\ top.pc # "failed"
    BY <1>11 DEF StartDrain, QueueOnly, NothingToWrite, At
  <2>2. QED
    BY <1>4, <2>1
<1>12. CASE StartQueue \/ Drained
  <2>1. top.pc \in {"start", "drained"}
    BY <1>12 DEF StartQueue, Drained, At
  <2>2. UNCHANGED idata \/ idata' = cmd_new(idata, top.verb)
    BY <1>12 DEF StartQueue, Drained
  <2>3. QED
    BY <1>4, <1>6, <2>1, <2>2
<1>13. CASE PollTimesOut
  <2> DEFINE d == Sent(idata)
  <2>1. /\ d.state = (IF idata.state = "IDLE" THEN "SELECTED" ELSE idata.state)
        /\ d.ctx = idata.ctx /\ d.fd = idata.fd /\ Good(d)
    BY <1>0, SentGood DEF Sent, Good, IData
  <2> HIDE DEF d
  <2>2. idata' = cmd_handle_fatal(d)
    BY <1>13 DEF PollTimesOut, d
  <2>3. (d.ctx = "Context" => Selected(d)) /\ (d.state = "DISCONNECTED" => ~d.fd)
    BY <2>1 DEF Shut, Selected
  <2>4. Falls(d, idata') /\ Fresh(idata')
    BY <2>1, <2>2, <2>3, FallsFatal
  <2>5. Falls(idata, idata')
    BY <2>1, <2>4 DEF Falls, Selected
  <2>6. QED
    BY <1>2, <1>3, <2>4, <2>5, ShutStep
<1>14. QED
  BY <1>7, <1>9, <1>10, <1>11, <1>12, <1>13 DEF CmdStart

LEMMA ShutCmdStep ==
  ASSUME IInv, Safe, Shut, NestedFetch = FALSE, Next, CmdStep
  PROVE Shut'
<1>0. Good(idata) /\ Calls /\ buf \in Line
  BY DEF IInv, Calls
<1>1. stack # <<>> /\ top.pc \in {"read", "poll", "scan", "finished"}
  BY DEF CmdStep, ReadFatal, ReadFails, ReadAnswer, ReadUnsolicited, ReadLine, Reading,
         ScanRespond, ScanContinue, ScanDrained, Finished, In, At
<1>2. ~SelectAcl /\ ~SelectSend
  BY <1>1 DEF SelectAcl, SelectSend, In, At
<1>3. CASE ReadFatal
  BY <1>1, <1>2, <1>3, ShutFatal DEF ReadFatal
<1>4. CASE ReadFails
  BY <1>1, <1>2, <1>4, ShutFatal DEF ReadFails
<1>5. ASSUME NEW lines, ReadLine(lines) PROVE Shut'
  <2>1. idata.fd /\ \E a \in lines : idata' = cmd_handle_untagged(idata, a[1])
    BY <1>5 DEF ReadLine
  <2>2. idata' \in {cmd_handle_fatal(idata), idata, [idata EXCEPT !.reopen = @ \cup {"NEWMAIL"}]}
    BY <2>1 DEF cmd_handle_untagged
  <2>3. CASE idata' = cmd_handle_fatal(idata)
    BY <1>1, <1>2, <2>3, ShutFatal
  <2>4. CASE idata' \in {idata, [idata EXCEPT !.reopen = @ \cup {"NEWMAIL"}]}
    <3>1. idata'.state = idata.state /\ idata'.fd = idata.fd /\ idata'.ctx = idata.ctx
      BY <1>0, <2>4 DEF Good, IData
    <3>2. Falls(idata, idata') /\ Fresh(idata')
      BY <2>1, <3>1, FallsSame DEF Shut, Fresh
    <3>3. QED
      BY <1>1, <1>2, <3>2, ShutStep
  <2>5. QED
    BY <2>2, <2>3, <2>4
<1>6. CASE ScanRespond
  <2>1. UNCHANGED idata /\ top.pc = "scan"
    BY <1>6 DEF ScanRespond, At
  <2>2. QED
    BY <1>1, <1>2, <2>1, ShutSame
<1>7. ASSUME NEW d, d = Scan(idata, buf), At("scan"),
             idata'.state = d.state, idata'.fd = d.fd, idata'.ctx = d.ctx,
             idata'.lastcmd = d.lastcmd, idata'.nextcmd = d.nextcmd, idata'.cmdbuf = d.cmdbuf
      PROVE Shut'
  <2>1. d.state = idata.state /\ d.fd = idata.fd /\ d.ctx = idata.ctx /\ d.cmdbuf = idata.cmdbuf
    BY <1>0, <1>7, ScanStatus
  <2>2. Falls(idata, idata')
    BY <1>7, <2>1, FallsSame
  <2>3. Fresh(idata') \/ Undone'
    <3>1. CASE Fresh(idata)
      BY <1>0, <1>7, <2>1, <3>1, ScanEmpty DEF Fresh
    <3>2. CASE ~Fresh(idata)
      <4>1. idata.cmdbuf # <<>>
        BY <1>7, <3>2 DEF Shut, Undone, At
      <4>2. QED
        BY <1>7, <2>1, <4>1 DEF Undone
    <3>3. QED
      BY <3>1, <3>2
  <2>4. QED
    BY <1>1, <1>2, <2>2, <2>3, ShutStep
<1>8. CASE ScanContinue
  BY <1>7, <1>8 DEF ScanContinue
<1>9. CASE ScanDrained
  <2> DEFINE d == Scan(idata, buf)
  <2>1. At("scan") /\ idata' = imap_cmd_finish(d)
    BY <1>9 DEF ScanDrained
  <2>2. idata.status # "FATAL"
    BY <2>1 DEF Safe, Sound, At
  <2>3. Good(d) /\ d.status # "FATAL"
    BY <1>0, <2>2, ScanStatus, ScanGood
  <2> HIDE DEF d
  <2>4. /\ idata'.state = d.state /\ idata'.fd = d.fd /\ idata'.ctx = d.ctx
        /\ idata'.lastcmd = d.lastcmd /\ idata'.nextcmd = d.nextcmd /\ idata'.cmdbuf = d.cmdbuf
    BY <2>1, <2>3, FinishStatus
  <2>5. QED
    BY <1>7, <2>1, <2>4 DEF d
<1>10. CASE Finished
  <2>1. top.pc = "finished" /\ idata' = [idata EXCEPT !.status = "none"]
    BY <1>10 DEF Finished, At
  <2>2. /\ idata'.state = idata.state /\ idata'.fd = idata.fd /\ idata'.ctx = idata.ctx
        /\ idata'.lastcmd = idata.lastcmd /\ idata'.nextcmd = idata.nextcmd
        /\ idata'.cmdbuf = idata.cmdbuf
    BY <1>0, <2>1 DEF Good, IData
  <2>3. QED
    BY <1>1, <1>2, <2>1, <2>2, ShutSame
<1>11. QED
  BY <1>3, <1>4, <1>5, <1>6, <1>8, <1>9, <1>10 DEF CmdStep, ReadAnswer, ReadUnsolicited

\* Closing the mailbox, and failing to select it.
LEMMA ShutClosed ==
  ASSUME IInv, Shut, NestedFetch = FALSE, stack # <<>>, Next, ~SelectAcl, ~SelectSend,
         top.pc \notin {"failed", "read"},
         NEW d, Good(d), d.state = "DISCONNECTED" => idata.state = "DISCONNECTED",
         d.fd = idata.fd, d.lastcmd = idata.lastcmd, d.nextcmd = idata.nextcmd,
         d.cmdbuf = idata.cmdbuf, idata' = imap_close_mailbox(d)
  PROVE Shut'
<1>1. /\ idata'.state = "DISCONNECTED" => d.state = "DISCONNECTED"
      /\ idata'.fd = d.fd /\ idata'.lastcmd = d.lastcmd /\ idata'.nextcmd = d.nextcmd
      /\ idata'.cmdbuf = d.cmdbuf
  BY CloseMailboxRing
<1>2. idata'.ctx = "none"
  BY DEF imap_close_mailbox, Good, IData
<1>3. Falls(idata, idata')
  BY <1>1, <1>2 DEF Shut, Falls
<1>4. Fresh(idata') \/ Undone'
  BY <1>1, UndoneSame
<1>5. QED
  BY <1>3, <1>4, ShutStep

LEMMA ShutSelects ==
  ASSUME IInv, Shut, NestedFetch = FALSE, Next, SelectDone \/ SelectOpened
  PROVE Shut'
<1>0. Good(idata) /\ stack # <<>> /\ top.op = "select" /\ top.pc \in {"done", "opened"}
  BY DEF IInv, SelectDone, SelectOpened, In, At
<1>1. ~SelectAcl /\ ~SelectSend
  BY <1>0 DEF SelectAcl, SelectSend, In, At
<1>2. CASE SelectFails(idata)
  <2> DEFINE x == IF idata.state = "SELECTED" THEN "AUTHENTICATED" ELSE idata.state
             e == [idata EXCEPT !.state = x]
  <2>1. x \in States
    BY <1>0 DEF Good, IData, States
  <2> HIDE DEF x
  <2>2. Good(e)
    BY <1>0, <2>1, SetFields
  <2>3. /\ e.state = x /\ e.fd = idata.fd /\ e.lastcmd = idata.lastcmd
        /\ e.nextcmd = idata.nextcmd /\ e.cmdbuf = idata.cmdbuf
    BY <1>0 DEF Good, IData
  <2>4. idata' = imap_close_mailbox(e)
    BY <1>2 DEF SelectFails, x
  <2> HIDE DEF e
  <2>5. e.state = "DISCONNECTED" => idata.state = "DISCONNECTED"
    BY <2>3 DEF x
  <2>6. QED
    BY <1>0, <1>1, <2>2, <2>3, <2>4, <2>5, ShutClosed
<1>3. CASE UNCHANGED idata \/ \E x : idata' = [idata EXCEPT !.reopen = x]
  <2>1. /\ idata'.state = idata.state /\ idata'.fd = idata.fd /\ idata'.ctx = idata.ctx
        /\ idata'.lastcmd = idata.lastcmd /\ idata'.nextcmd = idata.nextcmd
        /\ idata'.cmdbuf = idata.cmdbuf
    BY <1>0, <1>3 DEF Good, IData
  <2>2. QED
    BY <1>0, <1>1, <2>1, ShutSame
<1>4. QED
  BY <1>2, <1>3 DEF SelectDone, SelectOpened

LEMMA ShutEarly ==
  ASSUME IInv, Shut, NestedFetch = FALSE, Next, SelectAcl \/ SelectSend
  PROVE Shut'
<1>0. Good(idata) /\ Calls /\ stack # <<>> /\ top.op = "select"
  BY DEF IInv, SelectAcl, SelectSend, In, At
<1>1. Opening' => Opening
  BY <1>0, StackMoves, EarlyStays
<1>2. CASE SelectSend
  <2>1. /\ idata'.state = "SELECTED" /\ idata'.fd = idata.fd /\ idata'.ctx = idata.ctx
    BY <1>0, <1>2 DEF SelectSend, Good, IData
  <2>2. QED
    BY <1>1, <2>1 DEF Shut, Selected, Fresh
<1>3. CASE SelectAcl
  <2>1. UNCHANGED idata /\ top.pc = "acl"
    BY <1>3 DEF SelectAcl, In, At
  <2>2. Early'
    <3>1. CASE Goto("selecting")
      <4>1. stack' # <<>> /\ top'.pc = "selecting" /\ top'.op = "select" /\ Len(stack') = Len(stack)
            /\ Len(stack) \in Nat \ {0}
        BY <1>0, <3>1, GotoMoved, GotoTop, GotoStack DEF Moved
      <4>2. Len(stack') \in 1 .. Len(stack') /\ stack'[Len(stack')] = top'
        BY <4>1 DEF top
      <4>3. QED
        BY <4>1, <4>2 DEF Early
    <3>2. CASE Push(Exec("CMD", TRUE, FALSE), "selecting")
      <4> DEFINE g == [top EXCEPT !.pc = "selecting"]
      <4>1. Len(stack') = Len(stack) + 1 /\ Len(stack) \in Nat \ {0} /\ stack'[Len(stack)] = g
        BY <1>0, <3>2, PushStack DEF Push
      <4>2. g.op = "select" /\ g.pc = "selecting"
        BY <1>0, TopFrame DEF FrameOK, Frame
      <4> HIDE DEF g
      <4>3. Len(stack) \in 1 .. Len(stack')
        BY <4>1
      <4>4. QED
        BY <4>1, <4>2, <4>3 DEF Early
    <3>3. QED
      BY <1>3, <3>1, <3>2 DEF SelectAcl
  <2>3. Fresh(idata') \/ Undone'
    BY <2>1, UndoneSame
  <2>4. idata.ctx # "none" => Selected(idata) \/ idata.ctx = "other"
    BY DEF Shut
  <2>5. QED
    BY <1>1, <2>1, <2>2, <2>3, <2>4 DEF Shut, Selected
<1>4. QED
  BY <1>2, <1>3

LEMMA ShutOpens ==
  ASSUME IInv, Shut, NestedFetch = FALSE, Next,
         OpenDone \/ OpenCapability \/ OpenAuthenticated
             \/ OpenRecheck \/ OpenCompress \/ OpenEnable \/ OpenFlush \/ OpenOpened
  PROVE Shut'
<1>0. Good(idata) /\ Calls /\ stack # <<>> /\ top.op = "open" /\ top.pc \notin {"failed", "read"}
  BY DEF IInv, OpenDone, OpenCapability, OpenAuthenticated,
    OpenRecheck, OpenCompress, OpenEnable, OpenFlush, OpenOpened, In, At
<1>1. ~SelectAcl /\ ~SelectSend
  BY <1>0 DEF SelectAcl, SelectSend, In, At
<1>2. idata.ctx = "none"
  <2>1. Len(stack) \in Nat \ {0} /\ stack[Len(stack)] = top
    BY <1>0 DEF Calls, StackOK, top
  <2>2. Opening
    BY <1>0, <2>1 DEF Opening
  <2>3. QED
    BY <2>2 DEF Shut
<1>3. CASE idata' = imap_close_connection(idata)
  BY <1>0, <1>1, <1>2, <1>3, FallsClosed, ShutStep
<1>4. CASE idata' = [idata EXCEPT !.state = "AUTHENTICATED"]
  <2>1. idata'.state = "AUTHENTICATED" /\ idata'.ctx = "none"
    BY <1>0, <1>2, <1>4 DEF Good, IData
  <2>2. Falls(idata, idata') /\ Fresh(idata')
    BY <2>1 DEF Falls, Fresh
  <2>3. QED
    BY <1>0, <1>1, <2>2, ShutStep
<1>5. CASE UNCHANGED idata
  BY <1>0, <1>1, <1>5, ShutSame
<1>6. QED
  BY <1>3, <1>4, <1>5
  DEF OpenDone, OpenCapability, OpenAuthenticated,
    OpenRecheck, OpenCompress, OpenEnable, OpenFlush, OpenOpened

LEMMA ShutDone ==
  ASSUME IInv, Shut, NestedFetch = FALSE, Next, CallDone
  PROVE Shut'
<1>0. Good(idata) /\ Calls
  BY DEF IInv
<1>1. CASE ExecDone \/ FetchDone \/ ReadHeadersDone
  <2>1. stack # <<>> /\ top.pc = "done"
    BY <1>1 DEF ExecDone, FetchDone, ReadHeadersDone, In, At
  <2>2. ~SelectAcl /\ ~SelectSend
    BY <2>1 DEF SelectAcl, SelectSend, In, At
  <2>3. UNCHANGED idata \/ \E x : idata' = [idata EXCEPT !.reopen = x]
    BY <1>1 DEF ExecDone, FetchDone, ReadHeadersDone
  <2>4. /\ idata'.state = idata.state /\ idata'.fd = idata.fd /\ idata'.ctx = idata.ctx
        /\ idata'.lastcmd = idata.lastcmd /\ idata'.nextcmd = idata.nextcmd
        /\ idata'.cmdbuf = idata.cmdbuf
    BY <1>0, <2>3 DEF Good, IData
  <2>5. QED
    BY <2>1, <2>2, <2>4, ShutSame
<1>2. CASE IdleDone
  <2>1. stack # <<>> /\ top.pc = "done"
    BY <1>2 DEF IdleDone, In, At
  <2>2. ~SelectAcl /\ ~SelectSend
    BY <2>1 DEF SelectAcl, SelectSend, In, At
  <2>3. CASE UNCHANGED idata
    BY <2>1, <2>2, <2>3, ShutSame
  <2>4. CASE idata'.state = "IDLE" /\ idata'.ctx = idata.ctx /\ idata'.fd = idata.fd
    BY <2>1, <2>2, <2>4, ShutStep DEF Falls, Fresh, Selected
  <2>5. QED
    BY <1>0, <1>2, <2>3, <2>4 DEF IdleDone, Good, IData
<1>3. CASE LogoutDone
  <2>1. stack # <<>> /\ top.op = "logout"
    BY <1>3 DEF LogoutDone, In, At
  <2>2. ~SelectAcl /\ ~SelectSend
    BY <2>1 DEF SelectAcl, SelectSend, In, At
  <2>3. idata'.ctx = "none" /\ idata'.fd = FALSE /\ idata'.lastcmd = idata'.nextcmd
    BY <1>3 DEF LogoutDone, imap_new_idata
  <2>4. QED
    BY <2>1, <2>2, <2>3, ShutStep DEF Falls, Fresh
<1>4. CASE CloseDone
  <2>1. stack # <<>> /\ top.op = "close" /\ top.pc = "closed" /\ idata' = imap_close_mailbox(idata)
    BY <1>4 DEF CloseDone, In, At
  <2>2. ~SelectAcl /\ ~SelectSend
    BY <2>1 DEF SelectAcl, SelectSend, In, At
  <2>3. QED
    BY <1>0, <2>1, <2>2, ShutClosed
<1>5. QED
  BY <1>1, <1>2, <1>3, <1>4, ShutSelects, ShutEarly, ShutOpens DEF CallDone

LEMMA ShutCheck ==
  ASSUME IInv, Shut, NestedFetch = FALSE, Next, Check
  PROVE Shut'
<1>0. Good(idata) /\ Calls
  BY DEF IInv
<1>1. stack # <<>> /\ top.op = "check"
      /\ top.pc \in {"idle", "idled", "poll", "done", "noop", "nooped", "finish", "errcleanup"}
  BY DEF Check, CheckIdle, CheckIdled, CheckPoll, CheckPolled, CheckNoop, CheckNooped,
         CheckFinish, CheckErrcleanup, In, At
<1>2. ~SelectAcl /\ ~SelectSend
  BY <1>1 DEF SelectAcl, SelectSend, In, At
<1>3. CASE UNCHANGED idata \/ \E x : idata' = [idata EXCEPT !.reopen = x]
  <2>1. /\ idata'.state = idata.state /\ idata'.fd = idata.fd /\ idata'.ctx = idata.ctx
        /\ idata'.lastcmd = idata.lastcmd /\ idata'.nextcmd = idata.nextcmd
        /\ idata'.cmdbuf = idata.cmdbuf
    BY <1>0, <1>3 DEF Good, IData
  <2>2. QED
    BY <1>1, <1>2, <2>1, ShutSame
<1>4. CASE CheckFinish
  <2>1. idata' = imap_cmd_finish(idata)
    BY <1>4 DEF CheckFinish
  <2>2. CASE idata.status = "FATAL"
    <3>1. idata' = cmd_handle_fatal(idata)
      BY <2>1, <2>2 DEF imap_cmd_finish, FetchesNewMail
    <3>2. QED
      BY <1>1, <1>2, <3>1, ShutFatal
  <2>3. CASE idata.status # "FATAL"
    BY <1>0, <1>1, <1>2, <2>1, <2>3, FinishStatus, ShutSame
  <2>4. QED
    BY <2>2, <2>3
<1>5. CASE CheckErrcleanup
  <2> DEFINE e == imap_close_mailbox(idata)
  <2>1. Good(e) /\ e.ctx = "none"
    BY <1>0, CloseMailboxGood DEF imap_close_mailbox, Good, IData
  <2> HIDE DEF e
  <2>2. CASE idata' = imap_close_connection(e)
    <3>1. Fresh(idata') /\ idata'.ctx = "none" /\ idata'.fd = FALSE
      BY <2>1, <2>2, FallsClosed
    <3>2. Falls(idata, idata')
      BY <3>1 DEF Falls
    <3>3. QED
      BY <1>1, <1>2, <3>1, <3>2, ShutStep
  <2>3. QED
    BY <1>3, <1>5, <2>2 DEF CheckErrcleanup, e
<1>6. QED
  BY <1>3, <1>4, <1>5
  DEF Check, CheckIdle, CheckIdled, CheckPoll, CheckPolled, CheckNoop, CheckNooped

\* When no other call is in progress, a call begins on the connection as it is.
LEMMA ShutBegins ==
  ASSUME Shut, stack = <<>>, idata'.state = idata.state, idata'.fd = idata.fd,
         idata'.ctx = idata.ctx, idata'.lastcmd = idata.lastcmd,
         idata'.nextcmd = idata.nextcmd, idata'.cmdbuf = idata.cmdbuf, ~Opening'
  PROVE Shut'
<1>1. ~Early
  BY DEF Early
<1>2. Fresh(idata) \/ idata.cmdbuf # <<>>
  BY DEF Shut, Undone
<1>3. QED
  BY <1>1, <1>2 DEF Shut, Selected, Fresh, Undone

LEMMA ShutUser ==
  ASSUME IInv, Shut, NestedFetch = FALSE, Next, User
  PROVE Shut'
<1>0. Good(idata) /\ stack = <<>> /\ ~Early
  <2>1. stack = <<>>
    BY DEF User, TopLevel, Open, Select, SetContext, AllowReopen, DisallowReopen,
           DoExec, Flush, FetchMessage, CheckMailbox, CloseMailbox, Logout
  <2>2. QED
    BY <2>1 DEF IInv, Early
<1>1. (Fresh(idata) \/ idata.cmdbuf # <<>>) /\ (idata.ctx # "none" => Selected(idata))
  BY <1>0 DEF Shut, Undone
<1>2. ASSUME NEW f, stack' = <<f>> PROVE Opening' => f.op = "open"
  <2>1. Len(stack') = 1 /\ stack'[1] = f
    BY <1>2
  <2>2. QED
    BY <2>1 DEF Opening
<1>3. CASE Open
  <2>1. idata.ctx = "none"
    BY <1>1, <1>3 DEF Open, Selected
  <2>2. /\ idata'.ctx = "none" /\ (idata'.state = "CONNECTED" \/ UNCHANGED idata)
        /\ idata'.state # "DISCONNECTED"
    BY <1>0, <1>3, <2>1 DEF Open, Good, IData
  <2>3. QED
    BY <2>2 DEF Shut, Fresh
<1>4. CASE Select
  <2> DEFINE f == Call("select", "acl")
  <2>1. stack' = <<f>> /\ f.op = "select" /\ f.pc = "acl"
    BY <1>4 DEF Select, Begin, Call
  <2>2. idata'.ctx = "other" /\ idata'.state = "AUTHENTICATED"
    BY <1>0, <1>4 DEF Select, Good, IData
  <2> HIDE DEF f
  <2>3. ~Opening'
    BY <1>2, <2>1
  <2>4. Early'
    <3>1. Len(stack') = 1 /\ stack'[1] = f
      BY <2>1
    <3>2. QED
      BY <2>1, <3>1 DEF Early
  <2>5. QED
    BY <2>2, <2>3, <2>4 DEF Shut, Fresh
<1>5. CASE SetContext
  <2>1. /\ idata'.state = idata.state /\ idata'.fd = idata.fd /\ idata'.ctx = "Context"
        /\ idata.ctx # "none" /\ idata'.lastcmd = idata.lastcmd
        /\ idata'.nextcmd = idata.nextcmd /\ idata'.cmdbuf = idata.cmdbuf /\ stack' = <<>>
    BY <1>0, <1>5 DEF SetContext, Good, IData
  <2>2. ~Opening'
    BY <2>1 DEF Opening
  <2>3. QED
    BY <1>1, <2>1, <2>2 DEF Shut, Selected, Fresh, Undone
<1>6. ASSUME UNCHANGED idata \/ (\E x : idata' = [idata EXCEPT !.reopen = x])
                \/ idata' = [idata EXCEPT !.status = "BYE"], ~Opening'
      PROVE Shut'
  <2>1. /\ idata'.state = idata.state /\ idata'.fd = idata.fd /\ idata'.ctx = idata.ctx
        /\ idata'.lastcmd = idata.lastcmd /\ idata'.nextcmd = idata.nextcmd
        /\ idata'.cmdbuf = idata.cmdbuf
    BY <1>0, <1>6 DEF Good, IData
  <2>2. QED
    BY <1>0, <1>6, <2>1, ShutBegins
<1>7. CASE AllowReopen \/ DisallowReopen
  <2>1. ~Opening'
    BY <1>0, <1>7 DEF AllowReopen, DisallowReopen, Opening
  <2>2. QED
    BY <1>6, <1>7, <2>1 DEF AllowReopen, DisallowReopen
<1>8. CASE DoExec \/ Flush \/ FetchMessage \/ CheckMailbox \/ Logout
  <2>1. /\ Call("fetch", "start").op = "fetch" /\ Call("check", "idle").op = "check"
        /\ Call("logout", "done").op = "logout" /\ Call("logout", "start").op = "logout"
    BY DEF Call
  <2>6. /\ \A queue, failok \in BOOLEAN : Exec("CMD", queue, failok).op = "exec"
        /\ \A failok \in BOOLEAN : Exec("NULL", FALSE, failok).op = "exec"
    BY FramedCalls
  <2>2. PICK f : stack' = <<f>> /\ f.op # "open"
    BY <1>8, <2>1, <2>6 DEF DoExec, Flush, FetchMessage, CheckMailbox, Logout, Begin
  <2>3. ~Opening'
    BY <1>2, <2>2
  <2>4. UNCHANGED idata \/ (\E x : idata' = [idata EXCEPT !.reopen = x])
          \/ idata' = [idata EXCEPT !.status = "BYE"]
    BY <1>8 DEF DoExec, Flush, FetchMessage, CheckMailbox, Logout
  <2>5. QED
    BY <1>6, <2>3, <2>4
<1>9. CASE CloseMailbox
  <2>1. Call("close", "closed").op = "close" /\ Command.op = "exec"
    BY FramedCalls DEF Call, Command
  <2>2. \/ stack' = <<Call("close", "closed")>>
        \/ stack' = <<Call("close", "closed"), Command>>
    BY <1>9 DEF CloseMailbox, Begin
  <2>3. CASE stack' = <<Call("close", "closed"), Command>>
    <3>1. Len(stack') = 2 /\ stack'[1].op = "close" /\ stack'[2].op = "exec"
      BY <2>1, <2>3
    <3>2. ~Opening'
      <4>1. \A k \in 1 .. Len(stack') : k = 1 \/ k = 2
        BY <3>1
      <4>2. QED
        BY <3>1, <4>1 DEF Opening
    <3>3. QED
      BY <1>6, <1>9, <3>2 DEF CloseMailbox
  <2>4. CASE stack' = <<Call("close", "closed")>>
    <3>1. ~Opening'
      BY <1>2, <2>1, <2>4
    <3>2. QED
      BY <1>6, <1>9, <3>1 DEF CloseMailbox
  <2>5. QED
    BY <2>2, <2>3, <2>4
<1>10. QED
  BY <1>3, <1>4, <1>5, <1>7, <1>8, <1>9 DEF User

\* Every step keeps Shut.
LEMMA ShutKeeps ==
  ASSUME IInv, Safe, Shut, Plainly, Next
  PROVE Shut'
BY ShutStart, ShutCmdStep, ShutDone, ShutCheck, ShutUser DEF Next, Plainly, SelectGarbled

LEMMA ShutInit ==
  ASSUME Init
  PROVE Shut
<1>1. stack = <<>> /\ ~idata.fd /\ idata.ctx = "none" /\ idata.lastcmd = idata.nextcmd
  BY DEF Init, imap_new_idata
<1>2. QED
  BY <1>1 DEF Shut, Opening, Fresh
------------------------------------------------------------------------------
(* Which steps leave a call waiting for the server.                          *)

Settles ==
  stack' # <<>> => /\ top'.pc \notin {"read", "scan"}
                   /\ ~(top'.pc = "done" /\ top'.rc = "RESPOND")

\* Going on at another place settles.
LEMMA SettleGoto ==
  ASSUME Calls, stack # <<>>, NEW p, Goto(p), p \notin {"read", "scan", "done"}
  PROVE Settles
BY GotoMoved, GotoTop DEF Moved, Settles

\* So does calling a function,
LEMMA SettlePush ==
  ASSUME Calls, stack # <<>>, NEW p, NEW f, Push(f, p), f.pc = "start"
  PROVE Settles
<1>1. top' = f
  BY PushStack DEF Push
<1>2. QED
  BY <1>1 DEF Settles

\* returning from one,
LEMMA SettleReturn ==
  ASSUME Calls, Shaped(stack), stack # <<>>, NEW v, Return(v)
  PROVE Settles
BY ReturnTop DEF Settles, Called, Resting

\* and returning a result other than the + of IDLE.
LEMMA SettleStepped ==
  ASSUME Calls, stack # <<>>, NEW rc, stack' = Stepped(rc), rc \notin {"CONTINUE", "RESPOND"}
  PROVE Settles
<1>1. top' = [top EXCEPT !.rc = rc, !.pc = "done"] /\ top \in Frame
  BY SteppedStack, TopFrame DEF FrameOK
<1>2. top'.rc = rc /\ top'.pc = "done"
  BY <1>1 DEF Frame
<1>3. QED
  BY <1>2 DEF Settles

LEMMA StartPcs ==
  /\ \A verb \in {"CMD", "NULL"}, queue, failok \in BOOLEAN :
       Exec(verb, queue, failok).pc = "start"
  /\ Command.pc = "start"
  /\ Call("read_headers", "start").pc = "start"
  /\ [Call("idle", "start") EXCEPT !.verb = "IDLE"].pc = "start"
<1>1. \A verb \in {"CMD", "NULL"}, queue, failok \in BOOLEAN :
        Exec(verb, queue, failok).pc = "start"
  BY FramedCalls
<1>2. Command.pc = "start"
  BY FramedCalls DEF Command
<1>3. /\ Call("read_headers", "start").pc = "start"
      /\ [Call("idle", "start") EXCEPT !.verb = "IDLE"].pc = "start"
  BY DEF Call
<1>4. QED
  BY <1>1, <1>2, <1>3

LEMMA TopStep ==
  ASSUME IInv, Safe, NestedFetch = FALSE, CmdStep
  PROVE \/ Settles
        \/ (ReadAnswer \/ ReadUnsolicited) /\ Moved("scan")
        \/ ScanRespond \/ ScanContinue
<1>1. Calls /\ buf \in Line /\ Shaped(stack)
  BY DEF IInv, Calls, Safe
<1>2. stack # <<>>
  BY DEF CmdStep, ReadFatal, ReadFails, ReadAnswer, ReadUnsolicited, ReadLine, Reading,
         ScanRespond, ScanContinue, ScanDrained, Finished, In, At
<1>3. CASE ReadFatal \/ ReadFails
  BY <1>1, <1>2, <1>3, SettleStepped DEF ReadFatal, ReadFails, Step
<1>4. ASSUME NEW lines, ReadLine(lines) PROVE Settles \/ Moved("scan")
  <2>1. stack' = Stepped("BAD") \/ Moved("scan")
    BY <1>4 DEF ReadLine, Moved
  <2>2. QED
    BY <1>1, <1>2, <2>1, SettleStepped
<1>5. CASE ScanDrained
  <2> DEFINE rc == ScanResult(idata, buf)
  <2>1. rc \notin {"CONTINUE", "RESPOND"}
    <3>1. buf.code \in {"OK", "NO", "BAD"}
      BY <1>1 DEF Line
    <3>2. rc \in {"CONTINUE", "OK", buf.code}
      BY DEF ScanResult
    <3>3. rc # "CONTINUE"
      BY <1>5 DEF ScanDrained
    <3>4. QED
      BY <3>1, <3>2, <3>3
  <2>2. \/ stack' = Stepped(rc)
        \/ stack' = Append([Stepped(rc) EXCEPT ![Len(stack)].pc = "finished"],
                           Call("read_headers", "start"))
    BY <1>5 DEF ScanDrained
  <2> HIDE DEF rc
  <2>3. CASE stack' = Stepped(rc)
    BY <1>1, <1>2, <2>1, <2>3, SettleStepped
  <2>4. CASE stack' = Append([Stepped(rc) EXCEPT ![Len(stack)].pc = "finished"],
                             Call("read_headers", "start"))
    <3>1. top' = Call("read_headers", "start")
      BY <1>1, <1>2, <2>1, <2>4, FinishStack
    <3>2. QED
      BY <3>1, StartPcs DEF Settles
  <2>5. QED
    BY <2>2, <2>3, <2>4
<1>6. CASE Finished
  <2>1. CASE top.op = "check"
    BY <1>1, <1>2, <1>6, <2>1, SettleGoto DEF Finished
  <2>2. CASE top.op # "check"
    <3>1. top.rc \in {"OK", "NO", "BAD"}
      BY <1>1, <1>2, <1>6, <2>2, TopShape DEF Finished, At, Framed
    <3>2. stack' = Stepped(top.rc)
      BY <1>6, <2>2 DEF Finished, Step
    <3>3. QED
      BY <1>1, <1>2, <3>1, <3>2, SettleStepped
  <2>3. QED
    BY <2>1, <2>2
<1>7. QED
  BY <1>3, <1>4, <1>5, <1>6 DEF CmdStep, ReadAnswer, ReadUnsolicited

\* Which steps leave a call that waits, looks at a line or was just told to idle.
LEMMA TopSteps ==
  ASSUME IInv, Safe, NestedFetch = FALSE, Next
  PROVE \/ Settles
        \/ Write \/ StartFailed
        \/ (ReadAnswer \/ ReadUnsolicited) /\ Moved("scan")
        \/ ScanRespond \/ ScanContinue
        \/ Open /\ server' = NoServer
<1>1. Calls /\ Shaped(stack)
  BY DEF IInv, Safe
<1>2. ASSUME NEW p, stack # <<>>, Goto(p), p \notin {"read", "scan", "done"} PROVE Settles
  BY <1>1, <1>2, SettleGoto
<1>3. ASSUME NEW v, stack # <<>>, Return(v) PROVE Settles
  BY <1>1, <1>3, SettleReturn
<1>4. ASSUME NEW f, NEW p, stack # <<>>, Push(f, p), f.pc = "start" PROVE Settles
  BY <1>1, <1>4, SettlePush
<1>5. CASE CmdStart
  <2>0. stack # <<>>
    BY <1>5 DEF CmdStart, StartFatal, StartDrain, StartQueue, Drained, QueueOnly, NothingToWrite,
                Write, Sent, PollTimesOut, StartFailed, At
  <2>1. CASE StartDrain
    BY <1>4, <2>0, <2>1, StartPcs DEF StartDrain
  <2>2. QED
    BY <1>2, <1>3, <1>5, <2>0, <2>1 DEF CmdStart, StartFatal, StartQueue, Drained, QueueOnly,
                                         NothingToWrite, PollTimesOut
<1>6. CASE CallDone \/ SelectGarbled
  <2>0. stack # <<>>
    BY <1>6 DEF CallDone, SelectGarbled, ExecDone, IdleDone, FetchDone, ReadHeadersDone, SelectAcl, SelectSend,
       SelectDone, SelectOpened, OpenDone, OpenCapability, OpenAuthenticated,
         OpenRecheck, OpenCompress, OpenEnable,
       OpenFlush, OpenOpened, LogoutDone, CloseDone, In, At
  <2>1. CASE SelectAcl \/ SelectDone \/ SelectGarbled
    BY <1>2, <1>3, <1>4, <2>0, <2>1, StartPcs
    DEF SelectAcl, SelectDone, SelectGarbled, SelectFails
  <2>2. CASE OpenDone \/ OpenCapability \/ OpenAuthenticated
      \/ OpenRecheck \/ OpenCompress \/ OpenEnable \/ OpenFlush
    BY <1>2, <1>3, <1>4, <2>0, <2>2, StartPcs
    DEF OpenDone, OpenCapability, OpenAuthenticated, OpenRecheck, OpenCompress, OpenEnable,
        OpenFlush
  <2>3. CASE ReadHeadersDone \/ SelectSend \/ SelectOpened
    BY <1>2, <1>3, <2>0, <2>3 DEF ReadHeadersDone, SelectSend, SelectOpened, SelectFails
  <2>4. QED
    BY <1>3, <1>6, <2>0, <2>1, <2>2, <2>3
    DEF CallDone, ExecDone, IdleDone, FetchDone, OpenOpened, LogoutDone, CloseDone
<1>7. CASE Check
  <2>0. stack # <<>>
    BY <1>7 DEF Check, CheckIdle, CheckIdled, CheckPoll, CheckPolled, CheckNoop, CheckNooped,
                CheckFinish, CheckErrcleanup, In, At
  <2>1. CASE CheckIdle \/ CheckNoop \/ CheckFinish
    BY <1>2, <1>4, <2>0, <2>1, StartPcs DEF CheckIdle, CheckNoop, CheckFinish
  <2>2. QED
    BY <1>2, <1>3, <1>7, <2>0, <2>1
    DEF Check, CheckIdled, CheckPoll, CheckPolled, CheckNooped, CheckErrcleanup
<1>8. CASE User
  <2>1. ASSUME NEW f, stack' = <<f>>, f.pc \notin {"read", "scan"}, f.rc = "OK" PROVE Settles
    <3>1. top' = f
      BY <2>1 DEF top
    <3>2. QED
      BY <2>1, <3>1 DEF Settles
  <2>2. ASSUME NEW f, NEW g, stack' = <<f, g>>, g.pc = "start" PROVE Settles
    <3>1. top'.pc = "start"
      BY <2>2 DEF top
    <3>2. QED
      BY <3>1 DEF Settles
  <2>3. \A op, p : Call(op, p).pc = p /\ Call(op, p).rc = "OK"
    BY DEF Call
  <2>4. \A verb \in {"CMD", "NULL"}, queue, failok \in BOOLEAN :
          Exec(verb, queue, failok).pc = "start" /\ Exec(verb, queue, failok).rc = "OK"
    BY DEF Exec, Call
  <2>5. CASE Open
    BY <2>2, <2>4, <2>5 DEF Open
  <2>6. CASE SetContext \/ AllowReopen \/ DisallowReopen
    <3>1. stack' = <<>>
      BY <2>6 DEF SetContext, AllowReopen, DisallowReopen, TopLevel
    <3>2. QED
      BY <3>1 DEF Settles
  <2>7. CASE Select \/ FetchMessage \/ CheckMailbox \/ Logout
    <3>1. \E op, p : stack' = <<Call(op, p)>> /\ p \notin {"read", "scan"}
      BY <2>7 DEF Select, FetchMessage, CheckMailbox, Logout, Begin
    <3>2. QED
      BY <2>1, <2>3, <3>1
  <2>8. CASE DoExec \/ Flush
    <3>1. \E verb \in {"CMD", "NULL"}, queue, failok \in BOOLEAN :
            stack' = <<Exec(verb, queue, failok)>>
      BY <2>8 DEF DoExec, Flush, Begin
    <3>2. QED
      BY <2>1, <2>4, <3>1
  <2>9. CASE CloseMailbox
    <3>1. \/ stack' = <<Call("close", "closed")>>
          \/ stack' = <<Call("close", "closed"), Command>>
      BY <2>9 DEF CloseMailbox, Begin
    <3>2. CASE stack' = <<Call("close", "closed")>>
      BY <2>1, <2>3, <3>2
    <3>3. CASE stack' = <<Call("close", "closed"), Command>>
      BY <2>2, <3>3, StartPcs
    <3>4. QED
      BY <3>1, <3>2, <3>3
  <2>10. QED
    BY <1>8, <2>5, <2>6, <2>7, <2>8, <2>9 DEF User
<1>9. CASE CmdStep
  BY <1>9, TopStep
<1>10. QED
  BY <1>5, <1>6, <1>7, <1>8, <1>9 DEF Next
------------------------------------------------------------------------------
(* Between lastcmd and nextcmd every command waits.                          *)

Tight(d) == Window(d) \subseteq Waiting(d)

LEMMA RingDistance ==
  ASSUME NEW l \in Slots, NEW n \in Slots
  PROVE /\ Distance(l, n) \in 0 .. CmdSlots - 1
        /\ Distance(l, l) = 0
        /\ Distance(l, n) = 0 => l = n
        /\ \A i \in Slots : Distance(l, i) = Distance(l, n) => i = n
        /\ Succ(n) # l => Distance(l, Succ(n)) = Distance(l, n) + 1
        /\ l # n => Distance(Succ(l), n) = Distance(l, n) - 1
BY CmdSlotsAssumption DEF Distance, Slots, Succ

\* A new command extends the window by a slot that waits.
LEMMA TightNew ==
  ASSUME NEW d, Good(d), ~cmd_queue_full(d), NEW verb, Tight(d)
  PROVE Tight(cmd_new(d, verb))
<1> DEFINE e == cmd_new(d, verb)
<1>1. /\ d.nextcmd \in Slots /\ d.lastcmd \in Slots /\ e.lastcmd = d.lastcmd
      /\ e.nextcmd = Succ(d.nextcmd) /\ e.cmds[d.nextcmd].state = "NEW"
      /\ \A k \in Slots : k # d.nextcmd => e.cmds[k] = d.cmds[k]
  BY DEF Good, IData, cmd_new
<1> HIDE DEF e
<1>2. Distance(d.lastcmd, Succ(d.nextcmd)) = Distance(d.lastcmd, d.nextcmd) + 1
  BY <1>1, RingDistance DEF cmd_queue_full
<1>3. ASSUME NEW k \in Window(e) PROVE k \in Waiting(e)
  <2>1. k \in Slots /\ Distance(d.lastcmd, k) < Distance(d.lastcmd, d.nextcmd) + 1
    BY <1>1, <1>2, <1>3 DEF Window
  <2>2. Distance(d.lastcmd, k) \in Int /\ Distance(d.lastcmd, d.nextcmd) \in Int
    BY <1>1, <2>1, RingDistance
  <2>3. CASE Distance(d.lastcmd, k) = Distance(d.lastcmd, d.nextcmd)
    <3>1. k = d.nextcmd
      BY <1>1, <2>1, <2>3, RingDistance
    <3>2. QED
      BY <1>1, <3>1 DEF Waiting
  <2>4. CASE Distance(d.lastcmd, k) < Distance(d.lastcmd, d.nextcmd)
    <3>1. k \in Window(d) /\ k # d.nextcmd
      BY <2>1, <2>2, <2>4 DEF Window
    <3>2. QED
      BY <1>1, <2>1, <3>1 DEF Tight, Waiting
  <2>5. QED
    BY <2>1, <2>2, <2>3, <2>4
<1>4. QED
  BY <1>3 DEF Tight, e

\* A line that completes no command leaves the ring alone.
LEMMA ScanPlain ==
  ASSUME NEW d, Good(d), NEW line, line.kind # "tagged"
  PROVE Same(d, Scan(d, line))
<1>1. \A i : ~Matches(d, line, i)
  BY DEF Matches
<1>2. First(d, line) = {}
  BY <1>1 DEF First
<1>3. d.cmds = [i \in Slots |-> d.cmds[i]]
  BY DEF Good, IData
<1>4. QED
  BY <1>1, <1>2, <1>3 DEF Scan, Same, Good, IData

\* The completion of the oldest command frees its slot.
LEMMA ScanOldest ==
  ASSUME NEW d, Good(d), Tight(d), NEW line \in Line, line.kind = "tagged",
         d.lastcmd # d.nextcmd, line.seq = d.cmds[d.lastcmd].seq
  PROVE LET e == Scan(d, line)
        IN /\ e.lastcmd = Succ(d.lastcmd) /\ e.nextcmd = d.nextcmd
           /\ \A i \in Slots : e.cmds[i].seq = d.cmds[i].seq
           /\ Tight(e)
<1> DEFINE e == Scan(d, line)
           l == d.lastcmd
           n == d.nextcmd
<1>1. l \in Slots /\ n \in Slots /\ e.nextcmd = n
      /\ e.lastcmd = IF First(d, line) # {} THEN Succ(l) ELSE l
  BY DEF Good, IData, Scan
<1>2. /\ \A k \in Waiting(d) : k \in Waiting(e) \/ Matches(d, line, k)
      /\ \A k \in Slots : e.cmds[k].seq = d.cmds[k].seq
      /\ Waiting(d) \subseteq Scanned(d)
  BY ScanWaiting
<1> HIDE DEF e
<1>3. Distance(l, l) = 0 /\ \A i \in Slots : Distance(l, i) \in 0 .. CmdSlots - 1
      /\ (Distance(l, i) = 0 => i = l)
  BY <1>1, RingDistance
<1>4. l \in Window(d)
  BY <1>1, <1>3, CmdSlotsAssumption DEF Window
<1>5. l \in Waiting(d) /\ Matches(d, line, l)
  BY <1>4 DEF Tight, Waiting, Matches
<1>6. \A k \in Waiting(d) : Matches(d, line, k) => k = l
  BY <1>5, DistinctTags DEF Matches
<1>7. l \in First(d, line)
  <2>1. ASSUME NEW j \in StillRunning(d, line) PROVE Distance(l, l) < Distance(l, j)
    <3>1. j \in Slots /\ j # l
      BY <1>5, <2>1 DEF StillRunning, Scanned
    <3>2. Distance(l, j) \in 0 .. CmdSlots - 1 /\ Distance(l, j) # 0
      BY <1>3, <3>1
    <3>3. QED
      BY <1>3, <3>2, CmdSlotsAssumption
  <2>2. l \in Scanned(d)
    BY <1>2, <1>5
  <2>3. QED
    BY <1>5, <2>1, <2>2 DEF First
<1>8. e.lastcmd = Succ(l)
  BY <1>1, <1>7
<1>9. ASSUME NEW k \in Window(e) PROVE k \in Waiting(e)
  <2>1. k \in Slots /\ Distance(Succ(l), k) < Distance(Succ(l), n)
    BY <1>1, <1>8, <1>9 DEF Window
  <2>2. Distance(Succ(l), n) = Distance(l, n) - 1
    BY <1>1, RingDistance
  <2>3. k # l
    BY <1>1, <2>1, <2>2, CmdSlotsAssumption DEF Distance, Slots, Succ
  <2>4. Distance(Succ(l), k) = Distance(l, k) - 1
    BY <1>1, <2>1, <2>3, RingDistance
  <2>5. Distance(l, k) < Distance(l, n)
    BY <1>1, <1>3, <2>1, <2>2, <2>4, CmdSlotsAssumption
  <2>6. k \in Waiting(d)
    BY <2>1, <2>5 DEF Window, Tight
  <2>7. QED
    BY <1>2, <1>6, <2>3, <2>6
<1>10. QED
  BY <1>1, <1>2, <1>8, <1>9 DEF Tight, e
------------------------------------------------------------------------------
(* The ring and what was sent, in the order it was sent.                     *)

\* Everything the server has not answered, then what is not yet written.
Queue == server.input \o idata.cmdbuf

\* The queue holds the commands of the ring from lastcmd on, each with the tag
\* in its slot; done: the second token is the DONE that ends an IDLE.
LinedUp(d, q, done) ==
  /\ Len(q) = Distance(d.lastcmd, d.nextcmd) + (IF done THEN 1 ELSE 0)
  /\ done => Len(q) >= 2 /\ q[2].verb = "DONE"
  /\ \A p \in 1 .. Len(q) : ~(done /\ p = 2) =>
       /\ q[p].verb # "DONE"
       /\ \A s \in Slots :
            Distance(d.lastcmd, s) + 1 = (IF done /\ p > 2 THEN p - 1 ELSE p)
              => d.cmds[s].seq = q[p].seq

\* Being lined up depends on the tags and the queue only.
LEMMA LinedSame ==
  ASSUME NEW d, NEW e, NEW q, NEW r, NEW done, LinedUp(d, q, done),
         e.lastcmd = d.lastcmd, e.nextcmd = d.nextcmd,
         \A s \in Slots : e.cmds[s].seq = d.cmds[s].seq,
         Len(r) = Len(q), \A p \in 1 .. Len(q) : r[p] = q[p], Len(q) \in Nat
  PROVE LinedUp(e, r, done)
<1>1. done => Len(r) >= 2 /\ r[2].verb = "DONE"
  <2>1. SUFFICES ASSUME done PROVE Len(r) >= 2 /\ r[2].verb = "DONE"
    OBVIOUS
  <2>2. Len(q) >= 2 /\ q[2].verb = "DONE"
    BY <2>1 DEF LinedUp
  <2>3. 2 \in 1 .. Len(q)
    BY <2>2
  <2>4. QED
    BY <2>2, <2>3
<1>2. QED
  BY <1>1 DEF LinedUp

\* An empty ring lines up with an empty queue.
LEMMA LinedEmpty ==
  ASSUME NEW d, d.lastcmd \in Slots, d.lastcmd = d.nextcmd, NEW q, Len(q) = 0
  PROVE LinedUp(d, q, FALSE)
BY RingDistance DEF LinedUp

\* The oldest command heads the queue.
LEMMA LinedHead ==
  ASSUME NEW d, Good(d), NEW q, NEW done \in BOOLEAN, LinedUp(d, q, done), Len(q) \in Nat \ {0}
  PROVE /\ d.lastcmd # d.nextcmd
        /\ q[1].verb # "DONE" /\ d.cmds[d.lastcmd].seq = q[1].seq
<1>1. d.lastcmd \in Slots /\ d.nextcmd \in Slots
  BY DEF Good, IData
<1>2. Distance(d.lastcmd, d.lastcmd) = 0 /\ Distance(d.lastcmd, d.nextcmd) \in Int
  BY <1>1, RingDistance
<1>3. Distance(d.lastcmd, d.nextcmd) >= 1
  BY <1>2 DEF LinedUp
<1>4. 1 \in 1 .. Len(q)
  OBVIOUS
<1>5. QED
  BY <1>1, <1>2, <1>3, <1>4 DEF LinedUp

\* A new command goes to the end of both.
LEMMA LinedNew ==
  ASSUME NEW d, Good(d), ~cmd_queue_full(d), NEW verb \in {"CMD", "IDLE"},
         NEW q \in Seq(Token), NEW r, NEW done \in BOOLEAN, LinedUp(d, q, done),
         Len(r) = Len(q) + 1, \A p \in 1 .. Len(q) : r[p] = q[p],
         r[Len(q) + 1] = [verb |-> verb, seq |-> d.seqno]
  PROVE LinedUp(cmd_new(d, verb), r, done)
<1> DEFINE e == cmd_new(d, verb)
           l == d.lastcmd
           n == d.nextcmd
<1>1. /\ n \in Slots /\ l \in Slots /\ e.lastcmd = l
      /\ e.nextcmd = Succ(n) /\ e.cmds[n].seq = d.seqno
      /\ \A k \in Slots : k # n => e.cmds[k] = d.cmds[k]
  BY DEF Good, IData, cmd_new
<1> HIDE DEF e
<1>2. Distance(l, Succ(n)) = Distance(l, n) + 1
  BY <1>1, RingDistance DEF cmd_queue_full
<1>3. Distance(l, n) \in Nat /\ Len(q) \in Nat
  BY <1>1, RingDistance, CmdSlotsAssumption
<1>4. Len(r) = Distance(e.lastcmd, e.nextcmd) + (IF done THEN 1 ELSE 0)
  BY <1>1, <1>2, <1>3 DEF LinedUp
<1>5. done => Len(r) >= 2 /\ r[2].verb = "DONE"
  <2>1. SUFFICES ASSUME done PROVE Len(r) >= 2 /\ r[2].verb = "DONE"
    OBVIOUS
  <2>2. Len(q) >= 2 /\ q[2].verb = "DONE"
    BY <2>1 DEF LinedUp
  <2>3. 2 \in 1 .. Len(q)
    BY <1>3, <2>2
  <2>4. QED
    BY <1>3, <2>2, <2>3
<1>6. ASSUME NEW p \in 1 .. Len(r), ~(done /\ p = 2)
      PROVE /\ r[p].verb # "DONE"
            /\ \A s \in Slots :
                 Distance(l, s) + 1 = (IF done /\ p > 2 THEN p - 1 ELSE p)
                   => e.cmds[s].seq = r[p].seq
  <2>1. CASE p \in 1 .. Len(q)
    <3>1. /\ q[p].verb # "DONE" /\ r[p] = q[p]
          /\ \A s \in Slots : Distance(l, s) + 1 = (IF done /\ p > 2 THEN p - 1 ELSE p)
                   => d.cmds[s].seq = q[p].seq
      BY <1>6, <2>1 DEF LinedUp
    <3>2. ASSUME NEW s \in Slots, Distance(l, s) + 1 = (IF done /\ p > 2 THEN p - 1 ELSE p)
          PROVE e.cmds[s].seq = r[p].seq
      <4>1. Distance(l, s) < Distance(l, n)
        <5>1. Distance(l, s) \in Int
          BY <1>1, RingDistance
        <5>2. CASE done /\ p > 2
          BY <1>3, <2>1, <3>2, <5>1, <5>2 DEF LinedUp
        <5>3. CASE ~done
          BY <1>3, <2>1, <3>2, <5>1, <5>3 DEF LinedUp
        <5>4. CASE done /\ p = 1
          <6>1. Distance(l, n) >= 1 /\ Distance(l, s) = 0
            BY <1>3, <3>2, <5>1, <5>4 DEF LinedUp
          <6>2. QED
            BY <1>3, <6>1
        <5>5. QED
          BY <1>6, <2>1, <1>3, <5>2, <5>3, <5>4
      <4>2. s # n
        BY <1>3, <4>1
      <4>3. QED
        BY <1>1, <3>1, <3>2, <4>2
    <3>3. QED
      BY <3>1, <3>2
  <2>2. CASE p = Len(q) + 1
    <3>1. r[p].verb = verb /\ r[p].seq = d.seqno
      BY <2>2
    <3>2. ASSUME NEW s \in Slots, Distance(l, s) + 1 = (IF done /\ p > 2 THEN p - 1 ELSE p)
          PROVE s = n
      <4>1. Distance(l, s) \in Int
        BY <1>1, RingDistance
      <4>2. Distance(l, s) = Distance(l, n)
        BY <1>3, <2>2, <3>2, <4>1 DEF LinedUp
      <4>3. QED
        BY <1>1, <4>2, RingDistance
    <3>3. QED
      BY <1>1, <3>1, <3>2
  <2>3. QED
    BY <1>3, <2>1, <2>2
<1>7. QED
  BY <1>1, <1>4, <1>5, <1>6 DEF LinedUp, e

\* The DONE after an IDLE that is the only command.
LEMMA LinedDone ==
  ASSUME NEW d, Good(d), NEW e, NEW q, NEW r, LinedUp(d, q, FALSE), Same(d, e), Len(q) = 1,
         Len(r) = 2, r[1] = q[1], r[2].verb = "DONE"
  PROVE LinedUp(e, r, TRUE)
<1>1. e.lastcmd = d.lastcmd /\ e.nextcmd = d.nextcmd /\ e.cmds = d.cmds
  BY DEF Same
<1>2. Distance(d.lastcmd, d.nextcmd) \in Int
  <2>1. d.lastcmd \in Slots /\ d.nextcmd \in Slots
    BY DEF Good, IData
  <2>2. QED
    BY <2>1, RingDistance
<1>3. Distance(e.lastcmd, e.nextcmd) = 1
  <2>1. Len(q) = Distance(d.lastcmd, d.nextcmd) + 0
    BY DEF LinedUp
  <2>2. QED
    BY <1>1, <1>2, <2>1
<1>4. /\ q[1].verb # "DONE"
      /\ \A s \in Slots : Distance(d.lastcmd, s) + 1 = 1 => d.cmds[s].seq = q[1].seq
  <2>1. 1 \in 1 .. Len(q)
    OBVIOUS
  <2>2. QED
    BY <2>1 DEF LinedUp
<1>5. \A p \in 1 .. Len(r) : p # 2 => p = 1
  OBVIOUS
<1>6. QED
  BY <1>1, <1>3, <1>4, <1>5 DEF LinedUp

\* The first k tokens of q are gone.
Dropped(q, r, k) == Len(r) = Len(q) - k /\ \A p \in 1 .. Len(r) : r[p] = q[p + k]

\* The head of the queue is answered, with the DONE after it.
LEMMA LinedNext ==
  ASSUME NEW d, Good(d), NEW e, NEW q \in Seq(Token), NEW r, NEW done \in BOOLEAN,
         NEW k, k = IF done THEN 2 ELSE 1, LinedUp(d, q, done), d.lastcmd # d.nextcmd,
         e.lastcmd = Succ(d.lastcmd), e.nextcmd = d.nextcmd,
         \A s \in Slots : e.cmds[s].seq = d.cmds[s].seq, Dropped(q, r, k)
  PROVE LinedUp(e, r, FALSE)
<1> DEFINE l == d.lastcmd
           n == d.nextcmd
<1>1. n \in Slots /\ l \in Slots /\ Len(q) \in Nat
  BY DEF Good, IData
<1>2. Distance(Succ(l), n) = Distance(l, n) - 1 /\ Distance(l, n) \in 0 .. CmdSlots - 1
  BY <1>1, RingDistance
<1>0. Len(r) = Len(q) - k /\ \A p \in 1 .. Len(r) : r[p] = q[p + k]
  BY DEF Dropped
<1>3. Len(r) = Distance(Succ(l), n)
  BY <1>0, <1>1, <1>2 DEF LinedUp
<1>4. ASSUME NEW p \in 1 .. Len(r)
      PROVE /\ r[p].verb # "DONE"
            /\ \A s \in Slots : Distance(Succ(l), s) + 1 = p => e.cmds[s].seq = r[p].seq
  <2>1. p + k \in 1 .. Len(q) /\ r[p] = q[p + k] /\ ~(done /\ p + k = 2)
    <3>1. k \in {1, 2} /\ (done => k = 2) /\ p \in Nat \ {0} /\ p <= Len(q) - k
      BY <1>0, <1>1, <1>4
    <3>2. QED
      BY <1>0, <1>1, <3>1
  <2>2. ASSUME NEW s \in Slots, Distance(Succ(l), s) + 1 = p
        PROVE Distance(l, s) + 1 = (IF done /\ p + k > 2 THEN p + k - 1 ELSE p + k)
    <3>1. s # l
      <4>1. Distance(Succ(l), l) = CmdSlots - 1
        BY <1>1, CmdSlotsAssumption DEF Distance, Slots, Succ
      <4>2. p <= CmdSlots - 2
        BY <1>2, <1>3, CmdSlotsAssumption
      <4>3. QED
        BY <2>2, <4>1, <4>2, CmdSlotsAssumption
    <3>2. Distance(Succ(l), s) = Distance(l, s) - 1 /\ Distance(l, s) \in 0 .. CmdSlots - 1
      BY <1>1, <3>1, RingDistance
    <3>3. QED
      BY <2>2, <3>2, CmdSlotsAssumption
  <2>4. QED
    BY <2>1, <2>2 DEF LinedUp
<1>5. QED
  BY <1>3, <1>4, <1>1, <1>2 DEF LinedUp

\* The slot k places after the l-th.
LEMMA SlotAfter ==
  ASSUME NEW l \in Slots, NEW k \in Slots
  PROVE (l + k) % CmdSlots \in Slots /\ Distance(l, (l + k) % CmdSlots) = k
<1>1. CmdSlots \in Nat \ {0} /\ l \in 0 .. CmdSlots - 1 /\ k \in 0 .. CmdSlots - 1
  BY CmdSlotsAssumption DEF Slots
<1>2. CASE l + k < CmdSlots
  <2>1. l + k \in 0 .. CmdSlots - 1
    BY <1>1, <1>2
  <2>2. (l + k) % CmdSlots = l + k
    BY <1>1, <2>1
  <2>3. QED
    BY <1>1, <2>1, <2>2 DEF Distance, Slots
<1>3. CASE l + k >= CmdSlots
  <2>1. l + k \in CmdSlots .. 2 * CmdSlots - 1
    BY <1>1, <1>3
  <2>2. (l + k) % CmdSlots = l + k - CmdSlots
    BY <1>1, <2>1
  <2>3. QED
    BY <1>1, <2>1, <2>2 DEF Distance, Slots
<1>4. QED
  BY <1>1, <1>2, <1>3

\* The commands among the first n tokens of a queue that is lined up.
LEMMA CommandsBefore ==
  ASSUME NEW n \in Nat, NEW done \in BOOLEAN
  PROVE Cardinality({j \in 1 .. n : ~(done /\ j = 2)}) = IF done /\ n >= 2 THEN n - 1 ELSE n
<1>1. IsFiniteSet(1 .. n) /\ Cardinality(1 .. n) = n
  BY FS_Interval
<1>2. CASE done
  <2>1. {j \in 1 .. n : ~(done /\ j = 2)} = (1 .. n) \ {2}
    BY <1>2
  <2>2. Cardinality((1 .. n) \ {2}) = IF 2 \in 1 .. n THEN n - 1 ELSE n
    BY <1>1, FS_RemoveElement
  <2>3. 2 \in 1 .. n <=> n >= 2
    OBVIOUS
  <2>4. QED
    BY <1>2, <2>1, <2>2, <2>3
<1>3. CASE ~done
  <2>1. {j \in 1 .. n : ~(done /\ j = 2)} = 1 .. n
    BY <1>3
  <2>2. QED
    BY <1>1, <1>3, <2>1
<1>4. QED
  BY <1>2, <1>3

\* What is lined up is what PipelineRight asks for.
LEMMA LinedMatches ==
  ASSUME Good(idata), Peer, NEW done \in BOOLEAN, LinedUp(idata, Queue, done)
  PROVE RingMatchesServer
<1> DEFINE sent == Queue
           commands == {i \in 1 .. Len(sent) : sent[i].verb # "DONE"}
           before(i) == Cardinality({j \in commands : j < i})
           l == idata.lastcmd
<1>1. sent \in Seq(Token) /\ Len(sent) \in Nat
  BY DEF Good, IData, Peer, Queue
<1>2. l \in Slots /\ idata.nextcmd \in Slots
  BY DEF Good, IData
<1>3. Distance(l, idata.nextcmd) \in 0 .. CmdSlots - 1
  BY <1>2, RingDistance
<1>4. \A i \in 1 .. Len(sent) : sent[i].verb # "DONE" <=> ~(done /\ i = 2)
  BY DEF LinedUp
<1>5. commands = {i \in 1 .. Len(sent) : ~(done /\ i = 2)}
  BY <1>4
<1>6. Len(sent) = Distance(l, idata.nextcmd) + (IF done THEN 1 ELSE 0)
      /\ (done => Len(sent) >= 2)
  BY DEF LinedUp
<1>7. Cardinality(commands) = Distance(l, idata.nextcmd)
  <2>1. Cardinality(commands) = IF done /\ Len(sent) >= 2 THEN Len(sent) - 1 ELSE Len(sent)
    BY <1>1, <1>5, CommandsBefore
  <2>2. QED
    BY <1>1, <1>3, <1>6, <2>1
<1>8. ASSUME NEW i \in commands PROVE sent[i].seq = idata.cmds[(l + before(i)) % CmdSlots].seq
  <2>1. i \in 1 .. Len(sent) /\ ~(done /\ i = 2) /\ i - 1 \in Nat /\ i \in Nat
    BY <1>1, <1>5
  <2>2. {j \in commands : j < i} = {j \in 1 .. i - 1 : ~(done /\ j = 2)}
    BY <1>1, <1>5, <2>1
  <2>3. before(i) = IF done /\ i - 1 >= 2 THEN i - 1 - 1 ELSE i - 1
    BY <2>1, <2>2, CommandsBefore
  <2>4. before(i) + 1 = IF done /\ i > 2 THEN i - 1 ELSE i
    BY <2>1, <2>3
  <2>5. before(i) \in Slots
    <3> HIDE DEF before
    <3>1. Distance(l, idata.nextcmd) \in Nat /\ Distance(l, idata.nextcmd) <= CmdSlots - 1
      BY <1>3, CmdSlotsAssumption
    <3> HIDE DEF sent, l
    <3>2. before(i) \in Nat /\ before(i) < CmdSlots
      BY <1>1, <1>6, <2>1, <2>3, <3>1, CmdSlotsAssumption
    <3>3. QED
      BY <3>2, CmdSlotsAssumption DEF Slots
  <2> DEFINE s == (l + before(i)) % CmdSlots
  <2>6. s \in Slots /\ Distance(l, s) = before(i)
    BY <1>2, <2>5, SlotAfter
  <2> HIDE DEF before
  <2>7. QED
    BY <2>1, <2>4, <2>6 DEF LinedUp
<1>9. QED
  BY <1>7, <1>8 DEF RingMatchesServer, Queue
------------------------------------------------------------------------------
(* With a server that answers in order, the ring follows what was sent.      *)

\* The server has been told IDLE and has said so, and mutt has not yet taken
\* that in.
Told == /\ stack # <<>>
        /\ \/ top.pc = "scan" /\ buf.kind = "+"
           \/ top.pc = "done" /\ top.rc = "RESPOND"

\* The ring, once the line that was read is looked at.
Now == IF At("scan") THEN Scan(idata, buf) ELSE idata

\* The DONE is in the queue from then on until the server ends the IDLE.
Lined(d) == IF server.idling /\ ~Told THEN LinedUp(d, Queue, TRUE) ELSE LinedUp(d, Queue, FALSE)

Order ==
  /\ Lined(Now)
  /\ server.idling => server.input # <<>> /\ server.input[1].verb = "IDLE"
  /\ Told => server.idling /\ Len(server.input) = 1 /\ idata.cmdbuf = <<>>
  /\ At("read") \/ (At("scan") /\ top.op # "check") => idata.cmdbuf = <<>>
  /\ At("read") /\ top.op # "open" => server.input # <<>>

\* Where the parts of two sequences are in their concatenation.
LEMMA Concat ==
  ASSUME NEW s \in Seq(Token), NEW t \in Seq(Token)
  PROVE /\ s \o t \in Seq(Token) /\ Len(s \o t) = Len(s) + Len(t)
        /\ Len(s) \in Nat /\ Len(t) \in Nat
        /\ \A p \in 1 .. Len(s) : (s \o t)[p] = s[p]
        /\ \A p \in Len(s) + 1 .. Len(s) + Len(t) : (s \o t)[p] = t[p - Len(s)]
        /\ s # <<>> <=> Len(s) > 0
        /\ s \o <<>> = s
OBVIOUS

LEMMA ConcatAppend ==
  ASSUME NEW s \in Seq(Token), NEW t \in Seq(Token), NEW x \in Token
  PROVE /\ Len(s \o Append(t, x)) = Len(s \o t) + 1
        /\ \A p \in 1 .. Len(s \o t) : (s \o Append(t, x))[p] = (s \o t)[p]
        /\ (s \o Append(t, x))[Len(s \o t) + 1] = x
OBVIOUS

LEMMA QueueType ==
  ASSUME Good(idata), Peer
  PROVE /\ server.input \in Seq(Token) /\ idata.cmdbuf \in Seq(Token) /\ Queue \in Seq(Token)
        /\ Len(Queue) = Len(server.input) + Len(idata.cmdbuf)
        /\ Len(Queue) \in Nat /\ Len(server.input) \in Nat /\ Len(idata.cmdbuf) \in Nat
        /\ \A p \in 1 .. Len(server.input) : Queue[p] = server.input[p]
<1>1. server.input \in Seq(Token) /\ idata.cmdbuf \in Seq(Token)
  BY DEF Good, IData, Peer
<1>2. QED
  BY <1>1, Concat DEF Queue

\* A step that leaves the ring, the buffer and the server alone.
LEMMA OrderQuiet ==
  ASSUME Order, ~Told, ~At("scan"), Settles,
         UNCHANGED server, Same(idata, idata'), idata'.cmdbuf = idata.cmdbuf
  PROVE Order'
<1>1. ~Told' /\ ~At("scan")' /\ ~At("read")'
  BY DEF Settles, Told, At
<1>2. Now = idata /\ Now' = idata' /\ Queue' = Queue
  BY <1>1 DEF Now, Queue
<1>3. \A done \in BOOLEAN : LinedUp(idata, Queue, done) => LinedUp(idata', Queue, done)
  BY DEF LinedUp, Same
<1>4. Lined(Now)'
  BY <1>1, <1>2, <1>3 DEF Lined, Order
<1>5. QED
  BY <1>1, <1>4 DEF Order

\* Queuing a command keeps the order.
LEMMA OrderNew ==
  ASSUME Good(idata), Peer, Order, ~Told, ~At("scan"), Settles, Adds, top.verb \in {"CMD", "IDLE"}
  PROVE Order'
<1>1. ~Told' /\ ~At("scan")' /\ ~At("read")'
  BY DEF Settles, Told, At
<1>2. Now = idata /\ Now' = idata'
  BY <1>1 DEF Now
<1> DEFINE x == [verb |-> top.verb, seq |-> idata.seqno]
<1>3. idata'.cmdbuf = Append(idata.cmdbuf, x) /\ x \in Token /\ UNCHANGED server
  BY DEF Adds, cmd_new, Good, IData, Token
<1>4. /\ Len(Queue') = Len(Queue) + 1 /\ \A p \in 1 .. Len(Queue) : Queue'[p] = Queue[p]
      /\ Queue'[Len(Queue) + 1] = x
  <2>1. Queue' = server.input \o Append(idata.cmdbuf, x)
    BY <1>3 DEF Queue
  <2>2. x \in Token /\ server.input \in Seq(Token) /\ idata.cmdbuf \in Seq(Token)
    BY <1>3, QueueType
  <2> HIDE DEF x
  <2>3. /\ Len(server.input \o Append(idata.cmdbuf, x)) = Len(server.input \o idata.cmdbuf) + 1
        /\ \A p \in 1 .. Len(server.input \o idata.cmdbuf) :
             (server.input \o Append(idata.cmdbuf, x))[p] = (server.input \o idata.cmdbuf)[p]
        /\ (server.input \o Append(idata.cmdbuf, x))[Len(server.input \o idata.cmdbuf) + 1] = x
    BY <2>2, ConcatAppend
  <2>4. QED
    BY <2>1, <2>3 DEF Queue
<1>5. \A done \in BOOLEAN : LinedUp(idata, Queue, done) => LinedUp(idata', Queue', done)
  BY <1>4, QueueType, LinedNew DEF Adds
<1>6. Lined(Now)'
  BY <1>1, <1>2, <1>3, <1>5 DEF Lined, Order
<1>7. QED
  BY <1>1, <1>3, <1>6 DEF Order

\* Writing the buffer moves nothing in the queue.
LEMMA OrderWrite ==
  ASSUME Good(idata), Peer, Calls, Order, Write, idata'.fd
  PROVE Order'
<1> DEFINE sent == [idata EXCEPT !.cmdbuf = <<>>,
                                 !.state = IF @ = "IDLE" THEN "SELECTED" ELSE @]
<1>1. /\ At("write") /\ idata.cmdbuf # <<>> /\ Moved("read")
      /\ idata' = sent /\ server' = [server EXCEPT !.input = @ \o idata.cmdbuf]
  <2>1. idata' # [sent EXCEPT !.fd = FALSE]
    BY DEF Good, IData
  <2>2. QED
    BY <2>1, GotoMoved DEF Write, Sent
<1>2. /\ stack' # <<>> /\ top'.pc = "read" /\ top'.op = top.op /\ stack # <<>> /\ top.pc = "write"
  BY <1>1, GotoTop DEF Moved, At
<1>3. ~Told /\ ~At("scan") /\ ~Told' /\ ~At("scan")'
  BY <1>2 DEF Told, At
<1>4. Now = idata /\ Now' = idata'
  BY <1>3 DEF Now
<1>5. Same(idata, idata') /\ idata'.cmdbuf = <<>>
  BY <1>1 DEF Good, IData, Same
<1>6. server'.input = server.input \o idata.cmdbuf /\ server'.idling = server.idling
  BY <1>1 DEF Peer
<1>7. /\ Queue' = Queue /\ server'.input # <<>>
      /\ server.input # <<>> => server'.input[1] = server.input[1]
  <2>1. /\ Queue \in Seq(Token) /\ server.input \in Seq(Token) /\ idata.cmdbuf \in Seq(Token)
        /\ server'.input = Queue /\ Queue' = Queue \o <<>>
    BY <1>5, <1>6, QueueType DEF Queue
  <2>2. Queue' = Queue
    BY <2>1, Concat
  <2>3. Len(Queue) = Len(server.input) + Len(idata.cmdbuf) /\ Len(idata.cmdbuf) > 0
        /\ Len(server.input) \in Nat /\ Len(idata.cmdbuf) \in Nat
    BY <1>1, <2>1, Concat DEF Queue
  <2>4. Queue # <<>>
    <3>1. ASSUME NEW m \in Nat, NEW n \in Nat, n > 0 PROVE m + n # 0
      BY <3>1
    <3>2. Len(Queue) # 0
      BY <2>3, <3>1
    <3>3. QED
      BY <3>2
  <2>5. server.input # <<>> => Queue[1] = server.input[1]
    <3>1. SUFFICES ASSUME server.input # <<>> PROVE Queue[1] = server.input[1]
      OBVIOUS
    <3>2. 1 \in 1 .. Len(server.input)
      BY <2>1, <3>1
    <3>3. QED
      BY <3>2, QueueType
  <2>6. QED
    BY <2>1, <2>2, <2>4, <2>5
<1>8. \A done \in BOOLEAN : LinedUp(idata, Queue, done) => LinedUp(idata', Queue', done)
  BY <1>5, <1>7 DEF LinedUp, Same
<1>9. Lined(Now)'
  BY <1>3, <1>4, <1>6, <1>8 DEF Lined, Order
<1>10. server'.idling => server'.input[1].verb = "IDLE"
  BY <1>6, <1>7 DEF Order
<1>11. QED
  BY <1>2, <1>3, <1>5, <1>7, <1>9, <1>10 DEF Order, At

LEMMA TightSame ==
  ASSUME NEW d, NEW e, Tight(d), Same(d, e)
  PROVE Tight(e)
BY DEF Same, Tight, Window, Waiting

\* Where a call reads, nothing has been read that is not looked at.
LEMMA ReadingTop ==
  ASSUME Reading, Calls, Order, Moved("scan")
  PROVE /\ ~Told /\ ~At("scan") /\ Now = idata
        /\ At("scan")' /\ ~At("read")' /\ top'.op = top.op
        /\ Told' <=> buf'.kind = "+"
        /\ Now' = Scan(idata', buf')
        /\ top'.op # "check" => idata.cmdbuf = <<>>
<1>1. stack # <<>> /\ (top.pc = "read" \/ (top.pc = "poll" /\ top.op = "check"))
  BY DEF Reading, At, In
<1>2. stack' # <<>> /\ top'.pc = "scan" /\ top'.op = top.op
  BY <1>1, GotoTop DEF Moved
<1>3. top'.op # "check" => At("read")
  BY <1>1, <1>2 DEF At
<1>4. QED
  BY <1>1, <1>2, <1>3 DEF Told, At, Now, Order

\* Dropping from the first part drops from the whole.
LEMMA ConcatDrop ==
  ASSUME NEW s \in Seq(Token), NEW t \in Seq(Token), NEW r \in Seq(Token), NEW k \in {1, 2},
         Len(s) >= k, Dropped(s, r, k)
  PROVE Dropped(s \o t, r \o t, k)
<1>1. /\ Len(s) \in Nat /\ Len(t) \in Nat /\ Len(r) \in Nat
      /\ Len(s \o t) = Len(s) + Len(t) /\ Len(r \o t) = Len(r) + Len(t)
  BY Concat
<1>0. Len(r) = Len(s) - k /\ \A p \in 1 .. Len(r) : r[p] = s[p + k]
  BY DEF Dropped
<1>2. ASSUME NEW p \in 1 .. Len(r) + Len(t) PROVE (r \o t)[p] = (s \o t)[p + k]
  <2>1. CASE p <= Len(r)
    <3>1. p \in 1 .. Len(r) /\ p + k \in 1 .. Len(s)
      BY <1>0, <1>1, <2>1
    <3>2. (r \o t)[p] = r[p] /\ (s \o t)[p + k] = s[p + k]
      BY <3>1, Concat
    <3>3. QED
      BY <1>0, <3>1, <3>2
  <2>2. CASE p > Len(r)
    <3>1. /\ p \in Len(r) + 1 .. Len(r) + Len(t) /\ p + k \in Len(s) + 1 .. Len(s) + Len(t)
          /\ p - Len(r) = (p + k) - Len(s)
      BY <1>0, <1>1, <2>2
    <3>2. (r \o t)[p] = t[p - Len(r)] /\ (s \o t)[p + k] = t[(p + k) - Len(s)]
      BY <3>1, Concat
    <3>3. QED
      <4>1. ASSUME NEW m, NEW n, m = n PROVE t[m] = t[n]
        BY <4>1
      <4>2. t[p - Len(r)] = t[(p + k) - Len(s)]
        BY <3>1, <4>1
      <4>3. QED
        BY <3>2, <4>2
  <2>3. p \in Int /\ Len(r) \in Int
    BY <1>1
  <2>4. p <= Len(r) \/ p > Len(r)
    BY <2>3
  <2>5. QED
    BY <2>1, <2>2, <2>4
<1>3. Len(r \o t) = Len(s \o t) - k
  BY <1>0, <1>1
<1>4. QED
  BY <1>1, <1>2, <1>3 DEF Dropped

\* The server completes the oldest command.
LEMMA OrderTakes ==
  ASSUME Good(idata), Peer, Calls, Order, Tight(idata), Reading, Moved("scan"),
         buf' \in Line, buf'.kind = "tagged", buf'.seq = server.input[1].seq,
         NEW k, k = IF server.idling THEN 2 ELSE 1, Len(server.input) >= k,
         server'.input \in Seq(Token), Dropped(server.input, server'.input, k),
         ~server'.idling,
         Good(idata'), Same(idata, idata'), idata'.cmdbuf = idata.cmdbuf
  PROVE Order' /\ Tight(Scan(idata', buf'))
<1>1. /\ ~Told /\ Now = idata /\ At("scan")' /\ ~At("read")'
      /\ ~Told' /\ Now' = Scan(idata', buf') /\ (top'.op # "check" => idata.cmdbuf = <<>>)
  BY ReadingTop
<1>2. \E done \in BOOLEAN : (done <=> server.idling) /\ LinedUp(idata, Queue, done)
  BY <1>1 DEF Order, Lined
<1>3. PICK done \in BOOLEAN : (done <=> server.idling) /\ LinedUp(idata, Queue, done)
  BY <1>2
<1>4. k = (IF done THEN 2 ELSE 1) /\ k \in {1, 2} /\ Len(server.input) \in Nat \ {0}
  BY <1>3, QueueType
<1>5. 1 \in 1 .. Len(server.input) /\ Len(Queue) \in Nat \ {0} /\ Queue[1] = server.input[1]
  <2>1. 1 \in 1 .. Len(server.input)
    BY <1>4
  <2>2. Queue[1] = server.input[1]
    BY <2>1, QueueType
  <2>3. ASSUME NEW m \in Nat \ {0}, NEW n \in Nat PROVE m + n \in Nat \ {0}
    OBVIOUS
  <2>4. Len(Queue) = Len(server.input) + Len(idata.cmdbuf) /\ Len(idata.cmdbuf) \in Nat
    BY QueueType
  <2>5. Len(Queue) \in Nat \ {0}
    BY <1>4, <2>3, <2>4
  <2>6. QED
    BY <2>1, <2>2, <2>5
<1>6. idata.lastcmd # idata.nextcmd /\ idata.cmds[idata.lastcmd].seq = buf'.seq
  BY <1>3, <1>5, LinedHead
<1>7. /\ idata'.lastcmd = idata.lastcmd /\ idata'.nextcmd = idata.nextcmd
      /\ idata'.cmds = idata.cmds /\ Tight(idata')
  BY TightSame DEF Same
<1> DEFINE e == Scan(idata', buf')
<1>8. /\ e.lastcmd = Succ(idata.lastcmd) /\ e.nextcmd = idata.nextcmd
      /\ \A s \in Slots : e.cmds[s].seq = idata.cmds[s].seq
      /\ Tight(e)
  BY <1>6, <1>7, ScanOldest
<1> HIDE DEF e
<1>9. Dropped(Queue, Queue', k)
  <2> DEFINE s == server.input
             t == idata.cmdbuf
             r == server'.input
  <2>1. s \in Seq(Token) /\ t \in Seq(Token) /\ r \in Seq(Token)
    BY QueueType
  <2>2. Queue = s \o t /\ Queue' = r \o t
    BY DEF Queue
  <2>3. Dropped(s, r, k)
    OBVIOUS
  <2>4. Len(s) >= k /\ k \in {1, 2}
    BY <1>4
  <2> HIDE DEF s, t, r
  <2>5. Dropped(s \o t, r \o t, k)
    BY <2>1, <2>3, <2>4, ConcatDrop
  <2>6. QED
    BY <2>2, <2>5
<1>10. LinedUp(e, Queue', FALSE)
  <2> DEFINE q == Queue
             r == Queue'
  <2>1. q \in Seq(Token)
    BY QueueType
  <2>2. LinedUp(idata, q, done)
    BY <1>3
  <2>3. Dropped(q, r, k)
    BY <1>9
  <2> HIDE DEF q, r
  <2>4. Good(idata) /\ k \in {1, 2}
    BY <1>4
  <2>5. ASSUME done PROVE LinedUp(e, r, FALSE)
    <3>1. LinedUp(idata, q, TRUE) /\ k = 2
      BY <1>4, <2>2, <2>5
    <3>2. QED
      BY <1>6, <1>8, <2>1, <2>3, <2>4, <3>1, LinedNext
  <2>6. ASSUME ~done PROVE LinedUp(e, r, FALSE)
    <3>1. LinedUp(idata, q, FALSE) /\ k = 1
      BY <1>4, <2>2, <2>6
    <3>2. QED
      BY <1>6, <1>8, <2>1, <2>3, <2>4, <3>1, LinedNext
  <2>7. LinedUp(e, r, FALSE)
    BY <2>5, <2>6 DEF r
  <2>8. QED
    BY <2>7 DEF r
<1>11. Lined(Now)'
  BY <1>1, <1>10 DEF Lined, e
<1>12. QED
  BY <1>1, <1>8, <1>11 DEF Order, e

\* The server says something else.
LEMMA OrderHears ==
  ASSUME Good(idata), Peer, Calls, Order, Tight(idata), Reading, Moved("scan"),
         buf' \in Line, buf'.kind \notin {"tagged", "+"},
         server'.input = server.input, server'.idling = server.idling,
         Good(idata'), Same(idata, idata'), idata'.cmdbuf = idata.cmdbuf
  PROVE Order' /\ Tight(Scan(idata', buf'))
<1>1. /\ ~Told /\ Now = idata /\ At("scan")' /\ ~At("read")'
      /\ ~Told' /\ Now' = Scan(idata', buf') /\ (top'.op # "check" => idata.cmdbuf = <<>>)
  BY ReadingTop
<1>2. Same(idata', Scan(idata', buf'))
  BY ScanPlain
<1>3. Same(idata, Scan(idata', buf')) /\ Queue' = Queue
  BY <1>2 DEF Same, Queue
<1>4. \A done \in BOOLEAN : LinedUp(idata, Queue, done) => LinedUp(Now', Queue', done)
  BY <1>1, <1>3 DEF LinedUp, Same
<1>5. Lined(Now)'
  BY <1>1, <1>4 DEF Lined, Order
<1>6. QED
  BY <1>1, <1>3, <1>5, TightSame DEF Order

\* The server says that it idles.
LEMMA OrderIdles ==
  ASSUME Good(idata), Peer, Calls, Order, Tight(idata), Reading, Moved("scan"),
         buf' \in Line, buf'.kind = "+", ~server.idling,
         server.input # <<>>, server.input[1].verb = "IDLE", Len(server.input) = 1,
         idata.cmdbuf = <<>>, server'.input = server.input, server'.idling,
         Good(idata'), Same(idata, idata'), idata'.cmdbuf = idata.cmdbuf
  PROVE Order' /\ Tight(Scan(idata', buf'))
<1>1. /\ ~Told /\ Now = idata /\ At("scan")' /\ ~At("read")'
      /\ Told' /\ Now' = Scan(idata', buf')
  BY ReadingTop
<1>2. Same(idata', Scan(idata', buf'))
  BY ScanPlain
<1>3. Same(idata, Scan(idata', buf')) /\ Queue' = Queue
  BY <1>2 DEF Same, Queue
<1>4. LinedUp(idata, Queue, FALSE) => LinedUp(Now', Queue', FALSE)
  BY <1>1, <1>3 DEF LinedUp, Same
<1>5. Lined(Now)'
  BY <1>1, <1>4 DEF Lined, Order
<1>6. QED
  BY <1>1, <1>3, <1>5, TightSame DEF Order

LEMMA RestDropped ==
  ASSUME Peer, NEW n \in {1, 2}, n <= Len(server.input), server' = Rest(n)
  PROVE /\ server'.input \in Seq(Token) /\ ~server'.idling
        /\ Dropped(server.input, server'.input, n)
<1> DEFINE in == server.input
           len == Len(in)
           new == SubSeq(in, n + 1, len)
<1>1. in \in Seq(Token) /\ len \in Nat /\ server \in [input : Seq(Token), idling : BOOLEAN, bye : BOOLEAN]
  BY DEF Peer
<1>2. server'.input = new /\ server'.idling = FALSE
  <2> DEFINE r == [server EXCEPT !.input = new]
  <2>1. r \in [input : {new}, idling : BOOLEAN, bye : BOOLEAN]
    BY <1>1
  <2>2. server' = [r EXCEPT !.idling = FALSE]
    BY DEF Rest
  <2> HIDE DEF r, new
  <2>3. QED
    BY <2>1, <2>2
<1>3. n \in Nat /\ len - n \in Nat /\ n \in 1 .. len
  BY <1>1
<1>4. \A j \in n + 1 .. len : in[j] \in Token
  BY <1>1, <1>3
<1>5. /\ Len(new) = IF n + 1 <= len THEN len - (n + 1) + 1 ELSE 0
      /\ \A j \in 1 .. len - (n + 1) + 1 : new[j] = in[n + 1 + j - 1]
      /\ new \in Seq(Token)
  BY <1>1, <1>3, <1>4, SubSeqProperties
<1>6. len - (n + 1) + 1 = len - n
  BY <1>1, <1>3
<1>7. Len(new) = len - n
  BY <1>1, <1>3, <1>5, <1>6
<1>8. ASSUME NEW j \in 1 .. len - n PROVE new[j] = in[j + n]
  <2>1. n + 1 + j - 1 = j + n
    BY <1>3
  <2>2. QED
    BY <1>5, <1>6, <2>1
<1> HIDE DEF new, len
<1>9. Dropped(in, new, n)
  BY <1>7, <1>8 DEF Dropped, len
<1>10. QED
  BY <1>2, <1>5, <1>9

LEMMA DropDropped ==
  ASSUME Peer, 1 <= Len(server.input), server' = Drop(1)
  PROVE /\ server'.input \in Seq(Token) /\ server'.idling = server.idling
        /\ Dropped(server.input, server'.input, 1)
<1> DEFINE in == server.input
           n == Len(in)
           new == [j \in 1 .. n - 1 |-> IF j < 1 THEN in[j] ELSE in[j + 1]]
<1>1. in \in Seq(Token) /\ n \in Nat /\ server \in [input : Seq(Token), idling : BOOLEAN, bye : BOOLEAN]
  BY DEF Peer
<1>2. server'.input = new /\ server'.idling = server.idling
  BY <1>1 DEF Drop
<1>3. n - 1 \in Nat
  BY <1>1
<1>4. /\ DOMAIN new = 1 .. n - 1
      /\ \A j \in 1 .. n - 1 : new[j] = in[j + 1]
  OBVIOUS
<1>5. new \in [1 .. n - 1 -> Token]
  BY <1>1, <1>3
<1> HIDE DEF new
<1>6. new \in Seq(Token)
  <2>1. PICK m \in Nat : m = n - 1
    BY <1>3
  <2>2. new \in [1 .. m -> Token]
    BY <1>5, <2>1
  <2>3. QED
    BY <2>1, <2>2, SeqDef
<1>7. Len(new) = n - 1
  BY <1>3, <1>4, <1>6
<1>8. Dropped(in, new, 1)
  BY <1>4, <1>7 DEF Dropped
<1>9. QED
  BY <1>2, <1>6, <1>8

\* A line is read: what it answers is taken from the head of the queue.
LEMMA OrderRead ==
  ASSUME InOrder = TRUE, NestedFetch = FALSE, Running, Order, Tight(idata),
         ReadAnswer \/ ReadUnsolicited, Alive', IInv'
  PROVE Order' /\ Tight(Scan(idata', buf'))
<1> DEFINE in == server.input
           head == IF in = <<>> THEN "NULL" ELSE in[1].verb
<1>1. PICK a \in Answers \cup Unsolicited :
        /\ Reading /\ server' = a[2] /\ buf' = a[1]
        /\ idata' = cmd_handle_untagged(idata, a[1])
        /\ \/ a[1].kind = "BYE"
           \/ stack' = [stack EXCEPT ![Len(stack)].pc = "scan"]
  BY DEF ReadAnswer, ReadUnsolicited, ReadLine
<1>2. a[1].kind \in {"untagged", "EXISTS", "FETCH", "tagged", "+"}
  BY <1>1, AnswerKeeps, UnsolicitedKeeps DEF Alive
<1>3. idata' \in {idata, [idata EXCEPT !.reopen = @ \cup {"NEWMAIL"}]}
  BY <1>1, <1>2 DEF cmd_handle_untagged
<1>4. Good(idata) /\ Peer /\ Calls
  BY DEF Running, IInv
<1>5. Same(idata, idata') /\ idata'.cmdbuf = idata.cmdbuf /\ Good(idata') /\ buf' \in Line
  BY <1>3, <1>4 DEF Good, IData, Same, IInv, Calls
<1>6. Moved("scan")
  BY <1>1, <1>2 DEF Moved
<1>7. /\ in \in Seq(Token) /\ Len(in) \in Nat
      /\ server \in [input : Seq(Token), idling : BOOLEAN, bye : BOOLEAN]
  BY <1>4 DEF Peer
<1>8. head # "NULL" => Len(in) >= 1 /\ 1 \in 1 .. Len(in) /\ head = in[1].verb
  BY <1>7 DEF Token
<1>9. server.idling => head = "IDLE"
  BY DEF Order
<1>10. CASE a \in Unsolicited
  <2>1. PICK k \in {"untagged", "EXISTS", "FETCH", "BYE"} :
          a = <<Plain(k), [server EXCEPT !.bye = (k = "BYE")]>>
    BY <1>10 DEF Unsolicited
  <2>2. buf'.kind \notin {"tagged", "+"}
    BY <1>1, <2>1, LineFields
  <2>3. server' = [server EXCEPT !.bye = (k = "BYE")]
    BY <1>1, <2>1
  <2>4. server'.input = in /\ server'.idling = server.idling
    BY <1>7, <2>3
  <2>5. QED
    BY <1>1, <1>4, <1>5, <1>6, <2>2, <2>4, OrderHears
<1>11. ASSUME a \in Answers PROVE Order' /\ Tight(Scan(idata', buf'))
  <2>1. CASE \E i \in 1 .. Len(in), c \in {"OK", "NO", "BAD"} :
               /\ \A j \in 1 .. i : in[j].verb = "CMD"
               /\ i = 1
               /\ a = <<Tagged(in[i].seq, c), Drop(i)>>
    <3>1. PICK c \in {"OK", "NO", "BAD"} : a = <<Tagged(in[1].seq, c), Drop(1)>>
      BY <2>1
    <3>2. 1 <= Len(in) /\ in[1].verb = "CMD" /\ in # <<>>
      BY <1>7, <2>1
    <3>3. server' = Drop(1) /\ buf'.kind = "tagged" /\ buf'.seq = in[1].seq
      BY <1>1, <3>1, LineFields
    <3>4. ~server.idling
      BY <1>9, <3>2
    <3>5. server'.input \in Seq(Token) /\ ~server'.idling /\ Dropped(in, server'.input, 1)
      BY <1>4, <3>2, <3>3, <3>4, DropDropped
    <3>6. 1 = (IF server.idling THEN 2 ELSE 1) /\ Len(in) >= 1
      BY <3>2, <3>4
    <3>7. QED
      BY <1>1, <1>4, <1>5, <1>6, <3>3, <3>5, <3>6, OrderTakes
  <2>2. CASE a = <<Plain("untagged"), server>>
    <3>1. buf'.kind \notin {"tagged", "+"} /\ server' = server
      BY <1>1, <2>2, LineFields
    <3>2. QED
      BY <1>1, <1>4, <1>5, <1>6, <3>1, OrderHears
  <2>3. CASE /\ head = "IDLE" /\ ~server.idling
             /\ a = <<Plain("+"), [server EXCEPT !.idling = TRUE]>>
    <3>1. buf'.kind = "+" /\ server' = [server EXCEPT !.idling = TRUE]
      BY <1>1, <2>3, LineFields
    <3>2. server'.input = in /\ server'.idling
      BY <1>7, <3>1
    <3>3. 1 \in Unstarted(server)
      BY <1>8, <2>3 DEF Unstarted
    <3>4. Len(in) = 1 /\ At("read")
      BY <1>1, <3>3, ReadUnstarted DEF In
    <3>5. idata.cmdbuf = <<>> /\ in # <<>> /\ in[1].verb = "IDLE"
      BY <1>8, <2>3, <3>4 DEF Order
    <3>6. QED
      BY <1>1, <1>4, <1>5, <1>6, <2>3, <3>1, <3>2, <3>4, <3>5, OrderIdles
  <2>4. CASE /\ head = "IDLE" /\ ~server.idling
             /\ \E c \in {"NO", "BAD"} : a = <<Tagged(in[1].seq, c), Rest(1)>>
    <3>1. server' = Rest(1) /\ buf'.kind = "tagged" /\ buf'.seq = in[1].seq
      BY <1>1, <2>4, LineFields
    <3>2. 1 <= Len(in) /\ 1 = (IF server.idling THEN 2 ELSE 1) /\ Len(in) >= 1
      BY <1>8, <2>4
    <3>3. server'.input \in Seq(Token) /\ ~server'.idling /\ Dropped(in, server'.input, 1)
      BY <1>4, <3>1, <3>2, RestDropped
    <3>4. QED
      BY <1>1, <1>4, <1>5, <1>6, <3>1, <3>2, <3>3, OrderTakes
  <2>5. CASE /\ head = "IDLE" /\ server.idling /\ Len(in) > 1
             /\ \E c \in {"OK", "BAD"} : a = <<Tagged(in[1].seq, c), Rest(2)>>
    <3>1. server' = Rest(2) /\ buf'.kind = "tagged" /\ buf'.seq = in[1].seq
      BY <1>1, <2>5, LineFields
    <3>2. 2 <= Len(in) /\ 2 = (IF server.idling THEN 2 ELSE 1) /\ Len(in) >= 2
      BY <1>7, <2>5
    <3>3. server'.input \in Seq(Token) /\ ~server'.idling /\ Dropped(in, server'.input, 2)
      BY <1>4, <3>1, <3>2, RestDropped
    <3>4. QED
      BY <1>1, <1>4, <1>5, <1>6, <3>1, <3>2, <3>3, OrderTakes
  <2>6. CASE head = "DONE" /\ a = <<Plain("untagged"), Rest(1)>>
    <3>1. ~Told /\ Now = idata
      BY <1>1, <1>4, <1>6, ReadingTop
    <3>2. LinedUp(idata, Queue, FALSE) /\ ~server.idling
      BY <1>9, <2>6, <3>1 DEF Order, Lined
    <3>3. Queue[1] = in[1] /\ Len(Queue) \in Nat \ {0}
      <4>1. 1 \in 1 .. Len(in) /\ Len(in) \in Nat \ {0}
        BY <1>7, <1>8, <2>6
      <4>2. ASSUME NEW m \in Nat \ {0}, NEW n \in Nat PROVE m + n \in Nat \ {0}
        OBVIOUS
      <4>3. Len(Queue) = Len(in) + Len(idata.cmdbuf) /\ Len(idata.cmdbuf) \in Nat
        BY <1>4, QueueType
      <4>4. QED
        BY <1>4, <4>1, <4>2, <4>3, QueueType
    <3>4. in[1].verb # "DONE"
      BY <1>4, <3>2, <3>3, LinedHead
    <3>5. QED
      BY <1>8, <2>6, <3>4
  <2>7. \/ \E i \in 1 .. Len(in), c \in {"OK", "NO", "BAD"} :
               /\ \A j \in 1 .. i : in[j].verb = "CMD"
               /\ i = 1
               /\ a = <<Tagged(in[i].seq, c), Drop(i)>>
        \/ a = <<Plain("untagged"), server>>
        \/ /\ head = "IDLE" /\ ~server.idling
           /\ \/ a = <<Plain("+"), [server EXCEPT !.idling = TRUE]>>
              \/ \E c \in {"NO", "BAD"} : a = <<Tagged(in[1].seq, c), Rest(1)>>
        \/ /\ head = "IDLE" /\ server.idling /\ Len(in) > 1
           /\ \E c \in {"OK", "BAD"} : a = <<Tagged(in[1].seq, c), Rest(2)>>
        \/ head = "DONE" /\ a = <<Plain("untagged"), Rest(1)>>
    BY <1>11, AnswerCases
  <2>8. QED
    BY <2>1, <2>2, <2>3, <2>4, <2>5, <2>6, <2>7
<1>12. QED
  BY <1>1, <1>10, <1>11

LEMMA LinedEqual ==
  ASSUME NEW d, NEW e, Same(d, e), NEW q
  PROVE \A done \in BOOLEAN : LinedUp(d, q, done) => LinedUp(e, q, done)
BY DEF Same, LinedUp

\* The + that answers IDLE is handed to the caller; nothing moves in the queue.
LEMMA OrderRespond ==
  ASSUME Running, Order, ScanRespond
  PROVE Order'
<1>1. /\ stack # <<>> /\ top.pc = "scan" /\ buf.kind = "+" /\ UNCHANGED <<idata, server, buf>>
      /\ stack' = Stepped("RESPOND") /\ At("scan")
  BY DEF ScanRespond, At, Step
<1>2. Calls /\ Good(idata)
  BY DEF Running, IInv
<1>3. stack' # <<>> /\ top'.pc = "done" /\ top'.rc = "RESPOND"
  BY <1>1, <1>2, SteppedTop
<1>4. Told /\ Told' /\ ~At("scan")' /\ ~At("read")'
  BY <1>1, <1>3 DEF Told, At
<1>5. Now = Scan(idata, buf) /\ Now' = idata' /\ idata' = idata /\ Queue' = Queue
  BY <1>1, <1>4 DEF Now, Queue
<1>6. Same(Now, idata)
  BY <1>1, <1>2, <1>5, ScanPlain DEF Same
<1>7. LinedUp(Now, Queue, FALSE)
  BY <1>4 DEF Order, Lined
<1>8. LinedUp(idata, Queue, FALSE)
  BY <1>6, <1>7, LinedEqual
<1>9. Lined(Now)'
  BY <1>4, <1>5, <1>8 DEF Lined
<1>10. QED
  BY <1>1, <1>4, <1>9 DEF Order

\* A command still runs, so it is in the ring, and the server has it.
LEMMA OrderContinue ==
  ASSUME Running, Order, ScanContinue
  PROVE Order'
<1>1. /\ stack # <<>> /\ top.pc = "scan" /\ buf.kind # "+" /\ UNCHANGED <<server, buf>>
      /\ stack' = Stepped("CONTINUE") /\ idata' = Scan(idata, buf) /\ At("scan")
      /\ ScanResult(idata, buf) = "CONTINUE"
  BY DEF ScanContinue, At, Step
<1>2. Calls /\ Good(idata) /\ buf \in Line /\ Peer
  BY DEF Running, IInv, Calls
<1>3. stack' # <<>> /\ top'.op = top.op /\ top'.pc = IF top.op = "check" THEN "poll" ELSE "read"
  BY <1>1, <1>2, SteppedTop
<1>4. ~Told /\ ~Told' /\ ~At("scan")'
  BY <1>1, <1>3 DEF Told, At
<1>5. idata'.cmdbuf = idata.cmdbuf /\ Good(idata')
  BY <1>1, <1>2, ScanStatus, ScanGood
<1>6. Now = idata' /\ Now' = idata' /\ Queue' = Queue
  BY <1>1, <1>4, <1>5 DEF Now, Queue
<1>7. Lined(Now)'
  BY <1>1, <1>4, <1>6 DEF Lined, Order
<1>8. At("read")' => idata.cmdbuf = <<>>
  BY <1>1, <1>3 DEF At, Order
<1>9. ASSUME At("read")' PROVE server.input # <<>>
  <2>1. StillRunning(idata, buf) # {}
    <3>1. buf.code \in {"OK", "NO", "BAD"}
      BY <1>2 DEF Line
    <3>2. QED
      BY <1>1, <3>1 DEF ScanResult
  <2>2. Waiting(idata') # {}
    BY <1>1, <1>2, <2>1, ScanWaiting
  <2>3. PICK s \in Slots : Distance(idata'.lastcmd, s) < Distance(idata'.lastcmd, idata'.nextcmd)
    BY <1>5, <2>2 DEF Good, RingOK, Window
  <2>4. idata'.lastcmd \in Slots /\ idata'.nextcmd \in Slots
    BY <1>5 DEF Good, IData
  <2>5. Distance(idata'.lastcmd, idata'.nextcmd) \in Nat \ {0}
    BY <2>3, <2>4, RingDistance, CmdSlotsAssumption
  <2>6. \E done \in BOOLEAN : LinedUp(idata', Queue, done)
    BY <1>6 DEF Order, Lined
  <2>7. Len(Queue) # 0
    BY <2>5, <2>6 DEF LinedUp
  <2>8. idata.cmdbuf = <<>>
    BY <1>8, <1>9
  <2>9. Queue = server.input \o <<>> /\ server.input \in Seq(Token)
    BY <1>2, <2>8, QueueType DEF Queue
  <2>10. <<>> \in Seq(Token) /\ Len(<<>>) = 0
    OBVIOUS
  <2>11. Queue = server.input
    BY <2>9, <2>10, Concat
  <2>12. QED
    BY <2>7, <2>11
<1>10. QED
  BY <1>1, <1>4, <1>5, <1>7, <1>8, <1>9 DEF Order

LEMMA OrderDrained ==
  ASSUME Running, Order, ScanDrained, Settles, idata'.fd
  PROVE Order'
<1>1. /\ stack # <<>> /\ top.pc = "scan" /\ buf.kind # "+" /\ UNCHANGED <<server, buf>>
      /\ idata' = imap_cmd_finish(Scan(idata, buf)) /\ At("scan")
  BY DEF ScanDrained, At
<1>2. Good(idata) /\ buf \in Line
  BY DEF Running, IInv, Calls
<1>3. ~Told /\ ~Told' /\ ~At("scan")' /\ ~At("read")'
  BY <1>1 DEF Told, At, Settles
<1>4. PICK d : d = Scan(idata, buf)
  OBVIOUS
<1>5. Good(d) /\ d.cmdbuf = idata.cmdbuf
  BY <1>2, <1>4, ScanGood, ScanStatus
<1>6. Same(d, idata') /\ idata'.cmdbuf = idata.cmdbuf
  <2>1. Leaves(d, idata')
    BY <1>1, <1>4, <1>5, LeavesFinish
  <2>2. QED
    BY <1>5, <2>1 DEF Leaves
<1>7. Now = d /\ Now' = idata' /\ Queue' = Queue
  BY <1>1, <1>3, <1>4, <1>6 DEF Now, Queue
<1>8. Lined(Now)'
  <2>1. \A done \in BOOLEAN : LinedUp(d, Queue, done) => LinedUp(idata', Queue, done)
    BY <1>6, LinedEqual
  <2>2. QED
    BY <1>1, <1>3, <1>7, <2>1 DEF Lined, Order
<1>9. QED
  BY <1>1, <1>3, <1>8 DEF Order

LEMMA OrderIdleDone ==
  ASSUME Running, Order, IdleDone, top.rc = "RESPOND"
  PROVE Order'
<1>1. /\ stack # <<>> /\ top.op = "idle" /\ top.pc = "done" /\ UNCHANGED server /\ Return("0")
      /\ idata' = [idata EXCEPT !.state = "IDLE",
                     !.cmdbuf = Append(@, [verb |-> "DONE", seq |-> 0])]
  BY DEF IdleDone, In, At
<1>2. Calls /\ Shaped(stack) /\ Good(idata) /\ Peer
  BY DEF Running, Safe, IInv
<1>3. Settles
  BY <1>1, <1>2, SettleReturn
<1>4. Told /\ ~At("scan") /\ ~Told' /\ ~At("scan")' /\ ~At("read")'
  BY <1>1, <1>3 DEF Told, At, Settles
<1>5. /\ server.idling /\ Len(server.input) = 1 /\ idata.cmdbuf = <<>>
      /\ server.input[1].verb = "IDLE" /\ server.input # <<>>
  BY <1>4 DEF Order
<1>6. /\ Same(idata, idata') /\ idata'.cmdbuf = Append(<<>>, [verb |-> "DONE", seq |-> 0])
  BY <1>1, <1>2, <1>5 DEF Good, IData, Same
<1>7. LinedUp(idata, Queue, FALSE)
  BY <1>4 DEF Order, Lined, Now
<1>8. Len(Queue) = 1 /\ Len(Queue') = 2 /\ Queue'[1] = Queue[1] /\ Queue'[2].verb = "DONE"
  <2> DEFINE x == [verb |-> "DONE", seq |-> 0]
  <2>1. x \in Token /\ server.input \in Seq(Token) /\ <<>> \in Seq(Token) /\ x.verb = "DONE"
    BY <1>2, QueueType DEF Token
  <2>2. Queue = server.input \o <<>> /\ Queue' = server.input \o Append(<<>>, x)
    BY <1>1, <1>5, <1>6 DEF Queue
  <2> HIDE DEF x
  <2>3. Queue = server.input
    BY <2>1, <2>2, Concat
  <2>4. /\ Len(Queue') = Len(Queue) + 1 /\ \A p \in 1 .. Len(Queue) : Queue'[p] = Queue[p]
        /\ Queue'[Len(Queue) + 1] = x
    BY <2>1, <2>2, ConcatAppend
  <2>5. Len(Queue) = 1
    BY <1>5, <2>3
  <2>6. QED
    BY <2>1, <2>4, <2>5
<1>9. LinedUp(idata', Queue', TRUE)
  <2> DEFINE q == Queue
             r == Queue'
  <2>1. LinedUp(idata, q, FALSE) /\ Len(q) = 1 /\ Len(r) = 2 /\ r[1] = q[1] /\ r[2].verb = "DONE"
    BY <1>7, <1>8
  <2> HIDE DEF q, r
  <2>2. LinedUp(idata', r, TRUE)
    BY <1>2, <1>6, <2>1, LinedDone
  <2>3. QED
    BY <2>2 DEF r
<1>10. Now' = idata'
  BY <1>4 DEF Now
<1>11. Lined(Now)'
  BY <1>1, <1>4, <1>5, <1>9, <1>10 DEF Lined
<1>12. QED
  BY <1>1, <1>4, <1>5, <1>11 DEF Order

\* A new connection starts with an empty ring, and nothing to be sent.
LEMMA OrderOpen ==
  ASSUME ReuseDirty = FALSE, IInv, Shut, Open, server' = NoServer, idata.state = "DISCONNECTED"
  PROVE Order'
<1>1. /\ stack = <<>> /\ idata.cmdbuf = <<>> /\ Good(idata)
      /\ idata' = [idata EXCEPT !.state = "CONNECTED", !.fd = TRUE]
      /\ stack' = <<Call("open", "read")>>
  BY DEF Open, TopLevel, Begin, IInv
<1>2. Fresh(idata) /\ idata.lastcmd = idata.nextcmd
  BY <1>1 DEF Shut, Undone, Fresh
<1>3. idata'.lastcmd = idata'.nextcmd /\ idata'.cmdbuf = <<>> /\ idata'.lastcmd \in Slots
  BY <1>1, <1>2 DEF Good, IData
<1>4. stack' # <<>> /\ top'.pc = "read" /\ top'.op = "open"
  BY <1>1 DEF top, Call
<1>5. ~Told' /\ ~At("scan")' /\ Now' = idata'
  BY <1>4 DEF Told, At, Now
<1>6. server'.input = <<>> /\ ~server'.idling
  BY DEF NoServer
<1>7. Queue' = <<>> \o <<>>
  BY <1>3, <1>6 DEF Queue
<1>8. Len(Queue') = 0
  BY <1>7
<1>9. LinedUp(idata', Queue', FALSE)
  BY <1>3, <1>8, LinedEmpty
<1>10. Lined(Now)'
  BY <1>5, <1>6, <1>9 DEF Lined
<1>11. QED
  BY <1>3, <1>4, <1>5, <1>6, <1>10 DEF Order, At

\* Only imap_cmd_step() goes on from where a line was read.
LEMMA AtScan ==
  ASSUME Next, At("scan")
  PROVE ScanRespond \/ ScanContinue \/ ScanDrained
<1>1. stack # <<>> /\ top.pc = "scan"
  BY DEF At
<1>2. ~CmdStart
  BY <1>1 DEF CmdStart, StartFatal, StartDrain, StartQueue, Drained, QueueOnly, NothingToWrite,
              Write, Sent, PollTimesOut, StartFailed, At
<1>3. ~CallDone
  BY <1>1 DEF CallDone, ExecDone, IdleDone, FetchDone, ReadHeadersDone, SelectAcl, SelectSend,
     SelectDone, SelectOpened, OpenDone, OpenCapability, OpenAuthenticated,
       OpenRecheck, OpenCompress, OpenEnable,
     OpenFlush, OpenOpened, LogoutDone, CloseDone, In, At
<1>4. ~Check
  BY <1>1 DEF Check, CheckIdle, CheckIdled, CheckPoll, CheckPolled, CheckNoop, CheckNooped,
              CheckFinish, CheckErrcleanup, In, At
<1>5. ~User
  BY <1>1 DEF User, TopLevel, Open, Select, SetContext, AllowReopen, DisallowReopen,
              DoExec, Flush, FetchMessage, CheckMailbox, CloseMailbox, Logout
<1>6. CmdStep
  BY <1>1, <1>2, <1>3, <1>4, <1>5 DEF Next, SelectGarbled, In, At
<1>7. QED
  BY <1>1, <1>6 DEF CmdStep, ReadFatal, ReadFails, ReadAnswer, ReadUnsolicited, ReadLine, Reading,
                    Finished, In, At

\* The call that was told "+" is imap_cmd_idle().
LEMMA AtTold ==
  ASSUME Running, Next, Told, ~At("scan")
  PROVE IdleDone /\ top.rc = "RESPOND"
<1>1. stack # <<>> /\ top.pc = "done" /\ top.rc = "RESPOND"
  BY DEF Told, At
<1>2. top.op = "idle"
  BY <1>1 DEF Running, Inner, Stage
<1>3. ~CmdStart /\ ~CmdStep
  BY <1>1 DEF CmdStart, StartFatal, StartDrain, StartQueue, Drained, QueueOnly, NothingToWrite,
              Write, PollTimesOut, StartFailed, At, CmdStep, ReadFatal, ReadFails, ReadAnswer,
              ReadUnsolicited, ReadLine, Reading, ScanRespond, ScanContinue, ScanDrained, Finished, In
<1>4. ~Check
  BY <1>1, <1>2 DEF Check, CheckIdle, CheckIdled, CheckPoll, CheckPolled, CheckNoop, CheckNooped,
              CheckFinish, CheckErrcleanup, In, At
<1>5. ~User
  BY <1>1 DEF User, TopLevel, Open, Select, SetContext, AllowReopen, DisallowReopen,
              DoExec, Flush, FetchMessage, CheckMailbox, CloseMailbox, Logout
<1>6. CallDone
  BY <1>1, <1>3, <1>4, <1>5 DEF Next, SelectGarbled, In, At
<1>7. QED
  BY <1>1, <1>2, <1>6 DEF CallDone, ExecDone, IdleDone, FetchDone, ReadHeadersDone, SelectAcl,
     SelectSend, SelectDone, SelectOpened, OpenDone, OpenCapability, OpenAuthenticated,
       OpenRecheck, OpenCompress, OpenEnable,
     OpenFlush, OpenOpened, LogoutDone, CloseDone, In, At

\* The open connection is asked to log in again.
LEMMA OpenAgain ==
  ASSUME Open, ~(server' = NoServer /\ idata.state = "DISCONNECTED")
  PROVE Settles /\ UNCHANGED <<idata, server>>
<1>1. /\ UNCHANGED <<idata, server>>
      /\ stack' = <<Call("open", "auth"), Exec("CMD", FALSE, TRUE)>>
  BY DEF Open
<1>2. top' = Exec("CMD", FALSE, TRUE)
  BY <1>1 DEF top
<1>3. top'.pc = "start"
  BY <1>2, StartPcs
<1>4. QED
  BY <1>1, <1>3 DEF Settles

\* Every step of a live connection keeps the order.
LEMMA OrderStep ==
  ASSUME InOrder = TRUE, NestedFetch = FALSE, ReuseDirty = FALSE, Running, Shut, Order,
         Tight(idata), Next, IInv', Alive'
  PROVE Order'
<1>1. IInv /\ Safe /\ Good(idata) /\ Peer /\ Calls
  BY DEF Running, IInv
<1>2. idata'.fd /\ ~server'.bye
  BY DEF Alive, Linked
<1>3. CASE At("scan")
  <2>1. CASE ScanDrained
    <3>1. stack # <<>> /\ top.pc = "scan" /\ buf.kind # "+" /\ ScanResult(idata, buf) # "CONTINUE"
      BY <2>1 DEF ScanDrained, At
    <3>2. ~ScanRespond /\ ~ScanContinue /\ ~ReadAnswer /\ ~ReadUnsolicited
      BY <3>1 DEF ScanRespond, ScanContinue, ReadAnswer, ReadUnsolicited, ReadLine, Reading, In, At
    <3>3. Settles
      BY <1>1, <2>1, <3>2, TopStep DEF CmdStep
    <3>4. QED
      BY <1>2, <2>1, <3>3, OrderDrained
  <2>2. QED
    BY <1>3, <2>1, AtScan, OrderRespond, OrderContinue
<1>4. CASE ~At("scan") /\ Told
  BY <1>4, AtTold, OrderIdleDone
<1>5. CASE Open
  <2>1. CASE server' = NoServer /\ idata.state = "DISCONNECTED"
    BY <1>1, <1>5, <2>1, OrderOpen
  <2>2. CASE ~(server' = NoServer /\ idata.state = "DISCONNECTED")
    <3>1. Settles /\ UNCHANGED <<idata, server>>
      BY <1>5, <2>2, OpenAgain
    <3>2. ~At("scan") /\ ~Told
      BY <1>5 DEF Open, TopLevel, At, Told
    <3>3. QED
      BY <3>1, <3>2, OrderQuiet DEF Same
  <2>3. QED
    BY <2>1, <2>2
<1>6. CASE ~At("scan") /\ ~Told /\ ~Open
  <2>1. CASE Write
    BY <1>1, <1>2, <2>1, OrderWrite
  <2>2. CASE ReadAnswer \/ ReadUnsolicited
    BY <2>2, OrderRead
  <2>3. CASE ~Write /\ ~ReadAnswer /\ ~ReadUnsolicited
    <3>1. ~StartFailed
      BY DEF StartFailed, Running, Inner, Stage, At
    <3>2. ~ScanRespond /\ ~ScanContinue /\ ~ScanDrained
      BY <1>6 DEF ScanRespond, ScanContinue, ScanDrained
    <3>3. Settles
      BY <1>1, <1>6, <2>3, <3>1, <3>2, TopSteps
    <3>4. ~LogoutDone
      BY <1>2 DEF LogoutDone, imap_new_idata
    <3>5. ~(IdleDone /\ top.rc = "RESPOND")
      BY <1>6 DEF IdleDone, In, At, Told
    <3>6. CASE UNCHANGED server /\ Leaves(idata, idata')
      BY <1>2, <1>6, <3>3, <3>6, OrderQuiet DEF Leaves
    <3>7. CASE Adds
      <4>1. top.verb \in {"CMD", "IDLE"}
        <5>1. top \in Frame /\ top.verb # "NULL"
          BY <1>1, <3>7, TopFrame DEF Adds, FrameOK
        <5>2. QED
          BY <5>1 DEF Frame
      <4>2. QED
        BY <1>1, <1>6, <3>3, <3>7, <4>1, OrderNew
    <3>8. ~PollTimesOut
      BY <1>1, TimedOut
    <3>9. QED
      BY <1>1, <1>6, <2>3, <3>2, <3>4, <3>5, <3>6, <3>7, <3>8, RingSteps
  <2>4. QED
    BY <2>1, <2>2, <2>3
<1>7. QED
  BY <1>3, <1>4, <1>5, <1>6
------------------------------------------------------------------------------
(* Told is known of a live connection only.                                  *)

\* An answer leaves the connection as it was.
LEMMA AnswerAlive ==
  ASSUME Peer, NEW a \in Answers
  PROVE /\ a[1].kind \in {"tagged", "untagged", "+"}
        /\ a[2].bye = server.bye
<1>1. server \in [input : Seq(Token), idling : BOOLEAN, bye : BOOLEAN]
  BY DEF Peer
<1>2. /\ \A i : Drop(i).bye = server.bye
      /\ [server EXCEPT !.idling = TRUE].bye = server.bye
      /\ \A n : Rest(n).bye = server.bye
  BY <1>1 DEF Drop, Rest
<1> DEFINE in == server.input
           head == IF in = <<>> THEN "NULL" ELSE in[1].verb
<1>3. \/ \E i, s, c : a = <<Tagged(s, c), Drop(i)>>
      \/ a = <<Plain("untagged"), server>>
      \/ a = <<Plain("+"), [server EXCEPT !.idling = TRUE]>>
      \/ \E n, s, c : a = <<Tagged(s, c), Rest(n)>>
      \/ a = <<Plain("untagged"), Rest(1)>>
  <2>1. \/ \E i \in 1 .. Len(in), c \in {"OK", "NO", "BAD"} : a = <<Tagged(in[i].seq, c), Drop(i)>>
        \/ a = <<Plain("untagged"), server>>
        \/ a = <<Plain("+"), [server EXCEPT !.idling = TRUE]>>
        \/ \E c \in {"NO", "BAD"} : a = <<Tagged(in[1].seq, c), Rest(1)>>
        \/ \E c \in {"OK", "BAD"} : a = <<Tagged(in[1].seq, c), Rest(2)>>
        \/ a = <<Plain("untagged"), Rest(1)>>
    BY AnswerCases
  <2>2. QED
    BY <2>1
<1>5. CASE \E i, s, c : a = <<Tagged(s, c), Drop(i)>>
  <2>1. PICK i, s, c : a = <<Tagged(s, c), Drop(i)>>
    BY <1>5
  <2>2. a[1] = Tagged(s, c) /\ a[2] = Drop(i)
    BY <2>1
  <2>3. QED
    BY <1>2, <2>2, LineFields
<1>6. CASE \E n, s, c : a = <<Tagged(s, c), Rest(n)>>
  <2>1. PICK n, s, c : a = <<Tagged(s, c), Rest(n)>>
    BY <1>6
  <2>2. a[1] = Tagged(s, c) /\ a[2] = Rest(n)
    BY <2>1
  <2>3. QED
    BY <1>2, <2>2, LineFields
<1>7. CASE \/ a = <<Plain("untagged"), server>>
           \/ a = <<Plain("+"), [server EXCEPT !.idling = TRUE]>>
           \/ a = <<Plain("untagged"), Rest(1)>>
  <2>1. /\ a[1] \in {Plain("untagged"), Plain("+")}
        /\ a[2] \in {server, [server EXCEPT !.idling = TRUE], Rest(1)}
    BY <1>7
  <2>2. QED
    BY <1>2, <2>1, LineFields
<1>8. QED
  BY <1>3, <1>5, <1>6, <1>7

LEMMA ReadAlive ==
  ASSUME IInv, ReadAnswer \/ ReadUnsolicited, buf'.kind \in {"tagged", "+"}
  PROVE Alive /\ Alive' /\ idata' = idata
<1>1. PICK a \in Answers \cup Unsolicited :
        /\ idata.fd /\ ~server.bye /\ server' = a[2] /\ buf' = a[1]
        /\ idata' = cmd_handle_untagged(idata, a[1]) /\ idata.status # "FATAL"
  BY DEF ReadAnswer, ReadUnsolicited, ReadLine
<1>2. idata' = idata
  BY <1>1 DEF cmd_handle_untagged
<1>3. a \in Answers
  <2>1. ASSUME a \in Unsolicited PROVE FALSE
    <3>1. PICK k \in {"untagged", "EXISTS", "FETCH", "BYE"} :
            a = <<Plain(k), [server EXCEPT !.bye = (k = "BYE")]>>
      BY <2>1 DEF Unsolicited
    <3>2. QED
      BY <1>1, <3>1, LineFields
  <2>2. QED
    BY <2>1
<1>4. server'.bye = server.bye
  BY <1>1, <1>3, AnswerAlive DEF IInv
<1>5. QED
  BY <1>1, <1>2, <1>4 DEF Alive, Linked

\* Where the steps that do not settle leave the innermost call.
LEMMA OtherTops ==
  ASSUME IInv, Safe, Write \/ StartFailed \/ ScanContinue \/ (Open /\ server' = NoServer)
  PROVE ~Told' /\ ~At("scan")'
<1>1. Calls /\ Shaped(stack)
  BY DEF IInv, Safe
<1>2. ASSUME stack # <<>>, NEW p \in {"read", "failed"}, Goto(p) PROVE ~Told' /\ ~At("scan")'
  <2>1. stack' # <<>> /\ top'.pc = p
    BY <1>1, <1>2, GotoTop DEF Goto
  <2>2. QED
    BY <2>1 DEF Told, At
<1>3. CASE Write
  BY <1>2, <1>3 DEF Write, Sent, At
<1>4. CASE StartFailed
  <2>1. stack # <<>>
    BY <1>4 DEF StartFailed, At
  <2>2. CASE Return("-1")
    BY <1>1, <2>1, <2>2, SettleReturn DEF Settles, Told, At
  <2>3. QED
    BY <1>2, <1>4, <2>1, <2>2 DEF StartFailed
<1>5. CASE ScanContinue
  <2>1. stack # <<>> /\ stack' = Stepped("CONTINUE")
    BY <1>5 DEF ScanContinue, At, Step
  <2>2. stack' # <<>> /\ top'.pc = IF top.op = "check" THEN "poll" ELSE "read"
    BY <1>1, <2>1, SteppedTop
  <2>3. QED
    BY <2>2 DEF Told, At
<1>6. CASE Open /\ server' = NoServer
  <2>1. stack' = <<Call("open", "read")>> \/ stack' = <<Call("open", "auth"), Exec("CMD", FALSE, TRUE)>>
    BY <1>6 DEF Open, Begin
  <2>2. top'.pc \in {"read", "start"} /\ stack' # <<>>
    <3>1. CASE stack' = <<Call("open", "read")>>
      BY <3>1 DEF top, Call
    <3>2. CASE stack' = <<Call("open", "auth"), Exec("CMD", FALSE, TRUE)>>
      BY <3>2, StartPcs DEF top
    <3>3. QED
      BY <2>1, <3>1, <3>2
  <2>3. QED
    BY <2>2 DEF Told, At
<1>7. QED
  BY <1>3, <1>4, <1>5, <1>6

\* A step that makes Told hold leaves the connection alive.
LEMMA ToldStep ==
  ASSUME IInv, Safe, NestedFetch = FALSE, Next, Told => Alive, Told'
  PROVE Alive'
<1>1. ~Settles
  BY DEF Settles, Told
<1>2. ~(Write \/ StartFailed \/ ScanContinue \/ (Open /\ server' = NoServer))
  BY OtherTops
<1>3. CASE ScanRespond
  <2>1. Told /\ UNCHANGED <<idata, server>>
    BY <1>3 DEF ScanRespond, Told, At
  <2>2. QED
    BY <2>1 DEF Alive, Linked
<1>4. CASE (ReadAnswer \/ ReadUnsolicited) /\ Moved("scan")
  <2>1. stack # <<>> /\ Calls
    BY <1>4 DEF ReadAnswer, ReadUnsolicited, ReadLine, Reading, In, At, IInv
  <2>2. stack' # <<>> /\ top'.pc = "scan"
    BY <1>4, <2>1, GotoTop DEF Moved
  <2>3. buf'.kind = "+"
    BY <2>2 DEF Told
  <2>4. QED
    BY <1>4, <2>3, ReadAlive
<1>5. QED
  BY <1>1, <1>2, <1>3, <1>4, TopSteps
------------------------------------------------------------------------------
(* The ring stays tight, also where a line that was read is not yet looked   *)
(* at.                                                                       *)

Tightly == Tight(idata) /\ (At("scan") => Tight(Scan(idata, buf)))

LEMMA TightEmpty ==
  ASSUME NEW d, d.nextcmd = 0, d.lastcmd = 0
  PROVE Tight(d)
<1>1. 0 \in Slots
  BY CmdSlotsAssumption DEF Slots
<1>2. Distance(0, 0) = 0 /\ \A i \in Slots : Distance(0, i) \in 0 .. CmdSlots - 1
  BY <1>1, RingDistance
<1>3. Window(d) = {}
  BY <1>2, CmdSlotsAssumption DEF Window
<1>4. QED
  BY <1>3 DEF Tight

LEMMA TightNow ==
  ASSUME IInv, Tightly, Next
  PROVE Tight(idata')
<1>1. Good(idata)
  BY DEF IInv
<1>2. CASE Same(idata, idata')
  BY <1>2, TightSame DEF Tightly
<1>3. CASE idata'.nextcmd = 0 /\ idata'.lastcmd = 0
  BY <1>3, TightEmpty
<1>4. CASE Adds
  BY <1>1, <1>4, TightNew DEF Adds, Tightly
<1>5. CASE At("scan") /\ Same(Scan(idata, buf), idata')
  BY <1>5, TightSame DEF Tightly
<1>6. QED
  BY <1>2, <1>3, <1>4, <1>5, RingAfter

\* Every step keeps the ring tight.
LEMMA TightStep ==
  ASSUME InOrder = TRUE, NestedFetch = FALSE, ReuseDirty = FALSE, Draining,
         Tightly, Alive => Order, Next, IInv'
  PROVE Tightly'
<1>1. IInv /\ Safe /\ Calls
  BY DEF Draining, IInv
<1>2. Tight(idata')
  BY <1>1, TightNow
<1>3. ASSUME At("scan")' PROVE Tight(Scan(idata', buf'))
  <2>1. ~Settles
    BY <1>3 DEF Settles, At
  <2>2. ~(Write \/ StartFailed \/ ScanContinue \/ (Open /\ server' = NoServer))
    BY <1>1, <1>3, OtherTops
  <2>3. ~ScanRespond
    <3>1. ASSUME ScanRespond PROVE FALSE
      <4>1. stack # <<>> /\ stack' = Stepped("RESPOND")
        BY <3>1 DEF ScanRespond, At, Step
      <4>2. top'.pc = "done"
        BY <1>1, <4>1, SteppedTop
      <4>3. QED
        BY <1>3, <4>2 DEF At
    <3>2. QED
      BY <3>1
  <2>4. ReadAnswer \/ ReadUnsolicited
    BY <1>1, <2>1, <2>2, <2>3, TopSteps
  <2>5. Good(idata')
    BY DEF IInv
  <2>6. CASE buf'.kind = "tagged"
    <3>1. Alive /\ Alive'
      BY <1>1, <2>4, <2>6, ReadAlive
    <3>2. Running /\ Order
      BY <3>1 DEF Draining, Running
    <3>3. QED
      BY <2>4, <3>1, <3>2, OrderRead DEF Tightly
  <2>7. CASE buf'.kind # "tagged"
    BY <1>2, <2>5, <2>7, ScanPlain, TightSame
  <2>8. QED
    BY <2>6, <2>7
<1>4. QED
  BY <1>2, <1>3 DEF Tightly
------------------------------------------------------------------------------
(* DONE comes after its IDLE.                                                *)

Ends(q) == \A i \in 1 .. Len(q) :
             q[i].verb = "DONE" => \E j \in 1 .. i - 1 : q[j].verb = "IDLE"

\* What is in the buffer too, while it can still be written.
Ended == (idata.fd => Ends(Queue)) /\ DoneEndsIdle

LEMMA EndsPrefix ==
  ASSUME NEW s \in Seq(Token), NEW t \in Seq(Token), Ends(s \o t)
  PROVE Ends(s)
<1>1. /\ Len(s) \in Nat /\ Len(t) \in Nat /\ Len(s \o t) = Len(s) + Len(t)
      /\ \A p \in 1 .. Len(s) : (s \o t)[p] = s[p]
  BY Concat
<1>2. ASSUME NEW i \in 1 .. Len(s), s[i].verb = "DONE"
      PROVE \E j \in 1 .. i - 1 : s[j].verb = "IDLE"
  <2>1. i \in 1 .. Len(s \o t) /\ (s \o t)[i].verb = "DONE"
    BY <1>1, <1>2
  <2>2. PICK j \in 1 .. i - 1 : (s \o t)[j].verb = "IDLE"
    BY <2>1 DEF Ends
  <2>3. j \in 1 .. Len(s)
    BY <1>1
  <2>4. QED
    BY <1>1, <2>2, <2>3
<1>3. QED
  BY <1>2 DEF Ends

LEMMA EndsAppend ==
  ASSUME NEW s \in Seq(Token), NEW t \in Seq(Token), NEW x \in Token, x.verb # "DONE", Ends(s \o t)
  PROVE Ends(s \o Append(t, x))
<1> DEFINE q == s \o t
           r == s \o Append(t, x)
<1>1. /\ Len(r) = Len(q) + 1 /\ r[Len(q) + 1] = x
      /\ \A p \in 1 .. Len(q) : r[p] = q[p]
  BY ConcatAppend
<1>2. Len(q) \in Nat /\ Ends(q)
  BY Concat
<1> HIDE DEF q, r
<1>3. ASSUME NEW i \in 1 .. Len(r), r[i].verb = "DONE"
      PROVE \E j \in 1 .. i - 1 : r[j].verb = "IDLE"
  <2>1. i \in 1 .. Len(q) /\ q[i].verb = "DONE"
    BY <1>1, <1>2, <1>3
  <2>2. PICK j \in 1 .. i - 1 : q[j].verb = "IDLE"
    BY <1>2, <2>1 DEF Ends
  <2>3. j \in 1 .. Len(q)
    BY <1>2, <2>1
  <2>4. QED
    BY <1>1, <2>2, <2>3
<1>4. QED
  BY <1>3 DEF Ends, r

LEMMA EndsOrder == Good(idata) /\ Peer /\ Order => Ends(Queue) /\ DoneEndsIdle
<1> SUFFICES ASSUME Good(idata), Peer, Order PROVE Ends(Queue) /\ DoneEndsIdle
  OBVIOUS
<1>1. PICK done \in BOOLEAN : (done => server.idling) /\ LinedUp(Now, Queue, done)
  BY DEF Order, Lined
<1>2. ASSUME NEW i \in 1 .. Len(Queue), Queue[i].verb = "DONE"
      PROVE \E j \in 1 .. i - 1 : Queue[j].verb = "IDLE"
  <2>1. done /\ i = 2
    BY <1>1, <1>2 DEF LinedUp
  <2>2. server.input # <<>> /\ server.input[1].verb = "IDLE"
    BY <1>1, <2>1 DEF Order
  <2>3. 1 \in 1 .. Len(server.input)
    BY <2>2, QueueType
  <2>4. Queue[1].verb = "IDLE"
    BY <2>2, <2>3, QueueType
  <2>5. QED
    BY <2>1, <2>4
<1>3. Ends(Queue)
  BY <1>2 DEF Ends
<1>4. Ends(server.input)
  BY <1>3, QueueType, EndsPrefix DEF Queue
<1>5. QED
  BY <1>3, <1>4 DEF Ends, DoneEndsIdle

LEMMA EndedSame ==
  ASSUME Ended, UNCHANGED server, idata'.fd => idata.fd, idata'.cmdbuf = idata.cmdbuf
  PROVE Ended'
<1>1. Queue' = Queue
  BY DEF Queue
<1>2. (idata.fd => Ends(Queue)) /\ DoneEndsIdle
  BY DEF Ended
<1>3. DoneEndsIdle'
  BY <1>2 DEF DoneEndsIdle
<1>4. idata'.fd => Ends(Queue')
  BY <1>1, <1>2
<1>5. QED
  BY <1>3, <1>4 DEF Ended

\* Every step keeps DONE after its IDLE.
LEMMA EndedStep ==
  ASSUME Draining, Ended, Told => Alive, Next, IInv', Alive' => Order'
  PROVE Ended'
<1>1. IInv /\ Good(idata) /\ buf \in Line /\ Peer /\ Good(idata') /\ Peer'
  BY DEF Draining, IInv, Calls
<1>2. CASE Alive'
  <2>1. Order'
    BY <1>2
  <2>2. (Good(idata) /\ Peer /\ Order => Ends(Queue) /\ DoneEndsIdle)'
    BY EndsOrder, PTL
  <2>3. QED
    BY <1>1, <2>1, <2>2 DEF Ended
<1>3. CASE ~Alive'
  <2>1. CASE UNCHANGED server /\ Leaves(idata, idata')
    <3>1. idata'.cmdbuf = idata.cmdbuf /\ (idata'.fd => idata.fd)
      BY <2>1 DEF Leaves
    <3>2. QED
      BY <2>1, <3>1, EndedSame
  <2>2. CASE Adds
    <3> DEFINE x == [verb |-> top.verb, seq |-> idata.seqno]
    <3>1. /\ idata'.cmdbuf = Append(idata.cmdbuf, x) /\ UNCHANGED server /\ idata'.fd = idata.fd
      BY <1>1, <2>2 DEF Adds, cmd_new, Good, IData
    <3>2. x \in Token /\ x.verb # "DONE"
      <4>1. top.verb \in {"CMD", "IDLE"}
        <5>1. top \in Frame /\ top.verb # "NULL"
          BY <1>1, <2>2, TopFrame DEF Adds, FrameOK, IInv
        <5>2. QED
          BY <5>1 DEF Frame
      <4>2. idata.seqno \in Tags
        BY <1>1 DEF Good, IData
      <4>3. QED
        BY <4>1, <4>2 DEF Token
    <3> HIDE DEF x
    <3>3. Queue' = server.input \o Append(idata.cmdbuf, x)
      BY <3>1 DEF Queue
    <3>4. idata.fd => Ends(Queue')
      BY <1>1, <3>2, <3>3, QueueType, EndsAppend DEF Ended, Queue
    <3>5. DoneEndsIdle'
      BY <3>1 DEF Ended, DoneEndsIdle
    <3>6. QED
      BY <3>1, <3>4, <3>5 DEF Ended
  <2>3. CASE Write \/ PollTimesOut
    <3>1. \/ /\ idata.fd /\ idata' \in {Sent(idata), cmd_handle_fatal(Sent(idata))}
             /\ server' = [server EXCEPT !.input = @ \o idata.cmdbuf]
          \/ idata' = [Sent(idata) EXCEPT !.fd = FALSE] /\ UNCHANGED server
      BY <2>3 DEF Write, PollTimesOut
    <3>2. CASE idata' = [Sent(idata) EXCEPT !.fd = FALSE] /\ UNCHANGED server
      <4>1. idata'.fd = FALSE
        BY <1>1, <3>2, SentGood DEF Good, IData
      <4>2. QED
        BY <3>2, <4>1 DEF Ended, DoneEndsIdle
    <3>3. CASE /\ idata.fd /\ idata' \in {Sent(idata), cmd_handle_fatal(Sent(idata))}
               /\ server' = [server EXCEPT !.input = @ \o idata.cmdbuf]
      <4>0. Sent(idata).cmdbuf = <<>> /\ Good(Sent(idata))
        BY <1>1, SentGood DEF Sent, Good, IData
      <4>1. idata'.cmdbuf = <<>> /\ server'.input = Queue
        <5>1. cmd_handle_fatal(Sent(idata)).cmdbuf = Sent(idata).cmdbuf
          BY <4>0, LeavesFatal DEF Leaves
        <5>2. server'.input = Queue
          BY <1>1, <3>3 DEF Peer, Queue
        <5>3. QED
          BY <3>3, <4>0, <5>1, <5>2
      <4>2. Queue \in Seq(Token) /\ <<>> \in Seq(Token)
        BY <1>1, QueueType
      <4>3. Queue' = Queue
        BY <4>1, <4>2, Concat DEF Queue
      <4>4. Ends(Queue)
        BY <3>3 DEF Ended
      <4>5. Ends(server'.input)
        BY <4>1, <4>4
      <4>6. QED
        BY <4>3, <4>4, <4>5 DEF Ended, DoneEndsIdle, Ends
    <3>4. QED
      BY <3>1, <3>2, <3>3
  <2>4. CASE ReadAnswer \/ ReadUnsolicited
    <3>1. buf'.kind \notin {"tagged", "+"}
      BY <1>1, <1>3, <2>4, ReadAlive
    <3>2. PICK a \in Answers \cup Unsolicited :
            /\ idata.fd /\ ~server.bye /\ server' = a[2] /\ buf' = a[1]
            /\ idata' = cmd_handle_untagged(idata, a[1]) /\ idata.status # "FATAL"
      BY <2>4 DEF ReadAnswer, ReadUnsolicited, ReadLine
    <3>3. a \in Unsolicited
      <4>1. ASSUME a \in Answers PROVE FALSE
        <5>1. a[1].kind \in {"tagged", "untagged", "+"} /\ a[2].bye = server.bye
          BY <1>1, <4>1, AnswerAlive
        <5>2. idata' = idata
          BY <3>2, <5>1 DEF cmd_handle_untagged
        <5>3. QED
          BY <1>3, <3>2, <5>1, <5>2 DEF Alive, Linked
      <4>2. QED
        BY <3>2, <4>1
    <3>4. PICK k \in {"untagged", "EXISTS", "FETCH", "BYE"} :
            a = <<Plain(k), [server EXCEPT !.bye = (k = "BYE")]>>
      BY <3>3 DEF Unsolicited
    <3>5. server' = [server EXCEPT !.bye = (k = "BYE")]
      BY <3>2, <3>4
    <3>6. server'.input = server.input
      BY <1>1, <3>5 DEF Peer
    <3>8. Leaves(idata, idata')
      BY <1>1, <3>2, LeavesUntagged
    <3>9. QED
      BY <3>6, <3>8 DEF Ended, Queue, DoneEndsIdle, Leaves
  <2>5. CASE Scans
    <3>1. Scan(idata, buf).cmdbuf = idata.cmdbuf /\ Scan(idata, buf).fd = idata.fd
      BY <1>1, ScanStatus
    <3>2. QED
      BY <2>5, <3>1, EndedSame DEF Scans, Leaves
  <2>6. CASE IdleDone /\ top.rc = "RESPOND"
    <3>1. /\ Told /\ UNCHANGED server /\ idata'.fd = idata.fd
          /\ idata'.status = idata.status
      BY <1>1, <2>6 DEF IdleDone, In, At, Told, Good, IData
    <3>2. QED
      BY <1>3, <3>1 DEF Alive, Linked
  <2>7. CASE LogoutDone
    <3>1. ~idata'.fd /\ server'.input = <<>>
      BY <2>7 DEF LogoutDone, imap_new_idata, NoServer
    <3>2. QED
      BY <3>1 DEF Ended, DoneEndsIdle
  <2>8. CASE Open
    <3>1. CASE server' = NoServer /\ idata.state = "DISCONNECTED"
      <4>1. idata'.fd /\ ~server'.bye /\ idata'.status # "FATAL"
        BY <1>1, <2>8, <3>1 DEF Open, NoServer, Good, IData
      <4>2. QED
        BY <1>3, <4>1 DEF Alive, Linked
    <3>2. CASE ~(server' = NoServer /\ idata.state = "DISCONNECTED")
      <4>1. UNCHANGED <<idata, server>>
        BY <2>8, <3>2, OpenAgain
      <4>2. QED
        BY <4>1, EndedSame
    <3>3. QED
      BY <3>1, <3>2
  <2>9. QED
    BY <1>1, <2>1, <2>2, <2>3, <2>4, <2>5, <2>6, <2>7, <2>8, RingSteps
<1>4. QED
  BY <1>2, <1>3
------------------------------------------------------------------------------
(* With a server that answers in order, the two sides agree.                 *)

Ordered == /\ Draining /\ Shut /\ Tightly /\ Ended
           /\ Told => Alive
           /\ Alive => Order

\* The invariant of a server that answers in order.
LEMMA OrderedInductive ==
  InOrder = TRUE /\ Plainly => (Spec => []Ordered)
<1> SUFFICES ASSUME InOrder = TRUE, Plainly PROVE Spec => []Ordered
  OBVIOUS
<1>0. NestedFetch = FALSE /\ ReuseDirty = FALSE
  BY DEF Plainly
<1> DEFINE Agreed == Shut /\ Tightly /\ Ended /\ (Told => Alive) /\ (Alive => Order)
<1>1. Init => Agreed
  <2>1. SUFFICES ASSUME Init PROVE Agreed
    OBVIOUS
  <2>2. /\ stack = <<>> /\ ~idata.fd /\ server.input = <<>>
        /\ idata.nextcmd = 0 /\ idata.lastcmd = 0
    BY <2>1 DEF Init, imap_new_idata, NoServer
  <2>3. Shut
    BY <2>1, ShutInit
  <2>4. Tightly
    BY <2>2, TightEmpty DEF Tightly, At
  <2>5. Ended
    BY <2>2 DEF Ended, DoneEndsIdle
  <2>6. ~Told /\ ~Alive
    BY <2>2 DEF Told, Alive, Linked
  <2>7. QED
    BY <2>3, <2>4, <2>5, <2>6
<1>2. Draining /\ Draining' /\ Agreed /\ [Next]_vars => Agreed'
  <2>1. ASSUME Draining, Agreed, UNCHANGED vars PROVE Agreed'
    <3>1. UNCHANGED <<idata, buf, stack, server>>
      BY <2>1 DEF vars
    <3>2. Shut'
      BY <2>1, <3>1 DEF Shut, Opening, Early, Undone, top
    <3>3. Tightly' /\ Ended'
      BY <2>1, <3>1 DEF Tightly, Ended, DoneEndsIdle, Queue, At, top
    <3>4. Told' = Told /\ Alive' = Alive
      BY <3>1 DEF Told, Alive, Linked, top
    <3>5. Order => Order'
      BY <3>1 DEF Order, Lined, Now, Told, At, Queue, top
    <3>6. QED
      BY <2>1, <3>2, <3>3, <3>4, <3>5
  <2>2. ASSUME Draining, Draining', Agreed, Next PROVE Agreed'
    <3>1. IInv /\ Safe /\ IInv' /\ Flagged
      BY <2>2 DEF Draining
    <3>2. Shut'
      BY <2>2, <3>1, ShutKeeps
    <3>3. Tightly'
      BY <1>0, <2>2, <3>1, TightStep
    <3>4. ASSUME Alive' PROVE Order'
      <4>1. CASE Open /\ server' = NoServer /\ idata.state = "DISCONNECTED"
        BY <1>0, <2>2, <3>1, <4>1, OrderOpen
      <4>2. CASE ~(Open /\ server' = NoServer /\ idata.state = "DISCONNECTED")
        <5>1. Alive
          <6>1. CASE Open /\ server' = NoServer
            <7>1. UNCHANGED <<idata, server>>
              BY <4>2, <6>1, OpenAgain
            <7>2. QED
              BY <3>4, <7>1 DEF Alive, Linked
          <6>2. QED
            BY <2>2, <3>1, <3>4, <6>1, StaysDead
        <5>2. Running /\ Order
          BY <2>2, <5>1 DEF Draining, Running
        <5>3. QED
          BY <1>0, <2>2, <3>1, <3>4, <5>2, OrderStep DEF Tightly
      <4>3. QED
        BY <4>1, <4>2
    <3>5. Ended'
      BY <2>2, <3>1, <3>4, EndedStep
    <3>6. Told' => Alive'
      BY <1>0, <2>2, <3>1, ToldStep
    <3>7. QED
      BY <3>2, <3>3, <3>4, <3>5, <3>6
  <2>3. QED
    BY <2>1, <2>2
<1> HIDE DEF Agreed
<1>3. Spec => []Draining
  BY DrainingInductive
<1>4. Ordered <=> Draining /\ Agreed
  BY DEF Ordered, Agreed
<1>5. QED
  BY <1>1, <1>2, <1>3, <1>4, PTL DEF Spec

\* An empty ring: no command waits, and none is between the two ends.
LEMMA TightRing ==
  ASSUME NEW d, Good(d), Tight(d), Waiting(d) = {}
  PROVE d.lastcmd = d.nextcmd
<1>1. d.lastcmd \in Slots /\ d.nextcmd \in Slots
  BY DEF Good, IData
<1>2. d.lastcmd \notin Window(d)
  BY DEF Tight
<1>3. ~(Distance(d.lastcmd, d.lastcmd) < Distance(d.lastcmd, d.nextcmd))
  BY <1>1, <1>2 DEF Window
<1>4. Distance(d.lastcmd, d.lastcmd) = 0 /\ Distance(d.lastcmd, d.nextcmd) \in 0 .. CmdSlots - 1
  BY <1>1, RingDistance
<1>5. Distance(d.lastcmd, d.nextcmd) = 0
  BY <1>3, <1>4, CmdSlotsAssumption
<1>6. QED
  BY <1>1, <1>5, RingDistance

\* What heads the queue of a server that is read from is something it answers.
LEMMA OrderAnswers ==
  ASSUME Good(idata), Peer, Order, At("read")
  PROVE Answers # {}
<1> DEFINE in == server.input
           head == IF in = <<>> THEN "NULL" ELSE in[1].verb
<1>1. ~Told /\ Now = idata
  BY DEF Told, Now, At
<1>2. idata.cmdbuf = <<>> /\ (top.op # "open" => in # <<>>)
  BY DEF Order
<1>3. in \in Seq(Token) /\ Len(in) \in Nat /\ Queue = in
  <2>1. in \in Seq(Token) /\ <<>> \in Seq(Token) /\ Len(in) \in Nat
    BY QueueType
  <2>2. QED
    BY <1>2, <2>1, Concat DEF Queue
<1>4. CASE top.op = "open"
  <2>1. In("open", "read")
    BY <1>4 DEF In
  <2>2. <<Plain("untagged"), server>> \in Answers
    BY <2>1 DEF Answers
  <2>3. QED
    BY <2>2
<1>5. CASE top.op # "open"
  <2>1. in # <<>> /\ Len(in) \in Nat \ {0} /\ 1 \in 1 .. Len(in) /\ in[1] \in Token
    BY <1>2, <1>3, <1>5
  <2>2. PICK done \in BOOLEAN : (done <=> server.idling) /\ LinedUp(idata, in, done)
    BY <1>1, <1>3 DEF Order, Lined
  <2>3. in[1].verb \in {"CMD", "IDLE"}
    <3>1. in[1].verb # "DONE"
      BY <2>1, <2>2, LinedHead
    <3>2. QED
      BY <2>1, <3>1 DEF Token
  <2>4. CASE in[1].verb = "CMD"
    <3>1. \A j \in 1 .. 1 : in[j].verb = "CMD"
      BY <2>4
    <3>2. 1 \in {i \in 1 .. Len(in) : /\ \A j \in 1 .. i : in[j].verb = "CMD"
                                      /\ InOrder => i = 1}
      BY <2>1, <3>1
    <3>3. <<Tagged(in[1].seq, "OK"), Drop(1)>> \in Answers
      BY <3>2 DEF Answers
    <3>4. QED
      BY <3>3
  <2>5. CASE in[1].verb = "IDLE" /\ ~server.idling
    <3>1. head = "IDLE"
      BY <2>1, <2>5
    <3>2. <<Plain("+"), [server EXCEPT !.idling = TRUE]>> \in Answers
      BY <2>5, <3>1 DEF Answers
    <3>3. QED
      BY <3>2
  <2>6. CASE in[1].verb = "IDLE" /\ server.idling
    <3>1. head = "IDLE"
      BY <2>1, <2>6
    <3>2. Len(in) > 1
      BY <1>3, <2>2, <2>6 DEF LinedUp
    <3>3. <<Tagged(in[1].seq, IF in[2].verb = "DONE" THEN "OK" ELSE "BAD"), Rest(2)>> \in Answers
      BY <2>6, <3>1, <3>2 DEF Answers
    <3>4. QED
      BY <3>3
  <2>7. QED
    BY <2>3, <2>4, <2>5, <2>6
<1>6. QED
  BY <1>4, <1>5

\* The ring of the client and the queue of the server hold the same commands in
\* the same order, a call that waits is owed an answer, DONE follows an IDLE and
\* an idle connection has its whole ring free: with a server that answers in the
\* order it is asked and in a way mutt can parse, for every size of the ring and
\* of the tag space.
THEOREM PipelineIsRight ==
  InOrder = TRUE /\ NestedFetch = FALSE /\ ReuseDirty = FALSE /\ Garbled = FALSE
    => (Spec => []PipelineRight)
<1> SUFFICES ASSUME InOrder = TRUE, Plainly PROVE Spec => []PipelineRight
  BY DEF Plainly
<1>1. Ordered => PipelineRight
  <2>1. SUFFICES ASSUME Ordered PROVE PipelineRight
    OBVIOUS
  <2>2. Good(idata) /\ Peer /\ (Alive => Order) /\ Tight(idata) /\ DoneEndsIdle
    BY <2>1 DEF Ordered, Draining, IInv, Tightly, Ended
  <2>3. RingMatchesServer
    <3>1. CASE ~Live \/ At("scan")
      BY <3>1 DEF RingMatchesServer
    <3>2. CASE Live /\ ~At("scan")
      <4>1. Order /\ Now = idata
        BY <2>2, <3>2 DEF Live, Alive, Linked, Now
      <4>2. CASE LinedUp(idata, Queue, TRUE)
        BY <2>2, <4>2, LinedMatches
      <4>3. CASE LinedUp(idata, Queue, FALSE)
        BY <2>2, <4>3, LinedMatches
      <4>4. QED
        BY <4>1, <4>2, <4>3 DEF Order, Lined
    <3>3. QED
      BY <3>1, <3>2
  <2>4. SlotsComeBack
    BY <2>2, TightRing DEF SlotsComeBack
  <2>5. NeverWaitsForNothing
    BY <2>2, OrderAnswers DEF NeverWaitsForNothing, Live, Alive, Linked
  <2>6. QED
    BY <2>2, <2>3, <2>4, <2>5 DEF PipelineRight
<1>2. QED
  BY <1>1, OrderedInductive, PTL
==============================================================================
