----------------------------- MODULE ImapCommand -----------------------------
(***************************************************************************)
(* The IMAP command pipeline of imap/command.c: the ring of command        *)
(* control blocks, the buffer of commands not yet written, IDLE, fatal     *)
(* errors, and the way imap_cmd_step() re-enters itself.                   *)
(*                                                                         *)
(* Everything mutt keeps about one connection is the record idata.  The C  *)
(* call stack is explicit: stack holds one frame per C function that is    *)
(* waiting for the server, because a response handler may issue commands   *)
(* of its own.  A line is produced by the server when the client reads it: *)
(* nothing the client does depends on when an unread line was sent.        *)
(***************************************************************************)
EXTENDS Integers, Sequences, FiniteSets

CONSTANTS
    CmdSlots,   \* idata->cmdslots = $imap_pipeline_depth + 2
    SeqMod,     \* tags are a0000 .. a9999: 10000 in the code
    InOrder,    \* TRUE: the server completes commands in the order sent
    NestedFetch, \* TRUE: handling a FETCH may need the message (a ~h pattern)
    FetchBeforeIdle,  \* TRUE: the server may send FETCH between IDLE and "+"
    ReuseDirty, \* TRUE: a connection closed with commands unsent may be reopened
    Garbled,    \* TRUE: the server may send malformed data while a mailbox is selected
    MaxDepth    \* bound on the nesting of calls that wait for the server

ASSUME CmdSlotsAssumption == CmdSlots \in Nat /\ CmdSlots >= 2
ASSUME SeqModAssumption == SeqMod \in Nat /\ SeqMod >= CmdSlots
ASSUME SwitchesAssumption == {InOrder, NestedFetch, FetchBeforeIdle, ReuseDirty, Garbled} \subseteq BOOLEAN

VARIABLES
    idata,      \* the connection's IMAP_DATA
    buf,        \* idata->buf, the last line read
    stack,      \* C frames waiting for the server, innermost last
    ret,        \* value returned by the frame that returned last
    server      \* what the server has received and not yet answered

vars == <<idata, buf, stack, ret, server>>
------------------------------------------------------------------------------
Slots == 0 .. CmdSlots - 1
Tags == 0 .. SeqMod - 1

CmdState == {"OK", "NO", "BAD", "NEW"}
StepResult == {"OK", "NO", "BAD", "CONTINUE", "RESPOND"}

\* One command line on its way to the server.  DONE carries no tag.
Token == [verb : {"CMD", "IDLE"}, seq : Tags] \cup [verb : {"DONE"}, seq : {0}]

\* A line from the server, as far as imap_cmd_step() tells lines apart.
Line == [kind : {"untagged", "EXISTS", "FETCH", "BYE", "+"}, seq : {0}, code : {"OK"}]
          \cup [kind : {"tagged"}, seq : Tags, code : {"OK", "NO", "BAD"}]

Plain(kind) == [kind |-> kind, seq |-> 0, code |-> "OK"]
Tagged(seq, code) == [kind |-> "tagged", seq |-> seq, code |-> code]

States == {"DISCONNECTED", "CONNECTED", "AUTHENTICATED", "SELECTED", "IDLE"}

IData ==
  [ status   : {"none", "FATAL", "BYE"},
    state    : States,
    ctx      : {"none", "Context", "other"},
    reopen   : SUBSET {"ALLOW", "NEWMAIL"},
    cmds     : [Slots -> [seq : Tags, state : CmdState]],
    nextcmd  : Slots,
    lastcmd  : Slots,
    seqno    : Tags,
    cmdbuf   : Seq(Token),
    fd       : BOOLEAN ]                    \* conn->fd >= 0

\* idata->state >= IMAP_SELECTED
Selected(d) == d.state \in {"SELECTED", "IDLE"}

\* Mutant: the ring index does not wrap.
Succ_NoWrap(i) == i + 1

\* (i + 1) % idata->cmdslots
Succ(i) == IF i + 1 = CmdSlots THEN 0 ELSE i + 1

NoCmds == [i \in Slots |-> [seq |-> 0, state |-> "OK"]]

imap_new_idata ==
  [ status |-> "none", state |-> "DISCONNECTED", ctx |-> "none", reopen |-> {},
    cmds |-> NoCmds, nextcmd |-> 0, lastcmd |-> 0, seqno |-> 0,
    cmdbuf |-> <<>>, fd |-> FALSE ]
------------------------------------------------------------------------------
(* The functions of command.c and imap.c that wait for nothing.            *)

\* The command buffer is not part of what is reset.
imap_close_connection(d) ==
  [d EXCEPT !.state = "DISCONNECTED", !.fd = FALSE, !.status = "none",
            !.cmds = NoCmds, !.nextcmd = 0, !.lastcmd = 0, !.seqno = 0]

\* imap_close_mailbox() on the context of idata, once any CLOSE has run.
imap_close_mailbox(d) ==
  [d EXCEPT !.state = IF d.status # "FATAL" /\ Selected(d)
                        THEN "AUTHENTICATED" ELSE @,
            !.reopen = {}, !.ctx = "none"]

\* A fatal error in the open mailbox only sets a flag, for
\* imap_check_mailbox() to reconnect; elsewhere the connection is dropped,
\* except under a mailbox that may not be reopened.
cmd_handle_fatal(d) ==
  LET fatal == [d EXCEPT !.status = "FATAL"]
      left == IF Selected(d) /\ "ALLOW" \in d.reopen
                THEN [imap_close_mailbox(fatal) EXCEPT
                        !.state = "DISCONNECTED", !.fd = FALSE]
                ELSE fatal
  IN CASE d.ctx = "Context" -> fatal
       [] d.ctx # "Context" /\ Selected(left) -> left
       [] OTHER -> imap_close_connection(left)

cmd_queue_full(d) == Succ(d.nextcmd) = d.lastcmd

\* cmd_new() and the append to cmdbuf in cmd_queue().
cmd_new(d, verb) ==
  [d EXCEPT !.cmds[d.nextcmd] = [seq |-> d.seqno, state |-> "NEW"],
            !.nextcmd = Succ(d.nextcmd),
            !.seqno = IF @ + 1 > SeqMod - 1 THEN 0 ELSE @ + 1,
            !.cmdbuf = Append(@, [verb |-> verb, seq |-> d.seqno])]

\* The slots imap_cmd_step() visits, in the order of its do-while loop: from
\* lastcmd up to nextcmd, the whole ring when the two are equal.
Distance(from, to) == IF to >= from THEN to - from ELSE to - from + CmdSlots
ScanLength(d) == IF d.lastcmd = d.nextcmd THEN CmdSlots
                                          ELSE Distance(d.lastcmd, d.nextcmd)
Scanned(d) == {i \in Slots : Distance(d.lastcmd, i) < ScanLength(d)}

Matches(d, line, i) == /\ line.kind = "tagged"
                       /\ d.cmds[i].state = "NEW"
                       /\ d.cmds[i].seq = line.seq

StillRunning(d, line) ==
  {i \in Scanned(d) : d.cmds[i].state = "NEW" /\ ~Matches(d, line, i)}

\* Mutant: any completion moves the queue pointer.
First_Any(d, line) == {i \in Scanned(d) : Matches(d, line, i)}

\* Mutant: the queue pointer stays where it is.
First_Never(d, line) == {}

\* Matching slots with no command still running before them in the scan: each
\* of them moves the queue pointer up by one.
First(d, line) == {i \in Scanned(d) :
                     /\ Matches(d, line, i)
                     /\ \A j \in StillRunning(d, line) :
                          Distance(d.lastcmd, i) < Distance(d.lastcmd, j)}

\* The scan for tagged completions.  Tags of waiting commands are distinct
\* (RingSafe below), so at most one slot matches.
Scan(d, line) ==
  [d EXCEPT !.cmds = [i \in Slots |->
                        IF i \in Scanned(d) /\ Matches(d, line, i)
                          THEN [d.cmds[i] EXCEPT !.state = line.code]
                          ELSE d.cmds[i]],
            !.lastcmd = IF First(d, line) # {} THEN Succ(@) ELSE @]

\* Mutant: the first completion ends the loop of the caller.
ScanResult_Early(d, line) ==
  CASE \E i \in Scanned(d) : Matches(d, line, i) -> line.code
    [] /\ ~\E i \in Scanned(d) : Matches(d, line, i)
       /\ StillRunning(d, line) # {} -> "CONTINUE"
    [] OTHER -> "OK"
ScanResult_NoDefault(d, line) ==
  IF StillRunning(d, line) = {} /\ \E i \in Scanned(d) : Matches(d, line, i)
    THEN line.code ELSE "CONTINUE"

ScanResult(d, line) ==
  CASE StillRunning(d, line) # {} -> "CONTINUE"
    [] /\ StillRunning(d, line) = {}
       /\ \E i \in Scanned(d) : Matches(d, line, i) -> line.code
    [] OTHER -> "OK"

\* cmd_handle_untagged(), for what it leaves in idata.
cmd_handle_untagged(d, line) ==
  CASE line.kind = "EXISTS" /\ Selected(d) ->
         [d EXCEPT !.reopen = @ \cup {"NEWMAIL"}]
    [] line.kind = "BYE" /\ d.status # "BYE" -> cmd_handle_fatal(d)
    [] OTHER -> d
------------------------------------------------------------------------------
(* The call stack.                                                          *)

Ops == {"exec", "idle", "fetch", "read_headers", "select", "open", "logout",
        "close", "check"}
PCs == {"start", "drained", "write", "failed", "read", "scan", "finished",
        "done", "acl", "selecting", "opened", "capa", "auth", "recheck", "compress",
        "enable", "flush",
        "closed", "idle",
        "idled", "poll", "noop", "nooped", "finish", "errcleanup"}

Frame == [op : Ops, pc : PCs, rc : StepResult, verb : {"CMD", "IDLE", "NULL"},
          queue : BOOLEAN, failok : BOOLEAN]

Call(op, pc) == [op |-> op, pc |-> pc, rc |-> "OK", verb |-> "CMD",
                 queue |-> FALSE, failok |-> FALSE]
Exec(verb, queue, failok) ==
  [Call("exec", "start") EXCEPT !.verb = verb, !.queue = queue, !.failok = failok]
Command == Exec("CMD", FALSE, FALSE)

top == stack[Len(stack)]
At(pc) == stack # <<>> /\ top.pc = pc
In(op, pc) == At(pc) /\ top.op = op

Goto(pc) == /\ stack' = [stack EXCEPT ![Len(stack)].pc = pc]
            /\ UNCHANGED <<ret, buf>>
Push(frame, pc) == /\ stack' = Append([stack EXCEPT ![Len(stack)].pc = pc], frame)
                   /\ UNCHANGED <<ret, buf>>
Return(value) == /\ stack' = SubSeq(stack, 1, Len(stack) - 1)
                 /\ ret' = value
                 /\ buf' = IF Len(stack) = 1 THEN Plain("untagged") ELSE buf
\* The result of one call of imap_cmd_step(): the caller's loop.
Stepped(rc) ==
  IF rc # "CONTINUE"
    THEN [stack EXCEPT ![Len(stack)].rc = rc, ![Len(stack)].pc = "done"]
    ELSE [stack EXCEPT ![Len(stack)].pc = IF top.op = "check" THEN "poll" ELSE "read"]
Step(rc) == stack' = Stepped(rc) /\ UNCHANGED <<ret, buf>>
------------------------------------------------------------------------------
(* The server (external).  An IDLE command holds up what follows it until  *)
(* DONE; a line other than DONE makes it fail.                             *)

NoServer == [input |-> <<>>, idling |-> FALSE, bye |-> FALSE]

Drop(i) == [server EXCEPT !.input = [j \in 1 .. Len(@) - 1 |->
                                       IF j < i THEN @[j] ELSE @[j + 1]]]
Rest(n) == [server EXCEPT !.input = SubSeq(@, n + 1, Len(@)), !.idling = FALSE]

\* Lines that answer something the client sent, with the server state after.
Answers ==
  LET in == server.input
      codes == {"OK", "NO", "BAD"}
      commands == {i \in 1 .. Len(in) :
                     /\ \A j \in 1 .. i : in[j].verb = "CMD"
                     /\ InOrder => i = 1}
      completed == {<<Tagged(in[i].seq, c), Drop(i)>> : i \in commands, c \in codes}
      head == IF in = <<>> THEN "NULL" ELSE in[1].verb
      greeting == IF In("open", "read") THEN {<<Plain("untagged"), server>>} ELSE {}
  IN completed \cup greeting \cup
     CASE head = "IDLE" /\ ~server.idling ->
            {<<Plain("+"), [server EXCEPT !.idling = TRUE]>>}
              \cup {<<Tagged(in[1].seq, c), Rest(1)>> : c \in {"NO", "BAD"}}
       [] head = "IDLE" /\ server.idling /\ Len(in) > 1 ->
            {<<Tagged(in[1].seq, IF in[2].verb = "DONE" THEN "OK" ELSE "BAD"), Rest(2)>>}
       [] head = "DONE" -> {<<Plain("untagged"), Rest(1)>>}
       [] OTHER -> {}

\* After BYE the server only closes the connection.
StartingIdle == ~server.idling
                  /\ \E i \in 1 .. Len(server.input) : server.input[i].verb = "IDLE"

Unsolicited ==
  LET kinds == IF StartingIdle /\ ~FetchBeforeIdle
                 THEN {"untagged", "EXISTS", "BYE"}
                 ELSE {"untagged", "EXISTS", "BYE", "FETCH"}
  IN {<<Plain(k), [server EXCEPT !.bye = k = "BYE"]>> : k \in kinds}
------------------------------------------------------------------------------
(* cmd_start(), with cmd_queue().                                          *)

StartFatal ==
  /\ At("start") /\ idata.status = "FATAL"
  /\ idata' = cmd_handle_fatal(idata)
  /\ Goto("failed")
  /\ UNCHANGED server

\* The pipeline is full: run what is queued first.
StartDrain ==
  /\ At("start") /\ idata.status # "FATAL"
  /\ top.verb # "NULL" /\ cmd_queue_full(idata)
  /\ Push(Exec("NULL", FALSE, TRUE), "drained")
  /\ UNCHANGED <<idata, server>>

\* Mutant: a fatal status does not stop commands.
StartQueue_Fatal ==
  /\ At("start")
  /\ top.verb # "NULL" => ~cmd_queue_full(idata)
  /\ idata' = IF top.verb = "NULL" THEN idata ELSE cmd_new(idata, top.verb)
  /\ Goto("write")
  /\ UNCHANGED server

StartQueue ==
  /\ At("start") /\ idata.status # "FATAL"
  /\ top.verb # "NULL" => ~cmd_queue_full(idata)
  /\ idata' = IF top.verb = "NULL" THEN idata ELSE cmd_new(idata, top.verb)
  /\ Goto("write")
  /\ UNCHANGED server

Drained ==
  /\ At("drained")
  /\ IF ret = "-1" \/ cmd_queue_full(idata)
       THEN UNCHANGED idata /\ Goto("failed")
       ELSE idata' = cmd_new(idata, top.verb) /\ Goto("write")
  /\ UNCHANGED server

QueueOnly ==
  /\ At("write") /\ top.queue
  /\ Return("0")
  /\ UNCHANGED <<idata, server>>

NothingToWrite ==
  /\ At("write") /\ ~top.queue /\ idata.cmdbuf = <<>>
  /\ Goto("failed")
  /\ UNCHANGED <<idata, server>>

\* Mutant: the buffer is not cleared after it is written.
Write_NoClear ==
  /\ At("write") /\ ~top.queue /\ idata.cmdbuf # <<>> /\ idata.fd
  /\ idata' = [idata EXCEPT !.state = IF @ = "IDLE" THEN "SELECTED" ELSE @]
  /\ server' = [server EXCEPT !.input = @ \o idata.cmdbuf]
  /\ Goto("read")

\* Writing the buffer ends IDLE whether or not the write succeeds.
Sent(d) == [d EXCEPT !.cmdbuf = <<>>, !.state = IF @ = "IDLE" THEN "SELECTED" ELSE @]

Write ==
  /\ At("write") /\ ~top.queue /\ idata.cmdbuf # <<>>
  /\ \/ /\ idata.fd
        /\ idata' = Sent(idata)
        /\ server' = [server EXCEPT !.input = @ \o idata.cmdbuf]
        /\ Goto("read")
     \/ /\ idata' = [Sent(idata) EXCEPT !.fd = FALSE]
        /\ Goto("failed")
        /\ UNCHANGED server

\* The command was sent for imap_check_mailbox() or imap_buffy_check(), which do
\* not wait for its answer longer than $imap_poll_timeout (IMAP_CMD_POLL).
Polls == /\ \A k \in 1 .. Len(stack) : stack[k].op \in {"exec", "idle", "check"}
         /\ \/ stack[1].op = "check" \/ stack[1].queue
            \/ stack[1].verb = "NULL" /\ stack[1].failok

\* The poll times out.  The socket stays open, and the answer may still come.
PollTimesOut ==
  /\ At("write") /\ ~top.queue /\ idata.cmdbuf # <<>> /\ idata.fd /\ Polls
  /\ idata' = cmd_handle_fatal(Sent(idata))
  /\ server' = [server EXCEPT !.input = @ \o idata.cmdbuf]
  /\ Return("-1")

\* imap_exec() and imap_cmd_idle() give up; the callers of imap_cmd_start()
\* do not look at its result.
StartFailed ==
  /\ At("failed")
  /\ IF top.op \in {"exec", "idle"}
       THEN idata' = cmd_handle_fatal(idata) /\ Return("-1")
       ELSE UNCHANGED idata /\ Goto("read")
  /\ UNCHANGED server
------------------------------------------------------------------------------
(* imap_cmd_step().                                                         *)

\* imap_check_mailbox() reads only when mutt_socket_poll() says it can.
Reading == At("read") \/ (In("check", "poll") /\ idata.state = "IDLE")

ReadFatal ==
  /\ Reading /\ idata.status = "FATAL"
  /\ idata' = cmd_handle_fatal(idata)
  /\ Step("BAD")
  /\ UNCHANGED server

\* The connection is closed.
ReadFails ==
  /\ Reading /\ idata.status # "FATAL"
  /\ idata' = cmd_handle_fatal([idata EXCEPT !.fd = FALSE])
  /\ Step("BAD")
  /\ UNCHANGED server

\* A FETCH may make the handler fetch the message itself, once there are
\* headers (set_flag -> set_header_color -> a ~h pattern).
ReadLine(lines) ==
  /\ Reading /\ idata.status # "FATAL" /\ idata.fd /\ ~server.bye
  /\ \E answer \in lines :
       LET line == answer[1]
           fails == line.kind = "BYE" /\ idata.status # "BYE"
       IN /\ server' = answer[2]
          /\ buf' = line
          /\ UNCHANGED ret
          /\ idata' = cmd_handle_untagged(idata, line)
          /\ \/ fails /\ stack' = Stepped("BAD")
             \/ ~fails /\ stack' = [stack EXCEPT ![Len(stack)].pc = "scan"]
             \/ /\ NestedFetch /\ line.kind = "FETCH"
                /\ Selected(idata) /\ Len(stack) < MaxDepth
                /\ \A i \in 1 .. Len(stack) : stack[i].op # "select"
                /\ stack' = Append([stack EXCEPT ![Len(stack)].pc = "scan"],
                                   Call("fetch", "start"))

ReadAnswer == ReadLine(Answers)
ReadUnsolicited == ReadLine(Unsolicited)

ScanRespond ==
  /\ At("scan") /\ buf.kind = "+"
  /\ Step("RESPOND")
  /\ UNCHANGED <<idata, server>>

ScanContinue ==
  /\ At("scan") /\ buf.kind # "+" /\ ScanResult(idata, buf) = "CONTINUE"
  /\ idata' = Scan(idata, buf)
  /\ Step("CONTINUE")
  /\ UNCHANGED server

\* ctx->closing: the context is inside mx_close_mailbox().
Closing == \E i \in 1 .. Len(stack) : stack[i].op = "close"

\* imap_cmd_finish() goes on to fetch new mail.
FetchesNewMail(d) == /\ d.status # "FATAL" /\ Selected(d) /\ ~Closing
                     /\ {"ALLOW", "NEWMAIL"} \subseteq d.reopen

\* imap_cmd_finish(), up to its call of imap_read_headers() if there is one.
imap_cmd_finish(d) ==
  CASE d.status = "FATAL" -> cmd_handle_fatal(d)
    [] FetchesNewMail(d) -> [d EXCEPT !.reopen = @ \ {"ALLOW", "NEWMAIL"}]
    [] d.status # "FATAL" /\ Selected(d) /\ ~Closing /\ ~FetchesNewMail(d) ->
         [d EXCEPT !.status = "none"]
    [] OTHER -> d

\* "IMAP queue drained"
ScanDrained ==
  /\ At("scan") /\ buf.kind # "+" /\ ScanResult(idata, buf) # "CONTINUE"
  /\ LET d == Scan(idata, buf)
         rc == ScanResult(idata, buf)
     IN /\ idata' = imap_cmd_finish(d)
        /\ IF FetchesNewMail(d)
             THEN stack' = Append([Stepped(rc) EXCEPT ![Len(stack)].pc = "finished"],
                                  Call("read_headers", "start"))
             ELSE stack' = Stepped(rc)
  /\ UNCHANGED <<ret, buf, server>>

\* The end of imap_cmd_finish() after imap_read_headers().
Finished ==
  /\ At("finished")
  /\ idata' = [idata EXCEPT !.status = "none"]
  /\ IF top.op = "check" THEN Goto("errcleanup") ELSE Step(top.rc)
  /\ UNCHANGED server
------------------------------------------------------------------------------
(* What the functions that wait do with the result of the last step.       *)

ExecDone ==
  /\ In("exec", "done")
  /\ Return(CASE top.rc = "OK" -> "0"
              [] top.rc # "OK" /\ top.failok
                   /\ (top.rc = "NO" \/ idata.status # "FATAL") -> "-2"
              [] OTHER -> "-1")
  /\ UNCHANGED <<idata, server>>

\* imap_cmd_idle(): "queue automatic exit when next command is issued".
IdleDone ==
  /\ In("idle", "done")
  /\ IF top.rc = "RESPOND"
       THEN idata' = [idata EXCEPT !.state = "IDLE",
                        !.cmdbuf = Append(@, [verb |-> "DONE", seq |-> 0])]
       ELSE UNCHANGED idata
  /\ Return(IF top.rc \in {"RESPOND", "OK"} THEN "0" ELSE "-1")
  /\ UNCHANGED server

\* imap_fetch_message() and imap_append_message(): a command of their own.
FetchDone ==
  /\ In("fetch", "done")
  /\ Return(IF top.rc = "OK" THEN "0" ELSE "-1")
  /\ UNCHANGED <<idata, server>>

\* imap_read_headers(): mail that arrived meanwhile is fetched too; a
\* failure leaves reopening forbidden.
ReadHeadersDone ==
  /\ In("read_headers", "done")
  /\ CASE top.rc = "OK" /\ "NEWMAIL" \in idata.reopen ->
            /\ idata' = [idata EXCEPT !.reopen = @ \ {"NEWMAIL"}]
            /\ Goto("start")
       [] top.rc = "OK" /\ "NEWMAIL" \notin idata.reopen ->
            /\ idata' = [idata EXCEPT !.reopen = @ \cup {"ALLOW"}]
            /\ Return("0")
       [] OTHER -> UNCHANGED idata /\ Return("-1")
  /\ UNCHANGED server

\* imap_open_mailbox(): MYRIGHTS and the postponed count are queued, SELECT is
\* sent, the headers are read.
SelectAcl ==
  /\ In("select", "acl")
  /\ Push(Exec("CMD", TRUE, FALSE), "selecting") \/ Goto("selecting")
  /\ UNCHANGED <<idata, server>>

SelectSend ==
  /\ In("select", "selecting")
  /\ idata' = [idata EXCEPT !.state = "SELECTED"]
  /\ Goto("start")
  /\ UNCHANGED server

SelectFails(d) ==
  /\ idata' = imap_close_mailbox(
                [d EXCEPT !.state = IF @ = "SELECTED" THEN "AUTHENTICATED" ELSE @])
  /\ Return("-1")

SelectDone ==
  /\ In("select", "done")
  /\ \/ top.rc # "OK" /\ SelectFails(idata)
     \/ /\ top.rc = "OK"
        /\ idata' = [idata EXCEPT !.reopen = @ \ {"ALLOW", "NEWMAIL"}]
        /\ Push(Call("read_headers", "start"), "opened")
     \/ top.rc = "OK" /\ UNCHANGED idata /\ Return("0")     \* an empty mailbox
  /\ UNCHANGED server

\* A response to SELECT cannot be parsed: the rest of them is left unread.
SelectGarbled ==
  /\ Garbled /\ In("select", "read") /\ buf.kind = "untagged"
  /\ SelectFails(idata)
  /\ UNCHANGED server

SelectOpened ==
  /\ In("select", "opened")
  /\ IF ret = "0"
       THEN idata' = [idata EXCEPT !.reopen = @ \ {"ALLOW"}] /\ Return("0")
       ELSE SelectFails(idata)
  /\ UNCHANGED server

\* imap_conn_find() and imap_open_connection(): greeting, CAPABILITY, login,
\* CAPABILITY once more, then a batch of queued commands.  The greeting may
\* bring the capabilities, or log mutt in (PREAUTH), or be one that mutt refuses,
\* as it refuses some capabilities.
OpenDone ==
  /\ In("open", "done")
  /\ \/ /\ top.rc = "OK"
        /\ UNCHANGED idata \/ idata' = [idata EXCEPT !.state = "AUTHENTICATED"]
        /\ Push(Command, "capa")
     \/ top.rc = "OK" /\ UNCHANGED idata /\ Push(Exec("CMD", FALSE, TRUE), "auth")
     \/ idata' = imap_close_connection(idata) /\ Return("-1")
  /\ UNCHANGED server

\* A connection that was open before is not new: PREAUTH leaves it as it is.
OpenCapability ==
  /\ In("open", "capa")
  /\ \/ /\ ret = "0" /\ idata.state = "CONNECTED"
        /\ UNCHANGED idata /\ Push(Exec("CMD", FALSE, TRUE), "auth")
     \/ /\ ret = "0" /\ idata.state # "CONNECTED"
        /\ UNCHANGED idata
        /\ Push(Exec("CMD", FALSE, TRUE), "recheck") \/ Goto("opened")
     \/ idata' = imap_close_connection(idata) /\ Return("-1")
  /\ UNCHANGED server

OpenAuthenticated ==
  /\ In("open", "auth")
  /\ IF ret = "0"
       THEN /\ idata' = [idata EXCEPT !.state = "AUTHENTICATED"]
            /\ Push(Exec("CMD", FALSE, TRUE), "recheck")
       ELSE UNCHANGED idata /\ Return("-1")
  /\ UNCHANGED server

OpenRecheck ==
  /\ In("open", "recheck")
  /\ \/ Push(Exec("CMD", FALSE, TRUE), "compress")
     \/ Push(Exec("CMD", TRUE, FALSE), "enable")
  /\ UNCHANGED <<idata, server>>

OpenCompress ==
  /\ In("open", "compress")
  /\ Push(Exec("CMD", TRUE, FALSE), "enable")
  /\ UNCHANGED <<idata, server>>

OpenEnable ==
  /\ In("open", "enable")
  /\ Push(Exec("CMD", TRUE, FALSE), "flush") \/ Goto("flush")
  /\ UNCHANGED <<idata, server>>

OpenFlush ==
  /\ In("open", "flush")
  /\ Push(Exec("NULL", FALSE, TRUE), "opened")
  /\ UNCHANGED <<idata, server>>

OpenOpened ==
  /\ In("open", "opened")
  /\ Return(IF idata.state \in {"DISCONNECTED", "CONNECTED"} THEN "-1" ELSE "0")
  /\ UNCHANGED <<idata, server>>

\* imap_logout() frees the IMAP_DATA.
LogoutDone ==
  /\ In("logout", "done")
  /\ idata' = imap_new_idata
  /\ server' = NoServer
  /\ Return("0")

CloseDone ==
  /\ In("close", "closed")
  /\ idata' = imap_close_mailbox(idata)
  /\ Return("0")
  /\ UNCHANGED server
------------------------------------------------------------------------------
(* imap_check_mailbox().                                                    *)

CheckIdle ==
  /\ In("check", "idle")
  /\ \/ Push([Call("idle", "start") EXCEPT !.verb = "IDLE"], "idled")
     \/ Goto("poll")
  /\ UNCHANGED <<idata, server>>

CheckIdled ==
  /\ In("check", "idled")
  /\ Goto(IF ret = "-1" THEN "errcleanup" ELSE "poll")
  /\ UNCHANGED <<idata, server>>

\* mutt_socket_poll() finds nothing (more) to read.
CheckPoll ==
  /\ In("check", "poll")
  /\ Goto("noop")
  /\ UNCHANGED <<idata, server>>

CheckPolled ==
  /\ In("check", "done")
  /\ Goto("errcleanup")
  /\ UNCHANGED <<idata, server>>

CheckNoop ==
  /\ In("check", "noop")
  /\ \/ Push(Command, "nooped")
     \/ Goto("finish")
  /\ UNCHANGED <<idata, server>>

CheckNooped ==
  /\ In("check", "nooped")
  /\ Goto(IF ret = "0" THEN "finish" ELSE "errcleanup")
  /\ UNCHANGED <<idata, server>>

CheckFinish ==
  /\ In("check", "finish")
  /\ idata' = imap_cmd_finish(idata)
  /\ IF FetchesNewMail(idata)
       THEN Push(Call("read_headers", "start"), "finished")
       ELSE Goto("errcleanup")
  /\ UNCHANGED server

\* errcleanup: imap_reconnect() when that is allowed and $imap_reconnect_tries
\* is not 0.  Whether or not the mailbox could be opened over another
\* connection, this one is closed.
CheckErrcleanup ==
  /\ In("check", "errcleanup")
  /\ \/ /\ idata.status = "FATAL" /\ "ALLOW" \in idata.reopen
        /\ idata.ctx = "Context"
        /\ idata' = imap_close_connection(imap_close_mailbox(idata))
     \/ idata' = [idata EXCEPT !.reopen = @ \ {"ALLOW"}]
  /\ Return("0")
  /\ UNCHANGED server
------------------------------------------------------------------------------
(* What the rest of mutt calls when no other call is in progress.          *)

TopLevel == stack = <<>>
Begin(frame) == stack' = <<frame>> /\ ret' = "0" /\ UNCHANGED buf

\* mutt_socket_open(), then the greeting.
Open ==
  /\ TopLevel /\ idata.status # "FATAL"
  /\ ReuseDirty \/ idata.cmdbuf = <<>>
  /\ \/ /\ idata.state = "DISCONNECTED"
        /\ idata' = [idata EXCEPT !.state = "CONNECTED", !.fd = TRUE]
        /\ server' = NoServer
        /\ Begin(Call("open", "read"))
     \/ /\ idata.state = "CONNECTED"
        /\ UNCHANGED <<idata, server>>
        /\ stack' = <<Call("open", "auth"), Exec("CMD", FALSE, TRUE)>>
        /\ UNCHANGED <<ret, buf>>

Select ==
  /\ TopLevel /\ idata.status # "FATAL" /\ idata.state = "AUTHENTICATED"
  /\ idata' = [idata EXCEPT !.ctx = "other", !.status = "none"]
  /\ Begin(Call("select", "acl"))
  /\ UNCHANGED server

\* The mailbox just opened becomes the one on screen.
SetContext ==
  /\ TopLevel /\ idata.ctx = "other"
  /\ idata' = [idata EXCEPT !.ctx = "Context"]
  /\ UNCHANGED <<buf, stack, ret, server>>

AllowReopen ==
  /\ TopLevel /\ idata.ctx # "none" /\ "ALLOW" \notin idata.reopen
  /\ idata' = [idata EXCEPT !.reopen = @ \cup {"ALLOW"}]
  /\ UNCHANGED <<buf, stack, ret, server>>

DisallowReopen ==
  /\ TopLevel /\ "ALLOW" \in idata.reopen
  /\ idata' = [idata EXCEPT !.reopen = @ \ {"ALLOW"}]
  /\ UNCHANGED <<buf, stack, ret, server>>

\* imap_exec(): queued or not; NULL runs what is queued.
DoExec ==
  /\ TopLevel /\ idata.state \in {"AUTHENTICATED", "SELECTED", "IDLE"}
  /\ \E queue, failok \in BOOLEAN : Begin(Exec("CMD", queue, failok))
  /\ UNCHANGED <<idata, server>>

Flush ==
  /\ TopLevel /\ idata.cmdbuf # <<>>
  /\ idata.state \in {"AUTHENTICATED", "SELECTED", "IDLE"}
  /\ \E failok \in BOOLEAN : Begin(Exec("NULL", FALSE, failok))
  /\ UNCHANGED <<idata, server>>

FetchMessage ==
  /\ TopLevel /\ Selected(idata) /\ idata.ctx # "none"
  /\ Begin(Call("fetch", "start"))
  /\ UNCHANGED <<idata, server>>

CheckMailbox ==
  /\ TopLevel /\ Selected(idata) /\ idata.ctx # "none"
  /\ idata' = [idata EXCEPT !.reopen = @ \cup {"ALLOW"}]
  /\ Begin(Call("check", "idle"))
  /\ UNCHANGED server

CloseMailbox ==
  /\ TopLevel /\ idata.ctx # "none"
  /\ IF idata.status # "FATAL" /\ Selected(idata)
       THEN \/ stack' = <<Call("close", "closed"), Command>> /\ UNCHANGED <<ret, buf>>
            \/ Begin(Call("close", "closed"))
       ELSE Begin(Call("close", "closed"))
  /\ UNCHANGED <<idata, server>>

Logout ==
  /\ TopLevel /\ idata.fd
  /\ IF idata.status = "FATAL"
       THEN Begin(Call("logout", "done")) /\ UNCHANGED idata
       ELSE /\ idata' = [idata EXCEPT !.status = "BYE"]
            /\ Begin(Call("logout", "start"))
  /\ UNCHANGED server
------------------------------------------------------------------------------
Init ==
  /\ idata = imap_new_idata
  /\ buf = Plain("untagged")
  /\ stack = <<>>
  /\ ret = "0"
  /\ server = NoServer

CmdStart == StartFatal \/ StartDrain \/ StartQueue \/ Drained \/ QueueOnly
              \/ NothingToWrite \/ Write \/ PollTimesOut \/ StartFailed
CmdStep == ReadFatal \/ ReadFails \/ ReadAnswer \/ ReadUnsolicited \/ ScanRespond
             \/ ScanContinue \/ ScanDrained \/ Finished
CallDone == ExecDone \/ IdleDone \/ FetchDone \/ ReadHeadersDone \/ SelectAcl
              \/ SelectSend \/ SelectDone \/ SelectOpened \/ OpenDone \/ OpenCapability
              \/ OpenAuthenticated \/ OpenRecheck \/ OpenCompress \/ OpenEnable
              \/ OpenFlush \/ OpenOpened \/ LogoutDone \/ CloseDone
Check == CheckIdle \/ CheckIdled \/ CheckPoll \/ CheckPolled \/ CheckNoop
           \/ CheckNooped \/ CheckFinish \/ CheckErrcleanup
User == Open \/ Select \/ SetContext \/ AllowReopen \/ DisallowReopen \/ DoExec
          \/ Flush \/ FetchMessage \/ CheckMailbox \/ CloseMailbox \/ Logout

Next == CmdStart \/ CmdStep \/ CallDone \/ SelectGarbled \/ Check \/ User

Spec == Init /\ [][Next]_vars

\* The client runs until it returns or waits for the server, and the server
\* answers what it has received.
ScanLine == ScanRespond \/ ScanContinue \/ ScanDrained \/ Finished \/ ReadFatal
Fairness == /\ WF_vars(CmdStart) /\ WF_vars(ScanLine)
            /\ WF_vars(CallDone) /\ WF_vars(Check)
            /\ WF_vars(At("read") /\ ReadAnswer)
            /\ WF_vars(At("read") /\ (~idata.fd \/ server.bye) /\ ReadFails)

FairSpec == Spec /\ Fairness
------------------------------------------------------------------------------
(* Properties.                                                              *)

\* Every variable has its type.
TypeOK ==
  /\ idata \in IData
  /\ buf \in Line
  /\ stack \in Seq(Frame)
  /\ ret \in {"0", "-1", "-2"}
  /\ server \in [input : Seq(Token), idling : BOOLEAN, bye : BOOLEAN]

\* Command control blocks that wait for their completion.
Waiting(d) == {i \in Slots : d.cmds[i].state = "NEW"}

\* The slots from lastcmd up to, not including, nextcmd.
Window(d) == {i \in Slots : Distance(d.lastcmd, i) < Distance(d.lastcmd, d.nextcmd)}

Live == idata.fd /\ idata.status # "FATAL" /\ ~server.bye

\* No waiting command is outside the part of the ring that imap_cmd_step()
\* scans and cmd_new() spares, and no two share a tag.
RingSafe ==
  /\ Waiting(idata) \subseteq Window(idata)
  /\ \A i, j \in Waiting(idata) : idata.cmds[i].seq = idata.cmds[j].seq => i = j

\* With a server that answers in order, the ring holds exactly the commands
\* the server owes an answer for, then the ones still in the buffer: the one
\* with k commands before it is in the k-th slot after lastcmd.
RingMatchesServer ==
  Live /\ ~At("scan") =>
    LET sent == server.input \o idata.cmdbuf
        commands == {i \in 1 .. Len(sent) : sent[i].verb # "DONE"}
        before(i) == Cardinality({j \in commands : j < i})
    IN /\ Cardinality(commands) = Distance(idata.lastcmd, idata.nextcmd)
       /\ \A i \in commands :
            sent[i].seq = idata.cmds[(idata.lastcmd + before(i)) % CmdSlots].seq

\* A call waits only for a server that owes it a line.
NeverWaitsForNothing ==
  At("read") /\ Live => Answers # {}

\* On a live connection, a command is never refused for want of a slot, and
\* there is something to send when a command is to run.
PipelineAccepts == At("failed") => ~Live

\* When no command is outstanding the whole ring is free again.
SlotsComeBack ==
  Waiting(idata) = {} => idata.lastcmd = idata.nextcmd

\* DONE is sent to a server that has been told IDLE.
DoneEndsIdle ==
  \A i \in 1 .. Len(server.input) :
     server.input[i].verb = "DONE" =>
        \E j \in 1 .. i - 1 : server.input[j].verb = "IDLE"

\* The client's and the server's idea of what is outstanding agree, and so the
\* calls go on: with a server that answers in order.
PipelineRight ==
  /\ RingMatchesServer /\ SlotsComeBack
  /\ NeverWaitsForNothing /\ DoneEndsIdle

\* imap_exec() leaves nothing outstanding, unless it only queues or fails.
ExecDrains ==
  [][ In("exec", "done") /\ Live /\ stack' # stack /\ ret' # "-1"
        => Waiting(idata) = {} ]_vars

\* Once the connection has failed, only closing it clears the flag that makes
\* imap_check_mailbox() reconnect.
FatalSticks ==
  [][ idata.status = "FATAL" /\ idata'.status # "FATAL"
        => idata'.state = "DISCONNECTED" ]_vars

\* Once the connection has failed nothing is sent, and that it failed is not
\* forgotten before it is closed: except when imap_cmd_finish() returns from the
\* download of new mail it made itself (FatalSticks).
FatalIsSilent ==
  [][ idata.status = "FATAL" =>
        /\ Len(server'.input) <= Len(server.input)
        /\ idata'.status = "FATAL" \/ idata'.state = "DISCONNECTED" \/ At("finished") ]_vars

\* Every call returns, if the server does not talk unasked for ever (the line
\* that greets a new connection is asked for).
CallsReturn ==
  <>[][ReadUnsolicited => In("open", "read")]_vars => (stack # <<>> ~> stack = <<>>)
==============================================================================
