-------------------------------- MODULE Send --------------------------------
(***************************************************************************)
(* Composing and sending messages: send.c, with recalling and postponing   *)
(* from postpone.c, mutt_protect() of crypt.c, the Fcc of sendlib.c, and   *)
(* background editing from background.c.                                   *)
(*                                                                         *)
(* One session (SEND_CONTEXT) is active at a time.  A session whose editor *)
(* runs in the background waits in ProcessList while the user does other   *)
(* things, and is resumed from the background compose menu.  The editors   *)
(* are processes of their own.                                             *)
(***************************************************************************)
EXTENDS Naturals, FiniteSets

CONSTANTS
    Sessions,
    Security,      \* settings of a message: of "none", "sign", "encrypt", "inline"
    MaxTries       \* bound: how often a session comes back to the compose menu

VARIABLES
    ses,           \* the SEND_CONTEXT of a session
    active,        \* the session being worked on
    shape,         \* what sending has wrapped around its message
    pc,            \* where mutt is
    editor,        \* its editor: "none", "running", "zombie" or "reaped"
    ProcessList,
    finished,      \* processes known to have finished
    SigChld,
    drafts,        \* sessions with a copy in $postponed
    fcc, sent,     \* sessions with a copy in $record, sessions that were sent
    given_up,      \* sessions the user aborted, or an error ended
    orig           \* the message replied to: its mailbox is open, it is there,
                   \* its replied flag

vars == <<ses, active, shape, pc, editor, ProcessList, finished, SigChld,
          drafts, fcc, sent, given_up, orig>>
procVars == <<editor, ProcessList, finished, SigChld>>
mailVars == <<drafts, fcc, sent, given_up, orig>>
------------------------------------------------------------------------------
Nobody == "index"

\* What sending wraps around the content and the envelope of a message.
Clear == [alt |-> FALSE, mixed |-> FALSE, intl |-> FALSE,
          wrap |-> "none", protected |-> FALSE]

Fresh == [begun |-> FALSE, reply |-> FALSE, tries |-> 0]

Init ==
  /\ ses = [s \in Sessions |-> Fresh]
  /\ active = Nobody /\ pc = "index" /\ shape = Clear
  /\ editor = [s \in Sessions |-> "none"]
  /\ ProcessList = {} /\ finished = {} /\ SigChld = FALSE
  /\ drafts = {} /\ fcc = {} /\ sent = {} /\ given_up = {}
  /\ orig = [open |-> TRUE, there |-> TRUE, replied |-> FALSE]

Done == drafts \cup sent \cup given_up

\* Back to the index.
Leave ==
  /\ active' = Nobody
  /\ pc' = "index"
------------------------------------------------------------------------------
(* The user in the index.                                                  *)

\* mutt_send_message(): a new message or a reply, after its send-hooks.
mutt_send_message(s, reply) ==
  /\ pc = "index"
  /\ ses[s] = Fresh
  /\ reply => orig.open /\ orig.there
  /\ ses' = [ses EXCEPT ![s].begun = TRUE, ![s].reply = reply]
  /\ active' = s
  /\ pc' = "first_edit"
  /\ UNCHANGED <<shape, procVars, mailVars>>

\* mutt_get_postponed(): the draft is deleted as soon as it has been read.
\* It is a reply if the message it answers is in the open mailbox.
mutt_get_postponed(s) ==
  /\ pc = "index"
  /\ s \in drafts
  /\ drafts' = drafts \ {s}
  /\ ses' = [ses EXCEPT ![s].reply = @ /\ orig.open /\ orig.there]
  /\ active' = s
  /\ pc' = "first_edit"
  /\ UNCHANGED <<shape, procVars, fcc, sent, given_up, orig>>

\* Other things the user does: another folder, or the original goes.
ChangeFolder ==
  /\ pc = "index"
  /\ orig' = [orig EXCEPT !.open = ~@]
  /\ UNCHANGED <<ses, active, shape, pc, procVars, drafts, fcc, sent, given_up>>

DeleteOriginal ==
  /\ pc = "index"
  /\ orig.open
  /\ orig.there
  /\ orig' = [orig EXCEPT !.there = FALSE]
  /\ UNCHANGED <<ses, active, shape, pc, procVars, drafts, fcc, sent, given_up>>
------------------------------------------------------------------------------
(* Editors.                                                                *)

EditorExits(s) ==
  /\ editor[s] = "running"
  /\ editor' = [editor EXCEPT ![s] = "zombie"]
  /\ SigChld' = TRUE
  /\ UNCHANGED <<ses, active, shape, pc, ProcessList, finished, mailVars>>

\* mutt_edit_file() and what follows, or an error of the first edit.
EditInForeground ==
  /\ pc = "first_edit"
  /\ \/ pc' = "compose" /\ UNCHANGED <<ses, active, given_up>>
     \/ /\ given_up' = given_up \cup {active}
        /\ Leave
        /\ UNCHANGED ses
  /\ UNCHANGED <<shape, procVars, drafts, fcc, sent, orig>>

\* mutt_background_edit_file(): the editor runs, the landing page is shown.
EditInBackground ==
  /\ pc \in {"first_edit", "compose"}
  /\ editor[active] \in {"none", "reaped"}
  /\ ses[active].tries < MaxTries
  /\ editor' = [editor EXCEPT ![active] = "running"]
  /\ ses' = [ses EXCEPT ![active].tries = @ + 1]
  /\ pc' = "landing"
  /\ UNCHANGED <<active, shape, ProcessList, finished, SigChld, mailVars>>

\* background_edit_landing_page(): waitpid() of this editor.
LandingSeesExit ==
  /\ pc = "landing"
  /\ editor[active] \in {"zombie", "reaped"}
  /\ editor' = [editor EXCEPT ![active] = "reaped"]
  /\ pc' = "compose"
  /\ UNCHANGED <<ses, active, shape, ProcessList, finished, SigChld, mailVars>>

\* The user leaves the landing page: the session is put in the background.
LandingLeft ==
  /\ pc = "landing"
  /\ ProcessList' = ProcessList \cup {active}
  /\ Leave
  /\ UNCHANGED <<ses, shape, editor, finished, SigChld, mailVars>>
------------------------------------------------------------------------------
(* The background compose menu.                                            *)

\* mutt_background_process_waitpid(): every child that has exited.
Reap ==
  LET dead == {s \in Sessions : editor[s] = "zombie"}
  IN /\ editor' = [s \in Sessions |-> IF s \in dead THEN "reaped" ELSE editor[s]]
     /\ finished' = finished \cup (dead \cap ProcessList)

mutt_background_compose_menu ==
  /\ pc = "index"
  /\ ProcessList # {}
  /\ SigChld' = TRUE
  /\ Reap
  /\ pc' = IF Cardinality(ProcessList) = 1 /\ ProcessList \subseteq finished'
           THEN "only" ELSE "menu"
  /\ UNCHANGED <<ses, active, shape, ProcessList, mailVars>>

\* update_bg_menu(), in every turn of the menu's loop, clears the flag first
\* and then waits for the children.
UpdateBegins ==
  /\ pc = "menu"
  /\ SigChld
  /\ SigChld' = FALSE
  /\ pc' = "update"
  /\ UNCHANGED <<ses, active, shape, editor, ProcessList, finished, mailVars>>

UpdateEnds ==
  /\ pc = "update"
  /\ Reap
  /\ pc' = "menu"
  /\ UNCHANGED <<ses, active, shape, ProcessList, SigChld, mailVars>>

LeaveMenu ==
  /\ pc = "menu"
  /\ pc' = "index"
  /\ UNCHANGED <<ses, active, shape, procVars, mailVars>>

\* Mutant: a session is resumed without waiting for its editor.
EditorWaited_Not(s) == TRUE

\* The user confirms a session that is still running: waitpid() of it.
EditorWaited(s) == s \in finished \/ editor[s] = "zombie"

\* mutt_send_message_resume().  The menu is entered again when it returns;
\* from the index, that is no different.
mutt_send_message_resume(s) ==
  /\ pc \in {"menu", "only"}
  /\ s \in ProcessList
  /\ EditorWaited(s)
  /\ editor' = [editor EXCEPT ![s] = IF @ = "zombie" THEN "reaped" ELSE @]
  /\ ProcessList' = ProcessList \ {s}
  /\ finished' = finished \ {s}
  /\ active' = s
  /\ pc' = "compose"
  /\ UNCHANGED <<ses, shape, SigChld, mailVars>>
------------------------------------------------------------------------------
(* The compose menu and what sending does.                                 *)

Abort ==
  /\ pc = "compose"
  /\ given_up' = given_up \cup {active}
  /\ Leave
  /\ UNCHANGED <<ses, shape, procVars, drafts, fcc, sent, orig>>

\* postpone_message() wraps, perhaps encrypts, and writes; a failure undoes it.
postpone_message ==
  /\ pc = "compose"
  /\ drafts' = drafts \cup {active}
  /\ Leave
  /\ UNCHANGED <<ses, shape, procVars, fcc, sent, given_up, orig>>

\* generate_multipart_alternative() and mutt_make_multipart_mixed().
MakeMultipart ==
  /\ pc = "compose"
  /\ \E alt, attach \in BOOLEAN :
       shape' = [shape EXCEPT !.alt = alt, !.mixed = attach]
  /\ pc' = "intl"
  /\ UNCHANGED <<ses, active, procVars, mailVars>>

\* The multiparts of sending are taken away, and the envelope's encodings.
Unprepared(sh) == [sh EXCEPT !.mixed = FALSE, !.alt = FALSE, !.intl = FALSE]

ToCompose(sh) ==
  /\ ses[active].tries < MaxTries
  /\ ses' = [ses EXCEPT ![active].tries = @ + 1]
  /\ shape' = sh
  /\ pc' = "compose"

\* mutt_prepare_envelope(), mutt_env_to_intl(): a bad IDN goes back.
PrepareEnvelope ==
  /\ pc = "intl"
  /\ LET prepared == [shape EXCEPT !.intl = TRUE]
     IN \/ shape' = prepared /\ pc' = "protect" /\ UNCHANGED ses
        \/ ToCompose(Unprepared(prepared))
  /\ UNCHANGED <<active, procVars, mailVars>>

\* mutt_protect(): protected headers go with the content that is signed or
\* encrypted.  An inline signature needs a text without attachments.
Wrapped(sec) ==
  CASE sec = "none" -> shape
    [] sec = "sign" -> [shape EXCEPT !.wrap = "signed", !.protected = TRUE]
    [] sec = "encrypt" -> [shape EXCEPT !.wrap = "encrypted", !.protected = TRUE]
    [] sec = "inline" -> [shape EXCEPT !.wrap = "inline"]

mutt_protect(sec) ==
  /\ pc = "protect"
  /\ sec = "inline" => ~shape.mixed /\ ~shape.alt
  /\ \/ shape' = Wrapped(sec) /\ pc' \in {"fcc_first", "mta"} /\ UNCHANGED ses
     \/ sec # "none" /\ ToCompose(Unprepared(shape))
  /\ UNCHANGED <<active, procVars, mailVars>>

\* save_fcc(), which the user may skip when it fails; with $fcc_before_send
\* before sending, otherwise after it.
SaveFcc(here, next) ==
  /\ pc = here
  /\ pc' = next
  /\ fcc' \in {fcc, fcc \cup {active}}
  /\ UNCHANGED <<ses, active, shape, procVars, drafts, sent, given_up, orig>>

\* Mutant: the signature stays on when the message could not be sent.
Unwrapped_Signed(sh) ==
  IF sh.wrap = "encrypted" THEN [sh EXCEPT !.wrap = "none"] ELSE sh

\* What a failed invoke_mta() does to the content: encrypted data is replaced
\* by the clear text, and a signature removed from multipart/signed.  An
\* inline signature is text/plain and matches neither.
Unwrapped(sh) ==
  IF sh.wrap \in {"encrypted", "signed"} THEN [sh EXCEPT !.wrap = "none"] ELSE sh

invoke_mta ==
  /\ pc \in {"mta", "mta_fcc"}
  /\ \/ /\ sent' = sent \cup {active}
        /\ pc' = IF pc = "mta" THEN "fcc_after" ELSE "replied"
        /\ UNCHANGED <<ses, shape>>
     \/ /\ ToCompose(Unprepared([Unwrapped(shape) EXCEPT !.protected = FALSE]))
        /\ UNCHANGED sent
  /\ UNCHANGED <<active, procVars, drafts, fcc, given_up, orig>>

\* The replied flag, unless the user took the references out of the message:
\* in the open mailbox, or, from the background, in the mailbox of the
\* original, which is opened for it.
SetReplied ==
  /\ pc = "replied"
  /\ orig' \in IF ses[active].reply /\ orig.there
                THEN {orig, [orig EXCEPT !.replied = TRUE]} ELSE {orig}
  /\ shape' = Clear
  /\ Leave
  /\ UNCHANGED <<ses, procVars, drafts, fcc, sent, given_up>>

Next ==
  \/ \E s \in Sessions :
       \/ \E reply \in BOOLEAN : mutt_send_message(s, reply)
       \/ mutt_get_postponed(s)
       \/ EditorExits(s)
       \/ mutt_send_message_resume(s)
  \/ ChangeFolder \/ DeleteOriginal
  \/ EditInForeground \/ EditInBackground \/ LandingSeesExit \/ LandingLeft
  \/ mutt_background_compose_menu \/ UpdateBegins \/ UpdateEnds \/ LeaveMenu
  \/ Abort \/ postpone_message \/ MakeMultipart \/ PrepareEnvelope
  \/ \E sec \in Security : mutt_protect(sec)
  \/ SaveFcc("fcc_first", "mta_fcc")
  \/ invoke_mta
  \/ SaveFcc("fcc_after", "replied")
  \/ SetReplied

Spec == Init /\ [][Next]_vars
------------------------------------------------------------------------------
TypeOK ==
  /\ active \in Sessions \cup {Nobody}
  /\ (pc \in {"index", "menu", "update", "only"}) <=> (active = Nobody)
  /\ editor \in [Sessions -> {"none", "running", "zombie", "reaped"}]
  /\ finished \subseteq ProcessList /\ ProcessList \subseteq Sessions
  /\ drafts \cup fcc \cup sent \cup given_up \subseteq Sessions
  /\ \A s \in Sessions : ses[s].tries \in 0 .. MaxTries

\* Whatever ended an attempt to send, the compose menu gets the message the
\* way the user wrote it: no multipart, signature, encoding or protected
\* header of the attempt is left in it (the error paths of
\* send_message_resume_compose_menu()).
ComposeIsClear == pc = "compose" => shape = Clear

\* A session goes on only when its editor does not run: the file is not read
\* while it is written.
EditorIsDone ==
  active # Nobody /\ pc # "landing" => editor[active] # "running"

\* An editor that has exited is shown as finished as soon as the menu has
\* handled SIGCHLD: no signal is lost between its flag and waitpid().
ExitIsNoticed ==
  pc = "menu" /\ ~SigChld => \A s \in ProcessList : editor[s] # "zombie"

\* Messages in the making are active, in the background, or ended: none is
\* forgotten, none is both in the background and active.
NoSessionForgotten ==
  /\ \A s \in Sessions : ses[s].begun /\ s \notin Done => s = active \/ s \in ProcessList
  /\ active \notin ProcessList

\* A replied flag says that a reply was sent: not one that was given up, postponed
\* or could not be sent.
RepliedIsTrue == orig.replied => \E s \in sent : ses[s].reply

\* Background sessions: the editor has exited before its file is used, its
\* exit is noticed, no session is forgotten, and a replied flag is true.
SessionsRight ==
  /\ EditorIsDone
  /\ ExitIsNoticed
  /\ NoSessionForgotten
  /\ RepliedIsTrue
==============================================================================
