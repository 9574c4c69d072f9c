----------------------------- MODULE Attachments -----------------------------
(***************************************************************************)
(* compose.c: the attachments of a message that is written.  The bodies are *)
(* a linked list that starts at msg->content; the menu shows an array of   *)
(* pointers into it, which handlers change together with the list, or make *)
(* again from it.  Each body names a file: mutt's own, to be unlinked with *)
(* the body, or one of the user's, which other programs write meanwhile.   *)
(***************************************************************************)
EXTENDS Integers, Sequences, SequencesExt, FiniteSets, FiniteSetsExt

CONSTANTS
    Files,         \* 1 .. n
    UserFiles,     \* those that are there before; the others are names not used yet
    MaxBodies,     \* bound: bodies of a session
    MaxTime,       \* bound: seconds
    MaxOthers,     \* bound: writes of other programs
    MaxCommands    \* bound: commands before the message is sent or given up

Bodies == 1 .. MaxBodies
NULL == 0

VARIABLES
    body,          \* BODY: its file and what is known of it
    next,          \* BODY.next
    content,       \* msg->content
    idx,           \* actx->idx: [content, unowned]
    files,         \* each file: is it there, when was it written
    now,
    mode,          \* "menu", "edit", "headers" (in the background), "sent", "saved", "quit"
    others, commands,
    kept,          \* files of the user's nobody asked to be removed
    made           \* files mutt made for the message and should remove

vars == <<body, next, content, idx, files, now, mode, others, commands, kept, made>>
listVars == <<next, content, idx>>
------------------------------------------------------------------------------
(* Lists. *)
Chain(c, nx) ==
  FoldLeft(LAMBDA s, n : LET b == IF s = <<>> THEN c ELSE nx[Last(s)]
                         IN IF b = NULL THEN s ELSE Append(s, b),
           <<>>, [n \in Bodies |-> n])
List == Chain(content, next)
Free == Bodies \ ({idx[i].content : i \in DOMAIN idx} \cup ToSet(List))
Entries == {idx[i].content : i \in DOMAIN idx}

\* mutt_gen_compose_attach_list(): the array from the list; whose file it is is not known.
Generated(c, nx) == [i \in DOMAIN Chain(c, nx) |-> [content |-> Chain(c, nx)[i], unowned |-> FALSE]]

\* mutt_stamp_attachment(), mutt_update_encoding(): nothing for a file that is not there.
Stamped(b) == [b EXCEPT !.stamp = now]
mutt_update_encoding(b, fs) ==
  IF fs[b.file].there THEN [Stamped(b) EXCEPT !.fresh = TRUE] ELSE b
Encoded(bs, some, fs) ==
  [b \in Bodies |-> IF b \in some THEN mutt_update_encoding(bs[b], fs) ELSE bs[b]]
\* A file is written: what is known of the bodies made of it is no longer so (but for those
\* that were looked at in this very second, which nothing shows).
Written(fs, f) == [fs EXCEPT ![f] = [there |-> TRUE, mtime |-> now]]
Outdated(bs, f) == [b \in Bodies |-> IF bs[b].file = f THEN [bs[b] EXCEPT !.fresh = @ /\ bs[b].stamp = now] ELSE bs[b]]

\* rfc3676_space_stuff() on msg->content, if it is format=flowed.
Stuff(b, by) ==
  IF b.flowed THEN [b EXCEPT !.stuffed = IF @ + by < 0 THEN 0 ELSE @ + by] ELSE b

\* mutt_free_body(): the file of a body goes with it if it is to be unlinked.
Freed(fs, bs) ==
  [f \in Files |-> IF \E b \in bs : body[b].file = f /\ body[b].unlink
                   THEN [fs[f] EXCEPT !.there = FALSE] ELSE fs[f]]
Asked(bs) == {body[b].file : b \in {c \in bs : body[c].unlink /\ body[c].asked}}
------------------------------------------------------------------------------
NewBody(f, unlink) ==
  [file |-> f, unlink |-> unlink, asked |-> FALSE, stamp |-> now, fresh |-> TRUE,
   flowed |-> FALSE, stuffed |-> 0]

Blank ==
  [file |-> Max(Files), unlink |-> FALSE, asked |-> FALSE, stamp |-> 0, fresh |-> TRUE,
   flowed |-> FALSE, stuffed |-> 0]

\* The text that was just written, format=flowed, in a temporary file.
Init ==
  /\ body = [b \in Bodies |->
               IF b = 1 THEN [Blank EXCEPT !.unlink = TRUE, !.flowed = TRUE, !.stuffed = 1] ELSE Blank]
  /\ next = [b \in Bodies |-> NULL]
  /\ content = 1
  /\ idx = Generated(1, next)
  /\ files = [f \in Files |-> [there |-> f \in UserFiles \cup {Max(Files)}, mtime |-> 0]]
  /\ now = 0 /\ mode = "menu" /\ others = 0 /\ commands = 0
  /\ kept = UserFiles /\ made = {Max(Files)}

\* update_idx(): the new body goes behind the last of the array, in both.
update_idx(b, unowned) ==
  /\ next' = [next EXCEPT ![Last(idx).content] = b, ![b] = NULL]
  /\ idx' = Append(idx, [content |-> b, unowned |-> unowned])
  /\ UNCHANGED content

\* OP_COMPOSE_ATTACH_FILE, one of the files: the user's own.
AttachFile ==
  /\ mode = "menu" /\ Free # {}
  /\ \E f \in UserFiles :
       /\ files[f].there
       /\ body' = [body EXCEPT ![Min(Free)] = NewBody(f, FALSE)]
       /\ update_idx(Min(Free), TRUE)
  /\ UNCHANGED <<files, now, mode, others, kept, made>>

\* OP_COMPOSE_ATTACH_KEY, OP_COMPOSE_ATTACH_MESSAGE: a temporary file is made.
AttachMade ==
  /\ mode = "menu" /\ Free # {}
  /\ \E f \in Files \ UserFiles :
       /\ ~files[f].there /\ \A i \in DOMAIN idx : body[idx[i].content].file # f
       /\ body' = [body EXCEPT ![Min(Free)] = NewBody(f, TRUE)]
       /\ files' = Written(files, f)
       /\ made' = made \cup {f}
       /\ update_idx(Min(Free), FALSE)
  /\ UNCHANGED <<now, mode, others, kept>>

\* OP_COMPOSE_NEW_MIME: a new file is touched, and the body made of it is the current one.
NewMime ==
  /\ mode = "menu" /\ Free # {}
  /\ \E f \in UserFiles :
       /\ ~files[f].there
       /\ files' = Written(files, f)
       /\ body' = [Outdated(body, f) EXCEPT ![Min(Free)] = NewBody(f, TRUE)]
       /\ update_idx(Min(Free), FALSE)
  /\ UNCHANGED <<now, mode, others, kept, made>>

\* delete_attachment() and OP_DELETE, of the entry menu->current is on: never the only one.
Owned(i) == body[idx[i].content].unlink /\ ~idx[i].unowned
delete_attachment(i) ==
  LET b == idx[i].content
  IN /\ next' = [c \in Bodies |-> IF c = b THEN NULL ELSE IF next[c] = b THEN next[b] ELSE next[c]]
     /\ idx' = RemoveAt(idx, i)
     /\ body' = [body EXCEPT ![b] = Blank]
     /\ files' = IF Owned(i) THEN [files EXCEPT ![body[b].file].there = FALSE] ELSE files
Delete ==
  /\ mode = "menu" /\ Len(idx) > 1
  /\ \E i \in DOMAIN idx :
       LET b == idx[i].content
       IN /\ delete_attachment(i)
          /\ content' = IF i = 1 THEN idx'[1].content ELSE content
          /\ kept' = IF Owned(i) /\ body[b].asked THEN kept \ {body[b].file} ELSE kept
          /\ made' = {f \in made : files'[f].there /\ (f = body[b].file => body[b].unlink)}
  /\ UNCHANGED <<now, mode, others>>

\* swap_attachments(), of the entries i and i + 1; OP_COMPOSE_MOVE_DOWN on i, and
\* OP_COMPOSE_MOVE_UP on i + 1.
swap_attachments(i) ==
  LET cur == idx[i].content
      nxt == idx[i + 1].content
  IN /\ next' = [b \in Bodies |-> CASE b = cur -> next[nxt]
                                    [] b = nxt -> cur
                                    [] i > 1 /\ b = idx[i - 1].content -> nxt
                                    [] OTHER -> next[b]]
     /\ content' = IF i = 1 THEN nxt ELSE content
     /\ idx' = [idx EXCEPT ![i] = idx[i + 1], ![i + 1] = idx[i]]
Move ==
  /\ mode = "menu"
  /\ \E i \in DOMAIN idx : next[idx[i].content] # NULL /\ swap_attachments(i)
  /\ UNCHANGED <<body, files, now, mode, others, kept, made>>
------------------------------------------------------------------------------
\* OP_COMPOSE_EDIT_FILE, OP_COMPOSE_EDIT_MIME, OP_FILTER, OP_EDIT_TYPE: the file of an
\* entry is changed or not, and looked at again.
EditFile ==
  /\ mode = "menu"
  /\ \E b \in Entries :
       LET f == body[b].file
       IN /\ files[f].there
          /\ \/ files' = Written(files, f) /\ body' = Encoded(Outdated(body, f), {b}, files')
             \/ files' = files /\ body' = Encoded(body, {b}, files)
  /\ UNCHANGED <<listVars, now, mode, others, kept, made>>

\* OP_COMPOSE_UPDATE_ENCODING, of the entry or of what is tagged.
UpdateEncoding ==
  /\ mode = "menu"
  /\ \E tagged \in SUBSET Entries : body' = Encoded(body, tagged, files)
  /\ UNCHANGED <<listVars, files, now, mode, others, kept, made>>

\* OP_COMPOSE_TOGGLE_UNLINK.
ToggleUnlink ==
  /\ mode = "menu"
  /\ \E b \in Entries :
       /\ body' = [body EXCEPT ![b].unlink = ~@, ![b].asked = ~body[b].unlink]
       /\ made' = IF body[b].unlink THEN made \ {body[b].file} ELSE made
  /\ UNCHANGED <<listVars, files, now, mode, others, kept>>

\* OP_COMPOSE_GET_ATTACHMENT: a copy to send; stamped again if the original was as known.
Restamped(b, new) == IF body[b].stamp >= files[body[b].file].mtime THEN Stamped(new) ELSE new
mutt_get_tmp_attachment(b, f) ==
  Restamped(b, [body[b] EXCEPT !.file = f, !.unlink = TRUE, !.asked = FALSE])
GetAttachment ==
  /\ mode = "menu"
  /\ \E b \in Entries, f \in Files \ UserFiles :
       /\ ~body[b].unlink /\ files[body[b].file].there
       /\ ~files[f].there /\ \A c \in Entries : body[c].file # f
       /\ body' = [body EXCEPT ![b] = mutt_get_tmp_attachment(b, f)]
       /\ files' = Written(files, f)
       /\ made' = made \ {f}
  /\ UNCHANGED <<listVars, now, mode, others, kept>>

\* OP_COMPOSE_RENAME_FILE: mutt_rename_file() to a name no file or body has (rename()
\* keeps the time of writing, so a body of that name would not notice).
RenameFile ==
  /\ mode = "menu"
  /\ \E b \in Entries, g \in UserFiles :
       LET f == body[b].file
       IN /\ files[f].there
          /\ ~files[g].there /\ \A c \in Entries : body[c].file # g
          /\ files' = [files EXCEPT ![g] = files[f], ![f].there = FALSE]
          /\ body' = [body EXCEPT ![b] = Restamped(b, [@ EXCEPT !.file = g])]
          /\ kept' = IF f \in kept THEN (kept \ {f}) \cup {g} ELSE kept
          /\ made' = IF f \in made THEN (made \ {f}) \cup {g} ELSE made
  /\ UNCHANGED <<listVars, now, mode, others>>
------------------------------------------------------------------------------
\* OP_COMPOSE_EDIT_MESSAGE: the first body is unstuffed for the editor, whatever was moved
\* there.  In the background the menu is left, and entered again with an array made anew.
EditMessage ==
  /\ mode = "menu" /\ files[body[content].file].there
  /\ files' = Written(files, body[content].file)
  /\ body' = Encoded([Outdated(body, body[content].file) EXCEPT ![content] = Stuff(Stuff(@, -1), 1)],
                     {content}, files')
  /\ UNCHANGED <<listVars, now, mode, others, kept, made>>
EditInBackground ==
  /\ mode = "menu" /\ files[body[content].file].there
  /\ body' = [body EXCEPT ![content] = Stuff(@, -1)]
  /\ mode' \in {"edit", "headers"}
  /\ idx' = <<>>
  /\ UNCHANGED <<next, content, files, now, others, kept, made>>
Resume ==
  /\ mode = "edit"
  /\ \E fs \in {files, Written(files, body[content].file)} :
       /\ files' = fs
       /\ body' = Encoded([(IF fs = files THEN body ELSE Outdated(body, body[content].file))
                             EXCEPT ![content] = Stuff(@, 1)], {content}, fs)
  /\ idx' = Generated(content, next) /\ mode' = "menu"
  /\ UNCHANGED <<next, content, now, others, kept, made>>

\* mutt_edit_headers(): the text is written again from the draft, and Attach: headers append
\* bodies to the list; or the draft is not changed, or cannot be read back once the file is
\* unlinked.
Attached(f, nx) == IF f = NULL THEN nx
                   ELSE [nx EXCEPT ![Last(Chain(content, nx))] = Min(Free), ![Min(Free)] = NULL]
mutt_edit_headers(bs, Finish(_, _, _)) ==
  LET own == bs[content].file
  IN \/ Finish(bs, next, files) /\ UNCHANGED <<kept, made>>
     \/ \E f \in {NULL} \cup {u \in UserFiles : files[u].there /\ Free # {}} :
          /\ Finish(IF f = NULL THEN Outdated(bs, own)
                    ELSE [Outdated(bs, own) EXCEPT ![Min(Free)] = NewBody(f, FALSE)],
                    Attached(f, next), Written(files, own))
          /\ UNCHANGED <<kept, made>>
     \/ /\ Finish(bs, next, [files EXCEPT ![own].there = FALSE])
        /\ kept' = kept \ {own} /\ made' = made \ {own}
\* What follows it: attachments that were added are seen behind the last of the array.
HeadersEdited(array) ==
  /\ mutt_edit_headers(IF mode = "menu" THEN [body EXCEPT ![content] = Stuff(@, -1)] ELSE body,
       LAMBDA bs, nx, fs :
         /\ files' = fs /\ next' = nx
         /\ body' = Encoded([bs EXCEPT ![content] = Stuff(@, 1)], {content}, fs)
         /\ idx' = IF nx[Last(array).content] # NULL THEN Generated(content, nx) ELSE array)
  /\ mode' = "menu"
  /\ UNCHANGED <<content, now, others>>
EditHeaders ==
  /\ mode = "menu" /\ files[body[content].file].there
  /\ HeadersEdited(idx)
ResumeHeaders ==
  /\ mode = "headers" /\ files[body[content].file].there
  /\ HeadersEdited(Generated(content, next))
------------------------------------------------------------------------------
\* check_attachments(): stops at a file that is not there, or at a question that is not
\* answered; yes are those that are encoded again.
Changed(b) == body[b].stamp < files[body[b].file].mtime
check_attachments(Ok(_), Stopped(_)) ==
  \E stop \in 1 .. Len(idx) + 1 :
    LET before == {idx[i].content : i \in 1 .. stop - 1}
    IN /\ \A b \in before : files[body[b].file].there
       /\ stop <= Len(idx) =>
            \/ ~files[body[idx[stop].content].file].there
            \/ Changed(idx[stop].content)
       /\ \E yes \in SUBSET {b \in before : Changed(b)} :
            IF stop > Len(idx) THEN Ok(yes) ELSE Stopped(Encoded(body, yes, files))

\* OP_COMPOSE_SEND_MESSAGE, OP_COMPOSE_POSTPONE_MESSAGE: the message is written, and freed.
\* What was refused is sent as it was known.
Leave(how) ==
  /\ mode = "menu"
  /\ check_attachments(
       LAMBDA yes :
         /\ LET refused == {b \in ToSet(List) : Changed(b)} \ yes
            IN body' = [b \in Bodies |-> IF b \in refused THEN [body[b] EXCEPT !.fresh = TRUE]
                                         ELSE Encoded(body, yes, files)[b]]
         /\ mode' = how
         /\ files' = Freed(files, ToSet(List))
         /\ kept' = kept \ Asked(ToSet(List)),
       LAMBDA bs : body' = bs /\ UNCHANGED <<mode, files, kept>>)
  /\ UNCHANGED <<listVars, now, others, made>>
Send == Leave("sent")
Postpone == Leave("saved")

\* OP_EXIT, and the message is not postponed.
Exit ==
  /\ mode = "menu"
  /\ LET unowned == {idx[i].content : i \in {j \in DOMAIN idx : idx[j].unowned}}
         rest == ToSet(List) \ unowned
     IN /\ files' = Freed(files, rest)
        /\ kept' = kept \ Asked(rest)
  /\ mode' = "quit"
  /\ UNCHANGED <<body, listVars, now, others, made>>
------------------------------------------------------------------------------
(* Other programs. *)
OtherWrites ==
  /\ others < MaxOthers /\ mode \in {"menu", "edit", "headers"}
  /\ \E f \in UserFiles :
       files[f].there /\ files' = Written(files, f) /\ body' = Outdated(body, f)
  /\ others' = others + 1
  /\ UNCHANGED <<listVars, now, mode, kept, made>>
OtherRemoves ==
  /\ others < MaxOthers /\ mode \in {"menu", "edit", "headers"}
  /\ \E f \in UserFiles :
       files[f].there /\ files' = [files EXCEPT ![f].there = FALSE] /\ kept' = kept \ {f}
                      /\ made' = made \ {f}
  /\ others' = others + 1
  /\ UNCHANGED <<body, listVars, now, mode>>
Tick ==
  /\ now < MaxTime /\ mode \in {"menu", "edit", "headers"}
  /\ now' = now + 1
  /\ UNCHANGED <<body, listVars, files, mode, others, kept, made>>

Command ==
  \/ AttachFile \/ AttachMade \/ NewMime \/ Delete \/ Move
  \/ EditFile \/ UpdateEncoding \/ ToggleUnlink \/ GetAttachment \/ RenameFile
  \/ EditMessage \/ EditInBackground \/ EditHeaders

Next ==
  \/ commands < MaxCommands /\ commands' = commands + 1 /\ Command
  \/ /\ \/ Resume \/ ResumeHeaders \/ Send \/ Postpone \/ Exit
        \/ OtherWrites \/ OtherRemoves \/ Tick
     /\ UNCHANGED commands

Spec == Init /\ [][Next]_vars
------------------------------------------------------------------------------
TypeOK ==
  /\ body \in [Bodies -> [file : Files, unlink : BOOLEAN, asked : BOOLEAN, stamp : 0 .. MaxTime,
                          fresh : BOOLEAN, flowed : BOOLEAN, stuffed : 0 .. 1]]
  /\ next \in [Bodies -> Bodies \cup {NULL}]
  /\ content \in Bodies
  /\ idx \in Seq([content : Bodies, unowned : BOOLEAN])
  /\ files \in [Files -> [there : BOOLEAN, mtime : 0 .. MaxTime]]
  /\ now \in 0 .. MaxTime /\ others \in 0 .. MaxOthers /\ commands \in 0 .. MaxCommands
  /\ mode \in {"menu", "edit", "headers", "sent", "saved", "quit"}
  /\ kept \subseteq Files /\ made \subseteq Files

\* The array of the menu is the list that is sent, in its order, however both were changed.
ArrayIsList ==
  mode = "menu" => [i \in DOMAIN idx |-> idx[i].content] = List

\* Text that is format=flowed is stuffed, once, whenever the menu is there to send it, and
\* what is not flowed never is.
StuffedOnce ==
  mode \in {"menu", "sent", "saved"} =>
    \A b \in ToSet(List) : body[b].stuffed = IF body[b].flowed THEN 1 ELSE 0

\* Files of the user's are there as long as the user did not ask for their removal.
FilesKept == \A f \in kept : files[f].there

\* What is sent was encoded for what its file contains, unless the user said no, or it was
\* changed in the second in which it was looked at.
SentIsKnown ==
  mode \in {"sent", "saved"} =>
    \A b \in ToSet(List) : body[b].fresh

\* The files mutt made for the message are gone when it is (copies of the user's files are
\* not counted: they stay when a message is given up).
MadeIsRemoved == mode \in {"sent", "saved", "quit"} => \A f \in made : ~files[f].there

AttachmentsRight == ArrayIsList /\ StuffedOnce /\ FilesKept /\ SentIsKnown /\ MadeIsRemoved
=============================================================================
