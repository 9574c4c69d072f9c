----------------------------- MODULE RecvAttach ------------------------------
(***************************************************************************)
(* recvattach.c, recvcmd.c: the attachments of a message that was received, *)
(* as a menu.  The tree of MIME parts is an array of entries with levels,  *)
(* in the order of the tree (the index); another array (v2r) leaves out    *)
(* what is below collapsed entries.  Commands go to the entry under the    *)
(* cursor or to all that are tagged: deleting parts, which copy.c leaves   *)
(* out when the message is written again, and answering or forwarding.     *)
(*                                                                         *)
(* Parts are numbered in the order of the tree.  What is inside an         *)
(* encrypted part are parts of their own, which are there if it could be   *)
(* decrypted.                                                              *)
(***************************************************************************)
EXTENDS Integers, Sequences, SequencesExt, FiniteSets, FiniteSetsExt

CONSTANTS
    Mails,         \* messages: sequences of parts [type, parent, inside]
    MaxCommands    \* bound

VARIABLES
    mail,
    readable,      \* encrypted parts that can be decrypted
    idx,           \* actx->idx: [part, level, parent_type]
    collapsed, tagged, deleted,     \* flags of BODY
    security,      \* hdr->security has ENCRYPT
    attach_del,    \* hdr->attach_del, once the menu was left
    sent,          \* what the last command took: [parent, quoted, attached, refused]
    commands

vars == <<mail, readable, idx, collapsed, tagged, deleted, security, attach_del, sent, commands>>
------------------------------------------------------------------------------
Parts == DOMAIN mail
Children(p) == {q \in Parts : mail[q].parent = p /\ ~mail[q].inside}
Inside(p) == {q \in Parts : mail[q].parent = p /\ mail[q].inside}
IsMultipart(p) == mail[p].type \in {"multipart", "alternative", "encrypted"}
IsMessage(p) == mail[p].type = "message"
Up(p) == mail[p].parent

\* mutt_generate_recvattach_list(): what is decrypted takes the place of its part; the
\* multipart on top is left out, unless its parts are alternatives.
Decrypted(p) == mail[p].type = "encrypted" /\ p \in readable
Place(place, p) ==       \* where the parts below p go
  CASE Decrypted(p) -> place
    [] mail[p].type = "multipart" /\ place.parent_type = "none" -> [place EXCEPT !.parent_type = "multipart"]
    [] OTHER -> [level |-> place.level + 1,
                 parent_type |-> IF IsMultipart(p) THEN "multipart" ELSE mail[p].type]
Places ==
  LET place[p \in Parts] == IF Up(p) = 0 THEN [level |-> 0, parent_type |-> "none"]
                            ELSE Place(place[Up(p)], Up(p))
  IN place
There ==                 \* not in an envelope that was or was not opened
  LET there[p \in Parts] == Up(p) = 0 \/ (there[Up(p)] /\ mail[p].inside = Decrypted(Up(p)))
  IN {p \in Parts : there[p]}
Stripped(p) == mail[p].type = "multipart" /\ Places[p].parent_type = "none"
Listed == {p \in There : ~Decrypted(p) /\ ~Stripped(p)}
mutt_generate_recvattach_list ==
  [n \in 1 .. Cardinality(Listed) |->
     LET p == CHOOSE q \in Listed : Cardinality({r \in Listed : r <= q}) = n
     IN [part |-> p, level |-> Places[p].level, parent_type |-> Places[p].parent_type]]

\* Mutant: entries of the same level count as being below.
EndOf_Same(r) ==
  Min({s \in r + 1 .. Len(idx) + 1 :
         s = Len(idx) + 1 \/ (s <= Len(idx) /\ idx[s].level < idx[r].level)})

\* count_tagged_children(), is_parent(), mutt_update_v2r(): the entries behind r of a higher
\* level are below it.
EndOf(r) ==
  Min({s \in r + 1 .. Len(idx) + 1 :
         s = Len(idx) + 1 \/ (s <= Len(idx) /\ idx[s].level <= idx[r].level)})
Below(r) == r + 1 .. EndOf(r) - 1

\* mutt_update_v2r(): what is below collapsed entries is skipped.
mutt_update_v2r ==
  LET rows[n \in 0 .. Len(idx)] ==
        IF n = 0 THEN <<>>
        ELSE LET s == rows[n - 1]
                 r == CASE s = <<>> -> 1
                        [] idx[Last(s)].part \in collapsed -> EndOf(Last(s))
                        [] OTHER -> Last(s) + 1
             IN IF r > Len(idx) THEN s ELSE Append(s, r)
  IN rows[Len(idx)]
Visible == ToSet(mutt_update_v2r)
Part(r) == idx[r].part
Tagged == {r \in DOMAIN idx : Part(r) \in tagged}

\* find_parent(), find_common_parent(): 0 for the message itself.
find_common_parent ==
  LET above == {r \in 1 .. Min(Tagged) - 1 :
                  IsMessage(Part(r)) /\ Cardinality(Below(r) \cap Tagged) = Cardinality(Tagged)}
  IN IF above = {} THEN 0 ELSE Part(Max(above))
find_parent(cur) ==
  LET above == {r \in 1 .. cur - 1 : IsMessage(Part(r)) /\ cur \in Below(r)}
  IN IF above = {} THEN 0 ELSE Part(Max(above))

\* mutt_can_decode()
mutt_can_decode(p) ==
  LET can[q \in Parts] ==
        \/ mail[q].type \in {"text", "message", "encrypted"}
        \/ IsMultipart(q) /\ \E r \in Children(q) : can[r]
  IN can[p]
------------------------------------------------------------------------------
Nothing == [what |-> "none", parent |-> 0, on |-> {}, quoted |-> {}, attached |-> {}, refused |-> {}]

\* crypt_query() of the parts as they are, and what was decrypted.
Init ==
  /\ mail \in Mails
  /\ readable \in SUBSET {p \in Parts : mail[p].type = "encrypted"}
  /\ idx = mutt_generate_recvattach_list
  /\ collapsed = {} /\ tagged = {} /\ deleted = {}
  /\ security = \E p \in There : mail[p].type = "encrypted"
  /\ attach_del = FALSE
  /\ sent = Nothing /\ commands = 0

\* attach_collapse(): expanding expands what is below, too.
Collapse ==
  /\ \E r \in Visible :
       /\ Children(Part(r)) # {}
       /\ collapsed' = IF Part(r) \in collapsed
                       THEN collapsed \ {Part(s) : s \in {r} \cup Below(r)}
                       ELSE collapsed \cup {Part(r)}
  /\ sent' = Nothing
  /\ UNCHANGED <<tagged, deleted>>

\* mutt_tag_attach()
Tag ==
  /\ \E r \in Visible : tagged' = IF Part(r) \in tagged THEN tagged \ {Part(r)} ELSE tagged \cup {Part(r)}
  /\ sent' = Nothing
  /\ UNCHANGED <<collapsed, deleted>>

\* OP_DELETE, OP_UNDELETE: parts of multiparts only, and nothing of encrypted messages.
Deletable(r) == idx[r].parent_type = "multipart"
Delete ==
  /\ ~security
  /\ \E r \in Visible : Deletable(r) /\ deleted' = deleted \cup {Part(r)}
  /\ sent' = Nothing
  /\ UNCHANGED <<collapsed, tagged>>
Undelete ==
  /\ \E r \in Visible : deleted' = deleted \ {Part(r)}
  /\ sent' = Nothing
  /\ UNCHANGED <<collapsed, tagged>>

\* The same with the tag-prefix: as many entries of the index as there are in the view.
Counted == {r \in Tagged : r <= Cardinality(Visible)}
DeleteTagged ==
  /\ ~security /\ tagged # {}
  /\ deleted' = deleted \cup {Part(r) : r \in {s \in Counted : Deletable(s)}}
  /\ sent' = Nothing
  /\ UNCHANGED <<collapsed, tagged>>
UndeleteTagged ==
  /\ tagged # {}
  /\ deleted' = deleted \ {Part(r) : r \in Counted}
  /\ sent' = Nothing
  /\ UNCHANGED <<collapsed, tagged>>
------------------------------------------------------------------------------
\* The entries a command is for: check_all_msg(), check_can_decode().
Selections == {{r} : r \in Visible} \cup (IF Tagged = {} THEN {} ELSE {Tagged})
AllMessages(on) == \A r \in on : IsMessage(Part(r))
Decodable(on) == {r \in on : mutt_can_decode(Part(r))}
Took(what, parent, on, quoted, attached, refused) ==
  sent' = [what |-> what, parent |-> parent, on |-> {Part(r) : r \in on},
           quoted |-> {Part(r) : r \in quoted}, attached |-> {Part(r) : r \in attached},
           refused |-> {Part(r) : r \in refused}]
\* With the tag-prefix cur is NULL; without it the tags count as well, in places.
Parent(cur, on) == IF cur THEN find_parent(Min(on)) ELSE find_common_parent

\* attach_forward_msgs(): encapsulated or quoted, all of them.
ForwardMessages(on) ==
  /\ AllMessages(on)
  /\ \E mime \in BOOLEAN :
       Took("messages", 0, on, IF mime THEN {} ELSE on, IF mime THEN on ELSE {}, {})

\* attach_forward_bodies(): all as attachments if the user says so; else what can be decoded
\* is quoted and the rest attached, after a question if there are several.
ForwardBodies(on, cur) ==
  /\ ~AllMessages(on)
  /\ LET rest == on \ Decodable(on)
     IN \E all, any \in BOOLEAN :
          /\ all => ~cur \/ rest = {}
          /\ ~any => ~all /\ ~cur /\ Cardinality(on) > 1 /\ rest # {}
          /\ Took("bodies", Parent(cur, on), on,
                  IF all THEN {} ELSE Decodable(on),
                  IF all THEN on ELSE IF any THEN rest ELSE {},
                  IF any THEN {} ELSE rest)
mutt_attach_forward ==
  /\ \E on \in Selections, cur \in BOOLEAN :
       /\ cur => Cardinality(on) = 1
       /\ ~cur => on = Tagged
       /\ ForwardMessages(on) \/ ForwardBodies(on, cur)
  /\ UNCHANGED <<collapsed, tagged, deleted>>

\* mutt_attach_reply(): messages are included; of other parts those that can be decoded,
\* the others are attached if it is one, or if the user says so.
mutt_attach_reply ==
  /\ \E on \in Selections, cur \in BOOLEAN :
       /\ cur => Cardinality(on) = 1
       /\ ~cur => on = Tagged
       /\ LET rest == on \ Decodable(on)
              ask == Cardinality(Tagged) > 1 /\ rest # {}
          IN \/ AllMessages(on) /\ Took("messages", 0, on, on, {}, {})
             \/ /\ ~AllMessages(on)
                /\ \E any \in BOOLEAN :
                     /\ ~ask => any
                     /\ Took("bodies", Parent(cur, on), on, Decodable(on),
                             IF cur \/ any THEN rest ELSE {}, IF cur \/ any THEN {} ELSE rest)
  /\ UNCHANGED <<collapsed, tagged, deleted>>

\* mutt_attach_bounce(), mutt_attach_resend(), mutt_attach_mail_sender(): messages only.
BounceOrResend ==
  /\ \E on \in Selections : AllMessages(on) /\ Took("messages", 0, on, on, {}, {})
  /\ UNCHANGED <<collapsed, tagged, deleted>>

\* recvattach_edit_content_type(): the entries are made again, and lose their tags.
EditType ==
  /\ UNCHANGED mail
  /\ \E ps \in SUBSET {p \in Parts : mail[p].type = "encrypted"} :
       /\ readable' = ps
       /\ idx' = mutt_generate_recvattach_list'
       /\ deleted' = deleted \cap There'
  /\ collapsed' = {} /\ tagged' = {} /\ sent' = Nothing
  /\ security' = (security \/ \E p \in There' : mail[p].type = "encrypted")

\* OP_EXIT
Exit ==
  /\ attach_del' = (\E r \in DOMAIN idx : Part(r) \in deleted)
  /\ sent' = Nothing /\ tagged' = {} /\ collapsed' = {}
  /\ UNCHANGED deleted

Next ==
  /\ commands < MaxCommands /\ commands' = commands + 1
  /\ \/ /\ \/ Collapse \/ Tag \/ Delete \/ Undelete \/ DeleteTagged \/ UndeleteTagged
           \/ mutt_attach_forward \/ mutt_attach_reply \/ BounceOrResend
        /\ UNCHANGED <<mail, readable, idx, security, attach_del>>
     \/ EditType /\ UNCHANGED attach_del
     \/ Exit /\ UNCHANGED <<mail, readable, idx, security>>

Spec == Init /\ [][Next]_vars
------------------------------------------------------------------------------
(* copy.c: the message is written again without what is deleted.  A part is *)
(* a header of one byte, a body, and for multiparts a line between parts   *)
(* and one at the end; a text has one byte, other parts have ten.       *)
Size ==                  \* BODY.length
  LET size[p \in Parts] ==
        IF Children(p) = {} THEN IF mail[p].type = "text" THEN 1 ELSE 10
        ELSE MapThenSumSet(LAMBDA q : size[q] + 2, Children(p)) + (IF IsMultipart(p) THEN 1 ELSE 0)
  IN size
Before(p) == {q \in Children(Up(p)) : q < p}
HdrOffset(size) ==       \* BODY.hdr_offset
  LET at[p \in Parts] ==
        IF Up(p) = 0 THEN 0
        ELSE at[Up(p)] + 2 + MapThenSumSet(LAMBDA q : size[q] + 2, Before(p))
  IN at
Bytes(from, to) == [n \in 1 .. to - from |-> from + n - 1]

\* copy_delete_attach(): what is written of a part from its header on; -p stands for the
\* three lines that say that p was deleted.  "end" is where a part ends.
Order(ps) == [n \in 1 .. Cardinality(ps) |-> CHOOSE p \in ps : Cardinality({q \in ps : q <= p}) = n]
Noticed(r, p, at, end) ==
  [out |-> r.out \o Bytes(r.pos, at[p]) \o <<-p>> \o Bytes(at[p], at[p] + 1), pos |-> end[p]]
copy_delete_attach(at, end) ==
  LET Rest(r, b) == r.out \o Bytes(r.pos, end[b])
      copy[b \in Parts] ==
        Rest(FoldLeft(LAMBDA r, p :
                        IF p \in deleted THEN Noticed(r, p, at, end)
                        ELSE IF Children(p) = {} THEN r
                        ELSE [out |-> r.out \o Bytes(r.pos, at[p]) \o copy[p], pos |-> end[p]],
                      [out |-> <<>>, pos |-> at[b]], Order(Children(b))), b)
  IN copy[1]

\* count_delete_lines(): the lines take 89 bytes, the date, and a digit more for each power
\* of ten of the length (in units where 89 and the date are 5).
Digits(n) == IF n >= 10 THEN 1 ELSE 0
NoticeSize == 5
count_delete_lines(size) ==
  LET less[b \in Parts] ==
        IF b \in deleted THEN size[b] - NoticeSize - Digits(size[b])
        ELSE MapThenSumSet(LAMBDA q : less[q], Children(b))
  IN less[1]
------------------------------------------------------------------------------
TypeOK ==
  /\ mail \in Mails /\ readable \subseteq Parts
  /\ idx \in Seq([part : Parts, level : 0 .. Len(mail), parent_type : {"none", "multipart", "message"}])
  /\ collapsed \subseteq Parts /\ tagged \subseteq Parts /\ deleted \subseteq Parts
  /\ security \in BOOLEAN /\ attach_del \in BOOLEAN
  /\ commands \in 0 .. MaxCommands

(* The tree, for comparison. *)
Ancestors(p) ==
  LET above[q \in Parts] == IF Up(q) = 0 THEN {} ELSE {Up(q)} \cup above[Up(q)]
  IN above[p]
\* What is below a part in the list (a decrypted part is not in it, its contents are).
ShownBelow(p) == {q \in Listed : p \in Ancestors(q)}

\* The view has what is in no collapsed part, in order, although it is made from levels.
ViewIsTree ==
  /\ {Part(r) : r \in Visible} = {p \in Listed : Ancestors(p) \cap collapsed = {}}
  /\ \A r \in DOMAIN idx : {Part(s) : s \in Below(r)} = ShownBelow(Part(r))

\* What was chosen is quoted or attached, once, but for what the user refused; and it is
\* answered to the innermost message that contains all of it.
ChosenIsTaken ==
  /\ sent.on = sent.quoted \cup sent.attached \cup sent.refused
  /\ sent.quoted \cap sent.attached = {}
  /\ sent.what = "bodies" =>
       LET around == {p \in Listed : IsMessage(p) /\ \A q \in sent.on : p \in Ancestors(q)}
       IN sent.parent = IF around = {} THEN 0 ELSE Max(around)

\* Nothing is deleted from a message that was encrypted, nor a message as a whole or the
\* text of a message that has no parts.
DeletedIsPart ==
  \A p \in deleted :
    /\ Up(p) # 0
    /\ \A q \in Ancestors(p) : mail[q].type # "encrypted"
    /\ IsMultipart(Up(p))

\* out is what is left, and as long as it is said to be.
RestCopied(out, size, at, end) ==
  LET kept  == SelectSeq(out, LAMBDA b : b >= 0)
      gone  == UNION {at[p] + 1 .. end[p] - 1 : p \in deleted}
      marks == {-out[n] : n \in {m \in DOMAIN out : out[m] < 0}}
      wide  == MapThenSumSet(LAMBDA p : NoticeSize + Len(ToString(size[p])) - 1, marks)
  IN /\ kept = SelectSeq(Bytes(0, end[1]), LAMBDA b : b \notin gone)
     /\ Len(kept) + wide - 1 = size[1] - count_delete_lines(size)
\* The message that is written has all that was not deleted, in order, and the headers of
\* what was; and it is as long as its Content-Length says.
CopyIsRest ==
  (\A p \in Parts : mail[p].type # "encrypted") =>
    \E size \in {Size} : \E at \in {HdrOffset(size)} :
    \E end \in {[p \in Parts |-> at[p] + 1 + size[p]]} :
      RestCopied(copy_delete_attach(at, end), size, at, end)

RecvAttachRight == ViewIsTree /\ ChosenIsTaken /\ DeletedIsPart /\ CopyIsRest
=============================================================================
