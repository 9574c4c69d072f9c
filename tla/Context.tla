------------------------------- MODULE Context -------------------------------
(***************************************************************************)
(* An open mailbox as the index sees it: the CONTEXT of mutt.h, with its   *)
(* message headers, the limited view of them and the counters on the       *)
(* status line, through the commands that change flags, new mail, scoring, *)
(* limiting, sorting, syncing and closing (flags.c, mx.c, pattern.c,       *)
(* sort.c, score.c, curs_main.c), and the mailbox on disk, $mbox and       *)
(* $trash that those commands write.                                       *)
(*                                                                         *)
(* mutt is single-threaded: what interleaves with a command is the outside *)
(* world at the points where the command looks at it (mail arriving before *)
(* the lock is taken, an append that fails half way, SIGINT between two    *)
(* messages).  A C loop over messages is one step per message; pc says     *)
(* which loop runs, todo what is left of it.                               *)
(***************************************************************************)
EXTENDS Integers, Sequences, FiniteSets, SequencesExt

CONSTANTS
    MaxMsgs,    \* bound on the messages that ever arrive
    MaxCopies,  \* bound on the copies of one message in $mbox or $trash
    Settings    \* the mailboxes and configurations to look at

Ids == 1 .. MaxMsgs
Magics == {"MUTT_MBOX", "MUTT_MAILDIR"}
AllOptions == {"flag_safe", "keep_flagged", "mark_old", "move", "trash", "score",
               "supersedes", "delete_untag", "toggle_write", "SigInt", "fail", "sort", "limit",
               "delete_no"}
Flags == {"DELETE", "PURGE", "NEW", "OLD", "READ", "REPLIED", "FLAG", "TAG"}

\* What the mailbox on disk says of a message: Status: and X-Status:, or
\* the flags in the name of a maildir file.
Stored == SUBSET {"read", "old", "replied", "flagged"}

ASSUME BoundsAssumption == MaxMsgs \in Nat /\ MaxCopies \in Nat
ASSUME SettingsAssumption ==
  Settings \subseteq
    [ magic : Magics,             \* ctx->magic
      options : SUBSET AllOptions,  \* the variables that are set, and what may happen
      commands : SUBSET Flags,    \* the flag commands the user gives
      newmail : SUBSET Stored,    \* the flags with which messages arrive
      msgs : 0 .. MaxMsgs ]       \* bound on the messages of this mailbox

VARIABLES
    conf,       \* the setting, which does not change
    ctx,        \* the counters and switches of the CONTEXT
    hdrs,       \* ctx->hdrs: pointers to headers, in the order of the index
    v2r,        \* ctx->v2r up to ctx->vcount: positions in hdrs
    header,     \* the HEADER each id points to
    sort,       \* $sort
    disk,       \* the mailbox on disk: the messages it holds, and their flags
    saved,      \* copies of each message in $mbox
    trash,      \* copies of each message in $trash
    arrived,    \* ids 1 .. arrived have been delivered
    pc          \* the loop that is running

store == <<disk, saved, trash, arrived>>
vars == <<conf, ctx, hdrs, v2r, header, sort, disk, saved, trash, arrived, pc>>
------------------------------------------------------------------------------
CONTEXT ==
  [ tagged : Int, new : Int, unread : Int, deleted : Int, flagged : Int,
    changed : BOOLEAN, dontwrite : BOOLEAN,
    limit : BOOLEAN, pattern : SUBSET Ids,  \* ctx->pattern is set; what it matches
    id_hash : SUBSET Ids ]                  \* {}: not made yet

\* virtual is the position in v2r, 0 for the -1 of a message not in view.
HEADER ==
  [ read : BOOLEAN, old : BOOLEAN, replied : BOOLEAN, flagged : BOOLEAN,
    deleted : BOOLEAN, purge : BOOLEAN, tagged : BOOLEAN, changed : BOOLEAN,
    virtual : Nat ]

Work == [m : Ids, flag : Flags, bf : BOOLEAN]

Places == {"index", "apply", "count", "close", "move", "trash", "write", "mh_write", "fastclose", "closed"}
Pc == [ at : Places, todo : Seq(Work), msgno : Nat, oldcount : Nat,
        bail : BOOLEAN, then : {"index", "close"},
        purge : BOOLEAN, move : BOOLEAN, closing : BOOLEAN ]

NewContext ==
  [ tagged |-> 0, new |-> 0, unread |-> 0, deleted |-> 0, flagged |-> 0,
    changed |-> FALSE, dontwrite |-> FALSE, limit |-> FALSE, pattern |-> Ids, id_hash |-> {} ]

At(place) ==
  [ at |-> place, todo |-> <<>>, msgno |-> 0, oldcount |-> 0, bail |-> FALSE, then |-> "index",
    purge |-> TRUE, move |-> FALSE, closing |-> FALSE ]

\* mutt_new_header() and the parsers: flags as stored, nothing pending.
NewHeader(f) ==
  [ read |-> "read" \in f, old |-> "old" \in f,
    replied |-> "replied" \in f, flagged |-> "flagged" \in f,
    deleted |-> FALSE, purge |-> FALSE, tagged |-> FALSE, changed |-> FALSE,
    virtual |-> 0 ]

NoHeader == NewHeader({})

\* What is written for a header: "RO" for a read message, so read implies old.
Written(h) ==
  {f \in {"read", "old", "replied", "flagged"} : h[f] \/ (f = "old" /\ h.read)}

Msgs == Range(hdrs)
On(option) == option \in conf.options
Bit(b) == IF b THEN 1 ELSE 0
------------------------------------------------------------------------------
(***************************************************************************)
(* _mutt_set_flag(): the new context and header, [c |-> ..., h |-> ...].   *)
(* upd is MUTT_SET_FLAG_UPDATE_CONTEXT.  The access rights of IMAP and     *)
(* ctx->readonly, which nothing here sets, are left out.                   *)
(***************************************************************************)
Same(c, h) == [c |-> c, h |-> h]
Count(c, counter, n, upd) == IF upd THEN [c EXCEPT ![counter] = @ + n] ELSE c
Dirty(c, upd) == [c EXCEPT !.changed = @ \/ upd]

set_delete(c, h, bf, upd) ==
  IF bf /\ ~h.deleted /\ ~(h.flagged /\ On("flag_safe"))
    THEN [c |-> Count(c, "deleted", 1, upd), h |-> [h EXCEPT !.deleted = TRUE]]
  ELSE IF ~bf /\ h.deleted
    THEN [c |-> Count(c, "deleted", -1, upd), h |-> [h EXCEPT !.deleted = FALSE]]
  ELSE Same(c, h)

set_new(c, h, bf, upd) ==
  IF bf /\ (h.read \/ h.old)
    THEN [c |-> Dirty(Count(Count(c, "new", 1, upd), "unread", Bit(h.read), upd), upd),
          h |-> [h EXCEPT !.old = FALSE, !.read = FALSE, !.changed = TRUE]]
  ELSE IF ~bf /\ ~h.read
    THEN [c |-> Dirty(Count(Count(c, "new", -Bit(~h.old), upd), "unread", -1, upd), upd),
          h |-> [h EXCEPT !.read = TRUE, !.changed = TRUE]]
  ELSE Same(c, h)

set_old(c, h, bf, upd) ==
  IF bf = h.old THEN Same(c, h)
  ELSE [c |-> Dirty(Count(c, "new", IF h.read THEN 0 ELSE IF bf THEN -1 ELSE 1, upd), upd),
        h |-> [h EXCEPT !.old = bf, !.changed = TRUE]]

set_read(c, h, bf, upd) ==
  IF bf = h.read THEN Same(c, h)
  ELSE LET n == IF bf THEN -1 ELSE 1
       IN [c |-> Dirty(Count(Count(c, "unread", n, upd),
                             "new", IF h.old THEN 0 ELSE n, upd), upd),
           h |-> [h EXCEPT !.read = bf, !.changed = TRUE]]

\* Answering a message also reads it.
set_replied(c, h, bf, upd) ==
  IF bf = h.replied THEN Same(c, h)
  ELSE IF bf /\ ~h.read
    THEN [c |-> Dirty(Count(Count(c, "unread", -1, upd), "new", -Bit(~h.old), upd), upd),
          h |-> [h EXCEPT !.replied = TRUE, !.read = TRUE, !.changed = TRUE]]
  ELSE [c |-> Dirty(c, upd), h |-> [h EXCEPT !.replied = bf, !.changed = TRUE]]

set_flagged(c, h, bf, upd) ==
  IF bf = h.flagged THEN Same(c, h)
  ELSE [c |-> Dirty(Count(c, "flagged", IF bf THEN 1 ELSE -1, upd), upd),
        h |-> [h EXCEPT !.flagged = bf, !.changed = TRUE]]

set_tagged(c, h, bf, upd) ==
  IF bf = h.tagged THEN Same(c, h)
  ELSE [c |-> Count(c, "tagged", IF bf THEN 1 ELSE -1, upd),
        h |-> [h EXCEPT !.tagged = bf]]

mutt_set_flag(c, h, flag, bf, upd) ==
  CASE flag = "DELETE"  -> set_delete(c, h, bf, upd)
    [] flag = "PURGE"   -> Same(c, [h EXCEPT !.purge = bf])
    [] flag = "NEW"     -> set_new(c, h, bf, upd)
    [] flag = "OLD"     -> set_old(c, h, bf, upd)
    [] flag = "READ"    -> set_read(c, h, bf, upd)
    [] flag = "REPLIED" -> set_replied(c, h, bf, upd)
    [] flag = "FLAG"    -> set_flagged(c, h, bf, upd)
    [] flag = "TAG"     -> set_tagged(c, h, bf, upd)

\* mutt_score_message(): which thresholds the score crosses is not modelled.
Scores == SUBSET {"DELETE", "READ", "FLAG"}
mutt_score_message(c, h, crossed, upd) ==
  LET If(s, flag) == IF flag \in crossed THEN mutt_set_flag(s.c, s.h, flag, TRUE, upd) ELSE s
  IN If(If(If(Same(c, h), "DELETE"), "READ"), "FLAG")
------------------------------------------------------------------------------
(***************************************************************************)
(* Sorting and the view.                                                   *)
(***************************************************************************)
Before(a, b, key) == IF key = "order" THEN a < b ELSE b < a

Listings(S) == [1 .. Cardinality(S) -> S]

\* The messages S in the order of key.
SortedBy(S, key) ==
  {s \in Listings(S) : /\ Range(s) = S
                       /\ \A i, j \in DOMAIN s : i < j => Before(s[i], s[j], key)}

\* The positions P from first to last.
Ascending(P) == SortedBy(P, "order")

\* The positions in hd of the messages that are in view.
InView(hd, hmap) == {i \in DOMAIN hd : hmap[hd[i]].virtual # 0}

\* The headers numbered by their place in the view v.
Numbered(hd, v, hmap) ==
  [m \in Ids |->
     IF \E k \in DOMAIN v : hd[v[k]] = m
       THEN [hmap[m] EXCEPT !.virtual = CHOOSE k \in DOMAIN v : hd[v[k]] = m]
       ELSE hmap[m]]

\* mutt_sort_headers() on the messages S with the headers hmap.
mutt_sort_headers(S, key, hmap) ==
  \E hd \in SortedBy(S, key) : \E v \in Ascending(InView(hd, hmap)) :
    /\ hdrs' = hd
    /\ v2r' = v
    /\ header' = Numbered(hd, v, hmap)
------------------------------------------------------------------------------
(***************************************************************************)
(* New messages: mx_update_context() counts those from pc.msgno on.        *)
(***************************************************************************)
Counted == IF pc.at = "count" THEN {hdrs[i] : i \in 1 .. pc.msgno - 1} ELSE Msgs

\* What a superseding message may find: mutt_make_id_hash() hashes all of
\* ctx->hdrs, the messages not counted yet included.
Hashed(c) == IF c.id_hash = {} THEN Msgs ELSE c.id_hash

Crossed == IF On("score") THEN Scores ELSE {{}}

\* The message that h supersedes is scored again, as a counted one.
Superseded(c, hmap) ==
  {[c |-> c, hmap |-> hmap]} \cup
  IF ~On("supersedes") THEN {}
  ELSE {[c |-> [c EXCEPT !.id_hash = Hashed(c)], hmap |-> hmap]} \cup
       {LET r == mutt_score_message(c, hmap[s[1]], s[2], TRUE)
        IN [c |-> [r.c EXCEPT !.id_hash = Hashed(c)], hmap |-> [hmap EXCEPT ![s[1]] = r.h]]
          : s \in Hashed(c) \X Crossed}

Tally(c, h) ==
  [c EXCEPT !.changed = @ \/ h.changed,
            !.flagged = @ + Bit(h.flagged), !.deleted = @ + Bit(h.deleted),
            !.unread = @ + Bit(~h.read), !.new = @ + Bit(~h.read /\ ~h.old)]

\* Mutant: scoring a message that arrives updates the counters at once.
mx_update_context_CountsTwice ==
  /\ pc.at = "count"
  /\ pc.msgno <= Len(hdrs)
  /\ LET m == hdrs[pc.msgno]
     IN \E crossed \in Crossed :
          LET r == mutt_score_message(ctx, header[m], crossed, TRUE)
          IN /\ ctx' = Tally(r.c, r.h)
             /\ header' = [header EXCEPT ![m] = r.h]
  /\ v2r' = IF ctx.limit THEN v2r ELSE Append(v2r, pc.msgno)
  /\ pc' = [pc EXCEPT !.msgno = @ + 1]
  /\ UNCHANGED <<hdrs, sort, store>>

mx_update_context ==
  /\ pc.at = "count"
  /\ pc.msgno <= Len(hdrs)
  /\ LET m == hdrs[pc.msgno]
         seen == [header EXCEPT ![m].virtual = IF ctx.limit THEN 0 ELSE Len(v2r) + 1]
     IN \E s \in Superseded(ctx, seen), crossed \in Crossed :
          LET r == mutt_score_message(s.c, s.hmap[m], crossed, FALSE)
              c == [r.c EXCEPT !.id_hash = IF @ = {} THEN {} ELSE @ \cup {m}]
          IN /\ ctx' = Tally(c, r.h)
             /\ header' = [s.hmap EXCEPT ![m] = r.h]
     /\ v2r' = IF ctx.limit THEN v2r ELSE Append(v2r, pc.msgno)
  /\ pc' = [pc EXCEPT !.msgno = @ + 1]
  /\ UNCHANGED <<hdrs, sort, store>>

\* Mutant: messages that arrive in a limited view are not tried against it.
update_index_Hidden ==
  /\ pc.at = "count"
  /\ pc.msgno > Len(hdrs)
  /\ mutt_sort_headers(Msgs, sort, header)
  /\ pc' = At("index")
  /\ UNCHANGED <<ctx, sort, store>>

\* update_index_unthreaded(): new messages that match the limit come into
\* view; with an empty view, where there is no current message, all are tried.
\* When mbox_sync_mailbox() found the mail, its bail: has sorted hdrs already.
update_index ==
  /\ pc.at = "count"
  /\ pc.msgno > Len(hdrs)
  /\ \E hd \in IF pc.bail /\ sort # "order" THEN SortedBy(Msgs, sort) ELSE {hdrs} :
       LET from == IF v2r = <<>> THEN 0 ELSE pc.oldcount
           matched == IF ctx.limit THEN {hd[i] : i \in from + 1 .. Len(hd)} \cap ctx.pattern ELSE {}
       IN mutt_sort_headers(Msgs, sort,
            [m \in Ids |-> IF m \in matched THEN [header[m] EXCEPT !.virtual = 1] ELSE header[m]])
  /\ pc' = At("index")
  /\ UNCHANGED <<ctx, sort, store>>

\* The order in which the driver meets the messages S: that of the file, or
\* that of a directory.
DiskOrder(S) ==
  IF conf.magic = "MUTT_MBOX" THEN SortedBy(S, "order") ELSE {s \in Listings(S) : Range(s) = S}

\* The driver reads the messages that have arrived since, and counts them.
\* base and hmap are ctx->hdrs and the headers as the driver has them.
ReadNewMail(base, hmap, bail) ==
  \E k \in 1 .. conf.msgs - arrived :
    LET new == arrived + 1 .. arrived + k
    IN /\ \E f \in [new -> conf.newmail] :
            /\ disk' = [m \in DOMAIN disk \cup new |-> IF m \in new THEN f[m] ELSE disk[m]]
            /\ header' = [m \in Ids |-> IF m \in new THEN NewHeader(f[m]) ELSE hmap[m]]
       /\ \E s \in DiskOrder(new) : hdrs' = base \o s
       /\ arrived' = arrived + k
       /\ pc' = [At("count") EXCEPT !.msgno = Len(base) + 1, !.oldcount = Len(base),
                                      !.bail = bail]
       /\ UNCHANGED <<ctx, sort, saved, trash>>

mx_check_mailbox ==
  /\ pc.at = "index"
  /\ ReadNewMail(hdrs, header, FALSE)
  /\ UNCHANGED v2r

\* mx_open_mailbox(): every message on disk is new to the context.
mx_open_mailbox ==
  /\ pc.at = "closed"
  /\ hdrs' \in DiskOrder(DOMAIN disk)
  /\ header' = [m \in Ids |-> IF m \in DOMAIN disk THEN NewHeader(disk[m]) ELSE NoHeader]
  /\ ctx' = NewContext
  /\ v2r' = <<>>
  /\ pc' = [At("count") EXCEPT !.msgno = 1]
  /\ UNCHANGED <<sort, store>>
------------------------------------------------------------------------------
(***************************************************************************)
(* Commands that set flags.  A command works off todo, one message and one *)
(* flag at a time.                                                         *)
(***************************************************************************)
Pass(T, flag, bf) == [i \in DOMAIN T |-> [m |-> T[i], flag |-> flag, bf |-> bf]]

\* The messages at the positions P of the view, in its order.
Targets(P) == {[i \in DOMAIN p |-> hdrs[v2r[p[i]]]] : p \in Ascending(P)}

\* The current message, or with tag-prefix the tagged ones in view.
Chosen == (UNION {Targets({k}) : k \in DOMAIN v2r})
            \cup Targets({k \in DOMAIN v2r : header[hdrs[v2r[k]]].tagged})

Run(todo) ==
  /\ todo # <<>>
  /\ pc' = [At("apply") EXCEPT !.todo = todo]
  /\ UNCHANGED <<ctx, hdrs, v2r, header, sort, store>>

Untag(T) == IF On("delete_untag") THEN Pass(T, "TAG", FALSE) ELSE <<>>

\* OP_DELETE and OP_PURGE_MESSAGE
DeleteMessage ==
  \E T \in Chosen, purge \in {FALSE} \cup {"PURGE" \in conf.commands} :
    Run(Pass(T, "DELETE", TRUE) \o Pass(T, "PURGE", purge) \o Untag(T))

\* OP_UNDELETE
Undelete == \E T \in Chosen : Run(Pass(T, "DELETE", FALSE) \o Pass(T, "PURGE", FALSE))

\* OP_TOGGLE_NEW
ToggleNew ==
  \E T \in Chosen :
    Run([i \in DOMAIN T |->
           [m |-> T[i],
            flag |-> IF header[T[i]].read \/ header[T[i]].old THEN "NEW" ELSE "READ",
            bf |-> TRUE]])

\* OP_FLAG_MESSAGE
FlagMessage ==
  \E T \in Chosen :
    Run([i \in DOMAIN T |-> [m |-> T[i], flag |-> "FLAG", bf |-> ~header[T[i]].flagged]])

\* OP_TAG; with tag-prefix and without $auto_tag everything in view is untagged.
Tag ==
  \/ \E k \in DOMAIN v2r : \E T \in Targets({k}) : Run(Pass(T, "TAG", ~header[T[1]].tagged))
  \/ \E T \in Targets(DOMAIN v2r) : Run(Pass(T, "TAG", FALSE))

\* mutt_change_flag(): OP_MAIN_SET_FLAG and OP_MAIN_CLEAR_FLAG
mutt_change_flag ==
  \E T \in Chosen, bf \in BOOLEAN, flag \in conf.commands \ {"PURGE", "READ"} :
    Run((CASE flag = "DELETE" /\ ~bf -> Pass(T, "PURGE", FALSE)
           [] flag = "OLD" -> Pass(T, "READ", ~bf)
           [] OTHER -> <<>>) \o Pass(T, flag, bf))

\* mutt_pattern_func() for delete, undelete, tag and untag: any messages in
\* view may match, and SIGINT only makes them fewer.
mutt_pattern_func ==
  \E P \in SUBSET DOMAIN v2r : \E T \in Targets(P), bf \in BOOLEAN :
    \/ "DELETE" \in conf.commands /\
         Run((IF bf THEN <<>> ELSE Pass(T, "PURGE", FALSE)) \o Pass(T, "DELETE", bf))
    \/ "TAG" \in conf.commands /\ Run(Pass(T, "TAG", bf))

Command ==
  /\ pc.at = "index"
  /\ \/ "DELETE" \in conf.commands /\ (DeleteMessage \/ Undelete)
     \/ "NEW" \in conf.commands /\ ToggleNew
     \/ "FLAG" \in conf.commands /\ FlagMessage
     \/ "TAG" \in conf.commands /\ Tag
     \/ mutt_change_flag
     \/ mutt_pattern_func

\* One call of mutt_set_flag().
Apply ==
  /\ pc.at = "apply"
  /\ pc.todo # <<>>
  /\ LET w == Head(pc.todo)
         r == mutt_set_flag(ctx, header[w.m], w.flag, w.bf, TRUE)
     IN /\ ctx' = r.c
        /\ header' = [header EXCEPT ![w.m] = r.h]
  /\ pc' = [pc EXCEPT !.todo = Tail(@)]
  /\ UNCHANGED <<hdrs, v2r, sort, store>>

Applied ==
  /\ pc.at = "apply"
  /\ pc.todo = <<>>
  /\ pc' = IF pc.then = "close" THEN [pc EXCEPT !.at = "close"] ELSE At("index")
  /\ UNCHANGED <<ctx, hdrs, v2r, header, sort, store>>

\* mutt_pattern_func() for a limit.  Messages beyond upto, where SIGINT ends
\* the loop, keep the numbers of the old view.
Limit ==
  /\ pc.at = "index"
  /\ On("limit")
  /\ \E pattern \in SUBSET (1 .. conf.msgs), upto \in IF On("SigInt") THEN 0 .. Len(hdrs) ELSE {Len(hdrs)} :
     \E v \in Ascending({i \in 1 .. upto : hdrs[i] \in pattern}) :
       /\ v2r' = v
       /\ header' = Numbered(hdrs, v,
            [m \in Ids |-> IF \E i \in 1 .. upto : hdrs[i] = m
                             THEN [header[m] EXCEPT !.virtual = 0] ELSE header[m]])
       /\ \E limit \in IF pattern = 1 .. conf.msgs THEN BOOLEAN ELSE {TRUE} :   \* FALSE: "~A"
            ctx' = [ctx EXCEPT !.limit = limit, !.pattern = pattern]
  /\ UNCHANGED <<hdrs, sort, store, pc>>

\* $sort changes, and the index is sorted again (resort_index()).
Resort ==
  /\ pc.at = "index"
  /\ On("sort")
  /\ sort' \in {"order", "reverse"} \ {sort}
  /\ mutt_sort_headers(Msgs, sort', header)
  /\ UNCHANGED <<ctx, store, pc>>

mx_toggle_write ==
  /\ pc.at = "index"
  /\ On("toggle_write")
  /\ ctx' = [ctx EXCEPT !.dontwrite = ~@]
  /\ UNCHANGED <<hdrs, v2r, header, sort, store, pc>>
------------------------------------------------------------------------------
(***************************************************************************)
(* Writing the mailbox.                                                    *)
(***************************************************************************)
\* The messages S in the order of hdrs.
InOrder(S) == {[i \in DOMAIN p |-> hdrs[p[i]]] : p \in Ascending({i \in DOMAIN hdrs : hdrs[i] \in S})}

\* $delete=no: the D flags are taken back.
Spared(hmap) ==
  [m \in Ids |-> IF m \in Msgs THEN [hmap[m] EXCEPT !.deleted = FALSE, !.purge = FALSE]
                 ELSE hmap[m]]

\* Mutant: every deleted message is kept out of $trash.
ForTrash_None == {}

\* trash_append() takes the deleted messages that are not to be purged.
ForTrash == {m \in Msgs : header[m].deleted /\ ~header[m].purge}

\* What mx_sync_mailbox() and mx_close_mailbox() do once $delete is answered.
StartWriting(purge, closing) ==
  \E T \in InOrder(ForTrash) :
    LET c == IF purge THEN ctx ELSE [ctx EXCEPT !.deleted = 0]
        next == IF purge /\ ctx.deleted # 0 /\ On("trash") /\ T # <<>> THEN "trash"
                ELSE IF closing /\ ~c.changed /\ c.deleted = 0 THEN "fastclose"
                ELSE "write"
    IN /\ ctx' = c
       /\ header' = IF purge THEN header ELSE Spared(header)
       /\ pc' = [At(next) EXCEPT !.todo = IF next = "trash" THEN Pass(T, "DELETE", TRUE) ELSE <<>>,
                                 !.purge = purge, !.closing = closing]
       /\ UNCHANGED <<hdrs, v2r, sort, store>>

\* query_quadoption($delete), asked when there is something to delete.
Answers == {TRUE} \cup {ctx.deleted = 0 \/ ~On("delete_no")}

mx_sync_mailbox ==
  /\ pc.at = "index"
  /\ ~ctx.dontwrite
  /\ ctx.changed \/ ctx.deleted # 0
  /\ \E purge \in Answers :
       /\ purge \/ ctx.changed
       /\ StartWriting(purge, FALSE)

\* mx_close_mailbox() up to the end of the $mark_old loop.
ReadMsgs ==
  {m \in Msgs : /\ header[m].read /\ ~header[m].deleted
                /\ ~(header[m].flagged /\ On("keep_flagged"))}

mx_close_mailbox ==
  /\ pc.at = "index"
  /\ IF ctx.dontwrite
       THEN pc' = At("fastclose")
       ELSE \E move \in {FALSE} \cup {ReadMsgs # {} /\ On("move")},
               purge \in Answers,
               T \in InOrder({m \in Msgs : On("mark_old") /\ ~header[m].deleted
                                             /\ ~header[m].old /\ ~header[m].read}) :
              pc' = [At("apply") EXCEPT !.todo = Pass(T, "OLD", TRUE), !.then = "close",
                                        !.purge = purge, !.move = move, !.closing = TRUE]
  /\ UNCHANGED <<ctx, hdrs, v2r, header, sort, store>>

CloseMove ==
  /\ pc.at = "close"
  /\ pc.move
  /\ \E T \in InOrder(ReadMsgs) :
       pc' = [pc EXCEPT !.at = "move", !.todo = Pass(T, "DELETE", TRUE)]
  /\ UNCHANGED <<ctx, hdrs, v2r, header, sort, store>>

CloseUnchanged ==
  /\ pc.at = "close"
  /\ ~pc.move
  /\ ~ctx.changed /\ ctx.deleted = 0
  /\ pc' = At("fastclose")
  /\ UNCHANGED <<ctx, hdrs, v2r, header, sort, store>>

CloseChanged ==
  /\ pc.at = "close"
  /\ ~pc.move
  /\ ctx.changed \/ ctx.deleted # 0
  /\ StartWriting(pc.purge, TRUE)

Aborted ==
  /\ On("fail")
  /\ pc' = At("index")

\* Mutant: a message is not marked deleted when it has been appended to $mbox.
AppendToMbox_NotDeleted ==
  /\ pc.at = "move"
  /\ pc.todo # <<>>
  /\ LET m == Head(pc.todo).m
     IN \/ /\ saved[m] < MaxCopies
           /\ saved' = [saved EXCEPT ![m] = @ + 1]
           /\ pc' = [pc EXCEPT !.todo = Tail(@)]
           /\ UNCHANGED <<ctx, header>>
        \/ Aborted /\ UNCHANGED <<ctx, header, saved>>
  /\ UNCHANGED <<hdrs, v2r, sort, disk, trash, arrived>>

AppendToMbox ==
  /\ pc.at = "move"
  /\ pc.todo # <<>>
  /\ LET m == Head(pc.todo).m
         d == mutt_set_flag(ctx, header[m], "DELETE", TRUE, TRUE)
         p == mutt_set_flag(d.c, d.h, "PURGE", TRUE, TRUE)
     IN \/ /\ saved[m] < MaxCopies
           /\ saved' = [saved EXCEPT ![m] = @ + 1]
           /\ ctx' = p.c
           /\ header' = [header EXCEPT ![m] = p.h]
           /\ pc' = [pc EXCEPT !.todo = Tail(@)]
        \/ Aborted /\ UNCHANGED <<ctx, header, saved>>
  /\ UNCHANGED <<hdrs, v2r, sort, disk, trash, arrived>>

Moved ==
  /\ pc.at = "move"
  /\ pc.todo = <<>>
  /\ StartWriting(pc.purge, TRUE)

trash_append ==
  /\ pc.at = "trash"
  /\ pc.todo # <<>>
  /\ LET m == Head(pc.todo).m
     IN \/ /\ trash[m] < MaxCopies
           /\ trash' = [trash EXCEPT ![m] = @ + 1]
           /\ pc' = [pc EXCEPT !.todo = Tail(@)]
        \/ Aborted /\ UNCHANGED trash
  /\ UNCHANGED <<ctx, hdrs, v2r, header, sort, disk, saved, arrived>>

Trashed ==
  /\ pc.at = "trash"
  /\ pc.todo = <<>>
  /\ pc' = [pc EXCEPT !.at = "write"]
  /\ UNCHANGED <<ctx, hdrs, v2r, header, sort, store>>

\* mx_update_tables(ctx, 1) and mutt_sort_headers(ctx, 1).
Committed ==
  LET kept == {m \in Msgs : ~header[m].deleted}
      hmap == [m \in Ids |-> IF m \in kept THEN [header[m] EXCEPT !.changed = FALSE] ELSE NoHeader]
  IN /\ ctx' = [ctx EXCEPT !.tagged = Cardinality({m \in kept : header[m].tagged}),
                           !.flagged = Cardinality({m \in kept : header[m].flagged}),
                           !.unread = Cardinality({m \in kept : ~header[m].read}),
                           !.new = Cardinality({m \in kept : ~header[m].read /\ ~header[m].old}),
                           !.deleted = 0, !.changed = FALSE, !.id_hash = @ \cap kept]
     /\ mutt_sort_headers(kept, sort, hmap)
     /\ pc' = At("index")

Touched(m) == header[m].deleted \/ header[m].changed

\* mbox_sync_mailbox() gives up: no lock, no temporary file, no space, or
\* nothing to write ("report this bug").  bail: sorts again.
MboxGivesUp ==
  /\ pc.at = "write" /\ conf.magic = "MUTT_MBOX"
  /\ On("fail") \/ ~\E m \in Msgs : Touched(m)
  /\ IF sort = "order" THEN UNCHANGED <<hdrs, v2r, header>> ELSE mutt_sort_headers(Msgs, sort, header)
  /\ pc' = At("index")
  /\ UNCHANGED <<ctx, sort, store>>

\* It holds the lock and finds mail that has arrived: nothing is written.
MboxNewMail ==
  /\ pc.at = "write" /\ conf.magic = "MUTT_MBOX"
  /\ IF sort = "order"
       THEN ReadNewMail(hdrs, header, FALSE) /\ UNCHANGED v2r
       ELSE \E hd \in SortedBy(Msgs, "order") : \E v \in Ascending(InView(hd, header)) :
              ReadNewMail(hd, Numbered(hd, v, header), TRUE) /\ v2r' = v

\* Mutant: the mailbox is written again from behind the first changed message.
Rewritten_After(first) == {m \in Msgs : m > first}

\* The messages written again: all from the first that is changed or deleted.
Rewritten(first) == {m \in Msgs : m >= first}

\* All of it is written.  That another program rewrote the mailbox, and failures
\* in the middle of writing it back ("Saved partial mailbox to"), are in Mbox.
MboxWrite ==
  /\ pc.at = "write" /\ conf.magic = "MUTT_MBOX"
  /\ \E first \in Msgs :
       /\ Touched(first) /\ \A m \in Msgs : Touched(m) => first <= m
       /\ disk' = [m \in {k \in Msgs : ~header[k].deleted} |->
                     IF m \in Rewritten(first) THEN Written(header[m]) ELSE disk[m]]
  /\ \/ /\ pc.closing \/ Cardinality(Msgs) = ctx.deleted      \* removed when empty
        /\ pc' = At("fastclose")
        /\ UNCHANGED <<ctx, hdrs, v2r, header>>
     \/ ~pc.closing /\ Committed
  /\ UNCHANGED <<sort, saved, trash, arrived>>

\* mh_sync_mailbox() looks for new mail first.
MaildirNewMail ==
  /\ pc.at = "write" /\ conf.magic = "MUTT_MAILDIR"
  /\ ReadNewMail(hdrs, header, FALSE)
  /\ UNCHANGED v2r

MaildirStart ==
  /\ pc.at = "write" /\ conf.magic = "MUTT_MAILDIR"
  /\ \E T \in InOrder(Msgs) :
       pc' = [pc EXCEPT !.at = "mh_write", !.todo = Pass(T, "DELETE", TRUE)]
  /\ UNCHANGED <<ctx, hdrs, v2r, header, sort, store>>

\* A deleted message is unlinked, a changed one renamed.
MaildirWrite ==
  /\ pc.at = "mh_write"
  /\ pc.todo # <<>>
  /\ LET m == Head(pc.todo).m
     IN \/ /\ header[m].deleted
           /\ disk' = [k \in DOMAIN disk \ {m} |-> disk[k]]
           /\ pc' = [pc EXCEPT !.todo = Tail(@)]
        \/ /\ ~header[m].deleted
           /\ disk' = IF header[m].changed /\ m \in DOMAIN disk
                        THEN [disk EXCEPT ![m] = Written(header[m])] ELSE disk
           /\ pc' = [pc EXCEPT !.todo = Tail(@)]
        \/ ~header[m].deleted /\ header[m].changed /\ Aborted /\ UNCHANGED disk
  /\ UNCHANGED <<ctx, hdrs, v2r, header, sort, saved, trash, arrived>>

\* Without a purge the tables are left as they are.
MaildirWritten ==
  /\ pc.at = "mh_write"
  /\ pc.todo = <<>>
  /\ \/ pc.closing /\ pc' = At("fastclose") /\ UNCHANGED <<ctx, hdrs, v2r, header>>
     \/ ~pc.closing /\ pc.purge /\ Committed
     \/ ~pc.closing /\ ~pc.purge /\ pc' = At("index") /\ UNCHANGED <<ctx, hdrs, v2r, header>>
  /\ UNCHANGED <<sort, store>>

\* Mutant: v2r outlives the headers.
mx_fastclose_mailbox_KeepsView ==
  /\ pc.at = "fastclose"
  /\ ctx' = NewContext
  /\ hdrs' = <<>>
  /\ header' = [m \in Ids |-> NoHeader]
  /\ pc' = At("closed")
  /\ UNCHANGED <<v2r, sort, store>>

mx_fastclose_mailbox ==
  /\ pc.at = "fastclose"
  /\ ctx' = NewContext
  /\ hdrs' = <<>>
  /\ v2r' = <<>>
  /\ header' = [m \in Ids |-> NoHeader]
  /\ pc' = At("closed")
  /\ UNCHANGED <<sort, store>>
------------------------------------------------------------------------------
Init ==
  /\ conf \in Settings
  /\ ctx = NewContext
  /\ hdrs = <<>>
  /\ v2r = <<>>
  /\ header = [m \in Ids |-> NoHeader]
  /\ sort = "order"
  /\ \E k \in 0 .. conf.msgs : disk \in [1 .. k -> conf.newmail] /\ arrived = k
  /\ saved = [m \in Ids |-> 0]
  /\ trash = [m \in Ids |-> 0]
  /\ pc = At("closed")

Sync == mx_sync_mailbox \/ trash_append \/ Trashed
Close == mx_close_mailbox \/ CloseMove \/ CloseUnchanged \/ CloseChanged \/ AppendToMbox \/ Moved
MboxSync == MboxGivesUp \/ MboxNewMail \/ MboxWrite
MaildirSync == MaildirNewMail \/ MaildirStart \/ MaildirWrite \/ MaildirWritten

Step ==
  \/ mx_open_mailbox \/ mx_check_mailbox \/ mx_update_context \/ update_index
  \/ Command \/ Apply \/ Applied \/ Limit \/ Resort \/ mx_toggle_write
  \/ Sync \/ Close \/ MboxSync \/ MaildirSync \/ mx_fastclose_mailbox

Next == Step /\ UNCHANGED conf

Spec == Init /\ [][Next]_vars
------------------------------------------------------------------------------
TypeOK ==
  /\ conf \in Settings
  /\ ctx \in CONTEXT
  /\ hdrs \in Seq(Ids)
  /\ v2r \in Seq(Nat) /\ \A k \in DOMAIN v2r : v2r[k] \in DOMAIN hdrs
  /\ header \in [Ids -> HEADER]
  /\ sort \in {"order", "reverse"}
  /\ DOMAIN disk \subseteq Ids /\ \A m \in DOMAIN disk : disk[m] \in Stored
  /\ {saved, trash} \subseteq [Ids -> Nat]
  /\ arrived \in 0 .. conf.msgs
  /\ pc \in Pc

\* The counters on the status line are what a count of the messages gives,
\* at every moment: while a loop is half way, after an aborted sync, and while
\* new messages are being counted, for those already counted (mutt.h, CONTEXT).
CountersMatch ==
  /\ ctx.tagged = Cardinality({m \in Counted : header[m].tagged})
  /\ ctx.deleted = Cardinality({m \in Counted : header[m].deleted})
  /\ ctx.flagged = Cardinality({m \in Counted : header[m].flagged})
  /\ ctx.unread = Cardinality({m \in Counted : ~header[m].read})
  /\ ctx.new = Cardinality({m \in Counted : ~header[m].read /\ ~header[m].old})

\* At the prompt, v2r lists the messages in view in the order of the index and
\* h->virtual is its inverse: a header outside the view has no number.
ViewIsInverse ==
  pc.at = "index" =>
    /\ \A j, k \in DOMAIN v2r : j < k => v2r[j] < v2r[k]
    /\ \A k \in DOMAIN v2r : header[hdrs[v2r[k]]].virtual = k
    /\ \A i \in DOMAIN hdrs \ Range(v2r) : header[hdrs[i]].virtual = 0

\* At the prompt, a limited view shows every message its pattern matches and no
\* other, messages that arrived since included (update_index_unthreaded()).
LimitShowsMatches ==
  pc.at = "index" => {hdrs[v2r[k]] : k \in DOMAIN v2r} = Msgs \cap ctx.pattern

\* Whatever the index shows that the mailbox on disk does not say is on record:
\* the message is marked changed and the mailbox with it, or quitting would
\* report "Mailbox is unchanged" and drop it.
ChangesRemembered ==
  /\ (\E m \in Counted : header[m].changed) => ctx.changed
  /\ \A m \in Counted :
       header[m].changed \/ m \notin DOMAIN disk \/ Written(header[m]) = Written(NewHeader(disk[m]))

\* What mbox_sync_mailbox() relies on ("This should never happen"): a mailbox
\* that is marked changed holds a message that is.
SyncFindsWork ==
  (ctx.changed \/ ctx.deleted # 0) => \E m \in Counted : Touched(m)

\* Neither holds after a <limit> that was interrupted.
ViewRight == On("SigInt") \/ (ViewIsInverse /\ LimitShowsMatches)
NoChangeForgotten == ChangesRemembered /\ SyncFindsWork

\* No message leaves the mailbox unless it is in $mbox, or was deleted by the
\* user and is in $trash (if there is one) or was to be purged.
NoMailLost ==
  [][\A m \in DOMAIN disk \ DOMAIN disk' :
       \/ saved[m] > 0
       \/ /\ header[m].deleted
          /\ On("trash") => trash[m] > 0 \/ header[m].purge]_vars

\* A message that was copied to $mbox stays deleted until the mailbox is
\* written, so that a close that was broken off does not move it again: only a
\* command of the user takes the D flag back, or an answer no to the question
\* whether to purge, or closing a mailbox that is not to be written.
MovedIsDeleted ==
  [][\A m \in DOMAIN disk \cap DOMAIN disk' :
       saved'[m] > 0 /\ ~header'[m].deleted =>
         \/ pc.at = "apply" \/ (saved[m] > 0 /\ ~header[m].deleted)
         \/ On("delete_no") /\ pc.at \in {"index", "close", "move"}
         \/ ctx.dontwrite /\ pc.at = "fastclose"]_vars
==============================================================================
