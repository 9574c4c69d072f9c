------------------------------- MODULE Sidebar -------------------------------
(***************************************************************************)
(* sidebar.c: the list of mailboxes beside the index.  Four indices into   *)
(* the array Entries say what is open, what is highlighted and what the    *)
(* window shows.  Mailboxes come and go, and get and lose new mail, while  *)
(* nothing is drawn; only a draw hides, sorts and finds the indices again. *)
(***************************************************************************)
EXTENDS Integers, Sequences, SequencesExt, FiniteSets, FiniteSetsExt

CONSTANTS
    Boxes,         \* mailboxes: numbers, in the order of their paths
    Whitelist,     \* $sidebar_whitelist
    Rows,          \* heights the window may have
    Methods,       \* values of $sidebar_sort_method the user chooses from
    Status         \* what a mailbox may have: "none", "flagged" or "unread" messages

VARIABLES
    Incoming,      \* the mailboxes, in the order of the `mailboxes' commands
    Entries,       \* the same in the order of the sidebar
    hidden,        \* is_hidden of an entry
    TopIndex, OpnIndex, HilIndex, BotIndex,   \* from 1, 0 is none
    PreviousSort,
    status,        \* what is known of a mailbox: its unread and flagged messages
    open,          \* the mailbox of Context, 0 is none
    sort, new_only, rows,                     \* two options, the height of the window
    drawn,         \* nothing has changed in the sidebar since it was drawn
    chosen         \* the mailbox the user highlighted last, 0: gone or hidden

listed == <<Incoming, Entries, hidden, status>>
indices == <<TopIndex, OpnIndex, HilIndex, BotIndex>>
options == <<sort, new_only, rows>>
vars == <<listed, indices, PreviousSort, open, options, drawn, chosen>>

------------------------------------------------------------------------------
EntryCount == Len(Entries)

\* update_entries_visibility()
update_entries_visibility(e, n) ==
  /\ new_only
  /\ n # OpnIndex
  /\ status[e[n]] = "none" /\ e[n] # open /\ e[n] \notin Whitelist

\* cb_qsort_sbe(): what sorts before what.  qsort() may leave equals in any order.
cb_qsort_sbe(a, b) ==
  CASE sort = "path" -> a =< b
    [] sort = "unread" -> status[a] = "unread" \/ status[b] # "unread"
    [] OTHER -> TRUE

\* sort_entries(): the orders the entries may be in.
sort_entries(e) ==
  CASE sort # "order" ->
         { s \in SetToSeqs(Range(e)) : \A i \in 1 .. Len(s) - 1 : cb_qsort_sbe(s[i], s[i + 1]) }
    [] sort = "order" /\ sort # PreviousSort -> {Incoming}      \* unsort_entries()
    [] OTHER -> {e}

\* Where a mailbox is in a sequence of mailboxes, 0 for nowhere.
Index(s, b) == IF \E i \in 1 .. Len(s) : s[i] = b THEN CHOOSE i \in 1 .. Len(s) : s[i] = b ELSE 0

\* select_next(), select_prev(): the next entry that is shown, or the same.
select_next(e, hid, n) ==
  LET after == { i \in n + 1 .. Len(e) : ~hid[e[i]] } IN IF after = {} THEN n ELSE Min(after)
select_prev(e, hid, n) ==
  LET before == { i \in 1 .. n - 1 : ~hid[e[i]] } IN IF before = {} THEN n ELSE Max(before)

\* prepare_sidebar(): the highlight after the entries were sorted.
Highlight(e, hid, opn, hil) ==
  IF hil > 0 /\ ~hid[e[hil]] /\ sort = PreviousSort THEN hil
  ELSE IF opn > 0 THEN opn
  ELSE LET first == IF hid[e[1]] THEN select_next(e, hid, 1) ELSE 1
       IN IF hid[e[first]] THEN 0 ELSE first

\* The pages the entries are in, each with its first and last entry.
Page(e, hid, top) ==
  LET shown == { i \in top .. Len(e) : ~hid[e[i]] }
      full == { i \in shown : Cardinality({ j \in shown : j =< i }) = rows }
  IN IF full = {} THEN Len(e) ELSE Min(full)
Frame(e, hid, hil) ==
  LET ends[n \in 0 .. Len(e)] ==
        IF n = 0 THEN 0
        ELSE IF ends[n - 1] < Len(e) THEN Page(e, hid, ends[n - 1] + 1) ELSE Len(e)
      p == Min({ n \in 0 .. Len(e) : ends[n] >= hil })
  IN IF p = 0 THEN [top |-> 0, bot |-> 0] ELSE [top |-> ends[p - 1] + 1, bot |-> ends[p]]
\* Mutant: the page begins as if rows were counted from 0.
framed_Off(e, hid, hil) ==
  IF new_only THEN Frame(e, hid, hil)
  ELSE LET top == Min({(Max({hil, 1}) \div rows) * rows + 1, Len(e)})
       IN [top |-> top, bot |-> Min({top + rows - 1, Len(e)})]
framed(e, hid, hil) ==
  IF new_only THEN Frame(e, hid, hil)
  ELSE LET h == Max({hil, 1})
           top == ((h - 1) \div rows) * rows + 1
       IN [top |-> top, bot |-> Min({top + rows - 1, Len(e)})]

\* draw_sidebar() takes the counts of Context, which may be any by now, when it draws
\* the row of the open mailbox.
Counted(st, e, hid, page) ==
  IF \E i \in page.top .. Len(e) : page.top > 0 /\ e[i] = open /\ ~hid[e[i]]
                    /\ Cardinality({ j \in page.top .. i : ~hid[e[j]] }) =< rows
  THEN { [st EXCEPT ![open] = s] : s \in Status } ELSE {st}
------------------------------------------------------------------------------
\* mutt_sb_draw(), with prepare_sidebar() and draw_sidebar().
mutt_sb_draw ==
  /\ ~drawn
  /\ IF EntryCount = 0 THEN UNCHANGED <<listed, indices, PreviousSort, chosen>>
     ELSE \E e \in sort_entries(Entries) :
       LET hid == [b \in Boxes |-> \E n \in 1 .. EntryCount :
                       Entries[n] = b /\ update_entries_visibility(Entries, n)]
           opn == IF OpnIndex = 0 THEN 0 ELSE Index(e, Entries[OpnIndex])
           was == IF HilIndex = 0 THEN 0 ELSE Index(e, Entries[HilIndex])
           hil == Highlight(e, hid, opn, was)
           page == framed(e, hid, hil)
       IN /\ Entries' = e /\ hidden' = hid /\ OpnIndex' = opn /\ HilIndex' = hil
          /\ TopIndex' = page.top /\ BotIndex' = page.bot
          /\ PreviousSort' = sort
          /\ status' \in IF hil > 0 THEN Counted(status, e, hid, page) ELSE {status}
          /\ chosen' = IF chosen # 0 /\ (hid[chosen] \/ sort # PreviousSort) THEN 0 ELSE chosen
          /\ UNCHANGED Incoming
  /\ drawn' = TRUE
  /\ UNCHANGED <<open, options>>

\* The commands of mutt_sb_change_mailbox(): where they put the highlight.  wrap is
\* $sidebar_next_new_wrap.
New(e, n) == status[e[n]] = "unread"
select_next_new(wrap) ==
  LET after == { i \in HilIndex + 1 .. EntryCount : New(Entries, i) }
      before == { i \in 1 .. HilIndex - 1 : wrap /\ New(Entries, i) }
  IN IF after # {} THEN Min(after) ELSE IF before # {} THEN Min(before) ELSE HilIndex
select_prev_new(wrap) ==
  LET after == { i \in HilIndex + 1 .. EntryCount : wrap /\ New(Entries, i) }
      before == { i \in 1 .. HilIndex - 1 : New(Entries, i) }
  IN IF before # {} THEN Max(before) ELSE IF after # {} THEN Max(after) ELSE HilIndex
select_first ==
  LET first == IF hidden[Entries[1]] THEN select_next(Entries, hidden, 1) ELSE 1
  IN IF hidden[Entries[first]] THEN HilIndex ELSE first
select_last ==
  LET last == select_prev(Entries, hidden, EntryCount + 1)
  IN IF last > EntryCount THEN HilIndex ELSE last
select_page_down ==
  LET n == select_next(Entries, hidden, BotIndex)
  IN IF BotIndex = 0 THEN HilIndex
     ELSE IF hidden[Entries[n]] THEN select_prev(Entries, hidden, n) ELSE n
select_page_up ==
  LET n == select_prev(Entries, hidden, TopIndex)
  IN IF TopIndex = 0 THEN HilIndex
     ELSE IF hidden[Entries[n]] THEN select_next(Entries, hidden, n) ELSE n

mutt_sb_change_mailbox ==
  /\ drawn /\ HilIndex > 0
  /\ \E wrap \in BOOLEAN :
     \E n \in { select_next(Entries, hidden, HilIndex), select_prev(Entries, hidden, HilIndex),
                select_next_new(wrap), select_prev_new(wrap), select_first, select_last,
                select_page_down, select_page_up } :
       /\ n # HilIndex
       /\ HilIndex' = n /\ chosen' = Entries[n]
  /\ drawn' = FALSE
  /\ UNCHANGED <<listed, TopIndex, OpnIndex, BotIndex, PreviousSort, open, options>>

\* mutt_sb_notify_mailbox(): a mailbox has been created (bound: in the order of the
\* paths; other orders come from sorting) ...
Created(b) ==
  /\ \A c \in Range(Incoming) : c < b
  /\ Incoming' = Append(Incoming, b) /\ Entries' = Append(Entries, b)
  /\ hidden' = [hidden EXCEPT ![b] = FALSE]
  /\ status' = [status EXCEPT ![b] = "none"]
  /\ TopIndex' = IF TopIndex = 0 THEN EntryCount + 1 ELSE TopIndex
  /\ BotIndex' = IF BotIndex = 0 THEN EntryCount + 1 ELSE BotIndex
  /\ OpnIndex' = IF OpnIndex = 0 /\ open = b THEN EntryCount + 1 ELSE OpnIndex
  /\ drawn' = FALSE
  /\ UNCHANGED <<HilIndex, PreviousSort, open, options, chosen>>

\* ... or will be deleted.
Shifted(n, del) == IF n > del \/ n = EntryCount THEN n - 1 ELSE n
Deleted(b) ==
  LET del == Index(Entries, b) IN
  /\ del # 0
  /\ Incoming' = SelectSeq(Incoming, LAMBDA c : c # b)
  /\ Entries' = SelectSeq(Entries, LAMBDA c : c # b)
  /\ TopIndex' = Shifted(TopIndex, del) /\ BotIndex' = Shifted(BotIndex, del)
  /\ HilIndex' = Shifted(HilIndex, del)
  /\ OpnIndex' = CASE OpnIndex = del -> 0
                   [] OpnIndex > del -> OpnIndex - 1
                   [] OTHER -> OpnIndex
  /\ chosen' = IF chosen = b THEN 0 ELSE chosen
  /\ status' = [status EXCEPT ![b] = "none"] /\ hidden' = [hidden EXCEPT ![b] = FALSE]
  /\ drawn' = FALSE
  /\ UNCHANGED <<PreviousSort, open, options>>

\* Another mailbox is opened, or none (curs_main.c): mutt_sb_set_open_buffy().
mutt_sb_set_open_buffy ==
  /\ \E b \in (Boxes \cup {0}) \ {open} :
       /\ open' = b
       /\ OpnIndex' = Index(Entries, b)
       /\ HilIndex' = IF OpnIndex' = 0 THEN HilIndex ELSE OpnIndex'
       /\ chosen' = IF OpnIndex' = 0 THEN chosen ELSE b
  /\ drawn' = FALSE
  /\ UNCHANGED <<listed, TopIndex, BotIndex, PreviousSort, options>>

\* A check for mail: buffy_mailbox_check() of buffy.c.
Checked ==
  /\ \E b \in Range(Incoming) \ {open}, s \in Status : status' = [status EXCEPT ![b] = s]
  /\ \E d \in {drawn, FALSE} : drawn' = d
  /\ UNCHANGED <<Incoming, Entries, hidden, indices, PreviousSort, open, options, chosen>>

\* mutt_sb_set_buffystats(): the index asks for it before it draws the sidebar.
mutt_sb_set_buffystats ==
  /\ ~drawn /\ open \in Range(Incoming)
  /\ \E s \in Status : status' = [status EXCEPT ![open] = s]
  /\ UNCHANGED <<Incoming, Entries, hidden, indices, PreviousSort, open, options, drawn,
                 chosen>>

\* The user sets $sidebar_sort_method, or the window gets another height.
Set ==
  /\ sort' \in Methods /\ rows' \in Rows
  /\ drawn' = FALSE
  /\ UNCHANGED <<listed, indices, PreviousSort, open, new_only, chosen>>

Init ==
  /\ Incoming = <<>> /\ Entries = <<>> /\ hidden = [b \in Boxes |-> FALSE]
  /\ TopIndex = 0 /\ OpnIndex = 0 /\ HilIndex = 0 /\ BotIndex = 0
  /\ PreviousSort = "order" /\ status = [b \in Boxes |-> "none"]
  /\ open = 0 /\ drawn = FALSE /\ chosen = 0
  /\ sort = "order" /\ new_only \in BOOLEAN /\ rows \in Rows
Next ==
  \/ mutt_sb_draw \/ mutt_sb_change_mailbox
  \/ \E b \in Boxes : Created(b) \/ Deleted(b)
  \/ mutt_sb_set_open_buffy \/ Checked \/ mutt_sb_set_buffystats \/ Set
Spec == Init /\ [][Next]_vars
------------------------------------------------------------------------------
\* The variables have their types, and every index is that of an entry.
TypeOK ==
  /\ Range(Entries) = Range(Incoming) /\ Range(Entries) \subseteq Boxes
  /\ \A n \in {TopIndex, OpnIndex, HilIndex, BotIndex} : n \in 0 .. EntryCount
  /\ status \in [Boxes -> Status] /\ hidden \in [Boxes -> BOOLEAN]

Shown == { n \in 1 .. EntryCount : ~hidden[Entries[n]] }

\* The entry marked open is the mailbox that is open, however the entries moved.
OpenIsMarked == OpnIndex = Index(Entries, open)

\* The highlight stays on the mailbox the user put it on, until that mailbox is
\* deleted or hidden or the entries are sorted in another way.
HighlightStays == chosen # 0 => HilIndex > 0 /\ Entries[HilIndex] = chosen

\* What was drawn has the highlight in the window, on an entry that is shown, and no
\* more entries than rows.
HighlightInWindow ==
  drawn /\ Shown # {} =>
    /\ HilIndex \in Shown /\ HilIndex \in TopIndex .. BotIndex
    /\ Cardinality(Shown \cap (TopIndex .. BotIndex)) =< rows

\* From what was drawn, <sidebar-page-down> goes to the first entry behind the window
\* or to the last one of all, and <sidebar-page-up> likewise: nothing is skipped.
PagesMeet ==
  drawn /\ HilIndex > 0 =>
    /\ LET behind == { n \in Shown : n > BotIndex }
       IN select_page_down = IF behind = {} THEN Max(Shown) ELSE Min(behind)
    /\ LET before == { n \in Shown : n < TopIndex }
       IN select_page_up = IF before = {} THEN Min(Shown) ELSE Max(before)

\* Entries are drawn in the order asked for: after the method is set back to "order",
\* that of the `mailboxes' commands.
OrderIsKept == drawn /\ sort = "order" => Entries = Incoming

SidebarRight == OpenIsMarked /\ HighlightStays /\ HighlightInWindow /\ PagesMeet /\ OrderIsKept

\* "Should a sidebar_entry be displayed ... If the BUFFY: ... is the currently
\* highlighted mailbox" (sidebar.c:282-290): it is not looked at.
HighlightedIsShown ==
  [][mutt_sb_draw /\ HilIndex > 0 /\ sort = PreviousSort => ~hidden'[Entries[HilIndex]]]_vars
==============================================================================
