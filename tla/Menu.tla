-------------------------------- MODULE Menu --------------------------------
(***************************************************************************)
(* mutt_menuLoop() in menu.c: a list of entries of which a window shows a  *)
(* part.  An operation moves the indicator or the window and says in       *)
(* menu->redraw what of the screen has to be drawn again; before the next  *)
(* key menu_redraw() brings the indicator into the window and draws that   *)
(* and no more.  Prompts of several lines, other menus and a terminal that *)
(* changes its size come in between (curs_lib.c).                          *)
(***************************************************************************)
EXTENDS Integers, FiniteSets, TLC

CONSTANTS
    MaxEntries,    \* bound: entries of the menu
    MaxTagged,     \* bound: the number that are tagged
    Heights,       \* heights a terminal may have
    Settings       \* values of the options, chosen at the start

VARIABLES
    conf,          \* the options
    lines,         \* LINES, the height of the terminal
    windows,       \* the windows: their first row and how many rows they have
    menu,          \* MUTTMENU
    tags,          \* the entries that are tagged
    screen,        \* what the rows of the index window show
    untold,        \* a tag was taken away and nothing drawn
    depth,         \* menus on top of this one
    waiting        \* for a key; otherwise the loop is about to draw

vars == <<conf, lines, windows, menu, tags, screen, untold, depth, waiting>>
------------------------------------------------------------------------------
Least(a, b) == IF a < b THEN a ELSE b
Most(a, b) == IF a < b THEN b ELSE a

\* mutt_reflow_windows(), and reflow_message_window_rows() for a prompt of mw_rows.
mutt_reflow_windows(height, mw_rows) ==
  LET help == IF conf.help THEN 1 ELSE 0
      top == 0  low == height - mw_rows - 1
  IN [ status |-> [row |-> IF conf.status_on_top THEN top ELSE low, rows |-> 1],
       help |-> [row |-> IF conf.status_on_top THEN low ELSE top, rows |-> help],
       message |-> [row |-> height - mw_rows, rows |-> mw_rows],
       index |-> [row |-> IF conf.status_on_top THEN 1 ELSE help,
                  rows |-> Most(height - 1 - help - mw_rows, 0)] ]

\* What a row shows: an entry, its tag, the indicator.  Nothing for no entry.
Blank == [entry |-> -1, tag |-> FALSE, indicator |-> FALSE]
Row(m, t, n) ==
  IF n < m.max THEN [entry |-> n, tag |-> n \in t, indicator |-> n = m.current] ELSE Blank

\* menu_redraw_index()
menu_redraw_index(m, t) == [r \in 0 .. m.pagelen - 1 |-> Row(m, t, m.top + r)]

\* The margin of the window that the indicator stays out of: $menu_context.
Margin(m) == Least(conf.context, m.pagelen \div 2)

\* menu_check_recenter()
Above(m) == m.current < m.top + Margin(m)
Below(m) == m.current >= m.top + m.pagelen - Margin(m)
Scrolled(m) ==
  CASE Above(m) -> m.current - Margin(m)
    [] ~Above(m) /\ Below(m) -> m.current - m.pagelen + Margin(m) + 1
    [] OTHER -> m.top
Paged(m) ==
  LET page == m.pagelen - Margin(m)
  IN CASE Above(m) ->
            m.top - page * ((m.top + m.pagelen - 1 - m.current) \div page) + Margin(m)
       [] ~Above(m) /\ Below(m) ->
            m.top + page * ((m.current - m.top) \div page) - Margin(m)
       [] OTHER -> m.top
menu_check_recenter(m) ==
  LET short == ~conf.move_off /\ m.max <= m.pagelen
      moved == IF short THEN 0
               ELSE IF conf.scroll \/ m.pagelen <= 0 \/ Margin(m) < conf.context
               THEN Scrolled(m) ELSE Paged(m)
      stuck == IF conf.move_off THEN moved ELSE Least(moved, m.max - m.pagelen)
      top == Most(stuck, 0)
  IN [m EXCEPT !.top = top,
               !.redraw = IF top = m.top THEN @ ELSE @ \cup {"INDEX"}]

\* menu_redraw_full(): only what draws the rest is asked for.
menu_redraw_full(m, w) ==
  [m EXCEPT !.pagelen = w.index.rows, !.redraw = {"INDEX", "STATUS"}]

\* menu_redraw() of a menu that need not be drawn from nothing.
Motion == {"MOTION", "MOTION_RESYNCH"}
Drawn(m0, t, scr) ==
  LET m == IF conf.dialog THEN m0 ELSE menu_check_recenter(m0)
      flags == m.redraw \ {"STATUS"}
      clean == [m EXCEPT !.redraw = {}]
      Put(s, n) == (n - m.top :> Row(m, t, n)) @@ s
  IN CASE "INDEX" \in flags -> [m |-> clean, s |-> menu_redraw_index(m, t)]
       [] "INDEX" \notin flags /\ Motion \cap flags # {} ->
            IF conf.dialog THEN [m |-> [m EXCEPT !.redraw = flags \ {"MOTION"}], s |-> scr]
            ELSE [m |-> clean, s |-> Put(Put(scr, m.oldcurrent), m.current)]
       [] flags = {"CURRENT"} -> [m |-> clean, s |-> Put(scr, m.current)]
       [] OTHER -> [m |-> [m EXCEPT !.redraw = flags], s |-> scr]

\* mutt_current_menu_redraw(): twice, when the whole has to be drawn.
mutt_current_menu_redraw(m, w, t, scr) ==
  IF "FULL" \in m.redraw THEN Drawn(menu_redraw_full(m, w), t, scr) ELSE Drawn(m, t, scr)
------------------------------------------------------------------------------
(* The operations.  They take the menu and give the menu. *)
menu_next_line(m) ==
  IF m.max > 0 /\ m.top + 1 < m.max - Margin(m)
     /\ (conf.move_off \/ (m.max > m.pagelen /\ m.top < m.max - m.pagelen))
  THEN [m EXCEPT !.top = @ + 1, !.redraw = {"INDEX"},
                 !.current = IF @ < m.top + 1 + Margin(m) /\ @ < m.max - 1 THEN @ + 1 ELSE @]
  ELSE m
menu_prev_line(m) ==
  IF m.top > 0
  THEN [m EXCEPT !.top = @ - 1, !.redraw = {"INDEX"},
                 !.current = IF @ >= m.top - 1 + m.pagelen - Margin(m) /\ @ > 1
                             THEN @ - 1 ELSE @]
  ELSE m

\* menu_length_jump(): the window first, then the indicator into it; if the window
\* cannot move, the indicator.
Within(m) == [m EXCEPT !.current = Most(Least(@, m.max - 1), 0)]
Down(m, jumplen) ==
  LET last == m.max - m.pagelen
      to == m.top + jumplen
      top == IF ~conf.move_off /\ to > last THEN last ELSE to
  IN IF m.top < last
     THEN [m EXCEPT !.top = top, !.redraw = {"INDEX"},
                    !.current = Most(@, top + Margin(m))]
     ELSE IF m.current # m.max - 1 /\ ~conf.dialog
     THEN [m EXCEPT !.current = @ + jumplen, !.redraw = {"MOTION"}] ELSE m
Up(m, jumplen) ==
  LET top == Most(m.top - jumplen, 0)
  IN IF m.top > 0
     THEN [m EXCEPT !.top = top, !.redraw = {"INDEX"},
                    !.current = Least(@, top + m.pagelen - 1 - Margin(m))]
     ELSE IF m.current # 0 /\ ~conf.dialog
     THEN [m EXCEPT !.current = @ - jumplen, !.redraw = {"MOTION"}] ELSE m
\* A jump of no entries counts as one down.
menu_length_jump(m, up, jumplen) ==
  IF m.max = 0 THEN m
  ELSE Within(IF up /\ jumplen > 0 THEN Up(m, jumplen) ELSE Down(m, jumplen))

\* The operations that set the indicator, to c, or the window, to t.
Indicator(m, c) == [m EXCEPT !.current = c, !.redraw = {"MOTION"}]
Window(m, t) == [m EXCEPT !.top = t, !.redraw = {"INDEX"}]
menu_top_page(m) == IF m.current = m.top THEN m ELSE Indicator(m, m.top)
menu_bottom_page(m) == Indicator(m, Least(m.top + m.pagelen - 1, m.max - 1))
menu_middle_page(m) ==
  Indicator(m, m.top + (Least(m.top + m.pagelen, m.max - 1) - m.top) \div 2)
menu_first_entry(m) == Indicator(m, 0)
menu_last_entry(m) == Indicator(m, m.max - 1)
menu_current_top(m) == Window(m, m.current)
menu_current_middle(m) == Window(m, Most(m.current - m.pagelen \div 2, 0))
menu_current_bottom(m) == Window(m, Most(m.current - m.pagelen + 1, 0))
menu_next_entry(m) == IF m.current < m.max - 1 THEN Indicator(m, m.current + 1) ELSE m
menu_prev_entry(m) == IF m.current > 0 THEN Indicator(m, m.current - 1) ELSE m

\* menu_search(): the entry found in direction dir, -1 if there is none.
menu_search(m, dir, hits) ==
  LET ahead == {n \in hits : IF dir = 1 THEN n > m.current ELSE n < m.current}
      here == IF ahead = {} /\ conf.wrap THEN hits ELSE ahead
      First(S) == CHOOSE n \in S : \A k \in S : dir * n <= dir * k
  IN IF here = {} THEN -1 ELSE First(here)
Searched(m, dir, hits) ==
  LET n == menu_search(m, dir, hits)
  IN IF n = -1 THEN m ELSE Indicator(m, n)

\* The operations by their names.  In a dialog what moves the indicator moves the text.
Op(m, o) ==
  CASE o = "next-entry" -> IF conf.dialog THEN menu_next_line(m) ELSE menu_next_entry(m)
    [] o = "previous-entry" -> IF conf.dialog THEN menu_prev_line(m) ELSE menu_prev_entry(m)
    [] o = "next-line" -> menu_next_line(m)
    [] o = "previous-line" -> menu_prev_line(m)
    [] o = "next-page" -> menu_length_jump(m, FALSE, m.pagelen)
    [] o = "previous-page" -> menu_length_jump(m, TRUE, m.pagelen)
    [] o = "half-down" -> menu_length_jump(m, FALSE, m.pagelen \div 2)
    [] o = "half-up" -> menu_length_jump(m, TRUE, m.pagelen \div 2)
    [] o = "top-page" \/ (conf.dialog /\ o \in {"first-entry", "current-top"}) ->
         menu_top_page(m)
    [] m.max = 0 -> m
    [] o = "bottom-page" \/ (conf.dialog /\ o \in {"last-entry", "current-bottom"}) ->
         menu_bottom_page(m)
    [] o = "middle-page" \/ (conf.dialog /\ o = "current-middle") -> menu_middle_page(m)
    [] ~conf.dialog /\ o = "first-entry" -> menu_first_entry(m)
    [] ~conf.dialog /\ o = "last-entry" -> menu_last_entry(m)
    [] ~conf.dialog /\ o = "current-top" -> menu_current_top(m)
    [] ~conf.dialog /\ o = "current-middle" -> menu_current_middle(m)
    [] ~conf.dialog /\ o = "current-bottom" -> menu_current_bottom(m)
Ops == { "next-entry", "previous-entry", "next-line", "previous-line", "next-page",
         "previous-page", "half-down", "half-up", "top-page", "middle-page",
         "bottom-page", "first-entry", "last-entry", "current-top", "current-middle",
         "current-bottom" }
------------------------------------------------------------------------------
Init ==
  /\ conf \in Settings
  /\ lines \in Heights
  /\ windows = mutt_reflow_windows(lines, 1)
  /\ \E n \in 0 .. MaxEntries :
       menu = [ max |-> n, current |-> 0, oldcurrent |-> 0, top |-> 0, tagged |-> 0,
                pagelen |-> windows.index.rows, tagprefix |-> FALSE, redraw |-> {"FULL"} ]
  /\ tags = {}
  /\ screen = <<>>
  /\ untold = FALSE
  /\ depth = 0
  /\ waiting = FALSE

\* The loop draws, and draws again if the whole had to be drawn; then it waits.
menu_redraw ==
  /\ ~waiting /\ depth = 0
  /\ IF "FULL" \in menu.redraw
     THEN /\ menu' = menu_redraw_full(menu, windows)
          /\ screen' = <<>>
          /\ UNCHANGED <<untold, waiting>>
     ELSE LET d == Drawn(menu, tags, screen)
          IN /\ menu' = [d.m EXCEPT !.oldcurrent = d.m.current]
             /\ screen' = d.s
             /\ untold' = (untold /\ d.s = screen)
             /\ waiting' = TRUE
  /\ UNCHANGED <<conf, lines, windows, tags, depth>>

\* The prefix lasts for one operation, and is there at once with $auto_tag.
Prefixed(m, kept) == [m EXCEPT !.tagprefix = kept]
Key == waiting /\ depth = 0 /\ waiting' = FALSE

\* A key that moves.
Move ==
  /\ Key
  /\ \E o \in Ops : menu' = Prefixed(Op(menu, o), FALSE)
  /\ UNCHANGED <<conf, lines, windows, tags, screen, untold, depth>>

\* menu_jump(), for a number that is an entry's.
menu_jump ==
  /\ Key /\ ~conf.dialog
  /\ \E n \in 1 .. menu.max : menu' = Prefixed(Indicator(menu, n - 1), FALSE)
  /\ UNCHANGED <<conf, lines, windows, tags, screen, untold, depth>>

\* The four searches, for what the entries in hits match.
Search ==
  /\ Key /\ ~conf.dialog
  /\ \E dir \in {1, -1}, hits \in SUBSET (0 .. menu.max - 1) :
       menu' = Prefixed(Searched(menu, dir, hits), FALSE)
  /\ UNCHANGED <<conf, lines, windows, tags, screen, untold, depth>>

\* The prefix is given, or taken back.
TagPrefix ==
  /\ Key
  /\ menu.tagprefix \/ menu.tagged > 0
  /\ menu' = Prefixed(menu, ~menu.tagprefix)
  /\ UNCHANGED <<conf, lines, windows, tags, screen, untold, depth>>

\* OP_TAG: the entry under the indicator; with the prefix, no entry.
Tag ==
  /\ Key /\ ~conf.dialog /\ menu.max > 0
  /\ IF menu.tagprefix /\ ~conf.auto_tag
     THEN /\ tags' = {}
          /\ menu' = Prefixed([menu EXCEPT !.tagged = @ - Cardinality(tags),
                                           !.redraw = @ \cup {"INDEX"}], FALSE)
     ELSE LET c == menu.current
              tagged == IF c \in tags THEN menu.tagged - 1 ELSE menu.tagged + 1
              forward == conf.resolve /\ c < menu.max - 1
          IN /\ tagged <= MaxTagged
             /\ tags' = IF c \in tags THEN tags \ {c} ELSE tags \cup {c}
             /\ menu' =
                  Prefixed([menu EXCEPT
                    !.tagged = tagged,
                    !.current = IF forward THEN @ + 1 ELSE @,
                    !.redraw = @ \cup {IF forward THEN "MOTION_RESYNCH" ELSE "CURRENT"}],
                    FALSE)
  /\ UNCHANGED <<conf, lines, windows, screen, untold, depth>>

\* The compose menu deletes the entry under the indicator (delete_attachment() and
\* mutt_update_compose_menu()); it refuses the last one, which loses its tag.
\* tagged is not counted down.
delete_attachment ==
  /\ Key /\ ~conf.dialog /\ menu.max > 0
  /\ LET c == menu.current
         n == menu.max - 1
     IN IF n = 0
        THEN /\ tags' = tags \ {c}
             /\ untold' = (untold \/ c \in tags)
             /\ menu' = Prefixed(menu, FALSE)
        ELSE /\ tags' = {IF t > c THEN t - 1 ELSE t : t \in tags \ {c}}
             /\ menu' = Prefixed([menu EXCEPT !.max = n, !.current = Least(@, n - 1),
                                              !.redraw = @ \cup {"INDEX", "STATUS"}], FALSE)
             /\ UNCHANGED untold
  /\ UNCHANGED <<conf, lines, windows, screen, depth>>

\* An entry is added, as an attachment is: update_menu() of another, or of this menu.
Add ==
  /\ Key /\ ~conf.dialog /\ menu.max < MaxEntries
  /\ menu' = Prefixed([menu EXCEPT !.max = @ + 1, !.current = menu.max,
                                   !.redraw = @ \cup {"INDEX", "STATUS"}], FALSE)
  /\ UNCHANGED <<conf, lines, windows, tags, screen, untold, depth>>

\* mutt_yesorno(), mutt_multi_choice(): the windows make room for a prompt of mw_rows
\* lines, the menu is drawn in what is left, and drawn again when it is answered.
Prompt ==
  /\ Key
  /\ \E mw_rows \in 2 .. 3 :
       LET asked == mutt_reflow_windows(lines, mw_rows)
           d1 == mutt_current_menu_redraw([menu EXCEPT !.redraw = {"FULL"}], asked, tags, screen)
           after == mutt_reflow_windows(lines, 1)
           d2 == mutt_current_menu_redraw([d1.m EXCEPT !.redraw = {"FULL"}], after, tags, d1.s)
       IN /\ windows' = after
          /\ menu' = Prefixed(d2.m, FALSE)
          /\ screen' = d2.s
          /\ untold' = FALSE
  /\ UNCHANGED <<conf, lines, tags, depth>>

\* mutt_resize_screen(): the loop sees SigWinch before it draws.
mutt_resize_screen ==
  /\ Key
  /\ \E h \in Heights :
       /\ lines' = h
       /\ windows' = mutt_reflow_windows(h, 1)
  /\ menu' = [menu EXCEPT !.redraw = {"FULL", "FLOW"}]
  /\ UNCHANGED <<conf, tags, screen, untold, depth>>

\* Another menu is on top: it draws what it likes.
mutt_push_current_menu ==
  /\ Key
  /\ depth' = 1
  /\ screen' = <<>>
  /\ UNCHANGED <<conf, lines, windows, menu, tags, untold>>

\* mutt_set_menu_redraw(): heard by the menu on top alone; the size may change, too.
OtherMenu ==
  /\ depth = 1
  /\ \E h \in Heights :
       /\ lines' = h
       /\ windows' = mutt_reflow_windows(h, 1)
  /\ UNCHANGED <<conf, menu, tags, screen, untold, depth, waiting>>

mutt_pop_current_menu ==
  /\ depth = 1
  /\ depth' = 0
  /\ menu' = Prefixed([menu EXCEPT !.redraw = {"FULL", "FLOW"}], FALSE)
  /\ UNCHANGED <<conf, lines, windows, tags, screen, untold, waiting>>

Next ==
  \/ menu_redraw \/ Move \/ menu_jump \/ Search \/ TagPrefix \/ Tag
  \/ delete_attachment \/ Add \/ Prompt \/ mutt_resize_screen
  \/ mutt_push_current_menu \/ OtherMenu \/ mutt_pop_current_menu

Spec == Init /\ [][Next]_vars
------------------------------------------------------------------------------
Entries == 0 .. MaxEntries - 1
TypeOK ==
  /\ conf \in Settings /\ lines \in Heights
  /\ menu.max \in 0 .. MaxEntries /\ menu.current \in Int /\ menu.top \in Int
  /\ menu.redraw \subseteq {"INDEX", "MOTION", "MOTION_RESYNCH", "CURRENT", "STATUS",
                            "FULL", "FLOW"}
  /\ tags \subseteq Entries
  /\ untold \in BOOLEAN /\ depth \in 0 .. 1 /\ waiting \in BOOLEAN

Settled == waiting /\ depth = 0

\* When a key is read the window shows the entry under the indicator, and every row
\* of the screen shows what the menu holds, although only a part was drawn: rows
\* that another menu, a prompt or a new size of the terminal left are gone.
ScreenIsMenu ==
  Settled =>
    /\ ~conf.dialog /\ menu.max > 0 => menu.current \in menu.top .. menu.top + menu.pagelen - 1
    /\ \/ untold
       \/ conf.dialog
       \/ screen = menu_redraw_index(menu, tags)

\* The windows fill the terminal, and none covers another.
WindowsTile ==
  LET rows(w) == windows[w].row .. windows[w].row + windows[w].rows - 1
  IN /\ UNION {rows(w) : w \in DOMAIN windows} = 0 .. lines - 1
     /\ \A v, w \in DOMAIN windows : v # w => rows(v) \cap rows(w) = {}

\* A page forward skips no entry, and gets nowhere only at the end; so back.  (Where
\* the two margins fill the window, recentering moves it by one more, and the entry
\* between is skipped.)
PagesCover ==
  LET After(o) == menu_check_recenter(Op(menu, o))
  IN Settled /\ ~conf.dialog /\ menu.max > 0 =>
       /\ LET m == After("next-page")
          IN /\ 2 * Margin(menu) < menu.pagelen => m.top <= menu.top + menu.pagelen
             /\ m.current >= menu.current
             /\ m.current + m.top > menu.current + menu.top \/ menu.current = menu.max - 1
       /\ LET m == After("previous-page")
          IN /\ 2 * Margin(menu) < menu.pagelen => menu.top <= m.top + m.pagelen
             /\ m.current <= menu.current
             /\ m.current + m.top < menu.current + menu.top \/ menu.current = 0

\* A search finds the next entry that matches, and with $wrap_search misses none.
SearchFinds ==
  \A dir \in {1, -1}, hits \in SUBSET (0 .. menu.max - 1) :
    LET n == menu_search(menu, dir, hits)
        away(k) == IF menu.max = 0 THEN 0
                   ELSE LET d == (dir * (k - menu.current)) % menu.max
                        IN IF d = 0 THEN menu.max ELSE d
    IN IF n = -1 THEN hits = {} \/ ~conf.wrap
       ELSE n \in hits /\ (\A k \in hits : away(n) <= away(k))

\* Where an operation is applied to the tagged entries, none of them is forgotten.
TaggedAreFound == tags # {} => menu.tagged > 0

MenuRight == ScreenIsMenu /\ WindowsTile /\ PagesCover /\ SearchFinds /\ TaggedAreFound
==============================================================================
