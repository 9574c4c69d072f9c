------------------------------- MODULE Pager -------------------------------
(* The pager of pager.c.  The text is broken into rows as far as it was looked  *)
(* at (display_line() fills lineInfo[]), and commands move the first row of the *)
(* screen, hide quoted text, search, skip, and break the rows anew when the     *)
(* width changes.                                                               *)
(*                                                                              *)
(* Two parts stand by themselves and are explored alone: the tree of quoting    *)
(* prefixes that gives quoted text its colors (classify_quote()), built link by *)
(* link as the code does, and the colors of a line, for which the matches of    *)
(* regular expressions are kept from one round to the next                      *)
(* (match_body_patterns()).                                                     *)
EXTENDS Integers, Sequences, FiniteSets, SequencesExt

CONSTANTS
  Files,        \* texts: sequences of lines, each with its kind, "hdr", "norm" or
                \* "quoted", the place behind it, and whether the search matches it
  Widths,       \* of the screen
  Height,       \* rows of the screen
  PagerContext, SearchContext, SkipContext,
  MaxRows,      \* a bound on the rows of a text
  MaxCommands,
  QuotePrefixes, \* quoting prefixes, sequences of characters
  LineLength    \* of a line that is colored by two regular expressions

VARIABLES
  mode,       \* "read", "quotes" or "colors"
  file, message,               \* the text, and whether it is a message (rd.has_types)
  rows,       \* the rows known: rd.lineInfo, rd.lastLine, and the width they are made for
  topline, curline, screen,    \* rd.topline, rd.curline, and the rows that are drawn
  redraw,     \* a command moved the text, and the screen is still to be drawn
  hideQuoted, SearchCompiled, SearchFlag, SearchBack,
  wrap,       \* $wrap_search
  TopLine,    \* the first row when the pager was left, or -1
  did,        \* the last command and where it began
  commands,
  quotes,     \* the tree of prefixes: its nodes, its root, and the indexes given
  Matches     \* for each of two regular expressions, and each place, where a match there
              \* ends, or -1

vars == <<mode, file, message, rows, topline, curline, screen, redraw, hideQuoted,
          SearchCompiled, SearchFlag, SearchBack, wrap, TopLine, did, commands, quotes, Matches>>

---------------------------------------------------------------------------
\* The text: where line k begins; its length; the line of a place; and the place behind
\* the row of a width that begins at one.
Start(k) == IF k = 1 THEN 0 ELSE file[k - 1].end
Size == Last(file).end
LineAt(off) == CHOOSE k \in DOMAIN file : Start(k) <= off /\ off < file[k].end
RowEnd(off, width) ==
  LET end == file[LineAt(off)].end IN IF end - 1 - off <= width THEN end ELSE off + width

NoInfo == [offset |-> 0, type |-> "none", continuation |-> FALSE, search_cnt |-> -1]
NoRows(width) == [info |-> [i \in 0 .. MaxRows |-> NoInfo], last |-> 0, cols |-> width, rc |-> 0]

\* display_line() for row n: the rows known afterwards, and as its result -1 at the end of
\* the text, 0 for a row that is not shown, 1 for one that is.  "types" is for messages;
\* "hide" makes of a quoted row one that is neither shown nor searched.
display_line(d, n, fl) ==
  LET info   == d.info
      k      == LineAt(info[n].offset)
      grown  == IF n = d.last THEN d.last + 1 ELSE d.last
      typed  == "types" \in fl /\ info[n].type = "none"
      \* the rest of its line that is known already gets its type
      rest   == {m \in n + 1 .. grown - 1 : \A j \in n + 1 .. m : info[j].offset > 0 /\ info[j].continuation}
      info1  == [m \in DOMAIN info |->
                   IF typed /\ (m = n \/ m \in rest) THEN [info[m] EXCEPT !.type = file[k].kind] ELSE info[m]]
      flags  == IF {"types", "hide"} \subseteq fl /\ info1[n].type = "quoted" THEN {} ELSE fl
      counts == "search" \in flags /\ ~info[n].continuation /\ info[n].search_cnt = -1
      info2  == IF counts THEN [info1 EXCEPT ![n].search_cnt = IF file[k].hit THEN 1 ELSE 0] ELSE info1
      shown  == "show" \in flags
      next   == RowEnd(info[n].offset, d.cols)
      append == next < file[k].end /\ ~info[n + 1].continuation       \* append_line()
      info3  == [info2 EXCEPT ![n + 1].offset = next,
                              ![n + 1].type = IF append THEN info2[n].type ELSE @,
                              ![n + 1].continuation = @ \/ append]
  IN  IF info[n].offset >= Size THEN [d EXCEPT !.rc = -1]
      ELSE IF ~shown /\ info[n + 1].offset > 0 THEN [d EXCEPT !.info = info2, !.last = grown, !.rc = 0]
      ELSE [d EXCEPT !.info = info3, !.last = grown, !.rc = IF shown THEN 1 ELSE 0]

\* Rows from n on are looked at until the text ends.
RECURSIVE Scan(_, _, _)
Scan(d, n, fl) ==
  LET e == display_line(d, n, fl) IN IF e.rc = 0 THEN Scan(e, n + 1, fl) ELSE [e EXCEPT !.rc = 0]

\* The body of the screen is drawn: rows from cur on until it is full.
RECURSIVE Draw(_, _, _, _)
Draw(d, cur, drawn, fl) ==
  IF Len(drawn) < Height /\ d.info[cur].offset <= Size - 1
  THEN LET e == display_line(d, cur, fl)
       IN  Draw(e, cur + 1, IF e.rc > 0 THEN Append(drawn, cur) ELSE drawn, fl)
  ELSE [rows |-> [d EXCEPT !.rc = 0], cur |-> cur, drawn |-> drawn]

Types == IF message THEN {"types"} ELSE {}
Also(flag, is) == IF is THEN {flag} ELSE {}

\* pager_menu_redraw(), at the beginning of every round of mutt_pager()'s loop.
pager_menu_redraw ==
  /\ mode = "read" /\ redraw /\ redraw' = FALSE
  /\ \E e \in {Draw(rows, topline, <<>>, Types \cup {"show"} \cup Also("hide", hideQuoted) \cup Also("search", SearchFlag))} :
       rows' = e.rows /\ curline' = e.cur /\ screen' = e.drawn
  /\ UNCHANGED <<mode, file, message, topline, hideQuoted, SearchCompiled, SearchFlag, SearchBack,
                 wrap, TopLine, did, commands, quotes, Matches>>

\* Row top of d becomes the first.
ShowFrom(d, top) == rows' = d /\ topline' = top /\ redraw' = TRUE /\ UNCHANGED <<curline, screen>>

\* What the command is and where it began, for the properties.
Command(name) ==
  /\ mode = "read" /\ ~redraw /\ commands < MaxCommands /\ commands' = commands + 1
  /\ did' = [what |-> name, top |-> topline, screen |-> screen, cols |-> rows.cols,
             searched |-> /\ rows.info[rows.last].offset >= Size
                          /\ \A i \in 0 .. rows.last - 1 : rows.info[i].continuation \/ rows.info[i].search_cnt # -1]
  /\ UNCHANGED <<mode, file, message, wrap, quotes, Matches>>

\* A command that moves the first row of the rows d and nothing else.
MoveTo(d, top) ==
  /\ ShowFrom(d, top)
  /\ UNCHANGED <<hideQuoted, SearchCompiled, SearchFlag, SearchBack, TopLine>>

RECURSIVE upNLines(_, _, _, _)
upNLines(n, info, cur, hiding) ==
  IF cur <= 0 \/ n <= 0 THEN cur
  ELSE upNLines(IF hiding /\ info[cur - 1].type = "quoted" THEN n ELSE n - 1, info, cur - 1, hiding)

Up(n, cur) == upNLines(n, rows.info, cur, hideQuoted)
MoreBelow  == rows.info[curline].offset < Size - 1

NextPage == Command("down") /\ MoreBelow /\ MoveTo(rows, Up(PagerContext, curline))
HalfDown == Command("down") /\ MoreBelow /\ MoveTo(rows, Up(Height \div 2, curline))
PrevPage == Command("up") /\ topline # 0 /\ MoveTo(rows, Up(Height - PagerContext, topline))
HalfUp   == Command("up") /\ topline # 0 /\ MoveTo(rows, Up((Height \div 2) + (Height % 2), topline))
PrevLine == Command("up") /\ topline # 0 /\ MoveTo(rows, Up(1, topline))
Top      == Command("top") /\ topline # 0 /\ MoveTo(rows, 0)

\* The first row from n on that is not hidden.
RECURSIVE Shown(_)
Shown(n) == IF hideQuoted /\ rows.info[n].type = "quoted" /\ n < rows.last THEN Shown(n + 1) ELSE n
NextLine == Command("down") /\ MoreBelow /\ MoveTo(rows, Shown(topline + 1))

Bottom ==
  LET d == Scan(rows, curline, Types)
  IN  Command("bottom") /\ MoreBelow /\ MoveTo(d, upNLines(Height, d.info, d.last, hideQuoted))

\* Rows of a range at which a search may end.
Hits(d, first, last) ==
  {i \in first .. last : /\ hideQuoted => d.info[i].type # "quoted"
                         /\ ~d.info[i].continuation /\ d.info[i].search_cnt > 0}

\* Some rows above what was found.
Context == IF SearchContext > 0 /\ SearchContext < Height THEN SearchContext ELSE 0
WithContext(i) == IF i - Context > 0 THEN i - Context ELSE i

\* <search-next> and <search-opposite>.  What is found is taken from the rows that were
\* searched when they were last made or drawn.
SearchNext(opposite) ==
  LET down  == SearchBack = opposite
      ahead == IF down THEN Hits(rows, topline + Context + 1, rows.last - 1)
               ELSE Hits(rows, 0, topline + Context - 1)
      all   == IF ahead # {} \/ ~wrap THEN ahead ELSE Hits(rows, 0, IF down THEN rows.last - 1 ELSE rows.last)
      at    == IF all = {} THEN topline ELSE IF down THEN Min(all) ELSE Max(all)
      finds == rows.info[at].search_cnt > 0
  IN  /\ Command(IF down THEN "search-down" ELSE "search-up") /\ SearchCompiled
      /\ SearchFlag' = (SearchFlag \/ finds)
      /\ ShowFrom(rows, IF finds THEN WithContext(at) ELSE at)
      /\ UNCHANGED <<hideQuoted, SearchCompiled, SearchBack, TopLine>>

\* <search> and <search-reverse>: the whole text is searched, from the first row of the
\* screen.  When nothing is found and that row is the rest of a line, which is never
\* searched, the screen moves as if something had been.
Searched(d, back, hits, at) ==
  LET finds == d.info[at].search_cnt # 0
  IN  /\ Command(IF hits = {} THEN "search-fails" ELSE "search")
      /\ SearchCompiled' = TRUE /\ SearchFlag' = finds /\ SearchBack' = back
      /\ ShowFrom(d, IF finds THEN WithContext(at) ELSE at)
      /\ UNCHANGED <<hideQuoted, TopLine>>
Search(back) ==
  \E d \in {Scan([rows EXCEPT !.info = [i \in DOMAIN @ |-> [@[i] EXCEPT !.search_cnt = -1]]],
                 0, Types \cup {"search"})} :
  \E hits \in {IF back THEN Hits(d, 0, topline) ELSE Hits(d, topline, d.last - 1)} :
    Searched(d, back, hits, IF hits = {} THEN topline ELSE IF back THEN Max(hits) ELSE Min(hits))

SearchToggle ==
  /\ Command("toggle") /\ SearchCompiled
  /\ SearchFlag' = ~SearchFlag
  /\ ShowFrom(rows, topline)
  /\ UNCHANGED <<hideQuoted, SearchCompiled, SearchBack, TopLine>>

HideQuoted ==
  /\ Command("hide") /\ message
  /\ hideQuoted' = ~hideQuoted
  /\ ShowFrom(rows, IF ~hideQuoted /\ rows.info[topline].type = "quoted"
                    THEN upNLines(1, rows.info, topline, TRUE) ELSE topline)
  /\ UNCHANGED <<SearchCompiled, SearchFlag, SearchBack, TopLine>>

\* Rows from n on are passed while they are of the types; those not known yet are made.
RECURSIVE Pass(_, _, _)
Pass(d, n, types) ==
  LET e == IF n < d.last THEN [d EXCEPT !.rc = 0] ELSE display_line(d, n, {"types"})
  IN  IF e.rc = 0 /\ e.info[n].type \in types THEN Pass(e, n + 1, types) ELSE [d |-> e, at |-> n]

\* <skip-quoted>: to behind the quoted text that is next, or that is on the top of the
\* screen, if it is more of it than is kept in sight.
SkippedQuoted(first, second, third) ==
  LET near   == first.at - topline <= SkipContext
      ends   == IF first.d.rc < 0 \/ ~near THEN first
                ELSE IF second.d.rc < 0 THEN second ELSE third
      fails  == ends.d.rc < 0
      quoted == IF near THEN third.at - second.at ELSE first.at - topline
  IN  /\ Command(IF fails THEN "skip-fails" ELSE "skip") /\ message
      /\ MoveTo(ends.d, IF fails THEN topline
                        ELSE ends.at - (IF quoted < SkipContext THEN quoted ELSE SkipContext))
SkipQuoted ==
  \E first  \in {IF SkipContext > 0 THEN Pass(rows, topline, {"quoted"}) ELSE [d |-> rows, at |-> topline]} :
  \E second \in {Pass(first.d, first.at, {"hdr", "norm"})} :
  \E third  \in {Pass(second.d, second.at, {"quoted"})} :
    SkippedQuoted(first, second, third)

SkipHeaders ==
  \E p \in {Pass(rows, topline, {"hdr"})} :
      /\ Command(IF p.d.rc < 0 THEN "skip-fails" ELSE "skip-headers") /\ message
      /\ rows.info[topline].type = "hdr"
      /\ MoveTo(p.d, IF p.d.rc < 0 THEN topline ELSE p.at)

\* REDRAW_FLOW: rows are made anew down to the one that begins line number target, which
\* is the first on the screen; to the end of the text while matches are shown.
RECURSIVE Flow(_, _, _, _, _)
Flow(d, i, line, target, fl) ==
  LET e == display_line(d, i, fl)
      l == IF e.info[i].continuation THEN line ELSE line + 1
      found == l = target /\ l # line
      rest  == Flow(e, i + 1, l, target, fl)
  IN  IF e.rc # 0 THEN [d |-> [e EXCEPT !.rc = 0], top |-> 0]
      ELSE IF found /\ "search" \notin fl THEN [d |-> e, top |-> i]
      ELSE IF found THEN [rest EXCEPT !.top = i] ELSE rest

\* The width of the screen or an option that breaks rows has changed.
Reflow(width) ==
  LET above == Cardinality({i \in 0 .. topline : ~rows.info[i].continuation}) - 1
  IN  /\ Command("reflow") /\ width # rows.cols
      /\ \E f \in {Flow(NoRows(width), 0, -1, above, Types \cup Also("search", SearchFlag))} :
           MoveTo(f.d, f.top)

\* The message is left for a command after which it is shown again, from its first row;
\* then the screen is moved as far down as it was, a screen at a time.
Leave ==
  /\ Command("leave") /\ message /\ TopLine = -1
  /\ TopLine' = topline
  /\ \E width \in Widths : ShowFrom(NoRows(width), 0)
  /\ hideQuoted' = FALSE /\ SearchCompiled' = FALSE /\ SearchFlag' = FALSE /\ SearchBack' = FALSE
Return ==
  /\ mode = "read" /\ ~redraw /\ TopLine # -1
  /\ IF TopLine # topline /\ MoreBelow
     THEN /\ ShowFrom(rows, IF TopLine - topline > Height THEN topline + Height ELSE TopLine)
          /\ UNCHANGED <<did, TopLine>>
     ELSE /\ TopLine' = -1 /\ did' = [did EXCEPT !.what = "return"]
          /\ UNCHANGED <<rows, topline, curline, screen, redraw>>
  /\ UNCHANGED <<mode, file, message, wrap, quotes, Matches, commands, hideQuoted, SearchCompiled,
                 SearchFlag, SearchBack>>

Read ==
  \/ /\ TopLine = -1
     /\ \/ NextPage \/ HalfDown \/ PrevPage \/ HalfUp \/ PrevLine \/ NextLine \/ Top \/ Bottom
        \/ \E b \in BOOLEAN : SearchNext(b) \/ Search(b)
        \/ SearchToggle \/ HideQuoted \/ SkipQuoted \/ SkipHeaders
        \/ \E width \in Widths : Reflow(width)
        \/ Leave
  \/ Return
  \/ pager_menu_redraw

---------------------------------------------------------------------------
\* The tree of quoting prefixes.  A node is a number; 0 is none.
Prefix(h, q) == h.node[q].prefix

\* Node t with prefix p takes the place of q among its siblings, and q becomes all it has
\* below it.
PutAbove(h, q, p) ==
  LET t   == Len(h.node) + 1
      old == h.node[q]
      node == [i \in DOMAIN h.node |->
                 IF i = q THEN [old EXCEPT !.up = t, !.next = 0, !.prev = 0]
                 ELSE [h.node[i] EXCEPT !.prev = IF i = old.next THEN t ELSE @,
                                        !.next = IF i = old.prev THEN t ELSE @,
                                        !.down = IF i = old.up /\ @ = q THEN t ELSE @]]
  IN  [h EXCEPT !.node = Append(node, [prefix |-> p, index |-> -1, next |-> old.next, prev |-> old.prev,
                                       up |-> old.up, down |-> q]),
                !.root = IF @ = q THEN t ELSE @]

RECURSIVE LastSibling(_, _)
LastSibling(h, q) == IF h.node[q].next = 0 THEN q ELSE LastSibling(h, h.node[q].next)

\* q leaves its siblings and becomes the last below t.
LinkUnder(h, q, t) ==
  LET old == h.node[q]
      end == LastSibling(h, h.node[t].down)
      out == [i \in DOMAIN h.node |->
                [h.node[i] EXCEPT !.prev = IF i = old.next THEN old.prev ELSE @,
                                  !.next = IF i = old.prev THEN old.next ELSE @]]
  IN  [h EXCEPT !.node = [out EXCEPT ![end].next = q, ![q].next = 0, ![q].prev = end, ![q].up = t]]

\* A node for p below ptr, or on top, before the others there.
AddFirst(h, ptr, p) ==
  LET t     == Len(h.node) + 1
      first == IF ptr = 0 THEN h.root ELSE h.node[ptr].down
      node  == [i \in DOMAIN h.node |->
                  [h.node[i] EXCEPT !.prev = IF i = first THEN t ELSE @,
                                    !.down = IF i = ptr THEN t ELSE @]]
  IN  [node |-> Append(node, [prefix |-> p, index |-> h.q_level, next |-> first, prev |-> 0,
                              up |-> ptr, down |-> 0]),
       root |-> IF ptr = 0 THEN t ELSE h.root, q_level |-> h.q_level + 1]

\* The new node t gets an index, which those from it on make room for.
shift_class_colors(h, t, index) ==
  [h EXCEPT !.node = [i \in DOMAIN @ |->
                        [@[i] EXCEPT !.index = IF i = t THEN index ELSE IF @ >= index THEN @ + 1 ELSE @]],
            !.q_level = @ + 1]

\* classify_quote() for prefix p: q is the node to look at next, ptr the node of which it
\* is below, t the node made for p, which others go below.
RECURSIVE Classify(_, _, _, _, _, _)
Classify(h, p, q, ptr, t, index) ==
  IF q = 0 THEN IF t = 0 THEN AddFirst(h, ptr, p) ELSE shift_class_colors(h, t, index)
  ELSE LET node == h.node[q]
           new  == Len(h.node) + 1
           above == IF t = 0 THEN PutAbove(h, q, p) ELSE LinkUnder(h, q, t)
       IN  IF Len(p) <= Len(node.prefix) /\ IsPrefix(p, node.prefix)
           THEN IF p = node.prefix THEN h
                ELSE Classify(above, p, node.next, ptr, IF t = 0 THEN new ELSE t, node.index)
           ELSE IF Len(p) > Len(node.prefix) /\ t = 0 /\ IsPrefix(node.prefix, p)
           THEN Classify(h, p, node.down, q, 0, -1)
           ELSE Classify(h, p, node.next, ptr, t, index)

\* A line with quoting prefix p is drawn.
ClassifyQuote(p) ==
  /\ mode = "quotes"
  /\ quotes' = Classify(quotes, p, quotes.root, 0, 0, -1)
  /\ UNCHANGED <<mode, file, message, rows, topline, curline, screen, redraw, hideQuoted,
                 SearchCompiled, SearchFlag, SearchBack, wrap, TopLine, did, commands, Matches>>

---------------------------------------------------------------------------
\* The colors of a line.  What regular expression r matches first from a place on.
regexec(r, from) ==
  LET at == {s \in from .. LineLength : Matches[r][s] # -1}
  IN  IF at = {} THEN <<>> ELSE <<Min(at), Matches[r][Min(at)]>>

Better(a, b) == a[1] < b[1] \/ (a[1] = b[1] /\ a[2] > b[2])

\* match_body_patterns(): pieces of the line and their colors.  "kept" has the match of
\* each regular expression that is still ahead, "stopped" those that match no more.
RECURSIVE match_body_patterns(_, _, _, _)
match_body_patterns(offset, kept, stopped, chunks) ==
  LET match == [r \in {1, 2} |-> IF r \in stopped THEN <<>>
                                 ELSE IF kept[r] # <<>> THEN kept[r] ELSE regexec(r, offset)]
      found == {r \in {1, 2} : match[r] # <<>>}
      best  == CHOOSE r \in found : \A o \in found \ {r} :
                 Better(match[r], match[o]) \/ (~Better(match[o], match[r]) /\ r < o)
      piece == match[best]
      empty == piece[1] = piece[2]
      next  == IF empty THEN piece[2] + 1 ELSE piece[2]
  IN  IF offset >= LineLength \/ found = {} THEN chunks
      ELSE match_body_patterns(next,
             [r \in {1, 2} |-> IF match[r] # <<>> /\ match[r][1] < next THEN <<>> ELSE match[r]],
             {1, 2} \ found, IF empty THEN chunks ELSE Append(chunks, <<best, piece[1], piece[2]>>))

Colors == match_body_patterns(0, <<<<>>, <<>>>>, {}, <<>>)

---------------------------------------------------------------------------
Init ==
  /\ mode \in {"read", "quotes", "colors"}
  /\ file \in (IF mode = "read" THEN Files ELSE {<<[kind |-> "norm", end |-> 2, hit |-> FALSE]>>})
  /\ message \in (IF mode = "read" THEN BOOLEAN ELSE {FALSE})
  /\ wrap \in (IF mode = "read" THEN BOOLEAN ELSE {FALSE})
  /\ rows \in {NoRows(width) : width \in IF mode = "read" THEN Widths ELSE {Max(Widths)}}
  /\ topline = 0 /\ curline = 0 /\ screen = <<>> /\ redraw = TRUE /\ hideQuoted = FALSE
  /\ SearchCompiled = FALSE /\ SearchFlag = FALSE /\ SearchBack = FALSE
  /\ TopLine = -1 /\ commands = 0
  /\ did = [what |-> "open", top |-> 0, screen |-> <<>>, cols |-> rows.cols, searched |-> FALSE]
  /\ quotes = [node |-> <<>>, root |-> 0, q_level |-> 0]
  /\ Matches \in (IF mode = "colors"
                  THEN [{1, 2} -> {m \in [0 .. LineLength -> -1 .. LineLength] :
                                     \A s \in 0 .. LineLength : m[s] = -1 \/ m[s] >= s}]
                  ELSE {<<>>})

Next == Read \/ \E p \in QuotePrefixes : ClassifyQuote(p)

Spec == Init /\ [][Next]_vars

---------------------------------------------------------------------------
TypeOK ==
  /\ mode \in {"read", "quotes", "colors"}
  /\ file \in Files \/ mode # "read"
  /\ {message, wrap, redraw, hideQuoted, SearchCompiled, SearchFlag, SearchBack} \subseteq BOOLEAN
  /\ rows.last \in 0 .. MaxRows /\ rows.cols \in Widths
  /\ topline \in 0 .. MaxRows /\ curline \in 0 .. MaxRows /\ TopLine \in -1 .. MaxRows
  /\ \A i \in DOMAIN screen : screen[i] \in 0 .. MaxRows
  /\ commands \in 0 .. MaxCommands
  /\ quotes.q_level \in 0 .. Cardinality(QuotePrefixes)

\* The rows of the text at a width, and their lines.
RECURSIVE Starts(_, _, _)
Starts(off, width, acc) == IF off >= Size THEN acc ELSE Starts(RowEnd(off, width), width, Append(acc, off))
Layout(width) == Starts(0, width, <<>>)       \* row n is Layout[n + 1]

Begins(off) == \E k \in DOMAIN file : Start(k) = off
Hidden(off) == hideQuoted /\ file[LineAt(off)].kind = "quoted"

\* What is known of a row is right, in whatever order rows came to be looked at.
RowsRight(layout) ==
  /\ rows.last <= Len(layout)
  /\ \A n \in 0 .. rows.last - 1 :
       LET r    == rows.info[n]
           line == file[LineAt(layout[n + 1])]
       IN  /\ r.offset = layout[n + 1] /\ r.continuation = ~Begins(r.offset)
           /\ r.type \in {line.kind} \cup (IF message THEN {} ELSE {"none"})
           /\ r.search_cnt \in {-1, IF line.hit THEN 1 ELSE 0}

\* The screen has the rows from the first one on that are not hidden, as many as fit.
ScreenRight(layout) ==
  LET seen == SelectSeq([n \in 1 .. Len(layout) - topline |-> topline + n - 1],
                        LAMBDA n : ~Hidden(layout[n + 1]))
  IN  /\ topline < Len(layout)
      /\ screen = SubSeq(seen, 1, Min({Height, Len(seen)}))

\* Going down or up passes no row that was not shown, and gets on; a search finds what is
\* there and shows it; what is skipped is headers or quoted text; a new width leaves the
\* line on top; and a message left and shown again is shown where it was left.
MovesRight(layout) ==
  LET kind(n)   == file[LineAt(layout[n + 1])].kind
      hidden(n) == Hidden(layout[n + 1])
      hit(n)    == Begins(layout[n + 1]) /\ file[LineAt(layout[n + 1])].hit /\ ~hidden(n)
      last      == Len(layout) - 1
      \* the rows on which the last search may end
      ahead == CASE did.what = "search" -> {n \in 0 .. last : hit(n) /\ IF SearchBack THEN n <= did.top ELSE n >= did.top}
                 [] did.what = "search-down" -> {n \in did.top + Context + 1 .. last : hit(n)}
                 [] did.what = "search-up"   -> {n \in 0 .. did.top + Context - 1 : hit(n)}
                 [] OTHER -> {}
      nearest == IF did.what = "search-up" \/ (did.what = "search" /\ SearchBack) THEN Max(ahead) ELSE Min(ahead)
  IN  CASE did.what = "down" ->
             /\ topline > did.top
             /\ \A n \in did.top .. topline - 1 : hidden(n) \/ Contains(did.screen, n)
        [] did.what = "up" ->
             /\ topline < did.top
             /\ \A n \in topline .. did.top - 1 : hidden(n) \/ Contains(screen, n)
        [] did.what = "bottom" -> Contains(screen, Max({0} \cup {n \in 0 .. last : ~hidden(n)}))
        [] ahead # {} /\ (did.what = "search" \/ did.searched) -> Contains(screen, nearest) /\ SearchFlag
        [] did.what = "search-fails" /\ Begins(layout[did.top + 1]) /\ ~hidden(did.top) -> topline = did.top /\ ~SearchFlag
        [] did.what = "reflow" ->
             /\ Begins(layout[topline + 1])
             /\ LineAt(layout[topline + 1]) = LineAt(Layout(did.cols)[did.top + 1])
        [] did.what = "skip" ->
             \/ topline = did.top
             \/ \E q \in did.top .. last - 1 : /\ kind(q) = "quoted" /\ kind(q + 1) # "quoted"
                                              /\ topline \in q + 1 - SkipContext .. q + 1
        [] did.what = "skip-headers" -> kind(topline) # "hdr" /\ \A n \in did.top .. topline - 1 : kind(n) = "hdr"
        [] did.what = "return" -> did.cols = rows.cols => Contains(screen, did.top)
        [] OTHER -> TRUE

\* Every prefix has one node, below that of the longest other that begins it; the links
\* agree; and the indexes, which give the colors, are different and without gaps.
TreeRight ==
  LET node == quotes.node
      Below(q) == {i \in DOMAIN node : node[i].up = q}
      above(i) == {j \in DOMAIN node : j # i /\ IsPrefix(node[j].prefix, node[i].prefix)}
  IN  /\ \A i, j \in DOMAIN node : i # j => node[i].prefix # node[j].prefix
      /\ {node[i].index : i \in DOMAIN node} = 0 .. Len(node) - 1
      /\ quotes.q_level = Len(node)
      /\ \A i \in DOMAIN node :
           IF above(i) = {} THEN node[i].up = 0
           ELSE /\ node[i].up \in above(i)
                /\ \A j \in above(i) : Len(node[j].prefix) <= Len(Prefix(quotes, node[i].up))
      /\ \A q \in 0 .. Len(node) :
           LET first == IF q = 0 THEN quotes.root ELSE node[q].down
           IN  IF Below(q) = {} THEN first = 0
               ELSE /\ first \in Below(q) /\ node[first].prev = 0
                    /\ \A i \in Below(q) :
                         /\ node[i].next \in Below(q) \cup {0}
                         /\ node[i].next # 0 => node[node[i].next].prev = i
                         /\ i # first => node[i].prev \in Below(q) /\ node[node[i].prev].next = i

\* The colors of a line are those found by trying every expression at every round.
RECURSIVE Plain(_)
Plain(offset) ==
  LET found == {r \in {1, 2} : regexec(r, offset) # <<>>}
      best  == CHOOSE r \in found : \A o \in found \ {r} :
                 Better(regexec(r, offset), regexec(o, offset))
                   \/ (~Better(regexec(o, offset), regexec(r, offset)) /\ r < o)
      m == regexec(best, offset)
  IN  IF offset >= LineLength \/ found = {} THEN <<>>
      ELSE IF m[1] = m[2] THEN Plain(m[2] + 1) ELSE <<<<best, m[1], m[2]>>>> \o Plain(m[2])

PagerRight ==
  /\ mode = "read" => LET layout == Layout(rows.cols)
                      IN  /\ RowsRight(layout)
                          /\ ~redraw /\ TopLine = -1 => ScreenRight(layout) /\ MovesRight(layout)
  /\ mode = "quotes" => TreeRight
  /\ mode = "colors" => Colors = Plain(0)

=============================================================================
