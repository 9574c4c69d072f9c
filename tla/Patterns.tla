------------------------------ MODULE Patterns ------------------------------
(* The patterns of pattern.c: what the user types for <search>, <limit> and     *)
(* <tag-pattern> is compiled to a tree, the tree is matched against messages    *)
(* and their threads, or, for full text in an IMAP mailbox, partly by the       *)
(* server (imap_search() of imap/imap.c), and the verdicts of a search are kept *)
(* in h->searched and h->matched.  A second and a third prompt read the ranges  *)
(* of numbers (eat_range()) and of dates (eat_date()).                          *)
(*                                                                              *)
(* A token is a letter for a pattern with its argument: "U" for ~U (unread),    *)
(* "D" for ~D (deleted), "l" for ~l (to a list; with ^, only to lists), "x" and *)
(* "y" for =b with one text or another; or one of ! ^ | ( ) ~( ~<( ~>( .        *)
EXTENDS Integers, Sequences, FiniteSets, SequencesExt

CONSTANTS
  Parent,       \* for each message the one it answers, or 0; a function on 1 .. n
  Absent,       \* the places in the threads for which there is no message
  ToList,       \* the messages that went to a list, among others
  OnlyToLists,  \* those that went to lists only
  Text,         \* for each message the texts in its body
  Tokens,       \* what is typed as a pattern
  MaxTokens,
  MaxRange,     \* the length of a range of numbers or dates
  Searches,     \* the patterns that are searched for, and limited to
  MaxCommands,
  Magics        \* "mbox", "imap"

Places   == DOMAIN Parent
Messages == Places \ Absent

VARIABLES
  prompt,    \* "pattern", "range", "date": what is typed, or "index"
  typed,     \* the tokens
  magic, wrap,
  arrived,   \* the messages in the mailbox, 1 .. arrived
  unread, deleted, changed,
  searched, matched,           \* h->searched, h->matched
  SearchPattern, reverse, invalid,  \* the last search, OPTSEARCHREVERSE, OPTSEARCHINVALID
  pattern, shown,              \* Context->pattern, and the messages in v2r
  current,                     \* the place of the cursor among them
  answer,                      \* what the last command found (see Answers)
  missed,                      \* messages whose cached verdict flags.c let stand
  commands

vars == <<prompt, typed, magic, wrap, arrived, unread, deleted, changed, searched, matched,
          SearchPattern, reverse, invalid, pattern, shown, current, answer, missed, commands>>

---------------------------------------------------------------------------
\* The tree of a pattern: struct pattern_t.
Node(op, not, kids) == [op |-> op, not |-> not, all |-> FALSE, kids |-> kids]
And(kids) == Node("and", FALSE, kids)
Or(kids)  == Node("or", FALSE, kids)

Atoms    == {"U", "D", "l", "x", "y"}
FullText == {"x", "y"}
Threads  == {"~(", "~<(", "~>("}
Openers  == {"("} \cup Threads

Failed   == <<>>                 \* mutt_pattern_comp() returns NULL

\* How deep in parentheses the tokens of s up to and with i end.
Depth(s, i) ==
  Cardinality({j \in 1 .. i : s[j] \in Openers}) - Cardinality({j \in 1 .. i : s[j] = ")"})

\* The place of the parenthesis that closes the one at i, or 0.
find_matching_paren(s, i) ==
  LET closing == {j \in i + 1 .. Len(s) : s[j] = ")" /\ Depth(s, j) = Depth(s, i) - 1}
  IN  IF closing = {} THEN 0 ELSE CHOOSE j \in closing : \A k \in closing : j <= k

\* The list built so far, the modifiers that wait for a pattern, whether the list is
\* of alternatives, and whether the next pattern is added without a "|".
Fresh == [list |-> <<>>, not |-> FALSE, all |-> FALSE, or |-> FALSE, implicit |-> TRUE]

\* "A & B | C == (A & B) | C"
Bar(c) ==
  [ list |-> IF ~c.or /\ Len(c.list) > 1 THEN <<And(c.list)>> ELSE c.list,
    not |-> FALSE, all |-> FALSE, or |-> TRUE, implicit |-> FALSE ]

\* A pattern behind a "~", "=" or "%".  "A | B & C == (A | B) & C"
Leaf(c, op) ==
  LET outer == c.implicit /\ c.or
      leaf  == [Node(op, c.not, <<>>) EXCEPT !.all = c.all]
  IN  [ list |-> Append(IF outer THEN <<Or(c.list)>> ELSE c.list, leaf),
        not |-> FALSE, all |-> FALSE, or |-> c.or /\ ~outer, implicit |-> TRUE ]

\* A list in parentheses, or of a thread.
Group(c, op, inner) ==
  [ c EXCEPT !.not = FALSE, !.all = FALSE,
             !.list = Append(@, IF op = "("
                                THEN [inner EXCEPT !.not = @ # c.not, !.all = @ \/ c.all]
                                ELSE Node(op, c.not, <<inner>>)) ]

RECURSIVE mutt_pattern_comp(_), CompFrom(_, _)
CompFrom(s, c) ==
  IF s = <<>>
  THEN CASE c.list = <<>> -> Failed
         [] Len(c.list) = 1 -> c.list[1]
         [] OTHER -> IF c.or THEN Or(c.list) ELSE And(c.list)
  ELSE CASE s[1] = "!" -> CompFrom(Tail(s), [c EXCEPT !.not = ~@])
         [] s[1] = "^" -> CompFrom(Tail(s), [c EXCEPT !.all = ~@])
         [] s[1] = "|" -> IF ~c.or /\ c.list = <<>> THEN Failed ELSE CompFrom(Tail(s), Bar(c))
         [] s[1] \in Atoms -> CompFrom(Tail(s), Leaf(c, s[1]))
         [] s[1] \in Openers ->
              LET p     == find_matching_paren(s, 1)
                  inner == IF p = 0 THEN Failed ELSE mutt_pattern_comp(SubSeq(s, 2, p - 1))
              IN  IF inner = Failed THEN Failed
                  ELSE CompFrom(SubSeq(s, p + 1, Len(s)), Group(c, s[1], inner))
         [] OTHER -> Failed
mutt_pattern_comp(s) == IF s = <<>> THEN Failed ELSE CompFrom(s, Fresh)

---------------------------------------------------------------------------
\* Matching.  A message is where its thread has a place for it; the threads hold
\* what has arrived.
Here == {m \in Messages : m <= arrived}

\* The place at the top of the thread of p: match_threadcomplete() climbs and descends
\* from p, and so comes to every place that has the same.
Top[p \in Places] == IF Parent[p] = 0 THEN p ELSE Top[Parent[p]]

\* The messages a thread pattern is matched against for message m.
Related(op, m) ==
  CASE op = "~("  -> {p \in Here : Top[p] = Top[m]}
    [] op = "~<(" -> {Parent[m]} \cap Here
    [] op = "~>(" -> {p \in Here : Parent[p] = m}

\* A pattern for message m by itself, when the full-text verdicts are in found: those
\* of the server for IMAP, those of msg_search() otherwise.  The server's are taken as
\* they are; what it was asked has the negation in it.
LeafMatch(leaf, m, server, found) ==
  CASE leaf.op = "U" -> leaf.not # (m \in unread)
    [] leaf.op = "D" -> leaf.not # (m \in deleted)
    [] leaf.op = "l" -> leaf.not # (m \in (IF leaf.all THEN OnlyToLists ELSE ToList))
    [] leaf.op \in FullText ->
         IF server THEN m \in found ELSE leaf.not # (leaf.op \in Text[m])

RECURSIVE mutt_pattern_exec(_, _, _, _)
mutt_pattern_exec(pat, m, server, found) ==
  LET Exec(k, n) == mutt_pattern_exec(k, n, server, found)
  IN  CASE pat.op = "and" -> pat.not # (\A i \in DOMAIN pat.kids : Exec(pat.kids[i], m))
        [] pat.op = "or"  -> pat.not # (\E i \in DOMAIN pat.kids : Exec(pat.kids[i], m))
        [] pat.op \in Threads ->
             pat.not # (\E n \in Related(pat.op, m) : Exec(pat.kids[1], n))
        [] OTHER -> LeafMatch(pat, m, server, found)

\* Does pat ask for full text, and so for the server's help?
RECURSIVE do_search(_)
do_search(pat) == pat.op \in FullText \/ \E i \in DOMAIN pat.kids : do_search(pat.kids[i])

\* The messages the SEARCH command made from pat asks for: the parts that need the
\* server, joined as in the pattern, the others left out.
RECURSIVE imap_compile_search(_)
imap_compile_search(pat) ==
  LET asked == {i \in DOMAIN pat.kids : do_search(pat.kids[i])}
      found == IF pat.op \in FullText THEN {m \in Here : pat.op \in Text[m]}
               ELSE IF pat.op = "or" THEN UNION {imap_compile_search(pat.kids[i]) : i \in asked}
               ELSE {m \in Here : \A i \in asked : m \in imap_compile_search(pat.kids[i])}
  IN  IF pat.not THEN Here \ found ELSE found

\* What imap_search() leaves in h->matched.
imap_search(pat) == IF do_search(pat) THEN imap_compile_search(pat) ELSE {}

Exec(pat, m, found) == mutt_pattern_exec(pat, m, magic = "imap", found)

---------------------------------------------------------------------------
\* What a pattern means: its terms are joined from left to right.
ModifierOf(s, i) ==      \* the tokens before the term at i that are about it
  LET begin == CHOOSE k \in 1 .. i :
                 /\ \A j \in k .. i - 1 : s[j] \in {"!", "^", "|"}
                 /\ k = 1 \/ s[k - 1] \notin {"!", "^", "|"}
  IN  SubSeq(s, begin, i - 1)

\* Where the terms of s begin that are not in parentheses.
TermsAt(s) ==
  SetToSortSeq({i \in DOMAIN s : s[i] \in Atoms \cup Openers /\ Depth(s, i - 1) = 0}, <)

Negated(before) ==
  LET bars == {j \in DOMAIN before : before[j] = "|"}
      own  == {j \in DOMAIN before : before[j] = "!" /\ \A b \in bars : b < j}
  IN  Cardinality(own) % 2 = 1

Alternative(s, i) == Contains(ModifierOf(s, i), "|")

\* A term that follows another in parentheses, or is in parentheses itself, without a
\* "|" between them, where alternatives are before it: the parser takes it for one more
\* alternative, and does not end the list of alternatives for it.
RECURSIVE Doubtful(_)
Doubtful(s) ==
  LET t == TermsAt(s)
      Single(k) == s[t[k]] \in Atoms
  IN  \/ \E k \in 2 .. Len(t) :
           /\ ~Alternative(s, t[k]) /\ ~(Single(k) /\ Single(k - 1))
           /\ \E j \in 2 .. k - 1 : Alternative(s, t[j])
      \/ \E k \in DOMAIN t : ~Single(k) /\ Doubtful(SubSeq(s, t[k] + 1, find_matching_paren(s, t[k]) - 1))

RECURSIVE Meant(_, _)
Meant(s, m) ==
  LET t == TermsAt(s)
      Inner(i) == SubSeq(s, i + 1, find_matching_paren(s, i) - 1)
      Bare(i) ==
        CASE s[i] = "U" -> m \in unread
          [] s[i] = "D" -> m \in deleted
          [] s[i] = "l" -> m \in (IF i > 1 /\ s[i - 1] = "^" THEN OnlyToLists ELSE ToList)
          [] s[i] \in FullText -> s[i] \in Text[m]
          [] s[i] = "(" -> Meant(Inner(i), m)
          [] s[i] \in Threads -> \E n \in Related(s[i], m) : Meant(Inner(i), n)
      Term(i) == Negated(ModifierOf(s, i)) # Bare(i)
      f[k \in DOMAIN t] ==
        IF k = 1 THEN Term(t[1])
        ELSE IF Alternative(s, t[k]) THEN f[k - 1] \/ Term(t[k])
        ELSE f[k - 1] /\ Term(t[k])
  IN  f[Len(t)]

\* Parentheses match, each pair and the whole hold a term, and one is before every "|".
WellFormed(s) ==
  LET Filled(i) ==       \* something to join ends before i
        LET skipped == {j \in 1 .. i - 1 : s[j] \notin {"!", "^", "|"}}
        IN  skipped # {} /\ s[CHOOSE j \in skipped : \A k \in skipped : k <= j] \notin Openers
  IN  /\ Depth(s, Len(s)) = 0
      /\ \A i \in DOMAIN s : Depth(s, i) >= 0
      /\ Filled(Len(s) + 1)
      /\ \A i \in DOMAIN s : s[i] \in {"|", ")"} => Filled(i)

\* Where the verdict of the server on the whole pattern can stand for each of its
\* full-text parts: no list is negated, and either there is one such part, or the list
\* has no lists in it, or it has nothing but such parts.
ServerKnows(s) ==
  LET parts == {i \in DOMAIN s : s[i] \in FullText}
      negated == \E i \in DOMAIN s : s[i] \in Openers /\ Negated(ModifierOf(s, i))
      mixed == \E i, j \in DOMAIN TermsAt(s) :
                 /\ i > 1 /\ j > 1
                 /\ Alternative(s, TermsAt(s)[i]) /\ ~Alternative(s, TermsAt(s)[j])
  IN  \/ magic # "imap" \/ parts = {}
      \/ /\ ~negated
         /\ \/ Cardinality(parts) = 1
            \/ \A i \in DOMAIN s : s[i] \notin Openers /\ ~mixed
            \/ \A i \in DOMAIN s : s[i] \notin Threads \cup {"U", "D", "l"}

---------------------------------------------------------------------------
\* Ranges of numbers: what stands behind ~m, ~n, ~z and ~X.  Digits are tokens, "K"
\* multiplies by Kilo.
Digits == {"1", "2"}
Kilo   == 10
Value  == [t \in Digits |-> IF t = "1" THEN 1 ELSE 2]
MUTT_MAXRANGE == 1000

\* strtol() at place i of s: the number and the place behind it.
strtol(s, i) ==
  LET end == CHOOSE e \in i .. Len(s) + 1 :
               (\A j \in i .. e - 1 : s[j] \in Digits) /\ (e > Len(s) \/ s[e] \notin Digits)
      f[j \in i .. end] == IF j = i THEN 0 ELSE 10 * f[j - 1] + Value[s[j - 1]]
  IN  [n |-> f[end], at |-> end]
Is(s, i, t) == i <= Len(s) /\ s[i] = t
Scaled(s, num) ==
  IF Is(s, num.at, "K") THEN [n |-> num.n * Kilo, at |-> num.at + 1] ELSE num

\* The range and the place where it ends.  Above the number behind ">" means above it
\* before "K" multiplies it.  The quote that is opened is closed behind a maximum only.
eat_range(s) ==
  LET quoted == Is(s, 1, "\"")
      i      == IF quoted THEN 2 ELSE 1
      below  == Is(s, i, "<")
      above  == Is(s, i, ">")
      least  == IF above THEN LET num == strtol(s, i + 1) IN Scaled(s, [num EXCEPT !.n = @ + 1])
                ELSE Scaled(s, strtol(s, i))
      open   == below \/ Is(s, i, "-")       \* no minimum
      from   == IF open THEN i + 1 ELSE least.at + 1
      most   == IF from <= Len(s) /\ s[from] \in Digits THEN Scaled(s, strtol(s, from))
                ELSE [n |-> MUTT_MAXRANGE, at |-> from]
      bound  == IF below /\ most.at # from THEN most.n - 1 ELSE most.n
      behind == IF quoted /\ Is(s, most.at, "\"") THEN most.at + 1 ELSE most.at
  IN  CASE above -> [min |-> least.n, max |-> MUTT_MAXRANGE, at |-> least.at]
        [] ~above /\ ~open /\ ~Is(s, least.at, "-") -> [min |-> least.n, max |-> least.n, at |-> least.at]
        [] OTHER -> [min |-> IF open THEN 0 ELSE least.n, max |-> bound, at |-> behind]

\* The numbers a range means, as the manual has them: MIN-MAX, MIN-, -MAX, <MAX, >MIN
\* and a number.  Of ">" with "K" nothing is said here (see eat_range).
Number(s) == Scaled(s, strtol(s, 1)).n
IsNumber(s) == s # <<>> /\ s[1] \in Digits /\ Scaled(s, strtol(s, 1)).at = Len(s) + 1
RangeMeant(s) ==
  LET dash == SelectInSeq(s, LAMBDA t : t = "-")
      lo   == SubSeq(s, 1, dash - 1)
      hi   == SubSeq(s, dash + 1, Len(s))
  IN  CASE IsNumber(s) -> {<<Number(s), Number(s)>>}
        [] dash > 0 /\ lo # <<>> /\ IsNumber(lo) /\ IsNumber(hi) -> {<<Number(lo), Number(hi)>>}
        [] dash > 0 /\ IsNumber(lo) /\ hi = <<>> -> {<<Number(lo), MUTT_MAXRANGE>>}
        [] dash = 1 /\ IsNumber(hi) -> {<<0, Number(hi)>>}
        [] Is(s, 1, "<") /\ IsNumber(Tail(s)) -> {<<0, Number(Tail(s)) - 1>>}
        [] Is(s, 1, ">") /\ IsNumber(Tail(s)) /\ ~Contains(s, "K") -> {<<Number(Tail(s)) + 1, MUTT_MAXRANGE>>}
        [] OTHER -> {}

---------------------------------------------------------------------------
\* Ranges of dates, in days: dates are tokens "d4" and "d8", offsets "1d" and "2d".
Day     == [t \in {"d4", "d8"} |-> IF t = "d4" THEN 4 ELSE 8]
Offset  == [t \in {"1d", "2d"} |-> IF t = "1d" THEN 1 ELSE 2]
Today   == 6
Epoch   == -100          \* January 2, 1970
EndOfTime    == 100           \* the end of 2037

IsDate(s)   == s # <<>> /\ s[1] \in DOMAIN Day
IsOffset(s) == s # <<>> /\ s[1] \in DOMAIN Offset

\* One sign and what is behind it, at the head of s.  The range is r.min .. r.max;
\* base is where it begins when only its end is given.  "done" ends the loop.
parse_date_part(s, r, haveMin, base) ==
  LET sign == s[1]
      t    == Tail(s)
      n    == IF IsOffset(t) THEN Offset[t[1]] ELSE 0
      Error == [r EXCEPT !.flag = "error", !.done = TRUE]
      Next1 == [r EXCEPT !.rest = Tail(t)]
  IN  CASE sign = "-" /\ IsOffset(t) ->
             [ Next1 EXCEPT !.min = r.min - n, !.flag = "minus",
                 !.max = IF r.flag = "none" /\ ~haveMin THEN r.min - n ELSE @ ]
        [] sign = "-" /\ ~IsOffset(t) ->
             IF r.flag = "none" /\ IsDate(t)
             THEN [Next1 EXCEPT !.max = Day[t[1]], !.min = IF haveMin THEN @ ELSE base,
                                !.flag = "absolute", !.done = TRUE]
             ELSE Error
        [] sign = "+" /\ IsOffset(t) -> [Next1 EXCEPT !.max = @ + n, !.flag = "plus"]
        [] sign = "*" /\ IsOffset(t) -> [Next1 EXCEPT !.min = @ - n, !.max = @ + n, !.flag = "window"]
        [] OTHER -> Error

RECURSIVE parse_date_range(_, _, _)
parse_date_range(r, haveMin, base) ==
  IF r.rest = <<>> \/ r.done THEN r
  ELSE parse_date_range(parse_date_part(r.rest, r, haveMin, base), haveMin, base)

\* The dates are put in order when the second is before the first.
adjust_date_range(r) ==
  IF r.min > r.max THEN [r EXCEPT !.min = r.max, !.max = r.min] ELSE r

\* The first and the last day of a range, or an error: "<" and ">" count back from now,
\* and what is less than n days ago is later than the end of the day n days ago.
eval_date_minmax(s) ==
  LET range   == [min |-> Epoch, max |-> EndOfTime, rest |-> <<>>, flag |-> "none", done |-> FALSE]
      ago     == IF IsOffset(Tail(s)) THEN Today - Offset[s[2]] ELSE Today
      haveMin == IsDate(s)
      behind  == IF haveMin THEN Tail(s) ELSE s
      begin   == IF haveMin THEN Day[s[1]] ELSE Today
  IN  CASE s = <<>> -> [range EXCEPT !.flag = "error"]
        [] s # <<>> /\ s[1] = "<" -> adjust_date_range([range EXCEPT !.min = ago + 1])
        [] s # <<>> /\ s[1] = ">" -> adjust_date_range([range EXCEPT !.max = ago])
        [] s # <<>> /\ s[1] = "=" -> [range EXCEPT !.min = ago, !.max = ago]
        [] haveMin /\ behind = <<"-">> -> [range EXCEPT !.min = begin]
        [] OTHER -> adjust_date_range(
                      parse_date_range([range EXCEPT !.min = begin, !.max = begin, !.rest = behind],
                                       haveMin, Epoch))

\* The days a range means: from one date to another, in either order, to a date, from
\* it, or that date with margins; without a date, today with margins, the first of
\* which, if it counts back, moves the day.
Margin(s) ==            \* signs and offsets by turns
  Len(s) % 2 = 0 /\ \A i \in DOMAIN s : IF i % 2 = 1 THEN s[i] \in {"-", "+", "*"} ELSE s[i] \in DOMAIN Offset
Reach(s, signs) ==      \* the sum of the offsets behind those signs
  LET f[i \in 0 .. Len(s) \div 2] ==
        IF i = 0 THEN 0 ELSE f[i - 1] + (IF s[2 * i - 1] \in signs THEN Offset[s[2 * i]] ELSE 0)
  IN  f[Len(s) \div 2]
DatesMeant(s) ==
  LET Ordered(a, b) == {IF a <= b THEN <<a, b>> ELSE <<b, a>>}
      moved == IF s[1] = "-" THEN Today - Offset[s[2]] ELSE Today
      rest  == IF s[1] = "-" THEN SubSeq(s, 3, Len(s)) ELSE s
  IN  CASE s = <<>> -> {}
        [] IsDate(s) /\ Margin(Tail(s)) ->
             {<<Day[s[1]] - Reach(Tail(s), {"-", "*"}), Day[s[1]] + Reach(Tail(s), {"+", "*"})>>}
        [] IsDate(s) /\ Tail(s) = <<"-">> -> {<<Day[s[1]], EndOfTime>>}
        [] Len(s) = 3 /\ IsDate(s) /\ s[2] = "-" /\ IsDate(<<s[3]>>) -> Ordered(Day[s[1]], Day[s[3]])
        [] Len(s) = 2 /\ s[1] = "-" /\ IsDate(Tail(s)) -> {<<Epoch, Day[s[2]]>>}
        [] s # <<>> /\ Margin(s) -> {<<moved - Reach(rest, {"-", "*"}), moved + Reach(rest, {"+", "*"})>>}
        [] Len(s) = 2 /\ s[1] \in {"<", ">", "="} /\ IsOffset(Tail(s)) ->
             LET ago == Today - Offset[s[2]]
             IN  {IF s[1] = "<" THEN <<ago + 1, EndOfTime>> ELSE IF s[1] = ">" THEN <<Epoch, ago>> ELSE <<ago, ago>>}
        [] OTHER -> {}

---------------------------------------------------------------------------
\* The index.  What the last command found, for the properties.
Nothing == [what |-> "nothing"]
Prompts == {"pattern", "range", "date"}

Init ==
  /\ prompt \in Prompts \cup {"index"} /\ typed = <<>>
  /\ magic \in (IF prompt = "index" THEN Magics ELSE {"imap"})
  /\ wrap \in (IF prompt = "index" THEN BOOLEAN ELSE {TRUE})
  /\ arrived \in (IF prompt = "index" THEN {Cardinality(Places) - 1} ELSE {Cardinality(Places)})
  /\ unread = {m \in Messages : m % 2 = 1} /\ deleted = {m \in Messages : m \in 2 .. 3}
  /\ changed = {} /\ searched = {} /\ matched = {}
  /\ SearchPattern = <<>> /\ reverse = FALSE /\ invalid = TRUE
  /\ pattern = <<>> /\ shown = SetToSortSeq({m \in Messages : m <= arrived}, <) /\ current = 1
  /\ answer = Nothing /\ missed = {} /\ commands = 0

\* A letter is typed at a prompt.  A pattern that has gone wrong is not continued.
Alphabet ==
  CASE prompt = "pattern" -> Tokens
    [] prompt = "range" -> Digits \cup {"-", "<", ">", "K", "\""}
    [] prompt = "index" -> {}
    [] prompt = "date" -> DOMAIN Day \cup DOMAIN Offset \cup {"-", "+", "*", "<", ">", "="}

Beginning(s) ==
  /\ \A i \in DOMAIN s : Depth(s, i) >= 0
  /\ \A i \in DOMAIN s : s[i] = "|" => i > 1 /\ s[i - 1] \in Atoms \cup {")", "!"}
  /\ \A i \in 1 .. Len(s) - 1 : s[i] = "^" => s[i + 1] = "l"

Type(t) ==
  /\ prompt \in Prompts
  /\ Len(typed) < (IF prompt = "pattern" THEN MaxTokens ELSE MaxRange)
  /\ prompt = "pattern" => Beginning(typed)
  /\ typed' = Append(typed, t)
  /\ UNCHANGED <<prompt, magic, wrap, arrived, unread, deleted, changed, searched, matched,
                 SearchPattern, reverse, invalid, pattern, shown, current, answer, missed, commands>>

\* The patterns that are entered, compiled.
Compiled == [s \in Searches |-> mutt_pattern_comp(s)]

\* A command of the index.
Command ==
  /\ prompt = "index" /\ commands < MaxCommands /\ commands' = commands + 1
  /\ UNCHANGED <<prompt, typed, magic, wrap>>

\* The place of the message that is looked at in step j of a search from the cursor,
\* or 0 where it ends, without $wrap_search, at the top or the bottom.
StepTo(j, forward) ==
  LET i == IF forward THEN current + j ELSE current - j
      n == Len(shown)
  IN  IF i \in 1 .. n THEN i
      ELSE IF ~wrap THEN 0
      ELSE IF forward THEN i - n ELSE i + n

\* The search itself: each message is matched once and its verdict kept, until one
\* matches.  SIGINT ends it after a message that does not.
Scan(pat, forward, cached, verdicts) ==
  LET n       == Len(shown)
      End     == {j \in 1 .. n : StepTo(j, forward) = 0} \cup {n + 1}
      stop    == CHOOSE j \in End : \A k \in End : j <= k
      At(j)   == shown[StepTo(j, forward)]
      Hit(j)  == IF At(j) \in cached THEN At(j) \in verdicts ELSE Exec(pat, At(j), verdicts)
      hits    == {j \in 1 .. stop - 1 : Hit(j)}
      first   == IF hits = {} THEN stop ELSE CHOOSE j \in hits : \A k \in hits : j <= k
  IN  \E last \in 1 .. first :
        LET looked == {At(j) : j \in 1 .. (IF last < first THEN last ELSE IF hits = {} THEN stop - 1 ELSE first)} \ cached
            found  == last = first /\ hits # {}
        IN  /\ searched' = cached \cup looked
            /\ matched' = (verdicts \ looked) \cup {m \in looked : Exec(pat, m, verdicts)}
            /\ missed' = (missed \cap cached)
            /\ current' = IF found THEN StepTo(first, forward) ELSE current
            /\ answer' = [what |-> IF found THEN "found" ELSE IF last < first THEN "interrupted" ELSE "none",
                          from |-> current, forward |-> forward,
                          steps |-> IF found THEN first ELSE stop]

\* <search>, <search-reverse> with a pattern, <search-next> and <search-opposite> with
\* the last one: op is "search", "reverse", "next" or "opposite".
mutt_search_command(op, s) ==
  LET asks  == op \in {"search", "reverse"} \/ SearchPattern = <<>>
      now   == IF asks THEN s ELSE SearchPattern
      back  == IF asks THEN op \in {"reverse", "opposite"} ELSE reverse
      fresh == invalid \/ (asks /\ s # SearchPattern)
      pat   == Compiled[now]
  IN  /\ Command /\ shown # <<>>
      /\ SearchPattern' = now /\ reverse' = back
      /\ invalid' = FALSE
      /\ Scan(pat, (op = "opposite") = back,
              IF fresh THEN {} ELSE searched,
              IF fresh /\ magic = "imap" THEN imap_search(pat) ELSE matched)
      /\ UNCHANGED <<arrived, unread, deleted, changed, pattern, shown>>

\* mutt_pattern_func(MUTT_LIMIT): in IMAP mailboxes what a search found is gone.
Limit(s) ==
  LET pat   == Compiled[s]
      found == IF magic = "imap" THEN imap_search(pat) ELSE matched
  IN  /\ Command
      /\ matched' = found /\ invalid' = (invalid \/ magic = "imap")
      /\ shown' = SetToSortSeq({m \in Here : Exec(pat, m, found)}, <)
      /\ pattern' = s /\ current' = 1
      /\ answer' = [what |-> "limited"]
      /\ UNCHANGED <<arrived, unread, deleted, changed, searched, SearchPattern, reverse, missed>>

\* The end of mutt_set_flag(): the verdict on a message is forgotten when it becomes
\* changed, or when the number of deleted messages does.
Forget(ms, counted) ==
  LET again == ms \cap searched \cap changed
  IN  /\ searched' = searched \ (IF counted THEN ms ELSE ms \ changed)
      /\ missed' = missed \cup (IF counted THEN {} ELSE again)

\* In IMAP mailboxes a message that is deleted counts as changed.
SetDeleted(ms, bf) ==
  LET of == {m \in ms : bf # (m \in deleted)}
  IN  /\ deleted' = IF bf THEN deleted \cup of ELSE deleted \ of
      /\ changed' = IF magic = "imap" THEN changed \cup of ELSE changed
      /\ Forget(of, TRUE) /\ UNCHANGED unread

SetRead(ms, bf) ==
  LET of == {m \in ms : bf = (m \in unread)}
  IN  /\ unread' = IF bf THEN unread \ of ELSE unread \cup of
      /\ changed' = changed \cup of
      /\ Forget(of, FALSE) /\ UNCHANGED deleted

\* mutt_pattern_func(MUTT_DELETE) and (MUTT_UNDELETE): the messages shown that match.
OnPattern(bf, s) ==
  LET pat   == Compiled[s]
      found == IF magic = "imap" THEN imap_search(pat) ELSE matched
      hit   == {m \in ToSet(shown) : Exec(pat, m, found)}
  IN  /\ Command
      /\ SetDeleted(hit, bf)
      /\ matched' = found /\ invalid' = (invalid \/ magic = "imap")
      /\ answer' = [what |-> "flagged", flag |-> bf, before |-> deleted, pat |-> s,
                    meant |-> {m \in Here : Meant(s, m)}]
      /\ UNCHANGED <<arrived, SearchPattern, reverse, pattern, shown, current>>

\* The flags of the message under the cursor.
OnMessage(op) ==
  /\ Command /\ shown # <<>>
  /\ LET m == shown[current]
     IN  \/ op = "delete" /\ SetDeleted({m}, m \notin deleted)
         \/ op = "toggle-new" /\ SetRead({m}, m \in unread)
  /\ answer' = Nothing
  /\ UNCHANGED <<arrived, matched, SearchPattern, reverse, invalid, pattern, shown, current>>

\* A sync that writes the flags of changed messages.
Sync ==
  /\ Command /\ deleted = {} /\ changed # {}
  /\ changed' = {} /\ invalid' = TRUE /\ answer' = Nothing
  /\ UNCHANGED <<arrived, unread, deleted, searched, matched, SearchPattern, reverse,
                 pattern, shown, current, missed>>

\* A message arrives: update_index() shows it when the limit matches it, and the loop
\* of the index asks for a new search.
NewMail ==
  /\ Command
  /\ UNCHANGED <<unread, deleted, changed, searched, matched, SearchPattern, reverse,
                 pattern, current, missed>>
  /\ invalid' = TRUE
  /\ \E m \in {arrived + 1} \cap Places :
       /\ arrived' = m
       /\ shown' = IF pattern = <<>> \/ Exec(Compiled[pattern], m, matched)'
                   THEN Append(shown, m) ELSE shown
       /\ answer' = [what |-> "mail", new |-> m]

Next ==
  \/ \E t \in Alphabet : Type(t)
  \/ \E s \in Searches :
       \/ \E op \in {"search", "reverse"} : mutt_search_command(op, s)
       \/ Limit(s)
       \/ \E bf \in BOOLEAN : OnPattern(bf, s)
  \/ SearchPattern # <<>> /\ \E op \in {"next", "opposite"} : mutt_search_command(op, <<>>)
  \/ \E op \in {"delete", "toggle-new"} : OnMessage(op)
  \/ Sync
  \/ NewMail

Spec == Init /\ [][Next]_vars

---------------------------------------------------------------------------
TypeOK ==
  /\ arrived \in 0 .. Cardinality(Places)
  /\ unread \cup deleted \cup changed \cup searched \cup matched \cup missed \subseteq Messages
  /\ ToSet(shown) \subseteq Here /\ current \in 1 .. Cardinality(Places)
  /\ wrap \in BOOLEAN /\ reverse \in BOOLEAN /\ invalid \in BOOLEAN

\* A pattern compiles when it is well formed, and matches the messages it means.
ParsedRight ==
  prompt = "pattern" =>
    LET pat == mutt_pattern_comp(typed) IN
        /\ (pat # Failed) <=> WellFormed(typed)
        /\ pat # Failed /\ ~Doubtful(typed) =>
             \A m \in Here : mutt_pattern_exec(pat, m, FALSE, {}) = Meant(typed, m)

\* In an IMAP mailbox it matches them too, where one question to the server can say so.
ServerAskedRight ==
  prompt = "pattern" /\ magic = "imap" =>
    LET pat == mutt_pattern_comp(typed)
    IN  pat # Failed /\ ~Doubtful(typed) /\ ServerKnows(typed) =>
          \A m \in Here : mutt_pattern_exec(pat, m, TRUE, imap_search(pat)) = Meant(typed, m)

\* Ranges of numbers and dates are those the manual says.
RangesRight ==
  /\ prompt = "range" =>
       \A r \in RangeMeant(typed) : LET e == eat_range(typed) IN
         <<e.min, e.max>> = r /\ e.at = Len(typed) + 1
  /\ prompt = "date" =>
       /\ \A r \in DatesMeant(typed) : LET e == eval_date_minmax(typed) IN
            e.flag # "error" /\ <<e.min, e.max>> = r
       /\ LET e == eval_date_minmax(typed) IN e.flag # "error" => e.min <= e.max

\* What is remembered of a search is what the pattern says of the message now.  Not of
\* patterns that look at other messages, and not where a message that was changed
\* already was read or unread again: flags.c compares h->changed, and does not see it.
CacheRight ==
  ~invalid /\ ServerKnows(SearchPattern) /\ SearchPattern # <<>> =>
    \A m \in (searched \cap Here) \ missed :
      (\A i \in DOMAIN SearchPattern : SearchPattern[i] \notin Threads)
        => (m \in matched) = Meant(SearchPattern, m)

\* A search ends at the next message that matches, and says that there is none only
\* when none of those it goes through does.
FoundIsNext ==
  answer.what \in {"found", "none"} /\ ServerKnows(SearchPattern) /\ missed = {}
    /\ (\A i \in DOMAIN SearchPattern : SearchPattern[i] \notin Threads) =>
    LET n     == Len(shown)
        To(j) == IF answer.forward THEN answer.from + j ELSE answer.from - j
        On(j) == shown[((To(j) - 1) % n) + 1]
        all   == {j \in 1 .. n : wrap \/ To(j) \in 1 .. n}
    IN  IF answer.what = "none" THEN \A j \in all : ~Meant(SearchPattern, On(j))
        ELSE /\ answer.steps \in all /\ shown[current] = On(answer.steps)
             /\ Meant(SearchPattern, shown[current])
             /\ \A j \in 1 .. answer.steps - 1 : ~Meant(SearchPattern, On(j))

\* A limit shows the messages it means, new mail that it means is added, and the flags
\* set on a pattern are set on those shown that it meant, and on no other.
PatternActsRight ==
  /\ answer.what = "limited" /\ ServerKnows(pattern) =>
       ToSet(shown) = {m \in Here : Meant(pattern, m)}
  /\ answer.what = "mail" /\ (\A i \in DOMAIN pattern : pattern[i] \notin FullText) =>
       (answer.new \in ToSet(shown)) = (pattern = <<>> \/ Meant(pattern, answer.new))
  /\ answer.what = "flagged" /\ ServerKnows(answer.pat) =>
       \A m \in Messages :
         (m \in deleted) = IF m \in ToSet(shown) \cap answer.meant THEN answer.flag
                          ELSE m \in answer.before

PatternsRight ==
  ParsedRight /\ ServerAskedRight /\ RangesRight /\ CacheRight /\ FoundIsNext /\ PatternActsRight
=============================================================================
