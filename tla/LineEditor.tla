------------------------------ MODULE LineEditor ------------------------------
(***************************************************************************)
(* _mutt_enter_string() in enter.c: the line the user types at a prompt.   *)
(* The text is an array of wide characters of which lastchar are used;     *)
(* curpos is where the next one goes and begin the first that is shown.    *)
(* A key is one of the editor's functions or is put into the text.         *)
(***************************************************************************)
EXTENDS Integers, Sequences, SequencesExt, FiniteSetsExt

CONSTANTS
    Width,         \* columns of the window behind the prompt
    MaxLength      \* bound: characters of a line

VARIABLES
    wbuf,          \* the text, lastchar characters
    curpos,
    begin,
    first,         \* no key was typed yet, and the first one clears the text
    redraw,        \* "INIT", "LINE", or "no": it is drawn
    result         \* "busy", "done", "abort"

vars == <<wbuf, curpos, begin, first, redraw, result>>
------------------------------------------------------------------------------
\* Letters, a mark of its own, blanks, a comma and a combining character.
Chars == {"a", "A", "-", " ", ",", "^"}
Letters == {"a", "A"}
Blank == {" "}
Combining == {"^"}
Shown == Chars \ Blank

\* my_wcwidth(): a combining character is written as an escape.
my_wcwidth(c) == IF c \in Combining THEN 2 ELSE 1
my_wcswidth(s) == FoldLeft(LAMBDA w, c : w + my_wcwidth(c), 0, s)
\* width_ceiling(): how many characters of s fit into w1 columns.
width_ceiling(s, w1) ==
  LET fits == {n \in 0 .. Len(s) : my_wcswidth(SubSeq(s, 1, n)) <= w1}
  IN IF fits = {} THEN 0 ELSE Max(fits)

\* The loops over the text: back from, and on from, position p while characters are in C.
Back(s, p, C) == Min({i \in 0 .. p : \A k \in i + 1 .. p : s[k] \in C})
On(s, p, C) == Max({i \in p .. Len(s) : \A k \in p + 1 .. i : s[k] \in C})
Pred(p) == IF p = 0 THEN 0 ELSE p - 1
Succ(s, p) == IF p = Len(s) THEN p ELSE p + 1

\* The text without what is between positions i and j, and the cursor there.
Cut(s, i, j) == [text |-> SubSeq(s, 1, i) \o SubSeq(s, j + 1, Len(s)), pos |-> i]
At(s, p) == [text |-> s, pos |-> p]
------------------------------------------------------------------------------
(* The functions of the editor: the text s with the cursor at p becomes ... *)
Back1(s, p) == Pred(Back(s, p, Combining))
Backspace(s, p) == Cut(s, Back1(s, p), p)
BackwardChar(s, p) == At(s, Back1(s, p))
ForwardChar(s, p) == At(s, IF p = Len(s) THEN p ELSE On(s, p + 1, Combining))
BackwardWord(s, p) == At(s, Back(s, Back(s, p, Blank), Shown))
ForwardWord(s, p) == At(s, On(s, On(s, p, Blank), Shown))
DeleteChar(s, p) == Cut(s, p, On(s, Succ(s, On(s, p, Combining)), Combining))
KillLine(s, p) == At(<<>>, 0)
KillEol(s, p) == Cut(s, p, Len(s))

\* A word is a run of letters, or one character that is none.
KillWord(s, p) ==
  LET i == Back(s, p, Blank)
  IN Cut(s, IF i > 0 /\ s[i] \in Letters THEN Back(s, i, Letters) ELSE Pred(i), p)
KillEow(s, p) ==
  LET i == On(s, p, Blank)
  IN Cut(s, p, IF i < Len(s) /\ s[i + 1] \in Letters THEN On(s, i, Letters)
               ELSE Succ(s, i))

\* The case of a word: back to the blank before it, on over blanks, to its end.
WordFrom(s, p) ==
  LET start == Max({i \in 0 .. p : i = 0 \/ (i < Len(s) /\ s[i + 1] \in Blank)})
  IN On(s, start, Blank)
Case(s, p, Of(_)) ==
  LET i == WordFrom(s, p)
      j == On(s, i, Shown)
  IN IF p = Len(s) THEN At(s, p)
     ELSE At([k \in DOMAIN s |-> IF k \in i + 1 .. j /\ s[k] \in Letters THEN Of(k - i)
                                 ELSE s[k]], j)
UpcaseWord(s, p) == Case(s, p, LAMBDA k : "A")
DowncaseWord(s, p) == Case(s, p, LAMBDA k : "a")
CapitalizeWord(s, p) == Case(s, p, LAMBDA k : IF k = 1 THEN "A" ELSE "a")

TransposeChars(s, p) ==
  LET q == IF p = 0 THEN 2 ELSE Succ(s, p)
  IN IF Len(s) < 2 THEN At(s, p)
     ELSE At([s EXCEPT ![q - 1] = s[q], ![q] = s[q - 1]], q)

Moves == [ backward_char |-> BackwardChar(wbuf, curpos),
           forward_char |-> ForwardChar(wbuf, curpos),
           backward_word |-> BackwardWord(wbuf, curpos),
           forward_word |-> ForwardWord(wbuf, curpos), bol |-> At(wbuf, 0) ]
Kills == [ backspace |-> Backspace(wbuf, curpos), delete_char |-> DeleteChar(wbuf, curpos),
           kill_word |-> KillWord(wbuf, curpos), kill_eow |-> KillEow(wbuf, curpos),
           kill_eol |-> KillEol(wbuf, curpos), kill_line |-> KillLine(wbuf, curpos) ]
Changes == [ upcase |-> UpcaseWord(wbuf, curpos), downcase |-> DowncaseWord(wbuf, curpos),
             capitalize |-> CapitalizeWord(wbuf, curpos),
             transpose |-> TransposeChars(wbuf, curpos) ]

\* replace_part(): what is between from and the cursor becomes buf.
replace_part(s, from, p, buf) ==
  [text |-> SubSeq(s, 1, from) \o buf \o SubSeq(s, p + 1, Len(s)), pos |-> from + Len(buf)]
------------------------------------------------------------------------------
Init ==
  /\ wbuf \in {<<>>, <<"a", "-">>}
  /\ curpos = 0 /\ begin = 0
  /\ first \in BOOLEAN
  /\ redraw = "INIT"
  /\ result = "busy"

\* The text is drawn: the cursor goes to the end if so asked, and begin is moved if the
\* cursor would not be seen.
Draw ==
  /\ redraw # "no" /\ result = "busy"
  /\ LET pos == IF redraw = "INIT" THEN Len(wbuf) ELSE curpos
         from == IF redraw = "INIT"
                 THEN width_ceiling(wbuf, my_wcswidth(wbuf) - Width + 1) ELSE begin
         hidden == pos < from \/ my_wcswidth(SubSeq(wbuf, from + 1, pos)) >= Width
     IN /\ curpos' = pos
        /\ begin' = IF hidden
                    THEN width_ceiling(wbuf, my_wcswidth(SubSeq(wbuf, 1, pos)) - Width \div 2)
                    ELSE from
  /\ redraw' = "no"
  /\ UNCHANGED <<wbuf, first, result>>

Becomes(r) == wbuf' = r.text /\ curpos' = r.pos
Key == result = "busy" /\ redraw = "no"

\* A function of the editor.
Function ==
  /\ Key
  /\ \E rs \in {Moves, Kills, Changes} : \E f \in DOMAIN rs : Becomes(rs[f])
  /\ redraw' = "LINE" /\ first' = FALSE
  /\ UNCHANGED <<begin, result>>

EndOfLine ==
  /\ Key
  /\ redraw' = "INIT" /\ first' = FALSE
  /\ UNCHANGED <<wbuf, curpos, begin, result>>

\* A completion looks at the text between a start and the cursor, and puts there what it
\* found, which may be nothing else.  The start is that of the word, of the list's
\* element, or of the text.
Start(kind, s, p) ==
  CASE kind = "command" -> Back(s, p, Chars \ {" "})
    [] kind = "alias" -> On(s, Back(s, p, Chars \ {","}), {" "})
    [] kind = "query" -> Min({p, On(s, Back(s, p, Chars \ {","}), {" "})})
    [] kind = "file" -> 0
Kinds == {"command", "alias", "query", "file"}

\* With the cursor among the blanks before an alias the length of what is looked at
\* would be negative; what happens then is left out.
Complete ==
  /\ Key
  /\ \E kind \in Kinds, more \in {<<>>, <<"A">>, <<"a", "a">>} :
       LET i == Start(kind, wbuf, curpos)
       IN /\ i <= curpos
          /\ Len(wbuf) + Len(more) <= MaxLength
          /\ Becomes(replace_part(wbuf, i, curpos, SubSeq(wbuf, i + 1, curpos) \o more))
  /\ redraw' = "LINE" /\ first' = FALSE
  /\ UNCHANGED <<begin, result>>

\* A line of the history takes the place of the whole text.
History ==
  /\ Key
  /\ \E line \in {<<>>, <<"a", " ", "A">>} : Becomes(replace_part(wbuf, 0, Len(wbuf), line))
  /\ redraw' = "INIT" /\ first' = FALSE
  /\ UNCHANGED <<begin, result>>

\* A character is typed; the first one may replace the text.
SelfInsert ==
  /\ Key
  /\ \E c \in Chars :
       LET s == IF first THEN <<>> ELSE wbuf
           p == IF first THEN 0 ELSE curpos
       IN /\ Len(s) < MaxLength
          /\ Becomes(At(InsertAt(s, p + 1, c), p + 1))
  /\ redraw' = "LINE" /\ first' = FALSE
  /\ UNCHANGED <<begin, result>>

\* The terminal changed its size, or a menu was shown: the caller draws the prompt and
\* comes back to the text as it is.
Again ==
  /\ Key
  /\ redraw' = "LINE" /\ first' = FALSE
  /\ UNCHANGED <<wbuf, curpos, begin, result>>

Return ==
  /\ Key
  /\ result' \in {"done", "abort"}
  /\ UNCHANGED <<wbuf, curpos, begin, first, redraw>>

Next ==
  \/ Draw \/ Function \/ EndOfLine \/ Complete \/ History \/ SelfInsert \/ Again
  \/ Return

Spec == Init /\ [][Next]_vars
------------------------------------------------------------------------------
TypeOK ==
  /\ wbuf \in Seq(Chars) /\ curpos \in 0 .. Len(wbuf) /\ begin \in Nat
  /\ first \in BOOLEAN /\ redraw \in {"INIT", "LINE", "no"}
  /\ result \in {"busy", "done", "abort"}

\* Whatever was deleted or moved since it was last computed, the part of the text that is
\* shown holds the cursor, and the cursor is in the window.
CursorShown ==
  redraw = "no" =>
    /\ begin <= curpos
    /\ my_wcswidth(SubSeq(wbuf, begin + 1, curpos)) < Width

\* A function that moves leaves the text; one that kills takes away one piece, which the
\* cursor touches, and leaves the cursor there; the others change no character but its
\* case or its place.
Fold(s) == [k \in DOMAIN s |-> IF s[k] \in Letters THEN "a" ELSE s[k]]
SameChars(s, t) ==
  /\ Len(s) = Len(t)
  /\ \A c \in Chars : Cardinality({k \in DOMAIN s : Fold(s)[k] = c})
                       = Cardinality({k \in DOMAIN t : Fold(t)[k] = c})
EditsAreLocal ==
  /\ \A f \in DOMAIN Moves : Moves[f].text = wbuf /\ Moves[f].pos \in 0 .. Len(wbuf)
  /\ \A f \in DOMAIN Kills :
       \E i \in 0 .. curpos, j \in curpos .. Len(wbuf) : Kills[f] = Cut(wbuf, i, j)
  /\ \A f \in DOMAIN Changes :
       SameChars(Changes[f].text, wbuf) /\ Changes[f].pos \in 0 .. Len(wbuf)

\* Every function that goes back gets to the beginning, and every one that goes on to the
\* end, and a character is never parted from the ones that combine with it.
EditsProgress ==
  /\ curpos > 0 => \A f \in {"backward_char", "backward_word"} : Moves[f].pos < curpos
  /\ curpos > 0 => \A f \in {"backspace", "kill_word"} : Kills[f].pos < curpos
  /\ curpos < Len(wbuf) =>
       /\ \A f \in {"forward_char", "forward_word"} : Moves[f].pos > curpos
       /\ \A f \in {"delete_char", "kill_eow"} : Len(Kills[f].text) < Len(wbuf)
  /\ \A f \in {"backward_char", "forward_char"} :
       Moves[f].pos \in 1 .. Len(wbuf) - 1 => wbuf[Moves[f].pos + 1] \notin Combining

LineRight == CursorShown /\ EditsAreLocal /\ EditsProgress
==============================================================================
