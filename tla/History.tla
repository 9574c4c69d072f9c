------------------------------- MODULE History -------------------------------
(***************************************************************************)
(* history.c: what was typed at prompts of one class.  In memory it is a   *)
(* ring of HistSize + 1 lines; last is where the next line goes, and holds *)
(* meanwhile what is typed while older lines are looked at.  In $history_file *)
(* a line is appended for every one that is entered, and now and then the  *)
(* file is written again with the newest only.                             *)
(*                                                                         *)
(* kept and typed are what a reader of the manual expects: the lines, the  *)
(* newest last, and the text that was left for an older line.              *)
(***************************************************************************)
EXTENDS Integers, Sequences, SequencesExt, FiniteSetsExt

CONSTANTS
    HistSize, SaveHist,
    Lines,         \* bound: what is typed
    Blanked,       \* the lines that begin with a space
    MaxFile        \* bound: lines of the file

VARIABLES
    dups,          \* $history_remove_dups
    hist,          \* the ring: 0 .. HistSize; "" is NULL
    last, cur,
    file,          \* $history_file
    uses,          \* save_history(): lines to append before the file is shrunk
    line,          \* the text at the prompt
    kept, typed

vars == <<dups, hist, last, cur, file, uses, line, kept, typed>>
ringVars == <<hist, last>>
------------------------------------------------------------------------------
Slots == 0 .. HistSize
Before(i) == IF i = 0 THEN HistSize ELSE i - 1
After(i) == IF i = HistSize THEN 0 ELSE i + 1

\* remove_history_dups(): the slots below last move down over what is removed, last with
\* them; those above move up.  The slots between become NULL.
remove_history_dups(h, l, s) ==
  LET Others(from, to) == SelectSeq([k \in 1 .. to - from + 1 |-> h[from + k - 1]],
                                    LAMBDA t : t # s)
      low == Others(0, l - 1)
      high == Others(l + 1, HistSize)
      dest == Len(low)
      gap == HistSize - Len(high)
  IN [ hist |-> [k \in Slots |-> IF k < dest THEN low[k + 1]
                                 ELSE IF k = dest THEN h[l]
                                 ELSE IF k > gap THEN high[k - gap] ELSE ""],
       last |-> dest ]

\* mutt_history_add(), but for the file: a line that begins with a space or repeats the
\* newest is not added.
Wanted(h, l, s) == s # "" /\ s \notin Blanked /\ h[Before(l)] # s
mutt_history_add(h, l, s) ==
  LET r == IF dups THEN remove_history_dups(h, l, s) ELSE [hist |-> h, last |-> l]
  IN IF ~Wanted(h, l, s) THEN [hist |-> h, last |-> l]
     ELSE [hist |-> [r.hist EXCEPT ![r.last] = s], last |-> After(r.last)]

\* init_history() and mutt_read_histfile(): the lines of the file are added in turn.
Empty == [hist |-> [k \in Slots |-> ""], last |-> 0]
mutt_read_histfile(f) ==
  FoldLeft(LAMBDA r, s : mutt_history_add(r.hist, r.last, s), Empty, f)

\* shrink_histfile(): of a line that is there twice the later one stays, and the newest
\* SaveHist of what is left, if the file is written at all.
Unique(f) ==
  LET at == {k \in DOMAIN f : \A m \in k + 1 .. Len(f) : f[m] # f[k]}
  IN [n \in 1 .. Cardinality(at) |->
        f[CHOOSE k \in at : Cardinality({m \in at : m <= k}) = n]]
Newest(f, n) == SubSeq(f, IF Len(f) > n THEN Len(f) - n + 1 ELSE 1, Len(f))
shrink_histfile(f) == Newest(IF dups THEN Unique(f) ELSE f, SaveHist)

\* mutt_history_prev(), mutt_history_next(): the next slot that is not NULL, or last.
prev(i) ==
  LET Free(j) == j = last \/ hist[j] # ""
      path(n) == (i + (HistSize + 1) - n) % (HistSize + 1)
      n == Min({k \in 1 .. HistSize + 1 : Free(path(k))})
  IN path(n)
next(i) ==
  LET Free(j) == j = last \/ hist[j] # ""
      path(n) == (i + n) % (HistSize + 1)
      n == Min({k \in 1 .. HistSize + 1 : Free(path(k))})
  IN path(n)
------------------------------------------------------------------------------
(* What is expected: a list of the lines. *)
Expected(k, s) ==
  IF s = "" \/ s \in Blanked \/ (k # <<>> /\ Last(k) = s) THEN k
  ELSE Newest(Append(IF dups THEN SelectSeq(k, LAMBDA t : t # s) ELSE k, s), HistSize)

Init ==
  /\ dups \in BOOLEAN
  /\ hist = Empty.hist /\ last = 0 /\ cur = 0
  /\ file = <<>> /\ uses = 0
  /\ line = "" /\ typed = ""
  /\ kept = <<>>

\* The text is changed, at an older line as well.
Type ==
  /\ \E s \in Lines \cup {""} : line' = s
  /\ UNCHANGED <<ringVars, cur, file, uses, kept, typed>>

\* OP_EDITOR_HISTORY_UP, OP_EDITOR_HISTORY_DOWN: what is typed is saved in the slot last
\* first, then the line of the slot that is reached takes its place.
Browse(Step(_)) ==
  LET h == IF cur = last THEN [hist EXCEPT ![last] = line] ELSE hist
      to == Step(cur)
  IN /\ hist' = h
     /\ cur' = to
     /\ line' = h[to]
     /\ typed' = IF cur = last THEN line ELSE typed
     /\ UNCHANGED <<last, file, uses, kept>>
HistoryUp == Browse(prev)
HistoryDown == Browse(next)

\* Return: the line is added, and appended to the file, which is shrunk every SaveHist
\* lines; mutt_reset_history_state().
Return ==
  /\ LET r == mutt_history_add(hist, last, line)
         long == Append(file, line)
     IN /\ hist' = r.hist /\ last' = r.last /\ cur' = r.last
        /\ IF Wanted(hist, last, line)
           THEN /\ Len(file) < MaxFile
                /\ file' = IF uses = 0 THEN shrink_histfile(long) ELSE long
                /\ uses' = IF uses = 0 THEN SaveHist ELSE uses - 1
           ELSE UNCHANGED <<file, uses>>
  /\ kept' = Expected(kept, line)
  /\ line' = "" /\ typed' = ""

\* The prompt is left, or drawn again after the terminal changed its size or a menu was
\* shown: the position in the history is forgotten, the text is kept or not.
Leave ==
  /\ cur' = last
  /\ line' \in {"", line}
  /\ typed' = ""
  /\ UNCHANGED <<ringVars, file, uses, kept>>

\* mutt is started again.
Restart ==
  /\ LET r == mutt_read_histfile(file)
     IN hist' = r.hist /\ last' = r.last /\ cur' = r.last
  /\ kept' = FoldLeft(Expected, <<>>, file)
  /\ uses' = 0 /\ line' = "" /\ typed' = ""
  /\ UNCHANGED file

Next ==
  /\ Type \/ HistoryUp \/ HistoryDown \/ Return \/ Leave \/ Restart
  /\ UNCHANGED dups

Spec == Init /\ [][Next]_vars
------------------------------------------------------------------------------
TypeOK ==
  /\ hist \in [Slots -> Lines \cup {""}] /\ last \in Slots /\ cur \in Slots
  /\ line \in Lines \cup {""} /\ uses \in 0 .. SaveHist

\* The ring is the list: from the slot last back there are the lines that were entered,
\* the newest first, without a gap being seen, and as many as HistSize; on from there
\* the same the other way round.
Walk[n \in 0 .. HistSize, i \in Slots] ==
  IF n = 0 \/ prev(i) = last THEN <<>> ELSE <<hist[prev(i)]>> \o Walk[n - 1, prev(i)]
RingIsList == Reverse(Walk[HistSize, last]) = kept
BackAndForth == \A i \in Slots : hist[i] # "" \/ i = last => next(prev(i)) = i /\ prev(next(i)) = i

\* The text that was left for an older line comes back with the step that returns.
TypedComesBack == cur # last => hist[last] = typed

\* What the file will give the next mutt is what this one has, as far back as both go.
FileIsHistory ==
  LET Seen(k) == Newest(k, Min({HistSize, SaveHist, Len(kept)}))
      read == FoldLeft(Expected, <<>>, file)
  IN Seen(read) = Seen(kept)

HistoryRight == RingIsList /\ BackAndForth /\ TypedComesBack /\ FileIsHistory
==============================================================================
