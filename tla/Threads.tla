------------------------------- MODULE Threads -------------------------------
(***************************************************************************)
(* thread.c, and mutt_sort_headers() of sort.c for $sort=threads.  The     *)
(* tree of THREADs is kept while mail arrives and only changed where a new *)
(* message belongs: a message that was known from references takes its     *)
(* place, messages are joined by subject for as long as nothing better is  *)
(* known, and flags in the THREADs say which siblings have to be sorted    *)
(* again.  Threads are collapsed, limited, broken and linked meanwhile.    *)
(***************************************************************************)
EXTENDS Integers, Sequences, SequencesExt, FiniteSets, FiniteSetsExt, TLC

CONSTANTS
    Mail,          \* the messages there are: Message-ID, In-Reply-To, References, ...
    Matching,      \* those that match the limit
    MaxBatch,      \* bound: messages found by one check for mail
    MaxCommands,   \* bound: commands that change what is shown or hung where
    Settings       \* values of the options, chosen at the start

VARIABLES
    conf,          \* the options
    hdrs,          \* ctx->hdrs: messages in the order of the index
    arrived,       \* messages that have been in the mailbox
    thread,        \* the THREADs
    hash,          \* ctx->thread_hash: the THREADs of a Message-ID, the last one first
    env,           \* In-Reply-To and References of a message, as they are now
    changed,       \* messages with subject_changed
    shown,         \* with a virtual number
    collapsed, limited, hides,    \* `collapsed', `limited', `num_hidden'
    pattern,       \* the index is limited
    collapse_all,  \* ctx->collapsed
    resort,        \* OPTNEEDRESORT and OPTSORTSUBTHREADS
    commands,      \* how many of these commands there were
    apart          \* the messages of the part that was cut off last, and those above it

tree == <<thread, hash, changed, env>>
view == <<shown, collapsed, limited, hides, pattern, collapse_all>>
vars == <<conf, hdrs, arrived, tree, view, resort, commands, apart>>
------------------------------------------------------------------------------
Messages == DOMAIN Mail
None == 0
Top == <<"top", 0>>            \* what the roots hang on; NULL outside of mutt_sort_threads()
Nil == <<"nil", 0>>
OfMessage(m) == <<"message", m>>
OfId(id) == <<"id", id>>

Fresh(m) == [message |-> m, parent |-> Nil, child |-> <<>>, fake |-> FALSE, dup |-> FALSE,
             aux |-> None, group |-> None, recalc_aux |-> FALSE, recalc_group |-> FALSE,
             sort_children |-> FALSE, check |-> FALSE]
Empty == Top :> Fresh(None) @@ Nil :> Fresh(None)

RECURSIVE Above(_, _)
\* A THREAD and what it hangs on.
Above(T, n) == IF n \in {Top, Nil} THEN <<>> ELSE <<n>> \o Above(T, T[n].parent)
RECURSIVE Below(_, _)
\* A THREAD and what hangs on it, as it is displayed.
Below(T, n) == <<n>> \o FlattenSeq([i \in 1 .. Len(T[n].child) |-> Below(T, T[n].child[i])])
RECURSIVE Nearest(_, _)
\* The first THREADs with a message, from one downwards.
Nearest(T, n) ==
  IF T[n].message # None THEN <<n>>
  ELSE FlattenSeq([i \in 1 .. Len(T[n].child) |-> Nearest(T, T[n].child[i])])
is_descendant(T, a, b) == b \in Range(Above(T, a))
Of(T, m) == CHOOSE n \in DOMAIN T : T[n].message = m

\* unlink_message(): THREADs above that were sorted by a key of this one lose it.
Loses(T, n, key, keyOf(_)) ==
  LET up == Tail(Above(T, n))
      other == { i \in 1 .. Len(up) : keyOf(T[up[i]]) # key }
  IN IF key = None THEN {} ELSE { up[i] : i \in 1 .. (IF other = {} THEN Len(up) ELSE Min(other) - 1) }
\* Mutant: THREADs above keep the key they got from the one that goes.
unlink_message_Keeps(T, n) ==
  [ t \in DOMAIN T |->
      [T[t] EXCEPT !.child = IF t = T[n].parent THEN SelectSeq(@, LAMBDA c : c # n) ELSE @] ]
unlink_message(T, n) ==
  LET p == T[n].parent
      A == Loses(T, n, T[n].aux, LAMBDA t : t.aux)
      G == Loses(T, n, T[n].group, LAMBDA t : t.group)
  IN [ t \in DOMAIN T |->
         [T[t] EXCEPT !.child = IF t = p THEN SelectSeq(@, LAMBDA c : c # n) ELSE @,
                      !.aux = IF t \in A THEN None ELSE @,
                      !.group = IF t \in G THEN None ELSE @] ]
insert_message(T, p, n) ==
  [T EXCEPT ![n].parent = p, ![p].child = <<n>> \o @, ![p].recalc_aux = TRUE,
            ![p].recalc_group = TRUE, ![p].sort_children = TRUE]
Moved(T, p, n) == insert_message(unlink_message(T, n), p, n)
------------------------------------------------------------------------------
(* mutt_sort_threads().  S is the tree: thread, hash, changed, env, and the    *)
(* messages with `threaded'.                                                   *)
Find(S, id) == IF id \in DOMAIN S.hash THEN Head(S.hash[id]) ELSE Nil
Hashed(S, id, n) ==
  [S EXCEPT !.hash = (id :> <<n>> \o (IF id \in DOMAIN @ THEN @[id] ELSE <<>>)) @@ @]

RECURSIVE Vacate(_, _)
\* A THREAD leaves its place, and a missing message above it that nothing is left of.
Lonely(T, n) ==
  n # Top /\ T[n].child = <<>> /\ T[n].message = None /\ T[n].parent # Nil
Leave(T, n, p) == IF Lonely(T, p) THEN Vacate(T, p) ELSE T
Vacate(T, n) ==
  Leave([unlink_message(T, n) EXCEPT ![n].parent = Nil, ![n].aux = None, ![n].group = None,
                                     ![n].fake = FALSE], n, T[n].parent)

\* The messages below whose subject may have changed against the one above.
Checked(T, ns) == [t \in DOMAIN T |-> [T[t] EXCEPT !.check = @ \/ t \in ns]]

\* A new message: the missing one, a duplicate, or one of its own.
Filled(T, m, n) ==
  LET below == UNION { Range(Nearest(T, c)) : c \in Range(T[n].child) }
      U == Checked([T EXCEPT ![n].message = m], below \cup {n})
  IN IF T[n].parent = Nil THEN U ELSE Vacate(U, n)
New(S, m) ==
  Hashed([S EXCEPT !.thread = (OfMessage(m) :> [Fresh(m) EXCEPT !.check = TRUE]) @@ @],
         Mail[m].id, OfMessage(m))
Duplicate(S, m, n) ==
  [S EXCEPT !.thread = [insert_message(@, n, OfMessage(m)) EXCEPT ![OfMessage(m)].dup = TRUE],
            !.threaded = @ \cup {m}]
Instead(T, n) == IF T[n].dup THEN T[n].parent ELSE n
Placed(S, m, init) ==
  LET found == IF init /\ ~conf.dup_threads THEN Nil ELSE Find(S, Mail[m].id)
  IN IF found # Nil /\ S.thread[found].message = None
     THEN [S EXCEPT !.thread = Filled(@, m, found)]
     ELSE IF found # Nil /\ conf.dup_threads
     THEN Duplicate(New(S, m), m, Instead(S.thread, found))
     ELSE New(S, m)

\* A message that was there: what hangs on it by its subject only is cut off.
Released(S, m) ==
  LET n == Of(S.thread, m) IN
  [S EXCEPT !.thread =
     FoldLeft(LAMBDA T, c : IF T[c].fake THEN [Moved(T, Top, c) EXCEPT ![c].fake = FALSE] ELSE T,
              @, S.thread[n].child)]

\* The Message-IDs a message is threaded by: In-Reply-To first, which References
\* usually repeats.
Refs(S, m) ==
  LET irt == S.env[m].irt  refs == S.env[m].refs
  IN IF irt = <<>> THEN refs
     ELSE IF refs = <<>> THEN irt
     ELSE <<irt[1]>> \o (IF irt[1] = refs[1] THEN Tail(refs) ELSE refs)

\* Threading by references: each step goes up by one, until what is found has a place.
Known(S, id) ==
  IF id \in DOMAIN S.hash THEN S
  ELSE Hashed([S EXCEPT !.thread = (OfId(id) :> Fresh(None)) @@ @], id, OfId(id))
Hung(T, n, to) ==
  insert_message(IF T[n].parent # Nil THEN unlink_message(T, n) ELSE T, to, n)
Up(S, s, to) ==
  IF is_descendant(S.thread, to, s.at) THEN [s EXCEPT !.tree = S]   \* no loops!
  ELSE [tree |-> [S EXCEPT !.thread = Hung(@, s.at, to)], at |-> to,
        done |-> S.thread[to].message # None \/ S.thread[to].parent \notin {Nil, Top}]
ByReference(s, S, id) == IF s.done THEN s ELSE Up(S, s, Instead(S.thread, Find(S, id)))
Rooted(s) ==
  IF s.tree.thread[s.at].parent # Nil THEN s.tree
  ELSE [s.tree EXCEPT !.thread = insert_message(@, Top, s.at)]
Referred(S, m) ==
  Rooted(FoldLeft(LAMBDA s, id : ByReference(s, Known(s.tree, id), id),
                  [tree |-> S, at |-> Of(S.thread, m), done |-> FALSE], Refs(S, m)))

\* check_subjects()
SubjectChanged(T, m) ==
  LET up == SelectSeq(Tail(Above(T, Of(T, m))), LAMBDA t : T[t].message # None)
  IN up = <<>> \/ Mail[T[up[1]].message].subj # Mail[m].subj
check_subjects(S, ms, init) ==
  LET look == { m \in ms : init \/ S.thread[Of(S.thread, m)].check }
  IN [S EXCEPT !.changed = (@ \ look) \cup { m \in look : SubjectChanged(S.thread, m) },
               !.thread = [t \in DOMAIN @ |-> [@[t] EXCEPT !.check = FALSE]]]

\* make_subject_list(), find_subject(): the latest message that was sent before and
\* may be what this one answers.
find_subject(S, n, ms) ==
  LET T == S.thread
      near == { T[t].message : t \in Range(Nearest(T, n)) }
      subjects == { Mail[m].subj : m \in { x \in near : Mail[x].re \/ ~conf.sort_re } }
      date == Min({ Mail[m].date : m \in near })
      fit == { m \in ms : /\ ~T[Of(T, m)].fake /\ m \in S.changed
                          /\ ~is_descendant(T, Of(T, m), n)
                          /\ Mail[m].subj \in subjects /\ Mail[m].date =< date }
  IN IF fit = {} THEN Nil
     ELSE Of(T, CHOOSE m \in fit : \A x \in fit : Mail[x].date =< Mail[m].date)

\* pseudo_threads(): what hangs on a message by subject goes to what that message
\* itself is hung on.
Adopt(S, t, n, p) ==
  IF t # n /\ Mail[S.thread[t].message].subj # Mail[S.thread[p].message].subj THEN S
  ELSE [S EXCEPT !.changed = @ \ {S.thread[t].message},
                 !.thread = FoldLeft(LAMBDA T, c : IF T[c].fake THEN Moved(T, p, c) ELSE T,
                                     @, @[t].child)]
Joined(S, n, p) ==
  IF p = Nil THEN S
  ELSE FoldLeft(LAMBDA s, t : Adopt(s, t, n, p),
                [S EXCEPT !.thread = Moved([@ EXCEPT ![n].fake = TRUE], p, n)],
                Nearest(S.thread, n))
pseudo_threads(S, ms) ==
  FoldLeft(LAMBDA s, n : Joined(s, n, find_subject(s, n, ms)), S, S.thread[Top].child)
------------------------------------------------------------------------------
(* mutt_sort_subthreads(): siblings are sorted only where a flag says so.      *)
Later(a, b) == Mail[a].date > Mail[b].date
ByAux(T, cs) ==
  SortSeq(cs, LAMBDA a, b : IF conf.aux_reverse THEN Later(T[a].aux, T[b].aux)
                                                ELSE Later(T[b].aux, T[a].aux))
ByGroup(T, cs) ==
  LET reverse == IF conf.groups = "aux" THEN conf.aux_reverse ELSE conf.groups_reverse
  IN SortSeq(cs, LAMBDA a, b : IF reverse THEN Later(T[a].group, T[b].group)
                                          ELSE Later(T[b].group, T[a].group))

\* The message a THREAD is sorted by among its siblings, from its first and last child.
AuxKey(T, n) ==
  LET cs == T[n].child
      from == IF conf.aux_last = conf.aux_reverse THEN T[cs[1]].aux ELSE T[Last(cs)].aux
      own == T[n].message
  IN IF own = None \/ (conf.aux_last /\ Later(from, own)) THEN from ELSE own
\* The one it is sorted by if it is a root.
GroupKey(T, n) ==
  LET keys == { T[c].group : c \in Range(T[n].child) }
      own == IF T[n].message = None THEN {} ELSE {T[n].message}
      most(ks) == CHOOSE k \in ks : \A x \in ks : ~Later(x, k)
      least(ks) == CHOOSE k \in ks : \A x \in ks : ~Later(k, x)
  IN CASE conf.groups = "aux" -> T[n].aux
       [] conf.groups = "last" -> most(keys \cup own)
       [] OTHER -> IF own # {} THEN T[n].message ELSE least(keys)

\* Coming to a THREAD from above.
Entered(T, n, init) ==
  LET p == T[n].parent
      aux == IF init THEN None ELSE T[n].aux
      group == IF init THEN None ELSE T[n].group
  IN [T EXCEPT ![n].aux = aux, ![n].group = group,
               ![p].recalc_aux = @ \/ aux = None, ![p].recalc_group = @ \/ group = None,
               ![p].sort_children = @ \/ (IF p = Top THEN group = None ELSE aux = None)]
\* Going up from its children.
AuxLeft(T, n) ==
  LET p == T[n].parent
      stale == T[n].aux = None \/ T[n].recalc_aux
      key == IF stale THEN AuxKey(T, n) ELSE T[n].aux
      up == key # T[n].aux /\ p # Top
  IN [T EXCEPT ![n].aux = key, ![n].recalc_aux = FALSE, ![n].sort_children = FALSE,
               ![p].recalc_aux = @ \/ up, ![p].sort_children = @ \/ up]
GroupLeft(T, n) ==
  LET p == T[n].parent
      stale == T[n].group = None \/ T[n].recalc_group
      key == IF stale THEN GroupKey(T, n) ELSE T[n].group
      up == key # T[n].group
  IN [T EXCEPT ![n].group = key, ![n].recalc_group = FALSE,
               ![p].recalc_group = @ \/ up, ![p].sort_children = @ \/ (up /\ p = Top)]
Leaf(T, n) == [T EXCEPT ![n].aux = T[n].message, ![n].group = T[n].message]
Resorted(T, p) ==
  IF Len(T[p].child) < 2 \/ ~T[p].sort_children THEN T
  ELSE [T EXCEPT ![p].child = IF p = Top THEN ByGroup(T, @) ELSE ByAux(T, @),
                 ![p].recalc_aux = TRUE]

RECURSIVE Siblings(_, _, _)
\* The children of p and all below them.
Siblings(T, p, init) ==
  Resorted(FoldLeft(LAMBDA U, c :
                      IF U[c].child = <<>> THEN Leaf(Entered(U, c, init), c)
                      ELSE GroupLeft(AuxLeft(Siblings(Entered(U, c, init), c, init), c), c),
                    T, T[p].child), p)
Cleared(T) == [T EXCEPT ![Top] = [Fresh(None) EXCEPT !.child = T[Top].child]]
mutt_sort_subthreads(T, init) == Cleared(Siblings(Cleared(T), Top, init))

\* linearize_tree()
linearize_tree(T) ==
  LET ms == SelectSeq([i \in 1 .. Len(Below(T, Top)) |-> T[Below(T, Top)[i]].message],
                      LAMBDA m : m # None)
  IN IF conf.reverse THEN Reverse(ms) ELSE ms

\* mutt_sort_threads() of the messages ms, from what is known or from nothing.
Scratch(S) == [S EXCEPT !.thread = Empty, !.hash = <<>>, !.changed = {}, !.threaded = {}]
Place(S, ms, init) ==
  FoldLeft(LAMBDA s, m : IF m \in S.threaded THEN Released(s, m) ELSE Placed(s, m, init),
           S, ms)
Refer(S, ms) ==
  FoldLeft(LAMBDA s, m : IF m \in s.threaded THEN s ELSE Referred(s, m), S, ms)
mutt_sort_threads(S0, ms, init) ==
  FoldLeft(LAMBDA S, part :
             CASE part = "place" -> Place(S, ms, init)
               [] part = "refer" -> Refer(S, ms)
               [] part = "subjects" -> check_subjects(S, Range(ms), init)
               [] part = "pseudo" -> IF conf.strict THEN S ELSE pseudo_threads(S, Range(ms))
               [] part = "sort" -> [S EXCEPT !.thread = mutt_sort_subthreads(@, init),
                                             !.threaded = Range(ms)],
           IF init THEN Scratch(S0) ELSE S0, <<"place", "refer", "subjects", "pseudo", "sort">>)
------------------------------------------------------------------------------
(* What is shown.  V: shown, collapsed, limited, hides, pattern.               *)
Limited(V, m) == ~V.pattern \/ m \in V.limited
Messages_of(T, root) == SelectSeq([i \in 1 .. Len(Below(T, root)) |-> T[Below(T, root)[i]].message],
                                  LAMBDA m : m # None)
Root(T, m) == Last(Above(T, Of(T, m)))
\* VISIBLE
Visible(V, m) == m \in V.shown \/ (m \in V.collapsed /\ Limited(V, m))

\* _mutt_traverse_thread() to collapse the thread of m: its first message that is in
\* the limit stays.
Collapse(T, V, m) ==
  LET ms == Messages_of(T, Root(T, m))
      in == SelectSeq(ms, LAMBDA x : Limited(V, x))
      first == IF ms[1] \in V.shown \/ in = <<>> THEN ms[1] ELSE in[1]
      gone == Range(Tail(ms)) \ {first}
      out == { x \in Range(in) : x \notin V.shown \/ x \in gone }
      n == Cardinality(out) + (IF Len(Below(T, Root(T, m))) > 1 THEN 1 ELSE 0)
  IN [V EXCEPT !.collapsed = @ \cup Range(ms), !.shown = @ \ gone,
               !.hides = [x \in Messages |-> IF x \in Range(ms) THEN n ELSE @[x]]]
\* ... and to uncollapse it.
Uncollapse(T, V, m) ==
  LET ms == Messages_of(T, Root(T, m))
      single == Len(Below(T, Root(T, m))) = 1
      later == IF T[Root(T, m)].message = None THEN Range(ms) ELSE Range(Tail(ms))
  IN [V EXCEPT !.collapsed = @ \ Range(ms),
               !.shown = @ \cup { x \in later : Limited(V, x) },
               !.hides = [x \in Messages |-> IF single /\ x \in Range(ms) THEN 0 ELSE @[x]]]

\* mutt_sort_headers(): messages in collapsed threads get numbers, then the threads
\* whose first message is collapsed are collapsed again.
Renumbered(T, V, ms) ==
  LET all == [V EXCEPT !.shown = @ \cup { m \in ms : Visible(V, m) }]
      first(n) == Messages_of(T, n)[1]
  IN FoldLeft(LAMBDA W, n : IF first(n) \in W.collapsed THEN Collapse(T, W, first(n)) ELSE W,
              all, T[Top].child)

View == [shown |-> shown, collapsed |-> collapsed, limited |-> limited, hides |-> hides,
         pattern |-> pattern]
Tree == [thread |-> thread, hash |-> hash, changed |-> changed, env |-> env,
         threaded |-> Range(hdrs)]
SetTree(S) ==
  thread' = S.thread /\ hash' = S.hash /\ changed' = S.changed /\ env' = S.env
SetView(V) ==
  /\ shown' = V.shown /\ collapsed' = V.collapsed /\ limited' = V.limited
  /\ hides' = V.hides /\ pattern' = V.pattern

\* mutt_sort_headers() of messages that are in the order ms.
mutt_sort_headers(S, V, ms, init) ==
  IF ms = <<>> THEN [tree |-> Scratch(S), view |-> [V EXCEPT !.shown = {}]]
  ELSE LET s == mutt_sort_threads(S, ms, init)
       IN [tree |-> s, view |-> Renumbered(s.thread, V, Range(ms))]
Sorted(ms, S, V, init) ==
  \E r \in {mutt_sort_headers(S, V, ms, init)} :
    /\ SetTree(r.tree) /\ SetView(r.view)
    /\ hdrs' = IF ms = <<>> THEN <<>> ELSE linearize_tree(r.tree.thread)
------------------------------------------------------------------------------
\* A check finds new messages: mx_update_context(), update_index_threaded().
Arrive ==
  /\ ~resort
  /\ \E new \in UNION { [1 .. k -> Messages \ arrived] : k \in 1 .. MaxBatch } :
       /\ IsInjective(new)
       /\ LET oldcount == shown # {}
              in == Matching \cap (IF oldcount THEN Range(new) ELSE Range(hdrs \o new))
              first == IF pattern THEN View ELSE [View EXCEPT !.shown = @ \cup Range(new)]
          IN \E one \in {mutt_sort_headers(Tree, first, hdrs \o new, FALSE)} :
             \E two \in {IF pattern
                         THEN mutt_sort_headers(one.tree, [one.view EXCEPT !.shown = @ \cup in,
                                                                           !.limited = @ \cup in],
                                                linearize_tree(one.tree.thread), FALSE)
                         ELSE one} :
               /\ SetTree(two.tree) /\ hdrs' = linearize_tree(two.tree.thread)
               /\ SetView(IF conf.uncollapse_new /\ oldcount
                          THEN FoldLeft(LAMBDA V, m : IF Limited(V, m)
                                                      THEN Uncollapse(two.tree.thread, V, m) ELSE V,
                                        two.view, new)
                          ELSE two.view)
       /\ arrived' = arrived \cup Range(new)
  /\ apart' = [below |-> {}, above |-> {}]
  /\ UNCHANGED <<conf, collapse_all, resort, commands>>

\* The bound counts a command that changes the threads twice.
Commanded(n) == commands + n =< MaxCommands /\ commands' = commands + n

\* <collapse-thread>
CollapseThread ==
  /\ ~resort /\ Commanded(1)
  /\ \E m \in shown :
       SetView(IF m \in collapsed THEN Uncollapse(thread, View, m) ELSE Collapse(thread, View, m))
  /\ UNCHANGED <<conf, hdrs, arrived, tree, collapse_all, resort, apart>>

\* <collapse-all>: the thread the user is in, then the others.
CollapseAll ==
  /\ ~resort /\ shown # {} /\ collapse_all' = ~collapse_all /\ Commanded(1)
  /\ LET Turn(V, m) == IF (m \in V.collapsed) = collapse_all' THEN V
                       ELSE IF m \in V.collapsed THEN Uncollapse(thread, V, m)
                       ELSE Collapse(thread, V, m)
         first == [i \in 1 .. Len(thread[Top].child) |-> Messages_of(thread, thread[Top].child[i])[1]]
     IN \E cur \in shown : SetView(FoldLeft(Turn, View, <<cur>> \o first))
  /\ UNCHANGED <<conf, hdrs, arrived, tree, resort, apart>>

\* <limit>: mutt_pattern_func(); the numbers are given in the order of hdrs.
Limit ==
  /\ hdrs # <<>> /\ ~resort /\ collapse_all' = FALSE /\ Commanded(1)
  /\ \E p \in BOOLEAN :
       LET in == IF p THEN Matching \cap Range(hdrs) ELSE Range(hdrs)
       IN SetView([shown |-> in, collapsed |-> {}, limited |-> in, pattern |-> p,
                   hides |-> [m \in Messages |-> 0]])
  /\ UNCHANGED <<conf, hdrs, arrived, tree, resort, apart>>

\* A message is deleted and the mailbox synced: mx_update_tables(), from scratch.
Expunge ==
  /\ ~resort
  /\ \E m \in Range(hdrs) :
       Sorted(SelectSeq(hdrs, LAMBDA x : x # m), Tree,
              [View EXCEPT !.shown = @ \ {m}, !.collapsed = @ \ {m}, !.limited = @ \ {m},
                           !.hides[m] = 0], TRUE)
  /\ UNCHANGED <<conf, arrived, collapse_all, resort, commands, apart>>

\* $sort_aux or $sort_thread_groups was set ...
SetSort ==
  /\ hdrs # <<>> /\ ~resort /\ Commanded(2)
  /\ \E c \in Settings :
       /\ c # conf /\ conf' = c
       /\ [c EXCEPT !.aux_last = conf.aux_last, !.aux_reverse = conf.aux_reverse,
                    !.groups = conf.groups, !.groups_reverse = conf.groups_reverse] = conf
  /\ resort' = TRUE
  /\ UNCHANGED <<hdrs, arrived, tree, view, apart>>
\* ... and resort_index() sorts, the subthreads first: OPTSORTSUBTHREADS.
Resort ==
  /\ resort /\ resort' = FALSE
  /\ Sorted(hdrs, [Tree EXCEPT !.thread = mutt_sort_subthreads(@, TRUE)], View, FALSE)
  /\ UNCHANGED <<conf, arrived, collapse_all, commands, apart>>

RECURSIVE clean_references(_, _, _, _)
\* References of what hangs on a broken thread keep nothing from above it.
clean_references(E, T, brk, siblings) ==
  IF siblings = <<>> THEN E
  ELSE LET c == siblings[1]
           D == clean_references(E, T, brk, T[c].child)
           m == T[c].message
           above == SelectSeq(Above(T, brk), LAMBDA t : T[t].message # None)
           known == { i \in 1 .. Len(above) :
                        Mail[T[above[i]].message].id \in Range(D[m].refs) }
           id == Mail[T[above[Min(known)]].message].id
           at == Min({ i \in 1 .. Len(D[m].refs) : D[m].refs[i] = id })
       IN IF m = None THEN D                                   \* skip pseudo-message
          ELSE clean_references(IF known = {} THEN D ELSE [D EXCEPT ![m].refs = SubSeq(@, 1, at)],
                                T, brk, Tail(siblings))
\* mutt_break_thread()
mutt_break_thread(m) ==
  clean_references([env EXCEPT ![m] = [irt |-> <<>>, refs |-> <<>>]], thread, Of(thread, m),
                   thread[Of(thread, m)].child)

\* <break-thread>, and <link-threads> with one message that is tagged.
Messages_in(T, ns) == { T[n].message : n \in ns } \ {None}
BreakThread ==
  /\ ~resort /\ Commanded(2)
  /\ \E m \in shown :
       /\ env[m] # [irt |-> <<>>, refs |-> <<>>]
       /\ Sorted(hdrs, [Tree EXCEPT !.env = mutt_break_thread(m)], View, TRUE)
       /\ apart' = [below |-> Messages_in(thread, Range(Below(thread, Of(thread, m)))),
                    above |-> Messages_in(thread, Range(Tail(Above(thread, Of(thread, m)))))]
  /\ UNCHANGED <<conf, arrived, collapse_all, resort>>
LinkThreads ==
  /\ ~resort /\ Commanded(2)
  /\ \E parent, m \in shown :
       /\ m # parent
       /\ Sorted(hdrs, [Tree EXCEPT !.env = [mutt_break_thread(m) EXCEPT
                                               ![m].irt = <<Mail[parent].id>>]], View, TRUE)
  /\ apart' = [below |-> {}, above |-> {}]
  /\ UNCHANGED <<conf, arrived, collapse_all, resort>>

Init ==
  /\ conf \in Settings /\ hdrs = <<>> /\ arrived = {}
  /\ env = [m \in Messages |-> [irt |-> Mail[m].irt, refs |-> Mail[m].refs]]
  /\ thread = Empty /\ hash = <<>> /\ changed = {}
  /\ shown = {} /\ collapsed = {} /\ limited = {} /\ hides = [m \in Messages |-> 0]
  /\ pattern = FALSE /\ collapse_all = FALSE /\ resort = FALSE /\ commands = 0
  /\ apart = [below |-> {}, above |-> {}]
Next ==
  \/ Arrive \/ Expunge \/ Limit \/ CollapseThread \/ CollapseAll
  \/ SetSort \/ Resort \/ BreakThread \/ LinkThreads
Spec == Init /\ [][Next]_vars
------------------------------------------------------------------------------
\* The variables have their types.
TypeOK ==
  /\ IsInjective(hdrs) /\ Range(hdrs) \subseteq arrived
  /\ shown \cup collapsed \cup limited \cup changed \subseteq Range(hdrs)
  /\ \A n \in DOMAIN thread : thread[n].parent \in DOMAIN thread \cup {Nil}

InTree == Range(Below(thread, Top)) \ {Top}

\* The tree has every message once, in the order of the index, and no THREAD for a
\* missing message that nothing hangs on: linearize_tree() and others go down from
\* such a THREAD until they find a message.
TreeIsWhole ==
  /\ hdrs = linearize_tree(thread)
  /\ \A n \in InTree :
       /\ \A c \in Range(thread[n].child) : thread[c].parent = n
       /\ thread[n].message = None => thread[n].child # <<>>

RECURSIVE AuxOf(_), GroupOf(_)
Earliest(ms) == CHOOSE m \in ms : \A x \in ms : Mail[m].date =< Mail[x].date
Latest(ms) == CHOOSE m \in ms : \A x \in ms : Mail[m].date >= Mail[x].date
\* What $sort_aux and $sort_thread_groups say a THREAD is sorted by.
AuxOf(n) ==
  LET own == {thread[n].message} \ {None}
      below == { AuxOf(c) : c \in Range(thread[n].child) }
  IN CASE conf.aux_last -> Latest(own \cup below)
       [] ~conf.aux_last /\ own # {} -> thread[n].message
       [] OTHER -> Earliest(below)
GroupOf(n) ==
  LET own == {thread[n].message} \ {None}
      below == { GroupOf(c) : c \in Range(thread[n].child) }
  IN CASE conf.groups = "aux" -> AuxOf(n)
       [] conf.groups = "last" -> Latest(own \cup below)
       [] conf.groups = "date" /\ own # {} -> thread[n].message
       [] OTHER -> Earliest(below)
InOrder(cs, key(_), reverse) ==
  \A i \in 1 .. Len(cs) - 1 :
    IF reverse THEN Later(key(cs[i]), key(cs[i + 1])) ELSE Later(key(cs[i + 1]), key(cs[i]))

\* Siblings are in the order of the options, although only those are sorted that are
\* flagged, by keys of which only those are found anew that are flagged.
SiblingsInOrder ==
  ~resort =>
    /\ \A n \in InTree : InOrder(thread[n].child, AuxOf, conf.aux_reverse)
    /\ InOrder(thread[Top].child, GroupOf,
               IF conf.groups = "aux" THEN conf.aux_reverse ELSE conf.groups_reverse)

\* The message another hangs on, if it does by References.
Parent(T, m) ==
  LET up == Above(T, Of(T, m))
      next == { i \in 2 .. Len(up) : T[up[i]].message # None }
  IN IF next = {} THEN None
     ELSE IF \E i \in 1 .. Min(next) - 1 : T[up[i]].fake THEN None
     ELSE T[up[Min(next)]].message
Answered(T, m) ==
  LET up == Above(T, Of(T, m))
      next == { i \in 2 .. Len(up) : T[up[i]].message # None }
  IN IF next = {} THEN None ELSE T[up[Min(next)]].message

\* What the references of the messages say hangs on what, and what follows from it.
Said == UNION { LET ids == <<Mail[m].id>> \o Refs(Tree, m)
                IN { <<ids[i], ids[i + 1]>> : i \in 1 .. Len(ids) - 1 } : m \in Range(hdrs) }
Follows(R) == R \cup { <<p[1], q[2]>> : <<p, q>> \in { r \in R \X R : r[1][2] = r[2][1] } }
NoLoops ==
  \A p \in FoldLeft(LAMBDA R, k : Follows(R), Said, <<1, 2, 3>>) : p[1] # p[2]
\* The order in which mail arrived does not matter: threading from nothing gives what
\* was built step by step, unless messages were linked in a circle.
SameFromScratch ==
  hdrs # <<>> /\ NoLoops =>
    \A S \in {mutt_sort_threads(Tree, hdrs, TRUE)} :
      /\ S.changed = changed
      /\ \A m \in Range(hdrs) : /\ Parent(S.thread, m) = Parent(thread, m)
                               /\ Answered(S.thread, m) = Answered(thread, m)

\* Every message that matches the limit is shown or in a thread of which a collapsed
\* message is shown.
NothingVanishes ==
  \A m \in Range(hdrs) :
    Limited(View, m) => \/ m \in shown
                        \/ m \in collapsed /\ \E x \in shown \cap collapsed :
                                                Root(thread, x) = Root(thread, m)
\* The number shown with a collapsed thread is that of its messages in the limit.
HiddenAreCounted ==
  ~resort => \A n \in Range(thread[Top].child) :
    LET ms == Range(Messages_of(thread, n))
        in == { m \in ms : Limited(View, m) }
    IN ms \subseteq collapsed /\ Len(Below(thread, n)) > 1 =>
         /\ Cardinality(shown \cap ms) =< 1
         /\ \A m \in shown \cap ms : hides[m] = Cardinality(in)
\* What the index shows of the threads.
ThreadsRight ==
  TreeIsWhole /\ SiblingsInOrder /\ SameFromScratch /\ NothingVanishes /\ HiddenAreCounted

\* What is cut off stays so: nothing of it hangs by References on what was above it,
\* also when the message where it was cut is deleted.  This does not hold behind a
\* missing message: see clean_references().
BrokenStaysBroken ==
  \A m \in apart.below \cap Range(hdrs), a \in apart.above \cap Range(hdrs) :
    ~ (\E i \in 1 .. Len(Above(thread, Of(thread, m))) :
         LET up == Above(thread, Of(thread, m))
         IN thread[up[i]].message = a /\ \A j \in 1 .. i - 1 : ~thread[up[j]].fake)

\* A thread is collapsed or it is not.  This does not hold: a missing message that
\* arrives on top of a collapsed thread is not collapsed, so mutt_sort_headers() shows
\* the others again and leaves them marked.
WholeThreadsCollapse ==
  \A n \in Range(thread[Top].child) :
    LET ms == Range(Messages_of(thread, n)) IN ms \subseteq collapsed \/ ms \cap collapsed = {}
==============================================================================
