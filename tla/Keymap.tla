-------------------------------- MODULE Keymap --------------------------------
(***************************************************************************)
(* From keys to functions: keymap.c, and the two buffers of events in      *)
(* curs_lib.c.  The bindings of a menu are a list that is sorted by keys,  *)
(* each with the number of leading keys it has in common with the next     *)
(* (eq).  km_dokey() goes through the list once as the keys come; keys     *)
(* that are not bound in a menu are put back and looked up in the generic  *)
(* menu; a macro puts its events into the macro buffer.                    *)
(*                                                                         *)
(* bound, todo and jumbled are for the properties.                         *)
(***************************************************************************)
EXTENDS Integers, Sequences, SequencesExt, FiniteSetsExt

CONSTANTS
    Keys,          \* what can be typed: numbers, as keys are compared
    AtFirst,       \* the keys that are bound at the start, in any order
    Bindings,      \* bound: the bindings that are made
    MaxBinds,      \* bound: how many are made
    MaxTyped,      \* bound: keys that are typed
    MaxLoop        \* macros that one km_dokey() expands before it calls them a loop

VARIABLES
    Keymaps,       \* the list of each menu
    UngetKeyEvents, MacroEvents,
    pc,            \* "menu", "reading", "unbound", "probed"
    call,          \* of km_dokey() while it reads: its menu, map, pos and n
    probe,         \* km_error_key() called it; the buffers before that
    bound,         \* the bindings of each menu
    todo,          \* the events that are typed, put back and expanded, in order
    jumbled,       \* a macro was expanded before all that was put back was read
    typed, binds

vars == <<Keymaps, UngetKeyEvents, MacroEvents, pc, call, probe, bound, todo, jumbled,
          typed, binds>>
mapVars == <<Keymaps, bound, binds>>
------------------------------------------------------------------------------
Menus == {"index", "generic"}
Key(k) == [ch |-> k, op |-> "null"]
Function(f) == [ch |-> 0, op |-> f]
Barrier == Function("end-cond")

\* How many keys s and t have in common, if the first pos are.
Match(s, t, pos) ==
  Max({p \in pos .. Min({Len(s), Len(t)}) : \A k \in pos + 1 .. p : s[k] = t[k]})

\* km_bind(): the loop over the list.  It stops where the new keys come before those of
\* the list, or where one of the two is the beginning of the other; what begins alike
\* is taken away.
Scan(list, keys) ==
  LET Step(a, t) ==
        LET p == Match(keys, t.keys, a.pos)
            clash == p >= Len(keys) \/ p >= Len(t.keys)
        IN CASE a.stop # "no" -> a
             [] a.stop = "no" /\ clash -> [a EXCEPT !.pos = p, !.stop = "overwrite"]
             [] a.stop = "no" /\ ~clash /\ keys[p + 1] < t.keys[p + 1] ->
                  [a EXCEPT !.pos = p, !.stop = "insert"]
             [] OTHER -> [at |-> a.at + 1, stop |-> "no", lastpos |-> p,
                          pos |-> Min({p, t.eq})]
  IN FoldLeft(Step, [at |-> 1, pos |-> 0, lastpos |-> 0, stop |-> "no"], list)
\* Mutant: only one map is overwritten, and eq of the one before stays as it was.
km_bind_Alone(list, b) ==
  LET s == Scan(list, b.keys)
      gone == IF s.stop = "overwrite" THEN s.at ELSE s.at - 1
      eq == IF s.stop = "insert" THEN s.pos ELSE 0
  IN SubSeq(list, 1, s.at - 1)
       \o <<[keys |-> b.keys, op |-> b.op, macro |-> b.macro, eq |-> eq]>>
       \o SubSeq(list, gone + 1, Len(list))
km_bind(list, b) ==
  LET s == Scan(list, b.keys)
      gone == IF s.stop # "overwrite" THEN s.at - 1
              ELSE Min({m \in s.at .. Len(list) : m = Len(list) \/ list[m].eq < s.pos})
      eq == CASE s.stop = "overwrite" -> list[gone].eq
              [] s.stop = "insert" -> s.pos
              [] s.stop = "no" -> 0
      before == IF s.at = 1 THEN <<>>
                ELSE [SubSeq(list, 1, s.at - 1) EXCEPT ![s.at - 1].eq = s.lastpos]
  IN before \o <<[keys |-> b.keys, op |-> b.op, macro |-> b.macro, eq |-> eq]>>
            \o SubSeq(list, gone + 1, Len(list))

\* What a binding is expected to do to the bindings.
Clash(s, t) == IsPrefix(s, t) \/ IsPrefix(t, s)
Rebound(B, b) ==
  {c \in B : ~Clash(c.keys, b.keys)} \cup {[keys |-> b.keys, op |-> b.op, macro |-> b.macro]}

\* km_dokey(): the map reached from list[at], of which pos keys were read, with key k: 0 if
\* there is none.
Reached(list, at, pos, k) ==
  LET Passed(i) == pos < Len(list[i].keys) /\ k > list[i].keys[pos + 1]
      here == {j \in at .. Len(list) :
                 /\ \A i \in at .. j - 1 : Passed(i) /\ pos <= list[i].eq
                 /\ ~Passed(j) }
  IN IF here = {} THEN 0
     ELSE LET j == Min(here)
          IN IF pos < Len(list[j].keys) /\ list[j].keys[pos + 1] = k THEN j ELSE 0
------------------------------------------------------------------------------
Help == [keys |-> <<Max(Keys)>>, op |-> "help", macro |-> <<>>]
Next1(s) == [keys |-> s, op |-> "next", macro |-> <<>>]

Init ==
  /\ \E order \in SetToSeqs(AtFirst) :
       Keymaps = [ index |-> FoldLeft(LAMBDA l, s : km_bind(l, Next1(s)), <<>>, order),
                   generic |-> km_bind(<<>>, Help) ]
  /\ bound = [ index |-> {Next1(s) : s \in AtFirst}, generic |-> {Help} ]
  /\ UngetKeyEvents = <<>> /\ MacroEvents = <<>>
  /\ pc = "menu"
  /\ call = [menu |-> "none"]
  /\ probe = [on |-> FALSE]
  /\ todo = <<>> /\ jumbled = FALSE
  /\ typed = 0 /\ binds = 0

\* mutt_parse_bind(), mutt_parse_macro()
Bind ==
  /\ pc = "menu" /\ typed = 0 /\ binds < MaxBinds
  /\ \E b \in Bindings :
       /\ Keymaps' = [Keymaps EXCEPT ![b.menu] = km_bind(@, b)]
       /\ bound' = [bound EXCEPT ![b.menu] = Rebound(@, b)]
  /\ binds' = binds + 1
  /\ UNCHANGED <<UngetKeyEvents, MacroEvents, pc, call, probe, todo, jumbled, typed>>

Reading(menu) == [menu |-> menu, at |-> 1, pos |-> 0, n |-> 0]

\* mutt_menuLoop() wants a function; a menu without bindings leaves that to the generic.
DoKey ==
  /\ pc = "menu"
  /\ pc' = "reading"
  /\ call' = Reading(IF Keymaps.index = <<>> THEN "generic" ELSE "index")
  /\ UNCHANGED <<mapVars, UngetKeyEvents, MacroEvents, probe, todo, jumbled, typed>>

\* What km_dokey() returns: OP_NULL is an unbound key; km_error_key() takes away what is
\* left above its barrier.
FromBarrier(s) ==
  LET at == {i \in DOMAIN s : s[i] = Barrier}
  IN IF at = {} THEN <<>> ELSE SubSeq(s, 1, Max(at) - 1)
Returns(op, unget, macros, left) ==
  /\ call' = [menu |-> "none"]
  /\ MacroEvents' = macros
  /\ IF probe.on
     THEN /\ pc' = "probed"
          /\ UngetKeyEvents' = IF op = "end-cond" THEN unget ELSE FromBarrier(unget)
          /\ todo' = Reverse(macros \o UngetKeyEvents')
     ELSE /\ pc' = IF op = "noop" THEN "unbound" ELSE "menu"
          /\ UngetKeyEvents' = unget
          /\ todo' = left
  /\ UNCHANGED jumbled

\* retry_generic(): the keys are put back for the generic menu, where nothing is left to
\* try: mutt_flushinp().
retry_generic(taken, k, unget, macros) ==
  IF call.menu = "index"
  THEN /\ UngetKeyEvents' = unget \o <<Key(k)>> \o Reverse([i \in DOMAIN taken |-> Key(taken[i])])
       /\ MacroEvents' = macros
       /\ call' = Reading("generic")
       /\ UNCHANGED <<pc, jumbled>>
  ELSE Returns("noop", <<>>, <<>>, <<>>)

\* One event is taken: what was put back comes first, then macros, then the keyboard.
Handles(e, unget, macros, all) ==
  LET list == Keymaps[call.menu]
      j == Reached(list, call.at, call.pos, e.ch)
      rest == SubSeq(all, call.pos + 2, Len(all))
  IN IF e.op # "null" THEN Returns(e.op, unget, macros, rest)
     ELSE IF j = 0
     THEN /\ retry_generic(SubSeq(list[call.at].keys, 1, call.pos), e.ch, unget, macros)
          /\ call.menu = "index" => todo' = all
     ELSE IF call.pos + 1 < Len(list[j].keys)
     THEN /\ call' = [call EXCEPT !.at = j, !.pos = @ + 1]
          /\ UngetKeyEvents' = unget /\ MacroEvents' = macros
          /\ todo' = all
          /\ UNCHANGED <<pc, jumbled>>
     ELSE IF list[j].op # "macro" THEN Returns(list[j].op, unget, macros, rest)
     ELSE IF call.n = MaxLoop THEN Returns("error", <<>>, <<>>, <<>>)
     ELSE /\ call' = [call EXCEPT !.at = 1, !.pos = 0, !.n = @ + 1]
          /\ UngetKeyEvents' = unget
          /\ MacroEvents' = macros \o Reverse(list[j].macro)
          /\ todo' = list[j].macro \o rest
          /\ jumbled' = (jumbled \/ unget # <<>>)
          /\ UNCHANGED pc

ReadUnget ==
  /\ pc = "reading" /\ UngetKeyEvents # <<>>
  /\ Handles(Last(UngetKeyEvents), Front(UngetKeyEvents), MacroEvents, todo)
  /\ UNCHANGED <<mapVars, probe, typed>>

ReadMacro ==
  /\ pc = "reading" /\ UngetKeyEvents = <<>> /\ MacroEvents # <<>>
  /\ Handles(Last(MacroEvents), <<>>, Front(MacroEvents), todo)
  /\ UNCHANGED <<mapVars, probe, typed>>

ReadKey ==
  /\ pc = "reading" /\ UngetKeyEvents = <<>> /\ MacroEvents = <<>>
  /\ typed < MaxTyped
  /\ typed' = typed + 1
  /\ \E k \in Keys : Handles(Key(k), <<>>, <<>>, Append(todo, Key(k)))
  /\ UNCHANGED <<mapVars, probe>>

\* A timeout, ^G, or a terminal of another size: what was read of a sequence is lost.
Timeout ==
  /\ pc = "reading" /\ UngetKeyEvents = <<>> /\ MacroEvents = <<>>
  /\ Returns("error", <<>>, <<>>, <<>>)
  /\ UNCHANGED <<mapVars, probe, typed>>

\* km_error_key(): the help key that the user is told of is tried out first, above a
\* barrier in the buffer.
HelpKeys ==
  LET Of(menu) == {b \in ToSet(Keymaps[menu]) : b.op = "help"}
  IN IF Of("index") # {} THEN Of("index") ELSE Of("generic")
km_error_key ==
  /\ pc = "unbound"
  /\ IF HelpKeys = {}
     THEN pc' = "menu" /\ UNCHANGED <<UngetKeyEvents, call, probe, jumbled>>
     ELSE \E b \in HelpKeys :
            /\ UngetKeyEvents' = UngetKeyEvents \o <<Barrier>>
                 \o Reverse([i \in DOMAIN b.keys |-> Key(b.keys[i])])
            /\ probe' = [on |-> TRUE, unget |-> UngetKeyEvents, macros |-> MacroEvents]
            /\ call' = Reading(IF Keymaps.index = <<>> THEN "generic" ELSE "index")
            /\ pc' = "reading"
            /\ jumbled' = TRUE
  /\ UNCHANGED <<mapVars, MacroEvents, todo, typed>>

Probed ==
  /\ pc = "probed"
  /\ pc' = "menu"
  /\ probe' = [on |-> FALSE]
  /\ jumbled' = FALSE
  /\ UNCHANGED <<mapVars, UngetKeyEvents, MacroEvents, call, todo, typed>>

Next ==
  \/ Bind \/ DoKey \/ ReadUnget \/ ReadMacro \/ ReadKey \/ Timeout
  \/ km_error_key \/ Probed

Spec == Init /\ [][Next]_vars
------------------------------------------------------------------------------
EventType == [ch : Keys, op : {"null"}] \cup [ch : {0}, op : {"next", "end-cond"}]
TypeOK ==
  /\ UngetKeyEvents \in Seq(EventType) /\ MacroEvents \in Seq(EventType)
  /\ pc \in {"menu", "reading", "unbound", "probed"}
  /\ typed \in 0 .. MaxTyped /\ binds \in 0 .. MaxBinds

\* However the list came about, keys that are typed lead to what they are bound to: to a
\* binding when they are all of its keys, on when they are its first, and to none when
\* no binding begins with them.
Places(menu, s) ==
  LET list == Keymaps[menu]
      Go(at, k) == IF at = 0 THEN 0 ELSE Reached(list, at, k - 1, s[k])
  IN FoldLeft(Go, IF list = <<>> THEN 0 ELSE 1, [k \in DOMAIN s |-> k])
KeysFindTheirBinding ==
  pc = "menu" =>
    \A menu \in Menus :
      LET list == Keymaps[menu]
          longest == Max({Len(b.keys) : b \in bound[menu]} \cup {0})
      IN /\ {[keys |-> list[i].keys, op |-> list[i].op, macro |-> list[i].macro] :
               i \in DOMAIN list} = bound[menu]
         /\ \A s \in UNION {[1 .. n -> Keys] : n \in 1 .. longest} :
              LET begin == {b \in bound[menu] : IsPrefix(s, b.keys)}
                  at == Places(menu, s)
              IN /\ at = 0 <=> begin = {}
                 /\ at # 0 => IsPrefix(s, list[at].keys)

\* No key is lost, and none overtakes another, where keys are put back for the generic
\* menu and macros are expanded.  (Not so if a macro is found among keys that were put
\* back: what it stands for comes after the rest of them.)
Taken ==
  IF pc = "reading"
  THEN LET keys == SubSeq(Keymaps[call.menu][call.at].keys, 1, call.pos)
       IN [i \in DOMAIN keys |-> Key(keys[i])]
  ELSE <<>>
OrderKept == jumbled \/ Taken \o Reverse(MacroEvents \o UngetKeyEvents) = todo

\* The trial of the help key leaves nothing in the buffer, and reads nothing of what was
\* there, unless all input is flushed.
TrialLeavesNothing == pc = "probed" => UngetKeyEvents \in {probe.unget, <<>>}

KeymapRight == KeysFindTheirBinding /\ OrderKept /\ TrialLeavesNothing

\* The same of macros: the trial has none run.
TrialRunsNothing == pc = "probed" => MacroEvents \in {probe.macros, <<>>}
==============================================================================
