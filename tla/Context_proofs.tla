------------------------------ MODULE Context_proofs ------------------------------
(***************************************************************************)
(* Proofs about an open mailbox (Context) for any number of messages and   *)
(* copies and any settings: the operators of the model, the types, which   *)
(* headers are in memory, the counters, the mail and the changes that must *)
(* not be lost, and the limited view.                                      *)
(***************************************************************************)
EXTENDS Context, FiniteSetTheorems, SequenceTheorems, TLAPS

(***************************************************************************)
(* What setting a flag does: c and h are the context and the header before *)
(* a call of mutt_set_flag(), d and g those after it.                      *)
(***************************************************************************)
\* The view and the hash are left alone.
SameView(c, h, d, g) ==
  /\ g.virtual = h.virtual
  /\ d.limit = c.limit /\ d.pattern = c.pattern
  /\ d.id_hash = c.id_hash /\ d.dontwrite = c.dontwrite

\* With upd the counters follow the header, without it they stay.
By(upd, before, after) == IF upd THEN Bit(after) - Bit(before) ELSE 0
Moves(c, h, d, g, upd) ==
  /\ d.tagged = c.tagged + By(upd, h.tagged, g.tagged)
  /\ d.deleted = c.deleted + By(upd, h.deleted, g.deleted)
  /\ d.flagged = c.flagged + By(upd, h.flagged, g.flagged)
  /\ d.unread = c.unread + By(upd, ~h.read, ~g.read)
  /\ d.new = c.new + By(upd, ~h.read /\ ~h.old, ~g.read /\ ~g.old)

\* What is to be written later is marked, in the header and with upd in the context.
Marks(c, h, d, g, upd) ==
  /\ c.changed => d.changed
  /\ h.changed => g.changed
  /\ d.changed => c.changed \/ g.changed
  /\ upd /\ g.changed => h.changed \/ d.changed
  /\ g.changed \/ \A f \in {"read", "old", "replied", "flagged"} : g[f] = h[f]

SetRight(c, h, r, upd) ==
  /\ r.c \in CONTEXT /\ r.h \in HEADER
  /\ SameView(c, h, r.c, r.h)
  /\ Moves(c, h, r.c, r.h, upd)
  /\ Marks(c, h, r.c, r.h, upd)

Numbers(c) == {c.tagged, c.deleted, c.flagged, c.unread, c.new}

LEMMA ContextTyped ==
  ASSUME NEW c \in CONTEXT
  PROVE  Numbers(c) \subseteq Int /\ {c.changed, c.dontwrite, c.limit} \subseteq BOOLEAN
  BY DEF CONTEXT, Numbers

LEMMA HeaderTyped ==
  ASSUME NEW h \in HEADER
  PROVE  /\ {h.read, h.old, h.replied, h.flagged} \subseteq BOOLEAN
         /\ {h.deleted, h.purge, h.tagged, h.changed} \subseteq BOOLEAN
         /\ h.virtual \in Nat
  BY DEF HEADER

LEMMA CountIs ==
  ASSUME NEW c \in CONTEXT, NEW n \in Int, NEW upd \in BOOLEAN,
         NEW k \in {"tagged", "new", "unread", "deleted", "flagged"}
  PROVE  LET d == Count(c, k, n, upd)
         IN  /\ d \in CONTEXT
             /\ d[k] = c[k] + IF upd THEN n ELSE 0
             /\ \A f \in DOMAIN c \ {k} : d[f] = c[f]
  BY DEF Count, CONTEXT

LEMMA DirtyIs ==
  ASSUME NEW c \in CONTEXT, NEW upd \in BOOLEAN
  PROVE  LET d == Dirty(c, upd)
         IN  /\ d \in CONTEXT
             /\ d.changed = (c.changed \/ upd)
             /\ \A f \in DOMAIN c \ {"changed"} : d[f] = c[f]
  BY DEF Dirty, CONTEXT

\* A message that is read or unread moves two counters, in either order.
ReadIs(c, d, new, unread, upd) ==
  /\ d \in CONTEXT
  /\ d.new = c.new + (IF upd THEN new ELSE 0)
  /\ d.unread = c.unread + (IF upd THEN unread ELSE 0)
  /\ d.changed = (c.changed \/ upd)
  /\ \A f \in DOMAIN c \ {"new", "unread", "changed"} : d[f] = c[f]

LEMMA NewThenUnread ==
  ASSUME NEW c \in CONTEXT, NEW a \in Int, NEW b \in Int, NEW upd \in BOOLEAN
  PROVE  /\ ReadIs(c, Dirty(Count(Count(c, "new", a, upd), "unread", b, upd), upd), a, b, upd)
         /\ ReadIs(c, Dirty(Count(Count(c, "unread", b, upd), "new", a, upd), upd), a, b, upd)
         /\ ReadIs(c, Dirty(Count(c, "new", a, upd), upd), a, 0, upd)
<1> DEFINE F == {"tagged", "new", "unread", "deleted", "flagged", "changed", "dontwrite",
                 "limit", "pattern", "id_hash"}
<1>1. \A x \in CONTEXT : DOMAIN x = F BY DEF CONTEXT
<1>2. {c.new, c.unread} \subseteq Int BY ContextTyped DEF Numbers
<1>3. ASSUME NEW k \in {"new", "unread"}, NEW l \in {"new", "unread"}, k # l,
             NEW m \in Int, NEW n \in Int
      PROVE  LET d == Count(Count(c, k, m, upd), l, n, upd)
             IN  /\ d \in CONTEXT
                 /\ d[k] = c[k] + (IF upd THEN m ELSE 0)
                 /\ d[l] = c[l] + (IF upd THEN n ELSE 0)
                 /\ \A f \in F \ {k, l} : d[f] = c[f]
  <2> DEFINE e == Count(c, k, m, upd)
             d == Count(e, l, n, upd)
  <2>1. e \in CONTEXT /\ e[k] = c[k] + (IF upd THEN m ELSE 0) /\ \A f \in F \ {k} : e[f] = c[f]
    BY <1>1, CountIs
  <2> HIDE DEF e
  <2>2. d \in CONTEXT /\ d[l] = e[l] + (IF upd THEN n ELSE 0) /\ \A f \in F \ {l} : d[f] = e[f]
    BY <1>1, <2>1, CountIs
  <2> HIDE DEF d
  <2>3. d[k] = e[k] /\ e[l] = c[l] BY <1>3, <2>1, <2>2
  <2>4. \A f \in F \ {k, l} : d[f] = c[f] BY <2>1, <2>2
  <2>5. d \in CONTEXT /\ d[k] = c[k] + (IF upd THEN m ELSE 0) /\ d[l] = c[l] + (IF upd THEN n ELSE 0)
    BY <2>1, <2>2, <2>3
  <2> QED BY <2>4, <2>5 DEF d, e
<1>4. ASSUME NEW d \in CONTEXT,
             d.new = c.new + (IF upd THEN a ELSE 0),
             NEW u \in Int, d.unread = c.unread + (IF upd THEN u ELSE 0),
             \A f \in F \ {"new", "unread"} : d[f] = c[f]
      PROVE  ReadIs(c, Dirty(d, upd), a, u, upd)
  <2> DEFINE e == Dirty(d, upd)
  <2>1. e \in CONTEXT /\ e.changed = (d.changed \/ upd) /\ \A f \in F \ {"changed"} : e[f] = d[f]
    BY <1>1, <1>4, DirtyIs
  <2> HIDE DEF e
  <2>2. d.changed = c.changed /\ e.new = d.new /\ e.unread = d.unread BY <1>4, <2>1
  <2>3. \A f \in F \ {"new", "unread", "changed"} : e[f] = c[f] BY <1>4, <2>1
  <2>4. ReadIs(c, e, a, u, upd) BY <1>1, <1>4, <2>1, <2>2, <2>3 DEF ReadIs
  <2> QED BY <2>4 DEF e
<1>5. ReadIs(c, Dirty(Count(Count(c, "new", a, upd), "unread", b, upd), upd), a, b, upd)
  BY <1>3, <1>4
<1>6. ReadIs(c, Dirty(Count(Count(c, "unread", b, upd), "new", a, upd), upd), a, b, upd)
  BY <1>3, <1>4
<1>7. ReadIs(c, Dirty(Count(c, "new", a, upd), upd), a, 0, upd)
  <2> DEFINE d == Count(c, "new", a, upd)
  <2>1. d \in CONTEXT /\ d.new = c.new + (IF upd THEN a ELSE 0) /\ \A f \in F \ {"new"} : d[f] = c[f]
    BY <1>1, CountIs
  <2>2. d.unread = c.unread + (IF upd THEN 0 ELSE 0) BY <1>2, <2>1
  <2> HIDE DEF d
  <2>3. ReadIs(c, Dirty(d, upd), a, 0, upd) BY <1>4, <2>1, <2>2
  <2> QED BY <2>3 DEF d
<1> QED BY <1>5, <1>6, <1>7

LEMMA SameRight ==
  ASSUME NEW c \in CONTEXT, NEW h \in HEADER, NEW g \in HEADER, NEW upd \in BOOLEAN,
         \A f \in DOMAIN h \ {"purge"} : g[f] = h[f]
  PROVE  SetRight(c, h, Same(c, g), upd)
<1>1. Numbers(c) \subseteq Int BY ContextTyped
<1>2. DOMAIN h = {"read", "old", "replied", "flagged", "deleted", "purge", "tagged", "changed",
                  "virtual"}
  BY DEF HEADER
<1>3. SameView(c, h, c, g) BY <1>2 DEF SameView
<1>4. Moves(c, h, c, g, upd) BY <1>1, <1>2 DEF Moves, By, Bit, Numbers
<1>5. Marks(c, h, c, g, upd) BY <1>2 DEF Marks
<1> QED BY <1>3, <1>4, <1>5 DEF SetRight, Same

LEMMA ReadRight ==
  ASSUME NEW c \in CONTEXT, NEW h \in HEADER, NEW upd \in BOOLEAN, NEW d, NEW g \in HEADER,
         NEW a \in Int, NEW b \in Int, ReadIs(c, d, a, b, upd),
         a = Bit(~g.read /\ ~g.old) - Bit(~h.read /\ ~h.old),
         b = Bit(~g.read) - Bit(~h.read),
         g.changed, g.deleted = h.deleted, g.flagged = h.flagged, g.tagged = h.tagged,
         g.virtual = h.virtual
  PROVE  SetRight(c, h, [c |-> d, h |-> g], upd)
<1>1. Numbers(c) \subseteq Int BY ContextTyped
<1>2. DOMAIN c = {"tagged", "new", "unread", "deleted", "flagged", "changed", "dontwrite",
                  "limit", "pattern", "id_hash"}
  BY DEF CONTEXT
<1>3. SameView(c, h, d, g) BY <1>2 DEF SameView, ReadIs
<1>4. d.tagged = c.tagged /\ d.deleted = c.deleted /\ d.flagged = c.flagged BY <1>2 DEF ReadIs
<1>5. Moves(c, h, d, g, upd) BY <1>1, <1>4 DEF Moves, By, Bit, Numbers, ReadIs
<1>6. Marks(c, h, d, g, upd) BY DEF Marks, ReadIs
<1> QED BY <1>3, <1>5, <1>6 DEF SetRight, ReadIs

LEMMA set_new_Right ==
  ASSUME NEW c \in CONTEXT, NEW h \in HEADER, NEW bf \in BOOLEAN, NEW upd \in BOOLEAN
  PROVE  SetRight(c, h, set_new(c, h, bf, upd), upd)
<1>1. CASE bf /\ (h.read \/ h.old)
  <2> DEFINE g == [h EXCEPT !.old = FALSE, !.read = FALSE, !.changed = TRUE]
  <2>2. /\ g \in HEADER /\ g.read = FALSE /\ g.old = FALSE /\ g.changed
        /\ g.deleted = h.deleted /\ g.flagged = h.flagged /\ g.tagged = h.tagged
        /\ g.virtual = h.virtual
    BY <1>1 DEF HEADER
  <2> HIDE DEF g
  <2>3. SetRight(c, h, [c |-> Dirty(Count(Count(c, "new", 1, upd), "unread", Bit(h.read), upd), upd),
                        h |-> g], upd)
    BY <1>1, <2>2, NewThenUnread, ReadRight, HeaderTyped DEF Bit
  <2> QED BY <1>1, <2>3 DEF set_new, g
<1>2. CASE ~bf /\ ~h.read
  <2> DEFINE g == [h EXCEPT !.read = TRUE, !.changed = TRUE]
  <2>2. /\ g \in HEADER /\ g.read = TRUE /\ g.old = h.old /\ g.changed
        /\ g.deleted = h.deleted /\ g.flagged = h.flagged /\ g.tagged = h.tagged
        /\ g.virtual = h.virtual
    BY <1>1 DEF HEADER
  <2> HIDE DEF g
  <2>3. SetRight(c, h, [c |-> Dirty(Count(Count(c, "new", -Bit(~h.old), upd), "unread", -1, upd), upd),
                        h |-> g], upd)
    BY <1>2, <2>2, NewThenUnread, ReadRight, HeaderTyped DEF Bit
  <2> QED BY <1>2, <2>3 DEF set_new, g
<1>3. CASE ~(bf /\ (h.read \/ h.old)) /\ ~(~bf /\ ~h.read)
  BY <1>3, SameRight DEF set_new
<1> QED BY <1>1, <1>2, <1>3

LEMMA set_old_Right ==
  ASSUME NEW c \in CONTEXT, NEW h \in HEADER, NEW bf \in BOOLEAN, NEW upd \in BOOLEAN
  PROVE  SetRight(c, h, set_old(c, h, bf, upd), upd)
<1>1. CASE bf # h.old
  <2> DEFINE g == [h EXCEPT !.old = bf, !.changed = TRUE]
             n == IF h.read THEN 0 ELSE IF bf THEN -1 ELSE 1
  <2>2. /\ g \in HEADER /\ g.read = h.read /\ g.old = bf /\ g.changed
        /\ g.deleted = h.deleted /\ g.flagged = h.flagged /\ g.tagged = h.tagged
        /\ g.virtual = h.virtual
    BY <1>1 DEF HEADER
  <2> HIDE DEF g
  <2>3. n \in Int /\ n = Bit(~g.read /\ ~g.old) - Bit(~h.read /\ ~h.old)
    BY <1>1, <2>2, HeaderTyped DEF Bit
  <2>4. 0 = Bit(~g.read) - Bit(~h.read) BY <2>2 DEF Bit
  <2> HIDE DEF n
  <2>5. SetRight(c, h, [c |-> Dirty(Count(c, "new", n, upd), upd), h |-> g], upd)
    <3>1. ReadIs(c, Dirty(Count(c, "new", n, upd), upd), n, 0, upd) BY <2>3, NewThenUnread
    <3> QED BY <2>2, <2>3, <2>4, <3>1, ReadRight
  <2> QED BY <1>1, <2>5 DEF set_old, g, n
<1>2. CASE bf = h.old BY <1>2, SameRight DEF set_old
<1> QED BY <1>1, <1>2

LEMMA set_read_Right ==
  ASSUME NEW c \in CONTEXT, NEW h \in HEADER, NEW bf \in BOOLEAN, NEW upd \in BOOLEAN
  PROVE  SetRight(c, h, set_read(c, h, bf, upd), upd)
<1>1. CASE bf # h.read
  <2> DEFINE g == [h EXCEPT !.read = bf, !.changed = TRUE]
             n == IF bf THEN -1 ELSE 1
             k == IF h.old THEN 0 ELSE n
  <2>2. /\ g \in HEADER /\ g.read = bf /\ g.old = h.old /\ g.changed
        /\ g.deleted = h.deleted /\ g.flagged = h.flagged /\ g.tagged = h.tagged
        /\ g.virtual = h.virtual
    BY <1>1 DEF HEADER
  <2> HIDE DEF g
  <2>3. /\ n \in Int /\ n = Bit(~g.read) - Bit(~h.read)
        /\ k \in Int /\ k = Bit(~g.read /\ ~g.old) - Bit(~h.read /\ ~h.old)
    BY <1>1, <2>2, HeaderTyped DEF Bit
  <2> HIDE DEF n, k
  <2>4. SetRight(c, h, [c |-> Dirty(Count(Count(c, "unread", n, upd), "new", k, upd), upd), h |-> g], upd)
    BY <2>2, <2>3, NewThenUnread, ReadRight
  <2> QED BY <1>1, <2>4 DEF set_read, g, n, k
<1>2. CASE bf = h.read BY <1>2, SameRight DEF set_read
<1> QED BY <1>1, <1>2

LEMMA set_replied_Right ==
  ASSUME NEW c \in CONTEXT, NEW h \in HEADER, NEW bf \in BOOLEAN, NEW upd \in BOOLEAN
  PROVE  SetRight(c, h, set_replied(c, h, bf, upd), upd)
<1>1. CASE bf # h.replied /\ bf /\ ~h.read
  <2> DEFINE g == [h EXCEPT !.replied = TRUE, !.read = TRUE, !.changed = TRUE]
  <2>2. /\ g \in HEADER /\ g.read = TRUE /\ g.old = h.old /\ g.changed
        /\ g.deleted = h.deleted /\ g.flagged = h.flagged /\ g.tagged = h.tagged
        /\ g.virtual = h.virtual
    BY <1>1 DEF HEADER
  <2> HIDE DEF g
  <2>3. SetRight(c, h, [c |-> Dirty(Count(Count(c, "unread", -1, upd), "new", -Bit(~h.old), upd), upd),
                        h |-> g], upd)
    BY <1>1, <2>2, NewThenUnread, ReadRight, HeaderTyped DEF Bit
  <2> QED BY <1>1, <2>3 DEF set_replied, g
<1>2. CASE bf # h.replied /\ ~(bf /\ ~h.read)
  <2> DEFINE g == [h EXCEPT !.replied = bf, !.changed = TRUE]
             d == Dirty(c, upd)
  <2>2. /\ g \in HEADER /\ g.read = h.read /\ g.old = h.old /\ g.changed
        /\ g.deleted = h.deleted /\ g.flagged = h.flagged /\ g.tagged = h.tagged
        /\ g.virtual = h.virtual
    BY <1>1 DEF HEADER
  <2> HIDE DEF g
  <2>3. ReadIs(c, d, 0, 0, upd)
    <3>1. DOMAIN c = {"tagged", "new", "unread", "deleted", "flagged", "changed", "dontwrite",
                      "limit", "pattern", "id_hash"}
      BY DEF CONTEXT
    <3>2. d \in CONTEXT /\ d.changed = (c.changed \/ upd) /\ \A f \in DOMAIN c \ {"changed"} : d[f] = c[f]
      BY DirtyIs
    <3>3. d.new = c.new /\ d.unread = c.unread BY <3>1, <3>2
    <3>4. \A f \in DOMAIN c \ {"new", "unread", "changed"} : d[f] = c[f] BY <3>2
    <3>5. c.new \in Int /\ c.unread \in Int BY ContextTyped DEF Numbers
    <3> HIDE DEF d
    <3> QED BY <3>2, <3>3, <3>4, <3>5 DEF ReadIs
  <2> HIDE DEF d
  <2>4. SetRight(c, h, [c |-> d, h |-> g], upd)
    BY <2>2, <2>3, ReadRight DEF Bit
  <2> QED BY <1>2, <2>4 DEF set_replied, g, d
<1>3. CASE bf = h.replied BY <1>3, SameRight DEF set_replied
<1> QED BY <1>1, <1>2, <1>3

\* DELETE, FLAG and TAG move the counter of the field they set.
LEMMA OneRight ==
  ASSUME NEW c \in CONTEXT, NEW h \in HEADER, NEW upd \in BOOLEAN, NEW g \in HEADER, NEW n \in Int,
         NEW k \in {"deleted", "flagged", "tagged"}, n = Bit(g[k]) - Bit(h[k]),
         \A f \in DOMAIN h \ {k, "changed"} : g[f] = h[f],
         NEW d \in CONTEXT, d[k] = c[k] + IF upd THEN n ELSE 0,
         \A f \in DOMAIN c \ {k, "changed"} : d[f] = c[f],
         \/ k # "flagged" /\ d.changed = c.changed /\ g.changed = h.changed
         \/ g.changed /\ d.changed = (c.changed \/ upd)
  PROVE  SetRight(c, h, [c |-> d, h |-> g], upd)
<1>1. Numbers(c) \subseteq Int BY ContextTyped
<1>2. DOMAIN c = {"tagged", "new", "unread", "deleted", "flagged", "changed", "dontwrite",
                  "limit", "pattern", "id_hash"}
  BY DEF CONTEXT
<1>3. DOMAIN h = {"read", "old", "replied", "flagged", "deleted", "purge", "tagged", "changed",
                  "virtual"}
  BY DEF HEADER
<1>4. SameView(c, h, d, g) BY <1>2, <1>3 DEF SameView
<1>5. d.new = c.new /\ d.unread = c.unread /\ g.read = h.read /\ g.old = h.old /\ g.replied = h.replied
  BY <1>2, <1>3
<1>6. Moves(c, h, d, g, upd)
  <2>1. CASE k = "deleted"
    <3>1. d.tagged = c.tagged /\ d.flagged = c.flagged /\ g.tagged = h.tagged /\ g.flagged = h.flagged
      BY <1>2, <1>3, <2>1
    <3> QED BY <1>1, <1>5, <2>1, <3>1 DEF Moves, By, Bit, Numbers
  <2>2. CASE k = "flagged"
    <3>1. d.tagged = c.tagged /\ d.deleted = c.deleted /\ g.tagged = h.tagged /\ g.deleted = h.deleted
      BY <1>2, <1>3, <2>2
    <3> QED BY <1>1, <1>5, <2>2, <3>1 DEF Moves, By, Bit, Numbers
  <2>3. CASE k = "tagged"
    <3>1. d.deleted = c.deleted /\ d.flagged = c.flagged /\ g.deleted = h.deleted /\ g.flagged = h.flagged
      BY <1>2, <1>3, <2>3
    <3> QED BY <1>1, <1>5, <2>3, <3>1 DEF Moves, By, Bit, Numbers
  <2> QED BY <2>1, <2>2, <2>3
<1>7. Marks(c, h, d, g, upd)
  <2>1. k # "flagged" => g.flagged = h.flagged BY <1>3
  <2>2. g.changed \/ \A f \in {"read", "old", "replied", "flagged"} : g[f] = h[f] BY <1>3
  <2>3. {h.changed, c.changed, g.changed, d.changed} \subseteq BOOLEAN BY ContextTyped, HeaderTyped
  <2> QED BY <2>2, <2>3 DEF Marks
<1> QED BY <1>4, <1>6, <1>7 DEF SetRight

LEMMA set_delete_Right ==
  ASSUME NEW c \in CONTEXT, NEW h \in HEADER, NEW bf \in BOOLEAN, NEW upd \in BOOLEAN
  PROVE  SetRight(c, h, set_delete(c, h, bf, upd), upd)
<1>1. ASSUME NEW b \in BOOLEAN, NEW n \in Int, n = Bit(b) - Bit(h.deleted)
      PROVE  SetRight(c, h, [c |-> Count(c, "deleted", n, upd), h |-> [h EXCEPT !.deleted = b]], upd)
  <2> DEFINE g == [h EXCEPT !.deleted = b]
             d == Count(c, "deleted", n, upd)
  <2>1. g \in HEADER /\ g.deleted = b /\ \A f \in DOMAIN h \ {"deleted"} : g[f] = h[f] BY DEF HEADER
  <2>2. d \in CONTEXT /\ d.deleted = c.deleted + (IF upd THEN n ELSE 0)
        /\ \A f \in DOMAIN c \ {"deleted"} : d[f] = c[f]
    BY CountIs
  <2>3. n = Bit(g.deleted) - Bit(h.deleted) BY <1>1, <2>1
  <2>4. g.changed = h.changed /\ d.changed = c.changed BY <2>1, <2>2 DEF HEADER, CONTEXT
  <2> HIDE DEF g, d
  <2>5. SetRight(c, h, [c |-> d, h |-> g], upd) 
    BY <2>1, <2>2, <2>3, <2>4, OneRight
  <2> QED BY <2>5 DEF g, d
<1>2. CASE bf /\ ~h.deleted /\ ~(h.flagged /\ On("flag_safe"))
  <2>1. TRUE \in BOOLEAN /\ 1 \in Int /\ 1 = Bit(TRUE) - Bit(h.deleted) BY <1>2 DEF Bit
  <2>2. SetRight(c, h, [c |-> Count(c, "deleted", 1, upd), h |-> [h EXCEPT !.deleted = TRUE]], upd)
    BY <1>1, <2>1, Zenon
  <2> QED BY <1>2, <2>2 DEF set_delete
<1>3. CASE ~bf /\ h.deleted
  <2>1. FALSE \in BOOLEAN /\ -1 \in Int /\ -1 = Bit(FALSE) - Bit(h.deleted) BY <1>3 DEF Bit
  <2>2. SetRight(c, h, [c |-> Count(c, "deleted", -1, upd), h |-> [h EXCEPT !.deleted = FALSE]], upd)
    BY <1>1, <2>1, Zenon
  <2> QED BY <1>3, <2>2 DEF set_delete
<1>4. CASE ~(bf /\ ~h.deleted /\ ~(h.flagged /\ On("flag_safe"))) /\ ~(~bf /\ h.deleted)
  BY <1>4, SameRight DEF set_delete
<1> QED BY <1>2, <1>3, <1>4

LEMMA set_tagged_Right ==
  ASSUME NEW c \in CONTEXT, NEW h \in HEADER, NEW bf \in BOOLEAN, NEW upd \in BOOLEAN
  PROVE  SetRight(c, h, set_tagged(c, h, bf, upd), upd)
<1>1. CASE bf # h.tagged
  <2> DEFINE n == IF bf THEN 1 ELSE -1
             g == [h EXCEPT !.tagged = bf]
             d == Count(c, "tagged", n, upd)
  <2>1. g \in HEADER /\ g.tagged = bf /\ \A f \in DOMAIN h \ {"tagged"} : g[f] = h[f] BY DEF HEADER
  <2>2. n \in Int /\ n = Bit(g.tagged) - Bit(h.tagged) BY <1>1, <2>1, HeaderTyped DEF Bit
  <2>3. d \in CONTEXT /\ d.tagged = c.tagged + (IF upd THEN n ELSE 0)
        /\ \A f \in DOMAIN c \ {"tagged"} : d[f] = c[f]
    BY CountIs
  <2>5. g.changed = h.changed /\ d.changed = c.changed BY <2>1, <2>3 DEF HEADER, CONTEXT
  <2> HIDE DEF g, d, n
  <2>6. SetRight(c, h, [c |-> d, h |-> g], upd) BY <2>1, <2>2, <2>3, <2>5, OneRight
  <2> QED BY <1>1, <2>6 DEF set_tagged, g, d, n
<1>2. CASE bf = h.tagged BY <1>2, SameRight DEF set_tagged
<1> QED BY <1>1, <1>2

LEMMA set_flagged_Right ==
  ASSUME NEW c \in CONTEXT, NEW h \in HEADER, NEW bf \in BOOLEAN, NEW upd \in BOOLEAN
  PROVE  SetRight(c, h, set_flagged(c, h, bf, upd), upd)
<1>1. CASE bf # h.flagged
  <2> DEFINE n == IF bf THEN 1 ELSE -1
             g == [h EXCEPT !.flagged = bf, !.changed = TRUE]
             e == Count(c, "flagged", n, upd)
             d == Dirty(e, upd)
  <2>1. g \in HEADER /\ g.flagged = bf /\ g.changed /\ \A f \in DOMAIN h \ {"flagged", "changed"} : g[f] = h[f]
    BY DEF HEADER
  <2>2. n \in Int /\ n = Bit(g.flagged) - Bit(h.flagged) BY <1>1, <2>1, HeaderTyped DEF Bit
  <2>3. e \in CONTEXT /\ e.flagged = c.flagged + (IF upd THEN n ELSE 0)
        /\ \A f \in DOMAIN c \ {"flagged"} : e[f] = c[f]
    BY CountIs
  <2>4. DOMAIN e = DOMAIN c /\ {"flagged", "changed"} \subseteq DOMAIN c BY <2>3 DEF CONTEXT
  <2> HIDE DEF g, e, n
  <2>5. d \in CONTEXT /\ d.changed = (e.changed \/ upd) /\ \A f \in DOMAIN e \ {"changed"} : d[f] = e[f]
    BY <2>3, DirtyIs
  <2> HIDE DEF d
  <2>6. d.flagged = c.flagged + (IF upd THEN n ELSE 0) /\ d.changed = (c.changed \/ upd)
    BY <2>3, <2>4, <2>5
  <2>7. \A f \in DOMAIN c \ {"flagged", "changed"} : d[f] = c[f] BY <2>3, <2>4, <2>5
  <2>9. SetRight(c, h, [c |-> d, h |-> g], upd) BY <2>1, <2>2, <2>5, <2>6, <2>7, OneRight
  <2> QED BY <1>1, <2>9 DEF set_flagged, g, d, e, n
<1>2. CASE bf = h.flagged BY <1>2, SameRight DEF set_flagged
<1> QED BY <1>1, <1>2

LEMMA SetFlagRight ==
  ASSUME NEW c \in CONTEXT, NEW h \in HEADER, NEW flag \in Flags, NEW bf \in BOOLEAN, NEW upd \in BOOLEAN
  PROVE  SetRight(c, h, mutt_set_flag(c, h, flag, bf, upd), upd)
<1>1. CASE flag = "PURGE"
  <2>1. LET g == [h EXCEPT !.purge = bf] IN g \in HEADER /\ \A f \in DOMAIN h \ {"purge"} : g[f] = h[f]
    BY DEF HEADER
  <2> QED BY <1>1, <2>1, SameRight DEF mutt_set_flag
<1>2. CASE flag = "DELETE" BY <1>2, set_delete_Right DEF mutt_set_flag
<1>3. CASE flag = "NEW" BY <1>3, set_new_Right DEF mutt_set_flag
<1>4. CASE flag = "OLD" BY <1>4, set_old_Right DEF mutt_set_flag
<1>5. CASE flag = "READ" BY <1>5, set_read_Right DEF mutt_set_flag
<1>6. CASE flag = "REPLIED" BY <1>6, set_replied_Right DEF mutt_set_flag
<1>7. CASE flag = "FLAG" BY <1>7, set_flagged_Right DEF mutt_set_flag
<1>8. CASE flag = "TAG" BY <1>8, set_tagged_Right DEF mutt_set_flag
<1> QED BY <1>1, <1>2, <1>3, <1>4, <1>5, <1>6, <1>7, <1>8 DEF Flags

\* One call after another.
LEMMA RightTwice ==
  ASSUME NEW c \in CONTEXT, NEW h \in HEADER, NEW upd \in BOOLEAN, NEW r, SetRight(c, h, r, upd),
         NEW s, SetRight(r.c, r.h, s, upd)
  PROVE  SetRight(c, h, s, upd)
<1>1. Numbers(c) \cup Numbers(r.c) \cup Numbers(s.c) \subseteq Int BY ContextTyped DEF SetRight
<1>2. SameView(c, h, s.c, s.h) BY DEF SetRight, SameView
<1>3. Moves(c, h, s.c, s.h, upd)
  <2>1. Moves(c, h, r.c, r.h, upd) /\ Moves(r.c, r.h, s.c, s.h, upd) BY DEF SetRight
  <2>2. CASE upd BY <1>1, <2>1, <2>2 DEF Moves, By, Numbers, Bit
  <2>3. CASE ~upd BY <1>1, <2>1, <2>3 DEF Moves, By, Numbers
  <2> QED BY <2>2, <2>3
<1>4. Marks(c, h, s.c, s.h, upd)
  <2>1. Marks(c, h, r.c, r.h, upd) /\ Marks(r.c, r.h, s.c, s.h, upd) BY DEF SetRight
  <2> QED BY <2>1 DEF Marks
<1> QED BY <1>2, <1>3, <1>4 DEF SetRight

LEMMA ScoreRight ==
  ASSUME NEW c \in CONTEXT, NEW h \in HEADER, NEW crossed \in Scores, NEW upd \in BOOLEAN
  PROVE  SetRight(c, h, mutt_score_message(c, h, crossed, upd), upd)
<1> DEFINE If(s, flag) == IF flag \in crossed THEN mutt_set_flag(s.c, s.h, flag, TRUE, upd) ELSE s
<1>1. ASSUME NEW s, SetRight(c, h, s, upd), NEW flag \in Flags
      PROVE  SetRight(c, h, If(s, flag), upd)
  <2> DEFINE q == mutt_set_flag(s.c, s.h, flag, TRUE, upd)
  <2>1. SetRight(s.c, s.h, q, upd) BY <1>1, SetFlagRight DEF SetRight
  <2>2. SetRight(c, h, q, upd) BY <1>1, <2>1, RightTwice
  <2> QED BY <1>1, <2>2
<1>2. SetRight(c, h, Same(c, h), upd) BY SameRight
<1>3. SetRight(c, h, If(Same(c, h), "DELETE"), upd) BY <1>1, <1>2 DEF Flags
<1>4. SetRight(c, h, If(If(Same(c, h), "DELETE"), "READ"), upd) BY <1>1, <1>3 DEF Flags
<1>5. SetRight(c, h, If(If(If(Same(c, h), "DELETE"), "READ"), "FLAG"), upd) BY <1>1, <1>4 DEF Flags
<1> QED BY <1>5 DEF mutt_score_message

(***************************************************************************)
(* Listings of finite sets, and the numbering of the view.                 *)
(***************************************************************************)
Ordered(v) == \A j, k \in DOMAIN v : j < k => v[j] < v[k]

LEMMA ListingIs ==
  ASSUME NEW S, IsFiniteSet(S), NEW s \in Listings(S)
  PROVE  /\ s \in Seq(S) /\ Len(s) = Cardinality(S)
         /\ Range(s) = S => IsInjective(s)
<1> DEFINE n == Cardinality(S)
<1>1. n \in Nat BY FS_CardinalityType
<1>2. s \in [1 .. n -> S] BY DEF Listings
<1> HIDE DEF n
<1>3. s \in Seq(S) /\ Len(s) = n BY <1>1, <1>2
<1>4. ASSUME Range(s) = S PROVE IsInjective(s)
  <2>1. s \in Surjection(1 .. n, S) BY <1>2, <1>4 DEF Surjection, Range
  <2>2. IsFiniteSet(1 .. n) /\ Cardinality(1 .. n) = Cardinality(S)
    BY <1>1, FS_Interval DEF n
  <2>3. s \in Injection(1 .. n, S) BY <2>1, <2>2, FS_SurjSameCardinalityImpliesInj
  <2> QED BY <2>3 DEF Injection
<1> QED BY <1>3, <1>4 DEF n

LEMMA SortedIs ==
  ASSUME NEW S, IsFiniteSet(S), NEW key, NEW s \in SortedBy(S, key)
  PROVE  s \in Seq(S) /\ Range(s) = S /\ IsInjective(s)
  BY ListingIs DEF SortedBy

LEMMA AscendingIs ==
  ASSUME NEW S, IsFiniteSet(S), NEW v \in Ascending(S)
  PROVE  v \in Seq(S) /\ Range(v) = S /\ IsInjective(v) /\ Ordered(v)
<1>1. v \in SortedBy(S, "order") BY DEF Ascending
<1>2. Ordered(v) BY <1>1 DEF SortedBy, Before, Ordered
<1> QED BY <1>1, <1>2, SortedIs

LEMMA IdsFinite ==
  ASSUME NEW S \in SUBSET Ids
  PROVE  IsFiniteSet(S) /\ Cardinality(S) \in Nat
<1>1. IsFiniteSet(Ids) BY BoundsAssumption, FS_Interval DEF Ids
<1> QED BY <1>1, FS_Subset, FS_CardinalityType

LEMMA PositionsFinite ==
  ASSUME NEW X, NEW s \in Seq(X), NEW S \in SUBSET DOMAIN s
  PROVE  IsFiniteSet(S)
<1>1. IsFiniteSet(1 .. Len(s)) BY FS_Interval
<1> QED BY <1>1, FS_Subset

LEMMA DiskOrderIs ==
  ASSUME NEW S \in SUBSET Ids, NEW s \in DiskOrder(S)
  PROVE  s \in Seq(Ids) /\ Range(s) = S /\ IsInjective(s)
<1>1. IsFiniteSet(S) BY IdsFinite
<1>2. s \in Seq(S) /\ Range(s) = S /\ IsInjective(s) BY <1>1, ListingIs, SortedIs DEF DiskOrder
<1> QED BY <1>2, SeqMonotonic

LEMMA InOrderIs ==
  ASSUME NEW S, hdrs \in Seq(Ids), NEW T \in InOrder(S)
  PROVE  T \in Seq(Ids) /\ Range(T) = Msgs \cap S
<1> DEFINE I == {i \in DOMAIN hdrs : hdrs[i] \in S}
<1>1. PICK p \in Ascending(I) : T = [i \in DOMAIN p |-> hdrs[p[i]]] BY DEF InOrder
<1>2. p \in Seq(I) /\ Range(p) = I BY <1>1, PositionsFinite, AscendingIs
<1>3. /\ Len(p) \in Nat /\ DOMAIN p = 1 .. Len(p)
      /\ \A i \in DOMAIN p : p[i] \in DOMAIN hdrs /\ hdrs[p[i]] \in Ids
  BY <1>2
<1>4. T \in Seq(Ids) BY <1>1, <1>3
<1>5. \A m : m \in Range(T) <=> m \in Msgs \cap S
  <2>1. \A m : m \in Range(T) <=> \E i \in DOMAIN p : m = hdrs[p[i]] BY <1>1 DEF Range
  <2>2. \A m : m \in Range(T) <=> \E j \in I : m = hdrs[j] BY <1>2, <2>1 DEF Range
  <2> QED BY <2>2 DEF Msgs, Range
<1> QED BY <1>4, <1>5

\* What numbering leaves alone.
SameFlags(g, h) ==
  /\ g.read = h.read /\ g.old = h.old /\ g.replied = h.replied /\ g.flagged = h.flagged
  /\ g.deleted = h.deleted /\ g.purge = h.purge /\ g.tagged = h.tagged /\ g.changed = h.changed

LEMMA VirtualIs ==
  ASSUME NEW h \in HEADER, NEW k \in Nat
  PROVE  /\ [h EXCEPT !.virtual = k] \in HEADER
         /\ SameFlags([h EXCEPT !.virtual = k], h)
         /\ [h EXCEPT !.virtual = k].virtual = k
  BY DEF HEADER, SameFlags

LEMMA NumberedIs ==
  ASSUME NEW hd, NEW X, NEW v \in Seq(X), X \subseteq Nat, NEW hmap \in [Ids -> HEADER]
  PROVE  LET n == Numbered(hd, v, hmap)
         IN  /\ n \in [Ids -> HEADER]
             /\ \A m \in Ids : SameFlags(n[m], hmap[m])
             /\ \A m \in Ids : (\A k \in DOMAIN v : hd[v[k]] # m) => n[m] = hmap[m]
             /\ \A m \in Ids : (\E k \in DOMAIN v : hd[v[k]] = m) =>
                   n[m].virtual \in DOMAIN v /\ hd[v[n[m].virtual]] = m
<1> DEFINE n == Numbered(hd, v, hmap)
<1>1. DOMAIN v \subseteq Nat OBVIOUS
<1>2. ASSUME NEW m \in Ids, \E k \in DOMAIN v : hd[v[k]] = m
      PROVE  \E k \in DOMAIN v : n[m] = [hmap[m] EXCEPT !.virtual = k] /\ hd[v[k]] = m
  BY <1>2 DEF Numbered
<1>3. ASSUME NEW m \in Ids, NEW k \in Nat
      PROVE  /\ [hmap[m] EXCEPT !.virtual = k] \in HEADER
             /\ SameFlags([hmap[m] EXCEPT !.virtual = k], hmap[m])
             /\ [hmap[m] EXCEPT !.virtual = k].virtual = k
  BY VirtualIs
<1>4. ASSUME NEW m \in Ids, \A k \in DOMAIN v : hd[v[k]] # m
      PROVE  n[m] = hmap[m]
  BY <1>4 DEF Numbered
<1>5. n = [m \in Ids |-> n[m]] BY DEF Numbered
<1> HIDE DEF n
<1>6. \A m \in Ids : n[m] \in HEADER /\ SameFlags(n[m], hmap[m])
  <2> TAKE m \in Ids
  <2>1. CASE \E k \in DOMAIN v : hd[v[k]] = m
    <3>1. PICK k \in DOMAIN v : n[m] = [hmap[m] EXCEPT !.virtual = k] BY <1>2, <2>1
    <3> QED BY <1>1, <1>3, <3>1
  <2>2. CASE \A k \in DOMAIN v : hd[v[k]] # m BY <1>4, <2>2 DEF SameFlags
  <2> QED BY <2>1, <2>2
<1>7. n \in [Ids -> HEADER] BY <1>5, <1>6
<1>8. ASSUME NEW m \in Ids, \E k \in DOMAIN v : hd[v[k]] = m
      PROVE  n[m].virtual \in DOMAIN v /\ hd[v[n[m].virtual]] = m
  <2>1. PICK k \in DOMAIN v : n[m] = [hmap[m] EXCEPT !.virtual = k] /\ hd[v[k]] = m BY <1>2, <1>8
  <2> QED BY <1>1, <1>3, <2>1
<1> QED BY <1>4, <1>6, <1>7, <1>8 DEF n

\* The view v of hd, and the numbers in hmap: each is the inverse of the other.
Inverts(hd, v, hmap) ==
  /\ v \in Seq(Nat) /\ \A k \in DOMAIN v : v[k] \in DOMAIN hd
  /\ Ordered(v)
  /\ \A k \in DOMAIN v : hmap[hd[v[k]]].virtual = k
  /\ \A i \in DOMAIN hd \ Range(v) : hmap[hd[i]].virtual = 0

LEMMA NumberedInverse ==
  ASSUME NEW hd \in Seq(Ids), IsInjective(hd), NEW hmap \in [Ids -> HEADER],
         NEW I \in SUBSET DOMAIN hd, NEW v \in Ascending(I),
         \A i \in DOMAIN hd \ I : hmap[hd[i]].virtual = 0
  PROVE  /\ Inverts(hd, v, Numbered(hd, v, hmap))
         /\ \A i \in DOMAIN hd : Numbered(hd, v, hmap)[hd[i]].virtual # 0 <=> i \in I
<1> DEFINE n == Numbered(hd, v, hmap)
<1>1. /\ v \in Seq(I) /\ Range(v) = I /\ IsInjective(v) /\ Ordered(v)
      /\ I \subseteq Nat
  BY PositionsFinite, AscendingIs
<1>2. v \in Seq(Nat) BY <1>1, SeqMonotonic
<1>3. /\ \A m \in Ids : (\A k \in DOMAIN v : hd[v[k]] # m) => n[m] = hmap[m]
      /\ \A m \in Ids : (\E k \in DOMAIN v : hd[v[k]] = m) =>
            n[m].virtual \in DOMAIN v /\ hd[v[n[m].virtual]] = m
  BY <1>1, NumberedIs
<1> HIDE DEF n
<1>4. \A k \in DOMAIN v : v[k] \in I /\ v[k] \in DOMAIN hd /\ hd[v[k]] \in Ids BY <1>1
<1>5. ASSUME NEW k \in DOMAIN v PROVE n[hd[v[k]]].virtual = k
  <2> DEFINE j == n[hd[v[k]]].virtual
  <2>1. j \in DOMAIN v /\ hd[v[j]] = hd[v[k]] BY <1>3, <1>4
  <2> HIDE DEF j
  <2>2. v[j] = v[k] BY <1>4, <2>1 DEF IsInjective
  <2>3. j = k BY <1>1, <2>1, <2>2 DEF IsInjective
  <2> QED BY <2>3 DEF j
<1>6. ASSUME NEW i \in DOMAIN hd, i \notin I PROVE n[hd[i]].virtual = 0
  <2>1. \A k \in DOMAIN v : hd[v[k]] # hd[i] BY <1>4, <1>6 DEF IsInjective
  <2>2. hd[i] \in Ids OBVIOUS
  <2> QED BY <1>3, <1>6, <2>1, <2>2
<1>7. ASSUME NEW i \in I PROVE n[hd[i]].virtual # 0
  <2>1. PICK k \in DOMAIN v : v[k] = i BY <1>1 DEF Range
  <2>2. k # 0 BY <1>2
  <2> QED BY <1>5, <2>1, <2>2
<1>8. Inverts(hd, v, n) BY <1>1, <1>2, <1>4, <1>5, <1>6 DEF Inverts
<1> QED BY <1>6, <1>7, <1>8 DEF n

LEMMA SortRight ==
  ASSUME NEW S \in SUBSET Ids, NEW key, NEW hmap \in [Ids -> HEADER],
         mutt_sort_headers(S, key, hmap)
  PROVE  /\ hdrs' \in Seq(Ids) /\ IsInjective(hdrs') /\ Range(hdrs') = S
         /\ header' \in [Ids -> HEADER]
         /\ \A m \in Ids : SameFlags(header'[m], hmap[m])
         /\ Inverts(hdrs', v2r', header')
         /\ \A m \in S : header'[m].virtual # 0 <=> hmap[m].virtual # 0
<1>0. PICK hd \in SortedBy(S, key) : \E v \in Ascending(InView(hd, hmap)) :
         hdrs' = hd /\ v2r' = v /\ header' = Numbered(hd, v, hmap)
  BY DEF mutt_sort_headers
<1>1. PICK v \in Ascending(InView(hd, hmap)) :
         hdrs' = hd /\ v2r' = v /\ header' = Numbered(hd, v, hmap)
  BY <1>0
<1>2. hd \in Seq(S) /\ Range(hd) = S /\ IsInjective(hd) BY <1>1, IdsFinite, SortedIs
<1>3. hd \in Seq(Ids) BY <1>2, SeqMonotonic
<1> DEFINE I == InView(hd, hmap)
<1>4. /\ I \in SUBSET DOMAIN hd
      /\ \A i \in DOMAIN hd : i \in I <=> hmap[hd[i]].virtual # 0
  BY DEF InView
<1>5. v \in Seq(I) /\ I \subseteq Nat BY <1>3, <1>4, PositionsFinite, AscendingIs
<1>6. header' \in [Ids -> HEADER] /\ \A m \in Ids : SameFlags(header'[m], hmap[m])
  BY <1>1, <1>5, NumberedIs
<1>7. \A i \in DOMAIN hd \ I : hmap[hd[i]].virtual = 0 BY <1>4
<1> HIDE DEF I
<1>8. /\ Inverts(hd, v, Numbered(hd, v, hmap))
      /\ \A i \in DOMAIN hd : Numbered(hd, v, hmap)[hd[i]].virtual # 0 <=> i \in I
  BY <1>1, <1>2, <1>3, <1>4, <1>7, NumberedInverse DEF I
<1>9. ASSUME NEW m \in S PROVE header'[m].virtual # 0 <=> hmap[m].virtual # 0
  <2>1. PICK i \in DOMAIN hd : hd[i] = m BY <1>2 DEF Range
  <2> QED BY <1>1, <1>4, <1>8, <2>1
<1> QED BY <1>1, <1>2, <1>3, <1>6, <1>8, <1>9

(***************************************************************************)
(* Type correctness.  Work that is left is for messages of the mailbox.    *)
(***************************************************************************)
MsgWork == {w \in Work : w.m \in Msgs}

Typed ==
  /\ TypeOK
  /\ pc.todo \in Seq(MsgWork)
  /\ pc.at = "count" => pc.msgno >= 1

LEMMA SettingIs ==
  ASSUME TypeOK
  PROVE  /\ MaxMsgs \in Nat /\ conf.msgs \in 0 .. MaxMsgs /\ conf.magic \in Magics
         /\ conf.options \in SUBSET AllOptions /\ conf.commands \in SUBSET Flags
         /\ conf.newmail \in SUBSET Stored
<1>1. conf \in Settings BY DEF TypeOK
<1> QED BY <1>1, BoundsAssumption, SettingsAssumption

\* Whether x is in S is true or false.
LEMMA Truth ==
  ASSUME NEW S, NEW x
  PROVE  (x \in S) \in BOOLEAN
  OBVIOUS

LEMMA MsgsAreIds ==
  ASSUME TypeOK
  PROVE  /\ Msgs \in SUBSET Ids
         /\ \A i \in DOMAIN hdrs : hdrs[i] \in Msgs
         /\ \A m \in Msgs : header[m] \in HEADER /\ \E i \in DOMAIN hdrs : hdrs[i] = m
         /\ Len(hdrs) \in Nat /\ DOMAIN hdrs = 1 .. Len(hdrs)
<1>1. hdrs \in Seq(Ids) /\ header \in [Ids -> HEADER] BY DEF TypeOK
<1>2. \A m : m \in Msgs <=> \E i \in DOMAIN hdrs : hdrs[i] = m BY DEF Msgs, Range
<1>3. \A i \in DOMAIN hdrs : hdrs[i] \in Ids BY <1>1
<1> QED BY <1>1, <1>2, <1>3

LEMMA PassIs ==
  ASSUME TypeOK, NEW T \in Seq(Msgs), NEW flag \in Flags, NEW bf \in BOOLEAN
  PROVE  /\ Pass(T, flag, bf) \in Seq(MsgWork)
         /\ {Pass(T, flag, bf)[i].m : i \in DOMAIN Pass(T, flag, bf)} = Range(T)
         /\ Pass(T, flag, bf) = <<>> <=> T = <<>>
<1>1. Msgs \subseteq Ids BY MsgsAreIds
<1>2. \A m \in Msgs : [m |-> m, flag |-> flag, bf |-> bf] \in MsgWork BY <1>1 DEF MsgWork, Work
<1>3. Len(T) \in Nat /\ DOMAIN T = 1 .. Len(T) /\ \A i \in DOMAIN T : T[i] \in Msgs OBVIOUS
<1>4. Pass(T, flag, bf) = [i \in 1 .. Len(T) |-> [m |-> T[i], flag |-> flag, bf |-> bf]]
  BY <1>3 DEF Pass
<1>5. Pass(T, flag, bf) \in Seq(MsgWork) BY <1>2, <1>3, <1>4
<1>6. {Pass(T, flag, bf)[i].m : i \in DOMAIN Pass(T, flag, bf)} = Range(T) BY <1>3, <1>4 DEF Range
<1>7. Pass(T, flag, bf) = <<>> <=> T = <<>>
  <2>1. Len(Pass(T, flag, bf)) = Len(T) BY <1>3, <1>4
  <2> QED BY <1>5, <2>1, EmptySeq
<1> QED BY <1>5, <1>6, <1>7

LEMMA TargetsIs ==
  ASSUME TypeOK, NEW I \in SUBSET DOMAIN v2r, NEW T \in Targets(I)
  PROVE  T \in Seq(Msgs)
<1>1. v2r \in Seq(Nat) /\ \A k \in DOMAIN v2r : v2r[k] \in DOMAIN hdrs BY DEF TypeOK
<1>2. PICK p \in Ascending(I) : T = [i \in DOMAIN p |-> hdrs[v2r[p[i]]]] BY DEF Targets
<1>3. p \in Seq(I) BY <1>1, <1>2, PositionsFinite, AscendingIs
<1>4. Len(p) \in Nat /\ DOMAIN p = 1 .. Len(p) /\ \A i \in DOMAIN p : p[i] \in DOMAIN v2r BY <1>3
<1>5. \A i \in DOMAIN p : hdrs[v2r[p[i]]] \in Msgs BY <1>1, <1>4, MsgsAreIds
<1> QED BY <1>2, <1>4, <1>5

LEMMA ChosenIs ==
  ASSUME TypeOK, NEW T \in Chosen
  PROVE  T \in Seq(Msgs)
<1> DEFINE I == {k \in DOMAIN v2r : header[hdrs[v2r[k]]].tagged}
<1>1. CASE T \in UNION {Targets({k}) : k \in DOMAIN v2r}
  <2>1. PICK k \in DOMAIN v2r : T \in Targets({k}) BY <1>1
  <2>2. {k} \in SUBSET DOMAIN v2r OBVIOUS
  <2> QED BY <2>1, <2>2, TargetsIs
<1>2. CASE T \in Targets(I)
  <2>1. I \in SUBSET DOMAIN v2r OBVIOUS
  <2> QED BY <1>2, <2>1, TargetsIs
<1>3. T \in UNION {Targets({k}) : k \in DOMAIN v2r} \/ T \in Targets(I) BY DEF Chosen
<1> QED BY <1>1, <1>2, <1>3

\* A command does nothing but leave work for messages of the mailbox.
LEMMA CommandRuns ==
  ASSUME TypeOK, Command
  PROVE  \E todo \in Seq(MsgWork) : Run(todo)
<1>1. \A a, b : a \in Seq(MsgWork) /\ b \in Seq(MsgWork) => a \o b \in Seq(MsgWork)
  BY ConcatProperties
<1>2. \A T \in Seq(Msgs), flag \in Flags, bf \in BOOLEAN : Pass(T, flag, bf) \in Seq(MsgWork)
  BY PassIs
<1>3. <<>> \in Seq(MsgWork) BY EmptySeq
<1>4. \A T \in Seq(Msgs) : Untag(T) \in Seq(MsgWork) BY <1>2, <1>3 DEF Untag, Flags
<1>5. \A T \in Chosen : T \in Seq(Msgs) BY ChosenIs
<1>6. \A I \in SUBSET DOMAIN v2r : \A T \in Targets(I) : T \in Seq(Msgs) BY TargetsIs
<1>7. conf.commands \in SUBSET Flags BY SettingIs
<1>8. ASSUME NEW T \in Seq(Msgs), NEW f \in [Msgs -> Flags], NEW b \in [Msgs -> BOOLEAN]
      PROVE  [i \in DOMAIN T |-> [m |-> T[i], flag |-> f[T[i]], bf |-> b[T[i]]]] \in Seq(MsgWork)
  <2>1. Msgs \subseteq Ids BY MsgsAreIds
  <2>2. \A m \in Msgs : [m |-> m, flag |-> f[m], bf |-> b[m]] \in MsgWork BY <2>1 DEF MsgWork, Work
  <2>3. Len(T) \in Nat /\ DOMAIN T = 1 .. Len(T) /\ \A i \in DOMAIN T : T[i] \in Msgs OBVIOUS
  <2> QED BY <2>2, <2>3
<1>9. CASE DeleteMessage
  <2>1. PICK T \in Chosen, purge \in {FALSE} \cup {"PURGE" \in conf.commands} :
          Run(Pass(T, "DELETE", TRUE) \o Pass(T, "PURGE", purge) \o Untag(T))
    BY <1>9 DEF DeleteMessage
  <2>2. T \in Seq(Msgs) BY <1>5
  <2>2a. {"DELETE", "PURGE"} \subseteq Flags BY DEF Flags
  <2>3. Pass(T, "DELETE", TRUE) \in Seq(MsgWork) /\ Pass(T, "PURGE", purge) \in Seq(MsgWork)
        /\ Untag(T) \in Seq(MsgWork)
    <3>1. Pass(T, "DELETE", TRUE) \in Seq(MsgWork) /\ Untag(T) \in Seq(MsgWork)
      BY <1>2, <1>4, <2>2, <2>2a
    <3>2. Pass(T, "PURGE", purge) \in Seq(MsgWork)
      <4>1. purge = FALSE \/ purge = ("PURGE" \in conf.commands) OBVIOUS
      <4>2. purge \in BOOLEAN BY <4>1, Truth
      <4> QED BY <1>2, <2>2, <2>2a, <4>2
    <3> QED BY <3>1, <3>2
  <2> QED BY <1>1, <2>1, <2>3
<1>10. CASE Undelete
  <2>1. PICK T \in Chosen : Run(Pass(T, "DELETE", FALSE) \o Pass(T, "PURGE", FALSE))
    BY <1>10 DEF Undelete
  <2>2. T \in Seq(Msgs) /\ {"DELETE", "PURGE"} \subseteq Flags BY <1>5 DEF Flags
  <2>3. Pass(T, "DELETE", FALSE) \in Seq(MsgWork) /\ Pass(T, "PURGE", FALSE) \in Seq(MsgWork)
    BY <1>2, <2>2
  <2> QED BY <1>1, <2>1, <2>3
<1>11. CASE ToggleNew
  <2>1. PICK T \in Chosen :
          Run([i \in DOMAIN T |->
                 [m |-> T[i],
                  flag |-> IF header[T[i]].read \/ header[T[i]].old THEN "NEW" ELSE "READ",
                  bf |-> TRUE]])
    BY <1>11 DEF ToggleNew
  <2> DEFINE f == [m \in Msgs |-> IF header[m].read \/ header[m].old THEN "NEW" ELSE "READ"]
             b == [m \in Msgs |-> TRUE]
  <2>2. f \in [Msgs -> Flags] /\ b \in [Msgs -> BOOLEAN] BY DEF Flags
  <2>3. T \in Seq(Msgs) /\ \A i \in DOMAIN T : T[i] \in Msgs BY <1>5
  <2>4. [i \in DOMAIN T |-> [m |-> T[i], flag |-> f[T[i]], bf |-> b[T[i]]]] \in Seq(MsgWork)
    <3> HIDE DEF f, b
    <3> QED BY <1>8, <2>2, <2>3
  <2>5. [i \in DOMAIN T |-> [m |-> T[i], flag |-> f[T[i]], bf |-> b[T[i]]]]
        = [i \in DOMAIN T |->
             [m |-> T[i], flag |-> IF header[T[i]].read \/ header[T[i]].old THEN "NEW" ELSE "READ",
              bf |-> TRUE]]
    BY <2>3
  <2> QED BY <2>1, <2>4, <2>5
<1>12. CASE FlagMessage
  <2>1. PICK T \in Chosen :
          Run([i \in DOMAIN T |-> [m |-> T[i], flag |-> "FLAG", bf |-> ~header[T[i]].flagged]])
    BY <1>12 DEF FlagMessage
  <2> DEFINE f == [m \in Msgs |-> "FLAG"]
             b == [m \in Msgs |-> ~header[m].flagged]
  <2>2. f \in [Msgs -> Flags] /\ b \in [Msgs -> BOOLEAN] BY DEF Flags
  <2>3. T \in Seq(Msgs) /\ \A i \in DOMAIN T : T[i] \in Msgs BY <1>5
  <2>4. [i \in DOMAIN T |-> [m |-> T[i], flag |-> f[T[i]], bf |-> b[T[i]]]] \in Seq(MsgWork)
    <3> HIDE DEF f, b
    <3> QED BY <1>8, <2>2, <2>3
  <2>5. [i \in DOMAIN T |-> [m |-> T[i], flag |-> f[T[i]], bf |-> b[T[i]]]]
        = [i \in DOMAIN T |-> [m |-> T[i], flag |-> "FLAG", bf |-> ~header[T[i]].flagged]]
    BY <2>3
  <2> QED BY <2>1, <2>4, <2>5
<1>13. CASE Tag
  <2>1. \A k \in DOMAIN v2r : \A T \in Targets({k}) : T \in Seq(Msgs) BY <1>6
  <2>2. \A T \in Targets(DOMAIN v2r) : T \in Seq(Msgs) BY <1>6
  <2>3. "TAG" \in Flags BY DEF Flags
  <2>4. CASE \E k \in DOMAIN v2r : \E T \in Targets({k}) : Run(Pass(T, "TAG", ~header[T[1]].tagged))
    <3>1. PICK k \in DOMAIN v2r, b \in BOOLEAN : \E T \in Targets({k}) : Run(Pass(T, "TAG", b)) BY <2>4
    <3> QED BY <1>2, <2>1, <2>3, <3>1
  <2>5. CASE \E T \in Targets(DOMAIN v2r) : Run(Pass(T, "TAG", FALSE))
    BY <1>2, <2>2, <2>3, <2>5
  <2> QED BY <1>13, <2>4, <2>5 DEF Tag
<1>14. CASE mutt_change_flag
  <2>1. PICK T \in Chosen, bf \in BOOLEAN, flag \in conf.commands \ {"PURGE", "READ"} :
          Run((CASE flag = "DELETE" /\ ~bf -> Pass(T, "PURGE", FALSE)
                 [] flag = "OLD" -> Pass(T, "READ", ~bf)
                 [] OTHER -> <<>>) \o Pass(T, flag, bf))
    BY <1>14 DEF mutt_change_flag
  <2>2. T \in Seq(Msgs) /\ flag \in Flags BY <1>5, <1>7
  <2>2a. {"PURGE", "READ"} \subseteq Flags BY DEF Flags
  <2>3. Pass(T, "PURGE", FALSE) \in Seq(MsgWork) /\ Pass(T, "READ", ~bf) \in Seq(MsgWork)
        /\ Pass(T, flag, bf) \in Seq(MsgWork)
    <3>1. Pass(T, "PURGE", FALSE) \in Seq(MsgWork) /\ Pass(T, flag, bf) \in Seq(MsgWork)
      BY <1>2, <2>2, <2>2a
    <3>2. Pass(T, "READ", ~bf) \in Seq(MsgWork)
      <4>1. (~bf) \in BOOLEAN OBVIOUS
      <4> QED BY <1>2, <2>2, <2>2a, <4>1
    <3> QED BY <3>1, <3>2
  <2>4. (CASE flag = "DELETE" /\ ~bf -> Pass(T, "PURGE", FALSE)
           [] flag = "OLD" -> Pass(T, "READ", ~bf)
           [] OTHER -> <<>>) \in Seq(MsgWork)
    BY <1>3, <2>3
  <2> QED BY <1>1, <2>1, <2>3, <2>4
<1>15. CASE mutt_pattern_func
  <2>1. PICK I \in SUBSET DOMAIN v2r : \E T \in Targets(I), bf \in BOOLEAN :
          \/ "DELETE" \in conf.commands /\
               Run((IF bf THEN <<>> ELSE Pass(T, "PURGE", FALSE)) \o Pass(T, "DELETE", bf))
          \/ "TAG" \in conf.commands /\ Run(Pass(T, "TAG", bf))
    BY <1>15 DEF mutt_pattern_func
  <2>2. PICK T \in Targets(I), bf \in BOOLEAN :
          \/ Run((IF bf THEN <<>> ELSE Pass(T, "PURGE", FALSE)) \o Pass(T, "DELETE", bf))
          \/ Run(Pass(T, "TAG", bf))
    BY <2>1
  <2>3. T \in Seq(Msgs) /\ {"PURGE", "DELETE", "TAG"} \subseteq Flags BY <1>6 DEF Flags
  <2>4. Pass(T, "PURGE", FALSE) \in Seq(MsgWork) /\ Pass(T, "DELETE", bf) \in Seq(MsgWork)
        /\ Pass(T, "TAG", bf) \in Seq(MsgWork)
    BY <1>2, <2>3
  <2>5. (IF bf THEN <<>> ELSE Pass(T, "PURGE", FALSE)) \in Seq(MsgWork) BY <1>3, <2>4
  <2> QED BY <1>1, <2>2, <2>4, <2>5
<1> QED BY <1>9, <1>10, <1>11, <1>12, <1>13, <1>14, <1>15 DEF Command

\* Typed in parts.
StoreOK ==
  /\ DOMAIN disk \subseteq Ids /\ \A m \in DOMAIN disk : disk[m] \in Stored
  /\ {saved, trash} \subseteq [Ids -> Nat]
  /\ arrived \in 0 .. conf.msgs
ListOK ==
  /\ hdrs \in Seq(Ids)
  /\ v2r \in Seq(Nat) /\ \A k \in DOMAIN v2r : v2r[k] \in DOMAIN hdrs
  /\ header \in [Ids -> HEADER]
PcOK ==
  /\ pc \in Pc /\ pc.todo \in Seq(MsgWork)
  /\ pc.at = "count" => pc.msgno >= 1

LEMMA TypedParts ==
  Typed <=> /\ conf \in Settings /\ ctx \in CONTEXT /\ sort \in {"order", "reverse"}
            /\ ListOK /\ StoreOK /\ PcOK
  BY DEF Typed, TypeOK, ListOK, StoreOK, PcOK

LEMMA AtIs ==
  ASSUME NEW place \in Places
  PROVE  /\ At(place) \in Pc /\ At(place).at = place /\ At(place).todo = <<>>
         /\ At(place).todo \in Seq(MsgWork) /\ At(place).bail = FALSE
<1>1. <<>> \in Seq(Work) /\ <<>> \in Seq(MsgWork) BY EmptySeq
<1> QED BY <1>1 DEF At, Pc

LEMMA NewContextIs == NewContext \in CONTEXT
  BY DEF NewContext, CONTEXT

LEMMA NewHeaderIs ==
  ASSUME NEW f
  PROVE  LET h == NewHeader(f)
         IN  /\ h \in HEADER /\ h.virtual = 0
             /\ ~h.deleted /\ ~h.purge /\ ~h.tagged /\ ~h.changed
<1> DEFINE r == "read" \in f
           o == "old" \in f
           p == "replied" \in f
           g == "flagged" \in f
<1>1. r \in BOOLEAN /\ o \in BOOLEAN /\ p \in BOOLEAN /\ g \in BOOLEAN BY Truth
<1>2. NewHeader(f) = [ read |-> r, old |-> o, replied |-> p, flagged |-> g, deleted |-> FALSE,
                       purge |-> FALSE, tagged |-> FALSE, changed |-> FALSE, virtual |-> 0 ]
  BY DEF NewHeader
<1> HIDE DEF r, o, p, g
<1> QED BY <1>1, <1>2 DEF HEADER

LEMMA WrittenIs ==
  ASSUME NEW h
  PROVE  Written(h) \in Stored
  BY DEF Written, Stored

\* Some of the work is done, some is to be done elsewhere.
LEMMA PcNext ==
  ASSUME PcOK, NEW at \in Places, at # "count"
  PROVE  /\ [pc EXCEPT !.at = at] \in Pc /\ [pc EXCEPT !.at = at].at = at
         /\ [pc EXCEPT !.at = at].todo = pc.todo /\ [pc EXCEPT !.at = at].then = pc.then
         /\ [pc EXCEPT !.at = at].purge = pc.purge /\ [pc EXCEPT !.at = at].closing = pc.closing
  BY DEF PcOK, Pc

LEMMA PcTail ==
  ASSUME PcOK, pc.todo # <<>>
  PROVE  /\ Head(pc.todo) \in MsgWork
         /\ LET q == [pc EXCEPT !.todo = Tail(@)]
            IN  /\ q \in Pc /\ q.todo \in Seq(MsgWork) /\ q.at = pc.at /\ q.msgno = pc.msgno
                /\ q.todo = Tail(pc.todo) /\ q.purge = pc.purge /\ q.closing = pc.closing
                /\ q.then = pc.then
<1>1. Head(pc.todo) \in MsgWork /\ Tail(pc.todo) \in Seq(MsgWork)
  BY HeadTailProperties DEF PcOK
<1>2. Tail(pc.todo) \in Seq(Work) BY HeadTailProperties DEF PcOK, Pc
<1> QED BY <1>1, <1>2 DEF PcOK, Pc

\* Steps that leave the list of headers alone.
LEMMA SameListTyped ==
  ASSUME Typed, UNCHANGED <<conf, hdrs, v2r, sort>>, ctx' \in CONTEXT,
         header' \in [Ids -> HEADER], StoreOK', pc' \in Pc, pc'.todo \in Seq(MsgWork),
         pc'.at = "count" => pc'.msgno >= 1
  PROVE  Typed'
<1>1. /\ conf \in Settings /\ sort \in {"order", "reverse"} /\ ListOK
  BY TypedParts
<1>2. ListOK' BY <1>1 DEF ListOK
<1>3. MsgWork' = MsgWork BY DEF MsgWork, Msgs
<1>4. PcOK' BY <1>3 DEF PcOK
<1>5. Typed' <=> /\ conf' \in Settings /\ ctx' \in CONTEXT /\ sort' \in {"order", "reverse"}
                 /\ ListOK' /\ StoreOK' /\ PcOK'
  BY DEF Typed, TypeOK, ListOK, StoreOK, PcOK
<1> QED BY <1>1, <1>2, <1>4, <1>5

\* Steps that make a new list leave no work.
LEMMA NewListTyped ==
  ASSUME Typed, conf' = conf, ctx' \in CONTEXT, sort' \in {"order", "reverse"}, ListOK', StoreOK',
         pc' \in Pc, pc'.todo = <<>>, pc'.at = "count" => pc'.msgno >= 1
  PROVE  Typed'
<1>1. conf \in Settings BY TypedParts
<1>2. <<>> \in Seq(MsgWork') BY EmptySeq
<1>3. PcOK' BY <1>2 DEF PcOK
<1>4. Typed' <=> /\ conf' \in Settings /\ ctx' \in CONTEXT /\ sort' \in {"order", "reverse"}
                 /\ ListOK' /\ StoreOK' /\ PcOK'
  BY DEF Typed, TypeOK, ListOK, StoreOK, PcOK
<1> QED BY <1>1, <1>3, <1>4

LEMMA SameStore ==
  ASSUME Typed, UNCHANGED <<conf, store>>
  PROVE  StoreOK'
  BY TypedParts DEF StoreOK, store

LEMMA SortTyped ==
  ASSUME NEW S \in SUBSET Ids, NEW key, NEW hmap \in [Ids -> HEADER],
         mutt_sort_headers(S, key, hmap)
  PROVE  ListOK'
  BY SortRight DEF ListOK, Inverts

\* One call of mutt_set_flag() for a message.
LEMMA SetTyped ==
  ASSUME Typed, NEW m \in Ids, NEW r, NEW upd, SetRight(ctx, header[m], r, upd)
  PROVE  r.c \in CONTEXT /\ [header EXCEPT ![m] = r.h] \in [Ids -> HEADER]
  BY TypedParts DEF SetRight, ListOK

LEMMA WorkIs ==
  ASSUME Typed, NEW w \in MsgWork
  PROVE  /\ w.m \in Ids /\ w.m \in Msgs /\ w.flag \in Flags /\ w.bf \in BOOLEAN
         /\ ctx \in CONTEXT /\ header[w.m] \in HEADER
<1>1. w.m \in Ids /\ w.m \in Msgs /\ w.flag \in Flags /\ w.bf \in BOOLEAN BY DEF MsgWork, Work
<1> QED BY <1>1, TypedParts DEF ListOK

(***************************************************************************)
(* Reading new mail.                                                       *)
(***************************************************************************)
\* The messages new come behind those of base, with the headers hmap.
Arrives(base, hmap, bail, new) ==
  /\ arrived' \in arrived + 1 .. conf.msgs /\ new = arrived + 1 .. arrived' /\ new \subseteq Ids
  /\ DOMAIN disk' = DOMAIN disk \cup new
  /\ \A m \in DOMAIN disk \ new : disk'[m] = disk[m]
  /\ \A m \in new : disk'[m] \in Stored /\ header'[m] = NewHeader(disk'[m])
  /\ \A m \in Ids \ new : header'[m] = hmap[m]
  /\ header' \in [Ids -> HEADER]
  /\ hdrs' \in Seq(Ids) /\ Range(hdrs') = Range(base) \cup new
  /\ Len(hdrs') >= Len(base) /\ \A i \in 1 .. Len(base) : hdrs'[i] = base[i]
  /\ \A i \in Len(base) + 1 .. Len(hdrs') : hdrs'[i] \in new
  /\ IsInjective(base) /\ Range(base) \cap new = {} => IsInjective(hdrs')
  /\ pc' \in Pc /\ pc'.todo = <<>> /\ pc'.at = "count"
  /\ pc'.msgno = Len(base) + 1 /\ pc'.oldcount = Len(base) /\ pc'.bail = bail
  /\ UNCHANGED <<ctx, sort, saved, trash>>

LEMMA NewMailIs ==
  ASSUME Typed, NEW base \in Seq(Ids), NEW hmap \in [Ids -> HEADER], NEW bail \in BOOLEAN,
         ReadNewMail(base, hmap, bail)
  PROVE  \E new : Arrives(base, hmap, bail, new)
<1>1. PICK k \in 1 .. conf.msgs - arrived :
        LET new == arrived + 1 .. arrived + k
        IN /\ \E f \in [new -> conf.newmail] :
                /\ disk' = [m \in DOMAIN disk \cup new |-> IF m \in new THEN f[m] ELSE disk[m]]
                /\ header' = [m \in Ids |-> IF m \in new THEN NewHeader(f[m]) ELSE hmap[m]]
           /\ \E s \in DiskOrder(new) : hdrs' = base \o s
           /\ arrived' = arrived + k
           /\ pc' = [At("count") EXCEPT !.msgno = Len(base) + 1, !.oldcount = Len(base), !.bail = bail]
           /\ UNCHANGED <<ctx, sort, saved, trash>>
  BY DEF ReadNewMail
<1> DEFINE new == arrived + 1 .. arrived + k
<1>2. PICK f \in [new -> conf.newmail] :
         /\ disk' = [m \in DOMAIN disk \cup new |-> IF m \in new THEN f[m] ELSE disk[m]]
         /\ header' = [m \in Ids |-> IF m \in new THEN NewHeader(f[m]) ELSE hmap[m]]
  BY <1>1
<1>3. PICK s \in DiskOrder(new) : hdrs' = base \o s BY <1>1
<1>4. /\ arrived' = arrived + k
      /\ pc' = [At("count") EXCEPT !.msgno = Len(base) + 1, !.oldcount = Len(base), !.bail = bail]
      /\ UNCHANGED <<ctx, sort, saved, trash>>
  BY <1>1
<1>5. /\ MaxMsgs \in Nat /\ conf.msgs \in 0 .. MaxMsgs /\ arrived \in 0 .. conf.msgs
      /\ conf.newmail \in SUBSET Stored
  BY SettingIs, TypedParts DEF Typed, StoreOK
<1>6. arrived' \in arrived + 1 .. conf.msgs /\ new = arrived + 1 .. arrived' /\ new \subseteq Ids
  BY <1>4, <1>5 DEF Ids
<1> HIDE DEF new
<1>7. s \in Seq(Ids) /\ Range(s) = new /\ IsInjective(s) BY <1>3, <1>6, DiskOrderIs
<1>8. /\ hdrs' \in Seq(Ids) /\ Len(hdrs') = Len(base) + Len(s) /\ Len(s) \in Nat /\ Len(base) \in Nat
      /\ \A i \in 1 .. Len(base) : hdrs'[i] = base[i]
      /\ \A i \in Len(base) + 1 .. Len(hdrs') : i - Len(base) \in DOMAIN s /\ hdrs'[i] = s[i - Len(base)]
  BY <1>3, <1>7, ConcatProperties
<1>9. \A i \in Len(base) + 1 .. Len(hdrs') : hdrs'[i] \in new BY <1>7, <1>8 DEF Range
<1>10. Range(hdrs') = Range(base) \cup new
  <2>1. DOMAIN hdrs' = 1 .. Len(hdrs') /\ DOMAIN base = 1 .. Len(base) /\ DOMAIN s = 1 .. Len(s)
    BY <1>7, <1>8
  <2>2. \A x \in Range(hdrs') : x \in Range(base) \cup new BY <1>8, <1>9, <2>1 DEF Range
  <2>3. \A x \in Range(base) : x \in Range(hdrs') BY <1>8, <2>1 DEF Range
  <2>4. ASSUME NEW x \in new PROVE x \in Range(hdrs')
    <3>1. PICK j \in DOMAIN s : s[j] = x BY <1>7 DEF Range
    <3>2. j + Len(base) \in Len(base) + 1 .. Len(hdrs') /\ (j + Len(base)) - Len(base) = j
      BY <1>8, <2>1
    <3>3. hdrs'[j + Len(base)] = x BY <1>8, <3>1, <3>2
    <3> QED BY <1>8, <2>1, <3>2, <3>3 DEF Range
  <2> QED BY <2>2, <2>3, <2>4
<1>11. ASSUME IsInjective(base), Range(base) \cap new = {}
       PROVE  IsInjective(hdrs')
  <2>1. DOMAIN hdrs' = 1 .. Len(hdrs') /\ DOMAIN base = 1 .. Len(base) /\ DOMAIN s = 1 .. Len(s)
    BY <1>7, <1>8
  <2>2. \A i \in DOMAIN hdrs' : i \in 1 .. Len(base) \/ i \in Len(base) + 1 .. Len(hdrs')
    BY <1>8, <2>1
  <2>3. \A i \in 1 .. Len(base) : hdrs'[i] \in Range(base) BY <1>8, <2>1 DEF Range
  <2>4. \A i, j \in 1 .. Len(base) : hdrs'[i] = hdrs'[j] => i = j
    BY <1>8, <1>11, <2>1 DEF IsInjective
  <2>5. \A i, j \in Len(base) + 1 .. Len(hdrs') : hdrs'[i] = hdrs'[j] => i = j
    BY <1>7, <1>8 DEF IsInjective
  <2> QED BY <1>9, <1>11, <2>2, <2>3, <2>4, <2>5 DEF IsInjective
<1>12. /\ DOMAIN disk' = DOMAIN disk \cup new
       /\ \A m \in DOMAIN disk \ new : disk'[m] = disk[m]
       /\ \A m \in new : disk'[m] = f[m]
  BY <1>2
<1>13. \A m \in new : f[m] \in Stored BY <1>2, <1>5
<1>14. /\ header' \in [Ids -> HEADER]
       /\ \A m \in new : header'[m] = NewHeader(f[m])
       /\ \A m \in Ids \ new : header'[m] = hmap[m]
  BY <1>2, <1>6, NewHeaderIs
<1>15. /\ pc' \in Pc /\ pc'.todo = <<>> /\ pc'.at = "count"
       /\ pc'.msgno = Len(base) + 1 /\ pc'.oldcount = Len(base) /\ pc'.bail = bail
  <2> DEFINE q == At("count")
  <2>1. q \in Pc /\ q.todo = <<>> /\ q.at = "count" BY AtIs DEF Places
  <2>2. Len(base) + 1 \in Nat /\ Len(base) \in Nat BY <1>8
  <2>3. pc' = [q EXCEPT !.msgno = Len(base) + 1, !.oldcount = Len(base), !.bail = bail] BY <1>4
  <2> HIDE DEF q
  <2> QED BY <2>1, <2>2, <2>3 DEF Pc
<1> HIDE DEF Arrives
<1>16. Arrives(base, hmap, bail, new)
  BY <1>4, <1>6, <1>8, <1>9, <1>10, <1>11, <1>12, <1>13, <1>14, <1>15 DEF Arrives
<1> QED BY <1>16

LEMMA NewMailTyped ==
  ASSUME Typed, NEW base \in Seq(Ids), NEW hmap \in [Ids -> HEADER], NEW bail \in BOOLEAN,
         ReadNewMail(base, hmap, bail), conf' = conf,
         v2r' \in Seq(Nat), \A k \in DOMAIN v2r' : v2r'[k] \in DOMAIN base
  PROVE  Typed'
<1>1. PICK new : Arrives(base, hmap, bail, new) BY NewMailIs
<1>2. /\ hdrs' \in Seq(Ids) /\ header' \in [Ids -> HEADER] /\ Len(hdrs') >= Len(base)
      /\ pc' \in Pc /\ pc'.todo = <<>> /\ pc'.msgno = Len(base) + 1
      /\ UNCHANGED <<ctx, sort, saved, trash>>
  BY <1>1 DEF Arrives
<1>3. \A i \in DOMAIN base : i \in DOMAIN hdrs'
  BY <1>2, LenProperties
<1>4. ListOK' BY <1>2, <1>3 DEF ListOK
<1>5. /\ arrived \in 0 .. conf.msgs /\ conf.msgs \in Nat
      /\ DOMAIN disk \subseteq Ids /\ \A m \in DOMAIN disk : disk[m] \in Stored
      /\ {saved, trash} \subseteq [Ids -> Nat]
  BY TypedParts, SettingIs DEF StoreOK, Typed
<1>6. DOMAIN disk' \subseteq Ids /\ \A m \in DOMAIN disk' : disk'[m] \in Stored
  BY <1>1, <1>5 DEF Arrives
<1>7. arrived' \in 0 .. conf'.msgs BY <1>1, <1>5 DEF Arrives
<1>8. StoreOK' BY <1>2, <1>5, <1>6, <1>7 DEF StoreOK
<1>9. ctx' \in CONTEXT /\ sort' \in {"order", "reverse"} BY <1>2, TypedParts
<1>10. pc'.msgno >= 1 BY <1>2, LenProperties
<1> QED BY <1>2, <1>4, <1>8, <1>9, <1>10, NewListTyped

(***************************************************************************)
(* Counting a message that is new to the context.                          *)
(***************************************************************************)
LEMMA ScoreFlagIs ==
  ASSUME NEW c \in CONTEXT, NEW h \in HEADER, NEW flag \in {"DELETE", "READ", "FLAG"}, NEW upd \in BOOLEAN
  PROVE  LET r == mutt_set_flag(c, h, flag, TRUE, upd)
         IN  r.h.tagged = h.tagged /\ r.c.deleted >= c.deleted
<1>1. c.deleted \in Int BY ContextTyped DEF Numbers
<1>2. CASE flag = "DELETE"
  <2> DEFINE d == Count(c, "deleted", 1, upd)
             r == mutt_set_flag(c, h, flag, TRUE, upd)
  <2>1. d.deleted = c.deleted + (IF upd THEN 1 ELSE 0) BY CountIs
  <2>2. [h EXCEPT !.deleted = TRUE].tagged = h.tagged BY DEF HEADER
  <2>3. r \in {[c |-> d, h |-> [h EXCEPT !.deleted = TRUE]], [c |-> c, h |-> h]}
    BY <1>2 DEF mutt_set_flag, set_delete, Same
  <2> HIDE DEF d, r
  <2>4. r.c \in {c, d} /\ r.h \in {h, [h EXCEPT !.deleted = TRUE]} BY <2>3
  <2>5. r.h.tagged = h.tagged /\ r.c.deleted >= c.deleted
    <3>1. r.h.tagged = h.tagged BY <2>2, <2>4
    <3>2. d.deleted >= c.deleted /\ c.deleted >= c.deleted BY <1>1, <2>1
    <3> QED BY <2>4, <3>1, <3>2
  <2> QED BY <2>5 DEF r
<1>3. CASE flag = "READ"
  <2>1. SetRight(c, h, mutt_set_flag(c, h, flag, TRUE, upd), upd) BY <1>3, SetFlagRight DEF Flags
  <2>2. [h EXCEPT !.read = TRUE, !.changed = TRUE].tagged = h.tagged
        /\ [h EXCEPT !.read = TRUE, !.changed = TRUE].deleted = h.deleted
    BY DEF HEADER
  <2>3. mutt_set_flag(c, h, flag, TRUE, upd).h \in {h, [h EXCEPT !.read = TRUE, !.changed = TRUE]}
    BY <1>3 DEF mutt_set_flag, set_read, Same
  <2> DEFINE r == mutt_set_flag(c, h, flag, TRUE, upd)
  <2> HIDE DEF r
  <2>4. r.h.tagged = h.tagged /\ r.h.deleted = h.deleted BY <2>2, <2>3 DEF r
  <2>5. r.c.deleted = c.deleted + By(upd, h.deleted, r.h.deleted) BY <2>1 DEF SetRight, Moves, r
  <2>6. By(upd, h.deleted, h.deleted) = 0 BY DEF By, Bit
  <2>7. r.c.deleted = c.deleted /\ c.deleted >= c.deleted BY <1>1, <2>4, <2>5, <2>6
  <2>8. r.h.tagged = h.tagged /\ r.c.deleted >= c.deleted BY <2>4, <2>7
  <2> QED BY <2>8 DEF r
<1>4. CASE flag = "FLAG"
  <2>1. SetRight(c, h, mutt_set_flag(c, h, flag, TRUE, upd), upd) BY <1>4, SetFlagRight DEF Flags
  <2>2. [h EXCEPT !.flagged = TRUE, !.changed = TRUE].tagged = h.tagged
        /\ [h EXCEPT !.flagged = TRUE, !.changed = TRUE].deleted = h.deleted
    BY DEF HEADER
  <2>3. mutt_set_flag(c, h, flag, TRUE, upd).h \in {h, [h EXCEPT !.flagged = TRUE, !.changed = TRUE]}
    BY <1>4 DEF mutt_set_flag, set_flagged, Same
  <2> DEFINE r == mutt_set_flag(c, h, flag, TRUE, upd)
  <2> HIDE DEF r
  <2>4. r.h.tagged = h.tagged /\ r.h.deleted = h.deleted BY <2>2, <2>3 DEF r
  <2>5. r.c.deleted = c.deleted + By(upd, h.deleted, r.h.deleted) BY <2>1 DEF SetRight, Moves, r
  <2>6. By(upd, h.deleted, h.deleted) = 0 BY DEF By, Bit
  <2>7. r.c.deleted = c.deleted /\ c.deleted >= c.deleted BY <1>1, <2>4, <2>5, <2>6
  <2>8. r.h.tagged = h.tagged /\ r.c.deleted >= c.deleted BY <2>4, <2>7
  <2> QED BY <2>8 DEF r
<1> QED BY <1>2, <1>3, <1>4

LEMMA ScoreFlagKeeps ==
  ASSUME NEW c, NEW h \in HEADER, NEW flag \in {"DELETE", "READ", "FLAG"}, NEW upd, h.deleted
  PROVE  mutt_set_flag(c, h, flag, TRUE, upd).h.deleted
<1>1. CASE flag = "DELETE"
  <2>1. mutt_set_flag(c, h, flag, TRUE, upd).h = h BY <1>1 DEF mutt_set_flag, set_delete, Same
  <2> QED BY <2>1
<1>2. CASE flag = "READ"
  <2>1. [h EXCEPT !.read = TRUE, !.changed = TRUE].deleted = h.deleted BY DEF HEADER
  <2>2. mutt_set_flag(c, h, flag, TRUE, upd).h \in {h, [h EXCEPT !.read = TRUE, !.changed = TRUE]}
    BY <1>2 DEF mutt_set_flag, set_read, Same
  <2> QED BY <2>1, <2>2
<1>3. CASE flag = "FLAG"
  <2>1. [h EXCEPT !.flagged = TRUE, !.changed = TRUE].deleted = h.deleted BY DEF HEADER
  <2>2. mutt_set_flag(c, h, flag, TRUE, upd).h \in {h, [h EXCEPT !.flagged = TRUE, !.changed = TRUE]}
    BY <1>3 DEF mutt_set_flag, set_flagged, Same
  <2> QED BY <2>1, <2>2
<1> QED BY <1>1, <1>2, <1>3

\* A score tags nothing and never takes a D flag back.
LEMMA ScoreIs ==
  ASSUME NEW c \in CONTEXT, NEW h \in HEADER, NEW crossed \in Scores, NEW upd \in BOOLEAN
  PROVE  LET r == mutt_score_message(c, h, crossed, upd)
         IN  /\ SetRight(c, h, r, upd) /\ r.h.tagged = h.tagged /\ r.c.deleted >= c.deleted
             /\ h.deleted => r.h.deleted
             /\ crossed = {} => r = Same(c, h)
<1> DEFINE If(s, flag) == IF flag \in crossed THEN mutt_set_flag(s.c, s.h, flag, TRUE, upd) ELSE s
           Good(s) == s.c \in CONTEXT /\ s.h \in HEADER /\ s.h.tagged = h.tagged /\ s.c.deleted >= c.deleted
                      /\ (h.deleted => s.h.deleted)
<1>1. ASSUME NEW s, Good(s), NEW flag \in {"DELETE", "READ", "FLAG"}
      PROVE  Good(If(s, flag))
  <2> DEFINE q == mutt_set_flag(s.c, s.h, flag, TRUE, upd)
  <2>0. s.c \in CONTEXT /\ s.h \in HEADER BY <1>1
  <2>1. q.h.tagged = s.h.tagged /\ q.c.deleted >= s.c.deleted BY <2>0, <1>1, ScoreFlagIs
  <2>5. s.h.deleted => q.h.deleted BY <2>0, <1>1, ScoreFlagKeeps
  <2>2. q.c \in CONTEXT /\ q.h \in HEADER BY <1>1, SetFlagRight DEF SetRight, Flags
  <2>3. {q.c.deleted, s.c.deleted, c.deleted} \subseteq Int BY <1>1, <2>2, ContextTyped DEF Numbers
  <2> HIDE DEF q
  <2>4. Good(q) BY <1>1, <2>1, <2>2, <2>3, <2>5
  <2> QED BY <1>1, <2>4 DEF q
<1>2. Good(Same(c, h))
  <2>1. c.deleted \in Int BY ContextTyped DEF Numbers
  <2> QED BY <2>1 DEF Same
<1> HIDE DEF Good
<1>3. Good(If(Same(c, h), "DELETE")) BY <1>1, <1>2
<1>4. Good(If(If(Same(c, h), "DELETE"), "READ")) BY <1>1, <1>3
<1>5. Good(If(If(If(Same(c, h), "DELETE"), "READ"), "FLAG")) BY <1>1, <1>4
<1>6. mutt_score_message(c, h, crossed, upd) = If(If(If(Same(c, h), "DELETE"), "READ"), "FLAG")
  BY DEF mutt_score_message
<1>7. crossed = {} => mutt_score_message(c, h, crossed, upd) = Same(c, h)
  BY DEF mutt_score_message
<1> QED BY <1>5, <1>6, <1>7, ScoreRight DEF Good

\* The options with which a message that is superseded is scored again.
Rescores == {"supersedes", "score"} \subseteq conf.options

\* What superseding does: to the header of x, unless nothing is rescored.
SupersedesRight(c, hmap, s) ==
  /\ s.c \in CONTEXT /\ s.hmap \in [Ids -> HEADER]
  /\ s.c.limit = c.limit /\ s.c.pattern = c.pattern /\ s.c.dontwrite = c.dontwrite
  /\ s.c.deleted >= c.deleted
  /\ \E x \in Ids : \E r :
       /\ s.hmap = [hmap EXCEPT ![x] = r.h]
       /\ SetRight(c, hmap[x], r, TRUE) /\ r.h.tagged = hmap[x].tagged
       /\ s.c.deleted = r.c.deleted /\ s.c.changed = r.c.changed
  /\ ~Rescores =>
       /\ s.hmap = hmap /\ s.c.changed = c.changed
       /\ s.c.tagged = c.tagged /\ s.c.deleted = c.deleted /\ s.c.flagged = c.flagged
       /\ s.c.unread = c.unread /\ s.c.new = c.new

LEMMA HashTyped ==
  ASSUME NEW c \in CONTEXT, NEW S \in SUBSET Ids
  PROVE  LET d == [c EXCEPT !.id_hash = S]
         IN  /\ d \in CONTEXT
             /\ d.limit = c.limit /\ d.pattern = c.pattern /\ d.dontwrite = c.dontwrite
             /\ d.changed = c.changed /\ d.tagged = c.tagged /\ d.deleted = c.deleted
             /\ d.flagged = c.flagged /\ d.unread = c.unread /\ d.new = c.new
  BY DEF CONTEXT

LEMMA SupersededIs ==
  ASSUME TypeOK, NEW c \in CONTEXT, NEW hmap \in [Ids -> HEADER], NEW s \in Superseded(c, hmap),
         Ids # {}
  PROVE  SupersedesRight(c, hmap, s)
<1>1. Hashed(c) \in SUBSET Ids
  <2>1. c.id_hash \in SUBSET Ids BY DEF CONTEXT
  <2> QED BY <2>1, MsgsAreIds DEF Hashed
<1>2. c.deleted \in Int BY ContextTyped DEF Numbers
<1>3. \A x \in Ids : [hmap EXCEPT ![x] = hmap[x]] = hmap OBVIOUS
<1>4. ASSUME NEW S \in SUBSET Ids, s = [c |-> [c EXCEPT !.id_hash = S], hmap |-> hmap]
      PROVE  SupersedesRight(c, hmap, s)
  <2> DEFINE d == [c EXCEPT !.id_hash = S]
  <2>1. /\ d \in CONTEXT
        /\ d.limit = c.limit /\ d.pattern = c.pattern /\ d.dontwrite = c.dontwrite
        /\ d.changed = c.changed /\ d.tagged = c.tagged /\ d.deleted = c.deleted
        /\ d.flagged = c.flagged /\ d.unread = c.unread /\ d.new = c.new
    BY HashTyped
  <2>2. s.c = d /\ s.hmap = hmap BY <1>4
  <2> HIDE DEF d
  <2>3. PICK x \in Ids : TRUE OBVIOUS
  <2> DEFINE r == Same(c, hmap[x])
  <2>4. SetRight(c, hmap[x], r, TRUE) /\ r.h = hmap[x] /\ r.c = c BY SameRight DEF Same
  <2> HIDE DEF r
  <2>5. /\ s.hmap = [hmap EXCEPT ![x] = r.h]
        /\ SetRight(c, hmap[x], r, TRUE) /\ r.h.tagged = hmap[x].tagged
        /\ s.c.deleted = r.c.deleted /\ s.c.changed = r.c.changed
    BY <1>3, <2>1, <2>2, <2>4
  <2>6. \E y \in Ids : \E q :
          /\ s.hmap = [hmap EXCEPT ![y] = q.h]
          /\ SetRight(c, hmap[y], q, TRUE) /\ q.h.tagged = hmap[y].tagged
          /\ s.c.deleted = q.c.deleted /\ s.c.changed = q.c.changed
    BY <2>5
  <2>7. s.c.deleted >= c.deleted BY <1>2, <2>1, <2>2
  <2> QED BY <2>1, <2>2, <2>6, <2>7 DEF SupersedesRight
<1>5. ASSUME NEW x \in Hashed(c), NEW crossed \in Crossed, On("supersedes"),
             LET r == mutt_score_message(c, hmap[x], crossed, TRUE)
             IN s = [c |-> [r.c EXCEPT !.id_hash = Hashed(c)], hmap |-> [hmap EXCEPT ![x] = r.h]]
      PROVE  SupersedesRight(c, hmap, s)
  <2> DEFINE r == mutt_score_message(c, hmap[x], crossed, TRUE)
  <2>1. x \in Ids /\ hmap[x] \in HEADER BY <1>1
  <2>2. crossed \in Scores BY DEF Crossed, Scores
  <2>3. /\ SetRight(c, hmap[x], r, TRUE) /\ r.h.tagged = hmap[x].tagged /\ r.c.deleted >= c.deleted
        /\ crossed = {} => r = Same(c, hmap[x])
    BY <2>1, <2>2, ScoreIs
  <2>4. s.c = [r.c EXCEPT !.id_hash = Hashed(c)] /\ s.hmap = [hmap EXCEPT ![x] = r.h] BY <1>5
  <2> HIDE DEF r
  <2>5. r.c \in CONTEXT /\ r.h \in HEADER /\ SameView(c, hmap[x], r.c, r.h) BY <2>3 DEF SetRight
  <2>6. /\ s.c \in CONTEXT
        /\ s.c.limit = r.c.limit /\ s.c.pattern = r.c.pattern /\ s.c.dontwrite = r.c.dontwrite
        /\ s.c.changed = r.c.changed /\ s.c.tagged = r.c.tagged /\ s.c.deleted = r.c.deleted
        /\ s.c.flagged = r.c.flagged /\ s.c.unread = r.c.unread /\ s.c.new = r.c.new
    BY <1>1, <2>4, <2>5, HashTyped
  <2>7. s.hmap \in [Ids -> HEADER] BY <2>1, <2>4, <2>5
  <2>8. ASSUME ~Rescores PROVE s.hmap = hmap /\ r.c = c
    <3>1. crossed = {} BY <1>5, <2>8 DEF Crossed, On, Rescores
    <3>2. r.c = c /\ r.h = hmap[x] BY <2>3, <3>1 DEF Same
    <3> QED BY <1>3, <2>1, <2>4, <3>2
  <2> QED BY <2>1, <2>3, <2>4, <2>5, <2>6, <2>7, <2>8 DEF SupersedesRight, SameView
<1>6. CASE s = [c |-> c, hmap |-> hmap]
  <2>1. c.id_hash \in SUBSET Ids /\ c = [c EXCEPT !.id_hash = c.id_hash] BY DEF CONTEXT
  <2> QED BY <1>4, <1>6, <2>1
<1>7. CASE On("supersedes") /\ s = [c |-> [c EXCEPT !.id_hash = Hashed(c)], hmap |-> hmap]
  BY <1>1, <1>4, <1>7
<1>8. CASE On("supersedes") /\ \E x \in Hashed(c), crossed \in Crossed :
             LET r == mutt_score_message(c, hmap[x], crossed, TRUE)
             IN s = [c |-> [r.c EXCEPT !.id_hash = Hashed(c)], hmap |-> [hmap EXCEPT ![x] = r.h]]
  BY <1>5, <1>8
<1>9. s = [c |-> c, hmap |-> hmap] \/ On("supersedes") BY DEF Superseded
<1>10. ASSUME On("supersedes"), s # [c |-> c, hmap |-> hmap],
              s # [c |-> [c EXCEPT !.id_hash = Hashed(c)], hmap |-> hmap]
       PROVE  \E x \in Hashed(c), crossed \in Crossed :
                LET r == mutt_score_message(c, hmap[x], crossed, TRUE)
                IN s = [c |-> [r.c EXCEPT !.id_hash = Hashed(c)], hmap |-> [hmap EXCEPT ![x] = r.h]]
  <2>1. PICK t \in Hashed(c) \X Crossed :
           LET r == mutt_score_message(c, hmap[t[1]], t[2], TRUE)
           IN s = [c |-> [r.c EXCEPT !.id_hash = Hashed(c)], hmap |-> [hmap EXCEPT ![t[1]] = r.h]]
    BY <1>10 DEF Superseded
  <2>2. t[1] \in Hashed(c) /\ t[2] \in Crossed OBVIOUS
  <2> QED BY <2>1, <2>2
<1> QED BY <1>6, <1>7, <1>8, <1>9, <1>10

\* mx_update_context() counts the message m.
SeenAs(m) == [header EXCEPT ![m].virtual = IF ctx.limit THEN 0 ELSE Len(v2r) + 1]
CountsRight(m, s, r) ==
  /\ m \in Msgs /\ m = hdrs[pc.msgno] /\ pc.msgno \in DOMAIN hdrs
  /\ SeenAs(m) \in [Ids -> HEADER] /\ SupersedesRight(ctx, SeenAs(m), s)
  /\ SetRight(s.c, s.hmap[m], r, FALSE) /\ r.h.tagged = s.hmap[m].tagged
  /\ s.hmap[m].deleted => r.h.deleted
  /\ ctx' \in CONTEXT
  /\ ctx'.limit = ctx.limit /\ ctx'.pattern = ctx.pattern /\ ctx'.dontwrite = ctx.dontwrite
  /\ ctx'.changed = (s.c.changed \/ r.h.changed)
  /\ ctx'.tagged = s.c.tagged
  /\ ctx'.deleted = s.c.deleted + Bit(r.h.deleted)
  /\ ctx'.flagged = s.c.flagged + Bit(r.h.flagged)
  /\ ctx'.unread = s.c.unread + Bit(~r.h.read)
  /\ ctx'.new = s.c.new + Bit(~r.h.read /\ ~r.h.old)
  /\ header' = [s.hmap EXCEPT ![m] = r.h] /\ header' \in [Ids -> HEADER]
  /\ v2r' = IF ctx.limit THEN v2r ELSE Append(v2r, pc.msgno)
  /\ pc' = [pc EXCEPT !.msgno = @ + 1]
  /\ UNCHANGED <<hdrs, sort, store>>

LEMMA TallyIs ==
  ASSUME NEW c \in CONTEXT, NEW h \in HEADER
  PROVE  LET d == Tally(c, h)
         IN  /\ d \in CONTEXT
             /\ d.limit = c.limit /\ d.pattern = c.pattern /\ d.dontwrite = c.dontwrite
             /\ d.changed = (c.changed \/ h.changed) /\ d.tagged = c.tagged
             /\ d.deleted = c.deleted + Bit(h.deleted) /\ d.flagged = c.flagged + Bit(h.flagged)
             /\ d.unread = c.unread + Bit(~h.read) /\ d.new = c.new + Bit(~h.read /\ ~h.old)
<1>1. \A b : Bit(b) \in Int BY DEF Bit
<1>2. Numbers(c) \subseteq Int /\ c.changed \in BOOLEAN /\ h.changed \in BOOLEAN
  BY ContextTyped, HeaderTyped
<1> DEFINE x == c.changed \/ h.changed
           f == c.flagged + Bit(h.flagged)
           d == c.deleted + Bit(h.deleted)
           u == c.unread + Bit(~h.read)
           n == c.new + Bit(~h.read /\ ~h.old)
<1>3. x \in BOOLEAN /\ f \in Int /\ d \in Int /\ u \in Int /\ n \in Int
  BY <1>1, <1>2 DEF Numbers
<1>4. Tally(c, h) = [c EXCEPT !.changed = x, !.flagged = f, !.deleted = d, !.unread = u, !.new = n]
  BY DEF Tally, CONTEXT
<1> DEFINE t == Tally(c, h)
<1>5. /\ t \in CONTEXT
      /\ t.limit = c.limit /\ t.pattern = c.pattern /\ t.dontwrite = c.dontwrite
      /\ t.changed = x /\ t.tagged = c.tagged /\ t.deleted = d /\ t.flagged = f
      /\ t.unread = u /\ t.new = n
  <2> HIDE DEF x, f, d, u, n
  <2> QED BY <1>3, <1>4 DEF CONTEXT
<1> QED BY <1>5

LEMMA CountedIs ==
  ASSUME Typed, mx_update_context
  PROVE  \E m, s, r : CountsRight(m, s, r)
<1> DEFINE m == hdrs[pc.msgno]
<1>1. pc.at = "count" /\ pc.msgno <= Len(hdrs) /\ pc.msgno \in Nat /\ pc.msgno >= 1
  BY TypedParts DEF mx_update_context, PcOK, Pc
<1>2. m \in Msgs /\ m \in Ids /\ pc.msgno \in DOMAIN hdrs BY <1>1, MsgsAreIds DEF Typed
<1>3. /\ ctx \in CONTEXT /\ header \in [Ids -> HEADER] /\ v2r \in Seq(Nat) /\ TypeOK
  BY TypedParts DEF ListOK, Typed
<1>4. SeenAs(m) \in [Ids -> HEADER]
  <2>1. Len(v2r) + 1 \in Nat BY <1>3, LenProperties
  <2> DEFINE k == IF ctx.limit THEN 0 ELSE Len(v2r) + 1
  <2>2. k \in Nat BY <2>1
  <2> HIDE DEF k
  <2>3. [header[m] EXCEPT !.virtual = k] \in HEADER BY <1>2, <1>3, <2>2, VirtualIs
  <2>4. SeenAs(m) = [header EXCEPT ![m] = [header[m] EXCEPT !.virtual = k]]
    BY DEF SeenAs, k
  <2> QED BY <1>3, <2>3, <2>4
<1>5. PICK s \in Superseded(ctx, SeenAs(m)), crossed \in Crossed :
          LET r == mutt_score_message(s.c, s.hmap[m], crossed, FALSE)
              c == [r.c EXCEPT !.id_hash = IF @ = {} THEN {} ELSE @ \cup {m}]
          IN ctx' = Tally(c, r.h) /\ header' = [s.hmap EXCEPT ![m] = r.h]
  BY DEF mx_update_context, SeenAs
<1>6. SupersedesRight(ctx, SeenAs(m), s) BY <1>2, <1>3, <1>4, SupersededIs
<1>7. s.c \in CONTEXT /\ s.hmap \in [Ids -> HEADER] /\ s.hmap[m] \in HEADER
      /\ s.c.limit = ctx.limit /\ s.c.pattern = ctx.pattern /\ s.c.dontwrite = ctx.dontwrite
  BY <1>2, <1>6 DEF SupersedesRight
<1> DEFINE r == mutt_score_message(s.c, s.hmap[m], crossed, FALSE)
<1>8. SetRight(s.c, s.hmap[m], r, FALSE) /\ r.h.tagged = s.hmap[m].tagged
      /\ (s.hmap[m].deleted => r.h.deleted)
  <2>1. crossed \in Scores BY DEF Crossed, Scores
  <2> QED BY <1>7, <2>1, ScoreIs
<1> DEFINE S == IF r.c.id_hash = {} THEN {} ELSE r.c.id_hash \cup {m}
           c == [r.c EXCEPT !.id_hash = S]
<1>9. ctx' = Tally(c, r.h) /\ header' = [s.hmap EXCEPT ![m] = r.h] BY <1>5
<1> HIDE DEF r
<1>10. /\ r.c \in CONTEXT /\ r.h \in HEADER /\ SameView(s.c, s.hmap[m], r.c, r.h)
       /\ Moves(s.c, s.hmap[m], r.c, r.h, FALSE) /\ Marks(s.c, s.hmap[m], r.c, r.h, FALSE)
  BY <1>8 DEF SetRight
<1>11. S \in SUBSET Ids
  <2>1. r.c.id_hash \in SUBSET Ids BY <1>10 DEF CONTEXT
  <2> QED BY <1>2, <2>1
<1> HIDE DEF S
<1>12. /\ c \in CONTEXT
       /\ c.limit = r.c.limit /\ c.pattern = r.c.pattern /\ c.dontwrite = r.c.dontwrite
       /\ c.changed = r.c.changed /\ c.tagged = r.c.tagged /\ c.deleted = r.c.deleted
       /\ c.flagged = r.c.flagged /\ c.unread = r.c.unread /\ c.new = r.c.new
  BY <1>10, <1>11, HashTyped
<1> HIDE DEF c
<1>13. /\ ctx' \in CONTEXT
       /\ ctx'.limit = c.limit /\ ctx'.pattern = c.pattern /\ ctx'.dontwrite = c.dontwrite
       /\ ctx'.changed = (c.changed \/ r.h.changed) /\ ctx'.tagged = c.tagged
       /\ ctx'.deleted = c.deleted + Bit(r.h.deleted) /\ ctx'.flagged = c.flagged + Bit(r.h.flagged)
       /\ ctx'.unread = c.unread + Bit(~r.h.read) /\ ctx'.new = c.new + Bit(~r.h.read /\ ~r.h.old)
  BY <1>9, <1>10, <1>12, TallyIs
<1>14. /\ r.c.tagged = s.c.tagged /\ r.c.deleted = s.c.deleted /\ r.c.flagged = s.c.flagged
       /\ r.c.unread = s.c.unread /\ r.c.new = s.c.new
  <2>1. Numbers(s.c) \subseteq Int BY <1>7, ContextTyped
  <2> QED BY <1>10, <2>1 DEF Moves, By, Numbers
<1>15. (c.changed \/ r.h.changed) = (s.c.changed \/ r.h.changed)
  <2>1. {c.changed, r.h.changed, s.c.changed} \subseteq BOOLEAN
    BY <1>7, <1>10, <1>12, ContextTyped, HeaderTyped
  <2>2. (s.c.changed => c.changed) /\ (c.changed => s.c.changed \/ r.h.changed) BY <1>10, <1>12 DEF Marks
  <2> QED BY <2>1, <2>2
<1>16. header' \in [Ids -> HEADER] BY <1>2, <1>7, <1>9, <1>10
<1>17. /\ v2r' = IF ctx.limit THEN v2r ELSE Append(v2r, pc.msgno)
       /\ pc' = [pc EXCEPT !.msgno = @ + 1]
       /\ UNCHANGED <<hdrs, sort, store>>
  BY DEF mx_update_context
<1>18. /\ ctx'.limit = ctx.limit /\ ctx'.pattern = ctx.pattern /\ ctx'.dontwrite = ctx.dontwrite
  BY <1>7, <1>10, <1>12, <1>13 DEF SameView
<1>19. CountsRight(m, s, r)
  BY <1>2, <1>4, <1>6, <1>8, <1>9, <1>12, <1>13, <1>14, <1>15, <1>16, <1>17, <1>18 DEF CountsRight
<1> QED BY <1>19

(***************************************************************************)
(* Type correctness of the steps.                                          *)
(***************************************************************************)
LEMMA OpenTyped ==
  ASSUME Typed, mx_open_mailbox, conf' = conf
  PROVE  Typed'
<1>1. /\ DOMAIN disk \subseteq Ids /\ StoreOK'
  BY TypedParts, SameStore DEF StoreOK, mx_open_mailbox
<1>2. hdrs' \in Seq(Ids) BY <1>1, DiskOrderIs DEF mx_open_mailbox
<1>3. header' \in [Ids -> HEADER]
  <2>1. \A f : NewHeader(f) \in HEADER BY NewHeaderIs
  <2>2. NoHeader \in HEADER BY <2>1 DEF NoHeader
  <2> QED BY <2>1, <2>2 DEF mx_open_mailbox
<1>4. v2r' \in Seq(Nat) /\ DOMAIN v2r' = {} BY EmptySeq DEF mx_open_mailbox
<1>5. ListOK' BY <1>2, <1>3, <1>4 DEF ListOK
<1>6. pc' \in Pc /\ pc'.todo = <<>> /\ pc'.msgno >= 1
  <2> DEFINE q == At("count")
  <2>1. q \in Pc /\ q.todo = <<>> BY AtIs DEF Places
  <2>2. pc' = [q EXCEPT !.msgno = 1] BY DEF mx_open_mailbox
  <2> HIDE DEF q
  <2> QED BY <2>1, <2>2 DEF Pc
<1>7. ctx' \in CONTEXT /\ sort' \in {"order", "reverse"}
  BY NewContextIs, TypedParts DEF mx_open_mailbox
<1> QED BY <1>1, <1>5, <1>6, <1>7, NewListTyped

LEMMA CheckTyped ==
  ASSUME Typed, mx_check_mailbox, conf' = conf
  PROVE  Typed'
<1>1. /\ hdrs \in Seq(Ids) /\ header \in [Ids -> HEADER]
      /\ v2r \in Seq(Nat) /\ \A k \in DOMAIN v2r : v2r[k] \in DOMAIN hdrs
  BY TypedParts DEF ListOK
<1> QED BY <1>1, NewMailTyped DEF mx_check_mailbox

LEMMA CountTyped ==
  ASSUME Typed, mx_update_context, conf' = conf
  PROVE  Typed'
<1>1. PICK m, s, r : CountsRight(m, s, r) BY CountedIs
<1>2. /\ ctx' \in CONTEXT /\ header' \in [Ids -> HEADER] /\ pc.msgno \in DOMAIN hdrs
      /\ v2r' = IF ctx.limit THEN v2r ELSE Append(v2r, pc.msgno)
      /\ pc' = [pc EXCEPT !.msgno = @ + 1] /\ UNCHANGED <<hdrs, sort, store>>
  BY <1>1 DEF CountsRight
<1>3. /\ hdrs \in Seq(Ids) /\ v2r \in Seq(Nat) /\ \A k \in DOMAIN v2r : v2r[k] \in DOMAIN hdrs
  BY TypedParts DEF ListOK
<1>4. v2r' \in Seq(Nat) /\ \A k \in DOMAIN v2r' : v2r'[k] \in DOMAIN hdrs
  <2>1. pc.msgno \in Nat BY <1>2, <1>3
  <2> QED BY <1>2, <1>3, <2>1, AppendProperties
<1>5. ListOK' BY <1>2, <1>3, <1>4 DEF ListOK
<1>6. StoreOK' BY <1>2, SameStore
<1>7. PcOK'
  <2>1. pc \in Pc /\ pc.msgno \in Nat /\ pc.todo \in Seq(MsgWork) /\ pc.msgno >= 1
    BY <1>2, TypedParts DEF PcOK, Pc, mx_update_context
  <2>2. pc' \in Pc /\ pc'.todo = pc.todo /\ pc'.msgno = pc.msgno + 1 BY <1>2, <2>1 DEF Pc
  <2>3. MsgWork' = MsgWork BY <1>2 DEF MsgWork, Msgs
  <2> QED BY <2>1, <2>2, <2>3 DEF PcOK
<1>8. conf' \in Settings /\ sort' \in {"order", "reverse"} BY <1>2, TypedParts
<1> QED BY <1>2, <1>5, <1>6, <1>7, <1>8 DEF Typed, TypeOK, ListOK, StoreOK, PcOK

\* update_index() sorts the headers, the messages that match brought into view.
Matched(hd) ==
  IF ctx.limit
    THEN {hd[i] : i \in (IF v2r = <<>> THEN 0 ELSE pc.oldcount) + 1 .. Len(hd)} \cap ctx.pattern
    ELSE {}
Brought(S) == [m \in Ids |-> IF m \in S THEN [header[m] EXCEPT !.virtual = 1] ELSE header[m]]

LEMMA UpdateIs ==
  ASSUME Typed, update_index
  PROVE  \E hd : /\ hd = hdrs \/ (pc.bail /\ sort # "order")
                 /\ Brought(Matched(hd)) \in [Ids -> HEADER]
                 /\ mutt_sort_headers(Msgs, sort, Brought(Matched(hd)))
<1>1. PICK hd \in IF pc.bail /\ sort # "order" THEN SortedBy(Msgs, sort) ELSE {hdrs} :
       LET from == IF v2r = <<>> THEN 0 ELSE pc.oldcount
           matched == IF ctx.limit THEN {hd[i] : i \in from + 1 .. Len(hd)} \cap ctx.pattern ELSE {}
       IN mutt_sort_headers(Msgs, sort,
            [m \in Ids |-> IF m \in matched THEN [header[m] EXCEPT !.virtual = 1] ELSE header[m]])
  BY DEF update_index
<1>2. hd = hdrs \/ (pc.bail /\ sort # "order") BY <1>1
<1>3. mutt_sort_headers(Msgs, sort, Brought(Matched(hd))) BY <1>1 DEF Brought, Matched
<1>4. ASSUME NEW S PROVE Brought(S) \in [Ids -> HEADER]
  <2>1. header \in [Ids -> HEADER] BY TypedParts DEF ListOK
  <2>2. \A m \in Ids : [header[m] EXCEPT !.virtual = 1] \in HEADER BY <2>1, VirtualIs
  <2> QED BY <2>1, <2>2 DEF Brought
<1> QED BY <1>2, <1>3, <1>4

LEMMA UpdateTyped ==
  ASSUME Typed, update_index, conf' = conf
  PROVE  Typed'
<1>1. PICK hmap \in [Ids -> HEADER] : mutt_sort_headers(Msgs, sort, hmap) BY UpdateIs
<1>2. ListOK' BY <1>1, MsgsAreIds, SortTyped DEF Typed
<1>3. pc' \in Pc /\ pc'.todo = <<>> /\ pc'.at = "index" BY AtIs DEF update_index, Places
<1>4. UNCHANGED <<ctx, sort, store>> BY DEF update_index
<1> QED BY <1>2, <1>3, <1>4, NewListTyped, SameStore, TypedParts

LEMMA CommandTyped ==
  ASSUME Typed, Command, conf' = conf
  PROVE  Typed'
<1>1. PICK todo \in Seq(MsgWork) : Run(todo) BY CommandRuns DEF Typed
<1>2. pc' \in Pc /\ pc'.todo = todo /\ pc'.at = "apply"
  <2> DEFINE q == At("apply")
  <2>1. q \in Pc /\ q.at = "apply" BY AtIs DEF Places
  <2>2. pc' = [q EXCEPT !.todo = todo] BY <1>1 DEF Run
  <2>3. todo \in Seq(Work) BY SeqMonotonic DEF MsgWork
  <2> HIDE DEF q
  <2> QED BY <2>1, <2>2, <2>3 DEF Pc
<1>3. UNCHANGED <<ctx, hdrs, v2r, header, sort, store>> BY <1>1 DEF Run
<1>4. ctx' \in CONTEXT /\ header' \in [Ids -> HEADER] BY <1>3, TypedParts DEF ListOK
<1> QED BY <1>2, <1>3, <1>4, SameListTyped, SameStore

LEMMA ApplyTyped ==
  ASSUME Typed, Apply \/ Applied, conf' = conf
  PROVE  Typed'
<1>1. CASE Apply
  <2> DEFINE w == Head(pc.todo)
             r == mutt_set_flag(ctx, header[w.m], w.flag, w.bf, TRUE)
  <2>1. PcOK /\ pc.todo # <<>> BY <1>1, TypedParts DEF Apply
  <2>2. w \in MsgWork BY <2>1, PcTail
  <2>3. w.m \in Ids /\ SetRight(ctx, header[w.m], r, TRUE) BY <2>2, WorkIs, SetFlagRight
  <2>4. ctx' = r.c /\ header' = [header EXCEPT ![w.m] = r.h] BY <1>1 DEF Apply
  <2> HIDE DEF w, r
  <2>5. ctx' \in CONTEXT /\ header' \in [Ids -> HEADER] BY <2>3, <2>4, SetTyped
  <2>6. pc' \in Pc /\ pc'.todo \in Seq(MsgWork) /\ pc'.at = "apply" BY <1>1, <2>1, PcTail DEF Apply
  <2> QED BY <1>1, <2>5, <2>6, SameListTyped, SameStore DEF Apply
<1>2. CASE Applied
  <2>1. pc' \in Pc /\ pc'.todo \in Seq(MsgWork) /\ pc'.at # "count"
    <3>1. PcOK BY TypedParts
    <3>2. CASE pc' = [pc EXCEPT !.at = "close"] BY <3>1, <3>2, PcNext DEF Places, PcOK
    <3>3. CASE pc' = At("index") BY <3>3, AtIs DEF Places
    <3> QED BY <1>2, <3>2, <3>3 DEF Applied
  <2>2. ctx' \in CONTEXT /\ header' \in [Ids -> HEADER] BY <1>2, TypedParts DEF ListOK, Applied
  <2> QED BY <1>2, <2>1, <2>2, SameListTyped, SameStore DEF Applied
<1> QED BY <1>1, <1>2

\* A limit numbers again the messages up to upto.
Cleared(upto) ==
  [m \in Ids |-> IF \E i \in 1 .. upto : hdrs[i] = m THEN [header[m] EXCEPT !.virtual = 0] ELSE header[m]]
Matching(pattern, upto) == {i \in 1 .. upto : hdrs[i] \in pattern}

LEMMA UpTo ==
  ASSUME Typed, NEW upto \in 0 .. Len(hdrs)
  PROVE  1 .. upto \subseteq DOMAIN hdrs
<1>1. Len(hdrs) \in Nat /\ DOMAIN hdrs = 1 .. Len(hdrs) BY MsgsAreIds DEF Typed
<1>2. upto \in Nat /\ upto <= Len(hdrs) BY <1>1
<1> QED BY <1>1, <1>2

LEMMA LimitIs ==
  ASSUME Typed, Limit
  PROVE  \E pattern \in SUBSET (1 .. conf.msgs), upto \in 0 .. Len(hdrs), limit \in BOOLEAN :
           \E v \in Ascending(Matching(pattern, upto)) :
             /\ On("SigInt") \/ upto = Len(hdrs)
             /\ v2r' = v /\ header' = Numbered(hdrs, v, Cleared(upto))
             /\ limit \/ pattern = 1 .. conf.msgs
             /\ ctx' = [ctx EXCEPT !.limit = limit, !.pattern = pattern]
             /\ Matching(pattern, upto) \in SUBSET DOMAIN hdrs
             /\ Cleared(upto) \in [Ids -> HEADER]
<1>1. PICK pattern \in SUBSET (1 .. conf.msgs),
           upto \in IF On("SigInt") THEN 0 .. Len(hdrs) ELSE {Len(hdrs)} :
     \E v \in Ascending({i \in 1 .. upto : hdrs[i] \in pattern}) :
       /\ v2r' = v
       /\ header' = Numbered(hdrs, v,
            [m \in Ids |-> IF \E i \in 1 .. upto : hdrs[i] = m
                             THEN [header[m] EXCEPT !.virtual = 0] ELSE header[m]])
       /\ \E limit \in IF pattern = 1 .. conf.msgs THEN BOOLEAN ELSE {TRUE} :
            ctx' = [ctx EXCEPT !.limit = limit, !.pattern = pattern]
  BY DEF Limit
<1>2. PICK v \in Ascending(Matching(pattern, upto)) :
       /\ v2r' = v /\ header' = Numbered(hdrs, v, Cleared(upto))
       /\ \E limit \in IF pattern = 1 .. conf.msgs THEN BOOLEAN ELSE {TRUE} :
            ctx' = [ctx EXCEPT !.limit = limit, !.pattern = pattern]
  BY <1>1 DEF Matching, Cleared
<1>3. PICK limit \in BOOLEAN :
        /\ limit \/ pattern = 1 .. conf.msgs
        /\ ctx' = [ctx EXCEPT !.limit = limit, !.pattern = pattern]
  BY <1>2
<1>4. Len(hdrs) \in Nat /\ DOMAIN hdrs = 1 .. Len(hdrs) BY MsgsAreIds DEF Typed
<1>5. upto \in 0 .. Len(hdrs) /\ (On("SigInt") \/ upto = Len(hdrs)) BY <1>1, <1>4
<1>6. Matching(pattern, upto) \in SUBSET DOMAIN hdrs
  <2>1. 1 .. upto \subseteq DOMAIN hdrs BY <1>5, UpTo
  <2>2. Matching(pattern, upto) \subseteq 1 .. upto BY DEF Matching
  <2> QED BY <2>1, <2>2
<1>7. Cleared(upto) \in [Ids -> HEADER]
  <2>1. header \in [Ids -> HEADER] BY TypedParts DEF ListOK
  <2>2. \A m \in Ids : [header[m] EXCEPT !.virtual = 0] \in HEADER BY <2>1, VirtualIs
  <2> QED BY <2>1, <2>2 DEF Cleared
<1> QED BY <1>2, <1>3, <1>5, <1>6, <1>7

LEMMA LimitTyped ==
  ASSUME Typed, Limit, conf' = conf
  PROVE  Typed'
<1>1. PICK pattern \in SUBSET (1 .. conf.msgs), upto \in 0 .. Len(hdrs), limit \in BOOLEAN :
        \E v \in Ascending(Matching(pattern, upto)) :
             /\ v2r' = v /\ header' = Numbered(hdrs, v, Cleared(upto))
             /\ ctx' = [ctx EXCEPT !.limit = limit, !.pattern = pattern]
             /\ Matching(pattern, upto) \in SUBSET DOMAIN hdrs
             /\ Cleared(upto) \in [Ids -> HEADER]
  BY LimitIs
<1>2. PICK v \in Ascending(Matching(pattern, upto)) :
             /\ v2r' = v /\ header' = Numbered(hdrs, v, Cleared(upto))
             /\ ctx' = [ctx EXCEPT !.limit = limit, !.pattern = pattern]
             /\ Matching(pattern, upto) \in SUBSET DOMAIN hdrs
             /\ Cleared(upto) \in [Ids -> HEADER]
  BY <1>1
<1> DEFINE I == Matching(pattern, upto)
<1>3. hdrs \in Seq(Ids) /\ ctx \in CONTEXT /\ UNCHANGED <<hdrs, sort, store, pc>>
  BY TypedParts DEF ListOK, Limit
<1>4. I \subseteq Nat /\ v \in Seq(I) BY <1>2, <1>3, PositionsFinite, AscendingIs
<1>5. v2r' \in Seq(Nat) /\ \A k \in DOMAIN v2r' : v2r'[k] \in DOMAIN hdrs
  <2>1. v \in Seq(Nat) BY <1>4, SeqMonotonic
  <2>2. \A k \in DOMAIN v : v[k] \in I BY <1>4
  <2> HIDE DEF I
  <2> QED BY <1>2, <2>1, <2>2 DEF I
<1>6. header' \in [Ids -> HEADER] BY <1>2, <1>4, NumberedIs
<1>7. ctx' \in CONTEXT
  <2>1. pattern \in SUBSET Ids BY SettingIs DEF Ids, Typed
  <2> QED BY <1>2, <1>3, <2>1 DEF CONTEXT
<1>8. ListOK' BY <1>3, <1>5, <1>6 DEF ListOK
<1>9. PcOK' BY <1>3, TypedParts DEF PcOK, MsgWork, Msgs
<1>10. StoreOK' /\ sort' \in {"order", "reverse"} /\ conf' \in Settings BY <1>3, SameStore, TypedParts
<1> QED BY <1>7, <1>8, <1>9, <1>10 DEF Typed, TypeOK, ListOK, StoreOK, PcOK

LEMMA ResortTyped ==
  ASSUME Typed, Resort \/ mx_toggle_write, conf' = conf
  PROVE  Typed'
<1>1. /\ ctx \in CONTEXT /\ header \in [Ids -> HEADER] /\ PcOK /\ conf \in Settings
      /\ UNCHANGED <<store, pc>>
  BY TypedParts DEF ListOK, Resort, mx_toggle_write
<1>2. CASE Resort
  <2>1. ListOK' BY <1>1, <1>2, MsgsAreIds, SortTyped DEF Resort, Typed
  <2>2. Range(hdrs') = Msgs BY <1>1, <1>2, MsgsAreIds, SortRight DEF Resort, Typed
  <2>3. PcOK' BY <1>1, <2>2 DEF PcOK, MsgWork, Msgs
  <2>4. StoreOK' /\ sort' \in {"order", "reverse"} /\ ctx' \in CONTEXT
    BY <1>1, <1>2, SameStore DEF Resort
  <2> QED BY <1>1, <2>1, <2>3, <2>4 DEF Typed, TypeOK, ListOK, StoreOK, PcOK
<1>3. CASE mx_toggle_write
  <2>1. ctx' \in CONTEXT BY <1>1, <1>3 DEF mx_toggle_write, CONTEXT
  <2>2. pc' \in Pc /\ pc'.todo \in Seq(MsgWork) /\ pc'.at # "count" BY <1>1, <1>3 DEF PcOK, mx_toggle_write
  <2> QED BY <1>1, <1>3, <2>1, <2>2, SameListTyped, SameStore DEF mx_toggle_write
<1> QED BY <1>2, <1>3

\* StartWriting(): what it decides, and for which messages work is left.
WorkOf(todo) == {todo[i].m : i \in DOMAIN todo}
Writes(purge, closing) ==
  /\ ctx' = (IF purge THEN ctx ELSE [ctx EXCEPT !.deleted = 0]) /\ ctx' \in CONTEXT
  /\ header' = (IF purge THEN header ELSE Spared(header)) /\ header' \in [Ids -> HEADER]
  /\ pc' \in Pc /\ pc'.todo \in Seq(MsgWork) /\ pc'.purge = purge /\ pc'.closing = closing
  /\ pc'.at \in {"trash", "fastclose", "write"}
  /\ pc'.at = "trash" => purge /\ WorkOf(pc'.todo) = ForTrash
  /\ pc'.at = "fastclose" => ctx'.deleted = 0 /\ ~ctx'.changed
  /\ pc'.at = "write" /\ purge /\ On("trash") => ctx.deleted = 0 \/ ForTrash = {}
  /\ pc'.at # "trash" => pc'.todo = <<>>
  /\ UNCHANGED <<hdrs, v2r, sort, store>>

LEMMA InOrderOfMsgs ==
  ASSUME TypeOK, NEW S \in SUBSET Msgs, NEW T \in InOrder(S)
  PROVE  T \in Seq(Msgs) /\ Range(T) = S
<1>1. hdrs \in Seq(Ids) BY DEF TypeOK
<1>2. T \in Seq(Ids) /\ Range(T) = S BY <1>1, InOrderIs
<1>3. Len(T) \in Nat /\ DOMAIN T = 1 .. Len(T) /\ T = [i \in 1 .. Len(T) |-> T[i]] BY <1>2
<1>4. \A i \in DOMAIN T : T[i] \in Msgs BY <1>2 DEF Range
<1>5. T \in Seq(Msgs) BY <1>3, <1>4
<1> QED BY <1>2, <1>5

LEMMA SparedIs ==
  ASSUME Typed
  PROVE  /\ Spared(header) \in [Ids -> HEADER]
         /\ \A m \in Ids :
              /\ Spared(header)[m].virtual = header[m].virtual
              /\ Spared(header)[m].read = header[m].read /\ Spared(header)[m].old = header[m].old
              /\ Spared(header)[m].replied = header[m].replied
              /\ Spared(header)[m].flagged = header[m].flagged
              /\ Spared(header)[m].tagged = header[m].tagged
              /\ Spared(header)[m].changed = header[m].changed
         /\ \A m \in Msgs : ~Spared(header)[m].deleted
         /\ \A m \in Ids \ Msgs : Spared(header)[m] = header[m]
<1>1. header \in [Ids -> HEADER] /\ Msgs \subseteq Ids BY TypedParts, MsgsAreIds DEF ListOK, Typed
<1>2. ASSUME NEW h \in HEADER
      PROVE  LET g == [h EXCEPT !.deleted = FALSE, !.purge = FALSE]
             IN  /\ g \in HEADER /\ ~g.deleted
                 /\ g.virtual = h.virtual /\ g.read = h.read /\ g.old = h.old /\ g.replied = h.replied
                 /\ g.flagged = h.flagged /\ g.tagged = h.tagged /\ g.changed = h.changed
  BY DEF HEADER
<1>3. \A m \in Ids : Spared(header)[m] = IF m \in Msgs
                                          THEN [header[m] EXCEPT !.deleted = FALSE, !.purge = FALSE]
                                          ELSE header[m]
  BY DEF Spared
<1>4. Spared(header) = [m \in Ids |-> Spared(header)[m]] BY DEF Spared
<1>5. \A m \in Ids : Spared(header)[m] \in HEADER
  <2> TAKE m \in Ids
  <2>1. header[m] \in HEADER BY <1>1
  <2> QED BY <1>2, <1>3, <2>1
<1>6. Spared(header) \in [Ids -> HEADER] BY <1>4, <1>5
<1>7. ASSUME NEW m \in Ids
      PROVE  /\ Spared(header)[m].virtual = header[m].virtual
             /\ Spared(header)[m].read = header[m].read /\ Spared(header)[m].old = header[m].old
             /\ Spared(header)[m].replied = header[m].replied
             /\ Spared(header)[m].flagged = header[m].flagged
             /\ Spared(header)[m].tagged = header[m].tagged
             /\ Spared(header)[m].changed = header[m].changed
             /\ m \in Msgs => ~Spared(header)[m].deleted
             /\ m \notin Msgs => Spared(header)[m] = header[m]
  <2>1. header[m] \in HEADER BY <1>1
  <2> QED BY <1>2, <1>3, <2>1
<1> QED BY <1>1, <1>6, <1>7

LEMMA WritingIs ==
  ASSUME Typed, NEW purge \in BOOLEAN, NEW closing \in BOOLEAN, StartWriting(purge, closing)
  PROVE  Writes(purge, closing)
<1>1. PICK T \in InOrder(ForTrash) :
    LET c == IF purge THEN ctx ELSE [ctx EXCEPT !.deleted = 0]
        next == IF purge /\ ctx.deleted # 0 /\ On("trash") /\ T # <<>> THEN "trash"
                ELSE IF closing /\ ~c.changed /\ c.deleted = 0 THEN "fastclose"
                ELSE "write"
    IN /\ ctx' = c
       /\ header' = IF purge THEN header ELSE Spared(header)
       /\ pc' = [At(next) EXCEPT !.todo = IF next = "trash" THEN Pass(T, "DELETE", TRUE) ELSE <<>>,
                                 !.purge = purge, !.closing = closing]
       /\ UNCHANGED <<hdrs, v2r, sort, store>>
  BY DEF StartWriting
<1> DEFINE c == IF purge THEN ctx ELSE [ctx EXCEPT !.deleted = 0]
           next == IF purge /\ ctx.deleted # 0 /\ On("trash") /\ T # <<>> THEN "trash"
                   ELSE IF closing /\ ~c.changed /\ c.deleted = 0 THEN "fastclose"
                   ELSE "write"
           todo == IF next = "trash" THEN Pass(T, "DELETE", TRUE) ELSE <<>>
<1>2. /\ ctx' = c /\ header' = IF purge THEN header ELSE Spared(header)
      /\ pc' = [At(next) EXCEPT !.todo = todo, !.purge = purge, !.closing = closing]
      /\ UNCHANGED <<hdrs, v2r, sort, store>>
  BY <1>1
<1>3. ctx \in CONTEXT /\ header \in [Ids -> HEADER] /\ TypeOK BY TypedParts DEF ListOK, Typed
<1>4. c \in CONTEXT BY <1>3 DEF CONTEXT
<1>5. ForTrash \in SUBSET Msgs /\ T \in Seq(Msgs) /\ Range(T) = ForTrash
  <2>1. ForTrash \in SUBSET Msgs BY DEF ForTrash
  <2> QED BY <1>3, <2>1, InOrderOfMsgs
<1>6. header' \in [Ids -> HEADER] BY <1>2, <1>3, SparedIs
<1>7. /\ next = "trash" => purge
      /\ next = "fastclose" => c.deleted = 0 /\ ~c.changed
      /\ next = "write" /\ purge /\ On("trash") => ctx.deleted = 0 \/ T = <<>>
      /\ next \in {"trash", "fastclose", "write"}
  OBVIOUS
<1> HIDE DEF c, next
<1>8. T = <<>> => ForTrash = {} BY <1>5 DEF Range
<1>9. todo \in Seq(MsgWork) /\ (next = "trash" => WorkOf(todo) = ForTrash) /\ (next # "trash" => todo = <<>>)
  <2>1. "DELETE" \in Flags /\ <<>> \in Seq(MsgWork) BY EmptySeq DEF Flags
  <2>2. /\ Pass(T, "DELETE", TRUE) \in Seq(MsgWork)
        /\ WorkOf(Pass(T, "DELETE", TRUE)) = Range(T)
    BY <1>3, <1>5, <2>1, PassIs DEF WorkOf
  <2> QED BY <1>5, <2>1, <2>2
<1> HIDE DEF todo
<1>10. /\ pc' \in Pc /\ pc'.todo = todo /\ pc'.purge = purge /\ pc'.closing = closing /\ pc'.at = next
  <2>1. todo \in Seq(Work) BY <1>9, SeqMonotonic DEF MsgWork
  <2>2. next \in Places BY <1>7 DEF Places
  <2>3. At(next) \in Pc /\ At(next).at = next BY <2>2, AtIs
  <2> QED BY <1>2, <2>1, <2>3 DEF Pc
<1>11. ctx' = (IF purge THEN ctx ELSE [ctx EXCEPT !.deleted = 0]) BY <1>2 DEF c
<1> QED BY <1>2, <1>4, <1>6, <1>7, <1>8, <1>9, <1>10, <1>11 DEF Writes

LEMMA WritingTyped ==
  ASSUME Typed, NEW purge \in BOOLEAN, NEW closing \in BOOLEAN, StartWriting(purge, closing),
         conf' = conf
  PROVE  Typed'
<1>1. Writes(purge, closing) BY WritingIs
<1> QED BY <1>1, SameListTyped, SameStore DEF Writes

LEMMA AnswersIs == Answers \subseteq BOOLEAN
<1> DEFINE a == ctx.deleted = 0 \/ ~On("delete_no")
<1>1. a \in BOOLEAN OBVIOUS
<1>2. \A p \in Answers : p = TRUE \/ p = a BY DEF Answers
<1> HIDE DEF a
<1> QED BY <1>1, <1>2

LEMMA WorkListTyped ==
  ASSUME Typed, NEW S \in SUBSET Msgs, NEW T \in InOrder(S), NEW flag \in Flags
  PROVE  /\ Pass(T, flag, TRUE) \in Seq(MsgWork) /\ Pass(T, flag, TRUE) \in Seq(Work)
         /\ WorkOf(Pass(T, flag, TRUE)) = S
<1>1. T \in Seq(Msgs) /\ Range(T) = S BY InOrderOfMsgs DEF Typed
<1>2. Pass(T, flag, TRUE) \in Seq(MsgWork) BY <1>1, PassIs DEF Typed
<1>3. WorkOf(Pass(T, flag, TRUE)) = S BY <1>1, PassIs DEF Typed, WorkOf
<1>4. MsgWork \subseteq Work BY DEF MsgWork
<1> QED BY <1>2, <1>3, <1>4, SeqMonotonic

\* mx_sync_mailbox() and mx_close_mailbox() decide to write.
StartsWriting == mx_sync_mailbox \/ CloseChanged \/ Moved
LEMMA StartsWritingIs ==
  ASSUME Typed, StartsWriting
  PROVE  \E purge \in BOOLEAN, closing \in BOOLEAN :
           /\ StartWriting(purge, closing)
           /\ pc.at = "index" => ~ctx.dontwrite /\ ~closing /\ (purge \/ ctx.changed)
           /\ ~purge /\ pc.at = "index" => On("delete_no")
           /\ purge \/ pc.at \in {"index", "close", "move"}
           /\ pc.at \in {"index", "close", "move"}
<1>1. pc.purge \in BOOLEAN BY TypedParts DEF PcOK, Pc
<1>2. CASE mx_sync_mailbox
  <2>1. PICK purge \in Answers : (purge \/ ctx.changed) /\ StartWriting(purge, FALSE)
    BY <1>2 DEF mx_sync_mailbox
  <2>2. ~purge => On("delete_no") BY DEF Answers
  <2>3. purge \in BOOLEAN BY AnswersIs
  <2> QED BY <1>2, <2>1, <2>2, <2>3 DEF mx_sync_mailbox
<1>3. CASE CloseChanged BY <1>1, <1>3 DEF CloseChanged
<1>4. CASE Moved BY <1>1, <1>4 DEF Moved
<1> QED BY <1>2, <1>3, <1>4 DEF StartsWriting

LEMMA StartsTyped ==
  ASSUME Typed, StartsWriting, conf' = conf
  PROVE  Typed'
  BY StartsWritingIs, WritingTyped

\* mx_close_mailbox() up to the questions, and the $mark_old loop that is left.
LEMMA CloseIs ==
  ASSUME Typed, mx_close_mailbox
  PROVE  /\ pc' \in Pc /\ pc'.todo \in Seq(MsgWork) /\ pc'.at \in {"fastclose", "apply"}
         /\ pc'.at = "fastclose" => ctx.dontwrite /\ pc'.todo = <<>>
         /\ pc.at = "index" /\ UNCHANGED <<ctx, hdrs, v2r, header, sort, store>>
<1>1. CASE ctx.dontwrite BY <1>1, AtIs DEF mx_close_mailbox, Places
<1>2. CASE ~ctx.dontwrite
  <2> DEFINE S == {m \in Msgs : On("mark_old") /\ ~header[m].deleted
                                  /\ ~header[m].old /\ ~header[m].read}
             b == ReadMsgs # {} /\ On("move")
  <2>1. PICK move \in {FALSE} \cup {b}, purge \in Answers, T \in InOrder(S) :
              pc' = [At("apply") EXCEPT !.todo = Pass(T, "OLD", TRUE), !.then = "close",
                                        !.purge = purge, !.move = move, !.closing = TRUE]
    BY <1>2 DEF mx_close_mailbox
  <2>2. move \in BOOLEAN
    <3>1. b \in BOOLEAN /\ (move = FALSE \/ move = b) OBVIOUS
    <3> HIDE DEF b
    <3> QED BY <3>1
  <2>3. purge \in BOOLEAN BY AnswersIs
  <2>4. S \in SUBSET Msgs OBVIOUS
  <2>5. Pass(T, "OLD", TRUE) \in Seq(MsgWork) /\ Pass(T, "OLD", TRUE) \in Seq(Work)
    BY <2>4, WorkListTyped DEF Flags
  <2>6. At("apply") \in Pc /\ At("apply").at = "apply" BY AtIs DEF Places
  <2> HIDE DEF S, b
  <2>7. pc' \in Pc /\ pc'.todo \in Seq(MsgWork) /\ pc'.at = "apply"
    BY <2>1, <2>2, <2>3, <2>5, <2>6 DEF Pc
  <2> QED BY <2>7 DEF mx_close_mailbox
<1> QED BY <1>1, <1>2

LEMMA CloseMoveIs ==
  ASSUME Typed, CloseMove
  PROVE  /\ pc' \in Pc /\ pc'.todo \in Seq(MsgWork) /\ pc'.at = "move" /\ WorkOf(pc'.todo) = ReadMsgs
         /\ pc.at = "close" /\ UNCHANGED <<ctx, hdrs, v2r, header, sort, store>>
<1>1. PICK T \in InOrder(ReadMsgs) :
        pc' = [pc EXCEPT !.at = "move", !.todo = Pass(T, "DELETE", TRUE)]
  BY DEF CloseMove
<1>2. ReadMsgs \in SUBSET Msgs BY DEF ReadMsgs
<1>3. /\ Pass(T, "DELETE", TRUE) \in Seq(MsgWork) /\ Pass(T, "DELETE", TRUE) \in Seq(Work)
      /\ WorkOf(Pass(T, "DELETE", TRUE)) = ReadMsgs
  BY <1>2, WorkListTyped DEF Flags
<1>4. pc \in Pc /\ "move" \in Places BY TypedParts DEF PcOK, Places
<1>5. pc' \in Pc /\ pc'.todo = Pass(T, "DELETE", TRUE) /\ pc'.at = "move" BY <1>1, <1>3, <1>4 DEF Pc
<1> QED BY <1>3, <1>5 DEF CloseMove

LEMMA CloseTyped ==
  ASSUME Typed, mx_close_mailbox \/ CloseMove \/ CloseUnchanged, conf' = conf
  PROVE  Typed'
<1>1. /\ pc' \in Pc /\ pc'.todo \in Seq(MsgWork) /\ pc'.at # "count"
      /\ UNCHANGED <<ctx, hdrs, v2r, header, sort, store>>
  <2>1. CASE mx_close_mailbox BY <2>1, CloseIs
  <2>2. CASE CloseMove BY <2>2, CloseMoveIs
  <2>3. CASE CloseUnchanged BY <2>3, AtIs DEF CloseUnchanged, Places
  <2> QED BY <2>1, <2>2, <2>3
<1>2. ctx' \in CONTEXT /\ header' \in [Ids -> HEADER] BY <1>1, TypedParts DEF ListOK
<1> QED BY <1>1, <1>2, SameListTyped, SameStore

\* A message that $move has copied is marked for deletion, if it is not protected.
LEMMA DeletedIs ==
  ASSUME NEW c, NEW h \in HEADER
  PROVE  /\ set_delete(c, h, TRUE, TRUE).h.deleted \/ (h.flagged /\ On("flag_safe"))
         /\ set_delete(c, h, TRUE, TRUE).h.flagged = h.flagged
<1>1. h.deleted \in BOOLEAN BY DEF HEADER
<1>2. CASE h.deleted
  <2>1. set_delete(c, h, TRUE, TRUE).h = h BY <1>2 DEF set_delete, Same
  <2> QED BY <1>2, <2>1
<1>4. CASE ~h.deleted /\ h.flagged /\ On("flag_safe")
  <2>1. set_delete(c, h, TRUE, TRUE).h = h BY <1>4 DEF set_delete, Same
  <2> QED BY <1>4, <2>1
<1>3. CASE ~h.deleted /\ ~(h.flagged /\ On("flag_safe"))
  <2>1. set_delete(c, h, TRUE, TRUE).h = [h EXCEPT !.deleted = TRUE] BY <1>3 DEF set_delete
  <2>2. [h EXCEPT !.deleted = TRUE].deleted = TRUE
        /\ [h EXCEPT !.deleted = TRUE].flagged = h.flagged BY DEF HEADER
  <2> QED BY <2>1, <2>2
<1> QED BY <1>1, <1>2, <1>3, <1>4

LEMMA PurgedIs ==
  ASSUME NEW c, NEW h \in HEADER
  PROVE  /\ Same(c, [h EXCEPT !.purge = TRUE]).h.deleted = h.deleted
         /\ Same(c, [h EXCEPT !.purge = TRUE]).h.flagged = h.flagged
  BY DEF Same, HEADER

LEMMA MarkedIs ==
  ASSUME NEW c \in CONTEXT, NEW h \in HEADER
  PROVE  LET d == mutt_set_flag(c, h, "DELETE", TRUE, TRUE)
             p == mutt_set_flag(d.c, d.h, "PURGE", TRUE, TRUE)
         IN  /\ SetRight(c, h, p, TRUE)
             /\ p.h.deleted \/ (h.flagged /\ On("flag_safe"))
             /\ p.h.flagged = h.flagged
<1> DEFINE d == mutt_set_flag(c, h, "DELETE", TRUE, TRUE)
           p == mutt_set_flag(d.c, d.h, "PURGE", TRUE, TRUE)
<1>1. SetRight(c, h, d, TRUE) BY SetFlagRight DEF Flags
<1>2. d = set_delete(c, h, TRUE, TRUE) BY DEF mutt_set_flag
<1>3. (d.h.deleted \/ (h.flagged /\ On("flag_safe"))) /\ d.h.flagged = h.flagged BY <1>2, DeletedIs
<1> HIDE DEF d
<1>4. d.c \in CONTEXT /\ d.h \in HEADER BY <1>1 DEF SetRight
<1>5. p = Same(d.c, [d.h EXCEPT !.purge = TRUE]) BY DEF mutt_set_flag
<1>6. SetRight(d.c, d.h, p, TRUE) BY <1>4, SetFlagRight DEF Flags
<1>7. /\ Same(d.c, [d.h EXCEPT !.purge = TRUE]).h.deleted = d.h.deleted
      /\ Same(d.c, [d.h EXCEPT !.purge = TRUE]).h.flagged = d.h.flagged
  BY <1>4, PurgedIs
<1> HIDE DEF p
<1>8. p.h.deleted = d.h.deleted /\ p.h.flagged = d.h.flagged BY <1>5, <1>7
<1>9. SetRight(c, h, p, TRUE) BY <1>1, <1>6, RightTwice
<1> QED BY <1>3, <1>8, <1>9 DEF p, d

\* One message is appended to $mbox, or the append fails.
Saves(m, r) ==
  /\ m \in Msgs /\ m = Head(pc.todo).m /\ SetRight(ctx, header[m], r, TRUE)
  /\ r.h.deleted \/ (header[m].flagged /\ On("flag_safe"))
  /\ r.h.flagged = header[m].flagged
  /\ saved' = [saved EXCEPT ![m] = @ + 1]
  /\ ctx' = r.c /\ header' = [header EXCEPT ![m] = r.h]
  /\ pc' = [pc EXCEPT !.todo = Tail(@)]
Breaks ==
  /\ pc' = At("index") /\ UNCHANGED <<ctx, header, saved, disk, trash>>

LEMMA AppendIs ==
  ASSUME Typed, AppendToMbox
  PROVE  /\ pc.at = "move" /\ pc.todo # <<>> /\ Head(pc.todo) \in MsgWork
         /\ (\E m, r : Saves(m, r)) \/ Breaks
         /\ UNCHANGED <<hdrs, v2r, sort, disk, trash, arrived>>
<1> DEFINE m == Head(pc.todo).m
           d == mutt_set_flag(ctx, header[m], "DELETE", TRUE, TRUE)
           p == mutt_set_flag(d.c, d.h, "PURGE", TRUE, TRUE)
<1>1. Head(pc.todo) \in MsgWork BY TypedParts, PcTail DEF AppendToMbox
<1>2. m \in Msgs /\ ctx \in CONTEXT /\ header[m] \in HEADER BY <1>1, WorkIs
<1>3. SetRight(ctx, header[m], p, TRUE) /\ (p.h.deleted \/ (header[m].flagged /\ On("flag_safe")))
      /\ p.h.flagged = header[m].flagged
  BY <1>2, MarkedIs
<1>4. \/ /\ saved' = [saved EXCEPT ![m] = @ + 1]
         /\ ctx' = p.c /\ header' = [header EXCEPT ![m] = p.h]
         /\ pc' = [pc EXCEPT !.todo = Tail(@)]
      \/ Aborted /\ UNCHANGED <<ctx, header, saved>>
  BY DEF AppendToMbox
<1> HIDE DEF p
<1>5. Saves(m, p) \/ Breaks
  BY <1>2, <1>3, <1>4 DEF Saves, Breaks, Aborted, AppendToMbox
<1>6. (\E x, r : Saves(x, r)) \/ Breaks BY <1>5
<1> QED BY <1>1, <1>6 DEF AppendToMbox

LEMMA AppendTyped ==
  ASSUME Typed, AppendToMbox \/ trash_append \/ Trashed, conf' = conf
  PROVE  Typed'
<1>1. /\ ctx \in CONTEXT /\ header \in [Ids -> HEADER] /\ PcOK /\ saved \in [Ids -> Nat]
      /\ trash \in [Ids -> Nat] /\ arrived \in 0 .. conf.msgs
      /\ DOMAIN disk \subseteq Ids /\ \A m \in DOMAIN disk : disk[m] \in Stored
  BY TypedParts DEF ListOK, StoreOK
<1>2. CASE AppendToMbox
  <2>1. CASE \E m, r : Saves(m, r)
    <3>1. PICK m, r : Saves(m, r) BY <2>1
    <3>2. m \in Ids BY <3>1, MsgsAreIds DEF Saves, Typed
    <3>3. ctx' \in CONTEXT /\ header' \in [Ids -> HEADER] BY <3>1, <3>2, SetTyped DEF Saves
    <3>4. saved' \in [Ids -> Nat] BY <1>1, <3>1, <3>2 DEF Saves
    <3>5. StoreOK' BY <1>1, <1>2, <3>4 DEF StoreOK, AppendToMbox
    <3>6. pc' \in Pc /\ pc'.todo \in Seq(MsgWork) /\ pc'.at = "move"
      BY <1>1, <1>2, <3>1, PcTail DEF Saves, AppendToMbox
    <3> QED BY <1>2, <3>3, <3>5, <3>6, SameListTyped DEF AppendToMbox
  <2>2. CASE Breaks
    <3>1. pc' \in Pc /\ pc'.todo \in Seq(MsgWork) /\ pc'.at = "index" BY <2>2, AtIs DEF Breaks, Places
    <3>2. StoreOK' BY <1>1, <1>2, <2>2 DEF StoreOK, Breaks, AppendToMbox
    <3> QED BY <1>1, <1>2, <2>2, <3>1, <3>2, SameListTyped DEF Breaks, AppendToMbox
  <2> QED BY <1>2, <2>1, <2>2, AppendIs
<1>3. CASE trash_append
  <2>1. pc' \in Pc /\ pc'.todo \in Seq(MsgWork) /\ pc'.at # "count"
    <3>1. CASE pc' = [pc EXCEPT !.todo = Tail(@)] BY <1>1, <1>3, <3>1, PcTail DEF trash_append
    <3>2. CASE pc' = At("index") BY <3>2, AtIs DEF Places
    <3> QED BY <1>3, <3>1, <3>2 DEF trash_append, Aborted
  <2>2. trash' \in [Ids -> Nat]
    <3>1. Head(pc.todo).m \in Ids BY <1>1, <1>3, PcTail, WorkIs DEF trash_append
    <3>2. trash' = trash \/ trash' = [trash EXCEPT ![Head(pc.todo).m] = @ + 1]
      BY <1>3 DEF trash_append
    <3> QED BY <1>1, <3>1, <3>2
  <2>3. StoreOK' BY <1>1, <1>3, <2>2 DEF StoreOK, trash_append
  <2> QED BY <1>1, <1>3, <2>1, <2>3, SameListTyped DEF trash_append
<1>4. CASE Trashed
  <2>1. pc' \in Pc /\ pc'.todo \in Seq(MsgWork) /\ pc'.at # "count"
    BY <1>1, <1>4, PcNext DEF Trashed, PcOK, Places
  <2> QED BY <1>1, <1>4, <2>1, SameListTyped, SameStore DEF Trashed
<1> QED BY <1>2, <1>3, <1>4

\* mx_update_tables(): what stays, and its headers.
Kept == {m \in Msgs : ~header[m].deleted}
KeptHeaders ==
  [m \in Ids |-> IF m \in Kept THEN [header[m] EXCEPT !.changed = FALSE] ELSE NoHeader]
Commits ==
  /\ mutt_sort_headers(Kept, sort, KeptHeaders)
  /\ Kept \in SUBSET Ids /\ KeptHeaders \in [Ids -> HEADER]
  /\ \A m \in Kept :
       LET g == KeptHeaders[m]
       IN  /\ ~g.changed /\ g.read = header[m].read /\ g.old = header[m].old
           /\ g.replied = header[m].replied /\ g.flagged = header[m].flagged
           /\ g.tagged = header[m].tagged /\ g.virtual = header[m].virtual /\ ~g.deleted
  /\ ctx' \in CONTEXT
  /\ ctx'.limit = ctx.limit /\ ctx'.pattern = ctx.pattern /\ ctx'.dontwrite = ctx.dontwrite
  /\ ctx'.tagged = Cardinality({m \in Kept : header[m].tagged})
  /\ ctx'.flagged = Cardinality({m \in Kept : header[m].flagged})
  /\ ctx'.unread = Cardinality({m \in Kept : ~header[m].read})
  /\ ctx'.new = Cardinality({m \in Kept : ~header[m].read /\ ~header[m].old})
  /\ ctx'.deleted = 0 /\ ~ctx'.changed
  /\ pc' = At("index")

Tables(c, t, f, u, n, S) ==
  [c EXCEPT !.tagged = t, !.flagged = f, !.unread = u, !.new = n,
            !.deleted = 0, !.changed = FALSE, !.id_hash = S]

LEMMA TablesIs ==
  ASSUME NEW c \in CONTEXT, NEW t \in Int, NEW f \in Int, NEW u \in Int, NEW n \in Int,
         NEW S \in SUBSET Ids
  PROVE  LET d == Tables(c, t, f, u, n, S)
         IN  /\ d \in CONTEXT /\ d.limit = c.limit /\ d.pattern = c.pattern
             /\ d.dontwrite = c.dontwrite /\ d.tagged = t /\ d.flagged = f /\ d.unread = u
             /\ d.new = n /\ d.deleted = 0 /\ ~d.changed
<1> DEFINE d == [c EXCEPT !.tagged = t, !.flagged = f, !.unread = u, !.new = n,
                            !.deleted = 0, !.changed = FALSE, !.id_hash = S]
<1>1. d \in CONTEXT
  <2>1. ASSUME NEW e \in CONTEXT
        PROVE  [e EXCEPT !.deleted = 0, !.changed = FALSE, !.id_hash = S] \in CONTEXT
    <3>1. ASSUME NEW b \in BOOLEAN, NEW z \in Int
          PROVE  [e EXCEPT !.deleted = z, !.changed = b, !.id_hash = S] \in CONTEXT
      BY DEF CONTEXT
    <3>2. FALSE \in BOOLEAN /\ 0 \in Int OBVIOUS
    <3> QED BY <3>1, <3>2
  <2>2. ASSUME NEW e \in CONTEXT
        PROVE  [e EXCEPT !.tagged = t, !.flagged = f, !.unread = u, !.new = n] \in CONTEXT
    BY DEF CONTEXT
  <2>3. d = [[c EXCEPT !.tagged = t, !.flagged = f, !.unread = u, !.new = n]
               EXCEPT !.deleted = 0, !.changed = FALSE, !.id_hash = S]
    BY DEF CONTEXT
  <2> HIDE DEF d
  <2> QED BY <2>1, <2>2, <2>3
<1>2. d.limit = c.limit /\ d.pattern = c.pattern /\ d.dontwrite = c.dontwrite BY DEF CONTEXT
<1>3. d.tagged = t /\ d.flagged = f BY DEF CONTEXT
<1>4. d.unread = u /\ d.new = n BY DEF CONTEXT
<1>5. d.deleted = 0 /\ ~d.changed BY DEF CONTEXT
<1> QED BY <1>1, <1>2, <1>3, <1>4, <1>5 DEF Tables

LEMMA CommittedIs ==
  ASSUME Typed, Committed
  PROVE  Commits
<1> DEFINE t == Cardinality({m \in Kept : header[m].tagged})
           f == Cardinality({m \in Kept : header[m].flagged})
           u == Cardinality({m \in Kept : ~header[m].read})
           n == Cardinality({m \in Kept : ~header[m].read /\ ~header[m].old})
           S == ctx.id_hash \cap Kept
<1>1. ctx \in CONTEXT /\ header \in [Ids -> HEADER] /\ Msgs \in SUBSET Ids
  BY TypedParts, MsgsAreIds DEF ListOK, Typed
<1>2. Kept \in SUBSET Ids BY <1>1 DEF Kept
<1>3. ctx' = [ctx EXCEPT !.tagged = t, !.flagged = f, !.unread = u, !.new = n,
                         !.deleted = 0, !.changed = FALSE, !.id_hash = S]
  BY DEF Committed, Kept
<1>4. mutt_sort_headers(Kept, sort, KeptHeaders) /\ pc' = At("index")
  BY DEF Committed, Kept, KeptHeaders
<1>5. t \in Int /\ f \in Int /\ u \in Int /\ n \in Int
  <2>1. \A T \in SUBSET Kept : Cardinality(T) \in Int BY <1>2, IdsFinite
  <2> QED BY <2>1
<1>6. S \in SUBSET Ids BY <1>2
<1> HIDE DEF t, f, u, n, S
<1>7. /\ ctx' \in CONTEXT
      /\ ctx'.limit = ctx.limit /\ ctx'.pattern = ctx.pattern /\ ctx'.dontwrite = ctx.dontwrite
      /\ ctx'.tagged = t /\ ctx'.flagged = f /\ ctx'.unread = u /\ ctx'.new = n
      /\ ctx'.deleted = 0 /\ ~ctx'.changed
  <2>1. ctx' = Tables(ctx, t, f, u, n, S) BY <1>3 DEF Tables
  <2> QED BY <1>1, <1>5, <1>6, <2>1, TablesIs
<1>8. ASSUME NEW h \in HEADER, ~h.deleted
      PROVE  LET g == [h EXCEPT !.changed = FALSE]
             IN  /\ g \in HEADER /\ ~g.changed /\ g.read = h.read /\ g.old = h.old
                 /\ g.replied = h.replied /\ g.flagged = h.flagged
                 /\ g.tagged = h.tagged /\ g.virtual = h.virtual /\ ~g.deleted
  BY <1>8 DEF HEADER
<1>9. /\ \A m \in Kept : header[m] \in HEADER /\ ~header[m].deleted
                         /\ KeptHeaders[m] = [header[m] EXCEPT !.changed = FALSE]
      /\ \A m \in Ids \ Kept : KeptHeaders[m] = NoHeader
      /\ KeptHeaders = [m \in Ids |-> KeptHeaders[m]]
  BY <1>1, <1>2 DEF Kept, KeptHeaders
<1>10. NoHeader \in HEADER BY NewHeaderIs DEF NoHeader
<1>11. \A m \in Ids : KeptHeaders[m] \in HEADER BY <1>8, <1>9, <1>10
<1>12. KeptHeaders \in [Ids -> HEADER] BY <1>9, <1>11
<1>13. \A m \in Kept :
       LET g == KeptHeaders[m]
       IN  /\ ~g.changed /\ g.read = header[m].read /\ g.old = header[m].old
           /\ g.replied = header[m].replied /\ g.flagged = header[m].flagged
           /\ g.tagged = header[m].tagged /\ g.virtual = header[m].virtual /\ ~g.deleted
  <2> TAKE m \in Kept
  <2>1. header[m] \in HEADER /\ ~header[m].deleted
        /\ KeptHeaders[m] = [header[m] EXCEPT !.changed = FALSE]
    BY <1>9
  <2> QED BY <1>8, <2>1
<1> QED BY <1>2, <1>4, <1>7, <1>12, <1>13 DEF Commits, t, f, u, n

LEMMA CommittedTyped ==
  ASSUME Typed, Committed, conf' = conf, sort' = sort, StoreOK'
  PROVE  Typed'
<1>1. Commits BY CommittedIs
<1>2. ListOK' BY <1>1, SortTyped DEF Commits
<1>3. pc' \in Pc /\ pc'.todo = <<>> /\ pc'.at = "index" BY <1>1, AtIs DEF Commits, Places
<1> QED BY <1>1, <1>2, <1>3, NewListTyped, TypedParts DEF Commits

\* mbox_sync_mailbox(): it finds new mail, with hdrs in the order of the file.
MboxFinds(hd, hmap, bail) ==
  /\ ReadNewMail(hd, hmap, bail)
  /\ hd \in Seq(Ids) /\ IsInjective(hd) /\ Range(hd) = Msgs /\ hmap \in [Ids -> HEADER]
  /\ \A m \in Ids : SameFlags(hmap[m], header[m])
  /\ v2r' \in Seq(Nat) /\ \A k \in DOMAIN v2r' : v2r'[k] \in DOMAIN hd
  /\ \A m \in Msgs : hmap[m].virtual # 0 <=> header[m].virtual # 0
  /\ sort = "order" => hd = hdrs /\ hmap = header /\ ~bail /\ v2r' = v2r
  /\ sort # "order" => bail /\ Inverts(hd, v2r', hmap)

LEMMA MboxNewMailIs ==
  ASSUME Typed, MboxNewMail, IsInjective(hdrs)
  PROVE  \E hd, hmap, bail : MboxFinds(hd, hmap, bail) /\ bail \in BOOLEAN
<1>1. /\ hdrs \in Seq(Ids) /\ header \in [Ids -> HEADER] /\ Msgs \in SUBSET Ids
      /\ v2r \in Seq(Nat) /\ \A k \in DOMAIN v2r : v2r[k] \in DOMAIN hdrs
  BY TypedParts, MsgsAreIds DEF ListOK, Typed
<1>2. CASE sort = "order"
  <2>1. ReadNewMail(hdrs, header, FALSE) /\ v2r' = v2r BY <1>2 DEF MboxNewMail
  <2>2. MboxFinds(hdrs, header, FALSE) BY <1>1, <1>2, <2>1 DEF MboxFinds, SameFlags, Msgs
  <2> QED BY <2>2
<1>3. CASE sort # "order"
  <2>1. PICK hd \in SortedBy(Msgs, "order") : \E v \in Ascending(InView(hd, header)) :
          ReadNewMail(hd, Numbered(hd, v, header), TRUE) /\ v2r' = v
    BY <1>3 DEF MboxNewMail
  <2>2. PICK v \in Ascending(InView(hd, header)) :
          ReadNewMail(hd, Numbered(hd, v, header), TRUE) /\ v2r' = v
    BY <2>1
  <2>3. hd \in Seq(Msgs) /\ Range(hd) = Msgs /\ IsInjective(hd) BY <1>1, <2>1, IdsFinite, SortedIs
  <2>4. hd \in Seq(Ids) BY <1>1, <2>3, SeqMonotonic
  <2> DEFINE I == InView(hd, header)
             hmap == Numbered(hd, v, header)
  <2>5. /\ I \in SUBSET DOMAIN hd
        /\ \A i \in DOMAIN hd : i \in I <=> header[hd[i]].virtual # 0
    BY DEF InView
  <2>6. v \in Seq(I) /\ I \subseteq Nat BY <2>2, <2>4, <2>5, PositionsFinite, AscendingIs
  <2>7. hmap \in [Ids -> HEADER] /\ \A m \in Ids : SameFlags(hmap[m], header[m])
    BY <1>1, <2>6, NumberedIs
  <2> HIDE DEF I
  <2>8. /\ Inverts(hd, v, hmap)
        /\ \A i \in DOMAIN hd : hmap[hd[i]].virtual # 0 <=> i \in I
    BY <1>1, <2>2, <2>3, <2>4, <2>5, NumberedInverse DEF I
  <2>9. ReadNewMail(hd, hmap, TRUE) BY <2>2
  <2> HIDE DEF hmap
  <2>10. ASSUME NEW m \in Msgs PROVE hmap[m].virtual # 0 <=> header[m].virtual # 0
    <3>1. PICK i \in DOMAIN hd : hd[i] = m BY <2>3 DEF Range
    <3> QED BY <2>5, <2>8, <3>1
  <2>11. v2r' \in Seq(Nat) /\ \A k \in DOMAIN v2r' : v2r'[k] \in DOMAIN hd
    BY <2>2, <2>8 DEF Inverts
  <2>12. MboxFinds(hd, hmap, TRUE)
    BY <1>3, <2>2, <2>3, <2>4, <2>7, <2>8, <2>9, <2>10, <2>11 DEF MboxFinds
  <2> QED BY <2>12
<1> QED BY <1>2, <1>3

\* It gives up, or it writes the messages from first on.
WritesMbox(first) ==
  /\ pc.at = "write" /\ conf.magic = "MUTT_MBOX" /\ first \in Msgs
  /\ \A m \in Msgs : Touched(m) => first <= m
  /\ DOMAIN disk' = Kept
  /\ \A m \in Kept : disk'[m] = IF m >= first THEN Written(header[m]) ELSE disk[m]
  /\ \/ (pc.closing \/ Cardinality(Msgs) = ctx.deleted) /\ pc' = At("fastclose")
        /\ UNCHANGED <<ctx, hdrs, v2r, header>>
     \/ ~pc.closing /\ Committed
  /\ UNCHANGED <<sort, saved, trash, arrived>>

LEMMA MboxWriteIs ==
  ASSUME Typed, MboxWrite
  PROVE  \E first : WritesMbox(first)
<1>1. PICK first \in Msgs :
       /\ Touched(first) /\ \A m \in Msgs : Touched(m) => first <= m
       /\ disk' = [m \in {k \in Msgs : ~header[k].deleted} |->
                     IF m \in Rewritten(first) THEN Written(header[m]) ELSE disk[m]]
  BY DEF MboxWrite
<1>2. disk' = [m \in Kept |-> IF m \in Rewritten(first) THEN Written(header[m]) ELSE disk[m]]
  BY <1>1 DEF Kept
<1>3. \A m \in Kept : m \in Rewritten(first) <=> m >= first BY DEF Rewritten, Kept
<1>4. DOMAIN disk' = Kept
      /\ \A m \in Kept : disk'[m] = IF m >= first THEN Written(header[m]) ELSE disk[m]
  BY <1>2, <1>3
<1>5. WritesMbox(first) BY <1>1, <1>4 DEF WritesMbox, MboxWrite
<1> QED BY <1>5

LEMMA MboxTyped ==
  ASSUME Typed, IsInjective(hdrs), MboxSync, conf' = conf,
         pc.at = "write" /\ conf.magic = "MUTT_MBOX" => DOMAIN disk = Msgs
  PROVE  Typed'
<1>1. /\ ctx \in CONTEXT /\ header \in [Ids -> HEADER] /\ PcOK /\ Msgs \in SUBSET Ids /\ ListOK
      /\ sort \in {"order", "reverse"} /\ {saved, trash} \subseteq [Ids -> Nat]
      /\ arrived \in 0 .. conf.msgs /\ \A m \in DOMAIN disk : disk[m] \in Stored
  BY TypedParts, MsgsAreIds DEF ListOK, StoreOK, Typed
<1>2. CASE MboxGivesUp
  <2>1. ListOK'
    <3>1. CASE UNCHANGED <<hdrs, v2r, header>> BY <1>1, <3>1 DEF ListOK
    <3>2. CASE mutt_sort_headers(Msgs, sort, header) BY <1>1, <3>2, SortTyped
    <3> QED BY <1>2, <3>1, <3>2 DEF MboxGivesUp
  <2>2. pc' \in Pc /\ pc'.todo = <<>> /\ pc'.at = "index" BY <1>2, AtIs DEF MboxGivesUp, Places
  <2> QED BY <1>1, <1>2, <2>1, <2>2, NewListTyped, SameStore DEF MboxGivesUp
<1>3. CASE MboxNewMail
  <2>1. PICK hd, hmap, bail : MboxFinds(hd, hmap, bail) /\ bail \in BOOLEAN BY <1>3, MboxNewMailIs
  <2> QED BY <2>1, NewMailTyped DEF MboxFinds
<1>4. CASE MboxWrite
  <2>1. PICK first : WritesMbox(first) BY <1>4, MboxWriteIs
  <2>2. StoreOK'
    <3>1. Kept \subseteq Msgs /\ Kept \subseteq Ids BY <1>1 DEF Kept
    <3>2. \A m \in Kept : m \in DOMAIN disk BY <2>1, <3>1 DEF WritesMbox
    <3>3. \A m \in Kept : disk'[m] \in Stored BY <1>1, <2>1, <3>2, WrittenIs DEF WritesMbox
    <3> QED BY <1>1, <2>1, <3>1, <3>3 DEF StoreOK, WritesMbox
  <2>3. CASE pc' = At("fastclose") /\ UNCHANGED <<ctx, hdrs, v2r, header>>
    <3>1. pc' \in Pc /\ pc'.todo \in Seq(MsgWork) /\ pc'.at = "fastclose" BY <2>3, AtIs DEF Places
    <3> QED BY <1>1, <2>1, <2>2, <2>3, <3>1, SameListTyped DEF WritesMbox
  <2>4. CASE Committed BY <2>1, <2>2, <2>4, CommittedTyped DEF WritesMbox
  <2> QED BY <2>1, <2>3, <2>4 DEF WritesMbox
<1> QED BY <1>2, <1>3, <1>4 DEF MboxSync

LEMMA MaildirTyped ==
  ASSUME Typed, MaildirSync, conf' = conf
  PROVE  Typed'
<1>1. /\ ctx \in CONTEXT /\ header \in [Ids -> HEADER] /\ PcOK /\ Msgs \in SUBSET Ids /\ ListOK
      /\ sort \in {"order", "reverse"} /\ {saved, trash} \subseteq [Ids -> Nat] /\ DOMAIN disk \subseteq Ids
      /\ arrived \in 0 .. conf.msgs /\ \A m \in DOMAIN disk : disk[m] \in Stored
  BY TypedParts, MsgsAreIds DEF ListOK, StoreOK, Typed
<1>2. CASE MaildirNewMail BY <1>1, <1>2, NewMailTyped DEF MaildirNewMail, ListOK
<1>3. CASE MaildirStart
  <2>1. PICK T \in InOrder(Msgs) : pc' = [pc EXCEPT !.at = "mh_write", !.todo = Pass(T, "DELETE", TRUE)]
    BY <1>3 DEF MaildirStart
  <2>2. Pass(T, "DELETE", TRUE) \in Seq(MsgWork) /\ Pass(T, "DELETE", TRUE) \in Seq(Work)
    <3>1. Msgs \in SUBSET Msgs OBVIOUS
    <3> QED BY <3>1, WorkListTyped DEF Flags
  <2>3. pc \in Pc /\ "mh_write" \in Places BY <1>1 DEF PcOK, Places
  <2>4. pc' \in Pc /\ pc'.todo \in Seq(MsgWork) /\ pc'.at = "mh_write" BY <2>1, <2>2, <2>3 DEF Pc
  <2> QED BY <1>1, <1>3, <2>4, SameListTyped, SameStore DEF MaildirStart
<1>4. CASE MaildirWrite
  <2>1. pc' \in Pc /\ pc'.todo \in Seq(MsgWork) /\ pc'.at # "count"
    <3>1. CASE pc' = [pc EXCEPT !.todo = Tail(@)] BY <1>1, <1>4, <3>1, PcTail DEF MaildirWrite
    <3>2. CASE pc' = At("index") BY <3>2, AtIs DEF Places
    <3> QED BY <1>4, <3>1, <3>2 DEF MaildirWrite, Aborted
  <2>2. DOMAIN disk' \subseteq Ids /\ \A m \in DOMAIN disk' : disk'[m] \in Stored
    <3> DEFINE m == Head(pc.todo).m
    <3>1. CASE disk' = [k \in DOMAIN disk \ {m} |-> disk[k]] BY <1>1, <3>1
    <3>2. CASE disk' = [disk EXCEPT ![m] = Written(header[m])] BY <1>1, <3>2, WrittenIs
    <3>3. CASE disk' = disk BY <1>1, <3>3
    <3> QED BY <1>4, <3>1, <3>2, <3>3 DEF MaildirWrite
  <2>3. StoreOK' BY <1>1, <1>4, <2>2 DEF StoreOK, MaildirWrite
  <2> QED BY <1>1, <1>4, <2>1, <2>3, SameListTyped DEF MaildirWrite
<1>5. CASE MaildirWritten
  <2>1. CASE pc' = At("fastclose") /\ UNCHANGED <<ctx, hdrs, v2r, header>>
    <3>1. pc' \in Pc /\ pc'.todo \in Seq(MsgWork) /\ pc'.at = "fastclose" BY <2>1, AtIs DEF Places
    <3> QED BY <1>1, <1>5, <2>1, <3>1, SameListTyped, SameStore DEF MaildirWritten
  <2>2. CASE pc' = At("index") /\ UNCHANGED <<ctx, hdrs, v2r, header>>
    <3>1. pc' \in Pc /\ pc'.todo \in Seq(MsgWork) /\ pc'.at = "index" BY <2>2, AtIs DEF Places
    <3> QED BY <1>1, <1>5, <2>2, <3>1, SameListTyped, SameStore DEF MaildirWritten
  <2>3. CASE Committed BY <1>5, <2>3, CommittedTyped, SameStore DEF MaildirWritten
  <2> QED BY <1>5, <2>1, <2>2, <2>3 DEF MaildirWritten
<1> QED BY <1>2, <1>3, <1>4, <1>5 DEF MaildirSync

LEMMA ShutTyped ==
  ASSUME Typed, mx_fastclose_mailbox, conf' = conf
  PROVE  Typed'
<1>1. hdrs' \in Seq(Ids) /\ v2r' \in Seq(Nat) /\ DOMAIN v2r' = {}
  BY EmptySeq DEF mx_fastclose_mailbox
<1>2. header' \in [Ids -> HEADER] BY NewHeaderIs DEF NoHeader, mx_fastclose_mailbox
<1>3. ListOK' BY <1>1, <1>2 DEF ListOK
<1>4. pc' \in Pc /\ pc'.todo = <<>> /\ pc'.at = "closed" BY AtIs DEF mx_fastclose_mailbox, Places
<1>5. ctx' \in CONTEXT /\ sort' \in {"order", "reverse"}
  BY NewContextIs, TypedParts DEF mx_fastclose_mailbox
<1> QED BY <1>3, <1>4, <1>5, NewListTyped, SameStore DEF mx_fastclose_mailbox

LEMMA InitTyped == Init => Typed
<1> SUFFICES ASSUME Init PROVE Typed OBVIOUS
<1>1. ctx \in CONTEXT BY NewContextIs DEF Init
<1>2. conf \in Settings /\ MaxMsgs \in Nat /\ conf.msgs \in 0 .. MaxMsgs /\ conf.newmail \in SUBSET Stored
  BY BoundsAssumption, SettingsAssumption DEF Init
<1>3. PICK k \in 0 .. conf.msgs : disk \in [1 .. k -> conf.newmail] /\ arrived = k BY DEF Init
<1>4. StoreOK
  <2>1. DOMAIN disk \subseteq Ids BY <1>2, <1>3 DEF Ids
  <2>2. \A m \in DOMAIN disk : disk[m] \in Stored BY <1>2, <1>3
  <2>3. {saved, trash} \subseteq [Ids -> Nat] BY DEF Init
  <2> QED BY <1>3, <2>1, <2>2, <2>3 DEF StoreOK
<1>5. ListOK
  <2>1. <<>> \in Seq(Ids) /\ <<>> \in Seq(Nat) /\ DOMAIN <<>> = {} BY EmptySeq
  <2>2. header \in [Ids -> HEADER] BY NewHeaderIs DEF Init, NoHeader
  <2> QED BY <2>1, <2>2 DEF Init, ListOK
<1>6. PcOK BY AtIs DEF Init, PcOK, Places
<1>7. sort \in {"order", "reverse"} BY DEF Init
<1> QED BY <1>1, <1>2, <1>4, <1>5, <1>6, <1>7, TypedParts

(***************************************************************************)
(* The kinds of steps.  Most invariants need no more of a step than its    *)
(* kind.                                                                   *)
(***************************************************************************)
\* The messages stay, and what is known of them; they may be sorted again.
SameNumbers(c, d) ==
  /\ d.tagged = c.tagged /\ d.deleted = c.deleted /\ d.flagged = c.flagged
  /\ d.unread = c.unread /\ d.new = c.new /\ d.changed = c.changed
Settling ==
  \/ update_index \/ Command \/ Applied \/ Limit \/ Resort \/ mx_toggle_write
  \/ mx_close_mailbox \/ CloseMove \/ CloseUnchanged \/ (AppendToMbox /\ Breaks)
  \/ trash_append \/ Trashed \/ MboxGivesUp \/ MaildirStart
Settles ==
  /\ pc.at \notin {"closed", "fastclose"} /\ pc'.at \notin {"count", "closed"}
  /\ pc.at = "count" => pc.msgno > Len(hdrs)
  /\ UNCHANGED <<disk, saved, arrived>>
  /\ hdrs' \in Seq(Ids) /\ IsInjective(hdrs') /\ Range(hdrs') = Msgs
  /\ \A m \in Ids : SameFlags(header'[m], header[m])
  /\ SameNumbers(ctx, ctx')

\* A flag of a message is set.
Setting == Apply \/ (AppendToMbox /\ ~Breaks)
SetsFlag(m, r) ==
  /\ m \in Msgs /\ m \in Ids /\ SetRight(ctx, header[m], r, TRUE)
  /\ ctx' = r.c /\ header' = [header EXCEPT ![m] = r.h]
  /\ pc.at \in {"apply", "move"} /\ pc.todo # <<>> /\ Head(pc.todo).m = m
  /\ pc' = [pc EXCEPT !.todo = Tail(@)] /\ pc'.at = pc.at
  /\ UNCHANGED <<hdrs, v2r, sort, disk, trash, arrived>>

\* New mail is read behind the messages in base.
Arriving == mx_check_mailbox \/ MboxNewMail \/ MaildirNewMail
Arrival(base, hmap, bail, new) ==
  /\ Arrives(base, hmap, bail, new)
  /\ pc.at \in {"index", "write"} /\ bail \in BOOLEAN
  /\ base \in Seq(Ids) /\ IsInjective(base) /\ Range(base) = Msgs /\ hmap \in [Ids -> HEADER]
  /\ \A m \in Ids : SameFlags(hmap[m], header[m])
  /\ \A m \in Msgs : hmap[m].virtual # 0 <=> header[m].virtual # 0
  /\ ~bail => base = hdrs /\ hmap = header /\ v2r' = v2r
  /\ bail => conf.magic = "MUTT_MBOX" /\ sort # "order" /\ Inverts(base, v2r', hmap)

LEMMA SettlesIs ==
  ASSUME Typed, IsInjective(hdrs), Settling
  PROVE  Settles
<1>1. /\ ctx \in CONTEXT /\ header \in [Ids -> HEADER] /\ PcOK /\ Msgs \in SUBSET Ids
      /\ hdrs \in Seq(Ids)
  BY TypedParts, MsgsAreIds DEF ListOK, Typed
<1>2. ASSUME UNCHANGED <<ctx, hdrs, header>> 
      PROVE  /\ hdrs' \in Seq(Ids) /\ IsInjective(hdrs') /\ Range(hdrs') = Msgs
             /\ \A m \in Ids : SameFlags(header'[m], header[m])
             /\ SameNumbers(ctx, ctx')
  BY <1>1, <1>2 DEF Msgs, SameFlags, SameNumbers
<1>3. ASSUME mutt_sort_headers(Msgs, sort, header) \/ mutt_sort_headers(Msgs, sort', header),
             ctx' = ctx
      PROVE  /\ hdrs' \in Seq(Ids) /\ IsInjective(hdrs') /\ Range(hdrs') = Msgs
             /\ \A m \in Ids : SameFlags(header'[m], header[m])
             /\ SameNumbers(ctx, ctx')
  BY <1>1, <1>3, SortRight DEF SameNumbers
<1>4. At("index").at = "index" /\ At("fastclose").at = "fastclose" BY AtIs DEF Places
<1>5. CASE update_index
  <2>1. PICK hd : /\ Brought(Matched(hd)) \in [Ids -> HEADER]
                  /\ mutt_sort_headers(Msgs, sort, Brought(Matched(hd)))
    BY <1>5, UpdateIs
  <2>2. \A m \in Ids : SameFlags(Brought(Matched(hd))[m], header[m])
    <3> TAKE m \in Ids
    <3>1. SameFlags([header[m] EXCEPT !.virtual = 1], header[m]) BY <1>1, VirtualIs
    <3> QED BY <3>1 DEF Brought, SameFlags
  <2>3. /\ hdrs' \in Seq(Ids) /\ IsInjective(hdrs') /\ Range(hdrs') = Msgs
        /\ \A m \in Ids : SameFlags(header'[m], Brought(Matched(hd))[m])
    BY <1>1, <2>1, SortRight
  <2>4. \A m \in Ids : SameFlags(header'[m], header[m]) BY <2>2, <2>3 DEF SameFlags
  <2>5. SameNumbers(ctx, ctx') BY <1>5 DEF update_index, SameNumbers
  <2> QED BY <1>4, <1>5, <2>3, <2>4, <2>5 DEF update_index, Settles, store
<1>6. CASE Command
  <2>1. PICK todo \in Seq(MsgWork) : Run(todo) BY <1>6, CommandRuns DEF Typed
  <2>2. pc'.at = "apply"
    <3> DEFINE q == At("apply")
    <3>1. q \in Pc /\ q.at = "apply" BY AtIs DEF Places
    <3>2. pc' = [q EXCEPT !.todo = todo] BY <2>1 DEF Run
    <3> HIDE DEF q
    <3> QED BY <3>1, <3>2 DEF Pc
  <2> QED BY <1>2, <1>6, <2>1, <2>2 DEF Command, Run, Settles, store
<1>7. CASE Applied
  <2>1. pc'.at \in {"close", "index"} BY <1>1, <1>4, <1>7, PcNext DEF Applied, PcOK, Pc, Places
  <2> QED BY <1>2, <1>7, <2>1 DEF Applied, Settles, store
<1>8. CASE Limit
  <2>1. PICK pattern \in SUBSET (1 .. conf.msgs), upto \in 0 .. Len(hdrs), limit \in BOOLEAN :
          \E v \in Ascending(Matching(pattern, upto)) :
             /\ header' = Numbered(hdrs, v, Cleared(upto))
             /\ ctx' = [ctx EXCEPT !.limit = limit, !.pattern = pattern]
             /\ Matching(pattern, upto) \in SUBSET DOMAIN hdrs
             /\ Cleared(upto) \in [Ids -> HEADER]
    BY <1>8, LimitIs
  <2>2. PICK v \in Ascending(Matching(pattern, upto)) :
             /\ header' = Numbered(hdrs, v, Cleared(upto))
             /\ ctx' = [ctx EXCEPT !.limit = limit, !.pattern = pattern]
             /\ Matching(pattern, upto) \in SUBSET DOMAIN hdrs
             /\ Cleared(upto) \in [Ids -> HEADER]
    BY <2>1
  <2>3. v \in Seq(Matching(pattern, upto)) /\ Matching(pattern, upto) \subseteq Nat
    BY <1>1, <2>2, PositionsFinite, AscendingIs
  <2>4. \A m \in Ids : SameFlags(header'[m], Cleared(upto)[m]) BY <2>2, <2>3, NumberedIs
  <2>5. \A m \in Ids : SameFlags(Cleared(upto)[m], header[m])
    <3> TAKE m \in Ids
    <3>1. SameFlags([header[m] EXCEPT !.virtual = 0], header[m]) BY <1>1, VirtualIs
    <3> QED BY <3>1 DEF Cleared, SameFlags
  <2>6. \A m \in Ids : SameFlags(header'[m], header[m]) BY <2>4, <2>5 DEF SameFlags
  <2>7. SameNumbers(ctx, ctx') BY <1>1, <2>2 DEF SameNumbers, CONTEXT
  <2> QED BY <1>1, <1>8, <2>6, <2>7 DEF Limit, Settles, store, Msgs
<1>9. CASE Resort BY <1>3, <1>9 DEF Resort, Settles, store
<1>10. CASE mx_toggle_write
  <2>1. SameNumbers(ctx, ctx') BY <1>1, <1>10 DEF SameNumbers, CONTEXT, mx_toggle_write
  <2> QED BY <1>1, <1>10, <2>1 DEF mx_toggle_write, Settles, store, Msgs, SameFlags
<1>11. CASE mx_close_mailbox
  <2>1. pc'.at \in {"fastclose", "apply"} BY <1>11, CloseIs
  <2> QED BY <1>2, <1>11, <2>1 DEF mx_close_mailbox, Settles, store
<1>12. CASE CloseMove
  <2>1. pc'.at = "move" BY <1>12, CloseMoveIs
  <2> QED BY <1>2, <1>12, <2>1 DEF CloseMove, Settles, store
<1>13. CASE CloseUnchanged BY <1>2, <1>4, <1>13 DEF CloseUnchanged, Settles, store
<1>14. CASE AppendToMbox /\ Breaks BY <1>2, <1>4, <1>14 DEF AppendToMbox, Breaks, Settles
<1>15. CASE trash_append
  <2>1. pc'.at \in {"trash", "index"} BY <1>1, <1>4, <1>15, PcTail DEF trash_append, Aborted
  <2> QED BY <1>2, <1>15, <2>1 DEF trash_append, Settles
<1>16. CASE Trashed
  <2>1. pc'.at = "write" BY <1>1, <1>16, PcNext DEF Trashed, Places
  <2> QED BY <1>2, <1>16, <2>1 DEF Trashed, Settles, store
<1>17. CASE MboxGivesUp BY <1>2, <1>3, <1>4, <1>17 DEF MboxGivesUp, Settles, store
<1>18. CASE MaildirStart
  <2>1. pc'.at = "mh_write" BY <1>1, <1>18 DEF MaildirStart, PcOK, Pc
  <2> QED BY <1>2, <1>18, <2>1 DEF MaildirStart, Settles, store
<1> QED BY <1>5, <1>6, <1>7, <1>8, <1>9, <1>10, <1>11, <1>12, <1>13, <1>14, <1>15, <1>16, <1>17, <1>18
        DEF Settling

\* Where they lead.
LEMMA SettlesTo ==
  ASSUME Typed, Settling
  PROVE  \/ pc'.at \in {"index", "apply", "close"}
         \/ pc'.at = "fastclose" /\ (mx_close_mailbox \/ CloseUnchanged)
         \/ pc'.at = "move" /\ CloseMove
         \/ pc'.at = "trash" /\ trash_append
         \/ pc'.at = "write" /\ Trashed
         \/ pc'.at = "mh_write" /\ MaildirStart
<1>0. PcOK /\ At("index").at = "index" /\ At("fastclose").at = "fastclose"
  BY TypedParts, AtIs DEF Places
<1>1. CASE update_index \/ (AppendToMbox /\ Breaks) \/ MboxGivesUp
  BY <1>0, <1>1 DEF update_index, Breaks, MboxGivesUp
<1>2. CASE CloseUnchanged BY <1>0, <1>2 DEF CloseUnchanged
<1>3. CASE Limit \/ Resort \/ mx_toggle_write
  BY <1>3 DEF Limit, Resort, mx_toggle_write
<1>4. CASE Command
  <2>1. PICK todo : pc' = [At("apply") EXCEPT !.todo = todo] BY <1>4, CommandRuns DEF Run, Typed
  <2>2. At("apply").at = "apply" /\ At("apply") \in Pc BY AtIs DEF Places
  <2> QED BY <2>1, <2>2 DEF Pc
<1>5. CASE Applied BY <1>0, <1>5, PcNext DEF Applied, Places
<1>6. CASE mx_close_mailbox BY <1>6, CloseIs
<1>7. CASE CloseMove BY <1>7, CloseMoveIs
<1>8. CASE trash_append BY <1>0, <1>8, PcTail DEF trash_append, Aborted
<1>9. CASE Trashed BY <1>0, <1>9, PcNext DEF Trashed, Places
<1>10. CASE MaildirStart BY <1>0, <1>10 DEF MaildirStart, PcOK, Pc
<1> QED BY <1>1, <1>2, <1>3, <1>4, <1>5, <1>6, <1>7, <1>8, <1>9, <1>10 DEF Settling

LEMMA SetsFlagIs ==
  ASSUME Typed, Setting
  PROVE  \E m, r : SetsFlag(m, r) /\ (Apply => saved' = saved)
                   /\ (pc.at = "move" => Saves(m, r)) /\ (pc.at = "apply" => Apply)
<1>1. CASE Apply
  <2> DEFINE w == Head(pc.todo)
             r == mutt_set_flag(ctx, header[w.m], w.flag, w.bf, TRUE)
  <2>1. PcOK /\ pc.todo # <<>> BY <1>1, TypedParts DEF Apply
  <2>2. w \in MsgWork BY <2>1, PcTail
  <2>3. w.m \in Ids /\ w.m \in Msgs /\ SetRight(ctx, header[w.m], r, TRUE) BY <2>2, WorkIs, SetFlagRight
  <2>4. ctx' = r.c /\ header' = [header EXCEPT ![w.m] = r.h] BY <1>1 DEF Apply
  <2> HIDE DEF r
  <2>5. pc' = [pc EXCEPT !.todo = Tail(@)] /\ pc'.at = pc.at /\ pc.at = "apply"
    BY <1>1, <2>1, PcTail DEF Apply
  <2>6. UNCHANGED <<hdrs, v2r, sort, disk, trash, arrived, saved>> BY <1>1 DEF Apply, store
  <2>7. SetsFlag(w.m, r) BY <2>1, <2>3, <2>4, <2>5, <2>6 DEF SetsFlag
  <2> QED BY <1>1, <2>5, <2>6, <2>7
<1>2. CASE AppendToMbox /\ ~Breaks
  <2>1. /\ pc.at = "move" /\ pc.todo # <<>> /\ Head(pc.todo) \in MsgWork
        /\ UNCHANGED <<hdrs, v2r, sort, disk, trash, arrived>>
    BY <1>2, AppendIs
  <2>2. PICK m, r : Saves(m, r) BY <1>2, AppendIs
  <2>3. m \in Ids BY <2>2, MsgsAreIds DEF Saves, Typed
  <2>4. pc'.at = pc.at BY <2>1, <2>2, PcTail, TypedParts DEF Saves
  <2>5. SetsFlag(m, r) BY <2>1, <2>2, <2>3, <2>4 DEF SetsFlag, Saves
  <2>6. ~Apply BY <2>1 DEF Apply
  <2> QED BY <2>1, <2>2, <2>5, <2>6
<1> QED BY <1>1, <1>2 DEF Setting

LEMMA ArrivalIs ==
  ASSUME Typed, IsInjective(hdrs), Arriving
  PROVE  \E base, hmap, bail, new : Arrival(base, hmap, bail, new)
<1>1. /\ hdrs \in Seq(Ids) /\ header \in [Ids -> HEADER] /\ \A m \in Ids : SameFlags(header[m], header[m])
  BY TypedParts DEF ListOK, SameFlags
<1>2. CASE mx_check_mailbox \/ MaildirNewMail
  <2>1. ReadNewMail(hdrs, header, FALSE) /\ v2r' = v2r /\ pc.at \in {"index", "write"}
    BY <1>2 DEF mx_check_mailbox, MaildirNewMail
  <2>2. PICK new : Arrives(hdrs, header, FALSE, new) BY <1>1, <2>1, NewMailIs
  <2>3. Arrival(hdrs, header, FALSE, new) BY <1>1, <2>1, <2>2 DEF Arrival, Msgs
  <2> QED BY <2>3
<1>3. CASE MboxNewMail
  <2>1. PICK hd, hmap, bail : MboxFinds(hd, hmap, bail) /\ bail \in BOOLEAN BY <1>3, MboxNewMailIs
  <2>2. PICK new : Arrives(hd, hmap, bail, new) BY <2>1, NewMailIs DEF MboxFinds
  <2>3. pc.at = "write" /\ conf.magic = "MUTT_MBOX" BY <1>3 DEF MboxNewMail
  <2>4. Arrival(hd, hmap, bail, new) BY <2>1, <2>2, <2>3 DEF Arrival, MboxFinds
  <2> QED BY <2>4
<1> QED BY <1>2, <1>3 DEF Arriving

\* The kinds are all there is.
LEMMA StepKinds ==
  ASSUME [Next]_vars
  PROVE  \/ mx_open_mailbox \/ Arriving \/ mx_update_context \/ Settling \/ Setting
         \/ StartsWriting \/ MboxWrite \/ MaildirWrite \/ MaildirWritten \/ mx_fastclose_mailbox
         \/ UNCHANGED vars
  BY DEF Next, Step, Sync, Close, MboxSync, MaildirSync, Arriving, Settling, Setting, StartsWriting

LEMMA SameConf == [Next]_vars => conf' = conf
  BY DEF Next, vars

(***************************************************************************)
(* The shape of the context: the headers are of messages that have         *)
(* arrived, each once, and none of a message on disk is missing.  Of those *)
(* that mh_sync_mailbox() has passed, none that is deleted is left.        *)
(***************************************************************************)
Gone == pc.at \in {"closed", "fastclose"}
Shape ==
  /\ IsInjective(hdrs)
  /\ Msgs \subseteq 1 .. arrived /\ DOMAIN disk \subseteq 1 .. arrived
  /\ ~Gone => DOMAIN disk \subseteq Msgs
  /\ ~Gone /\ conf.magic = "MUTT_MBOX" => Msgs \subseteq DOMAIN disk
  /\ pc.at = "closed" => hdrs = <<>>
  /\ pc.at = "mh_write" =>
       /\ conf.magic = "MUTT_MAILDIR"
       /\ \A m \in DOMAIN disk : m \in WorkOf(pc.todo) \/ ~header[m].deleted

Base == Typed /\ Shape

LEMMA EnvTyped ==
  ASSUME Base, [Next]_vars
  PROVE  Typed'
<1>1. conf' = conf BY SameConf
<1>2. Typed /\ IsInjective(hdrs) /\ (pc.at = "write" /\ conf.magic = "MUTT_MBOX" => DOMAIN disk = Msgs)
  BY DEF Base, Shape, Gone
<1>3. CASE UNCHANGED vars
  <2>1. ctx' \in CONTEXT /\ header' \in [Ids -> HEADER] /\ pc' = pc /\ UNCHANGED <<hdrs, v2r, sort, store>>
    BY <1>2, <1>3, TypedParts DEF vars, store, ListOK
  <2>2. PcOK BY <1>2, TypedParts
  <2> QED BY <1>1, <1>2, <2>1, <2>2, SameListTyped, SameStore DEF PcOK
<1>4. CASE mx_open_mailbox BY <1>1, <1>2, <1>4, OpenTyped
<1>5. CASE mx_check_mailbox BY <1>1, <1>2, <1>5, CheckTyped
<1>6. CASE mx_update_context BY <1>1, <1>2, <1>6, CountTyped
<1>7. CASE update_index BY <1>1, <1>2, <1>7, UpdateTyped
<1>8. CASE Command BY <1>1, <1>2, <1>8, CommandTyped
<1>9. CASE Apply \/ Applied BY <1>1, <1>2, <1>9, ApplyTyped
<1>10. CASE Limit BY <1>1, <1>2, <1>10, LimitTyped
<1>11. CASE Resort \/ mx_toggle_write BY <1>1, <1>2, <1>11, ResortTyped
<1>12. CASE StartsWriting BY <1>1, <1>2, <1>12, StartsTyped
<1>13. CASE AppendToMbox \/ trash_append \/ Trashed BY <1>1, <1>2, <1>13, AppendTyped
<1>14. CASE mx_close_mailbox \/ CloseMove \/ CloseUnchanged BY <1>1, <1>2, <1>14, CloseTyped
<1>15. CASE MboxSync BY <1>1, <1>2, <1>15, MboxTyped
<1>16. CASE MaildirSync BY <1>1, <1>2, <1>16, MaildirTyped
<1>17. CASE mx_fastclose_mailbox BY <1>1, <1>2, <1>17, ShutTyped
<1> QED BY <1>3, <1>4, <1>5, <1>6, <1>7, <1>8, <1>9, <1>10, <1>11, <1>12, <1>13, <1>14, <1>15, <1>16, <1>17
        DEF Next, Step, Sync, Close, StartsWriting

\* What is left after the first piece of work.
LEMMA WorkLeft ==
  ASSUME NEW X, NEW s \in Seq(X), s # <<>>
  PROVE  WorkOf(s) = {Head(s).m} \cup WorkOf(Tail(s))
<1>1. /\ Len(s) \in Nat /\ Len(s) # 0 /\ DOMAIN s = 1 .. Len(s) /\ Head(s) = s[1]
      /\ DOMAIN Tail(s) = 1 .. Len(s) - 1 /\ \A i \in 1 .. Len(s) - 1 : Tail(s)[i] = s[i + 1]
  BY EmptySeq, HeadTailProperties
<1>2. \A x \in WorkOf(s) : x \in {Head(s).m} \cup WorkOf(Tail(s))
  <2> TAKE x \in WorkOf(s)
  <2>1. PICK i \in DOMAIN s : x = s[i].m BY DEF WorkOf
  <2>2. CASE i = 1 BY <1>1, <2>1, <2>2
  <2>3. CASE i # 1
    <3>1. i - 1 \in DOMAIN Tail(s) /\ Tail(s)[i - 1] = s[i] BY <1>1, <2>1, <2>3
    <3> QED BY <2>1, <3>1 DEF WorkOf
  <2> QED BY <2>2, <2>3
<1>3. Head(s).m \in WorkOf(s)
  <2>1. 1 \in DOMAIN s BY <1>1
  <2> QED BY <1>1, <2>1 DEF WorkOf
<1>4. \A x \in WorkOf(Tail(s)) : x \in WorkOf(s)
  <2> TAKE x \in WorkOf(Tail(s))
  <2>1. PICK i \in DOMAIN Tail(s) : x = Tail(s)[i].m BY DEF WorkOf
  <2>2. i + 1 \in DOMAIN s /\ Tail(s)[i] = s[i + 1] BY <1>1, <2>1
  <2> QED BY <2>1, <2>2 DEF WorkOf
<1> QED BY <1>2, <1>3, <1>4

LEMMA TailIs ==
  ASSUME Typed, pc.todo # <<>>, pc' = [pc EXCEPT !.todo = Tail(@)]
  PROVE  /\ pc'.at = pc.at /\ pc'.purge = pc.purge /\ pc'.closing = pc.closing
         /\ WorkOf(pc.todo) = {Head(pc.todo).m} \cup WorkOf(pc'.todo)
         /\ Head(pc.todo) \in MsgWork /\ pc'.todo = Tail(pc.todo)
<1>1. PcOK /\ pc.todo \in Seq(MsgWork) BY TypedParts DEF PcOK
<1>2. /\ pc'.at = pc.at /\ pc'.purge = pc.purge /\ pc'.closing = pc.closing
      /\ pc'.todo = Tail(pc.todo) /\ Head(pc.todo) \in MsgWork
  BY <1>1, PcTail
<1> QED BY <1>1, <1>2, WorkLeft

LEMMA NoWork ==
  ASSUME pc.todo = <<>>
  PROVE  WorkOf(pc.todo) = {}
  BY DEF WorkOf

\* Arriving messages are new.
LEMMA NewIds ==
  ASSUME Base, NEW base, NEW hmap, NEW bail, NEW new, Arrival(base, hmap, bail, new)
  PROVE  /\ new \cap Msgs = {} /\ new \cap DOMAIN disk = {} /\ IsInjective(hdrs')
         /\ Range(hdrs') = Msgs \cup new /\ Msgs \cup new \subseteq 1 .. arrived'
         /\ new \subseteq Ids /\ Msgs \subseteq Ids
<1>1. /\ arrived \in Nat /\ Msgs \subseteq 1 .. arrived /\ DOMAIN disk \subseteq 1 .. arrived
      /\ Msgs \subseteq Ids
  <2>1. conf.msgs \in Nat /\ arrived \in 0 .. conf.msgs
    BY SettingIs, TypedParts DEF Base, Typed, StoreOK
  <2> QED BY <2>1, MsgsAreIds DEF Base, Shape, Typed
<1>2. /\ arrived' \in arrived + 1 .. conf.msgs /\ new = arrived + 1 .. arrived' /\ new \subseteq Ids
      /\ Range(hdrs') = Msgs \cup new
      /\ IsInjective(base) /\ (Range(base) \cap new = {} => IsInjective(hdrs')) /\ Range(base) = Msgs
  BY DEF Arrival, Arrives
<1>3. \A x \in new : x > arrived BY <1>1, <1>2
<1>4. new \cap Msgs = {} /\ new \cap DOMAIN disk = {}
  <2>1. \A x \in 1 .. arrived : ~(x > arrived) BY <1>1
  <2> QED BY <1>1, <1>3, <2>1
<1>5. Msgs \cup new \subseteq 1 .. arrived' BY <1>1, <1>2
<1> QED BY <1>1, <1>2, <1>4, <1>5

LEMMA ShapeStep ==
  ASSUME Base, [Next]_vars
  PROVE  Shape'
<1>0. /\ conf' = conf /\ Typed /\ Shape /\ Typed' /\ Msgs \subseteq Ids
      /\ At("index").at = "index" /\ At("fastclose").at = "fastclose" /\ At("closed").at = "closed"
  BY SameConf, EnvTyped, MsgsAreIds, AtIs DEF Base, Typed, Places
<1>1. CASE UNCHANGED vars BY <1>0, <1>1 DEF vars, Shape, Gone, Msgs, WorkOf
<1>2. CASE mx_open_mailbox
  <2>1. DOMAIN disk \subseteq Ids /\ UNCHANGED <<disk, arrived>>
    BY <1>0, <1>2, TypedParts DEF StoreOK, mx_open_mailbox, store
  <2>2. Range(hdrs') = DOMAIN disk /\ IsInjective(hdrs') BY <1>2, <2>1, DiskOrderIs DEF mx_open_mailbox
  <2>3. pc'.at = "count"
    <3> DEFINE q == At("count")
    <3>1. q \in Pc /\ q.at = "count" BY AtIs DEF Places
    <3>2. pc' = [q EXCEPT !.msgno = 1] BY <1>2 DEF mx_open_mailbox
    <3> HIDE DEF q
    <3> QED BY <3>1, <3>2 DEF Pc
  <2> QED BY <1>0, <2>1, <2>2, <2>3 DEF Shape, Gone, Msgs
<1>3. CASE Arriving
  <2>1. PICK base, hmap, bail, new : Arrival(base, hmap, bail, new) BY <1>0, <1>3, ArrivalIs DEF Shape
  <2>2. /\ IsInjective(hdrs') /\ Range(hdrs') = Msgs \cup new /\ Msgs \cup new \subseteq 1 .. arrived'
    BY <2>1, NewIds
  <2>3. pc'.at = "count" /\ DOMAIN disk' = DOMAIN disk \cup new /\ ~Gone
    BY <2>1 DEF Arrival, Arrives, Gone
  <2>4. /\ DOMAIN disk \subseteq Msgs /\ (conf.magic = "MUTT_MBOX" => Msgs \subseteq DOMAIN disk)
    BY <1>0, <2>3 DEF Shape
  <2> QED BY <1>0, <2>2, <2>3, <2>4 DEF Shape, Gone, Msgs
<1>4. CASE mx_update_context
  <2>1. /\ UNCHANGED <<hdrs, disk, arrived>> /\ pc.at = "count"
    BY <1>4 DEF mx_update_context, store
  <2>2. pc'.at = "count" BY <1>0, <1>4, TypedParts DEF PcOK, Pc, mx_update_context
  <2> QED BY <1>0, <2>1, <2>2 DEF Shape, Gone, Msgs
<1>5. CASE Settling
  <2>1. Settles BY <1>0, <1>5, SettlesIs DEF Shape
  <2>2. /\ UNCHANGED <<disk, arrived>> /\ IsInjective(hdrs') /\ Msgs' = Msgs
        /\ ~Gone /\ pc'.at # "closed"
    BY <2>1 DEF Settles, Msgs, Gone
  <2>3. pc'.at = "mh_write" => conf.magic = "MUTT_MAILDIR" /\ Msgs \subseteq WorkOf(pc'.todo)
    <3>1. CASE MaildirStart
      <4>1. PICK T \in InOrder(Msgs) : pc' = [pc EXCEPT !.at = "mh_write", !.todo = Pass(T, "DELETE", TRUE)]
        BY <3>1 DEF MaildirStart
      <4>2. WorkOf(Pass(T, "DELETE", TRUE)) = Msgs
        <5>1. Msgs \in SUBSET Msgs OBVIOUS
        <5> QED BY <1>0, <5>1, WorkListTyped DEF Flags
      <4>3. pc'.todo = Pass(T, "DELETE", TRUE) BY <1>0, <4>1, TypedParts DEF PcOK, Pc
      <4> QED BY <3>1, <4>2, <4>3 DEF MaildirStart
    <3>2. ASSUME ~MaildirStart PROVE pc'.at # "mh_write" BY <1>0, <1>5, <3>2, SettlesTo
    <3> QED BY <3>1, <3>2
  <2> QED BY <1>0, <2>2, <2>3 DEF Shape, Gone
<1>6. CASE Setting
  <2>1. PICK m, r : SetsFlag(m, r) BY <1>0, <1>6, SetsFlagIs
  <2>2. /\ UNCHANGED <<hdrs, disk, arrived>> /\ pc.at \in {"apply", "move"} /\ pc'.at = pc.at
    BY <2>1 DEF SetsFlag
  <2> QED BY <1>0, <2>2 DEF Shape, Gone, Msgs
<1>7. CASE StartsWriting
  <2>1. PICK purge \in BOOLEAN, closing \in BOOLEAN : Writes(purge, closing)
                                                     /\ pc.at \in {"index", "close", "move"}
    BY <1>0, <1>7, StartsWritingIs, WritingIs
  <2>2. UNCHANGED <<hdrs, disk, arrived>> /\ pc'.at \in {"trash", "fastclose", "write"} /\ ~Gone
    BY <2>1 DEF Writes, store, Gone
  <2> QED BY <1>0, <2>2 DEF Shape, Gone, Msgs
<1>8. CASE MboxWrite
  <2>1. PICK first : WritesMbox(first) BY <1>0, <1>8, MboxWriteIs
  <2>2. DOMAIN disk' = Kept /\ arrived' = arrived /\ ~Gone /\ Kept \subseteq Msgs
    BY <2>1 DEF WritesMbox, Gone, Kept
  <2>3. CASE pc' = At("fastclose") /\ UNCHANGED <<ctx, hdrs, v2r, header>>
    BY <1>0, <2>2, <2>3 DEF Shape, Gone, Msgs
  <2>4. CASE Committed
    <3>1. IsInjective(hdrs') /\ Range(hdrs') = Kept /\ pc'.at = "index"
      BY <1>0, <2>4, CommittedIs, SortRight DEF Commits
    <3> QED BY <1>0, <2>2, <3>1 DEF Shape, Gone, Msgs
  <2> QED BY <2>1, <2>3, <2>4 DEF WritesMbox
<1>9. CASE MaildirWrite
  <2> DEFINE m == Head(pc.todo).m
  <2>1. /\ pc.at = "mh_write" /\ pc.todo # <<>> /\ UNCHANGED <<ctx, hdrs, header, arrived>>
        /\ DOMAIN disk \subseteq Msgs /\ conf.magic = "MUTT_MAILDIR"
    BY <1>0, <1>9 DEF MaildirWrite, Shape, Gone
  <2>2. /\ DOMAIN disk' \subseteq DOMAIN disk
        /\ pc' = [pc EXCEPT !.todo = Tail(@)] => m \notin DOMAIN disk' \/ ~header[m].deleted
        /\ pc' = [pc EXCEPT !.todo = Tail(@)] \/ pc' = At("index")
    <3>1. CASE header[m].deleted
      BY <1>9, <3>1 DEF MaildirWrite
    <3>2. CASE ~header[m].deleted
      BY <1>9, <3>2 DEF MaildirWrite, Aborted
    <3> QED BY <3>1, <3>2
  <2>3. CASE pc' = At("index") BY <1>0, <2>1, <2>2, <2>3 DEF Shape, Gone, Msgs
  <2>4. CASE pc' = [pc EXCEPT !.todo = Tail(@)]
    <3>1. pc'.at = "mh_write" /\ WorkOf(pc.todo) = {m} \cup WorkOf(pc'.todo)
      BY <1>0, <2>1, <2>4, TailIs
    <3>2. \A k \in DOMAIN disk' : k \in WorkOf(pc'.todo) \/ ~header[k].deleted
      BY <1>0, <2>1, <2>2, <2>4, <3>1 DEF Shape
    <3> QED BY <1>0, <2>1, <2>2, <3>1, <3>2 DEF Shape, Gone, Msgs
  <2> QED BY <2>2, <2>3, <2>4
<1>10. CASE MaildirWritten
  <2>1. /\ pc.at = "mh_write" /\ pc.todo = <<>> /\ UNCHANGED <<disk, arrived>>
        /\ WorkOf(pc.todo) = {} /\ conf.magic = "MUTT_MAILDIR"
        /\ DOMAIN disk \subseteq Msgs
    BY <1>0, <1>10, NoWork DEF MaildirWritten, store, Shape, Gone
  <2>2. CASE UNCHANGED <<ctx, hdrs, v2r, header>> /\ (pc' = At("fastclose") \/ pc' = At("index"))
    BY <1>0, <2>1, <2>2 DEF Shape, Gone, Msgs
  <2>3. CASE Committed
    <3>1. IsInjective(hdrs') /\ Range(hdrs') = Kept /\ pc'.at = "index" /\ Kept \subseteq Msgs
      BY <1>0, <2>3, CommittedIs, SortRight DEF Commits, Kept
    <3>2. DOMAIN disk \subseteq Kept BY <1>0, <2>1 DEF Shape, Kept
    <3> QED BY <1>0, <2>1, <3>1, <3>2 DEF Shape, Gone, Msgs
  <2> QED BY <1>10, <2>2, <2>3 DEF MaildirWritten
<1>11. CASE mx_fastclose_mailbox
  <2>1. hdrs' = <<>> /\ UNCHANGED <<disk, arrived>> /\ pc' = At("closed")
    BY <1>11 DEF mx_fastclose_mailbox, store
  <2>2. IsInjective(<<>>) /\ Range(<<>>) = {} BY DEF IsInjective, Range
  <2> QED BY <1>0, <2>1, <2>2 DEF Shape, Gone, Msgs
<1> QED BY <1>1, <1>2, <1>3, <1>4, <1>5, <1>6, <1>7, <1>8, <1>9, <1>10, <1>11, StepKinds

\* Everything the program works on has its type (TypeOK), and the headers in
\* memory are those of messages on disk or of messages an earlier sync removed.
THEOREM BaseCorrect == Spec => []Base
<1>1. Init => Base
  <2> SUFFICES ASSUME Init PROVE Base OBVIOUS
  <2>1. Typed BY InitTyped
  <2>2. hdrs = <<>> /\ pc.at = "closed" BY AtIs DEF Init, Places
  <2>3. IsInjective(<<>>) /\ Range(<<>>) = {} BY DEF IsInjective, Range
  <2>4. DOMAIN disk \subseteq 1 .. arrived BY DEF Init
  <2> QED BY <2>1, <2>2, <2>3, <2>4 DEF Base, Shape, Gone, Msgs
<1>2. Base /\ [Next]_vars => Base' BY EnvTyped, ShapeStep DEF Base
<1> QED BY <1>1, <1>2, PTL DEF Spec

\* The type of the state alone: counters are integers, the numbers of v2r are
\* naturals and every loop is at one of its places.
THEOREM TypeCorrect == Spec => []TypeOK
<1>1. Base => TypeOK BY DEF Base, Typed
<1> QED BY <1>1, BaseCorrect, PTL

(***************************************************************************)
(* Counting.  The messages that are not counted yet are not in view, and   *)
(* not tagged: no command has seen them.                                   *)
(***************************************************************************)
Counting ==
  pc.at = "count" =>
    /\ pc.msgno \in 1 .. Len(hdrs) + 1 /\ pc.oldcount < pc.msgno
    /\ \A i \in pc.msgno .. Len(hdrs) :
         header[hdrs[i]].virtual = 0 /\ ~header[hdrs[i]].tagged

\* The context where the message pc.msgno is counted next: the others keep
\* what is in their headers, but for one that may be superseded.
LEMMA CountedOne ==
  ASSUME Base, Counting, mx_update_context
  PROVE  \E m, s, r, x, q :
           /\ CountsRight(m, s, r) /\ m \in Ids /\ m \notin Counted
           /\ x \in Ids /\ SetRight(ctx, SeenAs(m)[x], q, TRUE) /\ s.hmap = [SeenAs(m) EXCEPT ![x] = q.h]
           /\ q.h.tagged = header[x].tagged
           /\ s.c.deleted = q.c.deleted /\ s.c.changed = q.c.changed
           /\ \A k \in Ids \ {m} : SeenAs(m)[k] = header[k]
           /\ \A k \in Ids : SameFlags(SeenAs(m)[k], header[k])
           /\ Counted' = Counted \cup {m}
           /\ pc'.at = "count" /\ pc'.msgno = pc.msgno + 1 /\ pc'.oldcount = pc.oldcount
           /\ pc'.bail = pc.bail /\ pc.at = "count"
<1>0. Typed /\ IsInjective(hdrs) BY DEF Base, Shape
<1>1. PICK m, s, r : CountsRight(m, s, r) BY <1>0, CountedIs
<1>2. /\ m \in Msgs /\ m = hdrs[pc.msgno] /\ pc.msgno \in DOMAIN hdrs /\ hdrs' = hdrs
      /\ SupersedesRight(ctx, SeenAs(m), s) /\ SeenAs(m) \in [Ids -> HEADER]
  BY <1>1 DEF CountsRight
<1>3. /\ header \in [Ids -> HEADER] /\ m \in Ids /\ DOMAIN hdrs = 1 .. Len(hdrs) /\ Len(hdrs) \in Nat
      /\ PcOK /\ v2r \in Seq(Nat)
  BY <1>0, <1>2, TypedParts, MsgsAreIds DEF ListOK, Typed
<1>4. PICK x, q :
       /\ x \in Ids /\ s.hmap = [SeenAs(m) EXCEPT ![x] = q.h]
       /\ SetRight(ctx, SeenAs(m)[x], q, TRUE) /\ q.h.tagged = SeenAs(m)[x].tagged
       /\ s.c.deleted = q.c.deleted /\ s.c.changed = q.c.changed
  BY <1>2 DEF SupersedesRight
<1>5. \A k \in Ids \ {m} : SeenAs(m)[k] = header[k] BY <1>3 DEF SeenAs
<1>6. \A k \in Ids : SameFlags(SeenAs(m)[k], header[k])
  <2> DEFINE n == IF ctx.limit THEN 0 ELSE Len(v2r) + 1
  <2>1. n \in Nat BY <1>3, LenProperties
  <2>2. SeenAs(m)[m] = [header[m] EXCEPT !.virtual = n] BY <1>3 DEF SeenAs
  <2> HIDE DEF n
  <2>3. SameFlags(SeenAs(m)[m], header[m]) BY <1>3, <2>1, <2>2, VirtualIs
  <2> QED BY <1>5, <2>3 DEF SameFlags
<1>7. q.h.tagged = header[x].tagged BY <1>4, <1>6 DEF SameFlags
<1>8. /\ pc'.at = "count" /\ pc'.msgno = pc.msgno + 1 /\ pc'.oldcount = pc.oldcount
      /\ pc'.bail = pc.bail /\ pc.at = "count" /\ pc.msgno \in Nat /\ pc.msgno >= 1
  BY <1>3 DEF mx_update_context, PcOK, Pc
<1>9. m \notin Counted
  <2>1. \A i \in 1 .. pc.msgno - 1 : i \in DOMAIN hdrs /\ i # pc.msgno BY <1>2, <1>3, <1>8
  <2>2. \A i \in 1 .. pc.msgno - 1 : hdrs[i] # hdrs[pc.msgno] BY <1>0, <1>2, <2>1 DEF IsInjective
  <2> QED BY <1>2, <1>8, <2>2 DEF Counted
<1>10. Counted' = Counted \cup {m}
  <2>1. Counted' = {hdrs[i] : i \in 1 .. pc.msgno} BY <1>2, <1>8 DEF Counted
  <2>2. Counted = {hdrs[i] : i \in 1 .. pc.msgno - 1} BY <1>8 DEF Counted
  <2>3. \A i : i \in 1 .. pc.msgno <=> i \in 1 .. pc.msgno - 1 \/ i = pc.msgno BY <1>8
  <2> QED BY <1>2, <2>1, <2>2, <2>3
<1> QED BY <1>1, <1>3, <1>4, <1>5, <1>6, <1>7, <1>8, <1>9, <1>10

LEMMA CountingStep ==
  ASSUME Base, Counting, [Next]_vars
  PROVE  Counting'
<1>0. /\ Typed /\ Shape /\ Len(hdrs) \in Nat /\ DOMAIN hdrs = 1 .. Len(hdrs) /\ header \in [Ids -> HEADER]
      /\ hdrs \in Seq(Ids)
  BY MsgsAreIds, TypedParts DEF Base, Typed, ListOK
<1>1. CASE UNCHANGED vars BY <1>1 DEF vars, Counting
<1>2. CASE mx_open_mailbox
  <2>1. DOMAIN disk \subseteq Ids BY <1>0, TypedParts DEF StoreOK
  <2>2. hdrs' \in Seq(Ids) /\ Range(hdrs') = DOMAIN disk BY <1>2, <2>1, DiskOrderIs DEF mx_open_mailbox
  <2>3. pc'.msgno = 1 /\ pc'.oldcount = 0
    <3> DEFINE q == At("count")
    <3>1. q \in Pc /\ q.oldcount = 0 BY AtIs DEF Places, At
    <3>2. pc' = [q EXCEPT !.msgno = 1] BY <1>2 DEF mx_open_mailbox
    <3> HIDE DEF q
    <3> QED BY <3>1, <3>2 DEF Pc
  <2>4. \A i \in DOMAIN hdrs' : hdrs'[i] \in Ids /\ hdrs'[i] \in DOMAIN disk
    BY <2>1, <2>2 DEF Range
  <2>5. \A m \in DOMAIN disk : header'[m] = NewHeader(disk[m]) BY <1>2, <2>1 DEF mx_open_mailbox
  <2>6. \A i \in DOMAIN hdrs' : header'[hdrs'[i]].virtual = 0 /\ ~header'[hdrs'[i]].tagged
    BY <2>4, <2>5, NewHeaderIs
  <2>7. DOMAIN hdrs' = 1 .. Len(hdrs') /\ Len(hdrs') \in Nat BY <2>2
  <2> QED BY <2>3, <2>6, <2>7 DEF Counting
<1>3. CASE Arriving
  <2>1. PICK base, hmap, bail, new : Arrival(base, hmap, bail, new) BY <1>0, <1>3, ArrivalIs DEF Shape
  <2>2. /\ base \in Seq(Ids) /\ hdrs' \in Seq(Ids)
        /\ pc'.msgno = Len(base) + 1 /\ pc'.oldcount = Len(base) /\ Len(hdrs') >= Len(base)
        /\ \A i \in Len(base) + 1 .. Len(hdrs') : hdrs'[i] \in new
        /\ \A m \in new : header'[m] = NewHeader(disk'[m])
    BY <2>1 DEF Arrival, Arrives
  <2>3. \A i \in Len(base) + 1 .. Len(hdrs') : header'[hdrs'[i]].virtual = 0 /\ ~header'[hdrs'[i]].tagged
    BY <2>2, NewHeaderIs
  <2>4. Len(base) \in Nat /\ Len(hdrs') \in Nat BY <2>2
  <2> QED BY <2>2, <2>3, <2>4 DEF Counting
<1>4. CASE mx_update_context
  <2>1. PICK m, s, r, x, q :
           /\ CountsRight(m, s, r) /\ m \in Ids /\ x \in Ids
           /\ SetRight(ctx, SeenAs(m)[x], q, TRUE) /\ s.hmap = [SeenAs(m) EXCEPT ![x] = q.h]
           /\ q.h.tagged = header[x].tagged
           /\ \A k \in Ids \ {m} : SeenAs(m)[k] = header[k]
           /\ pc'.at = "count" /\ pc'.msgno = pc.msgno + 1 /\ pc'.oldcount = pc.oldcount /\ pc.at = "count"
    BY <1>4, CountedOne
  <2>2. /\ hdrs' = hdrs /\ m = hdrs[pc.msgno] /\ pc.msgno \in DOMAIN hdrs /\ SeenAs(m) \in [Ids -> HEADER]
        /\ header' = [s.hmap EXCEPT ![m] = r.h]
    BY <2>1 DEF CountsRight
  <2>3. q.h.virtual = SeenAs(m)[x].virtual BY <2>1 DEF SetRight, SameView
  <2>4. \A k \in Ids \ {m} : header'[k].virtual = header[k].virtual /\ header'[k].tagged = header[k].tagged
    <3> TAKE k \in Ids \ {m}
    <3>1. header'[k] = s.hmap[k] /\ SeenAs(m)[k] = header[k] BY <2>1, <2>2
    <3>2. CASE k = x BY <2>1, <2>2, <2>3, <3>1, <3>2
    <3>3. CASE k # x BY <2>1, <2>2, <3>1, <3>3
    <3> QED BY <3>2, <3>3
  <2>5. /\ pc.oldcount \in Nat /\ pc.msgno \in 1 .. Len(hdrs) /\ pc.oldcount < pc.msgno
    BY <1>0, <2>1, <2>2, TypedParts DEF PcOK, Pc, Counting
  <2>6. \A i \in pc'.msgno .. Len(hdrs') : hdrs[i] \in Ids \ {m} /\ i \in pc.msgno .. Len(hdrs)
    <3> TAKE i \in pc'.msgno .. Len(hdrs')
    <3>1. i \in DOMAIN hdrs /\ i # pc.msgno /\ i \in pc.msgno .. Len(hdrs) BY <1>0, <2>1, <2>2, <2>5
    <3>2. hdrs[i] # m BY <1>0, <2>2, <3>1 DEF IsInjective, Shape
    <3> QED BY <1>0, <3>1, <3>2
  <2>7. \A i \in pc'.msgno .. Len(hdrs') : header'[hdrs'[i]].virtual = 0 /\ ~header'[hdrs'[i]].tagged
    BY <2>1, <2>2, <2>4, <2>6 DEF Counting
  <2>8. pc'.msgno \in 1 .. Len(hdrs') + 1 /\ pc'.oldcount < pc'.msgno BY <1>0, <2>1, <2>2, <2>5
  <2> QED BY <2>7, <2>8 DEF Counting
<1>5. CASE Settling
  <2>1. pc'.at # "count" BY <1>0, <1>5, SettlesIs DEF Settles, Shape
  <2> QED BY <2>1 DEF Counting
<1>6. CASE Setting
  <2>1. pc'.at # "count" BY <1>0, <1>6, SetsFlagIs DEF SetsFlag
  <2> QED BY <2>1 DEF Counting
<1>7. CASE StartsWriting
  <2>1. pc'.at # "count" BY <1>0, <1>7, StartsWritingIs, WritingIs DEF Writes
  <2> QED BY <2>1 DEF Counting
<1>8. CASE MboxWrite \/ MaildirWritten \/ mx_fastclose_mailbox
  <2>1. CASE Committed
    <3>1. pc'.at = "index" BY <1>0, <2>1, CommittedIs, AtIs DEF Commits, Places
    <3> QED BY <3>1 DEF Counting
  <2>2. CASE ~Committed
    <3>1. pc' = At("fastclose") \/ pc' = At("index") \/ pc' = At("closed")
      BY <1>8, <2>2 DEF MboxWrite, MaildirWritten, mx_fastclose_mailbox
    <3>2. pc'.at # "count" BY <3>1, AtIs DEF Places
    <3> QED BY <3>2 DEF Counting
  <2> QED BY <2>1, <2>2
<1>9. CASE MaildirWrite
  <2>1. pc' = [pc EXCEPT !.todo = Tail(@)] \/ pc' = At("index") BY <1>9 DEF MaildirWrite, Aborted
  <2>2. pc'.at # "count" BY <1>0, <1>9, <2>1, TailIs, AtIs DEF MaildirWrite, Places
  <2> QED BY <2>2 DEF Counting
<1> QED BY <1>1, <1>2, <1>3, <1>4, <1>5, <1>6, <1>7, <1>8, <1>9, StepKinds

LEMMA CountedMsgs ==
  ASSUME Base, Counting
  PROVE  /\ Counted \subseteq Msgs /\ Msgs \subseteq Ids
         /\ pc.at # "count" \/ pc.msgno > Len(hdrs) => Counted = Msgs
<1>1. /\ \A i \in DOMAIN hdrs : hdrs[i] \in Msgs
      /\ \A m \in Msgs : \E i \in DOMAIN hdrs : hdrs[i] = m
      /\ Len(hdrs) \in Nat /\ DOMAIN hdrs = 1 .. Len(hdrs) /\ Msgs \subseteq Ids
  BY MsgsAreIds DEF Base, Typed
<1>2. CASE pc.at # "count" BY <1>1, <1>2 DEF Counted
<1>3. CASE pc.at = "count"
  <2>1. pc.msgno \in 1 .. Len(hdrs) + 1 BY <1>3 DEF Counting
  <2>2. 1 .. pc.msgno - 1 \subseteq DOMAIN hdrs BY <1>1, <2>1
  <2>3. Counted = {hdrs[i] : i \in 1 .. pc.msgno - 1} BY <1>3 DEF Counted
  <2>4. pc.msgno > Len(hdrs) => 1 .. pc.msgno - 1 = DOMAIN hdrs BY <1>1, <2>1
  <2> QED BY <1>1, <1>3, <2>2, <2>3, <2>4
<1> QED BY <1>2, <1>3

\* What the five counters count, of the messages counted so far.
Counters == {"tagged", "deleted", "flagged", "unread", "new"}
Is(h, f) ==
  CASE f = "tagged"  -> h.tagged
    [] f = "deleted" -> h.deleted
    [] f = "flagged" -> h.flagged
    [] f = "unread"  -> ~h.read
    [] f = "new"     -> ~h.read /\ ~h.old
Which(f) == {m \in Counted : Is(header[m], f)}

LEMMA IsFlags ==
  ASSUME NEW g, NEW h, SameFlags(g, h), NEW f \in Counters
  PROVE  Is(g, f) <=> Is(h, f)
  BY DEF SameFlags, Is, Counters

LEMMA IsMoves ==
  ASSUME NEW c, NEW h, NEW r, SetRight(c, h, r, TRUE), NEW f \in Counters
  PROVE  r.c[f] = c[f] + (Bit(Is(r.h, f)) - Bit(Is(h, f)))
<1>1. Moves(c, h, r.c, r.h, TRUE) BY DEF SetRight
<1>2. CASE f = "tagged" BY <1>1, <1>2 DEF Moves, By, Is
<1>3. CASE f = "deleted" BY <1>1, <1>3 DEF Moves, By, Is
<1>4. CASE f = "flagged" BY <1>1, <1>4 DEF Moves, By, Is
<1>5. CASE f = "unread" BY <1>1, <1>5 DEF Moves, By, Is
<1>6. CASE f = "new" BY <1>1, <1>6 DEF Moves, By, Is
<1> QED BY <1>2, <1>3, <1>4, <1>5, <1>6 DEF Counters

\* Two finite sets that differ in m at most.
LEMMA OneApart ==
  ASSUME NEW S, NEW T, IsFiniteSet(S), IsFiniteSet(T), NEW m, S \ {m} = T \ {m}
  PROVE  Cardinality(T) = Cardinality(S) + (Bit(m \in T) - Bit(m \in S))
<1>1. /\ Cardinality(S) \in Nat /\ Cardinality(T) \in Nat
      /\ Cardinality(S \ {m}) = IF m \in S THEN Cardinality(S) - 1 ELSE Cardinality(S)
      /\ Cardinality(T \ {m}) = IF m \in T THEN Cardinality(T) - 1 ELSE Cardinality(T)
  BY FS_CardinalityType, FS_RemoveElement
<1>2. Cardinality(S \ {m}) = Cardinality(T \ {m}) OBVIOUS
<1>3. CASE m \in S /\ m \in T BY <1>1, <1>2, <1>3 DEF Bit
<1>4. CASE m \in S /\ m \notin T BY <1>1, <1>2, <1>4 DEF Bit
<1>5. CASE m \notin S /\ m \in T BY <1>1, <1>2, <1>5 DEF Bit
<1>6. CASE m \notin S /\ m \notin T BY <1>1, <1>2, <1>6 DEF Bit
<1> QED BY <1>3, <1>4, <1>5, <1>6

LEMMA CounterTyped ==
  ASSUME NEW c \in CONTEXT, NEW f \in Counters
  PROVE  c[f] \in Int
  BY DEF CONTEXT, Counters

LEMMA WhichFinite ==
  ASSUME Base, Counting
  PROVE  \A f : IsFiniteSet(Which(f)) /\ Cardinality(Which(f)) \in Nat
<1>1. \A f : Which(f) \in SUBSET Ids BY CountedMsgs DEF Which
<1> QED BY <1>1, IdsFinite

\* How far a counter is off.
Off(f) == ctx[f] - Cardinality(Which(f))

LEMMA SameOff ==
  ASSUME NEW f, ctx'[f] = ctx[f], Which(f)' = Which(f)
  PROVE  Off(f)' = Off(f)
  BY DEF Off

\* Setting a flag of a counted message leaves every counter as far off as it was.
LEMMA SetsFlagOff ==
  ASSUME Base, Counting, Base', Counting', NEW m, NEW r, SetsFlag(m, r), NEW f \in Counters
  PROVE  Off(f)' = Off(f)
<1>1. /\ Counted = Msgs /\ Counted' = Msgs /\ m \in Msgs
      /\ ctx' = r.c /\ header' = [header EXCEPT ![m] = r.h] /\ m \in Ids /\ Msgs \subseteq Ids
      /\ header \in [Ids -> HEADER] /\ SetRight(ctx, header[m], r, TRUE) /\ ctx \in CONTEXT /\ ctx' \in CONTEXT
  <2>1. pc.at # "count" /\ pc'.at # "count" /\ Msgs' = Msgs BY DEF SetsFlag, Msgs
  <2>2. Counted = Msgs BY <2>1 DEF Counted
  <2>3. Counted' = Msgs BY <2>1 DEF Counted
  <2>4. Msgs \subseteq Ids BY CountedMsgs
  <2>5. m \in Msgs /\ ctx' = r.c /\ header' = [header EXCEPT ![m] = r.h]
        /\ SetRight(ctx, header[m], r, TRUE) BY DEF SetsFlag
  <2>6. header \in [Ids -> HEADER] /\ ctx \in CONTEXT BY DEF Base, Typed, TypeOK
  <2>7. ctx' \in CONTEXT BY <2>5 DEF SetRight
  <2> QED BY <2>2, <2>3, <2>4, <2>5, <2>6, <2>7
<1>2. \A k \in Msgs \ {m} : header'[k] = header[k] BY <1>1
<1>3. header'[m] = r.h BY <1>1
<1>4. Which(f) = {k \in Msgs : Is(header[k], f)} /\ Which(f)' = {k \in Msgs : Is(header'[k], f)}
  BY <1>1 DEF Which
<1>5. Which(f) \ {m} = Which(f)' \ {m} BY <1>2, <1>4
<1>6. (m \in Which(f) <=> Is(header[m], f)) /\ (m \in Which(f)' <=> Is(r.h, f)) BY <1>1, <1>3, <1>4
<1>7. IsFiniteSet(Which(f)) /\ IsFiniteSet(Which(f)') /\ Cardinality(Which(f)) \in Nat
      /\ Cardinality(Which(f)') \in Nat
  <2>1. Which(f)' \in SUBSET Ids /\ Which(f) \in SUBSET Ids BY <1>1, <1>4
  <2> QED BY <2>1, IdsFinite
<1>8. Cardinality(Which(f)') = Cardinality(Which(f)) + (Bit(m \in Which(f)') - Bit(m \in Which(f)))
  BY <1>5, <1>7, OneApart
<1>9. ctx'[f] = ctx[f] + (Bit(Is(r.h, f)) - Bit(Is(header[m], f)))
  <2> DEFINE h == header[m]
  <2>1. SetRight(ctx, h, r, TRUE) BY <1>1
  <2> HIDE DEF h
  <2>2. r.c[f] = ctx[f] + (Bit(Is(r.h, f)) - Bit(Is(h, f))) BY <2>1, IsMoves
  <2> QED BY <1>1, <2>2 DEF h
<1>10. Bit(m \in Which(f)') = Bit(Is(r.h, f)) /\ Bit(m \in Which(f)) = Bit(Is(header[m], f))
  BY <1>6 DEF Bit
<1>11. Bit(Is(r.h, f)) \in Int /\ Bit(Is(header[m], f)) \in Int /\ ctx[f] \in Int /\ ctx'[f] \in Int
  BY <1>1, CounterTyped DEF Bit
<1>12. Off(f)' = ctx'[f] - Cardinality(Which(f)') /\ Off(f) = ctx[f] - Cardinality(Which(f)) BY DEF Off
<1> QED BY <1>7, <1>8, <1>9, <1>10, <1>11, <1>12

\* So does counting one more message, unless a superseded one is scored again:
\* then the D counter may only be too high.
LEMMA CountOff ==
  ASSUME Base, Counting, Base', Counting', mx_update_context, NEW f \in Counters,
         ~Rescores \/ f = "deleted"
  PROVE  Off(f)' = Off(f) \/ (Rescores /\ Off(f)' >= Off(f))
<1>1. PICK m, s, r, x, q :
           /\ CountsRight(m, s, r) /\ m \in Ids /\ m \notin Counted
           /\ x \in Ids /\ SetRight(ctx, SeenAs(m)[x], q, TRUE) /\ s.hmap = [SeenAs(m) EXCEPT ![x] = q.h]
           /\ q.h.tagged = header[x].tagged /\ s.c.deleted = q.c.deleted
           /\ \A k \in Ids \ {m} : SeenAs(m)[k] = header[k]
           /\ \A k \in Ids : SameFlags(SeenAs(m)[k], header[k])
           /\ Counted' = Counted \cup {m} /\ pc.at = "count"
  BY CountedOne
<1>2. /\ header' = [s.hmap EXCEPT ![m] = r.h] /\ header' \in [Ids -> HEADER]
      /\ SeenAs(m) \in [Ids -> HEADER] /\ SupersedesRight(ctx, SeenAs(m), s)
      /\ r.h.tagged = s.hmap[m].tagged /\ m = hdrs[pc.msgno] /\ pc.msgno \in DOMAIN hdrs
      /\ SetRight(s.c, s.hmap[m], r, FALSE)
  BY <1>1 DEF CountsRight
<1>3. /\ ctx \in CONTEXT /\ ctx' \in CONTEXT /\ header \in [Ids -> HEADER] /\ Counted \subseteq Ids
      /\ Len(hdrs) \in Nat /\ DOMAIN hdrs = 1 .. Len(hdrs)
  <2>1. /\ ctx \in CONTEXT /\ header \in [Ids -> HEADER] BY DEF Base, Typed, TypeOK
  <2>2. ctx' \in CONTEXT BY DEF Base, Typed, TypeOK
  <2>3. Counted \subseteq Ids BY CountedMsgs
  <2>4. Len(hdrs) \in Nat /\ DOMAIN hdrs = 1 .. Len(hdrs) BY MsgsAreIds DEF Base, Typed
  <2> QED BY <2>1, <2>2, <2>3, <2>4
<1>4. ~header[m].tagged
  <2>1. pc.msgno \in pc.msgno .. Len(hdrs) BY <1>2, <1>3
  <2> QED BY <1>1, <1>2, <2>1 DEF Counting
<1>5. ~Is(r.h, "tagged")
  <2>1. s.hmap[m].tagged = header[m].tagged
    <3>1. CASE m = x BY <1>1, <1>2, <3>1
    <3>2. CASE m # x BY <1>1, <1>2, <3>2 DEF SameFlags
    <3> QED BY <3>1, <3>2
  <2> QED BY <1>2, <1>4, <2>1 DEF Is
<1>6. ctx'[f] = s.c[f] + Bit(Is(r.h, f))
  <2>1. /\ ctx'.tagged = s.c.tagged
        /\ ctx'.deleted = s.c.deleted + Bit(r.h.deleted)
        /\ ctx'.flagged = s.c.flagged + Bit(r.h.flagged)
        /\ ctx'.unread = s.c.unread + Bit(~r.h.read)
        /\ ctx'.new = s.c.new + Bit(~r.h.read /\ ~r.h.old)
    BY <1>1 DEF CountsRight
  <2>2. s.c.tagged \in Int BY <1>2, ContextTyped DEF SupersedesRight, Numbers
  <2>3. CASE f = "tagged" BY <1>5, <2>1, <2>2, <2>3 DEF Bit
  <2>4. CASE f = "deleted" BY <2>1, <2>4 DEF Is
  <2>5. CASE f = "flagged" BY <2>1, <2>5 DEF Is
  <2>6. CASE f = "unread" BY <2>1, <2>6 DEF Is
  <2>7. CASE f = "new" BY <2>1, <2>7 DEF Is
  <2> QED BY <2>3, <2>4, <2>5, <2>6, <2>7 DEF Counters
<1> DEFINE V == {k \in Counted : Is(header'[k], f)}
<1>7. /\ Which(f) \in SUBSET Ids /\ Which(f)' \in SUBSET Ids /\ V \in SUBSET Ids
      /\ m \notin V /\ m \notin Which(f)
  BY <1>1, <1>3 DEF Which
<1>8. IsFiniteSet(V) /\ IsFiniteSet(Which(f)) /\ IsFiniteSet(Which(f)')
      /\ Cardinality(V) \in Nat /\ Cardinality(Which(f)) \in Nat /\ Cardinality(Which(f)') \in Nat
  BY <1>7, IdsFinite
<1>9. Cardinality(Which(f)') = Cardinality(V) + Bit(Is(r.h, f))
  <2>1. V \ {m} = Which(f)' \ {m} BY <1>1 DEF Which
  <2>2. m \in Which(f)' <=> Is(r.h, f) BY <1>1, <1>2 DEF Which
  <2>3. Cardinality(Which(f)') = Cardinality(V) + (Bit(m \in Which(f)') - Bit(m \in V))
    BY <1>8, <2>1, OneApart
  <2>4. Bit(m \in Which(f)') = Bit(Is(r.h, f)) /\ Bit(m \in V) = 0 BY <1>7, <2>2 DEF Bit
  <2>5. Bit(Is(r.h, f)) \in Int BY DEF Bit
  <2> HIDE DEF V
  <2> QED BY <1>8, <2>3, <2>4, <2>5
<1>10. \A k \in Ids \ {m, x} : header'[k] = header[k] BY <1>1, <1>2
<1>11. \A k \in Ids \ {m} : header'[k] = s.hmap[k]
  <2>1. s.hmap \in [Ids -> HEADER] BY <1>2 DEF SupersedesRight
  <2> QED BY <1>2, <2>1
<1>12. /\ Bit(Is(r.h, f)) \in Int /\ ctx[f] \in Int /\ ctx'[f] \in Int /\ s.c[f] \in Int
  BY <1>2, <1>3, CounterTyped DEF Bit, SupersedesRight
<1>13. /\ Off(f)' = ctx'[f] - Cardinality(Which(f)') /\ Off(f) = ctx[f] - Cardinality(Which(f)) BY DEF Off
<1>14. ASSUME s.c[f] - Cardinality(V) = ctx[f] - Cardinality(Which(f))
       PROVE  Off(f)' = Off(f)
  <2> HIDE DEF V
  <2> QED BY <1>6, <1>8, <1>9, <1>12, <1>13, <1>14
<1>15. CASE ~Rescores
  <2>1. s.hmap = SeenAs(m) /\ s.c[f] = ctx[f]
    <3>1. /\ s.hmap = SeenAs(m)
          /\ s.c.tagged = ctx.tagged /\ s.c.deleted = ctx.deleted /\ s.c.flagged = ctx.flagged
          /\ s.c.unread = ctx.unread /\ s.c.new = ctx.new
      BY <1>2, <1>15 DEF SupersedesRight
    <3> QED BY <3>1 DEF Counters
  <2>2. \A k \in Counted : header'[k] = header[k] BY <1>1, <1>3, <1>11, <2>1
  <2>3. V = Which(f) BY <2>2 DEF Which
  <2> QED BY <1>14, <2>1, <2>3
<1>16. CASE Rescores
  <2>1. f = "deleted" /\ s.c[f] >= ctx[f] /\ s.c[f] = q.c[f] BY <1>1, <1>2, <1>16 DEF SupersedesRight
  <2>2. CASE x \in Counted
    <3>1. x # m /\ header'[x] = q.h /\ SeenAs(m)[x] = header[x] BY <1>1, <1>2, <2>2
    <3>2. q.c[f] = ctx[f] + (Bit(Is(q.h, f)) - Bit(Is(header[x], f)))
      <4> DEFINE h == SeenAs(m)[x]
      <4>1. SetRight(ctx, h, q, TRUE) BY <1>1
      <4> HIDE DEF h
      <4>2. q.c[f] = ctx[f] + (Bit(Is(q.h, f)) - Bit(Is(h, f))) BY <4>1, IsMoves
      <4> QED BY <3>1, <4>2 DEF h
    <3>3. Which(f) \ {x} = V \ {x} BY <1>1, <1>3, <1>10 DEF Which
    <3>4. (x \in V <=> Is(q.h, f)) /\ (x \in Which(f) <=> Is(header[x], f)) BY <2>2, <3>1 DEF Which
    <3>5. Cardinality(V) = Cardinality(Which(f)) + (Bit(x \in V) - Bit(x \in Which(f)))
      BY <1>8, <3>3, OneApart
    <3>6. Bit(x \in V) = Bit(Is(q.h, f)) /\ Bit(x \in Which(f)) = Bit(Is(header[x], f))
      BY <3>4 DEF Bit
    <3>7. Bit(Is(q.h, f)) \in Int /\ Bit(Is(header[x], f)) \in Int BY DEF Bit
    <3> HIDE DEF V
    <3>8. s.c[f] - Cardinality(V) = ctx[f] - Cardinality(Which(f))
      BY <1>8, <1>12, <2>1, <3>2, <3>5, <3>6, <3>7
    <3> QED BY <1>14, <3>8
  <2>3. CASE x \notin Counted
    <3>1. \A k \in Counted : header'[k] = header[k] BY <1>1, <1>3, <1>10, <2>3
    <3>2. V = Which(f) BY <3>1 DEF Which
    <3> HIDE DEF V
    <3>3. Off(f)' >= Off(f) BY <1>6, <1>8, <1>9, <1>12, <1>13, <2>1, <3>2
    <3> QED BY <1>16, <3>3
  <2> QED BY <2>2, <2>3
<1> QED BY <1>15, <1>16

LEMMA SameCounted ==
  ASSUME NEW f \in Counters, ctx'[f] = ctx[f], Counted' = Counted,
         \A k \in Counted : SameFlags(header'[k], header[k])
  PROVE  Off(f)' = Off(f)
<1>1. \A k \in Counted : Is(header'[k], f) <=> Is(header[k], f)
  <2> TAKE k \in Counted
  <2> DEFINE g == header'[k]  h == header[k]
  <2>1. SameFlags(g, h) OBVIOUS
  <2> HIDE DEF g, h
  <2>2. Is(g, f) <=> Is(h, f) BY <2>1, IsFlags
  <2> QED BY <2>2 DEF g, h
<1>2. Which(f)' = Which(f) BY <1>1 DEF Which
<1> QED BY <1>2, SameOff

LEMMA NoneCounted ==
  ASSUME NEW f, ctx'[f] = 0, Which(f)' = {}
  PROVE  Off(f)' = 0
<1>1. Cardinality(Which(f)') = 0 BY FS_EmptySet
<1> QED BY <1>1 DEF Off

LEMMA NewCounters ==
  ASSUME NEW f \in Counters
  PROVE  NewContext[f] = 0
  BY DEF NewContext, Counters

LEMMA SameNumber ==
  ASSUME NEW c, NEW d, SameNumbers(c, d), NEW f \in Counters
  PROVE  d[f] = c[f]
  BY DEF SameNumbers, Counters

\* The tables are made anew: every counter is right.
LEMMA CommitsOff ==
  ASSUME Base, Commits, pc'.at # "count", NEW f \in Counters
  PROVE  Off(f)' = 0
<1>1. Counted' = Kept /\ Kept \in SUBSET Ids /\ KeptHeaders \in [Ids -> HEADER]
      /\ \A m \in Ids : SameFlags(header'[m], KeptHeaders[m])
  <2>1. /\ Kept \in SUBSET Ids /\ KeptHeaders \in [Ids -> HEADER]
        /\ mutt_sort_headers(Kept, sort, KeptHeaders)
    BY DEF Commits
  <2>2. Msgs' = Kept /\ \A m \in Ids : SameFlags(header'[m], KeptHeaders[m])
    BY <2>1, SortRight DEF Msgs
  <2> QED BY <2>1, <2>2 DEF Counted
<1>2. \A m \in Kept : /\ header'[m].read = header[m].read /\ header'[m].old = header[m].old
                      /\ header'[m].flagged = header[m].flagged
                      /\ header'[m].tagged = header[m].tagged /\ ~header'[m].deleted
  BY <1>1 DEF Commits, SameFlags
<1>3. Which(f)' = {m \in Kept : Is(header'[m], f)} BY <1>1 DEF Which
<1>4. Cardinality(Which(f)') \in Nat
  <2>1. Which(f)' \in SUBSET Ids BY <1>1, <1>3
  <2> QED BY <2>1, IdsFinite
<1>5. ctx'[f] = Cardinality(Which(f)')
  <2>1. CASE f = "tagged"
    <3>1. Which(f)' = {m \in Kept : header[m].tagged} BY <1>2, <1>3, <2>1 DEF Is
    <3> QED BY <2>1, <3>1 DEF Commits
  <2>2. CASE f = "flagged"
    <3>1. Which(f)' = {m \in Kept : header[m].flagged} BY <1>2, <1>3, <2>2 DEF Is
    <3> QED BY <2>2, <3>1 DEF Commits
  <2>3. CASE f = "unread"
    <3>1. Which(f)' = {m \in Kept : ~header[m].read} BY <1>2, <1>3, <2>3 DEF Is
    <3> QED BY <2>3, <3>1 DEF Commits
  <2>4. CASE f = "new"
    <3>1. Which(f)' = {m \in Kept : ~header[m].read /\ ~header[m].old} BY <1>2, <1>3, <2>4 DEF Is
    <3> QED BY <2>4, <3>1 DEF Commits
  <2>5. CASE f = "deleted"
    <3>1. Which(f)' = {} BY <1>2, <1>3, <2>5 DEF Is
    <3>2. ctx'[f] = 0 BY <2>5 DEF Commits
    <3> QED BY <3>1, <3>2, FS_EmptySet
  <2> QED BY <2>1, <2>2, <2>3, <2>4, <2>5 DEF Counters
<1> QED BY <1>4, <1>5 DEF Off

\* What new mail leaves as it was.
LEMMA ArrivalKeeps ==
  ASSUME Base, Counting, NEW base, NEW hmap, NEW bail, NEW new, Arrival(base, hmap, bail, new)
  PROVE  /\ ctx' = ctx /\ pc'.at = "count" /\ pc'.oldcount = Len(base) /\ pc.at \in {"index", "write"}
         /\ Counted = Msgs /\ Counted' = Msgs /\ new \cap Msgs = {}
         /\ \A k : k \in Msgs' <=> k \in Msgs \/ k \in new
         /\ \A k \in Msgs : SameFlags(header'[k], header[k])
         /\ \A k \in new : k \in DOMAIN disk' /\ header'[k] = NewHeader(disk'[k])
         /\ DOMAIN disk' = DOMAIN disk \cup new /\ \A k \in DOMAIN disk : disk'[k] = disk[k]
<1>1. Msgs \subseteq Ids BY CountedMsgs
<1>2. Arrives(base, hmap, bail, new) /\ Range(base) = Msgs /\ base \in Seq(Ids)
      /\ pc.at \in {"index", "write"}
      /\ \A m \in Ids : SameFlags(hmap[m], header[m])
  BY DEF Arrival
<1>3. new \cap Msgs = {} /\ new \cap DOMAIN disk = {} BY NewIds
<1>4. ctx' = ctx /\ pc'.at = "count" /\ pc'.msgno = Len(base) + 1 /\ pc'.oldcount = Len(base)
      /\ (\A i \in 1 .. Len(base) : hdrs'[i] = base[i])
      /\ (\A m \in Ids \ new : header'[m] = hmap[m])
      /\ Range(hdrs') = Range(base) \cup new
      /\ DOMAIN disk' = DOMAIN disk \cup new
      /\ (\A m \in DOMAIN disk \ new : disk'[m] = disk[m])
      /\ \A m \in new : header'[m] = NewHeader(disk'[m])
  BY <1>2 DEF Arrives
<1>5. Counted = Msgs BY <1>2 DEF Counted
<1>6. Counted' = Msgs
  <2>1. Len(base) \in Nat /\ DOMAIN base = 1 .. Len(base) BY <1>2
  <2>2. Counted' = {hdrs'[i] : i \in 1 .. pc'.msgno - 1} BY <1>4 DEF Counted
  <2>3. 1 .. pc'.msgno - 1 = DOMAIN base BY <1>4, <2>1
  <2>4. Counted' = {base[i] : i \in DOMAIN base} BY <1>4, <2>1, <2>2, <2>3
  <2> QED BY <1>2, <2>4 DEF Range
<1>7. \A k \in Msgs : SameFlags(header'[k], header[k]) BY <1>1, <1>2, <1>3, <1>4
<1>8. Msgs' = Msgs \cup new BY <1>2, <1>4 DEF Msgs
<1>9. \A k \in new : k \in DOMAIN disk' /\ header'[k] = NewHeader(disk'[k]) BY <1>4
<1>10. \A k \in DOMAIN disk : disk'[k] = disk[k] BY <1>3, <1>4
<1> QED BY <1>2, <1>3, <1>4, <1>5, <1>6, <1>7, <1>8, <1>9, <1>10

\* No other step moves a counter away from what it counts.
LEMMA OffStep ==
  ASSUME Base, Counting, [Next]_vars, Base', Counting', NEW f \in Counters,
         ~Rescores \/ f = "deleted"
  PROVE  Off(f)' = Off(f) \/ Off(f)' = 0 \/ (Rescores /\ Off(f)' >= Off(f))
<1>0. Typed /\ Shape /\ IsInjective(hdrs) /\ Msgs \subseteq Ids /\ header \in [Ids -> HEADER]
  BY CountedMsgs DEF Base, Shape, Typed, TypeOK
<1>1. CASE mx_open_mailbox
  <2>1. pc'.at = "count" /\ pc'.msgno = 1 BY <1>1, AtIs DEF mx_open_mailbox, Places, At
  <2>2. Counted' = {} BY <2>1 DEF Counted
  <2>3. Which(f)' = {} BY <2>2 DEF Which
  <2>4. ctx'[f] = 0 BY <1>1, NewCounters DEF mx_open_mailbox
  <2> QED BY <2>3, <2>4, NoneCounted
<1>2. CASE Arriving
  <2>1. PICK base, hmap, bail, new : Arrival(base, hmap, bail, new) BY <1>0, <1>2, ArrivalIs
  <2>2. ctx' = ctx /\ Counted = Msgs /\ Counted' = Msgs
        /\ \A k \in Msgs : SameFlags(header'[k], header[k])
    BY <2>1, ArrivalKeeps
  <2> QED BY <2>2, SameCounted
<1>3. CASE mx_update_context BY <1>3, CountOff
<1>4. CASE Settling
  <2>1. Settles BY <1>0, <1>4, SettlesIs
  <2>2. Counted = Msgs BY <2>1, CountedMsgs DEF Settles
  <2>3. Counted' = Msgs BY <2>1 DEF Counted, Settles, Msgs
  <2>4. ctx'[f] = ctx[f] BY <2>1, SameNumber DEF Settles
  <2>5. \A k \in Counted : SameFlags(header'[k], header[k]) BY <1>0, <2>1, <2>2 DEF Settles
  <2> QED BY <2>2, <2>3, <2>4, <2>5, SameCounted
<1>5. CASE Setting
  <2>1. PICK m, r : SetsFlag(m, r) BY <1>0, <1>5, SetsFlagIs
  <2> QED BY <2>1, SetsFlagOff
<1>6. CASE StartsWriting
  <2>1. PICK purge \in BOOLEAN, closing \in BOOLEAN :
          StartWriting(purge, closing) /\ pc.at \in {"index", "close", "move"}
    BY <1>0, <1>6, StartsWritingIs
  <2>2. Writes(purge, closing) BY <1>0, <2>1, WritingIs
  <2>3. Counted = Msgs BY <2>1 DEF Counted
  <2>4. Counted' = Msgs BY <2>2 DEF Writes, Counted, Msgs
  <2>5. CASE purge
    <3>1. ctx' = ctx /\ header' = header BY <2>2, <2>5 DEF Writes
    <3> QED BY <2>3, <2>4, <3>1, SameCounted DEF SameFlags
  <2>6. CASE ~purge
    <3>1. ctx' = [ctx EXCEPT !.deleted = 0] /\ header' = Spared(header) /\ ctx \in CONTEXT
      BY <2>2, <2>6 DEF Writes, Base, Typed, TypeOK
    <3>2. \A m \in Msgs : /\ ~header'[m].deleted
                          /\ header'[m].read = header[m].read /\ header'[m].old = header[m].old
                          /\ header'[m].flagged = header[m].flagged
                          /\ header'[m].tagged = header[m].tagged
      BY <1>0, <3>1, SparedIs
    <3>3. CASE f = "deleted"
      <4>1. Which(f)' = {} BY <2>4, <3>2, <3>3 DEF Which, Is
      <4>2. ctx'[f] = 0 BY <3>1, <3>3 DEF CONTEXT
      <4> QED BY <4>1, <4>2, NoneCounted
    <3>4. CASE f # "deleted"
      <4>1. ctx'[f] = ctx[f] BY <3>1, <3>4 DEF CONTEXT, Counters
      <4>2. \A m \in Msgs : Is(header'[m], f) <=> Is(header[m], f)
        BY <3>2, <3>4 DEF Is, Counters
      <4>3. Which(f)' = Which(f) BY <2>3, <2>4, <4>2 DEF Which
      <4> QED BY <4>1, <4>3, SameOff
    <3> QED BY <3>3, <3>4
  <2> QED BY <2>5, <2>6
<1>7. CASE MboxWrite \/ MaildirWritten
  <2>0. pc.at \in {"write", "mh_write"} BY <1>7 DEF MboxWrite, MaildirWritten
  <2>1. CASE Committed
    <3>1. Commits BY <1>0, <2>1, CommittedIs
    <3>2. pc'.at # "count" BY <3>1, AtIs DEF Commits, Places
    <3> QED BY <3>1, <3>2, CommitsOff
  <2>2. CASE ~Committed
    <3>1. UNCHANGED <<ctx, hdrs, v2r, header>> /\ (pc' = At("fastclose") \/ pc' = At("index"))
      BY <1>7, <2>2 DEF MboxWrite, MaildirWritten
    <3>2. pc'.at # "count" BY <3>1, AtIs DEF Places
    <3>3. Counted' = Counted BY <2>0, <3>1, <3>2 DEF Counted, Msgs
    <3> QED BY <3>1, <3>3, SameCounted DEF SameFlags
  <2> QED BY <2>1, <2>2
<1>8. CASE MaildirWrite
  <2>1. pc.at = "mh_write" /\ UNCHANGED <<ctx, hdrs, v2r, header>> BY <1>8 DEF MaildirWrite
  <2>2. pc' = [pc EXCEPT !.todo = Tail(@)] \/ pc' = At("index") BY <1>8 DEF MaildirWrite, Aborted
  <2>3. pc'.at # "count" BY <1>0, <1>8, <2>2, TailIs, AtIs DEF MaildirWrite, Places
  <2>4. Counted' = Counted BY <2>1, <2>3 DEF Counted, Msgs
  <2> QED BY <2>1, <2>4, SameCounted DEF SameFlags
<1>9. CASE mx_fastclose_mailbox
  <2>1. hdrs' = <<>> /\ ctx' = NewContext /\ pc' = At("closed") BY <1>9 DEF mx_fastclose_mailbox
  <2>2. pc'.at # "count" BY <2>1, AtIs DEF Places
  <2>3. Counted' = {} BY <2>1, <2>2 DEF Counted, Msgs, Range
  <2>4. Which(f)' = {} BY <2>3 DEF Which
  <2> QED BY <2>1, <2>4, NewCounters, NoneCounted
<1>10. CASE UNCHANGED vars
  <2>1. ctx' = ctx /\ Counted' = Counted /\ header' = header BY <1>10 DEF vars, Counted, Msgs
  <2> QED BY <2>1, SameCounted DEF SameFlags
<1> QED BY <1>1, <1>2, <1>3, <1>4, <1>5, <1>6, <1>7, <1>8, <1>9, <1>10, StepKinds

\* The D counter is never too low; without $score and supersedes together no
\* counter is off.
Off0 == ~Rescores => \A f \in Counters : Off(f) = 0
Over == Off("deleted") >= 0
Tallied == Base /\ Counting /\ Over /\ Off0

LEMMA OffTyped ==
  ASSUME Base, Counting, NEW f \in Counters
  PROVE  Off(f) \in Int
<1>1. ctx[f] \in Int /\ Cardinality(Which(f)) \in Nat
  BY CounterTyped, WhichFinite DEF Base, Typed, TypeOK
<1> QED BY <1>1 DEF Off

LEMMA TalliedInit ==
  ASSUME Init
  PROVE  Counting /\ Over /\ Off0
<1>1. pc.at = "closed" /\ hdrs = <<>> /\ ctx = NewContext BY AtIs DEF Init, Places
<1>2. Counting BY <1>1 DEF Counting
<1>3. Counted = {} BY <1>1 DEF Counted, Msgs, Range
<1>4. \A f \in Counters : Off(f) = 0
  <2> TAKE f \in Counters
  <2>1. ctx[f] = 0 BY <1>1, NewCounters
  <2>2. Cardinality(Which(f)) = 0
    <3>1. Which(f) = {} BY <1>3 DEF Which
    <3> QED BY <3>1, FS_EmptySet
  <2> QED BY <2>1, <2>2 DEF Off
<1>5. Off("deleted") = 0 BY <1>4 DEF Counters
<1> QED BY <1>2, <1>4, <1>5 DEF Over, Off0

LEMMA TalliedStep ==
  ASSUME Tallied, [Next]_vars, Base'
  PROVE  Tallied'
<1>1. Base /\ Counting /\ Over /\ Off0 BY DEF Tallied
<1>2. Counting' BY <1>1, CountingStep
<1>3. Rescores' <=> Rescores BY SameConf DEF Rescores
<1>4. Over'
  <2>1. "deleted" \in Counters BY DEF Counters
  <2>2. Off("deleted") \in Int /\ Off("deleted")' \in Int
    <3>1. Off("deleted") \in Int BY <1>1, <2>1, OffTyped
    <3>2. \A f \in Counters : Off(f)' \in Int
      <4> TAKE f \in Counters
      <4>1. ctx'[f] \in Int BY CounterTyped DEF Base, Typed, TypeOK
      <4>2. Cardinality(Which(f)') \in Nat
        <5>1. Counted' \subseteq Ids
          <6>1. pc'.at = "count" => pc'.msgno \in 1 .. Len(hdrs') + 1 BY <1>2 DEF Counting
          <6>2. hdrs' \in Seq(Ids) BY DEF Base, Typed, TypeOK
          <6>3. CASE pc'.at = "count"
            <7>1. Counted' = {hdrs'[i] : i \in 1 .. pc'.msgno - 1} BY <6>3 DEF Counted
            <7>2. 1 .. pc'.msgno - 1 \subseteq DOMAIN hdrs' BY <6>1, <6>2, <6>3
            <7> QED BY <6>2, <7>1, <7>2
          <6>4. CASE pc'.at # "count"
            <7>1. Counted' = Range(hdrs') BY <6>4 DEF Counted, Msgs
            <7> QED BY <6>2, <7>1 DEF Range
          <6> QED BY <6>3, <6>4
        <5>2. Which(f)' \in SUBSET Ids BY <5>1 DEF Which
        <5> QED BY <5>2, IdsFinite
      <4> QED BY <4>1, <4>2 DEF Off
    <3> QED BY <2>1, <3>1, <3>2
  <2>3. Off("deleted")' = Off("deleted") \/ Off("deleted")' = 0 \/ Off("deleted")' >= Off("deleted")
    BY <1>1, <1>2, <2>1, OffStep
  <2>4. Off("deleted") >= 0 BY <1>1 DEF Over
  <2>5. Off("deleted")' >= 0 BY <2>2, <2>3, <2>4
  <2> QED BY <2>5 DEF Over
<1>5. Off0'
  <2>1. SUFFICES ASSUME ~Rescores, NEW f \in Counters PROVE Off(f)' = 0 BY <1>3 DEF Off0
  <2>2. Off(f) = 0 BY <1>1, <2>1 DEF Off0
  <2>3. Off(f)' = Off(f) \/ Off(f)' = 0 BY <1>1, <1>2, <2>1, OffStep
  <2> QED BY <2>2, <2>3
<1> QED BY <1>2, <1>4, <1>5 DEF Tallied

\* The counters of the status line, and what of each invariant holds at every
\* moment of the loops that maintain them.
THEOREM TalliedCorrect == Spec => []Tallied
<1>1. Init => Counting /\ Over /\ Off0 BY TalliedInit
<1>2. Tallied /\ [Next]_vars /\ Base' => Tallied' BY TalliedStep
<1>3. Base /\ Counting /\ Over /\ Off0 => Tallied BY DEF Tallied
<1>4. Spec => []Base BY BaseCorrect
<1> QED BY <1>1, <1>2, <1>3, <1>4, PTL DEF Spec

LEMMA OffZero ==
  ASSUME Base, Counting, NEW f \in Counters, Off(f) = 0
  PROVE  ctx[f] = Cardinality(Which(f))
<1>1. ctx[f] \in Int /\ Cardinality(Which(f)) \in Nat
  BY CounterTyped, WhichFinite DEF Base, Typed, TypeOK
<1> QED BY <1>1 DEF Off

LEMMA TalliedMatch ==
  ASSUME Tallied, ~Rescores
  PROVE  CountersMatch
<1>1. \A f \in Counters : ctx[f] = Cardinality(Which(f)) BY OffZero DEF Tallied, Off0
<1>2. /\ Which("tagged") = {m \in Counted : header[m].tagged}
      /\ Which("deleted") = {m \in Counted : header[m].deleted}
      /\ Which("flagged") = {m \in Counted : header[m].flagged}
      /\ Which("unread") = {m \in Counted : ~header[m].read}
      /\ Which("new") = {m \in Counted : ~header[m].read /\ ~header[m].old}
  BY DEF Which, Is
<1> QED BY <1>1, <1>2 DEF Counters, CountersMatch

\* The five counters of the CONTEXT are what a count of the messages gives, at
\* every moment of every loop, for every mailbox and configuration but one:
\* with $score set, a message that supersedes another of the same batch has it
\* scored, and so counted, twice (mx_update_context() in mx.c).
THEOREM CountersCorrect == Spec => [](~Rescores => CountersMatch)
<1>1. Tallied => (~Rescores => CountersMatch) BY TalliedMatch
<1> QED BY <1>1, TalliedCorrect, PTL

\* While the mailbox is being written, every deleted message that is not to be
\* purged is in $trash, or still to be appended.
Trashing ==
  On("trash") =>
    /\ pc.at = "trash" => \A m \in ForTrash : trash[m] > 0 \/ m \in WorkOf(pc.todo)
    /\ pc.at \in {"write", "mh_write"} => \A m \in ForTrash : trash[m] > 0

LEMMA NoneDeleted ==
  ASSUME Tallied, ctx.deleted = 0, pc.at # "count"
  PROVE  \A m \in Msgs : ~header[m].deleted
<1>1. Base /\ Counting /\ Off("deleted") >= 0 BY DEF Tallied, Over
<1>2. Cardinality(Which("deleted")) \in Nat /\ IsFiniteSet(Which("deleted")) BY <1>1, WhichFinite
<1>3. Cardinality(Which("deleted")) = 0 BY <1>1, <1>2 DEF Off
<1>4. Which("deleted") = {} BY <1>2, <1>3, FS_EmptySet
<1>5. Counted = Msgs BY DEF Counted
<1> QED BY <1>4, <1>5 DEF Which, Is

LEMMA SameForTrash ==
  ASSUME UNCHANGED <<hdrs, header>>
  PROVE  ForTrash' = ForTrash
  BY DEF ForTrash, Msgs

LEMMA WritesTrashing ==
  ASSUME Tallied, NEW purge \in BOOLEAN, NEW closing, Writes(purge, closing), Msgs \subseteq Ids,
         pc.at # "count", conf' = conf
  PROVE  Trashing'
<1>0. On("trash")' <=> On("trash") BY DEF On
<1>1. pc'.at \in {"trash", "fastclose", "write"} BY DEF Writes
<1>2. CASE ~purge
  <2>1. header' = Spared(header) /\ Msgs' = Msgs /\ pc'.at # "trash" BY <1>2 DEF Writes, Msgs
  <2>2. \A m \in Msgs : ~header'[m].deleted BY <2>1, SparedIs DEF Tallied, Base
  <2>3. ForTrash' = {} BY <2>1, <2>2 DEF ForTrash
  <2> QED BY <1>1, <2>1, <2>3 DEF Trashing
<1>3. CASE purge
  <2>1. ForTrash' = ForTrash BY <1>3, SameForTrash DEF Writes
  <2>2. CASE pc'.at = "trash"
    <3>1. WorkOf(pc'.todo) = ForTrash BY <2>2 DEF Writes
    <3> QED BY <2>1, <2>2, <3>1 DEF Trashing
  <2>3. CASE pc'.at # "trash"
    <3>1. SUFFICES ASSUME On("trash"), pc'.at = "write" PROVE ForTrash = {}
      BY <1>0, <1>1, <2>1, <2>3 DEF Trashing
    <3>2. ctx.deleted = 0 \/ ForTrash = {} BY <1>3, <3>1 DEF Writes
    <3>3. ctx.deleted = 0 => ForTrash = {} BY NoneDeleted DEF ForTrash
    <3> QED BY <3>2, <3>3
  <2> QED BY <2>2, <2>3
<1> QED BY <1>2, <1>3

LEMMA TrashAppendIs ==
  ASSUME Typed, trash_append, pc'.at = "trash"
  PROVE  /\ pc.at = "trash" /\ pc.todo # <<>> /\ pc' = [pc EXCEPT !.todo = Tail(@)]
         /\ trash \in [Ids -> Nat] /\ Head(pc.todo).m \in Ids
         /\ trash' = [trash EXCEPT ![Head(pc.todo).m] = @ + 1]
         /\ UNCHANGED <<hdrs, header>>
<1>1. pc.at = "trash" /\ pc.todo # <<>> /\ UNCHANGED <<hdrs, header>> BY DEF trash_append
<1>2. pc' # At("index") BY AtIs DEF Places
<1>3. pc' = [pc EXCEPT !.todo = Tail(@)] /\ trash' = [trash EXCEPT ![Head(pc.todo).m] = @ + 1]
  BY <1>2 DEF trash_append, Aborted
<1>4. trash \in [Ids -> Nat] BY DEF Typed, TypeOK
<1>5. Head(pc.todo) \in MsgWork BY <1>1, <1>3, TailIs
<1>6. Head(pc.todo).m \in Ids BY <1>5, WorkIs
<1> QED BY <1>1, <1>3, <1>4, <1>6

LEMMA TrashingStep ==
  ASSUME Tallied, Trashing, [Next]_vars
  PROVE  Trashing'
<1>0. Typed /\ Shape /\ IsInjective(hdrs) /\ Msgs \subseteq Ids /\ conf' = conf
  BY CountedMsgs, SameConf DEF Base, Shape, Tallied
<1>1. On("trash")' <=> On("trash") BY <1>0 DEF On
<1>2. ASSUME pc'.at \notin {"trash", "write", "mh_write"} PROVE Trashing' BY <1>2 DEF Trashing
<1>3. CASE mx_open_mailbox \/ mx_update_context \/ mx_fastclose_mailbox
  <2>1. CASE mx_open_mailbox
    <3>1. pc'.at = "count" BY <2>1, AtIs DEF mx_open_mailbox, Places, At
    <3> QED BY <1>2, <3>1
  <2>2. CASE mx_update_context
    <3>1. pc'.at = "count" BY <2>2, CountedOne DEF Tallied
    <3> QED BY <1>2, <3>1
  <2>3. CASE mx_fastclose_mailbox
    <3>1. pc'.at = "closed" BY <2>3, AtIs DEF mx_fastclose_mailbox, Places
    <3> QED BY <1>2, <3>1
  <2> QED BY <1>3, <2>1, <2>2, <2>3
<1>4. CASE Arriving
  <2>1. PICK base, hmap, bail, new : Arrival(base, hmap, bail, new) BY <1>0, <1>4, ArrivalIs
  <2>2. pc'.at = "count" BY <2>1 DEF Arrival, Arrives
  <2> QED BY <1>2, <2>2
<1>5. CASE Settling
  <2>1. CASE trash_append /\ pc'.at = "trash"
    <3>1. /\ pc.at = "trash" /\ pc.todo # <<>> /\ pc' = [pc EXCEPT !.todo = Tail(@)]
          /\ trash \in [Ids -> Nat] /\ Head(pc.todo).m \in Ids
          /\ trash' = [trash EXCEPT ![Head(pc.todo).m] = @ + 1]
          /\ UNCHANGED <<hdrs, header>>
      BY <1>0, <2>1, TrashAppendIs
    <3>2. WorkOf(pc.todo) = {Head(pc.todo).m} \cup WorkOf(pc'.todo) BY <1>0, <3>1, TailIs
    <3>3. ForTrash' = ForTrash /\ ForTrash \subseteq Ids BY <1>0, <3>1, SameForTrash DEF ForTrash
    <3>4. SUFFICES ASSUME On("trash"), NEW m \in ForTrash PROVE trash'[m] > 0 \/ m \in WorkOf(pc'.todo)
      BY <1>1, <2>1, <3>3 DEF Trashing
    <3>5. trash[m] > 0 \/ m \in WorkOf(pc.todo) BY <3>1, <3>4 DEF Trashing
    <3>6. CASE m = Head(pc.todo).m BY <3>1, <3>6
    <3>7. CASE m # Head(pc.todo).m
      <4>1. trash'[m] = trash[m] BY <3>1, <3>3, <3>7
      <4> QED BY <3>2, <3>5, <3>7, <4>1
    <3> QED BY <3>6, <3>7
  <2>2. CASE Trashed
    <3>1. pc.at = "trash" /\ pc.todo = <<>> /\ UNCHANGED <<hdrs, header, trash>>
          /\ pc'.at = "write"
      BY <1>0, <2>2, PcNext, TypedParts DEF Trashed, Places, store
    <3>2. WorkOf(pc.todo) = {} BY <3>1, NoWork
    <3>3. ForTrash' = ForTrash BY <3>1, SameForTrash
    <3> QED BY <1>1, <3>1, <3>2, <3>3 DEF Trashing
  <2>3. CASE MaildirStart
    <3>1. pc.at = "write" /\ UNCHANGED <<hdrs, header, trash>> BY <2>3 DEF MaildirStart, store
    <3>2. ForTrash' = ForTrash BY <3>1, SameForTrash
    <3>3. pc'.at # "trash" BY <1>0, <2>3 DEF MaildirStart, Typed, TypeOK, Pc
    <3> QED BY <1>1, <3>1, <3>2, <3>3 DEF Trashing
  <2> QED BY <1>0, <1>2, <1>5, <2>1, <2>2, <2>3, SettlesTo
<1>6. CASE Setting
  <2>1. pc'.at \in {"apply", "move"} BY <1>0, <1>6, SetsFlagIs DEF SetsFlag
  <2> QED BY <1>2, <2>1
<1>7. CASE StartsWriting
  <2>1. PICK purge \in BOOLEAN, closing \in BOOLEAN :
          StartWriting(purge, closing) /\ pc.at \in {"index", "close", "move"}
    BY <1>0, <1>7, StartsWritingIs
  <2>2. Writes(purge, closing) BY <1>0, <2>1, WritingIs
  <2> QED BY <1>0, <2>1, <2>2, WritesTrashing
<1>8. CASE MboxWrite \/ MaildirWritten
  <2>1. CASE Committed
    <3>1. pc'.at = "index" BY <1>0, <2>1, CommittedIs, AtIs DEF Commits, Places
    <3> QED BY <1>2, <3>1
  <2>2. CASE ~Committed
    <3>1. pc' = At("fastclose") \/ pc' = At("index") BY <1>8, <2>2 DEF MboxWrite, MaildirWritten
    <3>2. pc'.at \in {"fastclose", "index"} BY <3>1, AtIs DEF Places
    <3> QED BY <1>2, <3>2
  <2> QED BY <2>1, <2>2
<1>9. CASE MaildirWrite
  <2>1. pc.at = "mh_write" /\ UNCHANGED <<hdrs, header, trash>> BY <1>9 DEF MaildirWrite
  <2>2. pc' = [pc EXCEPT !.todo = Tail(@)] \/ pc' = At("index") BY <1>9 DEF MaildirWrite, Aborted
  <2>3. pc'.at # "trash" BY <1>0, <1>9, <2>2, TailIs, AtIs DEF MaildirWrite, Places
  <2>4. ForTrash' = ForTrash BY <2>1, SameForTrash
  <2> QED BY <1>1, <2>1, <2>3, <2>4 DEF Trashing
<1>10. CASE UNCHANGED vars
  <2>1. UNCHANGED <<hdrs, header, trash, pc>> BY <1>10 DEF vars
  <2>2. ForTrash' = ForTrash BY <2>1, SameForTrash
  <2> QED BY <1>1, <2>1, <2>2 DEF Trashing
<1> QED BY <1>3, <1>4, <1>5, <1>6, <1>7, <1>8, <1>9, <1>10, StepKinds

\* What NoMailLost says of one step.
Lost(m) ==
  \/ saved[m] > 0
  \/ /\ header[m].deleted
     /\ On("trash") => trash[m] > 0 \/ header[m].purge

\* Only writing removes messages.
LEMMA SameDisk ==
  ASSUME Base, Counting, [Next]_vars, NEW m \in DOMAIN disk \ DOMAIN disk'
  PROVE  MboxWrite \/ MaildirWrite
<1>0. Typed /\ Shape /\ IsInjective(hdrs) BY DEF Base, Shape
<1>1. CASE mx_open_mailbox \/ mx_update_context \/ mx_fastclose_mailbox \/ MaildirWritten \/ UNCHANGED vars
  BY <1>1 DEF mx_open_mailbox, mx_update_context, mx_fastclose_mailbox, MaildirWritten, vars, store
<1>2. CASE Arriving
  <2>1. PICK base, hmap, bail, new : Arrival(base, hmap, bail, new) BY <1>0, <1>2, ArrivalIs
  <2>2. DOMAIN disk' = DOMAIN disk \cup new BY <2>1 DEF Arrival, Arrives
  <2> QED BY <2>2
<1>3. CASE Settling BY <1>0, <1>3, SettlesIs DEF Settles
<1>4. CASE Setting BY <1>0, <1>4, SetsFlagIs DEF SetsFlag
<1>5. CASE StartsWriting BY <1>0, <1>5, StartsWritingIs, WritingIs DEF Writes, store
<1> QED BY <1>1, <1>2, <1>3, <1>4, <1>5, StepKinds

LEMMA LostStep ==
  ASSUME Tallied, Trashing, [Next]_vars, NEW m \in DOMAIN disk \ DOMAIN disk'
  PROVE  Lost(m)
<1>0. Typed /\ Shape /\ Base /\ Counting BY DEF Tallied, Base
<1>1. MboxWrite \/ MaildirWrite BY <1>0, SameDisk
<1>2. pc.at \in {"write", "mh_write"} BY <1>1 DEF MboxWrite, MaildirWrite
<1>3. m \in Msgs BY <1>0, <1>2 DEF Shape, Gone
<1>4. header[m].deleted
  <2>1. CASE MboxWrite
    <3>1. PICK first : WritesMbox(first) BY <1>0, <2>1, MboxWriteIs
    <3> QED BY <1>3, <3>1 DEF WritesMbox, Kept
  <2>2. CASE MaildirWrite BY <1>3, <2>2 DEF MaildirWrite
  <2> QED BY <1>1, <2>1, <2>2
<1>5. On("trash") => trash[m] > 0 \/ header[m].purge BY <1>2, <1>3, <1>4 DEF Trashing, ForTrash
<1> QED BY <1>4, <1>5 DEF Lost

\* While $trash is filled and the mailbox is written, each deleted message is
\* still to be appended, has been appended or is to be purged (trash_append(),
\* mx_sync_mailbox(), mx_close_mailbox()).
THEOREM TrashingCorrect == Spec => []Trashing
<1>1. Init => Trashing
  <2>1. Init => pc.at = "closed" BY AtIs DEF Init, Places
  <2> QED BY <2>1 DEF Trashing
<1>2. Tallied /\ Trashing /\ [Next]_vars => Trashing' BY TrashingStep
<1> QED BY <1>1, <1>2, TalliedCorrect, PTL DEF Spec

\* No message leaves the mailbox on disk unless it was deleted and, with $trash
\* set, appended there or marked to be purged: whatever arrives while the
\* mailbox is open, whatever append is broken off half way and however often
\* (mx_sync_mailbox(), mx_close_mailbox(), mbox_sync_mailbox(),
\* mh_sync_mailbox()).
THEOREM NoMailIsLost == Spec => NoMailLost
<1>1. Tallied /\ Trashing /\ [Next]_vars => \A m \in DOMAIN disk \ DOMAIN disk' : Lost(m)
  BY LostStep
<1>2. Tallied /\ Trashing /\ [Next]_vars =>
        [\A m \in DOMAIN disk \ DOMAIN disk' :
           \/ saved[m] > 0
           \/ /\ header[m].deleted
              /\ On("trash") => trash[m] > 0 \/ header[m].purge]_vars
  BY <1>1 DEF Lost
<1> QED BY <1>2, TalliedCorrect, TrashingCorrect, PTL DEF Spec, NoMailLost
------------------------------------------------------------------------------
\* What the index shows and the mailbox on disk says.
SameAs(m) == m \notin DOMAIN disk \/ Written(header[m]) = Written(NewHeader(disk[m]))
Recorded == \A m \in Msgs : header[m].changed => ctx.changed
Stays == \A m \in Msgs : header[m].changed \/ SameAs(m)
Renamed == pc.at = "mh_write" => \A m \in Msgs : m \in WorkOf(pc.todo) \/ SameAs(m)
Found == ~Rescores /\ ctx.changed => \E m \in Counted : header[m].changed
Remembered == Recorded /\ Stays /\ Renamed /\ Found

Alike(g, h) == g.read = h.read /\ g.old = h.old /\ g.replied = h.replied /\ g.flagged = h.flagged

LEMMA WrittenAlike ==
  ASSUME NEW g, NEW h, Alike(g, h)
  PROVE  Written(g) = Written(h)
<1>1. \A f \in {"read", "old", "replied", "flagged"} : g[f] = h[f] BY DEF Alike
<1> QED BY <1>1 DEF Written

LEMMA WrittenTwice ==
  ASSUME NEW h \in HEADER
  PROVE  Written(NewHeader(Written(h))) = Written(h)
<1> DEFINE W == Written(h)
           g == NewHeader(W)
<1>1. /\ g.read = ("read" \in W) /\ g.old = ("old" \in W)
      /\ g.replied = ("replied" \in W) /\ g.flagged = ("flagged" \in W)
  BY DEF NewHeader
<1>2. W \subseteq {"read", "old", "replied", "flagged"} /\ ("read" \in W => "old" \in W)
  BY DEF Written
<1> HIDE DEF W, g
<1>3. Written(g) = W
  <2>1. \A f \in {"read", "old", "replied", "flagged"} : g[f] <=> f \in W BY <1>1
  <2> QED BY <1>1, <1>2, <2>1 DEF Written
<1> QED BY <1>3 DEF W, g

\* A message whose flags stay as they are stays as the disk has it.
LEMMA StaysSame ==
  ASSUME NEW m, header[m].changed \/ SameAs(m), Alike(header'[m], header[m]),
         header[m].changed => header'[m].changed,
         m \in DOMAIN disk' => m \in DOMAIN disk /\ disk'[m] = disk[m]
  PROVE  header'[m].changed \/ SameAs(m)'
<1>1. Written(header'[m]) = Written(header[m]) BY WrittenAlike
<1> QED BY <1>1 DEF SameAs

LEMMA FlagsAlike ==
  ASSUME NEW g, NEW h, SameFlags(g, h)
  PROVE  Alike(g, h) /\ g.changed = h.changed
  BY DEF SameFlags, Alike

\* A flag that is set is either the same or marks the message.
LEMMA StaysSet ==
  ASSUME NEW h, NEW g, NEW c, NEW d, NEW upd, Marks(c, h, d, g, upd), NEW X, NEW in,
         h.changed \/ ~in \/ Written(h) = X
  PROVE  g.changed \/ ~in \/ Written(g) = X
<1>1. (h.changed => g.changed) /\ (g.changed \/ Alike(g, h)) BY DEF Marks, Alike
<1> QED BY <1>1, WrittenAlike

LEMMA RememberedSame ==
  ASSUME Remembered, Msgs' = Msgs, Counted = Msgs, Counted' = Msgs, conf' = conf, disk' = disk,
         \A m \in Msgs : Alike(header'[m], header[m]) /\ header'[m].changed = header[m].changed,
         ctx'.changed = ctx.changed,
         pc'.at = "mh_write" => Msgs \subseteq WorkOf(pc'.todo) \/ pc' = pc
  PROVE  Remembered'
<1>1. Recorded /\ Stays /\ Renamed /\ Found BY DEF Remembered
<1>2. Recorded' BY <1>1 DEF Recorded
<1>3. \A m \in Msgs : SameAs(m)' <=> SameAs(m) BY WrittenAlike DEF SameAs
<1>4. Stays' BY <1>1, <1>3 DEF Stays
<1>5. Renamed' BY <1>1, <1>3 DEF Renamed
<1>6. Found' BY <1>1 DEF Found, Rescores
<1> QED BY <1>2, <1>4, <1>5, <1>6 DEF Remembered

LEMMA RememberedOpen ==
  ASSUME Base, mx_open_mailbox, conf' = conf
  PROVE  Remembered'
<1>1. disk' = disk /\ ctx' = NewContext
      /\ header' = [m \in Ids |-> IF m \in DOMAIN disk THEN NewHeader(disk[m]) ELSE NoHeader]
      /\ hdrs' \in DiskOrder(DOMAIN disk) /\ pc'.at = "count"
  BY AtIs DEF mx_open_mailbox, store, Places, At
<1>2. DOMAIN disk \in SUBSET Ids BY DEF Base, Typed, TypeOK
<1>3. Msgs' = DOMAIN disk BY <1>1, <1>2, DiskOrderIs DEF Msgs
<1>4. \A m \in Msgs' : header'[m] = NewHeader(disk'[m]) BY <1>1, <1>2, <1>3
<1>5. \A m \in Msgs' : ~header'[m].changed BY <1>4, NewHeaderIs
<1>6. Recorded' BY <1>5 DEF Recorded
<1>7. Stays' BY <1>4 DEF Stays, SameAs
<1>8. Renamed' BY <1>1 DEF Renamed
<1>9. Found' BY <1>1 DEF Found, NewContext
<1> QED BY <1>6, <1>7, <1>8, <1>9 DEF Remembered

LEMMA RememberedArriving ==
  ASSUME Base, Counting, Remembered, Arriving, conf' = conf
  PROVE  Remembered'
<1>1. PICK base, hmap, bail, new : Arrival(base, hmap, bail, new) BY ArrivalIs DEF Base, Shape
<1>2. /\ ctx' = ctx /\ pc'.at = "count"
      /\ Counted = Msgs /\ Counted' = Msgs /\ Msgs' = Msgs \cup new /\ new \cap Msgs = {}
      /\ \A k \in Msgs : SameFlags(header'[k], header[k])
      /\ \A k \in new : k \in DOMAIN disk' /\ header'[k] = NewHeader(disk'[k])
      /\ DOMAIN disk' = DOMAIN disk \cup new /\ \A k \in DOMAIN disk : disk'[k] = disk[k]
  <2>0. \A k : k \in Msgs' <=> k \in Msgs \/ k \in new BY <1>1, ArrivalKeeps
  <2>1. ctx' = ctx /\ pc'.at = "count" /\ Counted = Msgs /\ Counted' = Msgs /\ new \cap Msgs = {}
    BY <1>1, ArrivalKeeps
  <2>2. \A k \in Msgs : SameFlags(header'[k], header[k]) BY <1>1, ArrivalKeeps
  <2>3. \A k \in new : k \in DOMAIN disk' /\ header'[k] = NewHeader(disk'[k])
    BY <1>1, ArrivalKeeps
  <2>4. DOMAIN disk' = DOMAIN disk \cup new /\ \A k \in DOMAIN disk : disk'[k] = disk[k]
    BY <1>1, ArrivalKeeps
  <2> QED BY <2>0, <2>1, <2>2, <2>3, <2>4
<1>3. \A k \in Msgs : Alike(header'[k], header[k]) /\ header'[k].changed = header[k].changed
  BY <1>2, FlagsAlike
<1>4. \A k \in new : ~header'[k].changed /\ SameAs(k)' BY <1>2, NewHeaderIs DEF SameAs
<1>5. Recorded' BY <1>2, <1>3, <1>4 DEF Recorded, Remembered
<1>6. Stays'
  <2>1. \A k \in Msgs : header'[k].changed \/ SameAs(k)'
    <3> TAKE k \in Msgs
    <3>1. header[k].changed \/ SameAs(k) BY DEF Remembered, Stays
    <3>2. k \in DOMAIN disk' => k \in DOMAIN disk /\ disk'[k] = disk[k] BY <1>2
    <3> QED BY <1>3, <3>1, <3>2, StaysSame
  <2> QED BY <1>2, <1>4, <2>1 DEF Stays
<1>7. Renamed' BY <1>2 DEF Renamed
<1>8. Found' BY <1>2, <1>3 DEF Found, Remembered, Rescores
<1> QED BY <1>5, <1>6, <1>7, <1>8 DEF Remembered

\* mutt_set_flag() on one message.
LEMMA RememberedSet ==
  ASSUME Base, Counting, Remembered, Setting, conf' = conf
  PROVE  Remembered'
<1>1. PICK m, r : SetsFlag(m, r) BY SetsFlagIs DEF Base
<1>2. /\ m \in Msgs /\ m \in Ids /\ ctx' = r.c /\ header' = [header EXCEPT ![m] = r.h]
      /\ pc.at \in {"apply", "move"} /\ pc'.at = pc.at /\ disk' = disk /\ Msgs' = Msgs
      /\ Marks(ctx, header[m], r.c, r.h, TRUE)
  BY <1>1 DEF SetsFlag, SetRight, Msgs
<1>3. Msgs \subseteq Ids /\ header \in [Ids -> HEADER] BY CountedMsgs DEF Base, Typed, TypeOK
<1>4. header'[m] = r.h /\ \A k \in Msgs \ {m} : header'[k] = header[k] BY <1>2, <1>3
<1>5. Counted = Msgs /\ Counted' = Msgs BY <1>2 DEF Counted
<1>6. /\ ctx.changed => ctx'.changed
      /\ header[m].changed => header'[m].changed
      /\ ctx'.changed => ctx.changed \/ header'[m].changed
      /\ header'[m].changed => header[m].changed \/ ctx'.changed
  BY <1>2, <1>4 DEF Marks
<1>7. Recorded' BY <1>2, <1>4, <1>6 DEF Recorded, Remembered
<1>8. Stays'
  <2>1. SUFFICES ASSUME NEW k \in Msgs PROVE header'[k].changed \/ SameAs(k)'
    BY <1>2 DEF Stays
  <2>2. header[k].changed \/ SameAs(k) BY DEF Remembered, Stays
  <2>3. CASE k # m BY <1>2, <1>4, <2>2, <2>3 DEF SameAs
  <2>4. CASE k = m
    <3> DEFINE h == header[m]
               g == header'[m]
               X == Written(NewHeader(disk[m]))
               in == m \in DOMAIN disk
    <3>1. h.changed \/ ~in \/ Written(h) = X BY <2>2, <2>4 DEF SameAs
    <3>2. Marks(ctx, h, ctx', g, TRUE) BY <1>2, <1>4
    <3>3. g.changed \/ ~in \/ Written(g) = X
      <4> HIDE DEF h, g, X, in
      <4> QED BY <3>1, <3>2, StaysSet
    <3> QED BY <1>2, <2>4, <3>3 DEF SameAs
  <2> QED BY <2>3, <2>4
<1>9. Renamed' BY <1>2 DEF Renamed
<1>10. Found' BY <1>2, <1>4, <1>5, <1>6 DEF Found, Remembered, Rescores
<1> QED BY <1>7, <1>8, <1>9, <1>10 DEF Remembered

\* One message more is counted.
LEMMA RememberedCount ==
  ASSUME Base, Counting, Remembered, mx_update_context, conf' = conf
  PROVE  Remembered'
<1>1. PICK m, s, r, x, q :
           /\ CountsRight(m, s, r) /\ m \in Ids /\ m \notin Counted
           /\ x \in Ids /\ SetRight(ctx, SeenAs(m)[x], q, TRUE) /\ s.hmap = [SeenAs(m) EXCEPT ![x] = q.h]
           /\ s.c.changed = q.c.changed
           /\ \A k \in Ids : SameFlags(SeenAs(m)[k], header[k])
           /\ Counted' = Counted \cup {m} /\ pc'.at = "count"
  BY CountedOne
<1>2. /\ header' = [s.hmap EXCEPT ![m] = r.h] /\ header' \in [Ids -> HEADER]
      /\ SeenAs(m) \in [Ids -> HEADER] /\ s.hmap \in [Ids -> HEADER]
      /\ SupersedesRight(ctx, SeenAs(m), s)
      /\ Marks(s.c, s.hmap[m], r.c, r.h, FALSE) /\ m \in Msgs
      /\ ctx'.changed = (s.c.changed \/ r.h.changed)
      /\ UNCHANGED <<hdrs, disk>>
  BY <1>1 DEF CountsRight, SetRight, SupersedesRight, store
<1>3. Marks(ctx, SeenAs(m)[x], q.c, q.h, TRUE) BY <1>1 DEF SetRight
<1>4. Msgs \subseteq Ids /\ Msgs' = Msgs /\ Counted \subseteq Msgs BY <1>2, CountedMsgs DEF Msgs
<1>5. \A k \in Ids : Alike(SeenAs(m)[k], header[k]) /\ SeenAs(m)[k].changed = header[k].changed
  BY <1>1, FlagsAlike
<1>6. /\ header'[m] = r.h
      /\ \A k \in Ids \ {m} : header'[k] = s.hmap[k]
      /\ s.hmap[x] = q.h
      /\ \A k \in Ids \ {x} : s.hmap[k] = SeenAs(m)[k]
  BY <1>1, <1>2
<1>7. /\ ctx.changed => s.c.changed
      /\ q.h.changed => header[x].changed \/ s.c.changed
      /\ header[x].changed => q.h.changed
      /\ s.hmap[m].changed => r.h.changed
  BY <1>1, <1>2, <1>3, <1>5 DEF Marks
<1>8. \A k \in Ids : s.hmap[k].changed => header[k].changed \/ s.c.changed BY <1>5, <1>6, <1>7
<1>9. Recorded'
  <2>1. SUFFICES ASSUME NEW k \in Msgs, header'[k].changed PROVE ctx'.changed BY <1>4 DEF Recorded
  <2>2. header[k].changed => ctx.changed BY DEF Recorded, Remembered
  <2>3. CASE k = m BY <1>2, <1>6, <2>1, <2>3
  <2>4. CASE k # m BY <1>2, <1>4, <1>6, <1>7, <1>8, <2>1, <2>2, <2>4
  <2> QED BY <2>3, <2>4
<1>10. Stays'
  <2>1. SUFFICES ASSUME NEW k \in Msgs PROVE header'[k].changed \/ SameAs(k)' BY <1>4 DEF Stays
  <2>2. header[k].changed \/ SameAs(k) BY DEF Remembered, Stays
  <2> DEFINE X == Written(NewHeader(disk[k]))
             in == k \in DOMAIN disk
             h == SeenAs(m)[k]
             i == s.hmap[k]
             g == header'[k]
  <2>3. h.changed \/ ~in \/ Written(h) = X
    <3>1. Alike(h, header[k]) /\ h.changed = header[k].changed BY <1>4, <1>5
    <3>2. Written(h) = Written(header[k]) BY <3>1, WrittenAlike
    <3> QED BY <2>2, <3>1, <3>2 DEF SameAs
  <2>4. i.changed \/ ~in \/ Written(i) = X
    <3>1. CASE k # x
      <4>1. i = h BY <1>4, <1>6, <3>1
      <4> QED BY <2>3, <4>1
    <3>2. CASE k = x
      <4>1. Marks(ctx, h, q.c, i, TRUE) BY <1>3, <1>6, <3>2
      <4> HIDE DEF X, in, h, i
      <4> QED BY <2>3, <4>1, StaysSet
    <3> QED BY <3>1, <3>2
  <2>5. g.changed \/ ~in \/ Written(g) = X
    <3>1. CASE k # m
      <4>1. g = i BY <1>4, <1>6, <3>1
      <4> QED BY <2>4, <4>1
    <3>2. CASE k = m
      <4>1. Marks(s.c, i, r.c, g, FALSE) BY <1>2, <1>6, <3>2
      <4> HIDE DEF X, in, g, i
      <4> QED BY <2>4, <4>1, StaysSet
    <3> QED BY <3>1, <3>2
  <2> QED BY <1>2, <2>5 DEF SameAs
<1>11. Renamed' BY <1>1 DEF Renamed
<1>12. Found'
  <2>1. SUFFICES ASSUME ~Rescores, ctx'.changed PROVE \E k \in Counted \cup {m} : header'[k].changed
    BY <1>1 DEF Found, Rescores
  <2>2. s.hmap = SeenAs(m) /\ s.c.changed = ctx.changed BY <1>2, <2>1 DEF SupersedesRight
  <2>3. CASE r.h.changed BY <1>6, <2>3
  <2>4. CASE ctx.changed
    <3>1. PICK k \in Counted : header[k].changed BY <2>1, <2>4 DEF Found, Remembered
    <3>2. k \in Ids \ {m} BY <1>1, <1>4, <3>1
    <3>3. header'[k].changed BY <1>5, <1>6, <2>2, <3>1, <3>2
    <3> QED BY <3>3
  <2> QED BY <1>2, <2>1, <2>2, <2>3, <2>4
<1> QED BY <1>9, <1>10, <1>11, <1>12 DEF Remembered

\* mx_update_tables(): what is kept is as it was written.
LEMMA RememberedCommit ==
  ASSUME Base, Commits, pc'.at = "index",
         \A m \in Kept : m \in DOMAIN disk' => Written(header[m]) = Written(NewHeader(disk'[m]))
  PROVE  Remembered'
<1>1. Kept \in SUBSET Ids /\ KeptHeaders \in [Ids -> HEADER]
      /\ mutt_sort_headers(Kept, sort, KeptHeaders) /\ ~ctx'.changed
  BY DEF Commits
<1>2. Msgs' = Kept /\ \A m \in Ids : SameFlags(header'[m], KeptHeaders[m])
  BY <1>1, SortRight DEF Msgs
<1>3. \A m \in Kept : Alike(header'[m], header[m]) /\ ~header'[m].changed
  BY <1>1, <1>2 DEF Commits, SameFlags, Alike
<1>4. Recorded' BY <1>2, <1>3 DEF Recorded
<1>5. Stays'
  <2>1. SUFFICES ASSUME NEW m \in Kept PROVE SameAs(m)' BY <1>2 DEF Stays
  <2>2. Written(header'[m]) = Written(header[m]) BY <1>3, WrittenAlike
  <2> QED BY <2>2 DEF SameAs
<1>6. Renamed' BY DEF Renamed
<1>7. Found' BY <1>1 DEF Found
<1> QED BY <1>4, <1>5, <1>6, <1>7 DEF Remembered

LEMMA RememberedMbox ==
  ASSUME Base, Counting, Remembered, MboxWrite, conf' = conf
  PROVE  Remembered'
<1>1. PICK first : WritesMbox(first) BY MboxWriteIs DEF Base
<1>2. /\ pc.at = "write" /\ conf.magic = "MUTT_MBOX" /\ first \in Msgs
      /\ \A m \in Msgs : Touched(m) => first <= m
      /\ DOMAIN disk' = Kept
      /\ \A m \in Kept : disk'[m] = IF m >= first THEN Written(header[m]) ELSE disk[m]
  BY <1>1 DEF WritesMbox
<1>3. Msgs \subseteq DOMAIN disk BY <1>2 DEF Base, Shape, Gone
<1>4. Msgs \subseteq Ids /\ Kept \subseteq Msgs /\ header \in [Ids -> HEADER]
  BY CountedMsgs DEF Base, Typed, TypeOK, Kept
<1>5. ASSUME NEW m \in Kept PROVE Written(header[m]) = Written(NewHeader(disk'[m]))
  <2>1. CASE m >= first
    <3>1. disk'[m] = Written(header[m]) BY <1>2, <2>1
    <3>2. header[m] \in HEADER BY <1>4
    <3> QED BY <3>1, <3>2, WrittenTwice
  <2>2. CASE ~(m >= first)
    <3>1. m \in Int /\ first \in Int BY <1>2, <1>4 DEF Ids
    <3>2. ~Touched(m) BY <1>2, <1>4, <2>2, <3>1
    <3>3. ~header[m].changed BY <3>2 DEF Touched
    <3>4. SameAs(m) BY <1>4, <3>3 DEF Remembered, Stays
    <3>5. disk'[m] = disk[m] BY <1>2, <2>2
    <3> QED BY <1>3, <1>4, <3>4, <3>5 DEF SameAs
  <2> QED BY <2>1, <2>2
<1>6. CASE Committed
  <2>1. Commits BY <1>6, CommittedIs DEF Base
  <2>2. pc'.at = "index" BY <2>1, AtIs DEF Commits, Places
  <2> QED BY <1>5, <2>1, <2>2, RememberedCommit
<1>7. CASE ~Committed
  <2>1. pc' = At("fastclose") /\ UNCHANGED <<ctx, hdrs, v2r, header>> BY <1>1, <1>7 DEF WritesMbox
  <2>2. pc'.at = "fastclose" BY <2>1, AtIs DEF Places
  <2>3. Msgs' = Msgs /\ Counted = Msgs /\ Counted' = Msgs BY <1>2, <2>1, <2>2 DEF Counted, Msgs
  <2>4. Recorded' BY <2>1, <2>3 DEF Recorded, Remembered
  <2>5. Stays'
    <3>1. SUFFICES ASSUME NEW m \in Msgs PROVE SameAs(m)' BY <2>3 DEF Stays
    <3>2. CASE m \in Kept BY <1>5, <2>1, <3>2 DEF SameAs
    <3>3. CASE m \notin Kept BY <1>2, <3>3 DEF SameAs
    <3> QED BY <3>2, <3>3
  <2>6. Renamed' BY <2>2 DEF Renamed
  <2>7. Found' BY <2>1, <2>3 DEF Found, Remembered, Rescores
  <2> QED BY <2>4, <2>5, <2>6, <2>7 DEF Remembered
<1> QED BY <1>6, <1>7

LEMMA RememberedRename ==
  ASSUME Base, Counting, Remembered, MaildirWrite, conf' = conf
  PROVE  Remembered'
<1>0. PICK m : m = Head(pc.todo).m OBVIOUS
<1>1. pc.at = "mh_write" /\ pc.todo # <<>> /\ UNCHANGED <<ctx, hdrs, header>> BY DEF MaildirWrite
<1>2. Msgs' = Msgs /\ Msgs \subseteq Ids /\ header \in [Ids -> HEADER]
  BY <1>1, CountedMsgs DEF Msgs, Base, Typed, TypeOK
<1>3. pc' = [pc EXCEPT !.todo = Tail(@)] \/ pc' = At("index") BY DEF MaildirWrite, Aborted
<1>4. pc'.at # "count" BY <1>1, <1>3, TailIs, AtIs DEF Places, Base
<1>5. Counted = Msgs /\ Counted' = Msgs BY <1>1, <1>2, <1>4 DEF Counted
<1>6. \A k \in Msgs : k # m /\ SameAs(k) => SameAs(k)'
  <2>1. \A k : k # m /\ k \in DOMAIN disk' => k \in DOMAIN disk /\ disk'[k] = disk[k]
    <3>1. CASE header[m].deleted /\ disk' = [k \in DOMAIN disk \ {m} |-> disk[k]] BY <3>1
    <3>2. CASE disk' = [disk EXCEPT ![m] = Written(header[m])] BY <3>2
    <3>3. CASE disk' = disk BY <3>3
    <3> QED BY <1>0, <3>1, <3>2, <3>3 DEF MaildirWrite
  <2> QED BY <1>1, <2>1 DEF SameAs
<1>7. m \in Msgs /\ pc' # At("index") => SameAs(m)'
  <2>0. SUFFICES ASSUME m \in Msgs, pc' # At("index") PROVE SameAs(m)' OBVIOUS
  <2>1. CASE header[m].deleted
    <3>1. disk' = [k \in DOMAIN disk \ {m} |-> disk[k]] BY <1>0, <2>0, <2>1 DEF MaildirWrite
    <3> QED BY <3>1 DEF SameAs
  <2>2. CASE ~header[m].deleted
    <3>1. disk' = IF header[m].changed /\ m \in DOMAIN disk
                    THEN [disk EXCEPT ![m] = Written(header[m])] ELSE disk
      BY <1>0, <2>0, <2>2 DEF MaildirWrite, Aborted
    <3>2. CASE header[m].changed /\ m \in DOMAIN disk
      <4>1. disk'[m] = Written(header[m]) BY <3>1, <3>2
      <4>2. header[m] \in HEADER BY <1>2, <2>0
      <4>3. Written(NewHeader(disk'[m])) = Written(header[m]) BY <4>1, <4>2, WrittenTwice
      <4> QED BY <1>1, <4>3 DEF SameAs
    <3>3. CASE ~(header[m].changed /\ m \in DOMAIN disk)
      <4>1. SameAs(m) BY <2>0, <3>3 DEF SameAs, Stays, Remembered
      <4> QED BY <1>1, <3>1, <3>3, <4>1 DEF SameAs
    <3> QED BY <3>2, <3>3
  <2> QED BY <2>1, <2>2
<1>8. CASE pc' = At("index")
  <2>1. pc'.at = "index" BY <1>8, AtIs DEF Places
  <2>2. disk' = disk \/ pc' = [pc EXCEPT !.todo = Tail(@)] BY DEF MaildirWrite
  <2>3. pc' # [pc EXCEPT !.todo = Tail(@)] BY <1>1, <2>1, TailIs DEF Base
  <2>4. disk' = disk BY <2>2, <2>3
  <2>5. \A k \in Msgs : Alike(header'[k], header[k]) BY <1>1 DEF Alike
  <2> QED BY <1>1, <1>2, <1>5, <2>1, <2>4, <2>5, RememberedSame
<1>9. CASE pc' # At("index")
  <2>1. pc' = [pc EXCEPT !.todo = Tail(@)] BY <1>3, <1>9
  <2>2. WorkOf(pc.todo) = {m} \cup WorkOf(pc'.todo) BY <1>0, <1>1, <2>1, TailIs DEF Base
  <2>3. Recorded' BY <1>1, <1>2 DEF Recorded, Remembered
  <2>4. Stays' BY <1>1, <1>2, <1>6, <1>7, <1>9 DEF Stays, Remembered
  <2>5. Renamed' BY <1>1, <1>2, <1>6, <1>7, <1>9, <2>2 DEF Renamed, Remembered
  <2>6. Found' BY <1>1, <1>5 DEF Found, Remembered, Rescores
  <2> QED BY <2>3, <2>4, <2>5, <2>6 DEF Remembered
<1> QED BY <1>8, <1>9

LEMMA RememberedStep ==
  ASSUME Base, Counting, Remembered, [Next]_vars
  PROVE  Remembered'
<1>0. Typed /\ Shape /\ IsInjective(hdrs) /\ Msgs \subseteq Ids /\ conf' = conf
  BY CountedMsgs, SameConf DEF Base, Shape
<1>1. CASE mx_open_mailbox BY <1>0, <1>1, RememberedOpen
<1>2. CASE Arriving BY <1>0, <1>2, RememberedArriving
<1>3. CASE mx_update_context BY <1>0, <1>3, RememberedCount
<1>4. CASE Setting BY <1>0, <1>4, RememberedSet
<1>5. CASE MboxWrite BY <1>0, <1>5, RememberedMbox
<1>6. CASE MaildirWrite BY <1>0, <1>6, RememberedRename
<1>7. CASE Settling
  <2>1. Settles BY <1>0, <1>7, SettlesIs
  <2>2. Counted = Msgs /\ Msgs' = Msgs /\ disk' = disk /\ ctx'.changed = ctx.changed
    BY <2>1, CountedMsgs DEF Settles, SameNumbers, Msgs
  <2>3. Counted' = Msgs BY <2>1, <2>2 DEF Counted, Settles
  <2>4. \A m \in Msgs : SameFlags(header'[m], header[m]) BY <1>0, <2>1 DEF Settles
  <2>5. \A m \in Msgs : Alike(header'[m], header[m]) /\ header'[m].changed = header[m].changed
    BY <2>4, FlagsAlike
  <2>6. pc'.at = "mh_write" => WorkOf(pc'.todo) = Msgs
    <3>1. SUFFICES ASSUME pc'.at = "mh_write" PROVE WorkOf(pc'.todo) = Msgs OBVIOUS
    <3>2. MaildirStart BY <1>0, <1>7, <3>1, SettlesTo
    <3>3. PICK T \in InOrder(Msgs) : pc' = [pc EXCEPT !.at = "mh_write", !.todo = Pass(T, "DELETE", TRUE)]
      BY <3>2 DEF MaildirStart
    <3>4. pc'.todo = Pass(T, "DELETE", TRUE) BY <1>0, <3>3 DEF Typed, TypeOK, Pc
    <3>5. WorkOf(Pass(T, "DELETE", TRUE)) = Msgs BY <1>0, <3>3, WorkListTyped DEF Flags
    <3> QED BY <3>4, <3>5
  <2> QED BY <1>0, <2>2, <2>3, <2>5, <2>6, RememberedSame
<1>8. CASE StartsWriting
  <2>1. PICK purge \in BOOLEAN, closing \in BOOLEAN :
          StartWriting(purge, closing) /\ pc.at \in {"index", "close", "move"}
    BY <1>0, <1>8, StartsWritingIs
  <2>2. Writes(purge, closing) BY <1>0, <2>1, WritingIs
  <2>3. pc'.at \in {"trash", "fastclose", "write"} /\ Msgs' = Msgs /\ disk' = disk
    BY <2>2 DEF Writes, Msgs, store
  <2>4. Counted = Msgs /\ Counted' = Msgs BY <2>1, <2>3 DEF Counted
  <2>5. ctx'.changed = ctx.changed
    <3>1. ctx \in CONTEXT BY <1>0 DEF Typed, TypeOK
    <3> QED BY <2>2, <3>1 DEF Writes, CONTEXT
  <2>6. \A m \in Msgs : Alike(header'[m], header[m]) /\ header'[m].changed = header[m].changed
    <3>1. CASE purge BY <2>2, <3>1 DEF Writes, Alike
    <3>2. CASE ~purge
      <4>1. header' = Spared(header) BY <2>2, <3>2 DEF Writes
      <4> QED BY <1>0, <4>1, SparedIs DEF Alike
    <3> QED BY <3>1, <3>2
  <2> QED BY <1>0, <2>3, <2>4, <2>5, <2>6, RememberedSame
<1>9. CASE MaildirWritten
  <2>1. pc.at = "mh_write" /\ pc.todo = <<>> /\ disk' = disk BY <1>9 DEF MaildirWritten, store
  <2>2. CASE Committed
    <3>1. Commits BY <1>0, <2>2, CommittedIs
    <3>2. pc'.at = "index" BY <3>1, AtIs DEF Commits, Places
    <3>3. \A m \in Msgs : SameAs(m) BY <2>1, NoWork DEF Renamed, Remembered
    <3>4. \A m \in Kept : m \in DOMAIN disk' => Written(header[m]) = Written(NewHeader(disk'[m]))
      BY <2>1, <3>3 DEF Kept, SameAs
    <3> QED BY <3>1, <3>2, <3>4, RememberedCommit
  <2>3. CASE ~Committed
    <3>1. UNCHANGED <<ctx, hdrs, v2r, header>> /\ (pc' = At("fastclose") \/ pc' = At("index"))
      BY <1>9, <2>3 DEF MaildirWritten
    <3>2. pc'.at \in {"fastclose", "index"} BY <3>1, AtIs DEF Places
    <3>3. Msgs' = Msgs /\ Counted = Msgs /\ Counted' = Msgs BY <2>1, <3>1, <3>2 DEF Counted, Msgs
    <3>4. \A m \in Msgs : Alike(header'[m], header[m]) BY <3>1 DEF Alike
    <3> QED BY <1>0, <2>1, <3>1, <3>2, <3>3, <3>4, RememberedSame
  <2> QED BY <2>2, <2>3
<1>10. CASE mx_fastclose_mailbox
  <2>1. hdrs' = <<>> /\ ctx' = NewContext /\ pc' = At("closed") BY <1>10 DEF mx_fastclose_mailbox
  <2>2. pc'.at = "closed" BY <2>1, AtIs DEF Places
  <2>3. Msgs' = {} BY <2>1 DEF Msgs, Range
  <2> QED BY <2>1, <2>2, <2>3 DEF Remembered, Recorded, Stays, Renamed, Found, NewContext
<1>11. CASE UNCHANGED vars
  <2>1. UNCHANGED <<conf, ctx, hdrs, header, disk, pc>> BY <1>11 DEF vars
  <2> QED BY <2>1
        DEF Remembered, Recorded, Stays, Renamed, Found, SameAs, Msgs, Counted, Rescores
<1> QED BY <1>1, <1>2, <1>3, <1>4, <1>5, <1>6, <1>7, <1>8, <1>9, <1>10, <1>11, StepKinds

\* A header that differs from the message on disk is marked as changed, and so
\* is the mailbox, in every loop that appends, writes, commits or merges what
\* has arrived (mutt_set_flag(), mx_sync_mailbox(), maildir_check_mailbox()).
THEOREM RememberedCorrect == Spec => []Remembered
<1>1. Init => Remembered
  <2>1. SUFFICES ASSUME Init PROVE Remembered OBVIOUS
  <2>2. pc.at = "closed" /\ hdrs = <<>> /\ ctx = NewContext BY <2>1, AtIs DEF Init, Places
  <2>3. Msgs = {} BY <2>2 DEF Msgs, Range
  <2> QED BY <2>2, <2>3 DEF Remembered, Recorded, Stays, Renamed, Found, NewContext
<1>2. Tallied => Base /\ Counting BY DEF Tallied
<1>3. Base /\ Counting /\ Remembered /\ [Next]_vars => Remembered' BY RememberedStep
<1> QED BY <1>1, <1>2, <1>3, TalliedCorrect, PTL DEF Spec

LEMMA NothingForgotten ==
  ASSUME Tallied, Remembered
  PROVE  ChangesRemembered /\ (~Rescores => SyncFindsWork)
<1>1. Counted \subseteq Msgs BY CountedMsgs DEF Tallied
<1>2. ChangesRemembered BY <1>1 DEF ChangesRemembered, Remembered, Recorded, Stays, SameAs
<1>3. ASSUME ~Rescores PROVE SyncFindsWork
  <2>1. CASE ctx.changed BY <1>3, <2>1 DEF Remembered, Found, SyncFindsWork, Touched
  <2>2. CASE ~ctx.changed /\ ctx.deleted # 0
    <3>1. Off("deleted") = 0 BY <1>3 DEF Tallied, Off0, Counters
    <3>2. ctx.deleted = Cardinality(Which("deleted")) BY <3>1, OffZero DEF Tallied, Counters
    <3>3. Which("deleted") # {} BY <2>2, <3>2, FS_EmptySet
    <3>4. PICK m \in Counted : header[m].deleted BY <3>3 DEF Which, Is
    <3> QED BY <3>4 DEF SyncFindsWork, Touched
  <2>3. CASE ~ctx.changed /\ ctx.deleted = 0 BY <2>3 DEF SyncFindsWork
  <2> QED BY <2>1, <2>2, <2>3
<1> QED BY <1>2, <1>3

\* A change of flags that the mailbox on disk does not show is marked at the
\* message and at the mailbox, while messages arrive, while the mailbox is
\* written and after a write that was broken off; and a mailbox that is marked
\* holds a marked message (what mbox_sync_mailbox() says "should never" fail),
\* unless superseded messages are scored twice.
THEOREM NothingIsForgotten == Spec => [](ChangesRemembered /\ (~Rescores => NoChangeForgotten))
<1>1. Tallied /\ Remembered => ChangesRemembered /\ (~Rescores => NoChangeForgotten)
  BY NothingForgotten DEF NoChangeForgotten
<1> QED BY <1>1, TalliedCorrect, RememberedCorrect, PTL
------------------------------------------------------------------------------
\* What becomes of a message that was copied to $mbox.  Parting: nothing is
\* left to delete when the headers go, unless the user marked the mailbox not
\* to be written.
Parting ==
  /\ pc.at = "closed" => \A m \in Ids : ~header[m].deleted
  /\ pc.at = "fastclose" => ctx.dontwrite \/ \A m \in DOMAIN disk : ~header[m].deleted
Moving == pc.at = "move" => \A m \in WorkOf(pc.todo) : ~(header[m].flagged /\ On("keep_flagged"))
Asked ==
  pc.at \in {"close", "move"} \/ (pc.at = "apply" /\ pc.then = "close") =>
    pc.purge \/ On("delete_no")
Departing == Parting /\ Moving /\ Asked

\* $flag_safe protects flagged messages from deletion, so that $move without
\* $keep_flagged copies them whenever the mailbox is closed.
Careful == On("flag_safe") => On("keep_flagged")

LEMMA CopyMarks ==
  ASSUME Typed, Moving, Careful, NEW m, NEW r, Saves(m, r), pc.at = "move", pc.todo # <<>>
  PROVE  r.h.deleted
<1>1. m = Head(pc.todo).m /\ (r.h.deleted \/ (header[m].flagged /\ On("flag_safe")))
      /\ pc' = [pc EXCEPT !.todo = Tail(@)]
  BY DEF Saves
<1>2. m \in WorkOf(pc.todo) BY <1>1, TailIs
<1> QED BY <1>1, <1>2 DEF Moving, Careful

\* What is deleted stays so while one more message is counted.
LEMMA CountKeeps ==
  ASSUME Base, Counting, mx_update_context, NEW k \in Ids, header[k].deleted
  PROVE  header'[k].deleted
<1>1. PICK m, s, r, x, q :
           /\ CountsRight(m, s, r) /\ m \in Ids
           /\ x \in Ids /\ SetRight(ctx, SeenAs(m)[x], q, TRUE) /\ s.hmap = [SeenAs(m) EXCEPT ![x] = q.h]
           /\ s.c.deleted = q.c.deleted
           /\ \A i \in Ids : SameFlags(SeenAs(m)[i], header[i])
  BY CountedOne
<1>2. /\ header' = [s.hmap EXCEPT ![m] = r.h]
      /\ s.hmap[m].deleted => r.h.deleted
      /\ SeenAs(m) \in [Ids -> HEADER] /\ s.hmap \in [Ids -> HEADER] /\ s.c.deleted >= ctx.deleted
      /\ s.c \in CONTEXT
  BY <1>1 DEF CountsRight, SupersedesRight
<1>3. SeenAs(m)[k].deleted BY <1>1 DEF SameFlags
<1>4. s.hmap[k].deleted
  <2>1. CASE k # x BY <1>1, <1>2, <1>3, <2>1
  <2>2. CASE k = x
    <3> DEFINE h == SeenAs(m)[x]
               g == q.h
    <3>1. q.c.deleted = ctx.deleted + By(TRUE, h.deleted, g.deleted) BY <1>1 DEF SetRight, Moves
    <3>2. ctx.deleted \in Int /\ h.deleted
      <4>1. ctx \in CONTEXT BY DEF Base, Typed, TypeOK
      <4> QED BY <1>3, <2>2, <4>1 DEF CONTEXT
    <3>3. q.c.deleted >= ctx.deleted BY <1>1, <1>2
    <3> HIDE DEF h, g
    <3>4. g.deleted BY <3>1, <3>2, <3>3 DEF By, Bit
    <3> QED BY <1>1, <1>2, <2>2, <3>4 DEF g
  <2> QED BY <2>1, <2>2
<1> QED BY <1>1, <1>2, <1>4

\* What MovedIsDeleted says of one step and one message.
Deserted(m) ==
  saved'[m] > 0 /\ ~header'[m].deleted =>
    \/ pc.at = "apply" \/ (saved[m] > 0 /\ ~header[m].deleted)
    \/ On("delete_no") /\ pc.at \in {"index", "close", "move"}
    \/ ctx.dontwrite /\ pc.at = "fastclose"

LEMMA DesertedStep ==
  ASSUME Base, Counting, Departing, Careful, [Next]_vars, NEW m \in DOMAIN disk \cap DOMAIN disk'
  PROVE  Deserted(m)
<1>0. /\ Typed /\ Shape /\ IsInjective(hdrs) /\ Msgs \subseteq Ids /\ conf' = conf /\ m \in Ids
      /\ ~Gone => m \in Msgs
  BY CountedMsgs, SameConf DEF Base, Shape, Typed, TypeOK
<1> SUFFICES ASSUME saved'[m] > 0, ~header'[m].deleted
    PROVE  \/ pc.at = "apply" \/ (saved[m] > 0 /\ ~header[m].deleted)
           \/ On("delete_no") /\ pc.at \in {"index", "close", "move"}
           \/ ctx.dontwrite /\ pc.at = "fastclose"
  BY DEF Deserted
<1>1. CASE mx_open_mailbox
  <2>1. pc.at = "closed" /\ saved' = saved BY <1>1 DEF mx_open_mailbox, store
  <2> QED BY <1>0, <2>1 DEF Departing, Parting
<1>2. CASE Arriving
  <2>1. PICK base, hmap, bail, new : Arrival(base, hmap, bail, new) BY <1>0, <1>2, ArrivalIs
  <2>2. pc.at \in {"index", "write"} /\ \A k \in Msgs : SameFlags(header'[k], header[k])
    BY <2>1, ArrivalKeeps
  <2>3. saved' = saved BY <2>1 DEF Arrival, Arrives
  <2>4. m \in Msgs BY <1>0, <2>2 DEF Gone
  <2> QED BY <2>2, <2>3, <2>4 DEF SameFlags
<1>3. CASE mx_update_context
  <2>1. saved' = saved BY <1>3 DEF mx_update_context, store
  <2> QED BY <1>0, <1>3, <2>1, CountKeeps
<1>4. CASE Settling
  <2>1. Settles BY <1>0, <1>4, SettlesIs
  <2> QED BY <1>0, <2>1 DEF Settles, SameFlags
<1>5. CASE Setting
  <2>1. PICK k, r : SetsFlag(k, r) /\ (pc.at = "move" => Saves(k, r)) BY <1>0, <1>5, SetsFlagIs
  <2>2. /\ pc.at \in {"apply", "move"} /\ pc.todo # <<>> /\ k \in Ids
        /\ header' = [header EXCEPT ![k] = r.h] /\ header \in [Ids -> HEADER]
        /\ saved \in [Ids -> Nat]
    BY <1>0, <2>1 DEF SetsFlag, Typed, TypeOK
  <2>3. CASE pc.at = "apply" BY <2>3
  <2>4. CASE pc.at = "move"
    <3>1. Saves(k, r) BY <2>1, <2>4
    <3>2. r.h.deleted BY <1>0, <2>2, <2>4, <3>1, CopyMarks DEF Departing
    <3>3. m # k BY <2>2, <3>2
    <3>4. saved'[m] = saved[m] /\ header'[m] = header[m] BY <1>0, <2>2, <3>1, <3>3 DEF Saves
    <3> QED BY <3>4
  <2> QED BY <2>2, <2>3, <2>4
<1>6. CASE StartsWriting
  <2>1. PICK purge \in BOOLEAN, closing \in BOOLEAN :
          /\ StartWriting(purge, closing) /\ pc.at \in {"index", "close", "move"}
          /\ ~purge /\ pc.at = "index" => On("delete_no")
          /\ pc.at # "index" => purge = pc.purge
    <3>1. CASE mx_sync_mailbox BY <1>0, <1>6, <3>1, StartsWritingIs DEF mx_sync_mailbox
    <3>2. CASE CloseChanged \/ Moved
      <4>1. pc.purge \in BOOLEAN BY <1>0 DEF Typed, TypeOK, Pc
      <4> QED BY <3>2, <4>1 DEF CloseChanged, Moved
    <3> QED BY <1>6, <3>1, <3>2 DEF StartsWriting
  <2>2. Writes(purge, closing) BY <1>0, <2>1, WritingIs
  <2>3. saved' = saved BY <2>2 DEF Writes, store
  <2>4. CASE purge
    <3>1. header' = header BY <2>2, <2>4 DEF Writes
    <3> QED BY <2>3, <3>1
  <2>5. CASE ~purge
    <3>1. On("delete_no") BY <2>1, <2>5 DEF Departing, Asked
    <3> QED BY <2>1, <3>1
  <2> QED BY <2>4, <2>5
<1>7. CASE MboxWrite
  <2>1. PICK first : WritesMbox(first) BY <1>0, <1>7, MboxWriteIs
  <2>2. m \in Kept /\ saved' = saved BY <2>1 DEF WritesMbox
  <2> QED BY <2>2 DEF Kept
<1>8. CASE MaildirWrite
  <2>1. saved' = saved /\ header' = header BY <1>8 DEF MaildirWrite
  <2> QED BY <2>1
<1>9. CASE MaildirWritten
  <2>1. pc.at = "mh_write" /\ pc.todo = <<>> /\ saved' = saved BY <1>9 DEF MaildirWritten, store
  <2>2. ~header[m].deleted BY <1>0, <2>1, NoWork DEF Shape
  <2> QED BY <2>1, <2>2
<1>10. CASE mx_fastclose_mailbox
  <2>1. pc.at = "fastclose" /\ saved' = saved BY <1>10 DEF mx_fastclose_mailbox, store
  <2> QED BY <2>1 DEF Departing, Parting
<1>11. CASE UNCHANGED vars BY <1>11 DEF vars
<1> QED BY <1>1, <1>2, <1>3, <1>4, <1>5, <1>6, <1>7, <1>8, <1>9, <1>10, <1>11, StepKinds

LEMMA MovingStep ==
  ASSUME Base, Counting, Departing, [Next]_vars
  PROVE  Moving'
<1>0. /\ Typed /\ Shape /\ IsInjective(hdrs) /\ Msgs \subseteq Ids /\ conf' = conf
      /\ header \in [Ids -> HEADER]
  BY CountedMsgs, SameConf DEF Base, Shape, Typed, TypeOK
<1>1. ASSUME pc'.at # "move" PROVE Moving' BY <1>1 DEF Moving
<1>2. CASE mx_open_mailbox
  <2>1. pc'.at = "count" BY <1>2, AtIs DEF mx_open_mailbox, Places, At
  <2> QED BY <1>1, <2>1
<1>3. CASE mx_update_context
  <2>1. pc'.at = "count" BY <1>3, CountedOne
  <2> QED BY <1>1, <2>1
<1>4. CASE Arriving
  <2>1. PICK base, hmap, bail, new : Arrival(base, hmap, bail, new) BY <1>0, <1>4, ArrivalIs
  <2>2. pc'.at = "count" BY <2>1 DEF Arrival, Arrives
  <2> QED BY <1>1, <2>2
<1>5. CASE Settling
  <2>1. CASE CloseMove
    <3>1. WorkOf(pc'.todo) = ReadMsgs /\ header' = header BY <1>0, <2>1, CloseMoveIs
    <3> QED BY <1>0, <3>1 DEF Moving, ReadMsgs, On
  <2> QED BY <1>0, <1>1, <1>5, <2>1, SettlesTo
<1>6. CASE Setting
  <2>1. PICK k, r : SetsFlag(k, r) /\ (pc.at = "move" => Saves(k, r)) BY <1>0, <1>6, SetsFlagIs
  <2>2. CASE pc.at = "move"
    <3>1. /\ k = Head(pc.todo).m /\ k \in Ids /\ header' = [header EXCEPT ![k] = r.h]
          /\ pc' = [pc EXCEPT !.todo = Tail(@)] /\ pc.todo # <<>> /\ r.h.flagged = header[k].flagged
      BY <2>1, <2>2 DEF SetsFlag, Saves
    <3>2. WorkOf(pc'.todo) \subseteq WorkOf(pc.todo) BY <1>0, <3>1, TailIs
    <3>3. \A i \in Ids : header'[i].flagged = header[i].flagged BY <1>0, <3>1
    <3>4. WorkOf(pc.todo) \subseteq Ids
      <4>1. pc.todo \in Seq(MsgWork) BY <1>0 DEF Typed
      <4> QED BY <1>0, <4>1 DEF WorkOf, MsgWork
    <3> QED BY <1>0, <2>2, <3>2, <3>3, <3>4 DEF Moving, Departing, On
  <2>3. CASE pc.at # "move" BY <1>1, <2>1, <2>3 DEF SetsFlag
  <2> QED BY <2>2, <2>3
<1>7. CASE StartsWriting
  <2>1. PICK purge \in BOOLEAN, closing \in BOOLEAN : StartWriting(purge, closing)
    BY <1>0, <1>7, StartsWritingIs
  <2>2. Writes(purge, closing) BY <1>0, <2>1, WritingIs
  <2> QED BY <1>1, <2>2 DEF Writes
<1>8. CASE MboxWrite \/ MaildirWritten
  <2>1. CASE Committed
    <3>1. pc'.at = "index" BY <1>0, <2>1, CommittedIs, AtIs DEF Commits, Places
    <3> QED BY <1>1, <3>1
  <2>2. CASE ~Committed
    <3>1. pc' = At("fastclose") \/ pc' = At("index") BY <1>8, <2>2 DEF MboxWrite, MaildirWritten
    <3>2. pc'.at # "move" BY <3>1, AtIs DEF Places
    <3> QED BY <1>1, <3>2
  <2> QED BY <2>1, <2>2
<1>9. CASE MaildirWrite
  <2>2. pc' = [pc EXCEPT !.todo = Tail(@)] \/ pc' = At("index") BY <1>9 DEF MaildirWrite, Aborted
  <2>3. pc'.at # "move" BY <1>0, <1>9, <2>2, TailIs, AtIs DEF MaildirWrite, Places
  <2> QED BY <1>1, <2>3
<1>10. CASE mx_fastclose_mailbox
  <2>1. pc'.at # "move" BY <1>10, AtIs DEF mx_fastclose_mailbox, Places
  <2> QED BY <1>1, <2>1
<1>11. CASE UNCHANGED vars
  <2>1. UNCHANGED <<conf, pc, header>> BY <1>11 DEF vars
  <2> QED BY <2>1 DEF Departing, Moving, On
<1> QED BY <1>2, <1>3, <1>4, <1>5, <1>6, <1>7, <1>8, <1>9, <1>10, <1>11, StepKinds

LEMMA PartingStep ==
  ASSUME Tallied, Departing, [Next]_vars
  PROVE  Parting'
<1>0. /\ Base /\ Counting /\ Typed /\ Shape /\ IsInjective(hdrs) /\ Msgs \subseteq Ids
      /\ ~Gone => DOMAIN disk \subseteq Msgs
  BY CountedMsgs DEF Tallied, Base, Shape
<1>1. ASSUME pc'.at \notin {"closed", "fastclose"} PROVE Parting' BY <1>1 DEF Parting
<1>2. CASE mx_open_mailbox
  <2>1. pc'.at = "count" BY <1>2, AtIs DEF mx_open_mailbox, Places, At
  <2> QED BY <1>1, <2>1
<1>3. CASE mx_update_context
  <2>1. pc'.at = "count" BY <1>0, <1>3, CountedOne
  <2> QED BY <1>1, <2>1
<1>4. CASE Arriving
  <2>1. PICK base, hmap, bail, new : Arrival(base, hmap, bail, new) BY <1>0, <1>4, ArrivalIs
  <2>2. pc'.at = "count" BY <2>1 DEF Arrival, Arrives
  <2> QED BY <1>1, <2>2
<1>5. CASE Settling
  <2>1. CASE pc'.at = "fastclose" /\ mx_close_mailbox
    <3>1. ctx' = ctx /\ ctx.dontwrite BY <1>0, <2>1, CloseIs
    <3> QED BY <2>1, <3>1 DEF Parting
  <2>2. CASE pc'.at = "fastclose" /\ CloseUnchanged
    <3>1. pc.at = "close" /\ ctx.deleted = 0 /\ header' = header /\ disk' = disk
      BY <2>2 DEF CloseUnchanged, store
    <3>2. \A m \in Msgs : ~header[m].deleted BY <3>1, NoneDeleted
    <3> QED BY <1>0, <2>2, <3>1, <3>2 DEF Parting, Gone
  <2> QED BY <1>0, <1>1, <1>5, <2>1, <2>2, SettlesTo
<1>6. CASE Setting
  <2>1. pc'.at \in {"apply", "move"} BY <1>0, <1>6, SetsFlagIs DEF SetsFlag
  <2> QED BY <1>1, <2>1
<1>7. CASE StartsWriting
  <2>1. PICK purge \in BOOLEAN, closing \in BOOLEAN :
          StartWriting(purge, closing) /\ pc.at \in {"index", "close", "move"}
    BY <1>0, <1>7, StartsWritingIs
  <2>2. Writes(purge, closing) BY <1>0, <2>1, WritingIs
  <2>3. disk' = disk /\ pc'.at # "closed" BY <2>2 DEF Writes, store
  <2>4. SUFFICES ASSUME pc'.at = "fastclose" PROVE \A m \in Msgs : ~header'[m].deleted
    BY <1>0, <2>1, <2>3 DEF Parting, Gone
  <2>5. CASE purge
    <3>1. header' = header /\ ctx.deleted = 0 BY <2>2, <2>4, <2>5 DEF Writes
    <3> QED BY <2>1, <3>1, NoneDeleted
  <2>6. CASE ~purge
    <3>1. header' = Spared(header) BY <2>2, <2>6 DEF Writes
    <3> QED BY <1>0, <3>1, SparedIs
  <2> QED BY <2>5, <2>6
<1>8. CASE MboxWrite \/ MaildirWritten
  <2>1. CASE Committed
    <3>1. pc'.at = "index" BY <1>0, <2>1, CommittedIs, AtIs DEF Commits, Places
    <3> QED BY <1>1, <3>1
  <2>2. CASE ~Committed
    <3>1. (pc' = At("fastclose") \/ pc' = At("index")) /\ header' = header
      BY <1>8, <2>2 DEF MboxWrite, MaildirWritten
    <3>2. pc'.at # "closed" BY <3>1, AtIs DEF Places
    <3>3. CASE MboxWrite
      <4>1. PICK first : WritesMbox(first) BY <1>0, <3>3, MboxWriteIs
      <4>2. DOMAIN disk' = Kept BY <4>1 DEF WritesMbox
      <4> QED BY <3>1, <3>2, <4>2 DEF Parting, Kept
    <3>4. CASE MaildirWritten
      <4>1. pc.at = "mh_write" /\ pc.todo = <<>> /\ disk' = disk BY <3>4 DEF MaildirWritten, store
      <4>2. \A m \in DOMAIN disk : ~header[m].deleted BY <1>0, <4>1, NoWork DEF Shape
      <4> QED BY <3>1, <3>2, <4>1, <4>2 DEF Parting
    <3> QED BY <1>8, <3>3, <3>4
  <2> QED BY <2>1, <2>2
<1>9. CASE MaildirWrite
  <2>2. pc' = [pc EXCEPT !.todo = Tail(@)] \/ pc' = At("index") BY <1>9 DEF MaildirWrite, Aborted
  <2>3. pc'.at \notin {"closed", "fastclose"}
    BY <1>0, <1>9, <2>2, TailIs, AtIs DEF MaildirWrite, Places
  <2> QED BY <1>1, <2>3
<1>10. CASE mx_fastclose_mailbox
  <2>1. pc'.at = "closed" /\ header' = [m \in Ids |-> NoHeader]
    BY <1>10, AtIs DEF mx_fastclose_mailbox, Places
  <2>2. ~NoHeader.deleted BY NewHeaderIs DEF NoHeader
  <2> QED BY <2>1, <2>2 DEF Parting
<1>11. CASE UNCHANGED vars
  <2>1. UNCHANGED <<ctx, pc, header, disk>> BY <1>11 DEF vars
  <2> QED BY <2>1 DEF Departing, Parting
<1> QED BY <1>2, <1>3, <1>4, <1>5, <1>6, <1>7, <1>8, <1>9, <1>10, <1>11, StepKinds

LEMMA AskedStep ==
  ASSUME Base, Counting, Departing, [Next]_vars
  PROVE  Asked'
<1>0. /\ Typed /\ Shape /\ IsInjective(hdrs) /\ conf' = conf /\ pc \in Pc
      /\ Asked
  BY SameConf DEF Base, Shape, Typed, TypeOK, Departing
<1>1. ASSUME pc'.at \notin {"apply", "close", "move"} PROVE Asked' BY <1>1 DEF Asked
<1>2. CASE mx_open_mailbox
  <2>1. pc'.at = "count" BY <1>2, AtIs DEF mx_open_mailbox, Places, At
  <2> QED BY <1>1, <2>1
<1>3. CASE mx_update_context
  <2>1. pc'.at = "count" BY <1>3, CountedOne
  <2> QED BY <1>1, <2>1
<1>4. CASE Arriving
  <2>1. PICK base, hmap, bail, new : Arrival(base, hmap, bail, new) BY <1>0, <1>4, ArrivalIs
  <2>2. pc'.at = "count" BY <2>1 DEF Arrival, Arrives
  <2> QED BY <1>1, <2>2
<1>5. CASE Command
  <2>1. PICK todo \in Seq(MsgWork) : Run(todo) BY <1>0, <1>5, CommandRuns DEF Typed
  <2>2. pc' = [At("apply") EXCEPT !.todo = todo] BY <2>1 DEF Run
  <2>3. pc'.at = "apply" /\ pc'.then = "index" BY <2>2 DEF At
  <2> QED BY <2>3 DEF Asked
<1>6. CASE mx_close_mailbox
  <2>1. CASE ctx.dontwrite
    <3>1. pc'.at = "fastclose" BY <1>6, <2>1, AtIs DEF mx_close_mailbox, Places
    <3> QED BY <1>1, <3>1
  <2>2. CASE ~ctx.dontwrite
    <3> DEFINE S == {m \in Msgs : On("mark_old") /\ ~header[m].deleted
                                    /\ ~header[m].old /\ ~header[m].read}
               b == ReadMsgs # {} /\ On("move")
    <3>1. PICK move \in {FALSE} \cup {b}, purge \in Answers, T \in InOrder(S) :
              pc' = [At("apply") EXCEPT !.todo = Pass(T, "OLD", TRUE), !.then = "close",
                                        !.purge = purge, !.move = move, !.closing = TRUE]
      BY <1>6, <2>2 DEF mx_close_mailbox
    <3> HIDE DEF S, b
    <3>2. pc'.purge = purge BY <3>1 DEF At
    <3>3. purge \/ On("delete_no") BY <3>1 DEF Answers
    <3> QED BY <1>0, <3>2, <3>3 DEF Asked, On
  <2> QED BY <2>1, <2>2
<1>7. CASE CloseMove
  <2>1. pc'.purge = pc.purge /\ pc.at = "close" BY <1>0, <1>7 DEF CloseMove, Pc
  <2> QED BY <1>0, <2>1 DEF Asked, On
<1>8. CASE Applied
  <2>1. CASE pc.then = "close"
    <3>1. pc'.purge = pc.purge /\ pc.at = "apply" BY <1>0, <1>8, <2>1 DEF Applied, Pc
    <3> QED BY <1>0, <2>1, <3>1 DEF Asked, On
  <2>2. CASE pc.then # "close"
    <3>1. pc'.at = "index" BY <1>8, <2>2, AtIs DEF Applied, Places
    <3> QED BY <1>1, <3>1
  <2> QED BY <2>1, <2>2
<1>9. CASE Apply \/ AppendToMbox
  <2>1. CASE pc' = [pc EXCEPT !.todo = Tail(@)]
    <3>1. pc'.at = pc.at /\ pc'.purge = pc.purge /\ pc'.then = pc.then BY <1>0, <2>1 DEF Pc
    <3> QED BY <1>0, <3>1 DEF Asked, On
  <2>2. CASE pc' # [pc EXCEPT !.todo = Tail(@)]
    <3>1. pc' = At("index") BY <1>9, <2>2 DEF Apply, AppendToMbox, Aborted
    <3>2. pc'.at = "index" BY <3>1, AtIs DEF Places
    <3> QED BY <1>1, <3>2
  <2> QED BY <2>1, <2>2
<1>10. CASE UNCHANGED pc BY <1>0, <1>10 DEF Asked, On
<1>11. CASE update_index \/ CloseUnchanged \/ MboxGivesUp
  <2>1. pc' = At("index") \/ pc' = At("fastclose")
    BY <1>11 DEF update_index, CloseUnchanged, MboxGivesUp
  <2>2. pc'.at \in {"index", "fastclose"} BY <2>1, AtIs DEF Places
  <2> QED BY <1>1, <2>2
<1>12. CASE trash_append
  <2>1. pc.at = "trash" /\ (pc' = [pc EXCEPT !.todo = Tail(@)] \/ pc' = At("index"))
    BY <1>12 DEF trash_append, Aborted
  <2>2. pc' = [pc EXCEPT !.todo = Tail(@)] => pc'.at = pc.at BY <1>0 DEF Pc
  <2>3. pc' = At("index") => pc'.at = "index" BY AtIs DEF Places
  <2> QED BY <1>1, <2>1, <2>2, <2>3
<1>13. CASE Trashed \/ MaildirStart
  <2>1. pc'.at \in {"write", "mh_write"} BY <1>0, <1>13 DEF Trashed, MaildirStart, Pc
  <2> QED BY <1>1, <2>1
<1>14. CASE Limit \/ Resort \/ mx_toggle_write
  <2>1. UNCHANGED pc BY <1>14 DEF Limit, Resort, mx_toggle_write
  <2> QED BY <1>10, <2>1
<1>15. CASE Settling
  BY <1>5, <1>6, <1>7, <1>8, <1>9, <1>11, <1>12, <1>13, <1>14, <1>15 DEF Settling
<1>16. CASE StartsWriting
  <2>1. PICK purge \in BOOLEAN, closing \in BOOLEAN : StartWriting(purge, closing)
    BY <1>0, <1>16, StartsWritingIs
  <2>2. Writes(purge, closing) BY <1>0, <2>1, WritingIs
  <2> QED BY <1>1, <2>2 DEF Writes
<1>17. CASE MboxWrite \/ MaildirWritten
  <2>1. CASE Committed
    <3>1. pc'.at = "index" BY <1>0, <2>1, CommittedIs, AtIs DEF Commits, Places
    <3> QED BY <1>1, <3>1
  <2>2. CASE ~Committed
    <3>1. pc' = At("fastclose") \/ pc' = At("index") BY <1>17, <2>2 DEF MboxWrite, MaildirWritten
    <3>2. pc'.at \in {"fastclose", "index"} BY <3>1, AtIs DEF Places
    <3> QED BY <1>1, <3>2
  <2> QED BY <2>1, <2>2
<1>18. CASE MaildirWrite
  <2>2. pc' = [pc EXCEPT !.todo = Tail(@)] \/ pc' = At("index") BY <1>18 DEF MaildirWrite, Aborted
  <2>3. pc'.at \in {"mh_write", "index"} BY <1>0, <1>18, <2>2, TailIs, AtIs DEF MaildirWrite, Places
  <2> QED BY <1>1, <2>3
<1>19. CASE mx_fastclose_mailbox
  <2>1. pc'.at = "closed" BY <1>19, AtIs DEF mx_fastclose_mailbox, Places
  <2> QED BY <1>1, <2>1
<1>20. CASE UNCHANGED vars BY <1>10, <1>20 DEF vars
<1>21. Setting => Apply \/ AppendToMbox BY DEF Setting
<1> QED BY <1>2, <1>3, <1>4, <1>9, <1>15, <1>16, <1>17, <1>18, <1>19, <1>20, <1>21, StepKinds

\* While $move copies the messages that were read, those it has copied are
\* deleted, and they stay so until the mailbox is closed (mx_close_mailbox()).
THEOREM DepartingCorrect == Spec => []Departing
<1>1. Init => Departing
  <2>1. SUFFICES ASSUME Init PROVE Departing OBVIOUS
  <2>2. pc.at = "closed" /\ header = [m \in Ids |-> NoHeader] BY <2>1, AtIs DEF Init, Places
  <2>3. ~NoHeader.deleted BY NewHeaderIs DEF NoHeader
  <2> QED BY <2>2, <2>3 DEF Departing, Parting, Moving, Asked
<1>2. Tallied /\ Departing /\ [Next]_vars => Departing'
  <2>1. SUFFICES ASSUME Tallied, Departing, [Next]_vars PROVE Departing' OBVIOUS
  <2>2. Base /\ Counting BY <2>1 DEF Tallied
  <2> QED BY <2>1, <2>2, MovingStep, PartingStep, AskedStep DEF Departing
<1> QED BY <1>1, <1>2, TalliedCorrect, PTL DEF Spec

\* A message that was copied to $mbox stays deleted until the mailbox is
\* written, so that a close that was broken off does not copy it again, where
\* what $flag_safe protects is not moved either (Careful).  Only a command of
\* the user, the answer no to the question whether to purge and closing a
\* mailbox that is not to be written take the D flag back (mx_close_mailbox()).
THEOREM MovedStaysDeleted == Spec /\ []Careful => MovedIsDeleted
<1>2. Tallied => Base /\ Counting BY DEF Tallied
<1>3. Base /\ Counting /\ Departing /\ Careful /\ [Next]_vars =>
        \A m \in DOMAIN disk \cap DOMAIN disk' : Deserted(m)
  BY DesertedStep
<1>4. Tallied /\ Departing /\ Careful /\ [Next]_vars =>
        [\A m \in DOMAIN disk \cap DOMAIN disk' :
           saved'[m] > 0 /\ ~header'[m].deleted =>
             \/ pc.at = "apply" \/ (saved[m] > 0 /\ ~header[m].deleted)
             \/ On("delete_no") /\ pc.at \in {"index", "close", "move"}
             \/ ctx.dontwrite /\ pc.at = "fastclose"]_vars
  BY <1>2, <1>3 DEF Deserted
<1> QED BY <1>4, TalliedCorrect, DepartingCorrect, PTL DEF Spec, MovedIsDeleted
------------------------------------------------------------------------------
(***************************************************************************)
(* The limited view.                                                       *)
(***************************************************************************)
\* A limited and sorted mbox is left out: mail that mbox_sync_mailbox() finds
\* is sorted before update_index() looks for it behind the old messages.
Plain == ~On("SigInt") /\ (conf.magic = "MUTT_MBOX" => ~On("limit") \/ ~On("sort"))

\* v2r and the numbers of the headers are inverse, and show what matches.
View ==
  /\ Inverts(hdrs, v2r, header)
  /\ \A m \in Msgs : header[m].virtual # 0 <=> m \in ctx.pattern

\* While messages are counted: those before oldcount are in view if they match,
\* those counted since if there is no limit, the others not yet.
Entering ==
  /\ pc.bail => conf.magic = "MUTT_MBOX"
  /\ \A i \in DOMAIN hdrs : i <= pc.oldcount =>
       (header[hdrs[i]].virtual # 0 <=> hdrs[i] \in ctx.pattern)
  /\ \A i \in DOMAIN hdrs : pc.oldcount < i /\ i < pc.msgno =>
       (header[hdrs[i]].virtual # 0 <=> ~ctx.limit)

Limits ==
  /\ ctx.limit \/ 1 .. conf.msgs \subseteq ctx.pattern
  /\ ctx.limit => On("limit")
  /\ sort # "order" => On("sort")

Viewing ==
  Plain =>
    /\ Limits
    /\ pc.at \notin {"count", "closed", "fastclose"} => View
    /\ pc.at = "count" => Entering

LEMMA ViewSame ==
  ASSUME View, hdrs' = hdrs, v2r' = v2r, ctx'.pattern = ctx.pattern,
         \A m \in Msgs : header'[m].virtual = header[m].virtual
  PROVE  View'
<1>1. \A i \in DOMAIN hdrs : hdrs[i] \in Msgs BY DEF Msgs, Range
<1>2. Inverts(hdrs, v2r, header) BY DEF View
<1>3. Inverts(hdrs, v2r, header')
  <2>1. \A k \in DOMAIN v2r : v2r[k] \in DOMAIN hdrs /\ header[hdrs[v2r[k]]].virtual = k
    BY <1>2 DEF Inverts
  <2>2. \A k \in DOMAIN v2r : header'[hdrs[v2r[k]]].virtual = k BY <1>1, <2>1
  <2>3. \A i \in DOMAIN hdrs \ Range(v2r) : header'[hdrs[i]].virtual = 0
    BY <1>1, <1>2 DEF Inverts
  <2> QED BY <1>2, <2>2, <2>3 DEF Inverts
<1>4. \A m \in Msgs : header'[m].virtual # 0 <=> m \in ctx'.pattern BY DEF View
<1>5. Msgs' = Msgs BY DEF Msgs
<1> QED BY <1>3, <1>4, <1>5 DEF View

LEMMA ViewSorted ==
  ASSUME NEW S \in SUBSET Ids, NEW key, NEW hmap \in [Ids -> HEADER],
         mutt_sort_headers(S, key, hmap), ctx'.pattern = ctx.pattern,
         \A m \in S : hmap[m].virtual # 0 <=> m \in ctx.pattern
  PROVE  View'
<1>1. Inverts(hdrs', v2r', header') /\ Range(hdrs') = S
      /\ \A m \in S : header'[m].virtual # 0 <=> hmap[m].virtual # 0
  BY SortRight
<1> QED BY <1>1 DEF View, Msgs

\* update_index(): what has been counted comes into view.
LEMMA ViewUpdated ==
  ASSUME Base, Counting, Plain, Limits, Entering, update_index
  PROVE  View'
<1>1. pc.at = "count" /\ pc.msgno > Len(hdrs) /\ ctx' = ctx BY DEF update_index
<1>2. /\ Len(hdrs) \in Nat /\ DOMAIN hdrs = 1 .. Len(hdrs) /\ Msgs \subseteq Ids
      /\ \A m \in Msgs : \E i \in DOMAIN hdrs : hdrs[i] = m
      /\ \A i \in DOMAIN hdrs : hdrs[i] \in Msgs
      /\ Msgs \subseteq 1 .. conf.msgs
      /\ header \in [Ids -> HEADER]
  <2>1. Msgs \subseteq 1 .. arrived /\ arrived \in 0 .. conf.msgs /\ conf.msgs \in Nat
    BY SettingIs DEF Base, Shape, Typed, TypeOK
  <2>2. Msgs \subseteq 1 .. conf.msgs BY <2>1
  <2> QED BY <2>2, MsgsAreIds DEF Base, Typed, TypeOK
<1>3. PICK hd : /\ hd = hdrs \/ (pc.bail /\ sort # "order")
                /\ Brought(Matched(hd)) \in [Ids -> HEADER]
                /\ mutt_sort_headers(Msgs, sort, Brought(Matched(hd)))
  BY UpdateIs DEF Base
<1>4. pc.msgno \in Nat /\ pc.oldcount \in Nat BY DEF Base, Typed, TypeOK, Pc
<1>5. \A i \in DOMAIN hdrs : i \in Nat /\ i < pc.msgno /\ (i <= pc.oldcount \/ pc.oldcount < i)
  BY <1>1, <1>2, <1>4
<1>6. CASE ~ctx.limit
  <2>1. Matched(hd) = {} BY <1>6 DEF Matched
  <2>2. \A m \in Ids : Brought(Matched(hd))[m] = header[m] BY <2>1 DEF Brought
  <2>3. \A m \in Msgs : m \in ctx.pattern BY <1>2, <1>6 DEF Limits
  <2>4. \A m \in Msgs : header[m].virtual # 0
    <3> TAKE m \in Msgs
    <3>1. PICK i \in DOMAIN hdrs : hdrs[i] = m BY <1>2
    <3>2. i < pc.msgno /\ (i <= pc.oldcount \/ pc.oldcount < i) BY <1>5, <3>1
    <3> QED BY <1>6, <2>3, <3>1, <3>2 DEF Entering
  <2>5. \A m \in Msgs : Brought(Matched(hd))[m].virtual # 0 <=> m \in ctx.pattern
    BY <1>2, <2>2, <2>3, <2>4
  <2> QED BY <1>1, <1>2, <1>3, <2>5, ViewSorted
<1>7. CASE ctx.limit
  <2>1. hd = hdrs BY <1>3, <1>7 DEF Plain, Limits, Entering
  <2> DEFINE from == IF v2r = <<>> THEN 0 ELSE pc.oldcount
  <2>2. from \in Nat /\ from <= pc.oldcount BY <1>4
  <2>3. Matched(hd) = {hdrs[i] : i \in from + 1 .. Len(hdrs)} \cap ctx.pattern
    BY <1>7, <2>1 DEF Matched
  <2> HIDE DEF from
  <2>4. \A m \in Msgs : Brought(Matched(hd))[m].virtual # 0 <=> m \in ctx.pattern
    <3> TAKE m \in Msgs
    <3>1. PICK i \in DOMAIN hdrs : hdrs[i] = m BY <1>2
    <3>2. i \in Nat /\ i < pc.msgno /\ (i <= pc.oldcount \/ pc.oldcount < i) BY <1>5, <3>1
    <3>3. CASE m \in Matched(hd)
      <4>1. Brought(Matched(hd))[m] = [header[m] EXCEPT !.virtual = 1] BY <1>2, <3>3 DEF Brought
      <4>2. Brought(Matched(hd))[m].virtual = 1 BY <1>2, <4>1, VirtualIs
      <4> QED BY <2>3, <3>3, <4>2
    <3>4. CASE m \notin Matched(hd)
      <4>1. Brought(Matched(hd))[m] = header[m] BY <1>2, <3>4 DEF Brought
      <4>2. CASE i <= pc.oldcount BY <3>1, <4>1, <4>2 DEF Entering
      <4>3. CASE pc.oldcount < i
        <5>1. header[m].virtual = 0 BY <1>7, <3>1, <3>2, <4>3 DEF Entering
        <5>2. i \in from + 1 .. Len(hdrs) BY <1>2, <1>4, <2>2, <3>1, <3>2, <4>3
        <5>3. m \in ctx.pattern => m \in Matched(hd) BY <2>3, <3>1, <5>2
        <5> QED BY <3>4, <4>1, <5>1, <5>3
      <4> QED BY <3>2, <4>2, <4>3
    <3> QED BY <3>3, <3>4
  <2> QED BY <1>1, <1>2, <1>3, <2>4, ViewSorted
<1> QED BY <1>6, <1>7

\* mutt_pattern_func(): a new limit.
LEMMA ViewLimited ==
  ASSUME Base, Plain, Limits, Limit, conf' = conf, sort' = sort
  PROVE  View' /\ Limits'
<1>0. /\ IsInjective(hdrs) /\ hdrs \in Seq(Ids) /\ header \in [Ids -> HEADER]
      /\ DOMAIN hdrs = 1 .. Len(hdrs) /\ Typed /\ ctx \in CONTEXT /\ conf.msgs \in 0 .. MaxMsgs
      /\ Len(hdrs) \in Nat
      /\ \A m \in Msgs : \E i \in DOMAIN hdrs : hdrs[i] = m
  BY MsgsAreIds, SettingIs DEF Base, Shape, Typed, TypeOK
<1>1. PICK pattern \in SUBSET (1 .. conf.msgs), upto \in 0 .. Len(hdrs), limit \in BOOLEAN :
        \E v \in Ascending(Matching(pattern, upto)) :
          /\ On("SigInt") \/ upto = Len(hdrs)
          /\ v2r' = v /\ header' = Numbered(hdrs, v, Cleared(upto))
          /\ limit \/ pattern = 1 .. conf.msgs
          /\ ctx' = [ctx EXCEPT !.limit = limit, !.pattern = pattern]
          /\ Matching(pattern, upto) \in SUBSET DOMAIN hdrs
          /\ Cleared(upto) \in [Ids -> HEADER]
  BY <1>0, LimitIs
<1>2. PICK v \in Ascending(Matching(pattern, upto)) :
          /\ upto = Len(hdrs)
          /\ v2r' = v /\ header' = Numbered(hdrs, v, Cleared(upto))
          /\ limit \/ pattern = 1 .. conf.msgs
          /\ ctx' = [ctx EXCEPT !.limit = limit, !.pattern = pattern]
          /\ Matching(pattern, upto) \in SUBSET DOMAIN hdrs
          /\ Cleared(upto) \in [Ids -> HEADER]
  BY <1>1 DEF Plain
<1> DEFINE I == Matching(pattern, upto)
           hmap == Cleared(upto)
<1>3. \A i \in DOMAIN hdrs : i \in I <=> hdrs[i] \in pattern BY <1>0, <1>2 DEF Matching
<1>4. \A i \in DOMAIN hdrs : hmap[hdrs[i]].virtual = 0
  <2> TAKE i \in DOMAIN hdrs
  <2>1. hdrs[i] \in Ids /\ i \in 1 .. upto BY <1>0, <1>2
  <2>2. hmap[hdrs[i]] = [header[hdrs[i]] EXCEPT !.virtual = 0] BY <2>1 DEF Cleared
  <2> QED BY <1>0, <2>1, <2>2, VirtualIs
<1>5. I \in SUBSET DOMAIN hdrs /\ hmap \in [Ids -> HEADER] /\ v \in Ascending(I) BY <1>2
<1> HIDE DEF I, hmap
<1>6. /\ Inverts(hdrs, v, Numbered(hdrs, v, hmap))
      /\ \A i \in DOMAIN hdrs : Numbered(hdrs, v, hmap)[hdrs[i]].virtual # 0 <=> i \in I
  BY <1>0, <1>4, <1>5, NumberedInverse
<1>7. header' = Numbered(hdrs, v, hmap) /\ v2r' = v /\ hdrs' = hdrs BY <1>2 DEF hmap, Limit
<1>8. ctx'.pattern = pattern /\ ctx'.limit = limit BY <1>0, <1>2 DEF CONTEXT
<1>9. Inverts(hdrs', v2r', header') BY <1>6, <1>7
<1>10. \A m \in Msgs : header'[m].virtual # 0 <=> m \in ctx'.pattern
  <2> TAKE m \in Msgs
  <2>1. PICK i \in DOMAIN hdrs : hdrs[i] = m BY <1>0
  <2>2. header'[hdrs[i]].virtual # 0 <=> i \in I BY <1>6, <1>7, <2>1
  <2>3. i \in I <=> hdrs[i] \in pattern BY <1>3, <2>1
  <2> QED BY <1>8, <2>1, <2>2, <2>3
<1>11. View' BY <1>7, <1>9, <1>10 DEF View, Msgs
<1>12. On("limit") BY DEF Limit
<1>13. Limits' BY <1>2, <1>8, <1>12 DEF Limits, On
<1> QED BY <1>11, <1>13

LEMMA LimitsSame ==
  ASSUME Limits, ctx'.limit = ctx.limit, ctx'.pattern = ctx.pattern, sort' = sort, conf' = conf
  PROVE  Limits'
  BY DEF Limits, On

LEMMA LimitsNew ==
  ASSUME TypeOK, Limits, ctx' = NewContext, sort' = sort, conf' = conf
  PROVE  Limits'
<1>1. conf.msgs \in 0 .. MaxMsgs /\ MaxMsgs \in Nat BY SettingIs
<1>2. 1 .. conf.msgs \subseteq Ids BY <1>1 DEF Ids
<1>3. ctx'.limit = FALSE /\ ctx'.pattern = Ids BY DEF NewContext
<1> QED BY <1>2, <1>3 DEF Limits, On

\* New mail behind the messages in view.
LEMMA EnteringArrived ==
  ASSUME Base, Counting, Plain, Limits, View, NEW base, NEW hmap, NEW bail, NEW new,
         Arrival(base, hmap, bail, new), conf' = conf
  PROVE  Entering' /\ Limits'
<1>0. Msgs \subseteq Ids BY CountedMsgs
<1>1. /\ Arrives(base, hmap, bail, new) /\ base \in Seq(Ids) /\ Range(base) = Msgs
      /\ \A m \in Msgs : hmap[m].virtual # 0 <=> header[m].virtual # 0
      /\ bail => conf.magic = "MUTT_MBOX"
  BY DEF Arrival
<1>2. new \cap Msgs = {} BY NewIds
<1>3. /\ \A m \in Ids \ new : header'[m] = hmap[m]
      /\ \A i \in 1 .. Len(base) : hdrs'[i] = base[i]
      /\ pc'.msgno = Len(base) + 1 /\ pc'.oldcount = Len(base) /\ pc'.bail = bail
      /\ ctx' = ctx /\ sort' = sort /\ hdrs' \in Seq(Ids)
  BY <1>1 DEF Arrives
<1>4. Len(base) \in Nat /\ DOMAIN base = 1 .. Len(base) BY <1>1
<1>5. \A i \in DOMAIN hdrs' : i \in Nat /\ i >= 1 /\ ~(Len(base) < i /\ i < Len(base) + 1)
  BY <1>3, <1>4
<1>6. \A i \in DOMAIN hdrs' : i <= Len(base) =>
        (header'[hdrs'[i]].virtual # 0 <=> hdrs'[i] \in ctx.pattern)
  <2> SUFFICES ASSUME NEW i \in DOMAIN hdrs', i <= Len(base)
      PROVE header'[hdrs'[i]].virtual # 0 <=> hdrs'[i] \in ctx.pattern
    OBVIOUS
  <2>1. i \in 1 .. Len(base) BY <1>4, <1>5
  <2>2. hdrs'[i] = base[i] /\ base[i] \in Msgs BY <1>1, <1>3, <1>4, <2>1 DEF Range
  <2>3. header'[base[i]] = hmap[base[i]] BY <1>0, <1>2, <1>3, <2>2
  <2>4. header[base[i]].virtual # 0 <=> base[i] \in ctx.pattern BY <2>2 DEF View
  <2> QED BY <1>1, <2>2, <2>3, <2>4
<1>7. Entering' BY <1>1, <1>3, <1>5, <1>6 DEF Entering
<1> QED BY <1>3, <1>7, LimitsSame

LEMMA EnteringCounted ==
  ASSUME Base, Counting, Limits, Entering, mx_update_context, conf' = conf
  PROVE  pc'.at = "count" /\ Entering' /\ Limits'
<1>0. /\ IsInjective(hdrs) /\ header \in [Ids -> HEADER] /\ ctx \in CONTEXT /\ pc \in Pc
      /\ v2r \in Seq(Nat) /\ \A i \in DOMAIN hdrs : hdrs[i] \in Ids /\ i \in Nat
  BY MsgsAreIds DEF Base, Shape, Typed, TypeOK
<1>1. PICK m, s, r, x, q :
           /\ CountsRight(m, s, r) /\ m \in Ids
           /\ x \in Ids /\ SetRight(ctx, SeenAs(m)[x], q, TRUE) /\ s.hmap = [SeenAs(m) EXCEPT ![x] = q.h]
           /\ \A k \in Ids \ {m} : SeenAs(m)[k] = header[k]
           /\ pc'.at = "count" /\ pc'.msgno = pc.msgno + 1 /\ pc'.oldcount = pc.oldcount
           /\ pc'.bail = pc.bail /\ pc.at = "count"
  BY CountedOne
<1>2. /\ header' = [s.hmap EXCEPT ![m] = r.h] /\ s.hmap \in [Ids -> HEADER]
      /\ SeenAs(m) \in [Ids -> HEADER] /\ m = hdrs[pc.msgno] /\ pc.msgno \in DOMAIN hdrs
      /\ r.h.virtual = s.hmap[m].virtual
      /\ ctx'.limit = ctx.limit /\ ctx'.pattern = ctx.pattern /\ UNCHANGED <<hdrs, sort>>
  BY <1>1 DEF CountsRight, SupersedesRight, SetRight, SameView
<1>3. q.h.virtual = SeenAs(m)[x].virtual BY <1>1 DEF SetRight, SameView
<1>4. \A k \in Ids : s.hmap[k].virtual = SeenAs(m)[k].virtual
  <2> TAKE k \in Ids
  <2>1. CASE k = x BY <1>1, <1>2, <1>3, <2>1
  <2>2. CASE k # x BY <1>1, <1>2, <2>2
  <2> QED BY <2>1, <2>2
<1>5. \A k \in Ids : header'[k].virtual = SeenAs(m)[k].virtual
  <2> TAKE k \in Ids
  <2>1. CASE k = m BY <1>1, <1>2, <1>4, <2>1
  <2>2. CASE k # m BY <1>1, <1>2, <1>4, <2>2
  <2> QED BY <2>1, <2>2
<1>6. SeenAs(m)[m].virtual # 0 <=> ~ctx.limit
  <2> DEFINE k == IF ctx.limit THEN 0 ELSE Len(v2r) + 1
  <2>1. Len(v2r) \in Nat BY <1>0
  <2>2. k \in Nat /\ (k # 0 <=> ~ctx.limit) BY <2>1
  <2>3. SeenAs(m)[m] = [header[m] EXCEPT !.virtual = k] BY <1>0, <1>1 DEF SeenAs
  <2> HIDE DEF k
  <2>4. SeenAs(m)[m].virtual = k BY <1>0, <1>1, <2>2, <2>3, VirtualIs
  <2> QED BY <2>2, <2>4
<1>7. \A i \in DOMAIN hdrs : i # pc.msgno => header'[hdrs[i]].virtual = header[hdrs[i]].virtual
  <2> SUFFICES ASSUME NEW i \in DOMAIN hdrs, i # pc.msgno
      PROVE header'[hdrs[i]].virtual = header[hdrs[i]].virtual
    OBVIOUS
  <2>1. hdrs[i] # m BY <1>0, <1>2 DEF IsInjective
  <2> QED BY <1>0, <1>1, <1>5, <2>1
<1>8. header'[hdrs[pc.msgno]].virtual # 0 <=> ~ctx.limit BY <1>1, <1>2, <1>5, <1>6
<1>9. pc.msgno \in Nat /\ pc.oldcount \in Nat /\ pc.oldcount < pc.msgno
  BY <1>0, <1>1 DEF Pc, Counting
<1>10. \A i \in DOMAIN hdrs : i <= pc.oldcount =>
         (header'[hdrs[i]].virtual # 0 <=> hdrs[i] \in ctx.pattern)
  <2> SUFFICES ASSUME NEW i \in DOMAIN hdrs, i <= pc.oldcount
      PROVE header'[hdrs[i]].virtual # 0 <=> hdrs[i] \in ctx.pattern
    OBVIOUS
  <2>1. i # pc.msgno BY <1>0, <1>9
  <2> QED BY <1>7, <2>1 DEF Entering
<1>11. \A i \in DOMAIN hdrs : pc.oldcount < i /\ i < pc.msgno + 1 =>
         (header'[hdrs[i]].virtual # 0 <=> ~ctx.limit)
  <2> SUFFICES ASSUME NEW i \in DOMAIN hdrs, pc.oldcount < i, i < pc.msgno + 1
      PROVE header'[hdrs[i]].virtual # 0 <=> ~ctx.limit
    OBVIOUS
  <2>1. CASE i = pc.msgno BY <1>8, <2>1
  <2>2. CASE i # pc.msgno
    <3>1. i < pc.msgno BY <1>0, <1>9, <2>2
    <3> QED BY <1>7, <2>2, <3>1 DEF Entering
  <2> QED BY <2>1, <2>2
<1>12. Entering' BY <1>1, <1>2, <1>10, <1>11 DEF Entering
<1> QED BY <1>1, <1>2, <1>12, LimitsSame

LEMMA ViewingStep ==
  ASSUME Base, Counting, Viewing, [Next]_vars
  PROVE  Viewing'
<1>0. /\ Typed /\ Shape /\ IsInjective(hdrs) /\ Msgs \subseteq Ids /\ conf' = conf /\ ctx \in CONTEXT
      /\ header \in [Ids -> HEADER] /\ TypeOK
  BY CountedMsgs, SameConf DEF Base, Shape, Typed, TypeOK
<1>1. SUFFICES ASSUME Plain
      PROVE  /\ Limits'
             /\ pc'.at \notin {"count", "closed", "fastclose"} => View'
             /\ pc'.at = "count" => Entering'
  BY <1>0 DEF Viewing, Plain, On
<1>2. /\ Limits
      /\ pc.at \notin {"count", "closed", "fastclose"} => View
      /\ pc.at = "count" => Entering
  BY <1>1 DEF Viewing
<1>3. CASE mx_open_mailbox
  <2>1. pc' = [At("count") EXCEPT !.msgno = 1] /\ ctx' = NewContext /\ sort' = sort
        /\ hdrs' \in DiskOrder(DOMAIN disk)
    BY <1>3 DEF mx_open_mailbox
  <2>2. pc'.at = "count" /\ pc'.msgno = 1 /\ pc'.oldcount = 0 /\ pc'.bail = FALSE BY <2>1 DEF At
  <2>3. hdrs' \in Seq(Ids) BY <1>0, <2>1, DiskOrderIs DEF TypeOK
  <2>4. \A i \in DOMAIN hdrs' : i \in Nat /\ i >= 1 BY <2>3
  <2>5. Entering' BY <2>2, <2>4 DEF Entering
  <2> QED BY <1>0, <1>2, <2>1, <2>2, <2>5, LimitsNew
<1>4. CASE Arriving
  <2>1. PICK base, hmap, bail, new : Arrival(base, hmap, bail, new) BY <1>0, <1>4, ArrivalIs
  <2>2. pc'.at = "count" /\ pc.at \in {"index", "write"} BY <2>1 DEF Arrival, Arrives
  <2>3. View BY <1>2, <2>2
  <2>4. Entering' /\ Limits' BY <1>0, <1>1, <1>2, <2>1, <2>3, EnteringArrived
  <2> QED BY <2>2, <2>4
<1>5. CASE mx_update_context
  <2>1. pc.at = "count" BY <1>5 DEF mx_update_context
  <2> QED BY <1>0, <1>2, <1>5, <2>1, EnteringCounted
<1>6. CASE update_index
  <2>1. pc.at = "count" /\ ctx' = ctx /\ sort' = sort /\ pc'.at = "index"
    BY <1>6, AtIs DEF update_index, Places
  <2>2. View' BY <1>1, <1>2, <1>6, <2>1, ViewUpdated
  <2> QED BY <1>0, <1>2, <2>1, <2>2, LimitsSame
<1>7. CASE Limit
  <2>1. sort' = sort /\ pc' = pc /\ pc.at = "index" BY <1>7 DEF Limit
  <2> QED BY <1>0, <1>1, <1>2, <1>7, <2>1, ViewLimited
<1>8. CASE Resort
  <2>1. /\ pc' = pc /\ pc.at = "index" /\ ctx' = ctx /\ mutt_sort_headers(Msgs, sort', header)
        /\ On("sort")
    BY <1>8 DEF Resort
  <2>2. \A m \in Msgs : header[m].virtual # 0 <=> m \in ctx.pattern BY <1>2, <2>1 DEF View
  <2>3. View' BY <1>0, <2>1, <2>2, ViewSorted
  <2>4. Limits' BY <1>0, <1>2, <2>1 DEF Limits, On
  <2> QED BY <2>1, <2>3, <2>4
<1>9. CASE MboxGivesUp
  <2>1. ctx' = ctx /\ sort' = sort /\ pc.at = "write" /\ pc'.at = "index"
    BY <1>9, AtIs DEF MboxGivesUp, Places
  <2>2. CASE UNCHANGED <<hdrs, v2r, header>> BY <1>0, <1>2, <2>1, <2>2, ViewSame, LimitsSame
  <2>3. CASE mutt_sort_headers(Msgs, sort, header)
    <3>1. \A m \in Msgs : header[m].virtual # 0 <=> m \in ctx.pattern BY <1>2, <2>1 DEF View
    <3>2. View' BY <1>0, <2>1, <2>3, <3>1, ViewSorted
    <3> QED BY <1>0, <1>2, <2>1, <3>2, LimitsSame
  <2> QED BY <1>9, <2>2, <2>3 DEF MboxGivesUp
<1>10. ASSUME UNCHANGED <<hdrs, v2r, sort>>, ctx'.limit = ctx.limit, ctx'.pattern = ctx.pattern,
              \A m \in Msgs : header'[m].virtual = header[m].virtual,
              pc'.at # "count", pc.at \notin {"count", "closed"},
              pc'.at = "closed" \/ pc'.at = "fastclose" \/ pc.at # "fastclose"
       PROVE  /\ Limits'
              /\ pc'.at \notin {"count", "closed", "fastclose"} => View'
              /\ pc'.at = "count" => Entering'
  BY <1>0, <1>2, <1>10, ViewSame, LimitsSame
<1>11. CASE Command
  <2>1. PICK todo \in Seq(MsgWork) : Run(todo) BY <1>0, <1>11, CommandRuns DEF Typed
  <2>2. pc' = [At("apply") EXCEPT !.todo = todo] /\ UNCHANGED <<ctx, hdrs, v2r, header, sort>>
    BY <2>1 DEF Run
  <2>3. pc'.at = "apply" BY <2>2 DEF At
  <2>4. pc.at = "index" BY <1>11 DEF Command
  <2> QED BY <1>10, <2>2, <2>3, <2>4
<1>12. CASE mx_close_mailbox \/ CloseMove \/ CloseUnchanged \/ trash_append \/ Trashed
            \/ MaildirStart \/ Applied \/ (AppendToMbox /\ Breaks)
  <2>1. UNCHANGED <<ctx, hdrs, v2r, header, sort>>
    BY <1>12 DEF mx_close_mailbox, CloseMove, CloseUnchanged, trash_append, Trashed, MaildirStart,
                 Applied, AppendToMbox, Breaks
  <2>2. pc.at \notin {"count", "closed", "fastclose"}
    BY <1>12 DEF mx_close_mailbox, CloseMove, CloseUnchanged, trash_append, Trashed, MaildirStart,
                 Applied, AppendToMbox
  <2>3. Settling BY <1>12 DEF Settling
  <2>4. pc'.at # "count" BY <1>0, <2>3, SettlesIs DEF Settles
  <2> QED BY <1>10, <2>1, <2>2, <2>4
<1>13. CASE mx_toggle_write
  <2>1. pc' = pc /\ pc.at = "index" /\ UNCHANGED <<hdrs, v2r, header, sort>>
        /\ ctx' = [ctx EXCEPT !.dontwrite = ~@]
    BY <1>13 DEF mx_toggle_write
  <2>2. ctx'.limit = ctx.limit /\ ctx'.pattern = ctx.pattern BY <1>0, <2>1 DEF CONTEXT
  <2> QED BY <1>10, <2>1, <2>2
<1>14. CASE Setting
  <2>1. PICK m, r : SetsFlag(m, r) BY <1>0, <1>14, SetsFlagIs
  <2>2. /\ m \in Ids /\ ctx' = r.c /\ header' = [header EXCEPT ![m] = r.h]
        /\ pc.at \in {"apply", "move"} /\ pc'.at = pc.at /\ UNCHANGED <<hdrs, v2r, sort>>
        /\ r.h.virtual = header[m].virtual /\ r.c.limit = ctx.limit /\ r.c.pattern = ctx.pattern
    BY <2>1 DEF SetsFlag, SetRight, SameView
  <2>3. \A k \in Msgs : header'[k].virtual = header[k].virtual BY <1>0, <2>2
  <2> QED BY <1>10, <2>2, <2>3
<1>15. CASE StartsWriting
  <2>1. PICK purge \in BOOLEAN, closing \in BOOLEAN :
          StartWriting(purge, closing) /\ pc.at \in {"index", "close", "move"}
    BY <1>0, <1>15, StartsWritingIs
  <2>2. Writes(purge, closing) BY <1>0, <2>1, WritingIs
  <2>3. pc'.at # "count" /\ UNCHANGED <<hdrs, v2r, sort>> BY <2>2 DEF Writes
  <2>4. ctx'.limit = ctx.limit /\ ctx'.pattern = ctx.pattern BY <1>0, <2>2 DEF Writes, CONTEXT
  <2>5. \A m \in Msgs : header'[m].virtual = header[m].virtual
    <3>1. CASE purge BY <2>2, <3>1 DEF Writes
    <3>2. CASE ~purge
      <4>1. header' = Spared(header) BY <2>2, <3>2 DEF Writes
      <4> QED BY <1>0, <4>1, SparedIs
    <3> QED BY <3>1, <3>2
  <2> QED BY <1>10, <2>1, <2>3, <2>4, <2>5
<1>16. CASE MboxWrite \/ MaildirWritten
  <2>0. pc.at \in {"write", "mh_write"} /\ sort' = sort BY <1>16 DEF MboxWrite, MaildirWritten
  <2>1. CASE Committed
    <3>1. Commits BY <1>0, <2>1, CommittedIs
    <3>2. /\ pc'.at = "index" /\ Kept \in SUBSET Ids /\ KeptHeaders \in [Ids -> HEADER]
          /\ mutt_sort_headers(Kept, sort, KeptHeaders)
          /\ ctx'.limit = ctx.limit /\ ctx'.pattern = ctx.pattern
      BY <3>1, AtIs DEF Commits, Places
    <3>3. \A m \in Kept : KeptHeaders[m].virtual = header[m].virtual BY <3>1 DEF Commits
    <3>4. \A m \in Kept : KeptHeaders[m].virtual # 0 <=> m \in ctx.pattern
      BY <1>2, <2>0, <3>3 DEF View, Kept
    <3>5. View' BY <3>2, <3>4, ViewSorted
    <3> QED BY <1>0, <1>2, <2>0, <3>2, <3>5, LimitsSame
  <2>2. CASE ~Committed
    <3>1. UNCHANGED <<ctx, hdrs, v2r, header>> /\ (pc' = At("fastclose") \/ pc' = At("index"))
      BY <1>16, <2>2 DEF MboxWrite, MaildirWritten
    <3>2. pc'.at # "count" BY <3>1, AtIs DEF Places
    <3> QED BY <1>10, <2>0, <3>1, <3>2
  <2> QED BY <2>1, <2>2
<1>17. CASE MaildirWrite
  <2>1. pc.at = "mh_write" /\ UNCHANGED <<ctx, hdrs, v2r, header, sort>> BY <1>17 DEF MaildirWrite
  <2>2. pc' = [pc EXCEPT !.todo = Tail(@)] \/ pc' = At("index") BY <1>17 DEF MaildirWrite, Aborted
  <2>3. pc'.at # "count" BY <1>0, <1>17, <2>2, TailIs, AtIs DEF MaildirWrite, Places
  <2> QED BY <1>10, <2>1, <2>3
<1>18. CASE mx_fastclose_mailbox
  <2>1. pc'.at = "closed" /\ ctx' = NewContext /\ sort' = sort
    BY <1>18, AtIs DEF mx_fastclose_mailbox, Places
  <2> QED BY <1>0, <1>2, <2>1, LimitsNew
<1>19. CASE UNCHANGED vars
  <2>1. UNCHANGED <<conf, ctx, hdrs, v2r, header, sort, pc>> BY <1>19 DEF vars
  <2>2. Limits' BY <1>0, <1>2, <2>1, LimitsSame
  <2>3. pc'.at \notin {"count", "closed", "fastclose"} => View' BY <1>2, <2>1, ViewSame
  <2>4. pc'.at = "count" => Entering' BY <1>2, <2>1 DEF Entering
  <2> QED BY <2>2, <2>3, <2>4
<1>20. CASE Settling
  BY <1>6, <1>7, <1>8, <1>9, <1>11, <1>12, <1>13, <1>20 DEF Settling
<1> QED BY <1>3, <1>4, <1>5, <1>14, <1>15, <1>16, <1>17, <1>18, <1>19, <1>20, StepKinds

\* What the limit matches, what has a number and what stands in v2r agree, at
\* the prompt and in the loops that sort, count and number new messages
\* (mx_update_context(), mutt_sort_headers(), update_index_unthreaded()).
THEOREM ViewingCorrect == Spec => []Viewing
<1>1. Init => Viewing
  <2>1. SUFFICES ASSUME Init PROVE Viewing OBVIOUS
  <2>2. pc.at = "closed" /\ ctx = NewContext /\ sort = "order" BY <2>1, AtIs DEF Init, Places
  <2>3. 1 .. conf.msgs \subseteq Ids
    <3>1. TypeOK BY <2>1, InitTyped DEF Typed
    <3>2. conf.msgs \in 0 .. MaxMsgs /\ MaxMsgs \in Nat BY <3>1, SettingIs
    <3> QED BY <3>2 DEF Ids
  <2>4. ctx.limit = FALSE /\ ctx.pattern = Ids BY <2>2 DEF NewContext
  <2> QED BY <2>2, <2>3, <2>4 DEF Viewing, Limits
<1>2. Tallied => Base /\ Counting BY DEF Tallied
<1>3. Base /\ Counting /\ Viewing /\ [Next]_vars => Viewing' BY ViewingStep
<1> QED BY <1>1, <1>2, <1>3, TalliedCorrect, PTL DEF Spec

LEMMA ViewShows ==
  ASSUME Base, Viewing, Plain
  PROVE  ViewIsInverse /\ LimitShowsMatches
<1>1. CASE pc.at # "index" BY <1>1 DEF ViewIsInverse, LimitShowsMatches
<1>2. CASE pc.at = "index"
  <2>1. View BY <1>2 DEF Viewing
  <2>2. /\ v2r \in Seq(Nat) /\ \A k \in DOMAIN v2r : v2r[k] \in DOMAIN hdrs
        /\ Ordered(v2r)
        /\ \A k \in DOMAIN v2r : header[hdrs[v2r[k]]].virtual = k
        /\ \A i \in DOMAIN hdrs \ Range(v2r) : header[hdrs[i]].virtual = 0
    BY <2>1 DEF View, Inverts
  <2>3. \A k \in DOMAIN v2r : k # 0 BY <2>2
  <2>4. ViewIsInverse BY <2>2 DEF ViewIsInverse, Ordered
  <2>5. \A i \in DOMAIN hdrs : hdrs[i] \in Msgs BY DEF Msgs, Range
  <2>6. \A m \in Msgs : \E i \in DOMAIN hdrs : hdrs[i] = m BY DEF Msgs, Range
  <2>7. \A k \in DOMAIN v2r : hdrs[v2r[k]] \in Msgs \cap ctx.pattern
    BY <2>1, <2>2, <2>3, <2>5 DEF View
  <2>8. \A m \in Msgs \cap ctx.pattern : \E k \in DOMAIN v2r : hdrs[v2r[k]] = m
    <3> TAKE m \in Msgs \cap ctx.pattern
    <3>1. PICK i \in DOMAIN hdrs : hdrs[i] = m BY <2>6
    <3>2. header[m].virtual # 0 BY <2>1 DEF View
    <3>3. i \in Range(v2r) BY <2>2, <3>1, <3>2
    <3> QED BY <3>1, <3>3 DEF Range
  <2>9. {hdrs[v2r[k]] : k \in DOMAIN v2r} = Msgs \cap ctx.pattern BY <2>7, <2>8
  <2> QED BY <2>4, <2>9 DEF LimitShowsMatches
<1> QED BY <1>1, <1>2

\* At the prompt v2r and the numbers of the headers are inverse, and the view
\* holds every message the limit matches and no other, those that arrived
\* since included (mx_update_context(), update_index_unthreaded(),
\* mutt_pattern_func(), mutt_sort_headers()); a limited and sorted mbox apart,
\* where mail found by a sync is sorted in before it is tried.
THEOREM ViewCorrect ==
  Spec => []((conf.magic = "MUTT_MBOX" => ~On("limit") \/ ~On("sort")) => ViewRight)
<1>1. Tallied => Base BY DEF Tallied
<1>2. Base /\ Viewing => ((conf.magic = "MUTT_MBOX" => ~On("limit") \/ ~On("sort")) => ViewRight)
  BY ViewShows DEF ViewRight, Plain
<1> QED BY <1>1, <1>2, TalliedCorrect, ViewingCorrect, PTL
===============================================================================
