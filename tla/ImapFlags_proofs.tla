--------------------------- MODULE ImapFlags_proofs ---------------------------
(***************************************************************************)
(* Proofs about the flags of an IMAP message, wherever the connection      *)
(* breaks and whatever other clients do.                                   *)
(***************************************************************************)
EXTENDS ImapFlags, SequenceTheorems, FiniteSetTheorems, TLAPS

Verbs == {"+", "-", "NOOP", "EXPUNGE"}
Commands == [verb : Verbs, flag : Flag \cup {"none"}]
Lines == [kind : {"FETCH", "EXPUNGE", "EXPUNGE_OTHER", "OK", "NO"}, set : SUBSET Flag]
Flushing == {"flush", "flushx"}
IsStore(c) == c.verb \in {"+", "-"}
Stores(f) == \E i \in DOMAIN sent : IsStore(sent[i]) /\ sent[i].flag = f
Fetched(i) == i \in DOMAIN wire /\ wire[i].kind = "FETCH"

(***************************************************************************)
(* The inductive invariant.                                                *)
(***************************************************************************)
Typed ==
  /\ TypeOK
  /\ sent \in Seq(Commands) /\ wire \in Seq(Lines)
  /\ raced \in BOOLEAN /\ refused \in BOOLEAN /\ result \in Tagged
  /\ losses \in Nat
  /\ \A f \in DOMAIN want : want[f] \in BOOLEAN

\* Nothing is on its way at the prompt; a line that is announced comes before the
\* answer to a command that waits.
Flow ==
  /\ pc \in {"ready", "closed"} => sent = <<>>
  /\ pc \in {"ready", "closed", "lost"} => wire = <<>>
  /\ sent = <<>> /\ wire # <<>> => wire[Len(wire)].kind \in Tagged
  /\ \A i \in DOMAIN sent : IsStore(sent[i]) =>
       /\ sent[i].flag \in Flag
       /\ pc \in Flushing \cup {"lost"} /\ changed
       /\ sent[i].verb = "+" <=> sent[i].flag \in flags
  /\ ~refused => result = "OK" /\ \A i \in DOMAIN wire : wire[i].kind # "NO"

\* A message without changes shows mutt's record.
Shown == ~changed => flags = recorded

\* What no other client touched is, in the record and in every announcement, as on the
\* server; and so is everything in the last of them, once the server has told it all.
Told ==
  pc \notin Flushing \cup {"lost", "closed"} =>
    /\ \A f \in Flag \ touched :
         /\ f \in recorded <=> f \in stored
         /\ \A i : Fetched(i) => (f \in wire[i].set <=> f \in stored)
    /\ ~owed =>
         /\ (\A i : ~Fetched(i)) => recorded = stored
         /\ \A i : Fetched(i) /\ (\A j : Fetched(j) => j <= i) => wire[i].set = stored

\* While flags are stored: what is not on the server yet is on its way to it, unless
\* another client touched it.
Stored ==
  pc \in Flushing =>
    \A f \in Flag :
      f \notin touched \/ (~owed /\ \A i : ~Fetched(i)) =>
        Stores(f) \/ (f \in flags <=> f \in stored)

\* What was not touched and not changed is on the server, also where the link is lost.
Untouched == ~changed => \A f \in Flag \ touched : f \in recorded <=> f \in stored

\* The user's flags are those shown.
Wanted == \A f \in DOMAIN want \ touched : want[f] = (f \in flags)

Agreeing == Wanted /\ Told /\ Stored /\ Untouched

Converging ==
  /\ Typed /\ Flow /\ Shown
  /\ ~raced /\ ~refused /\ Exists => Agreeing

(***************************************************************************)
(* Lemmas about types, sequences and sets of flags.                        *)
(***************************************************************************)
LEMMA Words ==
  /\ Flag = {"DELETE", "FLAG"} /\ Gone \notin SUBSET Flag
  /\ \A set \in SUBSET Flag, f \in Flag, on \in BOOLEAN :
       /\ With(set, f, on) \in SUBSET Flag
       /\ \A g : g \in With(set, f, on) <=> IF g = f THEN on ELSE g \in set
  BY DEF Flag, Gone, With

LEMMA Kinds ==
  /\ \A kind \in {"FETCH", "EXPUNGE", "EXPUNGE_OTHER", "OK", "NO"}, set \in SUBSET Flag :
       Line(kind, set) \in Lines /\ Line(kind, set).kind = kind /\ Line(kind, set).set = set
  /\ \A v \in {"NOOP", "EXPUNGE"} : Command(v) \in Commands /\ ~IsStore(Command(v))
  /\ \A v \in {"+", "-"}, f \in Flag :
       /\ Store(v, f) \in Commands /\ IsStore(Store(v, f))
       /\ Store(v, f).verb = v /\ Store(v, f).flag = f
  BY DEF Line, Lines, Command, Commands, Verbs, IsStore, Store, Flag

\* What is known of a sequence with an element more or less.
LEMMA Grown ==
  ASSUME NEW S, NEW s \in Seq(S), NEW x \in S
  PROVE  /\ Append(s, x) \in Seq(S) /\ Append(s, x) # <<>>
         /\ DOMAIN s = 1 .. Len(s) /\ Len(s) \in Nat
         /\ Len(Append(s, x)) = Len(s) + 1
         /\ DOMAIN Append(s, x) = 1 .. Len(s) + 1
         /\ Append(s, x)[Len(s) + 1] = x
         /\ \A i \in DOMAIN s : Append(s, x)[i] = s[i]
  OBVIOUS

LEMMA Shrunk ==
  ASSUME NEW S, NEW s \in Seq(S), s # <<>>
  PROVE  /\ Tail(s) \in Seq(S) /\ Head(s) \in S /\ Head(s) = s[1]
         /\ DOMAIN s = 1 .. Len(s) /\ Len(s) \in Nat /\ Len(s) >= 1
         /\ Len(Tail(s)) = Len(s) - 1
         /\ DOMAIN Tail(s) = 1 .. Len(s) - 1
         /\ \A i \in DOMAIN Tail(s) : Tail(s)[i] = s[i + 1] /\ i + 1 \in DOMAIN s
         /\ Tail(s) = <<>> => Len(s) = 1
<1>1. /\ Tail(s) \in Seq(S) /\ Head(s) \in S /\ Head(s) = s[1]
      /\ DOMAIN s = 1 .. Len(s) /\ Len(s) \in Nat /\ Len(s) >= 1
      /\ Len(Tail(s)) = Len(s) - 1
      /\ DOMAIN Tail(s) = 1 .. Len(s) - 1
  OBVIOUS
<1>2. \A i \in DOMAIN Tail(s) : Tail(s)[i] = s[i + 1] /\ i + 1 \in DOMAIN s
  BY <1>1
<1>3. ASSUME Tail(s) = <<>> PROVE Len(s) = 1
  <2>1. \A t \in Seq(S) : t = <<>> => Len(t) = 0
    OBVIOUS
  <2>2. Len(Tail(s)) = 0
    BY <1>1, <1>3, <2>1
  <2>3. \A m, n \in Nat : m = n - 1 /\ m = 0 => n = 1
    OBVIOUS
  <2>4. Len(Tail(s)) \in Nat
    BY <1>1
  <2> QED BY <1>1, <2>2, <2>3, <2>4
<1> QED BY <1>1, <1>2, <1>3

\* When no answer is owed, nothing is on its way.
LEMMA Answered ==
  ASSUME Typed, Flow, waiting = 0
  PROVE  sent = <<>> /\ wire = <<>>
<1> DEFINE tagged == {i \in DOMAIN wire : wire[i].kind \in Tagged}
<1>1. DOMAIN wire = 1 .. Len(wire) /\ Len(wire) \in Nat /\ Len(sent) \in Nat
  BY DEF Typed
<1>2. IsFiniteSet(tagged) /\ Cardinality(tagged) \in Nat
  <2>1. IsFiniteSet(1 .. Len(wire))
    BY <1>1, FS_Interval
  <2>2. tagged \subseteq 1 .. Len(wire)
    BY <1>1
  <2> QED BY <2>1, <2>2, FS_Subset, FS_CardinalityType
<1>3. Len(sent) + Cardinality(tagged) = 0
  BY DEF waiting
<1> HIDE DEF tagged
<1>4. Len(sent) = 0 /\ Cardinality(tagged) = 0
  BY <1>1, <1>2, <1>3
<1>5. sent = <<>>
  BY <1>4 DEF Typed
<1>6. tagged = {}
  BY <1>2, <1>4, FS_EmptySet
<1>7. wire # <<>> => Len(wire) \in tagged
  <2>1. wire # <<>> => Len(wire) \in DOMAIN wire
    BY <1>1 DEF Typed
  <2> QED BY <1>5, <2>1 DEF Flow, tagged
<1> QED BY <1>5, <1>6, <1>7

LEMMA NothingFetched ==
  wire = <<>> => \A i : ~Fetched(i)
  BY DEF Fetched

LEMMA NothingStored ==
  sent = <<>> => \A f : ~Stores(f)
  BY DEF Stores

\* Where nothing is on its way, Flow is only about the place.
LEMMA Still ==
  ASSUME sent' = <<>>, wire' = <<>>, ~refused' => result' = "OK"
  PROVE  Flow'
  BY DEF Flow

(***************************************************************************)
(* The server and other clients.                                           *)
(***************************************************************************)
LEMMA OthersStay ==
  ASSUME Converging, NEW f \in Flag, OtherClientStores(f)
  PROVE  Converging'
<1>1. /\ Exists /\ stored' = Toggle(stored, f) /\ owed' = TRUE /\ touched' = touched \cup {f}
      /\ UNCHANGED <<sent, wire, flags, recorded, changed, active, pending, news, pc, result,
                     losses, want, raced, refused>>
  BY DEF OtherClientStores, header, session
<1>2. stored \in SUBSET Flag
  BY <1>1 DEF Converging, Typed, TypeOK, Exists
<1>3. stored' \in SUBSET Flag /\ \A g : g # f => (g \in stored' <=> g \in stored)
  BY <1>1, <1>2, Words DEF Toggle
<1>4. Typed'
  BY <1>1, <1>3 DEF Converging, Typed, TypeOK
<1>5. Flow' /\ Shown'
  BY <1>1 DEF Converging, Flow, Shown
<1>6. ASSUME ~raced, ~refused PROVE Agreeing'
  <2>1. Agreeing
    BY <1>1, <1>6 DEF Converging
  <2>2. Wanted'
    BY <1>1, <2>1 DEF Agreeing, Wanted
  <2>3. Told'
    BY <1>1, <1>3, <2>1 DEF Agreeing, Told, Fetched
  <2>4. Stored'
    BY <1>1, <1>3, <2>1 DEF Agreeing, Stored, Fetched, Stores
  <2>5. Untouched'
    BY <1>1, <1>3, <2>1 DEF Agreeing, Untouched
  <2> QED BY <2>2, <2>3, <2>4, <2>5 DEF Agreeing
<1> QED BY <1>1, <1>4, <1>5, <1>6 DEF Converging

\* A line more, that is not about flags.
LEMMA OneMore ==
  ASSUME Typed, NEW l \in Lines, wire' = Append(wire, l)
  PROVE  /\ wire' \in Seq(Lines) /\ wire' # <<>> /\ wire'[Len(wire')] = l
         /\ \A i \in DOMAIN wire' : wire'[i] = l \/ (i \in DOMAIN wire /\ wire'[i] = wire[i])
         /\ \A i : Fetched(i) => Fetched(i)' /\ wire'[i] = wire[i]
         /\ \A i : Fetched(i)' => Fetched(i) \/ (i = Len(wire) + 1 /\ l.kind = "FETCH")
         /\ l.kind = "FETCH" => \A i : i = Len(wire) + 1 => Fetched(i)'
         /\ \A i : Fetched(i)' => i <= Len(wire) + 1
<1>1. wire \in Seq(Lines)
  BY DEF Typed
<1>2. /\ wire' \in Seq(Lines) /\ wire' # <<>> /\ DOMAIN wire = 1 .. Len(wire) /\ Len(wire) \in Nat
      /\ Len(wire') = Len(wire) + 1 /\ DOMAIN wire' = 1 .. Len(wire) + 1
      /\ wire'[Len(wire) + 1] = l
      /\ \A i \in DOMAIN wire : wire'[i] = wire[i]
  BY <1>1, Grown
<1>3. \A i \in DOMAIN wire' : i = Len(wire) + 1 \/ i \in DOMAIN wire
  BY <1>2
<1>4. \A i \in DOMAIN wire : i \in DOMAIN wire'
  BY <1>2
<1>5. \A i \in DOMAIN wire' : i <= Len(wire) + 1
  BY <1>2
<1>6. Len(wire) + 1 \in DOMAIN wire'
  BY <1>2
<1>7. \A i : Fetched(i) => Fetched(i)' /\ wire'[i] = wire[i]
  BY <1>2, <1>4 DEF Fetched
<1>8. \A i : Fetched(i)' => Fetched(i) \/ (i = Len(wire) + 1 /\ l.kind = "FETCH")
  BY <1>2, <1>3 DEF Fetched
<1>9. l.kind = "FETCH" => \A i : i = Len(wire) + 1 => Fetched(i)'
  BY <1>2, <1>6 DEF Fetched
<1>10. \A i : Fetched(i)' => i <= Len(wire) + 1
  BY <1>5 DEF Fetched
<1>11. wire'[Len(wire')] = l
  BY <1>2
<1>12. \A i \in DOMAIN wire' : wire'[i] = l \/ (i \in DOMAIN wire /\ wire'[i] = wire[i])
  BY <1>2, <1>3
<1> QED BY <1>2, <1>7, <1>8, <1>9, <1>10, <1>11, <1>12

LEMMA AnnounceStays ==
  ASSUME Converging, Announce
  PROVE  Converging'
<1> DEFINE l == Line("FETCH", stored)
<1>1. /\ Exists /\ sent # <<>> /\ Open /\ wire' = Append(wire, l) /\ owed' = FALSE
      /\ UNCHANGED <<stored, sent, flags, recorded, changed, active, pending, news, pc, result,
                     losses, want, touched, raced, refused>>
  BY DEF Announce, header, session, ghosts
<1>2. l \in Lines /\ l.kind = "FETCH" /\ l.set = stored
  <2>1. stored \in SUBSET Flag
    BY <1>1 DEF Converging, Typed, TypeOK, Exists
  <2> QED BY <2>1, Kinds
<1> HIDE DEF l
<1>3. Typed /\ Flow
  BY DEF Converging
<1>4. /\ wire' \in Seq(Lines) /\ wire' # <<>> /\ wire'[Len(wire')] = l
      /\ \A i \in DOMAIN wire' : wire'[i] = l \/ (i \in DOMAIN wire /\ wire'[i] = wire[i])
      /\ \A i : Fetched(i) => Fetched(i)' /\ wire'[i] = wire[i]
      /\ \A i : Fetched(i)' => i <= Len(wire) + 1
  BY <1>1, <1>2, <1>3, OneMore
<1>8. /\ \A i : Fetched(i)' => Fetched(i) \/ i = Len(wire) + 1
      /\ \A i : i = Len(wire) + 1 => Fetched(i)'
  BY <1>1, <1>2, <1>3, OneMore
<1>5. Typed'
  BY <1>1, <1>3, <1>4 DEF Typed, TypeOK
<1>6. Flow' /\ Shown'
  <2>1. pc \notin {"ready", "closed", "lost"}
    BY <1>1, <1>3 DEF Flow, Open
  <2>2. Flow'
    BY <1>1, <1>2, <1>3, <1>4, <2>1 DEF Flow
  <2> QED BY <1>1, <2>2 DEF Converging, Shown
<1>7. ASSUME ~raced, ~refused PROVE Agreeing'
  <2>1. Agreeing
    BY <1>1, <1>7 DEF Converging
  <2>2. Wanted' /\ Untouched'
    BY <1>1, <2>1 DEF Agreeing, Wanted, Untouched
  <2>3. \A i : Fetched(i)' => (Fetched(i) /\ wire'[i] = wire[i]) \/ (i = Len(wire) + 1 /\ wire'[i].set = stored)
    <3>1. wire'[Len(wire) + 1] = l
      BY <1>1, <1>2, <1>3, Grown DEF Typed
    <3> QED BY <1>2, <1>4, <1>8, <3>1
  <2>4. Told'
    <3>1. Len(wire) \in Nat
      BY <1>3 DEF Typed
    <3>2. ASSUME pc \notin Flushing \cup {"lost", "closed"}, NEW f \in Flag \ touched
          PROVE  /\ f \in recorded' <=> f \in stored'
                 /\ \A i : Fetched(i)' => (f \in wire'[i].set <=> f \in stored')
      BY <1>1, <2>1, <2>3, <3>2 DEF Agreeing, Told
    <3>3. ASSUME NEW i, Fetched(i)', \A j : Fetched(j)' => j <= i
          PROVE  wire'[i].set = stored'
      <4>1. Len(wire) + 1 <= i /\ i <= Len(wire) + 1
        BY <1>4, <1>8, <3>1, <3>3
      <4>2. i \in Int
        <5>1. i \in DOMAIN wire'
          BY <3>3 DEF Fetched
        <5>2. DOMAIN wire' = 1 .. Len(wire')
          BY <1>4
        <5> QED BY <5>1, <5>2
      <4>3. i = Len(wire) + 1
        BY <3>1, <4>1, <4>2
      <4>4. wire'[Len(wire) + 1] = l
        BY <1>1, <1>2, <1>3, Grown DEF Typed
      <4> QED BY <1>1, <1>2, <4>3, <4>4
    <3> QED BY <1>1, <1>4, <1>8, <3>2, <3>3 DEF Told
  <2>5. Stored'
    BY <1>1, <1>4, <1>8, <2>1 DEF Agreeing, Stored, Stores
  <2> QED BY <2>2, <2>4, <2>5 DEF Agreeing
<1> QED BY <1>1, <1>5, <1>6, <1>7 DEF Converging

LEMMA AnnounceOtherStays ==
  ASSUME Converging, AnnounceOther
  PROVE  Converging'
<1> DEFINE l == Line("EXPUNGE_OTHER", {})
<1>1. /\ sent # <<>> /\ Open /\ wire = <<>> /\ wire' = Append(wire, l)
      /\ UNCHANGED <<stored, owed, sent, flags, recorded, changed, active, pending, news, pc, result,
                     losses, want, touched, raced, refused>>
  BY DEF AnnounceOther, server, header, session, ghosts
<1>2. l \in Lines /\ l.kind = "EXPUNGE_OTHER"
  BY Kinds
<1> HIDE DEF l
<1>3. Typed /\ Flow
  BY DEF Converging
<1>4. /\ wire' \in Seq(Lines) /\ wire' # <<>> /\ wire'[Len(wire')] = l
      /\ \A i \in DOMAIN wire' : wire'[i] = l \/ (i \in DOMAIN wire /\ wire'[i] = wire[i])
      /\ \A i : ~Fetched(i)'
  BY <1>1, <1>2, <1>3, OneMore, NothingFetched
<1>5. Typed'
  BY <1>1, <1>3, <1>4 DEF Typed, TypeOK
<1>6. Flow' /\ Shown'
  <2>1. pc \notin {"ready", "closed", "lost"}
    BY <1>1, <1>3 DEF Flow, Open
  <2>2. Flow'
    BY <1>1, <1>2, <1>3, <1>4, <2>1 DEF Flow
  <2> QED BY <1>1, <2>2 DEF Converging, Shown
<1>7. ASSUME ~raced, ~refused, Exists PROVE Agreeing'
  <2>1. Agreeing
    BY <1>7 DEF Converging
  <2>2. Wanted' /\ Untouched'
    BY <1>1, <2>1 DEF Agreeing, Wanted, Untouched
  <2>3. Told' /\ Stored'
    BY <1>1, <1>4, <2>1, NothingFetched DEF Agreeing, Told, Stored, Stores
  <2> QED BY <2>2, <2>3 DEF Agreeing
<1> QED BY <1>1, <1>5, <1>6, <1>7 DEF Converging, Exists

\* The server has done the next command and says so.
LEMMA Executed ==
  ASSUME Typed, Flow, Open, sent # <<>>, sent' = Tail(sent),
         wire' # <<>>, wire'[Len(wire')].kind \in Tagged,
         ~refused' => ~refused /\ \A i \in DOMAIN wire' : wire'[i].kind # "NO",
         UNCHANGED <<flags, changed, pc, result>>
  PROVE  Flow'
<1>1. sent \in Seq(Commands)
  BY DEF Typed
<1>2. \A i \in DOMAIN sent' : i + 1 \in DOMAIN sent /\ sent'[i] = sent[i + 1]
  BY <1>1, Shrunk
<1>3. pc \notin {"ready", "closed", "lost"}
  BY DEF Flow, Open
<1>4. \A i \in DOMAIN sent' : IsStore(sent'[i]) =>
       /\ sent'[i].flag \in Flag
       /\ pc \in Flushing \cup {"lost"} /\ changed
       /\ sent'[i].verb = "+" <=> sent'[i].flag \in flags
  BY <1>2 DEF Flow
<1>5. ~refused' => result' = "OK" /\ \A i \in DOMAIN wire' : wire'[i].kind # "NO"
  BY DEF Flow
<1> QED BY <1>3, <1>4, <1>5 DEF Flow

\* A store that is carried out leaves the others.
LEMMA StoresLeft ==
  ASSUME Typed, sent # <<>>, sent' = Tail(sent), NEW f, Stores(f)
  PROVE  Stores(f)' \/ (IsStore(Head(sent)) /\ Head(sent).flag = f)
<1>1. sent \in Seq(Commands)
  BY DEF Typed
<1>2. PICK i \in DOMAIN sent : IsStore(sent[i]) /\ sent[i].flag = f
  BY DEF Stores
<1>3. /\ Head(sent) = sent[1] /\ DOMAIN sent = 1 .. Len(sent) /\ Len(sent) \in Nat
      /\ DOMAIN sent' = 1 .. Len(sent) - 1
      /\ \A j \in DOMAIN sent' : sent'[j] = sent[j + 1]
  BY <1>1, Shrunk
<1>4. CASE i = 1
  BY <1>2, <1>3, <1>4
<1>5. CASE i # 1
  <2>1. i - 1 \in DOMAIN sent' /\ (i - 1) + 1 = i
    BY <1>3, <1>5
  <2>2. sent'[i - 1] = sent[i]
    BY <1>3, <2>1
  <2>3. IsStore(sent'[i - 1]) /\ sent'[i - 1].flag = f
    BY <1>2, <2>2
  <2> QED BY <2>1, <2>3 DEF Stores
<1> QED BY <1>4, <1>5

LEMMA ServerStays ==
  ASSUME Converging, ServerExecutes
  PROVE  Converging'
<1> DEFINE c == Head(sent)
           ok == Line("OK", {})
           no == Line("NO", {})
           gone == Line("EXPUNGE", {})
<1>1. /\ Open /\ sent # <<>> /\ sent' = Tail(sent)
      /\ UNCHANGED <<owed, flags, recorded, changed, active, pending, news, pc, result, losses,
                     want, touched, raced>>
  BY DEF ServerExecutes, header, session
<1>2. \/ /\ IsStore(c) /\ stored' = IF Exists THEN With(stored, c.flag, c.verb = "+") ELSE stored
         /\ wire' = Append(wire, ok) /\ UNCHANGED refused
      \/ wire' = Append(wire, no) /\ refused' = TRUE /\ UNCHANGED stored
      \/ ~IsStore(c) /\ wire' = Append(wire, ok) /\ UNCHANGED <<stored, refused>>
      \/ stored' = Gone /\ wire' = wire \o <<gone, ok>> /\ UNCHANGED refused
  BY DEF ServerExecutes, IsStore
<1>3. /\ ok \in Lines /\ ok.kind = "OK" /\ no \in Lines /\ no.kind = "NO"
      /\ gone \in Lines /\ gone.kind = "EXPUNGE"
  BY Kinds
<1> HIDE DEF ok, no, gone
<1>4. Typed /\ Flow
  BY DEF Converging
<1>5. sent' \in Seq(Commands) /\ c = sent[1] /\ 1 \in DOMAIN sent /\ c \in Commands
  <2>1. sent \in Seq(Commands)
    BY <1>4 DEF Typed
  <2>2. Tail(sent) \in Seq(Commands) /\ Head(sent) = sent[1] /\ Head(sent) \in Commands
    BY <1>1, <2>1, Shrunk
  <2>3. DOMAIN sent = 1 .. Len(sent) /\ Len(sent) \in Nat /\ Len(sent) >= 1
    BY <1>1, <2>1, Shrunk
  <2> QED BY <1>1, <2>2, <2>3
<1>6. IsStore(c) => c.flag \in Flag /\ pc \in Flushing /\ changed /\ (c.verb = "+" <=> c.flag \in flags)
  BY <1>1, <1>4, <1>5 DEF Flow, Open
<1> HIDE DEF c
<1>7. stored \in (SUBSET Flag) \cup {Gone}
  BY <1>4 DEF Typed, TypeOK
<1>8. CASE \E l \in {ok, no} : wire' = Append(wire, l) /\ refused' = (refused \/ l = no)
  <2>1. PICK l \in {ok, no} : wire' = Append(wire, l) /\ refused' = (refused \/ l = no)
    BY <1>8
  <2>2. l \in Lines /\ l.kind \in Tagged
    BY <1>3 DEF Tagged
  <2>3. /\ wire' \in Seq(Lines) /\ wire' # <<>> /\ wire'[Len(wire')] = l
        /\ \A i \in DOMAIN wire' : wire'[i] = l \/ (i \in DOMAIN wire /\ wire'[i] = wire[i])
    BY <1>4, <2>1, <2>2, OneMore
  <2>4. /\ \A i : Fetched(i) => Fetched(i)' /\ wire'[i] = wire[i]
        /\ \A i : Fetched(i)' => Fetched(i)
    <3>1. \A i : Fetched(i) => Fetched(i)' /\ wire'[i] = wire[i]
      BY <1>4, <2>1, <2>2, OneMore
    <3>2. \A i : Fetched(i)' => Fetched(i) \/ (i = Len(wire) + 1 /\ l.kind = "FETCH")
      BY <1>4, <2>1, <2>2, OneMore
    <3> QED BY <2>2, <3>1, <3>2 DEF Tagged
  <2>5. ~refused' => ~refused /\ \A i \in DOMAIN wire' : wire'[i].kind # "NO"
    BY <1>3, <1>4, <2>1, <2>3 DEF Flow
  <2>6. Flow'
    BY <1>1, <1>4, <2>2, <2>3, <2>5, Executed
  <2>7. \/ IsStore(c) /\ stored' = IF Exists THEN With(stored, c.flag, c.verb = "+") ELSE stored
        \/ refused' /\ UNCHANGED stored
        \/ ~IsStore(c) /\ UNCHANGED stored
        \/ stored' = Gone
    BY <1>2
  <2>8. stored' \in (SUBSET Flag) \cup {Gone}
    BY <1>6, <1>7, <2>7, Words DEF Exists
  <2>9. refused' \in BOOLEAN
    BY <1>4, <2>1 DEF Typed
  <2>10. Typed'
    BY <1>1, <1>4, <1>5, <2>3, <2>8, <2>9 DEF Typed, TypeOK
  <2>11. Shown'
    BY <1>1 DEF Converging, Shown
  <2>12. ASSUME ~raced', ~refused', Exists' PROVE Agreeing'
    <3>1. Exists
      BY <2>7, <2>12 DEF Exists
    <3>2. Agreeing
      BY <1>1, <2>5, <2>12, <3>1 DEF Converging
    <3>3. Wanted'
      BY <1>1, <3>2 DEF Agreeing, Wanted
    <3>4. CASE IsStore(c) /\ stored' = With(stored, c.flag, c.verb = "+")
      <4>1. c.flag \in Flag /\ pc \in Flushing /\ changed /\ (c.verb = "+" <=> c.flag \in flags)
        BY <1>6, <3>4
      <4>2. Told' /\ Untouched'
        BY <1>1, <4>1 DEF Told, Untouched
      <4>3. \A g \in Flag : g \in stored' <=> IF g = c.flag THEN g \in flags ELSE g \in stored
        <5>1. stored \in SUBSET Flag /\ c.flag \in Flag /\ (c.verb = "+") \in BOOLEAN
          BY <1>7, <3>1, <4>1 DEF Exists
        <5>2. \A g : g \in With(stored, c.flag, c.verb = "+") <=>
                      IF g = c.flag THEN c.verb = "+" ELSE g \in stored
          BY <5>1 DEF With
        <5>3. \A g : g \in stored' <=> IF g = c.flag THEN c.verb = "+" ELSE g \in stored
          BY <3>4, <5>2
        <5> QED BY <4>1, <5>3
      <4>4. \A g \in Flag : Stores(g) => Stores(g)' \/ c.flag = g
        BY <1>1, <1>4, StoresLeft DEF c
      <4>5. Stored'
        BY <1>1, <2>4, <3>2, <4>3, <4>4 DEF Agreeing, Stored
      <4> QED BY <3>3, <4>2, <4>5 DEF Agreeing
    <3>5. CASE ~IsStore(c) /\ UNCHANGED stored
      <4>1. \A g \in Flag : Stores(g) => Stores(g)'
        BY <1>1, <1>4, <3>5, StoresLeft DEF c
      <4>2. Stored'
        BY <1>1, <2>4, <3>2, <3>5, <4>1 DEF Agreeing, Stored
      <4>3. Told'
        BY <1>1, <2>4, <3>2, <3>5 DEF Agreeing, Told
      <4>4. Untouched'
        BY <1>1, <3>2, <3>5 DEF Agreeing, Untouched
      <4> QED BY <3>3, <4>2, <4>3, <4>4 DEF Agreeing
    <3> QED BY <2>7, <2>12, <3>1, <3>4, <3>5 DEF Exists
  <2> QED BY <2>6, <2>10, <2>11, <2>12 DEF Converging
<1>9. CASE stored' = Gone /\ wire' = wire \o <<gone, ok>> /\ UNCHANGED refused
  <2>1. wire \in Seq(Lines)
    BY <1>4 DEF Typed
  <2>2. <<gone, ok>> \in Seq(Lines) /\ Len(<<gone, ok>>) = 2
    BY <1>3
  <2>3. /\ wire' \in Seq(Lines) /\ Len(wire') = Len(wire) + 2 /\ Len(wire) \in Nat
        /\ DOMAIN wire = 1 .. Len(wire) /\ DOMAIN wire' = 1 .. Len(wire) + 2
    BY <1>9, <2>1, <2>2
  <2>4. /\ \A i \in 1 .. Len(wire) : wire'[i] = wire[i]
        /\ wire'[Len(wire) + 1] = gone /\ wire'[Len(wire) + 2] = ok
    BY <1>9, <2>1, <2>2, <2>3
  <2>5. \A i \in DOMAIN wire' : i \in 1 .. Len(wire) \/ i = Len(wire) + 1 \/ i = Len(wire) + 2
    BY <2>3
  <2>6. \A i \in DOMAIN wire' : (i \in DOMAIN wire /\ wire'[i] = wire[i]) \/ wire'[i] \in {gone, ok}
    BY <2>3, <2>4, <2>5
  <2>7. ~refused' => ~refused /\ \A i \in DOMAIN wire' : wire'[i].kind # "NO"
    BY <1>3, <1>4, <1>9, <2>6 DEF Flow
  <2>8. wire' # <<>> /\ wire'[Len(wire')].kind \in Tagged
    BY <1>3, <2>3, <2>4 DEF Tagged
  <2>9. Flow'
    BY <1>1, <1>4, <2>7, <2>8, Executed
  <2>10. Typed'
    BY <1>1, <1>4, <1>5, <1>9, <2>3 DEF Typed, TypeOK
  <2>11. Shown' /\ ~Exists'
    BY <1>1, <1>9 DEF Converging, Shown, Exists
  <2> QED BY <2>9, <2>10, <2>11 DEF Converging
<1>10. \/ \E l \in {ok, no} : wire' = Append(wire, l) /\ refused' = (refused \/ l = no)
       \/ stored' = Gone /\ wire' = wire \o <<gone, ok>> /\ UNCHANGED refused
  <2>1. refused \in BOOLEAN /\ ok # no
    BY <1>3, <1>4 DEF Typed
  <2>2. CASE wire' = Append(wire, ok) /\ UNCHANGED refused
    BY <2>1, <2>2
  <2>3. CASE wire' = Append(wire, no) /\ refused' = TRUE
    BY <2>1, <2>3
  <2> QED BY <1>2, <2>2, <2>3
<1> QED BY <1>8, <1>9, <1>10

(***************************************************************************)
(* The user, and calls that begin.                                         *)
(***************************************************************************)
LEMMA UserStays ==
  ASSUME Converging, NEW f \in Flag, mutt_set_flag(f)
  PROVE  Converging'
<1>1. /\ pc = "ready" /\ flags' = Toggle(flags, f) /\ changed' = TRUE
      /\ want' = [g \in DOMAIN want \cup {f} |-> IF g = f THEN f \notin flags ELSE want[g]]
      /\ touched' = IF owed THEN touched ELSE touched \ {f}
      /\ UNCHANGED <<stored, owed, sent, wire, recorded, active, pending, news, pc, result, losses,
                     raced, refused>>
  BY DEF mutt_set_flag, server, session
<1>2. Typed /\ Flow
  BY DEF Converging
<1>3. flags' \subseteq Flag /\ \A g : g \in flags' <=> IF g = f THEN f \notin flags ELSE g \in flags
  <2>1. flags \in SUBSET Flag /\ (f \notin flags) \in BOOLEAN
    BY <1>2 DEF Typed, TypeOK
  <2>2. Toggle(flags, f) \subseteq Flag
    BY <2>1 DEF With, Toggle
  <2>3. \A g : g \in Toggle(flags, f) <=> IF g = f THEN f \notin flags ELSE g \in flags
    BY <2>1 DEF With, Toggle
  <2> QED BY <1>1, <2>2, <2>3
<1>4. DOMAIN want' = DOMAIN want \cup {f} /\ want'[f] = (f \notin flags)
      /\ \A g \in DOMAIN want : g # f => want'[g] = want[g]
  BY <1>1
<1>5. Typed'
  <2>1. \A g \in DOMAIN want' : want'[g] \in BOOLEAN
    BY <1>2, <1>4 DEF Typed
  <2> QED BY <1>1, <1>2, <1>3, <1>4, <2>1 DEF Typed, TypeOK
<1>6. sent = <<>> /\ wire = <<>>
  BY <1>1, <1>2 DEF Flow
<1>7. Flow' /\ Shown'
  <2>1. ~refused' => result' = "OK"
    BY <1>1, <1>2 DEF Flow
  <2> QED BY <1>1, <1>6, <2>1, Still DEF Shown
<1>8. ASSUME ~raced, ~refused, Exists PROVE Agreeing'
  <2>1. Agreeing
    BY <1>8 DEF Converging
  <2>2. Wanted'
    <3>1. ASSUME NEW g \in DOMAIN want' \ touched' PROVE want'[g] = (g \in flags')
      <4>1. CASE g = f
        BY <1>3, <1>4, <4>1
      <4>2. CASE g # f
        <5>1. g \in DOMAIN want \ touched
          BY <1>1, <1>4, <3>1, <4>2
        <5>2. want[g] = (g \in flags)
          BY <2>1, <5>1 DEF Agreeing, Wanted
        <5> QED BY <1>3, <1>4, <4>2, <5>1, <5>2
      <4> QED BY <4>1, <4>2
    <3> QED BY <3>1 DEF Wanted
  <2>3. \A i : ~Fetched(i)
    BY <1>6, NothingFetched
  <2>4. \A i : ~Fetched(i)'
    BY <1>1, <2>3 DEF Fetched
  <2>5. Told'
    <3>1. \A g \in Flag \ touched' : g \in recorded <=> g \in stored
      BY <1>1, <2>1, <2>3 DEF Agreeing, Told, Flushing
    <3>2. ~owed => recorded = stored
      BY <1>1, <2>1, <2>3 DEF Agreeing, Told, Flushing
    <3> QED BY <1>1, <2>4, <3>1, <3>2 DEF Told
  <2>6. Stored' /\ Untouched'
    BY <1>1 DEF Stored, Untouched, Flushing
  <2> QED BY <2>2, <2>5, <2>6 DEF Agreeing
<1> QED BY <1>1, <1>5, <1>7, <1>8 DEF Converging, Exists

\* A call that may ask the server with a NOOP.
LEMMA BeginsStays ==
  ASSUME Converging, imap_check_mailbox \/ SyncBegins
  PROVE  Converging'
<1>1. /\ pc = "ready" /\ pc' \in {"check", "sync"}
      /\ sent' = Append(sent, Command("NOOP")) \/ UNCHANGED sent
      /\ UNCHANGED <<stored, owed, wire, flags, recorded, changed, active, pending, news, result,
                     losses, want, touched, raced, refused>>
  BY DEF imap_check_mailbox, SyncBegins, server, header, session, ghosts
<1>2. Typed /\ Flow
  BY DEF Converging
<1>3. sent = <<>> /\ wire = <<>>
  BY <1>1, <1>2 DEF Flow
<1>4. sent' \in Seq(Commands) /\ \A i \in DOMAIN sent' : ~IsStore(sent'[i])
  <2>1. Command("NOOP") \in Commands /\ ~IsStore(Command("NOOP"))
    BY Kinds
  <2>2. Append(<<>>, Command("NOOP")) \in Seq(Commands)
        /\ \A i \in DOMAIN Append(<<>>, Command("NOOP")) :
             Append(<<>>, Command("NOOP"))[i] = Command("NOOP")
    BY <2>1
  <2>3. sent' = <<>> \/ sent' = Append(<<>>, Command("NOOP"))
    BY <1>1, <1>3
  <2>4. <<>> \in Seq(Commands) /\ DOMAIN <<>> = {}
    OBVIOUS
  <2>5. CASE sent' = <<>>
    BY <2>4, <2>5
  <2>6. CASE sent' = Append(<<>>, Command("NOOP"))
    BY <2>1, <2>2, <2>6
  <2> QED BY <2>3, <2>5, <2>6
<1>5. Typed'
  BY <1>1, <1>2, <1>4 DEF Typed, TypeOK
<1>6. Flow' /\ Shown'
  <2>1. ~refused' => result' = "OK"
    BY <1>1, <1>2 DEF Flow
  <2> QED BY <1>1, <1>3, <1>4, <2>1 DEF Converging, Flow, Shown
<1>7. ASSUME ~raced, ~refused, Exists PROVE Agreeing'
  <2>1. Agreeing
    BY <1>7 DEF Converging
  <2>2. Wanted' /\ Untouched'
    BY <1>1, <2>1 DEF Agreeing, Wanted, Untouched
  <2>3. Told'
    BY <1>1, <2>1 DEF Agreeing, Told, Fetched, Flushing
  <2>4. Stored'
    BY <1>1 DEF Stored, Flushing
  <2> QED BY <2>2, <2>3, <2>4 DEF Agreeing
<1> QED BY <1>1, <1>5, <1>6, <1>7 DEF Converging, Exists

(***************************************************************************)
(* Lines of the server.                                                    *)
(***************************************************************************)
LEMMA Read ==
  ASSUME Typed, wire # <<>>, wire' = Tail(wire)
  PROVE  /\ wire' \in Seq(Lines) /\ Head(wire) \in Lines
         /\ \A i \in DOMAIN wire' : i + 1 \in DOMAIN wire /\ wire'[i] = wire[i + 1]
         /\ wire' # <<>> => Len(wire') \in DOMAIN wire' /\ Len(wire') + 1 = Len(wire)
         /\ \A i : Fetched(i)' => Fetched(i + 1) /\ wire'[i] = wire[i + 1] /\ i \in Int
         /\ \A i : Fetched(i) => i \in Int /\ (i = 1 \/ Fetched(i - 1)')
         /\ 1 \in DOMAIN wire /\ Head(wire) = wire[1]
         /\ \A i : Fetched(i)' => i >= 1
         /\ wire' = <<>> => Len(wire) = 1
<1>1. wire \in Seq(Lines)
  BY DEF Typed
<1>2. /\ wire' \in Seq(Lines) /\ Head(wire) \in Lines /\ Head(wire) = wire[1]
      /\ DOMAIN wire = 1 .. Len(wire) /\ Len(wire) \in Nat /\ Len(wire) >= 1
      /\ Len(wire') = Len(wire) - 1 /\ DOMAIN wire' = 1 .. Len(wire) - 1
      /\ \A i \in DOMAIN wire' : wire'[i] = wire[i + 1] /\ i + 1 \in DOMAIN wire
      /\ wire' = <<>> => Len(wire) = 1
  BY <1>1, Shrunk
<1>3. 1 \in DOMAIN wire
  BY <1>2
<1>4. \A i \in DOMAIN wire' : i \in Int /\ i >= 1
  BY <1>2
<1>5. \A i \in DOMAIN wire : i \in Int /\ (i = 1 \/ (i - 1 \in DOMAIN wire' /\ (i - 1) + 1 = i))
  BY <1>2
<1>6. wire' # <<>> => Len(wire') \in DOMAIN wire' /\ Len(wire') + 1 = Len(wire)
  <2>1. Len(wire') \in Nat
    BY <1>2
  <2>2. wire' # <<>> => Len(wire') # 0
    BY <1>2
  <2> QED BY <1>2, <2>1, <2>2
<1>7. \A i : Fetched(i)' => Fetched(i + 1) /\ wire'[i] = wire[i + 1] /\ i \in Int
  BY <1>2, <1>4 DEF Fetched
<1>8. \A i : Fetched(i) => i \in Int /\ (i = 1 \/ Fetched(i - 1)')
  <2>1. ASSUME NEW i, Fetched(i), i # 1 PROVE Fetched(i - 1)'
    <3>1. i - 1 \in DOMAIN wire' /\ (i - 1) + 1 = i
      BY <1>5, <2>1 DEF Fetched
    <3>2. wire'[i - 1] = wire[i]
      BY <1>2, <3>1
    <3>3. i - 1 \in DOMAIN wire' /\ wire'[i - 1].kind = "FETCH"
      BY <2>1, <3>1, <3>2 DEF Fetched
    <3> QED BY <3>3 DEF Fetched
  <2> QED BY <1>5, <2>1 DEF Fetched
<1>9. \A i : Fetched(i)' => i >= 1
  BY <1>4 DEF Fetched
<1> QED BY <1>2, <1>3, <1>6, <1>7, <1>8, <1>9

LEMMA ReadStays ==
  ASSUME Converging, ReadLine
  PROVE  Converging'
<1> DEFINE l == Head(wire)
<1>1. /\ Open /\ pc # "ready" /\ wire # <<>> /\ wire' = Tail(wire)
      /\ UNCHANGED <<stored, owed, sent, pc, losses>>
  BY DEF ReadLine, server
<1>2. \/ l.kind = "FETCH" /\ cmd_parse_fetch(l.set) /\ UNCHANGED result
      \/ /\ l.kind \in {"EXPUNGE", "EXPUNGE_OTHER"} /\ pending' = TRUE
         /\ UNCHANGED <<flags, recorded, changed, active, news, result, want, touched, raced, refused>>
      \/ /\ l.kind \in Tagged /\ result' = l.kind
         /\ UNCHANGED <<flags, recorded, changed, active, pending, news, want, touched, raced, refused>>
  BY DEF ReadLine, header, session, ghosts
<1> HIDE DEF l
<1>3. Typed /\ Flow
  BY DEF Converging
<1>4. /\ wire' \in Seq(Lines) /\ l \in Lines
      /\ \A i \in DOMAIN wire' : i + 1 \in DOMAIN wire /\ wire'[i] = wire[i + 1]
      /\ wire' # <<>> => Len(wire') \in DOMAIN wire' /\ Len(wire') + 1 = Len(wire)
      /\ 1 \in DOMAIN wire /\ l = wire[1]
      /\ wire' = <<>> => Len(wire) = 1
  BY <1>1, <1>3, Read DEF l
<1>5. /\ \A i : Fetched(i)' => Fetched(i + 1) /\ wire'[i] = wire[i + 1] /\ i \in Int
      /\ \A i : Fetched(i) => i \in Int /\ (i = 1 \/ Fetched(i - 1)')
      /\ \A i : Fetched(i)' => i >= 1
  BY <1>1, <1>3, Read
<1>6. UNCHANGED <<changed, active, want, touched, refused>>
  BY <1>2 DEF cmd_parse_fetch
<1>7. pc \notin {"ready", "closed", "lost"}
  BY <1>1 DEF Open
<1>8. flags' = flags \/ (~changed /\ l.kind = "FETCH" /\ flags' = l.set)
  BY <1>2 DEF cmd_parse_fetch, imap_set_flags, header
<1>9. l.set \subseteq Flag
  BY <1>4 DEF Lines
<1>10. Typed'
  <2>1. recorded' = recorded \/ (l.kind = "FETCH" /\ recorded' = l.set)
    BY <1>2 DEF cmd_parse_fetch, imap_set_flags, header
  <2>2. raced' \in BOOLEAN
    BY <1>2, <1>3 DEF cmd_parse_fetch, Typed
  <2>3. result' \in Tagged
    BY <1>2, <1>3 DEF Typed
  <2>4. pending' \in BOOLEAN /\ news' \in BOOLEAN
    BY <1>2, <1>3 DEF cmd_parse_fetch, imap_set_flags, session, Typed, TypeOK
  <2>5. flags' \subseteq Flag /\ recorded' \subseteq Flag
    BY <1>3, <1>8, <1>9, <2>1 DEF Typed, TypeOK
  <2> QED BY <1>1, <1>3, <1>4, <1>6, <2>2, <2>3, <2>4, <2>5 DEF Typed, TypeOK
<1>11. Flow'
  <2>1. sent' = <<>> /\ wire' # <<>> => wire'[Len(wire')].kind \in Tagged
    BY <1>1, <1>3, <1>4 DEF Flow
  <2>2. \A i \in DOMAIN sent : IsStore(sent[i]) => changed /\ flags' = flags
    BY <1>3, <1>8 DEF Flow
  <2>3. \A i \in DOMAIN sent' : IsStore(sent'[i]) =>
          /\ sent'[i].flag \in Flag
          /\ pc' \in Flushing \cup {"lost"} /\ changed'
          /\ sent'[i].verb = "+" <=> sent'[i].flag \in flags'
    BY <1>1, <1>3, <1>6, <2>2 DEF Flow
  <2>4. ~refused' => result' = "OK" /\ \A i \in DOMAIN wire' : wire'[i].kind # "NO"
    <3>1. ~refused => l.kind # "NO"
      BY <1>3, <1>4 DEF Flow
    <3>2. ~refused => \A i \in DOMAIN wire' : wire'[i].kind # "NO"
      BY <1>3, <1>4 DEF Flow
    <3>3. ~refused => result' = "OK"
      BY <1>2, <1>3, <3>1 DEF Flow, Tagged
    <3> QED BY <1>6, <3>2, <3>3
  <2> QED BY <1>1, <1>7, <2>1, <2>3, <2>4 DEF Flow
<1>12. CASE ~(l.kind = "FETCH" /\ active)
  <2>1. UNCHANGED <<flags, recorded>>
    BY <1>2, <1>12 DEF cmd_parse_fetch, Tagged
  <2>2. Shown'
    BY <1>6, <2>1 DEF Converging, Shown
  <2>3. ASSUME ~raced', ~refused', Exists' PROVE Agreeing'
    <3>1. l.kind # "FETCH" /\ ~raced
      BY <1>2, <1>3, <1>12, <2>3 DEF cmd_parse_fetch, Typed, Tagged
    <3>2. Agreeing
      BY <1>1, <1>6, <2>3, <3>1 DEF Converging, Exists
    <3>3. Wanted' /\ Untouched'
      BY <1>1, <1>6, <2>1, <3>2 DEF Agreeing, Wanted, Untouched
    <3>4. ~Fetched(1)
      BY <1>4, <3>1 DEF Fetched
    <3>5. (\A i : ~Fetched(i)') <=> (\A i : ~Fetched(i))
      BY <1>5, <3>4
    <3>6. Stored'
      BY <1>1, <1>6, <2>1, <3>2, <3>5 DEF Agreeing, Stored, Stores
    <3>7. Told'
      <4>1. ASSUME pc \notin Flushing \cup {"lost", "closed"}, ~owed, NEW i, Fetched(i)',
                   \A j : Fetched(j)' => j <= i
            PROVE  wire'[i].set = stored
        <5>1. Fetched(i + 1) /\ wire'[i] = wire[i + 1] /\ i \in Int
          BY <1>5, <4>1
        <5>2. ASSUME NEW j, Fetched(j) PROVE j <= i + 1
          <6>1. j \in Int /\ Fetched(j - 1)'
            BY <1>5, <3>4, <5>2
          <6>2. j - 1 <= i
            BY <4>1, <6>1
          <6> QED BY <5>1, <6>1, <6>2
        <5> QED BY <3>2, <4>1, <5>1, <5>2 DEF Agreeing, Told
      <4>2. ASSUME pc \notin Flushing \cup {"lost", "closed"}, NEW f \in Flag \ touched
            PROVE  /\ f \in recorded <=> f \in stored
                   /\ \A i : Fetched(i)' => (f \in wire'[i].set <=> f \in stored)
        BY <1>5, <3>2, <4>2 DEF Agreeing, Told
      <4>3. ASSUME pc \notin Flushing \cup {"lost", "closed"}, ~owed, \A i : ~Fetched(i)'
            PROVE  recorded = stored
        BY <3>2, <3>5, <4>3 DEF Agreeing, Told
      <4> QED BY <1>1, <1>6, <2>1, <4>1, <4>2, <4>3 DEF Told
    <3> QED BY <3>3, <3>6, <3>7 DEF Agreeing
  <2> QED BY <1>10, <1>11, <2>2, <2>3 DEF Converging
<1>13. CASE l.kind = "FETCH" /\ active
  <2>1. /\ recorded' = l.set /\ flags' = (IF changed THEN flags ELSE l.set)
        /\ raced' = (raced \/ pc \in Flushing)
    BY <1>2, <1>13 DEF cmd_parse_fetch, imap_set_flags, Tagged, Flushing
  <2>2. Shown'
    BY <1>6, <2>1 DEF Shown
  <2>3. ASSUME ~raced', ~refused', Exists' PROVE Agreeing'
    <3>1. ~raced /\ pc \notin Flushing \cup {"lost", "closed"}
      BY <1>3, <1>7, <2>1, <2>3 DEF Typed
    <3>2. Agreeing
      BY <1>1, <1>6, <2>3, <3>1 DEF Converging, Exists
    <3>3. Fetched(1) /\ wire[1].set = l.set
      BY <1>4, <1>13 DEF Fetched
    <3>4. \A f \in Flag \ touched : f \in l.set <=> f \in stored
      BY <3>1, <3>2, <3>3 DEF Agreeing, Told
    <3>5. Untouched'
      BY <1>1, <1>6, <2>1, <3>4 DEF Untouched
    <3>6. Wanted'
      <4>1. ASSUME ~changed, NEW f \in Flag \ touched PROVE f \in flags <=> f \in flags'
        <5>1. f \in recorded <=> f \in stored
          BY <3>2, <4>1 DEF Agreeing, Untouched
        <5>2. flags = recorded /\ flags' = l.set
          BY <2>1, <4>1 DEF Converging, Shown
        <5> QED BY <3>4, <4>1, <5>1, <5>2
      <4>2. changed => flags' = flags
        BY <2>1
      <4>3. DOMAIN want \subseteq Flag /\ \A f \in DOMAIN want \ touched : want[f] \in BOOLEAN
        BY <1>3 DEF Typed, TypeOK
      <4> QED BY <1>6, <3>2, <4>1, <4>2, <4>3 DEF Agreeing, Wanted
    <3>7. Stored'
      BY <1>1, <3>1 DEF Stored
    <3>8. Told'
      <4>1. \A i : Fetched(i)' => \A f \in Flag \ touched : f \in wire'[i].set <=> f \in stored
        BY <1>5, <3>1, <3>2 DEF Agreeing, Told
      <4>2. ASSUME ~owed, NEW i, Fetched(i)', \A j : Fetched(j)' => j <= i
            PROVE  wire'[i].set = stored
        <5>1. Fetched(i + 1) /\ wire'[i] = wire[i + 1] /\ i \in Int /\ i >= 1
          BY <1>5, <4>2
        <5>2. ASSUME NEW j, Fetched(j) PROVE j <= i + 1
          <6>1. CASE j = 1
            BY <5>1, <6>1
          <6>2. CASE j # 1
            <7>1. j \in Int /\ Fetched(j - 1)'
              BY <1>5, <5>2, <6>2
            <7>2. j - 1 <= i
              BY <4>2, <7>1
            <7> QED BY <5>1, <7>1, <7>2
          <6> QED BY <6>1, <6>2
        <5> QED BY <3>1, <3>2, <4>2, <5>1, <5>2 DEF Agreeing, Told
      <4>3. ASSUME ~owed, \A i : ~Fetched(i)' PROVE recorded' = stored
        <5>1. \A j : Fetched(j) => j <= 1
          BY <1>5, <4>3
        <5> QED BY <2>1, <3>1, <3>2, <3>3, <4>3, <5>1 DEF Agreeing, Told
      <4> QED BY <1>1, <1>6, <2>1, <3>4, <4>1, <4>2, <4>3 DEF Told
    <3> QED BY <3>5, <3>6, <3>7, <3>8 DEF Agreeing
  <2> QED BY <1>10, <1>11, <2>2, <2>3 DEF Converging
<1> QED BY <1>12, <1>13

(***************************************************************************)
(* Calls that end, and the stages of a sync.                               *)
(***************************************************************************)
LEMMA EndsStay ==
  ASSUME Converging, CheckEnds \/ ExpungeEnds
  PROVE  Converging'
<1>1. /\ pc \in {"check", "expunge"} /\ waiting = 0
      /\ active' = (active \/ pending) /\ pending' = FALSE
      /\ news' \in {FALSE, news} /\ pc' = IF Exists THEN "ready" ELSE "closed"
      /\ UNCHANGED <<stored, owed, sent, wire, flags, recorded, changed, result, losses,
                     want, touched, raced, refused>>
  BY DEF CheckEnds, ExpungeEnds, imap_cmd_finish, server, ghosts
<1>2. Typed /\ Flow
  BY DEF Converging
<1>3. sent = <<>> /\ wire = <<>>
  BY <1>1, <1>2, Answered
<1>4. Typed'
  BY <1>1, <1>2 DEF Typed, TypeOK
<1>5. Flow' /\ Shown'
  <2>1. ~refused' => result' = "OK"
    BY <1>1, <1>2 DEF Flow
  <2> QED BY <1>1, <1>3, <2>1, Still DEF Converging, Shown
<1>6. ASSUME ~raced, ~refused, Exists PROVE Agreeing'
  <2>1. Agreeing
    BY <1>6 DEF Converging
  <2>2. Wanted' /\ Untouched'
    BY <1>1, <2>1 DEF Agreeing, Wanted, Untouched
  <2>3. Told'
    BY <1>1, <2>1 DEF Agreeing, Told, Fetched, Flushing
  <2>4. Stored'
    BY <1>1 DEF Stored, Flushing
  <2> QED BY <2>2, <2>3, <2>4 DEF Agreeing
<1> QED BY <1>1, <1>4, <1>5, <1>6 DEF Converging, Exists

\* The commands of a queue.
Elements(s) == {s[i] : i \in DOMAIN s}

LEMMA Queues ==
  /\ <<>> \in Seq(Commands) /\ Elements(<<>>) = {}
  /\ \A c \in Commands : <<c>> \in Seq(Commands) /\ Elements(<<c>>) = {c}
  /\ \A s, t \in Seq(Commands) :
       s \o t \in Seq(Commands) /\ Elements(s \o t) = Elements(s) \cup Elements(t)
<1>1. <<>> \in Seq(Commands) /\ DOMAIN <<>> = {}
  OBVIOUS
<1>2. \A c \in Commands : <<c>> \in Seq(Commands) /\ DOMAIN <<c>> = {1} /\ <<c>>[1] = c
  OBVIOUS
<1>3. ASSUME NEW s \in Seq(Commands), NEW t \in Seq(Commands)
      PROVE  s \o t \in Seq(Commands) /\ Elements(s \o t) = Elements(s) \cup Elements(t)
  <2>1. /\ s \o t \in Seq(Commands) /\ Len(s) \in Nat /\ Len(t) \in Nat
        /\ DOMAIN s = 1 .. Len(s) /\ DOMAIN t = 1 .. Len(t) /\ DOMAIN (s \o t) = 1 .. Len(s) + Len(t)
        /\ \A i \in 1 .. Len(s) + Len(t) : (s \o t)[i] = IF i <= Len(s) THEN s[i] ELSE t[i - Len(s)]
    OBVIOUS
  <2>2. ASSUME NEW i \in DOMAIN (s \o t) PROVE (s \o t)[i] \in Elements(s) \cup Elements(t)
    <3>1. CASE i <= Len(s)
      BY <2>1, <3>1 DEF Elements
    <3>2. CASE ~(i <= Len(s))
      <4>1. i - Len(s) \in DOMAIN t
        BY <2>1, <3>2
      <4> QED BY <2>1, <3>2, <4>1 DEF Elements
    <3> QED BY <3>1, <3>2
  <2>3. ASSUME NEW j \in DOMAIN s PROVE s[j] \in Elements(s \o t)
    <3>1. j \in DOMAIN (s \o t) /\ (s \o t)[j] = s[j]
      BY <2>1
    <3> QED BY <3>1 DEF Elements
  <2>4. ASSUME NEW j \in DOMAIN t PROVE t[j] \in Elements(s \o t)
    <3>1. j + Len(s) \in 1 .. Len(s) + Len(t) /\ ~(j + Len(s) <= Len(s)) /\ (j + Len(s)) - Len(s) = j
      BY <2>1
    <3>2. j + Len(s) \in DOMAIN (s \o t) /\ (s \o t)[j + Len(s)] = t[j]
      BY <2>1, <3>1
    <3> QED BY <3>2 DEF Elements
  <2>5. Elements(s \o t) \subseteq Elements(s) \cup Elements(t)
    BY <2>2 DEF Elements
  <2>6. Elements(s) \subseteq Elements(s \o t)
    BY <2>3 DEF Elements
  <2>7. Elements(t) \subseteq Elements(s \o t)
    BY <2>4 DEF Elements
  <2> QED BY <2>1, <2>5, <2>6, <2>7
<1>4. Elements(<<>>) = {}
  BY <1>1 DEF Elements
<1>5. \A c \in Commands : Elements(<<c>>) = {c}
  BY <1>2 DEF Elements
<1> QED BY <1>1, <1>2, <1>3, <1>4, <1>5

\* A store of a sync writes the user's value.
Right(c) ==
  /\ changed /\ c \in Commands /\ IsStore(c) /\ c.flag \in Flag
  /\ c.verb = "+" <=> c.flag \in flags

\* What sync_helper() queues for a flag.
LEMMA Helped ==
  ASSUME Typed, NEW f \in Flag, NEW expunge
  PROVE  /\ sync_helper(f, StillActive(expunge)) \in Seq(Commands)
         /\ \A c \in Elements(sync_helper(f, StillActive(expunge))) : Right(c) /\ c.flag = f
         /\ StillActive(expunge) /\ changed /\ (f \in flags <=> f \notin recorded) =>
              Elements(sync_helper(f, StillActive(expunge))) # {}
<1> DEFINE c == Store(IF f \in flags THEN "+" ELSE "-", f)
           differs == StillActive(expunge) /\ changed /\ (f \in flags <=> f \notin recorded)
           queue == sync_helper(f, StillActive(expunge))
<1>1. /\ c \in Commands /\ IsStore(c) /\ c.flag = f
      /\ c.verb = "+" <=> f \in flags
  <2>1. CASE f \in flags
    BY <2>1, Kinds
  <2>2. CASE f \notin flags
    BY <2>2, Kinds
  <2> QED BY <2>1, <2>2
<1>2. queue = IF differs THEN <<c>> ELSE <<>>
  BY DEF sync_helper
<1>3. differs => changed
  OBVIOUS
<1> HIDE DEF c, queue
<1>4. CASE differs
  <2>1. queue = <<c>>
    BY <1>2, <1>4
  <2>2. queue \in Seq(Commands) /\ Elements(queue) = {c}
    BY <1>1, <2>1, Queues
  <2>3. Right(c) /\ c.flag = f
    BY <1>1, <1>3, <1>4 DEF Right
  <2> QED BY <2>2, <2>3 DEF queue
<1>5. CASE ~differs
  <2>1. queue = <<>>
    BY <1>2, <1>5
  <2>2. queue \in Seq(Commands) /\ Elements(queue) = {}
    BY <2>1, Queues
  <2> QED BY <1>5, <2>2 DEF queue
<1> QED BY <1>4, <1>5

Quick(expunge) == IF expunge /\ QuickDelete THEN <<Store("+", "DELETE")>> ELSE <<>>

LEMMA HelpedFirst ==
  ASSUME NEW expunge
  PROVE  /\ Quick(expunge) \in Seq(Commands)
         /\ \A c \in Elements(Quick(expunge)) : Right(c) /\ c.flag = "DELETE"
         /\ expunge /\ QuickDelete => Elements(Quick(expunge)) # {}
<1> DEFINE c == Store("+", "DELETE")
<1>1. c \in Commands /\ IsStore(c) /\ c.verb = "+" /\ c.flag = "DELETE" /\ "DELETE" \in Flag
  BY Kinds, Words
<1>2. Quick(expunge) = IF expunge /\ QuickDelete THEN <<c>> ELSE <<>>
  BY DEF Quick
<1> HIDE DEF c
<1>3. CASE expunge /\ QuickDelete
  <2>1. Quick(expunge) = <<c>>
    BY <1>2, <1>3
  <2>2. Quick(expunge) \in Seq(Commands) /\ Elements(Quick(expunge)) = {c}
    BY <1>1, <2>1, Queues
  <2>3. Right(c)
    BY <1>1, <1>3 DEF Right, QuickDelete
  <2> QED BY <1>1, <2>2, <2>3
<1>4. CASE ~(expunge /\ QuickDelete)
  <2>1. Quick(expunge) = <<>>
    BY <1>2, <1>4
  <2>2. Quick(expunge) \in Seq(Commands) /\ Elements(Quick(expunge)) = {}
    BY <2>1, Queues
  <2> QED BY <1>4, <2>2
<1> QED BY <1>3, <1>4

\* The queue of a sync has a store for what differs, with the user's value.
LEMMA Queued ==
  ASSUME Typed, NEW expunge \in BOOLEAN,
         NEW s, s = Quick(expunge) \o sync_helper("DELETE", StillActive(expunge))
                      \o sync_helper("FLAG", StillActive(expunge))
  PROVE  /\ s \in Seq(Commands)
         /\ \A c \in Elements(s) : Right(c)
         /\ \A f \in Flag : changed /\ (f \in flags <=> f \notin recorded) /\ ~LeftOut(f, expunge) =>
              \E c \in Elements(s) : c.flag = f
<1> DEFINE quick == Quick(expunge)
           del == sync_helper("DELETE", StillActive(expunge))
           flag == sync_helper("FLAG", StillActive(expunge))
<1>1. /\ quick \in Seq(Commands) /\ \A c \in Elements(quick) : Right(c) /\ c.flag = "DELETE"
      /\ expunge /\ QuickDelete => Elements(quick) # {}
  BY HelpedFirst
<1>2. /\ del \in Seq(Commands) /\ \A c \in Elements(del) : Right(c) /\ c.flag = "DELETE"
      /\ StillActive(expunge) /\ changed /\ ("DELETE" \in flags <=> "DELETE" \notin recorded) =>
           Elements(del) # {}
  <2>1. "DELETE" \in Flag
    BY Words
  <2> QED BY <2>1, Helped
<1>3. /\ flag \in Seq(Commands) /\ \A c \in Elements(flag) : Right(c) /\ c.flag = "FLAG"
      /\ StillActive(expunge) /\ changed /\ ("FLAG" \in flags <=> "FLAG" \notin recorded) =>
           Elements(flag) # {}
  <2>1. "FLAG" \in Flag
    BY Words
  <2> QED BY <2>1, Helped
<1>4. s = quick \o del \o flag
  OBVIOUS
<1> HIDE DEF quick, del, flag
<1>5. /\ quick \o del \in Seq(Commands)
      /\ Elements(quick \o del) = Elements(quick) \cup Elements(del)
  BY <1>1, <1>2, Queues
<1>6. s \in Seq(Commands) /\ Elements(s) = (Elements(quick) \cup Elements(del)) \cup Elements(flag)
  <2>1. PICK two : two = quick \o del
    OBVIOUS
  <2>2. two \in Seq(Commands) /\ Elements(two) = Elements(quick) \cup Elements(del)
    BY <1>5, <2>1
  <2>3. flag \in Seq(Commands)
    BY <1>3
  <2>4. two \o flag \in Seq(Commands) /\ Elements(two \o flag) = Elements(two) \cup Elements(flag)
    BY <2>2, <2>3, Queues
  <2>5. s = two \o flag
    BY <1>4, <2>1
  <2> QED BY <2>2, <2>4, <2>5
<1>7. \A c \in Elements(s) : Right(c)
  BY <1>1, <1>2, <1>3, <1>6
<1>8. ASSUME NEW f \in Flag, changed, f \in flags <=> f \notin recorded, ~LeftOut(f, expunge)
      PROVE  \E c \in Elements(s) : c.flag = f
  <2>1. StillActive(expunge) \/ (f = "DELETE" /\ QuickDelete)
    BY <1>8 DEF LeftOut
  <2>2. CASE f = "FLAG"
    <3>1. Elements(flag) # {}
      BY <1>3, <1>8, <2>1, <2>2
    <3> QED BY <1>3, <1>6, <2>2, <3>1
  <2>3. CASE f = "DELETE"
    <3>1. CASE StillActive(expunge)
      <4>1. Elements(del) # {}
        BY <1>2, <1>8, <2>3, <3>1
      <4> QED BY <1>2, <1>6, <2>3, <4>1
    <3>2. CASE ~StillActive(expunge)
      <4>1. expunge /\ QuickDelete
        BY <2>1, <3>2 DEF StillActive, QuickDelete
      <4>2. Elements(quick) # {}
        BY <1>1, <4>1
      <4> QED BY <1>1, <1>6, <2>3, <4>2
    <3> QED BY <3>1, <3>2
  <2> QED BY <2>2, <2>3, Words
<1> QED BY <1>6, <1>7, <1>8

LEMMA QueueStays ==
  ASSUME Converging, QueueStores
  PROVE  Converging'
<1>1. /\ pc = "sync" /\ waiting = 0 /\ result' = "OK"
      /\ UNCHANGED <<stored, owed, wire, flags, recorded, changed, losses, want, touched, refused>>
  BY DEF QueueStores, server
<1>2. Typed /\ Flow
  BY DEF Converging
<1>3. sent = <<>> /\ wire = <<>>
  BY <1>1, <1>2, Answered
<1>4. \A i : ~Fetched(i) /\ ~Fetched(i)'
  BY <1>1, <1>3, NothingFetched DEF Fetched
<1>5. Shown'
  BY <1>1 DEF Converging, Shown
<1>6. CASE news \/ pending
  <2>1. /\ active' = (active \/ pending) /\ pending' = FALSE /\ news' = FALSE
        /\ pc' = (IF Exists THEN "ready" ELSE "closed") /\ UNCHANGED <<sent, raced>>
    BY <1>6 DEF QueueStores, imap_cmd_finish
  <2>2. Typed'
    BY <1>1, <1>2, <2>1 DEF Typed, TypeOK, Tagged
  <2>3. Flow'
    BY <1>1, <1>3, <2>1, Still
  <2>4. ASSUME ~raced, ~refused, Exists PROVE Agreeing'
    <3>1. Agreeing
      BY <2>4 DEF Converging
    <3>2. Wanted' /\ Untouched'
      BY <1>1, <3>1 DEF Agreeing, Wanted, Untouched
    <3>3. Told'
      BY <1>1, <1>4, <3>1 DEF Agreeing, Told, Flushing
    <3>4. Stored'
      BY <2>1 DEF Stored, Flushing
    <3> QED BY <3>2, <3>3, <3>4 DEF Agreeing
  <2> QED BY <1>1, <1>5, <2>1, <2>2, <2>3, <2>4 DEF Converging, Exists
<1>7. CASE ~(news \/ pending)
  <2>1. PICK expunge \in BOOLEAN :
          /\ sent' = (IF expunge /\ QuickDelete THEN <<Store("+", "DELETE")>> ELSE <<>>)
                       \o sync_helper("DELETE", StillActive(expunge))
                       \o sync_helper("FLAG", StillActive(expunge))
          /\ active' = StillActive(expunge)
          /\ pc' = IF expunge THEN "flushx" ELSE "flush"
          /\ raced' = (raced \/ \E f \in Flag : LeftOut(f, expunge))
          /\ UNCHANGED <<pending, news>>
    BY <1>7 DEF QueueStores, session
  <2>2. /\ sent' \in Seq(Commands)
        /\ \A i \in DOMAIN sent' : /\ changed /\ IsStore(sent'[i]) /\ sent'[i].flag \in Flag
                                   /\ sent'[i].verb = "+" <=> sent'[i].flag \in flags
        /\ \A f \in Flag : changed /\ (f \in flags <=> f \notin recorded) /\ ~LeftOut(f, expunge) =>
             \E i \in DOMAIN sent' : IsStore(sent'[i]) /\ sent'[i].flag = f
    <3>1. PICK s : s = sent'
      OBVIOUS
    <3>2. s = Quick(expunge) \o sync_helper("DELETE", StillActive(expunge))
                \o sync_helper("FLAG", StillActive(expunge))
      BY <2>1, <3>1 DEF Quick
    <3>3. /\ s \in Seq(Commands)
          /\ \A c \in Elements(s) : Right(c)
          /\ \A f \in Flag : changed /\ (f \in flags <=> f \notin recorded) /\ ~LeftOut(f, expunge) =>
               \E c \in Elements(s) : c.flag = f
      BY <1>2, <3>2, Queued
    <3>4. \A i \in DOMAIN s : Right(s[i])
      BY <3>3 DEF Elements
    <3>5. ASSUME NEW f \in Flag, \E c \in Elements(s) : c.flag = f
          PROVE  \E i \in DOMAIN s : IsStore(s[i]) /\ s[i].flag = f
      BY <3>4, <3>5 DEF Elements, Right
    <3> QED BY <3>1, <3>3, <3>4, <3>5 DEF Right
  <2>3. pc' \in Flushing /\ raced' \in BOOLEAN /\ active' \in BOOLEAN
    <3>1. active' \in BOOLEAN
      BY <1>2, <2>1 DEF StillActive, Typed, TypeOK
    <3>2. raced' \in BOOLEAN
      BY <1>2, <2>1 DEF Typed
    <3> QED BY <2>1, <3>1, <3>2 DEF Flushing
  <2>4. Typed'
    BY <1>1, <1>2, <2>1, <2>2, <2>3 DEF Typed, TypeOK, Tagged, Flushing
  <2>5. Flow'
    <3>1. \A i \in DOMAIN sent' : IsStore(sent'[i]) =>
            /\ sent'[i].flag \in Flag
            /\ pc' \in Flushing \cup {"lost"} /\ changed'
            /\ sent'[i].verb = "+" <=> sent'[i].flag \in flags'
      BY <1>1, <2>2, <2>3
    <3>2. pc' \notin {"ready", "closed", "lost"}
      BY <2>3 DEF Flushing
    <3> QED BY <1>1, <1>3, <3>1, <3>2 DEF Flow
  <2>6. ASSUME ~raced', ~refused', Exists' PROVE Agreeing'
    <3>1. ~raced /\ \A f \in Flag : ~LeftOut(f, expunge)
      BY <1>2, <2>1, <2>6 DEF Typed
    <3>2. Agreeing
      BY <1>1, <2>6, <3>1 DEF Converging, Exists
    <3>3. Wanted' /\ Untouched'
      BY <1>1, <3>2 DEF Agreeing, Wanted, Untouched
    <3>4. Told'
      BY <2>3 DEF Told
    <3>5. Stored'
      <4>1. ASSUME NEW f \in Flag, f \notin touched \/ ~owed
            PROVE  Stores(f)' \/ (f \in flags <=> f \in stored)
        <5>1. f \in recorded <=> f \in stored
          BY <1>1, <1>4, <3>2, <4>1 DEF Agreeing, Told, Flushing
        <5>2. CASE f \in flags <=> f \in recorded
          BY <5>1, <5>2
        <5>3. CASE f \in flags <=> f \notin recorded
          <6>1. changed
            BY <5>3 DEF Converging, Shown
          <6>2. \E i \in DOMAIN sent' : IsStore(sent'[i]) /\ sent'[i].flag = f
            BY <2>2, <3>1, <5>3, <6>1
          <6> QED BY <6>2 DEF Stores, IsStore
        <5> QED BY <5>2, <5>3
      <4> QED BY <1>1, <4>1 DEF Stored
    <3> QED BY <3>3, <3>4, <3>5 DEF Agreeing
  <2> QED BY <1>5, <2>4, <2>5, <2>6 DEF Converging
<1> QED BY <1>6, <1>7

LEMMA FlushStays ==
  ASSUME Converging, FlushEnds
  PROVE  Converging'
<1>1. /\ pc \in Flushing /\ waiting = 0
      /\ active' = (active \/ pending) /\ pending' = FALSE /\ news' = (news \/ pending)
      /\ UNCHANGED <<stored, owed, wire, flags, result, losses, want, touched, raced, refused>>
  BY DEF FlushEnds, imap_cmd_finish, server, ghosts, Flushing
<1>2. \/ /\ result = "OK" /\ recorded' = flags /\ changed' = FALSE
         /\ \/ sent' = <<Command("EXPUNGE")>> /\ pc' = "expunge"
            \/ UNCHANGED sent /\ pc' = "ready"
      \/ result # "OK" /\ UNCHANGED <<recorded, changed, sent>> /\ pc' = "ready"
  BY DEF FlushEnds, Synced
<1>3. Typed /\ Flow
  BY DEF Converging
<1>4. sent = <<>> /\ wire = <<>>
  BY <1>1, <1>3, Answered
<1>5. (\A i : ~Fetched(i) /\ ~Fetched(i)') /\ (\A f : ~Stores(f))
  BY <1>1, <1>4, NothingFetched, NothingStored DEF Fetched
<1>6. sent' \in Seq(Commands) /\ \A i \in DOMAIN sent' : ~IsStore(sent'[i])
  <2>1. Command("EXPUNGE") \in Commands /\ ~IsStore(Command("EXPUNGE"))
    BY Kinds
  <2> DEFINE c == Command("EXPUNGE")
  <2>2. sent' = <<>> \/ sent' = <<c>>
    BY <1>2, <1>4
  <2> HIDE DEF c
  <2>3. /\ <<c>> \in Seq(Commands) /\ DOMAIN <<c>> = {1} /\ <<c>>[1] = c
        /\ <<>> \in Seq(Commands) /\ DOMAIN <<>> = {}
    BY <2>1 DEF c
  <2>4. CASE sent' = <<>>
    BY <2>3, <2>4
  <2>5. CASE sent' = <<c>>
    <3>1. \A i \in DOMAIN sent' : sent'[i] = c
      BY <2>3, <2>5
    <3>2. sent' \in Seq(Commands)
      BY <2>3, <2>5
    <3> QED BY <2>1, <3>1, <3>2 DEF c
  <2> QED BY <2>2, <2>4, <2>5
<1>7. Typed'
  <2>1. pc' \in {"expunge", "ready"} /\ recorded' \subseteq Flag /\ changed' \in BOOLEAN
    BY <1>2, <1>3 DEF Typed, TypeOK
  <2> QED BY <1>1, <1>3, <1>6, <2>1 DEF Typed, TypeOK
<1>8. Flow' /\ Shown'
  <2>1. pc' = "ready" => sent' = <<>>
    BY <1>2, <1>4
  <2>2. ~refused => result = "OK"
    BY <1>3 DEF Flow
  <2>3. Flow'
    BY <1>1, <1>2, <1>4, <1>6, <2>1, <2>2 DEF Flow
  <2>4. Shown'
    BY <1>1, <1>2 DEF Converging, Shown
  <2> QED BY <2>3, <2>4
<1>9. ASSUME ~raced, ~refused, Exists PROVE Agreeing'
  <2>1. Agreeing
    BY <1>9 DEF Converging
  <2>2. recorded' = flags /\ changed' = FALSE
    BY <1>2, <1>3, <1>9 DEF Flow
  <2>3. \A f \in Flag : f \notin touched \/ ~owed => (f \in flags <=> f \in stored)
    BY <1>1, <1>5, <2>1 DEF Agreeing, Stored
  <2>4. Wanted' /\ Untouched'
    BY <1>1, <2>1, <2>2, <2>3 DEF Agreeing, Wanted, Untouched
  <2>5. Stored'
    BY <1>2 DEF Stored, Flushing
  <2>6. Told'
    <3>1. ~owed => flags = stored
      <4>1. flags \subseteq Flag /\ stored \subseteq Flag
        BY <1>3, <1>9 DEF Typed, TypeOK, Exists
      <4> QED BY <2>3, <4>1
    <3> QED BY <1>1, <1>5, <2>2, <2>3, <3>1 DEF Told
  <2> QED BY <2>4, <2>5, <2>6 DEF Agreeing
<1> QED BY <1>1, <1>7, <1>8, <1>9 DEF Converging, Exists

(***************************************************************************)
(* The link breaks, and the mailbox is opened again.                       *)
(***************************************************************************)
LEMMA LoseStays ==
  ASSUME Converging, Lose
  PROVE  Converging'
<1>1. /\ losses' = losses + 1 /\ pc' = "lost" /\ wire' = <<>>
      /\ UNCHANGED <<stored, owed, flags, recorded, changed, active, pending, news, result,
                     want, touched, raced, refused>>
  BY DEF Lose, server, header, session, ghosts
<1>2. Typed /\ Flow
  BY DEF Converging
<1>3. sent' \in Seq(Commands) /\ \A i \in DOMAIN sent' : i \in DOMAIN sent /\ sent'[i] = sent[i]
  <2>1. PICK n \in 0 .. Len(sent) : sent' = SubSeq(sent, 1, n)
    BY DEF Lose
  <2>2. sent \in Seq(Commands) /\ Len(sent) \in Nat /\ DOMAIN sent = 1 .. Len(sent)
    BY <1>2 DEF Typed
  <2>3. n \in Nat /\ n <= Len(sent)
    BY <2>1, <2>2
  <2>4. /\ SubSeq(sent, 1, n) \in Seq(Commands) /\ DOMAIN SubSeq(sent, 1, n) = 1 .. n
        /\ \A i \in 1 .. n : SubSeq(sent, 1, n)[i] = sent[i]
    BY <2>2, <2>3
  <2> QED BY <2>1, <2>2, <2>3, <2>4
<1>4. Typed'
  <2>1. <<>> \in Seq(Lines)
    OBVIOUS
  <2> QED BY <1>1, <1>2, <1>3, <2>1 DEF Typed, TypeOK
<1>5. Flow' /\ Shown'
  <2>1. \A i \in DOMAIN sent' : IsStore(sent'[i]) =>
          /\ sent'[i].flag \in Flag
          /\ pc' \in Flushing \cup {"lost"} /\ changed'
          /\ sent'[i].verb = "+" <=> sent'[i].flag \in flags'
    BY <1>1, <1>2, <1>3 DEF Flow
  <2>2. ~refused' => result' = "OK"
    BY <1>1, <1>2 DEF Flow
  <2>3. DOMAIN wire' = {}
    BY <1>1
  <2> QED BY <1>1, <2>1, <2>2, <2>3 DEF Converging, Flow, Shown
<1>6. ASSUME ~raced, ~refused, Exists PROVE Agreeing'
  <2>1. Agreeing
    BY <1>6 DEF Converging
  <2>2. Wanted' /\ Untouched'
    BY <1>1, <2>1 DEF Agreeing, Wanted, Untouched
  <2>3. Told' /\ Stored'
    BY <1>1 DEF Told, Stored, Flushing
  <2> QED BY <2>2, <2>3 DEF Agreeing
<1> QED BY <1>1, <1>4, <1>5, <1>6 DEF Converging, Exists

LEMMA OrphansStay ==
  ASSUME Converging, OrphansExecute
  PROVE  Converging'
<1> DEFINE c == Head(sent)
<1>1. /\ pc = "lost" /\ sent # <<>> /\ sent' = Tail(sent)
      /\ UNCHANGED <<owed, wire, flags, recorded, changed, active, pending, news, pc, result, losses,
                     want, touched, raced, refused>>
  BY DEF OrphansExecute, header, session, ghosts
<1>2. \/ UNCHANGED stored \/ stored' = Gone
      \/ Exists /\ IsStore(c) /\ stored' = With(stored, c.flag, c.verb = "+")
  <2>1. stored' = CASE c.verb \in {"+", "-"} /\ Exists -> With(stored, c.flag, c.verb = "+")
                    [] c.verb = "EXPUNGE" /\ "DELETE" \in stored -> Gone
                    [] OTHER -> stored
    BY DEF OrphansExecute
  <2> HIDE DEF c
  <2>2. CASE Exists /\ IsStore(c)
    BY <2>1, <2>2 DEF IsStore
  <2>3. CASE ~(Exists /\ IsStore(c))
    BY <2>1, <2>3 DEF IsStore
  <2> QED BY <2>2, <2>3
<1>3. Typed /\ Flow
  BY DEF Converging
<1>4. sent \in Seq(Commands)
  BY <1>3 DEF Typed
<1>5. /\ sent' \in Seq(Commands) /\ c = sent[1] /\ 1 \in DOMAIN sent
      /\ \A i \in DOMAIN sent' : i + 1 \in DOMAIN sent /\ sent'[i] = sent[i + 1]
  <2>1. /\ Tail(sent) \in Seq(Commands) /\ Head(sent) = sent[1]
        /\ DOMAIN sent = 1 .. Len(sent) /\ Len(sent) \in Nat /\ Len(sent) >= 1
    BY <1>1, <1>4, Shrunk
  <2>2. \A i \in DOMAIN Tail(sent) : Tail(sent)[i] = sent[i + 1] /\ i + 1 \in DOMAIN sent
    BY <1>1, <1>4, Shrunk
  <2> QED BY <1>1, <2>1, <2>2
<1>6. IsStore(c) => c.flag \in Flag /\ changed
  BY <1>3, <1>5 DEF Flow
<1> HIDE DEF c
<1>7. stored' \in (SUBSET Flag) \cup {Gone}
  <2>1. CASE Exists /\ IsStore(c) /\ stored' = With(stored, c.flag, c.verb = "+")
    <3>1. stored \in SUBSET Flag
      BY <1>3, <2>1 DEF Typed, TypeOK, Exists
    <3> QED BY <1>6, <2>1, <3>1 DEF With
  <2> QED BY <1>2, <1>3, <2>1 DEF Typed, TypeOK
<1>8. Typed'
  BY <1>1, <1>3, <1>5, <1>7 DEF Typed, TypeOK
<1>9. Flow' /\ Shown'
  <2>1. wire = <<>> /\ wire' = <<>>
    BY <1>1, <1>3 DEF Flow
  <2>2. \A i \in DOMAIN sent' : IsStore(sent'[i]) =>
          /\ sent'[i].flag \in Flag
          /\ pc' \in Flushing \cup {"lost"} /\ changed'
          /\ sent'[i].verb = "+" <=> sent'[i].flag \in flags'
    BY <1>1, <1>3, <1>5 DEF Flow
  <2>3. ~refused' => result' = "OK" /\ \A i \in DOMAIN wire' : wire'[i].kind # "NO"
    BY <1>1, <1>3 DEF Flow
  <2> QED BY <1>1, <2>1, <2>2, <2>3 DEF Converging, Flow, Shown
<1>10. ASSUME ~raced, ~refused, Exists' PROVE Agreeing'
  <2>1. Exists
    BY <1>2, <1>10 DEF Exists
  <2>2. Agreeing
    BY <1>10, <2>1 DEF Converging
  <2>3. ~changed => UNCHANGED stored
    BY <1>2, <1>6, <1>10 DEF Exists
  <2>4. Wanted' /\ Untouched'
    BY <1>1, <2>2, <2>3 DEF Agreeing, Wanted, Untouched
  <2>5. Told' /\ Stored'
    BY <1>1 DEF Told, Stored, Flushing
  <2> QED BY <2>4, <2>5 DEF Agreeing
<1> QED BY <1>1, <1>8, <1>9, <1>10 DEF Converging

LEMMA MergedRight ==
  ASSUME NEW set \in SUBSET Flag, flags \subseteq Flag
  PROVE  /\ Merged(set) \in SUBSET Flag
         /\ \A f \in Flag : changed => (f \in Merged(set) <=> f \in flags)
         /\ \A f \in Flag : (f \in flags <=> f \in set) => (f \in Merged(set) <=> f \in flags)
  BY DEF Merged, With, Flag

LEMMA ReconnectStays ==
  ASSUME Converging, imap_reconnect
  PROVE  Converging'
<1>1. /\ pc = "lost" /\ sent' = <<>> /\ active' = TRUE /\ pending' = FALSE /\ news' = FALSE
      /\ owed' = FALSE
      /\ UNCHANGED <<stored, wire, result, losses, want, touched, raced, refused>>
  BY DEF imap_reconnect, ghosts
<1>2. \/ /\ Exists /\ recorded' = stored /\ flags' = Merged(stored)
         /\ changed' = (Merged(stored) # stored) /\ pc' = "ready"
      \/ UNCHANGED <<recorded, flags, changed>> /\ pc' = "closed"
  BY DEF imap_reconnect
<1>3. Typed /\ Flow
  BY DEF Converging
<1>4. sent' = <<>> /\ wire' = <<>>
  BY <1>1, <1>3 DEF Flow
<1>5. Exists => /\ stored \in SUBSET Flag /\ Merged(stored) \in SUBSET Flag
                /\ \A f \in Flag : changed => (f \in Merged(stored) <=> f \in flags)
                /\ \A f \in Flag : (f \in flags <=> f \in stored) =>
                                     (f \in Merged(stored) <=> f \in flags)
  <2>1. Exists => stored \in SUBSET Flag
    BY <1>3 DEF Typed, TypeOK, Exists
  <2>2. flags \subseteq Flag
    BY <1>3 DEF Typed, TypeOK
  <2>3. ASSUME Exists
        PROVE  /\ stored \in SUBSET Flag /\ Merged(stored) \in SUBSET Flag
               /\ \A f \in Flag : changed => (f \in Merged(stored) <=> f \in flags)
               /\ \A f \in Flag : (f \in flags <=> f \in stored) =>
                                    (f \in Merged(stored) <=> f \in flags)
    BY <2>1, <2>2, <2>3, MergedRight
  <2> QED BY <2>3
<1>6. Typed'
  <2>1. recorded' \subseteq Flag /\ flags' \subseteq Flag /\ changed' \in BOOLEAN
        /\ pc' \in {"ready", "closed"}
    BY <1>2, <1>3, <1>5 DEF Typed, TypeOK
  <2>2. sent' \in Seq(Commands)
    BY <1>1
  <2> QED BY <1>1, <1>3, <2>1, <2>2 DEF Typed, TypeOK
<1>7. Flow' /\ Shown'
  <2>1. ~refused' => result' = "OK"
    BY <1>1, <1>3 DEF Flow
  <2>2. Shown'
    BY <1>2 DEF Converging, Shown
  <2> QED BY <1>4, <2>1, <2>2, Still
<1>8. ASSUME ~raced, ~refused, Exists, pc' = "ready" PROVE Agreeing'
  <2>1. Agreeing
    BY <1>8 DEF Converging
  <2>2. /\ recorded' = stored /\ flags' = Merged(stored) /\ pc' = "ready"
    BY <1>2, <1>8
  <2>3. Wanted'
    <3>1. ASSUME NEW f \in Flag \ touched PROVE f \in flags' <=> f \in flags
      <4>1. CASE changed
        BY <1>5, <1>8, <2>2, <4>1
      <4>2. CASE ~changed
        <5>1. f \in flags <=> f \in stored
          BY <2>1, <3>1, <4>2 DEF Converging, Shown, Agreeing, Untouched
        <5> QED BY <1>5, <1>8, <2>2, <5>1
      <4> QED BY <4>1, <4>2
    <3>2. DOMAIN want \subseteq Flag /\ \A f \in DOMAIN want : want[f] \in BOOLEAN
      BY <1>3 DEF Typed, TypeOK
    <3>3. ASSUME NEW f \in DOMAIN want \ touched PROVE want[f] = (f \in flags')
      <4>1. f \in flags' <=> f \in flags
        BY <3>1, <3>2
      <4>2. want[f] = (f \in flags)
        BY <2>1 DEF Agreeing, Wanted
      <4> QED BY <4>1, <4>2
    <3> QED BY <1>1, <3>3 DEF Wanted
  <2>4. \A i : ~Fetched(i)'
    BY <1>4 DEF Fetched
  <2>5. Told' /\ Stored' /\ Untouched'
    BY <1>1, <2>2, <2>4 DEF Told, Stored, Untouched, Flushing
  <2> QED BY <2>3, <2>5 DEF Agreeing
<1>9. ASSUME ~raced, ~refused, Exists, pc' # "ready" PROVE Agreeing'
  <2>1. Agreeing
    BY <1>9 DEF Converging
  <2>2. pc' = "closed" /\ UNCHANGED <<recorded, flags, changed>>
    BY <1>2, <1>9
  <2>3. Wanted' /\ Untouched'
    BY <1>1, <2>1, <2>2 DEF Agreeing, Wanted, Untouched
  <2>4. Told' /\ Stored'
    BY <2>2 DEF Told, Stored, Flushing
  <2> QED BY <2>3, <2>4 DEF Agreeing
<1> QED BY <1>1, <1>6, <1>7, <1>8, <1>9 DEF Converging, Exists

(***************************************************************************)
(* The theorems.                                                           *)
(***************************************************************************)
LEMMA InitConverges == Init => Converging
<1> SUFFICES ASSUME Init PROVE Converging
  OBVIOUS
<1>1. /\ stored \in SUBSET Flag /\ owed = FALSE /\ sent = <<>> /\ wire = <<>>
      /\ flags = stored /\ recorded = stored /\ changed = FALSE /\ active = TRUE
      /\ pending = FALSE /\ news = FALSE /\ pc = "ready" /\ result = "OK" /\ losses = 0
      /\ want = <<>> /\ touched = {} /\ raced = FALSE /\ refused = FALSE
  BY DEF Init
<1>2. <<>> \in Seq(Commands) /\ <<>> \in Seq(Lines) /\ DOMAIN <<>> = {}
  OBVIOUS
<1>3. DOMAIN want = {} /\ DOMAIN sent = {} /\ DOMAIN wire = {}
  BY <1>1, <1>2
<1>4. Typed
  BY <1>1, <1>2, <1>3 DEF Typed, TypeOK, Tagged
<1>5. Flow /\ Shown
  BY <1>1, <1>3 DEF Flow, Shown
<1>6. Agreeing
  <2>1. Wanted /\ Untouched /\ Stored
    BY <1>1, <1>3 DEF Wanted, Untouched, Stored, Flushing
  <2>2. Told
    BY <1>1, <1>3 DEF Told, Fetched
  <2> QED BY <2>1, <2>2 DEF Agreeing
<1> QED BY <1>4, <1>5, <1>6 DEF Converging

LEMMA StepConverges == Converging /\ [Next]_vars => Converging'
<1> SUFFICES ASSUME Converging, [Next]_vars PROVE Converging'
  OBVIOUS
<1>1. ASSUME NEW f \in Flag, OtherClientStores(f) \/ mutt_set_flag(f) PROVE Converging'
  BY <1>1, OthersStay, UserStays
<1>2. CASE Announce
  BY <1>2, AnnounceStays
<1>3. CASE AnnounceOther
  BY <1>3, AnnounceOtherStays
<1>4. CASE ServerExecutes
  BY <1>4, ServerStays
<1>5. CASE imap_check_mailbox \/ SyncBegins
  BY <1>5, BeginsStays
<1>6. CASE ReadLine
  BY <1>6, ReadStays
<1>7. CASE CheckEnds \/ ExpungeEnds
  BY <1>7, EndsStay
<1>8. CASE QueueStores
  BY <1>8, QueueStays
<1>9. CASE FlushEnds
  BY <1>9, FlushStays
<1>10. CASE Lose
  BY <1>10, LoseStays
<1>11. CASE OrphansExecute
  BY <1>11, OrphansStay
<1>12. CASE imap_reconnect
  BY <1>12, ReconnectStays
<1>13. CASE UNCHANGED vars
  <2>1. UNCHANGED <<stored, owed, sent, wire, flags, recorded, changed, active, pending, news, pc,
                    result, losses, want, touched, raced, refused>>
    BY <1>13 DEF vars, server, header, session, ghosts
  <2>2. Typed' /\ Flow' /\ Shown'
    BY <2>1 DEF Converging, Typed, TypeOK, Flow, Shown
  <2>3. Agreeing => Agreeing'
    BY <2>1 DEF Agreeing, Wanted, Told, Stored, Untouched, Fetched, Stores
  <2> QED BY <2>1, <2>2, <2>3 DEF Converging, Exists
<1> QED BY <1>1, <1>2, <1>3, <1>4, <1>5, <1>6, <1>7, <1>8, <1>9, <1>10, <1>11, <1>12, <1>13 DEF Next

LEMMA QuietAgrees == Converging => FlagsConverge
<1> SUFFICES ASSUME Converging, Quiet, ~raced, ~refused
             PROVE  /\ recorded = stored
                    /\ ~changed => /\ flags = stored
                                   /\ \A f \in DOMAIN want \ touched : want[f] = (f \in stored)
                    /\ changed => \A f \in DOMAIN want \ touched : want[f] = (f \in flags)
  BY DEF FlagsConverge
<1>1. pc = "ready" /\ wire = <<>> /\ ~owed /\ Exists
  BY DEF Quiet
<1>2. Wanted /\ Told
  BY <1>1 DEF Converging, Agreeing
<1>3. recorded = stored
  BY <1>1, <1>2, NothingFetched DEF Told, Flushing
<1>4. ~changed => flags = stored
  BY <1>3 DEF Converging, Shown
<1> QED BY <1>2, <1>3, <1>4 DEF Wanted

\* The variables have their types in every state, whatever other clients do and however
\* often the connection breaks.
THEOREM FlagsTypes == Spec => []TypeOK
<1>1. Converging => TypeOK
  BY DEF Converging, Typed
<1> QED BY <1>1, InitConverges, StepConverges, PTL DEF Spec

\* Once nothing is on its way, mutt's record is what the server has and what the user set
\* is kept: imap_set_flags(), imap_sync_mailbox() and imap_reconnect(), for any number of
\* lines on their way and of connections lost, with or without refusals.
THEOREM FlagsAgree == Spec => []FlagsConverge
<1> QED BY InitConverges, StepConverges, QuietAgrees, PTL DEF Spec
==============================================================================
