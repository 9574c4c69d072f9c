-------------------------- MODULE ImapMailbox_proofs --------------------------
(***************************************************************************)
(* Proofs about the numbers of the messages of an IMAP mailbox, whatever   *)
(* arrives and is expunged while lines are on their way.                   *)
(***************************************************************************)
EXTENDS ImapMailbox, SequenceTheorems, FiniteSetTheorems, TLAPS

Bounds == MaxUid \in Nat /\ FirstUids \in 0 .. MaxUid /\ ChunkSize \in Nat

Kinds == {"EXISTS", "EXPUNGE", "VANISHED", "FLAGS", "HEADER", "+", "OK", "NO"}
Lines == [kind : Kinds, n : 0 .. MaxUid, uid : 0 .. MaxUid]
Commands == [verb : {"IDLE", "DONE", "ANY", "FETCH"}, b : Int, e : Int]

(***************************************************************************)
(* The inductive invariant.                                                *)
(***************************************************************************)
Typed ==
  /\ TypeOK
  /\ mbox \subseteq 1 .. nextUid - 1
  /\ sess \in Seq(Uids) /\ IsInjective(sess)
  /\ sent \in Seq(Commands) /\ wire \in Seq(Lines)
  /\ index \in Seq(Uids \cup {NULL})
  /\ msn \in [DOMAIN msn -> Nat] /\ DOMAIN msn \subseteq 1 .. nextUid - 1
  /\ range \in [begin : Nat, upto : Nat, last : Nat]
  /\ pc = "fetch" => 1 <= range.begin /\ range.begin <= range.upto /\ range.upto <= range.last
  /\ range.last <= MaxUid
  /\ idle \in BOOLEAN /\ qresync \in BOOLEAN /\ raced \in BOOLEAN /\ short \in BOOLEAN
  /\ \A k \in DOMAIN wire :
       /\ wire[k].uid < nextUid
       /\ wire[k].kind = "EXPUNGE" => ~qresync
       /\ wire[k].kind = "VANISHED" => qresync
       /\ wire[k].kind = "NO" => short

Tagged(l) == l.kind \in {"OK", "NO"}
Untagged == \A k \in DOMAIN wire : ~Tagged(wire[k])

\* Command c is on its way, behind DONE or not, or executed, or answered: its answer
\* is the last line.
Exchange(c) ==
  \/ sent = <<Command("DONE", 0, 0), c>> /\ cur = "IDLE" /\ Untagged
  \/ sent = <<c>> /\ cur = "none" /\ Untagged
  \/ sent = <<>> /\ cur = c.verb /\ Untagged
  \/ /\ sent = <<>> /\ cur = "none" /\ wire # <<>> /\ Tagged(wire[Len(wire)])
     /\ \A k \in 1 .. Len(wire) - 1 : ~Tagged(wire[k])

\* "+" comes once, while mutt waits for it.
Greeted ==
  /\ pc # "enter" \/ sent # <<>> => \A k \in DOMAIN wire : wire[k].kind # "+"
  /\ \A j, k \in DOMAIN wire : wire[j].kind = "+" /\ wire[k].kind = "+" => j = k

\* The server does what mutt waits for.
Protocol ==
  /\ Greeted
  /\ pc \in {"ready", "poll"} =>
       /\ sent = <<>> /\ Untagged
       /\ cur = IF idle THEN "IDLE" ELSE "none"
  /\ pc = "poll" => idle
  /\ pc = "enter" =>
       /\ ~idle /\ Untagged
       /\ \/ sent = <<Command("IDLE", 0, 0)>> /\ cur = "none"
          \/ sent = <<>> /\ cur = "IDLE"
  /\ pc = "exec" => ~idle /\ Exchange(Command("ANY", 0, 0))
  /\ pc = "fetch" => ~idle /\ Exchange(Command("FETCH", range.begin, range.upto))

\* A header that is not gone is found under its number.
Found == \A u \in DOMAIN msn \ gone : msn[u] \in DOMAIN index /\ index[msn[u]] = u

\* The header with number i was asked for.
Coming(i) ==
  \/ \E k \in DOMAIN wire : wire[k].kind = "HEADER" /\ wire[k].n = i
  \/ \E k \in DOMAIN sent : sent[k].verb = "FETCH" /\ i \in sent[k].b .. sent[k].e
Filled(i) == i \in DOMAIN index /\ index[i] # NULL

\* There are no gaps, but in a download that goes on.
Complete ==
  ~raced /\ ~short =>
    /\ pc # "fetch" => \A i \in DOMAIN index : index[i] # NULL
    /\ pc = "fetch" => /\ Len(index) <= range.upto
                       /\ \A i \in 1 .. range.upto : Filled(i) \/ Coming(i)

(***************************************************************************)
(* The numberings of the server, as of each line on its way.               *)
(***************************************************************************)
\* Line l was sent when the numbering s became t.
Tells(l, s, t) ==
  /\ l.kind = "EXISTS" => /\ Len(t) = l.n
                          /\ \A i \in DOMAIN s : i \in DOMAIN t /\ t[i] = s[i]
  /\ l.kind = "EXPUNGE" => l.n \in DOMAIN s /\ t = RemoveAt(s, l.n)
  /\ l.kind = "VANISHED" => \E p \in DOMAIN s : s[p] = l.uid /\ t = RemoveAt(s, p)
  /\ l.kind \notin {"EXISTS", "EXPUNGE", "VANISHED"} => t = s
  /\ l.kind \in {"HEADER", "FLAGS"} => l.n \in DOMAIN s /\ s[l.n] = l.uid

\* N: the numberings before and after each line of w, the last of which is s.  What is
\* not in one any more is in none that follows, and has left the mailbox b.
Followed(N, w, s, b) ==
  /\ \A k \in 0 .. Len(w) : N[k] \in Seq(Uids) /\ IsInjective(N[k])
  /\ N[Len(w)] = s
  /\ \A k \in 1 .. Len(w) : Tells(w[k], N[k - 1], N[k])
  /\ \A i, j \in 0 .. Len(w) : i <= j =>
       \A v \in Range(N[i]) \ Range(N[j]) :
         v \notin b /\ \A k \in j .. Len(w) : v \notin Range(N[k])

\* Numbers, headers and the numbering that mutt should know are in step.
Agreed(s) ==
  ~Adrift =>
    \A i \in DOMAIN index : index[i] # NULL =>
      /\ i \in DOMAIN s /\ s[i] = index[i]
      /\ index[i] \in DOMAIN msn \ gone /\ msn[index[i]] = i

\* What is gone does not come back.
Departed(N, w, b) ==
  ~Adrift => \A u \in gone : u \notin b /\ \A k \in 0 .. Len(w) : u \notin Range(N[k])

\* What was announced is there, or known to be new, or being fetched.
Reached(s) ==
  ~raced /\ ~short =>
    \/ Len(s) <= Len(index)
    \/ "NEWMAIL_PENDING" \in reopen /\ Len(s) <= newMailCount
    \/ pc = "fetch" /\ "NEWMAIL_PENDING" \notin reopen /\ Len(s) <= range.last

\* Only UIDs that were given out are numbered.
Given(N, w) == \A k \in 0 .. Len(w) : Range(N[k]) \subseteq 1 .. nextUid - 1

InStep(N, w, s, b) ==
  /\ Followed(N, w, s, b) /\ Given(N, w)
  /\ Agreed(N[0]) /\ Departed(N, w, b) /\ Reached(N[0])

Numbered ==
  /\ Typed /\ Protocol /\ Found /\ Complete
  /\ \E N : InStep(N, wire, sess, mbox)

(***************************************************************************)
(* Sequences.                                                              *)
(***************************************************************************)
LEMMA SeqParts ==
  ASSUME NEW S, NEW s \in Seq(S)
  PROVE  /\ Len(s) \in Nat /\ DOMAIN s = 1 .. Len(s)
         /\ \A i \in 1 .. Len(s) : s[i] \in S
         /\ s # <<>> => Len(s) >= 1
<1>1. Len(s) \in Nat /\ DOMAIN s = 1 .. Len(s) /\ \A i \in 1 .. Len(s) : s[i] \in S
  BY LenProperties, ElementOfSeq
<1>2. s # <<>> => Len(s) >= 1
  BY <1>1, EmptySeq
<1> QED BY <1>1, <1>2

LEMMA RemovedAt ==
  ASSUME NEW S, NEW s \in Seq(S), NEW p \in DOMAIN s
  PROVE  /\ RemoveAt(s, p) \in Seq(S)
         /\ Len(RemoveAt(s, p)) = Len(s) - 1
         /\ DOMAIN RemoveAt(s, p) = 1 .. Len(s) - 1
         /\ \A i \in 1 .. Len(s) - 1 : RemoveAt(s, p)[i] = IF i < p THEN s[i] ELSE s[i + 1]
<1> DEFINE a == SubSeq(s, 1, p - 1)
           b == SubSeq(s, p + 1, Len(s))
<1>1. Len(s) \in Nat /\ p \in 1 .. Len(s) /\ p \in Nat
  BY SeqParts
<1>2. a \in Seq(S) /\ Len(a) = p - 1 /\ \A i \in 1 .. p - 1 : a[i] = s[i]
  BY <1>1, SubSeqProperties
<1>3. b \in Seq(S) /\ Len(b) = Len(s) - p /\ \A i \in 1 .. Len(s) - p : b[i] = s[p + i]
  BY <1>1, SubSeqProperties
<1>4. RemoveAt(s, p) = a \o b
  BY DEF RemoveAt
<1> HIDE DEF a, b
<1>5. /\ a \o b \in Seq(S) /\ Len(a \o b) = Len(a) + Len(b)
      /\ \A i \in 1 .. Len(a) + Len(b) : (a \o b)[i] = IF i <= Len(a) THEN a[i] ELSE b[i - Len(a)]
  BY <1>2, <1>3, ConcatProperties
<1>6. Len(a \o b) = Len(s) - 1 /\ DOMAIN (a \o b) = 1 .. Len(s) - 1
  BY <1>1, <1>2, <1>3, <1>5, SeqParts
<1>7. ASSUME NEW i \in 1 .. Len(s) - 1
      PROVE  (a \o b)[i] = IF i < p THEN s[i] ELSE s[i + 1]
  <2>1. i \in Nat /\ i \in 1 .. Len(a) + Len(b)
    BY <1>1, <1>2, <1>3
  <2>2. CASE i < p
    <3>1. i \in 1 .. p - 1 /\ i <= Len(a)
      BY <1>1, <1>2, <2>1, <2>2
    <3> QED BY <1>2, <1>5, <2>1, <2>2, <3>1
  <2>3. CASE ~(i < p)
    <3>1. i - (p - 1) \in 1 .. Len(s) - p /\ ~(i <= Len(a)) /\ p + (i - (p - 1)) = i + 1
      BY <1>1, <1>2, <2>1, <2>3
    <3>2. b[i - (p - 1)] = s[i + 1]
      BY <1>3, <3>1
    <3> QED BY <1>2, <1>5, <2>1, <2>3, <3>1, <3>2
  <2> QED BY <2>2, <2>3
<1> QED BY <1>4, <1>5, <1>6, <1>7

\* Of different members: the one that is removed is there no more, all others are.
LEMMA RemovedFrom ==
  ASSUME NEW S, NEW s \in Seq(S), IsInjective(s), NEW p \in DOMAIN s
  PROVE  /\ IsInjective(RemoveAt(s, p))
         /\ s[p] \notin Range(RemoveAt(s, p))
         /\ Range(RemoveAt(s, p)) \subseteq Range(s)
         /\ \A v \in Range(s) \ Range(RemoveAt(s, p)) : v = s[p]
<1> DEFINE t == RemoveAt(s, p)
<1>1. Len(s) \in Nat /\ DOMAIN s = 1 .. Len(s) /\ p \in 1 .. Len(s) /\ p \in Nat
  BY SeqParts
<1>2. DOMAIN t = 1 .. Len(s) - 1 /\ \A i \in 1 .. Len(s) - 1 : t[i] = IF i < p THEN s[i] ELSE s[i + 1]
  BY RemovedAt
<1> HIDE DEF t
<1> DEFINE at(i) == IF i < p THEN i ELSE i + 1
<1>3. \A i \in 1 .. Len(s) - 1 : at(i) \in 1 .. Len(s) /\ t[i] = s[at(i)] /\ at(i) # p
  BY <1>1, <1>2
<1>4. \A i, j \in 1 .. Len(s) - 1 : at(i) = at(j) => i = j
  BY <1>1
<1>5. \A k \in 1 .. Len(s) : k # p => \E i \in 1 .. Len(s) - 1 : at(i) = k
  <2> TAKE k \in 1 .. Len(s)
  <2>1. CASE k < p
    <3>1. k \in 1 .. Len(s) - 1 /\ at(k) = k
      BY <1>1, <2>1
    <3> QED BY <3>1
  <2>2. CASE k > p
    <3>1. k - 1 \in 1 .. Len(s) - 1 /\ at(k - 1) = k
      BY <1>1, <2>2
    <3> QED BY <3>1
  <2> QED BY <1>1, <2>1, <2>2
<1> HIDE DEF at
<1>6. IsInjective(t)
  <2> SUFFICES ASSUME NEW i \in 1 .. Len(s) - 1, NEW j \in 1 .. Len(s) - 1, t[i] = t[j]
               PROVE  i = j
    BY <1>2 DEF IsInjective
  <2>1. at(i) = at(j)
    BY <1>1, <1>3 DEF IsInjective
  <2> QED BY <1>4, <2>1
<1>7. s[p] \notin Range(t)
  <2> SUFFICES ASSUME NEW i \in 1 .. Len(s) - 1, t[i] = s[p] PROVE FALSE
    BY <1>2 DEF Range
  <2> QED BY <1>1, <1>3 DEF IsInjective
<1>8. Range(t) \subseteq Range(s)
  BY <1>1, <1>2, <1>3 DEF Range
<1>9. ASSUME NEW v \in Range(s) \ Range(t) PROVE v = s[p]
  <2>1. PICK k \in 1 .. Len(s) : s[k] = v
    BY <1>1 DEF Range
  <2>2. CASE k # p
    <3>1. PICK i \in 1 .. Len(s) - 1 : at(i) = k
      BY <1>5, <2>2
    <3>2. t[i] = v
      BY <1>3, <2>1, <3>1
    <3> QED BY <1>2, <3>2 DEF Range
  <2> QED BY <2>1, <2>2
<1> QED BY <1>6, <1>7, <1>8, <1>9 DEF t

LEMMA SmallUids == Bounds => IsFiniteSet(Uids) /\ Cardinality(Uids) = MaxUid
BY FS_Interval DEF Uids, Bounds

\* There are not more numbers than UIDs.
LEMMA FewNumbers ==
  ASSUME Bounds, NEW s \in Seq(Uids), IsInjective(s)
  PROVE  Len(s) <= MaxUid
<1>1. Len(s) \in Nat /\ s \in [1 .. Len(s) -> Uids] /\ DOMAIN s = 1 .. Len(s)
  BY SeqParts, LenProperties
<1>2. IsFiniteSet(1 .. Len(s)) /\ Cardinality(1 .. Len(s)) = Len(s)
  BY <1>1, FS_Interval
<1>3. s \in Injection(1 .. Len(s), Uids)
  BY <1>1 DEF Injection, IsInjective
<1> QED BY <1>2, <1>3, SmallUids, FS_Injection

(***************************************************************************)
(* The numberings, as lines are sent and read.                             *)
(***************************************************************************)
\* Numbers are given to what is in the mailbox b, and taken from what is not.
Renumbers(s, t, b) == Range(t) \subseteq Range(s) \cup b /\ Range(s) \cap b \subseteq Range(t)

\* How the numberings M come from N when w gets longer or shorter.
Extended(M, N, w, t) == (\A k \in 0 .. Len(w) : M[k] = N[k]) /\ M[Len(w) + 1] = t
Repeated(M, N, w, ls) ==
  \A k \in 0 .. Len(w) + Len(ls) : M[k] = N[IF k <= Len(w) THEN k ELSE Len(w)]
Advanced(M, N, w) == \A k \in 0 .. Len(w) - 1 : M[k] = N[k + 1]

LEMMA FollowLine ==
  ASSUME NEW N, NEW w \in Seq(Lines), NEW s, NEW b, Followed(N, w, s, b),
         NEW l \in Lines, NEW t \in Seq(Uids), IsInjective(t), Tells(l, s, t), Renumbers(s, t, b)
  PROVE  \E M : Followed(M, Append(w, l), t, b) /\ Extended(M, N, w, t)
<1> DEFINE M == [k \in 0 .. Len(w) + 1 |-> IF k <= Len(w) THEN N[k] ELSE t]
           x == Append(w, l)
<1>1. /\ Len(w) \in Nat /\ Len(x) = Len(w) + 1
      /\ \A k \in 1 .. Len(w) : x[k] = w[k]
      /\ x[Len(w) + 1] = l
  BY SeqParts, AppendProperties
<1>2. /\ \A k \in 0 .. Len(w) : M[k] = N[k]
      /\ M[Len(w) + 1] = t
  BY <1>1
<1>3. /\ \A k \in 0 .. Len(w) : N[k] \in Seq(Uids) /\ IsInjective(N[k])
      /\ N[Len(w)] = s
      /\ \A k \in 1 .. Len(w) : Tells(w[k], N[k - 1], N[k])
      /\ \A i, j \in 0 .. Len(w) : i <= j =>
           \A v \in Range(N[i]) \ Range(N[j]) :
             v \notin b /\ \A k \in j .. Len(w) : v \notin Range(N[k])
  BY DEF Followed
<1> HIDE DEF M, x
<1>4. ASSUME NEW k \in 0 .. Len(x) PROVE M[k] \in Seq(Uids) /\ IsInjective(M[k])
  <2>1. CASE k \in 0 .. Len(w)
    BY <1>2, <1>3, <2>1
  <2>2. CASE k = Len(w) + 1
    BY <1>2, <2>2
  <2> QED BY <1>1, <2>1, <2>2
<1>5. ASSUME NEW k \in 1 .. Len(x) PROVE Tells(x[k], M[k - 1], M[k])
  <2>1. CASE k \in 1 .. Len(w)
    <3>1. k - 1 \in 0 .. Len(w) /\ k \in 0 .. Len(w)
      BY <1>1, <2>1
    <3> QED BY <1>1, <1>2, <1>3, <2>1, <3>1
  <2>2. CASE k = Len(w) + 1
    <3>1. k - 1 = Len(w) /\ Len(w) \in 0 .. Len(w)
      BY <1>1, <2>2
    <3> QED BY <1>1, <1>2, <1>3, <2>2, <3>1
  <2> QED BY <1>1, <2>1, <2>2
<1>6. ASSUME NEW i \in 0 .. Len(x), NEW j \in 0 .. Len(x), i <= j
      PROVE  \A v \in Range(M[i]) \ Range(M[j]) :
               v \notin b /\ \A k \in j .. Len(x) : v \notin Range(M[k])
  <2>a. Len(w) \in Nat /\ Len(x) = Len(w) + 1 /\ i <= j /\ i \in Nat /\ j \in Nat /\ j <= Len(w) + 1
    BY <1>1, <1>6
  <2>b. Len(w) \in 0 .. Len(w) /\ (j \in 0 .. Len(w) \/ j = Len(w) + 1)
    BY <2>a
  <2>c. j \in 0 .. Len(w) => i \in 0 .. Len(w) /\ Len(w) \in j .. Len(w)
    BY <2>a
  <2>d. i # Len(w) + 1 => i \in 0 .. Len(w) /\ i <= Len(w)
    BY <2>a
  <2>e. ASSUME NEW k \in j .. Len(x), k # Len(w) + 1 PROVE k \in 0 .. Len(w) /\ k \in j .. Len(w)
    <3>1. k \in Int /\ j <= k /\ k <= Len(w) + 1 /\ k # Len(w) + 1
      BY <2>a, <2>e
    <3>2. k <= Len(w)
      BY <2>a, <3>1
    <3> QED BY <2>a, <3>1, <3>2
  <2>f. j = Len(w) + 1 => \A k \in j .. Len(x) : k = j
    BY <2>a
  <2> TAKE v \in Range(M[i]) \ Range(M[j])
  <2>1. CASE j \in 0 .. Len(w)
    <3>1. i \in 0 .. Len(w)
      BY <2>b, <2>c, <2>d, <2>e, <2>f, <2>1
    <3>2. v \in Range(N[i]) \ Range(N[j])
      BY <1>2, <2>1, <3>1
    <3>3. v \notin b /\ \A k \in j .. Len(w) : v \notin Range(N[k])
      BY <1>3, <1>6, <2>1, <3>1, <3>2
    <3>4. Len(w) \in j .. Len(w)
      BY <2>b, <2>c, <2>d, <2>e, <2>f, <2>1
    <3>5. v \notin Range(t)
      BY <1>3, <3>3, <3>4 DEF Renumbers
    <3>6. ASSUME NEW k \in j .. Len(x) PROVE v \notin Range(M[k])
      <4>1. CASE k = Len(w) + 1
        BY <1>2, <3>5, <4>1
      <4>2. CASE k # Len(w) + 1
        <5>1. k \in j .. Len(w) /\ k \in 0 .. Len(w)
          BY <2>b, <2>c, <2>d, <2>e, <2>f, <4>2
        <5> QED BY <1>2, <3>3, <5>1
      <4> QED BY <4>1, <4>2
    <3> QED BY <3>3, <3>6
  <2>2. CASE j = Len(w) + 1
    <3>1. M[j] = t /\ i # j
      BY <1>2, <2>2
    <3>2. i \in 0 .. Len(w) /\ i <= Len(w)
      BY <2>b, <2>c, <2>d, <2>e, <2>f, <2>2, <3>1
    <3>3. v \in Range(N[i]) /\ v \notin Range(t)
      BY <1>2, <3>1, <3>2
    <3>4. v \notin b
      <4>1. CASE v \in Range(s)
        BY <3>3, <4>1 DEF Renumbers
      <4>2. CASE v \notin Range(s)
        <5>1. v \in Range(N[i]) \ Range(N[Len(w)])
          BY <1>3, <3>3, <4>2
        <5> QED BY <1>3, <2>b, <2>c, <2>d, <2>e, <2>f, <3>2, <5>1
      <4> QED BY <4>1, <4>2
    <3>5. ASSUME NEW k \in j .. Len(x) PROVE v \notin Range(M[k])
      <4>1. k = j
        BY <2>b, <2>c, <2>d, <2>e, <2>f, <2>2
      <4> QED BY <4>1
    <3> QED BY <3>4, <3>5
  <2> QED BY <2>b, <2>c, <2>d, <2>e, <2>f, <2>1, <2>2
<1>7. M[Len(x)] = t
  BY <1>1, <1>2
<1>8. Followed(M, x, t, b)
  BY <1>4, <1>5, <1>6, <1>7 DEF Followed
<1> QED BY <1>2, <1>8 DEF x, Extended

\* Lines that do not change the numbering.
LEMMA FollowLines ==
  ASSUME NEW N, NEW w \in Seq(Lines), NEW s, NEW b, Followed(N, w, s, b),
         NEW ls \in Seq(Lines), \A k \in 1 .. Len(ls) : Tells(ls[k], s, s)
  PROVE  \E M : Followed(M, w \o ls, s, b) /\ Repeated(M, N, w, ls)
<1> DEFINE at(k) == IF k <= Len(w) THEN k ELSE Len(w)
           M == [k \in 0 .. Len(w) + Len(ls) |-> N[at(k)]]
           x == w \o ls
<1>1. /\ Len(w) \in Nat /\ Len(ls) \in Nat /\ Len(x) = Len(w) + Len(ls)
      /\ \A k \in 1 .. Len(x) : x[k] = IF k <= Len(w) THEN w[k] ELSE ls[k - Len(w)]
  BY SeqParts, ConcatProperties
<1>2. \A k \in 0 .. Len(x) : M[k] = N[at(k)]
  BY <1>1
<1>3. /\ \A k \in 0 .. Len(w) : N[k] \in Seq(Uids) /\ IsInjective(N[k])
      /\ N[Len(w)] = s
      /\ \A k \in 1 .. Len(w) : Tells(w[k], N[k - 1], N[k])
      /\ \A i, j \in 0 .. Len(w) : i <= j =>
           \A v \in Range(N[i]) \ Range(N[j]) :
             v \notin b /\ \A k \in j .. Len(w) : v \notin Range(N[k])
  BY DEF Followed
<1> HIDE DEF M, x
<1>4. \A k \in 0 .. Len(x) : at(k) \in 0 .. Len(w)
  BY <1>1
<1>5. \A i, j \in 0 .. Len(x) : i <= j => at(i) <= at(j)
  BY <1>1
<1>6. \A k \in 1 .. Len(x) : k <= Len(w) => k \in 1 .. Len(w) /\ at(k) = k /\ at(k - 1) = k - 1
  BY <1>1
<1>7. \A k \in 1 .. Len(x) : k > Len(w) => /\ k - Len(w) \in 1 .. Len(ls)
                                           /\ at(k) = Len(w) /\ at(k - 1) = Len(w)
  BY <1>1
<1>8. at(Len(x)) = Len(w)
  BY <1>1
<1> HIDE DEF at
<1>9. ASSUME NEW k \in 1 .. Len(x) PROVE Tells(x[k], M[k - 1], M[k])
  <2>0. k - 1 \in 0 .. Len(x) /\ k \in 0 .. Len(x) /\ k \in Nat
    BY <1>1
  <2>1. M[k - 1] = N[at(k - 1)] /\ M[k] = N[at(k)]
    BY <1>2, <2>0
  <2>2. CASE k <= Len(w)
    BY <1>1, <1>3, <1>6, <2>1, <2>2
  <2>3. CASE k > Len(w)
    <3>1. x[k] = ls[k - Len(w)]
      BY <1>1, <2>0, <2>3
    <3> QED BY <1>3, <1>7, <2>1, <2>3, <3>1
  <2> QED BY <1>1, <2>0, <2>2, <2>3
<1>10. ASSUME NEW i \in 0 .. Len(x), NEW j \in 0 .. Len(x), i <= j
       PROVE  \A v \in Range(M[i]) \ Range(M[j]) :
                v \notin b /\ \A k \in j .. Len(x) : v \notin Range(M[k])
  <2>0. /\ at(i) <= at(j) /\ M[i] = N[at(i)] /\ M[j] = N[at(j)]
        /\ \A k \in j .. Len(x) : k \in 0 .. Len(x) /\ j <= k
    BY <1>1, <1>2, <1>5, <1>10
  <2> TAKE v \in Range(M[i]) \ Range(M[j])
  <2>1. v \in Range(N[at(i)]) \ Range(N[at(j)]) /\ at(i) <= at(j)
    BY <2>0
  <2>2. v \notin b /\ \A k \in at(j) .. Len(w) : v \notin Range(N[k])
    BY <1>3, <1>4, <2>1
  <2>3. ASSUME NEW k \in j .. Len(x) PROVE v \notin Range(M[k])
    <3>1. k \in 0 .. Len(x) /\ j <= k
      BY <2>0
    <3>2. at(k) \in 0 .. Len(w) /\ at(j) \in 0 .. Len(w) /\ at(j) <= at(k)
      BY <1>4, <1>5, <3>1
    <3>3. at(k) \in at(j) .. Len(w)
      BY <1>1, <3>2
    <3> QED BY <1>2, <2>2, <3>1, <3>3
  <2> QED BY <2>2, <2>3
<1>11. \A k \in 0 .. Len(x) : M[k] \in Seq(Uids) /\ IsInjective(M[k])
  BY <1>2, <1>3, <1>4
<1>12. M[Len(x)] = s
  <2>1. Len(x) \in 0 .. Len(x)
    BY <1>1
  <2> QED BY <1>2, <1>3, <1>8, <2>1
<1>13. Followed(M, x, s, b)
  BY <1>9, <1>10, <1>11, <1>12 DEF Followed
<1> QED BY <1>1, <1>2, <1>13 DEF x, at, Repeated

\* A line is read.
LEMMA ReadLine ==
  ASSUME NEW N, NEW w \in Seq(Lines), NEW s, NEW b, Followed(N, w, s, b), w # <<>>
  PROVE  /\ Tells(Head(w), N[0], N[1])
         /\ N[0] \in Seq(Uids) /\ N[1] \in Seq(Uids) /\ IsInjective(N[0]) /\ IsInjective(N[1])
         /\ \E M : Followed(M, Tail(w), s, b) /\ Advanced(M, N, w)
<1> DEFINE M == [k \in 0 .. Len(w) - 1 |-> N[k + 1]]
           x == Tail(w)
<1>1. /\ Len(w) \in Nat /\ Len(w) >= 1 /\ Len(x) = Len(w) - 1
      /\ \A k \in 1 .. Len(x) : x[k] = w[k + 1]
      /\ Head(w) = w[1]
  BY SeqParts, HeadTailProperties
<1>2. \A k \in 0 .. Len(x) : M[k] = N[k + 1]
  BY <1>1
<1>3. /\ \A k \in 0 .. Len(w) : N[k] \in Seq(Uids) /\ IsInjective(N[k])
      /\ N[Len(w)] = s
      /\ \A k \in 1 .. Len(w) : Tells(w[k], N[k - 1], N[k])
      /\ \A i, j \in 0 .. Len(w) : i <= j =>
           \A v \in Range(N[i]) \ Range(N[j]) :
             v \notin b /\ \A k \in j .. Len(w) : v \notin Range(N[k])
  BY DEF Followed
<1> HIDE DEF M, x
<1>4. Tells(Head(w), N[0], N[1])
  <2>1. 1 \in 1 .. Len(w) /\ 1 - 1 = 0
    BY <1>1
  <2> QED BY <1>1, <1>3, <2>1
<1>5. N[0] \in Seq(Uids) /\ N[1] \in Seq(Uids) /\ IsInjective(N[0]) /\ IsInjective(N[1])
  <2>1. 0 \in 0 .. Len(w) /\ 1 \in 0 .. Len(w)
    BY <1>1
  <2> QED BY <1>3, <2>1
<1>6. ASSUME NEW k \in 0 .. Len(x) PROVE M[k] \in Seq(Uids) /\ IsInjective(M[k])
  <2>1. k + 1 \in 0 .. Len(w)
    BY <1>1
  <2> QED BY <1>2, <1>3, <2>1
<1>7. ASSUME NEW k \in 1 .. Len(x) PROVE Tells(x[k], M[k - 1], M[k])
  <2>1. k - 1 \in 0 .. Len(x) /\ k \in 0 .. Len(x) /\ k + 1 \in 1 .. Len(w) /\ (k + 1) - 1 = k /\ (k - 1) + 1 = k
    BY <1>1
  <2>2. M[k - 1] = N[k] /\ M[k] = N[k + 1]
    BY <1>2, <2>1
  <2>3. Tells(w[k + 1], N[(k + 1) - 1], N[k + 1])
    BY <1>3, <2>1
  <2> QED BY <1>1, <2>1, <2>2, <2>3
<1>8. M[Len(x)] = s
  <2>1. Len(x) \in 0 .. Len(x) /\ Len(x) + 1 = Len(w)
    BY <1>1
  <2> QED BY <1>2, <1>3, <2>1
<1>9. ASSUME NEW i \in 0 .. Len(x), NEW j \in 0 .. Len(x), i <= j
      PROVE  \A v \in Range(M[i]) \ Range(M[j]) :
               v \notin b /\ \A k \in j .. Len(x) : v \notin Range(M[k])
  <2>1. /\ i + 1 \in 0 .. Len(w) /\ j + 1 \in 0 .. Len(w) /\ i + 1 <= j + 1
        /\ \A k \in j .. Len(x) : k \in 0 .. Len(x) /\ k + 1 \in j + 1 .. Len(w)
    BY <1>1, <1>9
  <2> TAKE v \in Range(M[i]) \ Range(M[j])
  <2>2. v \in Range(N[i + 1]) \ Range(N[j + 1])
    BY <1>2
  <2>3. v \notin b /\ \A k \in j + 1 .. Len(w) : v \notin Range(N[k])
    BY <1>3, <2>1, <2>2
  <2>4. ASSUME NEW k \in j .. Len(x) PROVE v \notin Range(M[k])
    <3>1. k \in 0 .. Len(x) /\ k + 1 \in j + 1 .. Len(w)
      BY <2>1
    <3> QED BY <1>2, <2>3, <3>1
  <2> QED BY <2>3, <2>4
<1>10. Followed(M, x, s, b)
  BY <1>6, <1>7, <1>8, <1>9 DEF Followed
<1>11. Advanced(M, N, w)
  BY <1>1, <1>2 DEF Advanced
<1> QED BY <1>4, <1>5, <1>10, <1>11 DEF x

LEMMA Appended ==
  ASSUME NEW S, NEW s \in Seq(S), NEW e \in S
  PROVE  /\ Append(s, e) \in Seq(S) /\ Len(Append(s, e)) = Len(s) + 1 /\ Append(s, e) # <<>>
         /\ DOMAIN Append(s, e) = 1 .. Len(s) + 1
         /\ \A k \in 1 .. Len(s) : Append(s, e)[k] = s[k]
         /\ Append(s, e)[Len(s) + 1] = e
<1>1. /\ Append(s, e) \in Seq(S) /\ Len(Append(s, e)) = Len(s) + 1
      /\ \A k \in 1 .. Len(s) : Append(s, e)[k] = s[k]
      /\ Append(s, e)[Len(s) + 1] = e
  BY AppendProperties
<1>2. DOMAIN Append(s, e) = 1 .. Len(s) + 1
  BY <1>1, SeqParts
<1>3. Len(s) + 1 # 0 /\ Append(s, e) # <<>>
  <2>1. Len(s) \in Nat
    BY SeqParts
  <2> QED BY <1>1, <2>1, EmptySeq
<1> QED BY <1>1, <1>2, <1>3

\* The server leaves mutt's side of the invariant alone.
Client == <<index, msn, gone, reopen, newMailCount, pc, range, qresync>>
Marked == (raced => raced') /\ (short => short')

LEMMA ClientStays ==
  ASSUME UNCHANGED Client, Marked
  PROVE  /\ \A s : Agreed(s) => Agreed(s)'
         /\ \A s : Reached(s) => Reached(s)'
         /\ Found => Found'
         /\ Adrift => Adrift'
BY DEF Client, Marked, Agreed, Adrift, Reached, Found

LEMMA ServerTells ==
  ASSUME Numbered, NEW l \in Lines, NEW t \in Seq(Uids), IsInjective(t), Tells(l, sess, t),
         Renumbers(sess, t, mbox),
         wire' = Append(wire, l), sess' = t, UNCHANGED <<mbox, nextUid>>, UNCHANGED Client, Marked
  PROVE  (\E N : InStep(N, wire, sess, mbox))'
<1>1. wire \in Seq(Lines) /\ Len(wire) \in Nat /\ mbox \subseteq 1 .. nextUid - 1
  BY SeqParts DEF Numbered, Typed
<1>2. PICK N : InStep(N, wire, sess, mbox)
  BY DEF Numbered
<1>3. Followed(N, wire, sess, mbox)
  BY <1>2 DEF InStep
<1>a. wire \in Seq(Lines)
  BY <1>1
<1>b. PICK M : Followed(M, Append(wire, l), t, mbox) /\ Extended(M, N, wire, t)
  BY <1>3, <1>a, FollowLine
<1>4. /\ Followed(M, Append(wire, l), t, mbox)
      /\ \A k \in 0 .. Len(wire) : M[k] = N[k]
      /\ M[Len(wire) + 1] = t
  BY <1>b DEF Extended
<1>5. /\ Len(wire') = Len(wire) + 1
      /\ 0 \in 0 .. Len(wire) /\ Len(wire) \in 0 .. Len(wire)
      /\ \A k \in 0 .. Len(wire') : k \in 0 .. Len(wire) \/ k = Len(wire) + 1
  BY <1>1, Appended
<1>6. N[Len(wire)] = sess /\ M[0] = N[0]
  BY <1>3, <1>4, <1>5 DEF Followed
<1>7. Followed(M, wire', sess', mbox')
  BY <1>4
<1>8. Given(M, wire)'
  <2>1. \A k \in 0 .. Len(wire) : Range(N[k]) \subseteq 1 .. nextUid - 1
    BY <1>2 DEF InStep, Given
  <2>2. Range(t) \subseteq 1 .. nextUid - 1
    BY <1>1, <1>5, <1>6, <2>1 DEF Renumbers
  <2>3. \A k \in 0 .. Len(wire') : Range(M[k]) \subseteq 1 .. nextUid - 1
    BY <1>4, <1>5, <2>1, <2>2
  <2> QED BY <2>3 DEF Given
<1>9. Departed(M, wire, mbox)'
  <2> SUFFICES ASSUME ~Adrift', NEW u \in gone'
               PROVE  u \notin mbox' /\ \A k \in 0 .. Len(wire') : u \notin Range(M[k])
    BY DEF Departed
  <2>1. u \notin mbox /\ \A k \in 0 .. Len(wire) : u \notin Range(N[k])
    BY <1>2, ClientStays DEF InStep, Departed, Client
  <2>2. u \notin Range(t)
    BY <1>5, <1>6, <2>1 DEF Renumbers
  <2> QED BY <1>4, <1>5, <2>1, <2>2
<1>10. Agreed(M[0])' /\ Reached(M[0])'
  <2>1. Agreed(N[0]) /\ Reached(N[0])
    BY <1>2 DEF InStep
  <2> QED BY <1>6, <2>1, ClientStays
<1>11. InStep(M, wire, sess, mbox)'
  BY <1>7, <1>8, <1>9, <1>10 DEF InStep
<1> QED BY <1>11

\* The lines that are on their way have their types, and what was coming comes.
LEMMA LineTyped ==
  ASSUME Typed, NEW l \in Lines, wire' = Append(wire, l), UNCHANGED <<nextUid, qresync>>,
         short => short', l.uid < nextUid, l.kind = "EXPUNGE" => ~qresync,
         l.kind = "VANISHED" => qresync, l.kind = "NO" => short'
  PROVE  /\ wire' \in Seq(Lines)
         /\ \A k \in DOMAIN wire' :
              /\ wire'[k].uid < nextUid'
              /\ wire'[k].kind = "EXPUNGE" => ~qresync'
              /\ wire'[k].kind = "VANISHED" => qresync'
              /\ wire'[k].kind = "NO" => short'
         /\ Untagged /\ ~Tagged(l) => Untagged'
         /\ Untagged /\ Tagged(l) =>
              /\ wire' # <<>> /\ Tagged(wire'[Len(wire')])
              /\ \A k \in 1 .. Len(wire') - 1 : ~Tagged(wire'[k])
         /\ sent' = sent => \A i : Coming(i) => Coming(i)'
         /\ l.kind # "+" /\ sent' = sent /\ pc' = pc /\ Greeted => Greeted'
<1>1. wire \in Seq(Lines) /\ Len(wire) \in Nat /\ DOMAIN wire = 1 .. Len(wire)
  BY SeqParts DEF Typed
<1>2. /\ wire' \in Seq(Lines) /\ wire' # <<>> /\ Len(wire') = Len(wire) + 1
      /\ DOMAIN wire' = 1 .. Len(wire) + 1
      /\ \A k \in 1 .. Len(wire) : wire'[k] = wire[k]
      /\ wire'[Len(wire) + 1] = l
  BY <1>1, Appended
<1>3. \A k \in DOMAIN wire' : k \in DOMAIN wire \/ k = Len(wire) + 1
  BY <1>1, <1>2
<1>4. ASSUME NEW k \in DOMAIN wire'
      PROVE  /\ wire'[k].uid < nextUid'
             /\ wire'[k].kind = "EXPUNGE" => ~qresync'
             /\ wire'[k].kind = "VANISHED" => qresync'
             /\ wire'[k].kind = "NO" => short'
  <2>1. CASE k \in DOMAIN wire
    <3>1. wire'[k] = wire[k]
      BY <1>1, <1>2, <2>1
    <3> QED BY <2>1, <3>1 DEF Typed
  <2>2. CASE k = Len(wire) + 1
    BY <1>2, <2>2
  <2> QED BY <1>3, <2>1, <2>2
<1>5. Untagged /\ ~Tagged(l) => Untagged'
  BY <1>1, <1>2, <1>3 DEF Untagged, Tagged
<1>6. Untagged /\ Tagged(l) => \A k \in 1 .. Len(wire') - 1 : ~Tagged(wire'[k])
  <2>1. Len(wire') - 1 = Len(wire)
    BY <1>1, <1>2
  <2> QED BY <1>1, <1>2, <2>1 DEF Untagged, Tagged
<1>7. sent' = sent => \A i : Coming(i) => Coming(i)'
  <2>1. \A k \in DOMAIN wire : k \in DOMAIN wire' /\ wire'[k] = wire[k]
    BY <1>1, <1>2
  <2> QED BY <2>1 DEF Coming
<1>8. l.kind # "+" /\ sent' = sent /\ pc' = pc /\ Greeted => Greeted'
  <2>1. l.kind # "+" => \A k \in DOMAIN wire' :
          wire'[k].kind = "+" => k \in DOMAIN wire /\ wire[k].kind = "+"
    BY <1>1, <1>2, <1>3
  <2> QED BY <2>1 DEF Greeted
<1> QED BY <1>2, <1>4, <1>5, <1>6, <1>7, <1>8

LEMMA CompleteStays ==
  ASSUME Complete, UNCHANGED <<index, pc, range>>, Marked,
         ~short' /\ pc = "fetch" => \A i : Coming(i) => Coming(i)'
  PROVE  Complete'
BY DEF Complete, Filled, Marked

\* An answer of several lines that does not change the numbering.
LEMMA ServerAnswers ==
  ASSUME Numbered, NEW ls \in Seq(Lines), \A k \in 1 .. Len(ls) : Tells(ls[k], sess, sess),
         wire' = wire \o ls, UNCHANGED <<sess, mbox, nextUid>>, UNCHANGED Client, Marked
  PROVE  (\E N : InStep(N, wire, sess, mbox))'
<1>1. wire \in Seq(Lines) /\ Len(wire) \in Nat /\ Len(ls) \in Nat
  BY SeqParts DEF Numbered, Typed
<1>2. PICK N : InStep(N, wire, sess, mbox)
  BY DEF Numbered
<1>3. Followed(N, wire, sess, mbox)
  BY <1>2 DEF InStep
<1>4. wire \in Seq(Lines)
  BY <1>1
<1>5. PICK M : Followed(M, wire \o ls, sess, mbox) /\ Repeated(M, N, wire, ls)
  BY <1>3, <1>4, FollowLines
<1>6. Len(wire') = Len(wire) + Len(ls)
  BY <1>1, ConcatProperties
<1>7. \A k \in 0 .. Len(wire') : \E j \in 0 .. Len(wire) : M[k] = N[j]
  <2> TAKE k \in 0 .. Len(wire')
  <2>1. M[k] = N[IF k <= Len(wire) THEN k ELSE Len(wire)]
    BY <1>5, <1>6 DEF Repeated
  <2>2. (IF k <= Len(wire) THEN k ELSE Len(wire)) \in 0 .. Len(wire)
    BY <1>1
  <2> QED BY <2>1, <2>2
<1>8. M[0] = N[0]
  <2>1. 0 \in 0 .. Len(wire) + Len(ls) /\ 0 <= Len(wire)
    BY <1>1
  <2> QED BY <1>5, <2>1 DEF Repeated
<1>9. Followed(M, wire', sess', mbox')
  BY <1>5
<1>10. Given(M, wire)'
  <2>1. \A k \in 0 .. Len(wire) : Range(N[k]) \subseteq 1 .. nextUid - 1
    BY <1>2 DEF InStep, Given
  <2>2. \A k \in 0 .. Len(wire') : Range(M[k]) \subseteq 1 .. nextUid - 1
    BY <1>7, <2>1
  <2> QED BY <2>2 DEF Given
<1>11. Departed(M, wire, mbox)'
  <2> SUFFICES ASSUME ~Adrift', NEW u \in gone'
               PROVE  u \notin mbox' /\ \A k \in 0 .. Len(wire') : u \notin Range(M[k])
    BY DEF Departed
  <2>1. u \notin mbox /\ \A k \in 0 .. Len(wire) : u \notin Range(N[k])
    BY <1>2, ClientStays DEF InStep, Departed, Client
  <2> QED BY <1>7, <2>1
<1>12. Agreed(M[0])' /\ Reached(M[0])'
  <2>1. Agreed(N[0]) /\ Reached(N[0])
    BY <1>2 DEF InStep
  <2> QED BY <1>8, <2>1, ClientStays
<1>13. InStep(M, wire, sess, mbox)'
  BY <1>9, <1>10, <1>11, <1>12 DEF InStep
<1> QED BY <1>13

LEMMA Wider == ASSUME NEW m \in Int, NEW n \in Int, m <= n PROVE 1 .. m - 1 \subseteq 1 .. n - 1
OBVIOUS

\* Nothing is sent; other clients may have taken what is not numbered any more.
LEMMA NothingSent ==
  ASSUME Numbered, UNCHANGED <<wire, sess>>, UNCHANGED Client, Marked,
         nextUid' >= nextUid, nextUid' \in Int, mbox' \cap 1 .. nextUid - 1 \subseteq mbox
  PROVE  (\E N : InStep(N, wire, sess, mbox))'
<1>1. PICK N : InStep(N, wire, sess, mbox)
  BY DEF Numbered
<1>2. /\ nextUid \in Int /\ DOMAIN msn \subseteq 1 .. nextUid - 1 /\ gone \subseteq DOMAIN msn
      /\ wire \in Seq(Lines) /\ Len(wire) \in Nat
  BY SeqParts DEF Numbered, Typed, TypeOK
<1>3. \A k \in 0 .. Len(wire) : Range(N[k]) \subseteq 1 .. nextUid - 1
  BY <1>1 DEF InStep, Given
<1>4. Followed(N, wire, sess, mbox')
  <2>1. Followed(N, wire, sess, mbox)
    BY <1>1 DEF InStep
  <2>2. ASSUME NEW i \in 0 .. Len(wire), NEW j \in 0 .. Len(wire), i <= j,
               NEW v \in Range(N[i]) \ Range(N[j])
        PROVE  v \notin mbox' /\ \A k \in j .. Len(wire) : v \notin Range(N[k])
    <3>1. v \notin mbox /\ \A k \in j .. Len(wire) : v \notin Range(N[k])
      BY <2>1, <2>2 DEF Followed
    <3>2. v \in 1 .. nextUid - 1
      BY <1>3
    <3> QED BY <3>1, <3>2
  <2> QED BY <2>1, <2>2 DEF Followed
<1>5. Followed(N, wire', sess', mbox')
  BY <1>4
<1>6. Given(N, wire)'
  <2>0. nextUid \in Int /\ nextUid' \in Int /\ nextUid <= nextUid'
    BY <1>2
  <2>1. 1 .. nextUid - 1 \subseteq 1 .. nextUid' - 1
    BY <2>0, Wider
  <2>2. \A k \in 0 .. Len(wire') : Range(N[k]) \subseteq 1 .. nextUid' - 1
    BY <1>3, <2>1
  <2> QED BY <2>2 DEF Given
<1>7. Departed(N, wire, mbox)'
  <2> SUFFICES ASSUME ~Adrift', NEW u \in gone'
               PROVE  u \notin mbox' /\ \A k \in 0 .. Len(wire') : u \notin Range(N[k])
    BY DEF Departed
  <2>1. u \in gone /\ ~Adrift
    BY ClientStays DEF Client
  <2>2. u \notin mbox /\ \A k \in 0 .. Len(wire) : u \notin Range(N[k])
    BY <1>1, <2>1 DEF InStep, Departed
  <2>3. u \in 1 .. nextUid - 1
    BY <1>2, <2>1
  <2> QED BY <2>2, <2>3
<1>8. Agreed(N[0])' /\ Reached(N[0])'
  <2>1. Agreed(N[0]) /\ Reached(N[0])
    BY <1>1 DEF InStep
  <2> QED BY <2>1, ClientStays
<1>9. InStep(N, wire, sess, mbox)'
  BY <1>5, <1>6, <1>7, <1>8 DEF InStep
<1> QED BY <1>9

LEMMA AscendingSeq ==
  ASSUME NEW S, IsFiniteSet(S), S \subseteq Int, NEW s \in Ascending(S)
  PROVE  s \in Seq(S) /\ IsInjective(s) /\ Range(s) = S
<1>1. /\ Cardinality(S) \in Nat /\ s \in [1 .. Cardinality(S) -> S] /\ Range(s) = S
      /\ \A i, j \in DOMAIN s : i < j => s[i] < s[j]
  BY FS_CardinalityType DEF Ascending
<1>2. s \in Seq(S)
  BY <1>1, SeqDef
<1>3. ASSUME NEW i \in DOMAIN s, NEW j \in DOMAIN s, s[i] = s[j] PROVE i = j
  <2>0. i \in 1 .. Cardinality(S) /\ j \in 1 .. Cardinality(S)
    BY <1>1
  <2>1. s[i] \in S /\ s[j] \in S /\ i \in Int /\ j \in Int
    <3>1. s[i] \in S /\ s[j] \in S
      BY <1>1, <2>0
    <3>2. i \in Int /\ j \in Int
      BY <1>1, <2>0
    <3> QED BY <3>1, <3>2
  <2>a. s[i] \in Int
    BY <2>1
  <2>b. s[i] = s[j]
    BY <1>3
  <2> DEFINE a == s[i]
             b == s[j]
  <2>2. ~(s[i] < s[j]) /\ ~(s[j] < s[i])
    <3>1. a \in Int /\ a = b
      BY <2>a, <2>b
    <3> HIDE DEF a, b
    <3>2. ~(a < b) /\ ~(b < a)
      BY <3>1
    <3> QED BY <3>2 DEF a, b
  <2>3. ~(i < j) /\ ~(j < i)
    BY <1>1, <2>2
  <2> QED BY <2>1, <2>3
<1> QED BY <1>1, <1>2, <1>3 DEF IsInjective

(***************************************************************************)
(* The server and its other clients.                                       *)
(***************************************************************************)
LEMMA DeliverKeeps ==
  ASSUME Bounds, Numbered, Deliver
  PROVE  Numbered'
<1> USE DEF Deliver, clientVars, ghosts
<1>1. Typed /\ nextUid \in Int /\ nextUid \in Uids /\ mbox \subseteq 1 .. nextUid - 1
  BY DEF Numbered, Typed, TypeOK
<1>2. nextUid' = nextUid + 1 /\ nextUid \in 1 .. MaxUid /\ MaxUid \in Nat
  BY DEF Uids, Bounds
<1>3. Typed'
  <2>1. nextUid' \in 1 .. MaxUid + 1
    BY <1>1, <1>2
  <2>2. /\ mbox' \subseteq 1 .. nextUid' - 1
        /\ \A u \in DOMAIN msn : u \in 1 .. nextUid' - 1
    BY <1>1, <1>2 DEF Typed
  <2>3. \A k \in DOMAIN wire : wire[k].uid < nextUid'
    <3> TAKE k \in DOMAIN wire
    <3>1. wire \in Seq(Lines) /\ wire[k].uid < nextUid
      BY <1>1 DEF Typed
    <3>2. wire[k] \in Lines
      BY <3>1, SeqParts
    <3>3. wire[k].uid \in Int
      BY <3>2 DEF Lines
    <3> QED BY <1>1, <1>2, <3>1, <3>3
  <2> QED BY <1>1, <2>1, <2>2, <2>3 DEF Typed, TypeOK
<1>4. Protocol' /\ Found' /\ Complete'
  BY DEF Numbered, Protocol, Greeted, Untagged, Tagged, Exchange, Found, Complete, Coming, Filled
<1>5. (\E N : InStep(N, wire, sess, mbox))'
  <2>1. mbox' \cap 1 .. nextUid - 1 \subseteq mbox /\ nextUid' >= nextUid /\ nextUid' \in Int
    BY <1>1, <1>2
  <2>2. UNCHANGED <<wire, sess>> /\ UNCHANGED Client /\ Marked
    BY DEF Client, Marked
  <2> QED BY <2>1, <2>2, NothingSent
<1> QED BY <1>3, <1>4, <1>5 DEF Numbered

LEMMA OtherClientExpungesKeeps ==
  ASSUME Numbered, NEW u, OtherClientExpunges(u)
  PROVE  Numbered'
<1> USE DEF OtherClientExpunges, clientVars, ghosts
<1>1. Typed' /\ nextUid \in Int
  BY DEF Numbered, Typed, TypeOK
<1>2. Protocol' /\ Found' /\ Complete'
  BY DEF Numbered, Protocol, Greeted, Untagged, Tagged, Exchange, Found, Complete, Coming, Filled
<1>3. (\E N : InStep(N, wire, sess, mbox))'
  <2>1. mbox' \cap 1 .. nextUid - 1 \subseteq mbox /\ nextUid' >= nextUid /\ nextUid' \in Int
    BY <1>1
  <2>2. UNCHANGED <<wire, sess>> /\ UNCHANGED Client /\ Marked
    BY DEF Client, Marked
  <2> QED BY <2>1, <2>2, NothingSent
<1> QED BY <1>1, <1>2, <1>3 DEF Numbered

\* An untagged line while a command is in progress.
LEMMA UntaggedKeeps ==
  ASSUME Numbered, NEW l \in Lines, NEW t \in Seq(Uids), IsInjective(t), Tells(l, sess, t),
         Renumbers(sess, t, mbox), ~Tagged(l), l.kind # "+", cur # "none",
         wire' = Append(wire, l), sess' = t, UNCHANGED <<mbox, nextUid, cur, sent, idle, ghosts>>,
         UNCHANGED Client,
         l.uid < nextUid, l.kind = "EXPUNGE" => ~qresync, l.kind = "VANISHED" => qresync
  PROVE  Numbered'
<1>0. l.kind # "NO" /\ UNCHANGED <<raced, short, qresync>> /\ Marked
  BY DEF Tagged, ghosts, Marked
<1>1. Typed
  BY DEF Numbered
<1>2. /\ wire' \in Seq(Lines)
      /\ \A k \in DOMAIN wire' :
           /\ wire'[k].uid < nextUid'
           /\ wire'[k].kind = "EXPUNGE" => ~qresync'
           /\ wire'[k].kind = "VANISHED" => qresync'
           /\ wire'[k].kind = "NO" => short'
      /\ Untagged => Untagged'
      /\ \A i : Coming(i) => Coming(i)'
      /\ l.kind # "+" /\ sent' = sent /\ pc' = pc /\ Greeted => Greeted'
  BY <1>0, <1>1, LineTyped
<1>3. Typed'
  <2>1. Range(sess') \subseteq Uids
    BY SeqParts DEF Range
  <2> QED BY <1>0, <1>1, <1>2, <2>1 DEF Typed, TypeOK, Client
<1>4. Protocol'
  <2>1. Greeted'
    BY <1>2 DEF Numbered, Protocol, Client
  <2> QED BY <1>0, <1>2, <2>1 DEF Numbered, Protocol, Exchange, Client
<1>5. Found'
  BY <1>0, ClientStays DEF Numbered
<1>6. Complete'
  BY <1>0, <1>2, CompleteStays DEF Numbered, Client
<1>7. (\E N : InStep(N, wire, sess, mbox))'
  BY <1>0, ServerTells
<1> QED BY <1>3, <1>4, <1>5, <1>6, <1>7 DEF Numbered

LEMMA SendExistsKeeps ==
  ASSUME Bounds, Numbered, SendExists
  PROVE  Numbered'
<1> DEFINE S == {u \in mbox : \A i \in DOMAIN sess : sess[i] < u}
<1>1. Typed /\ mbox \subseteq Uids /\ sess \in Seq(Uids) /\ IsInjective(sess) /\ nextUid \in 1 .. MaxUid + 1
  BY DEF Numbered, Typed, TypeOK
<1>2. IsFiniteSet(S) /\ S \subseteq Int /\ S \subseteq Uids
  <2>1. S \subseteq Uids
    BY <1>1
  <2> HIDE DEF S
  <2>2. IsFiniteSet(S)
    BY <2>1, SmallUids, FS_Subset
  <2>3. Uids \subseteq Int
    BY DEF Uids
  <2> QED BY <2>1, <2>2, <2>3
<1>3. PICK new \in Ascending(S) :
        sess' = sess \o new /\ wire' = Append(wire, Line("EXISTS", Len(sess'), NULL))
  BY DEF SendExists
<1>4. new \in Seq(S) /\ IsInjective(new) /\ Range(new) = S
  BY <1>2, AscendingSeq
<1> DEFINE t == sess \o new
           l == Line("EXISTS", Len(t), NULL)
<1>5. new \in Seq(Uids)
  BY <1>2, <1>4, SeqMonotonic
<1>6. /\ t \in Seq(Uids) /\ Len(t) = Len(sess) + Len(new)
      /\ \A i \in 1 .. Len(t) : t[i] = IF i <= Len(sess) THEN sess[i] ELSE new[i - Len(sess)]
      /\ Len(sess) \in Nat /\ Len(new) \in Nat
      /\ DOMAIN sess = 1 .. Len(sess) /\ DOMAIN new = 1 .. Len(new) /\ DOMAIN t = 1 .. Len(t)
  <2>1. t \in Seq(Uids)
    BY <1>1, <1>5, ConcatProperties
  <2> HIDE DEF t
  <2>2. /\ Len(sess) \in Nat /\ Len(new) \in Nat
        /\ DOMAIN sess = 1 .. Len(sess) /\ DOMAIN new = 1 .. Len(new) /\ DOMAIN t = 1 .. Len(t)
    BY <1>1, <1>5, <2>1, SeqParts
  <2> QED BY <1>1, <1>5, <2>1, <2>2, ConcatProperties DEF t
<1> HIDE DEF t
<1>7. \A i \in 1 .. Len(t) : \/ i \in DOMAIN sess /\ t[i] = sess[i]
                             \/ i - Len(sess) \in DOMAIN new /\ t[i] = new[i - Len(sess)] /\ i > Len(sess)
  BY <1>6
<1>8. /\ \A i \in DOMAIN sess : i \in DOMAIN t /\ t[i] = sess[i]
      /\ \A i \in DOMAIN new : i + Len(sess) \in DOMAIN t /\ t[i + Len(sess)] = new[i]
  BY <1>6
<1>9. \A i \in DOMAIN sess, j \in DOMAIN new : sess[i] # new[j]
  <2> TAKE i \in DOMAIN sess, j \in DOMAIN new
  <2>1. new[j] \in S
    BY <1>4, <1>6, SeqParts
  <2>2. sess[i] < new[j]
    BY <2>1
  <2>3. sess[i] \in Uids /\ new[j] \in Uids
    <3>1. sess[i] \in Uids
      BY <1>1, <1>6, SeqParts
    <3> QED BY <1>2, <2>1, <3>1
  <2>4. sess[i] \in Int /\ new[j] \in Int
    BY <2>3 DEF Uids
  <2> QED BY <2>2, <2>4
<1>10. IsInjective(t)
  <2> SUFFICES ASSUME NEW i \in 1 .. Len(t), NEW j \in 1 .. Len(t), t[i] = t[j] PROVE i = j
    BY <1>6 DEF IsInjective
  <2>1. CASE i \in DOMAIN sess /\ t[i] = sess[i] /\ j \in DOMAIN sess /\ t[j] = sess[j]
    BY <1>1, <2>1 DEF IsInjective
  <2>2. CASE /\ i - Len(sess) \in DOMAIN new /\ t[i] = new[i - Len(sess)]
             /\ j - Len(sess) \in DOMAIN new /\ t[j] = new[j - Len(sess)]
    <3>1. i - Len(sess) = j - Len(sess)
      BY <1>4, <2>2 DEF IsInjective
    <3>2. i \in Int /\ j \in Int /\ Len(sess) \in Int
      BY <1>6
    <3> QED BY <3>1, <3>2
  <2> QED BY <1>7, <1>9, <2>1, <2>2
<1>11. Len(t) <= MaxUid /\ Len(t) \in Nat /\ MaxUid \in Nat
  BY <1>6, <1>10, FewNumbers DEF Bounds
<1>12. l \in Lines /\ ~Tagged(l) /\ l.kind # "+" /\ l.uid < nextUid /\ l.kind = "EXISTS" /\ l.n = Len(t)
  BY <1>1, <1>11 DEF Lines, Line, Kinds, Tagged, NULL
<1>13. Tells(l, sess, t)
  BY <1>8, <1>12 DEF Tells
<1>14. Renumbers(sess, t, mbox)
  <2>1. \A v \in Range(t) : v \in Range(sess) \/ v \in mbox
    <3> TAKE v \in Range(t)
    <3>1. PICK i \in 1 .. Len(t) : v = t[i]
      BY <1>6 DEF Range
    <3>2. CASE i \in DOMAIN sess /\ t[i] = sess[i]
      BY <3>1, <3>2 DEF Range
    <3>3. CASE i - Len(sess) \in DOMAIN new /\ t[i] = new[i - Len(sess)]
      <4>1. v \in S
        BY <1>4, <3>1, <3>3 DEF Range
      <4> QED BY <4>1
    <3> QED BY <1>7, <3>2, <3>3
  <2>2. \A v \in Range(sess) : v \in Range(t)
    BY <1>8 DEF Range
  <2> QED BY <2>1, <2>2 DEF Renumbers
<1> HIDE DEF l
<1>15. /\ wire' = Append(wire, l) /\ sess' = t /\ cur # "none"
       /\ UNCHANGED <<mbox, nextUid, cur, sent, idle, ghosts>> /\ UNCHANGED Client
  BY <1>3 DEF SendExists, Client, clientVars, ghosts, t, l
<1>16. l.kind # "EXPUNGE" /\ l.kind # "VANISHED"
  BY <1>12
<1> QED BY <1>6, <1>10, <1>12, <1>13, <1>14, <1>15, <1>16, UntaggedKeeps

\* A line that tells no new numbering.
LEMMA SameNumbering ==
  ASSUME NEW s, NEW b
  PROVE  /\ Renumbers(s, s, b)
         /\ \A l : l.kind \notin {"EXISTS", "EXPUNGE", "VANISHED", "HEADER", "FLAGS"} => Tells(l, s, s)
BY DEF Renumbers, Tells

LEMMA RepeatExistsKeeps ==
  ASSUME Bounds, Numbered, RepeatExists
  PROVE  Numbered'
<1> DEFINE l == Line("EXISTS", Len(sess), NULL)
<1>1. Typed /\ sess \in Seq(Uids) /\ IsInjective(sess) /\ nextUid \in 1 .. MaxUid + 1
  BY DEF Numbered, Typed, TypeOK
<1>2. Len(sess) <= MaxUid /\ Len(sess) \in Nat /\ MaxUid \in Nat
  BY <1>1, FewNumbers, SeqParts DEF Bounds
<1>3. l \in Lines /\ ~Tagged(l) /\ l.kind # "+" /\ l.uid < nextUid /\ l.kind = "EXISTS" /\ l.n = Len(sess)
  BY <1>1, <1>2 DEF Lines, Line, Kinds, Tagged, NULL
<1>4. Tells(l, sess, sess)
  BY <1>3 DEF Tells
<1> HIDE DEF l
<1>5. /\ wire' = Append(wire, l) /\ sess' = sess /\ cur # "none"
      /\ UNCHANGED <<mbox, nextUid, cur, sent, idle, ghosts>> /\ UNCHANGED Client
  BY DEF RepeatExists, Client, clientVars, ghosts, serverVars, l
<1>6. l.kind # "EXPUNGE" /\ l.kind # "VANISHED"
  BY <1>3
<1> QED BY <1>1, <1>3, <1>4, <1>5, <1>6, SameNumbering, UntaggedKeeps

\* A numbered message has a UID that was given out.
LEMMA GivenUid ==
  ASSUME Numbered, NEW i \in DOMAIN sess
  PROVE  sess[i] < nextUid /\ 0 < nextUid
<1>1. Typed /\ sess \in Seq(Uids) /\ \E N : InStep(N, wire, sess, mbox)
  BY DEF Numbered, Typed
<1>2. PICK N : InStep(N, wire, sess, mbox)
  BY <1>1
<1>3. Len(wire) \in Nat /\ nextUid \in Int
  BY <1>1, SeqParts DEF Typed, TypeOK
<1>4. sess = N[Len(wire)] /\ Len(wire) \in 0 .. Len(wire)
  BY <1>2, <1>3 DEF InStep, Followed
<1>5. Range(sess) \subseteq 1 .. nextUid - 1
  BY <1>2, <1>4 DEF InStep, Given
<1>6. sess[i] \in 1 .. nextUid - 1
  BY <1>1, <1>5 DEF Range
<1> QED BY <1>3, <1>6

LEMMA SendFlagsKeeps ==
  ASSUME Bounds, Numbered, NEW i, SendFlags(i)
  PROVE  Numbered'
<1> DEFINE l == Line("FLAGS", i, sess[i])
<1>1. /\ Typed /\ sess \in Seq(Uids) /\ IsInjective(sess) /\ i \in DOMAIN sess
      /\ \E N : InStep(N, wire, sess, mbox)
  BY DEF Numbered, Typed, SendFlags
<1>2. /\ Len(sess) <= MaxUid /\ Len(sess) \in Nat /\ MaxUid \in Nat /\ i \in 1 .. Len(sess)
      /\ sess[i] \in Uids
  BY <1>1, FewNumbers, SeqParts DEF Bounds
<1>3. sess[i] < nextUid
  BY <1>1, GivenUid
<1>4. /\ l \in Lines /\ ~Tagged(l) /\ l.kind # "+" /\ l.uid < nextUid /\ l.kind = "FLAGS"
      /\ l.n = i /\ l.uid = sess[i]
  BY <1>2, <1>3 DEF Lines, Line, Kinds, Tagged, Uids
<1>5. Tells(l, sess, sess)
  BY <1>1, <1>4 DEF Tells
<1> HIDE DEF l
<1>6. /\ wire' = Append(wire, l) /\ sess' = sess /\ cur # "none"
      /\ UNCHANGED <<mbox, nextUid, cur, sent, idle, ghosts>> /\ UNCHANGED Client
  BY DEF SendFlags, Client, clientVars, ghosts, serverVars, l
<1>7. l.kind # "EXPUNGE" /\ l.kind # "VANISHED"
  BY <1>4
<1> QED BY <1>1, <1>4, <1>5, <1>6, <1>7, SameNumbering, UntaggedKeeps

LEMMA SendExpungeKeeps ==
  ASSUME Bounds, Numbered, NEW i, SendExpunge(i)
  PROVE  Numbered'
<1> DEFINE l == IF qresync THEN Line("VANISHED", 0, sess[i]) ELSE Line("EXPUNGE", i, NULL)
           t == RemoveAt(sess, i)
<1>1. /\ Typed /\ sess \in Seq(Uids) /\ IsInjective(sess) /\ i \in DOMAIN sess /\ sess[i] \notin mbox
      /\ \E N : InStep(N, wire, sess, mbox)
  BY DEF Numbered, Typed, SendExpunge
<1>2. /\ Len(sess) <= MaxUid /\ Len(sess) \in Nat /\ MaxUid \in Nat /\ i \in 1 .. Len(sess)
      /\ sess[i] \in Uids
  BY <1>1, FewNumbers, SeqParts DEF Bounds
<1>3. sess[i] < nextUid /\ 0 < nextUid
  BY <1>1, GivenUid
<1>4. t \in Seq(Uids) /\ IsInjective(t) /\ Renumbers(sess, t, mbox)
  BY <1>1, RemovedAt, RemovedFrom DEF Renumbers
<1>5. /\ l \in Lines /\ ~Tagged(l) /\ l.kind # "+" /\ l.uid < nextUid
      /\ l.kind = "EXPUNGE" => ~qresync /\ l.n = i
      /\ l.kind = "VANISHED" => qresync /\ l.uid = sess[i]
      /\ l.kind \in {"EXPUNGE", "VANISHED"}
  <2>1. CASE qresync
    BY <1>2, <1>3, <2>1 DEF Lines, Line, Kinds, Tagged, Uids
  <2>2. CASE ~qresync
    BY <1>2, <1>3, <2>2 DEF Lines, Line, Kinds, Tagged, Uids, NULL
  <2> QED BY <2>1, <2>2
<1>6. Tells(l, sess, t)
  BY <1>1, <1>5 DEF Tells
<1>7. /\ wire' = Append(wire, l) /\ sess' = t /\ cur # "none"
      /\ UNCHANGED <<mbox, nextUid, cur, sent, idle, ghosts>> /\ UNCHANGED Client
  BY DEF SendExpunge, MayExpunge, Client, clientVars, ghosts
<1> HIDE DEF l, t
<1> QED BY <1>1, <1>4, <1>5, <1>6, <1>7, UntaggedKeeps

(***************************************************************************)
(* The server's commands.                                                  *)
(***************************************************************************)
LEMMA Queues ==
  ASSUME NEW c, NEW d
  PROVE  /\ Head(<<c>>) = c /\ Tail(<<c>>) = <<>> /\ <<c>> # <<>>
         /\ Head(<<d, c>>) = d /\ Tail(<<d, c>>) = <<c>> /\ <<d, c>> # <<>>
         /\ <<>> \o (<<>> \o <<c>>) = <<c>>
         /\ <<>> \o (<<d>> \o <<c>>) = <<d, c>>
<1> DEFINE S == {c, d}
<1>1. <<c>> \in Seq(S) /\ <<d>> \in Seq(S) /\ <<d, c>> \in Seq(S) /\ <<>> \in Seq(S)
  OBVIOUS
<1>2. Head(<<c>>) = c /\ <<c>> # <<>> /\ Head(<<d, c>>) = d /\ <<d, c>> # <<>>
  OBVIOUS
<1>3. Tail(<<c>>) = <<>>
  OBVIOUS
<1>4. Tail(<<d, c>>) = <<c>>
  OBVIOUS
<1>5. <<>> \o <<c>> = <<c>> /\ <<>> \o <<d, c>> = <<d, c>>
  BY <1>1, ConcatEmptySeq
<1>6. <<d>> \o <<c>> = <<d, c>>
  <2>1. Len(<<d>>) = 1 /\ <<d>>[1] = d
    OBVIOUS
  <2>2. Len(<<c>>) = 1 /\ <<c>>[1] = c
    OBVIOUS
  <2>3. Len(<<d, c>>) = 2 /\ <<d, c>>[1] = d /\ <<d, c>>[2] = c
    OBVIOUS
  <2> DEFINE p == <<d>>
             q == <<c>>
             r == <<d, c>>
  <2>4. p \in Seq(S) /\ q \in Seq(S) /\ r \in Seq(S)
    BY <1>1
  <2> HIDE DEF S, p, q, r
  <2>5. p \o q \in Seq(S) /\ Len(p \o q) = 2 /\ (p \o q)[1] = d /\ (p \o q)[2] = c
    BY <2>1, <2>2, <2>4, ConcatProperties DEF p, q
  <2>6. \A k \in 1 .. 2 : (p \o q)[k] = r[k]
    BY <2>3, <2>5 DEF r
  <2>7. p \o q = r
    BY <2>3, <2>4, <2>5, <2>6, SeqEqual DEF r
  <2> QED BY <2>7 DEF p, q, r
<1> QED BY <1>2, <1>3, <1>4, <1>5, <1>6

LEMMA LinesTyped ==
  ASSUME Typed, NEW ls \in Seq(Lines), wire' = wire \o ls, UNCHANGED <<nextUid, qresync>>,
         short => short',
         \A k \in 1 .. Len(ls) :
           /\ ls[k].uid < nextUid /\ ls[k].kind \notin {"EXPUNGE", "VANISHED", "+"}
           /\ ls[k].kind = "NO" => short'
  PROVE  /\ wire' \in Seq(Lines)
         /\ \A k \in DOMAIN wire' :
              /\ wire'[k].uid < nextUid'
              /\ wire'[k].kind = "EXPUNGE" => ~qresync'
              /\ wire'[k].kind = "VANISHED" => qresync'
              /\ wire'[k].kind = "NO" => short'
         /\ Len(wire') = Len(wire) + Len(ls)
         /\ \A k \in DOMAIN wire : k \in DOMAIN wire' /\ wire'[k] = wire[k]
         /\ \A k \in 1 .. Len(ls) : Len(wire) + k \in DOMAIN wire' /\ wire'[Len(wire) + k] = ls[k]
         /\ \A k \in DOMAIN wire' : \/ k \in DOMAIN wire /\ wire'[k] = wire[k]
                                    \/ k - Len(wire) \in 1 .. Len(ls) /\ wire'[k] = ls[k - Len(wire)]
<1>1. /\ wire \in Seq(Lines) /\ Len(wire) \in Nat /\ DOMAIN wire = 1 .. Len(wire)
      /\ Len(ls) \in Nat
  BY SeqParts DEF Typed
<1>2. /\ wire' \in Seq(Lines) /\ Len(wire') = Len(wire) + Len(ls)
      /\ \A k \in 1 .. Len(wire) + Len(ls) :
           wire'[k] = IF k <= Len(wire) THEN wire[k] ELSE ls[k - Len(wire)]
  BY <1>1, ConcatProperties
<1>3. DOMAIN wire' = 1 .. Len(wire) + Len(ls)
  BY <1>2, SeqParts
<1>4. \A k \in DOMAIN wire : k \in DOMAIN wire' /\ wire'[k] = wire[k]
  BY <1>1, <1>2, <1>3
<1>5. ASSUME NEW k \in 1 .. Len(ls)
      PROVE  Len(wire) + k \in DOMAIN wire' /\ wire'[Len(wire) + k] = ls[k]
  <2>1. Len(wire) + k \in 1 .. Len(wire) + Len(ls) /\ ~(Len(wire) + k <= Len(wire))
        /\ (Len(wire) + k) - Len(wire) = k
    BY <1>1
  <2> QED BY <1>2, <1>3, <2>1
<1>6. ASSUME NEW k \in DOMAIN wire'
      PROVE  \/ k \in DOMAIN wire /\ wire'[k] = wire[k]
             \/ k - Len(wire) \in 1 .. Len(ls) /\ wire'[k] = ls[k - Len(wire)]
  <2>1. k \in DOMAIN wire \/ (k - Len(wire) \in 1 .. Len(ls) /\ ~(k <= Len(wire)))
    BY <1>1, <1>3
  <2> QED BY <1>2, <1>3, <1>4, <2>1
<1>7. ASSUME NEW k \in DOMAIN wire'
      PROVE  /\ wire'[k].uid < nextUid'
             /\ wire'[k].kind = "EXPUNGE" => ~qresync'
             /\ wire'[k].kind = "VANISHED" => qresync'
             /\ wire'[k].kind = "NO" => short'
  <2>1. CASE k \in DOMAIN wire /\ wire'[k] = wire[k]
    BY <2>1 DEF Typed
  <2>2. CASE k - Len(wire) \in 1 .. Len(ls) /\ wire'[k] = ls[k - Len(wire)]
    BY <2>2
  <2> QED BY <1>6, <2>1, <2>2
<1> QED BY <1>2, <1>4, <1>5, <1>6, <1>7

Idling == Command("IDLE", 0, 0)
Done == Command("DONE", 0, 0)
AnyCommand == Command("ANY", 0, 0)
Fetch == Command("FETCH", range.begin, range.upto)

LEMMA SentIs ==
  ASSUME Numbered, sent # <<>>
  PROVE  /\ Untagged
         /\ \/ pc = "enter" /\ sent = <<Idling>> /\ cur = "none"
            \/ pc = "exec" /\ sent = <<Done, AnyCommand>> /\ cur = "IDLE"
            \/ pc = "exec" /\ sent = <<AnyCommand>> /\ cur = "none"
            \/ pc = "fetch" /\ sent = <<Done, Fetch>> /\ cur = "IDLE"
            \/ pc = "fetch" /\ sent = <<Fetch>> /\ cur = "none"
<1>1. pc \in {"ready", "enter", "poll", "exec", "fetch"} /\ Protocol
  BY DEF Numbered, Typed, TypeOK
<1>2. pc \in {"enter", "exec", "fetch"}
  BY <1>1 DEF Protocol
<1>3. CASE pc = "enter"
  BY <1>1, <1>3 DEF Protocol, Idling
<1>4. CASE pc = "exec"
  <2>1. Exchange(AnyCommand)
    BY <1>1, <1>4 DEF Protocol, AnyCommand
  <2> QED BY <1>4, <2>1 DEF Exchange, Done
<1>5. CASE pc = "fetch"
  <2>1. Exchange(Fetch)
    BY <1>1, <1>5 DEF Protocol, Fetch
  <2> QED BY <1>5, <2>1 DEF Exchange, Done
<1> QED BY <1>2, <1>3, <1>4, <1>5

LEMMA Verbs ==
  /\ Idling.verb = "IDLE" /\ Done.verb = "DONE" /\ AnyCommand.verb = "ANY" /\ Fetch.verb = "FETCH"
  /\ Fetch.b = range.begin /\ Fetch.e = range.upto
BY DEF Idling, Done, AnyCommand, Fetch, Command

\* What the server reads when.
LEMMA ReadsCommand ==
  ASSUME Numbered, sent # <<>>
  PROVE  /\ Untagged
         /\ \/ pc = "enter" /\ Head(sent) = Idling /\ cur = "none" /\ Tail(sent) = <<>>
            \/ pc = "exec" /\ Head(sent) = Done /\ cur = "IDLE" /\ Tail(sent) = <<AnyCommand>>
            \/ pc = "exec" /\ Head(sent) = AnyCommand /\ cur = "none" /\ Tail(sent) = <<>>
            \/ pc = "fetch" /\ Head(sent) = Done /\ cur = "IDLE" /\ Tail(sent) = <<Fetch>>
            \/ pc = "fetch" /\ Head(sent) = Fetch /\ cur = "none" /\ Tail(sent) = <<>>
<1>1. /\ Untagged
      /\ \/ pc = "enter" /\ sent = <<Idling>> /\ cur = "none"
         \/ pc = "exec" /\ sent = <<Done, AnyCommand>> /\ cur = "IDLE"
         \/ pc = "exec" /\ sent = <<AnyCommand>> /\ cur = "none"
         \/ pc = "fetch" /\ sent = <<Done, Fetch>> /\ cur = "IDLE"
         \/ pc = "fetch" /\ sent = <<Fetch>> /\ cur = "none"
  BY SentIs
<1>2. \A c, d : /\ Head(<<c>>) = c /\ Tail(<<c>>) = <<>>
                /\ Head(<<d, c>>) = d /\ Tail(<<d, c>>) = <<c>>
  BY Queues
<1> QED BY <1>1, <1>2

\* DONE and a command that takes no lines.
LEMMA QuietReadKeeps ==
  ASSUME Numbered, sent # <<>>, sent' = Tail(sent),
         \/ Head(sent).verb = "DONE" /\ cur' = "none"
         \/ Head(sent).verb = "ANY" /\ cur' = "ANY",
         UNCHANGED <<wire, short>>, UNCHANGED <<serverVars, clientVars, reopen, idle, pc, range, qresync, raced>>
  PROVE  Numbered'
<1> USE DEF serverVars, clientVars
<1>1. \/ pc = "exec" /\ cur = "IDLE" /\ sent' = <<AnyCommand>> /\ cur' = "none"
      \/ pc = "exec" /\ cur = "none" /\ sent' = <<>> /\ cur' = "ANY"
      \/ pc = "fetch" /\ cur = "IDLE" /\ sent' = <<Fetch>> /\ cur' = "none"
  BY ReadsCommand, Verbs
<1>2. Untagged /\ Untagged' /\ Typed
  BY ReadsCommand DEF Untagged, Tagged, Numbered
<1>3. Typed'
  <2>1. sent' \in Seq(Commands)
    BY <1>2, HeadTailProperties DEF Typed
  <2>2. cur' \in {"none", "IDLE", "ANY", "FETCH"}
    BY <1>1
  <2> QED BY <1>2, <2>1, <2>2 DEF Typed, TypeOK
<1>4. Greeted' /\ Found'
  BY <1>1 DEF Numbered, Protocol, Greeted, Found
<1>5. pc' = pc /\ idle' = idle /\ range' = range /\ Protocol
  BY DEF Numbered
<1>6. Protocol'
  <2>1. CASE pc = "exec"
    <3>1. Exchange(AnyCommand)'
      BY <1>1, <1>2, <2>1, Verbs DEF Exchange
    <3> QED BY <1>4, <1>5, <2>1, <3>1 DEF Protocol, AnyCommand
  <2>2. CASE pc = "fetch"
    <3>1. Exchange(Fetch)'
      BY <1>1, <1>2, <2>2 DEF Exchange, Fetch
    <3> QED BY <1>4, <1>5, <2>2, <3>1 DEF Protocol, Fetch
  <2> QED BY <1>1, <2>1, <2>2
<1>7. Complete'
  <2>1. ASSUME pc = "fetch", NEW i, Coming(i) PROVE Coming(i)'
    <3>1. sent = <<Done, Fetch>> /\ sent' = <<Fetch>>
      BY <1>1, <2>1, SentIs
    <3>2. CASE \E k \in DOMAIN wire : wire[k].kind = "HEADER" /\ wire[k].n = i
      BY <3>2 DEF Coming
    <3>3. CASE \E k \in DOMAIN sent : sent[k].verb = "FETCH" /\ i \in sent[k].b .. sent[k].e
      <4>1. i \in Fetch.b .. Fetch.e
        BY <3>1, <3>3, Verbs
      <4>2. 1 \in DOMAIN sent' /\ sent'[1] = Fetch
        BY <3>1
      <4> QED BY <4>1, <4>2, Verbs DEF Coming
    <3> QED BY <2>1, <3>2, <3>3 DEF Coming
  <2>2. UNCHANGED <<index, pc, range>> /\ Marked /\ Complete
    BY DEF Marked, Numbered
  <2> QED BY <2>1, <2>2, CompleteStays
<1>8. (\E N : InStep(N, wire, sess, mbox))'
  <2>1. UNCHANGED <<wire, sess>> /\ UNCHANGED Client /\ Marked /\ nextUid' = nextUid /\ mbox' = mbox
    BY DEF Client, Marked
  <2>2. nextUid' >= nextUid /\ nextUid' \in Int /\ mbox' \cap 1 .. nextUid - 1 \subseteq mbox
    BY <1>2, <2>1 DEF Typed, TypeOK
  <2> QED BY <2>1, <2>2, NothingSent
<1> QED BY <1>3, <1>4, <1>6, <1>7, <1>8 DEF Numbered

\* IDLE is answered with "+".
LEMMA IdleReadKeeps ==
  ASSUME Bounds, Numbered, sent # <<>>, sent' = Tail(sent), Head(sent).verb = "IDLE", cur' = "IDLE",
         wire' = Append(wire, Line("+", 0, NULL)), UNCHANGED short,
         UNCHANGED <<serverVars, clientVars, reopen, idle, pc, range, qresync, raced>>
  PROVE  Numbered'
<1> USE DEF serverVars, clientVars
<1> DEFINE l == Line("+", 0, NULL)
<1>1. /\ Untagged /\ pc = "enter" /\ cur = "none" /\ sent' = <<>> /\ Typed
      /\ sent = <<Idling>>
  BY ReadsCommand, Verbs, SentIs DEF Numbered
<1>2. l \in Lines /\ ~Tagged(l) /\ l.kind = "+" /\ l.uid = 0 /\ MaxUid \in Nat
  BY DEF Lines, Line, Kinds, Tagged, NULL, Bounds
<1>3. /\ wire \in Seq(Lines) /\ Len(wire) \in Nat /\ DOMAIN wire = 1 .. Len(wire)
      /\ nextUid \in 1 .. MaxUid + 1
  BY <1>1, SeqParts DEF Typed, TypeOK
<1> HIDE DEF l
<1>4. l.uid < nextUid
  BY <1>2, <1>3
<1>5. wire' = Append(wire, l)
  BY DEF l
<1>6. /\ wire' \in Seq(Lines)
      /\ \A k \in DOMAIN wire' :
           /\ wire'[k].uid < nextUid'
           /\ wire'[k].kind = "EXPUNGE" => ~qresync'
           /\ wire'[k].kind = "VANISHED" => qresync'
           /\ wire'[k].kind = "NO" => short'
      /\ Untagged'
  BY <1>1, <1>2, <1>4, <1>5, LineTyped
<1>7. Typed'
  <2>1. sent' \in Seq(Commands) /\ cur' \in {"none", "IDLE", "ANY", "FETCH"}
    BY <1>1, EmptySeq
  <2> QED BY <1>1, <1>6, <2>1 DEF Typed, TypeOK
<1>8. Greeted'
  <2>1. \A k \in DOMAIN wire : wire[k].kind # "+"
    <3>1. sent # <<>> /\ Greeted
      BY DEF Numbered, Protocol
    <3> QED BY <3>1 DEF Greeted
  <2>2. \A k \in DOMAIN wire' : wire'[k].kind = "+" => k = Len(wire) + 1
    <3>1. DOMAIN wire' = 1 .. Len(wire) + 1 /\ \A k \in 1 .. Len(wire) : wire'[k] = wire[k]
      BY <1>2, <1>3, <1>5, Appended
    <3>2. \A k \in DOMAIN wire' : k \in DOMAIN wire \/ k = Len(wire) + 1
      BY <1>3, <3>1
    <3> QED BY <1>3, <2>1, <3>1, <3>2
  <2> QED BY <1>1, <2>2 DEF Greeted
<1>9. Protocol'
  BY <1>1, <1>6, <1>8 DEF Numbered, Protocol
<1>10. Found' /\ Complete'
  BY <1>1 DEF Numbered, Found, Complete, Filled
<1>11. (\E N : InStep(N, wire, sess, mbox))'
  <2>1. UNCHANGED Client /\ Marked /\ UNCHANGED <<mbox, nextUid, sess>>
    BY DEF Client, Marked
  <2>2. sess \in Seq(Uids) /\ IsInjective(sess) /\ Tells(l, sess, sess) /\ Renumbers(sess, sess, mbox)
    BY <1>1, <1>2, SameNumbering DEF Typed
  <2> QED BY <1>2, <1>5, <2>1, <2>2, ServerTells
<1> QED BY <1>7, <1>9, <1>10, <1>11 DEF Numbered

\* FETCH is answered with the headers there are, after which it may be refused.
LEMMA AnswersKeep ==
  ASSUME Numbered, pc = "fetch", sent = <<Fetch>>, cur = "none", sent' = <<>>,
         NEW ls \in Seq(Lines), wire' = wire \o ls, short => short',
         \A k \in 1 .. Len(ls) :
           /\ ls[k].kind \in {"HEADER", "NO"} /\ ls[k].uid < nextUid /\ Tells(ls[k], sess, sess)
           /\ ls[k].kind = "NO" => short',
         \/ cur' = "FETCH" /\ \A k \in 1 .. Len(ls) : ls[k].kind = "HEADER"
         \/ /\ cur' = "none" /\ ls # <<>> /\ ls[Len(ls)].kind = "NO"
            /\ \A k \in 1 .. Len(ls) - 1 : ls[k].kind = "HEADER",
         ~short' => \A i \in Fetch.b .. Fetch.e :
                      \E k \in 1 .. Len(ls) : ls[k].kind = "HEADER" /\ ls[k].n = i,
         UNCHANGED <<serverVars, clientVars, reopen, idle, pc, range, qresync, raced>>,
         short' \in BOOLEAN
  PROVE  Numbered'
<1> USE DEF serverVars, clientVars
<1>1. /\ Untagged /\ Typed /\ wire \in Seq(Lines) /\ Len(wire) \in Nat /\ DOMAIN wire = 1 .. Len(wire)
      /\ Len(ls) \in Nat
  <2>1. sent # <<>>
    OBVIOUS
  <2>2. Untagged /\ Typed
    BY <2>1, SentIs DEF Numbered
  <2> QED BY <2>2, SeqParts DEF Typed
<1>2. /\ wire' \in Seq(Lines)
      /\ \A k \in DOMAIN wire' :
           /\ wire'[k].uid < nextUid'
           /\ wire'[k].kind = "EXPUNGE" => ~qresync'
           /\ wire'[k].kind = "VANISHED" => qresync'
           /\ wire'[k].kind = "NO" => short'
      /\ Len(wire') = Len(wire) + Len(ls)
      /\ \A k \in DOMAIN wire : k \in DOMAIN wire' /\ wire'[k] = wire[k]
      /\ \A k \in 1 .. Len(ls) : Len(wire) + k \in DOMAIN wire' /\ wire'[Len(wire) + k] = ls[k]
      /\ \A k \in DOMAIN wire' : \/ k \in DOMAIN wire /\ wire'[k] = wire[k]
                                 \/ k - Len(wire) \in 1 .. Len(ls) /\ wire'[k] = ls[k - Len(wire)]
  BY <1>1, LinesTyped
<1>3. DOMAIN wire' = 1 .. Len(wire')
  BY <1>2, SeqParts
<1>4. Typed'
  <2>1. sent' \in Seq(Commands) /\ cur' \in {"none", "IDLE", "ANY", "FETCH"}
    BY EmptySeq
  <2> QED BY <1>1, <1>2, <2>1 DEF Typed, TypeOK
<1>5. Greeted'
  <2>1. \A k \in DOMAIN wire : wire[k].kind # "+"
    BY DEF Numbered, Protocol, Greeted
  <2>2. \A k \in DOMAIN wire' : wire'[k].kind # "+"
    BY <1>2, <2>1
  <2> QED BY <2>2 DEF Greeted
<1>6. Exchange(Fetch)'
  <2>1. CASE cur' = "FETCH" /\ \A k \in 1 .. Len(ls) : ls[k].kind = "HEADER"
    <3>1. Untagged'
      BY <1>1, <1>2, <2>1 DEF Untagged, Tagged
    <3> QED BY <2>1, <3>1, Verbs DEF Exchange, Fetch
  <2>2. CASE /\ cur' = "none" /\ ls # <<>> /\ ls[Len(ls)].kind = "NO"
             /\ \A k \in 1 .. Len(ls) - 1 : ls[k].kind = "HEADER"
    <3>1. Len(ls) \in 1 .. Len(ls)
      BY <1>1, <2>2, SeqParts
    <3>2. wire'[Len(wire')] = ls[Len(ls)] /\ wire' # <<>>
      <4>1. Len(wire') \in Nat /\ Len(wire') # 0
        BY <1>1, <1>2, <3>1
      <4>2. wire' # <<>>
        BY <4>1, EmptySeq
      <4> QED BY <1>2, <3>1, <4>2
    <3>3. ASSUME NEW k \in 1 .. Len(wire') - 1 PROVE ~Tagged(wire'[k])
      <4>1. k \in DOMAIN wire' /\ k \in Int /\ k < Len(wire) + Len(ls)
        BY <1>1, <1>2, <1>3
      <4>2. CASE k \in DOMAIN wire /\ wire'[k] = wire[k]
        BY <1>1, <4>2 DEF Untagged
      <4>3. CASE k - Len(wire) \in 1 .. Len(ls) /\ wire'[k] = ls[k - Len(wire)]
        <5>1. k - Len(wire) \in 1 .. Len(ls) - 1
          BY <1>1, <4>1, <4>3
        <5> QED BY <2>2, <4>3, <5>1 DEF Tagged
      <4> QED BY <1>2, <4>1, <4>2, <4>3
    <3>4. Tagged(wire'[Len(wire')])
      BY <2>2, <3>2 DEF Tagged
    <3> QED BY <2>2, <3>2, <3>3, <3>4 DEF Exchange
  <2> QED BY <2>1, <2>2
<1>7. Protocol'
  <2>1. pc' = "fetch" /\ ~idle'
    BY DEF Numbered, Protocol
  <2> QED BY <1>5, <1>6, <2>1 DEF Protocol, Fetch
<1>8. Found'
  BY DEF Numbered, Found
<1>9. Complete'
  <2>1. ASSUME ~short', NEW i, Coming(i) PROVE Coming(i)'
    <3>1. CASE \E k \in DOMAIN wire : wire[k].kind = "HEADER" /\ wire[k].n = i
      BY <1>2, <3>1 DEF Coming
    <3>2. CASE \E k \in DOMAIN sent : sent[k].verb = "FETCH" /\ i \in sent[k].b .. sent[k].e
      <4>1. i \in Fetch.b .. Fetch.e
        BY <3>2
      <4>2. PICK k \in 1 .. Len(ls) : ls[k].kind = "HEADER" /\ ls[k].n = i
        BY <2>1, <4>1
      <4>3. Len(wire) + k \in DOMAIN wire' /\ wire'[Len(wire) + k] = ls[k]
        BY <1>2, <4>2
      <4>4. \E j \in DOMAIN wire' : wire'[j].kind = "HEADER" /\ wire'[j].n = i
        BY <4>2, <4>3
      <4> QED BY <4>4 DEF Coming
    <3> QED BY <2>1, <3>1, <3>2 DEF Coming
  <2>2. UNCHANGED <<index, pc, range>> /\ Marked /\ Complete
    BY DEF Marked, Numbered
  <2> QED BY <2>1, <2>2, CompleteStays
<1>10. (\E N : InStep(N, wire, sess, mbox))'
  <2>1. UNCHANGED Client /\ Marked /\ UNCHANGED <<mbox, nextUid, sess>>
    BY DEF Client, Marked
  <2> QED BY <2>1, ServerAnswers
<1> QED BY <1>4, <1>7, <1>8, <1>9, <1>10 DEF Numbered

LEMMA FetchReadKeeps ==
  ASSUME Bounds, Numbered, ServerReads, Head(sent).verb = "FETCH"
  PROVE  Numbered'
<1> DEFINE asked == {i \in Fetch.b .. Fetch.e : i <= Len(sess) /\ sess[i] \in mbox}
           lines(order) == [k \in DOMAIN order |-> Line("HEADER", order[k], sess[order[k]])]
           no == Line("NO", 0, NULL)
<1>1. /\ pc = "fetch" /\ Head(sent) = Fetch /\ cur = "none" /\ sent' = <<>> /\ sent = <<Fetch>>
      /\ sent # <<>>
  BY ReadsCommand, SentIs, Verbs DEF ServerReads
<1>2. /\ Typed /\ sess \in Seq(Uids) /\ IsInjective(sess) /\ range.begin \in Nat /\ range.upto \in Nat
      /\ range.begin >= 1
  BY <1>1 DEF Numbered, Typed
<1>3. Len(sess) <= MaxUid /\ Len(sess) \in Nat /\ MaxUid \in Nat /\ DOMAIN sess = 1 .. Len(sess)
  BY <1>2, FewNumbers, SeqParts DEF Bounds
<1>4. /\ UNCHANGED <<serverVars, clientVars, reopen, idle, pc, range, qresync, raced>>
      /\ short' = (short \/ asked # Fetch.b .. Fetch.e)
      /\ \E order \in Ascending(asked) :
           \/ cur' = "FETCH" /\ wire' = wire \o lines(order)
           \/ /\ asked # Fetch.b .. Fetch.e
              /\ wire' = (IF Fetch.e > Len(sess) THEN wire ELSE wire \o lines(order)) \o <<no>>
              /\ cur' = cur
  BY <1>1, Verbs DEF ServerReads
<1>5. asked \subseteq DOMAIN sess /\ asked \subseteq Int /\ IsFiniteSet(asked)
  <2>1. ASSUME NEW i \in asked PROVE i \in 1 .. Len(sess) /\ i \in Int
    BY <1>2, <1>3, Verbs
  <2> HIDE DEF asked
  <2>2. asked \subseteq 1 .. Len(sess) /\ asked \subseteq Int
    BY <2>1
  <2>3. IsFiniteSet(1 .. Len(sess))
    BY <1>3, FS_Interval
  <2>4. IsFiniteSet(asked)
    BY <2>2, <2>3, FS_Subset
  <2> QED BY <1>3, <2>2, <2>4
<1>6. short' \in BOOLEAN /\ (short => short') /\ (~short' => asked = Fetch.b .. Fetch.e)
  BY <1>2, <1>4 DEF Typed
<1>a. asked # Fetch.b .. Fetch.e => short'
  BY <1>4
<1> HIDE DEF asked
<1>7. PICK order \in Ascending(asked) :
        \/ cur' = "FETCH" /\ wire' = wire \o lines(order)
        \/ /\ asked # Fetch.b .. Fetch.e
           /\ wire' = (IF Fetch.e > Len(sess) THEN wire ELSE wire \o lines(order)) \o <<no>>
           /\ cur' = cur
  BY <1>4
<1>8. order \in Seq(asked) /\ Range(order) = asked
  BY <1>5, AscendingSeq
<1> DEFINE hs == lines(order)
<1>9. Len(order) \in Nat /\ DOMAIN order = 1 .. Len(order) /\ \A k \in 1 .. Len(order) : order[k] \in asked
  BY <1>8, SeqParts
<1>10. \A k \in 1 .. Len(order) :
         /\ order[k] \in DOMAIN sess /\ order[k] \in 0 .. MaxUid
         /\ sess[order[k]] \in 0 .. MaxUid /\ sess[order[k]] < nextUid
  <2> TAKE k \in 1 .. Len(order)
  <2>1. order[k] \in DOMAIN sess
    BY <1>5, <1>9
  <2>2. order[k] \in 0 .. MaxUid
    BY <1>3, <2>1
  <2>3. sess[order[k]] \in Uids
    BY <1>2, <1>3, <2>1, SeqParts
  <2>4. sess[order[k]] < nextUid
    BY <2>1, GivenUid
  <2> QED BY <2>1, <2>2, <2>3, <2>4 DEF Uids
<1>11. \A k \in 1 .. Len(order) :
         /\ hs[k] \in Lines /\ hs[k].kind = "HEADER" /\ hs[k].n = order[k]
         /\ hs[k].uid = sess[order[k]]
  BY <1>9, <1>10 DEF Line, Lines, Kinds
<1>12. hs \in [1 .. Len(order) -> Lines] /\ DOMAIN hs = 1 .. Len(order)
  BY <1>9, <1>11
<1> HIDE DEF hs
<1>13. hs \in Seq(Lines) /\ Len(hs) = Len(order)
  <2>1. hs \in Seq(Lines)
    BY <1>9, <1>12, SeqDef
  <2>2. DOMAIN hs = 1 .. Len(hs) /\ Len(hs) \in Nat
    BY <2>1, SeqParts
  <2> QED BY <1>9, <1>12, <2>1, <2>2
<1>14. \A k \in 1 .. Len(hs) : hs[k].uid < nextUid /\ Tells(hs[k], sess, sess)
  BY <1>10, <1>11, <1>13 DEF Tells
<1>15. no \in Lines /\ no.kind = "NO" /\ no.uid = 0 /\ no.uid < nextUid
  BY <1>2, <1>3 DEF Lines, Line, Kinds, NULL, Typed, TypeOK
<1> HIDE DEF no
<1>16. Tells(no, sess, sess)
  BY <1>15, SameNumbering
<1>17. CASE cur' = "FETCH" /\ wire' = wire \o hs
  <2>1. \A k \in 1 .. Len(hs) :
          /\ hs[k].kind \in {"HEADER", "NO"} /\ hs[k].uid < nextUid /\ Tells(hs[k], sess, sess)
          /\ hs[k].kind = "NO" => short'
    BY <1>11, <1>13, <1>14
  <2>2. \A k \in 1 .. Len(hs) : hs[k].kind = "HEADER"
    BY <1>11, <1>13
  <2>3. ASSUME ~short', NEW i \in Fetch.b .. Fetch.e
        PROVE  \E k \in 1 .. Len(hs) : hs[k].kind = "HEADER" /\ hs[k].n = i
    <3>1. i \in Range(order)
      BY <1>6, <1>8, <2>3
    <3>2. PICK k \in 1 .. Len(order) : order[k] = i
      BY <1>9, <3>1 DEF Range
    <3> QED BY <1>11, <1>13, <3>2
  <2> QED BY <1>1, <1>4, <1>6, <1>13, <1>17, <2>1, <2>2, <2>3, AnswersKeep
<1>18. CASE /\ asked # Fetch.b .. Fetch.e /\ cur' = cur
            /\ wire' = (IF Fetch.e > Len(sess) THEN wire ELSE wire \o hs) \o <<no>>
  <2>1. short' /\ cur' = "none"
    BY <1>1, <1>a, <1>18
  <2> DEFINE ls == IF Fetch.e > Len(sess) THEN <<no>> ELSE hs \o <<no>>
  <2>2. wire \in Seq(Lines) /\ <<no>> \in Seq(Lines) /\ Len(<<no>>) = 1 /\ <<no>>[1] = no
    BY <1>2, <1>15 DEF Typed
  <2>3. /\ hs \o <<no>> \in Seq(Lines) /\ Len(hs \o <<no>>) = Len(hs) + 1
        /\ \A k \in 1 .. Len(hs) + 1 : (hs \o <<no>>)[k] = IF k <= Len(hs) THEN hs[k] ELSE no
        /\ hs \o <<no>> # <<>>
    <3> DEFINE one == <<no>>
    <3>1. one \in Seq(Lines) /\ Len(one) = 1 /\ one[1] = no
      BY <2>2
    <3> HIDE DEF one
    <3>a. /\ hs \o one \in Seq(Lines) /\ Len(hs \o one) = Len(hs) + Len(one)
          /\ \A k \in 1 .. Len(hs) + Len(one) :
               (hs \o one)[k] = IF k <= Len(hs) THEN hs[k] ELSE one[k - Len(hs)]
      BY <1>13, <3>1, ConcatProperties
    <3>2. /\ hs \o one \in Seq(Lines) /\ Len(hs \o one) = Len(hs) + 1
          /\ \A k \in 1 .. Len(hs) + 1 : (hs \o one)[k] = IF k <= Len(hs) THEN hs[k] ELSE one[k - Len(hs)]
      BY <3>1, <3>a
    <3>3. \A k \in 1 .. Len(hs) + 1 : (hs \o one)[k] = IF k <= Len(hs) THEN hs[k] ELSE no
      <4> TAKE k \in 1 .. Len(hs) + 1
      <4>1. CASE k <= Len(hs)
        BY <3>2, <4>1
      <4>2. CASE ~(k <= Len(hs))
        <5>1. k - Len(hs) = 1
          BY <1>9, <1>13, <4>2
        <5> QED BY <3>1, <3>2, <4>2, <5>1
      <4> QED BY <4>1, <4>2
    <3>4. Len(hs \o one) # 0
      BY <1>9, <1>13, <3>2
    <3>5. hs \o one # <<>>
      BY <3>4, EmptySeq
    <3> QED BY <3>2, <3>3, <3>5 DEF one
  <2>4. wire' = wire \o ls
    <3>1. (wire \o hs) \o <<no>> = wire \o (hs \o <<no>>)
      BY <1>13, <2>2, ConcatAssociative
    <3> QED BY <1>18, <3>1
  <2>5. /\ ls \in Seq(Lines) /\ ls # <<>> /\ Len(ls) \in Nat /\ ls[Len(ls)] = no
        /\ \A k \in 1 .. Len(ls) - 1 : ls[k].kind = "HEADER" /\ ls[k].uid < nextUid /\ Tells(ls[k], sess, sess)
    <3>1. CASE Fetch.e > Len(sess)
      <4>1. ls = <<no>> /\ <<no>> # <<>>
        BY <3>1
      <4> HIDE DEF ls
      <4> QED BY <2>2, <4>1
    <3>2. CASE ~(Fetch.e > Len(sess))
      <4>1. ls = hs \o <<no>>
        BY <3>2
      <4> HIDE DEF ls
      <4>2. /\ ls \in Seq(Lines) /\ Len(ls) = Len(hs) + 1 /\ ls # <<>>
            /\ \A k \in 1 .. Len(hs) + 1 : ls[k] = IF k <= Len(hs) THEN hs[k] ELSE no
        BY <2>3, <4>1
      <4>3. Len(hs) \in Nat /\ Len(ls) - 1 = Len(hs) /\ Len(ls) \in 1 .. Len(hs) + 1 /\ ~(Len(ls) <= Len(hs))
        BY <1>9, <1>13, <4>2
      <4>4. \A k \in 1 .. Len(ls) - 1 : ls[k] = hs[k] /\ k \in 1 .. Len(order)
        BY <1>13, <4>2, <4>3
      <4> QED BY <1>11, <1>13, <1>14, <4>2, <4>3, <4>4
    <3> QED BY <3>1, <3>2
  <2> HIDE DEF ls
  <2>6. \A k \in 1 .. Len(ls) :
          /\ ls[k].kind \in {"HEADER", "NO"} /\ ls[k].uid < nextUid /\ Tells(ls[k], sess, sess)
          /\ ls[k].kind = "NO" => short'
    <3> TAKE k \in 1 .. Len(ls)
    <3>1. k \in 1 .. Len(ls) - 1 \/ k = Len(ls)
      BY <2>5
    <3> QED BY <1>15, <1>16, <2>1, <2>5, <3>1
  <2> QED BY <1>1, <1>4, <1>6, <1>15, <2>1, <2>4, <2>5, <2>6, AnswersKeep
<1> QED BY <1>7, <1>17, <1>18 DEF hs

LEMMA ServerReadsKeeps ==
  ASSUME Bounds, Numbered, ServerReads
  PROVE  Numbered'
<1>1. /\ sent # <<>> /\ sent' = Tail(sent)
      /\ UNCHANGED <<serverVars, clientVars, reopen, idle, pc, range, qresync, raced>>
  BY DEF ServerReads
<1>2. \/ /\ Head(sent).verb = "IDLE" /\ cur' = "IDLE" /\ wire' = Append(wire, Line("+", 0, NULL))
         /\ UNCHANGED short
      \/ Head(sent).verb = "DONE" /\ cur' = "none" /\ UNCHANGED <<wire, short>>
      \/ Head(sent).verb = "ANY" /\ cur' = "ANY" /\ UNCHANGED <<wire, short>>
      \/ Head(sent).verb = "FETCH"
  BY DEF ServerReads
<1> QED BY <1>1, <1>2, IdleReadKeeps, QuietReadKeeps, FetchReadKeeps

LEMMA ServerCompletesKeeps ==
  ASSUME Bounds, Numbered, ServerCompletes
  PROVE  Numbered'
<1> USE DEF serverVars, clientVars, ghosts
<1> DEFINE l == Line("OK", 0, NULL)
<1>1. /\ cur \in {"ANY", "FETCH"} /\ cur' = "none" /\ wire' = Append(wire, l) /\ UNCHANGED Client /\ Marked
      /\ UNCHANGED <<mbox, nextUid, sess, sent, idle, pc, range, qresync, short, raced>>
  BY DEF ServerCompletes, Client, Marked
<1>2. /\ Typed /\ pc \in {"ready", "enter", "poll", "exec", "fetch"} /\ Protocol
      /\ wire \in Seq(Lines) /\ nextUid \in 1 .. MaxUid + 1 /\ MaxUid \in Nat
  BY DEF Numbered, Typed, TypeOK, Bounds
<1>3. /\ Untagged /\ sent = <<>>
      /\ \/ pc = "exec" /\ ~idle
         \/ pc = "fetch" /\ ~idle
  <2>1. pc \in {"exec", "fetch"}
    BY <1>1, <1>2 DEF Protocol
  <2>2. CASE pc = "exec"
    BY <1>1, <1>2, <2>2 DEF Protocol, Exchange
  <2>3. CASE pc = "fetch"
    BY <1>1, <1>2, <2>3 DEF Protocol, Exchange
  <2> QED BY <2>1, <2>2, <2>3
<1>4. l \in Lines /\ Tagged(l) /\ l.kind = "OK" /\ l.uid = 0
  BY <1>2 DEF Lines, Line, Kinds, Tagged, NULL
<1> HIDE DEF l
<1>5. l.uid < nextUid
  BY <1>2, <1>4
<1>6. /\ wire' \in Seq(Lines)
      /\ \A k \in DOMAIN wire' :
           /\ wire'[k].uid < nextUid'
           /\ wire'[k].kind = "EXPUNGE" => ~qresync'
           /\ wire'[k].kind = "VANISHED" => qresync'
           /\ wire'[k].kind = "NO" => short'
      /\ wire' # <<>> /\ Tagged(wire'[Len(wire')])
      /\ \A k \in 1 .. Len(wire') - 1 : ~Tagged(wire'[k])
      /\ \A i : Coming(i) => Coming(i)'
      /\ Greeted => Greeted'
  BY <1>1, <1>2, <1>3, <1>4, <1>5, LineTyped
<1>7. Typed'
  BY <1>1, <1>2, <1>6 DEF Typed, TypeOK, Client
<1>8. \A c : Exchange(c)'
  BY <1>1, <1>3, <1>6 DEF Exchange
<1>9. Protocol'
  BY <1>1, <1>2, <1>3, <1>6, <1>8 DEF Protocol
<1>10. Found' /\ Complete'
  BY <1>1, <1>6, ClientStays, CompleteStays DEF Numbered, Client
<1>11. (\E N : InStep(N, wire, sess, mbox))'
  <2>1. sess \in Seq(Uids) /\ IsInjective(sess) /\ Tells(l, sess, sess) /\ Renumbers(sess, sess, mbox)
    BY <1>2, <1>4, SameNumbering DEF Typed
  <2> QED BY <1>1, <1>4, <2>1, ServerTells
<1> QED BY <1>7, <1>9, <1>10, <1>11 DEF Numbered

(***************************************************************************)
(* mutt sends a command.                                                   *)
(***************************************************************************)
\* Nothing is sent by the server, and nothing is read.
LEMMA NothingRead ==
  ASSUME Numbered, UNCHANGED <<wire, sess, mbox, nextUid>>,
         \A s : Agreed(s) => Agreed(s)', \A s : Len(s) \in Nat /\ Reached(s) => Reached(s)',
         ~Adrift' => ~Adrift /\ gone' \subseteq gone
  PROVE  (\E N : InStep(N, wire, sess, mbox))'
<1>1. PICK N : InStep(N, wire, sess, mbox)
  BY DEF Numbered
<1>a. Len(N[0]) \in Nat
  <2>1. Len(wire) \in Nat
    BY SeqParts DEF Numbered, Typed
  <2>2. N[0] \in Seq(Uids)
    BY <1>1, <2>1 DEF InStep, Followed
  <2> QED BY <2>2, SeqParts
<1>2. Followed(N, wire', sess', mbox') /\ Given(N, wire)' /\ Agreed(N[0])' /\ Reached(N[0])'
  BY <1>1, <1>a DEF InStep, Given
<1>3. Departed(N, wire, mbox)'
  BY <1>1 DEF InStep, Departed
<1> QED BY <1>2, <1>3 DEF InStep

LEMMA Sends ==
  ASSUME Numbered, NEW c \in Commands, pc \in {"ready", "poll"}
  PROVE  /\ sent = <<>> /\ Untagged
         /\ sent \o Send(c) \in Seq(Commands)
         /\ idle => sent \o Send(c) = <<Done, c>> /\ cur = "IDLE"
         /\ ~idle => sent \o Send(c) = <<c>> /\ cur = "none"
<1>1. /\ sent = <<>> /\ Untagged
      /\ cur = IF idle THEN "IDLE" ELSE "none"
  BY DEF Numbered, Protocol
<1>2. Done \in Commands
  BY DEF Done, Command, Commands
<1>3. <<>> \o (<<>> \o <<c>>) = <<c>> /\ <<>> \o (<<Done>> \o <<c>>) = <<Done, c>>
  BY Queues
<1>4. <<c>> \in Seq(Commands) /\ <<Done, c>> \in Seq(Commands)
  BY <1>2
<1>5. CASE idle
  <2>1. sent \o Send(c) = <<Done, c>>
    BY <1>1, <1>3, <1>5 DEF Send, Done
  <2> QED BY <1>1, <1>4, <1>5, <2>1
<1>6. CASE ~idle
  <2>1. sent \o Send(c) = <<c>>
    BY <1>1, <1>3, <1>6 DEF Send
  <2> QED BY <1>1, <1>4, <1>6, <2>1
<1> QED BY <1>5, <1>6

\* The lists of reopen are extended, and another command is waited for.
LEMMA WaitsKeep ==
  ASSUME Numbered, pc \in {"ready", "enter"}, pc' \in {"enter", "poll", "exec"}, reopen \subseteq reopen',
         UNCHANGED <<serverVars, wire, clientVars, range, ghosts>>
  PROVE  /\ Found' /\ Complete'
         /\ (\E N : InStep(N, wire, sess, mbox))'
<1> USE DEF serverVars, clientVars, ghosts
<1>1. Found'
  BY DEF Numbered, Found
<1>2. Complete'
  BY DEF Numbered, Complete, Filled
<1>3. (\A s : Agreed(s) => Agreed(s)') /\ (Adrift' = Adrift)
  BY DEF Agreed, Adrift
<1>4. \A s : Reached(s) => Reached(s)'
  BY DEF Reached
<1>5. (\E N : InStep(N, wire, sess, mbox))'
  BY <1>3, <1>4, NothingRead
<1> QED BY <1>1, <1>2, <1>5

LEMMA NoGreeting ==
  ASSUME Numbered, pc # "enter", wire' = wire, sent' # <<>> \/ pc' # "enter"
  PROVE  Greeted'
BY DEF Numbered, Protocol, Greeted

LEMMA imap_cmd_idleKeeps ==
  ASSUME Numbered, imap_cmd_idle
  PROVE  Numbered'
<1> USE DEF imap_cmd_idle, serverVars, clientVars, ghosts
<1>1. Idling \in Commands
  BY DEF Idling, Command, Commands
<1>2. sent' = <<Idling>> /\ cur = "none" /\ Untagged /\ sent' \in Seq(Commands)
  <2>1. sent' = sent \o Send(Idling) /\ ~idle /\ pc \in {"ready", "poll"}
    BY DEF Idling
  <2> QED BY <1>1, <2>1, Sends
<1>3. Typed'
  BY <1>2 DEF Numbered, Typed, TypeOK
<1>4. Greeted'
  <2>1. sent' # <<>>
    BY <1>2
  <2> QED BY <2>1, NoGreeting
<1>5. Protocol'
  <2>1. Untagged'
    BY <1>2 DEF Untagged, Tagged
  <2> QED BY <1>2, <1>4, <2>1 DEF Protocol, Idling
<1>6. Found' /\ Complete' /\ (\E N : InStep(N, wire, sess, mbox))'
  BY WaitsKeep
<1> QED BY <1>3, <1>5, <1>6 DEF Numbered

LEMMA PollIdleKeeps ==
  ASSUME Numbered, PollIdle
  PROVE  Numbered'
<1> USE DEF PollIdle, serverVars, clientVars, ghosts
<1>1. Typed'
  BY DEF Numbered, Typed, TypeOK
<1>2. Greeted'
  BY NoGreeting
<1>3. Protocol'
  <2>1. Untagged => Untagged'
    BY DEF Untagged, Tagged
  <2> QED BY <1>2, <2>1 DEF Numbered, Protocol
<1>4. Found' /\ Complete' /\ (\E N : InStep(N, wire, sess, mbox))'
  BY WaitsKeep
<1> QED BY <1>1, <1>3, <1>4 DEF Numbered

LEMMA ExecKeeps ==
  ASSUME Numbered, NEW allow \in {{}, {"ALLOW"}}, Exec(allow)
  PROVE  Numbered'
<1> USE DEF Exec, serverVars, clientVars, ghosts
<1>1. AnyCommand \in Commands
  BY DEF AnyCommand, Command, Commands
<1>2. /\ sent' \in Seq(Commands) /\ Untagged
      /\ \/ sent' = <<Done, AnyCommand>> /\ cur = "IDLE"
         \/ sent' = <<AnyCommand>> /\ cur = "none"
  <2>1. sent' = sent \o Send(AnyCommand) /\ pc \in {"ready", "poll"}
    BY DEF AnyCommand
  <2> QED BY <1>1, <2>1, Sends
<1>3. Typed'
  <2>1. reopen' \subseteq {"ALLOW", "EXPUNGE_PENDING", "NEWMAIL_PENDING"}
    BY DEF Numbered, Typed, TypeOK
  <2> QED BY <1>2, <2>1 DEF Numbered, Typed, TypeOK
<1>4. Greeted'
  BY NoGreeting
<1>5. Exchange(AnyCommand)'
  <2>1. Untagged'
    BY <1>2 DEF Untagged, Tagged
  <2> QED BY <1>2, <2>1 DEF Exchange, Done
<1>6. Protocol'
  BY <1>4, <1>5 DEF Protocol, AnyCommand
<1>7. Found' /\ Complete' /\ (\E N : InStep(N, wire, sess, mbox))'
  BY WaitsKeep
<1> QED BY <1>3, <1>6, <1>7 DEF Numbered

(***************************************************************************)
(* mutt reads a line.                                                      *)
(***************************************************************************)
\* The line that is read made the numbering t of s.
Reading(s, t) ==
  /\ s \in Seq(Uids) /\ t \in Seq(Uids) /\ IsInjective(s) /\ IsInjective(t)
  /\ Tells(Head(wire), s, t)
  /\ Agreed(s) /\ Reached(s)
  /\ ~Adrift => \A u \in gone : u \notin Range(s)

\* What is agreed on is so with the numbering t then.
Follows(s, t) ==
  /\ Agreed(t)' /\ Reached(t)'
  /\ ~Adrift' => ~Adrift /\ gone' \subseteq gone \cup (Range(s) \ Range(t))

LEMMA SomeReading ==
  ASSUME Numbered, wire # <<>>
  PROVE  \E s, t : Reading(s, t)
<1>1. wire \in Seq(Lines) /\ Len(wire) \in Nat
  BY SeqParts DEF Numbered, Typed
<1>2. PICK N : InStep(N, wire, sess, mbox)
  BY DEF Numbered
<1>3. Followed(N, wire, sess, mbox) /\ Agreed(N[0]) /\ Reached(N[0]) /\ Departed(N, wire, mbox)
  BY <1>2 DEF InStep
<1>4. /\ Tells(Head(wire), N[0], N[1])
      /\ N[0] \in Seq(Uids) /\ N[1] \in Seq(Uids) /\ IsInjective(N[0]) /\ IsInjective(N[1])
  BY <1>1, <1>3, ReadLine
<1>5. 0 \in 0 .. Len(wire)
  BY <1>1
<1>6. Reading(N[0], N[1])
  BY <1>3, <1>4, <1>5 DEF Reading, Departed
<1> QED BY <1>6

LEMMA ReadKeeps ==
  ASSUME Numbered, wire # <<>>, wire' = Tail(wire), UNCHANGED <<sess, mbox, nextUid>>,
         \A s, t : Reading(s, t) => Follows(s, t)
  PROVE  (\E N : InStep(N, wire, sess, mbox))'
<1>1. wire \in Seq(Lines) /\ Len(wire) \in Nat /\ Len(wire) >= 1
  BY SeqParts DEF Numbered, Typed
<1>2. PICK N : InStep(N, wire, sess, mbox)
  BY DEF Numbered
<1>3. /\ Followed(N, wire, sess, mbox) /\ Agreed(N[0]) /\ Reached(N[0]) /\ Departed(N, wire, mbox)
      /\ Given(N, wire)
  BY <1>2 DEF InStep
<1>4. /\ Tells(Head(wire), N[0], N[1])
      /\ N[0] \in Seq(Uids) /\ N[1] \in Seq(Uids) /\ IsInjective(N[0]) /\ IsInjective(N[1])
      /\ \E M : Followed(M, Tail(wire), sess, mbox) /\ Advanced(M, N, wire)
  BY <1>1, <1>3, ReadLine
<1>5. 0 \in 0 .. Len(wire) /\ 1 \in 0 .. Len(wire) /\ 0 \in 0 .. Len(wire) - 1
  BY <1>1
<1>6. Reading(N[0], N[1])
  BY <1>3, <1>4, <1>5 DEF Reading, Departed
<1>7. Follows(N[0], N[1])
  BY <1>6
<1>8. PICK M : Followed(M, Tail(wire), sess, mbox) /\ Advanced(M, N, wire)
  BY <1>4
<1>9. Len(wire') = Len(wire) - 1
  BY <1>1, HeadTailProperties
<1>10. \A k \in 0 .. Len(wire') : M[k] = N[k + 1] /\ k + 1 \in 0 .. Len(wire) /\ k + 1 \in 1 .. Len(wire)
  <2>1. \A k \in 0 .. Len(wire') : k + 1 \in 0 .. Len(wire) /\ k + 1 \in 1 .. Len(wire)
    BY <1>1, <1>9
  <2> QED BY <1>8, <1>9, <2>1 DEF Advanced
<1>11. M[0] = N[1]
  <2>1. M[0] = N[0 + 1]
    BY <1>5, <1>8 DEF Advanced
  <2> QED BY <2>1
<1>12. Followed(M, wire', sess', mbox')
  BY <1>8
<1>13. Given(M, wire)'
  BY <1>3, <1>10 DEF Given
<1>14. Departed(M, wire, mbox)'
  <2> SUFFICES ASSUME ~Adrift', NEW u \in gone'
               PROVE  u \notin mbox' /\ \A k \in 0 .. Len(wire') : u \notin Range(M[k])
    BY DEF Departed
  <2>1. ~Adrift /\ u \in gone \cup (Range(N[0]) \ Range(N[1]))
    BY <1>7 DEF Follows
  <2>2. CASE u \in gone
    <3>1. u \notin mbox /\ \A k \in 0 .. Len(wire) : u \notin Range(N[k])
      BY <1>3, <2>1, <2>2 DEF Departed
    <3> QED BY <1>10, <3>1
  <2>3. CASE u \in Range(N[0]) \ Range(N[1])
    <3>1. 0 <= 1
      OBVIOUS
    <3>2. u \notin mbox /\ \A k \in 1 .. Len(wire) : u \notin Range(N[k])
      BY <1>3, <1>5, <2>3, <3>1 DEF Followed
    <3> QED BY <1>10, <3>2
  <2> QED BY <2>1, <2>2, <2>3
<1>15. Agreed(M[0])' /\ Reached(M[0])'
  BY <1>7, <1>11 DEF Follows
<1>16. InStep(M, wire, sess, mbox)'
  BY <1>12, <1>13, <1>14, <1>15 DEF InStep
<1> QED BY <1>16

LEMMA TailTyped ==
  ASSUME Typed, wire # <<>>, wire' = Tail(wire), UNCHANGED <<nextUid, qresync>>, short => short'
  PROVE  /\ wire' \in Seq(Lines)
         /\ \A k \in DOMAIN wire' :
              /\ wire'[k].uid < nextUid'
              /\ wire'[k].kind = "EXPUNGE" => ~qresync'
              /\ wire'[k].kind = "VANISHED" => qresync'
              /\ wire'[k].kind = "NO" => short'
         /\ Head(wire) \in Lines /\ Head(wire).uid < nextUid
         /\ Head(wire).kind = "EXPUNGE" => ~qresync
         /\ Head(wire).kind = "VANISHED" => qresync
         /\ Head(wire).kind = "NO" => short
         /\ Len(wire) \in Nat /\ Len(wire') = Len(wire) - 1 /\ DOMAIN wire = 1 .. Len(wire)
         /\ 1 \in DOMAIN wire /\ Head(wire) = wire[1]
         /\ \A k \in DOMAIN wire' : k + 1 \in DOMAIN wire /\ wire'[k] = wire[k + 1]
         /\ \A k \in DOMAIN wire : k = 1 \/ (k - 1 \in DOMAIN wire' /\ wire'[k - 1] = wire[k])
<1>1. wire \in Seq(Lines) /\ Len(wire) \in Nat /\ Len(wire) >= 1 /\ DOMAIN wire = 1 .. Len(wire)
  BY SeqParts DEF Typed
<1>2. /\ wire' \in Seq(Lines) /\ Len(wire') = Len(wire) - 1
      /\ \A k \in 1 .. Len(wire') : wire'[k] = wire[k + 1]
      /\ Head(wire) = wire[1]
  BY <1>1, HeadTailProperties
<1>3. DOMAIN wire' = 1 .. Len(wire')
  BY <1>2, SeqParts
<1>4. \A k \in DOMAIN wire' : k + 1 \in DOMAIN wire /\ wire'[k] = wire[k + 1]
  BY <1>1, <1>2, <1>3
<1>5. \A k \in DOMAIN wire : k = 1 \/ (k - 1 \in DOMAIN wire' /\ wire'[k - 1] = wire[k])
  <2> TAKE k \in DOMAIN wire
  <2>1. k = 1 \/ (k - 1 \in DOMAIN wire' /\ (k - 1) + 1 = k)
    BY <1>1, <1>2, <1>3
  <2>2. CASE k - 1 \in DOMAIN wire' /\ (k - 1) + 1 = k
    <3>1. wire'[k - 1] = wire[(k - 1) + 1]
      BY <1>4, <2>2
    <3> QED BY <2>2, <3>1
  <2> QED BY <2>1, <2>2
<1>6. 1 \in DOMAIN wire
  BY <1>1
<1>7. Head(wire) \in Lines
  BY <1>1, <1>2, <1>6, SeqParts
<1>8. ASSUME NEW k \in DOMAIN wire'
      PROVE  /\ wire'[k].uid < nextUid'
             /\ wire'[k].kind = "EXPUNGE" => ~qresync'
             /\ wire'[k].kind = "VANISHED" => qresync'
             /\ wire'[k].kind = "NO" => short'
  <2>1. k + 1 \in DOMAIN wire /\ wire'[k] = wire[k + 1]
    BY <1>4
  <2> QED BY <2>1 DEF Typed
<1>9. /\ Head(wire).uid < nextUid
      /\ Head(wire).kind = "EXPUNGE" => ~qresync
      /\ Head(wire).kind = "VANISHED" => qresync
      /\ Head(wire).kind = "NO" => short
  BY <1>2, <1>6 DEF Typed
<1> QED BY <1>1, <1>2, <1>4, <1>5, <1>6, <1>7, <1>8, <1>9

\* What is waited for does not change when an untagged line is read.
LEMMA ProtocolStays ==
  ASSUME Numbered, wire # <<>>, wire' = Tail(wire), ~Tagged(Head(wire)), Head(wire).kind # "+",
         UNCHANGED <<nextUid, qresync, short, cur, sent, idle, pc, range>>
  PROVE  Protocol'
<1>1. Typed
  BY DEF Numbered
<1>2. /\ Len(wire) \in Nat /\ Len(wire') = Len(wire) - 1 /\ DOMAIN wire = 1 .. Len(wire)
      /\ 1 \in DOMAIN wire /\ Head(wire) = wire[1]
      /\ \A k \in DOMAIN wire' : k + 1 \in DOMAIN wire /\ wire'[k] = wire[k + 1]
      /\ wire' \in Seq(Lines)
  BY <1>1, TailTyped
<1>3. DOMAIN wire' = 1 .. Len(wire')
  BY <1>2, SeqParts
<1>4. Untagged => Untagged'
  BY <1>2 DEF Untagged, Tagged
<1>5. ASSUME NEW c, Exchange(c) PROVE Exchange(c)'
  <2>1. CASE Untagged
    <3>1. wire[Len(wire)] \in {wire[k] : k \in DOMAIN wire}
      BY <1>2
    <3>2. ~Tagged(wire[Len(wire)])
      BY <1>2, <2>1 DEF Untagged
    <3> QED BY <1>4, <1>5, <2>1, <3>2 DEF Exchange
  <2>2. CASE /\ sent = <<>> /\ cur = "none" /\ wire # <<>> /\ Tagged(wire[Len(wire)])
             /\ \A k \in 1 .. Len(wire) - 1 : ~Tagged(wire[k])
    <3>1. Len(wire) # 1
      BY <1>2, <2>2
    <3>2. Len(wire') \in DOMAIN wire' /\ Len(wire') + 1 = Len(wire) /\ Len(wire') # 0
      BY <1>2, <1>3, <3>1
    <3>3. wire' # <<>> /\ wire'[Len(wire')] = wire[Len(wire)]
      BY <1>2, <3>2, EmptySeq
    <3>4. ASSUME NEW k \in 1 .. Len(wire') - 1 PROVE ~Tagged(wire'[k])
      <4>1. k \in DOMAIN wire' /\ k + 1 \in 1 .. Len(wire) - 1
        BY <1>2, <1>3, <3>2
      <4> QED BY <1>2, <2>2, <4>1
    <3>6. Tagged(wire'[Len(wire')])
      BY <2>2, <3>3
    <3> QED BY <2>2, <3>3, <3>4, <3>6 DEF Exchange
  <2> QED BY <1>5, <2>1, <2>2 DEF Exchange
<1>6. Greeted'
  <2>1. \A k \in DOMAIN wire' : wire'[k].kind = "+" => k + 1 \in DOMAIN wire /\ wire[k + 1].kind = "+" /\ k \in Int
    BY <1>2, <1>3
  <2>2. Greeted
    BY DEF Numbered, Protocol
  <2>3. ASSUME NEW j \in DOMAIN wire', NEW k \in DOMAIN wire', wire'[j].kind = "+", wire'[k].kind = "+"
        PROVE  j = k
    <3>1. j + 1 = k + 1 /\ j \in Int /\ k \in Int
      BY <2>1, <2>2, <2>3 DEF Greeted
    <3> QED BY <3>1
  <2> QED BY <2>1, <2>2, <2>3 DEF Greeted
<1>7. \A c : Exchange(c) => Exchange(c)'
  BY <1>5
<1> QED BY <1>4, <1>6, <1>7 DEF Numbered, Protocol

\* What the lines change.
ClientTyped ==
  /\ Range(index) \subseteq Uids \cup {NULL} /\ index \in Seq(Uids \cup {NULL})
  /\ gone \subseteq DOMAIN msn /\ DOMAIN msn \subseteq Uids
  /\ reopen \subseteq {"ALLOW", "EXPUNGE_PENDING", "NEWMAIL_PENDING"}
  /\ newMailCount \in 0 .. MaxUid
  /\ msn \in [DOMAIN msn -> Nat] /\ DOMAIN msn \subseteq 1 .. nextUid - 1
  /\ raced \in BOOLEAN

\* The parts of the invariant that the lines' handlers are asked to keep.
LEMMA HandledKeeps ==
  ASSUME Numbered, pc # "ready", wire # <<>>, wire' = Tail(wire), ~Tagged(Head(wire)), Head(wire).kind # "+",
         UNCHANGED <<serverVars, cur, sent, idle, pc, range, qresync, short>>,
         ClientTyped', Found', Complete', \A s, t : Reading(s, t) => Follows(s, t)
  PROVE  Numbered'
<1> USE DEF serverVars
<1>1. Typed'
  <2>1. Typed
    BY DEF Numbered
  <2>2. /\ wire' \in Seq(Lines)
        /\ \A k \in DOMAIN wire' :
             /\ wire'[k].uid < nextUid'
             /\ wire'[k].kind = "EXPUNGE" => ~qresync'
             /\ wire'[k].kind = "VANISHED" => qresync'
             /\ wire'[k].kind = "NO" => short'
    BY <2>1, TailTyped
  <2> QED BY <2>1, <2>2 DEF Typed, TypeOK, ClientTyped
<1>2. Protocol'
  BY ProtocolStays
<1>3. (\E N : InStep(N, wire, sess, mbox))'
  BY ReadKeeps
<1> QED BY <1>1, <1>2, <1>3 DEF Numbered

\* What was coming still comes, but for the line that is read.
LEMMA ComingStays ==
  ASSUME Numbered, wire # <<>>, wire' = Tail(wire), sent' = sent, UNCHANGED <<nextUid, qresync, short>>,
         NEW i, Coming(i)
  PROVE  Coming(i)' \/ (Head(wire).kind = "HEADER" /\ Head(wire).n = i)
<1>1. Typed
  BY DEF Numbered
<1>2. /\ Head(wire) = wire[1]
      /\ \A k \in DOMAIN wire : k = 1 \/ (k - 1 \in DOMAIN wire' /\ wire'[k - 1] = wire[k])
  BY <1>1, TailTyped
<1>3. CASE \E k \in DOMAIN sent : sent[k].verb = "FETCH" /\ i \in sent[k].b .. sent[k].e
  BY <1>3 DEF Coming
<1>4. CASE \E k \in DOMAIN wire : wire[k].kind = "HEADER" /\ wire[k].n = i
  <2>1. PICK k \in DOMAIN wire : wire[k].kind = "HEADER" /\ wire[k].n = i
    BY <1>4
  <2>2. CASE k = 1
    BY <1>2, <2>1, <2>2
  <2>3. CASE k - 1 \in DOMAIN wire' /\ wire'[k - 1] = wire[k]
    BY <2>1, <2>3 DEF Coming
  <2> QED BY <1>2, <2>2, <2>3
<1> QED BY <1>3, <1>4 DEF Coming

\* The handlers of lines that leave the numbers of mutt alone.
LEMMA NumbersStay ==
  ASSUME Numbered, wire # <<>>, wire' = Tail(wire),
         UNCHANGED <<sent, nextUid, qresync, short, index, msn, gone, pc, range, raced>>,
         Head(wire).kind # "HEADER",
         reopen' \subseteq {"ALLOW", "EXPUNGE_PENDING", "NEWMAIL_PENDING"}, newMailCount' \in 0 .. MaxUid
  PROVE  ClientTyped' /\ Found' /\ Complete' /\ Adrift' = Adrift
<1>1. ClientTyped'
  BY DEF Numbered, Typed, TypeOK, ClientTyped
<1>2. Found'
  BY DEF Numbered, Found
<1>3. \A i : Coming(i) => Coming(i)'
  BY ComingStays
<1>4. Complete'
  <2>1. Marked
    BY DEF Marked
  <2> QED BY <1>3, <2>1, CompleteStays DEF Numbered
<1> QED BY <1>1, <1>2, <1>4 DEF Adrift

LEMMA ExistsKeeps ==
  ASSUME Numbered, HandleUntagged, Head(wire).kind = "EXISTS", HandleExists(Head(wire).n)
  PROVE  Numbered'
<1> DEFINE n == Head(wire).n
<1> USE DEF HandleExists, HandleUntagged, ghosts
<1>1. Typed /\ wire # <<>> /\ wire' = Tail(wire)
  BY DEF Numbered
<1>2. Head(wire) \in Lines /\ UNCHANGED <<nextUid, qresync>> /\ (short => short')
  BY <1>1, TailTyped DEF serverVars
<1>3. n \in 0 .. MaxUid
  BY <1>2 DEF Lines
<1>4. ~Tagged(Head(wire)) /\ Head(wire).kind # "+" /\ Head(wire).kind # "HEADER"
  BY DEF Tagged
<1>5. /\ reopen' \subseteq {"ALLOW", "EXPUNGE_PENDING", "NEWMAIL_PENDING"}
      /\ newMailCount' \in 0 .. MaxUid
  BY <1>1, <1>3 DEF Typed, TypeOK
<1>6. ClientTyped' /\ Found' /\ Complete' /\ Adrift' = Adrift
  BY <1>1, <1>4, <1>5, NumbersStay DEF serverVars
<1>7. ASSUME NEW s, NEW t, Reading(s, t) PROVE Follows(s, t)
  <2>1. /\ Len(t) = n /\ Len(t) \in Nat /\ Len(index) \in Nat
        /\ \A i \in DOMAIN s : i \in DOMAIN t /\ t[i] = s[i]
    BY <1>1, <1>7, SeqParts DEF Reading, Tells, Typed
  <2>2. Agreed(t)'
    BY <1>6, <1>7, <2>1 DEF Reading, Agreed
  <2>3. Reached(t)'
    BY <2>1 DEF Reached, max_msn
  <2> QED BY <1>6, <2>2, <2>3 DEF Follows
<1> QED BY <1>1, <1>4, <1>6, <1>7, HandledKeeps

LEMMA FlagsKeep ==
  ASSUME Numbered, HandleUntagged, Head(wire).kind = "FLAGS", UNCHANGED <<clientVars, reopen, ghosts>>
  PROVE  Numbered'
<1> USE DEF HandleUntagged, ghosts, clientVars
<1>1. Typed /\ wire # <<>> /\ wire' = Tail(wire)
  BY DEF Numbered
<1>2. ~Tagged(Head(wire)) /\ Head(wire).kind # "+" /\ Head(wire).kind # "HEADER"
  BY DEF Tagged
<1>3. /\ reopen' \subseteq {"ALLOW", "EXPUNGE_PENDING", "NEWMAIL_PENDING"}
      /\ newMailCount' \in 0 .. MaxUid
  BY <1>1 DEF Typed, TypeOK
<1>4. ClientTyped' /\ Found' /\ Complete' /\ Adrift' = Adrift
  BY <1>1, <1>2, <1>3, NumbersStay DEF serverVars
<1>5. ASSUME NEW s, NEW t, Reading(s, t) PROVE Follows(s, t)
  <2>1. s = t
    BY <1>5 DEF Reading, Tells
  <2>2. Agreed(t)' /\ Reached(t)'
    BY <1>4, <1>5, <2>1 DEF Reading, Agreed, Reached
  <2> QED BY <1>4, <2>2 DEF Follows
<1> QED BY <1>1, <1>2, <1>4, <1>5, HandledKeeps

\* Agreed, whether adrift or not.
Matched(s) ==
  \A i \in DOMAIN index : index[i] # NULL =>
    /\ i \in DOMAIN s /\ s[i] = index[i]
    /\ index[i] \in DOMAIN msn \ gone /\ msn[index[i]] = i

\* The numbers above n, and the message with this number.
LEMMA MovedDown ==
  ASSUME Typed, Found, NEW n \in DOMAIN index, Renumber(n), gone' = gone \cup ({index[n]} \ {NULL})
  PROVE  /\ index' \in Seq(Uids \cup {NULL}) /\ Len(index) \in Nat /\ Len(index') = Len(index) - 1
         /\ DOMAIN index' = 1 .. Len(index) - 1
         /\ DOMAIN msn' = DOMAIN msn /\ msn' \in [DOMAIN msn -> Nat]
         /\ Found'
         /\ (\A i \in DOMAIN index : index[i] # NULL) => \A i \in DOMAIN index' : index'[i] # NULL
         /\ \A s \in Seq(Uids) : n \in DOMAIN s /\ Matched(s) => Matched(RemoveAt(s, n))'
<1>1. /\ index \in Seq(Uids \cup {NULL}) /\ msn \in [DOMAIN msn -> Nat] /\ DOMAIN msn \subseteq Uids
      /\ gone \subseteq DOMAIN msn
  BY DEF Typed, TypeOK
<1>2. /\ Len(index) \in Nat /\ DOMAIN index = 1 .. Len(index) /\ n \in 1 .. Len(index) /\ n \in Nat
      /\ \A i \in 1 .. Len(index) : index[i] \in Uids \cup {NULL}
  BY <1>1, SeqParts
<1>3. /\ index' \in Seq(Uids \cup {NULL}) /\ Len(index') = Len(index) - 1
      /\ DOMAIN index' = 1 .. Len(index) - 1
      /\ \A i \in 1 .. Len(index) - 1 : index'[i] = IF i < n THEN index[i] ELSE index[i + 1]
  BY <1>1, RemovedAt DEF Renumber
<1>4. /\ DOMAIN msn' = DOMAIN msn
      /\ \A u \in DOMAIN msn : msn[u] \in Nat
      /\ \A u \in DOMAIN msn : u = index[n] => msn'[u] = 0
      /\ \A u \in DOMAIN msn : u # index[n] /\ msn[u] > n => msn'[u] = msn[u] - 1
      /\ \A u \in DOMAIN msn : u # index[n] /\ ~(msn[u] > n) => msn'[u] = msn[u]
  <2>1. DOMAIN msn' = DOMAIN msn /\ \A u \in DOMAIN msn : msn[u] \in Nat
    BY <1>1 DEF Renumber
  <2>2. \A u \in DOMAIN msn :
          msn'[u] = IF u = index[n] THEN 0 ELSE IF msn[u] > n THEN msn[u] - 1 ELSE msn[u]
    BY DEF Renumber
  <2>3. ASSUME NEW u \in DOMAIN msn, u # index[n], msn[u] > n PROVE msn'[u] = msn[u] - 1
    BY <2>2, <2>3
  <2>4. ASSUME NEW u \in DOMAIN msn, u # index[n], ~(msn[u] > n) PROVE msn'[u] = msn[u]
    BY <2>2, <2>4
  <2>5. ASSUME NEW u \in DOMAIN msn, u = index[n] PROVE msn'[u] = 0
    BY <2>2, <2>5
  <2> QED BY <2>1, <2>3, <2>4, <2>5
<1>5. msn' \in [DOMAIN msn -> Nat]
  <2>1. ASSUME NEW u \in DOMAIN msn PROVE msn'[u] \in Nat
    <3>1. CASE u = index[n]
      BY <1>4, <3>1
    <3>2. CASE u # index[n] /\ msn[u] > n
      <4>1. msn[u] - 1 \in Nat
        BY <1>2, <1>4, <3>2
      <4> QED BY <1>4, <3>2, <4>1
    <3>3. CASE u # index[n] /\ ~(msn[u] > n)
      BY <1>4, <3>3
    <3> QED BY <3>1, <3>2, <3>3
  <2>2. msn' = [u \in DOMAIN msn |-> msn'[u]]
    BY DEF Renumber
  <2> QED BY <2>1, <2>2
<1>6. 0 \notin Uids /\ NULL = 0
  BY DEF Uids, NULL
\* A header that keeps its number, or gets the one below.
<1>7. ASSUME NEW u \in DOMAIN msn, u # index[n], msn[u] \in DOMAIN index, index[msn[u]] = u
      PROVE  msn'[u] \in DOMAIN index' /\ index'[msn'[u]] = u
  <2>1. msn[u] # n /\ msn[u] \in 1 .. Len(index)
    BY <1>2, <1>7
  <2>2. CASE msn[u] > n
    <3>1. /\ msn'[u] = msn[u] - 1 /\ msn[u] - 1 \in 1 .. Len(index) - 1 /\ ~(msn[u] - 1 < n)
          /\ (msn[u] - 1) + 1 = msn[u]
      BY <1>2, <1>4, <1>7, <2>1, <2>2
    <3> QED BY <1>3, <1>7, <3>1
  <2>3. CASE ~(msn[u] > n)
    <3>1. msn'[u] = msn[u] /\ msn[u] \in 1 .. Len(index) - 1 /\ msn[u] < n
      BY <1>2, <1>4, <1>7, <2>1, <2>3
    <3> QED BY <1>3, <1>7, <3>1
  <2> QED BY <2>2, <2>3
<1>8. Found'
  <2>1. ASSUME NEW u \in DOMAIN msn' \ gone' PROVE msn'[u] \in DOMAIN index' /\ index'[msn'[u]] = u
    <3>1. u \in DOMAIN msn \ gone /\ u \in Uids /\ u # index[n]
      BY <1>1, <1>2, <1>4, <1>6
    <3>2. msn[u] \in DOMAIN index /\ index[msn[u]] = u
      BY <3>1 DEF Found
    <3> QED BY <1>7, <3>1, <3>2
  <2> QED BY <2>1 DEF Found
<1>9. (\A i \in DOMAIN index : index[i] # NULL) => \A i \in DOMAIN index' : index'[i] # NULL
  <2>1. \A i \in DOMAIN index' : i \in DOMAIN index /\ i + 1 \in DOMAIN index
    BY <1>2, <1>3
  <2> QED BY <1>3, <2>1
<1>10. ASSUME NEW s \in Seq(Uids), n \in DOMAIN s, Matched(s), NEW i \in DOMAIN index', index'[i] # NULL
       PROVE  /\ i \in DOMAIN RemoveAt(s, n) /\ RemoveAt(s, n)[i] = index'[i]
              /\ index'[i] \in DOMAIN msn' \ gone' /\ msn'[index'[i]] = i
  <2> DEFINE j == IF i < n THEN i ELSE i + 1
             u == index[j]
  <2>1. /\ j \in DOMAIN index /\ j # n /\ index'[i] = u /\ i \in Nat /\ i >= 1
        /\ j > n => i = j - 1
        /\ ~(j > n) => i = j
    BY <1>2, <1>3
  <2>2. u # NULL
    BY <1>10, <2>1
  <2> HIDE DEF u
  <2>3. /\ j \in DOMAIN s /\ s[j] = u
        /\ u \in DOMAIN msn \ gone /\ msn[u] = j
    BY <1>10, <2>1, <2>2 DEF Matched, u
  <2>4. u # index[n]
    <3> SUFFICES ASSUME u = index[n] PROVE FALSE
      OBVIOUS
    <3>1. msn[u] = n
      BY <1>10, <2>2 DEF Matched
    <3> QED BY <2>1, <2>3, <3>1
  <2>5. u \notin gone'
    BY <2>3, <2>4
  <2>6. msn'[u] = i
    BY <1>4, <2>1, <2>3, <2>4
  <2>7. /\ Len(s) \in Nat /\ DOMAIN s = 1 .. Len(s)
        /\ DOMAIN RemoveAt(s, n) = 1 .. Len(s) - 1
        /\ \A k \in 1 .. Len(s) - 1 : RemoveAt(s, n)[k] = IF k < n THEN s[k] ELSE s[k + 1]
    BY <1>10, RemovedAt, SeqParts
  <2>8. n <= Len(s) /\ j <= Len(s)
    BY <1>10, <2>3, <2>7
  <2>9. i \in 1 .. Len(s) - 1
    BY <1>2, <2>1, <2>7, <2>8
  <2>10. RemoveAt(s, n)[i] = s[j]
    BY <2>7, <2>9
  <2> QED BY <1>4, <2>1, <2>3, <2>5, <2>6, <2>7, <2>9, <2>10
<1>11. \A s \in Seq(Uids) : n \in DOMAIN s /\ Matched(s) => Matched(RemoveAt(s, n))'
  <2> SUFFICES ASSUME NEW s \in Seq(Uids), n \in DOMAIN s, Matched(s) PROVE Matched(RemoveAt(s, n))'
    OBVIOUS
  <2> DEFINE t == RemoveAt(s, n)
  <2>1. \A i \in DOMAIN index' : index'[i] # NULL =>
          /\ i \in DOMAIN t /\ t[i] = index'[i]
          /\ index'[i] \in DOMAIN msn' \ gone' /\ msn'[index'[i]] = i
    BY <1>10
  <2> QED BY <2>1 DEF Matched, NULL
<1> QED BY <1>2, <1>3, <1>4, <1>5, <1>8, <1>9, <1>11

LEMMA AgreedIs ==
  /\ \A s : Agreed(s) <=> (~Adrift => Matched(s))
  /\ \A s : Agreed(s)' <=> (~Adrift' => Matched(s)')
BY DEF Agreed, Matched

\* The numbers after n move down on both sides.
LEMMA MovedFollows ==
  ASSUME Typed, Found, NEW n \in DOMAIN index, Renumber(n), gone' = gone \cup ({index[n]} \ {NULL}),
         reopen \subseteq reopen', raced' = (raced \/ pc = "fetch"),
         UNCHANGED <<newMailCount, qresync, short, pc, range>>,
         NEW s, NEW t, Reading(s, t), ~Adrift => n \in DOMAIN s /\ t = RemoveAt(s, n)
  PROVE  Follows(s, t)
<1>1. s \in Seq(Uids) /\ IsInjective(s) /\ Agreed(s) /\ Reached(s)
  BY DEF Reading
<1>2. /\ Len(index) \in Nat /\ Len(index') = Len(index) - 1
      /\ \A r \in Seq(Uids) : n \in DOMAIN r /\ Matched(r) => Matched(RemoveAt(r, n))'
  BY MovedDown
<1>3. Adrift => Adrift'
  BY DEF Adrift
<1>4. Agreed(t)'
  <2> SUFFICES ASSUME ~Adrift' PROVE Matched(t)'
    BY AgreedIs
  <2>1. n \in DOMAIN s /\ t = RemoveAt(s, n) /\ Matched(s)
    BY <1>1, <1>3, AgreedIs
  <2>2. Matched(RemoveAt(s, n))'
    BY <1>1, <1>2, <2>1
  <2> QED BY <2>1, <2>2
<1>5. Reached(t)'
  <2> SUFFICES ASSUME ~raced', ~short' PROVE Reached(t)'
    BY DEF Reached
  <2>1. ~raced /\ ~short /\ pc # "fetch" /\ ~Adrift
    BY DEF Adrift
  <2>2. Len(t) = Len(s) - 1 /\ Len(s) \in Nat
    BY <1>1, <2>1, RemovedAt, SeqParts
  <2>3. Len(s) <= Len(index) \/ ("NEWMAIL_PENDING" \in reopen /\ Len(s) <= newMailCount)
    BY <1>1, <2>1 DEF Reached
  <2>4. newMailCount \in Int
    BY DEF Typed, TypeOK
  <2>5. CASE Len(s) <= Len(index)
    <3>1. Len(t) <= Len(index')
      BY <1>2, <2>2, <2>5
    <3> QED BY <3>1 DEF Reached
  <2>6. CASE "NEWMAIL_PENDING" \in reopen /\ Len(s) <= newMailCount
    <3>1. "NEWMAIL_PENDING" \in reopen' /\ Len(t) <= newMailCount'
      BY <2>2, <2>4, <2>6
    <3> QED BY <3>1 DEF Reached
  <2> QED BY <2>3, <2>5, <2>6
<1>6. ASSUME ~Adrift' PROVE ~Adrift /\ gone' \subseteq gone \cup (Range(s) \ Range(t))
  <2>1. ~Adrift /\ n \in DOMAIN s /\ t = RemoveAt(s, n) /\ Matched(s)
    BY <1>1, <1>3, <1>6, AgreedIs
  <2>2. s[n] \in Range(s) /\ s[n] \notin Range(t)
    BY <1>1, <2>1, RemovedFrom DEF Range
  <2>3. index[n] # NULL => index[n] = s[n]
    BY <2>1 DEF Matched
  <2> QED BY <2>1, <2>2, <2>3
<1> QED BY <1>4, <1>5, <1>6 DEF Follows

\* A number beyond what mutt knows is removed.
LEMMA StayFollows ==
  ASSUME Typed, Found, UNCHANGED <<index, msn, gone, newMailCount, qresync, short, pc, range>>,
         reopen \subseteq reopen', raced' = (raced \/ pc = "fetch"),
         NEW s, NEW t, Reading(s, t),
         ~Adrift' => \E p \in DOMAIN s : p > Len(index) /\ t = RemoveAt(s, p)
  PROVE  Follows(s, t)
<1>1. s \in Seq(Uids) /\ IsInjective(s) /\ Agreed(s) /\ Reached(s)
  BY DEF Reading
<1>2. /\ Adrift => Adrift'
      /\ ~raced' /\ ~short' => ~raced /\ ~short /\ pc # "fetch" /\ ~Adrift'
  BY DEF Adrift
<1>3. Len(index) \in Nat /\ DOMAIN index = 1 .. Len(index) /\ newMailCount \in Int
  BY SeqParts DEF Typed, TypeOK
<1>4. Len(s) \in Nat /\ DOMAIN s = 1 .. Len(s)
  BY <1>1, SeqParts
<1>5. Agreed(t)'
  <2> SUFFICES ASSUME ~Adrift' PROVE Matched(t)'
    BY AgreedIs
  <2>1. PICK p \in DOMAIN s : p > Len(index) /\ t = RemoveAt(s, p)
    OBVIOUS
  <2>2. DOMAIN t = 1 .. Len(s) - 1 /\ \A i \in 1 .. Len(s) - 1 : t[i] = IF i < p THEN s[i] ELSE s[i + 1]
    BY <1>1, <2>1, RemovedAt
  <2>3. \A i \in DOMAIN index : i \in 1 .. Len(s) - 1 /\ i < p
    BY <1>3, <1>4, <2>1
  <2>4. \A i \in DOMAIN index : i \in DOMAIN t /\ t[i] = s[i]
    BY <2>2, <2>3
  <2>5. Matched(s)
    BY <1>1, <1>2, AgreedIs
  <2> QED BY <2>4, <2>5 DEF Matched
<1>6. Reached(t)'
  <2> SUFFICES ASSUME ~raced', ~short' PROVE Reached(t)'
    BY DEF Reached
  <2>1. ~raced /\ ~short /\ pc # "fetch" /\ ~Adrift'
    BY <1>2
  <2>2. PICK p \in DOMAIN s : p > Len(index) /\ t = RemoveAt(s, p)
    BY <2>1
  <2>3. Len(t) = Len(s) - 1
    BY <1>1, <2>2, RemovedAt
  <2>4. "NEWMAIL_PENDING" \in reopen /\ Len(s) <= newMailCount
    <3>1. Len(s) <= Len(index) \/ ("NEWMAIL_PENDING" \in reopen /\ Len(s) <= newMailCount)
      BY <1>1, <2>1 DEF Reached
    <3>2. ~(Len(s) <= Len(index))
      BY <1>3, <1>4, <2>2
    <3> QED BY <3>1, <3>2
  <2>5. "NEWMAIL_PENDING" \in reopen' /\ Len(t) <= newMailCount'
    BY <1>3, <1>4, <2>3, <2>4
  <2> QED BY <2>5 DEF Reached
<1> QED BY <1>2, <1>5, <1>6 DEF Follows

\* Complete, without a download, as long as nothing is adrift.
LEMMA CompleteAfter ==
  ASSUME Complete, UNCHANGED <<short, pc, range>>, raced' = (raced \/ pc = "fetch"),
         (\A i \in DOMAIN index : index[i] # NULL) => \A i \in DOMAIN index' : index'[i] # NULL
  PROVE  Complete'
<1> SUFFICES ASSUME ~raced', ~short' PROVE Complete'
  BY DEF Complete
<1>1. ~raced /\ ~short /\ pc # "fetch" /\ pc' # "fetch"
  OBVIOUS
<1>2. \A i \in DOMAIN index' : index'[i] # NULL
  BY <1>1 DEF Complete
<1> QED BY <1>1, <1>2 DEF Complete, NULL

LEMMA ExpungeKeeps ==
  ASSUME Numbered, HandleUntagged, Head(wire).kind = "EXPUNGE", cmd_parse_expunge(Head(wire).n)
  PROVE  Numbered'
<1> DEFINE n == Head(wire).n
<1>1. /\ Typed /\ Found /\ Complete /\ wire # <<>> /\ wire' = Tail(wire) /\ pc # "ready"
      /\ UNCHANGED <<serverVars, cur, sent, idle, pc, range, qresync, short, newMailCount>>
      /\ raced' = (raced \/ pc = "fetch")
  BY DEF Numbered, HandleUntagged, cmd_parse_expunge
<1>2. ~Tagged(Head(wire)) /\ Head(wire).kind # "+"
  BY DEF Tagged
<1>3. ~qresync /\ ~Adrift
  BY <1>1, TailTyped DEF serverVars, Adrift
<1>4. \A s, t : Reading(s, t) => n \in DOMAIN s /\ t = RemoveAt(s, n) /\ Matched(s) /\ s \in Seq(Uids)
  BY <1>3, AgreedIs DEF Reading, Tells
<1>5. CASE n \in DOMAIN index
  <2>1. /\ Renumber(n) /\ gone' = gone \cup ({index[n]} \ {NULL})
        /\ reopen' = reopen \cup {"EXPUNGE_PENDING"}
    BY <1>5 DEF cmd_parse_expunge
  <2> HIDE DEF n
  <2>2. /\ index' \in Seq(Uids \cup {NULL})
        /\ DOMAIN msn' = DOMAIN msn /\ msn' \in [DOMAIN msn -> Nat]
        /\ Found'
        /\ (\A i \in DOMAIN index : index[i] # NULL) => \A i \in DOMAIN index' : index'[i] # NULL
    BY <1>1, <1>5, <2>1, MovedDown
  <2>3. index[n] # NULL => index[n] \in DOMAIN msn
    <3>1. PICK s, t : Reading(s, t)
      BY <1>1, SomeReading
    <3> QED BY <1>4, <1>5, <3>1 DEF Matched
  <2>4. ClientTyped'
    <3>1. Range(index') \subseteq Uids \cup {NULL}
      BY <2>2, SeqParts DEF Range
    <3>2. gone' \subseteq DOMAIN msn'
      BY <1>1, <2>1, <2>2, <2>3 DEF Typed, TypeOK
    <3> QED BY <1>1, <2>1, <2>2, <3>1, <3>2 DEF ClientTyped, Typed, TypeOK, serverVars, Uids, NULL
  <2>5. Complete'
    BY <1>1, <2>2, CompleteAfter
  <2>6. ASSUME NEW s, NEW t, Reading(s, t) PROVE Follows(s, t)
    <3>1. reopen \subseteq reopen' /\ (~Adrift => n \in DOMAIN s /\ t = RemoveAt(s, n))
      BY <1>4, <2>1, <2>6
    <3> QED BY <1>1, <1>5, <2>1, <2>6, <3>1, MovedFollows
  <2> QED BY <1>1, <1>2, <2>2, <2>4, <2>5, <2>6, HandledKeeps
<1>6. CASE n \notin DOMAIN index
  <2>1. UNCHANGED <<index, msn, gone, reopen>>
    BY <1>6 DEF cmd_parse_expunge
  <2> HIDE DEF n
  <2>2. ClientTyped'
    BY <1>1, <2>1 DEF ClientTyped, Typed, TypeOK, serverVars, Uids, NULL
  <2>3. Found' /\ Complete'
    BY <1>1, <2>1, CompleteAfter DEF Found
  <2>4. ASSUME NEW s, NEW t, Reading(s, t) PROVE Follows(s, t)
    <3>1. n \in DOMAIN s /\ t = RemoveAt(s, n) /\ s \in Seq(Uids)
      BY <1>4, <2>4
    <3>2. n > Len(index)
      <4>1. Len(index) \in Nat /\ DOMAIN index = 1 .. Len(index) /\ DOMAIN s = 1 .. Len(s)
        BY <1>1, <3>1, SeqParts DEF Typed
      <4> QED BY <1>6, <3>1, <4>1
    <3> QED BY <1>1, <2>1, <2>4, <3>1, <3>2, StayFollows
  <2> QED BY <1>1, <1>2, <2>2, <2>3, <2>4, HandledKeeps
<1> QED BY <1>5, <1>6

LEMMA VanishedKeeps ==
  ASSUME Numbered, HandleUntagged, Head(wire).kind = "VANISHED", cmd_parse_vanished(Head(wire).uid)
  PROVE  Numbered'
<1> DEFINE u == Head(wire).uid
<1>1. /\ Typed /\ Found /\ Complete /\ wire # <<>> /\ wire' = Tail(wire) /\ pc # "ready"
      /\ UNCHANGED <<serverVars, cur, sent, idle, pc, range, qresync, short, newMailCount>>
      /\ raced' = (raced \/ pc = "fetch")
      /\ reopen' = reopen \cup {"EXPUNGE_PENDING"}
  BY DEF Numbered, HandleUntagged, cmd_parse_vanished
<1>2. ~Tagged(Head(wire)) /\ Head(wire).kind # "+"
  BY DEF Tagged
<1>3. qresync
  BY <1>1, TailTyped DEF serverVars
<1>4. \A s, t : Reading(s, t) =>
        /\ s \in Seq(Uids) /\ IsInjective(s) /\ (~Adrift => Matched(s))
        /\ \E p \in DOMAIN s : s[p] = u /\ t = RemoveAt(s, p)
        /\ ~Adrift => \A v \in gone : v \notin Range(s)
  BY AgreedIs DEF Reading, Tells
<1>5. /\ index \in Seq(Uids \cup {NULL}) /\ Len(index) \in Nat /\ DOMAIN index = 1 .. Len(index)
      /\ DOMAIN msn \subseteq Uids /\ msn \in [DOMAIN msn -> Nat] /\ gone \subseteq DOMAIN msn
      /\ 0 \notin Uids /\ NULL = 0
  BY <1>1, SeqParts DEF Typed, TypeOK, Uids, NULL
<1>6. reopen \subseteq reopen' /\ reopen' \subseteq {"ALLOW", "EXPUNGE_PENDING", "NEWMAIL_PENDING"}
  BY <1>1 DEF Typed, TypeOK
<1>7. CASE u \in DOMAIN msn /\ msn[u] \in DOMAIN index /\ index[msn[u]] = u
  <2> DEFINE n == msn[u]
  <2>1. /\ n \in DOMAIN index /\ index[n] = u /\ u # NULL /\ u \in DOMAIN msn
        /\ Renumber(n) /\ gone' = gone \cup {u}
    BY <1>5, <1>7 DEF cmd_parse_vanished
  <2> HIDE DEF u, n
  <2>a. gone' = gone \cup ({index[n]} \ {NULL})
    BY <2>1
  <2>2. /\ index' \in Seq(Uids \cup {NULL})
        /\ DOMAIN msn' = DOMAIN msn /\ msn' \in [DOMAIN msn -> Nat]
        /\ Found'
        /\ (\A i \in DOMAIN index : index[i] # NULL) => \A i \in DOMAIN index' : index'[i] # NULL
    BY <1>1, <2>1, <2>a, MovedDown
  <2>3. ClientTyped'
    <3>1. Range(index') \subseteq Uids \cup {NULL}
      BY <2>2, SeqParts DEF Range
    <3>2. gone' \subseteq DOMAIN msn'
      BY <1>5, <2>1, <2>2
    <3> QED BY <1>1, <1>6, <2>2, <3>1, <3>2 DEF ClientTyped, Typed, TypeOK, serverVars, Uids, NULL
  <2>4. Complete'
    BY <1>1, <2>2, CompleteAfter
  <2>5. ASSUME NEW s, NEW t, Reading(s, t) PROVE Follows(s, t)
    <3>1. ~Adrift => n \in DOMAIN s /\ t = RemoveAt(s, n)
      <4> SUFFICES ASSUME ~Adrift PROVE n \in DOMAIN s /\ t = RemoveAt(s, n)
        OBVIOUS
      <4>1. n \in DOMAIN s /\ s[n] = u
        BY <1>4, <2>1, <2>5 DEF Matched
      <4>2. PICK p \in DOMAIN s : s[p] = u /\ t = RemoveAt(s, p)
        BY <1>4, <2>5
      <4>3. p = n
        BY <1>4, <2>5, <4>1, <4>2 DEF IsInjective
      <4> QED BY <4>1, <4>2, <4>3
    <3> QED BY <1>1, <1>6, <2>1, <2>a, <2>5, <3>1, MovedFollows
  <2> QED BY <1>1, <1>2, <2>2, <2>3, <2>4, <2>5, HandledKeeps
<1>8. CASE u \in DOMAIN msn /\ ~(msn[u] \in DOMAIN index /\ index[msn[u]] = u)
  <2>1. msn' = [msn EXCEPT ![u] = 0] /\ index' = index /\ gone' = gone \cup {u} /\ u \in DOMAIN msn
    BY <1>8 DEF cmd_parse_vanished
  <2>2. u \in gone
    BY <1>1, <1>8 DEF Found
  <2>3. Adrift /\ Adrift' /\ (raced \/ short) /\ (raced' \/ short')
    <3>1. PICK s, t : Reading(s, t)
      BY <1>1, SomeReading
    <3>2. u \in Range(s)
      BY <1>4, <3>1 DEF Range
    <3>3. Adrift
      BY <1>4, <2>2, <3>1, <3>2
    <3> QED BY <1>1, <3>3 DEF Adrift
  <2> HIDE DEF u
  <2>4. DOMAIN msn' = DOMAIN msn /\ msn' \in [DOMAIN msn -> Nat]
    BY <1>5, <2>1
  <2>5. ClientTyped'
    BY <1>1, <1>5, <1>6, <2>1, <2>4 DEF ClientTyped, Typed, TypeOK, serverVars, Uids, NULL
  <2>6. Found'
    <3>1. ASSUME NEW v \in DOMAIN msn' \ gone' PROVE msn'[v] \in DOMAIN index' /\ index'[msn'[v]] = v
      <4>1. v \in DOMAIN msn \ gone /\ v # u
        BY <2>1, <2>4
      <4>2. msn'[v] = msn[v]
        BY <1>5, <2>1, <4>1
      <4> QED BY <1>1, <2>1, <4>1, <4>2 DEF Found
    <3> QED BY <3>1 DEF Found
  <2>7. Complete'
    BY <2>3 DEF Complete
  <2>8. ASSUME NEW s, NEW t, Reading(s, t) PROVE Follows(s, t)
    BY <2>3 DEF Follows, Agreed, Reached
  <2> QED BY <1>1, <1>2, <2>5, <2>6, <2>7, <2>8, HandledKeeps
<1>9. CASE u \notin DOMAIN msn
  <2>1. UNCHANGED <<index, msn, gone>>
    BY <1>9 DEF cmd_parse_vanished
  <2> HIDE DEF u
  <2>2. ClientTyped'
    BY <1>1, <1>6, <2>1 DEF ClientTyped, Typed, TypeOK, serverVars, Uids, NULL
  <2>3. Found' /\ Complete'
    BY <1>1, <2>1, CompleteAfter DEF Found
  <2>4. ASSUME NEW s, NEW t, Reading(s, t) PROVE Follows(s, t)
    <3>1. ASSUME ~Adrift' PROVE \E p \in DOMAIN s : p > Len(index) /\ t = RemoveAt(s, p)
      <4>1. PICK p \in DOMAIN s : s[p] = u /\ t = RemoveAt(s, p)
        BY <1>4, <2>4
      <4>2. ~raced /\ ~short /\ pc # "fetch" /\ ~Adrift
        BY <1>1, <1>3, <3>1 DEF Adrift
      <4>3. \A i \in DOMAIN index : index[i] # NULL
        BY <1>1, <4>2 DEF Complete
      <4>4. p \notin DOMAIN index
        BY <1>4, <1>9, <2>4, <4>1, <4>2, <4>3 DEF Matched
      <4>5. DOMAIN s = 1 .. Len(s) /\ Len(s) \in Nat
        BY <1>4, <2>4, SeqParts
      <4>6. p > Len(index)
        BY <1>5, <4>1, <4>4, <4>5
      <4> QED BY <4>1, <4>6
    <3> QED BY <1>1, <1>6, <2>1, <2>4, <3>1, StayFollows
  <2> QED BY <1>1, <1>2, <2>2, <2>3, <2>4, HandledKeeps
<1> QED BY <1>7, <1>8, <1>9

\* A header is taken: it is the message with its number.
LEMMA NewHeaderKeeps ==
  ASSUME Numbered, HandleUntagged, Head(wire).kind = "HEADER",
         HandleHeader(Head(wire).n, Head(wire).uid),
         pc = "fetch", NewHeader(Head(wire).n, Head(wire).uid)
  PROVE  Numbered'
<1> DEFINE n == Head(wire).n
           u == Head(wire).uid
           len == IF n > Len(index) THEN n ELSE Len(index)
<1>1. /\ Typed /\ Found /\ Complete /\ wire # <<>> /\ wire' = Tail(wire) /\ pc # "ready"
      /\ UNCHANGED <<serverVars, cur, sent, idle, pc, range>>
      /\ UNCHANGED <<gone, reopen, newMailCount, qresync, raced, short>>
  BY DEF Numbered, HandleUntagged, HandleHeader, ghosts
<1>2. ~Tagged(Head(wire)) /\ Head(wire).kind # "+"
  BY DEF Tagged
<1>3. \A s, t : Reading(s, t) =>
        /\ s \in Seq(Uids) /\ IsInjective(s) /\ (~Adrift => Matched(s)) /\ Reached(s)
        /\ t = s /\ n \in DOMAIN s /\ s[n] = u
        /\ ~Adrift => \A v \in gone : v \notin Range(s)
  BY AgreedIs DEF Reading, Tells
<1>4. /\ index \in Seq(Uids \cup {NULL}) /\ Len(index) \in Nat /\ DOMAIN index = 1 .. Len(index)
      /\ \A i \in 1 .. Len(index) : index[i] \in Uids \cup {NULL}
      /\ DOMAIN msn \subseteq Uids /\ msn \in [DOMAIN msn -> Nat] /\ gone \subseteq DOMAIN msn
      /\ 0 \notin Uids /\ NULL = 0 /\ range.upto \in Nat
  BY <1>1, SeqParts DEF Typed, TypeOK, Uids, NULL
<1>5. u \in Uids /\ u \in 1 .. nextUid - 1
  <2>1. PICK s, t : Reading(s, t)
    BY <1>1, SomeReading
  <2>2. u \in Uids
    BY <1>3, <2>1, SeqParts
  <2>3. u < nextUid /\ nextUid \in Int
    BY <1>1, TailTyped DEF serverVars, Typed, TypeOK
  <2>4. u \in 1 .. MaxUid
    BY <2>2 DEF Uids
  <2> HIDE DEF u
  <2>5. u \in 1 .. nextUid - 1
    BY <2>3, <2>4
  <2> QED BY <2>2, <2>5
<1>6. n \in 1 .. range.upto /\ n \in Nat /\ n >= 1 /\ (n <= Len(index) => index[n] = NULL)
  BY <1>4 DEF NewHeader, max_msn
<1>7. /\ index' = [i \in 1 .. len |-> IF i = n THEN u ELSE IF i > Len(index) THEN NULL ELSE index[i]]
      /\ msn' = [v \in DOMAIN msn \cup {u} |-> IF v = u THEN n ELSE msn[v]]
  BY DEF HandleHeader, max_msn
<1> HIDE DEF n, u
<1>8. len \in Nat /\ n \in 1 .. len /\ Len(index) <= len /\ (len = n \/ len = Len(index))
  BY <1>4, <1>6
<1> HIDE DEF len
<1>9. /\ DOMAIN index' = 1 .. len
      /\ index'[n] = u
      /\ \A i \in 1 .. Len(index) : i # n => i \in 1 .. len /\ index'[i] = index[i]
      /\ \A i \in 1 .. len : i = n \/ (i \in 1 .. Len(index) /\ index'[i] = index[i]) \/ index'[i] = NULL
  <2>1. DOMAIN index' = 1 .. len /\ index'[n] = u
    BY <1>7, <1>8
  <2>2. ASSUME NEW i \in 1 .. Len(index), i # n PROVE i \in 1 .. len /\ index'[i] = index[i]
    <3>1. i \in 1 .. len /\ ~(i > Len(index))
      BY <1>4, <1>8
    <3> QED BY <1>7, <2>2, <3>1
  <2>3. ASSUME NEW i \in 1 .. len
        PROVE  i = n \/ (i \in 1 .. Len(index) /\ index'[i] = index[i]) \/ index'[i] = NULL
    <3>1. i > Len(index) \/ i \in 1 .. Len(index)
      BY <1>4, <1>8
    <3>2. CASE i > Len(index)
      BY <1>7, <3>2
    <3> QED BY <2>2, <3>1, <3>2
  <2> QED BY <2>1, <2>2, <2>3
<1>10. /\ DOMAIN msn' = DOMAIN msn \cup {u} /\ msn'[u] = n
       /\ \A v \in DOMAIN msn : v # u => msn'[v] = msn[v]
  BY <1>7
<1>11. index' \in Seq(Uids \cup {NULL}) /\ Len(index') = len
  <2>1. \A i \in 1 .. len : index'[i] \in Uids \cup {NULL}
    BY <1>4, <1>5, <1>9
  <2>2. index' = [i \in 1 .. len |-> index'[i]]
    BY <1>7
  <2>3. index' \in [1 .. len -> Uids \cup {NULL}]
    BY <2>1, <2>2
  <2>4. index' \in Seq(Uids \cup {NULL})
    BY <1>8, <2>3, SeqDef
  <2>5. Len(index') \in Nat /\ DOMAIN index' = 1 .. Len(index')
    BY <2>4, SeqParts
  <2> QED BY <1>8, <1>9, <2>4, <2>5
<1>12. ClientTyped'
  <2>1. msn' \in [DOMAIN msn' -> Nat]
    <3>1. \A v \in DOMAIN msn \cup {u} : msn'[v] \in Nat
      BY <1>4, <1>6, <1>10
    <3>2. msn' = [v \in DOMAIN msn' |-> msn'[v]]
      BY <1>7
    <3> QED BY <1>10, <3>1, <3>2
  <2>2. Range(index') \subseteq Uids \cup {NULL}
    BY <1>11, SeqParts DEF Range
  <2>3. DOMAIN msn' \subseteq Uids /\ DOMAIN msn' \subseteq 1 .. nextUid - 1 /\ gone' \subseteq DOMAIN msn'
    BY <1>1, <1>4, <1>5, <1>10 DEF Typed, TypeOK
  <2> QED BY <1>1, <1>11, <2>1, <2>2, <2>3 DEF ClientTyped, Typed, TypeOK, serverVars, Uids, NULL
<1>13. Found'
  <2>1. ASSUME NEW v \in DOMAIN msn' \ gone' PROVE msn'[v] \in DOMAIN index' /\ index'[msn'[v]] = v
    <3>1. CASE v = u
      BY <1>8, <1>9, <1>10, <3>1
    <3>2. CASE v # u
      <4>1. v \in DOMAIN msn \ gone /\ msn'[v] = msn[v] /\ v # NULL
        BY <1>1, <1>4, <1>10, <3>2
      <4>2. msn[v] \in 1 .. Len(index) /\ index[msn[v]] = v
        BY <1>1, <1>4, <4>1 DEF Found
      <4>3. msn[v] # n
        <5> SUFFICES ASSUME msn[v] = n PROVE FALSE
          OBVIOUS
        <5>1. n <= Len(index)
          BY <1>4, <4>2
        <5> QED BY <1>6, <4>1, <4>2, <5>1
      <4> QED BY <1>9, <4>1, <4>2, <4>3
    <3> QED BY <3>1, <3>2
  <2> QED BY <2>1 DEF Found
<1>14. Complete'
  <2> SUFFICES ASSUME ~raced', ~short' PROVE Complete'
    BY DEF Complete
  <2>1. /\ Len(index) <= range.upto
        /\ \A i \in 1 .. range.upto : Filled(i) \/ Coming(i)
    BY <1>1 DEF Complete
  <2>2. Len(index') <= range'.upto
    BY <1>1, <1>4, <1>6, <1>8, <1>11, <2>1
  <2>3. ASSUME NEW i \in 1 .. range'.upto PROVE Filled(i)' \/ Coming(i)'
    <3>1. CASE i = n
      BY <1>4, <1>5, <1>8, <1>9, <3>1 DEF Filled, NULL
    <3>2. CASE i # n /\ Filled(i)
      BY <1>4, <1>9, <3>2 DEF Filled, NULL
    <3>3. CASE i # n /\ Coming(i)
      BY <1>1, <3>3, ComingStays DEF serverVars, n
    <3> QED BY <1>1, <2>1, <3>1, <3>2, <3>3
  <2> QED BY <1>1, <2>2, <2>3 DEF Complete
<1>15. ASSUME NEW s, NEW t, Reading(s, t) PROVE Follows(s, t)
  <2>1. /\ s \in Seq(Uids) /\ IsInjective(s) /\ (~Adrift => Matched(s)) /\ Reached(s)
        /\ t = s /\ n \in DOMAIN s /\ s[n] = u
        /\ ~Adrift => \A v \in gone : v \notin Range(s)
    BY <1>3, <1>15
  <2>2. Adrift' = Adrift
    BY <1>1 DEF Adrift
  <2>3. Agreed(t)'
    <3> SUFFICES ASSUME ~Adrift PROVE Matched(t)'
      BY <2>2, AgreedIs
    <3>1. Matched(s) /\ u \notin gone
      BY <2>1 DEF Range
    <3>2. ASSUME NEW i \in DOMAIN index', index'[i] # NULL
          PROVE  /\ i \in DOMAIN s /\ s[i] = index'[i]
                 /\ index'[i] \in DOMAIN msn' \ gone' /\ msn'[index'[i]] = i
      <4>1. CASE i = n
        BY <1>1, <1>9, <1>10, <2>1, <3>1, <4>1
      <4>2. CASE i # n
        <5>1. i \in 1 .. Len(index) /\ index'[i] = index[i]
          BY <1>9, <3>2, <4>2
        <5>2. /\ i \in DOMAIN s /\ s[i] = index[i]
              /\ index[i] \in DOMAIN msn \ gone /\ msn[index[i]] = i
          BY <1>4, <3>1, <3>2, <5>1 DEF Matched
        <5>3. index[i] # u
          BY <2>1, <4>2, <5>2 DEF IsInjective
        <5> QED BY <1>1, <1>10, <5>1, <5>2, <5>3
      <4> QED BY <4>1, <4>2
    <3> QED BY <2>1, <3>2 DEF Matched, NULL
  <2>4. Reached(t)'
    <3>1. Len(s) \in Nat
      BY <2>1, SeqParts
    <3>2. Len(s) <= Len(index) => Len(t) <= Len(index')
      BY <1>4, <1>8, <1>11, <2>1, <3>1
    <3> QED BY <1>1, <2>1, <3>2 DEF Reached
  <2> QED BY <1>1, <2>2, <2>3, <2>4 DEF Follows
<1> QED BY <1>1, <1>2, <1>12, <1>13, <1>14, <1>15, HandledKeeps

\* A header that is not asked for, or is there.
LEMMA OldHeaderKeeps ==
  ASSUME Numbered, HandleUntagged, Head(wire).kind = "HEADER",
         HandleHeader(Head(wire).n, Head(wire).uid),
         ~(pc = "fetch" /\ NewHeader(Head(wire).n, Head(wire).uid))
  PROVE  Numbered'
<1>1. /\ Typed /\ Found /\ Complete /\ wire # <<>> /\ wire' = Tail(wire) /\ pc # "ready"
      /\ UNCHANGED <<serverVars, cur, sent, idle, pc, range>>
      /\ UNCHANGED <<gone, reopen, newMailCount, qresync, raced, short, index, msn>>
  BY DEF Numbered, HandleUntagged, HandleHeader, ghosts
<1>2. ~Tagged(Head(wire)) /\ Head(wire).kind # "+"
  BY DEF Tagged
<1>3. ClientTyped' /\ Found'
  BY <1>1 DEF ClientTyped, Typed, TypeOK, Found, serverVars, Uids, NULL
<1>4. Complete'
  <2>1. CASE pc # "fetch"
    BY <1>1, <2>1 DEF Complete, NULL
  <2>2. CASE pc = "fetch"
    <3>1. ASSUME ~raced, ~short, NEW i \in 1 .. range.upto PROVE Filled(i)' \/ Coming(i)'
      <4>1. Filled(i) \/ Coming(i)
        BY <1>1, <2>2, <3>1 DEF Complete
      <4>2. CASE Filled(i)
        BY <1>1, <4>2 DEF Filled, NULL
      <4>3. CASE Coming(i)
        <5>1. Coming(i)' \/ (Head(wire).kind = "HEADER" /\ Head(wire).n = i)
          BY <1>1, <4>3, ComingStays DEF serverVars
        <5>2. CASE Head(wire).n = i
          <6>1. i <= max_msn /\ index[i] # NULL
            BY <2>2, <3>1, <5>2 DEF NewHeader
          <6>2. i \in DOMAIN index
            <7>1. Len(index) \in Nat /\ DOMAIN index = 1 .. Len(index)
              BY <1>1, SeqParts DEF Typed
            <7> QED BY <3>1, <6>1, <7>1 DEF max_msn
          <6> QED BY <1>1, <6>1, <6>2 DEF Filled, NULL
        <5> QED BY <5>1, <5>2
      <4> QED BY <4>1, <4>2, <4>3
    <3>2. ~raced /\ ~short => Len(index) <= range.upto
      BY <1>1, <2>2 DEF Complete
    <3> QED BY <1>1, <2>2, <3>1, <3>2 DEF Complete
  <2> QED BY <2>1, <2>2
<1>5. ASSUME NEW s, NEW t, Reading(s, t) PROVE Follows(s, t)
  <2>1. t = s /\ Agreed(s) /\ Reached(s)
    BY <1>5 DEF Reading, Tells
  <2>2. Adrift' = Adrift
    BY <1>1 DEF Adrift
  <2>3. Agreed(t)'
    BY <1>1, <2>1, <2>2 DEF Agreed, NULL
  <2>4. Reached(t)'
    BY <1>1, <2>1 DEF Reached
  <2> QED BY <1>1, <2>2, <2>3, <2>4 DEF Follows
<1> QED BY <1>1, <1>2, <1>3, <1>4, <1>5, HandledKeeps

LEMMA HandleUntaggedKeeps ==
  ASSUME Numbered, HandleUntagged
  PROVE  Numbered'
<1>1. \/ Head(wire).kind = "EXISTS" /\ HandleExists(Head(wire).n)
      \/ Head(wire).kind = "EXPUNGE" /\ cmd_parse_expunge(Head(wire).n)
      \/ Head(wire).kind = "VANISHED" /\ cmd_parse_vanished(Head(wire).uid)
      \/ Head(wire).kind = "HEADER" /\ HandleHeader(Head(wire).n, Head(wire).uid)
      \/ Head(wire).kind = "FLAGS" /\ UNCHANGED <<clientVars, reopen, ghosts>>
  BY DEF HandleUntagged
<1> QED BY <1>1, ExistsKeeps, ExpungeKeeps, VanishedKeeps, NewHeaderKeeps, OldHeaderKeeps, FlagsKeep

(***************************************************************************)
(* A command ends.                                                         *)
(***************************************************************************)
LEMMA EnterIdleKeeps ==
  ASSUME Numbered, EnterIdle
  PROVE  Numbered'
<1>1. /\ Typed /\ Found /\ Complete /\ Greeted /\ wire # <<>> /\ wire' = Tail(wire)
      /\ pc = "enter" /\ Head(wire).kind = "+" /\ idle' = TRUE /\ pc' = "poll"
      /\ UNCHANGED <<serverVars, cur, sent, range, reopen, index, msn, gone, newMailCount, qresync, raced, short>>
  BY DEF Numbered, Protocol, EnterIdle, clientVars, ghosts
<1>2. /\ wire' \in Seq(Lines)
      /\ \A k \in DOMAIN wire' :
           /\ wire'[k].uid < nextUid'
           /\ wire'[k].kind = "EXPUNGE" => ~qresync'
           /\ wire'[k].kind = "VANISHED" => qresync'
           /\ wire'[k].kind = "NO" => short'
      /\ Len(wire) \in Nat /\ Len(wire') = Len(wire) - 1 /\ DOMAIN wire = 1 .. Len(wire)
      /\ 1 \in DOMAIN wire /\ Head(wire) = wire[1]
      /\ \A k \in DOMAIN wire' : k + 1 \in DOMAIN wire /\ wire'[k] = wire[k + 1]
  BY <1>1, TailTyped DEF serverVars
<1>3. Typed'
  BY <1>1, <1>2 DEF Typed, TypeOK, serverVars
<1>4. sent = <<>> /\ cur = "IDLE" /\ Untagged
  <2>1. sent = <<>>
    BY <1>1, <1>2 DEF Greeted
  <2>2. Untagged /\ (sent = <<Command("IDLE", 0, 0)>> \/ cur = "IDLE")
    BY <1>1 DEF Numbered, Protocol
  <2>3. sent # <<Command("IDLE", 0, 0)>>
    BY <2>1
  <2> QED BY <2>1, <2>2, <2>3
<1>5. Greeted'
  <2>1. ASSUME NEW k \in DOMAIN wire' PROVE wire'[k].kind # "+"
    <3> SUFFICES ASSUME wire'[k].kind = "+" PROVE FALSE
      OBVIOUS
    <3>1. k + 1 \in DOMAIN wire /\ wire[k + 1].kind = "+" /\ k + 1 = 1
      BY <1>1, <1>2 DEF Greeted
    <3>2. DOMAIN wire' = 1 .. Len(wire')
      BY <1>2, SeqParts
    <3> QED BY <3>1, <3>2
  <2> QED BY <2>1 DEF Greeted
<1>6. Protocol'
  <2>1. Untagged'
    BY <1>2, <1>4 DEF Untagged, Tagged
  <2> QED BY <1>1, <1>4, <1>5, <2>1 DEF Protocol
<1>7. Found' /\ Complete'
  BY <1>1 DEF Found, Complete, NULL
<1>8. ASSUME NEW s, NEW t, Reading(s, t) PROVE Follows(s, t)
  <2>1. t = s /\ Agreed(s) /\ Reached(s)
    BY <1>1, <1>8 DEF Reading, Tells
  <2>2. Adrift' = Adrift
    BY <1>1 DEF Adrift
  <2>3. Agreed(t)'
    BY <1>1, <2>1, <2>2 DEF Agreed, NULL
  <2>4. Reached(t)'
    BY <1>1, <2>1 DEF Reached
  <2> QED BY <1>1, <2>2, <2>3, <2>4 DEF Follows
<1>9. (\E N : InStep(N, wire, sess, mbox))'
  BY <1>1, <1>8, ReadKeeps DEF serverVars
<1> QED BY <1>3, <1>6, <1>7, <1>9 DEF Numbered

\* The answer is the last line there is.
LEMMA LastLine ==
  ASSUME Numbered, wire # <<>>, Tagged(Head(wire)), wire' = Tail(wire), pc \in {"exec", "fetch"}
  PROVE  /\ sent = <<>> /\ cur = "none" /\ ~idle /\ wire' = <<>>
         /\ \A k \in DOMAIN wire : wire[k] = Head(wire)
<1>1. wire \in Seq(Lines) /\ Protocol
  BY DEF Numbered, Typed
<1>2. /\ Len(wire) \in Nat /\ Len(wire) >= 1 /\ DOMAIN wire = 1 .. Len(wire)
      /\ Head(wire) = wire[1] /\ wire' \in Seq(Lines) /\ Len(wire') = Len(wire) - 1
  BY <1>1, SeqParts, HeadTailProperties
<1>3. ~idle /\ \E c : Exchange(c)
  BY <1>1 DEF Protocol
<1>4. ~Untagged
  BY <1>2 DEF Untagged
<1>5. /\ sent = <<>> /\ cur = "none"
      /\ \A k \in 1 .. Len(wire) - 1 : ~Tagged(wire[k])
  BY <1>3, <1>4 DEF Exchange
<1>6. Len(wire) = 1
  <2> SUFFICES ASSUME Len(wire) # 1 PROVE FALSE
    OBVIOUS
  <2>1. 1 \in 1 .. Len(wire) - 1
    BY <1>2
  <2> QED BY <1>2, <1>5, <2>1
<1>7. wire' = <<>>
  BY <1>2, <1>6, EmptySeq
<1>8. \A k \in DOMAIN wire : wire[k] = Head(wire)
  <2>1. \A k \in DOMAIN wire : k = 1
    BY <1>2, <1>6
  <2> QED BY <1>2, <2>1
<1> QED BY <1>3, <1>5, <1>7, <1>8

LEMMA ChunkBounds ==
  ASSUME Bounds, NEW b \in Nat, NEW e \in Nat, b <= e
  PROVE  Chunk(b, e) \in Nat /\ b <= Chunk(b, e) /\ Chunk(b, e) <= e
<1>1. ChunkSize \in Nat
  BY DEF Bounds
<1>2. CASE ChunkSize = 0 \/ e - b + 1 <= ChunkSize
  BY <1>2 DEF Chunk
<1>3. CASE ~(ChunkSize = 0 \/ e - b + 1 <= ChunkSize)
  <2>1. Chunk(b, e) = b + ChunkSize - 1
    BY <1>3 DEF Chunk
  <2>2. ChunkSize >= 1 /\ e - b + 1 > ChunkSize
    BY <1>1, <1>3
  <2> QED BY <1>1, <2>1, <2>2
<1> QED BY <1>2, <1>3

\* The FETCH of a chunk is sent when no command is waited for.
LEMMA FetchChunkSends ==
  ASSUME Bounds, NEW b \in Nat, NEW e \in Nat, 1 <= b, b <= e, e <= MaxUid, FetchChunk(b, e),
         sent = <<>>, wire' = <<>>, cur' = cur,
         \/ idle /\ cur = "IDLE"
         \/ ~idle /\ cur = "none"
  PROVE  /\ sent' \in Seq(Commands) /\ idle' = FALSE /\ pc' = "fetch"
         /\ range' \in [begin : Nat, upto : Nat, last : Nat]
         /\ 1 <= range'.begin /\ range'.begin <= range'.upto /\ range'.upto <= range'.last
         /\ range'.last = e /\ range'.begin = b /\ range'.last <= MaxUid
         /\ Protocol'
         /\ \A i \in b .. range'.upto : Coming(i)'
<1> DEFINE c == Command("FETCH", b, Chunk(b, e))
<1>1. Chunk(b, e) \in Nat /\ b <= Chunk(b, e) /\ Chunk(b, e) <= e
  BY ChunkBounds
<1>2. /\ range' = [begin |-> b, upto |-> Chunk(b, e), last |-> e]
      /\ sent' = sent \o Send(c) /\ idle' = FALSE /\ pc' = "fetch"
  BY DEF FetchChunk
<1>3. /\ range' \in [begin : Nat, upto : Nat, last : Nat]
      /\ 1 <= range'.begin /\ range'.begin <= range'.upto /\ range'.upto <= range'.last
      /\ range'.last = e /\ range'.begin = b /\ range'.last <= MaxUid /\ range'.upto = Chunk(b, e)
  BY <1>1, <1>2
<1>4. c \in Commands /\ Done \in Commands /\ c = Command("FETCH", range'.begin, range'.upto)
  BY <1>1, <1>3 DEF Command, Commands, Done
<1>5. c.verb = "FETCH" /\ c.b = b /\ c.e = range'.upto
  BY <1>3 DEF Command
<1> HIDE DEF c
<1>6. <<c>> \in Seq(Commands) /\ <<Done, c>> \in Seq(Commands)
  BY <1>4
<1>7. <<>> \o (<<>> \o <<c>>) = <<c>> /\ <<>> \o (<<Done>> \o <<c>>) = <<Done, c>>
  BY Queues
<1>8. \/ idle /\ sent' = <<Done, c>> /\ cur' = "IDLE"
      \/ ~idle /\ sent' = <<c>> /\ cur' = "none"
  <2>1. CASE idle
    <3>1. sent' = <<Done, c>>
      BY <1>2, <1>7, <2>1 DEF Send, Done
    <3> QED BY <2>1, <3>1
  <2>2. CASE ~idle
    <3>1. sent' = <<c>>
      BY <1>2, <1>7, <2>2 DEF Send
    <3> QED BY <2>2, <3>1
  <2> QED BY <2>1, <2>2
<1>9. Untagged' /\ Greeted'
  BY DEF Untagged, Greeted
<1>10. Exchange(c)'
  BY <1>8, <1>9 DEF Exchange, Done
<1>11. Protocol'
  <2>1. Exchange(Command("FETCH", range.begin, range.upto))'
    BY <1>4, <1>10
  <2> QED BY <1>2, <1>9, <2>1 DEF Protocol
<1>12. \A i \in b .. range'.upto : Coming(i)'
  <2>1. \E k \in DOMAIN sent' : sent'[k] = c
    BY <1>8
  <2> QED BY <1>5, <2>1 DEF Coming
<1> QED BY <1>2, <1>3, <1>6, <1>8, <1>11, <1>12

\* imap_cmd_finish() after the last line.
LEMMA FinishKeeps ==
  ASSUME Bounds, Numbered, imap_cmd_finish, wire' = <<>>, sent = <<>>,
         \/ pc = "poll" /\ idle /\ cur = "IDLE"
         \/ pc = "exec" /\ ~idle /\ cur = "none"
  PROVE  /\ Typed' /\ Protocol' /\ Found' /\ Complete'
         /\ \A s : Agreed(s) => Agreed(s)'
         /\ \A s : Len(s) \in Nat /\ Reached(s) => Reached(s)'
         /\ Adrift' = Adrift /\ gone' \subseteq gone
<1> DEFINE removed == IF ExpungePending THEN gone ELSE {}
<1>1. /\ Typed /\ Found /\ Complete
      /\ msn' = Drop(msn, removed) /\ gone' = gone \ removed
      /\ UNCHANGED <<mbox, sess, nextUid, cur, index, qresync, raced, short>>
  BY DEF Numbered, imap_cmd_finish, serverVars, ghosts
<1>2. removed = gone \/ removed = {}
  OBVIOUS
<1> HIDE DEF removed
<1>3. /\ DOMAIN msn' = DOMAIN msn \ removed /\ DOMAIN msn' \ gone' = DOMAIN msn \ gone
      /\ \A u \in DOMAIN msn' : msn'[u] = msn[u]
      /\ msn' \in [DOMAIN msn' -> Nat] /\ gone' \subseteq DOMAIN msn' /\ DOMAIN msn' \subseteq DOMAIN msn
  <2>1. /\ DOMAIN msn' = DOMAIN msn \ removed
        /\ \A u \in DOMAIN msn' : msn'[u] = msn[u]
    BY <1>1 DEF Drop
  <2>2. msn' = [u \in DOMAIN msn' |-> msn'[u]]
    BY <1>1 DEF Drop
  <2>3. msn \in [DOMAIN msn -> Nat] /\ gone \subseteq DOMAIN msn
    BY <1>1 DEF Typed, TypeOK
  <2>4. \A u \in DOMAIN msn' : msn'[u] \in Nat
    BY <2>1, <2>3
  <2> QED BY <1>1, <1>2, <2>1, <2>2, <2>3, <2>4
<1>4. Found'
  BY <1>1, <1>3 DEF Found
<1>5. \A s : Agreed(s) => Agreed(s)'
  <2>1. Adrift' = Adrift
    BY <1>1 DEF Adrift
  <2> QED BY <1>1, <1>3, <2>1 DEF Agreed, NULL
<1>6. Adrift' = Adrift /\ gone' \subseteq gone
  BY <1>1 DEF Adrift
<1>7. /\ Len(index) \in Nat /\ DOMAIN index = 1 .. Len(index)
      /\ newMailCount \in Nat /\ newMailCount <= MaxUid /\ MaxUid \in Nat
      /\ reopen \subseteq {"ALLOW", "EXPUNGE_PENDING", "NEWMAIL_PENDING"}
  BY <1>1, SeqParts DEF Typed, TypeOK, Bounds
<1>8. ~raced /\ ~short => \A i \in DOMAIN index : index[i] # NULL
  BY <1>1 DEF Complete
<1>9. wire' \in Seq(Lines) /\ DOMAIN wire' = {}
  BY EmptySeq
<1>10. CASE NewMailPending /\ newMailCount > max_msn
  <2>1. /\ FetchChunk(Len(index) + 1, newMailCount) /\ reopen' = DownloadFlags /\ newMailCount' = 0
    BY <1>10 DEF imap_cmd_finish, max_msn
  <2>2. Len(index) + 1 \in Nat /\ 1 <= Len(index) + 1 /\ Len(index) + 1 <= newMailCount
    BY <1>7, <1>10 DEF max_msn
  <2>3. cur' = cur /\ ((idle /\ cur = "IDLE") \/ (~idle /\ cur = "none"))
    BY <1>1
  <2>4. /\ sent' \in Seq(Commands) /\ idle' = FALSE /\ pc' = "fetch"
        /\ range' \in [begin : Nat, upto : Nat, last : Nat]
        /\ 1 <= range'.begin /\ range'.begin <= range'.upto /\ range'.upto <= range'.last
        /\ range'.last = newMailCount /\ range'.begin = Len(index) + 1 /\ range'.last <= MaxUid
        /\ Protocol'
        /\ \A i \in Len(index) + 1 .. range'.upto : Coming(i)'
    BY <1>7, <2>1, <2>2, <2>3, FetchChunkSends
  <2>5. reopen' \subseteq {"ALLOW", "EXPUNGE_PENDING", "NEWMAIL_PENDING"} /\ "NEWMAIL_PENDING" \notin reopen'
        /\ newMailCount' \in 0 .. MaxUid
    BY <1>7, <2>1 DEF DownloadFlags
  <2>6. Typed'
    BY <1>1, <1>3, <1>9, <2>4, <2>5 DEF Typed, TypeOK, Uids, NULL
  <2>7. Complete'
    <3> SUFFICES ASSUME ~raced', ~short' PROVE Complete'
      BY DEF Complete
    <3>1. Len(index') <= range'.upto
      BY <1>1, <1>7, <2>4
    <3>2. ASSUME NEW i \in 1 .. range'.upto PROVE Filled(i)' \/ Coming(i)'
      <4>1. i \in 1 .. Len(index) \/ i \in Len(index) + 1 .. range'.upto
        BY <1>7, <2>4
      <4>2. CASE i \in 1 .. Len(index)
        BY <1>1, <1>7, <1>8, <4>2 DEF Filled, NULL
      <4> QED BY <2>4, <4>1, <4>2
    <3> QED BY <2>4, <3>1, <3>2 DEF Complete
  <2>8. ASSUME NEW s, Len(s) \in Nat, Reached(s) PROVE Reached(s)'
    <3> SUFFICES ASSUME ~raced, ~short PROVE Reached(s)'
      BY <1>1 DEF Reached
    <3>1. Len(s) <= Len(index) \/ Len(s) <= newMailCount
      BY <2>8 DEF Reached
    <3>2. Len(s) <= range'.last
      BY <1>7, <2>2, <2>4, <2>8, <3>1
    <3> QED BY <2>4, <2>5, <3>2 DEF Reached
  <2> QED BY <1>4, <1>5, <1>6, <2>4, <2>6, <2>7, <2>8
<1>11. CASE ~(NewMailPending /\ newMailCount > max_msn)
  <2>1. /\ pc' = "ready"
        /\ reopen' = IF ExpungePending THEN DownloadFlags
                     ELSE reopen \ ({"ALLOW"} \cup {x \in {"NEWMAIL_PENDING"} : NewMailPending})
        /\ newMailCount' = IF NewMailPending THEN 0 ELSE newMailCount
        /\ UNCHANGED <<sent, idle, range>>
    BY <1>11 DEF imap_cmd_finish
  <2>2. reopen' \subseteq {"ALLOW", "EXPUNGE_PENDING", "NEWMAIL_PENDING"} /\ newMailCount' \in 0 .. MaxUid
    <3>1. DownloadFlags \subseteq reopen /\ reopen' \subseteq reopen
      BY <2>1 DEF DownloadFlags
    <3>2. newMailCount' \in 0 .. MaxUid
      BY <1>7, <2>1
    <3> QED BY <1>7, <3>1, <3>2
  <2>3. Typed'
    BY <1>1, <1>3, <1>9, <2>1, <2>2 DEF Typed, TypeOK, Uids, NULL
  <2>4. Protocol'
    <3>1. Untagged' /\ Greeted'
      BY <1>9 DEF Untagged, Greeted
    <3> QED BY <1>1, <2>1, <3>1 DEF Protocol
  <2>5. Complete'
    BY <1>1, <1>8, <2>1 DEF Complete, NULL
  <2>6. ASSUME NEW s, Len(s) \in Nat, Reached(s) PROVE Reached(s)'
    <3> SUFFICES ASSUME ~raced, ~short PROVE Reached(s)'
      BY <1>1 DEF Reached
    <3>1. Len(s) <= Len(index) \/ ("NEWMAIL_PENDING" \in reopen /\ Len(s) <= newMailCount)
      BY <2>6 DEF Reached
    <3>2. CASE Len(s) <= Len(index)
      BY <1>1, <3>2 DEF Reached
    <3>3. CASE "NEWMAIL_PENDING" \in reopen /\ Len(s) <= newMailCount
      <4>1. CASE NewMailPending
        <5>1. newMailCount <= Len(index)
          BY <1>7, <1>11, <4>1 DEF max_msn
        <5>2. Len(s) <= Len(index)
          BY <1>7, <2>6, <3>3, <5>1
        <5> QED BY <1>1, <5>2 DEF Reached
      <4>2. CASE ~NewMailPending
        <5>1. "ALLOW" \notin reopen
          BY <3>3, <4>2 DEF NewMailPending
        <5>2. reopen' = reopen /\ newMailCount' = newMailCount
          BY <2>1, <4>2, <5>1 DEF ExpungePending
        <5> QED BY <3>3, <5>2 DEF Reached
      <4> QED BY <4>1, <4>2
    <3> QED BY <3>1, <3>2, <3>3
  <2> QED BY <1>4, <1>5, <1>6, <2>3, <2>4, <2>5, <2>6
<1> QED BY <1>10, <1>11

LEMMA PollEndsKeeps ==
  ASSUME Bounds, Numbered, PollEnds
  PROVE  Numbered'
<1>1. imap_cmd_finish /\ wire' = wire /\ wire = <<>> /\ pc = "poll"
  BY DEF PollEnds
<1>2. sent = <<>> /\ idle /\ cur = "IDLE"
  BY <1>1 DEF Numbered, Protocol
<1>3. /\ Typed' /\ Protocol' /\ Found' /\ Complete'
      /\ \A s : Agreed(s) => Agreed(s)'
      /\ \A s : Len(s) \in Nat /\ Reached(s) => Reached(s)'
      /\ Adrift' = Adrift /\ gone' \subseteq gone
  BY <1>1, <1>2, FinishKeeps
<1>4. (\E N : InStep(N, wire, sess, mbox))'
  <2>1. UNCHANGED <<wire, sess, mbox, nextUid>>
    BY <1>1 DEF imap_cmd_finish, serverVars
  <2> QED BY <1>3, <2>1, NothingRead
<1> QED BY <1>3, <1>4 DEF Numbered

LEMMA ExecEndsKeeps ==
  ASSUME Bounds, Numbered, ExecEnds
  PROVE  Numbered'
<1>1. imap_cmd_finish /\ wire' = Tail(wire) /\ wire # <<>> /\ pc = "exec" /\ Head(wire).kind = "OK"
  BY DEF ExecEnds
<1>2. sent = <<>> /\ cur = "none" /\ ~idle /\ wire' = <<>>
  BY <1>1, LastLine DEF Tagged
<1>3. /\ Typed' /\ Protocol' /\ Found' /\ Complete'
      /\ \A s : Agreed(s) => Agreed(s)'
      /\ \A s : Len(s) \in Nat /\ Reached(s) => Reached(s)'
      /\ Adrift' = Adrift /\ gone' \subseteq gone
  BY <1>1, <1>2, FinishKeeps
<1>4. ASSUME NEW s, NEW t, Reading(s, t) PROVE Follows(s, t)
  <2>1. t = s /\ Agreed(s) /\ Reached(s) /\ Len(s) \in Nat
    BY <1>1, <1>4, SeqParts DEF Reading, Tells
  <2> QED BY <1>3, <2>1 DEF Follows
<1>5. (\E N : InStep(N, wire, sess, mbox))'
  <2>1. UNCHANGED <<sess, mbox, nextUid>>
    BY <1>1 DEF imap_cmd_finish, serverVars
  <2> QED BY <1>1, <1>4, <2>1, ReadKeeps
<1> QED BY <1>3, <1>5 DEF Numbered

\* A refused FETCH leaves gaps.
LEMMA DownloadFailsKeeps ==
  ASSUME Bounds, Numbered, DownloadFails
  PROVE  Numbered'
<1>1. /\ Typed /\ Found /\ wire # <<>> /\ wire' = Tail(wire) /\ pc = "fetch" /\ Head(wire).kind = "NO"
      /\ pc' = "ready" /\ range' = NoRange
      /\ UNCHANGED <<serverVars, cur, sent, reopen, idle, index, msn, gone, newMailCount, qresync, raced, short>>
  BY DEF Numbered, DownloadFails, clientVars, ghosts
<1>2. sent = <<>> /\ cur = "none" /\ ~idle /\ wire' = <<>>
  BY <1>1, LastLine DEF Tagged
<1>3. short /\ short'
  BY <1>1, TailTyped DEF serverVars
<1>4. Typed'
  <2>1. range' \in [begin : Nat, upto : Nat, last : Nat] /\ range'.last <= MaxUid
    BY <1>1 DEF NoRange, Bounds
  <2>2. wire' \in Seq(Lines) /\ DOMAIN wire' = {}
    BY <1>2, EmptySeq
  <2> QED BY <1>1, <2>1, <2>2 DEF Typed, TypeOK, serverVars, Uids, NULL
<1>5. Protocol'
  <2>1. Untagged' /\ Greeted'
    BY <1>2 DEF Untagged, Greeted
  <2> QED BY <1>1, <1>2, <2>1 DEF Protocol
<1>6. Found' /\ Complete'
  BY <1>1, <1>3 DEF Found, Complete
<1>7. ASSUME NEW s, NEW t, Reading(s, t) PROVE Follows(s, t)
  <2>1. t = s /\ Agreed(s)
    BY <1>1, <1>7 DEF Reading, Tells
  <2>2. Adrift' = Adrift
    BY <1>1 DEF Adrift
  <2>3. Agreed(t)'
    BY <1>1, <2>1, <2>2 DEF Agreed, NULL
  <2>4. Reached(t)'
    BY <1>3 DEF Reached
  <2> QED BY <1>1, <2>2, <2>3, <2>4 DEF Follows
<1>8. (\E N : InStep(N, wire, sess, mbox))'
  BY <1>1, <1>7, ReadKeeps DEF serverVars
<1> QED BY <1>4, <1>5, <1>6, <1>8 DEF Numbered

LEMMA ChunkEndsKeeps ==
  ASSUME Bounds, Numbered, ChunkEnds
  PROVE  Numbered'
<1> DEFINE more == "NEWMAIL_PENDING" \in reopen
           last == IF more THEN newMailCount ELSE range.last
           b == range.upto + 1
<1>1. /\ Typed /\ Found /\ Complete /\ wire # <<>> /\ wire' = Tail(wire) /\ pc = "fetch" /\ Head(wire).kind = "OK"
      /\ newMailCount' = IF more THEN 0 ELSE newMailCount
      /\ reopen' = reopen \ {"NEWMAIL_PENDING"}
      /\ IF range.upto < last /\ b <= last
           THEN FetchChunk(b, last)
           ELSE pc' = "ready" /\ range' = NoRange /\ UNCHANGED <<sent, idle>>
      /\ UNCHANGED <<mbox, sess, nextUid, cur, index, msn, gone, qresync, raced, short>>
  BY DEF Numbered, ChunkEnds, serverVars, ghosts
<1>2. /\ sent = <<>> /\ cur = "none" /\ ~idle /\ wire' = <<>>
      /\ \A k \in DOMAIN wire : wire[k] = Head(wire)
  BY <1>1, LastLine DEF Tagged
<1>3. \A i : ~Coming(i)
  <2>1. DOMAIN sent = {}
    BY <1>2
  <2> QED BY <1>1, <1>2, <2>1 DEF Coming
<1>4. /\ Len(index) \in Nat /\ DOMAIN index = 1 .. Len(index)
      /\ newMailCount \in Nat /\ newMailCount <= MaxUid /\ MaxUid \in Nat
      /\ range.upto \in Nat /\ range.last \in Nat /\ range.last <= MaxUid
      /\ reopen \subseteq {"ALLOW", "EXPUNGE_PENDING", "NEWMAIL_PENDING"}
  BY <1>1, SeqParts DEF Typed, TypeOK, Bounds
<1>5. last \in Nat /\ last <= MaxUid /\ b \in Nat /\ 1 <= b
  BY <1>4
<1>6. ~raced /\ ~short => /\ Len(index) <= range.upto
                          /\ \A i \in 1 .. range.upto : Filled(i)
  BY <1>1, <1>3 DEF Complete
<1>7. ~raced /\ ~short => Len(index) = range.upto /\ \A i \in DOMAIN index : index[i] # NULL
  <2> SUFFICES ASSUME ~raced, ~short
               PROVE  Len(index) = range.upto /\ \A i \in DOMAIN index : index[i] # NULL
    OBVIOUS
  <2>1. Len(index) = range.upto
    <3> SUFFICES ASSUME Len(index) < range.upto PROVE FALSE
      BY <1>4, <1>6
    <3>1. range.upto \in 1 .. range.upto
      BY <1>4
    <3>2. range.upto \in DOMAIN index
      BY <1>6, <3>1 DEF Filled
    <3> QED BY <1>4, <3>2
  <2> QED BY <1>4, <1>6, <2>1 DEF Filled
<1>8. wire' \in Seq(Lines) /\ DOMAIN wire' = {}
  BY <1>2, EmptySeq
<1>9. /\ reopen' \subseteq {"ALLOW", "EXPUNGE_PENDING", "NEWMAIL_PENDING"} /\ "NEWMAIL_PENDING" \notin reopen'
      /\ newMailCount' \in 0 .. MaxUid
  BY <1>1, <1>4
<1>10. Found'
  BY <1>1 DEF Found
\* What was announced is known or in last.
<1>11. ASSUME ~raced, ~short, NEW s, Reached(s) PROVE Len(s) <= Len(index) \/ Len(s) <= last
  BY <1>11 DEF Reached
<1>12. ASSUME ~raced /\ ~short => \A s : Len(s) \in Nat /\ (Len(s) <= Len(index) \/ Len(s) <= last) => Reached(s)'
       PROVE  (\E N : InStep(N, wire, sess, mbox))'
  <2>1. ASSUME NEW s, NEW t, Reading(s, t) PROVE Follows(s, t)
    <3>1. t = s /\ Agreed(s) /\ Reached(s) /\ Len(s) \in Nat
      BY <1>1, <2>1, SeqParts DEF Reading, Tells
    <3>2. Adrift' = Adrift
      BY <1>1 DEF Adrift
    <3>3. Agreed(t)'
      BY <1>1, <3>1, <3>2 DEF Agreed, NULL
    <3>4. Reached(t)'
      <4>1. CASE ~raced /\ ~short
        BY <1>11, <1>12, <3>1, <4>1
      <4>2. CASE ~(~raced /\ ~short)
        BY <1>1, <4>2 DEF Reached
      <4> QED BY <4>1, <4>2
    <3> QED BY <1>1, <3>2, <3>3, <3>4 DEF Follows
  <2> QED BY <1>1, <2>1, ReadKeeps
<1>13. CASE range.upto < last /\ b <= last
  <2>1. FetchChunk(b, last)
    BY <1>1, <1>13
  <2> HIDE DEF more, last, b
  <2>2. /\ sent' \in Seq(Commands) /\ idle' = FALSE /\ pc' = "fetch"
        /\ range' \in [begin : Nat, upto : Nat, last : Nat]
        /\ 1 <= range'.begin /\ range'.begin <= range'.upto /\ range'.upto <= range'.last
        /\ range'.last = last /\ range'.begin = b /\ range'.last <= MaxUid
        /\ Protocol'
        /\ \A i \in b .. range'.upto : Coming(i)'
    BY <1>1, <1>2, <1>5, <1>13, <2>1, FetchChunkSends
  <2>3. Typed'
    BY <1>1, <1>8, <1>9, <2>2 DEF Typed, TypeOK, Uids, NULL
  <2>4. Complete'
    <3> SUFFICES ASSUME ~raced', ~short' PROVE Complete'
      BY DEF Complete
    <3>0. ~raced /\ ~short
      BY <1>1
    <3>1. Len(index) = range.upto /\ b = range.upto + 1
      BY <1>7, <3>0 DEF b
    <3>2. Len(index') <= range'.upto
      BY <1>1, <1>4, <2>2, <3>1
    <3>3. ASSUME NEW i \in 1 .. range'.upto PROVE Filled(i)' \/ Coming(i)'
      <4>1. i \in 1 .. Len(index) \/ i \in b .. range'.upto
        BY <1>4, <2>2, <3>1
      <4>2. CASE i \in 1 .. Len(index)
        BY <1>1, <1>4, <1>7, <3>0, <4>2 DEF Filled, NULL
      <4> QED BY <2>2, <4>1, <4>2
    <3> QED BY <2>2, <3>2, <3>3 DEF Complete
  <2>5. ~raced /\ ~short => \A s : Len(s) \in Nat /\ (Len(s) <= Len(index) \/ Len(s) <= last) => Reached(s)'
    BY <1>1, <1>9, <2>2 DEF Reached
  <2> QED BY <1>10, <1>12, <2>2, <2>3, <2>4, <2>5 DEF Numbered
<1>14. CASE ~(range.upto < last /\ b <= last)
  <2>1. pc' = "ready" /\ range' = NoRange /\ UNCHANGED <<sent, idle>>
    BY <1>1, <1>14
  <2>a. last <= range.upto
    BY <1>4, <1>5, <1>14
  <2> HIDE DEF more, last, b
  <2>2. Typed'
    <3>1. range' \in [begin : Nat, upto : Nat, last : Nat] /\ range'.last <= MaxUid
      BY <1>4, <2>1 DEF NoRange
    <3> QED BY <1>1, <1>8, <1>9, <2>1, <3>1 DEF Typed, TypeOK, Uids, NULL
  <2>3. Protocol'
    <3>1. Untagged' /\ Greeted'
      BY <1>8 DEF Untagged, Greeted
    <3> QED BY <1>1, <1>2, <2>1, <3>1 DEF Protocol
  <2>4. Complete'
    BY <1>1, <1>7, <2>1 DEF Complete, NULL
  <2>5. ~raced /\ ~short => \A s : Len(s) \in Nat /\ (Len(s) <= Len(index) \/ Len(s) <= last) => Reached(s)'
    <3> SUFFICES ASSUME ~raced, ~short, NEW s, Len(s) \in Nat, Len(s) <= Len(index) \/ Len(s) <= last
                 PROVE  Reached(s)'
      OBVIOUS
    <3>1. Len(s) <= Len(index)
      BY <1>4, <1>5, <1>7, <2>a
    <3> QED BY <1>1, <3>1 DEF Reached
  <2> QED BY <1>10, <1>12, <2>2, <2>3, <2>4, <2>5 DEF Numbered
<1> QED BY <1>13, <1>14

(***************************************************************************)
(* The theorems.                                                           *)
(***************************************************************************)
LEMMA NumbersInit ==
  ASSUME Bounds, Init
  PROVE  Numbered
<1>1. /\ FirstUids \in Nat /\ MaxUid \in Nat /\ FirstUids <= MaxUid /\ 1 .. FirstUids \subseteq Uids
      /\ nextUid = FirstUids + 1 /\ nextUid - 1 = FirstUids
      /\ sess = [i \in 1 .. FirstUids |-> i] /\ index = sess /\ msn = [u \in 1 .. FirstUids |-> u]
      /\ mbox = 1 .. FirstUids
      /\ cur = "none" /\ sent = <<>> /\ wire = <<>> /\ gone = {} /\ reopen = {} /\ newMailCount = 0
      /\ idle = FALSE /\ pc = "ready" /\ range = NoRange
      /\ qresync \in BOOLEAN /\ raced = FALSE /\ short = FALSE
  BY DEF Bounds, Init, Uids
<1>2. /\ sess \in Seq(Uids) /\ IsInjective(sess) /\ Len(sess) = FirstUids /\ DOMAIN sess = 1 .. FirstUids
      /\ Range(sess) = 1 .. FirstUids
  <2>1. sess \in [1 .. FirstUids -> Uids] /\ DOMAIN sess = 1 .. FirstUids
    BY <1>1
  <2>2. sess \in Seq(Uids)
    BY <1>1, <2>1, SeqDef
  <2>3. IsInjective(sess) /\ Range(sess) = 1 .. FirstUids
    BY <1>1 DEF IsInjective, Range
  <2>4. DOMAIN sess = 1 .. Len(sess) /\ Len(sess) \in Nat
    BY <2>2, SeqParts
  <2> QED BY <1>1, <2>1, <2>2, <2>3, <2>4
<1>3. wire \in Seq(Lines) /\ sent \in Seq(Commands) /\ DOMAIN wire = {} /\ Len(wire) = 0
  BY <1>1, EmptySeq
<1>4. index \in Seq(Uids \cup {NULL}) /\ Range(index) \subseteq Uids
  BY <1>1, <1>2, SeqMonotonic
<1>5. /\ range \in [begin : Nat, upto : Nat, last : Nat] /\ range.last <= MaxUid
      /\ nextUid \in 1 .. MaxUid + 1
  BY <1>1 DEF NoRange
<1>6. msn \in [DOMAIN msn -> Nat] /\ DOMAIN msn = 1 .. FirstUids /\ \A u \in DOMAIN msn : msn[u] = u
  <2>1. DOMAIN msn = 1 .. FirstUids
    BY <1>1
  <2>2. \A u \in DOMAIN msn : msn[u] = u
    BY <1>1
  <2>3. msn \in [1 .. FirstUids -> Nat]
    <3>1. \A u \in 1 .. FirstUids : u \in Nat
      BY <1>1
    <3>2. [u \in 1 .. FirstUids |-> u] \in [1 .. FirstUids -> Nat]
      BY <3>1
    <3> QED BY <1>1, <3>2
  <2> QED BY <2>1, <2>2, <2>3
<1>7. Typed
  <2>1. DOMAIN msn \subseteq Uids /\ DOMAIN msn \subseteq 1 .. nextUid - 1 /\ mbox \subseteq 1 .. nextUid - 1 /\ mbox \subseteq Uids
    BY <1>1, <1>6
  <2>2. Range(sess) \subseteq Uids
    BY <1>1, <1>2
  <2>3. newMailCount \in 0 .. MaxUid /\ pc # "fetch"
    BY <1>1
  <2>4. TypeOK
    BY <1>1, <1>4, <1>5, <2>1, <2>2, <2>3 DEF TypeOK
  <2>5. \A k \in DOMAIN wire : FALSE
    BY <1>3
  <2>6. idle \in BOOLEAN /\ qresync \in BOOLEAN /\ raced \in BOOLEAN /\ short \in BOOLEAN
    BY <1>1
  <2> QED BY <1>2, <1>3, <1>4, <1>5, <1>6, <2>1, <2>3, <2>4, <2>5, <2>6 DEF Typed
<1>8. Protocol
  <2>1. Untagged /\ Greeted
    BY <1>3 DEF Untagged, Greeted
  <2> QED BY <1>1, <2>1 DEF Protocol
<1>9. \A i \in DOMAIN index : i \in 1 .. FirstUids /\ index[i] = i /\ i # 0
  BY <1>1
<1>10. Found /\ Complete
  <2>1. Found
    BY <1>1, <1>2, <1>6 DEF Found
  <2> QED BY <1>1, <1>9, <2>1 DEF Complete, NULL
<1>11. InStep([k \in {0} |-> sess], wire, sess, mbox)
  <2> DEFINE N == [k \in {0} |-> sess]
  <2>1. N[0] = sess /\ 0 .. Len(wire) = {0} /\ 1 .. Len(wire) = {}
    BY <1>3
  <2> HIDE DEF N
  <2>2. Followed(N, wire, sess, mbox)
    BY <1>2, <1>3, <2>1 DEF Followed
  <2>3. Given(N, wire)
    BY <1>1, <1>2, <2>1 DEF Given
  <2>4. Departed(N, wire, mbox)
    BY <1>1 DEF Departed
  <2>5. Agreed(N[0])
    BY <1>1, <1>2, <1>6, <1>9, <2>1 DEF Agreed
  <2>6. Reached(N[0])
    <3>1. Len(N[0]) <= Len(index)
      BY <1>1, <1>2, <2>1
    <3> QED BY <3>1 DEF Reached
  <2>7. InStep(N, wire, sess, mbox)
    BY <2>2, <2>3, <2>4, <2>5, <2>6 DEF InStep
  <2> QED BY <2>7 DEF N
<1> QED BY <1>7, <1>8, <1>10, <1>11 DEF Numbered

LEMMA NumbersStep ==
  ASSUME Bounds, Numbered, [Next]_vars
  PROVE  Numbered'
<1>1. CASE Deliver
  BY <1>1, DeliverKeeps
<1>2. CASE \E u \in Uids : OtherClientExpunges(u)
  BY <1>2, OtherClientExpungesKeeps
<1>3. CASE SendExists
  BY <1>3, SendExistsKeeps
<1>4. CASE RepeatExists
  BY <1>4, RepeatExistsKeeps
<1>5. CASE \E i \in 1 .. MaxUid : SendExpunge(i) \/ SendFlags(i)
  BY <1>5, SendExpungeKeeps, SendFlagsKeeps
<1>6. CASE ServerReads
  BY <1>6, ServerReadsKeeps
<1>7. CASE ServerCompletes
  BY <1>7, ServerCompletesKeeps
<1>8. CASE imap_cmd_idle
  BY <1>8, imap_cmd_idleKeeps
<1>9. CASE PollIdle
  BY <1>9, PollIdleKeeps
<1>10. CASE \E allow \in {{}, {"ALLOW"}} : Exec(allow)
  BY <1>10, ExecKeeps
<1>11. CASE HandleUntagged
  BY <1>11, HandleUntaggedKeeps
<1>12. CASE EnterIdle
  BY <1>12, EnterIdleKeeps
<1>13. CASE PollEnds
  BY <1>13, PollEndsKeeps
<1>14. CASE ExecEnds
  BY <1>14, ExecEndsKeeps
<1>15. CASE ChunkEnds
  BY <1>15, ChunkEndsKeeps
<1>16. CASE DownloadFails
  BY <1>16, DownloadFailsKeeps
<1>17. CASE UNCHANGED vars
  <2>1. Typed' /\ Protocol' /\ Found' /\ Complete'
    BY <1>17 DEF vars, Numbered, Typed, TypeOK, Protocol, Greeted, Untagged, Tagged, Exchange, Found,
                 Complete, Coming, Filled, Uids, NULL
  <2>2. (\E N : InStep(N, wire, sess, mbox))'
    <3>1. UNCHANGED <<wire, sess>> /\ UNCHANGED Client /\ Marked /\ mbox' = mbox /\ nextUid' = nextUid
      BY <1>17 DEF vars, Client, Marked
    <3>2. nextUid' >= nextUid /\ nextUid' \in Int /\ mbox' \cap 1 .. nextUid - 1 \subseteq mbox
      BY <3>1 DEF Numbered, Typed, TypeOK
    <3> QED BY <3>1, <3>2, NothingSent
  <2> QED BY <2>1, <2>2 DEF Numbered
<1> QED BY <1>1, <1>2, <1>3, <1>4, <1>5, <1>6, <1>7, <1>8, <1>9, <1>10, <1>11, <1>12, <1>13, <1>14,
           <1>15, <1>16, <1>17 DEF Next

\* What the numberings mean for mutt.
LEMMA NumbersMean ==
  ASSUME Numbered
  PROVE  NumbersAgree /\ FlagsHitTheirMessage /\ AnnouncedIsKnown
<1>1. Typed /\ Protocol /\ Found /\ Complete /\ wire \in Seq(Lines)
  BY DEF Numbered, Typed
<1>2. PICK N : InStep(N, wire, sess, mbox)
  BY DEF Numbered
<1>3. Followed(N, wire, sess, mbox) /\ Agreed(N[0]) /\ Reached(N[0])
  BY <1>2 DEF InStep
<1>4. wire = <<>> => N[0] = sess
  BY <1>3, EmptySeq DEF Followed
<1>5. NumbersAgree
  <2>1. ASSUME wire = <<>>, ~Adrift, NEW i \in DOMAIN index, index[i] # NULL
        PROVE  i \in DOMAIN sess /\ sess[i] = index[i]
    BY <1>3, <1>4, <2>1 DEF Agreed
  <2> QED BY <1>1, <2>1 DEF NumbersAgree, Found
<1>6. FlagsHitTheirMessage
  <2> SUFFICES ASSUME ~Adrift, wire # <<>>, Head(wire).kind = "FLAGS",
                      Head(wire).n \in DOMAIN index, index[Head(wire).n] # NULL
               PROVE  index[Head(wire).n] = Head(wire).uid
    BY DEF FlagsHitTheirMessage
  <2>1. Tells(Head(wire), N[0], N[1])
    BY <1>1, <1>3, ReadLine
  <2> QED BY <1>3, <2>1 DEF Tells, Agreed
<1>7. AnnouncedIsKnown
  <2> SUFFICES ASSUME wire = <<>>, sent = <<>>, pc = "ready", ~raced, ~short,
                      "NEWMAIL_PENDING" \notin reopen, NEW v \in Range(sess)
               PROVE  v \in DOMAIN msn
    BY DEF AnnouncedIsKnown
  <2>1. Len(sess) <= Len(index)
    BY <1>3, <1>4 DEF Reached
  <2>2. /\ Len(sess) \in Nat /\ DOMAIN sess = 1 .. Len(sess)
        /\ Len(index) \in Nat /\ DOMAIN index = 1 .. Len(index)
    BY <1>1, SeqParts DEF Typed
  <2>3. PICK i \in 1 .. Len(sess) : sess[i] = v
    BY <2>2 DEF Range
  <2>4. i \in DOMAIN index
    BY <2>1, <2>2
  <2>5. index[i] # NULL
    BY <1>1, <2>4 DEF Complete
  <2>6. ~Adrift
    BY DEF Adrift
  <2> QED BY <1>3, <1>4, <2>3, <2>4, <2>5, <2>6 DEF Agreed
<1> QED BY <1>5, <1>6, <1>7

\* The variables hold what their comments say.
THEOREM NumbersTypes == Bounds => (Spec => []TypeOK)
<1> SUFFICES ASSUME Bounds PROVE Spec => []TypeOK
  OBVIOUS
<1>1. Init => Numbered
  BY NumbersInit
<1>2. Numbered /\ [Next]_vars => Numbered'
  BY NumbersStep
<1>3. Numbered => TypeOK
  BY DEF Numbered, Typed
<1> QED BY <1>1, <1>2, <1>3, PTL DEF Spec

\* mutt's numbers are the server's once the lines are read, a FLAGS line reaches the message
\* it is about, and what was announced is there after a download: cmd_parse_expunge(),
\* cmd_parse_vanished(), read_headers_fetch_new() and imap_cmd_finish(), for any number of
\* messages, of lines on their way and of chunks.
THEOREM NumbersFollow == Bounds => (Spec => [](NumbersAgree /\ FlagsHitTheirMessage /\ AnnouncedIsKnown))
<1> SUFFICES ASSUME Bounds PROVE Spec => [](NumbersAgree /\ FlagsHitTheirMessage /\ AnnouncedIsKnown)
  OBVIOUS
<1>1. Init => Numbered
  BY NumbersInit
<1>2. Numbered /\ [Next]_vars => Numbered'
  BY NumbersStep
<1>3. Numbered => NumbersAgree /\ FlagsHitTheirMessage /\ AnnouncedIsKnown
  BY NumbersMean
<1> QED BY <1>1, <1>2, <1>3, PTL DEF Spec
==============================================================================
