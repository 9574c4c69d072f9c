--------------------------- MODULE ImapCache_proofs ---------------------------
(***************************************************************************)
(* Proofs about the opening of an IMAP mailbox from the header cache, for  *)
(* any number of messages and of changes on the server.                    *)
(***************************************************************************)
EXTENDS ImapCache, SequenceTheorems, FiniteSetTheorems, TLAPS

Bounds == MaxUid \in Nat /\ 2 <= MaxUid /\ MaxModseq \in Nat /\ 1 <= MaxModseq

Ascends(s) == \A i, j \in DOMAIN s : i < j => s[i] < s[j]

(***************************************************************************)
(* Sequences of UIDs.                                                      *)
(***************************************************************************)
LEMMA SeqParts ==
  ASSUME NEW s \in Seq(Int)
  PROVE  /\ Len(s) \in Nat /\ DOMAIN s = 1 .. Len(s)
         /\ \A i \in 1 .. Len(s) : s[i] \in Int
         /\ Range(s) \subseteq Int
         /\ \A i \in 1 .. Len(s) : s[i] \in Range(s)
         /\ \A v \in Range(s) : \E i \in 1 .. Len(s) : s[i] = v
<1>1. Len(s) \in Nat /\ DOMAIN s = 1 .. Len(s) /\ \A i \in 1 .. Len(s) : s[i] \in Int
  BY LenProperties, ElementOfSeq
<1> QED BY <1>1 DEF Range

LEMMA FunSeq ==
  ASSUME NEW n \in Nat, NEW f \in [1 .. n -> Int]
  PROVE  f \in Seq(Int) /\ Len(f) = n /\ DOMAIN f = 1 .. n
<1>1. f \in Seq(Int)
  BY SeqDef
<1>2. DOMAIN f = 1 .. n /\ DOMAIN f = 1 .. Len(f) /\ Len(f) \in Nat
  BY <1>1, LenProperties
<1> QED BY <1>1, <1>2

LEMMA SameSeq ==
  ASSUME NEW s \in Seq(Int), NEW t \in Seq(Int), Len(s) = Len(t),
         \A i \in 1 .. Len(s) : s[i] = t[i]
  PROVE  s = t
<1>1. Len(s) \in Nat /\ s \in [1 .. Len(s) -> Int] /\ t \in [1 .. Len(s) -> Int]
  BY LenProperties
<1> QED BY <1>1

LEMMA NoSeq == <<>> \in Seq(Int) /\ Len(<<>>) = 0 /\ Range(<<>>) = {} /\ Ascends(<<>>) /\ DOMAIN <<>> = {}
<1>1. <<>> \in Seq(Int) /\ Len(<<>>) = 0
  BY EmptySeq
<1>2. DOMAIN <<>> = {}
  BY <1>1, SeqParts
<1> QED BY <1>1, <1>2 DEF Range, Ascends

\* In ascending order a member has as many before it, itself included, as its number says.
LEMMA RankOf ==
  ASSUME NEW s \in Seq(Int), Ascends(s)
  PROVE  /\ IsFiniteSet(Range(s)) /\ Cardinality(Range(s)) = Len(s)
         /\ \A i \in 1 .. Len(s) : Cardinality({w \in Range(s) : w <= s[i]}) = i
<1>1. /\ Len(s) \in Nat /\ DOMAIN s = 1 .. Len(s)
      /\ \A i \in 1 .. Len(s) : s[i] \in Int
  BY SeqParts
<1>2. \A i, j \in 1 .. Len(s) : s[i] = s[j] => i = j
  BY <1>1 DEF Ascends
<1>3. ASSUME NEW n \in 0 .. Len(s)
      PROVE  /\ IsFiniteSet({s[i] : i \in 1 .. n})
             /\ Cardinality({s[i] : i \in 1 .. n}) = n
  <2> DEFINE f == [i \in 1 .. n |-> s[i]]
             T == {s[i] : i \in 1 .. n}
  <2>1. n \in Nat /\ 1 .. n \subseteq 1 .. Len(s)
    BY <1>1
  <2>2. f \in Bijection(1 .. n, T)
    <3>1. f \in [1 .. n -> T]
      OBVIOUS
    <3>2. \A i, j \in 1 .. n : f[i] = f[j] => i = j
      BY <1>2, <2>1
    <3>3. \A v \in T : \E i \in 1 .. n : f[i] = v
      OBVIOUS
    <3> HIDE DEF f, T
    <3> QED BY <3>1, <3>2, <3>3 DEF Bijection, Injection, Surjection, IsInjective
  <2>3. IsFiniteSet(1 .. n) /\ Cardinality(1 .. n) = n
    BY <2>1, FS_Interval
  <2>4. ExistsBijection(1 .. n, T)
    BY <2>2 DEF ExistsBijection
  <2> HIDE DEF T
  <2>5. IsFiniteSet(T) /\ Cardinality(T) = Cardinality(1 .. n)
    BY <2>3, <2>4, FS_Bijection
  <2> QED BY <2>3, <2>5 DEF T
<1>4. Range(s) = {s[i] : i \in 1 .. Len(s)}
  BY <1>1 DEF Range
<1>5. ASSUME NEW i \in 1 .. Len(s)
      PROVE  {w \in Range(s) : w <= s[i]} = {s[j] : j \in 1 .. i}
  <2>1. \A j \in 1 .. Len(s) : s[j] <= s[i] <=> j <= i
    BY <1>1 DEF Ascends
  <2>2. 1 .. i = {j \in 1 .. Len(s) : j <= i}
    BY <1>1
  <2> QED BY <1>4, <2>1, <2>2
<1>6. Len(s) \in 0 .. Len(s) /\ \A i \in 1 .. Len(s) : i \in 0 .. Len(s)
  BY <1>1
<1> QED BY <1>3, <1>4, <1>5, <1>6

\* There is one ascending sequence of a set.
LEMMA SameAscent ==
  ASSUME NEW s \in Seq(Int), NEW t \in Seq(Int), Ascends(s), Ascends(t), Range(s) = Range(t)
  PROVE  s = t
<1>1. Len(s) = Len(t)
  BY RankOf
<1>2. ASSUME NEW i \in 1 .. Len(s)
      PROVE  s[i] = t[i]
  <2>1. PICK j \in 1 .. Len(t) : t[j] = s[i]
    BY SeqParts
  <2>2. Cardinality({w \in Range(s) : w <= s[i]}) = i
    BY RankOf
  <2>3. Cardinality({w \in Range(t) : w <= t[j]}) = j
    BY RankOf
  <2> QED BY <2>1, <2>2, <2>3
<1> QED BY <1>1, <1>2, SameSeq

LEMMA FewerAscend ==
  ASSUME NEW s \in Seq(Int), NEW t \in Seq(Int), Ascends(s), Ascends(t), Range(s) \subseteq Range(t)
  PROVE  Len(s) <= Len(t) /\ (Len(s) = Len(t) => s = t)
<1>1. /\ IsFiniteSet(Range(s)) /\ Cardinality(Range(s)) = Len(s)
      /\ IsFiniteSet(Range(t)) /\ Cardinality(Range(t)) = Len(t)
  BY RankOf
<1>2. Cardinality(Range(s)) <= Cardinality(Range(t))
  BY <1>1, FS_Subset
<1>3. Cardinality(Range(t)) = Cardinality(Range(s)) => Range(t) = Range(s)
  BY <1>1, FS_Subset
<1>4. Range(s) = Range(t) => s = t
  BY SameAscent
<1> QED BY <1>1, <1>2, <1>3, <1>4

\* A numbering of which the first m are in order and the rest are right is right when no
\* UID is there twice.
LEMMA NotJumbled ==
  ASSUME NEW s \in Seq(Int), NEW t \in Seq(Int), Ascends(t), 0 \notin Range(t), Len(s) = Len(t),
         verify_qresync(s), NEW m \in 0 .. Len(t),
         \A i, j \in 1 .. m : i < j => s[i] < s[j],
         \A i \in 1 .. m : s[i] \in Range(t),
         \A i \in m + 1 .. Len(t) : s[i] = t[i]
  PROVE  s = t
<1>1. /\ Len(s) \in Nat /\ DOMAIN s = 1 .. Len(s) /\ DOMAIN t = 1 .. Len(s) /\ m \in Nat /\ m <= Len(s)
      /\ \A i \in 1 .. Len(s) : s[i] \in Int /\ t[i] \in Int /\ t[i] \in Range(t)
  BY SeqParts
<1>2. \A i \in 1 .. Len(s) : i \in 1 .. m \/ i \in m + 1 .. Len(t)
  BY <1>1
<1>3. \A i \in 1 .. Len(s) : s[i] \in Range(t)
  BY <1>1, <1>2
<1>4. \A i, j \in 1 .. Len(s) : s[i] = s[j] => i = j
  <2> TAKE i, j \in 1 .. Len(s)
  <2>1. s[i] # 0 /\ i \in DOMAIN s /\ j \in DOMAIN s
    BY <1>1, <1>3
  <2> QED BY <2>1 DEF verify_qresync
<1>5. ASSUME NEW i \in 1 .. m, NEW j \in m + 1 .. Len(t)
      PROVE  s[i] < s[j]
  <2>1. i \in 1 .. Len(s) /\ j \in 1 .. Len(s) /\ s[j] = t[j]
    BY <1>1
  <2>2. PICK k \in 1 .. Len(t) : t[k] = s[i]
    BY <1>3, <2>1, SeqParts
  <2>3. k \notin m + 1 .. Len(t)
    <3> SUFFICES ASSUME k \in m + 1 .. Len(t) PROVE FALSE
      OBVIOUS
    <3>1. s[k] = s[i] /\ k # i
      BY <1>1, <2>2
    <3> QED BY <1>4, <2>1, <2>2, <3>1
  <2>4. k < j /\ k \in DOMAIN t /\ j \in DOMAIN t
    BY <1>1, <2>1, <2>3
  <2>5. t[k] < t[j]
    BY <2>4 DEF Ascends
  <2> QED BY <2>1, <2>2, <2>5
<1>6. Ascends(s)
  <2> SUFFICES ASSUME NEW i \in 1 .. Len(s), NEW j \in 1 .. Len(s), i < j PROVE s[i] < s[j]
    BY <1>1 DEF Ascends
  <2>1. CASE j \in 1 .. m
    <3>1. i \in 1 .. m
      BY <1>1, <2>1
    <3> QED BY <2>1, <3>1
  <2>2. CASE i \in 1 .. m /\ j \in m + 1 .. Len(t)
    BY <1>5, <2>2
  <2>3. CASE i \in m + 1 .. Len(t)
    <3>1. j \in m + 1 .. Len(t) /\ s[i] = t[i]
      BY <1>1, <2>3
    <3>2. s[j] = t[j] /\ i \in DOMAIN t /\ j \in DOMAIN t
      BY <1>1, <3>1
    <3> QED BY <3>1, <3>2 DEF Ascends
  <2> QED BY <1>2, <2>1, <2>2, <2>3
<1>7. Range(s) \subseteq Range(t)
  BY <1>1, <1>3 DEF Range
<1> QED BY <1>6, <1>7, FewerAscend

(***************************************************************************)
(* Kept leaves the order as it is.                                         *)
(***************************************************************************)
\* The n-th member of a set of positions is the one that has n up to it.
Rank(S, i) == Cardinality({j \in S : j <= i})

LEMMA RankGrows ==
  ASSUME NEW n \in Nat, NEW S \in SUBSET (1 .. n)
  PROVE  /\ IsFiniteSet(S) /\ Cardinality(S) \in 0 .. n
         /\ \A i \in S : Rank(S, i) \in 1 .. Cardinality(S)
         /\ \A i, j \in S : i < j => Rank(S, i) < Rank(S, j)
<1>1. IsFiniteSet(1 .. n) /\ Cardinality(1 .. n) = n
  BY FS_Interval
<1>2. IsFiniteSet(S) /\ Cardinality(S) <= n
  BY <1>1, FS_Subset
<1>3. Cardinality(S) \in Nat
  BY <1>2, FS_CardinalityType
<1>4. ASSUME NEW i \in S
      PROVE  /\ IsFiniteSet({j \in S : j <= i}) /\ Rank(S, i) <= Cardinality(S) /\ Rank(S, i) \in Nat
  <2>1. {j \in S : j <= i} \in SUBSET S
    OBVIOUS
  <2>2. IsFiniteSet({j \in S : j <= i}) /\ Cardinality({j \in S : j <= i}) <= Cardinality(S)
    BY <1>2, <2>1, FS_Subset
  <2> QED BY <2>2, FS_CardinalityType DEF Rank
<1>5. ASSUME NEW i \in S
      PROVE  Rank(S, i) # 0
  <2>1. i \in {j \in S : j <= i}
    OBVIOUS
  <2>2. {j \in S : j <= i} # {}
    BY <2>1
  <2> QED BY <1>4, <2>2, FS_EmptySet DEF Rank
<1>6. ASSUME NEW i \in S, NEW j \in S, i < j
      PROVE  Rank(S, i) < Rank(S, j)
  <2> DEFINE I == {k \in S : k <= i}
             J == {k \in S : k <= j}
  <2>0. i \in Int /\ j \in Int /\ \A k \in S : k \in Int
    OBVIOUS
  <2>1. I \in SUBSET J /\ j \in J /\ j \notin I
    <3>1. ASSUME NEW k \in S, k <= i PROVE k <= j
      <4>1. k \in Int
        BY <2>0
      <4> QED BY <1>6, <2>0, <3>1, <4>1
    <3>2. I \subseteq J
      BY <3>1
    <3>3. j \in J /\ j \notin I
      BY <1>6, <2>0
    <3> QED BY <3>2, <3>3
  <2>2. IsFiniteSet(J) /\ Cardinality(I) = Rank(S, i) /\ Cardinality(J) = Rank(S, j)
    BY <1>4 DEF Rank
  <2> HIDE DEF I, J
  <2>3. Cardinality(I) <= Cardinality(J)
    BY <2>1, <2>2, FS_Subset
  <2>4. Cardinality(J) = Cardinality(I) => J = I
    BY <2>1, <2>2, FS_Subset
  <2>5. Rank(S, i) # Rank(S, j)
    BY <2>1, <2>2, <2>4
  <2>6. Rank(S, i) \in Nat /\ Rank(S, j) \in Nat
    BY <1>4
  <2>7. Rank(S, i) <= Rank(S, j)
    BY <2>2, <2>3
  <2> QED BY <2>5, <2>6, <2>7
<1>7. ASSUME NEW i \in S PROVE Rank(S, i) \in 1 .. Cardinality(S)
  <2>1. Rank(S, i) \in Nat /\ Rank(S, i) <= Cardinality(S)
    BY <1>4
  <2>2. Rank(S, i) # 0
    BY <1>5
  <2> QED BY <1>3, <2>1, <2>2
<1> QED BY <1>2, <1>3, <1>6, <1>7

LEMMA RankTaken ==
  ASSUME NEW n \in Nat, NEW S \in SUBSET (1 .. n), NEW r \in 1 .. Cardinality(S)
  PROVE  \E i \in S : Rank(S, i) = r
<1> DEFINE f == [i \in S |-> Rank(S, i)]
           T == 1 .. Cardinality(S)
<1>1. /\ IsFiniteSet(S) /\ Cardinality(S) \in Nat
      /\ \A i \in S : Rank(S, i) \in T
      /\ \A i, j \in S : i < j => Rank(S, i) < Rank(S, j)
  BY RankGrows
<1>2. IsFiniteSet(T) /\ Cardinality(T) = Cardinality(S)
  BY <1>1, FS_Interval
<1>3. \A i, j \in S : Rank(S, i) = Rank(S, j) => i = j
  <2> SUFFICES ASSUME NEW i \in S, NEW j \in S, i # j PROVE Rank(S, i) # Rank(S, j)
    OBVIOUS
  <2>1. /\ i \in Int /\ j \in Int
        /\ Rank(S, i) \in 1 .. Cardinality(S) /\ Rank(S, j) \in 1 .. Cardinality(S)
    BY <1>1
  <2>2. CASE i < j
    BY <1>1, <2>1, <2>2
  <2>3. CASE j < i
    BY <1>1, <2>1, <2>3
  <2> QED BY <2>1, <2>2, <2>3
<1>4. f \in [S -> T] /\ \A i \in S : f[i] = Rank(S, i)
  BY <1>1
<1> HIDE DEF f, T
<1>5. f \in Injection(S, T)
  BY <1>3, <1>4 DEF Injection, IsInjective
<1>6. f \in Surjection(S, T)
  BY <1>2, <1>5, FS_Injection
<1>7. r \in T
  BY DEF T
<1>8. \A t \in T : \E i \in S : f[i] = t
  BY <1>6 DEF Surjection
<1> QED BY <1>4, <1>7, <1>8

LEMMA KeptParts ==
  ASSUME NEW s \in Seq(Int), NEW K
  PROVE  /\ Kept(s, K) \in Seq(Int) /\ Len(Kept(s, K)) <= Len(s)
         /\ Range(Kept(s, K)) = Range(s) \cap K
         /\ Ascends(s) => Ascends(Kept(s, K))
<1> DEFINE S == {i \in DOMAIN s : s[i] \in K}
           at(r) == CHOOSE i \in S : Rank(S, i) = r
           t == Kept(s, K)
<1>1. /\ Len(s) \in Nat /\ DOMAIN s = 1 .. Len(s) /\ S \in SUBSET (1 .. Len(s))
      /\ \A i \in 1 .. Len(s) : s[i] \in Int
  BY SeqParts
<1>2. t = [r \in 1 .. Cardinality(S) |-> s[at(r)]]
  BY DEF Kept, Rank
<1>3. \A i \in S : s[i] \in K /\ i \in 1 .. Len(s)
  BY <1>1
<1>4. \A i \in 1 .. Len(s) : s[i] \in K => i \in S
  BY <1>1
<1> HIDE DEF S, t
<1>5. \A r \in 1 .. Cardinality(S) : at(r) \in S /\ Rank(S, at(r)) = r
  BY <1>1, RankTaken
<1>6. /\ Cardinality(S) \in 0 .. Len(s)
      /\ \A i \in S : Rank(S, i) \in 1 .. Cardinality(S)
      /\ \A i, j \in S : i < j => Rank(S, i) < Rank(S, j)
  BY <1>1, RankGrows
<1> HIDE DEF at
<1>7. t \in Seq(Int) /\ Len(t) = Cardinality(S) /\ DOMAIN t = 1 .. Cardinality(S)
  <2>1. \A r \in 1 .. Cardinality(S) : s[at(r)] \in Int
    BY <1>1, <1>3, <1>5
  <2>2. [r \in 1 .. Cardinality(S) |-> s[at(r)]] \in [1 .. Cardinality(S) -> Int]
    BY <2>1
  <2>3. t \in [1 .. Cardinality(S) -> Int] /\ Cardinality(S) \in Nat
    BY <1>2, <1>6, <2>2
  <2> QED BY <2>3, FunSeq
<1>8. \A i, j \in 1 .. Cardinality(S) : i < j => at(i) < at(j)
  <2> SUFFICES ASSUME NEW i \in 1 .. Cardinality(S), NEW j \in 1 .. Cardinality(S), i < j
               PROVE  at(i) < at(j)
    OBVIOUS
  <2>1. at(i) \in S /\ at(j) \in S /\ Rank(S, at(i)) = i /\ Rank(S, at(j)) = j
    BY <1>5
  <2>2. at(i) \in Int /\ at(j) \in Int /\ i \in Int /\ j \in Int
    <3>1. at(i) \in 1 .. Len(s) /\ at(j) \in 1 .. Len(s)
      BY <1>3, <2>1
    <3>2. Cardinality(S) \in Int /\ Len(s) \in Int
      BY <1>1, <1>6
    <3> QED BY <3>1, <3>2
  <2>3. at(i) # at(j)
    BY <2>1, <2>2
  <2>4. ~(at(j) < at(i))
    BY <1>6, <2>1, <2>2
  <2> QED BY <2>2, <2>3, <2>4
<1>9. Range(t) = Range(s) \cap K
  <2>1. ASSUME NEW v \in Range(t) PROVE v \in Range(s) /\ v \in K
    <3>1. PICK r \in 1 .. Cardinality(S) : v = s[at(r)]
      BY <1>2, <1>7 DEF Range
    <3>2. at(r) \in 1 .. Len(s) /\ s[at(r)] \in K
      BY <1>3, <1>5
    <3> QED BY <1>1, <3>1, <3>2 DEF Range
  <2>2. ASSUME NEW v \in Range(s), v \in K PROVE v \in Range(t)
    <3>1. PICK i \in 1 .. Len(s) : s[i] = v
      BY <1>1 DEF Range
    <3>2. i \in S /\ Rank(S, i) \in 1 .. Cardinality(S)
      BY <1>4, <1>6, <2>2, <3>1
    <3> DEFINE r == Rank(S, i)
    <3>3. r \in 1 .. Cardinality(S) /\ at(r) \in S /\ Rank(S, at(r)) = r
      BY <1>5, <3>2
    <3>4. at(r) = i
      <4>1. i \in Int /\ at(r) \in Int /\ Rank(S, i) \in Int
        <5>1. i \in 1 .. Len(s) /\ at(r) \in 1 .. Len(s)
          BY <1>3, <3>2, <3>3
        <5>2. Cardinality(S) \in Int /\ Len(s) \in Int
          BY <1>1, <1>6
        <5> QED BY <3>2, <5>1, <5>2
      <4>2. ~(i < at(r)) /\ ~(at(r) < i)
        BY <1>6, <3>2, <3>3, <4>1
      <4> QED BY <4>1, <4>2
    <3>5. t[r] = v
      BY <1>2, <3>1, <3>3, <3>4
    <3> QED BY <1>7, <3>3, <3>5 DEF Range
  <2> QED BY <2>1, <2>2
<1>10. Ascends(s) => Ascends(t)
  <2> SUFFICES ASSUME Ascends(s), NEW i \in 1 .. Cardinality(S), NEW j \in 1 .. Cardinality(S), i < j
               PROVE  t[i] < t[j]
    BY <1>7 DEF Ascends
  <2>1. at(i) < at(j) /\ at(i) \in DOMAIN s /\ at(j) \in DOMAIN s
    BY <1>1, <1>3, <1>5, <1>8
  <2>2. t[i] = s[at(i)] /\ t[j] = s[at(j)]
    BY <1>2
  <2> QED BY <2>1, <2>2 DEF Ascends
<1> QED BY <1>1, <1>6, <1>7, <1>9, <1>10 DEF t

\* Numbers with all that are smaller are the first ones.
LEMMA FirstOnes ==
  ASSUME NEW n \in Nat, NEW S \in SUBSET (1 .. n), \A i \in S : 1 .. i \subseteq S
  PROVE  Cardinality(S) \in 0 .. n /\ S = 1 .. Cardinality(S)
<1>1. IsFiniteSet(S) /\ Cardinality(S) \in 0 .. n
  BY RankGrows
<1>2. ASSUME NEW i \in S PROVE i \in 1 .. Cardinality(S)
  <2>1. i \in Nat /\ 1 <= i /\ 1 .. i \in SUBSET S
    OBVIOUS
  <2>2. Cardinality(1 .. i) = i
    BY <2>1, FS_Interval
  <2>3. Cardinality(1 .. i) <= Cardinality(S)
    BY <1>1, <2>1, FS_Subset
  <2> QED BY <1>1, <2>1, <2>2, <2>3
<1>3. ASSUME NEW i \in 1 .. Cardinality(S), i \notin S PROVE FALSE
  <2>1. i \in Nat /\ 1 <= i /\ i <= Cardinality(S)
    BY <1>1
  <2>2. S \in SUBSET (1 .. i - 1)
    <3> SUFFICES ASSUME NEW j \in S PROVE j \in 1 .. i - 1
      OBVIOUS
    <3>1. j \in Nat /\ 1 <= j /\ 1 .. j \subseteq S
      OBVIOUS
    <3>2. ~(i <= j)
      BY <1>3, <2>1, <3>1
    <3> QED BY <2>1, <3>1, <3>2
  <2>3. IsFiniteSet(1 .. i - 1) /\ Cardinality(1 .. i - 1) = i - 1
    BY <2>1, FS_Interval
  <2>4. Cardinality(S) <= Cardinality(1 .. i - 1)
    BY <2>2, <2>3, FS_Subset
  <2> QED BY <1>1, <2>1, <2>3, <2>4
<1> QED BY <1>1, <1>2, <1>3

(***************************************************************************)
(* The inductive invariant.                                                *)
(***************************************************************************)
\* The UIDs that were given out.
Given == 1 .. nextUid - 1

Server ==
  /\ nextUid \in 1 .. MaxUid + 1 /\ modseq \in 1 .. MaxModseq
  /\ box \in Seq(Int) /\ Ascends(box) /\ Range(box) \subseteq Given
  /\ DOMAIN flagOf = Given
  /\ DOMAIN modOf = Given /\ \A u \in Given : modOf[u] \in 1 .. modseq
  /\ caps \in {{}, {"CONDSTORE"}, {"CONDSTORE", "QRESYNC"}}

\* What the cached numbering has too much, the server will say has vanished.
Stored ==
  /\ DOMAIN hcache \subseteq Given
  /\ hc \in [modseq : 0 .. modseq, uidnext : 0 .. nextUid, seqset : Seq(Int)]
  /\ hc.modseq > 0 => caps # {}
  /\ Ascends(hc.seqset)
  /\ \A u \in Range(hc.seqset) :
       u \in 1 .. hc.uidnext - 1 /\ (u \in Range(box) \/ modOf[u] > hc.modseq)

\* A cached flag is the server's if it has not changed since the cached MODSEQ, by which
\* the server decides what to tell.
Fresh ==
  hc.modseq > 0 =>
    \A u \in DOMAIN hcache : u \in Range(box) /\ u \notin unsynced /\ modOf[u] <= hc.modseq
                               => hcache[u] = flagOf[u]

\* The mailbox is being opened.  No other client is about.
Selected ==
  /\ sess = box /\ highest = modseq /\ method \in {"none", "normal", "condstore", "qresync"}
  /\ index \in Seq(Int) /\ changed = {} /\ DOMAIN flag = Known

\* Headers from the cache are under their numbers, some are missing.
Placed == \A i \in DOMAIN index : i \in DOMAIN sess /\ index[i] \in {0, sess[i]}

\* Where the number is right so are the flags, in the header and in the cache.
Right(u) ==
  /\ flag[u] = flagOf[u]
  /\ caps # {} => u \in DOMAIN hcache /\ hcache[u] = flagOf[u]
Sound ==
  \A i \in DOMAIN index :
    i \in DOMAIN sess /\ index[i] = sess[i] /\ sess[i] \notin unsynced => Right(sess[i])

AtCache ==
  /\ Selected /\ index = <<>>
  /\ method \in {"condstore", "qresync"} => hc.modseq > 0

AtUpdates ==
  /\ Selected /\ method \in {"condstore", "qresync"} /\ hc.modseq > 0
  /\ method = "condstore" => Placed
  /\ method = "qresync" => Ascends(index) /\ Range(index) \subseteq Range(hc.seqset)
  /\ \A u \in DOMAIN flag : u < hc.uidnext /\ u \in DOMAIN hcache /\ flag[u] = hcache[u]

\* With QRESYNC, what is missing has moved the rest down.
AtFetch ==
  /\ Selected /\ Sound
  /\ method # "qresync" => Placed
  /\ method = "qresync" => Ascends(index) /\ Range(index) \subseteq Range(sess)

\* The first m numbers are from the cache.
AtVerify ==
  /\ Selected /\ Sound /\ Len(index) = Len(sess)
  /\ method # "qresync" => index = sess
  /\ \E m \in 0 .. Len(sess) :
       /\ \A i, j \in 1 .. m : i < j => index[i] < index[j]
       /\ \A i \in 1 .. m : index[i] \in Range(sess)
       /\ \A i \in m + 1 .. Len(sess) : index[i] = sess[i]

AtOpen ==
  /\ sess = box /\ index = box /\ changed \subseteq Known /\ DOMAIN flag = Known
  /\ \A u \in Range(box) : u \notin changed /\ u \notin unsynced => flag[u] = flagOf[u]

Stage ==
  /\ pc \in {"closed", "cache", "updates", "fetch", "verify", "open"}
  /\ pc = "closed" => sess = <<>> /\ index = <<>> /\ changed = {} /\ DOMAIN flag = {}
  /\ pc = "cache" => AtCache
  /\ pc = "updates" => AtUpdates
  /\ pc = "fetch" => AtFetch
  /\ pc = "verify" => AtVerify
  /\ pc = "open" => AtOpen

Opening == Server /\ Stored /\ Fresh /\ Stage

LEMMA OpeningInit ==
  ASSUME Bounds, Init
  PROVE  Opening
<1>1. /\ box = <<1, 2>> /\ nextUid = 3 /\ modseq = 1 /\ Given = {1, 2}
      /\ flagOf = [u \in {1, 2} |-> FALSE] /\ modOf = [u \in {1, 2} |-> 1]
      /\ caps \in {{}, {"CONDSTORE"}, {"CONDSTORE", "QRESYNC"}}
      /\ hcache = <<>> /\ hc = [modseq |-> 0, uidnext |-> 0, seqset |-> <<>>]
      /\ pc = "closed" /\ sess = <<>> /\ index = <<>> /\ flag = <<>> /\ changed = {}
  BY DEF Init, NoCache, Given
<1>2. box \in Seq(Int) /\ DOMAIN box = {1, 2} /\ box[1] = 1 /\ box[2] = 2
  BY <1>1
<1>3. Ascends(box) /\ Range(box) \subseteq Given
  BY <1>1, <1>2 DEF Ascends, Range
<1>4. Server
  BY <1>1, <1>2, <1>3 DEF Server, Bounds
<1>5. DOMAIN hcache = {} /\ DOMAIN flag = {} /\ hc.modseq = 0 /\ hc.seqset = <<>>
  BY <1>1, NoSeq
<1>6. hc \in [modseq : 0 .. modseq, uidnext : 0 .. nextUid, seqset : Seq(Int)]
  BY <1>1, NoSeq
<1>7. Stored
  BY <1>5, <1>6, NoSeq DEF Stored
<1>8. Fresh
  BY <1>5 DEF Fresh
<1>9. Stage
  BY <1>1, <1>5 DEF Stage
<1> QED BY <1>4, <1>7, <1>8, <1>9 DEF Opening

LEMMA OpeningMeans ==
  ASSUME Bounds, Opening
  PROVE  TypeOK /\ OpenedRight
<1>1. /\ nextUid \in 1 .. MaxUid + 1 /\ modseq \in 1 .. MaxModseq /\ MaxUid \in Nat /\ MaxModseq \in Nat
      /\ box \in Seq(Int) /\ Range(box) \subseteq Given /\ DOMAIN flagOf = Given
  BY DEF Opening, Server, Bounds
<1>2. Given \subseteq Uids /\ 0 \notin Given
  BY <1>1 DEF Given, Uids
<1>3. sess = <<>> \/ sess = box
  BY DEF Opening, Stage, AtCache, AtUpdates, AtFetch, AtVerify, AtOpen, Selected
<1>4. Range(sess) \subseteq Uids
  BY <1>1, <1>2, <1>3, NoSeq
<1>5. /\ DOMAIN hcache \subseteq Given
      /\ hc.modseq \in 0 .. modseq /\ hc.uidnext \in 0 .. nextUid
  BY DEF Opening, Stored
<1>6. /\ pc \in {"closed", "cache", "updates", "fetch", "verify", "open"}
      /\ changed \subseteq Known
  BY DEF Opening, Stage, AtCache, AtUpdates, AtFetch, AtVerify, AtOpen, Selected
<1>7. Known \subseteq DOMAIN flag
  <2>1. CASE pc = "closed"
    <3>1. Known = {}
      BY <2>1, NoSeq DEF Opening, Stage, Known
    <3> QED BY <3>1
  <2>2. CASE pc # "closed"
    BY <2>2 DEF Opening, Stage, AtCache, AtUpdates, AtFetch, AtVerify, AtOpen, Selected
  <2> QED BY <2>1, <2>2
<1>8. hc.modseq \in 0 .. MaxModseq /\ hc.uidnext \in 0 .. MaxUid + 1
  BY <1>1, <1>5
<1>9. TypeOK
  BY <1>1, <1>2, <1>4, <1>5, <1>6, <1>7, <1>8 DEF TypeOK
<1>10. OpenedRight
  <2> SUFFICES ASSUME pc = "open"
               PROVE  /\ SubSeq(index, 1, Len(sess)) = sess /\ Known = Range(sess)
                      /\ \A u \in Known \ (changed \cup unsynced) : u \in Range(box) => flag[u] = flagOf[u]
    BY DEF OpenedRight
  <2>1. /\ sess = box /\ index = box
        /\ \A u \in Range(box) : u \notin changed /\ u \notin unsynced => flag[u] = flagOf[u]
    BY DEF Opening, Stage, AtOpen
  <2>2. SubSeq(box, 1, Len(box)) = box
    <3>1. Len(box) \in Nat /\ \A i \in 1 .. Len(box) : box[i] \in Int
      BY <1>1, SeqParts
    <3>2. 1 \in 1 .. Len(box) + 1
      BY <3>1
    <3>3. /\ SubSeq(box, 1, Len(box)) \in Seq(Int) /\ Len(SubSeq(box, 1, Len(box))) = Len(box)
          /\ \A i \in 1 .. Len(box) : SubSeq(box, 1, Len(box))[i] = box[i]
      BY <1>1, <3>1, <3>2, SubSeqProperties
    <3> QED BY <1>1, <3>3, SameSeq
  <2>3. Known = Range(box)
    BY <1>1, <1>2, <2>1 DEF Known
  <2> QED BY <2>1, <2>2, <2>3
<1> QED BY <1>9, <1>10

(***************************************************************************)
(* What happens to the mailbox.                                            *)
(***************************************************************************)
LEMMA Appended ==
  ASSUME NEW s \in Seq(Int), Ascends(s), NEW u \in Int, \A v \in Range(s) : v < u
  PROVE  /\ Append(s, u) \in Seq(Int) /\ Ascends(Append(s, u))
         /\ Range(Append(s, u)) = Range(s) \cup {u}
<1> DEFINE t == Append(s, u)
<1>1. /\ Len(s) \in Nat /\ DOMAIN s = 1 .. Len(s)
      /\ \A i \in 1 .. Len(s) : s[i] \in Int /\ s[i] \in Range(s)
  BY SeqParts
<1>2. /\ t \in Seq(Int) /\ Len(t) = Len(s) + 1 /\ t[Len(s) + 1] = u
      /\ \A i \in 1 .. Len(s) : t[i] = s[i]
  BY AppendProperties
<1>3. DOMAIN t = 1 .. Len(s) + 1
  BY <1>2, SeqParts
<1> HIDE DEF t
<1>4. \A i \in 1 .. Len(s) + 1 : i \in 1 .. Len(s) \/ i = Len(s) + 1
  BY <1>1
<1>5. Ascends(t)
  <2> SUFFICES ASSUME NEW i \in 1 .. Len(s) + 1, NEW j \in 1 .. Len(s) + 1, i < j
               PROVE  t[i] < t[j]
    BY <1>3 DEF Ascends
  <2>1. i \in 1 .. Len(s)
    BY <1>1
  <2>2. CASE j \in 1 .. Len(s)
    BY <1>1, <1>2, <2>1, <2>2 DEF Ascends
  <2>3. CASE j = Len(s) + 1
    BY <1>1, <1>2, <2>1, <2>3
  <2> QED BY <1>4, <2>2, <2>3
<1>6. Range(t) \subseteq Range(s) \cup {u}
  BY <1>1, <1>2, <1>3, <1>4 DEF Range
<1>7. u \in Range(t)
  <2>1. Len(s) + 1 \in DOMAIN t
    BY <1>1, <1>3
  <2> QED BY <1>2, <2>1 DEF Range
<1>8. Range(s) \subseteq Range(t)
  <2>1. \A i \in 1 .. Len(s) : i \in DOMAIN t
    BY <1>1, <1>3
  <2> QED BY <1>1, <1>2, <2>1 DEF Range
<1> QED BY <1>2, <1>5, <1>6, <1>7, <1>8 DEF t

LEMMA Delivered ==
  ASSUME Bounds, Server, nextUid \in Uids, Counts,
         box' = Append(box, nextUid), flagOf' = With(flagOf, nextUid, FALSE),
         modOf' = With(modOf, nextUid, modseq + 1),
         nextUid' = nextUid + 1, modseq' = modseq + 1, UNCHANGED caps
  PROVE  /\ Server' /\ Given' = Given \cup {nextUid} /\ nextUid \notin Given
         /\ Range(box') = Range(box) \cup {nextUid}
         /\ modOf'[nextUid] = modseq + 1 /\ flagOf'[nextUid] = FALSE
         /\ \A u \in Given : flagOf'[u] = flagOf[u] /\ modOf'[u] = modOf[u]
<1>1. /\ nextUid \in 1 .. MaxUid /\ modseq \in 1 .. MaxModseq /\ MaxUid \in Nat /\ MaxModseq \in Nat
      /\ modseq + 1 <= MaxModseq
      /\ box \in Seq(Int) /\ Ascends(box) /\ Range(box) \subseteq Given
      /\ DOMAIN flagOf = Given /\ DOMAIN modOf = Given /\ \A u \in Given : modOf[u] \in 1 .. modseq
  BY DEF Server, Bounds, Uids, Counts
<1>2. Given' = Given \cup {nextUid} /\ nextUid \notin Given /\ \A u \in Given : u < nextUid
  BY <1>1 DEF Given
<1>3. /\ box' \in Seq(Int) /\ Ascends(box') /\ Range(box') = Range(box) \cup {nextUid}
  BY <1>1, <1>2, Appended
<1>4. /\ DOMAIN flagOf' = Given' /\ DOMAIN modOf' = Given'
      /\ modOf'[nextUid] = modseq + 1 /\ flagOf'[nextUid] = FALSE
      /\ \A u \in Given : flagOf'[u] = flagOf[u] /\ modOf'[u] = modOf[u]
  BY <1>1, <1>2 DEF With
<1>5. \A u \in Given' : modOf'[u] \in 1 .. modseq'
  <2> TAKE u \in Given'
  <2>1. CASE u = nextUid
    BY <1>1, <1>4, <2>1
  <2>2. CASE u \in Given
    <3>1. modOf[u] \in 1 .. modseq
      BY <1>1, <2>2
    <3>2. modOf'[u] = modOf[u]
      BY <1>4, <2>2
    <3>3. 1 .. modseq \subseteq 1 .. modseq'
      BY <1>1
    <3> QED BY <3>1, <3>2, <3>3
  <2> QED BY <1>2, <2>1, <2>2
<1>6. nextUid' \in 1 .. MaxUid + 1 /\ modseq' \in 1 .. MaxModseq /\ Range(box') \subseteq Given'
  BY <1>1, <1>2, <1>3
<1>7. caps' \in {{}, {"CONDSTORE"}, {"CONDSTORE", "QRESYNC"}}
  BY DEF Server
<1> QED BY <1>2, <1>3, <1>4, <1>5, <1>6, <1>7 DEF Server

\* Message u changes, or leaves the mailbox.
LEMMA Modified ==
  ASSUME Bounds, Server, Counts, UNCHANGED <<nextUid, caps>>, DOMAIN flagOf' = DOMAIN flagOf,
         DOMAIN modOf' = DOMAIN modOf, modseq' = modseq + 1,
         \A u \in Given : modOf'[u] \in {modOf[u], modseq + 1},
         box' \in Seq(Int), Ascends(box'), Range(box') \subseteq Range(box)
  PROVE  Server' /\ Given' = Given
<1>1. /\ modseq \in 1 .. MaxModseq /\ MaxModseq \in Nat /\ modseq + 1 <= MaxModseq
      /\ nextUid \in 1 .. MaxUid + 1
      /\ Range(box) \subseteq Given
      /\ DOMAIN flagOf = Given /\ DOMAIN modOf = Given /\ \A u \in Given : modOf[u] \in 1 .. modseq
      /\ caps \in {{}, {"CONDSTORE"}, {"CONDSTORE", "QRESYNC"}}
  BY DEF Server, Bounds, Counts
<1>2. Given' = Given
  BY DEF Given
<1>3. \A u \in Given : modOf'[u] \in 1 .. modseq'
  <2> TAKE u \in Given
  <2>1. modOf[u] \in 1 .. modseq
    BY <1>1
  <2>2. modOf'[u] = modOf[u] \/ modOf'[u] = modseq + 1
    OBVIOUS
  <2> QED BY <1>1, <2>1, <2>2
<1>4. modseq' \in 1 .. MaxModseq
  BY <1>1
<1> QED BY <1>1, <1>2, <1>3, <1>4 DEF Server

LEMMA Expunged ==
  ASSUME Bounds, Server, NEW u, Expunge(u), UNCHANGED caps
  PROVE  /\ Server' /\ Given' = Given /\ u \in Given
         /\ box' = Kept(box, Range(box) \ {u}) /\ Range(box') = Range(box) \ {u}
         /\ nextUid' = nextUid /\ modseq' = modseq + 1 /\ modOf'[u] = modseq + 1
         /\ \A v \in Given : v # u => modOf'[v] = modOf[v]
         /\ flagOf' = flagOf
<1>1. /\ u \in Range(box) /\ Counts
      /\ box' = Kept(box, Range(box) \ {u})
      /\ modOf' = With(modOf, u, modseq + 1) /\ modseq' = modseq + 1
      /\ nextUid' = nextUid /\ flagOf' = flagOf
  BY DEF Expunge
<1>2. /\ box \in Seq(Int) /\ Ascends(box) /\ Range(box) \subseteq Given
      /\ DOMAIN modOf = Given
  BY DEF Server
<1>3. box' \in Seq(Int) /\ Ascends(box') /\ Range(box') = Range(box) \ {u}
  BY <1>1, <1>2, KeptParts
<1>4. /\ DOMAIN modOf' = Given /\ modOf'[u] = modseq + 1
      /\ \A v \in Given : v # u => modOf'[v] = modOf[v]
  BY <1>1, <1>2 DEF With
<1>5. \A v \in Given : modOf'[v] \in {modOf[v], modseq + 1}
  BY <1>4
<1>6. DOMAIN flagOf' = DOMAIN flagOf /\ DOMAIN modOf' = DOMAIN modOf /\ Range(box') \subseteq Range(box)
  BY <1>1, <1>2, <1>3, <1>4
<1>7. Server' /\ Given' = Given
  BY <1>1, <1>3, <1>5, <1>6, Modified
<1> QED BY <1>1, <1>2, <1>3, <1>4, <1>7

LEMMA HcParts ==
  ASSUME Server, Stored
  PROVE  /\ hc.modseq \in 0 .. modseq /\ hc.uidnext \in 0 .. nextUid /\ hc.seqset \in Seq(Int)
         /\ hc.modseq \in Nat /\ hc.uidnext \in Nat /\ modseq \in Nat /\ nextUid \in Nat
         /\ modseq >= 1
         /\ hc = [modseq |-> hc.modseq, uidnext |-> hc.uidnext, seqset |-> hc.seqset]
         /\ \A u \in Given : modOf[u] \in Nat /\ modOf[u] <= modseq /\ u \in Nat
         /\ Range(box) \subseteq Given /\ 0 \notin Given
         /\ Range(hc.seqset) \subseteq Given
<1>1. modseq \in Nat /\ nextUid \in Nat /\ modseq >= 1
  BY DEF Server
<1>2. /\ hc.modseq \in 0 .. modseq /\ hc.uidnext \in 0 .. nextUid /\ hc.seqset \in Seq(Int)
      /\ hc = [modseq |-> hc.modseq, uidnext |-> hc.uidnext, seqset |-> hc.seqset]
  BY DEF Stored
<1>3. \A u \in Given : modOf[u] \in 1 .. modseq
  BY DEF Server
<1>4. 0 \notin Given /\ \A u \in Given : u \in Nat
  BY <1>1 DEF Given
<1>5. hc.modseq \in Nat /\ hc.uidnext \in Nat
  BY <1>1, <1>2
<1>6. \A u \in Given : modOf[u] \in Nat /\ modOf[u] <= modseq
  BY <1>1, <1>3
<1>7. ASSUME NEW u \in Range(hc.seqset) PROVE u \in Given
  <2>1. u \in 1 .. hc.uidnext - 1
    BY DEF Stored
  <2> QED BY <1>1, <1>2, <2>1 DEF Given
<1> QED BY <1>1, <1>2, <1>4, <1>5, <1>6, <1>7 DEF Server

\* The entries stay while UIDs and changes are added and what goes is marked.
LEMMA StoredKeeps ==
  ASSUME Server, Stored, UNCHANGED <<caps, hc>>, nextUid' \in Nat, modseq' \in Nat,
         nextUid <= nextUid', modseq <= modseq', DOMAIN hcache' \subseteq Given',
         \A u \in Given : modOf'[u] = modOf[u] \/ modOf'[u] = modseq + 1,
         \A u \in Range(box) : u \in Range(box') \/ modOf'[u] = modseq + 1
  PROVE  Stored'
<1>1. /\ hc.modseq \in 0 .. modseq /\ hc.uidnext \in 0 .. nextUid /\ hc.seqset \in Seq(Int)
      /\ hc.modseq \in Nat /\ hc.uidnext \in Nat /\ modseq \in Nat /\ nextUid \in Nat
      /\ hc = [modseq |-> hc.modseq, uidnext |-> hc.uidnext, seqset |-> hc.seqset]
      /\ Range(hc.seqset) \subseteq Given
  BY HcParts
<1>2. hc' \in [modseq : 0 .. modseq', uidnext : 0 .. nextUid', seqset : Seq(Int)]
  <2>1. hc.modseq \in 0 .. modseq' /\ hc.uidnext \in 0 .. nextUid'
    BY <1>1
  <2> QED BY <1>1, <2>1
<1>3. ASSUME NEW u \in Range(hc.seqset)
      PROVE  u \in 1 .. hc.uidnext - 1 /\ (u \in Range(box') \/ modOf'[u] > hc.modseq)
  <2>1. u \in 1 .. hc.uidnext - 1 /\ (u \in Range(box) \/ modOf[u] > hc.modseq)
    BY DEF Stored
  <2>2. modOf'[u] = modOf[u] \/ modOf'[u] = modseq + 1
    BY <1>1
  <2>3. modseq + 1 > hc.modseq
    BY <1>1
  <2>4. CASE u \in Range(box)
    BY <2>1, <2>3, <2>4
  <2>5. CASE modOf[u] > hc.modseq
    BY <2>1, <2>2, <2>3, <2>5
  <2> QED BY <2>1, <2>4, <2>5
<1>4. (hc.modseq > 0 => caps # {}) /\ Ascends(hc.seqset)
  BY DEF Stored
<1>5. /\ Ascends(hc'.seqset) /\ (hc'.modseq > 0 => caps' # {})
      /\ \A u \in Range(hc'.seqset) :
           u \in 1 .. hc'.uidnext - 1 /\ (u \in Range(box') \/ modOf'[u] > hc'.modseq)
  BY <1>3, <1>4
<1> QED BY <1>2, <1>5 DEF Stored

LEMMA DeliverKeeps ==
  ASSUME Bounds, Opening, Deliver
  PROVE  Opening'
<1>1. /\ pc = "closed" /\ nextUid \in Uids /\ Counts
      /\ box' = Append(box, nextUid) /\ flagOf' = With(flagOf, nextUid, FALSE)
      /\ modOf' = With(modOf, nextUid, modseq + 1)
      /\ nextUid' = nextUid + 1 /\ modseq' = modseq + 1
      /\ UNCHANGED <<caps, hcache, hc, pc, sess, highest, method, index, flag, changed, unsynced>>
      /\ Server /\ Stored /\ Fresh /\ Stage
  BY DEF Deliver, cache, client, Opening
<1>2. /\ Server' /\ Given' = Given \cup {nextUid} /\ nextUid \notin Given
      /\ Range(box') = Range(box) \cup {nextUid}
      /\ modOf'[nextUid] = modseq + 1
      /\ \A u \in Given : flagOf'[u] = flagOf[u] /\ modOf'[u] = modOf[u]
  BY <1>1, Delivered
<1>3. /\ hc.modseq \in 0 .. modseq /\ modseq \in Nat /\ nextUid \in Nat /\ DOMAIN hcache \subseteq Given
  BY <1>1, HcParts DEF Stored
<1>4. Stored'
  <2>1. nextUid' \in Nat /\ modseq' \in Nat /\ nextUid <= nextUid' /\ modseq <= modseq'
    BY <1>1, <1>3
  <2>2. DOMAIN hcache' \subseteq Given'
    BY <1>1, <1>2, <1>3
  <2> QED BY <1>1, <1>2, <2>1, <2>2, StoredKeeps
<1>5. Fresh'
  <2> SUFFICES ASSUME hc.modseq > 0, NEW u \in DOMAIN hcache, u \in Range(box'), u \notin unsynced,
                      modOf'[u] <= hc.modseq
               PROVE  hcache[u] = flagOf'[u]
    BY <1>1 DEF Fresh
  <2>1. u \in Given /\ u \in Range(box) /\ modOf[u] <= hc.modseq
    BY <1>2, <1>3
  <2> QED BY <1>1, <1>2, <2>1 DEF Fresh
<1>6. Stage'
  BY <1>1 DEF Stage
<1> QED BY <1>2, <1>4, <1>5, <1>6 DEF Opening

LEMMA OtherClientExpungesKeeps ==
  ASSUME Bounds, Opening, NEW u, OtherClientExpunges(u)
  PROVE  Opening'
<1>1. /\ pc = "closed" /\ Expunge(u)
      /\ UNCHANGED <<caps, hcache, hc, pc, sess, highest, method, index, flag, changed, unsynced>>
      /\ Server /\ Stored /\ Fresh /\ Stage
  BY DEF OtherClientExpunges, cache, client, Opening
<1>2. /\ Server' /\ Given' = Given /\ u \in Given
      /\ Range(box') = Range(box) \ {u}
      /\ nextUid' = nextUid /\ modseq' = modseq + 1 /\ modOf'[u] = modseq + 1
      /\ \A v \in Given : v # u => modOf'[v] = modOf[v]
      /\ flagOf' = flagOf
  BY <1>1, Expunged
<1>3. /\ hc.modseq \in 0 .. modseq /\ modseq \in Nat /\ nextUid \in Nat /\ DOMAIN hcache \subseteq Given
  BY <1>1, HcParts DEF Stored
<1>4. Stored'
  <2>1. nextUid' \in Nat /\ modseq' \in Nat /\ nextUid <= nextUid' /\ modseq <= modseq'
    BY <1>2, <1>3
  <2>2. DOMAIN hcache' \subseteq Given'
    BY <1>1, <1>2, <1>3
  <2>3. \A v \in Given : modOf'[v] = modOf[v] \/ modOf'[v] = modseq + 1
    BY <1>2
  <2>4. \A v \in Range(box) : v \in Range(box') \/ modOf'[v] = modseq + 1
    BY <1>2
  <2> QED BY <1>1, <2>1, <2>2, <2>3, <2>4, StoredKeeps
<1>5. Fresh'
  <2> SUFFICES ASSUME hc.modseq > 0, NEW v \in DOMAIN hcache, v \in Range(box'), v \notin unsynced,
                      modOf'[v] <= hc.modseq
               PROVE  hcache[v] = flagOf'[v]
    BY <1>1 DEF Fresh
  <2>1. v \in Given /\ v \in Range(box) /\ v # u /\ modOf[v] <= hc.modseq
    BY <1>2, <1>3
  <2> QED BY <1>1, <1>2, <2>1 DEF Fresh
<1>6. Stage'
  BY <1>1 DEF Stage
<1> QED BY <1>2, <1>4, <1>5, <1>6 DEF Opening

LEMMA OtherClientStoresKeeps ==
  ASSUME Bounds, Opening, NEW u, OtherClientStores(u)
  PROVE  Opening'
<1>1. /\ pc = "closed" /\ u \in Range(box) /\ Counts
      /\ flagOf' = [flagOf EXCEPT ![u] = ~@]
      /\ modOf' = [modOf EXCEPT ![u] = modseq + 1] /\ modseq' = modseq + 1
      /\ UNCHANGED <<box, nextUid, caps, hcache, hc, pc, sess, highest, method, index, flag,
                     changed, unsynced>>
      /\ Server /\ Stored /\ Fresh /\ Stage
  BY DEF OtherClientStores, cache, client, Opening
<1>2. /\ DOMAIN flagOf' = DOMAIN flagOf /\ DOMAIN modOf' = DOMAIN modOf
      /\ \A v \in Given : modOf'[v] \in {modOf[v], modseq + 1}
      /\ \A v \in Given : v # u => flagOf'[v] = flagOf[v] /\ modOf'[v] = modOf[v]
      /\ modOf'[u] = modseq + 1
      /\ box' \in Seq(Int) /\ Ascends(box') /\ Range(box') \subseteq Range(box)
  BY <1>1 DEF Server
<1>3. Server' /\ Given' = Given
  BY <1>1, <1>2, Modified
<1>4. /\ hc.modseq \in 0 .. modseq /\ modseq \in Nat /\ nextUid \in Nat /\ DOMAIN hcache \subseteq Given
  BY <1>1, HcParts DEF Stored
<1>5. Stored'
  <2>1. nextUid' \in Nat /\ modseq' \in Nat /\ nextUid <= nextUid' /\ modseq <= modseq'
    BY <1>1, <1>4
  <2>2. DOMAIN hcache' \subseteq Given'
    BY <1>1, <1>3, <1>4
  <2>3. \A v \in Given : modOf'[v] = modOf[v] \/ modOf'[v] = modseq + 1
    BY <1>2
  <2>4. \A v \in Range(box) : v \in Range(box')
    BY <1>1
  <2> QED BY <1>1, <2>1, <2>2, <2>3, <2>4, StoredKeeps
<1>6. Fresh'
  <2> SUFFICES ASSUME hc.modseq > 0, NEW v \in DOMAIN hcache, v \in Range(box'), v \notin unsynced,
                      modOf'[v] <= hc.modseq
               PROVE  hcache[v] = flagOf'[v]
    BY <1>1 DEF Fresh
  <2>1. v \in Given /\ v \in Range(box) /\ v # u /\ modOf[v] <= hc.modseq
    BY <1>1, <1>2, <1>4
  <2> QED BY <1>1, <1>2, <2>1 DEF Fresh
<1>7. Stage'
  BY <1>1 DEF Stage
<1> QED BY <1>3, <1>5, <1>6, <1>7 DEF Opening

(***************************************************************************)
(* imap_read_headers().                                                    *)
(***************************************************************************)
LEMMA ServerSame ==
  ASSUME Server, UNCHANGED <<mailbox, caps>>
  PROVE  /\ Server' /\ Given' = Given
         /\ UNCHANGED <<box, nextUid, modseq, flagOf, modOf, caps>>
BY DEF Server, mailbox, Given

LEMMA SelectKeeps ==
  ASSUME Bounds, Opening, Select
  PROVE  Opening'
<1>1. /\ sess' = box /\ highest' = modseq /\ index' = <<>> /\ flag' = <<>> /\ changed' = {}
      /\ pc' = "cache" /\ UNCHANGED <<mailbox, caps, hcache, hc, unsynced>>
      /\ method' \in {"none", "normal", "condstore", "qresync"}
      /\ method' \in {"condstore", "qresync"} => hc.modseq > 0
      /\ Server /\ Stored /\ Fresh
  BY DEF Select, Opening, cache
<1>2. Server' /\ Given' = Given /\ UNCHANGED <<box, nextUid, modseq, flagOf, modOf, caps>>
  BY <1>1, ServerSame
<1>3. Stored' /\ Fresh'
  BY <1>1, <1>2 DEF Stored, Fresh
<1>4. Known' = {} /\ DOMAIN flag' = {} /\ index' \in Seq(Int)
  BY <1>1, NoSeq DEF Known
<1>5. AtCache'
  BY <1>1, <1>2, <1>4 DEF AtCache, Selected
<1>6. Stage'
  BY <1>1, <1>5 DEF Stage
<1> QED BY <1>2, <1>3, <1>6 DEF Opening

\* What the two ways to use the cache have in common.
LEMMA EvalParts ==
  ASSUME Bounds, Opening, EvalCache
  PROVE  /\ Server /\ Stored /\ Fresh /\ AtCache /\ Server' /\ Given' = Given
         /\ UNCHANGED <<box, nextUid, modseq, flagOf, modOf, caps>>
         /\ UNCHANGED <<hc, sess, highest, method, changed>>
         /\ pc' \in {"updates", "fetch"}
         /\ pc' = "updates" <=> method \in {"condstore", "qresync"} /\ hc.modseq # highest
         /\ sess \in Seq(Int) /\ sess = box /\ Ascends(sess)
<1>1. /\ pc = "cache" /\ UNCHANGED <<mailbox, caps, hc, sess, highest, method, changed>>
      /\ pc' = IF method \in {"condstore", "qresync"} /\ hc.modseq # highest THEN "updates" ELSE "fetch"
  BY DEF EvalCache
<1>2. Server /\ Stored /\ Fresh /\ AtCache
  BY <1>1 DEF Opening, Stage
<1>3. Server' /\ Given' = Given /\ UNCHANGED <<box, nextUid, modseq, flagOf, modOf, caps>>
  BY <1>1, <1>2, ServerSame
<1>4. sess \in Seq(Int) /\ sess = box /\ Ascends(sess)
  BY <1>2 DEF AtCache, Selected, Server
<1> QED BY <1>1, <1>2, <1>3, <1>4

LEMMA EvalNoneKeeps ==
  ASSUME Bounds, Opening, EvalCache, method = "none", UNCHANGED <<index, flag, hcache, unsynced>>
  PROVE  Opening'
<1>1. /\ Server /\ Stored /\ Fresh /\ AtCache /\ Server' /\ Given' = Given
      /\ UNCHANGED <<box, nextUid, modseq, flagOf, modOf, caps>>
      /\ UNCHANGED <<hc, sess, highest, method, changed>>
      /\ pc' = "fetch"
  BY EvalParts
<1>2. Stored' /\ Fresh'
  BY <1>1 DEF Stored, Fresh
<1>3. Selected' /\ DOMAIN index' = {}
  BY <1>1, NoSeq DEF AtCache, Selected, Known
<1>4. Sound' /\ Placed'
  BY <1>3 DEF Sound, Placed
<1>5. AtFetch'
  BY <1>1, <1>3, <1>4 DEF AtFetch
<1>6. Stage'
  BY <1>1, <1>5 DEF Stage
<1> QED BY <1>1, <1>2, <1>6 DEF Opening

Hits == {i \in DOMAIN sess : sess[i] < hc.uidnext /\ sess[i] \in DOMAIN hcache}
Hit == {sess[i] : i \in Hits}
UpToHits == {j \in DOMAIN sess : \E k \in Hits : j <= k}

LEMMA EvalNormalKeeps ==
  ASSUME Bounds, Opening, EvalCache, method \in {"normal", "condstore"}, read_headers_normal_eval_cache
  PROVE  Opening'
<1>1. /\ Server /\ Stored /\ Fresh /\ AtCache /\ Server' /\ Given' = Given
      /\ UNCHANGED <<box, nextUid, modseq, flagOf, modOf, caps>>
      /\ UNCHANGED <<hc, sess, highest, method, changed>>
      /\ pc' \in {"updates", "fetch"}
      /\ pc' = "updates" <=> method \in {"condstore", "qresync"} /\ hc.modseq # highest
      /\ sess \in Seq(Int) /\ sess = box /\ Ascends(sess)
  BY EvalParts
<1>2. /\ index' = [i \in 1 .. Cardinality(UpToHits) |-> IF i \in Hits THEN sess[i] ELSE 0]
      /\ flag' = [u \in Hit |-> IF method = "condstore" THEN hcache[u] ELSE flagOf[u]]
      /\ hcache' = IF method = "normal" /\ caps # {}
                     THEN [u \in DOMAIN hcache |-> IF u \in Hit THEN flagOf[u] ELSE hcache[u]]
                     ELSE hcache
      /\ unsynced' = IF method = "normal" /\ caps # {} THEN unsynced \ Hit ELSE unsynced
  BY DEF read_headers_normal_eval_cache, Hits, Hit, UpToHits
<1> DEFINE c == Cardinality(UpToHits)
<1>3. /\ Len(sess) \in Nat /\ DOMAIN sess = 1 .. Len(sess)
      /\ \A i \in 1 .. Len(sess) : sess[i] \in Int /\ sess[i] \in Range(sess)
  BY <1>1, SeqParts
<1>4. Hits \subseteq UpToHits /\ UpToHits \in SUBSET (1 .. Len(sess))
  BY <1>3 DEF Hits, UpToHits
<1>5. c \in 0 .. Len(sess) /\ UpToHits = 1 .. c
  <2>1. \A i \in UpToHits : 1 .. i \subseteq UpToHits
    <3> SUFFICES ASSUME NEW i \in UpToHits, NEW j \in 1 .. i PROVE j \in UpToHits
      OBVIOUS
    <3>1. PICK k \in Hits : i <= k
      BY DEF UpToHits
    <3>2. i \in 1 .. Len(sess) /\ k \in 1 .. Len(sess)
      BY <1>4
    <3>3. j \in DOMAIN sess /\ j <= k
      BY <1>3, <3>1, <3>2
    <3> QED BY <3>3 DEF UpToHits
  <2> QED BY <1>3, <1>4, <2>1, FirstOnes
<1>6. Range(box) \subseteq Given /\ 0 \notin Given /\ hc.modseq \in 0 .. modseq /\ modseq \in Nat
      /\ \A u \in Given : modOf[u] \in Nat /\ modOf[u] <= modseq
  BY <1>1, HcParts
<1>7. \A i \in 1 .. c : index'[i] = IF i \in Hits THEN sess[i] ELSE 0
  BY <1>2
<1>8. index' \in Seq(Int) /\ DOMAIN index' = 1 .. c
  <2>1. \A i \in 1 .. c : (IF i \in Hits THEN sess[i] ELSE 0) \in Int
    BY <1>3 DEF Hits
  <2>2. index' \in [1 .. c -> Int] /\ c \in Nat
    BY <1>2, <1>5, <2>1
  <2> HIDE DEF c
  <2> QED BY <2>2, FunSeq
<1> HIDE DEF c
<1>9. \A i \in Hits : i \in 1 .. c /\ i \in DOMAIN sess /\ sess[i] \in Range(box) /\ sess[i] # 0
                      /\ sess[i] < hc.uidnext /\ sess[i] \in DOMAIN hcache
  BY <1>1, <1>3, <1>4, <1>5, <1>6 DEF Hits
<1>10. Known' = Hit
  <2>1. ASSUME NEW v \in Known' PROVE v \in Hit
    <3>1. PICK i \in 1 .. c : index'[i] = v
      BY <1>8 DEF Known, Range
    <3>2. v # 0
      BY DEF Known
    <3> QED BY <1>7, <3>1, <3>2 DEF Hit
  <2>2. ASSUME NEW i \in Hits PROVE sess[i] \in Known'
    <3>1. i \in DOMAIN index' /\ index'[i] = sess[i] /\ sess[i] # 0
      BY <1>7, <1>8, <1>9
    <3> QED BY <3>1 DEF Known, Range
  <2> QED BY <2>1, <2>2 DEF Hit
<1>11. Selected'
  <2>1. DOMAIN flag' = Hit
    BY <1>2
  <2> QED BY <1>1, <1>8, <1>10, <2>1 DEF AtCache, Selected
<1>12. Placed'
  <2>1. \A i \in 1 .. c : i \in DOMAIN sess /\ index'[i] \in {0, sess[i]}
    BY <1>3, <1>5, <1>7
  <2> QED BY <1>1, <1>8, <2>1 DEF Placed
<1>13. /\ DOMAIN hcache' = DOMAIN hcache
       /\ method = "normal" /\ caps # {} => \A u \in Hit : u \in DOMAIN hcache => hcache'[u] = flagOf[u]
       /\ \A u \in DOMAIN hcache : u \notin Hit \/ method = "condstore" => hcache'[u] = hcache[u]
       /\ caps = {} => hcache' = hcache
       /\ \A u : u \in unsynced /\ u \notin unsynced' => u \in Hit /\ method = "normal" /\ caps # {}
  <2>1. CASE method = "normal" /\ caps # {}
    <3>1. /\ hcache' = [u \in DOMAIN hcache |-> IF u \in Hit THEN flagOf[u] ELSE hcache[u]]
          /\ unsynced' = unsynced \ Hit
      BY <1>2, <2>1
    <3> QED BY <2>1, <3>1
  <2>2. CASE ~(method = "normal" /\ caps # {})
    <3>1. hcache' = hcache /\ unsynced' = unsynced
      BY <1>2, <2>2
    <3> QED BY <2>2, <3>1
  <2> QED BY <2>1, <2>2
<1>14. Stored'
  BY <1>1, <1>13 DEF Stored
<1>15. hc.modseq > 0 => caps # {}
  BY <1>1 DEF Stored
<1>16. Fresh'
  <2> SUFFICES ASSUME hc.modseq > 0, NEW u \in DOMAIN hcache, u \in Range(box), u \notin unsynced',
                      modOf[u] <= hc.modseq
               PROVE  hcache'[u] = flagOf[u]
    BY <1>1, <1>13 DEF Fresh
  <2>1. CASE u \in Hit /\ method = "normal"
    BY <1>13, <1>15, <2>1
  <2>2. CASE ~(u \in Hit /\ method = "normal")
    <3>1. u \notin unsynced
      BY <1>13, <2>2
    <3>2. hcache'[u] = hcache[u]
      BY <1>13, <2>2
    <3> QED BY <1>1, <3>1, <3>2 DEF Fresh
  <2> QED BY <2>1, <2>2
<1>17. CASE pc' = "updates"
  <2>1. method = "condstore"
    BY <1>1, <1>17
  <2>2. hc.modseq > 0
    BY <1>1, <2>1 DEF AtCache
  <2>3. \A u \in Hit : u < hc.uidnext /\ u \in DOMAIN hcache
    BY <1>9 DEF Hit
  <2>4. \A u \in Hit : flag'[u] = hcache[u] /\ hcache'[u] = hcache[u]
    BY <1>2, <1>13, <2>1, <2>3
  <2>5. AtUpdates'
    BY <1>1, <1>2, <1>11, <1>12, <1>13, <2>1, <2>2, <2>3, <2>4 DEF AtUpdates
  <2>6. Stage'
    BY <1>17, <2>5 DEF Stage
  <2> QED BY <1>1, <1>14, <1>16, <2>6 DEF Opening
<1>18. CASE pc' = "fetch"
  <2>1. ASSUME NEW i \in 1 .. c, index'[i] = sess[i], sess[i] \notin unsynced'
        PROVE  Right(sess[i])'
    <3>1. sess[i] # 0
      BY <1>1, <1>3, <1>5, <1>6
    <3>2. i \in Hits
      BY <1>7, <2>1, <3>1
    <3>3. sess[i] \in Hit /\ sess[i] \in DOMAIN hcache /\ sess[i] \in Range(box)
      BY <1>9, <3>2 DEF Hit
    <3>4. CASE method = "normal"
      <4>1. flag'[sess[i]] = flagOf[sess[i]]
        BY <1>2, <3>3, <3>4
      <4>2. caps # {} => hcache'[sess[i]] = flagOf[sess[i]]
        BY <1>13, <3>3, <3>4
      <4> QED BY <1>1, <1>13, <3>3, <4>1, <4>2 DEF Right
    <3>5. CASE method = "condstore"
      <4>1. hc.modseq > 0 /\ hc.modseq = modseq
        BY <1>1, <1>18, <3>5 DEF AtCache, Selected
      <4>2. sess[i] \notin unsynced /\ modOf[sess[i]] <= hc.modseq
        BY <1>6, <1>13, <2>1, <3>3, <3>5, <4>1
      <4>3. hcache[sess[i]] = flagOf[sess[i]]
        BY <1>1, <3>3, <4>1, <4>2 DEF Fresh
      <4>4. flag'[sess[i]] = hcache[sess[i]] /\ hcache'[sess[i]] = hcache[sess[i]]
        BY <1>2, <1>13, <3>3, <3>5
      <4> QED BY <1>1, <1>13, <3>3, <4>3, <4>4 DEF Right
    <3> QED BY <3>4, <3>5
  <2>2. Sound'
    BY <1>1, <1>8, <2>1 DEF Sound
  <2>3. AtFetch'
    BY <1>1, <1>11, <1>12, <2>2 DEF AtFetch
  <2>4. Stage'
    BY <1>18, <2>3 DEF Stage
  <2> QED BY <1>1, <1>14, <1>16, <2>4 DEF Opening
<1> QED BY <1>1, <1>17, <1>18

LEMMA EvalQresyncKeeps ==
  ASSUME Bounds, Opening, EvalCache, method = "qresync", read_headers_qresync_eval_cache
  PROVE  Opening'
<1>1. /\ Server /\ Stored /\ Fresh /\ AtCache /\ Server' /\ Given' = Given
      /\ UNCHANGED <<box, nextUid, modseq, flagOf, modOf, caps>>
      /\ UNCHANGED <<hc, sess, highest, method, changed>>
      /\ pc' \in {"updates", "fetch"}
      /\ pc' = "updates" <=> method \in {"condstore", "qresync"} /\ hc.modseq # highest
      /\ sess \in Seq(Int) /\ sess = box /\ Ascends(sess)
  BY EvalParts
<1>2. /\ index' = Kept(hc.seqset, {0} \cup DOMAIN hcache)
      /\ flag' = [u \in Range(index') \ {0} |-> hcache[u]]
      /\ UNCHANGED <<hcache, unsynced>>
  BY DEF read_headers_qresync_eval_cache, Compacted
<1>3. /\ Range(box) \subseteq Given /\ 0 \notin Given /\ hc.modseq \in 0 .. modseq /\ modseq \in Nat
      /\ hc.seqset \in Seq(Int) /\ Range(hc.seqset) \subseteq Given
      /\ \A u \in Given : modOf[u] \in Nat /\ modOf[u] <= modseq
  BY <1>1, HcParts
<1>4. /\ hc.modseq > 0 /\ caps # {} /\ Ascends(hc.seqset)
      /\ \A u \in Range(hc.seqset) :
           u \in 1 .. hc.uidnext - 1 /\ (u \in Range(box) \/ modOf[u] > hc.modseq)
  BY <1>1 DEF AtCache, Stored
<1>5. /\ index' \in Seq(Int) /\ Ascends(index')
      /\ Range(index') = Range(hc.seqset) \cap ({0} \cup DOMAIN hcache)
  BY <1>2, <1>3, <1>4, KeptParts
<1>6. Known' = Range(index') /\ Range(index') \subseteq Range(hc.seqset) /\ Range(index') \subseteq DOMAIN hcache
      /\ 0 \notin Range(index')
  BY <1>3, <1>5 DEF Known
<1>7. Selected'
  <2>1. DOMAIN flag' = Known'
    BY <1>2, <1>6
  <2> QED BY <1>1, <1>5, <2>1 DEF AtCache, Selected
<1>8. Stored' /\ Fresh'
  BY <1>1, <1>2 DEF Stored, Fresh
<1>9. \A u \in Range(index') : flag'[u] = hcache[u] /\ u \in DOMAIN hcache
  BY <1>2, <1>6
<1>10. CASE pc' = "updates"
  <2>1. \A u \in DOMAIN flag' : u < hc.uidnext /\ u \in DOMAIN hcache /\ flag'[u] = hcache[u]
    <3>1. hc.uidnext \in Int
      BY <1>1, HcParts
    <3>2. \A u \in DOMAIN flag' : u \in Range(index')
      BY <1>2
    <3> QED BY <1>4, <1>6, <1>9, <3>1, <3>2
  <2>2. AtUpdates'
    BY <1>1, <1>2, <1>4, <1>5, <1>6, <1>7, <2>1 DEF AtUpdates
  <2>3. Stage'
    BY <1>10, <2>2 DEF Stage
  <2> QED BY <1>1, <1>8, <2>3 DEF Opening
<1>11. CASE pc' = "fetch"
  <2>1. hc.modseq = modseq
    BY <1>1, <1>11 DEF AtCache, Selected
  <2>2. ASSUME NEW u \in Range(index') PROVE u \in Range(sess) /\ modOf[u] <= hc.modseq
    <3>1. u \in Range(box) \/ modOf[u] > hc.modseq
      BY <1>4, <1>6
    <3>2. u \in Given
      BY <1>3, <1>6
    <3>3. modOf[u] \in Nat /\ modOf[u] <= modseq
      BY <1>3, <3>2
    <3>4. ~(modOf[u] > hc.modseq)
      BY <1>3, <2>1, <3>3
    <3> QED BY <1>1, <2>1, <3>1, <3>3, <3>4
  <2>3. ASSUME NEW i \in DOMAIN index', i \in DOMAIN sess, index'[i] = sess[i], sess[i] \notin unsynced
        PROVE  Right(sess[i])'
    <3>1. sess[i] \in Range(index')
      BY <2>3 DEF Range
    <3>2. hcache[sess[i]] = flagOf[sess[i]]
      BY <1>1, <1>4, <1>9, <2>2, <2>3, <3>1 DEF Fresh
    <3> QED BY <1>1, <1>2, <1>9, <3>1, <3>2 DEF Right
  <2>4. Sound'
    BY <1>1, <1>2, <2>3 DEF Sound
  <2>5. AtFetch'
    BY <1>1, <1>5, <1>7, <2>2, <2>4 DEF AtFetch
  <2>6. Stage'
    BY <1>11, <2>5 DEF Stage
  <2> QED BY <1>1, <1>8, <2>6 DEF Opening
<1> QED BY <1>1, <1>10, <1>11

LEMMA EvalCacheKeeps ==
  ASSUME Bounds, Opening, EvalCache
  PROVE  Opening'
<1>1. \/ method = "none" /\ UNCHANGED <<index, flag, hcache, unsynced>>
      \/ method \in {"normal", "condstore"} /\ read_headers_normal_eval_cache
      \/ method = "qresync" /\ read_headers_qresync_eval_cache
  BY DEF EvalCache
<1> QED BY <1>1, EvalNoneKeeps, EvalNormalKeeps, EvalQresyncKeeps

LEMMA KeptAll ==
  ASSUME NEW s \in Seq(Int), NEW K, Range(s) \subseteq K
  PROVE  Kept(s, K) = s
<1> DEFINE S == {i \in DOMAIN s : s[i] \in K}
<1>1. /\ Len(s) \in Nat /\ DOMAIN s = 1 .. Len(s) /\ s \in [1 .. Len(s) -> Int]
      /\ \A i \in 1 .. Len(s) : s[i] \in Range(s)
  BY SeqParts, LenProperties
<1>2. S = 1 .. Len(s) /\ Cardinality(1 .. Len(s)) = Len(s)
  <2>1. S = 1 .. Len(s)
    BY <1>1
  <2>2. Cardinality(1 .. Len(s)) = Len(s)
    BY <1>1, FS_Interval
  <2> QED BY <2>1, <2>2
<1>3. ASSUME NEW i \in 1 .. Len(s) PROVE Rank(1 .. Len(s), i) = i
  <2>1. {j \in 1 .. Len(s) : j <= i} = 1 .. i /\ i \in Nat /\ i >= 1
    BY <1>1
  <2>2. Cardinality(1 .. i) = i
    BY <2>1, FS_Interval
  <2> QED BY <2>1, <2>2 DEF Rank
<1>4. Kept(s, K) = [n \in 1 .. Cardinality(S) |-> s[CHOOSE i \in S : Rank(S, i) = n]]
  BY DEF Kept, Rank
<1> HIDE DEF S
<1>5. ASSUME NEW n \in 1 .. Len(s) PROVE (CHOOSE i \in S : Rank(S, i) = n) = n
  <2>1. \A i \in S : Rank(S, i) = n <=> i = n
    BY <1>2, <1>3
  <2>2. n \in S
    BY <1>2
  <2> QED BY <2>1, <2>2
<1>6. Kept(s, K) = [n \in 1 .. Len(s) |-> s[n]]
  BY <1>2, <1>4, <1>5
<1> QED BY <1>1, <1>6

\* What read_headers_condstore_qresync_updates() reads and does.
Gone ==
  IF method = "qresync"
    THEN {u \in 1 .. hc.uidnext - 1 :
            u \in DOMAIN modOf /\ modOf[u] > hc.modseq /\ u \notin Range(box) /\ u \in Range(index)}
    ELSE {}
Left == Vanished(index, Gone)
Told == {i \in DOMAIN sess : sess[i] < hc.uidnext /\ modOf[sess[i]] > hc.modseq}
Set == {sess[i] : i \in {j \in Told : j \in DOMAIN Left /\ Left[j] = sess[j]}}
Put == {Left[i] : i \in Told \cap DOMAIN Left} \ {0}

LEMMA UpdatesParts ==
  ASSUME Bounds, Opening, read_headers_condstore_qresync_updates
  PROVE  /\ Server /\ Stored /\ Fresh /\ AtUpdates /\ Server' /\ Given' = Given
         /\ UNCHANGED <<box, nextUid, modseq, flagOf, modOf, caps>>
         /\ UNCHANGED <<hc, sess, highest, method, changed>> /\ pc' = "fetch"
         /\ index' = Left
         /\ flag' = [u \in DOMAIN flag \ Gone |-> IF u \in Set THEN flagOf[u] ELSE flag[u]]
         /\ hcache' = [u \in (DOMAIN hcache \cup Put) \ Gone |->
                         IF u \in Put THEN flag'[u] ELSE hcache[u]]
         /\ unsynced' = unsynced \ (Set \cup Gone)
<1>1. /\ pc = "updates" /\ UNCHANGED <<mailbox, caps, hc, sess, highest, method, changed>> /\ pc' = "fetch"
      /\ index' = Left
      /\ flag' = [u \in DOMAIN flag \ Gone |-> IF u \in Set THEN flagOf[u] ELSE flag[u]]
      /\ hcache' = [u \in (DOMAIN hcache \cup Put) \ Gone |->
                      IF u \in Put THEN flag'[u] ELSE hcache[u]]
      /\ unsynced' = unsynced \ (Set \cup Gone)
  BY DEF read_headers_condstore_qresync_updates, Gone, Left, Told, Set, Put
<1>2. Server /\ Stored /\ Fresh /\ AtUpdates
  BY <1>1 DEF Opening, Stage
<1>3. Server' /\ Given' = Given /\ UNCHANGED <<box, nextUid, modseq, flagOf, modOf, caps>>
  BY <1>1, <1>2, ServerSame
<1> QED BY <1>1, <1>2, <1>3

LEMMA UpdatesKeeps ==
  ASSUME Bounds, Opening, read_headers_condstore_qresync_updates
  PROVE  Opening'
<1>1. /\ Server /\ Stored /\ Fresh /\ AtUpdates /\ Server' /\ Given' = Given
      /\ UNCHANGED <<box, nextUid, modseq, flagOf, modOf, caps>>
      /\ UNCHANGED <<hc, sess, highest, method, changed>> /\ pc' = "fetch"
      /\ index' = Left
      /\ flag' = [u \in DOMAIN flag \ Gone |-> IF u \in Set THEN flagOf[u] ELSE flag[u]]
      /\ hcache' = [u \in (DOMAIN hcache \cup Put) \ Gone |->
                      IF u \in Put THEN flag'[u] ELSE hcache[u]]
      /\ unsynced' = unsynced \ (Set \cup Gone)
  BY UpdatesParts
<1>2. /\ sess = box /\ index \in Seq(Int) /\ DOMAIN flag = Known /\ method \in {"condstore", "qresync"}
      /\ hc.modseq > 0 /\ (method = "condstore" => Placed)
      /\ (method = "qresync" => Ascends(index) /\ Range(index) \subseteq Range(hc.seqset))
      /\ \A u \in DOMAIN flag : u < hc.uidnext /\ u \in DOMAIN hcache /\ flag[u] = hcache[u]
  BY <1>1 DEF AtUpdates, Selected
<1>3. /\ Range(box) \subseteq Given /\ 0 \notin Given /\ hc.modseq \in 0 .. modseq /\ modseq \in Nat
      /\ \A u \in Given : modOf[u] \in Nat /\ modOf[u] <= modseq
      /\ hc.uidnext \in Nat
  BY <1>1, HcParts
<1>4. /\ sess \in Seq(Int) /\ Len(sess) \in Nat /\ DOMAIN sess = 1 .. Len(sess)
      /\ \A i \in 1 .. Len(sess) : sess[i] \in Int /\ sess[i] \in Range(sess)
  <2>1. sess \in Seq(Int)
    BY <1>1, <1>2 DEF Server
  <2> QED BY <2>1, SeqParts
<1>5. /\ Left \in Seq(Int) /\ Range(Left) = Range(index) \ Gone
      /\ Ascends(index) => Ascends(Left)
  <2>1. Left = Kept(index, Range(index) \ Gone)
    BY DEF Left, Vanished
  <2> QED BY <1>2, <2>1, KeptParts
<1>6. 0 \notin Gone /\ \A u \in Gone : u \notin Range(box)
  BY <1>3 DEF Gone
<1>7. Known' = Known \ Gone /\ Range(Left) \ {0} = Known \ Gone
  BY <1>1, <1>5, <1>6 DEF Known
<1>8. Put \subseteq Known \ Gone /\ Put \subseteq DOMAIN hcache
  <2>1. Put \subseteq Range(Left) \ {0}
    BY DEF Put, Range
  <2> QED BY <1>2, <1>7, <2>1
<1>9. Set \subseteq Put /\ Set \subseteq Range(box)
  <2> SUFFICES ASSUME NEW j \in Told, j \in DOMAIN Left, Left[j] = sess[j]
               PROVE  sess[j] \in Put /\ sess[j] \in Range(box)
    BY DEF Set
  <2>1. j \in 1 .. Len(sess)
    BY <1>4 DEF Told
  <2>2. sess[j] \in Range(box) /\ sess[j] # 0
    BY <1>2, <1>3, <1>4, <2>1
  <2> QED BY <2>2 DEF Put
<1>10. DOMAIN hcache' = DOMAIN hcache \ Gone
  BY <1>1, <1>8
<1>11. ASSUME NEW u \in DOMAIN hcache \ Gone
       PROVE  hcache'[u] = IF u \in Set THEN flagOf[u] ELSE hcache[u]
  <2>1. hcache'[u] = IF u \in Put THEN flag'[u] ELSE hcache[u]
    BY <1>1
  <2>2. CASE u \in Put
    <3>1. u \in DOMAIN flag \ Gone
      BY <1>2, <1>8, <2>2
    <3>2. flag'[u] = IF u \in Set THEN flagOf[u] ELSE flag[u]
      BY <1>1, <3>1
    <3>3. flag[u] = hcache[u]
      BY <1>2, <3>1
    <3> QED BY <2>1, <2>2, <3>2, <3>3
  <2>3. CASE u \notin Put
    BY <1>9, <2>1, <2>3
  <2> QED BY <2>2, <2>3
<1>12. Stored'
  BY <1>1, <1>10 DEF Stored
<1>13. Fresh'
  <2> SUFFICES ASSUME NEW u \in DOMAIN hcache \ Gone, u \in Range(box), u \notin unsynced',
                      modOf[u] <= hc.modseq
               PROVE  hcache'[u] = flagOf[u]
    BY <1>1, <1>10 DEF Fresh
  <2>1. CASE u \in Set
    BY <1>11, <2>1
  <2>2. CASE u \notin Set
    <3>1. u \notin unsynced
      BY <1>1, <2>2
    <3>2. hcache[u] = flagOf[u]
      BY <1>1, <1>2, <3>1 DEF Fresh
    <3> QED BY <1>11, <2>2, <3>2
  <2> QED BY <2>1, <2>2
<1>14. Selected'
  <2>1. DOMAIN flag' = Known'
    BY <1>1, <1>2, <1>7
  <2> QED BY <1>1, <1>5, <2>1 DEF AtUpdates, Selected
<1>15. ASSUME NEW i \in DOMAIN Left, i \in DOMAIN sess, Left[i] = sess[i], sess[i] \notin unsynced'
       PROVE  Right(sess[i])'
  <2> DEFINE u == sess[i]
  <2>1. u \in Range(box) /\ u # 0 /\ u \in Given
    BY <1>2, <1>3, <1>4, <1>15
  <2>2. u \in Range(Left)
    BY <1>15 DEF Range
  <2>3. u \in Known \ Gone /\ u \in DOMAIN flag \ Gone
    BY <1>2, <1>7, <2>1, <2>2
  <2>4. u < hc.uidnext /\ u \in DOMAIN hcache \ Gone /\ flag[u] = hcache[u]
    BY <1>2, <2>3
  <2>5. CASE u \in Set
    <3>1. flag'[u] = flagOf[u]
      BY <1>1, <2>3, <2>5
    <3>2. hcache'[u] = flagOf[u]
      BY <1>11, <2>4, <2>5
    <3> QED BY <1>1, <1>10, <2>4, <3>1, <3>2 DEF Right
  <2>6. CASE u \notin Set
    <3>1. u \notin unsynced
      BY <1>1, <1>15, <2>6, <2>3
    <3>2. i \notin Told
      BY <1>15, <2>6 DEF Set
    <3>3. ~(modOf[u] > hc.modseq)
      BY <1>15, <2>4, <3>2 DEF Told
    <3>4. modOf[u] <= hc.modseq
      BY <1>3, <2>1, <3>3
    <3>5. hcache[u] = flagOf[u]
      BY <1>1, <1>2, <2>1, <2>4, <3>1, <3>4 DEF Fresh
    <3>6. flag'[u] = flag[u] /\ hcache'[u] = hcache[u]
      BY <1>1, <1>11, <2>3, <2>4, <2>6
    <3> QED BY <1>1, <1>10, <2>4, <3>5, <3>6 DEF Right
  <2> QED BY <2>5, <2>6
<1>16. Sound'
  BY <1>1, <1>15 DEF Sound
<1>17. method = "condstore" => Placed'
  <2> SUFFICES ASSUME method = "condstore" PROVE Placed'
    OBVIOUS
  <2>1. Range(index) \ Gone = Range(index)
    BY DEF Gone
  <2>2. Left = index
    BY <1>2, <2>1, KeptAll DEF Left, Vanished
  <2> QED BY <1>1, <1>2, <2>2 DEF Placed
<1>18. ASSUME method = "qresync"
       PROVE  Ascends(Left) /\ Range(Left) \subseteq Range(sess)
  <2> SUFFICES ASSUME NEW u \in Range(index), u \notin Gone, u \notin Range(box) PROVE FALSE
    BY <1>2, <1>5, <1>18
  <2>1. u \in Range(hc.seqset)
    BY <1>2, <1>18
  <2>2. u \in 1 .. hc.uidnext - 1 /\ modOf[u] > hc.modseq
    BY <1>1, <2>1 DEF Stored
  <2>3. u \in DOMAIN modOf
    BY <1>1, <2>1, HcParts DEF Server
  <2> QED BY <1>18, <2>2, <2>3 DEF Gone
<1>19. AtFetch'
  BY <1>1, <1>2, <1>14, <1>16, <1>17, <1>18 DEF AtFetch
<1>20. Stage'
  BY <1>1, <1>19 DEF Stage
<1> QED BY <1>1, <1>12, <1>13, <1>20 DEF Opening

\* Numbers without a header, and the UIDs they have.
New == {i \in DOMAIN sess : i \notin DOMAIN index \/ index[i] = 0}
NewUids == {sess[i] : i \in New}

LEMMA Largest ==
  ASSUME NEW A, NEW x \in A, \A n \in A : n \in Int, \A n \in A : n <= x
  PROVE  (CHOOSE n \in A : \A m \in A : m <= n) = x
<1>1. ASSUME NEW n \in A, \A m \in A : m <= n PROVE n = x
  <2>1. n <= x /\ x <= n /\ n \in Int /\ x \in Int
    BY <1>1
  <2> QED BY <2>1
<1> QED BY <1>1

LEMMA FetchParts ==
  ASSUME Bounds, Opening, read_headers_fetch_new
  PROVE  /\ Server /\ Stored /\ Fresh /\ AtFetch /\ Server' /\ Given' = Given
         /\ UNCHANGED <<box, nextUid, modseq, flagOf, modOf, caps>>
         /\ UNCHANGED <<hc, sess, highest, method, changed>> /\ pc' = "verify"
         /\ sess \in Seq(Int) /\ Len(sess) \in Nat /\ DOMAIN sess = 1 .. Len(sess)
         /\ \A i \in 1 .. Len(sess) : sess[i] \in Int /\ sess[i] \in Range(sess) /\ sess[i] # 0
         /\ Len(index) \in 0 .. Len(sess) /\ DOMAIN index = 1 .. Len(index)
         /\ index' = [i \in 1 .. Len(sess) |-> IF i \in New THEN sess[i] ELSE index[i]]
         /\ flag' = [u \in DOMAIN flag \cup NewUids |-> IF u \in NewUids THEN flagOf[u] ELSE flag[u]]
         /\ hcache' = [u \in DOMAIN hcache \cup NewUids |-> IF u \in NewUids THEN flagOf[u] ELSE hcache[u]]
         /\ unsynced' = unsynced \ NewUids
<1> DEFINE last == IF New = {} THEN Len(index)
                   ELSE CHOOSE n \in New \cup {Len(index)} : \A m \in New \cup {Len(index)} : m <= n
<1>1. /\ pc = "fetch" /\ UNCHANGED <<mailbox, caps, hc, sess, highest, method, changed>> /\ pc' = "verify"
      /\ index' = [i \in 1 .. last |-> IF i \in New THEN sess[i]
                                       ELSE IF i \in DOMAIN index THEN index[i] ELSE 0]
      /\ flag' = [u \in DOMAIN flag \cup NewUids |-> IF u \in NewUids THEN flagOf[u] ELSE flag[u]]
      /\ hcache' = [u \in DOMAIN hcache \cup NewUids |-> IF u \in NewUids THEN flagOf[u] ELSE hcache[u]]
      /\ unsynced' = unsynced \ NewUids
  BY DEF read_headers_fetch_new, New, NewUids
<1>2. Server /\ Stored /\ Fresh /\ AtFetch
  BY <1>1 DEF Opening, Stage
<1>3. Server' /\ Given' = Given /\ UNCHANGED <<box, nextUid, modseq, flagOf, modOf, caps>>
  BY <1>1, <1>2, ServerSame
<1>4. sess = box /\ sess \in Seq(Int) /\ Ascends(sess) /\ index \in Seq(Int)
  BY <1>2 DEF AtFetch, Selected, Server
<1>5. /\ Len(sess) \in Nat /\ DOMAIN sess = 1 .. Len(sess)
      /\ \A i \in 1 .. Len(sess) : sess[i] \in Int /\ sess[i] \in Range(sess) /\ sess[i] # 0
  BY <1>2, <1>4, SeqParts, HcParts
<1>6. Len(index) \in Nat /\ DOMAIN index = 1 .. Len(index)
  BY <1>4, SeqParts
<1>7. Len(index) <= Len(sess)
  <2>1. CASE method = "qresync"
    BY <1>2, <1>4, <2>1, FewerAscend DEF AtFetch
  <2>2. CASE method # "qresync"
    <3>1. 1 .. Len(index) \subseteq 1 .. Len(sess)
      BY <1>2, <1>5, <1>6, <2>2 DEF AtFetch, Placed
    <3> QED BY <1>5, <1>6, <3>1
  <2> QED BY <2>1, <2>2
<1>8. New \subseteq 1 .. Len(sess) /\ \A i \in 1 .. Len(sess) : i \notin New => i \in 1 .. Len(index)
  BY <1>5, <1>6 DEF New
<1>9. last = Len(sess)
  <2> DEFINE A == New \cup {Len(index)}
  <2>1. \A n \in A : n \in Int
    <3>1. \A n \in New : n \in 1 .. Len(sess)
      BY <1>8
    <3>2. \A n \in 1 .. Len(sess) : n \in Int
      BY <1>5
    <3> QED BY <1>6, <3>1, <3>2
  <2>2. \A n \in A : n <= Len(sess)
    <3>1. \A n \in New : n \in 1 .. Len(sess)
      BY <1>8
    <3>2. \A n \in 1 .. Len(sess) : n <= Len(sess)
      BY <1>5
    <3> QED BY <1>7, <3>1, <3>2
  <2>3. Len(sess) \in A
    <3>1. Len(index) = Len(sess) \/ Len(index) < Len(sess)
      <4>1. Len(sess) \in Nat /\ Len(index) \in Nat
        BY <1>5, <1>6
      <4> HIDE DEF A, last
      <4> QED BY <1>7, <4>1
    <3>2. ASSUME Len(index) < Len(sess) PROVE Len(sess) \in New
      <4>1. Len(sess) \in 1 .. Len(sess) /\ Len(sess) \notin 1 .. Len(index)
        BY <1>5, <1>6, <3>2
      <4>2. Len(sess) \in DOMAIN sess /\ Len(sess) \notin DOMAIN index
        BY <1>5, <1>6, <4>1
      <4> QED BY <4>2 DEF New
    <3> QED BY <3>1, <3>2
  <2>4. New = {} => Len(index) = Len(sess)
    BY <2>3
  <2> HIDE DEF A
  <2>5. (CHOOSE n \in A : \A m \in A : m <= n) = Len(sess)
    BY <1>5, <2>1, <2>2, <2>3, Largest
  <2> QED BY <2>4, <2>5 DEF A
<1> HIDE DEF last
<1>10. index' = [i \in 1 .. Len(sess) |-> IF i \in New THEN sess[i] ELSE index[i]]
  <2>1. \A i \in 1 .. Len(sess) : i \notin New => i \in DOMAIN index
    BY <1>6, <1>8
  <2> QED BY <1>1, <1>9, <2>1
<1>11. Len(index) \in 0 .. Len(sess)
  BY <1>5, <1>6, <1>7
<1> QED BY <1>1, <1>2, <1>3, <1>4, <1>5, <1>6, <1>10, <1>11

LEMMA FetchKeeps ==
  ASSUME Bounds, Opening, read_headers_fetch_new
  PROVE  Opening'
<1>1. /\ Server /\ Stored /\ Fresh /\ AtFetch /\ Server' /\ Given' = Given
      /\ UNCHANGED <<box, nextUid, modseq, flagOf, modOf, caps>>
      /\ UNCHANGED <<hc, sess, highest, method, changed>> /\ pc' = "verify"
      /\ sess \in Seq(Int) /\ Len(sess) \in Nat /\ DOMAIN sess = 1 .. Len(sess)
      /\ \A i \in 1 .. Len(sess) : sess[i] \in Int /\ sess[i] \in Range(sess) /\ sess[i] # 0
      /\ Len(index) \in 0 .. Len(sess) /\ DOMAIN index = 1 .. Len(index)
      /\ index' = [i \in 1 .. Len(sess) |-> IF i \in New THEN sess[i] ELSE index[i]]
      /\ flag' = [u \in DOMAIN flag \cup NewUids |-> IF u \in NewUids THEN flagOf[u] ELSE flag[u]]
      /\ hcache' = [u \in DOMAIN hcache \cup NewUids |-> IF u \in NewUids THEN flagOf[u] ELSE hcache[u]]
      /\ unsynced' = unsynced \ NewUids
  BY FetchParts
<1>2. /\ sess = box /\ index \in Seq(Int) /\ DOMAIN flag = Known /\ Sound
      /\ method # "qresync" => Placed
      /\ method = "qresync" => Ascends(index) /\ Range(index) \subseteq Range(sess)
  BY <1>1 DEF AtFetch, Selected
<1>3. Range(box) \subseteq Given /\ 0 \notin Given
  BY <1>1, HcParts
<1>4. /\ New \subseteq 1 .. Len(sess)
      /\ \A i \in 1 .. Len(sess) : i \notin New => i \in DOMAIN index /\ index[i] # 0
      /\ \A i \in DOMAIN index : i \in 1 .. Len(sess) /\ (index[i] # 0 => i \notin New)
      /\ \A i \in 1 .. Len(sess) : i \notin DOMAIN index => i \in New
  BY <1>1 DEF New
<1>5. /\ \A i \in New : index'[i] = sess[i]
      /\ \A i \in 1 .. Len(sess) : i \notin New => index'[i] = index[i]
  BY <1>1, <1>4
<1>6. index' \in Seq(Int) /\ Len(index') = Len(sess) /\ DOMAIN index' = 1 .. Len(sess)
  <2>1. \A i \in DOMAIN index : index[i] \in Int
    BY <1>2, SeqParts
  <2>2. \A i \in 1 .. Len(sess) : (IF i \in New THEN sess[i] ELSE index[i]) \in Int
    BY <1>1, <1>4, <2>1
  <2>3. index' \in [1 .. Len(sess) -> Int]
    BY <1>1, <2>2
  <2> QED BY <1>1, <2>3, FunSeq
<1>7. NewUids \subseteq Range(box)
  BY <1>1, <1>2, <1>4 DEF NewUids
<1>8. Known' = Known \cup NewUids
  <2>1. ASSUME NEW v \in Known' PROVE v \in Known \cup NewUids
    <3>1. v # 0
      BY DEF Known
    <3>2. PICK i \in 1 .. Len(sess) : index'[i] = v
      BY <1>6 DEF Known, Range
    <3>3. CASE i \in New
      BY <1>5, <3>2, <3>3 DEF NewUids
    <3>4. CASE i \notin New
      BY <1>4, <1>5, <3>1, <3>2, <3>4 DEF Known, Range
    <3> QED BY <3>3, <3>4
  <2>2. ASSUME NEW v \in Known PROVE v \in Known'
    <3>1. v # 0
      BY DEF Known
    <3>2. PICK i \in DOMAIN index : index[i] = v
      BY DEF Known, Range
    <3>3. i \in DOMAIN index' /\ index'[i] = v
      BY <1>4, <1>5, <1>6, <3>1, <3>2
    <3> QED BY <3>1, <3>3 DEF Known, Range
  <2>3. ASSUME NEW i \in New PROVE sess[i] \in Known'
    <3>1. i \in DOMAIN index' /\ index'[i] = sess[i] /\ sess[i] # 0
      BY <1>1, <1>4, <1>5, <1>6
    <3> QED BY <3>1 DEF Known, Range
  <2> QED BY <2>1, <2>2, <2>3 DEF NewUids
<1>9. Selected'
  <2>1. DOMAIN flag' = Known'
    BY <1>1, <1>2, <1>8
  <2> QED BY <1>1, <1>6, <2>1 DEF AtFetch, Selected
<1>10. Stored'
  <2>1. DOMAIN hcache' \subseteq Given
    BY <1>1, <1>3, <1>7 DEF Stored
  <2> QED BY <1>1, <2>1 DEF Stored
<1>11. /\ \A u \in NewUids : u \in DOMAIN hcache' /\ hcache'[u] = flagOf[u] /\ flag'[u] = flagOf[u]
       /\ \A u \in DOMAIN hcache : u \notin NewUids => u \in DOMAIN hcache' /\ hcache'[u] = hcache[u]
       /\ \A u \in DOMAIN flag : u \notin NewUids => flag'[u] = flag[u]
       /\ DOMAIN hcache' = DOMAIN hcache \cup NewUids
  BY <1>1
<1>12. Fresh'
  <2> SUFFICES ASSUME hc.modseq > 0, NEW u \in DOMAIN hcache', u \in Range(box), u \notin unsynced',
                      modOf[u] <= hc.modseq
               PROVE  hcache'[u] = flagOf[u]
    BY <1>1 DEF Fresh
  <2>1. CASE u \in NewUids
    BY <1>11, <2>1
  <2>2. CASE u \notin NewUids
    <3>1. u \in DOMAIN hcache /\ u \notin unsynced
      BY <1>1, <1>11, <2>2
    <3>2. hcache[u] = flagOf[u]
      BY <1>1, <3>1 DEF Fresh
    <3> QED BY <1>11, <2>2, <3>1, <3>2
  <2> QED BY <2>1, <2>2
<1>13. Sound'
  <2> SUFFICES ASSUME NEW i \in 1 .. Len(sess), index'[i] = sess[i], sess[i] \notin unsynced'
               PROVE  Right(sess[i])'
    BY <1>1, <1>6 DEF Sound
  <2>1. CASE sess[i] \in NewUids
    BY <1>1, <1>11, <2>1 DEF Right
  <2>2. CASE sess[i] \notin NewUids
    <3>1. i \notin New
      BY <2>2 DEF NewUids
    <3>2. i \in DOMAIN index /\ index[i] = sess[i] /\ i \in DOMAIN sess /\ sess[i] \notin unsynced
      BY <1>1, <1>4, <1>5, <2>2, <3>1
    <3>3. Right(sess[i])
      BY <1>2, <3>2 DEF Sound
    <3>4. sess[i] \in DOMAIN flag
      BY <1>1, <1>2, <3>2 DEF Known, Range
    <3>5. flag'[sess[i]] = flagOf[sess[i]]
      BY <1>11, <2>2, <3>3, <3>4 DEF Right
    <3>6. caps # {} => sess[i] \in DOMAIN hcache' /\ hcache'[sess[i]] = flagOf[sess[i]]
      BY <1>11, <2>2, <3>3 DEF Right
    <3> QED BY <1>1, <3>5, <3>6 DEF Right
  <2> QED BY <2>1, <2>2
<1>14. method # "qresync" => index' = sess
  <2> SUFFICES ASSUME method # "qresync" PROVE index' = sess
    OBVIOUS
  <2>1. ASSUME NEW i \in 1 .. Len(sess) PROVE index'[i] = sess[i]
    <3>1. CASE i \in New
      BY <1>5, <3>1
    <3>2. CASE i \notin New
      BY <1>2, <1>4, <1>5, <3>2 DEF Placed
    <3> QED BY <3>1, <3>2
  <2> QED BY <1>1, <1>6, <2>1, SameSeq
<1>15. \E m \in 0 .. Len(sess) :
         /\ \A i, j \in 1 .. m : i < j => index'[i] < index'[j]
         /\ \A i \in 1 .. m : index'[i] \in Range(sess)
         /\ \A i \in m + 1 .. Len(sess) : index'[i] = sess[i]
  <2>1. CASE method # "qresync"
    <3>1. \A i, j \in 1 .. 0 : FALSE
      OBVIOUS
    <3>2. 0 \in 0 .. Len(sess) /\ \A i \in 1 .. 0 : FALSE
      BY <1>1
    <3>3. \A i \in 0 + 1 .. Len(sess) : index'[i] = sess[i]
      BY <1>14, <2>1
    <3> QED BY <3>1, <3>2, <3>3
  <2>2. CASE method = "qresync"
    <3>1. \A i \in 1 .. Len(index) : i \in DOMAIN index /\ index[i] \in Range(sess) /\ index[i] # 0
      <4>1. \A i \in 1 .. Len(index) : i \in DOMAIN index /\ index[i] \in Range(sess)
        BY <1>1, <1>2, <2>2 DEF Range
      <4> QED BY <1>2, <1>3, <4>1
    <3>2. \A i \in 1 .. Len(index) : index'[i] = index[i]
      BY <1>4, <1>5, <3>1
    <3>3. \A i, j \in 1 .. Len(index) : i < j => index'[i] < index'[j]
      BY <1>2, <2>2, <3>1, <3>2 DEF Ascends
    <3>4. \A i \in Len(index) + 1 .. Len(sess) : index'[i] = sess[i]
      <4> TAKE i \in Len(index) + 1 .. Len(sess)
      <4>1. i \in 1 .. Len(sess) /\ i \notin DOMAIN index
        BY <1>1
      <4> QED BY <1>4, <1>5, <4>1
    <3> QED BY <1>1, <3>1, <3>2, <3>3, <3>4
  <2> QED BY <2>1, <2>2
<1>16. AtVerify'
  BY <1>1, <1>6, <1>9, <1>13, <1>14, <1>15 DEF AtVerify
<1>17. Stage'
  BY <1>1, <1>16 DEF Stage
<1> QED BY <1>1, <1>10, <1>12, <1>17 DEF Opening

LEMMA VerifyKeeps ==
  ASSUME Bounds, Opening, VerifyAndStore
  PROVE  Opening'
<1>1. /\ pc = "verify" /\ UNCHANGED <<mailbox, caps, hcache, sess, highest, changed, unsynced>>
      /\ Server /\ Stored /\ Fresh /\ AtVerify
  BY DEF VerifyAndStore, Opening, Stage
<1>2. Server' /\ Given' = Given /\ UNCHANGED <<box, nextUid, modseq, flagOf, modOf, caps>>
  BY <1>1, ServerSame
<1>3. /\ Range(box) \subseteq Given /\ 0 \notin Given
      /\ hc.modseq \in 0 .. modseq /\ hc.uidnext \in 0 .. nextUid /\ hc.seqset \in Seq(Int)
      /\ hc = [modseq |-> hc.modseq, uidnext |-> hc.uidnext, seqset |-> hc.seqset]
      /\ modseq \in Nat /\ modseq >= 1 /\ nextUid \in Nat
  BY <1>1, HcParts
<1>4. /\ sess = box /\ sess \in Seq(Int) /\ Ascends(sess) /\ index \in Seq(Int) /\ highest = modseq
      /\ changed = {} /\ DOMAIN flag = Known /\ Sound /\ Len(index) = Len(sess)
      /\ method # "qresync" => index = sess
  BY <1>1 DEF AtVerify, Selected, Server
<1>5. CASE method = "qresync" /\ ~verify_qresync(index)
  <2>1. /\ index' = <<>> /\ flag' = <<>>
        /\ hc' = [hc EXCEPT !.modseq = 0, !.seqset = <<>>]
        /\ method' = "normal" /\ pc' = "cache"
    BY <1>5 DEF VerifyAndStore
  <2>2. hc' = [modseq |-> 0, uidnext |-> hc.uidnext, seqset |-> <<>>]
    BY <1>3, <2>1
  <2>3. Stored'
    <3>1. hc' \in [modseq : 0 .. modseq, uidnext : 0 .. nextUid, seqset : Seq(Int)]
      BY <1>3, <2>2, NoSeq
    <3>2. hc'.modseq = 0 /\ hc'.seqset = <<>>
      BY <2>2
    <3>3. DOMAIN hcache \subseteq Given
      BY <1>1 DEF Stored
    <3> QED BY <1>1, <1>2, <3>1, <3>2, <3>3, NoSeq DEF Stored
  <2>4. Fresh'
    <3>1. hc'.modseq = 0
      BY <2>2
    <3> QED BY <3>1 DEF Fresh
  <2>5. Known' = {} /\ DOMAIN flag' = {} /\ index' \in Seq(Int)
    BY <2>1, NoSeq DEF Known
  <2>6. AtCache'
    BY <1>1, <1>2, <1>4, <2>1, <2>5 DEF AtCache, Selected
  <2>7. Stage'
    BY <2>1, <2>6 DEF Stage
  <2> QED BY <1>2, <2>3, <2>4, <2>7 DEF Opening
<1>6. CASE ~(method = "qresync" /\ ~verify_qresync(index))
  <2>1. /\ hc' = [modseq |-> IF caps # {} THEN highest ELSE 0, uidnext |-> nextUid,
                  seqset |-> IF "QRESYNC" \in caps THEN index ELSE <<>>]
        /\ pc' = "open" /\ UNCHANGED <<index, flag, method>>
    BY <1>6 DEF VerifyAndStore
  <2>2. index = sess
    <3>1. CASE method # "qresync"
      BY <1>4, <3>1
    <3>2. CASE verify_qresync(index)
      <4>1. PICK m \in 0 .. Len(sess) :
              /\ \A i, j \in 1 .. m : i < j => index[i] < index[j]
              /\ \A i \in 1 .. m : index[i] \in Range(sess)
              /\ \A i \in m + 1 .. Len(sess) : index[i] = sess[i]
        BY <1>1 DEF AtVerify
      <4>2. 0 \notin Range(sess)
        BY <1>3, <1>4
      <4> QED BY <1>4, <3>2, <4>1, <4>2, NotJumbled
    <3> QED BY <1>6, <3>1, <3>2
  <2>3. /\ hc'.uidnext = nextUid /\ hc'.seqset \in {sess, <<>>}
        /\ hc'.modseq = IF caps # {} THEN modseq ELSE 0
        /\ hc' = [modseq |-> hc'.modseq, uidnext |-> nextUid, seqset |-> hc'.seqset]
    BY <1>4, <2>1, <2>2
  <2>4. Stored'
    <3>1. /\ hc'.seqset \in Seq(Int) /\ Ascends(hc'.seqset)
          /\ Range(hc'.seqset) \subseteq Range(box)
      <4>1. CASE hc'.seqset = sess
        BY <1>4, <4>1
      <4>2. CASE hc'.seqset = <<>>
        BY <4>2, NoSeq
      <4> QED BY <2>3, <4>1, <4>2
    <3>2. hc'.modseq \in 0 .. modseq /\ hc'.uidnext \in 0 .. nextUid
      BY <1>3, <2>3
    <3>3. hc' \in [modseq : 0 .. modseq, uidnext : 0 .. nextUid, seqset : Seq(Int)]
      BY <2>3, <3>1, <3>2
    <3>4. \A u \in Range(hc'.seqset) : u \in 1 .. hc'.uidnext - 1 /\ u \in Range(box)
      BY <1>3, <2>3, <3>1 DEF Given
    <3>5. hc'.modseq > 0 => caps # {}
      BY <2>3
    <3>6. DOMAIN hcache \subseteq Given
      BY <1>1 DEF Stored
    <3> QED BY <1>1, <1>2, <3>1, <3>3, <3>4, <3>5, <3>6 DEF Stored
  <2>5. ASSUME NEW u \in Range(box), u \notin unsynced PROVE Right(u)
    <3>1. PICK i \in 1 .. Len(sess) : sess[i] = u
      BY <1>4, SeqParts
    <3>2. i \in DOMAIN sess
      BY <1>4, SeqParts
    <3> QED BY <1>4, <2>2, <2>5, <3>1, <3>2 DEF Sound
  <2>6. Fresh'
    <3> SUFFICES ASSUME hc'.modseq > 0, NEW u \in Range(box), u \notin unsynced PROVE hcache[u] = flagOf[u]
      BY <1>1, <1>2 DEF Fresh
    <3>1. caps # {}
      BY <2>3
    <3> QED BY <2>5, <3>1 DEF Right
  <2>7. AtOpen'
    <3>1. Known' = Known
      BY <2>1 DEF Known
    <3>2. \A u \in Range(box) : u \notin unsynced => flag[u] = flagOf[u]
      BY <2>5 DEF Right
    <3> QED BY <1>1, <1>2, <1>4, <2>1, <2>2, <3>1, <3>2 DEF AtOpen
  <2>8. Stage'
    BY <2>1, <2>7 DEF Stage
  <2> QED BY <1>2, <2>4, <2>6, <2>8 DEF Opening
<1> QED BY <1>5, <1>6

(***************************************************************************)
(* The open mailbox.                                                       *)
(***************************************************************************)
LEMMA OpenParts ==
  ASSUME Opening, pc = "open"
  PROVE  /\ Server /\ Stored /\ Fresh
         /\ sess = box /\ index = box /\ Known = Range(box) /\ changed \subseteq Range(box)
         /\ DOMAIN flag = Range(box) /\ Range(box) \subseteq Given /\ 0 \notin Given
         /\ DOMAIN hcache \subseteq Given
         /\ \A u \in Range(box) : u \notin changed /\ u \notin unsynced => flag[u] = flagOf[u]
<1>1. Server /\ Stored /\ Fresh /\ AtOpen
  BY DEF Opening, Stage
<1>2. Range(box) \subseteq Given /\ 0 \notin Given
  BY <1>1, HcParts
<1>3. Known = Range(box)
  BY <1>1, <1>2 DEF AtOpen, Known
<1> QED BY <1>1, <1>2, <1>3 DEF AtOpen, Stored

LEMMA Forgot ==
  ASSUME Forget
  PROVE  Stage'
<1>1. /\ pc' = "closed" /\ sess' = <<>> /\ index' = <<>> /\ flag' = <<>> /\ changed' = {}
  BY DEF Forget
<1>2. DOMAIN flag' = {}
  BY <1>1, NoSeq
<1> QED BY <1>1, <1>2 DEF Stage

LEMMA CloseKeeps ==
  ASSUME Bounds, Opening, Close
  PROVE  Opening'
<1>1. Forget /\ UNCHANGED <<mailbox, caps, hcache, hc, unsynced>> /\ Server /\ Stored /\ Fresh
  BY DEF Close, cache, Opening
<1>2. Server' /\ Given' = Given /\ UNCHANGED <<box, nextUid, modseq, flagOf, modOf, caps>>
  BY <1>1, ServerSame
<1>3. Stored' /\ Fresh'
  BY <1>1, <1>2 DEF Stored, Fresh
<1> QED BY <1>1, <1>2, <1>3, Forgot DEF Opening

LEMMA UserChangesKeeps ==
  ASSUME Bounds, Opening, NEW u, UserChanges(u)
  PROVE  Opening'
<1>1. /\ pc = "open" /\ u \in Known /\ flag' = [flag EXCEPT ![u] = ~@] /\ changed' = changed \cup {u}
      /\ UNCHANGED <<mailbox, caps, hcache, hc, pc, sess, highest, method, index, unsynced>>
  BY DEF UserChanges, cache
<1>2. /\ Server /\ Stored /\ Fresh
      /\ sess = box /\ index = box /\ Known = Range(box) /\ changed \subseteq Range(box)
      /\ DOMAIN flag = Range(box)
      /\ \A v \in Range(box) : v \notin changed /\ v \notin unsynced => flag[v] = flagOf[v]
  BY <1>1, OpenParts
<1>3. Server' /\ Given' = Given /\ UNCHANGED <<box, nextUid, modseq, flagOf, modOf, caps>>
  BY <1>1, <1>2, ServerSame
<1>4. Stored' /\ Fresh'
  BY <1>1, <1>2, <1>3 DEF Stored, Fresh
<1>5. Known' = Known
  BY <1>1 DEF Known
<1>6. DOMAIN flag' = DOMAIN flag /\ \A v \in DOMAIN flag : v # u => flag'[v] = flag[v]
  BY <1>1
<1>7. AtOpen'
  <2>1. \A v \in Range(box) : v \notin changed' /\ v \notin unsynced => flag'[v] = flagOf[v]
    BY <1>1, <1>2, <1>6
  <2> QED BY <1>1, <1>2, <1>3, <1>5, <1>6, <2>1 DEF AtOpen
<1>8. Stage'
  BY <1>1, <1>7 DEF Stage
<1> QED BY <1>3, <1>4, <1>8 DEF Opening

LEMMA SyncFlagsKeeps ==
  ASSUME Bounds, Opening, NEW done \in BOOLEAN, SyncFlags(done)
  PROVE  Opening'
<1> DEFINE stored == {u \in changed \cap Range(box) : flag[u] # flagOf[u]}
<1>1. /\ pc = "open" /\ UNCHANGED <<box, nextUid, caps, hc>>
      /\ hcache' = [u \in DOMAIN hcache \cup changed |-> IF u \in changed THEN flag[u] ELSE hcache[u]]
  BY DEF SyncFlags
<1>2. /\ Server /\ Stored /\ Fresh
      /\ sess = box /\ index = box /\ Known = Range(box) /\ changed \subseteq Range(box)
      /\ DOMAIN flag = Range(box) /\ Range(box) \subseteq Given /\ DOMAIN hcache \subseteq Given
      /\ \A u \in Range(box) : u \notin changed /\ u \notin unsynced => flag[u] = flagOf[u]
  BY <1>1, OpenParts
<1>3. /\ DOMAIN hcache' \subseteq Given
      /\ \A u \in changed : hcache'[u] = flag[u]
      /\ \A u \in DOMAIN hcache' : u \notin changed => u \in DOMAIN hcache /\ hcache'[u] = hcache[u]
  BY <1>1, <1>2
<1>4. \A u \in changed : u \notin stored => flag[u] = flagOf[u]
  BY <1>2
<1>5. stored \subseteq changed
  OBVIOUS
<1>6. hc.modseq \in 0 .. modseq /\ modseq \in Nat /\ nextUid \in Nat /\ Given' = Given
  BY <1>1, <1>2, HcParts DEF Given
<1>7. CASE done
  <2>1. /\ Counts /\ modseq' = modseq + 1 /\ changed' = {}
        /\ flagOf' = [u \in DOMAIN flagOf |-> IF u \in stored THEN flag[u] ELSE flagOf[u]]
        /\ modOf' = [u \in DOMAIN modOf |-> IF u \in stored THEN modseq + 1 ELSE modOf[u]]
        /\ UNCHANGED <<pc, unsynced, sess, highest, method, index, flag>>
    BY <1>7 DEF SyncFlags
  <2> HIDE DEF stored
  <2>2. DOMAIN flagOf = Given /\ DOMAIN modOf = Given /\ box \in Seq(Int) /\ Ascends(box)
    BY <1>2 DEF Server
  <2>3. /\ \A u \in Given : flagOf'[u] = IF u \in stored THEN flag[u] ELSE flagOf[u]
        /\ \A u \in Given : modOf'[u] = IF u \in stored THEN modseq + 1 ELSE modOf[u]
        /\ DOMAIN flagOf' = Given /\ DOMAIN modOf' = Given
    BY <2>1, <2>2
  <2>4. Server'
    <3>1. \A u \in Given : modOf'[u] \in {modOf[u], modseq + 1}
      BY <2>3
    <3>2. UNCHANGED <<nextUid, caps>> /\ DOMAIN flagOf' = DOMAIN flagOf /\ DOMAIN modOf' = DOMAIN modOf
      BY <1>1, <2>2, <2>3
    <3>3. box' \in Seq(Int) /\ Ascends(box') /\ Range(box') \subseteq Range(box)
      BY <1>1, <2>2
    <3> QED BY <1>2, <2>1, <3>1, <3>2, <3>3, Modified
  <2>5. Stored'
    <3>1. nextUid' \in Nat /\ modseq' \in Nat /\ nextUid <= nextUid' /\ modseq <= modseq'
      BY <1>1, <1>6, <2>1
    <3>2. DOMAIN hcache' \subseteq Given' /\ UNCHANGED <<caps, hc>>
      BY <1>1, <1>3, <1>6
    <3>3. \A u \in Given : modOf'[u] = modOf[u] \/ modOf'[u] = modseq + 1
      BY <2>3
    <3>4. \A u \in Range(box) : u \in Range(box')
      BY <1>1
    <3> QED BY <1>2, <3>1, <3>2, <3>3, <3>4, StoredKeeps
  <2>6. Fresh'
    <3> SUFFICES ASSUME hc.modseq > 0, NEW u \in DOMAIN hcache', u \in Range(box), u \notin unsynced,
                        modOf'[u] <= hc.modseq
                 PROVE  hcache'[u] = flagOf'[u]
      BY <1>1, <2>1 DEF Fresh
    <3>1. u \in Given /\ ~(modseq + 1 <= hc.modseq)
      BY <1>2, <1>6
    <3>2. u \notin stored /\ modOf[u] <= hc.modseq /\ flagOf'[u] = flagOf[u]
      BY <2>3, <3>1
    <3>3. CASE u \in changed
      BY <1>3, <1>4, <3>2, <3>3
    <3>4. CASE u \notin changed
      <4>1. u \in DOMAIN hcache /\ hcache'[u] = hcache[u]
        BY <1>3, <3>4
      <4>2. hcache[u] = flagOf[u]
        BY <1>2, <3>2, <4>1 DEF Fresh
      <4> QED BY <3>2, <4>1, <4>2
    <3> QED BY <3>3, <3>4
  <2>7. \A u \in Range(box) : u \notin unsynced => flag[u] = flagOf'[u]
    <3> TAKE u \in Range(box)
    <3> HAVE u \notin unsynced
    <3>1. flagOf'[u] = IF u \in stored THEN flag[u] ELSE flagOf[u]
      BY <1>2, <2>3
    <3>2. CASE u \in changed
      BY <1>4, <3>1, <3>2
    <3>3. CASE u \notin changed
      BY <1>2, <1>5, <3>1, <3>3
    <3> QED BY <3>2, <3>3
  <2>8. AtOpen'
    <3>1. Known' = Known
      BY <2>1 DEF Known
    <3> QED BY <1>1, <1>2, <2>1, <2>7, <3>1 DEF AtOpen
  <2>9. Stage'
    BY <1>1, <2>1, <2>8 DEF Stage
  <2> QED BY <2>4, <2>5, <2>6, <2>9 DEF Opening
<1>8. CASE ~done
  <2>1. Forget /\ unsynced' = unsynced \cup stored /\ UNCHANGED <<flagOf, modOf, modseq>>
    BY <1>8 DEF SyncFlags
  <2> HIDE DEF stored
  <2>2. Server' /\ UNCHANGED <<box, nextUid, modseq, flagOf, modOf, caps>>
    BY <1>1, <1>2, <2>1, ServerSame DEF mailbox
  <2>3. Stored'
    BY <1>1, <1>2, <1>3, <1>6, <2>2 DEF Stored
  <2>4. Fresh'
    <3> SUFFICES ASSUME hc.modseq > 0, NEW u \in DOMAIN hcache', u \in Range(box), u \notin unsynced',
                        modOf[u] <= hc.modseq
                 PROVE  hcache'[u] = flagOf[u]
      BY <1>1, <2>2 DEF Fresh
    <3>1. u \notin unsynced /\ u \notin stored
      BY <2>1
    <3>2. CASE u \in changed
      BY <1>3, <1>4, <3>1, <3>2
    <3>3. CASE u \notin changed
      BY <1>2, <1>3, <3>1, <3>3 DEF Fresh
    <3> QED BY <3>2, <3>3
  <2> QED BY <2>1, <2>2, <2>3, <2>4, Forgot DEF Opening
<1> QED BY <1>7, <1>8

LEMMA SyncDeletedKeeps ==
  ASSUME Bounds, Opening, NEW u, NEW done \in BOOLEAN, SyncDeleted(u, done)
  PROVE  Opening'
<1>1. /\ pc = "open" /\ changed = {} /\ u \in Known /\ hcache' = Drop(hcache, {u})
      /\ UNCHANGED <<caps, hc, unsynced>>
  BY DEF SyncDeleted
<1>2. /\ Server /\ Stored /\ Fresh
      /\ sess = box /\ index = box /\ Known = Range(box)
      /\ DOMAIN flag = Range(box) /\ Range(box) \subseteq Given /\ DOMAIN hcache \subseteq Given
      /\ 0 \notin Given
      /\ \A v \in Range(box) : v \notin changed /\ v \notin unsynced => flag[v] = flagOf[v]
  BY <1>1, OpenParts
<1>3. /\ DOMAIN hcache' = DOMAIN hcache \ {u}
      /\ \A v \in DOMAIN hcache' : hcache'[v] = hcache[v]
  BY <1>1 DEF Drop
<1>4. hc.modseq \in 0 .. modseq /\ modseq \in Nat /\ nextUid \in Nat
  BY <1>2, HcParts
<1>5. CASE done
  <2>1. /\ Expunge(u) /\ index' = Vanished(index, {u}) /\ sess' = Vanished(sess, {u})
        /\ flag' = Drop(flag, {u}) /\ UNCHANGED <<pc, highest, method, changed>>
    BY <1>5 DEF SyncDeleted
  <2>2. /\ Server' /\ Given' = Given /\ u \in Given
        /\ box' = Kept(box, Range(box) \ {u}) /\ Range(box') = Range(box) \ {u}
        /\ nextUid' = nextUid /\ modseq' = modseq + 1 /\ modOf'[u] = modseq + 1
        /\ \A v \in Given : v # u => modOf'[v] = modOf[v]
        /\ flagOf' = flagOf
    BY <1>1, <1>2, <2>1, Expunged
  <2>3. Stored'
    <3>1. nextUid' \in Nat /\ modseq' \in Nat /\ nextUid <= nextUid' /\ modseq <= modseq'
      BY <1>4, <2>2
    <3>2. DOMAIN hcache' \subseteq Given'
      BY <1>2, <1>3, <2>2
    <3>3. \A v \in Given : modOf'[v] = modOf[v] \/ modOf'[v] = modseq + 1
      BY <2>2
    <3>4. \A v \in Range(box) : v \in Range(box') \/ modOf'[v] = modseq + 1
      BY <2>2
    <3> QED BY <1>1, <1>2, <3>1, <3>2, <3>3, <3>4, StoredKeeps
  <2>4. Fresh'
    <3> SUFFICES ASSUME hc.modseq > 0, NEW v \in DOMAIN hcache', v \in Range(box'), v \notin unsynced,
                        modOf'[v] <= hc.modseq
                 PROVE  hcache'[v] = flagOf'[v]
      BY <1>1 DEF Fresh
    <3>1. v \in DOMAIN hcache /\ v \in Range(box) /\ v # u /\ modOf[v] <= hc.modseq
      BY <1>2, <1>3, <2>2
    <3> QED BY <1>2, <1>3, <2>2, <3>1 DEF Fresh
  <2>5. index' = box' /\ sess' = box'
    BY <1>2, <2>1, <2>2 DEF Vanished
  <2>6. Known' = Range(box')
    BY <1>2, <2>2, <2>5 DEF Known
  <2>7. DOMAIN flag' = Range(box') /\ \A v \in DOMAIN flag' : flag'[v] = flag[v]
    BY <1>2, <2>1, <2>2 DEF Drop
  <2>8. AtOpen'
    <3>1. \A v \in Range(box') : v \notin unsynced => flag'[v] = flagOf'[v]
      BY <1>1, <1>2, <2>2, <2>7
    <3> QED BY <1>1, <2>1, <2>5, <2>6, <2>7, <3>1 DEF AtOpen
  <2>9. Stage'
    BY <1>1, <2>1, <2>8 DEF Stage
  <2> QED BY <2>2, <2>3, <2>4, <2>9 DEF Opening
<1>6. CASE ~done
  <2>1. Forget /\ UNCHANGED mailbox
    BY <1>6 DEF SyncDeleted
  <2>2. Server' /\ Given' = Given /\ UNCHANGED <<box, nextUid, modseq, flagOf, modOf, caps>>
    BY <1>1, <1>2, <2>1, ServerSame
  <2>3. Stored' /\ Fresh'
    BY <1>1, <1>2, <1>3, <2>2 DEF Stored, Fresh
  <2> QED BY <2>1, <2>2, <2>3, Forgot DEF Opening
<1> QED BY <1>5, <1>6

LEMMA NewMailKeeps ==
  ASSUME Bounds, Opening, NewMail
  PROVE  Opening'
<1>1. /\ pc = "open" /\ nextUid \in Uids /\ Counts
      /\ box' = Append(box, nextUid) /\ sess' = Append(sess, nextUid)
      /\ index' = Append(index, nextUid)
      /\ flagOf' = With(flagOf, nextUid, FALSE) /\ flag' = With(flag, nextUid, FALSE)
      /\ modOf' = With(modOf, nextUid, modseq + 1)
      /\ hcache' = With(hcache, nextUid, FALSE)
      /\ hc' = [hc EXCEPT !.uidnext = nextUid + 1]
      /\ nextUid' = nextUid + 1 /\ modseq' = modseq + 1
      /\ UNCHANGED <<caps, pc, highest, method, changed, unsynced>>
  BY DEF NewMail
<1>2. /\ Server /\ Stored /\ Fresh
      /\ sess = box /\ index = box /\ Known = Range(box) /\ changed \subseteq Range(box)
      /\ DOMAIN flag = Range(box) /\ Range(box) \subseteq Given /\ DOMAIN hcache \subseteq Given
      /\ 0 \notin Given
      /\ \A u \in Range(box) : u \notin changed /\ u \notin unsynced => flag[u] = flagOf[u]
  BY <1>1, OpenParts
<1>3. /\ Server' /\ Given' = Given \cup {nextUid} /\ nextUid \notin Given
      /\ Range(box') = Range(box) \cup {nextUid}
      /\ modOf'[nextUid] = modseq + 1 /\ flagOf'[nextUid] = FALSE
      /\ \A u \in Given : flagOf'[u] = flagOf[u] /\ modOf'[u] = modOf[u]
  BY <1>1, <1>2, Delivered
<1>4. /\ hc.modseq \in 0 .. modseq /\ hc.uidnext \in 0 .. nextUid /\ hc.seqset \in Seq(Int)
      /\ hc = [modseq |-> hc.modseq, uidnext |-> hc.uidnext, seqset |-> hc.seqset]
      /\ modseq \in Nat /\ nextUid \in Nat /\ Range(hc.seqset) \subseteq Given
  BY <1>2, HcParts
<1>5. /\ DOMAIN hcache' = DOMAIN hcache \cup {nextUid} /\ hcache'[nextUid] = FALSE
      /\ \A u \in DOMAIN hcache : u # nextUid => hcache'[u] = hcache[u]
  BY <1>1 DEF With
<1>6. /\ DOMAIN flag' = DOMAIN flag \cup {nextUid} /\ flag'[nextUid] = FALSE
      /\ \A u \in DOMAIN flag : u # nextUid => flag'[u] = flag[u]
  BY <1>1 DEF With
<1>7. Stored'
  <2>1. hc' = [modseq |-> hc.modseq, uidnext |-> nextUid + 1, seqset |-> hc.seqset]
    BY <1>1, <1>4
  <2>2. hc.modseq \in 0 .. modseq' /\ nextUid + 1 \in 0 .. nextUid'
    BY <1>1, <1>4
  <2>3. hc' \in [modseq : 0 .. modseq', uidnext : 0 .. nextUid', seqset : Seq(Int)]
    BY <1>4, <2>1, <2>2
  <2>4. hc'.modseq = hc.modseq /\ hc'.uidnext = nextUid + 1 /\ hc'.seqset = hc.seqset
    BY <2>1
  <2>5. ASSUME NEW u \in Range(hc.seqset)
        PROVE  u \in 1 .. nextUid + 1 - 1 /\ (u \in Range(box') \/ modOf'[u] > hc.modseq)
    <3>1. u \in 1 .. hc.uidnext - 1 /\ (u \in Range(box) \/ modOf[u] > hc.modseq) /\ u \in Given
      BY <1>2, <1>4 DEF Stored
    <3>2. u \in 1 .. nextUid + 1 - 1
      BY <1>4, <3>1
    <3> QED BY <1>3, <3>1, <3>2
  <2>6. DOMAIN hcache' \subseteq Given'
    BY <1>2, <1>3, <1>5
  <2>7. (hc.modseq > 0 => caps # {}) /\ Ascends(hc.seqset)
    BY <1>2 DEF Stored
  <2>8. ASSUME NEW u \in Range(hc'.seqset)
        PROVE  u \in 1 .. hc'.uidnext - 1 /\ (u \in Range(box') \/ modOf'[u] > hc'.modseq)
    <3>1. u \in Range(hc.seqset)
      BY <2>4
    <3>2. u \in 1 .. nextUid + 1 - 1 /\ (u \in Range(box') \/ modOf'[u] > hc.modseq)
      BY <2>5, <3>1
    <3>3. u \in 1 .. hc'.uidnext - 1
      BY <1>4, <2>4, <3>2
    <3>4. u \in Range(box') \/ modOf'[u] > hc'.modseq
      BY <2>4, <3>2
    <3> QED BY <3>3, <3>4
  <2>9. (hc'.modseq > 0 => caps' # {}) /\ Ascends(hc'.seqset)
    BY <1>1, <2>4, <2>7
  <2> QED BY <2>3, <2>6, <2>8, <2>9 DEF Stored
<1>8. Fresh'
  <2>1. hc'.modseq = hc.modseq
    BY <1>1, <1>4
  <2> SUFFICES ASSUME hc.modseq > 0, NEW u \in DOMAIN hcache', u \in Range(box'), u \notin unsynced,
                      modOf'[u] <= hc.modseq
               PROVE  hcache'[u] = flagOf'[u]
    BY <1>1, <2>1 DEF Fresh
  <2>2. CASE u = nextUid
    BY <1>3, <1>5, <2>2
  <2>3. CASE u # nextUid
    <3>1. u \in DOMAIN hcache /\ u \in Range(box) /\ u \in Given
      BY <1>2, <1>3, <1>5, <2>3
    <3>2. modOf[u] <= hc.modseq
      BY <1>3, <3>1
    <3> QED BY <1>2, <1>3, <1>5, <2>3, <3>1, <3>2 DEF Fresh
  <2> QED BY <2>2, <2>3
<1>9. sess' = box' /\ index' = box'
  BY <1>1, <1>2
<1>10. Known' = Range(box')
  <2>1. nextUid # 0
    BY <1>1 DEF Uids
  <2> QED BY <1>2, <1>3, <1>9, <2>1 DEF Known
<1>11. AtOpen'
  <2>1. \A u \in Range(box') : u \notin changed /\ u \notin unsynced => flag'[u] = flagOf'[u]
    <3> TAKE u \in Range(box')
    <3>1. CASE u = nextUid
      BY <1>3, <1>6, <3>1
    <3>2. CASE u # nextUid
      BY <1>2, <1>3, <1>6, <3>2
    <3> QED BY <3>1, <3>2
  <2>2. DOMAIN flag' = Known' /\ changed \subseteq Known'
    BY <1>2, <1>3, <1>6, <1>10
  <2> QED BY <1>1, <1>9, <2>1, <2>2 DEF AtOpen
<1>12. Stage'
  BY <1>1, <1>11 DEF Stage
<1> QED BY <1>3, <1>7, <1>8, <1>12 DEF Opening

LEMMA OpeningStep ==
  ASSUME Bounds, Opening, [Next]_vars
  PROVE  Opening'
<1>1. CASE Deliver
  BY <1>1, DeliverKeeps
<1>2. CASE \E u \in Uids : \/ OtherClientExpunges(u) \/ OtherClientStores(u) \/ UserChanges(u)
                           \/ \E done \in BOOLEAN : SyncDeleted(u, done)
  BY <1>2, OtherClientExpungesKeeps, OtherClientStoresKeeps, UserChangesKeeps, SyncDeletedKeeps
<1>3. CASE Select
  BY <1>3, SelectKeeps
<1>4. CASE EvalCache
  BY <1>4, EvalCacheKeeps
<1>5. CASE read_headers_condstore_qresync_updates
  BY <1>5, UpdatesKeeps
<1>6. CASE read_headers_fetch_new
  BY <1>6, FetchKeeps
<1>7. CASE VerifyAndStore
  BY <1>7, VerifyKeeps
<1>8. CASE \E done \in BOOLEAN : SyncFlags(done)
  BY <1>8, SyncFlagsKeeps
<1>9. CASE NewMail
  BY <1>9, NewMailKeeps
<1>10. CASE Close
  BY <1>10, CloseKeeps
<1>11. CASE UNCHANGED vars
  <2>1. UNCHANGED <<box, nextUid, modseq, flagOf, modOf, caps, hcache, hc, pc, sess, highest, method,
                    index, flag, changed, unsynced>>
    BY <1>11 DEF vars, mailbox, cache, client
  <2>2. Server' /\ Stored' /\ Fresh'
    BY <2>1 DEF Opening, Server, Stored, Fresh, Given
  <2>3. Stage'
    BY <2>1 DEF Opening, Stage, AtCache, AtUpdates, AtFetch, AtVerify, AtOpen, Selected, Placed, Sound,
                Right, Known
  <2> QED BY <2>2, <2>3 DEF Opening
<1> QED BY <1>1, <1>2, <1>3, <1>4, <1>5, <1>6, <1>7, <1>8, <1>9, <1>10, <1>11 DEF Next

\* The variables hold what their comments say.
THEOREM CacheTypes == Bounds => (Spec => []TypeOK)
<1> SUFFICES ASSUME Bounds PROVE Spec => []TypeOK
  OBVIOUS
<1>1. Init => Opening
  BY OpeningInit
<1>2. Opening /\ [Next]_vars => Opening'
  BY OpeningStep
<1>3. Opening => TypeOK
  BY OpeningMeans
<1> QED BY <1>1, <1>2, <1>3, PTL DEF Spec

\* A mailbox opened from the cache has the server's numbers and flags, whatever the cache had:
\* read_headers_qresync_eval_cache(), read_headers_condstore_qresync_updates() and
\* verify_qresync(), for any number of messages and of changes on the server.
THEOREM CacheOpensRight == Bounds => (Spec => []OpenedRight)
<1> SUFFICES ASSUME Bounds PROVE Spec => []OpenedRight
  OBVIOUS
<1>1. Init => Opening
  BY OpeningInit
<1>2. Opening /\ [Next]_vars => Opening'
  BY OpeningStep
<1>3. Opening => OpenedRight
  BY OpeningMeans
<1> QED BY <1>1, <1>2, <1>3, PTL DEF Spec
=============================================================================
