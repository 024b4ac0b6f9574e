---------------------------- MODULE SequenceLemmas ----------------------------
(***************************************************************************)
(* Facts about sequences that the proofs of several components use.        *)
(***************************************************************************)
EXTENDS SequenceTheorems, FunctionTheorems, FiniteSetTheorems, TLAPS

\* Nothing is in the empty sequence.
LEMMA EmptyLength == Len(<<>>) = 0
  BY EmptySeq

\* A piece cut off the front of a sequence, and the rest of it.
LEMMA CutType ==
  ASSUME NEW S, NEW s \in Seq(S), NEW n \in 0 .. Len(s)
  PROVE  /\ SubSeq(s, 1, n) \in Seq(S)
         /\ Len(SubSeq(s, 1, n)) = n
         /\ SubSeq(s, n + 1, Len(s)) \in Seq(S)
         /\ Len(SubSeq(s, n + 1, Len(s))) = Len(s) - n
  <1>1. /\ Len(s) \in Nat /\ 1 \in 1 .. Len(s) + 1 /\ n \in 1 - 1 .. Len(s)
        /\ n + 1 \in 1 .. Len(s) + 1 /\ Len(s) \in n + 1 - 1 .. Len(s)
    BY LenProperties
  <1>2. /\ SubSeq(s, 1, n) \in Seq(S)
        /\ Len(SubSeq(s, 1, n)) = n - 1 + 1
    BY <1>1, SubSeqProperties
  <1>3. /\ SubSeq(s, n + 1, Len(s)) \in Seq(S)
        /\ Len(SubSeq(s, n + 1, Len(s))) = Len(s) - (n + 1) + 1
    BY <1>1, SubSeqProperties
  <1> QED BY <1>1, <1>2, <1>3

\* All but the last element; nothing, if there is none.
LEMMA FrontType ==
  ASSUME NEW S, NEW s \in Seq(S)
  PROVE  SubSeq(s, 1, Len(s) - 1) \in Seq(S)
  <1>1. CASE Len(s) = 0
    BY <1>1, SubSeqEmpty, EmptySeq
  <1>2. CASE Len(s) # 0
    <2>1. 1 \in 1 .. Len(s) + 1 /\ Len(s) - 1 \in 1 - 1 .. Len(s)
      BY <1>2, LenProperties
    <2> QED BY <2>1, SubSeqProperties
  <1> QED BY <1>1, <1>2

\* A non-empty set of indices has a first element: the intervals 1 .. j are
\* well-founded by strict inclusion.
LEMMA FirstIndex ==
  ASSUME NEW n \in Nat, NEW P \in SUBSET (1 .. n), P # {}
  PROVE  \E j \in P : \A l \in 1 .. j - 1 : l \notin P
  <1> DEFINE T == {1 .. j : j \in P}
             R == StrictSubsetOrdering(1 .. n)
  <1>1. IsWellFoundedOn(R, SUBSET (1 .. n))
    <2>1. IsWellFoundedOn(R, FiniteSubsetsOf(1 .. n))
      BY FS_StrictSubsetOrderingWellFounded
    <2>2. IsFiniteSet(1 .. n)
      BY FS_Interval
    <2>3. FiniteSubsetsOf(1 .. n) = SUBSET (1 .. n)
      BY <2>2, FS_FiniteSubsetsOfFinite
    <2> QED BY <2>1, <2>3
  <1>2. T \subseteq SUBSET (1 .. n) /\ T # {}
    <2>1. \A j \in P : 1 .. j \subseteq 1 .. n
      OBVIOUS
    <2>2. T # {}
      OBVIOUS
    <2> QED BY <2>1, <2>2
  <1>3. PICK x \in T : \A y \in T : ~ (<<y, x>> \in R)
    <2> HIDE DEF R, T
    <2> QED BY <1>1, <1>2, WFMin
  <1>4. PICK j \in P : x = 1 .. j
    OBVIOUS
  <1>5. ASSUME NEW l \in 1 .. j - 1, l \in P PROVE FALSE
    <2>1. l \in 1 .. n /\ l < j /\ j \in 1 .. n
      BY <1>4
    <2>2. 1 .. l \subseteq 1 .. j /\ 1 .. l # 1 .. j
      BY <2>1
    <2>3. <<1 .. l, 1 .. j>> \in R
      BY <2>1, <2>2 DEF StrictSubsetOrdering
    <2> QED BY <1>3, <1>4, <1>5, <2>3
  <1> QED BY <1>4, <1>5

\* The first occurrence of m in a sequence that holds it.
LEMMA FirstOccurrence ==
  ASSUME NEW S, NEW q \in Seq(S), NEW m, \E k \in DOMAIN q : q[k] = m
  PROVE  LET i == CHOOSE k \in DOMAIN q : q[k] = m /\ \A j \in 1 .. k - 1 : q[j] # m
         IN  i \in DOMAIN q /\ q[i] = m /\ \A j \in 1 .. i - 1 : q[j] # m
  <1> DEFINE P == {k \in DOMAIN q : q[k] = m}
  <1>1. DOMAIN q = 1 .. Len(q) /\ Len(q) \in Nat
    BY LenProperties
  <1>2. P \in SUBSET (1 .. Len(q)) /\ P # {}
    BY <1>1
  <1>3. PICK k \in P : \A j \in 1 .. k - 1 : j \notin P
    <2> HIDE DEF P
    <2> QED BY <1>1, <1>2, FirstIndex
  <1>4. \A j \in 1 .. k - 1 : j \in DOMAIN q
    BY <1>1, <1>2
  <1>5. k \in DOMAIN q /\ q[k] = m /\ \A j \in 1 .. k - 1 : q[j] # m
    BY <1>3, <1>4
  <1> QED BY <1>5

\* A non-empty set of natural numbers has a least one.
LEMMA Least ==
  ASSUME NEW S, S \subseteq Nat, S # {}
  PROVE  \E m \in S : \A n \in S : m <= n
  <1>1. PICK k \in S : TRUE
    OBVIOUS
  <1> DEFINE P == {j \in 1 .. k + 1 : j - 1 \in S}
  <1>2. k + 1 \in Nat /\ P \in SUBSET (1 .. k + 1) /\ k + 1 \in P
    OBVIOUS
  <1>3. PICK j \in P : \A l \in 1 .. j - 1 : l \notin P
    <2> HIDE DEF P
    <2> QED BY <1>2, FirstIndex
  <1>4. j \in 1 .. k + 1 /\ j - 1 \in S
    OBVIOUS
  <1>5. ASSUME NEW n \in S PROVE j - 1 <= n
    <2>1. SUFFICES ASSUME n < j - 1 PROVE FALSE
      BY <1>4
    <2>2. n + 1 \in 1 .. j - 1 /\ n + 1 \in P
      BY <1>4, <2>1
    <2> QED BY <1>3, <2>2
  <1> QED BY <1>4, <1>5

\* A sequence without its element i: what was behind it moves up.
LEMMA Removal ==
  ASSUME NEW S, NEW s \in Seq(S), NEW i \in 1 .. Len(s)
  PROVE  LET r == SubSeq(s, 1, i - 1) \o SubSeq(s, i + 1, Len(s)) IN
         /\ r \in Seq(S) /\ Len(r) = Len(s) - 1
         /\ \A j \in 1 .. Len(s) - 1 : r[j] = IF j < i THEN s[j] ELSE s[j + 1]
  <1> DEFINE a == SubSeq(s, 1, i - 1)
             b == SubSeq(s, i + 1, Len(s))
  <1>1. /\ Len(s) \in Nat /\ 1 \in 1 .. Len(s) + 1 /\ i - 1 \in 1 - 1 .. Len(s)
        /\ i + 1 \in 1 .. Len(s) + 1 /\ Len(s) \in i + 1 - 1 .. Len(s)
    BY LenProperties
  <1>2. /\ a \in Seq(S) /\ Len(a) = i - 1
        /\ \A j \in 1 .. i - 1 : a[j] = s[j]
    BY <1>1, SubSeqProperties
  <1>3. /\ b \in Seq(S) /\ Len(b) = Len(s) - i
        /\ \A j \in 1 .. Len(s) - i : b[j] = s[i + j]
    <2>1. \A j \in i + 1 .. Len(s) : s[j] \in S
      BY <1>1, LenProperties
    <2>2. /\ b \in Seq(S) /\ Len(b) = IF i + 1 <= Len(s) THEN Len(s) - (i + 1) + 1 ELSE 0
          /\ \A j \in 1 .. Len(s) - (i + 1) + 1 : b[j] = s[i + 1 + j - 1]
      BY <1>1, <2>1, SubSeqProperties
    <2> HIDE DEF b
    <2>3. Len(b) = Len(s) - i
      BY <1>1, <2>2
    <2>4. ASSUME NEW j \in 1 .. Len(s) - i PROVE b[j] = s[i + j]
      <3>1. j \in 1 .. Len(s) - (i + 1) + 1 /\ i + 1 + j - 1 = i + j
        BY <1>1
      <3> QED BY <2>2, <3>1
    <2> QED BY <2>2, <2>3, <2>4
  <1> HIDE DEF a, b
  <1>4. a \o b \in Seq(S) /\ Len(a \o b) = Len(s) - 1
    <2>1. a \o b \in Seq(S) /\ Len(a \o b) = Len(a) + Len(b)
      BY <1>2, <1>3, ConcatProperties
    <2>2. Len(a) = i - 1 /\ Len(b) = Len(s) - i /\ (i - 1) + (Len(s) - i) = Len(s) - 1
      BY <1>1, <1>2, <1>3
    <2> QED BY <2>1, <2>2
  <1>5. ASSUME NEW j \in 1 .. Len(s) - 1
        PROVE  (a \o b)[j] = IF j < i THEN s[j] ELSE s[j + 1]
    <2>1. CASE j < i
      BY <1>1, <1>2, <1>3, <2>1, ConcatProperties
    <2>2. CASE ~ (j < i)
      <3>1. j - Len(a) \in 1 .. Len(s) - i /\ i + (j - Len(a)) = j + 1
        BY <1>1, <1>2, <2>2
      <3>2. (a \o b)[j] = b[j - Len(a)]
        BY <1>1, <1>2, <1>3, <2>2, <3>1, ConcatProperties
      <3> QED BY <1>3, <2>2, <3>1, <3>2
    <2> QED BY <2>1, <2>2
  <1> QED BY <1>4, <1>5 DEF a, b

-----------------------------------------------------------------------------
(* Counting the elements of a sequence.                                     *)

\* How often x occurs in s.
Occurrences(s, x) == Cardinality({i \in 1 .. Len(s) : s[i] = x})

\* It is a number.
LEMMA OccurrencesType ==
  ASSUME NEW S, NEW s \in Seq(S), NEW x
  PROVE  /\ Occurrences(s, x) \in Nat
         /\ IsFiniteSet({i \in 1 .. Len(s) : s[i] = x})
         /\ s = <<>> => Occurrences(s, x) = 0
  <1> DEFINE P == {i \in 1 .. Len(s) : s[i] = x}
  <1>1. Len(s) \in Nat /\ P \in SUBSET (1 .. Len(s))
    BY LenProperties
  <1>2. IsFiniteSet(P)
    <2>1. IsFiniteSet(1 .. Len(s))
      BY <1>1, FS_Interval
    <2> HIDE DEF P
    <2> QED BY <1>1, <2>1, FS_Subset
  <1>3. s = <<>> => P = {}
    <2>1. Len(<<>>) = 0
      BY EmptySeq
    <2> QED BY <2>1
  <1> HIDE DEF P
  <1>4. Cardinality(P) \in Nat /\ (P = {} => Cardinality(P) = 0)
    BY <1>2, FS_CardinalityType, FS_EmptySet
  <1> QED BY <1>2, <1>3, <1>4 DEF Occurrences, P

\* The occurrences in two parts add up.
LEMMA OccurrencesAdd ==
  ASSUME NEW S, NEW a \in Seq(S), NEW b \in Seq(S), NEW x
  PROVE  Occurrences(a \o b, x) = Occurrences(a, x) + Occurrences(b, x)
  <1> DEFINE k == Len(a)
             n == Len(b)
             A == {i \in 1 .. k : a[i] = x}
             B == {i \in 1 .. n : b[i] = x}
             C == {i \in k + 1 .. k + n : b[i - k] = x}
             f == [i \in B |-> i + k]
  <1>1. k \in Nat /\ n \in Nat
    BY LenProperties
  <1>2. IsFiniteSet(A) /\ IsFiniteSet(B)
    BY OccurrencesType
  <1>3. Len(a \o b) = k + n /\ \A i \in 1 .. k + n : (a \o b)[i] = IF i <= k THEN a[i] ELSE b[i - k]
    BY ConcatProperties
  <1> HIDE DEF k, n
  <1>4. {i \in 1 .. k + n : (a \o b)[i] = x} = A \cup C
    <2>1. ASSUME NEW i \in 1 .. k + n, (a \o b)[i] = x PROVE i \in A \cup C
      BY <1>1, <1>3, <2>1
    <2>2. ASSUME NEW i \in A PROVE i \in 1 .. k + n /\ (a \o b)[i] = x
      BY <1>1, <1>3
    <2>3. ASSUME NEW i \in C PROVE i \in 1 .. k + n /\ (a \o b)[i] = x
      BY <1>1, <1>3
    <2> QED BY <2>1, <2>2, <2>3
  <1>5. f \in Bijection(B, C)
    <2>1. f \in [B -> C]
      BY <1>1
    <2>2. \A i, j \in B : f[i] = f[j] => i = j
      BY <1>1
    <2>3. \A i \in C : \E j \in B : f[j] = i
      <3> TAKE i \in C
      <3>1. i - k \in B /\ (i - k) + k = i
        BY <1>1
      <3> QED BY <3>1
    <2> HIDE DEF f, B, C
    <2> QED BY <2>1, <2>2, <2>3, Fun_IsBij
  <1>6. A \cap C = {}
    BY <1>1
  <1> HIDE DEF A, B, C, f
  <1>7. IsFiniteSet(C) /\ Cardinality(C) = Cardinality(B)
    BY <1>2, <1>5, FS_Bijection DEF ExistsBijection
  <1>8. Cardinality(A \cup C) = Cardinality(A) + Cardinality(C) - Cardinality(A \cap C)
    BY <1>2, <1>7, FS_Union
  <1>9. Cardinality(A) \in Nat /\ Cardinality(C) \in Nat /\ Cardinality(A \cap C) = 0
    BY <1>2, <1>6, <1>7, FS_CardinalityType, FS_EmptySet
  <1>10. Cardinality(A \cup C) = Cardinality(A) + Cardinality(B)
    BY <1>7, <1>8, <1>9
  <1> QED BY <1>3, <1>4, <1>10 DEF Occurrences, A, B, k, n

\* A constant sequence.
LEMMA OccurrencesConstant ==
  ASSUME NEW S, NEW n \in Int, NEW y \in S, NEW x
  PROVE  LET s == [i \in 1 .. n |-> y] IN
         /\ s \in Seq(S)
         /\ Occurrences(s, x) = IF y = x /\ n > 0 THEN n ELSE 0
  <1> DEFINE m == IF n > 0 THEN n ELSE 0
             s == [i \in 1 .. n |-> y]
  <1>1. m \in Nat /\ 1 .. n = 1 .. m
    OBVIOUS
  <1>2. s \in [1 .. m -> S]
    BY <1>1
  <1>3. s \in Seq(S) /\ Len(s) = m
    <2>1. DOMAIN s = 1 .. m
      BY <1>1
    <2> HIDE DEF m, s
    <2> QED BY <1>1, <1>2, <2>1
  <1>4. {i \in 1 .. Len(s) : s[i] = x} = IF y = x THEN 1 .. m ELSE {}
    <2>1. \A i \in 1 .. m : s[i] = y
      BY <1>1
    <2> HIDE DEF m, s
    <2> QED BY <1>3, <2>1
  <1>5. Cardinality(1 .. m) = m /\ Cardinality({}) = 0
    <2> HIDE DEF m
    <2>1. Cardinality(1 .. m) = IF 1 > m THEN 0 ELSE m - 1 + 1
      BY <1>1, FS_Interval
    <2> QED BY <1>1, <2>1, FS_EmptySet
  <1> QED BY <1>3, <1>4, <1>5 DEF Occurrences

\* A sequence of one element.
LEMMA OccurrencesSingle ==
  ASSUME NEW S, NEW y \in S, NEW x
  PROVE  \E z \in Seq(S) : z = <<y>> /\ Occurrences(z, x) = IF y = x THEN 1 ELSE 0
  <1> DEFINE z == <<y>>
             P == {i \in 1 .. Len(z) : z[i] = x}
  <1>1. z \in Seq(S) /\ P = IF y = x THEN {1} ELSE {}
    OBVIOUS
  <1> HIDE DEF P
  <1>2. Cardinality(P) = IF y = x THEN 1 ELSE 0
    BY <1>1, FS_Singleton, FS_EmptySet
  <1> QED BY <1>1, <1>2 DEF Occurrences, P

\* One element more at the end.
LEMMA OccurrencesAppend ==
  ASSUME NEW S, NEW s \in Seq(S), NEW x, NEW y \in S
  PROVE  Occurrences(Append(s, y), x) = Occurrences(s, x) + IF y = x THEN 1 ELSE 0
  <1>1. PICK z \in Seq(S) : z = <<y>> /\ Occurrences(z, x) = IF y = x THEN 1 ELSE 0
    BY OccurrencesSingle, ZenonT(40)
  <1>2. Append(s, y) = s \o z
    BY <1>1, AppendIsConcat
  <1>3. Occurrences(s \o z, x) = Occurrences(s, x) + Occurrences(z, x)
    BY OccurrencesAdd
  <1>4. Occurrences(Append(s, y), x) = Occurrences(s, x) + Occurrences(z, x)
    BY <1>2, <1>3
  <1>5. PICK n : n = Occurrences(z, x)
    OBVIOUS
  <1>6. n = IF y = x THEN 1 ELSE 0
    BY <1>1, <1>5
  <1>7. Occurrences(Append(s, y), x) = Occurrences(s, x) + n
    BY <1>4, <1>5
  <1> QED BY <1>6, <1>7

\* One element less at the front.
LEMMA OccurrencesTail ==
  ASSUME NEW S, NEW s \in Seq(S), NEW x, s # <<>>
  PROVE  Occurrences(s, x) = Occurrences(Tail(s), x) + IF Head(s) = x THEN 1 ELSE 0
  <1>1. PICK y \in S, t \in Seq(S) : y = Head(s) /\ t = Tail(s)
    BY HeadTailProperties
  <1>2. PICK z \in Seq(S) : z = <<y>> /\ Occurrences(z, x) = IF y = x THEN 1 ELSE 0
    BY OccurrencesSingle
  <1>3. s = z \o t
    <2>1. Len(s) \in 1 .. Len(s) /\ 1 \in 1 .. Len(s)
      BY EmptySeq
    <2>2. SubSeq(s, 1, Len(s)) = <<s[1]>> \o SubSeq(s, 1 + 1, Len(s))
      BY <2>1, SubSeqRecursiveFirst
    <2>3. SubSeq(s, 1, Len(s)) = s /\ t = SubSeq(s, 2, Len(s)) /\ y = s[1]
      BY <1>1, SubSeqFull, TailIsSubSeq
    <2>4. 1 + 1 = 2
      OBVIOUS
    <2> QED BY <1>2, <2>2, <2>3, <2>4
  <1>4. Occurrences(z \o t, x) = Occurrences(z, x) + Occurrences(t, x)
    BY OccurrencesAdd
  <1>5. PICK k, n : k = Occurrences(t, x) /\ n = Occurrences(z, x)
    OBVIOUS
  <1>6. k \in Nat
    BY <1>5, OccurrencesType
  <1>7. n = IF Head(s) = x THEN 1 ELSE 0
    BY <1>1, <1>2, <1>5
  <1>8. Occurrences(s, x) = n + k
    BY <1>3, <1>4, <1>5
  <1>9. Occurrences(s, x) = k + IF Head(s) = x THEN 1 ELSE 0
    BY <1>6, <1>7, <1>8
  <1> QED BY <1>1, <1>5, <1>9

-----------------------------------------------------------------------------
(* Putting sequences together.                                              *)

LOCAL INSTANCE SequencesExt

\* What FlattenSeq has put together after each of the first k sequences.
Partial(q, g, k) ==
  \A i \in 1 .. k : g[i] = IF i = 1 THEN q[1] ELSE g[i - 1] \o q[i]

\* There are partial results up to any length: at the least length without them,
\* those of the length before could be extended.
LEMMA PartialsExist ==
  ASSUME NEW S, NEW q \in Seq(Seq(S)), NEW n \in 0 .. Len(q)
  PROVE  \E g \in [1 .. n -> Seq(S)] : Partial(q, g, n)
  <1> DEFINE Good(k) == \E g \in [1 .. k -> Seq(S)] : Partial(q, g, k)
             Bad == {k \in 0 .. Len(q) : ~Good(k)}
  <1>0. Len(q) \in Nat /\ \A i \in 1 .. Len(q) : q[i] \in Seq(S)
    BY LenProperties, ElementOfSeq
  <1>1. Good(0)
    <2> DEFINE g == [i \in 1 .. 0 |-> <<>>]
    <2>1. g \in [1 .. 0 -> Seq(S)]
      OBVIOUS
    <2>2. Partial(q, g, 0)
      BY DEF Partial
    <2> HIDE DEF g
    <2> QED BY <2>1, <2>2
  <1>2. ASSUME NEW k \in 1 .. Len(q), Good(k - 1) PROVE Good(k)
    <2>1. PICK g \in [1 .. k - 1 -> Seq(S)] : Partial(q, g, k - 1)
      BY <1>2
    <2> DEFINE v == IF k = 1 THEN q[1] ELSE g[k - 1] \o q[k]
               h == [i \in 1 .. k |-> IF i = k THEN v ELSE g[i]]
    <2>2. v \in Seq(S)
      <3>1. CASE k = 1
        BY <1>0, <3>1
      <3>2. CASE k # 1
        <4>1. k - 1 \in 1 .. k - 1 /\ q[k] \in Seq(S)
          BY <1>0, <3>2
        <4>2. g[k - 1] \in Seq(S)
          BY <2>1, <4>1
        <4>3. g[k - 1] \o q[k] \in Seq(S)
          BY <4>1, <4>2, ConcatProperties
        <4> QED BY <3>2, <4>3
      <3> QED BY <3>1, <3>2
    <2> HIDE DEF v
    <2>3. h \in [1 .. k -> Seq(S)]
      BY <1>0, <2>1, <2>2
    <2>4. \A i \in 1 .. k : h[i] = IF i = 1 THEN q[1] ELSE h[i - 1] \o q[i]
      <3> TAKE i \in 1 .. k
      <3>1. CASE i = k
        <4>1. CASE k = 1
          BY <3>1, <4>1 DEF v
        <4>2. CASE k # 1
          <5>1. h[k - 1] = g[k - 1]
            BY <1>0, <4>2
          <5> QED BY <3>1, <4>2, <5>1 DEF v
        <4> QED BY <4>1, <4>2
      <3>2. CASE i # k
        <4>1. i \in 1 .. k - 1 /\ h[i] = g[i]
          BY <1>0, <3>2
        <4>2. CASE i = 1
          BY <2>1, <4>1, <4>2 DEF Partial
        <4>3. CASE i # 1
          <5>1. h[i - 1] = g[i - 1]
            BY <1>0, <3>2, <4>3
          <5> QED BY <2>1, <4>1, <4>3, <5>1 DEF Partial
        <4> QED BY <4>2, <4>3
      <3> QED BY <3>1, <3>2
    <2> QED BY <2>3, <2>4 DEF Partial
  <1>3. SUFFICES ASSUME Bad # {} PROVE FALSE
    OBVIOUS
  <1>4. PICK k \in Bad : \A l \in Bad : k <= l
    <2>1. Bad \subseteq Nat
      BY <1>0
    <2> HIDE DEF Bad
    <2> QED BY <1>3, <2>1, Least
  <1> HIDE DEF Good
  <1>5. k # 0 /\ k \in 0 .. Len(q)
    BY <1>1
  <1>6. k - 1 \in 0 .. Len(q) /\ k \in 1 .. Len(q) /\ ~ (k <= k - 1)
    BY <1>0, <1>5
  <1>7. k - 1 \notin Bad
    <2> HIDE DEF Bad
    <2> QED BY <1>4, <1>6
  <1> QED BY <1>2, <1>4, <1>6, <1>7

\* The partial results are determined by the sequences.
LEMMA PartialsUnique ==
  ASSUME NEW q, NEW n \in Nat, NEW g, NEW h,
         Partial(q, g, n), Partial(q, h, n)
  PROVE  \A i \in 1 .. n : g[i] = h[i]
  <1> DEFINE Bad == {i \in 1 .. n : g[i] # h[i]}
  <1>1. SUFFICES ASSUME Bad # {} PROVE FALSE
    OBVIOUS
  <1>2. PICK k \in Bad : \A l \in Bad : k <= l
    <2>1. Bad \subseteq Nat
      OBVIOUS
    <2> HIDE DEF Bad
    <2> QED BY <1>1, <2>1, Least
  <1>3. k \in 1 .. n /\ g[k] # h[k]
    BY <1>2
  <1>4. k # 1
    BY <1>3 DEF Partial
  <1>5. k - 1 \in 1 .. n /\ ~ (k <= k - 1)
    BY <1>3, <1>4
  <1>6. k - 1 \notin Bad
    <2> HIDE DEF Bad
    <2> QED BY <1>2, <1>5
  <1>7. g[k - 1] = h[k - 1]
    BY <1>5, <1>6
  <1> QED BY <1>3, <1>4, <1>7 DEF Partial

\* FlattenSeq is the last of the partial results.
LEMMA FlattenIsPartial ==
  ASSUME NEW S, NEW q \in Seq(Seq(S)), Len(q) # 0,
         NEW g, Partial(q, g, Len(q))
  PROVE  FlattenSeq(q) = g[Len(q)]
  <1> DEFINE n == Len(q)
             F(h) == [i \in 1 .. n |-> IF i = 1 THEN q[i] ELSE h[i - 1] \o q[i]]
             f == CHOOSE h : h = F(h)
  <1>0. n \in Nat /\ n # 0
    BY LenProperties
  <1>1. PICK h \in [1 .. n -> Seq(S)] : Partial(q, h, n)
    <2>1. n \in 0 .. Len(q)
      BY <1>0
    <2> HIDE DEF n
    <2> QED BY <2>1, PartialsExist
  <1>2. h = F(h)
    <2>1. \A i \in 1 .. n : h[i] = F(h)[i]
      BY <1>1 DEF Partial
    <2> QED BY <1>1, <2>1
  <1>3. f = F(f)
    <2> HIDE DEF F
    <2> QED BY <1>2
  <1>4. Partial(q, f, n)
    <2>1. \A i \in 1 .. n : F(f)[i] = IF i = 1 THEN q[i] ELSE f[i - 1] \o q[i]
      OBVIOUS
    <2> HIDE DEF F, f
    <2> QED BY <1>3, <2>1 DEF Partial
  <1>5. FlattenSeq(q) = f[n]
    BY <1>0 DEF FlattenSeq
  <1>6. n \in 1 .. n
    BY <1>0
  <1> HIDE DEF f, F, n
  <1>7. f[n] = g[n]
    BY <1>0, <1>4, <1>6, PartialsUnique DEF n
  <1> QED BY <1>5, <1>7 DEF n

\* FlattenSeq puts sequences over S together to one.
LEMMA FlattenType ==
  ASSUME NEW S, NEW q \in Seq(Seq(S))
  PROVE  FlattenSeq(q) \in Seq(S)
  <1>0. Len(q) \in Nat /\ (Len(q) = 0 => q = <<>>)
    BY LenProperties, EmptySeq
  <1>1. CASE Len(q) = 0
    <2>1. FlattenSeq(q) = <<>>
      BY <1>0, <1>1 DEF FlattenSeq
    <2> QED BY <2>1, EmptySeq
  <1>2. CASE Len(q) # 0
    <2>1. Len(q) \in 0 .. Len(q) /\ Len(q) \in 1 .. Len(q)
      BY <1>0, <1>2
    <2>2. PICK g \in [1 .. Len(q) -> Seq(S)] : Partial(q, g, Len(q))
      BY <2>1, PartialsExist
    <2>3. FlattenSeq(q) = g[Len(q)]
      BY <1>2, <2>2, FlattenIsPartial
    <2> QED BY <2>1, <2>2, <2>3
  <1> QED BY <1>1, <1>2

\* Nothing comes of nothing.
LEMMA FlattenEmpty ==
  ASSUME NEW q, Len(q) = 0
  PROVE  FlattenSeq(q) = q
  BY DEF FlattenSeq

\* One sequence more at the end is put at the end.
LEMMA FlattenAppend ==
  ASSUME NEW S, NEW q \in Seq(Seq(S)), NEW s \in Seq(S)
  PROVE  FlattenSeq(Append(q, s)) = FlattenSeq(q) \o s
  <1> DEFINE p == Append(q, s)
             n == Len(q)
  <1>0. n \in Nat /\ (n = 0 => q = <<>>)
    BY LenProperties, EmptySeq
  <1>1. /\ p \in Seq(Seq(S)) /\ Len(p) = n + 1
        /\ p[n + 1] = s /\ \A i \in 1 .. n : p[i] = q[i]
    BY AppendProperties
  <1> HIDE DEF p, n
  <1>2. n + 1 \in 0 .. Len(p) /\ n + 1 \in 1 .. n + 1 /\ Len(p) # 0
    BY <1>0, <1>1
  <1>3. PICK g \in [1 .. n + 1 -> Seq(S)] : Partial(p, g, n + 1)
    BY <1>1, <1>2, PartialsExist
  <1>4. FlattenSeq(p) = g[n + 1]
    BY <1>1, <1>2, <1>3, FlattenIsPartial
  <1>5. CASE n = 0
    <2>1. g[n + 1] = s
      BY <1>1, <1>3, <1>5 DEF Partial
    <2>2. FlattenSeq(q) = <<>>
      BY <1>0, <1>5, EmptySeq DEF FlattenSeq
    <2> QED BY <1>4, <2>1, <2>2, ConcatEmptySeq DEF p
  <1>6. CASE n # 0
    <2>1. n + 1 # 1 /\ n \in 1 .. n /\ n + 1 - 1 = n
      BY <1>0, <1>6
    <2>2. g[n + 1] = g[n] \o s
      <3>1. \A i \in 1 .. n + 1 : i # 1 => g[i] = g[i - 1] \o p[i]
        BY <1>3 DEF Partial
      <3> DEFINE m == n + 1
      <3>2. m \in 1 .. n + 1 /\ m # 1 /\ m - 1 = n /\ p[m] = s
        BY <1>1, <1>2, <2>1
      <3> HIDE DEF m
      <3>3. g[m] = g[m - 1] \o p[m]
        BY <3>1, <3>2
      <3>4. g[m] = g[n] \o s
        BY <3>2, <3>3
      <3> QED BY <3>4 DEF m
    <2>3. Partial(q, g, n)
      <3> SUFFICES ASSUME NEW i \in 1 .. n
                   PROVE  g[i] = IF i = 1 THEN q[1] ELSE g[i - 1] \o q[i]
        BY DEF Partial
      <3>1. i \in 1 .. n + 1 /\ 1 \in 1 .. n
        BY <1>0, <2>1
      <3> QED BY <1>1, <1>3, <3>1 DEF Partial
    <2>4. FlattenSeq(q) = g[n]
      BY <1>6, <2>3, FlattenIsPartial DEF n
    <2> QED BY <1>4, <2>2, <2>4 DEF p
  <1> QED BY <1>5, <1>6

\* What comes of the first sequence comes first.
LEMMA FlattenHead ==
  ASSUME NEW S, NEW q \in Seq(Seq(S)), Len(q) # 0
  PROVE  FlattenSeq(q) = q[1] \o FlattenSeq(Tail(q))
  <1> DEFINE r == Tail(q)
             n == Len(q)
  <1>0. n \in Nat /\ n # 0 /\ q # <<>>
    BY LenProperties, EmptySeq
  <1>1. /\ r \in Seq(Seq(S)) /\ Len(r) = n - 1
        /\ \A i \in 1 .. n - 1 : r[i] = q[i + 1]
    BY <1>0, HeadTailProperties
  <1>2. \A i \in 1 .. n : q[i] \in Seq(S)
    BY ElementOfSeq
  <1>a. \A a, b, c \in Seq(S) : (a \o b) \o c = a \o (b \o c)
    BY ConcatAssociative, SMTT(30)
  <1> HIDE DEF r, n
  <1>3. n \in 1 .. n /\ 1 \in 1 .. n /\ n - 1 \in 0 .. Len(r) /\ n - 1 \in Nat
    BY <1>0, <1>1
  <1>4. PICK g \in [1 .. n - 1 -> Seq(S)] : Partial(r, g, n - 1)
    BY <1>1, <1>3, PartialsExist
  <1> DEFINE h == [i \in 1 .. n |-> IF i = 1 THEN q[1] ELSE q[1] \o g[i - 1]]
  <1>5. Partial(q, h, n)
    <2> SUFFICES ASSUME NEW i \in 1 .. n
                 PROVE  h[i] = IF i = 1 THEN q[1] ELSE h[i - 1] \o q[i]
      BY DEF Partial
    <2>1. CASE i = 1
      BY <2>1
    <2>2. CASE i # 1
      <3>0. i - 1 \in 1 .. n /\ i - 1 \in 1 .. n - 1 /\ i - 1 + 1 = i
        BY <1>0, <2>2
      <3>1. /\ i - 1 \in 1 .. n /\ i - 1 \in 1 .. n - 1 /\ r[i - 1] = q[i]
            /\ h[i] = q[1] \o g[i - 1]
        BY <1>1, <2>2, <3>0
      <3>2. CASE i = 2
        <4>1. i - 1 = 1
          BY <3>2
        <4>2. g[i - 1] = r[i - 1] /\ h[i - 1] = q[1]
          BY <1>4, <3>1, <4>1 DEF Partial
        <4> QED BY <2>2, <3>1, <4>2
      <3>3. CASE i # 2
        <4>1. i - 1 # 1 /\ i - 1 - 1 \in 1 .. n - 1
          BY <1>0, <2>2, <3>3
        <4>2. g[i - 1] = g[i - 1 - 1] \o r[i - 1]
          BY <1>4, <3>1, <4>1 DEF Partial
        <4>3. h[i - 1] = q[1] \o g[i - 1 - 1]
          BY <3>1, <4>1
        <4>4. q[1] \in Seq(S) /\ g[i - 1 - 1] \in Seq(S) /\ q[i] \in Seq(S)
          BY <1>2, <1>3, <1>4, <4>1
        <4>5. (q[1] \o g[i - 1 - 1]) \o q[i] = q[1] \o (g[i - 1 - 1] \o q[i])
          <5> HIDE DEF h
          <5> QED BY <1>a, <4>4
        <4> QED BY <2>2, <3>1, <4>2, <4>3, <4>5
      <3> QED BY <3>2, <3>3
    <2> QED BY <2>1, <2>2
  <1>6. FlattenSeq(q) = h[n]
    <2> HIDE DEF h
    <2> QED BY <1>0, <1>5, FlattenIsPartial DEF n
  <1>7. CASE n = 1
    <2>1. r = <<>> /\ FlattenSeq(r) = r
      BY <1>1, <1>7, EmptySeq, FlattenEmpty
    <2>2. h[n] = q[1]
      BY <1>3, <1>7
    <2> QED BY <1>2, <1>3, <1>6, <2>1, <2>2, ConcatEmptySeq DEF r
  <1>8. CASE n # 1
    <2>1. n - 1 # 0 /\ h[n] = q[1] \o g[n - 1]
      <3>1. n - 1 # 0
        BY <1>0, <1>8
      <3>2. h[n] = IF n = 1 THEN q[1] ELSE q[1] \o g[n - 1]
        BY <1>3
      <3> QED BY <1>8, <3>1, <3>2
    <2>2. FlattenSeq(r) = g[n - 1]
      BY <1>1, <1>4, <2>1, FlattenIsPartial
    <2> QED BY <1>6, <2>1, <2>2 DEF r
  <1> QED BY <1>7, <1>8
=============================================================================
