------------------------------ MODULE ListLemmas ------------------------------
(***************************************************************************)
(* What the kernel's list operations do to a list without duplicates: the  *)
(* facts about Append, Tail, \o, RemoveFirst and Min that the proofs about *)
(* the scheduler rest on.                                                  *)
(*                                                                         *)
(* At the end, what the folds of the other modules need: induction for the *)
(* set of numbers of which a fact holds, and the last place in a set of    *)
(* places.                                                                 *)
(***************************************************************************)
EXTENDS Integers, Sequences, FiniteSets, SequencesExt, WellFoundedInduction,
        SequenceTheorems, FiniteSetTheorems, TLAPS

\* A nonempty set of naturals has a least element, which Min returns.
LEMMA MinProperty ==
    ASSUME NEW S \in SUBSET Nat, S # {}
    PROVE  Min(S) \in S /\ \A n \in S : Min(S) <= n
<1>. DEFINE Below == {p \in Nat \X Nat : p[1] < p[2]}
<1>1. IsWellFoundedOn(Below, Nat)
  BY NatLessThanWellFounded DEF OpToRel
<1>2. PICK m \in S : \A n \in S : ~ (<< n, m >> \in Below)
  <2>. HIDE DEF Below
  <2>. QED BY <1>1, WFMin
<1>3. ASSUME NEW n \in S PROVE m <= n
  <2>1. m \in Nat /\ n \in Nat
    OBVIOUS
  <2>2. << n, m >> \in Below <=> n < m
    BY <2>1
  <2>. HIDE DEF Below
  <2>. QED BY <1>2, <2>1, <2>2
<1>. QED
  BY <1>3 DEF Min

\* The number of elements of S up to i grows by at most one with i, so some i in S
\* is the j-th.
LEMMA NthExists ==
    ASSUME NEW n \in Nat, NEW S, \A h \in S : h \in 1 .. n,
           NEW j \in 1 .. Cardinality(S)
    PROVE  \E i \in S : Cardinality({h \in S : h <= i}) = j
<1>. DEFINE UpTo(i) == {h \in S : h <= i}
            Reach == {i \in 1 .. n : j <= Cardinality(UpTo(i))}
            m == Min(Reach)
<1>0. \A h \in S : h \in Int /\ 1 <= h /\ h <= n
  OBVIOUS
<1>1. IsFiniteSet(S)
  <2>1. IsFiniteSet(1 .. n)
    BY FS_Interval
  <2>2. S \in SUBSET (1 .. n)
    OBVIOUS
  <2>. QED BY <2>1, <2>2, FS_Subset
<1>2. \A i : IsFiniteSet(UpTo(i)) /\ Cardinality(UpTo(i)) \in Nat
  <2>. TAKE i
  <2>1. UpTo(i) \in SUBSET S
    OBVIOUS
  <2>. QED BY <1>1, <2>1, FS_Subset, FS_CardinalityType
<1>3. Cardinality(UpTo(0)) = 0 /\ Cardinality(S) \in Nat
  <2>1. UpTo(0) = {}
    BY <1>0
  <2>. QED BY <1>1, <2>1, FS_EmptySet, FS_CardinalityType
<1>4. n \in Reach
  <2>1. UpTo(n) = S
    BY <1>0
  <2>2. n # 0
    <3>1. n = 0 => S = {}
      BY <1>0
    <3>2. Cardinality({}) = 0
      BY FS_EmptySet
    <3>. QED BY <1>3, <3>1, <3>2
  <2>. QED BY <2>1, <2>2, <1>3
<1>5. m \in Reach /\ \A i \in Reach : m <= i
  <2>. HIDE DEF Reach
  <2>1. Reach \in SUBSET Nat /\ Reach # {}
    <3>. USE DEF Reach
    <3>. QED BY <1>4
  <2>. QED BY <2>1, MinProperty
<1>. HIDE DEF m
<1>6. m \in 1 .. n /\ j <= Cardinality(UpTo(m)) /\ m - 1 \in 0 .. n
  BY <1>5
<1>7. Cardinality(UpTo(m - 1)) < j
  <2>1. CASE m = 1
    BY <2>1, <1>3
  <2>2. CASE m # 1
    <3>1. m - 1 \in 1 .. n /\ ~ (m <= m - 1)
      BY <1>6, <2>2
    <3>2. m - 1 \notin Reach
      BY <1>5, <3>1
    <3>. QED BY <1>2, <3>1, <3>2
  <2>. QED BY <2>1, <2>2
<1>8. m \in S /\ Cardinality(UpTo(m)) = Cardinality(UpTo(m - 1)) + 1
  <2>1. CASE m \in S
    <3>1. \A h \in S : h <= m <=> h <= m - 1 \/ h = m
      BY <1>0, <1>6
    <3>2. UpTo(m) = UpTo(m - 1) \cup {m}
      BY <2>1, <3>1, <1>6
    <3>3. m \notin UpTo(m - 1)
      BY <1>6
    <3>. HIDE DEF UpTo
    <3>. QED BY <1>2, <2>1, <3>2, <3>3, FS_AddElement
  <2>2. CASE m \notin S
    <3>1. UpTo(m) = UpTo(m - 1)
      BY <1>0, <1>6, <2>2
    <3>. QED BY <1>2, <1>6, <1>7, <3>1
  <2>. QED BY <2>1, <2>2
<1>9. m \in S /\ Cardinality(UpTo(m)) = j
  <2>1. Cardinality(UpTo(m)) \in Nat /\ Cardinality(UpTo(m - 1)) \in Nat /\ j \in Int
    BY <1>2
  <2>. HIDE DEF UpTo
  <2>. QED BY <2>1, <1>6, <1>7, <1>8
<1>. QED
  BY <1>9

\* The elements of a list are those at its indices.
LEMMA ToSetProperty ==
    ASSUME NEW S, NEW list \in Seq(S)
    PROVE  /\ ToSet(list) \subseteq S
           /\ \A x : x \in ToSet(list) <=> \E i \in 1 .. Len(list) : list[i] = x
<1>1. DOMAIN list = 1 .. Len(list) /\ \A i \in 1 .. Len(list) : list[i] \in S
  OBVIOUS
<1>. QED
  BY <1>1 DEF ToSet

\* removeNode on a list without duplicates takes exactly that node out.
LEMMA RemoveFirstProperty ==
    ASSUME NEW S, NEW list \in Seq(S), IsInjective(list), NEW c \in ToSet(list)
    PROVE  /\ RemoveFirst(list, c) \in Seq(S)
           /\ IsInjective(RemoveFirst(list, c))
           /\ ToSet(RemoveFirst(list, c)) = ToSet(list) \ {c}
           /\ Len(RemoveFirst(list, c)) = Len(list) - 1
<1>. DEFINE I == {i \in 1 .. Len(list) : list[i] = c}
            m == Min(I)
<1>1. I \in SUBSET Nat /\ I # {}
  BY DEF ToSet
<1>2. m \in I
  BY <1>1, MinProperty
<1>3. RemoveFirst(list, c) = SubSeq(list, 1, m - 1) \o SubSeq(list, m + 1, Len(list))
  BY <1>1 DEF RemoveFirst, RemoveAt, SelectInSeq
<1>. DEFINE r == SubSeq(list, 1, m - 1) \o SubSeq(list, m + 1, Len(list))
<1>a. m \in 1 .. Len(list) /\ list[m] = c
  BY <1>2
<1>. HIDE DEF m
<1>b. /\ SubSeq(list, 1, m - 1) \in Seq(S)
      /\ Len(SubSeq(list, 1, m - 1)) = m - 1
      /\ \A i \in 1 .. m - 1 : SubSeq(list, 1, m - 1)[i] = list[i]
  BY <1>a
<1>c. /\ SubSeq(list, m + 1, Len(list)) \in Seq(S)
      /\ Len(SubSeq(list, m + 1, Len(list))) = Len(list) - m
      /\ \A i \in 1 .. Len(list) - m : SubSeq(list, m + 1, Len(list))[i] = list[m + i]
  BY <1>a
<1>. DEFINE p == SubSeq(list, 1, m - 1)
            q == SubSeq(list, m + 1, Len(list))
<1>d. p \in Seq(S) /\ q \in Seq(S) /\ r = p \o q
  BY <1>b, <1>c
<1>e. /\ Len(p) = m - 1 /\ Len(q) = Len(list) - m
      /\ \A i \in 1 .. m - 1 : p[i] = list[i]
      /\ \A i \in 1 .. Len(list) - m : q[i] = list[m + i]
  BY <1>b, <1>c
<1>. HIDE DEF r, p, q
<1>4. r \in Seq(S) /\ Len(r) = Len(list) - 1
  BY <1>a, <1>d, <1>e
<1>5. \A i \in 1 .. Len(r) : r[i] = IF i < m THEN list[i] ELSE list[i + 1]
  <2>1. \A i \in 1 .. Len(p) + Len(q) : r[i] = IF i <= Len(p) THEN p[i] ELSE q[i - Len(p)]
    BY <1>d, ConcatProperties
  <2>. SUFFICES ASSUME NEW i \in 1 .. Len(r)
                PROVE  r[i] = IF i < m THEN list[i] ELSE list[i + 1]
    OBVIOUS
  <2>2. i \in 1 .. Len(list) - 1 /\ i \in 1 .. Len(p) + Len(q)
    BY <1>a, <1>d, <1>e, <1>4
  <2>3. CASE i < m
    BY <2>1, <2>2, <2>3, <1>a, <1>e
  <2>4. CASE ~ (i < m)
    <3>1. i - (m - 1) \in 1 .. Len(list) - m /\ m + (i - (m - 1)) = i + 1
      BY <2>2, <2>4, <1>a
    <3>2. r[i] = q[i - (m - 1)]
      BY <2>1, <2>2, <2>4, <1>a, <1>e
    <3>. QED
      BY <2>4, <3>1, <3>2, <1>e
  <2>. QED
    BY <2>3, <2>4
<1>6. IsInjective(r)
  <2>. SUFFICES ASSUME NEW a \in 1 .. Len(r), NEW b \in 1 .. Len(r), r[a] = r[b]
                PROVE  a = b
    BY <1>4 DEF IsInjective
  <2>1. \A i, j \in 1 .. Len(list) : list[i] = list[j] => i = j
    BY DEF IsInjective
  <2>2. a + 1 \in 1 .. Len(list) /\ b + 1 \in 1 .. Len(list)
    BY <1>a, <1>4
  <2>3. a \in 1 .. Len(list) /\ b \in 1 .. Len(list)
    BY <1>a, <1>4
  <2>. QED
    BY <2>1, <2>2, <2>3, <1>a, <1>5
<1>7. ASSUME NEW d \in ToSet(r) PROVE d \in ToSet(list) \ {c}
  <2>1. PICK i \in 1 .. Len(r) : r[i] = d
    BY <1>4, ToSetProperty
  <2>2. PICK j \in 1 .. Len(list) : list[j] = d /\ j # m
    BY <2>1, <1>a, <1>4, <1>5
  <2>3. d # c
    BY <2>2, <1>a DEF IsInjective
  <2>. QED
    BY <2>2, <2>3, ToSetProperty
<1>8. ASSUME NEW d \in ToSet(list) \ {c} PROVE d \in ToSet(r)
  <2>1. PICK i \in 1 .. Len(list) : list[i] = d
    BY DEF ToSet
  <2>2. i # m
    BY <2>1, <1>a
  <2>3. CASE i < m
    BY <2>1, <2>3, <1>a, <1>4, <1>5 DEF ToSet
  <2>4. CASE i > m
    <3>1. i - 1 \in 1 .. Len(r) /\ r[i - 1] = d
      BY <2>1, <2>4, <1>a, <1>4, <1>5
    <3>. QED
      BY <3>1, <1>4, ToSetProperty
  <2>. QED
    BY <2>2, <2>3, <2>4, <1>a
<1>. QED
  BY <1>3, <1>4, <1>6, <1>7, <1>8 DEF r

\* addNode of a new element keeps a list free of duplicates.
LEMMA AppendProperty ==
    ASSUME NEW S, NEW list \in Seq(S), NEW c \in S, c \notin ToSet(list), IsInjective(list)
    PROVE  /\ Append(list, c) \in Seq(S)
           /\ Len(Append(list, c)) = Len(list) + 1
           /\ IsInjective(Append(list, c))
           /\ \A d : d \in ToSet(Append(list, c)) <=> d \in ToSet(list) \/ d = c
<1>. DEFINE r == Append(list, c)
<1>1. /\ r \in Seq(S) /\ Len(r) = Len(list) + 1
      /\ \A i \in 1 .. Len(list) : r[i] = list[i]
      /\ r[Len(list) + 1] = c
  OBVIOUS
<1>2. /\ \A d : d \in ToSet(r) <=> \E i \in 1 .. Len(r) : r[i] = d
      /\ \A d : d \in ToSet(list) <=> \E i \in 1 .. Len(list) : list[i] = d
  BY <1>1, ToSetProperty
<1>3. IsInjective(r)
  <2>1. \A i, j \in 1 .. Len(list) : list[i] = list[j] => i = j
    BY DEF IsInjective
  <2>. QED
    BY <1>1, <1>2, <2>1 DEF IsInjective
<1>4. \A d : d \in ToSet(r) <=> d \in ToSet(list) \/ d = c
  <2>. HIDE DEF r
  <2>. TAKE d
  <2>1. ASSUME d \in ToSet(r) PROVE d \in ToSet(list) \/ d = c
    BY <1>1, <1>2, <2>1
  <2>2. ASSUME d \in ToSet(list) PROVE d \in ToSet(r)
    <3>1. PICK i \in 1 .. Len(list) : list[i] = d
      BY <1>2, <2>2
    <3>2. i \in 1 .. Len(r) /\ r[i] = d
      BY <1>1, <3>1
    <3>. QED
      BY <1>2, <3>2
  <2>3. c \in ToSet(r)
    <3>1. Len(list) + 1 \in 1 .. Len(r)
      BY <1>1
    <3>. QED
      BY <1>1, <1>2, <3>1
  <2>. QED
    BY <2>1, <2>2, <2>3
<1>. QED
  BY <1>1, <1>3, <1>4

\* getFirstData pops the first element and nothing else.
LEMMA TailProperty ==
    ASSUME NEW S, NEW list \in Seq(S), list # << >>, IsInjective(list)
    PROVE  /\ Head(list) \in ToSet(list)
           /\ Tail(list) \in Seq(S)
           /\ IsInjective(Tail(list))
           /\ \A d : d \in ToSet(Tail(list)) <=> d \in ToSet(list) /\ d # Head(list)
<1>. DEFINE r == Tail(list)
<1>1. /\ r \in Seq(S) /\ Len(list) = Len(r) + 1
      /\ \A i \in 1 .. Len(r) : r[i] = list[i + 1]
      /\ Head(list) = list[1]
  OBVIOUS
<1>2. /\ \A d : d \in ToSet(r) <=> \E i \in 1 .. Len(r) : r[i] = d
      /\ \A d : d \in ToSet(list) <=> \E i \in 1 .. Len(list) : list[i] = d
  BY <1>1, ToSetProperty
<1>3. \A i, j \in 1 .. Len(list) : list[i] = list[j] => i = j
  BY DEF IsInjective
<1>4. Len(r) \in Nat
  BY <1>1
<1>. HIDE DEF r
<1>5. IsInjective(r)
  BY <1>1, <1>3 DEF IsInjective
<1>6. ASSUME NEW d
      PROVE  d \in ToSet(r) <=> d \in ToSet(list) /\ d # Head(list)
  <2>1. ASSUME d \in ToSet(r) PROVE d \in ToSet(list) /\ d # Head(list)
    <3>1. PICK i \in 1 .. Len(r) : r[i] = d
      BY <1>2, <2>1
    <3>2. i + 1 \in 1 .. Len(list) /\ 1 \in 1 .. Len(list) /\ i + 1 # 1 /\ list[i + 1] = d
      BY <1>1, <1>4, <3>1
    <3>. QED
      BY <1>1, <1>2, <1>3, <3>2
  <2>2. ASSUME d \in ToSet(list), d # Head(list) PROVE d \in ToSet(r)
    <3>1. PICK i \in 1 .. Len(list) : list[i] = d
      BY <1>2, <2>2
    <3>2. i - 1 \in 1 .. Len(r) /\ r[i - 1] = d
      BY <1>1, <1>4, <2>2, <3>1
    <3>. QED
      BY <1>2, <3>2
  <2>. QED
    BY <2>1, <2>2
<1>7. Head(list) \in ToSet(list)
  <2>1. 1 \in 1 .. Len(list)
    BY <1>1, <1>4
  <2>. QED
    BY <1>1, <1>2, <2>1
<1>. QED
  BY <1>1, <1>5, <1>6, <1>7 DEF r

\* Joining two disjoint lists without duplicates makes no duplicate.
LEMMA ConcatProperty ==
    ASSUME NEW S, NEW p \in Seq(S), NEW q \in Seq(S), IsInjective(p), IsInjective(q),
           \A d \in S : ~ (d \in ToSet(p) /\ d \in ToSet(q))
    PROVE  /\ p \o q \in Seq(S)
           /\ IsInjective(p \o q)
           /\ \A d : d \in ToSet(p \o q) <=> d \in ToSet(p) \/ d \in ToSet(q)
<1>. DEFINE r == p \o q
<1>1. /\ r \in Seq(S) /\ Len(r) = Len(p) + Len(q)
      /\ \A i \in 1 .. Len(p) + Len(q) : r[i] = IF i <= Len(p) THEN p[i] ELSE q[i - Len(p)]
  BY ConcatProperties
<1>2. /\ \A d : d \in ToSet(r) <=> \E i \in 1 .. Len(r) : r[i] = d
      /\ \A d : d \in ToSet(p) <=> \E i \in 1 .. Len(p) : p[i] = d
      /\ \A d : d \in ToSet(q) <=> \E i \in 1 .. Len(q) : q[i] = d
      /\ ToSet(p) \subseteq S /\ ToSet(q) \subseteq S
  BY <1>1, ToSetProperty, ZenonT(60)
<1>3. /\ \A i, j \in 1 .. Len(p) : p[i] = p[j] => i = j
      /\ \A i, j \in 1 .. Len(q) : q[i] = q[j] => i = j
  BY DEF IsInjective
<1>4. Len(p) \in Nat /\ Len(q) \in Nat
  OBVIOUS
<1>. HIDE DEF r
<1>5. \A i \in 1 .. Len(p) : r[i] = p[i]
  BY <1>1, <1>4
<1>6. \A i \in 1 .. Len(r) : i > Len(p) => i - Len(p) \in 1 .. Len(q) /\ r[i] = q[i - Len(p)]
  BY <1>1, <1>4
<1>7. IsInjective(r)
  <2>. SUFFICES ASSUME NEW i \in 1 .. Len(r), NEW j \in 1 .. Len(r), r[i] = r[j]
                PROVE  i = j
    BY <1>1 DEF IsInjective
  <2>1. CASE i <= Len(p) /\ j <= Len(p)
    BY <2>1, <1>3, <1>4, <1>5
  <2>2. CASE i > Len(p) /\ j > Len(p)
    BY <2>2, <1>3, <1>4, <1>6, SMTT(40)
  <2>3. ASSUME NEW a \in 1 .. Len(r), NEW b \in 1 .. Len(r), r[a] = r[b],
               a <= Len(p), b > Len(p)
        PROVE  FALSE
    <3>1. r[a] \in ToSet(p)
      BY <2>3, <1>2, <1>4, <1>5
    <3>2. r[b] \in ToSet(q)
      BY <2>3, <1>2, <1>6
    <3>. QED
      BY <2>3, <3>1, <3>2, <1>2
  <2>. QED
    BY <2>1, <2>2, <2>3, <1>1, <1>4
<1>8. ASSUME NEW d
      PROVE  d \in ToSet(r) <=> d \in ToSet(p) \/ d \in ToSet(q)
  <2>1. ASSUME d \in ToSet(r) PROVE d \in ToSet(p) \/ d \in ToSet(q)
    <3>1. PICK i \in 1 .. Len(r) : r[i] = d
      BY <1>2, <2>1
    <3>2. CASE i <= Len(p)
      BY <3>1, <3>2, <1>2, <1>4, <1>5
    <3>3. CASE i > Len(p)
      BY <3>1, <3>3, <1>2, <1>6
    <3>. QED
      BY <3>1, <3>2, <3>3, <1>1, <1>4
  <2>2. ASSUME d \in ToSet(p) PROVE d \in ToSet(r)
    <3>1. PICK i \in 1 .. Len(p) : p[i] = d
      BY <1>2, <2>2
    <3>2. i \in 1 .. Len(r) /\ r[i] = d
      BY <3>1, <1>1, <1>4, <1>5
    <3>. QED
      BY <3>2, <1>2
  <2>3. ASSUME d \in ToSet(q) PROVE d \in ToSet(r)
    <3>1. PICK i \in 1 .. Len(q) : q[i] = d
      BY <1>2, <2>3
    <3>2. /\ i + Len(p) \in 1 .. Len(r) /\ i + Len(p) > Len(p)
          /\ (i + Len(p)) - Len(p) = i
      BY <3>1, <1>1, <1>4
    <3>3. r[i + Len(p)] = d
      BY <3>1, <3>2, <1>6
    <3>. QED
      BY <3>2, <3>3, <1>2
  <2>. QED
    BY <2>1, <2>2, <2>3
<1>. QED
  BY <1>1, <1>7, <1>8 DEF r
-----------------------------------------------------------------------------
(***************************************************************************)
(* Ring buffers: n elements from index start on, in a buffer of size       *)
(* places that is used round and round.                                    *)
(***************************************************************************)
\* An index of the ring, once around.
LEMMA RingIndex ==
    ASSUME NEW n \in Nat \ {0}, NEW i \in 0 .. 2 * n - 1
    PROVE  i % n = IF i < n THEN i ELSE i - n
<1>. DEFINE q == i \div n
            r == i % n
<1>1. q \in Int /\ r \in 0 .. n - 1 /\ i = n * q + r
  OBVIOUS
<1>. HIDE DEF q, r
<1>2. q = 0 \/ q = 1
  <2>1. q < 2
    <3>. SUFFICES ASSUME q >= 2 PROVE FALSE
      BY <1>1
    <3>1. n * q >= n * 2
      BY <1>1
    <3>. QED
      BY <1>1, <3>1
  <2>2. q > -1
    <3>. SUFFICES ASSUME q <= -1 PROVE FALSE
      BY <1>1
    <3>1. n * q <= n * (-1)
      BY <1>1
    <3>. QED
      BY <1>1, <3>1
  <2>. QED
    BY <1>1, <2>1, <2>2
<1>3. r = IF i < n THEN i ELSE i - n
  BY <1>1, <1>2
<1>. QED
  BY <1>3 DEF r

\* The n elements behind start in a circular buffer, and what the buffer holds.
Ring(buffer, start, n, size) == [j \in 1 .. n |-> buffer[(start + j - 1) % size]]

Cells(buffer, size, S) == buffer \in [0 .. size - 1 -> S]

\* b is the buffer with x put at end.
PutAt(buffer, end, x, b, size) ==
    \A i \in 0 .. size - 1 : b[i] = IF i = end THEN x ELSE buffer[i]

\* Where the j-th element is.
LEMMA RingPlace ==
    ASSUME NEW size \in Nat \ {0}, NEW start \in 0 .. size - 1, NEW j \in 1 .. size
    PROVE  /\ (start + j - 1) % size \in 0 .. size - 1
           /\ (start + j - 1) % size
                = IF start + j - 1 < size THEN start + j - 1 ELSE start + j - 1 - size
<1>. DEFINE i == start + j - 1
<1>1. i \in 0 .. 2 * size - 1 /\ i % size \in 0 .. size - 1
  OBVIOUS
<1>. HIDE DEF i
<1>2. i % size = IF i < size THEN i ELSE i - size
  BY <1>1, RingIndex
<1>. QED
  BY <1>1, <1>2 DEF i

LEMMA RingType ==
    ASSUME NEW size \in Nat \ {0}, NEW S, NEW buffer, Cells(buffer, size, S),
           NEW start \in 0 .. size - 1, NEW n \in 0 .. size
    PROVE  Ring(buffer, start, n, size) \in Seq(S) /\ Len(Ring(buffer, start, n, size)) = n
<1>1. \A j \in 1 .. n : buffer[(start + j - 1) % size] \in S
  <2>1. \A j \in 1 .. n : j \in 1 .. size
    OBVIOUS
  <2>. QED BY <2>1, RingPlace DEF Cells
<1>. QED
  BY <1>1 DEF Ring

\* Taking the element at start.
LEMMA RingTake ==
    ASSUME NEW size \in Nat \ {0}, NEW S, NEW buffer, Cells(buffer, size, S),
           NEW start \in 0 .. size - 1, NEW n \in 1 .. size
    PROVE  /\ Ring(buffer, start, n, size) # << >>
           /\ Head(Ring(buffer, start, n, size)) = buffer[start]
           /\ Tail(Ring(buffer, start, n, size)) = Ring(buffer, (start + 1) % size, n - 1, size)
<1>. DEFINE next == (start + 1) % size
            r == Ring(buffer, start, n, size)
            u == Ring(buffer, next, n - 1, size)
            at(i, j) == IF i + j - 1 < size THEN i + j - 1 ELSE i + j - 1 - size
<1>1. next \in 0 .. size - 1 /\ next = IF start + 1 < size THEN start + 1 ELSE start + 1 - size
  <2>. DEFINE i == start + 1
  <2>1. i \in 0 .. 2 * size - 1 /\ i % size \in 0 .. size - 1
    OBVIOUS
  <2>. HIDE DEF i
  <2>2. i % size = IF i < size THEN i ELSE i - size
    BY <2>1, RingIndex
  <2>. QED BY <2>1, <2>2 DEF i
<1>. HIDE DEF next
<1>2. /\ r \in Seq(S) /\ Len(r) = n /\ u \in Seq(S) /\ Len(u) = n - 1
      /\ \A j \in 1 .. size : (start + j - 1) % size = at(start, j)
      /\ \A j \in 1 .. size : (next + j - 1) % size = at(next, j)
  <2>1. n \in 0 .. size /\ n - 1 \in 0 .. size
    OBVIOUS
  <2>2. r \in Seq(S) /\ Len(r) = n
    BY <2>1, RingType
  <2>3. \A j \in 1 .. size : (start + j - 1) % size = at(start, j)
    BY RingPlace
  <2>4. u \in Seq(S) /\ Len(u) = n - 1
    <3>1. \A i \in 0 .. size :
            Ring(buffer, next, i, size) \in Seq(S) /\ Len(Ring(buffer, next, i, size)) = i
      BY <1>1, RingType
    <3>. QED BY <2>1, <3>1
  <2>5. \A j \in 1 .. size : (next + j - 1) % size = at(next, j)
    BY <1>1, RingPlace
  <2>. QED BY <2>2, <2>3, <2>4, <2>5
<1>3. \A j \in 1 .. n : r[j] = buffer[at(start, j)]
  <2>1. \A j \in 1 .. n : j \in 1 .. size /\ r[j] = buffer[(start + j - 1) % size]
    BY DEF Ring
  <2>. QED BY <1>2, <2>1
<1>4. \A j \in 1 .. n - 1 : u[j] = buffer[at(next, j)]
  <2>1. \A j \in 1 .. n - 1 : j \in 1 .. size /\ u[j] = buffer[(next + j - 1) % size]
    BY DEF Ring
  <2>. QED BY <1>2, <2>1
<1>5. \A j \in 1 .. n - 1 : at(next, j) = at(start, j + 1)
  BY <1>1
<1>6. at(start, 1) = start
  OBVIOUS
<1>. HIDE DEF at, r, u
<1>7. r # << >> /\ Head(r) = buffer[start]
  <2>1. 1 \in 1 .. n /\ n > 0
    OBVIOUS
  <2>2. r[1] = buffer[start]
    BY <1>3, <1>6, <2>1
  <2>. QED BY <1>2, <2>1, <2>2
<1>8. Tail(r) \in Seq(S) /\ Len(Tail(r)) = n - 1 /\ \A j \in 1 .. n - 1 : Tail(r)[j] = r[j + 1]
  BY <1>2, <1>7
<1>9. \A j \in 1 .. n - 1 : Tail(r)[j] = u[j]
  BY <1>3, <1>4, <1>5, <1>8
<1>10. Tail(r) = u
  BY <1>2, <1>8, <1>9, SeqEqual
<1>. QED
  BY <1>7, <1>10 DEF r, u, next

\* Putting an element in the place behind the last.
LEMMA RingPut ==
    ASSUME NEW size \in Nat \ {0}, NEW S, NEW buffer, Cells(buffer, size, S),
           NEW start \in 0 .. size - 1, NEW n \in 0 .. size - 1, NEW x \in S,
           NEW end, end = (start + n) % size,
           NEW b, Cells(b, size, S), PutAt(buffer, end, x, b, size)
    PROVE  Ring(b, start, n + 1, size) = Append(Ring(buffer, start, n, size), x)
<1>. DEFINE r == Ring(buffer, start, n, size)
            u == Ring(b, start, n + 1, size)
            at(j) == IF start + j - 1 < size THEN start + j - 1 ELSE start + j - 1 - size
<1>1. end \in 0 .. size - 1 /\ end = at(n + 1)
  <2>. DEFINE i == start + n
  <2>1. i \in 0 .. 2 * size - 1 /\ i % size \in 0 .. size - 1 /\ start + (n + 1) - 1 = i
    OBVIOUS
  <2>. HIDE DEF i
  <2>2. i % size = IF i < size THEN i ELSE i - size
    BY <2>1, RingIndex
  <2>. QED BY <2>1, <2>2 DEF i
<1>2. Cells(b, size, S) /\ b[end] = x
      /\ \A i \in 0 .. size - 1 : i # end => b[i] = buffer[i]
  BY <1>1 DEF PutAt
<1>3. /\ r \in Seq(S) /\ Len(r) = n /\ u \in Seq(S) /\ Len(u) = n + 1
      /\ \A j \in 1 .. size : (start + j - 1) % size = at(j) /\ at(j) \in 0 .. size - 1
  <2>1. n \in 0 .. size /\ n + 1 \in 0 .. size
    OBVIOUS
  <2>2. r \in Seq(S) /\ Len(r) = n
    BY <2>1, RingType
  <2>3. u \in Seq(S) /\ Len(u) = n + 1
    <3>1. \A i \in 0 .. size :
            Ring(b, start, i, size) \in Seq(S) /\ Len(Ring(b, start, i, size)) = i
      BY <1>2, RingType
    <3>. QED BY <2>1, <3>1
  <2>4. \A j \in 1 .. size : (start + j - 1) % size = at(j)
    BY RingPlace
  <2>5. \A j \in 1 .. size : at(j) \in 0 .. size - 1
    OBVIOUS
  <2>. QED BY <2>2, <2>3, <2>4, <2>5
<1>4. \A j \in 1 .. n : r[j] = buffer[at(j)]
  <2>1. \A j \in 1 .. n : j \in 1 .. size /\ r[j] = buffer[(start + j - 1) % size]
    BY DEF Ring
  <2>. QED BY <1>3, <2>1
<1>5. \A j \in 1 .. n + 1 : u[j] = b[at(j)]
  <2>1. \A j \in 1 .. n + 1 : j \in 1 .. size /\ u[j] = b[(start + j - 1) % size]
    BY DEF Ring
  <2>. QED BY <1>3, <2>1
<1>6. \A j \in 1 .. n : at(j) # at(n + 1) /\ at(j) \in 0 .. size - 1
  OBVIOUS
<1>. HIDE DEF at, r, u
<1>7. Append(r, x) \in Seq(S) /\ Len(Append(r, x)) = n + 1 /\ Append(r, x)[n + 1] = x
      /\ \A j \in 1 .. n : Append(r, x)[j] = r[j]
  <2>1. r \in Seq(S) /\ Len(r) = n /\ x \in S
    BY <1>3
  <2>. QED BY <2>1
<1>8. \A j \in 1 .. n + 1 : Append(r, x)[j] = u[j]
  <2>1. ASSUME NEW j \in 1 .. n PROVE Append(r, x)[j] = u[j]
    <3>1. j \in 1 .. n + 1
      OBVIOUS
    <3>2. b[at(j)] = buffer[at(j)]
      BY <1>1, <1>2, <1>6
    <3>. QED BY <1>4, <1>5, <1>7, <3>1, <3>2
  <2>2. Append(r, x)[n + 1] = u[n + 1]
    BY <1>1, <1>2, <1>5, <1>7
  <2>3. \A j \in 1 .. n + 1 : j \in 1 .. n \/ j = n + 1
    OBVIOUS
  <2>. QED BY <2>1, <2>2, <2>3
<1>9. Append(r, x) = u
  BY <1>3, <1>7, <1>8, SeqEqual
<1>. QED
  BY <1>9 DEF r, u

\* The place behind the last element stays where it is when the first is taken,
\* and moves on by one when an element is put there.
LEMMA RingEnd ==
    ASSUME NEW size \in Nat \ {0}, NEW start \in 0 .. size - 1
    PROVE  /\ \A n \in 1 .. size : (((start + 1) % size) + (n - 1)) % size = (start + n) % size
           /\ \A n \in 0 .. size - 1 : (((start + n) % size) + 1) % size = (start + (n + 1)) % size
<1>. DEFINE once(i) == IF i < size THEN i ELSE i - size
<1>1. \A i \in 0 .. 2 * size - 1 : i % size = once(i)
  BY RingIndex
<1>2. \A i \in 0 .. 2 * size - 1 : once(i) \in 0 .. size - 1
  OBVIOUS
<1>3. ASSUME NEW n \in 1 .. size
      PROVE  (((start + 1) % size) + (n - 1)) % size = (start + n) % size
  <2>1. start + 1 \in 0 .. 2 * size - 1 /\ start + n \in 0 .. 2 * size - 1
    OBVIOUS
  <2>2. once(start + 1) + (n - 1) \in 0 .. 2 * size - 1
    OBVIOUS
  <2>3. once(once(start + 1) + (n - 1)) = once(start + n)
    OBVIOUS
  <2>. HIDE DEF once
  <2>. QED BY <1>1, <2>1, <2>2, <2>3
<1>4. ASSUME NEW n \in 0 .. size - 1
      PROVE  (((start + n) % size) + 1) % size = (start + (n + 1)) % size
  <2>1. start + n \in 0 .. 2 * size - 1 /\ start + (n + 1) \in 0 .. 2 * size - 1
    OBVIOUS
  <2>2. once(start + n) + 1 \in 0 .. 2 * size - 1
    OBVIOUS
  <2>3. once(once(start + n) + 1) = once(start + (n + 1))
    OBVIOUS
  <2>. HIDE DEF once
  <2>. QED BY <1>1, <2>1, <2>2, <2>3
<1>. QED
  BY <1>3, <1>4

-----------------------------------------------------------------------------
(***************************************************************************)
(* A list that only loses elements and gains new ones at its end.          *)
(***************************************************************************)
Before(list, d, c) == \E i, j \in DOMAIN list : i < j /\ list[i] = d /\ list[j] = c

\* Whoever was in the old list and is in the list now has nobody before it that
\* was not before it then.
InOrder(old, list) ==
    \A c, d : /\ c \in ToSet(old) /\ Before(list, d, c)
              => Before(old, d, c)

LEMMA InOrderReflexive == \A old : InOrder(old, old)
BY DEF InOrder

LEMMA InOrderTail ==
    ASSUME NEW S, NEW old, NEW list \in Seq(S), list # << >>, InOrder(old, list)
    PROVE  InOrder(old, Tail(list))
<1>1. /\ Tail(list) \in Seq(S) /\ Len(list) = Len(Tail(list)) + 1
      /\ \A i \in 1 .. Len(Tail(list)) : Tail(list)[i] = list[i + 1]
  OBVIOUS
<1>. DEFINE r == Tail(list)
<1>2. DOMAIN list = 1 .. Len(list) /\ DOMAIN r = 1 .. Len(r) /\ Len(r) \in Nat
  BY <1>1
<1>. HIDE DEF r
<1>3. ASSUME NEW c, NEW d, Before(r, d, c) PROVE Before(list, d, c)
  <2>1. PICK i \in 1 .. Len(r), j \in 1 .. Len(r) : i < j /\ r[i] = d /\ r[j] = c
    BY <1>2, <1>3 DEF Before
  <2>2. i + 1 \in 1 .. Len(list) /\ j + 1 \in 1 .. Len(list) /\ i + 1 < j + 1
    BY <1>1, <1>2, <2>1 DEF r
  <2>3. list[i + 1] = d /\ list[j + 1] = c
    BY <1>1, <2>1 DEF r
  <2>. QED BY <1>2, <2>2, <2>3 DEF Before
<1>. QED BY <1>3 DEF InOrder, r

\* Those that join at the end are new.
LEMMA InOrderConcat ==
    ASSUME NEW S, NEW old, NEW list \in Seq(S), NEW w \in Seq(S), InOrder(old, list),
           \A c \in ToSet(w) : c \notin ToSet(old)
    PROVE  InOrder(old, list \o w)
<1>. DEFINE r == list \o w
<1>1. /\ r \in Seq(S) /\ Len(r) = Len(list) + Len(w)
      /\ \A i \in 1 .. Len(list) + Len(w) :
            r[i] = IF i <= Len(list) THEN list[i] ELSE w[i - Len(list)]
  BY ConcatProperties
<1>2. /\ DOMAIN list = 1 .. Len(list) /\ DOMAIN r = 1 .. Len(r) /\ DOMAIN w = 1 .. Len(w)
      /\ Len(list) \in Nat /\ Len(w) \in Nat
  BY <1>1
<1>. HIDE DEF r
<1>3. ASSUME NEW c, NEW d, c \in ToSet(old), Before(r, d, c) PROVE Before(list, d, c)
  <2>1. PICK i \in 1 .. Len(r), j \in 1 .. Len(r) : i < j /\ r[i] = d /\ r[j] = c
    BY <1>2, <1>3 DEF Before
  <2>2. j <= Len(list)
    <3>. SUFFICES ASSUME ~ (j <= Len(list)) PROVE FALSE
      OBVIOUS
    <3>1. j - Len(list) \in 1 .. Len(w) /\ r[j] = w[j - Len(list)]
      BY <1>1, <1>2
    <3>2. c \in ToSet(w)
      BY <1>2, <2>1, <3>1 DEF ToSet
    <3>. QED BY <1>3, <3>2
  <2>3. i \in 1 .. Len(list) /\ j \in 1 .. Len(list) /\ list[i] = d /\ list[j] = c
    BY <1>1, <1>2, <2>1, <2>2
  <2>. QED BY <1>2, <2>1, <2>3 DEF Before
<1>. QED BY <1>3 DEF InOrder, r

LEMMA InOrderAppend ==
    ASSUME NEW S, NEW old, NEW list \in Seq(S), NEW c \in S, InOrder(old, list),
           c \notin ToSet(old)
    PROVE  InOrder(old, Append(list, c))
<1>1. << c >> \in Seq(S) /\ ToSet(<< c >>) = {c} /\ Append(list, c) = list \o << c >>
  BY DEF ToSet
<1>. QED BY <1>1, InOrderConcat

\* removeNode closes the gap.
LEMMA InOrderRemoveFirst ==
    ASSUME NEW S, NEW old, NEW list \in Seq(S), InOrder(old, list), NEW x \in ToSet(list)
    PROVE  InOrder(old, RemoveFirst(list, x))
<1>. DEFINE I == {i \in 1 .. Len(list) : list[i] = x}
            m == Min(I)
            r == RemoveFirst(list, x)
<1>1. I \in SUBSET Nat /\ I # {}
  BY DEF ToSet
<1>2. m \in I
  BY <1>1, MinProperty
<1>3. r = SubSeq(list, 1, m - 1) \o SubSeq(list, m + 1, Len(list))
  BY <1>1 DEF RemoveFirst, RemoveAt, SelectInSeq
<1>a. m \in 1 .. Len(list)
  BY <1>2
<1>. HIDE DEF m
<1>. DEFINE p == SubSeq(list, 1, m - 1)
            q == SubSeq(list, m + 1, Len(list))
<1>b. p \in Seq(S) /\ Len(p) = m - 1 /\ \A i \in 1 .. m - 1 : p[i] = list[i]
  BY <1>a
<1>c. /\ q \in Seq(S) /\ Len(q) = Len(list) - m
      /\ \A i \in 1 .. Len(list) - m : q[i] = list[m + i]
  BY <1>a
<1>d. r = p \o q
  BY <1>3
<1>. HIDE DEF r, p, q
<1>4. /\ DOMAIN r = 1 .. Len(list) - 1
      /\ \A i \in 1 .. Len(list) - 1 : r[i] = IF i <= m - 1 THEN p[i] ELSE q[i - (m - 1)]
  <2>1. /\ r \in Seq(S) /\ Len(r) = Len(p) + Len(q)
        /\ \A i \in 1 .. Len(p) + Len(q) : r[i] = IF i <= Len(p) THEN p[i] ELSE q[i - Len(p)]
    BY <1>b, <1>c, <1>d, ConcatProperties
  <2>2. Len(p) + Len(q) = Len(list) - 1
    BY <1>a, <1>b, <1>c
  <2>3. DOMAIN r = 1 .. Len(r)
    BY <2>1
  <2>. QED BY <2>1, <2>2, <2>3, <1>b
<1>. DEFINE At(i) == IF i < m THEN i ELSE i + 1
<1>5. ASSUME NEW i \in 1 .. Len(list) - 1
      PROVE  At(i) \in 1 .. Len(list) /\ r[i] = list[At(i)]
  <2>1. CASE i < m
    <3>1. i \in 1 .. m - 1 /\ i <= m - 1
      BY <1>a, <2>1
    <3>. QED BY <1>a, <1>b, <1>4, <2>1, <3>1
  <2>2. CASE ~ (i < m)
    <3>1. /\ i - (m - 1) \in 1 .. Len(list) - m /\ m + (i - (m - 1)) = i + 1
          /\ ~ (i <= m - 1)
      BY <1>a, <2>2
    <3>2. r[i] = q[i - (m - 1)]
      BY <1>4, <3>1
    <3>3. q[i - (m - 1)] = list[m + (i - (m - 1))]
      BY <1>c, <3>1
    <3>. QED BY <2>2, <3>1, <3>2, <3>3
  <2>. QED BY <2>1, <2>2
<1>6. \A i, j \in 1 .. Len(list) - 1 : i < j => At(i) < At(j)
  BY <1>a
<1>7. DOMAIN list = 1 .. Len(list)
  OBVIOUS
<1>. HIDE DEF At
<1>8. ASSUME NEW c, NEW d, Before(r, d, c) PROVE Before(list, d, c)
  <2>1. PICK i \in 1 .. Len(list) - 1, j \in 1 .. Len(list) - 1 :
            i < j /\ r[i] = d /\ r[j] = c
    BY <1>4, <1>8 DEF Before
  <2>2. /\ At(i) \in DOMAIN list /\ At(j) \in DOMAIN list /\ At(i) < At(j)
        /\ list[At(i)] = d /\ list[At(j)] = c
    BY <1>5, <1>6, <1>7, <2>1
  <2>. QED BY <2>2 DEF Before
<1>. QED BY <1>8 DEF InOrder, r

-----------------------------------------------------------------------------
(***************************************************************************)
(* For the folds, which are solved by functions of sets of places.         *)
(***************************************************************************)
\* Induction over the naturals, for a set of them.
LEMMA InductionForSet ==
    ASSUME NEW S, 0 \in S, \A m \in Nat : m \in S => m + 1 \in S
    PROVE  \A m \in Nat : m \in S
<1>. DEFINE bad == {m \in Nat : m \notin S}
<1>. SUFFICES ASSUME bad # {} PROVE FALSE
  OBVIOUS
<1>1. Min(bad) \in bad /\ \A m \in bad : Min(bad) <= m
  <2>1. bad \in SUBSET Nat
    OBVIOUS
  <2>. QED BY <2>1, MinProperty
<1>2. PICK m : m \in bad /\ \A l \in bad : m <= l
  BY <1>1
<1>3. m \in Nat /\ m # 0 /\ m - 1 \in Nat
  BY <1>2
<1>4. m - 1 \notin bad
  BY <1>2, <1>3
<1>5. m \in S
  BY <1>3, <1>4
<1>. QED
  BY <1>2, <1>5

\* The last of the places that are done.
LEMMA LastPlace ==
    ASSUME NEW m \in Nat, NEW T \in SUBSET (1 .. m + 1), m + 1 \in T
    PROVE  Max(T) = m + 1 /\ T \ {m + 1} \in SUBSET (1 .. m)
<1>1. \A y \in T : m + 1 >= y
  OBVIOUS
<1>2. \A x \in T : (\A y \in T : x >= y) => x = m + 1
  OBVIOUS
<1>3. Max(T) = m + 1
  BY <1>1, <1>2 DEF Max
<1>. QED
  BY <1>3

LEMMA FewerPlaces ==
    ASSUME NEW m \in Nat, NEW T \in SUBSET (1 .. m + 1), m + 1 \notin T
    PROVE  T \in SUBSET (1 .. m)
OBVIOUS

=============================================================================
