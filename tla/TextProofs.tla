----------------------------- MODULE TextProofs -----------------------------
(***************************************************************************)
(* Lemmas about numbers, about texts of any length and the parts they are  *)
(* split into and joined of, and about the logs of jobs.                   *)
(*                                                                         *)
(* Where a definition is recursive, what is shown of every index is shown  *)
(* of the smallest, or largest, for which it might not hold.               *)
(*                                                                         *)
(* The end of a log is read backwards, chunk by chunk, while the job goes  *)
(* on writing: what has been read is always the end of the file as it was  *)
(* opened, and an end with more than n line feeds has the last n lines of  *)
(* the whole, although its first byte may be half a character.             *)
(*                                                                         *)
(* The tees of a sink write lines behind what is there, write by write,    *)
(* any of which may fail: what a tee has read is in the file, in order,    *)
(* but for a line per failure.                                             *)
(***************************************************************************)
EXTENDS Text, LogFiles, LogSinks, FiniteSetTheorems, FunctionTheorems, SequenceTheorems, TLAPS

-----------------------------------------------------------------------------
(* Some numbers, in their order. *)

\* Of some numbers, each has a number of its own of smaller ones.
Below(S, i) == {j \in S : j < i}

LEMMA BelowType ==
    ASSUME NEW S \in SUBSET Nat, IsFiniteSet(S), NEW i \in S
    PROVE  Cardinality(Below(S, i)) \in 0..(Cardinality(S) - 1)
<1> DEFINE a == Below(S, i)
           n == Cardinality(S)
<1>1. a \subseteq S /\ i \notin a
  BY DEF Below
<1>2. n \in Nat
  BY FS_CardinalityType
<1> HIDE DEF a, n
<1>3. IsFiniteSet(a) /\ Cardinality(a) <= n /\ (n = Cardinality(a) => S = a)
  BY <1>1, FS_Subset DEF n
<1>4. Cardinality(a) \in Nat
  BY <1>3, FS_CardinalityType
<1> QED
  BY <1>1, <1>2, <1>3, <1>4 DEF a, n

LEMMA BelowGrows ==
    ASSUME NEW S \in SUBSET Nat, IsFiniteSet(S), NEW i \in S, NEW k \in S, i < k
    PROVE  Cardinality(Below(S, i)) < Cardinality(Below(S, k))
<1> DEFINE a == Below(S, i)
           b == Below(S, k)
<1>5. \A j \in S : j \in Nat
  OBVIOUS
<1>1. a \subseteq b /\ i \in b /\ i \notin a /\ b \subseteq S
  <2>1. i \in Nat /\ k \in Nat
    BY <1>5
  <2>2. \A j \in S : j < i => j < k
    BY <1>5, <2>1
  <2>3. a \subseteq b /\ b \subseteq S
    BY <2>2 DEF Below
  <2>4. i \in b
    BY DEF Below
  <2>5. i \notin a
    BY <2>1 DEF Below
  <2> QED
    BY <2>3, <2>4, <2>5
<1> HIDE DEF a, b
<1>2. IsFiniteSet(b)
  BY <1>1, FS_Subset
<1>3. /\ IsFiniteSet(a) /\ Cardinality(a) <= Cardinality(b)
      /\ Cardinality(b) = Cardinality(a) => b = a
  BY <1>1, <1>2, FS_Subset
<1>4. Cardinality(a) \in Nat /\ Cardinality(b) \in Nat
  BY <1>2, <1>3, FS_CardinalityType
<1> QED
  BY <1>1, <1>3, <1>4 DEF a, b

\* The k-th of some numbers is the one of them with k - 1 smaller ones.
LEMMA NthIs ==
    ASSUME NEW S \in SUBSET Nat, IsFiniteSet(S), NEW i \in S, NEW k,
           Cardinality(Below(S, i)) = k - 1
    PROVE  Nth(S, k) = i
<1>1. ASSUME NEW j \in S, Cardinality(Below(S, j)) = k - 1
      PROVE  j = i
  <2>1. Cardinality(Below(S, j)) = Cardinality(Below(S, i))
    BY <1>1
  <2>2. i \in Nat /\ j \in Nat
    OBVIOUS
  <2>3. Cardinality(Below(S, i)) \in Int /\ Cardinality(Below(S, j)) \in Int
    BY BelowType
  <2>4. i < j => Cardinality(Below(S, i)) < Cardinality(Below(S, j))
    BY BelowGrows
  <2>5. j < i => Cardinality(Below(S, j)) < Cardinality(Below(S, i))
    BY BelowGrows
  <2> QED
    BY <2>1, <2>2, <2>3, <2>4, <2>5
<1>2. Nth(S, k) = CHOOSE j \in S : Cardinality(Below(S, j)) = k - 1
  BY DEF Nth, Below
<1> QED
  BY <1>1, <1>2

LEMMA NthExists ==
    ASSUME NEW S \in SUBSET Nat, IsFiniteSet(S), NEW k \in 1..Cardinality(S)
    PROVE  Nth(S, k) \in S /\ Cardinality(Below(S, Nth(S, k))) = k - 1
<1> DEFINE n == Cardinality(S)
           place == [i \in S |-> Cardinality(Below(S, i)) + 1]
<1>1. n \in Nat
  BY FS_CardinalityType
<1>2. place \in [S -> 1..n]
  <2>1. \A i \in S : Cardinality(Below(S, i)) \in 0..(n - 1)
    BY BelowType
  <2> HIDE DEF n
  <2> QED
    BY <1>1, <2>1
<1>3. \A i, j \in S : place[i] = place[j] => i = j
  <2> TAKE i, j \in S
  <2>1. i \in Nat /\ j \in Nat
    OBVIOUS
  <2>2. Cardinality(Below(S, i)) \in Int /\ Cardinality(Below(S, j)) \in Int
    BY BelowType
  <2>3. i < j => Cardinality(Below(S, i)) < Cardinality(Below(S, j))
    BY BelowGrows
  <2>4. j < i => Cardinality(Below(S, j)) < Cardinality(Below(S, i))
    BY BelowGrows
  <2> QED
    BY <2>1, <2>2, <2>3, <2>4
<1>4. \E i \in S : place[i] = k
  <2> HIDE DEF place, n
  <2>1. place \in Injection(S, 1..n)
    BY <1>2, <1>3, Fun_IsInj
  <2>2. IsFiniteSet(1..n) /\ Cardinality(1..n) = n
    BY <1>1, FS_Interval
  <2>3. place \in Surjection(S, 1..n)
    BY <2>1, <2>2, FS_Injection DEF n
  <2> QED
    BY <2>3 DEF Surjection, n
<1>5. PICK i \in S : place[i] = k
  BY <1>4
<1>6. Cardinality(Below(S, i)) = k - 1
  <2>1. Cardinality(Below(S, i)) \in Int
    BY BelowType
  <2> QED
    BY <1>1, <1>5, <2>1
<1>7. Nth(S, k) = i
  BY <1>6, NthIs
<1> QED
  BY <1>6, <1>7

\* Some numbers have a smallest and a largest one.
LEMMA Smallest ==
    ASSUME NEW S \in SUBSET Nat, IsFiniteSet(S), S # {}
    PROVE  \E m \in S : \A k \in S : m <= k
<1>1. Cardinality(S) \in Nat /\ Cardinality(S) # 0
  BY FS_CardinalityType, FS_EmptySet
<1>2. 1 \in 1..Cardinality(S)
  BY <1>1
<1> DEFINE m == Nth(S, 1)
<1>3. m \in S /\ Cardinality(Below(S, m)) = 1 - 1
  BY <1>2, NthExists
<1> HIDE DEF m
<1>4. ASSUME NEW k \in S PROVE ~(k < m)
  <2>1. k < m => Cardinality(Below(S, k)) < Cardinality(Below(S, m))
    BY <1>3, BelowGrows
  <2>2. Cardinality(Below(S, k)) \in 0..(Cardinality(S) - 1)
    BY BelowType
  <2> QED
    BY <1>3, <2>1, <2>2
<1>5. \A k \in S : k \in Nat
  OBVIOUS
<1> QED
  BY <1>3, <1>4, <1>5

LEMMA Largest ==
    ASSUME NEW S \in SUBSET Nat, IsFiniteSet(S), S # {}
    PROVE  \E m \in S : \A k \in S : k <= m
<1> DEFINE n == Cardinality(S)
           m == Nth(S, n)
<1>1. n \in Nat /\ n # 0
  BY FS_CardinalityType, FS_EmptySet
<1> HIDE DEF n
<1>2. n \in 1..n
  BY <1>1
<1>3. m \in S /\ Cardinality(Below(S, m)) = n - 1
  BY <1>2, NthExists DEF n
<1> HIDE DEF m
<1>4. ASSUME NEW k \in S PROVE ~(m < k)
  <2>1. m < k => Cardinality(Below(S, m)) < Cardinality(Below(S, k))
    BY <1>3, BelowGrows
  <2>2. Cardinality(Below(S, k)) \in 0..(n - 1)
    BY BelowType DEF n
  <2> QED
    BY <1>1, <1>3, <2>1, <2>2
<1>5. \A k \in S : k \in Nat
  OBVIOUS
<1> QED
  BY <1>3, <1>4, <1>5

\* Of a set of at most one value there are not two.
LEMMA AtMostOne ==
    ASSUME NEW S, IsFiniteSet(S), ~(Cardinality(S) > 1), NEW x \in S, NEW y \in S
    PROVE  x = y
<1> SUFFICES ASSUME x # y
             PROVE  FALSE
  OBVIOUS
<1> DEFINE A == S \ {x}
           B == A \ {y}
<1>1. IsFiniteSet(A) /\ Cardinality(A) = Cardinality(S) - 1
  BY FS_RemoveElement
<1>2. y \in A
  OBVIOUS
<1> HIDE DEF A
<1>3. IsFiniteSet(B) /\ Cardinality(B) = Cardinality(A) - 1
  BY <1>1, <1>2, FS_RemoveElement
<1>4. Cardinality(B) \in Nat /\ Cardinality(S) \in Nat /\ Cardinality(A) \in Nat
  BY <1>1, <1>3, FS_CardinalityType
<1> HIDE DEF B
<1> QED
  BY <1>1, <1>3, <1>4

-----------------------------------------------------------------------------
(* FlattenSeq() puts sequences one after the other: what it returns has the *)
(* elements of all, and each once if no two share one.                       *)

IsFlat(f, seqs, n) ==
    f = [i \in 1..n |-> IF i = 1 THEN seqs[i] ELSE f[i - 1] \o seqs[i]]

LEMMA ConcatIsBoth ==
    ASSUME NEW T, NEW s \in Seq(T), NEW t \in Seq(T)
    PROVE  /\ s \o t \in Seq(T)
           /\ ToSet(s \o t) = ToSet(s) \cup ToSet(t)
           /\ IsInjective(s \o t) <=>
                 IsInjective(s) /\ IsInjective(t) /\ ToSet(s) \cap ToSet(t) = {}
<1> DEFINE m == Len(s)
           n == Len(t)
           c == s \o t
<1>1. /\ m \in Nat /\ n \in Nat /\ c \in Seq(T) /\ Len(c) = m + n
      /\ \A i \in 1..(m + n) : c[i] = IF i <= m THEN s[i] ELSE t[i - m]
  BY ConcatProperties, LenProperties
<1>2. DOMAIN s = 1..m /\ DOMAIN t = 1..n /\ DOMAIN c = 1..(m + n)
  <2>1. DOMAIN s = 1..m /\ DOMAIN t = 1..n
    BY LenProperties
  <2>2. DOMAIN c = 1..Len(c)
    <3> HIDE DEF c
    <3> QED
      BY <1>1, LenProperties
  <2> QED
    BY <1>1, <2>1, <2>2
<1> HIDE DEF c, m, n
<1>3. ASSUME NEW i \in 1..m
      PROVE  i \in 1..(m + n) /\ c[i] = s[i]
  BY <1>1
<1>4. ASSUME NEW i \in 1..n
      PROVE  m + i \in 1..(m + n) /\ c[m + i] = t[i]
  <2>1. m + i \in 1..(m + n) /\ ~(m + i <= m) /\ (m + i) - m = i
    BY <1>1
  <2> QED
    BY <1>1, <2>1
<1>5. ASSUME NEW i \in 1..(m + n)
      PROVE  i \in 1..m \/ \E k \in 1..n : i = m + k
  <2>1. CASE i <= m
    BY <1>1, <2>1
  <2>2. CASE ~(i <= m)
    <3>1. i - m \in 1..n /\ i = m + (i - m)
      BY <1>1, <2>2
    <3> QED
      BY <3>1
  <2> QED
    BY <2>1, <2>2
<1>6. ToSet(c) = ToSet(s) \cup ToSet(t)
  <2>1. ASSUME NEW x \in ToSet(c) PROVE x \in ToSet(s) \cup ToSet(t)
    <3>1. PICK i \in 1..(m + n) : x = c[i]
      BY <1>2 DEF ToSet
    <3>2. CASE i \in 1..m
      BY <1>2, <1>3, <3>1, <3>2 DEF ToSet
    <3>3. CASE \E k \in 1..n : i = m + k
      BY <1>2, <1>4, <3>1, <3>3 DEF ToSet
    <3> QED
      BY <1>5, <3>2, <3>3
  <2>2. ASSUME NEW x \in ToSet(s) PROVE x \in ToSet(c)
    BY <1>2, <1>3 DEF ToSet
  <2>3. ASSUME NEW x \in ToSet(t) PROVE x \in ToSet(c)
    BY <1>2, <1>4 DEF ToSet
  <2> QED
    BY <2>1, <2>2, <2>3
<1>7. ASSUME IsInjective(c)
      PROVE  IsInjective(s) /\ IsInjective(t) /\ ToSet(s) \cap ToSet(t) = {}
  <2>1. \A i, j \in 1..(m + n) : c[i] = c[j] => i = j
    BY <1>2, <1>7 DEF IsInjective
  <2>2. IsInjective(s)
    BY <1>2, <1>3, <2>1 DEF IsInjective
  <2>3. ASSUME NEW i \in 1..n, NEW j \in 1..n, t[i] = t[j] PROVE i = j
    <3>1. m + i = m + j
      BY <1>4, <2>1, <2>3
    <3> QED
      BY <1>1, <3>1
  <2>4. IsInjective(t)
    BY <1>2, <2>3 DEF IsInjective
  <2>5. ASSUME NEW x, x \in ToSet(s), x \in ToSet(t) PROVE FALSE
    <3>1. PICK i \in 1..m : x = s[i]
      BY <1>2, <2>5 DEF ToSet
    <3>2. PICK j \in 1..n : x = t[j]
      BY <1>2, <2>5 DEF ToSet
    <3>3. i = m + j
      BY <1>3, <1>4, <2>1, <3>1, <3>2
    <3> QED
      BY <1>1, <3>3
  <2> QED
    BY <2>2, <2>4, <2>5
<1>8. ASSUME IsInjective(s), IsInjective(t), ToSet(s) \cap ToSet(t) = {}
      PROVE  IsInjective(c)
  <2>1. ASSUME NEW i \in 1..m, NEW k \in 1..n PROVE s[i] # t[k]
    BY <1>2, <1>8 DEF ToSet
  <2>2. ASSUME NEW i \in 1..(m + n), NEW j \in 1..(m + n), c[i] = c[j] PROVE i = j
    <3>1. CASE i \in 1..m /\ j \in 1..m
      BY <1>2, <1>3, <1>8, <2>2, <3>1 DEF IsInjective
    <3>2. CASE i \in 1..m /\ \E l \in 1..n : j = m + l
      BY <1>3, <1>4, <2>1, <2>2, <3>2
    <3>3. CASE (\E k \in 1..n : i = m + k) /\ j \in 1..m
      BY <1>3, <1>4, <2>1, <2>2, <3>3
    <3>4. CASE (\E k \in 1..n : i = m + k) /\ \E l \in 1..n : j = m + l
      <4>1. PICK k \in 1..n, l \in 1..n : i = m + k /\ j = m + l
        BY <3>4
      <4>2. t[k] = t[l]
        BY <1>4, <2>2, <4>1
      <4> QED
        BY <1>2, <1>8, <4>1, <4>2 DEF IsInjective
    <3> QED
      BY <1>5, <3>1, <3>2, <3>3, <3>4
  <2> QED
    BY <1>2, <2>2 DEF IsInjective
<1> QED
  BY <1>1, <1>6, <1>7, <1>8 DEF c

LEMMA FlatExists ==
    ASSUME NEW T, NEW seqs, NEW n \in Nat \ {0}, \A i \in 1..n : seqs[i] \in Seq(T)
    PROVE  \E f : IsFlat(f, seqs, n)
<1> DEFINE bad == {k \in 1..n : ~ \E f : IsFlat(f, seqs, k)}
<1>1. bad = {}
  <2> SUFFICES ASSUME bad # {}
               PROVE  FALSE
    OBVIOUS
  <2>1. bad \in SUBSET Nat /\ bad \subseteq 1..n
    OBVIOUS
  <2>2. IsFiniteSet(bad)
    <3>1. IsFiniteSet(1..n)
      <4>1. 1 \in Int /\ n \in Int
        OBVIOUS
      <4> QED
        BY <4>1, FS_Interval
    <3> QED
      BY <2>1, <3>1, FS_Subset
  <2> HIDE DEF bad
  <2>3. PICK m \in bad : \A k \in bad : m <= k
    BY <2>1, <2>2, Smallest
  <2>4. m \in 1..n /\ ~ \E f : IsFlat(f, seqs, m)
    BY DEF bad
  <2>5. CASE m = 1
    <3> DEFINE f == [i \in 1..1 |-> seqs[i]]
    <3>1. f = [i \in 1..1 |-> IF i = 1 THEN seqs[i] ELSE f[i - 1] \o seqs[i]]
      OBVIOUS
    <3>2. IsFlat(f, seqs, 1)
      BY <3>1 DEF IsFlat
    <3> QED
      BY <2>4, <2>5, <3>2
  <2>6. CASE m # 1
    <3>1. m - 1 \in 1..n /\ ~(m <= m - 1)
      BY <2>4, <2>6
    <3>2. m - 1 \notin bad
      BY <2>3, <3>1
    <3>3. PICK g : IsFlat(g, seqs, m - 1)
      BY <3>1, <3>2 DEF bad
    <3> DEFINE f == [i \in 1..m |-> IF i = m THEN g[m - 1] \o seqs[m] ELSE g[i]]
    <3>4. \A i \in 1..(m - 1) : g[i] = IF i = 1 THEN seqs[i] ELSE g[i - 1] \o seqs[i]
      BY <3>3 DEF IsFlat
    <3>5. ASSUME NEW i \in 1..m
          PROVE  f[i] = IF i = 1 THEN seqs[i] ELSE f[i - 1] \o seqs[i]
      <4>1. CASE i = m
        <5>1. m - 1 \in 1..m /\ m - 1 # m
          BY <2>4, <3>1
        <5>2. f[m - 1] = g[m - 1]
          BY <5>1
        <5>3. f[m] = g[m - 1] \o seqs[m]
          BY <4>1
        <5> HIDE DEF f
        <5> QED
          BY <2>6, <4>1, <5>2, <5>3
      <4>2. CASE i # m
        <5>1. i \in 1..(m - 1)
          BY <2>4, <4>2
        <5>2. f[i] = g[i]
          BY <4>2
        <5>3. i # 1 => i - 1 \in 1..m /\ i - 1 # m
          BY <2>4, <5>1
        <5>4. i # 1 => f[i - 1] = g[i - 1]
          BY <5>3
        <5> HIDE DEF f
        <5> QED
          BY <3>4, <5>1, <5>2, <5>4
      <4> QED
        BY <4>1, <4>2
    <3>6. DOMAIN f = 1..m /\ f = [i \in 1..m |-> f[i]]
      OBVIOUS
    <3> HIDE DEF f
    <3>7. f = [i \in 1..m |-> IF i = 1 THEN seqs[i] ELSE f[i - 1] \o seqs[i]]
      BY <3>5, <3>6
    <3>8. IsFlat(f, seqs, m)
      BY <3>7 DEF IsFlat
    <3> QED
      BY <2>4, <3>8
  <2> QED
    BY <2>5, <2>6
<1>2. n \in 1..n
  OBVIOUS
<1> QED
  BY <1>1, <1>2, Zenon

\* The elements of the first k of them, and when each of those is there once.
ElementsOf(seqs, k) == UNION {ToSet(seqs[i]) : i \in 1..k}

SharesNone(seqs, k) == \A i, j \in 1..k : i < j => ToSet(seqs[i]) \cap ToSet(seqs[j]) = {}

LEMMA ElementsOfNext ==
    ASSUME NEW seqs, NEW k \in Nat \ {0}
    PROVE  /\ ElementsOf(seqs, 1) = ToSet(seqs[1])
           /\ ElementsOf(seqs, k + 1) = ElementsOf(seqs, k) \cup ToSet(seqs[k + 1])
           /\ SharesNone(seqs, 1)
           /\ SharesNone(seqs, k + 1) <=>
                 SharesNone(seqs, k) /\ ElementsOf(seqs, k) \cap ToSet(seqs[k + 1]) = {}
<1>1. \A i : i \in 1..1 <=> i = 1
  OBVIOUS
<1>2. \A i : i \in 1..(k + 1) <=> i \in 1..k \/ i = k + 1
  OBVIOUS
<1>3. ElementsOf(seqs, 1) = ToSet(seqs[1])
  BY <1>1, Zenon DEF ElementsOf
<1>4. ElementsOf(seqs, k + 1) = ElementsOf(seqs, k) \cup ToSet(seqs[k + 1])
  <2>1. ASSUME NEW x \in ElementsOf(seqs, k + 1)
        PROVE  x \in ElementsOf(seqs, k) \/ x \in ToSet(seqs[k + 1])
    BY <1>2, Zenon DEF ElementsOf
  <2>2. ASSUME NEW x, x \in ElementsOf(seqs, k) \/ x \in ToSet(seqs[k + 1])
        PROVE  x \in ElementsOf(seqs, k + 1)
    BY <1>2, <2>2, Zenon DEF ElementsOf
  <2> QED
    BY <2>1, <2>2
<1>5. SharesNone(seqs, 1)
  BY DEF SharesNone
<1>6. ASSUME SharesNone(seqs, k + 1)
      PROVE  SharesNone(seqs, k) /\ ElementsOf(seqs, k) \cap ToSet(seqs[k + 1]) = {}
  <2>1. \A i \in 1..k : i \in 1..(k + 1) /\ k + 1 \in 1..(k + 1) /\ i < k + 1
    OBVIOUS
  <2>2. SharesNone(seqs, k)
    BY <1>6, <2>1 DEF SharesNone
  <2>3. \A i \in 1..k : ToSet(seqs[i]) \cap ToSet(seqs[k + 1]) = {}
    BY <1>6, <2>1 DEF SharesNone
  <2> QED
    BY <2>2, <2>3 DEF ElementsOf
<1>7. ASSUME SharesNone(seqs, k), ElementsOf(seqs, k) \cap ToSet(seqs[k + 1]) = {}
      PROVE  SharesNone(seqs, k + 1)
  <2>1. \A i \in 1..k : ToSet(seqs[i]) \cap ToSet(seqs[k + 1]) = {}
    BY <1>7 DEF ElementsOf
  <2>2. ASSUME NEW i \in 1..(k + 1), NEW j \in 1..(k + 1), i < j
        PROVE  ToSet(seqs[i]) \cap ToSet(seqs[j]) = {}
    <3>1. i \in 1..k
      BY <2>2
    <3>2. CASE j \in 1..k
      BY <1>7, <2>2, <3>1, <3>2 DEF SharesNone
    <3>3. CASE j = k + 1
      BY <2>1, <3>1, <3>3
    <3> QED
      BY <1>2, <3>2, <3>3
  <2> QED
    BY <2>2 DEF SharesNone
<1> QED
  BY <1>3, <1>4, <1>5, <1>6, <1>7

Gathers(s, T, seqs, k) ==
    /\ s \in Seq(T)
    /\ ToSet(s) = ElementsOf(seqs, k)
    /\ IsInjective(s) <=> SharesNone(seqs, k)

LEMMA FlatGathers ==
    ASSUME NEW T, NEW seqs, NEW n \in Nat \ {0}, NEW f, IsFlat(f, seqs, n),
           \A i \in 1..n : seqs[i] \in Seq(T) /\ IsInjective(seqs[i])
    PROVE  Gathers(f[n], T, seqs, n)
<1> DEFINE bad == {k \in 1..n : ~Gathers(f[k], T, seqs, k)}
<1>1. bad = {}
  <2> SUFFICES ASSUME bad # {}
               PROVE  FALSE
    OBVIOUS
  <2>1. bad \in SUBSET Nat /\ bad \subseteq 1..n
    OBVIOUS
  <2>2. IsFiniteSet(bad)
    <3>1. IsFiniteSet(1..n)
      <4>1. 1 \in Int /\ n \in Int
        OBVIOUS
      <4> QED
        BY <4>1, FS_Interval
    <3> QED
      BY <2>1, <3>1, FS_Subset
  <2> HIDE DEF bad
  <2>3. PICK m \in bad : \A k \in bad : m <= k
    BY <2>1, <2>2, Smallest
  <2>4. m \in 1..n /\ ~Gathers(f[m], T, seqs, m)
    BY DEF bad
  <2>5. \A i \in 1..n : f[i] = IF i = 1 THEN seqs[i] ELSE f[i - 1] \o seqs[i]
    BY DEF IsFlat
  <2>6. CASE m = 1
    <3>1. f[1] = seqs[1] /\ 1 \in Nat \ {0}
      BY <2>4, <2>5, <2>6
    <3>2. ElementsOf(seqs, 1) = ToSet(seqs[1]) /\ SharesNone(seqs, 1)
      BY <3>1, ElementsOfNext
    <3>3. Gathers(f[1], T, seqs, 1)
      BY <2>4, <2>6, <3>1, <3>2 DEF Gathers
    <3> QED
      BY <2>4, <2>6, <3>3
  <2>7. CASE m # 1
    <3> DEFINE k == m - 1
    <3>1. k \in 1..n /\ k \in Nat \ {0} /\ ~(m <= k) /\ k + 1 = m
      BY <2>4, <2>7
    <3>2. f[m] = f[k] \o seqs[m]
      BY <2>4, <2>5, <2>7
    <3> HIDE DEF k
    <3>3. Gathers(f[k], T, seqs, k)
      BY <2>3, <3>1 DEF bad
    <3>4. ElementsOf(seqs, m) = ElementsOf(seqs, k) \cup ToSet(seqs[m])
      BY <3>1, ElementsOfNext
    <3>5. SharesNone(seqs, m) <=> SharesNone(seqs, k) /\ ElementsOf(seqs, k) \cap ToSet(seqs[m]) = {}
      <4>1. SharesNone(seqs, k + 1) <=>
                SharesNone(seqs, k) /\ ElementsOf(seqs, k) \cap ToSet(seqs[k + 1]) = {}
        BY <3>1, ElementsOfNext, Zenon
      <4> QED
        BY <3>1, <4>1
    <3>6. f[k] \in Seq(T) /\ seqs[m] \in Seq(T) /\ IsInjective(seqs[m])
      BY <2>4, <3>3 DEF Gathers
    <3> DEFINE s == f[k]
               t == seqs[m]
    <3>7. s \in Seq(T) /\ t \in Seq(T) /\ f[m] = s \o t
      BY <3>2, <3>6
    <3> HIDE DEF s, t
    <3>8. /\ s \o t \in Seq(T)
          /\ ToSet(s \o t) = ToSet(s) \cup ToSet(t)
          /\ IsInjective(s \o t) <=>
                IsInjective(s) /\ IsInjective(t) /\ ToSet(s) \cap ToSet(t) = {}
      BY <3>7, ConcatIsBoth
    <3>9. ToSet(s) = ElementsOf(seqs, k) /\ (IsInjective(s) <=> SharesNone(seqs, k))
      BY <3>3 DEF Gathers, s
    <3>10. IsInjective(t) /\ ToSet(t) = ToSet(seqs[m])
      BY <3>6 DEF t
    <3>11. Gathers(f[m], T, seqs, m)
      BY <3>4, <3>5, <3>7, <3>8, <3>9, <3>10 DEF Gathers
    <3> QED
      BY <2>4, <3>11
  <2> QED
    BY <2>6, <2>7
<1>2. n \in 1..n /\ n \notin bad
  BY <1>1
<1> QED
  BY <1>2

LEMMA FlattenGathers ==
    ASSUME NEW T, NEW seqs \in Seq(Seq(T)), \A i \in 1..Len(seqs) : IsInjective(seqs[i])
    PROVE  Gathers(FlattenSeq(seqs), T, seqs, Len(seqs))
<1> DEFINE n == Len(seqs)
<1>1. n \in Nat /\ DOMAIN seqs = 1..n /\ \A i \in 1..n : seqs[i] \in Seq(T)
  BY LenProperties, ElementOfSeq
<1>2. CASE n = 0
  <2>1. seqs = <<>>
    BY <1>2, EmptySeq
  <2>2. FlattenSeq(seqs) = <<>>
    BY <2>1 DEF FlattenSeq
  <2>3. <<>> \in Seq(T) /\ ToSet(<<>>) = {} /\ IsInjective(<<>>)
    BY DEF ToSet, IsInjective
  <2>4. ElementsOf(seqs, 0) = {} /\ SharesNone(seqs, 0)
    BY DEF ElementsOf, SharesNone
  <2> QED
    BY <1>2, <2>2, <2>3, <2>4 DEF Gathers
<1>3. CASE n # 0
  <2> DEFINE f == CHOOSE f : IsFlat(f, seqs, n)
  <2>1. FlattenSeq(seqs) = f[n]
    BY <1>3 DEF FlattenSeq, IsFlat
  <2> HIDE DEF n
  <2>2. IsFlat(f, seqs, n)
    <3>1. \E g : IsFlat(g, seqs, n)
      BY <1>1, <1>3, FlatExists
    <3> QED
      BY <3>1
  <2> HIDE DEF f
  <2>3. n \in Nat \ {0} /\ \A i \in 1..n : seqs[i] \in Seq(T) /\ IsInjective(seqs[i])
    BY <1>1, <1>3 DEF n
  <2>4. Gathers(f[n], T, seqs, n)
    BY <2>2, <2>3, FlatGathers
  <2> QED
    BY <2>1, <2>4 DEF n
<1> QED
  BY <1>2, <1>3

-----------------------------------------------------------------------------
(* Parts of texts. *)

\* A part of a text, by a name that the provers do not look into.
Part(s, from, to) == SubSeq(s, from, to)

\* Two texts have the same part where they agree, in one of them p further on.
Agrees(s, from, to, u, p) ==
    to <= Len(s) /\ p + to <= Len(u) /\ \A i \in from..to : s[i] = u[p + i]

LEMMA PartsAgree ==
    ASSUME NEW T, NEW s \in Seq(T), NEW u \in Seq(T), NEW p \in Nat,
           NEW from \in Nat \ {0}, NEW to \in Int, Agrees(s, from, to, u, p)
    PROVE  \A f, g : f = p + from /\ g = p + to => Part(s, from, to) = Part(u, f, g)
<1>8. to <= Len(s) /\ p + to <= Len(u) /\ \A i \in from..to : s[i] = u[p + i]
  BY DEF Agrees
<1>1. Len(s) \in Nat /\ Len(u) \in Nat
  BY LenProperties
<1>2. \A i \in 1..Len(s) : s[i] \in T
  BY ElementOfSeq
<1>3. \A i \in 1..Len(u) : u[i] \in T
  BY ElementOfSeq
<1> DEFINE a == Part(s, from, to)
           b == Part(u, p + from, p + to)
<1>4. /\ a \in Seq(T) /\ Len(a) = IF from <= to THEN to - from + 1 ELSE 0
      /\ \A i \in 1..(to - from + 1) : a[i] = s[from + i - 1]
  <2>1. \A i \in from..to : s[i] \in T
    BY <1>1, <1>2, <1>8
  <2> QED
    BY <1>1, <1>8, <2>1, SubSeqProperties DEF Part
<1>5. /\ b \in Seq(T)
      /\ Len(b) = IF p + from <= p + to THEN (p + to) - (p + from) + 1 ELSE 0
      /\ \A i \in 1..((p + to) - (p + from) + 1) : b[i] = u[(p + from) + i - 1]
  <2>1. \A i \in (p + from)..(p + to) : u[i] \in T
    BY <1>1, <1>3, <1>8
  <2>2. p + from \in Int /\ p + to \in Int
    BY <1>1
  <2> QED
    BY <2>1, <2>2, SubSeqProperties DEF Part
<1> HIDE DEF a, b
<1>6. Len(a) = Len(b)
  BY <1>1, <1>4, <1>5
<1>7. ASSUME NEW i \in 1..Len(a)
      PROVE  a[i] = b[i]
  <2>1. i \in 1..(to - from + 1) /\ i \in 1..((p + to) - (p + from) + 1)
    BY <1>1, <1>4, <1>7
  <2>2. from + i - 1 \in from..to /\ (p + from) + i - 1 = p + (from + i - 1)
    BY <1>1, <2>1
  <2>3. s[from + i - 1] = u[(p + from) + i - 1]
    BY <1>8, <2>2
  <2> QED
    BY <1>4, <1>5, <2>1, <2>3
<1> QED
  BY <1>4, <1>5, <1>6, <1>7, SeqEqual DEF a, b

LEMMA PartWhole ==
    ASSUME NEW T, NEW t \in Seq(T)
    PROVE  Part(t, 1, Len(t)) = t
<1>1. Len(t) \in Nat
  BY LenProperties
<1>2. \A i \in 1..Len(t) : t[i] \in T
  BY ElementOfSeq
<1> DEFINE a == Part(t, 1, Len(t))
<1>3. /\ a \in Seq(T) /\ Len(a) = IF 1 <= Len(t) THEN Len(t) - 1 + 1 ELSE 0
      /\ \A i \in 1..(Len(t) - 1 + 1) : a[i] = t[1 + i - 1]
  BY <1>1, <1>2, SubSeqProperties DEF Part
<1> HIDE DEF a
<1>4. Len(a) = Len(t) /\ \A i \in 1..Len(a) : a[i] = t[i]
  BY <1>1, <1>3
<1> QED
  BY <1>3, <1>4, SeqEqual DEF a

LEMMA OneLexeme ==
    ASSUME NEW T, NEW x \in T
    PROVE  <<x>> \in Seq(T) /\ ToSet(<<x>>) = {x}
<1> DEFINE s == <<x>>
<1>1. s \in Seq(T) /\ DOMAIN s = {1} /\ s[1] = x
  OBVIOUS
<1> HIDE DEF s
<1>2. ToSet(s) = {x}
  BY <1>1 DEF ToSet
<1> QED
  BY <1>1, <1>2 DEF s

LEMMA LexemesIn ==
    ASSUME NEW T, NEW t \in Seq(T)
    PROVE  /\ ToSet(t) \subseteq T
           /\ \A U : T \subseteq U => t \in Seq(U)
           /\ t \o <<>> = t
<1>1. DOMAIN t = 1..Len(t) /\ \A i \in 1..Len(t) : t[i] \in T
  BY LenProperties, ElementOfSeq
<1>2. ToSet(t) \subseteq T
  BY <1>1 DEF ToSet
<1>3. \A U : T \subseteq U => t \in Seq(U)
  OBVIOUS
<1>4. t \o <<>> = t
  OBVIOUS
<1> QED
  BY <1>2, <1>3, <1>4

\* Two texts with a sign between have the signs of both, and that one.
LEMMA LexemesBetween ==
    ASSUME NEW T, NEW s \in Seq(T), NEW p \in Seq(T), NEW c, Sign(c) \in T
    PROVE  /\ s \o (Lit(c) \o p) \in Seq(T)
           /\ ToSet(s \o (Lit(c) \o p)) = ToSet(s) \cup {Sign(c)} \cup ToSet(p)
<1> DEFINE v == Lit(c) \o p
<1>1. Lit(c) \in Seq(T) /\ ToSet(Lit(c)) = {Sign(c)}
  BY OneLexeme, Zenon DEF Lit
<1>2. v \in Seq(T) /\ ToSet(v) = ToSet(Lit(c)) \cup ToSet(p)
  BY <1>1, ConcatIsBoth
<1> HIDE DEF v
<1>3. s \o v \in Seq(T) /\ ToSet(s \o v) = ToSet(s) \cup ToSet(v)
  BY <1>2, ConcatIsBoth
<1> QED
  BY <1>1, <1>2, <1>3 DEF v

LEMMA FrontOfTwo ==
    ASSUME NEW a, NEW b
    PROVE  Front(<<a, b>>) = <<a>>
<1> DEFINE T == {a, b}
           s == <<a>>
           t == <<a, b>>
<1>1. s \in Seq(T) /\ t \in Seq(T) /\ Len(s) = 1 /\ Len(t) = 2 /\ s[1] = a /\ t[1] = a
  OBVIOUS
<1>2. Front(t) = Part(t, 1, Len(t) - 1)
  BY DEF Front, Part
<1> HIDE DEF T, s, t
<1>3. Part(s, 1, Len(s)) = s
  BY <1>1, PartWhole
<1>4. 0 \in Nat /\ 1 \in Nat \ {0} /\ 1 \in Int /\ 1 = 0 + 1 /\ Len(t) - 1 = 1
  BY <1>1
<1>5. Agrees(s, 1, 1, t, 0)
  BY <1>1 DEF Agrees
<1>6. Part(s, 1, 1) = Part(t, 1, 1)
  BY <1>1, <1>4, <1>5, PartsAgree
<1> QED
  BY <1>1, <1>2, <1>3, <1>4, <1>6 DEF s, t

\* The prefix of a text, and the rest.
LEMMA PrefixAndRest ==
    ASSUME NEW T, NEW p \in Seq(T), NEW b \in Seq(T), Len(p) = 2, b # <<>>
    PROVE  Len(p \o b) >= 2 /\ SubSeq(p \o b, 1, 2) = p /\ SubSeq(p \o b, 3, Len(p \o b)) = b
<1>1. Len(b) \in Nat /\ Len(b) # 0
  BY EmptySeq, LenProperties
<1>2. Len(p \o b) = Len(p) + Len(b)
  BY ConcatProperties
<1>3. SubSeq(p \o b, 1, 2) = SubSeq(p, 1, 2)
  <2>1. 1 \in 1..Len(p) /\ 2 \in 1..Len(p)
    OBVIOUS
  <2> QED
    BY <2>1, SubSeqOfConcat1, Zenon
<1>4. SubSeq(p, 1, 2) = p
  BY SubSeqFull
<1>5. SubSeq(p \o b, 3, 2 + Len(b)) = SubSeq(b, 3 - Len(p), (2 + Len(b)) - Len(p))
  <2>1. 3 \in (Len(p) + 1)..(Len(p) + Len(b)) /\ 2 + Len(b) \in (Len(p) + 1)..(Len(p) + Len(b))
    BY <1>1
  <2>2. \A m, n \in (Len(p) + 1)..(Len(p) + Len(b)) :
            SubSeq(p \o b, m, n) = SubSeq(b, m - Len(p), n - Len(p))
    BY SubSeqOfConcat2, Zenon
  <2> QED
    BY <2>1, <2>2, Zenon
<1>6. 3 - Len(p) = 1 /\ (2 + Len(b)) - Len(p) = Len(b)
  BY <1>1
<1>7. SubSeq(b, 1, Len(b)) = b
  BY SubSeqFull
<1>8. Len(p \o b) = 2 + Len(b) /\ 2 + Len(b) >= 2
  BY <1>1, <1>2
<1> QED
  BY <1>3, <1>4, <1>5, <1>6, <1>7, <1>8

LEMMA PairOf ==
    ASSUME NEW T, NEW a \in T, NEW b \in T
    PROVE  <<a>> \o <<b>> \in Seq(T) /\ Len(<<a>> \o <<b>>) = 2 /\ (<<a>> \o <<b>>)[2] = b
<1> DEFINE s == <<a>>
           p == <<b>>
           t == s \o p
<1>1. s \in Seq(T) /\ p \in Seq(T) /\ Len(s) = 1 /\ Len(p) = 1 /\ p[1] = b
  OBVIOUS
<1> HIDE DEF s, p
<1>2. /\ t \in Seq(T) /\ Len(t) = Len(s) + Len(p)
      /\ \A i \in 1..(Len(s) + Len(p)) : t[i] = IF i <= Len(s) THEN s[i] ELSE p[i - Len(s)]
  BY <1>1, ConcatProperties
<1> HIDE DEF t
<1>3. 1 + 1 = 2 /\ 2 \in 1..(1 + 1) /\ ~(2 <= 1) /\ 2 - 1 = 1
  OBVIOUS
<1>4. t \in Seq(T) /\ Len(t) = 2 /\ t[2] = b
  BY <1>1, <1>2, <1>3
<1> QED
  BY <1>4 DEF t, s, p

-----------------------------------------------------------------------------
(* Splitting. *)

LEMMA SplitParts ==
    ASSUME NEW T, NEW t \in Seq(T), NEW c
    PROVE  \E n \in Nat \ {0} : DOMAIN Split(t, c) = 1..n
<1> DEFINE inner == {i \in DOMAIN t : t[i] = Sign(c)}
           cuts == {0, Len(t) + 1} \cup inner
           n == Cardinality(cuts) - 1
<1>1. Len(t) \in Nat /\ DOMAIN t = 1..Len(t)
  BY LenProperties
<1>2. IsFiniteSet(inner)
  <2>1. IsFiniteSet(1..Len(t))
    <3>1. 1 \in Int /\ Len(t) \in Int
      BY <1>1
    <3> QED
      BY <3>1, FS_Interval
  <2>2. inner \subseteq 1..Len(t)
    BY <1>1
  <2> QED
    BY <2>1, <2>2, FS_Subset
<1> HIDE DEF inner
<1>4. {0, Len(t) + 1} \subseteq cuts
  OBVIOUS
<1>5. IsFiniteSet({0, Len(t) + 1}) /\ Cardinality({0, Len(t) + 1}) = 2
  <2>1. 0 # Len(t) + 1
    BY <1>1
  <2>2. IsFiniteSet({0}) /\ Cardinality({0}) = 1
    BY FS_Singleton
  <2>3. {0} \cup {Len(t) + 1} = {0, Len(t) + 1}
    OBVIOUS
  <2>4. Len(t) + 1 \notin {0}
    BY <2>1
  <2>5. IsFiniteSet({0} \cup {Len(t) + 1}) /\ Cardinality({0} \cup {Len(t) + 1}) = 1 + 1
    BY <2>2, <2>4, FS_AddElement
  <2>6. 1 + 1 = 2
    OBVIOUS
  <2> QED
    BY <2>3, <2>5, <2>6, Zenon
<1>3. IsFiniteSet(cuts)
  BY <1>2, <1>5, FS_Union
<1> HIDE DEF cuts
<1>6. Cardinality(cuts) \in Nat /\ Cardinality(cuts) >= 2
  BY <1>3, <1>4, <1>5, FS_Subset, FS_CardinalityType
<1>7. n \in Nat \ {0}
  BY <1>6
<1>8. DOMAIN Split(t, c) = 1..n
  BY DEF Split, cuts, inner
<1> QED
  BY <1>7, <1>8

\* Where a text is split: before it, behind it, and at each c.
Cuts(t, c) == {0, Len(t) + 1} \cup {i \in DOMAIN t : t[i] = Sign(c)}

LEMMA SplitIs ==
    ASSUME NEW t, NEW c
    PROVE  Split(t, c) = [k \in 1..(Cardinality(Cuts(t, c)) - 1) |->
                             Part(t, Nth(Cuts(t, c), k) + 1, Nth(Cuts(t, c), k + 1) - 1)]
BY DEF Split, Cuts, Part

LEMMA CutsType ==
    ASSUME NEW T, NEW t \in Seq(T), NEW c
    PROVE  /\ Len(t) \in Nat
           /\ Cuts(t, c) \in SUBSET Nat /\ Cuts(t, c) \subseteq 0..(Len(t) + 1)
           /\ IsFiniteSet(Cuts(t, c)) /\ Cardinality(Cuts(t, c)) \in Nat
<1>1. Len(t) \in Nat /\ DOMAIN t = 1..Len(t)
  BY LenProperties
<1>2. Cuts(t, c) \subseteq 0..(Len(t) + 1)
  BY <1>1 DEF Cuts
<1>3. IsFiniteSet(0..(Len(t) + 1))
  <2>1. 0 \in Int /\ Len(t) + 1 \in Int
    BY <1>1
  <2> QED
    BY <2>1, FS_Interval
<1>4. IsFiniteSet(Cuts(t, c))
  BY <1>2, <1>3, FS_Subset
<1>5. 0..(Len(t) + 1) \subseteq Nat
  BY <1>1
<1> QED
  BY <1>1, <1>2, <1>4, <1>5, FS_CardinalityType

\* The largest of some numbers is the last of them.
LEMMA NthOfLast ==
    ASSUME NEW S \in SUBSET Nat, IsFiniteSet(S), NEW m \in S, \A i \in S : i <= m
    PROVE  Nth(S, Cardinality(S)) = m
<1>1. Below(S, m) = S \ {m}
  <2>1. m \in Nat /\ \A i \in S : i \in Nat
    OBVIOUS
  <2>2. \A i \in S : i < m <=> i # m
    BY <2>1
  <2> QED
    BY <2>2 DEF Below
<1>2. IsFiniteSet(S \ {m}) /\ Cardinality(S \ {m}) = Cardinality(S) - 1
  BY FS_RemoveElement
<1> QED
  BY <1>1, <1>2, NthIs

\* A text without a c is one part.
LEMMA SplitOne ==
    ASSUME NEW T, NEW t \in Seq(T), NEW c, Sign(c) \notin ToSet(t)
    PROVE  Split(t, c) = <<t>>
<1> DEFINE S == Cuts(t, c)
           n == Len(t) + 1
<1>1. /\ Len(t) \in Nat /\ n \in Nat /\ n # 0 /\ n - 1 = Len(t)
      /\ S \in SUBSET Nat /\ IsFiniteSet(S)
  BY CutsType
<1>2. S = {0, n}
  BY DEF Cuts, ToSet
<1> HIDE DEF S, n
<1>3. Cardinality(S) = 2
  <2>1. IsFiniteSet({0}) /\ Cardinality({0}) = 1
    BY FS_Singleton
  <2>2. {0} \cup {n} = S /\ n \notin {0}
    BY <1>1, <1>2
  <2>3. Cardinality({0} \cup {n}) = 1 + 1
    BY <2>1, <2>2, FS_AddElement
  <2>4. 1 + 1 = 2
    OBVIOUS
  <2> QED
    BY <2>2, <2>3, <2>4, Zenon
<1>4. Nth(S, 1) = 0
  <2>1. Below(S, 0) = {}
    BY <1>1, <1>2 DEF Below
  <2>2. Cardinality(Below(S, 0)) = 1 - 1
    <3>1. Cardinality({}) = 0 /\ 1 - 1 = 0
      BY FS_EmptySet
    <3> QED
      BY <2>1, <3>1
  <2> QED
    BY <1>1, <1>2, <2>2, NthIs
<1>5. Nth(S, 2) = n
  <2>1. n \in S /\ \A i \in S : i <= n
    BY <1>1, <1>2
  <2> QED
    BY <1>1, <1>3, <2>1, NthOfLast
<1>6. Split(t, c) = [k \in 1..(Cardinality(S) - 1) |-> Part(t, Nth(S, k) + 1, Nth(S, k + 1) - 1)]
  BY SplitIs DEF S
<1>7. Cardinality(S) - 1 = 1
  BY <1>3
<1>8. Part(t, 0 + 1, n - 1) = t
  BY <1>1, PartWhole
<1>9. Split(t, c) = [k \in 1..1 |-> Part(t, Nth(S, k) + 1, Nth(S, k + 1) - 1)]
  BY <1>6, <1>7
<1>10. \A k \in 1..1 : Part(t, Nth(S, k) + 1, Nth(S, k + 1) - 1) = t
  <2>1. \A k \in 1..1 : k = 1 /\ k + 1 = 2
    OBVIOUS
  <2> QED
    BY <1>4, <1>5, <1>8, <2>1
<1> DEFINE p(k) == Part(t, Nth(S, k) + 1, Nth(S, k + 1) - 1)
<1> HIDE DEF p
<1>11. [k \in 1..1 |-> p(k)] = <<t>>
  <2>1. \A k \in 1..1 : p(k) = t
    BY <1>10 DEF p
  <2> QED
    BY <2>1
<1> QED
  BY <1>9, <1>11 DEF p

\* Two texts with a c between.
LEMMA WithBetween ==
    ASSUME NEW T, NEW s \in Seq(T), NEW p \in Seq(T), NEW c, Sign(c) \in T
    PROVE  LET l == Len(s)
               m == Len(p)
               u == s \o (Lit(c) \o p)
           IN  /\ u \in Seq(T) /\ Len(u) = l + (1 + m) /\ DOMAIN u = 1..(l + (1 + m))
               /\ \A i \in 1..l : u[i] = s[i]
               /\ u[l + 1] = Sign(c)
               /\ \A i \in 1..m : u[(l + 1) + i] = p[i]
<1> DEFINE l == Len(s)
           m == Len(p)
           v == Lit(c) \o p
           u == s \o v
<1>1. /\ l \in Nat /\ m \in Nat /\ DOMAIN s = 1..l /\ DOMAIN p = 1..m
      /\ \A i \in 1..l : s[i] \in T
      /\ \A i \in 1..m : p[i] \in T 
  BY LenProperties, ElementOfSeq
<1>2. /\ v \in Seq(T) /\ Len(v) = 1 + m
      /\ \A i \in 1..(1 + m) : v[i] = IF i <= 1 THEN Sign(c) ELSE p[i - 1]
  <2>1. Lit(c) \in Seq(T) /\ Len(Lit(c)) = 1 /\ Lit(c)[1] = Sign(c)
    BY DEF Lit
  <2> HIDE DEF m
  <2>2. /\ Lit(c) \o p \in Seq(T) /\ Len(Lit(c) \o p) = Len(Lit(c)) + m
        /\ \A i \in 1..(Len(Lit(c)) + m) :
              (Lit(c) \o p)[i] = IF i <= Len(Lit(c)) THEN Lit(c)[i] ELSE p[i - Len(Lit(c))]
    BY <2>1, ConcatProperties DEF m
  <2> QED
    BY <1>1, <2>1, <2>2
<1> HIDE DEF l, m, v
<1>3. /\ u \in Seq(T) /\ Len(u) = l + (1 + m)
      /\ \A i \in 1..(l + (1 + m)) : u[i] = IF i <= l THEN s[i] ELSE v[i - l]
  <2>1. /\ u \in Seq(T) /\ Len(u) = l + Len(v)
        /\ \A i \in 1..(l + Len(v)) : u[i] = IF i <= l THEN s[i] ELSE v[i - l]
    BY <1>2, ConcatProperties DEF l
  <2> HIDE DEF u
  <2> QED
    BY <1>2, <2>1
<1> HIDE DEF u
<1>4. /\ DOMAIN u = 1..(l + (1 + m))
      /\ \A i \in 1..l : u[i] = s[i]
      /\ u[l + 1] = Sign(c)
      /\ \A i \in 1..m : u[(l + 1) + i] = p[i]
  <2>1. DOMAIN u = 1..(l + (1 + m))
    BY <1>3, LenProperties
  <2>2. \A i \in 1..l : i \in 1..(l + (1 + m)) /\ i <= l
    BY <1>1
  <2>3. /\ l + 1 \in 1..(l + (1 + m)) /\ ~(l + 1 <= l) /\ (l + 1) - l = 1
        /\ 1 \in 1..(1 + m) /\ 1 <= 1
    BY <1>1
  <2>4. \A i \in 1..m : /\ (l + 1) + i \in 1..(l + (1 + m)) /\ ~((l + 1) + i <= l)
                        /\ ((l + 1) + i) - l = 1 + i /\ 1 + i \in 1..(1 + m)
                        /\ ~(1 + i <= 1) /\ (1 + i) - 1 = i
    BY <1>1
  <2>5. u[l + 1] = Sign(c)
    BY <1>2, <1>3, <2>3
  <2>6. ASSUME NEW i \in 1..m PROVE u[(l + 1) + i] = p[i]
    <3>1. u[(l + 1) + i] = v[1 + i]
      BY <1>3, <2>4
    <3> QED
      BY <1>2, <2>4, <3>1
  <2> QED
    BY <1>3, <2>1, <2>2, <2>5, <2>6
<1> QED
  BY <1>3, <1>4 DEF l, m, u, v

\* What comes behind a c is one more part, if there is no c in it.
OneMore(parts, more, p) ==
    \E n \in Nat :
        /\ DOMAIN parts = 1..n /\ DOMAIN more = 1..(n + 1)
        /\ \A k \in 1..n : more[k] = parts[k]
        /\ more[n + 1] = p

LEMMA SplitMore ==
    ASSUME NEW T, NEW s \in Seq(T), NEW p \in Seq(T), NEW c, Sign(c) \in T,
           Sign(c) \notin ToSet(p)
    PROVE  /\ s \o (Lit(c) \o p) \in Seq(T)
           /\ OneMore(Split(s, c), Split(s \o (Lit(c) \o p), c), p)
<1> DEFINE l == Len(s)
           m == Len(p)
           u == s \o (Lit(c) \o p)
           S == Cuts(s, c)
           U == Cuts(u, c)
           n == Cardinality(S) - 1
<1>1. /\ l \in Nat /\ m \in Nat /\ DOMAIN s = 1..l /\ DOMAIN p = 1..m
      /\ \A i \in 1..m : p[i] # Sign(c)
  BY LenProperties DEF ToSet
<1>3. u \in Seq(T) /\ Len(u) = l + (1 + m)
  BY WithBetween
<1>4. /\ DOMAIN u = 1..(l + (1 + m))
      /\ \A i \in 1..l : u[i] = s[i]
      /\ u[l + 1] = Sign(c)
      /\ \A i \in 1..m : u[(l + 1) + i] = p[i]
  BY WithBetween
<1> HIDE DEF l, m, u
<1>5. /\ S \in SUBSET Nat /\ S \subseteq 0..(l + 1) /\ IsFiniteSet(S) /\ Cardinality(S) \in Nat
      /\ U \in SUBSET Nat /\ IsFiniteSet(U) /\ Cardinality(U) \in Nat
  BY <1>3, CutsType DEF l
<1> DEFINE z == Len(u) + 1
<1>6. z \in Nat /\ z = l + m + 2 /\ \A i \in S : i < z /\ i <= l + 1
  BY <1>1, <1>3, <1>5
<1>7. U = S \cup {z}
  <2>1. S = {0, l + 1} \cup {i \in 1..l : s[i] = Sign(c)}
    BY <1>1 DEF Cuts, l
  <2>2. U = {0, z} \cup {i \in 1..(l + (1 + m)) : u[i] = Sign(c)}
    BY <1>4 DEF Cuts
  <2> HIDE DEF S, U, z
  <2>3. ASSUME NEW i \in 1..(l + (1 + m))
        PROVE  u[i] = Sign(c) <=> i = l + 1 \/ (i \in 1..l /\ s[i] = Sign(c))
    <3>1. CASE i \in 1..l
      BY <1>1, <1>4, <3>1
    <3>2. CASE i = l + 1
      BY <1>4, <3>2
    <3>3. CASE i \notin 1..l /\ i # l + 1
      <4>1. i - (l + 1) \in 1..m /\ (l + 1) + (i - (l + 1)) = i
        BY <1>1, <3>3
      <4> QED
        BY <1>1, <1>4, <3>3, <4>1
    <3> QED
      BY <3>1, <3>2, <3>3
  <2>4. l + 1 \in 1..(l + (1 + m)) /\ \A i \in 1..l : i \in 1..(l + (1 + m))
    BY <1>1
  <2>5. \A i : i \in U <=> i \in S \/ i = z
    BY <2>1, <2>2, <2>3, <2>4, Zenon
  <2> QED
    BY <2>5
<1> HIDE DEF S, U, z
<1>8. Cardinality(U) = Cardinality(S) + 1
  <2>1. z \notin S
    BY <1>6
  <2> QED
    BY <1>5, <1>7, <2>1, FS_AddElement
<1>9. \A k \in 1..Cardinality(S) : Nth(U, k) = Nth(S, k)
  <2> TAKE k \in 1..Cardinality(S)
  <2> DEFINE i == Nth(S, k)
  <2>1. i \in S /\ Cardinality(Below(S, i)) = k - 1
    BY <1>5, NthExists
  <2> HIDE DEF i
  <2>2. Below(U, i) = Below(S, i)
    <3>1. ~(z < i)
      BY <1>5, <1>6, <2>1
    <3> QED
      BY <1>7, <3>1 DEF Below
  <2>3. i \in U
    BY <1>7, <2>1
  <2> QED
    BY <1>5, <2>1, <2>2, <2>3, NthIs DEF i
<1>10. Nth(S, Cardinality(S)) = l + 1
  <2>1. l + 1 \in S
    BY DEF S, Cuts, l
  <2> QED
    BY <1>5, <1>6, <2>1, NthOfLast
<1>11. Nth(U, Cardinality(U)) = z
  <2>1. \A i \in U : i <= z
    <3>1. \A i \in S : i \in Nat
      BY <1>5
    <3> QED
      BY <1>6, <1>7, <3>1
  <2> QED
    BY <1>5, <1>7, <2>1, NthOfLast
<1>12. n \in Nat /\ n + 1 = Cardinality(S) /\ Cardinality(U) - 1 = n + 1
  <2>1. S # {}
    BY <1>7 DEF S, Cuts
  <2>2. Cardinality(S) # 0
    BY <1>5, <2>1, FS_EmptySet
  <2> QED
    BY <1>5, <1>8, <2>2
<1> HIDE DEF n
<1>13. Split(s, c) = [k \in 1..n |-> Part(s, Nth(S, k) + 1, Nth(S, k + 1) - 1)]
  BY SplitIs DEF n, S
<1>14. Split(u, c) = [k \in 1..(n + 1) |-> Part(u, Nth(U, k) + 1, Nth(U, k + 1) - 1)]
  BY <1>12, SplitIs DEF U
<1>15. ASSUME NEW k \in 1..n
       PROVE  Split(u, c)[k] = Split(s, c)[k]
  <2>1. /\ k \in 1..(n + 1) /\ k + 1 \in 1..Cardinality(S) /\ k \in 1..Cardinality(S)
    BY <1>12
  <2> DEFINE a == Nth(S, k)
             b == Nth(S, k + 1)
  <2>2. a \in S /\ b \in S /\ Nth(U, k) = a /\ Nth(U, k + 1) = b
    BY <1>5, <1>9, <2>1, NthExists
  <2> HIDE DEF a, b
  <2>3. a \in Nat /\ b \in Nat /\ b <= l + 1
    BY <1>5, <1>6, <2>2
  <2>4. Part(s, a + 1, b - 1) = Part(u, 0 + (a + 1), 0 + (b - 1))
    <3>1. a + 1 \in Nat \ {0} /\ b - 1 \in Int /\ b - 1 <= l /\ 0 + (b - 1) <= Len(u)
      BY <1>1, <1>3, <2>3
    <3>2. \A i \in (a + 1)..(b - 1) : i \in 1..l /\ 0 + i = i
      BY <1>1, <2>3
    <3>3. \A i \in (a + 1)..(b - 1) : s[i] = u[0 + i]
      BY <1>4, <3>2
    <3>4. Agrees(s, a + 1, b - 1, u, 0)
      BY <3>1, <3>3 DEF Agrees, l
    <3> QED
      BY <1>3, <3>1, <3>4, PartsAgree
  <2>5. 0 + (a + 1) = a + 1 /\ 0 + (b - 1) = b - 1
    BY <2>3
  <2> QED
    BY <1>13, <1>14, <2>1, <2>2, <2>4, <2>5 DEF a, b
<1>16. Split(u, c)[n + 1] = p
  <2>1. Split(u, c)[n + 1] = Part(u, Nth(U, n + 1) + 1, Nth(U, (n + 1) + 1) - 1)
    <3>1. n + 1 \in 1..(n + 1)
      BY <1>12
    <3> QED
      BY <1>14, <3>1
  <2>2. Nth(U, n + 1) = l + 1
    <3>1. n + 1 \in 1..Cardinality(S)
      BY <1>12
    <3> QED
      BY <1>9, <1>10, <1>12, <3>1
  <2>3. Nth(U, (n + 1) + 1) = z
    BY <1>5, <1>11, <1>12
  <2>4. Part(p, 1, m) = Part(u, (l + 1) + 1, (l + 1) + m)
    <3>1. l + 1 \in Nat /\ 1 \in Nat \ {0} /\ m \in Int /\ m <= Len(p) /\ (l + 1) + m <= Len(u)
      BY <1>1, <1>3 DEF m
    <3>2. Agrees(p, 1, m, u, l + 1)
      BY <1>4, <3>1 DEF Agrees
    <3> QED
      BY <1>3, <3>1, <3>2, PartsAgree
  <2>5. Part(p, 1, m) = p
    BY PartWhole DEF m
  <2>6. z - 1 = (l + 1) + m
    BY <1>1, <1>6
  <2> QED
    BY <2>1, <2>2, <2>3, <2>4, <2>5, <2>6
<1>17. DOMAIN Split(s, c) = 1..n /\ DOMAIN Split(u, c) = 1..(n + 1)
  BY <1>13, <1>14
<1> QED
  BY <1>3, <1>12, <1>15, <1>16, <1>17 DEF OneMore, u

\* What is put together with c between is taken apart again, if no part has a c.
LEMMA SplitJoin ==
    ASSUME NEW T, NEW parts \in Seq(Seq(T)), NEW c, Sign(c) \in T, parts # <<>>,
           \A i \in 1..Len(parts) : Sign(c) \notin ToSet(parts[i])
    PROVE  Join(parts, c) \in Seq(T) /\ Split(Join(parts, c), c) = parts
<1> DEFINE S == Seq(T)
           n == Len(parts)
           seqs == [i \in DOMAIN parts |-> IF i = 1 THEN parts[i] ELSE Lit(c) \o parts[i]]
<1>1. n \in Nat \ {0} /\ DOMAIN parts = 1..n
  <2>1. n \in Nat /\ DOMAIN parts = 1..n /\ n # 0
    BY LenProperties, EmptySeq
  <2> QED
    BY <2>1
<1>2. \A i \in 1..n : parts[i] \in S
  BY ElementOfSeq
<1>3. Lit(c) \in S
  BY DEF Lit
<1> HIDE DEF S
<1>4. seqs = [i \in 1..n |-> IF i = 1 THEN parts[i] ELSE Lit(c) \o parts[i]]
  BY <1>1
<1>5. Join(parts, c) = FlattenSeq(seqs)
  BY DEF Join
<1> HIDE DEF seqs
<1>6. \A i \in 1..n : seqs[i] \in S
  <2> SUFFICES ASSUME NEW i \in 1..n
               PROVE  seqs[i] \in S
    OBVIOUS
  <2>1. parts[i] \in S /\ Lit(c) \o parts[i] \in S
    BY <1>2, <1>3, ConcatProperties DEF S
  <2> QED
    BY <1>4, <2>1
<1>7. /\ DOMAIN seqs = 1..n /\ Len(seqs) = n
      /\ seqs # <<>>
  <2>1. seqs \in Seq(S) /\ DOMAIN seqs = 1..n
    <3>1. DOMAIN seqs = 1..n /\ seqs \in [1..n -> S]
      BY <1>4, <1>6
    <3>2. n \in Nat
      BY <1>1
    <3> HIDE DEF n
    <3>3. seqs \in Seq(S)
      BY <3>1, <3>2
    <3> QED
      BY <3>1, <3>3
  <2>2. Len(seqs) = n
    BY <1>1, <2>1, LenProperties
  <2> QED
    BY <1>1, <2>1, <2>2, EmptySeq
<1> DEFINE f == CHOOSE f : IsFlat(f, seqs, n)
<1>8. FlattenSeq(seqs) = f[n]
  BY <1>7 DEF FlattenSeq, IsFlat
<1>9. IsFlat(f, seqs, n)
  <2>1. \E g : IsFlat(g, seqs, n)
    BY <1>1, <1>6, FlatExists DEF S
  <2> QED
    BY <2>1
<1> HIDE DEF f, n
<1>10. \A i \in 1..n : f[i] = IF i = 1 THEN parts[1] ELSE f[i - 1] \o (Lit(c) \o parts[i])
  <2>1. \A i \in 1..n : f[i] = IF i = 1 THEN seqs[i] ELSE f[i - 1] \o seqs[i]
    BY <1>9 DEF IsFlat
  <2> QED
    BY <1>4, <2>1
<1> DEFINE Good(k) == /\ f[k] \in Seq(T)
                      /\ DOMAIN Split(f[k], c) = 1..k
                      /\ \A i \in 1..k : Split(f[k], c)[i] = parts[i]
           bad == {k \in 1..n : ~Good(k)}
<1>11. bad = {}
  <2> SUFFICES ASSUME bad # {}
               PROVE  FALSE
    OBVIOUS
  <2>1. bad \in SUBSET Nat /\ bad \subseteq 1..n
    OBVIOUS
  <2>2. IsFiniteSet(bad)
    <3>1. IsFiniteSet(1..n)
      BY <1>1, FS_Interval
    <3> QED
      BY <2>1, <3>1, FS_Subset
  <2> HIDE DEF bad
  <2>3. PICK m \in bad : \A k \in bad : m <= k
    BY <2>1, <2>2, Smallest
  <2>4. m \in 1..n /\ ~Good(m)
    BY DEF bad
  <2> DEFINE p == parts[m]
  <2>5. p \in Seq(T) /\ Sign(c) \notin ToSet(p)
    BY <1>2, <2>4 DEF S, n
  <2>6. CASE m = 1
    <3>1. f[1] = p
      BY <1>10, <2>4, <2>6
    <3> HIDE DEF p
    <3>2. Split(p, c) = <<p>>
      BY <2>5, SplitOne
    <3>3. DOMAIN <<p>> = 1..1 /\ \A i \in 1..1 : <<p>>[i] = p /\ i = 1
      OBVIOUS
    <3>4. Good(1)
      BY <2>5, <2>6, <3>1, <3>2, <3>3 DEF p
    <3> QED
      BY <2>4, <2>6, <3>4
  <2>7. CASE m # 1
    <3> DEFINE k == m - 1
               s == f[k]
    <3>1. k \in 1..n /\ k \in Nat /\ ~(m <= k) /\ k + 1 = m
      BY <1>1, <2>4, <2>7
    <3>2. f[m] = s \o (Lit(c) \o p)
      BY <1>10, <2>4, <2>7
    <3> HIDE DEF k
    <3>3. Good(k)
      BY <2>3, <3>1 DEF bad
    <3>4. s \in Seq(T) /\ DOMAIN Split(s, c) = 1..k /\ \A i \in 1..k : Split(s, c)[i] = parts[i]
      BY <3>3
    <3> HIDE DEF s, p
    <3> DEFINE u == s \o (Lit(c) \o p)
    <3>5. u \in Seq(T)
      BY <2>5, <3>4, SplitMore
    <3>6. PICK l \in Nat :
              /\ DOMAIN Split(s, c) = 1..l
              /\ DOMAIN Split(u, c) = 1..(l + 1)
              /\ \A i \in 1..l : Split(u, c)[i] = Split(s, c)[i]
              /\ Split(u, c)[l + 1] = p
      <4>1. OneMore(Split(s, c), Split(u, c), p)
        BY <2>5, <3>4, SplitMore
      <4> QED
        BY <4>1 DEF OneMore
    <3>7. l = k
      <4>1. \A i : i \in 1..l <=> i \in 1..k
        BY <3>4, <3>6, Zenon
      <4>2. (l \in 1..l <=> l \in 1..k) /\ (k \in 1..l <=> k \in 1..k)
        BY <4>1
      <4> QED
        BY <3>1, <4>2
    <3> HIDE DEF u
    <3>8. \A i \in 1..m : Split(u, c)[i] = parts[i]
      <4>1. \A i \in 1..m : i \in 1..k \/ i = k + 1
        BY <3>1
      <4> QED
        BY <3>1, <3>4, <3>6, <3>7, <4>1 DEF p
    <3>9. DOMAIN Split(u, c) = 1..m
      BY <3>1, <3>6, <3>7
    <3>10. Good(m)
      BY <3>2, <3>5, <3>8, <3>9 DEF u
    <3> QED
      BY <2>4, <3>10
  <2> QED
    BY <2>6, <2>7
<1>12. Good(n)
  BY <1>1, <1>11
<1>13. Split(f[n], c) = parts
  <2>1. Split(f[n], c) = [i \in 1..n |-> Split(f[n], c)[i]]
    <3>1. \A t : Split(t, c) = [i \in DOMAIN Split(t, c) |-> Split(t, c)[i]]
      BY DEF Split
    <3> QED
      BY <1>12, <3>1
  <2>2. parts = [i \in 1..n |-> parts[i]]
    BY <1>1
  <2> QED
    BY <1>12, <2>1, <2>2
<1> QED
  BY <1>5, <1>8, <1>12, <1>13

\* A text with a c has more parts than one.
LEMMA SplitSeveral ==
    ASSUME NEW T, NEW t \in Seq(T), NEW c, Sign(c) \in ToSet(t),
           NEW n \in Nat, DOMAIN Split(t, c) = 1..n
    PROVE  n # 1
<1> DEFINE S == Cuts(t, c)
           l == Len(t) + 1
<1>1. PICK i \in DOMAIN t : t[i] = Sign(c)
  BY DEF ToSet
<1>2. Len(t) \in Nat /\ DOMAIN t = 1..Len(t)
  BY LenProperties
<1>3. 0 \in S /\ l \in S /\ i \in S
  BY <1>1 DEF Cuts
<1>4. IsFiniteSet(S) /\ Cardinality(S) \in Nat
  BY CutsType
<1>5. DOMAIN Split(t, c) = 1..(Cardinality(S) - 1)
  BY SplitIs
<1>6. i # 0 /\ i # l /\ l # 0
  BY <1>2
<1> HIDE DEF S, l
<1> DEFINE A == S \ {0}
           B == A \ {l}
           C == B \ {i}
<1>7. IsFiniteSet(A) /\ Cardinality(A) = Cardinality(S) - 1
  BY <1>3, <1>4, FS_RemoveElement
<1>8. l \in A
  BY <1>3, <1>6
<1>9. i \in B
  BY <1>3, <1>6
<1> HIDE DEF A
<1>10. IsFiniteSet(B) /\ Cardinality(B) = Cardinality(A) - 1
  BY <1>7, <1>8, FS_RemoveElement
<1> HIDE DEF B
<1>11. IsFiniteSet(C) /\ Cardinality(C) = Cardinality(B) - 1
  BY <1>9, <1>10, FS_RemoveElement
<1> HIDE DEF C
<1>12. Cardinality(C) \in Nat
  BY <1>11, FS_CardinalityType
<1>13. Cardinality(S) >= 3
  BY <1>4, <1>7, <1>10, <1>11, <1>12
<1>14. SUFFICES ASSUME n = 1
                PROVE  FALSE
  OBVIOUS
<1>15. 2 \in 1..(Cardinality(S) - 1)
  BY <1>4, <1>13
<1>16. 2 \in 1..1
  BY <1>5, <1>14, <1>15
<1> QED
  BY <1>16

\* A text splits into texts, at least one.
LEMMA SplitLen ==
    ASSUME NEW T, NEW t \in Seq(T), NEW c
    PROVE  \E n \in Nat \ {0} : /\ DOMAIN Split(t, c) = 1..n /\ Len(Split(t, c)) = n
                                /\ \A i \in 1..n : Split(t, c)[i] \in Seq(T)
<1> DEFINE S == Cuts(t, c)
           m == Cardinality(S) - 1
<1>1. PICK n \in Nat \ {0} : DOMAIN Split(t, c) = 1..n
  BY SplitParts
<1>2. /\ Len(t) \in Nat /\ S \in SUBSET Nat /\ S \subseteq 0..(Len(t) + 1)
      /\ IsFiniteSet(S) /\ Cardinality(S) \in Nat
  BY CutsType
<1>3. Split(t, c) = [k \in 1..m |-> Part(t, Nth(S, k) + 1, Nth(S, k + 1) - 1)]
  BY SplitIs
<1> HIDE DEF S, m
<1>4. 1..m = 1..n /\ m \in Int
  <2>1. m \in Int
    BY <1>2 DEF m
  <2> QED
    BY <1>1, <1>3, <2>1
<1>5. m = n
  <2>1. n \in 1..n /\ n + 1 \notin 1..n
    OBVIOUS
  <2>2. n \in 1..m /\ ~(n + 1 \in 1..m)
    BY <1>4, <2>1
  <2> QED
    BY <1>4, <2>2
<1>6. Len(Split(t, c)) = n
  <2>1. m \in Nat
    BY <1>5
  <2> QED
    BY <1>3, <1>5, <2>1
<1>7. ASSUME NEW i \in 1..n
      PROVE  Split(t, c)[i] \in Seq(T)
  <2>1. Split(t, c)[i] = Part(t, Nth(S, i) + 1, Nth(S, i + 1) - 1)
    BY <1>3, <1>5, <1>7
  <2>2. i \in 1..Cardinality(S) /\ i + 1 \in 1..Cardinality(S)
    BY <1>2, <1>5, <1>7 DEF m
  <2>3. Nth(S, i) \in S /\ Nth(S, i + 1) \in S
    BY <1>2, <2>2, NthExists
  <2>4. \A a \in Nat, b \in 0..(Len(t) + 1) : Part(t, a + 1, b - 1) \in Seq(T)
    <3> TAKE a \in Nat, b \in 0..(Len(t) + 1)
    <3>1. \A j \in (a + 1)..(b - 1) : t[j] \in T
      <4> TAKE j \in (a + 1)..(b - 1)
      <4>1. j \in 1..Len(t)
        BY <1>2
      <4> QED
        BY <4>1, ElementOfSeq
    <3>2. a + 1 \in Int /\ b - 1 \in Int
      BY <1>2
    <3> QED
      BY <3>1, <3>2, SubSeqProperties DEF Part
  <2> QED
    BY <1>2, <2>1, <2>3, <2>4
<1> QED
  BY <1>1, <1>6, <1>7

\* A text joined of three parts is split into them.
LEMMA ThreeParts ==
    ASSUME NEW T, NEW x \in Seq(T), NEW y \in Seq(T), NEW z \in Seq(T), NEW c, Sign(c) \in T,
           Sign(c) \notin ToSet(x), Sign(c) \notin ToSet(y), Sign(c) \notin ToSet(z)
    PROVE  LET t == (x \o (Lit(c) \o y)) \o (Lit(c) \o z)
           IN  t \in Seq(T) /\ Split(t, c) = <<x, y, z>>
<1> DEFINE u == x \o (Lit(c) \o y)
           t == u \o (Lit(c) \o z)
<1>1. Split(x, c) = <<x>>
  BY SplitOne
<1>2. u \in Seq(T) /\ OneMore(Split(x, c), Split(u, c), y)
  BY SplitMore
<1> HIDE DEF u
<1>3. t \in Seq(T) /\ OneMore(Split(u, c), Split(t, c), z)
  BY <1>2, SplitMore
<1> HIDE DEF t
<1> DEFINE su == Split(u, c)
           st == Split(t, c)
<1>4. DOMAIN <<x>> = 1..1 /\ <<x>>[1] = x
  OBVIOUS
<1>5. DOMAIN su = 1..2 /\ su[1] = x /\ su[2] = y
  <2>1. PICK n \in Nat : /\ DOMAIN <<x>> = 1..n /\ DOMAIN su = 1..(n + 1)
                         /\ \A k \in 1..n : su[k] = <<x>>[k]
                         /\ su[n + 1] = y
    BY <1>1, <1>2 DEF OneMore
  <2>2. n = 1
    <3>1. 1..n = 1..1
      BY <1>4, <2>1
    <3> QED
      BY <3>1
  <2> HIDE DEF su
  <2>3. 1 + 1 = 2
    OBVIOUS
  <2> QED
    BY <1>4, <2>1, <2>2, <2>3
<1>6. DOMAIN st = 1..3 /\ st[1] = x /\ st[2] = y /\ st[3] = z
  <2>1. PICK n \in Nat : /\ DOMAIN su = 1..n /\ DOMAIN st = 1..(n + 1)
                         /\ \A k \in 1..n : st[k] = su[k]
                         /\ st[n + 1] = z
    BY <1>3 DEF OneMore
  <2>2. n = 2
    <3>1. 1..n = 1..2
      BY <1>5, <2>1
    <3> QED
      BY <3>1
  <2> HIDE DEF su, st
  <2>3. 2 + 1 = 3
    OBVIOUS
  <2> QED
    BY <1>5, <2>1, <2>2, <2>3
<1>7. st = <<x, y, z>>
  <2>1. st = [i \in 1..3 |-> st[i]]
    BY <1>6 DEF Split
  <2> HIDE DEF st
  <2> QED
    BY <1>6, <2>1
<1> QED
  BY <1>3, <1>7 DEF t, u

-----------------------------------------------------------------------------
(* Splitting once, and numbers. *)

LEMMA SplitOnceParts ==
    ASSUME NEW T, NEW t \in Seq(T), NEW c
    PROVE  SplitOnce(t, c)[1] \in Seq(T)
<1> DEFINE cuts == {i \in DOMAIN t : t[i] = Sign(c)}
           first == CHOOSE i \in cuts : \A j \in cuts : i <= j
           before == SubSeq(t, 1, first - 1)
           after == SubSeq(t, first + 1, Len(t))
<1>1. SplitOnce(t, c) = IF cuts = {} THEN <<t>> ELSE <<before, after>>
  BY DEF SplitOnce
<1>2. Len(t) \in Nat /\ DOMAIN t = 1..Len(t)
  BY LenProperties
<1>3. ASSUME cuts # {}
      PROVE  before \in Seq(T)
  <2>1. cuts \in SUBSET Nat /\ IsFiniteSet(cuts)
    <3>1. IsFiniteSet(1..Len(t))
      <4>1. 1 \in Int /\ Len(t) \in Int
        BY <1>2
      <4> QED
        BY <4>1, FS_Interval
    <3>2. cuts \subseteq 1..Len(t)
      BY <1>2
    <3> HIDE DEF cuts
    <3>3. cuts \in SUBSET Nat
      BY <1>2, <3>2
    <3> QED
      BY <3>1, <3>2, <3>3, FS_Subset
  <2>2. first \in cuts
    <3> HIDE DEF cuts
    <3>1. \E i \in cuts : \A j \in cuts : i <= j
      BY <1>3, <2>1, Smallest
    <3> QED
      BY <3>1
  <2>3. first \in 1..Len(t)
    BY <1>2, <2>2
  <2> HIDE DEF first
  <2>4. \A i \in 1..(first - 1) : t[i] \in T
    BY <1>2, <2>3, ElementOfSeq
  <2> QED
    BY <1>2, <2>3, <2>4, SubSeqProperties
<1> HIDE DEF cuts, before, after
<1> QED
  BY <1>1, <1>3

\* What is read of a text is an entry that Python could build too.
LEMMA SplitOnceForms ==
    ASSUME NEW t, NEW c
    PROVE  SplitOnce(t, c) = <<t>> \/ \E a, b : SplitOnce(t, c) = <<a, b>>
<1> DEFINE cuts == {i \in DOMAIN t : t[i] = Sign(c)}
           first == CHOOSE i \in cuts : \A j \in cuts : i <= j
           before == SubSeq(t, 1, first - 1)
           after == SubSeq(t, first + 1, Len(t))
<1>1. SplitOnce(t, c) = IF cuts = {} THEN <<t>> ELSE <<before, after>>
  BY DEF SplitOnce
<1> HIDE DEF cuts, before, after
<1>2. CASE cuts = {}
  BY <1>1, <1>2
<1>3. CASE cuts # {}
  <2>1. SplitOnce(t, c) = <<before, after>>
    BY <1>1, <1>3
  <2> QED
    BY <2>1
<1> QED
  BY <1>2, <1>3

LEMMA SplitOnceNone ==
    ASSUME NEW t, NEW c, Sign(c) \notin ToSet(t)
    PROVE  SplitOnce(t, c) = <<t>>
<1> DEFINE cuts == {i \in DOMAIN t : t[i] = Sign(c)}
<1>1. cuts = {}
  BY DEF ToSet
<1> QED
  BY <1>1 DEF SplitOnce

\* A text that is not split is its own first and last part.
LEMMA OnePart ==
    ASSUME NEW t, NEW c, NEW u, SplitOnce(t, c) = <<u>>
    PROVE  u = t
<1>1. \A a, b : <<a, b>> # <<u>>
  BY Zenon
<1> QED
  BY <1>1, SplitOnceForms

LEMMA SplitOnceAt ==
    ASSUME NEW T, NEW s \in Seq(T), NEW p \in Seq(T), NEW c, Sign(c) \in T,
           Sign(c) \notin ToSet(s)
    PROVE  SplitOnce(s \o (Lit(c) \o p), c) = <<s, p>>
<1> DEFINE l == Len(s)
           m == Len(p)
           u == s \o (Lit(c) \o p)
           cuts == {i \in DOMAIN u : u[i] = Sign(c)}
           first == CHOOSE i \in cuts : \A j \in cuts : i <= j
<1>1. /\ l \in Nat /\ m \in Nat /\ DOMAIN s = 1..l
      /\ \A i \in 1..l : s[i] # Sign(c)
  BY LenProperties DEF ToSet
<1>2. u \in Seq(T) /\ Len(u) = l + (1 + m)
  BY WithBetween
<1>3. /\ DOMAIN u = 1..(l + (1 + m))
      /\ \A i \in 1..l : u[i] = s[i]
      /\ u[l + 1] = Sign(c)
      /\ \A i \in 1..m : u[(l + 1) + i] = p[i]
  BY WithBetween
<1>4. SplitOnce(u, c) = IF cuts = {} THEN <<u>>
                        ELSE <<Part(u, 1, first - 1), Part(u, first + 1, Len(u))>>
  BY DEF SplitOnce, Part
<1> HIDE DEF l, m, u
<1>5. l + 1 \in cuts /\ \A j \in cuts : j \in Nat /\ l + 1 <= j
  <2>1. l + 1 \in 1..(l + (1 + m))
    BY <1>1
  <2>2. l + 1 \in cuts
    BY <1>3, <2>1
  <2>3. ASSUME NEW j \in cuts PROVE j \in Nat /\ l + 1 <= j
    <3>1. j \in 1..(l + (1 + m)) /\ u[j] = Sign(c)
      BY <1>3
    <3>2. ~(j \in 1..l)
      BY <1>1, <1>3, <3>1
    <3> QED
      BY <1>1, <3>1, <3>2
  <2> QED
    BY <2>2, <2>3
<1>6. first = l + 1
  <2> HIDE DEF cuts
  <2>1. \A i \in cuts : (\A j \in cuts : i <= j) => i = l + 1
    <3> SUFFICES ASSUME NEW i \in cuts, \A j \in cuts : i <= j
                 PROVE  i = l + 1
      OBVIOUS
    <3>1. i <= l + 1 /\ l + 1 <= i /\ i \in Nat
      BY <1>5
    <3> QED
      BY <1>1, <3>1
  <2>2. \E i \in cuts : \A j \in cuts : i <= j
    BY <1>5
  <2> QED
    BY <2>1, <2>2
<1>7. cuts # {}
  BY <1>5
<1> HIDE DEF cuts, first
<1>8. SplitOnce(u, c) = <<Part(u, 1, l), Part(u, (l + 1) + 1, Len(u))>>
  <2>1. (l + 1) - 1 = l
    BY <1>1
  <2> QED
    BY <1>4, <1>6, <1>7, <2>1
<1>9. Part(s, 1, l) = Part(u, 1, l)
  <2>1. 0 \in Nat /\ 1 \in Nat \ {0} /\ l \in Int /\ 1 = 0 + 1 /\ l = 0 + l
    BY <1>1
  <2>2. Agrees(s, 1, l, u, 0)
    <3>1. l <= Len(s) /\ 0 + l <= Len(u)
      BY <1>1, <1>2 DEF l
    <3>2. \A i \in 1..l : s[i] = u[0 + i]
      BY <1>1, <1>3
    <3> QED
      BY <3>1, <3>2 DEF Agrees
  <2> QED
    BY <1>2, <2>1, <2>2, PartsAgree
<1>10. Part(p, 1, m) = Part(u, (l + 1) + 1, Len(u))
  <2>1. l + 1 \in Nat /\ 1 \in Nat \ {0} /\ m \in Int /\ Len(u) = (l + 1) + m
    BY <1>1, <1>2
  <2>2. Agrees(p, 1, m, u, l + 1)
    <3>1. m <= Len(p) /\ (l + 1) + m <= Len(u)
      BY <1>1, <2>1 DEF m
    <3> QED
      BY <1>3, <3>1 DEF Agrees
  <2> QED
    BY <1>2, <2>1, <2>2, PartsAgree
<1>11. Part(s, 1, l) = s /\ Part(p, 1, m) = p
  BY PartWhole DEF l, m
<1> QED
  BY <1>8, <1>9, <1>10, <1>11 DEF u

\* The empty text is one empty part.
LEMMA SplitNone ==
    ASSUME NEW c
    PROVE  Split(<<>>, c) = <<<<>>>> /\ SplitOnce(<<>>, c) = <<<<>>>>
<1>1. Sign(c) \notin ToSet(<<>>) /\ <<>> \in Seq({})
  BY DEF ToSet
<1> QED
  BY <1>1, SplitOne, SplitOnceNone

LEMMA UnsignedIsBounded ==
    ASSUME NEW t
    PROVE  U32(t) \subseteq 0..MaxU32
BY DEF U32, ParseUnsigned

\* A number is read as itself, and nothing is read as two numbers.
LEMMA DecIsRead ==
    ASSUME NEW max, NEW n \in 0..max
    PROVE  ParseUnsigned(Dec(n), max) = {n}
<1>1. DOMAIN Dec(n) = {1} /\ Dec(n)[1].of = n
  BY DEF Dec, Number
<1>2. {Dec(n)[i].of : i \in DOMAIN Dec(n)} = {n}
  BY <1>1
<1> QED
  BY <1>2 DEF ParseUnsigned

LEMMA OneAndOne ==
    ASSUME NEW a, NEW b
    PROVE  <<a>> \o <<b>> = <<a, b>>
<1> DEFINE T == {a, b}
           s == <<a>>
           t == <<b>>
<1>1. s \in Seq(T) /\ Len(s) = 1 /\ s[1] = a /\ t \in Seq(T) /\ Len(t) = 1 /\ t[1] = b
  OBVIOUS
<1>2. <<a, b>> \in Seq(T) /\ Len(<<a, b>>) = 2 /\ <<a, b>>[1] = a /\ <<a, b>>[2] = b
  OBVIOUS
<1> HIDE DEF T, s, t
<1>3. /\ s \o t \in Seq(T) /\ Len(s \o t) = Len(s) + Len(t)
      /\ \A i \in 1..(Len(s) + Len(t)) :
            (s \o t)[i] = IF i <= Len(s) THEN s[i] ELSE t[i - Len(s)]
  BY <1>1, ConcatProperties
<1>4. Len(s \o t) = 2 /\ (s \o t)[1] = a /\ (s \o t)[2] = b
  BY <1>1, <1>3
<1>5. \A i \in 1..2 : i = 1 \/ i = 2
  OBVIOUS
<1> DEFINE u == s \o t
           v == <<a, b>>
<1> HIDE DEF u, v
<1>6. Len(u) = Len(v) /\ \A i \in 1..Len(u) : u[i] = v[i]
  BY <1>2, <1>4, <1>5 DEF u, v
<1>7. u = v
  BY <1>2, <1>3, <1>6, SeqEqual DEF u, v
<1> QED
  BY <1>7 DEF u, v, s, t

LEMMA ReadIsOne ==
    ASSUME NEW t, NEW max, NEW x \in ParseUnsigned(t, max), NEW y \in ParseUnsigned(t, max)
    PROVE  x = y
<1>1. \A z \in ParseUnsigned(t, max) : t \in {Dec(z), Lit("+") \o Dec(z)}
  BY DEF ParseUnsigned
<1>2. \A z : Lit("+") \o Dec(z) = <<Sign("+"), Number(z)>>
  BY OneAndOne DEF Lit, Dec
<1>3. \A z : t = Dec(z) => t[1].of = z /\ Len(t) = 1
  BY DEF Dec, Number
<1>4. \A z : t = <<Sign("+"), Number(z)>> => t[2].of = z /\ Len(t) = 2
  BY DEF Number
<1>5. \A z \in ParseUnsigned(t, max) : t = Dec(z) \/ t = <<Sign("+"), Number(z)>>
  BY <1>1, <1>2
<1>6. (t = Dec(x) \/ t = <<Sign("+"), Number(x)>>) /\ (t = Dec(y) \/ t = <<Sign("+"), Number(y)>>)
  BY <1>5
<1> QED
  BY <1>3, <1>4, <1>6

-----------------------------------------------------------------------------
(* Lists of parts, each of which is read. *)

\* A list whose parts are read, each as one value, is read as the list of the values.
LEMMA CollectReads ==
    ASSUME NEW V, NEW values \in Seq(V), NEW options, DOMAIN options = 1..Len(values),
           \A i \in 1..Len(values) : options[i] = {values[i]}
    PROVE  Collect(options) = {values}
<1> DEFINE n == Len(values)
<1>1. values = [i \in 1..n |-> values[i]]
  BY LenProperties
<1> HIDE DEF n
<1>2. Collect(options) = {[i \in 1..n |-> CHOOSE v \in options[i] : TRUE]}
  BY DEF Collect, n
<1>3. [i \in 1..n |-> CHOOSE v \in options[i] : TRUE] = [i \in 1..n |-> values[i]]
  BY DEF n
<1> QED
  BY <1>1, <1>2, <1>3

\* What is collected has a value of each part.
LEMMA Collected ==
    ASSUME NEW V, NEW n \in Nat, NEW options, DOMAIN options = 1..n,
           \A i \in 1..n : options[i] \subseteq V,
           NEW values \in Collect(options)
    PROVE  /\ values \in Seq(V) /\ DOMAIN values = 1..n /\ Len(values) = n
           /\ \A i \in 1..n : values[i] \in options[i]
<1>1. /\ \A i \in 1..n : options[i] # {}
      /\ values = [i \in 1..n |-> CHOOSE v \in options[i] : TRUE]
  BY DEF Collect
<1>2. DOMAIN values = 1..n /\ \A i \in 1..n : values[i] \in options[i]
  BY <1>1
<1>3. values \in [1..n -> V]
  BY <1>1, <1>2
<1>4. values \in Seq(V)
  BY <1>3
<1>5. Len(values) = n
  BY <1>2, <1>4, LenProperties
<1> QED
  BY <1>2, <1>4, <1>5

\* A list whose parts are read as a value each, or not, is read if all of them are.
LEMMA CollectAccepts ==
    ASSUME NEW V, NEW values \in Seq(V), NEW options, DOMAIN options = 1..Len(values), NEW good,
           \A i \in 1..Len(values) : options[i] = IF i \in good THEN {values[i]} ELSE {}
    PROVE  Collect(options) = IF 1..Len(values) \subseteq good THEN {values} ELSE {}
<1>1. CASE 1..Len(values) \subseteq good
  <2>1. \A i \in 1..Len(values) : options[i] = {values[i]}
    BY <1>1
  <2> QED
    BY <1>1, <2>1, CollectReads
<1>2. CASE ~(1..Len(values) \subseteq good)
  <2>1. PICK i \in 1..Len(values) : options[i] = {}
    BY <1>2
  <2> QED
    BY <1>2, <2>1 DEF Collect
<1> QED
  BY <1>1, <1>2

\* Parts of which none has a c are what the text of them, joined, splits into.
LEMMA JoinedParts ==
    ASSUME NEW T, NEW texts, NEW n \in Nat \ {0}, NEW c, Sign(c) \in T,
           texts = [i \in 1..n |-> texts[i]],
           \A i \in 1..n : texts[i] \in Seq(T) /\ Sign(c) \notin ToSet(texts[i])
    PROVE  Join(texts, c) \in Seq(T) /\ Split(Join(texts, c), c) = texts
<1> DEFINE S == Seq(T)
<1>1. texts \in [1..n -> S]
  BY Zenon
<1>2. texts \in Seq(S)
  BY <1>1
<1>3. Len(texts) = n /\ texts # <<>>
  <2>1. DOMAIN texts = 1..n
    BY <1>1
  <2>2. Len(texts) = n
    BY <1>2, <2>1, LenProperties
  <2>3. n # 0
    OBVIOUS
  <2> QED
    BY <1>2, <2>2, <2>3, EmptySeq
<1>4. \A i \in 1..Len(texts) : Sign(c) \notin ToSet(texts[i])
  BY <1>3
<1> QED
  BY <1>2, <1>3, <1>4, SplitJoin

\* Of no parts the text is empty, and of one it is that one.
LEMMA JoinNone ==
    ASSUME NEW texts, NEW c, DOMAIN texts = {}
    PROVE  Join(texts, c) = <<>>
<1>1. [i \in DOMAIN texts |-> IF i = 1 THEN texts[i] ELSE Lit(c) \o texts[i]] = <<>>
  OBVIOUS
<1>2. FlattenSeq(<<>>) = <<>>
  BY DEF FlattenSeq
<1> QED
  BY <1>1, <1>2 DEF Join

-----------------------------------------------------------------------------
(* The end of a text has the last lines of the text. *)

\* A set moved up by p is as large as it was.
Up(S, p) == {p + j : j \in S}
LEMMA UpIsAsLarge ==
    ASSUME NEW S \in SUBSET Nat, IsFiniteSet(S), NEW p \in Nat
    PROVE  IsFiniteSet(Up(S, p)) /\ Cardinality(Up(S, p)) = Cardinality(S)
<1> DEFINE f == [j \in S |-> p + j]
           T == Up(S, p)
<1>1. f \in [S -> T]
  BY DEF Up
<1>6. \A i, j \in S : f[i] = f[j] => i = j
  <2>1. \A j \in S : j \in Nat
    OBVIOUS
  <2> QED
    BY <2>1
<1>2. \A t \in T : \E j \in S : f[j] = t
  BY DEF Up
<1> HIDE DEF f, T
<1>3. f \in Injection(S, T)
  BY <1>1, <1>6, Fun_IsInj
<1>4. f \in Surjection(S, T)
  BY <1>1, <1>2, Fun_IsSurj
<1>5. f \in Bijection(S, T)
  BY <1>3, <1>4 DEF Bijection
<1> QED
  BY <1>5, FS_Bijection DEF ExistsBijection, T

\* One text is what another is behind its p-th byte, but for the first byte, which may be
\* half a character there.
IsEndOf(M, L, p) ==
    /\ p \in 0..Len(L) /\ Len(M) = Len(L) - p
    /\ \A i \in 1..Len(M) : M[i] = "n" <=> L[p + i] = "n"
    /\ \A i \in 2..Len(M) : M[i] = L[p + i]
EndsBefore(L, p) == {i \in Ends(L) : i <= p}

LEMMA EndsType ==
    ASSUME NEW T, NEW L \in Seq(T)
    PROVE  /\ Ends(L) \in SUBSET Nat /\ Ends(L) \subseteq 1..Len(L)
           /\ IsFiniteSet(Ends(L)) /\ Cardinality(Ends(L)) \in Nat
<1>1. Len(L) \in Nat /\ DOMAIN L = 1..Len(L)
  BY LenProperties
<1>2. Ends(L) \subseteq 1..Len(L)
  BY <1>1 DEF Ends
<1>3. IsFiniteSet(1..Len(L))
  BY <1>1, FS_Interval
<1>4. IsFiniteSet(Ends(L))
  BY <1>2, <1>3, FS_Subset
<1> QED
  BY <1>1, <1>2, <1>4, FS_CardinalityType

\* Its lines end where those of the other do.
LEMMA EndsOfEnd ==
    ASSUME NEW T, NEW L \in Seq(T), NEW M \in Seq(T), NEW p, IsEndOf(M, L, p)
    PROVE  Ends(L) = EndsBefore(L, p) \cup Up(Ends(M), p)
<1>1. /\ Len(L) \in Nat /\ Len(M) \in Nat /\ p \in 0..Len(L) /\ Len(M) = Len(L) - p
      /\ DOMAIN L = 1..Len(L) /\ DOMAIN M = 1..Len(M)
  BY LenProperties DEF IsEndOf
<1>2. \A j \in 1..Len(M) : p + j \in 1..Len(L) /\ (j = Len(M) <=> p + j = Len(L))
  BY <1>1
<1>3. \A j \in 1..Len(M) : M[j] = "n" <=> L[p + j] = "n"
  BY DEF IsEndOf
<1>4. \A j \in 1..Len(M) : j \in Ends(M) <=> p + j \in Ends(L)
  BY <1>1, <1>2, <1>3 DEF Ends
<1>5. Ends(M) \subseteq 1..Len(M) /\ Ends(L) \subseteq 1..Len(L)
  BY EndsType
<1>6. Up(Ends(M), p) \subseteq Ends(L)
  BY <1>4, <1>5 DEF Up
<1>7. ASSUME NEW i \in Ends(L), ~(i <= p)
      PROVE  i \in Up(Ends(M), p)
  <2>1. i - p \in 1..Len(M) /\ p + (i - p) = i
    BY <1>1, <1>5, <1>7
  <2>2. i - p \in Ends(M)
    BY <1>4, <2>1
  <2> QED
    BY <2>1, <2>2 DEF Up
<1> QED
  BY <1>6, <1>7 DEF EndsBefore

LEMMA BeforeType ==
    ASSUME NEW T, NEW L \in Seq(T), NEW p
    PROVE  /\ IsFiniteSet(EndsBefore(L, p)) /\ Cardinality(EndsBefore(L, p)) \in Nat
           /\ EndsBefore(L, p) \subseteq Ends(L)
<1>1. IsFiniteSet(Ends(L)) /\ EndsBefore(L, p) \subseteq Ends(L)
  BY EndsType DEF EndsBefore
<1> QED
  BY <1>1, FS_Subset, FS_CardinalityType

\* So many more of them, and each so many places later.
LEMMA CountOfEnd ==
    ASSUME NEW T, NEW L \in Seq(T), NEW M \in Seq(T), NEW p, IsEndOf(M, L, p)
    PROVE  Cardinality(Ends(L)) = Cardinality(EndsBefore(L, p)) + Cardinality(Ends(M))
<1> DEFINE b == EndsBefore(L, p)
           u == Up(Ends(M), p)
<1>1. Ends(L) = b \cup u
  BY EndsOfEnd
<1>2. p \in Nat /\ IsFiniteSet(Ends(M)) /\ Ends(M) \in SUBSET Nat /\ Ends(M) \subseteq 1..Len(M)
  BY EndsType, LenProperties DEF IsEndOf
<1>3. IsFiniteSet(u) /\ Cardinality(u) = Cardinality(Ends(M))
  BY <1>2, UpIsAsLarge
<1>4. IsFiniteSet(b) /\ Cardinality(b) \in Nat
  BY BeforeType
<1>5. b \cap u = {}
  <2>1. \A j \in u : ~(j <= p)
    BY <1>2 DEF Up
  <2>2. \A j \in b : j <= p
    BY DEF EndsBefore
  <2> QED
    BY <2>1, <2>2
<1>6. Cardinality(b \cap u) = 0
  BY <1>5, FS_EmptySet
<1>7. Cardinality(Ends(M)) \in Nat
  BY EndsType
<1> HIDE DEF b, u
<1>8. Cardinality(b \cup u) = Cardinality(b) + Cardinality(u) - Cardinality(b \cap u)
  BY <1>3, <1>4, FS_Union
<1> QED
  BY <1>1, <1>3, <1>4, <1>6, <1>7, <1>8 DEF b

LEMMA NthOfEnd ==
    ASSUME NEW T, NEW L \in Seq(T), NEW M \in Seq(T), NEW p, IsEndOf(M, L, p),
           NEW k \in 1..Cardinality(Ends(M))
    PROVE  Nth(Ends(L), Cardinality(EndsBefore(L, p)) + k) = p + Nth(Ends(M), k)
<1> DEFINE b == EndsBefore(L, p)
           y == Nth(Ends(M), k)
           c == Below(Ends(M), y)
<1>1. Ends(L) = b \cup Up(Ends(M), p)
  BY EndsOfEnd
<1>2. /\ p \in Nat /\ IsFiniteSet(Ends(M)) /\ Ends(M) \in SUBSET Nat
      /\ Cardinality(Ends(M)) \in Nat
  BY EndsType, LenProperties DEF IsEndOf
<1>3. y \in Ends(M) /\ Cardinality(c) = k - 1
  BY <1>2, NthExists
<1>4. y \in Nat /\ k \in Nat /\ y \in 1..Len(M) /\ Len(M) \in Nat
  BY <1>2, <1>3, EndsType, LenProperties
<1>5. IsFiniteSet(b) /\ Cardinality(b) \in Nat
  BY BeforeType
<1>6. c \in SUBSET Nat /\ IsFiniteSet(c)
  <2>1. c \subseteq Ends(M)
    BY DEF Below
  <2> HIDE DEF c
  <2> QED
    BY <1>2, <2>1, FS_Subset
<1> HIDE DEF y
<1>7. IsFiniteSet(Up(c, p)) /\ Cardinality(Up(c, p)) = Cardinality(c)
  <2> HIDE DEF c
  <2> QED
    BY <1>2, <1>6, UpIsAsLarge
<1>8. Below(Ends(L), p + y) = b \cup Up(c, p)
  <2>1. \A j \in b : j < p + y
    <3>1. \A j \in Ends(L) : j \in Nat
      BY EndsType
    <3>2. \A j \in b : j \in Nat /\ j <= p
      BY <3>1 DEF EndsBefore
    <3> QED
      BY <1>2, <1>4, <3>2
  <2>2. \A j \in Ends(M) : p + j < p + y <=> j < y
    <3>1. \A j \in Ends(M) : j \in Nat
      BY <1>2
    <3> QED
      BY <1>2, <1>4, <3>1
  <2>3. \A j \in Up(Ends(M), p) : j < p + y <=> j \in Up(c, p)
    <3>1. ASSUME NEW i \in Ends(M)
          PROVE  p + i \in Up(c, p) <=> p + i < p + y
      <4>1. p + i < p + y => p + i \in Up(c, p)
        BY <2>2 DEF Up, Below
      <4>2. ASSUME NEW j \in c, p + i = p + j
            PROVE  p + i < p + y
        BY <2>2, <4>2 DEF Below
      <4> QED
        BY <4>1, <4>2 DEF Up
    <3> QED
      BY <3>1 DEF Up
  <2>4. Up(c, p) \subseteq Up(Ends(M), p)
    BY DEF Up, Below
  <2> HIDE DEF b, c
  <2> QED
    BY <1>1, <2>1, <2>3, <2>4 DEF Below
<1>9. Cardinality(Below(Ends(L), p + y)) = Cardinality(b) + k - 1
  <2>1. b \cap Up(c, p) = {}
    <3>1. \A j \in b : j <= p
      BY DEF EndsBefore
    <3>2. \A j \in Up(c, p) : ~(j <= p)
      <4>1. \A j \in c : j \in 1..Len(M)
        BY EndsType DEF Below
      <4> HIDE DEF c
      <4> QED
        BY <1>2, <1>4, <4>1 DEF Up
    <3> QED
      BY <3>1, <3>2
  <2> HIDE DEF b, c
  <2>2. Cardinality(b \cap Up(c, p)) = 0
    BY <2>1, FS_EmptySet
  <2>3. Cardinality(b \cup Up(c, p)) = Cardinality(b) + Cardinality(Up(c, p)) - Cardinality(b \cap Up(c, p))
    BY <1>5, <1>7, FS_Union
  <2>4. Cardinality(b \cup Up(c, p)) = Cardinality(b) + (k - 1) - 0
    BY <1>3, <1>7, <2>2, <2>3
  <2>5. Cardinality(b) + (k - 1) - 0 = Cardinality(b) + k - 1
    BY <1>4, <1>5
  <2> QED
    BY <1>8, <2>4, <2>5
<1>10. p + y \in Ends(L)
  BY <1>1, <1>3 DEF Up
<1>11. Ends(L) \in SUBSET Nat /\ IsFiniteSet(Ends(L))
  BY EndsType
<1>12. Cardinality(Below(Ends(L), p + y)) = (Cardinality(b) + k) - 1
  BY <1>4, <1>5, <1>9
<1> HIDE DEF b
<1>13. Nth(Ends(L), Cardinality(b) + k) = p + y
  BY <1>10, <1>11, <1>12, NthIs
<1> QED
  BY <1>13 DEF b, y

LEMMA PartOfEnd ==
    ASSUME NEW T, NEW L \in Seq(T), NEW M \in Seq(T), NEW p, IsEndOf(M, L, p),
           NEW from \in 2..Len(M), NEW to \in Int, to <= Len(M)
    PROVE  Part(M, from, to) = Part(L, p + from, p + to)
<1>1. /\ Len(L) \in Nat /\ Len(M) \in Nat /\ p \in Nat /\ Len(M) = Len(L) - p
      /\ \A i \in 2..Len(M) : M[i] = L[p + i]
  BY LenProperties DEF IsEndOf
<1>2. from \in Nat \ {0} /\ p + to <= Len(L)
  BY <1>1
<1>3. \A i \in from..to : M[i] = L[p + i]
  <2>1. \A i \in from..to : i \in 2..Len(M)
    BY <1>1
  <2> QED
    BY <1>1, <2>1
<1>4. Agrees(M, from, to, L, p)
  BY <1>2, <1>3 DEF Agrees
<1> QED
  BY <1>1, <1>2, <1>4, PartsAgree

\* Its lines but the first are lines of the other.
LEMMA LineOfEnd ==
    ASSUME NEW T, NEW L \in Seq(T), NEW M \in Seq(T), NEW p, IsEndOf(M, L, p),
           NEW from \in 2..Len(M), NEW to \in from..Len(M)
    PROVE  LineOf(M, from, to) = LineOf(L, p + from, p + to)
<1>1. /\ Len(L) \in Nat /\ Len(M) \in Nat /\ p \in Nat
      /\ \A i \in 2..Len(M) : M[i] = L[p + i]
  BY LenProperties DEF IsEndOf
<1>2. M[to] = L[p + to] /\ (to > from => M[to - 1] = L[(p + to) - 1])
  <2>1. to \in 2..Len(M)
    BY <1>1
  <2>2. to > from => to - 1 \in 2..Len(M) /\ p + (to - 1) = (p + to) - 1
    BY <1>1
  <2> QED
    BY <1>1, <2>1, <2>2
<1>3. to > from <=> p + to > p + from
  BY <1>1
<1>4. /\ Part(M, from, to) = Part(L, p + from, p + to)
      /\ Part(M, from, to - 1) = Part(L, p + from, (p + to) - 1)
      /\ Part(M, from, to - 2) = Part(L, p + from, (p + to) - 2)
  <2>1. /\ to \in Int /\ to - 1 \in Int /\ to - 2 \in Int
        /\ to <= Len(M) /\ to - 1 <= Len(M) /\ to - 2 <= Len(M)
    BY <1>1
  <2>2. p + (to - 1) = (p + to) - 1 /\ p + (to - 2) = (p + to) - 2
    BY <1>1
  <2>3. Part(M, from, to) = Part(L, p + from, p + to)
    BY <2>1, PartOfEnd
  <2>4. Part(M, from, to - 1) = Part(L, p + from, p + (to - 1))
    BY <2>1, PartOfEnd
  <2>5. Part(M, from, to - 2) = Part(L, p + from, p + (to - 2))
    BY <2>1, PartOfEnd
  <2> QED
    BY <2>2, <2>3, <2>4, <2>5
<1> QED
  BY <1>2, <1>3, <1>4 DEF LineOf, Part

LEMMA NthIncreases ==
    ASSUME NEW S \in SUBSET Nat, IsFiniteSet(S), NEW k \in 2..Cardinality(S)
    PROVE  Nth(S, k - 1) < Nth(S, k)
<1>1. Cardinality(S) \in Nat
  BY FS_CardinalityType
<1>2. k \in 1..Cardinality(S) /\ k - 1 \in 1..Cardinality(S)
  BY <1>1
<1> DEFINE i == Nth(S, k - 1)
           j == Nth(S, k)
<1>3. i \in S /\ Cardinality(Below(S, i)) = (k - 1) - 1
  BY <1>2, NthExists
<1>4. j \in S /\ Cardinality(Below(S, j)) = k - 1
  BY <1>2, NthExists
<1> HIDE DEF i, j
<1>5. j < i => Cardinality(Below(S, j)) < Cardinality(Below(S, i))
  BY <1>3, <1>4, BelowGrows
<1>6. i \in Nat /\ j \in Nat
  BY <1>3, <1>4
<1>7. ~(k - 1 < (k - 1) - 1) /\ k - 1 # (k - 1) - 1
  OBVIOUS
<1> QED
  BY <1>3, <1>4, <1>5, <1>6, <1>7 DEF i, j

LEMMA LinesOfEnd ==
    ASSUME NEW T, NEW L \in Seq(T), NEW M \in Seq(T), NEW p, IsEndOf(M, L, p),
           NEW k \in 2..Cardinality(Ends(M))
    PROVE  Lines(L)[Cardinality(EndsBefore(L, p)) + k] = Lines(M)[k]
<1> DEFINE d == Cardinality(EndsBefore(L, p))
           m == Cardinality(Ends(M))
           i == Nth(Ends(M), k - 1)
           j == Nth(Ends(M), k)
<1>1. d \in Nat /\ m \in Nat /\ Cardinality(Ends(L)) = d + m
  BY BeforeType, EndsType, CountOfEnd
<1>2. k \in 1..m /\ k - 1 \in 1..m /\ d + k \in 1..(d + m) /\ k # 0 /\ k - 1 # 0
      /\ d + k # 0 /\ (d + k) - 1 # 0 /\ (d + k) - 1 = d + (k - 1)
  BY <1>1
<1>3. Ends(M) \in SUBSET Nat /\ Ends(M) \subseteq 1..Len(M) /\ IsFiniteSet(Ends(M))
  BY EndsType
<1>4. Nth(Ends(L), d + k) = p + j
  BY <1>2, NthOfEnd
<1>5. Nth(Ends(L), d + (k - 1)) = p + i
  BY <1>2, NthOfEnd
<1>6. i \in 1..Len(M) /\ j \in 1..Len(M) /\ i < j
  BY <1>2, <1>3, NthExists, NthIncreases
<1>7. Lines(M)[k] = LineOf(M, i + 1, j)
  <2> HIDE DEF i, j, m
  <2> QED
    BY <1>2 DEF Lines, i, j, m
<1>8. Lines(L)[d + k] = LineOf(L, Nth(Ends(L), (d + k) - 1) + 1, Nth(Ends(L), d + k))
  <2> HIDE DEF d, m, i, j
  <2> QED
    BY <1>1, <1>2 DEF Lines
<1>9. Lines(L)[d + k] = LineOf(L, (p + i) + 1, p + j)
  <2> HIDE DEF d, m, i, j
  <2> QED
    BY <1>2, <1>4, <1>5, <1>8
<1>10. p \in Nat /\ Len(M) \in Nat
  BY LenProperties DEF IsEndOf
<1> HIDE DEF d, m, i, j
<1>11. i + 1 \in 2..Len(M) /\ j \in (i + 1)..Len(M) /\ (p + i) + 1 = p + (i + 1)
  BY <1>6, <1>10
<1>12. LineOf(M, i + 1, j) = LineOf(L, p + (i + 1), p + j)
  BY <1>11, LineOfEnd
<1> QED
  BY <1>7, <1>9, <1>11, <1>12 DEF d

LEMMA LastOfEnd ==
    ASSUME NEW V, NEW x \in Seq(V), NEW y \in Seq(V), NEW n \in Nat, n # 0, NEW d \in Nat,
           Len(y) = d + Len(x), n < Len(x), \A k \in 2..Len(x) : y[d + k] = x[k]
    PROVE  LastOf(x, n) = LastOf(y, n)
<1> DEFINE m == Len(x)
           u == m - n + 1
           a == Part(x, u, m)
           b == Part(y, d + u, d + m)
<1>1. m \in Nat /\ u \in 2..m /\ d + m > n /\ (d + m) - n + 1 = d + u /\ m - u + 1 = n
  BY LenProperties
<1>2. \A k \in 1..m : x[k] \in V
  BY ElementOfSeq
<1>3. \A k \in 1..(d + m) : y[k] \in V
  BY ElementOfSeq
<1>4. a = LastOf(x, n)
  BY DEF LastOf, Part
<1>5. b = LastOf(y, n)
  <2> HIDE DEF u
  <2> QED
    BY <1>1 DEF LastOf, Part
<1> HIDE DEF m, u
<1>6. /\ a \in Seq(V) /\ Len(a) = n
      /\ \A i \in 1..n : a[i] = x[u + i - 1]
  <2>1. \A k \in u..m : x[k] \in V
    BY <1>1, <1>2
  <2>2. /\ a \in Seq(V) /\ Len(a) = IF u <= m THEN m - u + 1 ELSE 0
        /\ \A i \in 1..(m - u + 1) : a[i] = x[u + i - 1]
    BY <1>1, <2>1, SubSeqProperties DEF Part
  <2> QED
    BY <1>1, <2>2
<1>7. /\ b \in Seq(V) /\ Len(b) = n
      /\ \A i \in 1..n : b[i] = y[(d + u) + i - 1]
  <2>1. d + u \in Int /\ d + m \in Int /\ d + u <= d + m /\ (d + m) - (d + u) + 1 = n
    BY <1>1
  <2>2. \A k \in (d + u)..(d + m) : y[k] \in V
    BY <1>1, <1>3
  <2>3. /\ b \in Seq(V) /\ Len(b) = IF d + u <= d + m THEN (d + m) - (d + u) + 1 ELSE 0
        /\ \A i \in 1..((d + m) - (d + u) + 1) : b[i] = y[(d + u) + i - 1]
    BY <2>1, <2>2, SubSeqProperties DEF Part
  <2> QED
    BY <2>1, <2>3
<1> HIDE DEF a, b
<1>8. ASSUME NEW i \in 1..n
      PROVE  a[i] = b[i]
  <2> DEFINE k == u + i - 1
  <2>1. k \in 2..m /\ (d + u) + i - 1 = d + k
    BY <1>1
  <2>2. x[k] = y[d + k]
    BY <2>1 DEF m
  <2> HIDE DEF k
  <2>3. a[i] = x[k]
    BY <1>6 DEF k
  <2>4. b[i] = y[(d + u) + i - 1]
    BY <1>7
  <2> QED
    BY <2>1, <2>2, <2>3, <2>4
<1>9. a = b
  BY <1>6, <1>7, <1>8, SeqEqual
<1> QED
  BY <1>4, <1>5, <1>9

LEMMA LinesType ==
    ASSUME NEW T, NEW L \in Seq(T), NEW V, \A k \in 1..Cardinality(Ends(L)) : Lines(L)[k] \in V
    PROVE  Lines(L) \in Seq(V) /\ Len(Lines(L)) = Cardinality(Ends(L))
<1> DEFINE m == Cardinality(Ends(L))
<1>1. m \in Nat
  BY EndsType
<1>2. DOMAIN Lines(L) = 1..m /\ Lines(L) = [k \in 1..m |-> Lines(L)[k]]
  BY DEF Lines
<1> HIDE DEF m
<1>3. Lines(L) \in [1..m -> V]
  BY <1>2 DEF m
<1>4. Lines(L) \in Seq(V)
  BY <1>1, <1>3
<1>5. Len(Lines(L)) \in Nat /\ DOMAIN Lines(L) = 1..Len(Lines(L))
  BY <1>4, LenProperties
<1>6. Len(Lines(L)) = m
  BY <1>1, <1>2, <1>5
<1> QED
  BY <1>4, <1>6 DEF m

\* The last n lines of a text are those of an end of it that has more.
LEMMA LinesOfTheEnd ==
    ASSUME NEW T, NEW L \in Seq(T), NEW M \in Seq(T), NEW p, IsEndOf(M, L, p),
           NEW n \in Nat, n # 0, n < Cardinality(Ends(M))
    PROVE  LastOf(Lines(M), n) = LastOf(Lines(L), n)
<1> DEFINE d == Cardinality(EndsBefore(L, p))
           m == Cardinality(Ends(M))
           V == {Lines(M)[k] : k \in 1..m} \cup {Lines(L)[k] : k \in 1..Cardinality(Ends(L))}
<1>1. d \in Nat /\ Cardinality(Ends(L)) = d + m
  BY BeforeType, CountOfEnd
<1>2. Lines(M) \in Seq(V) /\ Len(Lines(M)) = m
  <2>1. \A k \in 1..m : Lines(M)[k] \in V
    OBVIOUS
  <2> HIDE DEF V
  <2> QED
    BY <2>1, LinesType
<1>3. Lines(L) \in Seq(V) /\ Len(Lines(L)) = d + m
  <2>1. \A k \in 1..Cardinality(Ends(L)) : Lines(L)[k] \in V
    OBVIOUS
  <2> HIDE DEF V
  <2> QED
    BY <1>1, <2>1, LinesType
<1>4. \A k \in 2..m : Lines(L)[d + k] = Lines(M)[k]
  BY LinesOfEnd
<1> HIDE DEF d, m, V
<1>5. n < m
  BY DEF m
<1> QED
  BY <1>1, <1>2, <1>3, <1>4, <1>5, LastOfEnd

\* Reading in UTF-8 leaves every line feed where it is, and what is made of a character
\* depends on its neighbours.
LEMMA LossyType ==
    ASSUME NEW T, NEW b \in Seq(T)
    PROVE  /\ Lossy(b) \in Seq(T \cup {"?"}) /\ Len(Lossy(b)) = Len(b)
           /\ \A i \in 1..Len(b) : Lossy(b)[i] = "n" <=> b[i] = "n"
<1>1. Len(b) \in Nat /\ DOMAIN b = 1..Len(b) /\ b \in [1..Len(b) -> T]
  BY LenProperties
<1>2. Lossy(b) \in [1..Len(b) -> T \cup {"?"}]
  BY <1>1 DEF Lossy
<1>3. Lossy(b) \in Seq(T \cup {"?"})
  BY <1>1, <1>2
<1>4. Len(Lossy(b)) = Len(b)
  BY <1>1, <1>2, <1>3, LenProperties
<1>5. \A i \in 1..Len(b) : Lossy(b)[i] = "n" <=> b[i] = "n"
  BY <1>1 DEF Lossy
<1> QED
  BY <1>3, <1>4, <1>5

LEMMA PartToEnd ==
    ASSUME NEW T, NEW f \in Seq(T), NEW p \in 0..Len(f)
    PROVE  /\ Part(f, p + 1, Len(f)) \in Seq(T)
           /\ Len(Part(f, p + 1, Len(f))) = Len(f) - p
           /\ \A i \in 1..(Len(f) - p) : Part(f, p + 1, Len(f))[i] = f[p + i]
<1>1. Len(f) \in Nat /\ p + 1 \in Int /\ Len(f) \in Int
  BY LenProperties
<1>2. \A i \in (p + 1)..Len(f) : f[i] \in T
  BY <1>1, ElementOfSeq
<1> DEFINE c == Part(f, p + 1, Len(f))
<1>3. /\ c \in Seq(T) /\ Len(c) = IF p + 1 <= Len(f) THEN Len(f) - (p + 1) + 1 ELSE 0
      /\ \A i \in 1..(Len(f) - (p + 1) + 1) : c[i] = f[(p + 1) + i - 1]
  BY <1>1, <1>2, SubSeqProperties DEF Part
<1> HIDE DEF c
<1>4. Len(c) = Len(f) - p /\ Len(f) - (p + 1) + 1 = Len(f) - p
  BY <1>1, <1>3
<1>5. \A i \in 1..(Len(f) - p) : (p + 1) + i - 1 = p + i
  BY <1>1
<1> QED
  BY <1>3, <1>4, <1>5 DEF c

LEMMA LossyOfEnd ==
    ASSUME NEW T, NEW f \in Seq(T), NEW p \in 0..Len(f)
    PROVE  IsEndOf(Lossy(Part(f, p + 1, Len(f))), Lossy(f), p)
<1> DEFINE c == Part(f, p + 1, Len(f))
<1>1. c \in Seq(T) /\ Len(c) = Len(f) - p /\ \A i \in 1..Len(c) : c[i] = f[p + i]
  BY PartToEnd
<1> HIDE DEF c
<1>2. Len(f) \in Nat /\ DOMAIN f = 1..Len(f) /\ Len(c) \in Nat /\ DOMAIN c = 1..Len(c)
  BY <1>1, LenProperties
<1>3. Len(Lossy(f)) = Len(f) /\ \A i \in 1..Len(f) : Lossy(f)[i] = "n" <=> f[i] = "n"
  BY LossyType
<1>4. Len(Lossy(c)) = Len(c) /\ \A i \in 1..Len(c) : Lossy(c)[i] = "n" <=> c[i] = "n"
  BY <1>1, LossyType
<1>5. \A i \in 1..Len(c) : p + i \in 1..Len(f)
  BY <1>1, <1>2
<1>6. \A i \in 1..Len(c) : Lossy(c)[i] = "n" <=> Lossy(f)[p + i] = "n"
  BY <1>1, <1>3, <1>4, <1>5
<1>7. ASSUME NEW i \in 2..Len(c)
      PROVE  Lossy(c)[i] = Lossy(f)[p + i]
  <2>1. /\ i \in 1..Len(c) /\ i # 1 /\ p + i \in 1..Len(f) /\ p + i # 1
        /\ i = Len(c) <=> p + i = Len(f)
    BY <1>1, <1>2
  <2>2. c[i] = f[p + i]
    BY <1>1, <2>1
  <2>3. i # Len(c) => c[i + 1] = f[(p + i) + 1]
    <3>1. i \in Nat /\ p \in Nat /\ i <= Len(c)
      BY <1>2
    <3>2. p + (i + 1) = (p + i) + 1
      BY <3>1
    <3>3. ASSUME NEW k \in Nat, i <= k, i # k
          PROVE  i + 1 \in 1..k
      BY <3>1, <3>3
    <3>4. i # Len(c) => i + 1 \in 1..Len(c)
      BY <1>2, <3>1, <3>3
    <3> QED
      BY <1>1, <3>2, <3>4
  <2>4. c[i - 1] = f[(p + i) - 1]
    <3>1. i - 1 \in 1..Len(c) /\ p + (i - 1) = (p + i) - 1
      BY <1>2
    <3> QED
      BY <1>1, <3>1
  <2> QED
    BY <1>2, <2>1, <2>2, <2>3, <2>4 DEF Lossy
<1>8. p \in 0..Len(Lossy(f)) /\ Len(Lossy(c)) = Len(Lossy(f)) - p
  BY <1>1, <1>3, <1>4
<1> QED
  BY <1>4, <1>6, <1>7, <1>8 DEF IsEndOf, c

\* More than n line feeds end more than n lines.
LEMMA FeedsEndLines ==
    ASSUME NEW T, NEW b \in Seq(T), NEW n \in Nat, EnoughFeeds(b, n)
    PROVE  n < Cardinality(Ends(Lossy(b)))
<1> DEFINE S == {i \in DOMAIN b : b[i] = "n"}
           E == Ends(Lossy(b))
<1>1. /\ Lossy(b) \in Seq(T \cup {"?"})
      /\ DOMAIN b = 1..Len(b) /\ DOMAIN Lossy(b) = 1..Len(b)
      /\ \A i \in 1..Len(b) : Lossy(b)[i] = "n" <=> b[i] = "n"
  BY LossyType, LenProperties
<1>2. S \subseteq E
  BY <1>1 DEF Ends
<1>3. IsFiniteSet(E) /\ Cardinality(E) \in Nat
  BY <1>1, EndsType
<1>4. n < Cardinality(S)
  BY DEF EnoughFeeds, Feeds
<1> HIDE DEF S, E
<1>5. IsFiniteSet(S) /\ Cardinality(S) <= Cardinality(E)
  BY <1>2, <1>3, FS_Subset
<1>6. Cardinality(S) \in Nat
  BY <1>5, FS_CardinalityType
<1> QED
  BY <1>3, <1>4, <1>5, <1>6 DEF E

\* Enough of the end of a file says what its last n lines are.
LEMMA TailOfFile ==
    ASSUME NEW T, NEW f \in Seq(T), NEW p \in 0..Len(f), NEW n \in Nat, n # 0,
           EnoughFeeds(Part(f, p + 1, Len(f)), n)
    PROVE  LastOf(Lines(Lossy(Part(f, p + 1, Len(f)))), n) = LastOf(Lines(Lossy(f)), n)
<1> DEFINE c == Part(f, p + 1, Len(f))
<1>1. c \in Seq(T)
  BY PartToEnd
<1>2. IsEndOf(Lossy(c), Lossy(f), p)
  BY LossyOfEnd
<1> HIDE DEF c
<1>3. n < Cardinality(Ends(Lossy(c)))
  BY <1>1, FeedsEndLines DEF c
<1>4. Lossy(c) \in Seq(T \cup {"?"}) /\ Lossy(f) \in Seq(T \cup {"?"})
  BY <1>1, LossyType
<1> QED
  BY <1>2, <1>3, <1>4, LinesOfTheEnd DEF c

-----------------------------------------------------------------------------
(* What has been read is the end of the file as it was opened, so long as    *)
(* nothing was written over what was cut.                                    *)

Behind(f, p) == Part(f, p + 1, Len(f))

\* A file that was f when it was opened: what it may be, once it was cut, or written over.
FileKeeps(f, file, cut, over) ==
    /\ ~over => \A i \in 1..Len(f) : i <= Len(file) => file[i] = f[i]
    /\ ~cut => Len(f) <= Len(file)

\* How far a call for its last n lines may be.
ReadKeeps(f, r, n, cut, over) ==
    /\ DOMAIN r = {"is", "pos", "buf"}
    /\ r.is \in {"reading", "done", "failed"}
    /\ r.pos \in 0..Len(f)
    /\ r.is = "reading" => n # 0
    /\ n = 0 => r.buf = <<>>
    /\ n # 0 /\ ~over => r.buf = Behind(f, r.pos)
    /\ r.is = "done" => n = 0 \/ r.pos = 0 \/ EnoughFeeds(r.buf, n)
    /\ r.is = "failed" => cut

LEMMA StartKeeps ==
    ASSUME NEW T, NEW f \in Seq(T), NEW n \in Nat
    PROVE  ReadKeeps(f, StartRead({f}, n), n, FALSE, FALSE) /\ FileKeeps(f, f, FALSE, FALSE)
<1> DEFINE r == StartRead({f}, n)
<1>1. Len(f) \in Nat
  BY LenProperties
<1>2. (CHOOSE g \in {f} : TRUE) = f /\ {f} # {}
  OBVIOUS
<1>3. r = [is |-> IF n = 0 \/ Len(f) = 0 THEN "done" ELSE "reading",
           pos |-> IF n = 0 THEN 0 ELSE Len(f), buf |-> <<>>]
  BY <1>1, <1>2 DEF StartRead
<1>4. Behind(f, Len(f)) = <<>>
  <2>1. Len(f) + 1 \in Int /\ Len(f) \in Int /\ Len(f) < Len(f) + 1
    BY <1>1
  <2> QED
    BY <2>1, SubSeqEmpty DEF Behind, Part
<1>5. ReadKeeps(f, r, n, FALSE, FALSE)
  <2> HIDE DEF r
  <2>1. DOMAIN r = {"is", "pos", "buf"} /\ r.is \in {"reading", "done"} /\ r.buf = <<>>
    BY <1>3
  <2>2. r.pos = (IF n = 0 THEN 0 ELSE Len(f)) /\ (r.is = "done" <=> n = 0 \/ Len(f) = 0)
    BY <1>3
  <2> QED
    BY <1>1, <1>4, <2>1, <2>2 DEF ReadKeeps
<1>6. FileKeeps(f, f, FALSE, FALSE)
  BY <1>1 DEF FileKeeps
<1> QED
  BY <1>5, <1>6

\* A chunk before what was read is read.
LEMMA PartsJoin ==
    ASSUME NEW T, NEW f \in Seq(T), NEW file \in Seq(T), NEW p \in 0..Len(f), NEW from \in 0..p,
           p <= Len(file), \A i \in 1..Len(f) : i <= Len(file) => file[i] = f[i]
    PROVE  Part(file, from + 1, p) \o Behind(f, p) = Behind(f, from)
<1> DEFINE a == Part(file, from + 1, p)
           b == Behind(f, p)
           c == Behind(f, from)
<1>1. Len(f) \in Nat /\ Len(file) \in Nat /\ p \in Nat /\ from \in Nat
  BY LenProperties
<1>2. from + 1 \in Int /\ \A i \in (from + 1)..p : i \in 1..Len(f) /\ i <= Len(file)
  BY <1>1
<1>3. \A i \in (from + 1)..p : file[i] \in T
  BY <1>2, ElementOfSeq
<1>4. /\ a \in Seq(T) /\ Len(a) = IF from + 1 <= p THEN p - (from + 1) + 1 ELSE 0
      /\ \A i \in 1..(p - (from + 1) + 1) : a[i] = file[(from + 1) + i - 1]
  BY <1>1, <1>2, <1>3, SubSeqProperties DEF Part
<1>5. b \in Seq(T) /\ Len(b) = Len(f) - p /\ \A i \in 1..(Len(f) - p) : b[i] = f[p + i]
  BY PartToEnd DEF Behind
<1>6. /\ c \in Seq(T) /\ Len(c) = Len(f) - from
      /\ \A i \in 1..(Len(f) - from) : c[i] = f[from + i]
  <2>1. from \in 0..Len(f)
    BY <1>1
  <2> QED
    BY <2>1, PartToEnd DEF Behind
<1> HIDE DEF a, b, c
<1>7. Len(a) = p - from
  BY <1>1, <1>4
<1>8. ASSUME NEW i \in 1..(p - from)
      PROVE  a[i] = f[from + i]
  <2>1. i \in 1..(p - (from + 1) + 1) /\ (from + 1) + i - 1 = from + i
    BY <1>1
  <2>2. from + i \in (from + 1)..p
    BY <1>1
  <2>3. file[from + i] = f[from + i]
    BY <1>2, <2>2
  <2> QED
    BY <1>4, <2>1, <2>3
<1>9. /\ a \o b \in Seq(T) /\ Len(a \o b) = Len(a) + Len(b)
      /\ \A i \in 1..(Len(a) + Len(b)) :
            (a \o b)[i] = IF i <= Len(a) THEN a[i] ELSE b[i - Len(a)]
  BY <1>4, <1>5, ConcatProperties
<1>10. Len(a \o b) = Len(c) /\ Len(a) + Len(b) = Len(f) - from
  BY <1>1, <1>5, <1>6, <1>7, <1>9
<1>11. ASSUME NEW i \in 1..Len(a \o b)
       PROVE  (a \o b)[i] = c[i]
  <2>1. i \in 1..(Len(a) + Len(b)) /\ i \in 1..(Len(f) - from)
    BY <1>9, <1>10
  <2>2. c[i] = f[from + i]
    BY <1>6, <2>1
  <2>3. CASE i <= p - from
    <3>1. i \in 1..(p - from)
      BY <1>1, <2>1, <2>3
    <3> QED
      BY <1>7, <1>8, <1>9, <2>1, <2>2, <2>3, <3>1
  <2>4. CASE ~(i <= p - from)
    <3>1. i - (p - from) \in 1..(Len(f) - p) /\ p + (i - (p - from)) = from + i
      BY <1>1, <2>1, <2>4
    <3>2. b[i - (p - from)] = f[from + i]
      BY <1>5, <3>1
    <3>3. (a \o b)[i] = b[i - (p - from)]
      BY <1>7, <1>9, <2>1, <2>4
    <3> QED
      BY <2>2, <3>2, <3>3
  <2> QED
    BY <2>3, <2>4
<1>12. a \o b = c
  BY <1>6, <1>9, <1>10, <1>11, SeqEqual
<1> QED
  BY <1>12 DEF a, b, c

LEMMA ChunkKeeps ==
    ASSUME NEW T, NEW f \in Seq(T), NEW file \in Seq(T), NEW n \in Nat, NEW r,
           NEW cut, NEW over, ReadKeeps(f, r, n, cut, over), FileKeeps(f, file, cut, over),
           r.is = "reading"
    PROVE  ReadKeeps(f, ReadChunk(r, file, n), n, cut, over)
<1> DEFINE from == IF r.pos > Chunk THEN r.pos - Chunk ELSE 0
           all == Part(file, from + 1, r.pos) \o r.buf
<1>1. /\ Len(f) \in Nat /\ Len(file) \in Nat /\ r.pos \in 0..Len(f) /\ n # 0
      /\ DOMAIN r = {"is", "pos", "buf"} /\ r.is = "reading"
      /\ ~over => r.buf = Behind(f, r.pos)
  BY LenProperties DEF ReadKeeps
<1>2. from \in 0..r.pos /\ from \in 0..Len(f)
  BY <1>1, ChunkAssumption
<1>3. CASE Len(file) < r.pos
  <2> DEFINE q == [r EXCEPT !.is = "failed"]
  <2>1. ReadChunk(r, file, n) = q
    BY <1>3 DEF ReadChunk
  <2>2. DOMAIN q = {"is", "pos", "buf"} /\ q.is = "failed" /\ q.pos = r.pos /\ q.buf = r.buf
    BY <1>1
  <2>3. cut = TRUE \/ cut # TRUE
    OBVIOUS
  <2>4. cut
    BY <1>1, <1>3 DEF FileKeeps
  <2> HIDE DEF q
  <2> QED
    BY <1>1, <2>1, <2>2, <2>4 DEF ReadKeeps
<1>4. CASE ~(Len(file) < r.pos)
  <2> DEFINE q == [is |-> IF from = 0 \/ EnoughFeeds(all, n) THEN "done" ELSE "reading",
                   pos |-> from, buf |-> all]
  <2>1. ReadChunk(r, file, n) = q
    BY <1>4 DEF ReadChunk, Part
  <2>2. ~over => all = Behind(f, from)
    <3>1. r.pos <= Len(file)
      BY <1>1, <1>4
    <3> HIDE DEF from
    <3>2. ~over => Part(file, from + 1, r.pos) \o Behind(f, r.pos) = Behind(f, from)
      BY <1>1, <1>2, <3>1, PartsJoin DEF FileKeeps
    <3> QED
      BY <1>1, <3>2
  <2> HIDE DEF from, all
  <2>3. /\ DOMAIN q = {"is", "pos", "buf"} /\ q.is \in {"done", "reading"}
        /\ q.pos = from /\ q.buf = all
        /\ q.is = "done" => from = 0 \/ EnoughFeeds(all, n)
    OBVIOUS
  <2> HIDE DEF q
  <2> QED
    BY <1>1, <1>2, <2>1, <2>2, <2>3 DEF ReadKeeps
<1> QED
  BY <1>3, <1>4

\* A job that writes on changes nothing that was there, and a cut is remembered.
LEMMA GrowthKeeps ==
    ASSUME NEW T, NEW f \in Seq(T), NEW file \in Seq(T), NEW g \in Seq(T),
           NEW cut, NEW over \in BOOLEAN, FileKeeps(f, file, cut, over)
    PROVE  FileKeeps(f, file \o g, cut, over \/ Len(file) < Len(f))
<1>1. Len(f) \in Nat /\ Len(file) \in Nat /\ Len(g) \in Nat
  BY LenProperties
<1>2. /\ Len(file \o g) = Len(file) + Len(g)
      /\ \A i \in 1..(Len(file) + Len(g)) :
            (file \o g)[i] = IF i <= Len(file) THEN file[i] ELSE g[i - Len(file)]
  BY ConcatProperties
<1>3. ASSUME ~over, ~(Len(file) < Len(f)), NEW i \in 1..Len(f)
      PROVE  (file \o g)[i] = f[i]
  <2>1. i <= Len(file) /\ i \in 1..(Len(file) + Len(g))
    BY <1>1, <1>3
  <2> QED
    BY <1>2, <1>3, <2>1 DEF FileKeeps
<1>4. Len(f) <= Len(file) => Len(f) <= Len(file \o g)
  BY <1>1, <1>2
<1> QED
  BY <1>3, <1>4 DEF FileKeeps

LEMMA CutKeeps ==
    ASSUME NEW T, NEW f \in Seq(T), NEW file \in Seq(T), NEW k \in 0..(Len(file) - 1),
           NEW cut, NEW over, FileKeeps(f, file, cut, over)
    PROVE  FileKeeps(f, Part(file, 1, k), TRUE, over) /\ Part(file, 1, k) \in Seq(T)
<1> DEFINE c == Part(file, 1, k)
<1>1. Len(f) \in Nat /\ Len(file) \in Nat /\ k \in Nat /\ k <= Len(file)
  BY LenProperties
<1>2. \A i \in 1..k : file[i] \in T
  BY <1>1, ElementOfSeq
<1>3. /\ c \in Seq(T) /\ Len(c) = IF 1 <= k THEN k - 1 + 1 ELSE 0
      /\ \A i \in 1..(k - 1 + 1) : c[i] = file[1 + i - 1]
  BY <1>1, <1>2, SubSeqProperties DEF Part
<1> HIDE DEF c
<1>4. Len(c) = k /\ \A i \in 1..k : c[i] = file[i]
  BY <1>1, <1>3
<1>5. \A i \in 1..Len(f) : i <= Len(c) => i \in 1..k /\ i <= Len(file)
  BY <1>1, <1>4
<1> QED
  BY <1>3, <1>4, <1>5 DEF FileKeeps, c

\* What a call answers, if it does.
LEMMA TailTells ==
    ASSUME NEW T, NEW f \in Seq(T), NEW n \in Nat, NEW r, NEW cut,
           ReadKeeps(f, r, n, cut, FALSE)
    PROVE  LogLines({"log"}, r, n) \subseteq {LastOf(Lines(Lossy(f)), n)}
<1> SUFFICES ASSUME r.is = "done"
             PROVE  LastOf(Lines(Lossy(r.buf)), n) = LastOf(Lines(Lossy(f)), n)
  BY DEF LogLines
<1>1. CASE n = 0
  <2>1. ASSUME NEW g \in Seq(T)
        PROVE  LastOf(Lines(Lossy(g)), 0) = <<>>
    <3> DEFINE L == Lossy(g)
    <3>1. L \in Seq(T \cup {"?"})
      BY LossyType
    <3> HIDE DEF L
    <3> DEFINE V == {Lines(L)[k] : k \in 1..Cardinality(Ends(L))}
               m == Len(Lines(L))
    <3>2. \A k \in 1..Cardinality(Ends(L)) : Lines(L)[k] \in V
      OBVIOUS
    <3> HIDE DEF V
    <3>3. m \in Nat
      BY <3>1, <3>2, LinesType, EndsType
    <3> DEFINE x == IF m > 0 THEN m - 0 + 1 ELSE 1
    <3>4. LastOf(Lines(L), 0) = SubSeq(Lines(L), x, m)
      BY DEF LastOf
    <3> HIDE DEF m
    <3>5. x \in Int /\ m \in Int /\ m < x
      BY <3>3
    <3> HIDE DEF x
    <3>6. SubSeq(Lines(L), x, m) = <<>>
      BY <3>5, SubSeqEmpty
    <3> QED
      BY <3>4, <3>6 DEF L, m
  <2>2. r.buf = <<>> /\ r.buf \in Seq(T)
    BY <1>1, EmptySeq DEF ReadKeeps
  <2> QED
    BY <1>1, <2>1, <2>2
<1>2. CASE n # 0
  <2>1. r.buf = Behind(f, r.pos) /\ r.pos \in 0..Len(f)
    BY <1>2 DEF ReadKeeps
  <2>2. CASE EnoughFeeds(r.buf, n)
    <3>1. EnoughFeeds(Part(f, r.pos + 1, Len(f)), n)
      BY <2>1, <2>2 DEF Behind
    <3> QED
      BY <1>2, <2>1, <3>1, TailOfFile DEF Behind
  <2>3. CASE r.pos = 0
    <3>1. Behind(f, 0) = f
      <4> DEFINE c == Part(f, 0 + 1, Len(f))
      <4>1. Len(f) \in Nat /\ 0 \in 0..Len(f)
        BY LenProperties
      <4>2. c \in Seq(T) /\ Len(c) = Len(f) - 0 /\ \A i \in 1..(Len(f) - 0) : c[i] = f[0 + i]
        BY <4>1, PartToEnd
      <4> HIDE DEF c
      <4>3. Len(c) = Len(f) /\ \A i \in 1..Len(c) : c[i] = f[i]
        BY <4>1, <4>2
      <4>4. c = f
        BY <4>2, <4>3, SeqEqual
      <4> QED
        BY <4>4 DEF c, Behind
    <3> QED
      BY <2>1, <2>3, <3>1
  <2> QED
    BY <1>2, <2>2, <2>3 DEF ReadKeeps
<1> QED
  BY <1>1, <1>2

-----------------------------------------------------------------------------
(* Sinks.  A stream keeps its lines if what the tee has read of the pipe is,   *)
(* but for what failed, in the file; the failures are counted against it.      *)

Piece == Line \cup {Newline}

\* The lines among the pieces a, behind what was there before.
TextsIn(found, a) == {i \in (Len(found) + 1)..Len(a) : a[i] # Newline}

\* They are among the first n lines, in their order.
Ordered(lines, n, found, a) ==
    \E kept \in [TextsIn(found, a) -> 1..n] :
        /\ \A i \in TextsIn(found, a) : a[i] = lines[kept[i]]
        /\ \A i, j \in TextsIn(found, a) : i < j => kept[i] < kept[j]

LEMMA TextsFinite ==
    ASSUME NEW found \in Seq(Piece), NEW a \in Seq(Piece)
    PROVE  IsFiniteSet(TextsIn(found, a)) /\ Cardinality(TextsIn(found, a)) \in Nat
<1>1. IsFiniteSet((Len(found) + 1)..Len(a))
  <2>1. Len(found) + 1 \in Int /\ Len(a) \in Int
    OBVIOUS
  <2> QED
    BY <2>1, FS_Interval
<1>2. TextsIn(found, a) \subseteq (Len(found) + 1)..Len(a)
  BY DEF TextsIn
<1>3. IsFiniteSet(TextsIn(found, a))
  BY <1>1, <1>2, FS_Subset
<1> QED
  BY <1>3, FS_CardinalityType

\* A piece more, or less.
LEMMA TextsOfMore ==
    ASSUME NEW found \in Seq(Piece), NEW a \in Seq(Piece), Len(found) <= Len(a), NEW x \in Piece
    PROVE  /\ x = Newline => TextsIn(found, Append(a, x)) = TextsIn(found, a)
           /\ x # Newline =>
                 /\ TextsIn(found, Append(a, x)) = TextsIn(found, a) \cup {Len(a) + 1}
                 /\ Cardinality(TextsIn(found, Append(a, x))) = Cardinality(TextsIn(found, a)) + 1
           /\ Len(a) + 1 \notin TextsIn(found, a)
           /\ \A i \in TextsIn(found, a) : i \in 1..Len(a) /\ Append(a, x)[i] = a[i]
<1> DEFINE old == TextsIn(found, a)
           new == TextsIn(found, Append(a, x))
<1>1. /\ Len(Append(a, x)) = Len(a) + 1 /\ Append(a, x)[Len(a) + 1] = x
      /\ \A i \in 1..Len(a) : Append(a, x)[i] = a[i]
      /\ Len(found) \in Nat /\ Len(a) \in Nat
  OBVIOUS
<1>2. Len(a) + 1 \notin old /\ \A i \in old : i \in 1..Len(a)
  BY <1>1 DEF TextsIn
<1>3. x = Newline => new = old
  BY <1>1 DEF TextsIn
<1>4. x # Newline => new = old \cup {Len(a) + 1}
  BY <1>1 DEF TextsIn
<1>5. IsFiniteSet(old)
  BY TextsFinite
<1>6. Cardinality(old \cup {Len(a) + 1}) = Cardinality(old) + 1
  BY <1>2, <1>5, FS_AddElement
<1>7. \A i \in old : i \in 1..Len(a) /\ Append(a, x)[i] = a[i]
  BY <1>1, <1>2
<1> QED
  BY <1>2, <1>3, <1>4, <1>6, <1>7

LEMMA OrderOfMore ==
    ASSUME NEW lines \in Seq(Line), NEW n \in 0..(Len(lines) - 1),
           NEW found \in Seq(Piece), NEW a \in Seq(Piece), Len(found) <= Len(a),
           Ordered(lines, n, found, a), lines[n + 1] # Newline
    PROVE  Ordered(lines, n + 1, found, Append(a, lines[n + 1]))
<1> DEFINE x == lines[n + 1]
           old == TextsIn(found, a)
           new == TextsIn(found, Append(a, x))
           last == Len(a) + 1
<1>1. x \in Piece
  BY DEF Piece
<1>2. /\ new = old \cup {last} /\ last \notin old /\ last \in Int
      /\ \A i \in old : i < last /\ i \in Int /\ Append(a, x)[i] = a[i]
  <2>1. /\ new = old \cup {last} /\ last \notin old
        /\ \A i \in old : i \in 1..Len(a) /\ Append(a, x)[i] = a[i]
    BY <1>1, TextsOfMore
  <2> HIDE DEF old, new
  <2> QED
    BY <2>1
<1>3. PICK kept \in [old -> 1..n] :
          /\ \A i \in old : a[i] = lines[kept[i]]
          /\ \A i, j \in old : i < j => kept[i] < kept[j]
  BY DEF Ordered
<1> DEFINE more == [i \in new |-> IF i = last THEN n + 1 ELSE kept[i]]
<1>4. Append(a, x)[last] = x
  OBVIOUS
<1> HIDE DEF old, new, last
<1>5. more \in [new -> 1..(n + 1)]
  BY <1>2, <1>3
<1>6. \A i \in new : Append(a, x)[i] = lines[more[i]]
  BY <1>2, <1>3, <1>4
<1>7. \A i, j \in new : i < j => more[i] < more[j]
  BY <1>2, <1>3
<1> HIDE DEF more
<1> QED
  BY <1>5, <1>6, <1>7 DEF Ordered, new

LEMMA OrderOfLess ==
    ASSUME NEW lines, NEW n \in Nat, NEW found \in Seq(Piece), NEW a \in Seq(Piece),
           Len(found) <= Len(a), NEW x \in Piece, Ordered(lines, n, found, Append(a, x))
    PROVE  Ordered(lines, n, found, a)
<1> DEFINE old == TextsIn(found, a)
           new == TextsIn(found, Append(a, x))
<1>1. old \subseteq new /\ \A i \in old : Append(a, x)[i] = a[i]
  BY TextsOfMore
<1>2. PICK kept \in [new -> 1..n] :
          /\ \A i \in new : Append(a, x)[i] = lines[kept[i]]
          /\ \A i, j \in new : i < j => kept[i] < kept[j]
  BY DEF Ordered
<1> DEFINE less == [i \in old |-> kept[i]]
<1> HIDE DEF old, new
<1>3. /\ less \in [old -> 1..n]
      /\ \A i \in old : a[i] = lines[less[i]]
      /\ \A i, j \in old : i < j => less[i] < less[j]
  BY <1>1, <1>2
<1> HIDE DEF less
<1> QED
  BY <1>3 DEF Ordered, old

LEMMA OrderOfNewline ==
    ASSUME NEW lines, NEW n \in Nat, NEW found \in Seq(Piece), NEW a \in Seq(Piece),
           Len(found) <= Len(a), Ordered(lines, n, found, a)
    PROVE  Ordered(lines, n, found, Append(a, Newline))
<1> DEFINE old == TextsIn(found, a)
           new == TextsIn(found, Append(a, Newline))
<1>1. old = new /\ \A i \in old : Append(a, Newline)[i] = a[i]
  <2>1. Newline \in Piece
    BY DEF Piece
  <2> QED
    BY <2>1, TextsOfMore
<1>2. PICK kept \in [old -> 1..n] :
          /\ \A i \in old : a[i] = lines[kept[i]]
          /\ \A i, j \in old : i < j => kept[i] < kept[j]
  BY DEF Ordered
<1> HIDE DEF old, new
<1>3. /\ kept \in [new -> 1..n]
      /\ \A i \in new : Append(a, Newline)[i] = lines[kept[i]]
      /\ \A i, j \in new : i < j => kept[i] < kept[j]
  BY <1>1, <1>2
<1> QED
  BY <1>3 DEF Ordered, new

LEMMA OrderAmongMore ==
    ASSUME NEW lines, NEW n \in Nat, NEW found, NEW a, Ordered(lines, n, found, a)
    PROVE  Ordered(lines, n + 1, found, a)
<1>1. PICK kept \in [TextsIn(found, a) -> 1..n] :
          /\ \A i \in TextsIn(found, a) : a[i] = lines[kept[i]]
          /\ \A i, j \in TextsIn(found, a) : i < j => kept[i] < kept[j]
  BY DEF Ordered
<1>2. kept \in [TextsIn(found, a) -> 1..(n + 1)]
  BY <1>1
<1> QED
  BY <1>1, <1>2 DEF Ordered
-----------------------------------------------------------------------------
\* One stream: its lines, what was in its file, what is in its pipe, its file, its tee.
PipeKeeps(lines, p) ==
    /\ lines \in Seq(Line) /\ p \in Seq(Line) /\ Len(p) <= Len(lines)
    /\ \A i \in 1..Len(p) : p[i] = lines[Len(lines) - Len(p) + i]
Read(lines, p) == Len(lines) - Len(p)
AllOf(f) == f.disk \o f.busy
FileType(f) ==
    /\ DOMAIN f = {"disk", "busy", "failed"}
    /\ f.disk \in Seq(Piece) /\ f.busy \in Seq(Piece) /\ f.failed \in BOOLEAN
    /\ f.failed => f.busy = <<>>
FoundFirst(found, a) ==
    /\ found \in Seq(Piece) /\ Len(found) <= Len(a)
    /\ \A i \in 1..Len(found) : a[i] = found[i]

\* What the tee has left off at.
TeeKeeps(lines, p, f, t) ==
    /\ t \in {"read", "newline", "done"}
    /\ t = "newline" => Read(lines, p) >= 1
    /\ t = "done" => p = <<>>
    /\ f.busy # <<>> => f.busy = <<IF t = "newline" THEN lines[Read(lines, p)] ELSE Newline>>

Owed(f, t) == IF f.failed /\ t # "newline" THEN 1 ELSE 0
Missed(lines, found, p, f) == Read(lines, p) - Cardinality(TextsIn(found, AllOf(f)))
Spent(lines, found, p, f, t) == Missed(lines, found, p, f) + Owed(f, t)

Turn(lines, i) == IF i % 2 = 1 THEN lines[(i + 1) \div 2] ELSE Newline
Exact(lines, found, p, f, t) ==
    LET n == 2 * Read(lines, p) - (IF t = "newline" THEN 1 ELSE 0)
    IN  /\ ~f.failed
        /\ Len(AllOf(f)) = Len(found) + n
        /\ \A i \in 1..n : AllOf(f)[Len(found) + i] = Turn(lines, i)

StreamKeeps(lines, found, p, f, t) ==
    /\ PipeKeeps(lines, p)
    /\ FileType(f)
    /\ FoundFirst(found, f.disk)
    /\ TeeKeeps(lines, p, f, t)
    /\ Ordered(lines, Read(lines, p), found, AllOf(f))
    /\ Missed(lines, found, p, f) >= 0

\* What is in a file whose last write has landed, and one that has still to.
LEMMA AllOfReady ==
    ASSUME NEW f, FileType(f), f.busy = <<>>
    PROVE  AllOf(f) = f.disk /\ AllOf(f) \in Seq(Piece)
BY DEF AllOf, FileType

LEMMA AllOfBusy ==
    ASSUME NEW f, FileType(f), NEW x \in Piece, f.busy = <<x>>
    PROVE  AllOf(f) = Append(f.disk, x) /\ AllOf(f) \in Seq(Piece)
<1>1. f.disk \in Seq(Piece)
  BY DEF FileType
<1>2. \A d \in Seq(Piece) : d \o <<x>> = Append(d, x) /\ Append(d, x) \in Seq(Piece)
  OBVIOUS
<1> QED
  BY <1>1, <1>2 DEF AllOf

LEMMA PipeAdvances ==
    ASSUME NEW lines, NEW p, PipeKeeps(lines, p), p # <<>>
    PROVE  /\ PipeKeeps(lines, Tail(p)) /\ Read(lines, Tail(p)) = Read(lines, p) + 1
           /\ Head(p) = lines[Read(lines, p) + 1] /\ Head(p) \in Line
           /\ Read(lines, p) \in 0..(Len(lines) - 1)
<1>1. /\ Len(Tail(p)) = Len(p) - 1 /\ Tail(p) \in Seq(Line) /\ Len(p) \in Nat \ {0}
      /\ \A i \in 1..(Len(p) - 1) : Tail(p)[i] = p[i + 1]
      /\ Head(p) = p[1] /\ p[1] \in Line
  BY DEF PipeKeeps
<1>2. Len(lines) \in Nat
  BY DEF PipeKeeps
<1> QED
  BY <1>1, <1>2 DEF PipeKeeps, Read

LEMMA ReadType ==
    ASSUME NEW lines, NEW p, PipeKeeps(lines, p)
    PROVE  Read(lines, p) \in Nat /\ Read(lines, p) <= Len(lines) /\ Len(lines) \in Nat
BY DEF PipeKeeps, Read

\* A write that has landed.
LEMMA LandKeeps ==
    ASSUME NEW lines, NEW found, NEW p, NEW f, NEW t,
           StreamKeeps(lines, found, p, f, t), f.busy # <<>>
    PROVE  /\ StreamKeeps(lines, found, p, Landed(f), t)
           /\ Spent(lines, found, p, Landed(f), t) = Spent(lines, found, p, f, t)
           /\ Exact(lines, found, p, f, t) => Exact(lines, found, p, Landed(f), t)
<1>1. PICK x \in Piece : f.busy = <<x>>
  BY ReadType DEF StreamKeeps, TeeKeeps, PipeKeeps, Piece
<1> DEFINE g == Landed(f)
<1>2. /\ g.disk = Append(f.disk, x) /\ g.busy = <<>> /\ g.failed = f.failed
      /\ FileType(g) /\ f.disk \in Seq(Piece)
  <2>1. FileType(f) /\ ~f.failed
    BY <1>1 DEF StreamKeeps, FileType
  <2>2. AllOf(f) = Append(f.disk, x) /\ AllOf(f) \in Seq(Piece)
    BY <1>1, AllOfBusy DEF StreamKeeps
  <2>3. g.disk = AllOf(f) /\ g.busy = <<>> /\ g.failed = f.failed /\ DOMAIN g = DOMAIN f
    BY <2>1 DEF FileType, Landed, AllOf
  <2> HIDE DEF g
  <2> QED
    BY <2>1, <2>2, <2>3 DEF FileType
<1> HIDE DEF g
<1>3. AllOf(g) = AllOf(f)
  BY <1>1, <1>2, AllOfReady, AllOfBusy DEF StreamKeeps
<1>4. FoundFirst(found, g.disk)
  BY <1>2 DEF StreamKeeps, FoundFirst
<1>5. TeeKeeps(lines, p, g, t)
  BY <1>2 DEF StreamKeeps, TeeKeeps
<1>6. Missed(lines, found, p, g) = Missed(lines, found, p, f) /\ Owed(g, t) = Owed(f, t)
  BY <1>2, <1>3 DEF Missed, Owed
<1>7. StreamKeeps(lines, found, p, g, t)
  BY <1>2, <1>3, <1>4, <1>5, <1>6 DEF StreamKeeps
<1>8. Exact(lines, found, p, f, t) => Exact(lines, found, p, g, t)
  BY <1>2, <1>3 DEF Exact
<1> QED
  BY <1>6, <1>7, <1>8 DEF Spent, g

\* A write that has failed: a line or a newline.
LEMMA LossKeeps ==
    ASSUME NEW lines, NEW found, NEW p, NEW f, NEW t,
           StreamKeeps(lines, found, p, f, t), f.busy # <<>>
    PROVE  /\ StreamKeeps(lines, found, p, Lost(f), t)
           /\ Spent(lines, found, p, Lost(f), t) = Spent(lines, found, p, f, t) + 1
<1>1. PICK x \in Piece : /\ f.busy = <<x>>
                         /\ x = IF t = "newline" THEN lines[Read(lines, p)] ELSE Newline
  BY ReadType DEF StreamKeeps, TeeKeeps, PipeKeeps, Piece
<1> DEFINE g == Lost(f)
<1>2. /\ g.disk = f.disk /\ g.busy = <<>> /\ g.failed = TRUE /\ ~f.failed
      /\ FileType(g) /\ f.disk \in Seq(Piece)
  <2>1. FileType(f) /\ ~f.failed
    BY <1>1 DEF StreamKeeps, FileType
  <2>2. g.disk = f.disk /\ g.busy = <<>> /\ g.failed = TRUE /\ DOMAIN g = DOMAIN f
    BY <2>1 DEF FileType, Lost
  <2>3. <<>> \in Seq(Piece) /\ f.disk \in Seq(Piece) /\ DOMAIN f = {"disk", "busy", "failed"}
    BY <2>1 DEF FileType
  <2> HIDE DEF g
  <2>4. FileType(g)
    BY <2>2, <2>3 DEF FileType
  <2> QED
    BY <2>1, <2>2, <2>3, <2>4
<1> HIDE DEF g
<1>3. /\ AllOf(g) = f.disk /\ AllOf(f) = Append(f.disk, x)
  BY <1>1, <1>2, AllOfReady, AllOfBusy DEF StreamKeeps
<1>4. /\ FoundFirst(found, f.disk) /\ found \in Seq(Piece) /\ Len(found) <= Len(f.disk)
      /\ PipeKeeps(lines, p) /\ Read(lines, p) \in Nat
  BY ReadType DEF StreamKeeps, FoundFirst
<1>5. TeeKeeps(lines, p, g, t)
  BY <1>2 DEF StreamKeeps, TeeKeeps
<1>6. Ordered(lines, Read(lines, p), found, AllOf(g))
  BY <1>2, <1>3, <1>4, OrderOfLess DEF StreamKeeps
<1> DEFINE before == Cardinality(TextsIn(found, Append(f.disk, x)))
           after == Cardinality(TextsIn(found, f.disk))
<1>7. after \in Nat /\ before \in Nat
  <2>1. Append(f.disk, x) \in Seq(Piece)
    BY <1>2
  <2> QED
    BY <1>2, <1>4, <2>1, TextsFinite
<1>8. x = Newline => before = after
  BY <1>2, <1>4, TextsOfMore
<1>9. x # Newline => before = after + 1
  BY <1>2, <1>4, TextsOfMore
<1>10. t = "newline" <=> x # Newline
  <2>1. t = "newline" => lines[Read(lines, p)] \in Line
    BY <1>4, ReadType DEF StreamKeeps, TeeKeeps, PipeKeeps
  <2> QED
    BY <1>1, <2>1, SinksAssumption
<1> HIDE DEF before, after
<1>11. /\ Missed(lines, found, p, f) = Read(lines, p) - before
       /\ Missed(lines, found, p, g) = Read(lines, p) - after
  BY <1>3 DEF Missed, before, after
<1>12. Missed(lines, found, p, g) >= 0
  BY <1>4, <1>7, <1>8, <1>9, <1>11 DEF StreamKeeps
<1>13. Spent(lines, found, p, g, t) = Spent(lines, found, p, f, t) + 1
  BY <1>2, <1>4, <1>7, <1>8, <1>9, <1>10, <1>11 DEF Spent, Owed
<1>14. StreamKeeps(lines, found, p, g, t)
  BY <1>2, <1>4, <1>5, <1>6, <1>12 DEF StreamKeeps
<1> QED
  BY <1>13, <1>14 DEF g

\* A line that is handed to the file.
LEMMA TextKeeps ==
    ASSUME NEW lines, NEW found, NEW p, NEW f,
           StreamKeeps(lines, found, p, f, "read"), p # <<>>, f.busy = <<>>, ~f.failed
    PROVE  LET g == Written(f, Head(p)) IN
           /\ StreamKeeps(lines, found, Tail(p), g, "newline")
           /\ Spent(lines, found, Tail(p), g, "newline") = Spent(lines, found, p, f, "read")
           /\ Exact(lines, found, p, f, "read") => Exact(lines, found, Tail(p), g, "newline")
<1> DEFINE x == Head(p)
           g == Written(f, x)
           n == Read(lines, p)
<1>1. /\ PipeKeeps(lines, Tail(p)) /\ Read(lines, Tail(p)) = n + 1
      /\ x = lines[n + 1] /\ x \in Line /\ n \in 0..(Len(lines) - 1) /\ lines \in Seq(Line)
  BY PipeAdvances DEF StreamKeeps, PipeKeeps
<1>2. x \in Piece /\ x # Newline
  BY <1>1, SinksAssumption DEF Piece
<1>3. /\ g.disk = f.disk /\ g.busy = <<x>> /\ ~g.failed /\ FileType(g) /\ f.disk \in Seq(Piece)
  <2>1. FileType(f)
    BY DEF StreamKeeps
  <2>2. g.disk = f.disk /\ g.busy = <<x>> /\ g.failed = FALSE /\ DOMAIN g = DOMAIN f
    BY <2>1 DEF FileType, Written
  <2>3. <<x>> \in Seq(Piece)
    BY <1>2
  <2> HIDE DEF g
  <2> QED
    BY <2>1, <2>2, <2>3 DEF FileType
<1> HIDE DEF g, x, n
<1>4. AllOf(f) = f.disk /\ AllOf(g) = Append(f.disk, x)
  BY <1>2, <1>3, AllOfReady, AllOfBusy DEF StreamKeeps
<1>5. found \in Seq(Piece) /\ FoundFirst(found, f.disk) /\ Len(found) <= Len(f.disk)
  BY DEF StreamKeeps, FoundFirst
<1>6. TeeKeeps(lines, Tail(p), g, "newline")
  BY <1>1, <1>3 DEF TeeKeeps
<1>7. Ordered(lines, n + 1, found, AllOf(g))
  <2>1. Ordered(lines, n, found, f.disk)
    BY <1>4 DEF StreamKeeps, n
  <2> QED
    BY <1>1, <1>2, <1>3, <1>4, <1>5, <2>1, OrderOfMore
<1> DEFINE before == Cardinality(TextsIn(found, f.disk))
           after == Cardinality(TextsIn(found, Append(f.disk, x)))
<1>8. before \in Nat
  BY <1>3, <1>5, TextsFinite
<1>9. after = before + 1
  BY <1>2, <1>3, <1>5, TextsOfMore
<1> HIDE DEF before, after
<1>10. Missed(lines, found, p, f) = n - before
  BY <1>4 DEF Missed, before, n
<1>15. Missed(lines, found, Tail(p), g) = Read(lines, Tail(p)) - after
  BY <1>4 DEF Missed, after
<1>11. Missed(lines, found, Tail(p), g) = Missed(lines, found, p, f)
  BY <1>1, <1>8, <1>9, <1>10, <1>15
<1>12. StreamKeeps(lines, found, Tail(p), g, "newline")
  BY <1>1, <1>3, <1>5, <1>6, <1>7, <1>11 DEF StreamKeeps
<1>13. Spent(lines, found, Tail(p), g, "newline") = Spent(lines, found, p, f, "read")
  BY <1>3, <1>11 DEF Spent, Owed
<1>14. ASSUME Exact(lines, found, p, f, "read")
       PROVE  Exact(lines, found, Tail(p), g, "newline")
  <2>1. /\ Len(f.disk) = Len(found) + 2 * n
        /\ \A i \in 1..(2 * n) : f.disk[Len(found) + i] = Turn(lines, i)
    BY <1>1, <1>4, <1>14 DEF Exact, n
  <2>2. /\ Len(Append(f.disk, x)) = Len(f.disk) + 1 /\ Append(f.disk, x)[Len(f.disk) + 1] = x
        /\ \A i \in 1..Len(f.disk) : Append(f.disk, x)[i] = f.disk[i]
        /\ Len(found) \in Nat
    BY <1>3, <1>5
  <2>3. Turn(lines, 2 * n + 1) = x
    BY <1>1 DEF Turn
  <2>4. \A i \in 1..(2 * n + 1) : Append(f.disk, x)[Len(found) + i] = Turn(lines, i)
    <3> SUFFICES ASSUME NEW i \in 1..(2 * n + 1)
                 PROVE  Append(f.disk, x)[Len(found) + i] = Turn(lines, i)
      OBVIOUS
    <3>1. n \in Nat
      BY <1>1
    <3>2. CASE i = 2 * n + 1
      BY <2>1, <2>2, <2>3, <3>1, <3>2
    <3>3. CASE i # 2 * n + 1
      <4>1. i \in 1..(2 * n) /\ Len(found) + i \in 1..Len(f.disk)
        BY <2>1, <2>2, <3>1, <3>3
      <4> QED
        BY <2>1, <2>2, <4>1
    <3> QED
      BY <3>2, <3>3
  <2>5. 2 * (n + 1) - 1 = 2 * n + 1
    BY <1>1
  <2>6. Len(Append(f.disk, x)) = Len(found) + (2 * n + 1)
    BY <1>1, <2>1, <2>2
  <2> QED
    BY <1>1, <1>3, <1>4, <2>4, <2>5, <2>6 DEF Exact
<1> QED
  BY <1>12, <1>13, <1>14 DEF g, x

\* A newline that is handed to the file.
LEMMA NewlineKeeps ==
    ASSUME NEW lines, NEW found, NEW p, NEW f,
           StreamKeeps(lines, found, p, f, "newline"), f.busy = <<>>, ~f.failed
    PROVE  LET g == Written(f, Newline) IN
           /\ StreamKeeps(lines, found, p, g, "read")
           /\ Spent(lines, found, p, g, "read") = Spent(lines, found, p, f, "newline")
           /\ Exact(lines, found, p, f, "newline") => Exact(lines, found, p, g, "read")
<1> DEFINE g == Written(f, Newline)
           n == Read(lines, p)
<1>1. PipeKeeps(lines, p) /\ n \in Nat /\ n >= 1 /\ Newline \in Piece
  BY ReadType DEF StreamKeeps, TeeKeeps, Piece
<1>2. /\ g.disk = f.disk /\ g.busy = <<Newline>> /\ ~g.failed /\ FileType(g) /\ f.disk \in Seq(Piece)
  <2>1. FileType(f)
    BY DEF StreamKeeps
  <2>2. g.disk = f.disk /\ g.busy = <<Newline>> /\ g.failed = FALSE /\ DOMAIN g = DOMAIN f
    BY <2>1 DEF FileType, Written
  <2>3. <<Newline>> \in Seq(Piece)
    BY <1>1
  <2> HIDE DEF g
  <2> QED
    BY <2>1, <2>2, <2>3 DEF FileType
<1> HIDE DEF g, n
<1>3. AllOf(f) = f.disk /\ AllOf(g) = Append(f.disk, Newline)
  BY <1>1, <1>2, AllOfReady, AllOfBusy DEF StreamKeeps
<1>4. found \in Seq(Piece) /\ FoundFirst(found, f.disk) /\ Len(found) <= Len(f.disk)
  BY DEF StreamKeeps, FoundFirst
<1>5. TeeKeeps(lines, p, g, "read")
  BY <1>2 DEF TeeKeeps
<1>6. Ordered(lines, n, found, AllOf(g))
  <2>1. Ordered(lines, n, found, f.disk)
    BY <1>3 DEF StreamKeeps, n
  <2> QED
    BY <1>1, <1>2, <1>3, <1>4, <2>1, OrderOfNewline
<1>7. TextsIn(found, AllOf(g)) = TextsIn(found, AllOf(f))
  BY <1>1, <1>2, <1>3, <1>4, TextsOfMore
<1>8. Missed(lines, found, p, g) = Missed(lines, found, p, f)
  BY <1>7 DEF Missed
<1>9. StreamKeeps(lines, found, p, g, "read")
  BY <1>1, <1>2, <1>4, <1>5, <1>6, <1>8 DEF StreamKeeps, n
<1>10. Spent(lines, found, p, g, "read") = Spent(lines, found, p, f, "newline")
  BY <1>2, <1>8 DEF Spent, Owed
<1>11. ASSUME Exact(lines, found, p, f, "newline")
       PROVE  Exact(lines, found, p, g, "read")
  <2> DEFINE m == 2 * n - 1
  <2>1. /\ Len(f.disk) = Len(found) + m
        /\ \A i \in 1..m : f.disk[Len(found) + i] = Turn(lines, i)
    BY <1>1, <1>3, <1>11 DEF Exact, n
  <2>2. /\ Len(Append(f.disk, Newline)) = Len(f.disk) + 1
        /\ Append(f.disk, Newline)[Len(f.disk) + 1] = Newline
        /\ \A i \in 1..Len(f.disk) : Append(f.disk, Newline)[i] = f.disk[i]
        /\ Len(found) \in Nat /\ Len(f.disk) \in Nat
    BY <1>1, <1>2, <1>4
  <2>3. m \in Nat /\ m + 1 = 2 * n - 0
    BY <1>1
  <2>4. Turn(lines, m + 1) = Newline
    BY <1>1 DEF Turn
  <2> HIDE DEF m
  <2>5. ASSUME NEW i \in 1..(m + 1)
        PROVE  Append(f.disk, Newline)[Len(found) + i] = Turn(lines, i)
    <3>1. CASE i = m + 1
      BY <2>1, <2>2, <2>3, <2>4, <3>1
    <3>2. CASE i # m + 1
      <4>1. i \in 1..m /\ Len(found) + i \in 1..Len(f.disk)
        BY <2>1, <2>2, <2>3, <3>2
      <4> QED
        BY <2>1, <2>2, <4>1
    <3> QED
      BY <3>1, <3>2
  <2>6. Len(Append(f.disk, Newline)) = Len(found) + (m + 1)
    BY <2>1, <2>2, <2>3
  <2>7. 2 * Read(lines, p) - 0 = m + 1
    BY <2>3 DEF n
  <2> QED
    BY <1>2, <1>3, <2>5, <2>6, <2>7 DEF Exact
<1> QED
  BY <1>9, <1>10, <1>11 DEF g

\* A write that is refused because the one before has failed.
Reported(f) == [f EXCEPT !.failed = FALSE]
LEMMA ReportedFile ==
    ASSUME NEW f, FileType(f), f.busy = <<>>
    PROVE  /\ FileType(Reported(f)) /\ ~Reported(f).failed
           /\ Reported(f).disk = f.disk /\ Reported(f).busy = <<>> /\ AllOf(Reported(f)) = AllOf(f)
<1> DEFINE g == Reported(f)
<1>1. /\ DOMAIN g = {"disk", "busy", "failed"} /\ g.failed = FALSE
      /\ g.disk = f.disk /\ g.busy = f.busy
  BY DEF FileType, Reported
<1> HIDE DEF g
<1>2. FileType(g)
  BY <1>1 DEF FileType
<1> QED
  BY <1>1, <1>2 DEF AllOf, g

LEMMA RefusedTextKeeps ==
    ASSUME NEW lines, NEW found, NEW p, NEW f,
           StreamKeeps(lines, found, p, f, "read"), p # <<>>, f.busy = <<>>, f.failed
    PROVE  /\ StreamKeeps(lines, found, Tail(p), Reported(f), "read")
           /\ Spent(lines, found, Tail(p), Reported(f), "read") = Spent(lines, found, p, f, "read")
<1> DEFINE g == Reported(f)
           n == Read(lines, p)
<1>1. PipeKeeps(lines, Tail(p)) /\ Read(lines, Tail(p)) = n + 1 /\ n \in Nat
  BY PipeAdvances DEF StreamKeeps, PipeKeeps
<1>2. FileType(g) /\ ~g.failed /\ g.disk = f.disk /\ g.busy = <<>> /\ AllOf(g) = AllOf(f)
  BY ReportedFile DEF StreamKeeps
<1> HIDE DEF g, n
<1>3. TeeKeeps(lines, Tail(p), g, "read")
  BY <1>2 DEF TeeKeeps
<1>4. Ordered(lines, n + 1, found, AllOf(g))
  BY <1>1, <1>2, OrderAmongMore DEF StreamKeeps, n
<1> DEFINE c == Cardinality(TextsIn(found, AllOf(f)))
<1>5. c \in Nat
  BY AllOfReady, TextsFinite DEF StreamKeeps, FoundFirst
<1> HIDE DEF c
<1>6. Missed(lines, found, p, f) = n - c
  BY DEF Missed, c, n
<1>7. Missed(lines, found, Tail(p), g) = Read(lines, Tail(p)) - c
  BY <1>2 DEF Missed, c
<1>8. Missed(lines, found, Tail(p), g) = Missed(lines, found, p, f) + 1 /\ n - c \in Int
  BY <1>1, <1>5, <1>6, <1>7
<1>9. Missed(lines, found, Tail(p), g) >= 0
  BY <1>6, <1>8 DEF StreamKeeps
<1>10. StreamKeeps(lines, found, Tail(p), g, "read")
  BY <1>1, <1>2, <1>3, <1>4, <1>9 DEF StreamKeeps
<1>11. Spent(lines, found, Tail(p), g, "read") = Spent(lines, found, p, f, "read")
  BY <1>2, <1>6, <1>8 DEF Spent, Owed
<1> QED
  BY <1>10, <1>11 DEF g

\* The failure of a line is told to its newline.
LEMMA RefusedNewlineKeeps ==
    ASSUME NEW lines, NEW found, NEW p, NEW f,
           StreamKeeps(lines, found, p, f, "newline"), f.busy = <<>>, f.failed
    PROVE  /\ StreamKeeps(lines, found, p, Reported(f), "read")
           /\ Spent(lines, found, p, Reported(f), "read") = Spent(lines, found, p, f, "newline")
<1> DEFINE g == Reported(f)
<1>1. FileType(g) /\ ~g.failed /\ g.disk = f.disk /\ g.busy = <<>> /\ AllOf(g) = AllOf(f)
  BY ReportedFile DEF StreamKeeps
<1> HIDE DEF g
<1>2. TeeKeeps(lines, p, g, "read")
  BY <1>1 DEF TeeKeeps
<1>3. Missed(lines, found, p, g) = Missed(lines, found, p, f)
  BY <1>1 DEF Missed
<1>4. StreamKeeps(lines, found, p, g, "read")
  BY <1>1, <1>2, <1>3 DEF StreamKeeps
<1>5. Spent(lines, found, p, g, "read") = Spent(lines, found, p, f, "newline")
  BY <1>1, <1>3 DEF Spent, Owed
<1> QED
  BY <1>4, <1>5 DEF g

\* The end of a tee, and a flush.
LEMMA DoneKeeps ==
    ASSUME NEW lines, NEW found, NEW p, NEW f, StreamKeeps(lines, found, p, f, "read"), p = <<>>
    PROVE  /\ StreamKeeps(lines, found, p, f, "done")
           /\ Spent(lines, found, p, f, "done") = Spent(lines, found, p, f, "read")
           /\ Exact(lines, found, p, f, "read") => Exact(lines, found, p, f, "done")
<1>1. TeeKeeps(lines, p, f, "done")
  BY DEF StreamKeeps, TeeKeeps
<1>2. StreamKeeps(lines, found, p, f, "done")
  BY <1>1 DEF StreamKeeps
<1>3. Spent(lines, found, p, f, "done") = Spent(lines, found, p, f, "read")
  BY DEF Spent, Owed
<1>4. Exact(lines, found, p, f, "read") => Exact(lines, found, p, f, "done")
  BY DEF Exact
<1> QED
  BY <1>2, <1>3, <1>4

LEMMA MissedType ==
    ASSUME NEW lines, NEW found, NEW p, NEW f, NEW t, StreamKeeps(lines, found, p, f, t)
    PROVE  Missed(lines, found, p, f) \in Nat
<1>1. AllOf(f) \in Seq(Piece)
  BY DEF StreamKeeps, FileType, AllOf
<1>2. Cardinality(TextsIn(found, AllOf(f))) \in Nat
  BY <1>1, TextsFinite DEF StreamKeeps, FoundFirst
<1>3. Read(lines, p) \in Nat
  BY ReadType DEF StreamKeeps
<1>4. Missed(lines, found, p, f) \in Int
  BY <1>2, <1>3 DEF Missed
<1> QED
  BY <1>4 DEF StreamKeeps

LEMMA FlushKeeps ==
    ASSUME NEW lines, NEW found, NEW p, NEW f, NEW t, t # "newline",
           StreamKeeps(lines, found, p, f, t), f.busy = <<>>
    PROVE  /\ StreamKeeps(lines, found, p, Reported(f), t)
           /\ Spent(lines, found, p, Reported(f), t) <= Spent(lines, found, p, f, t)
           /\ Exact(lines, found, p, f, t) => Exact(lines, found, p, Reported(f), t)
<1> DEFINE g == Reported(f)
<1>1. FileType(g) /\ ~g.failed /\ g.disk = f.disk /\ g.busy = <<>> /\ AllOf(g) = AllOf(f)
  BY ReportedFile DEF StreamKeeps
<1> HIDE DEF g
<1>2. TeeKeeps(lines, p, g, t)
  BY <1>1 DEF StreamKeeps, TeeKeeps
<1>3. Missed(lines, found, p, g) = Missed(lines, found, p, f)
  BY <1>1 DEF Missed
<1>4. StreamKeeps(lines, found, p, g, t)
  BY <1>1, <1>2, <1>3 DEF StreamKeeps
<1>5. Spent(lines, found, p, g, t) <= Spent(lines, found, p, f, t)
  BY <1>1, <1>3, MissedType DEF Spent, Owed
<1>6. Exact(lines, found, p, f, t) => Exact(lines, found, p, g, t)
  BY <1>1 DEF Exact
<1> QED
  BY <1>4, <1>5, <1>6 DEF g

-----------------------------------------------------------------------------
\* What a step does to one stream of a sink with files; n writes fail in it.
Moves(p, f, t, p2, f2, t2, n) ==
    \/ p2 = p /\ f2 = f /\ t2 = t /\ n = 0
    \/ /\ t = "read" /\ p # <<>> /\ f.busy = <<>> /\ n = 0
       /\ p2 = Tail(p) /\ f2 = Written(f, Head(p)) /\ t2 = IF f.failed THEN "read" ELSE "newline"
    \/ /\ t = "newline" /\ f.busy = <<>> /\ n = 0
       /\ p2 = p /\ f2 = Written(f, Newline) /\ t2 = "read"
    \/ t = "read" /\ p = <<>> /\ p2 = p /\ f2 = f /\ t2 = "done" /\ n = 0
    \/ f.busy # <<>> /\ p2 = p /\ f2 = Landed(f) /\ t2 = t /\ n = 0
    \/ f.busy # <<>> /\ p2 = p /\ f2 = Lost(f) /\ t2 = t /\ n = 1
    \/ t # "newline" /\ f.busy = <<>> /\ p2 = p /\ f2 = Reported(f) /\ t2 = t /\ n = 0

LEMMA MovesKeep ==
    ASSUME NEW lines, NEW found, NEW p, NEW f, NEW t, NEW p2, NEW f2, NEW t2, NEW n,
           StreamKeeps(lines, found, p, f, t), Moves(p, f, t, p2, f2, t2, n)
    PROVE  /\ StreamKeeps(lines, found, p2, f2, t2)
           /\ Spent(lines, found, p2, f2, t2) <= Spent(lines, found, p, f, t) + n
           /\ n = 0 /\ Exact(lines, found, p, f, t) => Exact(lines, found, p2, f2, t2)
           /\ n \in {0, 1}
<1>1. Spent(lines, found, p, f, t) \in Int
  BY MissedType DEF Spent, Owed
<1>2. CASE p2 = p /\ f2 = f /\ t2 = t /\ n = 0
  BY <1>1, <1>2
<1>3. CASE /\ t = "read" /\ p # <<>> /\ f.busy = <<>> /\ n = 0
           /\ p2 = Tail(p) /\ f2 = Written(f, Head(p)) /\ t2 = IF f.failed THEN "read" ELSE "newline"
  <2>1. CASE f.failed
    <3>1. f2 = Reported(f) /\ t2 = "read" /\ p2 = Tail(p) /\ t = "read"
      BY <1>3, <2>1 DEF Written, Reported
    <3>2. ~Exact(lines, found, p, f, t)
      BY <2>1 DEF Exact
    <3>3. /\ StreamKeeps(lines, found, p2, f2, t2)
          /\ Spent(lines, found, p2, f2, t2) = Spent(lines, found, p, f, t)
      BY <1>3, <2>1, <3>1, RefusedTextKeeps
    <3> QED
      BY <1>1, <1>3, <3>2, <3>3
  <2>2. CASE ~f.failed
    <3>1. t2 = "newline" /\ t = "read"
      BY <1>3, <2>2
    <3>2. /\ StreamKeeps(lines, found, p2, f2, t2)
          /\ Spent(lines, found, p2, f2, t2) = Spent(lines, found, p, f, t)
          /\ Exact(lines, found, p, f, t) => Exact(lines, found, p2, f2, t2)
      BY <1>3, <2>2, <3>1, TextKeeps
    <3> QED
      BY <1>1, <1>3, <3>2
  <2> QED
    BY <2>1, <2>2
<1>4. CASE /\ t = "newline" /\ f.busy = <<>> /\ n = 0
           /\ p2 = p /\ f2 = Written(f, Newline) /\ t2 = "read"
  <2>1. CASE f.failed
    <3>1. f2 = Reported(f)
      BY <1>4, <2>1 DEF Written, Reported
    <3>2. ~Exact(lines, found, p, f, t)
      BY <2>1 DEF Exact
    <3>3. /\ StreamKeeps(lines, found, p2, f2, t2)
          /\ Spent(lines, found, p2, f2, t2) = Spent(lines, found, p, f, t)
      BY <1>4, <2>1, <3>1, RefusedNewlineKeeps
    <3> QED
      BY <1>1, <1>4, <3>2, <3>3
  <2>2. CASE ~f.failed
    <3>1. /\ StreamKeeps(lines, found, p2, f2, t2)
          /\ Spent(lines, found, p2, f2, t2) = Spent(lines, found, p, f, t)
          /\ Exact(lines, found, p, f, t) => Exact(lines, found, p2, f2, t2)
      BY <1>4, <2>2, NewlineKeeps
    <3> QED
      BY <1>1, <1>4, <3>1
  <2> QED
    BY <2>1, <2>2
<1>5. CASE t = "read" /\ p = <<>> /\ p2 = p /\ f2 = f /\ t2 = "done" /\ n = 0
  <2>1. /\ StreamKeeps(lines, found, p2, f2, t2)
        /\ Spent(lines, found, p2, f2, t2) = Spent(lines, found, p, f, t)
        /\ Exact(lines, found, p, f, t) => Exact(lines, found, p2, f2, t2)
    BY <1>5, DoneKeeps
  <2> QED
    BY <1>1, <1>5, <2>1
<1>6. CASE f.busy # <<>> /\ p2 = p /\ f2 = Landed(f) /\ t2 = t /\ n = 0
  <2>1. /\ StreamKeeps(lines, found, p2, f2, t2)
        /\ Spent(lines, found, p2, f2, t2) = Spent(lines, found, p, f, t)
        /\ Exact(lines, found, p, f, t) => Exact(lines, found, p2, f2, t2)
    BY <1>6, LandKeeps
  <2> QED
    BY <1>1, <1>6, <2>1
<1>7. CASE f.busy # <<>> /\ p2 = p /\ f2 = Lost(f) /\ t2 = t /\ n = 1
  <2>1. /\ StreamKeeps(lines, found, p2, f2, t2)
        /\ Spent(lines, found, p2, f2, t2) = Spent(lines, found, p, f, t) + 1
    BY <1>7, LossKeeps
  <2> QED
    BY <1>1, <1>7, <2>1
<1>8. CASE t # "newline" /\ f.busy = <<>> /\ p2 = p /\ f2 = Reported(f) /\ t2 = t /\ n = 0
  <2>1. /\ StreamKeeps(lines, found, p2, f2, t2)
        /\ Spent(lines, found, p2, f2, t2) <= Spent(lines, found, p, f, t)
        /\ Exact(lines, found, p, f, t) => Exact(lines, found, p2, f2, t2)
    BY <1>8, FlushKeeps
  <2> QED
    BY <1>1, <1>8, <2>1
<1> QED
  BY <1>2, <1>3, <1>4, <1>5, <1>6, <1>7, <1>8 DEF Moves

-----------------------------------------------------------------------------
SinkShape(k) ==
    /\ DOMAIN k = {"kind", "pipe", "given", "file", "tee", "waiter", "failures"}
    /\ DOMAIN k.pipe = Streams /\ DOMAIN k.file = Streams /\ DOMAIN k.tee = Streams
    /\ k.failures \in Nat
    /\ \A s \in Streams : DOMAIN k.file[s] = {"disk", "busy", "failed"}

StreamMoves(k, k2, r, n) ==
    /\ Moves(k.pipe[r], k.file[r], k.tee[r], k2.pipe[r], k2.file[r], k2.tee[r], n)
    /\ k2.failures = k.failures + n
    /\ \A s \in Streams \ {r} :
          k2.pipe[s] = k.pipe[s] /\ k2.file[s] = k.file[s] /\ k2.tee[s] = k.tee[s]

LEMMA WrittenShape ==
    ASSUME NEW f, NEW x, DOMAIN f = {"disk", "busy", "failed"}
    PROVE  /\ DOMAIN Written(f, x) = {"disk", "busy", "failed"}
           /\ DOMAIN Landed(f) = {"disk", "busy", "failed"}
           /\ DOMAIN Lost(f) = {"disk", "busy", "failed"}
           /\ DOMAIN Reported(f) = {"disk", "busy", "failed"}
BY DEF Written, Landed, Lost, Reported

\* Each step of a sink with files is such a move of one of its streams.
LEMMA SinkStepMoves ==
    ASSUME NEW k, SinkShape(k), k.kind = "file", NEW k2 \in SinkNext(k)
    PROVE  /\ SinkShape(k2) /\ k2.kind = k.kind
           /\ \E r \in Streams : \E n \in {0, 1} : StreamMoves(k, k2, r, n)
<1> USE DEF FileOf
<1>1. ASSUME k2 \in ChildEnds(k)
      PROVE  /\ SinkShape(k2) /\ k2.kind = k.kind
             /\ \E r \in Streams : \E n \in {0, 1} : StreamMoves(k, k2, r, n)
  <2>1. k2 = [k EXCEPT !.waiter = "Stdout"]
    BY <1>1 DEF ChildEnds
  <2>2. /\ SinkShape(k2) /\ k2.kind = k.kind
        /\ k2.pipe = k.pipe /\ k2.file = k.file /\ k2.tee = k.tee /\ k2.failures = k.failures
    BY <2>1 DEF SinkShape
  <2>3. "Stdout" \in Streams
    BY DEF Streams
  <2>4. StreamMoves(k, k2, "Stdout", 0)
    BY <2>2 DEF StreamMoves, Moves, SinkShape
  <2> QED
    BY <2>2, <2>3, <2>4
<1>2. ASSUME k2 \in Flush(k)
      PROVE  /\ SinkShape(k2) /\ k2.kind = k.kind
             /\ \E r \in Streams : \E n \in {0, 1} : StreamMoves(k, k2, r, n)
  <2> DEFINE s == k.waiter
  <2>1. PICK w : k2 = [k EXCEPT !.waiter = w, !.file[s].failed = FALSE]
    BY <1>2 DEF Flush
  <2>2. s \in Streams /\ k.tee[s] # "newline" /\ k.file[s].busy = <<>>
    BY <1>2 DEF Flush, Ready
  <2> HIDE DEF s
  <2>3. /\ k2.kind = k.kind /\ k2.pipe = k.pipe /\ k2.tee = k.tee /\ k2.failures = k.failures
        /\ DOMAIN k2 = DOMAIN k
        /\ k2.file = [k.file EXCEPT ![s].failed = FALSE]
    BY <2>1 DEF SinkShape
  <2>4. k2.file[s] = Reported(k.file[s]) /\ DOMAIN k2.file = Streams
    BY <2>2, <2>3 DEF SinkShape, Reported
  <2>5. \A r \in Streams \ {s} : k2.file[r] = k.file[r]
    BY <2>2, <2>3 DEF SinkShape
  <2>6. SinkShape(k2)
    BY <2>2, <2>3, <2>4, <2>5, WrittenShape DEF SinkShape
  <2>7. StreamMoves(k, k2, s, 0)
    BY <2>2, <2>3, <2>4, <2>5 DEF StreamMoves, Moves, SinkShape
  <2> QED
    BY <2>2, <2>3, <2>6, <2>7
<1>3. ASSUME NEW s \in Streams, k2 \in AppendText(k, s)
      PROVE  /\ SinkShape(k2) /\ k2.kind = k.kind
             /\ \E r \in Streams : \E n \in {0, 1} : StreamMoves(k, k2, r, n)
  <2>1. /\ k2 = [k EXCEPT !.pipe[s] = Tail(@), !.file[s] = Written(@, Head(k.pipe[s])),
                          !.tee[s] = IF k.file[s].failed THEN "read" ELSE "newline"]
        /\ k.tee[s] = "read" /\ k.pipe[s] # <<>> /\ k.file[s].busy = <<>>
    BY <1>3 DEF AppendText, Ready
  <2>2. /\ k2.kind = k.kind /\ k2.failures = k.failures /\ DOMAIN k2 = DOMAIN k
        /\ k2.pipe = [k.pipe EXCEPT ![s] = Tail(@)]
        /\ k2.file = [k.file EXCEPT ![s] = Written(@, Head(k.pipe[s]))]
        /\ k2.tee = [k.tee EXCEPT ![s] = IF k.file[s].failed THEN "read" ELSE "newline"]
    BY <2>1 DEF SinkShape
  <2>5. \A r \in Streams : DOMAIN k2.file[r] = {"disk", "busy", "failed"}
    <3>1. DOMAIN Written(k.file[s], Head(k.pipe[s])) = {"disk", "busy", "failed"}
      BY WrittenShape DEF SinkShape
    <3>2. k2.file[s] = Written(k.file[s], Head(k.pipe[s]))
      BY <2>2 DEF SinkShape
    <3>3. \A r \in Streams \ {s} : k2.file[r] = k.file[r]
      BY <2>2 DEF SinkShape
    <3> QED
      BY <3>1, <3>2, <3>3 DEF SinkShape
  <2>6. DOMAIN k2.file = Streams /\ DOMAIN k2.pipe = Streams /\ DOMAIN k2.tee = Streams
    BY <2>2 DEF SinkShape
  <2>7. k2.failures \in Nat
    BY <2>2 DEF SinkShape
  <2>3. SinkShape(k2)
    BY <2>2, <2>5, <2>6, <2>7 DEF SinkShape
  <2>4. StreamMoves(k, k2, s, 0)
    BY <2>1, <2>2 DEF StreamMoves, Moves, SinkShape
  <2> QED
    BY <2>2, <2>3, <2>4
<1>4. ASSUME NEW s \in Streams, k2 \in AppendNewline(k, s)
      PROVE  /\ SinkShape(k2) /\ k2.kind = k.kind
             /\ \E r \in Streams : \E n \in {0, 1} : StreamMoves(k, k2, r, n)
  <2>1. /\ k2 = [k EXCEPT !.file[s] = Written(@, Newline), !.tee[s] = "read"]
        /\ k.tee[s] = "newline" /\ k.file[s].busy = <<>>
    BY <1>4 DEF AppendNewline, Ready
  <2>2. /\ k2.kind = k.kind /\ k2.failures = k.failures /\ DOMAIN k2 = DOMAIN k
        /\ k2.pipe = k.pipe
        /\ k2.file = [k.file EXCEPT ![s] = Written(@, Newline)]
        /\ k2.tee = [k.tee EXCEPT ![s] = "read"]
    BY <2>1 DEF SinkShape
  <2>3. SinkShape(k2)
    BY <2>2, WrittenShape DEF SinkShape
  <2>4. StreamMoves(k, k2, s, 0)
    BY <2>1, <2>2 DEF StreamMoves, Moves, SinkShape
  <2> QED
    BY <2>2, <2>3, <2>4
<1>5. ASSUME NEW s \in Streams, k2 \in TeeEnds(k, s)
      PROVE  /\ SinkShape(k2) /\ k2.kind = k.kind
             /\ \E r \in Streams : \E n \in {0, 1} : StreamMoves(k, k2, r, n)
  <2>1. /\ k2 = [k EXCEPT !.tee[s] = "done"]
        /\ k.tee[s] = "read" /\ k.pipe[s] = <<>>
    BY <1>5 DEF TeeEnds
  <2>2. /\ k2.kind = k.kind /\ k2.failures = k.failures /\ DOMAIN k2 = DOMAIN k
        /\ k2.pipe = k.pipe /\ k2.file = k.file /\ k2.tee = [k.tee EXCEPT ![s] = "done"]
    BY <2>1 DEF SinkShape
  <2>3. SinkShape(k2)
    BY <2>2 DEF SinkShape
  <2>4. StreamMoves(k, k2, s, 0)
    BY <2>1, <2>2 DEF StreamMoves, Moves, SinkShape
  <2> QED
    BY <2>2, <2>3, <2>4
<1>6. ASSUME NEW s \in Streams, k2 \in Land(k, s)
      PROVE  /\ SinkShape(k2) /\ k2.kind = k.kind
             /\ \E r \in Streams : \E n \in {0, 1} : StreamMoves(k, k2, r, n)
  <2>1. k2 = [k EXCEPT !.file[s] = Landed(@)] /\ k.file[s].busy # <<>>
    BY <1>6 DEF Land, Ready
  <2>2. /\ k2.kind = k.kind /\ k2.failures = k.failures /\ DOMAIN k2 = DOMAIN k
        /\ k2.pipe = k.pipe /\ k2.file = [k.file EXCEPT ![s] = Landed(@)] /\ k2.tee = k.tee
    BY <2>1 DEF SinkShape
  <2>3. SinkShape(k2)
    BY <2>2, WrittenShape DEF SinkShape
  <2>4. StreamMoves(k, k2, s, 0)
    BY <2>1, <2>2 DEF StreamMoves, Moves, SinkShape
  <2> QED
    BY <2>2, <2>3, <2>4
<1>7. ASSUME NEW s \in Streams, k2 \in LandFails(k, s)
      PROVE  /\ SinkShape(k2) /\ k2.kind = k.kind
             /\ \E r \in Streams : \E n \in {0, 1} : StreamMoves(k, k2, r, n)
  <2>1. k2 = [k EXCEPT !.file[s] = Lost(@), !.failures = @ + 1] /\ k.file[s].busy # <<>>
    BY <1>7 DEF LandFails, Ready
  <2>2. /\ k2.kind = k.kind /\ k2.failures = k.failures + 1 /\ DOMAIN k2 = DOMAIN k
        /\ k2.pipe = k.pipe /\ k2.file = [k.file EXCEPT ![s] = Lost(@)] /\ k2.tee = k.tee
    BY <2>1 DEF SinkShape
  <2>5. \A r \in Streams : DOMAIN k2.file[r] = {"disk", "busy", "failed"}
    <3>1. DOMAIN Lost(k.file[s]) = {"disk", "busy", "failed"}
      BY WrittenShape DEF SinkShape
    <3>2. k2.file[s] = Lost(k.file[s])
      BY <2>2 DEF SinkShape
    <3>3. \A r \in Streams \ {s} : k2.file[r] = k.file[r]
      BY <2>2 DEF SinkShape
    <3> QED
      BY <3>1, <3>2, <3>3 DEF SinkShape
  <2>6. DOMAIN k2.file = Streams /\ DOMAIN k2.pipe = Streams /\ DOMAIN k2.tee = Streams
    BY <2>2 DEF SinkShape
  <2>7. k2.failures \in Nat
    BY <2>2 DEF SinkShape
  <2>3. SinkShape(k2)
    BY <2>2, <2>5, <2>6, <2>7 DEF SinkShape
  <2>4. StreamMoves(k, k2, s, 1)
    BY <2>1, <2>2 DEF StreamMoves, Moves, SinkShape
  <2> QED
    BY <2>2, <2>3, <2>4
<1>8. \A s \in Streams : k2 \notin AppendAtOnce(k, s)
  BY DEF AppendAtOnce
<1> QED
  BY <1>1, <1>2, <1>3, <1>4, <1>5, <1>6, <1>7, <1>8 DEF SinkNext

-----------------------------------------------------------------------------
\* A sink without files: what it was given of one stream.
Entry == [stream : Streams, line : Line]
OfStream(g, s) == {i \in DOMAIN g : g[i].stream = s}
UpTo(S, i) == {j \in S : j <= i}
GivenKeeps(lines, p, g, s) ==
    /\ PipeKeeps(lines, p)
    /\ g \in Seq(Entry)
    /\ Cardinality(OfStream(g, s)) = Read(lines, p)
    /\ \A i \in OfStream(g, s) : g[i].line = lines[Cardinality(UpTo(OfStream(g, s), i))]

LEMMA OfStreamMore ==
    ASSUME NEW g \in Seq(Entry), NEW s,
           NEW e \in Entry
    PROVE  /\ Append(g, e) \in Seq(Entry)
           /\ OfStream(Append(g, e), s) =
                  IF e.stream = s THEN OfStream(g, s) \cup {Len(g) + 1} ELSE OfStream(g, s)
           /\ \A i \in OfStream(g, s) : i \in 1..Len(g) /\ Append(g, e)[i] = g[i]
           /\ Append(g, e)[Len(g) + 1] = e
           /\ IsFiniteSet(OfStream(g, s))
<1> DEFINE g2 == Append(g, e)
<1>2. /\ g2 \in Seq(Entry) /\ Len(g) \in Nat
      /\ DOMAIN g = 1..Len(g) /\ DOMAIN g2 = 1..(Len(g) + 1)
      /\ g2[Len(g) + 1] = e /\ \A i \in 1..Len(g) : g2[i] = g[i]
  OBVIOUS
<1> HIDE DEF g2
<1>3. OfStream(g2, s) = IF e.stream = s THEN OfStream(g, s) \cup {Len(g) + 1} ELSE OfStream(g, s)
  BY <1>2 DEF OfStream
<1>4. OfStream(g, s) \subseteq 1..Len(g)
  BY <1>2 DEF OfStream
<1>5. IsFiniteSet(1..Len(g))
  <2>1. 1 \in Int /\ Len(g) \in Int
    BY <1>2
  <2> QED
    BY <2>1, FS_Interval
<1>6. IsFiniteSet(OfStream(g, s))
  BY <1>4, <1>5, FS_Subset
<1> QED
  BY <1>2, <1>3, <1>4, <1>6 DEF g2

LEMMA GivesOwn ==
    ASSUME NEW lines, NEW p, NEW g, NEW s \in Streams, GivenKeeps(lines, p, g, s), p # <<>>
    PROVE  GivenKeeps(lines, Tail(p), Append(g, [stream |-> s, line |-> Head(p)]), s)
<1> DEFINE x == Head(p)
           e == [stream |-> s, line |-> x]
           g2 == Append(g, e)
           n == Read(lines, p)
           old == OfStream(g, s)
           new == OfStream(g2, s)
           last == Len(g) + 1
<1>1. /\ PipeKeeps(lines, Tail(p)) /\ Read(lines, Tail(p)) = n + 1
      /\ x = lines[n + 1] /\ x \in Line /\ n \in Nat
  BY PipeAdvances DEF GivenKeeps
<1>2. g \in Seq(Entry)
  BY DEF GivenKeeps
<1>11. e \in Entry /\ e.stream = s /\ e.line = x
  BY <1>1 DEF Entry
<1> HIDE DEF e
<1>3. /\ g2 \in Seq(Entry)
      /\ new = old \cup {last} /\ \A i \in old : i \in 1..Len(g) /\ g2[i] = g[i]
      /\ g2[last].line = x /\ IsFiniteSet(old)
  <2>1. new = IF e.stream = s THEN old \cup {last} ELSE old
    BY <1>2, <1>11, OfStreamMore
  <2>2. g2 \in Seq(Entry) /\ g2[last] = e
    BY <1>2, <1>11
  <2>3. ASSUME NEW i \in old PROVE i \in 1..Len(g) /\ g2[i] = g[i]
    <3>1. i \in 1..Len(g)
      BY <1>2 DEF OfStream
    <3> QED
      BY <1>2, <1>11, <3>1
  <2>4. IsFiniteSet(old)
    BY <1>2, <1>11, OfStreamMore
  <2> HIDE DEF g2, new, old, last
  <2> QED
    BY <1>11, <2>1, <2>2, <2>3, <2>4
<1>4. Len(g) \in Nat /\ last \in Nat /\ \A i \in 1..Len(g) : i < last
  BY <1>2
<1>5. last \notin old
  BY <1>3, <1>4
<1>6. Cardinality(old) = n /\ \A i \in old : g[i].line = lines[Cardinality(UpTo(old, i))]
  BY DEF GivenKeeps
<1> HIDE DEF x, g2, n, old, new, last
<1>7. Cardinality(new) = n + 1
  BY <1>3, <1>5, <1>6, FS_AddElement
<1>8. UpTo(new, last) = new
  BY <1>3, <1>4 DEF UpTo
<1>9. \A i \in old : UpTo(new, i) = UpTo(old, i)
  BY <1>3, <1>4 DEF UpTo
<1>10. \A i \in new : g2[i].line = lines[Cardinality(UpTo(new, i))]
  BY <1>1, <1>3, <1>6, <1>7, <1>8, <1>9
<1> QED
  BY <1>1, <1>3, <1>7, <1>10 DEF GivenKeeps, new, g2, e, x

LEMMA GivesOther ==
    ASSUME NEW lines, NEW p, NEW g, NEW s, GivenKeeps(lines, p, g, s),
           NEW r \in Streams \ {s}, NEW x \in Line
    PROVE  GivenKeeps(lines, p, Append(g, [stream |-> r, line |-> x]), s)
<1> DEFINE e == [stream |-> r, line |-> x]
           g2 == Append(g, e)
<1>1. g \in Seq(Entry)
  BY DEF GivenKeeps
<1>2. e \in Entry /\ e.stream # s
  BY DEF Entry
<1> HIDE DEF e
<1>3. /\ g2 \in Seq(Entry)
      /\ OfStream(g2, s) = OfStream(g, s) /\ \A i \in OfStream(g, s) : g2[i] = g[i]
  <2>1. OfStream(g2, s) = IF e.stream = s THEN OfStream(g, s) \cup {Len(g) + 1} ELSE OfStream(g, s)
    BY <1>1, <1>2, OfStreamMore
  <2>2. g2 \in Seq(Entry)
    BY <1>1, <1>2
  <2>3. ASSUME NEW i \in OfStream(g, s) PROVE g2[i] = g[i]
    <3>1. i \in 1..Len(g)
      BY <1>1 DEF OfStream
    <3> QED
      BY <1>1, <1>2, <3>1
  <2> HIDE DEF g2
  <2> QED
    BY <1>2, <2>1, <2>2, <2>3
<1> HIDE DEF g2
<1>4. GivenKeeps(lines, p, g2, s)
  BY <1>3 DEF GivenKeeps
<1> QED
  BY <1>4 DEF g2, e

PlainShape(k) ==
    /\ DOMAIN k = {"kind", "pipe", "given", "file", "tee", "waiter", "failures"}
    /\ DOMAIN k.pipe = Streams

LEMMA KindStays ==
    ASSUME NEW k, PlainShape(k), NEW k2 \in SinkNext(k)
    PROVE  PlainShape(k2) /\ k2.kind = k.kind
<1>1. ASSUME k2 \in ChildEnds(k) PROVE PlainShape(k2) /\ k2.kind = k.kind
  BY <1>1 DEF ChildEnds, PlainShape
<1>2. ASSUME k2 \in Flush(k) PROVE PlainShape(k2) /\ k2.kind = k.kind
  BY <1>2 DEF Flush, PlainShape
<1>3. ASSUME NEW s \in Streams, k2 \in AppendText(k, s)
      PROVE  PlainShape(k2) /\ k2.kind = k.kind
  <2> DEFINE f == Written(k.file[s], Head(k.pipe[s]))
             t == IF k.file[s].failed THEN "read" ELSE "newline"
  <2>1. k2 = [k EXCEPT !.pipe[s] = Tail(@), !.file[s] = f, !.tee[s] = t]
    <3>1. Written(k.file[s], Head(k.pipe[s])) = f
      OBVIOUS
    <3> QED
      BY <1>3 DEF AppendText, FileOf
  <2> HIDE DEF f, t
  <2> QED
    BY <2>1 DEF PlainShape
<1>4. ASSUME NEW s \in Streams, k2 \in AppendNewline(k, s) \cup TeeEnds(k, s)
      PROVE  PlainShape(k2) /\ k2.kind = k.kind
  BY <1>4 DEF AppendNewline, TeeEnds, PlainShape
<1>5. ASSUME NEW s \in Streams, k2 \in AppendAtOnce(k, s)
      PROVE  PlainShape(k2) /\ k2.kind = k.kind
  <2>1. PICK g : k2 = [k EXCEPT !.pipe[s] = Tail(@), !.given = g]
    BY <1>5 DEF AppendAtOnce
  <2> QED
    BY <2>1 DEF PlainShape
<1>6. ASSUME NEW s \in Streams, k2 \in Land(k, s) \cup LandFails(k, s)
      PROVE  PlainShape(k2) /\ k2.kind = k.kind
  BY <1>6 DEF Land, LandFails, PlainShape
<1> QED
  BY <1>1, <1>2, <1>3, <1>4, <1>5, <1>6 DEF SinkNext

\* A sink without files, that keeps what it is given, is given one line or nothing.
LEMMA PlainStep ==
    ASSUME NEW k, PlainShape(k), k.kind \in {"memory", "std"}, NEW k2 \in SinkNext(k)
    PROVE  /\ PlainShape(k2) /\ k2.kind = k.kind
           /\ \/ k2.pipe = k.pipe /\ k2.given = k.given
              \/ \E s \in Streams :
                    /\ k.pipe[s] # <<>> /\ k2.pipe = [k.pipe EXCEPT ![s] = Tail(@)]
                    /\ k2.given = Append(k.given, [stream |-> s, line |-> Head(k.pipe[s])])
<1>1. ASSUME NEW s \in Streams, k2 \in AppendAtOnce(k, s)
      PROVE  /\ PlainShape(k2) /\ k2.kind = k.kind
             /\ k.pipe[s] # <<>> /\ k2.pipe = [k.pipe EXCEPT ![s] = Tail(@)]
             /\ k2.given = Append(k.given, [stream |-> s, line |-> Head(k.pipe[s])])
  <2>1. /\ k2 = [k EXCEPT !.pipe[s] = Tail(@),
                          !.given = Append(@, [stream |-> s, line |-> Head(k.pipe[s])])]
        /\ k.pipe[s] # <<>>
    BY <1>1 DEF AppendAtOnce
  <2> QED
    BY <2>1 DEF PlainShape
<1>2. ASSUME k2 \in ChildEnds(k) PROVE PlainShape(k2) /\ k2.kind = k.kind /\ k2.pipe = k.pipe /\ k2.given = k.given
  BY <1>2 DEF ChildEnds, PlainShape
<1>3. ASSUME k2 \in Flush(k) PROVE PlainShape(k2) /\ k2.kind = k.kind /\ k2.pipe = k.pipe /\ k2.given = k.given
  BY <1>3 DEF Flush, PlainShape
<1>4. ASSUME NEW s \in Streams, k2 \in AppendText(k, s) \cup AppendNewline(k, s) \cup TeeEnds(k, s)
      PROVE  PlainShape(k2) /\ k2.kind = k.kind /\ k2.pipe = k.pipe /\ k2.given = k.given
  BY <1>4 DEF AppendText, AppendNewline, TeeEnds, PlainShape
<1>5. ASSUME NEW s \in Streams, k2 \in Land(k, s) \cup LandFails(k, s)
      PROVE  PlainShape(k2) /\ k2.kind = k.kind /\ k2.pipe = k.pipe /\ k2.given = k.given
  BY <1>5 DEF Land, LandFails, PlainShape
<1> QED
  BY <1>1, <1>2, <1>3, <1>4, <1>5 DEF SinkNext

-----------------------------------------------------------------------------
SpentOf(k, found, s) == Spent(SinkLines[s], found, k.pipe[s], k.file[s], k.tee[s])

\* A sink in use.
SinkKeeps(k, found) ==
    /\ PlainShape(k)
    /\ k.kind \in {"file", "memory", "std", "null"}
    /\ k.kind = "file" =>
          /\ SinkShape(k)
          /\ \A s \in Streams : StreamKeeps(SinkLines[s], found, k.pipe[s], k.file[s], k.tee[s])
          /\ SpentOf(k, found, "Stdout") + SpentOf(k, found, "Stderr") <= k.failures
          /\ k.failures = 0 =>
                \A s \in Streams : Exact(SinkLines[s], found, k.pipe[s], k.file[s], k.tee[s])
    /\ k.kind \in {"memory", "std"} =>
          \A s \in Streams : GivenKeeps(SinkLines[s], k.pipe[s], k.given, s)

LEMMA SpentType ==
    ASSUME NEW lines, NEW found, NEW p, NEW f, NEW t, StreamKeeps(lines, found, p, f, t)
    PROVE  Spent(lines, found, p, f, t) \in Nat
BY MissedType DEF Spent, Owed

\* Every step keeps it, whatever the lines and the files.
LEMMA SinkStepKeeps ==
    ASSUME NEW k, NEW found, SinkKeeps(k, found), NEW k2 \in SinkNext(k)
    PROVE  SinkKeeps(k2, found)
<1>4. PlainShape(k2) /\ k2.kind = k.kind /\ k2.kind \in {"file", "memory", "std", "null"}
  BY KindStays DEF SinkKeeps
<1>1. CASE k.kind = "file"
  <2>1. /\ SinkShape(k) /\ k.failures \in Nat
        /\ \A s \in Streams : StreamKeeps(SinkLines[s], found, k.pipe[s], k.file[s], k.tee[s])
        /\ SpentOf(k, found, "Stdout") + SpentOf(k, found, "Stderr") <= k.failures
        /\ k.failures = 0 =>
              \A s \in Streams : Exact(SinkLines[s], found, k.pipe[s], k.file[s], k.tee[s])
    BY <1>1 DEF SinkKeeps, SinkShape
  <2>2. SinkShape(k2) /\ k2.kind = k.kind /\ \E r \in Streams : \E n \in {0, 1} : StreamMoves(k, k2, r, n)
    BY <1>1, <2>1, SinkStepMoves
  <2>3. PICK r \in Streams : \E n \in {0, 1} : StreamMoves(k, k2, r, n)
    BY <2>2
  <2>4. PICK n \in {0, 1} : StreamMoves(k, k2, r, n)
    BY <2>3
  <2>5. /\ StreamKeeps(SinkLines[r], found, k2.pipe[r], k2.file[r], k2.tee[r])
        /\ SpentOf(k2, found, r) <= SpentOf(k, found, r) + n
        /\ n = 0 /\ Exact(SinkLines[r], found, k.pipe[r], k.file[r], k.tee[r])
              => Exact(SinkLines[r], found, k2.pipe[r], k2.file[r], k2.tee[r])
    BY <2>1, <2>4, MovesKeep DEF StreamMoves, SpentOf
  <2>6. \A s \in Streams \ {r} :
           /\ k2.pipe[s] = k.pipe[s] /\ k2.file[s] = k.file[s] /\ k2.tee[s] = k.tee[s]
           /\ SpentOf(k2, found, s) = SpentOf(k, found, s)
    BY <2>4 DEF StreamMoves, SpentOf
  <2>7. \A s \in Streams : StreamKeeps(SinkLines[s], found, k2.pipe[s], k2.file[s], k2.tee[s])
    BY <2>1, <2>5, <2>6
  <2>8. k2.failures = k.failures + n
    BY <2>4 DEF StreamMoves
  <2>9. SpentOf(k2, found, "Stdout") + SpentOf(k2, found, "Stderr") <= k2.failures
    <3>1. /\ SpentOf(k2, found, "Stdout") \in Nat /\ SpentOf(k2, found, "Stderr") \in Nat
          /\ SpentOf(k, found, "Stdout") \in Nat /\ SpentOf(k, found, "Stderr") \in Nat
      BY <2>1, <2>7, SpentType DEF SpentOf, Streams
    <3>2. CASE r = "Stdout"
      <4>1. SpentOf(k2, found, "Stderr") = SpentOf(k, found, "Stderr")
        BY <2>6, <3>2 DEF Streams
      <4> QED
        BY <2>1, <2>5, <2>8, <3>1, <3>2, <4>1
    <3>3. CASE r = "Stderr"
      <4>1. SpentOf(k2, found, "Stdout") = SpentOf(k, found, "Stdout")
        BY <2>6, <3>3 DEF Streams
      <4> QED
        BY <2>1, <2>5, <2>8, <3>1, <3>3, <4>1
    <3> QED
      BY <3>2, <3>3 DEF Streams
  <2>10. ASSUME k2.failures = 0
         PROVE  \A s \in Streams : Exact(SinkLines[s], found, k2.pipe[s], k2.file[s], k2.tee[s])
    <3>1. n = 0 /\ k.failures = 0
      BY <2>1, <2>8, <2>10
    <3> QED
      BY <2>1, <2>5, <2>6, <3>1
  <2> QED
    BY <1>1, <1>4, <2>2, <2>7, <2>9, <2>10 DEF SinkKeeps
<1>2. CASE k.kind \in {"memory", "std"}
  <2>1. PlainShape(k) /\ \A s \in Streams : GivenKeeps(SinkLines[s], k.pipe[s], k.given, s)
    BY <1>2 DEF SinkKeeps
  <2>3. CASE k2.pipe = k.pipe /\ k2.given = k.given
    BY <1>2, <1>4, <2>1, <2>3 DEF SinkKeeps
  <2>4. ASSUME NEW s \in Streams,
               k.pipe[s] # <<>>, k2.pipe = [k.pipe EXCEPT ![s] = Tail(@)],
               k2.given = Append(k.given, [stream |-> s, line |-> Head(k.pipe[s])])
        PROVE  SinkKeeps(k2, found)
    <3>1. Head(k.pipe[s]) \in Line
      BY <2>1, <2>4, PipeAdvances DEF GivenKeeps
    <3>2. GivenKeeps(SinkLines[s], k2.pipe[s], k2.given, s)
      <4>1. k2.pipe[s] = Tail(k.pipe[s])
        BY <2>1, <2>4 DEF PlainShape
      <4> QED
        BY <2>1, <2>4, <4>1, GivesOwn
    <3>3. ASSUME NEW o \in Streams \ {s}
          PROVE  GivenKeeps(SinkLines[o], k2.pipe[o], k2.given, o)
      <4>1. k2.pipe[o] = k.pipe[o] /\ s \in Streams \ {o}
        BY <2>1, <2>4 DEF PlainShape
      <4> QED
        BY <2>1, <2>4, <3>1, <4>1, GivesOther
    <3> QED
      BY <1>2, <1>4, <3>2, <3>3 DEF SinkKeeps
  <2> QED
    BY <1>2, <2>1, <2>3, <2>4, PlainStep
<1>3. CASE k.kind = "null"
  BY <1>3, <1>4 DEF SinkKeeps
<1> QED
  BY <1>1, <1>2, <1>3 DEF SinkKeeps

\* A sink that has just been made keeps its lines: none of them is read.
LEMMA NothingGiven ==
    ASSUME NEW lines \in Seq(Line), NEW s
    PROVE  GivenKeeps(lines, lines, <<>>, s)
<1>1. OfStream(<<>>, s) = {} /\ Cardinality({}) = 0 /\ <<>> \in Seq(Entry)
  BY FS_EmptySet DEF OfStream
<1>2. PipeKeeps(lines, lines) /\ Read(lines, lines) = 0
  BY DEF PipeKeeps, Read
<1> QED
  BY <1>1, <1>2 DEF GivenKeeps

LEMMA NothingRead ==
    ASSUME NEW lines \in Seq(Line), NEW found \in Seq(Piece), NEW f,
           f = [disk |-> found, busy |-> <<>>, failed |-> FALSE]
    PROVE  /\ StreamKeeps(lines, found, lines, f, "read")
           /\ Spent(lines, found, lines, f, "read") = 0
           /\ Exact(lines, found, lines, f, "read")
<1>1. FileType(f) /\ f.busy = <<>> /\ f.disk = found /\ ~f.failed
  BY DEF FileType
<1>2. AllOf(f) = found
  BY <1>1, AllOfReady
<1>3. PipeKeeps(lines, lines) /\ Read(lines, lines) = 0
  BY DEF PipeKeeps, Read
<1>4. TextsIn(found, found) = {} /\ Cardinality(TextsIn(found, found)) = 0
  <2>1. TextsIn(found, found) = {}
    BY DEF TextsIn
  <2> QED
    BY <2>1, FS_EmptySet
<1>5. Ordered(lines, 0, found, found)
  <2> DEFINE kept == [i \in {} |-> 0]
  <2>1. kept \in [TextsIn(found, found) -> 1..0]
    BY <1>4
  <2> QED
    BY <1>4, <2>1 DEF Ordered
<1>6. FoundFirst(found, f.disk)
  BY <1>1 DEF FoundFirst
<1>7. TeeKeeps(lines, lines, f, "read")
  BY <1>1 DEF TeeKeeps
<1>8. Missed(lines, found, lines, f) = 0 /\ Owed(f, "read") = 0
  <2>1. Missed(lines, found, lines, f) = 0 - 0
    BY <1>2, <1>3, <1>4, Zenon DEF Missed
  <2> QED
    BY <1>1, <2>1 DEF Owed
<1>9. Exact(lines, found, lines, f, "read")
  <2>1. Len(found) \in Nat
    OBVIOUS
  <2> QED
    BY <1>1, <1>2, <1>3, <2>1 DEF Exact
<1> QED
  BY <1>1, <1>2, <1>3, <1>5, <1>6, <1>7, <1>8, <1>9 DEF StreamKeeps, Spent

LEMMA CreateKeeps ==
    ASSUME NEW kind \in {"file", "memory", "std", "null"}, NEW found \in FilesFound
    PROVE  SinkKeeps(Create(kind, found, SinkLines), found)
<1> DEFINE k == Create(kind, found, SinkLines)
           new == [disk |-> found, busy |-> <<>>, failed |-> FALSE]
<1>1. /\ found \in Seq(Piece) /\ DOMAIN SinkLines = Streams
      /\ \A s \in Streams : SinkLines[s] \in Seq(Line)
  BY SinksAssumption DEF Piece
<1>2. /\ DOMAIN k = {"kind", "pipe", "given", "file", "tee", "waiter", "failures"}
      /\ k.kind = kind /\ k.pipe = SinkLines /\ k.given = <<>> /\ k.failures = 0
      /\ DOMAIN k.file = Streams /\ DOMAIN k.tee = Streams
      /\ \A s \in Streams : k.file[s] = new /\ k.tee[s] = "read"
  BY DEF Create
<1>3. DOMAIN new = {"disk", "busy", "failed"}
  OBVIOUS
<1>4. \A s \in Streams : /\ StreamKeeps(SinkLines[s], found, SinkLines[s], new, "read")
                         /\ Spent(SinkLines[s], found, SinkLines[s], new, "read") = 0
                         /\ Exact(SinkLines[s], found, SinkLines[s], new, "read")
  BY <1>1, NothingRead
<1>5. \A s \in Streams : GivenKeeps(SinkLines[s], SinkLines[s], <<>>, s)
  BY <1>1, NothingGiven
<1> HIDE DEF k, new
<1>6. PlainShape(k) /\ SinkShape(k)
  BY <1>1, <1>2, <1>3 DEF PlainShape, SinkShape
<1>7. \A s \in Streams : SpentOf(k, found, s) = 0
  BY <1>2, <1>4 DEF SpentOf
<1>8. SpentOf(k, found, "Stdout") + SpentOf(k, found, "Stderr") <= k.failures
  BY <1>2, <1>7 DEF Streams
<1>9. SinkKeeps(k, found)
  BY <1>2, <1>4, <1>5, <1>6, <1>8 DEF SinkKeeps
<1> QED
  BY <1>9 DEF k

-----------------------------------------------------------------------------
(* Tokens that are put into a template: one after the other or all at once. *)

\* What is put together of the first parts is of the same elements, and does not depend
\* on the parts that follow.
LEMMA FlatsAgree ==
    ASSUME NEW T, NEW n \in Nat, NEW m \in 1..n, NEW seqs, NEW more, NEW f, NEW g,
           IsFlat(f, seqs, m), IsFlat(g, more, n),
           \A i \in 1..m : seqs[i] \in Seq(T) /\ more[i] = seqs[i]
    PROVE  f[m] = g[m] /\ f[m] \in Seq(T)
<1> DEFINE bad == {k \in 1..m : ~(f[k] = g[k] /\ f[k] \in Seq(T))}
<1>1. bad \in SUBSET Nat /\ IsFiniteSet(bad)
  <2>1. bad \subseteq 1..m /\ bad \in SUBSET Nat
    OBVIOUS
  <2>2. IsFiniteSet(1..m)
    BY FS_Interval
  <2> QED
    BY <2>1, <2>2, FS_Subset
<1>2. bad = {}
  <2> SUFFICES ASSUME bad # {} PROVE FALSE
    OBVIOUS
  <2> HIDE DEF bad
  <2>1. PICK k \in bad : \A i \in bad : k <= i
    BY <1>1, Smallest
  <2>2. k \in 1..m /\ ~(f[k] = g[k] /\ f[k] \in Seq(T))
    BY <2>1 DEF bad
  <2>3. /\ f[k] = IF k = 1 THEN seqs[k] ELSE f[k - 1] \o seqs[k]
        /\ g[k] = IF k = 1 THEN more[k] ELSE g[k - 1] \o more[k]
    <3>1. \A i \in 1..m : f[i] = IF i = 1 THEN seqs[i] ELSE f[i - 1] \o seqs[i]
      BY DEF IsFlat
    <3>2. \A i \in 1..n : g[i] = IF i = 1 THEN more[i] ELSE g[i - 1] \o more[i]
      BY DEF IsFlat
    <3>3. k \in 1..n
      BY <2>2
    <3> QED
      BY <2>2, <3>1, <3>2, <3>3
  <2>4. CASE k = 1
    BY <2>2, <2>3, <2>4
  <2>5. CASE k # 1
    <3>1. k - 1 \in 1..m /\ ~(k <= k - 1)
      BY <2>2, <2>5
    <3>2. f[k - 1] = g[k - 1] /\ f[k - 1] \in Seq(T)
      BY <2>1, <3>1 DEF bad
    <3>3. seqs[k] \in Seq(T) /\ more[k] = seqs[k]
      BY <2>2
    <3>4. f[k - 1] \o seqs[k] \in Seq(T)
      BY <3>2, <3>3, ConcatProperties
    <3> QED
      BY <2>2, <2>3, <2>5, <3>2, <3>3, <3>4
  <2> QED
    BY <2>4, <2>5
<1>3. m \in 1..m
  OBVIOUS
<1> QED
  BY <1>2, <1>3

LEMMA FlattenIs ==
    ASSUME NEW T, NEW seqs \in Seq(Seq(T)), seqs # <<>>
    PROVE  \E f : IsFlat(f, seqs, Len(seqs)) /\ FlattenSeq(seqs) = f[Len(seqs)]
<1> DEFINE n == Len(seqs)
<1>1. n \in Nat \ {0} /\ \A i \in 1..n : seqs[i] \in Seq(T)
  BY LenProperties, ElementOfSeq, EmptySeq
<1> DEFINE f == CHOOSE f : IsFlat(f, seqs, n)
<1>2. FlattenSeq(seqs) = f[n]
  BY <1>1 DEF FlattenSeq, IsFlat
<1> HIDE DEF n
<1>3. \E g : IsFlat(g, seqs, n)
  BY <1>1, FlatExists
<1>4. IsFlat(f, seqs, n)
  BY <1>3
<1> QED
  BY <1>2, <1>4 DEF n

LEMMA FlattenMore ==
    ASSUME NEW T, NEW seqs \in Seq(Seq(T)), NEW x \in Seq(T)
    PROVE  /\ FlattenSeq(<<>>) = <<>> /\ FlattenSeq(seqs) \in Seq(T)
           /\ FlattenSeq(Append(seqs, x)) = FlattenSeq(seqs) \o x
<1> DEFINE more == Append(seqs, x)
           n == Len(seqs)
<1>1. FlattenSeq(<<>>) = <<>>
  BY DEF FlattenSeq
<1>2. /\ n \in Nat /\ Len(more) = n + 1 /\ more \in Seq(Seq(T)) /\ more # <<>>
      /\ \A i \in 1..n : more[i] = seqs[i] /\ seqs[i] \in Seq(T)
      /\ more[n + 1] = x
  <2>1. n \in Nat /\ \A i \in 1..n : seqs[i] \in Seq(T)
    BY LenProperties, ElementOfSeq
  <2> QED
    BY <2>1, AppendProperties
<1> HIDE DEF n, more
<1>3. PICK g : IsFlat(g, more, n + 1) /\ FlattenSeq(more) = g[n + 1]
  <2>1. \E g : IsFlat(g, more, Len(more)) /\ FlattenSeq(more) = g[Len(more)]
    BY <1>2, FlattenIs
  <2> QED
    BY <1>2, <2>1
<1>4. n + 1 \in 1..(n + 1) /\ n + 1 \in Nat /\ n + 1 - 1 = n
  BY <1>2
<1>5. g[n + 1] = IF n + 1 = 1 THEN more[n + 1] ELSE g[n] \o more[n + 1]
  <2>1. \A i \in 1..(n + 1) : g[i] = IF i = 1 THEN more[i] ELSE g[i - 1] \o more[i]
    BY <1>3 DEF IsFlat
  <2>2. (n + 1) - 1 = n
    BY <1>2
  <2>3. g[n + 1] = IF n + 1 = 1 THEN more[n + 1] ELSE g[(n + 1) - 1] \o more[n + 1]
    BY <1>4, <2>1, Zenon
  <2> QED
    BY <2>2, <2>3
<1>6. CASE n = 0
  <2>1. seqs = <<>>
    BY <1>6, EmptySeq DEF n
  <2>2. <<>> \o x = x /\ <<>> \in Seq(T)
    BY ConcatEmptySeq
  <2>3. n + 1 = 1
    BY <1>6
  <2>4. FlattenSeq(more) = x
    BY <1>2, <1>3, <1>5, <2>3
  <2>5. FlattenSeq(seqs) = <<>>
    BY <1>1, <2>1
  <2> QED
    BY <1>1, <2>2, <2>4, <2>5 DEF more
<1>7. CASE n # 0
  <2>1. seqs # <<>>
    BY <1>7, EmptySeq DEF n
  <2>2. PICK f : IsFlat(f, seqs, n) /\ FlattenSeq(seqs) = f[n]
    BY <2>1, FlattenIs DEF n
  <2>3. n \in 1..(n + 1) /\ n + 1 # 1
    BY <1>2, <1>7
  <2>4. f[n] = g[n] /\ f[n] \in Seq(T)
    <3>1. \A i \in 1..n : seqs[i] \in Seq(T) /\ more[i] = seqs[i]
      BY <1>2
    <3>2. IsFlat(f, seqs, n) /\ IsFlat(g, more, n + 1)
      BY <1>3, <2>2
    <3> QED
      BY <1>4, <1>7, <2>3, <3>1, <3>2, FlatsAgree, ZenonT(60)
  <2> QED
    BY <1>1, <1>2, <1>3, <1>5, <2>2, <2>3, <2>4 DEF more
<1> QED
  BY <1>6, <1>7

-----------------------------------------------------------------------------
(* Templates.  A text is put in for a token: it has no %, is not empty, and   *)
(* does not begin with the letter of a token that is put in later.            *)

PiecesOf(t, meaning) ==
    [i \in DOMAIN t |-> IF TokenAt(t, DOMAIN meaning, i) THEN meaning[t[i + 1]]
                        ELSE IF TokenAt(t, DOMAIN meaning, i - 1) THEN <<>> ELSE <<t[i]>>]

Means(T, meaning) ==
    /\ Sign("%") \notin DOMAIN meaning
    /\ \A d \in DOMAIN meaning : meaning[d] \in Seq(T)

\* A text does not end in the beginning of a token that x would complete.
Completes(t, known, x) == Len(t) # 0 /\ t[Len(t)] = Sign("%") /\ x \in known

LEMMA SubstituteIs ==
    ASSUME NEW T, NEW t \in Seq(T), NEW meaning, Means(T, meaning)
    PROVE  /\ Substitute(t, meaning) = FlattenSeq(PiecesOf(t, meaning))
           /\ PiecesOf(t, meaning) \in Seq(Seq(T)) /\ Len(PiecesOf(t, meaning)) = Len(t)
           /\ Substitute(t, meaning) \in Seq(T)
<1> DEFINE n == Len(t)
           ps == PiecesOf(t, meaning)
<1>1. n \in Nat /\ DOMAIN t = 1..n /\ \A i \in 1..n : t[i] \in T
  BY LenProperties, ElementOfSeq
<1>2. Substitute(t, meaning) = FlattenSeq(ps)
  BY DEF Substitute, PiecesOf
<1>3. \A i \in 1..n : ps[i] \in Seq(T)
  <2> TAKE i \in 1..n
  <2>1. ps[i] = IF TokenAt(t, DOMAIN meaning, i) THEN meaning[t[i + 1]]
                ELSE IF TokenAt(t, DOMAIN meaning, i - 1) THEN <<>> ELSE <<t[i]>>
    BY <1>1 DEF PiecesOf
  <2>2. TokenAt(t, DOMAIN meaning, i) => meaning[t[i + 1]] \in Seq(T)
    BY DEF TokenAt, Means
  <2>3. <<t[i]>> \in Seq(T) /\ <<>> \in Seq(T)
    BY <1>1, OneLexeme
  <2> HIDE DEF ps
  <2> QED
    BY <2>1, <2>2, <2>3
<1>4. ps \in Seq(Seq(T)) /\ Len(ps) = n
  <2>1. ps = [i \in 1..n |-> ps[i]]
    BY <1>1 DEF PiecesOf
  <2> HIDE DEF ps, n
  <2>2. ps \in [1..n -> Seq(T)]
    BY <1>3, <2>1
  <2> QED
    BY <1>1, <2>2, SeqDef, LenProperties
<1> HIDE DEF ps
<1>5. FlattenSeq(ps) \in Seq(T)
  <2>1. <<>> \in Seq(T)
    OBVIOUS
  <2> QED
    BY <1>4, <2>1, FlattenMore
<1> QED
  BY <1>2, <1>4, <1>5 DEF ps

LEMMA SubstituteNothing ==
    ASSUME NEW meaning PROVE Substitute(<<>>, meaning) = <<>>
<1>1. PiecesOf(<<>>, meaning) = <<>>
  BY DEF PiecesOf
<1>2. FlattenSeq(<<>>) = <<>>
  BY DEF FlattenSeq
<1> QED
  BY <1>1, <1>2 DEF Substitute, PiecesOf

\* What stands behind a text does not change the pieces it is put together of.
LEMMA TokensOfMore ==
    ASSUME NEW T, NEW t \in Seq(T), NEW u \in Seq(T), NEW known, Len(t) < Len(u),
           \A i \in 1..Len(t) : u[i] = t[i], ~Completes(t, known, u[Len(t) + 1])
    PROVE  \A i \in 0..Len(t) : TokenAt(u, known, i) <=> TokenAt(t, known, i)
<1> DEFINE n == Len(t)
<1>1. n \in Nat /\ Len(u) \in Nat /\ n < Len(u)
  BY LenProperties
<1> TAKE i \in 0..n
<1> HIDE DEF n
<1>2. CASE i = 0
  BY <1>2 DEF TokenAt
<1>3. CASE i \in 1..(n - 1)
  <2>1. u[i] = t[i] /\ u[i + 1] = t[i + 1] /\ i \in 1..(Len(u) - 1)
    BY <1>1, <1>3 DEF n
  <2> QED
    BY <1>3, <2>1 DEF TokenAt, n
<1>4. CASE i = n /\ n # 0
  <2>1. u[i] = t[n] /\ i \notin 1..(n - 1)
    BY <1>1, <1>4 DEF n
  <2> QED
    BY <1>4, <2>1 DEF TokenAt, Completes, n
<1>5. i = 0 \/ i \in 1..(n - 1) \/ (i = n /\ n # 0)
  BY <1>1
<1> QED
  BY <1>2, <1>3, <1>4, <1>5

LEMMA PiecesOfMore ==
    ASSUME NEW T, NEW t \in Seq(T), NEW u \in Seq(T), NEW meaning, Len(t) < Len(u),
           \A i \in 1..Len(t) : u[i] = t[i], ~Completes(t, DOMAIN meaning, u[Len(t) + 1])
    PROVE  /\ \A i \in 1..Len(t) : PiecesOf(u, meaning)[i] = PiecesOf(t, meaning)[i]
           /\ ~TokenAt(u, DOMAIN meaning, Len(t))
<1> DEFINE n == Len(t)
           known == DOMAIN meaning
<1>1. /\ n \in Nat /\ Len(u) \in Nat /\ n < Len(u) /\ DOMAIN t = 1..n /\ DOMAIN u = 1..Len(u)
  BY LenProperties
<1>2. \A i \in 0..n : TokenAt(u, known, i) <=> TokenAt(t, known, i)
  BY TokensOfMore
<1>3. ASSUME NEW i \in 1..n
      PROVE  PiecesOf(u, meaning)[i] = PiecesOf(t, meaning)[i]
  <2>1. i \in 0..n /\ i - 1 \in 0..n /\ i \in 1..Len(u)
    BY <1>1
  <2>2. PiecesOf(t, meaning)[i] = IF TokenAt(t, known, i) THEN meaning[t[i + 1]]
                                  ELSE IF TokenAt(t, known, i - 1) THEN <<>> ELSE <<t[i]>>
    BY <1>1 DEF PiecesOf
  <2>3. PiecesOf(u, meaning)[i] = IF TokenAt(u, known, i) THEN meaning[u[i + 1]]
                                  ELSE IF TokenAt(u, known, i - 1) THEN <<>> ELSE <<u[i]>>
    BY <1>1, <2>1 DEF PiecesOf
  <2>4. TokenAt(t, known, i) => i + 1 \in 1..n
    BY <1>1 DEF TokenAt
  <2>5. u[i] = t[i] /\ (TokenAt(t, known, i) => u[i + 1] = t[i + 1])
    BY <2>4
  <2>6. /\ TokenAt(u, known, i) <=> TokenAt(t, known, i)
        /\ TokenAt(u, known, i - 1) <=> TokenAt(t, known, i - 1)
    BY <1>2, <2>1
  <2> HIDE DEF known
  <2> QED
    BY <2>2, <2>3, <2>5, <2>6
<1>4. ~TokenAt(t, known, n) /\ n \in 0..n
  BY <1>1 DEF TokenAt
<1> QED
  BY <1>2, <1>3, <1>4

LEMMA SubstituteOne ==
    ASSUME NEW T, NEW t \in Seq(T), NEW x \in T, NEW meaning, Means(T, meaning),
           ~Completes(t, DOMAIN meaning, x)
    PROVE  Substitute(Append(t, x), meaning) = Append(Substitute(t, meaning), x)
<1> DEFINE n == Len(t)
           u == Append(t, x)
           ps == PiecesOf(t, meaning)
           qs == PiecesOf(u, meaning)
<1>1. /\ n \in Nat /\ u \in Seq(T) /\ Len(u) = n + 1 /\ DOMAIN u = 1..(n + 1)
      /\ \A i \in 1..n : u[i] = t[i]
      /\ u[n + 1] = x
  BY LenProperties, AppendProperties
<1> HIDE DEF u
<1>2. /\ ps \in Seq(Seq(T)) /\ Len(ps) = n /\ Substitute(t, meaning) = FlattenSeq(ps)
      /\ Substitute(t, meaning) \in Seq(T)
  BY SubstituteIs
<1>3. qs \in Seq(Seq(T)) /\ Len(qs) = n + 1 /\ Substitute(u, meaning) = FlattenSeq(qs)
  BY <1>1, SubstituteIs
<1>4. Len(t) < Len(u)
  BY <1>1
<1>5. /\ \A i \in 1..n : qs[i] = ps[i]
      /\ ~TokenAt(u, DOMAIN meaning, n)
  BY <1>1, <1>4, PiecesOfMore
<1>6. qs[n + 1] = <<x>>
  <2>1. ~TokenAt(u, DOMAIN meaning, n + 1)
    BY <1>1 DEF TokenAt
  <2>2. n + 1 \in 1..(n + 1) /\ (n + 1) - 1 = n
    BY <1>1
  <2>3. qs[n + 1] = IF TokenAt(u, DOMAIN meaning, n + 1) THEN meaning[u[(n + 1) + 1]]
                    ELSE IF TokenAt(u, DOMAIN meaning, (n + 1) - 1) THEN <<>> ELSE <<u[n + 1]>>
    BY <1>1, <2>2 DEF PiecesOf
  <2> HIDE DEF qs
  <2> QED
    BY <1>1, <1>5, <2>1, <2>2, <2>3
<1> HIDE DEF ps, qs, n
<1>7. <<x>> \in Seq(T)
  BY OneLexeme
<1>8. qs = Append(ps, <<x>>)
  <2>1. /\ Append(ps, <<x>>) \in Seq(Seq(T)) /\ Len(Append(ps, <<x>>)) = n + 1
        /\ \A i \in 1..n : Append(ps, <<x>>)[i] = ps[i]
        /\ Append(ps, <<x>>)[n + 1] = <<x>>
    BY <1>2, <1>7, AppendProperties
  <2>2. \A i \in 1..(n + 1) : Append(ps, <<x>>)[i] = qs[i]
    <3>1. \A i \in 1..(n + 1) : i \in 1..n \/ i = n + 1
      BY <1>1
    <3> QED
      BY <1>5, <1>6, <2>1, <3>1
  <2> QED
    BY <1>3, <2>1, <2>2, SeqEqual
<1>9. FlattenSeq(qs) = FlattenSeq(ps) \o <<x>>
  BY <1>2, <1>7, <1>8, FlattenMore
<1>10. FlattenSeq(ps) \o <<x>> = Append(FlattenSeq(ps), x)
  BY <1>2, AppendIsConcat
<1> QED
  BY <1>2, <1>3, <1>9, <1>10 DEF u

\* The beginnings of a text, each longer by a lexeme.
Upto(t, k) == SubSeq(t, 1, k)

LEMMA Beginnings ==
    ASSUME NEW T, NEW t \in Seq(T)
    PROVE  /\ Upto(t, 0) = <<>> /\ Upto(t, Len(t)) = t
           /\ \A k \in 0..Len(t) : Upto(t, k) \in Seq(T) /\ Len(Upto(t, k)) = k
           /\ \A k \in 1..Len(t) : Upto(t, k) = Append(Upto(t, k - 1), t[k]) /\ Upto(t, k)[k] = t[k]
<1>1. Len(t) \in Nat /\ \A i \in 1..Len(t) : t[i] \in T
  BY LenProperties, ElementOfSeq
<1>2. Upto(t, 0) = <<>> /\ Upto(t, Len(t)) = t
  BY SubSeqEmpty, SubSeqFull DEF Upto
<1>3. ASSUME NEW k \in 0..Len(t)
      PROVE  Upto(t, k) \in Seq(T) /\ Len(Upto(t, k)) = k
  <2>1. k \in Int /\ 1 \in Int /\ \A i \in 1..k : t[i] \in T
    BY <1>1
  <2>2. SubSeq(t, 1, k) \in Seq(T) /\ Len(SubSeq(t, 1, k)) = IF 1 <= k THEN k - 1 + 1 ELSE 0
    BY <2>1, SubSeqProperties
  <2> QED
    BY <1>1, <2>2 DEF Upto
<1>4. ASSUME NEW k \in 1..Len(t)
      PROVE  Upto(t, k) = Append(Upto(t, k - 1), t[k]) /\ Upto(t, k)[k] = t[k]
  <2>1. 1 \in 1..Len(t) /\ k \in 1..Len(t) /\ k - 1 \in 0..Len(t) /\ t[k] \in T
    BY <1>1
  <2>2. SubSeq(t, 1, k) = SubSeq(t, 1, k - 1) \o <<t[k]>>
    BY <2>1, SubSeqRecursiveSecond
  <2>3. Upto(t, k - 1) \in Seq(T) /\ Len(Upto(t, k - 1)) = k - 1
    BY <1>3, <2>1
  <2>4. Upto(t, k) = Append(Upto(t, k - 1), t[k])
    BY <2>1, <2>2, <2>3, AppendIsConcat DEF Upto
  <2>5. Append(Upto(t, k - 1), t[k])[(k - 1) + 1] = t[k]
    BY <2>1, <2>3, AppendProperties
  <2>6. (k - 1) + 1 = k
    BY <2>1
  <2>7. Upto(t, k)[k] = t[k]
    BY <2>4, <2>5, <2>6, Zenon
  <2> QED
    BY <2>4, <2>7
<1> QED
  BY <1>2, <1>3, <1>4

\* One text and then another.
Then(s, p) == s \o p

LEMMA ThenIsAssociative ==
    ASSUME NEW T, NEW s \in Seq(T), NEW p \in Seq(T), NEW v \in Seq(T)
    PROVE  Then(Then(s, p), v) = Then(s, Then(p, v))
BY ConcatAssociative DEF Then

\* A text that is put behind another, lexeme by lexeme.
Joined(t, w, k) == t \o Upto(w, k)

LEMMA PutBehind ==
    ASSUME NEW T, NEW t \in Seq(T), NEW w \in Seq(T)
    PROVE  /\ Joined(t, w, 0) = t
           /\ \A k \in 0..Len(w) : Joined(t, w, k) \in Seq(T) /\ Len(Joined(t, w, k)) = Len(t) + k
           /\ \A k \in 1..Len(w) : /\ Joined(t, w, k) = Append(Joined(t, w, k - 1), w[k])
                                   /\ Joined(t, w, k)[Len(t) + k] = w[k]
<1>1. Joined(t, w, 0) = t
  <2>1. Upto(w, 0) = <<>> /\ t \o <<>> = t
    BY Beginnings, ConcatEmptySeq
  <2> QED
    BY <2>1 DEF Joined
<1>2. ASSUME NEW k \in 0..Len(w)
      PROVE  Joined(t, w, k) \in Seq(T) /\ Len(Joined(t, w, k)) = Len(t) + k
  <2> DEFINE v == Upto(w, k)
  <2>1. v \in Seq(T) /\ Len(v) = k
    BY Beginnings
  <2> HIDE DEF v
  <2>2. t \o v \in Seq(T) /\ Len(t \o v) = Len(t) + Len(v)
    BY <2>1, ConcatProperties
  <2> QED
    BY <2>1, <2>2 DEF Joined, v
<1>3. ASSUME NEW k \in 1..Len(w)
      PROVE  /\ Joined(t, w, k) = Append(Joined(t, w, k - 1), w[k])
             /\ Joined(t, w, k)[Len(t) + k] = w[k]
  <2> DEFINE v == Upto(w, k - 1)
             x == <<w[k]>>
             tv == t \o v
  <2>1. Len(w) \in Nat /\ Len(t) \in Nat /\ k - 1 \in 0..Len(w) /\ w[k] \in T
    BY LenProperties, ElementOfSeq
  <2>2. v \in Seq(T) /\ Len(v) = k - 1 /\ x \in Seq(T)
    BY <2>1, Beginnings, OneLexeme
  <2>9. Upto(w, k) = Append(v, w[k])
    BY <2>1, Beginnings
  <2> HIDE DEF v
  <2>3. tv \in Seq(T) /\ Len(tv) = Len(t) + Len(v)
    BY <2>2, ConcatProperties
  <2> HIDE DEF tv
  <2>4. Append(tv, w[k]) = tv \o x /\ Append(v, w[k]) = v \o x
    BY <2>1, <2>2, <2>3, AppendIsConcat
  <2> HIDE DEF x
  <2>10. v \in Seq(T) /\ x \in Seq(T)
    BY <2>2
  <2>5. (t \o v) \o x = t \o (v \o x)
    <3>1. Then(Then(t, v), x) = Then(t, Then(v, x))
      BY <2>10, ThenIsAssociative
    <3> QED
      BY <3>1, Zenon DEF Then
  <2>6. t \o Upto(w, k) = Append(tv, w[k])
    BY <2>4, <2>5, <2>9, Zenon DEF tv
  <2>7. Append(tv, w[k])[Len(tv) + 1] = w[k]
    BY <2>1, <2>3, AppendProperties
  <2>8. Len(tv) + 1 = Len(t) + k
    BY <2>1, <2>2, <2>3
  <2> QED
    BY <2>6, <2>7, <2>8 DEF Joined, tv, v
<1> QED
  BY <1>1, <1>2, <1>3

LEMMA SubstituteToken ==
    ASSUME NEW T, NEW t \in Seq(T), Sign("%") \in T, NEW meaning, Means(T, meaning),
           NEW d \in DOMAIN meaning, d \in T
    PROVE  Substitute(Append(Append(t, Sign("%")), d), meaning) = Substitute(t, meaning) \o meaning[d]
<1> DEFINE n == Len(t)
           known == DOMAIN meaning
           s == Append(t, Sign("%"))
           u == Append(s, d)
           ps == PiecesOf(t, meaning)
           qs == PiecesOf(u, meaning)
<1>1. /\ n \in Nat /\ s \in Seq(T) /\ Len(s) = n + 1 /\ s[n + 1] = Sign("%")
      /\ \A i \in 1..n : s[i] = t[i]
  BY LenProperties, AppendProperties
<1>2. /\ u \in Seq(T) /\ Len(u) = n + 2 /\ DOMAIN u = 1..(n + 2) /\ u[n + 1] = Sign("%") /\ u[n + 2] = d
      /\ \A i \in 1..n : u[i] = t[i]
  <2> HIDE DEF s
  <2>1. u \in Seq(T) /\ Len(u) = (n + 1) + 1 /\ u[(n + 1) + 1] = d /\ \A i \in 1..(n + 1) : u[i] = s[i]
    BY <1>1, AppendProperties
  <2>2. DOMAIN u = 1..Len(u)
    BY <2>1, LenProperties
  <2> HIDE DEF u
  <2>3. n + 1 \in 1..(n + 1) /\ \A i \in 1..n : i \in 1..(n + 1)
    BY <1>1
  <2> QED
    BY <1>1, <2>1, <2>2, <2>3
<1> HIDE DEF u, s
<1>3. /\ ps \in Seq(Seq(T)) /\ Len(ps) = n /\ Substitute(t, meaning) = FlattenSeq(ps)
      /\ Substitute(t, meaning) \in Seq(T)
  BY SubstituteIs
<1>4. qs \in Seq(Seq(T)) /\ Len(qs) = n + 2 /\ Substitute(u, meaning) = FlattenSeq(qs)
  BY <1>2, SubstituteIs
<1>5. /\ \A i \in 1..n : qs[i] = ps[i]
      /\ ~TokenAt(u, known, n)
  <2>1. ~Completes(t, known, u[n + 1])
    BY <1>2 DEF Completes, Means
  <2>2. Len(t) < Len(u)
    BY <1>1, <1>2
  <2> QED
    BY <1>2, <2>1, <2>2, PiecesOfMore
<1>6. TokenAt(u, known, n + 1) /\ ~TokenAt(u, known, n + 2)
  BY <1>1, <1>2 DEF TokenAt
<1>7. qs[n + 1] = meaning[d] /\ qs[n + 2] = <<>>
  <2>1. n + 1 \in DOMAIN u /\ n + 2 \in DOMAIN u /\ (n + 1) + 1 = n + 2 /\ (n + 2) - 1 = n + 1
    BY <1>1, <1>2
  <2>2. \A i \in DOMAIN u : qs[i] = IF TokenAt(u, known, i) THEN meaning[u[i + 1]]
                    ELSE IF TokenAt(u, known, i - 1) THEN <<>> ELSE <<u[i]>>
    BY DEF PiecesOf
  <2> HIDE DEF qs, known
  <2>3. qs[n + 1] = meaning[u[(n + 1) + 1]]
    BY <1>6, <2>1, <2>2, Zenon
  <2>4. qs[n + 2] = IF TokenAt(u, known, n + 2) THEN meaning[u[(n + 2) + 1]]
                    ELSE IF TokenAt(u, known, (n + 2) - 1) THEN <<>> ELSE <<u[n + 2]>>
    BY <2>1, <2>2, Zenon
  <2> QED
    BY <1>2, <1>6, <2>1, <2>3, <2>4
<1> HIDE DEF ps, qs, n
<1>8. meaning[d] \in Seq(T) /\ <<>> \in Seq(T)
  BY DEF Means
<1> DEFINE rs == Append(ps, meaning[d])
<1>9. /\ rs \in Seq(Seq(T)) /\ Len(rs) = n + 1 /\ rs[n + 1] = meaning[d]
      /\ \A i \in 1..n : rs[i] = ps[i]
  BY <1>3, <1>8, AppendProperties
<1>10. FlattenSeq(rs) = FlattenSeq(ps) \o meaning[d]
  BY <1>3, <1>8, FlattenMore
<1> HIDE DEF rs
<1>11. qs = Append(rs, <<>>)
  <2>1. /\ Append(rs, <<>>) \in Seq(Seq(T)) /\ Len(Append(rs, <<>>)) = (n + 1) + 1
        /\ \A i \in 1..(n + 1) : Append(rs, <<>>)[i] = rs[i]
        /\ Append(rs, <<>>)[(n + 1) + 1] = <<>>
    BY <1>8, <1>9, AppendProperties
  <2>2. \A i \in 1..(n + 2) : Append(rs, <<>>)[i] = qs[i]
    <3>1. \A i \in 1..(n + 2) : i \in 1..n \/ i = n + 1 \/ i = n + 2
      BY <1>1 DEF n
    <3>2. (n + 1) + 1 = n + 2 /\ n + 1 \in 1..(n + 1) /\ \A i \in 1..n : i \in 1..(n + 1)
      BY <1>1 DEF n
    <3> QED
      BY <1>5, <1>7, <1>9, <2>1, <3>1, <3>2
  <2>3. (n + 1) + 1 = n + 2
    BY <1>1 DEF n
  <2> QED
    BY <1>4, <2>1, <2>2, <2>3, SeqEqual
<1>12. FlattenSeq(qs) = FlattenSeq(rs) \o <<>>
  BY <1>8, <1>9, <1>11, FlattenMore
<1>13. FlattenSeq(rs) \in Seq(T)
  BY <1>8, <1>9, FlattenMore
<1>14. FlattenSeq(rs) \o <<>> = FlattenSeq(rs)
  BY <1>13, ConcatEmptySeq
<1> QED
  BY <1>3, <1>4, <1>10, <1>12, <1>14 DEF u, s

\* A text without a % that does not begin with the letter of a token is left as it is,
\* wherever it stands.
LEMMA SubstitutePut ==
    ASSUME NEW T, NEW t \in Seq(T), NEW w \in Seq(T), NEW meaning, Means(T, meaning),
           Sign("%") \notin ToSet(w), w # <<>> => w[1] \notin DOMAIN meaning
    PROVE  Substitute(t \o w, meaning) = Substitute(t, meaning) \o w
<1> DEFINE n == Len(w)
           st == Substitute(t, meaning)
           holds(k) == Substitute(Joined(t, w, k), meaning) = Joined(st, w, k)
           bad == {k \in 0..n : ~holds(k)}
<1>1. /\ n \in Nat /\ Len(t) \in Nat /\ st \in Seq(T)
      /\ \A i \in 1..n : w[i] \in T /\ w[i] # Sign("%")
  BY LenProperties, ElementOfSeq, SubstituteIs DEF ToSet
<1> HIDE DEF st
<1>2. bad \in SUBSET Nat /\ IsFiniteSet(bad)
  <2>1. bad \subseteq 0..n /\ bad \in SUBSET Nat
    BY <1>1
  <2>2. IsFiniteSet(0..n)
    BY <1>1, FS_Interval
  <2> QED
    BY <2>1, <2>2, FS_Subset
<1>3. holds(0)
  BY <1>1, PutBehind DEF st
<1>4. ASSUME NEW k \in 1..n, holds(k - 1) PROVE holds(k)
  <2> DEFINE u == Joined(t, w, k - 1)
  <2>1. k - 1 \in 0..n /\ (k # 1 => k - 1 \in 1..n)
    BY <1>1
  <2>2. /\ u \in Seq(T) /\ Len(u) = Len(t) + (k - 1)
        /\ Joined(t, w, k) = Append(u, w[k]) /\ Joined(st, w, k) = Append(Joined(st, w, k - 1), w[k])
        /\ k # 1 => u[Len(u)] = w[k - 1]
    <3>1. u \in Seq(T) /\ Len(u) = Len(t) + (k - 1)
      BY <2>1, PutBehind
    <3>2. Joined(t, w, k) = Append(u, w[k])
      BY PutBehind
    <3>3. Joined(st, w, k) = Append(Joined(st, w, k - 1), w[k])
      BY <1>1, PutBehind
    <3>4. k # 1 => u[Len(t) + (k - 1)] = w[k - 1]
      BY <2>1, PutBehind
    <3> QED
      BY <3>1, <3>2, <3>3, <3>4, Zenon
  <2> HIDE DEF u
  <2>3. ~Completes(u, DOMAIN meaning, w[k])
    <3>1. CASE k = 1
      <4>1. w # <<>>
        BY <1>1, EmptySeq
      <4> QED
        BY <3>1, <4>1 DEF Completes
    <3>2. CASE k # 1
      BY <1>1, <2>1, <2>2, <3>2 DEF Completes
    <3> QED
      BY <3>1, <3>2
  <2>4. Substitute(Append(u, w[k]), meaning) = Append(Substitute(u, meaning), w[k])
    BY <1>1, <2>2, <2>3, SubstituteOne
  <2> QED
    BY <1>4, <2>2, <2>4, Zenon DEF u
<1> HIDE DEF holds, n
<1>5. bad = {}
  <2> SUFFICES ASSUME bad # {} PROVE FALSE
    OBVIOUS
  <2>1. PICK k \in bad : \A i \in bad : k <= i
    BY <1>2, Smallest
  <2>2. k \in 0..n /\ ~holds(k)
    OBVIOUS
  <2>3. k \in 1..n /\ k - 1 \in 0..n /\ ~(k <= k - 1)
    BY <1>1, <1>3, <2>2
  <2>4. holds(k - 1)
    BY <2>1, <2>3
  <2> QED
    BY <1>4, <2>2, <2>3, <2>4
<1>6. holds(n)
  BY <1>1, <1>5
<1>7. Upto(w, n) = w
  BY Beginnings DEF n
<1> QED
  BY <1>6, <1>7 DEF holds, st, Joined

\* Texts that may be put in: none makes a token with what is around it, or a % of its own.
MayPut(T, meaning) ==
    /\ Means(T, meaning) /\ DOMAIN meaning \subseteq T
    /\ \A d \in DOMAIN meaning : meaning[d] # <<>> /\ Sign("%") \notin ToSet(meaning[d])

\* One more token and what it means.
WithToken(meaning, c, v) == [d \in DOMAIN meaning \cup {c} |-> IF d = c THEN v ELSE meaning[d]]

LEMMA BeforeToken ==
    ASSUME NEW T, NEW t \in Seq(T), NEW known, NEW x, Completes(t, known, x)
    PROVE  \E s \in Seq(T) : t = Append(s, Sign("%")) /\ Len(s) = Len(t) - 1 /\ s = Upto(t, Len(t) - 1)
<1> DEFINE s == Upto(t, Len(t) - 1)
<1>1. Len(t) \in Nat /\ Len(t) # 0
  BY LenProperties DEF Completes
<1>2. Len(t) - 1 \in 0..Len(t) /\ Len(t) \in 1..Len(t)
  BY <1>1
<1>3. s \in Seq(T) /\ Len(s) = Len(t) - 1
  BY <1>2, Beginnings
<1>4. Upto(t, Len(t)) = Append(s, t[Len(t)]) /\ Upto(t, Len(t)) = t
  BY <1>2, Beginnings
<1> QED
  BY <1>3, <1>4 DEF Completes

\* What has become of a text ends in a % if the text does.
LEMMA SubstituteEnds ==
    ASSUME NEW T, NEW t \in Seq(T), Sign("%") \in T, NEW x \in T, NEW meaning, MayPut(T, meaning)
    PROVE  LET r == Substitute(Append(t, x), meaning)
           IN  r \in Seq(T) /\ Len(r) \in Nat \ {0} /\ (r[Len(r)] = Sign("%") <=> x = Sign("%"))
<1> DEFINE r == Substitute(Append(t, x), meaning)
<1> SUFFICES r \in Seq(T) /\ Len(r) \in Nat \ {0} /\ (r[Len(r)] = Sign("%") <=> x = Sign("%"))
  OBVIOUS
<1>1. Means(T, meaning)
  BY DEF MayPut
<1>2. CASE ~Completes(t, DOMAIN meaning, x)
  <2> DEFINE s == Substitute(t, meaning)
  <2>1. r = Append(s, x) /\ s \in Seq(T)
    BY <1>1, <1>2, SubstituteOne, SubstituteIs
  <2> HIDE DEF s, r
  <2>2. /\ Append(s, x) \in Seq(T) /\ Len(Append(s, x)) = Len(s) + 1
        /\ Append(s, x)[Len(s) + 1] = x /\ Len(s) \in Nat
    BY <2>1, AppendProperties, LenProperties
  <2> QED
    BY <2>1, <2>2
<1>3. CASE Completes(t, DOMAIN meaning, x)
  <2>1. PICK s \in Seq(T) : t = Append(s, Sign("%"))
    BY <1>3, BeforeToken
  <2>2. x \in DOMAIN meaning
    BY <1>3 DEF Completes
  <2> DEFINE a == Substitute(s, meaning)
             w == meaning[x]
  <2>3. r = a \o w
    BY <1>1, <2>1, <2>2, SubstituteToken
  <2>4. a \in Seq(T) /\ w \in Seq(T) /\ w # <<>> /\ Sign("%") \notin ToSet(w)
    BY <1>1, <2>2, SubstituteIs DEF MayPut, Means
  <2>5. x # Sign("%")
    BY <1>1, <2>2 DEF Means
  <2> HIDE DEF a, w, r
  <2>6. Len(w) \in Nat \ {0} /\ Len(a) \in Nat /\ w[Len(w)] # Sign("%")
    BY <2>4, EmptySeq, LenProperties DEF ToSet
  <2>7. /\ a \o w \in Seq(T) /\ Len(a \o w) = Len(a) + Len(w)
        /\ \A i \in 1..(Len(a) + Len(w)) : (a \o w)[i] = IF i <= Len(a) THEN a[i] ELSE w[i - Len(a)]
    BY <2>4, ConcatProperties
  <2>8. (a \o w)[Len(a) + Len(w)] = w[Len(w)]
    <3>1. Len(a) + Len(w) \in 1..(Len(a) + Len(w)) /\ ~(Len(a) + Len(w) <= Len(a))
          /\ (Len(a) + Len(w)) - Len(a) = Len(w)
      BY <2>6
    <3> QED
      BY <2>7, <3>1
  <2> QED
    BY <2>3, <2>5, <2>6, <2>7, <2>8
<1> QED
  BY <1>2, <1>3

\* What has become of a text's beginnings.
Begun(t, k, meaning) == Substitute(Upto(t, k), meaning)

\* It grows by a lexeme, or by what a token means.
GrowsBy(t, k, meaning) ==
    /\ ~TokenAt(t, DOMAIN meaning, k - 1) =>
           Begun(t, k, meaning) = Append(Begun(t, k - 1, meaning), t[k])
    /\ TokenAt(t, DOMAIN meaning, k - 1) =>
           Begun(t, k, meaning) = Then(Begun(t, k - 2, meaning), meaning[t[k]])

LEMMA SubstituteSteps ==
    ASSUME NEW T, NEW t \in Seq(T), Sign("%") \in T, NEW meaning, Means(T, meaning),
           DOMAIN meaning \subseteq T
    PROVE  /\ Begun(t, 0, meaning) = <<>> /\ Begun(t, Len(t), meaning) = Substitute(t, meaning)
           /\ \A k \in 0..Len(t) : Begun(t, k, meaning) \in Seq(T)
           /\ \A k \in 1..Len(t) : GrowsBy(t, k, meaning)
<1> DEFINE n == Len(t)
<1>1. n \in Nat /\ \A i \in 1..n : t[i] \in T
  BY LenProperties, ElementOfSeq
<1>2. Begun(t, 0, meaning) = <<>> /\ Begun(t, n, meaning) = Substitute(t, meaning)
  <2>1. Upto(t, 0) = <<>> /\ Upto(t, n) = t
    BY Beginnings
  <2> QED
    BY <2>1, SubstituteNothing DEF Begun
<1>3. \A k \in 0..n : Upto(t, k) \in Seq(T) /\ Len(Upto(t, k)) = k /\ Begun(t, k, meaning) \in Seq(T)
  BY Beginnings, SubstituteIs DEF Begun
<1>4. \A k \in 1..n : Upto(t, k) = Append(Upto(t, k - 1), t[k]) /\ Upto(t, k)[k] = t[k]
  BY Beginnings
<1>5. ASSUME NEW k \in 1..n
      PROVE  Completes(Upto(t, k - 1), DOMAIN meaning, t[k]) <=> TokenAt(t, DOMAIN meaning, k - 1)
  <2>1. k - 1 \in 0..n /\ (k # 1 <=> k - 1 \in 1..(n - 1)) /\ (k - 1) + 1 = k
    BY <1>1
  <2>2. Len(Upto(t, k - 1)) = k - 1 /\ (k # 1 => Upto(t, k - 1)[k - 1] = t[k - 1])
    <3>1. k # 1 => k - 1 \in 1..n
      BY <1>1
    <3> QED
      BY <1>3, <1>4, <2>1, <3>1
  <2> QED
    BY <2>1, <2>2 DEF Completes, TokenAt
<1>6. ASSUME NEW k \in 1..n, ~TokenAt(t, DOMAIN meaning, k - 1)
      PROVE  Begun(t, k, meaning) = Append(Begun(t, k - 1, meaning), t[k])
  <2> DEFINE p == Upto(t, k - 1)
             x == t[k]
  <2>1. p \in Seq(T) /\ ~Completes(p, DOMAIN meaning, x) /\ x \in T
    <3>1. k - 1 \in 0..n
      BY <1>1
    <3> QED
      BY <1>1, <1>3, <1>5, <1>6, <3>1
  <2>2. Upto(t, k) = Append(p, x)
    BY <1>4
  <2> HIDE DEF p, x
  <2>3. Substitute(Append(p, x), meaning) = Append(Substitute(p, meaning), x)
    BY <2>1, SubstituteOne
  <2> QED
    BY <2>2, <2>3 DEF Begun, p, x
<1>7. ASSUME NEW k \in 1..n, TokenAt(t, DOMAIN meaning, k - 1)
      PROVE  Begun(t, k, meaning) = Then(Begun(t, k - 2, meaning), meaning[t[k]])
  <2> DEFINE q == Upto(t, k - 2)
             x == t[k]
  <2>1. /\ k - 1 \in 1..(n - 1) /\ t[k - 1] = Sign("%") /\ (k - 1) + 1 = k /\ x \in DOMAIN meaning
    BY <1>1, <1>7 DEF TokenAt
  <2>2. k - 1 \in 1..n /\ k - 2 \in 0..n /\ (k - 1) - 1 = k - 2
    BY <1>1, <2>1
  <2>3. q \in Seq(T) /\ x \in T
    BY <1>1, <1>3, <2>2
  <2>4. Upto(t, k - 1) = Append(q, Sign("%"))
    BY <1>4, <2>1, <2>2
  <2>5. Upto(t, k) = Append(Append(q, Sign("%")), x)
    BY <1>4, <2>4
  <2> HIDE DEF q, x
  <2>6. Substitute(Append(Append(q, Sign("%")), x), meaning) = Substitute(q, meaning) \o meaning[x]
    BY <2>1, <2>3, SubstituteToken
  <2> QED
    BY <2>5, <2>6 DEF Begun, Then, q, x
<1> QED
  BY <1>2, <1>3, <1>6, <1>7 DEF GrowsBy

LEMMA TokenThen ==
    ASSUME NEW T, NEW t \in Seq(T), Sign("%") \in T, NEW meaning, Means(T, meaning),
           NEW d \in DOMAIN meaning, d \in T
    PROVE  Substitute(Append(Append(t, Sign("%")), d), meaning) = Then(Substitute(t, meaning), meaning[d])
BY SubstituteToken DEF Then

LEMMA PutThen ==
    ASSUME NEW T, NEW t \in Seq(T), NEW w \in Seq(T), NEW meaning, Means(T, meaning),
           Sign("%") \notin ToSet(w), w # <<>> => w[1] \notin DOMAIN meaning
    PROVE  Substitute(Then(t, w), meaning) = Then(Substitute(t, meaning), w)
BY SubstitutePut DEF Then

\* What has become of a text ends in a % if the text does.
LEMMA BegunEnds ==
    ASSUME NEW T, NEW t \in Seq(T), Sign("%") \in T, NEW meaning, MayPut(T, meaning), NEW k \in 1..Len(t)
    PROVE  /\ Begun(t, k, meaning) # <<>>
           /\ Begun(t, k, meaning)[Len(Begun(t, k, meaning))] = Sign("%") <=> t[k] = Sign("%")
<1> DEFINE p == Upto(t, k - 1)
           x == t[k]
           r == Begun(t, k, meaning)
<1>1. k - 1 \in 0..Len(t) /\ x \in T
  BY LenProperties, ElementOfSeq
<1>2. p \in Seq(T)
  BY <1>1, Beginnings
<1>3. Upto(t, k) = Append(p, x)
  BY Beginnings
<1> HIDE DEF p, x
<1>4. LET u == Substitute(Append(p, x), meaning)
      IN  u \in Seq(T) /\ Len(u) \in Nat \ {0} /\ (u[Len(u)] = Sign("%") <=> x = Sign("%"))
  BY <1>1, <1>2, SubstituteEnds
<1>5. r = Substitute(Append(p, x), meaning)
  BY <1>3 DEF Begun
<1> HIDE DEF r
<1>6. r \in Seq(T) /\ Len(r) \in Nat \ {0} /\ (r[Len(r)] = Sign("%") <=> x = Sign("%"))
  BY <1>4, <1>5
<1>7. r # <<>>
  BY <1>6, EmptySeq
<1> QED
  BY <1>6, <1>7 DEF r, x

\* The meaning of one token.
Only(c, v) == [x \in {c} |-> v]

\* One token after the other is all at once.
LEMMA SubstituteTwice ==
    ASSUME NEW T, NEW t \in Seq(T), Sign("%") \in T, NEW meaning, MayPut(T, meaning),
           NEW c \in T, c # Sign("%"), c \notin DOMAIN meaning, NEW v \in Seq(T),
           \A d \in DOMAIN meaning : meaning[d][1] # c
    PROVE  Substitute(Substitute(t, meaning), Only(c, v)) = Substitute(t, WithToken(meaning, c, v))
<1> DEFINE n == Len(t)
           known == DOMAIN meaning
           one == Only(c, v)
           all == WithToken(meaning, c, v)
           s(k) == Begun(t, k, meaning)
           a(k) == Begun(t, k, all)
           holds(k) == Substitute(s(k), one) = a(k)
           bad == {k \in 0..n : ~holds(k)}
<1>1. /\ Means(T, meaning) /\ Means(T, one) /\ Means(T, all) /\ DOMAIN all \subseteq T
      /\ DOMAIN one = {c} /\ DOMAIN all = known \cup {c} /\ one[c] = v /\ all[c] = v
      /\ \A d \in known : all[d] = meaning[d] /\ d \in T /\ meaning[d] \in Seq(T)
  BY DEF MayPut, Means, WithToken, Only
<1> HIDE DEF one, all
<1>2. n \in Nat /\ \A i \in 1..n : t[i] \in T
  BY LenProperties, ElementOfSeq
<1>3. bad \in SUBSET Nat /\ IsFiniteSet(bad)
  <2>1. bad \subseteq 0..n /\ bad \in SUBSET Nat
    BY <1>2
  <2>2. IsFiniteSet(0..n)
    <3>1. 0 \in Int /\ n \in Int
      BY <1>2
    <3> QED
      BY <3>1, FS_Interval
  <2> QED
    BY <2>1, <2>2, FS_Subset
<1>4. /\ s(0) = <<>> /\ s(n) = Substitute(t, meaning) /\ \A k \in 0..n : s(k) \in Seq(T)
      /\ a(0) = <<>> /\ a(n) = Substitute(t, all) /\ \A k \in 0..n : a(k) \in Seq(T)
  BY <1>1, SubstituteSteps
<1>14. \A k \in 1..n : GrowsBy(t, k, meaning) /\ GrowsBy(t, k, all)
  BY <1>1, SubstituteSteps
<1>5. \A k \in 1..n : ~TokenAt(t, known, k - 1) => s(k) = Append(s(k - 1), t[k])
  BY <1>14, Zenon DEF GrowsBy
<1>6. \A k \in 1..n : TokenAt(t, known, k - 1) => s(k) = Then(s(k - 2), meaning[t[k]])
  BY <1>14, Zenon DEF GrowsBy
<1>7. \A k \in 1..n : ~TokenAt(t, known \cup {c}, k - 1) => a(k) = Append(a(k - 1), t[k])
  BY <1>1, <1>14, Zenon DEF GrowsBy
<1>8. \A k \in 1..n : TokenAt(t, known \cup {c}, k - 1) => a(k) = Then(a(k - 2), all[t[k]])
  BY <1>1, <1>14, Zenon DEF GrowsBy
<1>9. \A k \in 1..n : s(k) # <<>> /\ (s(k)[Len(s(k))] = Sign("%") <=> t[k] = Sign("%"))
  BY BegunEnds
<1> HIDE DEF s, a, known
<1>10. holds(0)
  BY <1>4, SubstituteNothing
<1>11. ASSUME NEW k \in 1..n, holds(k - 1), k # 1 => holds(k - 2) PROVE holds(k)
  <2> DEFINE x == t[k]
             p == s(k - 1)
             q == s(k - 2)
  <2>1. /\ k - 1 \in 0..n /\ (k - 1) + 1 = k /\ x \in T /\ p \in Seq(T)
        /\ k # 1 => k - 1 \in 1..(n - 1) /\ k - 1 \in 1..n /\ k - 2 \in 0..n /\ q \in Seq(T)
    BY <1>2, <1>4
  <2>2. CASE ~TokenAt(t, known \cup {c}, k - 1)
    <3>1. s(k) = Append(p, x) /\ a(k) = Append(a(k - 1), x)
      <4>1. ~TokenAt(t, known, k - 1)
        BY <2>2 DEF TokenAt
      <4> QED
        BY <1>5, <1>7, <2>2, <4>1, Zenon
    <3>2. ~Completes(p, {c}, x)
      <4> SUFFICES ASSUME Completes(p, {c}, x) PROVE FALSE
        OBVIOUS
      <4>1. x = c /\ p # <<>> /\ p[Len(p)] = Sign("%")
        BY EmptySeq DEF Completes
      <4>2. k # 1
        BY <1>4, <4>1
      <4>3. t[k - 1] = Sign("%")
        BY <1>9, <2>1, <4>1, <4>2
      <4> QED
        BY <2>1, <2>2, <4>1, <4>2, <4>3 DEF TokenAt
    <3> HIDE DEF p, x
    <3>3. Substitute(Append(p, x), one) = Append(Substitute(p, one), x)
      BY <1>1, <2>1, <3>2, SubstituteOne
    <3> QED
      BY <1>11, <3>1, <3>3, Zenon DEF p
  <2>3. CASE TokenAt(t, known \cup {c}, k - 1)
    <3>1. k # 1 /\ t[k - 1] = Sign("%") /\ x \in known \cup {c}
      BY <1>2, <2>1, <2>3 DEF TokenAt
    <3>2. a(k) = Then(a(k - 2), all[x]) /\ Substitute(q, one) = a(k - 2)
      BY <1>8, <1>11, <2>3, <3>1
    <3>3. CASE x = c
      <4>1. p = Append(q, Sign("%"))
        <5>1. ~TokenAt(t, known, (k - 1) - 1)
          BY <1>1, <2>1, <3>1 DEF TokenAt, Means, known
        <5>2. (k - 1) - 1 = k - 2
          BY <2>1
        <5> QED
          BY <1>5, <2>1, <3>1, <5>1, <5>2
      <4>2. s(k) = Append(p, x)
        <5>1. ~TokenAt(t, known, k - 1)
          BY <2>1, <3>3 DEF TokenAt, known
        <5> QED
          BY <1>5, <5>1
      <4> HIDE DEF q
      <4>3. Substitute(Append(Append(q, Sign("%")), c), one) = Then(Substitute(q, one), one[c])
        BY <1>1, <2>1, <3>1, TokenThen
      <4> HIDE DEF p, x
      <4>4. Substitute(s(k), one) = Then(Substitute(q, one), v)
        BY <1>1, <3>3, <4>1, <4>2, <4>3, Zenon
      <4> QED
        BY <1>1, <3>2, <3>3, <4>4, Zenon
    <3>4. CASE x # c
      <4> DEFINE w == meaning[x]
      <4>1. x \in known
        BY <3>1, <3>4
      <4>2. s(k) = Then(q, w)
        <5>1. TokenAt(t, known, k - 1)
          BY <2>1, <2>3, <4>1 DEF TokenAt
        <5> QED
          BY <1>6, <5>1
      <4>3. w \in Seq(T) /\ Sign("%") \notin ToSet(w) /\ w[1] \notin DOMAIN one /\ all[x] = w
        BY <1>1, <4>1 DEF MayPut, known
      <4> HIDE DEF q, w
      <4>4. Substitute(Then(q, w), one) = Then(Substitute(q, one), w)
        BY <1>1, <2>1, <3>1, <4>3, PutThen
      <4>5. Substitute(s(k), one) = Then(Substitute(q, one), w)
        BY <4>2, <4>4, Zenon
      <4> HIDE DEF x
      <4> QED
        BY <3>2, <4>3, <4>5, Zenon
    <3> QED
      BY <3>3, <3>4
  <2> QED
    BY <2>2, <2>3
<1> HIDE DEF holds, n
<1>12. bad = {}
  <2> SUFFICES ASSUME bad # {} PROVE FALSE
    OBVIOUS
  <2>1. PICK k \in bad : \A i \in bad : k <= i
    BY <1>3, Smallest
  <2>2. k \in 0..n /\ ~holds(k)
    OBVIOUS
  <2>3. k \in 1..n /\ k - 1 \in 0..n /\ ~(k <= k - 1) /\ (k # 1 => k - 2 \in 0..n /\ ~(k <= k - 2))
    BY <1>2, <1>10, <2>2
  <2>4. holds(k - 1) /\ (k # 1 => holds(k - 2))
    BY <2>1, <2>3
  <2> QED
    BY <1>11, <2>2, <2>3, <2>4
<1>13. holds(n)
  BY <1>2, <1>12
<1> QED
  BY <1>4, <1>13, Zenon DEF holds, one, all

LEMMA AppendIs ==
    ASSUME NEW T, NEW s \in Seq(T), NEW e \in T, NEW u \in Seq(T), Len(u) = Len(s) + 1,
           \A i \in 1..Len(s) : u[i] = s[i], u[Len(s) + 1] = e
    PROVE  Append(s, e) = u
<1> DEFINE r == Append(s, e)
<1>1. Len(s) \in Nat
  BY LenProperties
<1>2. /\ r \in Seq(T) /\ Len(r) = Len(s) + 1
      /\ \A i \in 1..Len(s) : r[i] = s[i]
      /\ r[Len(s) + 1] = e
  BY AppendProperties
<1> HIDE DEF r
<1>3. \A i \in 1..Len(r) : r[i] = u[i]
  <2> SUFFICES ASSUME NEW i \in 1..Len(r) PROVE r[i] = u[i]
    OBVIOUS
  <2>1. i \in 1..Len(s) \/ i = Len(s) + 1
    BY <1>1, <1>2
  <2> QED
    BY <1>2, <2>1
<1>4. r = u
  BY <1>2, <1>3, SeqEqual
<1> QED
  BY <1>4 DEF r

LEMMA AppendedOnes ==
    ASSUME NEW T, NEW x \in T, NEW y \in T, NEW z \in T
    PROVE  /\ Append(<<>> \o <<x>>, y) = <<x, y>>
           /\ (<<x>> \o <<y>>) \o <<z>> = <<x, y, z>>
<1> DEFINE one == <<x>>
           two == <<x, y>>
           three == <<x, y, z>>
<1>1. /\ one \in Seq(T) /\ two \in Seq(T) /\ three \in Seq(T)
      /\ Len(one) = 1 /\ Len(two) = 2 /\ Len(three) = 3 /\ one[1] = x
      /\ two[1] = x /\ two[2] = y /\ three[1] = x /\ three[2] = y /\ three[3] = z
  OBVIOUS
<1>2. <<>> \o <<x>> = one
  BY <1>1, ConcatEmptySeq, Zenon
<1> HIDE DEF one, two, three
<1>3. Append(one, y) = two
  <2>1. Len(two) = Len(one) + 1 /\ (\A i \in 1..Len(one) : two[i] = one[i]) /\ two[Len(one) + 1] = y
    BY <1>1
  <2> QED
    BY <1>1, <2>1, AppendIs, Zenon
<1>4. Append(two, z) = three
  <2>1. /\ Len(three) = Len(two) + 1 /\ (\A i \in 1..Len(two) : three[i] = two[i])
        /\ three[Len(two) + 1] = z
    BY <1>1
  <2> QED
    BY <1>1, <2>1, AppendIs, Zenon
<1>9. Append(<<>> \o <<x>>, y) = two
  BY <1>2, <1>3, Zenon
<1>10. one \o <<y>> = two /\ two \o <<z>> = three
  BY <1>1, <1>3, <1>4, AppendIsConcat
<1>11. (one \o <<y>>) \o <<z>> = three
  BY <1>10, Zenon
<1> QED
  BY <1>9, <1>11, Zenon DEF one, two, three
=============================================================================
