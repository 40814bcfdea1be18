---------------------------- MODULE OptionProofs ----------------------------
(***************************************************************************)
(* What the parsers of the options and of job keys read, of texts of any   *)
(* length, and of the texts that values of any size are printed as.        *)
(*                                                                         *)
(* Each option has a form: the values that Python may build of it, within  *)
(* the constraints of its parser or not.  ...IsRead: what is printed of a  *)
(* value of the form is read as that value, or, if it breaks a constraint, *)
(* as nothing.  ...IsForm: what is read of any text is of the form, and    *)
(* keeps the constraints.                                                  *)
(*                                                                         *)
(* And what sbatch and tssrun make of the command lines that the builders  *)
(* make of such values, of texts of any kind and of any variables.         *)
(***************************************************************************)
EXTENDS TextProofs, Commands, QueryText

-----------------------------------------------------------------------------
(* The loop over one entry of an array spec takes every step-th index.  What *)
(* is shown of an index is shown last of the largest for which it is not     *)
(* known: a loop has no more steps than there are indices.                   *)

IsLoop(f, end, step) ==
    f = [i \in Nat |-> IF i > end THEN <<>>
                       ELSE <<i>> \o (IF i + step > MaxU32 THEN <<>> ELSE f[i + step])]

\* The indices from i on, by their number.
Steps(i, end, step) == IF i > end THEN 0 ELSE (end - i) \div step + 1

EveryFrom(i, end, step) == [k \in 1..Steps(i, end, step) |-> i + (k - 1) * step]

LEMMA StepsType ==
    ASSUME NEW i \in Nat, NEW end \in Nat, NEW step \in Nat \ {0}
    PROVE  /\ Steps(i, end, step) \in Nat
           /\ EveryFrom(i, end, step) \in Seq(Nat)
           /\ Len(EveryFrom(i, end, step)) = Steps(i, end, step)
<1> DEFINE n == Steps(i, end, step)
           g == EveryFrom(i, end, step)
<1>1. n \in Nat
  BY DEF Steps
<1>2. \A k \in 1..n : i + (k - 1) * step \in Nat
  <2> HIDE DEF n
  <2> TAKE k \in 1..n
  <2>1. k - 1 \in Nat
    BY <1>1
  <2> QED
    BY <2>1
<1>3. g = [k \in 1..n |-> i + (k - 1) * step]
  BY DEF EveryFrom
<1> HIDE DEF n, g
<1>4. g \in [1..n -> Nat]
  BY <1>2, <1>3
<1>5. g \in Seq(Nat)
  BY <1>1, <1>4
<1>6. Len(g) = n
  BY <1>1, <1>4, <1>5, LenProperties
<1> QED
  BY <1>1, <1>5, <1>6 DEF n, g

LEMMA NextSteps ==
    ASSUME NEW i \in Nat, NEW end \in Nat, NEW step \in Nat \ {0}, i <= end
    PROVE  Steps(i, end, step) = 1 + Steps(i + step, end, step)
<1>1. CASE end - i < step
  <2>1. (end - i) \div step = 0
    BY <1>1
  <2>2. i + step > end
    BY <1>1
  <2> QED
    BY <2>1, <2>2 DEF Steps
<1>2. CASE ~(end - i < step)
  <2>1. ((end - i) - step) \div step + 1 = (end - i) \div step
    BY <1>2
  <2>2. end - (i + step) = (end - i) - step /\ ~(i + step > end) /\ ~(i > end)
    BY <1>2
  <2>3. (end - i) \div step \in Int /\ ((end - i) - step) \div step \in Int
    BY <1>2
  <2> QED
    BY <2>1, <2>2, <2>3 DEF Steps
<1> QED
  BY <1>1, <1>2

LEMMA LoopStep ==
    ASSUME NEW i \in Nat, NEW end \in Nat, NEW step \in Nat \ {0}, i <= end
    PROVE  EveryFrom(i, end, step) = <<i>> \o EveryFrom(i + step, end, step)
<1> DEFINE a == EveryFrom(i, end, step)
           b == EveryFrom(i + step, end, step)
           n == Steps(i + step, end, step)
<1>1. n \in Nat /\ a \in Seq(Nat) /\ b \in Seq(Nat) /\ Len(b) = n /\ Len(a) = 1 + n
  <2>1. i + step \in Nat
    OBVIOUS
  <2> QED
    BY <2>1, StepsType, NextSteps
<1>2. \A k \in 1..Len(a) : a[k] = i + (k - 1) * step
  BY StepsType DEF EveryFrom
<1>3. \A k \in 1..n : b[k] = (i + step) + (k - 1) * step
  BY DEF EveryFrom
<1>4. <<i>> \in Seq(Nat) /\ Len(<<i>>) = 1 /\ <<i>>[1] = i
  OBVIOUS
<1> HIDE DEF a, b, n
<1>5. /\ <<i>> \o b \in Seq(Nat) /\ Len(<<i>> \o b) = 1 + n
      /\ \A k \in 1..(1 + n) : (<<i>> \o b)[k] = IF k <= 1 THEN i ELSE b[k - 1]
  <2>1. /\ <<i>> \o b \in Seq(Nat) /\ Len(<<i>> \o b) = Len(<<i>>) + Len(b)
        /\ \A k \in 1..(Len(<<i>>) + Len(b)) :
              (<<i>> \o b)[k] = IF k <= Len(<<i>>) THEN <<i>>[k] ELSE b[k - Len(<<i>>)]
    BY <1>1, <1>4, ConcatProperties
  <2> QED
    BY <1>1, <1>4, <2>1
<1>6. ASSUME NEW k \in 1..Len(a)
      PROVE  a[k] = (<<i>> \o b)[k]
  <2>1. a[k] = i + (k - 1) * step
    BY <1>2
  <2>2. CASE k = 1
    BY <1>1, <1>5, <2>1, <2>2
  <2>3. CASE k # 1
    <3>1. k - 1 \in 1..n /\ ~(k <= 1) /\ k \in 1..(1 + n)
      BY <1>1, <2>3
    <3>2. (<<i>> \o b)[k] = (i + step) + ((k - 1) - 1) * step
      BY <1>3, <1>5, <3>1
    <3>3. (i + step) + ((k - 1) - 1) * step = i + (k - 1) * step
      BY <3>1
    <3> QED
      BY <2>1, <3>2, <3>3
  <2> QED
    BY <2>2, <2>3
<1>7. a = <<i>> \o b
  BY <1>1, <1>5, <1>6, SeqEqual
<1> QED
  BY <1>7 DEF a, b

LEMMA LoopExists ==
    ASSUME NEW end \in 0..MaxU32, NEW step \in Nat \ {0}
    PROVE  IsLoop([i \in Nat |-> EveryFrom(i, end, step)], end, step)
<1> DEFINE g == [i \in Nat |-> EveryFrom(i, end, step)]
<1>1. ASSUME NEW i \in Nat
      PROVE  g[i] = IF i > end THEN <<>>
                    ELSE <<i>> \o (IF i + step > MaxU32 THEN <<>> ELSE g[i + step])
  <2>1. end \in Nat /\ i + step \in Nat /\ MaxU32 \in Nat
    BY TextAssumption
  <2>2. g[i] = EveryFrom(i, end, step) /\ g[i + step] = EveryFrom(i + step, end, step)
    BY <2>1
  <2>3. ASSUME NEW j \in Nat, j > end
        PROVE  EveryFrom(j, end, step) = <<>>
    <3>1. EveryFrom(j, end, step) \in Seq(Nat) /\ Len(EveryFrom(j, end, step)) = Steps(j, end, step)
      BY <2>1, StepsType
    <3>2. Steps(j, end, step) = 0
      BY <2>3 DEF Steps
    <3> QED
      BY <3>1, <3>2, EmptySeq
  <2> HIDE DEF g
  <2>4. CASE i > end
    BY <2>2, <2>3, <2>4
  <2>5. CASE ~(i > end)
    <3>1. i <= end
      BY <2>1, <2>5
    <3>3. EveryFrom(i, end, step) = <<i>> \o EveryFrom(i + step, end, step)
      BY <2>1, <3>1, LoopStep
    <3>2. i + step > MaxU32 => EveryFrom(i + step, end, step) = <<>>
      BY <2>1, <2>3
    <3> QED
      BY <2>2, <2>5, <3>2, <3>3
  <2> QED
    BY <2>4, <2>5
<1> QED
  BY <1>1 DEF IsLoop

LEMMA LoopIsOne ==
    ASSUME NEW end \in 0..MaxU32, NEW step \in Nat \ {0}, NEW f, IsLoop(f, end, step),
           NEW i \in Nat
    PROVE  f[i] = EveryFrom(i, end, step)
<1> DEFINE bad == {j \in 0..end : f[j] # EveryFrom(j, end, step)}
<1>1. end \in Nat /\ MaxU32 \in Nat /\ end <= MaxU32
  BY TextAssumption
<1>2. ASSUME NEW j \in Nat
      PROVE  f[j] = IF j > end THEN <<>>
                    ELSE <<j>> \o (IF j + step > MaxU32 THEN <<>> ELSE f[j + step])
  BY DEF IsLoop
<1>3. ASSUME NEW j \in Nat, j > end
      PROVE  f[j] = <<>> /\ EveryFrom(j, end, step) = <<>>
  <2>1. EveryFrom(j, end, step) \in Seq(Nat) /\ Len(EveryFrom(j, end, step)) = Steps(j, end, step)
    BY <1>1, StepsType
  <2>2. Steps(j, end, step) = 0
    BY <1>3 DEF Steps
  <2> QED
    BY <1>2, <1>3, <2>1, <2>2, EmptySeq
<1>4. bad = {}
  <2> SUFFICES ASSUME bad # {}
               PROVE  FALSE
    OBVIOUS
  <2>1. bad \in SUBSET Nat /\ bad \subseteq 0..end
    BY <1>1
  <2>2. IsFiniteSet(bad)
    <3>1. 0 \in Int /\ end \in Int
      BY <1>1
    <3>2. IsFiniteSet(0..end)
      BY <3>1, FS_Interval
    <3> QED
      BY <2>1, <3>2, FS_Subset
  <2> HIDE DEF bad
  <2>3. PICK m \in bad : \A k \in bad : k <= m
    BY <2>1, <2>2, Largest
  <2>4. m \in Nat /\ m <= end /\ m + step \in Nat /\ ~(m + step <= m)
    BY <1>1, <2>1
  <2>5. f[m + step] = EveryFrom(m + step, end, step)
    <3>1. CASE m + step > end
      BY <1>3, <2>4, <3>1
    <3>2. CASE ~(m + step > end)
      <4>1. m + step \in 0..end /\ m + step \notin bad
        BY <1>1, <2>3, <2>4, <3>2
      <4> QED
        BY <4>1 DEF bad
    <3> QED
      BY <3>1, <3>2
  <2>6. EveryFrom(m, end, step) = <<m>> \o EveryFrom(m + step, end, step)
    BY <1>1, <2>4, LoopStep
  <2>7. m + step > MaxU32 => EveryFrom(m + step, end, step) = <<>>
    <3>1. m + step > MaxU32 => m + step > end
      BY <1>1, <2>4
    <3> QED
      BY <1>3, <2>4, <3>1
  <2>8. f[m] = <<m>> \o (IF m + step > MaxU32 THEN <<>> ELSE f[m + step])
    <3>1. ~(m > end)
      BY <1>1, <2>4
    <3> QED
      BY <1>2, <2>4, <3>1
  <2>9. f[m] = EveryFrom(m, end, step)
    BY <2>5, <2>6, <2>7, <2>8
  <2> QED
    BY <2>9 DEF bad
<1>5. i > end \/ i \in 0..end
  BY <1>1
<1> QED
  BY <1>3, <1>4, <1>5

\* What SLURM starts of an entry.
LEMMA EveryFromIsTasks ==
    ASSUME NEW i \in Nat, NEW end \in Nat, NEW step \in Nat \ {0}
    PROVE  /\ ToSet(EveryFrom(i, end, step)) = {j \in i..end : (j - i) % step = 0}
           /\ IsInjective(EveryFrom(i, end, step))
<1> DEFINE g == EveryFrom(i, end, step)
           n == Steps(i, end, step)
<1>1. n \in Nat /\ DOMAIN g = 1..n /\ \A k \in 1..n : g[k] = i + (k - 1) * step
  BY StepsType DEF EveryFrom
<1>2. n = IF i > end THEN 0 ELSE (end - i) \div step + 1
  BY DEF Steps
<1> HIDE DEF g, n
<1>3. ASSUME NEW k \in 1..n
      PROVE  g[k] \in {j \in i..end : (j - i) % step = 0}
  <2> DEFINE x == (k - 1) * step
             q == (end - i) \div step
  <2>1. i <= end /\ k - 1 \in Nat /\ k - 1 <= q /\ q \in Nat /\ end - i \in Nat
    BY <1>1, <1>2
  <2>2. x \in Nat /\ x % step = 0
    <3>1. x \in Nat
      BY <2>1
    <3>2. x = (k - 1) * step + 0 /\ x = step * (x \div step) + (x % step) /\ x % step \in 0..(step - 1)
      BY <3>1
    <3>3. x % step = 0
      BY <2>1, <3>1, <3>2
    <3> QED
      BY <3>1, <3>3
  <2>3. x <= end - i
    <3>1. q * step <= end - i
      BY <2>1
    <3>2. x <= q * step
      BY <2>1
    <3> HIDE DEF x, q
    <3>3. q * step \in Int
      BY <2>1
    <3> QED
      BY <2>1, <2>2, <3>1, <3>2, <3>3
  <2> HIDE DEF x, q
  <2>4. i + x \in i..end /\ (i + x) - i = x
    BY <2>1, <2>2, <2>3
  <2>5. g[k] = i + x
    BY <1>1 DEF x
  <2> QED
    BY <2>2, <2>4, <2>5
<1>4. ASSUME NEW j \in i..end, (j - i) % step = 0
      PROVE  \E k \in 1..n : g[k] = j
  <2> DEFINE x == j - i
             p == x \div step
             q == (end - i) \div step
  <2>1. x \in Nat /\ end - i \in Nat /\ x <= end - i /\ ~(i > end)
    OBVIOUS
  <2>2. x = p * step /\ p \in Nat
    BY <1>4, <2>1
  <2>3. p <= q /\ q \in Nat
    <3> HIDE DEF x
    <3> QED
      BY <2>1
  <2>4. p + 1 \in 1..n /\ (p + 1) - 1 = p
    <3> HIDE DEF p, q
    <3>1. n = q + 1
      BY <1>2, <2>1 DEF q
    <3> QED
      BY <2>2, <2>3, <3>1
  <2>5. g[p + 1] = i + p * step
    <3> HIDE DEF p
    <3> QED
      BY <1>1, <2>4
  <2>6. i + x = j
    OBVIOUS
  <2> HIDE DEF x, p, q
  <2> QED
    BY <2>2, <2>4, <2>5, <2>6
<1>5. ASSUME NEW k \in 1..n, NEW l \in 1..n, g[k] = g[l]
      PROVE  k = l
  <2>1. i + (k - 1) * step = i + (l - 1) * step
    BY <1>1, <1>5
  <2> DEFINE u == k - 1
             v == l - 1
  <2>2. u \in Nat /\ v \in Nat /\ i + u * step = i + v * step
    BY <1>1, <2>1
  <2>3. u * step \in Int /\ v * step \in Int
    BY <2>2
  <2> HIDE DEF u, v
  <2>4. u * step = v * step
    BY <2>2, <2>3
  <2>5. u = v
    BY <2>2, <2>4
  <2> QED
    BY <1>1, <2>5 DEF u, v
<1>6. ToSet(g) = {j \in i..end : (j - i) % step = 0}
  <2>1. ToSet(g) = {g[k] : k \in 1..n}
    BY <1>1 DEF ToSet
  <2> DEFINE T == {j \in i..end : (j - i) % step = 0}
  <2>2. \A k \in 1..n : g[k] \in T
    BY <1>3
  <2>3. \A j \in T : \E k \in 1..n : g[k] = j
    BY <1>4
  <2> HIDE DEF T
  <2>4. {g[k] : k \in 1..n} = T
    BY <2>2, <2>3, Zenon
  <2> QED
    BY <2>1, <2>4 DEF T
<1>7. IsInjective(g)
  BY <1>1, <1>5 DEF IsInjective
<1> QED
  BY <1>6, <1>7 DEF g

\* The loop of expand_array_indices() over one entry.
Ranges(e) == e.start \in Nat /\ e.end \in 0..MaxU32 /\ e.step \in Nat \ {0}

LEMMA EntryIsItsTasks ==
    ASSUME NEW e, Ranges(e)
    PROVE  /\ EntryIndices(e) \in Seq(Nat)
           /\ ToSet(EntryIndices(e)) = TasksOf(e)
           /\ IsInjective(EntryIndices(e))
<1> DEFINE f == CHOOSE f : IsLoop(f, e.end, e.step)
<1>1. e.start \in Nat /\ e.end \in 0..MaxU32 /\ e.step \in Nat \ {0} /\ e.end \in Nat
  BY TextAssumption DEF Ranges
<1>2. IsLoop([i \in Nat |-> EveryFrom(i, e.end, e.step)], e.end, e.step)
  BY <1>1, LoopExists
<1>3. IsLoop(f, e.end, e.step)
  <2>1. \E g : IsLoop(g, e.end, e.step)
    BY <1>2
  <2> QED
    BY <2>1
<1>4. EntryIndices(e) = f[e.start]
  BY DEF EntryIndices, IsLoop
<1> HIDE DEF f
<1>5. EntryIndices(e) = EveryFrom(e.start, e.end, e.step)
  BY <1>1, <1>3, <1>4, LoopIsOne
<1>6. EveryFrom(e.start, e.end, e.step) \in Seq(Nat)
  BY <1>1, StepsType
<1> QED
  BY <1>1, <1>5, <1>6, EveryFromIsTasks DEF TasksOf

-----------------------------------------------------------------------------
(* Every array spec whose numbers are numbers, which what the parser makes of *)
(* any text is.                                                              *)

EntryKind == {"single", "range", "stepped"}

ArrayEntry == [kind : EntryKind, start : Nat, end : 0..MaxU32, step : Nat \ {0}]

LEMMA ArrayIsItsTasks ==
    ASSUME NEW spec, spec.indices \in Seq(ArrayEntry)
    PROVE  LET made == ExpandArrayIndices(spec)
               entries == spec.indices
           IN  /\ made \in Seq(Nat)
               /\ ToSet(made) = UNION {TasksOf(entries[i]) : i \in DOMAIN entries}
               /\ IsInjective(made) <=>
                     \A i, j \in DOMAIN entries :
                         i < j => TasksOf(entries[i]) \cap TasksOf(entries[j]) = {}
<1> DEFINE entries == spec.indices
           seqs == [i \in DOMAIN entries |-> EntryIndices(entries[i])]
           made == ExpandArrayIndices(spec)
           n == Len(entries)
<1>1. n \in Nat /\ DOMAIN entries = 1..n /\ \A i \in 1..n : Ranges(entries[i])
  <2>1. n \in Nat /\ DOMAIN entries = 1..n /\ \A i \in 1..n : entries[i] \in ArrayEntry
    BY LenProperties, ElementOfSeq
  <2>2. \A e \in ArrayEntry : Ranges(e)
    BY DEF Ranges, ArrayEntry
  <2> QED
    BY <2>1, <2>2
<1>2. made = FlattenSeq(seqs)
  BY DEF ExpandArrayIndices
<1>3. seqs = [i \in 1..n |-> EntryIndices(entries[i])]
  BY <1>1
<1> HIDE DEF entries, seqs, made, n
<1>4. \A i \in 1..n :
          /\ seqs[i] \in Seq(Nat)
          /\ ToSet(seqs[i]) = TasksOf(entries[i])
          /\ IsInjective(seqs[i])
  BY <1>1, <1>3, EntryIsItsTasks
<1>5. seqs \in [1..n -> Seq(Nat)]
  BY <1>3, <1>4
<1>6. seqs \in Seq(Seq(Nat)) /\ Len(seqs) = n
  <2> DEFINE S == Seq(Nat)
  <2>1. seqs \in Seq(S)
    <3>1. n \in Nat /\ seqs \in [1..n -> S]
      BY <1>1, <1>5
    <3> HIDE DEF S
    <3> QED
      BY <3>1
  <2>2. DOMAIN seqs = 1..n
    BY <1>3
  <2> HIDE DEF S
  <2>3. Len(seqs) \in Nat /\ DOMAIN seqs = 1..Len(seqs)
    BY <2>1, LenProperties
  <2>4. Len(seqs) = n
    <3>1. \A k : k \in 1..Len(seqs) <=> k \in 1..n
      BY <2>2, <2>3, Zenon
    <3> DEFINE l == Len(seqs)
    <3>2. l \in Nat /\ (l \in 1..l <=> l \in 1..n) /\ (n \in 1..l <=> n \in 1..n)
      BY <2>3, <3>1
    <3> HIDE DEF l
    <3>3. l = n
      BY <1>1, <3>2
    <3> QED
      BY <3>3 DEF l
  <2> QED
    BY <2>1, <2>4 DEF S
<1>7. Gathers(made, Nat, seqs, n)
  BY <1>2, <1>4, <1>6, FlattenGathers
<1>8. ElementsOf(seqs, n) = UNION {TasksOf(entries[i]) : i \in 1..n}
  BY <1>4 DEF ElementsOf
<1>9. SharesNone(seqs, n) <=>
          \A i, j \in 1..n : i < j => TasksOf(entries[i]) \cap TasksOf(entries[j]) = {}
  BY <1>4 DEF SharesNone
<1> QED
  BY <1>1, <1>7, <1>8, <1>9 DEF Gathers, entries, made, n

\* A spec with an entry that ends behind its start has a task.
LEMMA SomeTask ==
    ASSUME NEW entries \in Seq(ArrayEntry), entries # <<>>,
           \A i \in DOMAIN entries : entries[i].start <= entries[i].end,
           NEW made, ToSet(made) = UNION {TasksOf(entries[i]) : i \in DOMAIN entries}
    PROVE  made # <<>>
<1> DEFINE e == entries[1]
<1>1. 1 \in DOMAIN entries /\ e \in ArrayEntry
  <2>1. Len(entries) \in Nat /\ DOMAIN entries = 1..Len(entries) /\ Len(entries) # 0
    BY LenProperties, EmptySeq
  <2>2. 1 \in 1..Len(entries)
    BY <2>1
  <2> QED
    BY <2>1, <2>2, ElementOfSeq
<1>2. e.start <= e.end
  BY <1>1
<1> HIDE DEF e
<1>3. e.start \in Nat /\ e.end \in Nat /\ e.step \in Nat \ {0}
  BY <1>1, TextAssumption DEF ArrayEntry
<1>4. e.start \in TasksOf(e)
  <2>1. e.start \in e.start..e.end
    BY <1>2, <1>3
  <2>2. (e.start - e.start) % e.step = 0
    BY <1>3
  <2> QED
    BY <2>1, <2>2 DEF TasksOf
<1>5. e.start \in ToSet(made)
  BY <1>1, <1>4 DEF e
<1>6. ToSet(<<>>) = {}
  BY DEF ToSet
<1> QED
  BY <1>5, <1>6

LEMMA ParsedEntries ==
    ASSUME NEW t
    PROVE  /\ ParseEntry(t) \subseteq ArrayEntry
           /\ \A e \in ParseEntry(t) : e.start <= e.end
<1> DEFINE byStep == SplitOnce(t, ":")
           bounds == SplitOnce(byStep[1], "-")
           kind == CASE Len(byStep) = 2 -> "stepped"
                     [] Len(byStep) = 1 /\ Len(bounds) = 2 -> "range"
                     [] OTHER -> "single"
           step == IF Len(byStep) = 2 THEN NonZeroU32(byStep[2]) ELSE {1}
           a == U32(bounds[1])
           b == U32(Last(bounds))
<1>1. ParseEntry(t) =
          {e \in [kind : {kind}, start : a, end : b, step : step] :
              e.start <= e.end /\ (kind = "stepped" => Len(bounds) = 2)}
  BY DEF ParseEntry
<1>2. kind \in EntryKind
  <2> HIDE DEF byStep, bounds
  <2>1. kind = "stepped" \/ kind = "range" \/ kind = "single"
    OBVIOUS
  <2> HIDE DEF kind
  <2> QED
    BY <2>1 DEF EntryKind
<1>3. step \subseteq Nat \ {0}
  <2>1. NonZeroU32(byStep[2]) \subseteq (0..MaxU32) \ {0}
    BY UnsignedIsBounded DEF NonZeroU32
  <2> HIDE DEF byStep
  <2>2. (0..MaxU32) \ {0} \subseteq Nat \ {0}
    BY TextAssumption
  <2> QED
    BY <2>1, <2>2
<1>4. a \subseteq 0..MaxU32 /\ b \subseteq 0..MaxU32
  BY UnsignedIsBounded
<1>5. 0..MaxU32 \subseteq Nat
  BY TextAssumption
<1> HIDE DEF kind, step, a, b, bounds, byStep
<1> QED
  BY <1>1, <1>2, <1>3, <1>4, <1>5 DEF ArrayEntry

LEMMA ParsedSpecs ==
    ASSUME NEW T, NEW t \in Seq(T), NEW spec \in ParseArraySpec(t)
    PROVE  /\ spec.indices \in Seq(ArrayEntry)
           /\ spec.indices # <<>>
           /\ \A i \in DOMAIN spec.indices : spec.indices[i].start <= spec.indices[i].end
<1> DEFINE u == SplitOnce(t, "%")[1]
           entries == Split(u, ",")
           options == [i \in DOMAIN entries |-> ParseEntry(entries[i])]
           caps == IF Len(SplitOnce(t, "%")) = 1 THEN {{}}
                   ELSE {{n} : n \in NonZeroU32(SplitOnce(t, "%")[2])}
<1>1. u \in Seq(T)
  BY SplitOnceParts
<1>2. ParseArraySpec(t) = [indices : Collect(options), max_concurrent : caps]
  BY DEF ParseArraySpec
<1> HIDE DEF u, caps
<1>3. PICK n \in Nat \ {0} : DOMAIN entries = 1..n
  BY <1>1, SplitParts
<1>4. spec.indices \in Collect(options)
  <2> HIDE DEF options
  <2> QED
    BY <1>2
<1>5. DOMAIN options = 1..n /\ \A i \in 1..n : options[i] = ParseEntry(entries[i])
  BY <1>3
<1> HIDE DEF options, entries
<1>6. /\ \A i \in 1..n : options[i] # {}
      /\ spec.indices = [i \in 1..n |-> CHOOSE v \in options[i] : TRUE]
  BY <1>4, <1>5 DEF Collect
<1>7. \A i \in 1..n : spec.indices[i] \in ParseEntry(entries[i])
  BY <1>5, <1>6
<1>8. \A i \in 1..n : spec.indices[i] \in ArrayEntry /\ spec.indices[i].start <= spec.indices[i].end
  BY <1>7, ParsedEntries
<1>9. DOMAIN spec.indices = 1..n
  BY <1>6
<1>10. spec.indices \in [1..n -> ArrayEntry]
  BY <1>6, <1>8, <1>9
<1>11. spec.indices \in Seq(ArrayEntry)
  BY <1>10
<1>12. spec.indices # <<>>
  <2>1. DOMAIN <<>> = {} /\ 1 \in 1..n
    OBVIOUS
  <2> QED
    BY <1>9, <2>1
<1> QED
  BY <1>8, <1>9, <1>11, <1>12

\* spawn_array() makes handles, one at least, for the tasks of every array spec that the
\* parser accepts, of any length and with ranges of any size: each task has one, no other
\* index has, and two are for one task only if two entries overlap.
THEOREM HandlesAreTasks ==
    ASSUME NEW T, NEW t \in Seq(T), NEW spec \in ParseArraySpec(t)
    PROVE  LET made == ExpandArrayIndices(spec)
               entries == spec.indices
           IN  /\ ToSet(made) = UNION {TasksOf(entries[i]) : i \in DOMAIN entries}
               /\ IsInjective(made) <=>
                     \A i, j \in DOMAIN entries :
                         i < j => TasksOf(entries[i]) \cap TasksOf(entries[j]) = {}
               /\ made # <<>>
<1> DEFINE made == ExpandArrayIndices(spec)
           entries == spec.indices
<1>1. /\ entries \in Seq(ArrayEntry) /\ entries # <<>>
      /\ \A i \in DOMAIN entries : entries[i].start <= entries[i].end
  BY ParsedSpecs
<1>2. ToSet(made) = UNION {TasksOf(entries[i]) : i \in DOMAIN entries}
  BY <1>1, ArrayIsItsTasks
<1>3. IsInjective(made) <=>
          \A i, j \in DOMAIN entries :
              i < j => TasksOf(entries[i]) \cap TasksOf(entries[j]) = {}
  BY <1>1, ArrayIsItsTasks
<1> HIDE DEF made, entries
<1>4. made # <<>>
  BY <1>1, <1>2, SomeTask
<1> QED
  BY <1>2, <1>3, <1>4 DEF made, entries

-----------------------------------------------------------------------------
(* The entries of an array spec, as Python may build them of any numbers. *)

PyForms ==
    {Single(i) : i \in 0..MaxU32} \cup {Interval(a, b) : a \in 0..MaxU32, b \in 0..MaxU32}
        \cup {Stepped(a, b, s) : a \in 0..MaxU32, b \in 0..MaxU32, s \in 0..MaxU32}

\* What an entry is written with.
EntryLexemes == {Sign("-"), Sign(":"), Sign(",")} \cup {Number(n) : n \in Nat}

LEMMA EntrySigns ==
    /\ Sign("-") \in EntryLexemes /\ Sign(":") \in EntryLexemes /\ Sign(",") \in EntryLexemes
    /\ \A n \in Nat : Number(n) \in EntryLexemes
    /\ Sign("-") # Sign(":") /\ Sign("-") # Sign(",") /\ Sign(":") # Sign(",")
    /\ \A n : Number(n) # Sign("-") /\ Number(n) # Sign(":") /\ Number(n) # Sign(",")
<1>1. /\ Sign("-") \in EntryLexemes /\ Sign(":") \in EntryLexemes /\ Sign(",") \in EntryLexemes
      /\ \A n \in Nat : Number(n) \in EntryLexemes
  BY DEF EntryLexemes
<1>2. Sign("-") # Sign(":") /\ Sign("-") # Sign(",") /\ Sign(":") # Sign(",")
  BY DEF Sign
<1>3. \A n : Number(n) # Sign("-") /\ Number(n) # Sign(":") /\ Number(n) # Sign(",")
  BY DEF Sign, Number
<1> QED
  BY <1>1, <1>2, <1>3

LEMMA DecIsText ==
    ASSUME NEW n \in Nat
    PROVE  Dec(n) \in Seq(EntryLexemes) /\ ToSet(Dec(n)) = {Number(n)}
BY EntrySigns, OneLexeme, Zenon DEF Dec

\* What is read of an entry, from its form and the numbers in it.
EntriesOf(kind, as, bs, steps) ==
    {e \in [kind : {kind}, start : as, end : bs, step : steps] : e.start <= e.end}

LEMMA EntryForms ==
    ASSUME NEW t, NEW u, NEW a, NEW b, NEW s
    PROVE  /\ SplitOnce(t, ":") = <<u>> /\ SplitOnce(u, "-") = <<a>> =>
                 ParseEntry(t) = EntriesOf("single", U32(a), U32(a), {1})
           /\ SplitOnce(t, ":") = <<u>> /\ SplitOnce(u, "-") = <<a, b>> =>
                 ParseEntry(t) = EntriesOf("range", U32(a), U32(b), {1})
           /\ SplitOnce(t, ":") = <<u, s>> /\ SplitOnce(u, "-") = <<a, b>> =>
                 ParseEntry(t) = EntriesOf("stepped", U32(a), U32(b), NonZeroU32(s))
           /\ SplitOnce(t, ":") = <<u, s>> /\ SplitOnce(u, "-") = <<a>> => ParseEntry(t) = {}
<1> DEFINE byStep == SplitOnce(t, ":")
           bounds == SplitOnce(byStep[1], "-")
           kind == CASE Len(byStep) = 2 -> "stepped"
                     [] Len(byStep) = 1 /\ Len(bounds) = 2 -> "range"
                     [] OTHER -> "single"
           step == IF Len(byStep) = 2 THEN NonZeroU32(byStep[2]) ELSE {1}
           as == U32(bounds[1])
           bs == U32(Last(bounds))
<1>1. ParseEntry(t) =
          {e \in [kind : {kind}, start : as, end : bs, step : step] :
              e.start <= e.end /\ (kind = "stepped" => Len(bounds) = 2)}
  BY DEF ParseEntry
<1>2. Len(<<u>>) = 1 /\ Len(<<a>>) = 1 /\ Len(<<a, b>>) = 2 /\ Len(<<u, s>>) = 2
  OBVIOUS
<1>3. Last(<<a>>) = a /\ Last(<<a, b>>) = b
  BY DEF Last
<1>4. ASSUME byStep = <<u>>, SplitOnce(u, "-") = <<a>>
      PROVE  ParseEntry(t) = EntriesOf("single", U32(a), U32(a), {1})
  <2>1. bounds = <<a>>
    BY <1>4
  <2>2. kind = "single" /\ step = {1} /\ as = U32(a) /\ bs = U32(a)
    BY <1>2, <1>3, <1>4, <2>1
  <2> HIDE DEF kind, step, as, bs
  <2> QED
    BY <1>1, <2>2 DEF EntriesOf
<1>5. ASSUME byStep = <<u>>, SplitOnce(u, "-") = <<a, b>>
      PROVE  ParseEntry(t) = EntriesOf("range", U32(a), U32(b), {1})
  <2>1. bounds = <<a, b>>
    BY <1>5
  <2>2. kind = "range" /\ step = {1} /\ as = U32(a) /\ bs = U32(b)
    BY <1>2, <1>3, <1>5, <2>1
  <2> HIDE DEF kind, step, as, bs
  <2> QED
    BY <1>1, <2>2 DEF EntriesOf
<1>6. ASSUME byStep = <<u, s>>, SplitOnce(u, "-") = <<a, b>>
      PROVE  ParseEntry(t) = EntriesOf("stepped", U32(a), U32(b), NonZeroU32(s))
  <2>1. bounds = <<a, b>>
    BY <1>6
  <2>2. kind = "stepped" /\ step = NonZeroU32(s) /\ as = U32(a) /\ bs = U32(b) /\ Len(bounds) = 2
    BY <1>2, <1>3, <1>6, <2>1
  <2> HIDE DEF kind, step, as, bs, bounds
  <2> QED
    BY <1>1, <2>2 DEF EntriesOf
<1>7. ASSUME byStep = <<u, s>>, SplitOnce(u, "-") = <<a>>
      PROVE  ParseEntry(t) = {}
  <2>1. bounds = <<a>>
    BY <1>7
  <2>2. kind = "stepped" /\ Len(bounds) # 2
    BY <1>2, <1>7, <2>1
  <2> HIDE DEF kind, step, as, bs, bounds
  <2> QED
    BY <1>1, <2>2
<1> QED
  BY <1>4, <1>5, <1>6, <1>7

LEMMA IntervalForm ==
    ASSUME NEW t, NEW a, NEW b, SplitOnce(t, ":") = <<t>>, SplitOnce(t, "-") = <<a, b>>
    PROVE  ParseEntry(t) = EntriesOf("range", U32(a), U32(b), {1})
BY EntryForms

LEMMA SteppedForm ==
    ASSUME NEW t, NEW u, NEW a, NEW b, NEW s,
           SplitOnce(t, ":") = <<u, s>>, SplitOnce(u, "-") = <<a, b>>
    PROVE  ParseEntry(t) = EntriesOf("stepped", U32(a), U32(b), NonZeroU32(s))
BY EntryForms

Accepted(e) == e.start <= e.end /\ e.step > 0

\* An entry of an array spec that is printed, and read again (Display and FromStr of
\* ArrayIndex).
LEMMA EntryIsRead ==
    ASSUME NEW e \in PyForms
    PROVE  /\ EntryText(e) \in Seq(EntryLexemes) /\ Sign(",") \notin ToSet(EntryText(e))
           /\ ParseEntry(EntryText(e)) = IF Accepted(e) THEN {e} ELSE {}
<1>1. \A n \in 0..MaxU32 :
          /\ n \in Nat
          /\ Dec(n) \in Seq(EntryLexemes) /\ ToSet(Dec(n)) = {Number(n)}
          /\ U32(Dec(n)) = {n} /\ NonZeroU32(Dec(n)) = {n} \ {0}
  <2> TAKE n \in 0..MaxU32
  <2>1. n \in Nat
    BY TextAssumption
  <2>2. U32(Dec(n)) = {n}
    BY DecIsRead DEF U32
  <2> QED
    BY <2>1, <2>2, DecIsText DEF NonZeroU32
<1>2. \A t \in Seq(EntryLexemes) : t \o <<>> = t
  OBVIOUS
<1>3. CASE \E i \in 0..MaxU32 : e = Single(i)
  <2>1. PICK i \in 0..MaxU32 : e = Single(i)
    BY <1>3
  <2>2. e.kind = "single" /\ e.start = i /\ e.end = i /\ e.step = 1
    BY <2>1 DEF Single
  <2> DEFINE t == Dec(i)
  <2>3. t \in Seq(EntryLexemes) /\ ToSet(t) = {Number(i)} /\ U32(t) = {i} /\ i \in Nat
    BY <1>1
  <2>4. EntryText(e) = t
    <3>1. EntryText(e) = (t \o <<>>) \o <<>>
      BY <2>2 DEF EntryText
    <3> HIDE DEF t
    <3> QED
      BY <1>2, <2>3, <3>1
  <2> HIDE DEF t
  <2>5. SplitOnce(t, ":") = <<t>> /\ SplitOnce(t, "-") = <<t>>
    BY <2>3, EntrySigns, SplitOnceNone
  <2>6. ParseEntry(t) = EntriesOf("single", {i}, {i}, {1})
    BY <2>3, <2>5, EntryForms
  <2>7. EntriesOf("single", {i}, {i}, {1}) = {e}
    BY <2>1, <2>3 DEF EntriesOf, Single
  <2>8. Accepted(e)
    BY <2>2, <2>3 DEF Accepted
  <2>9. Sign(",") \notin ToSet(t)
    BY <2>3, EntrySigns, Zenon
  <2> QED
    BY <2>3, <2>4, <2>6, <2>7, <2>8, <2>9
<1>4. CASE \E a \in 0..MaxU32, b \in 0..MaxU32 : e = Interval(a, b)
  <2>1. PICK a \in 0..MaxU32, b \in 0..MaxU32 : e = Interval(a, b)
    BY <1>4
  <2>2. e.kind = "range" /\ e.start = a /\ e.end = b /\ e.step = 1
    BY <2>1 DEF Interval
  <2> DEFINE x == Dec(a)
             y == Dec(b)
             t == x \o (Lit("-") \o y)
  <2>3. /\ x \in Seq(EntryLexemes) /\ ToSet(x) = {Number(a)} /\ U32(x) = {a} /\ a \in Nat
        /\ y \in Seq(EntryLexemes) /\ ToSet(y) = {Number(b)} /\ U32(y) = {b} /\ b \in Nat
    BY <1>1
  <2> HIDE DEF x, y
  <2>4. t \in Seq(EntryLexemes) /\ ToSet(t) = {Number(a)} \cup {Sign("-")} \cup {Number(b)}
    <3>1. Sign("-") \in EntryLexemes
      BY EntrySigns
    <3>2. t \in Seq(EntryLexemes) /\ ToSet(t) = ToSet(x) \cup {Sign("-")} \cup ToSet(y)
      BY <2>3, <3>1, LexemesBetween
    <3> QED
      BY <2>3, <3>2
  <2>5. EntryText(e) = t
    <3>1. EntryText(e) = t \o <<>>
      BY <2>2 DEF EntryText, x, y
    <3> HIDE DEF t
    <3> QED
      BY <1>2, <2>4, <3>1
  <2>6. SplitOnce(t, "-") = <<x, y>>
    <3>1. Sign("-") \in EntryLexemes /\ Sign("-") \notin ToSet(x)
      BY <2>3, EntrySigns
    <3> QED
      BY <2>3, <3>1, SplitOnceAt
  <2> HIDE DEF t
  <2>7. SplitOnce(t, ":") = <<t>>
    BY <2>4, EntrySigns, SplitOnceNone
  <2>8. ParseEntry(t) = EntriesOf("range", {a}, {b}, {1})
    <3>1. ParseEntry(t) = EntriesOf("range", U32(x), U32(y), {1})
      BY <2>6, <2>7, IntervalForm
    <3> QED
      BY <2>3, <3>1
  <2>9. EntriesOf("range", {a}, {b}, {1}) = IF a <= b THEN {e} ELSE {}
    BY <2>1, <2>3 DEF EntriesOf, Interval
  <2>10. Accepted(e) <=> a <= b
    BY <2>2 DEF Accepted
  <2>11. Sign(",") \notin ToSet(t)
    BY <2>4, EntrySigns
  <2> QED
    BY <2>4, <2>5, <2>8, <2>9, <2>10, <2>11
<1>5. CASE \E a \in 0..MaxU32, b \in 0..MaxU32, s \in 0..MaxU32 : e = Stepped(a, b, s)
  <2>1. PICK a \in 0..MaxU32, b \in 0..MaxU32, s \in 0..MaxU32 : e = Stepped(a, b, s)
    BY <1>5
  <2>2. e.kind = "stepped" /\ e.start = a /\ e.end = b /\ e.step = s
    BY <2>1 DEF Stepped
  <2> DEFINE x == Dec(a)
             y == Dec(b)
             z == Dec(s)
             u == x \o (Lit("-") \o y)
             t == u \o (Lit(":") \o z)
  <2>3. /\ x \in Seq(EntryLexemes) /\ ToSet(x) = {Number(a)} /\ U32(x) = {a} /\ a \in Nat
        /\ y \in Seq(EntryLexemes) /\ ToSet(y) = {Number(b)} /\ U32(y) = {b} /\ b \in Nat
    BY <1>1
  <2>4. /\ z \in Seq(EntryLexemes) /\ ToSet(z) = {Number(s)} /\ NonZeroU32(z) = {s} \ {0}
        /\ s \in Nat
    BY <1>1
  <2> HIDE DEF x, y, z
  <2>5. u \in Seq(EntryLexemes) /\ ToSet(u) = {Number(a)} \cup {Sign("-")} \cup {Number(b)}
    <3>1. Sign("-") \in EntryLexemes
      BY EntrySigns
    <3>2. u \in Seq(EntryLexemes) /\ ToSet(u) = ToSet(x) \cup {Sign("-")} \cup ToSet(y)
      BY <2>3, <3>1, LexemesBetween
    <3> QED
      BY <2>3, <3>2
  <2>6. SplitOnce(u, "-") = <<x, y>>
    <3>1. Sign("-") \in EntryLexemes /\ Sign("-") \notin ToSet(x)
      BY <2>3, EntrySigns
    <3> QED
      BY <2>3, <3>1, SplitOnceAt
  <2>7. EntryText(e) = t
    BY <2>2 DEF EntryText, x, y, z
  <2> HIDE DEF u
  <2>8. t \in Seq(EntryLexemes) /\ ToSet(t) = ToSet(u) \cup {Sign(":")} \cup {Number(s)}
    <3>1. Sign(":") \in EntryLexemes
      BY EntrySigns
    <3>2. t \in Seq(EntryLexemes) /\ ToSet(t) = ToSet(u) \cup {Sign(":")} \cup ToSet(z)
      BY <2>4, <2>5, <3>1, LexemesBetween
    <3> QED
      BY <2>4, <3>2
  <2>9. SplitOnce(t, ":") = <<u, z>>
    <3>1. Sign(":") \in EntryLexemes /\ Sign(":") \notin ToSet(u)
      BY <2>5, EntrySigns
    <3> QED
      BY <2>4, <2>5, <3>1, SplitOnceAt
  <2> HIDE DEF t
  <2>10. ParseEntry(t) = EntriesOf("stepped", {a}, {b}, {s} \ {0})
    <3>1. ParseEntry(t) = EntriesOf("stepped", U32(x), U32(y), NonZeroU32(z))
      BY <2>6, <2>9, SteppedForm
    <3> QED
      BY <2>3, <2>4, <3>1
  <2>11. EntriesOf("stepped", {a}, {b}, {s} \ {0}) = IF a <= b /\ s > 0 THEN {e} ELSE {}
    <3>1. CASE s = 0
      <4>1. {s} \ {0} = {}
        BY <3>1
      <4> QED
        BY <3>1, <4>1 DEF EntriesOf
    <3>2. CASE s # 0
      <4>1. {s} \ {0} = {s} /\ s > 0
        BY <2>4, <3>2
      <4> QED
        BY <2>1, <2>3, <4>1 DEF EntriesOf, Stepped
    <3> QED
      BY <3>1, <3>2
  <2>12. Accepted(e) <=> a <= b /\ s > 0
    BY <2>2 DEF Accepted
  <2>13. Sign(",") \notin ToSet(t)
    BY <2>5, <2>8, EntrySigns
  <2> QED
    BY <2>7, <2>8, <2>10, <2>11, <2>12, <2>13
<1>6. \/ \E i \in 0..MaxU32 : e = Single(i)
      \/ \E a \in 0..MaxU32, b \in 0..MaxU32 : e = Interval(a, b)
      \/ \E a \in 0..MaxU32, b \in 0..MaxU32, s \in 0..MaxU32 : e = Stepped(a, b, s)
  BY DEF PyForms
<1> QED
  BY <1>3, <1>4, <1>5, <1>6

LEMMA EntryIsForm ==
    ASSUME NEW t, NEW e \in ParseEntry(t)
    PROVE  e \in PyForms /\ Accepted(e)
<1>1. \A v : U32(v) \subseteq 0..MaxU32 /\ \A x \in U32(v), y \in U32(v) : x = y
  BY UnsignedIsBounded, ReadIsOne DEF U32
<1>2. 0..MaxU32 \subseteq Nat
  BY TextAssumption
<1>3. PICK u, s : SplitOnce(t, ":") = <<u>> \/ SplitOnce(t, ":") = <<u, s>>
  BY SplitOnceForms
<1>4. PICK a, b : SplitOnce(u, "-") = <<a>> \/ SplitOnce(u, "-") = <<a, b>>
  BY SplitOnceForms
<1>5. CASE SplitOnce(t, ":") = <<u>> /\ SplitOnce(u, "-") = <<a>>
  <2>1. ParseEntry(t) = EntriesOf("single", U32(a), U32(a), {1})
    BY <1>5, EntryForms, Zenon
  <2>2. /\ e \in [kind : {"single"}, start : U32(a), end : U32(a), step : {1}]
        /\ e.start <= e.end
    BY <2>1 DEF EntriesOf
  <2>3. e.start \in U32(a) /\ e.start = e.end /\ e.step = 1
    BY <1>1, <2>2
  <2>4. e = Single(e.start)
    BY <2>2, <2>3 DEF Single
  <2> QED
    BY <1>1, <2>2, <2>3, <2>4 DEF PyForms, Accepted
<1>6. CASE SplitOnce(t, ":") = <<u>> /\ SplitOnce(u, "-") = <<a, b>>
  <2>1. ParseEntry(t) = EntriesOf("range", U32(a), U32(b), {1})
    <3>1. u = t
      BY <1>6, OnePart
    <3> QED
      BY <1>6, <3>1, IntervalForm
  <2>2. /\ e \in [kind : {"range"}, start : U32(a), end : U32(b), step : {1}]
        /\ e.start <= e.end
    BY <2>1 DEF EntriesOf
  <2>3. e.start \in 0..MaxU32 /\ e.end \in 0..MaxU32 /\ e.step = 1
    BY <1>1, <2>2
  <2>4. e = Interval(e.start, e.end)
    BY <2>2, <2>3 DEF Interval
  <2> QED
    BY <2>2, <2>3, <2>4 DEF PyForms, Accepted
<1>7. CASE SplitOnce(t, ":") = <<u, s>> /\ SplitOnce(u, "-") = <<a, b>>
  <2>1. ParseEntry(t) = EntriesOf("stepped", U32(a), U32(b), NonZeroU32(s))
    BY <1>7, SteppedForm
  <2>2. /\ e \in [kind : {"stepped"}, start : U32(a), end : U32(b), step : NonZeroU32(s)]
        /\ e.start <= e.end
    BY <2>1 DEF EntriesOf
  <2>3. e.start \in 0..MaxU32 /\ e.end \in 0..MaxU32 /\ e.step \in 0..MaxU32 /\ e.step # 0
    BY <1>1, <2>2 DEF NonZeroU32
  <2>4. e = Stepped(e.start, e.end, e.step)
    BY <2>2, <2>3 DEF Stepped
  <2>5. e.step > 0
    BY <1>2, <2>3
  <2> QED
    BY <2>2, <2>3, <2>4, <2>5 DEF PyForms, Accepted
<1>8. CASE SplitOnce(t, ":") = <<u, s>> /\ SplitOnce(u, "-") = <<a>>
  BY <1>8, EntryForms, Zenon
<1> QED
  BY <1>3, <1>4, <1>5, <1>6, <1>7, <1>8

-----------------------------------------------------------------------------
(* Whole array specs. *)

PySpecs ==
    [indices : Seq(PyForms), max_concurrent : {{}} \cup {{n} : n \in 0..MaxU32}]

\* The constraints that the docs of SlurmArraySpec name.
SpecAccepted(spec) ==
    /\ spec.indices # <<>> /\ spec.max_concurrent # {0}
    /\ \A i \in DOMAIN spec.indices : Accepted(spec.indices[i])

\* What is read of a spec, from the entries and the limit in it.
SpecsOf(entries, caps) ==
    [indices : Collect([i \in DOMAIN entries |-> ParseEntry(entries[i])]), max_concurrent : caps]

LEMMA SpecForms ==
    ASSUME NEW t, NEW u, NEW n
    PROVE  /\ SplitOnce(t, "%") = <<u>> => ParseArraySpec(t) = SpecsOf(Split(u, ","), {{}})
           /\ SplitOnce(t, "%") = <<u, n>> =>
                 ParseArraySpec(t) = SpecsOf(Split(u, ","), {{x} : x \in NonZeroU32(n)})
<1> DEFINE byCap == SplitOnce(t, "%")
           caps == IF Len(byCap) = 1 THEN {{}} ELSE {{x} : x \in NonZeroU32(byCap[2])}
<1>1. ParseArraySpec(t) = SpecsOf(Split(byCap[1], ","), caps)
  BY DEF ParseArraySpec, SpecsOf
<1>2. Len(<<u>>) = 1 /\ Len(<<u, n>>) # 1
  OBVIOUS
<1>3. ASSUME byCap = <<u>>
      PROVE  ParseArraySpec(t) = SpecsOf(Split(u, ","), {{}})
  <2>1. byCap[1] = u /\ caps = {{}}
    BY <1>2, <1>3
  <2> HIDE DEF byCap, caps
  <2> QED
    BY <1>1, <2>1
<1>4. ASSUME byCap = <<u, n>>
      PROVE  ParseArraySpec(t) = SpecsOf(Split(u, ","), {{x} : x \in NonZeroU32(n)})
  <2>1. byCap[1] = u /\ caps = {{x} : x \in NonZeroU32(n)}
    BY <1>2, <1>4
  <2> HIDE DEF byCap, caps
  <2> QED
    BY <1>1, <2>1
<1> QED
  BY <1>3, <1>4

\* The entries of a spec, written one after the other, are read as these entries.
LEMMA EntriesAreRead ==
    ASSUME NEW entries \in Seq(PyForms)
    PROVE  LET texts == [i \in DOMAIN entries |-> EntryText(entries[i])]
               t == Join(texts, ",")
               parts == Split(t, ",")
           IN  /\ t \in Seq(EntryLexemes)
               /\ Collect([i \in DOMAIN parts |-> ParseEntry(parts[i])]) =
                     IF entries # <<>> /\ \A i \in DOMAIN entries : Accepted(entries[i])
                     THEN {entries} ELSE {}
<1> DEFINE n == Len(entries)
           S == Seq(EntryLexemes)
           texts == [i \in DOMAIN entries |-> EntryText(entries[i])]
           t == Join(texts, ",")
           parts == Split(t, ",")
           options == [i \in DOMAIN parts |-> ParseEntry(parts[i])]
<1>1. n \in Nat /\ DOMAIN entries = 1..n /\ \A i \in 1..n : entries[i] \in PyForms
  BY LenProperties, ElementOfSeq
<1>2. CASE n = 0
  <2>1. entries = <<>>
    BY <1>2, EmptySeq
  <2>2. t = <<>>
    <3>1. DOMAIN entries = {}
      BY <1>1, <1>2
    <3>2. DOMAIN texts = {}
      BY <3>1
    <3>3. [i \in DOMAIN texts |-> IF i = 1 THEN texts[i] ELSE Lit(",") \o texts[i]] = <<>>
      BY <3>2
    <3>4. FlattenSeq(<<>>) = <<>>
      BY DEF FlattenSeq
    <3> QED
      BY <3>3, <3>4 DEF Join
  <2> HIDE DEF t
  <2>3. t \in S
    BY <2>2
  <2>4. parts = <<<<>>>>
    <3>1. \A c : Sign(c) \notin ToSet(<<>>)
      BY DEF ToSet
    <3> QED
      BY <2>2, <2>3, <3>1, SplitOne
  <2>5. ParseEntry(<<>>) = {}
    <3>1. SplitOnce(<<>>, ":") = <<<<>>>> /\ SplitOnce(<<>>, "-") = <<<<>>>>
      <4>1. \A c : Sign(c) \notin ToSet(<<>>)
        BY DEF ToSet
      <4> QED
        BY <4>1, SplitOnceNone
    <3>2. ParseEntry(<<>>) = EntriesOf("single", U32(<<>>), U32(<<>>), {1})
      BY <3>1, EntryForms
    <3>3. U32(<<>>) = {}
      BY DEF U32, ParseUnsigned
    <3> QED
      BY <3>2, <3>3 DEF EntriesOf
  <2>6. 1 \in DOMAIN options /\ options[1] = {}
    <3>1. DOMAIN <<<<>>>> = {1} /\ <<<<>>>>[1] = <<>>
      OBVIOUS
    <3> HIDE DEF parts
    <3>2. DOMAIN parts = {1} /\ parts[1] = <<>>
      BY <2>4, <3>1
    <3> QED
      BY <2>5, <3>2
  <2> HIDE DEF options
  <2>7. Collect(options) = {}
    BY <2>6 DEF Collect
  <2> QED
    BY <2>1, <2>3, <2>7 DEF options, t
<1>3. CASE n # 0
  <2>1. entries # <<>>
    BY <1>1, <1>3, EmptySeq
  <2>2. DOMAIN texts = 1..n /\ \A i \in 1..n : texts[i] = EntryText(entries[i])
    BY <1>1
  <2>3. texts = [i \in 1..n |-> texts[i]]
    BY <1>1
  <2> HIDE DEF texts, n, S
  <2>4. \A i \in 1..n : /\ texts[i] \in S /\ Sign(",") \notin ToSet(texts[i])
                        /\ ParseEntry(texts[i]) = IF Accepted(entries[i]) THEN {entries[i]} ELSE {}
    BY <1>1, <2>2, EntryIsRead DEF S
  <2>5. texts \in Seq(S) /\ Len(texts) = n /\ texts # <<>>
    <3>1. texts \in [1..n -> S]
      BY <2>3, <2>4
    <3>2. texts \in Seq(S)
      BY <1>1, <3>1
    <3>3. Len(texts) = n
      BY <1>1, <2>2, <3>2, LenProperties
    <3> QED
      BY <1>1, <1>3, <3>2, <3>3, EmptySeq
  <2>6. t \in S /\ parts = texts
    <3>1. Sign(",") \in EntryLexemes
      BY EntrySigns
    <3>2. texts \in Seq(Seq(EntryLexemes)) /\ \A i \in 1..Len(texts) : Sign(",") \notin ToSet(texts[i])
      BY <2>4, <2>5 DEF S
    <3> QED
      BY <2>5, <3>1, <3>2, SplitJoin DEF S
  <2> HIDE DEF t, parts
  <2>7. DOMAIN options = 1..n /\ \A i \in 1..n : options[i] = ParseEntry(texts[i])
    BY <2>2, <2>6
  <2> HIDE DEF options
  <2>8. CASE \A i \in 1..n : Accepted(entries[i])
    <3>1. \A i \in 1..n : options[i] = {entries[i]}
      BY <2>4, <2>7, <2>8
    <3>2. Collect(options) = {[i \in 1..n |-> CHOOSE v \in options[i] : TRUE]}
      BY <2>7, <3>1 DEF Collect
    <3>3. [i \in 1..n |-> CHOOSE v \in options[i] : TRUE] = [i \in 1..n |-> entries[i]]
      BY <3>1
    <3>4. entries = [i \in 1..n |-> entries[i]]
      BY <1>1
    <3>5. Collect(options) = {entries}
      BY <3>2, <3>3, <3>4
    <3> QED
      BY <1>1, <2>1, <2>6, <2>8, <3>5 DEF options, parts, t, texts, S
  <2>9. CASE \E i \in 1..n : ~Accepted(entries[i])
    <3>1. \E i \in 1..n : options[i] = {}
      BY <2>4, <2>7, <2>9
    <3>2. Collect(options) = {}
      BY <2>7, <3>1 DEF Collect
    <3> QED
      BY <1>1, <2>6, <2>9, <3>2 DEF options, parts, t, texts, S
  <2> QED
    BY <2>8, <2>9
<1> QED
  BY <1>2, <1>3

\* A set of records with at most one value for each field has at most one record.
LEMMA OneSpec ==
    ASSUME NEW entries, NEW cap
    PROVE  /\ [indices : {entries}, max_concurrent : {cap}] =
                  {[indices |-> entries, max_concurrent |-> cap]}
           /\ \A caps : [indices : {}, max_concurrent : caps] = {}
           /\ \A some : [indices : some, max_concurrent : {}] = {}
<1>1. \A r \in [indices : {entries}, max_concurrent : {cap}] :
          r = [indices |-> entries, max_concurrent |-> cap]
  OBVIOUS
<1>2. [indices |-> entries, max_concurrent |-> cap] \in [indices : {entries}, max_concurrent : {cap}]
  OBVIOUS
<1>3. \A caps : [indices : {}, max_concurrent : caps] = {}
  OBVIOUS
<1>4. \A some : [indices : some, max_concurrent : {}] = {}
  OBVIOUS
<1>5. [indices : {entries}, max_concurrent : {cap}] = {[indices |-> entries, max_concurrent |-> cap]}
  <2> DEFINE R == [indices : {entries}, max_concurrent : {cap}]
             r == [indices |-> entries, max_concurrent |-> cap]
  <2>1. r \in R /\ \A x \in R : x = r
    BY <1>1, <1>2
  <2> HIDE DEF R, r
  <2>2. R = {r}
    BY <2>1
  <2> QED
    BY <2>2 DEF R, r
<1> QED
  BY <1>3, <1>4, <1>5

\* A whole spec, with or without a limit (Display and FromStr of SlurmArraySpec).
LEMMA SpecIsRead ==
    ASSUME NEW spec \in PySpecs
    PROVE  ParseArraySpec(ArrayText(spec)) = IF SpecAccepted(spec) THEN {spec} ELSE {}
<1> DEFINE entries == spec.indices
           cap == spec.max_concurrent
           ok == entries # <<>> /\ \A i \in DOMAIN entries : Accepted(entries[i])
           body == Join([i \in DOMAIN entries |-> EntryText(entries[i])], ",")
           T == EntryLexemes \cup {Sign("%")}
<1>1. /\ entries \in Seq(PyForms) /\ spec = [indices |-> entries, max_concurrent |-> cap]
      /\ cap = {} \/ \E m \in 0..MaxU32 : cap = {m}
  BY DEF PySpecs
<1>2. /\ body \in Seq(EntryLexemes)
      /\ \A caps : SpecsOf(Split(body, ","), caps) =
                       [indices : IF ok THEN {entries} ELSE {}, max_concurrent : caps]
  BY <1>1, EntriesAreRead, Zenon DEF SpecsOf
<1>3. SpecAccepted(spec) <=> ok /\ cap # {0}
  BY DEF SpecAccepted
<1>4. Sign("%") \notin ToSet(body)
  <2>1. Sign("%") \notin EntryLexemes
    <3>1. Sign("%") # Sign("-") /\ Sign("%") # Sign(":") /\ Sign("%") # Sign(",")
      BY DEF Sign
    <3>2. \A n : Sign("%") # Number(n)
      BY DEF Sign, Number
    <3> QED
      BY <3>1, <3>2 DEF EntryLexemes
  <2> HIDE DEF body
  <2>2. ToSet(body) \subseteq EntryLexemes
    BY <1>2, LexemesIn
  <2> QED
    BY <2>1, <2>2
<1>5. ArrayText(spec) =
          body \o (IF cap = {} THEN <<>> ELSE Lit("%") \o Dec(CHOOSE n \in cap : TRUE))
  BY DEF ArrayText
<1> HIDE DEF entries, cap, ok, body
<1>6. CASE cap = {}
  <2>1. ArrayText(spec) = body
    <3>1. ArrayText(spec) = body \o <<>>
      BY <1>5, <1>6, Zenon
    <3> QED
      BY <1>2, <3>1, LexemesIn
  <2>2. ParseArraySpec(body) = SpecsOf(Split(body, ","), {{}})
    BY <1>4, SplitOnceNone, SpecForms
  <2>3. ParseArraySpec(body) = [indices : IF ok THEN {entries} ELSE {}, max_concurrent : {cap}]
    BY <1>2, <1>6, <2>2
  <2>4. cap # {0}
    BY <1>6
  <2> QED
    BY <1>1, <1>3, <2>1, <2>3, <2>4, OneSpec
<1>7. CASE \E m \in 0..MaxU32 : cap = {m}
  <2>1. PICK m \in 0..MaxU32 : cap = {m}
    BY <1>7
  <2>2. m \in Nat /\ U32(Dec(m)) = {m}
    BY TextAssumption, DecIsRead DEF U32
  <2> DEFINE d == Dec(m)
  <2>3. ArrayText(spec) = body \o (Lit("%") \o d)
    BY <1>5, <2>1
  <2>4. d \in Seq(EntryLexemes)
    BY <2>2, DecIsText
  <2>5. NonZeroU32(d) = {m} \ {0}
    BY <2>2 DEF NonZeroU32
  <2> HIDE DEF d
  <2>6. SplitOnce(body \o (Lit("%") \o d), "%") = <<body, d>>
    <3>1. EntryLexemes \subseteq T /\ Sign("%") \in T
      OBVIOUS
    <3> HIDE DEF T
    <3>2. body \in Seq(T) /\ d \in Seq(T)
      BY <1>2, <2>4, <3>1, LexemesIn
    <3> QED
      BY <1>4, <3>1, <3>2, SplitOnceAt
  <2>7. ParseArraySpec(ArrayText(spec)) = SpecsOf(Split(body, ","), {{x} : x \in NonZeroU32(d)})
    BY <2>3, <2>6, SpecForms
  <2>8. ParseArraySpec(ArrayText(spec)) =
            [indices : IF ok THEN {entries} ELSE {}, max_concurrent : {{x} : x \in {m} \ {0}}]
    BY <1>2, <2>5, <2>7
  <2>9. CASE m = 0
    <3>1. {{x} : x \in {m} \ {0}} = {}
      BY <2>9
    <3> QED
      BY <1>3, <2>1, <2>8, <2>9, <3>1, OneSpec
  <2>10. CASE m # 0
    <3>1. {{x} : x \in {m} \ {0}} = {cap} /\ cap # {0}
      BY <2>1, <2>10
    <3>2. ParseArraySpec(ArrayText(spec)) =
              [indices : IF ok THEN {entries} ELSE {}, max_concurrent : {cap}]
      BY <2>8, <3>1
    <3> QED
      BY <1>1, <1>3, <3>1, <3>2, OneSpec
  <2> QED
    BY <2>9, <2>10
<1> QED
  BY <1>1, <1>6, <1>7

\* What the parser accepts is a spec that Python could build, within the constraints.
LEMMA SpecIsForm ==
    ASSUME NEW T, NEW t \in Seq(T), NEW spec \in ParseArraySpec(t)
    PROVE  spec \in PySpecs /\ SpecAccepted(spec)
<1>1. PICK u, d : SplitOnce(t, "%") = <<u>> \/ SplitOnce(t, "%") = <<u, d>>
  BY SplitOnceForms
<1>2. u \in Seq(T)
  <2>1. <<u>>[1] = u /\ <<u, d>>[1] = u
    OBVIOUS
  <2>2. SplitOnce(t, "%")[1] = u
    BY <1>1, <2>1
  <2> QED
    BY <2>2, SplitOnceParts
<1> DEFINE parts == Split(u, ",")
           options == [i \in DOMAIN parts |-> ParseEntry(parts[i])]
           entries == spec.indices
           cap == spec.max_concurrent
<1>3. \E caps : /\ spec \in SpecsOf(parts, caps)
                /\ \A c \in caps : c = {} \/ \E x \in 0..MaxU32 : x # 0 /\ c = {x}
  <2>1. CASE SplitOnce(t, "%") = <<u>>
    <3>1. spec \in SpecsOf(parts, {{}}) /\ \A c \in {{}} : c = {}
      BY <2>1, SpecForms
    <3> HIDE DEF parts
    <3> QED
      BY <3>1
  <2>2. CASE SplitOnce(t, "%") = <<u, d>>
    <3> DEFINE caps == {{x} : x \in NonZeroU32(d)}
    <3>1. spec \in SpecsOf(parts, caps)
      BY <2>2, SpecForms
    <3>2. \A x \in NonZeroU32(d) : x \in 0..MaxU32 /\ x # 0
      BY UnsignedIsBounded DEF NonZeroU32
    <3>3. \A c \in caps : \E x \in 0..MaxU32 : x # 0 /\ c = {x}
      BY <3>2
    <3> HIDE DEF parts, caps
    <3> QED
      BY <3>1, <3>3
  <2> QED
    BY <1>1, <2>1, <2>2
<1>4. /\ entries \in Collect(options) /\ spec = [indices |-> entries, max_concurrent |-> cap]
      /\ cap = {} \/ \E x \in 0..MaxU32 : x # 0 /\ cap = {x}
  <2> HIDE DEF parts
  <2> QED
    BY <1>3 DEF SpecsOf
<1>5. PICK n \in Nat \ {0} : DOMAIN parts = 1..n
  BY <1>2, SplitParts
<1>6. DOMAIN options = 1..n /\ \A i \in 1..n : options[i] = ParseEntry(parts[i])
  BY <1>5
<1> HIDE DEF options, parts, entries, cap
<1>7. /\ \A i \in 1..n : options[i] # {}
      /\ entries = [i \in 1..n |-> CHOOSE v \in options[i] : TRUE]
  BY <1>4, <1>6 DEF Collect
<1>8. \A i \in 1..n : entries[i] \in ParseEntry(parts[i])
  BY <1>6, <1>7
<1>9. \A i \in 1..n : entries[i] \in PyForms /\ Accepted(entries[i])
  BY <1>8, EntryIsForm
<1>10. DOMAIN entries = 1..n /\ entries \in [1..n -> PyForms]
  BY <1>7, <1>9
<1>11. entries \in Seq(PyForms)
  BY <1>10
<1>12. entries # <<>>
  <2>1. DOMAIN <<>> = {} /\ 1 \in 1..n
    OBVIOUS
  <2> QED
    BY <1>10, <2>1
<1>13. cap # {0} /\ cap \in {{}} \cup {{x} : x \in 0..MaxU32}
  BY <1>4
<1>14. spec \in PySpecs
  BY <1>4, <1>11, <1>13 DEF PySpecs
<1> QED
  BY <1>9, <1>10, <1>12, <1>13, <1>14 DEF SpecAccepted, entries, cap

-----------------------------------------------------------------------------
(* Time limits. *)

\* The hours, minutes and seconds of s are in their ranges and add up to s.
LEMMA PartsOfLimit ==
    ASSUME NEW s \in 1..MaxU32
    PROVE  /\ Hours(s) \in 0..MaxU32 /\ Minutes(s) \in 0..MaxU32 /\ SecondsPart(s) \in 0..MaxU32
           /\ Minutes(s) < 60 /\ SecondsPart(s) < 60
           /\ Hours(s) * 3600 + Minutes(s) * 60 + SecondsPart(s) = s
<1> DEFINE h == Hours(s)
           m == Minutes(s)
           r == SecondsPart(s)
<1>1. s \in Nat /\ MaxU32 \in Nat /\ s >= 1 /\ s <= MaxU32
  BY TextAssumption
<1>2. s = h * 3600 + (s % 3600) /\ s % 3600 \in 0..3599 /\ h \in Nat
  BY <1>1 DEF Hours
<1>3. s % 3600 = m * 60 + ((s % 3600) % 60) /\ m \in 0..59 /\ (s % 3600) % 60 \in 0..59
  BY <1>2 DEF Minutes
<1>4. (s % 3600) % 60 = s % 60
  <2> DEFINE u == (s % 3600) % 60
             q == h * 60 + m
  <2>1. s = q * 60 + u /\ q \in Int /\ u \in 0..59
    BY <1>2, <1>3
  <2> HIDE DEF u, q
  <2>2. s % 60 = u
    BY <2>1
  <2> QED
    BY <2>2 DEF u
<1>5. r = s % 60
  BY DEF SecondsPart
<1> HIDE DEF h, m, r
<1>6. h \in Nat /\ m \in Nat /\ r \in Nat /\ m < 60 /\ r < 60 /\ h * 3600 + m * 60 + r = s
  BY <1>1, <1>2, <1>3, <1>4, <1>5
<1>7. h \in 0..MaxU32 /\ m \in 0..MaxU32 /\ r \in 0..MaxU32
  BY <1>1, <1>6
<1> QED
  BY <1>6, <1>7 DEF h, m, r

\* What --time is printed with is read back as the same limit: the hours, minutes and
\* seconds of s are in their ranges and add up to s, in H:M:S as in the day form with
\* no days, and the sum passes the check of the u32 (time_limit.rs, Display, FromStr).
THEOREM PrintedLimitIsRead ==
    ASSUME NEW s \in 1..MaxU32
    PROVE  /\ Hours(s) \in 0..MaxU32 /\ Minutes(s) \in 0..59 /\ SecondsPart(s) \in 0..59
           /\ Limit(PlainForm(<<Hours(s), Minutes(s), SecondsPart(s)>>)) = {s}
           /\ Limit(DayForm(0, <<Hours(s), Minutes(s), SecondsPart(s)>>)) = {s}
<1> DEFINE f == <<Hours(s), Minutes(s), SecondsPart(s)>>
<1>1. /\ Hours(s) \in 0..MaxU32 /\ Minutes(s) \in 0..MaxU32 /\ SecondsPart(s) \in 0..MaxU32
      /\ Minutes(s) < 60 /\ SecondsPart(s) < 60
      /\ Hours(s) * 3600 + Minutes(s) * 60 + SecondsPart(s) = s
  BY PartsOfLimit
<1>2. Minutes(s) \in 0..59 /\ SecondsPart(s) \in 0..59
  BY <1>1, TextAssumption
<1>3. Len(f) = 3 /\ f[1] = Hours(s) /\ f[2] = Minutes(s) /\ f[3] = SecondsPart(s)
  OBVIOUS
<1> HIDE DEF f
<1>4. PlainForm(f) = f[1] * 3600 + f[2] * 60 + f[3]
  BY <1>3 DEF PlainForm
<1>5. DayForm(0, f) = 0 * 86400 + f[1] * 3600 + f[2] * 60 + f[3]
  BY <1>3 DEF DayForm
<1>6. PlainForm(f) = s /\ DayForm(0, f) = s
  BY <1>1, <1>3, <1>4, <1>5, TextAssumption
<1>7. Limit(s) = {s}
  BY DEF Limit
<1> QED
  BY <1>1, <1>2, <1>6, <1>7 DEF f

LimitLexemes == {Sign(":")} \cup {Number(n) : n \in Nat}

\* The text of a limit, H:M:S, is read as that limit (Display and FromStr of JobTimeLimit).
LEMMA LimitIsRead ==
    ASSUME NEW s \in 1..MaxU32
    PROVE  ParseTimeLimit(TimeText(s)) = {s}
<1> DEFINE T == LimitLexemes
           h == Hours(s)
           m == Minutes(s)
           r == SecondsPart(s)
           x == Dec(h)
           y == Dec(m)
           z == Dec(r)
           t == (x \o (Lit(":") \o y)) \o (Lit(":") \o z)
           f == <<h, m, r>>
<1>1. /\ h \in 0..MaxU32 /\ m \in 0..MaxU32 /\ r \in 0..MaxU32
      /\ h * 3600 + m * 60 + r = s
  BY PartsOfLimit
<1>2. 0..MaxU32 \subseteq Nat
  BY TextAssumption
<1>3. Sign(":") \in T /\ \A n \in Nat : Number(n) \in T
  BY DEF LimitLexemes
<1>4. \A n : Number(n) # Sign(":") /\ Number(n) # Sign("-")
  BY DEF Number, Sign
<1>5. Sign("-") \notin T
  <2>1. Sign("-") # Sign(":")
    BY DEF Sign
  <2> QED
    BY <1>4, <2>1 DEF LimitLexemes
<1> HIDE DEF T
<1>6. \A n \in 0..MaxU32 : /\ Dec(n) \in Seq(T) /\ Sign(":") \notin ToSet(Dec(n))
                           /\ U32(Dec(n)) = {n}
  <2> TAKE n \in 0..MaxU32
  <2>1. Dec(n) \in Seq(T) /\ ToSet(Dec(n)) = {Number(n)}
    BY <1>2, <1>3, OneLexeme, Zenon DEF Dec
  <2>2. U32(Dec(n)) = {n}
    BY DecIsRead DEF U32
  <2> QED
    BY <1>4, <2>1, <2>2
<1> HIDE DEF h, m, r
<1>7. /\ x \in Seq(T) /\ Sign(":") \notin ToSet(x) /\ U32(x) = {h}
      /\ y \in Seq(T) /\ Sign(":") \notin ToSet(y) /\ U32(y) = {m}
      /\ z \in Seq(T) /\ Sign(":") \notin ToSet(z) /\ U32(z) = {r}
  BY <1>1, <1>6
<1>8. Lit(":") \in Seq(T)
  BY <1>3, OneLexeme, Zenon DEF Lit
<1>9. TimeText(s) = t
  <2>1. TimeText(s) = (((x \o Lit(":")) \o y) \o Lit(":")) \o z
    BY DEF TimeText, h, m, r
  <2> DEFINE c == Lit(":")
             xcy == (x \o c) \o y
  <2> HIDE DEF x, y, z, c
  <2>2. xcy = x \o (c \o y)
    BY <1>7, <1>8, ConcatAssociative DEF c
  <2>3. xcy \in Seq(T)
    BY <1>7, <1>8, ConcatProperties DEF c
  <2> HIDE DEF xcy
  <2>4. (xcy \o c) \o z = xcy \o (c \o z)
    BY <1>7, <1>8, <2>3, ConcatAssociative DEF c
  <2> QED
    BY <2>1, <2>2, <2>4 DEF xcy, c
<1> HIDE DEF x, y, z
<1>10. t \in Seq(T) /\ Split(t, ":") = <<x, y, z>>
  BY <1>3, <1>7, ThreeParts
<1> HIDE DEF t
<1>11. Sign("-") \notin ToSet(t)
  <2>1. ToSet(t) \subseteq T
    BY <1>10, LexemesIn
  <2> QED
    BY <1>5, <2>1
<1>12. SplitOnce(t, "-") = <<t>>
  BY <1>11, SplitOnceNone
<1>13. Len(<<t>>) = 1 /\ Last(<<t>>) = t
  BY DEF Last
<1> DEFINE parts == Split(t, ":")
           options == [i \in DOMAIN parts |-> U32(parts[i])]
<1>14. ParseTimeLimit(t) = UNION {Limit(PlainForm(g)) : g \in Collect(options)}
  <2>1. Len(<<x, y, z>>) = 3
    OBVIOUS
  <2>2. ~(Len(parts) > 3)
    <3>1. parts = <<x, y, z>> /\ ~(3 > 3)
      BY <1>10
    <3> HIDE DEF parts
    <3> QED
      BY <2>1, <3>1
  <2> HIDE DEF parts
  <2>3. Len(SplitOnce(t, "-")) # 2 /\ Last(SplitOnce(t, "-")) = t
    BY <1>12, <1>13
  <2> QED
    BY <2>2, <2>3 DEF ParseTimeLimit, parts
<1>15. Collect(options) = {f}
  <2> DEFINE p == <<x, y, z>>
  <2>1. f \in Seq(Nat) /\ Len(f) = 3 /\ f[1] = h /\ f[2] = m /\ f[3] = r
    BY <1>1, <1>2
  <2>2. DOMAIN p = 1..3 /\ p[1] = x /\ p[2] = y /\ p[3] = z
    OBVIOUS
  <2> HIDE DEF f, p
  <2>3. options = [i \in DOMAIN p |-> U32(p[i])]
    BY <1>10 DEF p
  <2>4. DOMAIN options = 1..3 /\ \A i \in 1..3 : options[i] = U32(p[i])
    BY <2>2, <2>3
  <2> HIDE DEF options
  <2>5. \A i \in 1..3 : options[i] = {f[i]}
    <3>1. \A i \in 1..3 : i = 1 \/ i = 2 \/ i = 3
      OBVIOUS
    <3> QED
      BY <1>7, <2>1, <2>2, <2>4, <3>1
  <2> QED
    BY <2>1, <2>4, <2>5, CollectReads
<1>16. PlainForm(f) = s
  <2>1. Len(f) = 3 /\ f[1] = h /\ f[2] = m /\ f[3] = r
    OBVIOUS
  <2> HIDE DEF f
  <2>2. PlainForm(f) = f[1] * 3600 + f[2] * 60 + f[3]
    BY <2>1 DEF PlainForm
  <2> QED
    BY <1>1, <2>1, <2>2
<1>17. Limit(s) = {s}
  BY DEF Limit
<1> HIDE DEF options, f
<1> QED
  BY <1>9, <1>14, <1>15, <1>16, <1>17

\* What is read as a limit is one.
LEMMA LimitIsForm ==
    ASSUME NEW t
    PROVE  ParseTimeLimit(t) \subseteq 1..MaxU32
<1>1. \A x : Limit(x) \subseteq 1..MaxU32
  BY DEF Limit
<1> DEFINE byDays == SplitOnce(t, "-")
           parts == Split(Last(byDays), ":")
           fields == Collect([i \in DOMAIN parts |-> U32(parts[i])])
           dayForms == {Limit(DayForm(days, f)) : days \in U32(byDays[1]), f \in fields}
           plainForms == {Limit(PlainForm(f)) : f \in fields}
<1>2. ParseTimeLimit(t) \in {{}, UNION dayForms, UNION plainForms}
  BY DEF ParseTimeLimit
<1> HIDE DEF fields, byDays
<1>3. \A l \in dayForms \cup plainForms : l \subseteq 1..MaxU32
  BY <1>1
<1> HIDE DEF dayForms, plainForms
<1> QED
  BY <1>2, <1>3

-----------------------------------------------------------------------------
(* Mail types. *)

\* A list of mail types that is not empty is read as it was written.
LEMMA MailIsRead ==
    ASSUME NEW types \in Seq(MailType), types # <<>>
    PROVE  ParseMailTypes(MailTypesText(types)) = {types}
<1> DEFINE T == {Sign(m) : m \in MailType} \cup {Sign(",")}
           n == Len(types)
           texts == [i \in DOMAIN types |-> Lit(types[i])]
           t == Join(texts, ",")
           options == [i \in DOMAIN texts |-> {m \in MailType : texts[i] = Lit(m)}]
<1>1. n \in Nat \ {0} /\ DOMAIN types = 1..n /\ \A i \in 1..n : types[i] \in MailType
  BY LenProperties, EmptySeq, ElementOfSeq
<1>2. \A m \in MailType : m # ","
  BY DEF MailType
<1>3. \A m, k : Lit(m) = Lit(k) => m = k
  BY DEF Lit, Sign
<1>4. \A m \in MailType : Lit(m) \in Seq(T) /\ Sign(",") \notin ToSet(Lit(m))
  <2> TAKE m \in MailType
  <2>1. Sign(m) \in T /\ Sign(m) # Sign(",")
    BY <1>2 DEF Sign
  <2> HIDE DEF T
  <2>2. Lit(m) \in Seq(T) /\ ToSet(Lit(m)) = {Sign(m)}
    BY <2>1, OneLexeme, Zenon DEF Lit
  <2> QED
    BY <2>1, <2>2
<1>5. DOMAIN texts = 1..n /\ \A i \in 1..n : texts[i] = Lit(types[i])
  BY <1>1
<1>6. texts = [i \in 1..n |-> texts[i]]
  BY <1>1
<1>7. Sign(",") \in T
  OBVIOUS
<1> HIDE DEF T, texts, n
<1>8. Split(t, ",") = texts
  <2>1. \A i \in 1..n : texts[i] \in Seq(T) /\ Sign(",") \notin ToSet(texts[i])
    BY <1>1, <1>4, <1>5
  <2> QED
    BY <1>1, <1>6, <1>7, <2>1, JoinedParts
<1>9. ParseMailTypes(t) = Collect(options)
  BY <1>8 DEF ParseMailTypes
<1>10. DOMAIN options = 1..n /\ \A i \in 1..n : options[i] = {m \in MailType : texts[i] = Lit(m)}
  BY <1>5
<1> HIDE DEF options
<1>11. \A i \in 1..n : options[i] = {types[i]}
  BY <1>1, <1>3, <1>5, <1>10
<1>12. Collect(options) = {types}
  BY <1>10, <1>11, CollectReads DEF n
<1> QED
  BY <1>9, <1>12 DEF MailTypesText, texts

LEMMA MailIsForm ==
    ASSUME NEW T, NEW t \in Seq(T), NEW types \in ParseMailTypes(t)
    PROVE  types \in Seq(MailType) /\ types # <<>>
<1> DEFINE parts == Split(t, ",")
           options == [i \in DOMAIN parts |-> {m \in MailType : parts[i] = Lit(m)}]
<1>1. PICK n \in Nat \ {0} : DOMAIN parts = 1..n
  BY SplitParts
<1>2. types \in Collect(options)
  BY DEF ParseMailTypes
<1>3. DOMAIN options = 1..n /\ \A i \in 1..n : options[i] \subseteq MailType
  BY <1>1
<1> HIDE DEF options
<1>4. types \in Seq(MailType) /\ Len(types) = n
  BY <1>2, <1>3, Collected
<1>5. n # 0
  OBVIOUS
<1> QED
  BY <1>4, <1>5, EmptySeq

-----------------------------------------------------------------------------
(* Signals. *)

SignalNames == {Dec(n) : n \in 1..MaxSignal} \cup {Lit(w) : w \in Names}

Signals ==
    [allow_resignal : BOOLEAN, signal : SignalNames,
     seconds_before_end : {{}} \cup {{n} : n \in 1..MaxU16}]

Resignal == Lit("R") \o Lit(":")

\* Only the prefix has its colon.
LEMMA ResignalForm ==
    /\ \A T : Sign("R") \in T /\ Sign(":") \in T => Resignal \in Seq(T)
    /\ Len(Resignal) = 2 /\ Resignal[2] = Sign(":")
<1> DEFINE a == Sign("R")
           b == Sign(":")
<1>1. Resignal = <<a>> \o <<b>>
  BY DEF Resignal, Lit
<1> HIDE DEF a, b
<1>2. a \in {a, b} /\ b \in {a, b}
  OBVIOUS
<1>3. Len(Resignal) = 2 /\ Resignal[2] = b
  BY <1>1, <1>2, PairOf
<1>4. \A T : a \in T /\ b \in T => Resignal \in Seq(T)
  BY <1>1, PairOf
<1> QED
  BY <1>3, <1>4 DEF a, b

\* What is read of a text behind the prefix, if it is there.
SignalsOf(again, names, seconds) ==
    [allow_resignal : {again}, signal : names, seconds_before_end : seconds]

LEMMA OneSignal ==
    ASSUME NEW again, NEW name, NEW seconds
    PROVE  SignalsOf(again, {name}, {seconds}) =
               {[allow_resignal |-> again, signal |-> name, seconds_before_end |-> seconds]}
<1> DEFINE R == SignalsOf(again, {name}, {seconds})
           r == [allow_resignal |-> again, signal |-> name, seconds_before_end |-> seconds]
<1>1. r \in R
  BY DEF SignalsOf
<1>2. \A x \in R : x = r
  BY DEF SignalsOf
<1> HIDE DEF R, r
<1>3. R = {r}
  BY <1>1, <1>2
<1> QED
  BY <1>3 DEF R, r

Unprefixed(t, again, b) ==
    /\ again \in BOOLEAN
    /\ again <=> Len(t) >= 2 /\ SubSeq(t, 1, 2) = Resignal
    /\ b = IF again THEN SubSeq(t, 3, Len(t)) ELSE t

LEMMA SignalForms ==
    ASSUME NEW t, NEW again, NEW b, Unprefixed(t, again, b), NEW u, NEW d
    PROVE  /\ SplitOnce(b, "@") = <<u>> =>
                 ParseSignalSpec(t) = SignalsOf(again, ParseSignalIdent(u), {{}})
           /\ SplitOnce(b, "@") = <<u, d>> =>
                 ParseSignalSpec(t) = SignalsOf(again, ParseSignalIdent(u),
                                                {{n} : n \in ParseUnsigned(d, MaxU16) \ {0}})
<1> DEFINE again0 == Len(t) >= 2 /\ SubSeq(t, 1, 2) = Lit("R") \o Lit(":")
           parts == SplitOnce(IF again0 THEN SubSeq(t, 3, Len(t)) ELSE t, "@")
           seconds == IF Len(parts) = 1 THEN {{}}
                      ELSE {{n} : n \in ParseUnsigned(parts[2], MaxU16) \ {0}}
<1>1. ParseSignalSpec(t) = SignalsOf(again0, ParseSignalIdent(parts[1]), seconds)
  BY DEF ParseSignalSpec, SignalsOf
<1>2. again0 = again
  BY DEF Unprefixed, Resignal
<1> HIDE DEF again0
<1>3. parts = SplitOnce(b, "@")
  BY <1>2 DEF Unprefixed
<1>4. Len(<<u>>) = 1 /\ Len(<<u, d>>) # 1 /\ <<u>>[1] = u /\ <<u, d>>[1] = u /\ <<u, d>>[2] = d
  OBVIOUS
<1> HIDE DEF parts
<1>5. ASSUME parts = <<u>>
      PROVE  ParseSignalSpec(t) = SignalsOf(again, ParseSignalIdent(u), {{}})
  <2>1. parts[1] = u /\ seconds = {{}}
    BY <1>4, <1>5
  <2> HIDE DEF seconds
  <2> QED
    BY <1>1, <1>2, <2>1
<1>6. ASSUME parts = <<u, d>>
      PROVE  ParseSignalSpec(t) = SignalsOf(again, ParseSignalIdent(u),
                                            {{n} : n \in ParseUnsigned(d, MaxU16) \ {0}})
  <2>1. parts[1] = u /\ seconds = {{n} : n \in ParseUnsigned(d, MaxU16) \ {0}}
    BY <1>4, <1>6
  <2> HIDE DEF seconds
  <2> QED
    BY <1>1, <1>2, <2>1
<1> QED
  BY <1>3, <1>5, <1>6

SignalLexemes ==
    {Sign("R"), Sign(":"), Sign("@")} \cup {Number(n) : n \in Nat} \cup {Sign(w) : w \in Names}

LEMMA SignalName ==
    ASSUME NEW u \in SignalNames
    PROVE  /\ u \in Seq(SignalLexemes) /\ Len(u) = 1
           /\ Sign("@") \notin ToSet(u) /\ ParseSignalIdent(u) = {u}
<1>1. PICK x \in SignalLexemes : u = <<x>> /\ x # Sign("@")
  <2>1. CASE \E n \in 1..MaxSignal : u = Dec(n)
    <3>1. PICK n \in 1..MaxSignal : u = Dec(n)
      BY <2>1
    <3>2. Number(n) \in SignalLexemes /\ Number(n) # Sign("@") /\ u = <<Number(n)>>
      BY <3>1 DEF SignalLexemes, Number, Sign, Dec
    <3> QED
      BY <3>2
  <2>2. CASE \E w \in Names : u = Lit(w)
    <3>1. PICK w \in Names : u = Lit(w)
      BY <2>2
    <3>2. Sign(w) \in SignalLexemes /\ u = <<Sign(w)>>
      BY <3>1 DEF SignalLexemes, Lit
    <3>3. w # "@"
      BY NamesAssumption
    <3>4. Sign(w) # Sign("@")
      BY <3>3 DEF Sign
    <3> QED
      BY <3>2, <3>4
  <2> QED
    BY <2>1, <2>2 DEF SignalNames
<1>2. u \in Seq(SignalLexemes) /\ ToSet(u) = {x} /\ Len(u) = 1
  BY <1>1, OneLexeme
<1>3. ParseSignalIdent(u) = {u}
  BY DEF ParseSignalIdent, SignalNames
<1> QED
  BY <1>1, <1>2, <1>3

LEMMA BetweenAt ==
    ASSUME NEW T, NEW s \in Seq(T), NEW p \in Seq(T), NEW c, Sign(c) \in T
    PROVE  /\ s \o (Lit(c) \o p) \in Seq(T)
           /\ Len(s \o (Lit(c) \o p)) = Len(s) + (1 + Len(p))
           /\ (s \o (Lit(c) \o p))[Len(s) + 1] = Sign(c)
BY WithBetween

\* A signal, with R: before it and seconds behind it or not (Display and FromStr of
\* SignalSpec).
LEMMA SignalIsRead ==
    ASSUME NEW s \in Signals
    PROVE  ParseSignalSpec(SignalText(s)) = {s}
<1> DEFINE T == SignalLexemes
           u == s.signal
           again == s.allow_resignal
           seconds == s.seconds_before_end
           post == IF seconds = {} THEN <<>> ELSE Lit("@") \o Dec(CHOOSE n \in seconds : TRUE)
           b == u \o post
           t == SignalText(s)
<1>1. /\ u \in SignalNames /\ again \in BOOLEAN
      /\ seconds = {} \/ \E n \in 1..MaxU16 : seconds = {n}
      /\ s = [allow_resignal |-> again, signal |-> u, seconds_before_end |-> seconds]
  BY DEF Signals
<1>2. t = ((IF again THEN Lit("R") \o Lit(":") ELSE <<>>) \o u) \o post
  BY DEF SignalText
<1>3. /\ u \in Seq(T) /\ Len(u) = 1 /\ Sign("@") \notin ToSet(u)
      /\ ParseSignalIdent(u) = {u}
  BY <1>1, SignalName
<1>4. /\ Sign("R") \in T /\ Sign(":") \in T /\ Sign("@") \in T
      /\ \A n \in Nat : Number(n) \in T
  BY DEF SignalLexemes
<1>5. Sign("@") # Sign(":")
  BY DEF Sign
<1> HIDE DEF T, u, again, seconds
<1>6. /\ b \in Seq(T) /\ b # <<>> /\ (Len(b) >= 2 => b[2] = Sign("@"))
      /\ \/ seconds = {} /\ SplitOnce(b, "@") = <<u>>
         \/ \E n \in 1..MaxU16 : seconds = {n} /\ SplitOnce(b, "@") = <<u, Dec(n)>>
  <2>1. CASE seconds = {}
    <3>1. b = u
      <4>1. b = u \o <<>>
        BY <2>1
      <4> QED
        BY <1>3, <4>1, LexemesIn
    <3>2. SplitOnce(u, "@") = <<u>>
      BY <1>3, SplitOnceNone
    <3> HIDE DEF b
    <3>3. u # <<>> /\ ~(Len(u) >= 2)
      BY <1>3, EmptySeq
    <3> QED
      BY <1>3, <2>1, <3>1, <3>2, <3>3
  <2>2. CASE \E n \in 1..MaxU16 : seconds = {n}
    <3>1. PICK n \in 1..MaxU16 : seconds = {n}
      BY <2>2
    <3> DEFINE d == Dec(n)
    <3>2. b = u \o (Lit("@") \o d)
      BY <3>1
    <3>3. d \in Seq(T)
      <4>1. n \in Nat
        BY DEF MaxU16
      <4> QED
        BY <1>4, <4>1, OneLexeme, Zenon DEF Dec
    <3>4. SplitOnce(u \o (Lit("@") \o d), "@") = <<u, d>>
      <4> HIDE DEF d
      <4> QED
        BY <1>3, <1>4, <3>3, SplitOnceAt
    <3> HIDE DEF b, d
    <3>5. /\ b \in Seq(T) /\ Len(b) = Len(u) + (1 + Len(d)) /\ b[Len(u) + 1] = Sign("@")
      <4> DEFINE v == u \o (Lit("@") \o d)
      <4>1. /\ v \in Seq(T) /\ Len(v) = Len(u) + (1 + Len(d)) /\ v[Len(u) + 1] = Sign("@")
        <5>1. u \in Seq(T) /\ d \in Seq(T) /\ Sign("@") \in T
          BY <1>3, <1>4, <3>3
        <5> QED
          BY <5>1, BetweenAt
      <4> HIDE DEF v
      <4> QED
        BY <3>2, <4>1 DEF v
    <3>6. b # <<>> /\ b[2] = Sign("@")
      <4>1. Len(d) \in Nat
        BY <3>3, LenProperties
      <4>2. Len(b) # 0 /\ Len(u) + 1 = 2
        BY <1>3, <3>5, <4>1
      <4> QED
        BY <3>5, <4>2, EmptySeq
    <3> QED
      BY <3>1, <3>2, <3>4, <3>5, <3>6 DEF d
  <2> QED
    BY <1>1, <2>1, <2>2
<1>7. Unprefixed(t, again, b)
  <2>1. CASE again
    <3>1. t = (Resignal \o u) \o post
      BY <1>2, <2>1 DEF Resignal
    <3>2. post \in Seq(T)
      <4>1. CASE seconds = {}
        BY <4>1
      <4>2. CASE \E n \in 1..MaxU16 : seconds = {n}
        <5>1. PICK n \in 1..MaxU16 : seconds = {n}
          BY <4>2
        <5>2. post = Lit("@") \o Dec(n)
          BY <5>1
        <5>3. Lit("@") \in Seq(T) /\ Dec(n) \in Seq(T)
          <6>1. n \in Nat
            BY DEF MaxU16
          <6> QED
            BY <1>4, <6>1, OneLexeme, Zenon DEF Lit, Dec
        <5> HIDE DEF post
        <5> QED
          BY <5>2, <5>3, ConcatProperties
      <4> QED
        BY <1>1, <4>1, <4>2
    <3> HIDE DEF post
    <3>3. Resignal \in Seq(T) /\ Len(Resignal) = 2
      BY <1>4, ResignalForm
    <3>4. t = Resignal \o b
      BY <1>3, <3>1, <3>2, <3>3, ConcatAssociative
    <3> HIDE DEF b, t
    <3> QED
      BY <1>1, <1>6, <2>1, <3>3, <3>4, PrefixAndRest DEF Unprefixed
  <2>2. CASE ~again
    <3>1. t = (<<>> \o u) \o post
      BY <1>2, <2>2
    <3>2. t = b
      BY <1>3, <3>1, ConcatEmptySeq
    <3> HIDE DEF b, t
    <3>3. ASSUME Len(b) >= 2, SubSeq(b, 1, 2) = Resignal
          PROVE  FALSE
      <4>1. \A i \in 1..2 : b[i] \in T
        BY <1>6, <3>3, ElementOfSeq, LenProperties
      <4>2. SubSeq(b, 1, 2)[2] = b[2]
        <5>1. \A i \in 1..(2 - 1 + 1) : SubSeq(b, 1, 2)[i] = b[1 + i - 1]
          BY <4>1, SubSeqProperties
        <5>2. 2 \in 1..(2 - 1 + 1) /\ 1 + 2 - 1 = 2
          OBVIOUS
        <5> QED
          BY <5>1, <5>2
      <4> QED
        BY <1>5, <1>6, <3>3, <4>2, ResignalForm
    <3> QED
      BY <1>1, <2>2, <3>2, <3>3 DEF Unprefixed
  <2> QED
    BY <1>1, <2>1, <2>2
<1> HIDE DEF b, t
<1>8. CASE seconds = {} /\ SplitOnce(b, "@") = <<u>>
  <2>1. ParseSignalSpec(t) = SignalsOf(again, ParseSignalIdent(u), {{}})
    BY <1>7, <1>8, SignalForms
  <2>2. ParseSignalSpec(t) = SignalsOf(again, {u}, {seconds})
    BY <1>3, <1>8, <2>1
  <2>3. SignalsOf(again, {u}, {seconds}) = {s}
    <3>1. SignalsOf(again, {u}, {seconds}) =
              {[allow_resignal |-> again, signal |-> u, seconds_before_end |-> seconds]}
      BY OneSignal, Zenon
    <3> QED
      BY <1>1, <3>1, Zenon
  <2> QED
    BY <2>2, <2>3 DEF t
<1>9. CASE \E n \in 1..MaxU16 : seconds = {n} /\ SplitOnce(b, "@") = <<u, Dec(n)>>
  <2>1. PICK n \in 1..MaxU16 : seconds = {n} /\ SplitOnce(b, "@") = <<u, Dec(n)>>
    BY <1>9
  <2>2. n \in 0..MaxU16 /\ n # 0
    OBVIOUS
  <2>3. ParseUnsigned(Dec(n), MaxU16) = {n}
    BY <2>2, DecIsRead
  <2>4. {{m} : m \in {n} \ {0}} = {seconds}
    BY <2>1, <2>2
  <2>5. ParseSignalSpec(t) = SignalsOf(again, ParseSignalIdent(u), {{m} : m \in ParseUnsigned(Dec(n), MaxU16) \ {0}})
    BY <1>7, <2>1, SignalForms
  <2>6. ParseSignalSpec(t) = SignalsOf(again, {u}, {seconds})
    BY <1>3, <2>3, <2>4, <2>5
  <2>7. SignalsOf(again, {u}, {seconds}) = {s}
    <3>1. SignalsOf(again, {u}, {seconds}) =
              {[allow_resignal |-> again, signal |-> u, seconds_before_end |-> seconds]}
      BY OneSignal, Zenon
    <3> QED
      BY <1>1, <3>1, Zenon
  <2> QED
    BY <2>6, <2>7 DEF t
<1> QED
  BY <1>6, <1>8, <1>9

LEMMA SignalIsForm ==
    ASSUME NEW t
    PROVE  ParseSignalSpec(t) \subseteq Signals
<1> DEFINE again == Len(t) >= 2 /\ SubSeq(t, 1, 2) = Lit("R") \o Lit(":")
           parts == SplitOnce(IF again THEN SubSeq(t, 3, Len(t)) ELSE t, "@")
           seconds == IF Len(parts) = 1 THEN {{}}
                      ELSE {{n} : n \in ParseUnsigned(parts[2], MaxU16) \ {0}}
<1>1. ParseSignalSpec(t) = SignalsOf(again, ParseSignalIdent(parts[1]), seconds)
  BY DEF ParseSignalSpec, SignalsOf
<1>2. again \in BOOLEAN
  OBVIOUS
<1>3. seconds \subseteq {{}} \cup {{n} : n \in 1..MaxU16}
  <2>1. \A v : ParseUnsigned(v, MaxU16) \ {0} \subseteq 1..MaxU16
    BY DEF ParseUnsigned
  <2> HIDE DEF parts
  <2> QED
    BY <2>1
<1>4. ParseSignalIdent(parts[1]) \subseteq SignalNames
  <2> HIDE DEF parts
  <2> QED
    BY DEF ParseSignalIdent, SignalNames
<1> HIDE DEF again, parts, seconds
<1> QED
  BY <1>1, <1>2, <1>3, <1>4 DEF SignalsOf, Signals

-----------------------------------------------------------------------------
(* Dependencies. *)

PyRefs == [job_id : 0..MaxU32, delay_minutes : {{}} \cup {{m} : m \in 0..MaxU32}]

RefLexemes == {Sign("+")} \cup {Number(n) : n \in Nat}

ClauseLexemes == RefLexemes \cup {Sign(":")} \cup {Sign(k) : k \in DependencyType}

LEMMA DependencySigns ==
    /\ Sign(":") \notin RefLexemes /\ Sign("+") \in RefLexemes
    /\ \A n \in Nat : Number(n) \in RefLexemes /\ Number(n) # Sign("+")
    /\ RefLexemes \subseteq ClauseLexemes /\ Sign(":") \in ClauseLexemes
    /\ Sign(",") \notin ClauseLexemes /\ Sign("?") \notin ClauseLexemes
    /\ \A k \in DependencyType : Sign(k) \in ClauseLexemes /\ Sign(k) # Sign(":")
<1>1. \A n, c : Number(n) = Sign(c) => c = "number"
  BY DEF Number, Sign
<1>2. \A c, d : Sign(c) = Sign(d) => c = d
  BY DEF Sign
<1>3. \A k \in DependencyType : k # ":" /\ k # "," /\ k # "?"
  BY DEF DependencyType
<1>4. Sign(":") \notin RefLexemes
  BY <1>1, <1>2 DEF RefLexemes
<1>5. Sign("+") \in RefLexemes /\ \A n \in Nat : Number(n) \in RefLexemes /\ Number(n) # Sign("+")
  BY <1>1 DEF RefLexemes
<1>6. RefLexemes \subseteq ClauseLexemes /\ Sign(":") \in ClauseLexemes
  BY DEF ClauseLexemes
<1>7. Sign(",") \notin ClauseLexemes /\ Sign("?") \notin ClauseLexemes
  <2>1. Sign(",") \notin RefLexemes /\ Sign("?") \notin RefLexemes
    BY <1>1, <1>2 DEF RefLexemes
  <2> QED
    BY <1>2, <1>3, <2>1 DEF ClauseLexemes
<1>8. \A k \in DependencyType : Sign(k) \in ClauseLexemes /\ Sign(k) # Sign(":")
  BY <1>2, <1>3 DEF ClauseLexemes
<1> QED
  BY <1>4, <1>5, <1>6, <1>7, <1>8

\* What is read of a reference to a job, from the parts of it.
DelayedRefs(ids, delays) == {JobRef(id, {m}) : id \in ids, m \in delays}

RefsOf(t, parts, allow) ==
    IF Len(parts) = 1 THEN {JobRef(id, {}) : id \in U32(t)}
    ELSE DelayedRefs(U32(parts[1]), IF allow THEN U32(parts[2]) ELSE {})

LEMMA RefForms ==
    ASSUME NEW t, NEW allow
    PROVE  ParseJobRef(t, allow) = RefsOf(t, SplitOnce(t, "+"), allow)
BY DEF ParseJobRef, RefsOf, DelayedRefs

LEMMA RefAlone ==
    ASSUME NEW t, NEW allow, SplitOnce(t, "+") = <<t>>
    PROVE  ParseJobRef(t, allow) = {JobRef(id, {}) : id \in U32(t)}
<1>1. Len(<<t>>) = 1
  OBVIOUS
<1> QED
  BY <1>1, RefForms DEF RefsOf

LEMMA RefDelayed ==
    ASSUME NEW t, NEW allow, NEW a, NEW b, SplitOnce(t, "+") = <<a, b>>
    PROVE  ParseJobRef(t, allow) = DelayedRefs(U32(a), IF allow THEN U32(b) ELSE {})
<1>1. Len(<<a, b>>) # 1 /\ <<a, b>>[1] = a /\ <<a, b>>[2] = b
  OBVIOUS
<1> QED
  BY <1>1, RefForms DEF RefsOf

RefAccepted(r, type) == r.delay_minutes # {} => type = "after"

\* One job of a clause, whose delay is read only behind after.
LEMMA RefIsRead ==
    ASSUME NEW r \in PyRefs, NEW allow \in BOOLEAN
    PROVE  /\ JobRefText(r) \in Seq(RefLexemes)
           /\ ParseJobRef(JobRefText(r), allow) =
                  IF r.delay_minutes # {} => allow THEN {r} ELSE {}
<1> DEFINE id == r.job_id
           delay == r.delay_minutes
           x == Dec(id)
<1>1. /\ id \in 0..MaxU32 /\ r = JobRef(id, delay)
      /\ delay = {} \/ \E m \in 0..MaxU32 : delay = {m}
  BY DEF PyRefs, JobRef
<1>2. \A n \in 0..MaxU32 : /\ Dec(n) \in Seq(RefLexemes) /\ Sign("+") \notin ToSet(Dec(n))
                           /\ U32(Dec(n)) = {n}
  <2> TAKE n \in 0..MaxU32
  <2>1. n \in Nat
    BY TextAssumption
  <2>2. Dec(n) \in Seq(RefLexemes) /\ ToSet(Dec(n)) = {Number(n)}
    BY <2>1, DependencySigns, OneLexeme, Zenon DEF Dec
  <2>3. U32(Dec(n)) = {n}
    BY DecIsRead DEF U32
  <2> QED
    BY <2>1, <2>2, <2>3, DependencySigns
<1>3. JobRefText(r) = x \o (IF delay = {} THEN <<>> ELSE Lit("+") \o Dec(CHOOSE m \in delay : TRUE))
  BY DEF JobRefText
<1> HIDE DEF id, delay
<1>4. x \in Seq(RefLexemes) /\ Sign("+") \notin ToSet(x) /\ U32(x) = {id}
  BY <1>1, <1>2
<1> HIDE DEF x
<1>5. CASE delay = {}
  <2>1. JobRefText(r) = x
    <3>1. JobRefText(r) = x \o <<>>
      BY <1>3, <1>5
    <3> QED
      BY <1>4, <3>1, LexemesIn
  <2>2. SplitOnce(x, "+") = <<x>>
    BY <1>4, SplitOnceNone
  <2>3. ParseJobRef(x, allow) = {JobRef(n, {}) : n \in U32(x)}
    BY <2>2, RefAlone
  <2>4. {JobRef(n, {}) : n \in {id}} = {r}
    BY <1>1, <1>5
  <2> QED
    BY <1>4, <1>5, <2>1, <2>3, <2>4 DEF delay
<1>6. CASE \E m \in 0..MaxU32 : delay = {m}
  <2>1. PICK m \in 0..MaxU32 : delay = {m}
    BY <1>6
  <2> DEFINE y == Dec(m)
             t == x \o (Lit("+") \o y)
  <2>2. JobRefText(r) = t
    BY <1>3, <2>1
  <2>3. y \in Seq(RefLexemes) /\ U32(y) = {m}
    BY <1>2
  <2> HIDE DEF y
  <2>4. t \in Seq(RefLexemes) /\ SplitOnce(t, "+") = <<x, y>>
    <3>1. Sign("+") \in RefLexemes
      BY DependencySigns
    <3> QED
      BY <1>4, <2>3, <3>1, SplitOnceAt, BetweenAt
  <2> HIDE DEF t
  <2>5. ParseJobRef(t, allow) = DelayedRefs(U32(x), IF allow THEN U32(y) ELSE {})
    BY <2>4, RefDelayed
  <2>6. CASE allow
    <3>1. ParseJobRef(t, allow) = DelayedRefs({id}, {m})
      BY <1>4, <2>3, <2>5, <2>6
    <3>2. DelayedRefs({id}, {m}) = {r}
      BY <1>1, <2>1 DEF DelayedRefs
    <3> QED
      BY <2>2, <2>4, <2>6, <3>1, <3>2, Zenon
  <2>7. CASE ~allow
    <3>1. ParseJobRef(t, allow) = DelayedRefs({id}, {})
      BY <1>4, <2>5, <2>7
    <3>2. DelayedRefs({id}, {}) = {}
      BY DEF DelayedRefs
    <3>3. delay # {}
      BY <2>1
    <3> QED
      BY <2>2, <2>4, <2>7, <3>1, <3>2, <3>3 DEF delay
  <2> QED
    BY <2>6, <2>7
<1> QED
  BY <1>1, <1>5, <1>6

LEMMA RefIsForm ==
    ASSUME NEW t, NEW allow \in BOOLEAN, NEW r \in ParseJobRef(t, allow)
    PROVE  r \in PyRefs /\ (r.delay_minutes # {} => allow)
<1>1. \A v : U32(v) \subseteq 0..MaxU32
  BY UnsignedIsBounded
<1>2. SplitOnce(t, "+") = <<t>> \/ \E a, b : SplitOnce(t, "+") = <<a, b>>
  BY SplitOnceForms
<1>3. CASE SplitOnce(t, "+") = <<t>>
  <2>1. r \in {JobRef(id, {}) : id \in U32(t)}
    BY <1>3, RefAlone
  <2> QED
    BY <1>1, <2>1 DEF JobRef, PyRefs
<1>4. CASE \E a, b : SplitOnce(t, "+") = <<a, b>>
  <2>1. PICK a, b : SplitOnce(t, "+") = <<a, b>>
    BY <1>4
  <2>2. r \in DelayedRefs(U32(a), IF allow THEN U32(b) ELSE {})
    BY <2>1, RefDelayed
  <2>3. PICK id \in U32(a), m \in IF allow THEN U32(b) ELSE {} : r = JobRef(id, {m})
    BY <2>2 DEF DelayedRefs
  <2>4. allow /\ m \in 0..MaxU32 /\ id \in 0..MaxU32
    BY <1>1, <2>3
  <2> QED
    BY <2>3, <2>4 DEF JobRef, PyRefs
<1> QED
  BY <1>2, <1>3, <1>4

PyClauseForms == [dep_type : DependencyType, job_refs : Seq(PyRefs)]

\* The constraints that the docs of DependencyClause name.
ClauseAccepted(c) ==
    /\ c.dep_type = "singleton" <=> c.job_refs = <<>>
    /\ \A i \in DOMAIN c.job_refs : RefAccepted(c.job_refs[i], c.dep_type)

\* What is read of a clause, from the parts of its text.
ClausesOf(parts) ==
    {c \in [dep_type : {k \in DependencyType : parts[1] = Lit(k)},
            job_refs : Collect([i \in 1..(Len(parts) - 1) |->
                                   ParseJobRef(parts[i + 1], parts[1] = Lit("after"))])] :
        TakesJobs(c.dep_type) <=> c.job_refs # <<>>}

LEMMA ClauseForms ==
    ASSUME NEW t
    PROVE  ParseClause(t) = ClausesOf(Split(t, ":"))
<1>1. \A parts : Head(parts) = parts[1]
  OBVIOUS
<1> QED
  BY <1>1 DEF ParseClause, ClausesOf

\* A word, and the texts of the references behind it.
LEMMA WordAndRefs ==
    ASSUME NEW k \in DependencyType, NEW refs \in Seq(PyRefs)
    PROVE  LET n == Len(refs)
               texts == <<Lit(k)>> \o [i \in DOMAIN refs |-> JobRefText(refs[i])]
           IN  /\ n \in Nat /\ DOMAIN refs = 1..n
               /\ texts = [i \in 1..(n + 1) |-> texts[i]] /\ Len(texts) = n + 1
               /\ texts[1] = Lit(k) /\ \A i \in 1..n : texts[i + 1] = JobRefText(refs[i])
<1> DEFINE n == Len(refs)
           S == Seq(ClauseLexemes)
           w == <<Lit(k)>>
           rest == [i \in DOMAIN refs |-> JobRefText(refs[i])]
           texts == w \o rest
<1>1. n \in Nat /\ DOMAIN refs = 1..n /\ \A i \in 1..n : refs[i] \in PyRefs
  BY LenProperties, ElementOfSeq
<1>2. Lit(k) \in S
  BY DependencySigns, OneLexeme, Zenon DEF Lit
<1>3. \A r \in PyRefs : JobRefText(r) \in S
  <2> TAKE r \in PyRefs
  <2>1. TRUE \in BOOLEAN
    OBVIOUS
  <2>2. JobRefText(r) \in Seq(RefLexemes)
    BY <2>1, RefIsRead, Zenon
  <2> QED
    BY <2>2, DependencySigns, LexemesIn, Zenon
<1> HIDE DEF S, n
<1>4. w \in Seq(S) /\ Len(w) = 1 /\ w[1] = Lit(k)
  BY <1>2
<1>5. DOMAIN rest = 1..n /\ \A i \in 1..n : rest[i] = JobRefText(refs[i])
  BY <1>1
<1>6. rest \in Seq(S) /\ Len(rest) = n
  <2>1. rest = [i \in 1..n |-> rest[i]]
    BY <1>1
  <2> HIDE DEF rest
  <2>2. rest \in [1..n -> S]
    BY <1>1, <1>3, <1>5, <2>1
  <2>3. rest \in Seq(S)
    BY <1>1, <2>2
  <2> QED
    BY <1>1, <1>5, <2>3, LenProperties
<1> HIDE DEF w, rest
<1>7. /\ texts \in Seq(S) /\ Len(texts) = 1 + n
      /\ \A i \in 1..(1 + n) : texts[i] = IF i <= 1 THEN w[i] ELSE rest[i - 1]
  <2>1. /\ texts \in Seq(S) /\ Len(texts) = Len(w) + Len(rest)
        /\ \A i \in 1..(Len(w) + Len(rest)) :
              texts[i] = IF i <= Len(w) THEN w[i] ELSE rest[i - Len(w)]
    BY <1>4, <1>6, ConcatProperties
  <2> HIDE DEF texts
  <2> QED
    BY <1>4, <1>6, <2>1
<1> HIDE DEF texts
<1>8. Len(texts) = n + 1
  BY <1>1, <1>7
<1>9. texts = [i \in 1..(n + 1) |-> texts[i]]
  BY <1>7, <1>8, LenProperties
<1>10. texts[1] = Lit(k)
  BY <1>1, <1>4, <1>7
<1>11. \A i \in 1..n : texts[i + 1] = JobRefText(refs[i])
  <2> TAKE i \in 1..n
  <2>1. i + 1 \in 1..(1 + n) /\ ~(i + 1 <= 1) /\ (i + 1) - 1 = i
    BY <1>1
  <2> QED
    BY <1>5, <1>7, <2>1
<1> QED
  BY <1>1, <1>8, <1>9, <1>10, <1>11 DEF texts, w, rest, n

LEMMA OneClause ==
    ASSUME NEW k, NEW refs
    PROVE  [dep_type : {k}, job_refs : {refs}] = {[dep_type |-> k, job_refs |-> refs]}
<1> DEFINE R == [dep_type : {k}, job_refs : {refs}]
           r == [dep_type |-> k, job_refs |-> refs]
<1>1. r \in R /\ \A x \in R : x = r
  OBVIOUS
<1> HIDE DEF R, r
<1>2. R = {r}
  BY <1>1
<1> QED
  BY <1>2 DEF R, r

\* A clause is read if it names jobs, or none for a singleton (DependencyClause).
LEMMA ClauseIsRead ==
    ASSUME NEW c \in PyClauseForms
    PROVE  /\ ClauseText(c) \in Seq(ClauseLexemes)
           /\ ParseClause(ClauseText(c)) = IF ClauseAccepted(c) THEN {c} ELSE {}
<1> DEFINE k == c.dep_type
           refs == c.job_refs
           n == Len(refs)
           texts == <<Lit(k)>> \o [i \in DOMAIN refs |-> JobRefText(refs[i])]
           t == Join(texts, ":")
           allow == k = "after"
           good == {i \in 1..n : RefAccepted(refs[i], k)}
           options == [i \in 1..n |-> ParseJobRef(texts[i + 1], texts[1] = Lit("after"))]
<1>1. k \in DependencyType /\ refs \in Seq(PyRefs) /\ c = [dep_type |-> k, job_refs |-> refs]
  BY DEF PyClauseForms
<1>2. ClauseText(c) = t
  BY DEF ClauseText
<1>3. ClauseAccepted(c) <=> /\ k = "singleton" <=> refs = <<>>
                            /\ \A i \in DOMAIN refs : RefAccepted(refs[i], k)
  BY DEF ClauseAccepted
<1> HIDE DEF k, refs
<1>4. /\ n \in Nat /\ DOMAIN refs = 1..n
      /\ texts = [i \in 1..(n + 1) |-> texts[i]] /\ Len(texts) = n + 1
      /\ texts[1] = Lit(k) /\ \A i \in 1..n : texts[i + 1] = JobRefText(refs[i])
  BY <1>1, WordAndRefs
<1>5. \A i \in 1..n : refs[i] \in PyRefs
  BY <1>1, ElementOfSeq
<1> HIDE DEF n, texts
<1>6. \A a \in BOOLEAN : \A i \in 1..n :
          /\ texts[i + 1] \in Seq(RefLexemes)
          /\ ParseJobRef(texts[i + 1], a) = IF refs[i].delay_minutes # {} => a THEN {refs[i]} ELSE {}
  BY <1>4, <1>5, RefIsRead
<1>7. \A i \in 1..(n + 1) : texts[i] \in Seq(ClauseLexemes) /\ Sign(":") \notin ToSet(texts[i])
  <2>1. Lit(k) \in Seq(ClauseLexemes) /\ Sign(":") \notin ToSet(Lit(k))
    <3>1. Sign(k) \in ClauseLexemes /\ Sign(k) # Sign(":")
      BY <1>1, DependencySigns
    <3>2. Lit(k) \in Seq(ClauseLexemes) /\ ToSet(Lit(k)) = {Sign(k)}
      BY <3>1, OneLexeme, Zenon DEF Lit
    <3> QED
      BY <3>1, <3>2
  <2>2. \A u \in Seq(RefLexemes) : u \in Seq(ClauseLexemes) /\ Sign(":") \notin ToSet(u)
    <3> TAKE u \in Seq(RefLexemes)
    <3>1. u \in Seq(ClauseLexemes)
      BY DependencySigns, LexemesIn, Zenon
    <3>2. ToSet(u) \subseteq RefLexemes
      BY LexemesIn
    <3>3. Sign(":") \notin RefLexemes
      BY DependencySigns
    <3> QED
      BY <3>1, <3>2, <3>3
  <2> TAKE i \in 1..(n + 1)
  <2>3. CASE i = 1
    BY <1>4, <2>1, <2>3
  <2>4. CASE i # 1
    <3>1. i - 1 \in 1..n /\ (i - 1) + 1 = i
      BY <1>4, <2>4
    <3>2. texts[(i - 1) + 1] \in Seq(RefLexemes)
      BY <1>6, <3>1
    <3> QED
      BY <2>2, <3>1, <3>2
  <2> QED
    BY <2>3, <2>4
<1>8. t \in Seq(ClauseLexemes) /\ Split(t, ":") = texts
  <2>1. n + 1 \in Nat \ {0}
    BY <1>4
  <2>2. Sign(":") \in ClauseLexemes
    BY DependencySigns
  <2> QED
    BY <1>4, <1>7, <2>1, <2>2, JoinedParts
<1> HIDE DEF t
<1>9. \A a, b : Lit(a) = Lit(b) <=> a = b
  BY DEF Lit, Sign
<1>10. (texts[1] = Lit("after")) = allow /\ {j \in DependencyType : texts[1] = Lit(j)} = {k}
  BY <1>1, <1>4, <1>9
<1>11. ParseClause(t) =
           {d \in [dep_type : {k}, job_refs : Collect(options)] :
               TakesJobs(d.dep_type) <=> d.job_refs # <<>>}
  <2>1. ParseClause(t) = ClausesOf(texts)
    BY <1>8, ClauseForms
  <2>2. Len(texts) - 1 = n
    BY <1>4
  <2> QED
    BY <1>10, <2>1, <2>2 DEF ClausesOf
<1>12. Collect(options) = IF 1..n \subseteq good THEN {refs} ELSE {}
  <2>1. DOMAIN options = 1..n /\ \A i \in 1..n : options[i] = ParseJobRef(texts[i + 1], allow)
    BY <1>10
  <2> HIDE DEF options
  <2>2. allow \in BOOLEAN
    OBVIOUS
  <2>3. \A i \in 1..n : options[i] = IF i \in good THEN {refs[i]} ELSE {}
    BY <1>6, <2>1, <2>2 DEF RefAccepted
  <2> HIDE DEF good
  <2> QED
    BY <1>1, <2>1, <2>3, CollectAccepts DEF n
<1> HIDE DEF options
<1>13. 1..n \subseteq good <=> \A i \in DOMAIN refs : RefAccepted(refs[i], k)
  BY <1>4
<1> HIDE DEF good
<1>14. CASE 1..n \subseteq good
  <2>1. ParseClause(t) = {d \in [dep_type : {k}, job_refs : {refs}] :
                             TakesJobs(d.dep_type) <=> d.job_refs # <<>>}
    BY <1>11, <1>12, <1>14
  <2>2. [dep_type : {k}, job_refs : {refs}] = {c}
    BY <1>1, OneClause, Zenon
  <2>3. TakesJobs(c.dep_type) <=> k # "singleton"
    BY <1>1 DEF TakesJobs
  <2>4. c.job_refs = refs
    BY <1>1
  <2>5. ParseClause(t) = {d \in {c} : TakesJobs(d.dep_type) <=> d.job_refs # <<>>}
    BY <2>1, <2>2
  <2> QED
    BY <1>2, <1>3, <1>8, <1>13, <1>14, <2>3, <2>4, <2>5
<1>15. CASE ~(1..n \subseteq good)
  <2>1. Collect(options) = {}
    BY <1>12, <1>15
  <2>2. ParseClause(t) = {}
    BY <1>11, <2>1
  <2> QED
    BY <1>2, <1>3, <1>8, <1>13, <1>15, <2>2
<1> QED
  BY <1>14, <1>15

\* What the parser accepts is a clause that Python could build, within the constraints.
LEMMA ClauseIsForm ==
    ASSUME NEW T, NEW t \in Seq(T), NEW c \in ParseClause(t)
    PROVE  c \in PyClauseForms /\ ClauseAccepted(c)
<1> DEFINE parts == Split(t, ":")
           allow == parts[1] = Lit("after")
           n == Len(parts) - 1
           options == [i \in 1..n |-> ParseJobRef(parts[i + 1], allow)]
           k == c.dep_type
           refs == c.job_refs
<1>1. n \in Nat
  <2>1. PICK m \in Nat \ {0} : Len(parts) = m
    BY SplitLen
  <2> HIDE DEF parts
  <2> QED
    BY <2>1
<1>2. c \in ClausesOf(parts)
  BY ClauseForms
<1> HIDE DEF parts
<1>3. /\ k \in DependencyType /\ parts[1] = Lit(k) /\ refs \in Collect(options)
      /\ c = [dep_type |-> k, job_refs |-> refs] /\ (TakesJobs(k) <=> refs # <<>>)
  BY <1>2 DEF ClausesOf
<1> HIDE DEF k, refs
<1>4. \A a, b : Lit(a) = Lit(b) <=> a = b
  BY DEF Lit, Sign
<1>5. allow <=> k = "after"
  BY <1>3, <1>4
<1>6. DOMAIN options = 1..n /\ \A i \in 1..n : options[i] = ParseJobRef(parts[i + 1], allow)
  OBVIOUS
<1>7. allow \in BOOLEAN
  OBVIOUS
<1> HIDE DEF options, n, allow
<1>8. \A i \in 1..n : \A r \in options[i] : r \in PyRefs /\ (r.delay_minutes # {} => allow)
  BY <1>6, <1>7, RefIsForm
<1>9. \A i \in 1..n : options[i] \subseteq PyRefs
  BY <1>8
<1>10. /\ refs \in Seq(PyRefs) /\ DOMAIN refs = 1..n
       /\ \A i \in 1..n : refs[i] \in options[i]
  BY <1>1, <1>3, <1>6, <1>9, Collected
<1>11. \A i \in DOMAIN refs : RefAccepted(refs[i], k)
  BY <1>5, <1>8, <1>10 DEF RefAccepted
<1>12. k = "singleton" <=> refs = <<>>
  BY <1>3 DEF TakesJobs
<1>13. c.dep_type = k /\ c.job_refs = refs
  BY <1>3
<1> QED
  BY <1>3, <1>10, <1>11, <1>12, <1>13 DEF PyClauseForms, ClauseAccepted

PyDeps == [clauses : Seq(PyClauseForms), join : {"And", "Or"}]

\* The constraints that the docs of SlurmDependency name.
DependencyAccepted(d) ==
    d.clauses # <<>> /\ \A i \in DOMAIN d.clauses : ClauseAccepted(d.clauses[i])

\* What is read of a dependency, from the clauses in it, and how its text joins them.
DepsOf(parts, join) ==
    [clauses : Collect([i \in DOMAIN parts |-> ParseClause(parts[i])]), join : {join}]

JoinOf(t) == IF Sign("?") \in ToSet(t) THEN "Or" ELSE "And"

LEMMA DependencyForms ==
    ASSUME NEW T, NEW t \in Seq(T)
    PROVE  ParseDependency(t) = IF Sign(",") \in ToSet(t) /\ Sign("?") \in ToSet(t) THEN {}
                                ELSE DepsOf(Split(t, JoinSign(JoinOf(t))), JoinOf(t))
<1>1. DOMAIN t = 1..Len(t)
  BY LenProperties
<1>2. \A x : Contains(t, x) <=> x \in ToSet(t)
  BY <1>1 DEF Contains, ToSet
<1> QED
  BY <1>2 DEF ParseDependency, DepsOf, JoinOf

LEMMA OneDependency ==
    ASSUME NEW clauses, NEW join
    PROVE  /\ [clauses : {clauses}, join : {join}] = {[clauses |-> clauses, join |-> join]}
           /\ [clauses : {}, join : {join}] = {}
<1> DEFINE R == [clauses : {clauses}, join : {join}]
           r == [clauses |-> clauses, join |-> join]
<1>1. r \in R /\ \A x \in R : x = r
  OBVIOUS
<1>2. [clauses : {}, join : {join}] = {}
  OBVIOUS
<1> HIDE DEF R, r
<1>3. R = {r}
  BY <1>1
<1> QED
  BY <1>2, <1>3 DEF R, r

\* A dependency without clauses is written as nothing, which is no clause.
LEMMA NoDependency ==
    ASSUME NEW d, DOMAIN d.clauses = {}
    PROVE  ParseDependency(DependencyText(d)) = {}
<1> DEFINE texts == [i \in DOMAIN d.clauses |-> ClauseText(d.clauses[i])]
<1>1. DependencyText(d) = <<>>
  <2>1. DOMAIN texts = {}
    OBVIOUS
  <2> HIDE DEF texts
  <2>2. Join(texts, JoinSign(d.join)) = <<>>
    BY <2>1, JoinNone
  <2> QED
    BY <2>2 DEF DependencyText, texts
<1>2. <<>> \in Seq({}) /\ ToSet(<<>>) = {}
  BY DEF ToSet
<1>3. ParseDependency(<<>>) = DepsOf(Split(<<>>, ","), "And")
  BY <1>2, DependencyForms DEF JoinOf, JoinSign
<1>4. ParseClause(<<>>) = {}
  <2>1. ParseClause(<<>>) = ClausesOf(<<<<>>>>)
    BY ClauseForms, SplitNone
  <2>2. \A k : <<<<>>>>[1] # Lit(k)
    BY DEF Lit
  <2> QED
    BY <2>1, <2>2 DEF ClausesOf
<1>5. DepsOf(<<<<>>>>, "And") = {}
  <2> DEFINE parts == <<<<>>>>
             options == [i \in DOMAIN parts |-> ParseClause(parts[i])]
  <2>1. 1 \in DOMAIN parts /\ parts[1] = <<>>
    OBVIOUS
  <2>2. 1 \in DOMAIN options /\ options[1] = {}
    BY <1>4, <2>1
  <2>3. Collect(options) = {}
    BY <2>2 DEF Collect
  <2> HIDE DEF options
  <2>4. DepsOf(parts, "And") = [clauses : Collect(options), join : {"And"}]
    BY DEF DepsOf, options
  <2> QED
    BY <2>3, <2>4, OneDependency
<1> QED
  BY <1>1, <1>3, <1>5, SplitNone

CanonicalDependency(d) == IF Len(d.clauses) = 1 THEN [d EXCEPT !.join = "And"] ELSE d

\* A dependency: the separators tell how its clauses are joined, one clause tells
\* nothing (Display and FromStr of SlurmDependency).
LEMMA DependencyIsRead ==
    ASSUME NEW d \in PyDeps
    PROVE  ParseDependency(DependencyText(d)) =
               IF DependencyAccepted(d) THEN {CanonicalDependency(d)} ELSE {}
<1> DEFINE clauses == d.clauses
           join == d.join
           n == Len(clauses)
           s == JoinSign(join)
           other == IF join = "And" THEN "?" ELSE ","
           T == ClauseLexemes \cup {Sign(s)}
           texts == [i \in DOMAIN clauses |-> ClauseText(clauses[i])]
           t == DependencyText(d)
           good == {i \in 1..n : ClauseAccepted(clauses[i])}
<1>1. /\ clauses \in Seq(PyClauseForms) /\ join \in {"And", "Or"}
      /\ d = [clauses |-> clauses, join |-> join]
  BY DEF PyDeps
<1>2. t = Join(texts, s)
  BY DEF DependencyText
<1>3. DependencyAccepted(d) <=> clauses # <<>> /\ \A i \in DOMAIN clauses : ClauseAccepted(clauses[i])
  BY DEF DependencyAccepted
<1>4. CanonicalDependency(d) = [clauses |-> clauses, join |-> IF n = 1 THEN "And" ELSE join]
  BY <1>1 DEF CanonicalDependency
<1> HIDE DEF clauses, join
<1>5. n \in Nat /\ DOMAIN clauses = 1..n /\ \A i \in 1..n : clauses[i] \in PyClauseForms
  BY <1>1, LenProperties, ElementOfSeq
<1>6. CASE n = 0
  <2>1. DOMAIN d.clauses = {} /\ clauses = <<>>
    <3>1. DOMAIN clauses = {} /\ clauses = <<>>
      BY <1>1, <1>5, <1>6, EmptySeq
    <3> QED
      BY <3>1 DEF clauses
  <2> QED
    BY <1>3, <2>1, NoDependency
<1>7. CASE n # 0
  <2>1. /\ texts = [i \in 1..n |-> texts[i]] /\ DOMAIN texts = 1..n
        /\ \A i \in 1..n : texts[i] = ClauseText(clauses[i])
    BY <1>5
  <2> HIDE DEF texts
  <2>2. \A i \in 1..n :
            /\ texts[i] \in Seq(ClauseLexemes)
            /\ ParseClause(texts[i]) = IF ClauseAccepted(clauses[i]) THEN {clauses[i]} ELSE {}
    BY <1>5, <2>1, ClauseIsRead
  <2>3. /\ s \in {",", "?"} /\ other \in {",", "?"} /\ s # other
        /\ s = "?" <=> join = "Or"
    BY <1>1 DEF JoinSign
  <2>4. \A a, b : Sign(a) = Sign(b) => a = b
    BY DEF Sign
  <2>5. Sign(s) \notin ClauseLexemes /\ Sign(other) \notin T
    BY <2>3, <2>4, DependencySigns
  <2>6. ClauseLexemes \subseteq T /\ Sign(s) \in T
    OBVIOUS
  <2> HIDE DEF T, s, other
  <2>7. \A i \in 1..n : texts[i] \in Seq(T) /\ Sign(s) \notin ToSet(texts[i])
    <3> TAKE i \in 1..n
    <3>1. texts[i] \in Seq(ClauseLexemes)
      BY <2>2
    <3> DEFINE u == texts[i]
    <3> HIDE DEF u
    <3>2. u \in Seq(ClauseLexemes)
      BY <3>1 DEF u
    <3>3. u \in Seq(T) /\ ToSet(u) \subseteq ClauseLexemes
      BY <2>6, <3>2, LexemesIn
    <3> QED
      BY <2>5, <3>3 DEF u
  <2>8. t \in Seq(T) /\ Split(t, s) = texts
    <3>1. n \in Nat \ {0}
      BY <1>5, <1>7
    <3> HIDE DEF t, n
    <3>2. Join(texts, s) \in Seq(T) /\ Split(Join(texts, s), s) = texts
      BY <2>1, <2>6, <2>7, <3>1, JoinedParts
    <3> QED
      BY <1>2, <3>2
  <2> HIDE DEF t
  <2>9. Sign(other) \notin ToSet(t)
    <3>1. ToSet(t) \subseteq T
      BY <2>8, LexemesIn
    <3> QED
      BY <2>5, <3>1
  <2> DEFINE join2 == IF n = 1 THEN "And" ELSE join
  <2>10. ASSUME Sign(s) \in ToSet(t)
         PROVE  ParseDependency(t) = DepsOf(texts, join2)
    <3>1. n # 1
      BY <1>5, <2>1, <2>8, <2>10, SplitSeveral
    <3>2. JoinOf(t) = join
      <4>1. CASE join = "Or"
        BY <2>3, <2>10, <4>1 DEF JoinOf
      <4>2. CASE join = "And"
        <5>1. s = "," /\ other = "?"
          BY <2>3, <4>2
        <5> QED
          BY <2>9, <4>2, <5>1 DEF JoinOf
      <4> QED
        BY <1>1, <4>1, <4>2
    <3>3. ParseDependency(t) = DepsOf(Split(t, s), join)
      <4>1. ~(Sign(",") \in ToSet(t) /\ Sign("?") \in ToSet(t))
        BY <2>3, <2>9
      <4>2. JoinSign(join) = s
        BY DEF s
      <4> QED
        BY <2>8, <3>2, <4>1, <4>2, DependencyForms
    <3> QED
      BY <2>8, <3>1, <3>3
  <2>11. ASSUME Sign(s) \notin ToSet(t)
         PROVE  ParseDependency(t) = DepsOf(texts, join2)
    <3>1. Split(t, s) = <<t>> /\ Split(t, ",") = <<t>>
      <4>1. Sign(",") \notin ToSet(t)
        BY <2>3, <2>9, <2>11
      <4> QED
        BY <2>8, <2>11, <4>1, SplitOne
    <3>2. n = 1
      <4>1. DOMAIN <<t>> = 1..1
        OBVIOUS
      <4>2. 1..1 = 1..n
        BY <2>1, <2>8, <3>1, <4>1
      <4>3. n \in 1..n
        BY <1>5, <1>7
      <4>4. n \in 1..1
        BY <4>2, <4>3
      <4> QED
        BY <4>4
    <3>3. Sign("?") \notin ToSet(t)
      BY <2>3, <2>9, <2>11
    <3>4. ParseDependency(t) = DepsOf(Split(t, ","), "And")
      BY <2>8, <3>3, DependencyForms DEF JoinOf, JoinSign
    <3> QED
      BY <2>8, <3>1, <3>2, <3>4
  <2>12. ParseDependency(t) = DepsOf(texts, join2)
    BY <2>10, <2>11
  <2> DEFINE options == [i \in DOMAIN texts |-> ParseClause(texts[i])]
  <2>13. DOMAIN options = 1..n /\ \A i \in 1..n : options[i] = ParseClause(texts[i])
    BY <2>1
  <2>14. DepsOf(texts, join2) = [clauses : Collect(options), join : {join2}]
    BY DEF DepsOf
  <2> HIDE DEF options, join2
  <2>15. \A i \in 1..n : options[i] = IF i \in good THEN {clauses[i]} ELSE {}
    BY <2>2, <2>13
  <2>16. 1..n \subseteq good <=> \A i \in DOMAIN clauses : ClauseAccepted(clauses[i])
    BY <1>5
  <2> HIDE DEF good
  <2>17. Collect(options) = IF 1..n \subseteq good THEN {clauses} ELSE {}
    BY <1>1, <2>13, <2>15, CollectAccepts DEF n
  <2>18. clauses # <<>>
    BY <1>1, <1>7, EmptySeq
  <2>19. CASE 1..n \subseteq good
    <3>1. ParseDependency(t) = {[clauses |-> clauses, join |-> join2]}
      BY <2>12, <2>14, <2>17, <2>19, OneDependency
    <3> QED
      BY <1>3, <1>4, <2>16, <2>18, <2>19, <3>1 DEF join2, t
  <2>20. CASE ~(1..n \subseteq good)
    <3>1. ParseDependency(t) = {}
      BY <2>12, <2>14, <2>17, <2>20, OneDependency
    <3> QED
      BY <1>3, <2>16, <2>20, <3>1 DEF t
  <2> QED
    BY <2>19, <2>20
<1> QED
  BY <1>6, <1>7

LEMMA DependencyIsForm ==
    ASSUME NEW T, NEW t \in Seq(T), NEW d \in ParseDependency(t)
    PROVE  d \in PyDeps /\ DependencyAccepted(d) /\ CanonicalDependency(d) = d
<1> DEFINE join == JoinOf(t)
           parts == Split(t, JoinSign(join))
           options == [i \in DOMAIN parts |-> ParseClause(parts[i])]
           clauses == d.clauses
<1>1. d \in DepsOf(parts, join)
  BY DependencyForms
<1>2. PICK n \in Nat \ {0} : DOMAIN parts = 1..n /\ \A i \in 1..n : parts[i] \in Seq(T)
  BY SplitLen
<1>3. join = "Or" => n # 1
  <2> SUFFICES ASSUME join = "Or"
               PROVE  n # 1
    OBVIOUS
  <2>1. Sign("?") \in ToSet(t) /\ JoinSign(join) = "?"
    BY DEF JoinOf, JoinSign
  <2> QED
    BY <1>2, <2>1, SplitSeveral
<1>4. join \in {"And", "Or"}
  BY DEF JoinOf
<1> HIDE DEF parts, join
<1>5. clauses \in Collect(options) /\ d = [clauses |-> clauses, join |-> join]
  BY <1>1 DEF DepsOf
<1> HIDE DEF clauses
<1>6. DOMAIN options = 1..n /\ \A i \in 1..n : options[i] = ParseClause(parts[i])
  BY <1>2
<1> HIDE DEF options
<1>7. \A i \in 1..n : \A c \in options[i] : c \in PyClauseForms /\ ClauseAccepted(c)
  BY <1>2, <1>6, ClauseIsForm
<1>8. \A i \in 1..n : options[i] \subseteq PyClauseForms
  BY <1>7
<1>9. /\ clauses \in Seq(PyClauseForms) /\ DOMAIN clauses = 1..n /\ Len(clauses) = n
      /\ \A i \in 1..n : clauses[i] \in options[i]
  BY <1>2, <1>5, <1>6, <1>8, Collected
<1>10. clauses # <<>>
  <2>1. n # 0
    BY <1>2
  <2> QED
    BY <1>9, <2>1, EmptySeq
<1>11. \A i \in DOMAIN clauses : ClauseAccepted(clauses[i])
  BY <1>7, <1>9
<1>12. d.clauses = clauses /\ d.join = join
  BY <1>5
<1>13. CanonicalDependency(d) = d
  <2>1. CASE n = 1
    <3>1. join = "And"
      BY <1>3, <1>4, <2>1
    <3> QED
      BY <1>5, <3>1 DEF CanonicalDependency
  <2>2. CASE n # 1
    BY <1>9, <1>12, <2>2 DEF CanonicalDependency
  <2> QED
    BY <2>1, <2>2
<1>14. d \in PyDeps
  BY <1>4, <1>5, <1>9 DEF PyDeps
<1>15. DependencyAccepted(d)
  BY <1>10, <1>11, <1>12 DEF DependencyAccepted
<1> QED
  BY <1>13, <1>14, <1>15

-----------------------------------------------------------------------------
(* Resources. *)

ResourceKeys == CpuKeys \cup {"g"}

PyValues(k) ==
    IF k = "m" THEN {Memory(n, u) : n \in 1..MaxU32, u \in MemoryUnit} ELSE 1..MaxU32

\* The specs that Python builds.
ResourceForm(spec) ==
    /\ spec = [k \in ResourceKeys |-> spec[k]]
    /\ \A k \in ResourceKeys : spec[k] = {} \/ \E v \in PyValues(k) : spec[k] = {v}
    /\ spec["g"] = {} \/ \A k \in CpuKeys : spec[k] = {}

KeySigns == {Sign(k) : k \in ResourceKeys \cup MemoryUnit \cup {"="}}

ResourceLexemes == KeySigns \cup {Number(n) : n \in Nat}

LEMMA ResourceSigns ==
    /\ \A k \in ResourceKeys : Sign(k) \in ResourceLexemes /\ Sign(k) # Sign("=")
    /\ \A u \in MemoryUnit : Sign(u) \in ResourceLexemes
    /\ \A n \in Nat : Number(n) \in ResourceLexemes
    /\ Sign("=") \in ResourceLexemes /\ Sign(":") \notin ResourceLexemes
    /\ \A a, b : Sign(a) = Sign(b) => a = b
<1>1. \A a, b : Sign(a) = Sign(b) => a = b
  BY DEF Sign
<1>2. \A n, c : Number(n) = Sign(c) => c = "number"
  BY DEF Number, Sign
<1>3. \A k \in ResourceKeys \cup MemoryUnit \cup {"="} : k # ":"
  BY DEF ResourceKeys, CpuKeys, MemoryUnit
<1>4. \A k \in ResourceKeys : k # "="
  BY DEF ResourceKeys, CpuKeys
<1>5. Sign(":") \notin ResourceLexemes
  <2>1. Sign(":") \notin KeySigns
    BY <1>1, <1>3 DEF KeySigns
  <2>2. \A n : Number(n) # Sign(":")
    BY <1>2
  <2> QED
    BY <2>1, <2>2 DEF ResourceLexemes
<1>6. \A k \in ResourceKeys \cup MemoryUnit \cup {"="} : Sign(k) \in ResourceLexemes
  BY DEF ResourceLexemes, KeySigns
<1>7. \A n \in Nat : Number(n) \in ResourceLexemes
  BY DEF ResourceLexemes
<1> QED
  BY <1>1, <1>4, <1>5, <1>6, <1>7

\* Memory is a number and its unit, or a number alone.
LEMMA MemoryForms ==
    /\ \A n, u : u # "number" =>
          ParseMemory(<<Number(n), Sign(u)>>) =
              {Memory(m, v) : m \in NonZeroU32(Dec(n)), v \in {w \in MemoryUnit : Sign(u) = Sign(w)}}
    /\ \A n, u : MemoryText(Memory(n, u)) = <<Number(n), Sign(u)>>
<1>1. ASSUME NEW n, NEW u, u # "number"
      PROVE  ParseMemory(<<Number(n), Sign(u)>>) =
              {Memory(m, v) : m \in NonZeroU32(Dec(n)), v \in {w \in MemoryUnit : Sign(u) = Sign(w)}}
  <2> DEFINE a == Number(n)
             b == Sign(u)
             t == <<a, b>>
  <2>1. b.is # "number"
    BY <1>1 DEF Sign
  <2> HIDE DEF a, b
  <2>2. t # <<>> /\ Last(t) = b
    BY DEF Last
  <2>3. Front(t) = <<a>>
    BY FrontOfTwo
  <2> HIDE DEF t
  <2>4. ParseMemory(t) = {Memory(m, v) : m \in NonZeroU32(Front(t)), v \in {w \in MemoryUnit : Last(t) = Sign(w)}}
    BY <2>1, <2>2 DEF ParseMemory
  <2>5. <<a>> = Dec(n)
    BY DEF Dec, a
  <2> QED
    BY <2>2, <2>3, <2>4, <2>5 DEF t, a, b
<1>2. ASSUME NEW n, NEW u
      PROVE  MemoryText(Memory(n, u)) = <<Number(n), Sign(u)>>
  BY OneAndOne DEF MemoryText, Memory, Dec, Lit
<1> QED
  BY <1>1, <1>2

LEMMA ValueIsRead ==
    ASSUME NEW k \in ResourceKeys, NEW v \in PyValues(k)
    PROVE  /\ ValueText(k, v) \in Seq(ResourceLexemes)
           /\ ParseValue(k, ValueText(k, v)) = {v}
<1>1. \A n \in 1..MaxU32 : n \in Nat /\ n \in 0..MaxU32 /\ NonZeroU32(Dec(n)) = {n}
  <2> TAKE n \in 1..MaxU32
  <2>1. n \in Nat /\ n \in 0..MaxU32 /\ n # 0
    BY TextAssumption
  <2>2. U32(Dec(n)) = {n}
    BY <2>1, DecIsRead DEF U32
  <2> QED
    BY <2>1, <2>2 DEF NonZeroU32
<1>2. \A n \in 1..MaxU32 : Dec(n) \in Seq(ResourceLexemes)
  BY <1>1, ResourceSigns, OneLexeme, Zenon DEF Dec
<1>3. CASE k = "m"
  <2>1. PICK n \in 1..MaxU32, u \in MemoryUnit : v = Memory(n, u)
    BY <1>3 DEF PyValues
  <2>2. u # "number"
    BY DEF MemoryUnit
  <2>3. ValueText(k, v) = <<Number(n), Sign(u)>>
    BY <1>3, <2>1, MemoryForms DEF ValueText
  <2>4. Number(n) \in ResourceLexemes /\ Sign(u) \in ResourceLexemes
    BY <1>1, ResourceSigns
  <2>5. <<Number(n), Sign(u)>> \in Seq(ResourceLexemes)
    BY <2>4
  <2>6. ParseValue(k, ValueText(k, v)) =
            {Memory(m, w) : m \in NonZeroU32(Dec(n)), w \in {x \in MemoryUnit : Sign(u) = Sign(x)}}
    BY <1>3, <2>2, <2>3, MemoryForms DEF ParseValue
  <2>7. NonZeroU32(Dec(n)) = {n} /\ {x \in MemoryUnit : Sign(u) = Sign(x)} = {u}
    BY <1>1, ResourceSigns
  <2>8. {Memory(m, w) : m \in {n}, w \in {u}} = {v}
    BY <2>1
  <2> QED
    BY <2>3, <2>5, <2>6, <2>7, <2>8
<1>4. CASE k # "m"
  <2>1. v \in 1..MaxU32
    BY <1>4 DEF PyValues
  <2> QED
    BY <1>1, <1>2, <1>4, <2>1 DEF ValueText, ParseValue
<1> QED
  BY <1>3, <1>4

\* What is read as a value is one, and nothing is read as two.
LEMMA ValueIsForm ==
    ASSUME NEW k, NEW t
    PROVE  /\ ParseValue(k, t) \subseteq PyValues(k)
           /\ \A v, w \in ParseValue(k, t) : v = w
<1>1. \A u : NonZeroU32(u) \subseteq 1..MaxU32
  BY UnsignedIsBounded, TextAssumption DEF NonZeroU32
<1>2. \A u : \A x, y \in NonZeroU32(u) : x = y
  BY ReadIsOne DEF NonZeroU32, U32
<1>3. CASE k = "m"
  <2>1. \A v \in ParseMemory(t) :
            \/ Last(t).is = "number" /\ \E n \in NonZeroU32(t) : v = Memory(n, "M")
            \/ Last(t).is # "number" /\ \E n \in NonZeroU32(Front(t)), u \in MemoryUnit :
                                           Last(t) = Sign(u) /\ v = Memory(n, u)
    BY DEF ParseMemory
  <2>2. "M" \in MemoryUnit
    BY DEF MemoryUnit
  <2>3. \A v \in ParseMemory(t) : v \in PyValues("m")
    BY <1>1, <2>1, <2>2 DEF PyValues
  <2>4. \A v, w \in ParseMemory(t) : v = w
    BY <1>2, <2>1, ResourceSigns
  <2> QED
    BY <1>3, <2>3, <2>4 DEF ParseValue
<1>4. CASE k # "m"
  BY <1>1, <1>2, <1>4 DEF ParseValue, PyValues
<1> QED
  BY <1>3, <1>4

\* The keys that are given, one after the other.
GivenPlaces(spec) == {i \in 1..5 : spec[KeyOrder[i]] # {}}

KeyAt(spec, i) == KeyOrder[Nth(GivenPlaces(spec), i)]

LEMMA KeysInOrder ==
    /\ DOMAIN KeyOrder = 1..5
    /\ \A i \in 1..5 : KeyOrder[i] \in ResourceKeys
    /\ \A i, j \in 1..5 : KeyOrder[i] = KeyOrder[j] => i = j
    /\ \A k \in ResourceKeys : \E i \in 1..5 : KeyOrder[i] = k
<1>1. \A i : i \in 1..5 <=> i \in {1, 2, 3, 4, 5}
  OBVIOUS
<1>2. /\ KeyOrder[1] = "p" /\ KeyOrder[2] = "t" /\ KeyOrder[3] = "c" /\ KeyOrder[4] = "m"
      /\ KeyOrder[5] = "g"
  BY DEF KeyOrder
<1>3. DOMAIN KeyOrder = 1..5
  BY DEF KeyOrder
<1>4. ResourceKeys = {"p", "t", "c", "m", "g"}
  BY DEF ResourceKeys, CpuKeys
<1>5. \A i \in {1, 2, 3, 4, 5} : KeyOrder[i] \in ResourceKeys
  BY <1>2, <1>4
<1>6. \A i, j \in {1, 2, 3, 4, 5} : KeyOrder[i] = KeyOrder[j] => i = j
  BY <1>2
<1>7. \A k \in ResourceKeys : \E i \in {1, 2, 3, 4, 5} : KeyOrder[i] = k
  BY <1>2, <1>4
<1> QED
  BY <1>1, <1>3, <1>5, <1>6, <1>7

LEMMA KeysGiven ==
    ASSUME NEW spec
    PROVE  LET n == Cardinality(GivenPlaces(spec))
           IN  /\ n \in Nat
               /\ \A i \in 1..n : KeyAt(spec, i) \in ResourceKeys /\ spec[KeyAt(spec, i)] # {}
               /\ \A i, j \in 1..n : KeyAt(spec, i) = KeyAt(spec, j) => i = j
               /\ \A k \in ResourceKeys : spec[k] # {} => \E i \in 1..n : KeyAt(spec, i) = k
<1> DEFINE S == GivenPlaces(spec)
           n == Cardinality(S)
<1>1. S \in SUBSET Nat /\ S \subseteq 1..5
  BY DEF GivenPlaces
<1>2. IsFiniteSet(S) /\ n \in Nat
  <2>1. IsFiniteSet(1..5)
    <3>1. 1 \in Int /\ 5 \in Int
      OBVIOUS
    <3> QED
      BY <3>1, FS_Interval
  <2> HIDE DEF S
  <2> QED
    BY <1>1, <2>1, FS_Subset, FS_CardinalityType
<1>3. \A i \in S : spec[KeyOrder[i]] # {}
  BY DEF GivenPlaces
<1>4. \A i \in 1..5 : spec[KeyOrder[i]] # {} => i \in S
  BY DEF GivenPlaces
<1>5. \A i : KeyAt(spec, i) = KeyOrder[Nth(S, i)]
  BY DEF KeyAt
<1> HIDE DEF S
<1>6. \A i \in 1..n : Nth(S, i) \in S /\ Cardinality(Below(S, Nth(S, i))) = i - 1
  BY <1>1, <1>2, NthExists
<1> HIDE DEF n
<1>7. \A i \in 1..n : KeyAt(spec, i) \in ResourceKeys /\ spec[KeyAt(spec, i)] # {}
  <2> TAKE i \in 1..n
  <2> DEFINE j == Nth(S, i)
  <2>1. j \in S /\ KeyAt(spec, i) = KeyOrder[j]
    BY <1>5, <1>6
  <2> HIDE DEF j
  <2>2. j \in 1..5 /\ spec[KeyOrder[j]] # {}
    BY <1>1, <1>3, <2>1
  <2> QED
    BY <2>1, <2>2, KeysInOrder
<1>8. ASSUME NEW i \in 1..n, NEW j \in 1..n, KeyAt(spec, i) = KeyAt(spec, j)
      PROVE  i = j
  <2>1. Nth(S, i) = Nth(S, j)
    BY <1>1, <1>5, <1>6, <1>8, KeysInOrder
  <2>2. i - 1 = j - 1
    BY <1>6, <2>1
  <2> QED
    BY <1>2, <2>2
<1>9. ASSUME NEW k \in ResourceKeys, spec[k] # {}
      PROVE  \E i \in 1..n : KeyAt(spec, i) = k
  <2>1. PICK j \in 1..5 : KeyOrder[j] = k
    BY KeysInOrder
  <2>2. j \in S
    BY <1>4, <1>9, <2>1
  <2> DEFINE b == Cardinality(Below(S, j))
  <2>3. b \in 0..(n - 1)
    BY <1>1, <1>2, <2>2, BelowType DEF n
  <2>4. b = (b + 1) - 1 /\ b + 1 \in 1..n
    <3> HIDE DEF b
    <3> QED
      BY <1>2, <2>3
  <2>5. Nth(S, b + 1) = j
    BY <1>1, <1>2, <2>2, <2>4, NthIs
  <2> QED
    BY <1>5, <2>1, <2>4, <2>5
<1> QED
  BY <1>2, <1>7, <1>8, <1>9 DEF n, S

\* The tokens that use a key, and what is read behind it.
UsesOf(tokens, k) == {i \in DOMAIN tokens : SplitOnce(tokens[i], "=")[1] = Lit(k)}

ReadBehind(tokens, k) ==
    UNION {ParseValue(k, Last(SplitOnce(tokens[i], "="))) : i \in UsesOf(tokens, k)}

LEMMA KeysOfNone == DOMAIN NoResources = ResourceKeys
BY DEF NoResources, ResourceKeys

LEMMA TokenForms ==
    ASSUME NEW tokens
    PROVE  ParseTokens(tokens) =
               IF \/ \E i \in DOMAIN tokens : Len(SplitOnce(tokens[i], "=")) = 1
                  \/ UNION {UsesOf(tokens, k) : k \in ResourceKeys} # DOMAIN tokens
                  \/ \E k \in ResourceKeys :
                        \/ Cardinality(UsesOf(tokens, k)) > 1
                        \/ UsesOf(tokens, k) # {} /\ ReadBehind(tokens, k) = {}
               THEN {} ELSE {[k \in ResourceKeys |-> ReadBehind(tokens, k)]}
BY KeysOfNone DEF ParseTokens, UsesOf, ReadBehind

\* The loop over the key=value tokens, one for each key that is given.
LEMMA TokensAreRead ==
    ASSUME NEW spec, ResourceForm(spec), NEW n, n = Cardinality(GivenPlaces(spec)),
           NEW tokens, DOMAIN tokens = 1..n,
           \A i \in 1..n : \E x :
               /\ SplitOnce(tokens[i], "=") = <<Lit(KeyAt(spec, i)), x>>
               /\ ParseValue(KeyAt(spec, i), x) = spec[KeyAt(spec, i)]
    PROVE  ParseTokens(tokens) = {spec}
<1>1. \A i \in 1..n :
          LET parts == SplitOnce(tokens[i], "=") IN
          /\ Len(parts) # 1 /\ parts[1] = Lit(KeyAt(spec, i))
          /\ ParseValue(KeyAt(spec, i), Last(parts)) = spec[KeyAt(spec, i)]
  <2> TAKE i \in 1..n
  <2> DEFINE k == KeyAt(spec, i)
             parts == SplitOnce(tokens[i], "=")
             a == Lit(k)
  <2>1. PICK x : parts = <<a, x>> /\ ParseValue(k, x) = spec[k]
    OBVIOUS
  <2> HIDE DEF k, parts, a
  <2>2. Len(parts) = 2 /\ parts[1] = a /\ parts[2] = x
    BY <2>1
  <2>3. Last(parts) = x
    BY <2>2 DEF Last
  <2>4. Len(parts) # 1 /\ parts[1] = a /\ ParseValue(k, Last(parts)) = spec[k]
    BY <2>1, <2>2, <2>3
  <2> QED
    BY <2>4 DEF k, parts, a
<1>2. /\ n \in Nat
      /\ \A i \in 1..n : KeyAt(spec, i) \in ResourceKeys /\ spec[KeyAt(spec, i)] # {}
      /\ \A i, j \in 1..n : KeyAt(spec, i) = KeyAt(spec, j) => i = j
      /\ \A k \in ResourceKeys : spec[k] # {} => \E i \in 1..n : KeyAt(spec, i) = k
  BY KeysGiven
<1>3. \A a, b : Lit(a) = Lit(b) <=> a = b
  BY DEF Lit, Sign
<1>4. \A k : UsesOf(tokens, k) = {i \in 1..n : KeyAt(spec, i) = k}
  <2> TAKE k
  <2>1. \A i \in 1..n : SplitOnce(tokens[i], "=")[1] = Lit(k) <=> KeyAt(spec, i) = k
    BY <1>1, <1>3
  <2> QED
    BY <2>1 DEF UsesOf
<1>5. ASSUME NEW k \in ResourceKeys, spec[k] # {}
      PROVE  \E i \in 1..n : /\ KeyAt(spec, i) = k /\ UsesOf(tokens, k) = {i}
                             /\ ReadBehind(tokens, k) = spec[k]
  <2>1. PICK i \in 1..n : KeyAt(spec, i) = k
    BY <1>2, <1>5
  <2>2. UsesOf(tokens, k) = {i}
    BY <1>2, <1>4, <2>1
  <2>3. ReadBehind(tokens, k) = spec[k]
    <3>1. ReadBehind(tokens, k) = UNION {ParseValue(k, Last(SplitOnce(tokens[j], "="))) : j \in {i}}
      BY <2>2 DEF ReadBehind
    <3>2. ParseValue(k, Last(SplitOnce(tokens[i], "="))) = spec[k]
      BY <1>1, <2>1
    <3> QED
      BY <3>1, <3>2
  <2> QED
    BY <2>1, <2>2, <2>3
<1>6. ASSUME NEW k \in ResourceKeys, spec[k] = {}
      PROVE  UsesOf(tokens, k) = {} /\ ReadBehind(tokens, k) = {}
  <2>1. UsesOf(tokens, k) = {}
    BY <1>2, <1>4, <1>6
  <2> QED
    BY <2>1 DEF ReadBehind
<1>7. \A i : Cardinality({i}) = 1
  BY FS_Singleton
<1>8. Cardinality({}) = 0
  BY FS_EmptySet
<1>9. \A k \in ResourceKeys : /\ ~(Cardinality(UsesOf(tokens, k)) > 1)
                              /\ UsesOf(tokens, k) # {} => ReadBehind(tokens, k) # {}
  <2> TAKE k \in ResourceKeys
  <2>1. CASE spec[k] = {}
    <3>1. UsesOf(tokens, k) = {}
      BY <1>6, <2>1
    <3>2. Cardinality(UsesOf(tokens, k)) = 0
      BY <1>8, <3>1
    <3> QED
      BY <3>1, <3>2
  <2>2. CASE spec[k] # {}
    <3>1. PICK i \in 1..n : UsesOf(tokens, k) = {i} /\ ReadBehind(tokens, k) = spec[k]
      BY <1>5, <2>2
    <3>2. Cardinality(UsesOf(tokens, k)) = 1
      BY <1>7, <3>1
    <3> QED
      BY <2>2, <3>1, <3>2
  <2> QED
    BY <2>1, <2>2
<1>10. UNION {UsesOf(tokens, k) : k \in ResourceKeys} = DOMAIN tokens
  <2>1. \A k : UsesOf(tokens, k) \subseteq 1..n
    BY <1>4
  <2>2. \A i \in 1..n : i \in UsesOf(tokens, KeyAt(spec, i)) /\ KeyAt(spec, i) \in ResourceKeys
    BY <1>2, <1>4
  <2> QED
    BY <2>1, <2>2
<1>11. [k \in ResourceKeys |-> ReadBehind(tokens, k)] = spec
  <2>1. \A k \in ResourceKeys : ReadBehind(tokens, k) = spec[k]
    BY <1>5, <1>6
  <2>2. spec = [k \in ResourceKeys |-> spec[k]]
    BY DEF ResourceForm
  <2> QED
    BY <2>1, <2>2
<1>12. \A i \in DOMAIN tokens : Len(SplitOnce(tokens[i], "=")) # 1
  BY <1>1
<1> QED
  BY <1>9, <1>10, <1>11, <1>12, TokenForms

TokenText(k, v) == Lit(k) \o (Lit("=") \o ValueText(k, v))

LEMMA TokenIsRead ==
    ASSUME NEW k \in ResourceKeys, NEW v \in PyValues(k)
    PROVE  /\ TokenText(k, v) \in Seq(ResourceLexemes)
           /\ SplitOnce(TokenText(k, v), "=") = <<Lit(k), ValueText(k, v)>>
<1>1. Lit(k) \in Seq(ResourceLexemes) /\ Sign("=") \notin ToSet(Lit(k))
  <2>1. Sign(k) \in ResourceLexemes /\ Sign(k) # Sign("=")
    BY ResourceSigns
  <2>2. Lit(k) \in Seq(ResourceLexemes) /\ ToSet(Lit(k)) = {Sign(k)}
    BY <2>1, OneLexeme, Zenon DEF Lit
  <2> QED
    BY <2>1, <2>2
<1>2. Sign("=") \in ResourceLexemes
  BY ResourceSigns
<1>3. ValueText(k, v) \in Seq(ResourceLexemes)
  BY ValueIsRead
<1> DEFINE a == Lit(k)
           b == ValueText(k, v)
<1> HIDE DEF a, b
<1>4. a \in Seq(ResourceLexemes) /\ Sign("=") \notin ToSet(a) /\ b \in Seq(ResourceLexemes)
  BY <1>1, <1>3 DEF a, b
<1>5. /\ a \o (Lit("=") \o b) \in Seq(ResourceLexemes)
      /\ SplitOnce(a \o (Lit("=") \o b), "=") = <<a, b>>
  BY <1>2, <1>4, BetweenAt, SplitOnceAt
<1> QED
  BY <1>5 DEF TokenText, a, b

\* A resource spec, in the order of its keys, unless it gives none (Display and FromStr
\* of ResourceSpec).
LEMMA ResourcesAreRead ==
    ASSUME NEW spec, ResourceForm(spec)
    PROVE  ParseResourceSpec(ResourceText(spec)) = IF Given(spec) = {} THEN {} ELSE {spec}
<1> DEFINE n == Cardinality(GivenPlaces(spec))
           texts == [i \in 1..n |-> TokenText(KeyAt(spec, i), CHOOSE v \in spec[KeyAt(spec, i)] : TRUE)]
           t == ResourceText(spec)
           T == ResourceLexemes \cup {Sign(":")}
<1>1. t = Join(texts, ":")
  BY KeysInOrder DEF ResourceText, TokenText, KeyAt, GivenPlaces
<1>2. /\ n \in Nat
      /\ \A i \in 1..n : KeyAt(spec, i) \in ResourceKeys /\ spec[KeyAt(spec, i)] # {}
      /\ \A k \in ResourceKeys : spec[k] # {} => \E i \in 1..n : KeyAt(spec, i) = k
  BY KeysGiven
<1>3. DOMAIN spec = ResourceKeys
  BY DEF ResourceForm
<1>4. n = 0 <=> Given(spec) = {}
  <2> HIDE DEF n
  <2>1. \A k : k \in Given(spec) <=> k \in ResourceKeys /\ spec[k] # {}
    BY <1>3 DEF Given
  <2>2. ASSUME n = 0 PROVE Given(spec) = {}
    BY <1>2, <2>1, <2>2
  <2>3. ASSUME n # 0 PROVE Given(spec) # {}
    <3>1. 1 \in 1..n
      BY <1>2, <2>3
    <3> QED
      BY <1>2, <2>1, <3>1
  <2> QED
    BY <2>2, <2>3
<1>5. ASSUME NEW i \in 1..n
      PROVE  \E v \in PyValues(KeyAt(spec, i)) :
                spec[KeyAt(spec, i)] = {v} /\ texts[i] = TokenText(KeyAt(spec, i), v)
  <2> DEFINE k == KeyAt(spec, i)
  <2>1. k \in ResourceKeys /\ spec[k] # {}
    BY <1>2
  <2>2. texts[i] = TokenText(k, CHOOSE v \in spec[k] : TRUE)
    OBVIOUS
  <2> HIDE DEF k, texts
  <2>3. PICK v \in PyValues(k) : spec[k] = {v}
    BY <2>1 DEF ResourceForm
  <2>4. (CHOOSE w \in spec[k] : TRUE) = v
    BY <2>3
  <2> QED
    BY <2>2, <2>3, <2>4 DEF k
<1>6. DOMAIN texts = 1..n /\ texts = [i \in 1..n |-> texts[i]]
  OBVIOUS
<1> HIDE DEF n, texts
<1>7. \A i \in 1..n :
          /\ texts[i] \in Seq(ResourceLexemes)
          /\ \E x : /\ SplitOnce(texts[i], "=") = <<Lit(KeyAt(spec, i)), x>>
                    /\ ParseValue(KeyAt(spec, i), x) = spec[KeyAt(spec, i)]
  <2> TAKE i \in 1..n
  <2> DEFINE k == KeyAt(spec, i)
  <2>1. k \in ResourceKeys
    BY <1>2
  <2>2. PICK v \in PyValues(k) : spec[k] = {v} /\ texts[i] = TokenText(k, v)
    BY <1>5
  <2> HIDE DEF k
  <2>3. /\ texts[i] \in Seq(ResourceLexemes)
        /\ SplitOnce(texts[i], "=") = <<Lit(k), ValueText(k, v)>>
        /\ ParseValue(k, ValueText(k, v)) = spec[k]
    BY <2>1, <2>2, TokenIsRead, ValueIsRead
  <2> QED
    BY <2>3 DEF k
<1>8. ResourceLexemes \subseteq T /\ Sign(":") \in T
  OBVIOUS
<1> HIDE DEF T, t
<1>9. CASE n = 0
  <2>1. t = <<>>
    <3>1. DOMAIN texts = {}
      BY <1>6, <1>9
    <3> QED
      BY <1>1, <3>1, JoinNone
  <2>2. Split(t, ":") = <<<<>>>> /\ SplitOnce(<<>>, "=") = <<<<>>>>
    BY <2>1, SplitNone
  <2> DEFINE tokens == <<<<>>>>
  <2>3. 1 \in DOMAIN tokens /\ SplitOnce(tokens[1], "=") = <<<<>>>>
    BY <2>2
  <2>4. Len(<<<<>>>>) = 1
    OBVIOUS
  <2> HIDE DEF tokens
  <2>5. \E i \in DOMAIN tokens : Len(SplitOnce(tokens[i], "=")) = 1
    BY <2>3, <2>4
  <2>6. ParseTokens(tokens) = {}
    BY <2>5, TokenForms
  <2>7. ParseResourceSpec(t) = {}
    BY <2>2, <2>6 DEF ParseResourceSpec, tokens
  <2> QED
    BY <1>4, <1>9, <2>7 DEF t
<1>10. CASE n # 0
  <2>1. \A i \in 1..n : texts[i] \in Seq(T) /\ Sign(":") \notin ToSet(texts[i])
    <3> TAKE i \in 1..n
    <3> DEFINE u == texts[i]
    <3>1. u \in Seq(ResourceLexemes)
      BY <1>7
    <3> HIDE DEF u
    <3>2. u \in Seq(T) /\ ToSet(u) \subseteq ResourceLexemes
      BY <1>8, <3>1, LexemesIn
    <3> QED
      BY <3>2, ResourceSigns DEF u
  <2>2. Split(t, ":") = texts
    <3>1. n \in Nat \ {0}
      BY <1>2, <1>10
    <3>2. Split(Join(texts, ":"), ":") = texts
      BY <1>6, <1>8, <2>1, <3>1, JoinedParts
    <3> QED
      BY <1>1, <3>2
  <2>3. ParseTokens(texts) = {spec}
    <3>1. \A i \in 1..n : \E x : /\ SplitOnce(texts[i], "=") = <<Lit(KeyAt(spec, i)), x>>
                                 /\ ParseValue(KeyAt(spec, i), x) = spec[KeyAt(spec, i)]
      BY <1>7
    <3> QED
      BY <1>6, <3>1, TokensAreRead DEF n
  <2>4. Given(spec) = {"g"} \/ "g" \notin Given(spec)
    BY <1>3 DEF ResourceForm, ResourceKeys, Given
  <2>5. ParseResourceSpec(t) = {spec}
    BY <2>2, <2>3, <2>4 DEF ParseResourceSpec
  <2> QED
    BY <1>4, <1>10, <2>5 DEF t
<1> QED
  BY <1>9, <1>10

\* What the parser accepts is a spec that Python builds, with a key at least.
LEMMA ResourcesAreForm ==
    ASSUME NEW T, NEW t \in Seq(T), NEW spec \in ParseResourceSpec(t)
    PROVE  ResourceForm(spec) /\ Given(spec) # {}
<1> DEFINE tokens == Split(t, ":")
<1>1. PICK n \in Nat \ {0} : DOMAIN tokens = 1..n
  BY SplitParts
<1>2. spec \in ParseTokens(tokens) /\ (Given(spec) = {"g"} \/ "g" \notin Given(spec))
  BY DEF ParseResourceSpec
<1> HIDE DEF tokens
<1>3. /\ UNION {UsesOf(tokens, k) : k \in ResourceKeys} = DOMAIN tokens
      /\ \A k \in ResourceKeys : /\ ~(Cardinality(UsesOf(tokens, k)) > 1)
                                 /\ UsesOf(tokens, k) # {} => ReadBehind(tokens, k) # {}
      /\ spec = [k \in ResourceKeys |-> ReadBehind(tokens, k)]
  BY <1>2, TokenForms
<1>4. /\ DOMAIN spec = ResourceKeys /\ spec = [k \in ResourceKeys |-> spec[k]]
      /\ \A k \in ResourceKeys : spec[k] = ReadBehind(tokens, k)
  BY <1>3
<1>5. \A k : k \in Given(spec) <=> k \in ResourceKeys /\ spec[k] # {}
  BY <1>4 DEF Given
<1>6. Given(spec) # {}
  <2>1. 1 \in 1..n
    BY <1>1
  <2>2. PICK k \in ResourceKeys : 1 \in UsesOf(tokens, k)
    BY <1>1, <1>3, <2>1
  <2>3. spec[k] # {}
    BY <1>3, <1>4, <2>2
  <2> QED
    BY <1>5, <2>3
<1>7. ASSUME NEW k \in ResourceKeys, spec[k] # {}
      PROVE  \E v \in PyValues(k) : spec[k] = {v}
  <2> DEFINE S == UsesOf(tokens, k)
  <2>1. IsFiniteSet(S)
    <3>1. 1 \in Int /\ n \in Int
      BY <1>1
    <3>2. IsFiniteSet(1..n)
      BY <3>1, FS_Interval
    <3>3. S \subseteq 1..n
      BY <1>1 DEF UsesOf
    <3> QED
      BY <3>2, <3>3, FS_Subset
  <2>2. spec[k] = UNION {ParseValue(k, Last(SplitOnce(tokens[i], "="))) : i \in S}
    BY <1>4 DEF ReadBehind
  <2>3. ~(Cardinality(S) > 1)
    BY <1>3
  <2> HIDE DEF S
  <2>4. PICK i \in S, v \in PyValues(k) : v \in ParseValue(k, Last(SplitOnce(tokens[i], "=")))
    BY <1>7, <2>2, ValueIsForm
  <2>5. \A j \in S : j = i
    BY <2>1, <2>3, AtMostOne
  <2>6. spec[k] = ParseValue(k, Last(SplitOnce(tokens[i], "=")))
    BY <2>2, <2>5
  <2>7. \A w \in spec[k] : w = v
    BY <2>4, <2>6, ValueIsForm
  <2>8. spec[k] = {v}
    BY <2>4, <2>6, <2>7
  <2> QED
    BY <2>8
<1>8. spec["g"] = {} \/ \A k \in CpuKeys : spec[k] = {}
  <2>1. "g" \in ResourceKeys /\ \A k \in CpuKeys : k \in ResourceKeys /\ k # "g"
    BY DEF ResourceKeys, CpuKeys
  <2> QED
    BY <1>2, <1>5, <2>1
<1>9. \A k \in ResourceKeys : spec[k] = {} \/ \E v \in PyValues(k) : spec[k] = {v}
  BY <1>7
<1> QED
  BY <1>4, <1>6, <1>8, <1>9 DEF ResourceForm

\* A spec is the empty one if no key is given.
LEMMA NothingGivenIsNone ==
    ASSUME NEW spec, ResourceForm(spec)
    PROVE  Given(spec) = {} <=> spec = NoResources
<1>1. spec = [k \in ResourceKeys |-> spec[k]] /\ DOMAIN spec = ResourceKeys
  BY DEF ResourceForm
<1>2. NoResources = [k \in ResourceKeys |-> {}]
  BY DEF NoResources, ResourceKeys
<1>3. Given(spec) = {} <=> \A k \in ResourceKeys : spec[k] = {}
  BY <1>1 DEF Given
<1>4. (\A k \in ResourceKeys : spec[k] = {}) => [k \in ResourceKeys |-> spec[k]] = [k \in ResourceKeys |-> {}]
  OBVIOUS
<1>5. spec = NoResources => \A k \in ResourceKeys : spec[k] = {}
  BY <1>2
<1> QED
  BY <1>1, <1>2, <1>3, <1>4, <1>5

\* Whichever way Python builds a spec anew from its parts, it is the same.
LEMMA ResourcesAreRebuilt ==
    ASSUME NEW spec, ResourceForm(spec)
    PROVE  /\ PyResourceSpec(spec) = {spec} /\ FromParts(spec) = {spec}
           /\ {OfCpu(c) : c \in PyCpuSpec(spec)}
                 \cup {OfGpu(g) : g \in UNION {PyGpu(n) : n \in PyGpuSpec(spec)}} = {spec}
           /\ \A p \in spec["p"], t \in spec["t"], c \in spec["c"], m \in spec["m"] :
                 {OfCpu(cpu) : cpu \in PyCpu(p, t, c, m)} = {spec}
<1>1. /\ spec = [k \in ResourceKeys |-> spec[k]] /\ DOMAIN spec = ResourceKeys
      /\ NoResources = [k \in ResourceKeys |-> {}] /\ DOMAIN NoResources = ResourceKeys
  BY DEF ResourceForm, NoResources, ResourceKeys
<1>2. \A k : k \in Given(spec) <=> k \in ResourceKeys /\ spec[k] # {}
  BY <1>1 DEF Given
<1>3. /\ ResourceKeys = {"p", "t", "c", "m", "g"} /\ CpuKeys = {"p", "t", "c", "m"}
      /\ Counts = {"p", "t", "c", "g"}
  BY DEF ResourceKeys, CpuKeys, Counts
<1>4. \A k \in Counts : spec[k] # {0} /\ \A v \in spec[k] : v # 0
  <2> TAKE k \in Counts
  <2>1. k \in ResourceKeys /\ k # "m"
    BY <1>3
  <2>2. spec[k] = {} \/ \E v \in 1..MaxU32 : spec[k] = {v}
    BY <2>1 DEF ResourceForm, PyValues
  <2>3. \A v \in 1..MaxU32 : v # 0
    OBVIOUS
  <2> QED
    BY <2>2, <2>3
<1>5. spec["g"] = {} \/ \A k \in CpuKeys : spec[k] = {}
  BY DEF ResourceForm
<1>6. spec["g"] # {} => Given(spec) \cap CpuKeys = {}
  BY <1>2, <1>5
<1>7. FromParts(spec) = {spec}
  BY <1>4, <1>6 DEF FromParts
<1>8. spec["g"] = {} => [spec EXCEPT !["g"] = {}] = spec
  <2> SUFFICES ASSUME spec["g"] = {}
               PROVE  [spec EXCEPT !["g"] = {}] = spec
    OBVIOUS
  <2>1. [spec EXCEPT !["g"] = {}] = [k \in ResourceKeys |-> IF k = "g" THEN {} ELSE spec[k]]
    BY <1>1
  <2>2. \A k \in ResourceKeys : (IF k = "g" THEN {} ELSE spec[k]) = spec[k]
    OBVIOUS
  <2>3. [k \in ResourceKeys |-> IF k = "g" THEN {} ELSE spec[k]] = [k \in ResourceKeys |-> spec[k]]
    BY <2>2
  <2> QED
    BY <1>1, <2>1, <2>3
<1>9. \A g : spec["g"] = g /\ g # {} => [NoResources EXCEPT !["g"] = g] = spec
  <2> SUFFICES ASSUME spec["g"] # {}
               PROVE  [NoResources EXCEPT !["g"] = spec["g"]] = spec
    OBVIOUS
  <2> DEFINE h == spec["g"]
             f == [NoResources EXCEPT !["g"] = h]
  <2>1. "g" \in ResourceKeys /\ \A k \in ResourceKeys : k # "g" => k \in CpuKeys
    BY <1>3
  <2>2. \A k \in CpuKeys : spec[k] = {}
    BY <1>5
  <2>3. \A k \in ResourceKeys : NoResources[k] = {}
    BY <1>1
  <2>4. DOMAIN f = ResourceKeys /\ \A k \in ResourceKeys : f[k] = IF k = "g" THEN h ELSE {}
    BY <1>1, <2>1, <2>3
  <2>5. f = [k \in ResourceKeys |-> f[k]]
    BY <1>1
  <2> HIDE DEF f
  <2>6. \A k \in ResourceKeys : f[k] = spec[k]
    BY <2>1, <2>2, <2>4
  <2>7. [k \in ResourceKeys |-> f[k]] = [k \in ResourceKeys |-> spec[k]]
    BY <2>6
  <2> QED
    BY <1>1, <2>5, <2>7 DEF f
<1>10. PyResourceSpec(spec) = {spec}
  <2> DEFINE zero == \E k \in Counts : spec[k] = {0}
             cpu == Given(spec) \cap CpuKeys # {}
  <2>1. ~zero /\ (spec["g"] # {} => ~cpu)
    BY <1>4, <1>6
  <2>2. PyResourceSpec(spec) =
            CASE zero -> {}
              [] ~zero /\ cpu /\ spec["g"] # {} -> {}
              [] ~zero /\ ~cpu /\ spec["g"] # {} -> {[NoResources EXCEPT !["g"] = spec["g"]]}
              [] ~zero /\ spec["g"] = {} -> {[spec EXCEPT !["g"] = {}]}
    BY DEF PyResourceSpec
  <2> HIDE DEF zero, cpu
  <2>3. CASE spec["g"] = {}
    BY <1>8, <2>1, <2>2, <2>3
  <2>4. CASE spec["g"] # {}
    BY <1>9, <2>1, <2>2, <2>4
  <2> QED
    BY <2>3, <2>4
<1> DEFINE cpus == {OfCpu(c) : c \in PyCpuSpec(spec)}
           gpus == {OfGpu(g) : g \in UNION {PyGpu(n) : n \in PyGpuSpec(spec)}}
<1>11. cpus \cup gpus = {spec}
  <2>1. CASE spec["g"] = {}
    <3>1. gpus = {}
      BY <2>1 DEF PyGpuSpec
    <3>2. PyCpuSpec(spec) = {[k \in CpuKeys |-> spec[k]]}
      BY <1>2, <2>1 DEF PyCpuSpec
    <3>3. OfCpu([k \in CpuKeys |-> spec[k]]) = spec
      <4>1. \A k \in ResourceKeys :
                (IF k = "g" THEN {} ELSE [j \in CpuKeys |-> spec[j]][k]) = spec[k]
        <5> TAKE k \in ResourceKeys
        <5>1. k # "g" => k \in CpuKeys
          BY <1>3
        <5> QED
          BY <2>1, <5>1
      <4>2. [k \in ResourceKeys |-> IF k = "g" THEN {} ELSE [j \in CpuKeys |-> spec[j]][k]] =
                [k \in ResourceKeys |-> spec[k]]
        BY <4>1
      <4> QED
        BY <1>1, <4>2 DEF OfCpu
    <3>4. cpus = {spec}
      BY <3>2, <3>3
    <3> QED
      BY <3>1, <3>4
  <2>2. CASE spec["g"] # {}
    <3>1. cpus = {}
      <4>1. "g" \in Given(spec)
        BY <1>2, <1>3, <2>2
      <4> QED
        BY <4>1 DEF PyCpuSpec
    <3>2. PICK g : spec["g"] = {g} /\ g # 0
      <4>1. "g" \in ResourceKeys /\ "g" \in Counts
        BY <1>3
      <4>2. PICK g : spec["g"] = {g}
        BY <2>2, <4>1 DEF ResourceForm
      <4> QED
        BY <1>4, <4>1, <4>2
    <3>3. UNION {PyGpu(n) : n \in PyGpuSpec(spec)} = {g}
      BY <3>2 DEF PyGpuSpec, PyGpu
    <3>4. OfGpu(g) = spec
      BY <1>9, <3>2 DEF OfGpu
    <3>5. gpus = {spec}
      BY <3>3, <3>4
    <3> QED
      BY <3>1, <3>5
  <2> QED
    BY <2>1, <2>2
<1>12. ASSUME NEW p \in spec["p"], NEW t \in spec["t"], NEW c \in spec["c"], NEW m \in spec["m"]
       PROVE  {OfCpu(cpu) : cpu \in PyCpu(p, t, c, m)} = {spec}
  <2> DEFINE r == [p |-> {p}, t |-> {t}, c |-> {c}, m |-> {m}]
  <2>1. 0 \notin {p, t, c}
    BY <1>3, <1>4
  <2>2. PyCpu(p, t, c, m) = {r}
    BY <2>1 DEF PyCpu
  <2>3. spec["g"] = {}
    BY <1>3, <1>5
  <2>4. spec["p"] = {p} /\ spec["t"] = {t} /\ spec["c"] = {c} /\ spec["m"] = {m}
    <3>1. \A k \in ResourceKeys : \A x \in spec[k] : spec[k] = {x}
      BY DEF ResourceForm
    <3> QED
      BY <1>3, <3>1
  <2>5. r["p"] = {p} /\ r["t"] = {t} /\ r["c"] = {c} /\ r["m"] = {m}
    OBVIOUS
  <2> HIDE DEF r
  <2>6. \A k \in ResourceKeys : (IF k = "g" THEN {} ELSE r[k]) = spec[k]
    BY <1>3, <2>3, <2>4, <2>5
  <2>7. [k \in ResourceKeys |-> IF k = "g" THEN {} ELSE r[k]] = [k \in ResourceKeys |-> spec[k]]
    BY <2>6
  <2>8. OfCpu(r) = spec
    BY <1>1, <2>7 DEF OfCpu
  <2> QED
    BY <2>2, <2>8
<1> QED
  BY <1>7, <1>10, <1>11, <1>12

-----------------------------------------------------------------------------
(* The lists of jobs and tasks that the caches read and write. *)

JobKeys ==
    {PlainKey(id) : id \in 0..MaxU64} \cup {ArrayTask(m, i) : m \in 0..MaxU64, i \in 0..MaxU32}

\* What a key is written with.
KeyLexemes == {Sign("_"), Sign(",")} \cup {Number(n) : n \in Nat}

\* The sign between a master and an index, by a name: the provers cannot spell it.
Underscore == "_"

\* What is read of a key, from the parts of its text.
KeysOf(t, parts) ==
    IF Len(parts) = 1 THEN {PlainKey(id) : id \in U64(t)}
    ELSE {ArrayTask(m, i) : m \in U64(parts[1]), i \in U32(parts[2])}

LEMMA KeyForms ==
    /\ \A t : ParseKey(t) = KeysOf(t, SplitOnce(t, Underscore))
    /\ \A k : KeyText(k) = Dec(k.id) \o (IF k.kind = "task" THEN Lit(Underscore) \o Dec(k.index) ELSE <<>>)
    /\ KeyLexemes = {Sign(Underscore), Sign(",")} \cup {Number(n) : n \in Nat}
    /\ Sign(Underscore) # Sign(",")
    /\ \A n : Number(n) # Sign(Underscore)
<1>1. \A t : ParseKey(t) = KeysOf(t, SplitOnce(t, Underscore))
  BY DEF ParseKey, KeysOf, Underscore
<1>2. \A k : KeyText(k) = Dec(k.id) \o (IF k.kind = "task" THEN Lit(Underscore) \o Dec(k.index) ELSE <<>>)
  BY DEF KeyText, Underscore
<1>3. KeyLexemes = {Sign(Underscore), Sign(",")} \cup {Number(n) : n \in Nat}
  BY DEF KeyLexemes, Underscore
<1>4. Underscore # "," /\ Underscore # "number"
  BY DEF Underscore
<1>5. Sign(Underscore) # Sign(",")
  BY <1>4 DEF Sign
<1>6. \A n : Number(n) # Sign(Underscore)
  BY <1>4 DEF Sign, Number
<1> QED
  BY <1>1, <1>2, <1>3, <1>5, <1>6

LEMMA KeysOfForms ==
    ASSUME NEW t, NEW parts
    PROVE  /\ Len(parts) = 1 => KeysOf(t, parts) = {PlainKey(id) : id \in U64(t)}
           /\ Len(parts) # 1 =>
                 KeysOf(t, parts) = {ArrayTask(m, i) : m \in U64(parts[1]), i \in U32(parts[2])}
BY DEF KeysOf

LEMMA ParsedKeys ==
    ASSUME NEW t
    PROVE  /\ ParseKey(t) \subseteq JobKeys
           /\ \A k, l \in ParseKey(t) : k = l
<1> DEFINE parts == SplitOnce(t, Underscore)
<1>1. \A x : U64(x) \subseteq 0..MaxU64 /\ U32(x) \subseteq 0..MaxU32
  BY DEF U64, U32, ParseUnsigned
<1>2. \A x : \A m, n \in U64(x) : m = n
  BY ReadIsOne DEF U64
<1>3. \A x : \A m, n \in U32(x) : m = n
  BY ReadIsOne DEF U32
<1>6. ParseKey(t) = KeysOf(t, parts)
  BY KeyForms
<1>4. CASE Len(parts) = 1
  <2>1. ParseKey(t) = {PlainKey(id) : id \in U64(t)}
    BY <1>4, <1>6, KeysOfForms
  <2> QED
    BY <1>1, <1>2, <2>1 DEF JobKeys
<1>5. CASE Len(parts) # 1
  <2> DEFINE ms == U64(parts[1])
             is == U32(parts[2])
  <2>1. ParseKey(t) = {ArrayTask(m, i) : m \in ms, i \in is}
    BY <1>5, <1>6, KeysOfForms
  <2>2. ms \subseteq 0..MaxU64 /\ is \subseteq 0..MaxU32
    BY <1>1
  <2>3. (\A m, n \in ms : m = n) /\ (\A m, n \in is : m = n)
    BY <1>2, <1>3
  <2> HIDE DEF ms, is
  <2>4. ParseKey(t) \subseteq JobKeys
    BY <2>1, <2>2 DEF JobKeys
  <2>5. \A k, l \in ParseKey(t) : k = l
    BY <2>1, <2>3
  <2> QED
    BY <2>4, <2>5
<1> QED
  BY <1>4, <1>5

LEMMA KeyIsRead ==
    ASSUME NEW k \in JobKeys
    PROVE  /\ KeyText(k) \in Seq(KeyLexemes) /\ Sign(",") \notin ToSet(KeyText(k))
           /\ ParseKey(KeyText(k)) = {k}
<1>1. /\ MaxU32 \in Nat /\ MaxU64 \in Nat
      /\ \A n : Number(n) # Sign(Underscore) /\ Number(n) # Sign(",")
      /\ Sign(Underscore) # Sign(",")
      /\ \A n \in Nat : Number(n) \in KeyLexemes
      /\ Sign(Underscore) \in KeyLexemes
  BY TextAssumption, KeyForms DEF Number, Sign
<1>2. \A n \in Nat : Dec(n) \in Seq(KeyLexemes) /\ ToSet(Dec(n)) = {Number(n)}
  BY <1>1, OneLexeme, Zenon DEF Dec
<1>3. CASE \E id \in 0..MaxU64 : k = PlainKey(id)
  <2>1. PICK id \in 0..MaxU64 : k = PlainKey(id)
    BY <1>3
  <2>2. id \in Nat
    BY TextAssumption
  <2> DEFINE t == Dec(id)
  <2>3. KeyText(k) = t
    <3>1. k.kind = "plain" /\ k.id = id
      BY <2>1 DEF PlainKey
    <3>2. KeyText(k) = t \o <<>>
      BY <3>1, KeyForms
    <3>3. t \in Seq(KeyLexemes)
      BY <1>2, <2>2
    <3> HIDE DEF t
    <3>4. t \o <<>> = t
      BY <3>3
    <3> QED
      BY <3>2, <3>4
  <2>4. t \in Seq(KeyLexemes) /\ Sign(Underscore) \notin ToSet(t) /\ Sign(",") \notin ToSet(t)
    BY <1>1, <1>2, <2>2
  <2>5. U64(t) = {id}
    BY DecIsRead DEF U64
  <2> HIDE DEF t
  <2>6. Len(SplitOnce(t, Underscore)) = 1
    <3>1. SplitOnce(t, Underscore) = <<t>>
      BY <2>4, SplitOnceNone
    <3>2. Len(<<t>>) = 1
      OBVIOUS
    <3> QED
      BY <3>1, <3>2
  <2>7. ParseKey(t) = {PlainKey(id)}
    <3>1. ParseKey(t) = {PlainKey(x) : x \in U64(t)}
      <4>1. ParseKey(t) = KeysOf(t, SplitOnce(t, Underscore))
        BY KeyForms
      <4> QED
        BY <2>6, <4>1, KeysOfForms
    <3> QED
      BY <2>5, <3>1
  <2> QED
    BY <2>1, <2>3, <2>4, <2>7
<1>4. CASE \E m \in 0..MaxU64, i \in 0..MaxU32 : k = ArrayTask(m, i)
  <2>1. PICK m \in 0..MaxU64, i \in 0..MaxU32 : k = ArrayTask(m, i)
    BY <1>4
  <2>2. m \in Nat /\ i \in Nat
    BY TextAssumption
  <2> DEFINE a == Dec(m)
             b == Dec(i)
             t == a \o (Lit(Underscore) \o b)
  <2>3. KeyText(k) = t
    BY <2>1, KeyForms DEF ArrayTask
  <2>4. /\ a \in Seq(KeyLexemes) /\ ToSet(a) = {Number(m)}
        /\ b \in Seq(KeyLexemes) /\ ToSet(b) = {Number(i)}
    BY <1>2, <2>2
  <2>5. U64(a) = {m} /\ U32(b) = {i}
    BY DecIsRead DEF U64, U32
  <2> HIDE DEF a, b
  <2>6. SplitOnce(t, Underscore) = <<a, b>>
    <3>1. Sign(Underscore) \in KeyLexemes /\ Sign(Underscore) \notin ToSet(a)
      BY <1>1, <2>4
    <3> QED
      BY <2>4, <3>1, SplitOnceAt
  <2>7. t \in Seq(KeyLexemes)
    BY <1>1, <2>4, WithBetween
  <2>8. Sign(",") \notin ToSet(t)
    <3>1. Lit(Underscore) \in Seq(KeyLexemes) /\ ToSet(Lit(Underscore)) = {Sign(Underscore)}
      BY <1>1, OneLexeme, Zenon DEF Lit
    <3> DEFINE v == Lit(Underscore) \o b
    <3>2. v \in Seq(KeyLexemes) /\ ToSet(v) = ToSet(Lit(Underscore)) \cup ToSet(b)
      BY <2>4, <3>1, ConcatIsBoth
    <3> HIDE DEF v
    <3>3. ToSet(a \o v) = ToSet(a) \cup ToSet(v)
      BY <2>4, <3>2, ConcatIsBoth
    <3> QED
      BY <1>1, <2>4, <3>1, <3>2, <3>3 DEF v
  <2> HIDE DEF t
  <2>9. ParseKey(t) = {ArrayTask(m, i)}
    <3>1. Len(<<a, b>>) # 1 /\ <<a, b>>[1] = a /\ <<a, b>>[2] = b
      OBVIOUS
    <3>2. ParseKey(t) = {ArrayTask(x, y) : x \in U64(SplitOnce(t, Underscore)[1]), y \in U32(SplitOnce(t, Underscore)[2])}
      <4>1. Len(SplitOnce(t, Underscore)) # 1
        BY <2>6, <3>1
      <4>2. ParseKey(t) = KeysOf(t, SplitOnce(t, Underscore))
        BY KeyForms
      <4> QED
        BY <4>1, <4>2, KeysOfForms
    <3>3. ParseKey(t) = {ArrayTask(x, y) : x \in U64(a), y \in U32(b)}
      BY <2>6, <3>1, <3>2
    <3> QED
      BY <2>5, <3>3
  <2> QED
    BY <2>1, <2>3, <2>7, <2>8, <2>9
<1>5. (\E id \in 0..MaxU64 : k = PlainKey(id)) \/ \E m \in 0..MaxU64, i \in 0..MaxU32 : k = ArrayTask(m, i)
  BY DEF JobKeys
<1> QED
  BY <1>3, <1>4, <1>5

\* A list that is read as keys is read part by part.
LEMMA ParsedCsv ==
    ASSUME NEW T, NEW t \in Seq(T), NEW keys \in ParseCsv(t)
    PROVE  /\ keys \in Seq(JobKeys) /\ keys # <<>>
           /\ DOMAIN keys = DOMAIN Split(t, ",") /\ Len(keys) = Len(Split(t, ","))
           /\ \A i \in DOMAIN keys : ParseKey(Split(t, ",")[i]) = {keys[i]}
<1> DEFINE parts == Split(t, ",")
           options == [i \in DOMAIN parts |-> ParseKey(parts[i])]
<1>1. PICK n \in Nat \ {0} : DOMAIN parts = 1..n
  BY SplitParts
<1>2. keys \in Collect(options)
  BY DEF ParseCsv
<1>3. DOMAIN options = 1..n /\ \A i \in 1..n : options[i] = ParseKey(parts[i])
  BY <1>1
<1> HIDE DEF options, parts
<1>4. /\ \A i \in 1..n : options[i] # {}
      /\ keys = [i \in 1..n |-> CHOOSE v \in options[i] : TRUE]
  BY <1>2, <1>3 DEF Collect
<1>5. \A i \in 1..n : keys[i] \in ParseKey(parts[i])
  BY <1>3, <1>4
<1>6. \A i \in 1..n : keys[i] \in JobKeys /\ ParseKey(parts[i]) = {keys[i]}
  BY <1>5, ParsedKeys
<1>7. DOMAIN keys = 1..n
  BY <1>4
<1>8. keys \in Seq(JobKeys)
  <2>1. keys \in [1..n -> JobKeys]
    BY <1>4, <1>6, <1>7
  <2> QED
    BY <2>1
<1>9. keys # <<>>
  <2>1. DOMAIN <<>> = {} /\ 1 \in 1..n
    OBVIOUS
  <2> QED
    BY <1>7, <2>1
<1>10. Len(keys) = Len(parts)
  <2>1. parts = [i \in 1..n |-> parts[i]]
    <3>1. parts = [i \in DOMAIN parts |-> parts[i]]
      BY DEF Split, parts
    <3> QED
      BY <1>1, <3>1
  <2>2. parts \in Seq({parts[i] : i \in 1..n})
    BY <2>1
  <2> QED
    BY <1>1, <1>7, <1>8, <2>2, LenProperties
<1> QED
  BY <1>1, <1>6, <1>7, <1>8, <1>9, <1>10 DEF parts

\* The list that a cache writes for keys is read as those keys.
LEMMA BuiltIsRead ==
    ASSUME NEW keys \in Seq(JobKeys), keys # <<>>
    PROVE  ParseCsv(BuildCsv(keys)) = {keys}
<1> DEFINE n == Len(keys)
           S == Seq(KeyLexemes)
           texts == [i \in DOMAIN keys |-> KeyText(keys[i])]
           t == BuildCsv(keys)
           options == [i \in DOMAIN texts |-> ParseKey(texts[i])]
<1>1. n \in Nat /\ n # 0 /\ DOMAIN keys = 1..n /\ \A i \in 1..n : keys[i] \in JobKeys
  BY LenProperties, EmptySeq, ElementOfSeq
<1>2. t = Join(texts, ",")
  BY DEF BuildCsv
<1>3. DOMAIN texts = 1..n /\ \A i \in 1..n : texts[i] = KeyText(keys[i])
  BY <1>1
<1>4. texts = [i \in 1..n |-> texts[i]]
  BY <1>1
<1> HIDE DEF t, texts, n, S
<1>5. \A i \in 1..n : /\ texts[i] \in S /\ Sign(",") \notin ToSet(texts[i])
                      /\ ParseKey(texts[i]) = {keys[i]}
  BY <1>1, <1>3, KeyIsRead DEF S
<1>6. texts \in Seq(S) /\ Len(texts) = n /\ texts # <<>>
  <2>1. texts \in [1..n -> S]
    BY <1>4, <1>5
  <2>2. texts \in Seq(S)
    BY <1>1, <2>1
  <2>3. Len(texts) = n
    BY <1>1, <1>3, <2>2, LenProperties
  <2> QED
    BY <1>1, <2>2, <2>3, EmptySeq
<1>7. Split(t, ",") = texts
  <2>1. Sign(",") \in KeyLexemes
    BY DEF KeyLexemes
  <2>2. texts \in Seq(Seq(KeyLexemes)) /\ \A i \in 1..Len(texts) : Sign(",") \notin ToSet(texts[i])
    BY <1>5, <1>6 DEF S
  <2> QED
    BY <1>2, <1>6, <2>1, <2>2, SplitJoin
<1>8. ParseCsv(t) = Collect(options)
  BY <1>7 DEF ParseCsv
<1>9. DOMAIN options = 1..n /\ \A i \in 1..n : options[i] = {keys[i]}
  BY <1>3, <1>5
<1> HIDE DEF options
<1>10. Collect(options) = {[i \in 1..n |-> CHOOSE v \in options[i] : TRUE]}
  BY <1>9 DEF Collect
<1>11. [i \in 1..n |-> CHOOSE v \in options[i] : TRUE] = [i \in 1..n |-> keys[i]]
  BY <1>9
<1>12. keys = [i \in 1..n |-> keys[i]]
  BY <1>1
<1> QED
  BY <1>8, <1>10, <1>11, <1>12 DEF t

-----------------------------------------------------------------------------
(* Command lines: what sbatch and tssrun read of them, word by word. *)

\* What is known of a command line after some words, and before its first option.
LineRead(open, values, rest) == [open |-> open, values |-> values, rest |-> rest]
NoWordRead == LineRead({}, {}, <<>>)

\* What is known after each of the first n words of one.
IsReading(after, argv, n) ==
    after = [i \in 1..n |-> IF i = 1 THEN NoWordRead ELSE ReadWord(after[i - 1], argv[i])]

\* Every command line can be read to its end.
LEMMA ReadingExists ==
    ASSUME NEW argv, NEW n \in Nat \ {0}
    PROVE  \E f : IsReading(f, argv, n)
<1> DEFINE bad == {k \in 1..n : ~ \E f : IsReading(f, argv, k)}
<1>1. bad = {}
  <2> SUFFICES ASSUME bad # {}
               PROVE  FALSE
    OBVIOUS
  <2>1. bad \in SUBSET Nat /\ bad \subseteq 1..n
    OBVIOUS
  <2>2. IsFiniteSet(bad)
    <3>1. IsFiniteSet(1..n)
      <4>1. 1 \in Int /\ n \in Int
        OBVIOUS
      <4> QED
        BY <4>1, FS_Interval
    <3> QED
      BY <2>1, <3>1, FS_Subset
  <2> HIDE DEF bad
  <2>3. PICK m \in bad : \A k \in bad : m <= k
    BY <2>1, <2>2, Smallest
  <2>4. m \in 1..n /\ ~ \E f : IsReading(f, argv, m)
    BY DEF bad
  <2>5. CASE m = 1
    <3> DEFINE f == [i \in 1..1 |-> NoWordRead]
    <3>1. f = [i \in 1..1 |-> IF i = 1 THEN NoWordRead ELSE ReadWord(f[i - 1], argv[i])]
      OBVIOUS
    <3>2. IsReading(f, argv, 1)
      BY <3>1 DEF IsReading
    <3> QED
      BY <2>4, <2>5, <3>2
  <2>6. CASE m # 1
    <3>1. m - 1 \in 1..n /\ ~(m <= m - 1)
      BY <2>4, <2>6
    <3>2. m - 1 \notin bad
      BY <2>3, <3>1
    <3>3. PICK g : IsReading(g, argv, m - 1)
      BY <3>1, <3>2 DEF bad
    <3> DEFINE f == [i \in 1..m |-> IF i = m THEN ReadWord(g[m - 1], argv[m]) ELSE g[i]]
    <3>4. \A i \in 1..(m - 1) : g[i] = IF i = 1 THEN NoWordRead ELSE ReadWord(g[i - 1], argv[i])
      BY <3>3 DEF IsReading
    <3>5. ASSUME NEW i \in 1..m
          PROVE  f[i] = IF i = 1 THEN NoWordRead ELSE ReadWord(f[i - 1], argv[i])
      <4>1. CASE i = m
        <5>1. m - 1 \in 1..m /\ m - 1 # m
          BY <2>4, <3>1
        <5>2. f[m - 1] = g[m - 1]
          BY <5>1
        <5>3. f[m] = ReadWord(g[m - 1], argv[m])
          BY <4>1
        <5> HIDE DEF f
        <5> QED
          BY <2>6, <4>1, <5>2, <5>3
      <4>2. CASE i # m
        <5>1. i \in 1..(m - 1)
          BY <2>4, <4>2
        <5>2. f[i] = g[i]
          BY <4>2
        <5>3. i # 1 => i - 1 \in 1..m /\ i - 1 # m
          BY <2>4, <5>1
        <5>4. i # 1 => f[i - 1] = g[i - 1]
          BY <5>3
        <5> HIDE DEF f
        <5> QED
          BY <3>4, <5>1, <5>2, <5>4
      <4> QED
        BY <4>1, <4>2
    <3>6. DOMAIN f = 1..m /\ f = [i \in 1..m |-> f[i]]
      OBVIOUS
    <3> HIDE DEF f
    <3>7. f = [i \in 1..m |-> IF i = 1 THEN NoWordRead ELSE ReadWord(f[i - 1], argv[i])]
      BY <3>5, <3>6
    <3>8. IsReading(f, argv, m)
      BY <3>7 DEF IsReading
    <3> QED
      BY <2>4, <3>8
  <2> QED
    BY <2>5, <2>6
<1>2. n \in 1..n
  OBVIOUS
<1> QED
  BY <1>1, <1>2, Zenon

\* Command lines that begin alike are read alike so far.
LEMMA ReadingsAgree ==
    ASSUME NEW a, NEW b, NEW n \in Nat, NEW m \in Nat, NEW f, NEW g,
           IsReading(f, a, n), IsReading(g, b, m),
           NEW k \in 1..n, k \in 1..m, \A i \in 1..k : a[i] = b[i]
    PROVE  f[k] = g[k]
<1> DEFINE bad == {i \in 1..k : f[i] # g[i]}
<1>1. bad = {}
  <2> SUFFICES ASSUME bad # {}
               PROVE  FALSE
    OBVIOUS
  <2>1. bad \in SUBSET Nat /\ bad \subseteq 1..k
    OBVIOUS
  <2>2. IsFiniteSet(bad)
    <3>1. IsFiniteSet(1..k)
      <4>1. 1 \in Int /\ k \in Int
        OBVIOUS
      <4> QED
        BY <4>1, FS_Interval
    <3> QED
      BY <2>1, <3>1, FS_Subset
  <2> HIDE DEF bad
  <2>3. PICK i \in bad : \A j \in bad : i <= j
    BY <2>1, <2>2, Smallest
  <2>4. i \in 1..k /\ f[i] # g[i] /\ i \in 1..n /\ i \in 1..m
    BY DEF bad
  <2>5. f[i] = IF i = 1 THEN NoWordRead ELSE ReadWord(f[i - 1], a[i])
    BY <2>4 DEF IsReading
  <2>6. g[i] = IF i = 1 THEN NoWordRead ELSE ReadWord(g[i - 1], b[i])
    BY <2>4 DEF IsReading
  <2>7. i # 1 => i - 1 \in 1..k /\ ~(i <= i - 1)
    BY <2>4
  <2>8. i # 1 => f[i - 1] = g[i - 1]
    BY <2>3, <2>7 DEF bad
  <2> QED
    BY <2>4, <2>5, <2>6, <2>8
<1>2. k \in 1..k
  OBVIOUS
<1> QED
  BY <1>1, <1>2

LEMMA ReadArgvIs ==
    ASSUME NEW argv, Len(argv) \in Nat \ {0}
    PROVE  \E f : IsReading(f, argv, Len(argv)) /\ ReadArgv(argv) = f[Len(argv)]
<1> DEFINE f == CHOOSE g : IsReading(g, argv, Len(argv))
<1>1. IsReading(f, argv, Len(argv))
  BY ReadingExists
<1>2. ReadArgv(argv) = f[Len(argv)]
  BY Zenon DEF ReadArgv, IsReading, NoWordRead, LineRead
<1> QED
  BY <1>1, <1>2

\* A sequence of words, whatever they are.
AreWords(argv) == \E W : argv \in Seq(W)

LEMMA OneWordRead ==
    ASSUME NEW w
    PROVE  AreWords(<<w>>) /\ <<w>> # <<>> /\ ReadArgv(<<w>>) = NoWordRead
<1> DEFINE argv == <<w>>
<1>1. argv \in Seq({w}) /\ Len(argv) = 1 /\ argv # <<>>
  OBVIOUS
<1> HIDE DEF argv
<1>2. PICK f : IsReading(f, argv, Len(argv)) /\ ReadArgv(argv) = f[Len(argv)]
  <2>1. Len(argv) \in Nat \ {0}
    BY <1>1
  <2> QED
    BY <2>1, ReadArgvIs
<1>3. f[1] = NoWordRead
  BY <1>1, <1>2 DEF IsReading
<1> QED
  BY <1>1, <1>2, <1>3, Zenon DEF AreWords, argv

LEMMA OneMoreWordRead ==
    ASSUME NEW argv, AreWords(argv), argv # <<>>, NEW w
    PROVE  /\ AreWords(Append(argv, w)) /\ Append(argv, w) # <<>>
           /\ ReadArgv(Append(argv, w)) = ReadWord(ReadArgv(argv), w)
<1>1. PICK W : argv \in Seq(W)
  BY DEF AreWords
<1> DEFINE V == W \cup {w}
           n == Len(argv)
           more == Append(argv, w)
<1>2. argv \in Seq(V) /\ w \in V
  BY <1>1, LexemesIn
<1> HIDE DEF V
<1>3. n \in Nat \ {0} /\ more \in Seq(V) /\ Len(more) = n + 1 /\ more # <<>> /\ more[n + 1] = w
  BY <1>2
<1>4. \A i \in 1..n : argv[i] = more[i]
  BY <1>2
<1> HIDE DEF more, n
<1>5. PICK f : IsReading(f, argv, n) /\ ReadArgv(argv) = f[n]
  BY <1>3, ReadArgvIs DEF n
<1>6. n + 1 \in Nat \ {0}
  BY <1>3
<1>7. PICK g : IsReading(g, more, n + 1) /\ ReadArgv(more) = g[n + 1]
  BY <1>3, <1>6, ReadArgvIs
<1>8. n \in 1..n /\ n \in 1..(n + 1) /\ n \in Nat
  BY <1>3
<1>9. f[n] = g[n]
  BY <1>4, <1>5, <1>6, <1>7, <1>8, ReadingsAgree
<1>10. g[n + 1] = ReadWord(g[n], more[n + 1])
  <2>1. n + 1 \in 1..(n + 1) /\ n + 1 # 1 /\ (n + 1) - 1 = n
    BY <1>3
  <2> QED
    BY <1>7, <2>1 DEF IsReading
<1>11. AreWords(more)
  BY <1>3, Zenon DEF AreWords
<1> QED
  BY <1>3, <1>5, <1>7, <1>9, <1>10, <1>11 DEF more

AllFlags == TakesValue \cup MayTakeValue \cup TakesNone

\* Before its first word that is no option, a command line says of the options S what is
\* given.
Told(given, S) == UNION {{<<f, v>> : v \in given[f]} : f \in S}
LineOfOptions(given, S) == LineRead({}, Told(given, S), <<>>)
TellsOptions(argv, given, S) ==
    AreWords(argv) /\ argv # <<>> /\ ReadArgv(argv) = LineOfOptions(given, S)

LEMMA ToldMore ==
    ASSUME NEW given, NEW S, NEW f
    PROVE  Told(given, S \cup {f}) = Told(given, S) \cup {<<f, v>> : v \in given[f]}
<1>1. ASSUME NEW x \in Told(given, S \cup {f})
      PROVE  x \in Told(given, S) \/ x \in {<<f, v>> : v \in given[f]}
  BY DEF Told
<1>2. ASSUME NEW x, x \in Told(given, S) \/ x \in {<<f, v>> : v \in given[f]}
      PROVE  x \in Told(given, S \cup {f})
  BY <1>2 DEF Told
<1> QED
  BY <1>1, <1>2

LEMMA ToldIs ==
    ASSUME NEW given, NEW S, NEW f \in S, NEW line, line.values = Told(given, S)
    PROVE  ValueOf(line, f) = given[f]
<1>1. ASSUME NEW v \in given[f]
      PROVE  v \in ValueOf(line, f)
  <2>1. <<f, v>> \in Told(given, S)
    BY DEF Told
  <2> QED
    BY <2>1 DEF ValueOf
<1>2. ASSUME NEW x \in ValueOf(line, f)
      PROVE  x \in given[f]
  <2>1. PICK w \in Told(given, S) : w[1] = f /\ x = w[2]
    BY Zenon DEF ValueOf
  <2>2. PICK g \in S : \E v \in given[g] : w = <<g, v>>
    BY <2>1, Zenon DEF Told
  <2> QED
    BY <2>1, <2>2
<1> QED
  BY <1>1, <1>2

\* The words that are options.
LEMMA FlagsDiffer ==
    /\ \A f, g : Lit(f) = Lit(g) => f = g
    /\ \A f \in AllFlags : f # "=" /\ Sign("=") \notin ToSet(Lit(f)) /\ SplitOnce(Lit(f), "=") = <<Lit(f)>>
    /\ TakesValue \cap TakesNone = {} /\ TakesValue \cap MayTakeValue = {}
    /\ TakesNone \cap MayTakeValue = {}
<1>1. \A f, g : Lit(f) = Lit(g) => f = g
  <2> SUFFICES ASSUME NEW f, NEW g, Lit(f) = Lit(g)
               PROVE  f = g
    OBVIOUS
  <2>1. Lit(f)[1].is = f /\ Lit(g)[1].is = g
    BY DEF Lit, Sign
  <2> QED
    BY <2>1
<1>2. ASSUME NEW f \in AllFlags
      PROVE  f # "=" /\ Sign("=") \notin ToSet(Lit(f)) /\ SplitOnce(Lit(f), "=") = <<Lit(f)>>
  <2>1. f # "="
    BY DEF AllFlags, TakesValue, MayTakeValue, TakesNone
  <2>2. ToSet(Lit(f)) = {Sign(f)} /\ Sign(f) # Sign("=")
    BY <2>1, OneLexeme DEF Lit, Sign
  <2>3. Sign("=") \notin ToSet(Lit(f))
    BY <2>2
  <2> QED
    BY <2>1, <2>3, SplitOnceNone
<1>3. /\ TakesValue \cap TakesNone = {} /\ TakesValue \cap MayTakeValue = {}
      /\ TakesNone \cap MayTakeValue = {}
  BY DEF TakesValue, MayTakeValue, TakesNone
<1> QED
  BY <1>1, <1>2, <1>3

\* What is known of a line, with a part of it changed.
WithOpen(r, x) == [r EXCEPT !.open = x]
WithValues(r, y) == [r EXCEPT !.values = y]
WithClosed(r, y) == [r EXCEPT !.open = {}, !.values = y]
WithRest(r, x) == [r EXCEPT !.rest = x]

LEMMA LineFields ==
    ASSUME NEW a, NEW b, NEW c
    PROVE  LET r == LineRead(a, b, c)
           IN  DOMAIN r = {"open", "values", "rest"} /\ r.open = a /\ r.values = b /\ r.rest = c
BY DEF LineRead

LEMMA LineChanged ==
    ASSUME NEW a, NEW b, NEW c, NEW x
    PROVE  /\ WithOpen(LineRead(a, b, c), x) = LineRead(x, b, c)
           /\ WithValues(LineRead(a, b, c), x) = LineRead(a, x, c)
           /\ WithClosed(LineRead(a, b, c), x) = LineRead({}, x, c)
           /\ WithRest(LineRead(a, b, c), x) = LineRead(a, b, x)
<1> DEFINE F == {"open", "values", "rest"}
           r == LineRead(a, b, c)
<1>1. DOMAIN r = F /\ r.open = a /\ r.values = b /\ r.rest = c
  BY LineFields
<1>2. ASSUME NEW s, NEW d, NEW e, NEW f, s = [g \in F |-> s[g]], s.open = d, s.values = e, s.rest = f
      PROVE  s = LineRead(d, e, f)
  BY <1>2 DEF LineRead
<1> HIDE DEF r
<1>3. WithOpen(r, x) = LineRead(x, b, c)
  <2> DEFINE s == WithOpen(r, x)
  <2>1. s = [g \in F |-> IF g = "open" THEN x ELSE r[g]]
    BY <1>1 DEF WithOpen
  <2>2. s = [g \in F |-> s[g]] /\ s.open = x /\ s.values = b /\ s.rest = c
    BY <1>1, <2>1
  <2> HIDE DEF s
  <2>3. s = LineRead(x, b, c)
    BY <1>2, <2>2
  <2> QED
    BY <2>3 DEF s
<1>4. WithValues(r, x) = LineRead(a, x, c)
  <2> DEFINE s == WithValues(r, x)
  <2>1. s = [g \in F |-> IF g = "values" THEN x ELSE r[g]]
    BY <1>1 DEF WithValues
  <2>2. s = [g \in F |-> s[g]] /\ s.open = a /\ s.values = x /\ s.rest = c
    BY <1>1, <2>1
  <2> HIDE DEF s
  <2>3. s = LineRead(a, x, c)
    BY <1>2, <2>2
  <2> QED
    BY <2>3 DEF s
<1>5. WithClosed(r, x) = LineRead({}, x, c)
  <2> DEFINE s == WithClosed(r, x)
  <2>1. s = [g \in F |-> IF g = "values" THEN x ELSE IF g = "open" THEN {} ELSE r[g]]
    BY <1>1 DEF WithClosed
  <2>2. s = [g \in F |-> s[g]] /\ s.open = {} /\ s.values = x /\ s.rest = c
    BY <1>1, <2>1
  <2> HIDE DEF s
  <2>3. s = LineRead({}, x, c)
    BY <1>2, <2>2
  <2> QED
    BY <2>3 DEF s
<1>6. WithRest(r, x) = LineRead(a, b, x)
  <2> DEFINE s == WithRest(r, x)
  <2>1. s = [g \in F |-> IF g = "rest" THEN x ELSE r[g]]
    BY <1>1 DEF WithRest
  <2>2. s = [g \in F |-> s[g]] /\ s.open = a /\ s.values = b /\ s.rest = x
    BY <1>1, <2>1
  <2> HIDE DEF s
  <2>3. s = LineRead(a, b, x)
    BY <1>2, <2>2
  <2> QED
    BY <2>3 DEF s
<1> QED
  BY <1>3, <1>4, <1>5, <1>6 DEF r

\* The values read, and that of some options, or of one, besides them.
WithAll(values, named, v) == values \cup {<<f, v>> : f \in named}
WithOne(values, f, v) == values \cup {<<f, v>>}

LEMMA WithAllOne ==
    ASSUME NEW values, NEW f, NEW v, NEW named, named = {f}
    PROVE  WithAll(values, named, v) = WithOne(values, f, v) /\ named # {}
BY DEF WithAll, WithOne

\* ReadWord, of a word that comes apart so.
WordRead(sofar, word, parts, named, alone) ==
    CASE sofar.rest # <<>> -> WithRest(sofar, Append(sofar.rest, word))
      [] sofar.rest = <<>> /\ sofar.open # {} ->
            WithClosed(sofar, WithAll(sofar.values, sofar.open, word))
      [] sofar.rest = <<>> /\ sofar.open = {} ->
            IF Len(parts) = 2 /\ named # {}
            THEN WithValues(sofar, WithAll(sofar.values, named, parts[2]))
            ELSE IF alone # {}
            THEN WithValues(sofar, WithAll(sofar.values, alone, <<>>))
            ELSE IF named # {} THEN WithOpen(sofar, named)
            ELSE WithRest(sofar, <<word>>)
NamedBy(part) == {f \in TakesValue \cup MayTakeValue : part = Lit(f)}
AloneIn(word) == {f \in TakesNone \cup MayTakeValue : word = Lit(f)}

LEMMA WordIsRead ==
    ASSUME NEW sofar, NEW word, NEW parts, SplitOnce(word, "=") = parts, NEW named, NEW alone,
           NamedBy(parts[1]) = named, AloneIn(word) = alone
    PROVE  ReadWord(sofar, word) = WordRead(sofar, word, parts, named, alone)
BY Zenon DEF ReadWord, WordRead, NamedBy, AloneIn, WithOpen, WithValues, WithClosed, WithRest, WithAll

\* A word behind options that are complete.
AfterWord(values, word, parts, named, alone) ==
    IF Len(parts) = 2 /\ named # {} THEN LineRead({}, WithAll(values, named, parts[2]), <<>>)
    ELSE IF alone # {} THEN LineRead({}, WithAll(values, alone, <<>>), <<>>)
    ELSE IF named # {} THEN LineRead(named, values, <<>>) ELSE LineRead({}, values, <<word>>)

LEMMA WordsRead ==
    ASSUME NEW values, NEW word, NEW parts, NEW named, NEW alone
    PROVE  WordRead(LineRead({}, values, <<>>), word, parts, named, alone) =
               AfterWord(values, word, parts, named, alone)
<1> DEFINE sofar == LineRead({}, values, <<>>)
<1>1. sofar.rest = <<>> /\ sofar.open = {} /\ sofar.values = values
  BY LineFields
<1>2. \A v : WithValues(sofar, v) = LineRead({}, v, <<>>)
  BY LineChanged
<1>4. WithOpen(sofar, named) = LineRead(named, values, <<>>)
  BY LineChanged
<1>5. WithRest(sofar, <<word>>) = LineRead({}, values, <<word>>)
  BY LineChanged
<1> HIDE DEF sofar
<1>6. WordRead(sofar, word, parts, named, alone) =
          IF Len(parts) = 2 /\ named # {} THEN WithValues(sofar, WithAll(values, named, parts[2]))
          ELSE IF alone # {} THEN WithValues(sofar, WithAll(values, alone, <<>>))
          ELSE IF named # {} THEN WithOpen(sofar, named) ELSE WithRest(sofar, <<word>>)
  BY <1>1 DEF WordRead
<1> QED
  BY <1>2, <1>4, <1>5, <1>6 DEF sofar, AfterWord

LEMMA OpeningIsRead ==
    ASSUME NEW values, NEW f \in TakesValue, NEW word, word = Lit(f)
    PROVE  ReadWord(LineRead({}, values, <<>>), word) = LineRead({f}, values, <<>>)
<1> DEFINE parts == <<word>>
           named == NamedBy(parts[1])
           alone == AloneIn(word)
<1>1. SplitOnce(word, "=") = parts /\ Len(parts) # 2
  BY FlagsDiffer DEF AllFlags
<1>2. named = {f} /\ alone = {} /\ named # {}
  BY FlagsDiffer DEF NamedBy, AloneIn
<1> HIDE DEF parts, named, alone
<1>3. ReadWord(LineRead({}, values, <<>>), word) =
          WordRead(LineRead({}, values, <<>>), word, parts, named, alone)
  BY <1>1, WordIsRead DEF named, alone
<1>4. WordRead(LineRead({}, values, <<>>), word, parts, named, alone) =
          AfterWord(values, word, parts, named, alone)
  BY WordsRead
<1> QED
  BY <1>1, <1>2, <1>3, <1>4 DEF AfterWord

LEMMA ClosingIsRead ==
    ASSUME NEW values, NEW f, NEW v
    PROVE  ReadWord(LineRead({f}, values, <<>>), v) = LineRead({}, WithOne(values, f, v), <<>>)
<1> DEFINE open == {f}
           sofar == LineRead(open, values, <<>>)
           parts == SplitOnce(v, "=")
           named == NamedBy(parts[1])
           alone == AloneIn(v)
<1>1. open # {} /\ WithAll(values, open, v) = WithOne(values, f, v)
  BY WithAllOne
<1> HIDE DEF open
<1>2. sofar.rest = <<>> /\ sofar.open = open /\ sofar.values = values
  BY LineFields
<1>3. \A x : WithClosed(sofar, x) = LineRead({}, x, <<>>)
  BY LineChanged
<1> HIDE DEF sofar, parts, named, alone
<1>4. ReadWord(sofar, v) = WordRead(sofar, v, parts, named, alone)
  BY WordIsRead DEF parts, named, alone
<1>5. WordRead(sofar, v, parts, named, alone) = WithClosed(sofar, WithAll(values, open, v))
  BY <1>1, <1>2 DEF WordRead
<1> QED
  BY <1>1, <1>3, <1>4, <1>5 DEF sofar, open

LEMMA SwitchingIsRead ==
    ASSUME NEW values, NEW f \in TakesNone, NEW word, word = Lit(f)
    PROVE  ReadWord(LineRead({}, values, <<>>), word) = LineRead({}, WithOne(values, f, <<>>), <<>>)
<1> DEFINE parts == <<word>>
           named == NamedBy(parts[1])
           alone == AloneIn(word)
<1>1. SplitOnce(word, "=") = parts /\ Len(parts) # 2
  BY FlagsDiffer DEF AllFlags
<1>2. alone = {f}
  BY FlagsDiffer DEF AloneIn
<1> HIDE DEF parts, named, alone
<1>3. alone # {} /\ WithAll(values, alone, <<>>) = WithOne(values, f, <<>>)
  BY <1>2, WithAllOne
<1>4. ReadWord(LineRead({}, values, <<>>), word) =
          WordRead(LineRead({}, values, <<>>), word, parts, named, alone)
  BY <1>1, WordIsRead DEF named, alone
<1>5. WordRead(LineRead({}, values, <<>>), word, parts, named, alone) =
          AfterWord(values, word, parts, named, alone)
  BY WordsRead
<1> QED
  BY <1>1, <1>3, <1>4, <1>5 DEF AfterWord

LEMMA LongIsRead ==
    ASSUME NEW values, NEW f \in TakesValue \cup MayTakeValue, NEW T, NEW v \in Seq(T),
           NEW word, word = Lit(f) \o (Lit("=") \o v)
    PROVE  ReadWord(LineRead({}, values, <<>>), word) = LineRead({}, WithOne(values, f, v), <<>>)
<1> DEFINE parts == <<Lit(f), v>>
           named == NamedBy(parts[1])
           alone == AloneIn(word)
           U == T \cup {Sign(f), Sign("=")}
<1>1. SplitOnce(word, "=") = parts
  <2>1. v \in Seq(U) /\ Lit(f) \in Seq(U) /\ Sign("=") \in U
    BY LexemesIn, OneLexeme DEF Lit
  <2>2. Sign("=") \notin ToSet(Lit(f))
    BY FlagsDiffer DEF AllFlags
  <2> HIDE DEF U
  <2> QED
    BY <2>1, <2>2, SplitOnceAt
<1>2. Len(parts) = 2 /\ parts[2] = v
  OBVIOUS
<1>3. named = {f}
  BY FlagsDiffer DEF NamedBy
<1> HIDE DEF parts, named, alone
<1>4. named # {} /\ WithAll(values, named, v) = WithOne(values, f, v)
  BY <1>3, WithAllOne
<1>5. ReadWord(LineRead({}, values, <<>>), word) =
          WordRead(LineRead({}, values, <<>>), word, parts, named, alone)
  BY <1>1, WordIsRead DEF named, alone
<1>6. WordRead(LineRead({}, values, <<>>), word, parts, named, alone) =
          AfterWord(values, word, parts, named, alone)
  BY WordsRead
<1> QED
  BY <1>2, <1>4, <1>5, <1>6 DEF AfterWord

\* An option behind options that are complete.
LEMMA WordsAppended ==
    ASSUME NEW argv, AreWords(argv), NEW w
    PROVE  argv \o <<w>> = Append(argv, w) /\ argv \o <<>> = argv
<1>1. PICK W : argv \in Seq(W)
  BY DEF AreWords
<1> QED
  BY <1>1

LEMMA TwoAppended ==
    ASSUME NEW argv, AreWords(argv), NEW v, NEW w
    PROVE  argv \o <<v, w>> = Append(Append(argv, v), w)
<1>1. PICK W : argv \in Seq(W)
  BY DEF AreWords
<1> QED
  BY <1>1

LEMMA ToldAlready ==
    ASSUME NEW argv, NEW given, NEW S, TellsOptions(argv, given, S), NEW f, given[f] = {}
    PROVE  TellsOptions(argv, given, S \cup {f})
<1>1. {<<f, v>> : v \in given[f]} = {}
  OBVIOUS
<1>2. Told(given, S \cup {f}) = Told(given, S)
  BY <1>1, ToldMore
<1> QED
  BY <1>2 DEF TellsOptions, LineOfOptions

GivesOne(given, f, v) == given[f] = {v}

LEMMA ToldWithOne ==
    ASSUME NEW given, NEW S, NEW f, NEW v, GivesOne(given, f, v)
    PROVE  Told(given, S \cup {f}) = WithOne(Told(given, S), f, v)
<1> DEFINE one == {<<f, x>> : x \in given[f]}
<1>1. one = {<<f, v>>}
  BY Zenon DEF GivesOne
<1>2. Told(given, S \cup {f}) = Told(given, S) \cup one
  BY ToldMore
<1> HIDE DEF one
<1> QED
  BY <1>1, <1>2 DEF WithOne

LEMMA FlagIsTold ==
    ASSUME NEW argv, NEW given, NEW S, TellsOptions(argv, given, S), NEW f \in TakesValue,
           NEW option, given[f] = option, \A x, y \in option : x = y
    PROVE  TellsOptions(argv \o Flag(f, option), given, S \cup {f})
<1> DEFINE values == Told(given, S)
<1>1. AreWords(argv) /\ argv # <<>> /\ ReadArgv(argv) = LineRead({}, values, <<>>)
  BY DEF TellsOptions, LineOfOptions
<1>2. CASE option = {}
  <2>1. argv \o Flag(f, option) = argv
    BY <1>1, <1>2, WordsAppended DEF Flag
  <2> QED
    BY <1>2, <2>1, ToldAlready
<1>3. CASE option # {}
  <2> DEFINE v == CHOOSE x \in option : TRUE
             word == Lit(f)
             one == Append(argv, word)
             two == Append(one, v)
  <2>1. v \in option /\ given[f] = {v}
    BY <1>3
  <2>2. argv \o Flag(f, option) = two
    BY <1>1, <1>3, TwoAppended DEF Flag
  <2> HIDE DEF v, word, values, one, two
  <2>3. AreWords(one) /\ one # <<>> /\ ReadArgv(one) = ReadWord(LineRead({}, values, <<>>), word)
    BY <1>1, OneMoreWordRead DEF one
  <2>4. ReadArgv(one) = LineRead({f}, values, <<>>)
    BY <2>3, OpeningIsRead DEF word
  <2>5. AreWords(two) /\ two # <<>> /\ ReadArgv(two) = ReadWord(LineRead({f}, values, <<>>), v)
    BY <2>3, <2>4, OneMoreWordRead DEF two
  <2>6. ReadArgv(two) = LineRead({}, WithOne(values, f, v), <<>>)
    BY <2>5, ClosingIsRead
  <2>7. Told(given, S \cup {f}) = WithOne(values, f, v)
    <3>1. GivesOne(given, f, v)
      BY <2>1 DEF GivesOne
    <3> QED
      BY <3>1, ToldWithOne DEF values
  <2> QED
    BY <2>2, <2>5, <2>6, <2>7 DEF TellsOptions, LineOfOptions
<1> QED
  BY <1>2, <1>3

LEMMA SwitchIsTold ==
    ASSUME NEW argv, NEW given, NEW S, TellsOptions(argv, given, S), NEW f \in TakesNone,
           NEW on, given[f] = IF on THEN {<<>>} ELSE {}
    PROVE  TellsOptions(argv \o Switch(f, on), given, S \cup {f})
<1> DEFINE values == Told(given, S)
<1>1. AreWords(argv) /\ argv # <<>> /\ ReadArgv(argv) = LineRead({}, values, <<>>)
  BY DEF TellsOptions, LineOfOptions
<1>2. CASE ~on
  <2>1. argv \o Switch(f, on) = argv /\ given[f] = {}
    BY <1>1, <1>2, WordsAppended DEF Switch
  <2> QED
    BY <2>1, ToldAlready
<1>3. CASE on
  <2> DEFINE word == Lit(f)
             one == Append(argv, word)
             none == <<>>
  <2>1. given[f] = {none}
    BY <1>3
  <2>2. argv \o Switch(f, on) = one
    BY <1>1, <1>3, WordsAppended DEF Switch
  <2> HIDE DEF word, values, one
  <2>3. AreWords(one) /\ one # <<>> /\ ReadArgv(one) = ReadWord(LineRead({}, values, <<>>), word)
    BY <1>1, OneMoreWordRead DEF one
  <2>4. ReadArgv(one) = LineRead({}, WithOne(values, f, none), <<>>)
    BY <2>3, SwitchingIsRead DEF word
  <2> HIDE DEF none
  <2>5. Told(given, S \cup {f}) = WithOne(values, f, none)
    <3>1. GivesOne(given, f, none)
      BY <2>1 DEF GivesOne
    <3> QED
      BY <3>1, ToldWithOne DEF values
  <2>6. ReadArgv(one) = LineOfOptions(given, S \cup {f})
    BY <2>4, <2>5 DEF LineOfOptions
  <2> QED
    BY <2>2, <2>3, <2>6 DEF TellsOptions
<1> QED
  BY <1>2, <1>3

LEMMA LongIsTold ==
    ASSUME NEW argv, NEW given, NEW S, TellsOptions(argv, given, S),
           NEW f \in TakesValue \cup MayTakeValue, NEW T, NEW v, NEW words,
           \/ words = <<>> /\ given[f] = {}
           \/ words = <<Lit(f) \o (Lit("=") \o v)>> /\ v \in Seq(T) /\ given[f] = {v}
    PROVE  TellsOptions(argv \o words, given, S \cup {f})
<1> DEFINE values == Told(given, S)
<1>1. AreWords(argv) /\ argv # <<>> /\ ReadArgv(argv) = LineRead({}, values, <<>>)
  BY DEF TellsOptions, LineOfOptions
<1>2. CASE words = <<>> /\ given[f] = {}
  <2>1. argv \o words = argv /\ given[f] = {}
    BY <1>1, <1>2, WordsAppended
  <2> QED
    BY <2>1, ToldAlready
<1>3. CASE words = <<Lit(f) \o (Lit("=") \o v)>> /\ v \in Seq(T) /\ given[f] = {v}
  <2> DEFINE word == Lit(f) \o (Lit("=") \o v)
             one == Append(argv, word)
  <2>1. words = <<word>>
    BY <1>3
  <2> HIDE DEF word
  <2>2. argv \o words = one
    BY <1>1, <2>1, WordsAppended
  <2> HIDE DEF values, one
  <2>3. AreWords(one) /\ one # <<>> /\ ReadArgv(one) = ReadWord(LineRead({}, values, <<>>), word)
    BY <1>1, OneMoreWordRead DEF one
  <2>4. ReadArgv(one) = LineRead({}, WithOne(values, f, v), <<>>)
    BY <1>3, <2>3, LongIsRead DEF word
  <2>5. Told(given, S \cup {f}) = WithOne(values, f, v)
    <3>1. GivesOne(given, f, v)
      BY <1>3 DEF GivesOne
    <3> QED
      BY <3>1, ToldWithOne DEF values
  <2>6. ReadArgv(one) = LineOfOptions(given, S \cup {f})
    BY <2>4, <2>5 DEF LineOfOptions
  <2> QED
    BY <2>2, <2>3, <2>6 DEF TellsOptions
<1> QED
  BY <1>2, <1>3

\* The first word that is no option, and those behind it.
LEMMA ScriptIsRead ==
    ASSUME NEW values, NEW T, NEW word \in Seq(T), word # <<>>, word[1] = Sign("/")
    PROVE  ReadWord(LineRead({}, values, <<>>), word) = LineRead({}, values, <<word>>)
<1> DEFINE parts == SplitOnce(word, "=")
           named == NamedBy(parts[1])
           alone == AloneIn(word)
           slash == Sign("/")
           n == Len(word)
<1>1. \A f \in AllFlags : Lit(f)[1] # slash /\ Lit(f) # <<>>
  BY DEF AllFlags, TakesValue, MayTakeValue, TakesNone, Lit, Sign
<1>2. alone = {}
  BY <1>1 DEF AloneIn, AllFlags
<1>3. parts[1] = <<>> \/ parts[1][1] = slash
  <2> DEFINE cuts == {i \in DOMAIN word : word[i] = Sign("=")}
             first == CHOOSE i \in cuts : \A j \in cuts : i <= j
             before == SubSeq(word, 1, first - 1)
             after == SubSeq(word, first + 1, Len(word))
  <2>1. CASE cuts = {}
    <3>1. parts = <<word>>
      BY <2>1 DEF SplitOnce
    <3> QED
      BY <3>1
  <2>2. CASE cuts # {}
    <3>1. parts = <<before, after>>
      BY <2>2 DEF SplitOnce
    <3>2. cuts \in SUBSET Nat /\ IsFiniteSet(cuts) /\ DOMAIN word = 1..n /\ n \in Nat
      <4>1. DOMAIN word = 1..n /\ n \in Nat
        OBVIOUS
      <4>2. IsFiniteSet(1..n)
        <5>1. 1 \in Int /\ n \in Int
          BY <4>1
        <5> QED
          BY <5>1, FS_Interval
      <4>3. cuts \subseteq 1..n
        BY <4>1
      <4> HIDE DEF cuts
      <4>4. cuts \in SUBSET Nat
        BY <4>1, <4>3
      <4>5. IsFiniteSet(cuts)
        BY <4>2, <4>3, FS_Subset
      <4> QED
        BY <4>1, <4>4, <4>5
    <3> HIDE DEF cuts
    <3>3. \E i \in cuts : \A j \in cuts : i <= j
      BY <2>2, <3>2, Smallest
    <3>4. first \in cuts
      BY <3>3
    <3>5. first \in 1..n /\ word[first] = Sign("=")
      BY <3>2, <3>4 DEF cuts
    <3>6. Sign("=") # slash
      BY DEF Sign
    <3>7. first # 1
      BY <3>5, <3>6
    <3> HIDE DEF first, n
    <3>8. before[1] = word[1]
      BY <3>2, <3>5, <3>7
    <3> HIDE DEF before, after
    <3> QED
      BY <3>1, <3>8
  <2> QED
    BY <2>1, <2>2
<1>4. named = {}
  <2> SUFFICES ASSUME NEW f \in TakesValue \cup MayTakeValue, parts[1] = Lit(f)
               PROVE  FALSE
    BY Zenon DEF NamedBy
  <2> QED
    BY <1>1, <1>3 DEF AllFlags
<1> HIDE DEF parts, named, alone
<1>5. ReadWord(LineRead({}, values, <<>>), word) =
          WordRead(LineRead({}, values, <<>>), word, parts, named, alone)
  BY WordIsRead DEF parts, named, alone
<1>6. WordRead(LineRead({}, values, <<>>), word, parts, named, alone) =
          AfterWord(values, word, parts, named, alone)
  BY WordsRead
<1> QED
  BY <1>2, <1>4, <1>5, <1>6 DEF AfterWord

LEMMA ArgumentIsRead ==
    ASSUME NEW values, NEW rest, rest # <<>>, NEW word
    PROVE  ReadWord(LineRead({}, values, rest), word) = LineRead({}, values, Append(rest, word))
<1> DEFINE sofar == LineRead({}, values, rest)
           parts == SplitOnce(word, "=")
           named == NamedBy(parts[1])
           alone == AloneIn(word)
<1>1. sofar.rest = rest
  BY LineFields
<1>2. \A x : WithRest(sofar, x) = LineRead({}, values, x)
  BY LineChanged
<1> HIDE DEF sofar, parts, named, alone
<1>3. ReadWord(sofar, word) = WordRead(sofar, word, parts, named, alone)
  BY WordIsRead DEF parts, named, alone
<1>4. WordRead(sofar, word, parts, named, alone) = WithRest(sofar, Append(rest, word))
  BY <1>1 DEF WordRead
<1> QED
  BY <1>2, <1>3, <1>4 DEF sofar

\* The first n of some words.
FirstArguments(args, n) == SubSeq(args, 1, n)

LEMMA FirstArgumentsNext ==
    ASSUME NEW W, NEW args \in Seq(W)
    PROVE  /\ FirstArguments(args, 0) = <<>> /\ FirstArguments(args, Len(args)) = args
           /\ \A n \in 0..Len(args) : FirstArguments(args, n) \in Seq(W)
           /\ \A n \in 1..Len(args) : FirstArguments(args, n) = Append(FirstArguments(args, n - 1), args[n])
<1>1. FirstArguments(args, 0) = <<>> /\ FirstArguments(args, Len(args)) = args
  BY DEF FirstArguments
<1>2. ASSUME NEW n \in 0..Len(args)
      PROVE  /\ FirstArguments(args, n) \in Seq(W) /\ Len(FirstArguments(args, n)) = n
             /\ \A i \in 1..n : FirstArguments(args, n)[i] = args[i]
  BY DEF FirstArguments
<1>3. ASSUME NEW n \in 1..Len(args)
      PROVE  FirstArguments(args, n) = Append(FirstArguments(args, n - 1), args[n])
  <2> DEFINE s == FirstArguments(args, n - 1)
             u == FirstArguments(args, n)
             e == args[n]
  <2>1. n \in 0..Len(args) /\ n - 1 \in 0..Len(args) /\ n \in 1..n /\ \A i \in 1..(n - 1) : i \in 1..n
    OBVIOUS
  <2>2. s \in Seq(W) /\ Len(s) = n - 1 /\ \A i \in 1..(n - 1) : s[i] = args[i]
    BY <1>2, <2>1
  <2>3. u \in Seq(W) /\ Len(u) = n /\ \A i \in 1..n : u[i] = args[i]
    BY <1>2, <2>1
  <2>4. e \in W
    BY <2>1
  <2> HIDE DEF s, u
  <2>5. Len(u) = Len(s) + 1 /\ (\A i \in 1..Len(s) : u[i] = s[i]) /\ u[Len(s) + 1] = e
    BY <2>1, <2>2, <2>3
  <2>6. Append(s, e) = u
    BY <2>2, <2>3, <2>4, <2>5, AppendIs
  <2> QED
    BY <2>6 DEF s, u
<1> QED
  BY <1>1, <1>2, <1>3

LEMMA AppendBehind ==
    ASSUME NEW W, NEW s \in Seq(W), NEW t \in Seq(W), NEW w \in W
    PROVE  s \o Append(t, w) = Append(s \o t, w)
<1> DEFINE l == s \o Append(t, w)
           r == Append(s \o t, w)
           n == Len(s) + (Len(t) + 1)
<1>1. /\ l \in Seq(W) /\ Len(l) = n
      /\ \A i \in 1..n : l[i] = IF i <= Len(s) THEN s[i] ELSE IF i = n THEN w ELSE t[i - Len(s)]
  <2> DEFINE u == Append(t, w)
  <2>1. u \in Seq(W) /\ Len(u) = Len(t) + 1 /\ (\A i \in 1..Len(t) : u[i] = t[i]) /\ u[Len(t) + 1] = w
    BY AppendProperties
  <2>2. Len(s) \in Nat /\ Len(t) \in Nat
    BY LenProperties
  <2> HIDE DEF u
  <2>3. /\ s \o u \in Seq(W) /\ Len(s \o u) = Len(s) + Len(u)
        /\ \A i \in 1..(Len(s) + Len(u)) : (s \o u)[i] = IF i <= Len(s) THEN s[i] ELSE u[i - Len(s)]
    BY <2>1, ConcatProperties
  <2>4. \A i \in 1..n : ~(i <= Len(s)) /\ i # n => i - Len(s) \in 1..Len(t)
    BY <2>2
  <2>5. n - Len(s) = Len(t) + 1 /\ n = Len(s) + Len(u)
    BY <2>1, <2>2
  <2> HIDE DEF n
  <2> QED
    BY <2>1, <2>3, <2>4, <2>5 DEF u
<1>2. /\ r \in Seq(W) /\ Len(r) = n
      /\ \A i \in 1..n : r[i] = IF i <= Len(s) THEN s[i] ELSE IF i = n THEN w ELSE t[i - Len(s)]
  <2> DEFINE u == s \o t
  <2>1. /\ u \in Seq(W) /\ Len(u) = Len(s) + Len(t)
        /\ \A i \in 1..(Len(s) + Len(t)) : u[i] = IF i <= Len(s) THEN s[i] ELSE t[i - Len(s)]
    BY ConcatProperties
  <2>2. Len(s) \in Nat /\ Len(t) \in Nat
    BY LenProperties
  <2> HIDE DEF u
  <2>3. /\ Append(u, w) \in Seq(W) /\ Len(Append(u, w)) = Len(u) + 1
        /\ \A i \in 1..Len(u) : Append(u, w)[i] = u[i]
        /\ Append(u, w)[Len(u) + 1] = w
    BY <2>1, AppendProperties
  <2>4. \A i \in 1..n : i # n => i \in 1..Len(u)
    BY <2>1, <2>2
  <2>5. n = Len(u) + 1 /\ ~(n <= Len(s))
    BY <2>1, <2>2
  <2> HIDE DEF n
  <2> QED
    BY <2>1, <2>3, <2>4, <2>5 DEF u
<1> HIDE DEF l, r, n
<1>3. l = r
  BY <1>1, <1>2, SeqEqual
<1> QED
  BY <1>3 DEF l, r

\* A command line with the first n arguments has been read.
ArgumentsRead(argv, values, script, args, n) ==
    LET a == argv \o FirstArguments(args, n)
    IN  AreWords(a) /\ a # <<>> /\ ReadArgv(a) = LineRead({}, values, <<script>> \o FirstArguments(args, n))

LEMMA ArgumentsAreRead ==
    ASSUME NEW argv, AreWords(argv), argv # <<>>, NEW values, NEW script,
           ReadArgv(argv) = LineRead({}, values, <<script>>), NEW args, AreWords(args)
    PROVE  ReadArgv(argv \o args) = LineRead({}, values, <<script>> \o args)
<1>1. PICK V : argv \in Seq(V)
  BY DEF AreWords
<1>2. PICK X : args \in Seq(X)
  BY DEF AreWords
<1> DEFINE W == V \cup X \cup {script}
<1>3. argv \in Seq(W) /\ args \in Seq(W) /\ script \in W
  BY <1>1, <1>2, LexemesIn
<1> HIDE DEF W
<1> DEFINE one == <<script>>
<1>4. one \in Seq(W) /\ one # <<>>
  BY <1>3
<1> HIDE DEF one
<1> DEFINE bad == {n \in 0..Len(args) : ~ArgumentsRead(argv, values, script, args, n)}
<1>5. bad = {}
  <2> SUFFICES ASSUME bad # {}
               PROVE  FALSE
    OBVIOUS
  <2>1. bad \in SUBSET Nat /\ bad \subseteq 0..Len(args) /\ Len(args) \in Nat
    BY <1>3
  <2>2. IsFiniteSet(bad)
    <3>1. IsFiniteSet(0..Len(args))
      <4>1. 0 \in Int /\ Len(args) \in Int
        BY <2>1
      <4> QED
        BY <4>1, FS_Interval
    <3> QED
      BY <2>1, <3>1, FS_Subset
  <2> HIDE DEF bad
  <2>3. PICK m \in bad : \A k \in bad : m <= k
    BY <2>1, <2>2, Smallest
  <2>4. m \in 0..Len(args) /\ ~ArgumentsRead(argv, values, script, args, m)
    BY DEF bad
  <2>5. CASE m = 0
    <3>1. argv \o FirstArguments(args, 0) = argv /\ one \o FirstArguments(args, 0) = one
      BY <1>3, <1>4, FirstArgumentsNext, LexemesIn
    <3> QED
      BY <2>4, <2>5, <3>1 DEF ArgumentsRead, one
  <2>6. CASE m # 0
    <3> DEFINE s == FirstArguments(args, m - 1)
               w == args[m]
               a == argv \o s
    <3>1. m \in 1..Len(args) /\ m - 1 \in 0..Len(args) /\ ~(m <= m - 1)
      BY <2>1, <2>4, <2>6
    <3>2. s \in Seq(W) /\ w \in W /\ FirstArguments(args, m) = Append(s, w)
      BY <1>3, <3>1, FirstArgumentsNext
    <3>3. ArgumentsRead(argv, values, script, args, m - 1)
      BY <2>3, <3>1 DEF bad
    <3>4. AreWords(a) /\ a # <<>> /\ ReadArgv(a) = LineRead({}, values, one \o s)
      BY <3>3 DEF ArgumentsRead, one
    <3> HIDE DEF s, w
    <3>5. argv \o Append(s, w) = Append(a, w) /\ one \o Append(s, w) = Append(one \o s, w)
      BY <1>3, <1>4, <3>2, AppendBehind
    <3> DEFINE rest == one \o s
    <3>6. rest # <<>>
      BY <1>4, <3>2
    <3> HIDE DEF a, rest
    <3>7. /\ AreWords(Append(a, w)) /\ Append(a, w) # <<>>
          /\ ReadArgv(Append(a, w)) = ReadWord(LineRead({}, values, rest), w)
      BY <3>4, OneMoreWordRead DEF rest
    <3>8. ReadArgv(Append(a, w)) = LineRead({}, values, Append(rest, w))
      BY <3>6, <3>7, ArgumentIsRead
    <3>9. ArgumentsRead(argv, values, script, args, m)
      BY <3>2, <3>5, <3>7, <3>8 DEF ArgumentsRead, rest, one
    <3> QED
      BY <2>4, <3>9
  <2> QED
    BY <2>5, <2>6
<1>6. Len(args) \in 0..Len(args)
  BY <1>3
<1>7. ArgumentsRead(argv, values, script, args, Len(args))
  BY <1>5, <1>6
<1>8. FirstArguments(args, Len(args)) = args
  BY <1>3, FirstArgumentsNext
<1> QED
  BY <1>7, <1>8 DEF ArgumentsRead

-----------------------------------------------------------------------------
(* The commands for sbatch that are built, and what is told of them. *)

Variables(T) == [name : Seq(T), value : Seq(T)]
TextOptions == {"job_name", "partition", "output", "error", "chdir", "mail_user", "comment"}
ValueOptions == {"time_limit", "rsc", "array_spec", "dependency", "mail_types", "signal", "nice"}
SbatchFields == TextOptions \cup ValueOptions \cup {"env", "no_requeue", "script", "args"}

\* The commands for sbatch that can be built: with any texts, and with values that are
\* built by their constructors.
SbatchForm(T, cmd) ==
    /\ cmd = [f \in SbatchFields |-> cmd[f]]
    /\ \A f \in TextOptions : cmd[f] \subseteq Seq(T)
    /\ \A f \in TextOptions \cup ValueOptions : \A x, y \in cmd[f] : x = y
    /\ cmd["time_limit"] \subseteq 1..MaxU32 /\ cmd["array_spec"] \subseteq PySpecs
    /\ cmd["dependency"] \subseteq PyDeps /\ cmd["signal"] \subseteq Signals /\ cmd["nice"] \subseteq Int
    /\ \A spec \in cmd["rsc"] : ResourceForm(spec)
    /\ \A types \in cmd["mail_types"] : types \in Seq(MailType) /\ types # <<>>
    /\ cmd["env"] \in Seq(Variables(T)) /\ cmd["no_requeue"] \in BOOLEAN
    /\ cmd["script"] \in Seq(T) /\ cmd["args"] \in Seq(Seq(T))

\* What the command line is to say of each option.
SbatchFlags == TakesValue \cup MayTakeValue \cup {"--no-requeue"}
SbatchGives(cmd) ==
    [f \in SbatchFlags |->
        CASE f = "-J" -> cmd.job_name
          [] f = "-p" -> cmd.partition
          [] f = "-t" -> TimeWords(cmd.time_limit)
          [] f = "--rsc" -> ResourceWords(cmd.rsc)
          [] f = "-o" -> cmd.output
          [] f = "-e" -> cmd.error
          [] f = "--chdir" -> UNION {Absolutize(p) : p \in cmd.chdir}
          [] f = "-a" -> {ArrayText(v) : v \in cmd.array_spec}
          [] f = "--export" -> IF cmd.env = <<>> THEN {} ELSE {RenderExport(cmd.env)}
          [] f = "-d" -> {DependencyText(v) : v \in cmd.dependency}
          [] f = "--mail-user" -> cmd.mail_user
          [] f = "--mail-type" -> {MailTypesText(v) : v \in cmd.mail_types}
          [] f = "--signal" -> {SignalText(v) : v \in cmd.signal}
          [] f = "--no-requeue" -> IF cmd.no_requeue THEN {<<>>} ELSE {}
          [] f = "--comment" -> cmd.comment
          [] f = "--nice" -> {SignedText(n) : n \in cmd.nice}]

\* The texts of command lines.
WordLexemes(T) ==
    T \cup {Sign("/"), Sign(Cwd), Sign(","), Sign("="), Sign("ALL"), Sign("-")} \cup {Number(n) : n \in Nat}

LEMMA AbsolutizeIs ==
    ASSUME NEW T, NEW p \in Seq(T)
    PROVE  /\ p = <<>> => Absolutize(p) = {}
           /\ p # <<>> => \E q \in Seq(WordLexemes(T)) :
                             Absolutize(p) = {q} /\ q # <<>> /\ q[1] = Sign("/")
<1> DEFINE U == WordLexemes(T)
           slash == Lit("/")
           cwd == Lit(Cwd)
<1>1. p \in Seq(U)
  BY LexemesIn DEF WordLexemes
<1>2. /\ slash \in Seq(U) /\ Len(slash) = 1 /\ slash[1] = Sign("/")
      /\ cwd \in Seq(U) /\ Len(cwd) = 1
  <2>1. Sign("/") \in U /\ Sign(Cwd) \in U
    BY DEF WordLexemes
  <2> HIDE DEF U
  <2> QED
    BY <2>1 DEF Lit
<1> HIDE DEF U, slash, cwd
<1>3. CASE p = <<>>
  BY <1>3 DEF Absolutize
<1>4. CASE p # <<>> /\ Head(p) = Sign("/")
  <2>1. Absolutize(p) = {p} /\ p[1] = Sign("/")
    BY <1>4 DEF Absolutize
  <2> QED
    BY <1>1, <1>4, <2>1 DEF U
<1>5. CASE p # <<>> /\ Head(p) # Sign("/")
  <2> DEFINE q == slash \o cwd \o slash \o p
  <2>1. Absolutize(p) = {q}
    BY <1>5 DEF Absolutize, slash, cwd
  <2>2. slash \o cwd \in Seq(U) /\ Len(slash \o cwd) >= 1 /\ (slash \o cwd)[1] = Sign("/")
    BY <1>2
  <2>3. /\ (slash \o cwd) \o slash \in Seq(U) /\ Len((slash \o cwd) \o slash) >= 1
        /\ ((slash \o cwd) \o slash)[1] = Sign("/")
    <3> DEFINE u == slash \o cwd
    <3> HIDE DEF u
    <3>1. u \o slash \in Seq(U) /\ Len(u \o slash) >= 1 /\ (u \o slash)[1] = Sign("/")
      BY <1>2, <2>2 DEF u
    <3> QED
      BY <3>1 DEF u
  <2>4. q \in Seq(U) /\ q # <<>> /\ q[1] = Sign("/")
    <3> DEFINE u == (slash \o cwd) \o slash
    <3> HIDE DEF u
    <3>1. u \in Seq(U) /\ Len(u) >= 1 /\ u[1] = Sign("/")
      BY <2>3 DEF u
    <3>2. u \o p \in Seq(U) /\ u \o p # <<>> /\ (u \o p)[1] = Sign("/")
      BY <1>1, <3>1
    <3> QED
      BY <3>2 DEF u
  <2> HIDE DEF q
  <2> QED
    BY <1>5, <2>1, <2>4 DEF U
<1> QED
  BY <1>3, <1>4, <1>5

LEMMA SignedIsText ==
    ASSUME NEW T, NEW n \in Int
    PROVE  SignedText(n) \in Seq(WordLexemes(T))
<1> DEFINE U == WordLexemes(T)
<1>1. Sign("-") \in U /\ \A m \in Nat : Number(m) \in U
  BY DEF WordLexemes
<1> HIDE DEF U
<1>2. CASE n < 0
  <2>1. -n \in Nat
    BY <1>2
  <2> DEFINE d == Dec(-n)
  <2>2. d \in Seq(U) /\ Lit("-") \in Seq(U)
    BY <1>1, <2>1 DEF Dec, Lit
  <2> HIDE DEF d
  <2> QED
    BY <1>2, <2>2 DEF SignedText, d, U
<1>3. CASE ~(n < 0)
  <2>1. Dec(n) \in Seq(U)
    BY <1>1, <1>3 DEF Dec
  <2> QED
    BY <1>3, <2>1 DEF SignedText, U
<1> QED
  BY <1>2, <1>3

\* The texts of the variables in a list for sbatch, and what is read of one.
ReadVariable(t) == [name |-> SplitOnce(t, "=")[1], value |-> Last(SplitOnce(t, "="))]
VariableTexts(env) == [i \in DOMAIN env |-> env[i].name \o (Lit("=") \o env[i].value)]

LEMMA SplitAtEqual ==
    ASSUME NEW T, NEW name \in Seq(T), NEW value \in Seq(T), Sign("=") \in T, Sign("=") \notin ToSet(name)
    PROVE  SplitOnce(name \o (Lit("=") \o value), "=") = <<name, value>>
BY SplitOnceAt

LEMMA VariableIsRead ==
    ASSUME NEW T, NEW v \in Variables(T),
           (ToSet(v.name) \cup ToSet(v.value)) \cap Separators = {}
    PROVE  LET t == v.name \o (Lit("=") \o v.value)
           IN  /\ t \in Seq(WordLexemes(T)) /\ Sign(",") \notin ToSet(t)
               /\ ReadVariable(t) = v
<1> DEFINE U == WordLexemes(T)
           name == v.name
           value == v.value
           t == name \o (Lit("=") \o value)
<1>1. name \in Seq(U) /\ value \in Seq(U) /\ Sign("=") \in U
  <2>1. T \subseteq U /\ Sign("=") \in U /\ name \in Seq(T) /\ value \in Seq(T)
    BY DEF WordLexemes, Variables
  <2> HIDE DEF name, value, U
  <2> QED
    BY <2>1, LexemesIn
<1>2. /\ Sign("=") \notin ToSet(name) /\ Sign(",") \notin ToSet(name)
      /\ Sign(",") \notin ToSet(value) /\ Sign(",") # Sign("=")
  BY DEF Separators, Sign
<1>3. v = [name |-> name, value |-> value]
  BY DEF Variables
<1> HIDE DEF U, name, value
<1>4. t \in Seq(U) /\ ToSet(t) = ToSet(name) \cup {Sign("=")} \cup ToSet(value)
  BY <1>1, LexemesBetween
<1>5. SplitOnce(t, "=") = <<name, value>>
  <2>1. Sign("=") \notin ToSet(name)
    BY <1>2
  <2> QED
    BY <1>1, <2>1, SplitAtEqual
<1>6. <<name, value>>[1] = name /\ Last(<<name, value>>) = value
  BY DEF Last
<1>7. ReadVariable(t) = v
  BY <1>3, <1>5, <1>6 DEF ReadVariable
<1>8. Sign(",") \notin ToSet(t)
  BY <1>2, <1>4
<1> QED
  BY <1>4, <1>7, <1>8 DEF U, t, name, value

\* What a list for sbatch is made of.
LEMMA ListOfVariables ==
    ASSUME NEW T, NEW env \in Seq(Variables(T)), Exportable(env)
    PROVE  LET n == Len(env)
               texts == <<Lit("ALL")>> \o VariableTexts(env)
           IN  /\ n \in Nat /\ DOMAIN env = 1..n
               /\ texts = [i \in 1..(n + 1) |-> texts[i]] /\ Len(texts) = n + 1
               /\ \A i \in 1..(n + 1) : texts[i] \in Seq(WordLexemes(T)) /\ Sign(",") \notin ToSet(texts[i])
               /\ \A i \in 1..n : ReadVariable(texts[i + 1]) = env[i]
<1> DEFINE n == Len(env)
           vars == VariableTexts(env)
           first == <<Lit("ALL")>>
           texts == first \o vars
           U == WordLexemes(T)
           W == Seq(U)
<1>1. n \in Nat /\ DOMAIN env = 1..n /\ vars = [i \in 1..n |-> vars[i]]
  <2> DEFINE V == Variables(T)
  <2>1. env \in Seq(V)
    OBVIOUS
  <2> HIDE DEF V
  <2>2. n \in Nat /\ DOMAIN env = 1..n
    BY <2>1, LenProperties
  <2>3. vars = [i \in DOMAIN env |-> vars[i]]
    BY Zenon DEF VariableTexts
  <2> HIDE DEF vars, n
  <2> QED
    BY <2>2, <2>3
<1>2. ASSUME NEW i \in 1..n
      PROVE  /\ vars[i] \in W /\ Sign(",") \notin ToSet(vars[i])
             /\ ReadVariable(vars[i]) = env[i]
  <2> DEFINE v == env[i]
             t == v.name \o (Lit("=") \o v.value)
  <2>1. v \in Variables(T) /\ vars[i] = t
    <3> DEFINE V == Variables(T)
    <3>1. env \in Seq(V)
      OBVIOUS
    <3> HIDE DEF V, n
    <3>2. v \in V
      BY <1>1, <3>1, ElementOfSeq DEF n
    <3>3. vars[i] = t
      BY <1>1, Zenon DEF VariableTexts
    <3> QED
      BY <3>2, <3>3 DEF V
  <2>2. (ToSet(v.name) \cup ToSet(v.value)) \cap Separators = {}
    BY <1>1 DEF Exportable
  <2> HIDE DEF v
  <2>3. /\ t \in Seq(WordLexemes(T)) /\ Sign(",") \notin ToSet(t)
        /\ ReadVariable(t) = v
    BY <2>1, <2>2, VariableIsRead
  <2> HIDE DEF t, vars
  <2> QED
    BY <2>1, <2>3 DEF v
<1>3. Lit("ALL") \in W /\ Sign(",") \notin ToSet(Lit("ALL"))
  <2>1. Sign("ALL") \in U /\ Sign(",") # Sign("ALL")
    BY DEF WordLexemes, Sign
  <2> HIDE DEF U
  <2>2. <<Sign("ALL")>> \in Seq(U) /\ ToSet(<<Sign("ALL")>>) = {Sign("ALL")}
    BY <2>1, OneLexeme
  <2> QED
    BY <2>1, <2>2 DEF Lit
<1> HIDE DEF vars, U
<1>4. vars \in Seq(W) /\ Len(vars) = n
  <2>1. n \in Nat /\ vars = [i \in 1..n |-> vars[i]] /\ \A i \in 1..n : vars[i] \in W
    BY <1>1, <1>2
  <2> HIDE DEF W, n
  <2> QED
    BY <2>1
<1> DEFINE all == Lit("ALL")
<1>5. first \in Seq(W) /\ Len(first) = 1 /\ first[1] = all
  <2>1. all \in W
    BY <1>3
  <2> HIDE DEF W, all
  <2> QED
    BY <2>1 DEF all
<1> HIDE DEF W, n, all, first
<1>6. /\ texts \in Seq(W) /\ Len(texts) = n + 1 /\ texts[1] = all
      /\ \A i \in 1..n : texts[i + 1] = vars[i]
  <2>1. /\ texts \in Seq(W) /\ Len(texts) = Len(first) + Len(vars)
        /\ \A i \in 1..(Len(first) + Len(vars)) :
              texts[i] = IF i <= Len(first) THEN first[i] ELSE vars[i - Len(first)]
    BY <1>4, <1>5, ConcatProperties
  <2>2. n \in Nat
    BY <1>1
  <2> HIDE DEF texts
  <2>3. \A i \in 1..n : ~(i + 1 <= 1) /\ (i + 1) - 1 = i /\ i + 1 \in 1..(1 + n)
    BY <2>2
  <2>4. 1 \in 1..(1 + n) /\ n + 1 = 1 + n
    BY <2>2
  <2> QED
    BY <1>4, <1>5, <2>1, <2>3, <2>4
<1>7. texts = [i \in 1..(n + 1) |-> texts[i]]
  <2> HIDE DEF texts
  <2> QED
    BY <1>6
<1>8. ASSUME NEW i \in 1..(n + 1)
      PROVE  texts[i] \in W /\ Sign(",") \notin ToSet(texts[i])
  <2>1. CASE i = 1
    BY <1>3, <1>6, <2>1 DEF all
  <2>2. CASE i # 1
    <3>1. i - 1 \in 1..n /\ (i - 1) + 1 = i
      BY <1>1, <2>2
    <3>2. texts[i] = vars[i - 1]
      BY <1>6, <3>1
    <3> QED
      BY <1>2, <3>1, <3>2
  <2> QED
    BY <2>1, <2>2
<1>9. ASSUME NEW i \in 1..n
      PROVE  ReadVariable(texts[i + 1]) = env[i]
  <2>1. texts[i + 1] = vars[i]
    BY <1>6
  <2> QED
    BY <1>2, <2>1
<1> HIDE DEF texts
<1> QED
  BY <1>1, <1>6, <1>7, <1>8, <1>9 DEF texts, first, vars, n, W, U

\* Variables that a list for sbatch can hold are read as they are.
LEMMA ExportIsRead ==
    ASSUME NEW T, NEW env \in Seq(Variables(T)), Exportable(env)
    PROVE  RenderExport(env) \in Seq(WordLexemes(T)) /\ ExportedIn(RenderExport(env)) = env
<1> DEFINE n == Len(env)
           texts == <<Lit("ALL")>> \o VariableTexts(env)
           U == WordLexemes(T)
           t == Join(texts, ",")
<1>1. RenderExport(env) = t
  BY DEF RenderExport, VariableTexts
<1>2. /\ n \in Nat /\ DOMAIN env = 1..n
      /\ texts = [i \in 1..(n + 1) |-> texts[i]] /\ Len(texts) = n + 1
      /\ \A i \in 1..(n + 1) : texts[i] \in Seq(U) /\ Sign(",") \notin ToSet(texts[i])
      /\ \A i \in 1..n : ReadVariable(texts[i + 1]) = env[i]
  BY ListOfVariables
<1>3. Sign(",") \in U
  BY DEF WordLexemes
<1> HIDE DEF n, texts, U
<1>4. n + 1 \in Nat \ {0}
  <2>1. n \in Nat
    BY <1>2
  <2> HIDE DEF t
  <2> QED
    BY <2>1
<1>5. t \in Seq(U) /\ Split(t, ",") = texts
  BY <1>2, <1>3, <1>4, JoinedParts
<1> DEFINE parts == Tail(texts)
<1>6. DOMAIN parts = 1..n /\ \A i \in 1..n : parts[i] = texts[i + 1]
  <2>1. texts \in Seq(Seq(U)) /\ texts # <<>>
    <3> DEFINE W == Seq(U)
    <3>1. \A i \in 1..(n + 1) : texts[i] \in W
      BY <1>2
    <3> HIDE DEF W
    <3>2. n + 1 \in Nat /\ texts = [i \in 1..(n + 1) |-> texts[i]] /\ Len(texts) = n + 1 /\ n + 1 # 0
      BY <1>2, <1>4
    <3>3. texts \in Seq(W) /\ texts # <<>>
      BY <3>1, <3>2
    <3> QED
      BY <3>3 DEF W
  <2> DEFINE W == Seq(U)
  <2>2. texts \in Seq(W) /\ texts # <<>>
    BY <2>1
  <2> HIDE DEF W
  <2>3. n \in Nat /\ Len(texts) = n + 1
    BY <1>2
  <2> QED
    BY <2>2, <2>3
<1> HIDE DEF parts
<1>7. ExportedIn(t) = [i \in DOMAIN parts |-> ReadVariable(parts[i])]
  BY <1>5, Zenon DEF ExportedIn, ReadVariable, parts
<1>8. \A i \in 1..n : ReadVariable(parts[i]) = env[i]
  <2> SUFFICES ASSUME NEW i \in 1..n
               PROVE  ReadVariable(parts[i]) = env[i]
    OBVIOUS
  <2>1. parts[i] = texts[i + 1]
    BY <1>6
  <2> QED
    BY <1>2, <2>1
<1>9. env = [i \in 1..n |-> env[i]]
  <2> DEFINE V == Variables(T)
  <2>1. env \in Seq(V)
    OBVIOUS
  <2> HIDE DEF V
  <2>2. env = [i \in DOMAIN env |-> env[i]]
    BY <2>1
  <2> QED
    BY <1>2, <2>2
<1>10. ExportedIn(t) = env
  BY <1>6, <1>7, <1>8, <1>9
<1> QED
  BY <1>1, <1>5, <1>10 DEF U

\* The command line of a command, up to its script.
SbatchOptionWords(cmd) ==
    <<Lit("sbatch")>>
        \o Flag("-J", cmd.job_name)
        \o Flag("-p", cmd.partition)
        \o Flag("-t", TimeWords(cmd.time_limit))
        \o Flag("--rsc", ResourceWords(cmd.rsc))
        \o Flag("-o", cmd.output)
        \o Flag("-e", cmd.error)
        \o Flag("--chdir", UNION {Absolutize(p) : p \in cmd.chdir})
        \o Flag("-a", {ArrayText(v) : v \in cmd.array_spec})
        \o (IF cmd.env = <<>> THEN <<>>
            ELSE <<Lit("--export") \o (Lit("=") \o RenderExport(cmd.env))>>)
        \o Flag("-d", {DependencyText(v) : v \in cmd.dependency})
        \o Flag("--mail-user", cmd.mail_user)
        \o Flag("--mail-type", {MailTypesText(v) : v \in cmd.mail_types})
        \o Flag("--signal", {SignalText(v) : v \in cmd.signal})
        \o Switch("--no-requeue", cmd.no_requeue)
        \o Flag("--comment", cmd.comment)
        \o (IF cmd.nice = {} THEN <<>>
            ELSE <<Lit("--nice") \o (Lit("=") \o SignedText(CHOOSE n \in cmd.nice : TRUE))>>)

LEMMA GivesEach ==
    ASSUME NEW cmd
    PROVE  LET given == SbatchGives(cmd)
           IN  /\ given["-J"] = cmd.job_name
               /\ given["-p"] = cmd.partition
               /\ given["-t"] = TimeWords(cmd.time_limit)
               /\ given["--rsc"] = ResourceWords(cmd.rsc)
               /\ given["-o"] = cmd.output
               /\ given["-e"] = cmd.error
               /\ given["--chdir"] = UNION {Absolutize(p) : p \in cmd.chdir}
               /\ given["-a"] = {ArrayText(v) : v \in cmd.array_spec}
               /\ given["--export"] = IF cmd.env = <<>> THEN {} ELSE {RenderExport(cmd.env)}
               /\ given["-d"] = {DependencyText(v) : v \in cmd.dependency}
               /\ given["--mail-user"] = cmd.mail_user
               /\ given["--mail-type"] = {MailTypesText(v) : v \in cmd.mail_types}
               /\ given["--signal"] = {SignalText(v) : v \in cmd.signal}
               /\ given["--no-requeue"] = IF cmd.no_requeue THEN {<<>>} ELSE {}
               /\ given["--comment"] = cmd.comment
               /\ given["--nice"] = {SignedText(n) : n \in cmd.nice}
<1>1. SbatchGives(cmd)["-J"] = cmd.job_name
  BY DEF SbatchGives, SbatchFlags, TakesValue, MayTakeValue
<1>2. SbatchGives(cmd)["-p"] = cmd.partition
  BY DEF SbatchGives, SbatchFlags, TakesValue, MayTakeValue
<1>3. SbatchGives(cmd)["-t"] = TimeWords(cmd.time_limit)
  BY DEF SbatchGives, SbatchFlags, TakesValue, MayTakeValue
<1>4. SbatchGives(cmd)["--rsc"] = ResourceWords(cmd.rsc)
  BY DEF SbatchGives, SbatchFlags, TakesValue, MayTakeValue
<1>5. SbatchGives(cmd)["-o"] = cmd.output
  BY DEF SbatchGives, SbatchFlags, TakesValue, MayTakeValue
<1>6. SbatchGives(cmd)["-e"] = cmd.error
  BY DEF SbatchGives, SbatchFlags, TakesValue, MayTakeValue
<1>7. SbatchGives(cmd)["--chdir"] = UNION {Absolutize(p) : p \in cmd.chdir}
  BY DEF SbatchGives, SbatchFlags, TakesValue, MayTakeValue
<1>8. SbatchGives(cmd)["-a"] = {ArrayText(v) : v \in cmd.array_spec}
  BY DEF SbatchGives, SbatchFlags, TakesValue, MayTakeValue
<1>9. SbatchGives(cmd)["--export"] = IF cmd.env = <<>> THEN {} ELSE {RenderExport(cmd.env)}
  BY DEF SbatchGives, SbatchFlags, TakesValue, MayTakeValue
<1>10. SbatchGives(cmd)["-d"] = {DependencyText(v) : v \in cmd.dependency}
  BY DEF SbatchGives, SbatchFlags, TakesValue, MayTakeValue
<1>11. SbatchGives(cmd)["--mail-user"] = cmd.mail_user
  BY DEF SbatchGives, SbatchFlags, TakesValue, MayTakeValue
<1>12. SbatchGives(cmd)["--mail-type"] = {MailTypesText(v) : v \in cmd.mail_types}
  BY DEF SbatchGives, SbatchFlags, TakesValue, MayTakeValue
<1>13. SbatchGives(cmd)["--signal"] = {SignalText(v) : v \in cmd.signal}
  BY DEF SbatchGives, SbatchFlags, TakesValue, MayTakeValue
<1>14. SbatchGives(cmd)["--no-requeue"] = IF cmd.no_requeue THEN {<<>>} ELSE {}
  BY DEF SbatchGives, SbatchFlags, TakesValue, MayTakeValue
<1>15. SbatchGives(cmd)["--comment"] = cmd.comment
  BY DEF SbatchGives, SbatchFlags, TakesValue, MayTakeValue
<1>16. SbatchGives(cmd)["--nice"] = {SignedText(n) : n \in cmd.nice}
  BY DEF SbatchGives, SbatchFlags, TakesValue, MayTakeValue
<1> QED
  BY <1>1, <1>2, <1>3, <1>4, <1>5, <1>6, <1>7, <1>8, <1>9, <1>10, <1>11, <1>12, <1>13, <1>14, <1>15, <1>16, Zenon

\* Each of them is an Option.
LEMMA GivesOptions ==
    ASSUME NEW T, NEW cmd, SbatchForm(T, cmd), NEW f \in SbatchFlags,
           NEW x \in SbatchGives(cmd)[f], NEW y \in SbatchGives(cmd)[f]
    PROVE  x = y
<1> DEFINE given == SbatchGives(cmd)
<1>1. \A g \in TextOptions \cup ValueOptions : \A v, w \in cmd[g] : v = w
  BY DEF SbatchForm
<1>2. CASE f = "-J"
  <2>1. x \in cmd.job_name /\ y \in cmd.job_name
    BY <1>2, GivesEach
  <2> QED
    BY <1>1, <2>1 DEF TextOptions
<1>3. CASE f = "-p"
  <2>1. x \in cmd.partition /\ y \in cmd.partition
    BY <1>3, GivesEach
  <2> QED
    BY <1>1, <2>1 DEF TextOptions
<1>4. CASE f = "-t"
  <2>1. x \in {TimeText(v) : v \in cmd.time_limit} /\ y \in {TimeText(v) : v \in cmd.time_limit}
    BY <1>4, GivesEach DEF TimeWords
  <2>2. PICK v \in cmd.time_limit, w \in cmd.time_limit : x = TimeText(v) /\ y = TimeText(w)
    BY <2>1
  <2>3. v = w
    BY <1>1 DEF ValueOptions
  <2> QED
    BY <2>2, <2>3
<1>5. CASE f = "--rsc"
  <2>1. x \in {ResourceText(v) : v \in cmd.rsc} /\ y \in {ResourceText(v) : v \in cmd.rsc}
    BY <1>5, GivesEach DEF ResourceWords
  <2>2. PICK v \in cmd.rsc, w \in cmd.rsc : x = ResourceText(v) /\ y = ResourceText(w)
    BY <2>1
  <2>3. v = w
    BY <1>1 DEF ValueOptions
  <2> QED
    BY <2>2, <2>3
<1>6. CASE f = "-o"
  <2>1. x \in cmd.output /\ y \in cmd.output
    BY <1>6, GivesEach
  <2> QED
    BY <1>1, <2>1 DEF TextOptions
<1>7. CASE f = "-e"
  <2>1. x \in cmd.error /\ y \in cmd.error
    BY <1>7, GivesEach
  <2> QED
    BY <1>1, <2>1 DEF TextOptions
<1>8. CASE f = "--chdir"
  <2>1. x \in UNION {Absolutize(p) : p \in cmd.chdir} /\ y \in UNION {Absolutize(p) : p \in cmd.chdir}
    BY <1>8, GivesEach
  <2>2. PICK v \in cmd.chdir, w \in cmd.chdir : x \in Absolutize(v) /\ y \in Absolutize(w)
    BY <2>1
  <2>3. v = w
    BY <1>1 DEF TextOptions
  <2>4. v \in Seq(T)
    BY DEF SbatchForm, TextOptions
  <2> QED
    BY <2>2, <2>3, <2>4, AbsolutizeIs
<1>9. CASE f = "-a"
  <2>1. x \in {ArrayText(v) : v \in cmd.array_spec} /\ y \in {ArrayText(v) : v \in cmd.array_spec}
    BY <1>9, GivesEach
  <2>2. PICK v \in cmd.array_spec, w \in cmd.array_spec : x = ArrayText(v) /\ y = ArrayText(w)
    BY <2>1
  <2>3. v = w
    BY <1>1 DEF ValueOptions
  <2> QED
    BY <2>2, <2>3
<1>10. CASE f = "--export"
  <2>1. given[f] = IF cmd.env = <<>> THEN {} ELSE {RenderExport(cmd.env)}
    BY <1>10, GivesEach
  <2> HIDE DEF given
  <2> QED
    BY <2>1 DEF given
<1>11. CASE f = "-d"
  <2>1. x \in {DependencyText(v) : v \in cmd.dependency} /\ y \in {DependencyText(v) : v \in cmd.dependency}
    BY <1>11, GivesEach
  <2>2. PICK v \in cmd.dependency, w \in cmd.dependency : x = DependencyText(v) /\ y = DependencyText(w)
    BY <2>1
  <2>3. v = w
    BY <1>1 DEF ValueOptions
  <2> QED
    BY <2>2, <2>3
<1>12. CASE f = "--mail-user"
  <2>1. x \in cmd.mail_user /\ y \in cmd.mail_user
    BY <1>12, GivesEach
  <2> QED
    BY <1>1, <2>1 DEF TextOptions
<1>13. CASE f = "--mail-type"
  <2>1. x \in {MailTypesText(v) : v \in cmd.mail_types} /\ y \in {MailTypesText(v) : v \in cmd.mail_types}
    BY <1>13, GivesEach
  <2>2. PICK v \in cmd.mail_types, w \in cmd.mail_types : x = MailTypesText(v) /\ y = MailTypesText(w)
    BY <2>1
  <2>3. v = w
    BY <1>1 DEF ValueOptions
  <2> QED
    BY <2>2, <2>3
<1>14. CASE f = "--signal"
  <2>1. x \in {SignalText(v) : v \in cmd.signal} /\ y \in {SignalText(v) : v \in cmd.signal}
    BY <1>14, GivesEach
  <2>2. PICK v \in cmd.signal, w \in cmd.signal : x = SignalText(v) /\ y = SignalText(w)
    BY <2>1
  <2>3. v = w
    BY <1>1 DEF ValueOptions
  <2> QED
    BY <2>2, <2>3
<1>15. CASE f = "--no-requeue"
  <2>1. given[f] = IF cmd.no_requeue THEN {<<>>} ELSE {}
    BY <1>15, GivesEach
  <2> HIDE DEF given
  <2> QED
    BY <2>1 DEF given
<1>16. CASE f = "--comment"
  <2>1. x \in cmd.comment /\ y \in cmd.comment
    BY <1>16, GivesEach
  <2> QED
    BY <1>1, <2>1 DEF TextOptions
<1>17. CASE f = "--nice"
  <2>1. x \in {SignedText(v) : v \in cmd.nice} /\ y \in {SignedText(v) : v \in cmd.nice}
    BY <1>17, GivesEach
  <2>2. PICK v \in cmd.nice, w \in cmd.nice : x = SignedText(v) /\ y = SignedText(w)
    BY <2>1
  <2>3. v = w
    BY <1>1 DEF ValueOptions
  <2> QED
    BY <2>2, <2>3
<1> QED
  BY <1>2, <1>3, <1>4, <1>5, <1>6, <1>7, <1>8, <1>9, <1>10, <1>11, <1>12, <1>13, <1>14, <1>15, <1>16, <1>17 DEF SbatchFlags, TakesValue, MayTakeValue

LEMMA OptionsAreTold ==
    ASSUME NEW T, NEW cmd, SbatchForm(T, cmd), Exportable(cmd.env)
    PROVE  TellsOptions(SbatchOptionWords(cmd), SbatchGives(cmd), SbatchFlags)
<1> DEFINE given == SbatchGives(cmd)
           words0 == <<Lit("sbatch")>>
           words1 == words0 \o Flag("-J", cmd.job_name)
           words2 == words1 \o Flag("-p", cmd.partition)
           words3 == words2 \o Flag("-t", TimeWords(cmd.time_limit))
           words4 == words3 \o Flag("--rsc", ResourceWords(cmd.rsc))
           words5 == words4 \o Flag("-o", cmd.output)
           words6 == words5 \o Flag("-e", cmd.error)
           words7 == words6 \o Flag("--chdir", UNION {Absolutize(p) : p \in cmd.chdir})
           words8 == words7 \o Flag("-a", {ArrayText(v) : v \in cmd.array_spec})
           exports == IF cmd.env = <<>> THEN <<>>
                      ELSE <<Lit("--export") \o (Lit("=") \o RenderExport(cmd.env))>>
           words9 == words8 \o exports
           words10 == words9 \o Flag("-d", {DependencyText(v) : v \in cmd.dependency})
           words11 == words10 \o Flag("--mail-user", cmd.mail_user)
           words12 == words11 \o Flag("--mail-type", {MailTypesText(v) : v \in cmd.mail_types})
           words13 == words12 \o Flag("--signal", {SignalText(v) : v \in cmd.signal})
           words14 == words13 \o Switch("--no-requeue", cmd.no_requeue)
           words15 == words14 \o Flag("--comment", cmd.comment)
           nices == IF cmd.nice = {} THEN <<>>
                    ELSE <<Lit("--nice") \o (Lit("=") \o SignedText(CHOOSE n \in cmd.nice : TRUE))>>
           words16 == words15 \o nices
           told0 == {}
           told1 == told0 \cup {"-J"}
           told2 == told1 \cup {"-p"}
           told3 == told2 \cup {"-t"}
           told4 == told3 \cup {"--rsc"}
           told5 == told4 \cup {"-o"}
           told6 == told5 \cup {"-e"}
           told7 == told6 \cup {"--chdir"}
           told8 == told7 \cup {"-a"}
           told9 == told8 \cup {"--export"}
           told10 == told9 \cup {"-d"}
           told11 == told10 \cup {"--mail-user"}
           told12 == told11 \cup {"--mail-type"}
           told13 == told12 \cup {"--signal"}
           told14 == told13 \cup {"--no-requeue"}
           told15 == told14 \cup {"--comment"}
           told16 == told15 \cup {"--nice"}
<1>a. \A f \in SbatchFlags : \A x, y \in given[f] : x = y
  BY GivesOptions
<1>b. TakesValue \subseteq SbatchFlags
  BY DEF SbatchFlags
<1>c. words16 = SbatchOptionWords(cmd)
  BY DEF SbatchOptionWords
<1>d. told16 = SbatchFlags
  BY DEF SbatchFlags, TakesValue, MayTakeValue
<1>e. TellsOptions(words0, given, told0)
  <2>1. Told(given, {}) = {}
    BY DEF Told
  <2> QED
    BY <2>1, OneWordRead DEF TellsOptions, LineOfOptions, NoWordRead
<1> HIDE DEF given, words0, told0, words1, told1, words2, told2, words3, told3, words4, told4, words5, told5, words6, told6, words7, told7, words8, told8, words9, told9, words10, told10, words11, told11, words12, told12, words13, told13, words14, told14, words15, told15, words16, told16, exports, nices
<1>1. TellsOptions(words1, given, told1)
  <2> DEFINE option == cmd.job_name
  <2>1. "-J" \in TakesValue /\ given["-J"] = option
    BY GivesEach DEF TakesValue, given
  <2>2. \A x, y \in option : x = y
    BY <1>a, <1>b, <2>1
  <2> HIDE DEF option
  <2> QED
    BY <1>e, <2>1, <2>2, FlagIsTold DEF words1, told1, option
<1>2. TellsOptions(words2, given, told2)
  <2> DEFINE option == cmd.partition
  <2>1. "-p" \in TakesValue /\ given["-p"] = option
    BY GivesEach DEF TakesValue, given
  <2>2. \A x, y \in option : x = y
    BY <1>a, <1>b, <2>1
  <2> HIDE DEF option
  <2> QED
    BY <1>1, <2>1, <2>2, FlagIsTold DEF words2, told2, option
<1>3. TellsOptions(words3, given, told3)
  <2> DEFINE option == TimeWords(cmd.time_limit)
  <2>1. "-t" \in TakesValue /\ given["-t"] = option
    BY GivesEach DEF TakesValue, given
  <2>2. \A x, y \in option : x = y
    BY <1>a, <1>b, <2>1
  <2> HIDE DEF option
  <2> QED
    BY <1>2, <2>1, <2>2, FlagIsTold DEF words3, told3, option
<1>4. TellsOptions(words4, given, told4)
  <2> DEFINE option == ResourceWords(cmd.rsc)
  <2>1. "--rsc" \in TakesValue /\ given["--rsc"] = option
    BY GivesEach DEF TakesValue, given
  <2>2. \A x, y \in option : x = y
    BY <1>a, <1>b, <2>1
  <2> HIDE DEF option
  <2> QED
    BY <1>3, <2>1, <2>2, FlagIsTold DEF words4, told4, option
<1>5. TellsOptions(words5, given, told5)
  <2> DEFINE option == cmd.output
  <2>1. "-o" \in TakesValue /\ given["-o"] = option
    BY GivesEach DEF TakesValue, given
  <2>2. \A x, y \in option : x = y
    BY <1>a, <1>b, <2>1
  <2> HIDE DEF option
  <2> QED
    BY <1>4, <2>1, <2>2, FlagIsTold DEF words5, told5, option
<1>6. TellsOptions(words6, given, told6)
  <2> DEFINE option == cmd.error
  <2>1. "-e" \in TakesValue /\ given["-e"] = option
    BY GivesEach DEF TakesValue, given
  <2>2. \A x, y \in option : x = y
    BY <1>a, <1>b, <2>1
  <2> HIDE DEF option
  <2> QED
    BY <1>5, <2>1, <2>2, FlagIsTold DEF words6, told6, option
<1>7. TellsOptions(words7, given, told7)
  <2> DEFINE option == UNION {Absolutize(p) : p \in cmd.chdir}
  <2>1. "--chdir" \in TakesValue /\ given["--chdir"] = option
    BY GivesEach DEF TakesValue, given
  <2>2. \A x, y \in option : x = y
    BY <1>a, <1>b, <2>1
  <2> HIDE DEF option
  <2> QED
    BY <1>6, <2>1, <2>2, FlagIsTold DEF words7, told7, option
<1>8. TellsOptions(words8, given, told8)
  <2> DEFINE option == {ArrayText(v) : v \in cmd.array_spec}
  <2>1. "-a" \in TakesValue /\ given["-a"] = option
    BY GivesEach DEF TakesValue, given
  <2>2. \A x, y \in option : x = y
    BY <1>a, <1>b, <2>1
  <2> HIDE DEF option
  <2> QED
    BY <1>7, <2>1, <2>2, FlagIsTold DEF words8, told8, option
<1>9. TellsOptions(words9, given, told9)
  <2> DEFINE v == RenderExport(cmd.env)
  <2>1. "--export" \in TakesValue \cup MayTakeValue
    BY DEF TakesValue
  <2>2. v \in Seq(WordLexemes(T))
    BY ExportIsRead DEF SbatchForm
  <2>3. \/ exports = <<>> /\ given["--export"] = {}
        \/ /\ exports = <<Lit("--export") \o (Lit("=") \o v)>>
           /\ v \in Seq(WordLexemes(T)) /\ given["--export"] = {v}
    <3>1. given["--export"] = IF cmd.env = <<>> THEN {} ELSE {v}
      BY GivesEach DEF given
    <3> HIDE DEF v
    <3> QED
      BY <2>2, <3>1 DEF exports, v
  <2> HIDE DEF v
  <2> QED
    BY <1>8, <2>1, <2>3, LongIsTold DEF words9, told9
<1>10. TellsOptions(words10, given, told10)
  <2> DEFINE option == {DependencyText(v) : v \in cmd.dependency}
  <2>1. "-d" \in TakesValue /\ given["-d"] = option
    BY GivesEach DEF TakesValue, given
  <2>2. \A x, y \in option : x = y
    BY <1>a, <1>b, <2>1
  <2> HIDE DEF option
  <2> QED
    BY <1>9, <2>1, <2>2, FlagIsTold DEF words10, told10, option
<1>11. TellsOptions(words11, given, told11)
  <2> DEFINE option == cmd.mail_user
  <2>1. "--mail-user" \in TakesValue /\ given["--mail-user"] = option
    BY GivesEach DEF TakesValue, given
  <2>2. \A x, y \in option : x = y
    BY <1>a, <1>b, <2>1
  <2> HIDE DEF option
  <2> QED
    BY <1>10, <2>1, <2>2, FlagIsTold DEF words11, told11, option
<1>12. TellsOptions(words12, given, told12)
  <2> DEFINE option == {MailTypesText(v) : v \in cmd.mail_types}
  <2>1. "--mail-type" \in TakesValue /\ given["--mail-type"] = option
    BY GivesEach DEF TakesValue, given
  <2>2. \A x, y \in option : x = y
    BY <1>a, <1>b, <2>1
  <2> HIDE DEF option
  <2> QED
    BY <1>11, <2>1, <2>2, FlagIsTold DEF words12, told12, option
<1>13. TellsOptions(words13, given, told13)
  <2> DEFINE option == {SignalText(v) : v \in cmd.signal}
  <2>1. "--signal" \in TakesValue /\ given["--signal"] = option
    BY GivesEach DEF TakesValue, given
  <2>2. \A x, y \in option : x = y
    BY <1>a, <1>b, <2>1
  <2> HIDE DEF option
  <2> QED
    BY <1>12, <2>1, <2>2, FlagIsTold DEF words13, told13, option
<1>14. TellsOptions(words14, given, told14)
  <2>1. "--no-requeue" \in TakesNone /\ given["--no-requeue"] = IF cmd.no_requeue THEN {<<>>} ELSE {}
    BY GivesEach DEF TakesNone, given
  <2> QED
    BY <1>13, <2>1, SwitchIsTold DEF words14, told14
<1>15. TellsOptions(words15, given, told15)
  <2> DEFINE option == cmd.comment
  <2>1. "--comment" \in TakesValue /\ given["--comment"] = option
    BY GivesEach DEF TakesValue, given
  <2>2. \A x, y \in option : x = y
    BY <1>a, <1>b, <2>1
  <2> HIDE DEF option
  <2> QED
    BY <1>14, <2>1, <2>2, FlagIsTold DEF words15, told15, option
<1>16. TellsOptions(words16, given, told16)
  <2> DEFINE m == CHOOSE n \in cmd.nice : TRUE
             v == SignedText(m)
  <2>1. "--nice" \in TakesValue \cup MayTakeValue
    BY DEF MayTakeValue
  <2>2. cmd.nice \subseteq Int /\ \A x, y \in cmd.nice : x = y
    BY DEF SbatchForm, ValueOptions
  <2>3. given["--nice"] = {SignedText(n) : n \in cmd.nice}
    BY GivesEach DEF given
  <2>4. \/ nices = <<>> /\ given["--nice"] = {}
        \/ /\ nices = <<Lit("--nice") \o (Lit("=") \o v)>>
           /\ v \in Seq(WordLexemes(T)) /\ given["--nice"] = {v}
    <3>1. CASE cmd.nice = {}
      BY <2>3, <3>1 DEF nices
    <3>2. CASE cmd.nice # {}
      <4>1. m \in cmd.nice /\ m \in Int
        BY <2>2, <3>2
      <4>2. cmd.nice = {m}
        BY <2>2, <4>1
      <4>3. nices = <<Lit("--nice") \o (Lit("=") \o v)>>
        BY <3>2, Zenon DEF nices
      <4> HIDE DEF m
      <4>4. given["--nice"] = {v}
        BY <2>3, <4>2, Zenon
      <4>5. v \in Seq(WordLexemes(T))
        BY <4>1, SignedIsText
      <4> QED
        BY <4>3, <4>4, <4>5
    <3> QED
      BY <3>1, <3>2
  <2> HIDE DEF m, v
  <2> QED
    BY <1>15, <2>1, <2>4, LongIsTold DEF words16, told16
<1> QED
  BY <1>c, <1>d, <1>16 DEF given

\* A command line, from its script on.
LEMMA LineWithScript ==
    ASSUME NEW T, NEW before, NEW given, NEW S, TellsOptions(before, given, S),
           NEW path \in Seq(T), NEW script \in Absolutize(path), NEW args, AreWords(args)
    PROVE  ReadArgv(before \o <<script>> \o args) = LineRead({}, Told(given, S), <<script>> \o args)
<1> DEFINE values == Told(given, S)
           one == before \o <<script>>
<1>1. AreWords(before) /\ before # <<>> /\ ReadArgv(before) = LineRead({}, values, <<>>)
  BY DEF TellsOptions, LineOfOptions
<1>2. script \in Seq(WordLexemes(T)) /\ script # <<>> /\ script[1] = Sign("/")
  <2>1. path # <<>>
    BY AbsolutizeIs
  <2>2. PICK q \in Seq(WordLexemes(T)) : Absolutize(path) = {q} /\ q # <<>> /\ q[1] = Sign("/")
    BY <2>1, AbsolutizeIs
  <2>3. script = q
    BY <2>2
  <2> QED
    BY <2>2, <2>3
<1>3. one = Append(before, script)
  BY <1>1, WordsAppended
<1> HIDE DEF values, one
<1>4. AreWords(one) /\ one # <<>> /\ ReadArgv(one) = ReadWord(LineRead({}, values, <<>>), script)
  BY <1>1, <1>3, OneMoreWordRead
<1>5. ReadArgv(one) = LineRead({}, values, <<script>>)
  BY <1>2, <1>4, ScriptIsRead
<1>6. ReadArgv(one \o args) = LineRead({}, values, <<script>> \o args)
  BY <1>4, <1>5, ArgumentsAreRead
<1> QED
  BY <1>6 DEF one, values

\* What is behind the options of a command line.
LEMMA RestOfLine ==
    ASSUME NEW script, NEW args, AreWords(args)
    PROVE  Head(<<script>> \o args) = script /\ Tail(<<script>> \o args) = args
<1>1. PICK X : args \in Seq(X)
  BY DEF AreWords
<1> DEFINE W == X \cup {script}
           one == <<script>>
<1>2. args \in Seq(W) /\ script \in W
  BY <1>1, LexemesIn
<1> HIDE DEF W
<1>3. one \in Seq(W) /\ Len(one) = 1 /\ one[1] = script
  BY <1>2
<1> HIDE DEF one
<1> DEFINE all == one \o args
<1>4. /\ all \in Seq(W) /\ Len(all) = 1 + Len(args) /\ Len(args) \in Nat
      /\ \A i \in 1..(1 + Len(args)) : all[i] = IF i <= 1 THEN one[i] ELSE args[i - 1]
  <2>1. /\ all \in Seq(W) /\ Len(all) = Len(one) + Len(args)
        /\ \A i \in 1..Len(one) + Len(args) : all[i] = IF i <= Len(one) THEN one[i] ELSE args[i - Len(one)]
    BY <1>2, <1>3, ConcatProperties
  <2>2. Len(args) \in Nat
    BY <1>2, LenProperties
  <2> HIDE DEF all
  <2> QED
    BY <1>3, <2>1, <2>2
<1> HIDE DEF all
<1>5. all # <<>> /\ Head(all) = script
  BY <1>3, <1>4
<1> DEFINE rest == Tail(all)
<1>6. rest \in Seq(W) /\ Len(rest) = Len(args) /\ \A i \in 1..Len(args) : rest[i] = all[i + 1]
  BY <1>4, <1>5
<1>7. \A i \in 1..Len(args) : rest[i] = args[i]
  <2> SUFFICES ASSUME NEW i \in 1..Len(args)
               PROVE  all[i + 1] = args[i]
    BY <1>6
  <2>1. i + 1 \in 1..(1 + Len(args)) /\ ~(i + 1 <= 1) /\ (i + 1) - 1 = i
    BY <1>4
  <2> QED
    BY <1>4, <2>1
<1> HIDE DEF rest
<1>8. rest = args
  BY <1>2, <1>6, <1>7, SeqEqual
<1> QED
  BY <1>5, <1>8 DEF rest, all, one

\* When a command has a command line: if its script and its directory have names, and the
\* list of sbatch can hold its variables.
LEMMA SbatchArgvIs ==
    ASSUME NEW T, NEW cmd, SbatchForm(T, cmd)
    PROVE  /\ SbatchArgv(cmd) = {SbatchOptionWords(cmd) \o <<script>> \o cmd.args :
                  script \in {s \in Absolutize(cmd.script) :
                                 Exportable(cmd.env) /\ \A p \in cmd.chdir : Absolutize(p) # {}}}
           /\ SbatchArgv(cmd) = {} <=> \/ cmd.script = <<>> \/ ~Exportable(cmd.env) \/ cmd.chdir = {<<>>}
<1> DEFINE scripts == {s \in Absolutize(cmd.script) :
                          Exportable(cmd.env) /\ \A p \in cmd.chdir : Absolutize(p) # {}}
<1>1. SbatchArgv(cmd) = {SbatchOptionWords(cmd) \o <<script>> \o cmd.args : script \in scripts}
  BY Zenon DEF SbatchArgv, SbatchOptionWords
<1>2. SbatchArgv(cmd) = {} <=> scripts = {}
  <2> DEFINE argv(script) == SbatchOptionWords(cmd) \o <<script>> \o cmd.args
  <2> HIDE DEF scripts, argv
  <2>1. SbatchArgv(cmd) = {argv(script) : script \in scripts}
    BY <1>1, Zenon DEF argv
  <2> QED
    BY <2>1
<1>3. cmd.script \in Seq(T) /\ cmd.chdir \subseteq Seq(T) /\ \A x, y \in cmd.chdir : x = y
  BY DEF SbatchForm, TextOptions
<1>4. Absolutize(cmd.script) = {} <=> cmd.script = <<>>
  BY <1>3, AbsolutizeIs
<1>5. \A p \in cmd.chdir : Absolutize(p) = {} <=> p = <<>>
  BY <1>3, AbsolutizeIs
<1>6. (\E p \in cmd.chdir : Absolutize(p) = {}) <=> cmd.chdir = {<<>>}
  BY <1>3, <1>5
<1>7. scripts = {} <=> \/ Absolutize(cmd.script) = {} \/ ~Exportable(cmd.env)
                       \/ \E p \in cmd.chdir : Absolutize(p) = {}
  OBVIOUS
<1> HIDE DEF scripts
<1>8. SbatchArgv(cmd) = {} <=> \/ cmd.script = <<>> \/ ~Exportable(cmd.env) \/ cmd.chdir = {<<>>}
  BY <1>2, <1>4, <1>6, <1>7
<1> QED
  BY <1>1, <1>8 DEF scripts

\* What sbatch makes of the words of a command line is what the command gives.
LEMMA SbatchReads ==
    ASSUME NEW T, NEW cmd, SbatchForm(T, cmd), NEW argv \in SbatchArgv(cmd)
    PROVE  LET line == ReadArgv(argv)
           IN  /\ \A f \in SbatchFlags : ValueOf(line, f) = SbatchGives(cmd)[f]
               /\ Head(line.rest) \in Absolutize(cmd.script) /\ Tail(line.rest) = cmd.args
               /\ line.open = {} /\ Exportable(cmd.env) /\ \A p \in cmd.chdir : p # <<>>
<1> DEFINE line == ReadArgv(argv)
           before == SbatchOptionWords(cmd)
           given == SbatchGives(cmd)
           scripts == {s \in Absolutize(cmd.script) :
                          Exportable(cmd.env) /\ \A p \in cmd.chdir : Absolutize(p) # {}}
<1>1. PICK script \in scripts : argv = before \o <<script>> \o cmd.args
  BY SbatchArgvIs, Zenon
<1>2. script \in Absolutize(cmd.script) /\ Exportable(cmd.env) /\ \A p \in cmd.chdir : Absolutize(p) # {}
  OBVIOUS
<1>3. cmd.script \in Seq(T) /\ AreWords(cmd.args) /\ cmd.chdir \subseteq Seq(T)
  BY DEF SbatchForm, AreWords, TextOptions
<1>4. TellsOptions(before, given, SbatchFlags)
  BY <1>2, OptionsAreTold
<1> HIDE DEF before, given, scripts
<1>5. line = LineRead({}, Told(given, SbatchFlags), <<script>> \o cmd.args)
  BY <1>1, <1>2, <1>3, <1>4, LineWithScript
<1> HIDE DEF line
<1>6. /\ line.open = {} /\ line.values = Told(given, SbatchFlags)
      /\ line.rest = <<script>> \o cmd.args
  <2> DEFINE told == Told(given, SbatchFlags)
             words == <<script>> \o cmd.args
  <2>1. line = LineRead({}, told, words)
    BY <1>5
  <2> HIDE DEF told, words
  <2>2. line.open = {} /\ line.values = told /\ line.rest = words
    BY <2>1, LineFields
  <2> QED
    BY <2>2 DEF told, words
<1>7. Head(line.rest) = script /\ Tail(line.rest) = cmd.args
  BY <1>3, <1>6, RestOfLine
<1>8. \A f \in SbatchFlags : ValueOf(line, f) = given[f]
  BY <1>6, ToldIs
<1>9. \A p \in cmd.chdir : p # <<>>
  BY <1>2, <1>3, AbsolutizeIs
<1> QED
  BY <1>2, <1>6, <1>7, <1>8, <1>9 DEF line, given

-----------------------------------------------------------------------------
(* The values of the options, as their texts are read back. *)

\* An option is missing, or is one value.
LEMMA MissingOrOne ==
    ASSUME NEW option, \A x, y \in option : x = y
    PROVE  option = {} \/ \E v \in option : option = {v}
OBVIOUS

LEMMA LimitsAreRead ==
    ASSUME NEW limits, limits \subseteq 1..MaxU32, \A x, y \in limits : x = y
    PROVE  UNION {ParseTimeLimit(t) : t \in TimeWords(limits)} = limits
<1>1. CASE limits = {}
  BY <1>1 DEF TimeWords
<1>2. CASE limits # {}
  <2>1. PICK v \in limits : limits = {v}
    BY <1>2, MissingOrOne
  <2>2. ParseTimeLimit(TimeText(v)) = {v}
    BY LimitIsRead
  <2>3. TimeWords(limits) = {TimeText(v)}
    BY <2>1, Zenon DEF TimeWords
  <2>4. UNION {ParseTimeLimit(t) : t \in {TimeText(v)}} = ParseTimeLimit(TimeText(v))
    BY Zenon
  <2> QED
    BY <2>1, <2>2, <2>3, <2>4, Zenon
<1> QED
  BY <1>1, <1>2

\* No resources print as nothing, and nothing is no specification.
LEMMA NoResourcesText ==
    ResourceText(NoResources) = <<>> /\ ParseResourceSpec(<<>>) = {}
<1> DEFINE places == GivenPlaces(NoResources)
           n == Cardinality(places)
           texts == [i \in 1..n |-> TokenText(KeyAt(NoResources, i), CHOOSE v \in NoResources[KeyAt(NoResources, i)] : TRUE)]
<1>1. ResourceText(NoResources) = Join(texts, ":")
  BY KeysInOrder DEF ResourceText, TokenText, KeyAt, GivenPlaces
<1>2. places = {}
  <2>1. \A i \in 1..5 : KeyOrder[i] \in ResourceKeys
    BY KeysInOrder DEF ResourceKeys, CpuKeys
  <2>2. \A k \in ResourceKeys : NoResources[k] = {}
    BY DEF NoResources, ResourceKeys
  <2> QED
    BY <2>1, <2>2 DEF GivenPlaces
<1>3. n = 0
  BY <1>2, FS_EmptySet
<1>4. DOMAIN texts = {}
  BY <1>3
<1> HIDE DEF texts
<1>5. ResourceText(NoResources) = <<>>
  BY <1>1, <1>4, JoinNone
<1>6. ParseResourceSpec(<<>>) = {}
  <2>1. Split(<<>>, ":") = <<<<>>>> /\ SplitOnce(<<>>, "=") = <<<<>>>>
    BY SplitNone
  <2> DEFINE tokens == <<<<>>>>
  <2>2. 1 \in DOMAIN tokens /\ SplitOnce(tokens[1], "=") = <<<<>>>>
    BY <2>1
  <2>3. Len(<<<<>>>>) = 1
    OBVIOUS
  <2> HIDE DEF tokens
  <2>4. \E i \in DOMAIN tokens : Len(SplitOnce(tokens[i], "=")) = 1
    BY <2>2, <2>3
  <2>5. ParseTokens(tokens) = {}
    BY <2>4, TokenForms
  <2> QED
    BY <2>1, <2>5 DEF ParseResourceSpec, tokens
<1> QED
  BY <1>5, <1>6

LEMMA ResourceWordsAreRead ==
    ASSUME NEW specs, \A x, y \in specs : x = y, \A spec \in specs : ResourceForm(spec)
    PROVE  {ParseResourceSpec(t) : t \in ResourceWords(specs)} = {{r} : r \in specs \ {NoResources}}
<1>1. CASE specs = {}
  BY <1>1 DEF ResourceWords
<1>2. CASE specs # {}
  <2>1. PICK v \in specs : specs = {v}
    BY <1>2, MissingOrOne
  <2>2. ResourceForm(v)
    OBVIOUS
  <2>3. ResourceWords(specs) = {ResourceText(v)} \ {<<>>}
    BY <2>1, Zenon DEF ResourceWords
  <2>4. CASE v = NoResources
    <3>1. ResourceWords(specs) = {}
      BY <2>3, <2>4, NoResourcesText
    <3>2. specs \ {NoResources} = {}
      BY <2>1, <2>4
    <3> QED
      BY <3>1, <3>2
  <2>5. CASE v # NoResources
    <3>1. ParseResourceSpec(ResourceText(v)) = {v}
      BY <2>2, <2>5, ResourcesAreRead, NothingGivenIsNone
    <3>2. ResourceText(v) # <<>>
      BY <3>1, NoResourcesText
    <3>3. ResourceWords(specs) = {ResourceText(v)}
      BY <2>3, <3>2
    <3>4. specs \ {NoResources} = {v}
      BY <2>1, <2>5
    <3>5. {ParseResourceSpec(t) : t \in {ResourceText(v)}} = {ParseResourceSpec(ResourceText(v))}
      BY Zenon
    <3>6. {{r} : r \in {v}} = {{v}}
      BY Zenon
    <3> QED
      BY <3>1, <3>3, <3>4, <3>5, <3>6, Zenon
  <2> QED
    BY <2>4, <2>5
<1> QED
  BY <1>1, <1>2

LEMMA ArraysAreRead ==
    ASSUME NEW specs, \A x, y \in specs : x = y, specs \subseteq PySpecs,
           \A spec \in specs : SpecAccepted(spec)
    PROVE  UNION {ParseArraySpec(t) : t \in {ArrayText(v) : v \in specs}} = specs
<1>1. CASE specs = {}
  BY <1>1
<1>2. CASE specs # {}
  <2>1. PICK v \in specs : specs = {v}
    BY <1>2, MissingOrOne
  <2>2. ParseArraySpec(ArrayText(v)) = {v}
    BY SpecIsRead
  <2>3. UNION {ParseArraySpec(t) : t \in {ArrayText(w) : w \in {v}}} = ParseArraySpec(ArrayText(v))
    BY Zenon
  <2> QED
    BY <2>1, <2>2, <2>3, Zenon
<1> QED
  BY <1>1, <1>2

LEMMA DependenciesAreRead ==
    ASSUME NEW ds, \A x, y \in ds : x = y, ds \subseteq PyDeps,
           \A d \in ds : DependencyAccepted(d) /\ CanonicalDependency(d) = d
    PROVE  UNION {ParseDependency(t) : t \in {DependencyText(v) : v \in ds}} = ds
<1>1. CASE ds = {}
  BY <1>1
<1>2. CASE ds # {}
  <2>1. PICK v \in ds : ds = {v}
    BY <1>2, MissingOrOne
  <2>2. ParseDependency(DependencyText(v)) = {v}
    <3>1. DependencyAccepted(v) /\ CanonicalDependency(v) = v /\ v \in PyDeps
      OBVIOUS
    <3>2. ParseDependency(DependencyText(v)) = {CanonicalDependency(v)}
      BY <3>1, DependencyIsRead, Zenon
    <3> QED
      BY <3>1, <3>2, Zenon
  <2>3. UNION {ParseDependency(t) : t \in {DependencyText(w) : w \in {v}}} = ParseDependency(DependencyText(v))
    BY Zenon
  <2> QED
    BY <2>1, <2>2, <2>3, Zenon
<1> QED
  BY <1>1, <1>2

LEMMA MailsAreRead ==
    ASSUME NEW mails, \A x, y \in mails : x = y, \A types \in mails : types \in Seq(MailType) /\ types # <<>>
    PROVE  UNION {ParseMailTypes(t) : t \in {MailTypesText(v) : v \in mails}} = mails
<1>1. CASE mails = {}
  BY <1>1
<1>2. CASE mails # {}
  <2>1. PICK v \in mails : mails = {v}
    BY <1>2, MissingOrOne
  <2>2. ParseMailTypes(MailTypesText(v)) = {v}
    BY MailIsRead
  <2>3. UNION {ParseMailTypes(t) : t \in {MailTypesText(w) : w \in {v}}} = ParseMailTypes(MailTypesText(v))
    BY Zenon
  <2> QED
    BY <2>1, <2>2, <2>3, Zenon
<1> QED
  BY <1>1, <1>2

LEMMA SignalsAreRead ==
    ASSUME NEW signals, \A x, y \in signals : x = y, signals \subseteq Signals
    PROVE  UNION {ParseSignalSpec(t) : t \in {SignalText(v) : v \in signals}} = signals
<1>1. CASE signals = {}
  BY <1>1
<1>2. CASE signals # {}
  <2>1. PICK v \in signals : signals = {v}
    BY <1>2, MissingOrOne
  <2>2. ParseSignalSpec(SignalText(v)) = {v}
    BY SignalIsRead
  <2>3. UNION {ParseSignalSpec(t) : t \in {SignalText(w) : w \in {v}}} = ParseSignalSpec(SignalText(v))
    BY Zenon
  <2> QED
    BY <2>1, <2>2, <2>3, Zenon
<1> QED
  BY <1>1, <1>2

LEMMA ExportsAreRead ==
    ASSUME NEW T, NEW env \in Seq(Variables(T)), Exportable(env)
    PROVE  {ExportedIn(t) : t \in IF env = <<>> THEN {} ELSE {RenderExport(env)}} = {env} \ {<<>>}
<1>1. CASE env = <<>>
  BY <1>1
<1>2. CASE env # <<>>
  <2>1. ExportedIn(RenderExport(env)) = env
    BY ExportIsRead
  <2>2. {ExportedIn(t) : t \in {RenderExport(env)}} = {ExportedIn(RenderExport(env))}
    BY Zenon
  <2>3. {env} \ {<<>>} = {env}
    BY <1>2
  <2> QED
    BY <1>2, <2>1, <2>2, <2>3, Zenon
<1> QED
  BY <1>1, <1>2

-----------------------------------------------------------------------------
(* The same of tssrun. *)

TssrunForm(T, cmd) ==
    /\ cmd.partition \subseteq Seq(T) /\ \A x, y \in cmd.partition : x = y
    /\ cmd.time_limit \subseteq 1..MaxU32 /\ \A x, y \in cmd.time_limit : x = y
    /\ \A spec \in cmd.rsc : ResourceForm(spec)
    /\ \A x, y \in cmd.rsc : x = y
    /\ cmd.x11 \in BOOLEAN /\ cmd.program \in Seq(T) /\ cmd.args \in Seq(Seq(T))

TssrunFlags == {"-p", "-t", "--rsc", "--x11"}
TssrunGives(cmd) ==
    [f \in TssrunFlags |->
        CASE f = "-p" -> cmd.partition
          [] f = "-t" -> TimeWords(cmd.time_limit)
          [] f = "--rsc" -> ResourceWords(cmd.rsc)
          [] f = "--x11" -> IF cmd.x11 THEN {<<>>} ELSE {}]
TssrunOptionWords(cmd) ==
    <<Lit("tssrun")>>
        \o Flag("-p", cmd.partition)
        \o Flag("-t", TimeWords(cmd.time_limit))
        \o Flag("--rsc", ResourceWords(cmd.rsc))
        \o Switch("--x11", cmd.x11)

LEMMA TssrunGivesEach ==
    ASSUME NEW cmd
    PROVE  LET given == TssrunGives(cmd)
           IN  /\ given["-p"] = cmd.partition
               /\ given["-t"] = TimeWords(cmd.time_limit)
               /\ given["--rsc"] = ResourceWords(cmd.rsc)
               /\ given["--x11"] = IF cmd.x11 THEN {<<>>} ELSE {}
<1>1. TssrunGives(cmd)["-p"] = cmd.partition
  BY DEF TssrunGives, TssrunFlags
<1>2. TssrunGives(cmd)["-t"] = TimeWords(cmd.time_limit)
  BY DEF TssrunGives, TssrunFlags
<1>3. TssrunGives(cmd)["--rsc"] = ResourceWords(cmd.rsc)
  BY DEF TssrunGives, TssrunFlags
<1>4. TssrunGives(cmd)["--x11"] = IF cmd.x11 THEN {<<>>} ELSE {}
  BY DEF TssrunGives, TssrunFlags
<1> QED
  BY <1>1, <1>2, <1>3, <1>4, Zenon

\* The texts of an option are an option.
LEMMA OneTimeWord ==
    ASSUME NEW limits, \A x, y \in limits : x = y,
           NEW t \in TimeWords(limits), NEW u \in TimeWords(limits)
    PROVE  t = u
<1>1. PICK v \in limits, w \in limits : t = TimeText(v) /\ u = TimeText(w)
  BY DEF TimeWords
<1> QED
  BY <1>1

LEMMA OneResourceWord ==
    ASSUME NEW specs, \A x, y \in specs : x = y,
           NEW t \in ResourceWords(specs), NEW u \in ResourceWords(specs)
    PROVE  t = u
<1>1. PICK v \in specs, w \in specs : t = ResourceText(v) /\ u = ResourceText(w)
  BY DEF ResourceWords
<1>2. v = w
  OBVIOUS
<1> QED
  BY <1>1, <1>2

LEMMA TssrunOptionsAreTold ==
    ASSUME NEW T, NEW cmd, TssrunForm(T, cmd)
    PROVE  TellsOptions(TssrunOptionWords(cmd), TssrunGives(cmd), TssrunFlags)
<1> DEFINE given == TssrunGives(cmd)
           words0 == <<Lit("tssrun")>>
           words1 == words0 \o Flag("-p", cmd.partition)
           words2 == words1 \o Flag("-t", TimeWords(cmd.time_limit))
           words3 == words2 \o Flag("--rsc", ResourceWords(cmd.rsc))
           words4 == words3 \o Switch("--x11", cmd.x11)
           told0 == {}
           told1 == told0 \cup {"-p"}
           told2 == told1 \cup {"-t"}
           told3 == told2 \cup {"--rsc"}
           told4 == told3 \cup {"--x11"}
<1>c. words4 = TssrunOptionWords(cmd)
  BY DEF TssrunOptionWords
<1>d. told4 = TssrunFlags
  BY DEF TssrunFlags
<1>e. TellsOptions(words0, given, told0)
  <2>1. Told(given, {}) = {}
    BY DEF Told
  <2> QED
    BY <2>1, OneWordRead DEF TellsOptions, LineOfOptions, NoWordRead
<1> HIDE DEF given, words0, told0, words1, told1, words2, told2, words3, told3, words4, told4
<1>1. TellsOptions(words1, given, told1)
  <2> DEFINE option == cmd.partition
  <2>1. "-p" \in TakesValue /\ given["-p"] = option
    BY TssrunGivesEach DEF TakesValue, given
  <2>2. \A x, y \in option : x = y
    BY DEF TssrunForm
  <2> HIDE DEF option
  <2> QED
    BY <1>e, <2>1, <2>2, FlagIsTold DEF words1, told1, option
<1>2. TellsOptions(words2, given, told2)
  <2> DEFINE option == TimeWords(cmd.time_limit)
  <2>1. "-t" \in TakesValue /\ given["-t"] = option
    BY TssrunGivesEach DEF TakesValue, given
  <2>2. \A x, y \in option : x = y
    BY OneTimeWord DEF TssrunForm
  <2> HIDE DEF option
  <2> QED
    BY <1>1, <2>1, <2>2, FlagIsTold DEF words2, told2, option
<1>3. TellsOptions(words3, given, told3)
  <2> DEFINE option == ResourceWords(cmd.rsc)
  <2>1. "--rsc" \in TakesValue /\ given["--rsc"] = option
    BY TssrunGivesEach DEF TakesValue, given
  <2>2. \A x, y \in option : x = y
    BY OneResourceWord DEF TssrunForm
  <2> HIDE DEF option
  <2> QED
    BY <1>2, <2>1, <2>2, FlagIsTold DEF words3, told3, option
<1>4. TellsOptions(words4, given, told4)
  <2>1. "--x11" \in TakesNone
    BY DEF TakesNone
  <2>2. given["--x11"] = IF cmd.x11 THEN {<<>>} ELSE {}
    BY TssrunGivesEach DEF given
  <2> QED
    BY <1>3, <2>1, <2>2, SwitchIsTold DEF words4, told4
<1> QED
  BY <1>c, <1>d, <1>4 DEF given

LEMMA TssrunArgvIs ==
    ASSUME NEW T, NEW cmd, TssrunForm(T, cmd)
    PROVE  /\ TssrunArgv(cmd) = {TssrunOptionWords(cmd) \o <<program>> \o cmd.args :
                                    program \in Absolutize(cmd.program)}
           /\ TssrunArgv(cmd) = {} <=> cmd.program = <<>>
<1> DEFINE argv(program) == TssrunOptionWords(cmd) \o <<program>> \o cmd.args
<1>1. TssrunArgv(cmd) = {argv(program) : program \in Absolutize(cmd.program)}
  BY Zenon DEF TssrunArgv, TssrunOptionWords
<1>2. Absolutize(cmd.program) = {} <=> cmd.program = <<>>
  <2>1. cmd.program \in Seq(T)
    BY DEF TssrunForm
  <2> QED
    BY <2>1, AbsolutizeIs
<1>3. TssrunArgv(cmd) = {} <=> Absolutize(cmd.program) = {}
  <2> HIDE DEF argv
  <2> QED
    BY <1>1
<1> QED
  BY <1>1, <1>2, <1>3

\* What tssrun makes of the words of a command line is what the command gives.
LEMMA TssrunReads ==
    ASSUME NEW T, NEW cmd, TssrunForm(T, cmd), NEW argv \in TssrunArgv(cmd)
    PROVE  LET line == ReadArgv(argv)
           IN  /\ \A f \in TssrunFlags : ValueOf(line, f) = TssrunGives(cmd)[f]
               /\ Head(line.rest) \in Absolutize(cmd.program) /\ Tail(line.rest) = cmd.args
               /\ line.open = {}
<1> DEFINE line == ReadArgv(argv)
           before == TssrunOptionWords(cmd)
           given == TssrunGives(cmd)
<1>1. PICK program \in Absolutize(cmd.program) : argv = before \o <<program>> \o cmd.args
  BY TssrunArgvIs, Zenon
<1>2. cmd.program \in Seq(T) /\ AreWords(cmd.args)
  BY DEF TssrunForm, AreWords
<1>3. TellsOptions(before, given, TssrunFlags)
  BY TssrunOptionsAreTold
<1> HIDE DEF before, given
<1>4. line = LineRead({}, Told(given, TssrunFlags), <<program>> \o cmd.args)
  BY <1>1, <1>2, <1>3, LineWithScript
<1> HIDE DEF line
<1>5. /\ line.open = {} /\ line.values = Told(given, TssrunFlags)
      /\ line.rest = <<program>> \o cmd.args
  <2> DEFINE told == Told(given, TssrunFlags)
             words == <<program>> \o cmd.args
  <2>1. line = LineRead({}, told, words)
    BY <1>4
  <2> HIDE DEF told, words
  <2>2. line.open = {} /\ line.values = told /\ line.rest = words
    BY <2>1, LineFields
  <2> QED
    BY <2>2 DEF told, words
<1>6. Head(line.rest) = program /\ Tail(line.rest) = cmd.args
  BY <1>2, <1>5, RestOfLine
<1>7. \A f \in TssrunFlags : ValueOf(line, f) = given[f]
  BY <1>5, ToldIs
<1> QED
  BY <1>1, <1>5, <1>6, <1>7 DEF line, given
=============================================================================
