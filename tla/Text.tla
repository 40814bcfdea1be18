-------------------------------- MODULE Text --------------------------------
(***************************************************************************)
(* Texts as the parsers of the option values and of the queries take them  *)
(* apart: sequences of lexemes.  A lexeme is a number, whatever its        *)
(* spelling, or a word or sign that stands for itself; two numbers never   *)
(* stand side by side, since their digits would be one number.             *)
(*                                                                         *)
(* An Option, or a Result, is a set of at most one value.                  *)
(***************************************************************************)
EXTENDS Integers, Sequences, FiniteSets, SequencesExt

CONSTANTS
    MaxU32,     \* the largest u32
    MaxU64      \* the largest u64

ASSUME TextAssumption == MaxU32 \in Nat /\ MaxU64 \in Nat /\ MaxU32 < MaxU64

Sign(c) == [is |-> c, of |-> 0]
Number(n) == [is |-> "number", of |-> n]

\* The text of one lexeme.
Lit(c) == <<Sign(c)>>
Dec(n) == <<Number(n)>>

\* str::split_once(c): the text, or what is before and what is after the first c.
SplitOnce(t, c) ==
    LET cuts == {i \in DOMAIN t : t[i] = Sign(c)}
        first == CHOOSE i \in cuts : \A j \in cuts : i <= j
    IN  IF cuts = {} THEN <<t>> ELSE <<SubSeq(t, 1, first - 1), SubSeq(t, first + 1, Len(t))>>

\* The k-th of some numbers.
Nth(S, k) == CHOOSE i \in S : Cardinality({j \in S : j < i}) = k - 1

\* str::split(c): the parts between the c's, an empty one where nothing is.
Split(t, c) ==
    LET cuts == {0, Len(t) + 1} \cup {i \in DOMAIN t : t[i] = Sign(c)}
    IN  [k \in 1..(Cardinality(cuts) - 1) |-> SubSeq(t, Nth(cuts, k) + 1, Nth(cuts, k + 1) - 1)]

Join(parts, c) ==
    FlattenSeq([i \in DOMAIN parts |-> IF i = 1 THEN parts[i] ELSE Lit(c) \o parts[i]])

\* str::parse() of an unsigned integer up to max, which takes a leading + too.
ParseUnsigned(t, max) ==
    {n \in {t[i].of : i \in DOMAIN t} : n \in 0..max /\ t \in {Dec(n), Lit("+") \o Dec(n)}}

U32(t) == ParseUnsigned(t, MaxU32)
U64(t) == ParseUnsigned(t, MaxU64)

\* NonZeroU32::new() of what U32 reads.
NonZeroU32(t) == U32(t) \ {0}

\* collect::<Result<Vec<_>, _>>(): all the values, or an error if one is missing.
Collect(options) ==
    IF \E i \in DOMAIN options : options[i] = {} THEN {}
    ELSE {[i \in DOMAIN options |-> CHOOSE v \in options[i] : TRUE]}
=============================================================================
