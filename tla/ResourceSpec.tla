----------------------------- MODULE ResourceSpec -----------------------------
(***************************************************************************)
(* The --rsc option (entities/slurm/sbatch_options/resource_spec.rs):      *)
(* processes, threads, cores and memory, each of them if it is given, or   *)
(* else GPUs.                                                              *)
(***************************************************************************)
EXTENDS Text

CpuKeys == {"p", "t", "c", "m"}
Counts == {"p", "t", "c", "g"}

MemoryUnit == {"K", "M", "G", "T"}
Memory(n, u) == [value |-> n, unit |-> u]
MemoryText(m) == Dec(m.value) \o Lit(m.unit)

\* A last character that is a digit is no unit, and the unit is M then.
ParseMemory(t) ==
    IF t = <<>> THEN {}
    ELSE IF Last(t).is = "number" THEN {Memory(n, "M") : n \in NonZeroU32(t)}
    ELSE {Memory(n, u) : n \in NonZeroU32(Front(t)),
                         u \in {v \in MemoryUnit : Last(t) = Sign(v)}}

\* A specification has an Option for each key.  p, t, c and g hold numbers, m memory.
NoResources == [k \in CpuKeys \cup {"g"} |-> {}]
Given(spec) == {k \in DOMAIN spec : spec[k] # {}}

\* from_parts(): the keys of one flavour, and no 0.  All of them may be missing.
FromParts(parts) ==
    IF \/ parts["g"] # {} /\ Given(parts) \cap CpuKeys # {}
       \/ \E k \in Counts : parts[k] = {0}
    THEN {} ELSE {parts}

\* What Python's ResourceSpec(...) makes of its arguments: it checks by itself, and asks
\* neither from_parts() nor the parser.
PyResourceSpec(parts) ==
    LET zero == \E k \in Counts : parts[k] = {0}
        cpu == Given(parts) \cap CpuKeys # {}
    IN  CASE zero -> {}
          [] ~zero /\ cpu /\ parts["g"] # {} -> {}
          [] ~zero /\ ~cpu /\ parts["g"] # {} -> {[NoResources EXCEPT !["g"] = parts["g"]]}
          [] ~zero /\ parts["g"] = {} -> {[parts EXCEPT !["g"] = {}]}

\* ResourceSpecCPU(p, t, c, m) of Python wants all four, and ResourceSpecGPU(g) its one.
PyCpu(p, t, c, m) ==
    IF 0 \in {p, t, c} THEN {} ELSE {[p |-> {p}, t |-> {t}, c |-> {c}, m |-> {m}]}
PyGpu(g) == {g} \ {0}

\* ResourceSpec.cpu() and .gpu() of those.
OfCpu(cpu) == [k \in DOMAIN NoResources |-> IF k = "g" THEN {} ELSE cpu[k]]
OfGpu(g) == [NoResources EXCEPT !["g"] = {g}]

\* The getters: the part of a specification that it has, cpu_spec or gpu_spec.
PyCpuSpec(spec) == IF "g" \in Given(spec) THEN {} ELSE {[k \in CpuKeys |-> spec[k]]}
PyGpuSpec(spec) == spec["g"]

\* Memory.from_value() of Python.
PyMemory(n, u) == IF n = 0 THEN {} ELSE {Memory(n, u)}

\* The order in which Display lists the keys.
KeyOrder == <<"p", "t", "c", "m", "g">>

ValueText(k, v) == IF k = "m" THEN MemoryText(v) ELSE Dec(v)
ParseValue(k, t) == IF k = "m" THEN ParseMemory(t) ELSE NonZeroU32(t)

ResourceText(spec) ==
    LET given == {i \in DOMAIN KeyOrder : spec[KeyOrder[i]] # {}}
        token(k) == Lit(k) \o (Lit("=") \o ValueText(k, CHOOSE v \in spec[k] : TRUE))
    IN  Join([i \in 1..Cardinality(given) |-> token(KeyOrder[Nth(given, i)])], ":")

\* The loop over the key=value tokens: known keys, none of them twice, good values.
ParseTokens(tokens) ==
    LET parts(i) == SplitOnce(tokens[i], "=")
        uses(k) == {i \in DOMAIN tokens : parts(i)[1] = Lit(k)}
        read(k) == UNION {ParseValue(k, Last(parts(i))) : i \in uses(k)}
    IN  IF \/ \E i \in DOMAIN tokens : Len(parts(i)) = 1
           \/ UNION {uses(k) : k \in DOMAIN NoResources} # DOMAIN tokens
           \/ \E k \in DOMAIN NoResources :
                 Cardinality(uses(k)) > 1 \/ (uses(k) # {} /\ read(k) = {})
        THEN {} ELSE {[k \in DOMAIN NoResources |-> read(k)]}

\* Either g alone or some of the others.
ParseResourceSpec(t) ==
    {spec \in ParseTokens(Split(t, ":")) : Given(spec) = {"g"} \/ "g" \notin Given(spec)}
=============================================================================
