------------------------------ MODULE TimeLimit ------------------------------
(***************************************************************************)
(* The --time option (entities/slurm/sbatch_options/time_limit.rs): a      *)
(* positive number of seconds, read in six forms and printed in one.       *)
(***************************************************************************)
EXTENDS Text

\* Mutant: whole days are dropped, as a clock would.
HoursOfDay(s) == (s % 86400) \div 3600

\* hours(), minutes(), seconds_part(): the hours may exceed 23.
Hours(s) == s \div 3600
Minutes(s) == (s % 3600) \div 60
SecondsPart(s) == s % 60

TimeText(s) == Dec(Hours(s)) \o Lit(":") \o Dec(Minutes(s)) \o Lit(":") \o Dec(SecondsPart(s))

\* The fields after the days, D-H[:M[:S]].  Fields that a form lacks are 0.
DayForm(days, f) ==
    days * 86400 + f[1] * 3600 + (IF Len(f) > 1 THEN f[2] * 60 ELSE 0)
        + (IF Len(f) > 2 THEN f[3] ELSE 0)

\* M, M:S and H:M:S: alone or in pairs the first number is minutes.
PlainForm(f) ==
    CASE Len(f) = 1 -> f[1] * 60
      [] Len(f) = 2 -> f[1] * 60 + f[2]
      [] Len(f) = 3 -> f[1] * 3600 + f[2] * 60 + f[3]

\* A u64 sum that has to be a u32 again, and positive.
Limit(total) == {total} \cap 1..MaxU32

ParseTimeLimit(t) ==
    LET byDays == SplitOnce(t, "-")
        parts == Split(Last(byDays), ":")
        fields == Collect([i \in DOMAIN parts |-> U32(parts[i])])
    IN  IF Len(parts) > 3 THEN {}
        ELSE IF Len(byDays) = 2
        THEN UNION {Limit(DayForm(days, f)) : days \in U32(byDays[1]), f \in fields}
        ELSE UNION {Limit(PlainForm(f)) : f \in fields}

\* JobTimeLimit.from_seconds() of Python.
PyTimeLimit(s) == {s} \ {0}

\* TimeDelta::num_seconds() of a delta in milliseconds drops the fraction, and so a
\* positive delta below a second is no limit.
FromTimeDelta(ms) == Limit(ms \div 1000)

\* JobTimeLimit of a TimeDelta, and back (in milliseconds again).
ToTimeDelta(s) == s * 1000
=============================================================================
