----------------------------- MODULE SbatchOptions -----------------------------
(***************************************************************************)
(* The other option values, --signal and --mail-type                       *)
(* (entities/slurm/sbatch_options/signal.rs, sbatch_options.rs), and the   *)
(* configuration of a job with its form in JSON.                           *)
(***************************************************************************)
EXTENDS ArraySpec, TimeLimit, Dependency, ResourceSpec

CONSTANT Names      \* the words of the form [A-Z][A-Z0-9_]*

ASSUME NamesAssumption == Names \cap {":", "@"} = {}

MaxU16 == 65535
MaxSignal == 64

\* --signal: [R:]<number or name>[@<seconds>]
SignalText(s) ==
    (IF s.allow_resignal THEN Lit("R") \o Lit(":") ELSE <<>>)
        \o s.signal
        \o (IF s.seconds_before_end = {} THEN <<>>
            ELSE Lit("@") \o Dec(CHOOSE n \in s.seconds_before_end : TRUE))

\* A number is digits only, without a sign; a name is not looked up in any table.
ParseSignalIdent(t) ==
    {Dec(n) : n \in {m \in 1..MaxSignal : t = Dec(m)}} \cup {Lit(w) : w \in {v \in Names : t = Lit(v)}}

ParseSignalSpec(t) ==
    LET again == Len(t) >= 2 /\ SubSeq(t, 1, 2) = Lit("R") \o Lit(":")
        parts == SplitOnce(IF again THEN SubSeq(t, 3, Len(t)) ELSE t, "@")
        seconds == IF Len(parts) = 1 THEN {{}}
                   ELSE {{n} : n \in ParseUnsigned(parts[2], MaxU16) \ {0}}
    IN  [allow_resignal : {again}, signal : ParseSignalIdent(parts[1]), seconds_before_end : seconds]

\* --mail-type
MailType == {"BEGIN", "END", "FAIL", "REQUEUE", "ALL"}
MailTypesText(types) == Join([i \in DOMAIN types |-> Lit(types[i])], ",")
ParseMailTypes(t) ==
    LET parts == Split(t, ",")
    IN  Collect([i \in DOMAIN parts |-> {m \in MailType : parts[i] = Lit(m)}])

\* MailTypeInput(...) of Python: not without any.
PyMailTypes(types) == IF types = <<>> THEN {} ELSE ParseMailTypes(MailTypesText(types))

-----------------------------------------------------------------------------
(* SlurmJobConfig: a table with an Option for each field.  A value with a     *)
(* textual form is a string in JSON, the mail types are a list.               *)

TextFields == {"time_limit", "array_spec", "dependency", "resource_spec"}

ConfigFields == {"partition", "time_limit", "array_spec", "dependency", "resource_spec",
                 "mail_types", "nice", "comment", "job_name"}

\* SlurmJobConfig(partition, ...) of Python: what is not given is None.
PyConfig(partition, given) ==
    [f \in ConfigFields |-> CASE f = "partition" -> {partition}
                              [] f # "partition" -> IF f \in DOMAIN given THEN given[f] ELSE {}]

\* The setters of SlurmJobConfig in Python take any value there is; the partition has to
\* be one.
PySet(config, field, option) ==
    IF field = "partition" /\ option = {} THEN config ELSE [config EXCEPT ![field] = option]

FieldText(field, v) ==
    CASE field = "time_limit" -> TimeText(v)
      [] field = "array_spec" -> ArrayText(v)
      [] field = "dependency" -> DependencyText(v)
      [] field = "resource_spec" -> ResourceText(v)

ParseField(field, t) ==
    CASE field = "time_limit" -> ParseTimeLimit(t)
      [] field = "array_spec" -> ParseArraySpec(t)
      [] field = "dependency" -> ParseDependency(t)
      [] field = "resource_spec" -> ParseResourceSpec(t)

ConfigToJson(config) ==
    [f \in DOMAIN config |-> IF f \in TextFields THEN {FieldText(f, v) : v \in config[f]}
                             ELSE config[f]]

\* A field that is null or missing is None; one that does not parse fails them all.
ConfigFromJson(json) ==
    LET read(f) == IF f \in TextFields THEN UNION {ParseField(f, t) : t \in json[f]} ELSE json[f]
    IN  IF \E f \in DOMAIN json : json[f] # {} /\ read(f) = {} THEN {}
        ELSE {[f \in DOMAIN json |-> read(f)]}
=============================================================================
