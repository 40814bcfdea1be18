------------------------------- MODULE Commands -------------------------------
(***************************************************************************)
(* The commands this crate starts: sbatch (sbatch/cmd.rs), tssrun          *)
(* (tssrun/cmd.rs), srun (manager.rs), and how sbatch and tssrun read      *)
(* their command lines.  An argv is a sequence of words, a word a text.    *)
(***************************************************************************)
EXTENDS SbatchOptions

CONSTANT Cwd        \* the working directory, as a lexeme

\* A flag with its value, if there is one.
Flag(f, option) == IF option = {} THEN <<>> ELSE <<Lit(f), CHOOSE v \in option : TRUE>>
Switch(f, on) == IF on THEN <<Lit(f)>> ELSE <<>>

\* The texts of an Option.
TimeWords(option) == {TimeText(v) : v \in option}

\* Mutant: a specification that prints as nothing is not left out.
ResourceWordsAlways(option) == {ResourceText(v) : v \in option}

\* The empty specification stands for the defaults, and is left out.
ResourceWords(option) == {ResourceText(v) : v \in option} \ {<<>>}

\* absolutize(): std::path::absolute() has no answer for the empty path.
Absolutize(p) ==
    CASE p = <<>> -> {}
      [] p # <<>> /\ Head(p) = Sign("/") -> {p}
      [] p # <<>> /\ Head(p) # Sign("/") -> {Lit("/") \o Lit(Cwd) \o Lit("/") \o p}

\* -3 or 3.
SignedText(n) == IF n < 0 THEN Lit("-") \o Dec(-n) ELSE Dec(n)

\* render_export(): the variables, in the order of their names.  The separators of the
\* list cannot be part of a name or a value.
Separators == {Sign(","), Sign("=")}
Exportable(env) ==
    \A i \in DOMAIN env : (ToSet(env[i].name) \cup ToSet(env[i].value)) \cap Separators = {}
RenderExport(env) ==
    Join(<<Lit("ALL")>> \o [i \in DOMAIN env |-> env[i].name \o (Lit("=") \o env[i].value)], ",")

\* SbatchCmd::build_argv().
SbatchArgv(cmd) ==
    {<<Lit("sbatch")>>
        \o Flag("-J", cmd.job_name)
        \o Flag("-p", cmd.partition)
        \o Flag("-t", TimeWords(cmd.time_limit))
        \o Flag("--rsc", ResourceWords(cmd.rsc))
        \o Flag("-o", cmd.output)
        \o Flag("-e", cmd.error)
        \o Flag("--chdir", UNION {Absolutize(p) : p \in cmd.chdir})
        \o Flag("-a", {ArrayText(v) : v \in cmd.array_spec})
        \o (IF cmd.env = <<>> THEN <<>>
            ELSE <<Lit("--export") \o (Lit("=") \o RenderExport(cmd.env))>>)
        \o Flag("-d", {DependencyText(v) : v \in cmd.dependency})
        \o Flag("--mail-user", cmd.mail_user)
        \o Flag("--mail-type", {MailTypesText(v) : v \in cmd.mail_types})
        \o Flag("--signal", {SignalText(v) : v \in cmd.signal})
        \o Switch("--no-requeue", cmd.no_requeue)
        \o Flag("--comment", cmd.comment)
        \o (IF cmd.nice = {} THEN <<>>
            ELSE <<Lit("--nice") \o (Lit("=") \o SignedText(CHOOSE n \in cmd.nice : TRUE))>>)
        \o <<script>> \o cmd.args :
        script \in {s \in Absolutize(cmd.script) :
                       /\ Exportable(cmd.env)
                       /\ \A p \in cmd.chdir : Absolutize(p) # {}}}

\* SbatchCmd of Python: the time limit and the resources come as texts.
PySbatchCmd(cmd) ==
    {[cmd EXCEPT !.time_limit = t, !.rsc = r] :
        t \in IF cmd.time_limit = {} THEN {{}} ELSE {{s} : s \in UNION {ParseTimeLimit(w) : w \in cmd.time_limit}},
        r \in IF cmd.rsc = {} THEN {{}} ELSE {{s} : s \in UNION {ParseResourceSpec(w) : w \in cmd.rsc}}}

\* TssrunCmd::build_argv().  (The environment goes to the process, not to the argv.)
TssrunArgv(cmd) ==
    {<<Lit("tssrun")>>
        \o Flag("-p", cmd.partition)
        \o Flag("-t", TimeWords(cmd.time_limit))
        \o Flag("--rsc", ResourceWords(cmd.rsc))
        \o Switch("--x11", cmd.x11)
        \o <<program>> \o cmd.args :
        program \in Absolutize(cmd.program)}

\* SlurmCmd::build_argv().
SrunArgv(launcher, batchFile) == {<<launcher, file>> : file \in Absolutize(batchFile)}

-----------------------------------------------------------------------------
(* How sbatch and tssrun take a command line apart, as getopt_long() does.    *)

TakesValue == {"-J", "-p", "-t", "--rsc", "-o", "-e", "--chdir", "-a", "-d", "--mail-user",
               "--mail-type", "--signal", "--comment", "--export"}
MayTakeValue == {"--nice"}
TakesNone == {"--no-requeue", "--x11"}

\* Up to the first word that is no option: a flag takes the next word, whatever it looks
\* like, or what follows its "=".  A value is <<flag, text>>.
ReadWord(sofar, word) ==
    LET parts == SplitOnce(word, "=")
        named == {f \in TakesValue \cup MayTakeValue : parts[1] = Lit(f)}
        alone == {f \in TakesNone \cup MayTakeValue : word = Lit(f)}
    IN  CASE sofar.rest # <<>> -> [sofar EXCEPT !.rest = Append(@, word)]
          [] sofar.rest = <<>> /\ sofar.open # {} ->
                [sofar EXCEPT !.open = {}, !.values = @ \cup {<<f, word>> : f \in sofar.open}]
          [] sofar.rest = <<>> /\ sofar.open = {} ->
                IF Len(parts) = 2 /\ named # {}
                THEN [sofar EXCEPT !.values = @ \cup {<<f, parts[2]>> : f \in named}]
                ELSE IF alone # {}
                THEN [sofar EXCEPT !.values = @ \cup {<<f, <<>> >> : f \in alone}]
                ELSE IF named # {} THEN [sofar EXCEPT !.open = named]
                ELSE [sofar EXCEPT !.rest = <<word>>]

\* The first word is the name of the command.
ReadArgv(argv) ==
    LET after[i \in 1..Len(argv)] ==
            IF i = 1 THEN [open |-> {}, values |-> {}, rest |-> <<>>] ELSE ReadWord(after[i - 1], argv[i])
    IN  after[Len(argv)]

\* The value of a flag in a command line that has been read.
ValueOf(line, f) == {v[2] : v \in {w \in line.values : w[1] = f}}

\* The variables an --export list sets.
ExportedIn(t) ==
    LET parts == Tail(Split(t, ","))
    IN  [i \in DOMAIN parts |-> [name |-> SplitOnce(parts[i], "=")[1],
                                 value |-> Last(SplitOnce(parts[i], "="))]]
=============================================================================
