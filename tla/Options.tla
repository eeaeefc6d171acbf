------------------------------ MODULE Options ------------------------------
(***************************************************************************)
(* SimpleBackendOptions::parse_args of parse_arguments.cpp: what the       *)
(* backend takes for itself from the command line, and what it leaves to   *)
(* the application.                                                        *)
(***************************************************************************)
EXTENDS Naturals, Sequences, SequencesExt

WorkersFlags == {"--backend-n-workers", "--ranks"}
LookaheadFlags == {"--backend-lookahead"}
Flags == WorkersFlags \cup LookaheadFlags
Separators == {"--app-argv", "--"}

\* std::atoi, for the numbers used here: 0 for what is no number.
Atoi(arg) == CASE arg = "2" -> 2 [] arg = "3" -> 3 [] OTHER -> 0

Defaults == [n_threads |-> 8, lookahead |-> 20]

FlagFor(flag) == IF flag \in WorkersFlags THEN "n_threads" ELSE "lookahead"

\* The loop: `flag` is the one whose value comes next, argv[++spot].
NoFlag == ""
Start == [options |-> Defaults, rest |-> <<>>, flag |-> NoFlag, app |-> FALSE]

Keep(s, arg) == [s EXCEPT !.rest = Append(@, arg)]

\* Mutant: flags are looked for behind the separator, too.
ParseAllArgs(s, arg) ==
  CASE s.flag # NoFlag -> [s EXCEPT !.options[FlagFor(s.flag)] = Atoi(arg), !.flag = NoFlag]
    [] s.flag = NoFlag /\ arg \in Flags -> [s EXCEPT !.flag = arg]
    [] s.flag = NoFlag /\ ~s.app /\ arg \in Separators -> [s EXCEPT !.app = TRUE]
    [] OTHER -> Keep(s, arg)

ParseArg(s, arg) ==
  CASE s.app -> Keep(s, arg)
    [] s.flag # NoFlag -> [s EXCEPT !.options[FlagFor(s.flag)] = Atoi(arg), !.flag = NoFlag]
    [] ~s.app /\ s.flag = NoFlag /\ arg \in Flags -> [s EXCEPT !.flag = arg]
    [] ~s.app /\ s.flag = NoFlag /\ arg \in Separators -> [s EXCEPT !.app = TRUE]
    [] OTHER -> Keep(s, arg)

\* argv without argv[0], which is always kept.
ParseArgs(argv) == FoldLeft(ParseArg, Start, argv)

\* assert(spot + 1 < argc): a flag that comes last has no value.
ParseAborts(argv) == ParseArgs(argv).flag # NoFlag

\* initialize_runtime_arguments, for a program with regions and a main of its
\* own: argv is overwritten with what is left, for the options are defaults now.
InitializeRuntimeArguments(argv) ==
  [argv |-> ParseArgs(argv).rest, default_options |-> ParseArgs(argv).options]

-----------------------------------------------------------------------------
(* What the arguments mean, whatever loop reads them                        *)

\* A part for each argument: an argument is a value iff a flag precedes it, and
\* what a part is depends on nothing that follows.
IsParting(argv, part) ==
  \A i \in DOMAIN argv :
    part[i] = IF \E j \in 1..(i - 1) : part[j] = "separator" THEN "application"
              ELSE IF i > 1 /\ part[i - 1] = "flag" THEN "value"
              ELSE IF argv[i] \in Flags THEN "flag"
              ELSE IF argv[i] \in Separators THEN "separator"
              ELSE "application"

Parting(argv) ==
  CHOOSE part \in [DOMAIN argv -> {"flag", "value", "separator", "application"}] :
    IsParting(argv, part)

\* The last value that is given counts.
LastValue(argv, part, flags, default) ==
  LET given == {i \in 2..Len(argv) : part[i] = "value" /\ argv[i - 1] \in flags}
  IN  IF given = {} THEN default
      ELSE Atoi(argv[CHOOSE i \in given : \A j \in given : j <= i])

Meaning(argv) ==
  LET part == Parting(argv)
      kept == SelectSeq([i \in DOMAIN argv |-> i], LAMBDA i : part[i] = "application")
  IN  [options |-> [n_threads |-> LastValue(argv, part, WorkersFlags, Defaults.n_threads),
                    lookahead |-> LastValue(argv, part, LookaheadFlags, Defaults.lookahead)],
       rest    |-> [k \in DOMAIN kept |-> argv[kept[k]]]]

\* The last argument is a flag whose value is missing.
LacksValue(argv) == argv # <<>> /\ Parting(argv)[Len(argv)] = "flag"
=============================================================================
