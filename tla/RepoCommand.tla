------------------------------ MODULE RepoCommand ------------------------------
(***************************************************************************)
(* The command line of gitd repo, argument by argument: parseRepoFlags     *)
(* resumes the flag package behind every positional argument, and runRepo  *)
(* decides from what is left.  An argument is one of the words that the    *)
(* two tell apart.                                                         *)
(***************************************************************************)
EXTENDS Naturals, Sequences

CONSTANT MaxArgs    \* bound: arguments of a command

VARIABLES
  args,   \* the arguments read
  flags,  \* the state of parseRepoFlags
  added   \* history: its states if a --yes more is among the arguments, for every place
          \* of it but between a flag and what the flag takes

vars == <<args, flags, added>>

Words == {"list", "delete", "help", "repo", "badName"}

Flags == {"--yes", "--yes=false", "--config", "--", "--unknown"}

\* value: --config waits for its value; plain: "--" makes the next argument positional.
Start == [yes |-> FALSE, positional |-> <<>>, value |-> FALSE, plain |-> FALSE, err |-> FALSE]

-----------------------------------------------------------------------------

Positional(s, a) == [s EXCEPT !.positional = Append(@, a), !.plain = FALSE]

\* Mutant of parseRepoFlags: flags end at the first positional argument.
parseRepoFlagsOnce(s, a) ==
  CASE s.err -> s
    [] ~s.err /\ s.value -> [s EXCEPT !.value = FALSE]
    [] ~s.err /\ ~s.value /\ (s.plain \/ s.positional # <<>> \/ a \in Words) -> Positional(s, a)
    [] OTHER -> CASE a = "--yes" -> [s EXCEPT !.yes = TRUE]
                  [] a = "--yes=false" -> [s EXCEPT !.yes = FALSE]
                  [] a = "--config" -> [s EXCEPT !.value = TRUE]
                  [] a = "--" -> [s EXCEPT !.plain = TRUE]
                  [] a = "--unknown" -> [s EXCEPT !.err = TRUE]

\* One argument: the value of a flag, a positional argument, or a flag.
parseRepoFlags(s, a) ==
  CASE s.err -> s
    [] ~s.err /\ s.value -> [s EXCEPT !.value = FALSE]
    [] ~s.err /\ ~s.value /\ (s.plain \/ a \in Words) -> Positional(s, a)
    [] OTHER -> CASE a = "--yes" -> [s EXCEPT !.yes = TRUE]
                  [] a = "--yes=false" -> [s EXCEPT !.yes = FALSE]
                  [] a = "--config" -> [s EXCEPT !.value = TRUE]
                  [] a = "--" -> [s EXCEPT !.plain = TRUE]
                  [] a = "--unknown" -> [s EXCEPT !.err = TRUE]

\* A delete and a valid name; the words of the command are valid names, too.
DeleteOne(s) ==
  Len(s.positional) = 2 /\ s.positional[1] = "delete" /\ s.positional[2] \in Words \ {"badName"}

\* What the command does: repoUsage, repoList, repoDelete, or a usage error.
runRepo(s) ==
  IF s.err \/ s.value \/ s.positional = <<>> THEN "usage"
  ELSE CASE s.positional = <<"help">> -> "help"
         [] s.positional = <<"list">> -> "list"
         [] DeleteOne(s) /\ s.yes -> "delete"
         [] OTHER -> "usage"

\* The states behind a --yes that is added here, if it is a flag here.
AddYes(s) == IF s.value \/ s.plain THEN {} ELSE {parseRepoFlags(s, "--yes")}

Init == args = <<>> /\ flags = Start /\ added = AddYes(Start)

Next ==
  /\ Len(args) < MaxArgs
  /\ \E a \in Words \cup Flags :
       /\ args' = Append(args, a)
       /\ flags' = parseRepoFlags(flags, a)
       /\ added' = {parseRepoFlags(s, a) : s \in added} \cup AddYes(flags')

Spec == Init /\ [][Next]_vars

-----------------------------------------------------------------------------
(* Properties *)

\* Flags may stand before or behind the positional arguments (parseRepoFlags:
\* "allowing either to appear before OR after the positional args"): where --yes is
\* added to a command, at any place but between a flag and what it takes, makes no
\* difference to what the command does, if no --yes=false overrides it.
YesAnywhere ==
  (\A i \in DOMAIN args : args[i] # "--yes=false") => \A s, t \in added : runRepo(s) = runRepo(t)
==============================================================================
