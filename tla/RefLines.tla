------------------------------- MODULE RefLines -------------------------------
(***************************************************************************)
(* The two readers of a push's ref lines, line by line: pre-receive, which *)
(* rejects what it cannot read (parseStrict), and post-receive, which      *)
(* skips it (parseRefLines), with the events that notify makes of them.    *)
(*                                                                         *)
(* A line is the class its readers tell apart: blank, malformed, too long  *)
(* for the scanner, or a pair of object ids, old and new.                  *)
(***************************************************************************)
EXTENDS Naturals, Sequences, FiniteSets

CONSTANTS
  Zero,     \* the all-zero object id
  Ids,      \* other object ids
  MaxLines  \* bound: lines of a push

VARIABLES
  lines,  \* the lines read
  strict, \* the state of parseStrict: lines accepted, push rejected
  loose   \* the state of parseRefLines: lines accepted, input ended

vars == <<lines, strict, loose>>

Update == "update"

Unread == {"blank", "malformed", "tooLong"}

Lines ==
  [kind : {Update}, old : Ids \cup {Zero}, new : Ids \cup {Zero}]
    \cup [kind : Unread, old : {Zero}, new : {Zero}]

Start == [got |-> <<>>, over |-> FALSE]

-----------------------------------------------------------------------------

\* A malformed line, or the scanner's error, rejects the push.
parseStrict(s, line) ==
  CASE s.over -> s
    [] ~s.over /\ line.kind = Update -> [s EXCEPT !.got = Append(@, line)]
    [] ~s.over /\ line.kind = "blank" -> s
    [] ~s.over /\ line.kind \in {"malformed", "tooLong"} -> [s EXCEPT !.over = TRUE]

\* Mutant of parseRefLines: the first line that is not an update ends the input.
parseRefLinesStops(s, line) ==
  IF ~s.over /\ line.kind = Update THEN [s EXCEPT !.got = Append(@, line)] ELSE [s EXCEPT !.over = TRUE]

\* A malformed line is skipped.  The scanner stops at a line that is too long, and
\* its error is not looked at.
parseRefLines(s, line) ==
  CASE s.over -> s
    [] ~s.over /\ line.kind = Update -> [s EXCEPT !.got = Append(@, line)]
    [] ~s.over /\ line.kind \in {"blank", "malformed"} -> s
    [] ~s.over /\ line.kind = "tooLong" -> [s EXCEPT !.over = TRUE]

\* buildEvent's type.
EventType(u) ==
  CASE u.old = Zero /\ u.new # Zero -> "ref-created"
    [] u.old # Zero /\ u.new = Zero -> "ref-deleted"
    [] OTHER -> "push"

\* What rev-list is asked for: nothing, one side, or a range.
commitSummaries(u) ==
  CASE u.new = Zero -> <<>>
    [] u.new # Zero /\ u.old = Zero -> <<u.new>>
    [] OTHER -> <<u.old, u.new>>

Init == lines = <<>> /\ strict = Start /\ loose = Start

Next ==
  /\ Len(lines) < MaxLines
  /\ \E line \in Lines :
       /\ lines' = Append(lines, line)
       /\ strict' = parseStrict(strict, line)
       /\ loose' = parseRefLines(loose, line)

Spec == Init /\ [][Next]_vars

-----------------------------------------------------------------------------
(* Properties *)

Updates == {i \in DOMAIN lines : lines[i].kind = Update}

\* The place of line i among the updates.
Place(i) == Cardinality({j \in Updates : j <= i})

\* got lists the updates in their order, maybe not all of them.
Lists(got) ==
  /\ Len(got) <= Cardinality(Updates)
  /\ \A i \in Updates : Place(i) <= Len(got) => got[Place(i)] = lines[i]

\* Whatever pre-receive has checked, post-receive announces: the events of an
\* accepted push are one for each update, in their order.  A push that passes no
\* pre-receive loses at most the lines behind one that is too long.  Each event says
\* what rev-list was asked for: nothing for a deletion, one side for a creation.
AnnouncesWhatWasChecked ==
  /\ Lists(loose.got)
  /\ ~strict.over \/ (\A i \in DOMAIN lines : lines[i].kind # "tooLong") =>
       Len(loose.got) = Cardinality(Updates)
  /\ ~strict.over => loose.got = strict.got
  /\ \A i \in DOMAIN loose.got :
       LET asked == Len(commitSummaries(loose.got[i])) IN
       /\ EventType(loose.got[i]) = "ref-created" <=> asked = 1
       /\ EventType(loose.got[i]) = "ref-deleted" => asked = 0
       /\ asked = 2 => EventType(loose.got[i]) = "push"
==============================================================================
