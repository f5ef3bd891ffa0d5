------------------------------- MODULE MCParts --------------------------------
(***************************************************************************)
(* The parts of the program that stand alone, for TLC: the scanners, which *)
(* read every input up to a length; the notifications of pushes; and the   *)
(* browse pages.  They share nothing, so that a behaviour is one of the    *)
(* part that it begins with.                                               *)
(***************************************************************************)
EXTENDS Notify, Scanners, Browse, TLC

CONSTANTS
  p1, p2, sync, async, other,
  dev, main

VARIABLE part

\* A sync plugin is removed from the configuration and added again; a second one
\* filters the repository out.
ThreePlugins == {<<sync, other, async>>, <<other, async>>}

Branches == <<dev, main>>

ASSUME InstancesOK == ConstantsOK /\ WebConstantsOK

PartsInit ==
  /\ part \in {"command", "bundle", "refs", "repo", "two", "one", "web"}
  /\ Command!Init /\ Header!Init /\ RefReaders!Init /\ Repo!Init
  /\ Init
  /\ part \in {"one", "two"} \/ live = <<other, async>>
  /\ WebInit

In(p) == part = p /\ UNCHANGED part

ReadCommand ==
  /\ In("command") /\ Command!Next
  /\ UNCHANGED <<file, header, lines, strict, loose, args, flags, added, vars, pages>>

ReadBundle ==
  /\ In("bundle") /\ Header!Next
  /\ UNCHANGED <<input, words, lines, strict, loose, args, flags, added, vars, pages>>

ReadRefs ==
  /\ In("refs") /\ RefReaders!Next
  /\ UNCHANGED <<input, words, file, header, args, flags, added, vars, pages>>

ReadRepo ==
  /\ In("repo") /\ Repo!Next
  /\ UNCHANGED <<input, words, file, header, lines, strict, loose, vars, pages>>

\* Two pushes, of at most one line each.
TwoPushes ==
  /\ In("two") /\ Next
  /\ \A p \in Pushes : notify'[p].left + Len(notify'[p].ids) <= 1
  /\ UNCHANGED scanners /\ UNCHANGED pages

\* Of the two pushes, only one begins.
OnePush ==
  /\ In("one") /\ Next
  /\ \A p, q \in Pushes : notify'[p].pc # "new" /\ notify'[q].pc # "new" => p = q
  /\ UNCHANGED scanners /\ UNCHANGED pages

Browsing == In("web") /\ WebNext /\ UNCHANGED scanners /\ UNCHANGED vars

PartsNext == ReadCommand \/ ReadBundle \/ ReadRefs \/ ReadRepo \/ TwoPushes \/ OnePush \/ Browsing

Pushers == Permutations(Pushes)

PartsSpec == PartsInit /\ [][PartsNext]_<<part, scanners, vars, pages>>
==============================================================================
