----------------------------- MODULE BundleFormat -----------------------------
(***************************************************************************)
(* bundleObjectFormat: the scan of a bundle's header, one line per step,   *)
(* while the file is given line by line.  A file may end after any line.   *)
(***************************************************************************)
EXTENDS Naturals, Sequences

CONSTANT MaxLines  \* bound: lines of the file

\* A line, by what the scan tells apart: the two signatures, the capabilities, a
\* ref (or pack data), the blank line, and a line longer than the scanner's buffer.
Lines == {"v2", "v3", "sha1", "sha256", "otherFormat", "capability", "ref", "blank", "tooLong"}

Formats == {"sha1", "sha256"}

VARIABLES
  file,  \* the lines so far
  scan   \* "first", "capabilities", or what the scan returned: a format or "error"

vars == <<file, scan>>

-----------------------------------------------------------------------------

\* The first line.
Signature(line) ==
  CASE line = "v2" -> "sha1"
    [] line = "v3" -> "capabilities"
    [] OTHER       -> "error"

\* Mutant of Capability: the scan goes on behind the blank line.
CapabilityPastEnd(line) ==
  CASE line \in Formats -> line
    [] line \in {"otherFormat", "tooLong"} -> "error"
    [] OTHER -> "capabilities"

\* A later line: a blank one ends the header, a format decides, others are skipped.
Capability(line) ==
  CASE line \in Formats -> line
    [] line = "blank" -> "sha1"
    [] line \in {"otherFormat", "tooLong"} -> "error"
    [] OTHER -> "capabilities"

\* What bundleObjectFormat returns for a file that ends here.
AtEnd(s) ==
  CASE s = "first"        -> "error"
    [] s = "capabilities" -> "sha1"
    [] OTHER              -> s

Init == file = <<>> /\ scan = "first"

Next ==
  /\ Len(file) < MaxLines
  /\ \E line \in Lines :
       /\ file' = Append(file, line)
       /\ scan' = CASE scan = "first"        -> Signature(line)
                    [] scan = "capabilities" -> Capability(line)
                    [] OTHER                 -> scan

Spec == Init /\ [][Next]_vars

-----------------------------------------------------------------------------
(* Properties *)

\* The lines of the header: those before the first blank one.
Header == {i \in DOMAIN file : \A j \in 1..i : file[j] # "blank"}

\* The line that decides, if there is one: no other before it could.
Decides(i) ==
  /\ i \in Header \ {1}
  /\ file[i] \in Formats \cup {"otherFormat", "tooLong"}
  /\ \A j \in 2..(i - 1) : file[j] \notin Formats \cup {"otherFormat", "tooLong"}

\* bundleObjectFormat follows the table of its comment ("Recognized headers (fail
\* closed on anything else)"): v2 is sha1, v3 is what the first object-format line
\* of the header says and sha1 without one, and the rest is an error; nothing
\* behind the header counts.
FollowsTable ==
  AtEnd(scan) =
    CASE file # <<>> /\ file[1] = "v2" -> "sha1"
      [] file # <<>> /\ file[1] = "v3" ->
           IF \E i \in Header : Decides(i)
           THEN LET i == CHOOSE i \in Header : Decides(i)
                IN  IF file[i] \in Formats THEN file[i] ELSE "error"
           ELSE "sha1"
      [] OTHER -> "error"
==============================================================================
