---------------------------- MODULE DurableRecord -----------------------------
(***************************************************************************)
(* What the spool promises of one record, whatever files are behind it:    *)
(* it is written, read and removed as a whole.  A loss of power may take   *)
(* back what was done since a write was last acknowledged, and nothing     *)
(* before.                                                                 *)
(***************************************************************************)

CONSTANTS
  Writers,  \* the writes of the record, each of which happens once
  None      \* no record

VARIABLES
  record,   \* the write that a reader finds, or None
  maybe,    \* what a reader may find after a loss of power
  written,  \* the writes that have happened
  acked     \* the writes that have returned without an error

vars == <<record, maybe, written, acked>>

Init ==
  /\ record = None
  /\ maybe = {None}
  /\ written = {}
  /\ acked = {}

Write(w) ==
  /\ w \notin written
  /\ record' = w
  /\ maybe' = maybe \cup {w}
  /\ written' = written \cup {w}
  /\ UNCHANGED acked

\* What is there when a write is acknowledged is there to stay.
Acknowledge(w) ==
  /\ w \in written \ acked
  /\ acked' = acked \cup {w}
  /\ maybe' = {record}
  /\ UNCHANGED <<record, written>>

Remove ==
  /\ record # None
  /\ record' = None
  /\ maybe' = maybe \cup {None}
  /\ UNCHANGED <<written, acked>>

LosePower ==
  /\ record' \in maybe
  /\ maybe' = {record'}
  /\ UNCHANGED <<written, acked>>

Next ==
  \/ LosePower
  \/ Remove
  \/ \E w \in Writers : Write(w) \/ Acknowledge(w)

Spec == Init /\ [][Next]_vars
==============================================================================
