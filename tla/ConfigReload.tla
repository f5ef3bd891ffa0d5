----------------------------- MODULE ConfigReload -----------------------------
(***************************************************************************)
(* The SIGHUP reload of webhooks.yaml and gitd.yaml.  An operator edits    *)
(* the two files one after the other and sends signals at any time; one    *)
(* goroutine of the serve process reads both files, swaps the pair of live *)
(* configurations and passes the retention on to the spool.                *)
(*                                                                         *)
(* The content of a file is the number of the edit that wrote it and       *)
(* whether it can be read, parsed and validated.                           *)
(***************************************************************************)
EXTENDS Naturals

CONSTANT Edits  \* bound: edits of the two files

ASSUME ConfigReloadAssumption == Edits \in Nat

Content == [ver : 0..Edits, ok : BOOLEAN]

VARIABLES
  disk,       \* the files: [webhooks, gitd]
  edits,      \* edits so far
  fresh,      \* no edit since the latest SIGHUP
  pending,    \* a signal is buffered in the channel sighup
  reload,     \* the goroutine: "idle", "webhooks", "gitd", "swap", "apply"
  read,       \* what Reload has parsed: [webhooks, gitd]
  torn,       \* a file was edited between the two reads
  live,       \* Runtime: [webhooks, gitd]
  retention,  \* the gitd.yaml that the spool's retention comes from
  seen        \* the pairs that were on disk at one time

vars == <<disk, edits, fresh, pending, reload, read, torn, live, retention, seen>>

Files == {"webhooks", "gitd"}

-----------------------------------------------------------------------------

\* Load: both files are valid when the process starts.
Init ==
  /\ disk = [f \in Files |-> [ver |-> 0, ok |-> TRUE]]
  /\ edits = 0 /\ fresh = TRUE /\ pending = FALSE
  /\ reload = "idle" /\ read = disk /\ torn = FALSE
  /\ live = disk /\ retention = disk["gitd"]
  /\ seen = {disk}

\* The operator writes a file, whatever the goroutine is at.
Edit(f) ==
  /\ edits < Edits
  /\ \E ok \in BOOLEAN : disk' = [disk EXCEPT ![f] = [ver |-> edits + 1, ok |-> ok]]
  /\ edits' = edits + 1 /\ fresh' = FALSE
  /\ torn' = (torn \/ reload = "gitd")
  /\ seen' = seen \cup {disk'}
  /\ UNCHANGED <<pending, reload, read, live, retention>>

\* Mutant of Sighup: a channel without a buffer loses a signal while it is not read.
SighupUnbuffered ==
  /\ pending' = (reload = "idle") /\ fresh' = TRUE
  /\ UNCHANGED <<disk, edits, reload, read, torn, live, retention, seen>>

\* A signal: the channel holds one, a second one is dropped.
Sighup ==
  /\ pending' = TRUE /\ fresh' = TRUE
  /\ UNCHANGED <<disk, edits, reload, read, torn, live, retention, seen>>

Receive ==
  /\ reload = "idle" /\ pending
  /\ reload' = "webhooks" /\ pending' = FALSE
  /\ UNCHANGED <<disk, edits, fresh, read, torn, live, retention, seen>>

\* Mutant of LoadWebhooks: the new plugins go live before gitd.yaml is checked.
LoadWebhooksLive ==
  /\ reload = "webhooks"
  /\ IF disk["webhooks"].ok
     THEN /\ reload' = "gitd" /\ read' = [read EXCEPT !["webhooks"] = disk["webhooks"]]
          /\ live' = [live EXCEPT !["webhooks"] = disk["webhooks"]]
     ELSE reload' = "idle" /\ UNCHANGED <<read, live>>
  /\ torn' = FALSE
  /\ UNCHANGED <<disk, edits, fresh, pending, retention, seen>>

LoadWebhooks ==
  /\ reload = "webhooks"
  /\ IF disk["webhooks"].ok
     THEN reload' = "gitd" /\ read' = [read EXCEPT !["webhooks"] = disk["webhooks"]]
     ELSE reload' = "idle" /\ UNCHANGED read
  /\ torn' = FALSE
  /\ UNCHANGED <<disk, edits, fresh, pending, live, retention, seen>>

LoadGitd ==
  /\ reload = "gitd"
  /\ IF disk["gitd"].ok
     THEN reload' = "swap" /\ read' = [read EXCEPT !["gitd"] = disk["gitd"]]
     ELSE reload' = "idle" /\ UNCHANGED read
  /\ UNCHANGED <<disk, edits, fresh, pending, torn, live, retention, seen>>

\* Both configurations change under one lock.
Swap ==
  /\ reload = "swap"
  /\ live' = read /\ reload' = "apply"
  /\ UNCHANGED <<disk, edits, fresh, pending, read, torn, retention, seen>>

\* Mutant of Apply: the spool keeps the retention it was created with.
ApplyForgets ==
  /\ reload = "apply"
  /\ UNCHANGED retention /\ reload' = "idle"
  /\ UNCHANGED <<disk, edits, fresh, pending, read, torn, live, seen>>

\* applyReload passes the retention of the live gitd.yaml on to the spool.
Apply ==
  /\ reload = "apply"
  /\ retention' = live["gitd"] /\ reload' = "idle"
  /\ UNCHANGED <<disk, edits, fresh, pending, read, torn, live, seen>>

Reload == Receive \/ LoadWebhooks \/ LoadGitd \/ Swap \/ Apply

Next == (\E f \in Files : Edit(f)) \/ Sighup \/ Reload

Spec == Init /\ [][Next]_vars

\* The goroutine that reads the signals is scheduled.
FairSpec == Spec /\ WF_vars(Reload)

-----------------------------------------------------------------------------
(* Properties *)

\* What is read, live and passed on is always a complete configuration.
TypeOK ==
  /\ disk \in [Files -> Content] /\ read \in [Files -> Content] /\ live \in [Files -> Content]
  /\ edits \in 0..Edits
  /\ fresh \in BOOLEAN /\ pending \in BOOLEAN /\ torn \in BOOLEAN
  /\ reload \in {"idle", "webhooks", "gitd", "swap", "apply"}
  /\ retention \in Content
  /\ seen \subseteq [Files -> Content]

Valid(pair) == \A f \in Files : pair[f].ok

\* When the signals are worked off and no file was edited after the last one, the
\* process runs with the files on disk, if these are valid: a signal that arrives
\* during a reload is not lost with the edit it announces.
SettledIsCurrent ==
  fresh /\ ~pending /\ reload = "idle" /\ Valid(disk) =>
    live = disk /\ retention = disk["gitd"]

\* A reload goes live as a whole (Reload: "On any parse or validation error the
\* previous config stays live"): the new pair is valid, and it was on disk at one
\* time unless a file was edited between the two reads.
PairGoesLive == [][live' # live => Valid(live') /\ (torn \/ live' \in seen)]_vars

\* An edit that the operator announces reaches the process and its spool, unless
\* it is invalid or edited again.
EventuallyCurrent ==
  fresh /\ Valid(disk) ~> ~fresh \/ (live = disk /\ retention = disk["gitd"])
==============================================================================
