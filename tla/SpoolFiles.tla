------------------------------ MODULE SpoolFiles ------------------------------
(***************************************************************************)
(* The files behind one spool record: writeAtomic with its temp file,      *)
(* fsync, rename and directory fsync; update, which reads the record and   *)
(* writes it anew; List, which reads every .json file of the directory,    *)
(* temp files included; the death of a process and the loss of power.      *)
(*                                                                         *)
(* Each writer performs one writeAtomic, so its name also names its temp   *)
(* file and the inode it creates.  The file system is modelled by what it  *)
(* guarantees: until an fsync returns, any of the states that a file or    *)
(* the directory has had since its last fsync may be found after a loss of *)
(* power.                                                                  *)
(***************************************************************************)
EXTENDS Naturals, FiniteSets

CONSTANTS Notifier,   \* the writer that is notify's Write of the new event
          Updaters,   \* the writers that are updates in gitd serve
          None

Writers == Updaters \cup {Notifier}

ASSUME SpoolFilesAssumption == None \notin Writers /\ Notifier \notin Updaters

VARIABLES
  pc,       \* writer -> position in writeAtomic
  state,    \* writer -> delivery state in the record it writes
  mem,      \* inode -> content a read sees
  disk,     \* inode -> contents a loss of power may leave
  dir,      \* the directory: inode of the record, writers whose temp exists
  dirDisk,  \* directories a loss of power may leave
  rank,     \* inode -> its turn among the renames, 0 before its rename
  renames,  \* number of renames so far
  purged,   \* has a purge removed the record?
  scan      \* caller of List -> its progress

vars == <<pc, state, mem, disk, dir, dirDisk, rank, renames, purged, scan>>

\* The callers of List: serve's CatchUp, and Purge, by serve or gitd spool purge.
Callers == {"catchUp", "purge"}

Active == {"create", "write", "sync", "rename", "syncDir"}

Quiet == \A w \in Writers : pc[w] \notin Active

\* final, temps: names still to be read.  hit: some copy of the record was due
\* (CatchUp) or expired (Purge).  calm (history): CatchUp began with a pending record
\* that nobody was writing.
IdleScan == [on |-> FALSE, final |-> FALSE, temps |-> {}, hit |-> FALSE, calm |-> FALSE]

Init ==
  /\ pc = [w \in Writers |-> "new"]
  /\ state = [w \in Writers |-> "pending"]
  /\ mem = [w \in Writers |-> "none"]
  /\ disk = [w \in Writers |-> {"none"}]
  /\ dir = [final |-> None, temps |-> {}]
  /\ dirDisk = {dir}
  /\ rank = [w \in Writers |-> 0]
  /\ renames = 0
  /\ purged = FALSE
  /\ scan = [c \in Callers |-> IdleScan]

-----------------------------------------------------------------------------
(* writeAtomic *)

States == {"pending", "delivered", "dead"}

\* A directory operation: visible at once, durable after an fsync.
ChangeDir(d) == dir' = d /\ dirDisk' = dirDisk \cup {d}

\* notify's Write starts with a pending record; update reads the record and
\* keeps pending or settles it, but does not make a settled one pending.  The
\* updates and CatchUp take turns on serve's one worker.
Begin(w) ==
  /\ pc[w] = "new"
  /\ pc' = [pc EXCEPT ![w] = "create"]
  /\ IF w = Notifier THEN UNCHANGED state
     ELSE /\ \A u \in Updaters : pc[u] \notin Active
          /\ ~scan["catchUp"].on
          /\ dir.final # None
          /\ \E s \in States :
               /\ s = "pending" => state[dir.final] = "pending"
               /\ state' = [state EXCEPT ![w] = s]
  /\ UNCHANGED <<mem, disk, dir, dirDisk, rank, renames, purged, scan>>

\* os.CreateTemp: an empty file ".spool-*.json".
CreateTemp(w) ==
  /\ pc[w] = "create"
  /\ pc' = [pc EXCEPT ![w] = "write"]
  /\ mem' = [mem EXCEPT ![w] = "partial"]
  /\ disk' = [disk EXCEPT ![w] = {"none", "partial"}]
  /\ ChangeDir([dir EXCEPT !.temps = @ \cup {w}])
  /\ UNCHANGED <<state, rank, renames, purged, scan>>

\* tmp.Write
WriteTemp(w) ==
  /\ pc[w] = "write"
  /\ pc' = [pc EXCEPT ![w] = "sync"]
  /\ mem' = [mem EXCEPT ![w] = "whole"]
  /\ disk' = [disk EXCEPT ![w] = @ \cup {"whole"}]
  /\ UNCHANGED <<state, dir, dirDisk, rank, renames, purged, scan>>

\* Mutant of SyncTemp: the temp file is not synced.
SyncTempSkipped(w) ==
  /\ pc[w] = "sync"
  /\ pc' = [pc EXCEPT ![w] = "rename"]
  /\ UNCHANGED <<state, mem, disk, dir, dirDisk, rank, renames, purged, scan>>

\* tmp.Sync and Close
SyncTemp(w) ==
  /\ pc[w] = "sync"
  /\ pc' = [pc EXCEPT ![w] = "rename"]
  /\ disk' = [disk EXCEPT ![w] = {mem[w]}]
  /\ UNCHANGED <<state, mem, dir, dirDisk, rank, renames, purged, scan>>

\* os.Rename over the record.
Rename(w) ==
  /\ pc[w] = "rename"
  /\ pc' = [pc EXCEPT ![w] = "syncDir"]
  /\ renames' = renames + 1
  /\ rank' = [rank EXCEPT ![w] = renames + 1]
  /\ ChangeDir([final |-> w, temps |-> dir.temps \ {w}])
  /\ UNCHANGED <<state, mem, disk, purged, scan>>

\* Mutant of SyncDir: Write returns without it.
SyncDirSkipped(w) ==
  /\ pc[w] = "syncDir"
  /\ pc' = [pc EXCEPT ![w] = "ok"]
  /\ UNCHANGED <<state, mem, disk, dir, dirDisk, rank, renames, purged, scan>>

\* fsyncDir; writeAtomic returns nil.
SyncDir(w) ==
  /\ pc[w] = "syncDir"
  /\ pc' = [pc EXCEPT ![w] = "ok"]
  /\ dirDisk' = {dir}
  /\ UNCHANGED <<state, mem, disk, dir, rank, renames, purged, scan>>

\* An error before the rename removes the temp file; one after it does not
\* take the rename back.
WriteFails(w) ==
  /\ pc[w] \in Active
  /\ pc' = [pc EXCEPT ![w] = "err"]
  /\ IF w \in dir.temps THEN ChangeDir([dir EXCEPT !.temps = @ \ {w}])
     ELSE UNCHANGED <<dir, dirDisk>>
  /\ UNCHANGED <<state, mem, disk, rank, renames, purged, scan>>

-----------------------------------------------------------------------------
(* List and its callers *)

\* os.ReadDir.  List has no eye for temp files: their names end in .json too.
ListDir(c) ==
  /\ ~scan[c].on
  /\ c = "catchUp" => \A u \in Updaters : pc[u] \notin Active
  /\ scan' = [scan EXCEPT ![c] =
       [on |-> TRUE, final |-> dir.final # None, temps |-> dir.temps, hit |-> FALSE,
        calm |-> c = "catchUp" /\ Quiet /\ dir.final # None /\ state[dir.final] = "pending"]]
  /\ UNCHANGED <<pc, state, mem, disk, dir, dirDisk, rank, renames, purged>>

\* Mutant of Matches: whatever is no longer pending ages out.
MatchesSettled(c, w) == (state[w] = "pending") = (c = "catchUp")

\* What the caller looks for in a copy; its time may not have come.
Matches(c, w) == state[w] = IF c = "catchUp" THEN "pending" ELSE "delivered"

\* readFile and decodeRecord of a listed name: a file that is torn or gone ends
\* List, and its caller, with an error.
Read(c, exists, w, rest) ==
  /\ IF exists /\ mem[w] = "whole"
     THEN \E timely \in BOOLEAN :
            scan' = [scan EXCEPT ![c] = [rest EXCEPT !.hit = @ \/ (timely /\ Matches(c, w))]]
     ELSE scan' = [scan EXCEPT ![c] = IdleScan]
  /\ UNCHANGED <<pc, state, mem, disk, dir, dirDisk, rank, renames, purged>>

ListReadTemp(c, w) ==
  /\ w \in scan[c].temps
  /\ Read(c, w \in dir.temps, w, [scan[c] EXCEPT !.temps = @ \ {w}])

ListReadFinal(c) ==
  /\ scan[c].final
  /\ Read(c, dir.final # None, dir.final, [scan[c] EXCEPT !.final = FALSE])

ListRead(c) == scan[c].on /\ ~scan[c].final /\ scan[c].temps = {}

\* CatchUp returns; the event is queued if some copy of it is due.
CatchUpReturns ==
  /\ ListRead("catchUp")
  /\ scan' = [scan EXCEPT !["catchUp"] = IdleScan]
  /\ UNCHANGED <<pc, state, mem, disk, dir, dirDisk, rank, renames, purged>>

\* Purge deletes the record, under its final name, if some copy has expired.
PurgeDeletes ==
  /\ ListRead("purge")
  /\ scan' = [scan EXCEPT !["purge"] = IdleScan]
  /\ IF scan["purge"].hit /\ dir.final # None
     THEN /\ ChangeDir([dir EXCEPT !.final = None])
          /\ purged' = TRUE
     ELSE UNCHANGED <<dir, dirDisk, purged>>
  /\ UNCHANGED <<pc, state, mem, disk, rank, renames>>

-----------------------------------------------------------------------------
(* Crashes *)

Dead(W) == pc' = [w \in Writers |-> IF w \in W /\ pc[w] \in Active THEN "gone" ELSE pc[w]]

\* notify dies; serve, with its updates and its CatchUp, dies;
NotifyCrash ==
  /\ pc[Notifier] \in Active
  /\ Dead({Notifier})
  /\ UNCHANGED <<state, mem, disk, dir, dirDisk, rank, renames, purged, scan>>

ServeCrash ==
  /\ scan["catchUp"].on \/ \E w \in Updaters : pc[w] \in Active
  /\ Dead(Updaters)
  /\ scan' = [scan EXCEPT !["catchUp"] = IdleScan]
  /\ UNCHANGED <<state, mem, disk, dir, dirDisk, rank, renames, purged>>

\* The machine loses power: what was not synced may or may not be there.
PowerLoss ==
  /\ Dead(Writers)
  /\ scan' = [c \in Callers |-> IdleScan]
  /\ dir' \in dirDisk
  /\ dirDisk' = {dir'}
  /\ mem' \in {m \in [Writers -> {"none", "partial", "whole"}] :
                \A w \in Writers : m[w] \in disk[w]}
  /\ disk' = [w \in Writers |-> {mem'[w]}]
  /\ UNCHANGED <<state, rank, renames, purged>>

Next ==
  \/ \E w \in Writers :
       \/ Begin(w) \/ CreateTemp(w) \/ WriteTemp(w) \/ SyncTemp(w)
       \/ Rename(w) \/ SyncDir(w) \/ WriteFails(w)
       \/ \E c \in Callers : ListReadTemp(c, w)
  \/ \E c \in Callers : ListDir(c) \/ ListReadFinal(c)
  \/ CatchUpReturns \/ PurgeDeletes
  \/ NotifyCrash \/ ServeCrash \/ PowerLoss

Spec == Init /\ [][Next]_vars

-----------------------------------------------------------------------------
(* Properties *)

Content == {"none", "partial", "whole"}

Directory == [final : Writers \cup {None}, temps : SUBSET Writers]

\* The variables keep their types.
TypeOK ==
  /\ pc \in [Writers -> Active \cup {"new", "ok", "err", "gone"}]
  /\ state \in [Writers -> States]
  /\ mem \in [Writers -> Content]
  /\ disk \in [Writers -> SUBSET Content]
  /\ dir \in Directory
  /\ dirDisk \subseteq Directory
  /\ dir \in dirDisk
  /\ rank \in [Writers -> 0..renames]
  /\ renames \in Nat
  /\ purged \in BOOLEAN
  /\ scan \in [Callers -> [on : BOOLEAN, final : BOOLEAN, temps : SUBSET Writers,
                          hit : BOOLEAN, calm : BOOLEAN]]

\* The record under its final name is whole, for every reader now and after a
\* loss of power at any moment (Write's comment: file, rename, parent dir).
FinalNeverTorn ==
  \A d \in dirDisk : d.final # None => disk[d.final] = {"whole"} /\ mem[d.final] = "whole"

\* A Write or update that returned nil survives a loss of power: whatever
\* directory is found, its record is that one or a later one, unless purged.
AcknowledgedIsDurable ==
  \A w \in Writers : pc[w] = "ok" =>
    \A d \in dirDisk : IF d.final = None THEN purged ELSE rank[d.final] >= rank[w]

\* What a reader may find after a loss of power where the record's inode is i.
Reads(i) ==
  IF i = None THEN {None} ELSE {IF c = "whole" THEN i ELSE "torn" : c \in disk[i]}

\* The record that a reader finds now, and those it may find after a loss of power;
\* the writes that were renamed into place, and those that returned nil.
Found == IF dir.final = None \/ mem[dir.final] = "whole" THEN dir.final ELSE "torn"
MayBeFound == UNION {Reads(i) : i \in {d.final : d \in dirDisk}}
Renamed == {w \in Writers : rank[w] # 0}
Returned == {w \in Writers : pc[w] = "ok"}

Record == INSTANCE DurableRecord WITH
  record <- Found, maybe <- MayBeFound, written <- Renamed, acked <- Returned

\* writeAtomic, update, Purge and the crashes of the processes work on the record as a
\* whole: who reads, writes and removes it through the files sees what a single
\* durable record would show (Delivery relies on it).
IsDurableRecord == Record!Spec

\* A purge takes a pending record only if the event was delivered: an update to
\* "delivered" was begun and failed, died or is still on its way, and Purge has
\* read its temp file as a record of its own.
PurgedWasDelivered ==
  [][PurgeDeletes /\ dir.final # dir'.final /\ state[dir.final] = "pending" =>
       \E w \in Updaters : state[w] = "delivered" /\ pc[w] \notin {"new", "ok"}]_vars

\* What CatchUp's comment promises: it "returns the ids of pending events", so a
\* List of a pending record that nobody is writing does not fail on it.
CatchUpListsPending ==
  [][scan["catchUp"].calm /\ (\E w \in Writers : ListReadTemp("catchUp", w))
       => scan'["catchUp"].on]_vars
==============================================================================
