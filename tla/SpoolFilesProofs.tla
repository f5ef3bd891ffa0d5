--------------------------- MODULE SpoolFilesProofs ---------------------------
(***************************************************************************)
(* For any number of updates: the record under its final name is never     *)
(* torn, a write that returned survives a loss of power, the files         *)
(* implement a durable record, and a purge takes a pending record only if  *)
(* an update to "delivered" was begun.                                     *)
(***************************************************************************)
EXTENDS SpoolFiles, TLAPS

\* The inductive invariant.  A writer has synced its file before it renames it,
\* so whatever a directory names as the record is whole.  Until the directory
\* is synced, the record that its writer sees is its own or a later one.
Synced ==
  /\ \A w \in Writers : /\ pc[w] = "sync" => mem[w] = "whole"
                        /\ pc[w] = "rename" => disk[w] = {"whole"} /\ mem[w] = "whole"
  /\ \A d \in dirDisk : d.final # None =>
       /\ pc[d.final] \in {"syncDir", "ok", "err", "gone"}
       /\ disk[d.final] = {"whole"}
       /\ mem[d.final] = "whole"

Newest(w, d) == IF d.final = None THEN purged ELSE rank[d.final] >= rank[w]

Ordered ==
  /\ \A w \in Writers : pc[w] = "syncDir" => Newest(w, dir)
  /\ \A w \in Writers : pc[w] = "ok" => \A d \in dirDisk : Newest(w, d)

IInv == TypeOK /\ Synced /\ Ordered

\* The steps of a List change nothing but its own progress.
ScanOnly == \E c \in Callers :
  /\ \E r \in [on : BOOLEAN, final : BOOLEAN, temps : SUBSET Writers,
               hit : BOOLEAN, calm : BOOLEAN] : scan' = [scan EXCEPT ![c] = r]
  /\ UNCHANGED <<pc, state, mem, disk, dir, dirDisk, rank, renames, purged>>

\* ListDir, the reads of List and the return of CatchUp are such steps.
LEMMA ListSteps ==
  ASSUME TypeOK, NEW c \in Callers,
         ListDir(c) \/ ListReadFinal(c) \/ (\E w \in Writers : ListReadTemp(c, w))
  PROVE  ScanOnly
<1> DEFINE R == [on : BOOLEAN, final : BOOLEAN, temps : SUBSET Writers,
                 hit : BOOLEAN, calm : BOOLEAN]
<1>1. scan[c] \in R
  BY DEF TypeOK
<1>2. IdleScan \in R
  BY DEF IdleScan
<1>3. ASSUME ListDir(c) PROVE ScanOnly
  <2> DEFINE r == [on |-> TRUE, final |-> dir.final # None, temps |-> dir.temps, hit |-> FALSE,
                   calm |-> c = "catchUp" /\ Quiet /\ dir.final # None /\ state[dir.final] = "pending"]
  <2>1. r \in R
    BY DEF TypeOK, Directory
  <2> QED
    BY <1>3, <2>1 DEF ListDir, ScanOnly
<1>4. ASSUME NEW w, NEW exists, NEW rest \in R, Read(c, exists, w, rest)
      PROVE  ScanOnly
  <2>1. CASE scan' = [scan EXCEPT ![c] = IdleScan]
    BY <1>2, <1>4, <2>1 DEF Read, ScanOnly
  <2>2. ASSUME NEW b \in BOOLEAN,
               scan' = [scan EXCEPT ![c] = [rest EXCEPT !.hit = @ \/ (b /\ Matches(c, w))]]
        PROVE  ScanOnly
    <3>1. [rest EXCEPT !.hit = @ \/ (b /\ Matches(c, w))] \in R
      OBVIOUS
    <3> QED
      BY <1>4, <2>2, <3>1 DEF Read, ScanOnly
  <2> QED
    BY <1>4, <2>1, <2>2 DEF Read
<1>5. ASSUME ListReadFinal(c) PROVE ScanOnly
  <2>1. [scan[c] EXCEPT !.final = FALSE] \in R
    BY <1>1
  <2> QED
    BY <1>4, <1>5, <2>1 DEF ListReadFinal
<1>6. ASSUME NEW w \in Writers, ListReadTemp(c, w) PROVE ScanOnly
  <2>1. [scan[c] EXCEPT !.temps = @ \ {w}] \in R
    BY <1>1
  <2> QED
    BY <1>4, <1>6, <2>1 DEF ListReadTemp
<1> QED
  BY <1>3, <1>5, <1>6

\* A change of the directory keeps the types of the directories.
LEMMA ChangeDirType ==
  ASSUME TypeOK, NEW d \in Directory, ChangeDir(d)
  PROVE  /\ dir' \in Directory
         /\ dirDisk' \subseteq Directory
         /\ dir' \in dirDisk'
BY DEF TypeOK, ChangeDir

\* Every step of writeAtomic, List, Purge and every crash keeps TypeOK.
LEMMA TypeStep == TypeOK /\ [Next]_vars => TypeOK'
<1> SUFFICES ASSUME TypeOK, [Next]_vars PROVE TypeOK'
  OBVIOUS
<1>1. ASSUME NEW w \in Writers, Begin(w) PROVE TypeOK'
  BY <1>1 DEF TypeOK, Begin, Active, States
<1>2. ASSUME NEW w \in Writers, CreateTemp(w) PROVE TypeOK'
  <2>1. [dir EXCEPT !.temps = @ \cup {w}] \in Directory
    BY DEF TypeOK, Directory
  <2> QED
    BY <1>2, <2>1, ChangeDirType DEF TypeOK, CreateTemp, Active, Content
<1>3. ASSUME NEW w \in Writers, WriteTemp(w) PROVE TypeOK'
  BY <1>3 DEF TypeOK, WriteTemp, Active, Content
<1>4. ASSUME NEW w \in Writers, SyncTemp(w) PROVE TypeOK'
  BY <1>4 DEF TypeOK, SyncTemp, Active
<1>5. ASSUME NEW w \in Writers, Rename(w) PROVE TypeOK'
  <2>1. [final |-> w, temps |-> dir.temps \ {w}] \in Directory
    BY DEF TypeOK, Directory
  <2>2. rank' \in [Writers -> 0..renames'] /\ renames' \in Nat
    BY <1>5 DEF TypeOK, Rename
  <2> QED
    BY <1>5, <2>1, <2>2, ChangeDirType DEF TypeOK, Rename, Active
<1>6. ASSUME NEW w \in Writers, SyncDir(w) PROVE TypeOK'
  BY <1>6 DEF TypeOK, SyncDir, Active
<1>7. ASSUME NEW w \in Writers, WriteFails(w) PROVE TypeOK'
  <2>1. [dir EXCEPT !.temps = @ \ {w}] \in Directory
    BY DEF TypeOK, Directory
  <2>2. dir' \in Directory /\ dirDisk' \subseteq Directory /\ dir' \in dirDisk'
    BY <1>7, <2>1, ChangeDirType DEF TypeOK, WriteFails
  <2> QED
    BY <1>7, <2>2 DEF TypeOK, WriteFails, Active
<1>8. ASSUME ScanOnly PROVE TypeOK'
  BY <1>8 DEF TypeOK, ScanOnly
<1>9. CASE CatchUpReturns
  BY <1>9 DEF TypeOK, CatchUpReturns, IdleScan, Callers
<1>10. CASE PurgeDeletes
  <2>1. [dir EXCEPT !.final = None] \in Directory
    BY DEF TypeOK, Directory
  <2>2. dir' \in Directory /\ dirDisk' \subseteq Directory /\ dir' \in dirDisk'
    BY <1>10, <2>1, ChangeDirType DEF TypeOK, PurgeDeletes
  <2> QED
    BY <1>10, <2>2 DEF TypeOK, PurgeDeletes, IdleScan, Callers
<1>11. CASE NotifyCrash
  BY <1>11 DEF TypeOK, NotifyCrash, Dead
<1>12. CASE ServeCrash
  BY <1>12 DEF TypeOK, ServeCrash, Dead, IdleScan, Callers
<1>13. CASE PowerLoss
  BY <1>13 DEF TypeOK, PowerLoss, Dead, IdleScan, Content
<1>14. CASE UNCHANGED vars
  BY <1>14 DEF TypeOK, vars
<1> QED
  BY <1>1, <1>2, <1>3, <1>4, <1>5, <1>6, <1>7, <1>8, <1>9, <1>10, <1>11, <1>12,
     <1>13, <1>14, ListSteps DEF Next

\* The initial spool has its types and no record.
LEMMA InitInv == Init => IInv
<1> SUFFICES ASSUME Init PROVE IInv
  OBVIOUS
<1>1. dir \in Directory /\ dirDisk = {dir} /\ dir.final = None
  BY DEF Init, Directory
<1>2. scan \in [Callers -> [on : BOOLEAN, final : BOOLEAN, temps : SUBSET Writers,
                            hit : BOOLEAN, calm : BOOLEAN]]
  BY DEF Init, IdleScan
<1>3. rank \in [Writers -> 0..renames] /\ renames \in Nat
  BY DEF Init
<1>4. TypeOK
  BY <1>1, <1>2, <1>3 DEF Init, TypeOK, Content, States
<1> QED
  BY <1>1, <1>4 DEF Init, IInv, Synced, Ordered

\* A file is synced before its rename, whoever else writes, lists, purges or
\* dies in between.
LEMMA SyncedStep == TypeOK /\ Synced /\ [Next]_vars => Synced'
<1> SUFFICES ASSUME TypeOK, Synced, [Next]_vars PROVE Synced'
  OBVIOUS
<1>0. /\ \A d \in dirDisk : d.final = None \/ d.final \in Writers
      /\ dir \in dirDisk
      /\ None \notin Writers
  BY SpoolFilesAssumption DEF TypeOK, Directory
<1>1. ASSUME NEW w \in Writers, Begin(w) PROVE Synced'
  BY <1>0, <1>1 DEF TypeOK, Synced, Begin
<1>2. ASSUME NEW w \in Writers, CreateTemp(w) PROVE Synced'
  <2>1. \A d \in dirDisk' : d.final = dir.final \/ d \in dirDisk
    BY <1>2 DEF CreateTemp, ChangeDir, TypeOK, Directory
  <2>2. \A d \in dirDisk' : d.final # w
    BY <1>0, <1>2, <2>1 DEF Synced, CreateTemp
  <2> QED
    BY <1>0, <1>2, <2>1, <2>2 DEF TypeOK, Synced, CreateTemp
<1>3. ASSUME NEW w \in Writers, WriteTemp(w) PROVE Synced'
  BY <1>0, <1>3 DEF TypeOK, Synced, WriteTemp
<1>4. ASSUME NEW w \in Writers, SyncTemp(w) PROVE Synced'
  BY <1>0, <1>4 DEF TypeOK, Synced, SyncTemp
<1>5. ASSUME NEW w \in Writers, Rename(w) PROVE Synced'
  <2>1. \A d \in dirDisk' : d.final = w \/ d \in dirDisk
    BY <1>5 DEF Rename, ChangeDir
  <2> QED
    BY <1>0, <1>5, <2>1 DEF TypeOK, Synced, Rename
<1>6. ASSUME NEW w \in Writers, SyncDir(w) PROVE Synced'
  BY <1>0, <1>6 DEF TypeOK, Synced, SyncDir
<1>7. ASSUME NEW w \in Writers, WriteFails(w) PROVE Synced'
  <2>1. \A d \in dirDisk' : d.final = dir.final \/ d \in dirDisk
    BY <1>7 DEF WriteFails, ChangeDir, TypeOK, Directory
  <2>2. \A d \in dirDisk : d.final # None => pc'[d.final] \in {"syncDir", "ok", "err", "gone"}
    BY <1>0, <1>7 DEF TypeOK, Synced, WriteFails
  <2> QED
    BY <1>0, <1>7, <2>1, <2>2 DEF TypeOK, Synced, WriteFails
<1>8. ASSUME ScanOnly PROVE Synced'
  BY <1>8 DEF Synced, ScanOnly
<1>9. CASE CatchUpReturns
  BY <1>9 DEF Synced, CatchUpReturns
<1>10. CASE PurgeDeletes
  <2>1. \A d \in dirDisk' : d.final = None \/ d \in dirDisk
    BY <1>10 DEF PurgeDeletes, ChangeDir, TypeOK, Directory
  <2> QED
    BY <1>10, <2>1 DEF Synced, PurgeDeletes
<1>11. CASE NotifyCrash
  BY <1>0, <1>11 DEF TypeOK, Synced, NotifyCrash, Dead, Active
<1>12. CASE ServeCrash
  BY <1>0, <1>12 DEF TypeOK, Synced, ServeCrash, Dead, Active
<1>13. CASE PowerLoss
  <2>1. \A w \in Writers : /\ mem'[w] \in disk[w]
                           /\ disk'[w] = {mem'[w]}
                           /\ pc'[w] \notin Active
    BY <1>13 DEF TypeOK, PowerLoss, Dead, Active
  <2>2. \A w \in Writers : pc[w] \in {"syncDir", "ok", "err", "gone"}
                             => pc'[w] \in {"ok", "err", "gone"}
    BY <1>13 DEF TypeOK, PowerLoss, Dead, Active
  <2>3. dirDisk' \subseteq dirDisk
    BY <1>13 DEF PowerLoss
  <2> QED
    BY <1>0, <2>1, <2>2, <2>3 DEF Synced, Active
<1>14. CASE UNCHANGED vars
  BY <1>14 DEF Synced, vars
<1> QED
  BY <1>1, <1>2, <1>3, <1>4, <1>5, <1>6, <1>7, <1>8, <1>9, <1>10, <1>11, <1>12,
     <1>13, <1>14, ListSteps DEF Next

\* An acknowledged write is in every directory that a loss of power may leave,
\* unless a later write or a purge took its place.
LEMMA OrderedStep == TypeOK /\ Synced /\ Ordered /\ [Next]_vars => Ordered'
<1> SUFFICES ASSUME TypeOK, Synced, Ordered, [Next]_vars PROVE Ordered'
  OBVIOUS
<1>0. /\ \A d \in dirDisk : d.final = None \/ d.final \in Writers
      /\ dir \in dirDisk
      /\ None \notin Writers
      /\ \A w \in Writers : rank[w] \in Nat /\ rank[w] <= renames
  BY SpoolFilesAssumption DEF TypeOK, Directory
<1>1. ASSUME dirDisk' \subseteq dirDisk, dir' = dir, rank' = rank, purged' = purged,
             \A w \in Writers : /\ pc'[w] = "syncDir" => pc[w] = "syncDir"
                                /\ pc'[w] = "ok" => pc[w] = "ok"
      PROVE  Ordered'
  BY <1>1 DEF Ordered, Newest
<1>2. ASSUME NEW d, ChangeDir(d), d.final = dir.final, rank' = rank, purged' = purged,
             \A w \in Writers : /\ pc'[w] = "syncDir" => pc[w] = "syncDir"
                                /\ pc'[w] = "ok" => pc[w] = "ok"
      PROVE  Ordered'
  BY <1>0, <1>2 DEF Ordered, Newest, ChangeDir
<1>3. ASSUME NEW w \in Writers, Begin(w) \/ WriteTemp(w) \/ SyncTemp(w) PROVE Ordered'
  BY <1>1, <1>3 DEF TypeOK, Begin, WriteTemp, SyncTemp
<1>4. ASSUME NEW w \in Writers, CreateTemp(w) PROVE Ordered'
  BY <1>2, <1>4 DEF TypeOK, CreateTemp, Directory
<1>5. ASSUME NEW w \in Writers, Rename(w) PROVE Ordered'
  <2>1. /\ rank'[w] = renames + 1
        /\ \A u \in Writers : u # w => rank'[u] = rank[u]
        /\ \A u \in Writers : rank'[u] <= renames + 1
        /\ \A d \in dirDisk : d.final # w
    BY <1>0, <1>5 DEF TypeOK, Rename, Synced
  <2>2. /\ dir'.final = w
        /\ dirDisk' = dirDisk \cup {dir'}
        /\ purged' = purged
    BY <1>5 DEF Rename, ChangeDir
  <2>3. \A u \in Writers : Newest(u, dir)'
    BY <1>0, <1>5, <2>1, <2>2 DEF Newest, TypeOK
  <2>4. \A u \in Writers : pc'[u] = "ok" => u # w /\ pc[u] = "ok"
    BY <1>5 DEF TypeOK, Rename
  <2>5. \A u \in Writers : pc'[u] = "ok" => \A d \in dirDisk : Newest(u, d)'
    BY <1>0, <2>1, <2>2, <2>4 DEF Ordered, Newest
  <2> QED
    BY <2>2, <2>3, <2>5 DEF Ordered, Newest
<1>6. ASSUME NEW w \in Writers, SyncDir(w) PROVE Ordered'
  BY <1>0, <1>6 DEF TypeOK, SyncDir, Ordered, Newest
<1>7. ASSUME NEW w \in Writers, WriteFails(w) PROVE Ordered'
  <2>1. \A u \in Writers : /\ pc'[u] = "syncDir" => pc[u] = "syncDir"
                           /\ pc'[u] = "ok" => pc[u] = "ok"
    BY <1>7 DEF TypeOK, WriteFails
  <2>2. CASE w \in dir.temps
    BY <1>2, <1>7, <2>1, <2>2 DEF WriteFails, TypeOK, Directory
  <2>3. CASE w \notin dir.temps
    BY <1>1, <1>7, <2>1, <2>3 DEF WriteFails
  <2> QED
    BY <2>2, <2>3
<1>8. ASSUME ScanOnly PROVE Ordered'
  BY <1>1, <1>8 DEF ScanOnly
<1>9. CASE CatchUpReturns
  BY <1>1, <1>9 DEF CatchUpReturns
<1>10. CASE PurgeDeletes
  <2>1. CASE UNCHANGED <<dir, dirDisk, purged>>
    BY <1>1, <1>10, <2>1 DEF PurgeDeletes
  <2>2. CASE ChangeDir([dir EXCEPT !.final = None]) /\ purged' = TRUE
    BY <1>10, <2>2 DEF PurgeDeletes, Ordered, Newest, ChangeDir, TypeOK, Directory
  <2> QED
    BY <1>10, <2>1, <2>2 DEF PurgeDeletes
<1>11. CASE NotifyCrash
  BY <1>1, <1>11 DEF TypeOK, NotifyCrash, Dead
<1>12. CASE ServeCrash
  BY <1>1, <1>12 DEF TypeOK, ServeCrash, Dead
<1>13. CASE PowerLoss
  <2>1. \A w \in Writers : /\ pc'[w] # "syncDir"
                           /\ pc'[w] = "ok" => pc[w] = "ok"
    BY <1>13 DEF TypeOK, PowerLoss, Dead, Active
  <2> QED
    BY <1>13, <2>1 DEF PowerLoss, Ordered, Newest
<1>14. CASE UNCHANGED vars
  BY <1>1, <1>14 DEF vars
<1> QED
  BY <1>3, <1>4, <1>5, <1>6, <1>7, <1>8, <1>9, <1>10, <1>11, <1>12,
     <1>13, <1>14, ListSteps DEF Next

\* The variables of the spool's files keep their types in every behaviour.
THEOREM TypeCorrect == Spec => []TypeOK
<1>1. Init => TypeOK
  BY InitInv DEF IInv
<1> QED
  BY <1>1, TypeStep, PTL DEF Spec

\* The invariant is inductive.
LEMMA Inductive == Spec => []IInv
<1>1. IInv /\ [Next]_vars => IInv'
  BY TypeStep, SyncedStep, OrderedStep DEF IInv
<1> QED
  BY <1>1, InitInv, PTL DEF Spec

\* For any set of updates and any crashes, no directory that writeAtomic leaves
\* on disk names a torn record.
THEOREM NeverTorn == Spec => []FinalNeverTorn
<1>1. IInv => FinalNeverTorn
  BY DEF IInv, Synced, FinalNeverTorn
<1> QED
  BY <1>1, Inductive, PTL

\* For any set of updates and any crashes, a Write or update that returned nil
\* is not lost with the power.
THEOREM Durable == Spec => []AcknowledgedIsDurable
<1>1. IInv => AcknowledgedIsDurable
  BY DEF IInv, Ordered, Newest, AcknowledgedIsDurable
<1> QED
  BY <1>1, Inductive, PTL
-----------------------------------------------------------------------------
(* The files are one durable record *)

Early == {"new", "create", "write", "sync", "rename"}

\* A writer has its turn among the renames once it has renamed.
Ranked ==
  \A w \in Writers : /\ pc[w] \in Early => rank[w] = 0
                     /\ pc[w] = "syncDir" => rank[w] # 0

\* Only a rename gives a turn, and a writer renames once.
LEMMA RankedStep == TypeOK /\ Ranked /\ [Next]_vars => Ranked'
<1> SUFFICES ASSUME TypeOK, Ranked, [Next]_vars PROVE Ranked'
  OBVIOUS
<1>1. ASSUME rank' = rank,
             \A w \in Writers : /\ pc'[w] \in Early => pc[w] \in Early
                                /\ pc'[w] = "syncDir" => pc[w] = "syncDir"
      PROVE  Ranked'
  BY <1>1 DEF Ranked
<1>2. ASSUME NEW w \in Writers,
             Begin(w) \/ CreateTemp(w) \/ WriteTemp(w) \/ SyncTemp(w) \/ SyncDir(w) \/ WriteFails(w)
      PROVE  Ranked'
  BY <1>1, <1>2
     DEF TypeOK, Begin, CreateTemp, WriteTemp, SyncTemp, SyncDir, WriteFails, Early
<1>3. ASSUME NEW w \in Writers, Rename(w) PROVE Ranked'
  BY <1>3 DEF TypeOK, Ranked, Rename, Early
<1>4. CASE ScanOnly \/ CatchUpReturns \/ PurgeDeletes \/ UNCHANGED vars
  BY <1>1, <1>4 DEF ScanOnly, CatchUpReturns, PurgeDeletes, vars
<1>5. CASE NotifyCrash \/ ServeCrash \/ PowerLoss
  BY <1>1, <1>5 DEF TypeOK, NotifyCrash, ServeCrash, PowerLoss, Dead, Early
<1> QED
  BY <1>2, <1>3, <1>4, <1>5, ListSteps DEF Next

\* No reader finds a torn record: it finds the one that the directory names.
LEMMA View == TypeOK /\ Synced => Found = dir.final /\ MayBeFound = {d.final : d \in dirDisk}
<1> SUFFICES ASSUME TypeOK, Synced
             PROVE  Found = dir.final /\ MayBeFound = {d.final : d \in dirDisk}
  OBVIOUS
<1>1. Found = dir.final
  BY DEF TypeOK, Synced, Found
<1>2. ASSUME NEW d \in dirDisk PROVE Reads(d.final) = {d.final}
  BY DEF Synced, Reads
<1>3. MayBeFound = {d.final : d \in dirDisk}
  BY <1>2 DEF MayBeFound
<1> QED
  BY <1>1, <1>3

\* A rename writes the record, the directory's fsync acknowledges the write, a purge
\* removes the record and a loss of power falls back on what may be found; no other
\* step of the writers, the lists and the crashes shows.
LEMMA RecordStep ==
  ASSUME TypeOK, Synced, Ranked, TypeOK', Synced', [Next]_vars
  PROVE  [Record!Next]_(Record!vars)
<1> DEFINE M == {d.final : d \in dirDisk}
<1>0. /\ Found = dir.final /\ Found' = dir'.final
      /\ MayBeFound = M /\ MayBeFound' = M'
      /\ dir \in dirDisk
      /\ None \notin Writers
  <2>1. (TypeOK /\ Synced => Found = dir.final /\ MayBeFound = {d.final : d \in dirDisk})'
    BY View, PTL
  <2> QED
    BY <2>1, View, SpoolFilesAssumption DEF TypeOK
<1> HIDE DEF M
<1>1. ASSUME dir'.final = dir.final, M' = M, rank' = rank, Returned' = Returned
      PROVE  UNCHANGED Record!vars
  BY <1>0, <1>1 DEF Record!vars, Renamed
<1>2. ASSUME NEW w \in Writers, Begin(w) \/ WriteTemp(w) \/ SyncTemp(w)
      PROVE  UNCHANGED Record!vars
  <2>1. Returned' = Returned
    BY <1>2 DEF TypeOK, Begin, WriteTemp, SyncTemp, Returned
  <2>2. dir' = dir /\ dirDisk' = dirDisk /\ rank' = rank
    BY <1>2 DEF Begin, WriteTemp, SyncTemp
  <2> QED
    BY <1>1, <2>1, <2>2 DEF M
<1>3. ASSUME NEW d, ChangeDir(d) PROVE dir' = d /\ M' = M \cup {d.final}
  BY <1>3 DEF ChangeDir, M
<1>4. dir.final \in M
  BY <1>0 DEF M
<1>5. ASSUME NEW w \in Writers, CreateTemp(w) PROVE UNCHANGED Record!vars
  <2>1. Returned' = Returned /\ rank' = rank
    BY <1>5 DEF TypeOK, CreateTemp, Returned
  <2>2. dir'.final = dir.final /\ M' = M \cup {dir.final}
    BY <1>3, <1>5 DEF CreateTemp, TypeOK, Directory
  <2> QED
    BY <1>1, <1>4, <2>1, <2>2
<1>6. ASSUME NEW w \in Writers, Rename(w) PROVE Record!Write(w)
  <2>1. Returned' = Returned
    BY <1>6 DEF TypeOK, Rename, Returned
  <2>2. dir'.final = w /\ M' = M \cup {w}
    BY <1>3, <1>6 DEF Rename
  <2>3. rank[w] = 0 /\ rank' = [rank EXCEPT ![w] = renames + 1] /\ renames + 1 # 0
    BY <1>6 DEF Rename, Ranked, Early, TypeOK
  <2>4. w \notin Renamed /\ Renamed' = Renamed \cup {w}
    BY <2>3 DEF Renamed, TypeOK
  <2> QED
    BY <1>0, <2>1, <2>2, <2>4 DEF Record!Write
<1>7. ASSUME NEW w \in Writers, SyncDir(w) PROVE Record!Acknowledge(w)
  <2>1. w \notin Returned /\ Returned' = Returned \cup {w}
    BY <1>7 DEF TypeOK, SyncDir, Returned
  <2>2. w \in Renamed /\ Renamed' = Renamed
    BY <1>7 DEF SyncDir, Ranked, Renamed
  <2>3. dir' = dir /\ M' = {dir.final}
    BY <1>7 DEF SyncDir, M
  <2> QED
    BY <1>0, <2>1, <2>2, <2>3 DEF Record!Acknowledge
<1>8. ASSUME NEW w \in Writers, WriteFails(w) PROVE UNCHANGED Record!vars
  <2>1. Returned' = Returned /\ rank' = rank
    BY <1>8 DEF TypeOK, WriteFails, Returned, Active
  <2>2. CASE w \in dir.temps
    <3>1. dir'.final = dir.final /\ M' = M \cup {dir.final}
      BY <1>3, <1>8, <2>2 DEF WriteFails, TypeOK, Directory
    <3> QED
      BY <1>1, <1>4, <2>1, <3>1
  <2>3. CASE w \notin dir.temps
    BY <1>1, <1>8, <2>1, <2>3 DEF WriteFails, M
  <2> QED
    BY <2>2, <2>3
<1>9. CASE ScanOnly \/ CatchUpReturns \/ UNCHANGED vars
  BY <1>1, <1>9 DEF ScanOnly, CatchUpReturns, vars, Returned, M
<1>10. CASE PurgeDeletes
  <2>1. Returned' = Returned /\ Renamed' = Renamed /\ rank' = rank
    BY <1>10 DEF PurgeDeletes, Returned, Renamed
  <2>2. CASE UNCHANGED <<dir, dirDisk, purged>>
    BY <1>1, <2>1, <2>2 DEF M
  <2>3. CASE dir.final # None /\ ChangeDir([dir EXCEPT !.final = None])
    <3>1. dir'.final = None /\ M' = M \cup {None}
      BY <1>3, <2>3 DEF TypeOK, Directory
    <3> QED
      BY <1>0, <2>1, <2>3, <3>1 DEF Record!Remove, Record!Next
  <2> QED
    BY <1>10, <2>2, <2>3 DEF PurgeDeletes
<1>11. CASE NotifyCrash \/ ServeCrash
  <2>1. Returned' = Returned
    BY <1>11 DEF TypeOK, NotifyCrash, ServeCrash, Dead, Active, Returned
  <2>2. dir' = dir /\ dirDisk' = dirDisk /\ rank' = rank
    BY <1>11 DEF NotifyCrash, ServeCrash
  <2> QED
    BY <1>1, <2>1, <2>2 DEF M
<1>12. CASE PowerLoss
  <2>1. Returned' = Returned /\ Renamed' = Renamed
    BY <1>12 DEF TypeOK, PowerLoss, Dead, Active, Returned, Renamed
  <2>2. dir'.final \in M /\ M' = {dir'.final}
    BY <1>12 DEF PowerLoss, M
  <2> QED
    BY <1>0, <2>1, <2>2 DEF Record!LosePower, Record!Next
<1>13. ASSUME NEW w \in Writers, Record!Write(w) \/ Record!Acknowledge(w) PROVE Record!Next
  BY <1>13 DEF Record!Next
<1> QED
  BY <1>2, <1>5, <1>6, <1>7, <1>8, <1>9, <1>10, <1>11, <1>12, <1>13, ListSteps DEF Next

\* For any set of updates, what writeAtomic, update, Purge and the crashes do to the files
\* is what they would do to one record that is written, removed and lost as a whole.
THEOREM OneRecord == Spec => IsDurableRecord
<1>1. Init => Record!Init
  <2> SUFFICES ASSUME Init PROVE Record!Init
    OBVIOUS
  <2>1. dir.final = None /\ dirDisk = {dir}
    BY DEF Init
  <2>2. Found = None /\ MayBeFound = {None}
    BY <2>1 DEF Found, MayBeFound, Reads
  <2>3. Renamed = {} /\ Returned = {}
    BY DEF Init, Renamed, Returned
  <2> QED
    BY <2>2, <2>3 DEF Record!Init
<1>2. Init => Ranked
  BY DEF Init, Ranked
<1>3. IInv /\ Ranked /\ IInv' /\ [Next]_vars => [Record!Next]_(Record!vars)
  BY RecordStep DEF IInv
<1>4. IInv /\ Ranked /\ [Next]_vars => Ranked'
  BY RankedStep DEF IInv
<1> QED
  BY <1>1, <1>2, <1>3, <1>4, Inductive, PTL DEF Spec, IsDurableRecord, Record!Spec

-----------------------------------------------------------------------------
(* What a purge takes *)

\* The second inductive invariant.  Writers are pending until they begin, and notify's
\* stays so.  Serve has one update at a time, which begins when notify's record is in
\* place and is not followed by another while its directory is not synced.
Turns ==
  /\ state[Notifier] = "pending"
  /\ \A w \in Writers : pc[w] = "new" => state[w] = "pending"
  /\ \A u, v \in Updaters : pc[u] \in Active /\ pc[v] \in Active => u = v
  /\ \A u \in Updaters : pc[u] # "new" => pc[Notifier] \notin Early
  /\ \A u \in Updaters : pc[u] = "syncDir" => dir.final \in {u, None}

\* Behind an acknowledged update that has settled the record there is no pending one:
\* not in a directory that a loss of power may leave, and not on its way.
Settled ==
  \A w \in Updaters : pc[w] = "ok" /\ state[w] # "pending" =>
    /\ \A d \in dirDisk : d.final # None => state[d.final] # "pending"
    /\ \A u \in Updaters : pc[u] \in Active => state[u] # "pending"

\* What Purge has found is an update to "delivered" that has begun.
PurgeFound ==
  scan["purge"].hit => \E w \in Updaters : pc[w] # "new" /\ state[w] = "delivered"

PurgeInv == Turns /\ Settled /\ PurgeFound

\* No writer has begun at first.
LEMMA InitPurge == Init => PurgeInv
<1> SUFFICES ASSUME Init PROVE PurgeInv
  OBVIOUS
<1>1. Notifier \in Writers /\ Updaters \subseteq Writers
  BY DEF Writers
<1>2. ~scan["purge"].hit
  BY DEF Init, IdleScan, Callers
<1> QED
  BY <1>1, <1>2 DEF Init, PurgeInv, Turns, Settled, PurgeFound, Active, Early

\* The writers take their turns, whoever lists, purges or dies in between.
LEMMA TurnsStep == TypeOK /\ Synced /\ Turns /\ [Next]_vars => Turns'
<1> SUFFICES ASSUME TypeOK, Synced, Turns, [Next]_vars PROVE Turns'
  OBVIOUS
<1>0. /\ Notifier \in Writers /\ Notifier \notin Updaters /\ Updaters \subseteq Writers
      /\ dir.final = None \/ dir.final \in Writers
      /\ None \notin Writers
  BY SpoolFilesAssumption DEF TypeOK, Directory, Writers
<1>1. ASSUME NEW w \in Writers, Begin(w) PROVE Turns'
  <2>1. CASE w = Notifier
    BY <1>0, <1>1, <2>1 DEF Begin, TypeOK, Turns, Active, Early
  <2>2. CASE w # Notifier
    <3>1. w \in Updaters
      BY <2>2 DEF Writers
    <3>2. pc[Notifier] \notin Early
      <4>1. dir.final # None /\ pc[dir.final] \notin Early
        BY <1>1, <2>2 DEF Begin, TypeOK, Synced, Early
      <4> QED
        BY <1>0, <4>1 DEF Turns, Writers, Early
    <3> QED
      BY <1>0, <1>1, <2>2, <3>1, <3>2 DEF Begin, TypeOK, Turns, Active, Early
  <2> QED
    BY <2>1, <2>2
<1>2. ASSUME NEW w \in Writers, CreateTemp(w) \/ WriteTemp(w) \/ SyncTemp(w) PROVE Turns'
  <2>1. /\ pc[w] \in {"create", "write", "sync"} /\ state' = state /\ dir'.final = dir.final
        /\ \E x \in {"write", "sync", "rename"} : pc' = [pc EXCEPT ![w] = x]
    BY <1>2 DEF TypeOK, CreateTemp, WriteTemp, SyncTemp, ChangeDir, Directory
  <2> QED
    BY <1>0, <2>1 DEF TypeOK, Turns, Active, Early
<1>3. ASSUME NEW w \in Writers, Rename(w) PROVE Turns'
  <2>1. dir'.final = w /\ state' = state
    BY <1>3 DEF Rename, ChangeDir
  <2>2. \A u \in Updaters : pc'[u] = "syncDir" => u = w
    <3>1. CASE w = Notifier
      BY <1>0, <1>3, <3>1 DEF TypeOK, Turns, Rename, Early
    <3>2. CASE w # Notifier
      BY <1>0, <1>3, <3>2 DEF TypeOK, Turns, Rename, Active, Writers
    <3> QED
      BY <3>1, <3>2
  <2> QED
    BY <1>0, <1>3, <2>1, <2>2 DEF TypeOK, Turns, Rename, Active, Early
<1>4. ASSUME state' = state, dir'.final \in {dir.final, None},
             pc' \in [Writers -> Active \cup {"new", "ok", "err", "gone"}],
             \A w \in Writers : pc'[w] = pc[w] \/ (pc[w] \in Active /\ pc'[w] \in {"err", "gone"})
                                                \/ (pc[w] = "syncDir" /\ pc'[w] = "ok")
      PROVE  Turns'
  BY <1>0, <1>4 DEF Turns, Active, Early
<1>5. ASSUME NEW w \in Writers, SyncDir(w) \/ WriteFails(w) PROVE Turns'
  <2>1. dir'.final = dir.final /\ state' = state
    BY <1>5 DEF SyncDir, WriteFails, ChangeDir, TypeOK, Directory
  <2>2. pc' \in [Writers -> Active \cup {"new", "ok", "err", "gone"}]
    BY <1>5 DEF SyncDir, WriteFails, TypeOK
  <2>3. \A u \in Writers : pc'[u] = pc[u] \/ (pc[u] \in Active /\ pc'[u] \in {"err", "gone"})
                                          \/ (pc[u] = "syncDir" /\ pc'[u] = "ok")
    BY <1>5 DEF SyncDir, WriteFails, TypeOK
  <2> QED
    BY <1>4, <2>1, <2>2, <2>3
<1>6. CASE ScanOnly \/ CatchUpReturns \/ UNCHANGED vars
  BY <1>6 DEF ScanOnly, CatchUpReturns, vars, Turns
<1>7. CASE PurgeDeletes
  <2>1. dir'.final \in {dir.final, None} /\ state' = state /\ pc' = pc
    BY <1>7 DEF PurgeDeletes, ChangeDir, TypeOK, Directory
  <2> QED
    BY <1>4, <2>1 DEF TypeOK
<1>8. ASSUME NEW W, Dead(W)
      PROVE  /\ pc' \in [Writers -> Active \cup {"new", "ok", "err", "gone"}]
             /\ \A u \in Writers : pc'[u] = pc[u] \/ (pc[u] \in Active /\ pc'[u] \in {"err", "gone"})
  BY <1>8 DEF Dead, TypeOK
<1>9. CASE NotifyCrash \/ ServeCrash
  BY <1>4, <1>8, <1>9 DEF NotifyCrash, ServeCrash
<1>10. CASE PowerLoss
  <2>1. \A w \in Writers : pc'[w] \notin Active /\ (pc'[w] = pc[w] \/ (pc[w] \in Active /\ pc'[w] = "gone"))
    BY <1>10 DEF PowerLoss, Dead, TypeOK, Active
  <2> QED
    BY <1>0, <1>10, <2>1 DEF PowerLoss, Turns, Active, Early
<1> QED
  BY <1>1, <1>2, <1>3, <1>5, <1>6, <1>7, <1>9, <1>10, ListSteps DEF Next

\* A step that begins, acknowledges and renames nothing.
Calm ==
  /\ state' = state
  /\ \A d \in dirDisk' : d.final = None \/ d.final = dir.final \/ d \in dirDisk
  /\ \A w \in Writers : /\ pc'[w] = "ok" => pc[w] = "ok"
                        /\ pc'[w] \in Active => pc[w] \in Active

\* An acknowledged update that settles the record stays behind every later one.
LEMMA SettledStep == TypeOK /\ Synced /\ Turns /\ Settled /\ [Next]_vars => Settled'
<1> SUFFICES ASSUME TypeOK, Synced, Turns, Settled, [Next]_vars PROVE Settled'
  OBVIOUS
<1>0. /\ Notifier \in Writers /\ Notifier \notin Updaters /\ Updaters \subseteq Writers
      /\ \A d \in dirDisk : d.final = None \/ d.final \in Writers
      /\ dir \in dirDisk /\ None \notin Writers
  BY SpoolFilesAssumption DEF TypeOK, Directory, Writers
<1>1. ASSUME NEW w \in Writers, Begin(w) PROVE Settled'
  <2>1. CASE w = Notifier
    BY <1>0, <1>1, <2>1 DEF Begin, TypeOK, Settled
  <2>2. CASE w # Notifier
    <3>1. /\ w \in Updaters /\ pc[w] = "new" /\ dirDisk' = dirDisk /\ dir.final # None
          /\ state'[w] = "pending" => state[dir.final] = "pending"
      BY <1>0, <1>1, <2>2 DEF Begin, TypeOK, Writers
    <3>2. \A u \in Writers : u # w => pc'[u] = pc[u] /\ state'[u] = state[u]
      BY <1>1, <2>2 DEF Begin, TypeOK
    <3>3. pc'[w] = "create" /\ \A d \in dirDisk : d.final # w
      BY <1>0, <1>1, <3>1 DEF Begin, TypeOK, Synced
    <3> QED
      BY <1>0, <3>1, <3>2, <3>3 DEF Settled
  <2> QED
    BY <2>1, <2>2
<1>2. ASSUME Calm PROVE Settled'
  BY <1>0, <1>2 DEF Calm, Settled
<1>3. ASSUME NEW w \in Writers, CreateTemp(w) \/ WriteTemp(w) \/ SyncTemp(w) PROVE Settled'
  <2>1. /\ state' = state /\ pc[w] \in Active
        /\ \A d \in dirDisk' : d.final = dir.final \/ d \in dirDisk
        /\ \E x \in {"write", "sync", "rename"} : pc' = [pc EXCEPT ![w] = x]
    BY <1>3 DEF TypeOK, CreateTemp, WriteTemp, SyncTemp, ChangeDir, Directory, Active
  <2> QED
    BY <1>2, <2>1 DEF Calm, TypeOK, Active
<1>4. ASSUME NEW w \in Writers, Rename(w) PROVE Settled'
  <2>1. /\ state' = state
        /\ \A d \in dirDisk' : d.final = w \/ d \in dirDisk
    BY <1>4 DEF Rename, ChangeDir
  <2>2. \A u \in Writers : /\ pc'[u] = "ok" => pc[u] = "ok"
                           /\ pc'[u] \in Active => pc[u] \in Active
    BY <1>4 DEF TypeOK, Rename, Active
  <2>3. CASE w = Notifier
    <3>1. \A u \in Updaters : pc[u] = "new"
      BY <1>4, <2>3 DEF Rename, Turns, Early
    <3> QED
      BY <1>0, <2>2, <3>1 DEF Settled
  <2>4. CASE w # Notifier
    <3>1. w \in Updaters /\ pc[w] \in Active
      BY <1>4, <2>4 DEF Rename, Active, Writers
    <3> QED
      BY <1>0, <2>1, <2>2, <3>1 DEF Settled
  <2> QED
    BY <2>3, <2>4
<1>5. ASSUME NEW w \in Writers, SyncDir(w) PROVE Settled'
  <2>1. /\ state' = state /\ dirDisk' = {dir}
        /\ \A u \in Writers : pc'[u] = IF u = w THEN "ok" ELSE pc[u]
    BY <1>5 DEF TypeOK, SyncDir
  <2>2. CASE w = Notifier
    BY <1>0, <2>1, <2>2 DEF Settled
  <2>3. CASE w # Notifier
    <3>1. w \in Updaters /\ pc[w] \in Active /\ dir.final \in {w, None}
      BY <1>5, <2>3 DEF SyncDir, Active, Writers, Turns
    <3>2. \A u \in Updaters : pc'[u] \notin Active
      BY <1>0, <2>1, <3>1 DEF Turns, Active
    <3> QED
      BY <1>0, <2>1, <3>1, <3>2 DEF Settled
  <2> QED
    BY <2>2, <2>3
<1>6. ASSUME NEW w \in Writers, WriteFails(w) PROVE Settled'
  <2>1. state' = state /\ \A d \in dirDisk' : d.final = dir.final \/ d \in dirDisk
    BY <1>6 DEF WriteFails, ChangeDir, TypeOK, Directory
  <2>2. \A u \in Writers : /\ pc'[u] = "ok" => pc[u] = "ok"
                           /\ pc'[u] \in Active => pc[u] \in Active
    BY <1>6 DEF TypeOK, WriteFails, Active
  <2> QED
    BY <1>2, <2>1, <2>2 DEF Calm
<1>7. CASE ScanOnly \/ CatchUpReturns \/ UNCHANGED vars
  BY <1>7 DEF ScanOnly, CatchUpReturns, vars, Settled
<1>8. CASE PurgeDeletes
  <2>1. /\ \A d \in dirDisk' : d.final = None \/ d \in dirDisk
        /\ state' = state /\ pc' = pc
    BY <1>8 DEF PurgeDeletes, ChangeDir, TypeOK, Directory
  <2> QED
    BY <1>2, <2>1 DEF Calm
<1>9. ASSUME NEW W, Dead(W)
      PROVE  \A u \in Writers : /\ pc'[u] = "ok" => pc[u] = "ok"
                                /\ pc'[u] \in Active => pc[u] \in Active
  BY <1>9 DEF Dead, TypeOK, Active
<1>10. CASE NotifyCrash \/ ServeCrash
  <2>1. state' = state /\ dirDisk' = dirDisk
    BY <1>10 DEF NotifyCrash, ServeCrash
  <2>2. Dead({Notifier}) \/ Dead(Updaters)
    BY <1>10 DEF NotifyCrash, ServeCrash
  <2> QED
    BY <1>2, <1>9, <2>1, <2>2 DEF Calm
<1>11. CASE PowerLoss
  <2>1. state' = state /\ dirDisk' \subseteq dirDisk /\ Dead(Writers)
    BY <1>11 DEF PowerLoss
  <2> QED
    BY <1>2, <1>9, <2>1 DEF Calm
<1> QED
  BY <1>1, <1>3, <1>4, <1>5, <1>6, <1>7, <1>8, <1>10, <1>11, ListSteps DEF Next

\* Purge has only found what an update has begun, and what is written stays written.
LEMMA FoundStep == TypeOK /\ Turns /\ PurgeFound /\ [Next]_vars => PurgeFound'
<1> SUFFICES ASSUME TypeOK, Turns, PurgeFound, [Next]_vars PROVE PurgeFound'
  OBVIOUS
<1>1. \A w \in Updaters : pc[w] # "new" /\ state[w] = "delivered" =>
        pc'[w] # "new" /\ state'[w] = "delivered"
  <2> SUFFICES ASSUME NEW w \in Updaters, pc[w] # "new", state[w] = "delivered"
               PROVE  pc'[w] # "new" /\ state'[w] = "delivered"
    OBVIOUS
  <2>0. w \in Writers
    BY DEF Writers
  <2>1. ASSUME NEW u \in Writers, Begin(u) PROVE pc'[w] # "new" /\ state'[w] = "delivered"
    BY <2>0, <2>1 DEF Begin, TypeOK
  <2>2. ASSUME NEW u \in Writers, CreateTemp(u) \/ WriteTemp(u) \/ SyncTemp(u) \/ Rename(u)
                                    \/ SyncDir(u) \/ WriteFails(u)
        PROVE  pc'[w] # "new" /\ state'[w] = "delivered"
    BY <2>0, <2>2 DEF CreateTemp, WriteTemp, SyncTemp, Rename, SyncDir, WriteFails, TypeOK
  <2>3. CASE ScanOnly \/ CatchUpReturns \/ PurgeDeletes \/ UNCHANGED vars
    BY <2>3 DEF ScanOnly, CatchUpReturns, PurgeDeletes, vars
  <2>4. CASE NotifyCrash \/ ServeCrash \/ PowerLoss
    BY <2>0, <2>4 DEF NotifyCrash, ServeCrash, PowerLoss, Dead
  <2> QED
    BY <2>1, <2>2, <2>3, <2>4, ListSteps DEF Next
<1>2. ASSUME scan'["purge"].hit => scan["purge"].hit PROVE PurgeFound'
  BY <1>1, <1>2 DEF PurgeFound
<1>3. ASSUME NEW w \in Writers, state[w] = "delivered" PROVE w \in Updaters /\ pc[w] # "new"
  BY <1>3 DEF Turns, Writers
<1>4. ASSUME NEW c \in Callers, NEW w, NEW exists, exists => w \in Writers, NEW rest,
             rest \in [on : BOOLEAN, final : BOOLEAN, temps : SUBSET Writers,
                       hit : BOOLEAN, calm : BOOLEAN],
             rest.hit = scan[c].hit, Read(c, exists, w, rest)
      PROVE  PurgeFound'
  <2>1. CASE scan' = [scan EXCEPT ![c] = IdleScan]
    BY <1>2, <2>1 DEF TypeOK, IdleScan
  <2>2. ASSUME NEW b \in BOOLEAN, exists,
               scan' = [scan EXCEPT ![c] = [rest EXCEPT !.hit = @ \/ (b /\ Matches(c, w))]]
        PROVE  PurgeFound'
    <3>1. CASE Matches(c, w) /\ c = "purge"
      <4>1. w \in Updaters /\ pc[w] # "new" /\ state[w] = "delivered"
        BY <1>3, <1>4, <2>2, <3>1 DEF Matches
      <4> QED
        BY <1>1, <4>1 DEF PurgeFound
    <3>2. CASE ~Matches(c, w) \/ c # "purge"
      <4>1. scan'["purge"].hit => scan["purge"].hit
        BY <1>4, <2>2, <3>2 DEF TypeOK, Callers
      <4> QED
        BY <1>2, <4>1
    <3> QED
      BY <3>1, <3>2
  <2> QED
    BY <1>4, <2>1, <2>2 DEF Read
<1>5. ASSUME NEW c \in Callers, NEW w \in Writers, ListReadTemp(c, w) PROVE PurgeFound'
  <2>1. [scan[c] EXCEPT !.temps = @ \ {w}] \in
          [on : BOOLEAN, final : BOOLEAN, temps : SUBSET Writers, hit : BOOLEAN, calm : BOOLEAN]
    BY DEF TypeOK
  <2>2. [scan[c] EXCEPT !.temps = @ \ {w}].hit = scan[c].hit
    BY DEF TypeOK
  <2> QED
    BY <1>4, <1>5, <2>1, <2>2 DEF ListReadTemp
<1>6. ASSUME NEW c \in Callers, ListReadFinal(c) PROVE PurgeFound'
  <2>1. [scan[c] EXCEPT !.final = FALSE] \in
          [on : BOOLEAN, final : BOOLEAN, temps : SUBSET Writers, hit : BOOLEAN, calm : BOOLEAN]
    BY DEF TypeOK
  <2>2. [scan[c] EXCEPT !.final = FALSE].hit = scan[c].hit
    BY DEF TypeOK
  <2>3. dir.final # None => dir.final \in Writers
    BY DEF TypeOK, Directory
  <2> QED
    BY <1>4, <1>6, <2>1, <2>2, <2>3 DEF ListReadFinal
<1>7. ASSUME NEW c \in Callers, ListDir(c) PROVE PurgeFound'
  <2>1. scan'["purge"].hit => scan["purge"].hit
    BY <1>7 DEF ListDir, TypeOK, Callers
  <2> QED
    BY <1>2, <2>1
<1>8. CASE CatchUpReturns \/ PurgeDeletes \/ NotifyCrash \/ ServeCrash \/ PowerLoss \/ UNCHANGED vars
  <2>1. scan'["purge"].hit => scan["purge"].hit
    BY <1>8 DEF CatchUpReturns, PurgeDeletes, NotifyCrash, ServeCrash, PowerLoss, vars,
                TypeOK, Callers, IdleScan
  <2> QED
    BY <1>2, <2>1
<1>9. ASSUME scan' = scan PROVE PurgeFound'
  BY <1>2, <1>9
<1>10. ASSUME NEW w \in Writers, Begin(w) \/ CreateTemp(w) \/ WriteTemp(w) \/ SyncTemp(w) \/ Rename(w)
                                   \/ SyncDir(w) \/ WriteFails(w)
       PROVE  PurgeFound'
  BY <1>9, <1>10 DEF Begin, CreateTemp, WriteTemp, SyncTemp, Rename, SyncDir, WriteFails
<1> QED
  BY <1>5, <1>6, <1>7, <1>8, <1>10 DEF Next

\* For any set of updates and any crashes, a purge of a pending record means that an
\* update to "delivered" had been begun and was not acknowledged.
THEOREM PurgedDelivered == Spec => PurgedWasDelivered
<1>1. IInv /\ PurgeInv /\ [Next]_vars => (IInv /\ PurgeInv)'
  BY TypeStep, SyncedStep, OrderedStep, TurnsStep, SettledStep, FoundStep DEF IInv, PurgeInv
<1>2. IInv /\ PurgeInv /\ [Next]_vars =>
        [PurgeDeletes /\ dir.final # dir'.final /\ state[dir.final] = "pending" =>
           \E w \in Updaters : state[w] = "delivered" /\ pc[w] \notin {"new", "ok"}]_vars
  <2> SUFFICES ASSUME IInv, PurgeInv, PurgeDeletes, dir.final # dir'.final, state[dir.final] = "pending"
               PROVE  \E w \in Updaters : state[w] = "delivered" /\ pc[w] \notin {"new", "ok"}
    OBVIOUS
  <2>1. scan["purge"].hit /\ dir.final # None
    BY DEF PurgeDeletes
  <2>2. PICK w \in Updaters : pc[w] # "new" /\ state[w] = "delivered"
    BY <2>1 DEF PurgeInv, PurgeFound
  <2>3. dir \in dirDisk
    BY DEF IInv, TypeOK
  <2>4. pc[w] # "ok"
    BY <2>1, <2>2, <2>3 DEF PurgeInv, Settled
  <2> QED
    BY <2>2, <2>4
<1> QED
  BY <1>1, <1>2, InitInv, InitPurge, PTL DEF Spec, PurgedWasDelivered
==============================================================================
