----------------------------- MODULE InputProofs -----------------------------
(***************************************************************************)
(* Proofs about the parts that read an input, for inputs of any length:    *)
(* the reload of the configuration files between signals and edits, and    *)
(* the four scanners, which do what the definitions by position say.       *)
(***************************************************************************)
EXTENDS ConfigReload, Scanners, FiniteSetTheorems, TLAPS

-----------------------------------------------------------------------------
(* The reload of the configuration *)

\* What the goroutine has read of the files, by where it is: the first file is
\* still the one on disk unless it was edited since.
Reading ==
  /\ disk \in seen
  /\ reload = "gitd" => read["webhooks"].ok
  /\ reload = "gitd" /\ ~torn => read["webhooks"] = disk["webhooks"]
  /\ reload = "swap" => Valid(read) /\ (torn \/ read \in seen)

\* Without a signal waiting and without an edit since the last one, the reload in
\* progress has read what is on disk.
Current ==
  fresh /\ ~pending =>
    /\ reload = "gitd" => read["webhooks"] = disk["webhooks"]
    /\ reload = "swap" => read = disk
    /\ reload = "apply" => live = disk
    /\ reload = "idle" /\ Valid(disk) => live = disk /\ retention = disk["gitd"]

Inv == TypeOK /\ Reading /\ Current

\* A fresh serve has applied the file it has read.
LEMMA InitInv == Init => Inv
<1> SUFFICES ASSUME Init PROVE Inv
  OBVIOUS
<1>1. [ver |-> 0, ok |-> TRUE] \in Content
  BY ConfigReloadAssumption DEF Content
<1>2. disk \in [Files -> Content] /\ disk["gitd"] \in Content
  BY <1>1 DEF Init, Files
<1>3. TypeOK
  <2>1. edits \in 0..Edits
    BY ConfigReloadAssumption DEF Init
  <2>2. seen \subseteq [Files -> Content] /\ read \in [Files -> Content]
        /\ live \in [Files -> Content] /\ retention \in Content
    BY <1>2 DEF Init
  <2> QED BY <1>2, <2>1, <2>2 DEF Init, TypeOK
<1>4. Reading
  BY DEF Init, Reading
<1>5. Current
  BY DEF Init, Current
<1> QED BY <1>3, <1>4, <1>5 DEF Inv

\* Two contents of the pair of files are equal when both files are.
LEMMA PairEqual ==
  ASSUME NEW p \in [Files -> Content], NEW q \in [Files -> Content],
         p["webhooks"] = q["webhooks"], p["gitd"] = q["gitd"]
  PROVE  p = q
  BY DEF Files

\* Every step keeps the types.
LEMMA TypeStep == TypeOK /\ [Next]_vars => TypeOK'
<1> SUFFICES ASSUME TypeOK, [Next]_vars PROVE TypeOK'
  OBVIOUS
<1> USE ConfigReloadAssumption DEF TypeOK
<1>1. ASSUME NEW f \in Files, Edit(f) PROVE TypeOK'
  <2>1. PICK ok \in BOOLEAN : disk' = [disk EXCEPT ![f] = [ver |-> edits + 1, ok |-> ok]]
    BY <1>1 DEF Edit
  <2>2. [ver |-> edits + 1, ok |-> ok] \in Content
    BY <1>1 DEF Edit, Content
  <2>3. disk' \in [Files -> Content]
    BY <2>1, <2>2
  <2>4. edits' \in 0..Edits
    BY <1>1 DEF Edit
  <2>5. torn' \in BOOLEAN /\ fresh' \in BOOLEAN
    BY <1>1 DEF Edit
  <2>6. seen' \subseteq [Files -> Content]
    BY <1>1, <2>3 DEF Edit
  <2> QED BY <1>1, <2>3, <2>4, <2>5, <2>6 DEF Edit
<1>2. CASE Sighup BY <1>2 DEF Sighup
<1>3. CASE Receive BY <1>3 DEF Receive
<1>4. CASE LoadWebhooks BY <1>4 DEF LoadWebhooks, Files
<1>5. CASE LoadGitd BY <1>5 DEF LoadGitd, Files
<1>6. CASE Swap BY <1>6 DEF Swap
<1>7. CASE Apply BY <1>7 DEF Apply, Files
<1>8. CASE UNCHANGED vars BY <1>8 DEF vars
<1> QED BY <1>1, <1>2, <1>3, <1>4, <1>5, <1>6, <1>7, <1>8 DEF Next, Reload

\* Every step keeps what is known of the files read.
LEMMA ReadingStep == TypeOK /\ Reading /\ [Next]_vars => Reading'
<1> SUFFICES ASSUME TypeOK, Reading, [Next]_vars PROVE Reading'
  OBVIOUS
<1> USE DEF TypeOK, Reading, Valid
<1>1. ASSUME NEW f \in Files, Edit(f) PROVE Reading'
  BY <1>1 DEF Edit, Files
<1>2. CASE Sighup BY <1>2 DEF Sighup
<1>3. CASE Receive BY <1>3 DEF Receive
<1>4. CASE LoadWebhooks BY <1>4 DEF LoadWebhooks, Files
<1>5. CASE LoadGitd
  <2>1. CASE disk["gitd"].ok
    <3>1. /\ reload' = "swap" /\ read' = [read EXCEPT !["gitd"] = disk["gitd"]]
          /\ disk' = disk /\ seen' = seen /\ torn' = torn
      BY <1>5, <2>1 DEF LoadGitd
    <3>2. read'["webhooks"] = read["webhooks"] /\ read'["gitd"] = disk["gitd"]
      BY <3>1 DEF Files
    <3>3. Valid(read')
      BY <1>5, <2>1, <3>2 DEF LoadGitd, Files
    <3>4. ASSUME ~torn PROVE read' = disk
      <4>1. read' \in [Files -> Content]
        BY <3>1 DEF Files
      <4>2. read'["webhooks"] = disk["webhooks"]
        BY <1>5, <3>2, <3>4 DEF LoadGitd
      <4> QED BY <3>2, <4>1, <4>2, PairEqual
    <3> QED BY <3>1, <3>3, <3>4
  <2>2. CASE ~disk["gitd"].ok
    BY <1>5, <2>2 DEF LoadGitd
  <2> QED BY <2>1, <2>2
<1>6. CASE Swap BY <1>6 DEF Swap
<1>7. CASE Apply BY <1>7 DEF Apply
<1>8. CASE UNCHANGED vars BY <1>8 DEF vars
<1> QED BY <1>1, <1>2, <1>3, <1>4, <1>5, <1>6, <1>7, <1>8 DEF Next, Reload

\* Every step keeps a reload current that no edit has overtaken.
LEMMA CurrentStep == TypeOK /\ Current /\ [Next]_vars => Current'
<1> SUFFICES ASSUME TypeOK, Current, [Next]_vars PROVE Current'
  OBVIOUS
<1> USE DEF TypeOK, Current, Valid
<1>1. ASSUME NEW f \in Files, Edit(f) PROVE Current'
  BY <1>1 DEF Edit
<1>2. CASE Sighup BY <1>2 DEF Sighup
<1>3. CASE Receive BY <1>3 DEF Receive
<1>4. CASE LoadWebhooks BY <1>4 DEF LoadWebhooks, Files
<1>5. CASE LoadGitd
  <2>1. CASE disk["gitd"].ok /\ fresh /\ ~pending
    <3>1. /\ reload' = "swap" /\ read' = [read EXCEPT !["gitd"] = disk["gitd"]]
          /\ disk' = disk /\ read["webhooks"] = disk["webhooks"]
      BY <1>5, <2>1 DEF LoadGitd
    <3>2. read'["webhooks"] = disk["webhooks"] /\ read'["gitd"] = disk["gitd"]
      BY <3>1 DEF Files
    <3>3. read' \in [Files -> Content]
      BY <3>1 DEF Files
    <3>4. read' = disk
      BY <3>2, <3>3, PairEqual
    <3> QED BY <3>1, <3>4
  <2>2. CASE ~(disk["gitd"].ok /\ fresh /\ ~pending)
    BY <1>5, <2>2 DEF LoadGitd, Files
  <2> QED BY <2>1, <2>2
<1>6. CASE Swap BY <1>6 DEF Swap
<1>7. CASE Apply BY <1>7 DEF Apply
<1>8. CASE UNCHANGED vars BY <1>8 DEF vars
<1> QED BY <1>1, <1>2, <1>3, <1>4, <1>5, <1>6, <1>7, <1>8 DEF Next, Reload

\* The invariant holds in every state of a run of the reload goroutine.
THEOREM Invariance == Spec => []Inv
<1>1. Inv /\ [Next]_vars => Inv'
  BY TypeStep, ReadingStep, CurrentStep DEF Inv
<1> QED BY InitInv, <1>1, PTL DEF Spec

\* What Reload reads, swaps and passes on are complete configurations.
THEOREM TypeCorrect == Spec => []TypeOK
<1>1. Inv => TypeOK
  BY DEF Inv
<1> QED BY Invariance, <1>1, PTL

\* Once the signals are worked off, the process runs with the files on disk
\* (runServe's buffered signal channel), for any number of edits and signals.
THEOREM Settled == Spec => []SettledIsCurrent
<1>1. Inv => SettledIsCurrent
  BY DEF Inv, Current, SettledIsCurrent
<1> QED BY Invariance, <1>1, PTL

\* Reload makes only valid pairs live, and only as a whole.
THEOREM WholePair == Spec => PairGoesLive
<1>1. Inv /\ [Next]_vars => [live' # live => Valid(live') /\ (torn \/ live' \in seen)]_vars
  <2> SUFFICES ASSUME Inv, Next, live' # live
               PROVE  Valid(live') /\ (torn \/ live' \in seen)
    BY DEF vars
  <2>1. Swap
    BY DEF Next, Reload, Edit, Sighup, Receive, LoadWebhooks, LoadGitd, Apply
  <2> QED BY <2>1 DEF Swap, Inv, Reading
<1> QED BY Invariance, <1>1, PTL DEF Spec, PairGoesLive

-----------------------------------------------------------------------------
(* bundleObjectFormat *)

\* The lines behind the signature that end the scan, and what it returns for them.
Ends == Header!Formats \cup {"otherFormat", "tooLong", "blank"}

\* What such a line makes of the scan.
Verdict(line) == IF line \in Header!Formats THEN line ELSE IF line = "blank" THEN "sha1" ELSE "error"

\* The first of them is the line at position i.
FirstEnd(i) ==
  /\ i \in DOMAIN file /\ i # 1 /\ file[i] \in Ends
  /\ \A j \in 2..(i - 1) : file[j] \notin Ends

\* The scan has stopped at the first line that ends it, or there is none yet.
FormatInv ==
  /\ file \in Seq(Header!Lines)
  /\ file = <<>> => header = "first"
  /\ file # <<>> =>
       /\ file[1] = "v2" => header = "sha1"
       /\ file[1] \notin {"v2", "v3"} => header = "error"
       /\ file[1] = "v3" =>
            \/ header = "capabilities" /\ \A i \in DOMAIN file \ {1} : file[i] \notin Ends
            \/ \E i \in DOMAIN file : FirstEnd(i) /\ header = Verdict(file[i])

\* A line keeps the invariant: the next state of the scan depends on the line, or it has
\* stopped.
LEMMA FormatStep == ASSUME FormatInv, [Header!Next]_(Header!vars) PROVE FormatInv'
<1>1. CASE UNCHANGED Header!vars
  BY <1>1 DEF Header!vars, FormatInv, FirstEnd
<1>2. CASE Header!Next
  <2>1. PICK line \in Header!Lines :
          /\ file' = Append(file, line)
          /\ header' = CASE header = "first"        -> Header!Signature(line)
                         [] header = "capabilities" -> Header!Capability(line)
                         [] OTHER                   -> header
    BY <1>2 DEF Header!Next
  <2>2. /\ file' \in Seq(Header!Lines) /\ file' # <<>> /\ Len(file) \in Nat
        /\ DOMAIN file = 1..Len(file) /\ DOMAIN file' = 1..(Len(file) + 1)
        /\ \A i \in DOMAIN file : file'[i] = file[i]
        /\ file'[Len(file) + 1] = line
    BY <2>1 DEF FormatInv
  <2>3. CASE file = <<>>
    <3>1. header = "first" /\ Len(file) = 0 /\ file'[1] = line /\ DOMAIN file' = {1}
      BY <2>2, <2>3 DEF FormatInv
    <3>2. header' = Header!Signature(line)
      BY <2>1, <3>1
    <3> QED
      BY <2>2, <3>1, <3>2 DEF FormatInv, Header!Signature
  <2>4. CASE file # <<>>
    <3>1. 1 \in DOMAIN file /\ file'[1] = file[1] /\ Len(file) + 1 # 1
      BY <2>2, <2>4 DEF FormatInv
    <3>2. CASE file[1] # "v3"
      BY <2>1, <2>2, <2>4, <3>1, <3>2 DEF FormatInv
    <3>3. CASE file[1] = "v3" /\ \E i \in DOMAIN file : FirstEnd(i) /\ header = Verdict(file[i])
      <4>1. PICK i \in DOMAIN file : FirstEnd(i) /\ header = Verdict(file[i])
        BY <3>3
      <4>2. header \notin {"first", "capabilities"}
        BY <4>1 DEF FirstEnd, Verdict, Header!Formats
      <4>3. header' = header
        BY <2>1, <4>2
      <4>4. i \in DOMAIN file' /\ FirstEnd(i)' /\ header' = Verdict(file'[i])
        BY <2>2, <4>1, <4>3 DEF FirstEnd
      <4> QED
        BY <2>2, <3>1, <3>3, <4>4 DEF FormatInv
    <3>4. CASE /\ file[1] = "v3" /\ header = "capabilities"
               /\ \A i \in DOMAIN file \ {1} : file[i] \notin Ends
      <4>1. header' = Header!Capability(line)
        BY <2>1, <3>4
      <4>2. CASE line \in Ends
        <5> DEFINE n == Len(file) + 1
        <5>1. /\ n \in DOMAIN file' /\ n # 1 /\ file'[n] \in Ends
              /\ \A j \in 2..(n - 1) : file'[j] \notin Ends
          BY <2>2, <3>1, <3>4, <4>2
        <5>2. header' = Verdict(line)
          BY <4>1, <4>2 DEF Ends, Verdict, Header!Capability, Header!Formats
        <5>3. header' = Verdict(file'[n])
          BY <2>2, <5>2
        <5> HIDE DEF n
        <5>4. (\E i \in DOMAIN file : FirstEnd(i) /\ header = Verdict(file[i]))'
          BY <5>1, <5>3 DEF FirstEnd, Ends, Verdict, Header!Formats
        <5> QED
          BY <2>2, <3>1, <3>4, <5>4 DEF FormatInv
      <4>3. CASE line \notin Ends
        <5>1. header' = "capabilities"
          BY <4>1, <4>3 DEF Ends, Header!Capability, Header!Formats
        <5> QED
          BY <2>2, <3>1, <3>4, <4>3, <5>1 DEF FormatInv
      <4> QED
        BY <4>2, <4>3
    <3> QED
      BY <2>4, <3>2, <3>3, <3>4 DEF FormatInv
  <2> QED
    BY <2>3, <2>4
<1> QED
  BY <1>1, <1>2

\* What the scan returns is what the table says.
LEMMA FormatTable == ASSUME FormatInv PROVE Header!FollowsTable
<1>1. CASE file = <<>>
  BY <1>1 DEF FormatInv, Header!FollowsTable, Header!AtEnd
<1>2. CASE file # <<>> /\ file[1] # "v3"
  BY <1>2 DEF FormatInv, Header!FollowsTable, Header!AtEnd
<1>3. CASE file # <<>> /\ file[1] = "v3"
  <2> DEFINE Deciding == {i \in Header!Header : Header!Decides(i)}
  <2>1. Len(file) \in Nat /\ DOMAIN file = 1..Len(file)
    BY DEF FormatInv
  <2>2. CASE header = "capabilities" /\ \A i \in DOMAIN file \ {1} : file[i] \notin Ends
    <3>1. ~ \E i \in Header!Header : Header!Decides(i)
      BY <2>2 DEF Header!Decides, Header!Header, Ends
    <3> QED
      BY <1>3, <2>2, <3>1 DEF Header!FollowsTable, Header!AtEnd
  <2>3. ASSUME NEW i \in DOMAIN file, FirstEnd(i), header = Verdict(file[i])
        PROVE  Header!FollowsTable
    <3>1. \A k \in Header!Header : Header!Decides(k) => k = i
      BY <1>3, <2>1, <2>3 DEF Header!Decides, Header!Header, FirstEnd, Ends
    <3>2. Header!AtEnd(header) = header
      BY <2>3 DEF Header!AtEnd, FirstEnd, Verdict, Header!Formats
    <3>3. CASE file[i] = "blank"
      <4>1. i \notin Header!Header
        BY <2>1, <2>3, <3>3 DEF Header!Header
      <4>2. ~ \E k \in Header!Header : Header!Decides(k)
        BY <3>1, <4>1
      <4>3. header = "sha1"
        BY <2>3, <3>3 DEF Verdict, Header!Formats
      <4> QED
        BY <1>3, <3>2, <4>2, <4>3 DEF Header!FollowsTable
    <3>4. CASE file[i] # "blank"
      <4>1. i \in Header!Header
        BY <1>3, <2>1, <2>3, <3>4 DEF Header!Header, FirstEnd, Ends
      <4>2. Header!Decides(i)
        BY <2>1, <2>3, <3>4, <4>1 DEF Header!Decides, FirstEnd, Ends
      <4>3. i = CHOOSE k \in Header!Header : Header!Decides(k)
        BY <3>1, <4>1, <4>2
      <4>4. header = IF file[i] \in Header!Formats THEN file[i] ELSE "error"
        BY <2>3, <3>4 DEF Verdict
      <4> QED
        BY <1>3, <3>2, <4>1, <4>2, <4>3, <4>4 DEF Header!FollowsTable
    <3> QED
      BY <3>3, <3>4
  <2> QED
    BY <1>3, <2>2, <2>3 DEF FormatInv
<1> QED
  BY <1>1, <1>2, <1>3

\* For headers of any length, bundleObjectFormat returns what the table in its comment
\* says.
THEOREM FollowsTheTable == Header!Spec => []FollowsTable
<1>1. Header!Init => FormatInv
  BY DEF Header!Init, FormatInv
<1>2. FormatInv /\ [Header!Next]_(Header!vars) => FormatInv'
  BY FormatStep
<1>3. FormatInv => FollowsTable
  BY FormatTable DEF FollowsTable
<1> QED
  BY <1>1, <1>2, <1>3, PTL DEF Header!Spec

-----------------------------------------------------------------------------
(* parseRepoFlags *)

\* The states of the parser.
FlagsType ==
  [yes : BOOLEAN, positional : Seq(Repo!Words \cup Repo!Flags), value : BOOLEAN, plain : BOOLEAN, err : BOOLEAN]

\* The same command, with --yes.
WithYes(s) == [s EXCEPT !.yes = TRUE]

\* No argument takes --yes back.
NoOverride == \A i \in DOMAIN args : args[i] # "--yes=false"

\* Wherever the --yes more stands, the parser is where it is without it, but for yes.
YesInv ==
  /\ args \in Seq(Repo!Words \cup Repo!Flags)
  /\ flags \in FlagsType /\ added \subseteq FlagsType
  /\ NoOverride => \A s \in added : s.err = flags.err /\ (~flags.err => s = WithYes(flags))

\* An argument leaves the parser in a state of its type.
LEMMA ParseType ==
  ASSUME NEW s \in FlagsType, NEW a \in Repo!Words \cup Repo!Flags
  PROVE  Repo!parseRepoFlags(s, a) \in FlagsType
<1>1. CASE s.err \/ s.value
  BY <1>1 DEF FlagsType, Repo!parseRepoFlags
<1>2. CASE ~s.err /\ ~s.value /\ (s.plain \/ a \in Repo!Words)
  <2>1. Repo!parseRepoFlags(s, a) = Repo!Positional(s, a)
    BY <1>2 DEF Repo!parseRepoFlags
  <2>2. Append(s.positional, a) \in Seq(Repo!Words \cup Repo!Flags)
    BY DEF FlagsType
  <2> QED
    BY <2>1, <2>2 DEF FlagsType, Repo!Positional
<1>3. CASE ~s.err /\ ~s.value /\ ~(s.plain \/ a \in Repo!Words)
  BY <1>3 DEF FlagsType, Repo!parseRepoFlags, Repo!Flags
<1> QED
  BY <1>1, <1>2, <1>3

\* An argument other than --yes=false takes the two states of the parser the same way.
LEMMA ParseWithYes ==
  ASSUME NEW s \in FlagsType, NEW a \in Repo!Words \cup Repo!Flags, a # "--yes=false", ~s.err
  PROVE  /\ Repo!parseRepoFlags(WithYes(s), a) = WithYes(Repo!parseRepoFlags(s, a))
         /\ Repo!parseRepoFlags(WithYes(s), a).err = Repo!parseRepoFlags(s, a).err
<1>1. CASE s.value
  BY <1>1 DEF FlagsType, WithYes, Repo!parseRepoFlags
<1>2. CASE ~s.value /\ (s.plain \/ a \in Repo!Words)
  BY <1>2 DEF FlagsType, WithYes, Repo!parseRepoFlags, Repo!Positional
<1>3. CASE ~s.value /\ ~(s.plain \/ a \in Repo!Words)
  BY <1>3 DEF FlagsType, WithYes, Repo!parseRepoFlags, Repo!Flags
<1> QED
  BY <1>1, <1>2, <1>3

\* A --yes that is added as a flag sets yes.
LEMMA AddsYes ==
  ASSUME NEW s \in FlagsType, NEW t \in Repo!AddYes(s)
  PROVE  t \in FlagsType /\ t.err = s.err /\ (~s.err => t = WithYes(s))
<1>1. ~s.value /\ ~s.plain /\ t = Repo!parseRepoFlags(s, "--yes")
  BY DEF Repo!AddYes
<1>2. t \in FlagsType
  BY <1>1, ParseType DEF Repo!Flags
<1>3. s.err => t = s
  BY <1>1 DEF Repo!parseRepoFlags
<1>4. ~s.err => t = WithYes(s)
  BY <1>1 DEF Repo!parseRepoFlags, Repo!Words, WithYes
<1> QED
  BY <1>2, <1>3, <1>4 DEF FlagsType, WithYes

\* An argument keeps the invariant.
LEMMA YesStep == ASSUME YesInv, [Repo!Next]_(Repo!vars) PROVE YesInv'
<1>1. CASE UNCHANGED Repo!vars
  BY <1>1 DEF Repo!vars, YesInv, NoOverride
<1>2. CASE Repo!Next
  <2>1. PICK a \in Repo!Words \cup Repo!Flags :
          /\ args' = Append(args, a)
          /\ flags' = Repo!parseRepoFlags(flags, a)
          /\ added' = {Repo!parseRepoFlags(s, a) : s \in added} \cup Repo!AddYes(flags')
    BY <1>2 DEF Repo!Next
  <2>2. args' \in Seq(Repo!Words \cup Repo!Flags) /\ flags' \in FlagsType
    BY <2>1, ParseType DEF YesInv
  <2>3. \A s \in added : Repo!parseRepoFlags(s, a) \in FlagsType
    BY ParseType DEF YesInv
  <2>4. \A t \in Repo!AddYes(flags') :
          t \in FlagsType /\ t.err = flags'.err /\ (~flags'.err => t = WithYes(flags'))
    BY <2>2, AddsYes
  <2>5. added' \subseteq FlagsType
    BY <2>1, <2>3, <2>4
  <2>6. ASSUME NoOverride', NEW s \in added
        PROVE  LET t == Repo!parseRepoFlags(s, a)
               IN  t.err = flags'.err /\ (~flags'.err => t = WithYes(flags'))
    <3>1. NoOverride /\ a # "--yes=false"
      <4>1. /\ Len(args) \in Nat /\ DOMAIN args = 1..Len(args) /\ DOMAIN args' = 1..(Len(args) + 1)
            /\ \A i \in DOMAIN args : args'[i] = args[i]
            /\ args'[Len(args) + 1] = a
        BY <2>1 DEF YesInv
      <4> QED
        BY <2>6, <4>1 DEF NoOverride
    <3>2. s \in FlagsType /\ s.err = flags.err /\ (~flags.err => s = WithYes(flags))
      BY <3>1 DEF YesInv
    <3>3. CASE flags.err
      BY <2>1, <3>2, <3>3 DEF Repo!parseRepoFlags
    <3>4. CASE ~flags.err
      BY <2>1, <3>1, <3>2, <3>4, ParseWithYes DEF YesInv
    <3> QED
      BY <3>3, <3>4
  <2> QED
    BY <2>1, <2>2, <2>4, <2>5, <2>6 DEF YesInv
<1> QED
  BY <1>1, <1>2

\* For commands of any length, it makes no difference where --yes stands.
THEOREM YesIsAnywhere == Repo!Spec => []YesAnywhere
<1>1. Repo!Init => YesInv
  <2> SUFFICES ASSUME Repo!Init PROVE YesInv
    OBVIOUS
  <2>1. args = <<>> /\ flags = Repo!Start /\ added = Repo!AddYes(Repo!Start)
    BY DEF Repo!Init
  <2>2. Repo!Start \in FlagsType
    BY DEF Repo!Start, FlagsType
  <2> QED
    BY <2>1, <2>2, AddsYes DEF YesInv
<1>2. YesInv /\ [Repo!Next]_(Repo!vars) => YesInv'
  BY YesStep
<1>3. YesInv => YesAnywhere
  <2> SUFFICES ASSUME YesInv, NoOverride, NEW s \in added, NEW t \in added
               PROVE  Repo!runRepo(s) = Repo!runRepo(t)
    BY DEF YesAnywhere, Repo!YesAnywhere, NoOverride
  <2>1. CASE flags.err
    BY <2>1 DEF YesInv, Repo!runRepo
  <2>2. CASE ~flags.err
    BY <2>2 DEF YesInv
  <2> QED
    BY <2>1, <2>2
<1> QED
  BY <1>1, <1>2, <1>3, PTL DEF Repo!Spec

-----------------------------------------------------------------------------
(* Counting positions *)

\* The empty list has no positions.
LEMMA NoPositions == DOMAIN <<>> = {} /\ 1..Len(<<>>) = {}
OBVIOUS

\* The parts count alike.
LEMMA SameCount ==
  \A S : /\ RefReaders!Cardinality(S) = Cardinality(S)
         /\ Command!Cardinality(S) = Cardinality(S)
<1> TAKE S
<1>1. RefReaders!Cardinality(S) = Cardinality(S)
  BY Zenon DEF RefReaders!Cardinality, Cardinality
<1>2. Command!Cardinality(S) = Cardinality(S)
  BY Zenon DEF Command!Cardinality, Cardinality
<1> QED
  BY <1>1, <1>2

\* A set of positions is finite.
LEMMA Positions ==
  ASSUME NEW n \in Nat, NEW S, S \subseteq 1..n
  PROVE  IsFiniteSet(S) /\ Cardinality(S) \in Nat
<1>1. IsFiniteSet(1..n)
  BY FS_Interval
<1>2. IsFiniteSet(S)
  BY <1>1, FS_Subset
<1> QED
  BY <1>2, FS_CardinalityType

\* Fewer positions count less.
LEMMA CountSubset ==
  ASSUME NEW n \in Nat, NEW S, S \subseteq 1..n, NEW T, T \subseteq S
  PROVE  Cardinality(T) \in Nat /\ Cardinality(S) \in Nat /\ Cardinality(T) <= Cardinality(S)
<1>1. IsFiniteSet(S) /\ T \subseteq 1..n
  BY Positions
<1>2. Cardinality(T) <= Cardinality(S)
  BY <1>1, FS_Subset
<1> QED
  BY <1>1, <1>2, Positions

\* The next position counts one more.
LEMMA CountNext ==
  ASSUME NEW n \in Nat, NEW S, S \subseteq 1..n
  PROVE  Cardinality(S \cup {n + 1}) = Cardinality(S) + 1
<1>1. IsFiniteSet(S)
  BY Positions
<1>2. n + 1 \notin S
  OBVIOUS
<1> QED
  BY <1>1, <1>2, FS_AddElement

\* Where there is a position, it counts.
LEMMA CountOne ==
  ASSUME NEW n \in Nat, NEW S, S \subseteq 1..n, NEW i \in S
  PROVE  Cardinality(S) \in Nat /\ Cardinality(S) >= 1
<1>1. IsFiniteSet(S) /\ Cardinality(S) \in Nat
  BY Positions
<1>2. Cardinality(S) # 0
  BY <1>1, FS_EmptySet
<1> QED
  BY <1>1, <1>2

\* A set that differs at most by one element.
LEMMA AtMostOneMore ==
  ASSUME NEW D, NEW m, m \notin D, NEW S, S \subseteq D, NEW T, T \subseteq D \cup {m},
         \A i \in D : i \in T <=> i \in S
  PROVE  T = IF m \in T THEN S \cup {m} ELSE S
<1>1. CASE m \in T
  <2>1. T = S \cup {m}
    BY <1>1
  <2> QED
    BY <1>1, <2>1
<1>2. CASE m \notin T
  <2>1. T = S
    BY <1>2
  <2> QED
    BY <1>2, <2>1
<1> QED
  BY <1>1, <1>2

\* A list, and the same with one element more.
Extends(new, old, e) ==
  /\ Len(old) \in Nat /\ DOMAIN old = 1..Len(old)
  /\ Len(new) = Len(old) + 1 /\ DOMAIN new = 1..(Len(old) + 1)
  /\ \A i \in 1..Len(old) : new[i] = old[i]
  /\ new[Len(old) + 1] = e

\* Append makes it.
LEMMA AppendExtends ==
  ASSUME NEW S, NEW s \in Seq(S), NEW e \in S
  PROVE  Append(s, e) \in Seq(S) /\ Extends(Append(s, e), s, e)
BY DEF Extends

-----------------------------------------------------------------------------
(* parseStrict and parseRefLines *)

\* A line exceeds the buffer of the scanners.
TooLong == \E i \in DOMAIN lines : lines[i].kind = "tooLong"

\* The states of a reader of ref lines.
ReaderType == [got : Seq(RefReaders!Lines), over : BOOLEAN]

\* post-receive has every update, unless it has met a line that is too long, which
\* pre-receive has met, too.
ReadersInv ==
  /\ lines \in Seq(RefReaders!Lines) /\ strict \in ReaderType /\ loose \in ReaderType
  /\ RefReaders!Lists(loose.got)
  /\ ~loose.over => Len(loose.got) = Cardinality(RefReaders!Updates)
  /\ loose.over => strict.over /\ TooLong
  /\ ~strict.over => loose.got = strict.got

\* A line that is no update leaves the updates and their places.
LEMMA OtherLine ==
  ASSUME NEW line, Extends(lines', lines, line), line.kind # RefReaders!Update
  PROVE  /\ RefReaders!Updates' = RefReaders!Updates
         /\ \A i \in RefReaders!Updates : lines'[i] = lines[i] /\ RefReaders!Place(i)' = RefReaders!Place(i)
<1>1. RefReaders!Updates' = RefReaders!Updates
  BY DEF Extends, RefReaders!Updates
<1>2. ASSUME NEW i \in RefReaders!Updates PROVE RefReaders!Place(i)' = RefReaders!Place(i)
  BY <1>1 DEF RefReaders!Place
<1>3. \A i \in RefReaders!Updates : lines'[i] = lines[i]
  BY DEF Extends, RefReaders!Updates
<1> QED
  BY <1>1, <1>2, <1>3

\* An update is counted behind the others.
LEMMA UpdateLine ==
  ASSUME NEW line, Extends(lines', lines, line), line.kind = RefReaders!Update
  PROVE  /\ RefReaders!Updates \subseteq 1..Len(lines)
         /\ RefReaders!Updates' = RefReaders!Updates \cup {Len(lines) + 1}
         /\ Cardinality(RefReaders!Updates) \in Nat
         /\ Cardinality(RefReaders!Updates') = Cardinality(RefReaders!Updates) + 1
         /\ \A i \in RefReaders!Updates : lines'[i] = lines[i] /\ RefReaders!Place(i)' = RefReaders!Place(i)
         /\ \A i \in RefReaders!Updates : RefReaders!Place(i) \in Nat /\ RefReaders!Place(i) >= 1 /\ RefReaders!Place(i) <= Cardinality(RefReaders!Updates)
         /\ \A i \in RefReaders!Updates' \ RefReaders!Updates :
              lines'[i] = line /\ RefReaders!Place(i)' = Cardinality(RefReaders!Updates) + 1
<1>1. RefReaders!Updates \subseteq 1..Len(lines) /\ Len(lines) \in Nat
  BY DEF Extends, RefReaders!Updates
<1>2. RefReaders!Updates' = RefReaders!Updates \cup {Len(lines) + 1}
  BY DEF Extends, RefReaders!Updates
<1>3. Cardinality(RefReaders!Updates') = Cardinality(RefReaders!Updates) + 1 /\ Cardinality(RefReaders!Updates) \in Nat
  BY <1>1, <1>2, CountNext, Positions
<1>4. ASSUME NEW i \in RefReaders!Updates
      PROVE  /\ lines'[i] = lines[i] /\ RefReaders!Place(i)' = RefReaders!Place(i)
             /\ RefReaders!Place(i) \in Nat /\ RefReaders!Place(i) >= 1 /\ RefReaders!Place(i) <= Cardinality(RefReaders!Updates)
  <2>1. {j \in RefReaders!Updates' : j <= i} = {j \in RefReaders!Updates : j <= i}
    BY <1>1, <1>2
  <2>2. i \in {j \in RefReaders!Updates : j <= i}
    BY <1>1
  <2>3. Cardinality({j \in RefReaders!Updates : j <= i}) <= Cardinality(RefReaders!Updates)
    BY <1>1, CountSubset
  <2>4. /\ Cardinality({j \in RefReaders!Updates : j <= i}) \in Nat
        /\ Cardinality({j \in RefReaders!Updates : j <= i}) >= 1
    <3>1. {j \in RefReaders!Updates : j <= i} \subseteq 1..Len(lines)
      BY <1>1
    <3> QED
      BY <1>1, <2>2, <3>1, CountOne
  <2>5. lines'[i] = lines[i]
    BY <1>1 DEF Extends
  <2> QED
    BY <2>1, <2>3, <2>4, <2>5, SameCount DEF RefReaders!Place
<1>5. ASSUME NEW i \in RefReaders!Updates' \ RefReaders!Updates
      PROVE  lines'[i] = line /\ RefReaders!Place(i)' = Cardinality(RefReaders!Updates) + 1
  <2>1. i = Len(lines) + 1
    BY <1>2
  <2>2. {j \in RefReaders!Updates' : j <= i} = RefReaders!Updates'
    <3>1. \A j \in RefReaders!Updates' : j <= i
      BY <1>1, <1>2, <2>1
    <3> QED
      BY <3>1
  <2> QED
    BY <1>3, <2>1, <2>2, SameCount DEF Extends, RefReaders!Place
<1> QED
  BY <1>1, <1>2, <1>3, <1>4, <1>5

\* A line keeps the invariant.
LEMMA ReadersStep == ASSUME ReadersInv, [RefReaders!Next]_(RefReaders!vars) PROVE ReadersInv'
<1>1. CASE UNCHANGED RefReaders!vars
  BY <1>1 DEF RefReaders!vars, ReadersInv, TooLong, RefReaders!Lists, RefReaders!Updates, RefReaders!Place
<1>2. CASE RefReaders!Next
  <2>1. PICK line \in RefReaders!Lines :
          /\ lines' = Append(lines, line)
          /\ strict' = RefReaders!parseStrict(strict, line)
          /\ loose' = RefReaders!parseRefLines(loose, line)
    BY <1>2 DEF RefReaders!Next
  <2>2. line.kind \in {RefReaders!Update} \cup RefReaders!Unread
    BY DEF RefReaders!Lines
  <2>3. lines' \in Seq(RefReaders!Lines) /\ Extends(lines', lines, line)
    BY <2>1, AppendExtends DEF ReadersInv
  <2>. TooLong \/ line.kind = "tooLong" => TooLong'
    BY <2>3 DEF TooLong, Extends
  <2>4. CASE line.kind # RefReaders!Update
    <3>1. /\ RefReaders!Updates' = RefReaders!Updates
          /\ \A i \in RefReaders!Updates : lines'[i] = lines[i] /\ RefReaders!Place(i)' = RefReaders!Place(i)
      BY <2>3, <2>4, OtherLine
    <3>2. loose' \in ReaderType /\ loose'.got = loose.got /\ (loose.over => loose'.over)
      BY <2>1, <2>2, <2>4 DEF ReadersInv, ReaderType, RefReaders!parseRefLines, RefReaders!Unread
    <3>3. strict' \in ReaderType /\ strict'.got = strict.got /\ (strict.over => strict'.over)
      BY <2>1, <2>2, <2>4 DEF ReadersInv, ReaderType, RefReaders!parseStrict, RefReaders!Unread
    <3>4. RefReaders!Lists(loose.got)'
      BY <3>1, <3>2 DEF ReadersInv, RefReaders!Lists
    <3>5. loose'.over => strict'.over /\ (loose.over \/ line.kind = "tooLong")
      BY <2>1, <2>2, <2>4 DEF ReadersInv, ReaderType, RefReaders!parseRefLines, RefReaders!parseStrict, RefReaders!Unread
    <3>6. loose'.over => TooLong'
      BY <3>5 DEF ReadersInv
    <3> QED
      BY <2>3, <3>1, <3>2, <3>3, <3>4, <3>5, <3>6 DEF ReadersInv
  <2>5. CASE line.kind = RefReaders!Update
    <3> DEFINE n == Cardinality(RefReaders!Updates)
    <3>1. /\ n \in Nat /\ Cardinality(RefReaders!Updates)' = n + 1
          /\ \A i \in RefReaders!Updates : lines'[i] = lines[i] /\ RefReaders!Place(i)' = RefReaders!Place(i)
          /\ \A i \in RefReaders!Updates : RefReaders!Place(i) \in Nat /\ RefReaders!Place(i) >= 1 /\ RefReaders!Place(i) <= n
          /\ \A i \in RefReaders!Updates' \ RefReaders!Updates : lines'[i] = line /\ RefReaders!Place(i)' = n + 1
      BY <2>3, <2>5, UpdateLine
    <3>2. Len(loose.got) \in Nat /\ Len(loose.got) <= n
      <4>1. loose.got \in Seq(RefReaders!Lines) /\ RefReaders!Lists(loose.got)
        BY DEF ReadersInv, ReaderType
      <4>2. Len(loose.got) <= RefReaders!Cardinality(RefReaders!Updates)
        BY <4>1 DEF RefReaders!Lists
      <4> QED
        BY <4>1, <4>2, SameCount
    <3>3. CASE loose.over
      <4>1. loose' = loose /\ strict' = strict
        <5>1. strict.over
          BY <3>3 DEF ReadersInv
        <5>2. strict' = strict
          BY <2>1, <5>1 DEF RefReaders!parseStrict
        <5>3. loose' = loose
          BY <2>1, <3>3 DEF RefReaders!parseRefLines
        <5> QED
          BY <5>2, <5>3
      <4>2. RefReaders!Lists(loose.got)'
        <5>1. \A i \in RefReaders!Updates : RefReaders!Place(i) <= Len(loose.got) => loose.got[RefReaders!Place(i)] = lines[i]
          BY DEF ReadersInv, RefReaders!Lists
        <5>2. Len(loose.got) <= RefReaders!Cardinality(RefReaders!Updates)'
          BY <3>1, <3>2, SameCount
        <5>3. ASSUME NEW i \in RefReaders!Updates', RefReaders!Place(i)' <= Len(loose.got)
              PROVE  loose.got[RefReaders!Place(i)'] = lines'[i]
          BY <3>1, <3>2, <5>1, <5>3
        <5> QED
          BY <4>1, <5>2, <5>3 DEF RefReaders!Lists
      <4> QED
        BY <2>3, <3>3, <4>1, <4>2 DEF ReadersInv
    <3>4. CASE ~loose.over
      <4>1. loose' \in ReaderType /\ loose'.got = Append(loose.got, line) /\ ~loose'.over
        <5>1. loose' = [loose EXCEPT !.got = Append(@, line)]
          BY <2>1, <2>5, <3>4 DEF RefReaders!parseRefLines, RefReaders!Update
        <5>2. loose \in ReaderType /\ Append(loose.got, line) \in Seq(RefReaders!Lines)
          BY DEF ReadersInv, ReaderType
        <5> QED
          BY <3>4, <5>1, <5>2 DEF ReaderType
      <4>2. Extends(loose'.got, loose.got, line) /\ Len(loose.got) = n
        BY <3>4, <4>1, AppendExtends DEF ReadersInv, ReaderType
      <4>3. RefReaders!Lists(loose.got)'
        <5>1. \A i \in RefReaders!Updates : RefReaders!Place(i) <= Len(loose.got) => loose.got[RefReaders!Place(i)] = lines[i]
          BY DEF ReadersInv, RefReaders!Lists
        <5>2. Len(loose'.got) <= RefReaders!Cardinality(RefReaders!Updates)'
          BY <3>1, <4>2, SameCount DEF Extends
        <5>3. ASSUME NEW i \in RefReaders!Updates'
              PROVE  loose'.got[RefReaders!Place(i)'] = lines'[i]
          <6>1. CASE i \in RefReaders!Updates
            <7>1. loose.got[RefReaders!Place(i)] = lines[i] /\ RefReaders!Place(i) \in 1..n
              BY <3>1, <4>2, <5>1, <6>1
            <7>2. loose'.got[RefReaders!Place(i)] = loose.got[RefReaders!Place(i)]
              BY <4>2, <7>1 DEF Extends
            <7> QED
              BY <3>1, <6>1, <7>1, <7>2
          <6>2. CASE i \notin RefReaders!Updates
            BY <3>1, <4>2, <6>2 DEF Extends
          <6> QED
            BY <6>1, <6>2
        <5> QED
          BY <5>2, <5>3 DEF RefReaders!Lists
      <4>4. strict' \in ReaderType /\ (~strict'.over => loose'.got = strict'.got)
        <5>1. CASE strict.over
          <6>1. strict' = strict
            BY <2>1, <5>1 DEF RefReaders!parseStrict
          <6> QED
            BY <5>1, <6>1 DEF ReadersInv
        <5>2. CASE ~strict.over
          <6>1. strict' = [strict EXCEPT !.got = Append(@, line)]
            BY <2>1, <2>5, <5>2 DEF RefReaders!parseStrict, RefReaders!Update
          <6>2. strict \in ReaderType /\ Append(strict.got, line) \in Seq(RefReaders!Lines) /\ strict.got = loose.got
            BY <5>2 DEF ReadersInv, ReaderType
          <6> QED
            BY <4>1, <6>1, <6>2 DEF ReaderType
        <5> QED
          BY <5>1, <5>2
      <4> QED
        BY <2>3, <3>1, <4>1, <4>2, <4>3, <4>4 DEF ReadersInv, Extends
    <3> QED
      BY <3>3, <3>4
  <2> QED
    BY <2>4, <2>5
<1> QED
  BY <1>1, <1>2

\* For pushes of any number of lines, post-receive announces what pre-receive has
\* checked.
THEOREM Announced == RefReaders!Spec => []AnnouncesWhatWasChecked
<1>1. RefReaders!Init => ReadersInv
  <2> SUFFICES ASSUME RefReaders!Init PROVE ReadersInv
    OBVIOUS
  <2>1. lines = <<>> /\ strict = RefReaders!Start /\ loose = RefReaders!Start
    BY DEF RefReaders!Init
  <2>2. RefReaders!Updates = {}
    BY <2>1, NoPositions DEF RefReaders!Updates
  <2>3. Cardinality(RefReaders!Updates) = 0
    BY <2>2, FS_EmptySet
  <2> QED
    BY <2>1, <2>2, <2>3, SameCount DEF ReadersInv, ReaderType, RefReaders!Start, RefReaders!Lists
<1>2. ReadersInv /\ [RefReaders!Next]_(RefReaders!vars) => ReadersInv'
  BY ReadersStep
<1>3. ReadersInv => AnnouncesWhatWasChecked
  <2> SUFFICES ASSUME ReadersInv PROVE RefReaders!AnnouncesWhatWasChecked
    BY DEF AnnouncesWhatWasChecked
  <2>1. ~strict.over \/ (\A i \in DOMAIN lines : lines[i].kind # "tooLong") =>
          Len(loose.got) = RefReaders!Cardinality(RefReaders!Updates)
    BY SameCount DEF ReadersInv, TooLong
  <2>2. ASSUME NEW u
        PROVE  LET asked == Len(RefReaders!commitSummaries(u)) IN
               /\ RefReaders!EventType(u) = "ref-created" <=> asked = 1
               /\ RefReaders!EventType(u) = "ref-deleted" => asked = 0
               /\ asked = 2 => RefReaders!EventType(u) = "push"
    BY DEF RefReaders!EventType, RefReaders!commitSummaries
  <2> QED
    BY <2>1, <2>2 DEF ReadersInv, RefReaders!AnnouncesWhatWasChecked
<1> QED
  BY <1>1, <1>2, <1>3, PTL DEF RefReaders!Spec

-----------------------------------------------------------------------------
(* ParseCommand *)

\* The states of the tokenizer.
ScanType ==
  [args : Seq(Seq(Command!Chars)), cur : Seq(Command!Chars), inQuote : BOOLEAN, started : BOOLEAN]

\* The positions of the quotes.
Quotes == {j \in DOMAIN input : input[j] = Quote}

\* The last position is in a word.
InsideWord == \E i \in DOMAIN input : i = Len(input) /\ ~Command!Separator(i)

\* The words so far, the one that is not at its end included.
AllWords == IF words.started THEN Append(words.args, words.cur) ELSE words.args

\* The tokenizer holds the words of what it has read, the one that it is in included.
WordsInv ==
  /\ input \in Seq(Command!Chars) /\ words \in ScanType
  /\ words.inQuote <=> Cardinality(Quotes) % 2 = 1
  /\ words.started <=> InsideWord
  /\ ~words.started => words.cur = <<>>
  /\ \A i \in DOMAIN input : ~Command!Separator(i) => Command!Word(i) >= 1
  /\ Command!AreWords(AllWords)

\* The quotes before the next character.
LEMMA QuotedNow ==
  ASSUME input \in Seq(Command!Chars), NEW m, m = Len(input) + 1
  PROVE  Command!Quoted(m) <=> Cardinality(Quotes) % 2 = 1
<1>1. {j \in 1..(m - 1) : input[j] = Quote} = Quotes
  BY DEF Quotes
<1> QED
  BY <1>1, SameCount DEF Command!Quoted

\* A character changes nothing of the positions before it.
LEMMA EarlierPositions ==
  ASSUME input \in Seq(Command!Chars), NEW c, Extends(input', input, c), NEW i \in 1..Len(input)
  PROVE  (Command!Separator(i)' <=> Command!Separator(i)) /\ input'[i] = input[i]
<1>1. input'[i] = input[i] /\ {j \in 1..(i - 1) : input'[j] = Quote} = {j \in 1..(i - 1) : input[j] = Quote}
  BY DEF Extends
<1> QED
  BY <1>1 DEF Command!Separator, Command!Quoted

\* The character itself: whether it separates, and whether a quote is open behind it.
LEMMA NewPosition ==
  ASSUME input \in Seq(Command!Chars), NEW c, Extends(input', input, c), NEW m, m = Len(input) + 1
  PROVE  /\ Command!Separator(m)' <=> c = Space /\ ~(Cardinality(Quotes) % 2 = 1)
         /\ (Cardinality(Quotes) % 2 = 1)' <=> IF c = Quote THEN ~(Cardinality(Quotes) % 2 = 1)
                                               ELSE Cardinality(Quotes) % 2 = 1
<1>1. input'[m] = c /\ {j \in 1..(m - 1) : input'[j] = Quote} = Quotes
  BY DEF Extends, Quotes
<1>2. Command!Separator(m)' <=> c = Space /\ ~(Cardinality(Quotes) % 2 = 1)
  BY <1>1, SameCount DEF Command!Separator, Command!Quoted
<1>3. Len(input) \in Nat /\ Quotes \subseteq 1..Len(input)
  BY DEF Quotes
<1>4. CASE c = Quote
  <2>1. Quotes' = Quotes \cup {Len(input) + 1}
    BY <1>4 DEF Extends, Quotes
  <2>2. Cardinality(Quotes)' = Cardinality(Quotes) + 1 /\ Cardinality(Quotes) \in Nat
    BY <1>3, <2>1, CountNext, Positions
  <2>3. (Cardinality(Quotes) % 2 = 1)' <=> ~(Cardinality(Quotes) % 2 = 1)
    BY <2>2
  <2> QED
    BY <1>2, <1>4, <2>3
<1>5. CASE c # Quote
  <2>1. Quotes' = Quotes
    BY <1>5 DEF Extends, Quotes
  <2> QED
    BY <1>2, <1>5, <2>1
<1> QED
  BY <1>4, <1>5

\* The sets of positions that AreWords counts, and their sizes.
LEMMA WordPositions ==
  ASSUME input \in Seq(Command!Chars)
  PROVE  /\ Len(input) \in Nat /\ DOMAIN input = 1..Len(input)
         /\ Command!Begins \subseteq 1..Len(input) /\ Cardinality(Command!Begins) \in Nat
         /\ Command!Kept \subseteq 1..Len(input)
         /\ \A k : Command!InWord(k) \subseteq 1..Len(input) /\ Cardinality(Command!InWord(k)) \in Nat
         /\ \A i : Command!Word(i) \in Nat /\ Command!Word(i) <= Cardinality(Command!Begins)
<1>1. Len(input) \in Nat /\ DOMAIN input = 1..Len(input)
  OBVIOUS
<1>2. Command!Begins \subseteq 1..Len(input) /\ Command!Kept \subseteq 1..Len(input)
  BY <1>1 DEF Command!Begins, Command!Kept
<1>3. Cardinality(Command!Begins) \in Nat
  BY <1>1, <1>2, Positions
<1>4. ASSUME NEW k PROVE Command!InWord(k) \subseteq 1..Len(input) /\ Cardinality(Command!InWord(k)) \in Nat
  <2>1. Command!InWord(k) \subseteq 1..Len(input)
    BY <1>2 DEF Command!InWord
  <2> QED
    BY <1>1, <2>1, Positions
<1>5. ASSUME NEW i PROVE Command!Word(i) \in Nat /\ Command!Word(i) <= Cardinality(Command!Begins)
  <2>1. /\ Cardinality({b \in Command!Begins : b <= i}) \in Nat
        /\ Cardinality({b \in Command!Begins : b <= i}) <= Cardinality(Command!Begins)
    BY <1>1, <1>2, CountSubset
  <2> QED
    BY <2>1, SameCount DEF Command!Word
<1> QED
  BY <1>1, <1>2, <1>3, <1>4, <1>5

\* The place of a character is one of its word's.
LEMMA PlaceInWord ==
  ASSUME input \in Seq(Command!Chars), NEW i \in Command!Kept
  PROVE  Command!Place(i) \in 1..Cardinality(Command!InWord(Command!Word(i)))
<1> DEFINE W == Command!InWord(Command!Word(i))
           upTo == {j \in W : j <= i}
<1>1. W \subseteq 1..Len(input) /\ Len(input) \in Nat /\ i \in 1..Len(input)
  BY WordPositions
<1>2. i \in upTo /\ upTo \subseteq W /\ upTo \subseteq 1..Len(input)
  BY <1>1 DEF Command!InWord
<1> HIDE DEF W
<1>3. Cardinality(upTo) \in Nat /\ Cardinality(W) \in Nat /\ Cardinality(upTo) <= Cardinality(W)
  BY <1>1, <1>2, CountSubset
<1>4. Cardinality(upTo) >= 1
  BY <1>1, <1>2, CountOne
<1>5. Command!Place(i) = Cardinality(upTo)
  BY SameCount DEF Command!Place, W
<1> QED
  BY <1>3, <1>4, <1>5 DEF W

\* A new word begins at a character that is no separator, behind one or at the start.
LEMMA BeginsThen ==
  ASSUME input \in Seq(Command!Chars), NEW c, Extends(input', input, c), NEW m, m = Len(input) + 1
  PROVE  Command!Begins' = IF ~Command!Separator(m)' /\ ~InsideWord THEN Command!Begins \cup {m} ELSE Command!Begins
<1>1. /\ Len(input) \in Nat /\ DOMAIN input = 1..Len(input) /\ DOMAIN input' = 1..m
      /\ \A i \in 1..Len(input) : Command!Separator(i)' <=> Command!Separator(i)
  BY EarlierPositions DEF Extends
<1>2. ASSUME NEW i \in 1..Len(input) PROVE i \in Command!Begins' <=> i \in Command!Begins
  <2>1. i = 1 \/ i - 1 \in 1..Len(input)
    BY <1>1
  <2> QED
    BY <1>1, <2>1 DEF Command!Begins
<1>3. m \in Command!Begins' <=> ~Command!Separator(m)' /\ ~InsideWord
  <2>1. CASE Len(input) = 0
    BY <1>1, <2>1 DEF Command!Begins, InsideWord
  <2>2. CASE Len(input) # 0
    <3>1. m - 1 = Len(input) /\ m # 1 /\ Len(input) \in 1..Len(input)
      BY <1>1, <2>2
    <3>2. InsideWord <=> ~Command!Separator(Len(input))
      BY <1>1, <3>1 DEF InsideWord
    <3>3. PICK l \in 1..Len(input) : l = Len(input) /\ l = m - 1
      BY <3>1
    <3>4. Command!Separator(l)' <=> ~InsideWord
      BY <1>1, <3>2, <3>3
    <3>5. m \in Command!Begins' <=> ~Command!Separator(m)' /\ Command!Separator(l)'
      BY <1>1, <3>1, <3>3 DEF Command!Begins
    <3> QED
      BY <3>4, <3>5
  <2> QED
    BY <2>1, <2>2
<1>4. Command!Begins' \subseteq 1..m /\ Command!Begins \subseteq 1..Len(input)
  BY <1>1 DEF Command!Begins
<1>5. 1..m = 1..Len(input) \cup {m} /\ m \notin 1..Len(input)
  BY <1>1
<1>6. Command!Begins' = IF m \in Command!Begins' THEN Command!Begins \cup {m} ELSE Command!Begins
  <2> DEFINE D == 1..Len(input)
  <2>1. m \notin D /\ Command!Begins \subseteq D /\ Command!Begins' \subseteq D \cup {m}
    BY <1>4, <1>5
  <2>2. \A i \in D : i \in Command!Begins' <=> i \in Command!Begins
    BY <1>2
  <2> HIDE DEF D
  <2> QED
    BY <2>1, <2>2, AtMostOneMore
<1> QED
  BY <1>3, <1>6

\* A character is kept unless it separates or quotes.
LEMMA KeptThen ==
  ASSUME input \in Seq(Command!Chars), NEW c, Extends(input', input, c), NEW m, m = Len(input) + 1
  PROVE  Command!Kept' = IF ~Command!Separator(m)' /\ c # Quote THEN Command!Kept \cup {m} ELSE Command!Kept
<1>1. /\ Len(input) \in Nat /\ DOMAIN input = 1..Len(input) /\ DOMAIN input' = 1..m /\ input'[m] = c
      /\ \A i \in 1..Len(input) : (Command!Separator(i)' <=> Command!Separator(i)) /\ input'[i] = input[i]
  BY EarlierPositions DEF Extends
<1>2. \A i \in 1..Len(input) : i \in Command!Kept' <=> i \in Command!Kept
  BY <1>1 DEF Command!Kept
<1>3. m \in Command!Kept' <=> ~Command!Separator(m)' /\ c # Quote
  BY <1>1 DEF Command!Kept
<1>4. Command!Kept' \subseteq 1..m /\ Command!Kept \subseteq 1..Len(input)
  BY <1>1 DEF Command!Kept
<1>5. 1..m = 1..Len(input) \cup {m} /\ m \notin 1..Len(input)
  BY <1>1
<1>6. Command!Kept' = IF m \in Command!Kept' THEN Command!Kept \cup {m} ELSE Command!Kept
  <2> DEFINE D == 1..Len(input)
  <2>1. m \notin D /\ Command!Kept \subseteq D /\ Command!Kept' \subseteq D \cup {m}
    BY <1>4, <1>5
  <2>2. \A i \in D : i \in Command!Kept' <=> i \in Command!Kept
    BY <1>2
  <2> HIDE DEF D
  <2> QED
    BY <2>1, <2>2, AtMostOneMore
<1> QED
  BY <1>3, <1>6

\* The positions keep their words; the new one is in the last word.
LEMMA WordThen ==
  ASSUME input \in Seq(Command!Chars), NEW c, Extends(input', input, c), NEW m, m = Len(input) + 1
  PROVE  /\ \A i \in 1..Len(input) : Command!Word(i)' = Command!Word(i)
         /\ Command!Word(m)' = Cardinality(Command!Begins)'
<1>1. Len(input) \in Nat /\ Command!Begins \subseteq 1..Len(input)
  BY WordPositions
<1>2. Command!Begins' \in {Command!Begins, Command!Begins \cup {m}}
  BY BeginsThen
<1>3. ASSUME NEW i \in 1..Len(input) PROVE Command!Word(i)' = Command!Word(i)
  <2>1. {b \in Command!Begins' : b <= i} = {b \in Command!Begins : b <= i}
    BY <1>1, <1>2
  <2> QED
    BY <2>1 DEF Command!Word
<1>4. Command!Word(m)' = Cardinality(Command!Begins)'
  <2>1. \A b \in Command!Begins' : b <= m
    BY <1>1, <1>2
  <2>2. {b \in Command!Begins' : b <= m} = Command!Begins'
    BY <2>1
  <2> QED
    BY <2>2, SameCount DEF Command!Word
<1> QED
  BY <1>3, <1>4

\* The words keep their characters; the new one, if it is kept, is in the last word.
LEMMA InWordThen ==
  ASSUME input \in Seq(Command!Chars), NEW c, Extends(input', input, c), NEW m, m = Len(input) + 1, NEW k
  PROVE  Command!InWord(k)' = IF m \in Command!Kept' /\ k = Cardinality(Command!Begins)'
                             THEN Command!InWord(k) \cup {m} ELSE Command!InWord(k)
<1>1. Len(input) \in Nat /\ Command!Kept \subseteq 1..Len(input) /\ m \notin 1..Len(input)
  BY WordPositions
<1>2. Command!Kept' = Command!Kept \/ Command!Kept' = Command!Kept \cup {m}
  BY KeptThen
<1>3. \A i \in Command!Kept : Command!Word(i)' = Command!Word(i)
  BY <1>1, WordThen
<1>4. Command!Word(m)' = Cardinality(Command!Begins)'
  BY WordThen
<1>5. \A i \in Command!Kept : i \in Command!InWord(k)' <=> i \in Command!InWord(k)
  BY <1>2, <1>3 DEF Command!InWord
<1>6. m \in Command!InWord(k)' <=> m \in Command!Kept' /\ k = Cardinality(Command!Begins)'
  BY <1>4 DEF Command!InWord
<1>7. Command!InWord(k) \subseteq Command!Kept /\ Command!InWord(k)' \subseteq Command!Kept \cup {m}
  BY <1>2 DEF Command!InWord
<1>8. m \notin Command!Kept
  BY <1>1
<1> QED
  <2>1. Command!InWord(k)' = IF m \in Command!InWord(k)' THEN Command!InWord(k) \cup {m} ELSE Command!InWord(k)
    BY <1>5, <1>7, <1>8, AtMostOneMore
  <2> QED
    BY <1>6, <2>1

\* The characters keep their places; the new one has the next.
LEMMA PlaceThen ==
  ASSUME input \in Seq(Command!Chars), NEW c, Extends(input', input, c), NEW m, m = Len(input) + 1,
         NEW k, k = Cardinality(Command!Begins)'
  PROVE  /\ \A i \in Command!Kept : Command!Place(i)' = Command!Place(i)
         /\ m \in Command!Kept' => Command!Place(m)' = Cardinality(Command!InWord(k)) + 1
<1>1. /\ Len(input) \in Nat /\ Command!Kept \subseteq 1..Len(input)
      /\ \A l : Command!InWord(l) \subseteq 1..Len(input)
  BY WordPositions
<1>2. ASSUME NEW i \in Command!Kept PROVE Command!Place(i)' = Command!Place(i)
  <2>1. PICK l : l = Command!Word(i)
    OBVIOUS
  <2>2. Command!Word(i)' = l
    BY <1>1, <2>1, WordThen
  <2>3. Command!InWord(l)' = Command!InWord(l) \/ Command!InWord(l)' = Command!InWord(l) \cup {m}
    BY InWordThen
  <2>4. {j \in Command!InWord(l)' : j <= i} = {j \in Command!InWord(l) : j <= i}
    BY <1>1, <2>3
  <2>5. Command!Place(i) = Command!Cardinality({j \in Command!InWord(l) : j <= i})
    BY <2>1 DEF Command!Place
  <2>6. Command!Place(i)' = Command!Cardinality({j \in Command!InWord(l)' : j <= i})
    BY <2>2 DEF Command!Place, Command!InWord
  <2> QED
    BY <2>4, <2>5, <2>6
<1>3. ASSUME m \in Command!Kept' PROVE Command!Place(m)' = Cardinality(Command!InWord(k)) + 1
  <2>1. Command!Word(m)' = k
    BY WordThen
  <2>2. Command!InWord(k)' = Command!InWord(k) \cup {m}
    BY <1>3, InWordThen
  <2>3. \A j \in Command!InWord(k)' : j <= m
    BY <1>1, <2>2
  <2>4. {j \in Command!InWord(k)' : j <= m} = Command!InWord(k)'
    BY <2>3
  <2>5. Command!Place(m)' = Command!Cardinality({j \in Command!InWord(k)' : j <= m})
    BY <2>1 DEF Command!Place, Command!InWord
  <2>6. Cardinality(Command!InWord(k) \cup {m}) = Cardinality(Command!InWord(k)) + 1
    BY <1>1, CountNext
  <2> QED
    BY <2>2, <2>4, <2>5, <2>6, SameCount
<1> QED
  BY <1>2, <1>3

\* The same words, where no word begins and no character is kept.
LEMMA SameWords ==
  ASSUME input \in Seq(Command!Chars), NEW c, Extends(input', input, c), Command!AreWords(AllWords),
         Command!Begins' = Command!Begins, Command!Kept' = Command!Kept, AllWords' = AllWords
  PROVE  Command!AreWords(AllWords)'
<1>1. PICK m : m = Len(input) + 1
  OBVIOUS
<1>2. /\ Len(input) \in Nat /\ Command!Kept \subseteq 1..Len(input)
  BY WordPositions
<1>3. m \notin Command!Kept'
  BY <1>1, <1>2
<1>4. \A k : Command!InWord(k)' = Command!InWord(k)
  BY <1>1, <1>3, InWordThen
<1>5. \A i \in Command!Kept : Command!Word(i)' = Command!Word(i) /\ input'[i] = input[i]
  BY <1>1, <1>2, WordThen, EarlierPositions
<1>6. \A i \in Command!Kept : Command!Place(i)' = Command!Place(i)
  BY <1>1, PlaceThen
<1> QED
  BY <1>4, <1>5, <1>6 DEF Command!AreWords

\* One word more, with the new character or empty.
LEMMA OneMoreWord ==
  ASSUME input \in Seq(Command!Chars), NEW c, Extends(input', input, c), NEW m, m = Len(input) + 1,
         Command!AreWords(AllWords), Command!Begins' = Command!Begins \cup {m},
         \A i \in Command!Kept : Command!Word(i) >= 1,
         NEW w \in Seq(Command!Chars), Extends(AllWords', AllWords, w),
         IF m \in Command!Kept' THEN Len(w) = 1 /\ w[1] = c ELSE Len(w) = 0
  PROVE  Command!AreWords(AllWords)'
<1> DEFINE n == Cardinality(Command!Begins)
<1>1. /\ Len(input) \in Nat /\ Command!Kept \subseteq 1..Len(input) /\ Command!Begins \subseteq 1..Len(input)
      /\ n \in Nat /\ \A i : Command!Word(i) \in Nat /\ Command!Word(i) <= n
  BY WordPositions
<1>2. Cardinality(Command!Begins)' = n + 1
  BY <1>1, CountNext
<1>3. Len(AllWords) = n /\ DOMAIN AllWords = 1..n /\ Len(AllWords)' = n + 1 /\ DOMAIN AllWords' = 1..(n + 1)
  BY SameCount DEF Command!AreWords, Extends
<1> HIDE DEF n
<1>4. Command!InWord(n + 1) = {}
  BY <1>1 DEF Command!InWord
<1>5. Cardinality(Command!InWord(n + 1)) = 0
  BY <1>4, FS_EmptySet
<1>6. PICK k : k = n + 1
  OBVIOUS
<1>7. \A l : l # k => Command!InWord(l)' = Command!InWord(l)
  BY <1>2, <1>6, InWordThen
<1>8. Command!InWord(k)' = IF m \in Command!Kept' THEN {m} ELSE {}
  BY <1>2, <1>4, <1>6, InWordThen
<1>9. \A l \in 1..n : AllWords'[l] = AllWords[l] /\ l # k
  BY <1>1, <1>3, <1>6 DEF Extends
<1>10. AllWords'[k] = w
  BY <1>3, <1>6 DEF Extends
<1>11. ASSUME NEW l \in DOMAIN AllWords' PROVE Len(AllWords'[l]) = Command!Cardinality(Command!InWord(l)')
  <2>1. CASE l = k
    <3>1. Cardinality(Command!InWord(k)') = Len(w)
      BY <1>8, FS_EmptySet, FS_Singleton
    <3> QED
      BY <1>10, <2>1, <3>1, SameCount
  <2>2. CASE l # k
    <3>1. l \in DOMAIN AllWords
      BY <1>1, <1>3, <1>6, <2>2, SMTT(30)
    <3>2. Len(AllWords[l]) = Command!Cardinality(Command!InWord(l))
      BY <3>1 DEF Command!AreWords
    <3> QED
      BY <1>3, <1>7, <1>9, <2>2, <3>1, <3>2
  <2> QED
    BY <2>1, <2>2
<1>12. ASSUME NEW i \in Command!Kept' PROVE AllWords'[Command!Word(i)'][Command!Place(i)'] = input'[i]
  <2>1. CASE i \in Command!Kept
    <3>1. Command!Word(i)' = Command!Word(i) /\ input'[i] = input[i] /\ Command!Place(i)' = Command!Place(i)
      BY <1>1, <2>1, WordThen, EarlierPositions, PlaceThen
    <3>2. Command!Word(i) \in 1..n
      BY <1>1, <2>1
    <3>3. AllWords[Command!Word(i)][Command!Place(i)] = input[i]
      BY <2>1 DEF Command!AreWords
    <3> QED
      BY <1>9, <3>1, <3>2, <3>3
  <2>2. CASE i \notin Command!Kept
    <3>1. i = m
      BY <2>2, KeptThen
    <3>2. Command!Word(m)' = k
      BY <1>2, <1>6, WordThen
    <3>3. Command!Place(m)' = 1
      <4>1. k = Cardinality(Command!Begins)' /\ m \in Command!Kept' /\ Cardinality(Command!InWord(k)) = 0
        BY <1>2, <1>5, <1>6, <3>1
      <4>2. Command!Place(m)' = Cardinality(Command!InWord(k)) + 1
        BY <4>1, PlaceThen
      <4> QED
        BY <4>1, <4>2
    <3>4. input'[m] = c
      BY DEF Extends
    <3> QED
      BY <1>10, <3>1, <3>2, <3>3, <3>4
  <2> QED
    BY <2>1, <2>2
<1>13. Len(AllWords)' = Command!Cardinality(Command!Begins)'
  BY <1>2, <1>3, SameCount
<1> QED
  BY <1>11, <1>12, <1>13 DEF Command!AreWords

\* One character more in the last word.
LEMMA LongerWord ==
  ASSUME input \in Seq(Command!Chars), NEW c, Extends(input', input, c), NEW m, m = Len(input) + 1,
         Command!AreWords(AllWords), Command!Begins' = Command!Begins, Command!Kept' = Command!Kept \cup {m},
         \A i \in Command!Kept : Command!Word(i) >= 1,
         NEW front, NEW w \in Seq(Command!Chars), NEW v,
         Extends(AllWords, front, w), Extends(AllWords', front, v), Extends(v, w, c)
  PROVE  Command!AreWords(AllWords)'
<1>1. PICK k : k = Cardinality(Command!Begins)
  OBVIOUS
<1>2. /\ Len(input) \in Nat /\ Command!Kept \subseteq 1..Len(input) /\ m \notin Command!Kept
      /\ k \in Nat /\ \A l : Command!InWord(l) \subseteq 1..Len(input)
  BY <1>1, WordPositions
<1>3. /\ Len(AllWords) = k /\ Len(front) + 1 = k /\ DOMAIN AllWords = 1..k /\ DOMAIN AllWords' = 1..k
      /\ Len(AllWords') = k /\ Len(front) \in Nat
  BY <1>1, SameCount DEF Command!AreWords, Extends
<1>4. AllWords[k] = w /\ AllWords'[k] = v /\ \A l \in 1..k : l # k => AllWords'[l] = AllWords[l]
  BY <1>2, <1>3 DEF Extends
<1>5. \A l : l # k => Command!InWord(l)' = Command!InWord(l)
  BY <1>1, InWordThen
<1>6. Command!InWord(k)' = Command!InWord(k) \cup {m}
  BY <1>1, InWordThen
<1>7. Cardinality(Command!InWord(k)') = Cardinality(Command!InWord(k)) + 1
  BY <1>2, <1>6, CountNext
<1>8. k \in DOMAIN AllWords
  BY <1>3
<1>9. Len(w) = Cardinality(Command!InWord(k))
  BY <1>4, <1>8, SameCount DEF Command!AreWords
<1>10. ASSUME NEW l \in DOMAIN AllWords' PROVE Len(AllWords'[l]) = Command!Cardinality(Command!InWord(l)')
  <2>1. CASE l = k
    BY <1>4, <1>7, <1>9, <2>1, SameCount DEF Extends
  <2>2. CASE l # k
    <3>1. Len(AllWords[l]) = Command!Cardinality(Command!InWord(l))
      BY <1>3 DEF Command!AreWords
    <3> QED
      BY <1>3, <1>4, <1>5, <2>2, <3>1
  <2> QED
    BY <2>1, <2>2
<1>11. ASSUME NEW i \in Command!Kept' PROVE AllWords'[Command!Word(i)'][Command!Place(i)'] = input'[i]
  <2>1. CASE i \in Command!Kept
    <3>1. Command!Word(i)' = Command!Word(i) /\ input'[i] = input[i] /\ Command!Place(i)' = Command!Place(i)
      BY <1>2, <2>1, WordThen, EarlierPositions, PlaceThen
    <3>2. AllWords[Command!Word(i)][Command!Place(i)] = input[i]
      BY <2>1 DEF Command!AreWords
    <3>3. CASE Command!Word(i) = k
      <4>1. Command!Place(i) \in 1..Len(w)
        BY <1>9, <2>1, <3>3, PlaceInWord
      <4> QED
        <5>1. v[Command!Place(i)] = w[Command!Place(i)]
          BY <4>1 DEF Extends
        <5> QED
          BY <1>4, <3>1, <3>2, <3>3, <5>1
    <3>4. CASE Command!Word(i) # k
      <4>1. Command!Word(i) \in 1..k
        <5>1. Command!Word(i) \in Nat /\ Command!Word(i) <= k
          BY <1>1, WordPositions
        <5>2. Command!Word(i) >= 1
          BY <2>1
        <5> QED
          BY <5>1, <5>2
      <4> QED
        BY <1>4, <3>1, <3>2, <3>4, <4>1
    <3> QED
      BY <3>3, <3>4
  <2>2. CASE i \notin Command!Kept
    <3>1. i = m
      BY <2>2
    <3>2. Command!Word(m)' = k
      BY <1>1, WordThen
    <3>3. Command!Place(m)' = Len(w) + 1
      BY <1>1, <1>9, <3>1, PlaceThen
    <3>4. input'[m] = c
      BY DEF Extends
    <3> QED
      BY <1>4, <3>1, <3>2, <3>3, <3>4 DEF Extends
  <2> QED
    BY <2>1, <2>2
<1>12. Len(AllWords)' = Command!Cardinality(Command!Begins)'
  BY <1>1, <1>3, SameCount
<1> QED
  BY <1>10, <1>11, <1>12 DEF Command!AreWords

\* What a character does to the state of the loop.
LEMMA ScanCases ==
  ASSUME NEW c \in Command!Chars, words \in ScanType, words' = Command!Scan(words, c),
         ~words.started => words.cur = <<>>
  PROVE  /\ words' \in ScanType
         /\ words'.inQuote <=> IF c = Quote THEN ~words.inQuote ELSE words.inQuote
         /\ words'.started <=> ~(c = Space /\ ~words.inQuote)
         /\ ~words'.started => words'.cur = <<>>
         /\ c = Space /\ ~words.inQuote => AllWords' = AllWords
         /\ c = Quote => words'.args = words.args /\ words'.cur = words.cur
         /\ c # Quote /\ words'.started => words'.args = words.args /\ words'.cur = Append(words.cur, c)
<1>1. Quote # Space
  BY ScannersAssumption
<1>2. CASE c = Quote
  <2>1. words' = [words EXCEPT !.inQuote = ~@, !.started = TRUE]
    BY <1>1, <1>2 DEF Command!Scan
  <2> QED
    BY <1>1, <1>2, <2>1 DEF ScanType
<1>3. CASE c = Space /\ ~words.inQuote
  <2>1. words' = IF words.started THEN [Command!Start EXCEPT !.args = Append(words.args, words.cur)] ELSE words
    BY <1>1, <1>3 DEF Command!Scan
  <2>2. CASE words.started
    <3>1. words' = [args |-> Append(words.args, words.cur), cur |-> <<>>, inQuote |-> FALSE, started |-> FALSE]
      BY <2>1, <2>2 DEF Command!Start
    <3>2. Append(words.args, words.cur) \in Seq(Seq(Command!Chars)) /\ <<>> \in Seq(Command!Chars)
      BY DEF ScanType
    <3>3. words' \in ScanType
      <4>1. PICK all \in Seq(Seq(Command!Chars)) : all = Append(words.args, words.cur)
        BY <3>2
      <4>2. PICK none \in Seq(Command!Chars) : none = <<>>
        BY <3>2
      <4>3. words' = [args |-> all, cur |-> none, inQuote |-> FALSE, started |-> FALSE]
        BY <3>1, <4>1, <4>2
      <4> QED
        <5>1. [args |-> all, cur |-> none, inQuote |-> FALSE, started |-> FALSE] \in ScanType
          BY Zenon DEF ScanType
        <5> QED
          BY <4>3, <5>1, Zenon
    <3> QED
      BY <1>1, <1>3, <2>2, <3>1, <3>3 DEF AllWords
  <2>3. CASE ~words.started
    <3>1. words' = words
      BY <2>1, <2>3
    <3> QED
      BY <1>1, <1>3, <2>3, <3>1 DEF AllWords
  <2> QED
    BY <2>2, <2>3
<1>4. CASE c # Quote /\ ~(c = Space /\ ~words.inQuote)
  <2>1. words' = [words EXCEPT !.cur = Append(@, c), !.started = TRUE]
    BY <1>4 DEF Command!Scan
  <2>2. Append(words.cur, c) \in Seq(Command!Chars)
    BY DEF ScanType
  <2> QED
    BY <1>4, <2>1, <2>2 DEF ScanType
<1> QED
  BY <1>2, <1>3, <1>4

\* A character keeps the invariant.
LEMMA WordsStep == ASSUME WordsInv, [Command!Next]_(Command!vars) PROVE WordsInv'
<1>1. CASE UNCHANGED Command!vars
  <2>1. input' = input /\ words' = words
    BY <1>1 DEF Command!vars
  <2>2. Quotes' = Quotes /\ AllWords' = AllWords
    BY <2>1 DEF Quotes, AllWords
  <2>3. \A i : Command!Separator(i)' <=> Command!Separator(i)
    BY <2>1 DEF Command!Separator, Command!Quoted
  <2>4. Command!Begins' = Command!Begins /\ Command!Kept' = Command!Kept
    BY <2>1, <2>3 DEF Command!Begins, Command!Kept
  <2>5. \A i : Command!Word(i)' = Command!Word(i)
    BY <2>4 DEF Command!Word
  <2>6. \A k : Command!InWord(k)' = Command!InWord(k)
    BY <2>4, <2>5 DEF Command!InWord
  <2>7. \A i : Command!Place(i)' = Command!Place(i)
    BY <2>4, <2>5 DEF Command!Place, Command!InWord
  <2>8. Command!AreWords(AllWords)'
    BY <2>1, <2>2, <2>4, <2>5, <2>6, <2>7 DEF WordsInv, Command!AreWords
  <2>9. InsideWord' = InsideWord
    BY <2>1, <2>3 DEF InsideWord
  <2> QED
    BY <2>1, <2>2, <2>3, <2>5, <2>8, <2>9 DEF WordsInv
<1>2. CASE Command!Next
  <2>1. PICK c \in Command!Chars : input' = Append(input, c) /\ words' = Command!Scan(words, c)
    BY <1>2 DEF Command!Next
  <2>2. input \in Seq(Command!Chars) /\ input' \in Seq(Command!Chars) /\ Extends(input', input, c)
    BY <2>1, AppendExtends DEF WordsInv
  <2>3. PICK m : m = Len(input) + 1
    OBVIOUS
  <2> DEFINE sep == c = Space /\ ~words.inQuote
  <2>4. /\ words' \in ScanType
        /\ words'.inQuote <=> IF c = Quote THEN ~words.inQuote ELSE words.inQuote
        /\ words'.started <=> ~sep
        /\ ~words'.started => words'.cur = <<>>
        /\ sep => AllWords' = AllWords
        /\ c = Quote => words'.args = words.args /\ words'.cur = words.cur
        /\ c # Quote /\ words'.started => words'.args = words.args /\ words'.cur = Append(words.cur, c)
    BY <2>1, ScanCases DEF WordsInv
  <2>5. Command!Separator(m)' <=> sep
    BY <2>2, <2>3, NewPosition DEF WordsInv
  <2>6. words'.inQuote <=> (Cardinality(Quotes) % 2 = 1)'
    BY <2>2, <2>3, <2>4, NewPosition DEF WordsInv
  <2>7. words'.started <=> InsideWord'
    <3>1. Len(input') = m /\ m \in DOMAIN input'
      BY <2>2, <2>3 DEF Extends
    <3> QED
      BY <2>4, <2>5, <3>1 DEF InsideWord
  <2> HIDE DEF sep
  <2>8. words.started <=> InsideWord
    BY DEF WordsInv
  <2>9. Command!Begins' = IF ~sep /\ ~words.started THEN Command!Begins \cup {m} ELSE Command!Begins
    BY <2>2, <2>3, <2>5, <2>8, BeginsThen
  <2>10. Command!Kept' = IF ~sep /\ c # Quote THEN Command!Kept \cup {m} ELSE Command!Kept
    BY <2>2, <2>3, <2>5, KeptThen
  <2>11. /\ Len(input) \in Nat /\ m \notin Command!Kept /\ m \notin Command!Begins
         /\ Command!Begins \subseteq 1..Len(input) /\ Cardinality(Command!Begins) \in Nat
    BY <2>2, <2>3, WordPositions
  <2>12. \A i \in Command!Kept : Command!Word(i) >= 1
    BY DEF WordsInv, Command!Kept
  <2>13. \A i \in DOMAIN input' : ~Command!Separator(i)' => Command!Word(i)' >= 1
    <3> SUFFICES ASSUME NEW i \in DOMAIN input', ~Command!Separator(i)' PROVE Command!Word(i)' >= 1
      OBVIOUS
    <3>1. CASE i \in 1..Len(input)
      BY <2>2, <2>3, <3>1, WordThen, EarlierPositions DEF WordsInv, Extends
    <3>2. CASE i \notin 1..Len(input)
      <4>1. i = m
        BY <2>2, <2>3, <3>2 DEF Extends
      <4>2. Command!Word(m)' = Cardinality(Command!Begins)' /\ ~sep
        BY <2>2, <2>3, <2>5, <4>1, WordThen
      <4>3. CASE ~words.started
        <5>1. Cardinality(Command!Begins)' = Cardinality(Command!Begins) + 1
          BY <2>3, <2>9, <2>11, <4>2, <4>3, CountNext
        <5> QED
          BY <2>11, <4>1, <4>2, <5>1
      <4>4. CASE words.started
        <5>1. PICK j \in DOMAIN input : ~Command!Separator(j)
          BY <2>8, <4>4 DEF InsideWord
        <5>2. Command!Word(j) >= 1 /\ Command!Word(j) \in Nat /\ Command!Word(j) <= Cardinality(Command!Begins)
          BY <2>2, <5>1, WordPositions DEF WordsInv
        <5> QED
          BY <2>9, <2>11, <4>1, <4>2, <4>4, <5>2
      <4> QED
        BY <4>3, <4>4
    <3> QED
      BY <3>1, <3>2
  <2>14. words \in ScanType /\ Command!AreWords(AllWords) /\ (~words.started => words.cur = <<>>)
    BY DEF WordsInv
  <2>15. Command!AreWords(AllWords)'
    <3>1. CASE sep
      BY <2>2, <2>4, <2>9, <2>10, <2>14, <3>1, SameWords
    <3>2. CASE ~sep /\ c = Quote /\ words.started
      <4>1. AllWords' = AllWords
        BY <2>4, <3>2 DEF AllWords
      <4> QED
        BY <2>2, <2>9, <2>10, <2>14, <3>2, <4>1, SameWords
    <3>3. CASE ~sep /\ ~words.started
      <4>1. PICK w \in Seq(Command!Chars) : w = words'.cur
        BY <2>4 DEF ScanType
      <4>2. AllWords' = Append(words.args, w) /\ AllWords = words.args /\ words.args \in Seq(Seq(Command!Chars))
        BY <2>4, <2>14, <3>3, <4>1 DEF AllWords, ScanType
      <4>3. Extends(AllWords', AllWords, w)
        BY <4>2, AppendExtends
      <4>4. IF m \in Command!Kept' THEN Len(w) = 1 /\ w[1] = c ELSE Len(w) = 0
        <5>1. CASE c = Quote
          BY <2>4, <2>10, <2>11, <2>14, <3>3, <4>1, <5>1, SMTT(30)
        <5>2. CASE c # Quote
          <6>1. w = Append(<<>>, c) /\ m \in Command!Kept'
            BY <2>4, <2>10, <2>14, <3>3, <4>1, <5>2
          <6> QED
            BY <6>1
        <5> QED
          BY <5>1, <5>2
      <4>5. Command!Begins' = Command!Begins \cup {m}
        BY <2>9, <3>3
      <4> QED
        BY <2>2, <2>3, <2>12, <2>14, <4>3, <4>4, <4>5, OneMoreWord
    <3>4. CASE ~sep /\ c # Quote /\ words.started
      <4>1. /\ words.args \in Seq(Seq(Command!Chars)) /\ words.cur \in Seq(Command!Chars)
            /\ words'.cur = Append(words.cur, c) /\ Append(words.cur, c) \in Seq(Command!Chars)
        BY <2>4, <2>14, <3>4 DEF ScanType
      <4>2. AllWords' = Append(words.args, words'.cur) /\ AllWords = Append(words.args, words.cur)
        BY <2>4, <3>4 DEF AllWords
      <4>3. Extends(AllWords, words.args, words.cur) /\ Extends(AllWords', words.args, words'.cur)
        BY <4>1, <4>2, AppendExtends
      <4>4. Extends(words'.cur, words.cur, c)
        BY <4>1, AppendExtends
      <4>5. Command!Begins' = Command!Begins /\ Command!Kept' = Command!Kept \cup {m}
        BY <2>9, <2>10, <3>4
      <4> QED
        BY <2>2, <2>3, <2>12, <2>14, <4>1, <4>3, <4>4, <4>5, LongerWord
    <3> QED
      BY <3>1, <3>2, <3>3, <3>4
  <2> QED
    BY <2>2, <2>4, <2>6, <2>7, <2>13, <2>15 DEF WordsInv
<1> QED
  BY <1>1, <1>2

\* For command lines of any length, ParseCommand returns their words, and an error
\* exactly for an open quote.
THEOREM ReturnsTheWords == Command!Spec => []IsWords
<1>1. Command!Init => WordsInv
  <2> SUFFICES ASSUME Command!Init PROVE WordsInv
    OBVIOUS
  <2>1. input = <<>> /\ words = Command!Start
    BY DEF Command!Init
  <2>2. DOMAIN input = {} /\ Quotes = {} /\ Command!Begins = {} /\ Command!Kept = {} /\ ~InsideWord
    BY <2>1, NoPositions DEF Quotes, Command!Begins, Command!Kept, InsideWord
  <2>3. Cardinality(Quotes) = 0 /\ Command!Cardinality(Command!Begins) = 0
    BY <2>2, FS_EmptySet, SameCount
  <2>4. words \in ScanType /\ AllWords = <<>> /\ ~words.inQuote /\ ~words.started /\ words.cur = <<>>
    BY <2>1, SMTT(30) DEF ScanType, AllWords, Command!Start
  <2>5. Command!AreWords(AllWords)
    BY <2>2, <2>3, <2>4, NoPositions, SMTT(30) DEF Command!AreWords
  <2> QED
    BY <2>1, <2>2, <2>3, <2>4, <2>5 DEF WordsInv
<1>2. WordsInv /\ [Command!Next]_(Command!vars) => WordsInv'
  BY WordsStep
<1>3. WordsInv => IsWords
  <2> SUFFICES ASSUME WordsInv PROVE Command!IsWords
    BY DEF IsWords
  <2>1. words.inQuote <=> Command!Quoted(Len(input) + 1)
    BY QuotedNow DEF WordsInv
  <2>2. CASE words.inQuote
    <3>1. Command!Result(words) = [err |-> TRUE, args |-> <<>>]
      BY <2>2 DEF Command!Result
    <3>2. Command!Quoted(Len(input) + 1) = TRUE
      BY <2>1, <2>2 DEF Command!Quoted
    <3>3. Command!Result(words).err = TRUE
      BY <3>1
    <3> QED
      BY <3>2, <3>3 DEF Command!IsWords
  <2>3. CASE ~words.inQuote
    <3>1. Command!Result(words) = [err |-> FALSE, args |-> AllWords]
      BY <2>3 DEF Command!Result, AllWords
    <3>2. Command!AreWords(AllWords)
      BY DEF WordsInv
    <3>3. Command!Quoted(Len(input) + 1) = FALSE
      BY <2>1, <2>3 DEF Command!Quoted
    <3>4. Command!Result(words).err = FALSE /\ Command!Result(words).args = AllWords
      BY <3>1
    <3> QED
      BY <3>2, <3>3, <3>4 DEF Command!IsWords
  <2> QED
    BY <2>2, <2>3
<1> QED
  BY <1>1, <1>2, <1>3, PTL DEF Command!Spec
==============================================================================
