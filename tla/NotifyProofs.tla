----------------------------- MODULE NotifyProofs -----------------------------
(***************************************************************************)
(* For any number of pushes, lines and plugins, whatever configurations    *)
(* are loaded: notify exits 0 only when the sync plugins have received the *)
(* events of its push, acknowledged pushes reach them in their order, and  *)
(* every plugin is offered what deliverAllAction settles.                  *)
(***************************************************************************)
EXTENDS Notify, TLAPS

\* A delivery in execution has its event and a plugin.
Busy == worker # IdleWorker => worker.ev \in Events /\ worker.todo # <<>>

\* Whatever is on its way to a plugin is in the spool.
Spooled ==
  /\ worker # IdleWorker => spool[worker.ev] # Absent
  /\ \A i \in 1..Len(queue) : spool[queue[i].ev] # Absent
  /\ \A e \in sweep : spool[e] # Absent
  /\ \A p \in Pushes : \A k \in 1..Len(notify[p].ids) : spool[notify[p].ids[k]] # Absent

\* The requests left are some of the push's own; a push that has not begun has done
\* nothing.
Valid ==
  \A p \in Pushes :
    /\ notify[p].todo \subseteq Requests(notify[p].conf, notify[p].ids)
    /\ notify[p].pc = "new" => notify[p] = NewNotify
    /\ notify[p].pc = "spool" => notify[p].todo = {}
    /\ notify[p].pc = "ok" => notify[p].todo = {}

\* The process n waits for the answer to this delivery, or has failed.
Awaits(n, plugin, e) ==
  \/ n.pc = "failed"
  \/ n.pc = "wait" /\ n.now \in n.todo /\ plugin = n.conf[n.now[1]] /\ e = n.ids[n.now[2]]

\* A delivery that is queued or in execution for a push is the one it waits for,
\* unless it has failed; there is no other one.
Own ==
  /\ worker.for # None =>
       Len(worker.todo) = 1 /\ Awaits(notify[worker.for], Head(worker.todo), worker.ev)
  /\ \A i \in 1..Len(queue) : queue[i].for # None =>
       /\ queue[i].for # worker.for /\ queue[i].plugin # None
       /\ Awaits(notify[queue[i].for], queue[i].plugin, queue[i].ev)
  /\ \A i, j \in 1..Len(queue) : queue[i].for # None /\ queue[i].for = queue[j].for => i = j

\* A plugin has answered the event, or filters the repository out.
Received(h, plugin, e) == plugin \in Filtered \/ e \in Range(h[plugin])

\* The requests that process n has behind it have been answered.
Answers(n, h) ==
  n.pc \in {"post", "wait", "ok"} =>
    \A r \in Requests(n.conf, n.ids) \ n.todo : Received(h, n.conf[r[1]], n.ids[r[2]])

Served == \A p \in Pushes : Answers(notify[p], got)

Inv == TypeOK /\ Busy /\ Spooled /\ Valid /\ Own /\ Served

-----------------------------------------------------------------------------
(* Types *)

\* The empty list has no places and no elements.
LEMMA EmptyList == DOMAIN <<>> = {} /\ 1..Len(<<>>) = {} /\ Range(<<>>) = {}
<1>1. DOMAIN <<>> = {} /\ Len(<<>>) = 0
  OBVIOUS
<1>2. 1..0 = {}
  OBVIOUS
<1> QED
  BY <1>1, <1>2 DEF Range

\* A push that has not begun has no events.
LEMMA NewIsEmpty == NewNotify.ids = <<>>
BY DEF NewNotify, Process

\* The elements of a list are of its type.
LEMMA ListElements == ASSUME NEW S, NEW s \in Seq(S) PROVE Range(s) \subseteq S
<1>1. \A i \in DOMAIN s : s[i] \in S
  OBVIOUS
<1> QED
  BY <1>1 DEF Range

\* A step that replaces the process of one push.
LEMMA NotifyUpdate ==
  ASSUME TypeOK, NEW p \in Pushes, NEW n \in NotifyType, Len(n.ids) + n.left <= MaxLines
  PROVE  /\ [notify EXCEPT ![p] = n] \in [Pushes -> NotifyType]
         /\ \A q \in Pushes : Len([notify EXCEPT ![p] = n][q].ids) + [notify EXCEPT ![p] = n][q].left <= MaxLines
BY DEF TypeOK

\* The permanent plugins are plugins.
LEMMA PermanentPlugins == Permanent \subseteq Plugins
BY DEF Permanent

\* The constant processes and slots have their types.
LEMMA ConstantTypes ==
  ASSUME ConstantsOK
  PROVE  /\ NewNotify \in NotifyType /\ Failed \in NotifyType /\ IdleWorker \in WorkerType
         /\ Len(NewNotify.ids) + NewNotify.left <= MaxLines
         /\ Len(Failed.ids) + Failed.left <= MaxLines
         /\ NewRecord \in Slot /\ Absent \in Slot
<1>1. <<>> \in Seq(Events) /\ <<>> \in Seq(Plugins) /\ Len(<<>>) = 0
  OBVIOUS
<1>2. 0 \in 0..MaxLines /\ 0 + 0 <= MaxLines
  BY DEF ConstantsOK
<1>3. /\ NewNotify \in NotifyType /\ Failed \in NotifyType /\ IdleWorker \in WorkerType
  BY <1>1, <1>2 DEF Process, NewNotify, Failed, NotifyType, IdleWorker, WorkerType
<1>4. Len(NewNotify.ids) + NewNotify.left <= MaxLines /\ Len(Failed.ids) + Failed.left <= MaxLines
  BY <1>1, <1>2 DEF Process, NewNotify, Failed
<1>5. NewRecord \in Slot /\ Absent \in Slot
  BY DEF NewRecord, Absent, Slot, Record, State, RetryTime
<1> QED
  BY <1>3, <1>4, <1>5

\* A process has a list of plugins and one of events.
LEMMA ProcessTypes ==
  ASSUME ConstantsOK, TypeOK, NEW p \in Pushes
  PROVE  /\ notify[p].conf \in Seq(Plugins) /\ notify[p].ids \in Seq(Events)
         /\ notify[p].todo \subseteq Nat \X Nat
<1>1. notify[p] \in NotifyType
  BY DEF TypeOK
<1>2. notify[p].conf \in {<<>>} \cup Configs /\ notify[p].ids \in Seq(Events)
  BY <1>1 DEF NotifyType
<1>3. notify[p].todo \subseteq Nat \X Nat
  BY <1>1 DEF NotifyType
<1>4. <<>> \in Seq(Plugins)
  OBVIOUS
<1>5. notify[p].conf \in Seq(Plugins)
  BY <1>2, <1>4 DEF ConstantsOK
<1> QED
  BY <1>2, <1>3, <1>5

\* What the spool does to a record leaves a record.
LEMMA SlotTypes ==
  ASSUME NEW rec \in Slot, rec # Absent
  PROVE  /\ WithState(rec, "dead") \in Record /\ WithState(rec, "delivered") \in Record
         /\ WithFailure(rec) \in Record /\ Arrived(rec) \in Record
<1>1. rec \in Record
  BY DEF Slot
<1>2. WithState(rec, "dead") \in Record /\ WithState(rec, "delivered") \in Record
  BY <1>1 DEF Record, State, WithState
<1>3. Arrived(rec) \in Record
  BY <1>1 DEF Record, RetryTime, Arrived
<1>4. WithFailure(rec) \in Record
  <2>1. rec.attempts + 1 \in Nat
    BY <1>1 DEF Record
  <2>2. [rec EXCEPT !.attempts = rec.attempts + 1, !.next = "later"] \in Record
    BY <1>1, <2>1 DEF Record, RetryTime
  <2>3. [state |-> "dead", attempts |-> rec.attempts + 1, next |-> "none"] \in Record
    BY <2>1 DEF Record, State, RetryTime
  <2> QED
    BY <2>2, <2>3 DEF WithFailure
<1> QED
  BY <1>2, <1>3, <1>4

\* A record is not Absent.
LEMMA RecordPresent == \A rec \in Record : rec # Absent /\ rec \in Slot
BY DEF Record, State, Absent, Slot

-----------------------------------------------------------------------------
(* The steps of notify *)

\* A process that may take the place of notify[p]: its own facts.
Sound(n) ==
  /\ n \in NotifyType /\ Len(n.ids) + n.left <= MaxLines
  /\ n.todo \subseteq Requests(n.conf, n.ids)
  /\ n.pc = "new" => n = NewNotify
  /\ n.pc \in {"spool", "ok"} => n.todo = {}

\* Every process is such a one.
LEMMA AllSound == ASSUME TypeOK, Valid, NEW p \in Pushes PROVE Sound(notify[p])
BY DEF TypeOK, Valid, Sound

\* A process that has failed is one, and owes nothing.
LEMMA FailedSound ==
  ASSUME ConstantsOK
  PROVE  Sound(Failed) /\ Failed.pc = "failed" /\ Failed.ids = <<>> /\ \A h : Answers(Failed, h)
<1>1. Failed.pc = "failed" /\ Failed.ids = <<>> /\ Failed.todo = {}
  BY DEF Process, Failed
<1> QED
  BY <1>1, ConstantTypes DEF Sound, Answers

\* The spool only gains records.
Gains ==
  /\ spool' \in [Events -> Slot]
  /\ \A e \in Events : spool[e] # Absent => spool'[e] # Absent

\* A push that nobody delivers for is free to go on, and any push to fail.
LEMMA FrontKeeps ==
  ASSUME ConstantsOK, Inv, NEW p \in Pushes, NEW n, Sound(n),
         notify' = [notify EXCEPT ![p] = n],
         notify[p].pc \notin {"wait", "failed"} \/ n = Failed,
         Gains, \A k \in 1..Len(n.ids) : spool'[n.ids[k]] # Absent,
         Answers(n, got),
         UNCHANGED <<queue, worker, sweep, got, live>>,
         offered' \in [Events -> SUBSET Plugins], before' \subseteq Pushes \X Pushes
  PROVE  Inv'
<1>t. /\ notify \in [Pushes -> NotifyType] /\ queue \in Seq(Action) /\ worker \in WorkerType
      /\ sweep \subseteq Events
  BY DEF Inv, TypeOK
<1>n. notify'[p] = n /\ \A q \in Pushes \ {p} : notify'[q] = notify[q]
  BY <1>t
<1>s. \A q \in Pushes : Sound(notify'[q])
  BY <1>n, AllSound DEF Inv
<1>1. TypeOK'
  <2>1. n \in NotifyType /\ Len(n.ids) + n.left <= MaxLines
    BY DEF Sound
  <2>2. /\ notify' \in [Pushes -> NotifyType]
        /\ \A q \in Pushes : Len(notify'[q].ids) + notify'[q].left <= MaxLines
    BY <2>1, NotifyUpdate DEF Inv
  <2> QED
    BY <2>2 DEF Inv, TypeOK, Gains
<1>2. Busy'
  BY DEF Inv, Busy
<1>3. Valid'
  BY <1>s DEF Sound, Valid
<1>4. Spooled'
  <2>1. worker # IdleWorker => spool'[worker.ev] # Absent
    BY DEF Inv, Spooled, Busy, Gains
  <2>2. \A i \in 1..Len(queue) : spool'[queue[i].ev] # Absent
    <3>1. \A i \in 1..Len(queue) : queue[i] \in Action
      BY <1>t
    <3> QED
      BY <3>1 DEF Inv, Spooled, Gains, Action
  <2>3. \A e \in sweep : spool'[e] # Absent
    BY <1>t DEF Inv, Spooled, Gains
  <2>4. ASSUME NEW q \in Pushes, NEW k \in 1..Len(notify'[q].ids) PROVE spool'[notify'[q].ids[k]] # Absent
    <3>1. CASE q = p
      BY <1>n, <2>4, <3>1
    <3>2. CASE q # p
      <4>1. notify'[q] = notify[q] /\ notify[q].ids \in Seq(Events)
        BY <1>n, <1>t, <3>2 DEF NotifyType
      <4>2. notify[q].ids[k] \in Events /\ spool[notify[q].ids[k]] # Absent
        BY <2>4, <4>1 DEF Inv, Spooled
      <4> QED
        BY <4>1, <4>2 DEF Gains
    <3> QED
      BY <3>1, <3>2
  <2> QED
    BY <2>1, <2>2, <2>3, <2>4 DEF Spooled
<1>5. Own'
  <2>1. ASSUME NEW q \in Pushes, NEW g, NEW e, Awaits(notify[q], g, e) PROVE Awaits(notify'[q], g, e)
    <3>1. CASE q # p
      BY <1>n, <2>1, <3>1
    <3>2. CASE q = p
      <4>1. notify[p].pc \in {"wait", "failed"}
        BY <2>1, <3>2 DEF Awaits
      <4> QED
        BY <1>n, <3>2, <4>1, FailedSound DEF Awaits
    <3> QED
      BY <3>1, <3>2
  <2>2. worker.for # None => worker.for \in Pushes
    BY <1>t DEF WorkerType
  <2>3. \A i \in 1..Len(queue) : queue[i].for # None => queue[i].for \in Pushes
    <3>1. \A i \in 1..Len(queue) : queue[i] \in Action
      BY <1>t
    <3> QED
      BY <3>1 DEF Action
  <2>4. worker.for # None =>
          Len(worker.todo) = 1 /\ Awaits(notify'[worker.for], Head(worker.todo), worker.ev)
    BY <2>1, <2>2 DEF Inv, Own
  <2>5. \A i \in 1..Len(queue) : queue[i].for # None =>
          /\ queue[i].for # worker.for /\ queue[i].plugin # None
          /\ Awaits(notify'[queue[i].for], queue[i].plugin, queue[i].ev)
    BY <2>1, <2>3 DEF Inv, Own
  <2>6. \A i, j \in 1..Len(queue) : queue[i].for # None /\ queue[i].for = queue[j].for => i = j
    BY DEF Inv, Own
  <2> QED
    BY <2>4, <2>5, <2>6 DEF Own
<1>6. Served'
  BY <1>n DEF Inv, Served
<1> QED
  BY <1>1, <1>2, <1>3, <1>4, <1>5, <1>6 DEF Inv

\* notify may fail at any time.
LEMMA FailKeeps ==
  ASSUME ConstantsOK, Inv, NEW p \in Pushes, Fail(p), Gains,
         UNCHANGED <<queue, worker, sweep, got, live, before>>,
         offered' \in [Events -> SUBSET Plugins]
  PROVE  Inv'
<1>1. before' \subseteq Pushes \X Pushes
  BY DEF Inv, TypeOK
<1>2. \A k \in 1..Len(Failed.ids) : spool'[Failed.ids[k]] # Absent
  BY FailedSound
<1>3. notify' = [notify EXCEPT ![p] = Failed] /\ Sound(Failed) /\ Answers(Failed, got)
  BY FailedSound DEF Fail
<1> QED
  BY <1>1, <1>2, <1>3, FrontKeeps

\* newNotifier keeps the invariant: there are no events and no requests yet.
LEMMA StartKeeps == ASSUME ConstantsOK, Inv, NEW p \in Pushes, Start(p) PROVE Inv'
<1>1. PICK conf \in Configs, left \in 0..MaxLines :
        notify' = [notify EXCEPT ![p] = Process("spool", conf, left)]
  BY DEF Start
<1> DEFINE n == Process("spool", conf, left)
<1>2. /\ n = [pc |-> "spool", conf |-> conf, left |-> left, ids |-> <<>>, todo |-> {}, now |-> None]
      /\ n.pc = "spool" /\ n.ids = <<>> /\ n.todo = {} /\ n.left = left
  BY DEF Process
<1>n. notify' = [notify EXCEPT ![p] = n]
  BY <1>1
<1> HIDE DEF n
<1>3. Sound(n) /\ Answers(n, got)
  <2>1. <<>> \in Seq(Events) /\ Len(<<>>) = 0 /\ 0 + left <= MaxLines
    BY <1>1 DEF ConstantsOK
  <2>2. n \in NotifyType
    BY <1>1, <1>2, <2>1 DEF NotifyType
  <2> QED
    BY <1>2, <2>1, <2>2 DEF Sound, Answers
<1>4. notify[p].pc = "new" /\ UNCHANGED <<queue, worker, sweep, got, live, spool, offered>>
  BY DEF Start, At, serve
<1>5. Gains /\ offered' \in [Events -> SUBSET Plugins]
  BY <1>4 DEF Inv, TypeOK, Gains
<1>6. before' \subseteq Pushes \X Pushes
  BY DEF Start, Inv, TypeOK
<1>7. \A k \in 1..Len(n.ids) : spool'[n.ids[k]] # Absent
  BY <1>2
<1> QED
  BY <1>3, <1>4, <1>5, <1>6, <1>7, <1>n, FrontKeeps

\* A line is spooled before its event counts as the push's own.
LEMMA SpoolLineKeeps == ASSUME ConstantsOK, Inv, NEW p \in Pushes, SpoolLine(p) PROVE Inv'
<1> DEFINE n == [notify[p] EXCEPT !.left = notify[p].left - 1]
           e == <<p, Len(n.ids) + 1>>
<1>t. notify[p] \in NotifyType /\ Len(notify[p].ids) + notify[p].left <= MaxLines
  BY DEF Inv, TypeOK
<1>p. notify[p].pc = "spool" /\ notify[p].left > 0 /\ notify[p].todo = {}
  BY DEF SpoolLine, At, Inv, Valid
<1>u. /\ UNCHANGED <<queue, worker, sweep, got, live, before, offered>>
      /\ offered' \in [Events -> SUBSET Plugins] /\ before' \subseteq Pushes \X Pushes
  BY DEF SpoolLine, history, serve, Inv, TypeOK
<1>n. /\ n \in NotifyType /\ n.pc = "spool" /\ n.todo = {} /\ n.ids = notify[p].ids
      /\ Len(n.ids) + n.left < MaxLines
  <2>1. /\ notify[p].left \in Nat /\ notify[p].left - 1 \in 0..MaxLines
        /\ Len(notify[p].ids) \in Nat /\ Len(notify[p].ids) + (notify[p].left - 1) < MaxLines
    <3>1. notify[p].left \in 0..MaxLines /\ notify[p].ids \in Seq(Events)
      BY <1>t DEF NotifyType
    <3>2. Len(notify[p].ids) \in Nat /\ MaxLines \in Nat
      BY <3>1 DEF ConstantsOK
    <3>3. PICK l \in Nat, k \in Nat : l = notify[p].left /\ k = Len(notify[p].ids)
      BY <3>1, <3>2
    <3>4. l > 0 /\ k + l <= MaxLines
      BY <1>t, <1>p, <3>3
    <3>5. l - 1 \in 0..MaxLines /\ k + (l - 1) < MaxLines
      BY <3>4 DEF ConstantsOK
    <3> QED
      BY <3>3, <3>5
  <2>2. n.left = notify[p].left - 1 /\ n.ids = notify[p].ids /\ n.pc = "spool" /\ n.todo = {}
    BY <1>t, <1>p DEF NotifyType
  <2>3. n \in NotifyType
    BY <1>t, <2>1 DEF NotifyType
  <2> QED
    BY <2>1, <2>2, <2>3
<1>1. CASE notify' = [notify EXCEPT ![p] = n] /\ UNCHANGED spool
  <2>1. Sound(n) /\ Answers(n, got)
    <3>1. Len(n.ids) + n.left <= MaxLines
      <4>1. Len(n.ids) \in Nat /\ n.left \in 0..MaxLines /\ MaxLines \in Nat
        BY <1>n DEF NotifyType, ConstantsOK
      <4> QED
        BY <1>n, <4>1
    <3> QED
      BY <1>n, <3>1 DEF Sound, Answers
  <2>2. Gains
    BY <1>1 DEF Gains, Inv, TypeOK
  <2>3. \A k \in 1..Len(n.ids) : spool'[n.ids[k]] # Absent
    BY <1>1, <1>n DEF Inv, Spooled
  <2> HIDE DEF n
  <2> QED
    BY <1>1, <1>p, <1>u, <2>1, <2>2, <2>3, FrontKeeps
<1>2. CASE notify' = [notify EXCEPT ![p] = [n EXCEPT !.ids = Append(n.ids, e)]]
           /\ spool' = [spool EXCEPT ![e] = NewRecord]
  <2> DEFINE m == [n EXCEPT !.ids = Append(n.ids, e)]
  <2>1. /\ Len(n.ids) \in Nat /\ n.left \in 0..MaxLines /\ MaxLines \in Nat /\ n.ids \in Seq(Events)
    BY <1>n DEF NotifyType, ConstantsOK
  <2>2. e \in Events
    <3>1. Len(n.ids) + 1 \in 1..MaxLines
      BY <1>n, <2>1
    <3> QED
      BY <3>1 DEF Events
  <2> HIDE DEF e
  <2>3. /\ Append(n.ids, e) \in Seq(Events) /\ Len(Append(n.ids, e)) = Len(n.ids) + 1
        /\ \A k \in 1..Len(n.ids) : Append(n.ids, e)[k] = n.ids[k]
        /\ Append(n.ids, e)[Len(n.ids) + 1] = e
    BY <2>1, <2>2
  <2>4. m \in NotifyType /\ m.pc = "spool" /\ m.todo = {} /\ m.ids = Append(n.ids, e) /\ m.left = n.left
    BY <1>n, <2>3 DEF NotifyType
  <2>5. Len(m.ids) + m.left <= MaxLines
    BY <1>n, <2>1, <2>3, <2>4
  <2>6. Sound(m) /\ Answers(m, got)
    BY <2>4, <2>5 DEF Sound, Answers
  <2>7. Gains /\ spool'[e] # Absent
    BY <1>2, <2>2, ConstantTypes DEF Gains, Inv, TypeOK, NewRecord, Absent
  <2>8. \A k \in 1..Len(m.ids) : spool'[m.ids[k]] # Absent
    <3> SUFFICES ASSUME NEW k \in 1..(Len(n.ids) + 1) PROVE spool'[Append(n.ids, e)[k]] # Absent
      BY <2>3, <2>4
    <3>1. CASE k = Len(n.ids) + 1
      BY <2>3, <2>7, <3>1
    <3>2. CASE k # Len(n.ids) + 1
      <4>1. k \in 1..Len(n.ids)
        BY <2>1, <3>2
      <4>2. spool[n.ids[k]] # Absent /\ n.ids[k] \in Events
        BY <1>n, <2>1, <4>1 DEF Inv, Spooled
      <4> QED
        BY <2>3, <2>7, <4>1, <4>2 DEF Gains
    <3> QED
      BY <3>1, <3>2
  <2>9. notify' = [notify EXCEPT ![p] = m]
    BY <1>2
  <2> HIDE DEF m
  <2> QED
    BY <1>p, <1>u, <2>6, <2>7, <2>8, <2>9, FrontKeeps
<1>3. CASE Fail(p) /\ UNCHANGED spool
  <2>1. Gains
    BY <1>3 DEF Gains, Inv, TypeOK
  <2> QED
    BY <1>3, <1>u, <2>1, FailKeeps
<1> QED
  BY <1>1, <1>2, <1>3 DEF SpoolLine

\* The bundle is answered: every request of the push is still to be made.
LEMMA BundleKeeps == ASSUME ConstantsOK, Inv, NEW p \in Pushes, Bundle(p) PROVE Inv'
<1>u. /\ UNCHANGED <<queue, worker, sweep, got, live, before, spool, offered>>
      /\ offered' \in [Events -> SUBSET Plugins] /\ before' \subseteq Pushes \X Pushes /\ Gains
  BY DEF Bundle, history, serve, Inv, TypeOK, Gains
<1>1. CASE Fail(p)
  BY <1>1, <1>u, FailKeeps
<1>2. CASE notify' = [notify EXCEPT ![p] =
             [notify[p] EXCEPT !.pc = "post", !.todo = Requests(notify[p].conf, notify[p].ids)]]
  <2> DEFINE n == [notify[p] EXCEPT !.pc = "post", !.todo = Requests(notify[p].conf, notify[p].ids)]
  <2>1. /\ notify[p] \in NotifyType /\ notify[p].pc = "spool"
        /\ Len(notify[p].ids) + notify[p].left <= MaxLines
    BY DEF Inv, TypeOK, Bundle, At
  <2>2. Requests(notify[p].conf, notify[p].ids) \subseteq Nat \X Nat
    <3>1. notify[p].conf \in Seq(Plugins) /\ notify[p].ids \in Seq(Events)
      BY ProcessTypes DEF Inv
    <3>2. DOMAIN notify[p].conf \subseteq Nat /\ DOMAIN notify[p].ids \subseteq Nat
      BY <3>1
    <3> QED
      BY <3>2 DEF Requests
  <2>3. /\ n \in NotifyType /\ n.pc = "post" /\ n.conf = notify[p].conf /\ n.ids = notify[p].ids
        /\ n.todo = Requests(n.conf, n.ids) /\ n.left = notify[p].left
    BY <2>1, <2>2 DEF NotifyType
  <2>4. notify' = [notify EXCEPT ![p] = n]
    BY <1>2
  <2> HIDE DEF n
  <2>5. Sound(n) /\ Answers(n, got)
    BY <2>1, <2>3 DEF Sound, Answers
  <2>6. \A k \in 1..Len(n.ids) : spool'[n.ids[k]] # Absent
    BY <1>u, <2>3 DEF Inv, Spooled
  <2> QED
    BY <1>u, <2>1, <2>4, <2>5, <2>6, FrontKeeps
<1> QED
  BY <1>1, <1>2 DEF Bundle

\* notify exits when no request is left.
LEMMA ExitKeeps == ASSUME ConstantsOK, Inv, NEW p \in Pushes, Exit(p) PROVE Inv'
<1> DEFINE n == [notify[p] EXCEPT !.pc = "ok"]
<1>u. /\ UNCHANGED <<queue, worker, sweep, got, live, before, spool, offered>>
      /\ offered' \in [Events -> SUBSET Plugins] /\ before' \subseteq Pushes \X Pushes /\ Gains
  BY DEF Exit, history, serve, Inv, TypeOK, Gains
<1>1. /\ notify[p] \in NotifyType /\ notify[p].pc = "post" /\ notify[p].todo = {}
      /\ Len(notify[p].ids) + notify[p].left <= MaxLines
  BY DEF Inv, TypeOK, Exit, At
<1>2. /\ n \in NotifyType /\ n.pc = "ok" /\ n.conf = notify[p].conf /\ n.ids = notify[p].ids
      /\ n.todo = {} /\ n.left = notify[p].left
  BY <1>1 DEF NotifyType
<1>3. notify' = [notify EXCEPT ![p] = n]
  BY DEF Exit, Goto, Inv, TypeOK
<1> HIDE DEF n
<1>4. Sound(n)
  BY <1>1, <1>2 DEF Sound
<1>5. Answers(n, got)
  BY <1>1, <1>2 DEF Answers, Inv, Served
<1>6. \A k \in 1..Len(n.ids) : spool'[n.ids[k]] # Absent
  BY <1>u, <1>2 DEF Inv, Spooled
<1> QED
  BY <1>u, <1>1, <1>3, <1>4, <1>5, <1>6, FrontKeeps

\* notify gives up; the delivery it waited for stays where it is.
LEMMA TimeoutKeeps == ASSUME ConstantsOK, Inv, NEW p \in Pushes, Timeout(p) PROVE Inv'
<1>1. /\ UNCHANGED <<queue, worker, sweep, got, live, before, spool, offered>> /\ Fail(p)
      /\ offered' \in [Events -> SUBSET Plugins] /\ Gains
  BY DEF Timeout, history, serve, Inv, TypeOK, Gains
<1> QED
  BY <1>1, FailKeeps

\* A request that is left has a plugin and an event.
LEMMA RequestTypes ==
  ASSUME ConstantsOK, Inv, NEW p \in Pushes, NEW r \in notify[p].todo
  PROVE  /\ r \in Nat \X Nat
         /\ notify[p].conf[r[1]] \in Plugins /\ notify[p].conf[r[1]] \in Sync
         /\ notify[p].ids[r[2]] \in Events /\ spool[notify[p].ids[r[2]]] # Absent
<1>1. /\ notify[p].conf \in Seq(Plugins) /\ notify[p].ids \in Seq(Events)
      /\ notify[p].todo \subseteq Nat \X Nat
  BY ProcessTypes DEF Inv
<1>2. r[1] \in DOMAIN notify[p].conf /\ notify[p].conf[r[1]] \in Sync /\ r[2] \in DOMAIN notify[p].ids
  BY DEF Inv, Valid, Requests
<1>3. r[2] \in 1..Len(notify[p].ids)
  BY <1>1, <1>2
<1>4. spool[notify[p].ids[r[2]]] # Absent
  BY <1>3 DEF Inv, Spooled
<1> QED
  BY <1>1, <1>2, <1>4

\* The deliveries after one more is queued.
LEMMA QueueAppend ==
  ASSUME TypeOK, NEW a \in Action, Len(queue) < Buffer, ConstantsOK
  PROVE  /\ Append(queue, a) \in Seq(Action) /\ Len(Append(queue, a)) <= Buffer
         /\ \A i \in 1..Len(Append(queue, a)) :
              \/ i \in 1..Len(queue) /\ Append(queue, a)[i] = queue[i]
              \/ i = Len(queue) + 1 /\ Append(queue, a)[i] = a
<1>1. queue \in Seq(Action) /\ Len(queue) \in Nat /\ Buffer \in Nat
  BY DEF TypeOK, ConstantsOK
<1>2. /\ Append(queue, a) \in Seq(Action) /\ Len(Append(queue, a)) = Len(queue) + 1
      /\ \A i \in 1..Len(queue) : Append(queue, a)[i] = queue[i]
      /\ Append(queue, a)[Len(queue) + 1] = a
  BY <1>1
<1>3. Len(Append(queue, a)) <= Buffer
  BY <1>1, <1>2
<1>4. \A i \in 1..Len(Append(queue, a)) : i \in 1..Len(queue) \/ i = Len(queue) + 1
  BY <1>1, <1>2
<1> QED
  BY <1>2, <1>3, <1>4

\* A delivery is queued for a push that waited for none, and is now waited for.
LEMMA QueuedKeeps ==
  ASSUME ConstantsOK, Inv, NEW p \in Pushes, notify[p].pc = "post", NEW r \in notify[p].todo,
         Len(queue) < Buffer,
         queue' = Append(queue, Act(notify[p].ids[r[2]], notify[p].conf[r[1]], p)),
         notify' = [notify EXCEPT ![p] = [notify[p] EXCEPT !.pc = "wait", !.now = r]],
         UNCHANGED <<spool, offered, live, worker, sweep, got, before>>
  PROVE  Inv'
<1>1. PICK e \in Events, g \in Plugins : e = notify[p].ids[r[2]] /\ g = notify[p].conf[r[1]]
  BY RequestTypes
<1>2. PICK a : a = Act(e, g, p)
  OBVIOUS
<1>3. a \in Action /\ a.ev = e /\ a.plugin = g /\ a.for = p /\ g # None /\ p # None
  BY <1>1, <1>2 DEF Act, Action, ConstantsOK
<1>4. PICK n : n = [notify[p] EXCEPT !.pc = "wait", !.now = r]
  OBVIOUS
<1>t. notify[p] \in NotifyType /\ Len(notify[p].ids) + notify[p].left <= MaxLines /\ r \in Nat \X Nat
  BY RequestTypes DEF Inv, TypeOK
<1>5. /\ n \in NotifyType /\ n.pc = "wait" /\ n.now = r /\ n.conf = notify[p].conf
      /\ n.ids = notify[p].ids /\ n.todo = notify[p].todo /\ n.left = notify[p].left
  BY <1>4, <1>t DEF NotifyType
<1>6. /\ notify' = [notify EXCEPT ![p] = n] /\ notify'[p] = n
      /\ \A q \in Pushes : q # p => notify'[q] = notify[q]
  BY <1>4 DEF Inv, TypeOK
<1>7. /\ queue' = Append(queue, a) /\ queue' \in Seq(Action) /\ Len(queue') <= Buffer
      /\ \A i \in 1..Len(queue') :
           \/ i \in 1..Len(queue) /\ queue'[i] = queue[i]
           \/ i = Len(queue) + 1 /\ queue'[i] = a
  <2>1. queue' = Append(queue, a)
    BY <1>1, <1>2
  <2> QED
    BY <1>3, <2>1, QueueAppend DEF Inv
<1>8. TypeOK'
  <2>1. /\ notify' \in [Pushes -> NotifyType]
        /\ \A q \in Pushes : Len(notify'[q].ids) + notify'[q].left <= MaxLines
    BY <1>5, <1>6, <1>t, NotifyUpdate DEF Inv
  <2> QED
    BY <1>7, <2>1 DEF Inv, TypeOK
<1>9. Busy'
  BY DEF Inv, Busy
<1>10. Spooled'
  <2>1. \A i \in 1..Len(queue') : spool'[queue'[i].ev] # Absent
    <3>1. spool[e] # Absent
      BY <1>1, RequestTypes
    <3> QED
      BY <1>3, <1>7, <3>1 DEF Inv, Spooled
  <2>2. \A q \in Pushes : \A k \in 1..Len(notify'[q].ids) : spool'[notify'[q].ids[k]] # Absent
    BY <1>5, <1>6 DEF Inv, Spooled
  <2> QED
    BY <2>1, <2>2 DEF Inv, Spooled
<1>11. Valid'
  <2>1. notify'[p].todo \subseteq Requests(notify'[p].conf, notify'[p].ids) /\ notify'[p].pc = "wait"
    BY <1>5, <1>6 DEF Inv, Valid
  <2> QED
    BY <1>6, <2>1 DEF Inv, Valid
<1>12. Own'
  <2>1. worker.for # p /\ \A i \in 1..Len(queue) : queue[i].for # p
    BY <1>3 DEF Inv, Own, Awaits
  <2>2. worker.for # None => worker.for \in Pushes
    BY DEF Inv, TypeOK, WorkerType
  <2>3. \A i \in 1..Len(queue) : queue[i].for # None => queue[i].for \in Pushes
    <3>1. \A i \in 1..Len(queue) : queue[i] \in Action
      BY DEF Inv, TypeOK
    <3> QED
      BY <3>1 DEF Action
  <2>4. worker'.for # None =>
          Len(worker'.todo) = 1 /\ Awaits(notify'[worker'.for], Head(worker'.todo), worker'.ev)
    BY <1>6, <2>1, <2>2 DEF Inv, Own
  <2>5. Awaits(n, g, e)
    BY <1>1, <1>5 DEF Awaits
  <2>6. ASSUME NEW i \in 1..Len(queue'), queue'[i].for # None
        PROVE  /\ queue'[i].for # worker'.for /\ queue'[i].plugin # None
               /\ Awaits(notify'[queue'[i].for], queue'[i].plugin, queue'[i].ev)
    <3>1. CASE i \in 1..Len(queue) /\ queue'[i] = queue[i]
      BY <1>6, <2>1, <2>3, <2>6, <3>1 DEF Inv, Own
    <3>2. CASE queue'[i] = a
      BY <1>3, <1>6, <2>1, <2>5, <3>2
    <3> QED
      BY <1>7, <3>1, <3>2
  <2>7. \A i, j \in 1..Len(queue') : queue'[i].for # None /\ queue'[i].for = queue'[j].for => i = j
    BY <1>3, <1>7, <2>1 DEF Inv, Own
  <2> QED
    BY <2>4, <2>6, <2>7 DEF Own
<1>13. Served'
  <2>1. Answers(n, got)
    BY <1>5 DEF Inv, Served, Answers
  <2> QED
    BY <1>6, <2>1 DEF Inv, Served
<1> QED
  BY <1>8, <1>9, <1>10, <1>11, <1>12, <1>13 DEF Inv

\* A request for a plugin that is not live fails, and its event is dead-lettered; one
\* that finds the channel full fails.
LEMMA DeliverKeeps == ASSUME ConstantsOK, Inv, NEW p \in Pushes, Deliver(p) PROVE Inv'
<1>1. PICK r \in notify[p].todo :
        LET plugin == notify[p].conf[r[1]]
            e == notify[p].ids[r[2]]
        IN  \/ /\ \E slot \in {WithState(spool[e], "dead"), spool[e]} : spool' = [spool EXCEPT ![e] = slot]
               /\ offered' = Excuse(e)
               /\ Fail(p)
               /\ UNCHANGED queue
            \/ /\ plugin \in Listed(live) /\ Len(queue) < Buffer
               /\ queue' = Append(queue, Act(e, plugin, p))
               /\ notify' = [notify EXCEPT ![p] = [notify[p] EXCEPT !.pc = "wait", !.now = r]]
               /\ UNCHANGED <<spool, offered>>
            \/ Fail(p) /\ UNCHANGED <<spool, offered, queue>>
  BY DEF Deliver, Inv, TypeOK
<1>u. notify[p].pc = "post" /\ UNCHANGED <<live, worker, sweep, got, before>>
  BY DEF Deliver, At
<1>2. PICK e \in Events : e = notify[p].ids[r[2]] /\ spool[e] # Absent
  BY <1>1, RequestTypes
<1>3. CASE /\ \E slot \in {WithState(spool[e], "dead"), spool[e]} : spool' = [spool EXCEPT ![e] = slot]
           /\ offered' = Excuse(e) /\ Fail(p) /\ UNCHANGED queue
  <2>1. WithState(spool[e], "dead") \in Record /\ spool[e] \in Record
    BY <1>2, SlotTypes DEF Inv, TypeOK, Slot
  <2>2. Gains
    <3>1. PICK slot \in Record : spool' = [spool EXCEPT ![e] = slot]
      BY <1>3, <2>1
    <3>2. slot \in Slot /\ slot # Absent
      BY RecordPresent
    <3> QED
      BY <1>2, <3>1, <3>2 DEF Gains, Inv, TypeOK
  <2>3. offered' \in [Events -> SUBSET Plugins]
    BY <1>3, PermanentPlugins DEF Excuse, Inv, TypeOK
  <2> QED
    BY <1>3, <1>u, <2>2, <2>3, FailKeeps
<1>4. CASE Fail(p) /\ UNCHANGED <<spool, offered, queue>>
  <2>1. Gains /\ offered' \in [Events -> SUBSET Plugins]
    BY <1>4 DEF Gains, Inv, TypeOK
  <2> QED
    BY <1>4, <1>u, <2>1, FailKeeps
<1>5. CASE /\ Len(queue) < Buffer
           /\ queue' = Append(queue, Act(notify[p].ids[r[2]], notify[p].conf[r[1]], p))
           /\ notify' = [notify EXCEPT ![p] = [notify[p] EXCEPT !.pc = "wait", !.now = r]]
           /\ UNCHANGED <<spool, offered>>
  BY <1>1, <1>5, <1>u, QueuedKeeps
<1> QED
  BY <1>1, <1>2, <1>3, <1>4, <1>5

-----------------------------------------------------------------------------
(* The steps of serve *)

\* What is in the spool is an event.
LEMMA SpooledEvents ==
  ASSUME Inv
  PROVE  /\ worker # IdleWorker => worker.ev \in Events
         /\ \A i \in 1..Len(queue) : queue[i].ev \in Events
         /\ \A p \in Pushes : \A k \in 1..Len(notify[p].ids) : notify[p].ids[k] \in Events
<1>1. \A i \in 1..Len(queue) : queue[i] \in Action
  BY DEF Inv, TypeOK
<1>2. \A p \in Pushes : notify[p].ids \in Seq(Events)
  BY DEF Inv, TypeOK, NotifyType
<1> QED
  BY <1>1, <1>2 DEF Inv, Busy, Action

\* Whatever plugins are live, the processes and deliveries stay as they are.
LEMMA ReloadKeeps == ASSUME Inv, Reload PROVE Inv'
<1>1. TypeOK'
  BY DEF Reload, history, Inv, TypeOK
<1>2. Busy' /\ Spooled' /\ Valid' /\ Own' /\ Served'
  BY DEF Reload, history, Inv, Busy, Spooled, Valid, Own, Served
<1> QED
  BY <1>1, <1>2 DEF Inv

\* A retry time that arrives changes one record.
LEMMA RetryTimeKeeps == ASSUME Inv, NEW e \in Events, RetryTimeArrives(e) PROVE Inv'
<1>1. UNCHANGED <<live, notify, queue, worker, sweep, got, offered, before>>
  BY DEF RetryTimeArrives, history, serve
<1>2. spool[e] # Absent
  BY DEF RetryTimeArrives, Absent
<1>3. Arrived(spool[e]) \in Record
  BY <1>2, SlotTypes DEF Inv, TypeOK
<1>4. /\ spool' \in [Events -> Slot]
      /\ \A f \in Events : spool[f] # Absent => spool'[f] # Absent
  BY <1>3, RecordPresent DEF RetryTimeArrives, Inv, TypeOK
<1>5. TypeOK'
  BY <1>1, <1>4 DEF Inv, TypeOK
<1>6. Spooled'
  <2>1. worker' # IdleWorker => spool'[worker'.ev] # Absent
    BY <1>1, <1>4, SpooledEvents DEF Inv, Spooled
  <2>2. \A i \in 1..Len(queue') : spool'[queue'[i].ev] # Absent
    BY <1>1, <1>4, SpooledEvents DEF Inv, Spooled
  <2>3. \A f \in sweep' : spool'[f] # Absent
    BY <1>1, <1>4 DEF Inv, Spooled, TypeOK
  <2>4. \A p \in Pushes : \A k \in 1..Len(notify'[p].ids) : spool'[notify'[p].ids[k]] # Absent
    BY <1>1, <1>4, SpooledEvents DEF Inv, Spooled
  <2> QED
    BY <2>1, <2>2, <2>3, <2>4 DEF Spooled
<1>7. Busy' /\ Valid' /\ Own' /\ Served'
  BY <1>1 DEF Inv, Busy, Valid, Own, Served
<1> QED
  BY <1>5, <1>6, <1>7 DEF Inv

\* The sweep lists what is due, and that is in the spool.
LEMMA SweepKeeps == ASSUME Inv, Sweep PROVE Inv'
<1>1. UNCHANGED <<live, notify, queue, worker, spool, got, offered, before>>
  BY DEF Sweep, history
<1>2. sweep' \subseteq Events /\ \A e \in sweep' : spool[e] # Absent
  BY DEF Sweep, Due, Absent
<1>3. TypeOK'
  BY <1>1, <1>2 DEF Inv, TypeOK
<1>4. Spooled'
  BY <1>1, <1>2 DEF Inv, Spooled
<1>5. Busy' /\ Valid' /\ Own' /\ Served'
  BY <1>1 DEF Inv, Busy, Valid, Own, Served
<1> QED
  BY <1>3, <1>4, <1>5 DEF Inv

\* A delivery to all plugins is for no push.
LEMMA RequeueKeeps == ASSUME ConstantsOK, Inv, NEW e \in Events, Requeue(e) PROVE Inv'
<1>1. UNCHANGED <<live, notify, worker, spool, got, offered, before>> /\ sweep' = sweep \ {e} /\ e \in sweep
  BY DEF Requeue, history
<1>2. spool[e] # Absent
  BY <1>1 DEF Inv, Spooled
<1>3. PICK a : a = Act(e, None, None)
  OBVIOUS
<1>4. a \in Action /\ a.ev = e /\ a.for = None
  BY <1>3 DEF Act, Action
<1>5. /\ queue' \in Seq(Action) /\ Len(queue') <= Buffer
      /\ \A i \in 1..Len(queue') :
           \/ i \in 1..Len(queue) /\ queue'[i] = queue[i]
           \/ i = Len(queue) + 1 /\ queue'[i] = a
  <2>1. CASE Len(queue) < Buffer
    <3>1. queue' = Append(queue, a)
      BY <1>3, <2>1 DEF Requeue
    <3> QED
      BY <1>4, <2>1, <3>1, QueueAppend DEF Inv
  <2>2. CASE ~(Len(queue) < Buffer)
    <3>1. queue' = queue
      BY <2>2 DEF Requeue
    <3> QED
      BY <3>1 DEF Inv, TypeOK
  <2> QED
    BY <2>1, <2>2
<1>6. TypeOK'
  BY <1>1, <1>5 DEF Inv, TypeOK
<1>7. Spooled'
  <2>1. \A i \in 1..Len(queue') : spool'[queue'[i].ev] # Absent
    BY <1>1, <1>2, <1>4, <1>5 DEF Inv, Spooled
  <2> QED
    BY <1>1, <2>1 DEF Inv, Spooled
<1>8. Own'
  <2>1. worker'.for # None =>
          Len(worker'.todo) = 1 /\ Awaits(notify'[worker'.for], Head(worker'.todo), worker'.ev)
    BY <1>1 DEF Inv, Own
  <2>2. \A i \in 1..Len(queue') : queue'[i].for # None => i \in 1..Len(queue) /\ queue'[i] = queue[i]
    BY <1>4, <1>5
  <2>3. \A i \in 1..Len(queue') : queue'[i].for # None =>
          /\ queue'[i].for # worker'.for /\ queue'[i].plugin # None
          /\ Awaits(notify'[queue'[i].for], queue'[i].plugin, queue'[i].ev)
    BY <1>1, <2>2 DEF Inv, Own
  <2>4. \A i, j \in 1..Len(queue') : queue'[i].for # None /\ queue'[i].for = queue'[j].for => i = j
    BY <2>2 DEF Inv, Own
  <2> QED
    BY <2>1, <2>3, <2>4 DEF Own
<1>9. Busy' /\ Valid' /\ Served'
  BY <1>1 DEF Inv, Busy, Valid, Served
<1> QED
  BY <1>6, <1>7, <1>8, <1>9 DEF Inv

\* A crash takes every delivery, and the answer of everyone who waits for one.
LEMMA CrashKeeps == ASSUME ConstantsOK, Inv, Crash PROVE Inv'
<1>1. /\ queue' = <<>> /\ worker' = IdleWorker /\ sweep' = {} /\ live' \in Configs
      /\ UNCHANGED <<spool, got, before>>
      /\ notify' = [p \in Pushes |-> IF At(p, "wait") THEN Failed ELSE notify[p]]
  BY DEF Crash
<1>2. \A p \in Pushes : notify'[p] = Failed \/ notify'[p] = notify[p]
  BY <1>1
<1>3. \A p \in Pushes : Sound(notify'[p])
  BY <1>2, FailedSound, AllSound DEF Inv
<1>4. offered' \in [Events -> SUBSET Plugins]
  <2>1. CASE worker = IdleWorker
    BY <2>1 DEF Crash, Inv, TypeOK
  <2>2. CASE worker # IdleWorker
    BY <2>2, PermanentPlugins DEF Crash, Excuse, Inv, TypeOK, Busy
  <2> QED
    BY <2>1, <2>2
<1>5. TypeOK'
  <2>1. /\ notify' \in [Pushes -> NotifyType]
        /\ \A q \in Pushes : Len(notify'[q].ids) + notify'[q].left <= MaxLines
    BY <1>1, <1>3 DEF Sound
  <2>2. queue' \in Seq(Action) /\ Len(queue') <= Buffer
    BY <1>1 DEF ConstantsOK
  <2> QED
    BY <1>1, <1>4, <2>1, <2>2, ConstantTypes DEF Inv, TypeOK
<1>6. Busy'
  BY <1>1 DEF Busy
<1>7. Spooled'
  <2>1. \A p \in Pushes : \A k \in 1..Len(notify'[p].ids) : spool'[notify'[p].ids[k]] # Absent
    BY <1>1, <1>2, FailedSound DEF Inv, Spooled
  <2>2. Len(queue') = 0
    BY <1>1
  <2> QED
    BY <1>1, <2>1, <2>2 DEF Spooled
<1>8. Valid'
  BY <1>3 DEF Sound, Valid
<1>9. Own'
  <2>1. Len(queue') = 0 /\ worker'.for = None
    BY <1>1 DEF IdleWorker
  <2> QED
    BY <2>1 DEF Own
<1>10. Served'
  BY <1>1, <1>2, FailedSound DEF Inv, Served
<1> QED
  BY <1>5, <1>6, <1>7, <1>8, <1>9, <1>10 DEF Inv

\* The queue without its head.
LEMMA QueueTail ==
  ASSUME ConstantsOK, TypeOK, queue # <<>>
  PROVE  /\ Tail(queue) \in Seq(Action) /\ Len(Tail(queue)) <= Buffer
         /\ 1 \in 1..Len(queue) /\ Head(queue) = queue[1] /\ queue[1] \in Action
         /\ \A i \in 1..Len(Tail(queue)) :
              i + 1 \in 1..Len(queue) /\ i + 1 # 1 /\ Tail(queue)[i] = queue[i + 1]
<1>1. queue \in Seq(Action) /\ Len(queue) \in Nat /\ Len(queue) # 0 /\ Len(queue) <= Buffer
  BY DEF TypeOK
<1>2. /\ Tail(queue) \in Seq(Action) /\ Len(Tail(queue)) = Len(queue) - 1
      /\ Head(queue) = queue[1]
      /\ \A i \in 1..Len(Tail(queue)) : Tail(queue)[i] = queue[i + 1]
  BY <1>1
<1>3. 1 \in 1..Len(queue) /\ queue[1] \in Action
  BY <1>1
<1>4. \A i \in 1..Len(Tail(queue)) : i + 1 \in 1..Len(queue) /\ i + 1 # 1
  BY <1>1, <1>2
<1>5. Len(Tail(queue)) <= Buffer
  BY <1>1, <1>2 DEF ConstantsOK
<1> QED
  BY <1>2, <1>3, <1>4, <1>5

\* The delivery at the head of the queue is now the worker's.
LEMMA TakeKeeps == ASSUME ConstantsOK, Inv, Take PROVE Inv'
<1>1. /\ worker = IdleWorker /\ queue # <<>> /\ queue' = Tail(queue)
      /\ UNCHANGED <<notify, spool, live, sweep, got, offered, before>>
  BY DEF Take, Idle, history
<1>2. PICK a \in Action : a = queue[1] /\ a = Head(queue)
  BY <1>1, QueueTail DEF Inv
<1>3. /\ queue' \in Seq(Action) /\ Len(queue') <= Buffer /\ 1 \in 1..Len(queue)
      /\ \A i \in 1..Len(queue') : i + 1 \in 1..Len(queue) /\ i + 1 # 1 /\ queue'[i] = queue[i + 1]
  BY <1>1, QueueTail DEF Inv
<1>4. /\ spool[a.ev] # Absent /\ a.ev \in Events /\ a.for \in {None} \cup Pushes
      /\ a.plugin \in {None} \cup Plugins
      /\ a.for # None => a.plugin # None /\ Awaits(notify[a.for], a.plugin, a.ev)
  BY <1>2, <1>3 DEF Inv, Spooled, Own, Action
<1>5. /\ worker' \in WorkerType /\ Busy'
      /\ worker' # IdleWorker => worker'.ev = a.ev
      /\ worker'.for # None =>
           worker'.for = a.for /\ Len(worker'.todo) = 1 /\ Head(worker'.todo) = a.plugin /\ worker'.ev = a.ev
  <2>1. CASE a.plugin = None /\ live = <<>>
    <3>1. worker' = IdleWorker
      BY <1>1, <1>2, <2>1 DEF Take
    <3> QED
      BY <3>1, ConstantTypes DEF Busy, IdleWorker
  <2>2. CASE a.plugin = None /\ live # <<>>
    <3>1. worker' = [ev |-> a.ev, for |-> a.for, todo |-> live]
      BY <1>2, <2>2 DEF Take
    <3>2. live \in Seq(Plugins) /\ a.for = None
      BY <1>4, <2>2 DEF Inv, TypeOK, ConstantsOK
    <3> QED
      BY <1>4, <2>2, <3>1, <3>2 DEF WorkerType, Busy
  <2>3. CASE a.plugin # None
    <3>1. worker' = [ev |-> a.ev, for |-> a.for, todo |-> <<a.plugin>>]
      BY <1>2, <2>3 DEF Take
    <3>2. /\ a.plugin \in Plugins /\ <<a.plugin>> \in Seq(Plugins) /\ <<a.plugin>> # <<>>
          /\ Len(<<a.plugin>>) = 1 /\ Head(<<a.plugin>>) = a.plugin
      BY <1>4, <2>3
    <3>3. worker'.ev = a.ev /\ worker'.for = a.for /\ worker'.todo = <<a.plugin>>
      BY <3>1
    <3>4. worker' \in WorkerType
      BY <1>4, <3>1, <3>2 DEF WorkerType
    <3> QED
      BY <1>4, <3>2, <3>3, <3>4 DEF Busy
  <2> QED
    BY <2>1, <2>2, <2>3
<1>6. TypeOK'
  BY <1>1, <1>3, <1>5 DEF Inv, TypeOK
<1>7. Spooled'
  <2>1. \A i \in 1..Len(queue') : spool'[queue'[i].ev] # Absent
    BY <1>1, <1>3 DEF Inv, Spooled
  <2> QED
    BY <1>1, <1>4, <1>5, <2>1 DEF Inv, Spooled
<1>8. Own'
  <2>1. worker'.for # None =>
          Len(worker'.todo) = 1 /\ Awaits(notify'[worker'.for], Head(worker'.todo), worker'.ev)
    BY <1>1, <1>4, <1>5
  <2>2. ASSUME NEW i \in 1..Len(queue'), queue'[i].for # None
        PROVE  /\ queue'[i].for # worker'.for /\ queue'[i].plugin # None
               /\ Awaits(notify'[queue'[i].for], queue'[i].plugin, queue'[i].ev)
    <3>1. PICK j \in 1..Len(queue) : j # 1 /\ queue'[i] = queue[j]
      BY <1>3
    <3>2. queue[j].plugin # None /\ Awaits(notify[queue[j].for], queue[j].plugin, queue[j].ev)
      BY <2>2, <3>1 DEF Inv, Own
    <3>3. queue[j].for # a.for
      BY <1>2, <1>3, <2>2, <3>1 DEF Inv, Own
    <3> QED
      BY <1>1, <1>5, <2>2, <3>1, <3>2, <3>3
  <2>3. ASSUME NEW i \in 1..Len(queue'), NEW j \in 1..Len(queue'),
               queue'[i].for # None, queue'[i].for = queue'[j].for
        PROVE  i = j
    <3>1. i + 1 \in 1..Len(queue) /\ j + 1 \in 1..Len(queue)
          /\ queue'[i] = queue[i + 1] /\ queue'[j] = queue[j + 1]
      BY <1>3
    <3>2. i + 1 = j + 1
      BY <2>3, <3>1 DEF Inv, Own
    <3>3. i \in Int /\ j \in Int
      OBVIOUS
    <3> QED
      BY <3>2, <3>3
  <2> QED
    BY <2>1, <2>2, <2>3 DEF Own
<1>9. Valid' /\ Served'
  BY <1>1 DEF Inv, Valid, Served
<1> QED
  BY <1>5, <1>6, <1>7, <1>8, <1>9 DEF Inv

\* What the plugins have received stays received.
LEMMA StillReceived ==
  ASSUME ConstantsOK, Inv, NEW p \in Pushes,
         \A g \in Traced : Range(got[g]) \subseteq Range(got'[g])
  PROVE  Answers(notify[p], got')
<1> SUFFICES ASSUME notify[p].pc \in {"post", "wait", "ok"},
                    NEW r \in Requests(notify[p].conf, notify[p].ids) \ notify[p].todo
             PROVE  Received(got', notify[p].conf[r[1]], notify[p].ids[r[2]])
  BY DEF Answers
<1>1. Received(got, notify[p].conf[r[1]], notify[p].ids[r[2]])
  BY DEF Inv, Served, Answers
<1>2. notify[p].conf[r[1]] \in Traced
  BY DEF Requests, ConstantsOK
<1> QED
  BY <1>1, <1>2 DEF Received

\* The worker is done with one plugin: it is idle, or goes on with another one.
LEMMA NextPlugin ==
  ASSUME ConstantsOK, Inv, worker # IdleWorker, NEW ok, worker' = Next1(ok)
  PROVE  /\ worker' \in WorkerType /\ Busy' /\ worker'.for = None
         /\ worker' # IdleWorker => worker'.ev = worker.ev
         /\ Head(worker.todo) \in Plugins
<1>1. worker \in WorkerType /\ worker.ev \in Events /\ worker.todo # <<>>
  BY DEF Inv, TypeOK, Busy
<1>2. PICK todo \in Seq(Plugins) : todo = worker.todo /\ todo # <<>>
  BY <1>1 DEF WorkerType
<1>3. PICK len \in Nat : len = Len(todo)
  BY <1>2
<1>4. Head(todo) \in Plugins
  BY <1>2
<1>5. CASE len > 1
  <2>1. Tail(todo) \in Seq(Plugins) /\ Tail(todo) # <<>>
    <3>1. Tail(todo) \in Seq(Plugins) /\ Len(Tail(todo)) = len - 1
      BY <1>2, <1>3
    <3>2. len - 1 # 0
      BY <1>3, <1>5
    <3> QED
      BY <3>1, <3>2
  <2>2. worker' = [worker EXCEPT !.todo = Tail(todo)]
    BY <1>2, <1>3, <1>5 DEF Next1
  <2>3. /\ worker'.todo = Tail(todo) /\ worker'.ev = worker.ev /\ worker'.for = worker.for
        /\ worker' \in WorkerType
    BY <1>1, <2>1, <2>2 DEF WorkerType
  <2>4. worker.for = None
    <3>1. len # 1
      BY <1>3, <1>5
    <3> QED
      BY <1>2, <1>3, <3>1 DEF Inv, Own
  <2> QED
    BY <1>1, <1>2, <1>4, <2>1, <2>3, <2>4 DEF Busy
<1>6. CASE ~(len > 1)
  <2>1. worker' = IdleWorker
    BY <1>2, <1>3, <1>6 DEF Next1
  <2> QED
    BY <1>2, <1>4, <2>1, ConstantTypes DEF Busy, IdleWorker
<1> QED
  BY <1>5, <1>6

\* The answer to a push that waits for it: notify goes on or fails.
LEMMA ReplySteps ==
  ASSUME ConstantsOK, Inv, NEW ok \in BOOLEAN, Reply(ok), worker # IdleWorker,
         \A g \in Traced : Range(got[g]) \subseteq Range(got'[g]),
         \A p \in Pushes : ok /\ p = worker.for /\ notify[p].pc = "wait" =>
           Received(got', Head(worker.todo), worker.ev)
  PROVE  /\ notify' \in [Pushes -> NotifyType]
         /\ \A q \in Pushes : /\ Sound(notify'[q]) /\ Answers(notify'[q], got')
                              /\ q # worker.for => notify'[q] = notify[q]
                              /\ notify'[q].ids \in {<<>>, notify[q].ids}
<1>1. \A q \in Pushes : Sound(notify[q]) /\ Answers(notify[q], got')
  BY AllSound, StillReceived DEF Inv
<1>t. notify \in [Pushes -> NotifyType]
  BY DEF Inv, TypeOK
<1>2. CASE ~(worker.for # None /\ At(worker.for, "wait"))
  BY <1>1, <1>2, <1>t DEF Reply
<1>3. CASE worker.for # None /\ At(worker.for, "wait")
  <2>1. PICK p \in Pushes : p = worker.for /\ notify[p].pc = "wait"
    BY <1>3 DEF Inv, TypeOK, WorkerType, At
  <2>2. CASE ~ok
    <3>1. notify' = [notify EXCEPT ![p] = Failed]
      BY <1>3, <2>1, <2>2 DEF Reply
    <3>2. notify'[p] = Failed /\ \A q \in Pushes : q # p => notify'[q] = notify[q]
      BY <1>t, <3>1
    <3> QED
      BY <1>1, <1>t, <2>1, <3>1, <3>2, FailedSound, ConstantTypes
  <2>3. CASE ok
    <3>1. notify' = [notify EXCEPT ![p] = Answered(p)]
      BY <1>3, <2>1, <2>3 DEF Reply
    <3>2. PICK n : n = Answered(p)
      OBVIOUS
    <3>3. /\ n \in NotifyType /\ n.pc = "post" /\ n.conf = notify[p].conf /\ n.ids = notify[p].ids
          /\ n.left = notify[p].left /\ n.todo = notify[p].todo \ {notify[p].now}
      BY <1>t, <3>2 DEF Answered, NotifyType
    <3>4. Sound(n)
      BY <1>1, <3>3 DEF Sound
    <3>5. Answers(n, got')
      <4> SUFFICES ASSUME NEW r \in Requests(n.conf, n.ids) \ n.todo
                   PROVE  Received(got', n.conf[r[1]], n.ids[r[2]])
        BY DEF Answers
      <4>1. CASE r \notin notify[p].todo
        BY <1>1, <2>1, <3>3, <4>1 DEF Answers
      <4>2. CASE r = notify[p].now
        <5>1. Awaits(notify[p], Head(worker.todo), worker.ev)
          BY <1>3, <2>1 DEF Inv, Own
        <5>2. Head(worker.todo) = n.conf[r[1]] /\ worker.ev = n.ids[r[2]]
          BY <2>1, <3>3, <4>2, <5>1 DEF Awaits
        <5> QED
          BY <2>1, <2>3, <5>2
      <4> QED
        BY <3>3, <4>1, <4>2
    <3>6. notify'[p] = n /\ \A q \in Pushes : q # p => notify'[q] = notify[q]
      BY <1>t, <3>1, <3>2
    <3> QED
      BY <1>1, <1>t, <2>1, <3>1, <3>2, <3>3, <3>4, <3>5, <3>6
  <2> QED
    BY <2>2, <2>3
<1> QED
  BY <1>2, <1>3

\* A delivery returns: its record is updated, notify has its answer, and the worker
\* goes on.
LEMMA SettleKeeps ==
  ASSUME ConstantsOK, Inv, worker # IdleWorker, NEW slot \in Record, NEW ok \in BOOLEAN,
         Settle(slot, ok), UNCHANGED <<live, queue, sweep, before>>,
         got' \in [Traced -> Seq(Events)],
         \A g \in Traced : Range(got[g]) \subseteq Range(got'[g]),
         \A p \in Pushes : ok /\ p = worker.for /\ notify[p].pc = "wait" =>
           Received(got', Head(worker.todo), worker.ev)
  PROVE  Inv'
<1>1. PICK e \in Events : e = worker.ev
  BY DEF Inv, Busy
<1>2. /\ spool' = [spool EXCEPT ![e] = slot] /\ Reply(ok) /\ worker' = Next1(ok)
      /\ offered' = IF worker.for # None THEN Excuse(e)
                    ELSE [offered EXCEPT ![e] = offered[e] \cup (Permanent \cap {Head(worker.todo)})]
  BY <1>1 DEF Settle, Inv, TypeOK
<1>3. /\ worker' \in WorkerType /\ Busy' /\ worker'.for = None
      /\ worker' # IdleWorker => worker'.ev = e
      /\ Head(worker.todo) \in Plugins
  BY <1>1, <1>2, NextPlugin
<1>4. /\ notify' \in [Pushes -> NotifyType]
      /\ \A q \in Pushes : /\ Sound(notify'[q]) /\ Answers(notify'[q], got')
                           /\ q # worker.for => notify'[q] = notify[q]
                           /\ notify'[q].ids \in {<<>>, notify[q].ids}
  BY <1>2, ReplySteps
<1>5. /\ spool' \in [Events -> Slot] /\ spool'[e] # Absent
      /\ \A f \in Events : spool[f] # Absent => spool'[f] # Absent
  BY <1>2, RecordPresent DEF Inv, TypeOK
<1>6. offered' \in [Events -> SUBSET Plugins]
  <2>1. CASE worker.for # None
    BY <1>2, <2>1, PermanentPlugins DEF Excuse, Inv, TypeOK
  <2>2. CASE worker.for = None
    <3>1. offered[e] \cup (Permanent \cap {Head(worker.todo)}) \in SUBSET Plugins
      BY <1>3 DEF Inv, TypeOK
    <3> QED
      BY <1>2, <2>2, <3>1 DEF Inv, TypeOK
  <2> QED
    BY <2>1, <2>2
<1>7. TypeOK'
  BY <1>3, <1>4, <1>5, <1>6 DEF Inv, TypeOK, Sound
<1>8. Spooled'
  <2>1. worker' # IdleWorker => spool'[worker'.ev] # Absent
    BY <1>3, <1>5
  <2>2. \A i \in 1..Len(queue') : spool'[queue'[i].ev] # Absent
    BY <1>5, SpooledEvents DEF Inv, Spooled
  <2>3. \A f \in sweep' : spool'[f] # Absent
    BY <1>5 DEF Inv, Spooled, TypeOK
  <2>4. ASSUME NEW p \in Pushes, NEW k \in 1..Len(notify'[p].ids)
        PROVE  spool'[notify'[p].ids[k]] # Absent
    <3>1. CASE notify'[p].ids = notify[p].ids
      BY <1>5, <3>1, SpooledEvents DEF Inv, Spooled
    <3>2. CASE notify'[p].ids = <<>>
      BY <2>4, <3>2, EmptyList
    <3> QED
      BY <1>4, <3>1, <3>2
  <2> QED
    BY <2>1, <2>2, <2>3, <2>4 DEF Spooled
<1>9. Valid'
  BY <1>4 DEF Sound, Valid
<1>10. Own'
  <2>1. ASSUME NEW i \in 1..Len(queue), queue[i].for # None
        PROVE  queue[i].for # worker.for /\ queue[i].for \in Pushes
    <3>1. queue[i] \in Action
      BY DEF Inv, TypeOK
    <3> QED
      BY <2>1, <3>1 DEF Inv, Own, Action
  <2>2. \A i \in 1..Len(queue) : queue[i].for # None => notify'[queue[i].for] = notify[queue[i].for]
    BY <1>4, <2>1
  <2>3. ASSUME NEW i \in 1..Len(queue'), queue'[i].for # None
        PROVE  /\ queue'[i].for # worker'.for /\ queue'[i].plugin # None
               /\ Awaits(notify'[queue'[i].for], queue'[i].plugin, queue'[i].ev)
    BY <1>3, <2>2, <2>3 DEF Inv, Own
  <2>4. \A i, j \in 1..Len(queue') : queue'[i].for # None /\ queue'[i].for = queue'[j].for => i = j
    BY DEF Inv, Own
  <2> QED
    BY <1>3, <2>3, <2>4 DEF Own
<1>11. Served'
  BY <1>4 DEF Served
<1> QED
  BY <1>3, <1>7, <1>8, <1>9, <1>10, <1>11 DEF Inv

\* The receptions h once plugin g has answered event e.
Recorded(h, g, e) ==
  IF g \in Traced /\ e \notin Range(h[g]) THEN [h EXCEPT ![g] = Append(h[g], e)] ELSE h

\* A reception is recorded after the earlier ones.
LEMMA GotGrows ==
  ASSUME TypeOK, NEW g, NEW e \in Events
  PROVE  /\ Recorded(got, g, e) \in [Traced -> Seq(Events)]
         /\ \A h \in Traced : Range(got[h]) \subseteq Range(Recorded(got, g, e)[h])
         /\ g \in Traced => e \in Range(Recorded(got, g, e)[g])
<1> DEFINE new == Recorded(got, g, e)
<1>1. got \in [Traced -> Seq(Events)]
  BY DEF TypeOK
<1>2. CASE g \in Traced /\ e \notin Range(got[g])
  <2>1. PICK s \in Seq(Events) : s = got[g]
    BY <1>1, <1>2
  <2>2. Append(s, e) \in Seq(Events)
    BY <2>1
  <2>3. Range(s) \subseteq Range(Append(s, e)) /\ e \in Range(Append(s, e))
    <3>1. \A i \in DOMAIN s : i \in DOMAIN Append(s, e) /\ Append(s, e)[i] = s[i]
      BY <2>1
    <3>2. Len(s) + 1 \in DOMAIN Append(s, e) /\ Append(s, e)[Len(s) + 1] = e
      BY <2>1
    <3> QED
      BY <3>1, <3>2 DEF Range
  <2>4. new = [got EXCEPT ![g] = Append(s, e)]
    BY <1>2, <2>1 DEF Recorded
  <2> HIDE DEF new
  <2>5. new[g] = Append(s, e) /\ \A h \in Traced : h # g => new[h] = got[h]
    BY <1>1, <1>2, <2>4
  <2>6. new \in [Traced -> Seq(Events)]
    BY <1>1, <2>2, <2>4
  <2>7. /\ \A h \in Traced : Range(got[h]) \subseteq Range(new[h])
        /\ g \in Traced => e \in Range(new[g])
    BY <2>1, <2>3, <2>5
  <2> QED
    BY <2>6, <2>7 DEF new
<1>3. CASE ~(g \in Traced /\ e \notin Range(got[g]))
  BY <1>1, <1>3 DEF Recorded
<1> QED
  BY <1>2, <1>3

\* Whatever a plugin does, its delivery settles.
LEMMA WorkerKeeps == ASSUME ConstantsOK, Inv, Worker PROVE Inv'
<1>0. worker # IdleWorker => spool[worker.ev] \in Slot /\ spool[worker.ev] # Absent
  BY DEF Inv, TypeOK, Busy, Spooled
<1>u. UNCHANGED got => /\ got' \in [Traced -> Seq(Events)]
                       /\ \A g \in Traced : Range(got[g]) \subseteq Range(got'[g])
  BY DEF Inv, TypeOK
<1>1. CASE Take
  BY <1>1, TakeKeeps
<1>2. CASE DeliverDead \/ DeliverUnrecorded
  <2>1. PICK slot \in Record : Settle(slot, FALSE)
    BY <1>0, <1>2, SlotTypes DEF DeliverDead, DeliverUnrecorded, Slot
  <2> QED
    BY <1>2, <1>u, <2>1, SettleKeeps DEF DeliverDead, DeliverUnrecorded
<1>3. CASE DeliverFails
  <2>1. PICK slot \in Record : Settle(slot, FALSE)
    BY <1>0, <1>3, SlotTypes DEF DeliverFails
  <2> QED
    BY <1>3, <1>u, <2>1, SettleKeeps DEF DeliverFails
<1>4. CASE DeliverFiltered
  <2>1. PICK slot \in Record : Settle(slot, TRUE)
    BY <1>0, <1>4, SlotTypes DEF DeliverFiltered
  <2>2. Received(got', Head(worker.todo), worker.ev)
    BY <1>4 DEF DeliverFiltered, Received
  <2> QED
    BY <1>4, <1>u, <2>1, <2>2, SettleKeeps DEF DeliverFiltered
<1>5. CASE DeliverAccepted
  <2>1. PICK slot \in Record, ok \in BOOLEAN : Settle(slot, ok)
    BY <1>0, <1>5, SlotTypes DEF DeliverAccepted, Slot
  <2>2. worker # IdleWorker /\ UNCHANGED <<live, queue, sweep, before>>
    BY <1>5 DEF DeliverAccepted
  <2>3. PICK g \in {Head(worker.todo)}, e \in Events : g = Head(worker.todo) /\ e = worker.ev
    BY <2>2 DEF Inv, Busy
  <2>4. got' = Recorded(got, g, e)
    BY <1>5, <2>3 DEF DeliverAccepted, Recorded, Inv, TypeOK
  <2>5. /\ got' \in [Traced -> Seq(Events)]
        /\ \A h \in Traced : Range(got[h]) \subseteq Range(got'[h])
        /\ g \in Traced => e \in Range(got'[g])
    BY <2>3, <2>4, GotGrows DEF Inv
  <2>6. ASSUME NEW p \in Pushes, p = worker.for, notify[p].pc = "wait"
        PROVE  g \in Traced
    <3>1. Awaits(notify[p], g, e)
      BY <2>3, <2>6 DEF Inv, Own, ConstantsOK
    <3>2. PICK r \in notify[p].todo : g = notify[p].conf[r[1]]
      BY <2>6, <3>1 DEF Awaits
    <3> QED
      BY <3>2, RequestTypes DEF ConstantsOK
  <2> QED
    BY <2>1, <2>2, <2>3, <2>5, <2>6, SettleKeeps DEF Received
<1> QED
  BY <1>1, <1>2, <1>3, <1>4, <1>5 DEF Worker

-----------------------------------------------------------------------------
(* The theorem *)

\* Init satisfies the invariant.
LEMMA InitInv == ASSUME ConstantsOK, Init PROVE Inv
<1>1. \A p \in Pushes : notify[p] = NewNotify
  BY DEF Init
<1>2. NewNotify.pc = "new" /\ NewNotify.todo = {} /\ NewNotify.ids = <<>> /\ Len(<<>>) = 0
  BY DEF NewNotify, Process
<1>3. TypeOK
  <2>1. /\ notify \in [Pushes -> NotifyType]
        /\ \A p \in Pushes : Len(notify[p].ids) + notify[p].left <= MaxLines
    BY <1>1, ConstantTypes DEF Init
  <2>2. queue \in Seq(Action) /\ Len(queue) <= Buffer
    BY DEF Init, ConstantsOK
  <2>3. spool \in [Events -> Slot] /\ worker \in WorkerType
    BY ConstantTypes DEF Init
  <2> QED
    BY <2>1, <2>2, <2>3 DEF Init, TypeOK
<1>4. Busy /\ Spooled
  BY <1>1, <1>2 DEF Init, Busy, Spooled
<1>5. Valid
  BY <1>1, <1>2 DEF Valid
<1>6. Own
  BY DEF Init, Own, IdleWorker
<1>7. Served
  BY <1>1, <1>2 DEF Served, Answers
<1> QED
  BY <1>3, <1>4, <1>5, <1>6, <1>7 DEF Inv

\* Every step keeps it.
LEMMA NextInv == ASSUME ConstantsOK, Inv, [Next]_vars PROVE Inv'
<1>1. CASE \E p \in Pushes : Start(p) \/ SpoolLine(p) \/ Bundle(p) \/ Exit(p) \/ Deliver(p) \/ Timeout(p)
  BY <1>1, StartKeeps, SpoolLineKeeps, BundleKeeps, ExitKeeps, DeliverKeeps, TimeoutKeeps
<1>2. CASE \E e \in Events : RetryTimeArrives(e) \/ Requeue(e)
  BY <1>2, RetryTimeKeeps, RequeueKeeps
<1>3. CASE Reload \/ Sweep \/ Worker \/ Crash
  BY <1>3, ReloadKeeps, SweepKeeps, WorkerKeeps, CrashKeeps
<1>4. CASE UNCHANGED vars
  BY <1>4 DEF vars, Inv, TypeOK, Busy, Spooled, Valid, Own, Served
<1> QED
  BY <1>1, <1>2, <1>3, <1>4 DEF Next

\* A push whose requests have all been answered has been received.
LEMMA InvAck == ASSUME ConstantsOK, Inv PROVE AckMeansReceived
<1> SUFFICES ASSUME NEW p \in Pushes, notify[p].pc = "ok",
                    NEW g \in (Listed(notify[p].conf) \cap Sync) \ Filtered,
                    NEW e \in Range(notify[p].ids)
             PROVE  e \in Range(got[g])
  BY DEF AckMeansReceived, At
<1>1. PICK i \in DOMAIN notify[p].conf : g = notify[p].conf[i]
  BY DEF Listed, Range
<1>2. PICK j \in DOMAIN notify[p].ids : e = notify[p].ids[j]
  BY DEF Range
<1>3. <<i, j>> \in Requests(notify[p].conf, notify[p].ids) \ notify[p].todo
  BY <1>1, <1>2 DEF Requests, Inv, Valid
<1>4. Received(got, notify[p].conf[<<i, j>>[1]], notify[p].ids[<<i, j>>[2]])
  BY <1>3 DEF Inv, Served, Answers
<1> QED
  BY <1>1, <1>2, <1>4 DEF Received

\* notify acknowledges a push only when every sync plugin of the configuration it read
\* has answered every event of the push, or filters the repository out: for any number
\* of pushes, lines, plugins and configurations, and whatever reloads, sweeps, time-outs,
\* failures and crashes come in between.
THEOREM AckReceived == ASSUME ConstantsOK PROVE Spec => []AckMeansReceived
<1>1. Init => Inv
  BY InitInv
<1>2. Inv /\ [Next]_vars => Inv'
  BY NextInv
<1>3. Inv => AckMeansReceived
  BY InvAck
<1> QED
  BY <1>1, <1>2, <1>3, PTL DEF Spec

\* The processes, records and queues of any number of pushes keep their types: the
\* channel's capacity and the number of lines bound them.
THEOREM TypeCorrect == ASSUME ConstantsOK PROVE Spec => []TypeOK
<1>1. Init => Inv
  BY InitInv
<1>2. Inv /\ [Next]_vars => Inv'
  BY NextInv
<1>3. Inv => TypeOK
  BY DEF Inv
<1> QED
  BY <1>1, <1>2, <1>3, PTL DEF Spec

-----------------------------------------------------------------------------
(* The order of acknowledged pushes *)

\* An event in the spool is one that its push counts, or its push has failed.
Known ==
  \A e \in Events : spool[e] # Absent => notify[e[1]].pc = "failed" \/ e \in Range(notify[e[1]].ids)

\* What a plugin has answered is in the spool.
GotSpooled == \A g \in Traced : \A e \in Range(got[g]) : spool[e] # Absent

\* The first push of a pair has been acknowledged.
Earlier == \A pair \in before : notify[pair[1]].pc = "ok"

OrderInv == Known /\ GotSpooled /\ Earlier /\ AckedPushesInOrder

\* What a step does to the processes: one that has exited stays as it is, one that has
\* failed stays so, and the others keep their events.
Forward ==
  \A p \in Pushes :
    /\ notify[p].pc = "ok" => notify'[p] = notify[p]
    /\ \/ notify'[p].pc = "failed"
       \/ notify[p].pc # "failed" /\ Range(notify[p].ids) \subseteq Range(notify'[p].ids)

\* What a step does to the spool: it loses no event, and a new one belongs to its push.
SpoolGrows ==
  \A e \in Events :
    /\ spool[e] # Absent => spool'[e] # Absent
    /\ spool'[e] # Absent => spool[e] # Absent \/ e \in Range(notify'[e[1]].ids)

\* A step of one process.
LEMMA OneForward ==
  ASSUME TypeOK, NEW p \in Pushes, NEW n, notify' = [notify EXCEPT ![p] = n],
         notify[p].pc # "ok",
         \/ n.pc = "failed"
         \/ notify[p].pc # "failed" /\ Range(notify[p].ids) \subseteq Range(n.ids)
  PROVE  Forward
<1>1. notify'[p] = n /\ \A q \in Pushes : q # p => notify'[q] = notify[q]
  BY DEF TypeOK
<1> QED
  BY <1>1 DEF Forward

\* A process that fails.
LEMMA FailForward == ASSUME TypeOK, NEW p \in Pushes, notify[p].pc # "ok", Fail(p) PROVE Forward
<1>1. Failed.pc = "failed"
  BY DEF Failed, Process
<1> QED
  BY <1>1, OneForward DEF Fail

\* The steps of notify that leave the spool alone.
LEMMA FrontForward ==
  ASSUME Inv, NEW p \in Pushes, Start(p) \/ Bundle(p) \/ Exit(p) \/ Timeout(p)
  PROVE  Forward /\ SpoolGrows
<1>t. TypeOK /\ notify[p] \in NotifyType
  BY DEF Inv, TypeOK
<1>1. SpoolGrows
  BY DEF Start, Bundle, Exit, Timeout, SpoolGrows
<1>2. CASE Start(p)
  <2>1. notify[p] = NewNotify /\ notify[p].pc = "new"
    BY <1>2 DEF Inv, Valid, Start, At
  <2>2. Range(notify[p].ids) = {}
    <3>1. notify[p].ids = <<>>
      BY <2>1, NewIsEmpty
    <3> QED
      BY <3>1, EmptyList
  <2>3. PICK n : notify' = [notify EXCEPT ![p] = n]
    BY <1>2 DEF Start
  <2> QED
    BY <1>1, <1>t, <2>1, <2>2, <2>3, OneForward
<1>3. CASE Bundle(p)
  <2>1. notify[p].pc = "spool"
    BY <1>3 DEF Bundle, At
  <2>2. CASE Fail(p)
    BY <1>1, <1>t, <2>1, <2>2, FailForward
  <2>3. CASE notify' = [notify EXCEPT ![p] =
               [notify[p] EXCEPT !.pc = "post", !.todo = Requests(notify[p].conf, notify[p].ids)]]
    <3>1. PICK n : n = [notify[p] EXCEPT !.pc = "post", !.todo = Requests(notify[p].conf, notify[p].ids)]
      OBVIOUS
    <3>2. n.ids = notify[p].ids
      BY <1>t, <3>1 DEF NotifyType
    <3> QED
      BY <1>1, <1>t, <2>1, <2>3, <3>1, <3>2, OneForward
  <2> QED
    BY <1>3, <2>2, <2>3 DEF Bundle
<1>4. CASE Exit(p)
  <2>1. notify[p].pc = "post"
    BY <1>4 DEF Exit, At
  <2>2. PICK n : n = [notify[p] EXCEPT !.pc = "ok"]
    OBVIOUS
  <2>3. n.ids = notify[p].ids
    BY <1>t, <2>2 DEF NotifyType
  <2>4. notify' = [notify EXCEPT ![p] = n]
    BY <1>4, <1>t, <2>2 DEF Exit, Goto, TypeOK
  <2> QED
    BY <1>1, <1>t, <2>1, <2>3, <2>4, OneForward
<1>5. CASE Timeout(p)
  BY <1>1, <1>5, <1>t, FailForward DEF Timeout, At
<1> QED
  BY <1>2, <1>3, <1>4, <1>5

\* A spooled line is among the push's events at once.
LEMMA SpoolLineForward ==
  ASSUME ConstantsOK, Inv, NEW p \in Pushes, SpoolLine(p)
  PROVE  Forward /\ SpoolGrows
<1>t. TypeOK /\ notify[p] \in NotifyType /\ notify[p].pc = "spool" /\ notify[p].left \in Nat
  <2>1. TypeOK /\ notify[p] \in NotifyType /\ notify[p].pc = "spool"
    BY DEF Inv, TypeOK, SpoolLine, At
  <2>2. notify[p].left \in 0..MaxLines
    BY <2>1 DEF NotifyType
  <2> QED
    BY <2>1, <2>2 DEF ConstantsOK
<1>1. PICK n : n = [notify[p] EXCEPT !.left = notify[p].left - 1]
  OBVIOUS
<1>2. n.ids = notify[p].ids /\ n.ids \in Seq(Events) /\ DOMAIN n = DOMAIN notify[p]
  BY <1>1, <1>t DEF NotifyType
<1>3. PICK e : e = <<p, Len(n.ids) + 1>>
  OBVIOUS
<1>4. \/ /\ spool' = [spool EXCEPT ![e] = NewRecord]
         /\ notify' = [notify EXCEPT ![p] = [n EXCEPT !.ids = Append(n.ids, e)]]
      \/ notify' = [notify EXCEPT ![p] = n] /\ UNCHANGED spool
      \/ Fail(p) /\ UNCHANGED spool
  BY <1>1, <1>3 DEF SpoolLine
<1>5. CASE notify' = [notify EXCEPT ![p] = n] /\ UNCHANGED spool
  BY <1>2, <1>5, <1>t, OneForward DEF SpoolGrows
<1>6. CASE Fail(p) /\ UNCHANGED spool
  BY <1>6, <1>t, FailForward DEF SpoolGrows
<1>7. CASE /\ spool' = [spool EXCEPT ![e] = NewRecord]
           /\ notify' = [notify EXCEPT ![p] = [n EXCEPT !.ids = Append(n.ids, e)]]
  <2>1. PICK m : m = [n EXCEPT !.ids = Append(n.ids, e)]
    OBVIOUS
  <2>2. m.ids = Append(n.ids, e)
    BY <1>1, <1>t, <2>1 DEF NotifyType
  <2>3. Range(n.ids) \subseteq Range(m.ids) /\ e \in Range(m.ids)
    <3>1. \A i \in DOMAIN n.ids : i \in DOMAIN Append(n.ids, e) /\ Append(n.ids, e)[i] = n.ids[i]
      BY <1>2
    <3>2. Len(n.ids) + 1 \in DOMAIN Append(n.ids, e) /\ Append(n.ids, e)[Len(n.ids) + 1] = e
      BY <1>2
    <3> QED
      BY <2>2, <3>1, <3>2 DEF Range
  <2>4. Forward
    BY <1>2, <1>7, <1>t, <2>1, <2>3, OneForward
  <2>5. notify'[p] = m /\ e[1] = p
    BY <1>3, <1>7, <1>t, <2>1 DEF TypeOK
  <2>6. NewRecord # Absent
    BY DEF NewRecord, Absent
  <2>7. SpoolGrows
    BY <1>7, <1>t, <2>3, <2>5, <2>6 DEF SpoolGrows, TypeOK
  <2> QED
    BY <2>4, <2>7
<1> QED
  BY <1>4, <1>5, <1>6, <1>7

\* A request is posted: the process waits or fails.
LEMMA DeliverForward == ASSUME ConstantsOK, Inv, NEW p \in Pushes, Deliver(p) PROVE Forward /\ SpoolGrows
<1>t. TypeOK /\ notify[p] \in NotifyType /\ notify[p].pc = "post"
  BY DEF Inv, TypeOK, Deliver, At
<1>1. PICK r \in notify[p].todo :
        LET e == notify[p].ids[r[2]]
        IN  \/ /\ \E slot \in {WithState(spool[e], "dead"), spool[e]} : spool' = [spool EXCEPT ![e] = slot]
               /\ Fail(p)
            \/ /\ notify' = [notify EXCEPT ![p] = [notify[p] EXCEPT !.pc = "wait", !.now = r]]
               /\ UNCHANGED spool
            \/ Fail(p) /\ UNCHANGED spool
  BY <1>t DEF Deliver, TypeOK
<1>2. PICK e \in Events : e = notify[p].ids[r[2]] /\ spool[e] # Absent
  BY <1>1, RequestTypes
<1>3. CASE /\ \E slot \in {WithState(spool[e], "dead"), spool[e]} : spool' = [spool EXCEPT ![e] = slot]
           /\ Fail(p)
  <2>1. WithState(spool[e], "dead") # Absent
    BY <1>2, <1>t, SlotTypes, RecordPresent DEF TypeOK
  <2>2. SpoolGrows
    BY <1>2, <1>3, <1>t, <2>1 DEF SpoolGrows, TypeOK
  <2> QED
    BY <1>3, <1>t, <2>2, FailForward
<1>4. CASE Fail(p) /\ UNCHANGED spool
  BY <1>4, <1>t, FailForward DEF SpoolGrows
<1>5. CASE /\ notify' = [notify EXCEPT ![p] = [notify[p] EXCEPT !.pc = "wait", !.now = r]]
           /\ UNCHANGED spool
  <2>1. PICK n : n = [notify[p] EXCEPT !.pc = "wait", !.now = r]
    OBVIOUS
  <2>2. n.ids = notify[p].ids
    BY <1>t, <2>1 DEF NotifyType
  <2>3. Forward
    BY <1>5, <1>t, <2>1, <2>2, OneForward
  <2> QED
    BY <1>5, <2>3 DEF SpoolGrows
<1> QED
  BY <1>1, <1>2, <1>3, <1>4, <1>5

\* The steps of serve that answer nobody.
LEMMA ServeForward ==
  ASSUME Inv, Reload \/ Sweep \/ Take \/ Crash \/ \E e \in Events : RetryTimeArrives(e) \/ Requeue(e)
  PROVE  Forward /\ SpoolGrows
<1>1. CASE Crash
  <2>1. \A p \in Pushes : notify'[p] = IF notify[p].pc = "wait" THEN Failed ELSE notify[p]
    BY <1>1 DEF Crash, At
  <2>2. Failed.pc = "failed"
    BY DEF Failed, Process
  <2>3. Forward
    BY <2>1, <2>2 DEF Forward
  <2> QED
    BY <1>1, <2>3 DEF Crash, SpoolGrows
<1>2. CASE UNCHANGED <<notify, spool>>
  BY <1>2 DEF Forward, SpoolGrows
<1>3. ASSUME NEW e \in Events, RetryTimeArrives(e)
      PROVE  Forward /\ SpoolGrows
  <2>1. spool[e] # Absent
    BY <1>3 DEF RetryTimeArrives, Absent
  <2>2. Arrived(spool[e]) # Absent
    BY <2>1, SlotTypes, RecordPresent DEF Inv, TypeOK
  <2>3. SpoolGrows
    BY <1>3, <2>1, <2>2 DEF RetryTimeArrives, SpoolGrows, Inv, TypeOK
  <2>4. Forward
    BY <1>3 DEF RetryTimeArrives, Forward
  <2> QED
    BY <2>3, <2>4
<1> QED
  BY <1>1, <1>2, <1>3 DEF Reload, Sweep, Take, Requeue

\* A delivery settles: its record stays a record, and the push that waits for it goes
\* on or fails.
LEMMA SettleForward ==
  ASSUME Inv, worker # IdleWorker, NEW slot \in Record, NEW ok \in BOOLEAN, Settle(slot, ok)
  PROVE  Forward /\ SpoolGrows
<1>t. TypeOK /\ worker.ev \in Events /\ spool[worker.ev] # Absent
  BY DEF Inv, Busy, Spooled
<1>1. SpoolGrows
  BY <1>t, RecordPresent DEF Settle, SpoolGrows, TypeOK
<1>2. CASE ~(worker.for # None /\ At(worker.for, "wait"))
  BY <1>1, <1>2 DEF Settle, Reply, Forward
<1>3. CASE worker.for # None /\ At(worker.for, "wait")
  <2>1. PICK p \in Pushes : p = worker.for /\ notify[p].pc = "wait"
    BY <1>3, <1>t DEF TypeOK, WorkerType, At
  <2>2. PICK n : n = IF ok THEN Answered(p) ELSE Failed
    OBVIOUS
  <2>3. notify' = [notify EXCEPT ![p] = n]
    BY <1>3, <2>1, <2>2 DEF Settle, Reply
  <2>4. n.pc = "failed" \/ n.ids = notify[p].ids
    <3>1. Answered(p).ids = notify[p].ids
      BY <1>t DEF Answered, TypeOK, NotifyType
    <3>2. Failed.pc = "failed"
      BY DEF Failed, Process
    <3> QED
      BY <2>2, <3>1, <3>2
  <2> QED
    BY <1>1, <1>t, <2>1, <2>3, <2>4, OneForward
<1> QED
  BY <1>2, <1>3

\* Every step moves forward.
LEMMA NextForward == ASSUME ConstantsOK, Inv, Next PROVE Forward /\ SpoolGrows
<1>1. CASE \E p \in Pushes : Start(p) \/ SpoolLine(p) \/ Bundle(p) \/ Exit(p) \/ Deliver(p) \/ Timeout(p)
  BY <1>1, FrontForward, SpoolLineForward, DeliverForward
<1>2. CASE Reload \/ Sweep \/ Take \/ Crash \/ \E e \in Events : RetryTimeArrives(e) \/ Requeue(e)
  BY <1>2, ServeForward
<1>3. CASE DeliverDead \/ DeliverUnrecorded \/ DeliverAccepted \/ DeliverFiltered \/ DeliverFails
  <2>1. worker # IdleWorker
    BY <1>3 DEF DeliverDead, DeliverUnrecorded, DeliverAccepted, DeliverFiltered, DeliverFails
  <2>2. spool[worker.ev] \in Slot /\ spool[worker.ev] # Absent
    BY <2>1 DEF Inv, TypeOK, Busy, Spooled
  <2>3. \E slot \in Record, ok \in BOOLEAN : Settle(slot, ok)
    BY <1>3, <2>2, SlotTypes DEF DeliverDead, DeliverUnrecorded, DeliverAccepted, DeliverFiltered, DeliverFails, Slot
  <2> QED
    BY <2>1, <2>3, SettleForward
<1> QED
  BY <1>1, <1>2, <1>3 DEF Next, Worker

\* The history after a step: nothing new, a push that begins, or a reception of an event
\* that is in the spool.
LEMMA NextHistory ==
  ASSUME ConstantsOK, Inv, Next
  PROVE  \/ UNCHANGED <<got, before>>
         \/ UNCHANGED got /\ \E p \in Pushes : Start(p)
         \/ /\ UNCHANGED before
            /\ \E g \in Plugins, e \in Events : got' = Recorded(got, g, e) /\ spool[e] # Absent
<1>1. CASE \E p \in Pushes : Start(p)
  BY <1>1 DEF Start
<1>2. CASE DeliverAccepted
  <2>1. worker # IdleWorker /\ UNCHANGED before
    BY <1>2 DEF DeliverAccepted
  <2>2. worker.ev \in Events /\ spool[worker.ev] # Absent
    BY <2>1 DEF Inv, Busy, Spooled
  <2>3. Head(worker.todo) \in Plugins
    <3>1. Head(worker.todo) \in Range(live)
      BY <1>2 DEF DeliverAccepted, Listed
    <3>2. live \in Seq(Plugins)
      BY DEF Inv, TypeOK, ConstantsOK
    <3> QED
      BY <3>1, <3>2, ListElements
  <2>4. got' = Recorded(got, Head(worker.todo), worker.ev)
    BY <1>2 DEF DeliverAccepted, Recorded, Inv, TypeOK
  <2> QED
    BY <2>1, <2>2, <2>3, <2>4
<1>3. CASE \E p \in Pushes : SpoolLine(p) \/ Bundle(p) \/ Exit(p) \/ Deliver(p) \/ Timeout(p)
  BY <1>3 DEF SpoolLine, Bundle, Exit, Deliver, Timeout, history
<1>4. CASE Reload \/ Sweep \/ Crash \/ Take \/ DeliverDead \/ DeliverUnrecorded \/ DeliverFiltered \/ DeliverFails
  BY <1>4 DEF Reload, Sweep, Crash, Take, DeliverDead, DeliverUnrecorded, DeliverFiltered, DeliverFails, history
<1>5. CASE \E e \in Events : RetryTimeArrives(e) \/ Requeue(e)
  BY <1>5 DEF RetryTimeArrives, Requeue, history
<1> QED
  BY <1>1, <1>2, <1>3, <1>4, <1>5 DEF Next, Worker

\* The list is what it was before, or has e for the first time, at its end.
Longer(list, old, e) ==
  \/ list = old
  \/ /\ e \notin Range(old)
     /\ \A i \in DOMAIN list :
          \/ i \in DOMAIN old /\ list[i] = old[i]
          \/ list[i] = e /\ \A k \in DOMAIN old : k < i

\* What a plugin got, with one more reception: the earlier ones keep their places.
LEMMA RecordedPlaces ==
  ASSUME TypeOK, NEW g, NEW e \in Events, NEW h \in Traced
  PROVE  Longer(Recorded(got, g, e)[h], got[h], e)
<1>1. got \in [Traced -> Seq(Events)]
  BY DEF TypeOK
<1>2. CASE g = h /\ e \notin Range(got[h])
  <2>1. PICK s \in Seq(Events) : s = got[h]
    BY <1>1
  <2>2. Recorded(got, g, e)[h] = Append(s, e)
    BY <1>1, <1>2, <2>1 DEF Recorded
  <2>3. PICK len \in Nat : len = Len(s) /\ DOMAIN s = 1..len
    BY <2>1
  <2>4. /\ DOMAIN Append(s, e) = 1..(len + 1) /\ Append(s, e)[len + 1] = e
        /\ \A i \in 1..len : Append(s, e)[i] = s[i]
    BY <2>1, <2>3
  <2>5. \A i \in 1..(len + 1) : i \in 1..len \/ (i = len + 1 /\ \A k \in 1..len : k < i)
    BY <2>3
  <2> QED
    BY <1>2, <2>1, <2>2, <2>3, <2>4, <2>5 DEF Longer
<1>3. CASE ~(g = h /\ e \notin Range(got[h]))
  BY <1>1, <1>3 DEF Recorded, Longer
<1> QED
  BY <1>2, <1>3

\* The order survives every step.
LEMMA NextOrder ==
  ASSUME ConstantsOK, Inv, AckMeansReceived, OrderInv, [Next]_vars
  PROVE  OrderInv'
<1>1. CASE UNCHANGED vars
  BY <1>1 DEF vars, OrderInv, Known, GotSpooled, Earlier, AckedPushesInOrder
<1>2. CASE Next
  <2>f. Forward /\ SpoolGrows
    BY <1>2, NextForward
  <2>t. /\ got \in [Traced -> Seq(Events)] /\ before \subseteq Pushes \X Pushes
        /\ \A g \in Traced : Range(got[g]) \subseteq Events
    <3>1. got \in [Traced -> Seq(Events)] /\ before \subseteq Pushes \X Pushes
      BY DEF Inv, TypeOK
    <3> QED
      BY <3>1, ListElements
  <2>e. \A e \in Events : e[1] \in Pushes
    BY DEF Events
  <2>1. Known'
    BY <2>e, <2>f DEF OrderInv, Known, Forward, SpoolGrows
  <2>2. \A pair \in before : notify'[pair[1]] = notify[pair[1]] /\ notify'[pair[1]].pc = "ok"
    BY <2>f, <2>t DEF OrderInv, Earlier, Forward
  <2>3. CASE UNCHANGED <<got, before>>
    <3>1. GotSpooled'
      BY <2>3, <2>f, <2>t DEF OrderInv, GotSpooled, SpoolGrows
    <3>2. Earlier'
      BY <2>2, <2>3 DEF Earlier
    <3>3. AckedPushesInOrder'
      BY <2>2, <2>3 DEF OrderInv, AckedPushesInOrder, Listed
    <3> QED
      BY <2>1, <3>1, <3>2, <3>3 DEF OrderInv
  <2>4. ASSUME UNCHANGED got, NEW p \in Pushes, Start(p)
        PROVE  OrderInv'
    <3>1. before' = before \cup {<<q, p>> : q \in {r \in Pushes : notify[r].pc = "ok"}}
      BY <2>4 DEF Start, At
    <3>2. GotSpooled'
      BY <2>4, <2>f, <2>t DEF OrderInv, GotSpooled, SpoolGrows
    <3>3. \A pair \in before' : pair \in before \/ (pair[2] = p /\ pair[1] \in Pushes /\ notify[pair[1]].pc = "ok")
      BY <3>1
    <3>4. Earlier'
      BY <2>2, <2>f, <3>3 DEF Earlier, Forward
    <3>5. \A g \in Traced : \A j \in DOMAIN got[g] : got[g][j][1] # p
      <4>1. notify[p].pc = "new" /\ notify[p] = NewNotify
        BY <2>4 DEF Start, At, Inv, Valid
      <4>2. Range(notify[p].ids) = {}
        <5>1. notify[p].ids = <<>>
          BY <4>1, NewIsEmpty
        <5> QED
          BY <5>1, EmptyList
      <4>3. \A e \in Events : e[1] = p => spool[e] = Absent
        BY <4>1, <4>2 DEF OrderInv, Known
      <4>4. \A g \in Traced : \A j \in DOMAIN got[g] : got[g][j] \in Events /\ spool[got[g][j]] # Absent
        BY <2>t DEF OrderInv, GotSpooled, Range
      <4> QED
        BY <4>3, <4>4
    <3>6. AckedPushesInOrder'
      <4> SUFFICES ASSUME NEW pair \in before',
                          NEW g \in (Listed(notify'[pair[1]].conf) \cap Sync) \ Filtered,
                          NEW i \in DOMAIN got[g], NEW j \in DOMAIN got[g],
                          got[g][i][1] = pair[1], got[g][j][1] = pair[2]
                   PROVE  i < j
        BY <2>4 DEF AckedPushesInOrder
      <4>1. CASE pair \in before
        BY <2>2, <4>1 DEF OrderInv, AckedPushesInOrder
      <4>2. CASE pair[2] = p
        BY <3>5, <4>2 DEF ConstantsOK
      <4> QED
        BY <3>3, <4>1, <4>2
    <3> QED
      BY <2>1, <3>2, <3>4, <3>6 DEF OrderInv
  <2>5. ASSUME UNCHANGED before, NEW g \in Plugins, NEW e \in Events,
               got' = Recorded(got, g, e), spool[e] # Absent
        PROVE  OrderInv'
    <3>1. \A h \in Traced :
            \/ got'[h] = got[h]
            \/ /\ e \notin Range(got[h])
               /\ \A i \in DOMAIN got'[h] :
                    \/ i \in DOMAIN got[h] /\ got'[h][i] = got[h][i]
                    \/ got'[h][i] = e /\ \A k \in DOMAIN got[h] : k < i
      <4>1. TypeOK
        BY DEF Inv
      <4>2. \A h \in Traced : Longer(got'[h], got[h], e)
        BY <2>5, <4>1, RecordedPlaces
      <4> QED
        BY <4>2 DEF Longer
    <3>2. GotSpooled'
      <4> SUFFICES ASSUME NEW h \in Traced, NEW i \in DOMAIN got'[h]
                   PROVE  spool'[got'[h][i]] # Absent
        BY DEF GotSpooled, Range
      <4>1. got'[h][i] = e \/ (i \in DOMAIN got[h] /\ got'[h][i] = got[h][i])
        BY <3>1
      <4>2. i \in DOMAIN got[h] => got[h][i] \in Events /\ spool[got[h][i]] # Absent
        BY <2>t DEF OrderInv, GotSpooled, Range
      <4> QED
        BY <2>5, <2>f, <4>1, <4>2 DEF SpoolGrows
    <3>3. Earlier'
      BY <2>2, <2>5 DEF Earlier
    <3>4. AckedPushesInOrder'
      <4> SUFFICES ASSUME NEW pair \in before,
                          NEW h \in (Listed(notify[pair[1]].conf) \cap Sync) \ Filtered,
                          NEW i \in DOMAIN got'[h], NEW j \in DOMAIN got'[h],
                          got'[h][i][1] = pair[1], got'[h][j][1] = pair[2]
                   PROVE  i < j
        BY <2>2, <2>5 DEF AckedPushesInOrder
      <4>1. h \in Traced
        BY DEF ConstantsOK
      <4>2. CASE got'[h] = got[h]
        BY <4>2 DEF OrderInv, AckedPushesInOrder
      <4>3. CASE got'[h] # got[h]
        <5>1. pair[1] \in Pushes /\ notify[pair[1]].pc = "ok"
          BY <2>t DEF OrderInv, Earlier
        <5>2. e[1] # pair[1]
          <6>1. Range(notify[pair[1]].ids) \subseteq Range(got[h])
            BY <5>1 DEF AckMeansReceived, At
          <6>2. e[1] = pair[1] => e \in Range(notify[pair[1]].ids)
            BY <2>5, <5>1 DEF OrderInv, Known
          <6> QED
            BY <3>1, <4>1, <4>3, <6>1, <6>2
        <5>3. i \in DOMAIN got[h] /\ got'[h][i] = got[h][i]
          BY <3>1, <4>1, <4>3, <5>2
        <5>4. CASE j \in DOMAIN got[h] /\ got'[h][j] = got[h][j]
          BY <5>3, <5>4 DEF OrderInv, AckedPushesInOrder
        <5>5. CASE \A k \in DOMAIN got[h] : k < j
          BY <5>3, <5>5
        <5> QED
          BY <3>1, <4>1, <4>3, <5>4, <5>5
      <4> QED
        BY <4>2, <4>3
    <3> QED
      BY <2>1, <3>2, <3>3, <3>4 DEF OrderInv
  <2> QED
    BY <1>2, <2>3, <2>4, <2>5, NextHistory
<1> QED
  BY <1>1, <1>2

\* When notify of one push has exited 0 before that of another begins, every sync plugin
\* of the first that does not filter the repository has got the events of the first
\* before those of the second, whatever sweeps, retries, reloads and crashes do.
THEOREM AckedInOrder == ASSUME ConstantsOK PROVE Spec => []AckedPushesInOrder
<1>1. Init => Inv /\ OrderInv
  <2>1. ASSUME Init PROVE OrderInv
    <3>1. \A e \in Events : spool[e] = Absent
      BY <2>1 DEF Init
    <3>2. \A g \in Traced : got[g] = <<>>
      BY <2>1 DEF Init
    <3>3. before = {}
      BY <2>1 DEF Init
    <3>4. GotSpooled
      BY <3>2, EmptyList DEF GotSpooled
    <3> QED
      BY <3>1, <3>3, <3>4 DEF OrderInv, Known, Earlier, AckedPushesInOrder
  <2> QED
    BY <2>1, InitInv
<1>2. Inv /\ OrderInv /\ [Next]_vars => Inv' /\ OrderInv'
  BY NextInv, InvAck, NextOrder
<1>3. OrderInv => AckedPushesInOrder
  BY DEF OrderInv
<1> QED
  BY <1>1, <1>2, <1>3, PTL DEF Spec
-----------------------------------------------------------------------------
(* Who is offered a settled event *)

Over(e) == spool[e].state \in {"delivered", "dead"}

\* A delivery for nobody is one to all plugins; what it has not offered yet, it is going
\* to; and a settled event that nobody works on has been offered.
OfferInv ==
  /\ \A i \in 1..Len(queue) : queue[i].plugin # None => queue[i].for # None
  /\ worker # IdleWorker /\ worker.for = None =>
       Permanent \subseteq offered[worker.ev] \cup Range(worker.todo)
  /\ \A e \in Events : Over(e) /\ (worker = IdleWorker \/ worker.ev # e) => Permanent \subseteq offered[e]

\* A step that offers and settles nothing, and works on nothing new.
OffersNothing ==
  /\ UNCHANGED <<worker, offered>>
  /\ \A e \in Events : Over(e)' => Over(e)

\* Such a step keeps the invariant, if the queue only gains deliveries of the two forms.
LEMMA NothingOffered ==
  ASSUME OfferInv, OffersNothing,
         \A i \in 1..Len(queue') : queue'[i].plugin # None => queue'[i].for # None
  PROVE  OfferInv'
BY DEF OfferInv, OffersNothing, Permanent

\* The steps of notify up to its requests, and its time-out.
LEMMA FrontOffers ==
  ASSUME ConstantsOK, Inv, OfferInv, NEW p \in Pushes,
         Start(p) \/ SpoolLine(p) \/ Bundle(p) \/ Exit(p) \/ Timeout(p)
  PROVE  OfferInv'
<1>1. queue' = queue /\ UNCHANGED <<worker, offered>>
  BY DEF Start, SpoolLine, Bundle, Exit, Timeout, serve, history
<1>2. \A e \in Events : Over(e)' => Over(e)
  <2>1. CASE UNCHANGED spool
    BY <2>1 DEF Over
  <2>2. ASSUME NEW e, spool' = [spool EXCEPT ![e] = NewRecord] PROVE \A f \in Events : Over(f)' => Over(f)
    <3>1. \A f \in Events : spool'[f] = IF f = e THEN NewRecord ELSE spool[f]
      BY <2>2 DEF Inv, TypeOK
    <3>2. NewRecord.state = "pending"
      BY DEF NewRecord
    <3>3. \A f \in Events : f # e => spool'[f].state = spool[f].state
      BY <3>1
    <3>4. \A f \in Events : f = e => spool'[f].state = "pending"
      BY <3>1, <3>2
    <3> QED
      BY <3>3, <3>4 DEF Over
  <2> QED
    BY <2>1, <2>2 DEF Start, SpoolLine, Bundle, Exit, Timeout, serve
<1> QED
  BY <1>1, <1>2, NothingOffered DEF OffersNothing, OfferInv

\* A request that dead-letters an event excuses it; one that is queued names its push.
LEMMA DeliverOffers ==
  ASSUME ConstantsOK, Inv, OfferInv, NEW p \in Pushes, Deliver(p)
  PROVE  OfferInv'
<1>1. PICK r \in notify[p].todo, e \in Events, g \in Plugins :
        /\ e = notify[p].ids[r[2]] /\ g = notify[p].conf[r[1]]
        /\ \/ /\ \E slot \in {WithState(spool[e], "dead"), spool[e]} : spool' = [spool EXCEPT ![e] = slot]
              /\ offered' = Excuse(e) /\ UNCHANGED queue
           \/ Len(queue) < Buffer /\ queue' = Append(queue, Act(e, g, p)) /\ UNCHANGED <<spool, offered>>
           \/ UNCHANGED <<spool, offered, queue>>
  BY RequestTypes DEF Deliver
<1>2. UNCHANGED worker
  BY DEF Deliver
<1>3. CASE UNCHANGED <<spool, offered, queue>>
  BY <1>2, <1>3, NothingOffered DEF OffersNothing, Over, OfferInv
<1>4. CASE Len(queue) < Buffer /\ queue' = Append(queue, Act(e, g, p)) /\ UNCHANGED <<spool, offered>>
  <2>1. Act(e, g, p) \in Action /\ Act(e, g, p).for # None
    BY DEF Act, Action, ConstantsOK
  <2>2. \A i \in 1..Len(queue') : queue'[i].plugin # None => queue'[i].for # None
    BY <1>4, <2>1, QueueAppend DEF Inv, OfferInv
  <2> QED
    BY <1>2, <1>4, <2>2, NothingOffered DEF OffersNothing, Over
<1>5. ASSUME NEW slot, spool' = [spool EXCEPT ![e] = slot], offered' = Excuse(e), UNCHANGED queue
      PROVE  OfferInv'
  <2>1. \A f \in Events : offered'[f] = IF f = e THEN Permanent ELSE offered[f]
    BY <1>5 DEF Excuse, Inv, TypeOK
  <2>2. \A f \in Events : f # e => Over(f)' = Over(f)
    BY <1>5 DEF Over, Inv, TypeOK
  <2>3. Permanent \subseteq Plugins
    BY DEF Permanent
  <2>4. worker # IdleWorker => worker.ev \in Events
    BY DEF Inv, Busy
  <2>5. worker # IdleWorker /\ worker.for = None => Permanent \subseteq offered'[worker.ev] \cup Range(worker.todo)
    BY <2>1, <2>3, <2>4 DEF OfferInv
  <2>6. \A f \in Events : Over(f)' /\ (worker = IdleWorker \/ worker.ev # f) => Permanent \subseteq offered'[f]
    BY <2>1, <2>2, <2>3 DEF OfferInv
  <2> QED
    BY <1>2, <1>5, <2>5, <2>6 DEF OfferInv, Permanent
<1> QED
  BY <1>1, <1>3, <1>4, <1>5

\* Reloads, sweeps and the clock.
LEMMA ServeOffers ==
  ASSUME ConstantsOK, Inv, OfferInv,
         Reload \/ Sweep \/ \E e \in Events : RetryTimeArrives(e) \/ Requeue(e)
  PROVE  OfferInv'
<1>1. CASE Reload \/ Sweep
  BY <1>1, NothingOffered DEF Reload, Sweep, history, OffersNothing, Over, OfferInv
<1>2. ASSUME NEW e \in Events, RetryTimeArrives(e) PROVE OfferInv'
  <2>1. UNCHANGED <<worker, offered, queue>> /\ spool[e].next = "later"
    BY <1>2 DEF RetryTimeArrives, serve, history
  <2>2. spool[e] \in Record
    BY <2>1 DEF Inv, TypeOK, Slot, Absent
  <2>3. Arrived(spool[e]).state = spool[e].state
    BY <2>2 DEF Arrived, Record
  <2>4. \A f \in Events : spool'[f] = IF f = e THEN Arrived(spool[e]) ELSE spool[f]
    BY <1>2 DEF RetryTimeArrives, Inv, TypeOK
  <2>5. \A f \in Events : Over(f)' => Over(f)
    BY <2>3, <2>4 DEF Over
  <2> QED
    BY <2>1, <2>5, NothingOffered DEF OffersNothing, OfferInv
<1>3. ASSUME NEW e \in Events, Requeue(e) PROVE OfferInv'
  <2>1. UNCHANGED <<worker, offered, spool>>
    BY <1>3 DEF Requeue, history
  <2>2. Act(e, None, None) \in Action /\ Act(e, None, None).plugin = None
    BY DEF Act, Action
  <2>3. \A i \in 1..Len(queue') : queue'[i].plugin # None => queue'[i].for # None
    BY <1>3, <2>2, QueueAppend DEF Requeue, Inv, OfferInv
  <2> QED
    BY <2>1, <2>3, NothingOffered DEF OffersNothing, Over
<1> QED
  BY <1>1, <1>2, <1>3
\* The worker begins with all live plugins, the permanent ones among them, or with the
\* one of a request.
LEMMA TakeOffers == ASSUME ConstantsOK, Inv, OfferInv, Take PROVE OfferInv'
<1>1. /\ worker = IdleWorker /\ queue # <<>> /\ queue' = Tail(queue)
      /\ UNCHANGED <<spool, live, offered>>
  BY DEF Take, Idle, history
<1>2. PICK a \in Action : a = queue[1] /\ a = Head(queue)
  BY <1>1, QueueTail DEF Inv
<1>3. /\ a.plugin # None => a.for # None
      /\ \A i \in 1..Len(queue') : queue'[i].plugin # None => queue'[i].for # None
  BY <1>1, <1>2, QueueTail DEF Inv, OfferInv
<1>4. \A e \in Events : Over(e)' => Permanent \subseteq offered'[e]
  BY <1>1 DEF OfferInv, Over
<1>5. worker' # IdleWorker /\ worker'.for = None => Permanent \subseteq Range(worker'.todo)
  <2>1. CASE worker' = worker
    BY <1>1, <2>1
  <2>2. CASE worker' = [ev |-> a.ev, for |-> a.for, todo |-> IF a.plugin = None THEN live ELSE <<a.plugin>>]
    <3>1. a.for = None => worker'.todo = live
      BY <1>3, <2>2
    <3>2. Permanent \subseteq Range(live)
      BY DEF Permanent, Inv, TypeOK
    <3> QED
      BY <2>2, <3>1, <3>2
  <2> QED
    BY <1>2, <2>1, <2>2 DEF Take
<1>6. Permanent' = Permanent
  BY DEF Permanent
<1> QED
  BY <1>3, <1>4, <1>5, <1>6 DEF OfferInv

\* The plugins of a list are its first one and those behind it.
LEMMA FirstAndRest ==
  ASSUME NEW todo \in Seq(Plugins), todo # <<>>
  PROVE  /\ Len(todo) > 1 => Range(todo) \subseteq {Head(todo)} \cup Range(Tail(todo))
         /\ ~(Len(todo) > 1) => Range(todo) \subseteq {Head(todo)}
<1>1. PICK len \in Nat : len = Len(todo) /\ len # 0 /\ DOMAIN todo = 1..len
  OBVIOUS
<1>2. Head(todo) = todo[1]
  BY <1>1
<1>3. ASSUME len > 1, NEW i \in 1..len, i # 1 PROVE todo[i] \in Range(Tail(todo))
  <2>1. DOMAIN Tail(todo) = 1..(len - 1) /\ \A j \in 1..(len - 1) : Tail(todo)[j] = todo[j + 1]
    BY <1>1
  <2>2. PICK j \in 1..(len - 1) : j + 1 = i
    <3>1. i - 1 \in 1..(len - 1) /\ (i - 1) + 1 = i
      BY <1>1, <1>3
    <3> QED
      BY <3>1
  <2>3. j \in DOMAIN Tail(todo) /\ todo[i] = Tail(todo)[j]
    BY <2>1, <2>2
  <2> QED
    BY <2>3 DEF Range
<1>4. CASE len > 1
  BY <1>1, <1>2, <1>3, <1>4 DEF Range
<1>5. CASE ~(len > 1)
  <2>1. len = 1
    BY <1>1, <1>5
  <2>2. DOMAIN todo = {1}
    BY <1>1, <2>1
  <2> QED
    BY <1>1, <1>2, <1>5, <2>2 DEF Range
<1> QED
  BY <1>1, <1>4, <1>5

\* A delivery is done: the event was offered to its plugin, and to all if nobody is left
\* to offer it to or a request has settled it.
LEMMA SettleOffers ==
  ASSUME ConstantsOK, Inv, OfferInv, worker # IdleWorker, NEW slot, NEW ok, Settle(slot, ok), UNCHANGED queue
  PROVE  OfferInv'
<1>1. PICK e \in Events, todo \in Seq(Plugins) : e = worker.ev /\ todo = worker.todo /\ todo # <<>>
  BY DEF Inv, TypeOK, Busy, WorkerType
<1>2. \A f \in Events : f # e => Over(f)' = Over(f) /\ offered'[f] = offered[f]
  BY <1>1 DEF Settle, Over, Excuse, Inv, TypeOK
<1>3. worker' # IdleWorker => worker'.ev = e
  BY <1>1, NextPlugin DEF Settle
<1>4. Permanent' = Permanent /\ Permanent \subseteq Plugins
  BY DEF Permanent
<1>5. CASE worker.for # None
  <2>1. offered'[e] = Permanent
    BY <1>1, <1>5 DEF Settle, Excuse, Inv, TypeOK
  <2>2. \A f \in Events : Over(f)' /\ (worker' = IdleWorker \/ worker'.ev # f) => Permanent \subseteq offered'[f]
    BY <1>1, <1>2, <1>4, <2>1 DEF OfferInv
  <2>3. worker' # IdleWorker => Permanent \subseteq offered'[worker'.ev]
    BY <1>3, <1>4, <2>1
  <2> QED
    BY <1>4, <2>2, <2>3 DEF OfferInv
<1>6. CASE worker.for = None
  <2>1. offered'[e] = offered[e] \cup (Permanent \cap {Head(todo)})
    BY <1>1, <1>6 DEF Settle, Inv, TypeOK
  <2>2. Permanent \subseteq offered[e] \cup Range(todo)
    BY <1>1, <1>6 DEF OfferInv
  <2>3. worker' # IdleWorker => Len(todo) > 1 /\ worker'.todo = Tail(todo)
    <3>1. CASE Len(worker.todo) > 1
      BY <1>1, <3>1 DEF Settle, Next1, Inv, TypeOK, WorkerType
    <3>2. CASE ~(Len(worker.todo) > 1)
      BY <3>2 DEF Settle, Next1
    <3> QED
      BY <3>1, <3>2
  <2>4. worker' = IdleWorker => ~(Len(todo) > 1)
    <3>1. CASE Len(worker.todo) > 1
      <4>1. worker' = [worker EXCEPT !.todo = Tail(todo)]
        BY <1>1, <3>1 DEF Settle, Next1
      <4>2. worker'.todo = Tail(todo) /\ Tail(todo) # <<>>
        <5>1. worker'.todo = Tail(todo)
          BY <4>1 DEF Inv, TypeOK, WorkerType
        <5>2. PICK len \in Nat : len = Len(todo) /\ len > 1
          BY <1>1, <3>1
        <5>3. Len(Tail(todo)) = len - 1
          BY <1>1, <5>2
        <5>4. len - 1 # 0
          BY <5>2
        <5> QED
          BY <5>1, <5>3, <5>4
      <4> QED
        BY <4>2 DEF IdleWorker
    <3>2. CASE ~(Len(worker.todo) > 1)
      BY <1>1, <3>2
    <3> QED
      BY <3>1, <3>2
  <2>5. worker' # IdleWorker => Permanent \subseteq offered'[e] \cup Range(worker'.todo)
    BY <1>1, <2>1, <2>2, <2>3, FirstAndRest
  <2>6. worker' = IdleWorker => Permanent \subseteq offered'[e]
    BY <1>1, <2>1, <2>2, <2>4, FirstAndRest
  <2>7. \A f \in Events : Over(f)' /\ (worker' = IdleWorker \/ worker'.ev # f) => Permanent \subseteq offered'[f]
    BY <1>1, <1>2, <1>3, <2>6 DEF OfferInv
  <2> QED
    BY <1>3, <1>4, <2>5, <2>7 DEF OfferInv
<1> QED
  BY <1>5, <1>6

\* A crash empties the queue and excuses the event in execution.
LEMMA CrashOffers == ASSUME ConstantsOK, Inv, OfferInv, Crash PROVE OfferInv'
<1>1. queue' = <<>> /\ worker' = IdleWorker /\ spool' = spool
  BY DEF Crash
<1>2. \A e \in Events : Over(e)' = Over(e)
  BY <1>1 DEF Over
<1>3. Permanent' = Permanent /\ Permanent \subseteq Plugins
  BY DEF Permanent
<1>s. ASSUME \A e \in Events : Over(e) => Permanent \subseteq offered'[e] PROVE OfferInv'
  <2>1. \A e \in Events : Over(e)' => Permanent' \subseteq offered'[e]
    BY <1>2, <1>3, <1>s
  <2>2. \A i \in 1..Len(queue') : FALSE
    BY <1>1, EmptyList
  <2> QED
    BY <1>1, <2>1, <2>2 DEF OfferInv
<1>4. CASE worker = IdleWorker
  <2>1. offered' = offered
    BY <1>4 DEF Crash
  <2> QED
    BY <1>4, <1>s, <2>1 DEF OfferInv
<1>5. CASE worker # IdleWorker
  <2>1. \A e \in Events : offered'[e] = IF e = worker.ev THEN Permanent ELSE offered[e]
    BY <1>5 DEF Crash, Excuse, Inv, TypeOK
  <2>2. \A e \in Events : Over(e) /\ worker.ev # e => Permanent \subseteq offered[e]
    BY DEF OfferInv
  <2> QED
    BY <1>3, <1>s, <2>1, <2>2
<1> QED
  BY <1>4, <1>5

\* Every step keeps what the settled events were offered.
LEMMA NextOffers == ASSUME ConstantsOK, Inv, OfferInv, [Next]_vars PROVE OfferInv'
<1>1. CASE \E p \in Pushes : Start(p) \/ SpoolLine(p) \/ Bundle(p) \/ Exit(p) \/ Deliver(p) \/ Timeout(p)
  BY <1>1, FrontOffers, DeliverOffers
<1>2. CASE Reload \/ Sweep \/ \E e \in Events : RetryTimeArrives(e) \/ Requeue(e)
  BY <1>2, ServeOffers
<1>3. CASE Take \/ Crash
  BY <1>3, TakeOffers, CrashOffers
<1>4. CASE DeliverDead \/ DeliverUnrecorded \/ DeliverAccepted \/ DeliverFiltered \/ DeliverFails
  <2>1. worker # IdleWorker /\ UNCHANGED queue /\ \E slot, ok : Settle(slot, ok)
    BY <1>4 DEF DeliverDead, DeliverUnrecorded, DeliverAccepted, DeliverFiltered, DeliverFails
  <2> QED
    BY <2>1, SettleOffers
<1>5. CASE UNCHANGED vars
  BY <1>5, NothingOffered DEF vars, OffersNothing, Over, OfferInv
<1> QED
  BY <1>1, <1>2, <1>3, <1>4, <1>5 DEF Next, Worker

\* For any number of pushes, lines and plugins, and whatever reloads, sweeps, failures and
\* crashes come in between: the state that one plugin's answer gives an event hides it
\* from another plugin, configured all the time, only if a request took part in settling
\* it or serve died in the middle of its deliverAllAction.
THEOREM SettledWasOffered == ASSUME ConstantsOK PROVE Spec => []HiddenOnlyBySync
<1>1. Init => Inv /\ OfferInv
  <2>1. ASSUME Init PROVE OfferInv
    <3>1. \A e \in Events : spool[e].state = "absent"
      BY <2>1 DEF Init, Absent
    <3>2. \A e \in Events : ~Over(e)
      BY <3>1 DEF Over
    <3>3. queue = <<>> /\ worker = IdleWorker
      BY <2>1 DEF Init
    <3> QED
      BY <3>2, <3>3, EmptyList DEF OfferInv
  <2> QED
    BY <2>1, InitInv
<1>2. Inv /\ OfferInv /\ [Next]_vars => Inv' /\ OfferInv'
  BY NextInv, NextOffers
<1>3. OfferInv => HiddenOnlyBySync
  BY DEF OfferInv, HiddenOnlyBySync, Permanent, Over
<1> QED
  BY <1>1, <1>2, <1>3, PTL DEF Spec
==============================================================================
