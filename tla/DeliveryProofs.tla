---------------------------- MODULE DeliveryProofs ----------------------------
(***************************************************************************)
(* Proofs about module Delivery, for every set of events, plugins and      *)
(* requests, every buffer size and every retry budget.                     *)
(***************************************************************************)
EXTENDS Delivery, SequenceTheorems, TLAPS

Delivering == {"deliver", "call", "read", "write"}

\* What every copy of a record of e satisfies, in the spool or held between
\* the read and the write of an update.
GoodRecord(e, rec) ==
  /\ rec.state = "delivered" => accepted[e] # {}
  /\ rec.state = "pending" =>
       rec.attempts <= Budget /\ (rec.next = "none" <=> rec.attempts = 0)
  /\ rec.state = "dead" => rec.attempts > Budget \/ e \in finalFail

\* Queued actions carry the event or the accepted request they need.
QueueShape ==
  \A i \in 1..Len(actions) :
    /\ actions[i].kind = "deliverAll" => actions[i].arg \in Events
    /\ actions[i].kind = "deliver" =>
         /\ actions[i].arg \in Requests
         /\ req[actions[i].arg].ev \in Events
         /\ req[actions[i].arg].plugin \in Plugins
         /\ req[actions[i].arg].pc # "new"

\* So do the locals of the handlers and of the worker.
Shape ==
  /\ QueueShape
  /\ \A r \in Requests : req[r].pc \in InFlight \cup {"ok"} =>
       req[r].ev \in Events /\ req[r].plugin \in Plugins
  /\ worker.pc \in Delivering => worker.ev \in Events /\ worker.todo # <<>>
  /\ worker.pc \in Delivering /\ worker.req # None =>
       /\ req[worker.req].pc # "new"
       /\ worker.ev = req[worker.req].ev
       /\ worker.todo = <<req[worker.req].plugin>>
  /\ worker.pc \notin Delivering => worker.req = None
  /\ worker.pc \notin {"delete", "requeue"} => worker.ids = {}

\* Every copy of a record is good, and an update does what its outcome allows.
Records ==
  /\ \A e \in Events : GoodRecord(e, spool[e])
  /\ \A e \in Events : spool[e] # Absent => e \in written
  /\ worker.pc = "write" =>
       /\ worker.rec \in Record
       /\ worker.ev \in written
       /\ GoodRecord(worker.ev, worker.rec)
  /\ worker.pc \in {"read", "write"} =>
       /\ worker.op = "delivered" => Head(worker.todo) \in accepted[worker.ev]
       /\ worker.op = "dead" => worker.ev \in finalFail
  /\ \A r \in Requests : req[r].pc \in {"deadRead", "deadWrite"} => req[r].ev \in finalFail
  /\ \A r \in Requests : req[r].pc = "deadWrite" =>
       req[r].rec \in Record /\ req[r].ev \in written

\* What a purge has listed, and a pending copy the worker is about to write
\* back, keep out of each other's way.
Settled ==
  /\ \A e \in cliPurge :
       e \in written /\ accepted[e] # {} /\ spool[e].state # "pending"
  /\ worker.pc = "delete" => \A e \in worker.ids :
       e \in written /\ accepted[e] # {} /\ spool[e].state # "pending"
  /\ worker.pc = "write" /\ worker.rec.state = "pending" =>
       /\ spool[worker.ev].state \in {"pending", "dead"}
       /\ worker.ev \notin cliPurge

\* The inductive invariant.
Core == Shape /\ Records /\ AckMeansAccepted /\ Settled

IInv == TypeOK /\ Core

-----------------------------------------------------------------------------
(* Lemmas about the operators of the model. *)

\* An empty slot and the record notify writes are slots of the spool, and an
\* empty slot is no record.
LEMMA AbsentType == Absent \in Slot /\ NewRecord \in Slot /\ Absent \notin Record
  BY DEF Slot, Record, Absent, NewRecord, State, RetryTime

\* The passing of a retry time keeps a slot a slot.
LEMMA ArrivedType == ASSUME NEW rec \in Slot PROVE Arrived(rec) \in Slot
  BY DEF Arrived, Slot, Record, Absent, State, RetryTime

\* SetState and RecordFailure turn a record into a record.
LEMMA MutatedType ==
  ASSUME NEW rec \in Record, NEW op \in {"delivered", "dead", "failed"}
  PROVE  Mutated(op, rec) \in Record /\ WithState(rec, "dead") \in Record
  <1>1. \A st \in State : WithState(rec, st) \in Record
    BY DEF WithState, Record
  <1>2. rec.attempts + 1 \in Nat
    BY DEF Record
  <1>3. WithFailure(rec) \in Record
    <2>1. CASE RetryScheduled(rec.attempts + 1)
      BY <1>2, <2>1 DEF WithFailure, Record, RetryTime
    <2>2. CASE ~RetryScheduled(rec.attempts + 1)
      BY <1>2, <2>2 DEF WithFailure, Record, RetryTime, State
    <2> QED BY <2>1, <2>2
  <1> QED BY <1>1, <1>3 DEF Mutated, State

\* deliverAllAction's loop: taking one of several plugins leaves some.
LEMMA TailNotEmpty ==
  ASSUME NEW S, NEW s \in Seq(S), Len(s) > 1
  PROVE  Tail(s) # <<>>
  <1>1. s # <<>> /\ Len(s) \in Nat
    BY EmptySeq, LenProperties
  <1>2. Len(Tail(s)) = Len(s) - 1
    BY <1>1, HeadTailProperties
  <1>3. Len(Tail(s)) # Len(<<>>)
    BY <1>1, <1>2, EmptySeq
  <1> QED BY <1>3, Zenon

\* A handler may replace its own request record.
LEMMA RequestUpdate ==
  ASSUME TypeOK, NEW r \in Requests, NEW x \in RequestType
  PROVE  [req EXCEPT ![r] = x] \in [Requests -> RequestType]
  BY DEF TypeOK

\* A handler may move to any of its positions.
LEMMA RequestPCUpdate ==
  ASSUME TypeOK, NEW r \in Requests, NEW c \in RequestPC
  PROVE  [req EXCEPT ![r].pc = c] \in [Requests -> RequestType]
  <1>1. [req[r] EXCEPT !.pc = c] \in RequestType
    BY DEF TypeOK, RequestType
  <1> QED BY <1>1 DEF TypeOK

\* The reply of the worker keeps the requests typed.
LEMMA ReplyType ==
  ASSUME TypeOK, NEW r, NEW c \in RequestPC, Reply(r, c)
  PROVE  req' \in [Requests -> RequestType]
  BY RequestPCUpdate DEF Reply, TypeOK

\* The end of one plugin's delivery keeps worker and requests typed.
LEMMA EndDeliverType ==
  ASSUME TypeOK, NEW c \in RequestPC, EndDeliver(c)
  PROVE  worker' \in WorkerType /\ req' \in [Requests -> RequestType]
  <1>1. req' \in [Requests -> RequestType]
    BY ReplyType DEF EndDeliver
  <1>2. worker.todo \in Seq(Plugins) /\ (Len(worker.todo) > 1 => Tail(worker.todo) \in Seq(Plugins))
    BY DEF TypeOK, WorkerType
  <1>3. CASE Len(worker.todo) > 1
    BY <1>1, <1>2, <1>3, AbsentType DEF EndDeliver, TypeOK, WorkerType, WorkerPC
  <1>4. CASE ~(Len(worker.todo) > 1)
    BY <1>1, <1>4, AbsentType DEF EndDeliver, WorkerType, WorkerPC, IdleWorker
  <1> QED BY <1>3, <1>4

\* A send the channel accepts keeps it typed and within its capacity.
LEMMA SendType ==
  ASSUME TypeOK, NEW a \in Action, Send(a)
  PROVE  actions' \in Seq(Action) /\ Len(actions') <= BufferSize
  BY DeliveryAssumption DEF TypeOK, Send, HasRoom

\* The worker's receive takes an action and leaves a shorter channel.
LEMMA DequeueType ==
  ASSUME TypeOK, NEW kinds, Dequeue(kinds)
  PROVE  /\ actions' \in Seq(Action) /\ Len(actions') <= BufferSize
         /\ Head(actions) \in Action /\ Head(actions) = actions[1]
         /\ Len(actions) \in Nat \ {0} /\ Len(actions') = Len(actions) - 1
         /\ \A i \in 1..Len(actions') : actions'[i] = actions[i + 1]
  BY DeliveryAssumption DEF TypeOK, Dequeue

-----------------------------------------------------------------------------
(* Type correctness. *)

\* Every step of gitd serve and its neighbours keeps the type invariant.
LEMMA TypeStep == IInv /\ [Next]_vars => TypeOK'
  <1> SUFFICES ASSUME IInv, [Next]_vars PROVE TypeOK'
    OBVIOUS
  <1> USE DeliveryAssumption, AbsentType DEF IInv, Core
  <1>1. CASE Environment
    <2>1. ASSUME NEW e \in Events, NotifyWrite(e) PROVE TypeOK'
      BY <2>1 DEF NotifyWrite, Store, TypeOK
    <2>2. ASSUME NEW e \in Events, RetryTimeArrives(e) PROVE TypeOK'
      <3>1. spool' \in [Events -> Slot]
        BY <2>2, ArrivedType DEF RetryTimeArrives, Store, TypeOK
      <3>2. worker' \in WorkerType
        BY <2>2, ArrivedType DEF RetryTimeArrives, TypeOK, WorkerType
      <3>3. req' \in [Requests -> RequestType]
        BY SMTT(30), <2>2, ArrivedType DEF RetryTimeArrives, TypeOK, RequestType
      <3> QED BY <2>2, <3>1, <3>2, <3>3 DEF RetryTimeArrives, TypeOK
    <2>3. ASSUME NEW e \in Events, RetentionPasses(e) PROVE TypeOK'
      BY <2>3 DEF RetentionPasses, TypeOK
    <2>4. ASSUME NEW e \in Events, CliPurgeDelete(e) PROVE TypeOK'
      BY <2>4 DEF CliPurgeDelete, Store, TypeOK
    <2>5. ASSUME Reload PROVE TypeOK'
      BY <2>5 DEF Reload, TypeOK
    <2>6. ASSUME CliPurgeList PROVE TypeOK'
      BY <2>6 DEF CliPurgeList, ExpiredEvents, TypeOK
    <2> QED BY <1>1, <2>1, <2>2, <2>3, <2>4, <2>5, <2>6 DEF Environment
  <1>2. CASE Lifecycle
    <2>1. ASSUME Start PROVE TypeOK'
      BY <2>1 DEF Start, DueEvents, TypeOK
    <2>2. ASSUME NEW e \in Events, CatchUpSend(e) PROVE TypeOK'
      <3>1. Act("deliverAll", e) \in Action
        BY DEF Act, Action
      <3> QED BY <2>2, <3>1, SendType DEF CatchUpSend, TypeOK
    <2>3. ASSUME StartupSend PROVE TypeOK'
      <3>1. Act("startup", None) \in Action
        BY DEF Act, Action
      <3> QED BY <2>3, <3>1, SendType DEF StartupSend, TypeOK
    <2>4. ASSUME SweepLoopSubmit PROVE TypeOK'
      <3>1. Act("sweep", None) \in Action
        BY DEF Act, Action
      <3> QED BY <2>4, <3>1, SendType DEF SweepLoopSubmit, TypeOK
    <2>5. ASSUME SweepLoopBusy PROVE TypeOK'
      BY <2>5 DEF SweepLoopBusy, TypeOK
    <2>6. ASSUME Crash PROVE TypeOK'
      <3>1. worker' \in WorkerType
        BY <2>6 DEF Crash, IdleWorker, WorkerType, WorkerPC
      <3>2. req' \in [Requests -> RequestType]
        <4>1. SUFFICES ASSUME NEW r \in Requests PROVE req'[r] \in RequestType
          BY <2>6 DEF Crash
        <4>2. req[r] \in RequestType
          BY DEF TypeOK
        <4> QED BY <2>6, <4>2 DEF Crash, RequestType, RequestPC
      <3>3. actions' \in Seq(Action) /\ Len(actions') <= BufferSize
        BY <2>6 DEF Crash
      <3> QED BY <2>6, <3>1, <3>2, <3>3 DEF Crash, TypeOK
    <2> QED BY <1>2, <2>1, <2>2, <2>3, <2>4, <2>5, <2>6 DEF Lifecycle
  <1>3. CASE Handlers
    <2> USE DEF RequestPC, InFlight
    <2>1. ASSUME NEW r \in Requests, NEW e \in Events, NEW p \in Plugins,
                 HandleDeliver(r, e, p)
          PROVE  TypeOK'
      <3>1. req'[r] \in RequestType
        <4> DEFINE c == IF Configured(p) THEN "submitting" ELSE "deadRead"
        <4>1. req[r] \in RequestType
          BY DEF TypeOK
        <4>2. req'[r] = [req[r] EXCEPT !.ev = e, !.plugin = p, !.pc = c]
          BY <2>1 DEF HandleDeliver, TypeOK
        <4>3. c \in RequestPC
          OBVIOUS
        <4> HIDE DEF c, RequestPC
        <4> QED BY <4>1, <4>2, <4>3 DEF RequestType
      <3>2. req' = [req EXCEPT ![r] = req'[r]]
        BY <2>1 DEF HandleDeliver, TypeOK
      <3> QED BY <2>1, <3>1, <3>2, RequestUpdate DEF HandleDeliver, TypeOK
    <2>2. ASSUME NEW r \in Requests, DeadLetterRead(r) PROVE TypeOK'
      <3>1. req[r].ev \in Events
        BY <2>2 DEF DeadLetterRead, QueueShape, Shape
      <3>2. req'[r] \in RequestType
        <4>1. req[r] \in RequestType /\ spool[req[r].ev] \in Slot
          BY <3>1 DEF TypeOK
        <4>2. req'[r] = [req[r] EXCEPT !.pc = "deadWrite", !.rec = spool[req[r].ev]]
          BY <2>2 DEF DeadLetterRead, TypeOK
        <4> QED BY <4>1, <4>2 DEF RequestType
      <3>3. req' = [req EXCEPT ![r] = req'[r]]
        BY <2>2 DEF DeadLetterRead, TypeOK
      <3> QED BY <2>2, <3>2, <3>3, RequestUpdate DEF DeadLetterRead, TypeOK
    <2>3. ASSUME NEW r \in Requests, DeadLetterWrite(r) PROVE TypeOK'
      <3>1. req' \in [Requests -> RequestType]
        BY <2>3, RequestPCUpdate DEF DeadLetterWrite
      <3>2. WithState(req[r].rec, "dead") \in Slot
        BY <2>3, MutatedType DEF DeadLetterWrite, Records, Slot
      <3> QED BY <2>3, <3>1, <3>2 DEF DeadLetterWrite, Store, TypeOK
    <2>4. ASSUME NEW r \in Requests, DeadLetterFails(r) PROVE TypeOK'
      BY <2>4, RequestPCUpdate DEF DeadLetterFails, TypeOK
    <2>5. ASSUME NEW r \in Requests, Submit(r) PROVE TypeOK'
      <3>1. Act("deliver", r) \in Action
        BY DEF Act, Action
      <3> QED BY <2>5, <3>1, SendType, RequestPCUpdate DEF Submit, TypeOK
    <2>6. ASSUME NEW r \in Requests, SubmitBusy(r) PROVE TypeOK'
      BY <2>6, RequestPCUpdate DEF SubmitBusy, TypeOK
    <2>7. ASSUME NEW r \in Requests, Disconnect(r) PROVE TypeOK'
      BY <2>7, RequestPCUpdate DEF Disconnect, TypeOK
    <2>8. ASSUME NEW r \in Requests, SubmitOther(r) PROVE TypeOK'
      <3>1. Act("other", None) \in Action
        BY DEF Act, Action
      <3> QED BY <2>8, <3>1, SendType, RequestPCUpdate DEF SubmitOther, TypeOK
    <2> QED BY <1>3, <2>1, <2>2, <2>3, <2>4, <2>5, <2>6, <2>7, <2>8 DEF Handlers
  <1>4. CASE Worker
    <2> USE DEF WorkerPC
    <2>1. ASSUME TakeDeliverAll PROVE TypeOK'
      <3>1. Head(actions).arg \in Events
        BY <2>1, DequeueType DEF TakeDeliverAll, Dequeue, QueueShape, Shape
      <3>2. worker' \in WorkerType
        BY <2>1, <3>1 DEF TakeDeliverAll, TypeOK, WorkerType
      <3> QED BY <2>1, <3>2, DequeueType DEF TakeDeliverAll, TypeOK
    <2>2. ASSUME TakeDeliver PROVE TypeOK'
      <3> DEFINE r == Head(actions).arg
      <3>1. r \in Requests /\ req[r].ev \in Events /\ req[r].plugin \in Plugins
        BY <2>2, DequeueType DEF TakeDeliver, Dequeue, QueueShape, Shape
      <3>2. <<req[r].plugin>> \in Seq(Plugins)
        BY <3>1
      <3>3. worker' \in WorkerType
        BY <2>2, <3>1, <3>2 DEF TakeDeliver, TypeOK, WorkerType
      <3> QED BY <2>2, <3>3, DequeueType DEF TakeDeliver, TypeOK
    <2>3. ASSUME TakeSweep PROVE TypeOK'
      <3>1. worker' \in WorkerType
        BY <2>3 DEF TakeSweep, TypeOK, WorkerType
      <3> QED BY <2>3, <3>1, DequeueType DEF TakeSweep, TypeOK
    <2>4. ASSUME TakeOther PROVE TypeOK'
      <3>1. worker' \in WorkerType
        BY <2>4 DEF TakeOther, TypeOK, WorkerType
      <3> QED BY <2>4, <3>1, DequeueType DEF TakeOther, TypeOK
    <2>5. ASSUME DeliverBegin PROVE TypeOK'
      BY <2>5 DEF DeliverBegin, TypeOK, WorkerType
    <2>6. ASSUME DeliverNoRecord PROVE TypeOK'
      <3>1. "err" \in RequestPC
        BY DEF RequestPC
      <3> QED BY <2>6, <3>1, EndDeliverType DEF DeliverNoRecord, TypeOK
    <2>7. ASSUME DeliverUnknown PROVE TypeOK'
      BY <2>7 DEF DeliverUnknown, TypeOK, WorkerType, QueueShape, Shape, Delivering
    <2>8. ASSUME PluginAccepts PROVE TypeOK'
      <3>1. worker.ev \in Events /\ Head(worker.todo) \in Plugins
        BY <2>8 DEF PluginAccepts, QueueShape, Shape, Delivering, TypeOK, WorkerType
      <3>2. accepted' \in [Events -> SUBSET Plugins]
        BY <2>8, <3>1 DEF PluginAccepts, TypeOK
      <3>3. worker' \in WorkerType
        BY <2>8 DEF PluginAccepts, TypeOK, WorkerType
      <3> QED BY <2>8, <3>2, <3>3 DEF PluginAccepts, TypeOK
    <2>9. ASSUME PluginFails PROVE TypeOK'
      BY <2>9 DEF PluginFails, TypeOK, WorkerType
    <2>10. ASSUME UpdateRead PROVE TypeOK'
      <3>1. worker.ev \in Events
        BY <2>10 DEF UpdateRead, QueueShape, Shape, Delivering
      <3>2. worker' \in WorkerType
        BY <2>10, <3>1 DEF UpdateRead, TypeOK, WorkerType
      <3> QED BY <2>10, <3>2 DEF UpdateRead, TypeOK
    <2>11. ASSUME UpdateWrite PROVE TypeOK'
      <3>1. "err" \in RequestPC /\ "ok" \in RequestPC
        BY DEF RequestPC
      <3>2. worker' \in WorkerType /\ req' \in [Requests -> RequestType]
        BY <2>11, <3>1, EndDeliverType DEF UpdateWrite
      <3>3. Mutated(worker.op, worker.rec) \in Slot
        BY <2>11, MutatedType DEF UpdateWrite, Records, TypeOK, WorkerType, Slot
      <3> QED BY <2>11, <3>2, <3>3 DEF UpdateWrite, Store, TypeOK
    <2>12. ASSUME UpdateFails PROVE TypeOK'
      <3>1. "err" \in RequestPC
        BY DEF RequestPC
      <3> QED BY <2>12, <3>1, EndDeliverType DEF UpdateFails, TypeOK
    <2>13. ASSUME SweepPurgeList PROVE TypeOK'
      BY <2>13 DEF SweepPurgeList, ExpiredEvents, TypeOK, WorkerType
    <2>14. ASSUME SweepCatchUp PROVE TypeOK'
      BY <2>14 DEF SweepCatchUp, DueEvents, TypeOK, WorkerType
    <2>15. ASSUME SweepFails PROVE TypeOK'
      <3>1. worker' \in WorkerType
        <4>1. worker \in WorkerType
          BY DEF TypeOK
        <4>2. CASE worker' = [worker EXCEPT !.pc = "delete"]
          BY <4>1, <4>2 DEF WorkerType
        <4>3. CASE worker' = [worker EXCEPT !.ids = {}]
          BY <4>1, <4>3 DEF WorkerType
        <4>4. CASE worker' = [worker EXCEPT !.pc = "requeue"]
          BY <4>1, <4>4 DEF WorkerType
        <4> QED BY <2>15, <4>2, <4>3, <4>4 DEF SweepFails
      <3> QED BY <2>15, <3>1 DEF SweepFails, TypeOK
    <2>16. ASSUME SweepEnd PROVE TypeOK'
      BY <2>16 DEF SweepEnd, IdleWorker, TypeOK, WorkerType
    <2>17. ASSUME EndOther PROVE TypeOK'
      BY <2>17 DEF EndOther, IdleWorker, TypeOK, WorkerType
    <2>18. ASSUME NEW e \in Events, SweepDelete(e) PROVE TypeOK'
      BY <2>18 DEF SweepDelete, Store, TypeOK, WorkerType
    <2>19. ASSUME NEW e \in Events, SweepRequeue(e) PROVE TypeOK'
      <3>1. Act("deliverAll", e) \in Action
        BY DEF Act, Action
      <3>2. actions' \in Seq(Action) /\ Len(actions') <= BufferSize
        BY <2>19, <3>1, SendType DEF SweepRequeue, TypeOK
      <3>3. worker' \in WorkerType
        BY <2>19 DEF SweepRequeue, TypeOK, WorkerType
      <3> QED BY <2>19, <3>2, <3>3 DEF SweepRequeue, TypeOK
    <2> QED
      BY <1>4, <2>1, <2>2, <2>3, <2>4, <2>5, <2>6, <2>7, <2>8, <2>9, <2>10, <2>11,
         <2>12, <2>13, <2>14, <2>15, <2>16, <2>17, <2>18, <2>19 DEF Worker
  <1>5. CASE UNCHANGED vars
    BY <1>5 DEF vars, TypeOK
  <1> QED BY <1>1, <1>2, <1>3, <1>4, <1>5 DEF Next

-----------------------------------------------------------------------------
(* The other conjuncts of the invariant, one group of actions at a time. *)

USE DEF Slot, Record, Absent, State, RetryTime

\* Taking the head of the queue leaves the arguments of the rest as they were.
LEMMA DequeueShape ==
  ASSUME IInv, NEW kinds, Dequeue(kinds), UNCHANGED req
  PROVE  QueueShape'
  <1>1. TypeOK /\ QueueShape
    BY DEF IInv, Core, QueueShape, Shape
  <1>2. SUFFICES ASSUME NEW i \in 1..Len(actions')
                 PROVE  actions'[i] = actions[i + 1] /\ i + 1 \in 1..Len(actions)
    BY <1>1 DEF QueueShape
  <1> QED BY <1>1, DequeueType

\* The end of a Deliver call leaves the queue's arguments and the worker's
\* locals set: a todo list with a next plugin is deliverAllAction's, which has
\* no request.
LEMMA EndDeliverShape ==
  ASSUME IInv, worker.pc \in Delivering, NEW c \in {"ok", "err"}, EndDeliver(c),
         UNCHANGED actions
  PROVE  Shape'
  <1> USE DEF IInv, Core
  <1>1. \A r \in Requests :
          /\ req'[r].ev = req[r].ev /\ req'[r].plugin = req[r].plugin
          /\ req'[r].pc = req[r].pc \/ (req[r].pc = "waiting" /\ req'[r].pc = c)
    BY DEF EndDeliver, Reply, TypeOK, RequestType
  <1>2. \A r \in Requests : req'[r].pc \in InFlight \cup {"ok"} =>
          req'[r].ev \in Events /\ req'[r].plugin \in Plugins
    BY <1>1 DEF QueueShape, Shape, InFlight
  <1>3. QueueShape'
    BY <1>1 DEF Shape, QueueShape
  <1>4. CASE Len(worker.todo) > 1
    <2>1. worker.todo \in Seq(Plugins)
      BY DEF TypeOK, WorkerType
    <2>2. Tail(worker.todo) # <<>>
      BY <1>4, <2>1, TailNotEmpty
    <2>3. worker.req = None
      <3>1. SUFFICES ASSUME worker.req # None PROVE FALSE
        OBVIOUS
      <3>2. worker.todo = <<req[worker.req].plugin>>
        BY <3>1 DEF QueueShape, Shape
      <3>3. Len(worker.todo) = 1
        BY <3>2
      <3> QED BY <1>4, <3>3
    <2>4. worker' = [worker EXCEPT !.pc = "deliver", !.todo = Tail(@), !.rec = Absent]
      BY <1>4 DEF EndDeliver
    <2>5. /\ worker'.pc = "deliver" /\ worker'.ev = worker.ev /\ worker'.req = None
          /\ worker'.todo = Tail(worker.todo) /\ worker'.ids = {}
      BY <2>3, <2>4 DEF TypeOK, WorkerType, Shape, Delivering
    <2> QED BY <1>2, <1>3, <2>2, <2>5 DEF Shape, QueueShape, Delivering
  <1>5. CASE ~(Len(worker.todo) > 1)
    BY <1>2, <1>3, <1>5 DEF EndDeliver, IdleWorker, Shape, QueueShape, Delivering
  <1> QED BY <1>4, <1>5

\* The initial states satisfy the invariant.
LEMMA InitIInv == Init => IInv
  BY SMTT(30), BudgetAssumption, DeliveryAssumption
  DEF Init, IInv, Core, TypeOK, WorkerType, RequestType, QueueShape, Shape, Records,
      AckMeansAccepted, Settled, GoodRecord, IdleWorker, NewRequest, InFlight,
      Delivering, WorkerPC, RequestPC

\* What each part of the invariant does not depend on.
LEMMA Frames ==
  ASSUME IInv
  PROVE  /\ UNCHANGED <<actions, worker, req>> => Shape'
         /\ UNCHANGED <<spool, written, worker, req, accepted, finalFail>> => Records'
         /\ UNCHANGED <<req, accepted>> => AckMeansAccepted'
         /\ UNCHANGED <<spool, written, worker, cliPurge, accepted>> => Settled'
  <1> USE DEF IInv, Core
  <1>1. UNCHANGED <<actions, worker, req>> => Shape'
    BY DEF Shape, QueueShape
  <1>2. ASSUME UNCHANGED <<spool, written, worker, req, accepted, finalFail>> PROVE Records'
    <2>1. \A e, rec : GoodRecord(e, rec) => GoodRecord(e, rec)'
      BY <1>2 DEF GoodRecord
    <2> QED BY <1>2, <2>1 DEF Records, GoodRecord
  <1>3. UNCHANGED <<req, accepted>> => AckMeansAccepted'
    BY DEF AckMeansAccepted
  <1>4. UNCHANGED <<spool, written, worker, cliPurge, accepted>> => Settled'
    BY DEF Settled
  <1> QED BY <1>1, <1>2, <1>3, <1>4

\* A send keeps the shape if the action has the argument it needs.
LEMMA SendShape ==
  ASSUME IInv, NEW kind, NEW arg, Send(Act(kind, arg)), UNCHANGED <<worker, req>>,
         kind # "deliver", kind = "deliverAll" => arg \in Events
  PROVE  Shape'
  <1>1. QueueShape'
    BY DEF IInv, Core, TypeOK, Shape, QueueShape, Send, Act
  <1> QED BY <1>1 DEF IInv, Core, Shape

\* Notify, time, SIGHUP and the purge command preserve the invariant.
LEMMA EnvironmentStep == IInv /\ Environment => Core'
  <1> SUFFICES ASSUME IInv, Environment PROVE Core'
    OBVIOUS
  <1> USE BudgetAssumption, DeliveryAssumption DEF IInv, Core
  <1>1. ASSUME NEW e \in Events, NotifyWrite(e) PROVE Core'
    <2>1. Shape' /\ AckMeansAccepted'
      BY <1>1, Frames DEF NotifyWrite
    <2>2. Records'
      BY <1>1 DEF NotifyWrite, Store, NewRecord, TypeOK, Records, GoodRecord
    <2>3. Settled'
      BY <1>1 DEF NotifyWrite, Store, NewRecord, TypeOK, Records, Settled, Shape, Delivering
    <2> QED BY <2>1, <2>2, <2>3
  <1>2. ASSUME NEW e \in Events, RetryTimeArrives(e) PROVE Core'
    <2>1. /\ UNCHANGED actions
          /\ \A r \in Requests : req'[r].pc = req[r].pc /\ req'[r].ev = req[r].ev
                                  /\ req'[r].plugin = req[r].plugin
          /\ worker'.pc = worker.pc /\ worker'.ev = worker.ev /\ worker'.todo = worker.todo
          /\ worker'.req = worker.req /\ worker'.ids = worker.ids
      BY <1>2 DEF RetryTimeArrives, TypeOK, WorkerType, RequestType
    <2>2. Shape'
      <3>1. QueueShape'
        BY <2>1 DEF QueueShape, Shape
      <3>2. worker.req # None => worker.req \in Requests
        BY DEF TypeOK, WorkerType
      <3> QED BY <2>1, <3>1, <3>2 DEF Shape
    <2>3. Records'
      BY SMTT(30), <1>2 DEF RetryTimeArrives, Store, Arrived, TypeOK, WorkerType, RequestType,
         Records, GoodRecord, Shape
    <2>4. AckMeansAccepted'
      BY SMTT(30), <1>2 DEF RetryTimeArrives, Store, Arrived, TypeOK, WorkerType, RequestType,
         AckMeansAccepted, Shape
    <2>5. Settled'
      BY SMTT(30), <1>2 DEF RetryTimeArrives, Store, Arrived, TypeOK, WorkerType, RequestType,
         Settled, Shape, Records, GoodRecord
    <2> QED BY <2>2, <2>3, <2>4, <2>5
  <1>3. ASSUME NEW e \in Events, RetentionPasses(e) PROVE Core'
    BY <1>3, Frames DEF RetentionPasses
  <1>4. ASSUME NEW e \in Events, CliPurgeDelete(e) PROVE Core'
    <2>1. Shape' /\ AckMeansAccepted'
      BY <1>4, Frames DEF CliPurgeDelete
    <2>2. Records'
      BY <1>4 DEF CliPurgeDelete, Store, TypeOK, Records, GoodRecord
    <2>3. Settled'
      BY <1>4 DEF CliPurgeDelete, Store, TypeOK, Settled
    <2> QED BY <2>1, <2>2, <2>3
  <1>5. ASSUME Reload PROVE Core'
    BY <1>5, Frames DEF Reload
  <1>6. ASSUME CliPurgeList PROVE Core'
    <2>1. Shape' /\ Records' /\ AckMeansAccepted'
      BY <1>6, Frames DEF CliPurgeList
    <2>2. Settled'
      <3>1. \A e \in cliPurge' : e \in Events /\ spool[e] # Absent /\ spool[e].state = "delivered"
        BY <1>6 DEF CliPurgeList, ExpiredEvents, Expired, Absent
      <3>2. \A e \in cliPurge' : e \in written /\ accepted[e] # {} /\ spool[e].state # "pending"
        BY <3>1 DEF Records, GoodRecord
      <3>3. UNCHANGED <<spool, written, worker, accepted>>
        BY <1>6 DEF CliPurgeList
      <3> QED BY <3>1, <3>2, <3>3 DEF Settled
    <2> QED BY <2>1, <2>2
  <1> QED BY <1>1, <1>2, <1>3, <1>4, <1>5, <1>6 DEF Environment

\* Start, the sweep loop and a crash preserve the invariant.
LEMMA LifecycleStep == IInv /\ Lifecycle => Core'
  <1> SUFFICES ASSUME IInv, Lifecycle PROVE Core'
    OBVIOUS
  <1> USE BudgetAssumption, DeliveryAssumption DEF IInv, Core
  <1>1. ASSUME Start PROVE Core'
    BY <1>1, Frames DEF Start
  <1>2. ASSUME NEW e \in Events, CatchUpSend(e) PROVE Core'
    <2>1. Shape'
      BY <1>2, SendShape DEF CatchUpSend
    <2> QED BY <1>2, <2>1, Frames DEF CatchUpSend
  <1>3. ASSUME StartupSend PROVE Core'
    <2>1. Shape'
      BY <1>3, SendShape DEF StartupSend
    <2> QED BY <1>3, <2>1, Frames DEF StartupSend
  <1>4. ASSUME SweepLoopSubmit PROVE Core'
    <2>1. Shape'
      BY <1>4, SendShape DEF SweepLoopSubmit
    <2> QED BY <1>4, <2>1, Frames DEF SweepLoopSubmit
  <1>5. ASSUME SweepLoopBusy PROVE Core'
    BY <1>5, Frames DEF SweepLoopBusy
  <1>6. ASSUME Crash PROVE Core'
    BY <1>6 DEF Crash, IdleWorker, InFlight, Delivering, TypeOK, WorkerType,
       RequestType, QueueShape, Shape, Records, GoodRecord, AckMeansAccepted,
       Settled
  <1> QED BY <1>1, <1>2, <1>3, <1>4, <1>5, <1>6 DEF Lifecycle

\* Handler r goes to pc, and nothing else that handlers and the worker hold changes.
Moves(r, pc) ==
  /\ req' = [req EXCEPT ![r].pc = pc]
  /\ UNCHANGED <<worker, written, accepted, finalFail>>

\* Every handler keeps the event and the plugin of its request, and stays accepted.
TargetsKept ==
  \A s \in Requests :
    /\ req'[s].ev = req[s].ev /\ req'[s].plugin = req[s].plugin
    /\ req[s].pc # "new" => req'[s].pc # "new"

\* A handler that moves on without an acknowledgement keeps what the others rely on.
LEMMA HandlerMoves ==
  ASSUME IInv, NEW r \in Requests, NEW pc, Moves(r, pc), pc \notin {"new", "ok", "deadRead", "deadWrite"},
         pc \in InFlight => req[r].pc \in InFlight
  PROVE  /\ TargetsKept
         /\ AckMeansAccepted'
         /\ UNCHANGED spool => Records'
         /\ UNCHANGED actions => Shape'
         /\ QueueShape' => Shape'
  <1> USE DEF IInv, Core, Moves
  <1>1. /\ \A s \in Requests \ {r} : req'[s] = req[s]
        /\ req'[r].ev = req[r].ev /\ req'[r].plugin = req[r].plugin /\ req'[r].pc = pc
    BY DEF TypeOK, RequestType
  <1>2. TargetsKept
    BY <1>1 DEF TargetsKept
  <1>3. AckMeansAccepted'
    BY <1>1 DEF AckMeansAccepted
  <1>4. ASSUME UNCHANGED spool PROVE Records'
    <2>1. \A e, rec : GoodRecord(e, rec) => GoodRecord(e, rec)'
      BY DEF GoodRecord
    <2> QED BY <1>1, <1>4, <2>1 DEF Records
  <1>5. QueueShape' => Shape'
    <2>1. worker.req # None => worker.req \in Requests
      BY DEF TypeOK, WorkerType
    <2>2. \A s \in Requests : req'[s].pc \in InFlight \cup {"ok"} => req[s].pc \in InFlight \cup {"ok"}
      BY <1>1
    <2> QED BY <1>2, <2>1, <2>2 DEF Shape, TargetsKept
  <1>6. ASSUME UNCHANGED actions PROVE QueueShape'
    BY <1>2, <1>6 DEF Shape, QueueShape, TargetsKept
  <1> QED BY <1>2, <1>3, <1>4, <1>5, <1>6

\* The handler goroutines preserve the invariant.
LEMMA HandlersStep == IInv /\ Handlers => Core'
  <1> SUFFICES ASSUME IInv, Handlers PROVE Core'
    OBVIOUS
  <1> USE BudgetAssumption, DeliveryAssumption DEF IInv, Core
  <1>1. ASSUME NEW r \in Requests, NEW e \in Events, NEW p \in Plugins, HandleDeliver(r, e, p) PROVE Core'
    BY SMTT(30), <1>1 DEF HandleDeliver, InFlight, Delivering, TypeOK, WorkerType,
       RequestType, QueueShape, Shape, Records, GoodRecord, AckMeansAccepted,
       Settled
  <1>2. ASSUME NEW r \in Requests, DeadLetterRead(r) PROVE Core'
    <2>0. req' = [req EXCEPT ![r] = [@ EXCEPT !.pc = "deadWrite", !.rec = spool[req[r].ev]]]
          /\ req[r].pc = "deadRead" /\ UNCHANGED <<actions, worker>>
      BY <1>2 DEF DeadLetterRead
    <2>1. /\ \A s \in Requests \ {r} : req'[s] = req[s]
          /\ req'[r].ev = req[r].ev /\ req'[r].plugin = req[r].plugin /\ req'[r].pc = "deadWrite"
      BY <2>0 DEF TypeOK, RequestType
    <2>2. Shape'
      <3>1. \A s \in Requests : /\ req'[s].ev = req[s].ev /\ req'[s].plugin = req[s].plugin
                                /\ req[s].pc # "new" => req'[s].pc # "new"
                                /\ req'[s].pc \in InFlight \cup {"ok"} => req[s].pc \in InFlight \cup {"ok"}
        BY <2>0, <2>1 DEF InFlight
      <3>2. QueueShape'
        BY <2>0, <3>1 DEF QueueShape, Shape
      <3>3. worker.req # None => worker.req \in Requests
        BY DEF TypeOK, WorkerType
      <3> QED BY <2>0, <3>1, <3>2, <3>3 DEF Shape
    <2>3. Records'
      BY SMTT(30), <1>2 DEF DeadLetterRead, InFlight, Delivering, TypeOK, WorkerType, RequestType,
         Records, GoodRecord, Shape
    <2>4. AckMeansAccepted'
      BY SMTT(30), <1>2 DEF DeadLetterRead, InFlight, Delivering, TypeOK, WorkerType, RequestType,
         AckMeansAccepted, Shape
    <2>5. Settled'
      BY SMTT(30), <1>2 DEF DeadLetterRead, InFlight, Delivering, TypeOK, WorkerType, RequestType,
         Settled, Shape, Records, GoodRecord
    <2> QED BY <2>2, <2>3, <2>4, <2>5
  <1>3. ASSUME NEW r \in Requests, DeadLetterWrite(r) PROVE Core'
    BY SMTT(30), <1>3 DEF DeadLetterWrite, Store, WithState, InFlight, Delivering,
       TypeOK, WorkerType, RequestType, QueueShape, Shape, Records,
       GoodRecord, AckMeansAccepted, Settled
  <1>4. ASSUME NEW r \in Requests, DeadLetterFails(r) PROVE Core'
    <2>1. \E pc \in {"notFound", "busy", "gone"} : Moves(r, pc)
      BY <1>4 DEF DeadLetterFails, Moves
    <2>2. Records' /\ AckMeansAccepted' /\ Shape'
      BY <1>4, <2>1, HandlerMoves DEF DeadLetterFails, InFlight
    <2> QED BY <1>4, <2>2, Frames DEF DeadLetterFails
  <1>5. ASSUME NEW r \in Requests, Submit(r) PROVE Core'
    <2>1. Moves(r, "waiting") /\ req[r].pc \in InFlight
      BY <1>5 DEF Submit, Moves, InFlight
    <2>2. Records' /\ AckMeansAccepted'
      BY <1>5, <2>1, HandlerMoves DEF Submit
    <2>3. QueueShape'
      <3>1. TargetsKept
        BY <2>1, HandlerMoves
      <3>2. req[r].ev \in Events /\ req[r].plugin \in Plugins /\ req'[r].pc # "new"
        BY <2>1, <3>1 DEF Shape, InFlight, Moves, TypeOK, TargetsKept
      <3>3. actions \in Seq(Action) /\ actions' = Append(actions, Act("deliver", r))
        BY <1>5 DEF Submit, Send, TypeOK
      <3> QED BY <3>1, <3>2, <3>3 DEF Shape, QueueShape, Act, TargetsKept
    <2>4. Shape'
      BY <2>1, <2>3, HandlerMoves
    <2> QED BY <1>5, <2>2, <2>4, Frames DEF Submit
  <1>6. ASSUME NEW r \in Requests, SubmitBusy(r) PROVE Core'
    <2>1. \E pc \in {"notFound", "busy", "gone"} : Moves(r, pc)
      BY <1>6 DEF SubmitBusy, Moves
    <2>2. Records' /\ AckMeansAccepted' /\ Shape'
      BY <1>6, <2>1, HandlerMoves DEF SubmitBusy, InFlight
    <2> QED BY <1>6, <2>2, Frames DEF SubmitBusy
  <1>7. ASSUME NEW r \in Requests, Disconnect(r) PROVE Core'
    <2>1. \E pc \in {"notFound", "busy", "gone"} : Moves(r, pc)
      BY <1>7 DEF Disconnect, Moves
    <2>2. Records' /\ AckMeansAccepted' /\ Shape'
      BY <1>7, <2>1, HandlerMoves DEF Disconnect, InFlight
    <2> QED BY <1>7, <2>2, Frames DEF Disconnect
  <1>8. ASSUME NEW r \in Requests, SubmitOther(r) PROVE Core'
    <2>1. Moves(r, "gone")
      BY <1>8 DEF SubmitOther, Moves
    <2>2. Records' /\ AckMeansAccepted'
      BY <1>8, <2>1, HandlerMoves DEF SubmitOther, InFlight
    <2>3. QueueShape'
      <3>1. TargetsKept
        BY <2>1, HandlerMoves DEF InFlight
      <3>2. actions \in Seq(Action) /\ actions' = Append(actions, Act("other", None))
        BY <1>8 DEF SubmitOther, Send, TypeOK
      <3> QED BY <3>1, <3>2 DEF Shape, QueueShape, Act, TargetsKept
    <2>4. Shape'
      BY <2>1, <2>3, HandlerMoves DEF InFlight
    <2> QED BY <1>8, <2>2, <2>4, Frames DEF SubmitOther
  <1> QED BY <1>1, <1>2, <1>3, <1>4, <1>5, <1>6, <1>7, <1>8 DEF Handlers

\* A worker that becomes idle owes nothing.
LEMMA IdleCore ==
  ASSUME IInv, worker' = IdleWorker, UNCHANGED <<actions, req, spool, written, cliPurge, accepted, finalFail>>
  PROVE  Shape' /\ Records' /\ Settled'
  <1> USE DEF IInv, Core
  <1>1. /\ worker'.pc = "idle" /\ worker'.req = None /\ worker'.ids = {}
    BY DEF IdleWorker
  <1>2. Shape'
    BY <1>1 DEF Shape, QueueShape, Delivering
  <1>3. Records'
    <2>1. \A e, rec : GoodRecord(e, rec) => GoodRecord(e, rec)'
      BY DEF GoodRecord
    <2> QED BY <1>1, <2>1 DEF Records
  <1>4. Settled'
    BY <1>1 DEF Settled
  <1> QED BY <1>2, <1>3, <1>4

\* The worker preserves the invariant.
LEMMA WorkerStep == IInv /\ Worker => Core'
  <1> SUFFICES ASSUME IInv, Worker PROVE Core'
    OBVIOUS
  <1> USE BudgetAssumption, DeliveryAssumption DEF IInv, Core
  <1>1. ASSUME TakeDeliverAll PROVE Core'
    <2>1. Shape'
      <3>1. QueueShape'
        BY <1>1, DequeueShape DEF TakeDeliverAll
      <3>2. Head(actions).arg \in Events /\ Head(actions).kind = "deliverAll"
        BY <1>1, DequeueType DEF TakeDeliverAll, Dequeue, QueueShape, Shape
      <3> QED BY <1>1, <3>1, <3>2 DEF TakeDeliverAll, Dequeue, QueueShape,
                 Delivering, TypeOK, WorkerType, Shape
    <2>2. Records'
      BY <1>1 DEF TakeDeliverAll, Dequeue, InFlight, Delivering, TypeOK,
         WorkerType, RequestType, QueueShape, Shape, Records, GoodRecord
    <2>3. AckMeansAccepted'
      BY <1>1 DEF TakeDeliverAll, Dequeue, InFlight, Delivering, TypeOK,
         WorkerType, RequestType, QueueShape, Shape, Records, AckMeansAccepted
    <2>4. Settled'
      BY <1>1 DEF TakeDeliverAll, Dequeue, InFlight, Delivering, TypeOK,
         WorkerType, RequestType, QueueShape, Shape, Records, GoodRecord, Settled
    <2> QED BY <2>1, <2>2, <2>3, <2>4
  <1>2. ASSUME TakeDeliver PROVE Core'
    <2>1. Shape'
      <3>1. QueueShape'
        BY <1>2, DequeueShape DEF TakeDeliver
      <3> DEFINE r == Head(actions).arg
      <3>2. /\ r \in Requests /\ r # None /\ req[r].pc # "new"
            /\ req[r].ev \in Events /\ req[r].plugin \in Plugins
        BY <1>2, DequeueType DEF TakeDeliver, Dequeue, QueueShape, Shape
      <3>3. /\ worker'.pc = "deliver" /\ worker'.ev = req[r].ev /\ worker'.req = r
            /\ worker'.todo = <<req[r].plugin>> /\ worker'.ids = {} /\ req' = req
        BY <1>2 DEF TakeDeliver, Dequeue, TypeOK, WorkerType, Shape
      <3>4. worker'.todo # <<>>
        BY <3>3
      <3> HIDE DEF r
      <3> QED BY <3>1, <3>2, <3>3, <3>4 DEF QueueShape, Delivering, Shape
    <2>2. Records'
      BY <1>2 DEF TakeDeliver, Dequeue, InFlight, Delivering, TypeOK,
         WorkerType, RequestType, QueueShape, Shape, Records, GoodRecord
    <2>3. AckMeansAccepted'
      BY <1>2 DEF TakeDeliver, Dequeue, InFlight, Delivering, TypeOK,
         WorkerType, RequestType, QueueShape, Shape, Records, AckMeansAccepted
    <2>4. Settled'
      BY <1>2 DEF TakeDeliver, Dequeue, InFlight, Delivering, TypeOK,
         WorkerType, RequestType, QueueShape, Shape, Records, GoodRecord, Settled
    <2> QED BY <2>1, <2>2, <2>3, <2>4
  <1>3. ASSUME TakeSweep PROVE Core'
    <2>1. Shape'
      BY <1>3, DequeueShape DEF TakeSweep, Dequeue, QueueShape, Delivering,
         TypeOK, WorkerType, Shape
    <2>2. Records'
      BY <1>3 DEF TakeSweep, Dequeue, InFlight, Delivering, TypeOK, WorkerType,
         RequestType, QueueShape, Shape, Records, GoodRecord
    <2>3. AckMeansAccepted'
      BY <1>3 DEF TakeSweep, Dequeue, InFlight, Delivering, TypeOK, WorkerType,
         RequestType, QueueShape, Shape, Records, AckMeansAccepted
    <2>4. Settled'
      BY <1>3 DEF TakeSweep, Dequeue, InFlight, Delivering, TypeOK, WorkerType,
         RequestType, QueueShape, Shape, Records, GoodRecord, Settled
    <2> QED BY <2>1, <2>2, <2>3, <2>4
  <1>4. ASSUME TakeOther PROVE Core'
    <2>1. Shape'
      BY <1>4, DequeueShape DEF TakeOther, Dequeue, QueueShape, Delivering,
         TypeOK, WorkerType, Shape
    <2>2. Records'
      BY <1>4 DEF TakeOther, Dequeue, InFlight, Delivering, TypeOK, WorkerType,
         RequestType, QueueShape, Shape, Records, GoodRecord
    <2>3. AckMeansAccepted'
      BY <1>4 DEF TakeOther, Dequeue, InFlight, Delivering, TypeOK, WorkerType,
         RequestType, QueueShape, Shape, Records, AckMeansAccepted
    <2>4. Settled'
      BY <1>4 DEF TakeOther, Dequeue, InFlight, Delivering, TypeOK, WorkerType,
         RequestType, QueueShape, Shape, Records, GoodRecord, Settled
    <2> QED BY <2>1, <2>2, <2>3, <2>4
  <1>5. ASSUME DeliverBegin PROVE Core'
    BY <1>5 DEF DeliverBegin, InFlight, Delivering, TypeOK, WorkerType,
       RequestType, QueueShape, Shape, Records, GoodRecord, AckMeansAccepted,
       Settled
  <1>6. ASSUME DeliverNoRecord PROVE Core'
    <2>1. Shape'
      BY <1>6, EndDeliverShape DEF DeliverNoRecord, Delivering
    <2>2. Records'
      BY <1>6 DEF DeliverNoRecord, EndDeliver, Reply, IdleWorker, InFlight,
         Delivering, TypeOK, WorkerType, RequestType, QueueShape, Shape, Records, GoodRecord
    <2>3. AckMeansAccepted'
      BY <1>6 DEF DeliverNoRecord, EndDeliver, Reply, IdleWorker, InFlight,
         Delivering, TypeOK, WorkerType, RequestType, QueueShape, Shape, Records, AckMeansAccepted
    <2>4. Settled'
      BY <1>6 DEF DeliverNoRecord, EndDeliver, Reply, IdleWorker, InFlight,
         Delivering, TypeOK, WorkerType, RequestType, QueueShape, Shape, Records, GoodRecord, Settled
    <2> QED BY <2>1, <2>2, <2>3, <2>4
  <1>7. ASSUME DeliverUnknown PROVE Core'
    BY <1>7 DEF DeliverUnknown, InFlight, Delivering, TypeOK, WorkerType,
       RequestType, QueueShape, Shape, Records, GoodRecord, AckMeansAccepted,
       Settled
  <1>8. ASSUME PluginAccepts PROVE Core'
    BY <1>8 DEF PluginAccepts, InFlight, Delivering, TypeOK, WorkerType,
       RequestType, QueueShape, Shape, Records, GoodRecord, AckMeansAccepted,
       Settled
  <1>9. ASSUME PluginFails PROVE Core'
    BY <1>9 DEF PluginFails, InFlight, Delivering, TypeOK, WorkerType,
       RequestType, QueueShape, Shape, Records, GoodRecord, AckMeansAccepted,
       Settled
  <1>10. ASSUME UpdateRead PROVE Core'
    BY <1>10 DEF UpdateRead, InFlight, Delivering, TypeOK, WorkerType,
       RequestType, QueueShape, Shape, Records, GoodRecord, AckMeansAccepted,
       Settled
  <1>11. ASSUME UpdateWrite PROVE Core'
    <2>1. Shape'
      BY <1>11, EndDeliverShape DEF UpdateWrite, Delivering
    <2>2. PICK c \in {"ok", "err"} :
            /\ c = "ok" => worker.op = "delivered"
            /\ EndDeliver(c)
      BY <1>11 DEF UpdateWrite
    <2>3. /\ worker.pc = "write"
          /\ Store(worker.ev, Mutated(worker.op, worker.rec))
          /\ UNCHANGED <<config, written, old, actions, cliPurge, serve, startIds, loop,
                         accepted, finalFail>>
      BY <1>11 DEF UpdateWrite
    <2>4. Records'
      <3> DEFINE new == Mutated(worker.op, worker.rec)
      <3>1. worker.rec \in Record /\ worker.ev \in written /\ worker.ev \in Events
            /\ GoodRecord(worker.ev, worker.rec) /\ worker.op \in {"none", "delivered", "failed", "dead"}
        BY <2>3 DEF Records, TypeOK, WorkerType
      <3>2. GoodRecord(worker.ev, new)
        BY <2>3, <3>1 DEF Mutated, WithState, WithFailure, RetryScheduled, Records, GoodRecord
      <3>3. \A e, rec : GoodRecord(e, rec) => GoodRecord(e, rec)'
        BY <2>3 DEF GoodRecord
      <3>4. \A e \in Events : spool'[e] = IF e = worker.ev THEN new ELSE spool[e]
        BY <2>3, <3>1 DEF Store, TypeOK
      <3>5. worker'.pc \in {"deliver", "idle"}
        BY <2>2 DEF EndDeliver, IdleWorker, TypeOK, WorkerType
      <3>6. \A r \in Requests : req'[r].pc \in {"deadRead", "deadWrite"} => req'[r] = req[r]
        BY <2>2 DEF EndDeliver, Reply, TypeOK, RequestType
      <3>7. (\A e \in Events : GoodRecord(e, spool[e]))'
        BY <3>2, <3>3, <3>4 DEF Records
      <3>8. \A e \in Events : spool'[e] # Absent => e \in written'
        BY <2>3, <3>1, <3>4 DEF Records
      <3> QED BY <2>3, <3>5, <3>6, <3>7, <3>8 DEF Records
    <2>5. AckMeansAccepted'
      BY <2>2, <2>3 DEF Store, Mutated, WithState, WithFailure,
         RetryScheduled, EndDeliver, Reply, IdleWorker, InFlight, Delivering, TypeOK,
         WorkerType, RequestType, QueueShape, Shape, Records, AckMeansAccepted
    <2>6. Settled'
      BY <2>2, <2>3 DEF Store, Mutated, WithState, WithFailure,
         RetryScheduled, EndDeliver, Reply, IdleWorker, InFlight, Delivering, TypeOK,
         WorkerType, RequestType, QueueShape, Shape, Records, GoodRecord, Settled
    <2> QED BY <2>1, <2>4, <2>5, <2>6
  <1>12. ASSUME UpdateFails PROVE Core'
    <2>1. Shape'
      BY <1>12, EndDeliverShape DEF UpdateFails, Delivering
    <2>2. Records'
      BY <1>12 DEF UpdateFails, EndDeliver, Reply, IdleWorker, InFlight,
         Delivering, TypeOK, WorkerType, RequestType, QueueShape, Shape, Records, GoodRecord
    <2>3. AckMeansAccepted'
      BY <1>12 DEF UpdateFails, EndDeliver, Reply, IdleWorker, InFlight,
         Delivering, TypeOK, WorkerType, RequestType, QueueShape, Shape, Records, AckMeansAccepted
    <2>4. Settled'
      BY <1>12 DEF UpdateFails, EndDeliver, Reply, IdleWorker, InFlight,
         Delivering, TypeOK, WorkerType, RequestType, QueueShape, Shape, Records, GoodRecord, Settled
    <2> QED BY <2>1, <2>2, <2>3, <2>4
  <1>13. ASSUME SweepPurgeList PROVE Core'
    BY <1>13 DEF SweepPurgeList, ExpiredEvents, Expired, InFlight,
       Delivering, TypeOK, WorkerType, RequestType, QueueShape, Shape,
       Records, GoodRecord, AckMeansAccepted, Settled
  <1>14. ASSUME SweepCatchUp PROVE Core'
    BY <1>14 DEF SweepCatchUp, DueEvents, Due, InFlight, Delivering, TypeOK,
       WorkerType, RequestType, QueueShape, Shape, Records, GoodRecord,
       AckMeansAccepted, Settled
  <1>15. ASSUME SweepFails PROVE Core'
    <2>1. Shape'
      BY <1>15 DEF SweepFails, InFlight, Delivering, TypeOK, WorkerType,
         RequestType, QueueShape, Shape
    <2>2. Records'
      BY <1>15 DEF SweepFails, InFlight, Delivering, TypeOK, WorkerType,
         RequestType, QueueShape, Shape, Records, GoodRecord
    <2>3. AckMeansAccepted'
      BY <1>15 DEF SweepFails, InFlight, Delivering, TypeOK, WorkerType,
         RequestType, QueueShape, Shape, Records, AckMeansAccepted
    <2>4. Settled'
      <3>1. /\ worker'.pc = "delete" => worker'.ids \subseteq worker.ids
            /\ worker.pc = "purge" => worker'.ids = worker.ids
            /\ worker'.pc # "write"
        BY <1>15 DEF SweepFails, TypeOK, WorkerType
      <3> QED BY <1>15, <3>1 DEF SweepFails, Settled, Shape
    <2> QED BY <2>1, <2>2, <2>3, <2>4
  <1>16. ASSUME SweepEnd PROVE Core'
    <2>1. AckMeansAccepted'
      BY <1>16, Frames DEF SweepEnd
    <2>2. Shape' /\ Records' /\ Settled'
      BY <1>16, IdleCore DEF SweepEnd
    <2> QED BY <2>1, <2>2
  <1>17. ASSUME EndOther PROVE Core'
    <2>1. AckMeansAccepted'
      BY <1>17, Frames DEF EndOther
    <2>2. Shape' /\ Records' /\ Settled'
      BY <1>17, IdleCore DEF EndOther
    <2> QED BY <2>1, <2>2
  <1>18. ASSUME NEW e \in Events, SweepDelete(e) PROVE Core'
    BY <1>18 DEF SweepDelete, Store, InFlight, Delivering, TypeOK,
       WorkerType, RequestType, QueueShape, Shape, Records, GoodRecord,
       AckMeansAccepted, Settled
  <1>19. ASSUME NEW e \in Events, SweepRequeue(e) PROVE Core'
    <2>1. Shape'
      <3>1. QueueShape'
        <4>1. CASE HasRoom
          BY <1>19, <4>1 DEF SweepRequeue, Send, Act, TypeOK, Shape, QueueShape
        <4>2. CASE ~HasRoom
          BY <1>19, <4>2 DEF SweepRequeue, Shape, QueueShape
        <4> QED BY <4>1, <4>2
      <3> QED BY <1>19, <3>1 DEF SweepRequeue, QueueShape, Delivering, TypeOK,
                 WorkerType, Shape
    <2>2. Records'
      BY <1>19 DEF SweepRequeue, Send, HasRoom, Act, InFlight, Delivering,
         TypeOK, WorkerType, RequestType, QueueShape, Shape, Records, GoodRecord
    <2>3. AckMeansAccepted'
      BY <1>19 DEF SweepRequeue, Send, HasRoom, Act, InFlight, Delivering,
         TypeOK, WorkerType, RequestType, QueueShape, Shape, Records, AckMeansAccepted
    <2>4. Settled'
      BY <1>19 DEF SweepRequeue, Send, HasRoom, Act, InFlight, Delivering,
         TypeOK, WorkerType, RequestType, QueueShape, Shape, Records, GoodRecord, Settled
    <2> QED BY <2>1, <2>2, <2>3, <2>4
  <1> QED BY <1>1, <1>2, <1>3, <1>4, <1>5, <1>6, <1>7, <1>8, <1>9,
         <1>10, <1>11, <1>12, <1>13, <1>14, <1>15, <1>16, <1>17, <1>18, <1>19 DEF Worker

\* The invariant is inductive.
LEMMA StepIInv == IInv /\ [Next]_vars => IInv'
  <1> SUFFICES ASSUME IInv, [Next]_vars PROVE IInv'
    OBVIOUS
  <1>1. TypeOK'
    BY TypeStep
  <1>2. CASE UNCHANGED vars
    BY <1>1, <1>2, Frames DEF vars, IInv, Core
  <1> QED
    BY <1>1, <1>2, EnvironmentStep, LifecycleStep, HandlersStep, WorkerStep
    DEF Next, IInv

-----------------------------------------------------------------------------
(* The theorems. *)

\* Every reachable state satisfies the inductive invariant, for all events,
\* plugins, configs, requests, buffer sizes and retry budgets.
THEOREM Invariance == Spec => []IInv
  BY InitIInv, StepIInv, PTL DEF Spec

\* Type correctness: in particular submit, catchUp and sweepOnce never put more
\* than BufferSize actions into the channel.
THEOREM TypeCorrect == Spec => []TypeOK
  BY Invariance, PTL DEF IInv

\* update's unlocked read-modify-write marks no event delivered that no plugin
\* accepted.
THEOREM DeliveredSafe == Spec => []DeliveredWasAccepted
  <1>1. IInv => DeliveredWasAccepted
    BY DEF IInv, Core, Records, GoodRecord, DeliveredWasAccepted
  <1> QED BY Invariance, <1>1, PTL

\* RecordFailure keeps a pending record inside its retry budget and scheduled.
THEOREM BudgetSafe == Spec => []PendingWithinBudget
  <1>1. IInv => PendingWithinBudget
    BY DEF IInv, Core, Records, GoodRecord, PendingWithinBudget
  <1> QED BY Invariance, <1>1, PTL

\* RecordFailure, deadLetter and handleDeliver are the only ways to "dead".
THEOREM DeadSafe == Spec => []DeadHasCause
  <1>1. IInv => DeadHasCause
    BY DEF IInv, Core, Records, GoodRecord, DeadHasCause
  <1> QED BY Invariance, <1>1, PTL

\* A 200 of handleDeliver means that the plugin it names accepted the event.
THEOREM AckSafe == Spec => []AckMeansAccepted
  BY Invariance, PTL DEF IInv, Core

\* The steps of gitd that write or remove a spool file.
LEMMA SpoolWriters ==
  Next => \/ Environment
          \/ \E r \in Requests : DeadLetterWrite(r)
          \/ UpdateWrite
          \/ \E e \in Events : SweepDelete(e)
          \/ UNCHANGED spool
  <1>1. Lifecycle => UNCHANGED spool
    BY DEF Lifecycle, Start, CatchUpSend, StartupSend, SweepLoopSubmit,
       SweepLoopBusy, Crash
  <1>2. Handlers => (\E r \in Requests : DeadLetterWrite(r)) \/ UNCHANGED spool
    BY DEF Handlers, HandleDeliver, DeadLetterRead, DeadLetterFails, Submit,
       SubmitBusy, Disconnect, SubmitOther
  <1>3. Worker => UpdateWrite \/ (\E e \in Events : SweepDelete(e)) \/ UNCHANGED spool
    BY DEF Worker, TakeDeliverAll, TakeDeliver, TakeSweep, TakeOther, DeliverBegin,
       DeliverNoRecord, DeliverUnknown, PluginAccepts, PluginFails, UpdateRead,
       UpdateFails, SweepPurgeList, SweepCatchUp, SweepFails, SweepEnd, EndOther,
       SweepRequeue
  <1> QED BY <1>1, <1>2, <1>3 DEF Next

\* Purge, in the sweep or in `gitd spool purge`, removes no event that no plugin
\* has accepted, however stale its list.
THEOREM PurgeSafe == Spec => PurgeKeepsUnaccepted
  <1> DEFINE Kept == \A e \in Events :
        spool[e] # Absent /\ spool'[e] = Absent => accepted[e] # {}
  <1>1. IInv /\ [Next]_vars => [Kept]_vars
    <2> SUFFICES ASSUME IInv, Next PROVE Kept
      OBVIOUS
    <2> USE DEF IInv, Core, Settled, Store, TypeOK
    <2>1. CASE Environment
      <3>1. ASSUME NEW e \in Events, NotifyWrite(e) \/ RetryTimeArrives(e) PROVE Kept
        BY <3>1 DEF NotifyWrite, NewRecord, RetryTimeArrives, Arrived
      <3>2. ASSUME NEW e \in Events, CliPurgeDelete(e) PROVE Kept
        BY <3>2 DEF CliPurgeDelete
      <3> QED BY <2>1, <3>1, <3>2 DEF Environment, RetentionPasses, Reload, CliPurgeList
    <2>2. ASSUME NEW r \in Requests, DeadLetterWrite(r) PROVE Kept
      BY <2>2, MutatedType DEF DeadLetterWrite, Records
    <2>3. CASE UpdateWrite
      <3>1. Mutated(worker.op, worker.rec) \in Record
        BY <2>3, MutatedType DEF UpdateWrite, Records, WorkerType
      <3>2. Store(worker.ev, Mutated(worker.op, worker.rec))
        BY <2>3 DEF UpdateWrite
      <3> QED BY <3>1, <3>2, AbsentType
    <2>4. ASSUME NEW e \in Events, SweepDelete(e) PROVE Kept
      BY <2>4 DEF SweepDelete
    <2>5. CASE UNCHANGED spool
      BY <2>5
    <2> QED BY <2>1, <2>2, <2>3, <2>4, <2>5, SpoolWriters
  <1> QED BY Invariance, <1>1, PTL DEF Spec, PurgeKeepsUnaccepted

\* No interleaving of update, purge, notify and the handlers makes a delivered
\* or purged event pending again.
THEOREM SettledSafe == Spec => DeliveredStaysSettled
  <1> DEFINE Stays == \A e \in Events :
        spool[e].state = "delivered" \/ (spool[e] = Absent /\ e \in written)
          => spool'[e].state # "pending"
  <1>1. IInv /\ [Next]_vars => [Stays]_vars
    <2> SUFFICES ASSUME IInv, Next PROVE Stays
      OBVIOUS
    <2> USE DEF IInv, Core, Store, TypeOK
    <2>1. CASE Environment
      BY <2>1 DEF Environment, NotifyWrite, NewRecord, RetryTimeArrives, Arrived,
         RetentionPasses, Reload, CliPurgeList, CliPurgeDelete, Records
    <2>2. ASSUME NEW r \in Requests, DeadLetterWrite(r) PROVE Stays
      BY <2>2 DEF DeadLetterWrite, WithState, Records
    <2>3. CASE UpdateWrite
      <3>1. worker.rec \in Record /\ worker.op \in {"delivered", "dead", "failed"}
        BY <2>3 DEF UpdateWrite, Records, WorkerType
      <3>2. WithFailure(worker.rec).state \in {worker.rec.state, "dead"}
        BY <3>1 DEF WithFailure
      <3>3. worker.op # "failed" => WithState(worker.rec, worker.op).state = worker.op
        BY <3>1 DEF WithState
      <3>4. Mutated(worker.op, worker.rec).state = "pending" =>
              worker.rec.state = "pending"
        BY <3>1, <3>2, <3>3 DEF Mutated
      <3> QED BY <2>3, <3>4 DEF UpdateWrite, Settled
    <2>4. ASSUME NEW e \in Events, SweepDelete(e) PROVE Stays
      BY <2>4 DEF SweepDelete
    <2>5. CASE UNCHANGED spool
      BY <2>5
    <2> QED BY <2>1, <2>2, <2>3, <2>4, <2>5, SpoolWriters
  <1> QED BY Invariance, <1>1, PTL DEF Spec, DeliveredStaysSettled
==============================================================================
