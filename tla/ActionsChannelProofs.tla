------------------------- MODULE ActionsChannelProofs -------------------------
(***************************************************************************)
(* For any requests, loops, due events and capacity of the channel: socket *)
(* work waits for the start-up, the worker leaves nothing behind that was  *)
(* accepted before the shutdown, and the channel with its worker is a      *)
(* serial executor.                                                        *)
(***************************************************************************)
EXTENDS ActionsChannel, SequenceTheorems, TLAPS

\* A request stands in a queue at most once.
Distinct(q) ==
  \A i, j \in 1..Len(q) : q[i] = q[j] /\ q[i] \in Requests => i = j

\* What a channel holds after a send.
LEMMA Enqueued ==
  ASSUME NEW q \in Seq(Actions), NEW a \in Actions
  PROVE  /\ Append(q, a) \in Seq(Actions)
         /\ Len(Append(q, a)) = Len(q) + 1
         /\ Range(Append(q, a)) = Range(q) \cup {a}
         /\ Distinct(q) /\ (a \in Requests => a \notin Range(q)) => Distinct(Append(q, a))
<1> DEFINE p == Append(q, a)
<1>1. p \in Seq(Actions) /\ Len(p) = Len(q) + 1 /\ Len(q) \in Nat
  OBVIOUS
<1>2. DOMAIN q = 1..Len(q) /\ DOMAIN p = 1..(Len(q) + 1)
  OBVIOUS
<1>3. /\ \A i \in 1..Len(q) : p[i] = q[i]
      /\ p[Len(q) + 1] = a
  OBVIOUS
<1>4. Range(p) = Range(q) \cup {a}
  <2> HIDE DEF p
  <2>1. Range(p) \subseteq Range(q) \cup {a}
    BY <1>1, <1>2, <1>3 DEF Range
  <2>2. Range(q) \subseteq Range(p)
    BY <1>1, <1>2, <1>3 DEF Range
  <2>3. a \in Range(p)
    BY <1>1, <1>2, <1>3 DEF Range
  <2> QED
    BY <2>1, <2>2, <2>3
<1>5. ASSUME Distinct(q), a \in Requests => a \notin Range(q)
      PROVE  Distinct(p)
  <2> HIDE DEF p
  <2> SUFFICES ASSUME NEW i \in 1..Len(p), NEW j \in 1..Len(p), p[i] = p[j], p[i] \in Requests
               PROVE  i = j
    BY DEF Distinct
  <2>1. \A k \in 1..Len(q) : p[k] = a => a \notin Requests
    BY <1>5, <1>2, <1>3 DEF Range
  <2>2. CASE i \in 1..Len(q) /\ j \in 1..Len(q)
    BY <2>2, <1>3, <1>5 DEF Distinct
  <2>3. CASE i = Len(q) + 1 \/ j = Len(q) + 1
    BY <2>1, <2>3, <1>1, <1>3
  <2> QED
    BY <2>2, <2>3, <1>1
<1> QED
  BY <1>1, <1>4, <1>5

\* What a channel holds after a receive.
LEMMA Dequeued ==
  ASSUME NEW q \in Seq(Actions), q # <<>>
  PROVE  /\ Head(q) \in Actions /\ Tail(q) \in Seq(Actions)
         /\ Len(Tail(q)) = Len(q) - 1
         /\ Range(q) = Range(Tail(q)) \cup {Head(q)}
         /\ Distinct(q) => Distinct(Tail(q)) /\ (Head(q) \in Requests => Head(q) \notin Range(Tail(q)))
<1> DEFINE p == Tail(q)
<1>1. Head(q) \in Actions /\ p \in Seq(Actions) /\ Len(p) = Len(q) - 1 /\ Len(q) \in Nat \ {0}
  OBVIOUS
<1>2. DOMAIN q = 1..Len(q) /\ DOMAIN p = 1..(Len(q) - 1)
  BY <1>1
<1>3. \A i \in 1..Len(p) : p[i] = q[i + 1]
  BY <1>1
<1>4. Head(q) = q[1]
  OBVIOUS
<1>5. Range(q) = Range(p) \cup {Head(q)}
  <2> HIDE DEF p
  <2>1. ASSUME NEW i \in 1..Len(q) PROVE q[i] \in Range(p) \cup {Head(q)}
    <3>1. CASE i = 1
      BY <3>1, <1>4
    <3>2. CASE i # 1
      <4>1. i - 1 \in 1..Len(p) /\ p[i - 1] = q[i]
        BY <3>2, <1>1, <1>3
      <4> QED
        BY <4>1, <1>1, <1>2 DEF Range
    <3> QED
      BY <3>1, <3>2
  <2>2. Range(p) \subseteq Range(q)
    <3>1. ASSUME NEW i \in 1..Len(p) PROVE p[i] \in Range(q)
      <4>1. i + 1 \in 1..Len(q) /\ p[i] = q[i + 1]
        BY <1>1, <1>3
      <4> QED
        BY <4>1, <1>2 DEF Range
    <3>2. DOMAIN p = 1..Len(p)
      BY <1>1, <1>2
    <3> QED
      BY <3>1, <3>2 DEF Range
  <2>3. Head(q) \in Range(q)
    BY <1>1, <1>2, <1>4 DEF Range
  <2>4. Range(q) \subseteq Range(p) \cup {Head(q)}
    <3>1. ASSUME NEW x \in Range(q) PROVE x \in Range(p) \cup {Head(q)}
      <4>1. PICK i \in 1..Len(q) : x = q[i]
        BY <1>2 DEF Range
      <4> QED
        BY <4>1, <2>1
    <3> QED
      BY <3>1
  <2> QED
    BY <2>2, <2>3, <2>4
<1>6. ASSUME Distinct(q)
      PROVE  Distinct(p) /\ (Head(q) \in Requests => Head(q) \notin Range(p))
  <2> HIDE DEF p
  <2>1. Distinct(p)
    <3> SUFFICES ASSUME NEW i \in 1..Len(p), NEW j \in 1..Len(p), p[i] = p[j], p[i] \in Requests
                 PROVE  i = j
      BY DEF Distinct
    <3>1. i + 1 = j + 1
      BY <1>1, <1>3, <1>6 DEF Distinct
    <3> QED
      BY <3>1, <1>1
  <2>2. ASSUME Head(q) \in Requests, NEW i \in 1..Len(p), p[i] = Head(q) PROVE FALSE
    <3>1. i + 1 = 1
      BY <2>2, <1>1, <1>3, <1>4, <1>6 DEF Distinct
    <3> QED
      BY <3>1, <1>1
  <2> QED
    BY <2>1, <2>2, <1>1, <1>2 DEF Range
<1> QED
  BY <1>1, <1>5, <1>6

\* An empty channel.
LEMMA Empty == <<>> \in Seq(Actions) /\ Len(<<>>) = 0 /\ Range(<<>>) = {} /\ Distinct(<<>>)
BY DEF Range, Distinct

-----------------------------------------------------------------------------
(* Types *)

\* The tags of Internal are actions.
LEMMA Tags == Event \in Actions /\ Startup \in Actions /\ Sweep \in Actions /\ Verify \in Actions
              /\ Loops \subseteq Actions /\ Requests \subseteq Actions /\ None \notin Actions
BY ActionsChannelAssumption DEF Actions, Internal

\* The initial state has its types.
LEMMA TypeInit == Init => TypeOK
<1> SUFFICES ASSUME Init PROVE TypeOK
  OBVIOUS
<1>1. queue \in Seq(Actions) /\ Len(queue) <= Buffer
  BY ActionsChannelAssumption, Empty DEF Init
<1>2. due \in 0..Due /\ left \in 0..Due /\ ticks \in 0..Ticks
  BY ActionsChannelAssumption DEF Init
<1>3. /\ client \in [Requests -> {"idle", "submit", "wait", "ok", "busy", "shut", "gone"}]
      /\ loop \in [Loops -> {"idle", "submit", "stopped"}]
  BY DEF Init
<1> QED
  BY <1>1, <1>2, <1>3 DEF Init, TypeOK

\* A step of Run or of the process keeps the types.
LEMMA TypeRun ==
  ASSUME TypeOK, Run \/ RunFails \/ Cancel \/ BrowseRun \/ Exit
  PROVE  TypeOK'
<1> USE ActionsChannelAssumption DEF TypeOK, server, worker, submitters
<1>1. CASE CatchUpSend
  <2>1. Append(queue, Event) \in Seq(Actions) /\ Len(Append(queue, Event)) = Len(queue) + 1
        /\ Append(queue, Startup) \in Seq(Actions) /\ Len(Append(queue, Startup)) = Len(queue) + 1
    BY Tags, Enqueued
  <2>2. queue' = Append(queue, Event) \/ queue' = Append(queue, Startup)
    BY <1>1 DEF CatchUpSend
  <2>3. Len(queue) < Buffer /\ Len(queue) \in Nat /\ Buffer \in Nat
    BY <1>1 DEF CatchUpSend, Room
  <2>4. queue' \in Seq(Actions) /\ Len(queue') <= Buffer
    <3> HIDE ActionsChannelAssumption DEF TypeOK, server, worker, submitters
    <3>1. queue' \in Seq(Actions) /\ Len(queue') = Len(queue) + 1
      BY <2>1, <2>2
    <3> QED
      BY <2>3, <3>1
  <2>5. due' \in 0..Due /\ run' \in {"catchUp", "await"}
    BY <1>1 DEF CatchUpSend
  <2> QED
    BY <1>1, <2>4, <2>5 DEF CatchUpSend
<1>2. CASE StartupDone
  BY <1>2 DEF StartupDone
<1>3. CASE BeginShutdown
  BY <1>3 DEF BeginShutdown
<1>4. CASE HttpShutdown
  BY <1>4 DEF HttpShutdown
<1>5. CASE DrainTimeout
  BY <1>5 DEF DrainTimeout
<1>6. CASE DrainDone
  BY <1>6 DEF DrainDone
<1>7. CASE RunFails
  BY <1>7 DEF RunFails
<1>8. CASE Cancel
  BY <1>8 DEF Cancel
<1>9. CASE BrowseRun
  BY <1>9 DEF BrowseRun
<1>10. CASE Exit
  BY <1>10 DEF Exit
<1> QED
  BY <1>1, <1>2, <1>3, <1>4, <1>5, <1>6, <1>7, <1>8, <1>9, <1>10 DEF Run

\* A step of a request's handler keeps the types.
LEMMA TypeRequest ==
  ASSUME TypeOK, NEW c \in Requests, Request(c) \/ Send(c) \/ Refuse(c) \/ Reply(c)
  PROVE  TypeOK'
<1> USE ActionsChannelAssumption DEF TypeOK, server, worker, submitters
<1>1. CASE Request(c)
  BY <1>1 DEF Request
<1>2. CASE Send(c)
  <2>1. queue' \in Seq(Actions) /\ Len(queue') <= Buffer
    BY <1>2, Tags, Enqueued DEF Send, Room
  <2> QED
    BY <1>2, <2>1 DEF Send
<1>3. CASE Refuse(c)
  BY <1>3 DEF Refuse
<1>4. CASE Reply(c)
  BY <1>4 DEF Reply
<1> QED
  BY <1>1, <1>2, <1>3, <1>4

\* A step of a loop keeps the types.
LEMMA TypeLoop ==
  ASSUME TypeOK, NEW a \in Loops, Loop(a)
  PROVE  TypeOK'
<1> USE ActionsChannelAssumption DEF TypeOK, server, worker, submitters
<1>1. Append(queue, a) \in Seq(Actions) /\ Len(Append(queue, a)) = Len(queue) + 1
  BY Tags, Enqueued
<1>2. queue' \in Seq(Actions) /\ Len(queue') <= Buffer
  BY <1>1 DEF Loop, Room
<1>3. loop' \in [Loops -> {"idle", "submit", "stopped"}] /\ ticks' \in 0..Ticks
  BY DEF Loop
<1> QED
  BY <1>2, <1>3 DEF Loop

\* A step of the worker keeps the types.
LEMMA TypeWorker ==
  ASSUME TypeOK, Worker
  PROVE  TypeOK'
<1> USE ActionsChannelAssumption DEF TypeOK, server, worker, submitters
<1>1. CASE Take
  <2>1. queue \in Seq(Actions) /\ queue # <<>>
    BY <1>1 DEF Take
  <2>2. queue' \in Seq(Actions) /\ Len(queue') <= Buffer /\ Head(queue) \in Actions
    BY <1>1, <2>1, Dequeued DEF Take
  <2>3. act' \in Actions /\ left' \in 0..Due
    BY <1>1, <2>2 DEF Take, Begin
  <2> QED
    BY <1>1, <2>2, <2>3 DEF Take
<1>2. CASE Requeue
  <2>1. Append(queue, Event) \in Seq(Actions) /\ Len(Append(queue, Event)) = Len(queue) + 1
    BY Tags, Enqueued
  <2>2. queue' \in Seq(Actions) /\ Len(queue') <= Buffer
    BY <1>2, <2>1 DEF Requeue, Room
  <2> QED
    BY <1>2, <2>2 DEF Requeue
<1>3. CASE Finish
  BY <1>3 DEF Finish
<1>4. CASE Drain
  BY <1>4 DEF Drain
<1> QED
  BY <1>1, <1>2, <1>3, <1>4 DEF Worker

\* Every step keeps the types.
LEMMA TypeStep == TypeOK /\ [Next]_vars => TypeOK'
<1> SUFFICES ASSUME TypeOK, [Next]_vars PROVE TypeOK'
  OBVIOUS
<1>1. CASE UNCHANGED vars
  BY <1>1 DEF vars, TypeOK
<1> QED
  BY <1>1, TypeRun, TypeRequest, TypeLoop, TypeWorker DEF Next

\* The variables keep their types and the channel (New: make(chan action)) its
\* capacity, for every buffer size and number of due events.
THEOREM TypeCorrect == Spec => []TypeOK
BY TypeInit, TypeStep, PTL DEF Spec

-----------------------------------------------------------------------------
(* Start-up *)

\* What holds at each stage of Run, and StartupFirst.
Starts ==
  /\ run \in {"await", "serving", "shutdown", "drain"} => due = 0
  /\ run \in {"serving", "shutdown", "drain"} => started
  /\ StartupFirst

\* Every step keeps the stages of the start-up.
LEMMA StartsStep == TypeOK /\ Starts /\ [Next]_vars => Starts'
<1> SUFFICES ASSUME TypeOK, Starts, [Next]_vars PROVE Starts'
  OBVIOUS
<1> USE DEF Starts, StartupFirst, server, worker, submitters
<1>1. CASE CatchUpSend
  BY <1>1 DEF CatchUpSend, TypeOK
<1>2. CASE StartupDone
  BY <1>2 DEF StartupDone
<1>3. CASE BeginShutdown
  BY <1>3 DEF BeginShutdown
<1>4. CASE HttpShutdown
  BY <1>4 DEF HttpShutdown
<1>5. CASE DrainTimeout
  BY <1>5 DEF DrainTimeout
<1>6. CASE DrainDone
  BY <1>6 DEF DrainDone
<1>7. CASE RunFails \/ Cancel \/ BrowseRun \/ Exit
  BY <1>7 DEF RunFails, Cancel, BrowseRun, Exit
<1>8. ASSUME NEW c \in Requests, Request(c) \/ Send(c) \/ Refuse(c) \/ Reply(c)
      PROVE  Starts'
  <2>1. UNCHANGED <<run, due, started>>
    BY <1>8 DEF Request, Send, Refuse, Reply
  <2>2. c \notin Browse => started /\ due = 0
    BY <1>8 DEF Request, Send, Refuse, Reply
  <2>3. \A d \in Requests : d # c => client'[d] = client[d]
    BY <1>8 DEF Request, Send, Refuse, Reply, TypeOK
  <2> QED
    BY <2>1, <2>2, <2>3
<1>9. ASSUME NEW a \in Loops, Loop(a) PROVE Starts'
  BY <1>9 DEF Loop
<1>10. CASE Take \/ Requeue \/ Drain
  BY <1>10 DEF Take, Requeue, Drain
<1>11. CASE Finish
  BY <1>11 DEF Finish
<1>12. CASE UNCHANGED vars
  BY <1>12 DEF vars
<1> QED
  BY <1>1, <1>2, <1>3, <1>4, <1>5, <1>6, <1>7, <1>8, <1>9, <1>10, <1>11, <1>12
     DEF Next, Run, Worker

\* No request of the socket is accepted before the catch-up events are queued and
\* the start-up action has run (Run: "before socket work is accepted"), however
\* many events are due.
THEOREM StartupSafe == Spec => []StartupFirst
<1>1. Init => Starts
  BY DEF Init, Starts, StartupFirst
<1>2. Starts => StartupFirst
  BY DEF Starts
<1> QED
  BY <1>1, <1>2, TypeInit, TypeStep, StartsStep, PTL DEF Spec

-----------------------------------------------------------------------------
(* The accepted requests *)

\* A request is in the channel or in execution at most once, after its handler has
\* sent it and before its action has run; an answer comes after the run.
Accepted ==
  /\ Distinct(queue)
  /\ act \in Requests => act \notin Range(queue)
  /\ \A c \in Requests :
       /\ c \in ran => client[c] \in {"wait", "ok", "gone"}
       /\ c \in Range(queue) \/ c = act => client[c] \in {"wait", "gone"} /\ c \notin ran
       /\ client[c] = "ok" => c \in ran

\* Appending an action of the process itself keeps the requests in the channel.
LEMMA InternalSent ==
  ASSUME TypeOK, Accepted, NEW a \in Internal, queue' = Append(queue, a),
         UNCHANGED <<act, client, ran>>
  PROVE  Accepted'
<1>1. queue \in Seq(Actions) /\ a \in Actions /\ a \notin Requests
  BY ActionsChannelAssumption DEF TypeOK, Actions
<1>2. Range(queue') = Range(queue) \cup {a} /\ Distinct(queue')
  BY <1>1, Enqueued DEF Accepted
<1> QED
  BY <1>1, <1>2 DEF Accepted

\* Every step keeps what is known of the accepted requests.
LEMMA AcceptedStep == TypeOK /\ Accepted /\ [Next]_vars => Accepted'
<1> SUFFICES ASSUME TypeOK, Accepted, [Next]_vars PROVE Accepted'
  OBVIOUS
<1> USE DEF server, worker, submitters
<1>1. ASSUME UNCHANGED <<queue, act, client, ran>> PROVE Accepted'
  BY <1>1 DEF Accepted, Distinct
<1>2. CASE CatchUpSend
  <2>1. PICK a \in {Event, Startup} : queue' = Append(queue, a)
    BY <1>2 DEF CatchUpSend
  <2> QED
    BY <1>2, <2>1, InternalSent DEF CatchUpSend, Internal
<1>3. CASE StartupDone \/ BeginShutdown \/ HttpShutdown \/ DrainTimeout \/ DrainDone
  BY <1>3, <1>1 DEF StartupDone, BeginShutdown, HttpShutdown, DrainTimeout, DrainDone
<1>4. CASE RunFails \/ Cancel \/ BrowseRun \/ Exit
  BY <1>4, <1>1 DEF RunFails, Cancel, BrowseRun, Exit
<1>5. ASSUME NEW c \in Requests, Send(c) PROVE Accepted'
  <2>1. queue \in Seq(Actions) /\ c \in Actions /\ c \notin Range(queue) /\ c # act
    BY <1>5 DEF TypeOK, Actions, Accepted, Send
  <2>2. Range(queue') = Range(queue) \cup {c} /\ Distinct(queue')
    BY <1>5, <2>1, Enqueued DEF Accepted, Send
  <2>3. c \notin ran /\ client'[c] = "wait" /\ \A d \in Requests : d # c => client'[d] = client[d]
    BY <1>5 DEF TypeOK, Accepted, Send
  <2> QED
    BY <1>5, <2>1, <2>2, <2>3 DEF Accepted, Send
<1>6. ASSUME NEW c \in Requests, Request(c) \/ Refuse(c) \/ Reply(c) PROVE Accepted'
  <2>1. UNCHANGED <<queue, act, ran>>
    BY <1>6 DEF Request, Refuse, Reply
  <2>2. \A d \in Requests : d # c => client'[d] = client[d]
    BY <1>6 DEF Request, Refuse, Reply, TypeOK
  <2>3. \/ client[c] \in {"idle", "submit"} /\ client'[c] \in {"submit", "busy", "shut"}
        \/ client[c] = "wait" /\ client'[c] = "ok" /\ c \in ran
        \/ client[c] = "wait" /\ client'[c] = "gone"
    BY <1>6 DEF Request, Refuse, Reply, TypeOK
  <2> QED
    BY <2>1, <2>2, <2>3 DEF Accepted, Distinct
<1>7. ASSUME NEW a \in Loops, Loop(a) PROVE Accepted'
  <2>1. UNCHANGED <<act, client, ran>> /\ (queue' = queue \/ queue' = Append(queue, a))
    BY <1>7 DEF Loop
  <2>2. a \in Internal
    BY ActionsChannelAssumption DEF Internal
  <2> QED
    BY <2>1, <2>2, <1>1, InternalSent
<1>8. CASE Take
  <2>1. queue \in Seq(Actions) /\ queue # <<>> /\ queue' = Tail(queue) /\ act' = Head(queue)
    BY <1>8 DEF Take, Begin, TypeOK
  <2>2. Range(queue) = Range(queue') \cup {act'} /\ Distinct(queue')
        /\ (act' \in Requests => act' \notin Range(queue'))
    BY <2>1, Dequeued DEF Accepted
  <2>3. UNCHANGED <<client, ran>>
    BY <1>8 DEF Take
  <2> QED
    BY <2>2, <2>3 DEF Accepted
<1>9. CASE Requeue
  <2>1. UNCHANGED <<act, client, ran>> /\ (queue' = queue \/ queue' = Append(queue, Event))
    BY <1>9 DEF Requeue
  <2> QED
    BY <2>1, <1>1, InternalSent DEF Internal
<1>10. CASE Finish
  <2>1. UNCHANGED <<queue, client>> /\ act' = None /\ ran' = ran \cup ({act} \cap Requests)
    BY <1>10 DEF Finish
  <2>2. None \notin Requests
    BY ActionsChannelAssumption DEF Actions
  <2> QED
    BY <2>1, <2>2 DEF Accepted, Distinct
<1>11. CASE Drain
  BY <1>11, <1>1 DEF Drain
<1>12. CASE UNCHANGED vars
  BY <1>12, <1>1 DEF vars
<1> QED
  BY <1>2, <1>3, <1>4, <1>5, <1>6, <1>7, <1>8, <1>9, <1>10, <1>11, <1>12 DEF Next, Run, Worker

\* Nothing is accepted at first.
LEMMA AcceptedInit == Init => Accepted
<1> SUFFICES ASSUME Init PROVE Accepted
  OBVIOUS
<1>1. Range(queue) = {} /\ Distinct(queue)
  BY Empty DEF Init
<1>2. act \notin Requests
  BY ActionsChannelAssumption DEF Init, Actions
<1> QED
  BY <1>1, <1>2 DEF Init, Accepted

-----------------------------------------------------------------------------
(* The drain *)

\* What was accepted before the shutdown has run, or the worker still sees it; and
\* the worker leaves its loop after the shutdown has begun.
Drains ==
  /\ done => run \in {"shutdown", "drain", "returned"}
  /\ mode # "loop" => done
  /\ mode = "exit" => act = None
  /\ owed \subseteq ran \cup Range(queue) \cup {act}
  /\ DrainCompletes

\* Appending to the channel keeps what was accepted.
LEMMA OwedSent ==
  ASSUME TypeOK, Drains, NEW a \in Actions, queue' = Append(queue, a),
         UNCHANGED <<run, done, mode, act, ran, owed>>
  PROVE  Drains'
<1>1. Range(queue') = Range(queue) \cup {a}
  BY Enqueued DEF TypeOK
<1> QED
  BY <1>1 DEF Drains, DrainCompletes

\* Every step keeps what was accepted before the shutdown in the worker's sight.
LEMMA DrainsStep == TypeOK /\ Drains /\ [Next]_vars => Drains'
<1> SUFFICES ASSUME TypeOK, Drains, [Next]_vars PROVE Drains'
  OBVIOUS
<1> USE DEF server, worker, submitters
<1>1. ASSUME UNCHANGED <<run, done, mode, act, ran, owed, queue>> PROVE Drains'
  BY <1>1 DEF Drains, DrainCompletes
<1>2. CASE CatchUpSend
  <2>1. PICK a \in {Event, Startup} : queue' = Append(queue, a)
    BY <1>2 DEF CatchUpSend
  <2>2. Range(queue') = Range(queue) \cup {a}
    BY <2>1, Tags, Enqueued DEF TypeOK
  <2>3. UNCHANGED <<done, mode, act, ran, owed>> /\ ~done
    BY <1>2 DEF CatchUpSend, Drains, TypeOK
  <2> QED
    BY <2>2, <2>3 DEF Drains, DrainCompletes
<1>3. CASE StartupDone \/ RunFails
  BY <1>3 DEF StartupDone, RunFails, Drains, DrainCompletes
<1>4. CASE BeginShutdown
  <2>1. mode = "loop" /\ owed' \subseteq Range(queue) \cup {act} /\ done' /\ run' = "shutdown"
    BY <1>4 DEF BeginShutdown, Drains, TypeOK
  <2>2. UNCHANGED <<mode, act, ran, queue>>
    BY <1>4 DEF BeginShutdown
  <2> QED
    BY <2>1, <2>2 DEF Drains, DrainCompletes
<1>5. CASE HttpShutdown \/ DrainTimeout \/ DrainDone
  BY <1>5 DEF HttpShutdown, DrainTimeout, DrainDone, Drains, DrainCompletes
<1>6. CASE Cancel \/ BrowseRun \/ Exit
  BY <1>6, <1>1 DEF Cancel, BrowseRun, Exit
<1>7. ASSUME NEW c \in Requests, Request(c) \/ Send(c) \/ Refuse(c) \/ Reply(c)
      PROVE  Drains'
  <2>1. UNCHANGED <<run, done, mode, act, ran, owed>> /\ (queue' = queue \/ queue' = Append(queue, c))
    BY <1>7 DEF Request, Send, Refuse, Reply
  <2> QED
    BY <2>1, <1>1, Tags, OwedSent
<1>8. ASSUME NEW a \in Loops, Loop(a) PROVE Drains'
  <2>1. UNCHANGED <<run, done, mode, act, ran, owed>> /\ (queue' = queue \/ queue' = Append(queue, a))
    BY <1>8 DEF Loop
  <2> QED
    BY <2>1, <1>1, Tags, OwedSent
<1>9. CASE Take
  <2>1. queue \in Seq(Actions) /\ queue # <<>> /\ queue' = Tail(queue) /\ act' = Head(queue)
    BY <1>9 DEF Take, Begin, TypeOK
  <2>2. Range(queue) = Range(queue') \cup {act'}
    BY <2>1, Dequeued
  <2>3. UNCHANGED <<run, done, mode, ran, owed>> /\ mode # "exit" /\ act \notin Requests
    BY <1>9, ActionsChannelAssumption DEF Take, Actions
  <2> QED
    BY <2>2, <2>3 DEF Drains, DrainCompletes, TypeOK
<1>10. CASE Requeue
  <2>1. UNCHANGED <<run, done, mode, act, ran, owed>> /\ (queue' = queue \/ queue' = Append(queue, Event))
    BY <1>10 DEF Requeue
  <2> QED
    BY <2>1, <1>1, Tags, OwedSent
<1>11. CASE Finish
  <2>1. UNCHANGED <<run, done, mode, owed, queue>> /\ ran' = ran \cup ({act} \cap Requests) /\ act' = None
    BY <1>11 DEF Finish
  <2> QED
    BY <2>1 DEF Drains, DrainCompletes, TypeOK
<1>12. CASE Drain
  <2>1. UNCHANGED <<run, done, act, ran, owed, queue>> /\ act = None /\ done
    BY <1>12 DEF Drain, Drains
  <2>2. mode' = "drain" \/ (mode' = "exit" /\ queue = <<>>)
    BY <1>12 DEF Drain
  <2>3. None \notin Requests
    BY ActionsChannelAssumption DEF Actions
  <2>4. queue = <<>> => owed \subseteq ran
    BY <2>1, <2>3, Empty DEF Drains, TypeOK
  <2> QED
    BY <2>1, <2>2, <2>4 DEF Drains, DrainCompletes
<1>13. CASE UNCHANGED vars
  BY <1>13, <1>1 DEF vars
<1> QED
  BY <1>2, <1>3, <1>4, <1>5, <1>6, <1>7, <1>8, <1>9, <1>10, <1>11, <1>12, <1>13
     DEF Next, Run, Worker

\* The worker returns only when every action that was accepted before the shutdown
\* has run (startWorker: "it drains the remaining buffer, so in-flight submissions
\* complete"), however late the submitters send.
THEOREM DrainSafe == Spec => []DrainCompletes
<1>1. Init => Drains
  BY DEF Init, Drains, DrainCompletes
<1>2. Drains => DrainCompletes
  BY DEF Drains
<1> QED
  BY <1>1, <1>2, TypeInit, TypeStep, DrainsStep, PTL DEF Spec

-----------------------------------------------------------------------------
(* Refinement *)

\* The results of the requests, as the executor sees them.
Results == [c \in Requests |-> Result(c)]

\* A step that leaves the channel, the worker and the requests alone, or appends an
\* action of the process itself, is one of the executor.
LEMMA InternalStep ==
  ASSUME UNCHANGED <<act, client, ran>>,
         queue' = queue \/ \E a \in Internal : queue' = Append(queue, a)
  PROVE  [Executor!Next]_Executor!vars
<1>1. Results' = Results
  BY DEF Results, Result
<1> QED
  BY <1>1 DEF Results, Executor!Next, Executor!vars, Executor!AcceptInternal

\* Every step is one of the executor, or leaves its state alone.
LEMMA ExecutorStep ==
  TypeOK /\ Accepted /\ Accepted' /\ [Next]_vars => [Executor!Next]_Executor!vars
<1> SUFFICES ASSUME TypeOK, Accepted, Accepted', [Next]_vars
             PROVE  [Executor!Next]_Executor!vars
  OBVIOUS
<1> USE DEF server, worker, submitters
<1>1. CASE CatchUpSend
  BY <1>1, InternalStep DEF CatchUpSend, Internal
<1>2. CASE StartupDone \/ BeginShutdown \/ HttpShutdown \/ DrainTimeout \/ DrainDone
  BY <1>2, InternalStep DEF StartupDone, BeginShutdown, HttpShutdown, DrainTimeout, DrainDone
<1>3. CASE RunFails \/ Cancel \/ BrowseRun \/ Exit
  BY <1>3, InternalStep DEF RunFails, Cancel, BrowseRun, Exit
<1>4. ASSUME NEW c \in Requests, Send(c) PROVE Executor!Accept(c)
  <2>1. c \notin ran /\ client[c] = "submit" /\ client'[c] = "wait" /\ UNCHANGED <<ran, act>>
        /\ queue' = Append(queue, c)
    BY <1>4 DEF Send, Accepted, TypeOK
  <2>2. \A d \in Requests : d # c => client'[d] = client[d]
    BY <1>4 DEF Send, TypeOK
  <2>3. Result(c) = "new" /\ Result(c)' = "accepted"
    BY <2>1 DEF Result
  <2>4. \A d \in Requests : d # c => Result(d)' = Result(d)
    BY <2>1, <2>2 DEF Result
  <2>5. Results' = [Results EXCEPT ![c] = "accepted"]
    BY <2>3, <2>4 DEF Results
  <2> QED
    BY <2>1, <2>3, <2>5 DEF Results, Executor!Accept
<1>5. ASSUME NEW c \in Requests, Request(c) \/ Refuse(c) \/ Reply(c)
      PROVE  [Executor!Next]_Executor!vars
  <2>1. UNCHANGED <<queue, act, ran>>
    BY <1>5 DEF Request, Refuse, Reply
  <2>2. \A d \in Requests : d # c => client'[d] = client[d]
    BY <1>5 DEF Request, Refuse, Reply, TypeOK
  <2>3. \A d \in Requests : d # c => Result(d)' = Result(d)
    BY <2>1, <2>2 DEF Result
  <2>4. CASE client'[c] = "ok" /\ client[c] = "wait" /\ c \in ran
    <3>1. Result(c) = "ran" /\ Result(c)' = "answered"
      BY <2>1, <2>4 DEF Result
    <3>2. Results' = [Results EXCEPT ![c] = "answered"]
      BY <2>3, <3>1 DEF Results
    <3>3. Executor!Answer(c)
      BY <2>1, <3>1, <3>2 DEF Results, Executor!Answer
    <3> QED
      BY <3>3 DEF Executor!Next
  <2>5. CASE \/ client[c] = "wait" /\ client'[c] = "gone"
             \/ client[c] \in {"idle", "submit"} /\ client'[c] \in {"submit", "busy", "shut"}
    <3>1. c \in ran => client[c] = "wait"
      BY <2>5 DEF Accepted
    <3>2. Result(c)' = Result(c)
      BY <2>1, <2>5, <3>1 DEF Result
    <3>3. Results' = Results
      BY <2>3, <3>2 DEF Results
    <3> QED
      BY <2>1, <3>3 DEF Results, Executor!vars
  <2> QED
    BY <1>5, <2>4, <2>5 DEF Request, Refuse, Reply, TypeOK
<1>6. ASSUME NEW a \in Loops, Loop(a) PROVE [Executor!Next]_Executor!vars
  <2>1. a \in Internal
    BY ActionsChannelAssumption DEF Internal
  <2> QED
    BY <1>6, <2>1, InternalStep DEF Loop
<1>7. CASE Take
  <2>1. Results' = Results
    BY <1>7 DEF Take, Results, Result
  <2>2. Executor!Begin
    BY <1>7, <2>1 DEF Take, Begin, Results, Executor!Begin
  <2> QED
    BY <2>2 DEF Executor!Next
<1>8. CASE Requeue
  BY <1>8, InternalStep DEF Requeue, Internal
<1>9. CASE Finish
  <2>1. UNCHANGED <<queue, client>> /\ act # None /\ act' = None /\ ran' = ran \cup ({act} \cap Requests)
    BY <1>9 DEF Finish
  <2>2. \A c \in Requests : c # act => Result(c)' = Result(c)
    BY <2>1 DEF Result
  <2>3. \A c \in Requests : c = act => client'[c] # "ok" /\ c \in ran'
    BY <2>1 DEF Accepted
  <2>4. \A c \in Requests : client'[c] # "ok" /\ c \in ran' => Result(c)' = "ran"
    BY DEF Result
  <2>5. Results' = [c \in Requests |-> IF c = act THEN "ran" ELSE Results[c]]
    BY <2>2, <2>3, <2>4 DEF Results
  <2>6. Executor!End
    BY <2>1, <2>5 DEF Results, Executor!End
  <2> QED
    BY <2>6 DEF Executor!Next
<1>10. CASE Drain
  BY <1>10, InternalStep DEF Drain
<1>11. CASE UNCHANGED vars
  BY <1>11, InternalStep DEF vars
<1> QED
  BY <1>1, <1>2, <1>3, <1>4, <1>5, <1>6, <1>7, <1>8, <1>9, <1>10, <1>11
     DEF Next, Run, Worker, Executor!Next

\* serve's channel and worker implement the serial executor (Serve: "all work
\* executes on the single worker, so serve-side effects are globally FIFO"): every
\* accepted action runs at most once, one at a time and in the order of acceptance,
\* and a client is answered only after its action has run; for any requests, loops,
\* due events and capacity.
THEOREM Serial == Spec => IsSerial
<1>1. Init => Executor!Init
  BY DEF Init, Result, Executor!Init
<1> QED
  BY <1>1, TypeInit, TypeStep, AcceptedInit, AcceptedStep, ExecutorStep, PTL
     DEF Spec, IsSerial, Executor!Spec
==============================================================================
