-------------------------------- MODULE Notify --------------------------------
(***************************************************************************)
(* The post-receive notifications of several pushes, with what they meet   *)
(* in gitd serve: notify spools an event per ref line, has the bundle      *)
(* uploaded and posts every event to every sync plugin; serve's worker     *)
(* runs these deliveries and those of its sweep through the plugins.       *)
(*                                                                         *)
(* Delivery splits the updates of a record into their reads and writes;    *)
(* here an update is one step, and the subject is what the plugins get to  *)
(* see.  The bundle upload has any outcome: PushMirror is about it.  Purge *)
(* takes only what was delivered before, and is left to Delivery.          *)
(***************************************************************************)
EXTENDS SpoolRecord, Sequences, Functions

CONSTANTS
  Pushes,     \* post-receive runs
  MaxLines,   \* bound: ref lines of a push
  Plugins,    \* plugin ids
  Sync,       \* those with sync: true
  Traced,     \* those whose receptions are recorded, the sync ones among them
  Filtered,   \* those whose repos glob does not match the repository
  Configs,    \* the plugin lists webhooks.yaml may hold
  Buffer,     \* capacity of the actions channel
  None

VARIABLES
  live,     \* the plugins of serve's live configuration
  notify,   \* push -> its notify process
  spool,    \* event -> slot of the spool directory
  queue,    \* the actions channel
  worker,   \* the delivery in execution
  sweep,    \* events that the sweep in execution has still to queue
  got,      \* history: traced plugin -> the events it answered with a 2xx, in order
  offered,  \* history: event -> the permanent plugins whose Deliver was called for it,
            \* and all of them once a request settled it or a crash took it from deliverAll
  before    \* history: pairs of pushes, the first acknowledged before the second began

vars == <<live, notify, spool, queue, worker, sweep, got, offered, before>>

serve == <<live, queue, worker, sweep>>
history == <<got, offered, before>>

Events == Pushes \X (1..MaxLines)

\* A process with nothing spooled.  todo: the requests not answered yet, as positions
\* in conf and ids; now: the one whose answer is awaited.
Process(pc, conf, left) ==
  [pc |-> pc, conf |-> conf, left |-> left, ids |-> <<>>, todo |-> {}, now |-> None]

NewNotify == Process("new", <<>>, 0)

\* A delivery: of an event to a plugin for a push, or to all plugins.
Act(e, plugin, for) == [ev |-> e, plugin |-> plugin, for |-> for]

IdleWorker == [ev |-> None, todo |-> <<>>, for |-> None]

Init ==
  /\ live \in Configs
  /\ notify = [p \in Pushes |-> NewNotify]
  /\ spool = [e \in Events |-> Absent]
  /\ queue = <<>>
  /\ worker = IdleWorker
  /\ sweep = {}
  /\ got = [g \in Traced |-> <<>>]
  /\ offered = [e \in Events |-> {}]
  /\ before = {}

Listed(conf) == Range(conf)

At(p, pc) == notify[p].pc = pc

Goto(p, pc) == notify' = [notify EXCEPT ![p].pc = pc]

\* A notify that has failed leaves nothing behind but its spooled events.
Failed == Process("failed", <<>>, 0)

\* The plugins that are configured all the time.
Permanent == {g \in Plugins : \A c \in Configs : g \in Range(c)}

Excuse(e) == [offered EXCEPT ![e] = Permanent]

Fail(p) == notify' = [notify EXCEPT ![p] = Failed]

-----------------------------------------------------------------------------
(* notify *)

\* newNotifier reads webhooks.yaml, which an operator may have edited before;
\* parseRefLines has some lines.
Start(p) ==
  /\ At(p, "new")
  /\ \E conf \in Configs, n \in 0..MaxLines :
       notify' = [notify EXCEPT ![p] = Process("spool", conf, n)]
  /\ before' = before \cup {<<q, p>> : q \in {r \in Pushes : At(r, "ok")}}
  /\ UNCHANGED <<spool, got, offered>> /\ UNCHANGED serve

\* One line: buildEvent and Write, or buildEvent fails and the line is skipped, or
\* Write fails and so does notify.
SpoolLine(p) ==
  LET n == [notify[p] EXCEPT !.left = @ - 1]
      e == <<p, Len(n.ids) + 1>>
  IN  /\ At(p, "spool") /\ notify[p].left > 0
      /\ \/ /\ spool' = [spool EXCEPT ![e] = NewRecord]
            /\ notify' = [notify EXCEPT ![p] = [n EXCEPT !.ids = Append(@, e)]]
         \/ /\ notify' = [notify EXCEPT ![p] = n]
            /\ UNCHANGED spool
         \/ /\ Fail(p)
            /\ UNCHANGED spool
      /\ UNCHANGED history /\ UNCHANGED serve

\* One request for each sync plugin and each event.
Requests(conf, ids) == {i \in DOMAIN conf : conf[i] \in Sync} \X DOMAIN ids

\* The plugins go in file order, and for each of them the events in line order.
IsNext(r, todo) ==
  r \in todo /\ \A s \in todo : r[1] < s[1] \/ (r[1] = s[1] /\ r[2] <= s[2])

\* All lines are spooled: one /v1/bundle, and its reply.
Bundle(p) ==
  /\ At(p, "spool") /\ notify[p].left = 0
  /\ \/ notify' = [notify EXCEPT ![p] =
          [@ EXCEPT !.pc = "post", !.todo = Requests(notify[p].conf, notify[p].ids)]]
     \/ Fail(p)
  /\ UNCHANGED <<spool, history>> /\ UNCHANGED serve

\* Nothing is left to deliver: notify exits 0.
Exit(p) ==
  /\ At(p, "post") /\ notify[p].todo = {}
  /\ Goto(p, "ok")
  /\ UNCHANGED <<spool, history>> /\ UNCHANGED serve

\* POST /v1/deliver.  handleDeliver dead-letters an event for a plugin that is not
\* live, if it can; otherwise submit queues the action, or the channel stays full.
Deliver(p) ==
  /\ At(p, "post")
  /\ \E r \in notify[p].todo :
       LET plugin == notify[p].conf[r[1]]
           e == notify[p].ids[r[2]]
       IN  /\ IsNext(r, notify[p].todo)
           /\ \/ /\ plugin \notin Listed(live)
                 /\ \E slot \in {WithState(spool[e], "dead"), spool[e]} :
                      spool' = [spool EXCEPT ![e] = slot]
                 /\ offered' = Excuse(e)
                 /\ Fail(p)
                 /\ UNCHANGED queue
              \/ /\ plugin \in Listed(live) /\ Len(queue) < Buffer
                 /\ queue' = Append(queue, Act(e, plugin, p))
                 /\ notify' = [notify EXCEPT ![p] = [@ EXCEPT !.pc = "wait", !.now = r]]
                 /\ UNCHANGED <<spool, offered>>
              \/ /\ plugin \in Listed(live) /\ Len(queue) = Buffer
                 /\ Fail(p)
                 /\ UNCHANGED <<spool, offered, queue>>
  /\ UNCHANGED <<live, worker, sweep, got, before>>

\* The socket timeout passes; the action stays queued.
Timeout(p) ==
  /\ At(p, "wait")
  /\ Fail(p)
  /\ UNCHANGED <<spool, history>> /\ UNCHANGED serve

-----------------------------------------------------------------------------
(* serve *)

\* SIGHUP makes webhooks.yaml live, whatever an operator has put there.
Reload ==
  /\ live' \in Configs
  /\ UNCHANGED <<notify, spool, queue, worker, sweep, history>>

RetryTimeArrives(e) ==
  /\ spool[e].next = "later"
  /\ spool' = [spool EXCEPT ![e] = Arrived(@)]
  /\ UNCHANGED <<notify, history>> /\ UNCHANGED serve

Idle == worker = IdleWorker /\ sweep = {}

\* Catch-up, at the start or in a sweep: the due events ...
Sweep ==
  /\ Idle
  /\ sweep' = {e \in Events : Due(spool[e])}
  /\ UNCHANGED <<notify, spool, live, queue, worker, history>>

\* ... are queued in the order of their random ids, or dropped if the channel is full.
Requeue(e) ==
  /\ e \in sweep
  /\ sweep' = sweep \ {e}
  /\ queue' = IF Len(queue) < Buffer THEN Append(queue, Act(e, None, None)) ELSE queue
  /\ UNCHANGED <<notify, spool, live, worker, history>>

\* The worker takes a delivery; deliverAllAction snapshots the live plugins.
Take ==
  LET a == Head(queue)
  IN  /\ Idle /\ queue # <<>>
      /\ queue' = Tail(queue)
      /\ worker' = IF a.plugin = None /\ live = <<>> THEN worker
                   ELSE [ev |-> a.ev, for |-> a.for,
                         todo |-> IF a.plugin = None THEN live ELSE <<a.plugin>>]
      /\ UNCHANGED <<notify, spool, live, sweep, history>>

\* Mutant of Next1: the first failure ends deliverAllAction.
Next1FailFast(ok) == IF ok /\ Len(worker.todo) > 1 THEN [worker EXCEPT !.todo = Tail(@)] ELSE IdleWorker

\* deliverAllAction goes on with the next plugin, whatever the last one did.
Next1(ok) == IF Len(worker.todo) > 1 THEN [worker EXCEPT !.todo = Tail(@)] ELSE IdleWorker

\* notify has its answer and goes on with the next request.
Answered(p) == [notify[p] EXCEPT !.pc = "post", !.todo = @ \ {notify[p].now}, !.now = None]

\* Mutant of Reply: notify goes on after a failed delivery.
ReplyAny(ok) ==
  LET p == worker.for
  IN  IF p # None /\ At(p, "wait")
      THEN notify' = [notify EXCEPT ![p] = Answered(p)]
      ELSE UNCHANGED notify

\* The reply to notify, if it still waits: the first failure ends it.
Reply(ok) ==
  LET p == worker.for
  IN  IF p # None /\ At(p, "wait")
      THEN notify' = [notify EXCEPT ![p] = IF ok THEN Answered(p) ELSE Failed]
      ELSE UNCHANGED notify

\* Deliver returns: the record is settled, or has another failure.
Settle(slot, ok) ==
  LET e == worker.ev
  IN  /\ spool' = [spool EXCEPT ![e] = slot]
      /\ offered' = IF worker.for # None THEN Excuse(e)
                    ELSE [offered EXCEPT ![e] = @ \cup (Permanent \cap {Head(worker.todo)})]
      /\ Reply(ok)
      /\ worker' = Next1(ok)

\* The plugin is not in the live configuration any more, or cannot be built: deadLetter.
DeliverDead ==
  /\ worker # IdleWorker
  /\ Settle(WithState(spool[worker.ev], "dead"), FALSE)
  /\ UNCHANGED <<live, queue, sweep, got, before>>

\* The record cannot be read, or not be updated after the plugin refused it.
DeliverUnrecorded ==
  /\ worker # IdleWorker
  /\ Settle(spool[worker.ev], FALSE)
  /\ UNCHANGED <<live, queue, sweep, got, before>>

\* Mutant of DeliverAccepted: any response counts as delivered.
DeliverAnswered ==
  LET g == Head(worker.todo)
  IN  /\ worker # IdleWorker /\ g \in Listed(live) \ Filtered
      /\ UNCHANGED got
      /\ Settle(WithState(spool[worker.ev], "delivered"), TRUE)
      /\ UNCHANGED <<live, queue, sweep, before>>

\* The plugin posts the event and has a 2xx; the record may fail to be updated.
DeliverAccepted ==
  LET g == Head(worker.todo)
      e == worker.ev
  IN  /\ worker # IdleWorker /\ g \in Listed(live) \ Filtered
      /\ got' = IF g \in Traced /\ e \notin Range(got[g])
                THEN [got EXCEPT ![g] = Append(@, e)] ELSE got
      /\ \/ Settle(WithState(spool[e], "delivered"), TRUE)
         \/ Settle(spool[e], FALSE)
      /\ UNCHANGED <<live, queue, sweep, before>>

\* The repos glob does not match: nothing is sent, and the event counts as delivered.
DeliverFiltered ==
  /\ worker # IdleWorker
  /\ Head(worker.todo) \in Listed(live) \cap Filtered
  /\ Settle(WithState(spool[worker.ev], "delivered"), TRUE)
  /\ UNCHANGED <<live, queue, sweep, got, before>>

\* No 2xx, or no request can be made: recordFailure.
DeliverFails ==
  /\ worker # IdleWorker
  /\ Head(worker.todo) \in Listed(live) \ Filtered
  /\ Settle(WithFailure(spool[worker.ev]), FALSE)
  /\ UNCHANGED <<live, queue, sweep, got, before>>

\* serve dies and starts again with what webhooks.yaml says.
Crash ==
  /\ queue # <<>> \/ ~Idle
  /\ queue' = <<>> /\ worker' = IdleWorker /\ sweep' = {}
  /\ live' \in Configs
  /\ notify' = [p \in Pushes |-> IF At(p, "wait") THEN Failed ELSE notify[p]]
  /\ offered' = IF worker = IdleWorker THEN offered ELSE Excuse(worker.ev)
  /\ UNCHANGED <<spool, got, before>>

Worker ==
  Take \/ DeliverDead \/ DeliverUnrecorded \/ DeliverAccepted \/ DeliverFiltered \/ DeliverFails

Next ==
  \/ \E p \in Pushes : Start(p) \/ SpoolLine(p) \/ Bundle(p) \/ Exit(p) \/ Deliver(p) \/ Timeout(p)
  \/ Reload
  \/ \E e \in Events : RetryTimeArrives(e) \/ Requeue(e)
  \/ Sweep \/ Worker \/ Crash

Spec == Init /\ [][Next]_vars

-----------------------------------------------------------------------------
(* Properties *)

\* What the modelled program is given: lists of plugins, of which the sync ones are
\* recorded, and a None that is nothing else.
ConstantsOK ==
  /\ Configs \subseteq Seq(Plugins)
  /\ Sync \subseteq Traced /\ Traced \subseteq Plugins
  /\ MaxLines \in Nat /\ Buffer \in Nat
  /\ None \notin Plugins \cup Pushes

NotifyType ==
  [pc : {"new", "spool", "post", "wait", "ok", "failed"}, conf : {<<>>} \cup Configs,
   left : 0..MaxLines, ids : Seq(Events), todo : SUBSET (Nat \X Nat), now : {None} \cup (Nat \X Nat)]

Action == [ev : Events, plugin : {None} \cup Plugins, for : {None} \cup Pushes]

WorkerType == [ev : {None} \cup Events, todo : Seq(Plugins), for : {None} \cup Pushes]

\* The processes, records and queues keep their types: at most Buffer deliveries wait
\* in the channel, and a push has no more events than lines.
TypeOK ==
  /\ live \in Configs
  /\ notify \in [Pushes -> NotifyType]
  /\ \A p \in Pushes : Len(notify[p].ids) + notify[p].left <= MaxLines
  /\ spool \in [Events -> Slot]
  /\ queue \in Seq(Action) /\ Len(queue) <= Buffer
  /\ worker \in WorkerType
  /\ sweep \subseteq Events
  /\ got \in [Traced -> Seq(Events)]
  /\ offered \in [Events -> SUBSET Plugins]
  /\ before \subseteq Pushes \X Pushes

\* notify exits 0 only when every sync plugin of the configuration it read has
\* answered every event of the push with a 2xx, or filters the repository out
\* (Notify: "Sync-mode deliveries: serial per plugin, fail-fast").
AckMeansReceived ==
  \A p \in Pushes : At(p, "ok") =>
    \A g \in (Listed(notify[p].conf) \cap Sync) \ Filtered :
      Range(notify[p].ids) \subseteq Range(got[g])

\* A sync plugin sees pushes in their order when they are acknowledged: if notify
\* of one push has exited 0 before that of another began, the plugin has got every
\* event of the first before any of the second, also when sweeps deliver events in
\* the order of their random ids in between.
AckedPushesInOrder ==
  \A pair \in before : \A g \in (Listed(notify[pair[1]].conf) \cap Sync) \ Filtered :
    \A i, j \in DOMAIN got[g] : got[g][i][1] = pair[1] /\ got[g][j][1] = pair[2] => i < j

\* What plugin-authoring.md says of every plugin: "each plugin sees events in push
\* order", here for pushes of which one was acknowledged before the other began.
PushOrder ==
  \A pair \in before : \A g \in Traced :
    \A i, j \in DOMAIN got[g] : got[g][i][1] = pair[1] /\ got[g][j][1] = pair[2] => i < j

\* An event that is settled has been offered to every plugin that was configured
\* all the time, unless a /v1/deliver request took part in settling it, or serve
\* died in the middle of its deliverAllAction.
HiddenOnlyBySync ==
  \A e \in Events : spool[e].state \in {"delivered", "dead"} /\ worker.ev # e =>
    Permanent \subseteq offered[e]
==============================================================================
