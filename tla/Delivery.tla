------------------------------- MODULE Delivery -------------------------------
(***************************************************************************)
(* Webhook delivery in gitd serve: the spool, the actions channel with its *)
(* single worker, the Deliverer, the /v1/deliver handler, the periodic     *)
(* sweep, and the other processes that touch the same spool directory      *)
(* (notify writing events, the `gitd spool purge` command).                *)
(*                                                                         *)
(* Everything the worker runs is serial, but the spool is not the worker's *)
(* alone: the handler dead-letters an unknown plugin-id from its own       *)
(* goroutine, and purge deletes from a list it read earlier.  Every        *)
(* read-modify-write of a record is therefore a read step and a write      *)
(* step, and every purge a list step and one step per removal.             *)
(***************************************************************************)
EXTENDS SpoolRecord, Sequences, FiniteSets

CONSTANTS Events,      \* event ids (spool file names)
          Plugins,     \* plugin ids a caller may name
          Configs,     \* the plugin lists webhooks.yaml may hold
          BufferSize,  \* capacity of the actions channel
          Requests,    \* HTTP requests; each is made at most once
          None         \* no event, request or argument

ASSUME DeliveryAssumption ==
  /\ Configs \subseteq Seq(Plugins)
  /\ BufferSize \in Nat \ {0}
  /\ None \notin Events \cup Requests

VARIABLES
  config,     \* the live webhooks config: plugin ids in file order
  spool,      \* event id -> slot of the spool directory
  written,    \* events notify has written so far
  old,        \* events whose created-at is past the retention TTL
  actions,    \* the actions channel
  worker,     \* the worker goroutine's position and locals
  req,        \* request -> its handler goroutine's position and locals
  cliPurge,   \* what a running `gitd spool purge` has still to delete
  serve,      \* lifecycle of the serve process
  startIds,   \* ids the startup catch-up has still to queue
  loop,       \* is the sweep loop goroutine alive?
  accepted,   \* history: event -> plugins whose Deliver returned nil
  finalFail   \* history: events that met an unknown or unbuildable plugin

vars == <<config, spool, written, old, actions, worker, req, cliPurge,
          serve, startIds, loop, accepted, finalFail>>

Action ==
  [kind : {"deliverAll", "deliver", "sweep", "startup", "other"},
   arg : Events \cup Requests \cup {None}]

Act(kind, arg) == [kind |-> kind, arg |-> arg]

IdleWorker ==
  [pc |-> "idle", ev |-> None, todo |-> <<>>, req |-> None,
   op |-> "failed", rec |-> Absent, ids |-> {}, startup |-> FALSE]

NewRequest == [pc |-> "new", ev |-> None, plugin |-> None, rec |-> Absent]

\* Positions of a handler goroutine that has not answered yet.
InFlight == {"deadRead", "deadWrite", "submitting", "waiting"}

Init ==
  /\ config \in Configs
  /\ spool = [e \in Events |-> Absent]
  /\ written = {}
  /\ old = {}
  /\ actions = <<>>
  /\ worker = IdleWorker
  /\ req = [r \in Requests |-> NewRequest]
  /\ cliPurge = {}
  /\ serve = "down"
  /\ startIds = {}
  /\ loop = "off"
  /\ accepted = [e \in Events |-> {}]
  /\ finalFail = {}

-----------------------------------------------------------------------------
(* Helpers *)

Configured(p) == \E i \in 1..Len(config) : config[i] = p

DueEvents == {e \in Events : Due(spool[e])}

ExpiredEvents == {e \in Events : Expired(spool[e], e \in old)}

HasRoom == Len(actions) < BufferSize

\* A send that the channel accepts.
Send(act) == HasRoom /\ actions' = Append(actions, act)

Store(e, slot) == spool' = [spool EXCEPT ![e] = slot]

\* The reply to the request whose action the worker runs; a handler whose
\* client has gone no longer listens.
Reply(r, result) ==
  req' = IF r \in Requests /\ req[r].pc = "waiting"
         THEN [req EXCEPT ![r].pc = result]
         ELSE req

-----------------------------------------------------------------------------
(* The environment: notify, time, SIGHUP and the purge command. *)

\* notify spools one event of a push.
NotifyWrite(e) ==
  /\ e \notin written
  /\ written' = written \cup {e}
  /\ Store(e, NewRecord)
  /\ UNCHANGED <<config, old, actions, worker, req, cliPurge, serve, startIds,
                 loop, accepted, finalFail>>

\* A retry time arrives, in the file and in every copy of it read earlier.
RetryTimeArrives(e) ==
  /\ spool[e].next = "later"
  /\ Store(e, Arrived(spool[e]))
  /\ worker' = IF worker.ev = e THEN [worker EXCEPT !.rec = Arrived(@)] ELSE worker
  /\ req' = [r \in Requests |->
              IF req[r].ev = e THEN [req[r] EXCEPT !.rec = Arrived(@)] ELSE req[r]]
  /\ UNCHANGED <<config, written, old, actions, cliPurge, serve, startIds, loop,
                 accepted, finalFail>>

\* An event's age passes the retention TTL.
RetentionPasses(e) ==
  /\ e \in written \ old
  /\ old' = old \cup {e}
  /\ UNCHANGED <<config, spool, written, actions, worker, req, cliPurge, serve,
                 startIds, loop, accepted, finalFail>>

\* SIGHUP swaps the live webhooks config and the retention TTL, so that events
\* may be past it that were not, or not be past it that were.
Reload ==
  /\ serve # "down"
  /\ config' \in Configs
  /\ old' \in SUBSET written
  /\ UNCHANGED <<spool, written, actions, worker, req, cliPurge, serve,
                 startIds, loop, accepted, finalFail>>

\* `gitd spool purge` lists the spool in its own process ...
CliPurgeList ==
  /\ cliPurge = {}
  /\ cliPurge' = ExpiredEvents
  /\ UNCHANGED <<config, spool, written, old, actions, worker, req, serve,
                 startIds, loop, accepted, finalFail>>

\* ... and deletes what it listed, one file at a time.
CliPurgeDelete(e) ==
  /\ e \in cliPurge
  /\ cliPurge' = cliPurge \ {e}
  /\ Store(e, Absent)
  /\ UNCHANGED <<config, written, old, actions, worker, req, serve, startIds,
                 loop, accepted, finalFail>>

Environment ==
  \/ \E e \in Events : \/ NotifyWrite(e)
                       \/ RetryTimeArrives(e)
                       \/ RetentionPasses(e)
                       \/ CliPurgeDelete(e)
  \/ Reload
  \/ CliPurgeList

-----------------------------------------------------------------------------
(* Start, the sweep loop, and the crash of the serve process. *)

\* Run: config is loaded, the worker starts, the startup catch-up lists what
\* is due.  A List error ends the process before anything changed.
Start ==
  /\ serve = "down"
  /\ serve' = "catchup"
  /\ config' \in Configs
  /\ startIds' = DueEvents
  /\ UNCHANGED <<spool, written, old, actions, worker, req, cliPurge,
                 loop, accepted, finalFail>>

\* catchUp: a blocking send per due id.
CatchUpSend(e) ==
  /\ serve = "catchup"
  /\ e \in startIds
  /\ Send(Act("deliverAll", e))
  /\ startIds' = startIds \ {e}
  /\ UNCHANGED <<config, spool, written, old, worker, req, cliPurge, serve,
                 loop, accepted, finalFail>>

\* Run then queues the startup sweep and waits for it.
StartupSend ==
  /\ serve = "catchup"
  /\ startIds = {}
  /\ Send(Act("startup", None))
  /\ serve' = "starting"
  /\ UNCHANGED <<config, spool, written, old, worker, req, cliPurge, startIds,
                 loop, accepted, finalFail>>

\* The ticker fires and the loop submits a sweep.
SweepLoopSubmit ==
  /\ loop = "on"
  /\ Send(Act("sweep", None))
  /\ UNCHANGED <<config, spool, written, old, worker, req, cliPurge, serve,
                 startIds, loop, accepted, finalFail>>

\* submitWait passes with the channel full: submit returns ErrBusy and the
\* loop's goroutine returns.
SweepLoopBusy ==
  /\ loop = "on"
  /\ ~HasRoom
  /\ loop' = "off"
  /\ UNCHANGED <<config, spool, written, old, actions, worker, req, cliPurge,
                 serve, startIds, accepted, finalFail>>

\* The serve process dies: channel, worker and handlers are gone, the spool
\* stays.
Crash ==
  /\ serve # "down"
  /\ serve' = "down"
  /\ startIds' = {}
  /\ loop' = "off"
  /\ actions' = <<>>
  /\ worker' = IdleWorker
  /\ req' = [r \in Requests |->
              IF req[r].pc \in InFlight THEN [req[r] EXCEPT !.pc = "gone"] ELSE req[r]]
  /\ UNCHANGED <<config, spool, written, old, cliPurge, accepted, finalFail>>

Lifecycle ==
  \/ Start
  \/ \E e \in Events : CatchUpSend(e)
  \/ StartupSend
  \/ SweepLoopSubmit
  \/ SweepLoopBusy
  \/ Crash

-----------------------------------------------------------------------------
(* handleDeliver, and the handlers that queue other work. *)

\* A valid POST /v1/deliver, from notify (sync plugin) or spool replay.  An
\* unknown plugin-id goes to the dead-letter path of the handler itself.
HandleDeliver(r, e, p) ==
  /\ serve = "up"
  /\ req[r].pc = "new"
  /\ req' = [req EXCEPT ![r] = [@ EXCEPT !.ev = e, !.plugin = p,
                 !.pc = IF Configured(p) THEN "submitting" ELSE "deadRead"]]
  /\ finalFail' = IF Configured(p) THEN finalFail ELSE finalFail \cup {e}
  /\ UNCHANGED <<config, spool, written, old, actions, worker, cliPurge, serve,
                 startIds, loop, accepted>>

\* SetState(dead) in the handler goroutine: the read half of update ...
DeadLetterRead(r) ==
  /\ req[r].pc = "deadRead"
  /\ spool[req[r].ev] # Absent
  /\ req' = [req EXCEPT ![r].pc = "deadWrite", ![r].rec = spool[req[r].ev]]
  /\ UNCHANGED <<config, spool, written, old, actions, worker, cliPurge, serve,
                 startIds, loop, accepted, finalFail>>

\* ... and the write half, then the 404.
DeadLetterWrite(r) ==
  /\ req[r].pc = "deadWrite"
  /\ Store(req[r].ev, WithState(req[r].rec, "dead"))
  /\ req' = [req EXCEPT ![r].pc = "notFound"]
  /\ UNCHANGED <<config, written, old, actions, worker, cliPurge, serve,
                 startIds, loop, accepted, finalFail>>

\* The record is missing or an I/O error ends update: logged, still a 404.
DeadLetterFails(r) ==
  /\ req[r].pc \in {"deadRead", "deadWrite"}
  /\ req' = [req EXCEPT ![r].pc = "notFound"]
  /\ UNCHANGED <<config, spool, written, old, actions, worker, cliPurge, serve,
                 startIds, loop, accepted, finalFail>>

\* submit's send succeeds; the handler waits for its reply.
Submit(r) ==
  /\ req[r].pc = "submitting"
  /\ Send(Act("deliver", r))
  /\ req' = [req EXCEPT ![r].pc = "waiting"]
  /\ UNCHANGED <<config, spool, written, old, worker, cliPurge, serve, startIds,
                 loop, accepted, finalFail>>

\* submitWait passes with the channel full: 503.
SubmitBusy(r) ==
  /\ req[r].pc = "submitting"
  /\ ~HasRoom
  /\ req' = [req EXCEPT ![r].pc = "busy"]
  /\ UNCHANGED <<config, spool, written, old, actions, worker, cliPurge, serve,
                 startIds, loop, accepted, finalFail>>

\* The client disconnects while it waits; the action stays queued.
Disconnect(r) ==
  /\ req[r].pc = "waiting"
  /\ req' = [req EXCEPT ![r].pc = "gone"]
  /\ UNCHANGED <<config, spool, written, old, actions, worker, cliPurge, serve,
                 startIds, loop, accepted, finalFail>>

\* A bundle, restore, delete or render request queues work that does not touch
\* the spool but occupies the channel and the worker.
SubmitOther(r) ==
  /\ serve = "up"
  /\ req[r].pc = "new"
  /\ Send(Act("other", None))
  /\ req' = [req EXCEPT ![r].pc = "gone"]
  /\ UNCHANGED <<config, spool, written, old, worker, cliPurge, serve, startIds,
                 loop, accepted, finalFail>>

Handlers ==
  \E r \in Requests :
    \/ \E e \in Events, p \in Plugins : HandleDeliver(r, e, p)
    \/ DeadLetterRead(r)
    \/ DeadLetterWrite(r)
    \/ DeadLetterFails(r)
    \/ Submit(r)
    \/ SubmitBusy(r)
    \/ Disconnect(r)
    \/ SubmitOther(r)

-----------------------------------------------------------------------------
(* The worker: deliverAllAction and the /v1/deliver action. *)

Dequeue(kinds) ==
  /\ worker.pc = "idle"
  /\ actions # <<>>
  /\ Head(actions).kind \in kinds
  /\ actions' = Tail(actions)

\* deliverAllAction snapshots the plugin list; with none the event is left.
TakeDeliverAll ==
  /\ Dequeue({"deliverAll"})
  /\ worker' = IF config = <<>> THEN worker
               ELSE [worker EXCEPT !.pc = "deliver", !.ev = Head(actions).arg,
                                   !.todo = config]
  /\ UNCHANGED <<config, spool, written, old, req, cliPurge, serve, startIds,
                 loop, accepted, finalFail>>

TakeDeliver ==
  /\ Dequeue({"deliver"})
  /\ LET r == Head(actions).arg
     IN  worker' = [worker EXCEPT !.pc = "deliver", !.ev = req[r].ev,
                                  !.todo = <<req[r].plugin>>, !.req = r]
  /\ UNCHANGED <<config, spool, written, old, req, cliPurge, serve, startIds,
                 loop, accepted, finalFail>>

\* One Deliver call returns: reply, and go on with the next plugin if any.
EndDeliver(result) ==
  /\ Reply(worker.req, result)
  /\ worker' = IF Len(worker.todo) > 1
               THEN [worker EXCEPT !.pc = "deliver", !.todo = Tail(@), !.rec = Absent]
               ELSE IdleWorker

\* Deliver finds the plugin in the live config, builds it and reads the record.
DeliverBegin ==
  /\ worker.pc = "deliver"
  /\ Configured(Head(worker.todo))
  /\ spool[worker.ev] # Absent
  /\ worker' = [worker EXCEPT !.pc = "call"]
  /\ UNCHANGED <<config, spool, written, old, actions, req, cliPurge, serve,
                 startIds, loop, accepted, finalFail>>

\* The record is missing or cannot be read.
DeliverNoRecord ==
  /\ worker.pc = "deliver"
  /\ Configured(Head(worker.todo))
  /\ EndDeliver("err")
  /\ UNCHANGED <<config, spool, written, old, actions, cliPurge, serve, startIds,
                 loop, accepted, finalFail>>

\* The plugin is not (any longer) configured, or its constructor refuses the
\* config: deadLetter.
DeliverUnknown ==
  /\ worker.pc = "deliver"
  /\ worker' = [worker EXCEPT !.pc = "read", !.op = "dead"]
  /\ finalFail' = finalFail \cup {worker.ev}
  /\ UNCHANGED <<config, spool, written, old, actions, req, cliPurge, serve,
                 startIds, loop, accepted>>

\* The plugin's Deliver returns nil ...
PluginAccepts ==
  /\ worker.pc = "call"
  /\ accepted' = [accepted EXCEPT ![worker.ev] = @ \cup {Head(worker.todo)}]
  /\ worker' = [worker EXCEPT !.pc = "read", !.op = "delivered"]
  /\ UNCHANGED <<config, spool, written, old, actions, req, cliPurge, serve,
                 startIds, loop, finalFail>>

\* ... or an error, the per-attempt timeout included.
PluginFails ==
  /\ worker.pc = "call"
  /\ worker' = [worker EXCEPT !.pc = "read", !.op = "failed"]
  /\ UNCHANGED <<config, spool, written, old, actions, req, cliPurge, serve,
                 startIds, loop, accepted, finalFail>>

\* update for SetState or RecordFailure: read, ...
UpdateRead ==
  /\ worker.pc = "read"
  /\ spool[worker.ev] # Absent
  /\ worker' = [worker EXCEPT !.pc = "write", !.rec = spool[worker.ev]]
  /\ UNCHANGED <<config, spool, written, old, actions, req, cliPurge, serve,
                 startIds, loop, accepted, finalFail>>

\* Mutant of UpdateWrite: a persisted failure is reported as success.
UpdateWriteAcks ==
  /\ worker.pc = "write"
  /\ Store(worker.ev, Mutated(worker.op, worker.rec))
  /\ EndDeliver("ok")
  /\ UNCHANGED <<config, written, old, actions, cliPurge, serve, startIds, loop,
                 accepted, finalFail>>

\* ... mutate and write back.  Deliver returns nil only for a success, and not
\* even then if the directory cannot be synced after the rename.
UpdateWrite ==
  /\ worker.pc = "write"
  /\ Store(worker.ev, Mutated(worker.op, worker.rec))
  /\ EndDeliver("err") \/ (worker.op = "delivered" /\ EndDeliver("ok"))
  /\ UNCHANGED <<config, written, old, actions, cliPurge, serve, startIds, loop,
                 accepted, finalFail>>

\* The record is gone or an I/O error ends update.
UpdateFails ==
  /\ worker.pc \in {"read", "write"}
  /\ EndDeliver("err")
  /\ UNCHANGED <<config, spool, written, old, actions, cliPurge, serve, startIds,
                 loop, accepted, finalFail>>

-----------------------------------------------------------------------------
(* The worker: sweepOnce and work that leaves the spool alone. *)

TakeSweep ==
  /\ Dequeue({"sweep", "startup"})
  /\ worker' = [worker EXCEPT !.pc = "purge",
                              !.startup = Head(actions).kind = "startup"]
  /\ UNCHANGED <<config, spool, written, old, req, cliPurge, serve, startIds,
                 loop, accepted, finalFail>>

\* Purge lists the spool ...
SweepPurgeList ==
  /\ worker.pc = "purge"
  /\ worker' = [worker EXCEPT !.pc = "delete", !.ids = ExpiredEvents]
  /\ UNCHANGED <<config, spool, written, old, actions, req, cliPurge, serve,
                 startIds, loop, accepted, finalFail>>

\* ... and deletes what it listed.
SweepDelete(e) ==
  /\ worker.pc = "delete"
  /\ e \in worker.ids
  /\ worker' = [worker EXCEPT !.ids = @ \ {e}]
  /\ Store(e, Absent)
  /\ UNCHANGED <<config, written, old, actions, req, cliPurge, serve, startIds,
                 loop, accepted, finalFail>>

\* CatchUp lists what is due.
SweepCatchUp ==
  /\ worker.pc = "delete"
  /\ worker.ids = {}
  /\ worker' = [worker EXCEPT !.pc = "requeue", !.ids = DueEvents]
  /\ UNCHANGED <<config, spool, written, old, actions, req, cliPurge, serve,
                 startIds, loop, accepted, finalFail>>

\* Purge or CatchUp fails (an unreadable file ends List, an I/O error ends a
\* delete): the sweep goes on to its next part with nothing to do in this one.
SweepFails ==
  /\ \/ /\ worker.pc = "purge"
        /\ worker' = [worker EXCEPT !.pc = "delete"]
     \/ /\ worker.pc = "delete"
        /\ worker.ids # {}
        /\ worker' = [worker EXCEPT !.ids = {}]
     \/ /\ worker.pc = "delete"
        /\ worker.ids = {}
        /\ worker' = [worker EXCEPT !.pc = "requeue"]
  /\ UNCHANGED <<config, spool, written, old, actions, req, cliPurge, serve,
                 startIds, loop, accepted, finalFail>>

\* The non-blocking re-queue: a full channel drops the id.
SweepRequeue(e) ==
  /\ worker.pc = "requeue"
  /\ e \in worker.ids
  /\ worker' = [worker EXCEPT !.ids = @ \ {e}]
  /\ IF HasRoom THEN Send(Act("deliverAll", e)) ELSE UNCHANGED actions
  /\ UNCHANGED <<config, spool, written, old, req, cliPurge, serve, startIds,
                 loop, accepted, finalFail>>

\* The sweep ends.  The startup sweep lets Run open the socket and start the
\* sweep loop.
SweepEnd ==
  /\ worker.pc = "requeue"
  /\ worker.ids = {}
  /\ worker' = IdleWorker
  /\ serve' = IF worker.startup THEN "up" ELSE serve
  /\ loop' = IF worker.startup THEN "on" ELSE loop
  /\ UNCHANGED <<config, spool, written, old, actions, req, cliPurge, startIds,
                 accepted, finalFail>>

TakeOther ==
  /\ Dequeue({"other"})
  /\ worker' = [worker EXCEPT !.pc = "other"]
  /\ UNCHANGED <<config, spool, written, old, req, cliPurge, serve, startIds,
                 loop, accepted, finalFail>>

EndOther ==
  /\ worker.pc = "other"
  /\ worker' = IdleWorker
  /\ UNCHANGED <<config, spool, written, old, actions, req, cliPurge, serve,
                 startIds, loop, accepted, finalFail>>

Worker ==
  \/ TakeDeliverAll \/ TakeDeliver \/ TakeSweep \/ TakeOther
  \/ DeliverBegin \/ DeliverNoRecord \/ DeliverUnknown
  \/ PluginAccepts \/ PluginFails
  \/ UpdateRead \/ UpdateWrite \/ UpdateFails
  \/ SweepPurgeList \/ SweepCatchUp \/ SweepFails \/ SweepEnd
  \/ EndOther
  \/ \E e \in Events : SweepDelete(e) \/ SweepRequeue(e)

Next == Environment \/ Lifecycle \/ Handlers \/ Worker

Spec == Init /\ [][Next]_vars

\* The worker goroutine is scheduled, the ticker fires and clocks advance.
\* Clients, the operator, crashes, I/O errors and the outcome of a plugin call
\* are left free.
Fairness ==
  /\ WF_vars(Worker)
  /\ WF_vars(SweepLoopSubmit)
  /\ \A e \in Events : WF_vars(RetryTimeArrives(e))

FairSpec == Spec /\ Fairness

-----------------------------------------------------------------------------
(* Properties *)

WorkerPC == {"idle", "deliver", "call", "read", "write", "purge", "delete",
             "requeue", "other"}

RequestPC == {"new", "gone", "ok", "err", "busy", "notFound"} \cup InFlight

WorkerType ==
  [pc : WorkerPC, ev : Events \cup {None}, todo : Seq(Plugins),
   req : Requests \cup {None}, op : {"delivered", "dead", "failed"},
   rec : Slot, ids : SUBSET Events, startup : BOOLEAN]

RequestType ==
  [pc : RequestPC, ev : Events \cup {None}, plugin : Plugins \cup {None}, rec : Slot]

\* The variables keep their types, and the channel its capacity.
TypeOK ==
  /\ config \in Configs
  /\ spool \in [Events -> Slot]
  /\ written \subseteq Events
  /\ old \subseteq Events
  /\ actions \in Seq(Action)
  /\ Len(actions) <= BufferSize
  /\ worker \in WorkerType
  /\ req \in [Requests -> RequestType]
  /\ cliPurge \subseteq Events
  /\ serve \in {"down", "catchup", "starting", "up"}
  /\ startIds \subseteq Events
  /\ loop \in {"on", "off"}
  /\ accepted \in [Events -> SUBSET Plugins]
  /\ finalFail \subseteq Events

\* A record says delivered only if some plugin accepted the event: no stale
\* write of update, crash or restart marks an event delivered by itself.
DeliveredWasAccepted ==
  \A e \in Events : spool[e].state = "delivered" => accepted[e] # {}

\* Retry bookkeeping: a record that is still pending has failed at most Budget
\* times, and has a retry time exactly when it has failed at all.
PendingWithinBudget ==
  \A e \in Events : spool[e].state = "pending" =>
    /\ spool[e].attempts <= Budget
    /\ spool[e].next = "none" <=> spool[e].attempts = 0

\* A record is dead only because its retries are used up or because a delivery
\* named an unknown or unbuildable plugin.
DeadHasCause ==
  \A e \in Events : spool[e].state = "dead" =>
    spool[e].attempts > Budget \/ e \in finalFail

\* A 200 of /v1/deliver means that the named plugin accepted the event, also
\* across reloads and purges between the submission and the delivery.
AckMeansAccepted ==
  \A r \in Requests : req[r].pc = "ok" => req[r].plugin \in accepted[req[r].ev]

\* Purge, in the sweep or in the command, removes no event that no plugin has
\* accepted, however stale the list it works from.
PurgeKeepsUnaccepted ==
  [][\A e \in Events :
       spool[e] # Absent /\ spool'[e] = Absent => accepted[e] # {}]_vars

\* An event that was delivered, or was purged, never becomes pending again: a
\* sweep cannot pick it up anew although update and purge take no lock.
DeliveredStaysSettled ==
  [][\A e \in Events :
       spool[e].state = "delivered" \/ (spool[e] = Absent /\ e \in written)
         => spool'[e].state # "pending"]_vars

Pending(e) == spool[e].state = "pending"

\* A step that only an I/O error explains.  (A sweep that finds nothing to do
\* looks like one that fails, and is not counted.)
IOError ==
  \/ SweepFails /\ ~SweepPurgeList /\ ~SweepCatchUp
  \/ UpdateFails /\ ~UpdateWrite /\ spool[worker.ev] # Absent
  \/ DeliverNoRecord /\ spool[worker.ev] # Absent

\* The worker catches up with its queue again and again, and from some time
\* on no I/O error disturbs it.
Unhindered ==
  /\ []<>(actions = <<>> /\ worker.pc = "idle")
  /\ <>[][~IOError]_vars

\* While serve stays up with some plugin configured, its sweep loop alive and
\* its worker unhindered, every pending event is settled: it is delivered or
\* dead-lettered, whatever the plugins answer.
EventuallySettled ==
  Unhindered /\ <>[](serve = "up" /\ loop = "on" /\ config # <<>>)
    => \A e \in Events : Pending(e) ~> ~Pending(e)

\* What sweepOnce's comment promises, "(the next sweep retries)": the same
\* without assuming that the sweep loop is alive.
NextSweepRetries ==
  Unhindered /\ <>[](serve = "up" /\ config # <<>>)
    => \A e \in Events : Pending(e) ~> ~Pending(e)
==============================================================================
