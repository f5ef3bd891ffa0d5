---------------------------- MODULE ActionsChannel ----------------------------
(***************************************************************************)
(* The life of one serve process: start-up catch-up, the socket and browse *)
(* servers, the sweep and verify loops, the actions channel with its      *)
(* single worker, and shutdown with its drain.                             *)
(*                                                                         *)
(* An action is known by its submitter: a request, a catch-up event, the   *)
(* start-up action, a sweep or a verify pass.  What an action does is left *)
(* out, but for the events that a sweep queues again.                      *)
(***************************************************************************)
EXTENDS Naturals, Sequences, FiniteSets, Functions

CONSTANTS
  Requests,  \* requests of clients, one action each
  Browse,    \* those that come through the browse server
  Event,     \* deliverAllAction of a due event
  Startup,   \* the start-up action
  Sweep,     \* an action of the sweep loop
  Verify,    \* an action of the verify loop
  None,
  Buffer,    \* capacity of the channel
  Due,       \* events that are due at the start, and again at a sweep
  Loops,     \* the loops that run: an interval that is not positive stops one
  Ticks      \* bound: ticks of the loops

Internal == {Event, Startup, Sweep, Verify}

Actions == Requests \cup Internal

ASSUME ActionsChannelAssumption ==
  /\ Browse \subseteq Requests
  /\ Internal \cap Requests = {} /\ None \notin Actions
  /\ Cardinality(Internal) = 4
  /\ Loops \subseteq {Sweep, Verify}
  /\ Buffer \in Nat \ {0}
  /\ Due \in Nat
  /\ Ticks \in Nat

VARIABLES
  run,        \* Run: "catchUp", "await", "serving", "shutdown", "drain", "returned"
  due,        \* catch-up events not sent yet
  started,    \* startupDone is closed
  cancelled,  \* the context is cancelled
  done,       \* the channel done is closed
  timedOut,   \* the drain timeout has expired
  browse,     \* Handler.Run: "up", "closing", "returned", "failed"
  exited,     \* runServe has returned: the process is gone
  queue,      \* the actions channel
  mode,       \* the worker's loop: "loop", "drain", "exit"
  act,        \* the action it executes, or None
  left,       \* events that the sweep in execution has still to queue
  client,     \* request -> progress of its handler
  ran,        \* requests whose action has run
  loop,       \* the loops' goroutines: "idle", "submit", "stopped"
  ticks,      \* ticks so far
  owed        \* history: the requests that were accepted when done was closed

vars == <<run, due, started, cancelled, done, timedOut, browse, exited, queue, mode, act,
          left, client, ran, loop, ticks, owed>>

server == <<run, due, started, cancelled, done, timedOut, browse, exited>>
worker == <<mode, act, left>>
submitters == <<client, loop, ticks, owed>>

Init ==
  /\ run = "catchUp" /\ due = Due /\ started = FALSE
  /\ cancelled = FALSE /\ done = FALSE /\ timedOut = FALSE
  /\ browse = "up" /\ exited = FALSE
  /\ queue = <<>>
  /\ mode = "loop" /\ act = None /\ left = 0
  /\ client = [c \in Requests |-> "idle"] /\ ran = {}
  /\ loop = [a \in Loops |-> "idle"] /\ ticks = 0
  /\ owed = {}

Room == Len(queue) < Buffer

-----------------------------------------------------------------------------
(* Run: start-up *)

\* catchUp and the start-up action: sends that block while the channel is full.
CatchUpSend ==
  /\ ~exited
  /\ run = "catchUp"
  /\ Room
  /\ IF due > 0
     THEN queue' = Append(queue, Event) /\ due' = due - 1 /\ UNCHANGED run
     ELSE queue' = Append(queue, Startup) /\ run' = "await" /\ UNCHANGED due
  /\ UNCHANGED <<started, cancelled, done, timedOut, browse, exited, ran>>
  /\ UNCHANGED worker /\ UNCHANGED submitters

\* Mutant of StartupDone: the socket opens without waiting for the start-up action.
StartupNotAwaited ==
  /\ ~exited
  /\ run = "await"
  /\ run' = "serving"
  /\ UNCHANGED <<due, started, cancelled, done, timedOut, browse, exited, queue, ran>>
  /\ UNCHANGED worker /\ UNCHANGED submitters

\* The start-up action has run: the loops start and the socket opens.
StartupDone ==
  /\ ~exited
  /\ run = "await" /\ started
  /\ run' = "serving"
  /\ UNCHANGED <<due, started, cancelled, done, timedOut, browse, exited, queue, ran>>
  /\ UNCHANGED worker /\ UNCHANGED submitters

\* The catch-up list cannot be read, the socket cannot be opened, or its server
\* fails.
RunFails ==
  /\ ~exited
  /\ run \in {"catchUp", "await", "serving"}
  /\ run = "catchUp" => due = Due
  /\ run = "await" => started
  /\ run' = "returned"
  /\ UNCHANGED <<due, started, cancelled, done, timedOut, browse, exited, queue, ran>>
  /\ UNCHANGED worker /\ UNCHANGED submitters

-----------------------------------------------------------------------------
(* Run: shutdown *)

\* SIGTERM or SIGINT.
Cancel ==
  /\ ~exited
  /\ ~cancelled
  /\ cancelled' = TRUE
  /\ UNCHANGED <<run, due, started, done, timedOut, browse, exited, queue, ran>>
  /\ UNCHANGED worker /\ UNCHANGED submitters

BeginShutdown ==
  /\ ~exited
  /\ run = "serving" /\ cancelled
  /\ run' = "shutdown" /\ done' = TRUE
  /\ owed' = (Range(queue) \cup {act}) \cap Requests
  /\ UNCHANGED <<due, started, cancelled, timedOut, browse, exited, queue, ran>>
  /\ UNCHANGED worker /\ UNCHANGED <<client, loop, ticks>>

\* httpSrv.Shutdown returns when no socket handler is active.
HttpShutdown ==
  /\ ~exited
  /\ run = "shutdown"
  /\ \A c \in Requests \ Browse : client[c] \notin {"submit", "wait"}
  /\ run' = "drain"
  /\ UNCHANGED <<due, started, cancelled, done, timedOut, browse, exited, queue, ran>>
  /\ UNCHANGED worker /\ UNCHANGED submitters

\* Mutant of DrainTimeout: httpSrv.Shutdown waits without a deadline.
ShutdownUnbounded ==
  /\ ~exited
  /\ run = "drain"
  /\ run' = "returned"
  /\ timedOut' = TRUE
  /\ UNCHANGED <<due, started, cancelled, done, browse, exited, queue, ran>>
  /\ UNCHANGED worker /\ UNCHANGED submitters

\* shutdownCtx expires, in httpSrv.Shutdown or in the wait for the worker.
DrainTimeout ==
  /\ ~exited
  /\ run \in {"shutdown", "drain"}
  /\ run' = IF run = "shutdown" THEN "drain" ELSE "returned"
  /\ timedOut' = TRUE
  /\ UNCHANGED <<due, started, cancelled, done, browse, exited, queue, ran>>
  /\ UNCHANGED worker /\ UNCHANGED submitters

DrainDone ==
  /\ ~exited
  /\ run = "drain" /\ mode = "exit"
  /\ run' = "returned"
  /\ UNCHANGED <<due, started, cancelled, done, timedOut, browse, exited, queue, ran>>
  /\ UNCHANGED worker /\ UNCHANGED submitters

\* Handler.Run of the browse server: it fails, or it shuts down when no handler is
\* active or its timeout expires.
BrowseRun ==
  /\ ~exited
  /\ \/ browse = "up" /\ browse' = "failed"
     \/ browse = "up" /\ cancelled /\ browse' = "closing"
     \/ browse = "closing" /\ browse' = "returned"
  /\ UNCHANGED <<run, due, started, cancelled, done, timedOut, exited, queue, ran>>
  /\ UNCHANGED worker /\ UNCHANGED submitters

\* runServe returns with the first of the two servers.
Exit ==
  /\ ~exited
  /\ run = "returned" \/ browse \in {"returned", "failed"}
  /\ exited' = TRUE
  /\ UNCHANGED <<run, due, started, cancelled, done, timedOut, browse, queue, ran>>
  /\ UNCHANGED worker /\ UNCHANGED submitters

-----------------------------------------------------------------------------
(* The handlers and submit *)

\* A request reaches its server.
Request(c) ==
  /\ ~exited
  /\ client[c] = "idle"
  /\ IF c \in Browse THEN browse = "up" ELSE run = "serving"
  /\ client' = [client EXCEPT ![c] = "submit"]
  /\ UNCHANGED <<queue, ran, loop, ticks, owed>> /\ UNCHANGED server /\ UNCHANGED worker

\* submit's select takes the send, also when done is closed.
Send(c) ==
  /\ ~exited
  /\ client[c] = "submit"
  /\ Room
  /\ queue' = Append(queue, c)
  /\ client' = [client EXCEPT ![c] = "wait"]
  /\ UNCHANGED <<ran, loop, ticks, owed>> /\ UNCHANGED server /\ UNCHANGED worker

\* submitWait has passed, or done is closed.
Refuse(c) ==
  /\ ~exited
  /\ client[c] = "submit"
  /\ \/ client' = [client EXCEPT ![c] = "busy"]
     \/ done /\ client' = [client EXCEPT ![c] = "shut"]
  /\ UNCHANGED <<queue, ran, loop, ticks, owed>> /\ UNCHANGED server /\ UNCHANGED worker

\* The handler has the reply, or its client has gone.
Reply(c) ==
  /\ ~exited
  /\ client[c] = "wait"
  /\ \/ c \in ran /\ client' = [client EXCEPT ![c] = "ok"]
     \/ client' = [client EXCEPT ![c] = "gone"]
  /\ UNCHANGED <<queue, ran, loop, ticks, owed>> /\ UNCHANGED server /\ UNCHANGED worker

\* The sweep loop and the verify loop: a tick, and submit's outcomes; an error or
\* the end of the context stops the loop.
Loop(a) ==
  /\ ~exited
  /\ run \in {"serving", "shutdown", "drain", "returned"} /\ started
  /\ \/ /\ loop[a] = "idle" /\ ticks < Ticks
        /\ loop' = [loop EXCEPT ![a] = "submit"] /\ ticks' = ticks + 1
        /\ UNCHANGED queue
     \/ /\ loop[a] = "submit" /\ Room
        /\ loop' = [loop EXCEPT ![a] = "idle"] /\ queue' = Append(queue, a)
        /\ UNCHANGED ticks
     \/ /\ loop[a] = "submit" \/ (loop[a] = "idle" /\ cancelled)
        /\ loop' = [loop EXCEPT ![a] = "stopped"]
        /\ UNCHANGED <<queue, ticks>>
  /\ UNCHANGED <<client, ran, owed>> /\ UNCHANGED server /\ UNCHANGED worker

-----------------------------------------------------------------------------
(* The worker *)

\* The action that the worker begins with; a sweep finds some events due.
Begin(a) ==
  /\ act' = a
  /\ IF a \in {Startup, Sweep} THEN left' \in 0..Due ELSE left' = 0

\* Mutant of Take: the newest action goes first.
TakeNewest ==
  /\ ~exited
  /\ mode # "exit" /\ act = None
  /\ queue # <<>>
  /\ Begin(queue[Len(queue)])
  /\ queue' = SubSeq(queue, 1, Len(queue) - 1)
  /\ UNCHANGED <<mode, ran>> /\ UNCHANGED server /\ UNCHANGED submitters

Take ==
  /\ ~exited
  /\ mode # "exit" /\ act = None
  /\ queue # <<>>
  /\ Begin(Head(queue))
  /\ queue' = Tail(queue)
  /\ UNCHANGED <<mode, ran>> /\ UNCHANGED server /\ UNCHANGED submitters

\* Mutant of Requeue: the worker waits for room in the channel it alone empties.
RequeueBlocks ==
  /\ ~exited
  /\ left > 0
  /\ left' = left - 1
  /\ Room /\ queue' = Append(queue, Event)
  /\ UNCHANGED <<mode, act, ran>> /\ UNCHANGED server /\ UNCHANGED submitters

\* sweepOnce queues a due event, or drops it if the channel is full.
Requeue ==
  /\ ~exited
  /\ left > 0
  /\ left' = left - 1
  /\ queue' = IF Room THEN Append(queue, Event) ELSE queue
  /\ UNCHANGED <<mode, act, ran>> /\ UNCHANGED server /\ UNCHANGED submitters

\* Mutant of Finish: the reply is handed over to a client that has to be there.
FinishBlocks ==
  /\ ~exited
  /\ act # None /\ left = 0
  /\ act \in Requests => client[act] = "wait"
  /\ act' = None
  /\ ran' = ran \cup ({act} \cap Requests)
  /\ started' = (started \/ act = Startup)
  /\ UNCHANGED <<run, due, cancelled, done, timedOut, browse, exited, queue, mode, left>>
  /\ UNCHANGED submitters

\* The action ends and leaves its reply in a buffered channel.
Finish ==
  /\ ~exited
  /\ act # None /\ left = 0
  /\ act' = None
  /\ ran' = ran \cup ({act} \cap Requests)
  /\ started' = (started \/ act = Startup)
  /\ UNCHANGED <<run, due, cancelled, done, timedOut, browse, exited, queue, mode, left>>
  /\ UNCHANGED submitters

\* Mutant of Drain: the worker returns as soon as it sees done.
DrainSkipped ==
  /\ ~exited
  /\ act = None
  /\ mode = "loop" /\ done /\ mode' = "exit"
  /\ UNCHANGED <<act, left, queue, ran>> /\ UNCHANGED server /\ UNCHANGED submitters

\* The worker sees done, drains the channel and returns when it is empty.
Drain ==
  /\ ~exited
  /\ act = None
  /\ \/ mode = "loop" /\ done /\ mode' = "drain"
     \/ mode = "drain" /\ queue = <<>> /\ mode' = "exit"
  /\ UNCHANGED <<act, left, queue, ran>> /\ UNCHANGED server /\ UNCHANGED submitters

-----------------------------------------------------------------------------

Worker == Take \/ Requeue \/ Finish \/ Drain

Run == CatchUpSend \/ StartupDone \/ BeginShutdown \/ HttpShutdown \/ DrainTimeout \/ DrainDone

Next ==
  \/ Run \/ RunFails \/ Cancel \/ BrowseRun \/ Exit
  \/ \E c \in Requests : Request(c) \/ Send(c) \/ Refuse(c) \/ Reply(c)
  \/ \E a \in Loops : Loop(a)
  \/ Worker

Spec == Init /\ [][Next]_vars

\* The goroutines of Run and of the worker are scheduled, actions end, and a
\* timer expires.
FairSpec == Spec /\ WF_vars(Run) /\ WF_vars(Worker) /\ WF_vars(Exit)

-----------------------------------------------------------------------------
(* Properties *)

\* The variables keep their types, and the channel its capacity.
TypeOK ==
  /\ run \in {"catchUp", "await", "serving", "shutdown", "drain", "returned"}
  /\ due \in 0..Due /\ left \in 0..Due /\ ticks \in 0..Ticks
  /\ started \in BOOLEAN /\ cancelled \in BOOLEAN /\ done \in BOOLEAN
  /\ timedOut \in BOOLEAN /\ exited \in BOOLEAN
  /\ browse \in {"up", "closing", "returned", "failed"}
  /\ queue \in Seq(Actions) /\ Len(queue) <= Buffer
  /\ mode \in {"loop", "drain", "exit"}
  /\ act \in Actions \cup {None}
  /\ client \in [Requests -> {"idle", "submit", "wait", "ok", "busy", "shut", "gone"}]
  /\ ran \subseteq Requests
  /\ loop \in [Loops -> {"idle", "submit", "stopped"}]
  /\ owed \subseteq Requests

\* What the channel promises its clients, in the terms of SerialExecutor.
Result(c) ==
  CASE client[c] = "ok"              -> "answered"
    [] client[c] # "ok" /\ c \in ran -> "ran"
    [] client[c] \in {"wait", "gone"} /\ c \notin ran -> "accepted"
    [] OTHER                         -> "new"

Executor == INSTANCE SerialExecutor WITH
  Clients <- Requests, pending <- queue, running <- act,
  result <- [c \in Requests |-> Result(c)]

\* serve's channel and worker are a serial executor (Serve: "all work executes
\* on the single worker, so serve-side effects are globally FIFO"), through
\* start-up, busy periods, disconnects and shutdown.
IsSerial == Executor!Spec

\* No request of the socket is accepted before the catch-up events and the
\* start-up action have run (Run: "before socket work is accepted").
StartupFirst ==
  \A c \in Requests \ Browse : client[c] # "idle" => started /\ due = 0

\* The start-up comes to its end, however many events are due: the sweep in it
\* does not wait for the channel it alone empties (sweepOnce: "a full channel
\* never deadlocks the worker").
StartupEnds == <>(started \/ run = "returned" \/ exited)

\* An accepted action runs, or Run returns, also when its client has gone.
EventuallyRun ==
  \A c \in Requests : c \in Range(queue) ~> (c \in ran \/ run = "returned" \/ exited)

\* What the worker leaves in the channel when it returns was sent after the shutdown
\* had begun: every action accepted before that has run by then (startWorker: "it
\* drains the remaining buffer, so in-flight submissions complete").  An action that
\* submit's select sends later may be left.
DrainCompletes == mode = "exit" => owed \subseteq ran

\* A shutdown ends, whatever the handlers and the worker are at.
ShutdownEnds == done ~> (run = "returned" \/ exited)

\* What Run's comment says: "until ctx is canceled, then drains in-flight actions
\* up to drainTimeout"; so the process does not exit before that with an action in
\* execution, unless a server fails.
ExitAfterDrain ==
  exited /\ browse # "failed" /\ run \in {"shutdown", "drain"} /\ ~timedOut => act = None
==============================================================================
