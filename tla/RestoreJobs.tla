------------------------------ MODULE RestoreJobs ------------------------------
(***************************************************************************)
(* Restores and deletes of repositories.  gitd serve stages a job in the   *)
(* restore spool (<id>.bundle, then <id>.request), the mirror-agent, a     *)
(* daemon of its own, executes it and leaves <id>.result, and the handler  *)
(* that waits for the result removes what is left.  Both daemons may die   *)
(* between any two steps; serve sweeps the spool when it starts, the agent *)
(* executes the requests it finds when it starts.  Pushes create and fill  *)
(* repositories meanwhile.                                                 *)
(*                                                                         *)
(* A repository's content is the number of the push its branch points to   *)
(* (0: no ref yet); a bundle holds the number it was made of.              *)
(***************************************************************************)
EXTENDS Naturals, FiniteSets

CONSTANTS Repos,     \* repository names
          Jobs,      \* job ids (random UUIDs: no id is used twice)
          Clients,   \* POST /v1/restore and /v1/delete requests
          MaxPush,   \* bound on the number of pushes
          None       \* no repository, job or client

ASSUME RestoreJobsAssumption ==
  /\ MaxPush \in Nat
  /\ None \notin Repos \cup Jobs \cup Clients

VARIABLES
  repo,       \* name -> what is at reposRoot/<name>.git
  owner,      \* names a push has created the directory of and not yet inited
  saved,      \* name -> content of the latest bundle, 0 if there is none
  pushes,     \* number of pushes so far
  job,        \* job id -> operation and repository its request names
  requests,   \* jobs whose <id>.request exists
  bundles,    \* jobs whose <id>.bundle exists
  result,     \* job id -> outcome in <id>.result, "none" if it does not exist
  agent,      \* the mirror-agent: position and the job it executes
  todo,       \* requests the agent's startup scan found
  events,     \* watcher events the agent has not handled
  serve,      \* lifecycle of gitd serve
  sweep,      \* files the startup sweep has listed and not yet removed
  missing,    \* repositories restore-on-start has still to stage
  stage,      \* the staging action the serve worker runs
  queue,      \* clients whose staging action is queued
  client,     \* client -> its handler's position and its job
  done,       \* history: job id -> how often its effect was completed
  cut,        \* history: jobs that the agent died in after it had begun to write
  half        \* history: repositories that a restore has inited and not yet filled

gitVars   == <<repo, owner, saved, pushes>>
fileVars  == <<requests, bundles, result>>
agentVars == <<agent, todo, events>>
serveVars == <<serve, sweep, missing, stage, queue, client, job>>
history   == <<done, cut, half>>
vars == <<gitVars, fileVars, agentVars, serveVars, history>>

Gone == [st |-> "none", tip |-> 0]
Directory == [Gone EXCEPT !.st = "dir"]
Bare(tip) == [st |-> "bare", tip |-> tip]

IdleAgent == [pc |-> "idle", job |-> None, tip |-> 0, base |-> 0, ok |-> FALSE]
Working(j, pc) == [IdleAgent EXCEPT !.pc = pc, !.job = j]
DownAgent == [IdleAgent EXCEPT !.pc = "down"]
\* A handler that has answered with an error, or whose client has gone.
Failed == [pc |-> "failed", op |-> "restore", repo |-> None, job |-> None]

IdleStage == [pc |-> "idle", job |-> None, client |-> None]

Init ==
  /\ repo = [x \in Repos |-> Gone]
  /\ owner = {}
  /\ saved = [x \in Repos |-> 0]
  /\ pushes = 0
  /\ job = [j \in Jobs |-> [op |-> "unused", repo |-> None]]
  /\ requests = {}
  /\ bundles = {}
  /\ result = [j \in Jobs |-> "none"]
  /\ agent = DownAgent
  /\ todo = {}
  /\ events = {}
  /\ serve = "down"
  /\ sweep = {}
  /\ missing = {}
  /\ stage = IdleStage
  /\ queue = {}
  /\ client = [c \in Clients |-> [pc |-> "new", op |-> "restore", repo |-> None, job |-> None]]
  /\ done = [j \in Jobs |-> "never"]
  /\ cut = {}
  /\ half = {}

-----------------------------------------------------------------------------
(* Pushes and the mirror. *)

\* pushToCreate: Mkdir succeeds, so this push owns the creation ...
PushMkdir(x) ==
  /\ repo[x].st = "none"
  /\ repo' = [repo EXCEPT ![x] = Directory]
  /\ owner' = owner \cup {x}
  /\ UNCHANGED <<saved, pushes, fileVars, agentVars, serveVars, history>>

\* ... and runs git init, which keeps a repository that is already there ...
PushInit(x) ==
  /\ x \in owner
  /\ owner' = owner \ {x}
  /\ repo' = IF repo[x].st = "bare" THEN repo ELSE [repo EXCEPT ![x] = Bare(0)]
  /\ UNCHANGED <<saved, pushes, fileVars, agentVars, serveVars, history>>

\* ... unless it fails or dies first.
PushDies(x) ==
  /\ x \in owner
  /\ owner' = owner \ {x}
  /\ UNCHANGED <<repo, saved, pushes, fileVars, agentVars, serveVars, history>>

\* receive-pack updates the branch.
Push(x) ==
  /\ repo[x].st = "bare"
  /\ pushes < MaxPush
  /\ pushes' = pushes + 1
  /\ repo' = [repo EXCEPT ![x].tip = pushes + 1]
  /\ half' = half \ {x}
  /\ UNCHANGED <<owner, saved, fileVars, agentVars, serveVars, done, cut>>

\* CreateBundle uploads a bundle of a repository that has refs.
Upload(x) ==
  /\ repo[x].st = "bare"
  /\ repo[x].tip # 0
  /\ saved' = [saved EXCEPT ![x] = repo[x].tip]
  /\ UNCHANGED <<repo, owner, pushes, fileVars, agentVars, serveVars, history>>

-----------------------------------------------------------------------------
(* gitd serve: start. *)

Files == {<<j, "bundle">> : j \in bundles} \cup {<<j, "request">> : j \in requests}
           \cup {<<j, "result">> : j \in {i \in Jobs : result[i] # "none"}}

\* Mutant of ServeStart: the sweep of the restore spool runs periodically.
ServeStartAnyTime ==
  /\ serve \in {"down", "up"}
  /\ serve' = "sweeping"
  /\ sweep' = Files
  /\ UNCHANGED <<missing, stage, queue, client, job, gitVars, fileVars, agentVars, history>>

\* sweepRestoreSpool reads the directory ...
ServeStart ==
  /\ serve = "down"
  /\ serve' = "sweeping"
  /\ sweep' = Files
  /\ UNCHANGED <<missing, stage, queue, client, job, gitVars, fileVars, agentVars, history>>

\* ... and removes what it found, one file at a time, in the order of the names.
SweepRemove(f) ==
  /\ serve = "sweeping"
  /\ f \in sweep
  /\ f[2] # "bundle" => <<f[1], "bundle">> \notin sweep
  /\ f[2] = "result" => <<f[1], "request">> \notin sweep
  /\ sweep' = sweep \ {f}
  /\ bundles' = IF f[2] = "bundle" THEN bundles \ {f[1]} ELSE bundles
  /\ requests' = IF f[2] = "request" THEN requests \ {f[1]} ELSE requests
  /\ result' = IF f[2] = "result" THEN [result EXCEPT ![f[1]] = "none"] ELSE result
  /\ UNCHANGED <<serve, missing, stage, queue, client, job, gitVars, agentVars, history>>

\* restoreMissingOnStart: mirrored repositories that are not live.  Switched
\* off, or with the object store out of reach, it does nothing.
SweepEnd ==
  /\ serve = "sweeping"
  /\ sweep = {}
  /\ serve' = "staging"
  /\ missing' \in {{}, {x \in Repos : saved[x] # 0 /\ repo[x].st # "bare"}}
  /\ UNCHANGED <<sweep, stage, queue, client, job, gitVars, fileVars, agentVars, history>>

ServeUp ==
  /\ serve = "staging"
  /\ missing = {}
  /\ stage = IdleStage
  /\ serve' = "up"
  /\ UNCHANGED <<sweep, missing, stage, queue, client, job, gitVars, fileVars, agentVars, history>>

\* The process dies with all its goroutines.
ServeCrash ==
  /\ serve # "down"
  /\ serve' = "down"
  /\ sweep' = {}
  /\ missing' = {}
  /\ stage' = IdleStage
  /\ queue' = {}
  /\ client' = [c \in Clients |->
                 IF client[c].pc \in {"queued", "gone", "waiting"}
                 THEN Failed ELSE client[c]]
  /\ UNCHANGED <<job, gitVars, fileVars, agentVars, history>>
-----------------------------------------------------------------------------
(* gitd serve: handlers and the staging action of the worker. *)

\* A valid POST /v1/restore or /v1/delete; a full channel answers it at once.
ClientRequest(c, op, x) ==
  /\ serve = "up"
  /\ client[c].pc = "new"
  /\ \/ /\ client' = [client EXCEPT ![c] = [@ EXCEPT !.pc = "queued", !.op = op, !.repo = x]]
        /\ queue' = queue \cup {c}
     \/ /\ client' = [client EXCEPT ![c] = Failed]
        /\ UNCHANGED queue
  /\ UNCHANGED <<serve, sweep, missing, stage, job, gitVars, fileVars, agentVars, history>>

\* The client disconnects before its job is staged; the action still runs.
ClientGone(c) ==
  /\ client[c].pc = "queued"
  /\ client' = [client EXCEPT ![c].pc = "gone"]
  /\ UNCHANGED <<serve, sweep, missing, stage, queue, job, gitVars, fileVars, agentVars, history>>

\* stageRestoreJob or stageDeleteJob takes a fresh id.
StageBegin(j, op, x, c) ==
  /\ stage = IdleStage
  /\ job[j].op = "unused"
  /\ job' = [job EXCEPT ![j] = [op |-> op, repo |-> x]]
  /\ stage' = [pc |-> IF op = "restore" THEN "bundle" ELSE "request", job |-> j, client |-> c]

\* The worker takes a handler's action ...
StageForClient(c, j) ==
  /\ serve = "up"
  /\ c \in queue
  /\ StageBegin(j, client[c].op, client[c].repo, c)
  /\ queue' = queue \ {c}
  /\ UNCHANGED <<serve, sweep, missing, client, gitVars, fileVars, agentVars, history>>

\* ... or restore-on-start stages the next repository, for nobody.
StageMissing(x, j) ==
  /\ serve = "staging"
  /\ x \in missing
  /\ StageBegin(j, "restore", x, None)
  /\ missing' = missing \ {x}
  /\ UNCHANGED <<serve, sweep, queue, client, gitVars, fileVars, agentVars, history>>

\* The staging action's reply, to a handler that may have gone.
StageReply(ok) ==
  /\ stage' = IdleStage
  /\ client' = [c \in Clients |->
                 IF c # stage.client THEN client[c]
                 ELSE IF ok /\ client[c].pc = "queued"
                      THEN [client[c] EXCEPT !.pc = "waiting", !.job = stage.job]
                      ELSE Failed]

\* LatestBundle finds a bundle, which is staged and verified ...
StageBundle ==
  /\ stage.pc = "bundle"
  /\ saved[job[stage.job].repo] # 0
  /\ bundles' = bundles \cup {stage.job}
  /\ stage' = [stage EXCEPT !.pc = "request"]
  /\ UNCHANGED <<serve, sweep, missing, queue, client, job, gitVars, requests, result, agentVars, history>>

\* ... or there is none, or it cannot be staged; a failed write may leave it.
StageBundleFails ==
  /\ stage.pc = "bundle"
  /\ bundles' \in {bundles, bundles \cup {stage.job}}
  /\ StageReply(FALSE)
  /\ UNCHANGED <<serve, sweep, missing, queue, job, gitVars, requests, result, agentVars, history>>

\* The request appears under its final name, and a watching agent is told.
WriteRequest(j) ==
  /\ requests' = requests \cup {j}
  /\ events' = IF agent.pc # "down" THEN events \cup {j} ELSE events

StageRequest ==
  /\ stage.pc = "request"
  /\ WriteRequest(stage.job)
  /\ StageReply(TRUE)
  /\ UNCHANGED <<serve, sweep, missing, queue, job, gitVars, bundles, result, agent, todo, history>>

\* WriteJobFile fails, perhaps only in the sync that follows the rename.
StageRequestFails ==
  /\ stage.pc = "request"
  /\ WriteRequest(stage.job) \/ UNCHANGED <<requests, events>>
  /\ bundles' = bundles \ {stage.job}
  /\ StageReply(FALSE)
  /\ UNCHANGED <<serve, sweep, missing, queue, job, gitVars, result, agent, todo, history>>

\* Mutant of WaitResult: a result that does not exist yet is read.
WaitResultMissing(c) ==
  LET j == client[c].job
  IN  /\ client[c].pc = "waiting"
      /\ client' = [client EXCEPT ![c].pc = result[j]]
      /\ bundles' = bundles \ {j}
      /\ requests' = requests \ {j}
      /\ result' = [result EXCEPT ![j] = "none"]
      /\ UNCHANGED <<serve, sweep, missing, stage, queue, job, gitVars, agentVars, history>>

\* waitRestoreResult reads the result; cleanupRestoreJob removes the files.
WaitResult(c) ==
  LET j == client[c].job
  IN  /\ client[c].pc = "waiting"
      /\ result[j] # "none"
      /\ client' = [client EXCEPT ![c] =
                      IF result[j] = "ok" THEN [@ EXCEPT !.pc = "ok"] ELSE Failed]
      /\ bundles' = bundles \ {j}
      /\ requests' = requests \ {j}
      /\ result' = [result EXCEPT ![j] = "none"]
      /\ UNCHANGED <<serve, sweep, missing, stage, queue, job, gitVars, agentVars, history>>

\* restoreResultDeadline passes, or the result cannot be read: the files stay.
WaitTimeout(c) ==
  /\ client[c].pc = "waiting"
  /\ client' = [client EXCEPT ![c] = Failed]
  /\ UNCHANGED <<serve, sweep, missing, stage, queue, job, gitVars, fileVars, agentVars, history>>

-----------------------------------------------------------------------------
(* The mirror-agent. *)

\* Run adds the watcher ...
AgentStart ==
  /\ agent.pc = "down"
  /\ agent' = [IdleAgent EXCEPT !.pc = "scan"]
  /\ UNCHANGED <<todo, events, gitVars, fileVars, serveVars, history>>

\* Mutant of AgentScan: the agent only watches.
AgentScanNothing ==
  /\ agent.pc = "scan"
  /\ agent' = IdleAgent
  /\ UNCHANGED <<todo, events, gitVars, fileVars, serveVars, history>>

\* ... and then scans for the requests an earlier run left.
AgentScan ==
  /\ agent.pc = "scan"
  /\ agent' = IdleAgent
  /\ todo' = requests
  /\ UNCHANGED <<events, gitVars, fileVars, serveVars, history>>

\* The job ends with an outcome: finish.
Finish(ok) == agent' = [agent EXCEPT !.pc = "consume", !.ok = ok]

Target == job[agent.job].repo

Done(j) == done' = [done EXCEPT ![j] = IF @ = "never" THEN "once" ELSE "again"]

\* processJob: what the scan found first, then the events.  A request that is
\* gone is no work.  A delete looks at the repository it is to remove.
AgentTake(j) ==
  /\ agent.pc = "idle"
  /\ j \in todo \/ (todo = {} /\ j \in events)
  /\ todo' = todo \ {j}
  /\ events' = IF j \in todo THEN events ELSE events \ {j}
  /\ agent' = IF j \notin requests THEN agent
              ELSE Working(j, IF job[j].op = "restore" THEN "verify"
                              ELSE IF repo[job[j].repo].st = "bare" THEN "remove" ELSE "consume")
  /\ UNCHANGED <<gitVars, fileVars, serveVars, history>>

\* A check before the first write to the repository fails.
AgentRefuse ==
  /\ agent.pc \in {"verify", "fetch", "remove"}
  /\ Finish(FALSE)
  /\ UNCHANGED <<todo, events, gitVars, fileVars, serveVars, history>>

\* RemoveAll begins: the directory is no bare repository any more ...
AgentRemove ==
  /\ agent.pc = "remove"
  /\ agent' = [agent EXCEPT !.pc = "removing"]
  /\ repo' = [repo EXCEPT ![Target] = Directory]
  /\ half' = half \ {Target}
  /\ UNCHANGED <<owner, saved, pushes, todo, events, fileVars, serveVars, done, cut>>

\* ... and ends.
AgentRemoved ==
  /\ agent.pc = "removing"
  /\ repo' = [repo EXCEPT ![Target] = Gone]
  /\ Done(agent.job)
  /\ Finish(TRUE)
  /\ UNCHANGED <<owner, saved, pushes, todo, events, fileVars, serveVars, cut, half>>

\* Mutant of AgentRemoveFails: the error of RemoveAll is dropped.
AgentRemoveErrorDropped ==
  /\ agent.pc = "removing"
  /\ Finish(TRUE)
  /\ UNCHANGED <<todo, events, gitVars, fileVars, serveVars, history>>

AgentRemoveFails ==
  /\ agent.pc = "removing"
  /\ Finish(FALSE)
  /\ UNCHANGED <<todo, events, gitVars, fileVars, serveVars, history>>

\* The staged bundle is there and verifies.
AgentVerify ==
  /\ agent.pc = "verify"
  /\ agent.job \in bundles
  /\ agent' = [agent EXCEPT !.pc = "fetch"]
  /\ UNCHANGED <<todo, events, gitVars, fileVars, serveVars, history>>

\* Mutant of AgentFetch: an existing destination is overwritten.
AgentFetchOver ==
  /\ agent.pc = "fetch"
  /\ saved[Target] # 0
  /\ agent' = [agent EXCEPT !.pc = "init", !.tip = saved[Target], !.base = pushes]
  /\ UNCHANGED <<todo, events, gitVars, fileVars, serveVars, history>>

\* Fetch: the destination does not exist; the latest bundle is downloaded.
AgentFetch ==
  /\ agent.pc = "fetch"
  /\ repo[Target].st = "none"
  /\ saved[Target] # 0
  /\ agent' = [agent EXCEPT !.pc = "init", !.tip = saved[Target], !.base = pushes]
  /\ UNCHANGED <<todo, events, gitVars, fileVars, serveVars, history>>

\* Fetch: git init, which keeps a repository that is there by now ...
AgentInit ==
  /\ agent.pc = "init"
  /\ agent' = [agent EXCEPT !.pc = "unbundle"]
  /\ repo' = IF repo[Target].st = "bare" THEN repo
             ELSE [repo EXCEPT ![Target] = Bare(0)]
  /\ half' = IF repo[Target].st = "bare" THEN half ELSE half \cup {Target}
  /\ UNCHANGED <<owner, saved, pushes, todo, events, fileVars, serveVars, done, cut>>

\* ... or fails, perhaps after it made the directory.
AgentInitFails ==
  /\ agent.pc = "init"
  /\ Finish(FALSE)
  /\ repo' \in {repo, IF repo[Target].st = "none"
                      THEN [repo EXCEPT ![Target] = Directory] ELSE repo}
  /\ UNCHANGED <<owner, saved, pushes, todo, events, fileVars, serveVars, history>>

\* Fetch: verify and unbundle set the refs of the bundle ...
AgentUnbundle ==
  /\ agent.pc = "unbundle"
  /\ repo' = [repo EXCEPT ![Target] = Bare(agent.tip)]
  /\ Done(agent.job)
  /\ Finish(TRUE)
  /\ half' = half \ {Target}
  /\ UNCHANGED <<owner, saved, pushes, todo, events, fileVars, serveVars, cut>>

\* Mutant of AgentUnbundleFails: there is no deferred cleanup.
AgentUnbundleLeaves ==
  /\ agent.pc = "unbundle"
  /\ Finish(FALSE)
  /\ UNCHANGED <<todo, events, gitVars, fileVars, serveVars, history>>

\* ... or fail, and the deferred cleanup removes the destination.
AgentUnbundleFails ==
  /\ agent.pc = "unbundle"
  /\ repo' = [repo EXCEPT ![Target] = Gone]
  /\ Finish(FALSE)
  /\ half' = half \ {Target}
  /\ UNCHANGED <<owner, saved, pushes, todo, events, fileVars, serveVars, done, cut>>

\* Mutant of AgentConsume: the request is left for serve to remove.
AgentConsumeBundleOnly ==
  /\ agent.pc = "consume"
  /\ agent' = [agent EXCEPT !.pc = "result"]
  /\ bundles' = bundles \ {agent.job}
  /\ UNCHANGED <<requests, result, todo, events, gitVars, serveVars, history>>

\* finish: the inputs are removed ...
AgentConsume ==
  /\ agent.pc = "consume"
  /\ agent' = [agent EXCEPT !.pc = "result"]
  /\ requests' = requests \ {agent.job}
  /\ bundles' = bundles \ {agent.job}
  /\ UNCHANGED <<result, todo, events, gitVars, serveVars, history>>

\* ... before the result is written.
AgentResult ==
  /\ agent.pc = "result"
  /\ agent' = IdleAgent
  /\ result' = [result EXCEPT ![agent.job] = IF agent.ok THEN "ok" ELSE "err"]
  /\ UNCHANGED <<requests, bundles, todo, events, gitVars, serveVars, history>>

\* The result cannot be written: logged.
AgentResultFails ==
  /\ agent.pc = "result"
  /\ agent' = IdleAgent
  /\ UNCHANGED <<todo, events, gitVars, fileVars, serveVars, history>>

AgentCrash ==
  /\ agent.pc # "down"
  /\ agent' = DownAgent
  /\ todo' = {}
  /\ events' = {}
  /\ cut' = IF agent.pc \in {"unbundle", "removing", "consume"} THEN cut \cup {agent.job} ELSE cut
  /\ UNCHANGED <<gitVars, fileVars, serveVars, done, half>>

Git ==
  \E x \in Repos : PushMkdir(x) \/ PushInit(x) \/ PushDies(x) \/ Push(x) \/ Upload(x)

Serve ==
  \/ ServeStart
  \/ \E f \in sweep : SweepRemove(f)
  \/ SweepEnd
  \/ ServeUp
  \/ ServeCrash
  \/ \E c \in Clients :
       \/ \E op \in {"restore", "delete"}, x \in Repos : ClientRequest(c, op, x)
       \/ ClientGone(c)
       \/ \E j \in Jobs : StageForClient(c, j)
       \/ WaitResult(c)
       \/ WaitTimeout(c)
  \/ \E x \in Repos, j \in Jobs : StageMissing(x, j)
  \/ StageBundle \/ StageBundleFails
  \/ StageRequest \/ StageRequestFails

AgentRuns ==
  \/ AgentScan
  \/ \E j \in Jobs : AgentTake(j)
  \/ AgentRefuse
  \/ AgentRemove \/ AgentRemoved \/ AgentRemoveFails
  \/ AgentVerify \/ AgentFetch
  \/ AgentInit \/ AgentInitFails
  \/ AgentUnbundle \/ AgentUnbundleFails
  \/ AgentConsume \/ AgentResult \/ AgentResultFails

Agent == AgentStart \/ AgentRuns \/ AgentCrash

Next == Git \/ Serve \/ Agent

Spec == Init /\ [][Next]_vars

-----------------------------------------------------------------------------
(* Properties *)

AgentPC == {"down", "scan", "idle", "verify", "fetch", "init", "unbundle",
            "remove", "removing", "consume", "result"}

AgentType ==
  [pc : AgentPC, job : Jobs \cup {None}, tip : 0..MaxPush, base : 0..MaxPush, ok : BOOLEAN]

StageType ==
  [pc : {"idle", "bundle", "request"}, job : Jobs \cup {None}, client : Clients \cup {None}]

ClientType ==
  [pc : {"new", "queued", "waiting", "ok", "failed", "gone"}, op : {"restore", "delete"},
   repo : Repos \cup {None}, job : Jobs \cup {None}]

\* The variables keep their types.
TypeOK ==
  /\ repo \in [Repos -> [st : {"none", "dir", "bare"}, tip : 0..MaxPush]]
  /\ owner \subseteq Repos
  /\ saved \in [Repos -> 0..MaxPush]
  /\ pushes \in 0..MaxPush
  /\ job \in [Jobs -> [op : {"unused", "restore", "delete"}, repo : Repos \cup {None}]]
  /\ requests \subseteq Jobs
  /\ bundles \subseteq Jobs
  /\ result \in [Jobs -> {"none", "ok", "err"}]
  /\ agent \in AgentType
  /\ todo \subseteq Jobs
  /\ events \subseteq Jobs
  /\ serve \in {"down", "sweeping", "staging", "up"}
  /\ sweep \subseteq Jobs \X {"bundle", "request", "result"}
  /\ missing \subseteq Repos
  /\ stage \in StageType
  /\ queue \subseteq Clients
  /\ client \in [Clients -> ClientType]
  /\ done \in [Jobs -> {"never", "once", "again"}]
  /\ cut \subseteq Jobs
  /\ half \subseteq Repos

\* A 200 of /v1/restore or /v1/delete means that the agent carried out the very
\* operation on the very repository that this client asked for, whatever
\* crashed, timed out or was swept on the way.
AckMeansDone ==
  \A c \in Clients : client[c].pc = "ok" =>
    /\ done[client[c].job] # "never"
    /\ job[client[c].job] = [op |-> client[c].op, repo |-> client[c].repo]

\* "A restart never re-triggers a processed job" (package comment): once there
\* is a result there is no request, so no scan or event runs the job again.
ProcessedNotRetriggered ==
  \A j \in Jobs : result[j] # "none" => j \notin requests

\* "The periodic sweep must never touch in-flight restore jobs" (Run): while a
\* handler waits for its job, only the agent that executes the job takes its
\* request, and nobody takes its result.
InFlightLeftAlone ==
  [][\A c \in Clients : client[c].pc = "waiting" /\ client'[c].pc = "waiting" =>
       LET j == client[c].job
       IN  /\ j \in requests \ requests' => agent.pc = "consume" /\ agent.job = j
           /\ result[j] # "none" => result'[j] = result[j]]_vars

\* An agent that runs knows of every request it is not done with: the watcher is
\* added before the scan, so a job staged around the agent's start is not missed.
NoRequestMissed ==
  agent.pc \notin {"down", "scan"} => requests \subseteq todo \cup events \cup {agent.job}

\* A restore that fails leaves no empty repository behind, unless the agent died in
\* it (Fetch: the deferred RemoveAll): a repository that a restore inited and
\* nobody filled is being filled, or is what a crash left.
HalfRestoredOnlyByCrash ==
  \A x \in half :
    \/ agent.pc = "unbundle" /\ Target = x
    \/ \E j \in cut : job[j] = [op |-> "restore", repo |-> x]

\* What was pushed is lost to a delete alone, or to a restore that had found no
\* repository before the push came: Fetch neither overwrites nor removes what was
\* there when it looked ("dest already exists").
PushedIsKept ==
  [][\A x \in Repos : LET lost == repo[x].tip
     IN  lost # 0 /\ repo'[x].tip # lost /\ pushes' = pushes =>
           /\ Target = x
           /\ \/ job[agent.job].op = "delete"
              \/ lost > agent.base]_vars

\* A job takes effect again only if the agent died in its first run, before it had
\* consumed the request.
AgainOnlyAfterCrash == \A j \in Jobs : done[j] = "again" => j \in cut

\* What the package comment promises of a re-run delete ("simply fails with
\* not found"): a job takes effect at most once.
JobRunsOnce == \A j \in Jobs : done[j] # "again"
==============================================================================
