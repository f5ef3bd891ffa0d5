--------------------------- MODULE RestoreJobsProofs ---------------------------
(***************************************************************************)
(* For any repositories, jobs, clients and pushes, through crashes of both *)
(* daemons: an answer means that the job was done, a finished job is not   *)
(* run again, no request is missed, waiting jobs are left alone, and what  *)
(* a restore may leave, repeat or destroy has the cause that is named.     *)
(***************************************************************************)
EXTENDS RestoreJobs, TLAPS

\* j has been staged.
Used(j) == j \in Jobs /\ job[j].op # "unused"

\* A staged job names a repository; the staging action, the agent and the requests
\* have staged jobs, and a handler that waits for its staging has a repository.
Shape ==
  /\ \A j \in Jobs : job[j].op # "unused" => job[j].repo \in Repos
  /\ stage.pc # "idle" => Used(stage.job)
  /\ agent.pc \in {"down", "scan", "idle"} => agent.job = None
  /\ agent.pc \in {"verify", "fetch", "init", "unbundle"} =>
       Used(agent.job) /\ job[agent.job].op = "restore"
  /\ agent.pc \in {"remove", "removing"} => Used(agent.job) /\ job[agent.job].op = "delete"
  /\ agent.pc \in {"consume", "result"} => Used(agent.job)
  /\ \A j \in requests : Used(j)
  /\ \A c \in Clients : client[c].pc \in {"queued", "gone"} => client[c].repo \in Repos

-----------------------------------------------------------------------------
(* Types *)

\* A handler's record with its position replaced.
LEMMA ClientMoves ==
  ASSUME NEW r \in ClientType, NEW pc \in {"new", "queued", "waiting", "ok", "failed", "gone"}
  PROVE  [r EXCEPT !.pc = pc] \in ClientType
<1>1. ASSUME NEW A, NEW B, NEW C, NEW D, NEW s \in [pc : A, op : B, repo : C, job : D], NEW a \in A
      PROVE  [s EXCEPT !.pc = a] \in [pc : A, op : B, repo : C, job : D]
  OBVIOUS
<1> QED
  BY <1>1 DEF ClientType

\* The same with its job.
LEMMA ClientWaits ==
  ASSUME NEW r \in ClientType, NEW j \in Jobs \cup {None}
  PROVE  [r EXCEPT !.pc = "waiting", !.job = j] \in ClientType
<1>1. ASSUME NEW A, NEW B, NEW C, NEW D, NEW s \in [pc : A, op : B, repo : C, job : D],
             NEW a \in A, NEW d \in D
      PROVE  [s EXCEPT !.pc = a, !.job = d] \in [pc : A, op : B, repo : C, job : D]
  OBVIOUS
<1> QED
  BY <1>1 DEF ClientType

\* The same with what it asks for.
LEMMA ClientAsks ==
  ASSUME NEW r \in ClientType, NEW op \in {"restore", "delete"}, NEW x \in Repos
  PROVE  [r EXCEPT !.pc = "queued", !.op = op, !.repo = x] \in ClientType
<1>1. ASSUME NEW A, NEW B, NEW C, NEW D, NEW s \in [pc : A, op : B, repo : C, job : D],
             NEW a \in A, NEW b \in B, NEW c \in C
      PROVE  [s EXCEPT !.pc = a, !.op = b, !.repo = c] \in [pc : A, op : B, repo : C, job : D]
  OBVIOUS
<1> QED
  BY <1>1 DEF ClientType

\* A handler that has failed.
LEMMA FailedType == Failed \in ClientType
BY DEF Failed, ClientType

\* The agent's record with its position replaced.
LEMMA AgentMoves ==
  ASSUME NEW r \in AgentType, NEW pc \in AgentPC
  PROVE  [r EXCEPT !.pc = pc] \in AgentType
<1>1. ASSUME NEW A, NEW B, NEW C, NEW D, NEW E,
             NEW s \in [pc : A, job : B, tip : C, base : D, ok : E], NEW a \in A
      PROVE  [s EXCEPT !.pc = a] \in [pc : A, job : B, tip : C, base : D, ok : E]
  OBVIOUS
<1> QED
  BY <1>1 DEF AgentType, AgentPC

\* The same with the outcome of its job.
LEMMA AgentEnds ==
  ASSUME NEW r \in AgentType, NEW ok \in BOOLEAN
  PROVE  [r EXCEPT !.pc = "consume", !.ok = ok] \in AgentType
<1>1. ASSUME NEW A, NEW B, NEW C, NEW D, NEW E,
             NEW s \in [pc : A, job : B, tip : C, base : D, ok : E], NEW a \in A, NEW e \in E
      PROVE  [s EXCEPT !.pc = a, !.ok = e] \in [pc : A, job : B, tip : C, base : D, ok : E]
  OBVIOUS
<1> QED
  BY <1>1 DEF AgentType, AgentPC

\* The same with what it has fetched.
LEMMA AgentFetches ==
  ASSUME NEW r \in AgentType, NEW tip \in 0..MaxPush, NEW base \in 0..MaxPush
  PROVE  [r EXCEPT !.pc = "init", !.tip = tip, !.base = base] \in AgentType
<1>1. ASSUME NEW A, NEW B, NEW C, NEW D, NEW E,
             NEW s \in [pc : A, job : B, tip : C, base : D, ok : E], NEW a \in A, NEW c \in C, NEW d \in D
      PROVE  [s EXCEPT !.pc = a, !.tip = c, !.base = d] \in [pc : A, job : B, tip : C, base : D, ok : E]
  OBVIOUS
<1> QED
  BY <1>1 DEF AgentType, AgentPC

\* The same with a job.
LEMMA AgentBegins ==
  ASSUME NEW r \in AgentType, NEW j \in Jobs, NEW pc \in AgentPC
  PROVE  [r EXCEPT !.pc = pc, !.job = j] \in AgentType
<1>1. ASSUME NEW A, NEW B, NEW C, NEW D, NEW E,
             NEW s \in [pc : A, job : B, tip : C, base : D, ok : E], NEW a \in A, NEW b \in B
      PROVE  [s EXCEPT !.pc = a, !.job = b] \in [pc : A, job : B, tip : C, base : D, ok : E]
  OBVIOUS
<1> QED
  BY <1>1 DEF AgentType, AgentPC

\* The agent without a job.
LEMMA IdleType == IdleAgent \in AgentType /\ DownAgent \in AgentType
<1>1. IdleAgent \in AgentType
  BY RestoreJobsAssumption DEF IdleAgent, AgentType, AgentPC
<1> QED
  BY <1>1, AgentMoves DEF DownAgent, AgentPC

\* The initial state has its types.
LEMMA TypeInit == Init => TypeOK
<1> SUFFICES ASSUME Init PROVE TypeOK
  OBVIOUS
<1>1. 0 \in 0..MaxPush
  BY RestoreJobsAssumption
<1>2. repo \in [Repos -> [st : {"none", "dir", "bare"}, tip : 0..MaxPush]]
      /\ saved \in [Repos -> 0..MaxPush] /\ pushes \in 0..MaxPush
  BY <1>1 DEF Init, Gone
<1>3. agent \in AgentType
  BY <1>1 DEF Init, DownAgent, IdleAgent, AgentType, AgentPC
<1>4. stage \in StageType
  BY DEF Init, IdleStage, StageType
<1>5. client \in [Clients -> ClientType]
  BY DEF Init, ClientType
<1>6. job \in [Jobs -> [op : {"unused", "restore", "delete"}, repo : Repos \cup {None}]]
  BY DEF Init
<1> QED
  BY <1>2, <1>3, <1>4, <1>5, <1>6 DEF Init, TypeOK

\* A push and an upload keep the types.
LEMMA TypeGit ==
  ASSUME TypeOK, Git
  PROVE  TypeOK'
<1> USE RestoreJobsAssumption DEF TypeOK, gitVars, fileVars, agentVars, serveVars, history
<1>1. PICK x \in Repos : PushMkdir(x) \/ PushInit(x) \/ PushDies(x) \/ Push(x) \/ Upload(x)
  BY DEF Git
<1>2. CASE PushMkdir(x)
  <2>1. repo' \in [Repos -> [st : {"none", "dir", "bare"}, tip : 0..MaxPush]]
    BY <1>2 DEF PushMkdir, Directory, Gone
  <2> QED
    BY <1>2, <2>1 DEF PushMkdir
<1>3. CASE PushInit(x)
  <2>1. repo' \in [Repos -> [st : {"none", "dir", "bare"}, tip : 0..MaxPush]]
    BY <1>3 DEF PushInit, Bare
  <2> QED
    BY <1>3, <2>1 DEF PushInit
<1>4. CASE PushDies(x)
  BY <1>4 DEF PushDies
<1>5. CASE Push(x)
  <2>1. pushes + 1 \in 0..MaxPush
    BY <1>5 DEF Push
  <2>2. repo' \in [Repos -> [st : {"none", "dir", "bare"}, tip : 0..MaxPush]]
    BY <1>5, <2>1 DEF Push
  <2> QED
    BY <1>5, <2>1, <2>2 DEF Push
<1>6. CASE Upload(x)
  BY <1>6 DEF Upload
<1> QED
  BY <1>1, <1>2, <1>3, <1>4, <1>5, <1>6

\* The reply of a staging action keeps the types.
LEMMA TypeReply ==
  ASSUME TypeOK, NEW ok \in BOOLEAN, StageReply(ok)
  PROVE  stage' \in StageType /\ client' \in [Clients -> ClientType]
<1>1. stage' \in StageType
  BY DEF StageReply, IdleStage, StageType
<1>2. Failed \in ClientType
  BY DEF Failed, ClientType
<1>3. ASSUME NEW c \in Clients
      PROVE  /\ client[c] \in ClientType
             /\ [client[c] EXCEPT !.pc = "waiting", !.job = stage.job] \in ClientType
  BY ClientWaits DEF TypeOK, StageType
<1>4. client' \in [Clients -> ClientType]
  BY <1>2, <1>3 DEF StageReply
<1> QED
  BY <1>1, <1>4

\* A step of serve keeps the types.
LEMMA TypeServe ==
  ASSUME TypeOK, Shape, Serve
  PROVE  TypeOK'
<1> USE RestoreJobsAssumption DEF gitVars, fileVars, agentVars, serveVars, history
<1>1. CASE ServeStart
  <2>1. Files \subseteq Jobs \X {"bundle", "request", "result"}
    BY DEF Files, TypeOK
  <2> QED
    BY <1>1, <2>1 DEF ServeStart, TypeOK
<1>2. ASSUME NEW f \in sweep, SweepRemove(f) PROVE TypeOK'
  <2>1. f[1] \in Jobs
    BY DEF TypeOK
  <2>2. result' \in [Jobs -> {"none", "ok", "err"}]
    BY <1>2, <2>1 DEF SweepRemove, TypeOK
  <2> QED
    BY <1>2, <2>2 DEF SweepRemove, TypeOK
<1>3. CASE SweepEnd
  BY <1>3 DEF SweepEnd, TypeOK
<1>4. CASE ServeUp
  BY <1>4 DEF ServeUp, TypeOK
<1>5. CASE ServeCrash
  <2>1. Failed \in ClientType /\ IdleStage \in StageType
    BY DEF Failed, ClientType, IdleStage, StageType
  <2>2. client' \in [Clients -> ClientType]
    BY <1>5, <2>1 DEF ServeCrash, TypeOK
  <2> QED
    BY <1>5, <2>1, <2>2 DEF ServeCrash, TypeOK
<1>6. ASSUME NEW c \in Clients, NEW op \in {"restore", "delete"}, NEW x \in Repos, ClientRequest(c, op, x)
      PROVE  TypeOK'
  <2>1. Failed \in ClientType /\ [client[c] EXCEPT !.pc = "queued", !.op = op, !.repo = x] \in ClientType
    BY ClientAsks, FailedType DEF TypeOK
  <2>2. client' \in [Clients -> ClientType]
    BY <1>6, <2>1 DEF ClientRequest, TypeOK
  <2> QED
    BY <1>6, <2>2 DEF ClientRequest, TypeOK
<1>7. ASSUME NEW c \in Clients, ClientGone(c) PROVE TypeOK'
  <2>1. client[c] \in ClientType
    BY DEF TypeOK
  <2>2. [client[c] EXCEPT !.pc = "gone"] \in ClientType
    BY <2>1, ClientMoves
  <2>3. client' \in [Clients -> ClientType]
    BY <1>7, <2>2 DEF ClientGone, TypeOK
  <2> QED
    BY <1>7, <2>3 DEF ClientGone, TypeOK
<1>8. ASSUME NEW c \in Clients, NEW j \in Jobs, StageForClient(c, j) PROVE TypeOK'
  <2>1. stage' \in StageType
    BY <1>8 DEF StageForClient, StageBegin, StageType
  <2>2. [op |-> client[c].op, repo |-> client[c].repo]
          \in [op : {"unused", "restore", "delete"}, repo : Repos \cup {None}]
    BY DEF TypeOK, ClientType
  <2>3. job' \in [Jobs -> [op : {"unused", "restore", "delete"}, repo : Repos \cup {None}]]
    BY <1>8, <2>2 DEF StageForClient, StageBegin, TypeOK
  <2> QED
    BY <1>8, <2>1, <2>3 DEF StageForClient, TypeOK
<1>9. ASSUME NEW c \in Clients, WaitResult(c) PROVE TypeOK'
  <2>1. Failed \in ClientType /\ [client[c] EXCEPT !.pc = "ok"] \in ClientType
    BY ClientMoves, FailedType DEF TypeOK
  <2>2. client' \in [Clients -> ClientType]
    BY <1>9, <2>1 DEF WaitResult, TypeOK
  <2>3. result' \in [Jobs -> {"none", "ok", "err"}]
    BY <1>9 DEF WaitResult, TypeOK
  <2> QED
    BY <1>9, <2>2, <2>3 DEF WaitResult, TypeOK
<1>10. ASSUME NEW c \in Clients, WaitTimeout(c) PROVE TypeOK'
  <2>1. client' \in [Clients -> ClientType]
    BY <1>10 DEF WaitTimeout, TypeOK, Failed, ClientType
  <2> QED
    BY <1>10, <2>1 DEF WaitTimeout, TypeOK
<1>11. ASSUME NEW x \in Repos, NEW j \in Jobs, StageMissing(x, j) PROVE TypeOK'
  <2>1. stage' \in StageType
    BY <1>11 DEF StageMissing, StageBegin, StageType
  <2>2. job' \in [Jobs -> [op : {"unused", "restore", "delete"}, repo : Repos \cup {None}]]
    BY <1>11 DEF StageMissing, StageBegin, TypeOK
  <2> QED
    BY <1>11, <2>1, <2>2 DEF StageMissing, TypeOK
<1>12. CASE StageBundle \/ StageBundleFails \/ StageRequest \/ StageRequestFails
  <2>1. stage.job \in Jobs
    BY <1>12 DEF Shape, Used, StageBundle, StageBundleFails, StageRequest, StageRequestFails
  <2>2. CASE StageBundle
    <3>1. stage' \in StageType
      BY <2>2 DEF StageBundle, TypeOK, StageType
    <3> QED
      BY <2>1, <2>2, <3>1 DEF StageBundle, TypeOK
  <2>3. CASE StageBundleFails
    <3>1. stage' \in StageType /\ client' \in [Clients -> ClientType]
      BY <2>3, TypeReply DEF StageBundleFails
    <3> QED
      BY <2>1, <2>3, <3>1 DEF StageBundleFails, TypeOK
  <2>4. CASE StageRequest
    <3>1. stage' \in StageType /\ client' \in [Clients -> ClientType]
      BY <2>4, TypeReply DEF StageRequest
    <3> QED
      BY <2>1, <2>4, <3>1 DEF StageRequest, WriteRequest, TypeOK
  <2>5. CASE StageRequestFails
    <3>1. stage' \in StageType /\ client' \in [Clients -> ClientType]
      BY <2>5, TypeReply DEF StageRequestFails
    <3> QED
      BY <2>1, <2>5, <3>1 DEF StageRequestFails, WriteRequest, TypeOK
  <2> QED
    BY <1>12, <2>2, <2>3, <2>4, <2>5
<1> QED
  BY <1>1, <1>2, <1>3, <1>4, <1>5, <1>6, <1>7, <1>8, <1>9, <1>10, <1>11, <1>12 DEF Serve

\* The repository of the agent's job is one.
LEMMA TargetIs ==
  ASSUME TypeOK, Shape, agent.pc \notin {"down", "scan", "idle"}
  PROVE  /\ Used(agent.job) /\ agent.job \in Jobs
         /\ Target \in Repos /\ Target = job[agent.job].repo
<1>1. Used(agent.job)
  BY DEF TypeOK, Shape, AgentType, AgentPC
<1> QED
  BY <1>1 DEF Used, Target, Shape

\* A step of the agent keeps the types.
LEMMA TypeAgent ==
  ASSUME TypeOK, Shape, Agent
  PROVE  TypeOK'
<1> USE RestoreJobsAssumption DEF gitVars, fileVars, agentVars, serveVars, history
<1> DEFINE Repo == [st : {"none", "dir", "bare"}, tip : 0..MaxPush]
<1>1. Gone \in Repo /\ Directory \in Repo /\ \A tip \in 0..MaxPush : Bare(tip) \in Repo
  BY DEF Gone, Directory, Bare
<1>2. IdleAgent \in AgentType /\ DownAgent \in AgentType /\ [IdleAgent EXCEPT !.pc = "scan"] \in AgentType
  BY IdleType, AgentMoves DEF AgentPC
<1>3. \A pc \in AgentPC : [agent EXCEPT !.pc = pc] \in AgentType
  BY AgentMoves DEF TypeOK
<1>4. \A ok \in BOOLEAN : [agent EXCEPT !.pc = "consume", !.ok = ok] \in AgentType
  BY AgentEnds DEF TypeOK
<1>5. agent \in AgentType /\ agent.tip \in 0..MaxPush /\ repo \in [Repos -> Repo]
  BY DEF TypeOK, AgentType
<1>6. CASE AgentStart
  BY <1>6, <1>2 DEF AgentStart, TypeOK
<1>7. CASE AgentScan
  BY <1>7, <1>2 DEF AgentScan, TypeOK
<1>8. ASSUME NEW j \in Jobs, AgentTake(j) PROVE TypeOK'
  <2>1. agent' \in AgentType
    <3>1. \A pc \in {"verify", "remove", "consume"} : Working(j, pc) \in AgentType
      BY AgentBegins, IdleType DEF Working, AgentPC
    <3> QED
      BY <1>8, <3>1, <1>5 DEF AgentTake
  <2> QED
    BY <1>8, <2>1 DEF AgentTake, TypeOK
<1>9. CASE AgentRefuse
  BY <1>9, <1>4 DEF AgentRefuse, Finish, TypeOK
<1>10. CASE AgentRemove
  <2>1. agent' \in AgentType
    BY <1>10, <1>3 DEF AgentRemove, AgentPC
  <2>2. repo' \in [Repos -> Repo]
    BY <1>10, <1>1, <1>5 DEF AgentRemove
  <2> QED
    BY <1>10, <2>1, <2>2 DEF AgentRemove, TypeOK
<1>11. CASE AgentRemoved
  <2>1. agent' \in AgentType
    BY <1>11, <1>4 DEF AgentRemoved, Finish
  <2>2. repo' \in [Repos -> Repo]
    BY <1>11, <1>1, <1>5 DEF AgentRemoved
  <2>3. done' \in [Jobs -> {"never", "once", "again"}]
    BY <1>11 DEF AgentRemoved, Done, TypeOK
  <2> QED
    BY <1>11, <2>1, <2>2, <2>3 DEF AgentRemoved, TypeOK
<1>12. CASE AgentRemoveFails
  BY <1>12, <1>4 DEF AgentRemoveFails, Finish, TypeOK
<1>13. CASE AgentVerify
  BY <1>13, <1>3 DEF AgentVerify, AgentPC, TypeOK
<1>14. CASE AgentFetch
  <2>1. saved[Target] \in 0..MaxPush /\ pushes \in 0..MaxPush
    BY <1>14, TargetIs DEF AgentFetch, TypeOK
  <2>2. agent' \in AgentType
    BY <1>14, <2>1, <1>5, AgentFetches DEF AgentFetch
  <2> QED
    BY <1>14, <2>2 DEF AgentFetch, TypeOK
<1>15. CASE AgentInit
  <2>1. agent' \in AgentType
    BY <1>15, <1>3 DEF AgentInit, AgentPC
  <2>2. Bare(0) \in Repo
    BY <1>1
  <2>3. repo' \in [Repos -> Repo]
    BY <1>15, <2>2, <1>5 DEF AgentInit
  <2>4. half' \subseteq Repos
    BY <1>15, TargetIs DEF AgentInit, TypeOK
  <2> QED
    BY <1>15, <2>1, <2>3, <2>4 DEF AgentInit, TypeOK
<1>16. CASE AgentInitFails
  <2>1. agent' \in AgentType
    BY <1>16, <1>4 DEF AgentInitFails, Finish
  <2>2. repo' \in [Repos -> Repo]
    BY <1>16, <1>1, <1>5 DEF AgentInitFails
  <2> QED
    BY <1>16, <2>1, <2>2 DEF AgentInitFails, TypeOK
<1>17. CASE AgentUnbundle
  <2>1. agent' \in AgentType
    BY <1>17, <1>4 DEF AgentUnbundle, Finish
  <2>2. Bare(agent.tip) \in Repo
    BY <1>1, <1>5
  <2>3. repo' \in [Repos -> Repo]
    BY <1>17, <2>2, <1>5 DEF AgentUnbundle
  <2>4. done' \in [Jobs -> {"never", "once", "again"}]
    BY <1>17 DEF AgentUnbundle, Done, TypeOK
  <2> QED
    BY <1>17, <2>1, <2>3, <2>4 DEF AgentUnbundle, TypeOK
<1>18. CASE AgentUnbundleFails
  <2>1. agent' \in AgentType
    BY <1>18, <1>4 DEF AgentUnbundleFails, Finish
  <2>2. repo' \in [Repos -> Repo]
    BY <1>18, <1>1, <1>5 DEF AgentUnbundleFails
  <2> QED
    BY <1>18, <2>1, <2>2 DEF AgentUnbundleFails, TypeOK
<1>19. CASE AgentConsume
  BY <1>19, <1>3 DEF AgentConsume, AgentPC, TypeOK
<1>20. CASE AgentResult
  <2>1. result' \in [Jobs -> {"none", "ok", "err"}]
    BY <1>20 DEF AgentResult, TypeOK
  <2> QED
    BY <1>20, <1>2, <2>1 DEF AgentResult, TypeOK
<1>21. CASE AgentResultFails
  BY <1>21, <1>2 DEF AgentResultFails, TypeOK
<1>22. CASE AgentCrash
  <2>1. cut' \subseteq Jobs
    BY <1>22, TargetIs DEF AgentCrash, TypeOK
  <2> QED
    BY <1>22, <1>2, <2>1 DEF AgentCrash, TypeOK
<1> QED
  BY <1>6, <1>7, <1>8, <1>9, <1>10, <1>11, <1>12, <1>13, <1>14, <1>15, <1>16, <1>17, <1>18,
     <1>19, <1>20, <1>21, <1>22 DEF Agent, AgentRuns

-----------------------------------------------------------------------------
(* The inductive invariant *)

\* No step has been taken with the job.
Untouched(j) ==
  /\ j \notin requests /\ result[j] = "none" /\ done[j] = "never"
  /\ j \notin cut /\ j # agent.job
  /\ \A c \in Clients : client[c].pc \in {"waiting", "ok"} => client[c].job # j

\* An id that is unused, or in the staging action, is new to everyone else.
Fresh ==
  \A j \in Jobs :
    job[j].op = "unused" \/ (stage.pc # "idle" /\ stage.job = j) => Untouched(j)

\* The staging action works for a handler that is not in the queue any more, on a job
\* that is what the handler asked for.
Staged ==
  stage.pc # "idle" /\ stage.client \in Clients =>
    /\ client[stage.client].pc \in {"queued", "gone"}
    /\ stage.client \notin queue
    /\ job[stage.job] = [op |-> client[stage.client].op, repo |-> client[stage.client].repo]

\* Handlers run while serve is up; each that has a job has one of its own, which is what
\* it asked for.
Handlers ==
  /\ \A c \in Clients : client[c].pc \in {"queued", "gone", "waiting"} => serve = "up"
  /\ \A c \in queue : client[c].pc \in {"queued", "gone"}
  /\ \A c \in Clients : client[c].pc \in {"waiting", "ok"} =>
       /\ client[c].job \in Jobs
       /\ job[client[c].job] = [op |-> client[c].op, repo |-> client[c].repo]
       /\ \A d \in Clients \ {c} :
            client[d].pc \in {"waiting", "ok"} => client[d].job # client[c].job

\* What the agent executes has no result yet; what has been done is answered, consumed
\* next, or was cut off by a crash.
Executes ==
  /\ agent.job \in Jobs => result[agent.job] = "none"
  /\ agent.pc = "result" => agent.job \notin requests
  /\ agent.pc \in {"consume", "result"} /\ agent.ok => done[agent.job] # "never"
  /\ agent.pc \in {"verify", "fetch", "init", "unbundle", "remove", "removing"} =>
       done[agent.job] = "never" \/ agent.job \in cut
  /\ \A j \in Jobs : result[j] = "ok" => done[j] # "never"
  /\ \A j \in requests :
       done[j] = "never" \/ j \in cut \/ (agent.pc = "consume" /\ agent.job = j)
  /\ \A c \in Clients : client[c].pc = "ok" => done[client[c].job] # "never"
  /\ ProcessedNotRetriggered
  /\ AgainOnlyAfterCrash

\* Only bare repositories have a branch; one that a push made after the restore in
\* progress has looked is newer than it.
Newer ==
  /\ \A x \in Repos : repo[x].st # "bare" => repo[x].tip = 0
  /\ agent.pc \in {"init", "unbundle"} =>
       agent.base <= pushes /\ (repo[Target].tip = 0 \/ repo[Target].tip > agent.base)

Inv ==
  /\ TypeOK /\ Shape /\ Fresh /\ Staged /\ Handlers /\ Executes /\ Newer
  /\ NoRequestMissed /\ HalfRestoredOnlyByCrash

\* The initial state satisfies the invariant.
LEMMA InvInit == Init => Inv
<1> SUFFICES ASSUME Init PROVE Inv
  OBVIOUS
<1>1. TypeOK
  BY TypeInit
<1>2. stage.pc = "idle" /\ agent.pc = "down" /\ agent.job = None
  BY DEF Init, IdleStage, DownAgent, IdleAgent
<1>3. \A c \in Clients : client[c].pc = "new"
  BY DEF Init
<1>4. \A j \in Jobs : job[j].op = "unused" /\ done[j] = "never" /\ result[j] = "none"
  BY DEF Init
<1>5. \A x \in Repos : repo[x].tip = 0
  BY DEF Init, Gone
<1>6. Shape
  BY <1>2, <1>3, <1>4 DEF Init, Shape
<1>7. Fresh /\ Staged
  BY <1>2, <1>3, <1>4, RestoreJobsAssumption DEF Init, Fresh, Untouched, Staged
<1>8. Handlers
  BY <1>3 DEF Init, Handlers
<1>9. Executes
  BY <1>2, <1>3, <1>4, RestoreJobsAssumption DEF Init, Executes, ProcessedNotRetriggered, AgainOnlyAfterCrash
<1>10. Newer /\ NoRequestMissed /\ HalfRestoredOnlyByCrash
  BY <1>2, <1>5 DEF Init, Newer, NoRequestMissed, HalfRestoredOnlyByCrash
<1> QED
  BY <1>1, <1>6, <1>7, <1>8, <1>9, <1>10 DEF Inv

\* The agent has no job after the step.
Rests ==
  /\ agent'.pc \in {"down", "scan", "idle"} /\ agent'.job = None /\ UNCHANGED <<requests, done>>
  /\ \/ agent.pc \in {"down", "scan", "idle", "result"} /\ UNCHANGED <<result, cut>>
     \/ /\ agent.pc = "result" /\ UNCHANGED cut
        /\ result' = [result EXCEPT ![agent.job] = IF agent.ok THEN "ok" ELSE "err"]
     \/ /\ UNCHANGED result
        /\ cut' = IF agent.pc \in {"unbundle", "removing", "consume"} THEN cut \cup {agent.job} ELSE cut

\* It begins with a job.
Takes(j) ==
  /\ agent.pc = "idle"
  /\ agent'.job = j /\ agent'.ok = FALSE
  /\ \/ agent'.pc = "verify" /\ job[j].op = "restore"
     \/ agent'.pc \in {"remove", "consume"} /\ job[j].op # "restore"
  /\ UNCHANGED <<requests, result, done, cut>>

\* It goes on with its job.
Works ==
  /\ agent'.job = agent.job
  /\ \/ agent.pc = "verify" /\ agent'.pc = "fetch" /\ UNCHANGED <<requests, done>>
     \/ agent.pc = "fetch" /\ agent'.pc = "init" /\ UNCHANGED <<requests, done>>
     \/ agent.pc = "init" /\ agent'.pc = "unbundle" /\ UNCHANGED <<requests, done>>
     \/ agent.pc = "remove" /\ agent'.pc = "removing" /\ UNCHANGED <<requests, done>>
     \/ /\ agent.pc \in {"verify", "fetch", "init", "unbundle", "remove", "removing"}
        /\ agent'.pc = "consume" /\ ~agent'.ok /\ UNCHANGED <<requests, done>>
     \/ /\ agent.pc \in {"unbundle", "removing"}
        /\ agent'.pc = "consume" /\ Done(agent.job) /\ UNCHANGED requests
     \/ /\ agent.pc = "consume" /\ agent'.pc = "result" /\ agent'.ok = agent.ok
        /\ requests' = requests \ {agent.job} /\ UNCHANGED done
  /\ UNCHANGED <<result, cut>>

\* What the steps of the agent do to its record and its files, apart from the
\* repositories.
LEMMA AgentSteps ==
  ASSUME TypeOK, Shape, Agent
  PROVE  /\ UNCHANGED <<job, stage, client, serve, queue, sweep, missing>>
         /\ Rests \/ (\E j \in requests : Takes(j)) \/ Works
<1> USE DEF gitVars, fileVars, agentVars, serveVars, history, Finish, Rests, Takes, Works
<1>1. agent \in AgentType
  BY DEF TypeOK
<1>2. CASE AgentStart \/ AgentScan \/ AgentResult \/ AgentResultFails \/ AgentCrash
  BY <1>2 DEF AgentStart, AgentScan, AgentResult, AgentResultFails, AgentCrash, IdleAgent, DownAgent
<1>3. ASSUME NEW j \in Jobs, AgentTake(j), j \in requests
      PROVE  UNCHANGED <<job, stage, client, serve, queue, sweep, missing>> /\ Takes(j)
  BY <1>3 DEF AgentTake, Working, IdleAgent
<1>4. ASSUME NEW j \in Jobs, AgentTake(j), j \notin requests
      PROVE  UNCHANGED <<job, stage, client, serve, queue, sweep, missing>> /\ Rests
  BY <1>4 DEF AgentTake, Shape
<1>5. CASE AgentRefuse \/ AgentRemoveFails \/ AgentInitFails \/ AgentUnbundleFails
  BY <1>5, <1>1 DEF AgentRefuse, AgentRemoveFails, AgentInitFails, AgentUnbundleFails, AgentType
<1>6. CASE AgentRemove \/ AgentVerify \/ AgentFetch \/ AgentInit
  BY <1>6, <1>1 DEF AgentRemove, AgentVerify, AgentFetch, AgentInit, AgentType
<1>7. CASE AgentRemoved \/ AgentUnbundle
  BY <1>7, <1>1 DEF AgentRemoved, AgentUnbundle, AgentType
<1>8. CASE AgentConsume
  BY <1>8, <1>1 DEF AgentConsume, AgentType
<1> QED
  BY <1>2, <1>3, <1>4, <1>5, <1>6, <1>7, <1>8 DEF Agent, AgentRuns

\* What the reply of a staging action does to the handlers.
LEMMA ReplySteps ==
  ASSUME TypeOK, NEW ok \in BOOLEAN, StageReply(ok)
  PROVE  /\ stage'.pc = "idle"
         /\ \A c \in Clients : c # stage.client => client'[c] = client[c]
         /\ \A c \in Clients : c = stage.client =>
              \/ client'[c].pc = "failed"
              \/ /\ ok /\ client[c].pc = "queued" /\ client'[c].pc = "waiting"
                 /\ client'[c].job = stage.job
                 /\ client'[c].op = client[c].op /\ client'[c].repo = client[c].repo
<1>1. \A c \in Clients : client[c] \in ClientType
  BY DEF TypeOK
<1> QED
  BY <1>1 DEF StageReply, IdleStage, Failed, ClientType

\* What a request does to its handler.
LEMMA RequestSteps ==
  ASSUME TypeOK, NEW c \in Clients, NEW op \in {"restore", "delete"}, NEW x \in Repos,
         ClientRequest(c, op, x)
  PROVE  /\ client[c].pc = "new"
         /\ \A d \in Clients : d # c => client'[d] = client[d]
         /\ \/ /\ client'[c].pc = "queued" /\ client'[c].op = op /\ client'[c].repo = x
               /\ queue' = queue \cup {c}
            \/ client'[c].pc = "failed" /\ queue' = queue
<1>1. client \in [Clients -> ClientType] /\ \A d \in Clients : client[d] \in ClientType
  BY DEF TypeOK
<1>2. \A d \in Clients : d # c => client'[d] = client[d]
  BY <1>1 DEF ClientRequest
<1>3. \/ client'[c] = [client[c] EXCEPT !.pc = "queued", !.op = op, !.repo = x] /\ queue' = queue \cup {c}
      \/ client'[c] = Failed /\ queue' = queue
  BY <1>1 DEF ClientRequest
<1>4. \/ /\ client'[c].pc = "queued" /\ client'[c].op = op /\ client'[c].repo = x
         /\ queue' = queue \cup {c}
      \/ client'[c].pc = "failed" /\ queue' = queue
  <2>1. CASE client'[c] = Failed /\ queue' = queue
    BY <2>1 DEF Failed
  <2>2. ASSUME NEW r \in ClientType, NEW s, s = [r EXCEPT !.pc = "queued", !.op = op, !.repo = x]
        PROVE  s.pc = "queued" /\ s.op = op /\ s.repo = x
    BY <2>2 DEF ClientType
  <2>3. CASE client'[c] = [client[c] EXCEPT !.pc = "queued", !.op = op, !.repo = x] /\ queue' = queue \cup {c}
    BY <1>1, <2>2, <2>3
  <2> QED
    BY <1>3, <2>1, <2>3
<1> QED
  BY <1>2, <1>4 DEF ClientRequest

\* What a disconnect does to its handler.
LEMMA GoneSteps ==
  ASSUME TypeOK, NEW c \in Clients, ClientGone(c)
  PROVE  /\ client[c].pc = "queued" /\ client'[c].pc = "gone"
         /\ client'[c].op = client[c].op /\ client'[c].repo = client[c].repo
         /\ \A d \in Clients : d # c => client'[d] = client[d]
<1>1. client \in [Clients -> ClientType] /\ \A d \in Clients : client[d] \in ClientType
  BY DEF TypeOK
<1> QED
  BY <1>1 DEF ClientGone, ClientType

\* What a result does to its handler.
LEMMA WaitSteps ==
  ASSUME TypeOK, NEW c \in Clients, WaitResult(c)
  PROVE  /\ client[c].pc = "waiting" /\ client'[c].pc \in {"ok", "failed"}
         /\ client'[c].pc = "ok" =>
              /\ result[client[c].job] = "ok" /\ client'[c].job = client[c].job
              /\ client'[c].op = client[c].op /\ client'[c].repo = client[c].repo
         /\ \A d \in Clients : d # c => client'[d] = client[d]
<1>1. client \in [Clients -> ClientType] /\ \A d \in Clients : client[d] \in ClientType
  BY DEF TypeOK
<1> QED
  BY <1>1 DEF WaitResult, Failed, ClientType

\* What the deadline does to its handler.
LEMMA TimeoutSteps ==
  ASSUME TypeOK, NEW c \in Clients, WaitTimeout(c)
  PROVE  /\ client[c].pc = "waiting" /\ client'[c].pc = "failed"
         /\ \A d \in Clients : d # c => client'[d] = client[d]
<1>1. client \in [Clients -> ClientType] /\ \A d \in Clients : client[d] \in ClientType
  BY DEF TypeOK
<1> QED
  BY <1>1 DEF WaitTimeout, Failed, ClientType

\* What a crash of serve does to the handlers.
LEMMA CrashSteps ==
  ASSUME TypeOK, NEW c \in Clients, ServeCrash
  PROVE  \/ client'[c].pc = "failed"
         \/ client'[c] = client[c] /\ client[c].pc \notin {"queued", "gone", "waiting"}
<1>1. client \in [Clients -> ClientType] /\ \A d \in Clients : client[d] \in ClientType
  BY DEF TypeOK
<1> QED
  BY <1>1 DEF ServeCrash, Failed, ClientType

\* The staged jobs keep their shape.
LEMMA ShapeStep ==
  ASSUME Inv, Next
  PROVE  Shape'
<1> USE DEF gitVars, fileVars, agentVars, serveVars, history
<1>1. TypeOK /\ Shape
  BY DEF Inv
<1>2. ASSUME UNCHANGED <<job, stage, agent, client>>, requests' \subseteq requests PROVE Shape'
  BY <1>1, <1>2 DEF Shape, Used
<1>3. CASE Git
  BY <1>3, <1>2 DEF Git, PushMkdir, PushInit, PushDies, Push, Upload
<1>4. CASE ServeStart \/ SweepEnd \/ ServeUp
  BY <1>4, <1>2 DEF ServeStart, SweepEnd, ServeUp
<1>5. ASSUME NEW f \in sweep, SweepRemove(f) PROVE Shape'
  BY <1>5, <1>2 DEF SweepRemove
<1>6. CASE ServeCrash
  BY <1>6, <1>1, CrashSteps DEF ServeCrash, Shape, Used, IdleStage
<1>7. ASSUME NEW c \in Clients, NEW op \in {"restore", "delete"}, NEW x \in Repos, ClientRequest(c, op, x)
      PROVE  Shape'
  <2>1. UNCHANGED <<job, stage, agent, requests>>
    BY <1>7 DEF ClientRequest
  <2> QED
    BY SMTT(30), <1>7, <1>1, <2>1, RequestSteps DEF Shape, Used
<1>8. ASSUME NEW c \in Clients, ClientGone(c) PROVE Shape'
  <2>1. UNCHANGED <<job, stage, agent, requests>>
    BY <1>8 DEF ClientGone
  <2> QED
    BY <1>8, <1>1, <2>1, GoneSteps DEF Shape, Used
<1>9. ASSUME NEW c \in Clients, WaitResult(c) PROVE Shape'
  <2>1. UNCHANGED <<job, stage, agent>> /\ requests' \subseteq requests
    BY <1>9 DEF WaitResult
  <2> QED
    BY <1>9, <1>1, <2>1, WaitSteps DEF Shape, Used
<1>10. ASSUME NEW c \in Clients, WaitTimeout(c) PROVE Shape'
  <2>1. UNCHANGED <<job, stage, agent, requests>>
    BY <1>10 DEF WaitTimeout
  <2> QED
    BY <1>10, <1>1, <2>1, TimeoutSteps DEF Shape, Used
<1>11. ASSUME NEW j \in Jobs, NEW op \in {"restore", "delete"}, NEW x \in Repos, NEW c,
              StageBegin(j, op, x, c), UNCHANGED <<agent, client, requests>>
       PROVE  Shape'
  <2>1. job'[j] = [op |-> op, repo |-> x] /\ \A i \in Jobs : i # j => job'[i] = job[i]
    BY <1>1, <1>11 DEF StageBegin, TypeOK
  <2>2. \A i \in Jobs : job[i].op # "unused" => i # j
    BY <1>11 DEF StageBegin
  <2>3. stage'.job = j
    BY <1>11 DEF StageBegin
  <2> QED
    BY <1>1, <1>11, <2>1, <2>2, <2>3 DEF Shape, Used
<1>12. ASSUME NEW c \in Clients, NEW j \in Jobs, StageForClient(c, j) PROVE Shape'
  <2>1. client[c].op \in {"restore", "delete"} /\ client[c].repo \in Repos
    BY <1>1, <1>12 DEF StageForClient, Inv, Handlers, Shape, TypeOK, ClientType
  <2> QED
    BY <1>11, <1>12, <2>1 DEF StageForClient
<1>13. ASSUME NEW x \in Repos, NEW j \in Jobs, StageMissing(x, j) PROVE Shape'
  BY <1>11, <1>13 DEF StageMissing
<1>14. CASE StageBundle
  <2>1. UNCHANGED <<job, agent, client, requests>> /\ stage'.job = stage.job /\ stage.pc # "idle"
    BY <1>1, <1>14 DEF StageBundle, TypeOK, StageType
  <2> QED
    BY <1>1, <2>1 DEF Shape, Used
<1>15. ASSUME NEW ok \in BOOLEAN, StageReply(ok), stage.pc # "idle", UNCHANGED <<job, agent>>,
              requests' \subseteq requests \cup {stage.job}
       PROVE  Shape'
  <2>1. \A j \in requests' : Used(j)'
    BY <1>1, <1>15 DEF Shape, Used
  <2> QED
    BY <1>1, <1>15, <2>1, ReplySteps DEF Shape, Used
<1>16. CASE StageBundleFails \/ StageRequest \/ StageRequestFails
  BY <1>15, <1>16 DEF StageBundleFails, StageRequest, StageRequestFails, WriteRequest
<1>17. CASE Agent
  <2>1. UNCHANGED <<job, stage, client>>
    BY <1>1, <1>17, AgentSteps
  <2>2. CASE Rests
    BY <1>1, <2>1, <2>2 DEF Rests, Shape, Used
  <2>3. ASSUME NEW j \in requests, Takes(j) PROVE Shape'
    <3>1. Used(j) /\ job[j].op \in {"restore", "delete"}
      BY <1>1 DEF Shape, Used, TypeOK
    <3> QED
      BY <1>1, <2>1, <2>3, <3>1 DEF Takes, Shape, Used
  <2>4. CASE Works
    BY <1>1, <2>1, <2>4 DEF Works, Shape, Used
  <2> QED
    BY <1>1, <1>17, <2>2, <2>3, <2>4, AgentSteps
<1> QED
  BY <1>3, <1>4, <1>5, <1>6, <1>7, <1>8, <1>9, <1>10, <1>12, <1>13, <1>14, <1>16, <1>17
     DEF Next, Serve

\* No handler gets a job in the step.
KeepJobs ==
  \A c \in Clients :
    \/ client'[c].pc \notin {"waiting", "ok"}
    \/ client[c].pc \in {"waiting", "ok"} /\ client'[c].job = client[c].job

\* A new id stays new until it is staged.
LEMMA FreshStep ==
  ASSUME Inv, Next
  PROVE  Fresh'
<1> USE DEF gitVars, fileVars, agentVars, serveVars, history
<1>1. TypeOK /\ Shape /\ Fresh
  BY DEF Inv
<1>2. ASSUME UNCHANGED <<job, agent, done, cut>>, requests' \subseteq requests,
             \A j \in Jobs : result'[j] \in {result[j], "none"},
             stage' = stage \/ stage'.pc = "idle", KeepJobs
      PROVE  Fresh'
  BY SMTT(30), <1>1, <1>2 DEF Fresh, Untouched, KeepJobs
<1>3. CASE Git
  BY <1>3, <1>2 DEF KeepJobs, Git, PushMkdir, PushInit, PushDies, Push, Upload
<1>4. CASE ServeStart \/ SweepEnd \/ ServeUp
  BY <1>4, <1>2 DEF KeepJobs, ServeStart, SweepEnd, ServeUp
<1>5. ASSUME NEW f \in sweep, SweepRemove(f) PROVE Fresh'
  <2>1. \A j \in Jobs : result'[j] \in {result[j], "none"}
    BY <1>1, <1>5 DEF SweepRemove, TypeOK
  <2> QED
    BY <1>2, <1>5, <2>1 DEF SweepRemove, KeepJobs
<1>6. CASE ServeCrash
  <2>1. UNCHANGED <<job, agent, done, cut, requests, result>> /\ stage'.pc = "idle"
    BY <1>6 DEF ServeCrash, IdleStage
  <2>3. KeepJobs
    BY <1>1, <1>6, CrashSteps DEF KeepJobs
  <2> QED
    BY <1>2, <2>1, <2>3
<1>7. ASSUME NEW c \in Clients, NEW op \in {"restore", "delete"}, NEW x \in Repos, ClientRequest(c, op, x)
      PROVE  Fresh'
  <2>1. UNCHANGED <<job, agent, done, cut, requests, result, stage>>
    BY <1>7 DEF ClientRequest
  <2>3. KeepJobs
    BY <1>1, <1>7, RequestSteps DEF KeepJobs
  <2> QED
    BY <1>2, <2>1, <2>3
<1>8. ASSUME NEW c \in Clients, ClientGone(c) PROVE Fresh'
  <2>1. UNCHANGED <<job, agent, done, cut, requests, result, stage>>
    BY <1>8 DEF ClientGone
  <2>3. KeepJobs
    BY <1>1, <1>8, GoneSteps DEF KeepJobs
  <2> QED
    BY <1>2, <2>1, <2>3
<1>9. ASSUME NEW c \in Clients, WaitResult(c) PROVE Fresh'
  <2>1. UNCHANGED <<job, agent, done, cut, stage>> /\ requests' \subseteq requests
    BY <1>9 DEF WaitResult
  <2>2. \A j \in Jobs : result'[j] \in {result[j], "none"}
    BY <1>1, <1>9 DEF WaitResult, TypeOK
  <2>3. KeepJobs
    BY <1>1, <1>9, WaitSteps DEF KeepJobs
  <2> QED
    BY <1>2, <2>1, <2>2, <2>3
<1>10. ASSUME NEW c \in Clients, WaitTimeout(c) PROVE Fresh'
  <2>1. UNCHANGED <<job, agent, done, cut, requests, result, stage>>
    BY <1>10 DEF WaitTimeout
  <2>3. KeepJobs
    BY <1>1, <1>10, TimeoutSteps DEF KeepJobs
  <2> QED
    BY <1>2, <2>1, <2>3
<1>11. ASSUME NEW j \in Jobs, NEW op \in {"restore", "delete"}, NEW x, NEW c,
              StageBegin(j, op, x, c), UNCHANGED <<agent, client, requests, result, done, cut>>
       PROVE  Fresh'
  <2>1. \A i \in Jobs : i # j => job'[i] = job[i]
    BY <1>1, <1>11 DEF StageBegin, TypeOK
  <2>2. job[j].op = "unused" /\ stage'.job = j
    BY <1>11 DEF StageBegin
  <2> QED
    BY <1>1, <1>11, <2>1, <2>2 DEF Fresh, Untouched
<1>12. ASSUME NEW c \in Clients, NEW j \in Jobs, StageForClient(c, j) PROVE Fresh'
  <2>1. client[c].op \in {"restore", "delete"}
    BY <1>1 DEF TypeOK, ClientType
  <2> QED
    BY <1>11, <1>12, <2>1 DEF StageForClient
<1>13. ASSUME NEW x \in Repos, NEW j \in Jobs, StageMissing(x, j) PROVE Fresh'
  BY <1>11, <1>13 DEF StageMissing
<1>14. CASE StageBundle
  <2>1. UNCHANGED <<job, agent, client, requests, result, done, cut>> /\ stage'.job = stage.job /\ stage.pc # "idle"
    BY <1>1, <1>14 DEF StageBundle, TypeOK, StageType
  <2> QED
    BY <1>1, <2>1 DEF Fresh, Untouched
<1>15. ASSUME NEW ok \in BOOLEAN, StageReply(ok), stage.pc # "idle",
              UNCHANGED <<job, agent, result, done, cut>>,
              requests' \subseteq requests \cup {stage.job}
       PROVE  Fresh'
  <2>1. \A j \in Jobs : job[j].op = "unused" => j # stage.job
    BY <1>1, <1>15 DEF Shape, Used
  <2>2. stage'.pc = "idle"
    BY <1>1, <1>15, ReplySteps
  <2>3. \A c \in Clients : client'[c].pc \in {"waiting", "ok"} =>
          (client[c].pc \in {"waiting", "ok"} /\ client'[c].job = client[c].job) \/ client'[c].job = stage.job
    BY <1>1, <1>15, ReplySteps
  <2> QED
    BY <1>1, <1>15, <2>1, <2>2, <2>3 DEF Fresh, Untouched
<1>16. CASE StageBundleFails \/ StageRequest \/ StageRequestFails
  BY <1>15, <1>16 DEF StageBundleFails, StageRequest, StageRequestFails, WriteRequest
<1>17. CASE Agent
  <2>1. UNCHANGED <<job, stage, client>>
    BY <1>1, <1>17, AgentSteps
  <2>2. CASE Rests
    <3>1. \A j \in Jobs : j # agent.job => result'[j] = result[j] /\ (j \in cut' => j \in cut)
      BY <1>1, <2>2 DEF Rests, TypeOK
    <3> QED
      BY <1>1, <2>1, <2>2, <3>1, RestoreJobsAssumption DEF Rests, Fresh, Untouched
  <2>3. ASSUME NEW j \in requests, Takes(j) PROVE Fresh'
    BY <1>1, <2>1, <2>3 DEF Takes, Fresh, Untouched
  <2>4. CASE Works
    <3>1. \A j \in Jobs : j # agent.job => done'[j] = done[j]
      BY <1>1, <2>4 DEF Works, Done, TypeOK
    <3>2. requests' \subseteq requests /\ agent'.job = agent.job /\ UNCHANGED <<result, cut>>
      BY <2>4 DEF Works
    <3> QED
      BY <1>1, <2>1, <3>1, <3>2 DEF Fresh, Untouched
  <2> QED
    BY <1>1, <1>17, <2>2, <2>3, <2>4, AgentSteps
<1> QED
  BY <1>3, <1>4, <1>5, <1>6, <1>7, <1>8, <1>9, <1>10, <1>12, <1>13, <1>14, <1>16, <1>17
     DEF Next, Serve

\* The staging action keeps to what its handler asked for.
LEMMA StagedStep ==
  ASSUME Inv, Next
  PROVE  Staged'
<1> USE DEF gitVars, fileVars, agentVars, serveVars, history
<1>1. TypeOK /\ Shape /\ Staged /\ Handlers
  BY DEF Inv
<1>2. ASSUME UNCHANGED <<stage, client, queue, job>> PROVE Staged'
  BY <1>1, <1>2 DEF Staged
<1>3. ASSUME stage'.pc = "idle" PROVE Staged'
  BY <1>3 DEF Staged
<1>4. CASE Git
  BY <1>4, <1>2 DEF Git, PushMkdir, PushInit, PushDies, Push, Upload
<1>5. CASE ServeStart \/ (\E f \in sweep : SweepRemove(f)) \/ SweepEnd \/ ServeUp
  BY <1>5, <1>2 DEF ServeStart, SweepRemove, SweepEnd, ServeUp
<1>6. CASE ServeCrash
  BY <1>6, <1>3 DEF ServeCrash, IdleStage
<1>7. ASSUME NEW c \in Clients, NEW op \in {"restore", "delete"}, NEW x \in Repos, ClientRequest(c, op, x)
      PROVE  Staged'
  <2>1. UNCHANGED <<stage, job>>
    BY <1>7 DEF ClientRequest
  <2>2. stage.pc # "idle" => c # stage.client
    BY <1>1, <1>7, RequestSteps DEF Staged
  <2> QED
    BY <1>1, <1>7, <2>1, <2>2, RequestSteps DEF Staged
<1>8. ASSUME NEW c \in Clients, ClientGone(c) PROVE Staged'
  <2>1. UNCHANGED <<stage, job, queue>>
    BY <1>8 DEF ClientGone
  <2> QED
    BY <1>1, <1>8, <2>1, GoneSteps DEF Staged
<1>9. ASSUME NEW c \in Clients, WaitResult(c) PROVE Staged'
  <2>1. UNCHANGED <<stage, job, queue>>
    BY <1>9 DEF WaitResult
  <2> QED
    BY <1>1, <1>9, <2>1, WaitSteps DEF Staged
<1>10. ASSUME NEW c \in Clients, WaitTimeout(c) PROVE Staged'
  <2>1. UNCHANGED <<stage, job, queue>>
    BY <1>10 DEF WaitTimeout
  <2> QED
    BY <1>1, <1>10, <2>1, TimeoutSteps DEF Staged
<1>11. ASSUME NEW c \in Clients, NEW j \in Jobs, StageForClient(c, j) PROVE Staged'
  <2>1. job'[j] = [op |-> client[c].op, repo |-> client[c].repo]
    BY <1>1, <1>11 DEF StageForClient, StageBegin, TypeOK
  <2>2. stage'.job = j /\ stage'.client = c /\ queue' = queue \ {c} /\ UNCHANGED client
    BY <1>11 DEF StageForClient, StageBegin
  <2>3. client[c].pc \in {"queued", "gone"}
    BY <1>1, <1>11 DEF StageForClient, Handlers
  <2> QED
    BY <2>1, <2>2, <2>3 DEF Staged
<1>12. ASSUME NEW x \in Repos, NEW j \in Jobs, StageMissing(x, j) PROVE Staged'
  <2>1. stage'.client \notin Clients
    BY <1>12, RestoreJobsAssumption DEF StageMissing, StageBegin
  <2> QED
    BY <2>1 DEF Staged
<1>13. CASE StageBundle
  <2>1. UNCHANGED <<job, client, queue>> /\ stage'.job = stage.job /\ stage'.client = stage.client
        /\ stage.pc # "idle"
    BY <1>1, <1>13 DEF StageBundle, TypeOK, StageType
  <2> QED
    BY <1>1, <2>1 DEF Staged
<1>14. CASE StageBundleFails \/ StageRequest \/ StageRequestFails
  BY <1>1, <1>3, <1>14, ReplySteps DEF StageBundleFails, StageRequest, StageRequestFails
<1>15. CASE Agent
  BY <1>1, <1>2, <1>15, AgentSteps
<1> QED
  BY <1>4, <1>5, <1>6, <1>7, <1>8, <1>9, <1>10, <1>11, <1>12, <1>13, <1>14, <1>15 DEF Next, Serve

\* Handlers keep to their own jobs.
LEMMA HandlersStep ==
  ASSUME Inv, Next
  PROVE  Handlers'
<1> USE DEF gitVars, fileVars, agentVars, serveVars, history
<1>1. TypeOK /\ Shape /\ Staged /\ Handlers /\ Fresh
  BY DEF Inv
<1>2. ASSUME UNCHANGED <<client, queue, job>>,
             serve' = serve \/ serve # "up"
      PROVE  Handlers'
  BY <1>1, <1>2 DEF Handlers
<1>3. CASE Git
  BY <1>3, <1>2 DEF Git, PushMkdir, PushInit, PushDies, Push, Upload
<1>4. CASE ServeStart \/ (\E f \in sweep : SweepRemove(f)) \/ SweepEnd \/ ServeUp \/ StageBundle
  BY <1>4, <1>2 DEF ServeStart, SweepRemove, SweepEnd, ServeUp, StageBundle
<1>5. CASE ServeCrash
  <2>1. queue' = {} /\ UNCHANGED job
    BY <1>5 DEF ServeCrash
  <2>2. \A c \in Clients : client'[c].pc \notin {"queued", "gone", "waiting"}
    BY <1>1, <1>5, CrashSteps
  <2>3. \A c \in Clients : client'[c].pc = "ok" => client'[c] = client[c]
    BY <1>1, <1>5, CrashSteps
  <2> QED
    BY <1>1, <2>1, <2>2, <2>3 DEF Handlers
<1>6. ASSUME NEW c \in Clients, UNCHANGED <<job, serve>>,
             \A d \in Clients : d # c => client'[d] = client[d],
             client[c].pc \in {"new", "queued", "waiting"},
             client'[c].pc \in {"queued", "gone"} => serve = "up",
             client'[c].pc # "waiting",
             client'[c].pc = "ok" => /\ client[c].pc = "waiting" /\ client'[c].job = client[c].job
                                     /\ client'[c].op = client[c].op /\ client'[c].repo = client[c].repo,
             queue' \subseteq queue \cup {c},
             c \in queue' => client'[c].pc \in {"queued", "gone"}
      PROVE  Handlers'
  <2>1. \A d \in Clients : client'[d].pc \in {"queued", "gone", "waiting"} => serve' = "up"
    BY <1>1, <1>6 DEF Handlers
  <2>2. \A d \in queue' : client'[d].pc \in {"queued", "gone"}
    BY <1>1, <1>6 DEF Handlers, TypeOK
  <2>3. \A d \in Clients : client'[d].pc \in {"waiting", "ok"} =>
          /\ client[d].pc \in {"waiting", "ok"} /\ client'[d].job = client[d].job
          /\ client'[d].op = client[d].op /\ client'[d].repo = client[d].repo
    BY <1>6
  <2> QED
    BY SMTT(30), <1>1, <1>6, <2>1, <2>2, <2>3 DEF Handlers
<1>7. ASSUME NEW c \in Clients, NEW op \in {"restore", "delete"}, NEW x \in Repos, ClientRequest(c, op, x)
      PROVE  Handlers'
  <2>1. UNCHANGED <<job, serve>> /\ serve = "up"
    BY <1>7 DEF ClientRequest
  <2>2. c \notin queue
    BY <1>1, <1>7, RequestSteps DEF Handlers
  <2> QED
    BY <1>1, <1>6, <1>7, <2>1, <2>2, RequestSteps
<1>8. ASSUME NEW c \in Clients, ClientGone(c) PROVE Handlers'
  <2>1. UNCHANGED <<job, serve, queue>>
    BY <1>8 DEF ClientGone
  <2>2. serve = "up"
    BY <1>1, <1>8, GoneSteps DEF Handlers
  <2> QED
    BY <1>1, <1>6, <1>8, <2>1, <2>2, GoneSteps
<1>9. ASSUME NEW c \in Clients, WaitResult(c) PROVE Handlers'
  <2>1. UNCHANGED <<job, serve, queue>>
    BY <1>9 DEF WaitResult
  <2>2. c \notin queue
    BY <1>1, <1>9, WaitSteps DEF Handlers
  <2> QED
    BY <1>1, <1>6, <1>9, <2>1, <2>2, WaitSteps
<1>10. ASSUME NEW c \in Clients, WaitTimeout(c) PROVE Handlers'
  <2>1. UNCHANGED <<job, serve, queue>>
    BY <1>10 DEF WaitTimeout
  <2>2. c \notin queue
    BY <1>1, <1>10, TimeoutSteps DEF Handlers
  <2> QED
    BY <1>1, <1>6, <1>10, <2>1, <2>2, TimeoutSteps
<1>11. ASSUME NEW j \in Jobs, NEW op, NEW x, NEW c,
              StageBegin(j, op, x, c), UNCHANGED <<client, serve>>, queue' \subseteq queue
       PROVE  Handlers'
  <2>1. \A i \in Jobs : i # j => job'[i] = job[i]
    BY <1>1, <1>11 DEF StageBegin, TypeOK
  <2>2. \A d \in Clients : client[d].pc \in {"waiting", "ok"} => client[d].job # j
    BY <1>1, <1>11 DEF StageBegin, Fresh, Untouched
  <2> QED
    BY <1>1, <1>11, <2>1, <2>2 DEF Handlers
<1>12. ASSUME NEW c \in Clients, NEW j \in Jobs, StageForClient(c, j) PROVE Handlers'
  BY <1>11, <1>12 DEF StageForClient
<1>13. ASSUME NEW x \in Repos, NEW j \in Jobs, StageMissing(x, j) PROVE Handlers'
  BY <1>11, <1>13 DEF StageMissing
<1>14. ASSUME NEW ok \in BOOLEAN, StageReply(ok), stage.pc # "idle", UNCHANGED <<job, serve, queue>>
       PROVE  Handlers'
  <2>1. stage.job \in Jobs /\ Untouched(stage.job)
    BY <1>1, <1>14 DEF Shape, Used, Fresh
  <2>2. \A d \in Clients : client[d].pc \in {"waiting", "ok"} => client[d].job # stage.job
    BY <2>1 DEF Untouched
  <2>3. \A d \in Clients : d # stage.client => client'[d] = client[d]
    BY <1>1, <1>14, ReplySteps
  <2>4. \A c \in Clients : c = stage.client =>
          /\ c \notin queue /\ client'[c].pc \in {"failed", "waiting"}
          /\ client'[c].pc = "waiting" =>
               /\ serve = "up" /\ client'[c].job = stage.job
               /\ job[stage.job] = [op |-> client'[c].op, repo |-> client'[c].repo]
    BY SMTT(30), <1>1, <1>14, ReplySteps DEF Staged, Handlers
  <2>5. \A d \in Clients : client'[d].pc \in {"queued", "gone", "waiting"} => serve' = "up"
    BY <1>1, <1>14, <2>3, <2>4 DEF Handlers
  <2>6. \A d \in queue' : client'[d].pc \in {"queued", "gone"}
    BY <1>1, <1>14, <2>3, <2>4 DEF Handlers, TypeOK
  <2>7. ASSUME NEW c \in Clients, client'[c].pc \in {"waiting", "ok"}
        PROVE  /\ client'[c].job \in Jobs
               /\ job'[client'[c].job] = [op |-> client'[c].op, repo |-> client'[c].repo]
    BY <1>1, <1>14, <2>1, <2>3, <2>4, <2>7 DEF Handlers
  <2>8. ASSUME NEW c \in Clients, client'[c].pc \in {"waiting", "ok"},
               NEW d \in Clients \ {c}, client'[d].pc \in {"waiting", "ok"}
        PROVE  client'[d].job # client'[c].job
    <3>1. CASE c # stage.client /\ d # stage.client
      <4>1. client'[c] = client[c] /\ client'[d] = client[d]
        BY <2>3, <3>1
      <4> QED
        BY <1>1, <2>8, <4>1 DEF Handlers
    <3>2. CASE c = stage.client
      BY <2>2, <2>3, <2>4, <2>8, <3>2
    <3>3. CASE d = stage.client
      BY <2>2, <2>3, <2>4, <2>8, <3>3
    <3> QED
      BY <3>1, <3>2, <3>3
  <2> QED
    BY <2>5, <2>6, <2>7, <2>8 DEF Handlers
<1>15. CASE StageBundleFails \/ StageRequest \/ StageRequestFails
  BY <1>14, <1>15 DEF StageBundleFails, StageRequest, StageRequestFails
<1>16. CASE Agent
  BY <1>1, <1>2, <1>16, AgentSteps
<1> QED
  BY <1>3, <1>4, <1>5, <1>7, <1>8, <1>9, <1>10, <1>12, <1>13, <1>15, <1>16 DEF Next, Serve

\* No handler is answered in the step.
KeepAnswers ==
  \A c \in Clients : client'[c].pc = "ok" => client[c].pc = "ok" /\ client'[c].job = client[c].job

\* What was done stays known.
LEMMA ExecutesStep ==
  ASSUME Inv, Next
  PROVE  Executes'
<1> USE DEF gitVars, fileVars, agentVars, serveVars, history, ProcessedNotRetriggered, AgainOnlyAfterCrash
<1>1. TypeOK /\ Shape /\ Fresh /\ Executes /\ Handlers
  BY DEF Inv
<1>2. ASSUME UNCHANGED <<agent, done, cut>>, requests' \subseteq requests,
             \A j \in Jobs : result'[j] \in {result[j], "none"},
             \A c \in Clients : client'[c].pc = "ok" => done[client'[c].job] # "never"
      PROVE  Executes'
  BY <1>1, <1>2 DEF Executes
<1>3. ASSUME KeepAnswers
      PROVE  \A c \in Clients : client'[c].pc = "ok" => done[client'[c].job] # "never"
  BY <1>1, <1>3 DEF Executes, KeepAnswers
<1>4. ASSUME UNCHANGED <<agent, done, cut, requests, result>>, KeepAnswers PROVE Executes'
  BY <1>2, <1>3, <1>4
<1>5. CASE Git
  BY <1>5, <1>4 DEF KeepAnswers, Git, PushMkdir, PushInit, PushDies, Push, Upload
<1>6. CASE ServeStart \/ SweepEnd \/ ServeUp \/ StageBundle
  BY <1>6, <1>4 DEF KeepAnswers, ServeStart, SweepEnd, ServeUp, StageBundle
<1>7. ASSUME NEW f \in sweep, SweepRemove(f) PROVE Executes'
  <2>1. \A j \in Jobs : result'[j] \in {result[j], "none"}
    BY <1>1, <1>7 DEF SweepRemove, TypeOK
  <2>2. KeepAnswers
    BY <1>7 DEF SweepRemove, KeepAnswers
  <2> QED
    BY <1>2, <1>3, <1>7, <2>1, <2>2 DEF SweepRemove
<1>8. CASE ServeCrash
  <2>1. KeepAnswers
    BY <1>1, <1>8, CrashSteps DEF KeepAnswers
  <2> QED
    BY <1>4, <1>8, <2>1 DEF ServeCrash
<1>9. ASSUME NEW c \in Clients, NEW op \in {"restore", "delete"}, NEW x \in Repos, ClientRequest(c, op, x)
      PROVE  Executes'
  <2>1. KeepAnswers
    BY <1>1, <1>9, RequestSteps DEF KeepAnswers
  <2> QED
    BY <1>4, <1>9, <2>1 DEF ClientRequest
<1>10. ASSUME NEW c \in Clients, ClientGone(c) PROVE Executes'
  <2>1. KeepAnswers
    BY <1>1, <1>10, GoneSteps DEF KeepAnswers
  <2> QED
    BY <1>4, <1>10, <2>1 DEF ClientGone
<1>11. ASSUME NEW c \in Clients, WaitTimeout(c) PROVE Executes'
  <2>1. KeepAnswers
    BY <1>1, <1>11, TimeoutSteps DEF KeepAnswers
  <2> QED
    BY <1>4, <1>11, <2>1 DEF WaitTimeout
<1>12. ASSUME NEW c \in Clients, WaitResult(c) PROVE Executes'
  <2>1. UNCHANGED <<agent, done, cut>> /\ requests' \subseteq requests
    BY <1>12 DEF WaitResult
  <2>2. \A j \in Jobs : result'[j] \in {result[j], "none"}
    BY <1>1, <1>12 DEF WaitResult, TypeOK
  <2>3. client[c].job \in Jobs
    BY <1>1, <1>12, WaitSteps DEF Handlers
  <2>4. \A d \in Clients : client'[d].pc = "ok" => done[client'[d].job] # "never"
    BY SMTT(30), <1>1, <1>12, <2>3, WaitSteps DEF Executes
  <2> QED
    BY <1>2, <2>1, <2>2, <2>4
<1>13. ASSUME NEW c \in Clients, NEW j \in Jobs, StageForClient(c, j) PROVE Executes'
  BY <1>4, <1>13 DEF StageForClient, KeepAnswers
<1>14. ASSUME NEW x \in Repos, NEW j \in Jobs, StageMissing(x, j) PROVE Executes'
  BY <1>4, <1>14 DEF StageMissing, KeepAnswers
<1>15. ASSUME NEW ok \in BOOLEAN, StageReply(ok), stage.pc # "idle",
              UNCHANGED <<agent, result, done, cut>>, requests' \subseteq requests \cup {stage.job}
       PROVE  Executes'
  <2>1. stage.job \in Jobs /\ Untouched(stage.job)
    BY <1>1, <1>15 DEF Shape, Used, Fresh
  <2>2. stage.job # agent.job /\ result[stage.job] = "none" /\ done[stage.job] = "never"
    BY <2>1 DEF Untouched
  <2>3. KeepAnswers
    BY <1>1, <1>15, ReplySteps DEF KeepAnswers
  <2>4. \A c \in Clients : client'[c].pc = "ok" => done[client'[c].job] # "never"
    BY <1>3, <2>3
  <2> QED
    BY <1>1, <1>15, <2>2, <2>4 DEF Executes
<1>16. CASE StageBundleFails \/ StageRequest \/ StageRequestFails
  BY <1>15, <1>16 DEF StageBundleFails, StageRequest, StageRequestFails, WriteRequest
<1>17. CASE Agent
  <2>1. UNCHANGED client
    BY <1>1, <1>17, AgentSteps
  <2>2. CASE Rests
    <3>1. agent'.job \notin Jobs /\ agent'.pc \in {"down", "scan", "idle"} /\ UNCHANGED <<requests, done>>
      BY <2>2, RestoreJobsAssumption DEF Rests
    <3>2. CASE agent.pc \in {"down", "scan", "idle", "result"} /\ UNCHANGED <<result, cut>>
      BY <1>1, <2>1, <3>1, <3>2 DEF Executes
    <3>3. CASE /\ agent.pc = "result" /\ UNCHANGED cut
               /\ result' = [result EXCEPT ![agent.job] = IF agent.ok THEN "ok" ELSE "err"]
      <4>1. \A j \in Jobs : j # agent.job => result'[j] = result[j]
        BY <1>1, <3>3 DEF TypeOK
      <4>2. agent.job \in Jobs /\ agent.job \notin requests
        BY <1>1, <3>3 DEF Shape, Used, Executes
      <4>3. result'[agent.job] = "ok" => done[agent.job] # "never"
        BY <1>1, <3>3, <4>2 DEF Executes, TypeOK
      <4> QED
        BY <1>1, <2>1, <3>1, <3>3, <4>1, <4>2, <4>3 DEF Executes
    <3>4. CASE /\ UNCHANGED result
               /\ cut' = IF agent.pc \in {"unbundle", "removing", "consume"} THEN cut \cup {agent.job} ELSE cut
      BY <1>1, <2>1, <3>1, <3>4 DEF Executes
    <3> QED
      BY <2>2, <3>2, <3>3, <3>4 DEF Rests
  <2>3. ASSUME NEW j \in requests, Takes(j) PROVE Executes'
    <3>1. j \in Jobs /\ result[j] = "none" /\ (done[j] = "never" \/ j \in cut)
      BY <1>1, <2>3 DEF TypeOK, Executes, Takes
    <3> QED
      BY <1>1, <2>1, <2>3, <3>1 DEF Takes, Executes
  <2>4. CASE Works
    <3>1. agent.job \in Jobs /\ agent'.job = agent.job /\ UNCHANGED <<result, cut>>
      BY <1>1, <2>4 DEF Works, Shape, Used
    <3>2. CASE /\ agent.pc \in {"verify", "fetch", "init", "unbundle", "remove", "removing"}
               /\ agent'.pc \in {"fetch", "init", "unbundle", "removing", "consume"}
               /\ agent'.pc = "consume" => ~agent'.ok
               /\ UNCHANGED <<requests, done>>
      BY <1>1, <2>1, <3>1, <3>2 DEF Executes
    <3>3. CASE /\ agent.pc \in {"unbundle", "removing"}
               /\ agent'.pc = "consume" /\ Done(agent.job) /\ UNCHANGED requests
      <4>1. \A j \in Jobs : j # agent.job => done'[j] = done[j]
        BY <1>1, <3>3 DEF Done, TypeOK
      <4>2. done'[agent.job] # "never" /\ (done'[agent.job] = "again" => agent.job \in cut)
        BY <1>1, <3>1, <3>3 DEF Done, TypeOK, Executes
      <4>3. \A c \in Clients : client'[c].pc = "ok" => done'[client'[c].job] # "never"
        BY <1>1, <2>1, <4>1, <4>2 DEF Executes, Handlers
      <4>4. ASSUME NEW j \in requests, j # agent.job PROVE done'[j] = "never" \/ j \in cut
        <5>1. j \in Jobs /\ agent.pc # "consume"
          BY <1>1, <3>3 DEF TypeOK
        <5>2. done[j] = "never" \/ j \in cut
          BY <1>1, <4>4, <5>1 DEF Executes
        <5> QED
          BY <4>1, <4>4, <5>1, <5>2
      <4>5. \A j \in Jobs : /\ result'[j] = "ok" => done'[j] # "never"
                            /\ done'[j] = "again" => j \in cut'
                            /\ result'[j] # "none" => j \notin requests'
        BY <1>1, <3>1, <3>3, <4>1, <4>2 DEF Executes
      <4>6. result'[agent'.job] = "none"
        BY <1>1, <3>1 DEF Executes
      <4> QED
        BY <3>1, <3>3, <4>2, <4>3, <4>4, <4>5, <4>6 DEF Executes
    <3>4. CASE /\ agent.pc = "consume" /\ agent'.pc = "result" /\ agent'.ok = agent.ok
               /\ requests' = requests \ {agent.job} /\ UNCHANGED done
      BY <1>1, <2>1, <3>1, <3>4 DEF Executes
    <3> QED
      BY <2>4, <3>2, <3>3, <3>4 DEF Works
  <2> QED
    BY <1>1, <1>17, <2>2, <2>3, <2>4, AgentSteps
<1> QED
  BY <1>5, <1>6, <1>7, <1>8, <1>9, <1>10, <1>11, <1>12, <1>13, <1>14, <1>16, <1>17 DEF Next, Serve

\* serve leaves the repositories, the agent and the histories alone, and adds to the jobs.
LEMMA ServeKeeps ==
  ASSUME Inv, Serve
  PROVE  /\ UNCHANGED <<repo, pushes, agent, todo, done, cut, half>>
         /\ \A j \in Jobs : job[j].op # "unused" => job'[j] = job[j]
         /\ agent.pc # "down" => requests' \subseteq requests \cup events' /\ events \subseteq events'
<1> USE DEF gitVars, fileVars, agentVars, serveVars, history
<1>1. TypeOK
  BY DEF Inv
<1>2. CASE ServeStart \/ SweepEnd \/ ServeUp \/ ServeCrash \/ StageBundle \/ StageBundleFails
  BY <1>2 DEF ServeStart, SweepEnd, ServeUp, ServeCrash, StageBundle, StageBundleFails
<1>3. CASE \E f \in sweep : SweepRemove(f)
  BY <1>3 DEF SweepRemove
<1>4. ASSUME NEW c \in Clients,
             (\E op \in {"restore", "delete"}, x \in Repos : ClientRequest(c, op, x))
               \/ ClientGone(c) \/ WaitResult(c) \/ WaitTimeout(c)
      PROVE  /\ UNCHANGED <<repo, pushes, agent, todo, events, done, cut, half, job>>
             /\ requests' \subseteq requests
  BY <1>4 DEF ClientRequest, ClientGone, WaitResult, WaitTimeout
<1>5. ASSUME NEW j \in Jobs, NEW op, NEW x, NEW c, StageBegin(j, op, x, c)
      PROVE  \A i \in Jobs : job[i].op # "unused" => job'[i] = job[i]
  BY <1>1, <1>5 DEF StageBegin, TypeOK
<1>6. ASSUME NEW c \in Clients, NEW j \in Jobs, StageForClient(c, j)
      PROVE  /\ UNCHANGED <<repo, pushes, agent, todo, events, done, cut, half, requests>>
             /\ \A i \in Jobs : job[i].op # "unused" => job'[i] = job[i]
  BY <1>5, <1>6 DEF StageForClient
<1>7. ASSUME NEW x \in Repos, NEW j \in Jobs, StageMissing(x, j)
      PROVE  /\ UNCHANGED <<repo, pushes, agent, todo, events, done, cut, half, requests>>
             /\ \A i \in Jobs : job[i].op # "unused" => job'[i] = job[i]
  BY <1>5, <1>7 DEF StageMissing
<1>8. CASE StageRequest \/ StageRequestFails
  BY <1>8 DEF StageRequest, StageRequestFails, WriteRequest
<1> QED
  BY <1>2, <1>3, <1>4, <1>6, <1>7, <1>8 DEF Serve

\* A push into the repository of a restore in progress is newer than what it has seen.
LEMMA NewerStep ==
  ASSUME Inv, Next
  PROVE  Newer'
<1> USE RestoreJobsAssumption DEF gitVars, fileVars, agentVars, serveVars, history
<1>1. TypeOK /\ Shape /\ Newer
  BY DEF Inv
<1>2. pushes \in Nat /\ agent.base \in Nat /\ \A x \in Repos : repo[x].tip \in Nat
  BY <1>1 DEF TypeOK, AgentType
<1>3. repo \in [Repos -> [st : {"none", "dir", "bare"}, tip : 0..MaxPush]]
  BY <1>1 DEF TypeOK
<1>4. agent.pc \in {"init", "unbundle"} => Target \in Repos /\ Used(agent.job)
  BY <1>1, TargetIs
<1>5. CASE Serve
  <2>1. agent.pc \in {"init", "unbundle"} => Target' = Target
    BY <1>4, <1>5, ServeKeeps DEF Used, Target
  <2> QED
    BY <1>1, <1>5, <2>1, ServeKeeps DEF Newer
<1>6. ASSUME NEW x \in Repos, PushMkdir(x) \/ PushInit(x) \/ PushDies(x) \/ Push(x) \/ Upload(x)
      PROVE  Newer'
  <2>1. UNCHANGED <<agent, job>> /\ Target' = Target
    BY <1>6 DEF PushMkdir, PushInit, PushDies, Push, Upload, Target
  <2>2. \A y \in Repos : y # x => repo'[y] = repo[y]
    BY <1>3, <1>6 DEF PushMkdir, PushInit, PushDies, Push, Upload
  <2>3. CASE PushMkdir(x) \/ PushInit(x) \/ PushDies(x) \/ Upload(x)
    <3>1. pushes' = pushes /\ (repo'[x] = repo[x] \/ repo'[x].tip = 0)
      BY <1>3, <2>3 DEF PushMkdir, PushInit, PushDies, Upload, Directory, Gone, Bare
    <3> QED
      BY <1>1, <1>4, <2>1, <2>2, <3>1 DEF Newer
  <2>4. CASE Push(x)
    <3>1. pushes' = pushes + 1 /\ repo'[x].tip = pushes + 1 /\ repo'[x].st = "bare"
      BY <1>3, <2>4 DEF Push
    <3>2. \A y \in Repos : repo'[y].st # "bare" => repo'[y].tip = 0
      BY <1>1, <2>2, <3>1 DEF Newer
    <3>3. agent.pc \in {"init", "unbundle"} =>
            agent.base <= pushes' /\ (repo'[Target].tip = 0 \/ repo'[Target].tip > agent.base)
      BY <1>1, <1>2, <1>4, <2>2, <3>1 DEF Newer
    <3> QED
      BY <2>1, <3>2, <3>3 DEF Newer
  <2> QED
    BY <1>6, <2>3, <2>4
<1>7. CASE Agent
  <2>1. pushes' = pushes /\ job' = job
    BY <1>7 DEF Agent, AgentRuns, AgentStart, AgentScan, AgentTake, AgentRefuse, AgentRemove, AgentRemoved,
         AgentRemoveFails, AgentVerify, AgentFetch, AgentInit, AgentInitFails, AgentUnbundle,
         AgentUnbundleFails, AgentConsume, AgentResult, AgentResultFails, AgentCrash
  <2>2. ASSUME agent'.pc \notin {"init", "unbundle"}, UNCHANGED repo PROVE Newer'
    BY <1>1, <2>2 DEF Newer
  <2>3. CASE AgentStart \/ AgentScan \/ AgentResult \/ AgentResultFails \/ AgentCrash
    BY <2>2, <2>3 DEF AgentStart, AgentScan, AgentResult, AgentResultFails, AgentCrash, IdleAgent, DownAgent
  <2>4. ASSUME NEW j \in Jobs, AgentTake(j) PROVE Newer'
    <3>1. agent'.pc \in {"idle", "verify", "remove", "consume"}
      BY <2>4 DEF AgentTake, Working, IdleAgent
    <3> QED
      BY <2>2, <2>4, <3>1 DEF AgentTake
  <2>5. CASE AgentRefuse \/ AgentRemoveFails \/ AgentVerify \/ AgentConsume
    <3>1. agent'.pc \in {"consume", "fetch", "result"}
      BY <1>1, <2>5 DEF AgentRefuse, AgentRemoveFails, AgentVerify, AgentConsume, Finish, TypeOK, AgentType
    <3> QED
      BY <2>2, <2>5, <3>1 DEF AgentRefuse, AgentRemoveFails, AgentVerify, AgentConsume
  <2>6. CASE AgentRemove \/ AgentRemoved \/ AgentInitFails \/ AgentUnbundleFails \/ AgentUnbundle
    <3>1. agent'.pc \in {"consume", "removing"}
      BY <1>1, <2>6 DEF AgentRemove, AgentRemoved, AgentInitFails, AgentUnbundleFails, AgentUnbundle, Finish,
           TypeOK, AgentType
    <3>2. \A y \in Repos : repo'[y] = repo[y] \/ repo'[y].tip = 0 \/ repo'[y].st = "bare"
      <4>1. ASSUME NEW v \in {Directory, Gone, Bare(agent.tip)}, repo' = [repo EXCEPT ![Target] = v]
            PROVE  \A y \in Repos : repo'[y] = repo[y] \/ repo'[y].tip = 0 \/ repo'[y].st = "bare"
        BY <1>3, <4>1 DEF Directory, Gone, Bare
      <4>2. CASE AgentInitFails
        BY <4>1, <4>2 DEF AgentInitFails
      <4> QED
        BY <2>6, <4>1, <4>2 DEF AgentRemove, AgentRemoved, AgentUnbundleFails, AgentUnbundle
    <3> QED
      BY <1>1, <3>1, <3>2 DEF Newer
  <2>7. CASE AgentFetch
    <3>1. agent'.pc = "init" /\ agent'.base = pushes /\ agent'.job = agent.job /\ UNCHANGED repo
      BY <1>1, <2>7 DEF AgentFetch, TypeOK, AgentType
    <3>2. Target' = Target /\ Target \in Repos
      BY <1>1, <2>1, <2>7, <3>1, TargetIs DEF Target, AgentFetch
    <3>3. repo[Target].tip = 0
      BY <1>1, <2>7, <3>2 DEF AgentFetch, Newer
    <3> QED
      BY <1>1, <1>2, <2>1, <3>1, <3>2, <3>3 DEF Newer
  <2>8. CASE AgentInit
    <3>1. agent'.pc = "unbundle" /\ agent'.base = agent.base /\ agent'.job = agent.job /\ agent.pc = "init"
      BY <1>1, <2>8 DEF AgentInit, TypeOK, AgentType
    <3>2. Target' = Target
      BY <2>1, <3>1 DEF Target
    <3>3. \A y \in Repos : repo'[y] = repo[y] \/ (repo'[y].tip = 0 /\ repo'[y].st = "bare")
      BY <1>3, <2>8 DEF AgentInit, Bare
    <3> QED
      BY <1>1, <1>4, <2>1, <3>1, <3>2, <3>3 DEF Newer
  <2> QED
    BY <1>7, <2>3, <2>4, <2>5, <2>6, <2>7, <2>8 DEF Agent, AgentRuns
<1> QED
  BY <1>5, <1>6, <1>7 DEF Next, Git

\* A running agent knows of every request: whoever writes one tells the watcher, the scan
\* takes those from before, and a job in hand is consumed before it is let go.
LEMMA MissedStep ==
  ASSUME Inv, Next
  PROVE  NoRequestMissed'
<1> USE RestoreJobsAssumption DEF gitVars, fileVars, agentVars, serveVars, history
<1>1. TypeOK /\ Shape /\ Executes /\ NoRequestMissed
  BY DEF Inv
<1>2. CASE Serve
  BY <1>1, <1>2, ServeKeeps DEF NoRequestMissed
<1>3. CASE Git
  BY <1>1, <1>3 DEF Git, PushMkdir, PushInit, PushDies, Push, Upload, NoRequestMissed
<1>4. CASE AgentStart \/ AgentScan \/ AgentCrash
  BY <1>4 DEF AgentStart, AgentScan, AgentCrash, NoRequestMissed, IdleAgent, DownAgent
<1>5. ASSUME NEW j \in Jobs, AgentTake(j) PROVE NoRequestMissed'
  <2>1. /\ agent.pc = "idle" /\ agent.job = None /\ requests' = requests /\ None \notin Jobs
        /\ todo' \cup events' \cup {j} = todo \cup events \cup {j}
        /\ requests \subseteq Jobs
    BY <1>1, <1>5 DEF AgentTake, Shape, TypeOK
  <2>2. j \in requests => agent'.job = j
    BY <1>5 DEF AgentTake, Working, IdleAgent
  <2>3. j \notin requests => agent' = agent
    BY <1>5 DEF AgentTake
  <2> QED
    BY <1>1, <2>1, <2>2, <2>3 DEF NoRequestMissed
<1>6. CASE AgentResult \/ AgentResultFails
  <2>1. agent.pc = "result" /\ UNCHANGED <<requests, todo, events>>
    BY <1>6 DEF AgentResult, AgentResultFails
  <2>2. requests \subseteq todo \cup events
    BY <1>1, <2>1 DEF Executes, NoRequestMissed
  <2> QED
    BY <2>1, <2>2 DEF NoRequestMissed
<1>7. CASE \/ AgentRefuse \/ AgentRemove \/ AgentRemoved \/ AgentRemoveFails \/ AgentVerify \/ AgentFetch
           \/ AgentInit \/ AgentInitFails \/ AgentUnbundle \/ AgentUnbundleFails \/ AgentConsume
  <2>1. agent'.job = agent.job /\ UNCHANGED <<todo, events>> /\ requests' \subseteq requests
    <3>1. UNCHANGED <<todo, events>> /\ requests' \subseteq requests
      BY <1>7 DEF AgentRefuse, AgentRemove, AgentRemoved, AgentRemoveFails, AgentVerify, AgentFetch,
           AgentInit, AgentInitFails, AgentUnbundle, AgentUnbundleFails, AgentConsume
    <3>2. CASE AgentRefuse \/ AgentRemoved \/ AgentRemoveFails \/ AgentInitFails \/ AgentUnbundle
               \/ AgentUnbundleFails
      <4>1. \E ok : Finish(ok)
        BY <3>2 DEF AgentRefuse, AgentRemoved, AgentRemoveFails, AgentInitFails, AgentUnbundle,
             AgentUnbundleFails
      <4>2. agent'.job = agent.job
        BY <1>1, <4>1 DEF Finish, TypeOK, AgentType
      <4> QED
        BY <3>1, <4>2
    <3>3. CASE AgentRemove \/ AgentVerify \/ AgentFetch \/ AgentInit \/ AgentConsume
      <4>1. agent'.job = agent.job
        BY <1>1, <3>3 DEF AgentRemove, AgentVerify, AgentFetch, AgentInit, AgentConsume, TypeOK, AgentType
      <4> QED
        BY <3>1, <4>1
    <3> QED
      BY <1>7, <3>2, <3>3
  <2>2. agent.pc \notin {"down", "scan"}
    BY <1>7 DEF AgentRefuse, AgentRemove, AgentRemoved, AgentRemoveFails, AgentVerify, AgentFetch,
         AgentInit, AgentInitFails, AgentUnbundle, AgentUnbundleFails, AgentConsume
  <2> QED
    BY <1>1, <2>1, <2>2 DEF NoRequestMissed
<1> QED
  BY <1>2, <1>3, <1>4, <1>5, <1>6, <1>7 DEF Next, Agent, AgentRuns

\* A repository that a restore inited is filled or removed by it, unless the agent dies.
LEMMA HalfStep ==
  ASSUME Inv, Next
  PROVE  HalfRestoredOnlyByCrash'
<1> USE RestoreJobsAssumption DEF gitVars, fileVars, agentVars, serveVars, history
<1> DEFINE Left(x) == \E j \in cut : job[j] = [op |-> "restore", repo |-> x]
<1>1. TypeOK /\ Shape /\ Fresh /\ HalfRestoredOnlyByCrash
  BY DEF Inv
<1>2. CASE Serve
  <2>1. UNCHANGED <<agent, cut, half>>
    BY <1>2, ServeKeeps
  <2>2. \A j \in cut : job'[j] = job[j]
    BY <1>1, <1>2, ServeKeeps DEF TypeOK, Fresh, Untouched
  <2>3. agent.pc = "unbundle" => Target' = Target
    <3>1. agent.pc = "unbundle" => Used(agent.job)
      BY <1>1 DEF Shape
    <3> QED
      BY <1>2, <2>1, <3>1, ServeKeeps DEF Used, Target
  <2> QED
    BY <1>1, <2>1, <2>2, <2>3 DEF HalfRestoredOnlyByCrash
<1>3. CASE Git
  <2>1. UNCHANGED <<agent, cut, job>> /\ Target' = Target /\ half' \subseteq half
    BY <1>3 DEF Git, PushMkdir, PushInit, PushDies, Push, Upload, Target
  <2> QED
    BY <1>1, <2>1 DEF HalfRestoredOnlyByCrash
<1>4. CASE Agent
  <2>1. job' = job /\ cut \subseteq cut'
    BY <1>4 DEF Agent, AgentRuns, AgentStart, AgentScan, AgentTake, AgentRefuse, AgentRemove, AgentRemoved,
         AgentRemoveFails, AgentVerify, AgentFetch, AgentInit, AgentInitFails, AgentUnbundle,
         AgentUnbundleFails, AgentConsume, AgentResult, AgentResultFails, AgentCrash
  <2>2. \A x : Left(x) => Left(x)'
    BY <2>1
  <2>3. ASSUME agent.pc # "unbundle", half' \subseteq half PROVE HalfRestoredOnlyByCrash'
    BY <1>1, <2>2, <2>3 DEF HalfRestoredOnlyByCrash
  <2>4. CASE AgentStart \/ AgentScan \/ AgentRefuse \/ AgentRemove \/ AgentRemoved \/ AgentRemoveFails
             \/ AgentVerify \/ AgentFetch \/ AgentInitFails \/ AgentConsume \/ AgentResult \/ AgentResultFails
    BY <2>3, <2>4 DEF AgentStart, AgentScan, AgentRefuse, AgentRemove, AgentRemoved, AgentRemoveFails,
         AgentVerify, AgentFetch, AgentInitFails, AgentConsume, AgentResult, AgentResultFails
  <2>5. ASSUME NEW j \in Jobs, AgentTake(j) PROVE HalfRestoredOnlyByCrash'
    BY <2>3, <2>5 DEF AgentTake
  <2>6. CASE AgentInit
    <3>1. agent.pc = "init" /\ agent'.pc = "unbundle" /\ agent'.job = agent.job /\ half' \subseteq half \cup {Target}
      BY <1>1, <2>6 DEF AgentInit, TypeOK, AgentType
    <3>2. Target' = Target
      BY <2>1, <3>1 DEF Target
    <3> QED
      BY <1>1, <2>2, <3>1, <3>2 DEF HalfRestoredOnlyByCrash
  <2>7. CASE AgentUnbundle \/ AgentUnbundleFails
    BY <1>1, <2>2, <2>7 DEF AgentUnbundle, AgentUnbundleFails, HalfRestoredOnlyByCrash
  <2>8. CASE AgentCrash
    <3>1. CASE agent.pc # "unbundle"
      BY <2>3, <2>8, <3>1 DEF AgentCrash
    <3>2. CASE agent.pc = "unbundle"
      <4>1. agent.job \in cut' /\ half' = half
        BY <2>8, <3>2 DEF AgentCrash
      <4>2. Used(agent.job) /\ job[agent.job].op = "restore"
        BY <1>1, <3>2 DEF Shape
      <4>3. job[agent.job] = [op |-> "restore", repo |-> Target]
        BY <1>1, <4>2 DEF Used, Target, TypeOK
      <4> QED
        BY <1>1, <2>2, <4>1, <4>3, <2>1 DEF HalfRestoredOnlyByCrash
    <3> QED
      BY <3>1, <3>2
  <2> QED
    BY <1>4, <2>4, <2>5, <2>6, <2>7, <2>8 DEF Agent, AgentRuns
<1> QED
  BY <1>2, <1>3, <1>4 DEF Next

\* The invariant is inductive.
LEMMA InvStep ==
  ASSUME Inv, [Next]_vars
  PROVE  Inv'
<1>1. CASE UNCHANGED vars
  <2> USE <1>1 DEF Inv, vars, gitVars, fileVars, agentVars, serveVars, history
  <2>1. TypeOK' /\ Shape'
    BY DEF TypeOK, Shape, Used
  <2>2. Fresh' /\ Staged'
    BY DEF Fresh, Untouched, Staged
  <2>4. Handlers'
    BY DEF Handlers
  <2>3. Executes' /\ Newer' /\ NoRequestMissed' /\ HalfRestoredOnlyByCrash'
    BY DEF Executes, ProcessedNotRetriggered, AgainOnlyAfterCrash, Newer, Target, NoRequestMissed,
         HalfRestoredOnlyByCrash
  <2> QED
    BY <2>1, <2>2, <2>3, <2>4
<1>2. CASE Next
  <2>1. TypeOK'
    BY <1>2, TypeGit, TypeServe, TypeAgent DEF Inv, Next
  <2> QED
    BY <1>2, <2>1, ShapeStep, FreshStep, StagedStep, HandlersStep, ExecutesStep, NewerStep, MissedStep,
       HalfStep DEF Inv
<1> QED
  BY <1>1, <1>2

\* No behaviour leaves the invariant.
THEOREM Invariant == Spec => []Inv
<1>1. Inv /\ [Next]_vars => Inv'
  BY InvStep
<1> QED
  BY <1>1, InvInit, PTL DEF Spec

-----------------------------------------------------------------------------
(* What the clients and the repositories can rely on *)

\* The variables of the restore spool keep their types.
THEOREM TypeCorrect == Spec => []TypeOK
<1>1. Inv => TypeOK
  BY DEF Inv
<1> QED
  BY <1>1, Invariant, PTL

\* For any number of clients, jobs, repositories and crashes, a handler answers 200 only
\* if the agent carried out what this client asked for.
THEOREM Acknowledged == Spec => []AckMeansDone
<1>1. Inv => AckMeansDone
  BY DEF Inv, Handlers, Executes, AckMeansDone
<1> QED
  BY <1>1, Invariant, PTL

\* No scan and no event finds the request of a job that has a result.
THEOREM NotRetriggered == Spec => []ProcessedNotRetriggered
<1>1. Inv => ProcessedNotRetriggered
  BY DEF Inv, Executes
<1> QED
  BY <1>1, Invariant, PTL

\* A job takes effect again only if the agent died in its first run, before finish had
\* removed the request.
THEOREM RunsAgain == Spec => []AgainOnlyAfterCrash
<1>1. Inv => AgainOnlyAfterCrash
  BY DEF Inv, Executes
<1> QED
  BY <1>1, Invariant, PTL

\* A running agent knows of every request in the spool that it is not done with.
THEOREM Watched == Spec => []NoRequestMissed
<1>1. Inv => NoRequestMissed
  BY DEF Inv
<1> QED
  BY <1>1, Invariant, PTL

\* An empty repository that a restore left is the work of a crash of the agent.
THEOREM CleanedUp == Spec => []HalfRestoredOnlyByCrash
<1>1. Inv => HalfRestoredOnlyByCrash
  BY DEF Inv
<1> QED
  BY <1>1, Invariant, PTL

\* While a handler waits, its request is taken by the agent that executes it and its
\* result by nobody: a sweep runs before the handlers, each handler cleans up its own job,
\* and the agent answers a job that has no answer.
LEMMA InFlightStep ==
  ASSUME Inv, Next, NEW c \in Clients, client[c].pc = "waiting", client'[c].pc = "waiting"
  PROVE  /\ client[c].job \in requests \ requests' =>
              agent.pc = "consume" /\ agent.job = client[c].job
         /\ result[client[c].job] # "none" => result'[client[c].job] = result[client[c].job]
<1> USE RestoreJobsAssumption DEF gitVars, fileVars, agentVars, serveVars, history
<1> DEFINE j == client[c].job
<1>1. TypeOK /\ Shape /\ Handlers /\ Executes
  BY DEF Inv
<1>2. serve = "up" /\ j \in Jobs
  BY <1>1 DEF Handlers
<1>3. ASSUME requests \subseteq requests', result' = result
      PROVE  (j \in requests \ requests' => agent.pc = "consume" /\ agent.job = j)
               /\ (result[j] # "none" => result'[j] = result[j])
  BY <1>3
<1>4. CASE Git
  BY <1>3, <1>4 DEF Git, PushMkdir, PushInit, PushDies, Push, Upload
<1>5. ASSUME NEW d \in Clients, WaitResult(d)
      PROVE  j \notin requests \ requests' /\ result'[j] = result[j]
  <2>1. d # c
    BY <1>1, <1>5 DEF WaitResult, TypeOK, ClientType, Failed
  <2>2. client[d].job # j
    BY <1>1, <1>5, <2>1 DEF WaitResult, Handlers
  <2> QED
    BY <1>1, <1>2, <1>5, <2>2 DEF WaitResult, TypeOK
<1>6. CASE Serve /\ ~\E d \in Clients : WaitResult(d)
  <2>1. CASE ServeStart \/ SweepEnd \/ ServeUp \/ ServeCrash \/ StageBundle \/ StageBundleFails
             \/ StageRequest \/ StageRequestFails
    BY <1>3, <2>1 DEF ServeStart, SweepEnd, ServeUp, ServeCrash, StageBundle, StageBundleFails, StageRequest,
         StageRequestFails, WriteRequest
  <2>2. ASSUME NEW f \in sweep, SweepRemove(f) PROVE FALSE
    BY <1>2, <2>2 DEF SweepRemove
  <2>3. ASSUME NEW d \in Clients,
               (\E op \in {"restore", "delete"}, x \in Repos : ClientRequest(d, op, x))
                 \/ ClientGone(d) \/ (\E i \in Jobs : StageForClient(d, i)) \/ WaitTimeout(d)
        PROVE  UNCHANGED <<requests, result>>
    BY <2>3 DEF ClientRequest, ClientGone, StageForClient, WaitTimeout
  <2>4. ASSUME NEW x \in Repos, NEW i \in Jobs, StageMissing(x, i) PROVE UNCHANGED <<requests, result>>
    BY <2>4 DEF StageMissing
  <2> QED
    BY <1>3, <1>6, <2>1, <2>2, <2>3, <2>4 DEF Serve
<1>7. CASE AgentConsume
  BY <1>1, <1>7 DEF AgentConsume
<1>8. CASE AgentResult
  <2>1. agent.job \in Jobs
    BY <1>1, <1>8 DEF AgentResult, Shape, Used
  <2> QED
    BY <1>1, <1>2, <1>8, <2>1 DEF AgentResult, Executes, TypeOK
<1>9. CASE Agent /\ ~AgentConsume /\ ~AgentResult
  BY <1>3, <1>9 DEF Agent, AgentRuns, AgentStart, AgentScan, AgentTake, AgentRefuse, AgentRemove,
       AgentRemoved, AgentRemoveFails, AgentVerify, AgentFetch, AgentInit, AgentInitFails, AgentUnbundle,
       AgentUnbundleFails, AgentResultFails, AgentCrash
<1> QED
  BY <1>4, <1>5, <1>6, <1>7, <1>8, <1>9 DEF Next

\* The sweep and the other handlers never touch a job that a handler waits for.
THEOREM LeftAlone == Spec => InFlightLeftAlone
<1> DEFINE Alone == \A c \in Clients : client[c].pc = "waiting" /\ client'[c].pc = "waiting" =>
                      LET j == client[c].job
                      IN  /\ j \in requests \ requests' => agent.pc = "consume" /\ agent.job = j
                          /\ result[j] # "none" => result'[j] = result[j]
<1>1. Inv /\ [Next]_vars => [Alone]_vars
  <2> SUFFICES ASSUME Inv, Next PROVE Alone
    OBVIOUS
  <2> QED
    BY InFlightStep
<1>2. Spec => [][Alone]_vars
  BY <1>1, Invariant, PTL DEF Spec
<1> QED
  BY <1>2 DEF InFlightLeftAlone

\* The tip of a branch is lost to the job of the agent alone, which is a delete or a
\* restore that looked before the push: git init and Mkdir meet no branch.
LEMMA KeptStep ==
  ASSUME Inv, Next, NEW x \in Repos, repo[x].tip # 0, repo'[x].tip # repo[x].tip, pushes' = pushes
  PROVE  Target = x /\ (job[agent.job].op = "delete" \/ repo[x].tip > agent.base)
<1> USE RestoreJobsAssumption DEF gitVars, fileVars, agentVars, serveVars, history
<1>1. TypeOK /\ Shape /\ Newer
  BY DEF Inv
<1>2. repo[x].st = "bare" /\ pushes \in Nat
  <2>1. repo[x].st = "bare"
    BY <1>1 DEF Newer
  <2>2. pushes \in Nat
    BY <1>1 DEF TypeOK
  <2> QED
    BY <2>1, <2>2
<1>3. repo \in [Repos -> [st : {"none", "dir", "bare"}, tip : 0..MaxPush]]
  BY <1>1 DEF TypeOK
<1>4. CASE Serve
  BY <1>4, ServeKeeps
<1>5. CASE Git
  BY <1>2, <1>3, <1>5 DEF Git, PushMkdir, PushInit, PushDies, Push, Upload
<1>6. CASE AgentRemove \/ AgentRemoved
  <2>1. Target = x
    BY <1>3, <1>6 DEF AgentRemove, AgentRemoved
  <2> QED
    BY <1>1, <1>6, <2>1 DEF AgentRemove, AgentRemoved, Shape
<1>7. CASE AgentUnbundle \/ AgentUnbundleFails
  <2>1. Target = x
    BY <1>3, <1>7 DEF AgentUnbundle, AgentUnbundleFails
  <2> QED
    BY <1>1, <1>7, <2>1 DEF AgentUnbundle, AgentUnbundleFails, Newer
<1>8. CASE AgentInit \/ AgentInitFails
  BY <1>2, <1>3, <1>8 DEF AgentInit, AgentInitFails
<1>9. CASE AgentStart \/ AgentScan \/ (\E j \in Jobs : AgentTake(j)) \/ AgentRefuse \/ AgentRemoveFails
           \/ AgentVerify \/ AgentFetch \/ AgentConsume \/ AgentResult \/ AgentResultFails \/ AgentCrash
  BY <1>9 DEF AgentStart, AgentScan, AgentTake, AgentRefuse, AgentRemoveFails, AgentVerify, AgentFetch,
       AgentConsume, AgentResult, AgentResultFails, AgentCrash
<1> QED
  BY <1>4, <1>5, <1>6, <1>7, <1>8, <1>9 DEF Next, Agent, AgentRuns

\* What was pushed is lost to a delete, or to a restore that had begun before the push.
THEOREM Kept == Spec => PushedIsKept
<1> DEFINE Keeps == \A x \in Repos : LET lost == repo[x].tip
                      IN  lost # 0 /\ repo'[x].tip # lost /\ pushes' = pushes =>
                            /\ Target = x
                            /\ \/ job[agent.job].op = "delete"
                               \/ lost > agent.base
<1>1. Inv /\ [Next]_vars => [Keeps]_vars
  <2> SUFFICES ASSUME Inv, Next PROVE Keeps
    OBVIOUS
  <2> QED
    BY KeptStep
<1>2. Spec => [][Keeps]_vars
  BY <1>1, Invariant, PTL DEF Spec
<1> QED
  BY <1>2 DEF PushedIsKept
==============================================================================
