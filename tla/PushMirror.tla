------------------------------ MODULE PushMirror ------------------------------
(***************************************************************************)
(* A push to one repository, from the SSH gateway to the bundle in the     *)
(* object store: disk check and push-to-create, git-receive-pack with the  *)
(* pre-receive policies, notify (post-receive), /v1/bundle through serve's *)
(* worker with its retries, and `gitd mirror delete`.                      *)
(*                                                                         *)
(* The refs change one by one; version counts the changes, and a bundle or *)
(* a push stands for the version it was made at.  git itself, the object   *)
(* store and the hook directory are external.                              *)
(***************************************************************************)
EXTENDS Naturals, Sequences, Functions

CONSTANTS
  Pushers,      \* one push each
  Refs,         \* branches of the repository
  Guarded,      \* branches the non-fast-forward policy guards
  Commits,      \* commit ids
  Ancestor,     \* pairs <<a, b>>: a is an ancestor of b
  Zero,         \* the all-zero id: no such ref
  NoPush,
  Buffer,       \* capacity of the actions channel
  Retries,      \* bundle attempts after the first
  Hooks         \* is the hook shim directory there?

ASSUME PushMirrorAssumption ==
  /\ Guarded \subseteq Refs
  /\ Ancestor \subseteq Commits \X Commits
  /\ Zero \notin Commits
  /\ NoPush \notin Pushers
  /\ Buffer \in Nat
  /\ Retries \in Nat
  /\ Hooks \in BOOLEAN

VARIABLES
  dir,       \* the repository's directory: "absent", "made", "bare"
  refs,      \* ref -> commit or Zero
  version,   \* number of ref changes
  push,      \* pusher -> progress of its push
  queue,     \* bundle actions in serve's channel
  worker,    \* the bundle action in execution
  done,      \* pusher -> result of its bundle action
  store,     \* bundles in the object store
  clock,     \* the next time stamp: the clock does not step back
  delete,    \* keys `gitd mirror delete` has listed and not removed yet
  removed    \* history: bundles it removed

vars == <<dir, refs, version, push, queue, worker, done, store,
          clock, delete, removed>>

mirror == <<queue, worker, done, store, clock, delete, removed>>

NewPush == [pc |-> "new", old |-> [r \in Refs |-> Zero], new |-> [r \in Refs |-> Zero],
            todo |-> {}, ver |-> 0]

IdleWorker == [pc |-> "idle", for |-> NoPush, tries |-> 0, ver |-> 0]

Init ==
  /\ dir = "absent"
  /\ refs = [r \in Refs |-> Zero]
  /\ version = 0
  /\ push = [p \in Pushers |-> NewPush]
  /\ queue = <<>>
  /\ worker = IdleWorker
  /\ done = [p \in Pushers |-> "none"]
  /\ store = {}
  /\ clock = 1
  /\ delete = {}
  /\ removed = {}

At(p, pc) == push[p].pc = pc

Goto(p, pc) == push' = [push EXCEPT ![p].pc = pc]

-----------------------------------------------------------------------------
(* The gateway *)

\* The disk check and pushToCreate's Mkdir.  A directory that is there is used
\* if it is bare.
PushStart(p) ==
  /\ At(p, "new")
  /\ dir' = IF dir = "absent" THEN "made" ELSE dir
  /\ Goto(p, CASE dir = "absent" -> "init" [] dir = "bare" -> "receive" [] OTHER -> "refused")
  /\ UNCHANGED <<refs, version>> /\ UNCHANGED mirror

\* git init --bare and the description file.
PushInit(p) ==
  /\ At(p, "init")
  /\ dir' = "bare"
  /\ Goto(p, "hooks")
  /\ UNCHANGED <<refs, version>> /\ UNCHANGED mirror

\* verifyHooks
VerifyHooks(p) ==
  /\ At(p, "hooks")
  /\ Goto(p, IF Hooks THEN "receive" ELSE "refused")
  /\ UNCHANGED <<dir, refs, version>> /\ UNCHANGED mirror

\* Low disk space, a failing command, or the end of the SSH session.
PushFails(p) ==
  /\ push[p].pc \in {"new", "init", "hooks", "receive", "preReceive"}
  /\ Goto(p, "refused")
  /\ UNCHANGED <<dir, refs, version>> /\ UNCHANGED mirror

-----------------------------------------------------------------------------
(* git-receive-pack (external) and the pre-receive hook *)

\* The client has read the refs and proposes to move some of them.
ReceivePack(p) ==
  /\ At(p, "receive")
  /\ \E new \in [Refs -> Commits \cup {Zero}] :
       /\ new # refs
       /\ push' = [push EXCEPT ![p] =
            [@ EXCEPT !.pc = IF Hooks THEN "preReceive" ELSE "update", !.old = refs,
                      !.new = new, !.todo = {r \in Refs : new[r] # refs[r]}]]
  /\ UNCHANGED <<dir, refs, version>> /\ UNCHANGED mirror

\* Mutant of Evaluate: the ends of the ancestor test are swapped.
EvaluateSwapped(r, old, new) ==
  old = Zero \/ new = Zero \/ r \notin Guarded \/ <<new, old>> \in Ancestor

\* The non-fast-forward policy on one line: creations, deletions and other refs
\* pass.
Evaluate(r, old, new) ==
  old = Zero \/ new = Zero \/ r \notin Guarded \/ <<old, new>> \in Ancestor

\* PolicyEngine.Evaluate: one rejected line rejects the push.
EngineEvaluate(lines) == \A r \in lines.todo : Evaluate(r, lines.old[r], lines.new[r])

PreReceive(p) ==
  /\ At(p, "preReceive")
  /\ Goto(p, IF EngineEvaluate(push[p]) THEN "update" ELSE "refused")
  /\ UNCHANGED <<dir, refs, version>> /\ UNCHANGED mirror

\* git moves one ref if it still has its old value; the others go on.
UpdateRef(p) ==
  /\ At(p, "update")
  /\ \E r \in push[p].todo :
       IF refs[r] = push[p].old[r]
       THEN /\ refs' = [refs EXCEPT ![r] = push[p].new[r]]
            /\ version' = version + 1
            /\ push' = [push EXCEPT ![p] =
                 [push[p] EXCEPT !.todo = push[p].todo \ {r}, !.ver = version + 1]]
       ELSE /\ push' = [push EXCEPT ![p].todo = @ \ {r}]
            /\ UNCHANGED <<refs, version>>
  /\ UNCHANGED dir /\ UNCHANGED mirror

\* post-receive runs if some ref moved and the hooks are there.
PostReceive(p) ==
  /\ At(p, "update")
  /\ push[p].todo = {}
  /\ Goto(p, IF push[p].ver > 0 /\ Hooks THEN "notify" ELSE "end")
  /\ UNCHANGED <<dir, refs, version>> /\ UNCHANGED mirror

-----------------------------------------------------------------------------
(* notify and /v1/bundle *)

\* notify spools an event per line and posts to /v1/bundle; submit queues the
\* action.
Submit(p) ==
  /\ At(p, "notify")
  /\ Len(queue) < Buffer
  /\ queue' = Append(queue, p)
  /\ Goto(p, "wait")
  /\ UNCHANGED <<dir, refs, version, worker, done, store, clock, delete, removed>>

\* The spool write fails, serve is down or busy, the request times out, or
\* notify dies: the action, if queued, stays so.
NotifyFails(p) ==
  /\ push[p].pc \in {"notify", "wait"}
  /\ Goto(p, "failed")
  /\ UNCHANGED <<dir, refs, version>> /\ UNCHANGED mirror

\* Mutant of NotifyReply: a failed upload is taken for a zero-ref repository.
NotifyReplyAny(p) ==
  /\ At(p, "wait")
  /\ done[p] # "none"
  /\ Goto(p, "acked")
  /\ UNCHANGED <<dir, refs, version>> /\ UNCHANGED mirror

\* The reply of handleBundle; then the sync deliveries, which may fail.
NotifyReply(p) ==
  /\ At(p, "wait")
  /\ done[p] # "none"
  /\ \/ done[p] # "failed" /\ Goto(p, "acked")
     \/ Goto(p, "failed")
  /\ UNCHANGED <<dir, refs, version>> /\ UNCHANGED mirror

\* The worker takes the next bundle action.
BundleBegin ==
  /\ worker.pc = "idle"
  /\ queue # <<>>
  /\ worker' = [IdleWorker EXCEPT !.pc = "refs", !.for = Head(queue)]
  /\ queue' = Tail(queue)
  /\ UNCHANGED <<dir, refs, version, push, done, store, clock, delete, removed>>

Finish(result) ==
  /\ done' = [done EXCEPT ![worker.for] = result]
  /\ worker' = IdleWorker

\* Mutant of BundleRefs: a missing branch is taken for a repository without refs.
BundleRefsMissing ==
  /\ worker.pc = "refs"
  /\ IF \E r \in Refs : refs[r] = Zero
     THEN Finish("no refs")
     ELSE worker' = [worker EXCEPT !.pc = "bundle"] /\ UNCHANGED done
  /\ UNCHANGED <<dir, refs, version, push, queue, store, clock, delete, removed>>

\* CreateBundle: for-each-ref.  A repository without refs has nothing to bundle.
BundleRefs ==
  /\ worker.pc = "refs"
  /\ IF \A r \in Refs : refs[r] = Zero
     THEN Finish("no refs")
     ELSE worker' = [worker EXCEPT !.pc = "bundle"] /\ UNCHANGED done
  /\ UNCHANGED <<dir, refs, version, push, queue, store, clock, delete, removed>>

\* git bundle create --all; it refuses when the last ref is gone by now.
BundleCreate ==
  /\ worker.pc = "bundle"
  /\ \E r \in Refs : refs[r] # Zero
  /\ worker' = [worker EXCEPT !.pc = "put", !.ver = version]
  /\ UNCHANGED <<dir, refs, version, push, queue, done, store, clock, delete, removed>>

\* bundleKey and Put: the key carries the time after the bundle was made.
Put ==
  /\ store' = store \cup {[key |-> clock, ver |-> worker.ver]}
  /\ clock' = clock + 1

BundlePut ==
  /\ worker.pc = "put"
  /\ Put
  /\ Finish("uploaded")
  /\ UNCHANGED <<dir, refs, version, push, queue, delete, removed>>

\* An attempt fails: bundleAction tries again, up to its budget.  A Put that
\* reports an error may have stored the bundle.
BundleFails ==
  /\ worker.pc \in {"refs", "bundle", "put"}
  /\ IF worker.tries < Retries
     THEN /\ worker' = [worker EXCEPT !.pc = "refs", !.tries = @ + 1]
          /\ UNCHANGED done
     ELSE Finish("failed")
  /\ \/ UNCHANGED <<store, clock>>
     \/ worker.pc = "put" /\ Put
  /\ UNCHANGED <<dir, refs, version, push, queue, delete, removed>>

\* serve dies and starts again: the queue and the waiting requests are gone.
ServeCrash ==
  /\ queue # <<>> \/ worker.pc # "idle"
  /\ queue' = <<>>
  /\ worker' = IdleWorker
  /\ push' = [p \in Pushers |-> IF At(p, "wait") THEN [push[p] EXCEPT !.pc = "failed"] ELSE push[p]]
  /\ done' = [p \in Pushers |-> IF p \in Range(queue) \cup {worker.for} THEN "lost" ELSE done[p]]
  /\ UNCHANGED <<dir, refs, version, store, clock, delete, removed>>

-----------------------------------------------------------------------------
(* gitd mirror delete *)

DeleteList ==
  /\ delete = {}
  /\ store # {}
  /\ delete' = {b.key : b \in store}
  /\ UNCHANGED <<dir, refs, version, push, queue, worker, done, store, clock, removed>>

RemoveKey(k) ==
  /\ store' = {b \in store : b.key # k}
  /\ removed' = removed \cup {b \in store : b.key = k}
  /\ delete' = delete \ {k}
  /\ UNCHANGED <<dir, refs, version, push, queue, worker, done, clock>>

\* Mutant of DeleteNext: the newest bundle goes first.
DeleteNewestFirst == \E k \in delete : (\A l \in delete : l <= k) /\ RemoveKey(k)

\* Mirror.Delete removes the keys in List's order, the oldest first.
DeleteNext == \E k \in delete : (\A l \in delete : k <= l) /\ RemoveKey(k)

\* An error or the death of the command ends it.
DeleteFails ==
  /\ delete # {}
  /\ delete' = {}
  /\ UNCHANGED <<dir, refs, version, push, queue, worker, done, store, clock, removed>>

-----------------------------------------------------------------------------

Worker == BundleBegin \/ BundleRefs \/ BundleCreate \/ BundlePut \/ BundleFails

Next ==
  \/ \E p \in Pushers :
       \/ PushStart(p) \/ PushInit(p) \/ VerifyHooks(p) \/ PushFails(p)
       \/ ReceivePack(p) \/ PreReceive(p) \/ UpdateRef(p) \/ PostReceive(p)
       \/ Submit(p) \/ NotifyFails(p) \/ NotifyReply(p)
  \/ Worker \/ ServeCrash
  \/ DeleteList \/ DeleteNext \/ DeleteFails

Spec == Init /\ [][Next]_vars

-----------------------------------------------------------------------------
(* Properties *)

Commit == Commits \cup {Zero}

Bundle == [key : Nat, ver : Nat]

PushType ==
  [pc : {"new", "init", "hooks", "receive", "preReceive", "update", "notify", "wait",
         "refused", "end", "failed", "acked"},
   old : [Refs -> Commit], new : [Refs -> Commit], todo : SUBSET Refs, ver : 0..version]

WorkerType == [pc : {"idle", "refs", "bundle", "put"}, for : Pushers \cup {NoPush},
               tries : 0..Retries, ver : 0..version]

\* The variables keep their types, and the channel its capacity.
TypeOK ==
  /\ dir \in {"absent", "made", "bare"}
  /\ refs \in [Refs -> Commit] /\ version \in Nat
  /\ push \in [Pushers -> PushType]
  /\ queue \in Seq(Pushers) /\ Len(queue) <= Buffer
  /\ worker \in WorkerType
  /\ done \in [Pushers -> {"none", "uploaded", "no refs", "failed", "lost"}]
  /\ store \subseteq Bundle /\ removed \subseteq Bundle
  /\ clock \in Nat \ {0} /\ delete \subseteq Nat

\* The last of List's keys: the bundle that a restore takes.
IsLatest(b, bundles) == b \in bundles /\ \A c \in bundles : c.key <= b.key

\* A push whose notify exits 0 is in the bundle that a restore would take, or
\* in one that `gitd mirror delete` removed, unless the repository had no refs.
AckMeansMirrored ==
  \A p \in Pushers : At(p, "acked") /\ done[p] # "no refs" =>
    \/ store # {} /\ \A b \in store : IsLatest(b, store) => b.ver >= push[p].ver
    \/ \E b \in removed : b.ver >= push[p].ver

\* A push that is acknowledged without an upload left the repository without refs,
\* or another push has moved a ref after it: as long as nobody else pushes, nothing
\* is missing from the mirror but the deletion itself (CreateBundle: reason "no refs").
NoRefsMeansEmptied ==
  \A p \in Pushers : done[p] = "no refs" =>
    version > push[p].ver \/ \A r \in Refs : refs[r] = Zero

\* The state that a restore would bring back is never replaced by an older one:
\* not by retries, not by uploads that race with `gitd mirror delete`, not by a
\* deletion that stops half way (bundleAction: "the last-executed bundle is the
\* newest repo state").
MirrorNeverGoesBack ==
  [][\A b \in store, c \in store' :
       IsLatest(b, store) /\ IsLatest(c, store') => c.ver >= b.ver]_vars

\* A guarded branch moves only to a descendant of the commit it points to, also
\* when several pushes are between their policy check and their ref update.
GuardedFastForward ==
  [][\A r \in Guarded : refs[r] # Zero /\ refs'[r] \notin {Zero, refs[r]}
       => <<refs[r], refs'[r]>> \in Ancestor]_vars
==============================================================================
