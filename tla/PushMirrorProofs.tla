--------------------------- MODULE PushMirrorProofs ---------------------------
(***************************************************************************)
(* For any number of pushes, retries and refs: an acknowledged push is in  *)
(* the mirror, the mirror never goes back, and a guarded branch only moves *)
(* forward.                                                                *)
(***************************************************************************)
EXTENDS PushMirror, TLAPS

\* Records of the worker and of a push with some fields replaced.
LEMMA WorkerUpdate ==
  ASSUME NEW A, NEW B, NEW C, NEW D, NEW w \in [pc : A, for : B, tries : C, ver : D],
         NEW a \in A, NEW c \in C, NEW d \in D
  PROVE  /\ [w EXCEPT !.pc = a, !.ver = d] \in [pc : A, for : B, tries : C, ver : D]
         /\ [w EXCEPT !.pc = a, !.tries = c] \in [pc : A, for : B, tries : C, ver : D]
OBVIOUS

\* The same for a push.
LEMMA PushUpdate ==
  ASSUME NEW A, NEW B, NEW C, NEW D, NEW E,
         NEW q \in [pc : A, old : B, new : C, todo : D, ver : E],
         NEW a \in A, NEW b \in B, NEW c \in C, NEW d \in D, NEW e \in E
  PROVE  /\ [q EXCEPT !.pc = a, !.old = b, !.new = c, !.todo = d]
              \in [pc : A, old : B, new : C, todo : D, ver : E]
         /\ [q EXCEPT !.todo = d, !.ver = e] \in [pc : A, old : B, new : C, todo : D, ver : E]
OBVIOUS

\* The initial state has its types.
LEMMA TypeInit == Init => TypeOK
<1> SUFFICES ASSUME Init PROVE TypeOK
  OBVIOUS
<1>1. refs \in [Refs -> Commit] /\ NewPush.old \in [Refs -> Commit]
      /\ NewPush.new \in [Refs -> Commit]
  BY DEF Init, Commit, NewPush
<1>2. push \in [Pushers -> PushType]
  BY <1>1 DEF Init, NewPush, PushType
<1>3. worker \in WorkerType
  BY PushMirrorAssumption DEF Init, IdleWorker, WorkerType
<1>4. queue \in Seq(Pushers) /\ Len(queue) <= Buffer
  BY PushMirrorAssumption DEF Init
<1>5. version \in Nat /\ clock \in Nat \ {0}
  BY DEF Init
<1>6. done \in [Pushers -> {"none", "uploaded", "no refs", "failed", "lost"}]
  BY DEF Init
<1>7. dir \in {"absent", "made", "bare"}
  BY DEF Init
<1>8. store \subseteq Bundle /\ removed \subseteq Bundle /\ delete \subseteq Nat
  BY DEF Init
<1> QED
  BY <1>1, <1>2, <1>3, <1>4, <1>5, <1>6, <1>7, <1>8 DEF TypeOK

\* A step that only moves a push to another position keeps its type.
LEMMA GotoType ==
  ASSUME TypeOK, NEW p \in Pushers,
         NEW pc \in {"new", "init", "hooks", "receive", "preReceive", "update",
                     "notify", "wait", "refused", "end", "failed", "acked"},
         Goto(p, pc)
  PROVE  push' \in [Pushers -> PushType]
<1>1. push[p] \in PushType
  BY DEF TypeOK
<1>2. [push[p] EXCEPT !.pc = pc] \in PushType
  BY <1>1 DEF PushType
<1> QED
  BY <1>2 DEF TypeOK, Goto

\* A step that leaves the version as it is keeps TypeOK if it keeps the types
\* of what it changes.
LEMMA TypeKept ==
  ASSUME TypeOK, version' = version, refs' \in [Refs -> Commit],
         dir' \in {"absent", "made", "bare"},
         push' \in [Pushers -> PushType], worker' \in WorkerType,
         queue' \in Seq(Pushers), Len(queue') <= Buffer,
         done' \in [Pushers -> {"none", "uploaded", "no refs", "failed", "lost"}],
         store' \subseteq Bundle, removed' \subseteq Bundle,
         clock' \in Nat \ {0}, delete' \subseteq Nat
  PROVE  TypeOK'
<1>1. PushType' = PushType /\ WorkerType' = WorkerType
  BY DEF PushType, WorkerType
<1> QED
  BY <1>1 DEF TypeOK

\* Every step of the gateway, git, notify, the worker and mirror delete keeps
\* TypeOK.
LEMMA TypeStep == TypeOK /\ [Next]_vars => TypeOK'
<1> SUFFICES ASSUME TypeOK, [Next]_vars PROVE TypeOK'
  OBVIOUS
<1>0. /\ dir \in {"absent", "made", "bare"}
      /\ refs \in [Refs -> Commit] /\ version \in Nat
      /\ push \in [Pushers -> PushType] /\ worker \in WorkerType
      /\ queue \in Seq(Pushers) /\ Len(queue) <= Buffer
      /\ done \in [Pushers -> {"none", "uploaded", "no refs", "failed", "lost"}]
      /\ store \subseteq Bundle /\ removed \subseteq Bundle
      /\ clock \in Nat \ {0} /\ delete \subseteq Nat
  BY DEF TypeOK
<1>v. version \in Nat
  BY <1>0
<1>n. Retries \in Nat
  BY PushMirrorAssumption
<1>p. push \in [Pushers -> PushType]
  BY <1>0
<1>w. worker \in WorkerType
  BY <1>0
<1>r. refs \in [Refs -> Commit]
  BY <1>0
<1>q. queue \in Seq(Pushers) /\ Len(queue) <= Buffer
  BY <1>0
<1>s. store \subseteq Bundle /\ clock \in Nat \ {0}
  BY <1>0
<1>1. ASSUME NEW p \in Pushers, PushStart(p) \/ PushInit(p) \/ VerifyHooks(p) \/ PushFails(p)
      PROVE  TypeOK'
  <2>1. push' \in [Pushers -> PushType]
    BY <1>1, GotoType DEF PushStart, PushInit, VerifyHooks, PushFails
  <2>2. dir' \in {"absent", "made", "bare"}
    BY <1>0, <1>1, PushMirrorAssumption
       DEF PushStart, PushInit, VerifyHooks, PushFails
  <2>3. UNCHANGED <<refs, version, mirror>>
    BY <1>1 DEF PushStart, PushInit, VerifyHooks, PushFails
  <2> QED
    BY <1>0, <2>1, <2>2, <2>3, TypeKept DEF mirror
<1>2. ASSUME NEW p \in Pushers, ReceivePack(p) PROVE TypeOK'
  <2>1. PICK new \in [Refs -> Commit] :
          push' = [push EXCEPT ![p] =
            [@ EXCEPT !.pc = IF Hooks THEN "preReceive" ELSE "update", !.old = refs,
                      !.new = new, !.todo = {r \in Refs : new[r] # refs[r]}]]
    BY <1>2 DEF ReceivePack, Commit
  <2>2. push' \in [Pushers -> PushType]
    <3>1. push[p] \in PushType /\ {r \in Refs : new[r] # refs[r]} \in SUBSET Refs
      BY <1>p
    <3>2. (IF Hooks THEN "preReceive" ELSE "update") \in {"preReceive", "update"}
      OBVIOUS
    <3>3. [push[p] EXCEPT !.pc = IF Hooks THEN "preReceive" ELSE "update", !.old = refs,
                          !.new = new, !.todo = {r \in Refs : new[r] # refs[r]}] \in PushType
      BY <1>r, <3>1, <3>2, PushUpdate DEF PushType
    <3> QED
      BY <1>p, <2>1, <3>3
  <2> QED
    BY <1>0, <1>2, <2>2, TypeKept DEF ReceivePack, mirror
<1>3. ASSUME NEW p \in Pushers, PreReceive(p) \/ PostReceive(p) \/ NotifyFails(p) \/ NotifyReply(p)
      PROVE  TypeOK'
  <2>1. push' \in [Pushers -> PushType]
    BY <1>3, GotoType DEF PreReceive, PostReceive, NotifyFails, NotifyReply
  <2>2. UNCHANGED <<dir, refs, version, mirror>>
    BY <1>3 DEF PreReceive, PostReceive, NotifyFails, NotifyReply
  <2> QED
    BY <1>0, <2>1, <2>2, TypeKept DEF mirror
<1>4. ASSUME NEW p \in Pushers, UpdateRef(p) PROVE TypeOK'
  <2>1. PICK r \in push[p].todo :
          \/ /\ refs' = [refs EXCEPT ![r] = push[p].new[r]]
             /\ version' = version + 1
             /\ push' = [push EXCEPT ![p] = [push[p] EXCEPT !.todo = push[p].todo \ {r}, !.ver = version + 1]]
          \/ /\ push' = [push EXCEPT ![p].todo = @ \ {r}]
             /\ UNCHANGED <<refs, version>>
    BY <1>4 DEF UpdateRef
  <2>2. refs' \in [Refs -> Commit]
    <3>1. push[p].new \in [Refs -> Commit] /\ push[p].todo \subseteq Refs
      BY <1>p DEF PushType
    <3> QED
      BY <1>r, <2>1, <3>1
  <2>3. version' \in Nat /\ version <= version'
    BY <1>v, <2>1
  <2>4. push' \in [Pushers -> PushType']
    <3>1. PushType \subseteq PushType'
      BY <1>v, <2>3 DEF PushType
    <3>2. [push[p] EXCEPT !.todo = @ \ {r}] \in PushType
      BY <1>p DEF PushType
    <3>3. CASE push' = [push EXCEPT ![p].todo = @ \ {r}]
      BY <1>p, <3>1, <3>2, <3>3
    <3>4. CASE /\ version' = version + 1
               /\ push' = [push EXCEPT ![p] = [push[p] EXCEPT !.todo = push[p].todo \ {r}, !.ver = version + 1]]
      <4>1. push[p] \in PushType' /\ push[p].todo \ {r} \in SUBSET Refs
        BY <1>p, <3>1 DEF PushType
      <4>2. version + 1 \in 0..version'
        BY <1>v, <3>4
      <4>3. [push[p] EXCEPT !.todo = push[p].todo \ {r}, !.ver = version + 1] \in PushType'
        <5> DEFINE A == {"new", "init", "hooks", "receive", "preReceive", "update",
                         "notify", "wait", "refused", "end", "failed", "acked"}
                   F == [Refs -> Commit]
                   N == 0..version'
        <5>1. PushType' = [pc : A, old : F, new : F, todo : SUBSET Refs, ver : N]
          BY DEF PushType
        <5>2. push[p] \in [pc : A, old : F, new : F, todo : SUBSET Refs, ver : N]
              /\ version + 1 \in N
          BY <4>1, <4>2, <5>1
        <5> HIDE DEF A, F, N
        <5> QED
          BY <4>1, <5>1, <5>2
      <4> DEFINE x == [push[p] EXCEPT !.todo = push[p].todo \ {r}, !.ver = version + 1]
      <4>4. push \in [Pushers -> PushType']
        BY <1>p, <3>1
      <4>5. push' = [push EXCEPT ![p] = x] /\ x \in PushType'
        BY <3>4, <4>3
      <4> HIDE DEF x
      <4> QED
        BY <4>4, <4>5
    <3> QED
      BY <2>1, <3>3, <3>4
  <2>6. worker \in WorkerType'
    BY <1>v, <1>w, <2>3 DEF WorkerType
  <2>5. UNCHANGED <<dir, mirror>>
    BY <1>4 DEF UpdateRef
  <2> QED
    BY <1>0, <2>2, <2>3, <2>4, <2>5, <2>6 DEF TypeOK, mirror
<1>5. ASSUME NEW p \in Pushers, Submit(p) PROVE TypeOK'
  <2>1. push' \in [Pushers -> PushType]
    BY <1>5, GotoType DEF Submit
  <2>2. queue' \in Seq(Pushers) /\ Len(queue') <= Buffer
    BY <1>q, <1>5, PushMirrorAssumption DEF Submit
  <2> QED
    BY <1>0, <1>5, <2>1, <2>2, TypeKept DEF Submit
<1>6. CASE BundleBegin
  <2>1. Head(queue) \in Pushers /\ queue' \in Seq(Pushers) /\ Len(queue') <= Buffer
    BY <1>q, <1>6, PushMirrorAssumption DEF BundleBegin
  <2>2. worker' \in WorkerType
    <3> DEFINE w == [pc |-> "refs", for |-> Head(queue), tries |-> 0, ver |-> 0]
    <3>1. w \in WorkerType
      BY <1>n, <1>v, <2>1 DEF WorkerType
    <3>2. worker' = w
      BY <1>6 DEF BundleBegin, IdleWorker
    <3> QED
      BY <3>1, <3>2
  <2> QED
    BY <1>0, <1>6, <2>1, <2>2, TypeKept DEF BundleBegin
<1>7. IdleWorker \in WorkerType
  BY <1>v, PushMirrorAssumption DEF IdleWorker, WorkerType
<1>8. ASSUME NEW result \in {"uploaded", "no refs", "failed"}, Finish(result)
      PROVE  /\ worker' \in WorkerType
             /\ done' \in [Pushers -> {"none", "uploaded", "no refs", "failed", "lost"}]
  BY <1>0, <1>7, <1>8 DEF Finish
<1>9. CASE BundleRefs
  <2>1. /\ worker' \in WorkerType
        /\ done' \in [Pushers -> {"none", "uploaded", "no refs", "failed", "lost"}]
    <3>1. [worker EXCEPT !.pc = "bundle"] \in WorkerType
      BY <1>0 DEF WorkerType
    <3> QED
      BY <1>0, <1>8, <1>9, <3>1 DEF BundleRefs
  <2>2. UNCHANGED <<dir, refs, version, push, queue, store, clock, delete, removed>>
    BY <1>9 DEF BundleRefs
  <2> QED
    BY <1>0, <2>1, <2>2, TypeKept
<1>10. CASE BundleCreate
  <2>1. [worker EXCEPT !.pc = "put", !.ver = version] \in WorkerType
    <3>1. version \in 0..version
      BY <1>v
    <3> QED
      BY <1>w, <3>1, WorkerUpdate DEF WorkerType
  <2> QED
    BY <1>0, <1>10, <2>1, TypeKept DEF BundleCreate
<1>11. ASSUME Put PROVE store' \subseteq Bundle /\ clock' \in Nat \ {0}
  BY <1>s, <1>v, <1>w, <1>11 DEF Put, Bundle, WorkerType
<1>12. CASE BundlePut
  <2>1. UNCHANGED <<dir, refs, version, push, queue, delete, removed>>
    BY <1>12 DEF BundlePut
  <2> QED
    BY <1>0, <1>8, <1>11, <1>12, <2>1, TypeKept DEF BundlePut
<1>13. CASE BundleFails
  <2>1. store' \subseteq Bundle /\ clock' \in Nat \ {0}
    BY <1>0, <1>11, <1>13 DEF BundleFails
  <2>2. /\ worker' \in WorkerType
        /\ done' \in [Pushers -> {"none", "uploaded", "no refs", "failed", "lost"}]
    <3>1. ASSUME worker.tries < Retries
          PROVE  [worker EXCEPT !.pc = "refs", !.tries = @ + 1] \in WorkerType
      <4>1. worker.tries \in 0..Retries
        BY <1>w DEF WorkerType
      <4>2. worker.tries + 1 \in 0..Retries
        BY <1>n, <3>1, <4>1
      <4> QED
        BY <1>w, <4>2, WorkerUpdate DEF WorkerType
    <3> QED
      BY <1>0, <1>8, <1>13, <3>1 DEF BundleFails
  <2>3. UNCHANGED <<dir, refs, version, push, queue, delete, removed>>
    BY <1>13 DEF BundleFails
  <2> QED
    BY <1>0, <2>1, <2>2, <2>3, TypeKept
<1>14. CASE ServeCrash
  <2>1. push' \in [Pushers -> PushType]
    <3>1. \A p \in Pushers : [push[p] EXCEPT !.pc = "failed"] \in PushType
      BY <1>0 DEF PushType
    <3> QED
      BY <1>0, <1>14, <3>1 DEF ServeCrash
  <2>2. queue' \in Seq(Pushers) /\ Len(queue') <= Buffer
    BY <1>14, PushMirrorAssumption DEF ServeCrash
  <2>3. done' \in [Pushers -> {"none", "uploaded", "no refs", "failed", "lost"}]
    BY <1>0, <1>14 DEF ServeCrash
  <2> QED
    BY <1>0, <1>7, <1>14, <2>1, <2>2, <2>3, TypeKept DEF ServeCrash
<1>15. CASE DeleteList
  <2>1. delete' \subseteq Nat
    BY <1>0, <1>15 DEF DeleteList, Bundle
  <2> QED
    BY <1>0, <1>15, <2>1, TypeKept DEF DeleteList
<1>16. CASE DeleteNext
  <2>1. PICK k \in delete : RemoveKey(k)
    BY <1>16 DEF DeleteNext
  <2>2. store' \subseteq Bundle /\ removed' \subseteq Bundle /\ delete' \subseteq Nat
    BY <1>0, <2>1 DEF RemoveKey
  <2> QED
    BY <1>0, <2>1, <2>2, TypeKept DEF RemoveKey
<1>17. CASE DeleteFails
  BY <1>0, <1>17, TypeKept DEF DeleteFails
<1>18. CASE UNCHANGED vars
  BY <1>0, <1>18, TypeKept DEF vars
<1> QED
  BY <1>1, <1>2, <1>3, <1>4, <1>5, <1>6, <1>9, <1>10, <1>12, <1>13, <1>14, <1>15,
     <1>16, <1>17, <1>18 DEF Next, Worker

\* The variables of a push and of the mirror keep their types.
THEOREM TypeCorrect == Spec => []TypeOK
BY TypeInit, TypeStep, PTL DEF Spec

-----------------------------------------------------------------------------
(* The inductive invariant *)

\* The client of a bundle action waits for it or has given up on it.
Pending(p) == push[p].pc \in {"wait", "failed"} /\ done[p] = "none"

\* The channel and the worker hold each bundle action once, until it is done.
Own ==
  /\ worker.pc = "idle" <=> worker.for = NoPush
  /\ worker.for # NoPush => Pending(worker.for)
  /\ \A i, j \in 1..Len(queue) : queue[i] = queue[j] => i = j
  /\ \A i \in 1..Len(queue) : queue[i] # worker.for /\ Pending(queue[i])

\* The result of a bundle action, and what it says of the mirror.
Settled ==
  \A p \in Pushers :
    /\ done[p] # "none" => push[p].pc \in {"wait", "failed", "acked"}
    /\ done[p] = "lost" => push[p].pc = "failed"
    /\ push[p].pc = "acked" => done[p] \in {"uploaded", "no refs"}
    /\ done[p] = "uploaded" => \E b \in store \cup removed : b.ver >= push[p].ver

\* A bundle with a later key holds a later version, the one in the worker's
\* hands included.
Ordered ==
  /\ \A b \in store : b.key < clock /\ b.ver <= version
  /\ \A b, c \in store : b.key <= c.key => b.ver <= c.ver
  /\ worker.pc = "put" => /\ push[worker.for].ver <= worker.ver
                          /\ \A b \in store : b.ver <= worker.ver

\* What `gitd mirror delete` has not listed is newer than all it has listed.
OldestListed ==
  \A k \in delete : k < clock /\ \A b \in store : b.key \in delete \/ k < b.key

\* The pushes that may update refs have passed the policy.
Checked ==
  \A p \in Pushers : At(p, "update") => EngineEvaluate(push[p])

Inv == Own /\ Settled /\ Ordered /\ OldestListed

\* Initially nothing is queued, stored or done.
LEMMA InvInit == Init => Inv
<1> SUFFICES ASSUME Init PROVE Inv
  OBVIOUS
<1>1. Own
  BY DEF Init, Own, IdleWorker
<1>2. Settled
  BY DEF Init, Settled, NewPush
<1>3. Ordered /\ OldestListed
  BY DEF Init, Ordered, OldestListed, IdleWorker
<1> QED
  BY <1>1, <1>2, <1>3 DEF Inv

\* How a step of the gateway, git or notify moves push q: once its bundle action
\* is submitted, its version is settled, and it is acknowledged only with a
\* result.
Moves(q) ==
  /\ push[q].pc \in {"wait", "failed", "acked"} =>
       push'[q].ver = push[q].ver /\ push'[q].pc \in {"wait", "failed", "acked"}
  /\ push[q].pc = "failed" => push'[q].pc = "failed"
  /\ push'[q].pc = "acked" => push[q].pc = "acked" \/ done[q] \notin {"none", "failed"}

\* A Goto step out of any other position but "wait" is such a move.
LEMMA GotoMoves ==
  ASSUME TypeOK, NEW p \in Pushers, NEW pc, Goto(p, pc),
         push[p].pc \notin {"wait", "failed", "acked"}, pc # "acked"
  PROVE  \A q \in Pushers : Moves(q)
<1> SUFFICES ASSUME NEW q \in Pushers PROVE Moves(q)
  OBVIOUS
<1>1. push \in [Pushers -> PushType]
  BY DEF TypeOK
<1>2. CASE q # p
  BY <1>1, <1>2 DEF Goto, Moves
<1>3. CASE q = p
  BY <1>1, <1>3 DEF Goto, Moves, PushType
<1> QED
  BY <1>2, <1>3

\* The steps before and after the bundle action leave serve and the store alone,
\* and the pushes move as Moves says.
LEMMA FrontMoves ==
  ASSUME TypeOK, NEW p \in Pushers,
         \/ PushStart(p) \/ PushInit(p) \/ VerifyHooks(p) \/ PushFails(p)
         \/ ReceivePack(p) \/ PreReceive(p) \/ UpdateRef(p) \/ PostReceive(p)
         \/ NotifyFails(p) \/ NotifyReply(p)
  PROVE  UNCHANGED mirror /\ version <= version' /\ \A q \in Pushers : Moves(q)
<1>t. push \in [Pushers -> PushType] /\ version \in Nat
  BY DEF TypeOK
<1>1. CASE PushStart(p) \/ PushInit(p) \/ VerifyHooks(p) \/ PushFails(p)
           \/ PreReceive(p) \/ PostReceive(p)
  <2>1. PICK pc : Goto(p, pc) /\ pc # "acked"
    BY <1>1 DEF PushStart, PushInit, VerifyHooks, PushFails, PreReceive, PostReceive
  <2>2. push[p].pc \notin {"wait", "failed", "acked"}
    BY <1>1 DEF PushStart, PushInit, VerifyHooks, PushFails, PreReceive, PostReceive, At
  <2>3. UNCHANGED <<version, mirror>>
    BY <1>1 DEF PushStart, PushInit, VerifyHooks, PushFails, PreReceive, PostReceive
  <2> QED
    BY <1>t, <2>1, <2>2, <2>3, GotoMoves
<1>2. CASE ReceivePack(p)
  <2>1. PICK x : push' = [push EXCEPT ![p] = x] /\ x.pc \in {"preReceive", "update"}
    <3>1. PICK new \in [Refs -> Commits \cup {Zero}] :
            push' = [push EXCEPT ![p] =
              [@ EXCEPT !.pc = IF Hooks THEN "preReceive" ELSE "update", !.old = refs,
                        !.new = new, !.todo = {r \in Refs : new[r] # refs[r]}]]
      BY <1>2 DEF ReceivePack
    <3>2. push[p] \in PushType
      BY <1>t
    <3>3. [push[p] EXCEPT !.pc = IF Hooks THEN "preReceive" ELSE "update", !.old = refs,
                          !.new = new, !.todo = {r \in Refs : new[r] # refs[r]}].pc
            \in {"preReceive", "update"}
      BY <3>2 DEF PushType
    <3> QED
      BY <3>1, <3>3
  <2>2. push[p].pc = "receive" /\ UNCHANGED <<version, mirror>>
    BY <1>2 DEF ReceivePack, At
  <2>3. \A q \in Pushers : Moves(q)
    BY <1>t, <2>1, <2>2 DEF Moves
  <2> QED
    BY <1>t, <2>2, <2>3
<1>3. CASE UpdateRef(p)
  <2>1. push[p].pc = "update" /\ UNCHANGED mirror
    BY <1>3 DEF UpdateRef, At
  <2>2. version <= version'
    <3>1. version' = version + 1 \/ version' = version
      BY <1>3 DEF UpdateRef
    <3> QED
      BY <1>t, <3>1
  <2>3. PICK x : push' = [push EXCEPT ![p] = x] /\ x.pc = "update"
    <3>1. PICK r \in push[p].todo :
            \/ push' = [push EXCEPT ![p] =
                 [push[p] EXCEPT !.todo = push[p].todo \ {r}, !.ver = version + 1]]
            \/ push' = [push EXCEPT ![p].todo = @ \ {r}]
      BY <1>3 DEF UpdateRef
    <3>2. push[p] \in PushType
      BY <1>t
    <3>3. /\ [push[p] EXCEPT !.todo = push[p].todo \ {r}, !.ver = version + 1].pc = "update"
          /\ [push[p] EXCEPT !.todo = @ \ {r}].pc = "update"
      BY <2>1, <3>2 DEF PushType
    <3> QED
      BY <3>1, <3>3
  <2>4. \A q \in Pushers : Moves(q)
    BY <1>t, <2>1, <2>3 DEF Moves
  <2> QED
    BY <2>1, <2>2, <2>4
<1>4. CASE NotifyFails(p) \/ NotifyReply(p)
  <2>1. UNCHANGED <<version, mirror>>
    BY <1>4 DEF NotifyFails, NotifyReply
  <2>2. PICK pc \in {"failed", "acked"} :
          /\ push[p].pc \in {"notify", "wait"} /\ Goto(p, pc)
          /\ pc = "acked" => done[p] \notin {"none", "failed"}
    BY <1>4 DEF NotifyFails, NotifyReply, At
  <2>3. ASSUME NEW q \in Pushers PROVE Moves(q)
    <3>1. CASE q # p
      BY <1>t, <2>2, <3>1 DEF Goto, Moves
    <3>2. CASE q = p
      <4>1. push'[p].pc = pc /\ push'[p].ver = push[p].ver
        BY <1>t, <2>2 DEF Goto, PushType
      <4> QED
        BY <2>2, <3>2, <4>1 DEF Moves
    <3> QED
      BY <3>1, <3>2
  <2> QED
    BY <1>t, <2>1, <2>3
<1> QED
  BY <1>1, <1>2, <1>3, <1>4

\* Moves of the pushes keep the rest of the invariant.
LEMMA MovesKeep ==
  ASSUME TypeOK, TypeOK', Inv, UNCHANGED <<worker, done, store, clock, delete, removed>>,
         version <= version', \A q \in Pushers : Moves(q)
  PROVE  Settled' /\ Ordered' /\ OldestListed' /\ \A q \in Pushers : Pending(q) => Pending(q)'
<1>t. /\ worker.for \in Pushers \cup {NoPush} /\ version \in Nat /\ version' \in Nat
      /\ store \subseteq Bundle /\ clock \in Nat
      /\ done \in [Pushers -> {"none", "uploaded", "no refs", "failed", "lost"}]
  BY DEF TypeOK, WorkerType
<1>1. ASSUME NEW q \in Pushers, Pending(q) PROVE Pending(q)'
  BY <1>1 DEF Moves, Pending
<1>2. Settled'
  <2> SUFFICES ASSUME NEW p \in Pushers
               PROVE  /\ done[p] # "none" => push'[p].pc \in {"wait", "failed", "acked"}
                      /\ done[p] = "lost" => push'[p].pc = "failed"
                      /\ push'[p].pc = "acked" => done[p] \in {"uploaded", "no refs"}
                      /\ done[p] = "uploaded" =>
                           \E b \in store \cup removed : b.ver >= push'[p].ver
    BY DEF Settled
  <2>1. /\ done[p] # "none" => push[p].pc \in {"wait", "failed", "acked"}
        /\ done[p] = "lost" => push[p].pc = "failed"
        /\ push[p].pc = "acked" => done[p] \in {"uploaded", "no refs"}
        /\ done[p] = "uploaded" => \E b \in store \cup removed : b.ver >= push[p].ver
    BY DEF Inv, Settled
  <2>2. Moves(p)
    OBVIOUS
  <2>3. done[p] \in {"none", "uploaded", "no refs", "failed", "lost"}
    BY <1>t
  <2> QED
    BY <2>1, <2>2, <2>3 DEF Moves
<1>3. Ordered'
  <2>1. worker.pc = "put" => push'[worker.for].ver = push[worker.for].ver
    <3> SUFFICES ASSUME worker.pc = "put" PROVE push'[worker.for].ver = push[worker.for].ver
      OBVIOUS
    <3>1. worker.for \in Pushers /\ Pending(worker.for)
      BY <1>t DEF Inv, Own
    <3> QED
      BY <3>1 DEF Moves, Pending
  <2>2. \A b \in store : b.ver \in Nat
    BY <1>t DEF Bundle
  <2>3. \A b \in store : b.ver <= version'
    <3>1. \A b \in store : b.ver <= version
      BY DEF Inv, Ordered
    <3>2. version \in Nat /\ version' \in Nat
      BY <1>t
    <3> QED
      BY <2>2, <3>1, <3>2
  <2> QED
    BY <2>1, <2>3 DEF Inv, Ordered
<1>4. OldestListed'
  BY DEF Inv, OldestListed
<1> QED
  BY <1>1, <1>2, <1>3, <1>4

\* A push that submits its bundle action puts it in the channel for the first time.
LEMMA SubmitKeeps ==
  ASSUME TypeOK, TypeOK', Inv, NEW p \in Pushers, Submit(p)
  PROVE  Inv'
<1>t. /\ queue \in Seq(Pushers) /\ worker.for \in Pushers \cup {NoPush}
      /\ push \in [Pushers -> PushType] /\ version \in Nat
      /\ done \in [Pushers -> {"none", "uploaded", "no refs", "failed", "lost"}]
  BY DEF TypeOK, WorkerType
<1>1. /\ push[p].pc = "notify" /\ queue' = Append(queue, p) /\ Goto(p, "wait")
      /\ UNCHANGED <<version, worker, done, store, clock, delete, removed>>
  BY DEF Submit, At
<1>2. \A q \in Pushers : Moves(q)
  BY <1>1, GotoMoves
<1>3. /\ Settled' /\ Ordered' /\ OldestListed'
      /\ \A q \in Pushers : Pending(q) => Pending(q)'
  <2>1. version <= version'
    <3>1. version \in Nat /\ version' = version
      BY <1>t, <1>1
    <3> QED
      BY <3>1
  <2> QED
    BY <1>1, <1>2, <2>1, MovesKeep
<1>4. Pending(p)' /\ ~Pending(p)
  <2>1. push'[p].pc = "wait"
    BY <1>t, <1>1 DEF Goto, PushType
  <2>2. done[p] = "none"
    BY <1>1 DEF Inv, Settled
  <2> QED
    BY <1>1, <2>1, <2>2 DEF Pending
<1>5. Own'
  <2>1. /\ \A i \in 1..Len(queue) : queue'[i] = queue[i]
        /\ \A i \in 1..Len(queue) : queue[i] \in Pushers
        /\ Len(queue') = Len(queue) + 1 /\ queue'[Len(queue) + 1] = p /\ Len(queue) \in Nat
    <3>1. queue \in Seq(Pushers) /\ queue' = Append(queue, p)
      BY <1>t, <1>1
    <3> QED
      BY <3>1
  <2>2. \A i \in 1..Len(queue') : i \in 1..Len(queue) \/ i = Len(queue) + 1
    BY <2>1
  <2>3. \A i \in 1..Len(queue) : queue[i] # p /\ queue[i] # worker.for /\ Pending(queue[i])
    BY <1>4 DEF Inv, Own
  <2>4. worker.for # p
    BY <1>4, PushMirrorAssumption DEF Inv, Own
  <2>5. \A i, j \in 1..Len(queue') : queue'[i] = queue'[j] => i = j
    BY <2>1, <2>2, <2>3 DEF Inv, Own
  <2>6. \A i \in 1..Len(queue') : queue'[i] # worker.for /\ Pending(queue[i])'
    <3> SUFFICES ASSUME NEW i \in 1..Len(queue')
                 PROVE  queue'[i] # worker.for /\ Pending(queue[i])'
      OBVIOUS
    <3>1. CASE i = Len(queue) + 1
      BY <1>4, <2>1, <2>4, <3>1 DEF Pending
    <3>2. CASE i \in 1..Len(queue)
      BY <1>3, <2>1, <2>3, <3>2 DEF Pending
    <3> QED
      BY <2>2, <3>1, <3>2
  <2>7. worker.for # NoPush => Pending(worker.for)'
    BY <1>t, <1>1, <1>3 DEF Inv, Own
  <2> QED
    <3>1. worker' = worker /\ (worker.pc = "idle" <=> worker.for = NoPush)
      BY <1>1 DEF Inv, Own
    <3> QED
      BY <2>5, <2>6, <2>7, <3>1 DEF Own, Pending
<1> QED
  BY <1>3, <1>5 DEF Inv

\* The worker takes the head of the channel.
LEMMA BeginKeeps ==
  ASSUME TypeOK, Inv, BundleBegin
  PROVE  Inv'
<1>t. queue \in Seq(Pushers) /\ queue # <<>>
  BY DEF TypeOK, BundleBegin
<1>1. /\ queue' = Tail(queue) /\ UNCHANGED <<version, push, done, store, clock, delete, removed>>
      /\ worker'.pc = "refs" /\ worker'.for = Head(queue)
  BY DEF BundleBegin, IdleWorker
<1>2. /\ Len(queue) \in Nat /\ Len(queue) >= 1 /\ Len(queue') = Len(queue) - 1
      /\ \A i \in 1..Len(queue') : queue'[i] = queue[i + 1]
      /\ Head(queue) = queue[1] /\ queue[1] \in Pushers
  <2>1. queue' = Tail(queue)
    BY <1>1
  <2> QED
    BY <1>t, <2>1
<1>3. \A i \in 1..Len(queue') : i + 1 \in 1..Len(queue) /\ i + 1 # 1
  BY <1>2
<1>4. 1 \in 1..Len(queue)
  BY <1>2
<1>5. /\ \A i, j \in 1..Len(queue) : queue[i] = queue[j] => i = j
      /\ \A i \in 1..Len(queue) : Pending(queue[i])
  BY DEF Inv, Own
<1>6. \A i, j \in 1..Len(queue') : queue'[i] = queue'[j] => i = j
  <2>1. \A i, j \in 1..Len(queue') : queue'[i] = queue'[j] => i + 1 = j + 1
    BY <1>2, <1>3, <1>5
  <2> QED
    BY <1>2, <2>1
<1>7. \A i \in 1..Len(queue') : queue'[i] # worker'.for /\ Pending(queue[i])'
  <2>1. \A i \in 1..Len(queue') : queue'[i] # queue[1]
    BY <1>2, <1>3, <1>4, <1>5
  <2>2. \A i \in 1..Len(queue') : Pending(queue[i + 1])
    BY <1>3, <1>5
  <2> QED
    BY <1>1, <1>2, <2>1, <2>2 DEF Pending
<1>8. worker'.for # NoPush /\ Pending(worker.for)'
  BY <1>1, <1>2, <1>4, <1>5, PushMirrorAssumption DEF Pending
<1>9. Own'
  BY <1>1, <1>6, <1>7, <1>8 DEF Own
<1>10. Settled' /\ Ordered' /\ OldestListed'
  BY <1>1 DEF Inv, Settled, Ordered, OldestListed
<1> QED
  BY <1>9, <1>10 DEF Inv

\* Finish ends the bundle action of the worker, and of no other.
LEMMA FinishOwn ==
  ASSUME TypeOK, Inv, worker.pc # "idle", UNCHANGED <<push, queue>>,
         NEW result, Finish(result)
  PROVE  /\ Own' /\ worker.for \in Pushers /\ Pending(worker.for) /\ done'[worker.for] = result
         /\ \A p \in Pushers \ {worker.for} : done'[p] = done[p]
<1>1. worker.for \in Pushers /\ Pending(worker.for)
  BY DEF TypeOK, WorkerType, Inv, Own
<1>2. /\ done'[worker.for] = result /\ \A p \in Pushers \ {worker.for} : done'[p] = done[p]
      /\ worker'.pc = "idle" /\ worker'.for = NoPush
  BY <1>1 DEF TypeOK, Finish, IdleWorker
<1>3. \A i \in 1..Len(queue) : queue[i] \in Pushers
  <2>1. queue \in Seq(Pushers)
    BY DEF TypeOK
  <2> QED
    BY <2>1
<1>4. \A i \in 1..Len(queue) : queue[i] # NoPush /\ Pending(queue[i])'
  <2>1. \A i \in 1..Len(queue) : queue[i] # worker.for /\ Pending(queue[i])
    BY DEF Inv, Own
  <2> QED
    BY <1>2, <1>3, <2>1, PushMirrorAssumption DEF Pending
<1>5. Own'
  BY <1>2, <1>4 DEF Inv, Own
<1> QED
  BY <1>1, <1>2, <1>5

\* Finish keeps Settled: an upload is reported with a bundle that is new enough.
LEMMA FinishSettled ==
  ASSUME TypeOK, Inv, worker.pc # "idle", UNCHANGED <<push, queue>>,
         NEW result \in {"uploaded", "no refs", "failed"}, Finish(result),
         store \subseteq store', UNCHANGED removed,
         result = "uploaded" => \E b \in store' : b.ver >= push[worker.for].ver
  PROVE  Settled'
<1>1. /\ worker.for \in Pushers /\ Pending(worker.for) /\ done'[worker.for] = result
      /\ \A p \in Pushers \ {worker.for} : done'[p] = done[p]
  BY FinishOwn
<1> SUFFICES ASSUME NEW p \in Pushers
             PROVE  /\ done'[p] # "none" => push[p].pc \in {"wait", "failed", "acked"}
                    /\ done'[p] = "lost" => push[p].pc = "failed"
                    /\ push[p].pc = "acked" => done'[p] \in {"uploaded", "no refs"}
                    /\ done'[p] = "uploaded" =>
                         \E b \in store' \cup removed : b.ver >= push[p].ver
  BY DEF Settled
<1>2. CASE p = worker.for
  BY <1>1, <1>2 DEF Pending
<1>3. CASE p # worker.for
  BY <1>1, <1>3 DEF Inv, Settled
<1> QED
  BY <1>2, <1>3

\* A stored bundle is the latest by its key and by its version.
LEMMA PutKeeps ==
  ASSUME TypeOK, Inv, worker.pc = "put", Put, UNCHANGED <<version, push, delete>>,
         worker'.pc # "put"
  PROVE  /\ Ordered' /\ OldestListed' /\ store \subseteq store'
         /\ \E b \in store' : b.ver >= push[worker.for].ver
<1> DEFINE n == [key |-> clock, ver |-> worker.ver]
<1>1. store' = store \cup {n} /\ clock' = clock + 1
  BY DEF Put
<1>2. n.key = clock /\ n.ver = worker.ver
  OBVIOUS
<1> HIDE DEF n
<1>3. clock \in Nat /\ version \in Nat /\ worker.ver \in 0..version
  BY DEF TypeOK, WorkerType
<1>4. \A b \in store : b.key \in Nat /\ b.ver \in Nat
  BY DEF TypeOK, Bundle
<1>5. /\ \A b \in store : b.key < clock /\ b.ver <= version /\ b.ver <= worker.ver
      /\ \A b, c \in store : b.key <= c.key => b.ver <= c.ver
      /\ push[worker.for].ver <= worker.ver
  BY DEF Inv, Ordered
<1>6. \A b \in store' : b.key < clock' /\ b.ver <= version
  <2>1. n.key < clock + 1 /\ n.ver <= version
    BY <1>2, <1>3
  <2>2. \A b \in store : b.key < clock + 1
    BY <1>3, <1>4, <1>5
  <2> QED
    BY <1>1, <1>5, <2>1, <2>2
<1>7. \A b, c \in store' : b.key <= c.key => b.ver <= c.ver
  <2>1. \A b \in store : b.ver <= n.ver /\ ~(n.key <= b.key)
    BY <1>2, <1>3, <1>4, <1>5
  <2>2. n.ver <= n.ver
    BY <1>2, <1>3
  <2> QED
    BY <1>1, <1>5, <2>1, <2>2
<1>8. OldestListed'
  <2> SUFFICES ASSUME NEW k \in delete
               PROVE  k < clock' /\ \A b \in store' : b.key \in delete \/ k < b.key
    BY DEF OldestListed
  <2>1. k \in Nat /\ k < clock /\ \A b \in store : b.key \in delete \/ k < b.key
    BY DEF Inv, OldestListed, TypeOK
  <2>2. k < clock + 1 /\ k < n.key
    BY <1>2, <1>3, <2>1
  <2> QED
    BY <1>1, <2>1, <2>2
<1>9. \E b \in store' : b.ver >= push[worker.for].ver
  <2>1. push[worker.for].ver \in Nat
    <3>1. worker.for \in Pushers
      BY DEF TypeOK, WorkerType, Inv, Own
    <3>2. push[worker.for] \in PushType
      BY <3>1 DEF TypeOK
    <3>3. push[worker.for].ver \in 0..version
      BY <3>2 DEF PushType
    <3> QED
      BY <1>3, <3>3
  <2>2. n.ver >= push[worker.for].ver
    BY <1>2, <1>3, <1>5, <2>1
  <2> QED
    BY <1>1, <2>2
<1>10. Ordered'
  BY <1>6, <1>7 DEF Ordered
<1> QED
  BY <1>1, <1>8, <1>9, <1>10

\* The steps of an attempt to bundle keep the invariant.
LEMMA WorkerKeeps ==
  ASSUME TypeOK, Inv, BundleRefs \/ BundleCreate \/ BundlePut \/ BundleFails
  PROVE  Inv'
<1>t. worker \in WorkerType
  BY DEF TypeOK
<1>1. UNCHANGED <<version, push, queue, delete, removed>> /\ worker.pc # "idle"
  BY DEF BundleRefs, BundleCreate, BundlePut, BundleFails
<1>2. ASSUME UNCHANGED <<store, clock>>, worker'.pc # "put" PROVE Ordered' /\ OldestListed'
  BY <1>1, <1>2 DEF Inv, Ordered, OldestListed
<1>3. ASSUME UNCHANGED done, worker'.for = worker.for, worker'.pc # "idle" PROVE Own'
  BY <1>1, <1>3 DEF Inv, Own, Pending
<1>4. ASSUME UNCHANGED done, store \subseteq store' PROVE Settled'
  BY <1>1, <1>4 DEF Inv, Settled
<1>5. ASSUME NEW result, Finish(result) PROVE worker'.pc # "put"
  BY <1>5 DEF Finish, IdleWorker
<1>6. CASE BundleRefs
  <2>1. UNCHANGED <<store, clock>>
    BY <1>6 DEF BundleRefs
  <2>2. CASE Finish("no refs")
    BY <1>1, <1>2, <1>5, <2>1, <2>2, FinishOwn, FinishSettled DEF Inv
  <2>3. CASE worker' = [worker EXCEPT !.pc = "bundle"] /\ UNCHANGED done
    <3>1. worker'.pc = "bundle" /\ worker'.for = worker.for
      BY <1>t, <2>3 DEF WorkerType
    <3> QED
      BY <1>2, <1>3, <1>4, <2>1, <2>3, <3>1 DEF Inv
  <2> QED
    BY <1>6, <2>2, <2>3 DEF BundleRefs
<1>7. CASE BundleCreate
  <2>1. UNCHANGED <<store, clock, done>>
    BY <1>7 DEF BundleCreate
  <2>2. worker'.pc = "put" /\ worker'.for = worker.for /\ worker'.ver = version
    BY <1>t, <1>7 DEF BundleCreate, WorkerType
  <2>3. push[worker.for].ver <= version
    <3>1. worker.for \in Pushers
      BY <1>1 DEF TypeOK, WorkerType, Inv, Own
    <3>2. push[worker.for] \in PushType
      BY <3>1 DEF TypeOK
    <3>3. push[worker.for].ver \in 0..version /\ version \in Nat
      BY <3>2 DEF PushType, TypeOK
    <3> QED
      BY <3>3
  <2>4. Ordered' /\ OldestListed'
    BY <1>1, <2>1, <2>2, <2>3 DEF Inv, Ordered, OldestListed
  <2> QED
    BY <1>3, <1>4, <2>1, <2>2, <2>4 DEF Inv
<1>8. CASE BundlePut
  <2>1. worker.pc = "put" /\ Put /\ Finish("uploaded")
    BY <1>8 DEF BundlePut
  <2>2. /\ Ordered' /\ OldestListed' /\ store \subseteq store'
        /\ \E b \in store' : b.ver >= push[worker.for].ver
    BY <1>1, <1>5, <2>1, PutKeeps
  <2> QED
    BY <1>1, <2>1, <2>2, FinishOwn, FinishSettled DEF Inv
<1>9. CASE BundleFails
  <2>1. worker'.pc # "put"
    BY <1>t, <1>5, <1>9 DEF BundleFails, WorkerType
  <2>2. Ordered' /\ OldestListed' /\ store \subseteq store'
    BY <1>1, <1>2, <1>9, <2>1, PutKeeps DEF BundleFails
  <2>3. CASE worker' = [worker EXCEPT !.pc = "refs", !.tries = @ + 1] /\ UNCHANGED done
    <3>1. worker'.pc = "refs" /\ worker'.for = worker.for
      BY <1>t, <2>3 DEF WorkerType
    <3> QED
      BY <1>3, <1>4, <2>2, <2>3, <3>1 DEF Inv
  <2>4. CASE Finish("failed")
    BY <1>1, <2>2, <2>4, FinishOwn, FinishSettled DEF Inv
  <2> QED
    BY <1>9, <2>3, <2>4 DEF BundleFails
<1> QED
  BY <1>6, <1>7, <1>8, <1>9

\* A crash of serve loses the actions of pushes that wait for them or have failed.
LEMMA CrashKeeps ==
  ASSUME TypeOK, Inv, ServeCrash
  PROVE  Inv'
<1>t. /\ push \in [Pushers -> PushType] /\ queue \in Seq(Pushers)
      /\ done \in [Pushers -> {"none", "uploaded", "no refs", "failed", "lost"}]
  BY DEF TypeOK
<1>1. /\ queue' = <<>> /\ worker'.pc = "idle" /\ worker'.for = NoPush
      /\ UNCHANGED <<version, store, clock, delete, removed>>
  BY DEF ServeCrash, IdleWorker
<1>2. Own' /\ Ordered' /\ OldestListed'
  BY <1>1 DEF Inv, Own, Ordered, OldestListed
<1>3. ASSUME NEW p \in Pushers
      PROVE  /\ done'[p] # "none" => push'[p].pc \in {"wait", "failed", "acked"}
             /\ done'[p] = "lost" => push'[p].pc = "failed"
             /\ push'[p].pc = "acked" => done'[p] \in {"uploaded", "no refs"}
             /\ done'[p] = "uploaded" => \E b \in store \cup removed : b.ver >= push'[p].ver
  <2>1. /\ done[p] # "none" => push[p].pc \in {"wait", "failed", "acked"}
        /\ done[p] = "lost" => push[p].pc = "failed"
        /\ push[p].pc = "acked" => done[p] \in {"uploaded", "no refs"}
        /\ done[p] = "uploaded" => \E b \in store \cup removed : b.ver >= push[p].ver
    BY DEF Inv, Settled
  <2>2. /\ push[p].pc = "wait" => push'[p].pc = "failed"
        /\ push[p].pc # "wait" => push'[p].pc = push[p].pc
        /\ push'[p].ver = push[p].ver
    <3>1. push[p] \in PushType
      BY <1>t
    <3>2. push'[p] = IF push[p].pc = "wait" THEN [push[p] EXCEPT !.pc = "failed"] ELSE push[p]
      BY DEF ServeCrash, At
    <3> QED
      BY <3>1, <3>2 DEF PushType
  <2>3. done'[p] = IF p \in Range(queue) \cup {worker.for} THEN "lost" ELSE done[p]
    BY DEF ServeCrash
  <2>4. p \in Range(queue) \cup {worker.for} => Pending(p)
    <3>1. \A i \in 1..Len(queue) : Pending(queue[i])
      BY DEF Inv, Own
    <3>2. p \in Range(queue) => \E i \in 1..Len(queue) : p = queue[i]
      <4>1. queue \in Seq(Pushers)
        BY <1>t
      <4>2. DOMAIN queue = 1..Len(queue)
        BY <4>1
      <4> QED
        BY <4>2 DEF Range
    <3>3. worker.for = p => Pending(p)
      BY PushMirrorAssumption DEF Inv, Own
    <3> QED
      BY <3>1, <3>2, <3>3
  <2> QED
    BY <2>1, <2>2, <2>3, <2>4 DEF Pending
<1>4. Settled'
  BY <1>1, <1>3 DEF Settled
<1> QED
  BY <1>2, <1>4 DEF Inv

\* `gitd mirror delete` only moves bundles from the store to the removed ones.
LEMMA DeleteKeeps ==
  ASSUME TypeOK, Inv, DeleteList \/ DeleteNext \/ DeleteFails
  PROVE  Inv'
<1>1. UNCHANGED <<version, push, queue, worker, done, clock>>
  BY DEF DeleteList, DeleteNext, RemoveKey, DeleteFails
<1>2. store' \subseteq store /\ store \cup removed \subseteq store' \cup removed'
  BY DEF DeleteList, DeleteNext, RemoveKey, DeleteFails
<1>3. Own'
  BY <1>1 DEF Inv, Own, Pending
<1>4. Settled'
  BY <1>1, <1>2 DEF Inv, Settled
<1>5. Ordered'
  BY <1>1, <1>2 DEF Inv, Ordered
<1>6. OldestListed'
  <2>1. CASE DeleteList
    <3>1. \A b \in store : b.key < clock
      BY DEF Inv, Ordered
    <3> QED
      BY <2>1, <3>1 DEF DeleteList, OldestListed
  <2>2. CASE DeleteNext
    <3>1. PICK k \in delete : RemoveKey(k)
      BY <2>2 DEF DeleteNext
    <3> QED
      BY <3>1 DEF RemoveKey, Inv, OldestListed
  <2>3. CASE DeleteFails
    BY <2>3 DEF DeleteFails, OldestListed
  <2> QED
    BY <2>1, <2>2, <2>3
<1> QED
  BY <1>3, <1>4, <1>5, <1>6 DEF Inv

\* Every step keeps the invariant.
LEMMA Inductive == TypeOK /\ TypeOK' /\ Inv /\ [Next]_vars => Inv'
<1> SUFFICES ASSUME TypeOK, TypeOK', Inv, [Next]_vars PROVE Inv'
  OBVIOUS
<1>1. ASSUME NEW p \in Pushers,
             \/ PushStart(p) \/ PushInit(p) \/ VerifyHooks(p) \/ PushFails(p)
             \/ ReceivePack(p) \/ PreReceive(p) \/ UpdateRef(p) \/ PostReceive(p)
             \/ NotifyFails(p) \/ NotifyReply(p)
      PROVE  Inv'
  <2>1. UNCHANGED mirror /\ version <= version' /\ \A q \in Pushers : Moves(q)
    BY <1>1, FrontMoves
  <2>2. UNCHANGED <<queue, worker, done, store, clock, delete, removed>>
    BY <2>1 DEF mirror
  <2>3. /\ Settled' /\ Ordered' /\ OldestListed'
        /\ \A q \in Pushers : Pending(q) => Pending(q)'
    BY <2>1, <2>2, MovesKeep
  <2>4. Own'
    <3>1. worker.for \in Pushers \cup {NoPush} /\ \A i \in 1..Len(queue) : queue[i] \in Pushers
      <4>1. queue \in Seq(Pushers)
        BY DEF TypeOK
      <4>2. worker.for \in Pushers \cup {NoPush}
        BY DEF TypeOK, WorkerType
      <4> QED
        BY <4>1, <4>2
    <3>2. worker.for # NoPush => Pending(worker.for)'
      BY <2>2, <2>3, <3>1 DEF Inv, Own, Pending
    <3>3. \A i \in 1..Len(queue) : Pending(queue[i])'
      BY <2>2, <2>3, <3>1 DEF Inv, Own, Pending
    <3> QED
      BY <2>2, <3>2, <3>3 DEF Inv, Own
  <2> QED
    BY <2>3, <2>4 DEF Inv
<1>2. ASSUME NEW p \in Pushers, Submit(p) PROVE Inv'
  BY <1>2, SubmitKeeps
<1>3. CASE Worker
  BY <1>3, BeginKeeps, WorkerKeeps DEF Worker
<1>4. CASE ServeCrash
  BY <1>4, CrashKeeps
<1>5. CASE DeleteList \/ DeleteNext \/ DeleteFails
  BY <1>5, DeleteKeeps
<1>6. CASE UNCHANGED vars
  BY <1>6 DEF vars, Inv, Own, Settled, Ordered, OldestListed, Pending
<1> QED
  BY <1>1, <1>2, <1>3, <1>4, <1>5, <1>6 DEF Next

-----------------------------------------------------------------------------
(* The theorems *)

\* The invariant holds in every state.
LEMMA Invariance == Spec => [](TypeOK /\ Inv)
<1>1. Init => TypeOK /\ Inv
  BY TypeInit, InvInit
<1>2. TypeOK /\ Inv /\ [Next]_vars => (TypeOK /\ Inv)'
  BY TypeStep, Inductive
<1> QED
  BY <1>1, <1>2, PTL DEF Spec

\* The version of a push is a number.
LEMMA PushVersion == ASSUME TypeOK, NEW p \in Pushers PROVE push[p].ver \in Nat
<1>1. push[p] \in PushType
  BY DEF TypeOK
<1>2. push[p].ver \in 0..version /\ version \in Nat
  BY <1>1 DEF PushType, TypeOK
<1> QED
  BY <1>2

\* Versions are ordered.
LEMMA GeqTrans ==
  ASSUME NEW i \in Nat, NEW j \in Nat, NEW k \in Nat, j >= i, j <= k PROVE k >= i
OBVIOUS

\* A push whose notify exits 0 is in the bundle that a restore would take, or in
\* one that `gitd mirror delete` removed, unless the repository had no refs.
THEOREM Mirrored == Spec => []AckMeansMirrored
<1>1. TypeOK /\ Inv => AckMeansMirrored
  <2> SUFFICES ASSUME TypeOK, Inv, NEW p \in Pushers, At(p, "acked"), done[p] # "no refs"
               PROVE  \/ store # {} /\ \A b \in store : IsLatest(b, store) => b.ver >= push[p].ver
                      \/ \E b \in removed : b.ver >= push[p].ver
    BY DEF AckMeansMirrored
  <2>1. done[p] = "uploaded"
    BY DEF Inv, Settled, At
  <2>2. PICK b \in store \cup removed : b.ver >= push[p].ver
    BY <2>1 DEF Inv, Settled
  <2>v. push[p].ver \in Nat
    BY PushVersion
  <2>3. CASE b \in store
    <3>1. ASSUME NEW c \in store, IsLatest(c, store) PROVE c.ver >= push[p].ver
      <4>1. b.ver <= c.ver
        BY <2>3, <3>1 DEF IsLatest, Inv, Ordered
      <4>2. b.ver \in Nat /\ c.ver \in Nat
        BY <2>3 DEF TypeOK, Bundle
      <4> QED
        BY <2>2, <2>v, <4>1, <4>2, GeqTrans
    <3> QED
      BY <2>3, <3>1
  <2> QED
    BY <2>2, <2>3
<1> QED
  BY <1>1, Invariance, PTL

\* The state that a restore would bring back is never replaced by an older one.
THEOREM NeverGoesBack == Spec => MirrorNeverGoesBack
<1>1. TypeOK /\ Inv /\ (TypeOK /\ Inv)' /\ [Next]_vars =>
        [\A b \in store, c \in store' :
           IsLatest(b, store) /\ IsLatest(c, store') => c.ver >= b.ver]_vars
  <2> SUFFICES ASSUME TypeOK, Inv, (TypeOK /\ Inv)', [Next]_vars,
                      NEW b \in store, NEW c \in store',
                      IsLatest(b, store), IsLatest(c, store')
               PROVE  c.ver >= b.ver
    OBVIOUS
  <2>1. b.ver \in Nat /\ c.ver \in Nat
    BY DEF TypeOK, Bundle
  <2>2. CASE b \in store'
    <3>1. b.ver <= c.ver
      BY <2>2 DEF IsLatest, Inv, Ordered
    <3> QED
      BY <2>1, <3>1
  <2>3. CASE b \notin store'
    <3>1. DeleteNext
      BY <2>3 DEF Next, vars, PushStart, PushInit, VerifyHooks, PushFails, ReceivePack,
         PreReceive, UpdateRef, PostReceive, Submit, NotifyFails, NotifyReply, mirror,
         Worker, BundleBegin, BundleRefs, BundleCreate, BundlePut, BundleFails, Put,
         ServeCrash, DeleteList, DeleteFails
    <3>2. PICK k \in delete : (\A l \in delete : k <= l) /\ RemoveKey(k)
      BY <3>1 DEF DeleteNext
    <3>3. b.key = k /\ c \in store /\ c.key # k
      BY <2>3, <3>2 DEF RemoveKey
    <3>4. c.key \in Nat /\ k \in Nat
      BY <3>3 DEF TypeOK, Bundle
    <3>5. c.key <= k
      BY <3>3 DEF IsLatest
    <3>6. c.key \in delete \/ k < c.key
      BY <3>3 DEF Inv, OldestListed
    <3> QED
      BY <3>2, <3>3, <3>4, <3>5, <3>6
  <2> QED
    BY <2>2, <2>3
<1> QED
  BY <1>1, Invariance, PTL DEF Spec, MirrorNeverGoesBack

\* A version that is one further is later than all before it.
LEMMA Later == ASSUME NEW n \in Nat, NEW i \in 0..n PROVE n + 1 > i
OBVIOUS

\* The version of a push is settled once its bundle action is submitted.
LEMMA VersionSettled ==
  ASSUME TypeOK, Inv, [Next]_vars, NEW q \in Pushers, push[q].pc \in {"wait", "failed", "acked"}
  PROVE  push'[q].ver = push[q].ver
<1>t. push \in [Pushers -> PushType]
  BY DEF TypeOK
<1>1. ASSUME NEW p \in Pushers,
             \/ PushStart(p) \/ PushInit(p) \/ VerifyHooks(p) \/ PushFails(p)
             \/ ReceivePack(p) \/ PreReceive(p) \/ UpdateRef(p) \/ PostReceive(p)
             \/ NotifyFails(p) \/ NotifyReply(p)
      PROVE  push'[q].ver = push[q].ver
  BY <1>1, FrontMoves DEF Moves
<1>2. ASSUME NEW p \in Pushers, Submit(p) PROVE push'[q].ver = push[q].ver
  <2>1. p # q /\ Goto(p, "wait")
    BY <1>2 DEF Submit, At
  <2> QED
    BY <1>t, <2>1 DEF Goto
<1>3. CASE ServeCrash
  <2>1. push'[q] = IF push[q].pc = "wait" THEN [push[q] EXCEPT !.pc = "failed"] ELSE push[q]
    BY <1>3 DEF ServeCrash, At
  <2>2. push[q] \in PushType
    BY <1>t
  <2> QED
    BY <2>1, <2>2 DEF PushType
<1>4. CASE Worker \/ DeleteList \/ DeleteNext \/ DeleteFails \/ UNCHANGED vars
  BY <1>4 DEF Worker, BundleBegin, BundleRefs, BundleCreate, BundlePut, BundleFails,
     DeleteList, DeleteNext, RemoveKey, DeleteFails, vars
<1> QED
  BY <1>1, <1>2, <1>3, <1>4 DEF Next

\* The refs move together with the version.
LEMMA RefsMove == ASSUME [Next]_vars PROVE UNCHANGED <<refs, version>> \/ version' = version + 1
<1>1. ASSUME NEW p \in Pushers, UpdateRef(p)
      PROVE  UNCHANGED <<refs, version>> \/ version' = version + 1
  BY <1>1 DEF UpdateRef
<1>2. CASE ~\E p \in Pushers : UpdateRef(p)
  BY <1>2 DEF Next, vars, PushStart, PushInit, VerifyHooks, PushFails, ReceivePack,
     PreReceive, PostReceive, Submit, NotifyFails, NotifyReply,
     Worker, BundleBegin, BundleRefs, BundleCreate, BundlePut, BundleFails,
     ServeCrash, DeleteList, DeleteNext, RemoveKey, DeleteFails
<1> QED
  BY <1>1, <1>2

\* Only CreateBundle finds a repository without refs.
LEMMA NoRefsFound ==
  ASSUME TypeOK, Inv, [Next]_vars, NEW q \in Pushers, done[q] # "no refs", done'[q] = "no refs"
  PROVE  \A r \in Refs : refs'[r] = Zero
<1>1. CASE BundleRefs
  BY <1>1 DEF BundleRefs
<1>2. CASE BundlePut \/ BundleFails
  <2>1. PICK result \in {"uploaded", "failed"} : Finish(result) \/ UNCHANGED done
    BY <1>2 DEF BundlePut, BundleFails
  <2> QED
    BY <2>1 DEF Finish, TypeOK
<1>3. CASE ServeCrash
  BY <1>3 DEF ServeCrash
<1>4. ASSUME NEW p \in Pushers,
             \/ PushStart(p) \/ PushInit(p) \/ VerifyHooks(p) \/ PushFails(p)
             \/ ReceivePack(p) \/ PreReceive(p) \/ UpdateRef(p) \/ PostReceive(p)
             \/ NotifyFails(p) \/ NotifyReply(p)
      PROVE  FALSE
  BY <1>4, FrontMoves DEF mirror
<1>5. CASE \/ BundleBegin \/ BundleCreate \/ DeleteList \/ DeleteNext \/ DeleteFails
           \/ (\E p \in Pushers : Submit(p)) \/ UNCHANGED vars
  BY <1>5 DEF BundleBegin, BundleCreate, DeleteList, DeleteNext, RemoveKey, DeleteFails,
     Submit, vars
<1> QED
  BY <1>1, <1>2, <1>3, <1>4, <1>5 DEF Next, Worker

\* A push whose bundle action finds no refs left the repository empty, or another
\* push has moved a ref after it.
THEOREM EmptiedOnly == Spec => []NoRefsMeansEmptied
<1>1. Init => NoRefsMeansEmptied
  BY DEF Init, NoRefsMeansEmptied
<1>2. TypeOK /\ TypeOK' /\ Inv /\ NoRefsMeansEmptied /\ [Next]_vars => NoRefsMeansEmptied'
  <2> SUFFICES ASSUME TypeOK, TypeOK', Inv, NoRefsMeansEmptied, [Next]_vars,
                      NEW q \in Pushers, done'[q] = "no refs"
               PROVE  version' > push'[q].ver \/ \A r \in Refs : refs'[r] = Zero
    BY DEF NoRefsMeansEmptied
  <2>1. CASE done[q] # "no refs"
    BY <2>1, NoRefsFound
  <2>2. CASE done[q] = "no refs"
    <3>1. push[q].pc \in {"wait", "failed", "acked"}
      BY <2>2 DEF Inv, Settled
    <3>2. push'[q].ver = push[q].ver
      BY <3>1, VersionSettled
    <3>3. version > push[q].ver \/ \A r \in Refs : refs[r] = Zero
      BY <2>2 DEF NoRefsMeansEmptied
    <3>4. push[q].ver \in 0..version /\ version \in Nat
      <4>1. push[q] \in PushType
        BY DEF TypeOK
      <4> QED
        BY <4>1 DEF PushType, TypeOK
    <3>5. CASE UNCHANGED <<refs, version>>
      BY <3>2, <3>3, <3>5
    <3>6. CASE version' = version + 1
      <4>1. version + 1 > push[q].ver
        BY <3>4, Later
      <4> QED
        BY <3>2, <3>6, <4>1
    <3> QED
      BY <3>5, <3>6, RefsMove
  <2> QED
    BY <2>1, <2>2
<1> QED
  BY <1>1, <1>2, Invariance, PTL DEF Spec

\* A push comes to update its refs only through the policies, and then it only
\* drops refs from its list.
LEMMA CheckedStep ==
  ASSUME Hooks, TypeOK, Checked, [Next]_vars
  PROVE  Checked'
<1>p. push \in [Pushers -> PushType]
  BY DEF TypeOK
<1>c. \A q \in Pushers : push[q].pc = "update" => EngineEvaluate(push[q])
  BY DEF Checked, At
<1> SUFFICES ASSUME NEW q \in Pushers, push'[q].pc = "update" PROVE EngineEvaluate(push'[q])
  BY DEF Checked, At, EngineEvaluate, Evaluate
<1>1. ASSUME NEW p \in Pushers, NEW pc, Goto(p, pc), pc = "update" => EngineEvaluate(push[p])
      PROVE  EngineEvaluate(push'[q])
  <2>1. CASE q # p
    <3>1. push'[q] = push[q]
      BY <1>p, <1>1, <2>1 DEF Goto
    <3> QED
      BY <1>c, <3>1
  <2>2. CASE q = p
    <3>1. push[p] \in PushType /\ push'[p] = [push[p] EXCEPT !.pc = pc]
      BY <1>p, <1>1 DEF Goto
    <3>2. /\ push'[p].pc = pc /\ push'[p].todo = push[p].todo
          /\ push'[p].old = push[p].old /\ push'[p].new = push[p].new
      BY <3>1 DEF PushType
    <3> QED
      BY <1>1, <2>2, <3>2 DEF EngineEvaluate
  <2> QED
    BY <2>1, <2>2
<1>2. ASSUME NEW p \in Pushers,
             \/ PushStart(p) \/ PushInit(p) \/ VerifyHooks(p) \/ PushFails(p)
             \/ PostReceive(p) \/ Submit(p) \/ NotifyFails(p) \/ NotifyReply(p)
      PROVE  EngineEvaluate(push'[q])
  <2>1. PICK pc : Goto(p, pc) /\ pc # "update"
    BY <1>2 DEF PushStart, PushInit, VerifyHooks, PushFails, PostReceive, Submit, NotifyFails,
       NotifyReply
  <2> QED
    BY <1>1, <2>1
<1>3. ASSUME NEW p \in Pushers, PreReceive(p) PROVE EngineEvaluate(push'[q])
  <2>1. PICK pc : Goto(p, pc) /\ (pc = "update" => EngineEvaluate(push[p]))
    BY <1>3 DEF PreReceive
  <2> QED
    BY <1>1, <2>1
<1>4. ASSUME NEW p \in Pushers, ReceivePack(p) PROVE EngineEvaluate(push'[q])
  <2>1. PICK new \in [Refs -> Commits \cup {Zero}] :
          push' = [push EXCEPT ![p] =
            [@ EXCEPT !.pc = IF Hooks THEN "preReceive" ELSE "update", !.old = refs,
                      !.new = new, !.todo = {r \in Refs : new[r] # refs[r]}]]
    BY <1>4 DEF ReceivePack
  <2>2. [push[p] EXCEPT !.pc = IF Hooks THEN "preReceive" ELSE "update", !.old = refs,
                        !.new = new, !.todo = {r \in Refs : new[r] # refs[r]}].pc = "preReceive"
    <3>1. push[p] \in PushType
      BY <1>p
    <3> QED
      BY <3>1 DEF PushType
  <2>3. q # p /\ push'[q] = push[q]
    BY <1>p, <2>1, <2>2
  <2> QED
    BY <1>c, <2>3
<1>5. ASSUME NEW p \in Pushers, UpdateRef(p) PROVE EngineEvaluate(push'[q])
  <2>1. PICK r \in push[p].todo :
          \/ push' = [push EXCEPT ![p] =
               [push[p] EXCEPT !.todo = push[p].todo \ {r}, !.ver = version + 1]]
          \/ push' = [push EXCEPT ![p].todo = @ \ {r}]
    BY <1>5 DEF UpdateRef
  <2>2. CASE q # p
    <3>1. push'[q] = push[q]
      BY <1>p, <2>1, <2>2
    <3> QED
      BY <1>c, <3>1
  <2>3. CASE q = p
    <3>1. /\ push'[p].todo \subseteq push[p].todo
          /\ push'[p].old = push[p].old /\ push'[p].new = push[p].new
      <4>1. push[p] \in PushType
        BY <1>p
      <4>2. \/ push'[p] = [push[p] EXCEPT !.todo = push[p].todo \ {r}, !.ver = version + 1]
            \/ push'[p] = [push[p] EXCEPT !.todo = push[p].todo \ {r}]
        BY <1>p, <2>1
      <4> QED
        BY <4>1, <4>2 DEF PushType
    <3>2. EngineEvaluate(push[p])
      BY <1>5, <1>c DEF UpdateRef, At
    <3> QED
      BY <2>3, <3>1, <3>2 DEF EngineEvaluate
  <2> QED
    BY <2>2, <2>3
<1>6. CASE ServeCrash
  <2>1. push'[q] = IF push[q].pc = "wait" THEN [push[q] EXCEPT !.pc = "failed"] ELSE push[q]
    BY <1>6 DEF ServeCrash, At
  <2>2. push[q] \in PushType
    BY <1>p
  <2>3. push'[q] = push[q]
    BY <2>1, <2>2 DEF PushType
  <2> QED
    BY <1>c, <2>3
<1>7. CASE Worker \/ DeleteList \/ DeleteNext \/ DeleteFails \/ UNCHANGED vars
  <2>1. push' = push
    BY <1>7 DEF Worker, BundleBegin, BundleRefs, BundleCreate, BundlePut, BundleFails,
       DeleteList, DeleteNext, RemoveKey, DeleteFails, vars
  <2> QED
    BY <1>c, <2>1
<1> QED
  BY <1>2, <1>3, <1>4, <1>5, <1>6, <1>7 DEF Next

\* With the hooks in place, a guarded branch moves only to a descendant of the
\* commit it points to, however many pushes are between their check and their
\* update.
THEOREM ForwardOnly == ASSUME Hooks PROVE Spec => GuardedFastForward
<1>1. Init => Checked
  BY DEF Init, Checked, At, NewPush
<1>2. TypeOK /\ Checked /\ [Next]_vars => Checked'
  BY CheckedStep
<1>3. TypeOK /\ Checked /\ [Next]_vars =>
        [\A r \in Guarded : refs[r] # Zero /\ refs'[r] \notin {Zero, refs[r]}
           => <<refs[r], refs'[r]>> \in Ancestor]_vars
  <2> SUFFICES ASSUME TypeOK, Checked, [Next]_vars, NEW r \in Guarded,
                      refs[r] # Zero, refs'[r] # Zero, refs'[r] # refs[r]
               PROVE  <<refs[r], refs'[r]>> \in Ancestor
    OBVIOUS
  <2>1. PICK p \in Pushers : UpdateRef(p)
    BY DEF Next, vars, PushStart, PushInit, VerifyHooks, PushFails, ReceivePack,
       PreReceive, PostReceive, Submit, NotifyFails, NotifyReply,
       Worker, BundleBegin, BundleRefs, BundleCreate, BundlePut, BundleFails,
       ServeCrash, DeleteList, DeleteNext, RemoveKey, DeleteFails
  <2>2. PICK s \in push[p].todo :
          refs[s] = push[p].old[s] /\ refs' = [refs EXCEPT ![s] = push[p].new[s]]
    BY <2>1 DEF UpdateRef
  <2>3. refs \in [Refs -> Commit]
    BY DEF TypeOK
  <2>4. s = r /\ refs'[r] = push[p].new[r]
    BY <2>2, <2>3, PushMirrorAssumption
  <2>5. Evaluate(r, push[p].old[r], push[p].new[r])
    BY <2>1, <2>2, <2>4 DEF Checked, UpdateRef, At, EngineEvaluate
  <2> QED
    BY <2>2, <2>4, <2>5 DEF Evaluate
<1> QED
  BY <1>1, <1>2, <1>3, TypeCorrect, PTL DEF Spec, GuardedFastForward
==============================================================================
