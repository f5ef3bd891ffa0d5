---------------------------- MODULE SerialExecutor ----------------------------
(***************************************************************************)
(* What serve promises of its actions channel: every accepted action is run *)
(* at most once, one at a time and in the order of acceptance, and a client *)
(* is answered only after its action has run.                              *)
(***************************************************************************)
EXTENDS Sequences

CONSTANTS
  Clients,    \* requests, each with one action
  Internal,   \* actions nobody waits for
  None

VARIABLES
  pending,    \* accepted actions, oldest first
  running,    \* the action in execution, or None
  result      \* client -> "new", "accepted", "ran", "answered"

vars == <<pending, running, result>>

Init ==
  /\ pending = <<>>
  /\ running = None
  /\ result = [c \in Clients |-> "new"]

Accept(c) ==
  /\ result[c] = "new"
  /\ pending' = Append(pending, c)
  /\ result' = [result EXCEPT ![c] = "accepted"]
  /\ UNCHANGED running

AcceptInternal(a) == pending' = Append(pending, a) /\ UNCHANGED <<running, result>>

Begin ==
  /\ running = None
  /\ pending # <<>>
  /\ running' = Head(pending)
  /\ pending' = Tail(pending)
  /\ UNCHANGED result

End ==
  /\ running # None
  /\ running' = None
  /\ result' = [c \in Clients |-> IF c = running THEN "ran" ELSE result[c]]
  /\ UNCHANGED pending

Answer(c) ==
  /\ result[c] = "ran"
  /\ result' = [result EXCEPT ![c] = "answered"]
  /\ UNCHANGED <<pending, running>>

Next ==
  \/ \E c \in Clients : Accept(c) \/ Answer(c)
  \/ \E a \in Internal : AcceptInternal(a)
  \/ Begin \/ End

Spec == Init /\ [][Next]_vars
==============================================================================
