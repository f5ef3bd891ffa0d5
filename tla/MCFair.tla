-------------------------------- MODULE MCFair --------------------------------
(***************************************************************************)
(* The parts that are checked under fairness, for TLC: the reload of the   *)
(* configuration, and the delivery of an event.  They share nothing, so    *)
(* that a behaviour is one of the part it begins with.  In its initial     *)
(* state neither part has a step that its fairness would ask for.          *)
(***************************************************************************)
EXTENDS ConfigReload, Sequences

CONSTANTS e1, p1, p2, Budget, None

VARIABLES
  part,
  config, spool, written, old, actions, worker, req, cliPurge, serve, startIds,
  loop, accepted, finalFail

\* One event; a webhooks.yaml with no plugin, and one with both in file order.
Events == INSTANCE Delivery WITH
  Events <- {e1}, Plugins <- {p1, p2}, Configs <- {<<>>, <<p1, p2>>},
  BufferSize <- 2, Requests <- {}

delivery == <<config, spool, written, old, actions, worker, req, cliPurge, serve, startIds,
              loop, accepted, finalFail>>

PartsInit == part \in {"reload", "delivery"} /\ Init /\ Events!Init

Reloading == part = "reload" /\ Next /\ UNCHANGED part /\ UNCHANGED delivery

Delivering == part = "delivery" /\ Events!Next /\ UNCHANGED part /\ UNCHANGED vars

PartsSpec ==
  /\ PartsInit
  /\ [][Reloading \/ Delivering]_<<part, vars, delivery>>
  /\ WF_vars(Reload)
  /\ Events!Fairness

\* While serve is up with its sweep loop and the worker is not hindered, every pending
\* event is delivered or dead-lettered in the end.
EventuallySettled == Events!EventuallySettled
==============================================================================
