------------------------ MODULE MCConcurrentApproval ------------------------
(* open -> won, which two have to sign, and then won -> filed; or open -> lost. *)
EXTENDS ConcurrentApproval

CONSTANTS c1, c2, object, open, won, lost, filed, winning, losing, filing,
          leader, manager, closed, clerk

MCSource == [t \in Transition |-> IF t = filing THEN won ELSE open]
MCDestination ==
  [t \in Transition |-> CASE t = winning -> won [] t = losing -> lost [] t = filing -> filed]
MCIteration == [t \in Transition |-> IF t = filing THEN 1 ELSE 0]
MCTransitionOf ==
  [a \in Approval |-> CASE a = clerk -> filing [] a = closed -> losing [] OTHER -> winning]
MCPriority == [a \in Approval |-> IF a = manager THEN 1 ELSE 0]
MCMaySign == [c \in Call |-> IF c = c1 THEN Approval \ {closed} ELSE Approval]
=============================================================================
