-------------------------- MODULE MCObjectLifecycle --------------------------
(* Two state fields; each workflow has two states.                          *)
EXTENDS ObjectLifecycle

CONSTANTS p1, p2

MCTwo == <<"status", "review">>
MCBoth == {"status", "review"}
MCInitial == [f \in StateField |-> "draft"]
MCMoved == [f \in StateField |-> "done"]
=============================================================================
