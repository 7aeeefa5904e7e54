------------------------- MODULE MCInstanceWorkflow -------------------------
(***************************************************************************)
(* Small workflows for InstanceWorkflow.  A workflow is a function from    *)
(* edge names to pairs of states and one from rule names to <<edge,        *)
(* priority, the users who may sign it>>.                                  *)
(***************************************************************************)
EXTENDS InstanceWorkflow

Sources(edges) == [m \in DOMAIN edges |-> edges[m][1]]
Destinations(edges) == [m \in DOMAIN edges |-> edges[m][2]]
RuleMetas(signers) == [r \in DOMAIN signers |-> signers[r][1]]
Priorities(signers) == [r \in DOMAIN signers |-> signers[r][2]]
MatchesOf(signers, users) ==
  [u \in users |-> [r \in DOMAIN signers |-> IF u \in signers[r][3] THEN 1 ELSE 0]]

\* Two ways from a to c, one of them with an exit to d, and back again: the edges
\* of one round meet again in a later one.
LoopEdges == [ab |-> <<"a", "b">>, ac |-> <<"a", "c">>, bc |-> <<"b", "c">>,
              bd |-> <<"b", "d">>, ca |-> <<"c", "a">>]
LoopRules == [ab0 |-> <<"ab", 0, {"u1"}>>, ac0 |-> <<"ac", 0, {"u1"}>>,
              ac1 |-> <<"ac", 1, {"u2"}>>, bc0 |-> <<"bc", 0, {"u2"}>>,
              bd0 |-> <<"bd", 0, {"u1"}>>, ca0 |-> <<"ca", 0, {"u2"}>>]
LoopState == {"a", "b", "c", "d"}
LoopMeta == DOMAIN LoopEdges
LoopSource == Sources(LoopEdges)
LoopDestination == Destinations(LoopEdges)
LoopRule == DOMAIN LoopRules
LoopRuleMeta == RuleMetas(LoopRules)
LoopPriority == Priorities(LoopRules)
LoopMatches == MatchesOf(LoopRules, {"u1", "u2"})
LoopLabel == [s \in LoopState |-> s]

=============================================================================
