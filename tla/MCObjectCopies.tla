--------------------------- MODULE MCObjectCopies ---------------------------
(***************************************************************************)
(* Copies of one object in the smallest workflow in which a copy that is   *)
(* not current matters and edges are re-created: a leads to b; from b, two *)
(* signatures lead to c and one back to a.                                 *)
(***************************************************************************)
EXTENDS ObjectCopies

SmallEdges == [ab |-> <<"a", "b">>, bc |-> <<"b", "c">>, ba |-> <<"b", "a">>]
SmallRules == [ab0 |-> "ab", bc0 |-> "bc", bc1 |-> "bc", ba0 |-> "ba"]
SmallState == {"a", "b", "c"}
SmallMeta == DOMAIN SmallEdges
SmallSource == [m \in SmallMeta |-> SmallEdges[m][1]]
SmallDestination == [m \in SmallMeta |-> SmallEdges[m][2]]
SmallRule == DOMAIN SmallRules
SmallPriority == [r \in SmallRule |-> IF r = "bc1" THEN 1 ELSE 0]
SmallMatches == [u \in {"u1"} |-> [r \in SmallRule |-> 1]]
SmallLabel == [s \in SmallState |-> s]
=============================================================================
