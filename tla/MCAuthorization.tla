-------------------------- MODULE MCAuthorization ---------------------------
(* Two signatures in turn.  Rules ask for a permission, for one of two groups, *)
(* or for both a permission and a group.                                      *)
EXTENDS Authorization, TLC

CONSTANTS ann, bob, g1, g2, p1, p2, r1, r2, o1

MCName == [p \in {p1, p2} |-> "app.may_sign"]
MCGroupPermission == [g \in {g1, g2} |-> IF g = g1 THEN {p1} ELSE {}]
MCPriority == [r \in {r1, r2} |-> IF r = r1 THEN 1 ELSE 2]
MCPolicy == {[permissions |-> {p2}, groups |-> {}],
             [permissions |-> {}, groups |-> {g1, g2}],
             [permissions |-> {p1}, groups |-> {g2}]}
MCSymmetry == Permutations({ann, bob})
=============================================================================
