-------------------------- MODULE MCFunctionReview --------------------------
(* Two processes that run the same source code.                              *)
EXTENDS FunctionReview

CONSTANTS p1, p2, ann, bob, b1, b2

MCCodeBody == [p \in Process |-> b1]

=============================================================================
