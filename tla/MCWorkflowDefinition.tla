------------------------ MODULE MCWorkflowDefinition ------------------------
(* Small definitions of a workflow.                                         *)
EXTENDS WorkflowDefinition, TLC

CONSTANTS a, b, c

MCSubject == <<"order", "status">>
MCField == {MCSubject}

\* A way on and a way back.
MCEdge == {<<a, b>>, <<b, c>>, <<b, a>>}

\* Rows of the same kind are alike.
MCSymmetry == Permutations(Meta) \cup Permutations(Rule)
=============================================================================
