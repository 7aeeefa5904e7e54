--------------------------- MODULE MCHookDispatch ---------------------------
(* Edges that one user signs, and one that needs two signatures.             *)
EXTENDS HookDispatch

MCSignatures == <<1, 2, 1>>
=============================================================================
