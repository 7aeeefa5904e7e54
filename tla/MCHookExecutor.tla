--------------------------- MODULE MCHookExecutor ---------------------------
(* Two requests, one of them with two hooks.                                 *)
EXTENDS HookExecutor

CONSTANTS r1, r2

MCHooks == [r \in {r1, r2} |-> IF r = r1 THEN 2 ELSE 1]
=============================================================================
