-------------------------- MODULE MCFunctionTimeout --------------------------
(* The main thread and a worker of the pool of executors.py.                *)
EXTENDS FunctionTimeout

CONSTANTS main, worker
=============================================================================
