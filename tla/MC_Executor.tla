----------------------------- MODULE MC_Executor -----------------------------
(* Executor for TLC: two tasks, one awaited by each kind of block_on.       *)
EXTENDS Executor
=============================================================================
