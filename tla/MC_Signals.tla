------------------------------ MODULE MC_Signals ------------------------------
(* Signals for TLC: two CPUs whose tasks send to both of them.               *)
EXTENDS Signals
===============================================================================
