------------------------------ MODULE MC_Timers ------------------------------
(* Timers for TLC: all futures under the loops a run is about.              *)
EXTENDS Timers
==============================================================================
