-------------------------------- MODULE MC_Io --------------------------------
(* Io for TLC: both loops, three operations, one of them with an address.    *)
EXTENDS Io
==============================================================================
