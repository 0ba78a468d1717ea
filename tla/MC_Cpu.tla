-------------------------------- MODULE MC_Cpu --------------------------------
(* Cpu for TLC; the constants are set in the cfg files.                      *)
EXTENDS Cpu
===============================================================================
