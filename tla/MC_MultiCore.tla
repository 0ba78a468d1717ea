----------------------------- MODULE MC_MultiCore -----------------------------
(* MultiCore for TLC; the constants are set in the cfg file.                 *)
EXTENDS MultiCore
===============================================================================
