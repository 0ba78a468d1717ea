---------------------------- MODULE MC_TimerWheel ----------------------------
(* TimerWheel for TLC: a wheel of a few slots that the clock rounds twice.  *)
EXTENDS TimerWheel
=============================================================================
