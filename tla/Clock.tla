-------------------------------- MODULE Clock --------------------------------
(* The clock that the timer wheel and the timer futures read.                *)
EXTENDS Naturals

CONSTANT MaxTime   \* bound: the clock stops here

ASSUME ClockAssumption == MaxTime \in Nat

VARIABLE now       \* Instant::now()
==============================================================================
