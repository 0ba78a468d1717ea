------------------------------ MODULE TimerWheel ------------------------------
(***************************************************************************)
(* The timer wheel of src/timer/mod.rs, as a Cpu owns it: schedule and     *)
(* cancel at any time, expire with the current time on every tick.  Time   *)
(* is in milliseconds since start_time.  A slot's VecDeque is the set of   *)
(* the timers in it: the order in which one expire hands over wakers is    *)
(* not modelled.                                                           *)
(***************************************************************************)
EXTENDS Clock, FiniteSets

CONSTANTS num_slots, resolution_ms,
          MaxTimers    \* bound: calls of schedule; MaxTime bounds the deadlines

ASSUME WheelAssumption ==
    /\ num_slots \in Nat \ {0} /\ resolution_ms \in Nat \ {0}
    /\ MaxTimers \in Nat

VARIABLES
    slots,          \* slots[s]: the ids of the timers in slot s
    current_slot,   \* the hand
    TIMER_COUNTER,  \* the next TimerId
    \* what the properties look back on
    deadline,       \* deadline[i]: the at timer i was scheduled with
    behind,         \* timers scheduled for a slot the hand had already passed
    fired, removed  \* the timers expire handed over, and those cancel took out

wheelVars == <<slots, current_slot, now, TIMER_COUNTER, deadline, behind, fired,
               removed>>

Slot == 0..(num_slots - 1)
Issued == 1..(TIMER_COUNTER - 1)
Pending == UNION {slots[s] : s \in Slot}

\* The resolution steps between start_time and a time.
Offset(at) == at \div resolution_ms

WheelInit ==
    /\ slots = [s \in Slot |-> {}] /\ current_slot = 0 /\ now = 0
    /\ TIMER_COUNTER = 1
    /\ deadline = [i \in 1..MaxTimers |-> 0] /\ behind = {}
    /\ fired = {} /\ removed = {}

calculate_slot(at) == Offset(at) % num_slots

Schedule(at) ==
    /\ TIMER_COUNTER <= MaxTimers
    /\ TIMER_COUNTER' = TIMER_COUNTER + 1
    /\ slots' = [slots EXCEPT ![calculate_slot(at)] = @ \cup {TIMER_COUNTER}]
    /\ deadline' = [deadline EXCEPT ![TIMER_COUNTER] = at]
    /\ behind' = IF Offset(at) < current_slot THEN behind \cup {TIMER_COUNTER}
                 ELSE behind
    /\ UNCHANGED <<current_slot, now, fired, removed>>

\* cancel returns false, and changes nothing, when no slot holds the timer.
Cancel(i) ==
    /\ i \in Pending
    /\ slots' = [s \in Slot |-> slots[s] \ {i}]
    /\ removed' = removed \cup {i}
    /\ UNCHANGED <<current_slot, now, TIMER_COUNTER, deadline, behind, fired>>

\* Faulty variant: the wakers are handed over and the entries stay.
SweepKeeps(S, h) ==
    /\ fired' = fired \cup UNION {slots[s] : s \in S}
    /\ current_slot' = h
    /\ UNCHANGED slots

\* The slots in S are emptied into the ready vector, the hand moves to h.
Sweep(S, h) ==
    /\ slots' = [s \in Slot |-> IF s \in S THEN {} ELSE slots[s]]
    /\ fired' = fired \cup UNION {slots[s] : s \in S}
    /\ current_slot' = h

\* The slots the hand passes on its way to slot h, h itself excluded.
Passed(h) == {(current_slot + k) % num_slots :
                 k \in 0..(((h + num_slots - current_slot) % num_slots) - 1)}

\* Faulty variant: the sweep includes the slot the hand arrives at.
ExpireWithinInclusive ==
    /\ Offset(now) < num_slots
    /\ Sweep(Passed(Offset(now)) \cup {Offset(now)}, Offset(now))

\* Faulty variant: the hand jumps, and only its old slot is swept.
ExpireWithinJump ==
    /\ Offset(now) < num_slots
    /\ Sweep({current_slot} \ {Offset(now)}, Offset(now))

\* Before the clock has gone round once: sweep up to the target slot.
ExpireWithin ==
    /\ Offset(now) < num_slots
    /\ Sweep(Passed(Offset(now)), Offset(now))

\* Faulty variant: the full round is one slot short.
ExpirePastShort ==
    /\ Offset(now) >= num_slots
    /\ Sweep(Slot \ {current_slot}, (current_slot + num_slots) % num_slots)

\* Ever after: one slot, then all num_slots of them, and stop.
ExpirePast ==
    /\ Offset(now) >= num_slots
    /\ Sweep(Slot, (current_slot + 1 + num_slots) % num_slots)

Expire ==
    /\ ExpireWithin \/ ExpirePast
    /\ UNCHANGED <<now, TIMER_COUNTER, deadline, behind, removed>>

Advance ==
    /\ now < MaxTime
    /\ now' = now + 1
    /\ UNCHANGED <<slots, current_slot, TIMER_COUNTER, deadline, behind, fired,
                   removed>>

WheelNext ==
    \/ \E at \in 0..MaxTime : Schedule(at)
    \/ \E i \in Issued : Cancel(i)
    \/ Expire
    \/ Advance

WheelSpec == WheelInit /\ [][WheelNext]_wheelVars

\* Time passes and every tick of the owner's loop calls expire.
FairWheelSpec == WheelSpec /\ WF_wheelVars(Advance) /\ WF_wheelVars(Expire)

-----------------------------------------------------------------------------
(* Properties.                                                             *)

\* No timer is lost, duplicated or fired twice: a TimerId handed out is in
\* exactly one slot, or was fired, or was cancelled, and only one of these.
OnePlace ==
    /\ slots \in [Slot -> SUBSET Issued] /\ current_slot \in Slot
    /\ \A i \in Issued :
          \/ i \in Pending /\ i \notin fired \cup removed
          \/ i \notin Pending /\ (i \in fired <=> i \notin removed)
    /\ \A s, u \in Slot : s # u => slots[s] \cap slots[u] = {}

\* The wheel can tell the deadline of timer i from the others in its slot.
WithinWheel(i) == Offset(deadline[i]) < num_slots

\* A timer whose deadline lies on the wheel's first round fires no earlier than
\* its deadline, wherever the hand was when it was scheduled.
NotEarly == [][\A i \in fired' \ fired : WithinWheel(i) => now >= deadline[i]]_wheelVars

\* expire leaves no timer pending whose slot has passed, unless it was scheduled
\* behind the hand.
NotLate ==
    [][current_slot' # current_slot \/ fired' # fired =>
          \A i \in Pending' :
              Offset(deadline[i]) >= Offset(now) \/ i \in behind]_wheelVars

\* Every timer fires or is cancelled, those behind the hand included: at the
\* latest when the clock has gone round once.
TimersFire ==
    \A i \in 1..MaxTimers : (i \in Pending) ~> (i \notin Pending)

\* timer/mod.rs: schedule "Schedules a timer to expire at the specified time".
ExpiresAtTime == [][\A i \in fired' \ fired : now >= deadline[i]]_wheelVars
=============================================================================
