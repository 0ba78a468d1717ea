---------------------------- MODULE TaskLifecycle ----------------------------
(***************************************************************************)
(* What every executor of the runtime promises a task, with no queue, no   *)
(* channel and no waker in sight.  A task is accepted at most once; while  *)
(* it is live a worker thread may poll it, one worker at a time and one    *)
(* task per worker; a poll ends with the task suspended, finished or, if   *)
(* it panicked, dropped.  A finished or dropped future is never polled     *)
(* again: that is the contract of Future::poll, and breaking it makes an   *)
(* async block panic.  Cpu, Executor and MultiCore each implement this.    *)
(***************************************************************************)
CONSTANTS Task,     \* the futures handed to the executor
          Worker,   \* the threads that poll them
          None      \* no task

VARIABLES phase,    \* phase[t]: "fresh", "live", "finished" or "dropped"
          polling   \* polling[w]: the task worker w is inside the poll of

vars == <<phase, polling>>

Live == {t \in Task : phase[t] = "live"}
Polled == {polling[w] : w \in Worker} \ {None}

Init ==
    /\ phase = [t \in Task |-> "fresh"]
    /\ polling = [w \in Worker |-> None]

Accept(t) ==
    /\ phase[t] = "fresh"
    /\ phase' = [phase EXCEPT ![t] = "live"]
    /\ UNCHANGED polling

BeginPoll(w, t) ==
    /\ polling[w] = None
    /\ t \in Live \ Polled
    /\ polling' = [polling EXCEPT ![w] = t]
    /\ UNCHANGED phase

Suspend(w) ==
    /\ polling[w] # None
    /\ polling' = [polling EXCEPT ![w] = None]
    /\ UNCHANGED phase

Finish(w) ==
    /\ polling[w] # None
    /\ phase' = [phase EXCEPT ![polling[w]] = "finished"]
    /\ polling' = [polling EXCEPT ![w] = None]

\* A worker drops tasks nobody is polling (cancellation, an overwritten map
\* entry, an executor that stops), and the one it polls only by unwinding.
Discard(w, S) ==
    /\ S # {}
    /\ S \subseteq Live
    /\ S \cap Polled \subseteq {polling[w]}
    /\ phase' = [t \in Task |-> IF t \in S THEN "dropped" ELSE phase[t]]
    /\ polling' = [polling EXCEPT ![w] = IF @ \in S THEN None ELSE @]

Next ==
    \/ \E t \in Task : Accept(t)
    \/ \E w \in Worker : \/ \E t \in Task : BeginPoll(w, t)
                         \/ Suspend(w)
                         \/ Finish(w)
                         \/ \E S \in SUBSET Task : Discard(w, S)

Spec == Init /\ [][Next]_vars
=============================================================================
