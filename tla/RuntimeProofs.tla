----------------------------- MODULE RuntimeProofs -----------------------------
(***************************************************************************)
(* Theorems about the single-threaded runtime and its timers.  About       *)
(* Executor and JoinHandle, for any tasks, polls and wakers:               *)
(* AwaitFaithful, and that the executor implements TaskLifecycle.  About   *)
(* TimerWheel, for any number of slots, any resolution and any number of   *)
(* timers: OnePlace, NotEarly and NotLate.  About Timers, for any lengths, *)
(* periods and movements of the clock: NeverEarly and TicksExact.          *)
(***************************************************************************)
EXTENDS Executor, TimerWheel, Timers, TLAPS

-----------------------------------------------------------------------------
(* The executor.                                                           *)

HolderState == {"none", "holding", "polling", "parked", "returned", "dropped"}

\* Where a spawned task is: in the map, inside its poll, finished, panicked, or
\* gone with the Executor.
Places ==
    /\ spawned \subseteq Task /\ tasks \subseteq spawned /\ cur \in spawned \cup {None}
    /\ finished \subseteq spawned /\ panicked \subseteq spawned
    /\ cur \notin tasks \cup finished \cup panicked /\ tasks \cap (finished \cup panicked) = {}
    /\ pc \in {"poll", "armed", "sent"} <=> cur # None
    /\ pc = "dropped" => tasks = {}
    /\ pc # "dropped" => spawned \subseteq tasks \cup {cur} \cup finished \cup panicked

HandleTypes ==
    /\ value \in [Task -> BOOLEAN] /\ sender \in [Task -> BOOLEAN]
    /\ holder \in [Task -> HolderState] /\ outcome \in [Task -> {"none", "Ok", "Cancelled"}]

\* The result of t has been sent.
Sent(t) == t \in finished \/ (t = cur /\ pc = "sent")

\* The channel agrees with the place of the task: the Sender lives with the
\* future, and a result that was sent is there unless somebody took it.
Channels ==
    \A t \in Task : /\ sender[t] <=> t \in tasks \cup {cur}
                    /\ value[t] => Sent(t)
                    /\ Sent(t) => \/ value[t] \/ t \in taken
                                  \/ holder[t] \in {"dropped", "returned"}
                    /\ t \notin spawned => holder[t] = "none"

\* The inductive invariant.
Safe == Places /\ HandleTypes /\ Channels /\ AwaitFaithful

-----------------------------------------------------------------------------
(* The invariant.                                                          *)

\* An Executor starts without tasks and handles.
LEMMA InitSafe == Init => Safe
BY ExecutorAssumption
DEF Init, HandleInit, Safe, Places, HandleTypes, Channels, Sent, AwaitFaithful, HolderState

\* Steps that leave the places of tasks, the channels and the history alone, and
\* move pc between values that mean the same to the invariant.
LEMMA MoveSafe ==
    ASSUME Safe, UNCHANGED <<handleVars, tasks, cur, spawned, finished, panicked>>,
           pc' \in {"poll", "armed"} <=> pc \in {"poll", "armed"},
           pc' = "sent" <=> pc = "sent", pc' = "dropped" <=> pc = "dropped"
    PROVE  Safe'
<1>1. Places' /\ HandleTypes'
  BY DEF Safe, Places, HandleTypes, handleVars
<1>2. \A t \in Task : Sent(t)' <=> Sent(t)
  BY DEF Sent
<1>3. Channels'
  BY <1>2 DEF Safe, Channels, handleVars
<1>4. AwaitFaithful'
  BY DEF Safe, AwaitFaithful, handleVars
<1> QED  BY <1>1, <1>3, <1>4 DEF Safe

\* spawn keeps it.
LEMMA SpawnSafe ==
    ASSUME Safe, NEW t \in Task, Spawn(t)
    PROVE  Safe'
<1>1. /\ t \notin spawned /\ spawned' = spawned \cup {t} /\ tasks' = tasks \cup {t}
      /\ pc = "owner" /\ pc' = pc
      /\ UNCHANGED <<cur, finished, panicked, value, outcome, taken>>
      /\ sender' = [sender EXCEPT ![t] = TRUE] /\ holder' = [holder EXCEPT ![t] = "holding"]
  BY DEF Spawn, Open
<1>2. cur = None /\ t # cur /\ t \notin finished \cup panicked
  BY <1>1, ExecutorAssumption DEF Safe, Places
<1>3. Places'
  BY <1>1, <1>2 DEF Safe, Places
<1>4. HandleTypes'
  BY <1>1 DEF Safe, HandleTypes, HolderState
<1>5. Channels'
  BY <1>1, <1>2 DEF Safe, HandleTypes, Channels, Sent
<1>6. AwaitFaithful'
  BY <1>1 DEF Safe, AwaitFaithful
<1> QED  BY <1>3, <1>4, <1>5, <1>6 DEF Safe

\* The Senders of tasks S go: with the Executor, with a future that ended, or with
\* one that panicked.
LEMMA DropSafe ==
    ASSUME Safe, DropExecutor \/ PollReady \/ PollPanic
    PROVE  Safe'
<1> DEFINE S == IF pc = "owner" THEN tasks ELSE {cur}
<1>1. /\ sender' = [t \in Task |-> sender[t] /\ t \notin S]
      /\ UNCHANGED <<value, holder, outcome, taken, spawned>>
  BY DEF DropExecutor, PollReady, PollPanic, DropSenders, InPoll, history
<1>2. HandleTypes'
  BY <1>1 DEF Safe, HandleTypes
<1>3. CASE DropExecutor
  <2>1. /\ pc = "owner" /\ pc' = "dropped" /\ tasks' = {} /\ S = tasks /\ cur = None
        /\ UNCHANGED <<cur, finished, panicked>>
    BY <1>3 DEF DropExecutor, history, Safe, Places
  <2>2. Places'
    BY <1>1, <2>1 DEF Safe, Places
  <2>3. Channels'
    BY <1>1, <2>1 DEF Safe, Places, HandleTypes, Channels, Sent
  <2>4. AwaitFaithful'
    BY <1>1, <2>1 DEF Safe, AwaitFaithful
  <2> QED  BY <1>2, <2>2, <2>3, <2>4 DEF Safe
<1>4. CASE PollReady
  <2>1. /\ pc = "sent" /\ pc' = "tick" /\ tasks' = tasks /\ S = {cur} /\ cur # None /\ cur' = None
        /\ finished' = finished \cup {cur} /\ panicked' = panicked
    BY <1>4 DEF PollReady, Safe, Places
  <2>2. Places'
    BY <1>1, <2>1, ExecutorAssumption DEF Safe, Places
  <2>3. Channels'
    <3>1. \A t \in Task : Sent(t)' <=> Sent(t)
      BY <2>1, ExecutorAssumption DEF Sent
    <3> QED  BY <1>1, <2>1, <3>1, ExecutorAssumption DEF Safe, Places, HandleTypes, Channels
  <2>4. AwaitFaithful'
    BY <1>1, <2>1 DEF Safe, AwaitFaithful
  <2> QED  BY <1>2, <2>2, <2>3, <2>4 DEF Safe
<1>5. CASE PollPanic
  <2>1. /\ pc \in {"poll", "armed"} /\ pc' = "tick" /\ tasks' = tasks /\ S = {cur}
        /\ cur # None /\ cur' = None /\ finished' = finished /\ panicked' = panicked \cup {cur}
    BY <1>5 DEF PollPanic, InPoll, Safe, Places
  <2>2. Places'
    BY <1>1, <2>1, ExecutorAssumption DEF Safe, Places
  <2>3. Channels'
    <3>1. \A t \in Task : Sent(t)' <=> Sent(t)
      BY <2>1, ExecutorAssumption DEF Sent
    <3> QED  BY <1>1, <2>1, <3>1, ExecutorAssumption DEF Safe, Places, HandleTypes, Channels
  <2>4. AwaitFaithful'
    BY <1>1, <2>1 DEF Safe, AwaitFaithful
  <2> QED  BY <1>2, <2>2, <2>3, <2>4 DEF Safe
<1> QED  BY <1>3, <1>4, <1>5

\* A pop moves a task from the map into its poll, and Pending puts it back.
LEMMA PopSafe ==
    ASSUME Safe, Pop \/ \E yield \in BOOLEAN : PollPending(yield)
    PROVE  Safe'
<1>1. UNCHANGED <<handleVars, spawned, finished, panicked>>
  BY DEF Pop, PollPending
<1>2. \/ UNCHANGED <<pc, tasks, cur>>
      \/ /\ pc = "tick" /\ pc' = "poll" /\ cur' \in tasks /\ tasks' = tasks \ {cur'}
      \/ /\ pc \in {"poll", "armed"} /\ pc' = "tick" /\ tasks' = tasks \cup {cur} /\ cur' = None
  BY DEF Pop, PollPending, InPoll
<1>3. Places'
  BY <1>1, <1>2, ExecutorAssumption DEF Safe, Places
<1>4. \A t \in Task : /\ Sent(t)' <=> Sent(t)
                      /\ t \in tasks' \cup {cur'} <=> t \in tasks \cup {cur}
  BY <1>1, <1>2, ExecutorAssumption DEF Safe, Places, Sent
<1>5. HandleTypes' /\ Channels'
  BY <1>1, <1>4 DEF Safe, HandleTypes, Channels, handleVars
<1>6. AwaitFaithful'
  BY <1>1, <1>2 DEF Safe, AwaitFaithful, handleVars
<1> QED  BY <1>3, <1>5, <1>6 DEF Safe

\* The send of a result keeps it.
LEMMA SendSafe ==
    ASSUME Safe, PollSends
    PROVE  Safe'
<1>1. /\ pc \in {"poll", "armed"} /\ pc' = "sent" /\ cur # None /\ cur \in Task
      /\ value' = [value EXCEPT ![cur] = holder[cur] \notin {"dropped", "returned"}]
      /\ UNCHANGED <<sender, holder, outcome, taken, tasks, cur, spawned, finished, panicked>>
  BY DEF PollSends, InPoll, SendResult, history, Safe, Places
<1>2. Places' /\ HandleTypes'
  BY <1>1 DEF Safe, Places, HandleTypes
<1>3. Channels'
  BY <1>1 DEF Safe, HandleTypes, Channels, Sent
<1>4. AwaitFaithful'
  BY <1>1 DEF Safe, AwaitFaithful
<1> QED  BY <1>2, <1>3, <1>4 DEF Safe

\* What the thread with the handle does keeps it.
LEMMA HandleSafe ==
    ASSUME Safe, NEW t \in Task, HandleStep(t)
    PROVE  Safe'
<1>1. UNCHANGED <<pc, tasks, cur, spawned, finished, panicked, sender>>
  BY DEF HandleStep, Holder, is_finished, Await, AwaitPoll, DropHandle, execVars, history
<1>2. Places' /\ (\A u \in Task : Sent(u)' <=> Sent(u)) /\ holder[t] # "none"
  BY <1>1 DEF Safe, Places, Sent, HandleStep, Holder, is_finished, Await, AwaitPoll, DropHandle
<1>3. HandleTypes'
  BY <1>1 DEF Safe, HandleTypes, HolderState, HandleStep, Holder, is_finished, Await, AwaitPoll,
              DropHandle
<1>4. Channels'
  <2> USE DEF Safe, HandleTypes, Channels
  <2>1. CASE is_finished(t)
    BY <1>1, <1>2, <2>1 DEF is_finished
  <2>2. CASE Await(t)
    BY <1>1, <1>2, <2>2 DEF Await
  <2>3. CASE AwaitPoll(t)
    BY <1>1, <1>2, <2>3 DEF AwaitPoll
  <2>4. CASE DropHandle(t)
    BY <1>1, <1>2, <2>4 DEF DropHandle
  <2> QED  BY <2>1, <2>2, <2>3, <2>4 DEF HandleStep, Holder
<1>5. AwaitFaithful'
  <2>1. CASE is_finished(t) \/ Await(t) \/ DropHandle(t)
    BY <1>1, <2>1 DEF Safe, AwaitFaithful, is_finished, Await, DropHandle
  <2>2. CASE AwaitPoll(t)
    <3>1. /\ t \in spawned /\ taken' = taken
          /\ value[t] => Sent(t)
          /\ ~value[t] /\ ~sender[t] => \/ t \in panicked \cup taken
                                        \/ pc = "dropped" /\ t \notin finished
      BY <1>2, <2>2 DEF Safe, Places, Channels, Sent, AwaitPoll
    <3> QED  BY <1>1, <2>2, <3>1 DEF Safe, HandleTypes, AwaitFaithful, AwaitPoll, Sent
  <2> QED  BY <2>1, <2>2 DEF HandleStep, Holder
<1> QED  BY <1>2, <1>3, <1>4, <1>5 DEF Safe

\* Every step keeps the invariant.
LEMMA NextSafe ==
    ASSUME Safe, [Next]_vars
    PROVE  Safe'
<1>1. CASE (\E run \in BOOLEAN : Enter(run)) \/ While \/ TickReturns \/ Unpark \/ CloneWaker
  BY <1>1, MoveSafe DEF Enter, While, TickReturns, Unpark, CloneWaker, history
<1>2. CASE (\E t \in Task : ThreadWake(t)) \/ UNCHANGED vars
  BY <1>2, MoveSafe DEF ThreadWake, vars, history, execVars
<1> QED
  BY <1>1, <1>2, SpawnSafe, DropSafe, PopSafe, SendSafe, HandleSafe DEF Next, Owner, Thread

\* Safe is an invariant.
THEOREM ExecutorSafe == Spec => []Safe
<1> QED  BY InitSafe, NextSafe, PTL DEF Spec

\* Awaiting a JoinHandle never contradicts what became of the task, for any tasks.
THEOREM ExecutorAwaitFaithful == Spec => []AwaitFaithful
<1>1. Safe => AwaitFaithful
  BY DEF Safe
<1> QED  BY <1>1, ExecutorSafe, PTL
-----------------------------------------------------------------------------
(* The executor implements TaskLifecycle.                                  *)

\* Where no task changes its place, nothing happens to TaskLifecycle.
LEMMA StutterRefines ==
    ASSUME UNCHANGED <<tasks, cur, spawned, finished>>
    PROVE  UNCHANGED Life!vars
BY DEF Life!vars, Phase

\* spawn is Accept.
LEMMA SpawnRefines ==
    ASSUME Safe, NEW t \in Task, Spawn(t)
    PROVE  Life!Accept(t)
<1>1. /\ t \notin spawned /\ spawned' = spawned \cup {t} /\ tasks' = tasks \cup {t}
      /\ cur' = cur /\ finished' = finished /\ t \notin finished
  BY DEF Spawn, Safe, Places
<1>2. Phase[t] = "fresh" /\ Phase' = [Phase EXCEPT ![t] = "live"]
  BY <1>1 DEF Phase
<1> QED  BY <1>1, <1>2 DEF Life!Accept

\* A pop is BeginPoll, unless the task is gone.
LEMMA PopRefines ==
    ASSUME Safe, Pop
    PROVE  (\E t \in Task : Life!BeginPoll("executor", t)) \/ UNCHANGED Life!vars
<1>1. spawned' = spawned /\ finished' = finished
  BY DEF Pop
<1>2. CASE UNCHANGED <<tasks, cur>>
  BY <1>1, <1>2, StutterRefines
<1>3. CASE cur' \in tasks /\ tasks' = tasks \ {cur'} /\ pc = "tick"
  <2>1. cur = None /\ cur' \in Task /\ cur' # None /\ cur' \in spawned /\ cur' \notin finished
    BY <1>3, ExecutorAssumption DEF Safe, Places
  <2>2. Phase' = Phase /\ Phase[cur'] = "live"
    BY <1>1, <1>3, <2>1, ExecutorAssumption DEF Phase
  <2>3. Life!BeginPoll("executor", cur')
    BY <2>1, <2>2 DEF Life!BeginPoll, Life!Live, Life!Polled
  <2> QED  BY <2>1, <2>3
<1> QED  BY <1>2, <1>3 DEF Pop

\* Pending is Suspend.
LEMMA PendingRefines ==
    ASSUME Safe, NEW yield \in BOOLEAN, PollPending(yield)
    PROVE  Life!Suspend("executor")
<1>1. /\ cur # None /\ cur' = None /\ tasks' = tasks \cup {cur}
      /\ spawned' = spawned /\ finished' = finished
  BY DEF PollPending, InPoll, Safe, Places
<1>2. Phase' = Phase
  BY <1>1, ExecutorAssumption DEF Phase
<1> QED  BY <1>1, <1>2 DEF Life!Suspend

\* Ready is Finish.
LEMMA ReadyRefines ==
    ASSUME Safe, PollReady
    PROVE  Life!Finish("executor")
<1>1. /\ cur # None /\ cur \in Task /\ cur' = None /\ tasks' = tasks /\ cur \notin tasks
      /\ spawned' = spawned /\ finished' = finished \cup {cur}
  BY DEF PollReady, Safe, Places
<1>2. Phase' = [Phase EXCEPT ![cur] = "finished"]
  BY <1>1, ExecutorAssumption DEF Phase
<1> QED  BY <1>1, <1>2 DEF Life!Finish

\* A panic is the Discard of the task that is polled.
LEMMA PanicRefines ==
    ASSUME Safe, PollPanic
    PROVE  Life!Discard("executor", {cur})
<1>1. /\ cur # None /\ cur \in Task /\ cur' = None /\ tasks' = tasks /\ cur \notin tasks
      /\ cur \in spawned /\ cur \notin finished /\ spawned' = spawned /\ finished' = finished
  BY DEF PollPanic, InPoll, Safe, Places
<1>2. Phase[cur] = "live" /\ Phase' = [t \in Task |-> IF t \in {cur} THEN "dropped" ELSE Phase[t]]
  BY <1>1, ExecutorAssumption DEF Phase
<1> QED  BY <1>1, <1>2 DEF Life!Discard, Life!Live, Life!Polled

\* Dropping the Executor is the Discard of what it has.
LEMMA DropRefines ==
    ASSUME Safe, DropExecutor
    PROVE  Life!Discard("executor", tasks) \/ UNCHANGED Life!vars
<1>1. /\ cur = None /\ cur' = cur /\ tasks' = {} /\ spawned' = spawned /\ finished' = finished
      /\ tasks \subseteq spawned /\ spawned \subseteq Task /\ tasks \cap finished = {}
  BY DEF DropExecutor, history, Safe, Places
<1>2. CASE tasks = {}
  BY <1>1, <1>2, StutterRefines
<1>3. CASE tasks # {}
  <2>1. /\ \A t \in tasks : Phase[t] = "live"
        /\ Phase' = [t \in Task |-> IF t \in tasks THEN "dropped" ELSE Phase[t]]
    BY <1>1, ExecutorAssumption DEF Phase
  <2> QED  BY <1>1, <1>3, <2>1, ExecutorAssumption DEF Life!Discard, Life!Live, Life!Polled
<1> QED  BY <1>2, <1>3

\* Every step is a step of TaskLifecycle, or a stutter.
LEMMA NextRefines ==
    ASSUME Safe, [Next]_vars
    PROVE  [Life!Next]_(Life!vars)
<1>1. CASE \/ (\E run \in BOOLEAN : Enter(run)) \/ While \/ TickReturns \/ Unpark \/ CloneWaker
           \/ PollSends \/ (\E t \in Task : ThreadWake(t) \/ HandleStep(t)) \/ UNCHANGED vars
  <2>1. UNCHANGED <<tasks, cur, spawned, finished>>
    BY <1>1 DEF Enter, While, TickReturns, Unpark, CloneWaker, PollSends, ThreadWake, HandleStep,
                vars, history, execVars
  <2> QED  BY <2>1, StutterRefines
<1>2. CASE \E t \in Task : Spawn(t)
  BY <1>2, SpawnRefines DEF Life!Next
<1>3. CASE Pop
  BY <1>3, PopRefines DEF Life!Next
<1>4. CASE \E yield \in BOOLEAN : PollPending(yield)
  BY <1>4, PendingRefines DEF Life!Next
<1>5. CASE PollReady
  BY <1>5, ReadyRefines DEF Life!Next
<1>6. CASE PollPanic
  <2>1. {cur} \in SUBSET Task
    BY <1>6 DEF Safe, Places, PollPanic, InPoll
  <2> QED  BY <1>6, <2>1, PanicRefines DEF Life!Next
<1>7. CASE DropExecutor
  <2>1. tasks \in SUBSET Task
    BY DEF Safe, Places
  <2> QED  BY <1>7, <2>1, DropRefines DEF Life!Next
<1> QED  BY <1>1, <1>2, <1>3, <1>4, <1>5, <1>6, <1>7 DEF Next, Owner, Thread

\* The Executor implements TaskLifecycle: for any tasks, one is accepted once,
\* polled only while it is live, and never after it finished, panicked or was
\* dropped.
THEOREM ExecutorLifecycle == Spec => Lifecycle
<1>1. Init => Life!Init
  BY DEF Init, Phase, Life!Init
<1>2. Safe /\ [Next]_vars => [Life!Next]_(Life!vars)
  BY NextRefines
<1> QED  BY <1>1, <1>2, ExecutorSafe, PTL DEF Spec, Lifecycle, Life!Spec
-----------------------------------------------------------------------------
(* The timer wheel.                                                        *)

WheelTypes ==
    /\ TIMER_COUNTER \in 1..(MaxTimers + 1) /\ now \in Nat
    /\ deadline \in [1..MaxTimers -> Nat]
    /\ slots \in [Slot -> SUBSET Issued] /\ current_slot \in Slot
    /\ fired \subseteq Issued /\ removed \subseteq Issued

\* A timer is in the slot of its deadline.
InItsSlot == \A s \in Slot : \A i \in slots[s] : s = calculate_slot(deadline[i])

\* Until the clock has gone round once the hand is not ahead of it, and only
\* timers scheduled behind the hand are behind it.
HandBehindClock ==
    Offset(now) < num_slots =>
        /\ current_slot <= Offset(now)
        /\ \A i \in Pending : i \in behind \/ current_slot <= Offset(deadline[i])

\* The inductive invariant.
WheelSafe == WheelTypes /\ OnePlace /\ InItsSlot /\ HandBehindClock

-----------------------------------------------------------------------------
(* Arithmetic of the wheel.                                                *)

\* A remainder is a slot, and the remainder of a slot is the slot.
LEMMA Remainder ==
    /\ \A x \in Nat : x % num_slots \in Slot
    /\ \A x \in Slot : x % num_slots = x /\ x \in Nat
<1>1. ASSUME NEW x \in Nat PROVE x % num_slots \in 0..(num_slots - 1)
  BY WheelAssumption
<1>2. ASSUME NEW x \in 0..(num_slots - 1) PROVE x % num_slots = x /\ x \in Nat
  BY WheelAssumption
<1> QED  BY <1>1, <1>2 DEF Slot

\* A later time is no fewer resolution steps away.
LEMMA OffsetMonotone ==
    ASSUME NEW a \in Nat, NEW b \in Nat
    PROVE  /\ Offset(a) \in Nat
           /\ a <= b => Offset(a) <= Offset(b)
           /\ Offset(a) < Offset(b) => a < b
<1>1. Offset(a) \in Nat /\ Offset(b) \in Nat
  BY WheelAssumption DEF Offset
<1>2. a <= b => Offset(a) <= Offset(b)
  BY WheelAssumption DEF Offset
<1>3. b <= a => Offset(b) <= Offset(a)
  BY WheelAssumption DEF Offset
<1> QED  BY <1>1, <1>2, <1>3

\* With the target slot ahead of the hand, the hand passes those from its own up
\* to the target.
LEMMA PassedIs ==
    ASSUME NEW h \in Slot, current_slot \in Slot, current_slot <= h
    PROVE  Passed(h) = {s \in Slot : current_slot <= s /\ s < h}
<1>1. /\ num_slots \in Nat \ {0} /\ h \in Nat /\ h < num_slots /\ current_slot \in Nat
      /\ \A x : x \in Slot <=> x \in Nat /\ x < num_slots
  BY WheelAssumption DEF Slot
<1> DEFINE m == h - current_slot
<1>2. (h + num_slots - current_slot) % num_slots = m
  BY <1>1
<1>3. Passed(h) = {(current_slot + k) % num_slots : k \in 0..(m - 1)}
  BY <1>2 DEF Passed
<1>4. ASSUME NEW k \in 0..(m - 1)
      PROVE  /\ current_slot + k \in Slot /\ current_slot + k < h
             /\ (current_slot + k) % num_slots = current_slot + k
             /\ current_slot <= current_slot + k
  <2>1. k \in Nat /\ current_slot + k < h
    BY <1>1, <1>4
  <2>2. current_slot + k \in Slot
    BY <1>1, <2>1
  <2> QED  BY <1>1, <2>1, <2>2, Remainder
<1>5. ASSUME NEW s \in Slot, current_slot <= s, s < h
      PROVE  \E k \in 0..(m - 1) : s = (current_slot + k) % num_slots
  <2>1. s - current_slot \in 0..(m - 1) /\ current_slot + (s - current_slot) = s
    BY <1>1, <1>5
  <2>2. s % num_slots = s
    BY Remainder
  <2> QED  BY <2>1, <2>2
<1> QED  BY <1>3, <1>4, <1>5

\* The timers the wheel holds, timer by timer.
LEMMA PendingIs == \A i : i \in Pending <=> \E s \in Slot : i \in slots[s]
BY DEF Pending

-----------------------------------------------------------------------------
(* The invariant.                                                          *)

\* A wheel starts without timers and its hand at the clock.
LEMMA WheelInitSafe == WheelInit => WheelSafe
<1> SUFFICES ASSUME WheelInit PROVE WheelSafe
  OBVIOUS
<1>1. 0 \in Slot /\ Issued = {} /\ Pending = {}
  BY WheelAssumption DEF WheelInit, Slot, Issued, Pending
<1>2. Offset(0) \in Nat
  BY OffsetMonotone
<1>3. WheelTypes
  BY <1>1, WheelAssumption DEF WheelInit, WheelTypes
<1>4. OnePlace /\ InItsSlot /\ HandBehindClock
  BY <1>1, <1>2 DEF WheelInit, OnePlace, InItsSlot, HandBehindClock
<1> QED  BY <1>3, <1>4 DEF WheelSafe

\* schedule keeps it.
LEMMA ScheduleSafe ==
    ASSUME WheelSafe, NEW at \in 0..MaxTime, Schedule(at)
    PROVE  WheelSafe'
<1> DEFINE n == TIMER_COUNTER
           c == calculate_slot(at)
<1>1. /\ n \in 1..MaxTimers /\ n \in Nat /\ TIMER_COUNTER' = n + 1
      /\ n \notin Issued /\ Issued' = Issued \cup {n} /\ Issued \subseteq 1..MaxTimers
  BY WheelAssumption DEF WheelSafe, WheelTypes, Schedule, Issued
<1>2. at \in Nat /\ Offset(at) \in Nat /\ c \in Slot
  BY WheelAssumption, OffsetMonotone, Remainder DEF calculate_slot
<1>3. /\ slots' = [slots EXCEPT ![c] = @ \cup {n}] /\ deadline' = [deadline EXCEPT ![n] = at]
      /\ behind' = (IF Offset(at) < current_slot THEN behind \cup {n} ELSE behind)
      /\ UNCHANGED <<current_slot, now, fired, removed>>
  BY DEF Schedule
<1> HIDE DEF n, c
<1>4. /\ \A s \in Slot : slots'[s] = IF s = c THEN slots[s] \cup {n} ELSE slots[s]
      /\ \A i \in Issued : deadline'[i] = deadline[i]
      /\ deadline'[n] = at /\ \A s \in Slot : slots[s] \subseteq Issued
  BY <1>1, <1>2, <1>3 DEF WheelSafe, WheelTypes
<1>5. WheelTypes'
  <2>1. TIMER_COUNTER' \in 1..(MaxTimers + 1)
    BY <1>1, WheelAssumption
  <2>2. deadline' \in [1..MaxTimers -> Nat]
    BY <1>2, <1>3 DEF WheelSafe, WheelTypes
  <2>3. slots' \in [Slot -> SUBSET Issued']
    BY <1>1, <1>2, <1>3 DEF WheelSafe, WheelTypes
  <2> QED  BY <1>1, <1>3, <2>1, <2>2, <2>3 DEF WheelSafe, WheelTypes, Slot
<1>6. \A i : i \in Pending' <=> i \in Pending \/ i = n
  BY <1>2, <1>4, PendingIs, ZenonT(30) DEF Pending, Slot
<1>7. OnePlace'
  <2>1. Pending \subseteq Issued /\ n \notin fired \cup removed
    BY <1>1, PendingIs DEF WheelSafe, WheelTypes
  <2>2. ASSUME NEW i \in Issued'
        PROVE  \/ i \in Pending' /\ i \notin fired' \cup removed'
               \/ i \notin Pending' /\ (i \in fired' <=> i \notin removed')
    BY <1>1, <1>3, <1>6, <2>1, <2>2 DEF WheelSafe, OnePlace
  <2>3. ASSUME NEW s \in Slot, NEW u \in Slot, s # u
        PROVE  slots'[s] \cap slots'[u] = {}
    BY <1>1, <1>4, <2>3, ZenonT(30) DEF WheelSafe, OnePlace
  <2> QED  BY <1>5, <2>2, <2>3 DEF OnePlace, WheelTypes, Slot
<1>8. InItsSlot'
  <2>1. c = calculate_slot(deadline'[n])
    BY <1>4 DEF c
  <2>2. ASSUME NEW s \in Slot, NEW i \in slots'[s]
        PROVE  s = calculate_slot(deadline'[i])
    <3>1. (i = n /\ s = c) \/ (i \in slots[s] /\ i \in Issued)
      BY <1>4
    <3>2. i \in slots[s] => s = calculate_slot(deadline[i])
      BY DEF WheelSafe, InItsSlot
    <3>3. i \in Issued => deadline'[i] = deadline[i]
      BY <1>4
    <3> QED  BY <2>1, <3>1, <3>2, <3>3
  <2> QED  BY <2>2 DEF InItsSlot, calculate_slot, Offset, Slot
<1>9. HandBehindClock'
  <2> SUFFICES ASSUME Offset(now) < num_slots
               PROVE  /\ current_slot <= Offset(now)
                      /\ \A i \in Pending' : i \in behind' \/ current_slot <= Offset(deadline'[i])
    BY <1>3 DEF HandBehindClock, Offset
  <2>1. current_slot \in Nat /\ current_slot <= Offset(now)
    BY Remainder DEF WheelSafe, WheelTypes, HandBehindClock
  <2>2. n \in behind' \/ current_slot <= Offset(deadline'[n])
    BY <1>2, <1>3, <1>4, <2>1
  <2>3. ASSUME NEW i \in Pending
        PROVE  i \in behind' \/ current_slot <= Offset(deadline'[i])
    <3>1. i \in Issued
      BY PendingIs DEF WheelSafe, WheelTypes
    <3> QED  BY <1>3, <1>4, <3>1 DEF WheelSafe, HandBehindClock
  <2> QED  BY <1>6, <2>1, <2>2, <2>3
<1> QED  BY <1>5, <1>7, <1>8, <1>9 DEF WheelSafe

\* cancel keeps it.
LEMMA CancelSafe ==
    ASSUME WheelSafe, NEW i \in Issued, Cancel(i)
    PROVE  WheelSafe'
<1>1. /\ i \in Pending /\ slots' = [s \in Slot |-> slots[s] \ {i}]
      /\ removed' = removed \cup {i}
      /\ UNCHANGED <<current_slot, now, TIMER_COUNTER, deadline, behind, fired>>
      /\ Issued' = Issued
  BY DEF Cancel, Issued
<1>2. \A j : j \in Pending' <=> j \in Pending /\ j # i
  BY <1>1 DEF Pending, Slot
<1>3. WheelTypes'
  BY <1>1 DEF WheelSafe, WheelTypes, Slot
<1>4. OnePlace'
  BY <1>1, <1>2, <1>3 DEF WheelSafe, OnePlace, WheelTypes, Slot
<1>5. InItsSlot'
  BY <1>1 DEF WheelSafe, InItsSlot, calculate_slot, Offset, Slot
<1>6. HandBehindClock'
  BY <1>1, <1>2 DEF WheelSafe, HandBehindClock, Offset
<1> QED  BY <1>3, <1>4, <1>5, <1>6 DEF WheelSafe

\* A sweep of any slots keeps every timer in one place.
LEMMA SweepSafe ==
    ASSUME WheelSafe, NEW S \in SUBSET Slot, NEW h \in Slot, Sweep(S, h),
           UNCHANGED <<now, TIMER_COUNTER, deadline, behind, removed>>
    PROVE  /\ WheelTypes' /\ OnePlace' /\ InItsSlot'
           /\ \A i : i \in Pending' <=> \E s \in Slot \ S : i \in slots[s]
           /\ \A i \in fired' \ fired : \E s \in S : i \in slots[s]
<1>1. /\ slots' = [s \in Slot |-> IF s \in S THEN {} ELSE slots[s]]
      /\ current_slot' = h /\ Issued' = Issued
      /\ \A i : i \in fired' <=> i \in fired \/ \E s \in S : i \in slots[s]
  BY DEF Sweep, Issued
<1>2. \A i : i \in Pending' <=> \E s \in Slot \ S : i \in slots[s]
  BY <1>1 DEF Pending, Slot
<1>3. WheelTypes'
  BY <1>1 DEF WheelSafe, WheelTypes, Slot
<1>4. \A s, u \in Slot : \A i \in slots[s] : i \in slots[u] => s = u
  BY DEF WheelSafe, OnePlace
<1>5. ASSUME NEW i \in Issued
      PROVE  \/ i \in Pending' /\ i \notin fired' \cup removed'
             \/ i \notin Pending' /\ (i \in fired' <=> i \notin removed')
  <2>1. CASE i \in Pending
    <3>1. i \notin fired \cup removed
      BY <2>1 DEF WheelSafe, OnePlace
    <3>2. i \in Pending' <=> ~ \E s \in S : i \in slots[s]
      BY <1>2, <1>4, <2>1, PendingIs
    <3> QED  BY <1>1, <3>1, <3>2
  <2>2. CASE i \notin Pending
    <3>1. /\ i \in fired <=> i \notin removed
          /\ \A s \in Slot : i \notin slots[s]
      BY <2>2, PendingIs DEF WheelSafe, OnePlace
    <3> QED  BY <1>1, <1>2, <3>1
  <2> QED  BY <2>1, <2>2
<1>6. OnePlace'
  <2>1. \A s, u \in Slot : s # u => slots'[s] \cap slots'[u] = {}
    BY <1>1 DEF WheelSafe, OnePlace
  <2> QED  BY <1>1, <1>3, <1>5, <2>1 DEF OnePlace, WheelTypes, Slot
<1>7. InItsSlot'
  BY <1>1 DEF WheelSafe, InItsSlot, calculate_slot, Offset, Slot
<1> QED  BY <1>1, <1>2, <1>3, <1>6, <1>7

\* expire before the clock has gone round: the slots swept are those of deadlines
\* that lie before now, and no such deadline is left but behind the hand.
LEMMA WithinEffect ==
    ASSUME WheelSafe, ExpireWithin,
           UNCHANGED <<now, TIMER_COUNTER, deadline, behind, removed>>
    PROVE  /\ WheelSafe'
           /\ \A i \in fired' \ fired : WithinWheel(i) => now >= deadline[i]
           /\ \A i \in Pending' : Offset(deadline[i]) >= Offset(now) \/ i \in behind
<1> DEFINE h == Offset(now)
           S == {s \in Slot : current_slot <= s /\ s < h}
<1>1. /\ now \in Nat /\ h \in Nat /\ h < num_slots /\ h \in Slot /\ current_slot \in Slot
      /\ current_slot \in Nat /\ current_slot <= h
  BY WheelAssumption, OffsetMonotone DEF WheelSafe, WheelTypes, HandBehindClock, ExpireWithin, Slot
<1>2. Sweep(S, h)
  BY <1>1, PassedIs DEF ExpireWithin
<1>3. S \in SUBSET Slot
  OBVIOUS
<1>4. /\ WheelTypes' /\ OnePlace' /\ InItsSlot'
      /\ \A i : i \in Pending' <=> \E s \in Slot \ S : i \in slots[s]
      /\ \A i \in fired' \ fired : \E s \in S : i \in slots[s]
  <2> HIDE DEF S, h
  <2> QED  BY <1>1, <1>2, <1>3, SweepSafe
<1>5. ASSUME NEW s \in Slot, NEW i \in slots[s]
      PROVE  /\ deadline[i] \in Nat /\ Offset(deadline[i]) \in Nat /\ s \in Nat
             /\ Offset(deadline[i]) < num_slots => s = Offset(deadline[i])
  <2>1. i \in 1..MaxTimers
    BY WheelAssumption DEF WheelSafe, WheelTypes, Issued
  <2>2. deadline[i] \in Nat /\ Offset(deadline[i]) \in Nat
    BY <2>1, OffsetMonotone DEF WheelSafe, WheelTypes
  <2>3. Offset(deadline[i]) < num_slots => Offset(deadline[i]) \in Slot
    BY <2>2, WheelAssumption DEF Slot
  <2>4. s = Offset(deadline[i]) % num_slots
    BY DEF WheelSafe, InItsSlot, calculate_slot
  <2> QED  BY <2>2, <2>3, <2>4, Remainder
<1>6. ASSUME NEW i \in fired' \ fired, WithinWheel(i)
      PROVE  now >= deadline[i]
  <2>1. PICK s \in S : i \in slots[s]
    BY <1>4
  <2>2. s < h /\ deadline[i] \in Nat /\ s = Offset(deadline[i])
    BY <1>5, <1>6, <2>1 DEF WithinWheel
  <2> QED  BY <1>1, <2>2, OffsetMonotone
<1>7. ASSUME NEW i \in Pending'
      PROVE  h <= Offset(deadline[i]) \/ i \in behind
  <2>1. PICK s \in Slot \ S : i \in slots[s]
    BY <1>4
  <2>2. i \in behind \/ current_slot <= Offset(deadline[i])
    BY <1>1, <2>1, PendingIs DEF WheelSafe, HandBehindClock
  <2>3. Offset(deadline[i]) < num_slots => s = Offset(deadline[i])
    BY <1>5, <2>1
  <2>4. Offset(deadline[i]) \in Nat /\ s \in Nat
    BY <1>5, <2>1
  <2> QED  BY <1>1, <2>1, <2>2, <2>3, <2>4, WheelAssumption
<1>8. HandBehindClock'
  <2>1. current_slot' = h /\ now' = now /\ deadline' = deadline /\ behind' = behind
    BY <1>2 DEF Sweep
  <2> QED  BY <1>1, <1>7, <2>1 DEF HandBehindClock, Offset
<1>9. \A i \in Pending' : Offset(deadline[i]) \in Nat
  BY <1>4, <1>5
<1> QED  BY <1>1, <1>4, <1>6, <1>7, <1>8, <1>9 DEF WheelSafe

\* expire once the clock has gone round: everything is swept, and no deadline on
\* the first round lies after now.
LEMMA PastEffect ==
    ASSUME WheelSafe, ExpirePast,
           UNCHANGED <<now, TIMER_COUNTER, deadline, behind, removed>>
    PROVE  /\ WheelSafe' /\ Pending' = {}
           /\ \A i \in fired' \ fired : WithinWheel(i) => now >= deadline[i]
<1> DEFINE h == (current_slot + 1 + num_slots) % num_slots
<1>1. now \in Nat /\ Offset(now) \in Nat /\ Offset(now) >= num_slots /\ current_slot \in Nat
  BY Remainder, OffsetMonotone DEF WheelSafe, WheelTypes, ExpirePast
<1>2. h \in Slot /\ Sweep(Slot, h) /\ Slot \in SUBSET Slot
  BY <1>1, Remainder, WheelAssumption DEF ExpirePast
<1> HIDE DEF h
<1>3. /\ WheelTypes' /\ OnePlace' /\ InItsSlot'
      /\ \A i : i \in Pending' <=> \E s \in Slot \ Slot : i \in slots[s]
      /\ \A i \in fired' \ fired : \E s \in Slot : i \in slots[s]
  BY <1>2, SweepSafe
<1>4. Pending' = {}
  BY <1>3
<1>5. HandBehindClock'
  <2>1. Offset(now)' = Offset(now) /\ ~ (Offset(now) < num_slots)
    BY <1>1, WheelAssumption DEF Offset
  <2> QED  BY <2>1 DEF HandBehindClock
<1>6. ASSUME NEW i \in fired' \ fired, WithinWheel(i)
      PROVE  now >= deadline[i]
  <2>1. PICK s \in Slot : i \in slots[s]
    BY <1>3
  <2>2. i \in 1..MaxTimers
    BY <2>1, WheelAssumption DEF WheelSafe, WheelTypes, Issued
  <2>3. deadline[i] \in Nat /\ Offset(deadline[i]) \in Nat
    BY <2>2, OffsetMonotone DEF WheelSafe, WheelTypes
  <2>4. Offset(deadline[i]) < Offset(now)
    BY <1>1, <1>6, <2>3, WheelAssumption DEF WithinWheel
  <2> QED  BY <1>1, <2>3, <2>4, OffsetMonotone
<1> QED  BY <1>3, <1>4, <1>5, <1>6 DEF WheelSafe

\* The clock moving on keeps it.
LEMMA AdvanceSafe ==
    ASSUME WheelSafe, Advance
    PROVE  WheelSafe'
<1>1. /\ now \in Nat /\ now' = now + 1 /\ now' \in Nat
      /\ UNCHANGED <<slots, current_slot, TIMER_COUNTER, deadline, behind, fired, removed>>
  BY DEF Advance, WheelSafe, WheelTypes
<1>2. WheelTypes' /\ OnePlace' /\ InItsSlot'
  BY <1>1 DEF WheelSafe, WheelTypes, OnePlace, InItsSlot, Issued, Pending, Slot, calculate_slot, Offset
<1>3. HandBehindClock'
  <2>1. /\ Offset(now) \in Nat /\ Offset(now') \in Nat /\ Offset(now) <= Offset(now')
        /\ current_slot \in Nat /\ num_slots \in Nat
    <3>1. current_slot \in Nat /\ num_slots \in Nat
      BY Remainder, WheelAssumption DEF WheelSafe, WheelTypes
    <3>2. \A a, b \in Nat : a <= b => /\ Offset(a) \in Nat /\ Offset(b) \in Nat
                                      /\ Offset(a) <= Offset(b)
      BY OffsetMonotone
    <3>3. now <= now'
      BY <1>1
    <3> QED  BY <1>1, <3>1, <3>2, <3>3
  <2>2. Offset(now') < num_slots => Offset(now) < num_slots
    BY <2>1
  <2>3. current_slot <= Offset(now) => current_slot <= Offset(now')
    BY <2>1
  <2>4. Pending' = Pending /\ Offset(now)' = Offset(now')
    BY <1>1 DEF Pending, Slot, Offset
  <2>5. \A i : Offset(deadline[i])' = Offset(deadline[i])
    BY <1>1 DEF Offset
  <2> QED  BY <1>1, <2>2, <2>3, <2>4, <2>5 DEF WheelSafe, HandBehindClock
<1> QED  BY <1>2, <1>3 DEF WheelSafe

\* Every step keeps the invariant, and what expire does it does in time.
LEMMA WheelNextSafe ==
    ASSUME WheelSafe, [WheelNext]_wheelVars
    PROVE  /\ WheelSafe'
           /\ \A i \in fired' \ fired : WithinWheel(i) => now >= deadline[i]
           /\ current_slot' # current_slot \/ fired' # fired =>
                 \A i \in Pending' : Offset(deadline[i]) >= Offset(now) \/ i \in behind
<1>1. CASE \E at \in 0..MaxTime : Schedule(at)
  BY <1>1, ScheduleSafe DEF Schedule
<1>2. CASE \E i \in Issued : Cancel(i)
  BY <1>2, CancelSafe DEF Cancel
<1>3. CASE Expire
  BY <1>3, WithinEffect, PastEffect DEF Expire
<1>4. CASE Advance
  BY <1>4, AdvanceSafe DEF Advance
<1>5. CASE UNCHANGED wheelVars
  <2>1. /\ slots' = slots /\ current_slot' = current_slot /\ now' = now
        /\ TIMER_COUNTER' = TIMER_COUNTER /\ deadline' = deadline /\ behind' = behind
        /\ fired' = fired /\ removed' = removed
    BY <1>5 DEF wheelVars
  <2>2. Issued' = Issued /\ Pending' = Pending
    BY <2>1 DEF Issued, Pending
  <2>3. WheelTypes' /\ InItsSlot'
    BY <2>1, <2>2 DEF WheelSafe, WheelTypes, InItsSlot
  <2>4. OnePlace'
    BY <2>1, <2>2 DEF WheelSafe, OnePlace
  <2>5. HandBehindClock'
    BY <2>1, <2>2 DEF WheelSafe, HandBehindClock
  <2> QED  BY <2>1, <2>3, <2>4, <2>5 DEF WheelSafe
<1> QED  BY <1>1, <1>2, <1>3, <1>4, <1>5 DEF WheelNext

\* WheelSafe is an invariant.
THEOREM WheelAlwaysSafe == WheelSpec => []WheelSafe
<1>1. WheelSafe /\ [WheelNext]_wheelVars => WheelSafe'
  BY WheelNextSafe
<1> QED  BY <1>1, WheelInitSafe, PTL DEF WheelSpec

\* No timer is lost, duplicated or fired twice, on a wheel of any size.
THEOREM WheelOnePlace == WheelSpec => []OnePlace
<1>1. WheelSafe => OnePlace
  BY DEF WheelSafe
<1> QED  BY <1>1, WheelAlwaysSafe, PTL

\* On a wheel of any size and resolution, no timer with a deadline on the first
\* round fires before it.
THEOREM WheelNotEarly == WheelSpec => NotEarly
<1>1. WheelSafe /\ [WheelNext]_wheelVars =>
         [\A i \in fired' \ fired : WithinWheel(i) => now >= deadline[i]]_wheelVars
  BY WheelNextSafe
<1> QED  BY <1>1, WheelAlwaysSafe, PTL DEF WheelSpec, NotEarly

\* On a wheel of any size and resolution, expire leaves no timer pending whose slot
\* has passed, unless it was scheduled behind the hand.
THEOREM WheelNotLate == WheelSpec => NotLate
<1>1. WheelSafe /\ [WheelNext]_wheelVars =>
         [current_slot' # current_slot \/ fired' # fired =>
             \A i \in Pending' :
                 Offset(deadline[i]) >= Offset(now) \/ i \in behind]_wheelVars
  BY WheelNextSafe
<1> QED  BY <1>1, WheelAlwaysSafe, PTL DEF WheelSpec, NotLate

-----------------------------------------------------------------------------
(* The timer futures.                                                      *)

\* The step of the poll the task is at, also between polls.
At == IF step = "idle" THEN resume ELSE step

TimerTypes ==
    /\ now \in Nat /\ start \in Nat /\ end_time \in Nat /\ next_tick \in Nat /\ read \in Nat
    /\ ticks \in Nat /\ future \in {"sleep", "timeout", "periodic", "cancellable"}
    /\ start <= now /\ read <= now /\ resume # "idle"

\* A sleep or a timeout: from its first poll on it ends at start + Length.
SleepState ==
    future \in {"sleep", "timeout"} =>
        /\ At \in {"new", "inner", "check", "done"}
        /\ At = "inner" => future = "timeout"
        /\ At # "new" => end_time = start + Length
        /\ At = "new" => result = "none"
        /\ (At = "done" /\ result # "Ok") => now >= end_time

\* A cancellable future ends with a result of its own.
CancellableState ==
    future = "cancellable" => /\ At \in {"token", "inner", "done"}
                              /\ At = "done" => result \in {"Ok", "Cancelled"}

\* How often the period fits into the time since the start, as far as the interval
\* has noticed; what it noticed is exact when it goes to sleep.
PeriodicState ==
    future = "periodic" =>
        /\ At \in {"interval", "tick", "new", "check"} /\ step # "done"
        /\ At = "interval" => start = 0 /\ ticks = 0
        /\ At # "interval" => /\ next_tick = start + (ticks + 1) * Period
                              /\ start + ticks * Period <= now
        /\ At \in {"new", "check"} => start + ticks * Period <= read /\ read < next_tick
        /\ At = "check" => end_time >= next_tick

\* The inductive invariant.
TimersSafe == TimerTypes /\ SleepState /\ CancellableState /\ PeriodicState

-----------------------------------------------------------------------------
(* Arithmetic of periods.                                                  *)

\* The times of two consecutive ticks differ by a period.
LEMMA Periods ==
    ASSUME NEW k \in Nat
    PROVE  /\ k * Period \in Nat /\ (k + 1) * Period \in Nat
           /\ (k + 1) * Period = k * Period + Period
           /\ (k + 1 + 1) * Period = (k + 1) * Period + Period
BY TimersAssumption

\* The number of whole periods in a span of time.
LEMMA Quotient ==
    ASSUME NEW k \in Nat, NEW x \in Nat, k * Period <= x, x < (k + 1) * Period
    PROVE  x \div Period = k
BY TimersAssumption

-----------------------------------------------------------------------------
(* The invariant.                                                          *)

\* Initially the task is at the first step of its future.
LEMMA FutureInitSafe == FutureInit => TimersSafe
<1> SUFFICES ASSUME FutureInit PROVE TimersSafe
  OBVIOUS
<1>1. TimerTypes
  BY TimersAssumption DEF FutureInit, TimerTypes
<1>2. At = CASE future = "periodic" -> "interval"
             [] future = "cancellable" -> "token"
             [] OTHER -> "new"
  BY DEF FutureInit, At
<1>3. SleepState /\ CancellableState /\ PeriodicState
  BY <1>2 DEF FutureInit, SleepState, CancellableState, PeriodicState
<1> QED  BY <1>1, <1>3 DEF TimersSafe

\* Steps that do not move the task on: the clock, the loop beginning a poll, and
\* other threads.
LEMMA IdleSafe ==
    ASSUME TimersSafe, Poll \/ InnerDone \/ CancelToken \/ TimePasses \/ UNCHANGED futureVars
    PROVE  TimersSafe'
<1>1. /\ UNCHANGED <<future, start, end_time, next_tick, read, ticks, result, resume>>
      /\ now' \in Nat /\ now' >= now
  BY DEF Poll, InnerDone, CancelToken, TimePasses, futureVars, TimersSafe, TimerTypes
<1>2. At' = At
  BY DEF At, Poll, InnerDone, CancelToken, TimePasses, futureVars, TimersSafe, TimerTypes
<1>3. step' = "done" => At = "done" \/ step = "done"
  BY DEF At, Poll, InnerDone, CancelToken, TimePasses, futureVars
<1>4. TimerTypes' /\ SleepState' /\ CancellableState'
  BY <1>1, <1>2 DEF TimersSafe, TimerTypes, SleepState, CancellableState
<1>5. PeriodicState'
  <2>1. start + ticks * Period <= now => start + ticks * Period <= now'
    BY <1>1, Periods DEF TimersSafe, TimerTypes
  <2> QED  BY <1>1, <1>2, <1>3, <2>1 DEF TimersSafe, PeriodicState
<1> QED  BY <1>4, <1>5 DEF TimersSafe

\* The steps of an interval that is not asleep.
LEMMA IntervalSafe ==
    ASSUME TimersSafe, IntervalNew \/ Tick
    PROVE  TimersSafe'
<1>1. /\ step \in {"interval", "tick"} /\ At = step /\ future = "periodic" /\ future' = future
      /\ now' = now /\ UNCHANGED <<end_time, resume>> /\ step' \in {"tick", "new"} /\ At' = step'
  BY DEF IntervalNew, Tick, At, TimersSafe, SleepState, CancellableState, TimerTypes
<1>2. SleepState' /\ CancellableState'
  BY <1>1 DEF SleepState, CancellableState
<1>3. CASE IntervalNew
  <2>1. start' = now /\ next_tick' = now + Period /\ ticks' = 0 /\ read' = read /\ step' = "tick"
    BY <1>1, <1>3 DEF IntervalNew, TimersSafe, PeriodicState
  <2>2. TimerTypes'
    BY <1>1, <2>1, TimersAssumption DEF TimersSafe, TimerTypes
  <2>3. PeriodicState'
    BY <1>1, <2>1, TimersAssumption DEF TimersSafe, TimerTypes, PeriodicState
  <2> QED  BY <1>2, <2>2, <2>3 DEF TimersSafe
<1>4. CASE Tick
  <2>1. read' = now /\ start' = start /\ step = "tick"
    BY <1>4 DEF Tick
  <2>2. /\ now \in Nat /\ start \in Nat /\ ticks \in Nat /\ start <= now
        /\ next_tick = start + (ticks + 1) * Period /\ start + ticks * Period <= now
    BY <1>1, <2>1 DEF TimersSafe, TimerTypes, PeriodicState
  <2>3. CASE now >= next_tick
    <3>1. next_tick' = next_tick + Period /\ ticks' = ticks + 1 /\ step' = "tick"
      BY <1>4, <2>1, <2>3, <2>2, Periods DEF Tick
    <3>2. next_tick' = start + (ticks' + 1) * Period /\ start + ticks' * Period <= now
      BY <2>2, <2>3, <3>1, Periods, TimersAssumption
    <3>3. TimerTypes'
      BY <1>1, <2>1, <3>1, TimersAssumption DEF TimersSafe, TimerTypes
    <3> QED  BY <1>1, <1>2, <2>1, <3>1, <3>2, <3>3 DEF TimersSafe, PeriodicState
  <2>4. CASE now < next_tick
    <3>1. next_tick' = next_tick /\ ticks' = ticks /\ step' = "new"
      BY <1>4, <2>1, <2>2, <2>4, Periods DEF Tick
    <3>2. TimerTypes'
      BY <1>1, <2>1, <3>1 DEF TimersSafe, TimerTypes
    <3> QED  BY <1>1, <1>2, <2>1, <2>2, <2>4, <3>1, <3>2 DEF TimersSafe, PeriodicState
  <2> QED  BY <2>2, <2>3, <2>4, Periods
<1> QED  BY <1>3, <1>4

\* The steps of a sleep.
LEMMA SleepSafe ==
    ASSUME TimersSafe, SleepNew \/ SleepPoll
    PROVE  TimersSafe'
<1>1. /\ step \in {"new", "check"} /\ At = step /\ future \in {"sleep", "timeout", "periodic"}
      /\ UNCHANGED <<now, future, next_tick, read, ticks>> /\ future # "cancellable"
  BY DEF SleepNew, SleepPoll, At, TimersSafe, TimerTypes, CancellableState
<1>2. CASE SleepNew
  <2>1. /\ step = "new" /\ resume' = resume /\ result' = result /\ At' = step'
        /\ step' = IF future = "timeout" THEN "inner" ELSE "check"
        /\ future = "periodic" => end_time' = now + (next_tick - read) /\ start' = start
        /\ future # "periodic" => end_time' = now + Length /\ start' = now
    BY <1>2 DEF SleepNew, At
  <2>2. future = "periodic" => next_tick - read \in Nat /\ now + (next_tick - read) >= next_tick
    BY <1>1, <2>1 DEF TimersSafe, TimerTypes, PeriodicState
  <2>3. TimerTypes'
    BY <1>1, <2>1, <2>2, TimersAssumption DEF TimersSafe, TimerTypes
  <2>4. SleepState' /\ CancellableState'
    BY <1>1, <2>1 DEF SleepState, CancellableState
  <2>5. PeriodicState'
    BY <1>1, <2>1, <2>2 DEF TimersSafe, PeriodicState
  <2> QED  BY <2>3, <2>4, <2>5 DEF TimersSafe
<1>3. CASE SleepPoll
  <2>1. /\ step = "check" /\ UNCHANGED <<start, end_time>>
        /\ \/ /\ now >= end_time /\ resume' = resume
              /\ step' = IF future = "periodic" THEN "tick" ELSE "done"
              /\ result' = IF future = "timeout" THEN "Err" ELSE result
           \/ /\ step' = "idle" /\ resume' = IF future = "timeout" THEN "inner" ELSE "check"
              /\ result' = result
    BY <1>3 DEF SleepPoll
  <2>2. TimerTypes'
    BY <1>1, <2>1 DEF TimersSafe, TimerTypes
  <2>3. SleepState' /\ CancellableState'
    BY <1>1, <2>1 DEF TimersSafe, SleepState, CancellableState, At
  <2>4. PeriodicState'
    BY <1>1, <2>1 DEF TimersSafe, PeriodicState, At
  <2> QED  BY <2>2, <2>3, <2>4 DEF TimersSafe
<1> QED  BY <1>2, <1>3

\* The steps that look at the future inside and at the token.
LEMMA InnerSafe ==
    ASSUME TimersSafe, PollInner \/ CheckToken
    PROVE  TimersSafe'
<1>1. /\ step \in {"inner", "token"} /\ At = step /\ future \in {"timeout", "cancellable"}
      /\ UNCHANGED <<now, future, start, end_time, next_tick, read, ticks>>
  BY DEF PollInner, CheckToken, At, TimersSafe, TimerTypes, SleepState, PeriodicState
<1>2. TimerTypes' /\ PeriodicState'
  BY <1>1 DEF TimersSafe, TimerTypes, PeriodicState, PollInner, CheckToken
<1>3. SleepState' /\ CancellableState'
  BY <1>1 DEF TimersSafe, SleepState, CancellableState, At, PollInner, CheckToken
<1> QED  BY <1>2, <1>3 DEF TimersSafe

\* TimersSafe is an invariant.
THEOREM TimersAlwaysSafe == FutureSpec => []TimersSafe
<1>1. TimersSafe /\ [FutureNext]_futureVars => TimersSafe'
  BY IdleSafe, IntervalSafe, SleepSafe, InnerSafe DEF FutureNext, Loop
<1> QED  BY <1>1, FutureInitSafe, PTL DEF FutureSpec

\* No sleep, timeout or tick of an interval is early, for any length and period and
\* wherever the clock moves between its reads.
THEOREM TimersNeverEarly == FutureSpec => []NeverEarly
<1>1. TimersSafe => NeverEarly
  <2> SUFFICES ASSUME TimersSafe PROVE NeverEarly
    OBVIOUS
  <2>1. step = "done" /\ result \in {"none", "Err"} => now >= start + Length
    BY DEF TimersSafe, TimerTypes, SleepState, CancellableState, PeriodicState, At
  <2>2. future = "periodic" => ticks * Period <= now - start
    <3>1. now \in Nat /\ start \in Nat /\ ticks \in Nat /\ start <= now /\ ticks * Period \in Nat
      BY Periods DEF TimersSafe, TimerTypes
    <3>2. ticks = 0 => ticks * Period = 0
      BY TimersAssumption
    <3>3. future = "periodic" => ticks = 0 \/ start + ticks * Period <= now
      BY DEF TimersSafe, PeriodicState
    <3> QED  BY <3>1, <3>2, <3>3
  <2> QED  BY <2>1, <2>2 DEF NeverEarly
<1> QED  BY <1>1, TimersAlwaysSafe, PTL

\* An interval neither skips nor adds a tick, for any period and however late it is
\* polled.
THEOREM TimersTicksExact == FutureSpec => []TicksExact
<1>1. TimersSafe => TicksExact
  <2> SUFFICES ASSUME TimersSafe, future = "periodic"
               PROVE  /\ step = "new" => read < next_tick
                      /\ (step = "idle" /\ resume = "check") =>
                             /\ ticks = (read - start) \div Period
                             /\ end_time >= start + (ticks + 1) * Period
    BY DEF TicksExact
  <2>1. step = "new" => read < next_tick
    BY DEF TimersSafe, PeriodicState, At
  <2>2. ASSUME step = "idle", resume = "check"
        PROVE  ticks = (read - start) \div Period /\ end_time >= start + (ticks + 1) * Period
    <3>1. /\ start + ticks * Period <= read /\ read < start + (ticks + 1) * Period
          /\ end_time >= start + (ticks + 1) * Period
          /\ read \in Nat /\ start \in Nat /\ ticks \in Nat
      BY <2>2 DEF TimersSafe, TimerTypes, PeriodicState, At
    <3>2. /\ read - start \in Nat /\ ticks * Period <= read - start
          /\ read - start < (ticks + 1) * Period
      BY <3>1, Periods
    <3> QED  BY <3>1, <3>2, Quotient
  <2> QED  BY <2>1, <2>2
<1> QED  BY <1>1, TimersAlwaysSafe, PTL
=================================================================================
