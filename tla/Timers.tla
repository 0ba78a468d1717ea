-------------------------------- MODULE Timers --------------------------------
(***************************************************************************)
(* The timer futures of src/timer: SleepFuture, Timeout and Interval, the  *)
(* task of spawn_periodic, and the CancellableFuture of cancellation.rs,   *)
(* each as the one future of a task; another thread holds the token.  A    *)
(* Timeout and a CancellableFuture have a future inside that ends at any   *)
(* time or never and wakes the task; cancel() wakes nobody.  A sleep       *)
(* puts the task's waker into a TimerWheel of its own that nobody expires, *)
(* so what happens next depends on the loop that runs the task: Executor   *)
(* and Cpu poll a task when it is woken, Runtime::block_on and a core of   *)
(* MultiCoreRuntime poll it again and again.  The wheel is only written    *)
(* to, and is left out.  The clock moves between any two reads of it.      *)
(***************************************************************************)
EXTENDS Clock

CONSTANTS Future,    \* the futures to consider: "sleep", "timeout", "periodic",
                     \* "cancellable"
          Driver,    \* the loops to consider: "woken", "repolled"
          Length,    \* length of the sleep and of the timeout
          Period     \* of the interval

ASSUME TimersAssumption ==
    /\ Future \subseteq {"sleep", "timeout", "periodic", "cancellable"}
    /\ Driver \subseteq {"woken", "repolled"}
    /\ Length \in Nat /\ Period \in Nat \ {0}

VARIABLES future, driver,
          step,       \* "idle" between polls, else the next step of the poll
          resume,     \* the step at which the next poll goes on
          queued,     \* the task is in the ready queue
          start,      \* when the sleep, timeout or interval was made
          end_time,   \* of the current SleepFuture
          next_tick,  \* of the Interval
          read,       \* the time Interval::tick compared with next_tick
          ticks,      \* callbacks spawn_periodic has run
          inner,      \* when the future inside is done
          cancelled,  \* the flag of the CancellationToken
          result      \* of the Timeout or the CancellableFuture

futureVars == <<now, future, driver, step, resume, queued, start, end_time, next_tick,
          read, ticks, inner, cancelled, result>>

Never == MaxTime + 1

FutureInit ==
    /\ now = 0 /\ future \in Future /\ driver \in Driver
    /\ step = "idle" /\ queued = TRUE
    /\ resume = CASE future = "periodic" -> "interval"
                  [] future = "cancellable" -> "token"
                  [] OTHER -> "new"
    /\ start = 0 /\ end_time = 0 /\ next_tick = 0 /\ read = 0 /\ ticks = 0
    /\ inner = Never /\ cancelled = FALSE /\ result = "none"

-----------------------------------------------------------------------------
\* Faulty variant: block_on parks until somebody wakes it.
PollWhenWoken ==
    /\ step = "idle" /\ queued
    /\ step' = resume /\ queued' = FALSE
    /\ UNCHANGED <<now, future, driver, resume, start, end_time, next_tick, read,
                   ticks, inner, cancelled, result>>

\* The loop polls the task.
Poll ==
    /\ step = "idle" /\ (queued \/ driver = "repolled")
    /\ step' = resume /\ queued' = FALSE
    /\ UNCHANGED <<now, future, driver, resume, start, end_time, next_tick, read,
                   ticks, inner, cancelled, result>>

\* Interval::new in spawn_periodic.
IntervalNew ==
    /\ step = "interval" /\ step' = "tick"
    /\ start' = now /\ next_tick' = now + Period
    /\ UNCHANGED <<now, future, driver, resume, queued, end_time, read, ticks,
                   inner, cancelled, result>>

\* Faulty variant: the next tick counts from the one that was noticed.
TickResync ==
    /\ step = "tick" /\ read' = now
    /\ \/ /\ now >= next_tick
          /\ next_tick' = now + Period /\ ticks' = ticks + 1
          /\ UNCHANGED step
       \/ /\ now < next_tick
          /\ step' = "new"
          /\ UNCHANGED <<next_tick, ticks>>
    /\ UNCHANGED <<now, future, driver, resume, queued, start, end_time, inner, cancelled,
                   result>>

\* Interval::tick: one period further and the callback, at once if the tick is
\* due; else a sleep for the rest.
Tick ==
    /\ step = "tick" /\ read' = now
    /\ \/ /\ now >= next_tick
          /\ next_tick' = next_tick + Period /\ ticks' = ticks + 1
          /\ UNCHANGED step
       \/ /\ now < next_tick
          /\ step' = "new"
          /\ UNCHANGED <<next_tick, ticks>>
    /\ UNCHANGED <<now, future, driver, resume, queued, start, end_time, inner, cancelled,
                   result>>

\* SleepFuture::new, which reads the clock again.
SleepNew ==
    /\ step = "new"
    /\ \/ /\ future = "periodic" /\ step' = "check"
          /\ end_time' = now + (next_tick - read)
          /\ UNCHANGED start
       \/ /\ future # "periodic"
          /\ step' = IF future = "timeout" THEN "inner" ELSE "check"
          /\ start' = now /\ end_time' = now + Length
    /\ UNCHANGED <<now, future, driver, resume, queued, next_tick, read, ticks,
                   inner, cancelled, result>>

\* Timeout::poll asks the future inside first; so does CancellableFuture::poll,
\* once it has found the flag unset.
PollInner ==
    /\ step = "inner"
    /\ \/ inner <= now /\ step' = "done" /\ result' = "Ok" /\ UNCHANGED resume
       \/ inner > now /\ future = "timeout" /\ step' = "check" /\ UNCHANGED <<resume, result>>
       \/ /\ inner > now /\ future = "cancellable"
          /\ step' = "idle" /\ resume' = "token" /\ UNCHANGED result
    /\ UNCHANGED <<now, future, driver, queued, start, end_time, next_tick, read, ticks,
                   inner, cancelled>>

\* Faulty variant: the flag is looked at when the future inside is done.
CheckTokenLate ==
    /\ step = "token"
    /\ \/ cancelled /\ inner <= now /\ step' = "done" /\ result' = "Cancelled"
       \/ ~(cancelled /\ inner <= now) /\ step' = "inner" /\ UNCHANGED result
    /\ UNCHANGED <<now, future, driver, resume, queued, start, end_time, next_tick,
                   read, ticks, inner, cancelled>>

\* CancellableFuture::poll, first part.
CheckToken ==
    /\ step = "token"
    /\ \/ cancelled /\ step' = "done" /\ result' = "Cancelled"
       \/ ~cancelled /\ step' = "inner" /\ UNCHANGED result
    /\ UNCHANGED <<now, future, driver, resume, queued, start, end_time, next_tick,
                   read, ticks, inner, cancelled>>

\* CancellationToken::cancel, by another thread.
CancelToken ==
    /\ future = "cancellable" /\ cancelled' = TRUE
    /\ UNCHANGED <<now, future, driver, step, resume, queued, start, end_time, next_tick,
                   read, ticks, inner, result>>

\* Faulty variant: a sleep ends one tick of the clock early.
SleepPollEarly ==
    /\ step = "check"
    /\ \/ /\ now + 1 >= end_time
          /\ step' = IF future = "periodic" THEN "tick" ELSE "done"
          /\ result' = IF future = "timeout" THEN "Err" ELSE result
          /\ UNCHANGED resume
       \/ /\ now + 1 < end_time
          /\ step' = "idle"
          /\ resume' = IF future = "timeout" THEN "inner" ELSE "check"
          /\ UNCHANGED result
    /\ UNCHANGED <<now, future, driver, queued, start, end_time, next_tick, read,
                   ticks, inner, cancelled>>

\* SleepFuture::poll_inner: Ready, or Pending with a waker nobody will call.
SleepPoll ==
    /\ step = "check"
    /\ \/ /\ now >= end_time
          /\ step' = IF future = "periodic" THEN "tick" ELSE "done"
          /\ result' = IF future = "timeout" THEN "Err" ELSE result
          /\ UNCHANGED resume
       \/ /\ now < end_time
          /\ step' = "idle"
          /\ resume' = IF future = "timeout" THEN "inner" ELSE "check"
          /\ UNCHANGED result
    /\ UNCHANGED <<now, future, driver, queued, start, end_time, next_tick, read,
                   ticks, inner, cancelled>>

\* The future inside is done and wakes the task.
InnerDone ==
    /\ future \in {"timeout", "cancellable"} /\ inner = Never
    /\ inner' = now /\ queued' = TRUE
    /\ UNCHANGED <<now, future, driver, step, resume, start, end_time, next_tick,
                   read, ticks, cancelled, result>>

TimePasses ==
    /\ now < MaxTime /\ now' = now + 1
    /\ UNCHANGED <<future, driver, step, resume, queued, start, end_time, next_tick,
                   read, ticks, inner, cancelled, result>>

Loop == Poll \/ IntervalNew \/ Tick \/ SleepNew \/ PollInner \/ CheckToken
        \/ SleepPoll

FutureNext == Loop \/ InnerDone \/ CancelToken \/ TimePasses

FutureSpec == FutureInit /\ [][FutureNext]_futureVars

\* The thread runs and time passes.
FairFutureSpec == FutureSpec /\ WF_futureVars(Loop) /\ WF_futureVars(TimePasses)

-----------------------------------------------------------------------------
(* Properties.                                                             *)

\* Nothing happens early, whatever the clock does between the reads: not the end
\* of a sleep, not the Err of a Timeout, not the n-th callback of spawn_periodic.
NeverEarly ==
    /\ (step = "done" /\ result \in {"none", "Err"}) => now >= start + Length
    /\ future = "periodic" => ticks * Period <= now - start

\* An interval neither skips nor adds a tick, however late it is polled: when it
\* goes to sleep, every tick due at the time it looked has been delivered, and
\* it sleeps for a positive time and not to less than the next one.
TicksExact ==
    future = "periodic" =>
        /\ step = "new" => read < next_tick
        /\ (step = "idle" /\ resume = "check") =>
               /\ ticks = (read - start) \div Period
               /\ end_time >= start + (ticks + 1) * Period

\* Under a loop that polls again and again (block_on) a sleep ends once its time
\* has come.  Under a loop that polls woken tasks only (Executor, Cpu) it does not:
\* the wheel that holds the waker belongs to the future and is never expired.
SleepReturns ==
    \A e \in 0 .. MaxTime :
        (driver = "repolled" /\ step = "idle" /\ resume \in {"inner", "check"} /\ end_time = e)
            ~> (step = "done" \/ end_time > e)

\* ... and a CancellableFuture ends once its token is cancelled, also if the future
\* inside never does: with Cancelled, unless that future ended first.  Under the
\* other loops cancel() is not noticed before something else wakes the task.
CancelReturns ==
    (driver = "repolled" /\ cancelled)
        ~> (step = "done" /\ (result = "Ok" => inner <= now))
===============================================================================
