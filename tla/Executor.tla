------------------------------- MODULE Executor -------------------------------
(***************************************************************************)
(* The single-threaded Executor of src/executor.rs: spawn, tick with its   *)
(* catch_unwind, run, and the JoinHandles other threads hold.  Task ids    *)
(* come from one counter and are unique, so a task stands for its id.  A   *)
(* future is the choice of its poll's outcome.                             *)
(***************************************************************************)
EXTENDS JoinHandle, Naturals, Sequences

CONSTANTS None,
          MaxPolls,    \* bound: polls after which a task ends
          MaxWakers    \* bound: wakers of one task that other threads hold

ASSUME ExecutorAssumption ==
    /\ None \notin Task /\ Parked \subseteq Task
    /\ MaxPolls \in Nat /\ MaxWakers \in Nat

VARIABLES
    pc,           \* where the executor's thread is
    inRun,        \* tick was called by run
    made_progress,
    tasks,        \* Executor::tasks
    ready_queue,  \* Executor::ready_queue
    cur,          \* the task inside poll
    wakers,       \* wakers[t]: wakers of t held by other threads
    \* what the properties look back on
    spawned, finished, panicked, polls,
    woken         \* tasks spawned or woken since their last poll began

execVars == <<pc, inRun, made_progress, tasks, ready_queue, cur>>
history == <<spawned, finished, panicked, polls, woken>>
vars == <<handleVars, execVars, wakers, history>>

Init ==
    /\ HandleInit
    /\ pc = "owner" /\ inRun = FALSE /\ made_progress = FALSE
    /\ tasks = {} /\ ready_queue = <<>> /\ cur = None
    /\ wakers = [t \in Task |-> 0] /\ spawned = {} /\ finished = {}
    /\ panicked = {} /\ polls = [t \in Task |-> 0] /\ woken = {}

\* MinissWaker::wake_impl.
Wake(t) ==
    /\ ready_queue' = Append(ready_queue, t)
    /\ woken' = woken \cup {t}

-----------------------------------------------------------------------------
(* The owner of the Executor.                                              *)

Spawn(t) ==
    /\ pc = "owner" /\ t \notin spawned
    /\ tasks' = tasks \cup {t}
    /\ Wake(t)
    /\ Open(t)
    /\ spawned' = spawned \cup {t}
    /\ UNCHANGED <<pc, inRun, made_progress, cur, wakers, finished, panicked,
                   polls>>

\* The owner calls tick() or run().
Enter(run) ==
    /\ pc = "owner"
    /\ inRun' = run
    /\ pc' = IF run THEN "while" ELSE "tick"
    /\ made_progress' = FALSE
    /\ UNCHANGED <<handleVars, tasks, ready_queue, cur, wakers, history>>

\* The Executor is dropped with the tasks it still has.
DropExecutor ==
    /\ pc = "owner" /\ pc' = "dropped"
    /\ tasks' = {}
    /\ DropSenders(tasks)
    /\ UNCHANGED <<inRun, made_progress, ready_queue, cur, wakers, history>>

-----------------------------------------------------------------------------
(* run() and tick().                                                       *)

\* while !self.tasks.is_empty()
While ==
    /\ pc = "while"
    /\ pc' = IF tasks = {} THEN "owner" ELSE "tick"
    /\ made_progress' = FALSE
    /\ UNCHANGED <<handleVars, inRun, tasks, ready_queue, cur, wakers, history>>

\* Faulty variant: the task stays in the map while it is polled.
PopInPlace ==
    /\ pc = "tick" /\ ready_queue # <<>>
    /\ ready_queue' = Tail(ready_queue)
    /\ LET t == Head(ready_queue)
       IN \/ /\ t \in tasks
             /\ pc' = "poll" /\ cur' = t
             /\ woken' = woken \ {t}
             /\ polls' = [polls EXCEPT ![t] = @ + 1]
          \/ /\ t \notin tasks
             /\ UNCHANGED <<pc, cur, woken, polls>>
    /\ UNCHANGED <<handleVars, inRun, made_progress, tasks, wakers, spawned,
                   finished, panicked>>

\* while let Some(task_id) = self.ready_queue.pop(): take the task out of the
\* map and poll it; a wake-up of a task that is gone is skipped.
Pop ==
    /\ pc = "tick" /\ ready_queue # <<>>
    /\ ready_queue' = Tail(ready_queue)
    /\ LET t == Head(ready_queue)
       IN \/ /\ t \in tasks
             /\ pc' = "poll" /\ cur' = t /\ tasks' = tasks \ {t}
             /\ woken' = woken \ {t}
             /\ polls' = [polls EXCEPT ![t] = @ + 1]
          \/ /\ t \notin tasks
             /\ UNCHANGED <<pc, cur, tasks, woken, polls>>
    /\ UNCHANGED <<handleVars, inRun, made_progress, wakers, spawned, finished,
                   panicked>>

\* The queue is empty: tick() returns made_progress.
TickReturns ==
    /\ pc = "tick" /\ ready_queue = <<>>
    /\ pc' = IF ~inRun THEN "owner" ELSE IF made_progress THEN "while" ELSE "park"
    /\ UNCHANGED <<handleVars, inRun, made_progress, tasks, ready_queue, cur,
                   wakers, history>>

\* park_timeout(1 ms)
Unpark ==
    /\ pc = "park" /\ pc' = "while"
    /\ UNCHANGED <<handleVars, inRun, made_progress, tasks, ready_queue, cur,
                   wakers, history>>

\* Inside its poll a future leaves a clone of its waker with another thread,
\* which may call it before the poll returns.
CloneWaker ==
    /\ pc = "poll" /\ pc' = "armed" /\ wakers[cur] < MaxWakers
    /\ wakers' = [wakers EXCEPT ![cur] = @ + 1]
    /\ UNCHANGED <<handleVars, inRun, made_progress, tasks, ready_queue, cur,
                   history>>

InPoll == pc \in {"poll", "armed"}

\* Poll::Ready: the wrapped future sends the result ...
PollSends ==
    /\ InPoll /\ pc' = "sent"
    /\ SendResult(cur)
    /\ UNCHANGED <<inRun, made_progress, tasks, ready_queue, cur, wakers,
                   history>>

\* ... drops its Sender and returns; the task is not put back.
PollReady ==
    /\ pc = "sent" /\ pc' = "tick"
    /\ DropSenders({cur})
    /\ finished' = finished \cup {cur}
    /\ cur' = None
    /\ made_progress' = TRUE
    /\ UNCHANGED <<inRun, tasks, ready_queue, wakers, spawned, panicked, polls,
                   woken>>

\* Poll::Pending: the task goes back into the map, having woken itself or not.
PollPending(yield) ==
    /\ InPoll /\ pc' = "tick"
    /\ polls[cur] < MaxPolls
    /\ tasks' = tasks \cup {cur}
    /\ IF yield THEN Wake(cur) ELSE UNCHANGED <<ready_queue, woken>>
    /\ cur' = None
    /\ made_progress' = TRUE
    /\ UNCHANGED <<handleVars, inRun, wakers, spawned, finished, panicked, polls>>

\* Faulty variant: tick() does not catch the panic, run() is over.
PollPanicUncaught ==
    /\ InPoll /\ pc' = "owner"
    /\ DropSenders({cur})
    /\ panicked' = panicked \cup {cur}
    /\ cur' = None
    /\ made_progress' = TRUE
    /\ UNCHANGED <<inRun, tasks, ready_queue, wakers, spawned, finished, polls,
                   woken>>

\* catch_unwind caught a panic: the future and its Sender are gone.
PollPanic ==
    /\ InPoll /\ pc' = "tick"
    /\ DropSenders({cur})
    /\ panicked' = panicked \cup {cur}
    /\ cur' = None
    /\ made_progress' = TRUE
    /\ UNCHANGED <<inRun, tasks, ready_queue, wakers, spawned, finished, polls,
                   woken>>

-----------------------------------------------------------------------------
(* Other threads.                                                          *)

ThreadWake(t) ==
    /\ wakers[t] > 0
    /\ wakers' = [wakers EXCEPT ![t] = @ - 1]
    /\ Wake(t)
    /\ UNCHANGED <<handleVars, pc, inRun, made_progress, tasks, cur, spawned,
                   finished, panicked, polls>>

HandleStep(t) == Holder(t) /\ UNCHANGED <<execVars, wakers, history>>

Owner == \/ \E t \in Task : Spawn(t)
         \/ \E run \in BOOLEAN : Enter(run)
         \/ DropExecutor

Thread == \/ While \/ Pop \/ TickReturns \/ Unpark \/ PollSends \/ PollReady
          \/ PollPanic \/ CloneWaker \/ \E yield \in BOOLEAN : PollPending(yield)

Next == \/ Owner \/ Thread
        \/ \E t \in Task : ThreadWake(t) \/ HandleStep(t)

Spec == Init /\ [][Next]_vars

\* The OS schedules the executor's thread and the threads blocked on a handle.
Fairness ==
    /\ WF_vars(Thread)
    /\ \A t \in Task :
          WF_vars(holder[t] # "holding" /\ (Await(t) \/ AwaitPoll(t))
                  /\ UNCHANGED <<execVars, wakers, history>>)

FairSpec == Spec /\ Fairness

-----------------------------------------------------------------------------
(* Properties.                                                             *)

\* Awaiting a JoinHandle never gives Cancelled for a task that is still running
\* or whose result is waiting, and gives Ok only for a result the task sent: the
\* send-then-drop of the wrapped future and the try_recv of poll never disagree.
AwaitFaithful ==
    \A t \in Task :
        /\ outcome[t] = "Ok" => t \in finished \/ (t = cur /\ pc = "sent")
        /\ outcome[t] = "Cancelled" =>
              \/ t \in panicked \cup taken
              \/ pc = "dropped" /\ t \notin finished

\* Every task goes through the life TaskLifecycle describes.
Phase == [t \in Task |->
            IF t \in finished THEN "finished"
            ELSE IF t \notin spawned THEN "fresh"
            ELSE IF t \in tasks \/ t = cur THEN "live" ELSE "dropped"]
Life == INSTANCE TaskLifecycle
            WITH Worker <- {"executor"}, phase <- Phase,
                 polling <- [w \in {"executor"} |-> cur]
Lifecycle == Life!Spec

\* run() polls every task that was spawned or woken, whatever the other tasks
\* do, panic included.
TaskServed ==
    \A t \in Task : (inRun /\ pc # "owner" /\ t \in tasks \cap woken)
                        ~> (t \notin tasks \cap woken)

\* A thread in Runtime::block_on on the handle of a task that has ended gets an
\* answer although nobody wakes it: the 1 ms park is what makes it poll again.
AwaitReturns ==
    \A t \in Task \ Parked :
        (holder[t] \in {"polling", "parked"} /\ ~sender[t])
            ~> (holder[t] = "returned")

\* task.rs, poll: "Store the waker so the sender can wake us when result is
\* ready".
ReadyWakesAwaiter ==
    \A t \in Task : (holder[t] = "parked" /\ value[t]) ~> (holder[t] = "returned")
=============================================================================
