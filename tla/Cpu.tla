---------------------------------- MODULE Cpu ----------------------------------
(***************************************************************************)
(* The per-CPU event loop of src/cpu.rs: Cpu, the bounded channel of       *)
(* CrossCpuMessages that CpuHandles send to, the ready queue that          *)
(* MinissWakers push to from any thread, cancellation marks, timers, I/O   *)
(* completions and shutdown.                                               *)
(*                                                                         *)
(* The CPU thread takes one step per iteration of a loop or per call that  *)
(* another thread can interleave with; pc names the loop it is in.  Other  *)
(* threads are the clients (blocking sends on a CpuHandle) and the holders *)
(* of cloned wakers.  A future is the choice of its poll's outcome.        *)
(***************************************************************************)
EXTENDS Naturals, Sequences, Functions

CONSTANTS Task,        \* futures
          Local,       \* the ones the owner passes to Cpu::spawn
          Endless,     \* the ones whose poll may return Pending for ever
          Client,      \* threads holding a clone of the CpuHandle's sender
          None,
          LocalBase,   \* id << 32, the first local task id
          Capacity,    \* CROSS_CPU_CHANNEL_CAPACITY
          MaxSubmits,  \* bound: submit_task calls, over all handles
          MaxCalls,    \* bound: CpuHandle calls, over all clients
          MaxPolls     \* bound: polls after which a task completes
                       \* unless it is Endless, and of the wakers of one
                       \* task that other threads hold

ASSUME CpuAssumption ==
    /\ Local \subseteq Task /\ Endless \subseteq Task
    /\ None \notin Task /\ None \notin Nat /\ None \notin Client
    /\ LocalBase \in Nat /\ Capacity \in Nat \ {0}
    /\ MaxSubmits \in Nat /\ MaxCalls \in Nat /\ MaxPolls \in Nat

VARIABLES
    pc,          \* the loop the CPU thread is in
    inRun,       \* tick() was called by run(), not by the owner
    running,     \* Cpu::running
    task_queue,  \* Cpu::task_queue: the tasks in the map, keyed by id
    ready_queue, \* Cpu::ready_queue
    cancelled_tasks, \* Cpu::cancelled_tasks
    timer,       \* Cpu::timer: the task ids with a pending timer
    next_task_id,    \* Cpu::next_task_id
    cur,         \* the task inside poll
    io,          \* io[t]: "none", or the IoFuture t holds is "waiting" or "done"
    channel,     \* the messages sent and not yet received
    connected,   \* some sender is alive
    GLOBAL_TASK_ID_COUNTER,
    sending,     \* sending[c]: the message client c is blocked sending
    calls,       \* the number of CpuHandle calls made
    id,          \* id[t]: the TaskId of t, None before it has one
    wakers,      \* wakers[t]: wakers of t held by other threads
    \* what the properties look back on
    accepted, finished, polls,
    woken,       \* tasks inserted or woken since their last poll began
    cancelHandled    \* ids whose CancelTask has been handled

loopVars == <<pc, inRun, running, cur>>
queueVars == <<task_queue, ready_queue, cancelled_tasks, timer, io>>
idVars == <<next_task_id, GLOBAL_TASK_ID_COUNTER, id>>
clientVars == <<connected, sending, calls>>
history == <<accepted, finished, polls, woken, cancelHandled>>
vars == <<loopVars, queueVars, idVars, channel, clientVars, wakers, history>>

\* CrossCpuMessage; Shutdown and Ping carry nothing the receiver uses.
SubmitTask(t, i) == [type |-> "SubmitTask", task |-> t, id |-> i]
CancelTask(i) == [type |-> "CancelTask", task |-> None, id |-> i]
Shutdown == [type |-> "Shutdown", task |-> None, id |-> None]
Ping == [type |-> "Ping", task |-> None, id |-> None]

Message == [type : {"SubmitTask", "CancelTask", "Shutdown", "Ping"},
            task : Task \cup {None}, id : Nat \cup {None}]

Stopped == pc \in {"exited", "dead"}
WithId(i) == {t \in Task : id[t] = i}

Init ==
    /\ pc = "owner" /\ inRun = FALSE /\ running = TRUE /\ cur = None
    /\ task_queue = {} /\ ready_queue = <<>> /\ cancelled_tasks = {}
    /\ timer = {} /\ io = [t \in Task |-> "none"]
    /\ next_task_id = LocalBase /\ GLOBAL_TASK_ID_COUNTER = 1
    /\ id = [t \in Task |-> None]
    /\ channel = <<>> /\ connected = TRUE
    /\ sending = [c \in Client |-> None] /\ calls = 0
    /\ wakers = [t \in Task |-> 0]
    /\ accepted = {} /\ finished = {} /\ woken = {}
    /\ polls = [t \in Task |-> 0] /\ cancelHandled = {}

-----------------------------------------------------------------------------
(* The maps and queues the handlers share.                                 *)

\* HashMap::insert under key i: an entry with the same key is dropped.
Insert(t, i) == (task_queue \ WithId(i)) \cup {t}

\* A dropped task drops its IoFuture, whose Drop removes waker and result.
DropIo(S) == [t \in Task |-> IF t \in S THEN "none" ELSE io[t]]

\* MinissWaker::wake_impl: push the id, whoever owns it now.
Wake(i) ==
    /\ ready_queue' = Append(ready_queue, i)
    /\ woken' = woken \cup WithId(i)

\* Faulty variant: a task submitted after a Shutdown is not taken.
HandleSubmitUnlessLeaving(m) ==
    /\ m.type = "SubmitTask"
    /\ task_queue' = IF running THEN Insert(m.task, m.id) ELSE task_queue
    /\ io' = DropIo(task_queue \cap WithId(m.id))
    /\ Wake(m.id)
    /\ UNCHANGED <<cancelled_tasks, running, cancelHandled>>

\* Cpu::handle_message, one operator per message.
HandleSubmit(m) ==
    /\ m.type = "SubmitTask"
    /\ task_queue' = Insert(m.task, m.id)
    /\ io' = DropIo(task_queue \cap WithId(m.id))
    /\ Wake(m.id)
    /\ UNCHANGED <<cancelled_tasks, running, cancelHandled>>

\* Faulty variant: no mark, and only a task that is queued to run is removed.
HandleCancelQueued(m) ==
    /\ m.type = "CancelTask"
    /\ task_queue' = task_queue \ (WithId(m.id) \cap woken)
    /\ io' = DropIo(task_queue \cap WithId(m.id) \cap woken)
    /\ cancelHandled' = cancelHandled \cup {m.id}
    /\ UNCHANGED <<ready_queue, woken, running, cancelled_tasks>>

HandleCancel(m) ==
    /\ m.type = "CancelTask"
    /\ cancelled_tasks' = cancelled_tasks \cup {m.id}
    /\ task_queue' = task_queue \ WithId(m.id)
    /\ io' = DropIo(task_queue \cap WithId(m.id))
    /\ cancelHandled' = cancelHandled \cup {m.id}
    /\ UNCHANGED <<ready_queue, woken, running>>

\* Faulty variant: a shutdown that waits for tasks is forgotten meanwhile.
HandleShutdownIfIdle(m) ==
    /\ m.type = "Shutdown"
    /\ running' = (running /\ task_queue # {})
    /\ UNCHANGED <<task_queue, io, ready_queue, woken, cancelled_tasks,
                   cancelHandled>>

HandleShutdown(m) ==
    /\ m.type = "Shutdown"
    /\ running' = FALSE
    /\ UNCHANGED <<task_queue, io, ready_queue, woken, cancelled_tasks,
                   cancelHandled>>

HandlePing(m) ==
    /\ m.type = "Ping"
    /\ UNCHANGED <<task_queue, io, ready_queue, woken, cancelled_tasks,
                   cancelHandled, running>>

HandleMessage(m) ==
    /\ \/ HandleSubmit(m) \/ HandleCancel(m)
       \/ HandleShutdown(m) \/ HandlePing(m)
    /\ UNCHANGED <<timer, accepted, finished, polls>>

\* try_recv or recv_timeout returned a message.
Receive ==
    /\ channel # <<>>
    /\ channel' = Tail(channel)
    /\ HandleMessage(Head(channel))

\* The Cpu and its Receiver are dropped: blocked and later sends fail.
Teardown ==
    /\ channel' = <<>>
    /\ task_queue' = {}
    /\ io' = [t \in Task |-> "none"]

-----------------------------------------------------------------------------
(* The owner, while it holds the Cpu: spawn, schedule_timer, tick, run.    *)

Spawn(t) ==
    /\ pc = "owner" /\ t \in Local /\ id[t] = None
    /\ id' = [id EXCEPT ![t] = next_task_id]
    /\ next_task_id' = next_task_id + 1
    /\ task_queue' = Insert(t, next_task_id)
    /\ io' = DropIo(task_queue \cap WithId(next_task_id))
    /\ ready_queue' = Append(ready_queue, next_task_id)
    /\ woken' = woken \cup {t}
    /\ accepted' = accepted \cup {t}
    /\ UNCHANGED <<loopVars, cancelled_tasks, timer, GLOBAL_TASK_ID_COUNTER,
                   channel, clientVars, wakers, finished, polls,
                   cancelHandled>>

ScheduleTimer(t) ==
    /\ pc = "owner" /\ t \in accepted
    /\ timer' = timer \cup {id[t]}
    /\ UNCHANGED <<loopVars, task_queue, ready_queue, cancelled_tasks, io,
                   idVars, channel, clientVars, wakers, history>>

\* The owner calls tick() itself, or run() for good.
Enter(run) ==
    /\ pc = "owner"
    /\ inRun' = run
    /\ pc' = IF ~run \/ running THEN "messages" ELSE "leave"
    /\ UNCHANGED <<running, cur, queueVars, idVars, channel, clientVars,
                   wakers, history>>

-----------------------------------------------------------------------------
(* The CPU thread.  tick() is messages, timers, ready (and poll), io; run() *)
(* then waits for a message or drains the channel.                         *)

\* while self.running
LoopHead(isRunning) == IF isRunning THEN "messages" ELSE "leave"

\* Cpu::process_messages.
ProcessMessages ==
    /\ pc = "messages"
    /\ \/ Receive /\ UNCHANGED pc
       \/ /\ channel = <<>>
          /\ pc' = "timers"
          /\ UNCHANGED <<channel, running, queueVars, history>>
    /\ UNCHANGED <<inRun, cur, idVars, clientVars, wakers>>

\* timer.expire hands over some of the pending wakers, which tick() wakes.
ExpireTimers ==
    /\ pc = "timers"
    /\ \/ \E i \in timer : timer' = timer \ {i} /\ Wake(i) /\ UNCHANGED pc
       \/ pc' = "ready" /\ UNCHANGED <<timer, ready_queue, woken>>
    /\ UNCHANGED <<inRun, running, cur, task_queue, cancelled_tasks, io, idVars,
                   channel, clientVars, wakers, accepted, finished,
                   polls, cancelHandled>>

\* The head of the ready queue was cancelled: clean up and continue.
SkipCancelled(i) ==
    /\ i \in cancelled_tasks
    /\ cancelled_tasks' = cancelled_tasks \ {i}
    /\ task_queue' = task_queue \ WithId(i)
    /\ io' = DropIo(task_queue \cap WithId(i))
    /\ UNCHANGED <<pc, cur, woken, polls>>

\* Faulty variant: the task stays in the map while it is polled.
BeginPollInPlace(i) ==
    /\ i \notin cancelled_tasks
    /\ \E t \in task_queue \cap WithId(i) :
          /\ cur' = t
          /\ woken' = woken \ {t}
          /\ polls' = IF t \in Endless THEN polls
                      ELSE [polls EXCEPT ![t] = @ + 1]
    /\ pc' = "poll"
    /\ UNCHANGED <<cancelled_tasks, io, task_queue>>

\* The task is taken out of the map before it is polled.
BeginPoll(i) ==
    /\ i \notin cancelled_tasks
    /\ \E t \in task_queue \cap WithId(i) :
          /\ task_queue' = task_queue \ {t}
          /\ cur' = t
          /\ woken' = woken \ {t}
          /\ polls' = IF t \in Endless THEN polls
                      ELSE [polls EXCEPT ![t] = @ + 1]
    /\ pc' = "poll"
    /\ UNCHANGED <<cancelled_tasks, io>>

\* A wake-up of a task that is gone.
SkipUnknown(i) ==
    /\ i \notin cancelled_tasks
    /\ task_queue \cap WithId(i) = {}
    /\ UNCHANGED <<pc, cur, task_queue, cancelled_tasks, io, woken, polls>>

PopReady ==
    /\ pc = "ready"
    /\ \/ /\ ready_queue # <<>>
          /\ ready_queue' = Tail(ready_queue)
          /\ LET i == Head(ready_queue)
             IN SkipCancelled(i) \/ BeginPoll(i) \/ SkipUnknown(i)
       \/ /\ ready_queue = <<>>
          /\ pc' = "io"
          /\ UNCHANGED <<cur, task_queue, ready_queue, cancelled_tasks, io,
                         woken, polls>>
    /\ UNCHANGED <<inRun, running, timer, idVars, channel, clientVars, wakers,
                   accepted, finished, cancelHandled>>

PollReady ==
    /\ pc = "poll" /\ pc' = "ready"
    /\ cur' = None
    /\ finished' = finished \cup {cur}
    /\ io' = [io EXCEPT ![cur] = "none"]
    /\ UNCHANGED <<inRun, running, task_queue, ready_queue, cancelled_tasks,
                   timer, idVars, channel, clientVars, wakers, accepted,
                   polls, woken, cancelHandled>>

\* Faulty variant: putting the task back clears its queued wake-ups.
PollPendingFresh(how) ==
    /\ pc = "poll" /\ pc' = "ready"
    /\ cur \in Endless \/ polls[cur] < MaxPolls
    /\ how = "io" => inRun
    /\ how = "thread" => wakers[cur] < MaxPolls
    /\ cur' = None
    /\ task_queue' = Insert(cur, id[cur])
    /\ io' = [io EXCEPT ![cur] = IF how = "io" THEN "waiting" ELSE "none"]
    /\ wakers' = IF how = "thread" THEN [wakers EXCEPT ![cur] = @ + 1]
                 ELSE wakers
    /\ ready_queue' = SelectSeq(ready_queue, LAMBDA i : i # id[cur])
    /\ woken' = IF how = "yield" THEN woken \cup {cur} ELSE woken
    /\ UNCHANGED <<inRun, running, cancelled_tasks, timer, idVars, channel,
                   clientVars, accepted, finished, polls,
                   cancelHandled>>

\* Poll::Pending: the future woke itself, left its waker with another thread,
\* or holds an IoFuture (which needs the thread-local I/O state run() sets).
\* The task goes back into the map.
PollPending(how) ==
    /\ pc = "poll" /\ pc' = "ready"
    /\ cur \in Endless \/ polls[cur] < MaxPolls
    /\ how = "io" => inRun
    /\ how = "thread" => wakers[cur] < MaxPolls
    /\ cur' = None
    /\ task_queue' = Insert(cur, id[cur])
    /\ io' = [io EXCEPT ![cur] = IF how = "io" THEN "waiting" ELSE "none"]
    /\ wakers' = IF how = "thread" THEN [wakers EXCEPT ![cur] = @ + 1]
                 ELSE wakers
    /\ IF how = "yield" THEN Wake(id[cur]) ELSE UNCHANGED <<ready_queue, woken>>
    /\ UNCHANGED <<inRun, running, cancelled_tasks, timer, idVars, channel,
                   clientVars, accepted, finished, polls,
                   cancelHandled>>

\* tick() has no catch_unwind: a panic unwinds out of the thread.
PollPanic ==
    /\ pc = "poll" /\ pc' = "dead"
    /\ cur' = None
    /\ Teardown
    /\ UNCHANGED <<inRun, running, ready_queue, cancelled_tasks, timer, idVars,
                   clientVars, wakers, accepted, finished, polls, woken,
                   cancelHandled>>

\* Cpu::poll_io_completions: store a completion and wake its waiter.
PollIo ==
    /\ pc = "io"
    /\ \/ \E t \in Task : /\ io[t] = "waiting"
                          /\ io' = [io EXCEPT ![t] = "done"]
                          /\ Wake(id[t])
                          /\ UNCHANGED pc
       \/ /\ pc' = IF inRun THEN "wait" ELSE "owner"
          /\ UNCHANGED <<io, ready_queue, woken>>
    /\ UNCHANGED <<inRun, running, cur, task_queue, cancelled_tasks, timer,
                   idVars, channel, clientVars, wakers, accepted, finished,
                   polls, cancelHandled>>

Wait ==
    /\ pc = "wait"
    /\ pc' = IF ready_queue = <<>> THEN "recv" ELSE "drain"
    /\ UNCHANGED <<inRun, running, cur, queueVars, idVars, channel, clientVars,
                   wakers, history>>

\* Faulty variant: recv, without the timeout.
RecvBlocking ==
    /\ pc = "recv"
    /\ \/ Receive
       \/ /\ channel = <<>> /\ ~connected
          /\ running' = FALSE
          /\ UNCHANGED <<channel, queueVars, history>>
    /\ pc' = LoopHead(running')
    /\ UNCHANGED <<inRun, cur, idVars, clientVars, wakers>>

\* recv_timeout: a message, a disconnected channel, or CPU_THREAD_TIMEOUT_MS.
RecvTimeout ==
    /\ pc = "recv"
    /\ \/ Receive
       \/ /\ channel = <<>> /\ ~connected
          /\ running' = FALSE
          /\ UNCHANGED <<channel, queueVars, history>>
       \/ /\ channel = <<>> /\ connected
          /\ UNCHANGED <<running, channel, queueVars, history>>
    /\ pc' = LoopHead(running')
    /\ UNCHANGED <<inRun, cur, idVars, clientVars, wakers>>

Drain ==
    /\ pc = "drain"
    /\ \/ Receive /\ UNCHANGED pc
       \/ /\ channel = <<>>
          /\ pc' = LoopHead(running)
          /\ UNCHANGED <<channel, running, queueVars, history>>
    /\ UNCHANGED <<inRun, cur, idVars, clientVars, wakers>>

\* run() has cleared the thread-local I/O state when the Cpu is dropped, so
\* dropping a task that still holds an IoFuture panics in IoFuture::drop.
Exit ==
    /\ pc = "leave"
    /\ pc' = IF \E t \in task_queue : io[t] # "none" THEN "dead" ELSE "exited"
    /\ Teardown
    /\ UNCHANGED <<inRun, running, cur, ready_queue, cancelled_tasks, timer,
                   idVars, clientVars, wakers, history>>

-----------------------------------------------------------------------------
(* Other threads: CpuHandle calls and wakers.                              *)

\* A call builds its message, then blocks in Sender::send.
Call(c, m) ==
    /\ connected /\ sending[c] = None /\ calls < MaxCalls
    /\ sending' = [sending EXCEPT ![c] = m]
    /\ calls' = calls + 1
    /\ UNCHANGED <<loopVars, queueVars, next_task_id, channel, connected,
                   wakers, history>>

\* submit_task draws the global id before it sends.
CallSubmit(c, t) ==
    /\ t \notin Local /\ id[t] = None
    /\ GLOBAL_TASK_ID_COUNTER <= MaxSubmits
    /\ id' = [id EXCEPT ![t] = GLOBAL_TASK_ID_COUNTER]
    /\ GLOBAL_TASK_ID_COUNTER' = GLOBAL_TASK_ID_COUNTER + 1
    /\ Call(c, SubmitTask(t, GLOBAL_TASK_ID_COUNTER))

\* Callers of cancel_task have the id from submit_task's Ok or a JoinHandle.
CallCancel(c, t) ==
    /\ t \in accepted
    /\ Call(c, CancelTask(id[t]))
    /\ UNCHANGED <<id, GLOBAL_TASK_ID_COUNTER>>

CallOther(c) ==
    /\ Call(c, Shutdown) \/ Call(c, Ping)
    /\ UNCHANGED <<id, GLOBAL_TASK_ID_COUNTER>>

\* Faulty variant: one message more than the channel holds.
SendPastCapacity(c) ==
    /\ sending[c] # None /\ ~Stopped
    /\ Len(channel) <= Capacity
    /\ channel' = Append(channel, sending[c])
    /\ sending' = [sending EXCEPT ![c] = None]
    /\ accepted' = accepted \cup ({sending[c].task} \ {None})
    /\ UNCHANGED <<loopVars, queueVars, idVars, connected, calls, wakers,
                   finished, polls, woken, cancelHandled>>

\* The send finds room in the channel ...
SendOk(c) ==
    /\ sending[c] # None /\ ~Stopped
    /\ Len(channel) < Capacity
    /\ channel' = Append(channel, sending[c])
    /\ sending' = [sending EXCEPT ![c] = None]
    /\ accepted' = accepted \cup ({sending[c].task} \ {None})
    /\ UNCHANGED <<loopVars, queueVars, idVars, connected, calls, wakers,
                   finished, polls, woken, cancelHandled>>

\* Faulty variant: a failed send is retried on the same channel.
SendErrRetries(c) ==
    /\ sending[c] # None /\ Stopped
    /\ UNCHANGED vars

\* ... or fails because the receiver is gone.
SendErr(c) ==
    /\ sending[c] # None /\ Stopped
    /\ sending' = [sending EXCEPT ![c] = None]
    /\ UNCHANGED <<loopVars, queueVars, idVars, channel, connected, calls,
                   wakers, history>>

DropHandles ==
    /\ connected /\ \A c \in Client : sending[c] = None
    /\ connected' = FALSE
    /\ UNCHANGED <<loopVars, queueVars, idVars, channel, sending, calls, wakers,
                   history>>

\* Another thread calls wake() on a waker it holds, at any time.
ThreadWake(t) ==
    /\ wakers[t] > 0 /\ ~Stopped
    /\ wakers' = [wakers EXCEPT ![t] = @ - 1]
    /\ Wake(id[t])
    /\ UNCHANGED <<loopVars, task_queue, cancelled_tasks, timer, io, idVars,
                   channel, clientVars, accepted, finished, polls,
                   cancelHandled>>

-----------------------------------------------------------------------------
Owner == \/ \E t \in Task : Spawn(t) \/ ScheduleTimer(t)
         \/ \E run \in BOOLEAN : Enter(run)

CpuThread ==
    \/ ProcessMessages \/ ExpireTimers \/ PopReady
    \/ PollReady \/ (\E how \in {"yield", "thread", "io"} : PollPending(how))
    \/ PollPanic \/ PollIo \/ Wait \/ RecvTimeout \/ Drain \/ Exit

Clients == \E c \in Client :
    \/ \E t \in Task : CallSubmit(c, t) \/ CallCancel(c, t)
    \/ CallOther(c) \/ SendOk(c) \/ SendErr(c)

\* The Cpu is gone and nobody is blocked on it.
Done == /\ Stopped /\ \A c \in Client : sending[c] = None
        /\ UNCHANGED vars

Next == \/ Owner \/ CpuThread \/ Clients \/ DropHandles
        \/ (\E t \in Task : ThreadWake(t)) \/ Done

Spec == Init /\ [][Next]_vars

\* The OS keeps scheduling the CPU thread and threads blocked in send.
Fairness == /\ WF_vars(CpuThread)
            /\ \A c \in Client : WF_vars(SendOk(c) \/ SendErr(c))

FairSpec == Spec /\ Fairness

-----------------------------------------------------------------------------
(* Properties.                                                             *)

InChannel(t) == \E k \in DOMAIN channel : channel[k].task = t

\* t is where the loop can find it, or its end is accounted for.
Kept(t) == \/ InChannel(t) \/ t \in task_queue \/ t = cur
           \/ t \in finished \/ id[t] \in cancelHandled

\* The types of the state.
TypeOK ==
    /\ pc \in {"owner", "messages", "timers", "ready", "poll", "io", "wait",
               "recv", "drain", "leave", "exited", "dead"}
    /\ inRun \in BOOLEAN /\ running \in BOOLEAN /\ connected \in BOOLEAN
    /\ cur \in Task \cup {None} /\ (pc = "poll" <=> cur # None)
    /\ task_queue \subseteq accepted
    /\ ready_queue \in Seq(Nat) /\ cancelled_tasks \subseteq Nat
    /\ timer \subseteq Nat /\ io \in [Task -> {"none", "waiting", "done"}]
    /\ next_task_id \in Nat /\ GLOBAL_TASK_ID_COUNTER \in Nat
    /\ id \in [Task -> Nat \cup {None}] /\ wakers \in [Task -> Nat]
    /\ channel \in Seq(Message) /\ Len(channel) <= Capacity
    /\ sending \in [Client -> Message \cup {None}]
    /\ calls \in Nat /\ polls \in [Task -> Nat]
    /\ accepted \subseteq Task /\ finished \subseteq accepted
    /\ woken \subseteq Task
    /\ cancelHandled \subseteq Nat

\* Once the loop has handled CancelTask(id), no poll of that task begins: the
\* task is out of the map, no SubmitTask can still bring it back, and a stale
\* entry of the ready queue finds nothing (handle_message, tick).
CancelSticks ==
    /\ \A t \in task_queue : id[t] \notin cancelHandled
    /\ cur # None => id[cur] \notin cancelHandled

\* A wake-up is never lost, even one that arrives while the task is out of the
\* map being polled: a woken task has an entry in the ready queue.
NoLostWake ==
    \A t \in woken : t \in task_queue \/ t = cur => id[t] \in Range(ready_queue)

\* Until the Cpu is dropped, a task whose submit_task or spawn returned is in
\* the channel, in the map, being polled, finished or cancelled; the loop never
\* mislays one, in particular by overwriting its map entry.
AcceptedNotLost == ~Stopped => \A t \in accepted : Kept(t)

\* Every task goes through the life TaskLifecycle describes: polled only
\* between its acceptance and its end, never after it finished or was dropped.
Phase == [t \in Task |->
            IF t \in finished THEN "finished"
            ELSE IF t \notin accepted THEN "fresh"
            ELSE IF InChannel(t) \/ t \in task_queue \/ t = cur THEN "live"
            ELSE "dropped"]
Life == INSTANCE TaskLifecycle
            WITH Worker <- {"cpu"}, phase <- Phase,
                 polling <- [w \in {"cpu"} |-> cur]
Lifecycle == Life!Spec

\* While run() drives the loop, a submitted or woken task is polled again,
\* finished or cancelled, or the Cpu stops: neither the 10 ms wait for messages
\* nor the channel keeps it waiting for ever.
TaskServed ==
    \A t \in Task :
        (inRun /\ (InChannel(t) \/ t \in task_queue \cap woken))
            ~> (~InChannel(t) /\ t \notin task_queue \cap woken)

\* A Shutdown message in the channel of a running loop stops it.
ShutdownStops == (inRun /\ Shutdown \in Range(channel)) ~> Stopped

\* A thread blocked in Sender::send on a full channel gets through, or gets an
\* error because the Cpu is gone.
SendReturns ==
    \A c \in Client : (inRun /\ sending[c] # None) ~> (sending[c] = None)

\* waker.rs: "A task ID that uniquely identifies a task in the executor".
TaskIdUnique ==
    \A t, u \in accepted : t # u => id[t] # id[u]
=============================================================================
