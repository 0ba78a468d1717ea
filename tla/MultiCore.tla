------------------------------- MODULE MultiCore -------------------------------
(***************************************************************************)
(* The thread-per-core runtime of src/multicore.rs: MultiCoreRuntime,      *)
(* shared by client threads through an Arc, and one CpuCore per thread     *)
(* with an inbox (a SegQueue) and a round-robin run queue.  Client calls   *)
(* are split at every access to shared state.  The core's timers, its IO   *)
(* backend (nothing submits to it) and its 100 us park change nothing a    *)
(* property sees and belong to the step that ends a loop iteration.        *)
(***************************************************************************)
EXTENDS Naturals, Sequences, FiniteSets, Functions

CONSTANTS Task, None,
          Client,      \* threads that hold the Arc<MultiCoreRuntime>
          NumCores,    \* num_cores; new() refuses 0
          Endless,     \* tasks that are always Pending
          MsgBatch,    \* messages per iteration (32)
          TaskBatch,   \* polls per iteration (16)
          MaxPolls,    \* bound: polls after which another task ends
          MaxInbox     \* bound: ping_all starts only below this inbox length

ASSUME MultiCoreAssumption ==
    /\ NumCores \in Nat \ {0} /\ MsgBatch \in Nat \ {0}
    /\ TaskBatch \in Nat \ {0} /\ MaxPolls \in Nat \ {0} /\ MaxInbox \in Nat
    /\ None \notin Task /\ Endless \subseteq Task

Core == 0 .. NumCores - 1

VARIABLES
    state,       \* RuntimeState, or "failed" when new() returned Err
    next_core,   \* the round-robin counter
    client,      \* client[c]: where c is in a call (pc), its task, the core or
                 \* push it is at, and whether the call is part of the Drop
    inbox,       \* core_senders[k], the inbox of core k
    core,        \* core[k]: pc, the batch counter n, the task inside poll, the
                 \* shutdown flag and local_task_count
    task_queue,  \* CpuCore::task_queue
    \* what the properties look back on
    accepted,    \* tasks pushed to an inbox
    late,        \* those pushed after the runtime left Running
    finished, polls

coreVars == <<core, task_queue, finished, polls>>
callVars == <<accepted, late>>
vars == <<state, next_core, client, inbox, coreVars, callVars>>

Init ==
    /\ state = "Initializing" /\ next_core = 0
    /\ client = [c \in Client |-> [pc |-> "idle", task |-> None, at |-> 0,
                                   leaving |-> FALSE]]
    /\ inbox = [k \in Core |-> <<>>] /\ task_queue = [k \in Core |-> <<>>]
    /\ core = [k \in Core |-> [pc |-> "none", n |-> 0, cur |-> None,
                               shutdown |-> FALSE, count |-> 0]]
    /\ accepted = {} /\ late = {} /\ finished = {}
    /\ polls = [t \in Task |-> 0]

Ended(k) == core[k].pc \in {"exited", "panicked"}
Last(c) == \A d \in Client \ {c} : client[d].pc = "gone"
Freed == \A c \in Client : client[c].pc = "gone"

TaskMsg(t) == [type |-> "Task", task |-> t]
PingMsg(from) == [type |-> "Ping", from_core |-> from]
ShutdownMsg == [type |-> "Shutdown"]
Send(k, m) == inbox' = [inbox EXCEPT ![k] = Append(@, m)]

-----------------------------------------------------------------------------
(* new(): the cores are started one by one; when the IO backend or the     *)
(* thread of one fails, the ones already started are left running.         *)

NewCore(k) ==
    /\ state = "Initializing"
    /\ core[k].pc = "none" /\ \A j \in 0 .. k - 1 : core[j].pc # "none"
    /\ core' = [core EXCEPT ![k].pc = "while"]
    /\ UNCHANGED <<state, next_core, client, inbox, task_queue, finished, polls,
                   callVars>>

NewReturns ==
    /\ state = "Initializing"
    /\ \/ state' = "Running" /\ \A k \in Core : core[k].pc # "none"
       \/ state' = "failed" /\ \E k \in Core : core[k].pc = "none"
    /\ UNCHANGED <<next_core, client, inbox, coreVars, callVars>>

-----------------------------------------------------------------------------
(* Client calls.  A call refused because the runtime is not Running, or    *)
(* for a core that does not exist, changes nothing and is left out.        *)

Shared == state \notin {"Initializing", "failed"}
Fresh(t) == t \notin accepted /\ \A c \in Client : client[c].task # t

\* spawn: the state was loaded and is Running.
SpawnLoad(c, t) ==
    /\ client[c].pc = "idle" /\ state = "Running" /\ Fresh(t)
    /\ client' = [client EXCEPT ![c].pc = "select", ![c].task = t]
    /\ UNCHANGED <<state, next_core, inbox, coreVars, callVars>>

\* next_core.fetch_add(1) % num_cores
SpawnSelect(c) ==
    /\ client[c].pc = "select"
    /\ client' = [client EXCEPT ![c].pc = "push", ![c].at = next_core % NumCores]
    /\ next_core' = next_core + 1
    /\ UNCHANGED <<state, inbox, coreVars, callVars>>

SpawnOnLoad(c, t, k) ==
    /\ client[c].pc = "idle" /\ state = "Running" /\ Fresh(t)
    /\ client' = [client EXCEPT ![c].pc = "push", ![c].task = t, ![c].at = k]
    /\ UNCHANGED <<state, next_core, inbox, coreVars, callVars>>

\* spawn_on_core: the push does not look at the state again.
SpawnOnCore(c) ==
    /\ client[c].pc = "push"
    /\ LET t == client[c].task
       IN /\ Send(client[c].at, TaskMsg(t))
          /\ accepted' = accepted \cup {t}
          /\ late' = IF state = "Running" THEN late ELSE late \cup {t}
    /\ client' = [client EXCEPT ![c].pc = "idle", ![c].task = None, ![c].at = 0]
    /\ UNCHANGED <<state, next_core, coreVars>>

\* shutdown: the state was loaded and is Running.
ShutdownLoad(c) ==
    /\ client[c].pc = "idle" /\ state = "Running"
    /\ client' = [client EXCEPT ![c].pc = "cas"]
    /\ UNCHANGED <<state, next_core, inbox, coreVars, callVars>>

\* Faulty variant: the runtime stays Running while the messages are sent.
CompareExchangeLate(c) ==
    /\ client[c].pc = "cas"
    /\ client' = [client EXCEPT ![c].pc = IF state = "Running" THEN "send"
                                          ELSE "idle"]
    /\ UNCHANGED <<state, next_core, inbox, coreVars, callVars>>

\* compare_exchange(Running, ShuttingDown): the loser returns Ok.
CompareExchange(c) ==
    /\ client[c].pc = "cas"
    /\ \/ /\ state = "Running" /\ state' = "ShuttingDown"
          /\ client' = [client EXCEPT ![c].pc = "send"]
       \/ /\ state # "Running" /\ UNCHANGED state
          /\ client' = [client EXCEPT ![c].pc = "idle"]
    /\ UNCHANGED <<next_core, inbox, coreVars, callVars>>

\* Faulty variant: the last core is forgotten.
SendShutdownShort(c) ==
    /\ client[c].pc = "send"
    /\ \/ /\ client[c].at < NumCores - 1
          /\ Send(client[c].at, ShutdownMsg)
          /\ client' = [client EXCEPT ![c].at = @ + 1]
       \/ /\ client[c].at = NumCores - 1
          /\ client' = [client EXCEPT ![c].at = 0,
                            ![c].pc = IF client[c].leaving THEN "free" ELSE "idle"]
          /\ UNCHANGED inbox
    /\ UNCHANGED <<state, next_core, coreVars, callVars>>

\* The winner pushes Shutdown to one core after the other and returns.
SendShutdown(c) ==
    /\ client[c].pc = "send"
    /\ \/ /\ client[c].at < NumCores
          /\ Send(client[c].at, ShutdownMsg)
          /\ client' = [client EXCEPT ![c].at = @ + 1]
       \/ /\ client[c].at = NumCores
          /\ client' = [client EXCEPT ![c].at = 0,
                            ![c].pc = IF client[c].leaving THEN "free" ELSE "idle"]
          /\ UNCHANGED inbox
    /\ UNCHANGED <<state, next_core, coreVars, callVars>>

\* ping_all, whatever the state.
PingAll(c) ==
    /\ client[c].pc = "idle" /\ Shared
    /\ \A k \in Core : Len(inbox[k]) < MaxInbox
    /\ client' = [client EXCEPT ![c].pc = "ping"]
    /\ UNCHANGED <<state, next_core, inbox, coreVars, callVars>>

\* One push of ping_all: num_cores - 1 to each inbox, under the inbox's own id.
SendPing(c) ==
    /\ client[c].pc = "ping"
    /\ \/ /\ client[c].at < NumCores * (NumCores - 1)
          /\ LET k == client[c].at \div (NumCores - 1) IN Send(k, PingMsg(k))
          /\ client' = [client EXCEPT ![c].at = @ + 1]
       \/ /\ client[c].at = NumCores * (NumCores - 1)
          /\ client' = [client EXCEPT ![c].pc = "idle", ![c].at = 0]
          /\ UNCHANGED inbox
    /\ UNCHANGED <<state, next_core, coreVars, callVars>>

-----------------------------------------------------------------------------
(* The end of the runtime: a thread lets go of its Arc, and the last one   *)
(* may unwrap it and join().                                               *)

\* The last Arc runs Drop, which calls shutdown() if the state is Running.
DropArc(c) ==
    /\ client[c].pc = "idle" /\ Shared
    /\ \/ ~Last(c) /\ client' = [client EXCEPT ![c].pc = "gone"]
       \/ /\ Last(c)
          /\ client' = [client EXCEPT ![c].leaving = TRUE,
                            ![c].pc = IF state = "Running" THEN "cas" ELSE "free"]
    /\ UNCHANGED <<state, next_core, inbox, coreVars, callVars>>

Join(c) ==
    /\ client[c].pc = "idle" /\ Shared /\ Last(c)
    /\ client' = [client EXCEPT ![c].pc = "join"]
    /\ UNCHANGED <<state, next_core, inbox, coreVars, callVars>>

\* join() waits for one core after the other; a core that panicked makes it
\* return Err, and self is dropped as in DropArc.
JoinCore(c) ==
    /\ client[c].pc = "join"
    /\ LET k == client[c].at
       IN \/ /\ k < NumCores /\ core[k].pc = "exited"
             /\ client' = [client EXCEPT ![c].at = @ + 1]
             /\ UNCHANGED state
          \/ /\ k < NumCores /\ core[k].pc = "panicked"
             /\ client' = [client EXCEPT ![c].at = 0, ![c].leaving = TRUE,
                               ![c].pc = IF state = "Running" THEN "cas" ELSE "free"]
             /\ UNCHANGED state
          \/ /\ k = NumCores
             /\ state' = "Terminated"
             /\ client' = [client EXCEPT ![c].pc = "free", ![c].at = 0]
    /\ UNCHANGED <<next_core, inbox, coreVars, callVars>>

\* The fields of the runtime go; an inbox is freed once its core has ended too.
FreeRuntime(c) ==
    /\ client[c].pc = "free"
    /\ client' = [client EXCEPT ![c].pc = "gone"]
    /\ inbox' = [k \in Core |-> IF Ended(k) THEN <<>> ELSE inbox[k]]
    /\ UNCHANGED <<state, next_core, coreVars, callVars>>

-----------------------------------------------------------------------------
(* CpuCore::run, one thread per core.                                      *)

Goto(k, pc) == core' = [core EXCEPT ![k].pc = pc, ![k].n = 0]

\* The thread ends: its queue is dropped, its inbox only if it held the last
\* reference.
End(k, pc) ==
    /\ core' = [core EXCEPT ![k].pc = pc, ![k].n = 0, ![k].cur = None,
                            ![k].count = 0]
    /\ task_queue' = [task_queue EXCEPT ![k] = <<>>]
    /\ inbox' = IF Freed THEN [inbox EXCEPT ![k] = <<>>] ELSE inbox

\* while !self.shutdown.load()
While(k) ==
    /\ core[k].pc = "while"
    /\ \/ core[k].shutdown /\ End(k, "exited")
       \/ ~core[k].shutdown /\ Goto(k, "messages") /\ UNCHANGED <<inbox, task_queue>>
    /\ UNCHANGED <<state, next_core, client, finished, polls, callVars>>

\* Faulty variant: process_messages empties the inbox in one go.
ReceiveAll(k) ==
    /\ core[k].pc = "messages" /\ inbox[k] # <<>>
    /\ inbox' = [inbox EXCEPT ![k] = Tail(@)]
    /\ LET m == Head(inbox[k])
       IN \/ /\ m.type = "Task"
             /\ task_queue' = [task_queue EXCEPT ![k] = Append(@, m.task)]
             /\ core' = [core EXCEPT ![k].count = @ + 1]
          \/ /\ m.type = "Ping" /\ UNCHANGED <<core, task_queue>>
          \/ /\ m.type = "Shutdown"
             /\ core' = [core EXCEPT ![k].shutdown = TRUE, ![k].pc = "tasks"]
             /\ UNCHANGED task_queue
    /\ UNCHANGED <<state, next_core, client, finished, polls, callVars>>

\* Faulty variant: local_task_count is not incremented.
ReceiveUncounted(k) ==
    /\ core[k].pc = "messages" /\ core[k].n < MsgBatch /\ inbox[k] # <<>>
    /\ inbox' = [inbox EXCEPT ![k] = Tail(@)]
    /\ LET m == Head(inbox[k])
       IN \/ /\ m.type = "Task"
             /\ task_queue' = [task_queue EXCEPT ![k] = Append(@, m.task)]
             /\ core' = [core EXCEPT ![k].n = @ + 1]
          \/ /\ m.type # "Task"
             /\ core' = [core EXCEPT ![k].n = @ + 1,
                                     ![k].shutdown = @ \/ m.type = "Shutdown"]
             /\ UNCHANGED task_queue
    /\ UNCHANGED <<state, next_core, client, finished, polls, callVars>>

\* Faulty variant: a Shutdown is taken ahead of what came before it.
ReceiveShutdownFirst(k) ==
    /\ core[k].pc = "messages" /\ core[k].n < MsgBatch /\ inbox[k] # <<>>
    /\ \/ /\ ShutdownMsg \in Range(inbox[k])
          /\ inbox' = [inbox EXCEPT ![k] = SelectSeq(@, LAMBDA m : m # ShutdownMsg)]
          /\ core' = [core EXCEPT ![k].shutdown = TRUE, ![k].pc = "tasks", ![k].n = 0]
          /\ UNCHANGED task_queue
       \/ /\ ShutdownMsg \notin Range(inbox[k])
          /\ inbox' = [inbox EXCEPT ![k] = Tail(@)]
          /\ LET m == Head(inbox[k])
             IN \/ /\ m.type = "Task"
                   /\ task_queue' = [task_queue EXCEPT ![k] = Append(@, m.task)]
                   /\ core' = [core EXCEPT ![k].n = @ + 1, ![k].count = @ + 1]
                \/ /\ m.type = "Ping"
                   /\ core' = [core EXCEPT ![k].n = @ + 1]
                   /\ UNCHANGED task_queue
    /\ UNCHANGED <<state, next_core, client, finished, polls, callVars>>

\* One turn of process_messages; Shutdown ends it.
Receive(k) ==
    /\ core[k].pc = "messages" /\ core[k].n < MsgBatch /\ inbox[k] # <<>>
    /\ inbox' = [inbox EXCEPT ![k] = Tail(@)]
    /\ LET m == Head(inbox[k])
       IN \/ /\ m.type = "Task"
             /\ task_queue' = [task_queue EXCEPT ![k] = Append(@, m.task)]
             /\ core' = [core EXCEPT ![k].n = @ + 1, ![k].count = @ + 1]
          \/ /\ m.type = "Ping"
             /\ core' = [core EXCEPT ![k].n = @ + 1]
             /\ UNCHANGED task_queue
          \/ /\ m.type = "Shutdown"
             /\ core' = [core EXCEPT ![k].shutdown = TRUE, ![k].pc = "tasks",
                                     ![k].n = 0]
             /\ UNCHANGED task_queue
    /\ UNCHANGED <<state, next_core, client, finished, polls, callVars>>

EndMessages(k) ==
    /\ core[k].pc = "messages"
    /\ core[k].n = MsgBatch \/ inbox[k] = <<>>
    /\ Goto(k, "tasks")
    /\ UNCHANGED <<state, next_core, client, inbox, task_queue, finished, polls,
                   callVars>>

\* Faulty variant: execute_tasks runs until the queue is empty.
PopAll(k) ==
    /\ core[k].pc = "tasks" /\ task_queue[k] # <<>>
    /\ LET t == Head(task_queue[k])
       IN /\ core' = [core EXCEPT ![k].pc = "poll", ![k].cur = t]
          /\ polls' = [polls EXCEPT ![t] = IF @ < MaxPolls THEN @ + 1 ELSE @]
    /\ task_queue' = [task_queue EXCEPT ![k] = Tail(@)]
    /\ UNCHANGED <<state, next_core, client, inbox, finished, callVars>>

\* One turn of execute_tasks: the task at the head is polled.
Pop(k) ==
    /\ core[k].pc = "tasks" /\ core[k].n < TaskBatch /\ task_queue[k] # <<>>
    /\ LET t == Head(task_queue[k])
       IN /\ core' = [core EXCEPT ![k].pc = "poll", ![k].cur = t, ![k].n = @ + 1]
          /\ polls' = [polls EXCEPT ![t] = IF @ < MaxPolls THEN @ + 1 ELSE @]
    /\ task_queue' = [task_queue EXCEPT ![k] = Tail(@)]
    /\ UNCHANGED <<state, next_core, client, inbox, finished, callVars>>

\* Faulty variant: a task goes to the back of the queue whatever its poll gave.
PollReadyRequeues(k) ==
    /\ core[k].pc = "poll" /\ core[k].cur \notin Endless
    /\ finished' = finished \cup {core[k].cur}
    /\ core' = [core EXCEPT ![k].pc = "tasks", ![k].cur = None]
    /\ task_queue' = [task_queue EXCEPT ![k] = Append(@, core[k].cur)]
    /\ UNCHANGED <<state, next_core, client, inbox, polls, callVars>>

PollReady(k) ==
    /\ core[k].pc = "poll" /\ core[k].cur \notin Endless
    /\ finished' = finished \cup {core[k].cur}
    /\ core' = [core EXCEPT ![k].pc = "tasks", ![k].cur = None, ![k].count = @ - 1]
    /\ UNCHANGED <<state, next_core, client, inbox, task_queue, polls, callVars>>

\* The waker is a dummy: a pending task just goes to the back of the queue.
PollPending(k) ==
    /\ core[k].pc = "poll"
    /\ core[k].cur \in Endless \/ polls[core[k].cur] < MaxPolls
    /\ task_queue' = [task_queue EXCEPT ![k] = Append(@, core[k].cur)]
    /\ core' = [core EXCEPT ![k].pc = "tasks", ![k].cur = None]
    /\ UNCHANGED <<state, next_core, client, inbox, finished, polls, callVars>>

\* Nothing catches a panic: the thread unwinds and is gone.
PollPanic(k) ==
    /\ core[k].pc = "poll" /\ core[k].cur \notin Endless
    /\ End(k, "panicked")
    /\ UNCHANGED <<state, next_core, client, finished, polls, callVars>>

\* The batch is over: process_io, process_timers, perhaps a park, and round.
EndTasks(k) ==
    /\ core[k].pc = "tasks"
    /\ core[k].n = TaskBatch \/ task_queue[k] = <<>>
    /\ Goto(k, "while")
    /\ UNCHANGED <<state, next_core, client, inbox, task_queue, finished, polls,
                   callVars>>

-----------------------------------------------------------------------------
\* The steps of a call that has begun.
InCall(c) == \/ SpawnSelect(c) \/ SpawnOnCore(c) \/ CompareExchange(c)
             \/ SendShutdown(c) \/ SendPing(c) \/ JoinCore(c) \/ FreeRuntime(c)

Call(c) == \/ ShutdownLoad(c) \/ PingAll(c) \/ DropArc(c) \/ Join(c)
           \/ \E t \in Task : \/ SpawnLoad(c, t)
                              \/ \E k \in Core : SpawnOnLoad(c, t, k)

CoreStep(k) == \/ While(k) \/ Receive(k) \/ EndMessages(k) \/ Pop(k)
               \/ PollReady(k) \/ PollPending(k) \/ PollPanic(k) \/ EndTasks(k)

Next == \/ \E k \in Core : NewCore(k) \/ CoreStep(k)
        \/ NewReturns
        \/ \E c \in Client : InCall(c) \/ Call(c)

Spec == Init /\ [][Next]_vars

\* The OS schedules every core's thread, and a client inside a call.
Fairness == /\ \A k \in Core : WF_vars(CoreStep(k))
            /\ \A c \in Client : WF_vars(InCall(c))

FairSpec == Spec /\ Fairness

-----------------------------------------------------------------------------
(* Properties.                                                             *)

Message == {TaskMsg(t) : t \in Task} \cup {PingMsg(k) : k \in Core}
           \cup {ShutdownMsg}

\* The types of the state; local_task_count counts the tasks a core has.
TypeOK ==
    /\ state \in {"Initializing", "Running", "ShuttingDown", "Terminated", "failed"}
    /\ next_core \in 0 .. Cardinality(Task)
    /\ client \in [Client -> [pc : {"idle", "select", "push", "cas", "send", "ping",
                                    "join", "free", "gone"},
                              task : Task \cup {None}, at : Nat, leaving : BOOLEAN]]
    /\ core \in [Core -> [pc : {"none", "while", "messages", "tasks", "poll",
                                "exited", "panicked"},
                          n : Nat, cur : Task \cup {None}, shutdown : BOOLEAN,
                          count : Nat]]
    /\ \A k \in Core :
          /\ inbox[k] \in Seq(Message) /\ task_queue[k] \in Seq(Task)
          /\ core[k].count = Len(task_queue[k]) + (IF core[k].cur = None THEN 0 ELSE 1)
    /\ late \subseteq accepted /\ finished \subseteq accepted
    /\ polls \in [Task -> 0 .. MaxPolls]

\* However many threads call shutdown(), and whichever of them drops the last
\* Arc, a core is sent at most one Shutdown: the compare_exchange picks one.
OneShutdown ==
    \A k \in Core : \A i \in DOMAIN inbox[k] :
        inbox[k][i] = ShutdownMsg =>
            /\ ~core[k].shutdown
            /\ \A j \in DOMAIN inbox[k] : inbox[k][j] = ShutdownMsg => i = j

\* A task pushed while the runtime was Running is ahead of the Shutdown in its
\* inbox: a core that exits leaves behind only tasks whose spawn raced with
\* shutdown().
NotStranded ==
    \A k \in Core : core[k].pc = "exited" =>
        \A i \in DOMAIN inbox[k] :
            inbox[k][i].type = "Task" => inbox[k][i].task \in late

Inboxed == {t \in Task : \E k \in Core : TaskMsg(t) \in Range(inbox[k])}
Queued == {t \in Task : \E k \in Core : t \in Range(task_queue[k])}
Phase == [t \in Task |->
            IF t \in finished THEN "finished"
            ELSE IF t \notin accepted THEN "fresh"
            ELSE IF t \in Inboxed \cup Queued \cup {core[k].cur : k \in Core}
                 THEN "live" ELSE "dropped"]
Life == INSTANCE TaskLifecycle
            WITH Worker <- Core, phase <- Phase,
                 polling <- [k \in Core |-> core[k].cur]
\* Every task goes through the life TaskLifecycle describes, on whichever core.
Lifecycle == Life!Spec

\* While the runtime is Running every accepted task is polled, on a core that
\* does not panic, even with endless tasks beside it and pings without end: the
\* batches of 32 and 16 are there "to avoid starvation".
TaskPolled ==
    \A t \in Task, k \in Core :
        (TaskMsg(t) \in Range(inbox[k]))
            ~> (polls[t] > 0 \/ state # "Running" \/ core[k].pc = "panicked")

\* Once a runtime is shutting down or its last Arc is gone, every core ends,
\* endless tasks or not.
CoresStop ==
    (state = "ShuttingDown" \/ Freed) ~> (\A k \in Core : Ended(k))

\* join() after a shutdown returns, also when a core panicked.
JoinReturns ==
    \A c \in Client :
        (client[c].pc = "join" /\ state = "ShuttingDown") ~> (client[c].pc = "gone")
=============================================================================
