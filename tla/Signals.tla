------------------------------- MODULE Signals -------------------------------
(***************************************************************************)
(* Shutdown by signal: the thread of SignalHandler::start (src/signal.rs), *)
(* the CPUs it broadcasts to (Cpu::run of src/cpu.rs), and the bounded     *)
(* channels between them, into which tasks send as well through the        *)
(* CpuHandles they hold.  Every send blocks its thread while the channel   *)
(* is full and the receiver lives; a task that blocks holds up the CPU it  *)
(* runs on.  What a message other than Shutdown asks for is left to Cpu.   *)
(***************************************************************************)
EXTENDS Naturals, Sequences

CONSTANTS NumCpus,      \* the CPUs, 1 .. NumCpus in the order of cpu_handles
          Signal,       \* SIGINT, SIGTERM, SIGHUP
          Capacity,     \* CROSS_CPU_CHANNEL_CAPACITY (1000)
          MaxSends,     \* bound: messages the tasks of one CPU send
          MaxSignals    \* bound: signals the process is sent

ASSUME SignalsAssumption ==
    /\ NumCpus \in Nat \ {0} /\ Capacity \in Nat \ {0}
    /\ MaxSends \in Nat /\ MaxSignals \in Nat

Cpu == 1 .. NumCpus
Message == {"Shutdown", "Work"}

VARIABLES process,        \* "runs", or how it ended: "killed", "exit(1)"
          cpu_handles,    \* the handler was given the CPUs (with_cpu_handles)
          shutdown_flag,
          pending,        \* signals that arrived and the handler has not read
          raised,         \* how many arrived
          handler,        \* the thread: "starting", "waiting", "sending"
          at,             \* the CPU it sends to
          chan,           \* chan[c]: the channel of c
          running,        \* Cpu::running
          pc,             \* where c is in its loop
          out,            \* the message a task of c is sending ("Work" if none)
          to,             \* ... and to whom (c if none)
          sends           \* messages the tasks of c have sent

handlerVars == <<shutdown_flag, handler, at>>
cpuVars == <<running, pc, out, to, sends>>
vars == <<process, cpu_handles, pending, raised, handlerVars, chan, cpuVars>>

Init ==
    /\ process = "runs" /\ cpu_handles \in BOOLEAN /\ shutdown_flag = FALSE
    /\ pending = {} /\ raised = 0 /\ handler = "starting" /\ at = 1
    /\ chan = [c \in Cpu |-> <<>>] /\ running = [c \in Cpu |-> TRUE]
    /\ pc = [c \in Cpu |-> "messages"] /\ out = [c \in Cpu |-> "Work"]
    /\ to = [c \in Cpu |-> c] /\ sends = [c \in Cpu |-> 0]

\* Sender::send: Err once the receiver is gone; else it waits for room.
Disconnected(c) == pc[c] = "left"
Full(c) == ~Disconnected(c) /\ Len(chan[c]) = Capacity
Sent(c, m) ==
    IF Disconnected(c) THEN chan ELSE [chan EXCEPT ![c] = Append(@, m)]

-----------------------------------------------------------------------------
(* The process and its signal thread.                                      *)

\* A signal arrives: signal-hook notes it, unless the thread has not yet called
\* Signals::new.
Raise(s) ==
    /\ process = "runs" /\ raised < MaxSignals
    /\ raised' = raised + 1
    /\ IF handler = "starting"
       THEN process' = "killed" /\ UNCHANGED pending
       ELSE pending' = pending \cup {s} /\ UNCHANGED process
    /\ UNCHANGED <<cpu_handles, handlerVars, chan, cpuVars>>

\* Signals::new
Listen ==
    /\ process = "runs" /\ handler = "starting"
    /\ handler' = "waiting"
    /\ UNCHANGED <<process, cpu_handles, pending, raised, shutdown_flag, at, chan,
                   cpuVars>>

\* Faulty variant: a second signal starts the broadcast again.
ReadSignalAgain(s) ==
    /\ process = "runs" /\ handler = "waiting" /\ s \in pending
    /\ pending' = pending \ {s}
    /\ shutdown_flag' = TRUE
    /\ handler' = IF cpu_handles THEN "sending" ELSE "waiting"
    /\ at' = 1
    /\ UNCHANGED <<process, cpu_handles, raised, chan, cpuVars>>

\* The thread reads a signal: the first begins the shutdown, another one ends
\* the process.
ReadSignal(s) ==
    /\ process = "runs" /\ handler = "waiting" /\ s \in pending
    /\ pending' = pending \ {s}
    /\ IF shutdown_flag
       THEN process' = "exit(1)" /\ UNCHANGED handlerVars
       ELSE /\ shutdown_flag' = TRUE
            /\ handler' = IF cpu_handles THEN "sending" ELSE "waiting"
            /\ UNCHANGED <<process, at>>
    /\ UNCHANGED <<cpu_handles, raised, chan, cpuVars>>

\* Faulty variant: the broadcast ends at a CPU that is gone.
BroadcastStops ==
    /\ process = "runs" /\ handler = "sending" /\ ~Full(at)
    /\ chan' = Sent(at, "Shutdown")
    /\ IF at = NumCpus \/ Disconnected(at)
       THEN handler' = "waiting" /\ UNCHANGED at
       ELSE at' = at + 1 /\ UNCHANGED handler
    /\ UNCHANGED <<process, cpu_handles, pending, raised, shutdown_flag, cpuVars>>

\* Shutdown to one CPU after the other; one that is gone is skipped.
Broadcast ==
    /\ process = "runs" /\ handler = "sending" /\ ~Full(at)
    /\ chan' = Sent(at, "Shutdown")
    /\ IF at = NumCpus THEN handler' = "waiting" /\ UNCHANGED at
                       ELSE at' = at + 1 /\ UNCHANGED handler
    /\ UNCHANGED <<process, cpu_handles, pending, raised, shutdown_flag, cpuVars>>

-----------------------------------------------------------------------------
(* A CPU: tick() is "messages" and "tasks"; then run() waits for a message *)
(* or, with a ready queue that is not empty, takes all there are.          *)

Goto(c, label) == pc' = [pc EXCEPT ![c] = label]

\* while self.running
Top(c) == IF running'[c] THEN "messages" ELSE "left"

\* handle_message, of the message at the front.
Handle(c) ==
    /\ process = "runs" /\ chan[c] # <<>>
    /\ chan' = [chan EXCEPT ![c] = Tail(@)]
    /\ running' = [running EXCEPT ![c] = @ /\ Head(chan[c]) # "Shutdown"]
    /\ UNCHANGED <<process, cpu_handles, pending, raised, handlerVars, out, to, sends>>

NoMessage(c) ==
    /\ process = "runs" /\ chan[c] = <<>>
    /\ UNCHANGED <<process, cpu_handles, pending, raised, handlerVars, chan, running,
                   out, to, sends>>

\* process_messages, until try_recv finds nothing.
ProcessMessages(c) ==
    /\ pc[c] = "messages"
    /\ \/ Handle(c) /\ UNCHANGED pc
       \/ NoMessage(c) /\ Goto(c, "tasks")

\* A task that is polled calls submit_task, ping, cancel_task or shutdown on the
\* handle of d.
TaskSends(c, d, m) ==
    /\ process = "runs" /\ pc[c] = "tasks" /\ sends[c] < MaxSends
    /\ Goto(c, "sending")
    /\ out' = [out EXCEPT ![c] = m] /\ to' = [to EXCEPT ![c] = d]
    /\ sends' = [sends EXCEPT ![c] = @ + 1]
    /\ UNCHANGED <<process, cpu_handles, pending, raised, handlerVars, chan, running>>

\* Its send returns.
SendReturns(c) ==
    /\ process = "runs" /\ pc[c] = "sending" /\ ~Full(to[c])
    /\ chan' = Sent(to[c], out[c]) /\ Goto(c, "tasks")
    /\ out' = [out EXCEPT ![c] = "Work"] /\ to' = [to EXCEPT ![c] = c]
    /\ UNCHANGED <<process, cpu_handles, pending, raised, handlerVars, running, sends>>

\* The ready queue was empty in tick(); it is still, or a waker has filled it.
EndTick(c) ==
    /\ process = "runs" /\ pc[c] = "tasks"
    /\ \E label \in {"wait", "drain"} : Goto(c, label)
    /\ UNCHANGED <<process, cpu_handles, pending, raised, handlerVars, chan, running,
                   out, to, sends>>

\* recv_timeout: a message or, if there is none, the timeout.
RecvTimeout(c) ==
    /\ pc[c] = "wait"
    /\ Handle(c) \/ NoMessage(c)
    /\ Goto(c, Top(c))

\* The try_recv loop of run().
Drain(c) ==
    /\ pc[c] = "drain"
    /\ \/ Handle(c) /\ UNCHANGED pc
       \/ NoMessage(c) /\ Goto(c, Top(c))

-----------------------------------------------------------------------------
Thread == Listen \/ Broadcast \/ \E s \in Signal : ReadSignal(s)

RunCpu(c) ==
    \/ ProcessMessages(c) \/ SendReturns(c) \/ EndTick(c) \/ RecvTimeout(c) \/ Drain(c)
    \/ \E d \in Cpu, m \in Message : TaskSends(c, d, m)

Next == \/ Thread \/ \E c \in Cpu : RunCpu(c)
        \/ \E s \in Signal : Raise(s)

Spec == Init /\ [][Next]_vars

\* The operating system runs the threads that are not blocked.
FairSpec == Spec /\ WF_vars(Thread) /\ \A c \in Cpu : WF_vars(RunCpu(c))

-----------------------------------------------------------------------------
(* Properties.                                                             *)

\* CPUs whose tasks wait for room in each other's channels, or in their own.
Deadlocked ==
    \E S \in SUBSET Cpu : /\ S # {}
                          /\ \A c \in S : /\ pc[c] = "sending" /\ Full(to[c])
                                          /\ to[c] \in S

AllLeft == \A c \in Cpu : pc[c] = "left"

\* The first signal stops every CPU of the handler (or the process ends),
\* whatever is in the channels, whoever blocks on them and whichever CPUs have
\* left before; the one thing that prevents it is a cycle of CPUs whose tasks
\* wait for room in each other's channels.
SignalStopsCpus ==
    (shutdown_flag /\ cpu_handles) ~> (AllLeft \/ process # "runs" \/ Deadlocked)

\* A signal that arrives once the shutdown has begun ends the process, also while
\* the handler waits for room in a channel, with the same exception.
SecondSignalExits ==
    (shutdown_flag /\ pending # {}) ~> (process # "runs" \/ Deadlocked)
===============================================================================
