----------------------------------- MODULE Io -----------------------------------
(***************************************************************************)
(* I/O on one runtime thread: the IoFutures of src/io/future.rs, the       *)
(* CpuIoState they share with the thread, and the two loops that drive     *)
(* them, Cpu::run of src/cpu.rs and Runtime::block_on of src/executor.rs.  *)
(* Cpu::run polls a task only when its waker put it in the ready queue;    *)
(* block_on polls its future, and all of its parts, at least every 1 ms.   *)
(* Each operation is awaited by one future.                                *)
(***************************************************************************)
EXTENDS Uring

CONSTANTS Driver,     \* the loops to consider: "cpu", "block_on"
          MaxWakes    \* bound: wake-ups that are not about I/O

ASSUME IoAssumption == Driver \subseteq {"cpu", "block_on"} /\ MaxWakes \in Nat

VARIABLES driver,         \* the loop this thread runs
          pc,             \* where it is
          fut,            \* fut[o]: the IoFuture of o, or what it returned
          io_wakers,      \* CpuIoState::io_wakers
          completed_io,   \* CpuIoState::completed_io
          ready,          \* futures that will be polled before the loop goes on
          wakes           \* wake-ups that were not about I/O

ioVars == <<driver, fut, io_wakers, completed_io, ready, wakes>>
vars == <<uringVars, ioVars, pc>>

Init ==
    /\ UringInit
    /\ driver \in Driver /\ pc = "poll"
    /\ fut = [o \in Op |-> "none"] /\ completed_io = [o \in Op |-> "none"]
    /\ io_wakers = {} /\ ready = {} /\ wakes = 0

Waiting == {o \in Op : fut[o] = "waiting"}

\* IoFuture::drop, once its future is resolved or given up.
Forget(o) ==
    /\ io_wakers' = io_wakers \ {o}
    /\ completed_io' = [completed_io EXCEPT ![o] = "none"]

-----------------------------------------------------------------------------
(* Inside the polls of the loop.                                           *)

\* A future submits its operation and polls the IoFuture for the first time.
Start(o, accepts) ==
    /\ pc = "poll" /\ fut[o] = "none"
    /\ Submit(o, accepts)
    /\ fut' = [fut EXCEPT ![o] = "waiting"]
    /\ io_wakers' = io_wakers \cup {o}
    /\ UNCHANGED <<pc, driver, completed_io, ready, wakes>>

\* Faulty variant: the waker is registered on the first poll only.
PollFutureOnce(o) ==
    /\ pc = "poll" /\ o \in ready \cap Waiting
    /\ ready' = ready \ {o}
    /\ \/ /\ completed_io[o] # "none"
          /\ fut' = [fut EXCEPT ![o] = completed_io[o]]
          /\ Forget(o)
       \/ /\ completed_io[o] = "none"
          /\ io_wakers' = io_wakers \ {o}
          /\ UNCHANGED <<fut, completed_io>>
    /\ UNCHANGED <<uringVars, pc, driver, wakes>>

\* Faulty variant: any result that is there is taken for the future's own.
PollFutureAny(o) ==
    /\ pc = "poll" /\ o \in ready \cap Waiting
    /\ ready' = ready \ {o}
    /\ \/ \E p \in Op : /\ completed_io[p] # "none"
                        /\ fut' = [fut EXCEPT ![o] = completed_io[p]]
                        /\ io_wakers' = io_wakers \ {o}
                        /\ completed_io' = [completed_io EXCEPT ![p] = "none"]
       \/ /\ completed_io[o] = "none"
          /\ io_wakers' = io_wakers \cup {o}
          /\ UNCHANGED <<fut, completed_io>>
    /\ UNCHANGED <<uringVars, pc, driver, wakes>>

\* IoFuture::poll: take the result, or register the waker again.
PollFuture(o) ==
    /\ pc = "poll" /\ o \in ready \cap Waiting
    /\ ready' = ready \ {o}
    /\ \/ /\ completed_io[o] # "none"
          /\ fut' = [fut EXCEPT ![o] = completed_io[o]]
          /\ Forget(o)
       \/ /\ completed_io[o] = "none"
          /\ io_wakers' = io_wakers \cup {o}
          /\ UNCHANGED <<fut, completed_io>>
    /\ UNCHANGED <<uringVars, pc, driver, wakes>>

\* Faulty variant: the waker stays registered.
DropFutureKeepsWaker(o) ==
    /\ pc = "poll" /\ o \in Waiting
    /\ fut' = [fut EXCEPT ![o] = "dropped"]
    /\ ready' = ready \ {o}
    /\ completed_io' = [completed_io EXCEPT ![o] = "none"]
    /\ UNCHANGED <<uringVars, pc, driver, io_wakers, wakes>>

\* Faulty variant: the operation and its buffers go with the future.
DropFutureFreesOp(o) ==
    /\ pc = "poll" /\ o \in Waiting
    /\ fut' = [fut EXCEPT ![o] = "dropped"]
    /\ ready' = ready \ {o}
    /\ Forget(o)
    /\ pending_ops' = pending_ops \ {o}
    /\ UNCHANGED <<sq, inflight, cq, pc, driver, wakes>>

\* A select, a timeout or a cancelled task drops a future that still waits.
DropFuture(o) ==
    /\ pc = "poll" /\ o \in Waiting
    /\ fut' = [fut EXCEPT ![o] = "dropped"]
    /\ ready' = ready \ {o}
    /\ Forget(o)
    /\ UNCHANGED <<uringVars, pc, driver, wakes>>

\* The ready queue is empty, or the root future returned Pending.
EndPolls ==
    /\ pc = "poll" /\ ready = {} /\ pc' = "io"
    /\ UNCHANGED <<uringVars, ioVars>>

\* block_on's future is Ready, or run() was told to leave and ends after a tick:
\* the thread-local state is cleared first, then what still waits is dropped,
\* and io_state() panics in its Drop.
Leave ==
    /\ pc = IF driver = "cpu" THEN "park" ELSE "poll"
    /\ pc' = IF Waiting = {} THEN "returned" ELSE "panicked"
    /\ fut' = [o \in Op |-> IF o \in Waiting THEN "dropped" ELSE fut[o]]
    /\ io_wakers' = {} /\ completed_io' = [o \in Op |-> "none"] /\ ready' = {}
    /\ DropBackend
    /\ UNCHANGED <<driver, wakes>>

-----------------------------------------------------------------------------
(* Between the polls.                                                      *)

\* Faulty variant: the waker is taken but not called.
DeliverSilently ==
    /\ pc = "io" /\ pc' = "park"
    /\ \E f \in Completions :
          completed_io' = [o \in Op |-> IF o \in DOMAIN f THEN f[o]
                                        ELSE completed_io[o]]
    /\ io_wakers' = io_wakers \ CqOps
    /\ PollComplete
    /\ UNCHANGED <<driver, fut, ready, wakes>>

\* poll_io_completions, and the same code in block_on: store every result and
\* wake who registered for it.
Deliver ==
    /\ pc = "io" /\ pc' = "park"
    /\ \E f \in Completions :
          /\ completed_io' = [o \in Op |-> IF o \in DOMAIN f THEN f[o]
                                           ELSE completed_io[o]]
          /\ ready' = ready \cup (io_wakers \cap DOMAIN f)
          /\ io_wakers' = io_wakers \ DOMAIN f
    /\ PollComplete
    /\ UNCHANGED <<driver, fut, wakes>>

\* recv_timeout(10 ms) or park_timeout(1 ms) returns.
Unpark ==
    /\ pc = "park" /\ pc' = "poll"
    /\ ready' = IF driver = "block_on" THEN Waiting ELSE ready
    /\ UNCHANGED <<uringVars, driver, fut, io_wakers, completed_io, wakes>>

\* The task of o is woken by something else it waits for.
OtherWake(o) ==
    /\ o \in Waiting /\ wakes < MaxWakes
    /\ ready' = ready \cup {o} /\ wakes' = wakes + 1
    /\ UNCHANGED <<uringVars, pc, driver, fut, io_wakers, completed_io>>

Kernel(o) ==
    /\ \E ok \in BOOLEAN : KernelComplete(o, ok)
    /\ UNCHANGED <<ioVars, pc>>

Loop == EndPolls \/ Deliver \/ Unpark \/ \E o \in Op : PollFuture(o)

Next == \/ Loop \/ Leave
        \/ \E o \in Op : \/ \E accepts \in BOOLEAN : Start(o, accepts)
                         \/ DropFuture(o) \/ OtherWake(o) \/ Kernel(o)

Spec == Init /\ [][Next]_vars

\* The thread keeps running its loop.
FairSpec == Spec /\ WF_vars(Loop)

-----------------------------------------------------------------------------
(* Properties.                                                             *)

Ended == pc \in {"returned", "panicked"}

\* The types of the state.
TypeOK ==
    /\ UringTypeOK
    /\ driver \in Driver /\ pc \in {"poll", "io", "park", "returned", "panicked"}
    /\ fut \in [Op -> {"none", "waiting", "Ok", "Err", "dropped"}]
    /\ completed_io \in [Op -> {"none", "Ok", "Err"}]
    /\ io_wakers \subseteq Waiting /\ ready \subseteq Waiting
    /\ wakes \in 0 .. MaxWakes

\* pending_ops owns the buffers of an operation exactly as long as the kernel
\* may use them, also when the IoFuture is dropped in between.
BuffersAlive == pending_ops = sq \cup inflight \cup CqOps

\* A future that waits has a waker registered or is about to be polled, and is
\* about to be polled once its result is there: IoFuture::poll and
\* poll_io_completions never leave one out between them.
IoNoLostWake ==
    \A o \in Waiting : /\ o \in io_wakers \cup ready
                       /\ completed_io[o] # "none" => o \in ready

\* How far an operation is, as IoPromise sees it.
Progress(o) ==
    IF fut[o] = "none" THEN "idle"
    ELSE IF o \in sq \cup inflight THEN "submitted"
    ELSE IF [op |-> o, ok |-> TRUE] \in cq THEN "succeeded"
    ELSE IF [op |-> o, ok |-> FALSE] \in cq THEN "failed"
    ELSE IF fut[o] \in {"Ok", "Err"} THEN fut[o]
    ELSE IF fut[o] = "dropped" THEN "gone"
    ELSE IF completed_io[o] # "none" THEN completed_io[o]
    ELSE "refused"

Promise == INSTANCE IoPromise WITH kernel <- [o \in Op |-> Progress(o)], future <- fut

\* The ring, the table of wakers, the table of results and the loops implement
\* IoPromise: a future returns what the kernel reported for its own operation, at
\* most once and only after it finished, and no result reaches another operation.
KeepsPromise == Promise!PromiseSpec

\* Once the kernel has finished an operation, the future that waits for it
\* returns (unless it is given up), on either loop.
IoDelivered ==
    \A o \in Op : (o \in CqOps /\ fut[o] = "waiting") ~> (fut[o] # "waiting")
================================================================================
