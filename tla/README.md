# A TLA+ verification of rust-miniss

rust-miniss is a Seastar-like asynchronous runtime: threads that poll futures,
wakers that put tasks back on ready queues, channels between threads, timers,
an io_uring backend, a buffer pool, and files, sockets and HTTP on top. This
directory models it in TLA+, model-checks it with TLC on small instances, and
proves a large part of it with TLAPS for every instance. `PROJECT.json` lists
every run, the source lines each definition models, the mutants that show each
property can fail, the findings, the hazards and the theorems.

    tlc -workers 2 -config CpuTasks.cfg MC_Cpu   # one run
    tlapm IoProofs.tla                           # the proofs of one module

## The system

| Part (src/src/) | State | Operations | Who interleaves | Module |
|---|---|---|---|---|
| `cpu.rs` Cpu, CpuHandle | task map, ready queue, cancel marks, timers, channel, id counters, `running` | spawn, schedule_timer, tick, run; submit_task, cancel_task, shutdown, ping | owner or CPU thread, senders, holders of wakers | Cpu |
| `executor.rs` Executor, Runtime | task map, ready queue, id counter | spawn, tick, run, block_on | executor thread, wakers, holders of JoinHandles | Executor |
| `task.rs` JoinHandle | one-slot result channel | poll, is_finished, cancel, drop | task and holder | JoinHandle |
| `multicore.rs` | runtime state, round-robin counter, inboxes, run queues, shutdown flags | new, spawn, spawn_on, shutdown, ping_all, join, Drop; the core loop | clients and one thread per core | MultiCore |
| `timer/mod.rs` TimerWheel | slots, hand | schedule, cancel, expire | the clock | TimerWheel |
| `timer/` futures, `spawn_periodic`, `cancellation.rs` | end time, next tick, flag | poll, tick, cancel | the clock, the inner future, the holder of the token | Timers |
| `io/uring.rs` | submission and completion queue, pending_ops | submit, poll_complete | the kernel | Uring |
| `io/future.rs`, CpuIoState | io_wakers, completed_io | poll, drop, delivery by either loop | the kernel, other wake-ups | Io, IoPromise |
| `buffer.rs` | per-thread pool | get, recycle, and the calls that change a buffer | nobody (one thread) | BufferPool |
| `fs.rs`, UDP of `net.rs` | buffers under way, the file | read_at, write_at, sync_all, recv_from | operations in flight, a crash | AsyncIo |
| TCP of `net.rs`, `http.rs`, `examples/http_echo.rs` | the connection served, what is left to write | accept, read, write, write_all, parse, to_bytes | clients, the network | HttpServer, HttpText |
| `signal.rs` | flag, senders | the handler thread, the broadcast | signals, several CPUs whose tasks send to each other | Signals |

What makes each part correct:

- Cpu: a wake-up is never lost, also one that arrives during the poll; a handled
  cancel is final; an accepted task is always somewhere the loop will find it, until the
  Cpu stops; ids identify tasks; ready tasks are served, a Shutdown is obeyed and no sender
  blocks for ever.
- Executor and JoinHandle: a panic in one task leaves the others alone; an awaited
  handle agrees with what the task did, and the wait ends.
- MultiCore: one Shutdown per core, however many threads ask; a task accepted before the
  shutdown is not left behind; cores stop and `join` returns, with endless tasks and pings
  around.
- TimerWheel: every timer is pending, fired or cancelled exactly once; it fires neither
  early nor late, and it does fire.
- Timer futures: never Ready early; an interval neither skips nor adds a tick; a sleep
  and a cancelled future end.
- io_uring, IoFuture, CpuIoState: buffers outlive the kernel's use of them; a result
  reaches the future of its own operation, wakes it, and reaches it once.
- Buffer pool: a buffer from `get` is zeroed and has the length asked for, whatever was
  done to the buffers before it.
- Files: a read that follows a write sees it; what was written before a `sync_all` that
  succeeded survives a crash.
- HTTP over TCP: a request is understood as meant, every byte of an answer is sent once
  and in order, and no client keeps the server for ever.
- Signal handler: every CPU is stopped, and a second signal ends the process.

What is hard about this code, and hardly reached by its tests: wake-ups that
arrive while a task is out of the map being polled; cancellation against stale
queue entries; ids drawn from two counters; panics in the middle of a tick;
sends on full or closed channels, from other threads, from tasks and from the
signal thread; a spawn that races with shutdown; completions in any order and
for futures that are gone; a clock that moves between two reads; timers beyond
the wheel's horizon; short and interrupted writes; writes beside a sync.
`PROJECT.json` lists these hazards with their lines and the properties that
cover them.

## Modules

Two modules are abstract specifications.

- **`TaskLifecycle`**: what each executor promises a task. A task is accepted at most
  once, polled by one worker at a time, only while live, and never after it finished or
  was dropped. `Cpu`, `Executor` and `MultiCore` each implement it under a refinement
  mapping (their `Phase` and the task in `cur`): the property `Lifecycle`.
- **`IoPromise`**: what `submit`, `poll_complete` and `IoFuture` promise whoever awaits an
  operation. The kernel finishes it at most once, the future returns that outcome and not
  before, and an operation whose future is dropped runs on unobserved. `Io` implements it
  (`KeepsPromise`); `AsyncIo` is built on it, and so does not repeat ring and loops.

The others follow the code.

**`Cpu`** models `Cpu` and `CpuHandle`. The variables carry the names of the
struct's fields. `pc` is the loop the thread is in: `messages`, `timers`,
`ready`, `poll`, `io` are the parts of `tick`; `wait`, `recv`, `drain`, `leave`
those of `run`. One iteration of a loop is one step, so sends and wake-ups fall
between any two of them. A poll is a step of its own: the task is out of the map
while other threads act. A send is two steps, the call (which draws the task id) and
the moment the blocking `send` succeeds or fails. A future is the choice of its
poll's outcome: Ready, Pending (having woken itself, left its waker with another
thread, or holding an IoFuture) or a panic.

**`JoinHandle`** models the result channel and the handle; **`Executor`** extends
it with `spawn`, `tick`, `run` and the owner. The wrapped future's `send` and the
drop of its `Sender` are separate steps. `CloneWaker` lets a wake-up arrive inside
a poll. `Parked` separates handles awaited with `Executor::block_on` (park without
a timeout) from those awaited with `Runtime::block_on` (1 ms).

**`MultiCore`** models the thread-per-core runtime. A client's call is split at
each access to shared state: load, `fetch_add`, push, `compare_exchange`, one push
per core. A core's step is one message, one poll or the end of a batch. Calls that
are refused change nothing and are left out.

**`Clock`** is the clock that the two timer modules read. **`TimerWheel`** models the
wheel, in milliseconds. **`Timers`** models the timer futures and `CancellableFuture`,
with a step of the clock possible between any two reads of it, under a loop that polls
when woken (`Executor`, `Cpu`) and one that polls again and again (`block_on`, a core of
MultiCore).

**`Uring`** has the backend as operators, **`Io`** composes them with the
IoFutures, CpuIoState and the two loops that drive them (`driver`). The kernel
completes operations in any order and at any time, or never.

**`BufferPool`** models a Buffer as length, capacity and number of leading bytes
that may not be zero; a holder of a buffer may do anything the API allows with it.

**`AsyncIo`** composes IoPromise and BufferPool into the calls of `AsyncFile` and
`recv_from`. A buffer moves from the pool to the caller, to the kernel and back,
along the path each call gives it. The file is a row of cells; `file` is what
processes see and `disk` what a crash leaves at worst, so a crash needs no step of its
own: `SyncDurable` reads `disk` at every moment. How the kernel stores a file is
external, as is the rest of the kernel.

**`HttpText`** has `Request::parse`, the echo handlers and `Response::to_bytes` on
texts of tokens; **`HttpServer`** is the task that accepts and serves, as the example
does it (one read, one write) or as `HttpConnection` does it (`write_all`). TCP delivers
a request in pieces; a write takes any part of what it is given, none, or is interrupted.

**`Signals`** is the handler thread with several CPUs, reduced to their channels, their
loops and the sends of their tasks; what else a message does is in `Cpu`.

Definitions named `Faulty variant` are the mutants: a definition of the code with
one plausible mistake, used only to show that a property notices it.

## Runs that pass

| Run | Shows |
|---|---|
| CpuTasks | `TypeOK`. `CancelSticks`: a handled CancelTask is final. `NoLostWake`: a woken task has a queue entry. `AcceptedNotLost`: the loop mislays no task. `Lifecycle`. `TaskServed`, `ShutdownStops`, `SendReturns`: ready tasks are polled, a Shutdown stops the loop, a blocked sender gets an answer. |
| Exec | `AwaitFaithful`: an awaited handle never contradicts the task. `Lifecycle`. `TaskServed` although tasks panic. `AwaitReturns` for `Runtime::block_on`. |
| CoreTasks | `TypeOK`. `OneShutdown`: each core is sent one Shutdown. `NotStranded`: a core exits with a task unpolled only if its spawn raced with the shutdown. `Lifecycle`. `TaskPolled`, `CoresStop`, `JoinReturns` with pings and an endless task. |
| Wheel | `OnePlace`: no timer is lost or fired twice. `NotEarly` for deadlines on the first round; `NotLate` except for timers scheduled behind the hand; `TimersFire` for all. |
| TimerFutures | `NeverEarly`, `TicksExact` under both kinds of loop; `SleepReturns`, `CancelReturns` on loops that poll again. |
| IoLoops | `TypeOK`, `BuffersAlive`, `IoNoLostWake`, `KeepsPromise`, `IoDelivered` on both loops. |
| FilesDurable | `GetZeroed` with buffers that pass through the kernel, fail, come back or are dropped; `ReadSeesWrites`; `SyncDurable`. |
| HttpServe | `RequestUnderstood`: parse inverts what a client meant. `AnswerExact`: a prefix of the answer is sent, all of it when Ok is returned. `ServedToTheEnd`. |
| SignalShutdown | `SignalStopsCpus`, `SecondSignalExits`, unless CPUs wait for each other in a cycle. |

## Runs that find a disagreement

Each checks one sentence of the repository, and TLC refutes it.

| Run | The sentence | What the code does |
|---|---|---|
| CpuIds | a TaskId "uniquely identifies a task" (waker.rs) | on CPU 0 both id counters meet |
| WheelAtTime | a timer is scheduled "to expire at the specified time" (timer/mod.rs) | beyond the wheel's horizon it fires early |
| ExecAwait | the waker is stored "so the sender can wake us" (task.rs) | no sender sees it, and a parked `block_on` stays parked |

Other peculiarities are in the models as what the code does, without a run of their own:

- `Cpu::tick` has no `catch_unwind`, so a panic ends the CPU (`PollPanic`), against
  "Panics in one task don't affect others" in ARCHITECTURE.md. `Cpu::run` and `shutdown()`
  of the multi-core runtime leave pending tasks behind (`Exit`, `SendShutdown`).
- A handle reports Cancelled for a task that panicked, or whose result `is_finished` has
  consumed: the two cases `AwaitFaithful` excepts.
- A timer scheduled behind the hand waits until the clock has gone round: the case
  `NotLate` excepts. A sleep on `Executor` or `Cpu`, which poll only woken tasks, never ends,
  because its private wheel is never expired: the case `SleepReturns` excepts. Likewise
  `cancel()` of a token wakes nobody: the case `CancelReturns` excepts.
- `submit` hands out a token for an operation it could not queue ("refused" in IoPromise),
  and a completion whose future is gone stays in `completed_io` (`Deliver` of Io).
- Tasks of CPUs that send to each other over full channels deadlock, and then a signal
  stops nothing: `Deadlocked` in Signals. A signal between `start()` and `Signals::new`
  kills the process.
- A request that arrives in two segments is parsed after the first: `RequestUnderstood`
  speaks of requests that one read finds whole. `parse` turns the CRLFs of a body into LFs
  and drops a line end at its end. The example's single `write` may be short.

## Bounds

All bounds are constants and act in guards.

- Cpu: two tasks, one spawned locally and one submitted, so that a map entry, a channel
  entry and a poll coexist; a channel of one slot, so that a second send blocks; two calls
  through a handle, so that any two of submit, cancel, shutdown and ping meet in either
  order; two polls, so that a task is woken, requeued and polled again.
- Executor: two tasks, two polls and one waker in other hands each, so that a task can be
  woken during its poll; one handle is awaited in each of the two ways.
- MultiCore: two cores, batches of one message and one poll in place of 32 and 16, one
  client, an inbox that pings fill to one message, one endless task. The theorems cover
  any number of clients.
- TimerWheel: three slots of 2 ms, two timers and a clock that goes round twice.
- Timers: length and period of 2, so that the clock can move inside, to and beyond a
  deadline between two reads; time for several ticks.
- Io: three operations on a submission queue of one entry, so that it is full as soon as
  one submit fails. One operation has an address, which may not parse.
- AsyncIo: three operations (two on a file, one on a file or a socket), standard
  buffers of two bytes and lengths 1 and 2, a pool of one buffer, so that it is empty, full
  or too small; two cells, so that transfers are short. Operations without an address are
  symmetric; no liveness is checked there.
- HttpServer: two clients, two segments, one interruption, two requests: one with a
  repeated header, a colon in a value, bare LFs and a body that begins with a blank line,
  one of an unknown method with CRLFs in its body. A read takes 15 tokens.
- Signals: two CPUs, channels of one slot, two sends per CPU, two signals.

2^32 submits and 2^64 ids are out of reach of a run, and no counter but the CPU-0 ids
depends on its width. Deadlock is checked for Cpu, whose end is the explicit step `Done`;
elsewhere a finished program may stop.

## Fairness

Only threads that the operating system schedules are fair: the thread of a loop, a
client inside a call, a thread blocked in `send` or awaiting a handle, the signal thread,
and the clock. No caller has to make a call, no task has to finish, no waker has to be
called, no client has to send. The kernel is fair in HttpServer only: it completes an
accept when somebody has connected, a read when there is something to read or the peer has
closed, and a write. `IoDelivered` begins when it has posted a completion. Cpu's two drain
loops (ready queue, channel) have no batch limit: a task that wakes itself for ever or a
client that never stops sending starves the rest, so CpuTasks bounds polls and calls.
MultiCore's batches make that assumption unnecessary: its run has an endless task and any
number of pings.

## Proofs

All theorems hold for every value of the constants under the assumptions the modules
name. Those about a specification rest on an inductive invariant; the proof that `Next`
keeps it has a step per action.

| Module | Theorems | The invariant, and why it is needed |
|---|---|---|
| `CpuProofs` | `CpuTypeOK`, `CpuNoLostWake` | `Safe` adds `Shape` (what a message promises about the task it names; only accepted tasks have wakers, I/O or a poll) and `MapKeys` (two entries of the map have different ids). Without `MapKeys` a pop could remove one of two tasks with the same id and leave the other one's wake-up consumed. |
| | `CpuCancelSticks`, `CpuAcceptedNotLost`, `CpuLifecycle` | under `MaxSubmits < LocalBase`, that global ids stay below the local ones: true of every CPU but CPU 0 for the first 2^32 submits, and CpuIds shows what happens without it. `Ordered` adds that ids are unique (`Ids`) and that the channel keeps a task's SubmitTask ahead of any CancelTask for it (`Fifo`): this order makes a handled cancel final. `Single` adds that a task is in the channel once, or in the map, or in a poll, or finished; without it the map could take in a task that is being polled. |
| `MultiCoreProofs` | `MultiCoreOneShutdown`, `MultiCoreNotStranded` | `Order`: nobody is told before the `compare_exchange`, one client tells the cores, and those it has still to reach know nothing. `Told`: whatever is behind a Shutdown in an inbox is a late task. |
| `MultiCoreTaskProofs` | `MultiCorePlaced`, `MultiCoreTypeOK`, `MultiCoreLifecycle` | `Placed`, on top of the former: a task that was handed out is with one client, in one inbox, in one core's queue, in one poll or finished, or gone with its core, and is nowhere twice; so a core's `local_task_count` is the number of tasks it has, and two cores never poll the same one. `Counted`: the round-robin counter is at most the number of tasks that were given a core. `MultiCoreTypeOK` assumes that `Task` is finite, since it compares the counter with its size; the others do not. |
| `RuntimeProofs` | `ExecutorAwaitFaithful`, `ExecutorLifecycle` | `Places`: a spawned task is in the map, in its poll, finished or panicked. `Channels`: the Sender lives with the future, and a result that was sent is there unless somebody took it. |
| | `WheelOnePlace`, `WheelNotEarly`, `WheelNotLate` | `InItsSlot`: a pending timer is in the slot of its deadline and nowhere else. `HandBehindClock`: on the first round the hand is not ahead of the clock, and only timers scheduled behind the hand are behind it. |
| | `TimersNeverEarly`, `TimersTicksExact` | For each kind of future, what its step in the poll says about its deadline; for an interval, that `next_tick` is a whole number of periods after the start and the time it last read lies in the period before. |
| `IoProofs` | `IoTypeOK`, `IoBuffersAlive`, `IoWakes`, `IoKeepsPromise` | `OneStage`: an operation is in at most one of the submission queue, the kernel and the completion queue, with one outcome. `Tables`: what the backend still owns was started and has no result yet, and a result is there for a future that waits or was dropped. |
| `AsyncIoProofs` | `BufferPoolGetZeroed`, `BufferPoolStandard` | `PoolSafe`: the pool holds at most POOL_SIZE buffers, each empty, of the standard capacity and cleared; `get` relies on all three. Under `PoolSpec`, any use of buffers by the thread that owns the pool. |
| | `AsyncIoReadSeesWrites`, `AsyncIoSyncDurable` | `FilesSafe`: a cell of the file holds the number of the last write to it, which never falls, and the disk is behind the file (`Numbered`); what returned before a call began was done before the kernel does that call (`InOrder`). `Seen` and `Flushed` say what the two properties say, but from the moment the kernel reads or syncs, since by the time the future returns others have written. |
| | `AsyncIoGetZeroed` | `AsyncPoolSafe`: `PoolSafe` under the calls AsyncIo really makes. A buffer is dirty no further than its length, so the length that `poll_complete` gives it is within its capacity. |
| | `AsyncIoPromise` | None is needed: every call is a step of IoPromise or leaves its state alone. |
| `HttpTextProofs` | lemmas about texts | None: what `Lines`, `Join` and the folds over lines return for every text, up to `BodyKept`: the lines of a plain body, joined again, are the body. |
| `HttpProofs` | `ParseFaithful` | None: `parse` of the text of a request gives back what the request means. |
| | `HttpRequestUnderstood`, `HttpAnswerExact` | `Delivered`: no more of a request has arrived than it has, so what a read returns is the beginning of a request. `Answering`: while a connection writes, its answer is what was written followed by what is left, and something is left. Both are sequences only because `parse` leaves finitely many headers, so this too rests on the lemmas about texts. |

`CpuLifecycle`, `ExecutorLifecycle`, `MultiCoreLifecycle`, `IoKeepsPromise` and
`AsyncIoPromise` are refinement proofs: the initial states map to initial states, and
every step to a step or a stutter of the abstract specification. For Cpu and MultiCore
this is done in two stages. Each action is first shown to do one of a few things to the
tasks (`Moves`, `CoreMoves`: one comes, enters, begins or ends a poll, finishes, goes), and
each of these to be a step of TaskLifecycle. `IoKeepsPromise` and `AsyncIoPromise` fit
together: what files and sockets assume of the backend is what Io provides.

Some proofs are by induction over data. `poll_complete` recycles the buffers of all
abandoned operations in one step, a fold over a set of any size; `parse` folds over the
lines of a text of any length. The library's induction theorems take an operator as a
parameter and cannot be instantiated by the provers. In their place stand facts about a
set of numbers: the set of sizes for which a claim fails has no smallest element
(AsyncIoProofs), and a set that has 0 and with each number the next has all of them
(`SetOfNaturals`). `FlattenSeq` and `FoldLeft` of the library are defined by recursive
functions, whose existence is proved step by step (`FlatExists`, `HeadFoldExists`).

`ParseFaithful` goes through the text from its front. `LinesFirst` says that a line, its
end and a text have that line and the lines of the text. So the lines of a formatted request
are the request line, one line per header, a blank one and the lines of the body
(`LinesOfFormat`); the first blank one is where `parse` ends the head (`ParseIs`); the
headers, inserted one after the other, leave under each name the last value
(`HeadersMeant`); and the body comes back if it has no CRLF and no line end at its end
(`BodyKept`).

The assumptions are those of the modules: sizes and bounds are natural numbers, `None` is
none of the ordinary values. HttpText assumes that ":" is a word and that line ends are not
(`WordAssumption`), and HttpServer that clients send what `Request` describes: a line of
three words, headers of a name other than ":" and a value on one line, and any body. Other
requests are not covered by the theorems about HTTP.

The parts of the invariants of Cpu and MultiCore are operators of the state they read
(`ChannelOK(ch, ids, acc)`, `Told(q, sd, pc, L)`), so that a step that leaves that state
alone keeps them without a look inside.

Only model-checked are the liveness properties, since fairness and ENABLED are outside the
prover; so all of Signals, whose properties are of this kind. Every invariant and every
refinement that a passing run checks is also proved.

## Not modelled

- The epoll and kqueue backends: they belong to other platforms and do not compile as
  they stand (`len_copy` and `udp_recv_buffers` are not declared), so they have no
  behaviour. The dummy backend never completes anything: the case of a silent kernel.
- In MultiCore: `cancel_task`, which changes nothing, and the `CancelTask` handler nobody
  sends to; `block_on` and `block_on_cpu`, a busy poll on the caller's thread; the
  statistics; the global instance.
- The message headers of UDP operations in `uring.rs`, whose boxes are freed when `submit`
  returns. Such an operation has any result. `send_to` is a direct system call.
- `StaticHandler`, a map from paths to constant answers; `run_server` of the example, which
  nothing calls; signal callbacks, which are stored and never called.
- The bytes of messages and addresses; `open`, `create` and `bind`, one system call each
  before any operation; CPU affinity; logging; configuration and error types; the
  reference counts behind a raw waker.
- Memory ordering weaker than the atomics' intended order: each atomic access is one step.
