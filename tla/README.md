# RustCLR: a verification development

TLA+ models of the parts of `Vibe_Runtime` whose correctness depends on the order in which things happen: the
collector's safe points and heap, monitors, tasks and their pool, exception dispatch, the frames of compiled
code, the lock-free queue, channels and thread pool, the mutex for systems without one, the flash file store,
over-the-air updates and the embedded database. TLC checks the models on small instances; TLAPS proves theorems
about all of them, for every value of their constants. `PROJECT.json` is the index: components, runs, the
source lines of every definition, the mutation that breaks each property, hazards, findings and theorems.

All paths below are relative to `src/RustNetRuntime/crates/` unless they start with `docs/`, which is
`src/RustNetRuntime/docs/`.

1. [The system](#1-the-system)
2. [Modules](#2-modules)
3. [Runs](#3-runs)
4. [Fairness](#4-fairness)
5. [Proofs](#5-proofs)
6. [What the code does and its documents deny](#6-what-the-code-does-and-its-documents-deny)
7. [What is not modelled](#7-what-is-not-modelled)
8. [Plan](#8-plan)
9. [Running it](#9-running-it)

## 1. The system

RustCLR runs .NET assemblies. A loader reads metadata into tables; an interpreter, helped by a small
compiler for hot methods, executes them; a mark-and-sweep collector owns the heap; the base class library
is Rust code called by name. Managed threads are OS threads with an interpreter each: the heap, the
statics, the monitors, the registry of threads and the task pool are what they share. Around that core
there are crates for devices: a file store on raw flash, updates, secure boot, a database, a debugger, a
deployment protocol, and drivers.

| part | state it keeps | operations | what makes it hard | what makes it correct | model |
|---|---|---|---|---|---|
| Safe points, `rustclr-gc/src/safepoint.rs` | counts of registered, parked and blocked threads; roots of blocked threads; whether the world is stopping, the epoch, roots handed in; two condition variables | register, unregister, poll, blocked_with, leaving a blocked call, stop_the_world | threads arrive, leave and ask for a collection of their own while one is under way; rounds follow each other before everybody has woken | the closure runs alone and sees every root; every round ends; every parked thread runs again | `Safepoint` |
| Heap, `rustclr-gc/src/{space,handle,collector,lib,shared}.rs` | slots with generation, mark and pin count; free list; live count | alloc, try_alloc, get, pin, unpin, mark, sweep, should_collect | handles outlive objects; slots are reused; graphs have cycles | stale handles are refused; what is reachable survives, and nothing else does | `ObjectSpace` |
| Monitors, `rustclr-core/src/monitor.rs` | owner and depth per object; pulse count per object; one condition variable for all | enter, exit, wait with or without a deadline, pulse | pulses between release and sleep; deadlines against pulses against new owners; re-entrancy | mutual exclusion at the right depth, no lost wake-up | `Monitors`, `ReentrantMonitor` |
| Tasks, `rustclr-bcl/src/tasks.rs` | status, result and waiting list of each task | complete, fault, await, Wait and Result, Run, Delay, completion sources | settling races awaiting; waiting threads run other work on their stack; a wait may be hopeless | every await is resumed once; a task settles once; waits end, and are refused only when hopeless | `Tasks` |
| Task pool, `rustclr-core/src/pool.rs` | queue, timers, count of outstanding jobs, workers | submit, schedule, run_one, the workers' and the timer's loop, growth, shutdown | the count decides whether a wait is refused | the count covers every job that can still complete something | `Tasks` |
| Exceptions, `rustclr-core/src/interp/eh.rs` | a frame's exception in flight, its pending finally blocks; the dispatches under way | throw, rethrow, leave, endfinally, endfilter, the search, filters in frames of their own | exceptions thrown while one is handled, by filters and finally blocks; collections meanwhile | handlers run in the order of the source, once; the objects in flight are roots; the search ends | `Exceptions`, `StructuredExceptions` |
| Compiled tier, `rustclr-jit/src/{tier,alloc,x64}.rs` | call counts, compiled code, call tables; the sink of a call with its allocations and the chain of frames | enter, compile, resolve, call, allocate, poll | roots are described by maps of locals, and only by some methods | what a frame names survives; a call lands in the right code; a loop stops when asked | `CompiledFrames`, `Tiering` |
| Queue, channels and thread pool, `rustclr-sched` | a linked list with two ends; counts of senders and receivers; jobs, outstanding count, results | push, pop, send, recv, recv_timeout, clones and drops, queue, spawn, join, wait_for_idle, drop | compare-and-swap steps; wake-ups between looking and sleeping; counters read apart from the queue | FIFO; nothing lost; nobody forgotten; idle means done | `LockFreeQueue`, `FifoQueue`, `Channel`, `ThreadPool` |
| Thread portability, `rustclr-thread` | a word per mutex and condition variable, the packet of a thread | lock, unlock, wait, notify, join over host hooks | a mutex without an OS: contended swaps, sequence numbers, early returns | exclusion, wake-ups, results joined | `HostSync` |
| Flash store, `rustclr-flashfs/src/lib.rs` | the bytes of the window, nothing in RAM | read, write, append, delete, create_directory, compact | resets between two flash operations; bits only clear; sectors erase whole | completed calls persist, other files are untouched, no cell is programmed twice | `FlashFs`, `FileStore` |
| Updates, `rustclr-ota/src/lib.rs`, with `verify` of `rustclr-secureboot` | two slots; active, pending and attempts in storage; `receiving` in RAM | begin, write_chunk, finish, on_boot, confirm_boot, rollback | power loss anywhere; images that are damaged, or sound and useless | the running slot is never written; firmware that works is always kept | `Ota`, `TrialBoot` |
| Database, `rustclr-db/src/lib.rs` | tables and indexes in memory; a snapshot and a log in the backend | open with replay, execute, checkpoint | resets between the statement, its record and the snapshot; calls of the backend that fail after the statement took effect; indexes hold positions | statements are atomic, and durable once written; an index finds what a scan finds | `Database`, `DurableTable` |
| Interpreter instructions, `rustclr-core/src/interp*` | frames, evaluation stacks, temporaries | some two hundred instructions | roots held in temporaries | roots are complete at every poll | what it does at polls, waits, calls and throws, in the modules above |
| Loader and types, `rustclr-core/src/{loader,types,statics}.rs` | tables of types, methods, statics | load, resolve, instantiate generics | each thread has its own copy | copies do not diverge | no |
| Threads, `rustclr-bcl/src/threading.rs` | handles and results | Start, Join, Sleep | joins and collections | a join sees its thread's end | as callers of `Safepoint` |
| Cancellation, `rustclr-bcl/src/cancellation.rs` | a flag and a list of callbacks | cancel, register, timers | flag and list are changed in separate steps | a registered callback runs once | planned |
| Debugger and profiler, `rustclr-core/src/{debug,profile}.rs`, `rustnet-cli/src/dap.rs` | breakpoints, stopped or running, step mode | set, continue, step, pause | requests while running | replies match requests | candidate |
| Device runtime and deployment, `rustclr-device`, `rustclr-rndp` | one session and its file transfer | framed requests | lost or damaged frames | a file arrives whole or not at all | candidate |
| Everything else | see section 7 | | | | no |

How the parts meet:

* An allocation that crosses the trigger makes its thread collect (`Interpreter::maybe_collect`), which
  gathers its roots, calls `stop_the_world` and runs mark-and-sweep in the closure. The other threads poll
  when they return from a method and when they create an object, park, and hand in their roots.
* Anything that may block (a contended `lock`, `Monitor.Wait`, `Join`, native calls, an idle worker) does so
  inside a `Blocked` guard, which hands the roots in beforehand.
* A hot method runs compiled, in frames of its own under an interpreter frame. It polls at the back-edges of its
  loops, where the chain of compiled frames is walked for roots.
* Exception dispatch runs filters and finally blocks as ordinary frames, which allocate and so may collect.
* `Task.Run` queues a closure; a worker, or any thread that waits for a task, runs it. Completing a task
  runs, on the completing thread, the state machines that awaited it.
* The pool and the channels of `rustclr-sched` stand on its queue; without `std` they, the safe points and the
  monitors stand on the mutex and condition variable of `rustclr-thread`.
* The firmware calls `begin`, `write_chunk` and `finish` with what an update tool sends it; the bootloader
  calls `on_boot` and jumps to the slot it answers.

## 2. Modules

Each component has a module with its state, one action per critical section, call or step, its specification and
its properties; where there is something to promise, an abstract module it refines; an `MC` module where TLC
needs definitions; and a `Proofs` module where something is proved (`StorageProofs` is about updates and the database, `ExecutionProofs` about monitors,
compiled frames and tiers, `SchedulingProofs` about queue, channel, pool and host mutex). Five `MC` modules put components side by side in one
run: a variable `part` (or `racing`, `crowded`) says which of them moves, the rest stands still, and each temporal
property is of the part it names. Operators marked `mutant` are the forms definitions would have with a plausible bug; no
specification uses them.

### `Safepoint`: stop-the-world

One action is one stretch of code under the registry mutex. `registered`, `parked`, `blocked`,
`blockedRoots`, `stopping`, `epoch` and `roots` are the fields of `State`. `lock` says who keeps the mutex
between two actions (the closure runs under it). `onParked` and `onResumed` are the threads asleep on the
two condition variables, so a `notify_all` is an assignment of the empty set and a missing one shows;
sleepers may also wake for no reason. `pc` says where in the protocol a thread stands:

| action | code |
|---|---|
| `Register`, `Unregister` | `Mutators::register`, `Registration::drop` |
| `Poll`, `SleepAgain`, `Resume` | `Mutators::poll`: publish and park, the loop, depart |
| `EnterBlocked`, `EnterIdle`, `Return` | `blocked_with` from `Interpreter::blocking`, `blocked_now` from the pool, `Blocked::drop` |
| `RequestCollection` | `maybe_collect`/`force_collect`: own roots first, without the mutex |
| `QueueBehind`, `StopQueueing`, `AwaitDrain`, `BeginRound`, `AwaitOthers`, `StartCollecting`, `FinishCollecting` | `stop_the_world`, in its order |
| `Allocate`, `DropLocal`, `LoadStatic`, `StoreStatic`, `ClearStatic` | what managed code does to roots, without any lock |

An object stands for itself and what is reachable only through it, so the heap here is a set and a sweep an
intersection. `Races` is what the program does while another thread collects: with all four the
environment is unrestricted, and leaving one out is a premise of the runs and theorems that do.

### `Monitors` and `ReentrantMonitor`

`ReentrantMonitor` is what a managed program is promised: one owner at some depth, a wait that gives the
monitor up and gets it back at the same depth once it is signalled or timed out, a pulse that reaches
everybody waiting at that moment. `Monitors` is the registry: `owner` and `depth` are `State::held`,
`pulses` is `State::pulses`, `asleep` the one condition variable. A call is split where the mutex is
released; `notify_all` happens after that, hence the steps `Notify` and `WaitNotify`. `inside` is not in the
code: it is the depth the program will unwind, against which the registry is checked. The refinement maps
a waiter to the record of what it will take back, and a waiter whose pulse count has moved to a signalled
one. `MCMonitors` lets a pair of its three threads nest the two monitors, or the three crowd around one where every call has to return.

### `ObjectSpace`

The slot table, its handles and `MarkSweep::collect`, the two loops taken apart into iterations. The heap is
behind one mutex that a collection keeps, so the program moves only between collections. `birth` in a handle and
`births` of a slot are history (which object the handle was made for); no guard reads them. `Roots` are
places the collector is told of, `Strays` places it is not (native code, queued closures), so that stale
handles exist. Generations run to `MaxGen` and wrap to 1, as `checked_add(1).unwrap_or(1)` does.

### `FlashFs` and `FileStore`

One cell of flash stands for a record's header and name, or for a unit of its data. `Scan` is `scan`: from each
cell, the records that follow and where the log ends; `Newest`, `Read` and `Contents` are what the callers of `scan` make of it.
`PutBack` is the second half of `compact`: cell by cell, the puts so far and where the next one goes. `Occupied` is the room the live files take. What a call will do is
fixed by what it read into RAM at its start, so a call is a list of flash steps (`todo`): program a cell,
read a record back, erase a sector. A reset can fall between two steps or inside one, and leaves
that cell erased, spoilt, or a header whose name is incomplete; a cell can also fail to take its value. `Init`
has any mixture of erased and spoilt cells. `FileStore` is what the store promises: a call that returned
took effect, one refused for want of room changed nothing, one cut short touched its own file at most.

### `Ota` and `TrialBoot`

A slot is a sequence of chunks, an image its chunks in order; `Verify` answers the image the slot starts
with, or none, and ignores what follows, as `verify` does. `state` is `OtaState`, `receiving` the field of `OtaManager`,
`running` the slot the bootloader jumped to. Images are `Healthy` or `Broken` (they verify, and do not
work). `Strays` names calls out of turn that the library does not refuse. `TrialBoot` is what the library is
for: new firmware replaces the old only after it has run and said it works, within a number of boots.

### `Tasks`

Activities are bodies of managed code: Main's, a job's, an async method's. Threads have stacks of them,
because calling an async method, resuming one and helping all nest. Programs are sequences of run,
delay, call, wait, await, set, fail, tryset, tryfail and throw, chosen from `Scripts` at the start.

| action | code |
|---|---|
| `Count`, `Submit`, `TimerFires`, `WorkerTakes`, `RunOne` | `submit`, `schedule` (the count goes up before the push), `run_timers`, `run_worker_body`, `run_one` on an empty stack, or on top of a wait |
| `Complete`, `Fault`, `Set`, `TrySet`, `TryGoesOn`, `BodyThrows` | `complete`, `fault` and their callers; the Try forms look at the status in a step of their own |
| `Resume`, `Return` | `resume_all`, one continuation at a time, after the lock is released; the end of `run_one` |
| `Start`, `Await`, `AwaitOnCompleted` | `start_state_machine`, `IsCompleted`, `await_on_completed` with its second look under the lock |
| `Wait`, `Settle`, `Help`, `Sample` | `settle`: look at the status, help, sample the count, give up after `GivingUp` samples in a row |

### `Exceptions` and `StructuredExceptions`

`Exceptions` executes methods: lists of instructions (mark, throw, rethrow, leave, endfinally, endfilter, call, ret)
with a table of clauses, innermost first. `frames` is `Interpreter::frames`, each with its position, stack, exception in
flight, and what its finally block does next; `dispatching` is the recursion of `dispatch_exception` through
`run_filter`, made explicit. `SkipClause`, `QueueFinally`, `CatchFound`, `RunFilter` are the arms of the search over one
frame's clauses, `FinallyFirst` and `Unwind` what follows it; `Leave`, `NextFinally`, `LastFinally` are `do_leave` and `do_endfinally`. `Mark` is
any instruction that can be observed, and the place where a collection may fall: it replaces `live` by `Roots`.

`StructuredExceptions` has programs as they are written (try, catch, filter, finally, throw, rethrow, call), the code a compiler
makes of them, and, defined over the source alone, what they do: which marks, in which order, and the exception that leaves. It tells
that in two passes, as the first line of `eh.rs` has it and `docs/limitations.md` with its reference to ECMA-335: a throw asks the filters on its way, those of the callers too, up to the try that takes it, and then the
finally blocks on that way run. If nothing takes it they run as well, which the standard leaves open. The reference is
recursive, and only TLC's modules extend it. A program's `shape` is `regular`, or names a construct `eh.rs` gets wrong.

### `CompiledFrames` and `Tiering`

`CompiledFrames` is one thread in compiled code. A method is known by what decides its safe points: whether it polls, what kind of local it has, whether it allocates. A call takes its argument off the evaluation stack (`Call`), and `StoreArg` replaces it. `frames` is the chain of `Frame` records, `allocated` and `borrowed` the sink's arrays, `charted` whether
the safepoint state is in place. `Poll` is `safepoint` with its three phases: walk the chain, prune the arrays of the
sink that no frame names, publish the rest with the objects, park or collect. `Enter`, `LeaveCompiledCode` and `Trap` are the
entry from the interpreter and its exits; `NewBelow`, `ForgetBelow`, `PollBelow` are the interpreter beneath. `Habits` are what programs do that
the maps do not describe.

`Tiering` is the decision: `Interpret` counts, `Decline`, `Discard` and `Resolve` are the outcomes of `try_run`, with the recursive
passes over what a method reaches: `ReachBy` is one call of `reach`, `Descend` its loop over the callees, and `Reaching` the recursion, which is
as deep as there are methods not yet on the path. A table has an address and slots, and a slot holds the callee's table address as it was when it was filled.

### `LockFreeQueue` and `FifoQueue`

The Michael–Scott queue, one atomic load or compare-exchange per action. Nodes are numbered in the order in which they are linked, which is no loss: nobody but
its pusher reaches a node before that, and none is freed while a call is under way. `FifoQueue` is a sequence with `Push` and `Pop` in one step, and calls that
return later; `sawEmpty` is a history variable that says whose pop has seen the queue empty, so that a pop that answers None is
mapped to the moment it was right. `LenMod` is 2^w of `len`, which is counted after the fact and so may pass through "minus one".

### `Channel` and `ThreadPool`

`Channel` has the queue counted, the counts of senders and receivers, and the place of each thread: a send looks, pushes, notifies; a receive pops, looks for
senders, pops once more, parks with a limit of 50 ms. `ThreadPool` has the owner's calls (`queue`, `spawn`, `join`, `join_timeout`, `wait_for_idle`, the drop) and the
workers' loop with its epilogue: value, `done`, the outstanding count, the notification. Jobs submit jobs; a job may panic, which
kills the worker if it came through `queue`. A region under a lock is one step.

### `HostSync`

`Mutex`, `Condvar` and `JoinHandle` over `hooks::wait` and `hooks::wake`. Takers wait for a token under the mutex, givers add one and notify,
Main joins all. The word's swap to CONTENDED, the futex's comparison with what was read, early returns, the free and the wake-up after it are steps of their own.

### `Database` and `DurableTable`

One table with one column and one index. `Run` is `execute`'s effect on memory, statement by statement, including the error arms; `Open`, `Replay`, `Execute`, `AppendWal`, `Save`,
`Truncate` are cut at the calls of the backend, and `Crash` may fall between any two. `AppendFails`, `SaveFails` and `TruncateFails` are the same calls returning an error and leaving their file as it was: `execute` hands
the error on, of a statement that is in memory and stays there, and `open` gives no database. `unsaved` is a history variable: the latest change has met such an error. A call that fails after it took effect leaves what a reset at that point would leave. `snapshot` is empty or has one element, and `Rerun` is what replaying
a log from it gives, record by record. Without a log every statement rewrites the snapshot. `DurableTable` is what a caller relies on: a statement that succeeded is there after any reset, with everything that was to be read when it was written; one cut short by a reset took effect
whole or not at all; one refused because it could not be written is read all the same, and a reset loses it unless a later statement was written in between. So a refusal is no rollback, which nothing in the code or its comments says it is. `Faults` admits what the code does not survive (section 6).

## 3. Runs

| run | instance | states | checks |
|---|---|---|---|
| `safepoint` | two environments: 3 threads and an object with no `Races`; 3 threads without objects and all `Races`; epoch modulo 2 | 82 thousand | `CountersExact`, `ParkedForThisRound`, `WorldStopped`, `NoLiveObjectSwept`, `EveryoneRunsAgain` |
| `execution` | monitors: a pair on 2 objects two deep, a crowd of 3 on one, 1 pulse an object, 2 calls a thread; frames: 4 kinds of method, chains of 3, one object and one array; tier: every program of 3 methods | 248 thousand | `OwnershipMatches`, `PulsesNotMissed`, `ImplementsMonitors`, `NoLostWakeup`, `CrowdCallsReturn`, `InUseIsKept`, `StopIsAnswered`, `CallsLand` |
| `memory` | heap: 2 slots with 3 objects each in turn, 2 generations, 1 pin, a root and a stray; files: 2 names, up to 2 cells, 5 cells in sectors of 2, faults while a record is put | 813 thousand | `SlotsAccounted`, `AliasOnlyAfterWrap`, `ReachableSurvive`, `GarbageReclaimed`, `NeverOverprograms`, `ImplementsStore`, `FullOnlyWhenFull` |
| `storage` | updates: 2 healthy images and a broken one, 2 chunks each, up to 3 in a slot, 3 attempts; database: 2 values, 2 rows, a fold every 2 statements, saves that fail, logs of up to 3 | 450 thousand | `RunningSlotUntouched`, `ImplementsTrial`, `BrokenImageGoesAway`, `IndexServes`, `ReadsAreDurable`, `ImplementsTable` |
| `managed` | tasks: six programs, Main and 2 workers, 3 jobs, 2 async methods, 1 source; exceptions: programs of two nested tries, or three over a call | 70 thousand | `EveryAwaitIsHeld`, `GivenUpInVain`, `SettledOnce`, `WaitsEnd`, `BehavesAsWritten`, `NoExceptionSwept`, `DispatchEnds` |
| `scheduling` | host: 1 taker, 2 givers, Main; queue: 2 threads that push and pop, 3 links; channel: 2 senders, 2 receivers, 3 values; pool: 2 workers, 3 jobs of which one submits another | 136 thousand | `MutexExcludes`, `JoinsEnd`, `ImplementsFifo`, `NothingLeftBehind`, `ReceiversReturn`, `IdleIsIdle`, `PoolCallsReturn` |
| `safepoint_race` | 3 threads, 1 object, `Races = {"collect"}` | to the first violation | finding: `NoLiveObjectSwept` |
| `flashfs_torn` | files up to 1 cell | to the first violation | finding: `PreviousIntact` |
| `ota_stray` | `Strays = {"begin"}` | to the first violation | finding: `RunningSlotUntouched` |
| `tasks_crossed` | one program of three jobs, fair | to the first violation | finding: `MainReturns` |
| `exceptions_nesting` | the shape "rethrow after a try" | to the first violation | finding: `NestingWorks` |
| `compiled_beneath` | two kinds of method, `Habits = {"straight"}` | to the first violation | finding: `InUseIsKept` |

What the properties say, beyond their names:

* *Safe points.* `CountersExact`: the three counts are the numbers of threads they stand for. `WorldStopped`: while one thread collects, no other runs. `ParkedForThisRound`: a
  parked thread waits for the round under way, or has been released. `EveryoneRunsAgain`: no thread stays parked.
* *Monitors.* `NoLostWakeup`: a sleeper who could go on has a `notify_all`, or its own deadline, to come. `PulsesNotMissed`: a pulse counts for every wait whose
  release came before it, from then on until the wait returns.
* *Compiled code.* `InUseIsKept`: what a local, an argument or a stack place of any frame of the chain names is in the heap, and an array's descriptor in the sink. `CallsLand`: a
  slot of a table that code may use names a compiled method and that method's present, filled table.
* *Heap.* `AliasOnlyAfterWrap`: a handle answers for another object only after its slot has been through all generations.
* *Flash.* `NeverOverprograms`: no cell is programmed that is not erased. `FullOnlyWhenFull`: a put is refused only if the live records leave no room.
* *Database.* `ReadsAreDurable`: between statements, memory equals what a reset would bring back, unless the last statement that changed something was refused because it could not be written; and the next open never refuses the file.
* *Tasks.* `EveryAwaitIsHeld`: a suspended body is in exactly one place that will resume it. `GivenUpInVain`: a task whose wait was refused never settles.
* *Exceptions.* `BehavesAsWritten`: what was observed, and how the program ended, is what the source says. `NoExceptionSwept`: every object a frame or a dispatch comes back to is in the heap.
* *Scheduling.* `NothingLeftBehind`: a receiver told Disconnected leaves no value. `IdleIsIdle`: while `wait_for_idle` says idle, no job is queued or running, and results are stored.

`TypeOK` and its likes are stated in every module; those of `Safepoint`, `ObjectSpace` and `Ota` are theorems, those of `Monitors`, `LockFreeQueue` and `Database` parts of proved invariants.

Why these bounds are enough for the questions asked:

* *Safe points.* Three threads are a collector, one parked and one that does the surprising thing. Two epochs
  suffice to tell "this round" from "the last one"; the counter wraps in the code too. The unrestricted environment
  leaves objects out because no guard of the protocol reads them; the restricted one puts one in.
* *Monitors.* A missed wake-up needs an owner, a waiter and a third thread; wrong depth needs two levels; the
  shared condition variable matters with two objects. One pulse tells an old pulse from a new one, because a wait
  can start before or after it. The proofs cover the rest.
* *Compiled code.* A map can miss what a frame above, the frame itself or the interpreter holds, so three frames; the four kinds of method are
  those whose maps differ. With two objects (538 thousand states, run once) nothing else appears, and the theorem has no bound. Three methods make call chains, cycles and shared callees.
* *Heap.* Two slots give cycles, self-references and a free list whose order matters; three births with two
  generations make the wrap happen. With one pin the saturation of the count happens at both ends.
* *Flash.* Five cells with sectors of two make the last sector partial, make compaction both necessary
  and sometimes useless, and let a record end exactly at the window's end.
* *Updates.* Two chunks is the least an update can be interrupted in; three let a slot hold more than its image.
  Three attempts is the code's own number.
* *Database.* Two rows with two values make positions move under a delete, and a fold that is due every two statements and may fail makes logs of
  none to three records (a fold of three does not fail: `MaxLog`); `WAL_CHECKPOINT` is larger, and nothing but the fold depends on it.
* *Tasks.* Each program is there for one interaction: racing completions of a source (`Sourced`, `Failed`), waits nested
  deeper than there are workers (`Nested`), a fork and join whose branch throws (`ForkJoin`), an async lambda over
  a delay (`Delayed`) and a source nobody sets (`Unset`). `GivingUp` is 2 rather than 50: what matters is
  that the samples are several, that they are separate steps, and that a busy sample starts the count again.
* *Exceptions.* The programs are all nestings of the clauses up to the depth, with every body and handler that throws, rethrows or does neither; a third level
  with a call puts clauses in two frames. One where the callee's finally block and a filter of its caller lie on the same way is the shape "filter over a call". The wrong shapes are in the run too: `DispatchEnds` and `NoExceptionSwept` hold of them, `BehavesAsWritten` asks about the others.
* *Scheduling.* Two threads lose every race of the queue that two pointers can have: a stale tail, a stale head, a tail behind the head. With three threads in any role and 2
  links (3 million states, run once), and with 4 links and the inductive invariant (71 thousand), nothing else appears, and the theorem has no bound. The channel needs a second receiver to steal and a second
  sender to leave; the pool a job that submits while another panics. `SeqLimit` is 4 for 2^32: a waiter that sleeps through exactly that many notifications would miss them, here as there, and `Gifts` keeps the runs below it.

Runs `managed` and `scheduling` do not check for deadlock, because their programs end; `WaitsEnd`, `DispatchEnds`, `JoinsEnd` and `PoolCallsReturn` say more. Every property of a passing run has a
mutant in `PROJECT.json`: a definition mapped to code and the form it would have with a plausible bug (a notify left out, a
guard dropped, a baseline read late, marks not cleared, the topmost frame walked alone, a count before a result, a store for a compare-exchange). Each has
been run against its configuration and violates its property.

## 4. Fairness

* *Safe points*. A running thread polls again (strongly fair: the model reuses the name
  of a thread that exited for a new one, and a thread returns from some method before it exits), a woken
  thread proceeds, a collector goes on. The first is an assumption about managed code, because the interpreter polls
  at returns and at `newobj`/`newarr` but not at backward branches (`rustclr-core/src/interp/exec.rs:287`); an interpreted loop without any of these stops every collection. Nothing is
  assumed of blocked threads, of exits, or of requests for a collection.
* *Monitors*. Whoever is inside `monitor.rs` proceeds, deadlines pass, the timer of a sleeper
  whose deadline has passed wakes it (strongly, since a broadcast may wake it first and it may go back to
  sleep), and an owner exits in the end, which is what the `finally` of a `lock` statement does. Nobody is assumed to pulse.
* *Compiled code*. Each part of the run has its own fairness. The code goes on, and comes round to its back-edge again and again (`SF(Poll)`): a compiled loop has one, with nothing on its evaluation stack.
* *Updates*. A board that is off is switched on, and one whose firmware does not work is reset, by a
  watchdog or by its owner. This is about boards, not about the library, and marked external in the map.
* *Tasks*. Every thread is scheduled (a worker that finds a job queued will take one, a waiting thread goes round
  its loop) and every deadline passes. This is the OS scheduler's fairness; a condition variable's timeout in the pool bounds each sleep.
* *Exceptions*. The one thread goes on.
* *Host mutex, channel, pool*. Threads that are awake are scheduled; timed waits (50 ms in the channel, 10 ms in the pool) end. Of the channel's senders and of jobs nothing is assumed but that started bodies end.
  `PoolCallsReturn` leaves out behaviours in which a job panicked a worker away.

Heap, flash store, database, queue and tier have no fairness, and no liveness property: a collection, a statement or a call of theirs goes on only with
its caller, and the queue's calls are lock-free, not wait-free. Safety properties are checked and proved without fairness.

## 5. Proofs

| module | theorem | what it says | premises |
|---|---|---|---|
| `SafepointProofs` | `ProtocolSafety`, `CountersAreExact`, `WorldIsStopped`, `RoundsDoNotMix`, `SafepointTypes` | the counters are exact; one collector; nobody runs while it collects; parked threads are of this round | finitely many threads |
| | `NobodyOversleeps` | who sleeps in the protocol has a wake-up to come, whatever races there are | finitely many threads |
| | `NothingLiveIsSwept` | no object named by a frame or a static is swept | `Races = {}` |
| `ExecutionProofs` | `MonitorsExclude` | mutual exclusion at the depth the program will unwind | none beyond the constants' |
| | `Refinement` | the registry implements `ReentrantMonitor` | none beyond the constants' |
| | `NoWakeupIsLost`, `PulsesCount` | a sleeper able to go on has a wake-up to come; a pulse counts until its waits return | none beyond the constants' |
| | `WhatFramesHoldIsKept` | every safe point keeps what every frame names | none of `"stack"`, `"straight"`, `"argument"` in `Habits` (`Covered`) |
| | `CompiledCallsLand` | code that may run only jumps to code that may run, with its present table, whatever cycles the calls make | finitely many methods |
| `ObjectSpaceProofs` | `FreeListIsExact` | the free list has each empty slot once | none beyond the constants' |
| | `StaleHandlesAreRefused` | a handle names a stranger only after `MaxGen` reuses of its slot | none beyond the constants' |
| | `ReachableObjectsSurvive` | no step frees what a root or a pin reaches | none beyond the constants' |
| | `CollectionsAreComplete` | a collection that ends has freed the rest | none beyond the constants' |
| `FlashFsProofs` | `PlanIsKept`, `NothingIsOverprogrammed` | no step programs a cell that is not erased, wherever resets and bad cells strike | none beyond the constants' |
| | `RefusesOnlyWhenFull` | a call is refused only if its record does not fit behind the live files | none beyond the constants' |
| | `StoreIsImplemented` | the log and its compactions implement `FileStore` | `"compacting" \notin Faults` |
| `StorageProofs` | `TypesHold`, `UpdatesLandElsewhere`, `ImplementsATrial` | updates never touch the running slot; the slots implement `TrialBoot` | `Strays = {}` |
| | `IndexesServe` | a lookup through the index finds what a scan finds | `"statement" \notin Faults` |
| | `WhatIsReadLasts`, `ImplementsPromise` | what was read after a statement that was written outlives every reset; the database implements `DurableTable`, refusals included | none of `"statement"`, `"checkpoint"`, `"append"`, `"truncate"` in `Faults` (`SoundBackend`); saves may fail |
| `TasksProofs` | `AwaitsAreHeld` | what is suspended is on one list of a pending task, or with whoever completes it; what runs is on one stack | none beyond the constants' |
| | `TasksSettleOnce` | a settled task does not settle again | nothing contends with a `SetException` or `TrySetException` (`FaultsUncontested`) |
| | `WaitersGiveUpAlone` | a wait is refused only if nothing is queued, due, handed over or under way, and every worker is idle | finitely many jobs |
| | `RefusedInVain` | what a wait was given up on is never settled afterwards | `MainWaitsLast`: only Main and jobs block, Main awaits nothing, and after its first wait it neither begins nor settles anything; `GivingUp > 1` |
| `ExceptionsProofs` | `NothingInFlightIsSwept` | no collection frees an exception object a frame or a dispatch comes back to | every frame interpreted |
| | `SearchesGoThroughTheTable` | a search queues blocks in table order, takes the first clause that catches, and gives a frame up only when it has gone through its table | every frame interpreted; nothing returns from the frame of a filter (`CodeVerified`) |
| `SchedulingProofs` | `MutexIsExclusive` | the mutex over the host's futex excludes | none beyond the constants' |
| | `SleepersWillBeWoken` | who sleeps on the mutex, the condition variable or a join has a wake-up to come | finitely many threads; the sequence number does not wrap (`NotWrapped`) |
| | `PointersStayInOrder`, `QueueIsFifo` | the queue's invariant; it implements `FifoQueue` | none beyond the constants' |
| | `DisconnectedIsEmpty` | a receiver is told of a disconnection only with no sender left and nothing queued | finitely many senders |
| | `IdleMeansDone` | the outstanding count is exact; idle means that what was submitted is done with and has its result | finitely many jobs |
| | `OwnerIsWoken` | the owner sleeps in join or `wait_for_idle` only while a job it waits for is pending, or its worker is about to notify | finitely many jobs |

Every premise that is not about finiteness excludes something that refutes the property: the theorems say that nothing else does. Most are a run or a row of section 6. The others: `MainWaitsLast`, because a
Main that goes on after a refusal, or one beneath an async method that was refused, can settle what was given up on (that it awaits nothing keeps it at the bottom of its stack, where the argument needs it; nothing is known to fail otherwise); `GivingUp > 1` (the code has 50), because a task may settle between the look and a single sample; `CodeVerified`, because the last row of section 6 lets a handler run, and return, on
the frame of a filter; `NotWrapped`, because a waiter that sleeps through 2^32 notifications finds the number it read.

Assumptions on constants are named where the constants are declared (`ThreadsAssumption`, `BoundsAssumption`, `QueueAssumption` and so on) and evaluated by every run of
the module. Those that say more than a type: `CrewAssumption` (a thread of the mutex is on one side of the condition variable), `ProgramsAssumption` (a method has a finite table of clauses), `FreshAssumption` (each `Task.Run`, timer and call of a script begins an activity of its own, as in the code each makes a
task of its own), `CellsAssumption` (a header is no unit of data: a scan tells them apart by where they are, a model by what they are). The theorems hold for any number of threads, objects, slots, values, methods, frames and steps.

Why each invariant has the parts it has:

* *Safe points.* The collector compares numbers; `WorldStopped` is about threads. `CountersExact` joins the two: if
  `parked + blocked` is all but one of `registered`, and the collector is neither parked nor blocked, everyone
  else is. Its preservation is one lemma about moving one thread between sets of places (`AtMoves`, from
  the library's facts about cardinality), applied to each action through `CountersMove`. `LockHeld` says the mutex is kept only by a collector;
  `ParkedForThisRound` needs `AwaitDrain`, which is why a round that starts before the last one has drained
  breaks it. For `NothingLiveIsSwept` three more parts are needed (`HandoverInv`): with no overlap
  there is one collector, the frames of whoever does not run are in its hands, and so are the statics it will need.
  `SleepInv` is about the condition variables: a parked thread sleeps only for the round that is on, a collector only before its round while `parked` is not 0 or in it while the counters say that someone has not stopped, and whoever keeps the mutex is awake.
  With exact counters each of these numbers is a thread; that one of them is awake is the argument of `NobodyOversleeps`, because a collector could otherwise be waiting for another sleeper.
* *Monitors.* `OwnershipMatches` alone is not inductive: a waiter must remember the depth it will
  restore and be no owner meanwhile, a contender must be outside, and a free monitor has depth 0. With
  these, each step of the registry is mapped to one of `ReentrantMonitor`, or to a stutter: contended enters
  that go to sleep, notifications and wake-ups change nothing the abstract state shows. `NoLostWakeup` is inductive beside it, and the argument is `NothingNewToWake`: a
  step that neither frees a monitor nor pulses adds no sleeper able to go on, and one that does owes a `notify_all`, which is its next step.
* *Heap.* `AliasOnlyAfterWrap` follows from `AgesAgree`, which says of every stored handle that the
  generation of its slot is its own, moved on by the number of reuses, modulo the wrap. `ReachableSurvive` is the tricolour argument:
  `NothingMissed` says the marked set and the worklist cover the successors of what is marked, so when the
  worklist is empty the marked set is closed, and everything reachable is in it (`ReachableIsMarked`). The other direction is `NothingExtra`: what is marked or waits is
  reachable, and what the sweep has passed is marked; freeing an unreachable object leaves the same objects reachable (`FreeingKeepsReachable`).
* *Updates.* `PendingIsWhole` (the pending slot is the other one and verifies), `ReceivesWhenSettled` (chunks arrive only
  while nothing is pending and the active slot runs), `TriedBeforeRun` (what runs on trial has been counted) and
  `ActiveWorks` together carry both `UpdatesLandElsewhere` and the refinement.
* *Database.* The index is absent or exactly what a rebuild makes of the rows; each statement either rebuilds it, drops it, or leaves the rows alone. A replay executes logged records, so the invariant also says
  the log and the statement in progress are statements, and the snapshot is sound. For what outlives a reset the invariant names the table the disk determines: the snapshot's, with the log
rerun on it. Memory is that table, or one statement ahead while the statement waits for its record; rerunning an extended log gives what the longer run gave, and a fold replaces log by snapshot at the moment they agree (`RerunAppended`). With a log, a snapshot that cannot be saved leaves them in agreement, because the record is already there. Without one it leaves memory ahead of the disk, which `unsaved` remembers, and the next snapshot that is saved takes memory as it is; so nothing has to be replayed that depends on what was lost.
* *Flash.* `PlanInv` is about `todo`. `Orderly`: erasures first, then cells in ascending order, a record verified before the next is begun, so nothing is programmed twice. `ErasedAhead`: what
  will be programmed is erased or will be. `CompactsTo` carries a whole image through a compaction: the window that the remaining steps lead to, whose log is the live files back to back and nothing else; it says where the log will end,
  which is why a refusal after a compaction means full. `StoreInv` adds what the record in RAM says (`Told`), that between calls no header lies outside the log (`Sound`: otherwise a later record could make old data
  part of it), that a compaction only touches cells on their way to the image (`Restoring`), and that a put leaves the window behind the log's end as it was blank (`Appending`). A put that is cut short leaves a prefix of a
  record: it is not a record, or it is one whose data is unwritten, and reads as a change of its own file either way, which is as much as `FileStore` promises and less than the header comment does (section 6).
* *Tasks.* `AwaitInv` says where an activity is: on one stack if it runs, on one list if it is suspended, and on neither if it has not begun or is over; that each phase fits the operation of its script (`PhasesFit`); that what has not been begun is
  what no executed operation has begun (`NotYetBegun`); and that a settled task has no list, because `complete` takes it under the lock under which `await_on_completed` looks. `SettleInv` ties a task to the scripts: it is settled exactly if
  some activity has gone past an operation that settles it. `HopelessInv`: Main is at the bottom of its stack; from the first idle sample on nothing is queued, due or under way (`Alone`), so nothing but Main itself could settle the task, and the next look finds it
  pending as the last one did; after the last sample Main is past its wait for good (`PastWait`). `OutstandingInv`: the count is the number of jobs submitted and not yet through the end of `run_one`, and a waiter's samples go on only while it was zero.
* *Tiers.* The pass is a depth-first search. What it has found is compiled and has a table, and what it has left again has all its callees among what it found (`Good`); a pass that fails half-way has still only added
  (`Grows`). Both by induction on the number of methods that are not on the path, and on the callees gone through. So when the outermost call returns, what was found is closed, and filling its tables cannot miss one.
* *Exceptions.* `EhInv` is types, `FramesSafe` and `SearchesSafe` (the objects of frames and dispatches are in the heap, the present one's too), and `FiltersNest`: frames that run a filter
  correspond, in order, to the dispatches that wait for one. Without it a filter's end could hand its dispatch to the wrong frame, and an unwinding through a filter could drop a
  dispatch that is still needed. For the order of a search `OrderInv` adds the other half, that a dispatch which does not search has its filter's frame (`EachHasItsFrame`), and what each dispatch, waiting or not, has found so far in the frame it searches (`Looked`):
  the blocks among the clauses behind it, in order, and none that catches. It waits over a frame that does not move, so it is still true when the filter comes back, however many dispatches and calls the filter itself went through.
* *Mutex.* `Exclusion`: the word is free only when nobody is inside. A swap to CONTENDED acquires exactly when it returns UNLOCKED. `WakeupsInv` counts: while someone sleeps on the word it says CONTENDED, or someone is between freeing it and waking, or about to swap (`WordTells`);
  each token has a thread of its own on its way while a taker sleeps, and if the sequence number is still the one a taker read, all tokens are of givers yet to notify (`Accounted`). The count is what a notification that wakes a thread already on its way would break.
* *Queue.* `head <= tail <= Len(chain)`; what a thread has loaded is no newer than the pointer it loaded, and its loads are in order where the code checks that they are; two pops that have won a node have won
  different ones, and its value is still there. The queue's content is what lies behind `head`. A push takes effect when its node is linked, a pop when it moves `head`, and a pop that finds nothing at the load of `next`, which is what `sawEmpty` remembers.
* *Channel.* The count of senders is exact, so zero means none are left, and none come back; a receiver at its second pop has seen that zero, and if that pop finds nothing the queue stays empty.
* *Pool.* Every pending job is in one place: with the thread that pushes it, in the queue once, or with its worker (`InOnePlace`). `unfinished` is the number of pending jobs (`AllCounted`); what is submitted and not pending
  has its result (`ResultsFirst`); and what the owner has read as zero stays zero (`StaysIdle`), because a job that submits another is itself pending. A worker stores the result before it notifies, and the one that counts the last job
  down tells after it: between the two the owner can be asleep, and the worker's position is the wake-up to come (`OwnerInv`).
* *Compiled frames.* `HeapClosed` (no field of a live object names a dead one) and `Chain`: every frame beneath the topmost has an empty evaluation stack and polls, or has nothing in its local; an argument is also in
  a local, with slots, of some frame beneath, or the entry's pinned array (`ArgHeld`); a local fits its method. That an argument is held so is no more than the premise says of calls and of `starg`, and it stays true because a frame beneath the topmost does nothing before it is topmost again. Then the walk finds everything (`WalkFindsAll`), and what it publishes keeps it.

What a recursive function computes (`Scan`, `PutBack`, `Rerun`, `Reaching`) is proved too. The library's induction takes an operator as a parameter, which the provers cannot instantiate; but that
the order on the naturals is well founded is a fact about a set, and from it follows induction over a set of naturals (`SetInduction`). With it one proves that a function satisfying the recursive equation exists, hence that the one defined does, and then what it computes.

Model-checked only:

* every liveness property: the prover has no rules for fairness and `ENABLED`. Of `JoinsEnd`, `EveryoneRunsAgain` and `WaitsEnd` the safety half is proved: who sleeps has a wake-up to come (`SleepersWillBeWoken`, `NobodyOversleeps`, `NoWakeupIsLost`); of `PoolCallsReturn`, that of the pool's owner (`OwnerIsWoken`);
* `BehavesAsWritten`, which compares the interpreter with a recursive reference over all programs: the correctness of a compiler, by induction on the syntax.

## 6. What the code does and its documents deny

Each is a run that TLC must find violated; `PROJECT.json` quotes the sentences.

1. `safepoint_race`. A thread that asks for a collection while another is stopping the world is counted as
   parked, but nothing hands in its roots (`rustclr-gc/src/safepoint.rs:239`); what only its frames hold is swept.
   The documents say such a thread parks like any other.
2. `flashfs_torn`. A reset after a record's header and name, and before its data, leaves a record that the
   scan takes for the newest (`rustclr-flashfs/src/lib.rs:143`); the previous version is lost although the header
   comment says it stays intact.
3. `ota_stray`. `begin` has no check that the active slot is the one running (`rustclr-ota/src/lib.rs:137`): called by firmware
   on trial, or after its `rollback`, it erases the slot that executes.
4. `tasks_crossed`. A waiting thread helps with whatever is first in the queue, on its own stack
   (`rustclr-bcl/src/tasks.rs:780`). If that job waits for a task suspended beneath it, both wait for ever, with no cycle
   in the waits; the comments say helping makes such waits safe.
5. `exceptions_nesting`. Every `leave` clears the frame's exception in flight (`rustclr-core/src/interp/eh.rs:278`), so after a try statement inside a catch block, `throw;` has nothing to rethrow and
   raises another exception. `docs/limitations.md:323` names nesting and rethrow among what works.
6. `compiled_beneath`. A method that never polls gets an empty map (`rustclr-jit/src/x64.rs:611`), so what it holds across a call is freed by a collection met in the callee. `alloc.rs:441` says that the
   roots of every compiled frame in the chain are published.

Further disagreements, each reproducible by changing one constant of a configuration:

| change | fails | what happens |
|---|---|---|
| `Races = {"block"}`, `{"idle"}` or `{"exit"}` in `MCSafepoint_race.cfg` | `NoLiveObjectSwept` | roots are copied before the wait in which more threads stop or statics change (`safepoint.rs:257`, `:356`, `rustclr-core/src/interp.rs:1006`) |
| `Faults = {"compacting"}` in `MCMemory.cfg` | `ImplementsStore` | a reset during compaction loses every file (`rustclr-flashfs/src/lib.rs:379`) |
| `Strays = {"confirm"}` in `MCOta_stray.cfg`, with `ImplementsTrial` | `ImplementsTrial` | an image is confirmed that was never booted (`rustclr-ota/src/lib.rs:189`) |
| `Scripts <- Contended` in `MCManaged.cfg` | `SettledOnce` | a `TrySetException` that loses a race turns a completed task into a faulted one (`rustclr-bcl/src/tasks.rs:1396`) |
| `Faults = {"statement"}` with a `Poison` value in `MCStorage.cfg` | `ReadsAreDurable`, `IndexServes` | a statement that fails halfway leaves rows no index finds, though `rustclr-db/src/lib.rs:103` says lookups are always consistent |
| `Faults = {"checkpoint"}` in `MCStorage.cfg` | `ImplementsTable`, `ReadsAreDurable` | a reset between the snapshot and the truncation: `CREATE TABLE` is refused on replay and the file no longer opens (`lib.rs:280`) |
| `Faults = {"truncate"}` in `MCStorage.cfg` | `ImplementsTable`, `ReadsAreDurable` | the same, when the truncation returns an error (`lib.rs:282`): the snapshot is new and the log is still replayed on top of it |
| `Faults = {"append"}` in `MCStorage.cfg` | `ImplementsTable`, `ReadsAreDurable` | a statement whose record could not be appended stays in memory and later ones build on it (`lib.rs:270`): after `CREATE TABLE` that was refused and `DROP TABLE` that was logged, the file no longer opens |
| `Tiers = {"interpreted", "compiled"}` in `MCManaged.cfg` | `NoExceptionSwept` | the roots published for a compiled leaf leave out exceptions in flight (`rustclr-core/src/interp.rs:1583`) |
| `Habits = {"argument"}` in `MCExecution.cfg` | `InUseIsKept` | a new object goes from the evaluation stack straight to a callee, or into a parameter by `starg`, and is then in no map: `rustclr-jit/src/x64.rs:594` says an argument is rooted by the tier's pin, which is true of the entry's array alone (`translate.rs:1421`, `:1440`, `:1279`) |
| `Habits = {"stack"}`, `{"uncharted"}` in `MCExecution.cfg` | `InUseIsKept`, `StopIsAnswered` | a value on the evaluation stack across a call is in no map; a loop under an entry without slots never stops (`rustclr-jit/src/alloc.rs:464`) |
| shape "try in a finally", "filter over a finally", "filter over a call" or "filter throws in a try" in `MCExceptions_nesting.cfg` | `NestingWorks` | the finally's own continuation is overwritten by the inner try; a filter that declined is asked a second time after the finally block inside it has run; a callee's finally block runs, and its frame is gone, before a filter of the caller is asked, which is how `docs/runtime.md:143` has it, while `eh.rs:1` says two passes, `eh.rs:113` that a filter runs before any frame below is discarded and `docs/limitations.md:307` that this is exactly ECMA-335; a filter's exception takes its frame's clauses (`docs/runtime.md:155`, `docs/limitations.md:311`) |

Met while reading, and in no module: in compiled code a callee's `alloc_object` index is looked up in the shapes of the entry method (`rustclr-jit/src/tier.rs:236`, `alloc.rs:378`); a fault in `field_load` or
`field_store` returns 0 and the code runs on (`alloc.rs:575`, `:624`); a looping method that allocates and has no reference local never prunes. In `rustclr-sched`, retired queue nodes stay until an
exclusive reclaim (`queue.rs:146`), a panicking `queue` job kills its worker (`task.rs:147`), and a `join` after a `join_timeout` that succeeded never returns (`task.rs:60`). A worker that waits for
a source counts its own job as outstanding (`rustclr-bcl/src/tasks.rs:567`), so its wait is never refused.

## 7. What is not modelled

| part | why |
|---|---|
| `rustclr-metadata` | decoding of files in one pass; no state outlives a call |
| `rustclr-core` loader, types, statics | sequential tables; the rule that copies may not grow apart is planned with `Thread.Start` |
| Instruction semantics | out of TLC's reach as a whole; exceptions, polls, waits and calls are in modules of their own |
| `rustclr-jit` code generation, inlining, scalar replacement, devirtualisation, the verifier | out of reach for three instruction sets; frames, safe points and tables are in `CompiledFrames` and `Tiering` |
| Base class library natives | sequential functions of one object |
| `rustclr-bcl` cancellation | planned; see the hazard at `cancellation.rs:93` |
| `rustclr-crypto`, container format of `rustclr-secureboot` | functions, tested against published vectors; `verify` is an operator of `Ota` |
| `rustclr-net`, `-mqtt`, `-espat` | codecs and blocking clients without retransmission of their own |
| `rustclr-hal*`, `-usb`, `-gfx`, `-interop`, `-diag`, `rustnet-cli` | I/O, arithmetic, conversions and glue |
| C# libraries, tools and tests | programs that run on the runtime |

These, most of the system by lines, are why the map covers about a twentieth of the implementation: what remains is decoding, code generation, library functions, drivers and tools, whose
behaviour is a function of their input and is tested as one.

Left out of modelled parts: in the heap, the byte trigger of `should_collect`, `NeverCollect` and statistics; in the task pool, growth for
blocked workers and shutdown; in tasks, `Parallel.*`, `ValueTask` and async iterators (the same calls through
another object), `WhenAll` and `WaitAll` (waits in a row), and errors of the runtime itself inside a resumed body; in compiled code, faults and
traps are one action that ends the call; in the queue, reclamation; in `rustclr-thread`, `try_lock`, `RwLock`, once cells and sleep; in the database, the parser, expressions, SELECT, several tables, a log or a snapshot that cannot be read or is torn (a backend's file changes whole or not at all); in the flash store,
path spelling, directory listings, errors of the memory driver and a bad cell that reads as another valid header; in updates, the storage's own atomicity (each storage call either
happens or does not); in safe points and monitors, the single-threaded build, whose stubs keep no state.

## 8. Plan

Done, in this order because the collector is what everything stands on: safe points, monitors, heap, flash store, updates, tasks; then the queue, the host mutex, channels and the pool;
exceptions; the database; the compiled tier.

Next:

1. `Cancellation`, over `Tasks`' vocabulary: cancel against register (`rustclr-bcl/src/cancellation.rs:93`), two first registrations that each allocate the callbacks' array, linked sources, timers. Abstract
   specification: each registered callback runs exactly once, or never if disposed first.
2. `PoolGrowth`: workers that block, `grow_from` and shutdown, composed with `Tasks`: a queue is never left with every worker blocked.
3. `TaskRoots`: `Tasks` composed with `Safepoint`: the delegate and the task of a queued job, held by a Rust closure alone, against a collection
   (`rustclr-bcl/src/tasks.rs:660`).
4. `MonitorsAtSafepoints`: `Monitors` composed with `Safepoint`'s blocked guard: a thread queued on a monitor whose owner is parked counts as stopped (`rustclr-core/src/interp.rs:1231`).
5. `Threads`: `Start`, `Join` and the loader's divergence rule.
6. The debugger's stop and resume machine; the deployment protocol's transfer; the heap's byte trigger.

Theorems to add: for `FlashFs`, that a compaction that is not interrupted leaves the window shorter, or as it was; for `Tiering`, that a method declined stays so.

## 9. Running it

    tlc -workers 2 -config MCSafepoints.cfg MCSafepoints
    tlapm SafepointProofs.tla

Each configuration names its module up to the underscore. `MCSafepoint_race`, `MCFlashFs_torn`, `MCOta_stray`, `MCTasks_crossed`, `MCExceptions_nesting` and `MCCompiled_beneath` end
with the counterexample of section 6; the others end without error, the longest (`MCExecution`) in about three minutes on two workers.
