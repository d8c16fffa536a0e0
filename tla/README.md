# protoST in TLA+

protoST is a Smalltalk whose objects can be made actors: a send to an actor
returns a future, and a pool of native threads runs the actors' messages, one at
a time for each actor. These modules model two halves of it: the runtime that runs
concurrently (scheduler, ready stack, pool, futures, waits, imports, debugger,
REPL), and the way of a program from its text to its value (parser, compiler,
engine, exceptions). TLC checks them on small instances, and TLAPS proves the
safety properties of the first half for every number of actors, threads, messages
and modules, the two refinements among them.

Paths such as `runtime/STRuntime.cpp` are below `src/src/`. `PROJECT.json` has,
for every definition, the lines it models, and for every property the mutant of
the code that breaks it.

## Contents

1. The system: components, their state, how they interact
2. Modules and how they correspond to the code
3. Runs, bounds, fairness
4. Proofs
5. Where the code and its text disagree
6. What is not modelled, and the plan

## 1. The system

| Component | State | Operations | Hard because |
|---|---|---|---|
| Actor scheduler (`STRuntime.cpp`, `ExecutionEngine.cpp`) | per actor: `__sched__` 0/1/2, mailbox, `__pending__`, suspended frame, `__waiting_on__`, anchored flag; ready stacks; live registry | send, schedule, drainOne, yield, resume, settle, finishDrain, anchor | every operation is a few atomic steps, by any thread |
| Ready stack (`ReadyStack.h`) | two tagged list heads, nodes, chunk table, counters | push, pop | lock-free with recycled nodes (ABA), growth |
| Semaphore, worker pool (`Semaphore.h`, `STRuntime.cpp`) | permits, pause flag, shutdown flag, workers, workers blocked in I/O | workerLoop, stop/startProcessing, enter/leaveBlockingIO, spawnWorker, constructor, destructor | sleeping against waking, pausing, growth, failing thread creation, join |
| Futures (`future_prims.cpp`) | `__settling__`, outcome, `__state__`, callback lists, `__observed__`, the record of rejections, `mainWaitingOn` | resolve:, rejectWith:, thenDo:, catch:, wait | settle against registration, main thread's wakeup |
| Wait cycles, helping (`future_prims.cpp`) | `__waiting_on__`, the actors buried on each thread | detectWaitCycle, waitHelping | a check on a graph that others change |
| Module loading (`STRuntime.cpp`, `STModuleProvider.cpp`) | `moduleCache`, `modulesLoading`, `modulesWaiting` | Import from: | loads that fail, wait or import each other |
| Execution engine (`ExecutionEngine.cpp`, `object_prims.cpp`) | the engines live on a thread, each a stack of frames with slots, operands and a captured dict; objects | opcodes, sends, group writes, yield and rebuilding, non-local return | returns and yields across native calls, group writes that others may see |
| Exceptions (`exception_prims.cpp`, `HandlerStack.cpp`) | handler stack of a thread, enabled flags, active signals | on:do:, signal, return:, resume:, retry, pass, ensure:, ifCurtailed: | control flow by C++ exceptions, cleanup order, the nesting limit |
| Parser (`frontend/Parser.cpp`) | position in the tokens, the two layout modes | one function for each construct | where a statement and a body end depends on lines and columns |
| Compiler (`frontend/Compiler.cpp`, `BytecodeModule.cpp`) | class table, closure analysis, scopes, bytecode, pools | analysis, emission, jump patching, depth pass | a variable's place is decided far from its uses; operands that change width |
| Debugger, debug adapter (`debugger/`, `dap/`) | thread states, breakpoints, per-thread records, handles | launch, stop, inspect, step, resume, pause, disconnect | threads that stop and exit during requests |
| Interrupts, REPL (`Interrupt.cpp`, `repl/`) | pending flag, self-pipe, armed thread, retained modules | signal handler, poll, evaluate, :reset | a signal at any moment |
| Primitives, library (`primitives/`, `lib/`) | objects of protoCore | numbers, collections, strings, I/O, time, Atom | mostly sequential; Atom retries |

How they interact. A SEND to an actor appends to its mailbox and calls
`schedule`, which moves `__sched__` from 0 to 1 and pushes the actor on a ready
stack, or from 1 to 2 to leave a wakeup to the thread that owns it.
`enqueueReady` releases the semaphore the workers sleep on. A worker pops an
actor and drains it for one turn. `Future>>wait` in a method either suspends the
actor, which then sits in the future's waiters, or, inside a block that a
primitive evaluates, keeps the thread and runs other messages on top. The end of
a message settles its future, which runs callbacks, wakes the main thread and
schedules the waiters. `finishDrain` gives the flag back, or queues the actor
again. An import may happen in any of this, and the import of a module another
thread is loading blocks the thread.

What makes each part correct:

* scheduler: one owner for an actor, no lost wakeup, a parked actor is always
  found by the settle it waits for, a queued or parked actor is kept alive, and
  altogether messages are handled one at a time in their order of arrival;
* ready stack: linearizable, no node in two places;
* pool: no worker sleeps on work, the destructor returns and leaves nothing;
* futures: settled once, no callback lost or run twice, the main thread woken;
* waits: a cycle of waiting actors is reported and never hangs;
* imports: a module is run once, a cycle is reported, every import ends;
* exceptions: the handler stack matches the constructs that are running, no handler
  catches what it may not see, nothing in flight misses its target, no cleanup is
  skipped;
* parser, compiler, engine: a program's text parses to the tree it was written from,
  and its bytecode ends with the value or error the tree means, within the stack that
  was reserved, and lets others see only states of an object that the program made;
* debugger: nobody waits for a client that is gone, handles and breakpoints are of the
  present, a disconnect ends the adapter;
* REPL: a Ctrl-C is taken, and by the evaluation it was meant for.

## 2. Modules

### ActorScheduler, SerialActors

One action for each access to shared state. The variables are named for the
attributes (`sched` is `__sched__`, `frame` is `__suspended_frame__`, `waiters`
is `__waiters__` ...); per thread, `pc` is its next step and `cur`, `msg`,
`batch`, `loaded`, `dirty`, `susp`, `wake` are the locals of `drainOne`,
`MailboxCursor`, `DrainGuard` and `settleFuture`. A read followed by a
compare-and-swap of the value read, retried until it succeeds, is one step.

| Action | Code |
|---|---|
| `ClientSend`, `MethodSend` | SEND to an actor |
| `Schedule`, `FlagLive`, `AppendLive`, `EnqueueReady` | `schedule`, then `enqueueReady`: `__live__`, the list it stands for, the push |
| `DequeueReady`, `FreshTurn`, `ResumeTurn`, `DeferResume` | the start of `drainOne` |
| `LoadPending`, `TakeAll`, `NextMessage`, `Spill` | `MailboxCursor` |
| `BeginWait`, `WaitError`, `Yield`, `WaiterSettled`, `WaiterPending`, `AppendWaiter`, `AppendDrained` | `prim_Future_wait`, the FutureYield handler, `appendFutureWaiter` |
| `MethodEnd`, `PublishState`, `DrainWaiters`, `WakeWaiter`, `WakeDone` | the settle at the end of a message |
| `ClaimWakeup`, `Requeue`, `StaleWakeup`, `ReleaseStale`, `StaleAgain`, `Release`, `PeekPending`, `PeekMailbox`, `Reclaim`, `ReclaimLost`, `EndTurn` | `finishDrain` |
| `Anchor*`, `Unanchor*` | `anchorActor`, `unanchorActor` |

A method is any sequence of sends and waits followed by its end. The order of the
ready stack, the sleeping of workers and callbacks are left to the other modules, and
with the callbacks the frames that one of them may leave in an actor (Future).
The walk of `detectWaitCycle` is one step here; WaitHelping has its steps.

`SerialActors` is the abstract specification: every actor has an inbox and at
most one current message; `ImplementsSerialActors` maps the batch, the pending
tail and the queue to the inbox.

### ReadyStack, LifoStack

One action for each atomic operation of `ReadyStack.h`, with the head words as
(generation, index) pairs modulo `Generations`. The history variable `order`
holds the nodes of each list; no action reads it. `LifoStack` is a stack whose
push and pop are single steps at their linearization points; the refinement maps
the ready list to it.

### WorkerPool

Workers, semaphore, pause gate, blocking I/O and the life of the runtime. It
counts queued actors and does not say which they are. `Sleep` is the comparison
and the sleep of `atomic::wait`, which the standard makes one step. A turn may
send, help, block, pause or start the pool. `Pausers`, `Blockers` and `MayFail`
choose what an instance has.

### Future

`settleFuture` in its numbered steps, `thenDo:` and `catch:`, observation, and
the wait of a thread without a current actor. A callback may itself wait
(`Waiting`). What `prim_Future_wait` then does depends on where the callback runs,
which `context` says:

* `none`, after a resumed message, whose actor is no longer current, or on the main
  thread: `Mark`, `Poll`, `Acquire`, `Unmark`, the main thread's wait;
* `nested`, inside a method or inside a turn that `waitHelping` runs: it waits until
  the future is settled (`Help`) or reports a cycle (`WaitError`);
* `alone`, after a message that ran in one piece, whose engine is gone while its actor
  is still current: `Suspend` puts its frames into the actor, and the settle goes on.
  `half` are the callbacks so suspended, `held` those whose turn has not ended
  (`EndTurn`); a later turn runs them to their end (`ResumeHalf`).

`WaitError` may happen at any wait, since the graph of waits is WaitHelping's. When
the actor is scheduled again is ActorScheduler's; here a later turn may or may not
come. A resumed block does not wait a second time. The end of a turn whose message is
itself a primitive of a wrapped future is left out. The history variable `intruded`
records that a thread other than the main one has written `mainWaitingOn`.

### WaitHelping

`detectWaitCycle` with one step for each future it follows, the suspending wait
and the helping wait. Each thread has a stack of messages; the actors below the
top are `t_buriedActors`. Scheduling is abstract: any queued message of an actor
that runs none may start. `setup`, chosen at the start from `Setups`, is the pool,
the messages whose method waits inside a primitive's block, and the number of waits
of a method. Futures that belong to no actor end the walk and are left out.

### ModuleImport

`importModuleFile`; each critical section of `modulesMu` is one step, since the
mutex excludes the others. A thread's stack has the top levels it is in the
middle of, and `Message` where `waitHelping` runs an unrelated message in
between. A file's search path is not modelled: `FileOf` says which file a key
leads to.

### Exceptions

One thread. `stack` is its native stack: engines with their frames, and the
primitives that evaluate blocks (`protect` is on:do:, `ensure`, `signal` a handler
that runs, `help` a message run by waitHelping, `foreign` a send into another
runtime). `handlers` is `g_handlerStack`, `active` is `g_activeSignals`. What the
program does is an action each (`OnDo`, `Ensure`, `Signal`, `HandlerAction`,
`NonLocalReturn`, `PrimitiveFails`, `Interrupted` ...). What leaves the top of the
stack, a value or one of the C++ exceptions, is in `flight`, and every construct has
one `...Exit` action, its catch clauses in their order.

### Source, Parser, Compiler, Engine, Meaning, Program

The way of a program. `Ast` has the trees. `Source` writes a tree as tokens, by the
rules of the language guide, in a layout: `plain`, `airy` (blank and unindented
lines wherever a statement is not complete), `dense` (one line) and `flush` (a
body's first statement is not indented). `Parser` is the recursive descent, an
operator for each `parse...` function. `Compiler` has class table, closure analysis
and emission, an operator for each `compile...` and `emit...` function, with the
bytecode module's EXTEND prefixes, jump patching and depth pass. `Engine` runs the
result, one action for a group of opcodes or for the return of a native call; a turn
of an actor may yield at a wait, and is then rebuilt from its snapshot. `Meaning`
evaluates the tree directly, with cells and environments, and knows nothing of
bytecode. `Program` states what the two have in common. Compiler and parser are
functions of their input, so they are operators and not actions; `Engine` is a state
machine that starts, for each program, with the compiled module.

`versions` records what the variables of an object are after each write that another
thread could see: an instance-variable group is published at once, and the property
is that nothing is published that the program, write by write, never made.

### DebugSession

The adapter's message loop, the debugger's tables and the threads of the script.
Every action is one critical section of `sessionMu_`, `bpMu_` or `ownersMu`, or one
step outside of them. `stage` is where a script thread is on its way into and out of
`onStopped`; `adapter` is what the adapter's thread does, which processes one request
at a time and waits in `runOnStoppedThread`. A decision to stop (breakpoint, step,
pause, exception filter) is taken or not; conditions and hit counts are not looked at.

### Repl

The REPL's thread from poll to evaluation, the SIGINT handler, which sets the flag
and writes to the self-pipe in two steps that may interleave with anything, and a
worker that runs what the inputs have sent. `pressedIn` is the evaluation in which the
pending Ctrl-C came; no action reads it.

## 3. Runs

`tlc -config X.cfg M`, from this directory, where M is the module of the same name
(`MCFuture` for `MCFuture*.cfg`) or, when there is none, the component's own
(`WorkerPool` for `MCWorkerPool*.cfg`).

| Run | Instance | Shows |
|---|---|---|
| `scheduler` | 2 workers, main, 2 actors, 3 messages | type, one owner, no lost wakeup, parked actors registered, queued actors rooted, implementation of SerialActors |
| `scheduler_liveness` | 2 workers, main, 2 actors, 2 messages, fair | every message that is sent is settled |
| `ready_stack` | 2 threads, 4 values, 3 nodes in 2 chunks | every node in exactly one place and both lists whole, chunks present, implementation of LifoStack |
| `pool` | 1 worker growing to 2, 2 sends, 2 pauses, failing creation, fair | nobody sleeps on work, nothing left behind, the destructor returns and work is done unless the pool is paused |
| `future` | 2 futures, 1 worker and main, 2 callbacks, one of which waits | settled once, callbacks run once, none forgotten when the state is published or lost when it is suspended, main thread woken |
| `future_wait_clobbered` | 2 futures, 1 worker and main, 1 callback that waits | violation: the main thread's wakeup is lost |
| `wait` | 3 actors, 3 messages; 2 workers whose methods suspend, or 1 worker with 2 messages that wait in blocks; fair | of waits that close a cycle together one sees the others, buried actors count, records current, every message settled |
| `import` | 3 threads, 2 modules, 3 imports each, 1 helping thread, fair | loaded once, tables true, no cycle of waits, every import ends |
| `exceptions` | 2 classes, guards Error and Exception, 3 nested engines, 4 steps of the program, fair | handler stack exact, handlers visible, unwinds with targets, cleanups not skipped, the program ends |
| `program` | some 1300 programs in up to four layouts, operand bytes of 4 values, groups of 3, small integers up to 3 | text parsed as written, run as written, stack enough, published versions real |
| `debug` | endless main thread, 1 worker, 2 files, 2 stops, 1 inspection, 1 breakpoint or pause request, fair | nobody waits for a client that is gone, handles and breakpoints current, disconnect ends |
| `repl` | 3 lines, 3 presses, 1 send, fair | Ctrl-C taken, and never by a later evaluation |

Why the bounds are enough. Two workers and an outside sender give the scheduler
every pair of concurrent operations on an actor (settle against suspension, send
against release, wakeup against release); three messages let a method wait for a
message behind which another arrives, which fills the pending list. Three nodes
in chunks of one and two recycle nodes between a load and its compare-and-swap
(the untagged mutant is caught), install each chunk concurrently and exhaust the
stack. Two workers, one of them born during I/O, race creation, pause and
shutdown. Three actors are the shortest cycle through a buried one, and two
modules the shortest mutual import. A callback can be suspended only by a future other
than the one whose settle runs it, so two futures are enough for that, and a second
callback is run by the settle after the first has been suspended. `Generations` is larger than the number of
compare-and-swaps of the instance: a tag that wraps around within one
operation (2^32 successes) is assumed not to happen.

Four steps of a program nest every pair of exception constructs with a signal and
what its handler does, or three constructs with one exit; three engines bring the
nesting limit within that reach. The programs of `program` are every pair of twelve
statements about a variable and a block, in each of the six places a variable can
live; every run of three writes to an object, in a turn that may yield; and one
program or more for each rule about classes, super, mixins, call form, loops,
returns, cascades and names. The small constants make happen what 256 values of a
byte and a whole word of integers would hide: EXTEND prefixes of one and two bytes, jumps
that widen others, full groups, overflow into large integers. Two stops and a worker
are enough for a handle to outlive its stop and for a thread to stop while the
session shuts down. Three presses of Ctrl-C fall before, in and after an evaluation
in every combination. The other bounds (`MaxSends`, `MaxPauses`, `waits`,
`MaxImports`, `MaxDepth`, `MaxRequests` ...) only make instances finite.

Symmetry is used for runs of safety properties only; `wait` fixes the order in which
the interchangeable messages are sent instead. Deadlock is checked in the scheduler,
the stack, exceptions, program, debug and REPL; in the others a program may come to
rest (nothing sent any more, the bound reached, or a future that nobody settles).

Fairness. Runtime steps are weakly fair per thread: they are lock-free or
critical sections, and the operating system runs every thread. A method ends
(strong fairness of `MethodEnd` and `EndTurn`, since a method may be suspended and
resumed), and I/O returns: programs that loop for ever are not the runtime's to
end. Blocks end and exits proceed (`EndFrame`, `Exit`) in Exceptions. In DebugSession
the adapter finishes what it has begun, a stopped thread moves on, and the script
ends except on the threads in `Endless`; in Repl the REPL's own steps, the second
half of the signal handler and the safepoint's look at the flag are fair, while an
evaluation need not end. No fairness is given to sends, waits, pauses, spurious
wakeups, requests of the client, keys of the user or the end of the main program.

Further instances, kept beside the runs, end with a violation, each explained in
section 5:

| Configuration | Violated |
|---|---|
| `MCActorSchedulerAnchor.cfg` | `SuspendedIsAnchored` |
| `MCFutureComesFirst.cfg` | `CallbacksComeFirst`, and `ObservedIsNotReported` when it is the INVARIANT |
| `MCWorkerPoolPause.cfg`, `MCWorkerPoolFree.cfg`, `MCWorkerPoolCap.cfg` | `NoDrainsWhilePaused`, `EnoughRemainFree`, `WithinCap` |
| `MCWorkerPoolShutdown.cfg` | `DestructorReturns` |
| `MCWaitHelpingBuried.cfg`, `MCWaitHelpingDepth.cfg` | `NoSilentCycle`, `EveryMessageSettles` |
| `MCModuleImportAlias.cfg`, `MCModuleImportHelp.cfg` | `LoadedOnce`, `CyclesAreImports` |
| `MCExceptionsLimit.cfg` | `LimitUnwindsHaveTargets` |
| `MCProgramContested.cfg` | `RunsAsWritten` |
| `MCDebugSessionStale.cfg` | `TasksAreCurrent` |
| `MCReplReset.cfg` | `WorkersRunLiveModules` |

## 4. Proofs

Each `...Proofs` module extends the module it is about and proves, for every value
of its constants, what a run checks on one instance (`FrontEndProofs` is about
both DebugSession and Repl, whose names differ). The assumptions are the named
ASSUMEs of the modules (nil values are no actors, threads or messages; workers are
finitely many; bounds are numbers), and the hypotheses that are part of some
theorems' statements and discussed below. Every invariant below was checked by TLC on
the instance of its run before it was proved.

| Module | Theorem | Statement |
|---|---|---|
| `ActorSchedulerProofs` | `TypeCorrect` | `Spec => []TypeOK` |
| | `Ownership` | `Spec => []OneOwner` |
| | `WakeupsAreKept` | `Spec => []NoLostWakeup` |
| | `ParkedActorsAreFound` | `Spec => []ParkedIsRegistered` |
| | `QueuedActorsAreRooted` | `Spec => []QueuedIsRooted` |
| | `ActorsAreSerial` | `Spec => ImplementsSerialActors` |
| `ReadyStackProofs` | `NodesStayInPlace` | `Spec /\ []GenerationsLeft => []NodesAreInPlace` |
| | `ChunksAreThere` | `Spec /\ []GenerationsLeft => []NoMissingChunk` |
| | `StackIsLifo` | `Spec /\ []GenerationsLeft => ImplementsLifoStack` |
| `WorkerPoolProofs` | `DestructorLeavesNothing` | `Spec => []NothingLeftBehind` |
| | `WorkWakesWorkers` | `Spec => []NoWorkerSleepsOnWork` |
| `FutureProofs` | `CallbacksRunOnce` | `Spec => []RunsOnce` |
| | `CallbacksAreKept` | `Spec => []CallbacksAreRun` |
| | `MainThreadIsWoken` | `Spec => []MainIsWoken` |
| | `FuturesSettleOnce` | `Spec => SettledOnce` |
| `WaitHelpingProofs` | `WaitRecordsAreCurrent` | `Spec => []RecordsAreCurrent` |
| | `CyclesAreReported` | `OneHelper` and `WalksReach` imply `Spec => []NoSilentCycle` |
| `ModuleImportProofs` | `ImportTablesAreTrue` | `Spec => []TablesAreTrue` |
| | `ImportsDoNotDeadlock` | `Spec => []NoWaitCycle` |
| | `TopLevelsRunOnce` | `OneKeyPerFile` implies `Spec => []LoadedOnce` |
| `ExceptionsProofs` | `HandlerStackExact` | `Spec => []HandlerStackIsExact` |
| | `HandlersAreVisible` | `Spec => []HandlerIsVisible` |
| | `UnwindsAreCaught` | `Spec => []UnwindsHaveTargets` |
| | `CleanupsAreNotSkipped` | `Spec => CleanupIsNotSkipped` |
| `FrontEndProofs` | `ShutdownReleasesEverybody` | `Spec => []NobodyWaitsForTheClient` |
| | `HandlesDoNotOutliveTheirStop` | `Spec => []HandlesAreCurrent` |
| | `BreakpointTableIsCurrent` | `Spec => []BreakpointsAreCurrent` |
| | `InterruptsAreForThisEvaluation` | `ReplSpec => []InterruptIsForThisEvaluation` |

### Scheduler

`TypeInv` adds to the types what each thread's locals hold at each of its steps.
`OneOwner` is inductive with it: a thread becomes the owner by moving the flag from
0, or by taking the actor off the stack, and stops being it by pushing the actor or
by moving the flag to 0. `NoLostWakeup` is not inductive. It speaks of flag 0 only,
while a wakeup is lost earlier, when the owner overlooks something. The
strengthening says for every actor and every kind of work where that work is in
sight, whatever the flag:

* `SuspensionOK`: where a turn stands agrees with its actor's saved frame;
* `SettlingOK`: a future published but not drained has a thread about to drain it,
  and a drained one has no waiters;
* `SuspendedOK`: a suspended actor is among the waiters, or its future is settled
  and it is queued, marked, or in the hands of a thread;
* `QueueOK`: a message in a queue belongs to a suspended, marked or queued actor,
  or a thread will schedule the actor or look again;
* `PendingOK`: a message in `__pending__` belongs to a suspended actor or to a turn
  that has yet to load or rewrite it;
* `RootedOK`: what is queued, held by a turn or suspended is in `__live_actors__`, and
  an actor whose `__live__` is set without being there has the thread that owns it
  about to append it. The threads that push without looking at the list rely on the
  latter: with `OneOwner`, that thread is the only one on the way to a push;
* `LoadedOK`: a turn that found `__pending__` empty is still right about it.

`SuspendedOK`, `QueueOK` and `PendingOK` have the form "safe by the shared state, or
covered by a thread", and their proofs go by the thread that steps: it keeps its own
cover or moves the work to where another one holds; every other thread's cover
depends on variables the step leaves alone. One lemma for each conjunct, one step for
each action.

The refinement needs `OneOwner` and `LoadedOK`: the inbox of the abstract actor is
the owner's batch, then `__pending__`, then the mailbox, and taking, loading and
spilling a batch may not reorder it or lose its tail. `HiddenStutter` collects the
steps that leave the mapped state alone; a send, the start of a message and its end
are steps of SerialActors.

### Ready stack

`GenerationsLeft` says that the tag of neither head has come to its last value. It is
a real hypothesis: with the tag wrapped round (2^32 operations while one thread
sleeps between two instructions), a stale word compares equal, and the code does not
exclude that. The run needs no hypothesis: its instance makes fewer
compare-and-swaps than it has generations.

`NodesAreInPlace` alone is not inductive: the compare-and-swap of a pop installs a
successor read earlier. `SuccessorOK` is the reason the tag is there: as long as the
head is the word that was read, the successor that was read is the link of its node,
since a node is linked only by the thread that puts it on a list, with a newer
generation. `LinkOK` is the same for the push, `ChunksOK` and `ValuesOK` say that
every reachable node lies in an installed chunk and carries its value; the last is
what the refinement needs.

### Pool

`NothingLeftBehind` needs to know that `spawning` is the number of threads inside
`newThread` (`CountersOK`), that a worker that runs is registered or has a thread
about to register it (`LiveAreKnown`), that with `shutdown` set and `spawning` 0
nobody creates another (`PoolIsFinal`), and that the last worker to end has found
the stacks empty (`LastWorkerDrains`).

`NoWorkerSleepsOnWork` counts. `Covered` says: as many permits, woken workers and
threads about to release one as there are queued actors, or as many permits and such
threads as there are workers asleep or about to sleep. The second half replaces the
first after a pause, when pushes were not announced; it survives because a worker
becomes idle only on finding the stacks empty, which makes the first half true.
`startProcessing` establishes it with one permit for each registered worker. That is
enough although a worker that is not registered yet may be idle too, because the
thread that is creating it is then not (`IdleAreFew`). A pool that is stopped and
started again by several threads at once has one among them that is making up
for everything (`WorkIsCovered`).

### Futures and waits

`FutureInv` follows every callback: one that has not run is in the hands of one
thread, or on the one list it was given to, which then has not been drained, or is
suspended, or its future got the other outcome (`PlacesOK`); a suspended one is off
its list, which has been drained, in nobody's hands, and has not run (`HalfOK`); one thread has won the settle, and how far it has come shows in the
future (`SettleOK`). `CallbacksAreKept` says where a block is that was registered in
time: the stronger `CallbacksComeFirst`, which the code's comment states, is false
(section 5). `MarkOK` says what `mainWaitingOn` is
as long as only the main thread writes it. `SettledOnce` is an action property of the
same invariant.

`RecordsAreCurrent` needs that a message in the middle of its method is in one place,
suspended or at one height of one stack (`PlaceOK`), and that an actor is in the
middle of one message (`OneMessageOK`).

`CyclesAreReported` has two hypotheses, which the run's setups satisfy. `OneHelper`:
no method waits inside a block of a primitive, or the pool has one thread. Without it
`NoSilentCycle` is false, because a walk does not see who is buried on another thread
(section 5, `MCWaitHelpingBuried.cfg`). `WalksReach`: there are no more actors than
the walk has steps, 256 in the code. The argument is about *knots*: sets of actors
each of which waits for, or is buried under, another of the set. The invariant says
that each least knot has a thread that walks along it (`KnotsAreFollowed`): the one
whose record closed it, because every new edge but those of a record ends at, or
begins at, an actor that waits for nothing and so is in no knot. That thread has
come through actors of the knot that are not buried, so each has one way on
(`Path`); it comes to a new one at every step, since otherwise the others alone would
be a smaller knot; so it comes back to its own actor before the limit, and
reports. If two threads close a knot at once, the first to report opens it for the
other. Messages that block one another make a knot of actors whose walks are over,
which therefore does not exist. A least knot exists because actors are finite.

### Imports

`ImportInv` has the tables, `WantOK` and `NoWaitCycle` itself, which is inductive with
them: a thread that goes to sleep has walked the owners from the module it wants and
is not among them, and the set of those owners is closed under waiting, so no cycle
goes through the new edge; every other step removes edges. `Owners` is defined as the
least closed set, which is what the loop of `importModuleFile` computes.
`OneKeyPerFile`, the hypothesis of `TopLevelsRunOnce`, is that no file is reached by
two keys. The run's instance satisfies it; `MCModuleImportAlias.cfg` shows what
happens without it.

### Exceptions

The runtime keeps the handler stack and the active signals beside the native stack,
and undoes what it has done to them when an element of the native stack goes. So the
invariant takes the native stack for the truth and the two others for what follows
from it. `StackOK` relates each element to those below it only, and a step that takes
off the top leaves the rest of it as it was:

* `IdsOK`: handlers get their ids in the order in which they are pushed, and inner
  on:do: have the larger ones, after a `retry` too. `Hides` compares indices in the
  handler stack; with `IdsOK` an id stands for its index (`HidesId`);
* `SignalOK`: the handler that runs is one of an on:do: below its signal, with nothing
  between that hides it. This is `HandlerIsVisible`, and since the signal then hides
  that handler itself, no handler runs twice at a time, which is what makes the target
  of `resume:` and of `pass` unique;
* `OffOK`: what a signal, a helped message or a foreign send has disabled, and will
  enable again, is exactly what it hides and nothing below it hides. That makes the
  restore right: too much would enable a handler that an outer signal hides;
* `ExitOK`: the exit that a cleanup holds back has its target below the cleanup.
  `UnwindsHaveTargets` speaks of what is in flight and is not inductive without it;
* `ElementOK`: a cleanup past its body has been started, from which
  `CleanupIsNotSkipped` follows.

`HandlersOK` then says that an entry is enabled exactly when nothing above its on:do:
hides it, and `ActiveOK` that the active signals are those on the stack, in order. The
proofs go by what a step does to the stacks: lemmas for an element on top of the
stack (`engine`, `protect`, `ensure`, `signal`, `help`, `foreign`), for the top going
off, and for a change of the top in place; the actions combine them. The unwind that
delivers the nesting limit is left out of `Target`: it may miss its on:do:
(section 5).

### Debug session, REPL

`RecordsOK` ties the adapter's records to the stages of the threads: whoever is
inside `onStopped` has a record that says so, which is what `Release` goes through.
With it the three properties are inductive together. For the REPL, a Ctrl-C that is
pending during an evaluation came in it, because `evaluate` has discarded earlier
ones, and nobody but the safepoint clears it.

### Only model-checked

* Liveness under fairness, out of the prover's reach: `EverySendSettles`,
  `RunningPoolIsJoined`, `WorkIsDone`, `EveryMessageSettles`, `ImportsEnd`, `Ends`,
  `DisconnectEnds`, `CtrlCIsTaken`.
* `NoSilentCycle` without the hypotheses of `CyclesAreReported`, which is false.
* Source, Parser, Compiler, Engine, Meaning and Program, which descend trees with
  RECURSIVE operators: what a recursive definition computes for every input is out of
  the prover's reach.

## 5. Where the code and its text disagree

With a run, and quoted in `PROJECT.json` under "findings":

* **A callback that waits at the end of a resumed message** (`WakeIsOnTheWay`) takes
  the main thread's path on a worker: it overwrites `mainWaitingOn` or takes the
  permit, and the main thread sleeps for ever.

With an instance beside the runs:

* `CallbacksComeFirst`: a callback that waits at the end of a message that ran in one
  piece is suspended. `FutureYield` (`future_prims.cpp:403`) leaves its half-run frames
  in the actor, `invokeCallback` reports and drops the exception (99), and the settle
  publishes `__state__`, although the comment at `future_prims.cpp:61` guarantees that
  every callback registered before has run by then.
* `DestructorReturns`: a paused pool cannot be destroyed; `~STRuntime` does not
  notify `pauseCV`.
* `NoSilentCycle`, two threads: a cycle through an actor buried on the other thread
  hangs without an error.
* `CyclesAreImports`: an unrelated import during a load that helps is reported as a
  cycle.
* `SuspendedIsAnchored`: the thread that ended a turn may un-anchor an actor that
  has been suspended again; the actor stays in `__live_actors__` (`QueuedIsRooted`).
* `ObservedIsNotReported`: a rejection observed between the check and the record
  of `rejectFutureFromDrain` is reported all the same.
* `NoDrainsWhilePaused`: a worker in its drain loop does not see the pause.
* `EnoughRemainFree`, `WithinCap`: `enterBlockingIO` reads the counts at different
  moments; two workers may leave one too few free, or exceed the cap.
* `EveryMessageSettles` beyond `kMaxHelpingDepth` with one worker.
* `LoadedOnce` for two spellings of one path: `fs::absolute` does not normalise.
* `LimitUnwindsHaveTargets`: "A balanced `on:do:` always catches its own id"
  (`NestingLimitUnwind.h`), but while the second handler of `on:do:on:do:` runs on the
  nesting limit's error, the first guard of the same construct is found for the next
  one (`exception_prims.cpp:1090`).
* `TasksAreCurrent`: the adapter looks a handle up, and the inspection runs on the
  thread later (`DapServer.cpp:1146`, `1204`), possibly in another stop.
* `WorkersRunLiveModules`: `:reset` frees the retained modules before it ends the
  runtime whose workers may run them (`Repl.cpp:344`, the comment at 370).
* `RunsAsWritten` for two programs: a named parameter of a call-form method that a
  block reads answers the marker for "not given" (`Compiler.cpp:935`, `docs/VM.md:297`);
  a class variable of a mixin, assigned in the mixin's method, is looked for along the
  first parents only (`docs/LANGUAGE.md:360`).

Met while reading, and stated by no instance:

* `DapServer.cpp`: `handleLaunch` drops the list of breakpoints that re-arming has
  changed (581); `handleVariables` sends its list when the wait for the thread has
  timed out, while the thread may still write to it; `endStuckProgram` expects the
  program to be stuck on the main thread only, so a worker that never ends holds up
  the end of the runtime (1306). `~DebuggerRuntime` detaches only the thread states
  that are registered at that moment.
* REPL: after `:reset` Ctrl-C is not armed for the new runtime
  (`docs/LANGUAGE.md:2534`; `CtrlCIsTakenAlways` in Repl states it).
* Compiler: a script variable first assigned inside a block is not captured
  (`docs/LANGUAGE.md:1129`); a call-form method sees only its own class's class
  variables; an assignment to an argument is refused, which `docs/LANGUAGE.md:578`
  allows.
* Engine: a class-side method hides an inherited method of the instance side
  (`docs/LANGUAGE.md:821`); `ifTrue:` on a receiver that is no Boolean runs the block
  although the receiver has its own doesNotUnderstand:; a call-form send without
  arguments to a primitive passes the raw marker.
* Parser: an unindented first statement of a call-form method with named parameters
  ends the body (`Parser.cpp:925`, `docs/LANGUAGE.md:450`); the keywords of a cascaded
  message continue across a blank line (`Parser.cpp:200`, `docs/LANGUAGE.md:457`).

## 6. Not modelled, and the plan

Not modelled because there is nothing for a model to say: formatting and
printing, the disassembler, the command line, virtual environments, clocks, floating
point, the characters of the lexer, protocol framing and JSON, line editing, transfer
of bytes, and the sequential library in Smalltalk. The primitives on collections and
strings are sequential operations on protoCore's containers; only those that
compiled code relies on are in Engine. protoCore (objects, collector, attribute
compare-and-swap) is external; an attribute access is one step, and the collector
appears only as the question of what is rooted. `Atom` is a retry loop around one
compare-and-swap of protoCore. Literal arrays, inline caches, value attributes,
call-form sends to primitives and the exhaustion of slots are left out of the
program's way. Programs of `program` have no handlers: Exceptions has them, without
values. The future combinators of `lib/kernel/future.st` need engine and scheduler in
one model.

Out of TLC's reach: waits and imports together (a cycle through a future and an import
is seen by neither check).

Every invariant and action property of a passing run is proved, except the four of
`program`. What would come next: waits inside blocks of primitives with a walk that
looks at all stacks, should the code get one (`OneHelper` would go); and the language
of Program with handlers, which needs values in Exceptions.
