# Verification project for Lyric

Lyric is the build system, compiler and bytecode runtime of the Zuri project.
This directory holds TLA+ models of its core logic, the TLC configurations that
check them on small instances, and TLAPS proofs of what matters most for
instances of any size.

Two subsystems carry the state and the concurrency of Lyric and are modelled:
`lyric_build`, which computes a graph of tasks on worker threads over a cache
that outlives a build, and `lyric_runtime`, which runs bytecode on cooperative
tasks over an event loop. The passes between them (parser, compiler, assembler,
optimizer and so on) are sequential, keep no state between calls and are not
modelled (section 6).

## 1. Inventory

| Component | State it keeps | Operations | Hard behaviour | What makes it correct | Module |
|---|---|---|---|---|---|
| Build runner (`build_runner.cpp`) | ready queue and its key set, notification queue, blocked and waiting maps, threads, runner state | enqueueTask, waitForNextReady, parkDeps, restartDeps, joinThread, shutdown, run | worker threads against the libuv main loop; order of notifications; partial start; shutdown | no wanted task is lost; key set and maps stay consistent; every worker can stop; run() returns with nothing left over | BuildRunner |
| Runner worker (`internal/runner_worker_thread.cpp`) | the popped task, its lock | fetch, lock, rebroadcast, configure, checkDependencies, deduplicate, run, close | two workers on one task; errors at every step | one worker per task; a task runs once; trace before Completed | BuildRunner |
| Task (`base_task.cpp`) | state, owner, dependencies, hash | setState, requestDependency, markCompleted, run, store and load of artifacts | state read by other workers while it changes | outcomes are final and justified | BuildRunner, BuildGraph, ArtifactCache |
| Build state (`build_state.cpp`) | task table | getOrMakeTask, loadStates | loadStates is not atomic over tasks | stale states never lose a wake-up | BuildRunner |
| Builder (`lyric_builder.cpp`) | m_targets, m_running | computeTargets, onTaskNotification | callback on the main loop; state left by an early return | every call returns with every target resolved | LyricBuilder |
| Artifact cache (`memory_cache.cpp`, `filesystem_cache.cpp`) | artifacts, metadata, links, traces | declare, store, link, follow, trace | builds that overlap, end early, and start again | a trace leads to complete, final artifacts of its hash | ArtifactCache (memory cache) |
| System scheduler (`system_scheduler.cpp`, `task.cpp`, `promise.cpp`) | task rings, waiters, promises, async handles | create, suspend, resume, terminate, register, forward, await, poll | events against the interpreter; threads that signal; forwarding | a task is in one ring; each suspended task is resumed once, with its result; nothing starves | SystemScheduler, TaskRing, TaskQueues |
| Heap manager (`heap_manager.cpp`, `gc_heap.cpp`) | instances, marks, handles | allocate, collect, handles | references in many places, some of them not visited | only what cannot be reached is deleted | HeapManager |
| Interpreter (`bytecode_interpreter.cpp`, `subroutine_manager.cpp`, `stackful_coroutine.cpp`) | call stack, operand stack, guards | call, return, raise, initialise | interpreter loops nested in C++; exceptions through them | a nested loop ends with its call; calls do not touch each other's operands | Interpreter |
| Operands and numbers (`operand.cpp`, `internal/*_ops.cpp`) | 64-bit tagged words | pack, unpack, arithmetic, shifts, conversions | an encoding for each kind and size of number, limits, widths | what is packed is read back; widening loses nothing | Operands, NumericOps |
| Connections (`connection.cpp`, `port_multiplexer.cpp`) | message queues, open receives | send, receive, shutdown | sender in another thread | each message is received once | not modelled |
| Module cache (`lyric_importer/src/module_cache.cpp`) | modules by location | importModule | loader called under the lock | one module per location | not modelled |
| Optimizer, compiler, assembler, analyzer, symbolizer, typing, parser, rewriter, object format, bootstrap | trees, tables, serialised objects | passes | sequential, data-heavy | | not modelled |

How the parts of a build interact: `LyricBuilder::computeTargets` makes a
`BuildState` and a `BuildRunner`, enqueues the targets and calls `run()`.
`run()` creates the worker threads and becomes the libuv main loop. A worker
pops a task from the ready queue, locks it, and drives it through configuration,
deduplication (is there a trace of its hash in the cache?) and run, reading the
states of its dependencies from the build state and their artifacts from the
cache. It tells the main loop what happened by notifications. The main loop
parks a blocked task on its dependencies, restarts the tasks that wait for a
finished one, joins threads that ended, and passes notifications to the
builder's callback, which calls `shutdown()` when the last target has its
outcome.

How the parts of the runtime interact: one thread runs the loop of
`BytecodeInterpreter` on the current task of the `SystemScheduler`. Instructions
call into the subroutine manager (calls and returns), the segment manager
(statics and instances, which may enter the interpreter again) and the heap
manager. A trap may register a promise with an event source or another thread
and await it, which suspends the task. The loop polls libuv when the time slice
is over or when no task is ready; an event resumes the task that awaits it.

## 2. Plan

| Step | Modules | Status |
|---|---|---|
| The concurrent core of a build, its abstract specification and the refinement | BuildGraph, BuildRunner | done, safety proved |
| Any sequence of calls on one builder, over BuildGraph; one run of BuildRunner as a refinement of its part | LyricBuilder, BuildRunner | done, safety proved |
| The cache and the builds that share it | ArtifactCache | done, proved |
| The scheduler with its promises; the rings as a refinement of queues | SystemScheduler, TaskRing, TaskQueues | done, proved, the rings too |
| The collector | HeapManager | done, proved |
| Operands and numeric instructions | Operands, NumericOps | done, proved |
| Calls, exceptions and nested interpreter loops | Interpreter | done, proved |
| FilesystemCache as a second implementation of the cache | | left: it is not one (section 4) |
| Connections and ports | | left: their only callers are tests |
| Control-flow graph of the optimizer; type comparison | | left: pure algorithms, as functions against a reference |

Modules that are proved about have no RECURSIVE operator, take their parameters
as CONSTANTS with a named assumption, and have one action per operation. The
operators whose comment begins with "Mutant:" are not used by the models: each
is a variant of the definition next to it, with a plausible mistake that the
property of the same row of `PROJECT.json` ("mutants") must notice.

## 3. The models

### BuildGraph.tla

What a build promises, without threads, queues or notifications. State: the
outcome of every task, and whether the build ended. `Complete(t)` needs a set of
completed dependencies on top of which `t` requests nothing more; `Fail(t)` needs
a reason of the task's own or a failed task that it requested; `End` needs an
outcome for every target.

### BuildRunner.tla

| Variables | Code |
|---|---|
| `ready`, `queued` | `m_ready`, `m_queued` |
| `notifications` | `m_notifications` |
| `state`, `owner`, `reqs`, `done`, `hashed` | `BaseTask::m_state`, `m_owner`, `m_dependencies`, keys of `m_completed`, `m_hash` |
| `traces` | traces in the artifact cache |
| `pc`, `cur`, `scan` | control state of a worker in `runUntilCancelled`, the popped task, the local variables of `checkDependencies` |
| `handling`, `todo`, `pushes` | control state of the main loop: the notification in hand, what is left of the loops of `parkDeps` / `restartDeps`, what is left of the loop of `shutdown` |
| `blocked`, `waiting` | `m_blocked`, `m_waiting` |
| `targets` | `LyricBuilder::m_targets` |
| `runnerState`, `thread` | `m_runnerState`, `TaskThread::running` / `joined` |
| `runs`, `dropped`, `faults` | history, for properties and bounds only |

A step is what the code does between two points where another thread can
interfere. The reading of dependency states (`ReadDependency`) takes one
dependency at a time because `loadStates` takes each task's lock in turn.
Setting Running or Blocked is one step with the notification that announces it:
`loadStates` treats New, Running and Blocked alike, and the main loop ignores
these STATE_CHANGED notifications, so no other thread acts on the moment in
between. Outcomes are *not* merged with their notification: a dependent may see
a task Completed before the main loop hears of it.

The tasks are abstract. `Requests[t][D]` is what `configureTask` of `t` requests
when it has received `D`, `MayFail` the tasks whose configuration, hashing or
run may return an error. A failing configuration may have requested some of its
dependencies already, as `compile_object` and `analyze_outline` do when a later
import is invalid. `Registered` are the tasks whose domain the registry knows.
Bound: `MaxFaults`, the number of storage errors (`storeTrace`, `close`).
Everything else is finite because tasks get final outcomes. One generation is
modelled: `BuildState` is made anew by every `computeTargets`.

The instance (`MCBuildRunner.tla`): `a` (compile_object) requests `b`
(symbolize_linkage) and, having read it, `c` (parse_archetype); `b` requests `c`;
`c` requests nothing. So a task is parked twice, two tasks wait for one
dependency, a dependency is a target as well, and one is already complete when
it is requested.

### LyricBuilder.tla

A builder over any number of calls. `mTargets` and `mRunning` are `m_targets` and
`m_running`; `phase`, `targets`, `left` and `result` say where `computeTargets` is;
`wanted`, `outcome`, `announced`, `stopping` and `abandoned` are the part of one
call's `BuildRunner` that the builder can tell. A task decides by the actions
`Complete` and `Fail` of BuildGraph; `Request` is one visit of `parkDeps`, which
may also come when its task has failed meanwhile.

The two modules compose. `RunSpec` is the part of LyricBuilder that lies between
the call of `run()` and its return: it starts from `HandOver` and takes the steps
of the runner and `Return`. BuildRunner is shown to implement it (`ImplementsRun`,
the instance `Builder` of BuildRunner.tla): the tasks that were taken up are those
that are queued, at a worker or past New, `announced` are the targets crossed off,
the build is `stopping` when none is left, and it is `abandoned` when the last
thread is joined with targets left. That LyricBuilder enters `run()` in
`HandOver`, if its calls are neither empty nor mixed, is `RunsStartAfresh`. So
BuildRunner has one call in all its detail, LyricBuilder has all calls over what a
call does. `Abandon` stands
for builds whose workers all end on an error. The instance has three registered
tasks, one of which requests the others, and one that is not registered. The
number of calls does not enter the state and is not bounded.

### ArtifactCache.tla

| Variables | Code |
|---|---|
| `entries`, `content`, `traces` | `MemoryCache::m_metadata`, `m_content`, `m_traces` |
| `source` | the source files of the virtual filesystem, by version |
| `build`, `step` | the calls of `computeTargets` and how far each task is |
| `hash` | `BaseTask::m_hash` |
| `inputs`, `written` | what the running `runTask` has read and written so far |

Each method of the cache is one critical section and one step. Storing an
artifact takes three of them, `DeclareArtifact`, `StoreMetadata` and
`StoreContent`; reading one takes a trace, then metadata, then content; and any
step of another build may come between. A build can be abandoned at any point,
which stands for a process that dies as well as for a runner that ends with an
error, and the next build finds what it left. A digest, the record of what is
hashed, stands for the hash of a task and for the content it produces: so "the
artifact is the one that its hash promises" can be said. The kinds of task are
those of `internal/`: one that reads a source, one that reads the artifacts of
its dependencies and stores its own, and one that links them. Where
`EditsDuringBuild` is false, sources are edited between builds only.

The instance has two builds, a source with two versions, and three tasks in a
chain: parse, compile, group. Two builds are the smallest number that overlap;
a third would only repeat what the second sees.

### SystemScheduler.tla, TaskRing.tla, TaskQueues.tla

| Variables | Code |
|---|---|
| `taskState`, `current`, `monitor` | `Task::m_state`, `m_currentTask`, `Task::m_monitor` |
| `ready`, `wait`, `done` | `m_readyQueue`, `m_waitQueue`, `m_doneQueue` as sequences |
| `promiseState`, `target`, `dependencies` | `Promise::m_state`, `m_target`, `m_dependencies` |
| `kind`, `waiters`, `waiterTask`, `asyncPending` | `Waiter`, with its event source and task; `AsyncHandle::m_pending` |
| `fired`, `batch` | events that libuv has yet to deliver, and those this poll delivers |
| `phase` | where `BytecodeInterpreter::runSubinterpreter` is: running, polling |

Traps of the running task register a promise (`RegisterAsync`, `RegisterTimer`,
`RegisterRead`, `RegisterWrite`, `RegisterTarget`, `StartWorker`), forward it to a
target (`Forward`) or await it (`Await`). `Callback` is a libuv callback with
`Waiter::complete`, the accept callback, and the notification of the target.
`Slice` is the end of a time slice, `BlockingPoll` the poll without a ready task.
`ThreadSignal` is `AsyncHandle::sendSignal` from another thread. `Accepts` is what
the accept callback of a promise may do; those of the repository complete or
reject it.

`TaskQueues` says what three queues of tasks are; `TaskRing` has the intrusive
rings (`attach`, `detach` of `task.cpp`) in which a ring of one has null pointers
and one of two or more is circular, and is checked to implement it;
`SystemScheduler` is checked to use its queues as `TaskQueues` says. The tasks of
a ring are four, so that a task leaves from the head, the middle and the end of
a ring with others left. The scheduler has the main task and one worker, four
promises, each with a choice of event sources.

### HeapManager.tla

The places that hold references are `stack` and `frames` (the data stack and the
call frames of a task), `cells` (the statics, instances, enums, protocols and
namespaces of a `BytecodeSegment`), `promiseRefs` and `results` (what the operations
of a promise hold, and `Promise::m_result`), `handle` (a `RefHandle`) and `members`
(the fields of an instance). `live` and `freed` are the instances in the heap and
those that were deleted. `CollectGarbage` visits what `HeapManager::collectGarbage`
visits: the data stacks, the operations of promises that have a waiter, and the
handles, through rings of tasks and waiters whose shape depends on their length. It
visits *no call frame, no cell of a segment and no result of a promise*. It does
what the code does: it may delete (`status` stays "ok"), follow a null pointer
("crash") or not end ("loop").

So the collector does delete instances that a program can still reach: the run
HeapRoots calls it whenever it ends and finds one. Nothing in the repository calls
`collectGarbage`; when it runs is up to the embedding program. What can be shown is
what such a program may rely on, and where. `SafePoint` are the states in which a
collection ends (no ring of two tasks, not exactly one waiter, no cycle of fields)
and in which whatever a frame, a cell, a waiter or a result refers to is *also*
reached from a data stack or a handle. A program that collects there loses nothing
and keeps nothing (HeapCollect, with `AtSafePoints`); at any other point it can.

The instance has two objects, two tasks, two promises and a static, so that
collections happen with no waiter and with two of them, and with references in each
place the collector does not visit. The objects and the promises are
interchangeable: no action or property names one. The cell is a static, since a
cell of another kind differs only in that it is not assigned to (`Singletons` are
empty in HeapCollect, which halves the states; the theorems have both). There is
one handle: a second one makes the code follow a null pointer, and the model
crashes there. Bound: `MaxRefs` copies of the handle.

### Operands.tla, NumericOps.tla

`Operands` is the packing of `operand.cpp`: a word shifted with a tag and a sign
bit, a double rotated so that three bits of its exponent are the tag, an operand
for each of the two zeros, a full value next to a tag, or an instance on the heap. The widths of the
types are parameters, so that TLC can enumerate every value of narrow types and
TLAPS can prove the packing for all widths. `NumericOps` runs programs of numeric
instructions over a stack of two operands: literals (those of 64 bits packed by
`fromI64`, `fromU64` and `fromF64`, which refuse what has no operand), arithmetic, bitwise
operations, shifts, comparison, and conversions between all types. `values` is
what the instructions meant to leave there. A floating point result is a member
of a small set of representatives: some whole numbers, in both of the ranges of
exponents that are encoded, and NaN, the infinities, minus zero, a subnormal number
and two normal ones with exponents outside of those ranges. The instance has types of 2, 3, 5 and 6 bits, narrow enough to
load every value and wide enough for each encoding and for the limits between.

### Interpreter.tla

`calls` and `data` are the call stack and the operand stack of a
`StackfulCoroutine`, `guards` its guard stack, `natives` the active calls of
`runSubinterpreter` in C++, `cells` the statics and instances that may have to be
initialised by a call, `ip` the instruction pointer. `Variables` are the statics
that a program may assign to (STORE_STATIC, which the assembler emits for mutable
globals only); a store overwrites the cell at any time, also before it is
initialised, and then no initialiser runs, or during its initialiser, whose return
overwrites the stored value. So what an initialiser returns is only promised to
stay in the other statics. An operand carries which
call it belongs to and which proc it comes from. Instead of fixed bytecode, any
instruction that the compiler may emit at a point may come next: the bytecode is
well-formed, and otherwise arbitrary. Bounds: `MaxCalls`, `MaxOperands`, and
`MAX_INTERPRETER_RECURSION`, which is 128 in the code. With a depth of four calls
an initialiser runs within an initialiser, calls a function that raises, and is
itself called from a call.

## 4. The runs

| Run | Instance | Checks |
|---|---|---|
| RunnerBuilds | 2 workers, targets {a,b}, every task may fail, earlier traces for b, c, up to 2 storage errors | TypeOK; LockDiscipline; RunsOnce; EveryWorkerCanStop; QueuedMirrorsReady; ParkedBothWays; CompletedHasTrace; NoLostTask; CleanReturn; ImplementsGraph; ImplementsRun; BuildFinishes |
| RunnerLostWakeup | 2 workers, fair | *violation* of ForwardProgress |
| BuilderCalls | every non-empty set of registered targets, or the unregistered one alone | TargetsAnswered; WaitsForOwnTargets; CallReturns |
| BuilderStaleTargets | calls {a,x} and {b}, x not registered | *violation* of CallReturns |
| ArtifactBuilds | 2 builds that overlap or are abandoned, edits between builds | TypeOK; TracedIsComplete; TracedIsOfItsHash; PublishedIsImmutable; BuildCompletes |
| TaskRings | 4 tasks in three rings | RingsHoldTheirTasks; RefinesTaskQueues |
| Scheduler | main task and a worker, signals, a timer, file requests, targets | QueuesMatchStates; NoLostWakeup; UnfinishedPromiseHasWaiter; RingsAreSelfForwards; WorkerIsMonitored; ResumedWithResult; RefinesTaskQueues; ReadyTaskRuns; FiredEventResumes; TargetResolves |
| HeapCollect | 2 instances, 2 tasks, 2 promises, a static, a handle with up to 2 copies, collected at safe points | NoDanglingReference; CollectsAllGarbage; HandleKeepsInstance |
| HeapRoots | 2 instances, 2 tasks, 1 promise, a static and a singleton, collected anywhere | *violation* of DeletesUnreachable |
| Numbers | every integer of types of 2, 3, 5, 6 bits, representative doubles | RoundTrip; WideningIsLossless |
| InterpreterCalls | 6 procs in 2 segments, a static, a variable, an instance, an exception | GuardsAreEntries; OperandsBelongToCalls; CellsHoldTheirResult |
| InterpreterHandlers | the same | *violation* of HandlerCoversCall |

Why the bounds are enough: two workers are needed for every race on one task,
and three tasks give a chain, a diamond edge and a dependency discovered late. Two
storage errors can end both workers, which is the runner that gives up. A race of
three workers (one that parked a task, one that finishes its dependency, a third that
takes the task up) is left to the theorems: all that RunnerBuilds checks but
BuildFinishes is proved for any number of workers. The bounds of the other models
are argued with the models.

Fairness. BuildRunner: every worker is an operating system thread whose wait has
a timeout, so its next step is eventually taken (`WF(WorkerStep(w))`);
`uv_async_send` wakes the main loop whenever a notification is queued, so the
main loop runs (`WF(MainStep)`). LyricBuilder: `computeTargets` goes on by itself,
and each task that the runner took up requests, decides and is announced, which
is what BuildFinishes shows of the runner, as long as no storage error ends a
worker, every task is registered and none is dropped (the lost wake-up below);
nobody has to make a call, and workers never have to give up. ArtifactCache: the steps of a
build that is not abandoned are taken; no build has to start, to end early, and
no source has to change. SystemScheduler: the interpreter thread runs, so its
slices end (`WF(Slice)`), it selects tasks and polls, and libuv delivers each
event that has fired (`WF(Callback(p))`, `WF(EndPoll)`); no task has to trap, and
no thread has to signal. Nothing is assumed between the alternatives of one
thread. HeapManager, Interpreter and NumericOps state no liveness.

Deadlock is checked in the BuildRunner, LyricBuilder, ArtifactCache and TaskRing
runs. The other systems stop: the program halts, the collector may not return, a
numeric instruction fails, the interpreter reports an error.

### What disagrees with the code's own words

Shown by a run:

* **Lost wake-up** (RunnerLostWakeup). A worker enqueues TASK_BLOCKED while it
  still holds the task's lock. If all dependencies have completed meanwhile, the
  main loop parks and restarts the task at once; another worker pops it, finds it
  locked and forgets it. Nobody will queue it again. `parkDeps` says "if all
  dependencies are in fact completed we will still make forward progress".
* **Stale targets** (BuilderStaleTargets). When `enqueueTask` refuses a target,
  `computeTargets` returns with the earlier ones still in `m_targets`. The next
  call on the builder waits for a target nobody computes.
* **Reachable instances are deleted** (HeapRoots). `collectGarbage` visits neither
  call frames nor the cells of segments nor the results of promises
  (`heap_manager.cpp:354`), and deletes an instance that only one of these refers to:
  an argument, a local, a global, the result of a promise. It says "delete all
  unreachable instances".
* **Wrong handler** (InterpreterHandlers). `raise_exception` compares the
  exception checks of *every* caller with the offset of the raise in the proc
  that raised, not with the caller's own return offset
  (`internal/raise_exception.cpp:57`): a handler that does not enclose the call
  runs, one that does is passed over.

Met while modelling. The models contain these behaviours (or exclude them by a
parameter that is named here), and no run is kept for them:

* Build runner. A dependency that is not registered is only logged by `parkDeps`,
  so its dependents wait for ever (`Registered`). An error of `storeTrace` ends
  the worker with its task Running, and nothing fails the task (`MaxFaults`).
  `joinThread` counts a thread that was never created as not joined, so a
  partially started runner never stops (`MayNotStart`). A task that fails to
  configure with dependencies outstanding is checked again; its second state
  change is refused and the worker ends, and `run()` may return with a target
  that has no outcome, when no other worker is left (ImplementsRun maps this to
  `Abandon`; RunnerBuilds has such tasks). A call without targets has
  no notification, and so no `shutdown()` (`Calls` of LyricBuilder).
* Artifact cache. A source that is edited between `fetch_external_file_task.cpp:79`,
  where it is hashed, and `:90`, where it is read, is stored under the hash of the
  old text, and later builds of the old text get the new one: with
  `EditsDuringBuild` TLC finds TracedIsOfItsHash violated. The hash takes the
  domain and id of a key but not its parameters (`task_hasher.cpp:10`).
* Scheduler. `Promise::forward` does not refuse to forward a target to itself: it
  then depends on itself, and the marking of `Promise::setReachable`
  (`promise.cpp:192`) does not end (RingsAreSelfForwards: no other ring of
  dependencies can arise). `allOf` finishes when the dependencies forwarded *so far* have
  finished, and one forwarded later is ignored. The default accept callback
  leaves a promise Pending whose waiter has been destroyed; awaiting it follows a
  dangling pointer (the instance uses callbacks that finish their promise, like
  those of the repository).
* Heap. The operands of a `RestRef` are not marked (`rest_ref.cpp:99`). A ring of two tasks is walked without
  end, since the loop waits for a null pointer; with one waiter its null link is
  followed; with more, the last is not marked. Instances that refer to each other
  are marked without end. A second handle is linked through a null pointer
  (`gc_heap.cpp:64`); the model has one handle, so nothing is said of two.
* Operands. The magnitudes 2^28 (32-bit) and 2^59 (64-bit) pass for small and read
  back as zero (`operand.cpp:1028`; the round trips of `operand_tests.cpp:143` use
  values away from these limits). A literal of OP_I64 or OP_U64 that is too
  large is not pushed, nor one of OP_F64 that is a NaN, an infinity, subnormal, below
  2^-255 or from 2^257 up, and the instruction does not notice
  (`bytecode_interpreter.cpp:178`). No conversion instruction ends in a break
  (`bytecode_interpreter.cpp:702`): each runs all the conversions after it, and then
  fails. A negative integer converts to minus infinity: it is compared with the
  least *positive* double (`convert_ops.cpp:113`). `hashEquality` mixes in bytes of
  the operand that were never written (`operand.cpp:1375`).
* Interpreter. The frame of a constructor returns a value whatever the
  constructor is declared as (`internal/construct_new.cpp:135`), so an operand left
  over by it ends above the instance. A static whose initialiser loads it is
  initialised again within, up to the recursion limit. An exception that unwinds
  past a guard ends the program with "stack invariant violation".
* Filesystem cache. Opening an existing root is refused, because
  `create_directories` returns false for it; that masks that the interprocess
  mutex is placed anew in the shared mapping (`filesystem_cache.cpp:111`).
  `linkArtifactOverridingMetadata` writes the original metadata instead of the
  override. Following links builds the metadata from its text rather than by
  parsing it. Errors of writing a link are dropped. `listArtifacts` is empty.
* Connection. A message that arrives before a receive goes to a queue that
  `startReceive` never looks at, and `shutdown` takes a mutex that its caller
  already holds.

## 5. The proofs

Everything here holds for every value of the constants that satisfies the named
assumptions: finite sets of tasks and threads, registered targets, requests that
are sets of tasks (`ConstantsAssumption`); widths of types as powers of two
suggest (`ValuesAssumption`, `WidthsAssumption`, `DigitsAssumption`); dependencies and outputs as functions
(`GraphAssumption`); values for "no task", "no promise" or a null pointer that are
none, and a main task (`NoneAssumption`, `TaskAssumption`, `NullAssumption` and their like).

`BuildRunnerProofs.tla`:

* `TypeCorrect`: `TypeOK`, by the strengthening `TypeInv`, which adds that a
  worker that holds or is about to lock a task has popped one.
* `OneWorkerPerTask`: `LockDiscipline` is inductive on top of `TypeInv`.
* `WorkerFootprint` (lemma): a worker's step changes only its own control state
  and the task whose lock it holds. With `Exclusion` (two holders hold different
  tasks) this reduces every later proof to the worker that takes the step.
* `TraceBeforeCompleted`, `TasksRunOnce`: from `RunInv`. A task without an
  outcome that no worker has just run has run at most once per storage error
  (`Rerun`); a worker past the configuration works on a task without an outcome;
  before `complete` the trace is stored.
* `RunnerImplementsGraph`: the refinement, from `Justified` (received
  dependencies are complete, requested ones were requested on top of received
  ones, scans stay true because outcomes are final, a task with a hash is never
  configured again) and `Resolved` (announced outcomes are outcomes; targets
  crossed off have one). That a failing second run is justified only after a
  storage error needs `Fresh`, hence the lock and the run count.

What the main loop keeps in order, in the same module:

`QueueAndSetAgree` (the queue changes by a pop, a
push of a key that is not in the set, or a push of a SHUTDOWN item) and
`ParkMapsAgree`, from `ParkInv`, which adds that the main loop has keys to visit
only while it handles a notification about a task.

`NothingLeftBehind`, from `JoinInv`: the ends
announced and not handled are those of threads that are gone and not joined, one
for each, and when all threads are gone the last notification is such an end. So
when every thread is joined the queue is empty. `ItemForEveryWorker`, from
`StopInv`: `shutdown()` pushes only once, and a worker that takes an item leaves
its loop.

`WakeUpsKept`. Its strengthening `WakeInv` does not
count a worker that has announced its task already (`Busy`), so that the
announcement has to carry the responsibility, and adds that a blocked task is
reported with at least one dependency, and that while an outcome is in the main
loop's hands nobody waits for its task. `PassesOn` says of every worker step that
it announces its task before it lets go of it, unless it drops the task or meets
a storage error.

`ParkMapsAgree`, `ItemForEveryWorker` and `WakeUpsKept` use
`NoMessageAssumption`: the value that stands for "no notification in hand" is not
a notification.

`RunnerImplementsRun`, from the invariants above and two more. `TakenUp`: only what
the registry knows is queued, a worker past `begin` has a started task and one
between two tasks has none, only started tasks are parked, and every dependency
a TASK_BLOCKED notification names was requested on top of completed ones. `Over`:
once the last thread is joined the main loop has only that join in hand. The key
lemma is `KnownKept`: no step of a worker makes a task known or forgets one,
because a dropped task is with the worker that holds its lock.

`LyricBuilderProofs.tla`: `TypesKept`; `AllTargetsAnswered`, from `Awaited` (each
target of the call is in `m_targets` until it has its outcome); `OwnTargetsOnly` for a
caller that makes no empty call and mixes no registered with unregistered
targets (`CleanUse`), from `NoLeftovers` (m_targets is empty between calls, and
what the loop has enqueued is what it waits for); `RunsStartAfresh` from the same
invariant. With `RunnerImplementsRun` this closes the chain from a call of
`computeTargets` to the threads. The run BuilderStaleTargets drops one half of
`CleanUse`.

`ArtifactCacheProofs.tla`, for any number of builds and tasks:

* `CacheInvariant`: the inductive invariant `IInv`. Its heart is `OneWriter`: of
  two tasks of one build with the same hash only one can have begun an artifact,
  because `declareArtifact` and `linkArtifact` refuse an id that exists, and the id
  holds the generation; and `Traced`: a trace stands for a *completed* task of the
  generation it names, with all its artifacts stored. `Traced` is not inductive
  without `OneWriter`, since another task could otherwise still be writing to them.
* `CacheTypeOK`: `TypeOK`; every link leads to an entry, content belongs to files.
* `TracedStored`: what is behind a trace is declared, and a file has its content.
* `TracedComplete`: `TracedIsComplete`. `Target`, what a chain of links leads to,
  is a recursive function over the entries, and that a function satisfies its
  equation is a fact about every cache. It is carried as an invariant (`HasTarget`,
  `HasBearer`): a new entry links to one that is there, so the function of the old
  entries extends to the new. With `LinksEnd` and `StoredWell` (what a task begins
  to link is behind the trace of its dependency) every chain ends at content.
* `TracedAsHashed`: `TracedIsOfItsHash`, under two hypotheses. `SourcesAtRest`: no
  source changes while a build runs. `LinksToFiles`: no task depends on a task that
  links, because what a link leads to has the hash of the file, not that of the
  linker, and the hash of a task that reads it has the latter. The run
  ArtifactBuilds satisfies both. The invariants are that a hash determines the
  hashes of the dependencies (`HashOfDeps`), that what a task has located is behind
  their traces (`Located`), and that content and links agree with the hash from the
  moment they are written (`AsHashed`).
* `PublishedImmutable`: `PublishedIsImmutable`. A write can only reach an artifact
  that its task has begun and not finished (`StoredIsKept`).

Steps that leave the cache and the artifacts alone are treated once
(`QuietKeeps`), and so are the four kinds of write (`WriteKeeps`).

`HeapManagerProofs.tla`, for any instances, tasks and promises:

* `HandlesProtect`: `HandleKeepsInstance`, wherever the collector is called.
* `NoReferenceDangles` and `CollectionIsExact`: `NoDanglingReference` and
  `CollectsAllGarbage`, for `AtSafePoints`. That hypothesis is a condition on the
  program that embeds the machine: whenever it calls the collector, what frames,
  cells, waiters and results of promises refer to is reached from a data stack or a
  handle too. HeapRoots shows a reachable instance deleted without it. The invariant `HeapInv`
  says that all references, those in cells and results included, lead to instances
  that are in the heap (`Closed`), and that only tasks in a ring have references on
  their stacks (`Owners`). At a safe point what marking reaches is what all the
  references lead to (`SafeMarks`); `MarkedIsLeastClosed` says what marking computes.

`SystemSchedulerProofs.tla`, for any numbers of tasks and promises:

* `QueuesAgree`, `WorkersAreMonitored`, `NoRingOfTwoTargets`: the three are inductive
  together, with `Typed`, `NotLoaded` (before the program starts nothing waits),
  `SignalledOnce` and `ForwardedOnce` (a promise gets its targets only once, before
  anything depends on it), and `Monitors` (a worker is the monitor of one promise).
  This invariant, `QInv`, needs no assumption about the program.
* `QueuesImplemented`: the refinement of TaskQueues. A task that changes queue goes
  to the end of the other one; `QueuesAgree` says that it was where the abstract
  step takes it from.
* `WakeUpsAreHeld`, `WaitersLive` and `ResumesWithResult`, from `WInv`, which adds
  that a suspended task is held by a live waiter (`HeldWhileWaiting`). They hold when
  accept callbacks finish their promise (`AcceptsFinish`), as all callbacks of the
  repository do; the default of `Promise::create` (`promise.cpp:71`) does not, and
  a promise with it may be left without a waiter and without a result.

`TaskRingProofs.tla`, for any number of tasks:

* `RingsAreWhole`: `RingsHoldTheirTasks`. The invariant gives each queue a sequence
  of its tasks, without repetition, that the pointers run through (`RingOf`). The
  lemmas on `Attach` and `Detach` are local: they say what becomes of that sequence
  and that the pointers of other queues are not touched (`OtherRing`).
* `RingsImplementQueues`: the refinement of TaskQueues. The sequence is the only one
  the pointers run through (`OneOrder`, by the least position at which two such
  sequences differ), so that the refinement mapping, which chooses one, is that
  sequence; and it changes as the abstract queue does.

`InterpreterProofs.tla`, for any program, any depth of calls and of recursion:

* `LoopsEndWithTheirCalls`, `OperandsStayApart`, `InitializersSetTheirCells`, all
  from one invariant. `Balanced` says of the two stacks that the guard of a call
  parts its own operands from those of the calls below, so that guards rise with the
  stack; it is a predicate of any pair of stacks, since a raise takes them through
  several returns in one step (`ReturnBalanced`, `UnwoundKeeps`). `Entered` says which
  call each active loop was entered for, that a static's initializer returns a value,
  and that below the guard of an instance's there is an operand of the caller: the
  object that the load takes and pushes again.
* Neither `Entered` nor `GuardsAreEntries` holds in every state: a raise takes away
  calls and leaves their guards. It holds where `CheckGuard` lets an instruction run,
  and as no guard is lower than those before it, this check of one guard covers all.
* The unwinding of `Raise` is a recursive function over the calls. That it exists, and
  what holds at its end, is an induction, done with the least number for which the
  claim would fail (`UnwindingExists`, `LeastNumber`).

`InterpreterAssumption` says that a proc is either a function or a constructor, that
variables are statics, and that checks are records of offsets.

`OperandProofs.tla`, for types of any widths that are powers of two:

* `OperandKeepsInteger`: every integer of every type is read back from its operand with
  its type and its value, but for the two limits, which are read as zero.
* `BitsAreNumbers`: a number is the sum of the powers of two of its bits and the bits
  of such a sum are those it was made of, so that the model of `&`, `|` and `^` is
  what they are. Sums and powers are recursive functions over an interval; that such a
  function exists (`RecursionExists`) and what holds of all its values
  (`IntervalInduction`) goes by the least number for which it would fail.
* `OperandsHoldTheirValues`: `RoundTrip`, from `NInv`: every operand is an encoding of
  the value noted for it, and this value is one of its type. A double has up to two,
  since a literal is packed by `fromF64` and a result by `value_to_operand`
  (`Encodings`, `DoubleKept`). `NInv` holds because every
  instruction yields such values or an error (the lemmas that end in `Outcome`), also
  through the chain of conversions that one falls through to.
* `WideningLosesNothing`: `WideningIsLossless`, which follows from `RoundTrip` in any
  state at all (`WideningKeepsInteger`). A cast is the value of the type that differs by a
  multiple of the width (`CastIs`, `CastValue`), and a width is a multiple of each
  narrower one, so the cast back undoes it (`CastBack`).

Only model-checked:

* liveness (BuildFinishes, ForwardProgress, CallReturns, BuildCompletes,
  ReadyTaskRuns, FiredEventResumes, TargetResolves): fairness and ENABLED are out
  of the prover's reach.

The invariants were checked by TLC on the instances above before they were proved.

## 6. Not modelled

* `FilesystemCache`: what it writes is not what it reads (section 4), so it
  implements no cache that a property could be about.
* `Connection` and the port multiplexer: nothing in the repository but tests
  calls them, so the program they run in cannot be translated from it.
* The module cache: one map under one lock, held over a loader that does not call
  back. The rest of the importer is immutable views.
* Parser, compiler, assembler, analyzer, symbolizer, typing, rewriter, object
  format, optimizer, bootstrap: large sequential passes over trees and tables,
  without concurrency, persistence or retries. They are most of the lines of the
  repository. Unit tests reach them, and a model would transliterate them.
  The optimizer's control-flow graph and type comparison are the two that could
  be stated as functions against a reference definition.
* Settings, the metadata format, temporary directories, tracing spans,
  statistics, `configure()`; cycles of tasks: the task kinds are layered, so no
  build makes one.
* Of the interpreter: branches and closures (a branch is any next instruction in
  the model), virtual and interface dispatch, types and descriptors. Of the
  scheduler: its destructor and errors of libuv when a request is scheduled. Of
  the heap: finalizers.
