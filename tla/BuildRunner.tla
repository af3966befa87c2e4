---------------------------- MODULE BuildRunner ----------------------------
(***************************************************************************)
(* The build runner of lib/lyric_build: a pool of worker threads that      *)
(* compute tasks, a main loop that parks tasks on their dependencies and   *)
(* restarts them, and the two queues between them.                         *)
(*                                                                         *)
(*   ready          main loop -> workers: tasks to look at, SHUTDOWN items *)
(*   notifications  workers -> main loop: state changes, blocked tasks,    *)
(*                  threads that ended                                     *)
(*                                                                         *)
(* A step is what the code does between two points where another thread    *)
(* can interfere: one lock acquisition, one enqueue, one call into a task  *)
(* or into the artifact cache.  Setting Running or Blocked is one step with *)
(* the notifications that follow it: loadStates treats New, Running and    *)
(* Blocked alike, so no other thread acts on these states, and the main    *)
(* loop ignores their STATE_CHANGED notifications.  The builder's callback *)
(* (LyricBuilder::onTaskNotification) runs in the main loop and is the     *)
(* only caller of shutdown().                                              *)
(***************************************************************************)
EXTENDS Naturals, Sequences, FiniteSets

CONSTANTS
    Tasks,        \* task keys
    Threads,      \* indices of the worker threads
    Targets,      \* the tasks passed to computeTargets
    Requests,     \* Requests[t][D]: what configureTask of t requests given D
    Registered,   \* tasks whose domain is in the task registry
    MayFail,      \* tasks whose configure, deduplicate or run may fail
    Cached,       \* tasks for which an earlier build may have left a trace
    MayNotStart,  \* threads whose uv_thread_create may fail
    MaxFaults,    \* bound on storage errors (storeTrace, close)
    NoTask, NoThread, SHUTDOWN, NoMessage

ASSUME ConstantsAssumption ==
    /\ IsFiniteSet(Tasks) /\ IsFiniteSet(Threads)
    /\ Threads # {} /\ Targets # {}
    /\ Targets \subseteq Tasks /\ Targets \subseteq Registered
    /\ Registered \subseteq Tasks
    /\ Requests \in [Tasks -> [SUBSET Tasks -> SUBSET Tasks]]
    /\ MayFail \subseteq Tasks /\ Cached \subseteq Tasks
    /\ MayNotStart \subseteq Threads
    /\ MaxFaults \in Nat
    /\ NoTask \notin Tasks /\ NoThread \notin Threads /\ SHUTDOWN \notin Tasks

VARIABLES
    \* shared queues
    ready,          \* m_ready: FIFO of task keys and SHUTDOWN items
    queued,         \* m_queued: the task keys that are in m_ready
    notifications,  \* m_notifications: FIFO of notification records
    \* tasks
    state,          \* BaseTask::m_state (a task not made yet counts as New)
    owner,          \* BaseTask::m_owner
    reqs,           \* BaseTask::m_dependencies
    done,           \* keys of BaseTask::m_completed
    hashed,         \* tasks whose m_hash is set
    traces,         \* tasks whose trace is in the artifact cache
    \* worker threads
    pc,             \* where each worker is in runUntilCancelled
    cur,            \* the task each worker popped
    scan,           \* what checkDependencies has read so far
    \* main loop
    handling,       \* the notification being handled, or NoMessage
    todo,           \* keys the handler has yet to enqueue
    pushes,         \* SHUTDOWN items shutdown() has yet to push
    blocked,        \* m_blocked
    waiting,        \* m_waiting: waiting[d] = {} when d is not a key
    targets,        \* LyricBuilder::m_targets
    runnerState,    \* m_runnerState
    thread,         \* TaskThread::running and ::joined
    \* history
    runs,           \* how often BaseTask::runTask was called
    dropped,        \* tasks that were popped while another worker held their lock
    faults          \* storage errors so far

queueVars == <<ready, queued>>
taskVars == <<state, owner, reqs, done, hashed, traces>>
workerVars == <<pc, cur, scan>>
mainVars == <<handling, todo, pushes, blocked, waiting, targets, runnerState,
              thread>>
historyVars == <<runs, dropped, faults>>

vars == <<queueVars, notifications, taskVars, workerVars, mainVars, historyVars>>

-----------------------------------------------------------------------------

TaskStates == {"New", "Running", "Blocked", "Completed", "Failed"}
Terminal == {"Completed", "Failed"}

StateChanged(t, s) == [type |-> "STATE_CHANGED", key |-> t, state |-> s]
TaskBlocked(t, D) == [type |-> "TASK_BLOCKED", key |-> t, deps |-> D]
ThreadCancelled(w) == [type |-> "THREAD_CANCELLED", index |-> w]

Notifications ==
    [type : {"STATE_CHANGED"}, key : Tasks, state : TaskStates]
        \cup [type : {"TASK_BLOCKED"}, key : Tasks, deps : SUBSET Tasks]
        \cup [type : {"THREAD_CANCELLED"}, index : Threads]

ASSUME NoMessageAssumption == NoMessage \notin Notifications

\* Where a worker holds the lock of the task it popped.
Holding == {"begin", "check", "configure", "deduplicate", "run", "store",
            "complete", "notify", "close", "release", "error"}
WorkerPCs == Holding \cup {"fetch", "lock", "exit", "gone", "unstarted"}

\* A scan of the dependencies U: those seen Completed and those seen Failed.
Scan(U, C, F) == [unread |-> U, completed |-> C, failed |-> F]
EmptyScan == Scan({}, {}, {})

Notify(n) == notifications' = Append(notifications, n)
GoTo(w, l) == pc' = [pc EXCEPT ![w] = l]
SetState(t, s) == state' = [state EXCEPT ![t] = s]

\* Mutant: the queued set is not consulted.
EnqueueTaskAgain(t) ==
    IF t \in Registered
    THEN /\ ready' = Append(ready, t)
         /\ queued' = queued \cup {t}
    ELSE UNCHANGED queueVars

\* BuildRunner::enqueueTask: fails for an unregistered domain, ignores a key
\* that is already queued.
EnqueueTask(t) ==
    IF t \in Registered /\ t \notin queued
    THEN /\ ready' = Append(ready, t)
         /\ queued' = queued \cup {t}
    ELSE UNCHANGED queueVars

-----------------------------------------------------------------------------

\* computeTargets has enqueued every target; run() has created the threads it
\* could create, at least one.
Init ==
    /\ ready \in {q \in [1 .. Cardinality(Targets) -> Targets] :
                      \A t \in Targets : \E i \in DOMAIN q :
                          \A j \in DOMAIN q : q[j] = t <=> j = i}
    /\ queued = Targets
    /\ notifications = <<>>
    /\ state = [t \in Tasks |-> "New"]
    /\ owner = [t \in Tasks |-> NoThread]
    /\ reqs = [t \in Tasks |-> {}]
    /\ done = [t \in Tasks |-> {}]
    /\ hashed = {}
    /\ traces \in SUBSET Cached
    /\ thread \in {f \in [Threads -> {"running", "unstarted"}] :
                      /\ \E w \in Threads : f[w] = "running"
                      /\ \A w \in Threads \ MayNotStart : f[w] = "running"}
    /\ pc = [w \in Threads |->
                IF thread[w] = "running" THEN "fetch" ELSE "unstarted"]
    /\ cur = [w \in Threads |-> NoTask]
    /\ scan = [w \in Threads |-> EmptyScan]
    /\ handling = NoMessage
    /\ todo = {}
    /\ pushes = 0
    /\ blocked = [t \in Tasks |-> {}]
    /\ waiting = [t \in Tasks |-> {}]
    /\ targets = Targets
    /\ runnerState = "Running"
    /\ runs = [t \in Tasks |-> 0]
    /\ dropped = {}
    /\ faults = 0

-----------------------------------------------------------------------------
(* Worker threads, RunnerWorker::runUntilCancelled.  A group of actions    *)
(* names what all of them leave alone once, at the end of the group.       *)

\* waitForNextReady returns an item.
DequeueTask(w) ==
    /\ pc[w] = "fetch"
    /\ ready # <<>> /\ Head(ready) # SHUTDOWN
    /\ cur' = [cur EXCEPT ![w] = Head(ready)]
    /\ ready' = Tail(ready)
    /\ queued' = queued \ {Head(ready)}
    /\ GoTo(w, "lock")
    /\ UNCHANGED <<owner, dropped>>

DequeueShutdown(w) ==
    /\ pc[w] = "fetch"
    /\ ready # <<>> /\ Head(ready) = SHUTDOWN
    /\ ready' = Tail(ready)
    /\ GoTo(w, "exit")
    /\ UNCHANGED <<queued, cur, owner, dropped>>

\* waitForNextReady times out on an empty queue and is called again.
Timeout(w) ==
    /\ pc[w] = "fetch"
    /\ ready = <<>>
    /\ UNCHANGED <<queueVars, pc, cur, owner, dropped>>

\* Mutant: the owner is not looked at.
UnlockedAlways(t) == t \in Tasks

Unlocked(t) == owner[t] = NoThread

\* TaskLocker takes the task.
LockTask(w) ==
    /\ pc[w] = "lock"
    /\ Unlocked(cur[w])
    /\ owner' = [owner EXCEPT ![cur[w]] = w]
    /\ GoTo(w, "begin")
    /\ UNCHANGED <<queueVars, cur, dropped>>

\* Another worker holds the task: the popped item is forgotten.
DropTask(w) ==
    /\ pc[w] = "lock"
    /\ ~ Unlocked(cur[w])
    /\ dropped' = dropped \cup {cur[w]}
    /\ cur' = [cur EXCEPT ![w] = NoTask]
    /\ GoTo(w, "fetch")
    /\ UNCHANGED <<queueVars, owner>>

FetchStep(w) ==
    /\ \/ DequeueTask(w) \/ DequeueShutdown(w) \/ Timeout(w)
       \/ LockTask(w) \/ DropTask(w)
    /\ UNCHANGED <<notifications, state, reqs, done, hashed, traces, scan, runs,
                   faults>>

\* The top of the configuration loop: with dependencies outstanding their
\* states are loaded, otherwise the task is configured.
EnterLoop(w, D) ==
    /\ GoTo(w, IF D # {} THEN "check" ELSE "configure")
    /\ scan' = [scan EXCEPT ![w] = Scan(D, {}, {})]

\* The task already has its outcome: broadcast it again.
Rebroadcast(w) ==
    /\ pc[w] = "begin"
    /\ state[cur[w]] \in Terminal
    /\ Notify(StateChanged(cur[w], state[cur[w]]))
    /\ GoTo(w, "release")
    /\ UNCHANGED <<state, scan>>

BeginTask(w) ==
    LET t == cur[w] IN
    /\ pc[w] = "begin"
    /\ state[t] \notin Terminal
    /\ SetState(t, "Running")
    /\ Notify(StateChanged(t, "Running"))
    /\ IF t \in hashed
       THEN GoTo(w, "run") /\ UNCHANGED scan
       ELSE EnterLoop(w, reqs[t])

BeginStep(w) ==
    /\ Rebroadcast(w) \/ BeginTask(w)
    /\ UNCHANGED <<queueVars, owner, reqs, done, hashed, traces, cur,
                   historyVars>>

\* loadStates reads the dependencies one after the other, each under its own
\* lock, while other workers go on.
ReadDependency(w, d) ==
    /\ pc[w] = "check"
    /\ d \in scan[w].unread
    /\ scan' = [scan EXCEPT ![w] = Scan(
                  @.unread \ {d},
                  IF state[d] = "Completed" THEN @.completed \cup {d}
                                            ELSE @.completed,
                  IF state[d] = "Failed" THEN @.failed \cup {d} ELSE @.failed)]
    /\ UNCHANGED <<notifications, state, reqs, done, pc>>

\* Mutant: every requested dependency counts as received.
MarkAllCompleted(w) ==
    /\ pc[w] = "check"
    /\ scan[w].unread = {}
    /\ reqs' = [reqs EXCEPT ![cur[w]] = {}]
    /\ done' = [done EXCEPT ![cur[w]] = @ \cup reqs[cur[w]]]
    /\ scan' = [scan EXCEPT ![w] = EmptyScan]

\* checkDependencies once every state is loaded.  The completed ones move to
\* m_completed first, whatever follows.
MarkCompleted(w) ==
    /\ pc[w] = "check"
    /\ scan[w].unread = {}
    /\ reqs' = [reqs EXCEPT ![cur[w]] = @ \ scan[w].completed]
    /\ done' = [done EXCEPT ![cur[w]] = @ \cup scan[w].completed]
    /\ scan' = [scan EXCEPT ![w] = EmptyScan]

Pending(w) == reqs[cur[w]] \ (scan[w].completed \cup scan[w].failed)

\* A dependency failed: so does the task.
FailOnDependency(w) ==
    /\ MarkCompleted(w)
    /\ scan[w].failed # {}
    /\ state[cur[w]] \notin Terminal
    /\ SetState(cur[w], "Failed")
    /\ GoTo(w, "notify")
    /\ UNCHANGED notifications

\* A dependency is outstanding: the main loop is asked to park the task on
\* everything it was waiting for when the scan began.
BlockOnDependencies(w) ==
    LET t == cur[w] IN
    /\ MarkCompleted(w)
    /\ scan[w].failed = {} /\ Pending(w) # {}
    /\ state[t] \notin Terminal
    /\ SetState(t, "Blocked")
    /\ notifications' = notifications
                          \o <<StateChanged(t, "Blocked"), TaskBlocked(t, reqs[t])>>
    /\ GoTo(w, "release")

\* The task already failed to configure: setState refuses a second outcome and
\* the error ends the worker.
RefuseState(w) ==
    /\ MarkCompleted(w)
    /\ scan[w].failed # {} \/ Pending(w) # {}
    /\ state[cur[w]] \in Terminal
    /\ GoTo(w, "error")
    /\ UNCHANGED <<notifications, state>>

\* Every dependency is complete: configure again, or move on if the task
\* already has an outcome.
DependenciesComplete(w) ==
    /\ MarkCompleted(w)
    /\ scan[w].failed = {} /\ Pending(w) = {}
    /\ GoTo(w, IF state[cur[w]] \in Terminal THEN "release" ELSE "configure")
    /\ UNCHANGED <<notifications, state>>

CheckStep(w) ==
    /\ \/ \E d \in Tasks : ReadDependency(w, d)
       \/ FailOnDependency(w) \/ BlockOnDependencies(w)
       \/ RefuseState(w) \/ DependenciesComplete(w)
    /\ UNCHANGED <<queueVars, owner, hashed, traces, cur, historyVars>>

\* BaseTask::configureTask requests dependencies (requestDependency ignores
\* those already received); without any the task can be hashed.
Configure(w) ==
    LET t == cur[w]
        D == reqs[t] \cup (Requests[t][done[t]] \ done[t])
    IN
    /\ pc[w] = "configure"
    /\ reqs' = [reqs EXCEPT ![t] = D]
    /\ IF D = {}
       THEN GoTo(w, "deduplicate") /\ UNCHANGED scan
       ELSE EnterLoop(w, D)
    /\ UNCHANGED <<state, hashed, traces, runs>>

\* configureTask returns an error, possibly after it requested some
\* dependencies.  The unread part of the scan remembers them: the loop will
\* look at them although the task has failed.
FailConfigure(w) ==
    LET t == cur[w] IN
    /\ pc[w] = "configure"
    /\ t \in MayFail
    /\ \E R \in SUBSET (Requests[t][done[t]] \ done[t]) :
         /\ reqs' = [reqs EXCEPT ![t] = @ \cup R]
         /\ scan' = [scan EXCEPT ![w] = Scan(reqs[t] \cup R, {}, {})]
    /\ SetState(t, "Failed")
    /\ GoTo(w, "notify")
    /\ UNCHANGED <<hashed, traces, runs>>

\* deduplicateTask computes the hash; a trace for it completes the task.
Deduplicate(w) ==
    LET t == cur[w] IN
    /\ pc[w] = "deduplicate"
    /\ hashed' = hashed \cup {t}
    /\ IF t \in traces
       THEN SetState(t, "Completed") /\ GoTo(w, "notify")
       ELSE UNCHANGED state /\ GoTo(w, "run")
    /\ UNCHANGED <<reqs, traces, scan, runs>>

FailDeduplicate(w) ==
    /\ pc[w] = "deduplicate"
    /\ cur[w] \in MayFail
    /\ SetState(cur[w], "Failed")
    /\ GoTo(w, "notify")
    /\ UNCHANGED <<reqs, hashed, traces, scan, runs>>

\* BaseTask::runTask.
RunTask(w) ==
    /\ pc[w] = "run"
    /\ runs' = [runs EXCEPT ![cur[w]] = @ + 1]
    /\ GoTo(w, "store")
    /\ UNCHANGED <<state, reqs, hashed, traces, scan>>

\* A second run may fail because its artifacts are declared already.
FailRun(w) ==
    /\ pc[w] = "run"
    /\ cur[w] \in MayFail \/ runs[cur[w]] > 0
    /\ runs' = [runs EXCEPT ![cur[w]] = @ + 1]
    /\ SetState(cur[w], "Failed")
    /\ GoTo(w, "notify")
    /\ UNCHANGED <<reqs, hashed, traces, scan>>

\* Mutant: the task is declared complete without a trace.
SkipTrace(w) ==
    /\ pc[w] = "store"
    /\ GoTo(w, "complete")
    /\ UNCHANGED <<state, reqs, hashed, traces, scan, runs>>

\* The trace is stored before the task is declared complete: dependents load it.
StoreTrace(w) ==
    /\ pc[w] = "store"
    /\ traces' = traces \cup {cur[w]}
    /\ GoTo(w, "complete")
    /\ UNCHANGED <<state, reqs, hashed, scan, runs>>

CompleteTask(w) ==
    /\ pc[w] = "complete"
    /\ SetState(cur[w], "Completed")
    /\ GoTo(w, "notify")
    /\ UNCHANGED <<reqs, hashed, traces, scan, runs>>

ComputeStep(w) ==
    /\ \/ Configure(w) \/ FailConfigure(w)
       \/ Deduplicate(w) \/ FailDeduplicate(w)
       \/ RunTask(w) \/ FailRun(w) \/ StoreTrace(w) \/ CompleteTask(w)
    /\ UNCHANGED <<queueVars, notifications, owner, done, cur, dropped, faults>>

\* The outcome is announced after it is visible to other workers.
NotifyOutcome(w) ==
    /\ pc[w] = "notify"
    /\ Notify(StateChanged(cur[w], state[cur[w]]))
    /\ GoTo(w, "close")
    /\ UNCHANGED <<owner, cur, scan, faults>>

\* BaseTask::close removes the temporary directory and stores diagnostics.
\* After a failed configuration the loop turns to the dependencies.
CloseTask(w) ==
    /\ pc[w] = "close"
    /\ GoTo(w, IF scan[w].unread # {} THEN "check" ELSE "release")
    /\ UNCHANGED <<notifications, owner, cur, scan, faults>>

\* storeTrace or close returns an error: the worker gives up.
StorageError(w) ==
    /\ pc[w] \in {"store", "close"}
    /\ faults < MaxFaults
    /\ faults' = faults + 1
    /\ GoTo(w, "error")
    /\ UNCHANGED <<notifications, owner, cur, scan>>

\* The TaskLocker goes out of scope, at the end of the iteration or because an
\* error leaves runUntilCancelled.
ReleaseTask(w) ==
    /\ pc[w] \in {"release", "error"}
    /\ owner' = [owner EXCEPT ![cur[w]] = NoThread]
    /\ cur' = [cur EXCEPT ![w] = NoTask]
    /\ scan' = [scan EXCEPT ![w] = EmptyScan]
    /\ GoTo(w, IF pc[w] = "release" THEN "fetch" ELSE "exit")
    /\ UNCHANGED <<notifications, faults>>

\* runner_worker_thread announces its end and returns.
ExitThread(w) ==
    /\ pc[w] = "exit"
    /\ Notify(ThreadCancelled(w))
    /\ GoTo(w, "gone")
    /\ UNCHANGED <<owner, cur, scan, faults>>

CloseStep(w) ==
    /\ \/ NotifyOutcome(w) \/ CloseTask(w) \/ StorageError(w)
       \/ ReleaseTask(w) \/ ExitThread(w)
    /\ UNCHANGED <<queueVars, state, reqs, done, hashed, traces, runs, dropped>>

WorkerStep(w) ==
    /\ \/ FetchStep(w) \/ BeginStep(w) \/ CheckStep(w) \/ ComputeStep(w)
       \/ CloseStep(w)
    /\ UNCHANGED mainVars

-----------------------------------------------------------------------------
(* The main loop, on_async_notify                                          *)

Idle == handling = NoMessage /\ pushes = 0

\* joinThread: the thread has ended, uv_thread_join returns.
JoinThread(n) ==
    /\ n.type = "THREAD_CANCELLED"
    /\ thread' = [thread EXCEPT ![n.index] = "joined"]
    /\ UNCHANGED <<todo, blocked, waiting>>

\* A state that is not an outcome concerns nobody.
IgnoreState(n) ==
    /\ n.type = "STATE_CHANGED" /\ n.state \notin Terminal
    /\ UNCHANGED <<todo, blocked, waiting, thread>>

\* Mutant: the blocked sets are tested before the key is erased from them.
UnblockedTooEarly(d) == {t \in waiting[d] : blocked[t] = {}}

\* The tasks that wait for d and for nothing else.
Unblocked(d) == {t \in waiting[d] : blocked[t] \subseteq {d}}

\* Mutant: nobody is crossed off.
StillBlocked(d) == blocked

\* The blocked sets once d is erased from those of the tasks waiting for it.
BlockedWithout(d) ==
    [t \in Tasks |-> IF t \in waiting[d] THEN blocked[t] \ {d} ELSE blocked[t]]

\* restartDeps: nobody waits for the task any more; those that waited for
\* nothing else are to be enqueued.
RestartDeps(n) ==
    /\ n.type = "STATE_CHANGED" /\ n.state \in Terminal
    /\ waiting' = [waiting EXCEPT ![n.key] = {}]
    /\ blocked' = BlockedWithout(n.key)
    /\ todo' = Unblocked(n.key)
    /\ UNCHANGED thread

\* parkDeps: the task is blocked on each of its dependencies.
ParkDeps(n) ==
    /\ n.type = "TASK_BLOCKED"
    /\ blocked' = [blocked EXCEPT ![n.key] = @ \cup n.deps]
    /\ todo' = n.deps
    /\ UNCHANGED <<waiting, thread>>

\* The oldest notification is handled.  takeNotifications swaps the whole queue
\* out under the lock; nobody else pops, so the order is the same.
HandleNotification ==
    /\ Idle
    /\ notifications # <<>>
    /\ handling' = Head(notifications)
    /\ notifications' = Tail(notifications)
    /\ LET n == Head(notifications) IN
       JoinThread(n) \/ IgnoreState(n) \/ RestartDeps(n) \/ ParkDeps(n)
    /\ UNCHANGED <<queueVars, pushes, targets, runnerState>>

\* The enqueue loop of restartDeps, in the hash set's order.
RestartTask(t) ==
    /\ handling # NoMessage
    /\ handling.type = "STATE_CHANGED"
    /\ EnqueueTask(t)
    /\ UNCHANGED waiting

\* Mutant: a dependency that ran before is not looked at again.
FirstWaiterOfNew(d) == waiting[d] = {} /\ state[d] = "New"

\* Nobody is in the waiting set of the dependency yet.
FirstWaiter(d) == waiting[d] = {}

\* The loop of parkDeps: the first to wait for a dependency has it enqueued;
\* an error of enqueueTask is only logged.
ParkOn(d) ==
    /\ handling # NoMessage
    /\ handling.type = "TASK_BLOCKED"
    /\ IF FirstWaiter(d) THEN EnqueueTask(d) ELSE UNCHANGED queueVars
    /\ waiting' = [waiting EXCEPT ![d] = @ \cup {handling.key}]

HandleKey ==
    /\ \E t \in todo :
         /\ RestartTask(t) \/ ParkOn(t)
         /\ todo' = todo \ {t}
    /\ UNCHANGED <<notifications, handling, pushes, blocked, targets,
                   runnerState, thread>>

\* Mutant: one thread is forgotten.
OneItemShort == Cardinality(Threads) - 1

ShutdownItems == Cardinality(Threads)

\* invokeNotificationCallback: the builder crosses off a target that has its
\* outcome and calls shutdown() when none is left.
InvokeCallback ==
    LET outcome == /\ handling.type = "STATE_CHANGED"
                   /\ handling.state \in Terminal
        left == IF outcome THEN targets \ {handling.key} ELSE targets
        stop == left = {} /\ runnerState = "Running"
    IN
    /\ handling # NoMessage /\ todo = {}
    /\ handling' = NoMessage
    /\ targets' = left
    /\ runnerState' = IF stop THEN "Shutdown" ELSE runnerState
    /\ pushes' = IF stop THEN ShutdownItems ELSE 0
    /\ UNCHANGED <<queueVars, notifications, blocked, waiting, todo, thread>>

\* Mutant: the loop runs once too often.
PushOneMore ==
    /\ pushes >= 0 /\ runnerState = "Shutdown"
    /\ ready' = Append(ready, SHUTDOWN)
    /\ pushes' = pushes - 1
    /\ UNCHANGED <<queued, notifications, handling, todo, blocked, waiting,
                   targets, runnerState, thread>>

\* shutdown pushes one item for each thread.
PushShutdown ==
    /\ pushes > 0
    /\ ready' = Append(ready, SHUTDOWN)
    /\ pushes' = pushes - 1
    /\ UNCHANGED <<queued, notifications, handling, todo, blocked, waiting,
                   targets, runnerState, thread>>

\* Mutant: one join is enough.
SomeJoined == \E w \in Threads : thread[w] = "joined"

AllJoined == \A w \in Threads : thread[w] = "joined"

\* The last join closed the async handle: uv_run and run() return.
Finish ==
    /\ Idle
    /\ AllJoined
    /\ runnerState # "Done"
    /\ runnerState' = "Done"
    /\ UNCHANGED <<queueVars, notifications, handling, todo, pushes, blocked,
                   waiting, targets, thread>>

MainStep ==
    /\ \/ HandleNotification \/ HandleKey \/ InvokeCallback
       \/ PushShutdown \/ Finish
    /\ UNCHANGED <<taskVars, workerVars, historyVars>>

\* run() has returned.
Returned == runnerState = "Done" /\ UNCHANGED vars

Next ==
    \/ \E w \in Threads : WorkerStep(w)
    \/ MainStep
    \/ Returned

Spec == Init /\ [][Next]_vars

\* Every worker is an operating system thread whose wait has a timeout, and
\* uv_async_send wakes the main loop whenever something was enqueued.
Fairness ==
    /\ \A w \in Threads : WF_vars(WorkerStep(w))
    /\ WF_vars(MainStep)

FairSpec == Spec /\ Fairness

-----------------------------------------------------------------------------

Scans == [unread : SUBSET Tasks, completed : SUBSET Tasks, failed : SUBSET Tasks]

\* The shape of every variable; pushes and faults stay within their bounds.
TypeOK ==
    /\ ready \in Seq(Tasks \cup {SHUTDOWN})
    /\ queued \subseteq Tasks
    /\ notifications \in Seq(Notifications)
    /\ state \in [Tasks -> TaskStates]
    /\ owner \in [Tasks -> Threads \cup {NoThread}]
    /\ reqs \in [Tasks -> SUBSET Tasks]
    /\ done \in [Tasks -> SUBSET Tasks]
    /\ hashed \subseteq Tasks /\ traces \subseteq Tasks
    /\ pc \in [Threads -> WorkerPCs]
    /\ cur \in [Threads -> Tasks \cup {NoTask}]
    /\ scan \in [Threads -> Scans]
    /\ handling \in Notifications \cup {NoMessage}
    /\ todo \subseteq Tasks
    /\ pushes \in 0 .. Cardinality(Threads)
    /\ blocked \in [Tasks -> SUBSET Tasks]
    /\ waiting \in [Tasks -> SUBSET Tasks]
    /\ targets \subseteq Tasks
    /\ runnerState \in {"Running", "Shutdown", "Done"}
    /\ thread \in [Threads -> {"running", "unstarted", "joined"}]
    /\ runs \in [Tasks -> Nat]
    /\ dropped \subseteq Tasks
    /\ faults \in 0 .. MaxFaults

\* A task is locked by a worker exactly while that worker is between taking and
\* releasing its TaskLocker, so no two workers compute the same task.
LockDiscipline ==
    \A t \in Tasks, w \in Threads :
        owner[t] = w <=> cur[w] = t /\ pc[w] \in Holding

\* m_queued is the set of keys in m_ready, and no key is in m_ready twice.
QueuedMirrorsReady ==
    /\ queued = {ready[i] : i \in DOMAIN ready} \ {SHUTDOWN}
    /\ \A i, j \in DOMAIN ready :
          ready[i] = ready[j] /\ ready[i] # SHUTDOWN => i = j

\* m_blocked and m_waiting are the two directions of one relation, except for
\* the dependencies parkDeps has yet to visit.
ParkedBothWays ==
    \A t, d \in Tasks :
        d \in blocked[t] <=>
            \/ t \in waiting[d]
            \/ /\ handling # NoMessage /\ handling.type = "TASK_BLOCKED"
               /\ handling.key = t /\ d \in todo

\* Once a worker can see a task Completed, its trace is in the cache: a
\* dependent calls loadTrace on it without waiting.
CompletedHasTrace ==
    \A t \in Tasks : state[t] = "Completed" => t \in traces

\* A task runs once, however often it is queued, rebroadcast or restarted; only
\* a task whose trace could not be stored can be run again.
RunsOnce == \A t \in Tasks : runs[t] <= 1 + faults

\* A task that somebody waits for, or that is a target without an outcome, is on
\* its way to the main loop's attention: it is queued or held by a worker, a
\* notification about it is under way, or it is itself blocked on something.
\* No notification is lost between a worker that parks a task and a main loop
\* that has already seen the dependency end.
Wanted(t) == t \in targets \/ waiting[t] # {}
InFlight(t) == t \in queued \/ \E w \in Threads : cur[w] = t
Announced(t) ==
    \E i \in DOMAIN notifications :
        LET n == notifications[i] IN
        \/ n.type = "STATE_CHANGED" /\ n.key = t /\ n.state \in Terminal
        \/ n.type = "TASK_BLOCKED" /\ n.key = t
BeingHandled(t) ==
    /\ handling # NoMessage
    /\ handling.type = "STATE_CHANGED"
    /\ t \in todo \/ (handling.key = t /\ handling.state \in Terminal)
NoLostTask ==
    faults = 0 =>
        \A t \in Registered \ dropped : Wanted(t) =>
            InFlight(t) \/ Announced(t) \/ BeingHandled(t) \/ blocked[t] # {}

\* After shutdown() every worker that has not left its loop will find a SHUTDOWN
\* item, those already pushed and those still to come together.
EveryWorkerCanStop ==
    runnerState = "Shutdown" =>
        Cardinality({w \in Threads : pc[w] \notin {"exit", "gone", "unstarted"}})
            <= Cardinality({i \in DOMAIN ready : ready[i] = SHUTDOWN}) + pushes

\* When run() returns no worker is left, no task is locked and no notification
\* was lost.
CleanReturn ==
    runnerState = "Done" =>
        /\ \A w \in Threads : pc[w] = "gone"
        /\ \A t \in Tasks : owner[t] = NoThread
        /\ notifications = <<>>

\* The runner implements the abstract build: outcomes are final and justified
\* by the outcomes of requested dependencies, and the builder has crossed off
\* every target only when all have an outcome.
Outcome == [t \in Tasks |-> IF state[t] \in Terminal THEN state[t] ELSE "Pending"]

Graph == INSTANCE BuildGraph WITH
    outcome <- Outcome,
    ended <- targets = {},
    MayFail <- IF MaxFaults = 0 THEN MayFail ELSE Tasks

ImplementsGraph == Graph!Spec

\* The runner is what LyricBuilder takes it for, from the moment computeTargets
\* calls run() until run() returns: it takes up only its targets and what tasks
\* requested, the outcomes and the callback follow one another as the builder
\* assumes, and without a shutdown() it returns only when no worker is left.
Finished == runnerState = "Done"

Builder == INSTANCE LyricBuilder WITH
    mTargets <- IF Finished THEN {} ELSE targets,
    mRunning <- ~Finished /\ targets # {},
    phase <- IF Finished THEN "Idle" ELSE "Run",
    targets <- Targets,
    left <- {},
    wanted <- {t \in Tasks : state[t] # "New" \/ InFlight(t)},
    outcome <- Outcome,
    announced <- Targets \ targets,
    stopping <- targets = {},
    abandoned <- AllJoined /\ targets # {},
    result <- IF ~Finished THEN "None"
              ELSE IF \A t \in Targets : state[t] \in Terminal THEN "Ok"
              ELSE "InvalidState",
    MayFail <- IF MaxFaults = 0 THEN MayFail ELSE Tasks,
    Calls <- {Targets}

ImplementsRun == Builder!RunSpec

\* run() hands over control "until all tasks are complete or there was a
\* failure", and then returns - unless a worker dropped a task that another
\* worker was about to unlock, or ended on a storage error.
BuildFinishes == <>(runnerState = "Done" \/ dropped # {} \/ faults > 0)

\* "if all dependencies are in fact completed we will still make forward
\* progress" (parkDeps): a blocked task whose dependencies are all complete is
\* taken up again, unless the build ends first.
ForwardProgress ==
    \A t \in Tasks :
        (state[t] = "Blocked" /\ \A d \in reqs[t] : state[d] = "Completed")
            ~> (state[t] # "Blocked" \/ runnerState # "Running")
=============================================================================
