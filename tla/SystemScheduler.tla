-------------------------- MODULE SystemScheduler --------------------------
(***************************************************************************)
(* The task scheduler of the interpreter: lyric_runtime/src/               *)
(* system_scheduler.cpp, task.cpp and promise.cpp, driven by the loop of   *)
(* bytecode_interpreter.cpp.  One thread runs bytecode; it polls the event *)
(* loop when its time slice is over or when it has no task to run.  Other  *)
(* threads only signal async handles.                                      *)
(*                                                                         *)
(* A task reaches the scheduler through traps: it registers a promise with *)
(* an event source, forwards it to a target promise, awaits it, or starts  *)
(* a worker task.  A promise has at most one waiter, allocated when it is  *)
(* registered, so a waiter is named by its promise.  The task queues are   *)
(* sequences here; TaskRing shows that the linked rings of the code        *)
(* implement them.                                                         *)
(***************************************************************************)
EXTENDS Naturals, Sequences

CONSTANTS
    Tasks,              \* the main task and the workers it may start
    Main,               \* the main task
    Promises,           \* the promises the tasks create
    MayBe,              \* MayBe[p]: the event sources p may be registered with
    Accepts,            \* Accepts[p]: what the accept callback of p may do
    NoTask,             \* a null Task pointer
    NoPromise           \* an empty promise pointer

Kinds == {"async", "timer", "read", "write", "worker", "anyOf", "allOf"}
TargetKinds == {"anyOf", "allOf"}

ASSUME TaskAssumption == Main \in Tasks /\ NoTask \notin Tasks
ASSUME PromiseAssumption == NoPromise \notin Promises
ASSUME MayBeAssumption == MayBe \in [Promises -> SUBSET Kinds]
ASSUME AcceptsAssumption ==
    Accepts \in [Promises -> SUBSET {"Completed", "Rejected", "nothing"}]

VARIABLES
    phase,              \* where the interpreter is: see Phases
    taskState,          \* Task::m_state, "Absent" before createTask
    current,            \* m_currentTask
    ready,              \* m_readyQueue
    wait,               \* m_waitQueue
    done,               \* m_doneQueue
    monitor,            \* Task::m_monitor, as the promise of its waiter
    kind,               \* the event source of the waiter, m_type and m_waitee
    promiseState,       \* Promise::m_state
    target,             \* Promise::m_target
    dependencies,       \* Promise::m_dependencies
    waiters,            \* the live waiters, m_waiters
    waiterTask,         \* Waiter::m_task
    asyncPending,       \* AsyncHandle::m_pending
    fired,              \* the events the loop has yet to deliver
    batch               \* of those, the ones this poll must deliver

taskVars == <<taskState, current, ready, wait, done, monitor>>
promiseVars == <<kind, promiseState, target, dependencies>>
eventVars == <<waiters, waiterTask, asyncPending, fired>>
vars == <<phase, taskVars, promiseVars, eventVars, batch>>

Phases == {"load", "run", "poll", "halt"}
TaskStates == {"Absent", "Waiting", "Ready", "Running", "Done"}
PromiseStates ==
    {"Initial", "Pending", "Target", "Forwarded", "Waiting", "Completed", "Rejected"}
Finished == {"Completed", "Rejected"}

Members(s) == {s[i] : i \in 1..Len(s)}

Without(s, x) ==
    LET k == CHOOSE i \in 1..Len(s) : s[i] = x
    IN  [i \in 1..(Len(s) - 1) |-> IF i < k THEN s[i] ELSE s[i + 1]]

(* The constructor of SystemScheduler leaves the main task waiting. *)
Init ==
    /\ phase = "load"
    /\ taskState = [t \in Tasks |-> IF t = Main THEN "Waiting" ELSE "Absent"]
    /\ current = NoTask
    /\ ready = << >>
    /\ wait = << Main >>
    /\ done = << >>
    /\ monitor = [t \in Tasks |-> NoPromise]
    /\ kind = [p \in Promises |-> "none"]
    /\ promiseState = [p \in Promises |-> "Initial"]
    /\ target = [p \in Promises |-> NoPromise]
    /\ dependencies = [p \in Promises |-> {}]
    /\ waiters = {}
    /\ waiterTask = [p \in Promises |-> NoTask]
    /\ asyncPending = [p \in Promises |-> FALSE]
    /\ fired = {}
    /\ batch = {}

-----------------------------------------------------------------------------
(* The state of a task after selectNextReady, and the task it selects, when
   the ready queue is q and the current task is c. *)

\* Mutant: the head of the queue is selected again.
NextIsHead(q, c) == q[1]

NextAfter(q, c) ==
    LET k == CHOOSE i \in 1..Len(q) : q[i] = c
    IN  IF k = Len(q) THEN q[1] ELSE q[k + 1]

Selected(q, c) ==
    IF c = NoTask
    THEN IF q = << >> THEN NoTask ELSE q[1]
    ELSE IF Len(q) = 1 THEN c ELSE NextAfter(q, c)

\* Mutant: the task that was running is not set back to Ready.
SelectNextOnly(states, q) ==
    LET s == Selected(q, current) IN
    /\ current' = s
    /\ taskState' = [t \in Tasks |-> IF t = s THEN "Running" ELSE states[t]]

SelectNextReady(states, q) ==
    LET s == Selected(q, current) IN
    /\ current' = s
    /\ taskState' = [t \in Tasks |->
          IF t = s THEN "Running"
          ELSE IF t = current THEN "Ready" ELSE states[t]]

(* InterpreterState::load resumes the main task and selects it. *)
Load ==
    /\ phase = "load"
    /\ phase' = "run"
    /\ wait' = Without(wait, Main)
    /\ ready' = Append(ready, Main)
    /\ SelectNextReady(taskState, ready')
    /\ UNCHANGED <<done, monitor, promiseVars, eventVars, batch>>

-----------------------------------------------------------------------------
(* What the running task does through traps. *)

Executing == phase = "run" /\ current # NoTask

(* Promise::pending or Promise::target, and attachWaiter. *)
Register(p, k, state) ==
    /\ promiseState[p] = "Initial"
    /\ k \in MayBe[p]
    /\ kind' = [kind EXCEPT ![p] = k]
    /\ promiseState' = [promiseState EXCEPT ![p] = state]
    /\ waiters' = waiters \cup {p}
    /\ UNCHANGED <<target, dependencies, waiterTask, fired>>

RegisterAsync(p) ==
    /\ Executing
    /\ Register(p, "async", "Pending")
    /\ asyncPending' = [asyncPending EXCEPT ![p] = TRUE]
    /\ UNCHANGED <<phase, taskVars, batch>>

RegisterTarget(p) ==
    /\ Executing
    /\ \E k \in TargetKinds : Register(p, k, "Target")
    /\ asyncPending' = [asyncPending EXCEPT ![p] = TRUE]
    /\ UNCHANGED <<phase, taskVars, batch>>

RegisterEvent(p, k) ==
    /\ Executing
    /\ Register(p, k, "Pending")
    /\ UNCHANGED <<phase, taskVars, asyncPending, batch>>

RegisterTimer(p) == RegisterEvent(p, "timer")
RegisterRead(p) == RegisterEvent(p, "read")
RegisterWrite(p) == RegisterEvent(p, "write")

(* createTask, registerWorker and resumeTask, as a trap that starts a worker
   calls them. *)
StartWorker(t, p) ==
    /\ Executing
    /\ taskState[t] = "Absent"
    /\ Register(p, "worker", "Pending")
    /\ monitor' = [monitor EXCEPT ![t] = p]
    /\ taskState' = [taskState EXCEPT ![t] = "Ready"]
    /\ ready' = Append(ready, t)
    /\ UNCHANGED <<phase, current, wait, done, asyncPending, batch>>

(* Promise::forward.  A promise that was forwarded is neither pending nor a
   target, so the check that it was not forwarded before never fails.  A target
   may be forwarded to itself: p and q need not differ. *)
\* Mutant: the forwarded promise keeps its state.
ForwardStaysPending(p, q) ==
    /\ Executing
    /\ promiseState[q] = "Target"
    /\ promiseState[p] \in {"Pending", "Target"}
    /\ target' = [target EXCEPT ![p] = q]
    /\ dependencies' = [dependencies EXCEPT ![q] = @ \cup {p}]
    /\ UNCHANGED <<phase, taskVars, kind, promiseState, eventVars, batch>>

Forward(p, q) ==
    /\ Executing
    /\ promiseState[q] = "Target"
    /\ promiseState[p] \in {"Pending", "Target"}
    /\ target' = [target EXCEPT ![p] = q]
    /\ dependencies' = [dependencies EXCEPT ![q] = @ \cup {p}]
    /\ promiseState' = [promiseState EXCEPT ![p] = "Forwarded"]
    /\ UNCHANGED <<phase, taskVars, kind, eventVars, batch>>

\* Mutant: the waiter is not told which task awaits it.
AwaitUnassigned(p) ==
    /\ Executing
    /\ promiseState[p] \in {"Pending", "Target"}
    /\ promiseState' = [promiseState EXCEPT ![p] = "Waiting"]
    /\ taskState' = [taskState EXCEPT ![current] = "Waiting"]
    /\ ready' = Without(ready, current)
    /\ wait' = Append(wait, current)
    /\ current' = NoTask
    /\ UNCHANGED <<phase, done, monitor, kind, target, dependencies, waiters, waiterTask,
                   asyncPending, fired, batch>>

(* Promise::await and SystemScheduler::await: the waiter gets the current
   task, which is suspended. *)
Await(p) ==
    /\ Executing
    /\ promiseState[p] \in {"Pending", "Target"}
    /\ promiseState' = [promiseState EXCEPT ![p] = "Waiting"]
    /\ waiterTask' = [waiterTask EXCEPT ![p] = current]
    /\ taskState' = [taskState EXCEPT ![current] = "Waiting"]
    /\ ready' = Without(ready, current)
    /\ wait' = Append(wait, current)
    /\ current' = NoTask
    /\ UNCHANGED <<phase, done, monitor, kind, target, dependencies, waiters, asyncPending,
                   fired, batch>>

(* OP_RETURN from the bottom of the call stack: the main task halts the
   interpreter, a worker is terminated and signals its monitor. *)
ReturnMain ==
    /\ Executing
    /\ current = Main
    /\ phase' = "halt"
    /\ UNCHANGED <<taskVars, promiseVars, eventVars, batch>>

\* Mutant: the monitor is forgotten without a signal.
ReturnSilently ==
    /\ Executing
    /\ current # Main
    /\ taskState' = [taskState EXCEPT ![current] = "Done"]
    /\ ready' = Without(ready, current)
    /\ done' = Append(done, current)
    /\ monitor' = [monitor EXCEPT ![current] = NoPromise]
    /\ current' = NoTask
    /\ UNCHANGED <<phase, wait, promiseVars, eventVars, batch>>

ReturnWorker ==
    /\ Executing
    /\ current # Main
    /\ taskState' = [taskState EXCEPT ![current] = "Done"]
    /\ ready' = Without(ready, current)
    /\ done' = Append(done, current)
    /\ fired' = fired \cup ({monitor[current]} \ {NoPromise})
    /\ monitor' = [monitor EXCEPT ![current] = NoPromise]
    /\ current' = NoTask
    /\ UNCHANGED <<phase, wait, promiseVars, waiters, waiterTask, asyncPending, batch>>

-----------------------------------------------------------------------------
(* Events. *)

(* AsyncHandle::sendSignal from any thread that holds the handle. *)
ThreadSignal(p) ==
    /\ phase # "halt"
    /\ kind[p] = "async"
    /\ asyncPending[p]
    /\ asyncPending' = [asyncPending EXCEPT ![p] = FALSE]
    /\ fired' = fired \cup {p}
    /\ UNCHANGED <<phase, taskVars, promiseVars, waiters, waiterTask, batch>>

(* A timer expires or a file request finishes. *)
EventArrives(p) ==
    /\ phase # "halt"
    /\ kind[p] \in {"timer", "read", "write"}
    /\ p \in waiters \ fired
    /\ fired' = fired \cup {p}
    /\ UNCHANGED <<phase, taskVars, promiseVars, waiters, waiterTask, asyncPending, batch>>

\* Mutant: the interpreter does not wait for the events it found.
SliceWithoutEvents ==
    /\ Executing
    /\ phase' = "poll"
    /\ batch' = {}
    /\ UNCHANGED <<taskVars, promiseVars, eventVars>>

(* The time slice is over: the interpreter polls without blocking. *)
Slice ==
    /\ Executing
    /\ phase' = "poll"
    /\ batch' = fired
    /\ UNCHANGED <<taskVars, promiseVars, eventVars>>

(* No task runs.  blockingPoll returns at once when a task is ready and
   otherwise waits for an event.  It would throw when no task is waiting either,
   which cannot be: until the program halts the main task is in one of the two
   queues (QueuesMatchStates). *)
SelectReady ==
    /\ phase = "run"
    /\ current = NoTask
    /\ ready # << >>
    /\ SelectNextReady(taskState, ready)
    /\ UNCHANGED <<phase, ready, wait, done, monitor, promiseVars, eventVars, batch>>

BlockingPoll ==
    /\ phase = "run"
    /\ current = NoTask
    /\ ready = << >>
    /\ wait # << >>
    /\ fired # {}
    /\ phase' = "poll"
    /\ batch' = fired
    /\ UNCHANGED <<taskVars, promiseVars, eventVars>>

(* onPartial of the target q, when ps are the promise states: an allOf target
   waits for all the promises forwarded to it, an anyOf target for one. *)
Resolvable(q, ps) ==
    IF kind[q] = "allOf"
    THEN \A d \in dependencies[q] : ps[d] \in Finished
    ELSE \E d \in dependencies[q] : ps[d] \in Finished

\* Mutant: the state of the dependencies is looked at too early.
NotifiedTooEarly(p, ps) ==
    {q \in Promises :
        /\ promiseState[p] = "Forwarded"
        /\ ps[p] \in Finished
        /\ q = target[p]
        /\ ps[q] \notin Finished
        /\ Resolvable(q, promiseState)
        /\ asyncPending[q]}

(* The targets that Promise::notify signals when p finishes as ps says. *)
Notified(p, ps) ==
    {q \in Promises :
        /\ promiseState[p] = "Forwarded"
        /\ ps[p] \in Finished
        /\ q = target[p]
        /\ ps[q] \notin Finished
        /\ Resolvable(q, ps)
        /\ asyncPending[q]}

\* Mutant: complete() refuses a promise that is awaited.
FinishedUnlessAwaited(p, outcome) ==
    IF outcome = "nothing" \/ promiseState[p] \in Finished \cup {"Waiting"}
    THEN promiseState
    ELSE [promiseState EXCEPT ![p] = outcome]

\* Mutant: complete() refuses a promise that was forwarded.
FinishedUnlessForwarded(p, outcome) ==
    IF outcome = "nothing" \/ promiseState[p] \in Finished \cup {"Forwarded"}
    THEN promiseState
    ELSE [promiseState EXCEPT ![p] = outcome]

(* The promise states after the accept callback of p: Promise::complete and
   Promise::reject refuse a promise that is finished. *)
FinishedAs(p, outcome) ==
    IF outcome = "nothing" \/ promiseState[p] \in Finished
    THEN promiseState
    ELSE [promiseState EXCEPT ![p] = outcome]

\* Mutant: a resumed task overtakes the ready ones.
ReadyFirst(t) == << t >> \o ready

ReadyLast(t) == Append(ready, t)

(* Waiter::complete: the task that awaits is resumed, the accept callback runs
   and may finish the promise, which notifies its target, and the waiter is
   destroyed, which closes its handle. *)
Callback(p) ==
    /\ phase = "poll"
    /\ p \in fired
    /\ \E outcome \in Accepts[p] :
          LET ps == FinishedAs(p, outcome)
              signalled == Notified(p, ps)
              t == waiterTask[p]
          IN  /\ promiseState' = ps
              /\ fired' = (fired \ {p}) \cup signalled
              /\ asyncPending' =
                    [q \in Promises |-> asyncPending[q] /\ q \notin signalled /\ q # p]
              /\ IF t # NoTask /\ taskState[t] = "Waiting"
                 THEN /\ taskState' = [taskState EXCEPT ![t] = "Ready"]
                      /\ wait' = Without(wait, t)
                      /\ ready' = ReadyLast(t)
                 ELSE UNCHANGED <<taskState, wait, ready>>
    /\ waiters' = waiters \ {p}
    /\ waiterTask' = [waiterTask EXCEPT ![p] = NoTask]
    /\ batch' = batch \ {p}
    /\ UNCHANGED <<phase, current, done, monitor, kind, target, dependencies>>

(* The poll returns when it has delivered the events it found; the interpreter
   then selects the next task. *)
EndPoll ==
    /\ phase = "poll"
    /\ batch = {}
    /\ phase' = "run"
    /\ SelectNextReady(taskState, ready)
    /\ UNCHANGED <<ready, wait, done, monitor, promiseVars, eventVars, batch>>

Trap ==
    \/ \E p \in Promises :
          \/ RegisterAsync(p) \/ RegisterTarget(p) \/ RegisterTimer(p)
          \/ RegisterRead(p) \/ RegisterWrite(p) \/ Await(p)
          \/ \E t \in Tasks : StartWorker(t, p)
          \/ \E q \in Promises : Forward(p, q)
    \/ ReturnMain
    \/ ReturnWorker

Poll == SelectReady \/ BlockingPoll \/ EndPoll
        \/ \E p \in Promises : Callback(p)

Next ==
    \/ Load \/ Trap \/ Slice \/ Poll
    \/ \E p \in Promises : ThreadSignal(p) \/ EventArrives(p)

Spec == Init /\ [][Next]_vars

(* The interpreter thread keeps running: a task executes until its slice ends,
   and the event loop delivers what has fired. *)
FairSpec ==
    /\ Spec
    /\ WF_vars(Load)
    /\ WF_vars(Slice)
    /\ WF_vars(SelectReady \/ BlockingPoll)
    /\ \A p \in Promises : WF_vars(Callback(p))
    /\ WF_vars(EndPoll)
-----------------------------------------------------------------------------
(* The types, a part of QueuesMatchStates. *)
TypeOK ==
    /\ phase \in Phases
    /\ taskState \in [Tasks -> TaskStates]
    /\ current \in Tasks \cup {NoTask}
    /\ ready \in Seq(Tasks) /\ wait \in Seq(Tasks) /\ done \in Seq(Tasks)
    /\ monitor \in [Tasks -> Promises \cup {NoPromise}]
    /\ kind \in [Promises -> Kinds \cup {"none"}]
    /\ promiseState \in [Promises -> PromiseStates]
    /\ target \in [Promises -> Promises \cup {NoPromise}]
    /\ dependencies \in [Promises -> SUBSET Promises]
    /\ waiters \subseteq Promises
    /\ waiterTask \in [Promises -> Tasks \cup {NoTask}]
    /\ asyncPending \in [Promises -> BOOLEAN]
    /\ fired \subseteq waiters
    /\ batch \subseteq fired

(* A task is in the queue its state says, once, and in no other, and the current
   task is the one running task: suspendTask, resumeTask and terminateTask keep
   the queues and the states in step, also for the running task, which stays in
   the ready queue, and none is left marked as running when the interpreter
   switches away from it. *)
QueuesMatchStates ==
    /\ TypeOK
    /\ \A q \in {ready, wait, done} : \A i, j \in 1..Len(q) : q[i] = q[j] => i = j
    /\ Members(ready) = {t \in Tasks : taskState[t] \in {"Ready", "Running"}}
    /\ Members(wait) = {t \in Tasks : taskState[t] = "Waiting"}
    /\ Members(done) = {t \in Tasks : taskState[t] = "Done"}
    /\ \A t \in Tasks : taskState[t] = "Running" <=> t = current

(* A suspended task is held by exactly one live waiter, and a waiter that holds
   a task holds a suspended one: no wake-up is lost, and no event resumes a
   task that runs, was terminated or waits for another promise. *)
NoLostWakeup ==
    /\ \A t \in Tasks :
          phase # "load" /\ taskState[t] = "Waiting" =>
             \E p \in waiters : \A q \in Promises : waiterTask[q] = t <=> q = p
    /\ \A p \in Promises : waiterTask[p] # NoTask => taskState[waiterTask[p]] = "Waiting"

(* A promise that may still be awaited or finished has its waiter.
   Waiter::complete destroys the waiter, "and all pointers to the Waiter must
   be discarded", but the promise keeps m_waiter. *)
UnfinishedPromiseHasWaiter ==
    \A p \in Promises :
        promiseState[p] \notin Finished \cup {"Initial"} => p \in waiters

(* Promise::setReachable recurses over dependencies with no bound.  The one ring
   it can run into is that of a promise which was forwarded to itself, which
   Promise::forward does not refuse: among any promises there is one that waits
   for none of the others, so no two targets wait for one another. *)
RingsAreSelfForwards ==
    \A S \in (SUBSET Promises) \ {{}} : \E p \in S : dependencies[p] \cap S \subseteq {p}

(* A worker that has not returned still has the monitor its parent's promise
   waits for, and the event of a finished worker is never lost. *)
WorkerIsMonitored ==
    \A p \in waiters :
        kind[p] = "worker" => p \in fired \/ \E t \in Tasks :
            monitor[t] = p /\ taskState[t] \in {"Ready", "Running", "Waiting"}

(* A task leaves an await only by the event of the promise it awaits, and finds
   that promise finished: the trap that resumes reads its result. *)
ResumedWithResult ==
    [][\A t \in Tasks :
          taskState[t] = "Waiting" /\ taskState'[t] # "Waiting" =>
             \/ phase = "load"
             \/ \E p \in fired : waiterTask[p] = t /\ promiseState'[p] \in Finished]_vars

(* The queues behave as TaskQueues specifies. *)
Queues == INSTANCE TaskQueues
    WITH queue <- [ready |-> ready, wait |-> wait, done |-> done]
RefinesTaskQueues == Queues!Spec

(* Round robin: every ready task runs, whatever the others await or register. *)
ReadyTaskRuns ==
    \A t \in Tasks :
        taskState[t] = "Ready" ~> taskState[t] = "Running" \/ phase = "halt"

(* A task whose awaited event has fired is resumed, also when the other tasks
   never stop to run. *)
FiredEventResumes ==
    \A p \in Promises :
        p \in fired /\ waiterTask[p] # NoTask ~> waiterTask[p] = NoTask \/ phase = "halt"

(* A target is resolved once its dependencies allow it: the last of them to
   finish signals it. *)
TargetResolves ==
    \A q \in Promises :
        kind[q] \in TargetKinds /\ dependencies[q] # {} /\ Resolvable(q, promiseState) ~>
            q \notin waiters \/ phase = "halt"
=============================================================================
