------------------------- MODULE BuildRunnerProofs -------------------------
(***************************************************************************)
(* Proofs about BuildRunner for every set of tasks, threads and targets,   *)
(* every shape of the dependency requests and any number of storage        *)
(* errors: first what the workers and the abstract build need, then what   *)
(* the run must not do:                                                    *)
(*  - the data structures that two loops or two threads keep in step:      *)
(*    m_ready with m_queued, and m_blocked with m_waiting;                 *)
(*  - no wake-up is lost but by dropping a popped task: whatever is wanted *)
(*    is queued, at work, announced, in the main loop's hands or blocked;  *)
(*  - how it ends: every worker is told, every worker is joined, and run() *)
(*    leaves nothing behind.                                               *)
(* Last, that one run is all that LyricBuilder assumes of its runner.      *)
(***************************************************************************)
EXTENDS BuildRunner, FiniteSetTheorems, SequenceTheorems, TLAPS

USE DEF queueVars, taskVars, workerVars, mainVars, historyVars

\* A worker that holds, or is about to lock, a task has popped one.
CurTyped ==
    \A w \in Threads : pc[w] \in Holding \cup {"lock"} => cur[w] \in Tasks

TypeInv == TypeOK /\ CurTyped

\* What the actions need to know of the notification constructors.
LEMMA NotificationTypes ==
    /\ \A t \in Tasks, s \in TaskStates : StateChanged(t, s) \in Notifications
    /\ \A t \in Tasks, D \in SUBSET Tasks : TaskBlocked(t, D) \in Notifications
    /\ \A w \in Threads : ThreadCancelled(w) \in Notifications
BY DEF StateChanged, TaskBlocked, ThreadCancelled, Notifications

LEMMA ScanType ==
    ASSUME NEW U \in SUBSET Tasks, NEW C \in SUBSET Tasks, NEW F \in SUBSET Tasks
    PROVE  /\ Scan(U, C, F) \in Scans
           /\ Scan(U, C, F).unread = U
           /\ Scan(U, C, F).completed = C
           /\ Scan(U, C, F).failed = F
BY DEF Scan, Scans

LEMMA ScanFields ==
    ASSUME NEW s \in Scans
    PROVE  /\ s.unread \in SUBSET Tasks
           /\ s.completed \in SUBSET Tasks
           /\ s.failed \in SUBSET Tasks
BY DEF Scans

\* A function stays in its set when one of its values is replaced by another.
LEMMA Updated ==
    ASSUME NEW S, NEW T, NEW f \in [S -> T], NEW x, NEW v, x \in S => v \in T
    PROVE  [f EXCEPT ![x] = v] \in [S -> T]
OBVIOUS

LEMMA ThreadCount == Cardinality(Threads) \in Nat
BY ConstantsAssumption, FS_CardinalityType

\* The first item of a queue and the rest of it.
LEMMA PopType ==
    ASSUME NEW S, NEW s \in Seq(S), s # <<>>
    PROVE  Head(s) \in S /\ Tail(s) \in Seq(S)
OBVIOUS

LEMMA PushType ==
    ASSUME NEW S, NEW s \in Seq(S), NEW e \in S
    PROVE  Append(s, e) \in Seq(S)
OBVIOUS

LEMMA TypeInit == Init => TypeInv
<1> SUFFICES ASSUME Init PROVE TypeInv
  OBVIOUS
<1> USE DEF Init
<1>1. ready \in Seq(Tasks \cup {SHUTDOWN})
  <2>1. Cardinality(Targets) \in Nat
    BY ConstantsAssumption, FS_Subset, FS_CardinalityType
  <2>2. ready \in [1 .. Cardinality(Targets) -> Tasks \cup {SHUTDOWN}]
    BY ConstantsAssumption
  <2> QED
    BY <2>1, <2>2
<1>2. thread \in [Threads -> {"running", "unstarted", "joined"}]
  OBVIOUS
<1>3. notifications \in Seq(Notifications)
  OBVIOUS
<1>4. pushes \in 0 .. Cardinality(Threads) /\ faults \in 0 .. MaxFaults
  BY ThreadCount, ConstantsAssumption
<1>5. queued \subseteq Tasks /\ traces \subseteq Tasks /\ targets \subseteq Tasks
  BY ConstantsAssumption
<1>6. pc \in [Threads -> WorkerPCs] /\ CurTyped
  BY DEF WorkerPCs, CurTyped, Holding
<1>7. state \in [Tasks -> TaskStates]
  BY DEF TaskStates
<1>8. scan \in [Threads -> Scans]
  BY ScanType DEF EmptyScan
<1> QED
  BY <1>1, <1>2, <1>3, <1>4, <1>5, <1>6, <1>7, <1>8 DEF TypeInv, TypeOK

LEMMA TypeFetch ==
    ASSUME TypeInv, NEW w \in Threads, FetchStep(w), UNCHANGED mainVars
    PROVE  TypeInv'
<1> USE DEF TypeInv, TypeOK, FetchStep, GoTo, WorkerPCs, Holding, CurTyped
<1>1. CASE DequeueTask(w)
  <2>1. Head(ready) \in Tasks /\ Tail(ready) \in Seq(Tasks \cup {SHUTDOWN})
    BY <1>1, PopType DEF DequeueTask
  <2> QED
    BY <1>1, <2>1 DEF DequeueTask
<1>2. CASE DequeueShutdown(w)
  <2>1. Tail(ready) \in Seq(Tasks \cup {SHUTDOWN})
    BY <1>2, PopType DEF DequeueShutdown
  <2> QED
    BY <1>2, <2>1 DEF DequeueShutdown
<1>3. CASE Timeout(w)
  BY <1>3 DEF Timeout
<1>4. CASE LockTask(w)
  BY <1>4 DEF LockTask
<1>5. CASE DropTask(w)
  BY <1>5 DEF DropTask
<1> QED
  BY <1>1, <1>2, <1>3, <1>4, <1>5

\* What a worker that holds a task may rely on.
LEMMA HolderFacts ==
    ASSUME TypeInv, NEW w \in Threads, pc[w] \in Holding
    PROVE  /\ cur[w] \in Tasks
           /\ reqs \in [Tasks -> SUBSET Tasks] /\ done \in [Tasks -> SUBSET Tasks]
           /\ scan \in [Threads -> Scans] /\ scan[w] \in Scans
           /\ pc \in [Threads -> WorkerPCs]
BY DEF TypeInv, TypeOK, CurTyped

LEMMA TypeBegin ==
    ASSUME TypeInv, NEW w \in Threads, BeginStep(w), UNCHANGED mainVars
    PROVE  TypeInv'
<1>1. pc[w] = "begin" /\ pc[w] \in Holding
  BY DEF BeginStep, Rebroadcast, BeginTask, Holding
<1>2. CASE Rebroadcast(w)
  <2>1. notifications' \in Seq(Notifications)
    BY <1>1, <1>2, HolderFacts, NotificationTypes, PushType
       DEF TypeInv, TypeOK, Rebroadcast, Notify
  <2> QED
    BY <1>2, <2>1 DEF TypeInv, TypeOK, CurTyped, BeginStep, Rebroadcast, GoTo,
                      WorkerPCs, Holding
<1>3. CASE BeginTask(w)
  <2>1. StateChanged(cur[w], "Running") \in Notifications
    BY <1>1, HolderFacts, NotificationTypes DEF TaskStates
  <2>2. notifications' \in Seq(Notifications)
    BY <1>3, <2>1, PushType DEF TypeInv, TypeOK, BeginTask, Notify
  <2>3. scan' \in [Threads -> Scans]
    <3>1. Scan(reqs[cur[w]], {}, {}) \in Scans
      BY <1>1, HolderFacts, ScanType
    <3>2. \/ scan' = scan
          \/ scan' = [scan EXCEPT ![w] = Scan(reqs[cur[w]], {}, {})]
      BY <1>3 DEF BeginTask, EnterLoop
    <3> QED
      BY <1>1, <3>1, <3>2, HolderFacts, Updated
  <2>4. \E l \in Holding : pc' = [pc EXCEPT ![w] = l]
    BY <1>3 DEF BeginTask, EnterLoop, GoTo, Holding
  <2> QED
    BY <1>1, <1>3, <2>2, <2>3, <2>4
       DEF TypeInv, TypeOK, CurTyped, BeginStep, BeginTask, SetState, TaskStates,
           WorkerPCs, Holding
<1> QED
  BY <1>2, <1>3 DEF BeginStep

LEMMA MarkCompletedType ==
    ASSUME TypeInv, NEW w \in Threads, MarkCompleted(w)
    PROVE  /\ pc[w] \in Holding
           /\ reqs' \in [Tasks -> SUBSET Tasks]
           /\ done' \in [Tasks -> SUBSET Tasks]
           /\ scan' \in [Threads -> Scans]
<1>1. pc[w] \in Holding
  BY DEF MarkCompleted, Holding
<1>2. scan[w].completed \in SUBSET Tasks /\ EmptyScan \in Scans
  BY <1>1, HolderFacts, ScanFields, ScanType DEF EmptyScan
<1> QED
  BY <1>1, <1>2, HolderFacts, Updated DEF MarkCompleted

LEMMA TypeCheck ==
    ASSUME TypeInv, NEW w \in Threads, CheckStep(w), UNCHANGED mainVars
    PROVE  TypeInv'
<1>1. CASE \E d \in Tasks : ReadDependency(w, d)
  <2>1. PICK d \in Tasks : ReadDependency(w, d)
    BY <1>1
  <2>2. pc[w] \in Holding
    BY <2>1 DEF ReadDependency, Holding
  <2>3. /\ scan[w].unread \in SUBSET Tasks
        /\ scan[w].completed \in SUBSET Tasks
        /\ scan[w].failed \in SUBSET Tasks
    BY <2>2, HolderFacts, ScanFields
  <2> DEFINE U == scan[w].unread \ {d}
             C == IF state[d] = "Completed" THEN scan[w].completed \cup {d}
                                            ELSE scan[w].completed
             F == IF state[d] = "Failed" THEN scan[w].failed \cup {d}
                                         ELSE scan[w].failed
  <2>4. Scan(U, C, F) \in Scans
    <3>1. U \in SUBSET Tasks /\ C \in SUBSET Tasks /\ F \in SUBSET Tasks
      BY <2>3
    <3> QED
      BY <3>1, ScanType
  <2>5. scan' = [scan EXCEPT ![w] = Scan(U, C, F)]
    BY <2>1, <2>2, HolderFacts DEF ReadDependency
  <2>6. scan' \in [Threads -> Scans]
    BY <2>2, <2>4, <2>5, HolderFacts, Updated
  <2> QED
    BY <2>1, <2>6 DEF TypeInv, TypeOK, CurTyped, CheckStep, ReadDependency
<1>2. CASE \/ FailOnDependency(w) \/ BlockOnDependencies(w)
           \/ RefuseState(w) \/ DependenciesComplete(w)
  <2>1. MarkCompleted(w)
    BY <1>2 DEF FailOnDependency, BlockOnDependencies, RefuseState,
                DependenciesComplete
  <2>2. \E l \in Holding : pc' = [pc EXCEPT ![w] = l]
    BY <1>2 DEF FailOnDependency, BlockOnDependencies, RefuseState,
                DependenciesComplete, GoTo, Holding
  <2>3. cur[w] \in Tasks
    BY <2>1, MarkCompletedType, HolderFacts
  <2>4. state' \in [Tasks -> TaskStates]
    BY <1>2, <2>3, Updated
       DEF TypeInv, TypeOK, FailOnDependency, BlockOnDependencies, RefuseState,
           DependenciesComplete, SetState, TaskStates
  <2>5. notifications' \in Seq(Notifications)
    <3>1. /\ StateChanged(cur[w], "Blocked") \in Notifications
          /\ TaskBlocked(cur[w], reqs[cur[w]]) \in Notifications
      BY <2>1, <2>3, MarkCompletedType, HolderFacts, NotificationTypes DEF TaskStates
    <3>2. notifications \in Seq(Notifications)
      BY DEF TypeInv, TypeOK
    <3>3. <<StateChanged(cur[w], "Blocked"), TaskBlocked(cur[w], reqs[cur[w]])>>
            \in Seq(Notifications)
      BY <3>1
    <3>4. \/ notifications' = notifications
          \/ notifications' = notifications \o
               <<StateChanged(cur[w], "Blocked"), TaskBlocked(cur[w], reqs[cur[w]])>>
      BY <1>2 DEF FailOnDependency, BlockOnDependencies, RefuseState,
                  DependenciesComplete
    <3> QED
      BY <3>2, <3>3, <3>4, ConcatProperties
  <2>6. UNCHANGED <<queueVars, owner, hashed, traces, cur, historyVars>>
    BY DEF CheckStep
  <2> QED
    BY <2>1, <2>2, <2>3, <2>4, <2>5, <2>6, MarkCompletedType
       DEF TypeInv, TypeOK, CurTyped, WorkerPCs, Holding
<1> QED
  BY <1>1, <1>2 DEF CheckStep

\* What a task requests is a set of tasks, whatever it has received.
LEMMA RequestsType ==
    ASSUME NEW t \in Tasks, NEW D \in SUBSET Tasks
    PROVE  Requests[t][D] \in SUBSET Tasks
BY ConstantsAssumption

LEMMA TypeCompute ==
    ASSUME TypeInv, NEW w \in Threads, ComputeStep(w), UNCHANGED mainVars
    PROVE  TypeInv'
<1>1. pc[w] \in Holding
  BY DEF ComputeStep, Configure, FailConfigure, Deduplicate, FailDeduplicate,
         RunTask, FailRun, StoreTrace, CompleteTask, Holding
<1>2. cur[w] \in Tasks /\ Requests[cur[w]][done[cur[w]]] \in SUBSET Tasks
  BY <1>1, HolderFacts, RequestsType
<1>3. CASE Configure(w)
  <2> DEFINE D == reqs[cur[w]] \cup (Requests[cur[w]][done[cur[w]]] \ done[cur[w]])
  <2>1. D \in SUBSET Tasks
    BY <1>1, <1>2, HolderFacts
  <2>2. reqs' \in [Tasks -> SUBSET Tasks]
    <3>1. reqs' = [reqs EXCEPT ![cur[w]] = D]
      BY <1>3 DEF Configure
    <3> QED
      BY <1>1, <2>1, <3>1, HolderFacts, Updated
  <2>3. scan' \in [Threads -> Scans]
    <3>1. Scan(D, {}, {}) \in Scans
      BY <2>1, ScanType
    <3>2. scan' = scan \/ scan' = [scan EXCEPT ![w] = Scan(D, {}, {})]
      BY <1>3 DEF Configure, EnterLoop
    <3> QED
      BY <1>1, <3>1, <3>2, HolderFacts, Updated
  <2>4. \E l \in Holding : pc' = [pc EXCEPT ![w] = l]
    BY <1>3 DEF Configure, EnterLoop, GoTo, Holding
  <2>5. UNCHANGED <<state, hashed, traces, runs, queueVars, notifications, owner,
                    done, cur, dropped, faults>>
    BY <1>3 DEF Configure, ComputeStep
  <2> QED
    BY <1>1, <1>2, <2>2, <2>3, <2>4, <2>5
       DEF TypeInv, TypeOK, CurTyped, WorkerPCs, Holding
<1>4. CASE FailConfigure(w)
  <2>1. PICK R \in SUBSET (Requests[cur[w]][done[cur[w]]] \ done[cur[w]]) :
          /\ reqs' = [reqs EXCEPT ![cur[w]] = reqs[cur[w]] \cup R]
          /\ scan' = [scan EXCEPT ![w] = Scan(reqs[cur[w]] \cup R, {}, {})]
    BY <1>1, <1>4, HolderFacts DEF FailConfigure
  <2>2. reqs[cur[w]] \cup R \in SUBSET Tasks
    BY <1>1, <1>2, HolderFacts
  <2>3. Scan(reqs[cur[w]] \cup R, {}, {}) \in Scans
    BY <2>2, ScanType
  <2>4. reqs' \in [Tasks -> SUBSET Tasks] /\ scan' \in [Threads -> Scans]
    BY <1>1, <2>1, <2>2, <2>3, HolderFacts, Updated
  <2>5. /\ pc' = [pc EXCEPT ![w] = "notify"]
        /\ state' = [state EXCEPT ![cur[w]] = "Failed"]
        /\ UNCHANGED <<hashed, traces, runs, queueVars, notifications, owner,
                       done, cur, dropped, faults>>
    BY <1>4 DEF FailConfigure, ComputeStep, GoTo, SetState
  <2> QED
    BY <1>1, <1>2, <2>4, <2>5
       DEF TypeInv, TypeOK, CurTyped, WorkerPCs, Holding, TaskStates
<1>5. CASE \/ Deduplicate(w) \/ FailDeduplicate(w) \/ RunTask(w) \/ FailRun(w)
           \/ StoreTrace(w) \/ CompleteTask(w)
  <2> USE DEF ComputeStep, GoTo, SetState, TypeInv, TypeOK, CurTyped, WorkerPCs,
              Holding, TaskStates
  <2>1. CASE Deduplicate(w)
    BY <1>2, <2>1 DEF Deduplicate
  <2>2. CASE FailDeduplicate(w)
    BY <1>2, <2>2 DEF FailDeduplicate
  <2>3. CASE RunTask(w)
    BY <1>2, <2>3 DEF RunTask
  <2>4. CASE FailRun(w)
    BY <1>2, <2>4 DEF FailRun
  <2>5. CASE StoreTrace(w)
    BY <1>2, <2>5 DEF StoreTrace
  <2>6. CASE CompleteTask(w)
    BY <1>2, <2>6 DEF CompleteTask
  <2> QED
    BY <1>5, <2>1, <2>2, <2>3, <2>4, <2>5, <2>6
<1> QED
  BY <1>3, <1>4, <1>5 DEF ComputeStep

LEMMA TypeClose ==
    ASSUME TypeInv, NEW w \in Threads, CloseStep(w), UNCHANGED mainVars
    PROVE  TypeInv'
<1> USE DEF TypeInv, TypeOK, CloseStep, GoTo, WorkerPCs, Holding, CurTyped
<1>1. CASE NotifyOutcome(w)
  <2>1. notifications' \in Seq(Notifications)
    BY <1>1, NotificationTypes, PushType DEF NotifyOutcome, Notify
  <2> QED
    BY <1>1, <2>1 DEF NotifyOutcome
<1>2. CASE CloseTask(w)
  BY <1>2 DEF CloseTask
<1>3. CASE StorageError(w)
  BY <1>3, ConstantsAssumption DEF StorageError
<1>4. CASE ReleaseTask(w)
  <2>1. EmptyScan \in Scans
    BY ScanType DEF EmptyScan
  <2> QED
    BY <1>4, <2>1 DEF ReleaseTask
<1>5. CASE ExitThread(w)
  <2>1. notifications' \in Seq(Notifications)
    BY <1>5, NotificationTypes, PushType DEF ExitThread, Notify
  <2> QED
    BY <1>5, <2>1 DEF ExitThread
<1> QED
  BY <1>1, <1>2, <1>3, <1>4, <1>5

\* enqueueTask keeps the ready queue and its set well typed.
LEMMA EnqueueType ==
    ASSUME TypeInv, NEW t \in Tasks, EnqueueTask(t)
    PROVE  ready' \in Seq(Tasks \cup {SHUTDOWN}) /\ queued' \subseteq Tasks
<1>1. Append(ready, t) \in Seq(Tasks \cup {SHUTDOWN})
  BY PushType DEF TypeInv, TypeOK
<1> QED
  BY <1>1 DEF TypeInv, TypeOK, EnqueueTask

LEMMA TypeMain ==
    ASSUME TypeInv, MainStep
    PROVE  TypeInv'
<1> USE DEF TypeInv, TypeOK, MainStep, CurTyped
<1>1. CASE HandleNotification
  <2> DEFINE n == Head(notifications)
  <2>1. n \in Notifications /\ Tail(notifications) \in Seq(Notifications)
    BY <1>1, PopType DEF HandleNotification
  <2>2. CASE JoinThread(n)
    <3>1. n.index \in Threads
      BY <2>1, <2>2 DEF JoinThread, Notifications
    <3> QED
      BY <1>1, <2>1, <2>2, <3>1 DEF HandleNotification, JoinThread
  <2>3. CASE IgnoreState(n)
    BY <1>1, <2>1, <2>3 DEF HandleNotification, IgnoreState
  <2>4. CASE RestartDeps(n)
    <3>1. n.key \in Tasks
      BY <2>1, <2>4 DEF RestartDeps, Notifications
    <3> QED
      BY <1>1, <2>1, <2>4, <3>1
         DEF HandleNotification, RestartDeps, BlockedWithout, Unblocked
  <2>5. CASE ParkDeps(n)
    <3>1. n.key \in Tasks /\ n.deps \in SUBSET Tasks
      BY <2>1, <2>5 DEF ParkDeps, Notifications
    <3> QED
      BY <1>1, <2>1, <2>5, <3>1 DEF HandleNotification, ParkDeps
  <2> QED
    BY <1>1, <2>2, <2>3, <2>4, <2>5 DEF HandleNotification
<1>2. CASE HandleKey
  <2>1. PICK t \in todo : (RestartTask(t) \/ ParkOn(t)) /\ todo' = todo \ {t}
    BY <1>2 DEF HandleKey
  <2>2. CASE RestartTask(t)
    BY <1>2, <2>1, <2>2, EnqueueType DEF HandleKey, RestartTask
  <2>3. CASE ParkOn(t)
    <3>1. ready' \in Seq(Tasks \cup {SHUTDOWN}) /\ queued' \subseteq Tasks
      BY <2>3, EnqueueType DEF ParkOn
    <3>2. handling.key \in Tasks
      BY <2>3 DEF ParkOn, Notifications
    <3> QED
      BY <1>2, <2>1, <2>3, <3>1, <3>2 DEF HandleKey, ParkOn
  <2> QED
    BY <2>1, <2>2, <2>3
<1>3. CASE InvokeCallback
  BY <1>3, ThreadCount DEF InvokeCallback, ShutdownItems
<1>4. CASE PushShutdown
  <2>1. Append(ready, SHUTDOWN) \in Seq(Tasks \cup {SHUTDOWN})
    BY PushType
  <2> QED
    BY <1>4, <2>1, ThreadCount DEF PushShutdown
<1>5. CASE Finish
  BY <1>5 DEF Finish
<1> QED
  BY <1>1, <1>2, <1>3, <1>4, <1>5

LEMMA TypeStutter == TypeInv /\ UNCHANGED vars => TypeInv'
BY DEF TypeInv, TypeOK, CurTyped, vars

LEMMA TypeInvariant == Spec => []TypeInv
<1>1. TypeInv /\ [Next]_vars => TypeInv'
  BY TypeFetch, TypeBegin, TypeCheck, TypeCompute, TypeClose, TypeMain, TypeStutter
     DEF Next, WorkerStep, Returned
<1> QED
  BY TypeInit, <1>1, PTL DEF Spec

\* Every variable keeps its shape: the program counters, the notifications and
\* the scans are what the handlers of the code expect to find.
THEOREM TypeCorrect == Spec => []TypeOK
<1>1. TypeInv /\ [Next]_vars => TypeInv'
  BY TypeFetch, TypeBegin, TypeCheck, TypeCompute, TypeClose, TypeMain, TypeStutter
     DEF Next, WorkerStep, Returned
<1>2. TypeInv => TypeOK
  BY DEF TypeInv
<1> QED
  BY TypeInit, <1>1, <1>2, PTL DEF Spec

-----------------------------------------------------------------------------
(* The task lock.                                                          *)

\* The steps of a worker between taking and releasing its lock: it keeps the
\* task it has.
LEMMA KeepsTask ==
    ASSUME NEW w \in Threads, BeginStep(w) \/ CheckStep(w) \/ ComputeStep(w)
    PROVE  /\ pc[w] \in Holding
           /\ pc' = pc \/ \E l \in Holding : pc' = [pc EXCEPT ![w] = l]
           /\ UNCHANGED <<owner, cur>>
<1>1. CASE BeginStep(w)
  BY <1>1 DEF BeginStep, Rebroadcast, BeginTask, EnterLoop, GoTo, Holding
<1>2. CASE CheckStep(w)
  BY <1>2 DEF CheckStep, ReadDependency, MarkCompleted, FailOnDependency,
              BlockOnDependencies, RefuseState, DependenciesComplete, GoTo, Holding
<1>3. CASE ComputeStep(w)
  <2>1. pc[w] \in Holding
    BY <1>3 DEF ComputeStep, Configure, FailConfigure, Deduplicate, FailDeduplicate,
                RunTask, FailRun, StoreTrace, CompleteTask, Holding
  <2>2. \E l \in Holding : pc' = [pc EXCEPT ![w] = l]
    BY <1>3 DEF ComputeStep, Configure, FailConfigure, Deduplicate, FailDeduplicate,
                RunTask, FailRun, StoreTrace, CompleteTask, EnterLoop, GoTo, Holding
  <2> QED
    BY <1>3, <2>1, <2>2 DEF ComputeStep
<1> QED
  BY <1>1, <1>2, <1>3

LEMMA LockInit == Init => LockDiscipline
BY ConstantsAssumption DEF Init, LockDiscipline, Holding

LEMMA LockNext == TypeInv /\ LockDiscipline /\ [Next]_vars => LockDiscipline'
<1> SUFFICES ASSUME TypeInv, LockDiscipline, [Next]_vars PROVE LockDiscipline'
  OBVIOUS
<1> USE DEF LockDiscipline
<1>1. /\ owner \in [Tasks -> Threads \cup {NoThread}]
      /\ pc \in [Threads -> WorkerPCs]
      /\ cur \in [Threads -> Tasks \cup {NoTask}]
  BY DEF TypeInv, TypeOK
<1>2. ASSUME NEW w \in Threads, FetchStep(w) PROVE LockDiscipline'
  <2>1. CASE DequeueTask(w) \/ DequeueShutdown(w) \/ Timeout(w)
    BY <1>1, <2>1 DEF DequeueTask, DequeueShutdown, Timeout, GoTo, Holding
  <2>2. CASE LockTask(w)
    BY <1>1, <2>2, ConstantsAssumption DEF LockTask, Unlocked, GoTo, Holding
  <2>3. CASE DropTask(w)
    BY <1>1, <2>3, ConstantsAssumption DEF DropTask, GoTo, Holding
  <2> QED
    BY <1>2, <2>1, <2>2, <2>3 DEF FetchStep
<1>3. ASSUME NEW w \in Threads, BeginStep(w) \/ CheckStep(w) \/ ComputeStep(w)
      PROVE  LockDiscipline'
  BY <1>1, <1>3, KeepsTask
<1>4. ASSUME NEW w \in Threads, CloseStep(w) PROVE LockDiscipline'
  <2>1. CASE NotifyOutcome(w) \/ CloseTask(w) \/ StorageError(w) \/ ExitThread(w)
    BY <1>1, <2>1 DEF NotifyOutcome, CloseTask, StorageError, ExitThread, GoTo, Holding
  <2>2. CASE ReleaseTask(w)
    BY <1>1, <2>2, ConstantsAssumption DEF ReleaseTask, GoTo, Holding
  <2> QED
    BY <1>4, <2>1, <2>2 DEF CloseStep
<1>5. CASE MainStep \/ Returned \/ UNCHANGED vars
  BY <1>5 DEF MainStep, Returned, vars
<1> QED
  BY <1>2, <1>3, <1>4, <1>5 DEF Next, WorkerStep

\* No two workers compute the same task: a task is locked by a worker exactly
\* while that worker is between taking and releasing its TaskLocker.
THEOREM OneWorkerPerTask == Spec => []LockDiscipline
BY LockInit, LockNext, TypeInvariant, PTL DEF Spec

-----------------------------------------------------------------------------
(* What a step of one worker leaves alone.                                 *)

\* A worker's step touches its own control state, and of the tasks only the one
\* whose lock it holds; hashes, traces and errors only accumulate.
Footprint(w) ==
    /\ \A v \in Threads \ {w} :
          pc'[v] = pc[v] /\ cur'[v] = cur[v] /\ scan'[v] = scan[v]
    /\ \A t \in Tasks : pc[w] \notin Holding \/ t # cur[w] =>
          /\ state'[t] = state[t] /\ reqs'[t] = reqs[t] /\ done'[t] = done[t]
          /\ runs'[t] = runs[t] /\ (t \in hashed' <=> t \in hashed)
    /\ hashed \subseteq hashed' /\ traces \subseteq traces' /\ faults <= faults'

LEMMA WorkerFootprint ==
    ASSUME TypeInv, NEW w \in Threads, WorkerStep(w)
    PROVE  Footprint(w)
<1> USE DEF Footprint, GoTo, SetState
<1>1. /\ pc \in [Threads -> WorkerPCs] /\ scan \in [Threads -> Scans]
      /\ cur \in [Threads -> Tasks \cup {NoTask}]
      /\ state \in [Tasks -> TaskStates] /\ runs \in [Tasks -> Nat]
      /\ reqs \in [Tasks -> SUBSET Tasks] /\ done \in [Tasks -> SUBSET Tasks]
      /\ faults \in Nat
  BY DEF TypeInv, TypeOK
<1>2. CASE FetchStep(w)
  BY <1>1, <1>2 DEF FetchStep, DequeueTask, DequeueShutdown, Timeout, LockTask, DropTask
<1>3. CASE BeginStep(w)
  BY <1>1, <1>3 DEF BeginStep, Rebroadcast, BeginTask, EnterLoop, Holding
<1>4. CASE CheckStep(w)
  <2>1. pc[w] \in Holding
    BY <1>4, KeepsTask
  <2>2. UNCHANGED <<cur, hashed, traces, runs, faults>>
    BY <1>4 DEF CheckStep
  <2>3. CASE \E d \in Tasks : ReadDependency(w, d)
    BY <1>1, <2>1, <2>2, <2>3 DEF ReadDependency
  <2>4. CASE FailOnDependency(w)
    BY <1>1, <2>1, <2>2, <2>4 DEF FailOnDependency, MarkCompleted
  <2>5. CASE BlockOnDependencies(w)
    BY <1>1, <2>1, <2>2, <2>5 DEF BlockOnDependencies, MarkCompleted
  <2>6. CASE RefuseState(w) \/ DependenciesComplete(w)
    BY <1>1, <2>1, <2>2, <2>6 DEF RefuseState, DependenciesComplete, MarkCompleted
  <2> QED
    BY <1>4, <2>3, <2>4, <2>5, <2>6 DEF CheckStep
<1>5. CASE ComputeStep(w)
  <2>1. pc[w] \in Holding
    BY <1>5, KeepsTask
  <2> USE <1>1, <2>1 DEF ComputeStep
  <2>2. CASE Configure(w)
    BY <1>5, <2>2 DEF Configure, EnterLoop
  <2>3. CASE FailConfigure(w)
    BY <1>5, <2>3 DEF FailConfigure
  <2>4. CASE Deduplicate(w) \/ FailDeduplicate(w)
    BY <1>5, <2>4 DEF Deduplicate, FailDeduplicate
  <2>5. CASE RunTask(w) \/ FailRun(w)
    BY <1>5, <2>5 DEF RunTask, FailRun
  <2>6. CASE StoreTrace(w) \/ CompleteTask(w)
    BY <1>5, <2>6 DEF StoreTrace, CompleteTask
  <2> QED
    BY <1>5, <2>2, <2>3, <2>4, <2>5, <2>6
<1>6. CASE CloseStep(w)
  BY <1>1, <1>6 DEF CloseStep, NotifyOutcome, CloseTask, StorageError, ReleaseTask,
                    ExitThread
<1> QED
  BY <1>2, <1>3, <1>4, <1>5, <1>6 DEF WorkerStep

\* Two workers that hold a task hold different ones.
LEMMA Exclusion ==
    ASSUME TypeInv, LockDiscipline, NEW w \in Threads, NEW v \in Threads,
           pc[w] \in Holding, pc[v] \in Holding, cur[w] = cur[v]
    PROVE  w = v
BY HolderFacts DEF LockDiscipline

-----------------------------------------------------------------------------
(* Outcomes are final, traces come first, tasks run once.                  *)

\* A worker past the configuration of its task works on one that has no outcome,
\* and has stored the trace before it declares the task complete.
WorkerOK(w) ==
    /\ pc[w] \in {"configure", "deduplicate", "run", "store", "complete"}
          => state[cur[w]] \notin Terminal
    /\ pc[w] = "complete" => cur[w] \in traces

\* A task without an outcome that no worker has just run has run at most once
\* for every storage error.
Rerun(t) ==
    (state[t] \notin Terminal
        /\ \A w \in Threads : cur[w] = t => pc[w] \notin {"store", "complete"})
    => runs[t] <= faults

TaskOK(t) ==
    /\ state[t] = "Completed" => t \in traces
    /\ runs[t] <= 1 + faults
    /\ Rerun(t)

RunInv == (\A w \in Threads : WorkerOK(w)) /\ (\A t \in Tasks : TaskOK(t))

LEMMA RunInit == Init => RunInv
BY ConstantsAssumption DEF Init, RunInv, WorkerOK, TaskOK, Rerun, Terminal

\* Before the run of its task a worker has every earlier run paid for by an error.
LEMMA Fresh ==
    ASSUME TypeInv, LockDiscipline, RunInv, NEW w \in Threads,
           pc[w] \in Holding, pc[w] \notin {"store", "complete"},
           state[cur[w]] \notin Terminal
    PROVE  runs[cur[w]] <= faults
<1>1. cur[w] \in Tasks
  BY HolderFacts
<1>2. \A v \in Threads : cur[v] = cur[w] => pc[v] \notin {"store", "complete"}
  BY Exclusion DEF Holding
<1> QED
  BY <1>1, <1>2 DEF RunInv, TaskOK, Rerun

\* What a step does to the worker that takes it and to the task it holds.
LEMMA RunOwn ==
    ASSUME TypeInv, LockDiscipline, RunInv, NEW w \in Threads, WorkerStep(w),
           pc[w] \in Holding
    PROVE  WorkerOK(w)' /\ \A t \in Tasks : t = cur[w] => TaskOK(t)'
<1>1. /\ pc \in [Threads -> WorkerPCs] /\ cur \in [Threads -> Tasks \cup {NoTask}]
      /\ state \in [Tasks -> TaskStates] /\ runs \in [Tasks -> Nat]
      /\ faults \in Nat /\ cur[w] \in Tasks
  BY HolderFacts DEF TypeInv, TypeOK
<1>2. WorkerOK(w) /\ TaskOK(cur[w])
  BY <1>1 DEF RunInv
<1>3. pc[w] \notin {"store", "complete"} /\ state[cur[w]] \notin Terminal
        => runs[cur[w]] <= faults
  BY Fresh
<1> USE <1>1, <1>2, <1>3 DEF WorkerOK, TaskOK, Rerun, GoTo, SetState, Terminal
<1>4. CASE BeginStep(w)
  BY <1>4 DEF BeginStep, Rebroadcast, BeginTask, EnterLoop
<1>5. CASE CheckStep(w)
  BY <1>5 DEF CheckStep, ReadDependency, MarkCompleted, FailOnDependency,
              BlockOnDependencies, RefuseState, DependenciesComplete
<1>6. CASE ComputeStep(w)
  <2> USE DEF ComputeStep
  <2>1. CASE Configure(w)
    BY <1>6, <2>1 DEF Configure, EnterLoop
  <2>2. CASE FailConfigure(w)
    BY <1>6, <2>2 DEF FailConfigure
  <2>3. CASE Deduplicate(w) \/ FailDeduplicate(w)
    BY <1>6, <2>3 DEF Deduplicate, FailDeduplicate
  <2>4. CASE RunTask(w) \/ FailRun(w)
    BY <1>6, <2>4 DEF RunTask, FailRun
  <2>5. CASE StoreTrace(w) \/ CompleteTask(w)
    BY <1>6, <2>5 DEF StoreTrace, CompleteTask
  <2> QED
    BY <1>6, <2>1, <2>2, <2>3, <2>4, <2>5
<1>7. CASE CloseStep(w)
  BY <1>7 DEF CloseStep, NotifyOutcome, CloseTask, StorageError, ReleaseTask,
              ExitThread, Holding
<1>8. ~ FetchStep(w)
  BY DEF FetchStep, DequeueTask, DequeueShutdown, Timeout, LockTask, DropTask, Holding
<1> QED
  BY <1>4, <1>5, <1>6, <1>7, <1>8 DEF WorkerStep

LEMMA RunNext == TypeInv /\ LockDiscipline /\ RunInv /\ [Next]_vars => RunInv'
<1> SUFFICES ASSUME TypeInv, LockDiscipline, RunInv, [Next]_vars PROVE RunInv'
  OBVIOUS
<1>1. ASSUME NEW w \in Threads, WorkerStep(w) PROVE RunInv'
  <2>1. Footprint(w)
    BY <1>1, WorkerFootprint
  <2>2. ASSUME NEW v \in Threads \ {w} PROVE WorkerOK(v)'
    <3>1. CASE pc[v] \in Holding
      <4>1. cur[v] \in Tasks /\ (pc[w] \notin Holding \/ cur[v] # cur[w])
        BY <3>1, HolderFacts, Exclusion
      <4> QED
        BY <2>1, <4>1 DEF Footprint, RunInv, WorkerOK, Holding
    <3>2. CASE pc[v] \notin Holding
      BY <2>1, <3>2 DEF Footprint, WorkerOK, Holding
    <3> QED
      BY <3>1, <3>2
  <2>3. ASSUME NEW t \in Tasks, pc[w] \notin Holding \/ t # cur[w] PROVE TaskOK(t)'
    <3>1. TaskOK(t) /\ runs[t] \in Nat /\ faults \in Nat /\ faults' \in Nat
      BY <1>1, TypeFetch, TypeBegin, TypeCheck, TypeCompute, TypeClose
         DEF RunInv, TypeInv, TypeOK, WorkerStep
    <3>2. /\ state'[t] = state[t] /\ runs'[t] = runs[t]
          /\ traces \subseteq traces' /\ faults <= faults'
      BY <2>1, <2>3 DEF Footprint
    <3>3. ASSUME \A v \in Threads : cur'[v] = t => pc'[v] \notin {"store", "complete"}
          PROVE  \A v \in Threads : cur[v] = t => pc[v] \notin {"store", "complete"}
      BY <2>1, <2>3, <3>3 DEF Footprint, Holding
    <3> QED
      BY <3>1, <3>2, <3>3 DEF TaskOK, Rerun
  <2>4. CASE pc[w] \in Holding
    <3>1. WorkerOK(w)' /\ \A t \in Tasks : t = cur[w] => TaskOK(t)'
      BY <1>1, <2>4, RunOwn
    <3> QED
      BY <2>2, <2>3, <3>1 DEF RunInv
  <2>5. CASE pc[w] \notin Holding
    <3>1. WorkerOK(w)'
      <4>1. FetchStep(w) \/ CloseStep(w)
        BY <1>1, <2>5, KeepsTask DEF WorkerStep
      <4> QED
        BY <2>5, <4>1
           DEF FetchStep, DequeueTask, DequeueShutdown, Timeout, LockTask, DropTask,
               CloseStep, NotifyOutcome, CloseTask, StorageError, ReleaseTask,
               ExitThread, GoTo, WorkerOK, Holding, TypeInv, TypeOK
    <3> QED
      BY <2>2, <2>3, <2>5, <3>1 DEF RunInv
  <2> QED
    BY <2>4, <2>5
<1>2. CASE MainStep \/ Returned \/ UNCHANGED vars
  BY <1>2 DEF MainStep, Returned, vars, RunInv, WorkerOK, TaskOK, Rerun
<1> QED
  BY <1>1, <1>2 DEF Next

LEMMA RunInvariant == Spec => []RunInv
BY RunInit, RunNext, TypeInvariant, OneWorkerPerTask, PTL DEF Spec

\* A dependent that sees a task Completed finds its trace in the artifact cache.
THEOREM TraceBeforeCompleted == Spec => []CompletedHasTrace
<1>1. RunInv => CompletedHasTrace
  BY DEF RunInv, TaskOK, CompletedHasTrace
<1> QED
  BY <1>1, RunInvariant, PTL

\* However often a task is queued, rebroadcast, dropped or restarted, it runs
\* once, and once more at most for every storage error.
THEOREM TasksRunOnce == Spec => []RunsOnce
<1>1. RunInv => RunsOnce
  BY DEF RunInv, TaskOK, RunsOnce
<1> QED
  BY <1>1, RunInvariant, PTL

-----------------------------------------------------------------------------
(* Why the runner implements the abstract build.                           *)

\* A task wants nothing more than it has received.
Satisfied(t) == reqs[t] = {} /\ Requests[t][done[t]] \subseteq done[t]

\* Only completed dependencies are received, every dependency was requested on
\* top of some that were received, and a task that has its hash is satisfied.
TaskJustified(t) ==
    /\ \A d \in done[t] : state[d] = "Completed"
    /\ \A d \in reqs[t] : \E D \in SUBSET done[t] : d \in Requests[t][D]
    /\ t \in hashed => Satisfied(t)

\* A scan is about the dependencies of the worker's task, and what it has seen
\* is still true.
ScanTrue(w) ==
    /\ \A d \in scan[w].completed : state[d] = "Completed"
    /\ \A d \in scan[w].failed : state[d] = "Failed"
    /\ pc[w] \in Holding =>
          /\ scan[w].unread \subseteq reqs[cur[w]]
          /\ scan[w].completed \subseteq reqs[cur[w]]
          /\ scan[w].failed \subseteq reqs[cur[w]]
    /\ pc[w] \notin {"check", "notify", "close", "release", "error"} =>
          scan[w] = EmptyScan

\* A worker past the configuration has a satisfied task, and a task is never
\* configured again once it has its hash.
ConfiguredOnce(w) ==
    /\ pc[w] \in {"deduplicate", "run", "store", "complete"} => Satisfied(cur[w])
    /\ pc[w] \in {"check", "configure"} => cur[w] \notin hashed
    /\ pc[w] \in Holding /\ scan[w].unread # {} => cur[w] \notin hashed

Justified ==
    /\ \A t \in Tasks : TaskJustified(t)
    /\ \A w \in Threads : ScanTrue(w) /\ ConfiguredOnce(w)

LEMMA EmptyScanFields ==
    /\ EmptyScan.unread = {} /\ EmptyScan.completed = {} /\ EmptyScan.failed = {}
BY ScanType DEF EmptyScan

LEMMA JustifiedInit == Init => Justified
<1> SUFFICES ASSUME Init PROVE Justified
  OBVIOUS
<1>1. \A t \in Tasks : TaskJustified(t)
  BY DEF Init, TaskJustified
<1>2. \A w \in Threads : ScanTrue(w) /\ ConfiguredOnce(w)
  BY EmptyScanFields DEF Init, ScanTrue, ConfiguredOnce, Holding
<1> QED
  BY <1>1, <1>2 DEF Justified

\* An outcome is final.
LEMMA OutcomeFinal ==
    ASSUME TypeInv, RunInv, NEW w \in Threads, WorkerStep(w),
           NEW t \in Tasks, state[t] \in Terminal
    PROVE  state'[t] = state[t]
<1>1. CASE pc[w] \notin Holding \/ t # cur[w]
  BY <1>1, WorkerFootprint DEF Footprint
<1>2. CASE pc[w] \in Holding /\ t = cur[w]
  <2>1. WorkerOK(w)
    BY DEF RunInv
  <2>2. ~ FetchStep(w)
    BY <1>2 DEF FetchStep, DequeueTask, DequeueShutdown, Timeout, LockTask, DropTask,
                Holding
  <2>3. CASE BeginStep(w)
    BY <1>2, <2>3 DEF BeginStep, Rebroadcast, BeginTask
  <2>4. CASE CheckStep(w)
    BY <1>2, <2>4 DEF CheckStep, ReadDependency, FailOnDependency,
                      BlockOnDependencies, RefuseState, DependenciesComplete
  <2>5. CASE ComputeStep(w)
    BY <1>2, <2>1, <2>5
       DEF ComputeStep, Configure, FailConfigure, Deduplicate, FailDeduplicate, RunTask,
           FailRun, StoreTrace, CompleteTask, WorkerOK
  <2>6. CASE CloseStep(w)
    BY <2>6 DEF CloseStep
  <2> QED
    BY <2>2, <2>3, <2>4, <2>5, <2>6 DEF WorkerStep
<1> QED
  BY <1>1, <1>2

\* What reading a dependency, and acting on the scan, do to it.
LEMMA JustifiedCheck ==
    ASSUME TypeInv, Justified, NEW w \in Threads, CheckStep(w),
           \A t \in Tasks : state[t] \in Terminal => state'[t] = state[t]
    PROVE  /\ ScanTrue(w)' /\ ConfiguredOnce(w)'
           /\ \A t \in Tasks : t = cur[w] => TaskJustified(t)'
<1>1. /\ pc[w] \in Holding /\ cur[w] \in Tasks /\ pc \in [Threads -> WorkerPCs]
      /\ reqs \in [Tasks -> SUBSET Tasks] /\ done \in [Tasks -> SUBSET Tasks]
      /\ scan \in [Threads -> Scans] /\ UNCHANGED <<cur, hashed>>
  BY KeepsTask, HolderFacts DEF CheckStep
<1>2. /\ scan[w].unread \in SUBSET Tasks
      /\ scan[w].completed \in SUBSET Tasks
      /\ scan[w].failed \in SUBSET Tasks
  BY <1>1, ScanFields
<1>3. TaskJustified(cur[w]) /\ ScanTrue(w) /\ ConfiguredOnce(w)
  BY <1>1 DEF Justified
<1>4. pc[w] = "check" /\ cur[w] \notin hashed
  BY <1>3 DEF CheckStep, ReadDependency, MarkCompleted, FailOnDependency,
              BlockOnDependencies, RefuseState, DependenciesComplete, ConfiguredOnce
<1>5. \A d \in Tasks : state[d] \in {"Completed", "Failed"} => state'[d] = state[d]
  BY DEF Terminal
<1>6. CASE \E d \in Tasks : ReadDependency(w, d)
  <2>1. PICK d \in Tasks : ReadDependency(w, d)
    BY <1>6
  <2> DEFINE U == scan[w].unread \ {d}
             C == IF state[d] = "Completed" THEN scan[w].completed \cup {d}
                                            ELSE scan[w].completed
             F == IF state[d] = "Failed" THEN scan[w].failed \cup {d}
                                         ELSE scan[w].failed
  <2>2. scan'[w] = Scan(U, C, F)
    BY <1>1, <2>1 DEF ReadDependency
  <2>3. U \in SUBSET Tasks /\ C \in SUBSET Tasks /\ F \in SUBSET Tasks
    BY <1>2
  <2>4. scan'[w].unread = U /\ scan'[w].completed = C /\ scan'[w].failed = F
    BY <2>2, <2>3, ScanType
  <2>5. UNCHANGED <<pc, reqs, done, state>> /\ d \in scan[w].unread
    BY <2>1 DEF ReadDependency
  <2> HIDE DEF U, C, F
  <2>6. /\ C \subseteq scan[w].completed \cup {d} /\ F \subseteq scan[w].failed \cup {d}
        /\ d \in C => state[d] = "Completed" \/ d \in scan[w].completed
        /\ d \in F => state[d] = "Failed" \/ d \in scan[w].failed
        /\ U \subseteq scan[w].unread
    BY DEF U, C, F
  <2>7. ScanTrue(w)'
    BY <1>1, <1>3, <1>4, <2>4, <2>5, <2>6 DEF ScanTrue
  <2> QED
    BY <1>1, <1>3, <1>4, <2>5, <2>7
       DEF ConfiguredOnce, TaskJustified, Satisfied
<1>7. CASE \/ FailOnDependency(w) \/ BlockOnDependencies(w)
           \/ RefuseState(w) \/ DependenciesComplete(w)
  <2>1. MarkCompleted(w)
    BY <1>7 DEF FailOnDependency, BlockOnDependencies, RefuseState,
                DependenciesComplete
  <2>2. pc'[w] \in {"notify", "release", "error", "configure"}
    BY <1>1, <1>7 DEF FailOnDependency, BlockOnDependencies, RefuseState,
                      DependenciesComplete, GoTo
  <2>3. /\ scan'[w] = EmptyScan
        /\ reqs'[cur[w]] = reqs[cur[w]] \ scan[w].completed
        /\ done'[cur[w]] = done[cur[w]] \cup scan[w].completed
    BY <1>1, <2>1 DEF MarkCompleted
  <2>4. ScanTrue(w)' /\ ConfiguredOnce(w)'
    BY <1>1, <1>4, <2>2, <2>3, EmptyScanFields DEF ScanTrue, ConfiguredOnce
  <2>5. \A d \in done'[cur[w]] : state'[d] = "Completed"
    BY <1>1, <1>2, <1>3, <1>5, <2>3 DEF ScanTrue, TaskJustified
  <2>6. \A d \in reqs'[cur[w]] : \E D \in SUBSET done'[cur[w]] :
          d \in Requests[cur[w]][D]
    BY <1>3, <2>3 DEF TaskJustified
  <2> QED
    BY <1>1, <1>4, <2>4, <2>5, <2>6 DEF TaskJustified
<1> QED
  BY <1>6, <1>7 DEF CheckStep

LEMMA JustifiedCompute ==
    ASSUME TypeInv, Justified, NEW w \in Threads, ComputeStep(w),
           \A t \in Tasks : state[t] \in Terminal => state'[t] = state[t]
    PROVE  /\ ScanTrue(w)' /\ ConfiguredOnce(w)'
           /\ \A t \in Tasks : t = cur[w] => TaskJustified(t)'
<1>1. /\ pc[w] \in Holding /\ cur[w] \in Tasks /\ pc \in [Threads -> WorkerPCs]
      /\ reqs \in [Tasks -> SUBSET Tasks] /\ done \in [Tasks -> SUBSET Tasks]
      /\ scan \in [Threads -> Scans] /\ UNCHANGED <<cur, done>>
  BY KeepsTask, HolderFacts DEF ComputeStep
<1>2. TaskJustified(cur[w]) /\ ScanTrue(w) /\ ConfiguredOnce(w)
  BY <1>1 DEF Justified
<1>3. /\ pc[w] \in {"configure", "deduplicate", "run", "store", "complete"}
      /\ scan[w] = EmptyScan
  BY <1>2 DEF ComputeStep, Configure, FailConfigure, Deduplicate, FailDeduplicate,
              RunTask, FailRun, StoreTrace, CompleteTask, ScanTrue
<1>4. \A d \in done[cur[w]] : state'[d] = "Completed"
  BY <1>1, <1>2 DEF TaskJustified, Terminal
<1>5. Requests[cur[w]][done[cur[w]]] \in SUBSET Tasks
  BY <1>1, RequestsType
<1>6. CASE Configure(w)
  <2> DEFINE D == reqs[cur[w]] \cup (Requests[cur[w]][done[cur[w]]] \ done[cur[w]])
  <2>1. reqs'[cur[w]] = D /\ hashed' = hashed /\ cur[w] \notin hashed
    BY <1>1, <1>2, <1>6 DEF Configure, ConfiguredOnce
  <2>2. \A d \in D : \E E \in SUBSET done[cur[w]] : d \in Requests[cur[w]][E]
    BY <1>2 DEF TaskJustified
  <2>3. CASE D = {}
    <3>1. pc'[w] = "deduplicate" /\ scan' = scan
      BY <1>1, <1>6, <2>3 DEF Configure, GoTo
    <3>2. Requests[cur[w]][done[cur[w]]] \subseteq done[cur[w]]
      BY <2>3
    <3>3. Satisfied(cur[w])'
      BY <1>1, <2>1, <2>3, <3>2 DEF Satisfied
    <3> QED
      BY <1>1, <1>2, <1>3, <1>4, <2>1, <2>2, <3>1, <3>3, EmptyScanFields
         DEF ScanTrue, ConfiguredOnce, TaskJustified
  <2>4. CASE D # {}
    <3>1. pc'[w] = "check" /\ scan'[w] = Scan(D, {}, {})
      BY <1>1, <1>6, <2>4 DEF Configure, EnterLoop, GoTo
    <3>2. scan'[w].unread = D /\ scan'[w].completed = {} /\ scan'[w].failed = {}
      BY <1>1, <1>5, <3>1, ScanType
    <3> HIDE DEF D
    <3>3. ScanTrue(w)' /\ ConfiguredOnce(w)'
      BY <1>1, <2>1, <3>1, <3>2 DEF ScanTrue, ConfiguredOnce
    <3> QED
      BY <1>1, <1>4, <2>1, <2>2, <3>3 DEF TaskJustified
  <2> QED
    BY <2>3, <2>4
<1>7. CASE FailConfigure(w)
  <2>1. PICK R \in SUBSET (Requests[cur[w]][done[cur[w]]] \ done[cur[w]]) :
          /\ reqs' = [reqs EXCEPT ![cur[w]] = reqs[cur[w]] \cup R]
          /\ scan' = [scan EXCEPT ![w] = Scan(reqs[cur[w]] \cup R, {}, {})]
    BY <1>1, <1>7 DEF FailConfigure
  <2> DEFINE D == reqs[cur[w]] \cup R
  <2>2. D \in SUBSET Tasks
    BY <1>1, <1>5
  <2>3. /\ reqs'[cur[w]] = D /\ scan'[w].unread = D
        /\ scan'[w].completed = {} /\ scan'[w].failed = {}
    BY <1>1, <2>1, <2>2, ScanType
  <2>4. pc'[w] = "notify" /\ hashed' = hashed /\ cur[w] \notin hashed
    BY <1>1, <1>2, <1>7 DEF FailConfigure, ConfiguredOnce, GoTo
  <2>5. \A d \in D : \E E \in SUBSET done[cur[w]] : d \in Requests[cur[w]][E]
    BY <1>2 DEF TaskJustified
  <2> HIDE DEF D
  <2>6. ScanTrue(w)' /\ ConfiguredOnce(w)'
    BY <1>1, <2>3, <2>4 DEF ScanTrue, ConfiguredOnce
  <2> QED
    BY <1>1, <1>4, <2>3, <2>4, <2>5, <2>6 DEF TaskJustified
<1>8. CASE \/ Deduplicate(w) \/ FailDeduplicate(w) \/ RunTask(w) \/ FailRun(w)
           \/ StoreTrace(w) \/ CompleteTask(w)
  <2>1. Satisfied(cur[w]) /\ UNCHANGED <<reqs, scan>>
    BY <1>2, <1>8 DEF Deduplicate, FailDeduplicate, RunTask, FailRun, StoreTrace,
                      CompleteTask, ConfiguredOnce
  <2>2. pc'[w] \in {"run", "store", "complete", "notify"}
    BY <1>1, <1>8 DEF Deduplicate, FailDeduplicate, RunTask, FailRun, StoreTrace,
                      CompleteTask, GoTo
  <2>3. Satisfied(cur[w])'
    BY <1>1, <2>1 DEF Satisfied
  <2>4. ScanTrue(w)' /\ ConfiguredOnce(w)'
    BY <1>1, <1>3, <2>1, <2>2, <2>3, EmptyScanFields DEF ScanTrue, ConfiguredOnce
  <2> QED
    BY <1>1, <1>2, <1>4, <2>1, <2>3, <2>4 DEF TaskJustified
<1> QED
  BY <1>6, <1>7, <1>8 DEF ComputeStep

LEMMA JustifiedOther ==
    ASSUME TypeInv, Justified, NEW w \in Threads,
           BeginStep(w) \/ CloseStep(w) \/ FetchStep(w),
           \A t \in Tasks : state[t] \in Terminal => state'[t] = state[t]
    PROVE  /\ ScanTrue(w)' /\ ConfiguredOnce(w)'
           /\ \A t \in Tasks : TaskJustified(t)'
<1>1. /\ pc \in [Threads -> WorkerPCs] /\ scan \in [Threads -> Scans]
      /\ cur \in [Threads -> Tasks \cup {NoTask}]
      /\ done \in [Tasks -> SUBSET Tasks] /\ UNCHANGED <<reqs, done, hashed>>
  BY DEF TypeInv, TypeOK, BeginStep, CloseStep, FetchStep
<1>2. ScanTrue(w) /\ ConfiguredOnce(w) /\ \A t \in Tasks : TaskJustified(t)
  BY DEF Justified
<1>3. \A t \in Tasks : TaskJustified(t)'
  BY <1>1, <1>2 DEF TaskJustified, Satisfied, Terminal
<1>4. /\ \A d \in scan[w].completed : state'[d] = "Completed"
      /\ \A d \in scan[w].failed : state'[d] = "Failed"
  BY <1>1, <1>2, ScanFields DEF ScanTrue, Terminal
<1>5. CASE FetchStep(w)
  <2>1. pc[w] \in {"fetch", "lock"} /\ pc'[w] \in {"fetch", "lock", "exit", "begin"}
    BY <1>1, <1>5 DEF FetchStep, DequeueTask, DequeueShutdown, Timeout, LockTask,
                      DropTask, GoTo
  <2>2. scan[w] = EmptyScan /\ scan' = scan
    BY <1>2, <1>5, <2>1 DEF FetchStep, ScanTrue
  <2> QED
    BY <1>3, <2>1, <2>2, EmptyScanFields DEF ScanTrue, ConfiguredOnce
<1>6. CASE Rebroadcast(w) /\ BeginStep(w)
  <2>1. pc[w] = "begin" /\ pc'[w] = "release"
    BY <1>1, <1>6 DEF Rebroadcast, GoTo
  <2>2. scan[w] = EmptyScan /\ scan' = scan
    BY <1>2, <1>6, <2>1 DEF Rebroadcast, ScanTrue
  <2> QED
    BY <1>3, <2>1, <2>2, EmptyScanFields DEF ScanTrue, ConfiguredOnce
<1>7. CASE BeginTask(w) /\ BeginStep(w)
  <2>1. pc[w] \in Holding /\ cur' = cur /\ pc[w] = "begin" /\ scan[w] = EmptyScan
    BY <1>2, <1>7 DEF BeginTask, BeginStep, Holding, ScanTrue
  <2>2. reqs[cur[w]] \in SUBSET Tasks /\ cur[w] \in Tasks
    BY <2>1, HolderFacts
  <2>3. CASE cur[w] \in hashed
    <3>1. Satisfied(cur[w]) /\ pc'[w] = "run" /\ scan' = scan
      BY <1>1, <1>2, <1>7, <2>2, <2>3 DEF BeginTask, GoTo, TaskJustified
    <3> QED
      BY <1>1, <1>3, <2>1, <3>1, EmptyScanFields
         DEF ScanTrue, ConfiguredOnce, Satisfied
  <2>4. CASE cur[w] \notin hashed
    <3>1. /\ scan'[w] = Scan(reqs[cur[w]], {}, {})
          /\ pc'[w] = IF reqs[cur[w]] # {} THEN "check" ELSE "configure"
      BY <1>1, <1>7, <2>4 DEF BeginTask, EnterLoop, GoTo
    <3>2. /\ scan'[w].unread = reqs[cur[w]]
          /\ scan'[w].completed = {} /\ scan'[w].failed = {}
      BY <2>2, <3>1, ScanType
    <3>3. reqs[cur[w]] = {} => scan'[w] = EmptyScan
      BY <3>1 DEF EmptyScan
    <3> QED
      BY <1>1, <1>3, <2>1, <2>4, <3>1, <3>2, <3>3 DEF ScanTrue, ConfiguredOnce
  <2> QED
    BY <2>3, <2>4
<1>8. CASE ReleaseTask(w)
  <2>1. scan'[w] = EmptyScan /\ pc'[w] \in {"fetch", "exit"}
    BY <1>1, <1>8 DEF ReleaseTask, GoTo
  <2> QED
    BY <1>3, <2>1, EmptyScanFields DEF ScanTrue, ConfiguredOnce, Holding
<1>9. CASE ExitThread(w)
  <2>1. scan' = scan /\ pc[w] = "exit" /\ pc'[w] = "gone"
    BY <1>1, <1>9 DEF ExitThread, GoTo
  <2> QED
    BY <1>2, <1>3, <2>1, EmptyScanFields DEF ScanTrue, ConfiguredOnce, Holding
<1>10. CASE NotifyOutcome(w) \/ CloseTask(w) \/ StorageError(w)
  <2>1. /\ UNCHANGED <<scan, cur>>
        /\ pc[w] \in {"notify", "close", "store"}
        /\ pc'[w] \in {"close", "check", "release", "error"}
        /\ pc'[w] = "check" => scan[w].unread # {}
    BY <1>1, <1>10 DEF NotifyOutcome, CloseTask, StorageError, GoTo
  <2> QED
    BY <1>1, <1>2, <1>3, <1>4, <2>1 DEF ScanTrue, ConfiguredOnce, Holding
<1> QED
  BY <1>3, <1>5, <1>6, <1>7, <1>8, <1>9, <1>10 DEF BeginStep, CloseStep

LEMMA JustifiedNext ==
    TypeInv /\ LockDiscipline /\ RunInv /\ Justified /\ [Next]_vars => Justified'
<1> SUFFICES ASSUME TypeInv, LockDiscipline, RunInv, Justified, [Next]_vars
             PROVE  Justified'
  OBVIOUS
<1>1. ASSUME NEW w \in Threads, WorkerStep(w) PROVE Justified'
  <2>1. Footprint(w)
    BY <1>1, WorkerFootprint
  <2>2. \A t \in Tasks : state[t] \in Terminal => state'[t] = state[t]
    BY <1>1, OutcomeFinal
  <2>3. /\ ScanTrue(w)' /\ ConfiguredOnce(w)'
        /\ \A t \in Tasks : pc[w] \in Holding /\ t = cur[w] => TaskJustified(t)'
    BY <1>1, <2>2, JustifiedCheck, JustifiedCompute, JustifiedOther DEF WorkerStep
  <2>4. ASSUME NEW t \in Tasks, pc[w] \notin Holding \/ t # cur[w]
        PROVE  TaskJustified(t)'
    <3>1. TaskJustified(t) /\ done[t] \in SUBSET Tasks
      BY DEF Justified, TypeInv, TypeOK
    <3>2. reqs'[t] = reqs[t] /\ done'[t] = done[t] /\ (t \in hashed' <=> t \in hashed)
      BY <2>1, <2>4 DEF Footprint
    <3> QED
      BY <2>2, <3>1, <3>2 DEF TaskJustified, Satisfied, Terminal
  <2>5. ASSUME NEW v \in Threads \ {w} PROVE ScanTrue(v)' /\ ConfiguredOnce(v)'
    <3>1. /\ pc'[v] = pc[v] /\ cur'[v] = cur[v] /\ scan'[v] = scan[v]
          /\ ScanTrue(v) /\ ConfiguredOnce(v) /\ scan[v] \in Scans
      BY <2>1 DEF Footprint, Justified, TypeInv, TypeOK
    <3>2. /\ \A d \in scan[v].completed : state'[d] = "Completed"
          /\ \A d \in scan[v].failed : state'[d] = "Failed"
      BY <2>2, <3>1, ScanFields DEF ScanTrue, Terminal
    <3>3. pc[v] \in Holding =>
            /\ reqs'[cur[v]] = reqs[cur[v]] /\ done'[cur[v]] = done[cur[v]]
            /\ cur[v] \in hashed' <=> cur[v] \in hashed
      BY <2>1, Exclusion, HolderFacts DEF Footprint
    <3> QED
      BY <3>1, <3>2, <3>3 DEF ScanTrue, ConfiguredOnce, Satisfied, Holding
  <2> QED
    BY <2>3, <2>4, <2>5 DEF Justified
<1>2. CASE MainStep \/ Returned \/ UNCHANGED vars
  BY <1>2 DEF MainStep, Returned, vars, Justified, TaskJustified, Satisfied, ScanTrue,
              ConfiguredOnce
<1> QED
  BY <1>1, <1>2 DEF Next

LEMMA JustifiedInvariant == Spec => []Justified
BY JustifiedInit, JustifiedNext, TypeInvariant, OneWorkerPerTask, RunInvariant, PTL
   DEF Spec

\* An outcome that was announced is one, and a target that was crossed off has
\* its outcome.
Ended == {t \in Tasks : state[t] \in Terminal}
IsOutcome(n) == n.type = "STATE_CHANGED" /\ n.state \in Terminal
Genuine(n, E) == IsOutcome(n) => n.key \in E
AllGenuine(q, E) == \A i \in DOMAIN q : Genuine(q[i], E)

Resolved ==
    /\ AllGenuine(notifications, Ended)
    /\ handling # NoMessage => Genuine(handling, Ended)
    /\ Targets \ targets \subseteq Ended

LEMMA ResolvedInit == Init => Resolved
BY DEF Init, Resolved, AllGenuine

\* Queues of genuine notifications: appending, popping, and more outcomes.
LEMMA GenuineQueues ==
    ASSUME NEW q \in Seq(Notifications), NEW E, NEW F, E \subseteq F,
           AllGenuine(q, E)
    PROVE  /\ AllGenuine(q, F)
           /\ \A n \in Notifications : Genuine(n, F) => AllGenuine(Append(q, n), F)
           /\ q # <<>> => Genuine(Head(q), E) /\ AllGenuine(Tail(q), E)
<1>1. AllGenuine(q, F)
  BY DEF AllGenuine, Genuine
<1>2. ASSUME NEW n \in Notifications, Genuine(n, F) PROVE AllGenuine(Append(q, n), F)
  BY <1>1, <1>2, AppendProperties DEF AllGenuine
<1>3. ASSUME q # <<>> PROVE Genuine(Head(q), E) /\ AllGenuine(Tail(q), E)
  <2>1. Head(q) = q[1] /\ 1 \in DOMAIN q
    BY <1>3
  <2>2. \A i \in DOMAIN Tail(q) : i + 1 \in DOMAIN q /\ Tail(q)[i] = q[i + 1]
    BY <1>3
  <2> QED
    BY <2>1, <2>2 DEF AllGenuine
<1> QED
  BY <1>1, <1>2, <1>3

\* A worker announces an outcome only after it has set it.
LEMMA Announces ==
    ASSUME TypeInv, RunInv, NEW w \in Threads, WorkerStep(w),
           AllGenuine(notifications, Ended)
    PROVE  Ended \subseteq Ended' /\ AllGenuine(notifications', Ended')
<1>1. notifications \in Seq(Notifications)
  BY DEF TypeInv, TypeOK
<1>2. Ended \subseteq Ended'
  BY OutcomeFinal DEF Ended
<1>3. ASSUME NEW n \in Notifications, Genuine(n, Ended'),
             notifications' = Append(notifications, n)
      PROVE  AllGenuine(notifications', Ended')
  BY <1>1, <1>2, <1>3, GenuineQueues
<1>4. CASE UNCHANGED notifications
  BY <1>1, <1>2, <1>4, GenuineQueues
<1>5. CASE \/ Rebroadcast(w) /\ BeginStep(w)
           \/ NotifyOutcome(w) /\ CloseStep(w)
  <2> DEFINE n == StateChanged(cur[w], state[cur[w]])
  <2>1. pc[w] \in Holding /\ state' = state /\ notifications' = Append(notifications, n)
    BY <1>5 DEF Rebroadcast, BeginStep, NotifyOutcome, CloseStep, Notify, Holding
  <2>2. cur[w] \in Tasks /\ n \in Notifications
    BY <2>1, HolderFacts, NotificationTypes DEF TypeInv, TypeOK
  <2>3. Genuine(n, Ended')
    BY <2>1, <2>2 DEF Genuine, IsOutcome, StateChanged, Ended
  <2> QED
    BY <1>2, <1>3, <2>1, <2>2, <2>3
<1>6. CASE BeginTask(w)
  <2>1. pc[w] \in Holding
        /\ notifications' = Append(notifications, StateChanged(cur[w], "Running"))
    BY <1>6 DEF BeginTask, Notify, Holding
  <2>2. StateChanged(cur[w], "Running") \in Notifications
    BY <2>1, HolderFacts, NotificationTypes DEF TaskStates
  <2>3. Genuine(StateChanged(cur[w], "Running"), Ended')
    BY DEF Genuine, IsOutcome, StateChanged, Terminal
  <2> QED
    BY <1>2, <1>3, <2>1, <2>2, <2>3
<1>7. CASE BlockOnDependencies(w)
  <2> DEFINE m == StateChanged(cur[w], "Blocked")
             n == TaskBlocked(cur[w], reqs[cur[w]])
  <2>1. pc[w] \in Holding /\ notifications' = notifications \o <<m, n>>
    BY <1>7 DEF BlockOnDependencies, MarkCompleted, Holding
  <2>2. m \in Notifications /\ n \in Notifications
    BY <2>1, HolderFacts, NotificationTypes DEF TaskStates
  <2>3. Genuine(m, Ended') /\ Genuine(n, Ended')
    BY DEF Genuine, IsOutcome, StateChanged, TaskBlocked, Terminal
  <2> HIDE DEF m, n
  <2>4. notifications' = Append(Append(notifications, m), n)
    BY <1>1, <2>1, <2>2
  <2>5. /\ AllGenuine(Append(notifications, m), Ended')
        /\ Append(notifications, m) \in Seq(Notifications)
    BY <1>1, <1>2, <2>2, <2>3, GenuineQueues, PushType
  <2> QED
    BY <1>2, <2>2, <2>3, <2>4, <2>5, GenuineQueues
<1>8. CASE ExitThread(w)
  <2>1. notifications' = Append(notifications, ThreadCancelled(w))
    BY <1>8 DEF ExitThread, Notify
  <2>2. Genuine(ThreadCancelled(w), Ended')
    BY DEF Genuine, IsOutcome, ThreadCancelled
  <2> QED
    BY <1>2, <1>3, <2>1, <2>2, NotificationTypes
<1> QED
  BY <1>2, <1>4, <1>5, <1>6, <1>7, <1>8
     DEF WorkerStep, FetchStep, BeginStep, CheckStep, ReadDependency, FailOnDependency,
         RefuseState, DependenciesComplete, ComputeStep, CloseStep, CloseTask,
         StorageError, ReleaseTask

LEMMA ResolvedNext == TypeInv /\ RunInv /\ Resolved /\ [Next]_vars => Resolved'
<1> SUFFICES ASSUME TypeInv, RunInv, Resolved, [Next]_vars PROVE Resolved'
  OBVIOUS
<1>1. notifications \in Seq(Notifications) /\ handling \in Notifications \cup {NoMessage}
  BY DEF TypeInv, TypeOK
<1>2. ASSUME NEW w \in Threads, WorkerStep(w) PROVE Resolved'
  <2>1. Ended \subseteq Ended' /\ AllGenuine(notifications', Ended')
    BY <1>2, Announces DEF Resolved
  <2> QED
    BY <1>2, <2>1 DEF WorkerStep, Resolved, Genuine
<1>3. CASE MainStep
  <2>1. Ended' = Ended
    BY <1>3 DEF MainStep, Ended
  <2>2. CASE HandleNotification
    <3>1. /\ handling' = Head(notifications) /\ notifications' = Tail(notifications)
          /\ notifications # <<>> /\ targets' = targets
      BY <2>2 DEF HandleNotification
    <3>2. Genuine(Head(notifications), Ended) /\ AllGenuine(Tail(notifications), Ended)
      BY <1>1, <3>1, GenuineQueues DEF Resolved
    <3> QED
      BY <2>1, <3>1, <3>2 DEF Resolved
  <2>3. CASE HandleKey \/ PushShutdown \/ Finish
    BY <2>1, <2>3 DEF HandleKey, PushShutdown, Finish, Resolved
  <2>4. CASE InvokeCallback
    <3>1. /\ handling # NoMessage /\ handling' = NoMessage
          /\ notifications' = notifications
      BY <2>4 DEF InvokeCallback
    <3>2. CASE IsOutcome(handling)
      <4>1. targets' = targets \ {handling.key} /\ handling.key \in Ended
        BY <2>4, <3>1, <3>2 DEF InvokeCallback, IsOutcome, Resolved, Genuine
      <4> QED
        BY <2>1, <3>1, <4>1 DEF Resolved
    <3>3. CASE ~ IsOutcome(handling)
      <4>1. targets' = targets
        BY <2>4, <3>3 DEF InvokeCallback, IsOutcome
      <4> QED
        BY <2>1, <3>1, <4>1 DEF Resolved
    <3> QED
      BY <3>2, <3>3
  <2> QED
    BY <1>3, <2>2, <2>3, <2>4 DEF MainStep
<1>4. CASE Returned \/ UNCHANGED vars
  BY <1>4 DEF Returned, vars, Resolved, Ended
<1> QED
  BY <1>2, <1>3, <1>4 DEF Next

LEMMA ResolvedInvariant == Spec => []Resolved
BY ResolvedInit, ResolvedNext, TypeInvariant, RunInvariant, PTL DEF Spec

-----------------------------------------------------------------------------
(* The refinement.                                                         *)

LEMMA GraphInit == Init => Graph!Init
BY ConstantsAssumption DEF Init, Graph!Init, Outcome, Terminal

\* How a change of one task's state looks in the abstract build.
LEMMA OutcomeChange ==
    ASSUME TypeInv, NEW t \in Tasks, state[t] \notin Terminal,
           NEW s, state' = [state EXCEPT ![t] = s]
    PROVE  /\ Outcome[t] = "Pending"
           /\ s \notin Terminal => Outcome' = Outcome
           /\ s \in Terminal => Outcome' = [Outcome EXCEPT ![t] = s]
BY DEF TypeInv, TypeOK, Outcome

LEMMA ReceivedCompleted ==
    ASSUME TypeInv, Justified, NEW t \in Tasks, NEW D \in SUBSET done[t]
    PROVE  D \in SUBSET Graph!CompletedTasks
BY DEF TypeInv, TypeOK, Justified, TaskJustified, Graph!CompletedTasks, Outcome, Terminal

LEMMA GraphComplete ==
    ASSUME TypeInv, Justified, NEW t \in Tasks, state[t] \notin Terminal,
           Satisfied(t), state' = [state EXCEPT ![t] = "Completed"],
           UNCHANGED targets
    PROVE  Graph!Complete(t)
<1>1. /\ Outcome[t] = "Pending"
      /\ Outcome' = [Outcome EXCEPT ![t] = "Completed"]
  BY OutcomeChange DEF Terminal
<1>2. done[t] \in SUBSET Graph!CompletedTasks /\ Requests[t][done[t]] \subseteq done[t]
  BY ReceivedCompleted DEF Satisfied
<1> QED
  BY <1>1, <1>2 DEF Graph!Complete

LEMMA GraphFail ==
    ASSUME TypeInv, Justified, NEW t \in Tasks, state[t] \notin Terminal,
           state' = [state EXCEPT ![t] = "Failed"], UNCHANGED targets,
           \/ t \in MayFail \/ MaxFaults # 0
           \/ \E d \in reqs[t] : state[d] = "Failed"
    PROVE  Graph!Fail(t)
<1>1. Outcome[t] = "Pending" /\ Outcome' = [Outcome EXCEPT ![t] = "Failed"]
  BY OutcomeChange DEF Terminal
<1>2. CASE t \in MayFail \/ MaxFaults # 0
  BY <1>1, <1>2 DEF Graph!Fail
<1>3. CASE \E d \in reqs[t] : state[d] = "Failed"
  <2>1. PICK d \in reqs[t] : state[d] = "Failed"
    BY <1>3
  <2>2. PICK D \in SUBSET done[t] : d \in Requests[t][D]
    BY <2>1 DEF Justified, TaskJustified
  <2>3. D \in SUBSET Graph!CompletedTasks
    BY <2>2, ReceivedCompleted
  <2>4. Outcome[d] = "Failed"
    BY <2>1 DEF TypeInv, TypeOK, Outcome, Terminal
  <2> QED
    BY <1>1, <2>2, <2>3, <2>4 DEF Graph!Fail
<1> QED
  BY <1>2, <1>3

\* Every step of a worker completes a task, fails a task, or changes no outcome.
LEMMA GraphWorker ==
    ASSUME TypeInv, LockDiscipline, RunInv, Justified, NEW w \in Threads, WorkerStep(w)
    PROVE  Graph!Next \/ UNCHANGED Graph!vars
<1> DEFINE t == cur[w]
<1>1. UNCHANGED targets
  BY DEF WorkerStep
<1>2. CASE state' = state
  BY <1>1, <1>2 DEF Graph!vars, Outcome
<1>3. ASSUME t \in Tasks, state[t] \notin Terminal,
             NEW s \in TaskStates \ Terminal, state' = [state EXCEPT ![t] = s]
      PROVE  UNCHANGED Graph!vars
  BY <1>1, <1>3, OutcomeChange DEF Graph!vars
<1>4. /\ pc[w] \in Holding => t \in Tasks
      /\ WorkerOK(w) /\ ScanTrue(w) /\ ConfiguredOnce(w)
  BY HolderFacts DEF RunInv, Justified
<1>5. CASE FetchStep(w)
  BY <1>2, <1>5 DEF FetchStep
<1>6. CASE BeginStep(w)
  <2>1. CASE BeginTask(w)
    <3>1. t \in Tasks /\ state[t] \notin Terminal
          /\ state' = [state EXCEPT ![t] = "Running"]
      BY <1>4, <2>1 DEF BeginTask, SetState, Holding
    <3> QED
      BY <1>3, <3>1 DEF TaskStates, Terminal
  <2> QED
    BY <1>2, <1>6, <2>1 DEF BeginStep, Rebroadcast
<1>7. CASE CheckStep(w)
  <2>1. pc[w] \in Holding /\ t \in Tasks
    BY <1>4, <1>7, KeepsTask
  <2>2. CASE FailOnDependency(w)
    <3>1. /\ state[t] \notin Terminal /\ state' = [state EXCEPT ![t] = "Failed"]
          /\ scan[w].failed # {}
      BY <2>2 DEF FailOnDependency, SetState
    <3>2. \E d \in reqs[t] : state[d] = "Failed"
      BY <1>4, <2>1, <3>1 DEF ScanTrue
    <3> QED
      BY <1>1, <2>1, <3>1, <3>2, GraphFail DEF Graph!Next
  <2>3. CASE BlockOnDependencies(w)
    <3>1. state[t] \notin Terminal /\ state' = [state EXCEPT ![t] = "Blocked"]
      BY <2>3 DEF BlockOnDependencies, SetState
    <3> QED
      BY <1>3, <2>1, <3>1 DEF TaskStates, Terminal
  <2> QED
    BY <1>2, <1>7, <2>2, <2>3
       DEF CheckStep, ReadDependency, RefuseState, DependenciesComplete
<1>8. CASE ComputeStep(w)
  <2>1. pc[w] \in Holding /\ t \in Tasks
    BY <1>4, <1>8, KeepsTask
  <2>2. CASE FailConfigure(w) \/ FailDeduplicate(w)
    <3>1. state[t] \notin Terminal /\ state' = [state EXCEPT ![t] = "Failed"]
          /\ t \in MayFail
      BY <1>4, <2>2 DEF FailConfigure, FailDeduplicate, SetState, WorkerOK
    <3> QED
      BY <1>1, <2>1, <3>1, GraphFail DEF Graph!Next
  <2>3. CASE FailRun(w)
    <3>1. /\ state[t] \notin Terminal /\ state' = [state EXCEPT ![t] = "Failed"]
          /\ t \in MayFail \/ runs[t] > 0
      BY <1>4, <2>3 DEF FailRun, SetState, WorkerOK
    <3>2. runs[t] <= faults
      BY <2>1, <2>3, <3>1, Fresh DEF FailRun
    <3>3. t \in MayFail \/ MaxFaults # 0
      BY <2>1, <3>1, <3>2, ConstantsAssumption DEF TypeInv, TypeOK
    <3> QED
      BY <1>1, <2>1, <3>1, <3>3, GraphFail DEF Graph!Next
  <2>4. CASE Deduplicate(w) \/ CompleteTask(w)
    <3>1. state[t] \notin Terminal /\ Satisfied(t)
      BY <1>4, <2>4 DEF Deduplicate, CompleteTask, WorkerOK, ConfiguredOnce
    <3>2. state' = state \/ state' = [state EXCEPT ![t] = "Completed"]
      BY <2>4 DEF Deduplicate, CompleteTask, SetState
    <3> QED
      BY <1>1, <1>2, <2>1, <3>1, <3>2, GraphComplete DEF Graph!Next
  <2> QED
    BY <1>2, <1>8, <2>2, <2>3, <2>4
       DEF ComputeStep, Configure, RunTask, StoreTrace
<1>9. CASE CloseStep(w)
  BY <1>2, <1>9 DEF CloseStep
<1> QED
  BY <1>5, <1>6, <1>7, <1>8, <1>9 DEF WorkerStep

\* The main loop ends the abstract build when it crosses off the last target.
LEMMA GraphMain ==
    ASSUME Resolved, Resolved', MainStep
    PROVE  Graph!Next \/ UNCHANGED Graph!vars
<1>1. Outcome' = Outcome /\ Ended' = Ended
  BY DEF MainStep, Outcome, Ended
<1>2. CASE (targets' = {}) = (targets = {})
  BY <1>1, <1>2 DEF Graph!vars
<1>3. CASE targets # {} /\ targets' = {}
  <2>1. \A t \in Targets : Outcome[t] # "Pending"
    BY <1>1, <1>3 DEF Resolved, Ended, Outcome, Terminal
  <2> QED
    BY <1>1, <1>3, <2>1 DEF Graph!Next, Graph!End
<1>4. targets' \subseteq targets
  BY DEF MainStep, HandleNotification, HandleKey, InvokeCallback, PushShutdown, Finish
<1> QED
  BY <1>2, <1>3, <1>4

\* The pool of workers, the two queues and the park maps compute what a build
\* without threads would: final outcomes, each justified by the outcomes of the
\* dependencies the task requested, and an end only when every target has one.
THEOREM RunnerImplementsGraph == Spec => ImplementsGraph
<1>1. TypeInv /\ LockDiscipline /\ RunInv /\ Justified /\ Resolved /\ Resolved'
        /\ [Next]_vars => [Graph!Next]_(Graph!vars)
  <2> SUFFICES ASSUME TypeInv, LockDiscipline, RunInv, Justified, Resolved, Resolved',
                      [Next]_vars
               PROVE  Graph!Next \/ UNCHANGED Graph!vars
    OBVIOUS
  <2>1. CASE Returned \/ UNCHANGED vars
    BY <2>1 DEF Returned, vars, Graph!vars, Outcome
  <2> QED
    BY <2>1, GraphWorker, GraphMain DEF Next
<1> QED
  BY GraphInit, <1>1, TypeInvariant, OneWorkerPerTask, RunInvariant,
     JustifiedInvariant, ResolvedInvariant, PTL
     DEF Spec, ImplementsGraph, Graph!Spec

-----------------------------------------------------------------------------

(* m_ready with m_queued, m_blocked with m_waiting. *)

\* The four ways in which a step can touch the ready queue and its key set.
PoppedTask ==
    /\ ready # <<>> /\ Head(ready) # SHUTDOWN
    /\ ready' = Tail(ready) /\ queued' = queued \ {Head(ready)}

PoppedShutdown ==
    /\ ready # <<>> /\ Head(ready) = SHUTDOWN
    /\ ready' = Tail(ready) /\ queued' = queued

PushedTask(t) ==
    /\ t \notin queued
    /\ ready' = Append(ready, t) /\ queued' = queued \cup {t}

PushedShutdown == ready' = Append(ready, SHUTDOWN) /\ queued' = queued

\* Nothing else happens to the queue.
LEMMA QueueSteps ==
    ASSUME TypeInv, [Next]_vars
    PROVE  \/ PoppedTask \/ PoppedShutdown \/ PushedShutdown
           \/ \E t \in Tasks : PushedTask(t)
           \/ UNCHANGED queueVars
<1> USE DEF PoppedTask, PoppedShutdown, PushedTask, PushedShutdown
<1>1. ASSUME NEW w \in Threads, FetchStep(w) PROVE PoppedTask \/ PoppedShutdown \/ UNCHANGED queueVars
  BY <1>1 DEF FetchStep, DequeueTask, DequeueShutdown, Timeout, LockTask, DropTask
<1>2. ASSUME NEW w \in Threads,
             BeginStep(w) \/ CheckStep(w) \/ ComputeStep(w) \/ CloseStep(w)
      PROVE  UNCHANGED queueVars
  BY <1>2 DEF BeginStep, CheckStep, ComputeStep, CloseStep
<1>3. ASSUME HandleKey PROVE UNCHANGED queueVars \/ \E t \in Tasks : PushedTask(t)
  <2>1. PICK t \in todo : RestartTask(t) \/ ParkOn(t)
    BY <1>3 DEF HandleKey
  <2>2. t \in Tasks
    BY DEF TypeInv, TypeOK
  <2>3. EnqueueTask(t) \/ UNCHANGED queueVars
    BY <2>1 DEF RestartTask, ParkOn
  <2> QED
    BY <2>2, <2>3 DEF EnqueueTask
<1>4. ASSUME HandleNotification \/ InvokeCallback \/ PushShutdown \/ Finish
      PROVE  UNCHANGED queueVars \/ PushedShutdown
  BY <1>4 DEF HandleNotification, InvokeCallback, PushShutdown, Finish
<1>5. CASE UNCHANGED vars
  BY <1>5 DEF vars
<1> QED
  BY <1>1, <1>2, <1>3, <1>4, <1>5 DEF Next, WorkerStep, MainStep, Returned

\* A key in the queue is in the set, and the positions of a tail and of an
\* extended queue in terms of the queue.
LEMMA TailPositions ==
    ASSUME NEW S, NEW s \in Seq(S), s # <<>>
    PROVE  /\ DOMAIN Tail(s) = 1 .. Len(s) - 1
           /\ \A i \in DOMAIN Tail(s) : i + 1 \in DOMAIN s /\ Tail(s)[i] = s[i + 1]
           /\ \A i \in DOMAIN s : i # 1 => i - 1 \in DOMAIN Tail(s)
           /\ 1 \in DOMAIN s /\ Head(s) = s[1]
OBVIOUS

\* A pushed element is last, and the others keep their positions.
LEMMA AppendPositions ==
    ASSUME NEW S, NEW s \in Seq(S), NEW e
    PROVE  /\ DOMAIN Append(s, e) = DOMAIN s \cup {Len(s) + 1}
           /\ \A i \in DOMAIN s : Append(s, e)[i] = s[i]
           /\ Append(s, e)[Len(s) + 1] = e
           /\ Len(s) + 1 \notin DOMAIN s
OBVIOUS

\* The keys in a queue.
Keys(s) == {s[i] : i \in DOMAIN s} \ {SHUTDOWN}

\* No key is in the queue twice.
NoRepeat(s) ==
    \A i, j \in DOMAIN s : s[i] = s[j] /\ s[i] # SHUTDOWN => i = j

\* Popping a key that stands in the queue once takes it from the set.
LEMMA TailKeys ==
    ASSUME NEW s \in Seq(Tasks \cup {SHUTDOWN}), s # <<>>, NoRepeat(s)
    PROVE  NoRepeat(Tail(s)) /\ Keys(Tail(s)) = Keys(s) \ {Head(s)}
<1> DEFINE u == Tail(s)
<1>1. /\ \A i \in DOMAIN u : i \in Int /\ i + 1 \in DOMAIN s /\ u[i] = s[i + 1]
      /\ \A i \in DOMAIN s : i \in Int /\ (i # 1 => i - 1 \in DOMAIN u)
      /\ 1 \in DOMAIN s /\ Head(s) = s[1]
      /\ 0 \notin DOMAIN u
  BY TailPositions
<1> HIDE DEF u
<1>2. NoRepeat(u)
  BY <1>1 DEF NoRepeat
<1>3. ASSUME NEW k \in Keys(u) PROVE k \in Keys(s) /\ k # Head(s)
  <2>1. PICK i \in DOMAIN u : k = u[i]
    BY DEF Keys
  <2>2. i + 1 \in DOMAIN s /\ k = s[i + 1] /\ i + 1 # 1 /\ k # SHUTDOWN
    BY <1>1, <2>1 DEF Keys
  <2>3. k # s[1]
    BY <1>1, <2>2 DEF NoRepeat
  <2> QED
    BY <1>1, <2>2, <2>3 DEF Keys
<1>4. ASSUME NEW k \in Keys(s), k # Head(s) PROVE k \in Keys(u)
  <2>1. PICK i \in DOMAIN s : k = s[i]
    BY DEF Keys
  <2>2. i # 1
    BY <1>1, <1>4, <2>1
  <2>3. i - 1 \in DOMAIN u /\ u[i - 1] = k
    BY <1>1, <2>1, <2>2
  <2> QED
    BY <2>3 DEF Keys
<1> QED
  BY <1>2, <1>3, <1>4 DEF u

\* Pushing a key that is not in the set adds it to the set.
LEMMA AppendKeys ==
    ASSUME NEW s \in Seq(Tasks \cup {SHUTDOWN}), NEW e, NoRepeat(s),
           e \notin Keys(s)
    PROVE  /\ NoRepeat(Append(s, e))
           /\ Keys(Append(s, e)) = Keys(s) \cup ({e} \ {SHUTDOWN})
<1> DEFINE u == Append(s, e)
           n == Len(s) + 1
<1>1. /\ DOMAIN u = DOMAIN s \cup {n}
      /\ \A i \in DOMAIN s : u[i] = s[i]
      /\ u[n] = e
  BY AppendPositions
<1> HIDE DEF u, n
<1>2. NoRepeat(u)
  BY <1>1 DEF NoRepeat, Keys
<1>3. Keys(u) = Keys(s) \cup ({e} \ {SHUTDOWN})
  BY <1>1 DEF Keys
<1> QED
  BY <1>2, <1>3 DEF u

\* The queue starts empty, but for targets that are enqueued once.
LEMMA QueueInit == Init => QueuedMirrorsReady
<1> SUFFICES ASSUME Init PROVE QueuedMirrorsReady
  OBVIOUS
<1>1. /\ \A i \in DOMAIN ready : ready[i] \in Targets
      /\ \A t \in Targets : \E i \in DOMAIN ready :
            \A j \in DOMAIN ready : ready[j] = t <=> j = i
      /\ queued = Targets
  BY DEF Init
<1>2. SHUTDOWN \notin Targets
  BY ConstantsAssumption
<1>3. queued = {ready[i] : i \in DOMAIN ready} \ {SHUTDOWN}
  BY <1>1, <1>2
<1>4. ASSUME NEW i \in DOMAIN ready, NEW j \in DOMAIN ready, ready[i] = ready[j]
      PROVE  i = j
  BY <1>1, <1>4
<1> QED
  BY <1>3, <1>4 DEF QueuedMirrorsReady

\* Every step keeps the queue and the set in agreement.
LEMMA QueueNext == TypeInv /\ QueuedMirrorsReady /\ [Next]_vars => QueuedMirrorsReady'
<1> SUFFICES ASSUME TypeInv, QueuedMirrorsReady, [Next]_vars
             PROVE  queued' = Keys(ready') /\ NoRepeat(ready')
  BY DEF QueuedMirrorsReady, Keys, NoRepeat
<1>1. queued = Keys(ready) /\ NoRepeat(ready)
  BY DEF QueuedMirrorsReady, Keys, NoRepeat
<1>2. ready \in Seq(Tasks \cup {SHUTDOWN})
  BY DEF TypeInv, TypeOK
<1>3. SHUTDOWN \notin Keys(ready)
  BY DEF Keys
<1>4. CASE PoppedTask \/ PoppedShutdown
  BY <1>1, <1>2, <1>3, <1>4, TailKeys DEF PoppedTask, PoppedShutdown
<1>5. CASE PushedShutdown
  BY <1>1, <1>2, <1>3, <1>5, AppendKeys DEF PushedShutdown
<1>6. ASSUME NEW t \in Tasks, PushedTask(t)
      PROVE  queued' = Keys(ready') /\ NoRepeat(ready')
  BY <1>1, <1>2, <1>6, AppendKeys, ConstantsAssumption DEF PushedTask
<1>7. CASE UNCHANGED queueVars
  BY <1>1, <1>7
<1> QED
  BY <1>4, <1>5, <1>6, <1>7, QueueSteps

\* m_queued holds exactly the keys that are in m_ready, each of which is there
\* once, although workers erase and the main loop inserts (enqueueTask and
\* waitForNextReady): enqueueTask never refuses a task that is not queued, and
\* never queues one twice.
THEOREM QueueAndSetAgree == Spec => []QueuedMirrorsReady
BY QueueInit, QueueNext, TypeInvariant, PTL DEF Spec

-----------------------------------------------------------------------------

\* The pair parkDeps has recorded in m_blocked and not yet in m_waiting.
Unvisited(t, d) ==
    /\ handling # NoMessage /\ handling.type = "TASK_BLOCKED"
    /\ handling.key = t /\ d \in todo

\* The main loop has nothing left to visit between two notifications.
ParkInv ==
    /\ handling = NoMessage => todo = {}
    /\ \A t, d \in Tasks : d \in blocked[t] <=> t \in waiting[d] \/ Unvisited(t, d)

\* Nothing is parked at first.
LEMMA ParkInit == Init => ParkInv
BY DEF Init, ParkInv, Unvisited

\* Taking up a notification opens a loop: what it will visit counts as unvisited.
LEMMA ParkHandle ==
    ASSUME TypeInv, ParkInv, HandleNotification
    PROVE  ParkInv'
<1> DEFINE n == Head(notifications)
<1>1. n \in Notifications /\ n # NoMessage
  BY PopType, NoMessageAssumption DEF TypeInv, TypeOK, HandleNotification
<1>2. handling' = n /\ handling = NoMessage /\ todo = {}
  BY DEF HandleNotification, Idle, ParkInv
<1>3. \A t, d \in Tasks : d \in blocked[t] <=> t \in waiting[d]
  BY <1>2 DEF ParkInv, Unvisited
<1>4. /\ blocked \in [Tasks -> SUBSET Tasks] /\ waiting \in [Tasks -> SUBSET Tasks]
  BY DEF TypeInv, TypeOK
<1> HIDE DEF n
<1>5. CASE JoinThread(n) \/ IgnoreState(n)
  BY <1>1, <1>2, <1>3, <1>5 DEF JoinThread, IgnoreState, ParkInv, Unvisited
<1>6. CASE RestartDeps(n)
  <2>1. n.key \in Tasks /\ n.type = "STATE_CHANGED"
    BY <1>1, <1>6 DEF RestartDeps, Notifications
  <2>2. waiting' = [waiting EXCEPT ![n.key] = {}] /\ blocked' = BlockedWithout(n.key)
    BY <1>6 DEF RestartDeps
  <2>3. ASSUME NEW t \in Tasks, NEW d \in Tasks
        PROVE  d \in blocked'[t] <=> t \in waiting'[d]
    BY <1>3, <1>4, <2>1, <2>2 DEF BlockedWithout
  <2> QED
    BY <1>1, <1>2, <2>1, <2>3 DEF ParkInv, Unvisited
<1>7. CASE ParkDeps(n)
  <2>1. n.key \in Tasks /\ n.deps \subseteq Tasks /\ n.type = "TASK_BLOCKED"
    BY <1>1, <1>7 DEF ParkDeps, Notifications
  <2>2. /\ blocked' = [blocked EXCEPT ![n.key] = @ \cup n.deps]
        /\ waiting' = waiting /\ todo' = n.deps
    BY <1>7 DEF ParkDeps
  <2>3. ASSUME NEW t \in Tasks, NEW d \in Tasks
        PROVE  d \in blocked'[t] <=> t \in waiting'[d] \/ (n.key = t /\ d \in todo')
    BY <1>3, <1>4, <2>1, <2>2
  <2> QED
    BY <1>1, <1>2, <2>1, <2>3 DEF ParkInv, Unvisited
<1> QED
  BY <1>5, <1>6, <1>7 DEF HandleNotification, n

\* A round of parkDeps or restartDeps changes both maps for the key it visits.
LEMMA ParkKey ==
    ASSUME TypeInv, ParkInv, HandleKey
    PROVE  ParkInv'
<1>1. PICK k \in todo : (RestartTask(k) \/ ParkOn(k)) /\ todo' = todo \ {k}
  BY DEF HandleKey
<1>2. handling' = handling /\ blocked' = blocked /\ handling # NoMessage
  BY <1>1 DEF HandleKey, RestartTask, ParkOn
<1>3. waiting \in [Tasks -> SUBSET Tasks] /\ k \in Tasks
  BY DEF TypeInv, TypeOK
<1>4. CASE RestartTask(k)
  BY <1>1, <1>2, <1>4 DEF RestartTask, ParkInv, Unvisited
<1>5. CASE ParkOn(k)
  <2>1. /\ waiting' = [waiting EXCEPT ![k] = @ \cup {handling.key}]
        /\ handling.type = "TASK_BLOCKED"
    BY <1>5 DEF ParkOn
  <2>2. ASSUME NEW t \in Tasks, NEW d \in Tasks
        PROVE  t \in waiting'[d] <=> t \in waiting[d] \/ (t = handling.key /\ d = k)
    BY <1>3, <2>1
  <2>3. ASSUME NEW t \in Tasks, NEW d \in Tasks
        PROVE  d \in blocked'[t] <=> t \in waiting'[d] \/ Unvisited(t, d)'
    BY <1>1, <1>2, <2>1, <2>2 DEF ParkInv, Unvisited
  <2> QED
    BY <1>2, <2>3 DEF ParkInv
<1> QED
  BY <1>1, <1>4, <1>5

\* Every step keeps the park maps in agreement; workers do not touch them.
LEMMA ParkNext == TypeInv /\ ParkInv /\ [Next]_vars => ParkInv'
<1> SUFFICES ASSUME TypeInv, ParkInv, [Next]_vars PROVE ParkInv'
  OBVIOUS
<1>1. CASE HandleNotification
  BY <1>1, ParkHandle
<1>2. CASE HandleKey
  BY <1>2, ParkKey
<1>3. CASE InvokeCallback
  BY <1>3 DEF InvokeCallback, ParkInv, Unvisited
<1>4. CASE UNCHANGED <<handling, todo, blocked, waiting>>
  BY <1>4 DEF ParkInv, Unvisited
<1>5. UNCHANGED <<handling, todo, blocked, waiting>> \/ MainStep
  BY DEF Next, WorkerStep, Returned, vars
<1>6. PushShutdown \/ Finish => UNCHANGED <<handling, todo, blocked, waiting>>
  BY DEF PushShutdown, Finish
<1> QED
  BY <1>1, <1>2, <1>3, <1>4, <1>5, <1>6 DEF MainStep

\* m_blocked and m_waiting are one relation read in two directions, but for the
\* dependencies that parkDeps has yet to visit: restartDeps finds every task it
\* has to restart, and erases nothing that parkDeps still needs.
THEOREM ParkMapsAgree == Spec => []ParkedBothWays
<1>1. ParkInv => ParkedBothWays
  BY DEF ParkInv, ParkedBothWays, Unvisited
<1> QED
  BY ParkInit, ParkNext, <1>1, TypeInvariant, PTL DEF Spec

-----------------------------------------------------------------------------
(* Wake-ups. *)

\* The worker still has to announce its task.  A task whose failed
\* configuration left dependencies behind is checked after it was announced.
Busy(w) ==
    \/ pc[w] \in {"lock", "begin", "configure", "deduplicate", "run", "store",
                  "complete", "notify"}
    \/ pc[w] = "check" /\ state[cur[w]] \notin Terminal

AtWork(t) == \E w \in Threads : cur[w] = t /\ Busy(w)

Covered(t) ==
    t \in queued \/ AtWork(t) \/ Announced(t) \/ BeingHandled(t) \/ blocked[t] # {}

\* What a worker announces at the end is an outcome; a task is reported blocked
\* on something; nobody waits any more for a task whose outcome is in hand.
OutcomeToTell == \A w \in Threads : pc[w] = "notify" => state[cur[w]] \in Terminal

BlockedOnSome(q) == \A i \in DOMAIN q : q[i].type = "TASK_BLOCKED" => q[i].deps # {}

Released ==
    handling # NoMessage /\ handling.type = "STATE_CHANGED"
        /\ handling.state \in Terminal
    => waiting[handling.key] = {}

AllCovered ==
    faults = 0 => \A t \in Registered \ dropped : Wanted(t) => Covered(t)

WakeInv ==
    OutcomeToTell /\ BlockedOnSome(notifications) /\ Released /\ AllCovered

\* At first what is wanted is queued.
LEMMA WakeInit == Init => WakeInv
<1> SUFFICES ASSUME Init PROVE WakeInv
  OBVIOUS
<1>1. OutcomeToTell /\ BlockedOnSome(notifications) /\ Released
  BY DEF Init, OutcomeToTell, BlockedOnSome, Released
<1>2. ASSUME NEW t \in Tasks, Wanted(t) PROVE t \in queued
  BY <1>2 DEF Init, Wanted
<1> QED
  BY <1>1, <1>2, ConstantsAssumption DEF WakeInv, AllCovered, Covered

-----------------------------------------------------------------------------
(* The queue of notifications.                                             *)

Tells(n, t) ==
    /\ n.key = t
    /\ n.type = "TASK_BLOCKED" \/ (n.type = "STATE_CHANGED" /\ n.state \in Terminal)

ToldBy(q, t) == \E i \in DOMAIN q : Tells(q[i], t)

\* Announced, as a predicate of the queue.
LEMMA AnnouncedTold == \A t : Announced(t) <=> ToldBy(notifications, t)
BY DEF Announced, ToldBy, Tells

\* An appended notification adds what it tells to what the queue tells.
LEMMA ToldAppend ==
    ASSUME NEW q \in Seq(Notifications), NEW n
    PROVE  /\ \A t : ToldBy(q, t) \/ Tells(n, t) => ToldBy(Append(q, n), t)
           /\ BlockedOnSome(q) /\ (n.type = "TASK_BLOCKED" => n.deps # {})
                 => BlockedOnSome(Append(q, n))
<1> DEFINE u == Append(q, n)
<1>1. /\ \A i \in DOMAIN q : i \in DOMAIN u /\ u[i] = q[i]
      /\ Len(q) + 1 \in DOMAIN u /\ u[Len(q) + 1] = n
      /\ \A i \in DOMAIN u : i \in DOMAIN q \/ u[i] = n
  OBVIOUS
<1> HIDE DEF u
<1>2. \A t : ToldBy(q, t) \/ Tells(n, t) => ToldBy(u, t)
  BY <1>1 DEF ToldBy
<1>3. BlockedOnSome(q) /\ (n.type = "TASK_BLOCKED" => n.deps # {}) => BlockedOnSome(u)
  BY <1>1 DEF BlockedOnSome
<1> QED
  BY <1>2, <1>3 DEF u

\* What the queue tells, its first notification or the rest of it tells.
LEMMA ToldTail ==
    ASSUME NEW q \in Seq(Notifications), q # <<>>
    PROVE  /\ \A t : ToldBy(q, t) => Tells(Head(q), t) \/ ToldBy(Tail(q), t)
           /\ BlockedOnSome(q) =>
                 /\ BlockedOnSome(Tail(q))
                 /\ Head(q).type = "TASK_BLOCKED" => Head(q).deps # {}
<1> DEFINE u == Tail(q)
<1>1. /\ \A i \in DOMAIN q : i = 1 \/ (i - 1 \in DOMAIN u /\ u[i - 1] = q[i])
      /\ 1 \in DOMAIN q /\ q[1] = Head(q)
      /\ \A i \in DOMAIN u : i + 1 \in DOMAIN q /\ u[i] = q[i + 1]
  OBVIOUS
<1> HIDE DEF u
<1>2. \A t : ToldBy(q, t) => Tells(Head(q), t) \/ ToldBy(u, t)
  BY <1>1 DEF ToldBy
<1>3. BlockedOnSome(q) =>
          BlockedOnSome(u) /\ (Head(q).type = "TASK_BLOCKED" => Head(q).deps # {})
  BY <1>1 DEF BlockedOnSome
<1> QED
  BY <1>2, <1>3 DEF u

-----------------------------------------------------------------------------
(* A worker's step.                                                        *)

\* A worker passes on what it is responsible for: it announces its task before
\* it lets go of it, unless it drops the task or meets a storage error.
PassesOn(w) ==
    /\ pc'[w] = "notify" => state'[cur'[w]] \in Terminal
    /\ BlockedOnSome(notifications')
    /\ \A t : ToldBy(notifications, t) => ToldBy(notifications', t)
    /\ \A t \in queued \ queued' : cur'[w] = t /\ Busy(w)'
    /\ Busy(w) => \/ cur'[w] = cur[w] /\ Busy(w)'
                  \/ ToldBy(notifications', cur[w])
                  \/ cur[w] \in dropped'
                  \/ faults' # 0

\* Popping takes over the responsibility for the task; DropTask gives it up.
LEMMA FetchPassesOn ==
    ASSUME TypeInv, BlockedOnSome(notifications), NEW w \in Threads, FetchStep(w)
    PROVE  PassesOn(w)
<1> USE DEF PassesOn, FetchStep, Busy, GoTo
<1>1. pc \in [Threads -> WorkerPCs] /\ cur \in [Threads -> Tasks \cup {NoTask}]
  BY DEF TypeInv, TypeOK
<1>2. CASE DequeueTask(w)
  BY <1>1, <1>2 DEF DequeueTask
<1>3. CASE DequeueShutdown(w)
  BY <1>1, <1>3 DEF DequeueShutdown
<1>4. CASE Timeout(w)
  BY <1>1, <1>4 DEF Timeout
<1>5. CASE LockTask(w)
  BY <1>1, <1>5 DEF LockTask
<1>6. CASE DropTask(w)
  BY <1>1, <1>6 DEF DropTask
<1> QED
  BY <1>2, <1>3, <1>4, <1>5, <1>6

\* A task that has its outcome is announced again before it is released.
LEMMA BeginPassesOn ==
    ASSUME TypeInv, BlockedOnSome(notifications), NEW w \in Threads, BeginStep(w)
    PROVE  PassesOn(w)
<1> USE DEF BeginStep
<1>1. /\ pc \in [Threads -> WorkerPCs] /\ notifications \in Seq(Notifications)
      /\ state \in [Tasks -> TaskStates]
  BY DEF TypeInv, TypeOK
<1>2. pc[w] = "begin" /\ cur[w] \in Tasks /\ UNCHANGED <<cur, queued>>
  BY HolderFacts DEF Rebroadcast, BeginTask, Holding
<1>3. PICK s : /\ notifications' = Append(notifications, StateChanged(cur[w], s))
               /\ s = "Running" \/ (s = state[cur[w]] /\ s \in Terminal)
  BY DEF Rebroadcast, BeginTask, Notify
<1>4. /\ StateChanged(cur[w], s).type = "STATE_CHANGED"
      /\ StateChanged(cur[w], s).key = cur[w] /\ StateChanged(cur[w], s).state = s
  BY DEF StateChanged
<1>5. /\ BlockedOnSome(notifications')
      /\ \A t : ToldBy(notifications, t) => ToldBy(notifications', t)
      /\ s \in Terminal => ToldBy(notifications', cur[w])
  BY <1>1, <1>3, <1>4, ToldAppend DEF Tells
<1>6. CASE Rebroadcast(w)
  <2>1. pc'[w] = "release" /\ s \in Terminal
    BY <1>1, <1>3, <1>4, <1>6 DEF Rebroadcast, Notify, GoTo, StateChanged, Terminal
  <2> QED
    BY <1>2, <1>5, <2>1 DEF PassesOn
<1>7. CASE BeginTask(w)
  <2>1. pc'[w] \in {"run", "check", "configure"} /\ state'[cur[w]] = "Running"
    BY <1>1, <1>2, <1>7 DEF BeginTask, EnterLoop, GoTo, SetState
  <2> QED
    BY <1>2, <1>5, <2>1 DEF PassesOn, Busy, Terminal
<1> QED
  BY <1>6, <1>7

\* Without a new notification only the worker's own task is at stake.
LEMMA SilentPassesOn ==
    ASSUME BlockedOnSome(notifications), NEW w \in Threads,
           UNCHANGED <<notifications, cur, queued>>,
           pc'[w] = "notify" => state'[cur[w]] \in Terminal,
           Busy(w) => \/ pc'[w] \in {"configure", "deduplicate", "run", "store",
                                     "complete", "notify"}
                      \/ pc'[w] = "check" /\ state'[cur[w]] \notin Terminal
                      \/ faults' # 0
    PROVE  PassesOn(w)
BY DEF PassesOn, Busy

\* A blocked task is reported before it is released.
LEMMA CheckPassesOn ==
    ASSUME TypeInv, BlockedOnSome(notifications), NEW w \in Threads, CheckStep(w)
    PROVE  PassesOn(w)
<1> USE DEF CheckStep
<1>1. /\ pc \in [Threads -> WorkerPCs] /\ notifications \in Seq(Notifications)
      /\ state \in [Tasks -> TaskStates]
  BY DEF TypeInv, TypeOK
<1>2. pc[w] = "check" /\ cur[w] \in Tasks /\ UNCHANGED <<cur, queued>>
  BY HolderFacts DEF ReadDependency, FailOnDependency, BlockOnDependencies,
     RefuseState, DependenciesComplete, MarkCompleted, Holding
<1>3. Busy(w) <=> state[cur[w]] \notin Terminal
  BY <1>2 DEF Busy
<1>4. CASE \E d \in Tasks : ReadDependency(w, d)
  BY <1>2, <1>3, <1>4, SilentPassesOn DEF ReadDependency
<1>5. CASE FailOnDependency(w)
  <2>1. pc'[w] = "notify" /\ state'[cur[w]] = "Failed"
    BY <1>1, <1>2, <1>5 DEF FailOnDependency, GoTo, SetState
  <2> QED
    BY <1>2, <1>5, <2>1, SilentPassesOn DEF FailOnDependency, Terminal
<1>6. CASE BlockOnDependencies(w)
  <2> DEFINE m == StateChanged(cur[w], "Blocked")
             n == TaskBlocked(cur[w], reqs[cur[w]])
             q == Append(notifications, m)
  <2>1. /\ m \in Notifications /\ m.type = "STATE_CHANGED"
        /\ n.type = "TASK_BLOCKED" /\ n.key = cur[w] /\ n.deps = reqs[cur[w]]
    BY <1>2, NotificationTypes DEF StateChanged, TaskBlocked, TaskStates
  <2>2. n.deps # {}
    BY <1>6, <2>1 DEF BlockOnDependencies, Pending
  <2>3. notifications' = notifications \o <<m, n>>
    BY <1>6 DEF BlockOnDependencies
  <2>4. pc'[w] = "release"
    BY <1>1, <1>6 DEF BlockOnDependencies, GoTo
  <2> HIDE DEF m, n
  <2>5. q \in Seq(Notifications) /\ notifications' = Append(q, n)
    BY <1>1, <2>1, <2>3
  <2> HIDE DEF q
  <2>6. BlockedOnSome(q) /\ \A t : ToldBy(notifications, t) => ToldBy(q, t)
    BY <1>1, <2>1, ToldAppend DEF q
  <2>7. /\ BlockedOnSome(notifications')
        /\ \A t : ToldBy(q, t) => ToldBy(notifications', t)
        /\ ToldBy(notifications', cur[w])
    BY <2>1, <2>2, <2>5, <2>6, ToldAppend DEF Tells
  <2> QED
    BY <1>2, <2>4, <2>6, <2>7 DEF PassesOn
<1>7. CASE RefuseState(w)
  <2>1. pc'[w] = "error" /\ ~Busy(w)
    BY <1>1, <1>3, <1>7 DEF RefuseState, GoTo
  <2> QED
    BY <1>2, <1>7, <2>1, SilentPassesOn DEF RefuseState
<1>8. CASE DependenciesComplete(w)
  <2>1. pc'[w] = IF state[cur[w]] \in Terminal THEN "release" ELSE "configure"
    BY <1>1, <1>8 DEF DependenciesComplete, GoTo
  <2> QED
    BY <1>2, <1>3, <1>8, <2>1, SilentPassesOn DEF DependenciesComplete
<1> QED
  BY <1>4, <1>5, <1>6, <1>7, <1>8

\* Computing a task ends in an outcome that is yet to be announced.
LEMMA ComputePassesOn ==
    ASSUME TypeInv, RunInv, BlockedOnSome(notifications), NEW w \in Threads,
           ComputeStep(w)
    PROVE  PassesOn(w)
<1>1. /\ pc \in [Threads -> WorkerPCs] /\ state \in [Tasks -> TaskStates]
  BY DEF TypeInv, TypeOK
<1>2. cur[w] \in Tasks /\ UNCHANGED <<notifications, cur, queued>>
  BY HolderFacts
     DEF ComputeStep, Configure, FailConfigure, Deduplicate, FailDeduplicate,
         RunTask, FailRun, StoreTrace, CompleteTask, Holding
<1>3. CASE Configure(w)
  <2>1. pc'[w] \in {"deduplicate", "check", "configure"}
    BY <1>1, <1>3 DEF Configure, EnterLoop, GoTo
  <2>2. state'[cur[w]] \notin Terminal
    BY <1>3 DEF Configure, RunInv, WorkerOK
  <2> QED
    BY <1>2, <2>1, <2>2, SilentPassesOn
<1>4. CASE Deduplicate(w) \/ RunTask(w) \/ StoreTrace(w)
  <2>1. \/ pc'[w] \in {"run", "store", "complete"}
        \/ pc'[w] = "notify" /\ state'[cur[w]] = "Completed"
    BY <1>1, <1>2, <1>4 DEF Deduplicate, RunTask, StoreTrace, GoTo, SetState
  <2> QED
    BY <1>2, <2>1, SilentPassesOn DEF Terminal
<1>5. CASE FailConfigure(w) \/ FailDeduplicate(w) \/ FailRun(w) \/ CompleteTask(w)
  <2>1. pc'[w] = "notify" /\ state'[cur[w]] \in {"Failed", "Completed"}
    BY <1>1, <1>2, <1>5
       DEF FailConfigure, FailDeduplicate, FailRun, CompleteTask, GoTo, SetState
  <2> QED
    BY <1>2, <2>1, SilentPassesOn DEF Terminal
<1> QED
  BY <1>3, <1>4, <1>5 DEF ComputeStep

\* The outcome is announced before the task is closed and released.
LEMMA ClosePassesOn ==
    ASSUME TypeInv, OutcomeToTell, BlockedOnSome(notifications), NEW w \in Threads,
           CloseStep(w)
    PROVE  PassesOn(w)
<1> USE DEF CloseStep
<1>1. /\ pc \in [Threads -> WorkerPCs] /\ notifications \in Seq(Notifications)
      /\ cur \in [Threads -> Tasks \cup {NoTask}] /\ faults \in Nat
  BY DEF TypeInv, TypeOK
<1>2. CASE NotifyOutcome(w)
  <2> DEFINE n == StateChanged(cur[w], state[cur[w]])
  <2>1. n.type = "STATE_CHANGED" /\ n.key = cur[w] /\ n.state \in Terminal
    BY <1>2 DEF NotifyOutcome, StateChanged, OutcomeToTell
  <2>2. notifications' = Append(notifications, n) /\ pc'[w] = "close"
    BY <1>1, <1>2 DEF NotifyOutcome, Notify, GoTo
  <2> HIDE DEF n
  <2>3. /\ BlockedOnSome(notifications') /\ ToldBy(notifications', cur[w])
        /\ \A t : ToldBy(notifications, t) => ToldBy(notifications', t)
    BY <1>1, <2>1, <2>2, ToldAppend DEF Tells
  <2> QED
    BY <2>2, <2>3 DEF PassesOn
<1>3. CASE CloseTask(w)
  <2>1. pc[w] = "close" /\ pc'[w] # "notify" /\ UNCHANGED <<notifications, cur, queued>>
    BY <1>1, <1>3 DEF CloseTask, GoTo
  <2> QED
    BY <2>1, SilentPassesOn DEF Busy
<1>4. CASE StorageError(w)
  <2>1. pc'[w] = "error" /\ faults' # 0 /\ UNCHANGED <<notifications, cur, queued>>
    BY <1>1, <1>4 DEF StorageError, GoTo
  <2> QED
    BY <2>1, SilentPassesOn
<1>5. CASE ReleaseTask(w)
  <2>1. ~Busy(w) /\ pc'[w] # "notify" /\ UNCHANGED <<notifications, queued>>
    BY <1>1, <1>5 DEF ReleaseTask, GoTo, Busy
  <2> QED
    BY <2>1 DEF PassesOn
<1>6. CASE ExitThread(w)
  <2>1. /\ ~Busy(w) /\ pc'[w] # "notify" /\ UNCHANGED <<cur, queued>>
        /\ notifications' = Append(notifications, ThreadCancelled(w))
    BY <1>1, <1>6 DEF ExitThread, GoTo, Notify, Busy
  <2>2. ThreadCancelled(w).type = "THREAD_CANCELLED"
    BY DEF ThreadCancelled
  <2> QED
    BY <1>1, <2>1, <2>2, ToldAppend DEF PassesOn
<1> QED
  BY <1>2, <1>3, <1>4, <1>5, <1>6

\* A step of one worker; the others keep their tasks and the states of these.
LEMMA WakeWorker ==
    ASSUME TypeInv, LockDiscipline, RunInv, WakeInv, NEW w \in Threads, WorkerStep(w)
    PROVE  WakeInv'
<1>1. /\ faults \in Nat /\ faults' \in Nat /\ faults <= faults'
      /\ dropped \subseteq dropped' /\ UNCHANGED mainVars
  <2>1. dropped \subseteq dropped'
    BY DEF WorkerStep, FetchStep, BeginStep, CheckStep, ComputeStep, CloseStep,
           DequeueTask, DequeueShutdown, Timeout, LockTask, DropTask
  <2>2. TypeInv'
    BY TypeFetch, TypeBegin, TypeCheck, TypeCompute, TypeClose DEF WorkerStep
  <2> QED
    BY <2>1, <2>2, WorkerFootprint DEF WorkerStep, Footprint, TypeInv, TypeOK
<1>2. PassesOn(w)
  BY FetchPassesOn, BeginPassesOn, CheckPassesOn, ComputePassesOn, ClosePassesOn
     DEF WorkerStep, WakeInv
<1>3. Footprint(w)
  BY WorkerFootprint
<1>4. ASSUME NEW v \in Threads \ {w}
      PROVE  /\ pc'[v] = pc[v] /\ cur'[v] = cur[v]
             /\ pc[v] \in Holding => state'[cur[v]] = state[cur[v]]
  <2>1. pc[v] \in Holding => cur[v] \in Tasks /\ (pc[w] \in Holding => cur[v] # cur[w])
    BY Exclusion, HolderFacts
  <2> QED
    BY <1>3, <2>1 DEF Footprint
<1>5. ASSUME NEW v \in Threads \ {w}, Busy(v) PROVE cur'[v] = cur[v] /\ Busy(v)'
  <2>1. pc[v] = "check" => pc[v] \in Holding
    BY DEF Holding
  <2> QED
    BY <1>4, <1>5, <2>1 DEF Busy
<1>6. OutcomeToTell'
  <2>1. ASSUME NEW v \in Threads \ {w}, pc'[v] = "notify" PROVE state'[cur'[v]] \in Terminal
    <3>1. pc[v] = "notify" /\ pc[v] \in Holding
      BY <1>4, <2>1 DEF Holding
    <3> QED
      BY <1>4, <3>1 DEF WakeInv, OutcomeToTell
  <2> QED
    BY <1>2, <2>1 DEF OutcomeToTell, PassesOn
<1>7. BlockedOnSome(notifications') /\ Released'
  BY <1>1, <1>2 DEF PassesOn, WakeInv, Released
<1>8. ASSUME NEW t \in Registered \ dropped', faults' = 0, Wanted(t)' PROVE Covered(t)'
  <2>1. Covered(t)
    BY <1>1, <1>8 DEF WakeInv, AllCovered, Wanted
  <2>2. CASE t \in queued
    BY <1>2, <2>2 DEF PassesOn, Covered, AtWork
  <2>3. CASE AtWork(t)
    <3>1. PICK v \in Threads : cur[v] = t /\ Busy(v)
      BY <2>3 DEF AtWork
    <3>2. CASE v # w
      BY <1>5, <3>1, <3>2 DEF Covered, AtWork
    <3>3. CASE v = w
      <4>1. (cur'[w] = t /\ Busy(w)') \/ ToldBy(notifications', t)
        BY <1>2, <1>8, <3>1, <3>3 DEF PassesOn
      <4> QED
        BY <4>1, AnnouncedTold DEF Covered, AtWork, Announced, ToldBy, Tells
    <3> QED
      BY <3>2, <3>3
  <2>4. CASE Announced(t)
    <3>1. ToldBy(notifications', t)
      BY <1>2, <2>4, AnnouncedTold DEF PassesOn
    <3> QED
      BY <3>1 DEF Covered, Announced, ToldBy, Tells
  <2>5. CASE BeingHandled(t) \/ blocked[t] # {}
    BY <1>1, <2>5 DEF Covered, BeingHandled
  <2> QED
    BY <2>1, <2>2, <2>3, <2>4, <2>5 DEF Covered
<1> QED
  BY <1>6, <1>7, <1>8 DEF WakeInv, AllCovered

-----------------------------------------------------------------------------
(* The main loop's steps.                                                  *)

\* Taking up an announcement either blocks its task, or releases everybody who
\* waited for it: those with nothing left to wait for are to be enqueued.
LEMMA WakeHandle ==
    ASSUME TypeInv, WakeInv, HandleNotification, UNCHANGED <<taskVars, workerVars, historyVars>>
    PROVE  WakeInv'
<1> DEFINE n == Head(notifications)
<1>1. /\ notifications \in Seq(Notifications) /\ notifications # <<>>
      /\ n \in Notifications
      /\ blocked \in [Tasks -> SUBSET Tasks] /\ waiting \in [Tasks -> SUBSET Tasks]
  BY PopType DEF TypeInv, TypeOK, HandleNotification
<1>2. /\ handling = NoMessage /\ handling' = n
      /\ notifications' = Tail(notifications)
      /\ UNCHANGED <<queueVars, targets>>
      /\ JoinThread(n) \/ IgnoreState(n) \/ RestartDeps(n) \/ ParkDeps(n)
  BY DEF HandleNotification, Idle
<1>3. /\ BlockedOnSome(notifications')
      /\ n.type = "TASK_BLOCKED" => n.deps # {}
      /\ \A t : ToldBy(notifications, t) => Tells(n, t) \/ ToldBy(notifications', t)
  BY <1>1, <1>2, ToldTail DEF WakeInv
<1> HIDE DEF n
<1>4. OutcomeToTell' /\ \A w \in Threads : Busy(w)' <=> Busy(w)
  BY DEF WakeInv, OutcomeToTell, Busy
<1>5. Released'
  <2>1. ASSUME n.type = "STATE_CHANGED", n.state \in Terminal PROVE waiting'[n.key] = {}
    <3>1. RestartDeps(n) /\ n.key \in Tasks
      BY <1>1, <1>2, <2>1 DEF JoinThread, IgnoreState, ParkDeps, Notifications
    <3> QED
      BY <1>1, <3>1 DEF RestartDeps
  <2> QED
    BY <1>2, <2>1 DEF Released
<1>6. waiting' = waiting \/ \A t \in Tasks : waiting'[t] \subseteq waiting[t]
  BY <1>1, <1>2 DEF JoinThread, IgnoreState, RestartDeps, ParkDeps
<1>7. ASSUME NEW t \in Tasks, blocked[t] # {}
      PROVE  blocked'[t] # {} \/ BeingHandled(t)'
  <2>1. CASE JoinThread(n) \/ IgnoreState(n)
    BY <1>7, <2>1 DEF JoinThread, IgnoreState
  <2>2. CASE RestartDeps(n)
    <3>1. handling' # NoMessage /\ n.type = "STATE_CHANGED"
      BY <1>1, <1>2, <2>2, NoMessageAssumption DEF RestartDeps
    <3>2. blocked'[t] # {} \/ t \in todo'
      BY <1>7, <2>2 DEF RestartDeps, BlockedWithout, Unblocked
    <3> QED
      BY <1>2, <3>1, <3>2 DEF BeingHandled
  <2>3. CASE ParkDeps(n)
    BY <1>1, <1>7, <2>3 DEF ParkDeps
  <2> QED
    BY <1>2, <2>1, <2>2, <2>3
<1>8. ASSUME NEW t \in Tasks, Tells(n, t) PROVE blocked'[t] # {} \/ BeingHandled(t)'
  <2>1. CASE n.type = "TASK_BLOCKED"
    <3>1. blocked' = [blocked EXCEPT ![t] = @ \cup n.deps] /\ n.deps # {}
      BY <1>2, <1>3, <1>8, <2>1 DEF JoinThread, IgnoreState, RestartDeps, ParkDeps, Tells
    <3> QED
      BY <1>1, <3>1
  <2>2. CASE n.type # "TASK_BLOCKED"
    BY <1>1, <1>2, <1>8, <2>2, NoMessageAssumption DEF Tells, BeingHandled
  <2> QED
    BY <2>1, <2>2
<1>9. ASSUME NEW t \in Registered \ dropped, faults = 0, Wanted(t)' PROVE Covered(t)'
  <2>1. t \in Tasks /\ Covered(t)
    BY <1>2, <1>6, <1>9, ConstantsAssumption DEF WakeInv, AllCovered, Wanted
  <2>2. CASE t \in queued \/ AtWork(t)
    BY <1>2, <1>4, <2>2 DEF Covered, AtWork
  <2>3. CASE Announced(t)
    <3>1. Tells(n, t) \/ ToldBy(notifications', t)
      BY <1>3, <2>3, AnnouncedTold
    <3> QED
      BY <1>8, <2>1, <3>1 DEF Covered, Announced, ToldBy, Tells
  <2>4. CASE BeingHandled(t)
    BY <1>2, <2>4 DEF BeingHandled
  <2>5. CASE blocked[t] # {}
    BY <1>7, <2>1, <2>5 DEF Covered
  <2> QED
    BY <2>1, <2>2, <2>3, <2>4, <2>5 DEF Covered
<1> QED
  BY <1>3, <1>4, <1>5, <1>9 DEF WakeInv, AllCovered

\* A task becomes wanted by parkDeps only together with its enqueueing.
LEMMA WakeKey ==
    ASSUME TypeInv, WakeInv, HandleKey, UNCHANGED <<taskVars, workerVars, historyVars>>
    PROVE  WakeInv'
<1>1. PICK k \in todo : (RestartTask(k) \/ ParkOn(k)) /\ todo' = todo \ {k}
  BY DEF HandleKey
<1>2. /\ k \in Tasks /\ waiting \in [Tasks -> SUBSET Tasks]
      /\ UNCHANGED <<notifications, handling, blocked, targets>>
  BY DEF TypeInv, TypeOK, HandleKey
<1>3. queued \subseteq queued' /\ (k \in Registered /\ EnqueueTask(k) => k \in queued')
  BY <1>1 DEF RestartTask, ParkOn, EnqueueTask
<1>4. \A w \in Threads : Busy(w)' <=> Busy(w)
  BY DEF Busy
<1>5. OutcomeToTell' /\ BlockedOnSome(notifications') /\ Released'
  BY <1>1, <1>2 DEF WakeInv, OutcomeToTell, Released, RestartTask, ParkOn
<1>6. ASSUME NEW t \in Registered \ dropped, faults = 0, Wanted(t)' PROVE Covered(t)'
  <2>1. CASE t = k /\ EnqueueTask(k)
    BY <1>3, <2>1 DEF Covered
  <2>2. CASE ~(t = k /\ EnqueueTask(k))
    <3>1. Wanted(t)
      <4>1. waiting'[t] = waiting[t] \/ (t = k /\ ParkOn(k))
        BY <1>1, <1>2, ConstantsAssumption DEF RestartTask, ParkOn
      <4>2. t = k /\ ParkOn(k) => waiting[t] # {}
        BY <2>2 DEF ParkOn, FirstWaiter
      <4> QED
        BY <1>2, <1>6, <4>1, <4>2 DEF Wanted
    <3>2. Covered(t)
      BY <1>6, <3>1 DEF WakeInv, AllCovered
    <3>3. BeingHandled(t) => BeingHandled(t)'
      BY <1>1, <1>2, <2>2 DEF BeingHandled, RestartTask, ParkOn
    <3> QED
      BY <1>2, <1>3, <1>4, <3>2, <3>3 DEF Covered, AtWork, Announced
  <2> QED
    BY <2>1, <2>2
<1> QED
  BY <1>5, <1>6 DEF WakeInv, AllCovered

\* A task whose outcome was handled is wanted by nobody.
LEMMA WakeCallback ==
    ASSUME TypeInv, WakeInv, InvokeCallback, UNCHANGED <<taskVars, workerVars, historyVars>>
    PROVE  WakeInv'
<1>1. /\ handling # NoMessage /\ handling' = NoMessage /\ todo = {}
      /\ UNCHANGED <<queueVars, notifications, blocked, waiting>>
      /\ targets' \subseteq targets
      /\ handling.type = "STATE_CHANGED" /\ handling.state \in Terminal =>
            handling.key \notin targets'
  BY DEF InvokeCallback
<1>2. OutcomeToTell' /\ BlockedOnSome(notifications') /\ Released'
  BY <1>1 DEF WakeInv, OutcomeToTell, Released
<1>3. ASSUME NEW t \in Registered \ dropped, faults = 0, Wanted(t)' PROVE Covered(t)'
  <2>1. Covered(t)
    BY <1>1, <1>3 DEF WakeInv, AllCovered, Wanted
  <2>2. ~BeingHandled(t)
    BY <1>1, <1>3 DEF WakeInv, Released, BeingHandled, Wanted
  <2> QED
    BY <1>1, <2>1, <2>2 DEF Covered, AtWork, Busy, Announced
<1> QED
  BY <1>2, <1>3 DEF WakeInv, AllCovered

\* Every step keeps what is wanted covered.
LEMMA WakeNext ==
    TypeInv /\ LockDiscipline /\ RunInv /\ WakeInv /\ [Next]_vars => WakeInv'
<1> SUFFICES ASSUME TypeInv, LockDiscipline, RunInv, WakeInv, [Next]_vars
             PROVE  WakeInv'
  OBVIOUS
<1>1. CASE \E w \in Threads : WorkerStep(w)
  BY <1>1, WakeWorker
<1>2. CASE MainStep /\ (HandleNotification \/ HandleKey \/ InvokeCallback)
  BY <1>2, WakeHandle, WakeKey, WakeCallback DEF MainStep
<1>3. CASE UNCHANGED <<taskVars, workerVars, historyVars, queued, notifications,
                       handling, todo, blocked, waiting, targets>>
  BY <1>3 DEF WakeInv, OutcomeToTell, Released, AllCovered, Wanted, Covered, AtWork,
              Busy, Announced, BeingHandled
<1> QED
  BY <1>1, <1>2, <1>3 DEF Next, MainStep, PushShutdown, Finish, Returned, vars

\* As long as the storage works, a registered task that somebody waits for or
\* that is a target without an outcome is queued, popped, announced, in the main
\* loop's hands or itself blocked, unless a worker dropped it because another
\* held its lock (NoLostTask): parkDeps, restartDeps and the workers lose no
\* wake-up between them but in DropTask.
THEOREM WakeUpsKept == Spec => []NoLostTask
<1>1. WakeInv => NoLostTask
  BY DEF WakeInv, AllCovered, Covered, AtWork, InFlight, NoLostTask
<1> QED
  BY WakeInit, WakeNext, <1>1, TypeInvariant, OneWorkerPerTask, RunInvariant, PTL
     DEF Spec

-----------------------------------------------------------------------------
(* The end. *)

Cancels(n, w) == n.type = "THREAD_CANCELLED" /\ n.index = w

\* A worker takes a step only before it has ended, it ends by ExitThread only,
\* and every notification but the one of ExitThread is about a task.
LEMMA WorkerNotifies ==
    ASSUME TypeInv, NEW w \in Threads, WorkerStep(w)
    PROVE  /\ pc[w] \notin {"gone", "unstarted"}
           /\ \/ /\ pc[w] = "exit" /\ pc'[w] = "gone"
                 /\ notifications' = Append(notifications, ThreadCancelled(w))
              \/ /\ pc[w] # "exit" /\ pc'[w] \notin {"gone", "unstarted"}
                 /\ \/ UNCHANGED notifications
                    \/ \E n \in Notifications :
                          /\ n.type # "THREAD_CANCELLED"
                          /\ notifications' = Append(notifications, n)
                    \/ \E m, n \in Notifications :
                          /\ m.type # "THREAD_CANCELLED" /\ n.type # "THREAD_CANCELLED"
                          /\ notifications' = Append(Append(notifications, m), n)
<1>1. pc \in [Threads -> WorkerPCs]
  BY DEF TypeInv, TypeOK
<1> USE DEF GoTo
<1>2. CASE ExitThread(w)
  BY <1>1, <1>2 DEF ExitThread, Notify
<1>3. CASE FetchStep(w)
  BY <1>1, <1>3 DEF FetchStep, DequeueTask, DequeueShutdown, Timeout, LockTask, DropTask
<1>4. CASE BeginStep(w)
  <2>1. pc[w] = "begin" /\ pc[w] \in Holding
    BY <1>4 DEF BeginStep, Rebroadcast, BeginTask, Holding
  <2>2. \E s \in TaskStates : notifications' = Append(notifications, StateChanged(cur[w], s))
    BY <1>4, <2>1, HolderFacts
       DEF BeginStep, Rebroadcast, BeginTask, Notify, TaskStates, TypeInv, TypeOK
  <2>3. \E n \in Notifications : n.type # "THREAD_CANCELLED"
                                 /\ notifications' = Append(notifications, n)
    BY <2>1, <2>2, HolderFacts, NotificationTypes DEF StateChanged
  <2>4. pc'[w] \notin {"gone", "unstarted"}
    BY <1>1, <1>4 DEF BeginStep, Rebroadcast, BeginTask, EnterLoop
  <2> QED
    BY <2>1, <2>3, <2>4
<1>5. CASE CheckStep(w)
  <2>1. pc[w] = "check" /\ pc[w] \in Holding
    BY <1>5 DEF CheckStep, ReadDependency, FailOnDependency, BlockOnDependencies,
                RefuseState, DependenciesComplete, MarkCompleted, Holding
  <2>2. pc'[w] \notin {"gone", "unstarted"}
    BY <1>1, <1>5, <2>1 DEF CheckStep, ReadDependency, FailOnDependency,
       BlockOnDependencies, RefuseState, DependenciesComplete, MarkCompleted
  <2>3. CASE BlockOnDependencies(w)
    <3> DEFINE m == StateChanged(cur[w], "Blocked")
               n == TaskBlocked(cur[w], reqs[cur[w]])
    <3>1. m \in Notifications /\ n \in Notifications
      BY <2>1, HolderFacts, NotificationTypes DEF TaskStates
    <3>2. m.type # "THREAD_CANCELLED" /\ n.type # "THREAD_CANCELLED"
      BY DEF StateChanged, TaskBlocked
    <3>3. notifications' = notifications \o <<m, n>>
      BY <2>3 DEF BlockOnDependencies
    <3> HIDE DEF m, n
    <3>4. notifications' = Append(Append(notifications, m), n)
      BY <3>1, <3>3 DEF TypeInv, TypeOK
    <3> QED
      BY <2>1, <2>2, <3>1, <3>2, <3>4
  <2>4. ~BlockOnDependencies(w) => UNCHANGED notifications
    BY <1>5 DEF CheckStep, ReadDependency, FailOnDependency, RefuseState,
                DependenciesComplete
  <2> QED
    BY <2>1, <2>2, <2>3, <2>4
<1>6. CASE ComputeStep(w)
  <2>1. UNCHANGED notifications /\ pc[w] \in Holding
    BY <1>6, KeepsTask DEF ComputeStep
  <2>2. pc'[w] \notin {"gone", "unstarted"}
    BY <1>1, <1>6 DEF ComputeStep, Configure, FailConfigure, EnterLoop, Deduplicate,
       FailDeduplicate, RunTask, FailRun, StoreTrace, CompleteTask
  <2> QED
    BY <2>1, <2>2 DEF Holding
<1>7. CASE NotifyOutcome(w)
  <2>1. pc[w] = "notify" /\ pc[w] \in Holding
    BY <1>7 DEF NotifyOutcome, Holding
  <2>2. StateChanged(cur[w], state[cur[w]]) \in Notifications
    BY <2>1, HolderFacts, NotificationTypes DEF TypeInv, TypeOK
  <2>3. /\ notifications' = Append(notifications, StateChanged(cur[w], state[cur[w]]))
        /\ StateChanged(cur[w], state[cur[w]]).type # "THREAD_CANCELLED"
    BY <1>7 DEF NotifyOutcome, Notify, StateChanged
  <2>4. pc'[w] \notin {"gone", "unstarted"}
    BY <1>1, <1>7 DEF NotifyOutcome
  <2> QED
    BY <2>1, <2>2, <2>3, <2>4
<1>8. CASE CloseTask(w) \/ StorageError(w) \/ ReleaseTask(w)
  BY <1>1, <1>8 DEF CloseTask, StorageError, ReleaseTask
<1> QED
  BY <1>2, <1>3, <1>4, <1>5, <1>6, <1>7, <1>8 DEF WorkerStep, CloseStep

-----------------------------------------------------------------------------
(* Joining the workers.                                                    *)

\* The notifications in s that announce the end of a thread are of threads that
\* have ended and are not joined, one for each.
EndsAnnounced(s, gone, running) ==
    /\ \A i \in DOMAIN s : s[i].type = "THREAD_CANCELLED" =>
          s[i].index \in gone \cap running
    /\ \A i, j \in DOMAIN s : \A w \in Threads :
          Cancels(s[i], w) /\ Cancels(s[j], w) => i = j

LastCancels(s) == s = <<>> \/ s[Len(s)].type = "THREAD_CANCELLED"

Gone == {w \in Threads : pc[w] = "gone"}
NotJoined == {w \in Threads : thread[w] = "running"}

\* A joined thread has ended; one that was not created has no worker.
ThreadsMatch ==
    \A w \in Threads : /\ thread[w] = "joined" => pc[w] = "gone"
                       /\ thread[w] = "unstarted" => pc[w] = "unstarted"

\* The announcements under way are those of ended threads; once all have ended,
\* such an announcement comes last.
JoinInv ==
    /\ ThreadsMatch
    /\ EndsAnnounced(notifications, Gone, NotJoined)
    /\ (\A w \in Threads : pc[w] \in {"gone", "unstarted"}) => LastCancels(notifications)
    /\ runnerState = "Done" => AllJoined

\* No thread has ended at first, and nothing was announced.
LEMMA JoinInit == Init => JoinInv
<1> SUFFICES ASSUME Init PROVE JoinInv
  OBVIOUS
<1>1. notifications = <<>> /\ runnerState = "Running"
  BY DEF Init
<1>2. ThreadsMatch
  BY DEF Init, ThreadsMatch
<1>3. EndsAnnounced(notifications, Gone, NotJoined) /\ LastCancels(notifications)
  BY <1>1 DEF EndsAnnounced, LastCancels
<1> QED
  BY <1>1, <1>2, <1>3 DEF JoinInv

\* The three ways in which the queue of notifications changes.
LEMMA EndsAppend ==
    ASSUME NEW s \in Seq(Notifications), NEW n \in Notifications,
           NEW G, NEW H, NEW R, G \subseteq H, EndsAnnounced(s, G, R),
           n.type = "THREAD_CANCELLED" =>
               n.index \in H \cap R /\ n.index \notin G
    PROVE  EndsAnnounced(Append(s, n), H, R)
<1> DEFINE u == Append(s, n)
           k == Len(s) + 1
<1>1. /\ DOMAIN u = DOMAIN s \cup {k}
      /\ \A i \in DOMAIN s : u[i] = s[i]
      /\ u[k] = n
  OBVIOUS
<1> HIDE DEF u, k
<1>2. ASSUME NEW i \in DOMAIN u, u[i].type = "THREAD_CANCELLED"
      PROVE  u[i].index \in H \cap R
  BY <1>1, <1>2 DEF EndsAnnounced
<1>3. ASSUME NEW i \in DOMAIN s, NEW w \in Threads, Cancels(s[i], w) PROVE ~Cancels(n, w)
  BY <1>3 DEF Cancels, EndsAnnounced
<1>4. ASSUME NEW i \in DOMAIN u, NEW j \in DOMAIN u, NEW w \in Threads,
             Cancels(u[i], w), Cancels(u[j], w)
      PROVE  i = j
  BY <1>1, <1>3, <1>4 DEF EndsAnnounced
<1> QED
  BY <1>2, <1>4 DEF EndsAnnounced, u

\* Taking the first notification off the queue leaves the others in order.
LEMMA EndsTail ==
    ASSUME NEW s \in Seq(Notifications), s # <<>>, NEW G, NEW R, NEW Q,
           EndsAnnounced(s, G, R),
           \A w \in Threads : w \in R \ Q => Cancels(s[1], w),
           R \subseteq Threads
    PROVE  EndsAnnounced(Tail(s), G, Q) /\ (LastCancels(s) => LastCancels(Tail(s)))
<1> DEFINE u == Tail(s)
<1>1. /\ \A i \in DOMAIN u : i \in Int /\ i + 1 \in DOMAIN s /\ u[i] = s[i + 1] /\ i + 1 # 1
      /\ 1 \in DOMAIN s
  OBVIOUS
<1>2. LastCancels(s) => LastCancels(u)
  BY DEF LastCancels
<1> HIDE DEF u
<1>3. ASSUME NEW i \in DOMAIN u, u[i].type = "THREAD_CANCELLED"
      PROVE  u[i].index \in G \cap Q
  <2>1. s[i + 1].index \in G \cap R /\ Cancels(s[i + 1], s[i + 1].index)
    BY <1>1, <1>3 DEF EndsAnnounced, Cancels
  <2>2. ~Cancels(s[1], s[i + 1].index)
    BY <1>1, <2>1 DEF EndsAnnounced
  <2> QED
    BY <1>1, <2>1, <2>2
<1>4. ASSUME NEW i \in DOMAIN u, NEW j \in DOMAIN u, NEW w \in Threads,
             Cancels(u[i], w), Cancels(u[j], w)
      PROVE  i = j
  <2>1. i + 1 = j + 1
    BY <1>1, <1>4 DEF EndsAnnounced
  <2> QED
    BY <1>1, <2>1
<1> QED
  BY <1>2, <1>3, <1>4 DEF EndsAnnounced, u

\* A worker announces its end last, and only once.
LEMMA JoinWorker ==
    ASSUME TypeInv, JoinInv, NEW w \in Threads, WorkerStep(w)
    PROVE  JoinInv'
<1>1. /\ notifications \in Seq(Notifications) /\ pc \in [Threads -> WorkerPCs]
      /\ thread \in [Threads -> {"running", "unstarted", "joined"}]
  BY DEF TypeInv, TypeOK
<1>2. /\ thread' = thread /\ runnerState' = runnerState
      /\ \A v \in Threads \ {w} : pc'[v] = pc[v]
  BY WorkerFootprint DEF Footprint, WorkerStep
<1>3. NotJoined' = NotJoined /\ Gone \subseteq Gone' /\ AllJoined' = AllJoined
  BY <1>2, WorkerNotifies DEF NotJoined, Gone, AllJoined
<1>4. ASSUME EndsAnnounced(notifications', Gone', NotJoined),
             (\A v \in Threads : pc'[v] \in {"gone", "unstarted"})
                 => LastCancels(notifications')
      PROVE  JoinInv'
  BY <1>2, <1>3, <1>4, WorkerNotifies DEF JoinInv, ThreadsMatch
<1>5. CASE /\ pc[w] = "exit" /\ pc'[w] = "gone"
           /\ notifications' = Append(notifications, ThreadCancelled(w))
  <2> DEFINE n == ThreadCancelled(w)
  <2>1. n \in Notifications /\ n.type = "THREAD_CANCELLED" /\ n.index = w
    BY NotificationTypes DEF ThreadCancelled
  <2>2. w \in Gone' /\ w \notin Gone /\ w \in NotJoined
    <3>1. thread[w] = "running"
      BY <1>1, <1>5 DEF JoinInv, ThreadsMatch
    <3> QED
      BY <1>5, <3>1 DEF Gone, NotJoined
  <2>3. notifications' = Append(notifications, n)
    BY <1>5
  <2> HIDE DEF n
  <2>4. EndsAnnounced(notifications', Gone', NotJoined)
    BY <1>1, <1>3, <2>1, <2>2, <2>3, EndsAppend DEF JoinInv
  <2>5. LastCancels(notifications')
    BY <1>1, <2>1, <2>3 DEF LastCancels
  <2> QED
    BY <1>4, <2>4, <2>5
<1>6. CASE pc[w] # "exit" /\ pc'[w] \notin {"gone", "unstarted"}
  <2>1. ASSUME NEW s \in Seq(Notifications), EndsAnnounced(s, Gone, NotJoined),
               NEW n \in Notifications, n.type # "THREAD_CANCELLED"
        PROVE  EndsAnnounced(Append(s, n), Gone, NotJoined)
    BY <2>1, EndsAppend
  <2>2. Gone' = Gone
    BY <1>2, <1>3, <1>6 DEF Gone
  <2>3. EndsAnnounced(notifications', Gone, NotJoined)
    <3>1. CASE UNCHANGED notifications
      BY <3>1 DEF JoinInv
    <3>2. ASSUME NEW n \in Notifications, n.type # "THREAD_CANCELLED",
                 notifications' = Append(notifications, n)
          PROVE  EndsAnnounced(notifications', Gone, NotJoined)
      BY <1>1, <2>1, <3>2 DEF JoinInv
    <3>3. ASSUME NEW m \in Notifications, NEW n \in Notifications,
                 m.type # "THREAD_CANCELLED", n.type # "THREAD_CANCELLED",
                 notifications' = Append(Append(notifications, m), n)
          PROVE  EndsAnnounced(notifications', Gone, NotJoined)
      <4>1. Append(notifications, m) \in Seq(Notifications)
        BY <1>1, PushType
      <4>2. EndsAnnounced(Append(notifications, m), Gone, NotJoined)
        BY <1>1, <2>1, <3>3 DEF JoinInv
      <4> QED
        BY <2>1, <3>3, <4>1, <4>2
    <3> QED
      BY <1>6, <3>1, <3>2, <3>3, WorkerNotifies
  <2> QED
    BY <1>4, <1>6, <2>2, <2>3
<1> QED
  BY <1>5, <1>6, WorkerNotifies

\* The main loop takes up a thread end and joins that thread in one step.
LEMMA JoinMain ==
    ASSUME TypeInv, JoinInv, MainStep
    PROVE  JoinInv'
<1>1. /\ notifications \in Seq(Notifications) /\ pc \in [Threads -> WorkerPCs]
      /\ thread \in [Threads -> {"running", "unstarted", "joined"}]
  BY DEF TypeInv, TypeOK
<1>2. pc' = pc /\ Gone' = Gone
  BY DEF MainStep, Gone
<1>3. CASE HandleNotification
  <2> DEFINE n == Head(notifications)
  <2>1. n \in Notifications /\ n = notifications[1] /\ 1 \in DOMAIN notifications
        /\ notifications # <<>> /\ notifications' = Tail(notifications)
    BY <1>1, <1>3, PopType DEF HandleNotification
  <2>2. runnerState' = runnerState
    BY <1>3 DEF HandleNotification
  <2> HIDE DEF n
  <2>3. CASE n.type = "THREAD_CANCELLED"
    <3>1. n.index \in Threads /\ n.index \in Gone
      BY <2>1, <2>3 DEF Notifications, JoinInv, EndsAnnounced
    <3>2. thread' = [thread EXCEPT ![n.index] = "joined"]
      BY <1>3, <2>3 DEF HandleNotification, JoinThread, IgnoreState, RestartDeps,
                        ParkDeps, n
    <3>3. \A w \in Threads : w \in NotJoined \ NotJoined' => Cancels(n, w)
      BY <1>1, <2>3, <3>1, <3>2 DEF NotJoined, Cancels
    <3>4. /\ EndsAnnounced(notifications', Gone, NotJoined')
          /\ LastCancels(notifications) => LastCancels(notifications')
      <4>1. NotJoined \subseteq Threads
        BY DEF NotJoined
      <4>2. EndsAnnounced(notifications, Gone, NotJoined)
        BY DEF JoinInv
      <4> QED
        BY <1>1, <2>1, <3>3, <4>1, <4>2, EndsTail
    <3>5. AllJoined => AllJoined'
      BY <1>1, <3>1, <3>2 DEF AllJoined
    <3>6. ThreadsMatch'
      BY <1>1, <1>2, <3>1, <3>2 DEF JoinInv, ThreadsMatch, Gone
    <3> QED
      BY <1>2, <2>2, <3>4, <3>5, <3>6 DEF JoinInv
  <2>4. CASE n.type # "THREAD_CANCELLED"
    <3>1. thread' = thread
      BY <1>3, <2>4 DEF HandleNotification, JoinThread, IgnoreState, RestartDeps,
                        ParkDeps, n
    <3>2. NotJoined' = NotJoined /\ AllJoined' = AllJoined
      BY <3>1 DEF NotJoined, AllJoined
    <3>3. /\ EndsAnnounced(notifications', Gone, NotJoined)
          /\ LastCancels(notifications) => LastCancels(notifications')
      BY <1>1, <2>1, EndsTail DEF JoinInv, NotJoined
    <3> QED
      BY <1>2, <2>2, <3>1, <3>2, <3>3 DEF JoinInv, ThreadsMatch
  <2> QED
    BY <2>3, <2>4
<1>4. CASE HandleKey \/ InvokeCallback \/ PushShutdown \/ Finish
  <2>1. UNCHANGED <<notifications, thread>>
    BY <1>4 DEF HandleKey, InvokeCallback, PushShutdown, Finish
  <2>2. NotJoined' = NotJoined /\ AllJoined' = AllJoined
    BY <2>1 DEF NotJoined, AllJoined
  <2>3. runnerState' = "Done" => runnerState = "Done" \/ AllJoined
    BY <1>4 DEF HandleKey, InvokeCallback, PushShutdown, Finish
  <2> QED
    BY <1>2, <2>1, <2>2, <2>3 DEF JoinInv, ThreadsMatch
<1> QED
  BY <1>3, <1>4 DEF MainStep

\* The bookkeeping of thread ends holds throughout.
LEMMA JoinInvariant == Spec => []JoinInv
<1>1. JoinInv /\ UNCHANGED vars => JoinInv'
  BY DEF vars, JoinInv, ThreadsMatch, Gone, NotJoined, AllJoined
<1>2. TypeInv /\ JoinInv /\ [Next]_vars => JoinInv'
  BY <1>1, JoinWorker, JoinMain DEF Next, Returned
<1> QED
  BY JoinInit, <1>2, TypeInvariant, PTL DEF Spec

\* Once every worker is joined, nothing is under way to the main loop.
LEMMA JoinedLast ==
    ASSUME TypeInv, JoinInv, AllJoined
    PROVE  notifications = <<>> /\ \A w \in Threads : pc[w] = "gone"
<1>1. \A w \in Threads : pc[w] = "gone" /\ thread[w] = "joined"
  BY DEF JoinInv, ThreadsMatch, AllJoined
<1> SUFFICES ASSUME notifications # <<>> PROVE FALSE
  BY <1>1
<1> DEFINE k == Len(notifications)
<1>2. k \in DOMAIN notifications
  BY DEF TypeInv, TypeOK
<1>3. notifications[k].type = "THREAD_CANCELLED"
  BY <1>1 DEF JoinInv, LastCancels
<1> QED
  BY <1>1, <1>2, <1>3 DEF JoinInv, EndsAnnounced, NotJoined

\* When run() returns every worker has ended, no task is locked, and the main
\* loop has handled everything that was announced (joinThread closes the async
\* handle only after the last thread is joined).
THEOREM NothingLeftBehind == Spec => []CleanReturn
<1>1. TypeInv /\ LockDiscipline /\ JoinInv => CleanReturn
  <2> SUFFICES ASSUME TypeInv, LockDiscipline, JoinInv, runnerState = "Done"
               PROVE  /\ \A w \in Threads : pc[w] = "gone"
                      /\ \A t \in Tasks : owner[t] = NoThread
                      /\ notifications = <<>>
    BY DEF CleanReturn
  <2>1. notifications = <<>> /\ \A w \in Threads : pc[w] = "gone"
    BY JoinedLast DEF JoinInv
  <2>2. \A t \in Tasks : owner[t] \in Threads \cup {NoThread}
    BY DEF TypeInv, TypeOK
  <2> QED
    BY <2>1, <2>2 DEF LockDiscipline, Holding
<1> QED
  BY <1>1, JoinInvariant, TypeInvariant, OneWorkerPerTask, PTL DEF Spec

-----------------------------------------------------------------------------
(* A SHUTDOWN item for every worker.                                       *)

Stops(s) == {i \in DOMAIN s : s[i] = SHUTDOWN}
Active == {w \in Threads : pc[w] \notin {"exit", "gone", "unstarted"}}

\* The positions of SHUTDOWN items in a queue are finitely many.
LEMMA StopsFinite ==
    ASSUME NEW S, NEW s \in Seq(S)
    PROVE  IsFiniteSet(Stops(s)) /\ Cardinality(Stops(s)) \in Nat
<1>1. Stops(s) \subseteq 1 .. Len(s) /\ Len(s) \in Nat
  BY DEF Stops
<1>2. IsFiniteSet(1 .. Len(s))
  BY <1>1, FS_Interval
<1> QED
  BY <1>1, <1>2, FS_Subset, FS_CardinalityType

\* A pushed item counts if it is SHUTDOWN.
LEMMA StopsAppend ==
    ASSUME NEW S, NEW s \in Seq(S), NEW e
    PROVE  Cardinality(Stops(Append(s, e))) =
               Cardinality(Stops(s)) + (IF e = SHUTDOWN THEN 1 ELSE 0)
<1> DEFINE u == Append(s, e)
           k == Len(s) + 1
<1>1. /\ DOMAIN u = DOMAIN s \cup {k} /\ k \notin DOMAIN s
      /\ \A i \in DOMAIN s : u[i] = s[i]
      /\ u[k] = e
  OBVIOUS
<1> HIDE DEF u, k
<1>2. Stops(u) = IF e = SHUTDOWN THEN Stops(s) \cup {k} ELSE Stops(s)
  BY <1>1 DEF Stops
<1>3. k \notin Stops(s)
  BY <1>1 DEF Stops
<1>4. IsFiniteSet(Stops(s)) /\ Cardinality(Stops(s)) \in Nat
  BY StopsFinite
<1>5. Cardinality(Stops(s) \cup {k}) = Cardinality(Stops(s)) + 1
  BY <1>3, <1>4, FS_AddElement
<1>6. Cardinality(Stops(u)) = Cardinality(Stops(s)) + (IF e = SHUTDOWN THEN 1 ELSE 0)
  BY <1>2, <1>4, <1>5
<1> QED
  BY <1>6 DEF u

\* A popped item no longer counts if it was SHUTDOWN.
LEMMA StopsTail ==
    ASSUME NEW S, NEW s \in Seq(S), s # <<>>
    PROVE  Cardinality(Stops(Tail(s))) =
               Cardinality(Stops(s)) - (IF Head(s) = SHUTDOWN THEN 1 ELSE 0)
<1> DEFINE u == Tail(s)
           f == [i \in Stops(u) |-> i + 1]
<1>1. /\ \A i \in DOMAIN u : i \in Int /\ i + 1 \in DOMAIN s /\ u[i] = s[i + 1] /\ i + 1 # 1
      /\ \A j \in DOMAIN s : j \in Int /\ (j # 1 => j - 1 \in DOMAIN u /\ j = (j - 1) + 1)
      /\ 1 \in DOMAIN s /\ Head(s) = s[1] /\ u \in Seq(S)
  OBVIOUS
<1> HIDE DEF u
<1>2. f \in Bijection(Stops(u), Stops(s) \ {1})
  <2>1. f \in [Stops(u) -> Stops(s) \ {1}]
    BY <1>1 DEF Stops
  <2>2. \A i, j \in Stops(u) : f[i] = f[j] => i = j
    BY <1>1 DEF Stops
  <2>3. ASSUME NEW j \in Stops(s) \ {1} PROVE \E i \in Stops(u) : f[i] = j
    <3>1. j - 1 \in Stops(u) /\ (j - 1) + 1 = j
      BY <1>1 DEF Stops
    <3> QED
      BY <3>1
  <2> QED
    BY <2>1, <2>2, <2>3 DEF Bijection, Injection, Surjection, IsInjective
<1>3. Cardinality(Stops(s) \ {1}) = Cardinality(Stops(u))
  BY <1>1, <1>2, StopsFinite, FS_Bijection DEF ExistsBijection
<1>4. 1 \in Stops(s) <=> Head(s) = SHUTDOWN
  BY <1>1 DEF Stops
<1>5. IsFiniteSet(Stops(s)) /\ Cardinality(Stops(s)) \in Nat
  BY StopsFinite
<1>6. Cardinality(Stops(s) \ {1}) =
          IF 1 \in Stops(s) THEN Cardinality(Stops(s)) - 1 ELSE Cardinality(Stops(s))
  BY <1>5, FS_RemoveElement
<1>7. Cardinality(Stops(u)) = Cardinality(Stops(s)) - (IF Head(s) = SHUTDOWN THEN 1 ELSE 0)
  BY <1>3, <1>4, <1>5, <1>6
<1> QED
  BY <1>7 DEF u

\* The items that a worker in its loop can count on.
Supply == Cardinality(Stops(ready)) + pushes

\* shutdown() is called once, with nothing left to push, and from then on there
\* are items enough.
StopInv ==
    /\ runnerState = "Running" \/ handling # NoMessage => pushes = 0
    /\ runnerState = "Shutdown" => Cardinality(Active) <= Supply

\* At first nobody has called shutdown.
LEMMA StopInit == Init => StopInv
BY NoMessageAssumption DEF Init, StopInv

\* The workers that still run are finitely many.
LEMMA ActiveFinite ==
    /\ IsFiniteSet(Active) /\ Cardinality(Active) \in Nat
    /\ Cardinality(Active) <= Cardinality(Threads)
<1>1. Active \subseteq Threads
  BY DEF Active
<1> QED
  BY <1>1, ConstantsAssumption, FS_Subset, FS_CardinalityType

\* A worker takes at most one SHUTDOWN item, and then it is on its way out.
LEMMA StopWorker ==
    ASSUME TypeInv, StopInv, NEW w \in Threads, WorkerStep(w)
    PROVE  StopInv'
<1>1. /\ ready \in Seq(Tasks \cup {SHUTDOWN}) /\ pushes \in Nat
      /\ pc \in [Threads -> WorkerPCs]
  BY ThreadCount DEF TypeInv, TypeOK
<1>2. UNCHANGED <<runnerState, handling, pushes>>
  BY DEF WorkerStep
<1>3. Active' \subseteq Active
  BY <1>1, WorkerFootprint, WorkerNotifies DEF Active, Footprint
<1>4. Cardinality(Active') \in Nat /\ Cardinality(Active') <= Cardinality(Active)
  <2>1. IsFiniteSet(Active)
    BY ActiveFinite
  <2>2. IsFiniteSet(Active') /\ Cardinality(Active') <= Cardinality(Active)
    BY <1>3, <2>1, FS_Subset
  <2> QED
    BY <2>2, FS_CardinalityType
<1>5. Cardinality(Stops(ready)) \in Nat
  BY <1>1, StopsFinite
<1>6. CASE FetchStep(w) /\ DequeueShutdown(w)
  <2>1. w \in Active /\ w \notin Active'
    BY <1>1, <1>6 DEF Active, DequeueShutdown, GoTo
  <2>2. Cardinality(Active') <= Cardinality(Active) - 1
    <3>1. Active' \subseteq Active \ {w}
      BY <1>3, <2>1
    <3>2. IsFiniteSet(Active \ {w}) /\ Cardinality(Active \ {w}) = Cardinality(Active) - 1
      BY <2>1, ActiveFinite, FS_RemoveElement
    <3> QED
      BY <3>1, <3>2, FS_Subset
  <2>3. Cardinality(Stops(ready')) = Cardinality(Stops(ready)) - 1
    BY <1>1, <1>6, StopsTail DEF DequeueShutdown
  <2> QED
    BY <1>1, <1>2, <1>4, <1>5, <2>2, <2>3, ActiveFinite DEF StopInv, Supply
<1>7. CASE FetchStep(w) /\ ~DequeueShutdown(w)
  <2>1. Cardinality(Stops(ready')) = Cardinality(Stops(ready))
    <3>1. \/ ready' = ready
          \/ ready # <<>> /\ Head(ready) # SHUTDOWN /\ ready' = Tail(ready)
      BY <1>7 DEF FetchStep, DequeueTask, Timeout, LockTask, DropTask
    <3>2. ready # <<>> /\ Head(ready) # SHUTDOWN =>
              Cardinality(Stops(Tail(ready))) = Cardinality(Stops(ready)) - 0
      BY <1>1, StopsTail
    <3>3. CASE ready' = ready
      BY <3>3
    <3>4. CASE ready # <<>> /\ Head(ready) # SHUTDOWN /\ ready' = Tail(ready)
      <4>1. Cardinality(Stops(ready')) = Cardinality(Stops(ready)) - 0
        BY <3>2, <3>4
      <4> QED
        BY <1>5, <4>1
    <3> QED
      BY <3>1, <3>3, <3>4
  <2> QED
    BY <1>1, <1>2, <1>4, <1>5, <2>1, ActiveFinite DEF StopInv, Supply
<1>8. CASE BeginStep(w) \/ CheckStep(w) \/ ComputeStep(w) \/ CloseStep(w)
  <2>1. ready' = ready
    BY <1>8 DEF BeginStep, CheckStep, ComputeStep, CloseStep
  <2> QED
    BY <1>1, <1>2, <1>4, <1>5, <2>1, ActiveFinite DEF StopInv, Supply
<1> QED
  BY <1>6, <1>7, <1>8 DEF WorkerStep

\* shutdown owes one item per created thread, and each push pays one.
LEMMA StopMain ==
    ASSUME TypeInv, StopInv, MainStep
    PROVE  StopInv'
<1>1. ready \in Seq(Tasks \cup {SHUTDOWN}) /\ pushes \in Nat
  BY ThreadCount DEF TypeInv, TypeOK
<1>2. Active' = Active
  BY DEF MainStep, Active
<1>3. Cardinality(Stops(ready)) \in Nat /\ Cardinality(Active) \in Nat
  BY <1>1, StopsFinite, ActiveFinite
<1>4. CASE HandleNotification
  BY <1>2, <1>4 DEF HandleNotification, Idle, StopInv, Supply
<1>5. CASE HandleKey
  <2>1. UNCHANGED <<runnerState, pushes, handling>>
    BY <1>5 DEF HandleKey
  <2>2. Cardinality(Stops(ready')) >= Cardinality(Stops(ready))
    <3>1. ready' = ready \/ \E t \in Tasks : ready' = Append(ready, t)
      BY <1>5 DEF HandleKey, RestartTask, ParkOn, EnqueueTask, TypeInv, TypeOK
    <3>2. \A t \in Tasks : Cardinality(Stops(Append(ready, t))) = Cardinality(Stops(ready)) + 0
      BY <1>1, StopsAppend, ConstantsAssumption
    <3>3. CASE ready' = ready
      BY <1>3, <3>3
    <3>4. ASSUME NEW t \in Tasks, ready' = Append(ready, t)
          PROVE  Cardinality(Stops(ready')) >= Cardinality(Stops(ready))
      <4>1. Cardinality(Stops(ready')) = Cardinality(Stops(ready)) + 0
        BY <3>2, <3>4
      <4> QED
        BY <1>3, <4>1
    <3> QED
      BY <3>1, <3>3, <3>4
  <2>3. Cardinality(Stops(ready')) \in Nat
    BY <1>5, TypeMain, StopsFinite DEF MainStep, TypeInv, TypeOK
  <2> QED
    BY <1>1, <1>2, <1>3, <2>1, <2>2, <2>3 DEF StopInv, Supply
<1>6. CASE InvokeCallback
  BY <1>1, <1>2, <1>3, <1>6, ActiveFinite, ThreadCount
     DEF InvokeCallback, ShutdownItems, StopInv, Supply
<1>7. CASE PushShutdown
  <2>1. Cardinality(Stops(ready')) = Cardinality(Stops(ready)) + 1
    BY <1>1, <1>7, StopsAppend DEF PushShutdown
  <2> QED
    BY <1>1, <1>2, <1>3, <1>7, <2>1 DEF PushShutdown, StopInv, Supply
<1>8. CASE Finish
  BY <1>2, <1>8 DEF Finish, Idle, StopInv, Supply
<1> QED
  BY <1>4, <1>5, <1>6, <1>7, <1>8 DEF MainStep

\* After shutdown() there is a SHUTDOWN item for every worker still in its loop,
\* in m_ready or yet to be pushed: none of them waits for one in vain, also when
\* others have ended on an error and took none.
THEOREM ItemForEveryWorker == Spec => []EveryWorkerCanStop
<1>1. StopInv /\ UNCHANGED vars => StopInv'
  BY DEF vars, StopInv, Supply, Active
<1>2. TypeInv /\ StopInv /\ [Next]_vars => StopInv'
  BY <1>1, StopWorker, StopMain DEF Next, Returned
<1>3. StopInv => EveryWorkerCanStop
  BY DEF StopInv, EveryWorkerCanStop, Supply, Active, Stops
<1> QED
  BY StopInit, <1>2, <1>3, TypeInvariant, PTL DEF Spec

-----------------------------------------------------------------------------
(* The runner is what the builder takes it for.                            *)

Started == {t \in Tasks : state[t] # "New"}
Known == {t \in Tasks : state[t] # "New" \/ InFlight(t)}
Received == Graph!CompletedTasks

\* A TASK_BLOCKED notification is about a task that was taken up, and each of the
\* dependencies it names was requested on top of completed ones.
Asked(n, S, C) ==
    n.type = "TASK_BLOCKED" =>
        /\ n.key \in S \cap Registered
        /\ \A d \in n.deps : \E D \in SUBSET C : d \in Requests[n.key][D]
AllAsked(q, S, C) == \A i \in DOMAIN q : Asked(q[i], S, C)

\* A worker has a task only between popping and releasing it, and has started it
\* by the time it does anything with it.
HandsOn(w) ==
    /\ cur[w] \in Registered \cup {NoTask}
    /\ pc[w] \notin Holding \cup {"lock"} => cur[w] = NoTask
    /\ pc[w] \in Holding \ {"begin"} => cur[w] \in Started

\* Only what the registry knows gets into the queue, and only started tasks are
\* parked or restarted.
TakenUp ==
    /\ queued \subseteq Registered
    /\ \A w \in Threads : HandsOn(w)
    /\ \A d \in Tasks : waiting[d] \subseteq Started
    /\ handling # NoMessage =>
          /\ Asked(handling, Started, Received)
          /\ handling.type = "STATE_CHANGED" => todo \subseteq Started
          /\ handling.type = "TASK_BLOCKED" => todo \subseteq handling.deps
    /\ AllAsked(notifications, Started, Received)

\* The callback only ever crosses targets off.  Once the last worker is joined
\* nothing is left to handle but its own end.
Over ==
    /\ targets \subseteq Targets
    /\ Finished => Idle
    /\ AllJoined /\ handling # NoMessage => handling.type = "THREAD_CANCELLED"

LEMMA TakenUpInit == Init => TakenUp
<1> SUFFICES ASSUME Init PROVE TakenUp
  OBVIOUS
<1>1. queued \subseteq Registered /\ handling = NoMessage
  BY ConstantsAssumption DEF Init
<1>2. ASSUME NEW w \in Threads PROVE HandsOn(w)
  BY DEF Init, HandsOn, Holding
<1>3. \A d \in Tasks : waiting[d] \subseteq Started
  BY DEF Init
<1>4. AllAsked(notifications, Started, Received)
  BY DEF Init, AllAsked
<1> QED
  BY <1>1, <1>2, <1>3, <1>4 DEF TakenUp

\* Queues of such notifications, as more tasks start and complete.
LEMMA AskedQueues ==
    ASSUME NEW q \in Seq(Notifications), NEW S, NEW T, NEW C, NEW D,
           S \subseteq T, C \subseteq D, AllAsked(q, S, C)
    PROVE  /\ AllAsked(q, T, D)
           /\ \A n \in Notifications : Asked(n, T, D) => AllAsked(Append(q, n), T, D)
           /\ q # <<>> => Asked(Head(q), S, C) /\ AllAsked(Tail(q), S, C)
<1>1. AllAsked(q, T, D)
  <2>1. ASSUME NEW n, Asked(n, S, C) PROVE Asked(n, T, D)
    BY <2>1 DEF Asked
  <2> QED
    BY <2>1 DEF AllAsked
<1>2. ASSUME NEW n \in Notifications, Asked(n, T, D) PROVE AllAsked(Append(q, n), T, D)
  BY <1>1, <1>2, AppendProperties DEF AllAsked
<1>3. ASSUME q # <<>> PROVE Asked(Head(q), S, C) /\ AllAsked(Tail(q), S, C)
  <2>1. Head(q) = q[1] /\ 1 \in DOMAIN q
    BY <1>3
  <2>2. \A i \in DOMAIN Tail(q) : i + 1 \in DOMAIN q /\ Tail(q)[i] = q[i + 1]
    BY <1>3
  <2> QED
    BY <2>1, <2>2 DEF AllAsked
<1> QED
  BY <1>1, <1>2, <1>3

\* No worker's step takes a start or a completion back.
LEMMA Onward ==
    ASSUME TypeInv, RunInv, NEW w \in Threads, WorkerStep(w)
    PROVE  Started \subseteq Started' /\ Received \subseteq Received'
<1>1. Received \subseteq Received'
  <2>1. \A t \in Tasks : state[t] = "Completed" => state'[t] = "Completed"
    BY OutcomeFinal DEF Terminal
  <2> QED
    BY <2>1 DEF Received, Graph!CompletedTasks, Outcome, Terminal
<1>2. ASSUME NEW t \in Tasks, state[t] # "New" PROVE state'[t] # "New"
  <2>1. CASE state' = state
    BY <1>2, <2>1
  <2>2. CASE \E u, s : s # "New" /\ state' = [state EXCEPT ![u] = s]
    BY <1>2, <2>2 DEF TypeInv, TypeOK
  <2>3. state' = state \/ \E u, s : s # "New" /\ state' = [state EXCEPT ![u] = s]
    <3> USE DEF SetState
    <3>1. CASE FetchStep(w) \/ CloseStep(w)
      BY <3>1 DEF FetchStep, CloseStep
    <3>2. CASE BeginStep(w)
      <4>1. state' = state \/ state' = [state EXCEPT ![cur[w]] = "Running"]
        BY <3>2 DEF BeginStep, Rebroadcast, BeginTask
      <4> QED
        BY <4>1
    <3>3. CASE CheckStep(w)
      <4>1. \/ state' = state
            \/ state' = [state EXCEPT ![cur[w]] = "Failed"]
            \/ state' = [state EXCEPT ![cur[w]] = "Blocked"]
        BY <3>3 DEF CheckStep, ReadDependency, FailOnDependency, BlockOnDependencies,
                    RefuseState, DependenciesComplete
      <4> QED
        BY <4>1
    <3>4. CASE ComputeStep(w)
      <4>1. \/ state' = state
            \/ state' = [state EXCEPT ![cur[w]] = "Failed"]
            \/ state' = [state EXCEPT ![cur[w]] = "Completed"]
        BY <3>4 DEF ComputeStep, Configure, FailConfigure, Deduplicate, FailDeduplicate,
                    RunTask, FailRun, StoreTrace, CompleteTask
      <4> QED
        BY <4>1
    <3> QED
      BY <3>1, <3>2, <3>3, <3>4 DEF WorkerStep
  <2> QED
    BY <2>1, <2>2, <2>3
<1> QED
  BY <1>1, <1>2 DEF Started

\* A worker asks for the parking of its own task, and of its dependencies.
LEMMA AsksForOwn ==
    ASSUME TypeInv, RunInv, Justified, TakenUp, NEW w \in Threads, WorkerStep(w)
    PROVE  AllAsked(notifications', Started', Received')
<1>1. notifications \in Seq(Notifications)
  BY DEF TypeInv, TypeOK
<1>2. /\ Started \subseteq Started' /\ Received \subseteq Received'
      /\ AllAsked(notifications, Started, Received)
  BY Onward DEF TakenUp
<1>3. ASSUME NEW n \in Notifications, Asked(n, Started', Received'),
             notifications' = Append(notifications, n)
      PROVE  AllAsked(notifications', Started', Received')
  BY <1>1, <1>2, <1>3, AskedQueues
<1>4. CASE UNCHANGED notifications
  BY <1>1, <1>2, <1>4, AskedQueues
<1>5. ASSUME NEW t \in Tasks, NEW s \in TaskStates,
             notifications' = Append(notifications, StateChanged(t, s))
      PROVE  AllAsked(notifications', Started', Received')
  <2>1. Asked(StateChanged(t, s), Started', Received')
    BY DEF Asked, StateChanged
  <2> QED
    BY <1>3, <1>5, <2>1, NotificationTypes
<1>6. CASE ExitThread(w)
  <2>1. notifications' = Append(notifications, ThreadCancelled(w))
    BY <1>6 DEF ExitThread, Notify
  <2>2. Asked(ThreadCancelled(w), Started', Received')
    BY DEF Asked, ThreadCancelled
  <2> QED
    BY <1>3, <2>1, <2>2, NotificationTypes
<1>7. CASE BlockOnDependencies(w)
  <2> DEFINE t == cur[w]
             m == StateChanged(t, "Blocked")
             n == TaskBlocked(t, reqs[t])
  <2>1. /\ pc[w] \in Holding \ {"begin"} /\ notifications' = notifications \o <<m, n>>
    BY <1>7 DEF BlockOnDependencies, MarkCompleted, Holding
  <2>2. m \in Notifications /\ n \in Notifications /\ t \in Tasks
    BY <2>1, HolderFacts, NotificationTypes DEF TaskStates
  <2>3. t \in Started /\ t \in Registered
    BY <2>1, <2>2, ConstantsAssumption DEF TakenUp, HandsOn
  <2>4. ASSUME NEW d \in reqs[t] PROVE \E D \in SUBSET Received : d \in Requests[t][D]
    <3>1. PICK D \in SUBSET done[t] : d \in Requests[t][D]
      BY <2>2 DEF Justified, TaskJustified
    <3>2. D \in SUBSET Received
      BY <2>2, <3>1, ReceivedCompleted DEF Received
    <3> QED
      BY <3>1, <3>2
  <2>5. Asked(m, Started', Received')
    BY DEF Asked, StateChanged
  <2>6. Asked(n, Started', Received')
    <3>1. n.key = t /\ n.deps = reqs[t]
      BY DEF TaskBlocked
    <3>2. \A d \in reqs[t] : \E D \in SUBSET Received' : d \in Requests[t][D]
      BY <1>2, <2>4
    <3> QED
      BY <1>2, <2>3, <3>1, <3>2 DEF Asked
  <2> HIDE DEF m, n
  <2>7. notifications' = Append(Append(notifications, m), n)
    BY <1>1, <2>1, <2>2
  <2>8. /\ AllAsked(Append(notifications, m), Started', Received')
        /\ Append(notifications, m) \in Seq(Notifications)
    BY <1>1, <1>2, <2>2, <2>5, AskedQueues, PushType
  <2> QED
    BY <2>2, <2>6, <2>7, <2>8, AskedQueues
<1>8. CASE \/ Rebroadcast(w) \/ BeginTask(w) \/ NotifyOutcome(w)
  <2>1. pc[w] \in Holding
    BY <1>8 DEF Rebroadcast, BeginTask, NotifyOutcome, Holding
  <2>2. cur[w] \in Tasks /\ state[cur[w]] \in TaskStates /\ "Running" \in TaskStates
    BY <2>1, HolderFacts DEF TypeInv, TypeOK, TaskStates
  <2> QED
    BY <1>5, <1>8, <2>2 DEF Rebroadcast, BeginTask, NotifyOutcome, Notify
<1> QED
  BY <1>4, <1>6, <1>7, <1>8
     DEF WorkerStep, FetchStep, BeginStep, CheckStep, ReadDependency, FailOnDependency,
         RefuseState, DependenciesComplete, ComputeStep, CloseStep, CloseTask,
         StorageError, ReleaseTask

\* What a worker pops is a key of the queued set.
LEMMA PoppedQueued ==
    ASSUME TypeInv, QueuedMirrorsReady, ready # <<>>, Head(ready) # SHUTDOWN
    PROVE  Head(ready) \in queued
<1>1. Head(ready) = ready[1] /\ 1 \in DOMAIN ready
  BY DEF TypeInv, TypeOK
<1> QED
  BY <1>1 DEF QueuedMirrorsReady

LEMMA HandsOnKept ==
    ASSUME TypeInv, RunInv, QueuedMirrorsReady, TakenUp, NEW w \in Threads, WorkerStep(w)
    PROVE  queued' \subseteq queued /\ \A v \in Threads : HandsOn(v)'
<1>1. /\ pc \in [Threads -> WorkerPCs] /\ cur \in [Threads -> Tasks \cup {NoTask}]
      /\ state \in [Tasks -> TaskStates]
  BY DEF TypeInv, TypeOK
<1>2. Started \subseteq Started'
  BY Onward
<1>3. ASSUME NEW v \in Threads \ {w} PROVE HandsOn(v)'
  <2>1. HandsOn(v) /\ pc'[v] = pc[v] /\ cur'[v] = cur[v]
    BY WorkerFootprint DEF Footprint, TakenUp
  <2> QED
    BY <1>2, <2>1 DEF HandsOn
<1>4. HandsOn(w) /\ NoTask \notin Tasks /\ Registered \subseteq Tasks
  BY ConstantsAssumption DEF TakenUp
<1>5. queued' \subseteq queued /\ HandsOn(w)'
  <2>1. CASE FetchStep(w)
    <3>1. CASE DequeueTask(w)
      <4>1. Head(ready) \in Registered
        BY <3>1, PoppedQueued DEF DequeueTask, TakenUp
      <4> QED
        BY <1>1, <3>1, <4>1 DEF DequeueTask, GoTo, HandsOn, Holding
    <3>2. CASE DequeueShutdown(w) \/ Timeout(w) \/ DropTask(w)
      BY <1>1, <1>4, <2>1, <3>2
         DEF FetchStep, DequeueShutdown, Timeout, DropTask, GoTo, HandsOn, Holding, Started
    <3>3. CASE LockTask(w)
      BY <1>1, <1>4, <3>3 DEF LockTask, GoTo, HandsOn, Holding
    <3> QED
      BY <2>1, <3>1, <3>2, <3>3 DEF FetchStep
  <2>2. CASE BeginStep(w) \/ CheckStep(w) \/ ComputeStep(w)
    <3>1. /\ pc[w] \in Holding /\ pc'[w] \in Holding /\ cur' = cur
      BY <1>1, <2>2, KeepsTask
    <3>2. queued' = queued
      BY <2>2 DEF BeginStep, CheckStep, ComputeStep
    <3>3. cur[w] \in Started'
      <4>1. CASE pc[w] # "begin"
        BY <1>2, <1>4, <3>1, <4>1 DEF HandsOn
      <4>2. CASE pc[w] = "begin"
        <5>1. BeginStep(w) /\ cur[w] \in Tasks
          BY <1>1, <2>2, <3>1, <4>2, HolderFacts
             DEF CheckStep, ReadDependency, MarkCompleted, FailOnDependency,
                 BlockOnDependencies, RefuseState, DependenciesComplete,
                 ComputeStep, Configure, FailConfigure, Deduplicate, FailDeduplicate,
                 RunTask, FailRun, StoreTrace, CompleteTask
        <5> QED
          BY <1>1, <5>1 DEF BeginStep, Rebroadcast, BeginTask, SetState, Started, Terminal
      <4> QED
        BY <4>1, <4>2
    <3> QED
      BY <1>4, <3>1, <3>2, <3>3 DEF HandsOn
  <2>3. CASE CloseStep(w)
    BY <1>1, <1>4, <2>3
       DEF CloseStep, NotifyOutcome, CloseTask, StorageError, ReleaseTask, ExitThread,
           GoTo, HandsOn, Holding, Started
  <2> QED
    BY <2>1, <2>2, <2>3 DEF WorkerStep
<1> QED
  BY <1>3, <1>5

LEMMA TakenUpWorker ==
    ASSUME TypeInv, RunInv, Justified, QueuedMirrorsReady, TakenUp,
           NEW w \in Threads, WorkerStep(w)
    PROVE  TakenUp'
<1>1. /\ queued' \subseteq Registered /\ \A v \in Threads : HandsOn(v)'
      /\ AllAsked(notifications', Started', Received')
      /\ Started \subseteq Started' /\ Received \subseteq Received'
  BY HandsOnKept, AsksForOwn, Onward DEF TakenUp
<1>2. UNCHANGED <<waiting, handling, todo>>
  BY DEF WorkerStep
<1>3. handling # NoMessage => Asked(handling, Started', Received')
  BY <1>1 DEF TakenUp, Asked
<1> QED
  BY <1>1, <1>2, <1>3 DEF TakenUp

LEMMA TakenUpMain ==
    ASSUME TypeInv, ParkInv, TakenUp, MainStep
    PROVE  TakenUp'
<1>1. /\ Started' = Started /\ Received' = Received
      /\ \A w \in Threads : HandsOn(w)'
  BY DEF MainStep, Started, Received, Graph!CompletedTasks, Outcome, TakenUp, HandsOn
<1>2. /\ notifications \in Seq(Notifications)
      /\ waiting \in [Tasks -> SUBSET Tasks]
      /\ handling \in Notifications \cup {NoMessage}
  BY DEF TypeInv, TypeOK
<1>3. CASE HandleNotification
  <2> DEFINE n == Head(notifications)
  <2>1. /\ notifications # <<>> /\ notifications' = Tail(notifications)
        /\ handling' = n /\ queued' = queued /\ todo = {}
    BY <1>3 DEF HandleNotification, Idle, ParkInv
  <2>2. /\ Asked(n, Started, Received) /\ n \in Notifications
        /\ AllAsked(notifications', Started, Received)
    BY <1>2, <2>1, AskedQueues, PopType DEF TakenUp
  <2> HIDE DEF n
  <2>3. /\ \A d \in Tasks : waiting'[d] \subseteq Started
        /\ n.type = "STATE_CHANGED" => todo' \subseteq Started
        /\ n.type = "TASK_BLOCKED" => todo' \subseteq n.deps
    <3>1. CASE JoinThread(n) \/ IgnoreState(n)
      BY <2>1, <3>1 DEF JoinThread, IgnoreState, TakenUp
    <3>2. CASE RestartDeps(n)
      <4>1. n.key \in Tasks
        BY <2>2, <3>2 DEF RestartDeps, Notifications
      <4> QED
        BY <1>2, <3>2, <4>1 DEF RestartDeps, Unblocked, TakenUp
    <3>3. CASE ParkDeps(n)
      BY <3>3 DEF ParkDeps, TakenUp
    <3> QED
      BY <1>3, <3>1, <3>2, <3>3 DEF HandleNotification, n
  <2> QED
    BY <1>1, <2>1, <2>2, <2>3 DEF TakenUp
<1>4. CASE HandleKey
  <2>1. PICK t \in todo : (RestartTask(t) \/ ParkOn(t)) /\ todo' = todo \ {t}
    BY <1>4 DEF HandleKey
  <2>2. UNCHANGED <<notifications, handling>> /\ handling # NoMessage
    BY <1>4, <2>1 DEF HandleKey, RestartTask, ParkOn
  <2>3. queued' \subseteq Registered
    BY <2>1 DEF RestartTask, ParkOn, EnqueueTask, TakenUp
  <2>4. \A d \in Tasks : waiting'[d] \subseteq Started
    <3>1. CASE RestartTask(t)
      BY <3>1 DEF RestartTask, TakenUp
    <3>2. CASE ParkOn(t)
      <4>1. handling.key \in Started
        BY <2>2, <3>2 DEF ParkOn, TakenUp, Asked
      <4>2. waiting' = [waiting EXCEPT ![t] = @ \cup {handling.key}]
        BY <3>2 DEF ParkOn
      <4> QED
        BY <1>2, <4>1, <4>2 DEF TakenUp
    <3> QED
      BY <2>1, <3>1, <3>2
  <2> QED
    BY <1>1, <2>1, <2>2, <2>3, <2>4 DEF TakenUp
<1>5. CASE InvokeCallback
  <2>1. UNCHANGED <<notifications, queued, waiting>> /\ handling' = NoMessage
    BY <1>5 DEF InvokeCallback
  <2> QED
    BY <1>1, <2>1 DEF TakenUp
<1>6. CASE PushShutdown \/ Finish
  <2>1. UNCHANGED <<notifications, queued, waiting, handling, todo>>
    BY <1>6 DEF PushShutdown, Finish
  <2> QED
    BY <1>1, <2>1 DEF TakenUp
<1> QED
  BY <1>3, <1>4, <1>5, <1>6 DEF MainStep

LEMMA TakenUpInvariant == Spec => []TakenUp
<1>1. TakenUp /\ UNCHANGED vars => TakenUp'
  BY DEF vars, TakenUp, HandsOn, Started, Received, Graph!CompletedTasks, Outcome
<1>2. TypeInv /\ RunInv /\ Justified /\ QueuedMirrorsReady /\ ParkInv /\ TakenUp /\ [Next]_vars
        => TakenUp'
  BY <1>1, TakenUpWorker, TakenUpMain DEF Next, Returned
<1>3. Spec => []ParkInv
  BY ParkInit, ParkNext, TypeInvariant, PTL DEF Spec
<1> QED
  BY TakenUpInit, <1>2, <1>3, TypeInvariant, RunInvariant, JustifiedInvariant,
     QueueAndSetAgree, PTL DEF Spec

LEMMA OverInvariant == Spec => []Over
<1>1. Init => Over
  BY DEF Init, Over, Finished, Idle
<1>2. TypeInv /\ JoinInv /\ Over /\ [Next]_vars => Over'
  <2> SUFFICES ASSUME TypeInv, JoinInv, Over, [Next]_vars PROVE Over'
    OBVIOUS
  <2> USE DEF Over, Finished, Idle
  <2>1. Finished => AllJoined
    BY DEF JoinInv
  <2>2. CASE HandleNotification /\ MainStep
    <3>1. ~AllJoined /\ ~Finished /\ UNCHANGED <<runnerState, targets>>
      BY <2>1, <2>2, JoinedLast DEF HandleNotification
    <3>2. AllJoined' => handling'.type = "THREAD_CANCELLED"
      BY <2>2, <3>1 DEF HandleNotification, JoinThread, IgnoreState, RestartDeps, ParkDeps,
                        AllJoined
    <3> QED
      BY <3>1, <3>2
  <2>3. CASE HandleKey \/ InvokeCallback \/ PushShutdown \/ Finish
    <3>1. CASE HandleKey
      BY <3>1 DEF HandleKey, RestartTask, ParkOn, AllJoined
    <3>2. CASE InvokeCallback
      BY <3>2 DEF InvokeCallback, AllJoined
    <3>3. CASE PushShutdown
      BY <3>3, ThreadCount DEF PushShutdown, AllJoined, TypeInv, TypeOK
    <3>4. CASE Finish
      BY <3>4 DEF Finish, AllJoined
    <3> QED
      BY <2>3, <3>1, <3>2, <3>3, <3>4
  <2>4. CASE UNCHANGED <<handling, pushes, runnerState, thread, targets>>
    BY <2>4 DEF AllJoined
  <2> QED
    BY <2>2, <2>3, <2>4 DEF Next, WorkerStep, MainStep, Returned, vars
<1> QED
  BY <1>1, <1>2, TypeInvariant, JoinInvariant, PTL DEF Spec

\* What computeTargets leaves to run() is where the runner begins.
LEMMA BuilderInit == Init => Builder!HandOver
<1> SUFFICES ASSUME Init PROVE Builder!HandOver
  OBVIOUS
<1>1. ~Finished /\ targets = Targets /\ Targets # {}
  BY ConstantsAssumption DEF Init, Finished
<1>2. Known = Targets
  <2>1. \A t \in Tasks : InFlight(t) <=> t \in Targets
    BY ConstantsAssumption DEF Init, InFlight
  <2> QED
    BY <2>1, ConstantsAssumption DEF Init, Known
<1>3. Outcome = [t \in Tasks |-> "Pending"]
  BY DEF Init, Outcome, Terminal
<1>4. ~AllJoined
  <2>1. \E w \in Threads : thread[w] = "running"
    BY DEF Init
  <2> QED
    BY <2>1 DEF AllJoined
<1> QED
  BY <1>1, <1>2, <1>3, <1>4 DEF Builder!HandOver, Builder!Fresh, Known

\* A worker takes up and lets go of tasks without a task becoming known or
\* forgotten: a dropped task is with the worker that holds its lock.
LEMMA KnownKept ==
    ASSUME TypeInv, LockDiscipline, RunInv, QueuedMirrorsReady, TakenUp,
           NEW w \in Threads, WorkerStep(w)
    PROVE  Known' = Known
<1>1. /\ pc \in [Threads -> WorkerPCs] /\ cur \in [Threads -> Tasks \cup {NoTask}]
      /\ state \in [Tasks -> TaskStates] /\ owner \in [Tasks -> Threads \cup {NoThread}]
      /\ queued \subseteq Tasks
  BY DEF TypeInv, TypeOK
<1>2. HandsOn(w) /\ NoTask \notin Tasks
  BY ConstantsAssumption DEF TakenUp
<1>3. CASE FetchStep(w)
  <2>1. state' = state /\ pc[w] \in {"fetch", "lock"}
    BY <1>3 DEF FetchStep, DequeueTask, DequeueShutdown, Timeout, LockTask, DropTask
  <2>2. CASE DequeueTask(w)
    <3>1. Head(ready) \in queued /\ cur[w] = NoTask
      BY <1>2, <2>2, PoppedQueued DEF DequeueTask, HandsOn, Holding
    <3>2. /\ queued' = queued \ {Head(ready)}
          /\ cur' = [cur EXCEPT ![w] = Head(ready)]
      BY <2>2 DEF DequeueTask
    <3>3. \A t \in Tasks : InFlight(t)' <=> InFlight(t)
      BY <1>1, <1>2, <3>1, <3>2 DEF InFlight
    <3> QED
      BY <2>1, <3>3 DEF Known
  <2>3. CASE DequeueShutdown(w) \/ Timeout(w) \/ LockTask(w)
    BY <2>1, <2>3 DEF DequeueShutdown, Timeout, LockTask, Known, InFlight
  <2>4. CASE DropTask(w)
    <3>1. pc[w] = "lock" /\ cur[w] \in Tasks
      BY <2>4 DEF DropTask, TypeInv, CurTyped
    <3>2. PICK v \in Threads : owner[cur[w]] = v
      BY <1>1, <2>4, <3>1 DEF DropTask, Unlocked
    <3>3. cur[v] = cur[w] /\ v # w
      BY <3>1, <3>2 DEF LockDiscipline, Holding
    <3>4. queued' = queued /\ cur' = [cur EXCEPT ![w] = NoTask]
      BY <2>4 DEF DropTask
    <3>5. \A t \in Tasks : InFlight(t)' <=> InFlight(t)
      BY <1>1, <1>2, <3>3, <3>4 DEF InFlight
    <3> QED
      BY <2>1, <3>5 DEF Known
  <2> QED
    BY <1>3, <2>2, <2>3, <2>4 DEF FetchStep
<1>4. CASE BeginStep(w) \/ CheckStep(w) \/ ComputeStep(w)
  <2>1. pc[w] \in Holding /\ cur' = cur /\ queued' = queued
    BY <1>4, KeepsTask DEF BeginStep, CheckStep, ComputeStep
  <2>2. \A t \in Tasks : InFlight(t)' <=> InFlight(t)
    BY <2>1 DEF InFlight
  <2>3. \A t \in Tasks : state'[t] = state[t] \/ InFlight(t)
    BY <2>1, WorkerFootprint DEF Footprint, InFlight
  <2> QED
    BY <2>2, <2>3 DEF Known
<1>5. CASE CloseStep(w)
  <2>1. state' = state /\ queued' = queued
    BY <1>5 DEF CloseStep
  <2>2. CASE ReleaseTask(w)
    <3>1. cur[w] \in Started /\ cur' = [cur EXCEPT ![w] = NoTask]
      BY <1>2, <2>2 DEF ReleaseTask, HandsOn, Holding
    <3>2. \A t \in Tasks : t # cur[w] => (InFlight(t)' <=> InFlight(t))
      BY <1>1, <1>2, <2>1, <3>1 DEF InFlight
    <3> QED
      BY <2>1, <3>1, <3>2 DEF Known, Started
  <2>3. CASE ~ReleaseTask(w)
    <3>1. cur' = cur
      BY <1>5, <2>3 DEF CloseStep, NotifyOutcome, CloseTask, StorageError, ExitThread
    <3> QED
      BY <2>1, <3>1 DEF Known, InFlight
  <2> QED
    BY <2>2, <2>3
<1> QED
  BY <1>3, <1>4, <1>5 DEF WorkerStep

\* A step of a worker gives its own task an outcome, or is none of the builder's
\* business.
LEMMA BuilderWorker ==
    ASSUME TypeInv, LockDiscipline, RunInv, Justified, QueuedMirrorsReady, TakenUp,
           JoinInv, NEW w \in Threads, WorkerStep(w)
    PROVE  Builder!RunnerStep \/ UNCHANGED Builder!vars
<1>1. ~AllJoined /\ ~Finished
  BY JoinedLast, WorkerNotifies DEF JoinInv, Finished
<1>2. /\ Known' = Known /\ targets' = targets /\ Finished' = Finished
      /\ AllJoined' = AllJoined
  BY KnownKept DEF WorkerStep, Finished, AllJoined
<1>3. CASE Outcome' = Outcome
  BY <1>1, <1>2, <1>3
     DEF Known, Builder!vars, Builder!builderVars, Builder!callVars, Builder!runnerVars
<1>4. CASE Outcome' # Outcome
  <2>1. PICK t \in Tasks : Graph!Complete(t) \/ Graph!Fail(t)
    BY <1>2, <1>4, GraphWorker DEF Graph!Next, Graph!End, Graph!vars
  <2>2. Outcome[t] = "Pending" /\ Outcome'[t] # "Pending"
    BY <2>1 DEF Graph!Complete, Graph!Fail, Outcome
  <2>3. pc[w] \in Holding /\ t = cur[w]
    BY <2>2, WorkerFootprint DEF Footprint, Outcome
  <2>4. t \in Known /\ t \in Registered
    BY <2>3, ConstantsAssumption DEF Known, InFlight, TakenUp, HandsOn
  <2>5. Builder!Graph!Complete(t) \/ Builder!Graph!Fail(t)
    BY <2>1 DEF Graph!Complete, Graph!Fail, Graph!CompletedTasks,
                Builder!Graph!Complete, Builder!Graph!Fail, Builder!Graph!CompletedTasks
  <2>6. Builder!Decide(t)
    BY <1>1, <1>2, <2>4, <2>5
       DEF Known, Builder!Decide, Builder!builderVars, Builder!callVars
  <2> QED
    BY <2>6 DEF Builder!RunnerStep
<1> QED
  BY <1>3, <1>4

\* A visit of parkDeps requests a task of this build if it enqueues a new one.
LEMMA BuilderKey ==
    ASSUME TypeInv, TakenUp, Over, HandleKey, MainStep
    PROVE  Builder!RunnerStep \/ UNCHANGED Builder!vars
<1>1. /\ ~Finished /\ Finished' = Finished /\ AllJoined' = AllJoined
      /\ targets' = targets /\ state' = state /\ cur' = cur /\ Outcome' = Outcome
  BY DEF HandleKey, RestartTask, ParkOn, MainStep, Over, Finished, Idle, AllJoined, Outcome
<1>2. PICK d \in todo : RestartTask(d) \/ ParkOn(d)
  BY DEF HandleKey
<1>3. d \in Tasks /\ queued \subseteq Tasks
  BY DEF TypeInv, TypeOK
<1>4. CASE Known' = Known
  BY <1>1, <1>4
     DEF Known, Builder!vars, Builder!builderVars, Builder!callVars, Builder!runnerVars
<1>5. CASE Known' # Known
  <2>1. /\ queued' = queued \cup {d} /\ d \in Registered
    BY <1>1, <1>2, <1>5 DEF RestartTask, ParkOn, EnqueueTask, Known, InFlight
  <2>2. Known' = Known \cup {d} /\ d \notin Known
    BY <1>1, <1>3, <1>5, <2>1 DEF Known, InFlight
  <2>3. d \notin Started
    BY <2>2 DEF Started, Known
  <2>4. ParkOn(d) /\ handling # NoMessage /\ handling.type = "TASK_BLOCKED"
    BY <1>2, <2>3 DEF RestartTask, ParkOn, TakenUp
  <2>5. PICK t \in Started \cap Registered : t = handling.key
    BY <2>4 DEF TakenUp, Asked
  <2>6. PICK D \in SUBSET Received : d \in Requests[t][D]
    BY <2>4, <2>5 DEF TakenUp, Asked
  <2>7. D \in SUBSET (Builder!Graph!CompletedTasks \cap Known)
    BY <2>6 DEF Received, Graph!CompletedTasks, Builder!Graph!CompletedTasks, Known,
                Outcome, Terminal
  <2>8. t \in Tasks /\ t \in Known
    BY <2>5 DEF Started, Known
  <2>9. Builder!Request(t)
    BY <1>1, <2>1, <2>2, <2>5, <2>6, <2>7, <2>8
       DEF Known, Builder!Request, Builder!builderVars, Builder!callVars
  <2> QED
    BY <2>8, <2>9 DEF Builder!RunnerStep
<1> QED
  BY <1>4, <1>5

\* The callback crosses a target off when its outcome arrives.
LEMMA BuilderCallback ==
    ASSUME TypeInv, Resolved, Over, InvokeCallback, MainStep
    PROVE  Builder!RunnerStep \/ UNCHANGED Builder!vars
<1>1. /\ ~Finished /\ ~Finished' /\ AllJoined' = AllJoined
      /\ Known' = Known /\ Outcome' = Outcome
  BY DEF InvokeCallback, MainStep, Over, Finished, Idle, AllJoined, Known, InFlight, Outcome
<1>2. CASE targets' = targets
  BY <1>1, <1>2
     DEF Known, Builder!vars, Builder!builderVars, Builder!callVars, Builder!runnerVars
<1>3. CASE targets' # targets
  <2>1. PICK t \in targets : /\ t = handling.key /\ targets' = targets \ {t}
                             /\ IsOutcome(handling) /\ handling # NoMessage
    BY <1>3 DEF InvokeCallback, IsOutcome
  <2>2. t \in Tasks /\ state[t] \in Terminal
    BY <2>1 DEF Resolved, Genuine, Ended
  <2>3. ~AllJoined
    BY <2>1 DEF Over, IsOutcome
  <2>4. t \in Targets /\ targets' # targets
    BY <2>1 DEF Over
  <2>5. t \in Builder!Decided
    BY <2>2 DEF Builder!Decided, Outcome, Terminal
  <2>6. Builder!Erased(t) = {t}
    BY <2>5 DEF Builder!Erased
  <2>7. Builder!Announce(t)
    BY <1>1, <2>1, <2>3, <2>4, <2>5, <2>6
       DEF Known, Over, Builder!Announce, Builder!OnTaskNotification, Builder!callVars
  <2> QED
    BY <2>2, <2>7 DEF Builder!RunnerStep
<1> QED
  BY <1>2, <1>3

\* The join of the last worker is where the builder sees the runner give up.
LEMMA BuilderHandle ==
    ASSUME TypeInv, JoinInv, Over, HandleNotification, MainStep
    PROVE  Builder!RunnerStep \/ UNCHANGED Builder!vars
<1>1. ~AllJoined /\ ~Finished /\ ~Finished'
  BY JoinedLast DEF HandleNotification, JoinInv, Finished
<1>2. /\ targets' = targets /\ Known' = Known /\ Outcome' = Outcome
  BY DEF HandleNotification, MainStep, Known, InFlight, Outcome
<1>3. CASE AllJoined' /\ targets # {}
  <2>1. Builder!Abandon
    BY <1>1, <1>2, <1>3
       DEF Known, Builder!Abandon, Builder!builderVars, Builder!callVars
  <2> QED
    BY <2>1 DEF Builder!RunnerStep
<1>4. CASE ~AllJoined' \/ targets = {}
  BY <1>1, <1>2, <1>4
     DEF Known, Builder!vars, Builder!builderVars, Builder!callVars, Builder!runnerVars
<1> QED
  BY <1>3, <1>4

\* run() returns when it was shut down or has lost its workers.
LEMMA BuilderFinish ==
    ASSUME TypeInv, Finish, MainStep
    PROVE  Builder!Return
<1>1. /\ ~Finished /\ Finished' /\ AllJoined /\ AllJoined'
      /\ targets' = targets /\ Known' = Known /\ Outcome' = Outcome /\ state' = state
  BY DEF Finish, MainStep, Finished, AllJoined, Known, InFlight, Outcome
<1>2. Targets \subseteq Builder!Decided <=> \A t \in Targets : state[t] \in Terminal
  BY ConstantsAssumption DEF Builder!Decided, Outcome, Terminal
<1> QED
  BY <1>1, <1>2
     DEF Known, Builder!Return, Builder!runnerVars

\* One run of the pool of workers, their queues and the park maps is what the
\* builder counts on: between the call of run() and its return, tasks are taken up
\* only because they are targets or were requested, every outcome is given to a
\* task that was taken up, the callback hears of an outcome only when it is there,
\* and run() returns only after a shutdown() or when no worker is left.
THEOREM RunnerImplementsRun == Spec => ImplementsRun
<1>1. TypeInv /\ LockDiscipline /\ RunInv /\ Justified /\ Resolved
        /\ QueuedMirrorsReady /\ TakenUp /\ JoinInv /\ Over /\ [Next]_vars
        => [Builder!RunNext]_(Builder!vars)
  <2> SUFFICES ASSUME TypeInv, LockDiscipline, RunInv, Justified, Resolved,
                      QueuedMirrorsReady, TakenUp, JoinInv, Over, [Next]_vars
               PROVE  Builder!RunNext \/ UNCHANGED Builder!vars
    OBVIOUS
  <2>1. ASSUME NEW w \in Threads, WorkerStep(w)
        PROVE  Builder!RunnerStep \/ UNCHANGED Builder!vars
    BY <2>1, BuilderWorker
  <2>2. CASE MainStep
    <3>1. CASE PushShutdown
      <4>1. /\ UNCHANGED <<targets, Outcome, Known, runnerState>>
            /\ AllJoined' = AllJoined /\ state' = state
        BY <2>2, <3>1 DEF PushShutdown, MainStep, Outcome, Known, InFlight, AllJoined
      <4> QED
        BY <4>1 DEF Finished, Known, Builder!vars, Builder!builderVars, Builder!callVars,
                    Builder!runnerVars
    <3> QED
      BY <2>2, <3>1, BuilderHandle, BuilderKey, BuilderCallback, BuilderFinish
         DEF MainStep, Builder!RunNext
  <2>3. CASE Returned \/ UNCHANGED vars
    <3>1. /\ UNCHANGED <<targets, Outcome, Known, runnerState>>
          /\ AllJoined' = AllJoined /\ state' = state
      BY <2>3 DEF Returned, vars, Outcome, Known, InFlight, AllJoined
    <3> QED
      BY <3>1 DEF Finished, Known, Builder!vars, Builder!builderVars, Builder!callVars,
                  Builder!runnerVars
  <2> QED
    BY <2>1, <2>2, <2>3 DEF Next, Builder!RunNext
<1> QED
  BY BuilderInit, <1>1, TypeInvariant, OneWorkerPerTask, RunInvariant, JustifiedInvariant,
     ResolvedInvariant, QueueAndSetAgree, TakenUpInvariant, JoinInvariant, OverInvariant, PTL
     DEF Spec, ImplementsRun, Builder!RunSpec
=============================================================================
