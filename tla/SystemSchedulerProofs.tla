------------------------ MODULE SystemSchedulerProofs ------------------------
(***************************************************************************)
(* Proofs about SystemScheduler, for any number of tasks and promises: the *)
(* queues and the states of the tasks agree and implement TaskQueues, no   *)
(* wake-up is lost, a task resumes with a result, no two targets wait for  *)
(* one another, and a worker is monitored until it returns.                *)
(*                                                                         *)
(* The argument: a waiter lives from the registration of its promise to    *)
(* the callback of its one event; it is signalled at most once; a promise  *)
(* is awaited or forwarded at most once, and only while its waiter lives;  *)
(* and the tasks that wait are the ones that live waiters hold.            *)
(***************************************************************************)
EXTENDS SystemScheduler, SequenceTheorems, TLAPS

(* The accept callback of a promise finishes it.  Those of the repository do;
   the default of Promise::create (promise.cpp:71) does not, and then a promise
   outlives its waiter.  Only the theorems that name it depend on it. *)
AcceptsFinish == \A p \in Promises : "nothing" \notin Accepts[p]

Distinct(s) == \A i, j \in 1..Len(s) : s[i] = s[j] => i = j

(* QueuesMatchStates in two parts: the queues, and the types of the rest. *)
Queued ==
    /\ taskState \in [Tasks -> TaskStates]
    /\ current \in Tasks \cup {NoTask}
    /\ ready \in Seq(Tasks) /\ wait \in Seq(Tasks) /\ done \in Seq(Tasks)
    /\ Distinct(ready) /\ Distinct(wait) /\ Distinct(done)
    /\ Members(ready) = {t \in Tasks : taskState[t] \in {"Ready", "Running"}}
    /\ Members(wait) = {t \in Tasks : taskState[t] = "Waiting"}
    /\ Members(done) = {t \in Tasks : taskState[t] = "Done"}
    /\ \A t \in Tasks : taskState[t] = "Running" <=> t = current

Typed ==
    /\ phase \in Phases
    /\ monitor \in [Tasks -> Promises \cup {NoPromise}]
    /\ kind \in [Promises -> Kinds \cup {"none"}]
    /\ promiseState \in [Promises -> PromiseStates]
    /\ target \in [Promises -> Promises \cup {NoPromise}]
    /\ dependencies \in [Promises -> SUBSET Promises]
    /\ waiters \subseteq Promises
    /\ waiterTask \in [Promises -> Tasks \cup {NoTask}]
    /\ asyncPending \in [Promises -> BOOLEAN]
    /\ fired \subseteq waiters
    /\ batch \subseteq fired

(* The interpreter has not been loaded: the main task waits, nothing runs. *)
NotLoaded ==
    phase = "load" =>
        /\ current = NoTask
        /\ taskState[Main] = "Waiting"
        /\ \A t \in Tasks : taskState[t] # "Absent" => t = Main
        /\ \A p \in Promises : waiterTask[p] = NoTask

(* A waiter is signalled once: the signal is pending, the event has fired, or
   the waiter is gone. *)
SignalledOnce ==
    \A p \in Promises :
        /\ promiseState[p] = "Initial" => p \notin waiters /\ kind[p] = "none"
        /\ asyncPending[p] => p \in waiters \ fired /\ kind[p] \in {"async"} \cup TargetKinds

(* A worker's monitor waits for its return, and for no other worker's. *)
Monitors ==
    \A t \in Tasks : monitor[t] # NoPromise =>
        /\ monitor[t] \in waiters \ fired
        /\ kind[monitor[t]] = "worker"
        /\ taskState[t] \in {"Ready", "Running", "Waiting"}
        /\ \A u \in Tasks : monitor[u] = monitor[t] => u = t

(* What a target waits for was forwarded to it, and is no target itself now. *)
ForwardedOnce ==
    \A q \in Promises : \A d \in dependencies[q] :
        promiseState[d] \in {"Forwarded"} \cup Finished

(* What holds whatever the accept callbacks do. *)
QInv ==
    /\ Queued /\ Typed /\ NotLoaded /\ SignalledOnce /\ Monitors /\ ForwardedOnce
    /\ WorkerIsMonitored /\ RingsAreSelfForwards

(* A waiter holds a task from the await of its promise to its callback. *)
HeldWhileWaiting ==
    \A p \in Promises :
        waiterTask[p] # NoTask => p \in waiters /\ promiseState[p] = "Waiting"

(* What holds when they finish their promise. *)
WInv == HeldWhileWaiting /\ NoLostWakeup /\ UnfinishedPromiseHasWaiter

-----------------------------------------------------------------------------
(* The queues.                                                             *)

LEMMA AppendToQueue ==
    ASSUME NEW S, NEW s \in Seq(S), NEW x \in S
    PROVE  /\ Append(s, x) \in Seq(S)
           /\ Members(Append(s, x)) = Members(s) \cup {x}
           /\ Distinct(s) /\ x \notin Members(s) => Distinct(Append(s, x))
<1> DEFINE a == Append(s, x)
<1>1. /\ a \in Seq(S) /\ Len(a) = Len(s) + 1 /\ Len(s) \in Nat
      /\ \A i \in 1..Len(s) : a[i] = s[i]
      /\ a[Len(s) + 1] = x
  BY AppendProperties, LenProperties
<1> HIDE DEF a
<1>2. Members(a) = Members(s) \cup {x}
  <2>1. ASSUME NEW y \in Members(a) PROVE y \in Members(s) \cup {x}
    <3>1. PICK i \in 1..Len(a) : y = a[i]
      BY <2>1 DEF Members
    <3>2. CASE i = Len(s) + 1
      BY <1>1, <3>1, <3>2
    <3>3. CASE i \in 1..Len(s)
      BY <1>1, <3>1, <3>3 DEF Members
    <3> QED  BY <1>1, <3>1, <3>2, <3>3
  <2>2. Members(s) \subseteq Members(a)
    BY <1>1 DEF Members
  <2>3. x \in Members(a)
    BY <1>1 DEF Members
  <2> QED  BY <2>1, <2>2, <2>3
<1>3. ASSUME Distinct(s), x \notin Members(s) PROVE Distinct(a)
  <2>1. \A i \in 1..Len(s) : s[i] # x
    BY <1>3 DEF Members
  <2> QED  BY <1>1, <1>3, <2>1 DEF Distinct
<1> QED  BY <1>1, <1>2, <1>3 DEF a

LEMMA RemoveFromQueue ==
    ASSUME NEW S, NEW s \in Seq(S), NEW x \in Members(s), Distinct(s)
    PROVE  /\ Without(s, x) \in Seq(S)
           /\ Members(Without(s, x)) = Members(s) \ {x}
           /\ Distinct(Without(s, x))
<1> DEFINE k == CHOOSE i \in 1..Len(s) : s[i] = x
           w == Without(s, x)
<1>1. Len(s) \in Nat /\ \A i \in 1..Len(s) : s[i] \in S
  BY LenProperties, ElementOfSeq
<1>2. k \in 1..Len(s) /\ s[k] = x
  BY DEF Members
<1>3. w = [i \in 1..(Len(s) - 1) |-> IF i < k THEN s[i] ELSE s[i + 1]]
  BY DEF Without
<1> HIDE DEF k, w
<1>4. Len(s) - 1 \in Nat
  BY <1>1, <1>2
<1>5. \A i \in 1..(Len(s) - 1) : (IF i < k THEN s[i] ELSE s[i + 1]) \in S
  BY <1>1, <1>2, <1>4
<1>6. w \in [1..(Len(s) - 1) -> S]
  BY <1>3, <1>5
<1>7. w \in Seq(S) /\ Len(w) = Len(s) - 1
  <2>1. w \in Seq(S)
    BY <1>4, <1>6, SeqDef
  <2> QED  BY <2>1, <1>4, <1>6, LenProperties
<1>8. \A i \in 1..Len(w) : w[i] = IF i < k THEN s[i] ELSE s[i + 1]
  BY <1>3, <1>7
<1>9. Distinct(w)
  BY <1>1, <1>2, <1>7, <1>8 DEF Distinct
<1>10. Members(w) \subseteq Members(s) \ {x}
  <2>1. ASSUME NEW i \in 1..Len(w)
        PROVE  \E j \in 1..Len(s) : w[i] = s[j] /\ j # k
    BY <1>1, <1>2, <1>7, <1>8
  <2> QED  BY <2>1, <1>2 DEF Members, Distinct
<1>11. Members(s) \ {x} \subseteq Members(w)
  <2>1. ASSUME NEW i \in 1..Len(s), i # k
        PROVE  \E j \in 1..Len(w) : s[i] = w[j]
    <3>1. CASE i < k
      BY <1>1, <1>2, <1>7, <1>8, <3>1
    <3>2. CASE i > k
      <4>1. i - 1 \in 1..Len(w) /\ ~(i - 1 < k) /\ (i - 1) + 1 = i
        BY <1>1, <1>2, <1>7, <3>2
      <4> QED  BY <4>1, <1>8
    <3> QED  BY <3>1, <3>2, <2>1, <1>2, <1>1
  <2> QED  BY <2>1, <1>2 DEF Members
<1> QED  BY <1>7, <1>9, <1>10, <1>11 DEF w

(* selectNextReady selects a task of the queue, if there is one. *)
LEMMA SelectsFromQueue ==
    ASSUME NEW q \in Seq(Tasks), NEW c, c = NoTask \/ c \in Members(q)
    PROVE  IF q = << >> THEN Selected(q, c) = NoTask ELSE Selected(q, c) \in Members(q)
<1>1. Len(q) \in Nat /\ (q = << >> <=> Len(q) = 0)
  BY LenProperties, EmptySeq
<1>2. CASE q = << >>
  <2>1. c = NoTask
    BY <1>1, <1>2 DEF Members
  <2> QED  BY <1>2, <2>1 DEF Selected
<1>3. CASE q # << >> /\ c = NoTask
  BY <1>1, <1>3 DEF Selected, Members
<1>4. CASE q # << >> /\ c # NoTask
  <2> DEFINE k == CHOOSE i \in 1..Len(q) : q[i] = c
  <2>1. k \in 1..Len(q)
    BY <1>4 DEF Members
  <2>2. NextAfter(q, c) = IF k = Len(q) THEN q[1] ELSE q[k + 1]
    BY DEF NextAfter
  <2> HIDE DEF k
  <2>3. NextAfter(q, c) \in Members(q)
    BY <1>1, <2>1, <2>2 DEF Members
  <2> QED  BY <1>4, <2>3 DEF Selected
<1> QED  BY <1>2, <1>3, <1>4

-----------------------------------------------------------------------------
(* How steps change the queues.                                            *)

LEMMA TwoParts == QueuesMatchStates <=> Queued /\ Typed
<1>1. (\A q \in {ready, wait, done} : \A i, j \in 1..Len(q) : q[i] = q[j] => i = j)
      <=> Distinct(ready) /\ Distinct(wait) /\ Distinct(done)
  BY DEF Distinct
<1> QED  BY <1>1 DEF QueuesMatchStates, TypeOK, Queued, Typed

(* A step that leaves the queues and the states of the tasks alone. *)
LEMMA QueuesLeftAlone ==
    Queued /\ UNCHANGED <<taskState, current, ready, wait, done>> => Queued'
BY DEF Queued, Distinct, Members

(* Switching to the selected task. *)
LEMMA SelectKeepsQueues ==
    ASSUME Queued, SelectNextReady(taskState, ready), UNCHANGED <<ready, wait, done>>
    PROVE  /\ Queued'
           /\ \A t \in Tasks : \/ taskState'[t] = taskState[t]
                               \/ /\ taskState[t] \in {"Ready", "Running"}
                                  /\ taskState'[t] \in {"Ready", "Running"}
<1> DEFINE s == Selected(ready, current)
<1>1. current = NoTask \/ current \in Members(ready)
  BY DEF Queued
<1>2. IF ready = << >> THEN s = NoTask ELSE s \in Members(ready)
  BY <1>1, SelectsFromQueue DEF Queued
<1>3. /\ current' = s
      /\ taskState' = [t \in Tasks |->
            IF t = s THEN "Running" ELSE IF t = current THEN "Ready" ELSE taskState[t]]
  BY DEF SelectNextReady
<1> HIDE DEF s
<1>4. ready = << >> => Members(ready) = {}
  BY EmptySeq DEF Members
<1>5. s \in Members(ready) \/ (s = NoTask /\ current = NoTask)
  BY <1>1, <1>2, <1>4
<1>6. s \in Members(ready) \cup {NoTask}
  BY <1>5
<1>7. \A t \in Tasks : taskState[t] \in {"Ready", "Running"}
                       <=> taskState'[t] \in {"Ready", "Running"}
  BY <1>1, <1>3, <1>6, TaskAssumption DEF Queued
<1>8. \A t \in Tasks : \/ taskState'[t] = taskState[t]
                       \/ taskState[t] \in {"Ready", "Running"}
  BY <1>1, <1>3, <1>6, TaskAssumption DEF Queued
<1>9. \A t \in Tasks : taskState'[t] = "Running" <=> t = current'
  BY <1>3, <1>5, TaskAssumption DEF Queued
<1>10. taskState' \in [Tasks -> TaskStates] /\ current' \in Tasks \cup {NoTask}
  BY <1>3, <1>6 DEF Queued, TaskStates
<1>11. /\ Members(ready)' = {t \in Tasks : taskState'[t] \in {"Ready", "Running"}}
       /\ Members(wait)' = {t \in Tasks : taskState'[t] = "Waiting"}
       /\ Members(done)' = {t \in Tasks : taskState'[t] = "Done"}
  BY <1>7, <1>8 DEF Queued, Members
<1>12. Queued'
  BY <1>9, <1>10, <1>11 DEF Queued, Distinct
<1> QED  BY <1>7, <1>8, <1>12

(* The current task leaves the ready queue for the end of another one. *)
LEMMA LeaveKeepsQueues ==
    ASSUME Queued, current # NoTask,
           ready' = Without(ready, current), current' = NoTask,
           \/ /\ taskState' = [taskState EXCEPT ![current] = "Waiting"]
              /\ wait' = Append(wait, current) /\ done' = done
           \/ /\ taskState' = [taskState EXCEPT ![current] = "Done"]
              /\ done' = Append(done, current) /\ wait' = wait
    PROVE  Queued'
<1>1. current \in Tasks /\ taskState[current] = "Running"
  BY DEF Queued
<1>2. current \in Members(ready) /\ current \notin Members(wait) /\ current \notin Members(done)
  BY <1>1 DEF Queued
<1>3. /\ ready' \in Seq(Tasks) /\ Distinct(ready)'
      /\ Members(ready)' = Members(ready) \ {current}
  <2>1. /\ Without(ready, current) \in Seq(Tasks) /\ Distinct(Without(ready, current))
        /\ Members(Without(ready, current)) = Members(ready) \ {current}
    BY <1>2, RemoveFromQueue DEF Queued
  <2>2. Members(ready)' = Members(ready') /\ (Distinct(ready)' <=> Distinct(ready'))
    BY DEF Members, Distinct
  <2> QED  BY <2>1, <2>2
<1>4. CASE /\ taskState' = [taskState EXCEPT ![current] = "Waiting"]
           /\ wait' = Append(wait, current) /\ done' = done
  <2>1. /\ wait' \in Seq(Tasks) /\ Distinct(wait)'
        /\ Members(wait)' = Members(wait) \cup {current}
    BY <1>1, <1>2, <1>4, AppendToQueue DEF Queued, Members, Distinct
  <2>2. taskState' \in [Tasks -> TaskStates]
    BY <1>4 DEF Queued, TaskStates
  <2>3. \A t \in Tasks : taskState'[t] = IF t = current THEN "Waiting" ELSE taskState[t]
    BY <1>4 DEF Queued
  <2>4. done' \in Seq(Tasks) /\ Distinct(done)' /\ Members(done)' = Members(done)
    BY <1>4 DEF Queued, Members, Distinct
  <2>5. \A t \in Tasks : taskState'[t] = "Running" <=> t = current'
    BY <1>1, <2>3, TaskAssumption DEF Queued
  <2>6. /\ Members(ready)' = {t \in Tasks : taskState'[t] \in {"Ready", "Running"}}
        /\ Members(wait)' = {t \in Tasks : taskState'[t] = "Waiting"}
        /\ Members(done)' = {t \in Tasks : taskState'[t] = "Done"}
    BY <1>1, <1>3, <2>1, <2>3, <2>4 DEF Queued
  <2> QED  BY <1>3, <2>1, <2>2, <2>4, <2>5, <2>6 DEF Queued
<1>5. CASE /\ taskState' = [taskState EXCEPT ![current] = "Done"]
           /\ done' = Append(done, current) /\ wait' = wait
  <2>1. /\ done' \in Seq(Tasks) /\ Distinct(done)'
        /\ Members(done)' = Members(done) \cup {current}
    BY <1>1, <1>2, <1>5, AppendToQueue DEF Queued, Members, Distinct
  <2>2. taskState' \in [Tasks -> TaskStates]
    BY <1>5 DEF Queued, TaskStates
  <2>3. \A t \in Tasks : taskState'[t] = IF t = current THEN "Done" ELSE taskState[t]
    BY <1>5 DEF Queued
  <2>4. wait' \in Seq(Tasks) /\ Distinct(wait)' /\ Members(wait)' = Members(wait)
    BY <1>5 DEF Queued, Members, Distinct
  <2>5. \A t \in Tasks : taskState'[t] = "Running" <=> t = current'
    BY <1>1, <2>3, TaskAssumption DEF Queued
  <2>6. /\ Members(ready)' = {t \in Tasks : taskState'[t] \in {"Ready", "Running"}}
        /\ Members(wait)' = {t \in Tasks : taskState'[t] = "Waiting"}
        /\ Members(done)' = {t \in Tasks : taskState'[t] = "Done"}
    BY <1>1, <1>3, <2>1, <2>3, <2>4 DEF Queued
  <2> QED  BY <1>3, <2>1, <2>2, <2>4, <2>5, <2>6 DEF Queued
<1> QED  BY <1>4, <1>5

(* A task comes to the end of the ready queue: it is new, or it has waited. *)
LEMMA JoinKeepsQueues ==
    ASSUME Queued, NEW t \in Tasks, taskState' = [taskState EXCEPT ![t] = "Ready"],
           ready' = Append(ready, t), current' = current, done' = done,
           \/ taskState[t] = "Absent" /\ wait' = wait
           \/ taskState[t] = "Waiting" /\ wait' = Without(wait, t)
    PROVE  Queued'
<1>1. t \notin Members(ready)
  BY DEF Queued
<1>2. /\ ready' \in Seq(Tasks) /\ Distinct(ready)'
      /\ Members(ready)' = Members(ready) \cup {t}
  BY <1>1, AppendToQueue DEF Queued, Members, Distinct
<1>3. wait' \in Seq(Tasks) /\ Distinct(wait)' /\ Members(wait)' = Members(wait) \ {t}
  <2>1. CASE taskState[t] = "Absent" /\ wait' = wait
    <3>1. t \notin Members(wait)
      BY <2>1 DEF Queued
    <3>2. Members(wait)' = Members(wait)
      BY <2>1 DEF Members
    <3> QED  BY <2>1, <3>1, <3>2 DEF Queued, Distinct
  <2>2. CASE taskState[t] = "Waiting" /\ wait' = Without(wait, t)
    <3>1. t \in Members(wait)
      BY <2>2 DEF Queued
    <3>2. /\ Without(wait, t) \in Seq(Tasks) /\ Distinct(Without(wait, t))
          /\ Members(Without(wait, t)) = Members(wait) \ {t}
      BY <3>1, RemoveFromQueue DEF Queued
    <3> QED  BY <2>2, <3>2 DEF Members, Distinct
  <2> QED  BY <2>1, <2>2
<1>4. taskState' \in [Tasks -> TaskStates]
  BY DEF Queued, TaskStates
<1>5. \A u \in Tasks : taskState'[u] = IF u = t THEN "Ready" ELSE taskState[u]
  BY DEF Queued
<1>6. done' \in Seq(Tasks) /\ Distinct(done)' /\ Members(done)' = Members(done)
  BY DEF Queued, Members, Distinct
<1>7. \A u \in Tasks : taskState'[u] = "Running" <=> u = current'
  BY <1>5 DEF Queued
<1>8. /\ Members(ready)' = {u \in Tasks : taskState'[u] \in {"Ready", "Running"}}
      /\ Members(wait)' = {u \in Tasks : taskState'[u] = "Waiting"}
      /\ Members(done)' = {u \in Tasks : taskState'[u] = "Done"}
  BY <1>2, <1>3, <1>5, <1>6 DEF Queued
<1> QED  BY <1>2, <1>3, <1>4, <1>6, <1>7, <1>8 DEF Queued

-----------------------------------------------------------------------------
(* The invariant, whatever the accept callbacks do.                        *)

LEMMA InitQInv == Init => QInv
<1> SUFFICES ASSUME Init PROVE QInv
  OBVIOUS
<1> USE TaskAssumption, PromiseAssumption DEF Init
<1>1. Queued
  <2>1. wait \in Seq(Tasks) /\ Len(wait) = 1 /\ wait[1] = Main
    OBVIOUS
  <2>2. ready \in Seq(Tasks) /\ done \in Seq(Tasks) /\ Len(ready) = 0 /\ Len(done) = 0
    OBVIOUS
  <2>3. Members(wait) = {Main} /\ Members(ready) = {} /\ Members(done) = {}
    BY <2>1, <2>2 DEF Members
  <2>4. Distinct(ready) /\ Distinct(wait) /\ Distinct(done)
    BY <2>1, <2>2 DEF Distinct
  <2>5. taskState \in [Tasks -> TaskStates]
    BY DEF TaskStates
  <2>6. \A t \in Tasks : taskState[t] = IF t = Main THEN "Waiting" ELSE "Absent"
    OBVIOUS
  <2> HIDE DEF Init
  <2>7. current = NoTask
    BY DEF Init
  <2> QED  BY <2>1, <2>2, <2>3, <2>4, <2>5, <2>6, <2>7 DEF Queued
<1>2. Typed
  BY DEF Typed, Phases, Kinds, PromiseStates
<1>3. NotLoaded
  BY DEF NotLoaded
<1>4. SignalledOnce /\ Monitors /\ ForwardedOnce /\ WorkerIsMonitored
  BY DEF SignalledOnce, Monitors, ForwardedOnce, WorkerIsMonitored
<1>5. RingsAreSelfForwards
  <2>1. \A p \in Promises : dependencies[p] = {}
    OBVIOUS
  <2> HIDE DEF Init
  <2>2. ASSUME NEW S \in SUBSET Promises, S # {}
        PROVE  \E p \in S : dependencies[p] \cap S \subseteq {p}
    <3>1. PICK p \in S : TRUE
      BY <2>2
    <3> QED  BY <2>1, <3>1
  <2> QED  BY <2>2 DEF RingsAreSelfForwards
<1> QED  BY <1>1, <1>2, <1>3, <1>4, <1>5 DEF QInv

(* Steps that only say that the interpreter goes on to another phase. *)
LEMMA PhaseStep ==
    ASSUME QInv, UNCHANGED <<taskVars, promiseVars, eventVars>>,
           phase' \in Phases \ {"load"}, batch' \subseteq fired
    PROVE  QInv'
<1> USE DEF QInv
<1>1. Queued'
  BY QueuesLeftAlone DEF taskVars
<1>2. Typed'
  BY DEF Typed, taskVars, promiseVars, eventVars
<1>3. NotLoaded'
  BY DEF NotLoaded
<1>4. SignalledOnce' /\ Monitors' /\ ForwardedOnce'
  BY DEF SignalledOnce, Monitors, ForwardedOnce, taskVars, promiseVars, eventVars
<1>5. WorkerIsMonitored' /\ RingsAreSelfForwards'
  BY DEF WorkerIsMonitored, RingsAreSelfForwards, taskVars, promiseVars, eventVars
<1> QED  BY <1>1, <1>2, <1>3, <1>4, <1>5

(* Steps in which the interpreter switches to the task selectNextReady finds. *)
LEMMA SwitchStep ==
    ASSUME QInv, phase # "load", SelectNextReady(taskState, ready),
           phase' = "run", UNCHANGED <<ready, wait, done, monitor, promiseVars, eventVars, batch>>
    PROVE  QInv'
<1> USE DEF QInv
<1>1. /\ Queued'
      /\ \A t \in Tasks : \/ taskState'[t] = taskState[t]
                          \/ /\ taskState[t] \in {"Ready", "Running"}
                             /\ taskState'[t] \in {"Ready", "Running"}
  BY SelectKeepsQueues
<1>2. Typed'
  BY DEF Typed, Phases, promiseVars, eventVars
<1>3. NotLoaded'
  BY DEF NotLoaded
<1>4. SignalledOnce' /\ ForwardedOnce' /\ RingsAreSelfForwards'
  BY DEF SignalledOnce, ForwardedOnce, RingsAreSelfForwards, promiseVars, eventVars
<1>5. Monitors'
  BY <1>1 DEF Monitors, promiseVars, eventVars
<1>6. WorkerIsMonitored'
  BY <1>1 DEF WorkerIsMonitored, promiseVars, eventVars
<1> QED  BY <1>1, <1>2, <1>3, <1>4, <1>5, <1>6

LEMMA LoadStep == QInv /\ Load => QInv'
<1> SUFFICES ASSUME QInv, Load PROVE QInv'
  OBVIOUS
<1> USE TaskAssumption DEF QInv
<1>1. /\ current = NoTask /\ taskState[Main] = "Waiting"
      /\ \A t \in Tasks : t # Main => taskState[t] = "Absent"
  BY DEF Load, NotLoaded
<1>2. Members(ready) = {} /\ Members(wait) = {Main} /\ Members(done) = {}
  BY <1>1 DEF Queued
<1>3. ready = << >>
  <2>1. ASSUME Len(ready) # 0 PROVE FALSE
    <3>1. 1 \in 1..Len(ready)
      BY <2>1, LenProperties DEF Queued
    <3> QED  BY <3>1, <1>2 DEF Members
  <2> QED  BY <2>1, EmptySeq DEF Queued
<1>4. ready' = << Main >> /\ ready' # << >> /\ ready'[1] = Main
  BY <1>3 DEF Load
<1>5. current' = Main /\ taskState' = [t \in Tasks |-> IF t = Main THEN "Running" ELSE taskState[t]]
  BY <1>1, <1>4 DEF Load, SelectNextReady, Selected
<1>6. \A t \in Tasks : taskState'[t] = IF t = Main THEN "Running" ELSE "Absent"
  BY <1>1, <1>5
<1>7. Queued'
  <2>1. /\ wait' \in Seq(Tasks) /\ Distinct(wait') /\ Members(wait') = {}
    <3>1. /\ Without(wait, Main) \in Seq(Tasks) /\ Distinct(Without(wait, Main))
          /\ Members(Without(wait, Main)) = Members(wait) \ {Main}
      BY <1>2, RemoveFromQueue DEF Queued
    <3> QED  BY <3>1, <1>2 DEF Load
  <2>2. ready' \in Seq(Tasks) /\ Len(ready') = 1 /\ ready'[1] = Main
    BY <1>4
  <2>3. Distinct(ready') /\ Members(ready') = {Main}
    BY <2>2 DEF Distinct, Members
  <2>4. done' = done
    BY DEF Load
  <2>5. done' \in Seq(Tasks) /\ Distinct(done') /\ Members(done') = {}
    BY <1>2, <2>4 DEF Queued
  <2>6. taskState' \in [Tasks -> TaskStates]
    BY <1>5 DEF Queued, TaskStates
  <2>7. Members(ready') = {t \in Tasks : taskState'[t] \in {"Ready", "Running"}}
    BY <1>6, <2>3
  <2>8. /\ Members(wait') = {t \in Tasks : taskState'[t] = "Waiting"}
        /\ Members(done') = {t \in Tasks : taskState'[t] = "Done"}
    BY <1>6, <2>1, <2>5
  <2>9. \A t \in Tasks : taskState'[t] = "Running" <=> t = current'
    BY <1>5, <1>6
  <2>10. current' \in Tasks \cup {NoTask}
    BY <1>5
  <2> QED  BY <2>1, <2>2, <2>3, <2>5, <2>6, <2>7, <2>8, <2>9, <2>10 DEF Queued, Members, Distinct
<1>8. Typed'
  BY DEF Typed, Load, Phases, promiseVars, eventVars
<1>9. NotLoaded'
  BY DEF NotLoaded, Load
<1>10. SignalledOnce' /\ ForwardedOnce' /\ RingsAreSelfForwards'
  BY DEF SignalledOnce, ForwardedOnce, RingsAreSelfForwards, Load, promiseVars, eventVars
<1>11. \A t \in Tasks : taskState[t] \in {"Ready", "Running", "Waiting"}
                          => taskState'[t] \in {"Ready", "Running", "Waiting"}
  BY <1>1, <1>6
<1>12. Monitors'
  BY <1>11 DEF Monitors, Load, promiseVars, eventVars
<1>13. WorkerIsMonitored'
  BY <1>11 DEF WorkerIsMonitored, Load, promiseVars, eventVars
<1> QED  BY <1>7, <1>8, <1>9, <1>10, <1>12, <1>13

-----------------------------------------------------------------------------
(* What the running task does.                                             *)

(* A promise that gets its waiter was nowhere before. *)
LEMMA RegistersInitial ==
    ASSUME QInv, NEW p \in Promises, NEW k \in Kinds, NEW state \in {"Pending", "Target"},
           Executing, Register(p, k, state), UNCHANGED <<phase, batch>>,
           monitor' \in [Tasks -> Promises \cup {NoPromise}],
           \/ asyncPending' = asyncPending
           \/ /\ asyncPending' = [asyncPending EXCEPT ![p] = TRUE]
              /\ k \in {"async"} \cup TargetKinds
    PROVE  /\ p \notin waiters /\ p \notin fired /\ \A t \in Tasks : monitor[t] # p
           /\ kind' = [kind EXCEPT ![p] = k] /\ waiters' = waiters \cup {p} /\ fired' = fired
           /\ Typed' /\ NotLoaded' /\ SignalledOnce' /\ ForwardedOnce' /\ RingsAreSelfForwards'
<1> USE DEF QInv
<1>1. /\ promiseState[p] = "Initial"
      /\ kind' = [kind EXCEPT ![p] = k]
      /\ promiseState' = [promiseState EXCEPT ![p] = state]
      /\ waiters' = waiters \cup {p}
      /\ UNCHANGED <<target, dependencies, waiterTask, fired>>
  BY DEF Register
<1>2. p \notin waiters /\ p \notin fired /\ ~asyncPending[p] /\ kind[p] = "none"
  BY <1>1 DEF SignalledOnce, Typed
<1>3. \A t \in Tasks : monitor[t] # p
  BY <1>2, PromiseAssumption DEF Monitors
<1>4. /\ \A q \in Promises : kind'[q] = IF q = p THEN k ELSE kind[q]
      /\ \A q \in Promises : promiseState'[q] = IF q = p THEN state ELSE promiseState[q]
      /\ \A q \in Promises \ {p} : asyncPending'[q] = asyncPending[q]
      /\ asyncPending'[p] => k \in {"async"} \cup TargetKinds
  BY <1>1, <1>2 DEF Typed
<1>5. Typed'
  <2>1. promiseState' \in [Promises -> PromiseStates] /\ kind' \in [Promises -> Kinds \cup {"none"}]
    BY <1>1 DEF Typed, PromiseStates
  <2>2. asyncPending' \in [Promises -> BOOLEAN]
    BY DEF Typed
  <2> QED  BY <1>1, <2>1, <2>2 DEF Typed
<1>6. NotLoaded'
  BY DEF NotLoaded, Executing
<1>7. SignalledOnce'
  BY <1>1, <1>2, <1>4 DEF SignalledOnce
<1>8. ForwardedOnce'
  <2>1. \A q \in Promises : p \notin dependencies[q]
    BY <1>1 DEF ForwardedOnce, Finished
  <2> QED  BY <1>1, <1>4, <2>1 DEF ForwardedOnce, Typed
<1>9. RingsAreSelfForwards'
  BY <1>1 DEF RingsAreSelfForwards
<1> QED  BY <1>1, <1>2, <1>3, <1>5, <1>6, <1>7, <1>8, <1>9

LEMMA RegisterStep ==
    ASSUME QInv, NEW p \in Promises,
           RegisterAsync(p) \/ RegisterTarget(p) \/ RegisterTimer(p) \/ RegisterRead(p)
              \/ RegisterWrite(p)
    PROVE  QInv'
<1> USE DEF QInv
<1>1. /\ Executing /\ UNCHANGED <<phase, taskVars, batch>>
      /\ \E k \in Kinds \ {"worker"}, state \in {"Pending", "Target"} :
            /\ Register(p, k, state)
            /\ \/ asyncPending' = asyncPending
               \/ /\ asyncPending' = [asyncPending EXCEPT ![p] = TRUE]
                  /\ k \in {"async"} \cup TargetKinds
  BY DEF RegisterAsync, RegisterTarget, RegisterTimer, RegisterRead, RegisterWrite,
         RegisterEvent, Kinds, TargetKinds
<1>2. PICK k \in Kinds \ {"worker"}, state \in {"Pending", "Target"} :
            /\ Register(p, k, state)
            /\ \/ asyncPending' = asyncPending
               \/ /\ asyncPending' = [asyncPending EXCEPT ![p] = TRUE]
                  /\ k \in {"async"} \cup TargetKinds
  BY <1>1
<1>3. UNCHANGED <<taskState, current, ready, wait, done, monitor>>
  BY <1>1 DEF taskVars
<1>4. monitor' \in [Tasks -> Promises \cup {NoPromise}]
  BY <1>3 DEF Typed
<1>5. /\ p \notin waiters /\ p \notin fired /\ \A t \in Tasks : monitor[t] # p
      /\ kind' = [kind EXCEPT ![p] = k] /\ waiters' = waiters \cup {p} /\ fired' = fired
      /\ Typed' /\ NotLoaded' /\ SignalledOnce' /\ ForwardedOnce' /\ RingsAreSelfForwards'
  BY <1>1, <1>2, <1>4, RegistersInitial
<1>6. Queued'
  BY <1>3, QueuesLeftAlone
<1>7. Monitors'
  BY <1>3, <1>5 DEF Monitors, Typed
<1>8. WorkerIsMonitored'
  <2>1. kind'[p] # "worker"
    BY <1>5 DEF Typed
  <2> QED  BY <1>3, <1>5, <2>1 DEF WorkerIsMonitored, Typed
<1> QED  BY <1>5, <1>6, <1>7, <1>8

LEMMA StartWorkerStep ==
    ASSUME QInv, NEW p \in Promises, NEW t \in Tasks, StartWorker(t, p)
    PROVE  QInv'
<1> USE DEF QInv
<1>1. /\ Executing /\ taskState[t] = "Absent" /\ Register(p, "worker", "Pending")
      /\ monitor' = [monitor EXCEPT ![t] = p]
      /\ taskState' = [taskState EXCEPT ![t] = "Ready"]
      /\ ready' = Append(ready, t)
      /\ UNCHANGED <<phase, current, wait, done, asyncPending, batch>>
  BY DEF StartWorker
<1>2. monitor' \in [Tasks -> Promises \cup {NoPromise}]
  BY <1>1 DEF Typed
<1>3. /\ p \notin waiters /\ p \notin fired /\ \A u \in Tasks : monitor[u] # p
      /\ kind' = [kind EXCEPT ![p] = "worker"] /\ waiters' = waiters \cup {p} /\ fired' = fired
      /\ Typed' /\ NotLoaded' /\ SignalledOnce' /\ ForwardedOnce' /\ RingsAreSelfForwards'
  BY <1>1, <1>2, RegistersInitial DEF Kinds
<1>4. Queued'
  BY <1>1, JoinKeepsQueues
<1>5. /\ \A u \in Tasks : monitor'[u] = IF u = t THEN p ELSE monitor[u]
      /\ \A u \in Tasks : taskState'[u] = IF u = t THEN "Ready" ELSE taskState[u]
      /\ \A q \in Promises : kind'[q] = IF q = p THEN "worker" ELSE kind[q]
  BY <1>1, <1>3 DEF Typed, Queued
<1>6. monitor[t] = NoPromise
  BY <1>1 DEF Monitors
<1>7. Monitors'
  BY <1>3, <1>5 DEF Monitors, Typed
<1>8. WorkerIsMonitored'
  <2>1. ASSUME NEW q \in waiters, q # p, kind[q] = "worker"
        PROVE  q \in fired \/ \E u \in Tasks :
                  monitor'[u] = q /\ taskState'[u] \in {"Ready", "Running", "Waiting"}
    <3>1. CASE q \in fired
      BY <3>1
    <3>2. CASE q \notin fired
      <4>1. PICK u \in Tasks : monitor[u] = q /\ taskState[u] \in {"Ready", "Running", "Waiting"}
        BY <2>1, <3>2 DEF WorkerIsMonitored
      <4>2. u # t
        BY <4>1, <1>1
      <4> QED  BY <4>1, <4>2, <1>5
    <3> QED  BY <3>1, <3>2
  <2>2. monitor'[t] = p /\ taskState'[t] = "Ready"
    BY <1>5
  <2>3. ASSUME NEW q \in waiters', kind'[q] = "worker"
        PROVE  q \in fired' \/ \E u \in Tasks :
                  monitor'[u] = q /\ taskState'[u] \in {"Ready", "Running", "Waiting"}
    <3>1. CASE q = p
      BY <2>2, <3>1
    <3>2. CASE q # p
      <4>1. q \in waiters /\ kind[q] = "worker"
        BY <1>3, <1>5, <2>3, <3>2 DEF Typed
      <4> QED  BY <2>1, <3>2, <4>1, <1>3
    <3> QED  BY <3>1, <3>2
  <2> QED  BY <2>3 DEF WorkerIsMonitored
<1> QED  BY <1>3, <1>4, <1>7, <1>8

(* A forwarded promise gets a target that nothing waits for, so it comes into
   no ring but its own: take the target out of a set of promises, and of the
   others one waits for none of them, and not for the target either. *)
LEMMA ForwardStep ==
    ASSUME QInv, NEW p \in Promises, NEW q \in Promises, Forward(p, q)
    PROVE  QInv'
<1> USE DEF QInv
<1>1. /\ Executing /\ promiseState[q] = "Target"
      /\ promiseState[p] \in {"Pending", "Target"}
      /\ target' = [target EXCEPT ![p] = q]
      /\ dependencies' = [dependencies EXCEPT ![q] = @ \cup {p}]
      /\ promiseState' = [promiseState EXCEPT ![p] = "Forwarded"]
      /\ UNCHANGED <<phase, taskVars, kind, eventVars, batch>>
  BY DEF Forward
<1>2. /\ \A r \in Promises : promiseState'[r] = IF r = p THEN "Forwarded" ELSE promiseState[r]
      /\ \A r \in Promises :
            dependencies'[r] = IF r = q THEN dependencies[q] \cup {p} ELSE dependencies[r]
  BY <1>1 DEF Typed
<1>3. Queued'
  BY <1>1, QueuesLeftAlone DEF taskVars
<1>4. Typed'
  <2>1. promiseState' \in [Promises -> PromiseStates]
    BY <1>1 DEF Typed, PromiseStates
  <2>2. target' \in [Promises -> Promises \cup {NoPromise}]
    BY <1>1 DEF Typed
  <2>3. dependencies' \in [Promises -> SUBSET Promises]
    BY <1>1 DEF Typed
  <2> QED  BY <1>1, <2>1, <2>2, <2>3 DEF Typed, taskVars, eventVars
<1>5. NotLoaded'
  BY <1>1 DEF NotLoaded, Executing
<1>6. SignalledOnce'
  BY <1>1, <1>2 DEF SignalledOnce, eventVars
<1>7. Monitors' /\ WorkerIsMonitored'
  BY <1>1 DEF Monitors, WorkerIsMonitored, taskVars, eventVars
<1>8. ForwardedOnce'
  BY <1>2 DEF ForwardedOnce, Typed
<1>9. \A r \in Promises : q \notin dependencies[r]
  BY <1>1 DEF ForwardedOnce, Finished
<1>10. ASSUME NEW S \in (SUBSET Promises) \ {{}}
       PROVE  \E r \in S : dependencies'[r] \cap S \subseteq {r}
  <2>1. CASE p \in S /\ q \in S /\ S # {q}
    <3>1. S \ {q} \in (SUBSET Promises) \ {{}}
      BY <2>1
    <3>2. PICK r \in S \ {q} : dependencies[r] \cap (S \ {q}) \subseteq {r}
      BY <3>1 DEF RingsAreSelfForwards
    <3>3. dependencies'[r] \cap S \subseteq {r}
      BY <1>2, <1>9, <3>2
    <3> QED  BY <3>2, <3>3
  <2>2. CASE S = {q}
    BY <2>2
  <2>3. CASE ~(p \in S /\ q \in S)
    <3>1. PICK r \in S : dependencies[r] \cap S \subseteq {r}
      BY DEF RingsAreSelfForwards
    <3> QED  BY <1>2, <2>3, <3>1
  <2> QED  BY <2>1, <2>2, <2>3
<1>11. RingsAreSelfForwards'
  BY <1>10 DEF RingsAreSelfForwards
<1> QED  BY <1>3, <1>4, <1>5, <1>6, <1>7, <1>8, <1>11

LEMMA AwaitStep ==
    ASSUME QInv, NEW p \in Promises, Await(p)
    PROVE  QInv'
<1> USE DEF QInv
<1>1. /\ Executing /\ promiseState[p] \in {"Pending", "Target"}
      /\ promiseState' = [promiseState EXCEPT ![p] = "Waiting"]
      /\ waiterTask' = [waiterTask EXCEPT ![p] = current]
      /\ taskState' = [taskState EXCEPT ![current] = "Waiting"]
      /\ ready' = Without(ready, current) /\ wait' = Append(wait, current)
      /\ current' = NoTask
      /\ UNCHANGED <<phase, done, monitor, kind, target, dependencies, waiters, asyncPending,
                     fired, batch>>
  BY DEF Await
<1>2. current \in Tasks /\ phase = "run" /\ taskState[current] = "Running"
  BY <1>1 DEF Executing, Queued
<1>3. Queued'
  BY <1>1, <1>2, TaskAssumption, LeaveKeepsQueues
<1>4. \A r \in Promises : promiseState'[r] = IF r = p THEN "Waiting" ELSE promiseState[r]
  BY <1>1 DEF Typed
<1>5. \A t \in Tasks : taskState[t] \in {"Ready", "Running", "Waiting"}
                         => taskState'[t] \in {"Ready", "Running", "Waiting"}
  BY <1>1, <1>2 DEF Queued
<1>6. Typed'
  <2>1. promiseState' \in [Promises -> PromiseStates]
    BY <1>1 DEF Typed, PromiseStates
  <2>2. waiterTask' \in [Promises -> Tasks \cup {NoTask}]
    BY <1>1, <1>2 DEF Typed
  <2> QED  BY <1>1, <2>1, <2>2 DEF Typed
<1>7. NotLoaded'
  BY <1>1, <1>2 DEF NotLoaded
<1>8. SignalledOnce' /\ RingsAreSelfForwards'
  BY <1>1, <1>4 DEF SignalledOnce, RingsAreSelfForwards
<1>9. ForwardedOnce'
  <2>1. \A q \in Promises : p \notin dependencies[q]
    BY <1>1 DEF ForwardedOnce, Finished
  <2> QED  BY <1>1, <1>4, <2>1 DEF ForwardedOnce, Typed
<1>10. Monitors' /\ WorkerIsMonitored'
  BY <1>1, <1>5 DEF Monitors, WorkerIsMonitored
<1> QED  BY <1>3, <1>6, <1>7, <1>8, <1>9, <1>10

(* A worker that returns signals its monitor, which nothing else has done. *)
LEMMA ReturnWorkerStep == QInv /\ ReturnWorker => QInv'
<1> SUFFICES ASSUME QInv, ReturnWorker PROVE QInv'
  OBVIOUS
<1> USE DEF QInv
<1>1. /\ Executing
      /\ taskState' = [taskState EXCEPT ![current] = "Done"]
      /\ ready' = Without(ready, current) /\ done' = Append(done, current)
      /\ fired' = fired \cup ({monitor[current]} \ {NoPromise})
      /\ monitor' = [monitor EXCEPT ![current] = NoPromise]
      /\ current' = NoTask
      /\ UNCHANGED <<phase, wait, promiseVars, waiters, waiterTask, asyncPending, batch>>
  BY DEF ReturnWorker
<1>2. current \in Tasks /\ phase = "run" /\ current # NoTask
  BY <1>1 DEF Executing, Queued
<1>3. Queued'
  BY <1>1, <1>2, LeaveKeepsQueues
<1>4. /\ \A t \in Tasks : monitor'[t] = IF t = current THEN NoPromise ELSE monitor[t]
      /\ \A t \in Tasks : taskState'[t] = IF t = current THEN "Done" ELSE taskState[t]
  BY <1>1, <1>2 DEF Typed, Queued
<1>5. monitor[current] # NoPromise =>
         monitor[current] \in waiters \ fired /\ kind[monitor[current]] = "worker"
  BY <1>2 DEF Monitors
<1>6. Typed'
  <2>1. monitor' \in [Tasks -> Promises \cup {NoPromise}]
    BY <1>1 DEF Typed
  <2>2. fired' \subseteq waiters /\ batch \subseteq fired'
    BY <1>1, <1>5 DEF Typed
  <2> QED  BY <1>1, <2>1, <2>2 DEF Typed, promiseVars
<1>7. NotLoaded'
  BY <1>1, <1>2 DEF NotLoaded
<1>8. SignalledOnce'
  <2>1. \A p \in Promises : asyncPending[p] => p # monitor[current]
    <3>1. SUFFICES ASSUME NEW p \in Promises, asyncPending[p], p = monitor[current]
                   PROVE  FALSE
      OBVIOUS
    <3>2. p # NoPromise
      BY PromiseAssumption
    <3>3. kind[p] = "worker"
      BY <1>5, <3>1, <3>2
    <3> QED  BY <3>1, <3>3 DEF SignalledOnce, TargetKinds
  <2> QED  BY <1>1, <2>1 DEF SignalledOnce, promiseVars
<1>9. ForwardedOnce' /\ RingsAreSelfForwards'
  BY <1>1 DEF ForwardedOnce, RingsAreSelfForwards, promiseVars
<1>10. Monitors'
  BY <1>1, <1>2, <1>4 DEF Monitors, promiseVars
<1>11. WorkerIsMonitored'
  <2>1. ASSUME NEW q \in waiters, kind[q] = "worker", q \notin fired'
        PROVE  \E t \in Tasks :
                  monitor'[t] = q /\ taskState'[t] \in {"Ready", "Running", "Waiting"}
    <3>1. q \notin fired
      BY <1>1, <2>1
    <3>2. PICK t \in Tasks : monitor[t] = q /\ taskState[t] \in {"Ready", "Running", "Waiting"}
      BY <2>1, <3>1 DEF WorkerIsMonitored
    <3>3. q # NoPromise
      BY PromiseAssumption DEF Typed
    <3>4. t # current
      BY <1>1, <2>1, <3>2, <3>3
    <3> QED  BY <1>4, <3>2, <3>4
  <2> QED  BY <1>1, <2>1 DEF WorkerIsMonitored, promiseVars
<1> QED  BY <1>3, <1>6, <1>7, <1>8, <1>9, <1>10, <1>11

-----------------------------------------------------------------------------
(* Events.                                                                 *)

LEMMA ThreadSignalStep ==
    ASSUME QInv, NEW p \in Promises, ThreadSignal(p)
    PROVE  QInv'
<1> USE DEF QInv
<1>1. /\ phase # "halt" /\ kind[p] = "async" /\ asyncPending[p]
      /\ asyncPending' = [asyncPending EXCEPT ![p] = FALSE]
      /\ fired' = fired \cup {p}
      /\ UNCHANGED <<phase, taskVars, promiseVars, waiters, waiterTask, batch>>
  BY DEF ThreadSignal
<1>2. p \in waiters \ fired
  BY <1>1 DEF SignalledOnce
<1>3. \A q \in Promises : asyncPending'[q] <=> asyncPending[q] /\ q # p
  BY <1>1 DEF Typed
<1>4. Queued'
  BY <1>1, QueuesLeftAlone DEF taskVars
<1>5. Typed'
  <2>1. asyncPending' \in [Promises -> BOOLEAN]
    BY <1>1 DEF Typed
  <2> QED  BY <1>1, <1>2, <2>1 DEF Typed, taskVars, promiseVars
<1>6. NotLoaded' /\ ForwardedOnce' /\ RingsAreSelfForwards'
  BY <1>1 DEF NotLoaded, ForwardedOnce, RingsAreSelfForwards, taskVars, promiseVars
<1>7. SignalledOnce'
  BY <1>1, <1>3 DEF SignalledOnce, promiseVars
<1>8. Monitors' /\ WorkerIsMonitored'
  BY <1>1 DEF Monitors, WorkerIsMonitored, taskVars, promiseVars
<1> QED  BY <1>4, <1>5, <1>6, <1>7, <1>8

LEMMA EventArrivesStep ==
    ASSUME QInv, NEW p \in Promises, EventArrives(p)
    PROVE  QInv'
<1> USE DEF QInv
<1>1. /\ kind[p] \in {"timer", "read", "write"} /\ p \in waiters \ fired
      /\ fired' = fired \cup {p}
      /\ UNCHANGED <<phase, taskVars, promiseVars, waiters, waiterTask, asyncPending, batch>>
  BY DEF EventArrives
<1>2. ~asyncPending[p]
  BY <1>1 DEF SignalledOnce, TargetKinds
<1>3. Queued'
  BY <1>1, QueuesLeftAlone DEF taskVars
<1>4. Typed'
  BY <1>1 DEF Typed, taskVars, promiseVars
<1>5. NotLoaded' /\ ForwardedOnce' /\ RingsAreSelfForwards'
  BY <1>1 DEF NotLoaded, ForwardedOnce, RingsAreSelfForwards, taskVars, promiseVars
<1>6. SignalledOnce'
  BY <1>1, <1>2 DEF SignalledOnce, promiseVars
<1>7. Monitors' /\ WorkerIsMonitored'
  BY <1>1 DEF Monitors, WorkerIsMonitored, taskVars, promiseVars
<1> QED  BY <1>3, <1>4, <1>5, <1>6, <1>7

(* What a callback does to its promise, to the target it notifies and to the
   task it resumes. *)
LEMMA CallbackEffect ==
    ASSUME QInv, NEW p \in Promises, Callback(p)
    PROVE  \E outcome \in Accepts[p], signalled \in SUBSET (waiters \ {p}) :
              /\ promiseState' = FinishedAs(p, outcome)
              /\ \A q \in signalled : asyncPending[q]
              /\ fired' = (fired \ {p}) \cup signalled
              /\ \A q \in Promises :
                    asyncPending'[q] <=> asyncPending[q] /\ q \notin signalled /\ q # p
              /\ asyncPending' \in [Promises -> BOOLEAN]
<1> USE DEF QInv
<1>1. PICK outcome \in Accepts[p] :
          LET ps == FinishedAs(p, outcome)
              signalled == Notified(p, ps)
          IN  /\ promiseState' = ps
              /\ fired' = (fired \ {p}) \cup signalled
              /\ asyncPending' =
                    [q \in Promises |-> asyncPending[q] /\ q \notin signalled /\ q # p]
  BY DEF Callback
<1> DEFINE ps == FinishedAs(p, outcome)
           signalled == Notified(p, ps)
<1>2. \A q \in signalled : q \in Promises /\ asyncPending[q] /\ q # p
  BY DEF Notified
<1>3. signalled \subseteq waiters \ {p}
  BY <1>2 DEF SignalledOnce
<1> QED  BY <1>1, <1>2, <1>3

(* complete and reject change a promise that is not finished, and to finished. *)
LEMMA FinishingIsFinal ==
    ASSUME NEW p \in Promises, NEW outcome \in Accepts[p],
           promiseState \in [Promises -> PromiseStates]
    PROVE  /\ FinishedAs(p, outcome) \in [Promises -> PromiseStates]
           /\ \A q \in Promises : \/ FinishedAs(p, outcome)[q] = promiseState[q]
                                  \/ q = p /\ FinishedAs(p, outcome)[q] \in Finished
           /\ outcome # "nothing" => FinishedAs(p, outcome)[p] \in Finished
<1>1. outcome \in {"Completed", "Rejected", "nothing"}
  BY AcceptsAssumption
<1> QED  BY <1>1 DEF FinishedAs, Finished, PromiseStates

LEMMA CallbackStep ==
    ASSUME QInv, NEW p \in Promises, Callback(p)
    PROVE  QInv'
<1> USE DEF QInv
<1>1. /\ phase = "poll" /\ p \in fired
      /\ waiters' = waiters \ {p}
      /\ waiterTask' = [waiterTask EXCEPT ![p] = NoTask]
      /\ batch' = batch \ {p}
      /\ UNCHANGED <<phase, current, done, monitor, kind, target, dependencies>>
  BY DEF Callback
<1>2. PICK outcome \in Accepts[p], signalled \in SUBSET (waiters \ {p}) :
              /\ promiseState' = FinishedAs(p, outcome)
              /\ \A q \in signalled : asyncPending[q]
              /\ fired' = (fired \ {p}) \cup signalled
              /\ \A q \in Promises :
                    asyncPending'[q] <=> asyncPending[q] /\ q \notin signalled /\ q # p
              /\ asyncPending' \in [Promises -> BOOLEAN]
  BY CallbackEffect
<1>3. /\ promiseState' \in [Promises -> PromiseStates]
      /\ \A q \in Promises : \/ promiseState'[q] = promiseState[q]
                             \/ q = p /\ promiseState'[q] \in Finished
  BY <1>2, FinishingIsFinal DEF Typed
<1>4. \/ UNCHANGED <<taskState, wait, ready>>
      \/ \E t \in Tasks :
            /\ taskState[t] = "Waiting"
            /\ taskState' = [taskState EXCEPT ![t] = "Ready"]
            /\ wait' = Without(wait, t) /\ ready' = Append(ready, t)
  BY DEF Callback, ReadyLast, Typed
<1>5. Queued'
  BY <1>1, <1>4, QueuesLeftAlone, JoinKeepsQueues
<1>6. \A t \in Tasks : taskState[t] \in {"Ready", "Running", "Waiting"}
                         => taskState'[t] \in {"Ready", "Running", "Waiting"}
  BY <1>4 DEF Queued
<1>7. Typed'
  <2>1. waiterTask' \in [Promises -> Tasks \cup {NoTask}]
    BY <1>1 DEF Typed
  <2>2. fired' \subseteq waiters' /\ batch' \subseteq fired' /\ waiters' \subseteq Promises
    BY <1>1, <1>2 DEF Typed
  <2> QED  BY <1>1, <1>2, <1>3, <2>1, <2>2 DEF Typed
<1>8. NotLoaded'
  BY <1>1 DEF NotLoaded
<1>9. SignalledOnce'
  BY <1>1, <1>2, <1>3 DEF SignalledOnce, Finished
<1>10. ForwardedOnce'
  BY <1>1, <1>3 DEF ForwardedOnce, Typed
<1>11. RingsAreSelfForwards'
  BY <1>1 DEF RingsAreSelfForwards
<1>12. \A q \in signalled : kind[q] # "worker"
  BY <1>2 DEF SignalledOnce, TargetKinds, Typed
<1>13. Monitors'
  BY <1>1, <1>2, <1>6, <1>12 DEF Monitors
<1>14. WorkerIsMonitored'
  BY <1>1, <1>2, <1>6 DEF WorkerIsMonitored
<1> QED  BY <1>5, <1>7, <1>8, <1>9, <1>10, <1>11, <1>13, <1>14

-----------------------------------------------------------------------------
LEMMA NextQInv == QInv /\ [Next]_vars => QInv'
<1> SUFFICES ASSUME QInv, [Next]_vars PROVE QInv'
  OBVIOUS
<1>1. CASE Load
  BY <1>1, LoadStep
<1>2. ASSUME NEW p \in Promises,
             \/ RegisterAsync(p) \/ RegisterTarget(p) \/ RegisterTimer(p)
             \/ RegisterRead(p) \/ RegisterWrite(p) \/ Await(p)
             \/ \E t \in Tasks : StartWorker(t, p)
             \/ \E q \in Promises : Forward(p, q)
      PROVE  QInv'
  BY <1>2, RegisterStep, AwaitStep, StartWorkerStep, ForwardStep
<1>3. CASE ReturnMain \/ Slice \/ BlockingPoll
  <2>1. UNCHANGED <<taskVars, promiseVars, eventVars>>
    BY <1>3 DEF ReturnMain, Slice, BlockingPoll
  <2>2. phase' \in Phases \ {"load"}
    BY <1>3 DEF ReturnMain, Slice, BlockingPoll, Phases
  <2>3. batch' \subseteq fired
    BY <1>3 DEF ReturnMain, Slice, BlockingPoll, QInv, Typed
  <2> QED  BY <2>1, <2>2, <2>3, PhaseStep
<1>4. CASE ReturnWorker
  BY <1>4, ReturnWorkerStep
<1>5. CASE SelectReady \/ EndPoll
  <2>1. /\ phase # "load" /\ SelectNextReady(taskState, ready) /\ phase' = "run"
        /\ UNCHANGED <<ready, wait, done, monitor, promiseVars, eventVars, batch>>
    BY <1>5 DEF SelectReady, EndPoll
  <2> QED  BY <2>1, SwitchStep
<1>6. ASSUME NEW p \in Promises, Callback(p) \/ ThreadSignal(p) \/ EventArrives(p)
      PROVE  QInv'
  BY <1>6, CallbackStep, ThreadSignalStep, EventArrivesStep
<1>7. CASE UNCHANGED vars
  <2>1. UNCHANGED <<phase, taskVars, promiseVars, eventVars, batch>>
    BY <1>7 DEF vars
  <2>2. CASE phase = "load"
    <3>1. Queued'
      BY <2>1, QueuesLeftAlone DEF QInv, taskVars
    <3>2. Typed' /\ NotLoaded' /\ SignalledOnce' /\ ForwardedOnce' /\ RingsAreSelfForwards'
      BY <2>1 DEF QInv, Typed, NotLoaded, SignalledOnce, ForwardedOnce, RingsAreSelfForwards,
                  taskVars, promiseVars, eventVars
    <3>3. Monitors' /\ WorkerIsMonitored'
      BY <2>1 DEF QInv, Monitors, WorkerIsMonitored, taskVars, promiseVars, eventVars
    <3> QED  BY <3>1, <3>2, <3>3 DEF QInv
  <2>3. CASE phase # "load"
    <3>1. phase' \in Phases \ {"load"} /\ batch' \subseteq fired
      BY <2>1, <2>3 DEF QInv, Typed
    <3> QED  BY <2>1, <3>1, PhaseStep
  <2> QED  BY <2>2, <2>3
<1> QED  BY <1>1, <1>2, <1>3, <1>4, <1>5, <1>6, <1>7 DEF Next, Trap, Poll

LEMMA AlwaysQInv == Spec => []QInv
<1> QED  BY InitQInv, NextQInv, PTL DEF Spec

-----------------------------------------------------------------------------
(* Waiting tasks and their waiters.                                        *)

LEMMA InitWInv == Init => WInv
BY TaskAssumption DEF Init, WInv, HeldWhileWaiting, NoLostWakeup, UnfinishedPromiseHasWaiter,
   Finished

(* Steps that leave alone who waits for what. *)
LEMMA HoldersLeftAlone ==
    ASSUME QInv, WInv, phase # "load", waiterTask' = waiterTask, waiters \subseteq waiters',
           \A t \in Tasks : taskState'[t] = "Waiting" <=> taskState[t] = "Waiting",
           \A p \in Promises :
              \/ promiseState'[p] = promiseState[p] /\ (p \in waiters' <=> p \in waiters)
              \/ promiseState[p] \in {"Initial", "Pending", "Target"} /\ p \in waiters'
    PROVE  WInv'
<1>1. HeldWhileWaiting'
  BY DEF WInv, HeldWhileWaiting
<1>2. NoLostWakeup'
  <2>1. ASSUME NEW p \in Promises, waiterTask[p] # NoTask
        PROVE  taskState'[waiterTask[p]] = "Waiting"
    BY <2>1 DEF WInv, NoLostWakeup, QInv, Typed
  <2>2. ASSUME NEW t \in Tasks, taskState'[t] = "Waiting"
        PROVE  \E p \in waiters' : \A q \in Promises : waiterTask'[q] = t <=> q = p
    BY <2>2 DEF WInv, NoLostWakeup
  <2> QED  BY <2>1, <2>2 DEF NoLostWakeup
<1>3. UnfinishedPromiseHasWaiter'
  BY DEF WInv, UnfinishedPromiseHasWaiter
<1> QED  BY <1>1, <1>2, <1>3 DEF WInv

LEMMA LoadHolders == QInv /\ WInv /\ Load => WInv'
<1> SUFFICES ASSUME QInv, WInv, Load PROVE WInv'
  OBVIOUS
<1>1. /\ phase = "load" /\ phase' = "run"
      /\ UNCHANGED <<promiseState, waiters, waiterTask>>
  BY DEF Load, promiseVars, eventVars
<1>2. Members(wait) = {Main}
  BY <1>1, TaskAssumption DEF QInv, Queued, NotLoaded
<1>3. Members(Without(wait, Main)) = {}
  BY <1>2, RemoveFromQueue DEF QInv, Queued
<1>4. Members(wait') = {}
  BY <1>3 DEF Load
<1>5. \A t \in Tasks : taskState'[t] # "Waiting"
  <2>1. QInv'
    BY LoadStep
  <2> QED  BY <2>1, <1>4 DEF QInv, Queued, Members
<1>6. \A p \in Promises : waiterTask[p] = NoTask
  BY <1>1 DEF QInv, NotLoaded
<1>7. NoLostWakeup'
  BY <1>1, <1>5, <1>6 DEF NoLostWakeup
<1> QED  BY <1>1, <1>6, <1>7 DEF WInv, HeldWhileWaiting, UnfinishedPromiseHasWaiter

(* The task that awaits is held by the waiter of the promise, which lives. *)
LEMMA AwaitHolds ==
    ASSUME QInv, WInv, NEW p \in Promises, Await(p)
    PROVE  WInv'
<1>1. /\ Executing /\ promiseState[p] \in {"Pending", "Target"}
      /\ promiseState' = [promiseState EXCEPT ![p] = "Waiting"]
      /\ waiterTask' = [waiterTask EXCEPT ![p] = current]
      /\ taskState' = [taskState EXCEPT ![current] = "Waiting"]
      /\ UNCHANGED <<phase, waiters>>
  BY DEF Await
<1>2. current \in Tasks /\ taskState[current] = "Running" /\ phase = "run"
  BY <1>1 DEF Executing, QInv, Queued
<1>3. p \in waiters /\ waiterTask[p] = NoTask
  BY <1>1 DEF WInv, UnfinishedPromiseHasWaiter, HeldWhileWaiting, Finished
<1>4. /\ \A q \in Promises : promiseState'[q] = IF q = p THEN "Waiting" ELSE promiseState[q]
      /\ \A q \in Promises : waiterTask'[q] = IF q = p THEN current ELSE waiterTask[q]
      /\ \A t \in Tasks : taskState'[t] = IF t = current THEN "Waiting" ELSE taskState[t]
  BY <1>1, <1>2 DEF QInv, Typed, Queued
<1>5. \A q \in Promises : waiterTask[q] # current
  BY <1>2, TaskAssumption DEF WInv, NoLostWakeup
<1>6. HeldWhileWaiting'
  BY <1>1, <1>3, <1>4 DEF WInv, HeldWhileWaiting
<1>7. NoLostWakeup'
  <2>1. ASSUME NEW t \in Tasks, taskState'[t] = "Waiting"
        PROVE  \E r \in waiters : \A q \in Promises : waiterTask'[q] = t <=> q = r
    <3>1. CASE t = current
      BY <1>3, <1>4, <1>5, <3>1
    <3>2. CASE t # current
      <4>1. PICK r \in waiters : \A q \in Promises : waiterTask[q] = t <=> q = r
        BY <1>2, <1>4, <2>1, <3>2 DEF WInv, NoLostWakeup
      <4>2. r # p
        BY <1>3, <4>1, TaskAssumption DEF QInv, Typed
      <4> QED  BY <1>4, <3>2, <4>1, <4>2
    <3> QED  BY <3>1, <3>2
  <2>2. ASSUME NEW q \in Promises, waiterTask'[q] # NoTask
        PROVE  taskState'[waiterTask'[q]] = "Waiting"
    BY <1>2, <1>4, <2>2 DEF WInv, NoLostWakeup, QInv, Typed
  <2> QED  BY <1>1, <2>1, <2>2 DEF NoLostWakeup
<1>8. UnfinishedPromiseHasWaiter'
  BY <1>1, <1>3, <1>4 DEF WInv, UnfinishedPromiseHasWaiter
<1> QED  BY <1>6, <1>7, <1>8 DEF WInv

(* The task the waiter holds is resumed, and the promise is finished. *)
LEMMA CallbackResumes ==
    ASSUME AcceptsFinish, QInv, WInv, NEW p \in Promises, Callback(p)
    PROVE  WInv'
<1>1. /\ phase = "poll" /\ waiters' = waiters \ {p}
      /\ waiterTask' = [waiterTask EXCEPT ![p] = NoTask]
      /\ UNCHANGED phase
  BY DEF Callback
<1>2. /\ promiseState' \in [Promises -> PromiseStates]
      /\ \A q \in Promises : promiseState'[q] = promiseState[q] \/ q = p
      /\ promiseState'[p] \in Finished
  <2>1. PICK outcome \in Accepts[p] : promiseState' = FinishedAs(p, outcome)
    BY CallbackEffect
  <2> QED  BY <2>1, FinishingIsFinal DEF AcceptsFinish, QInv, Typed
<1>3. /\ \A q \in Promises : waiterTask'[q] = IF q = p THEN NoTask ELSE waiterTask[q]
      /\ \A t \in Tasks :
            taskState'[t] = IF t = waiterTask[p] THEN "Ready" ELSE taskState[t]
  <2>1. waiterTask[p] # NoTask => waiterTask[p] \in Tasks /\ taskState[waiterTask[p]] = "Waiting"
    BY DEF WInv, NoLostWakeup, QInv, Typed
  <2>2. IF waiterTask[p] # NoTask THEN taskState' = [taskState EXCEPT ![waiterTask[p]] = "Ready"]
                                  ELSE taskState' = taskState
    BY <2>1 DEF Callback
  <2> QED  BY <1>1, <2>1, <2>2, TaskAssumption DEF QInv, Typed, Queued
<1>4. HeldWhileWaiting'
  BY <1>1, <1>2, <1>3 DEF WInv, HeldWhileWaiting
<1>5. NoLostWakeup'
  <2>1. ASSUME NEW t \in Tasks, taskState'[t] = "Waiting"
        PROVE  \E r \in waiters' : \A q \in Promises : waiterTask'[q] = t <=> q = r
    <3>1. t # waiterTask[p] /\ taskState[t] = "Waiting"
      BY <1>3, <2>1
    <3>2. PICK r \in waiters : \A q \in Promises : waiterTask[q] = t <=> q = r
      BY <1>1, <3>1 DEF WInv, NoLostWakeup
    <3>3. r # p
      BY <3>1, <3>2
    <3> QED  BY <1>1, <1>3, <3>2, <3>3, TaskAssumption
  <2>2. ASSUME NEW q \in Promises, waiterTask'[q] # NoTask
        PROVE  taskState'[waiterTask'[q]] = "Waiting"
    <3>1. q # p /\ waiterTask'[q] = waiterTask[q]
      BY <1>3, <2>2
    <3>2. waiterTask[q] \in Tasks /\ taskState[waiterTask[q]] = "Waiting"
      BY <2>2, <3>1 DEF WInv, NoLostWakeup, QInv, Typed
    <3>3. waiterTask[q] # waiterTask[p]
      <4>1. PICK r \in waiters : \A s \in Promises : waiterTask[s] = waiterTask[q] <=> s = r
        BY <1>1, <3>2 DEF WInv, NoLostWakeup
      <4> QED  BY <3>1, <4>1
    <3> QED  BY <1>3, <3>1, <3>2, <3>3
  <2> QED  BY <1>1, <2>1, <2>2 DEF NoLostWakeup
<1>6. UnfinishedPromiseHasWaiter'
  BY <1>1, <1>2 DEF WInv, UnfinishedPromiseHasWaiter
<1> QED  BY <1>4, <1>5, <1>6 DEF WInv

LEMMA NextWInv == AcceptsFinish /\ QInv /\ WInv /\ [Next]_vars => WInv'
<1> SUFFICES ASSUME AcceptsFinish, QInv, WInv, [Next]_vars PROVE WInv'
  OBVIOUS
<1>1. CASE Load
  BY <1>1, LoadHolders
<1>2. ASSUME NEW p \in Promises, NEW k, NEW state \in {"Pending", "Target"},
             Executing, Register(p, k, state),
             \/ taskState' = taskState
             \/ \E t \in Tasks : /\ taskState[t] = "Absent"
                                 /\ taskState' = [taskState EXCEPT ![t] = "Ready"]
      PROVE  WInv'
  <2>1. /\ waiterTask' = waiterTask /\ waiters' = waiters \cup {p} /\ phase # "load"
        /\ promiseState[p] = "Initial"
        /\ \A q \in Promises : promiseState'[q] = IF q = p THEN state ELSE promiseState[q]
    BY <1>2 DEF Register, Executing, QInv, Typed
  <2>2. \A t \in Tasks : taskState'[t] = "Waiting" <=> taskState[t] = "Waiting"
    BY <1>2 DEF QInv, Queued
  <2> QED  BY <2>1, <2>2, HoldersLeftAlone
<1>3. ASSUME NEW p \in Promises,
             RegisterAsync(p) \/ RegisterTarget(p) \/ RegisterTimer(p) \/ RegisterRead(p)
                \/ RegisterWrite(p)
      PROVE  WInv'
  <2>1. /\ Executing /\ taskState' = taskState
        /\ \E k \in Kinds, state \in {"Pending", "Target"} : Register(p, k, state)
    BY <1>3 DEF RegisterAsync, RegisterTarget, RegisterTimer, RegisterRead, RegisterWrite,
                RegisterEvent, TargetKinds, Kinds, taskVars
  <2> QED  BY <2>1, <1>2
<1>4. ASSUME NEW p \in Promises, NEW t \in Tasks, StartWorker(t, p)
      PROVE  WInv'
  BY <1>4, <1>2 DEF StartWorker
<1>5. ASSUME NEW p \in Promises, NEW q \in Promises, Forward(p, q)
      PROVE  WInv'
  <2>1. /\ UNCHANGED <<waiterTask, waiters, taskState>> /\ phase # "load"
        /\ promiseState[p] \in {"Pending", "Target"}
        /\ \A r \in Promises : promiseState'[r] = IF r = p THEN "Forwarded" ELSE promiseState[r]
    BY <1>5 DEF Forward, Executing, QInv, Typed, taskVars, eventVars
  <2>2. p \in waiters
    BY <2>1 DEF WInv, UnfinishedPromiseHasWaiter, Finished
  <2> QED  BY <2>1, <2>2, HoldersLeftAlone
<1>6. ASSUME NEW p \in Promises, Await(p)
      PROVE  WInv'
  BY <1>6, AwaitHolds
<1>7. CASE ReturnWorker
  <2>1. /\ UNCHANGED <<waiterTask, waiters, promiseState>> /\ phase # "load"
        /\ taskState' = [taskState EXCEPT ![current] = "Done"]
        /\ taskState[current] = "Running" /\ current \in Tasks
    BY <1>7 DEF ReturnWorker, Executing, QInv, Queued, promiseVars
  <2>2. \A t \in Tasks : taskState'[t] = "Waiting" <=> taskState[t] = "Waiting"
    BY <2>1 DEF QInv, Queued
  <2> QED  BY <2>1, <2>2, HoldersLeftAlone
<1>8. CASE SelectReady \/ EndPoll
  <2>1. /\ UNCHANGED <<waiterTask, waiters, promiseState, ready, wait, done>> /\ phase # "load"
        /\ SelectNextReady(taskState, ready)
    BY <1>8 DEF SelectReady, EndPoll, promiseVars, eventVars
  <2>2. \A t \in Tasks : \/ taskState'[t] = taskState[t]
                         \/ /\ taskState[t] \in {"Ready", "Running"}
                            /\ taskState'[t] \in {"Ready", "Running"}
    BY <2>1, SelectKeepsQueues DEF QInv
  <2> QED  BY <2>1, <2>2, HoldersLeftAlone
<1>9. ASSUME NEW p \in Promises, Callback(p)
      PROVE  WInv'
  BY <1>9, CallbackResumes
<1>10. ASSUME UNCHANGED <<waiterTask, waiters, promiseState, taskState>>, phase # "load"
       PROVE  WInv'
  BY <1>10, HoldersLeftAlone
<1>11. CASE ReturnMain \/ Slice \/ BlockingPoll
  BY <1>10, <1>11 DEF ReturnMain, Slice, BlockingPoll, Executing, taskVars, promiseVars, eventVars
<1>12. ASSUME NEW p \in Promises, ThreadSignal(p) \/ EventArrives(p)
       PROVE  WInv'
  <2>1. UNCHANGED <<waiterTask, waiters, promiseState, taskState, phase>>
    BY <1>12 DEF ThreadSignal, EventArrives, taskVars, promiseVars
  <2> QED  BY <2>1 DEF WInv, HeldWhileWaiting, NoLostWakeup, UnfinishedPromiseHasWaiter
<1>13. CASE UNCHANGED vars
  <2>1. UNCHANGED <<waiterTask, waiters, promiseState, taskState, phase>>
    BY <1>13 DEF vars, taskVars, promiseVars, eventVars
  <2> QED  BY <2>1 DEF WInv, HeldWhileWaiting, NoLostWakeup, UnfinishedPromiseHasWaiter
<1> QED
  BY <1>1, <1>3, <1>4, <1>5, <1>6, <1>7, <1>8, <1>9, <1>11, <1>12, <1>13 DEF Next, Trap, Poll

LEMMA AlwaysWInv == ASSUME AcceptsFinish PROVE Spec => [](QInv /\ WInv)
<1>1. Init => QInv /\ WInv
  BY InitQInv, InitWInv
<1>2. (QInv /\ WInv) /\ [Next]_vars => (QInv /\ WInv)'
  BY NextQInv, NextWInv
<1> QED  BY <1>1, <1>2, PTL DEF Spec

-----------------------------------------------------------------------------
(* The queues implement TaskQueues.                                        *)

LEMMA QueueRecord ==
    ASSUME NEW r, NEW w, NEW d
    PROVE  [ready |-> r, wait |-> w, done |-> d] =
              [q \in {"ready", "wait", "done"} |->
                  IF q = "ready" THEN r ELSE IF q = "wait" THEN w ELSE d]
OBVIOUS

LEMMA SuspendImplemented ==
    ASSUME NEW t \in Members(ready), ready' = Without(ready, t), wait' = Append(wait, t),
           done' = done
    PROVE  Queues!Suspend(t)
<1> DEFINE q == [ready |-> ready, wait |-> wait, done |-> done]
<1>1. t \in Queues!Members(q["ready"])
  BY DEF Queues!Members, Members
<1>2. [q EXCEPT !["ready"] = Queues!Without(@, t), !["wait"] = Append(@, t)] =
         [ready |-> ready', wait |-> wait', done |-> done']
  <2>1. Queues!Without(ready, t) = Without(ready, t)
    BY DEF Queues!Without, Without
  <2> QED  BY <2>1, SMTT(30)
<1> QED  BY <1>1, <1>2 DEF Queues!Suspend, Queues!Move

LEMMA ResumeImplemented ==
    ASSUME NEW t \in Members(wait), wait' = Without(wait, t), ready' = Append(ready, t),
           done' = done
    PROVE  Queues!Resume(t)
<1> DEFINE q == [ready |-> ready, wait |-> wait, done |-> done]
<1>1. t \in Queues!Members(q["wait"])
  BY DEF Queues!Members, Members
<1>2. [q EXCEPT !["wait"] = Queues!Without(@, t), !["ready"] = Append(@, t)] =
         [ready |-> ready', wait |-> wait', done |-> done']
  <2>1. Queues!Without(wait, t) = Without(wait, t)
    BY DEF Queues!Without, Without
  <2> QED  BY <2>1, SMTT(30)
<1> QED  BY <1>1, <1>2 DEF Queues!Resume, Queues!Move

LEMMA TerminateImplemented ==
    ASSUME NEW t \in Members(ready), ready' = Without(ready, t), done' = Append(done, t),
           wait' = wait
    PROVE  Queues!Terminate(t)
<1> DEFINE q == [ready |-> ready, wait |-> wait, done |-> done]
<1>1. t \in Queues!Members(q["ready"])
  BY DEF Queues!Members, Members
<1>2. [q EXCEPT !["ready"] = Queues!Without(@, t), !["done"] = Append(@, t)] =
         [ready |-> ready', wait |-> wait', done |-> done']
  <2>1. Queues!Without(ready, t) = Without(ready, t)
    BY DEF Queues!Without, Without
  <2> QED  BY <2>1, SMTT(30)
<1> QED  BY <1>1, <1>2 DEF Queues!Terminate, Queues!Move

LEMMA StartImplemented ==
    ASSUME NEW t, t \notin Members(ready), t \notin Members(wait), t \notin Members(done),
           ready' = Append(ready, t), wait' = wait, done' = done
    PROVE  Queues!Start(t)
<1>1. ~Queues!Queued(t)
  BY DEF Queues!Queued, Queues!Queues, Queues!Members, Members
<1> QED  BY <1>1 DEF Queues!Start

LEMMA QueueStep == QInv /\ [Next]_vars =>
                      [Queues!Next]_[ready |-> ready, wait |-> wait, done |-> done]
<1> SUFFICES ASSUME QInv, [Next]_vars
             PROVE  [Queues!Next]_[ready |-> ready, wait |-> wait, done |-> done]
  OBVIOUS
<1> DEFINE Same == UNCHANGED <<ready, wait, done>>
<1>1. CASE Load
  <2>1. Main \in Members(wait)
    BY <1>1, TaskAssumption DEF Load, QInv, Queued, NotLoaded
  <2>2. Queues!Resume(Main)
    BY <1>1, <2>1, ResumeImplemented DEF Load
  <2> QED  BY <2>2, TaskAssumption DEF Queues!Next
<1>2. ASSUME NEW p \in Promises, NEW t \in Tasks, StartWorker(t, p)
      PROVE  Queues!Next
  <2>1. t \notin Members(ready) /\ t \notin Members(wait) /\ t \notin Members(done)
    BY <1>2 DEF StartWorker, QInv, Queued
  <2> QED  BY <1>2, <2>1, StartImplemented DEF StartWorker, Queues!Next
<1>3. ASSUME NEW p \in Promises, Await(p)
      PROVE  Queues!Next
  <2>1. current \in Tasks /\ current \in Members(ready)
    BY <1>3 DEF Await, Executing, QInv, Queued
  <2> QED  BY <1>3, <2>1, SuspendImplemented DEF Await, Queues!Next
<1>4. CASE ReturnWorker
  <2>1. current \in Tasks /\ current \in Members(ready)
    BY <1>4 DEF ReturnWorker, Executing, QInv, Queued
  <2> QED  BY <1>4, <2>1, TerminateImplemented DEF ReturnWorker, Queues!Next
<1>5. ASSUME NEW p \in Promises, Callback(p)
      PROVE  Same \/ Queues!Next
  <2>1. CASE waiterTask[p] # NoTask /\ taskState[waiterTask[p]] = "Waiting"
    <3>1. waiterTask[p] \in Tasks /\ waiterTask[p] \in Members(wait)
      BY <2>1 DEF QInv, Queued, Typed
    <3>2. /\ wait' = Without(wait, waiterTask[p]) /\ ready' = Append(ready, waiterTask[p])
          /\ done' = done
      BY <1>5, <2>1 DEF Callback, ReadyLast
    <3> QED  BY <3>1, <3>2, ResumeImplemented DEF Queues!Next
  <2>2. CASE ~(waiterTask[p] # NoTask /\ taskState[waiterTask[p]] = "Waiting")
    BY <1>5, <2>2 DEF Callback
  <2> QED  BY <2>1, <2>2
<1>6. CASE \/ ReturnMain \/ Slice \/ SelectReady \/ BlockingPoll \/ EndPoll
           \/ UNCHANGED vars
  BY <1>6 DEF ReturnMain, Slice, SelectReady, BlockingPoll, EndPoll, vars, taskVars
<1>7. ASSUME NEW p \in Promises,
             \/ RegisterAsync(p) \/ RegisterTarget(p) \/ RegisterTimer(p)
             \/ RegisterRead(p) \/ RegisterWrite(p)
             \/ \E q \in Promises : Forward(p, q)
             \/ ThreadSignal(p) \/ EventArrives(p)
      PROVE  Same
  BY <1>7 DEF RegisterAsync, RegisterTarget, RegisterTimer, RegisterRead, RegisterWrite,
              RegisterEvent, Forward, ThreadSignal, EventArrives, taskVars
<1>8. Same \/ Queues!Next
  <2> HIDE DEF Same
  <2> QED
    BY <1>1, <1>2, <1>3, <1>4, <1>5, <1>6, <1>7 DEF Next, Trap, Poll, Same
<1> QED  BY <1>8

-----------------------------------------------------------------------------
(* The theorems.                                                           *)

(* At every step each task is once in the queue its state says and in no other,
   and the current task is the one that runs. *)
THEOREM QueuesAgree == Spec => []QueuesMatchStates
<1>1. QInv => QueuesMatchStates
  BY TwoParts DEF QInv
<1> QED  BY <1>1, AlwaysQInv, PTL

(* However promises are forwarded, no target waits for itself through others:
   setReachable, which follows the dependencies, ends unless it comes to a promise
   that was forwarded to itself. *)
THEOREM NoRingOfTwoTargets == Spec => []RingsAreSelfForwards
<1>1. QInv => RingsAreSelfForwards
  BY DEF QInv
<1> QED  BY <1>1, AlwaysQInv, PTL

(* A worker has its monitor until it returns, and the event of its return stays
   until it is delivered. *)
THEOREM WorkersAreMonitored == Spec => []WorkerIsMonitored
<1>1. QInv => WorkerIsMonitored
  BY DEF QInv
<1> QED  BY <1>1, AlwaysQInv, PTL

(* The scheduler uses its three queues as TaskQueues specifies: a task that
   changes queue goes to the end, and the others keep their order. *)
THEOREM QueuesImplemented == Spec => RefinesTaskQueues
<1>1. Init => Queues!Init
  BY QueueRecord DEF Init, Queues!Init, Queues!Queues
<1> QED  BY <1>1, QueueStep, AlwaysQInv, PTL DEF Spec, RefinesTaskQueues, Queues!Spec

(* If accept callbacks finish their promise, a suspended task is held by exactly
   one live waiter, and a waiter holds no other task. *)
THEOREM WakeUpsAreHeld == AcceptsFinish => (Spec => []NoLostWakeup)
<1> SUFFICES ASSUME AcceptsFinish PROVE Spec => []NoLostWakeup
  OBVIOUS
<1>1. WInv => NoLostWakeup
  BY DEF WInv
<1> QED  BY <1>1, AlwaysWInv, PTL

(* If accept callbacks finish their promise, what may still be awaited or
   forwarded has its waiter: m_waiter is not followed after it is destroyed. *)
THEOREM WaitersLive == AcceptsFinish => (Spec => []UnfinishedPromiseHasWaiter)
<1> SUFFICES ASSUME AcceptsFinish PROVE Spec => []UnfinishedPromiseHasWaiter
  OBVIOUS
<1>1. WInv => UnfinishedPromiseHasWaiter
  BY DEF WInv
<1> QED  BY <1>1, AlwaysWInv, PTL

(* If accept callbacks finish their promise, a task leaves an await only by the
   event of the promise it awaits, and finds it finished. *)
THEOREM ResumesWithResult == AcceptsFinish => (Spec => ResumedWithResult)
<1> SUFFICES ASSUME AcceptsFinish PROVE Spec => ResumedWithResult
  OBVIOUS
<1> DEFINE Resumes ==
        \A t \in Tasks :
          taskState[t] = "Waiting" /\ taskState'[t] # "Waiting" =>
             \/ phase = "load"
             \/ \E p \in fired : waiterTask[p] = t /\ promiseState'[p] \in Finished
<1>1. ASSUME QInv, [Next]_vars PROVE [Resumes]_vars
  <2>1. SUFFICES ASSUME NEW t \in Tasks, taskState[t] = "Waiting", taskState'[t] # "Waiting",
                        phase # "load", Next
                 PROVE  \E p \in fired : waiterTask[p] = t /\ promiseState'[p] \in Finished
    BY <1>1
  <2>2. PICK p \in Promises : Callback(p)
    <3>1. ~(SelectReady \/ EndPoll)
      BY <2>1, SelectKeepsQueues, <1>1 DEF SelectReady, EndPoll, QInv
    <3>2. taskState' # taskState /\ ~Load
      BY <2>1 DEF Load
    <3>3. ~ReturnWorker /\ \A p \in Promises, u \in Tasks : ~StartWorker(u, p) /\ ~Await(p)
      BY <1>1, <2>1 DEF ReturnWorker, StartWorker, Await, Executing, QInv, Queued
    <3> QED
      BY <2>1, <3>1, <3>2, <3>3
      DEF Next, Trap, Poll, ReturnMain, Slice, BlockingPoll, RegisterAsync, RegisterTarget,
          RegisterTimer, RegisterRead, RegisterWrite, RegisterEvent, Forward, ThreadSignal,
          EventArrives, taskVars
  <2>3. waiterTask[p] = t /\ p \in fired
    BY <1>1, <2>1, <2>2 DEF Callback, QInv, Queued
  <2>4. promiseState'[p] \in Finished
    <3>1. PICK outcome \in Accepts[p] : promiseState' = FinishedAs(p, outcome)
      BY <1>1, <2>2, CallbackEffect
    <3> QED  BY <1>1, <3>1, FinishingIsFinal DEF AcceptsFinish, QInv, Typed
  <2> QED  BY <2>3, <2>4
<1>2. QInv /\ [Next]_vars => [Resumes]_vars
  BY <1>1
<1> HIDE DEF Resumes
<1>3. Spec => [][Resumes]_vars
  BY <1>2, AlwaysQInv, PTL DEF Spec
<1> QED  BY <1>3 DEF ResumedWithResult, Resumes
=============================================================================
