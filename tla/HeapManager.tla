---------------------------- MODULE HeapManager ----------------------------
(***************************************************************************)
(* The garbage collector of the interpreter: lyric_runtime/src/            *)
(* heap_manager.cpp (collectGarbage), gc_heap.cpp, the reachability marks  *)
(* of base_ref.cpp and status_ref.cpp, and the handles of ref_handle.cpp.  *)
(*                                                                         *)
(* References are held on the data stack of a task, in the call frames of  *)
(* a task (arguments, locals, lexicals), in the cells of a segment         *)
(* (statics, instances, enums, protocols, namespaces), by promises through *)
(* their operations and as their results, by handles, and by the members   *)
(* of another instance.  The collector visits the data stacks, promises    *)
(* that have a waiter, and the handles: no frame, no cell and no result.   *)
(* It walks the rings of tasks and waiters of the scheduler: a ring of one *)
(* has null pointers, a ring of more is circular (see TaskRing).           *)
(***************************************************************************)
EXTENDS Naturals, Sequences, FiniteSets

CONSTANTS
    Objects,            \* the instances that may be allocated, each once
    Tasks,              \* the tasks of the scheduler
    Main,               \* the main task
    Promises,           \* the promises that may be registered
    Statics,            \* the cells of m_statics, of all segments
    Singletons,         \* those of m_instances, m_enums, m_protocols, m_namespaces
    AtSafePoints,       \* whether the collector is called at safe points only
    MaxRefs             \* bound: the copies of a handle
    
None == "none"
Cells == Statics \cup Singletons

ASSUME ObjectsAssumption == None \notin Objects
ASSUME TasksAssumption == Main \in Tasks /\ IsFiniteSet(Tasks)
ASSUME SafePointAssumption == AtSafePoints \in BOOLEAN
ASSUME BoundsAssumption == MaxRefs \in Nat \ {0}

VARIABLES
    live,               \* the instances in GCHeap::m_instances
    freed,              \* the instances that were deleted
    stack,              \* the references on the data stack of a task
    frames,             \* the references in the call frames of a task
    members,            \* the references in the fields of an instance
    ready,              \* the tasks in the ready ring, the running one included
    wait,               \* the tasks in the wait ring
    current,            \* the running task
    waiters,            \* the waiters, by promise, the head of the ring first
    promiseRefs,        \* what PromiseOperations::setReachable marks
    results,            \* Promise::m_result, where it is a reference
    cells,              \* the reference in a cell of a segment, or None
    handle,             \* m_handles: the instance of the one handle, or None
    refcount,           \* HandlePriv::refcount
    status              \* "ok", "crash" (a null pointer is followed) or "loop"

rings == <<ready, wait, current>>
promises == <<waiters, promiseRefs, results>>
mutator == <<stack, frames, members, cells, rings, promises>>
handles == <<handle, refcount>>
collector == <<live, freed, status>>
vars == <<mutator, handles, collector>>

Init ==
    /\ live = {} /\ freed = {}
    /\ stack = [t \in Tasks |-> {}]
    /\ frames = [t \in Tasks |-> {}]
    /\ members = [o \in Objects |-> {}]
    /\ ready = {Main} /\ wait = {} /\ current = Main
    /\ waiters = << >>
    /\ promiseRefs = [p \in Promises |-> {}]
    /\ results = [p \in Promises |-> {}]
    /\ cells = [c \in Cells |-> None]
    /\ handle = None /\ refcount = 0
    /\ status = "ok"

-----------------------------------------------------------------------------
(* What the running task does with references. *)

(* A new instance goes to the data stack. *)
Allocate(o) ==
    /\ status = "ok"
    /\ o \notin live \cup freed
    /\ live' = live \cup {o}
    /\ stack' = [stack EXCEPT ![current] = @ \cup {o}]
    /\ UNCHANGED <<freed, status, frames, members, cells, rings, promises, handles>>

(* The last copy of a reference leaves the data stack. *)
Pop(o) ==
    /\ status = "ok"
    /\ o \in stack[current]
    /\ stack' = [stack EXCEPT ![current] = @ \ {o}]
    /\ UNCHANGED <<collector, frames, members, cells, rings, promises, handles>>

(* A store to an argument, local or lexical of the call frame, a load from there,
   and the return of the call. *)
Store(o) ==
    /\ status = "ok"
    /\ o \in stack[current]
    /\ stack' = [stack EXCEPT ![current] = @ \ {o}]
    /\ frames' = [frames EXCEPT ![current] = @ \cup {o}]
    /\ UNCHANGED <<collector, members, cells, rings, promises, handles>>

Load(o) ==
    /\ status = "ok"
    /\ o \in frames[current] \ stack[current]
    /\ stack' = [stack EXCEPT ![current] = @ \cup {o}]
    /\ UNCHANGED <<collector, frames, members, cells, rings, promises, handles>>

Leave(o) ==
    /\ status = "ok"
    /\ o \in frames[current]
    /\ frames' = [frames EXCEPT ![current] = @ \ {o}]
    /\ UNCHANGED <<collector, stack, members, cells, rings, promises, handles>>

(* The initializer of a cell has returned: the reference is stored in the cell and
   pushed.  The allocator had pushed an instance already. *)
InitCell(c, o) ==
    /\ status = "ok"
    /\ o \in stack[current]
    /\ cells' = [cells EXCEPT ![c] = o]
    /\ UNCHANGED <<collector, stack, frames, members, rings, promises, handles>>

(* A store to a static, of a reference or of another value. *)
StoreStatic(c) ==
    /\ status = "ok"
    /\ \E v \in stack[current] \cup {None} :
          /\ stack' = [stack EXCEPT ![current] = @ \ {v}]
          /\ cells' = [cells EXCEPT ![c] = v]
    /\ UNCHANGED <<collector, frames, members, rings, promises, handles>>

(* A load of a static, instance, enum, protocol or namespace that is there. *)
LoadCell(c) ==
    /\ status = "ok"
    /\ cells[c] # None
    /\ stack' = [stack EXCEPT ![current] = @ \cup {cells[c]}]
    /\ UNCHANGED <<collector, frames, members, cells, rings, promises, handles>>

(* A field of an instance is set: the instances a field refers to are marked
   with it. *)
SetField(o, m) ==
    /\ status = "ok"
    /\ {o, m} \subseteq stack[current]
    /\ members' = [members EXCEPT ![o] = {m}]
    /\ UNCHANGED <<collector, stack, frames, cells, rings, promises, handles>>

(* A promise is registered with references its operations need later. *)
RegisterPromise(p) ==
    /\ status = "ok"
    /\ \A i \in 1..Len(waiters) : waiters[i] # p
    /\ promiseRefs[p] = {} /\ results[p] = {}
    /\ \E o \in stack[current] :
          /\ promiseRefs' = [promiseRefs EXCEPT ![p] = {o}]
          /\ stack' = [stack EXCEPT ![current] = @ \ {o}]
    /\ waiters' = Append(waiters, p)
    /\ UNCHANGED <<collector, frames, members, cells, rings, results, handles>>

(* The event of a promise is delivered: its accept callback makes what its
   operations hold the result, and its waiter is destroyed. *)
CompletePromise(p) ==
    /\ status = "ok"
    /\ \E i \in 1..Len(waiters) :
          /\ waiters[i] = p
          /\ waiters' = SubSeq(waiters, 1, i - 1) \o SubSeq(waiters, i + 1, Len(waiters))
    /\ results' = [results EXCEPT ![p] = promiseRefs[p]]
    /\ promiseRefs' = [promiseRefs EXCEPT ![p] = {}]
    /\ UNCHANGED <<collector, stack, frames, members, cells, rings, handles>>

(* The result is read, any number of times, until the promise itself goes. *)
TakeResult(p) ==
    /\ status = "ok"
    /\ results[p] # {}
    /\ stack' = [stack EXCEPT ![current] = @ \cup results[p]]
    /\ UNCHANGED <<collector, frames, members, cells, rings, promises, handles>>

DropPromise(p) ==
    /\ status = "ok"
    /\ results[p] # {}
    /\ results' = [results EXCEPT ![p] = {}]
    /\ UNCHANGED <<collector, stack, frames, members, cells, rings, waiters, promiseRefs,
                   handles>>

(* The scheduler: a worker is created waiting, is resumed, and the running task
   is suspended or switched. *)
CreateTask(t) ==
    /\ status = "ok"
    /\ t \notin ready \cup wait
    /\ wait' = wait \cup {t}
    /\ UNCHANGED <<collector, stack, frames, members, cells, ready, current, promises, handles>>

ResumeTask(t) ==
    /\ status = "ok"
    /\ t \in wait
    /\ wait' = wait \ {t}
    /\ ready' = ready \cup {t}
    /\ UNCHANGED <<collector, stack, frames, members, cells, current, promises, handles>>

SwitchTask(t) ==
    /\ status = "ok"
    /\ t \in ready
    /\ current' = t
    /\ UNCHANGED <<collector, stack, frames, members, cells, ready, wait, promises, handles>>

SuspendFor(t) ==
    /\ status = "ok"
    /\ t \in ready \ {current}
    /\ ready' = ready \ {current}
    /\ wait' = wait \cup {current}
    /\ current' = t
    /\ UNCHANGED <<collector, stack, frames, members, cells, promises, handles>>

-----------------------------------------------------------------------------
(* Handles. *)

(* The first handle has null links.  The second is linked after the previous
   of the first, which is null, through prev->next. *)
CreateHandle(o) ==
    /\ status = "ok"
    /\ o \in stack[current]
    /\ IF handle = None
       THEN handle' = o /\ refcount' = 1 /\ UNCHANGED status
       ELSE status' = "crash" /\ UNCHANGED handles
    /\ UNCHANGED <<live, freed, mutator>>

(* The copy constructor of RefHandle. *)
IncrementHandle ==
    /\ status = "ok"
    /\ handle # None /\ refcount < MaxRefs
    /\ refcount' = refcount + 1
    /\ UNCHANGED <<handle, collector, mutator>>

(* The destructor of RefHandle. *)
DecrementHandle ==
    /\ status = "ok"
    /\ handle # None
    /\ refcount' = refcount - 1
    /\ handle' = IF refcount' = 0 THEN None ELSE handle
    /\ UNCHANGED <<collector, mutator>>

-----------------------------------------------------------------------------
(* The instances marked with the ones of S: BaseRef::setReachable marks the
   instances its fields refer to. *)
Marked(S) ==
    {o \in Objects : \A C \in SUBSET Objects :
        (S \subseteq C /\ \A x \in C : members[x] \subseteq C) => o \in C}

(* Neither setReachable nor clearReachable stops at an instance it has seen,
   and clearReachable is called on every instance. *)
MembersCyclic ==
    \E S \in SUBSET live \ {{}} : \A o \in S : members[o] \cap S # {}

(* The references that the collector takes from the waiter ring: it starts at
   the head and stops when the next waiter is the head again, before the last
   waiter is marked. *)
MarkedWaiters == {waiters[i] : i \in 1..(Len(waiters) - 1)}

\* Mutant: the tasks of the wait queue are not visited.
MarksOfReady ==
    Marked((UNION {stack[t] : t \in ready})
           \cup (UNION {promiseRefs[p] : p \in MarkedWaiters})
           \cup ({handle} \ {None}))

\* Mutant: every instance marks its members, reachable or not.
MarksOfAll ==
    Marked((UNION {stack[t] : t \in ready \cup wait})
           \cup (UNION {members[o] : o \in live})
           \cup (UNION {promiseRefs[p] : p \in MarkedWaiters})
           \cup ({handle} \ {None}))

\* Mutant: handles are not marked.
MarksWithoutHandles ==
    Marked((UNION {stack[t] : t \in ready \cup wait})
           \cup (UNION {promiseRefs[p] : p \in MarkedWaiters}))

(* The handles are marked by deleteUnreachable. *)
Marks ==
    Marked((UNION {stack[t] : t \in ready \cup wait})
           \cup (UNION {promiseRefs[p] : p \in MarkedWaiters})
           \cup ({handle} \ {None}))

(* The rings of tasks are walked until a null pointer: a ring of two or more
   has none. *)
WalkEnds == Cardinality(ready) < 2 /\ Cardinality(wait) < 2 /\ ~MembersCyclic

(* The references that the collector does not visit, but for those of the waiters
   in MarkedWaiters. *)
Unvisited ==
    (UNION {frames[t] : t \in Tasks})
    \cup ({cells[c] : c \in Cells} \ {None})
    \cup (UNION {promiseRefs[p] \cup results[p] : p \in Promises})

OnStacks == UNION {stack[t] : t \in Tasks}
Handled == {handle} \ {None}

(* The states in which a collection ends, and a data stack or a handle leads to
   whatever the places lead to that the collector passes over.  The code has no
   such condition, and nothing in the repository calls the collector: when it runs
   is up to the embedding program. *)
SafePoint ==
    /\ WalkEnds
    /\ Len(waiters) # 1
    /\ Unvisited \subseteq Marked(OnStacks \cup Handled)

(* With one waiter its next pointer is null, and is followed. *)
CollectGarbage ==
    /\ status = "ok"
    /\ AtSafePoints => SafePoint
    /\ CASE ~WalkEnds -> status' = "loop" /\ UNCHANGED <<live, freed>>
         [] WalkEnds /\ Len(waiters) = 1 -> status' = "crash" /\ UNCHANGED <<live, freed>>
         [] WalkEnds /\ Len(waiters) # 1 ->
              /\ live' = live \cap Marks
              /\ freed' = freed \cup (live \ Marks)
              /\ UNCHANGED status
    /\ UNCHANGED <<mutator, handles>>

Next ==
    \/ \E o \in Objects :
          Allocate(o) \/ Pop(o) \/ Store(o) \/ Load(o) \/ Leave(o) \/ CreateHandle(o)
    \/ \E o, m \in Objects : SetField(o, m)
    \/ \E c \in Cells : LoadCell(c) \/ \E o \in Objects : InitCell(c, o)
    \/ \E c \in Statics : StoreStatic(c)
    \/ \E p \in Promises :
          RegisterPromise(p) \/ CompletePromise(p) \/ TakeResult(p) \/ DropPromise(p)
    \/ \E t \in Tasks : CreateTask(t) \/ ResumeTask(t) \/ SwitchTask(t) \/ SuspendFor(t)
    \/ IncrementHandle \/ DecrementHandle
    \/ CollectGarbage

Spec == Init /\ [][Next]_vars

-----------------------------------------------------------------------------
(* The types, a part of NoDanglingReference. *)
TypeOK ==
    /\ live \subseteq Objects /\ freed \subseteq Objects
    /\ stack \in [Tasks -> SUBSET Objects]
    /\ frames \in [Tasks -> SUBSET Objects]
    /\ members \in [Objects -> SUBSET Objects]
    /\ ready \subseteq Tasks /\ wait \subseteq Tasks /\ current \in ready
    /\ ready \cap wait = {}
    /\ waiters \in Seq(Promises)
    /\ promiseRefs \in [Promises -> SUBSET Objects]
    /\ results \in [Promises -> SUBSET Objects]
    /\ cells \in [Cells -> Objects \cup {None}]
    /\ handle \in Objects \cup {None}
    /\ refcount \in 0..MaxRefs
    /\ status \in {"ok", "crash", "loop"}

(* The references a program can still follow. *)
Roots == OnStacks \cup Unvisited \cup Handled

(* No reference that a task, a cell of a segment, a promise or a handle holds, and
   no field of an instance that is still there, refers to a deleted instance, if the
   collector is called at safe points only. *)
NoDanglingReference ==
    /\ TypeOK
    /\ Roots \cap freed = {}
    /\ \A o \in live : members[o] \cap freed = {}

(* A collection at a safe point deletes all that cannot be reached any more, and
   nothing else. *)
CollectsAllGarbage == [][CollectGarbage /\ status' = "ok" => live' = Marked(Roots)]_vars

(* A collection never deletes an instance that has a handle, whatever else
   still refers to it and however often the handle was copied and destroyed. *)
HandleKeepsInstance == [][(handle \in live) => (handle \in live')]_vars

(* "delete all unreachable instances" (heap_manager.cpp:381), and no other: what a
   program can reach it keeps, whenever the collector is called. *)
DeletesUnreachable == [][live \cap Marked(Roots) \subseteq live']_vars
=============================================================================
