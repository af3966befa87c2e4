------------------------- MODULE HeapManagerProofs -------------------------
(***************************************************************************)
(* Proofs about HeapManager, for any number of instances, tasks and        *)
(* promises: a handle always protects its instance, and a program that     *)
(* collects at safe points only never follows a reference to a deleted     *)
(* instance, while every collection deletes all there is to delete.        *)
(*                                                                         *)
(* The argument: outside of a collection all references lead to instances  *)
(* of the heap, those in cells and results too; marking yields the least   *)
(* set that is closed under the members; at a safe point that set has all  *)
(* that any reference leads to, though the collector visits not all of     *)
(* them; so the heap after the collection is closed again.                 *)
(***************************************************************************)
EXTENDS HeapManager, SequenceTheorems, TLAPS

\* A handle is counted as long as it exists.
HandleCounted == handle = None <=> refcount = 0

TypeInv == TypeOK /\ HandleCounted

\* Every reference leads to an instance of the heap, and an instance is deleted
\* once: nothing is both in the heap and deleted.
Closed ==
    /\ Roots \subseteq live
    /\ \A o \in Objects : members[o] # {} => o \in live \cup freed
    /\ \A o \in live : members[o] \subseteq live
    /\ live \cap freed = {}

\* A task with references is in a ring of tasks.
Owners == \A t \in Tasks \ (ready \cup wait) : stack[t] = {}

HeapInv == TypeInv /\ Closed /\ Owners

-----------------------------------------------------------------------------
(* Marking.                                                                *)

\* Marked(S) contains S, is closed under the members, and is within every
\* closed set that contains S.
LEMMA MarkedIsLeastClosed ==
    ASSUME TypeOK, NEW S \in SUBSET Objects
    PROVE  /\ S \subseteq Marked(S)
           /\ \A o \in Marked(S) : members[o] \subseteq Marked(S)
           /\ \A C \in SUBSET Objects :
                 S \subseteq C /\ (\A x \in C : members[x] \subseteq C) => Marked(S) \subseteq C
  BY DEF Marked, TypeOK

LEMMA SequenceWithout ==
    ASSUME NEW S, NEW s \in Seq(S), NEW i \in 1..Len(s)
    PROVE  SubSeq(s, 1, i - 1) \o SubSeq(s, i + 1, Len(s)) \in Seq(S)
<1>1. SubSeq(s, 1, i - 1) \in Seq(S) /\ SubSeq(s, i + 1, Len(s)) \in Seq(S)
  OBVIOUS
<1> QED  BY <1>1, ConcatProperties

-----------------------------------------------------------------------------
(* The types.                                                              *)

\* The collector changes nothing but what it deletes and how it ends.
LEMMA CollectTypes == TypeInv /\ CollectGarbage => TypeInv'
<1> SUFFICES ASSUME TypeInv, CollectGarbage PROVE TypeInv'
  OBVIOUS
<1>1. UNCHANGED <<mutator, handles>>
  BY DEF CollectGarbage
<1>2. status' \in {"ok", "crash", "loop"} /\ live' \subseteq live /\ freed' \subseteq freed \cup live
  BY DEF CollectGarbage, TypeInv, TypeOK
<1> QED  BY <1>1, <1>2 DEF TypeInv, TypeOK, HandleCounted, mutator, rings, promises, handles

LEMMA TypesPreserved == TypeInv /\ [Next]_vars => TypeInv'
<1> SUFFICES ASSUME TypeInv, [Next]_vars PROVE TypeInv'
  OBVIOUS
<1> USE DEF TypeInv, TypeOK, HandleCounted
<1>1. CASE UNCHANGED vars
  BY <1>1 DEF vars, mutator, rings, promises, handles, collector
<1>2. ASSUME NEW o \in Objects, Allocate(o) \/ Pop(o) \/ Store(o) \/ Load(o) \/ Leave(o)
      PROVE  TypeInv'
  BY <1>2 DEF Allocate, Pop, Store, Load, Leave, rings, promises, handles, collector
<1>3. ASSUME NEW o \in Objects, CreateHandle(o) PROVE TypeInv'
  BY <1>3, ObjectsAssumption, BoundsAssumption DEF CreateHandle, mutator, rings, promises, handles
<1>4. ASSUME NEW o \in Objects, NEW m \in Objects, SetField(o, m) PROVE TypeInv'
  BY <1>4 DEF SetField, rings, promises, handles, collector
<1>5. ASSUME NEW p \in Promises, RegisterPromise(p) PROVE TypeInv'
  <2>1. PICK o \in stack[current] :
            /\ promiseRefs' = [promiseRefs EXCEPT ![p] = {o}]
            /\ stack' = [stack EXCEPT ![current] = @ \ {o}]
    BY <1>5 DEF RegisterPromise
  <2>2. o \in Objects
    BY <2>1
  <2> QED  BY <1>5, <2>1, <2>2 DEF RegisterPromise, rings, handles, collector
<1>6. ASSUME NEW p \in Promises, CompletePromise(p) PROVE TypeInv'
  <2>1. waiters' \in Seq(Promises)
    BY <1>6, SequenceWithout DEF CompletePromise
  <2> QED  BY <1>6, <2>1 DEF CompletePromise, rings, handles, collector
<1>7. ASSUME NEW t \in Tasks,
             CreateTask(t) \/ ResumeTask(t) \/ SwitchTask(t) \/ SuspendFor(t)
      PROVE  TypeInv'
  BY <1>7 DEF CreateTask, ResumeTask, SwitchTask, SuspendFor, promises, handles, collector
<1>8. CASE IncrementHandle \/ DecrementHandle
  BY <1>8, BoundsAssumption, ObjectsAssumption
     DEF IncrementHandle, DecrementHandle, mutator, rings, promises, collector
<1>9. CASE CollectGarbage
  BY <1>9, CollectTypes
<1>10. ASSUME NEW c \in Cells, LoadCell(c) \/ StoreStatic(c) PROVE TypeInv'
  <2>1. cells[c] # None => cells[c] \in Objects
    OBVIOUS
  <2> QED  BY <1>10, <2>1 DEF LoadCell, StoreStatic, rings, promises, handles, collector
<1>11. ASSUME NEW c \in Cells, NEW o \in Objects, InitCell(c, o) PROVE TypeInv'
  BY <1>11 DEF InitCell, rings, promises, handles, collector
<1>12. ASSUME NEW p \in Promises, TakeResult(p) \/ DropPromise(p) PROVE TypeInv'
  BY <1>12 DEF TakeResult, DropPromise, rings, promises, handles, collector
<1>13. Statics \subseteq Cells
  BY DEF Cells
<1> QED  BY <1>1, <1>2, <1>3, <1>4, <1>5, <1>6, <1>7, <1>8, <1>9, <1>10, <1>11, <1>12, <1>13
         DEF Next

LEMMA TypesInit == Init => TypeInv
<1> SUFFICES ASSUME Init PROVE TypeInv
  OBVIOUS
<1> QED  BY TasksAssumption, BoundsAssumption DEF Init, TypeInv, TypeOK, HandleCounted

LEMMA TypesHold == Spec => []TypeInv
  BY TypesInit, TypesPreserved, PTL DEF Spec

\* A collection, at a safe point or not, never deletes an instance that has a
\* handle, which RefHandle relies on (ref_handle.cpp, deleteUnreachable).
THEOREM HandlesProtect == Spec => HandleKeepsInstance
<1>1. TypeInv /\ [Next]_vars => (handle \in live => handle \in live')
  <2> SUFFICES ASSUME TypeInv, [Next]_vars, handle \in live PROVE handle \in live'
    OBVIOUS
  <2>1. handle \in Objects /\ handle # None
    BY ObjectsAssumption DEF TypeInv, TypeOK
  <2>2. handle \in Marks
    <3> DEFINE S == (UNION {stack[t] : t \in ready \cup wait})
                    \cup (UNION {promiseRefs[p] : p \in MarkedWaiters})
                    \cup ({handle} \ {None})
    <3>1. handle \in S /\ Marks = Marked(S)
      BY <2>1 DEF Marks
    <3> HIDE DEF S
    <3> QED  BY <2>1, <3>1 DEF Marked
  <2>3. CASE live \subseteq live'
    BY <2>3
  <2>4. CASE CollectGarbage
    BY <2>2, <2>4 DEF CollectGarbage
  <2>5. ~CollectGarbage => live \subseteq live'
    BY DEF Next, vars, collector, Allocate, Pop, Store, Load, Leave, CreateHandle, SetField,
           InitCell, StoreStatic, LoadCell, RegisterPromise, CompletePromise, TakeResult,
           DropPromise, CreateTask, ResumeTask, SwitchTask, SuspendFor, IncrementHandle,
           DecrementHandle
  <2> QED  BY <2>3, <2>4, <2>5
<1> QED  BY <1>1, TypesHold, PTL DEF Spec, HandleKeepsInstance

-----------------------------------------------------------------------------
(* Safe points.                                                            *)

\* At a safe point what the collector marks is exactly what the references lead
\* to, those included that it does not visit.
LEMMA SafeMarks ==
    ASSUME HeapInv, SafePoint
    PROVE  Marks = Marked(Roots) /\ Marked(Roots) \subseteq live
<1> DEFINE Visited == (UNION {stack[t] : t \in ready \cup wait})
                      \cup (UNION {promiseRefs[p] : p \in MarkedWaiters})
                      \cup Handled
           Safe == OnStacks \cup Handled
<1>1. TypeOK
  BY DEF HeapInv, TypeInv
<1>2. Marks = Marked(Visited)
  BY DEF Marks, Handled
<1>3. OnStacks = UNION {stack[t] : t \in ready \cup wait}
  BY <1>1 DEF OnStacks, HeapInv, Owners, TypeOK
<1>4. Safe \subseteq Visited
  BY <1>3
<1>5. MarkedWaiters \subseteq Promises
  <2>1. waiters \in Seq(Promises) /\ Len(waiters) \in Nat
    BY <1>1 DEF TypeOK
  <2>2. \A i \in 1..(Len(waiters) - 1) : waiters[i] \in Promises
    BY <2>1
  <2> QED  BY <2>2 DEF MarkedWaiters
<1>6. Visited \subseteq Roots
  BY <1>3, <1>5 DEF Roots, Unvisited
<1>7. Roots \subseteq live /\ live \in SUBSET Objects /\ \A o \in live : members[o] \subseteq live
  BY <1>1 DEF HeapInv, Closed, TypeOK
<1>8. Safe \in SUBSET Objects /\ Visited \in SUBSET Objects /\ Roots \in SUBSET Objects
  BY <1>4, <1>6, <1>7
<1> HIDE DEF Visited, Safe
<1>9. Marked(Safe) \subseteq Marked(Visited)
  <2>1. Marked(Visited) \in SUBSET Objects
    BY DEF Marked
  <2> QED  BY <1>1, <1>4, <1>8, <2>1, MarkedIsLeastClosed
<1>10. Roots \subseteq Marked(Visited)
  <2>1. Unvisited \subseteq Marked(Safe)
    BY DEF SafePoint, Safe
  <2>2. OnStacks \cup Handled \subseteq Visited
    BY <1>4 DEF Safe
  <2>3. Visited \subseteq Marked(Visited)
    BY <1>1, <1>8, MarkedIsLeastClosed
  <2> QED  BY <1>9, <2>1, <2>2, <2>3 DEF Roots
<1>11. Marked(Roots) \subseteq Marked(Visited)
  <2>1. Marked(Visited) \in SUBSET Objects
    BY DEF Marked
  <2> QED  BY <1>1, <1>8, <1>10, <2>1, MarkedIsLeastClosed
<1>12. Marked(Visited) \subseteq Marked(Roots)
  <2>1. Marked(Roots) \in SUBSET Objects
    BY DEF Marked
  <2> QED  BY <1>1, <1>6, <1>8, <2>1, MarkedIsLeastClosed
<1>13. Marked(Roots) \subseteq live
  BY <1>1, <1>7, <1>8, MarkedIsLeastClosed
<1> QED  BY <1>2, <1>11, <1>12, <1>13

\* With a safe point before every collection, what is kept is closed again, and
\* nothing that is still referred to is deleted.
LEMMA CollectKeeps ==
    ASSUME HeapInv, CollectGarbage, AtSafePoints = TRUE
    PROVE  /\ Closed' /\ Owners'
           /\ status' = "ok" => live' = Marked(Roots)
<1>1. SafePoint /\ WalkEnds
  BY DEF CollectGarbage, SafePoint
<1>2. UNCHANGED <<mutator, handles>> /\ Roots' = Roots /\ Owners'
  BY DEF CollectGarbage, mutator, rings, promises, handles, Roots, OnStacks, Unvisited,
         Handled, HeapInv, Owners
<1>3. live' = Marked(Roots) /\ freed' = freed \cup (live \ Marked(Roots))
  <2>1. Marks = Marked(Roots) /\ Marked(Roots) \subseteq live
    BY <1>1, SafeMarks
  <2>2. live' = live \cap Marks /\ freed' = freed \cup (live \ Marks)
    BY <1>1 DEF CollectGarbage, SafePoint
  <2> QED  BY <2>1, <2>2
<1>4. Roots \subseteq Objects
  BY DEF HeapInv, Closed, TypeInv, TypeOK
<1>5. Roots \subseteq Marked(Roots) /\ (\A o \in Marked(Roots) : members[o] \subseteq Marked(Roots))
  BY <1>4, MarkedIsLeastClosed DEF HeapInv, TypeInv
<1>6. Marked(Roots) \subseteq live
  BY <1>1, SafeMarks
<1>7. members' = members
  BY <1>2 DEF mutator
<1>8. Closed'
  BY <1>2, <1>3, <1>5, <1>6, <1>7 DEF Closed, HeapInv
<1> QED  BY <1>2, <1>3, <1>8

\* What the program does by itself moves references from one holder to another,
\* or drops them.
LEMMA MutatorKeepsClosed ==
    ASSUME HeapInv, UNCHANGED <<live, freed, members>>, Roots' \subseteq Roots
    PROVE  Closed'
  BY DEF HeapInv, Closed

LEMMA AllocateStep ==
    ASSUME HeapInv, NEW o \in Objects, Allocate(o)
    PROVE  Closed' /\ Owners'
<1>1. current \in ready /\ current \in Tasks /\ stack \in [Tasks -> SUBSET Objects]
  BY DEF HeapInv, TypeInv, TypeOK
<1>2. /\ o \notin live \cup freed /\ live' = live \cup {o} /\ freed' = freed
      /\ stack' = [stack EXCEPT ![current] = @ \cup {o}]
      /\ UNCHANGED <<frames, members, cells, ready, wait, promiseRefs, results, handle>>
  BY DEF Allocate, rings, promises, handles
<1>3. Unvisited' = Unvisited /\ Handled' = Handled
  BY <1>2 DEF Unvisited, Handled
<1>4. OnStacks' \subseteq OnStacks \cup {o}
  BY <1>1, <1>2 DEF OnStacks
<1>5. Roots' \subseteq Roots \cup {o}
  BY <1>3, <1>4 DEF Roots
<1>6. members[o] = {}
  BY <1>2 DEF HeapInv, Closed
<1> QED  BY <1>1, <1>2, <1>5, <1>6 DEF HeapInv, Closed, Owners

\* The running task moves references between its stack, its frames and the cells.
LEMMA StackSteps ==
    ASSUME HeapInv,
           \/ \E o \in Objects : Pop(o) \/ Store(o) \/ Load(o) \/ Leave(o)
           \/ \E c \in Cells : LoadCell(c) \/ StoreStatic(c) \/ \E o \in Objects : InitCell(c, o)
    PROVE  Closed' /\ Owners'
<1> DEFINE Held == stack[current] \cup frames[current] \cup ({cells[c] : c \in Cells} \ {None})
           NowHeld == stack'[current] \cup frames'[current] \cup ({cells'[c] : c \in Cells} \ {None})
<1>1. /\ current \in ready /\ current \in Tasks
      /\ stack \in [Tasks -> SUBSET Objects] /\ frames \in [Tasks -> SUBSET Objects]
      /\ cells \in [Cells -> Objects \cup {None}]
  BY DEF HeapInv, TypeInv, TypeOK
<1>2. UNCHANGED <<live, freed, members, ready, wait, current, promiseRefs, results, handle>>
  BY DEF Pop, Store, Load, Leave, LoadCell, StoreStatic, InitCell, collector, rings, promises,
         handles
<1>3. \A t \in Tasks \ {current} : stack'[t] = stack[t] /\ frames'[t] = frames[t]
  BY <1>1 DEF Pop, Store, Load, Leave, LoadCell, StoreStatic, InitCell
<1>4. NowHeld \subseteq Held
  <2>1. ASSUME NEW o \in Objects, Pop(o) \/ Store(o) \/ Load(o) \/ Leave(o)
        PROVE  NowHeld \subseteq Held
    BY <1>1, <2>1 DEF Pop, Store, Load, Leave
  <2>2. ASSUME NEW c \in Cells, LoadCell(c) PROVE NowHeld \subseteq Held
    BY <1>1, <2>2 DEF LoadCell
  <2>3. ASSUME NEW c \in Cells, StoreStatic(c) PROVE NowHeld \subseteq Held
    BY <1>1, <2>3 DEF StoreStatic
  <2>4. ASSUME NEW c \in Cells, NEW o \in Objects, InitCell(c, o) PROVE NowHeld \subseteq Held
    BY <1>1, <2>4 DEF InitCell
  <2> QED  BY <2>1, <2>2, <2>3, <2>4
<1>5. Roots' \subseteq Roots
  <2>1. Held \subseteq Roots
    BY <1>1 DEF Roots, OnStacks, Unvisited
  <2>2. OnStacks' \subseteq Roots /\ (UNION {frames'[t] : t \in Tasks}) \subseteq Roots
        /\ ({cells'[c] : c \in Cells} \ {None}) \subseteq Roots
    <3>1. NowHeld \subseteq Roots
      BY <1>4, <2>1
    <3>2. \A t \in Tasks \ {current} : stack'[t] \subseteq Roots /\ frames'[t] \subseteq Roots
      BY <1>3 DEF Roots, OnStacks, Unvisited
    <3>3. \A t \in Tasks : stack'[t] \subseteq Roots /\ frames'[t] \subseteq Roots
      BY <3>1, <3>2
    <3> QED  BY <1>2, <3>1, <3>3 DEF OnStacks
  <2>3. Handled' = Handled /\ UNCHANGED <<promiseRefs, results>>
    BY <1>2 DEF Handled
  <2> QED  BY <2>2, <2>3 DEF Roots, Unvisited
<1>6. Owners'
  BY <1>1, <1>2, <1>3 DEF HeapInv, Owners
<1> QED  BY <1>2, <1>5, <1>6, MutatorKeepsClosed

LEMMA FieldSteps ==
    ASSUME HeapInv, NEW o \in Objects, NEW m \in Objects, SetField(o, m)
    PROVE  Closed' /\ Owners'
<1>1. /\ UNCHANGED <<live, freed, stack, frames, cells, ready, wait, promiseRefs, results, handle>>
      /\ {o, m} \subseteq stack[current]
  BY DEF SetField, collector, rings, promises, handles
<1>2. \A x \in Objects : members'[x] = IF x = o THEN {m} ELSE members[x]
  BY DEF SetField, HeapInv, TypeInv, TypeOK
<1>3. Roots' = Roots /\ Owners'
  BY <1>1 DEF Roots, OnStacks, Unvisited, Handled, Owners, HeapInv
<1>4. {o, m} \subseteq live
  BY <1>1 DEF HeapInv, Closed, Roots, OnStacks, TypeInv, TypeOK
<1>5. Closed'
  BY <1>1, <1>2, <1>3, <1>4 DEF Closed, HeapInv, TypeInv, TypeOK
<1> QED  BY <1>3, <1>5

LEMMA PromiseSteps ==
    ASSUME HeapInv, NEW p \in Promises,
           RegisterPromise(p) \/ CompletePromise(p) \/ TakeResult(p) \/ DropPromise(p)
    PROVE  Closed' /\ Owners'
<1>1. /\ current \in ready /\ current \in Tasks /\ stack \in [Tasks -> SUBSET Objects]
      /\ promiseRefs \in [Promises -> SUBSET Objects] /\ results \in [Promises -> SUBSET Objects]
  BY DEF HeapInv, TypeInv, TypeOK
<1>2. UNCHANGED <<live, freed, members, frames, cells, ready, wait, current, handle>>
  BY DEF RegisterPromise, CompletePromise, TakeResult, DropPromise, collector, rings, handles
<1>3. \A t \in Tasks \ {current} : stack'[t] = stack[t]
  BY <1>1 DEF RegisterPromise, CompletePromise, TakeResult, DropPromise
<1>4. \A q \in Promises \ {p} : promiseRefs'[q] = promiseRefs[q] /\ results'[q] = results[q]
  BY <1>1 DEF RegisterPromise, CompletePromise, TakeResult, DropPromise, promises
<1>5. stack'[current] \cup promiseRefs'[p] \cup results'[p]
          \subseteq stack[current] \cup promiseRefs[p] \cup results[p]
  <2>1. CASE RegisterPromise(p)
    BY <1>1, <2>1 DEF RegisterPromise
  <2>2. CASE CompletePromise(p)
    BY <1>1, <2>2 DEF CompletePromise
  <2>3. CASE TakeResult(p)
    BY <1>1, <2>3 DEF TakeResult, promises
  <2>4. CASE DropPromise(p)
    BY <1>1, <2>4 DEF DropPromise
  <2> QED  BY <2>1, <2>2, <2>3, <2>4
<1>6. Roots' \subseteq Roots
  <2>1. stack[current] \cup promiseRefs[p] \cup results[p] \subseteq Roots
    BY <1>1 DEF Roots, OnStacks, Unvisited
  <2>2. \A t \in Tasks : stack'[t] \subseteq Roots
    BY <1>3, <1>5, <2>1 DEF Roots, OnStacks
  <2>3. \A q \in Promises : promiseRefs'[q] \cup results'[q] \subseteq Roots
    BY <1>4, <1>5, <2>1 DEF Roots, Unvisited
  <2>4. Handled' = Handled /\ UNCHANGED <<frames, cells>>
    BY <1>2 DEF Handled
  <2> QED  BY <2>2, <2>3, <2>4 DEF Roots, OnStacks, Unvisited
<1>7. Owners'
  BY <1>1, <1>2, <1>3 DEF HeapInv, Owners
<1> QED  BY <1>2, <1>6, <1>7, MutatorKeepsClosed

LEMMA SchedulerSteps ==
    ASSUME HeapInv, NEW t \in Tasks,
           CreateTask(t) \/ ResumeTask(t) \/ SwitchTask(t) \/ SuspendFor(t)
    PROVE  Closed' /\ Owners'
<1>1. UNCHANGED <<live, freed, members, stack, frames, cells, promiseRefs, results, handle>>
  BY DEF CreateTask, ResumeTask, SwitchTask, SuspendFor, collector, promises, handles
<1>2. ready \cup wait \subseteq ready' \cup wait'
  BY DEF CreateTask, ResumeTask, SwitchTask, SuspendFor
<1>3. Owners'
  BY <1>1, <1>2 DEF HeapInv, Owners
<1>4. Roots' = Roots
  BY <1>1 DEF Roots, OnStacks, Unvisited, Handled
<1> QED  BY <1>1, <1>3, <1>4, MutatorKeepsClosed

LEMMA HandleSteps ==
    ASSUME HeapInv, (\E o \in Objects : CreateHandle(o)) \/ IncrementHandle \/ DecrementHandle
    PROVE  Closed' /\ Owners'
<1>1. UNCHANGED <<live, freed>> /\ UNCHANGED mutator
  BY DEF CreateHandle, IncrementHandle, DecrementHandle, collector
<1>2. Owners' /\ UNCHANGED <<members, stack, frames, cells, promiseRefs, results>>
  BY <1>1 DEF mutator, rings, promises, Owners, HeapInv
<1>3. handle' \in Roots \cup {None}
  <2>1. ASSUME NEW o \in Objects, CreateHandle(o) PROVE handle' \in Roots \cup {None}
    <3>1. (handle' = handle \/ handle' = o) /\ o \in stack[current]
      BY <2>1 DEF CreateHandle, handles
    <3>2. current \in Tasks
      BY DEF HeapInv, TypeInv, TypeOK
    <3> QED  BY <3>1, <3>2 DEF Roots, OnStacks, Handled
  <2>2. CASE IncrementHandle \/ DecrementHandle
    <3>1. handle' = handle \/ handle' = None
      BY <2>2 DEF IncrementHandle, DecrementHandle
    <3> QED  BY <3>1 DEF Roots, Handled
  <2> QED  BY <2>1, <2>2
<1>4. Roots' \subseteq Roots
  BY <1>2, <1>3 DEF Roots, OnStacks, Unvisited, Handled
<1> QED  BY <1>1, <1>2, <1>4, MutatorKeepsClosed

LEMMA HeapPreserved ==
    ASSUME AtSafePoints = TRUE
    PROVE  HeapInv /\ [Next]_vars => HeapInv'
<1> SUFFICES ASSUME HeapInv, [Next]_vars PROVE HeapInv'
  OBVIOUS
<1>1. TypeInv'
  BY TypesPreserved DEF HeapInv
<1>2. Closed' /\ Owners'
  <2>1. CASE UNCHANGED vars
    BY <2>1 DEF vars, mutator, rings, promises, handles, collector, HeapInv, Closed, Owners,
                Roots, OnStacks, Unvisited, Handled
  <2>2. CASE Next
    <3>1. Statics \subseteq Cells
      BY DEF Cells
    <3> QED  BY <2>2, <3>1, AllocateStep, StackSteps, FieldSteps, PromiseSteps, SchedulerSteps,
                HandleSteps, CollectKeeps DEF Next
  <2> QED  BY <2>1, <2>2
<1> QED  BY <1>1, <1>2 DEF HeapInv

LEMMA HeapInit == Init => HeapInv
<1> SUFFICES ASSUME Init PROVE HeapInv
  OBVIOUS
<1>1. Roots = {}
  BY DEF Init, Roots, OnStacks, Unvisited, Handled
<1>2. Closed /\ Owners
  BY <1>1 DEF Init, Closed, Owners
<1> QED  BY <1>2, TypesInit DEF HeapInv

LEMMA HeapHolds == ASSUME AtSafePoints = TRUE PROVE Spec => []HeapInv
<1>1. HeapInv /\ [Next]_vars => HeapInv'
  BY HeapPreserved
<1> QED  BY <1>1, HeapInit, PTL DEF Spec

\* If what frames, cells of segments, results and promises refer to is reached from
\* a data stack or a handle too whenever collectGarbage is called, no task, cell,
\* promise, handle or field ever refers to an instance that it has deleted
\* (heap_manager.cpp, gc_heap.cpp).  HeapRoots shows that it needs that condition.
THEOREM NoReferenceDangles == ASSUME AtSafePoints = TRUE PROVE Spec => []NoDanglingReference
<1>1. HeapInv => NoDanglingReference
  <2> SUFFICES ASSUME HeapInv PROVE NoDanglingReference
    OBVIOUS
  <2>1. TypeOK /\ Closed
    BY DEF HeapInv, TypeInv
  <2>2. Roots \cap freed = {}
    BY <2>1 DEF Closed
  <2>3. \A o \in live : members[o] \cap freed = {}
    BY <2>1 DEF Closed
  <2> QED  BY <2>1, <2>2, <2>3 DEF NoDanglingReference
<1> QED  BY <1>1, HeapHolds, PTL

\* At such a point a collection keeps exactly what the program can still reach,
\* through the places the collector does not visit too (deleteUnreachable).
THEOREM CollectionIsExact == ASSUME AtSafePoints = TRUE PROVE Spec => CollectsAllGarbage
<1>1. HeapInv /\ [Next]_vars => (CollectGarbage /\ status' = "ok" => live' = Marked(Roots))
  BY CollectKeeps
<1> QED  BY <1>1, HeapHolds, PTL DEF Spec, CollectsAllGarbage
=============================================================================
