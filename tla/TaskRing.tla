------------------------------ MODULE TaskRing ------------------------------
(***************************************************************************)
(* The intrusive rings the scheduler keeps its tasks in                    *)
(* (lyric_runtime/src/task.cpp, attach and detach): the scheduler holds a  *)
(* head pointer per queue and each task one previous and one next pointer, *)
(* shared by the three queues.  A ring of one task has null pointers, a    *)
(* ring of more is circular.  detach leaves the pointers of the task it    *)
(* removes as they were.                                                   *)
(*                                                                         *)
(* attachWaiter and destroyWaiter of system_scheduler.cpp repeat the same  *)
(* statements for waiters: a queue of the model stands for that list too.  *)
(***************************************************************************)
EXTENDS Naturals, Sequences, FiniteSets

CONSTANTS
    Tasks,              \* the objects linked into the rings
    Main,               \* the main task, attached by the constructor
    Null                \* the null pointer

ASSUME TasksAssumption == IsFiniteSet(Tasks)
ASSUME MainAssumption == Main \in Tasks
ASSUME NullAssumption == Null \notin Tasks

VARIABLES
    head,               \* m_readyQueue, m_waitQueue, m_doneQueue
    prev,               \* m_prev of each task
    next,               \* m_next of each task
    where               \* the queue a task was last attached to, or "none"

vars == <<head, prev, next, where>>

Queues == {"ready", "wait", "done"}

Init ==
    /\ head = [q \in Queues |-> IF q = "wait" THEN Main ELSE Null]
    /\ prev = [t \in Tasks |-> Null]
    /\ next = [t \in Tasks |-> Null]
    /\ where = [t \in Tasks |-> IF t = Main THEN "wait" ELSE "none"]

-----------------------------------------------------------------------------
(* The pointers as one value, so that a detach and an attach compose. *)

Rings == [head |-> head, prev |-> prev, next |-> next]

\* Mutant: the third task of a ring becomes its head.
AttachAtHead(r, q, t) ==
    LET h == r.head[q]
        last == r.prev[h]
    IN  CASE h = Null ->
               [head |-> [r.head EXCEPT ![q] = t],
                prev |-> [r.prev EXCEPT ![t] = Null],
                next |-> [r.next EXCEPT ![t] = Null]]
          [] h # Null /\ last = Null /\ r.next[h] = Null ->
               [head |-> r.head,
                prev |-> [r.prev EXCEPT ![h] = t, ![t] = h],
                next |-> [r.next EXCEPT ![h] = t, ![t] = h]]
          [] OTHER ->
               [head |-> [r.head EXCEPT ![q] = t],
                prev |-> [r.prev EXCEPT ![t] = last, ![h] = t],
                next |-> [r.next EXCEPT ![t] = h, ![last] = t]]

Attach(r, q, t) ==
    LET h == r.head[q]
        last == r.prev[h]
    IN  CASE h = Null ->
               [head |-> [r.head EXCEPT ![q] = t],
                prev |-> [r.prev EXCEPT ![t] = Null],
                next |-> [r.next EXCEPT ![t] = Null]]
          [] h # Null /\ last = Null /\ r.next[h] = Null ->
               [head |-> r.head,
                prev |-> [r.prev EXCEPT ![h] = t, ![t] = h],
                next |-> [r.next EXCEPT ![h] = t, ![t] = h]]
          [] OTHER ->
               [head |-> r.head,
                prev |-> [r.prev EXCEPT ![t] = last, ![h] = t],
                next |-> [r.next EXCEPT ![t] = h, ![last] = t]]

\* Mutant: the last task of a ring of two keeps its pointers.
DetachFromPair(r, q, t) ==
    LET p == r.prev[t]
        n == r.next[t]
    IN  CASE p = Null \/ n = Null ->
               [r EXCEPT !.head[q] = IF @ = t THEN Null ELSE @]
          [] OTHER ->
               [head |-> [r.head EXCEPT ![q] = IF @ = t THEN n ELSE @],
                prev |-> [r.prev EXCEPT ![n] = p],
                next |-> [r.next EXCEPT ![p] = n]]

Detach(r, q, t) ==
    LET p == r.prev[t]
        n == r.next[t]
    IN  CASE p = Null \/ n = Null ->
               [r EXCEPT !.head[q] = IF @ = t THEN Null ELSE @]
          [] p # Null /\ p = n ->
               [head |-> [r.head EXCEPT ![q] = IF @ = t THEN n ELSE @],
                prev |-> [r.prev EXCEPT ![n] = Null],
                next |-> [r.next EXCEPT ![n] = Null]]
          [] OTHER ->
               [head |-> [r.head EXCEPT ![q] = IF @ = t THEN n ELSE @],
                prev |-> [r.prev EXCEPT ![n] = p],
                next |-> [r.next EXCEPT ![p] = n]]

Become(r) == head' = r.head /\ prev' = r.prev /\ next' = r.next

-----------------------------------------------------------------------------
(* The moves the scheduler makes between the queues. *)

Create(t) ==
    /\ t # Main
    /\ where[t] = "none"
    /\ Become(Attach(Rings, "wait", t))
    /\ where' = [where EXCEPT ![t] = "wait"]

Move(t, from, to) ==
    /\ where[t] = from
    /\ Become(Attach(Detach(Rings, from, t), to, t))
    /\ where' = [where EXCEPT ![t] = to]

Suspend(t) == Move(t, "ready", "wait")
Resume(t) == Move(t, "wait", "ready")
Terminate(t) == \E from \in {"ready", "wait"} : Move(t, from, "done")

(* The task is deleted.  Its slot of the model may be allocated again, with
   null pointers as the constructor sets them. *)
Destroy(t) ==
    /\ where[t] = "done"
    /\ LET r == Detach(Rings, "done", t)
       IN  Become([r EXCEPT !.prev[t] = Null, !.next[t] = Null])
    /\ where' = [where EXCEPT ![t] = "none"]

Next ==
    \E t \in Tasks :
        Create(t) \/ Suspend(t) \/ Resume(t) \/ Terminate(t) \/ Destroy(t)

Spec == Init /\ [][Next]_vars

-----------------------------------------------------------------------------
InQueue(q) == {t \in Tasks : where[t] = q}

(* The pointers of r describe the queue q with the tasks of s in this order. *)
IsRing(r, q, s) ==
    LET n == Len(s) IN
    /\ n = 0 => r.head[q] = Null
    /\ n > 0 => r.head[q] = s[1]
    /\ n = 1 => r.prev[s[1]] = Null /\ r.next[s[1]] = Null
    /\ n > 1 =>
          /\ r.next[s[n]] = s[1]
          /\ r.prev[s[1]] = s[n]
          /\ \A i \in 1..(n - 1) :
                r.next[s[i]] = s[i + 1] /\ r.prev[s[i + 1]] = s[i]

Injective(s) == \A i, j \in 1..Len(s) : s[i] = s[j] => i = j

(* The sequences of tasks without repetition a queue can hold. *)
Orders == {s \in UNION {[1..n -> Tasks] : n \in 0..Cardinality(Tasks)} : Injective(s)}

(* The types, a part of RingsHoldTheirTasks. *)
TypeOK ==
    /\ head \in [Queues -> Tasks \cup {Null}]
    /\ prev \in [Tasks -> Tasks \cup {Null}]
    /\ next \in [Tasks -> Tasks \cup {Null}]
    /\ where \in [Tasks -> Queues \cup {"none"}]

(* No task is ever lost from a ring or linked into two: following the
   pointers of each queue from its head visits exactly the tasks that were
   attached to it and not detached since, each once, forwards and backwards.
   The stale pointers a detached task keeps must never be followed. *)
RingsHoldTheirTasks ==
    /\ TypeOK
    /\ \A q \in Queues :
          \E s \in Orders :
              /\ {s[i] : i \in 1..Len(s)} = InQueue(q)
              /\ IsRing(Rings, q, s)

(* The order the pointers of a queue give: its tasks from the head on. *)
Order(q) == CHOOSE s \in Orders :
    {s[i] : i \in 1..Len(s)} = InQueue(q) /\ IsRing(Rings, q, s)

(* The rings implement the queues of TaskQueues. *)
Abstract == INSTANCE TaskQueues WITH queue <- [q \in Queues |-> Order(q)]
RefinesTaskQueues == Abstract!Spec
=============================================================================
