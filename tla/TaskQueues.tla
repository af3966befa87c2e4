----------------------------- MODULE TaskQueues -----------------------------
(***************************************************************************)
(* What the system scheduler promises about its three task queues          *)
(* (lyric_runtime/src/system_scheduler.cpp): a live task is in exactly one *)
(* of them, a task that changes queue goes to the end of the new one, and  *)
(* the tasks it leaves behind keep their order.  TaskRing shows that the   *)
(* linked rings of task.cpp implement this, SystemScheduler that the       *)
(* scheduler uses it as specified here.                                    *)
(***************************************************************************)
EXTENDS Naturals, Sequences

CONSTANTS
    Tasks,
    Main                \* the main task, which waits from the start

VARIABLE queue          \* queue[q] is the tasks of q, the head of the ring first

Queues == {"ready", "wait", "done"}

Members(s) == {s[i] : i \in 1..Len(s)}

(* s without its entry x: the order of the other entries is kept. *)
Without(s, x) ==
    LET k == CHOOSE i \in 1..Len(s) : s[i] = x
    IN  [i \in 1..(Len(s) - 1) |-> IF i < k THEN s[i] ELSE s[i + 1]]

Queued(t) == \E q \in Queues : t \in Members(queue[q])

Init == queue = [q \in Queues |-> IF q = "wait" THEN << Main >> ELSE << >>]

(* A new task goes to the end of the wait queue. *)
Create(t) ==
    /\ ~Queued(t)
    /\ queue' = [queue EXCEPT !["wait"] = Append(@, t)]

(* A task leaves one queue for the end of another. *)
Move(t, from, to) ==
    /\ from # to
    /\ t \in Members(queue[from])
    /\ queue' = [queue EXCEPT ![from] = Without(@, t), ![to] = Append(@, t)]

Suspend(t) == Move(t, "ready", "wait")
Resume(t) == Move(t, "wait", "ready")
Terminate(t) == Move(t, "ready", "done") \/ Move(t, "wait", "done")

(* A worker that is created and made ready in one step of its parent. *)
Start(t) ==
    /\ ~Queued(t)
    /\ queue' = [queue EXCEPT !["ready"] = Append(@, t)]

Destroy(t) ==
    /\ t \in Members(queue["done"])
    /\ queue' = [queue EXCEPT !["done"] = Without(@, t)]

Next ==
    \E t \in Tasks :
        Create(t) \/ Suspend(t) \/ Resume(t) \/ Terminate(t) \/ Start(t) \/ Destroy(t)

Spec == Init /\ [][Next]_queue
=============================================================================
