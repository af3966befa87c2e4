-------------------------- MODULE MCSystemScheduler --------------------------
(* One worker, and a few promises with several event sources each.  The accept
   callbacks finish their promise, as those of the repository do; the default one,
   which does nothing, leaves a promise with a dangling waiter. *)
EXTENDS SystemScheduler, TLC

CONSTANTS main, w, a, b, job, x

(* A thread's signal or a timer, a file request or a target that one promise
   resolves, a worker, and a target that waits for all or for one. *)
CrewMayBe ==
    a :> {"async", "timer"} @@ b :> {"read", "write", "allOf"} @@
    job :> {"worker"} @@ x :> {"allOf", "anyOf"}
CrewAccepts ==
    a :> {"Completed", "Rejected"} @@ b :> {"Completed"} @@
    job :> {"Completed"} @@ x :> {"Completed"}
=============================================================================
