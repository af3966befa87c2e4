----------------------------- MODULE BuildGraph -----------------------------
(***************************************************************************)
(* What a build promises, without threads, queues or notifications: tasks  *)
(* form a graph that is discovered while it is computed (what a task       *)
(* requests depends on what it has already received), every task gets one  *)
(* final outcome, a task completes only on top of completed dependencies,  *)
(* a task fails only for a reason of its own or because a task it          *)
(* requested failed, and the build ends only once every target has an      *)
(* outcome.  BuildRunner is shown to implement this.                       *)
(***************************************************************************)
EXTENDS FiniteSets

CONSTANTS
    Tasks,      \* task keys
    Targets,    \* the tasks the caller asked for
    Requests,   \* Requests[t][D]: what t requests once it has received D
    MayFail     \* tasks whose own configuration, hashing or run may fail

VARIABLES
    outcome,    \* outcome[t]: "Pending", "Completed" or "Failed"
    ended       \* the build decided to stop

vars == <<outcome, ended>>

Outcomes == {"Pending", "Completed", "Failed"}

TypeOK ==
    /\ outcome \in [Tasks -> Outcomes]
    /\ ended \in BOOLEAN

CompletedTasks == {t \in Tasks : outcome[t] = "Completed"}

Init ==
    /\ outcome = [t \in Tasks |-> "Pending"]
    /\ ended = FALSE

\* t has received a set D of completed dependencies and wants nothing more.
Complete(t) ==
    /\ outcome[t] = "Pending"
    /\ \E D \in SUBSET CompletedTasks : Requests[t][D] \subseteq D
    /\ outcome' = [outcome EXCEPT ![t] = "Completed"]
    /\ UNCHANGED ended

\* t fails on its own, or a task it requested has failed.
Fail(t) ==
    /\ outcome[t] = "Pending"
    /\ \/ t \in MayFail
       \/ \E D \in SUBSET CompletedTasks :
            \E d \in Requests[t][D] : outcome[d] = "Failed"
    /\ outcome' = [outcome EXCEPT ![t] = "Failed"]
    /\ UNCHANGED ended

\* The build stops when each target has its outcome.
End ==
    /\ ~ended
    /\ \A t \in Targets : outcome[t] # "Pending"
    /\ ended' = TRUE
    /\ UNCHANGED outcome

Next ==
    \/ \E t \in Tasks : Complete(t) \/ Fail(t)
    \/ End

Spec == Init /\ [][Next]_vars
=============================================================================
