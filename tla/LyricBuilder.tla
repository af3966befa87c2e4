---------------------------- MODULE LyricBuilder ----------------------------
(***************************************************************************)
(* One LyricBuilder (lyric_builder.cpp) over any number of calls of        *)
(* computeTargets.  Each call makes a BuildRunner of its own, but the set  *)
(* m_targets and the flag m_running belong to the builder and outlive the  *)
(* call.  The runner enters here only by what it promises: it takes up its *)
(* targets and what tasks request, they get their outcomes as in           *)
(* BuildGraph, every outcome is announced through the callback, and run()  *)
(* returns after shutdown(), or when all of its workers have ended on an   *)
(* error.  BuildRunner is shown to do that from the call of run() to its   *)
(* return (RunSpec).  The calls are made one after the other by one        *)
(* thread; nothing in the class is locked.                                 *)
(***************************************************************************)
EXTENDS Naturals, FiniteSets

CONSTANTS
    Tasks,      \* task keys
    Registered, \* the tasks whose domain is in the task registry
    Requests,   \* Requests[t][D]: what t requests once it has received D
    MayFail,    \* tasks whose own configuration, hashing or run may fail
    Calls       \* the target sets that computeTargets is called with

ASSUME CallsAssumption ==
    /\ Calls \subseteq SUBSET Tasks
    /\ \A t \in Tasks : \A D \in SUBSET Tasks : Requests[t][D] \subseteq Tasks

VARIABLES
    mTargets,   \* m_targets: what the callback waits for
    mRunning,   \* m_running
    phase,      \* where computeTargets is: "Idle", "Enqueue" or "Run"
    targets,    \* the targets of the current or the last call
    left,       \* those of them the loop has not enqueued yet
    wanted,     \* the tasks of this build: enqueued or requested
    outcome,    \* their outcomes, as in BuildGraph
    announced,  \* tasks whose outcome went through the callback
    stopping,   \* shutdown() was called on this build's runner
    abandoned,  \* every worker of this build's runner ended on an error
    result      \* what the last call returned

builderVars == <<mTargets, mRunning>>
callVars    == <<phase, targets, left, result>>
runnerVars  == <<wanted, outcome, announced, abandoned>>
vars        == <<builderVars, callVars, runnerVars, stopping>>

Graph == INSTANCE BuildGraph WITH Targets <- Tasks, ended <- stopping

Results == {"None", "Ok", "NotEnqueued", "NotRun", "InvalidState"}

\* Every variable has its type.
TypeOK ==
    /\ mTargets \subseteq Tasks
    /\ mRunning \in BOOLEAN
    /\ phase \in {"Idle", "Enqueue", "Run"}
    /\ targets \subseteq Tasks
    /\ left \subseteq targets
    /\ wanted \subseteq Tasks
    /\ outcome \in [Tasks -> Graph!Outcomes]
    /\ announced \subseteq Tasks
    /\ stopping \in BOOLEAN /\ abandoned \in BOOLEAN
    /\ result \in Results

Fresh == [t \in Tasks |-> "Pending"]

Init ==
    /\ mTargets = {} /\ mRunning = FALSE
    /\ phase = "Idle" /\ targets = {} /\ left = {} /\ result = "None"
    /\ wanted = {} /\ outcome = Fresh /\ announced = {}
    /\ stopping = FALSE /\ abandoned = FALSE

-----------------------------------------------------------------------------
(* computeTargets *)

\* A call with a build state, a generation and a runner of its own.
ComputeTargets(T) ==
    /\ phase = "Idle"
    /\ phase' = "Enqueue" /\ targets' = T /\ left' = T /\ result' = "None"
    /\ wanted' = {} /\ outcome' = Fresh /\ announced' = {}
    /\ stopping' = FALSE /\ abandoned' = FALSE
    /\ UNCHANGED builderVars

\* One turn of the loop over the targets, in the order of the hash set.
EnqueueTarget(t) ==
    /\ phase = "Enqueue" /\ t \in left /\ t \in Registered
    /\ wanted' = wanted \cup {t}
    /\ mTargets' = mTargets \cup {t}
    /\ left' = left \ {t}
    /\ UNCHANGED <<mRunning, phase, targets, result, outcome, announced, abandoned,
                   stopping>>

\* TU_RETURN_IF_NOT_OK: the call returns, with m_targets as the loop left it.
RefuseTarget(t) ==
    /\ phase = "Enqueue" /\ t \in left /\ t \notin Registered
    /\ phase' = "Idle" /\ result' = "NotEnqueued"
    /\ UNCHANGED <<builderVars, targets, left, runnerVars, stopping>>

\* The runner's main loop takes over.
Run ==
    /\ phase = "Enqueue" /\ left = {}
    /\ phase' = "Run" /\ mRunning' = TRUE
    /\ UNCHANGED <<mTargets, targets, left, result, runnerVars, stopping>>

\* Mutant: m_targets is not cleared when run() fails.
RunErrorKeeps ==
    /\ phase = "Enqueue" /\ left = {}
    /\ phase' = "Idle" /\ result' = "NotRun"
    /\ UNCHANGED <<builderVars, targets, left, runnerVars, stopping>>

\* run() could not start its loop or any of its threads.
RunError ==
    /\ phase = "Enqueue" /\ left = {}
    /\ phase' = "Idle" /\ result' = "NotRun"
    /\ mTargets' = {} /\ mRunning' = FALSE
    /\ UNCHANGED <<targets, left, runnerVars, stopping>>

Decided == {t \in Tasks : outcome[t] # "Pending"}

\* run() has returned; the states of the targets are looked up.
Return ==
    /\ phase = "Run"
    /\ stopping \/ abandoned
    /\ phase' = "Idle"
    /\ mTargets' = {} /\ mRunning' = FALSE
    /\ result' = IF targets \subseteq Decided THEN "Ok" ELSE "InvalidState"
    /\ UNCHANGED <<targets, left, runnerVars, stopping>>

-----------------------------------------------------------------------------
(* the runner, as far as the builder can tell *)

\* The parking of a task that was taken up enqueues the next of the dependencies
\* it requested, given what it had received.  The task may have its outcome by
\* then, for the main loop is not told of it first.
Request(t) ==
    /\ phase = "Run" /\ t \in wanted /\ t \in Registered
    /\ \E D \in SUBSET (Graph!CompletedTasks \cap wanted) :
         \E d \in (Requests[t][D] \cap Registered) \ wanted : wanted' = wanted \cup {d}
    /\ UNCHANGED <<builderVars, callVars, outcome, announced, abandoned, stopping>>

Decide(t) ==
    /\ phase = "Run" /\ t \in wanted /\ t \in Registered
    /\ Graph!Complete(t) \/ Graph!Fail(t)
    /\ UNCHANGED <<builderVars, callVars, wanted, announced, abandoned>>

\* Mutant: the callback does not look at the state it is told.
ErasedAlways(t) == {t}

\* What onTaskNotification takes out of m_targets when t has changed state.
Erased(t) == IF t \in Decided THEN {t} ELSE {}

\* onTaskNotification: once no target is left, the runner is shut down.
OnTaskNotification(t) ==
    /\ mTargets' = mTargets \ Erased(t)
    /\ mRunning' = (mRunning /\ mTargets' # {})
    /\ stopping' = (stopping \/ (mRunning /\ mTargets' = {}))

\* The outcome of a task arrives.
Announce(t) ==
    /\ phase = "Run" /\ t \in Decided \ announced
    /\ announced' = announced \cup {t}
    /\ OnTaskNotification(t)
    /\ UNCHANGED <<callVars, wanted, outcome, abandoned>>

\* Any other notification: a task started or got blocked.
Progress(t) ==
    /\ phase = "Run" /\ t \in wanted \ Decided
    /\ OnTaskNotification(t)
    /\ UNCHANGED <<callVars, runnerVars>>

\* The last worker leaves its loop with an error (StorageError of BuildRunner, or
\* a second state change that is refused); its join ends the main loop without a
\* shutdown().
Abandon ==
    /\ phase = "Run" /\ ~stopping /\ ~abandoned
    /\ abandoned' = TRUE
    /\ UNCHANGED <<builderVars, callVars, wanted, outcome, announced, stopping>>

-----------------------------------------------------------------------------
RunnerStep ==
    \/ \E t \in Tasks : Request(t) \/ Decide(t) \/ Announce(t) \/ Progress(t)
    \/ Abandon

CallStep ==
    \/ \E t \in Tasks : EnqueueTarget(t) \/ RefuseTarget(t)
    \/ Run \/ RunError \/ Return

Next ==
    \/ \E T \in Calls : ComputeTargets(T)
    \/ CallStep
    \/ RunnerStep

Spec == Init /\ [][Next]_vars

\* What computeTargets hands over to run(), and what may happen from then until
\* run() has returned.
HandOver ==
    /\ phase = "Run" /\ result = "None" /\ left = {}
    /\ mTargets = targets /\ mRunning = TRUE
    /\ wanted = targets /\ outcome = Fresh /\ announced = {}
    /\ stopping = FALSE /\ abandoned = FALSE

RunNext == RunnerStep \/ Return

RunSpec == HandOver /\ [][RunNext]_vars

\* A call goes on by itself.  Of the runner it is assumed that each task taken
\* up gets on with its requests and its outcome, and that no outcome goes
\* unannounced (NoLostTask and BuildFinishes of BuildRunner).  Nobody has to
\* make another call.
FairSpec ==
    /\ Spec
    /\ WF_vars(CallStep)
    /\ \A t \in Tasks :
         WF_vars(Request(t)) /\ WF_vars(Decide(t)) /\ WF_vars(Announce(t))

-----------------------------------------------------------------------------
(* Properties *)

\* "all targets should be either complete or failed" when run() returns: the
\* lookup at the end of computeTargets finds a target in any other state only
\* if the workers gave up, whatever earlier calls have left in m_targets.
TargetsAnswered == result = "InvalidState" => abandoned

\* While the loop runs the builder waits for the targets of this call that were
\* not announced yet and for nothing else, so the last of them stops the loop.
WaitsForOwnTargets ==
    phase = "Run" => /\ mTargets = targets \ announced
                     /\ mRunning <=> mTargets # {}
                     /\ stopping <=> mTargets = {}

\* "hand over control to the task manager until all tasks are complete or there
\* was a failure": every call of computeTargets returns.
CallReturns == phase # "Idle" ~> phase = "Idle"
=============================================================================
