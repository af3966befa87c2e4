------------------------- MODULE LyricBuilderProofs -------------------------
(***************************************************************************)
(* Proofs about LyricBuilder, for any tasks, any registry and any calls.   *)
(***************************************************************************)
EXTENDS LyricBuilder, TLAPS

\* The steps that the runner takes while the builder is inside run().
LEMMA RunnerPhase ==
  ASSUME RunnerStep
  PROVE  phase = "Run" /\ UNCHANGED callVars
PROOF
  BY DEF RunnerStep, Request, Decide, Announce, Progress, Abandon

\* An outcome, once there, is there for the rest of the build.
LEMMA DecidedStays ==
  ASSUME TypeOK, RunnerStep
  PROVE  Decided \subseteq Decided'
PROOF
  BY DEF TypeOK, RunnerStep, Request, Decide, Announce, Progress, Abandon, Decided,
         Graph!Complete, Graph!Fail, Graph!Outcomes, runnerVars, callVars

\* Every step of the builder and its runner keeps every variable in its type
\* (computeTargets and onTaskNotification in lyric_builder.cpp).
THEOREM TypesKept == Spec => []TypeOK
PROOF
  <1>1. Init => TypeOK
    BY DEF Init, TypeOK, Fresh, Results, Graph!Outcomes
  <1>2. TypeOK /\ [Next]_vars => TypeOK'
    <2> SUFFICES ASSUME TypeOK, [Next]_vars PROVE TypeOK'
      OBVIOUS
    <2> USE DEF TypeOK
    <2>1. ASSUME NEW T \in Calls, ComputeTargets(T) PROVE TypeOK'
      BY <2>1, CallsAssumption
      DEF ComputeTargets, Fresh, Results, Graph!Outcomes, builderVars
    <2>2. CASE CallStep
      BY <2>2 DEF CallStep, EnqueueTarget, RefuseTarget, Run, RunError, Return,
                  Results, builderVars, runnerVars
    <2>3. ASSUME NEW t \in Tasks, Request(t) PROVE TypeOK'
      <3>1. PICK D \in SUBSET Tasks :
              \E d \in Requests[t][D] : wanted' = wanted \cup {d}
        BY <2>3 DEF Request, Graph!CompletedTasks
      <3>2. wanted' \subseteq Tasks
        BY <3>1, CallsAssumption
      <3> QED
        BY <2>3, <3>2 DEF Request, builderVars, callVars
    <2>4. ASSUME NEW t \in Tasks, Decide(t) PROVE TypeOK'
      BY <2>4 DEF Decide, Graph!Complete, Graph!Fail, Graph!Outcomes,
                  builderVars, callVars
    <2>5. ASSUME NEW t \in Tasks, Announce(t) PROVE TypeOK'
      BY <2>5 DEF Announce, OnTaskNotification, callVars
    <2>6. ASSUME NEW t \in Tasks, Progress(t) PROVE TypeOK'
      BY <2>6 DEF Progress, OnTaskNotification, callVars, runnerVars
    <2>7. CASE Abandon
      BY <2>7 DEF Abandon, builderVars, callVars
    <2>8. CASE UNCHANGED vars
      BY <2>8 DEF vars, builderVars, callVars, runnerVars
    <2> QED
      BY <2>1, <2>2, <2>3, <2>4, <2>5, <2>6, <2>7, <2>8 DEF Next, RunnerStep
  <1> QED
    BY <1>1, <1>2, PTL DEF Spec

-----------------------------------------------------------------------------
(* No target is forgotten, whatever m_targets holds besides. *)

\* Each target of the call is in m_targets until it has its outcome.
Awaited ==
    /\ phase = "Enqueue" => targets \ left \subseteq mTargets /\ ~stopping
    /\ phase = "Run" => /\ targets \subseteq mTargets \cup Decided
                        /\ stopping => targets \subseteq Decided
    /\ TargetsAnswered

\* Every step, of the builder or of its runner, keeps Awaited.
LEMMA AwaitedKept ==
  ASSUME TypeOK, Awaited, [Next]_vars
  PROVE  Awaited'
PROOF
  <1> USE DEF Awaited, TargetsAnswered
  <1>1. ASSUME NEW T \in Calls, ComputeTargets(T) PROVE Awaited'
    BY <1>1 DEF ComputeTargets
  <1>2. CASE CallStep
    <2>1. ASSUME NEW t \in Tasks, EnqueueTarget(t) \/ RefuseTarget(t)
          PROVE  Awaited'
      BY <2>1 DEF EnqueueTarget, RefuseTarget, builderVars
    <2>2. CASE Run
      BY <2>2 DEF Run, runnerVars, Decided
    <2>3. CASE RunError \/ Return
      BY <2>3 DEF RunError, Return, runnerVars
    <2> QED
      BY <1>2, <2>1, <2>2, <2>3 DEF CallStep
  <1>3. CASE RunnerStep
    <2>1. phase = "Run" /\ phase' = "Run" /\ targets' = targets /\ result' = result
      BY <1>3, RunnerPhase DEF callVars
    <2>2. abandoned => abandoned'
      BY <1>3 DEF RunnerStep, Request, Decide, Announce, Progress, Abandon, runnerVars
    <2>3. Decided \subseteq Decided'
      BY <1>3, DecidedStays
    <2>4. ASSUME NEW t \in Tasks, Request(t) \/ Decide(t) PROVE Awaited'
      <3>1. mTargets' = mTargets /\ stopping' = stopping
        BY <2>4 DEF Request, Decide, builderVars, Graph!Complete, Graph!Fail
      <3> QED
        BY <2>1, <2>2, <2>3, <3>1
    <2>5. ASSUME NEW t \in Tasks, Announce(t) \/ Progress(t) PROVE Awaited'
      <3>1. /\ mTargets' = mTargets \ Erased(t)
            /\ stopping' = (stopping \/ (mRunning /\ mTargets' = {}))
        BY <2>5 DEF Announce, Progress, OnTaskNotification
      <3>2. Erased(t) \subseteq Decided
        BY DEF Erased
      <3>3. (targets \subseteq mTargets \cup Decided)'
        BY <2>1, <2>3, <3>1, <3>2
      <3>4. stopping' => (targets \subseteq Decided)'
        BY <2>1, <2>3, <3>1, <3>3
      <3> QED
        BY <2>1, <2>2, <3>3, <3>4
    <2>6. CASE Abandon
      BY <2>1, <2>2, <2>3, <2>6 DEF Abandon, builderVars
    <2> QED
      BY <1>3, <2>4, <2>5, <2>6 DEF RunnerStep
  <1>4. CASE UNCHANGED vars
    BY <1>4 DEF vars, builderVars, callVars, runnerVars, Decided
  <1> QED
    BY <1>1, <1>2, <1>3, <1>4 DEF Next

\* The lookup after run() (the switch at the end of computeTargets) finds a
\* target that is neither complete nor failed only when the workers gave up: for
\* any sequence of calls, also after one that left targets behind.
THEOREM AllTargetsAnswered == Spec => []TargetsAnswered
PROOF
  <1>1. Init => Awaited
    BY DEF Init, Awaited, TargetsAnswered
  <1>2. TypeOK /\ Awaited /\ [Next]_vars => Awaited'
    BY AwaitedKept
  <1>3. Awaited => TargetsAnswered
    BY DEF Awaited
  <1> QED
    BY <1>1, <1>2, <1>3, TypesKept, PTL DEF Spec

-----------------------------------------------------------------------------
(* What the builder relies on its caller for. *)

\* No call is empty, and none mixes targets that can be enqueued with targets
\* that cannot.
CleanUse ==
    \A T \in Calls : T # {} /\ (T \subseteq Registered \/ T \cap Registered = {})

\* Nothing of an earlier call is left in m_targets when the next one begins.
NoLeftovers ==
    /\ phase = "Idle" => mTargets = {} /\ ~mRunning
    /\ phase # "Idle" => targets \in Calls
    /\ phase = "Enqueue" => /\ mTargets = targets \ left
                            /\ mTargets \subseteq Registered
                            /\ wanted = mTargets /\ outcome = Fresh
                            /\ announced = {} /\ ~stopping /\ ~abandoned
                            /\ ~mRunning /\ result = "None"
    /\ announced \subseteq Decided
    /\ WaitsForOwnTargets

\* Every step keeps NoLeftovers, given calls like these.
LEMMA NoLeftoversKept ==
  ASSUME CleanUse, TypeOK, NoLeftovers, [Next]_vars
  PROVE  NoLeftovers'
PROOF
  <1> USE DEF NoLeftovers, WaitsForOwnTargets
  <1>1. ASSUME NEW T \in Calls, ComputeTargets(T) PROVE NoLeftovers'
    BY <1>1 DEF ComputeTargets, builderVars
  <1>2. ASSUME NEW t \in Tasks, EnqueueTarget(t) PROVE NoLeftovers'
    BY <1>2 DEF EnqueueTarget, TypeOK, Decided
  <1>3. ASSUME NEW t \in Tasks, RefuseTarget(t) PROVE NoLeftovers'
    <2>1. targets \cap Registered = {}
      BY <1>3 DEF RefuseTarget, CleanUse, TypeOK
    <2>2. mTargets = {}
      BY <1>3, <2>1 DEF RefuseTarget
    <2> QED
      BY <1>3, <2>2 DEF RefuseTarget, builderVars, runnerVars, Decided
  <1>4. CASE Run
    <2>1. targets # {} /\ mTargets = targets
      BY <1>4 DEF Run, CleanUse
    <2> QED
      BY <1>4, <2>1 DEF Run, runnerVars, Decided
  <1>5. CASE RunError \/ Return
    BY <1>5 DEF RunError, Return, runnerVars, Decided
  <1>6. CASE RunnerStep
    <2>1. phase = "Run" /\ phase' = "Run" /\ targets' = targets
      BY <1>6, RunnerPhase DEF callVars
    <2>2. Decided \subseteq Decided'
      BY <1>6, DecidedStays
    <2>3. ASSUME NEW t \in Tasks, Request(t) \/ Decide(t) PROVE NoLeftovers'
      <3>1. UNCHANGED <<mTargets, mRunning, announced, stopping>>
        BY <2>3 DEF Request, Decide, builderVars, Graph!Complete, Graph!Fail
      <3> QED
        BY <2>1, <2>2, <3>1
    <2>4. ASSUME NEW t \in Tasks, Announce(t) PROVE NoLeftovers'
      <3>1. Erased(t) = {t} /\ announced' = announced \cup {t} /\ t \in Decided
        BY <2>4 DEF Announce, Erased
      <3>2. mTargets' = targets' \ announced'
        BY <2>1, <2>4, <3>1 DEF Announce, OnTaskNotification
      <3>3. announced' \subseteq Decided'
        BY <2>2, <3>1
      <3>4. (mRunning' <=> mTargets' # {}) /\ (stopping' <=> mTargets' = {})
        BY <2>1, <2>4 DEF Announce, OnTaskNotification
      <3> QED
        BY <2>1, <3>2, <3>3, <3>4
    <2>5. ASSUME NEW t \in Tasks, Progress(t) PROVE NoLeftovers'
      <3>1. Erased(t) = {} /\ announced' = announced
        BY <2>5 DEF Progress, Erased, runnerVars
      <3>2. mTargets' = mTargets
        BY <2>5, <3>1 DEF Progress, OnTaskNotification
      <3>3. (mRunning' <=> mTargets' # {}) /\ (stopping' <=> mTargets' = {})
        BY <2>1, <2>5, <3>2 DEF Progress, OnTaskNotification
      <3> QED
        BY <2>1, <2>2, <3>1, <3>2, <3>3
    <2>6. CASE Abandon
      BY <2>1, <2>2, <2>6 DEF Abandon, builderVars
    <2> QED
      BY <1>6, <2>3, <2>4, <2>5, <2>6 DEF RunnerStep
  <1>7. CASE UNCHANGED vars
    BY <1>7 DEF vars, builderVars, callVars, runnerVars, Decided
  <1> QED
    BY <1>1, <1>2, <1>3, <1>4, <1>5, <1>6, <1>7 DEF Next, CallStep

\* With calls like these the callback always waits for exactly the targets of
\* the current call that are still to be announced, and the last of them stops
\* the runner (onTaskNotification in lyric_builder.cpp).  The runs show that
\* neither condition can be dropped.
THEOREM OwnTargetsOnly == CleanUse => (Spec => []WaitsForOwnTargets)
PROOF
  <1> SUFFICES ASSUME CleanUse PROVE Spec => []WaitsForOwnTargets
    OBVIOUS
  <1>1. Init => NoLeftovers
    BY DEF Init, NoLeftovers, WaitsForOwnTargets, Decided, Fresh
  <1>2. TypeOK /\ NoLeftovers /\ [Next]_vars => NoLeftovers'
    BY NoLeftoversKept
  <1>3. NoLeftovers => WaitsForOwnTargets
    BY DEF NoLeftovers
  <1> QED
    BY <1>1, <1>2, <1>3, TypesKept, PTL DEF Spec

\* Each run() starts from its own targets alone: they are what the callback waits
\* for and what is enqueued, and nothing of an earlier run is left.
RunStartsAfresh == [][Run => HandOver']_vars

\* With calls like these the runner is handed the targets of the call and nothing
\* else: what run() of BuildRunner is shown to start from is what the loop of
\* computeTargets leaves.
THEOREM RunsStartAfresh == CleanUse => (Spec => RunStartsAfresh)
PROOF
  <1> SUFFICES ASSUME CleanUse PROVE Spec => RunStartsAfresh
    OBVIOUS
  <1>1. Init => NoLeftovers
    BY DEF Init, NoLeftovers, WaitsForOwnTargets, Decided, Fresh
  <1>2. TypeOK /\ NoLeftovers /\ [Next]_vars => NoLeftovers'
    BY NoLeftoversKept
  <1>3. TypeOK /\ NoLeftovers /\ Run => HandOver'
    BY DEF TypeOK, NoLeftovers, Run, HandOver, Fresh, runnerVars
  <1>4. TypeOK /\ NoLeftovers /\ [Next]_vars => [Run => HandOver']_vars
    BY <1>3
  <1> QED
    BY <1>1, <1>2, <1>4, TypesKept, PTL DEF Spec, RunStartsAfresh
=============================================================================
