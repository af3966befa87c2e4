------------------------- MODULE ArtifactCacheProofs -------------------------
(***************************************************************************)
(* Proofs about ArtifactCache, for any number of builds and tasks: the     *)
(* cache is well-formed, and what a trace leads to is final.               *)
(*                                                                         *)
(* The argument: an artifact belongs to the task that declared it, of one  *)
(* build; two tasks of a build that have the same hash never share one; a  *)
(* trace stands for a task that has completed, whose artifacts nobody      *)
(* declares again and only it may have changed.                            *)
(***************************************************************************)
EXTENDS ArtifactCache, TLAPS

BuildStates == {"Idle", "Running", "Abandoned", "Finished"}
Steps == {"New", "Hashed", "Running", "Storing", "Completed"} \cup FailedSteps
Phases == {"Declared", "Described", "Stored"}

\* The steps of a task before its first write.
Unwritten == {"New", "Hashed", "Running"}

Shapes ==
    /\ source \in [Sources -> Versions]
    /\ build \in [Builds -> BuildStates]
    /\ step \in [Builds -> [Tasks -> Steps]]
    /\ DOMAIN hash = Builds /\ \A b \in Builds : DOMAIN hash[b] = Tasks
    /\ DOMAIN written = Builds /\ \A b \in Builds : DOMAIN written[b] = Tasks

\* What a task has written, and when.
Progress ==
    \A b \in Builds, t \in Tasks :
        /\ DOMAIN written[b][t] \subseteq Outputs[t]
        /\ step[b][t] \in Unwritten => DOMAIN written[b][t] = {}
        /\ \A p \in DOMAIN written[b][t] :
              /\ written[b][t][p] \in Phases
              /\ t \in Linkers => written[b][t][p] = "Stored"

\* Every artifact a task has begun is in the cache, as a file unless the task
\* links, and with its content once it is stored.
Begun ==
    \A b \in Builds, t \in Tasks : \A p \in DOMAIN written[b][t] :
        LET a == ArtifactId(b, hash[b][t], p)
        IN /\ a \in DOMAIN entries
           /\ t \notin Linkers => entries[a].type = "File"
           /\ t \notin Linkers /\ written[b][t][p] = "Stored" => a \in DOMAIN content

\* No two tasks of a build have begun the same artifact.
OneWriter ==
    \A b \in Builds, t, u \in Tasks :
        \A p \in DOMAIN written[b][t] \cap DOMAIN written[b][u] :
            hash[b][t] = hash[b][u] => t = u

\* A trace was stored by a task of the generation it names, with all its
\* artifacts stored.
Traced ==
    \A trace \in DOMAIN traces : \E b \in Builds, t \in Tasks :
        /\ trace = <<hash[b][t], t>> /\ traces[trace] = b
        /\ step[b][t] = "Completed"
        /\ AllStored(b, t)

Entries ==
    /\ \A a \in DOMAIN entries :
          /\ DOMAIN entries[a] = {"type", "link", "metadata"}
          /\ entries[a].type \in {"File", "Link", "LinkOverride"}
          /\ entries[a].type # "File" => entries[a].link \in DOMAIN entries
          /\ entries[a].metadata \in Tasks \cup {None}
    /\ \A a \in DOMAIN content : a \in DOMAIN entries /\ entries[a].type = "File"

IInv == Shapes /\ Progress /\ Begun /\ OneWriter /\ Traced /\ Entries

LEMMA InitInv == Init => IInv
<1> SUFFICES ASSUME Init PROVE IInv
  OBVIOUS
<1>0. DOMAIN << >> = {}
  OBVIOUS
<1>1. Shapes
  BY DEF Init, Shapes, BuildStates, Steps
<1>2. \A b \in Builds, t \in Tasks : DOMAIN written[b][t] = {}
  BY <1>0 DEF Init
<1>3. DOMAIN entries = {} /\ DOMAIN content = {} /\ DOMAIN traces = {}
  BY <1>0 DEF Init
<1>4. Progress /\ Begun /\ OneWriter
  BY <1>2 DEF Progress, Begun, OneWriter
<1>5. Traced /\ Entries
  BY <1>3 DEF Traced, Entries
<1> QED  BY <1>1, <1>4, <1>5 DEF IInv

-----------------------------------------------------------------------------
(* The steps that leave the cache and the artifacts alone.                 *)

Quiet ==
    /\ UNCHANGED <<cache, written>>
    /\ Shapes'
    /\ \A b \in Builds, t \in Tasks :
          /\ step[b][t] # "New" => hash'[b][t] = hash[b][t]
          /\ step[b][t] = "Completed" => step'[b][t] = "Completed"
          /\ step'[b][t] \in Unwritten => step[b][t] \in Unwritten

\* A quiet step keeps the invariant: a hash changes before the first write only.
LEMMA QuietKeeps == IInv /\ Quiet => IInv'
<1> SUFFICES ASSUME IInv, Quiet PROVE IInv'
  OBVIOUS
<1> USE DEF IInv
<1>1. entries' = entries /\ content' = content /\ traces' = traces /\ written' = written
  BY DEF Quiet, cache
<1>2. \A b \in Builds, t \in Tasks :
          DOMAIN written[b][t] # {} \/ step[b][t] = "Completed" => hash'[b][t] = hash[b][t]
  BY DEF Quiet, Progress, Unwritten
<1>3. Progress'
  BY <1>1 DEF Progress, Quiet
<1>4. Begun'
  BY <1>1, <1>2 DEF Begun
<1>5. OneWriter'
  BY <1>1, <1>2 DEF OneWriter
<1>6. Traced'
  BY <1>1, <1>2 DEF Traced, Quiet, AllStored
<1>7. Entries'
  BY <1>1 DEF Entries
<1> QED  BY <1>3, <1>4, <1>5, <1>6, <1>7 DEF Quiet

\* A task that only goes to another step.
LEMMA StepIsQuiet ==
    ASSUME IInv, NEW b \in Builds, NEW t \in Tasks, NEW s \in Steps, SetStep(b, t, s),
           step[b][t] # "Completed", s \in Unwritten => step[b][t] \in Unwritten,
           UNCHANGED <<cache, source, build, hash, written>>
    PROVE  Quiet
<1>1. step' \in [Builds -> [Tasks -> Steps]]
  BY DEF IInv, Shapes, SetStep
<1>2. \A c \in Builds, u \in Tasks : step'[c][u] = IF c = b /\ u = t THEN s ELSE step[c][u]
  BY DEF IInv, Shapes, SetStep
<1>3. Shapes'
  BY <1>1 DEF IInv, Shapes
<1> QED  BY <1>2, <1>3 DEF Quiet

LEMMA QuietSteps ==
    ASSUME IInv, NEW b \in Builds, NEW t \in Tasks
    PROVE  /\ StartBuild(b) \/ AbandonBuild(b) \/ FinishBuild(b) => Quiet
           /\ CancelTask(b, t) \/ RunFails(b, t) \/ ContainsTrace(b, t) => Quiet
           /\ ComputeHash(b, t) \/ BeginStores(b, t) => Quiet
           /\ \A d \in Deps[t] : LoadTrace(b, t, d) \/ LoadArtifacts(b, t, d) => Quiet
<1>1. ASSUME StartBuild(b) \/ AbandonBuild(b) \/ FinishBuild(b)
      PROVE  Quiet
  <2>1. build' \in [Builds -> BuildStates]
    BY <1>1 DEF IInv, Shapes, StartBuild, AbandonBuild, FinishBuild, BuildStates
  <2> QED  BY <1>1, <2>1 DEF Quiet, IInv, Shapes, StartBuild, AbandonBuild, FinishBuild
<1>2. ASSUME CancelTask(b, t) \/ RunFails(b, t) PROVE Quiet
  BY <1>2, StepIsQuiet
     DEF CancelTask, RunFails, FailTask, Running, Steps, FailedSteps, Unwritten
<1>3. ASSUME ContainsTrace(b, t) PROVE Quiet
  <2>1. CASE SetStep(b, t, "Completed")
    BY <1>3, <2>1, StepIsQuiet DEF ContainsTrace, Running, Steps, Unwritten
  <2>2. CASE SetStep(b, t, "Running")
    BY <1>3, <2>2, StepIsQuiet DEF ContainsTrace, Running, Steps, Unwritten
  <2> QED  BY <1>3, <2>1, <2>2 DEF ContainsTrace
<1>4. ASSUME ComputeHash(b, t) PROVE Quiet
  <2>1. step' \in [Builds -> [Tasks -> Steps]]
        /\ \A c \in Builds, u \in Tasks :
              step'[c][u] = IF c = b /\ u = t THEN "Hashed" ELSE step[c][u]
    BY <1>4 DEF IInv, Shapes, ComputeHash, SetStep, Steps
  <2>2. PICK h : hash' = [hash EXCEPT ![b][t] = h]
    BY <1>4 DEF ComputeHash
  <2>3. DOMAIN hash' = Builds /\ \A c \in Builds : DOMAIN hash'[c] = Tasks
    BY <2>2 DEF IInv, Shapes
  <2>4. \A c \in Builds, u \in Tasks : c # b \/ u # t => hash'[c][u] = hash[c][u]
    BY <2>2 DEF IInv, Shapes
  <2>5. step[b][t] = "New"
    BY <1>4 DEF ComputeHash, Running
  <2>6. Shapes'
    BY <1>4, <2>1, <2>3 DEF IInv, Shapes, ComputeHash
  <2> QED  BY <1>4, <2>1, <2>4, <2>5, <2>6 DEF Quiet, ComputeHash, Unwritten
<1>5. ASSUME BeginStores(b, t) PROVE Quiet
  BY <1>5, StepIsQuiet DEF BeginStores, Running, Steps, Unwritten
<1>6. ASSUME NEW d \in Deps[t], LoadTrace(b, t, d) \/ LoadArtifacts(b, t, d) PROVE Quiet
  <2>1. step[b][t] = "Running"
    BY <1>6 DEF LoadTrace, LoadArtifacts, Running
  <2>2. CASE FailTask(b, t, "Refused")
    BY <2>1, <2>2, StepIsQuiet DEF FailTask, Steps, FailedSteps, Unwritten
  <2>3. CASE UNCHANGED <<cache, source, build, step, hash, written>>
    BY <2>3 DEF Quiet, IInv, Shapes
  <2> QED  BY <1>6, <2>2, <2>3 DEF LoadTrace, LoadArtifacts
<1> QED  BY <1>1, <1>2, <1>3, <1>4, <1>5, <1>6

\* A source that is edited changes nothing in the cache.
LEMMA EditIsQuiet ==
    ASSUME IInv, NEW t \in Sources, NEW v \in Versions, Edit(t, v)
    PROVE  Quiet
<1>1. source' \in [Sources -> Versions]
  BY DEF IInv, Shapes, Edit
<1> QED  BY <1>1 DEF Edit, Quiet, IInv, Shapes

LEMMA StutterIsQuiet == IInv /\ UNCHANGED vars => Quiet
<1> SUFFICES ASSUME IInv, UNCHANGED vars PROVE Quiet
  OBVIOUS
<1>1. UNCHANGED <<cache, source, build, step, hash, written>>
  BY DEF vars, cache
<1>2. Shapes'
  BY <1>1 DEF IInv, Shapes
<1> QED  BY <1>1, <1>2 DEF Quiet

-----------------------------------------------------------------------------
(* The steps that write to the cache.                                      *)

\* What all writes of a task have in common: the artifact is the task's own or
\* nobody's, nothing leaves the cache, and no entry changes its type.
Writes(b, t, p, phase) ==
    LET a == ArtifactId(b, hash[b][t], p)
    IN /\ Running(b, t, "Storing")
       /\ Write(b, t, p, phase)
       /\ t \in Linkers => phase = "Stored"
       /\ p \in DOMAIN written[b][t] \/ a \notin DOMAIN entries
       /\ DOMAIN entries \subseteq DOMAIN entries' /\ a \in DOMAIN entries'
       /\ \A e \in DOMAIN entries : entries'[e].type = entries[e].type
       /\ t \notin Linkers => entries'[a].type = "File"
       /\ DOMAIN content \subseteq DOMAIN content'
       /\ t \notin Linkers /\ phase = "Stored" => a \in DOMAIN content'
       /\ UNCHANGED <<traces, source, build, step, hash>>

\* A write that leaves the maps well-formed keeps the invariant: whoever else
\* had begun the same artifact would have its id in the cache already.
LEMMA WriteKeeps ==
    ASSUME IInv, NEW b \in Builds, NEW t \in Tasks, NEW p \in Outputs[t],
           NEW phase \in Phases, Writes(b, t, p, phase), Entries'
    PROVE  IInv'
<1> DEFINE a == ArtifactId(b, hash[b][t], p)
<1>1. UNCHANGED <<traces, source, build, step, hash>> /\ step[b][t] = "Storing"
  BY DEF Writes, Running
<1>2. \A c \in Builds, u \in Tasks :
          written'[c][u] = IF c = b /\ u = t THEN Put(written[c][u], p, phase)
                                            ELSE written[c][u]
  BY DEF Writes, Write, IInv, Shapes
<1>3. DOMAIN written' = Builds /\ \A c \in Builds : DOMAIN written'[c] = Tasks
  BY DEF Writes, Write, IInv, Shapes
<1>4. /\ DOMAIN written'[b][t] = DOMAIN written[b][t] \cup {p}
      /\ written'[b][t][p] = phase
      /\ \A q \in DOMAIN written[b][t] : q # p => written'[b][t][q] = written[b][t][q]
  BY <1>2 DEF Put
<1>5. Shapes'
  BY <1>1, <1>3 DEF IInv, Shapes
<1>6. Progress'
  <2> SUFFICES ASSUME NEW c \in Builds, NEW u \in Tasks
               PROVE  /\ DOMAIN written'[c][u] \subseteq Outputs[u]
                      /\ step'[c][u] \in Unwritten => DOMAIN written'[c][u] = {}
                      /\ \A q \in DOMAIN written'[c][u] :
                            /\ written'[c][u][q] \in Phases
                            /\ u \in Linkers => written'[c][u][q] = "Stored"
    BY DEF Progress
  <2>1. CASE c = b /\ u = t
    BY <2>1, <1>1, <1>4 DEF IInv, Progress, Unwritten, Writes
  <2>2. CASE ~(c = b /\ u = t)
    BY <2>2, <1>1, <1>2 DEF IInv, Progress
  <2> QED  BY <2>1, <2>2
<1>7. Begun'
  <2> SUFFICES ASSUME NEW c \in Builds, NEW u \in Tasks, NEW q \in DOMAIN written'[c][u]
               PROVE  LET e == ArtifactId(c, hash[c][u], q)
                      IN /\ e \in DOMAIN entries'
                         /\ u \notin Linkers => entries'[e].type = "File"
                         /\ u \notin Linkers /\ written'[c][u][q] = "Stored"
                               => e \in DOMAIN content'
    BY <1>1 DEF Begun
  <2>1. CASE c = b /\ u = t /\ q = p
    BY <2>1, <1>4 DEF Writes
  <2>2. CASE ~(c = b /\ u = t /\ q = p)
    <3>1. q \in DOMAIN written[c][u] /\ written'[c][u][q] = written[c][u][q]
      BY <2>2, <1>2, <1>4
    <3> QED  BY <3>1 DEF IInv, Begun, Writes
  <2> QED  BY <2>1, <2>2
<1>8. OneWriter'
  <2>1. \A u \in Tasks : p \in DOMAIN written[b][u] /\ hash[b][u] = hash[b][t] => u = t
    BY DEF IInv, OneWriter, Begun, Writes
  <2>2. SUFFICES ASSUME NEW c \in Builds, NEW u \in Tasks, NEW w \in Tasks,
                        NEW q \in DOMAIN written'[c][u] \cap DOMAIN written'[c][w],
                        hash[c][u] = hash[c][w]
                 PROVE  u = w
    BY <1>1 DEF OneWriter
  <2>3. CASE c = b /\ q = p
    <3>1. \A x \in {u, w} : x = t \/ p \in DOMAIN written[b][x]
      BY <2>3, <1>2
    <3> QED  BY <2>1, <2>2, <2>3, <3>1 DEF IInv, OneWriter
  <2>4. CASE ~(c = b /\ q = p)
    <3>1. q \in DOMAIN written[c][u] \cap DOMAIN written[c][w]
      BY <2>4, <1>2, <1>4
    <3> QED  BY <2>2, <3>1 DEF IInv, OneWriter
  <2> QED  BY <2>3, <2>4
<1>9. Traced'
  <2> SUFFICES ASSUME NEW trace \in DOMAIN traces
               PROVE  \E c \in Builds, u \in Tasks :
                        /\ trace = <<hash[c][u], u>> /\ traces[trace] = c
                        /\ step'[c][u] = "Completed" /\ AllStored(c, u)'
    BY <1>1 DEF Traced
  <2>1. PICK c \in Builds, u \in Tasks :
            /\ trace = <<hash[c][u], u>> /\ traces[trace] = c
            /\ step[c][u] = "Completed" /\ AllStored(c, u)
    BY DEF IInv, Traced
  <2>2. ~(c = b /\ u = t)
    BY <2>1, <1>1
  <2>3. written'[c][u] = written[c][u]
    BY <2>2, <1>2
  <2> QED  BY <2>1, <2>3, <1>1 DEF AllStored
<1> QED  BY <1>5, <1>6, <1>7, <1>8, <1>9 DEF IInv

LEMMA StorePreserves ==
    ASSUME IInv, NEW b \in Builds, NEW t \in Tasks, NEW p \in Outputs[t]
    PROVE  /\ DeclareArtifact(b, t, p) => IInv'
           /\ StoreMetadata(b, t, p) => IInv'
           /\ StoreContent(b, t, p) => IInv'
<1> DEFINE a == ArtifactId(b, hash[b][t], p)
<1>1. ASSUME DeclareArtifact(b, t, p) PROVE IInv'
  <2>1. step[b][t] = "Storing"
    BY <1>1 DEF DeclareArtifact, NextArtifact, Running
  <2>2. CASE a \in DOMAIN entries
    <3>1. FailTask(b, t, "Refused")
      BY <1>1, <2>2 DEF DeclareArtifact
    <3>2. Quiet
      BY <2>1, <3>1, StepIsQuiet DEF FailTask, Steps, FailedSteps, Unwritten
    <3> QED  BY <3>2, QuietKeeps
  <2>3. CASE a \notin DOMAIN entries
    <3>1. /\ entries' = Put(entries, a, [type |-> "File", link |-> None, metadata |-> None])
          /\ Write(b, t, p, "Declared") /\ t \notin Linkers
          /\ UNCHANGED <<content, traces, source, build, step, hash>>
      BY <1>1, <2>3 DEF DeclareArtifact
    <3>2. /\ DOMAIN entries' = DOMAIN entries \cup {a}
          /\ entries'[a] = [type |-> "File", link |-> None, metadata |-> None]
          /\ \A e \in DOMAIN entries : entries'[e] = entries[e]
      BY <2>3, <3>1 DEF Put
    <3>3. Entries'
      BY <3>1, <3>2 DEF IInv, Entries
    <3>4. Writes(b, t, p, "Declared")
      BY <1>1, <2>3, <3>1, <3>2 DEF Writes, DeclareArtifact, NextArtifact
    <3> QED  BY <3>3, <3>4, WriteKeeps DEF Phases
  <2> QED  BY <2>2, <2>3
<1>2. ASSUME StoreMetadata(b, t, p) PROVE IInv'
  <2>1. /\ Running(b, t, "Storing") /\ p \in DOMAIN written[b][t]
        /\ written[b][t][p] = "Declared"
        /\ entries' = [entries EXCEPT ![a].metadata = t]
        /\ Write(b, t, p, "Described")
        /\ UNCHANGED <<content, traces, source, build, step, hash>>
    BY <1>2 DEF StoreMetadata
  <2>2. t \notin Linkers
    BY <2>1 DEF IInv, Progress
  <2>3. a \in DOMAIN entries /\ entries[a].type = "File"
    BY <2>1, <2>2 DEF IInv, Begun
  <2>4. DOMAIN entries' = DOMAIN entries
        /\ \A e \in DOMAIN entries : e # a => entries'[e] = entries[e]
    BY <2>1
  <2>5. entries'[a] = [entries[a] EXCEPT !.metadata = t]
    BY <2>1, <2>3
  <2>6. entries'[a].type = entries[a].type /\ entries'[a].link = entries[a].link
    BY <2>5
  <2>7. entries'[a].metadata \in Tasks \cup {None}
    BY <2>5, <2>3 DEF IInv, Entries
  <2>8. Entries'
    BY <2>1, <2>3, <2>4, <2>6, <2>7 DEF IInv, Entries
  <2>9. Writes(b, t, p, "Described")
    BY <2>1, <2>2, <2>3, <2>4, <2>6 DEF Writes
  <2> QED  BY <2>8, <2>9, WriteKeeps DEF Phases
<1>3. ASSUME StoreContent(b, t, p) PROVE IInv'
  <2>1. /\ Running(b, t, "Storing") /\ p \in DOMAIN written[b][t]
        /\ written[b][t][p] = "Described"
        /\ content' = Put(content, a, inputs[b][t][t].digest)
        /\ Write(b, t, p, "Stored")
        /\ UNCHANGED <<entries, traces, source, build, step, hash>>
    BY <1>3 DEF StoreContent
  <2>2. t \notin Linkers
    BY <2>1 DEF IInv, Progress
  <2>3. a \in DOMAIN entries /\ entries[a].type = "File"
    BY <2>1, <2>2 DEF IInv, Begun
  <2>4. DOMAIN content' = DOMAIN content \cup {a}
    BY <2>1 DEF Put
  <2>5. Entries'
    BY <2>1, <2>3, <2>4 DEF IInv, Entries
  <2>6. Writes(b, t, p, "Stored")
    BY <2>1, <2>2, <2>3, <2>4 DEF Writes
  <2> QED  BY <2>5, <2>6, WriteKeeps DEF Phases
<1> QED  BY <1>1, <1>2, <1>3

LEMMA LinkPreserves ==
    ASSUME IInv, NEW b \in Builds, NEW t \in Tasks, NEW p \in Outputs[t], NEW d \in Deps[t],
           NEW type \in {"Link", "LinkOverride"}, LinkArtifact(b, t, p, d, type)
    PROVE  IInv'
<1> DEFINE src == ArtifactId(inputs[b][t][d].generation, hash[b][d], p)
           dst == ArtifactId(b, hash[b][t], p)
<1>1. step[b][t] = "Storing"
  BY DEF LinkArtifact, NextArtifact, Running
<1>2. CASE src \notin DOMAIN entries \/ dst \in DOMAIN entries
  <2>1. FailTask(b, t, "Refused")
    BY <1>2 DEF LinkArtifact
  <2>2. Quiet
    BY <1>1, <2>1, StepIsQuiet DEF FailTask, Steps, FailedSteps, Unwritten
  <2> QED  BY <2>2, QuietKeeps
<1>3. CASE src \in DOMAIN entries /\ dst \notin DOMAIN entries
  <2> DEFINE entry == [type |-> type, link |-> src,
                       metadata |-> IF type = "Link" THEN None ELSE t]
  <2>1. /\ entries' = Put(entries, dst, entry)
        /\ Write(b, t, p, "Stored") /\ t \in Linkers
        /\ UNCHANGED <<content, traces, source, build, step, hash>>
    BY <1>3 DEF LinkArtifact
  <2>2. /\ entry.type = type /\ entry.link = src /\ entry.metadata \in Tasks \cup {None}
        /\ DOMAIN entry = {"type", "link", "metadata"}
    OBVIOUS
  <2>3. /\ DOMAIN entries' = DOMAIN entries \cup {dst} /\ entries'[dst] = entry
        /\ \A e \in DOMAIN entries : entries'[e] = entries[e]
    BY <1>3, <2>1 DEF Put
  <2> HIDE DEF entry
  <2>4. Entries'
    BY <1>3, <2>1, <2>2, <2>3 DEF IInv, Entries
  <2>5. Writes(b, t, p, "Stored")
    BY <1>3, <2>1, <2>3 DEF Writes, LinkArtifact, NextArtifact
  <2> QED  BY <2>4, <2>5, WriteKeeps DEF Phases
<1> QED  BY <1>2, <1>3

\* A task completes with its artifacts stored, and its trace may take the place
\* of one with the same key.
LEMMA CompletePreserves ==
    ASSUME IInv, NEW b \in Builds, NEW t \in Tasks, CompleteTask(b, t)
    PROVE  IInv'
<1>1. /\ step[b][t] = "Storing" /\ AllStored(b, t)
      /\ UNCHANGED <<entries, content, source, build, hash, written>>
  BY DEF CompleteTask, Running
<1>2. step' \in [Builds -> [Tasks -> Steps]]
      /\ \A c \in Builds, u \in Tasks :
            step'[c][u] = IF c = b /\ u = t THEN "Completed" ELSE step[c][u]
  BY DEF IInv, Shapes, CompleteTask, SetStep, Steps
<1>3. /\ DOMAIN traces' = DOMAIN traces \cup {<<hash[b][t], t>>}
      /\ traces'[<<hash[b][t], t>>] = b
      /\ \A trace \in DOMAIN traces : trace # <<hash[b][t], t>> => traces'[trace] = traces[trace]
  BY DEF CompleteTask, Put
<1>4. Shapes' /\ Begun' /\ OneWriter' /\ Entries'
  BY <1>1, <1>2 DEF IInv, Shapes, Begun, OneWriter, Entries
<1>5. Progress'
  BY <1>1, <1>2 DEF IInv, Progress, Unwritten
<1>6. Traced'
  <2> SUFFICES ASSUME NEW trace \in DOMAIN traces'
               PROVE  \E c \in Builds, u \in Tasks :
                        /\ trace = <<hash[c][u], u>> /\ traces'[trace] = c
                        /\ step'[c][u] = "Completed" /\ AllStored(c, u)
    BY <1>1 DEF Traced, AllStored
  <2>1. CASE trace = <<hash[b][t], t>>
    BY <2>1, <1>1, <1>2, <1>3
  <2>2. CASE trace # <<hash[b][t], t>>
    <3>1. trace \in DOMAIN traces /\ traces'[trace] = traces[trace]
      BY <2>2, <1>3
    <3> QED  BY <3>1, <1>2 DEF IInv, Traced
  <2> QED  BY <2>1, <2>2
<1> QED  BY <1>4, <1>5, <1>6 DEF IInv

LEMMA NextPreserves == IInv /\ [Next]_vars => IInv'
<1> SUFFICES ASSUME IInv, [Next]_vars PROVE IInv'
  OBVIOUS
<1>1. CASE UNCHANGED vars
  BY <1>1, StutterIsQuiet, QuietKeeps
<1>2. ASSUME NEW t \in Sources, NEW v \in Versions, Edit(t, v) PROVE IInv'
  BY <1>2, EditIsQuiet, QuietKeeps
<1>3. ASSUME NEW b \in Builds, StartBuild(b) \/ AbandonBuild(b) \/ FinishBuild(b) PROVE IInv'
  <2>1. CASE Tasks = {}
    <3>1. UNCHANGED <<cache, source, step, hash, written>> /\ build' \in [Builds -> BuildStates]
      BY <1>3 DEF IInv, Shapes, StartBuild, AbandonBuild, FinishBuild, BuildStates
    <3>2. Quiet
      BY <3>1 DEF Quiet, IInv, Shapes
    <3> QED  BY <3>2, QuietKeeps
  <2>2. CASE \E t : t \in Tasks
    BY <1>3, <2>2, QuietSteps, QuietKeeps
  <2> QED  BY <2>1, <2>2
<1>4. ASSUME NEW b \in Builds, NEW t \in Tasks, TaskStep(b, t) PROVE IInv'
  <2>1. CASE CancelTask(b, t) \/ RunFails(b, t) \/ ComputeHash(b, t) \/ ContainsTrace(b, t)
             \/ BeginStores(b, t) \/ \E d \in Deps[t] : LoadTrace(b, t, d) \/ LoadArtifacts(b, t, d)
    BY <2>1, QuietSteps, QuietKeeps
  <2>2. CASE \E p \in Outputs[t] :
                DeclareArtifact(b, t, p) \/ StoreMetadata(b, t, p) \/ StoreContent(b, t, p)
    BY <2>2, StorePreserves
  <2>3. CASE \E p \in Outputs[t], d \in Deps[t], type \in {"Link", "LinkOverride"} :
                LinkArtifact(b, t, p, d, type)
    BY <2>3, LinkPreserves
  <2>4. CASE CompleteTask(b, t)
    BY <2>4, CompletePreserves
  <2> QED  BY <1>4, <2>1, <2>2, <2>3, <2>4 DEF TaskStep
<1> QED  BY <1>1, <1>2, <1>3, <1>4 DEF Next, BuildStep

-----------------------------------------------------------------------------
(* The theorems.                                                           *)

\* The inductive invariant holds in every state: each artifact has one writer,
\* and a trace stands for a task of the generation it names that has stored them.
THEOREM CacheInvariant == Spec => []IInv
<1>1. IInv /\ [Next]_vars => IInv'
  BY NextPreserves
<1> QED  BY <1>1, InitInv, PTL DEF Spec

\* However many builds share the cache and end early, every link in it leads to
\* an entry, content belongs to declared files, and a trace names a build
\* (MemoryCache, memory_cache.cpp).
THEOREM CacheTypeOK == Spec => []TypeOK
<1>1. IInv => TypeOK
  <2> SUFFICES ASSUME IInv PROVE TypeOK
    OBVIOUS
  <2>1. \A trace \in DOMAIN traces : traces[trace] \in Builds
    BY DEF IInv, Traced
  <2> QED  BY <2>1 DEF IInv, Shapes, Entries, TypeOK, BuildStates, Steps
<1> QED  BY <1>1, CacheInvariant, PTL

\* Every artifact a trace stands for is in the cache, and has content unless it
\* is a link: whoever finds the trace finds the task's artifacts declared and
\* stored, whatever other builds of the same task have left half done.
TracedIsStored ==
    \A trace \in DOMAIN traces : \A a \in ArtifactsOf(trace) :
        /\ a \in DOMAIN entries
        /\ trace[2] \notin Linkers => entries[a].type = "File" /\ a \in DOMAIN content

\* TracedIsStored holds in every state (DependencyLoader::create relies on it).
THEOREM TracedStored == Spec => []TracedIsStored
<1>1. IInv => TracedIsStored
  <2> SUFFICES ASSUME IInv, NEW trace \in DOMAIN traces, NEW a \in ArtifactsOf(trace)
               PROVE  /\ a \in DOMAIN entries
                      /\ trace[2] \notin Linkers =>
                            entries[a].type = "File" /\ a \in DOMAIN content
    BY DEF TracedIsStored
  <2>1. PICK b \in Builds, t \in Tasks :
            /\ trace = <<hash[b][t], t>> /\ traces[trace] = b /\ AllStored(b, t)
    BY DEF IInv, Traced
  <2>2. PICK p \in Outputs[t] : a = ArtifactId(b, hash[b][t], p)
    BY <2>1 DEF ArtifactsOf
  <2>3. p \in DOMAIN written[b][t] /\ written[b][t][p] = "Stored" /\ trace[2] = t
    BY <2>1, <2>2 DEF AllStored
  <2> QED  BY <2>2, <2>3 DEF IInv, Begun
<1> QED  BY <1>1, CacheInvariant, PTL

\* No step changes the entry of an artifact that another task has described, or
\* this one before, and none its content once it is stored: the writes of other
\* tasks have other ids.
LEMMA StoredIsKept ==
    ASSUME IInv, [Next]_vars, NEW c \in Builds, NEW u \in Tasks,
           NEW q \in DOMAIN written[c][u], written[c][u][q] # "Declared"
    PROVE  LET a == ArtifactId(c, hash[c][u], q)
           IN /\ a \in DOMAIN entries /\ a \in DOMAIN entries'
              /\ entries'[a] = entries[a]
              /\ a \in DOMAIN content /\ written[c][u][q] = "Stored" =>
                    a \in DOMAIN content' /\ content'[a] = content[a]
<1> DEFINE a == ArtifactId(c, hash[c][u], q)
<1>0. a \in DOMAIN entries
  BY DEF IInv, Begun
<1> HIDE DEF a
<1>1. CASE UNCHANGED <<entries, content>>
  BY <1>0, <1>1 DEF a
<1>2. ASSUME NEW b \in Builds, NEW t \in Tasks, NEW p \in Outputs[t],
             DeclareArtifact(b, t, p), ~UNCHANGED <<entries, content>>
      PROVE  a \in DOMAIN entries' /\ entries'[a] = entries[a] /\ content' = content
  <2>1. ~FailTask(b, t, "Refused")
    BY <1>2 DEF FailTask, cache
  <2>2. PICK e : /\ ArtifactId(b, hash[b][t], p) \notin DOMAIN entries
                 /\ entries' = Put(entries, ArtifactId(b, hash[b][t], p), e)
                 /\ content' = content
    BY <1>2, <2>1 DEF DeclareArtifact
  <2> QED  BY <1>0, <2>2 DEF Put
<1>3. ASSUME NEW b \in Builds, NEW t \in Tasks, NEW p \in Outputs[t],
             StoreMetadata(b, t, p) \/ StoreContent(b, t, p)
      PROVE  /\ a \in DOMAIN entries' /\ entries'[a] = entries[a]
             /\ a \in DOMAIN content /\ written[c][u][q] = "Stored"
                   => a \in DOMAIN content' /\ content'[a] = content[a]
  <2> DEFINE e == ArtifactId(b, hash[b][t], p)
  <2>1. p \in DOMAIN written[b][t]
    BY <1>3 DEF StoreMetadata, StoreContent
  <2>2. e = a => b = c /\ p = q /\ t = u
    <3> SUFFICES ASSUME e = a PROVE b = c /\ p = q /\ t = u
      OBVIOUS
    <3>1. b = c /\ p = q /\ hash[b][t] = hash[c][u]
      BY DEF a, ArtifactId
    <3> QED  BY <2>1, <3>1 DEF IInv, OneWriter
  <2> HIDE DEF e
  <2>3. CASE StoreMetadata(b, t, p)
    <3>1. /\ entries' = [entries EXCEPT ![e].metadata = t] /\ content' = content
          /\ written[b][t][p] = "Declared"
      BY <2>3 DEF StoreMetadata, e
    <3> QED  BY <1>0, <2>2, <3>1
  <2>4. CASE StoreContent(b, t, p)
    <3>1. /\ entries' = entries /\ content' = Put(content, e, inputs[b][t][t].digest)
          /\ written[b][t][p] = "Described"
      BY <2>4 DEF StoreContent, e
    <3> QED  BY <1>0, <2>2, <3>1 DEF Put
  <2> QED  BY <1>3, <2>3, <2>4
<1>4. ASSUME NEW b \in Builds, NEW t \in Tasks, NEW p \in Outputs[t], NEW d \in Deps[t],
             NEW type \in {"Link", "LinkOverride"}, LinkArtifact(b, t, p, d, type),
             ~UNCHANGED <<entries, content>>
      PROVE  a \in DOMAIN entries' /\ entries'[a] = entries[a] /\ content' = content
  <2>1. ~FailTask(b, t, "Refused")
    BY <1>4 DEF FailTask, cache
  <2>2. PICK e : /\ ArtifactId(b, hash[b][t], p) \notin DOMAIN entries
                 /\ entries' = Put(entries, ArtifactId(b, hash[b][t], p), e)
                 /\ content' = content
    BY <1>4, <2>1 DEF LinkArtifact
  <2> QED  BY <1>0, <2>2 DEF Put
<1>5. ASSUME NEW b \in Builds, NEW t \in Tasks,
             \/ StartBuild(b) \/ AbandonBuild(b) \/ FinishBuild(b) \/ CancelTask(b, t)
             \/ RunFails(b, t) \/ ComputeHash(b, t) \/ ContainsTrace(b, t)
             \/ BeginStores(b, t) \/ CompleteTask(b, t)
             \/ \E d \in Deps[t] : LoadTrace(b, t, d) \/ LoadArtifacts(b, t, d)
      PROVE  UNCHANGED <<entries, content>>
  BY <1>5 DEF StartBuild, AbandonBuild, FinishBuild, CancelTask, RunFails, ComputeHash,
              ContainsTrace, BeginStores, CompleteTask, LoadTrace, LoadArtifacts, FailTask, cache
<1>6. ASSUME NEW t \in Sources, NEW v \in Versions, Edit(t, v)
      PROVE  UNCHANGED <<entries, content>>
  BY <1>6 DEF Edit, cache
<1>7. UNCHANGED vars => UNCHANGED <<entries, content>>
  BY DEF vars, cache
<1>8. ASSUME NEW b \in Builds, NEW t \in Tasks, TaskStep(b, t), ~UNCHANGED <<entries, content>>
      PROVE  /\ a \in DOMAIN entries' /\ entries'[a] = entries[a]
             /\ a \in DOMAIN content /\ written[c][u][q] = "Stored"
                   => a \in DOMAIN content' /\ content'[a] = content[a]
  <2>1. CASE \E p \in Outputs[t] : DeclareArtifact(b, t, p)
    BY <2>1, <1>2, <1>8
  <2>2. CASE \E p \in Outputs[t] : StoreMetadata(b, t, p) \/ StoreContent(b, t, p)
    BY <2>2, <1>3
  <2>3. CASE \E p \in Outputs[t], d \in Deps[t], type \in {"Link", "LinkOverride"} :
                LinkArtifact(b, t, p, d, type)
    BY <2>3, <1>4, <1>8
  <2> QED  BY <1>8, <1>5, <2>1, <2>2, <2>3 DEF TaskStep
<1>9. ASSUME NEW b \in Builds, StartBuild(b) \/ AbandonBuild(b) \/ FinishBuild(b)
      PROVE  UNCHANGED <<entries, content>>
  BY <1>9, <1>5
<1> QED  BY <1>0, <1>1, <1>6, <1>7, <1>8, <1>9 DEF Next, BuildStep, a

\* What a trace leads to is final: between loading a trace and loading metadata
\* and content under separate locks, a reader sees one state of the artifacts
\* (dependency_loader.cpp, memory_cache.cpp).
THEOREM PublishedImmutable == Spec => PublishedIsImmutable
<1> DEFINE Kept(a) == /\ a \in DOMAIN entries /\ a \in DOMAIN entries'
                      /\ entries'[a] = entries[a]
                      /\ a \in DOMAIN content =>
                            a \in DOMAIN content' /\ content'[a] = content[a]
<1>1. IInv /\ [Next]_vars => \A trace \in DOMAIN traces : \A a \in ArtifactsOf(trace) : Kept(a)
  <2> SUFFICES ASSUME IInv, [Next]_vars, NEW trace \in DOMAIN traces, NEW a \in ArtifactsOf(trace)
               PROVE  Kept(a)
    OBVIOUS
  <2>1. PICK b \in Builds, t \in Tasks :
            /\ trace = <<hash[b][t], t>> /\ traces[trace] = b
            /\ step[b][t] = "Completed" /\ AllStored(b, t)
    BY DEF IInv, Traced
  <2>2. PICK p \in Outputs[t] : a = ArtifactId(b, hash[b][t], p)
    BY <2>1 DEF ArtifactsOf
  <2>3. p \in DOMAIN written[b][t] /\ written[b][t][p] = "Stored"
    BY <2>1, <2>2 DEF AllStored
  <2> QED  BY <2>1, <2>2, <2>3, StoredIsKept
<1> QED  BY <1>1, CacheInvariant, PTL DEF Spec, PublishedIsImmutable

-----------------------------------------------------------------------------
(* What a task knows of its dependencies.                                  *)

\* The steps of a task that has its hash and did not fail.
AfterHash == {"Hashed", "Running", "Storing", "Completed"}

Version(t) == IF t \in Sources THEN source[t] ELSE None

\* A hash was computed from the hashes of completed dependencies, and, where
\* sources rest during builds, from the source as it still is.
HashOfDeps ==
    \A b \in Builds, t \in Tasks :
        /\ build[b] = "Idle" => step[b][t] = "New"
        /\ step[b][t] \in AfterHash =>
              /\ \A d \in Deps[t] : step[b][d] = "Completed"
              /\ hash[b][t].deps = {<<d, hash[b][d]>> : d \in Deps[t]}
              /\ hash[b][t] = Digest(t, hash[b][t].version, hash[b][t].deps)
              /\ build[b] = "Running" /\ ~EditsDuringBuild => hash[b][t].version = Version(t)

\* What a task has read of its dependencies was made, completely, by the same
\* task with the same hash, in this generation or in another.
Located ==
    \A b \in Builds, t \in Tasks :
        /\ step[b][t] = "Storing" => Deps[t] \subseteq DOMAIN inputs[b][t]
        /\ \A d \in DOMAIN inputs[b][t] \ {t} :
              LET c == inputs[b][t][d].generation
              IN /\ d \in Tasks /\ step[b][d] = "Completed"
                 /\ c \in Builds /\ step[c][d] = "Completed" /\ hash[c][d] = hash[b][d]
                 /\ AllStored(c, d)

InputShapes == DOMAIN inputs = Builds /\ \A b \in Builds : DOMAIN inputs[b] = Tasks

RInv == InputShapes /\ HashOfDeps /\ Located

LEMMA InitReads == Init => RInv
<1> SUFFICES ASSUME Init PROVE RInv
  OBVIOUS
<1>0. DOMAIN << >> = {}
  OBVIOUS
<1>1. InputShapes
  BY DEF Init, InputShapes
<1>2. \A b \in Builds, t \in Tasks : inputs[b][t] = << >> /\ step[b][t] = "New"
  BY DEF Init
<1>3. HashOfDeps
  BY <1>2 DEF HashOfDeps, AfterHash
<1>4. Located
  BY <1>0, <1>2 DEF Located
<1> QED  BY <1>1, <1>3, <1>4 DEF RInv

\* A step of a task changes only what the build keeps about this task, which has
\* not ended, and its hash only while it is new.
LEMMA TaskFootprint ==
    ASSUME IInv, InputShapes, NEW b \in Builds, NEW t \in Tasks, TaskStep(b, t)
    PROVE  /\ UNCHANGED <<source, build>> /\ build[b] = "Running"
           /\ step[b][t] \in {"New", "Hashed", "Running", "Storing"} /\ step'[b][t] # "New"
           /\ InputShapes'
           /\ \A c \in Builds, u \in Tasks : c # b \/ u # t =>
                 /\ step'[c][u] = step[c][u] /\ hash'[c][u] = hash[c][u]
                 /\ inputs'[c][u] = inputs[c][u] /\ written'[c][u] = written[c][u]
           /\ step[b][t] = "New" \/ hash'[b][t] = hash[b][t]
<1> DEFINE Others(f, g) ==
      \A c \in Builds, u \in Tasks : c # b \/ u # t => g[c][u] = f[c][u]
    Local ==
      /\ UNCHANGED <<source, build>> /\ build[b] = "Running"
      /\ step[b][t] \in {"New", "Hashed", "Running", "Storing"} /\ step'[b][t] # "New"
      /\ step[b][t] = "New" \/ hash'[b][t] = hash[b][t]
      /\ Others(step, step') /\ Others(hash, hash') /\ Others(written, written')
      /\ InputShapes' /\ Others(inputs, inputs')
<1>0. /\ step \in [Builds -> [Tasks -> Steps]]
      /\ DOMAIN hash = Builds /\ \A c \in Builds : DOMAIN hash[c] = Tasks
      /\ DOMAIN written = Builds /\ \A c \in Builds : DOMAIN written[c] = Tasks
      /\ DOMAIN inputs = Builds /\ \A c \in Builds : DOMAIN inputs[c] = Tasks
  BY DEF IInv, Shapes, InputShapes
<1>1. ASSUME NEW s, SetStep(b, t, s) PROVE Others(step, step') /\ step'[b][t] = s
  BY <1>0, <1>1 DEF SetStep
<1>2. ASSUME NEW p, NEW s, Write(b, t, p, s) PROVE Others(written, written')
  BY <1>0, <1>2 DEF Write
<1>3. ASSUME NEW x, inputs' = [inputs EXCEPT ![b][t] = x]
      PROVE  InputShapes' /\ Others(inputs, inputs')
  BY <1>0, <1>3 DEF InputShapes
<1>4. ASSUME inputs' = inputs PROVE InputShapes' /\ Others(inputs, inputs')
  BY <1>0, <1>4 DEF InputShapes
<1>5. ASSUME NEW s, FailTask(b, t, s), s # "New", build[b] = "Running",
             step[b][t] \in {"New", "Hashed", "Running", "Storing"}
      PROVE  Local
  BY <1>1, <1>4, <1>5 DEF FailTask
<1>6. ASSUME CancelTask(b, t) \/ RunFails(b, t) PROVE Local
  BY <1>5, <1>6 DEF CancelTask, RunFails, Running
<1>7. ASSUME ComputeHash(b, t) PROVE Local
  <2>1. Others(hash, hash')
    BY <1>0, <1>7 DEF ComputeHash
  <2> QED  BY <1>1, <1>4, <1>7, <2>1 DEF ComputeHash, Running
<1>8. ASSUME ContainsTrace(b, t) PROVE Local
  <2>1. \E s \in {"Completed", "Running"} : SetStep(b, t, s)
    BY <1>8 DEF ContainsTrace
  <2> QED  BY <1>1, <1>4, <1>8, <2>1 DEF ContainsTrace, Running
<1>9. ASSUME NEW d \in Deps[t], LoadTrace(b, t, d) PROVE Local
  <2>1. CASE FailTask(b, t, "Refused")
    BY <1>5, <1>9, <2>1 DEF LoadTrace, Running
  <2>2. CASE ~FailTask(b, t, "Refused")
    <3>1. \E x : inputs' = [inputs EXCEPT ![b][t] = x]
      BY <1>9, <2>2 DEF LoadTrace
    <3> QED  BY <1>3, <1>9, <2>2, <3>1 DEF LoadTrace, Running
  <2> QED  BY <2>1, <2>2
<1>10. ASSUME NEW d \in Deps[t], LoadArtifacts(b, t, d) PROVE Local
  <2>1. CASE FailTask(b, t, "Refused")
    BY <1>5, <1>10, <2>1 DEF LoadArtifacts, Running
  <2>2. CASE ~FailTask(b, t, "Refused")
    <3>1. PICK x : inputs' = [inputs EXCEPT ![b][t][d].digest = x]
      BY <1>10, <2>2 DEF LoadArtifacts
    <3>2. InputShapes' /\ Others(inputs, inputs')
      BY <1>0, <3>1 DEF InputShapes
    <3> QED  BY <1>10, <2>2, <3>2 DEF LoadArtifacts, Running
  <2> QED  BY <2>1, <2>2
<1>11. ASSUME BeginStores(b, t) PROVE Local
  <2>1. \E x : inputs' = [inputs EXCEPT ![b][t] = x]
    BY <1>11 DEF BeginStores
  <2> QED  BY <1>1, <1>3, <1>11, <2>1 DEF BeginStores, Running
<1>12. ASSUME NEW p \in Outputs[t], DeclareArtifact(b, t, p) PROVE Local
  <2>1. CASE FailTask(b, t, "Refused")
    BY <1>5, <1>12, <2>1 DEF DeclareArtifact, NextArtifact, Running
  <2>2. CASE ~FailTask(b, t, "Refused")
    BY <1>2, <1>4, <1>12, <2>2 DEF DeclareArtifact, NextArtifact, Running
  <2> QED  BY <2>1, <2>2
<1>13. ASSUME NEW p \in Outputs[t], StoreMetadata(b, t, p) \/ StoreContent(b, t, p) PROVE Local
  BY <1>2, <1>4, <1>13 DEF StoreMetadata, StoreContent, Running
<1>14. ASSUME NEW p \in Outputs[t], NEW d \in Deps[t], NEW type \in {"Link", "LinkOverride"},
              LinkArtifact(b, t, p, d, type)
       PROVE  Local
  <2>1. CASE FailTask(b, t, "Refused")
    BY <1>5, <1>14, <2>1 DEF LinkArtifact, NextArtifact, Running
  <2>2. CASE ~FailTask(b, t, "Refused")
    BY <1>2, <1>4, <1>14, <2>2 DEF LinkArtifact, NextArtifact, Running
  <2> QED  BY <2>1, <2>2
<1>15. ASSUME CompleteTask(b, t) PROVE Local
  BY <1>1, <1>4, <1>15 DEF CompleteTask, Running
<1>16. Local
  BY <1>6, <1>7, <1>8, <1>9, <1>10, <1>11, <1>12, <1>13, <1>14, <1>15 DEF TaskStep
<1> QED  BY <1>16

\* Steps of a build as a whole and edits leave what tasks know alone.
LEMMA OutsideReads ==
    ASSUME IInv, RInv, UNCHANGED <<step, hash, inputs, written>>,
           \A b \in Builds : build'[b] = "Idle" => build[b] = "Idle",
           \A b \in Builds : build'[b] = "Running" => build[b] \in {"Idle", "Running"},
           source' = source \/ EditsDuringBuild \/ \A b \in Builds : build[b] # "Running"
                                                               /\ build'[b] # "Running"
    PROVE  RInv'
<1> USE DEF RInv
<1>1. InputShapes'
  BY DEF InputShapes
<1>2. Located'
  BY DEF Located, AllStored
<1>3. HashOfDeps'
  <2> SUFFICES ASSUME NEW b \in Builds, NEW t \in Tasks
               PROVE  /\ build'[b] = "Idle" => step[b][t] = "New"
                      /\ step[b][t] \in AfterHash =>
                            /\ \A d \in Deps[t] : step[b][d] = "Completed"
                            /\ hash[b][t].deps = {<<d, hash[b][d]>> : d \in Deps[t]}
                            /\ hash[b][t] = Digest(t, hash[b][t].version, hash[b][t].deps)
                            /\ build'[b] = "Running" /\ ~EditsDuringBuild
                                  => hash[b][t].version = Version(t)'
    BY DEF HashOfDeps
  <2>1. step[b][t] \in AfterHash => build[b] # "Idle"
    BY DEF HashOfDeps, AfterHash
  <2>2. source' = source => Version(t)' = Version(t)
    BY DEF Version
  <2> QED  BY <2>1, <2>2 DEF HashOfDeps
<1> QED  BY <1>1, <1>2, <1>3

LEMMA TaskHashes ==
    ASSUME IInv, RInv, NEW b \in Builds, NEW t \in Tasks, TaskStep(b, t)
    PROVE  HashOfDeps'
<1> USE DEF RInv
<1> USE TaskFootprint
<1>1. step[b][t] \notin AfterHash /\ step'[b][t] \in AfterHash => ComputeHash(b, t)
  <2>1. \A s : FailTask(b, t, s) => step'[b][t] = s
    BY DEF FailTask, SetStep, IInv, Shapes
  <2> QED  BY <2>1 DEF TaskStep, CancelTask, RunFails, ContainsTrace, LoadTrace, LoadArtifacts,
                BeginStores, DeclareArtifact, StoreMetadata, StoreContent, LinkArtifact,
                NextArtifact, CompleteTask, Running, AfterHash
<1> SUFFICES ASSUME NEW c \in Builds, NEW u \in Tasks
             PROVE  /\ build'[c] = "Idle" => step'[c][u] = "New"
                    /\ step'[c][u] \in AfterHash =>
                          /\ \A d \in Deps[u] : step'[c][d] = "Completed"
                          /\ hash'[c][u].deps = {<<d, hash'[c][d]>> : d \in Deps[u]}
                          /\ hash'[c][u] = Digest(u, hash'[c][u].version, hash'[c][u].deps)
                          /\ build'[c] = "Running" /\ ~EditsDuringBuild
                                => hash'[c][u].version = Version(u)'
  BY DEF HashOfDeps
<1>2. \A v \in Tasks : step[c][v] = "Completed" =>
          step'[c][v] = "Completed" /\ hash'[c][v] = hash[c][v]
  OBVIOUS
<1>3. build'[c] = "Idle" => step'[c][u] = "New"
  BY DEF HashOfDeps
<1>4. Deps[u] \subseteq Tasks
  BY GraphAssumption
<1>5. Version(u)' = Version(u)
  BY DEF Version
<1>6. CASE step[c][u] \in AfterHash
  <2>1. hash'[c][u] = hash[c][u]
    BY <1>6 DEF AfterHash
  <2>2. \A d \in Deps[u] : step[c][d] = "Completed" /\ step'[c][d] = "Completed"
                           /\ hash'[c][d] = hash[c][d]
    BY <1>2, <1>4, <1>6 DEF HashOfDeps
  <2>3. {<<d, hash'[c][d]>> : d \in Deps[u]} = {<<d, hash[c][d]>> : d \in Deps[u]}
    BY <2>2
  <2> QED  BY <1>3, <1>5, <1>6, <2>1, <2>2, <2>3 DEF HashOfDeps
<1>7. CASE step[c][u] \notin AfterHash /\ step'[c][u] \in AfterHash
  <2>1. c = b /\ u = t /\ ComputeHash(b, t)
    BY <1>1, <1>7
  <2>2. /\ \A d \in Deps[t] : step[b][d] = "Completed"
        /\ hash' = [hash EXCEPT ![b][t] = Digest(t, Version(t), {<<d, hash[b][d]>> : d \in Deps[t]})]
    BY <2>1 DEF ComputeHash, Version
  <2>3. hash'[b][t] = Digest(t, Version(t), {<<d, hash[b][d]>> : d \in Deps[t]})
    BY <2>2 DEF IInv, Shapes
  <2>4. \A d \in Deps[t] : step'[b][d] = "Completed" /\ hash'[b][d] = hash[b][d]
    <3>1. \A d \in Deps[t] : d \in Tasks /\ step[b][d] = "Completed"
      BY <1>4, <2>1, <2>2
    <3>2. \A v \in Tasks : step[b][v] = "Completed" =>
              step'[b][v] = "Completed" /\ hash'[b][v] = hash[b][v]
      BY <1>2, <2>1
    <3> QED  BY <3>1, <3>2
  <2>5. {<<d, hash'[b][d]>> : d \in Deps[t]} = {<<d, hash[b][d]>> : d \in Deps[t]}
    BY <2>4
  <2>6. /\ hash'[b][t].version = Version(t)
        /\ hash'[b][t].deps = {<<d, hash[b][d]>> : d \in Deps[t]}
    BY <2>3 DEF Digest
  <2>7. hash'[b][t] = Digest(t, hash'[b][t].version, hash'[b][t].deps)
    BY <2>3, <2>6
  <2>8. hash'[b][t].deps = {<<d, hash'[b][d]>> : d \in Deps[t]}
    BY <2>5, <2>6
  <2> HIDE DEF RInv
  <2> QED  BY <1>3, <1>5, <2>1, <2>4, <2>6, <2>7, <2>8
<1> QED  BY <1>3, <1>6, <1>7

\* What a task has read of a dependency stays, and is complete when it is read.
LEMMA TaskReads ==
    ASSUME IInv, RInv, NEW b \in Builds, NEW t \in Tasks, TaskStep(b, t)
    PROVE  Located'
<1> USE DEF RInv
<1> USE TaskFootprint
<1> DEFINE From(c, u, d) == /\ d \in Tasks /\ step[c][d] = "Completed"
                            /\ inputs'[c][u][d].generation \in Builds
                            /\ step[inputs'[c][u][d].generation][d] = "Completed"
                            /\ hash[inputs'[c][u][d].generation][d] = hash[c][d]
                            /\ AllStored(inputs'[c][u][d].generation, d)
<1>1. \A c \in Builds, u \in Tasks : step[c][u] = "Completed" =>
          /\ step'[c][u] = "Completed" /\ hash'[c][u] = hash[c][u]
          /\ AllStored(c, u) => AllStored(c, u)'
  BY DEF AllStored
<1>2. SUFFICES \A c \in Builds, u \in Tasks :
                  /\ step'[c][u] = "Storing" => Deps[u] \subseteq DOMAIN inputs'[c][u]
                  /\ \A d \in DOMAIN inputs'[c][u] \ {u} : From(c, u, d)
  BY <1>1 DEF Located
<1>3. \A c \in Builds, u \in Tasks : inputs'[c][u] = inputs[c][u] =>
          /\ step[c][u] = "Storing" => Deps[u] \subseteq DOMAIN inputs'[c][u]
          /\ \A d \in DOMAIN inputs'[c][u] \ {u} : From(c, u, d)
  BY DEF Located
<1>4. SUFFICES /\ step'[b][t] = "Storing" => Deps[t] \subseteq DOMAIN inputs'[b][t]
               /\ \A d \in DOMAIN inputs'[b][t] \ {t} : From(b, t, d)
  BY <1>3
<1> HIDE DEF From
<1>5. ASSUME inputs' = inputs, step'[b][t] = "Storing" => step[b][t] = "Storing"
      PROVE  /\ step'[b][t] = "Storing" => Deps[t] \subseteq DOMAIN inputs'[b][t]
             /\ \A d \in DOMAIN inputs'[b][t] \ {t} : From(b, t, d)
  BY <1>3, <1>5
<1>6. \A s : SetStep(b, t, s) => step'[b][t] = s
  BY DEF SetStep, IInv, Shapes
<1>7. ASSUME NEW s \in FailedSteps, FailTask(b, t, s)
      PROVE  inputs' = inputs /\ step'[b][t] # "Storing"
  BY <1>6, <1>7 DEF FailTask, FailedSteps
<1>8. CASE CancelTask(b, t) \/ RunFails(b, t) \/ ComputeHash(b, t) \/ ContainsTrace(b, t)
           \/ CompleteTask(b, t)
  <2>1. inputs' = inputs /\ (step'[b][t] = "Storing" => step[b][t] = "Storing")
    BY <1>6, <1>7, <1>8
       DEF CancelTask, RunFails, ComputeHash, ContainsTrace, CompleteTask, FailedSteps
  <2> QED  BY <1>5, <2>1
<1>9. CASE \E p \in Outputs[t] :
              DeclareArtifact(b, t, p) \/ StoreMetadata(b, t, p) \/ StoreContent(b, t, p)
  <2>1. inputs' = inputs /\ (step'[b][t] = "Storing" => step[b][t] = "Storing")
    BY <1>7, <1>9 DEF DeclareArtifact, StoreMetadata, StoreContent, FailedSteps
  <2> QED  BY <1>5, <2>1
<1>10. CASE \E p \in Outputs[t], d \in Deps[t], type \in {"Link", "LinkOverride"} :
               LinkArtifact(b, t, p, d, type)
  <2>1. inputs' = inputs /\ (step'[b][t] = "Storing" => step[b][t] = "Storing")
    BY <1>7, <1>10 DEF LinkArtifact, FailedSteps
  <2> QED  BY <1>5, <2>1
<1>11. ASSUME NEW d \in Deps[t], LoadTrace(b, t, d)
       PROVE  /\ step'[b][t] = "Storing" => Deps[t] \subseteq DOMAIN inputs'[b][t]
              /\ \A e \in DOMAIN inputs'[b][t] \ {t} : From(b, t, e)
  <2>1. CASE FailTask(b, t, "Refused")
    BY <1>5, <1>7, <2>1 DEF FailedSteps
  <2>2. CASE ~FailTask(b, t, "Refused")
    <3> DEFINE key == <<hash[b][d], d>>
    <3>1. /\ key \in DOMAIN traces /\ step' = step /\ step[b][t] = "Running"
          /\ inputs' = [inputs EXCEPT ![b][t] =
                            Put(@, d, [generation |-> traces[key], digest |-> None])]
      BY <1>11, <2>2 DEF LoadTrace, Running
    <3>2. inputs'[b][t] = Put(inputs[b][t], d, [generation |-> traces[key], digest |-> None])
      BY <3>1 DEF InputShapes
    <3>3. /\ DOMAIN inputs'[b][t] = DOMAIN inputs[b][t] \cup {d}
          /\ inputs'[b][t][d].generation = traces[key]
          /\ \A e \in DOMAIN inputs[b][t] : e # d => inputs'[b][t][e] = inputs[b][t][e]
      BY <3>2 DEF Put
    <3>4. PICK c \in Builds, u \in Tasks :
              /\ key = <<hash[c][u], u>> /\ traces[key] = c
              /\ step[c][u] = "Completed" /\ AllStored(c, u)
      BY <3>1 DEF IInv, Traced
    <3>5. u = d /\ hash[c][d] = hash[b][d]
      BY <3>4
    <3>6. step[b][d] = "Completed"
      BY <3>1 DEF HashOfDeps, AfterHash
    <3>7. From(b, t, d)
      BY <3>3, <3>4, <3>5, <3>6 DEF From
    <3>8. \A e \in DOMAIN inputs[b][t] \ {t} : e # d => From(b, t, e)
      BY <3>3 DEF Located, From
    <3> QED  BY <3>1, <3>3, <3>7, <3>8
  <2> QED  BY <2>1, <2>2
<1>12. ASSUME NEW d \in Deps[t], LoadArtifacts(b, t, d)
       PROVE  /\ step'[b][t] = "Storing" => Deps[t] \subseteq DOMAIN inputs'[b][t]
              /\ \A e \in DOMAIN inputs'[b][t] \ {t} : From(b, t, e)
  <2>1. CASE FailTask(b, t, "Refused")
    BY <1>5, <1>7, <2>1 DEF FailedSteps
  <2>2. CASE ~FailTask(b, t, "Refused")
    <3>1. PICK x : inputs' = [inputs EXCEPT ![b][t][d].digest = x]
      BY <1>12, <2>2 DEF LoadArtifacts
    <3>2. step' = step /\ step[b][t] = "Running"
      BY <1>12, <2>2 DEF LoadArtifacts, Running
    <3>3. inputs'[b][t] = [inputs[b][t] EXCEPT ![d].digest = x]
      BY <3>1 DEF InputShapes
    <3>4. /\ DOMAIN inputs'[b][t] = DOMAIN inputs[b][t]
          /\ \A e \in DOMAIN inputs[b][t] :
                inputs'[b][t][e].generation = inputs[b][t][e].generation
      BY <3>3
    <3>5. \A e \in DOMAIN inputs[b][t] \ {t} : From(b, t, e)
      BY <3>4 DEF Located, From
    <3> QED  BY <3>2, <3>4, <3>5
  <2> QED  BY <2>1, <2>2
<1>13. CASE BeginStores(b, t)
  <2>1. PICK x : /\ inputs' = [inputs EXCEPT ![b][t] = Put(@, t, x)]
                 /\ DOMAIN inputs[b][t] = Deps[t]
    BY <1>13 DEF BeginStores
  <2>2. inputs'[b][t] = Put(inputs[b][t], t, x)
    BY <2>1 DEF InputShapes
  <2>3. /\ DOMAIN inputs'[b][t] = DOMAIN inputs[b][t] \cup {t}
        /\ \A e \in DOMAIN inputs[b][t] : e # t => inputs'[b][t][e] = inputs[b][t][e]
    BY <2>2 DEF Put
  <2>4. \A e \in DOMAIN inputs[b][t] \ {t} : From(b, t, e)
    BY <2>3 DEF Located, From
  <2> QED  BY <2>1, <2>3, <2>4
<1> QED  BY <1>8, <1>9, <1>10, <1>11, <1>12, <1>13 DEF TaskStep

LEMMA NextReads == ASSUME IInv, RInv, [Next]_vars PROVE RInv'
<1>1. CASE UNCHANGED vars
  BY <1>1, OutsideReads DEF vars
<1>2. ASSUME NEW t \in Sources, NEW v \in Versions, Edit(t, v) PROVE RInv'
  BY <1>2, OutsideReads DEF Edit
<1>3. ASSUME NEW b \in Builds, StartBuild(b) \/ AbandonBuild(b) \/ FinishBuild(b) PROVE RInv'
  <2>0. build \in [Builds -> BuildStates]
    BY DEF IInv, Shapes
  <2>1. \A c \in Builds :
            \/ build'[c] = build[c]
            \/ build[c] = "Idle" /\ build'[c] = "Running"
            \/ build'[c] \in {"Abandoned", "Finished"}
    BY <1>3, <2>0 DEF StartBuild, AbandonBuild, FinishBuild
  <2> QED  BY <1>3, <2>1, OutsideReads DEF StartBuild, AbandonBuild, FinishBuild
<1>4. ASSUME NEW b \in Builds, NEW t \in Tasks, TaskStep(b, t) PROVE RInv'
  BY <1>4, TaskHashes, TaskReads, TaskFootprint DEF RInv
<1> QED  BY <1>1, <1>2, <1>3, <1>4 DEF Next, BuildStep

-----------------------------------------------------------------------------
(* Where links lead.                                                       *)

\* Links form no ring: any set of entries has one that is a file or leads out.
LinksEnd ==
    \A S \in (SUBSET DOMAIN entries) \ {{}} :
        \E a \in S : entries[a].type = "File" \/ entries[a].link \notin S

\* There are functions as the recursive definitions of Target and Metadata ask
\* for. For Metadata it is the entry that is asked, whose metadata may change.
HasTarget ==
    \E f : f = [a \in DOMAIN entries |->
                   IF entries[a].type = "File" THEN a ELSE f[entries[a].link]]
HasBearer ==
    \E f : /\ f = [a \in DOMAIN entries |->
                      IF entries[a].type = "Link" THEN f[entries[a].link] ELSE a]
           /\ \A a \in DOMAIN entries : f[a] \in DOMAIN entries /\ entries[f[a]].type # "Link"

LinkInv == LinksEnd /\ HasTarget /\ HasBearer

LEMMA InitLinks == Init => LinkInv
<1> SUFFICES ASSUME Init PROVE LinkInv
  OBVIOUS
<1>1. DOMAIN entries = {}
  BY DEF Init
<1>2. LinksEnd
  BY <1>1 DEF LinksEnd
<1>3. \A f : [a \in DOMAIN entries |->
                 IF entries[a].type = "File" THEN a ELSE f[entries[a].link]] = [a \in {} |-> a]
  BY <1>1
<1>4. \A f : [a \in DOMAIN entries |->
                 IF entries[a].type = "Link" THEN f[entries[a].link] ELSE a] = [a \in {} |-> a]
  BY <1>1
<1>5. HasTarget
  BY <1>3 DEF HasTarget
<1>6. HasBearer
  BY <1>1, <1>4 DEF HasBearer
<1> QED  BY <1>2, <1>5, <1>6 DEF LinkInv

\* An entry is added whose link leads to one that is there, or metadata changes.
Extends(x) ==
    /\ DOMAIN entries' = DOMAIN entries \cup {x}
    /\ \A a \in DOMAIN entries :
          entries'[a].type = entries[a].type /\ entries'[a].link = entries[a].link
    /\ x \notin DOMAIN entries =>
          entries'[x].type = "File" \/ entries'[x].link \in DOMAIN entries

LEMMA ExtendsKeepsLinks ==
    ASSUME Entries, LinkInv, NEW x, Extends(x)
    PROVE  LinkInv'
<1> USE DEF Extends, LinkInv
<1>0. \A a \in DOMAIN entries' : entries'[a].type = "File" \/ entries'[a].link \in DOMAIN entries
  BY DEF Entries
<1>1. LinksEnd'
  <2> SUFFICES ASSUME NEW S \in (SUBSET DOMAIN entries') \ {{}}
               PROVE  \E a \in S : entries'[a].type = "File" \/ entries'[a].link \notin S
    BY DEF LinksEnd
  <2>1. CASE x \in DOMAIN entries
    BY <2>1 DEF LinksEnd
  <2>2. CASE x \notin DOMAIN entries /\ S \subseteq {x}
    BY <2>2
  <2>3. CASE x \notin DOMAIN entries /\ S \ {x} # {}
    <3>1. S \ {x} \in (SUBSET DOMAIN entries) \ {{}}
      BY <2>3
    <3>2. PICK a \in S \ {x} : entries[a].type = "File" \/ entries[a].link \notin S \ {x}
      BY <3>1 DEF LinksEnd
    <3>3. a \in DOMAIN entries
      OBVIOUS
    <3> QED  BY <1>0, <2>3, <3>2, <3>3
  <2> QED  BY <2>1, <2>2, <2>3
<1>2. HasTarget'
  <2>1. PICK f : f = [a \in DOMAIN entries |->
                        IF entries[a].type = "File" THEN a ELSE f[entries[a].link]]
    BY DEF HasTarget
  <2> DEFINE g == [a \in DOMAIN entries' |->
                      IF entries'[a].type = "File" THEN a ELSE f[entries'[a].link]]
  <2>2. \A a \in DOMAIN entries : g[a] = f[a]
    BY <2>1
  <2>3. g = [a \in DOMAIN entries' |->
                IF entries'[a].type = "File" THEN a ELSE g[entries'[a].link]]
    BY <1>0, <2>2
  <2> HIDE DEF g
  <2> QED  BY <2>3 DEF HasTarget
<1>3. HasBearer'
  <2>1. PICK f : /\ f = [a \in DOMAIN entries |->
                            IF entries[a].type = "Link" THEN f[entries[a].link] ELSE a]
                 /\ \A a \in DOMAIN entries :
                       f[a] \in DOMAIN entries /\ entries[f[a]].type # "Link"
    BY DEF HasBearer
  <2> DEFINE g == [a \in DOMAIN entries' |->
                      IF entries'[a].type = "Link" THEN f[entries'[a].link] ELSE a]
  <2>2. \A a \in DOMAIN entries : g[a] = f[a]
    BY <2>1
  <2>3. \A a \in DOMAIN entries' : entries'[a].type = "Link" => entries'[a].link \in DOMAIN entries
    BY <1>0
  <2>4. g = [a \in DOMAIN entries' |->
                IF entries'[a].type = "Link" THEN g[entries'[a].link] ELSE a]
    BY <2>2, <2>3
  <2>5. \A a \in DOMAIN entries' : g[a] \in DOMAIN entries' /\ entries'[g[a]].type # "Link"
    BY <2>1, <2>3
  <2> HIDE DEF g
  <2> QED  BY <2>4, <2>5 DEF HasBearer
<1> QED  BY <1>1, <1>2, <1>3

\* Every step leaves the entries alone or extends them.
LEMMA NextLinks == ASSUME IInv, LinkInv, [Next]_vars PROVE LinkInv'
<1>1. ASSUME entries' = entries PROVE LinkInv'
  BY <1>1 DEF LinkInv, LinksEnd, HasTarget, HasBearer
<1>2. \A s, b, t : FailTask(b, t, s) => entries' = entries
  BY DEF FailTask, cache
<1>3. ASSUME NEW a, NEW e, a \notin DOMAIN entries, entries' = Put(entries, a, e),
             e.type = "File" \/ e.link \in DOMAIN entries
      PROVE  LinkInv'
  <2>1. Extends(a)
    BY <1>3 DEF Extends, Put
  <2> QED  BY <2>1, ExtendsKeepsLinks DEF IInv
<1>4. ASSUME NEW b \in Builds, NEW t \in Tasks, NEW p \in Outputs[t], DeclareArtifact(b, t, p)
      PROVE  LinkInv'
  BY <1>1, <1>2, <1>3, <1>4 DEF DeclareArtifact
<1>5. ASSUME NEW b \in Builds, NEW t \in Tasks, NEW p \in Outputs[t], StoreMetadata(b, t, p)
      PROVE  LinkInv'
  <2> DEFINE a == ArtifactId(b, hash[b][t], p)
  <2>1. entries' = [entries EXCEPT ![a].metadata = t] /\ p \in DOMAIN written[b][t]
    BY <1>5 DEF StoreMetadata
  <2>2. a \in DOMAIN entries
    BY <2>1 DEF IInv, Begun
  <2> HIDE DEF a
  <2>3. entries'[a] = [entries[a] EXCEPT !.metadata = t]
    BY <2>1, <2>2
  <2>4. Extends(a)
    BY <2>1, <2>2, <2>3 DEF Extends
  <2> QED  BY <2>4, ExtendsKeepsLinks DEF IInv
<1>6. ASSUME NEW b \in Builds, NEW t \in Tasks, NEW p \in Outputs[t], NEW d \in Deps[t],
             NEW type \in {"Link", "LinkOverride"}, LinkArtifact(b, t, p, d, type)
      PROVE  LinkInv'
  <2> DEFINE src == ArtifactId(inputs[b][t][d].generation, hash[b][d], p)
             dst == ArtifactId(b, hash[b][t], p)
             entry == [type |-> type, link |-> src,
                       metadata |-> IF type = "Link" THEN None ELSE t]
  <2>1. CASE FailTask(b, t, "Refused")
    BY <1>1, <1>2, <2>1
  <2>2. CASE ~FailTask(b, t, "Refused")
    <3>1. src \in DOMAIN entries /\ dst \notin DOMAIN entries /\ entries' = Put(entries, dst, entry)
      BY <1>6, <2>2 DEF LinkArtifact
    <3>2. entry.link = src
      OBVIOUS
    <3> HIDE DEF entry, src, dst
    <3> QED  BY <1>3, <3>1, <3>2
  <2> QED  BY <2>1, <2>2
<1>7. ASSUME NEW b \in Builds, NEW t \in Tasks,
             \/ StartBuild(b) \/ AbandonBuild(b) \/ FinishBuild(b) \/ CancelTask(b, t)
             \/ RunFails(b, t) \/ ComputeHash(b, t) \/ ContainsTrace(b, t)
             \/ BeginStores(b, t) \/ CompleteTask(b, t)
             \/ \E d \in Deps[t] : LoadTrace(b, t, d) \/ LoadArtifacts(b, t, d)
             \/ \E p \in Outputs[t] : StoreContent(b, t, p)
      PROVE  entries' = entries
  BY <1>2, <1>7 DEF StartBuild, AbandonBuild, FinishBuild, CancelTask, RunFails, ComputeHash,
       ContainsTrace, BeginStores, CompleteTask, LoadTrace, LoadArtifacts, StoreContent, cache
<1>8. ASSUME NEW b \in Builds, NEW t \in Tasks, TaskStep(b, t) PROVE LinkInv'
  BY <1>1, <1>4, <1>5, <1>6, <1>7, <1>8 DEF TaskStep
<1>9. ASSUME NEW b \in Builds, StartBuild(b) \/ AbandonBuild(b) \/ FinishBuild(b)
      PROVE  LinkInv'
  BY <1>1, <1>9 DEF StartBuild, AbandonBuild, FinishBuild, cache
<1>10. UNCHANGED vars \/ (\E t \in Sources, v \in Versions : Edit(t, v)) => entries' = entries
  BY DEF vars, cache, Edit
<1> QED  BY <1>1, <1>8, <1>9, <1>10 DEF Next, BuildStep

-----------------------------------------------------------------------------
(* What the artifacts of a task are.                                       *)

\* A task that is not new keeps its hash, and a completed one its artifacts.
LEMMA TasksKeep ==
    ASSUME IInv, RInv, [Next]_vars
    PROVE  \A c \in Builds, u \in Tasks :
              /\ step[c][u] # "New" => step'[c][u] # "New" /\ hash'[c][u] = hash[c][u]
              /\ step[c][u] = "Completed" =>
                    /\ step'[c][u] = "Completed"
                    /\ AllStored(c, u) => AllStored(c, u)'
<1>1. ASSUME UNCHANGED <<step, hash, written>>
      PROVE  \A c \in Builds, u \in Tasks :
                /\ step'[c][u] = step[c][u] /\ hash'[c][u] = hash[c][u]
                /\ AllStored(c, u)' = AllStored(c, u)
  BY <1>1 DEF AllStored
<1>2. ASSUME NEW b \in Builds, NEW t \in Tasks, TaskStep(b, t)
      PROVE  \A c \in Builds, u \in Tasks :
                /\ step[c][u] # "New" => step'[c][u] # "New" /\ hash'[c][u] = hash[c][u]
                /\ step[c][u] = "Completed" =>
                      /\ step'[c][u] = "Completed"
                      /\ AllStored(c, u) => AllStored(c, u)'
  BY <1>2, TaskFootprint DEF RInv, AllStored
<1>3. ASSUME NEW b \in Builds, StartBuild(b) \/ AbandonBuild(b) \/ FinishBuild(b)
      PROVE  UNCHANGED <<step, hash, written>>
  BY <1>3 DEF StartBuild, AbandonBuild, FinishBuild
<1>4. UNCHANGED vars \/ (\E t \in Sources, v \in Versions : Edit(t, v))
         => UNCHANGED <<step, hash, written>>
  BY DEF vars, Edit
<1> QED  BY <1>1, <1>2, <1>3, <1>4 DEF Next, BuildStep

\* Whatever is written was written before, or is written by this step.
LEMMA WrittenBy ==
    ASSUME IInv, RInv, [Next]_vars, NEW c \in Builds, NEW u \in Tasks,
           NEW q \in DOMAIN written'[c][u]
    PROVE  \/ q \in DOMAIN written[c][u] /\ written'[c][u][q] = written[c][u][q]
           \/ DeclareArtifact(c, u, q) /\ written'[c][u][q] = "Declared"
           \/ StoreMetadata(c, u, q) /\ written'[c][u][q] = "Described"
           \/ StoreContent(c, u, q) /\ written'[c][u][q] = "Stored"
           \/ /\ written'[c][u][q] = "Stored"
              /\ \E d \in Deps[u], type \in {"Link", "LinkOverride"} :
                    LinkArtifact(c, u, q, d, type) /\ entries' # entries
<1> DEFINE Goal ==
           \/ q \in DOMAIN written[c][u] /\ written'[c][u][q] = written[c][u][q]
           \/ DeclareArtifact(c, u, q) /\ written'[c][u][q] = "Declared"
           \/ StoreMetadata(c, u, q) /\ written'[c][u][q] = "Described"
           \/ StoreContent(c, u, q) /\ written'[c][u][q] = "Stored"
           \/ /\ written'[c][u][q] = "Stored"
              /\ \E d \in Deps[u], type \in {"Link", "LinkOverride"} :
                    LinkArtifact(c, u, q, d, type) /\ entries' # entries
<1> SUFFICES Goal
  OBVIOUS
<1>1. ASSUME written'[c][u] = written[c][u] PROVE Goal
  BY <1>1
<1>2. ASSUME NEW p, NEW s, Write(c, u, p, s) PROVE (q = p /\ written'[c][u][q] = s) \/ Goal
  <2>1. written'[c][u] = Put(written[c][u], p, s)
    BY <1>2 DEF Write, IInv, Shapes
  <2>2. CASE q = p
    BY <2>1, <2>2 DEF Put
  <2>3. CASE q # p
    <3>1. q \in DOMAIN written[c][u] /\ written'[c][u][q] = written[c][u][q]
      BY <2>1, <2>3 DEF Put
    <3> QED  BY <3>1
  <2> QED  BY <2>2, <2>3
<1>3. ASSUME NEW s, FailTask(c, u, s) PROVE Goal
  BY <1>1, <1>3 DEF FailTask
<1>4. ASSUME NEW p \in Outputs[u], DeclareArtifact(c, u, p) PROVE Goal
  <2> HIDE DEF Goal
  <2>1. FailTask(c, u, "Refused") \/ Write(c, u, p, "Declared")
    BY <1>4 DEF DeclareArtifact
  <2> QED  BY <1>2, <1>3, <1>4, <2>1 DEF Goal
<1>5. ASSUME NEW p \in Outputs[u], StoreMetadata(c, u, p) PROVE Goal
  <2> HIDE DEF Goal
  <2>1. Write(c, u, p, "Described")
    BY <1>5 DEF StoreMetadata
  <2> QED  BY <1>2, <1>5, <2>1 DEF Goal
<1>6. ASSUME NEW p \in Outputs[u], StoreContent(c, u, p) PROVE Goal
  <2> HIDE DEF Goal
  <2>1. Write(c, u, p, "Stored")
    BY <1>6 DEF StoreContent
  <2> QED  BY <1>2, <1>6, <2>1 DEF Goal
<1>7. ASSUME NEW p \in Outputs[u], NEW d \in Deps[u], NEW type \in {"Link", "LinkOverride"},
             LinkArtifact(c, u, p, d, type)
      PROVE  Goal
  <2> HIDE DEF Goal
  <2>1. \/ FailTask(c, u, "Refused")
        \/ /\ Write(c, u, p, "Stored")
           /\ \E e : /\ ArtifactId(c, hash[c][u], p) \notin DOMAIN entries
                     /\ entries' = Put(entries, ArtifactId(c, hash[c][u], p), e)
    BY <1>7 DEF LinkArtifact
  <2>2. \A a, e : a \notin DOMAIN entries /\ entries' = Put(entries, a, e) => entries' # entries
    BY DEF Put
  <2> QED  BY <1>2, <1>3, <1>7, <2>1, <2>2 DEF Goal
<1>8. ASSUME \/ CancelTask(c, u) \/ RunFails(c, u) \/ ComputeHash(c, u) \/ ContainsTrace(c, u)
             \/ BeginStores(c, u) \/ CompleteTask(c, u)
             \/ \E d \in Deps[u] : LoadTrace(c, u, d) \/ LoadArtifacts(c, u, d)
      PROVE  Goal
  <2> HIDE DEF Goal
  <2>1. (\E s : FailTask(c, u, s)) \/ written' = written
    BY <1>8 DEF CancelTask, RunFails, ComputeHash, ContainsTrace, BeginStores, CompleteTask,
                LoadTrace, LoadArtifacts
  <2> QED  BY <1>1, <1>3, <2>1
<1>9. ASSUME NEW b \in Builds, NEW t \in Tasks, TaskStep(b, t) PROVE Goal
  <2>1. CASE b = c /\ t = u
    <3> HIDE DEF Goal
    <3> QED  BY <1>4, <1>5, <1>6, <1>7, <1>8, <1>9, <2>1 DEF TaskStep
  <2>2. CASE ~(b = c /\ t = u)
    <3> HIDE DEF Goal
    <3> QED  BY <1>1, <1>9, <2>2, TaskFootprint DEF RInv
  <2> QED  BY <2>1, <2>2
<1>10. ASSUME NEW b \in Builds, StartBuild(b) \/ AbandonBuild(b) \/ FinishBuild(b) PROVE Goal
  BY <1>1, <1>10 DEF StartBuild, AbandonBuild, FinishBuild
<1>11. UNCHANGED vars \/ (\E t \in Sources, v \in Versions : Edit(t, v)) => written' = written
  BY DEF vars, Edit
<1> HIDE DEF Goal
<1> QED  BY <1>1, <1>9, <1>10, <1>11 DEF Next, BuildStep

\* What a link of a task leads to: the artifact of the same path that a
\* dependency with the hash it has in this build has completed.
LinksTo(b, t, p, a) ==
    \E c \in Builds, d \in Deps[t] :
        /\ step[b][d] = "Completed" /\ step[c][d] = "Completed" /\ hash[c][d] = hash[b][d]
        /\ AllStored(c, d) /\ p \in Outputs[d]
        /\ a = ArtifactId(c, hash[c][d], p)

\* A described file has metadata; a linker's artifact is a link, and has
\* metadata if it overrides them.
StoredWell ==
    \A b \in Builds, t \in Tasks : \A p \in DOMAIN written[b][t] :
        LET e == entries[ArtifactId(b, hash[b][t], p)]
        IN /\ t \notin Linkers /\ written[b][t][p] # "Declared" => e.metadata # None
           /\ t \in Linkers => /\ e.type # "File"
                               /\ e.type = "LinkOverride" => e.metadata # None
                               /\ LinksTo(b, t, p, e.link)

LEMMA LinkedIsLocated ==
    ASSUME IInv, RInv, NEW b \in Builds, NEW t \in Tasks, NEW p, NEW d \in Deps[t],
           step[b][t] = "Storing", p \in Outputs[d]
    PROVE  LinksTo(b, t, p, ArtifactId(inputs[b][t][d].generation, hash[b][d], p))
<1>1. d \in Tasks
  BY GraphAssumption
<1>2. step[b][d] = "Completed" /\ d # t
  BY <1>1 DEF RInv, HashOfDeps, AfterHash
<1>3. d \in DOMAIN inputs[b][t] \ {t}
  BY <1>2 DEF RInv, Located
<1>4. /\ inputs[b][t][d].generation \in Builds
      /\ step[inputs[b][t][d].generation][d] = "Completed"
      /\ hash[inputs[b][t][d].generation][d] = hash[b][d]
      /\ AllStored(inputs[b][t][d].generation, d)
  BY <1>3 DEF RInv, Located
<1> QED  BY <1>2, <1>4 DEF LinksTo

LEMMA NextStoredWell ==
    ASSUME IInv, RInv, StoredWell, [Next]_vars
    PROVE  StoredWell'
<1>1. \A c \in Builds, u \in Tasks :
          /\ step[c][u] # "New" => hash'[c][u] = hash[c][u]
          /\ step[c][u] = "Completed" =>
                step'[c][u] = "Completed" /\ (AllStored(c, u) => AllStored(c, u)')
  BY TasksKeep
<1> DEFINE LinksAfter(b, t, p, x) ==
      \E c \in Builds, d \in Deps[t] :
          /\ step'[b][d] = "Completed" /\ step'[c][d] = "Completed" /\ hash'[c][d] = hash'[b][d]
          /\ AllStored(c, d)' /\ p \in Outputs[d]
          /\ x = ArtifactId(c, hash'[c][d], p)
<1>2. \A c \in Builds, u \in Tasks : \A p, x : LinksTo(c, u, p, x) => LinksAfter(c, u, p, x)
  <2>1. \A u \in Tasks : Deps[u] \subseteq Tasks
    BY GraphAssumption
  <2> QED  BY <1>1, <2>1 DEF LinksTo
<1> SUFFICES ASSUME NEW c \in Builds, NEW u \in Tasks, NEW q \in DOMAIN written'[c][u]
             PROVE  LET e == entries'[ArtifactId(c, hash'[c][u], q)]
                    IN /\ u \notin Linkers /\ written'[c][u][q] # "Declared" => e.metadata # None
                       /\ u \in Linkers => /\ e.type # "File"
                                           /\ e.type = "LinkOverride" => e.metadata # None
                                           /\ LinksAfter(c, u, q, e.link)
  BY DEF StoredWell, LinksTo
<1> HIDE DEF LinksAfter
<1> DEFINE a == ArtifactId(c, hash[c][u], q)
<1>3. ASSUME q \in DOMAIN written[c][u] PROVE hash'[c][u] = hash[c][u]
  BY <1>1, <1>3 DEF IInv, Progress, Unwritten
<1>4. CASE q \in DOMAIN written[c][u] /\ written'[c][u][q] = written[c][u][q]
  <2>1. written[c][u][q] = "Declared" => u \notin Linkers
    BY <1>4 DEF IInv, Progress
  <2>2. CASE written[c][u][q] = "Declared"
    BY <1>4, <2>1, <2>2
  <2>3. CASE written[c][u][q] # "Declared"
    <3>1. entries'[a] = entries[a]
      BY <1>4, <2>3, StoredIsKept
    <3>2. /\ u \notin Linkers => entries[a].metadata # None
          /\ u \in Linkers => /\ entries[a].type # "File"
                              /\ entries[a].type = "LinkOverride" => entries[a].metadata # None
                              /\ LinksTo(c, u, q, entries[a].link)
      BY <1>4, <2>3 DEF StoredWell
    <3> QED  BY <1>2, <1>3, <1>4, <3>1, <3>2
  <2> QED  BY <2>2, <2>3
<1>5. CASE DeclareArtifact(c, u, q) /\ written'[c][u][q] = "Declared"
  BY <1>5 DEF DeclareArtifact
<1>6. CASE StoreMetadata(c, u, q) /\ written'[c][u][q] = "Described"
  <2>1. /\ q \in DOMAIN written[c][u] /\ written[c][u][q] = "Declared"
        /\ entries' = [entries EXCEPT ![a].metadata = u]
    BY <1>6 DEF StoreMetadata
  <2>2. a \in DOMAIN entries
    BY <2>1 DEF IInv, Begun
  <2>3. u \notin Linkers
    BY <2>1 DEF IInv, Progress
  <2> HIDE DEF a
  <2>4. entries'[a] = [entries[a] EXCEPT !.metadata = u]
    BY <2>1, <2>2
  <2>5. entries'[a].metadata = u
    BY <2>2, <2>4 DEF IInv, Entries
  <2> QED  BY <1>3, <2>1, <2>3, <2>4, <2>5, NoneAssumption DEF a
<1>7. CASE StoreContent(c, u, q) /\ written'[c][u][q] = "Stored"
  <2>1. /\ q \in DOMAIN written[c][u] /\ written[c][u][q] = "Described" /\ entries' = entries
    BY <1>7 DEF StoreContent
  <2>2. u \notin Linkers
    BY <2>1 DEF IInv, Progress
  <2> QED  BY <1>3, <2>1, <2>2 DEF StoredWell
<1>8. CASE \E d \in Deps[u], type \in {"Link", "LinkOverride"} :
              LinkArtifact(c, u, q, d, type) /\ entries' # entries
  <2>1. PICK d \in Deps[u], type \in {"Link", "LinkOverride"} :
            LinkArtifact(c, u, q, d, type) /\ entries' # entries
    BY <1>8
  <2> DEFINE src == ArtifactId(inputs[c][u][d].generation, hash[c][d], q)
             entry == [type |-> type, link |-> src,
                       metadata |-> IF type = "Link" THEN None ELSE u]
  <2>2. ~FailTask(c, u, "Refused")
    BY <2>1 DEF FailTask, cache
  <2>3. /\ entries' = Put(entries, a, entry) /\ u \in Linkers
        /\ step[c][u] = "Storing" /\ q \in Outputs[d]
    BY <2>1, <2>2 DEF LinkArtifact, NextArtifact, Running
  <2>4. LinksAfter(c, u, q, src)
    BY <1>2, <2>3, LinkedIsLocated
  <2>5. entry.type = type /\ entry.link = src /\ (type = "LinkOverride" => entry.metadata = u)
    OBVIOUS
  <2>6. entries'[a] = entry
    BY <2>3 DEF Put
  <2>7. hash'[c][u] = hash[c][u]
    BY <1>1, <2>3
  <2> HIDE DEF src, entry
  <2> QED  BY <2>3, <2>4, <2>5, <2>6, <2>7, NoneAssumption
<1> QED  BY <1>4, <1>5, <1>6, <1>7, <1>8, WrittenBy

LInv == IInv /\ RInv /\ LinkInv /\ StoredWell

LEMMA AlwaysLInv == Spec => []LInv
<1>1. Init => LInv
  <2> SUFFICES ASSUME Init PROVE LInv
    OBVIOUS
  <2>1. DOMAIN << >> = {}
    OBVIOUS
  <2>2. \A b \in Builds, t \in Tasks : DOMAIN written[b][t] = {}
    BY <2>1 DEF Init
  <2>3. StoredWell
    BY <2>2 DEF StoredWell
  <2> QED  BY <2>3, InitInv, InitReads, InitLinks DEF LInv
<1>2. LInv /\ [Next]_vars => LInv'
  BY NextPreserves, NextReads, NextLinks, NextStoredWell DEF LInv
<1> QED  BY <1>1, <1>2, PTL DEF Spec

LEMMA TargetEquation ==
    ASSUME HasTarget, NEW a \in DOMAIN entries
    PROVE  Target[a] = IF entries[a].type = "File" THEN a ELSE Target[entries[a].link]
<1>1. Target = [x \in DOMAIN entries |->
                   IF entries[x].type = "File" THEN x ELSE Target[entries[x].link]]
  BY DEF HasTarget, Target
<1> QED  BY <1>1

LEMMA MetadataEquation ==
    ASSUME Entries, HasBearer, NEW a \in DOMAIN entries
    PROVE  Metadata[a] = IF entries[a].type = "Link" THEN Metadata[entries[a].link]
                                                      ELSE entries[a].metadata
<1>1. PICK f : /\ f = [x \in DOMAIN entries |->
                          IF entries[x].type = "Link" THEN f[entries[x].link] ELSE x]
               /\ \A x \in DOMAIN entries : f[x] \in DOMAIN entries /\ entries[f[x]].type # "Link"
  BY DEF HasBearer
<1> DEFINE m == [x \in DOMAIN entries |-> entries[f[x]].metadata]
<1>2. m = [x \in DOMAIN entries |->
              IF entries[x].type = "Link" THEN m[entries[x].link] ELSE entries[x].metadata]
  <2>1. \A x \in DOMAIN entries : entries[x].type = "Link" =>
            entries[x].link \in DOMAIN entries /\ f[x] = f[entries[x].link]
    BY <1>1 DEF Entries
  <2>2. \A x \in DOMAIN entries : entries[x].type # "Link" => f[x] = x
    BY <1>1
  <2> QED  BY <2>1, <2>2
<1> HIDE DEF m
<1>3. Metadata = [x \in DOMAIN entries |->
                     IF entries[x].type = "Link" THEN Metadata[entries[x].link]
                                                  ELSE entries[x].metadata]
  BY <1>2 DEF Metadata
<1> QED  BY <1>3

\* The ids of the artifacts that are stored.
StoredIds ==
    {a \in DOMAIN entries : \E b \in Builds, t \in Tasks : \E p \in DOMAIN written[b][t] :
        written[b][t][p] = "Stored" /\ a = ArtifactId(b, hash[b][t], p)}

\* A stored artifact is a file with content and metadata, or a link to a stored
\* artifact, with metadata of its own if it overrides them.
LEMMA StoredKinds ==
    ASSUME LInv, NEW a \in StoredIds
    PROVE  \/ entries[a].type = "File" /\ a \in DOMAIN content /\ entries[a].metadata # None
           \/ /\ entries[a].type # "File" /\ entries[a].link \in StoredIds
              /\ entries[a].type # "Link" => entries[a].metadata # None
<1>1. PICK b \in Builds, t \in Tasks : \E p \in DOMAIN written[b][t] :
          written[b][t][p] = "Stored" /\ a = ArtifactId(b, hash[b][t], p)
  BY DEF StoredIds
<1>2. PICK p \in DOMAIN written[b][t] :
          written[b][t][p] = "Stored" /\ a = ArtifactId(b, hash[b][t], p)
  BY <1>1
<1>3. CASE t \notin Linkers
  BY <1>2, <1>3 DEF LInv, IInv, Begun, StoredWell
<1>4. CASE t \in Linkers
  <2>1. /\ entries[a].type # "File"
        /\ entries[a].type = "LinkOverride" => entries[a].metadata # None
        /\ LinksTo(b, t, p, entries[a].link)
    BY <1>2, <1>4 DEF LInv, StoredWell
  <2>2. PICK c \in Builds, d \in Deps[t] :
            /\ AllStored(c, d) /\ p \in Outputs[d]
            /\ entries[a].link = ArtifactId(c, hash[c][d], p)
    BY <2>1 DEF LinksTo
  <2>3. d \in Tasks
    BY GraphAssumption
  <2>4. p \in DOMAIN written[c][d] /\ written[c][d][p] = "Stored"
    BY <2>2 DEF AllStored
  <2>5. entries[a].link \in DOMAIN entries
    BY <2>2, <2>3, <2>4 DEF LInv, IInv, Begun
  <2>6. entries[a].link \in StoredIds
    BY <2>2, <2>3, <2>4, <2>5 DEF StoredIds
  <2>7. a \in DOMAIN entries
    BY DEF StoredIds
  <2>8. entries[a].type \in {"File", "Link", "LinkOverride"}
    BY <2>7 DEF LInv, IInv, Entries
  <2> QED  BY <2>1, <2>6, <2>8
<1> QED  BY <1>3, <1>4

LEMMA StoredIsSound ==
    ASSUME LInv
    PROVE  \A a \in StoredIds : Loadable(a) /\ Metadata[a] # None
<1> DEFINE Bad == {a \in StoredIds : ~(Loadable(a) /\ Metadata[a] # None)}
<1>1. SUFFICES ASSUME Bad # {} PROVE FALSE
  OBVIOUS
<1>2. Bad \in (SUBSET DOMAIN entries) \ {{}}
  BY <1>1 DEF StoredIds
<1>3. PICK a \in Bad : entries[a].type = "File" \/ entries[a].link \notin Bad
  BY <1>2 DEF LInv, LinkInv, LinksEnd
<1>4. a \in StoredIds /\ a \in DOMAIN entries /\ ~(Loadable(a) /\ Metadata[a] # None)
  BY <1>3 DEF StoredIds
<1>5. /\ Target[a] = IF entries[a].type = "File" THEN a ELSE Target[entries[a].link]
      /\ Metadata[a] = IF entries[a].type = "Link" THEN Metadata[entries[a].link]
                                                    ELSE entries[a].metadata
  BY <1>4, TargetEquation, MetadataEquation DEF LInv, LinkInv, IInv
<1>6. CASE entries[a].type = "File"
  BY <1>4, <1>5, <1>6, StoredKinds DEF Loadable
<1>7. CASE entries[a].type # "File"
  <2>1. entries[a].link \in StoredIds /\ (entries[a].type # "Link" => entries[a].metadata # None)
    BY <1>4, <1>7, StoredKinds
  <2>2. Loadable(entries[a].link) /\ Metadata[entries[a].link] # None
    BY <1>3, <1>7, <2>1
  <2> QED  BY <1>4, <1>5, <1>7, <2>1, <2>2 DEF Loadable
<1> QED  BY <1>6, <1>7

\* Whoever finds a trace can load every artifact of its task through any number
\* of links, with its metadata (loadContentFollowingLinks and
\* loadMetadataFollowingLinks, memory_cache.cpp), for any number of builds that
\* share the cache, end early or store the same artifacts at the same time.
THEOREM TracedComplete == Spec => []TracedIsComplete
<1>1. LInv => TracedIsComplete
  <2> SUFFICES ASSUME LInv, NEW trace \in DOMAIN traces, NEW a \in ArtifactsOf(trace)
               PROVE  Loadable(a) /\ Metadata[a] # None
    BY DEF TracedIsComplete
  <2>1. PICK b \in Builds, t \in Tasks :
            /\ trace = <<hash[b][t], t>> /\ traces[trace] = b /\ AllStored(b, t)
    BY DEF LInv, IInv, Traced
  <2>2. PICK p \in Outputs[t] : a = ArtifactId(b, hash[b][t], p)
    BY <2>1 DEF ArtifactsOf
  <2>3. p \in DOMAIN written[b][t] /\ written[b][t][p] = "Stored"
    BY <2>1, <2>2 DEF AllStored
  <2>4. a \in DOMAIN entries
    BY <2>2, <2>3 DEF LInv, IInv, Begun
  <2>5. a \in StoredIds
    BY <2>2, <2>3, <2>4 DEF StoredIds
  <2> QED  BY <2>5, StoredIsSound
<1> QED  BY <1>1, AlwaysLInv, PTL

-----------------------------------------------------------------------------
(* What the artifacts of a task contain.                                   *)

SourcesAtRest == ~EditsDuringBuild

\* What tasks depend on are files: no artifact is linked from one that is
\* itself a link.
LinksToFiles == \A t \in Tasks : Deps[t] \cap Linkers = {}

\* A task reads of a dependency what its hash promises, and so stores what its
\* own hash promises.
AsHashed ==
    \A b \in Builds, t \in Tasks :
        /\ \A d \in DOMAIN inputs[b][t] \ {t} :
              inputs[b][t][d].digest # None => inputs[b][t][d].digest = hash[b][d]
        /\ step[b][t] = "Storing" /\ t \notin Linkers => inputs[b][t][t].digest = hash[b][t]
        /\ \A p \in DOMAIN written[b][t] :
              t \notin Linkers /\ written[b][t][p] = "Stored"
                 => content[ArtifactId(b, hash[b][t], p)] = hash[b][t]

LEMMA LoadedAsHashed ==
    ASSUME LInv, LinksToFiles, AsHashed, NEW b \in Builds, NEW t \in Tasks, NEW d \in Deps[t],
           step[b][t] = "Running", d \in DOMAIN inputs[b][t], NEW p \in Outputs[d]
    PROVE  LET a == ArtifactId(inputs[b][t][d].generation, hash[b][d], p)
           IN content[Target[a]] = hash[b][d]
<1> DEFINE c == inputs[b][t][d].generation
           a == ArtifactId(c, hash[b][d], p)
<1>1. d \in Tasks /\ d \notin Linkers
  BY GraphAssumption DEF LinksToFiles
<1>2. d # t
  BY <1>1 DEF LInv, RInv, HashOfDeps, AfterHash
<1>3. c \in Builds /\ hash[c][d] = hash[b][d] /\ AllStored(c, d)
  BY <1>2 DEF LInv, RInv, Located
<1>4. p \in DOMAIN written[c][d] /\ written[c][d][p] = "Stored"
  BY <1>3 DEF AllStored
<1>5. a = ArtifactId(c, hash[c][d], p)
  BY <1>3
<1>6. content[a] = hash[b][d]
  BY <1>1, <1>3, <1>4, <1>5 DEF AsHashed
<1>7. a \in DOMAIN entries /\ entries[a].type = "File"
  BY <1>1, <1>3, <1>4, <1>5 DEF LInv, IInv, Begun
<1> HIDE DEF a
<1>8. Target[a] = a
  BY <1>7, TargetEquation DEF LInv, LinkInv
<1> QED  BY <1>6, <1>8 DEF a

\* The digest a task computes from what it has read is its hash: the hashes of
\* its dependencies have not changed, and neither has its source.
LEMMA BegunAsHashed ==
    ASSUME LInv, SourcesAtRest, LinksToFiles, AsHashed,
           NEW b \in Builds, NEW t \in Tasks, BeginStores(b, t), t \notin Linkers
    PROVE  inputs'[b][t][t].digest = hash[b][t]
<1> DEFINE x == Digest(t, Version(t), {<<d, inputs[b][t][d].digest>> : d \in Deps[t]})
<1>1. /\ build[b] = "Running" /\ step[b][t] = "Running" /\ DOMAIN inputs[b][t] = Deps[t]
      /\ \A d \in Deps[t] : inputs[b][t][d].digest # None
      /\ inputs' = [inputs EXCEPT ![b][t] = Put(@, t, [generation |-> b, digest |-> x])]
  BY DEF BeginStores, Running, Version
<1>2. inputs'[b][t] = Put(inputs[b][t], t, [generation |-> b, digest |-> x])
  BY <1>1 DEF LInv, RInv, InputShapes
<1>3. inputs'[b][t][t].digest = x
  BY <1>2 DEF Put
<1>4. \A d \in Deps[t] : d \in Tasks /\ step[b][d] = "Completed"
  BY <1>1, GraphAssumption DEF LInv, RInv, HashOfDeps, AfterHash
<1>5. \A d \in Deps[t] : inputs[b][t][d].digest = hash[b][d]
  BY <1>1, <1>4 DEF AsHashed
<1>6. {<<d, inputs[b][t][d].digest>> : d \in Deps[t]} = {<<d, hash[b][d]>> : d \in Deps[t]}
  BY <1>5
<1>7. /\ hash[b][t].deps = {<<d, hash[b][d]>> : d \in Deps[t]}
      /\ hash[b][t] = Digest(t, hash[b][t].version, hash[b][t].deps)
      /\ hash[b][t].version = Version(t)
  BY <1>1 DEF SourcesAtRest, LInv, RInv, HashOfDeps, AfterHash
<1>8. x = hash[b][t]
  BY <1>6, <1>7
<1> QED  BY <1>3, <1>8

LEMMA NextAsHashed ==
    ASSUME LInv, SourcesAtRest, LinksToFiles, AsHashed, [Next]_vars
    PROVE  AsHashed'
<1>1. \A c \in Builds, u \in Tasks : step[c][u] # "New" => hash'[c][u] = hash[c][u]
  BY TasksKeep DEF LInv
<1>2. \A c \in Builds, u \in Tasks : \A d \in DOMAIN inputs[c][u] \ {u} : hash'[c][d] = hash[c][d]
  BY <1>1 DEF LInv, RInv, Located
<1> DEFINE Read(c, u) ==
      /\ \A d \in DOMAIN inputs'[c][u] \ {u} :
            inputs'[c][u][d].digest # None => inputs'[c][u][d].digest = hash'[c][d]
      /\ step'[c][u] = "Storing" /\ u \notin Linkers => inputs'[c][u][u].digest = hash'[c][u]
    Kept(c, u) == inputs'[c][u] = inputs[c][u] /\ (step'[c][u] = "Storing" => step[c][u] = "Storing")
<1>3. \A c \in Builds, u \in Tasks : Kept(c, u) => Read(c, u)
  BY <1>1, <1>2 DEF AsHashed
<1> HIDE DEF Kept, Read
<1>4. ASSUME NEW b \in Builds, NEW t \in Tasks, TaskStep(b, t) PROVE Read(b, t)
  <2>0. \A s : SetStep(b, t, s) => step'[b][t] = s
    BY DEF SetStep, LInv, IInv, Shapes
  <2>1. ASSUME NEW s \in FailedSteps, FailTask(b, t, s) PROVE Read(b, t)
    BY <1>3, <2>0, <2>1 DEF FailTask, FailedSteps, Kept
  <2>2. CASE CancelTask(b, t) \/ RunFails(b, t)
    BY <2>1, <2>2 DEF CancelTask, RunFails, FailedSteps
  <2>3. CASE ComputeHash(b, t) \/ ContainsTrace(b, t) \/ CompleteTask(b, t)
    BY <1>3, <2>0, <2>3 DEF ComputeHash, ContainsTrace, CompleteTask, Kept
  <2>4. CASE \E p \in Outputs[t] :
              DeclareArtifact(b, t, p) \/ StoreMetadata(b, t, p) \/ StoreContent(b, t, p)
    BY <1>3, <2>1, <2>4 DEF DeclareArtifact, StoreMetadata, StoreContent, FailedSteps, Kept
  <2>5. CASE \E p \in Outputs[t], d \in Deps[t], type \in {"Link", "LinkOverride"} :
               LinkArtifact(b, t, p, d, type)
    BY <1>3, <2>1, <2>5 DEF LinkArtifact, FailedSteps, Kept
  <2>6. ASSUME NEW d \in Deps[t], LoadTrace(b, t, d) PROVE Read(b, t)
    <3>1. CASE FailTask(b, t, "Refused")
      BY <2>1, <3>1 DEF FailedSteps
    <3>2. CASE ~FailTask(b, t, "Refused")
      <4>1. PICK g : inputs' = [inputs EXCEPT ![b][t] = Put(@, d, [generation |-> g, digest |-> None])]
        BY <2>6, <3>2 DEF LoadTrace
      <4>2. step' = step /\ step[b][t] = "Running"
        BY <2>6, <3>2 DEF LoadTrace, Running
      <4>3. inputs'[b][t] = Put(inputs[b][t], d, [generation |-> g, digest |-> None])
        BY <4>1 DEF LInv, RInv, InputShapes
      <4>4. /\ DOMAIN inputs'[b][t] = DOMAIN inputs[b][t] \cup {d}
            /\ inputs'[b][t][d].digest = None
            /\ \A e \in DOMAIN inputs[b][t] : e # d => inputs'[b][t][e] = inputs[b][t][e]
        BY <4>3 DEF Put
      <4> QED  BY <1>2, <4>2, <4>4 DEF Read, AsHashed
    <3> QED  BY <3>1, <3>2
  <2>7. ASSUME NEW d \in Deps[t], LoadArtifacts(b, t, d) PROVE Read(b, t)
    <3>1. CASE FailTask(b, t, "Refused")
      BY <2>1, <3>1 DEF FailedSteps
    <3>2. CASE ~FailTask(b, t, "Refused")
      <4>1. /\ step' = step /\ step[b][t] = "Running" /\ d \in DOMAIN inputs[b][t]
            /\ d # t
            /\ \E p \in Outputs[d] :
                  inputs' = [inputs EXCEPT ![b][t][d].digest =
                     content[Target[ArtifactId(inputs[b][t][d].generation, hash[b][d], p)]]]
        BY <2>7, <3>2, GraphAssumption
           DEF LoadArtifacts, Running, LInv, RInv, HashOfDeps, AfterHash
      <4>2. PICK p \in Outputs[d] :
               inputs' = [inputs EXCEPT ![b][t][d].digest =
                  content[Target[ArtifactId(inputs[b][t][d].generation, hash[b][d], p)]]]
        BY <4>1
      <4> DEFINE x == content[Target[ArtifactId(inputs[b][t][d].generation, hash[b][d], p)]]
      <4>3. x = hash[b][d]
        BY <4>1, LoadedAsHashed
      <4> HIDE DEF x
      <4>6. inputs'[b][t] = [inputs[b][t] EXCEPT ![d].digest = x]
        BY <4>2 DEF LInv, RInv, InputShapes, x
      <4>4. /\ DOMAIN inputs'[b][t] = DOMAIN inputs[b][t]
            /\ \A e \in DOMAIN inputs[b][t] : e # d => inputs'[b][t][e] = inputs[b][t][e]
            /\ inputs'[b][t][d] = [inputs[b][t][d] EXCEPT !.digest = x]
        BY <4>1, <4>6
      <4>5. inputs'[b][t][d].digest = hash[b][d] \/ inputs'[b][t][d] = inputs[b][t][d]
        BY <4>3, <4>4
      <4>7. \A e \in DOMAIN inputs[b][t] \ {t} :
               inputs[b][t][e].digest # None => inputs[b][t][e].digest = hash[b][e]
        BY DEF AsHashed
      <4>8. \A e \in DOMAIN inputs'[b][t] \ {t} :
               inputs'[b][t][e].digest # None => inputs'[b][t][e].digest = hash[b][e]
        BY <4>4, <4>5, <4>7
      <4>9. \A e \in DOMAIN inputs'[b][t] \ {t} : hash'[b][e] = hash[b][e]
        BY <1>2, <4>4
      <4> QED  BY <4>1, <4>8, <4>9 DEF Read
    <3> QED  BY <3>1, <3>2
  <2>8. CASE BeginStores(b, t)
    <3>1. PICK x : inputs' = [inputs EXCEPT ![b][t] = Put(@, t, x)]
      BY <2>8 DEF BeginStores
    <3>2. inputs'[b][t] = Put(inputs[b][t], t, x)
      BY <3>1 DEF LInv, RInv, InputShapes
    <3>3. /\ DOMAIN inputs'[b][t] = DOMAIN inputs[b][t] \cup {t}
          /\ \A e \in DOMAIN inputs[b][t] : e # t => inputs'[b][t][e] = inputs[b][t][e]
      BY <3>2 DEF Put
    <3>4. hash' = hash
      BY <2>8 DEF BeginStores
    <3> QED  BY <2>8, <3>3, <3>4, BegunAsHashed DEF Read, AsHashed
  <2> QED  BY <1>4, <2>2, <2>3, <2>4, <2>5, <2>6, <2>7, <2>8 DEF TaskStep
<1>5. ASSUME UNCHANGED <<step, inputs>>, NEW c \in Builds, NEW u \in Tasks PROVE Read(c, u)
  BY <1>3, <1>5 DEF Kept
<1>6. UNCHANGED vars \/ (\E b \in Builds : StartBuild(b) \/ AbandonBuild(b) \/ FinishBuild(b))
         \/ (\E t \in Sources, v \in Versions : Edit(t, v)) => UNCHANGED <<step, inputs>>
  BY DEF vars, StartBuild, AbandonBuild, FinishBuild, Edit
<1>7. ASSUME NEW b \in Builds, NEW t \in Tasks, TaskStep(b, t), NEW c \in Builds, NEW u \in Tasks
      PROVE  Read(c, u)
  <2>1. CASE c = b /\ u = t
    BY <1>4, <1>7, <2>1
  <2>2. CASE ~(c = b /\ u = t)
    BY <1>3, <1>7, <2>2, TaskFootprint DEF Kept, LInv, RInv
  <2> QED  BY <2>1, <2>2
<1>8. ASSUME NEW c \in Builds, NEW u \in Tasks PROVE Read(c, u)
  BY <1>5, <1>6, <1>7 DEF Next, BuildStep
<1>9. ASSUME NEW c \in Builds, NEW u \in Tasks, NEW q \in DOMAIN written'[c][u],
             u \notin Linkers, written'[c][u][q] = "Stored"
      PROVE  content'[ArtifactId(c, hash'[c][u], q)] = hash'[c][u]
  <2> DEFINE a == ArtifactId(c, hash[c][u], q)
  <2>1. CASE q \in DOMAIN written[c][u] /\ written'[c][u][q] = written[c][u][q]
    <3>1. a \in DOMAIN content
      BY <1>9, <2>1 DEF LInv, IInv, Begun
    <3>2. content'[a] = content[a] /\ content[a] = hash[c][u]
      BY <1>9, <2>1, <3>1, StoredIsKept DEF LInv, AsHashed
    <3>3. hash'[c][u] = hash[c][u]
      BY <1>1, <2>1 DEF LInv, IInv, Progress, Unwritten
    <3> QED  BY <3>2, <3>3
  <2>2. CASE StoreContent(c, u, q)
    <3>1. /\ content' = Put(content, a, inputs[c][u][u].digest) /\ step[c][u] = "Storing"
          /\ hash'[c][u] = hash[c][u]
      BY <2>2 DEF StoreContent, Running
    <3>2. content'[a] = inputs[c][u][u].digest
      BY <3>1 DEF Put
    <3>3. inputs[c][u][u].digest = hash[c][u]
      BY <1>9, <3>1 DEF AsHashed
    <3> QED  BY <3>1, <3>2, <3>3
  <2>3. ~(\E d \in Deps[u], type \in {"Link", "LinkOverride"} :
             LinkArtifact(c, u, q, d, type) /\ entries' # entries)
    BY <1>9 DEF LinkArtifact
  <2>4. written'[c][u][q] # "Declared" /\ written'[c][u][q] # "Described"
    BY <1>9
  <2> QED  BY <2>1, <2>2, <2>3, <2>4, WrittenBy DEF LInv
<1> QED  BY <1>8, <1>9 DEF AsHashed, Read

LEMMA AlwaysAsHashed == SourcesAtRest /\ LinksToFiles => (Spec => [](LInv /\ AsHashed))
<1> SUFFICES ASSUME SourcesAtRest, LinksToFiles PROVE Spec => [](LInv /\ AsHashed)
  OBVIOUS
<1>1. Init => AsHashed
  <2> SUFFICES ASSUME Init PROVE AsHashed
    OBVIOUS
  <2>1. DOMAIN << >> = {}
    OBVIOUS
  <2>2. \A b \in Builds, t \in Tasks :
            DOMAIN written[b][t] = {} /\ DOMAIN inputs[b][t] = {} /\ step[b][t] = "New"
    BY <2>1 DEF Init
  <2> QED  BY <2>2 DEF AsHashed
<1>2. LInv /\ AsHashed /\ [Next]_vars => AsHashed'
  BY NextAsHashed
<1> QED  BY <1>1, <1>2, AlwaysLInv, PTL DEF Spec

\* A link of a task leads to a file of a dependency, with the content that the
\* hash of the dependency promises; this hash is part of the task's own.
LEMMA LinkedAsHashed ==
    ASSUME LInv, LinksToFiles, AsHashed, NEW b \in Builds, NEW t \in Linkers,
           step[b][t] = "Completed", NEW p \in DOMAIN written[b][t]
    PROVE  \E s \in hash[b][t].deps : s[2] = content[Target[ArtifactId(b, hash[b][t], p)]]
<1> DEFINE a == ArtifactId(b, hash[b][t], p)
<1>1. t \in Tasks
  BY GraphAssumption
<1>2. a \in DOMAIN entries /\ entries[a].type # "File" /\ LinksTo(b, t, p, entries[a].link)
  BY <1>1 DEF LInv, IInv, Begun, StoredWell
<1>3. PICK c \in Builds, d \in Deps[t] :
          /\ hash[c][d] = hash[b][d] /\ AllStored(c, d) /\ p \in Outputs[d]
          /\ entries[a].link = ArtifactId(c, hash[c][d], p)
  BY <1>2 DEF LinksTo
<1>4. d \in Tasks /\ d \notin Linkers
  BY <1>1, GraphAssumption DEF LinksToFiles
<1>5. p \in DOMAIN written[c][d] /\ written[c][d][p] = "Stored"
  BY <1>3 DEF AllStored
<1> DEFINE src == ArtifactId(c, hash[c][d], p)
<1>6. src \in DOMAIN entries /\ entries[src].type = "File" /\ content[src] = hash[c][d]
  BY <1>4, <1>5 DEF LInv, IInv, Begun, AsHashed
<1> HIDE DEF src
<1>7. entries[a].link = src
  BY <1>3 DEF src
<1> HIDE DEF a
<1>8. Target[a] = src
  BY <1>2, <1>6, <1>7, TargetEquation DEF LInv, LinkInv
<1>9. <<d, hash[b][d]>> \in hash[b][t].deps
  BY <1>1 DEF LInv, RInv, HashOfDeps, AfterHash
<1> QED  BY <1>3, <1>6, <1>8, <1>9 DEF a

\* Where sources rest while a build runs and links are made to files, the content
\* behind a trace is the content its hash was computed for, for any number of
\* builds and tasks: what a build finds is what it would have made itself.
THEOREM TracedAsHashed == SourcesAtRest /\ LinksToFiles => (Spec => []TracedIsOfItsHash)
<1>1. ASSUME LInv, LinksToFiles, AsHashed PROVE TracedIsOfItsHash
  <2> SUFFICES ASSUME NEW trace \in DOMAIN traces, NEW p \in Outputs[trace[2]]
               PROVE  LET h == trace[1]
                          t == trace[2]
                          reached == content[Target[ArtifactId(traces[trace], h, p)]]
                      IN IF t \in Linkers THEN \E s \in h.deps : s[2] = reached
                                          ELSE reached = h
    BY DEF TracedIsOfItsHash
  <2>1. PICK b \in Builds, t \in Tasks :
            /\ trace = <<hash[b][t], t>> /\ traces[trace] = b
            /\ step[b][t] = "Completed" /\ AllStored(b, t)
    BY <1>1 DEF LInv, IInv, Traced
  <2>2. trace[1] = hash[b][t] /\ trace[2] = t
    BY <2>1
  <2>3. p \in DOMAIN written[b][t] /\ written[b][t][p] = "Stored"
    BY <2>1, <2>2 DEF AllStored
  <2> DEFINE a == ArtifactId(b, hash[b][t], p)
  <2>4. CASE t \in Linkers
    BY <1>1, <2>1, <2>2, <2>3, <2>4, LinkedAsHashed
  <2>5. CASE t \notin Linkers
    <3>1. a \in DOMAIN entries /\ entries[a].type = "File" /\ content[a] = hash[b][t]
      BY <1>1, <2>3, <2>5 DEF LInv, IInv, Begun, AsHashed
    <3> HIDE DEF a
    <3>2. Target[a] = a
      BY <1>1, <3>1, TargetEquation DEF LInv, LinkInv
    <3> QED  BY <2>1, <2>2, <2>5, <3>1, <3>2 DEF a
  <2> QED  BY <2>4, <2>5
<1> SUFFICES ASSUME SourcesAtRest, LinksToFiles PROVE Spec => []TracedIsOfItsHash
  OBVIOUS
<1>2. LInv /\ AsHashed => TracedIsOfItsHash
  BY <1>1
<1> QED  BY <1>2, AlwaysAsHashed, PTL

=============================================================================
