---------------------------- MODULE ArtifactCache ----------------------------
(***************************************************************************)
(* The artifact cache of lyric_build and the builds that share it.         *)
(*                                                                         *)
(* The cache (MemoryCache) is three maps under one lock: the entries of    *)
(* the artifacts (m_metadata), their content (m_content), and the traces   *)
(* (m_traces), which say in which build the artifacts of a task with a     *)
(* given hash were made. Every method of the cache is one critical         *)
(* section, so it is one atomic step here; storing an artifact is three of *)
(* them and reading one is two.                                            *)
(*                                                                         *)
(* A build is one call of LyricBuilder::computeTargets, and is its own     *)
(* generation. Builders may share a cache, a build may end early on an     *)
(* error of its runner or with its process, and the sources may be edited: *)
(* whatever a build leaves behind is found by the builds after it.         *)
(*                                                                         *)
(* A digest stands for the hash of a task and also for the content it      *)
(* produces: the record of the inputs it is computed from.                 *)
(***************************************************************************)
EXTENDS Naturals, FiniteSets

CONSTANTS
    Builds,            \* the generations
    Tasks,             \* task keys: domain, id and parameters
    IdOf,              \* the id of a key: its domain and id, without parameters
    Ids,
    Deps,              \* the dependencies a task requests when configured
    Outputs,           \* the paths of the artifacts a task leaves
    Paths,
    Sources,           \* the tasks that read a source file
    Linkers,           \* the tasks that link their dependencies' artifacts
    Versions,          \* the contents a source file may have
    EditsDuringBuild,  \* may a source be edited while a build runs?
    None

ASSUME GraphAssumption ==
    /\ IdOf \in [Tasks -> Ids]
    /\ Deps \in [Tasks -> SUBSET Tasks]
    /\ Outputs \in [Tasks -> SUBSET Paths]
    /\ Sources \subseteq Tasks
    /\ Linkers \subseteq Tasks
    /\ EditsDuringBuild \in BOOLEAN
    /\ \A t \in Linkers : \A p \in Outputs[t] : \E d \in Deps[t] : p \in Outputs[d]

\* Empty metadata and a missing input are told apart from what tasks store.
ASSUME NoneAssumption == None \notin Tasks

VARIABLES
    entries,    \* m_metadata: artifact id -> type, link and metadata
    content,    \* m_content: artifact id -> the digest of what was stored
    traces,     \* m_traces: <<hash, key>> -> the generation with the artifacts
    source,     \* the version of each source file
    build,      \* the progress of each build
    step,       \* the progress of each task of each build
    hash,       \* BaseTask::m_hash
    inputs,     \* what the running task has read: dependency -> generation, digest
    written     \* how far the running task is with its artifacts: path -> phase

cache == <<entries, content, traces>>
vars == <<entries, content, traces, source, build, step, hash, inputs, written>>

\* Mutant: the id of an artifact leaves its generation out.
ArtifactIdOfHash(b, h, p) == <<h, p>>

\* The id of an artifact: its generation, the hash of its task, and its path.
ArtifactId(b, h, p) == <<b, h, p>>

\* What TaskHasher is given: the id of the task without its parameters, the
\* source it reads, and the key and hash of every completed dependency.
Digest(t, version, completed) ==
    [id |-> IdOf[t], version |-> version, deps |-> completed]

\* A map with one more key, or with a new value for a key.
Put(map, key, value) ==
    [k \in DOMAIN map \cup {key} |-> IF k = key THEN value ELSE map[k]]

Running(b, t, s) == build[b] = "Running" /\ step[b][t] = s

SetStep(b, t, s) == step' = [step EXCEPT ![b][t] = s]

\* Both stand for TaskState::Failed: the task failed by itself or with a
\* dependency, or it failed because a call of the cache returned an error.
FailedSteps == {"Failed", "Refused"}

Init ==
    /\ entries = << >>
    /\ content = << >>
    /\ traces = << >>
    /\ source \in [Sources -> Versions]
    /\ build = [b \in Builds |-> "Idle"]
    /\ step = [b \in Builds |-> [t \in Tasks |-> "New"]]
    /\ hash = [b \in Builds |-> [t \in Tasks |-> None]]
    /\ inputs = [b \in Builds |-> [t \in Tasks |-> << >>]]
    /\ written = [b \in Builds |-> [t \in Tasks |-> << >>]]

-----------------------------------------------------------------------------
(* Builds and sources.                                                     *)

\* computeTargets is called and creates its generation.
StartBuild(b) ==
    /\ build[b] = "Idle"
    /\ build' = [build EXCEPT ![b] = "Running"]
    /\ UNCHANGED <<cache, source, step, hash, inputs, written>>

\* The build ends early, at any point of any of its tasks: its process dies,
\* or a worker stops with an error and the runner returns.
AbandonBuild(b) ==
    /\ build[b] = "Running"
    /\ build' = [build EXCEPT ![b] = "Abandoned"]
    /\ UNCHANGED <<cache, source, step, hash, inputs, written>>

\* The build returns once each task has completed or failed.
FinishBuild(b) ==
    /\ build[b] = "Running"
    /\ \A t \in Tasks : step[b][t] \in {"Completed"} \cup FailedSteps
    /\ build' = [build EXCEPT ![b] = "Finished"]
    /\ UNCHANGED <<cache, source, step, hash, inputs, written>>

\* A source file is edited, or an earlier version of it is put back.
Edit(t, v) ==
    /\ EditsDuringBuild \/ \A b \in Builds : build[b] # "Running"
    /\ source[t] # v
    /\ source' = [source EXCEPT ![t] = v]
    /\ UNCHANGED <<cache, build, step, hash, inputs, written>>

-----------------------------------------------------------------------------
(* One task of a build, on a worker thread.                                *)

\* The task ends in state Failed, and no trace is stored.
FailTask(b, t, s) ==
    /\ SetStep(b, t, s)
    /\ UNCHANGED <<cache, source, build, hash, inputs, written>>

\* checkDependencies: a task with a failed dependency fails.
CancelTask(b, t) ==
    /\ Running(b, t, "New")
    /\ \E d \in Deps[t] : step[b][d] \in FailedSteps
    /\ FailTask(b, t, "Failed")

\* runTask returns an error of its own, before, between or after its writes:
\* what it has written stays.
RunFails(b, t) ==
    /\ Running(b, t, "Running") \/ Running(b, t, "Storing")
    /\ FailTask(b, t, "Failed")

\* Mutant: the hash leaves the dependencies out.
ComputeHashOfTaskOnly(b, t) ==
    /\ Running(b, t, "New")
    /\ \A d \in Deps[t] : step[b][d] = "Completed"
    /\ hash' = [hash EXCEPT ![b][t] =
            Digest(t, IF t \in Sources THEN source[t] ELSE None, {})]
    /\ SetStep(b, t, "Hashed")
    /\ UNCHANGED <<cache, source, build, inputs, written>>

\* deduplicateTask of the concrete task: the dependencies have completed, and
\* the hash is computed from their hashes and from the source as it is now.
ComputeHash(b, t) ==
    /\ Running(b, t, "New")
    /\ \A d \in Deps[t] : step[b][d] = "Completed"
    /\ hash' = [hash EXCEPT ![b][t] =
            Digest(t, IF t \in Sources THEN source[t] ELSE None,
                   {<<d, hash[b][d]>> : d \in Deps[t]})]
    /\ SetStep(b, t, "Hashed")
    /\ UNCHANGED <<cache, source, build, inputs, written>>

\* Mutant: the trace is recorded when the task is about to run.
ContainsTraceOrClaims(b, t) ==
    /\ Running(b, t, "Hashed")
    /\ IF <<hash[b][t], t>> \in DOMAIN traces
       THEN SetStep(b, t, "Completed") /\ UNCHANGED traces
       ELSE SetStep(b, t, "Running") /\ traces' = Put(traces, <<hash[b][t], t>>, b)
    /\ UNCHANGED <<entries, content, source, build, hash, inputs, written>>

\* deduplicateTask of the worker: a task that has a trace is complete.
ContainsTrace(b, t) ==
    /\ Running(b, t, "Hashed")
    /\ SetStep(b, t, IF <<hash[b][t], t>> \in DOMAIN traces THEN "Completed" ELSE "Running")
    /\ UNCHANGED <<cache, source, build, hash, inputs, written>>

\* loadTrace: the running task finds out where the artifacts of a dependency
\* are; a missing trace fails the task.
LoadTrace(b, t, d) ==
    /\ Running(b, t, "Running")
    /\ d \in Deps[t] \ DOMAIN inputs[b][t]
    /\ LET trace == <<hash[b][d], d>>
       IN IF trace \in DOMAIN traces
          THEN /\ inputs' = [inputs EXCEPT ![b][t] =
                        Put(@, d, [generation |-> traces[trace], digest |-> None])]
               /\ UNCHANGED <<cache, source, build, step, hash, written>>
          ELSE FailTask(b, t, "Refused")

\* The artifact that an id leads to: loadContentFollowingLinks stops at a File.
Target[a \in DOMAIN entries] ==
    IF entries[a].type = "File" THEN a ELSE Target[entries[a].link]

\* An artifact can be loaded: it is there and leads to content.
Loadable(a) == a \in DOMAIN entries /\ Target[a] \in DOMAIN content

\* findArtifacts, loadMetadataFollowingLinks and loadContentFollowingLinks on
\* the generation that was read: the task has its input, or fails.
LoadArtifacts(b, t, d) ==
    /\ Running(b, t, "Running")
    /\ t \notin Linkers
    /\ d \in DOMAIN inputs[b][t]
    /\ inputs[b][t][d].digest = None
    /\ LET found == {ArtifactId(inputs[b][t][d].generation, hash[b][d], p) : p \in Outputs[d]}
       IN IF \A a \in found : Loadable(a)
          THEN /\ \E a \in found :
                     inputs' = [inputs EXCEPT ![b][t][d].digest = content[Target[a]]]
               /\ UNCHANGED <<cache, source, build, step, hash, written>>
          ELSE FailTask(b, t, "Refused")

\* runTask goes on to write: its inputs are loaded (a task that links only
\* needs to know where they are), and a source file is read for the second time.
BeginStores(b, t) ==
    /\ Running(b, t, "Running")
    /\ DOMAIN inputs[b][t] = Deps[t]
    /\ t \in Linkers \/ \A d \in Deps[t] : inputs[b][t][d].digest # None
    /\ inputs' = [inputs EXCEPT ![b][t] =
            Put(@, t, [generation |-> b,
                       digest |-> Digest(t, IF t \in Sources THEN source[t] ELSE None,
                                         {<<d, inputs[b][t][d].digest>> : d \in Deps[t]})])]
    /\ SetStep(b, t, "Storing")
    /\ UNCHANGED <<cache, source, build, hash, written>>

\* The task may begin with the artifact at p: the one before it is stored.
NextArtifact(b, t, p) ==
    /\ Running(b, t, "Storing")
    /\ p \in Outputs[t] \ DOMAIN written[b][t]
    /\ \A q \in DOMAIN written[b][t] : written[b][t][q] = "Stored"

Write(b, t, p, phase) == written' = [written EXCEPT ![b][t] = Put(@, p, phase)]

\* storeArtifact, first call: declareArtifact refuses an id that exists. The
\* entry starts with empty metadata, None here.
DeclareArtifact(b, t, p) ==
    LET a == ArtifactId(b, hash[b][t], p)
    IN /\ NextArtifact(b, t, p)
       /\ t \notin Linkers
       /\ IF a \in DOMAIN entries
          THEN FailTask(b, t, "Refused")
          ELSE /\ entries' = Put(entries, a, [type |-> "File", link |-> None, metadata |-> None])
               /\ Write(b, t, p, "Declared")
               /\ UNCHANGED <<content, traces, source, build, step, hash, inputs>>

\* storeArtifact, second call: storeMetadata replaces the metadata of an entry.
StoreMetadata(b, t, p) ==
    LET a == ArtifactId(b, hash[b][t], p)
    IN /\ Running(b, t, "Storing")
       /\ p \in DOMAIN written[b][t] /\ written[b][t][p] = "Declared"
       /\ entries' = [entries EXCEPT ![a].metadata = t]
       /\ Write(b, t, p, "Described")
       /\ UNCHANGED <<content, traces, source, build, step, hash, inputs>>

\* storeArtifact, third call: storeContent inserts or assigns.
StoreContent(b, t, p) ==
    LET a == ArtifactId(b, hash[b][t], p)
    IN /\ Running(b, t, "Storing")
       /\ p \in DOMAIN written[b][t] /\ written[b][t][p] = "Described"
       /\ content' = Put(content, a, inputs[b][t][t].digest)
       /\ Write(b, t, p, "Stored")
       /\ UNCHANGED <<entries, traces, source, build, step, hash, inputs>>

\* Mutant: the source is looked for in the running generation, unchecked.
LinkArtifactOfBuild(b, t, p, d, type) ==
    LET src == ArtifactId(b, hash[b][d], p)
        dst == ArtifactId(b, hash[b][t], p)
    IN /\ NextArtifact(b, t, p)
       /\ t \in Linkers
       /\ p \in Outputs[d]
       /\ entries' = Put(entries, dst,
                [type |-> type, link |-> src,
                 metadata |-> IF type = "Link" THEN None ELSE t])
       /\ Write(b, t, p, "Stored")
       /\ UNCHANGED <<content, traces, source, build, step, hash, inputs>>

\* linkArtifact and linkArtifactOverridingMetadata: the source must exist and
\* the destination must not.
LinkArtifact(b, t, p, d, type) ==
    LET src == ArtifactId(inputs[b][t][d].generation, hash[b][d], p)
        dst == ArtifactId(b, hash[b][t], p)
    IN /\ NextArtifact(b, t, p)
       /\ t \in Linkers
       /\ p \in Outputs[d]
       /\ IF src \notin DOMAIN entries \/ dst \in DOMAIN entries
          THEN FailTask(b, t, "Refused")
          ELSE /\ entries' = Put(entries, dst,
                        [type |-> type, link |-> src,
                         metadata |-> IF type = "Link" THEN None ELSE t])
               /\ Write(b, t, p, "Stored")
               /\ UNCHANGED <<content, traces, source, build, step, hash, inputs>>

\* Mutant: the trace may be stored while the content of an artifact is not.
AllStoredOrDescribed(b, t) ==
    /\ DOMAIN written[b][t] = Outputs[t]
    /\ \A p \in Outputs[t] : written[b][t][p] \in {"Stored", "Described"}

\* runTask of the task returns OK after its last write.
AllStored(b, t) ==
    /\ DOMAIN written[b][t] = Outputs[t]
    /\ \A p \in Outputs[t] : written[b][t][p] = "Stored"

\* runTask of the worker: the task has succeeded, its trace is stored, over
\* the trace another build may have stored meanwhile, and it is Completed.
CompleteTask(b, t) ==
    /\ Running(b, t, "Storing")
    /\ AllStored(b, t)
    /\ traces' = Put(traces, <<hash[b][t], t>>, b)
    /\ SetStep(b, t, "Completed")
    /\ UNCHANGED <<entries, content, source, build, hash, inputs, written>>

-----------------------------------------------------------------------------
TaskStep(b, t) ==
    \/ CancelTask(b, t)
    \/ RunFails(b, t)
    \/ ComputeHash(b, t)
    \/ ContainsTrace(b, t)
    \/ \E d \in Deps[t] : LoadTrace(b, t, d)
    \/ \E d \in Deps[t] : LoadArtifacts(b, t, d)
    \/ BeginStores(b, t)
    \/ \E p \in Outputs[t] : DeclareArtifact(b, t, p)
    \/ \E p \in Outputs[t] : StoreMetadata(b, t, p)
    \/ \E p \in Outputs[t] : StoreContent(b, t, p)
    \/ \E p \in Outputs[t], d \in Deps[t], type \in {"Link", "LinkOverride"} :
          LinkArtifact(b, t, p, d, type)
    \/ CompleteTask(b, t)

BuildStep(b) == FinishBuild(b) \/ \E t \in Tasks : TaskStep(b, t)

Next ==
    \/ \E b \in Builds : StartBuild(b) \/ AbandonBuild(b) \/ BuildStep(b)
    \/ \E t \in Sources, v \in Versions : Edit(t, v)

\* The workers of a build that is not abandoned take its steps; nothing makes a
\* build start, end early, or a source change.
Spec == Init /\ [][Next]_vars /\ \A b \in Builds : WF_vars(BuildStep(b))

-----------------------------------------------------------------------------
(* Properties.                                                             *)

\* Every entry has a type, and a link leads to another entry, so that following
\* links stays in the map (doLoadContentFollowingLinks, which recurses without
\* a bound); content is only kept for declared files; a trace names a build.
TypeOK ==
    /\ \A a \in DOMAIN entries :
          /\ entries[a].type \in {"File", "Link", "LinkOverride"}
          /\ entries[a].type # "File" => entries[a].link \in DOMAIN entries
          /\ entries[a].metadata \in Tasks \cup {None}
    /\ \A a \in DOMAIN content : a \in DOMAIN entries /\ entries[a].type = "File"
    /\ \A trace \in DOMAIN traces : traces[trace] \in Builds
    /\ source \in [Sources -> Versions]
    /\ build \in [Builds -> {"Idle", "Running", "Abandoned", "Finished"}]
    /\ step \in [Builds -> [Tasks ->
            {"New", "Hashed", "Running", "Storing", "Completed"} \cup FailedSteps]]

\* The artifacts that a trace stands for.
ArtifactsOf(trace) ==
    {ArtifactId(traces[trace], trace[1], p) : p \in Outputs[trace[2]]}

\* The metadata of an id: loadMetadataFollowingLinks passes over a Link only.
Metadata[a \in DOMAIN entries] ==
    IF entries[a].type = "Link" THEN Metadata[entries[a].link] ELSE entries[a].metadata

\* Whoever finds a trace, in this build or a later one, can load every artifact
\* of the task, with its own metadata: "TraceId identifies the generation containing the build
\* artifacts" (build_types.h:288). What abandoned builds left half stored, and
\* what a build is storing for the same task right now, is never reached.
TracedIsComplete ==
    \A trace \in DOMAIN traces : \A a \in ArtifactsOf(trace) :
        Loadable(a) /\ Metadata[a] # None

\* The artifacts behind a trace are the ones its hash promises: a task that
\* reads its dependencies' files has the content computed from the inputs that
\* were hashed, and a link leads to what the trace of its source leads to. So a
\* build that finds the trace has what it would have made itself.
TracedIsOfItsHash ==
    \A trace \in DOMAIN traces :
        LET h == trace[1]
            t == trace[2]
        IN \A p \in Outputs[t] :
              LET reached == content[Target[ArtifactId(traces[trace], h, p)]]
              IN IF t \in Linkers
                 THEN \E s \in h.deps : s[2] = reached
                 ELSE reached = h

\* Once a trace is stored, the artifacts of the generation it names are final:
\* a reader that has loaded the trace, and then loads metadata and content under
\* separate locks (DependencyLoader::create), sees one state of them, also when
\* another build stores its own trace in between.
PublishedIsImmutable ==
    [][\A trace \in DOMAIN traces : \A a \in ArtifactsOf(trace) :
          /\ a \in DOMAIN entries /\ a \in DOMAIN entries'
          /\ entries'[a] = entries[a]
          /\ a \in DOMAIN content =>
                a \in DOMAIN content' /\ content'[a] = content[a]]_vars

\* A build that is not abandoned ends, and whatever the builds before and beside
\* it have left in the cache, no call of the cache fails one of its tasks.
BuildCompletes ==
    \A b \in Builds :
        build[b] = "Running" ~>
            \/ build[b] = "Abandoned"
            \/ build[b] = "Finished" /\ \A t \in Tasks : step[b][t] # "Refused"
=============================================================================
