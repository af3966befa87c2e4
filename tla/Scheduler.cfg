SPECIFICATION FairSpec
CONSTANTS
    main = main
    w = w
    a = a
    b = b
    job = job
    x = x
    Tasks = {main, w}
    Main = main
    Promises = {a, b, job, x}
    MayBe <- CrewMayBe
    Accepts <- CrewAccepts
    NoTask = NoTask
    NoPromise = NoPromise
INVARIANTS
    QueuesMatchStates
    NoLostWakeup
    UnfinishedPromiseHasWaiter
    RingsAreSelfForwards
    WorkerIsMonitored
PROPERTIES
    ResumedWithResult
    RefinesTaskQueues
    ReadyTaskRuns
    FiredEventResumes
    TargetResolves
CHECK_DEADLOCK FALSE
