SPECIFICATION FairSpec
CONSTANTS
    a = a
    b = b
    c = c
    Tasks <- MCTasks
    Threads = {w1, w2}
    Targets = {a, b}
    Requests <- MCRequests
    Registered = {a, b, c}
    MayFail = {a, b, c}
    Cached = {b, c}
    MayNotStart = {}
    MaxFaults = 2
    NoTask = NoTask
    NoThread = NoThread
    SHUTDOWN = SHUTDOWN
    NoMessage = NoMessage
INVARIANTS
    TypeOK
    LockDiscipline
    RunsOnce
    EveryWorkerCanStop
    QueuedMirrorsReady
    ParkedBothWays
    CompletedHasTrace
    NoLostTask
    CleanReturn
PROPERTIES
    ImplementsGraph
    ImplementsRun
    BuildFinishes
