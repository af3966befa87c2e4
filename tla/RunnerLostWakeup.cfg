SPECIFICATION FairSpec
CONSTANTS
    a = a
    b = b
    c = c
    Tasks <- MCTasks
    Threads = {w1, w2}
    Targets = {a}
    Requests <- MCRequests
    Registered = {a, b, c}
    MayFail = {}
    Cached = {}
    MayNotStart = {}
    MaxFaults = 0
    NoTask = NoTask
    NoThread = NoThread
    SHUTDOWN = SHUTDOWN
    NoMessage = NoMessage
PROPERTY
    ForwardProgress
