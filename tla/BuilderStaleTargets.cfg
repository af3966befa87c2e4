SPECIFICATION FairSpec
CONSTANTS
    a = a
    b = b
    c = c
    x = x
    Tasks <- MCTasks
    Registered = {a, b, c}
    Requests <- MCRequests
    MayFail = {b, c}
    Calls <- MixedCalls
PROPERTY
    CallReturns
