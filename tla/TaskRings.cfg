SPECIFICATION Spec
CONSTANTS
    main = main
    t1 = t1
    t2 = t2
    t3 = t3
    Tasks <- MCTasks
    Main = main
    Null = Null
INVARIANT
    RingsHoldTheirTasks
PROPERTY
    RefinesTaskQueues
