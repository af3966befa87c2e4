SPECIFICATION Spec
CONSTANTS
    o1 = o1
    o2 = o2
    o3 = o3
    main = main
    w = w
    p1 = p1
    p2 = p2
    static = static
    singleton = singleton
    Objects = {o1, o2}
    Tasks = {main, w}
    Main = main
    Promises = {p1, p2}
    Statics = {static}
    Singletons = {}
    AtSafePoints = TRUE
    MaxRefs = 2
SYMMETRY AnyNames

    
PROPERTIES
    
    HandleKeepsInstance
CHECK_DEADLOCK FALSE
