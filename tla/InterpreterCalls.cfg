SPECIFICATION Spec
CONSTANTS
    Main = Main
    f = f
    far = far
    init = init
    preset = preset
    ctor = ctor
    static = static
    instance = instance
    variable = variable
    here = here
    there = there
    exc = exc
    None = None
    Functions = {f, far, init, preset}
    Constructors = {ctor}
    Statics = {static, variable}
    Variables = {variable}
    Instances = {instance}
    Exceptions = {exc}
    Initializer <- MCInitializer
    Size <- MCSize
    SegmentOf <- MCSegmentOf
    Checks <- MCChecks
    MAX_INTERPRETER_RECURSION = 3
    MaxCalls = 4
    MaxOperands = 3
INVARIANTS
    GuardsAreEntries
    OperandsBelongToCalls
    CellsHoldTheirResult
CHECK_DEADLOCK FALSE
