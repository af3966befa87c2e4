SPECIFICATION Spec
CONSTANTS
    b1 = b1
    b2 = b2
    b3 = b3
    parse = parse
    compile = compile
    group = group
    ir = ir
    obj = obj
    None = None
    Builds = {b1, b2}
    Tasks = {parse, compile, group}
    Ids = {parse, compile, group}
    Paths = {ir, obj}
    Sources = {parse}
    Linkers = {group}
    Versions = {1, 2}
    EditsDuringBuild = FALSE
    IdOf <- MCIdOf
    Deps <- MCDeps
    Outputs <- MCOutputs
INVARIANTS
    TypeOK
    TracedIsComplete
    TracedIsOfItsHash
PROPERTIES
    PublishedIsImmutable
    BuildCompletes
