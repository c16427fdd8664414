SPECIFICATION Spec
CONSTANTS
    f1 = f1
    f2 = f2
    inst1 = inst1
    inst2 = inst2
    NoKey = NoKey
    Paths <- MCFiles
    MainPath = f1
    Instances <- FunctionInstances
    InstanceKind <- FunctionInstanceKind
    ScopeKinds <- FunctionScopes
    MaxJobs = 6
    MaxSpawn = 2
    MaxStatics = 1
INVARIANTS
    TypeOK
    CircularReportIsReal
    CodegenComplete
    NoWorkTwice
    FunctionsAreGenerated
PROPERTIES
    ResultsAreFinal
    ImplementsWorkList
