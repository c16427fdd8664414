SPECIFICATION Spec
CONSTANTS
    f1 = f1
    f2 = f2
    inst1 = inst1
    inst2 = inst2
    NoKey = NoKey
    Paths <- MCFiles
    MainPath = f1
    Instances <- TypeInstances
    InstanceKind <- TypeInstanceKind
    ScopeKinds <- AllScopes
    MaxJobs = 3
    MaxSpawn = 2
    MaxStatics = 0
INVARIANT
    ReportCompletes
