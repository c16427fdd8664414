SPECIFICATION FairSpec
CONSTANTS
    f1 = f1
    f2 = f2
    inst1 = inst1
    inst2 = inst2
    NoKey = NoKey
    Paths <- OneFile
    MainPath = f1
    Instances <- TypeInstances
    InstanceKind <- TypeInstanceKind
    ScopeKinds <- AllScopes
    MaxJobs = 5
    MaxSpawn = 2
    MaxStatics = 0
PROPERTY Termination
