SPECIFICATION FairSpec
CONSTANT
    Alphabets <- MCAlphabets
    Middles <- MCMiddles
INVARIANTS
    MinimumsRise
    ReadsAsWritten
    RefusalsAreRight
PROPERTY Finishes
