SPECIFICATION Spec
CONSTANT Bodies <- MCBodies
INVARIANTS
    TypeOK
    AssertionsHold
    ScopesMatch
    RejectionsExplained
PROPERTY ImplementsStructured
