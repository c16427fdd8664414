SPECIFICATION Spec
CONSTANT Bodies <- MCBodies
INVARIANT VerifierAccepts
