\* Programs of up to three statements in the main file and two in another.
CONSTANTS
  Files = {"f1", "f2"}
  MainFile = "f1"
  MaxMain = 3
  MaxOther = 2
  MaxDepth = 10
  Names <- MCNames
  Programs <- MCPrograms
SPECIFICATION Spec
INVARIANTS
  TypeOK
  AssertionsHold
  ResultsAreStable
  WaitsAreNeeded
  MissingIsMissing
  SearchesEnd
