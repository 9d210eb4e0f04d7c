\* Two workers, each analysing either of two investigations, with a database error.
SPECIFICATION Spec
CONSTANTS
  Inv = {i1, i2}
  Source = {dns, http}
  Entity = {n1}
  Invented = Invented
  Agent = {a1, a2}
  MaxIterations = 2
  MaxCalls = 1
  MaxErrors = 1
SYMMETRY Symmetry
INVARIANTS
  TypeOK
  ResultsAreWhole
  RecordedIsStored
PROPERTIES
  ImplementsVerdict
