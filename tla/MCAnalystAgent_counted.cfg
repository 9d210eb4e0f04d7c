\* The documented meaning of result_calls, against a database error during verify().
SPECIFICATION Spec
CONSTANTS
  Inv = {i1, i2}
  Source = {dns}
  Entity = {n1}
  Invented = Invented
  Agent = {a1}
  MaxIterations = 2
  MaxCalls = 1
  MaxErrors = 1
SYMMETRY Symmetry
INVARIANTS
  CountedMeansRecorded
