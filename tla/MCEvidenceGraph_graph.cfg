\* One URL; two workers a stage, every pass and correlation may be interrupted,
\* and one task is delivered again while it is worked on or after it was.
SPECIFICATION Spec
CONSTANTS
  i1 = i1
  i2 = i2
  h1 = h1
  h2 = h2
  Inv = {i1}
  Host = {h1, h2}
  Address = {a1}
  HostOf <- MCHostOf
  UrlInv <- MCUrlInv
  MaxHops = 2
  Enricher = {e1, e2}
  Correlator = {k1, k2}
  MaxRedeliveries = 1
SYMMETRY Symmetry
CHECK_DEADLOCK FALSE
INVARIANTS
  SummaryMatchesEvidence
  AddressesAreEntities
  CompleteIsLinked
  GraphIsObserved
  CompleteIsVisible
