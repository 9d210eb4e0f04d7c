\* Hosts that may redirect to each other up to the limit, two addresses that may
\* be connected to and one that may not, by name and as literals.
SPECIFICATION FairSpec
CONSTANTS
  h1 = h1
  h2 = h2
  good = good
  bad = bad
  a1 = a1
  a2 = a2
  b1 = b1
  Host <- MCHost
  LiteralAddress <- MCLiteralAddress
  Address = {a1, a2, b1}
  Blocked = {b1}
  Origin = h1
  MaxRedirects = 3
CHECK_DEADLOCK FALSE
INVARIANTS
  OnlyAllowedTargets
  OutcomesAreEvidence
  AddressesAreOfFinalHost
PROPERTY
  CollectionEnds
