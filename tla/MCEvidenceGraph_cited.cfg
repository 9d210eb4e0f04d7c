\* One investigation whose enrichment task comes back once.
SPECIFICATION Spec
CONSTANTS
  i1 = i1
  i2 = i2
  h1 = h1
  h2 = h2
  Inv = {i1}
  Host = {h1, h2}
  Address = {a1}
  HostOf <- MCHostOf
  UrlInv <- MCUrlInv
  MaxHops = 2
  Enricher = {e1}
  Correlator = {k1}
  MaxRedeliveries = 1
CHECK_DEADLOCK FALSE
PROPERTY
  CitedEvidenceStays
