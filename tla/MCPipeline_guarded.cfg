\* The documented guard of every transition, against the real attempt limit.
SPECIFICATION Spec
CONSTANTS
  Inv = {i1}
  Enricher = {e1}
  Analyst = {a1}
  Correlator = {c1}
  MaxAttempts = 3
  ReclaimCount = 1
  SweepBatch = 1
  MaxCrashes = 1
  MaxOverruns = 0
  NoTask = NoTask
PROPERTIES
  TransitionsAreGuarded
