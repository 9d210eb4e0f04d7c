\* One investigation, two analysts: a task that outlives the reclaim threshold is
\* claimed by the other worker while the first still runs, or an impatient sweep
\* publishes it a second time.
SPECIFICATION Spec
CONSTANTS
  Inv = {i1}
  Enricher = {e1}
  Analyst = {a1, a2}
  Correlator = {c1}
  MaxAttempts = 1
  ReclaimCount = 2
  SweepBatch = 1
  MaxCrashes = 0
  MaxOverruns = 1
  NoTask = NoTask
SYMMETRY Symmetry
INVARIANTS
  EvidencePrecedesAnalysis
  ClaimsAreExclusive
  NoStranding
  ConclusionIsGrounded
PROPERTIES
  ImplementsVerdict
