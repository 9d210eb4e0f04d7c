\* One investigation and one worker a stage, under fairness: a crash anywhere, an
\* aborted sweep, a lost first publish.
SPECIFICATION FairSpec
CONSTANTS
  Inv = {i1}
  Enricher = {e1}
  Analyst = {a1}
  Correlator = {c1}
  MaxAttempts = 2
  ReclaimCount = 2
  SweepBatch = 1
  MaxCrashes = 1
  MaxOverruns = 0
  NoTask = NoTask
INVARIANTS
  TypeOK
  NoTaskAhead
  NoStranding
  DeadLetterIsFinal
  NoNeedlessDuplicates
PROPERTIES
  ImplementsLifecycle
  EventuallySettled
  StreamsDrain
