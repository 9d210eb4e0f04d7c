\* Two workers, two jobs: listings that overlap, a fault of any kind, an overrun.
SPECIFICATION FairSpec
CONSTANTS
  Job = {j1, j2}
  Consumer = {c1, c2}
  MaxAttempts = 2
  ListCount = 2
  MaxEntries = 2
  MaxFaults = 1
  MaxOverruns = 1
  NoTask = NoTask
INVARIANTS
  OnlyOneWins
  NoneLeftBehind
  GivenUpAfterTrying
  TriesAreBounded
PROPERTIES
  GroupSettlesJobs
