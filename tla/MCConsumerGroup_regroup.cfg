\* Redis loses its data while one worker runs: the sweeper publishes what was lost.
SPECIFICATION FairSpec
CONSTANTS
  Job = {j1}
  Consumer = {c1}
  MaxAttempts = 2
  ListCount = 2
  MaxEntries = 3
  MaxFaults = 1
  MaxOverruns = 0
  NoTask = NoTask
PROPERTIES
  LostWorkIsRecovered
