\* One migration run at a time, two replicas and two workers; a clock of one
\* tick a window, durations at and between the bounds and beyond them.
SPECIFICATION Spec
CONSTANTS
  Files <- MCFiles
  Runner = {m1}
  Replica = {r1, r2}
  Limit = 1
  WindowLength = 1
  KeyLife = 2
  MaxLag = 1
  MaxTime = 3
  Observer = {w1, w2}
  Bounds <- MCBounds
  Duration = {1, 2, 4}
  MaxDurations = 2
SYMMETRY Symmetry
CHECK_DEADLOCK FALSE
INVARIANTS
  AppliedOnceInOrder
  ServicesFindSchema
  WindowsAreLimited
  KeysExpire
  ScrapeIsExact
  ScrapeIsClose
