SPECIFICATION FairSpec
CONSTANTS
  k1 = k1  k2 = k2
  NoKey = NoKey
  Keys <- MCKeys2
  MaxLogs = 2
  Window = 1
  Shift = 2
  MaxTime = 3
  MaxEvents = 2
  MaxStarts = 3
INVARIANTS TypeOK TableFollowsList
PROPERTIES EntriesAreSpaced RotationBounds LinesAreRead
