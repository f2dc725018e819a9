CONSTANTS
  r0 = r0
  r1 = r1
  r2 = r2
  Root = r0
  Rank = {r0, r1, r2}
  PruneKeep = 2
  KeepLastN = 2
  Loss = {1, 2}
  MaxStep = 3
  MaxRestarts = 1
SPECIFICATION MCFairSpec
INVARIANTS
  TypeOK
  SomeCheckpointSurvives
PROPERTIES
  CommitWhole
  SavesEnd
