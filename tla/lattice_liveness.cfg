CONSTANTS
  n1 = n1
  n2 = n2
  n3 = n3
  d1 = d1
  d2 = d2
  Node = {n1, n2}
  Delta = {d1}
  NoDelta = NoDelta
  Score = {1}
  Rank <- RankOf
  EpochDuration = 2
  SyncWindow = 1
  FullCount = 2
  ChannelCap = 1
  MaxTime = 3
  MaxRestarts = 0
  MaxLosses = 0
  MaxBlocks = 9
SPECIFICATION MCFairSpec
PROPERTIES
  Propagation
  RoundsEnd
