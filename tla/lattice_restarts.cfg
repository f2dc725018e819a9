CONSTANTS
  n1 = n1
  n2 = n2
  n3 = n3
  d1 = d1
  d2 = d2
  Node = {n1, n2}
  Delta = {d1}
  NoDelta = NoDelta
  Score = {1}
  Rank <- RankOf
  EpochDuration = 2
  SyncWindow = 1
  FullCount = 2
  ChannelCap = 1
  MaxTime = 4
  MaxRestarts = 1
  MaxLosses = 1
  MaxBlocks = 4
SPECIFICATION MCSpec
CONSTRAINT FewBlocks
INVARIANTS
  TypeOK
  Authentic
  OneProposalPerEpoch
  EvaluationsGrounded
  NoForkWithoutRestart
  OwnChainLinked
  AgreeButForLosses
PROPERTY
  Refinement
