CONSTANTS
  me = me
  p1 = p1
  Me = me
  Node = {me, p1}
  Drawn <- SmallDrawn
  Pull = {1, 25}
  Largest = 1225
  Parameters = {weight}
  weight = weight
  MaxRuns = 3
  MaxAborts = 2
SPECIFICATION FairSpec
INVARIANTS
  TypeOK
  CacheWhole
  DrawnOncePerLoss
PROPERTIES
  TrustOnlyFades
  AlignedStaysAhead
  Republishes
CHECK_DEADLOCK FALSE
