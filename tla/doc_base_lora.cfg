CONSTANTS
  me = me
  p1 = p1
  Me = me
  Node = {me, p1}
  Drawn <- SmallDrawn
  Pull = {1, 25}
  Largest = 1225
  Parameters = {weight}
  weight = weight
  MaxRuns = 3
  MaxAborts = 1
SPECIFICATION Spec
CHECK_DEADLOCK FALSE
INVARIANT RoundsBuildUp
