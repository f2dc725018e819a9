CONSTANTS
  n1 = n1
  n2 = n2
  n3 = n3
  Node = {n1, n2}
  Delta = {}
  NoDelta = NoDelta
  Score = {1, 2, 3}
  Rank <- RankOf
  Precision = 2
  CommitteeSize = 1
  MaxEvaluations = 4
SPECIFICATION Spec
INVARIANTS
  GapDecides
