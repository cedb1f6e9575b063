SPECIFICATION FairSpec
CONSTANTS
  Keys = {k1, k2}
  Households = {h1}
  Lots = {1, 2}
  None = None
  MaxTime = 1
  Workers = {w1, w2}
INVARIANTS
  NoDoubleCount
  NoLeak
  CompleteButLate
  NoInsertRing
PROPERTIES
  AdvanceButLate
  JobsEnd
