SPECIFICATION Spec
CONSTANTS
  Keys = {k1, k2}
  Households = {h1}
  Lots = {1, 2}
  None = None
  MaxTime = 2
  Workers = {w1}
PROPERTIES
  AdvanceIsRebuild
