SPECIFICATION Spec
CONSTANTS
  Keys = {k1}
  Households = {h1}
  Lots = {milk}
  Listed = {milk}
  None = None
  MaxTime = 2
  Requests = {r1, r2, r3}
  Skew = 1
SYMMETRY Symmetry
INVARIANTS
  ReadYourWrites
PROPERTIES
  SettledIsFinal
  LogSpec
