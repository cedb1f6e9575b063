SPECIFICATION Spec
CONSTANTS
  Households = {h1}
  Uploads = {u1}
  Confirms = {c1, c2}
  SasTTL = 1
  Skew = 0
  None = None
  MaxTime = 1
SYMMETRY Symmetry
PROPERTIES
  ConfirmedOnce
