SPECIFICATION Spec
CONSTANTS
  Households = {h1, h2}
  Uploads = {u1}
  Confirms = {c1, c2, c3}
  SasTTL = 1
  Skew = 1
  None = None
  MaxTime = 2
SYMMETRY Symmetry
INVARIANTS
  PromisedIsFound
  AckIsFinal
  NotFoundJustified
  TripsOnlyBySkew
PROPERTIES
  SettledStands
