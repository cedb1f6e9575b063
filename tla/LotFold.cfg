SPECIFICATION Spec
CONSTANTS
  Households <- MCHouseholds
  Household = "ours"
  Products <- MCProducts
  Units <- MCUnits
  Spelling <- MCSpelling
  Events <- MCEvents
  None = None
  MaxTime = 2
INVARIANTS
  FoldIsReference
  MergeIsReference
  LotsSound
