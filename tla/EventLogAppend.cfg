SPECIFICATION FairSpec
CONSTANTS
  Keys = {k1}
  Households = {h1, h2}
  Lots = {milk, ghost}
  Listed = {milk}
  None = None
  MaxTime = 0
  Requests = {r1, r2, r3}
  Skew = 0
INVARIANTS
  TypeOK
  AckDurable
  CreatedOnce
  RefusalsJustified
  TenantFirst
PROPERTIES
  RequestsEnd
