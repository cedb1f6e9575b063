SPECIFICATION FairSpec
CONSTANTS
  k1 = k1
  k2 = k2
  Requests = {r1, r2}
  Kids = {k1, k2}
  FirstKids = {k1}
  Tokens <- MCTokens
  Unusable = Unusable
  CacheTTL = 2
  MinRefresh = 1
  Lag = 1
  NoDoc = NoDoc
  Nobody = Nobody
  MaxTime = 4
INVARIANTS
  TypeOK
  NoStaleKey
  NoNeedlessRefresh
PROPERTIES
  VerificationsEnd
  RotationNoticed
  SingleRefresh
