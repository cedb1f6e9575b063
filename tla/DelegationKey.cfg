SPECIFICATION FairSpec
CONSTANTS
  Uploads = {u1, u2, u3}
  SasTTL = 2
  KeyTTL = 3
  Allowance = 1
  Timeout = 2
  NoKey = NoKey
  MaxTime = 6
INVARIANTS
  TicketWithinKey
  NoNeedlessFetch
PROPERTIES
  UsableGrows
  UploadsEnd
  SingleFetch
