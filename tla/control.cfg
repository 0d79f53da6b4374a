SPECIFICATION FairSpec
CONSTANTS
  b1 = b1
  b2 = b2
  b3 = b3
  Beaters = {b1, b2, b3}
INVARIANT UncontestedStopHolds
PROPERTY OfflineRecovers
