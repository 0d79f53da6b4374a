SPECIFICATION FairSpec
CONSTANTS
  r1 = r1
  r2 = r2
  r3 = r3
  w1 = w1
  w2 = w2
  Requests = {r1, r2, r3}
  Workers = {w1, w2}
  Slots = 2
  MaxBatch = 2
  Key <- MCKey
  Ledgered = {r1, r2}
CHECK_DEADLOCK FALSE
INVARIANT OneHome
INVARIANT LedgerAgrees
INVARIANT DrainedStaysEmpty
PROPERTY LaneSpec
PROPERTY FuturesResolve
