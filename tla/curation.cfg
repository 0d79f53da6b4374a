SPECIFICATION FairSpec
CONSTANTS
  j1 = j1
  Jobs = {j1}
  t1 = t1
  t2 = t2
  Turns = {t1, t2}
  p1 = p1
  p2 = p2
  Runners = {p1, p2}
  Goal <- MCGoal
  Wish <- MCWish
  Backends <- MCBackends
  Faults <- MCFaults
  MaxFaults = 2
CHECK_DEADLOCK FALSE
INVARIANT SelectionIsReported
PROPERTY OutcomeIsFinal
PROPERTY JobsEnd
