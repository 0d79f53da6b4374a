SPECIFICATION FairSpec
CONSTANTS
  p1 = p1
  p2 = p2
  p3 = p3
  s1 = s1
  w1 = w1
  w2 = w2
  Jobs = {p1, p2, p3, s1}
  TypeOrder <- MCTypeOrder
  Type <- MCType
  Rank <- MCRank
  Provider <- MCProvider
  Pool <- MCPool
  RoutedPools = {"inference", "reporting"}
  Workers = {w1, w2}
  Serves <- MCServes
  DefaultPool = "inference"
  Capacity <- MCCapacity
  MaxPerRound = 2
  MaxForType <- MCMaxForType
  ProviderMax <- MCProviderMax
  MinSlots = 1
  Limit = 4
  MaxEvents = 1
CHECK_DEADLOCK FALSE
INVARIANT WithinCaps
PROPERTY FirstInLine
INVARIANT TypesTakeTurns
PROPERTY RoundsAreFull
PROPERTY QueuedJobsRun
