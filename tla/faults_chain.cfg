SPECIFICATION Spec
CONSTANTS
  j1 = j1
  j2 = j2
  j3 = j3
  w1 = w1
  w2 = w2
  e1 = e1
  e2 = e2
  NoJob = NoJob
  NoWorker = NoWorker
  Jobs = {j1, j2}
  Workers = {w1}
  Executors = {e1, e2}
  Host <- Siblings
  Capacity <- Single
  StageJobs = {j1, j2}
  DependsOn <- Chain
  MaxAttempts = 1
  LegacyExhausted = {}
  Faults = {"crash", "escape", "late", "retry", "pause"}
  MaxGeneration = 3
  MaxMessages = 1
SYMMETRY SiblingSymmetry
CHECK_DEADLOCK FALSE
INVARIANT CapacityRespected
INVARIANT StageFollowsSuccess
