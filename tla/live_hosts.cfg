SPECIFICATION FairSpec
CONSTANTS
  j1 = j1
  j2 = j2
  j3 = j3
  w1 = w1
  w2 = w2
  e1 = e1
  e2 = e2
  NoJob = NoJob
  NoWorker = NoWorker
  Jobs = {j1, j2}
  Workers = {w1, w2}
  Executors = {e1, e2}
  Host <- OneEach
  Capacity <- Single
  StageJobs = {}
  DependsOn <- Independent
  MaxAttempts = 1
  LegacyExhausted = {j2}
  Faults = {"crash", "duplicate"}
  MaxGeneration = 3
  MaxMessages = 1
CHECK_DEADLOCK FALSE
PROPERTY DeadHostReleasesJobs
PROPERTY ExhaustedIsReconciled
