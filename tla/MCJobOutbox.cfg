SPECIFICATION OrderedSpec
CONSTANTS
  p1 = p1
  t1 = t1
  t2 = t2
  Idle = Idle
  Jobs = {j1, j2}
  Procs = {p1}
  Threads = {t1, t2}
  MaxAttempts = 1
  Priority <- MCPriority
  Served = {j1, j2}
  Kept = {j2}
  Broken = {}
  SkipLocked = TRUE
  MaxSlips = 1
  MaxCrashes = 1
  Tied = {j1}
  Home <- MCHome
INVARIANTS PendingIsOwned
PROPERTIES RollbackIsRespected CommittedJobsSettle
