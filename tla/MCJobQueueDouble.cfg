SPECIFICATION Spec
CONSTANTS
  j1 = j1
  Idle = Idle
  Jobs = {j1, j2}
  Procs = {p1, p2}
  Threads = {t1, t2}
  MaxAttempts = 2
  Priority <- MCPriority
  Served = {j1, j2}
  Kept = {j2}
  Broken = {}
  SkipLocked = TRUE
  MaxSlips = 2
  MaxCrashes = 0
INVARIANTS OneWorkerPerJob
