SPECIFICATION Spec
CONSTANTS
  j1 = j1
  Idle = Idle
  Jobs = {j1, j2, j3}
  Procs = {p1, p2}
  Threads = {t1, t2}
  MaxAttempts = 2
  Priority <- MCPriority
  Served = {j1, j2, j3}
  Kept = {j2}
  Broken = {j3}
  SkipLocked = TRUE
  MaxSlips = 0
  MaxCrashes = 1
SYMMETRY Symmetry
INVARIANTS TypeOK OneWorkerPerJob SelectionHolds NothingStranded AttemptsLedger
PROPERTIES OutcomeIsFinal KeepsContract
