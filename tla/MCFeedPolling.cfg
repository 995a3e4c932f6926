SPECIFICATION Spec
CONSTANTS
  g1 = g1
  g2 = g2
  Feeds = {f1, f2}
  Workers = {w1, w2}
  Guids = {g1, g2}
  MaxVersion = 2
  Entries <- MCEntries
  Doubled = {f2}
  DeadAfter = 1
  MaxFailures = 2
  MaxCrashes = 1
SYMMETRY Symmetry
CONSTRAINT Eventful
INVARIANTS TypeOK ETagCovers DeadIsEarned
