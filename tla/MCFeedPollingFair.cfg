SPECIFICATION FairSpec
CONSTANTS
  g1 = g1
  g2 = g2
  Feeds = {f1, f2}
  Workers = {w1, w2}
  Guids = {g1, g2}
  MaxVersion = 1
  Entries <- MCEntries
  Doubled = {}
  DeadAfter = 1
  MaxFailures = 0
  MaxCrashes = 1
PROPERTIES EveryFeedCatchesUp
