SPECIFICATION FairSpec
CONSTANTS
  g1 = g1
  g2 = g2
  Feeds = {f1, f2}
  Workers = {w1}
  Guids = {g1, g2}
  MaxVersion = 1
  Entries <- MCEntries
  Doubled = {f2}
  DeadAfter = 1
  MaxFailures = 1
  MaxCrashes = 0
PROPERTIES EveryFeedCatchesUp
