SPECIFICATION Spec
CONSTANTS
  f1 = f1
  f2 = f2
  n1 = n1
  n2 = n2
  r1 = r1
  Feeds = {f1, f2}
  Names = {n1, n2}
  Folders = {d1, d2}
  Requests = {r1, r2}
  Watched = {f1}
  Document <- MCDocument
  NoFolder = NoFolder
  NoRow = NoRow
INVARIANTS
  UniqueKeys
  NoDangling
PROPERTIES
  OnlyUnsubscribeRemoves
  ReportIsTrue
  SubscribedIsFetched
CHECK_DEADLOCK FALSE
