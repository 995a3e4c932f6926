SPECIFICATION Spec
CONSTANTS
  Articles = {a1, a2}
  Clients = {i1, i2}
  Old = {a1}
  Columns = {"read", "bookmarked"}
  Subscribed = {a1}
  NoStatus = NoStatus
  NotLoaded = NotLoaded
  Users = {u1}
  Runs = {j1, j2}
  Tabs = {t1}
  MaxDay = 2
  MaxCrash = 1
  Ids = {1, 2, 3, 4}
  Ranks = {1, 2}
  PageSize = 2
  Absent = Absent
  Slugs = {"title", "title-2", "title-3", "title-2-2"}
  Candidates = {"title", "title 2", "..."}
  Variants <- MCVariants
  Sessions = {i1, i2}
  MaxBatch = 2
  Messages = {m1}
  Streams = {i1, i2}
  Endpoints = {e1}
  Requests = {r1}
  Critical = {"db", "sse"}
  MaxAttempts = 2
  MaxQueue = 1
  MaxItems = 3
  PageLimit = 2
  Cards = {1, 2, 3}
  Views = {"all", "unread"}
  Limit = 2
  MaxAsked = 2
  Message = Message
  MaxShown = 4
  Pieces = {i1, i2}
  Nothing = Nothing
  MaxCalls = 2
SYMMETRY Interchangeable
INVARIANTS
  ForwardPagedWhole
CHECK_DEADLOCK FALSE
