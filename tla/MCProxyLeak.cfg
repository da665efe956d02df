SPECIFICATION Spec
CONSTANTS
  r1 = r1
  r2 = r2
  u1 = u1
  u2 = u2
  Body = body
  Requests = {r1}
  Urls = {u1, u2}
  Blobs <- MCBlobs
  RefLists <- MCRefLists
  HotBudget = 1
  LogCapacity = 1
  HostMode = "r2"
  MaxInlineDataUrls = 3
  MaxFetches = 2
  MaxPollFailures = 2
  MaxImages = 1
  AdminEnabled = TRUE
INVARIANT NothingLeaks
CHECK_DEADLOCK FALSE
