SPECIFICATION FairSpec
CONSTANTS
  r1 = r1
  r2 = r2
  u1 = u1
  u2 = u2
  Body = body
  Requests = {r1, r2}
  Urls = {u1, u2}
  Blobs <- MCBlobs
  RefLists <- MCRefLists
  HotBudget = 1
  LogCapacity = 1
  HostMode = "r2"
  MaxInlineDataUrls = 3
  MaxFetches = 1
  MaxPollFailures = 2
  MaxImages = 2
  AdminEnabled = TRUE
INVARIANTS TypeOK HotAccounting SpillAccounting ReadsLiveBlobs AnsweredHoldsNothing AdminAccounting
PROPERTIES UploadPolicy AtomicStore AllAnswered
CHECK_DEADLOCK FALSE
