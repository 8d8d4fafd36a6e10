SPECIFICATION Spec
CONSTANTS
  None = None
  r1 = r1
  r2 = r2
  Requests = {r1, r2}
  Writers = {w1}
  Pages = {0}
  Limits = {1}
  PrewarmLimit = 1
  MaxMessages = 1
  MaxEdits = 1
  MaxTime = 1
  MaxCrashes = 0
  Readership <- BothFirst
  Histories <- ShortHistories
  Followings <- SomeFollowed

PROPERTIES RequestsEnd PagesCatchUp
CHECK_DEADLOCK FALSE
