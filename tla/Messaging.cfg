SPECIFICATION Spec
CONSTANTS
  None = None
  r1 = r1
  r2 = r2
  Requests = {r1, r2}
  Writers = {w1}
  Pages = {0, 1}
  Limits = {1}
  PrewarmLimit = 2
  MaxMessages = 2
  MaxEdits = 1
  MaxTime = 1
  MaxCrashes = 1
  Readership <- TwoReaders
  Histories <- ShortHistories
  Followings <- SomeFollowed
INVARIANTS TypeOK PagesTrue OneFillsAPage AnchorPagesCover FollowingPagesCover
SYMMETRY Readers
CHECK_DEADLOCK FALSE
