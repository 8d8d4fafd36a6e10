SPECIFICATION FairSpec
CONSTANTS
  ann = ann
  bob = bob
  cat = cat
  ann1 = ann1
  ann2 = ann2
  bob1 = bob1
  cat1 = cat1
  NoCall = NoCall
  NoTask = NoTask
  NoUser = NoUser
  NoTimer = NoTimer
  Users = {ann, bob, cat}
  Calls = {k1, k2}
  Sockets = {ann1, bob1}
  Accounts <- OneSocketEach
  Tasks = {t1}
  Timers = {m1, m2}
  Overlapping = FALSE
  Offered = {"start", "accept"}
PROPERTY CallingEnds
