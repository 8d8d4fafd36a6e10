SPECIFICATION SystemSpec
CONSTANTS
  ann = ann
  bob = bob
  cat = cat
  ann1 = ann1
  bob1 = bob1
  NoCall = NoCall
  NoTask = NoTask
  NoUser = NoUser
  NoTimer = NoTimer
  NoRequest = NoRequest
  Users = {ann, bob, cat}
  Calls = {k1, k2}
  Sockets = {ann1}
  Accounts <- AnnOnly
  Tasks = {t1}
  Timers = {m1}
  Requests = {r1}
  Overlapping = FALSE
  RestCrossed = FALSE
  Offered = {"start"}
SYMMETRY Symmetry
INVARIANT CallerHasOneCall
