CONSTANTS
  u1 = u1
  s1 = s1
  s2 = s2
  Users = {u1}
  Sockets = {s1, s2}
  Account <- OneAccount
  Handlers = {h1, h2}
  MaxEvents = 5
  MaxRestarts = 1
  Calls = {c1, c2}
  MaxCalls = 2
  MaxFollows = 1
  MaxTotal = 5
  None = None
SPECIFICATION Spec
CHECK_DEADLOCK FALSE
SYMMETRY Devices
INVARIANTS TypeOK  StoresAgree OneFetches WaitersAreServed
