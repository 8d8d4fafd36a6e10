SPECIFICATION Spec
CONSTANTS
  Scenes = {"tree", "names", "stops", "rooms", "chat", "files", "pairs", "members", "rest"}
  Users = {ann, bob, cat}
  Pair = {ann, bob}
  ann = ann
  bob = bob
  Servers = {s1, s2}
  FewServers = {s0}
  Documents = {d1, d2}
  FewDocuments = {d0}
  Channels = {d3}
  Requests = {r1, r2}
  r3 = r3
  Readers = {r3}
  Ids = {1, 2, 3}
  Sockets = {k1, k2}
  Messages = {m1}
  socket = k0
  Contents = {file}
  MaxNames = 1
  MaxStops = 1
  MaxChanges = 2
  MaxSockets = 2
  MaxText = 2
  None = None
SYMMETRY Symmetry
INVARIANTS
  TypeOK NothingAstray EventsTellTheTree RoomsKnowWhoIsThere ViewersAgree
  OneAddsAContent FilesAreSomewhere OneConversation ListTrue CallerHasOneCall
PROPERTIES CallsMoveOn
CHECK_DEADLOCK FALSE
