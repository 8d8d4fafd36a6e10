SPECIFICATION SceneSpec
CONSTANTS
  ann = ann
  bob = bob
  ann1 = ann1
  bob1 = bob1
  None = None
  Users = {ann, bob}
  Channels = {x, y}
  Calls = {k1, k2}
  Places = {p1, p2}
  Sockets = {ann1}
  Account <- AnnOnly
  Tasks = {t1}
  RestUsers = {}
  Crossed = FALSE
  Scenes = {TRUE}
  x = x
  MaxDrift = 1
SYMMETRY Symmetry
INVARIANT GhostsLeave
