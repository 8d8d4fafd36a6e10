SPECIFICATION SceneSpec
CONSTANTS
  ann = ann
  bob = bob
  ann1 = ann1
  bob1 = bob1
  None = None
  x = x
  Scenes = {TRUE, FALSE}
  Users = {ann, bob}
  Channels = {x, y}
  Calls = {k1, k2}
  Places = {p1, p2, p3, p4}
  Sockets = {ann1, bob1}
  Account <- OneSocketEach
  Tasks = {t1, t2}
  RestUsers = {bob}
  Crossed = TRUE
  MaxDrift = 1
SYMMETRY Symmetry
INVARIANTS NeverOvercounted CalmCountsMatch CalmNoDoubles 
