SPECIFICATION Spec
CONSTANTS
  Owner = Owner
  Moderator = Moderator
  Member = Member
  NoId = NoId
  Idle = Idle
  Users = {u1, u2}
  Servers = {s1}
  Requests = {r1, r2}
  ObjectIds = {i1, i2, i3}
  Offered = {"join", "leave", "kick", "ban", "role", "transfer", "remove"}
  Crashes = TRUE
  MaxDrift = 2
SYMMETRY Symmetry
INVARIANT TypeOK
INVARIANT CountsNeverAbove
CHECK_DEADLOCK FALSE
