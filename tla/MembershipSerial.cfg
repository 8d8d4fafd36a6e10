SPECIFICATION Spec
CONSTRAINT Small
CONSTANTS
  Owner = Owner
  Moderator = Moderator
  Member = Member
  NoId = NoId
  Idle = Idle
  Users = {u1, u2, u3}
  Servers = {s1, s2}
  Requests = {r1}
  ObjectIds = {i1, i2}
  Offered = {"join", "leave", "kick", "ban", "unban", "role", "transfer", "remove"}
  Crashes = TRUE
  MaxDrift = 1
SYMMETRY Symmetry
INVARIANTS CountsExact OneOwner BannedAreOut BanListIsWitnessed
PROPERTIES FollowsRoster UnbanSettles
CHECK_DEADLOCK FALSE
