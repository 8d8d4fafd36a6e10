-------------------------- MODULE MCMembershipSerial --------------------------
(* One request at a time: three users of a process that never dies inside    *)
(* unbanMember, or two of one that has, until its records are settled.       *)
EXTENDS ServerMembership, TLC

Involved ==
  {m.user : m \in members} \cup {b[2] : b \in banDocs}
    \cup UNION {{req[r].actor, req[r].target} : r \in Running}
    \cup {u \in Users : bannedBy[u] # {} \/ isBanned[u] \/ serverCount[u] # 0}

Unsettled(u) ==
  /\ \A r \in Running : req[r].op = "unban" => req[r].target # u
  /\ \/ bannedBy[u] # {s \in Servers : <<s, u>> \in banDocs}
     \/ isBanned[u] # (bannedBy[u] # {})

Small == (\E u \in Users : Unsettled(u)) => Cardinality(Involved) <= 2

Symmetry == Permutations(Users) \cup Permutations(Servers)
=============================================================================
