------------------------------ MODULE ServerRoster ------------------------------
(***************************************************************************)
(* What the people of a server can rely on: who is in it, with which role, *)
(* and who is banned, as if every request were one step.  Nobody loses a   *)
(* membership or a role but by a decision of somebody who outranks them at *)
(* that moment, by their own leave, or with the server.                    *)
(***************************************************************************)
CONSTANTS Users, Servers, Owner, Moderator, Member

VARIABLES
  phase,   \* phase[s]: "unborn", "live" or "deleted"
  roster,  \* the people of the servers, as <<server, user, role>>
  bans     \* the bans in force, as <<server, user>>

vars == <<phase, roster, bans>>

Lower == {Moderator, Member}  \* the roles other than the owner's

Is(s, u, role) == <<s, u, role>> \in roster
Belongs(s, u) == Is(s, u, Owner) \/ \E role \in Lower : Is(s, u, role)
Staff(s, u) == Is(s, u, Owner) \/ Is(s, u, Moderator)

Init ==
  /\ phase = [s \in Servers |-> "unborn"]
  /\ roster = {}
  /\ bans = {}

Found(s, u) ==
  /\ phase[s] = "unborn"
  /\ phase' = [phase EXCEPT ![s] = "live"]
  /\ roster' = roster \cup {<<s, u, Owner>>}
  /\ UNCHANGED bans

Join(s, u) ==
  /\ phase[s] = "live"
  /\ ~Belongs(s, u)
  /\ <<s, u>> \notin bans
  /\ roster' = roster \cup {<<s, u, Member>>}
  /\ UNCHANGED <<phase, bans>>

Drop(s, u, role) ==
  /\ Is(s, u, role)
  /\ roster' = roster \ {<<s, u, role>>}
  /\ UNCHANGED phase

Leave(s, u) ==
  /\ \E role \in Lower : Drop(s, u, role)
  /\ UNCHANGED bans

(* The staff puts a member out, the owner a moderator too.                   *)
Expel(s, a, u) ==
  \/ Staff(s, a) /\ Drop(s, u, Member)
  \/ Is(s, a, Owner) /\ Drop(s, u, Moderator)

Kick(s, a, u) == Expel(s, a, u) /\ UNCHANGED bans
Ban(s, a, u) == Expel(s, a, u) /\ bans' = bans \cup {<<s, u>>}

Unban(s, a, u) ==
  /\ Staff(s, a)
  /\ bans' = bans \ {<<s, u>>}
  /\ UNCHANGED <<phase, roster>>

Assign(s, a, u, role) ==
  /\ Is(s, a, Owner)
  /\ \E old \in Lower :
       /\ Is(s, u, old)
       /\ roster' = (roster \ {<<s, u, old>>}) \cup {<<s, u, role>>}
  /\ UNCHANGED <<phase, bans>>

Transfer(s, a, u) ==
  /\ Is(s, a, Owner)
  /\ \E old \in Lower :
       /\ Is(s, u, old)
       /\ roster' = (roster \ {<<s, a, Owner>>, <<s, u, old>>})
                      \cup {<<s, a, Member>>, <<s, u, Owner>>}
  /\ UNCHANGED <<phase, bans>>

(* The server goes with all its people; its bans stay.                       *)
Close(s, a) ==
  /\ phase[s] = "live"
  /\ Is(s, a, Owner)
  /\ phase' = [phase EXCEPT ![s] = "deleted"]
  /\ roster' = {x \in roster : x[1] # s}
  /\ UNCHANGED bans

Next ==
  \E s \in Servers, a \in Users :
    \/ Found(s, a) \/ Join(s, a) \/ Leave(s, a) \/ Close(s, a)
    \/ \E u \in Users :
         \/ Kick(s, a, u) \/ Ban(s, a, u) \/ Unban(s, a, u) \/ Transfer(s, a, u)
         \/ \E role \in Lower : Assign(s, a, u, role)

Spec == Init /\ [][Next]_vars
=============================================================================
