---------------------------- MODULE ServerMembership ----------------------------
(***************************************************************************)
(* Membership of Dehive servers: who belongs to a server, with which role, *)
(* who is banned, and the two counters kept beside the membership          *)
(* documents.  The handlers are those of UserDehiveServerService (join,    *)
(* leave, kick, ban, unban, role, ownership) and the two ServerService     *)
(* handlers that create and remove whole servers.                          *)
(*                                                                         *)
(* A handler reads documents, decides, and then writes in one MongoDB      *)
(* transaction.  Other requests run between its reads and its transaction, *)
(* so it is two or more steps here: the step that reads stores what the    *)
(* rest of the handler will use in req[r], and the step that commits is    *)
(* one atomic step (overlapping transactions conflict on the server or the *)
(* user document and one of them aborts, which is GiveUp).                 *)
(***************************************************************************)
EXTENDS Integers, FiniteSets

CONSTANTS
  Users,       \* UserDehive documents; a user's profile exists throughout
  Servers,     \* ids that server documents may be created with
  Requests,    \* HTTP requests in flight at the same time
  ObjectIds,   \* tell apart the documents one user has had in one server
  Owner, Moderator, Member,  \* enum ServerRole
  NoId,        \* the absent membership id
  Idle,        \* a request slot with no handler running
  Offered,     \* the operations clients request
  Crashes,     \* may a handler stop between two of its writes?
  MaxDrift     \* bound: the counters are not driven below -MaxDrift

Roles == {Owner, Moderator, Member}
Ops == {"join", "leave", "kick", "ban", "unban", "role", "transfer", "remove"}
Steps == {"begun", "checked", "pulled", "listed", "cleared"}

ASSUME ConstantsAssumption ==
  /\ Cardinality(Roles) = 3
  /\ NoId \notin ObjectIds
  /\ Offered \subseteq Ops
  /\ Crashes \in BOOLEAN
  /\ MaxDrift \in Nat
  /\ IsFiniteSet(Users) /\ IsFiniteSet(Servers)

VARIABLES
  server,      \* server[s]: state, owner_id and member_count of document s
  members,     \* the user_dehive_server collection
  bannedBy,    \* bannedBy[u]: banned_by_servers of user u
  isBanned,    \* isBanned[u]: is_banned of user u
  banDocs,     \* the server_ban collection, as <<server, user>>
  serverCount, \* serverCount[u]: server_count of user u
  req          \* req[r]: the handler running in r, with what it has read

vars == <<server, members, bannedBy, isBanned, banDocs, serverCount, req>>

ServerDoc == [state : {"unborn", "live", "deleted"}, owner_id : Users,
              member_count : Int]
Membership == [id : ObjectIds, user : Users, server : Servers, role : Roles]
Handler == [op : Ops, step : Steps, server : Servers, actor : Users,
            target : Users, tid : ObjectIds \cup {NoId},
            aid : ObjectIds \cup {NoId}, role : Roles, seen : BOOLEAN]

TypeOK ==
  /\ server \in [Servers -> ServerDoc]
  /\ members \subseteq Membership
  /\ IsFiniteSet(members)
  /\ bannedBy \in [Users -> SUBSET Servers]
  /\ isBanned \in [Users -> BOOLEAN]
  /\ banDocs \subseteq Servers \X Users
  /\ serverCount \in [Users -> Int]
  /\ req \in [Requests -> Handler \cup {Idle}]

Init ==
  /\ \E u \in Users :
       server = [s \in Servers |->
                   [state |-> "unborn", owner_id |-> u, member_count |-> 0]]
  /\ members = {}
  /\ bannedBy = [u \in Users |-> {}]
  /\ isBanned = [u \in Users |-> FALSE]
  /\ banDocs = {}
  /\ serverCount = [u \in Users |-> 0]
  /\ req = [r \in Requests |-> Idle]

-----------------------------------------------------------------------------
Live(s) == server[s].state = "live"
MembersOf(s) == {m \in members : m.server = s}
MembershipsOf(u) == {m \in members : m.user = u}

Running == {r \in Requests : req[r] # Idle}

(* A document's _id stands for its user, its server and an id: the document *)
(* inserted when a user joins again is not the one stored or remembered.    *)
FreshIds(u, s) ==
  ObjectIds \ ({m.id : m \in {n \in MembersOf(s) : n.user = u}}
    \cup {req[r].tid : r \in {q \in Running : req[q].target = u}}
    \cup {req[r].aid : r \in {q \in Running : req[q].actor = u}})

InsertMember(u, s, role) ==
  /\ FreshIds(u, s) # {}
  /\ members' = members \cup {[id |-> CHOOSE id \in FreshIds(u, s) : TRUE,
                                user |-> u, server |-> s, role |-> role]}

Names(m, u, s, id) == m.user = u /\ m.server = s /\ m.id = id

Call(op, s, a, t) ==
  [op |-> op, step |-> "begun", server |-> s, actor |-> a, target |-> t,
   tid |-> NoId, aid |-> NoId, role |-> Member, seen |-> FALSE]

Begin(r, h) ==
  /\ req[r] = Idle
  /\ h.op \in Offered
  /\ req' = [req EXCEPT ![r] = h]
Finish(r) == req' = [req EXCEPT ![r] = Idle]
At(r, op, step) == req[r] # Idle /\ req[r].op = op /\ req[r].step = step

(* { $inc: { member_count: n } } by _id: no effect on a deleted server. *)
IncMembers(s, n) ==
  server' = IF Live(s) THEN [server EXCEPT ![s].member_count = @ + n]
                       ELSE server

IncServers(u, n) == serverCount' = [serverCount EXCEPT ![u] = @ + n]

Documents == <<server, members, serverCount>>
Bans == <<bannedBy, isBanned, banDocs>>

-----------------------------------------------------------------------------
(* ServerService.createServer: the server, its owner's membership and the  *)
(* owner's counter in one transaction, after no check of stored state.     *)
CreateServer(u, s) ==
  /\ server[s].state = "unborn"
  /\ server' = [server EXCEPT ![s] =
                  [state |-> "live", owner_id |-> u, member_count |-> 1]]
  /\ InsertMember(u, s, Owner)
  /\ IncServers(u, 1)
  /\ UNCHANGED <<bannedBy, isBanned, banDocs, req>>

(* Faulty: keeps the document that says the user is a member, not its id.    *)
LeaveBeginDoc(r, u, s) ==
  /\ \E m \in MembersOf(s) :
       /\ m.user = u
       /\ m.role # Owner
       /\ Begin(r, [Call("leave", s, u, u) EXCEPT !.tid = m])
  /\ UNCHANGED <<Documents, Bans>>

(* Faulty: does not look at the ban list.                                    *)
JoinCheckNoBan(r) ==
  LET h == req[r] IN
  /\ At(r, "join", "begun")
  /\ Live(h.server)
  /\ \A m \in MembersOf(h.server) : m.user # h.actor
  /\ req' = [req EXCEPT ![r].step = "checked"]
  /\ UNCHANGED <<Documents, Bans>>

(* joinServer reads the ban list with the profile, awaits, then reads the  *)
(* server and the membership and (on a gated server) asks the NFT service. *)
JoinBegin(r, u, s) ==
  /\ Begin(r, [Call("join", s, u, u) EXCEPT !.seen = s \in bannedBy[u]])
  /\ UNCHANGED <<Documents, Bans>>

JoinCheck(r) ==
  LET h == req[r] IN
  /\ At(r, "join", "begun")
  /\ Live(h.server)
  /\ \A m \in MembersOf(h.server) : m.user # h.actor
  /\ ~h.seen
  /\ req' = [req EXCEPT ![r].step = "checked"]
  /\ UNCHANGED <<Documents, Bans>>

(* The unique (user, server) index aborts the insertion of a second one. *)
JoinCommit(r) ==
  LET h == req[r] IN
  /\ At(r, "join", "checked")
  /\ \A m \in MembersOf(h.server) : m.user # h.actor
  /\ InsertMember(h.actor, h.server, Member)
  /\ IncServers(h.actor, 1)
  /\ IncMembers(h.server, 1)
  /\ Finish(r)
  /\ UNCHANGED Bans

(* leaveServer *)
LeaveBegin(r, u, s) ==
  /\ \E m \in MembersOf(s) :
       /\ m.user = u
       /\ m.role # Owner
       /\ Begin(r, [Call("leave", s, u, u) EXCEPT !.tid = m.id])
  /\ UNCHANGED <<Documents, Bans>>

(* Faulty: member_count is not taken down.                                   *)
RemoveUncounted(h) ==
  /\ serverCount[h.target] > -MaxDrift
  /\ members' = {m \in members : ~Names(m, h.target, h.server, h.tid)}
  /\ IncServers(h.target, -1)
  /\ UNCHANGED server

(* The writes shared by leaveServer and kickOrBan: deleteOne by _id, which *)
(* may match nothing any more, and both decrements whatever it matched.    *)
RemoveMembership(h) ==
  /\ serverCount[h.target] > -MaxDrift
  /\ server[h.server].member_count > -MaxDrift
  /\ members' = {m \in members : ~Names(m, h.target, h.server, h.tid)}
  /\ IncServers(h.target, -1)
  /\ IncMembers(h.server, -1)

LeaveCommit(r) ==
  /\ At(r, "leave", "begun")
  /\ RemoveMembership(req[r])
  /\ Finish(r)
  /\ UNCHANGED Bans

(* Faulty: an owner can be kicked.                                           *)
MayRemoveOwner(actor, target) ==
  /\ actor.user # target.user
  /\ actor.role \in {Owner, Moderator}
  /\ target.role = Moderator => actor.role = Owner

(* kickOrBan, up to the transaction: both memberships are read by queries  *)
(* sent together.                                                          *)
MayRemove(actor, target) ==
  /\ actor.user # target.user
  /\ actor.role \in {Owner, Moderator}
  /\ target.role # Owner
  /\ target.role = Moderator => actor.role = Owner

KickOrBanBegin(r, op, a, t, s) ==
  /\ \E am, tm \in MembersOf(s) :
       /\ am.user = a /\ tm.user = t
       /\ MayRemove(am, tm)
       /\ Begin(r, [Call(op, s, a, t) EXCEPT !.tid = tm.id])
  /\ UNCHANGED <<Documents, Bans>>

KickCommit(r) ==
  /\ At(r, "kick", "begun")
  /\ RemoveMembership(req[r])
  /\ Finish(r)
  /\ UNCHANGED Bans

(* The unique index of server_ban aborts a second ban of the same pair. *)
BanCommit(r) ==
  LET h == req[r] IN
  /\ At(r, "ban", "begun")
  /\ <<h.server, h.target>> \notin banDocs
  /\ RemoveMembership(h)
  /\ bannedBy' = [bannedBy EXCEPT ![h.target] = @ \cup {h.server}]
  /\ isBanned' = [isBanned EXCEPT ![h.target] = TRUE]
  /\ banDocs' = banDocs \cup {<<h.server, h.target>>}
  /\ Finish(r)

(* unbanMember: four writes and reads outside any transaction. *)
UnbanBegin(r, a, t, s) ==
  /\ \E m \in MembersOf(s) : m.user = a /\ m.role \in {Owner, Moderator}
  /\ Begin(r, Call("unban", s, a, t))
  /\ UNCHANGED <<Documents, Bans>>

(* Faulty: the ban document goes first.                                      *)
UnbanDocumentFirst(r) ==
  LET h == req[r] IN
  /\ At(r, "unban", "begun")
  /\ banDocs' = banDocs \ {<<h.server, h.target>>}
  /\ req' = [req EXCEPT ![r].step = "pulled"]
  /\ UNCHANGED <<Documents, bannedBy, isBanned>>

UnbanPull(r) ==
  LET h == req[r] IN
  /\ At(r, "unban", "begun")
  /\ bannedBy' = [bannedBy EXCEPT ![h.target] = @ \ {h.server}]
  /\ req' = [req EXCEPT ![r].step = "pulled"]
  /\ UNCHANGED <<Documents, isBanned, banDocs>>

UnbanReread(r) ==
  /\ At(r, "unban", "pulled")
  /\ req' = [req EXCEPT ![r] = [@ EXCEPT !.step = "listed",
                                  !.seen = bannedBy[req[r].target] = {}]]
  /\ UNCHANGED <<Documents, Bans>>

(* Faulty: clears the flag although another server's ban remains.            *)
UnbanClearAlways(r) ==
  /\ At(r, "unban", "listed")
  /\ isBanned' = [isBanned EXCEPT ![req[r].target] = FALSE]
  /\ req' = [req EXCEPT ![r].step = "cleared"]
  /\ UNCHANGED <<Documents, bannedBy, banDocs>>

UnbanClear(r) ==
  LET h == req[r] IN
  /\ At(r, "unban", "listed")
  /\ isBanned' = IF h.seen THEN [isBanned EXCEPT ![h.target] = FALSE]
                           ELSE isBanned
  /\ req' = [req EXCEPT ![r].step = "cleared"]
  /\ UNCHANGED <<Documents, bannedBy, banDocs>>

UnbanDelete(r) ==
  LET h == req[r] IN
  /\ At(r, "unban", "cleared")
  /\ banDocs' = banDocs \ {<<h.server, h.target>>}
  /\ Finish(r)
  /\ UNCHANGED <<Documents, bannedBy, isBanned>>

(* assignRole: the role read is written back by id without a second check. *)
AssignBegin(r, a, t, s, role) ==
  /\ role # Owner
  /\ \E am, tm \in MembersOf(s) :
       /\ am.user = a /\ tm.user = t
       /\ a # t
       /\ am.role = Owner
       /\ tm.role # role  \* an unmodified document is not written
       /\ Begin(r, [Call("role", s, a, t) EXCEPT !.tid = tm.id, !.role = role])
  /\ UNCHANGED <<Documents, Bans>>

SetRole(ms, u, s, id, role) ==
  {IF Names(m, u, s, id) THEN [m EXCEPT !.role = role] ELSE m : m \in ms}

AssignSave(r) ==
  LET h == req[r] IN
  /\ At(r, "role", "begun")
  /\ members' = SetRole(members, h.target, h.server, h.tid, h.role)
  /\ Finish(r)
  /\ UNCHANGED <<server, serverCount, Bans>>

(* Faulty: the old owner keeps the OWNER role.                               *)
TransferCommitShared(r) ==
  LET h == req[r] IN
  /\ At(r, "transfer", "begun")
  /\ members' = SetRole(members, h.target, h.server, h.tid, Owner)
  /\ server' = IF Live(h.server)
               THEN [server EXCEPT ![h.server].owner_id = h.target]
               ELSE server
  /\ Finish(r)
  /\ UNCHANGED <<serverCount, Bans>>

(* transferOwnership *)
TransferBegin(r, a, t, s) ==
  /\ \E am, tm \in MembersOf(s) :
       /\ am.user = a /\ tm.user = t
       /\ a # t
       /\ am.role = Owner
       /\ Begin(r, [Call("transfer", s, a, t) EXCEPT !.tid = tm.id,
                                                     !.aid = am.id])
  /\ UNCHANGED <<Documents, Bans>>

TransferCommit(r) ==
  LET h == req[r] IN
  /\ At(r, "transfer", "begun")
  /\ members' = SetRole(SetRole(members, h.actor, h.server, h.aid, Member),
                        h.target, h.server, h.tid, Owner)
  /\ server' = IF Live(h.server)
               THEN [server EXCEPT ![h.server].owner_id = h.target]
               ELSE server
  /\ Finish(r)
  /\ UNCHANGED <<serverCount, Bans>>

(* ServerService.removeServer: owner_id is read before the transaction, the *)
(* members inside it.  Bans of the server stay behind.                      *)
RemoveServerBegin(r, a, s) ==
  /\ Live(s)
  /\ server[s].owner_id = a
  /\ Begin(r, Call("remove", s, a, a))
  /\ UNCHANGED <<Documents, Bans>>

RemoveServerCommit(r) ==
  LET h == req[r]
      gone == MembersOf(h.server) IN
  /\ At(r, "remove", "begun")
  /\ \A m \in gone : serverCount[m.user] > -MaxDrift
  /\ server' = [server EXCEPT ![h.server].state = "deleted"]
  /\ members' = members \ gone
  /\ serverCount' = [u \in Users |-> IF \E m \in gone : m.user = u
                                     THEN serverCount[u] - 1
                                     ELSE serverCount[u]]
  /\ Finish(r)
  /\ UNCHANGED Bans

(* A handler that ends without (further) writes: a check failed after an    *)
(* await, the NFT service refused, the transaction aborted.  Only a crash   *)
(* of the process ends unbanMember between two of its writes.               *)
GiveUp(r) ==
  /\ req[r] # Idle
  /\ req[r].op = "unban" => req[r].step = "begun" \/ Crashes
  /\ Finish(r)
  /\ UNCHANGED <<Documents, Bans>>

-----------------------------------------------------------------------------
Start(r) ==
  \E a \in Users, s \in Servers :
    \/ JoinBegin(r, a, s)
    \/ LeaveBegin(r, a, s)
    \/ RemoveServerBegin(r, a, s)
    \/ \E t \in Users :
         \/ \E op \in {"kick", "ban"} : KickOrBanBegin(r, op, a, t, s)
         \/ UnbanBegin(r, a, t, s)
         \/ TransferBegin(r, a, t, s)
         \/ \E role \in Roles : AssignBegin(r, a, t, s, role)

Continue(r) ==
  \/ JoinCheck(r)
  \/ JoinCommit(r)
  \/ LeaveCommit(r)
  \/ KickCommit(r)
  \/ BanCommit(r)
  \/ UnbanPull(r)
  \/ UnbanReread(r)
  \/ UnbanClear(r)
  \/ UnbanDelete(r)
  \/ AssignSave(r)
  \/ TransferCommit(r)
  \/ RemoveServerCommit(r)
  \/ GiveUp(r)

Next ==
  \/ \E u \in Users, s \in Servers : CreateServer(u, s)
  \/ \E r \in Requests : Start(r) \/ Continue(r)

Spec == Init /\ [][Next]_vars
-----------------------------------------------------------------------------
(* Whatever the interleaving, a counter never exceeds the number of         *)
(* membership documents it stands for: a removal that matched no document   *)
(* still decrements, nothing increments without inserting.  Counters shown  *)
(* to users (member_count, server_count) can only drift downwards.          *)
CountsNeverAbove ==
  /\ \A s \in Servers :
       Live(s) => server[s].member_count <= Cardinality(MembersOf(s))
  /\ \A u \in Users : serverCount[u] <= Cardinality(MembershipsOf(u))

(* One document per user and server, the owner's included, although         *)
(* createServer inserts without looking.                                    *)
UniqueIn(ms) ==
  \A m, n \in ms : m.user = n.user /\ m.server = n.server => m = n

(* A membership refers to a server that was created; so does a join that    *)
(* has passed its checks, even if the server has been deleted since.        *)
NoEarlyMember ==
  /\ \A m \in members : server[m.server].state # "unborn"
  /\ \A r \in Requests :
       At(r, "join", "checked") => server[req[r].server].state # "unborn"

(* The inductive strengthening of CountsNeverAbove: a removal decrements by *)
(* one because at most one document can match.                              *)
MembershipInv ==
  TypeOK /\ UniqueIn(members) /\ NoEarlyMember /\ CountsNeverAbove

(* One request at a time: both counters equal the documents they count.     *)
CountsExact ==
  /\ \A s \in Servers :
       Live(s) => server[s].member_count = Cardinality(MembersOf(s))
  /\ \A u \in Users : serverCount[u] = Cardinality(MembershipsOf(u))

(* One request at a time: a live server has exactly one OWNER, the member   *)
(* its owner_id names, and a deleted one has no membership left.            *)
OneOwner ==
  \A s \in Servers :
    {m.user : m \in {n \in MembersOf(s) : n.role = Owner}} =
      IF Live(s) THEN {server[s].owner_id} ELSE {}

(* One request at a time: nobody is a member of a server that banned them.  *)
BannedAreOut ==
  \A m \in members : m.server \notin bannedBy[m.user]

(* One request at a time, crashes included: a crash inside unbanMember only *)
(* leaves records behind.  A banned user always has the ban document that   *)
(* the owner's ban list shows, and the is_banned flag.                      *)
BanListIsWitnessed ==
  \A u \in Users : /\ bannedBy[u] \subseteq {s \in Servers : <<s, u>> \in banDocs}
                   /\ bannedBy[u] # {} => isBanned[u]

(* One request at a time, whatever earlier crashes left behind: an unban    *)
(* that runs to its end leaves no record of that ban, and the is_banned     *)
(* flag tells whether another server's ban remains.                         *)
UnbanSettles ==
  [][\A r \in Requests :
       LET s == req[r].server
           u == req[r].target IN
       At(r, "unban", "cleared") /\ req'[r] = Idle /\ <<s, u>> \notin banDocs'
         => s \notin bannedBy'[u] /\ isBanned'[u] = (bannedBy'[u] # {})]_vars

(* A member with the OWNER role loses the membership only with the server   *)
(* ("Server owner cannot leave", "Cannot kick or ban the server owner").    *)
OwnerNeverRemoved ==
  [][\A m \in members :
       m.role = Owner /\ (\A n \in members' : ~Names(n, m.user, m.server, m.id))
         => server'[m.server].state = "deleted"]_vars

(* "404 Ban record not found": an unban that reaches its last write had a   *)
(* ban document to remove.                                                  *)
UnbanFindsABan ==
  [][\A r \in Requests :
       At(r, "unban", "begun") /\ req'[r] # Idle
         => <<req[r].server, req[r].target>> \in banDocs]_vars

(* What ServerRoster shows of the documents.                                 *)
Roster == {<<m.server, m.user, m.role>> : m \in members}
BansInForce == {b \in Servers \X Users : b[1] \in bannedBy[b[2]]}
States == [s \in Servers |-> server[s].state]

Decided == INSTANCE ServerRoster WITH
  phase <- States, roster <- Roster, bans <- BansInForce

(* One request at a time, every request is one step of ServerRoster: a ban,  *)
(* a role or a membership changes by a decision of somebody who has, when it *)
(* is written, the role that kickOrBan, unbanMember, assignRole,             *)
(* transferOwnership and removeServer checked when they began.               *)
FollowsRoster == Decided!Spec
=============================================================================
