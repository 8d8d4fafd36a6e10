------------------------- MODULE ServerMembershipProofs -------------------------
(* Theorems about ServerMembership for any number of users, servers and      *)
(* requests in flight.                                                       *)
EXTENDS ServerMembership, FiniteSetTheorems, TLAPS

(* What a handler remembers when it begins has the type of a handler.        *)
LEMMA CallType ==
  ASSUME NEW op \in Ops, NEW s \in Servers, NEW a \in Users, NEW t \in Users
  PROVE  Call(op, s, a, t) \in Handler
<1>1. Member \in Roles /\ NoId \in ObjectIds \cup {NoId} /\ "begun" \in Steps
  BY DEF Roles, Steps
<1>2. QED
  BY <1>1 DEF Call, Handler

LEMMA FinishType ==
  ASSUME TypeOK, NEW r \in Requests, Finish(r)
  PROVE  req' \in [Requests -> Handler \cup {Idle}]
BY DEF TypeOK, Finish

LEMMA BeginType ==
  ASSUME TypeOK, NEW r \in Requests, NEW h \in Handler, Begin(r, h)
  PROVE  req' \in [Requests -> Handler \cup {Idle}]
BY DEF TypeOK, Begin

LEMMA StepType ==
  ASSUME TypeOK, NEW r \in Requests, NEW op, NEW step \in Steps,
         NEW new \in Steps, At(r, op, step),
         req' = [req EXCEPT ![r].step = new]
  PROVE  req' \in [Requests -> Handler \cup {Idle}]
BY DEF TypeOK, At, Handler

LEMMA HandlerType ==
  ASSUME TypeOK, NEW r \in Requests, NEW op, NEW step, At(r, op, step)
  PROVE  req[r] \in Handler
BY DEF TypeOK, At

LEMMA InsertType ==
  ASSUME TypeOK, NEW u \in Users, NEW s \in Servers, NEW role \in Roles,
         InsertMember(u, s, role)
  PROVE  members' \subseteq Membership /\ IsFiniteSet(members')
<1> DEFINE id == CHOOSE id \in FreshIds(u, s) : TRUE
           m == [id |-> id, user |-> u, server |-> s, role |-> role]
<1>1. id \in ObjectIds
  BY DEF InsertMember, FreshIds
<1>2. m \in Membership
  BY <1>1 DEF Membership
<1>3. members' = members \cup {m}
  BY DEF InsertMember
<1>4. QED
  BY <1>2, <1>3, FS_AddElement DEF TypeOK

LEMMA IncMembersType ==
  ASSUME TypeOK, NEW s \in Servers, NEW n \in Int, IncMembers(s, n)
  PROVE  server' \in [Servers -> ServerDoc]
BY DEF TypeOK, IncMembers, ServerDoc, Live

LEMMA IncServersType ==
  ASSUME TypeOK, NEW u \in Users, NEW n \in Int, IncServers(u, n)
  PROVE  serverCount' \in [Users -> Int]
BY DEF TypeOK, IncServers

LEMMA RemoveType ==
  ASSUME TypeOK, NEW h \in Handler, RemoveMembership(h)
  PROVE  /\ members' \subseteq Membership /\ IsFiniteSet(members')
         /\ serverCount' \in [Users -> Int]
         /\ server' \in [Servers -> ServerDoc]
<1>1. h.target \in Users /\ h.server \in Servers
  BY DEF Handler
<1>2. members' \subseteq members
  BY DEF RemoveMembership
<1>3. IncServers(h.target, -1) /\ IncMembers(h.server, -1)
  BY DEF RemoveMembership
<1>4. QED
  BY <1>1, <1>2, <1>3, IncServersType, IncMembersType, FS_Subset DEF TypeOK

LEMMA SetRoleType ==
  ASSUME NEW ms \in SUBSET Membership, IsFiniteSet(ms),
         NEW u, NEW s, NEW id, NEW role \in Roles
  PROVE  /\ SetRole(ms, u, s, id, role) \in SUBSET Membership
         /\ IsFiniteSet(SetRole(ms, u, s, id, role))
<1> DEFINE f == [m \in ms |->
                   IF Names(m, u, s, id) THEN [m EXCEPT !.role = role] ELSE m]
<1>1. SetRole(ms, u, s, id, role) = {f[m] : m \in ms}
  BY DEF SetRole
<1>2. \A m \in ms : f[m] \in Membership
  BY DEF Membership
<1>3. IsFiniteSet({f[m] : m \in ms})
  <2>1. f \in Surjection(ms, {f[m] : m \in ms})
    BY DEF Surjection
  <2>2. QED
    BY <2>1, FS_Surjection
<1>4. QED
  BY <1>1, <1>2, <1>3
-----------------------------------------------------------------------------
(* The handlers that only read: req is the one variable that changes.        *)
LEMMA BeginningsType ==
  ASSUME TypeOK, NEW r \in Requests, Start(r)
  PROVE  TypeOK'
<1> SUFFICES ASSUME NEW a \in Users, NEW s \in Servers,
               \/ JoinBegin(r, a, s)
               \/ LeaveBegin(r, a, s)
               \/ RemoveServerBegin(r, a, s)
               \/ \E t \in Users :
                    \/ \E op \in {"kick", "ban"} : KickOrBanBegin(r, op, a, t, s)
                    \/ UnbanBegin(r, a, t, s)
                    \/ TransferBegin(r, a, t, s)
                    \/ \E role \in Roles : AssignBegin(r, a, t, s, role)
             PROVE  TypeOK'
  BY DEF Start
<1> USE DEF Documents, Bans
<1>a. \A h \in Handler : Begin(r, h) => req' \in [Requests -> Handler \cup {Idle}]
  BY BeginType
<1>b. \A op \in Ops, t \in Users :
        /\ Call(op, s, a, t) \in Handler
        /\ \A b \in BOOLEAN : [Call(op, s, a, t) EXCEPT !.seen = b] \in Handler
        /\ \A i \in ObjectIds : [Call(op, s, a, t) EXCEPT !.tid = i] \in Handler
        /\ \A i \in ObjectIds, j \in ObjectIds :
             [Call(op, s, a, t) EXCEPT !.tid = i, !.aid = j] \in Handler
        /\ \A i \in ObjectIds, role \in Roles :
             [Call(op, s, a, t) EXCEPT !.tid = i, !.role = role] \in Handler
  <2> TAKE op \in Ops, t \in Users
  <2>1. Call(op, s, a, t) \in Handler
    BY CallType
  <2>2. QED
    BY <2>1 DEF Handler
<1>c. \A m \in members : m.id \in ObjectIds
  BY DEF TypeOK, Membership
<1>o. {"join", "leave", "kick", "ban", "unban", "role", "transfer", "remove"} = Ops
  BY DEF Ops
<1>d. req' \in [Requests -> Handler \cup {Idle}] /\ UNCHANGED <<Documents, Bans>>
  <2>1. CASE JoinBegin(r, a, s)
    <3>1. (s \in bannedBy[a]) \in BOOLEAN
      OBVIOUS
    <3>2. [Call("join", s, a, a) EXCEPT !.seen = s \in bannedBy[a]] \in Handler
      BY <3>1, <1>b, <1>o
    <3>3. QED
      BY <2>1, <3>2, <1>a DEF JoinBegin
  <2>2. CASE LeaveBegin(r, a, s)
    BY <2>2, <1>a, <1>b, <1>c, <1>o DEF LeaveBegin, MembersOf
  <2>3. CASE RemoveServerBegin(r, a, s)
    BY <2>3, <1>a, <1>b, <1>o DEF RemoveServerBegin
  <2>4. ASSUME NEW t \in Users, NEW op \in {"kick", "ban"},
               KickOrBanBegin(r, op, a, t, s)
        PROVE  req' \in [Requests -> Handler \cup {Idle}] /\ UNCHANGED <<Documents, Bans>>
    BY <2>4, <1>a, <1>b, <1>c, <1>o DEF KickOrBanBegin, MembersOf
  <2>5. ASSUME NEW t \in Users, UnbanBegin(r, a, t, s)
        PROVE  req' \in [Requests -> Handler \cup {Idle}] /\ UNCHANGED <<Documents, Bans>>
    BY <2>5, <1>a, <1>b, <1>o DEF UnbanBegin
  <2>6. ASSUME NEW t \in Users, TransferBegin(r, a, t, s)
        PROVE  req' \in [Requests -> Handler \cup {Idle}] /\ UNCHANGED <<Documents, Bans>>
    BY <2>6, <1>a, <1>b, <1>c, <1>o DEF TransferBegin, MembersOf
  <2>7. ASSUME NEW t \in Users, NEW role \in Roles, AssignBegin(r, a, t, s, role)
        PROVE  req' \in [Requests -> Handler \cup {Idle}] /\ UNCHANGED <<Documents, Bans>>
    <3>1. PICK tm \in members :
            Begin(r, [Call("role", s, a, t) EXCEPT !.tid = tm.id, !.role = role])
      BY <2>7 DEF AssignBegin, MembersOf
    <3>2. [Call("role", s, a, t) EXCEPT !.tid = tm.id, !.role = role] \in Handler
      BY <1>b, <1>c, <1>o
    <3>3. UNCHANGED <<Documents, Bans>>
      BY <2>7 DEF AssignBegin
    <3>4. QED
      BY <3>1, <3>2, <3>3, <1>a
  <2>8. QED
    BY <2>1, <2>2, <2>3, <2>4, <2>5, <2>6, <2>7
<1>e. QED
  BY <1>d DEF TypeOK

(* The handlers that write.                                                  *)
LEMMA WritesType ==
  ASSUME TypeOK, NEW r \in Requests, Continue(r)
  PROVE  TypeOK'
<1> USE DEF Documents, Bans
<1> DEFINE h == req[r]
<1>a. \A op, step : At(r, op, step) =>
        /\ h \in Handler
        /\ h.server \in Servers /\ h.actor \in Users /\ h.target \in Users
        /\ h.role \in Roles
  BY HandlerType DEF Handler
<1>b. Finish(r) => req' \in [Requests -> Handler \cup {Idle}]
  BY FinishType
<1>r. Owner \in Roles /\ Member \in Roles /\ 1 \in Int /\ -1 \in Int
  BY DEF Roles
<1>s. {"begun", "checked", "pulled", "listed", "cleared"} = Steps
  BY DEF Steps
<1>1. CASE JoinCheck(r)
  BY <1>1, <1>s, StepType DEF JoinCheck, TypeOK
<1>2. CASE JoinCommit(r)
  BY <1>2, <1>a, <1>b, <1>r, InsertType, IncMembersType, IncServersType
     DEF JoinCommit, TypeOK
<1>3. CASE LeaveCommit(r)
  BY <1>3, <1>a, <1>b, RemoveType DEF LeaveCommit, TypeOK
<1>4. CASE KickCommit(r)
  BY <1>4, <1>a, <1>b, RemoveType DEF KickCommit, TypeOK
<1>5. CASE BanCommit(r)
  <2>1. /\ members' \subseteq Membership /\ IsFiniteSet(members')
        /\ serverCount' \in [Users -> Int]
        /\ server' \in [Servers -> ServerDoc]
    BY <1>5, <1>a, RemoveType DEF BanCommit
  <2>2. bannedBy' \in [Users -> SUBSET Servers] /\ isBanned' \in [Users -> BOOLEAN]
    BY <1>5, <1>a DEF BanCommit, TypeOK
  <2>3. banDocs' \subseteq Servers \X Users
    BY <1>5, <1>a DEF BanCommit, TypeOK
  <2>4. Finish(r)
    BY <1>5 DEF BanCommit
  <2>5. QED
    BY <2>1, <2>2, <2>3, <2>4, <1>b DEF TypeOK
<1>6. CASE UnbanPull(r)
  <2>1. req' \in [Requests -> Handler \cup {Idle}]
    BY <1>6, <1>s, StepType DEF UnbanPull
  <2>2. bannedBy' \in [Users -> SUBSET Servers]
    BY <1>6, <1>a DEF UnbanPull, TypeOK
  <2>3. QED
    BY <1>6, <2>1, <2>2 DEF UnbanPull, TypeOK
<1>7. CASE UnbanReread(r)
  <2>1. [h EXCEPT !.step = "listed", !.seen = bannedBy[h.target] = {}] \in Handler
    <3>1. (bannedBy[h.target] = {}) \in BOOLEAN
      OBVIOUS
    <3>2. h \in Handler
      BY <1>7, <1>a DEF UnbanReread
    <3>3. QED
      BY <3>1, <3>2, <1>s DEF Handler
  <2>2. req' \in [Requests -> Handler \cup {Idle}]
    BY <1>7, <2>1 DEF UnbanReread, TypeOK
  <2>3. QED
    BY <1>7, <2>2 DEF UnbanReread, TypeOK
<1>8. CASE UnbanClear(r)
  <2>1. req' \in [Requests -> Handler \cup {Idle}]
    BY <1>8, <1>s, StepType DEF UnbanClear
  <2>2. isBanned' \in [Users -> BOOLEAN]
    BY <1>8, <1>a DEF UnbanClear, TypeOK
  <2>3. QED
    BY <1>8, <2>1, <2>2 DEF UnbanClear, TypeOK
<1>9. CASE UnbanDelete(r)
  BY <1>9, <1>b DEF UnbanDelete, TypeOK
<1>10. CASE AssignSave(r)
  BY <1>10, <1>a, <1>b, SetRoleType DEF AssignSave, TypeOK
<1>11. CASE TransferCommit(r)
  <2>1. members' \in SUBSET Membership /\ IsFiniteSet(members')
    BY <1>11, <1>r, SetRoleType DEF TransferCommit, TypeOK
  <2>2. server' \in [Servers -> ServerDoc]
    BY <1>11, <1>a DEF TransferCommit, TypeOK, ServerDoc
  <2>3. QED
    BY <1>11, <1>b, <2>1, <2>2 DEF TransferCommit, TypeOK
<1>12. CASE RemoveServerCommit(r)
  <2>1. server' \in [Servers -> ServerDoc]
    BY <1>12, <1>a DEF RemoveServerCommit, TypeOK, ServerDoc
  <2>2. serverCount' \in [Users -> Int]
    BY <1>12 DEF RemoveServerCommit, TypeOK
  <2>3. members' \in SUBSET members
    BY <1>12 DEF RemoveServerCommit
  <2>4. QED
    BY <1>12, <1>b, <2>1, <2>2, <2>3, FS_Subset DEF RemoveServerCommit, TypeOK
<1>13. CASE GiveUp(r)
  BY <1>13, <1>b DEF GiveUp, TypeOK
<1>14. QED
  BY <1>1, <1>2, <1>3, <1>4, <1>5, <1>6, <1>7, <1>8, <1>9, <1>10, <1>11,
     <1>12, <1>13 DEF Continue

LEMMA CreateType ==
  ASSUME TypeOK, NEW u \in Users, NEW s \in Servers, CreateServer(u, s)
  PROVE  TypeOK'
<1>1. Owner \in Roles /\ 1 \in Int
  BY DEF Roles
<1>2. server' \in [Servers -> ServerDoc]
  BY DEF CreateServer, TypeOK, ServerDoc
<1>3. QED
  BY <1>1, <1>2, InsertType, IncServersType DEF CreateServer, TypeOK

LEMMA InitType == Init => TypeOK
<1> SUFFICES ASSUME Init PROVE TypeOK
  OBVIOUS
<1>1. server \in [Servers -> ServerDoc]
  BY DEF Init, ServerDoc
<1>2. QED
  BY <1>1, FS_EmptySet DEF Init, TypeOK

LEMMA NextType == TypeOK /\ [Next]_vars => TypeOK'
<1> SUFFICES ASSUME TypeOK, [Next]_vars PROVE TypeOK'
  OBVIOUS
<1>1. CASE \E u \in Users, s \in Servers : CreateServer(u, s)
  BY <1>1, CreateType
<1>2. CASE \E r \in Requests : Start(r) \/ Continue(r)
  BY <1>2, BeginningsType, WritesType
<1>3. CASE UNCHANGED vars
  BY <1>3 DEF vars, TypeOK
<1>4. QED
  BY <1>1, <1>2, <1>3 DEF Next

(* Every stored document and every handler keeps its declared shape, and the *)
(* collection of memberships stays finite, for any number of requests.       *)
THEOREM TypeCorrect == Spec => []TypeOK
<1>1. QED
  BY InitType, NextType, PTL DEF Spec
-----------------------------------------------------------------------------
(* Counting the documents of a server or a user across one write.            *)
LEMMA SubsetsFinite ==
  ASSUME TypeOK
  PROVE  /\ \A s : IsFiniteSet(MembersOf(s)) /\ Cardinality(MembersOf(s)) \in Nat
         /\ \A u : IsFiniteSet(MembershipsOf(u)) /\ Cardinality(MembershipsOf(u)) \in Nat
BY FS_Subset, FS_CardinalityType DEF TypeOK, MembersOf, MembershipsOf

LEMMA InsertCards ==
  ASSUME TypeOK, NEW u \in Users, NEW s \in Servers, NEW role,
         InsertMember(u, s, role)
  PROVE  /\ \A x \in Servers : Cardinality(MembersOf(x)') =
              Cardinality(MembersOf(x)) + (IF x = s THEN 1 ELSE 0)
         /\ \A v \in Users : Cardinality(MembershipsOf(v)') =
              Cardinality(MembershipsOf(v)) + (IF v = u THEN 1 ELSE 0)
         /\ \E m : /\ m \notin members /\ members' = members \cup {m}
                   /\ m.user = u /\ m.server = s /\ m.role = role
<1> DEFINE id == CHOOSE i \in FreshIds(u, s) : TRUE
           m == [id |-> id, user |-> u, server |-> s, role |-> role]
<1>1. id \in FreshIds(u, s)
  BY DEF InsertMember
<1>2. m \notin members
  BY <1>1 DEF FreshIds, MembersOf
<1>3. members' = members \cup {m}
  BY DEF InsertMember
<1>4. \A x \in Servers : MembersOf(x)' =
        IF x = s THEN MembersOf(x) \cup {m} ELSE MembersOf(x)
  BY <1>3 DEF MembersOf
<1>5. \A v \in Users : MembershipsOf(v)' =
        IF v = u THEN MembershipsOf(v) \cup {m} ELSE MembershipsOf(v)
  BY <1>3 DEF MembershipsOf
<1>6. m \notin MembersOf(s) /\ m \notin MembershipsOf(u)
  BY <1>2 DEF MembersOf, MembershipsOf
<1>7. Cardinality(MembersOf(s) \cup {m}) = Cardinality(MembersOf(s)) + 1
  BY <1>6, SubsetsFinite, FS_AddElement
<1>8. Cardinality(MembershipsOf(u) \cup {m}) = Cardinality(MembershipsOf(u)) + 1
  BY <1>6, SubsetsFinite, FS_AddElement
<1>9. \A x \in Servers : Cardinality(MembersOf(x)') =
        Cardinality(MembersOf(x)) + (IF x = s THEN 1 ELSE 0)
  BY <1>4, <1>7, SubsetsFinite
<1>10. \A v \in Users : Cardinality(MembershipsOf(v)') =
        Cardinality(MembershipsOf(v)) + (IF v = u THEN 1 ELSE 0)
  <2> SUFFICES ASSUME NEW v \in Users
               PROVE  Cardinality(MembershipsOf(v)') =
                        Cardinality(MembershipsOf(v)) + (IF v = u THEN 1 ELSE 0)
    OBVIOUS
  <2>1. CASE v = u
    BY <2>1, <1>5, <1>8
  <2>2. CASE v # u
    <3>1. MembershipsOf(v)' = MembershipsOf(v)
      BY <2>2, <1>5
    <3>2. Cardinality(MembershipsOf(v)) \in Nat
      BY SubsetsFinite
    <3>3. QED
      BY <2>2, <3>1, <3>2
  <2>3. QED
    BY <2>1, <2>2
<1>11. m.user = u /\ m.server = s /\ m.role = role
  OBVIOUS
<1>12. QED
  BY <1>2, <1>3, <1>9, <1>10, <1>11

LEMMA RemoveCards ==
  ASSUME TypeOK, UniqueIn(members), NEW u, NEW s, NEW id,
         members' = {m \in members : ~Names(m, u, s, id)}
  PROVE  /\ \A x \in Servers : Cardinality(MembersOf(x)') >=
              Cardinality(MembersOf(x)) - (IF x = s THEN 1 ELSE 0)
         /\ \A v \in Users : Cardinality(MembershipsOf(v)') >=
              Cardinality(MembershipsOf(v)) - (IF v = u THEN 1 ELSE 0)
<1>1. CASE \E m \in members : Names(m, u, s, id)
  <2>1. PICK m \in members : Names(m, u, s, id)
    BY <1>1
  <2>2. members' = members \ {m}
    BY <2>1 DEF UniqueIn, Names
  <2>3. m.user = u /\ m.server = s
    BY <2>1 DEF Names
  <2>4. \A x \in Servers : MembersOf(x)' =
          IF x = s THEN MembersOf(x) \ {m} ELSE MembersOf(x)
    BY <2>2, <2>3 DEF MembersOf
  <2>5. \A v \in Users : MembershipsOf(v)' =
          IF v = u THEN MembershipsOf(v) \ {m} ELSE MembershipsOf(v)
    BY <2>2, <2>3 DEF MembershipsOf
  <2>6. Cardinality(MembersOf(s) \ {m}) >= Cardinality(MembersOf(s)) - 1
    <3>1. IsFiniteSet(MembersOf(s)) /\ Cardinality(MembersOf(s)) \in Nat
      BY SubsetsFinite
    <3>2. PICK S : S = MembersOf(s)
      OBVIOUS
    <3>3. Cardinality(S \ {m}) = IF m \in S THEN Cardinality(S) - 1 ELSE Cardinality(S)
      BY <3>1, <3>2, FS_RemoveElement
    <3>4. QED
      BY <3>1, <3>2, <3>3
  <2>7. Cardinality(MembershipsOf(u) \ {m}) >= Cardinality(MembershipsOf(u)) - 1
    <3>1. IsFiniteSet(MembershipsOf(u)) /\ Cardinality(MembershipsOf(u)) \in Nat
      BY SubsetsFinite
    <3>2. PICK S : S = MembershipsOf(u)
      OBVIOUS
    <3>3. Cardinality(S \ {m}) = IF m \in S THEN Cardinality(S) - 1 ELSE Cardinality(S)
      BY <3>1, <3>2, FS_RemoveElement
    <3>4. QED
      BY <3>1, <3>2, <3>3
  <2>8. QED
    BY <2>4, <2>5, <2>6, <2>7, SubsetsFinite
<1>2. CASE ~ \E m \in members : Names(m, u, s, id)
  <2>1. members' = members
    BY <1>2
  <2>2. /\ \A x : MembersOf(x)' = MembersOf(x)
        /\ \A v : MembershipsOf(v)' = MembershipsOf(v)
    BY <2>1 DEF MembersOf, MembershipsOf
  <2>3. QED
    BY <2>2, SubsetsFinite
<1>3. QED
  BY <1>1, <1>2

LEMMA SetRoleCards ==
  ASSUME NEW ms \in SUBSET Membership, IsFiniteSet(ms), UniqueIn(ms),
         NEW u, NEW s, NEW id, NEW role
  PROVE  /\ Cardinality(SetRole(ms, u, s, id, role)) = Cardinality(ms)
         /\ UniqueIn(SetRole(ms, u, s, id, role))
<1> DEFINE f == [m \in ms |->
                   IF Names(m, u, s, id) THEN [m EXCEPT !.role = role] ELSE m]
           T == {f[m] : m \in ms}
<1>1. SetRole(ms, u, s, id, role) = T
  BY DEF SetRole
<1>2. \A m \in ms : f[m].user = m.user /\ f[m].server = m.server
  BY DEF Membership
<1>3. \A m, n \in ms : f[m].user = f[n].user /\ f[m].server = f[n].server => m = n
  BY <1>2 DEF UniqueIn
<1>f. f \in [ms -> T]
  OBVIOUS
<1> HIDE DEF f
<1>4. UniqueIn(T)
  BY <1>3 DEF UniqueIn
<1>5. f \in Surjection(ms, T)
  BY <1>f DEF Surjection
<1>6. f \in Injection(ms, T)
  BY <1>3, <1>f DEF Injection, IsInjective
<1>7. Cardinality(T) = Cardinality(ms)
  BY <1>5, <1>6, FS_Surjection
<1>8. QED
  BY <1>1, <1>4, <1>7

(* The update keeps user and server, so it acts on each server's and on each *)
(* user's documents alone.                                                   *)
ServerPart(ms, x) == {m \in ms : m.server = x}
UserPart(ms, x) == {m \in ms : m.user = x}

LEMMA SetRoleParts ==
  ASSUME NEW ms \in SUBSET Membership, NEW u, NEW s, NEW id, NEW role, NEW x
  PROVE  /\ ServerPart(SetRole(ms, u, s, id, role), x) =
              SetRole(ServerPart(ms, x), u, s, id, role)
         /\ UserPart(SetRole(ms, u, s, id, role), x) =
              SetRole(UserPart(ms, x), u, s, id, role)
<1> DEFINE g(m) == IF Names(m, u, s, id) THEN [m EXCEPT !.role = role] ELSE m
<1>1. \A m \in ms : g(m).user = m.user /\ g(m).server = m.server
  BY DEF Membership
<1>2. \A S : SetRole(S, u, s, id, role) = {g(m) : m \in S}
  BY DEF SetRole
<1> HIDE DEF g
<1>3. ServerPart({g(n) : n \in ms}, x) = {g(m) : m \in ServerPart(ms, x)}
  BY <1>1 DEF ServerPart
<1>4. UserPart({g(n) : n \in ms}, x) = {g(m) : m \in UserPart(ms, x)}
  BY <1>1 DEF UserPart
<1>5. QED
  BY <1>2, <1>3, <1>4

LEMMA RolesKeepCards ==
  ASSUME NEW ms \in SUBSET Membership, IsFiniteSet(ms), UniqueIn(ms),
         NEW u, NEW s, NEW id, NEW role \in Roles
  PROVE  LET new == SetRole(ms, u, s, id, role) IN
         /\ new \in SUBSET Membership /\ IsFiniteSet(new) /\ UniqueIn(new)
         /\ \A m \in new : \E n \in ms : m.server = n.server
         /\ \A x : Cardinality(ServerPart(new, x)) = Cardinality(ServerPart(ms, x))
         /\ \A x : Cardinality(UserPart(new, x)) = Cardinality(UserPart(ms, x))
<1> DEFINE new == SetRole(ms, u, s, id, role)
<1>1. new \in SUBSET Membership /\ IsFiniteSet(new) /\ UniqueIn(new)
  BY SetRoleType, SetRoleCards
<1>2. \A m \in new : \E n \in ms : m.server = n.server
  BY DEF SetRole, Membership
<1>3. ASSUME NEW x
      PROVE  /\ Cardinality(ServerPart(new, x)) = Cardinality(ServerPart(ms, x))
             /\ Cardinality(UserPart(new, x)) = Cardinality(UserPart(ms, x))
  <2>1. ServerPart(ms, x) \in SUBSET ms /\ UserPart(ms, x) \in SUBSET ms
    BY DEF ServerPart, UserPart
  <2>2. /\ IsFiniteSet(ServerPart(ms, x)) /\ UniqueIn(ServerPart(ms, x))
        /\ IsFiniteSet(UserPart(ms, x)) /\ UniqueIn(UserPart(ms, x))
    BY <2>1, FS_Subset DEF UniqueIn
  <2>3. ServerPart(ms, x) \in SUBSET Membership /\ UserPart(ms, x) \in SUBSET Membership
    BY <2>1
  <2>4. /\ ServerPart(new, x) = SetRole(ServerPart(ms, x), u, s, id, role)
        /\ UserPart(new, x) = SetRole(UserPart(ms, x), u, s, id, role)
    BY SetRoleParts
  <2>5. QED
    BY <2>2, <2>3, <2>4, SetRoleCards
<1>4. QED
  BY <1>1, <1>2, <1>3

LEMMA PartsOfMembers ==
  /\ \A x : MembersOf(x) = ServerPart(members, x)
  /\ \A x : MembersOf(x)' = ServerPart(members', x)
  /\ \A x : MembershipsOf(x) = UserPart(members, x)
  /\ \A x : MembershipsOf(x)' = UserPart(members', x)
BY DEF MembersOf, MembershipsOf, ServerPart, UserPart

-----------------------------------------------------------------------------
(* The invariant, one lemma per kind of step.                                *)
LEMMA InvInit == Init => MembershipInv
<1> SUFFICES ASSUME Init PROVE MembershipInv
  OBVIOUS
<1>1. TypeOK
  BY InitType
<1>2. members = {} /\ \A r \in Requests : req[r] = Idle
  BY DEF Init
<1>3. UniqueIn(members) /\ NoEarlyMember
  BY <1>2 DEF UniqueIn, NoEarlyMember, At
<1>4. \A s \in Servers : ~Live(s)
  BY DEF Init, Live
<1>5. \A u \in Users : serverCount[u] = 0 /\ MembershipsOf(u) = {}
  BY DEF Init, MembershipsOf
<1>6. CountsNeverAbove
  BY <1>4, <1>5, FS_EmptySet DEF CountsNeverAbove
<1>7. QED
  BY <1>1, <1>3, <1>6 DEF MembershipInv

(* A step that changes no counted document, no counter and no server.        *)
LEMMA InvSameDocuments ==
  ASSUME MembershipInv, TypeOK', UNCHANGED Documents,
         \A r \in Requests : At(r, "join", "checked")' =>
           \/ At(r, "join", "checked") /\ req'[r].server = req[r].server
           \/ Live(req'[r].server)
  PROVE  MembershipInv'
<1>1. /\ \A x : MembersOf(x)' = MembersOf(x)
      /\ \A x : MembershipsOf(x)' = MembershipsOf(x)
  BY DEF Documents, MembersOf, MembershipsOf
<1>2. CountsNeverAbove'
  BY <1>1 DEF MembershipInv, CountsNeverAbove, Documents, Live
<1>3. NoEarlyMember' /\ UniqueIn(members)'
  BY DEF MembershipInv, NoEarlyMember, Documents, Live
<1>4. QED
  BY <1>2, <1>3 DEF MembershipInv

(* No other handler's record changes when one finishes.                      *)
LEMMA FinishKeepsJoins ==
  ASSUME NEW r \in Requests, TypeOK, Finish(r), NEW q \in Requests,
         At(q, "join", "checked")'
  PROVE  At(q, "join", "checked") /\ req'[q] = req[q]
BY DEF Finish, At, TypeOK

(* removal of one membership by _id with both decrements                     *)
LEMMA InvRemove ==
  ASSUME MembershipInv, TypeOK', NEW r \in Requests, NEW op, NEW step,
         At(r, op, step), RemoveMembership(req[r]), Finish(r)
  PROVE  MembershipInv'
<1> DEFINE h == req[r]
<1>1. TypeOK /\ UniqueIn(members) /\ NoEarlyMember /\ CountsNeverAbove
  BY DEF MembershipInv
<1>2. h.server \in Servers /\ h.target \in Users
  BY <1>1, HandlerType DEF Handler
<1>3. /\ members' = {m \in members : ~Names(m, h.target, h.server, h.tid)}
      /\ IncServers(h.target, -1)
      /\ IncMembers(h.server, -1)
  BY DEF RemoveMembership
<1>4. /\ \A x \in Servers : Cardinality(MembersOf(x)') >=
            Cardinality(MembersOf(x)) - (IF x = h.server THEN 1 ELSE 0)
      /\ \A v \in Users : Cardinality(MembershipsOf(v)') >=
            Cardinality(MembershipsOf(v)) - (IF v = h.target THEN 1 ELSE 0)
  BY <1>1, <1>3, RemoveCards
<1>5. \A x \in Servers : /\ server'[x].state = server[x].state
                         /\ Live(x) => server'[x].member_count =
                              server[x].member_count - (IF x = h.server THEN 1 ELSE 0)
  BY <1>1, <1>2, <1>3 DEF IncMembers, TypeOK, ServerDoc, Live
<1>6. \A v \in Users : serverCount'[v] =
        serverCount[v] - (IF v = h.target THEN 1 ELSE 0)
  BY <1>1, <1>2, <1>3 DEF IncServers, TypeOK
<1>7. /\ \A x \in Servers : Cardinality(MembersOf(x)) \in Nat
      /\ \A x \in Users : Cardinality(MembershipsOf(x)) \in Nat
  BY <1>1, SubsetsFinite
<1>8. /\ \A x \in Servers : Cardinality(MembersOf(x)') \in Nat
      /\ \A x \in Users : Cardinality(MembershipsOf(x)') \in Nat
  <2>1. IsFiniteSet(members')
    BY DEF TypeOK
  <2>2. \A x : MembersOf(x)' \in SUBSET (members') /\ MembershipsOf(x)' \in SUBSET (members')
    BY DEF MembersOf, MembershipsOf
  <2>3. QED
    BY <2>1, <2>2, FS_Subset, FS_CardinalityType
<1>9. CountsNeverAbove'
  <2>1. ASSUME NEW x \in Servers, Live(x)'
        PROVE  server'[x].member_count <= Cardinality(MembersOf(x)')
    <3>1. Live(x) /\ server[x].member_count <= Cardinality(MembersOf(x))
      BY <1>1, <1>5, <2>1 DEF CountsNeverAbove, Live
    <3>2. server[x].member_count \in Int
      BY <1>1 DEF TypeOK, ServerDoc
    <3>3. QED
      BY <1>4, <1>5, <1>7, <1>8, <3>1, <3>2
  <2>2. ASSUME NEW v \in Users
        PROVE  serverCount'[v] <= Cardinality(MembershipsOf(v)')
    <3>1. serverCount[v] <= Cardinality(MembershipsOf(v)) /\ serverCount[v] \in Int
      BY <1>1 DEF CountsNeverAbove, TypeOK
    <3>2. QED
      BY <1>4, <1>6, <1>7, <1>8, <3>1
  <2>3. QED
    BY <2>1, <2>2 DEF CountsNeverAbove
<1>10. UniqueIn(members')
  BY <1>1, <1>3 DEF UniqueIn
<1>11. NoEarlyMember'
  <2>1. \A m \in members' : m \in members /\ m.server \in Servers
    BY <1>1, <1>3 DEF TypeOK, Membership
  <2>2. \A q \in Requests : At(q, "join", "checked")' =>
          At(q, "join", "checked") /\ req'[q] = req[q] /\ req[q].server \in Servers
    BY <1>1, FinishKeepsJoins, HandlerType DEF Handler
  <2>3. QED
    BY <1>1, <1>5, <2>1, <2>2 DEF NoEarlyMember
<1>12. QED
  BY <1>9, <1>10, <1>11 DEF MembershipInv

(* insertion of a membership with the increment of the user's counter; the   *)
(* server ends with a count that is at most one above the old number         *)
LEMMA InvInsert ==
  ASSUME MembershipInv, TypeOK', NEW u \in Users, NEW s \in Servers,
         NEW role, InsertMember(u, s, role), IncServers(u, 1),
         \A m \in MembersOf(s) : m.user # u,
         server'[s].state # "unborn",
         Live(s)' => server'[s].member_count <= Cardinality(MembersOf(s)) + 1,
         \A x \in Servers \ {s} : server'[x] = server[x],
         \A q \in Requests : At(q, "join", "checked")' =>
           At(q, "join", "checked") /\ req'[q] = req[q]
  PROVE  MembershipInv'
<1>1. TypeOK /\ UniqueIn(members) /\ NoEarlyMember /\ CountsNeverAbove
  BY DEF MembershipInv
<1>3. /\ \A x \in Servers : Cardinality(MembersOf(x)') =
            Cardinality(MembersOf(x)) + (IF x = s THEN 1 ELSE 0)
      /\ \A v \in Users : Cardinality(MembershipsOf(v)') =
            Cardinality(MembershipsOf(v)) + (IF v = u THEN 1 ELSE 0)
  BY <1>1, InsertCards
<1>4. PICK m : /\ m \notin members /\ members' = members \cup {m}
               /\ m.user = u /\ m.server = s
  BY <1>1, InsertCards
<1>5. UniqueIn(members')
  BY <1>1, <1>4 DEF UniqueIn, MembersOf
<1>6. CountsNeverAbove'
  <2>1. ASSUME NEW x \in Servers, Live(x)'
        PROVE  server'[x].member_count <= Cardinality(MembersOf(x)')
    <3>1. CASE x = s
      BY <3>1, <2>1, <1>3
    <3>2. CASE x # s
      <4>1. Live(x) /\ server'[x].member_count <= Cardinality(MembersOf(x))
        BY <3>2, <2>1, <1>1 DEF CountsNeverAbove, Live
      <4>2. Cardinality(MembersOf(x)) \in Nat
        BY <1>1, SubsetsFinite
      <4>3. QED
        BY <3>2, <4>1, <4>2, <1>3
    <3>3. QED
      BY <3>1, <3>2
  <2>2. ASSUME NEW v \in Users
        PROVE  serverCount'[v] <= Cardinality(MembershipsOf(v)')
    <3>1. serverCount[v] <= Cardinality(MembershipsOf(v)) /\ serverCount[v] \in Int
      BY <1>1 DEF CountsNeverAbove, TypeOK
    <3>2. serverCount'[v] = serverCount[v] + (IF v = u THEN 1 ELSE 0)
      BY <1>1, <3>1 DEF IncServers, TypeOK
    <3>3. Cardinality(MembershipsOf(v)) \in Nat
      BY <1>1, SubsetsFinite
    <3>4. QED
      BY <1>3, <3>1, <3>2, <3>3
  <2>3. QED
    BY <2>1, <2>2 DEF CountsNeverAbove
<1>7. NoEarlyMember'
  <2>1. \A x \in Servers : server[x].state # "unborn" => server'[x].state # "unborn"
    OBVIOUS
  <2>2. \A n \in members' : server'[n.server].state # "unborn"
    BY <1>1, <1>4, <2>1 DEF NoEarlyMember, TypeOK, Membership
  <2>3. \A q \in Requests : At(q, "join", "checked")' =>
          req'[q].server \in Servers /\ server[req'[q].server].state # "unborn"
    BY <1>1, HandlerType DEF NoEarlyMember, Handler
  <2>4. QED
    BY <2>1, <2>2, <2>3 DEF NoEarlyMember
<1>8. QED
  BY <1>5, <1>6, <1>7 DEF MembershipInv

(* a step that only rewrites roles, and possibly owner_id                    *)
LEMMA InvRoles ==
  ASSUME MembershipInv, TypeOK', UNCHANGED serverCount,
         UniqueIn(members'),
         \A m \in members' : \E n \in members : m.server = n.server,
         \A x : Cardinality(ServerPart(members', x)) =
                  Cardinality(ServerPart(members, x)),
         \A x : Cardinality(UserPart(members', x)) =
                  Cardinality(UserPart(members, x)),
         \A x \in Servers : /\ server'[x].state = server[x].state
                            /\ server'[x].member_count = server[x].member_count,
         \A q \in Requests : At(q, "join", "checked")' =>
           At(q, "join", "checked") /\ req'[q] = req[q]
  PROVE  MembershipInv'
<1>1. TypeOK /\ UniqueIn(members) /\ NoEarlyMember /\ CountsNeverAbove
  BY DEF MembershipInv
<1>2. CountsNeverAbove'
  BY <1>1, PartsOfMembers DEF CountsNeverAbove, Live
<1>3. NoEarlyMember'
  <2>1. \A n \in members : n.server \in Servers
    BY <1>1 DEF TypeOK, Membership
  <2>2. \A m \in members' : server'[m.server].state # "unborn"
    BY <1>1, <2>1 DEF NoEarlyMember
  <2>3. \A q \in Requests : At(q, "join", "checked") => req[q].server \in Servers
    BY <1>1, HandlerType DEF Handler
  <2>4. QED
    BY <1>1, <2>2, <2>3 DEF NoEarlyMember
<1>4. QED
  BY <1>2, <1>3 DEF MembershipInv

LEMMA InvRemoveServer ==
  ASSUME MembershipInv, TypeOK', NEW r \in Requests, RemoveServerCommit(r)
  PROVE  MembershipInv'
<1> DEFINE s == req[r].server
           gone == MembersOf(s)
<1>1. TypeOK /\ UniqueIn(members) /\ NoEarlyMember /\ CountsNeverAbove
  BY DEF MembershipInv
<1>2. s \in Servers
  BY <1>1, HandlerType DEF RemoveServerCommit, Handler
<1>3. members' = members \ gone /\ Finish(r)
  BY DEF RemoveServerCommit
<1>4. \A x \in Servers : /\ server'[x].state = IF x = s THEN "deleted" ELSE server[x].state
                         /\ x # s => server'[x] = server[x]
  BY <1>1, <1>2 DEF RemoveServerCommit, TypeOK, ServerDoc
<1>5. ASSUME NEW x \in Servers, Live(x)'
      PROVE  server'[x].member_count <= Cardinality(MembersOf(x)')
  <2>1. x # s /\ Live(x) /\ server'[x] = server[x]
    BY <1>4, <1>5 DEF Live
  <2>2. MembersOf(x)' = MembersOf(x)
    BY <1>3, <2>1 DEF MembersOf
  <2>3. QED
    BY <1>1, <2>1, <2>2 DEF CountsNeverAbove
<1>6. ASSUME NEW v \in Users
      PROVE  serverCount'[v] <= Cardinality(MembershipsOf(v)')
  <2>1. /\ serverCount[v] <= Cardinality(MembershipsOf(v)) /\ serverCount[v] \in Int
        /\ IsFiniteSet(MembershipsOf(v)) /\ Cardinality(MembershipsOf(v)) \in Nat
    BY <1>1, SubsetsFinite DEF CountsNeverAbove, TypeOK
  <2>2. serverCount'[v] = IF \E m \in gone : m.user = v THEN serverCount[v] - 1
                                                       ELSE serverCount[v]
    BY DEF RemoveServerCommit
  <2>3. CASE \E m \in gone : m.user = v
    <3>1. PICK m \in gone : m.user = v
      BY <2>3
    <3>2. MembershipsOf(v)' = MembershipsOf(v) \ {m}
      BY <1>1, <1>3, <3>1 DEF UniqueIn, MembersOf, MembershipsOf
    <3>3. Cardinality(MembershipsOf(v) \ {m}) >= Cardinality(MembershipsOf(v)) - 1
      <4>1. IsFiniteSet(MembershipsOf(v)) /\ Cardinality(MembershipsOf(v)) \in Nat
        BY <2>1
      <4>2. Cardinality(MembershipsOf(v) \ {m}) =
              IF m \in MembershipsOf(v) THEN Cardinality(MembershipsOf(v)) - 1
                                        ELSE Cardinality(MembershipsOf(v))
        BY <4>1, FS_RemoveElement
      <4>3. QED
        BY <4>1, <4>2
    <3>4. IsFiniteSet(MembershipsOf(v) \ {m})
      BY <2>1, FS_RemoveElement
    <3>5. Cardinality(MembershipsOf(v) \ {m}) \in Nat
      BY <3>4, FS_CardinalityType
    <3>6. QED
      BY <2>1, <2>2, <2>3, <3>2, <3>3, <3>5
  <2>4. CASE ~ \E m \in gone : m.user = v
    <3>1. MembershipsOf(v)' = MembershipsOf(v)
      BY <1>3, <2>4 DEF MembersOf, MembershipsOf
    <3>2. QED
      BY <2>1, <2>2, <2>4, <3>1
  <2>5. QED
    BY <2>3, <2>4
<1>7. UniqueIn(members')
  BY <1>1, <1>3 DEF UniqueIn
<1>8. NoEarlyMember'
  <2>1. \A x \in Servers : server[x].state # "unborn" => server'[x].state # "unborn"
    BY <1>4
  <2>2. \A m \in members' : m \in members /\ m.server \in Servers
    BY <1>1, <1>3 DEF TypeOK, Membership
  <2>3. \A q \in Requests : At(q, "join", "checked")' =>
          At(q, "join", "checked") /\ req'[q] = req[q] /\ req[q].server \in Servers
    BY <1>1, <1>3, FinishKeepsJoins, HandlerType DEF Handler
  <2>4. QED
    BY <1>1, <2>1, <2>2, <2>3 DEF NoEarlyMember
<1>9. QED
  BY <1>5, <1>6, <1>7, <1>8 DEF MembershipInv, CountsNeverAbove

LEMMA StartOnlyReads ==
  ASSUME NEW r \in Requests, Start(r)
  PROVE  UNCHANGED Documents /\ UNCHANGED Bans
<1>1. PICK a \in Users, s \in Servers :
        \/ JoinBegin(r, a, s)
        \/ LeaveBegin(r, a, s)
        \/ RemoveServerBegin(r, a, s)
        \/ \E t \in Users :
             \/ \E op \in {"kick", "ban"} : KickOrBanBegin(r, op, a, t, s)
             \/ UnbanBegin(r, a, t, s)
             \/ TransferBegin(r, a, t, s)
             \/ \E role \in Roles : AssignBegin(r, a, t, s, role)
  BY DEF Start
<1>2. /\ JoinBegin(r, a, s) => UNCHANGED <<Documents, Bans>>
      /\ LeaveBegin(r, a, s) => UNCHANGED <<Documents, Bans>>
      /\ RemoveServerBegin(r, a, s) => UNCHANGED <<Documents, Bans>>
  BY DEF JoinBegin, LeaveBegin, RemoveServerBegin
<1>3. \A t \in Users :
        /\ \A op : KickOrBanBegin(r, op, a, t, s) => UNCHANGED <<Documents, Bans>>
        /\ UnbanBegin(r, a, t, s) => UNCHANGED <<Documents, Bans>>
  BY DEF KickOrBanBegin, UnbanBegin
<1>4. \A t \in Users :
        /\ TransferBegin(r, a, t, s) => UNCHANGED <<Documents, Bans>>
        /\ \A role : AssignBegin(r, a, t, s, role) => UNCHANGED <<Documents, Bans>>
  BY DEF TransferBegin, AssignBegin
<1>5. UNCHANGED <<Documents, Bans>>
  BY <1>1, <1>2, <1>3, <1>4
<1>6. QED
  BY <1>5

LEMMA InvStart ==
  ASSUME MembershipInv, TypeOK', NEW r \in Requests, Start(r)
  PROVE  MembershipInv'
<1>1. TypeOK
  BY DEF MembershipInv
<1>2. UNCHANGED Documents
  BY StartOnlyReads
<1>3. \E h : Begin(r, h) /\ h.step = "begun"
  <2> SUFFICES ASSUME NEW a \in Users, NEW s \in Servers,
                 \/ JoinBegin(r, a, s)
                 \/ LeaveBegin(r, a, s)
                 \/ RemoveServerBegin(r, a, s)
                 \/ \E t \in Users :
                      \/ \E op \in {"kick", "ban"} : KickOrBanBegin(r, op, a, t, s)
                      \/ UnbanBegin(r, a, t, s)
                      \/ TransferBegin(r, a, t, s)
                      \/ \E role \in Roles : AssignBegin(r, a, t, s, role)
               PROVE  \E h : Begin(r, h) /\ h.step = "begun"
    BY DEF Start
  <2> DEFINE Begun(h) == Begin(r, h) /\ h.step = "begun"
  <2>1. CASE JoinBegin(r, a, s)
    <3>1. Begun([Call("join", s, a, a) EXCEPT !.seen = s \in bannedBy[a]])
      BY <2>1 DEF JoinBegin, Call
    <3>2. QED
      BY <3>1
  <2>2. CASE LeaveBegin(r, a, s)
    BY <2>2 DEF LeaveBegin, Call
  <2>3. CASE RemoveServerBegin(r, a, s)
    BY <2>3 DEF RemoveServerBegin, Call
  <2>4. ASSUME NEW t \in Users, NEW op \in {"kick", "ban"},
               KickOrBanBegin(r, op, a, t, s)
        PROVE  \E h : Begun(h)
    BY <2>4 DEF KickOrBanBegin, Call
  <2>5. ASSUME NEW t \in Users, UnbanBegin(r, a, t, s)
        PROVE  \E h : Begun(h)
    BY <2>5 DEF UnbanBegin, Call
  <2>6. ASSUME NEW t \in Users, TransferBegin(r, a, t, s)
        PROVE  \E h : Begun(h)
    <3>1. PICK am, tm \in MembersOf(s) :
            Begin(r, [Call("transfer", s, a, t) EXCEPT !.tid = tm.id, !.aid = am.id])
      BY <2>6 DEF TransferBegin
    <3>2. [Call("transfer", s, a, t) EXCEPT !.tid = tm.id, !.aid = am.id].step = "begun"
      BY DEF Call
    <3>3. QED
      BY <3>1, <3>2
  <2>7. ASSUME NEW t \in Users, NEW role \in Roles, AssignBegin(r, a, t, s, role)
        PROVE  \E h : Begun(h)
    <3>1. PICK tm \in MembersOf(s) :
            Begin(r, [Call("role", s, a, t) EXCEPT !.tid = tm.id, !.role = role])
      BY <2>7 DEF AssignBegin
    <3>2. [Call("role", s, a, t) EXCEPT !.tid = tm.id, !.role = role].step = "begun"
      BY DEF Call
    <3>3. QED
      BY <3>1, <3>2
  <2>8. QED
    BY <2>1, <2>2, <2>3, <2>4, <2>5, <2>6, <2>7
<1>4. \A q \in Requests : At(q, "join", "checked")' =>
        At(q, "join", "checked") /\ req'[q] = req[q]
  BY <1>1, <1>3 DEF Begin, At, TypeOK
<1>5. QED
  BY <1>2, <1>4, InvSameDocuments

LEMMA InvContinue ==
  ASSUME MembershipInv, TypeOK', NEW r \in Requests, Continue(r)
  PROVE  MembershipInv'
<1> DEFINE h == req[r]
<1>1. TypeOK /\ UniqueIn(members) /\ NoEarlyMember /\ CountsNeverAbove
  BY DEF MembershipInv
<1>2. \A op, step : At(r, op, step) =>
        h \in Handler /\ h.server \in Servers /\ h.actor \in Users
        /\ h.target \in Users /\ h.role \in Roles
  BY <1>1, HandlerType DEF Handler
<1>f. Finish(r) => \A q \in Requests : At(q, "join", "checked")' =>
                     At(q, "join", "checked") /\ req'[q] = req[q]
  BY <1>1, FinishKeepsJoins
<1>s. ASSUME NEW op, NEW old, NEW new, At(r, op, old), op # "join",
             UNCHANGED Documents,
             req' = [req EXCEPT ![r].step = new]
      PROVE  MembershipInv'
  <2>1. \A q \in Requests : At(q, "join", "checked")' =>
          At(q, "join", "checked") /\ req'[q].server = req[q].server
    BY <1>1, <1>2, <1>s DEF At, TypeOK, Handler
  <2>2. QED
    BY <1>s, <2>1, InvSameDocuments
<1>3. CASE JoinCheck(r)
  <2>1. \A q \in Requests : At(q, "join", "checked")' =>
          \/ At(q, "join", "checked") /\ req'[q].server = req[q].server
          \/ Live(req'[q].server)
    BY <1>1, <1>2, <1>3 DEF JoinCheck, At, TypeOK, Handler
  <2>2. UNCHANGED Documents
    BY <1>3 DEF JoinCheck
  <2>3. QED
    BY <2>1, <2>2, InvSameDocuments
<1>4. CASE JoinCommit(r)
  <2> SUFFICES ASSUME NEW u \in Users, NEW s \in Servers,
                      u = h.actor, s = h.server
               PROVE  MembershipInv'
    BY <1>2, <1>4 DEF JoinCommit
  <2>1. /\ InsertMember(u, s, Member) /\ IncServers(u, 1)
        /\ IncMembers(s, 1) /\ Finish(r)
        /\ \A m \in MembersOf(s) : m.user # u
        /\ server[s].state # "unborn"
    BY <1>1, <1>4 DEF JoinCommit, NoEarlyMember
  <2>2. /\ server'[s].state = server[s].state
        /\ \A x \in Servers \ {s} : server'[x] = server[x]
        /\ Live(s) => server'[s].member_count = server[s].member_count + 1
    BY <1>1, <2>1 DEF IncMembers, TypeOK, ServerDoc, Live
  <2>3. Live(s)' => server'[s].member_count <= Cardinality(MembersOf(s)) + 1
    <3>1. /\ server[s].member_count \in Int
          /\ Cardinality(MembersOf(s)) \in Nat
      BY <1>1, SubsetsFinite DEF TypeOK, ServerDoc
    <3>2. Live(s) => server[s].member_count <= Cardinality(MembersOf(s))
      BY <1>1 DEF CountsNeverAbove
    <3>3. Live(s)' => Live(s)
      BY <2>2 DEF Live
    <3>4. QED
      BY <2>2, <3>1, <3>2, <3>3
  <2>4. server'[s].state # "unborn"
    BY <2>1, <2>2
  <2>5. \A q \in Requests : At(q, "join", "checked")' =>
          At(q, "join", "checked") /\ req'[q] = req[q]
    BY <2>1, <1>f
  <2>6. QED
    BY <2>1, <2>2, <2>3, <2>4, <2>5, InvInsert
<1>5. CASE LeaveCommit(r)
  BY <1>5, InvRemove DEF LeaveCommit
<1>6. CASE KickCommit(r)
  BY <1>6, InvRemove DEF KickCommit
<1>7. CASE BanCommit(r)
  BY <1>7, InvRemove DEF BanCommit
<1>8. CASE UnbanPull(r)
  BY <1>8, <1>s DEF UnbanPull, Documents
<1>9. CASE UnbanReread(r)
  <2>1. UNCHANGED Documents
    BY <1>9 DEF UnbanReread
  <2>2. req' = [req EXCEPT ![r] = [@ EXCEPT !.step = "listed",
                                     !.seen = bannedBy[req[r].target] = {}]]
    BY <1>9 DEF UnbanReread
  <2>3. \A q \in Requests : At(q, "join", "checked")' =>
          At(q, "join", "checked") /\ req'[q].server = req[q].server
    <3>1. h \in Handler
      BY <1>2, <1>9 DEF UnbanReread
    <3>2. req'[r].step = "listed"
      BY <1>1, <2>2, <3>1 DEF TypeOK, Handler
    <3>3. \A q \in Requests \ {r} : req'[q] = req[q]
      BY <1>1, <2>2 DEF TypeOK
    <3>4. QED
      BY <3>2, <3>3 DEF At
  <2>4. QED
    BY <2>1, <2>3, InvSameDocuments
<1>10. CASE UnbanClear(r)
  BY <1>10, <1>s DEF UnbanClear, Documents
<1>11. CASE UnbanDelete(r)
  <2>1. UNCHANGED Documents /\ Finish(r)
    BY <1>11 DEF UnbanDelete
  <2>2. QED
    BY <2>1, <1>f, InvSameDocuments
<1>12. CASE AssignSave(r)
  <2>1. /\ members' = SetRole(members, h.target, h.server, h.tid, h.role)
        /\ UNCHANGED <<server, serverCount>> /\ Finish(r) /\ h.role \in Roles
    BY <1>2, <1>12 DEF AssignSave
  <2>2. members \in SUBSET Membership /\ IsFiniteSet(members)
    BY <1>1 DEF TypeOK
  <2>3. /\ UniqueIn(members')
        /\ \A m \in members' : \E n \in members : m.server = n.server
        /\ \A x : Cardinality(ServerPart(members', x)) = Cardinality(ServerPart(members, x))
        /\ \A x : Cardinality(UserPart(members', x)) = Cardinality(UserPart(members, x))
    BY <1>1, <2>1, <2>2, RolesKeepCards
  <2>4. QED
    BY <2>1, <2>3, <1>f, InvRoles
<1>13. CASE TransferCommit(r)
  <2> DEFINE mid == SetRole(members, h.actor, h.server, h.aid, Member)
  <2>1. /\ members' = SetRole(mid, h.target, h.server, h.tid, Owner)
        /\ UNCHANGED serverCount /\ Finish(r)
    BY <1>13 DEF TransferCommit
  <2>2. members \in SUBSET Membership /\ IsFiniteSet(members)
    BY <1>1 DEF TypeOK
  <2>r. Owner \in Roles /\ Member \in Roles
    BY DEF Roles
  <2>3. /\ mid \in SUBSET Membership /\ IsFiniteSet(mid) /\ UniqueIn(mid)
        /\ \A m \in mid : \E n \in members : m.server = n.server
        /\ \A x : Cardinality(ServerPart(mid, x)) = Cardinality(ServerPart(members, x))
        /\ \A x : Cardinality(UserPart(mid, x)) = Cardinality(UserPart(members, x))
    BY <1>1, <2>2, <2>r, RolesKeepCards
  <2> HIDE DEF mid
  <2>4. /\ UniqueIn(members')
        /\ \A m \in members' : \E n \in mid : m.server = n.server
        /\ \A x : Cardinality(ServerPart(members', x)) = Cardinality(ServerPart(mid, x))
        /\ \A x : Cardinality(UserPart(members', x)) = Cardinality(UserPart(mid, x))
    BY <2>1, <2>3, <2>r, RolesKeepCards
  <2>5. \A x \in Servers : /\ server'[x].state = server[x].state
                           /\ server'[x].member_count = server[x].member_count
    BY <1>1, <1>2, <1>13 DEF TransferCommit, TypeOK, ServerDoc, Live
  <2>6. \A m \in members' : \E n \in members : m.server = n.server
    BY <2>3, <2>4
  <2>7. /\ \A x : Cardinality(ServerPart(members', x)) = Cardinality(ServerPart(members, x))
        /\ \A x : Cardinality(UserPart(members', x)) = Cardinality(UserPart(members, x))
    BY <2>3, <2>4
  <2>8. QED
    BY <2>1, <2>4, <2>5, <2>6, <2>7, <1>f, InvRoles
<1>14. CASE RemoveServerCommit(r)
  BY <1>14, InvRemoveServer
<1>15. CASE GiveUp(r)
  <2>1. UNCHANGED Documents /\ Finish(r)
    BY <1>15 DEF GiveUp
  <2>2. QED
    BY <2>1, <1>f, InvSameDocuments
<1>16. QED
  BY <1>3, <1>4, <1>5, <1>6, <1>7, <1>8, <1>9, <1>10, <1>11, <1>12, <1>13,
     <1>14, <1>15 DEF Continue

LEMMA InvCreate ==
  ASSUME MembershipInv, TypeOK', NEW u \in Users, NEW s \in Servers,
         CreateServer(u, s)
  PROVE  MembershipInv'
<1>1. TypeOK /\ NoEarlyMember
  BY DEF MembershipInv
<1>2. MembersOf(s) = {}
  BY <1>1 DEF CreateServer, NoEarlyMember, MembersOf
<1>3. Cardinality(MembersOf(s)) = 0
  BY <1>2, FS_EmptySet
<1>4. /\ server'[s].state = "live" /\ server'[s].member_count = 1
      /\ \A x \in Servers \ {s} : server'[x] = server[x]
  BY <1>1 DEF CreateServer, TypeOK
<1>5. \A q \in Requests : At(q, "join", "checked")' =>
        At(q, "join", "checked") /\ req'[q] = req[q]
  BY DEF CreateServer, At
<1>6. InsertMember(u, s, Owner) /\ IncServers(u, 1)
  BY DEF CreateServer
<1>7. QED
  BY <1>2, <1>3, <1>4, <1>5, <1>6, InvInsert

LEMMA InvNext == MembershipInv /\ [Next]_vars => MembershipInv'
<1> SUFFICES ASSUME MembershipInv, [Next]_vars PROVE MembershipInv'
  OBVIOUS
<1>1. TypeOK'
  BY NextType DEF MembershipInv
<1>2. CASE \E u \in Users, s \in Servers : CreateServer(u, s)
  BY <1>1, <1>2, InvCreate
<1>3. CASE \E r \in Requests : Start(r) \/ Continue(r)
  BY <1>1, <1>3, InvStart, InvContinue
<1>4. CASE UNCHANGED vars
  <2>1. UNCHANGED Documents
        /\ \A q \in Requests : At(q, "join", "checked")' =>
             At(q, "join", "checked") /\ req'[q] = req[q]
    BY <1>4 DEF vars, Documents, At
  <2>2. QED
    BY <1>1, <2>1, InvSameDocuments
<1>5. QED
  BY <1>2, <1>3, <1>4 DEF Next

(* Whatever requests overlap, member_count and server_count never exceed the *)
(* number of membership documents: kickOrBan and leaveServer decrement even  *)
(* when their deleteOne matches nothing, joinServer and createServer never   *)
(* increment without inserting a document of their own.                      *)
THEOREM CountsOnlyDriftDown == Spec => []CountsNeverAbove
<1>1. Spec => []MembershipInv
  BY InvInit, InvNext, PTL DEF Spec
<1>2. MembershipInv => CountsNeverAbove
  BY DEF MembershipInv
<1>3. QED
  BY <1>1, <1>2, PTL
-----------------------------------------------------------------------------
(* One request at a time.  Between the reads of a handler and its writes     *)
(* only createServer runs, and it touches no server that was there before.   *)
OneAtATime == \A r, q \in Requests : r = q

(* The membership that the handler is about to remove or to change is still  *)
(* stored, and is not its server's owner's.                                  *)
TargetStands(h) ==
  \E m \in members : Names(m, h.target, h.server, h.tid) /\ m.role # Owner

OwnerStands(h) ==
  \E m \in members : Names(m, h.actor, h.server, h.aid) /\ m.role = Owner

JoinStands(h) ==
  /\ h.seen <=> h.server \in bannedBy[h.actor]
  /\ h.step # "begun" => ~h.seen /\ Live(h.server)

UnbanStands(h) ==
  /\ h.step # "begun" => h.server \notin bannedBy[h.target]
  /\ h.step \in {"listed", "cleared"} => (h.seen <=> bannedBy[h.target] = {})
  /\ h.step = "cleared" => (isBanned[h.target] <=> bannedBy[h.target] # {})

(* What a handler has read stays true until it ends.                         *)
ReadsStand(h) ==
  /\ h.op = "join" => JoinStands(h)
  /\ h.op \in {"leave", "kick", "ban", "role", "transfer"} => TargetStands(h)
  /\ h.op = "role" => h.role # Owner
  /\ h.op = "transfer" => OwnerStands(h)
  /\ h.op = "remove" => Live(h.server)
  /\ h.op = "unban" => UnbanStands(h)

(* Memberships are of live servers, and an OWNER is the one owner_id names.  *)
LiveAndOwned ==
  /\ \A m \in members :
       /\ Live(m.server)
       /\ m.role = Owner => server[m.server].owner_id = m.user
  /\ \A s \in Servers : Live(s) => \E m \in MembersOf(s) : m.role = Owner

NoEarlyBan == \A u \in Users : \A s \in bannedBy[u] : server[s].state # "unborn"

(* The inductive invariant of the runs with one request at a time.           *)
SerialInv ==
  /\ TypeOK
  /\ UniqueIn(members) /\ CountsExact /\ LiveAndOwned
  /\ BannedAreOut /\ BanListIsWitnessed /\ NoEarlyBan
  /\ \A r \in Requests : req[r] # Idle => ReadsStand(req[r])

LEMMA SerialInit == Init => SerialInv
<1> SUFFICES ASSUME Init PROVE SerialInv
  OBVIOUS
<1>1. TypeOK
  BY InitType
<1>2. members = {} /\ \A s \in Servers : ~Live(s)
  BY DEF Init, Live
<1>3. UniqueIn(members) /\ LiveAndOwned /\ BannedAreOut
  BY <1>2 DEF UniqueIn, LiveAndOwned, BannedAreOut
<1>4. CountsExact
  <2>1. \A u \in Users : MembershipsOf(u) = {} /\ serverCount[u] = 0
    BY DEF Init, MembershipsOf
  <2>2. QED
    BY <1>2, <2>1, FS_EmptySet DEF CountsExact
<1>5. BanListIsWitnessed /\ NoEarlyBan
  BY DEF Init, BanListIsWitnessed, NoEarlyBan
<1>6. QED
  BY <1>1, <1>3, <1>4, <1>5 DEF SerialInv, Init

(* A handler that ends leaves nothing to stand.                              *)
LEMMA FinishStands ==
  ASSUME OneAtATime, TypeOK, NEW r \in Requests, Finish(r), NEW q \in Requests
  PROVE  req'[q] = Idle
BY DEF OneAtATime, Finish, TypeOK

(* Exactly one document goes when the membership to remove stands.           *)
LEMMA RemoveOne ==
  ASSUME TypeOK, UniqueIn(members), NEW m \in members,
         members' = {n \in members : ~Names(n, m.user, m.server, m.id)}
  PROVE  /\ members' = members \ {m}
         /\ \A x : Cardinality(MembersOf(x)') =
              Cardinality(MembersOf(x)) - (IF x = m.server THEN 1 ELSE 0)
         /\ \A v : Cardinality(MembershipsOf(v)') =
              Cardinality(MembershipsOf(v)) - (IF v = m.user THEN 1 ELSE 0)
<1>1. members' = members \ {m}
  BY DEF UniqueIn, Names
<1>2. /\ \A x : MembersOf(x)' =
           IF x = m.server THEN MembersOf(x) \ {m} ELSE MembersOf(x)
      /\ \A v : MembershipsOf(v)' =
           IF v = m.user THEN MembershipsOf(v) \ {m} ELSE MembershipsOf(v)
  BY <1>1 DEF MembersOf, MembershipsOf
<1>3. m \in MembersOf(m.server) /\ m \in MembershipsOf(m.user)
  BY DEF MembersOf, MembershipsOf
<1>4. /\ Cardinality(MembersOf(m.server) \ {m}) = Cardinality(MembersOf(m.server)) - 1
      /\ Cardinality(MembershipsOf(m.user) \ {m}) = Cardinality(MembershipsOf(m.user)) - 1
  BY <1>3, SubsetsFinite, FS_RemoveElement
<1>5. ASSUME NEW x
      PROVE  Cardinality(MembersOf(x)') =
               Cardinality(MembersOf(x)) - (IF x = m.server THEN 1 ELSE 0)
  <2>1. Cardinality(MembersOf(x)) \in Nat
    BY SubsetsFinite
  <2>2. CASE x = m.server
    BY <1>2, <1>4, <2>2
  <2>3. CASE x # m.server
    <3>1. MembersOf(x)' = MembersOf(x)
      BY <1>2, <2>3
    <3>2. QED
      BY <2>1, <2>3, <3>1
  <2>4. QED
    BY <2>2, <2>3
<1>6. ASSUME NEW v
      PROVE  Cardinality(MembershipsOf(v)') =
               Cardinality(MembershipsOf(v)) - (IF v = m.user THEN 1 ELSE 0)
  <2>1. Cardinality(MembershipsOf(v)) \in Nat
    BY SubsetsFinite
  <2>2. CASE v = m.user
    BY <1>2, <1>4, <2>2
  <2>3. CASE v # m.user
    <3>1. MembershipsOf(v)' = MembershipsOf(v)
      BY <1>2, <2>3
    <3>2. QED
      BY <2>1, <2>3, <3>1
  <2>4. QED
    BY <2>2, <2>3
<1>7. QED
  BY <1>1, <1>5, <1>6

(* A role written by id replaces the one document it matches.                *)
LEMMA SetRoleOne ==
  ASSUME NEW ms \in SUBSET Membership, UniqueIn(ms), NEW m \in ms, NEW role
  PROVE  SetRole(ms, m.user, m.server, m.id, role) =
           (ms \ {m}) \cup {[m EXCEPT !.role = role]}
<1>1. \A n \in ms : Names(n, m.user, m.server, m.id) <=> n = m
  BY DEF UniqueIn, Names
<1>2. QED
  BY <1>1 DEF SetRole

(* The memberships a step leaves: unique, counted, of live and owned servers *)
(* and of nobody their server has banned.                                    *)
Settled ==
  UniqueIn(members) /\ CountsExact /\ LiveAndOwned /\ BannedAreOut /\ NoEarlyBan

LEMMA SettledSame ==
  ASSUME SerialInv, UNCHANGED Documents, \A u \in Users : bannedBy'[u] \subseteq bannedBy[u]
  PROVE  Settled'
<1>1. UniqueIn(members)' /\ LiveAndOwned'
  BY DEF SerialInv, Documents, LiveAndOwned, MembersOf, Live
<1>2. CountsExact'
  BY DEF SerialInv, Documents, CountsExact, MembersOf, MembershipsOf, Live
<1>3. BannedAreOut' /\ NoEarlyBan'
  BY DEF SerialInv, Documents, BannedAreOut, NoEarlyBan, TypeOK, Membership
<1>4. QED
  BY <1>1, <1>2, <1>3 DEF Settled

(* createServer and joinServer.                                              *)
LEMMA SettledInsert ==
  ASSUME SerialInv, TypeOK', NEW u \in Users, NEW s \in Servers, NEW role,
         InsertMember(u, s, role), IncServers(u, 1),
         \A m \in MembersOf(s) : m.user # u,
         server'[s].state = "live",
         server'[s].member_count = Cardinality(MembersOf(s)) + 1,
         \A x \in Servers \ {s} : server'[x] = server[x],
         \/ role = Owner /\ server'[s].owner_id = u /\ MembersOf(s) = {}
         \/ role # Owner /\ Live(s) /\ server'[s].owner_id = server[s].owner_id,
         s \notin bannedBy[u], UNCHANGED bannedBy
  PROVE  Settled'
<1>1. /\ TypeOK /\ UniqueIn(members) /\ CountsExact /\ LiveAndOwned
      /\ BannedAreOut /\ NoEarlyBan
  BY DEF SerialInv
<1>2. /\ \A x \in Servers : Cardinality(MembersOf(x)') =
            Cardinality(MembersOf(x)) + (IF x = s THEN 1 ELSE 0)
      /\ \A v \in Users : Cardinality(MembershipsOf(v)') =
            Cardinality(MembershipsOf(v)) + (IF v = u THEN 1 ELSE 0)
  BY <1>1, InsertCards
<1>3. PICK m : /\ m \notin members /\ members' = members \cup {m}
               /\ m.user = u /\ m.server = s /\ m.role = role
  BY <1>1, InsertCards
<1>4. UniqueIn(members')
  BY <1>1, <1>3 DEF UniqueIn, MembersOf
<1>5. CountsExact'
  <2>1. ASSUME NEW x \in Servers, Live(x)'
        PROVE  server'[x].member_count = Cardinality(MembersOf(x)')
    <3>1. CASE x = s
      BY <3>1, <1>2
    <3>2. CASE x # s
      <4>1. server'[x].member_count = Cardinality(MembersOf(x))
        BY <3>2, <2>1, <1>1 DEF CountsExact, Live
      <4>2. Cardinality(MembersOf(x)) \in Nat
        BY <1>1, SubsetsFinite
      <4>3. QED
        BY <3>2, <4>1, <4>2, <1>2
    <3>3. QED
      BY <3>1, <3>2
  <2>2. ASSUME NEW v \in Users
        PROVE  serverCount'[v] = Cardinality(MembershipsOf(v)')
    <3>1. serverCount[v] = Cardinality(MembershipsOf(v))
      BY <1>1 DEF CountsExact
    <3>2. serverCount'[v] = serverCount[v] + (IF v = u THEN 1 ELSE 0)
      <4>1. serverCount[v] \in Int
        BY <1>1 DEF TypeOK
      <4>2. QED
        BY <1>1, <4>1 DEF IncServers, TypeOK
    <3>3. QED
      BY <1>2, <3>1, <3>2
  <2>3. QED
    BY <2>1, <2>2 DEF CountsExact
<1>6. LiveAndOwned'
  <2>0. \A n \in members : n.server \in Servers
    BY <1>1 DEF TypeOK, Membership
  <2>1. ASSUME NEW n \in members'
        PROVE  Live(n.server)' /\ (n.role = Owner => server'[n.server].owner_id = n.user)
    <3>1. CASE n = m
      BY <3>1, <1>3 DEF Live
    <3>2. CASE n \in members /\ n.server = s
      <4>1. n \in MembersOf(s)
        BY <3>2 DEF MembersOf
      <4>2. server'[s].owner_id = server[s].owner_id
        BY <4>1
      <4>3. QED
        BY <3>2, <4>2, <1>1 DEF LiveAndOwned, Live
    <3>3. CASE n \in members /\ n.server # s
      BY <3>3, <2>0, <1>1 DEF LiveAndOwned, Live
    <3>4. QED
      BY <3>1, <3>2, <3>3, <1>3
  <2>2. ASSUME NEW x \in Servers, Live(x)'
        PROVE  \E n \in MembersOf(x)' : n.role = Owner
    <3>1. \A y : MembersOf(y) \subseteq MembersOf(y)'
      BY <1>3 DEF MembersOf
    <3>2. CASE x = s /\ role = Owner
      <4>1. m \in MembersOf(x)'
        BY <3>2, <1>3 DEF MembersOf
      <4>2. QED
        BY <4>1, <3>2, <1>3
    <3>3. CASE Live(x)
      BY <3>1, <3>3, <1>1 DEF LiveAndOwned
    <3>4. QED
      BY <3>2, <3>3, <2>2 DEF Live
  <2>3. QED
    BY <2>1, <2>2 DEF LiveAndOwned
<1>7. BannedAreOut'
  BY <1>1, <1>3 DEF BannedAreOut
<1>8. NoEarlyBan'
  BY <1>1 DEF NoEarlyBan, TypeOK
<1>9. QED
  BY <1>4, <1>5, <1>6, <1>7, <1>8 DEF Settled

(* leaveServer, kickOrBan: the documents, before the ban itself.             *)
LEMMA SettledRemove ==
  ASSUME SerialInv, TypeOK', NEW h \in Handler, RemoveMembership(h), TargetStands(h)
  PROVE  /\ UniqueIn(members') /\ CountsExact' /\ LiveAndOwned'
         /\ \A m \in members' :
              m \in members /\ ~(m.user = h.target /\ m.server = h.server)
         /\ \A x \in Servers : server'[x].state = server[x].state
         /\ Live(h.server)
<1>1. TypeOK /\ UniqueIn(members) /\ CountsExact /\ LiveAndOwned
  BY DEF SerialInv
<1>2. h.server \in Servers /\ h.target \in Users
  BY DEF Handler
<1>3. PICK m \in members : /\ m.user = h.target /\ m.server = h.server
                           /\ m.id = h.tid /\ m.role # Owner
  BY DEF TargetStands, Names
<1>4. /\ members' = {n \in members : ~Names(n, m.user, m.server, m.id)}
      /\ IncServers(h.target, -1) /\ IncMembers(h.server, -1)
  BY <1>3 DEF RemoveMembership
<1>5. /\ members' = members \ {m}
      /\ \A x : Cardinality(MembersOf(x)') =
           Cardinality(MembersOf(x)) - (IF x = h.server THEN 1 ELSE 0)
      /\ \A v : Cardinality(MembershipsOf(v)') =
           Cardinality(MembershipsOf(v)) - (IF v = h.target THEN 1 ELSE 0)
  BY <1>1, <1>3, <1>4, RemoveOne
<1>6. Live(h.server)
  BY <1>1, <1>3 DEF LiveAndOwned
<1>7. \A x \in Servers :
        /\ server'[x].state = server[x].state
        /\ server'[x].owner_id = server[x].owner_id
        /\ server'[x].member_count =
             server[x].member_count - (IF x = h.server THEN 1 ELSE 0)
  <2>1. server' = [server EXCEPT ![h.server].member_count = @ + -1]
    BY <1>4, <1>6 DEF IncMembers
  <2>2. \A x \in Servers : server[x].member_count \in Int
    BY <1>1 DEF TypeOK, ServerDoc
  <2>3. QED
    BY <1>1, <1>2, <2>1, <2>2 DEF TypeOK, ServerDoc
<1>8. \A v \in Users : serverCount'[v] =
        serverCount[v] - (IF v = h.target THEN 1 ELSE 0)
  BY <1>1, <1>2, <1>4 DEF IncServers, TypeOK
<1>9. CountsExact'
  <2>1. ASSUME NEW x \in Servers, Live(x)'
        PROVE  server'[x].member_count = Cardinality(MembersOf(x)')
    BY <1>1, <1>5, <1>7, <2>1 DEF CountsExact, Live
  <2>2. ASSUME NEW v \in Users
        PROVE  serverCount'[v] = Cardinality(MembershipsOf(v)')
    BY <1>1, <1>5, <1>8 DEF CountsExact
  <2>3. QED
    BY <2>1, <2>2 DEF CountsExact
<1>10. UniqueIn(members') /\ \A n \in members' :
         n \in members /\ ~(n.user = h.target /\ n.server = h.server)
  BY <1>1, <1>3, <1>5 DEF UniqueIn
<1>11. LiveAndOwned'
  <2>1. \A n \in members : n.server \in Servers
    BY <1>1 DEF TypeOK, Membership
  <2>2. ASSUME NEW x \in Servers, Live(x)'
        PROVE  \E n \in MembersOf(x)' : n.role = Owner
    <3>1. PICK n \in MembersOf(x) : n.role = Owner
      BY <1>1, <1>7, <2>2 DEF LiveAndOwned, Live
    <3>2. n \in MembersOf(x)'
      BY <1>3, <1>5, <3>1 DEF MembersOf
    <3>3. QED
      BY <3>1, <3>2
  <2>3. \A n \in members' :
          Live(n.server)' /\ (n.role = Owner => server'[n.server].owner_id = n.user)
    BY <1>1, <1>7, <1>10, <2>1 DEF LiveAndOwned, Live
  <2>4. QED
    BY <2>2, <2>3 DEF LiveAndOwned
<1>12. QED
  BY <1>6, <1>7, <1>9, <1>10, <1>11

(* assignRole and transferOwnership keep the counts: same users and servers. *)
LEMMA SettledRoles ==
  ASSUME SerialInv, TypeOK', UNCHANGED <<serverCount, bannedBy>>, UniqueIn(members'),
         \A m \in members' : \E n \in members : m.user = n.user /\ m.server = n.server,
         \A x : Cardinality(ServerPart(members', x)) = Cardinality(ServerPart(members, x)),
         \A x : Cardinality(UserPart(members', x)) = Cardinality(UserPart(members, x)),
         \A x \in Servers : /\ server'[x].state = server[x].state
                            /\ server'[x].member_count = server[x].member_count
  PROVE  /\ UniqueIn(members') /\ CountsExact' /\ BannedAreOut' /\ NoEarlyBan'
         /\ \A m \in members' : Live(m.server)'
<1>1. /\ TypeOK /\ CountsExact /\ LiveAndOwned /\ BannedAreOut /\ NoEarlyBan
  BY DEF SerialInv
<1>2. CountsExact'
  BY <1>1, PartsOfMembers DEF CountsExact, Live
<1>3. BannedAreOut'
  BY <1>1 DEF BannedAreOut
<1>4. NoEarlyBan'
  BY <1>1 DEF NoEarlyBan, TypeOK
<1>5. \A m \in members' : Live(m.server)'
  <2>1. \A n \in members : n.server \in Servers
    BY <1>1 DEF TypeOK, Membership
  <2>2. QED
    BY <1>1, <2>1 DEF LiveAndOwned, Live
<1>6. QED
  BY <1>2, <1>3, <1>4, <1>5

LEMMA SettledAssign ==
  ASSUME SerialInv, TypeOK', NEW h \in Handler, TargetStands(h), h.role # Owner,
         members' = SetRole(members, h.target, h.server, h.tid, h.role),
         UNCHANGED <<server, serverCount, bannedBy>>
  PROVE  Settled'
<1>1. /\ TypeOK /\ UniqueIn(members) /\ LiveAndOwned
      /\ members \in SUBSET Membership /\ IsFiniteSet(members) /\ h.role \in Roles
  BY DEF SerialInv, TypeOK, Handler
<1>2. PICK m \in members : /\ m.user = h.target /\ m.server = h.server
                           /\ m.id = h.tid /\ m.role # Owner
  BY DEF TargetStands, Names
<1> DEFINE new == [m EXCEPT !.role = h.role]
<1>3. members' = (members \ {m}) \cup {new}
  BY <1>1, <1>2, SetRoleOne
<1>4. new.user = m.user /\ new.server = m.server /\ new.role = h.role
  BY <1>1, <1>2 DEF Membership
<1> HIDE DEF new
<1>5. /\ UniqueIn(members')
      /\ \A x : Cardinality(ServerPart(members', x)) = Cardinality(ServerPart(members, x))
      /\ \A x : Cardinality(UserPart(members', x)) = Cardinality(UserPart(members, x))
  BY <1>1, RolesKeepCards
<1>6. \A n \in members' : \E k \in members : n.user = k.user /\ n.server = k.server
  BY <1>3, <1>4
<1>7. /\ CountsExact' /\ BannedAreOut' /\ NoEarlyBan'
      /\ \A n \in members' : Live(n.server)'
  BY <1>5, <1>6, SettledRoles
<1>8. \A n \in members' : n.role = Owner => server'[n.server].owner_id = n.user
  BY <1>1, <1>3, <1>4 DEF LiveAndOwned
<1>9. ASSUME NEW x \in Servers, Live(x)'
      PROVE  \E n \in MembersOf(x)' : n.role = Owner
  <2>1. PICK n \in MembersOf(x) : n.role = Owner
    BY <1>1, <1>9 DEF LiveAndOwned, Live
  <2>2. n \in MembersOf(x)'
    BY <1>2, <1>3, <2>1 DEF MembersOf
  <2>3. QED
    BY <2>1, <2>2
<1>10. QED
  BY <1>5, <1>7, <1>8, <1>9 DEF Settled, LiveAndOwned

LEMMA MemberIsNotOwner == Member # Owner
<1>1. Member = Owner => Roles = {Owner, Moderator}
  BY DEF Roles
<1>2. Cardinality({Owner, Moderator}) # 3
  <2> DEFINE S == {Moderator}
  <2>1. {Owner, Moderator} = S \cup {Owner}
    OBVIOUS
  <2>2. IsFiniteSet(S) /\ Cardinality(S) = 1
    BY FS_Singleton
  <2> HIDE DEF S
  <2>3. Cardinality(S \cup {Owner}) = IF Owner \in S THEN 1 ELSE 1 + 1
    BY <2>2, FS_AddElement
  <2>4. QED
    BY <2>1, <2>3
<1>3. QED
  BY <1>1, <1>2, ConstantsAssumption

(* The old owner's document and the new owner's are two of one server, and   *)
(* no third one of it has the role.                                          *)
LEMMA SettledTransfer ==
  ASSUME SerialInv, TypeOK', NEW h \in Handler, TargetStands(h), OwnerStands(h),
         members' = SetRole(SetRole(members, h.actor, h.server, h.aid, Member),
                            h.target, h.server, h.tid, Owner),
         server' = IF Live(h.server)
                   THEN [server EXCEPT ![h.server].owner_id = h.target]
                   ELSE server,
         UNCHANGED <<serverCount, bannedBy>>
  PROVE  Settled'
<1>1. /\ TypeOK /\ UniqueIn(members) /\ LiveAndOwned
      /\ members \in SUBSET Membership /\ IsFiniteSet(members)
      /\ Member \in Roles /\ Owner \in Roles
      /\ h.server \in Servers /\ h.target \in Users
  BY DEF SerialInv, TypeOK, Roles, Handler
<1>2. PICK tm \in members : /\ tm.user = h.target /\ tm.server = h.server
                            /\ tm.id = h.tid /\ tm.role # Owner
  BY DEF TargetStands, Names
<1>3. PICK am \in members : /\ am.user = h.actor /\ am.server = h.server
                            /\ am.id = h.aid /\ am.role = Owner
  BY DEF OwnerStands, Names
<1>d. Member # Owner
  BY MemberIsNotOwner
<1> DEFINE am2 == [am EXCEPT !.role = Member]
           tm2 == [tm EXCEPT !.role = Owner]
           mid == SetRole(members, h.actor, h.server, h.aid, Member)
<1>4. mid = (members \ {am}) \cup {am2}
  <2>1. SetRole(members, am.user, am.server, am.id, Member) =
          (members \ {am}) \cup {[am EXCEPT !.role = Member]}
    BY <1>1, SetRoleOne
  <2> QED
    BY <1>3, <2>1
<1>5. /\ am2.user = am.user /\ am2.server = am.server /\ am2.role = Member
      /\ tm2.user = tm.user /\ tm2.server = tm.server /\ tm2.role = Owner
  BY <1>1, <1>2, <1>3 DEF Membership
<1>6. /\ mid \in SUBSET Membership /\ IsFiniteSet(mid) /\ UniqueIn(mid)
      /\ \A x : Cardinality(ServerPart(mid, x)) = Cardinality(ServerPart(members, x))
      /\ \A x : Cardinality(UserPart(mid, x)) = Cardinality(UserPart(members, x))
  BY <1>1, RolesKeepCards
<1>7. members' = SetRole(mid, h.target, h.server, h.tid, Owner)
  OBVIOUS
<1>8. tm \in mid
  BY <1>2, <1>3, <1>4
<1> HIDE DEF mid, am2
<1>9. members' = (mid \ {tm}) \cup {tm2}
  BY <1>2, <1>6, <1>7, <1>8, SetRoleOne
<1>10. /\ UniqueIn(members')
       /\ \A x : Cardinality(ServerPart(members', x)) = Cardinality(ServerPart(mid, x))
       /\ \A x : Cardinality(UserPart(members', x)) = Cardinality(UserPart(mid, x))
  BY <1>1, <1>6, <1>7, RolesKeepCards
<1> HIDE DEF tm2
<1>11. \A n \in members' : n = tm2 \/ n = am2 \/ (n \in members /\ n # am /\ n # tm)
  BY <1>4, <1>9
<1>12. \A n \in members' : \E k \in members : n.user = k.user /\ n.server = k.server
  BY <1>2, <1>3, <1>5, <1>11
<1>13. Live(h.server)
  BY <1>1, <1>2 DEF LiveAndOwned
<1>14. \A x \in Servers : /\ server'[x].state = server[x].state
                          /\ server'[x].member_count = server[x].member_count
                          /\ server'[x].owner_id = IF x = h.server THEN h.target
                                                   ELSE server[x].owner_id
  BY <1>1, <1>13 DEF TypeOK, ServerDoc
<1>15. /\ \A x : Cardinality(ServerPart(members', x)) = Cardinality(ServerPart(members, x))
       /\ \A x : Cardinality(UserPart(members', x)) = Cardinality(UserPart(members, x))
  BY <1>6, <1>10
<1>16. /\ CountsExact' /\ BannedAreOut' /\ NoEarlyBan'
       /\ \A n \in members' : Live(n.server)'
  BY <1>10, <1>12, <1>14, <1>15, SettledRoles
<1>17. ASSUME NEW n \in members', n.role = Owner
       PROVE  server'[n.server].owner_id = n.user
  <2>1. CASE n = tm2
    BY <2>1, <1>1, <1>2, <1>5, <1>14
  <2>2. CASE n = am2
    BY <2>2, <1>5, <1>17, <1>d
  <2>3. CASE n \in members /\ n # am /\ n # tm
    <3>1. n.server \in Servers /\ server[n.server].owner_id = n.user
      BY <2>3, <1>1, <1>17 DEF LiveAndOwned, Membership
    <3>2. n.server # h.server
      <4>1. server[h.server].owner_id = am.user
        BY <1>1, <1>3 DEF LiveAndOwned
      <4>2. QED
        BY <2>3, <3>1, <4>1, <1>1, <1>3 DEF UniqueIn
    <3>3. QED
      BY <3>1, <3>2, <1>14
  <2>4. QED
    BY <2>1, <2>2, <2>3, <1>11
<1>18. ASSUME NEW x \in Servers, Live(x)'
       PROVE  \E n \in MembersOf(x)' : n.role = Owner
  <2>1. CASE x = h.server
    <3>1. tm2 \in MembersOf(x)'
      BY <2>1, <1>2, <1>5, <1>9 DEF MembersOf
    <3>2. QED
      BY <3>1, <1>5
  <2>2. CASE x # h.server
    <3>1. PICK n \in MembersOf(x) : n.role = Owner
      BY <1>1, <1>14, <1>18 DEF LiveAndOwned, Live
    <3>2. n \in MembersOf(x)'
      BY <2>2, <3>1, <1>2, <1>3, <1>4, <1>9 DEF MembersOf
    <3>3. QED
      BY <3>1, <3>2
  <2>3. QED
    BY <2>1, <2>2
<1>19. QED
  BY <1>10, <1>16, <1>17, <1>18 DEF Settled, LiveAndOwned

LEMMA SettledRemoveServer ==
  ASSUME SerialInv, TypeOK', NEW r \in Requests, RemoveServerCommit(r)
  PROVE  Settled'
<1> DEFINE s == req[r].server
           gone == MembersOf(s)
<1>1. /\ TypeOK /\ UniqueIn(members) /\ CountsExact /\ LiveAndOwned
      /\ BannedAreOut /\ NoEarlyBan
  BY DEF SerialInv
<1>2. s \in Servers
  BY <1>1, HandlerType DEF RemoveServerCommit, Handler
<1>3. members' = members \ gone /\ UNCHANGED bannedBy
  BY DEF RemoveServerCommit, Bans
<1>4. \A x \in Servers : /\ server'[x].state = IF x = s THEN "deleted" ELSE server[x].state
                         /\ x # s => server'[x] = server[x]
  BY <1>1, <1>2 DEF RemoveServerCommit, TypeOK, ServerDoc
<1>5. \A x \in Servers : Live(x)' => x # s /\ Live(x) /\ MembersOf(x)' = MembersOf(x)
  BY <1>3, <1>4 DEF MembersOf, Live
<1>6. ASSUME NEW v \in Users
      PROVE  serverCount'[v] = Cardinality(MembershipsOf(v)')
  <2>1. /\ serverCount[v] = Cardinality(MembershipsOf(v))
        /\ IsFiniteSet(MembershipsOf(v)) /\ Cardinality(MembershipsOf(v)) \in Nat
    BY <1>1, SubsetsFinite DEF CountsExact
  <2>2. serverCount'[v] = IF \E m \in gone : m.user = v THEN serverCount[v] - 1
                                                       ELSE serverCount[v]
    BY DEF RemoveServerCommit
  <2>3. CASE \E m \in gone : m.user = v
    <3>1. PICK m \in gone : m.user = v
      BY <2>3
    <3>2. MembershipsOf(v)' = MembershipsOf(v) \ {m} /\ m \in MembershipsOf(v)
      BY <1>1, <1>3, <3>1 DEF UniqueIn, MembersOf, MembershipsOf
    <3>3. Cardinality(MembershipsOf(v) \ {m}) = Cardinality(MembershipsOf(v)) - 1
      BY <2>1, <3>2, FS_RemoveElement
    <3>4. QED
      BY <2>1, <2>2, <2>3, <3>2, <3>3
  <2>4. CASE ~ \E m \in gone : m.user = v
    <3>1. MembershipsOf(v)' = MembershipsOf(v)
      BY <1>3, <2>4 DEF MembersOf, MembershipsOf
    <3>2. QED
      BY <2>1, <2>2, <2>4, <3>1
  <2>5. QED
    BY <2>3, <2>4
<1>7. CountsExact'
  <2>1. \A x \in Servers : Live(x)' => server'[x].member_count = Cardinality(MembersOf(x)')
    BY <1>1, <1>4, <1>5 DEF CountsExact
  <2>2. QED
    BY <2>1, <1>6 DEF CountsExact
<1>8. UniqueIn(members') /\ BannedAreOut'
  BY <1>1, <1>3 DEF UniqueIn, BannedAreOut
<1>9. LiveAndOwned'
  <2>1. \A m \in members' : m \in members /\ m.server \in Servers /\ m.server # s
    BY <1>1, <1>3 DEF TypeOK, Membership, MembersOf
  <2>2. \A m \in members' :
          Live(m.server)' /\ (m.role = Owner => server'[m.server].owner_id = m.user)
    BY <1>1, <1>4, <2>1 DEF LiveAndOwned, Live
  <2>3. \A x \in Servers : Live(x)' => \E m \in MembersOf(x)' : m.role = Owner
    BY <1>1, <1>5 DEF LiveAndOwned
  <2>4. QED
    BY <2>2, <2>3 DEF LiveAndOwned
<1>10. NoEarlyBan'
  BY <1>1, <1>3, <1>4 DEF NoEarlyBan, TypeOK
<1>11. QED
  BY <1>7, <1>8, <1>9, <1>10 DEF Settled

LEMMA StandsSame ==
  ASSUME UNCHANGED <<server, members, bannedBy, isBanned>>, NEW h, ReadsStand(h)
  PROVE  ReadsStand(h)'
<1>1. /\ TargetStands(h)' <=> TargetStands(h)
      /\ OwnerStands(h)' <=> OwnerStands(h)
  BY DEF TargetStands, OwnerStands
<1>2. /\ JoinStands(h)' <=> JoinStands(h)
      /\ UnbanStands(h)' <=> UnbanStands(h)
  BY DEF JoinStands, UnbanStands, Live
<1>3. QED
  BY <1>1, <1>2 DEF ReadsStand, Live

(* What a handler reads when it begins stands.                               *)
LEMMA BeginningsStand ==
  ASSUME SerialInv, NEW r \in Requests, Start(r)
  PROVE  \E h : Begin(r, h) /\ ReadsStand(h)
<1> DEFINE Stands(h) == Begin(r, h) /\ ReadsStand(h)
<1>1. TypeOK /\ UniqueIn(members) /\ LiveAndOwned
  BY DEF SerialInv
<1>2. PICK a \in Users, s \in Servers :
        \/ JoinBegin(r, a, s)
        \/ LeaveBegin(r, a, s)
        \/ RemoveServerBegin(r, a, s)
        \/ \E t \in Users :
             \/ \E op \in {"kick", "ban"} : KickOrBanBegin(r, op, a, t, s)
             \/ UnbanBegin(r, a, t, s)
             \/ TransferBegin(r, a, t, s)
             \/ \E role \in Roles : AssignBegin(r, a, t, s, role)
  BY DEF Start
<1>o. ASSUME NEW am \in MembersOf(s), NEW tm \in MembersOf(s), am.role = Owner,
             am.user # tm.user
      PROVE  tm.role # Owner
  BY <1>1, <1>o DEF LiveAndOwned, MembersOf
<1>3. CASE JoinBegin(r, a, s)
  <2> DEFINE h == [Call("join", s, a, a) EXCEPT !.seen = s \in bannedBy[a]]
  <2>1. Begin(r, h)
    BY <1>3 DEF JoinBegin
  <2>2. /\ h.op = "join" /\ h.step = "begun" /\ h.server = s /\ h.actor = a
        /\ h.seen <=> s \in bannedBy[a]
    BY DEF Call
  <2> HIDE DEF h
  <2>3. QED
    BY <2>1, <2>2 DEF ReadsStand, JoinStands
<1>4. CASE LeaveBegin(r, a, s)
  <2>1. PICK m \in MembersOf(s) : /\ m.user = a /\ m.role # Owner
                                  /\ Begin(r, [Call("leave", s, a, a) EXCEPT !.tid = m.id])
    BY <1>4 DEF LeaveBegin
  <2> DEFINE h == [Call("leave", s, a, a) EXCEPT !.tid = m.id]
  <2>2. h.op = "leave" /\ h.server = s /\ h.target = a /\ h.tid = m.id
    BY DEF Call
  <2>3. Begin(r, h)
    BY <2>1
  <2> HIDE DEF h
  <2>4. TargetStands(h)
    BY <2>1, <2>2 DEF TargetStands, Names, MembersOf
  <2>5. QED
    BY <2>2, <2>3, <2>4 DEF ReadsStand
<1>5. CASE RemoveServerBegin(r, a, s)
  <2> DEFINE h == Call("remove", s, a, a)
  <2>1. Begin(r, h) /\ Live(s)
    BY <1>5 DEF RemoveServerBegin
  <2>2. h.op = "remove" /\ h.server = s
    BY DEF Call
  <2> HIDE DEF h
  <2>3. QED
    BY <2>1, <2>2 DEF ReadsStand
<1>6. ASSUME NEW t \in Users, NEW op \in {"kick", "ban"},
             KickOrBanBegin(r, op, a, t, s)
      PROVE  \E h : Stands(h)
  <2>1. PICK am, tm \in MembersOf(s) :
          /\ tm.user = t /\ MayRemove(am, tm)
          /\ Begin(r, [Call(op, s, a, t) EXCEPT !.tid = tm.id])
    BY <1>6 DEF KickOrBanBegin
  <2> DEFINE h == [Call(op, s, a, t) EXCEPT !.tid = tm.id]
  <2>2. h.op = op /\ h.server = s /\ h.target = t /\ h.tid = tm.id
    BY DEF Call
  <2>3. Begin(r, h)
    BY <2>1
  <2> HIDE DEF h
  <2>4. TargetStands(h)
    BY <2>1, <2>2 DEF TargetStands, Names, MembersOf, MayRemove
  <2>5. QED
    BY <2>2, <2>3, <2>4 DEF ReadsStand
<1>7. ASSUME NEW t \in Users, UnbanBegin(r, a, t, s)
      PROVE  \E h : Stands(h)
  <2> DEFINE h == Call("unban", s, a, t)
  <2>1. Begin(r, h)
    BY <1>7 DEF UnbanBegin
  <2>2. h.op = "unban" /\ h.step = "begun"
    BY DEF Call
  <2> HIDE DEF h
  <2>3. QED
    BY <2>1, <2>2 DEF ReadsStand, UnbanStands
<1>8. ASSUME NEW t \in Users, TransferBegin(r, a, t, s)
      PROVE  \E h : Stands(h)
  <2>1. PICK am, tm \in MembersOf(s) :
          /\ am.user = a /\ tm.user = t /\ a # t /\ am.role = Owner
          /\ Begin(r, [Call("transfer", s, a, t) EXCEPT !.tid = tm.id, !.aid = am.id])
    BY <1>8 DEF TransferBegin
  <2> DEFINE h == [Call("transfer", s, a, t) EXCEPT !.tid = tm.id, !.aid = am.id]
  <2>2. /\ h.op = "transfer" /\ h.server = s /\ h.target = t /\ h.actor = a
        /\ h.tid = tm.id /\ h.aid = am.id
    BY DEF Call
  <2>3. Begin(r, h)
    BY <2>1
  <2> HIDE DEF h
  <2>4. TargetStands(h) /\ OwnerStands(h)
    BY <2>1, <2>2, <1>o DEF TargetStands, OwnerStands, Names, MembersOf
  <2>5. QED
    BY <2>2, <2>3, <2>4 DEF ReadsStand
<1>9. ASSUME NEW t \in Users, NEW role \in Roles, AssignBegin(r, a, t, s, role)
      PROVE  \E h : Stands(h)
  <2>1. PICK am, tm \in MembersOf(s) :
          /\ am.user = a /\ tm.user = t /\ a # t /\ am.role = Owner /\ role # Owner
          /\ Begin(r, [Call("role", s, a, t) EXCEPT !.tid = tm.id, !.role = role])
    BY <1>9 DEF AssignBegin
  <2> DEFINE h == [Call("role", s, a, t) EXCEPT !.tid = tm.id, !.role = role]
  <2>2. /\ h.op = "role" /\ h.server = s /\ h.target = t /\ h.tid = tm.id
        /\ h.role = role
    BY DEF Call
  <2>3. Begin(r, h)
    BY <2>1
  <2> HIDE DEF h
  <2>4. TargetStands(h)
    BY <2>1, <2>2, <1>o DEF TargetStands, Names, MembersOf
  <2>5. QED
    BY <2>1, <2>2, <2>3, <2>4 DEF ReadsStand
<1>10. QED
  BY <1>2, <1>3, <1>4, <1>5, <1>6, <1>7, <1>8, <1>9

LEMMA SerialStart ==
  ASSUME OneAtATime, SerialInv, TypeOK', NEW r \in Requests, Start(r)
  PROVE  SerialInv'
<1>1. UNCHANGED Documents /\ UNCHANGED Bans
  BY StartOnlyReads
<1>2. PICK h : Begin(r, h) /\ ReadsStand(h)
  BY BeginningsStand
<1>3. ReadsStand(h)'
  BY <1>1, <1>2, StandsSame DEF Documents, Bans
<1>4. \A q \in Requests : req'[q] = h
  BY <1>2 DEF Begin, OneAtATime, SerialInv, TypeOK
<1>5. Settled'
  BY <1>1, SettledSame DEF Bans
<1>6. BanListIsWitnessed'
  BY <1>1 DEF SerialInv, BanListIsWitnessed, Bans
<1>7. QED
  BY <1>3, <1>4, <1>5, <1>6 DEF SerialInv, Settled

LEMMA SerialContinue ==
  ASSUME OneAtATime, SerialInv, TypeOK', NEW r \in Requests, Continue(r)
  PROVE  SerialInv'
<1> DEFINE h == req[r]
<1>1. /\ TypeOK /\ UniqueIn(members) /\ CountsExact /\ LiveAndOwned
      /\ BannedAreOut /\ BanListIsWitnessed /\ NoEarlyBan
  BY DEF SerialInv
<1>2. \A op, step : At(r, op, step) =>
        /\ ReadsStand(h) /\ h.op = op /\ h.step = step
        /\ h \in Handler /\ h.server \in Servers /\ h.actor \in Users
        /\ h.target \in Users /\ h.role \in Roles
  BY <1>1, HandlerType DEF Handler, SerialInv, At
<1>f. ASSUME Finish(r), Settled', BanListIsWitnessed'
      PROVE  SerialInv'
  <2>1. \A q \in Requests : req'[q] = Idle
    BY <1>1, <1>f, FinishStands
  <2>2. QED
    BY <1>f, <2>1 DEF SerialInv, Settled
<1>b. UNCHANGED Bans => BanListIsWitnessed'
  BY <1>1 DEF BanListIsWitnessed, Bans
<1>s. ASSUME NEW new, req' = [req EXCEPT ![r] = new], ReadsStand(new)',
             Settled', BanListIsWitnessed'
      PROVE  SerialInv'
  <2>1. \A q \in Requests : req'[q] = new
    BY <1>1, <1>s DEF OneAtATime, TypeOK
  <2>2. QED
    BY <1>s, <2>1 DEF SerialInv, Settled
<1>m. ASSUME UNCHANGED Bans, UniqueIn(members'), CountsExact', LiveAndOwned',
             \A m \in members' : m \in members,
             \A x \in Servers : server'[x].state = server[x].state
      PROVE  Settled'
  <2>1. BannedAreOut' /\ NoEarlyBan'
    BY <1>1, <1>m DEF BannedAreOut, NoEarlyBan, Bans, TypeOK
  <2>2. QED
    BY <1>m, <2>1 DEF Settled
<1>3. CASE JoinCheck(r)
  <2>n. PICK new : new = [h EXCEPT !.step = "checked"]
    OBVIOUS
  <2>1. /\ JoinStands(h) /\ h.op = "join" /\ Live(h.server) /\ ~h.seen
        /\ UNCHANGED <<Documents, Bans>> /\ h \in Handler
    BY <1>2, <1>3 DEF JoinCheck, ReadsStand
  <2>2. req' = [req EXCEPT ![r] = new]
    BY <2>n, <1>1, <1>3, <2>1 DEF JoinCheck, TypeOK, Handler
  <2>3. /\ new.op = "join" /\ new.server = h.server /\ new.actor = h.actor
        /\ new.seen <=> h.seen
    BY <2>n, <2>1 DEF Handler
  <2>4. ReadsStand(new)
    BY <2>1, <2>3 DEF ReadsStand, JoinStands
  <2>5. ReadsStand(new)'
    BY <2>1, <2>4, StandsSame DEF Documents, Bans
  <2>6. Settled'
    BY <2>1, SettledSame DEF Bans
  <2>7. QED
    BY <2>1, <2>2, <2>5, <2>6, <1>b, <1>s
<1>4. CASE JoinCommit(r)
  <2> DEFINE u == h.actor
             s == h.server
  <2>1. /\ u \in Users /\ s \in Servers /\ JoinStands(h) /\ h.step = "checked"
    BY <1>2, <1>4 DEF JoinCommit, ReadsStand
  <2>2. Live(s) /\ s \notin bannedBy[u]
    BY <2>1 DEF JoinStands
  <2>3. /\ InsertMember(u, s, Member) /\ IncServers(u, 1) /\ IncMembers(s, 1)
        /\ Finish(r) /\ UNCHANGED Bans
        /\ \A m \in MembersOf(s) : m.user # u
    BY <1>4 DEF JoinCommit, MembersOf
  <2>4. /\ server'[s].state = "live" /\ server'[s].owner_id = server[s].owner_id
        /\ server'[s].member_count = server[s].member_count + 1
        /\ \A x \in Servers \ {s} : server'[x] = server[x]
    BY <1>1, <2>1, <2>2, <2>3 DEF IncMembers, TypeOK, ServerDoc, Live
  <2>5. server[s].member_count = Cardinality(MembersOf(s))
    BY <1>1, <2>1, <2>2 DEF CountsExact
  <2>6. Member # Owner
    BY MemberIsNotOwner
  <2>7. UNCHANGED bannedBy
    BY <2>3 DEF Bans
  <2> HIDE DEF u, s
  <2>8. Settled'
    BY <2>1, <2>2, <2>3, <2>4, <2>5, <2>6, <2>7, SettledInsert
  <2>9. QED
    BY <2>3, <2>8, <1>b, <1>f
<1>5. CASE LeaveCommit(r)
  <2>1. TargetStands(h) /\ h \in Handler /\ RemoveMembership(h) /\ Finish(r) /\ UNCHANGED Bans
    BY <1>2, <1>5 DEF LeaveCommit, ReadsStand
  <2>2. Settled'
    BY <2>1, <1>m, SettledRemove
  <2>3. QED
    BY <2>1, <2>2, <1>b, <1>f
<1>6. CASE KickCommit(r)
  <2>1. TargetStands(h) /\ h \in Handler /\ RemoveMembership(h) /\ Finish(r) /\ UNCHANGED Bans
    BY <1>2, <1>6 DEF KickCommit, ReadsStand
  <2>2. Settled'
    BY <2>1, <1>m, SettledRemove
  <2>3. QED
    BY <2>1, <2>2, <1>b, <1>f
<1>7. CASE BanCommit(r)
  <2>1. /\ TargetStands(h) /\ h \in Handler /\ h.server \in Servers /\ h.target \in Users
        /\ RemoveMembership(h) /\ Finish(r)
        /\ bannedBy' = [bannedBy EXCEPT ![h.target] = @ \cup {h.server}]
        /\ isBanned' = [isBanned EXCEPT ![h.target] = TRUE]
        /\ banDocs' = banDocs \cup {<<h.server, h.target>>}
    BY <1>2, <1>7 DEF BanCommit, ReadsStand
  <2>2. /\ UniqueIn(members') /\ CountsExact' /\ LiveAndOwned'
        /\ \A m \in members' :
             m \in members /\ ~(m.user = h.target /\ m.server = h.server)
        /\ \A x \in Servers : server'[x].state = server[x].state
        /\ Live(h.server)
    BY <2>1, SettledRemove
  <2>3. \A v \in Users : bannedBy'[v] = IF v = h.target THEN bannedBy[v] \cup {h.server}
                                                        ELSE bannedBy[v]
    BY <1>1, <2>1 DEF TypeOK
  <2>4. BannedAreOut'
    <3>1. \A m \in members' : m.user \in Users
      BY <1>1, <2>2 DEF TypeOK, Membership
    <3>2. QED
      BY <1>1, <2>2, <2>3, <3>1 DEF BannedAreOut
  <2>5. NoEarlyBan'
    BY <1>1, <2>1, <2>2, <2>3 DEF NoEarlyBan, Live, TypeOK
  <2>6. BanListIsWitnessed'
    <3> SUFFICES ASSUME NEW v \in Users
                 PROVE  /\ \A x \in bannedBy'[v] : x \in Servers /\ <<x, v>> \in banDocs'
                        /\ bannedBy'[v] # {} => isBanned'[v]
      BY DEF BanListIsWitnessed
    <3>1. \A x \in bannedBy'[v] : x \in Servers /\ <<x, v>> \in banDocs'
      BY <1>1, <2>1, <2>3 DEF BanListIsWitnessed
    <3>2. bannedBy'[v] # {} => isBanned'[v]
      BY <1>1, <2>1, <2>3 DEF BanListIsWitnessed, TypeOK
    <3>3. QED
      BY <3>1, <3>2
  <2>7. QED
    BY <2>1, <2>2, <2>4, <2>5, <2>6, <1>f DEF Settled
<1>8. CASE UnbanPull(r)
  <2>n. PICK new : new = [h EXCEPT !.step = "pulled"]
    OBVIOUS
  <2>1. /\ h \in Handler /\ h.op = "unban" /\ h.target \in Users /\ UNCHANGED Documents
        /\ bannedBy' = [bannedBy EXCEPT ![h.target] = @ \ {h.server}]
        /\ UNCHANGED <<isBanned, banDocs>>
    BY <1>2, <1>8 DEF UnbanPull
  <2>2. req' = [req EXCEPT ![r] = new]
    BY <2>n, <1>1, <1>8 DEF UnbanPull, TypeOK
  <2>3. /\ new.op = "unban" /\ new.step = "pulled"
        /\ new.server = h.server /\ new.target = h.target
    BY <2>n, <2>1 DEF Handler
  <2>4. \A v \in Users : bannedBy'[v] = IF v = h.target THEN bannedBy[v] \ {h.server}
                                                        ELSE bannedBy[v]
    BY <1>1, <2>1 DEF TypeOK
  <2>5. ReadsStand(new)'
    BY <2>1, <2>3, <2>4 DEF ReadsStand, UnbanStands
  <2>6. Settled'
    BY <2>1, <2>4, SettledSame
  <2>7. BanListIsWitnessed'
    BY <1>1, <2>1, <2>4 DEF BanListIsWitnessed
  <2>8. QED
    BY <2>2, <2>5, <2>6, <2>7, <1>s
<1>9. CASE UnbanReread(r)
  <2>n. PICK new : new = [h EXCEPT !.step = "listed", !.seen = bannedBy[h.target] = {}]
    OBVIOUS
  <2>1. h \in Handler /\ h.op = "unban" /\ UnbanStands(h) /\ h.step = "pulled"
        /\ UNCHANGED <<Documents, Bans>>
    BY <1>2, <1>9 DEF UnbanReread, ReadsStand
  <2>2. req' = [req EXCEPT ![r] = new]
    BY <2>n, <1>1, <1>9 DEF UnbanReread, TypeOK
  <2>3. /\ new.op = "unban" /\ new.step = "listed"
        /\ new.server = h.server /\ new.target = h.target
        /\ new.seen <=> bannedBy[h.target] = {}
    BY <2>n, <2>1 DEF Handler
  <2>4. ReadsStand(new)
    BY <2>1, <2>3 DEF ReadsStand, UnbanStands
  <2>5. ReadsStand(new)'
    BY <2>1, <2>4, StandsSame DEF Documents, Bans
  <2>6. Settled'
    BY <2>1, SettledSame DEF Bans
  <2>7. QED
    BY <2>1, <2>2, <2>5, <2>6, <1>b, <1>s
<1>10. CASE UnbanClear(r)
  <2> DEFINE u == h.target
  <2>n. PICK new : new = [h EXCEPT !.step = "cleared"]
    OBVIOUS
  <2>1. /\ h \in Handler /\ h.op = "unban" /\ UnbanStands(h) /\ h.step = "listed"
        /\ u \in Users /\ UNCHANGED Documents /\ UNCHANGED <<bannedBy, banDocs>>
        /\ isBanned' = IF h.seen THEN [isBanned EXCEPT ![u] = FALSE] ELSE isBanned
    BY <1>2, <1>10 DEF UnbanClear, ReadsStand
  <2>2. req' = [req EXCEPT ![r] = new]
    BY <2>n, <1>1, <1>10 DEF UnbanClear, TypeOK
  <2>3. /\ new.op = "unban" /\ new.step = "cleared"
        /\ new.server = h.server /\ new.target = u
        /\ new.seen <=> h.seen
    BY <2>n, <2>1 DEF Handler
  <2>4. h.server \notin bannedBy[u] /\ (h.seen <=> bannedBy[u] = {})
    BY <2>1 DEF UnbanStands
  <2> HIDE DEF u
  <2>5. \A v \in Users : isBanned'[v] <=> (isBanned[v] /\ ~(h.seen /\ v = u))
    BY <1>1, <2>1 DEF TypeOK
  <2>6. BanListIsWitnessed'
    BY <1>1, <2>1, <2>4, <2>5 DEF BanListIsWitnessed
  <2>7. isBanned'[u] <=> bannedBy[u] # {}
    BY <1>1, <2>1, <2>4, <2>5 DEF BanListIsWitnessed
  <2>8. ReadsStand(new)'
    BY <2>1, <2>3, <2>4, <2>7 DEF ReadsStand, UnbanStands
  <2>9. Settled'
    BY <2>1, SettledSame
  <2>10. QED
    BY <2>2, <2>6, <2>8, <2>9, <1>s
<1>11. CASE UnbanDelete(r)
  <2>1. /\ UnbanStands(h) /\ h.step = "cleared" /\ Finish(r)
        /\ UNCHANGED Documents /\ UNCHANGED <<bannedBy, isBanned>>
        /\ banDocs' = banDocs \ {<<h.server, h.target>>}
    BY <1>2, <1>11 DEF UnbanDelete, ReadsStand
  <2>2. h.server \notin bannedBy[h.target]
    BY <2>1 DEF UnbanStands
  <2>3. BanListIsWitnessed'
    BY <1>1, <2>1, <2>2 DEF BanListIsWitnessed
  <2>4. Settled'
    BY <2>1, SettledSame
  <2>5. QED
    BY <2>1, <2>3, <2>4, <1>f
<1>12. CASE AssignSave(r)
  <2>1. /\ TargetStands(h) /\ h \in Handler /\ h.role # Owner /\ Finish(r)
        /\ members' = SetRole(members, h.target, h.server, h.tid, h.role)
        /\ UNCHANGED <<server, serverCount>> /\ UNCHANGED Bans
    BY <1>2, <1>12 DEF AssignSave, ReadsStand
  <2>2. Settled'
    BY <2>1, SettledAssign DEF Bans
  <2>3. QED
    BY <2>1, <2>2, <1>b, <1>f
<1>13. CASE TransferCommit(r)
  <2>1. /\ TargetStands(h) /\ OwnerStands(h) /\ h \in Handler /\ Finish(r)
        /\ members' = SetRole(SetRole(members, h.actor, h.server, h.aid, Member),
                              h.target, h.server, h.tid, Owner)
        /\ server' = IF Live(h.server)
                     THEN [server EXCEPT ![h.server].owner_id = h.target]
                     ELSE server
        /\ UNCHANGED serverCount /\ UNCHANGED Bans
    BY <1>2, <1>13 DEF TransferCommit, ReadsStand
  <2>2. Settled'
    BY <2>1, SettledTransfer DEF Bans
  <2>3. QED
    BY <2>1, <2>2, <1>b, <1>f
<1>14. CASE RemoveServerCommit(r)
  <2>1. Settled' /\ Finish(r) /\ UNCHANGED Bans
    BY <1>14, SettledRemoveServer DEF RemoveServerCommit
  <2>2. QED
    BY <2>1, <1>b, <1>f
<1>15. CASE GiveUp(r)
  <2>1. UNCHANGED Documents /\ UNCHANGED Bans /\ Finish(r)
    BY <1>15 DEF GiveUp
  <2>2. Settled'
    BY <2>1, SettledSame DEF Bans
  <2>3. QED
    BY <2>1, <2>2, <1>b, <1>f
<1>16. QED
  BY <1>3, <1>4, <1>5, <1>6, <1>7, <1>8, <1>9, <1>10, <1>11, <1>12, <1>13,
     <1>14, <1>15 DEF Continue

(* createServer beside a running request: the new server is nobody's yet.    *)
LEMMA SerialCreate ==
  ASSUME SerialInv, TypeOK', NEW u \in Users, NEW s \in Servers, CreateServer(u, s)
  PROVE  SerialInv'
<1>1. /\ TypeOK /\ UniqueIn(members) /\ LiveAndOwned /\ NoEarlyBan
      /\ BanListIsWitnessed /\ \A r \in Requests : req[r] # Idle => ReadsStand(req[r])
  BY DEF SerialInv
<1>2. /\ server[s].state = "unborn" /\ InsertMember(u, s, Owner) /\ IncServers(u, 1)
      /\ UNCHANGED <<bannedBy, isBanned, banDocs, req>>
      /\ server' = [server EXCEPT ![s] =
                      [state |-> "live", owner_id |-> u, member_count |-> 1]]
  BY DEF CreateServer
<1>3. MembersOf(s) = {} /\ s \notin bannedBy[u]
  BY <1>1, <1>2 DEF LiveAndOwned, Live, MembersOf, NoEarlyBan
<1>4. Cardinality(MembersOf(s)) = 0
  BY <1>3, FS_EmptySet
<1>5. /\ server'[s].state = "live" /\ server'[s].owner_id = u
      /\ server'[s].member_count = Cardinality(MembersOf(s)) + 1
      /\ \A x \in Servers \ {s} : server'[x] = server[x]
  BY <1>1, <1>2, <1>4 DEF TypeOK
<1>6. Settled'
  BY <1>2, <1>3, <1>5, SettledInsert
<1>7. BanListIsWitnessed'
  BY <1>1, <1>2 DEF BanListIsWitnessed
<1>8. ASSUME NEW r \in Requests, req[r] # Idle
      PROVE  ReadsStand(req[r])'
  <2>1. PICK h : h = req[r] /\ h \in Handler /\ ReadsStand(h)
    BY <1>1, <1>8 DEF TypeOK
  <2>2. h.server \in Servers
    BY <2>1 DEF Handler
  <2>3. members \subseteq members'
    BY <1>2 DEF InsertMember
  <2>4. /\ TargetStands(h) => TargetStands(h)'
        /\ OwnerStands(h) => OwnerStands(h)'
    BY <2>3 DEF TargetStands, OwnerStands
  <2>5. Live(h.server) => server'[h.server].state = "live"
    BY <1>2, <1>5, <2>2 DEF Live
  <2>6. /\ JoinStands(h) => JoinStands(h)'
        /\ UnbanStands(h) => UnbanStands(h)'
        /\ Live(h.server) => server'[h.server].state = "live"
    BY <1>2, <2>5 DEF JoinStands, UnbanStands, Live
  <2>7. ReadsStand(h)'
    BY <2>1, <2>4, <2>6 DEF ReadsStand, Live
  <2>8. req'[r] = h
    BY <1>2, <2>1
  <2>9. QED
    BY <2>7, <2>8
<1>9. \A r \in Requests : (req[r] # Idle => ReadsStand(req[r]))'
  BY <1>2, <1>8
<1>10. QED
  BY <1>6, <1>7, <1>9 DEF SerialInv, Settled

LEMMA SerialNext ==
  ASSUME OneAtATime
  PROVE  SerialInv /\ [Next]_vars => SerialInv'
<1> SUFFICES ASSUME SerialInv, [Next]_vars PROVE SerialInv'
  OBVIOUS
<1>1. TypeOK'
  BY NextType DEF SerialInv
<1>2. CASE \E u \in Users, s \in Servers : CreateServer(u, s)
  BY <1>1, <1>2, SerialCreate
<1>3. CASE \E r \in Requests : Start(r) \/ Continue(r)
  BY <1>1, <1>3, SerialStart, SerialContinue
<1>4. CASE UNCHANGED vars
  <2>1. UNCHANGED Documents /\ UNCHANGED Bans /\ UNCHANGED req
    BY <1>4 DEF vars, Documents, Bans
  <2>2. Settled'
    BY <2>1, SettledSame DEF Bans
  <2>3. BanListIsWitnessed'
    BY <2>1 DEF SerialInv, BanListIsWitnessed, Bans
  <2>4. ASSUME NEW r \in Requests, req'[r] # Idle
        PROVE  ReadsStand(req[r])'
    <3>1. PICK h : h = req[r] /\ ReadsStand(h)
      BY <2>1, <2>4 DEF SerialInv
    <3>2. ReadsStand(h)' /\ req'[r] = h
      BY <2>1, <3>1, StandsSame DEF Documents, Bans
    <3>3. QED
      BY <3>2
  <2>5. QED
    BY <1>1, <2>2, <2>3, <2>4 DEF SerialInv, Settled
<1>5. QED
  BY <1>2, <1>3, <1>4 DEF Next

LEMMA SerialAlways ==
  ASSUME OneAtATime
  PROVE  Spec => []SerialInv
<1>1. Init => SerialInv
  BY SerialInit
<1>2. SerialInv /\ [Next]_vars => SerialInv'
  BY SerialNext
<1>3. QED
  BY <1>1, <1>2, PTL DEF Spec

(* With one request at a time, member_count and server_count are exactly the *)
(* numbers of membership documents: whatever a handler decrements for, it    *)
(* removes one document.                                                     *)
THEOREM CountsExactOneByOne ==
  ASSUME OneAtATime
  PROVE  Spec => []CountsExact
<1>1. SerialInv => CountsExact
  BY DEF SerialInv
<1>2. QED
  BY <1>1, SerialAlways, PTL

(* With one request at a time, a live server's OWNER is one member, the one  *)
(* owner_id names, through any number of transfers; a removed server has no  *)
(* membership.                                                               *)
THEOREM OneOwnerOneByOne ==
  ASSUME OneAtATime
  PROVE  Spec => []OneOwner
<1>1. SerialInv => OneOwner
  <2> SUFFICES ASSUME SerialInv, NEW s \in Servers
               PROVE  {m.user : m \in {n \in MembersOf(s) : n.role = Owner}} =
                        IF Live(s) THEN {server[s].owner_id} ELSE {}
    BY DEF OneOwner
  <2> DEFINE owners == {n \in MembersOf(s) : n.role = Owner}
  <2>1. \A m \in MembersOf(s) : Live(s) /\ (m.role = Owner => server[s].owner_id = m.user)
    BY DEF SerialInv, LiveAndOwned, MembersOf
  <2>2. Live(s) => owners # {}
    BY DEF SerialInv, LiveAndOwned
  <2>3. \A m \in owners : Live(s) /\ m.user = server[s].owner_id
    BY <2>1
  <2> HIDE DEF owners
  <2>4. {m.user : m \in owners} = IF Live(s) THEN {server[s].owner_id} ELSE {}
    BY <2>2, <2>3
  <2>5. QED
    BY <2>4 DEF owners
<1>2. QED
  BY <1>1, SerialAlways, PTL

(* With one request at a time, nobody is a member of a server whose ban list *)
(* names them: the check joinServer makes still holds when it inserts.       *)
THEOREM BannedAreOutOneByOne ==
  ASSUME OneAtATime
  PROVE  Spec => []BannedAreOut
<1>1. SerialInv => BannedAreOut
  BY DEF SerialInv
<1>2. QED
  BY <1>1, SerialAlways, PTL

(* With one request at a time, every ban of a user has its document and the  *)
(* is_banned flag, even when the process dies inside unbanMember.            *)
THEOREM BansWitnessedOneByOne ==
  ASSUME OneAtATime
  PROVE  Spec => []BanListIsWitnessed
<1>1. SerialInv => BanListIsWitnessed
  BY DEF SerialInv
<1>2. QED
  BY <1>1, SerialAlways, PTL

(* The members a step of a handler takes away.                               *)
LEMMA OnlyTargetsLeave ==
  ASSUME SerialInv, [Next]_vars, NEW m \in members,
         \A n \in members' : ~Names(n, m.user, m.server, m.id)
  PROVE  \/ server'[m.server].state = "deleted"
         \/ m.role # Owner
<1> DEFINE Stays == \E n \in members' : Names(n, m.user, m.server, m.id)
<1>1. /\ TypeOK /\ UniqueIn(members) /\ members \in SUBSET Membership
      /\ \A r \in Requests : req[r] # Idle => ReadsStand(req[r])
  BY DEF SerialInv, TypeOK
<1>2. members \subseteq members' => Stays
  BY DEF Names
<1>3. ASSUME NEW ms \in SUBSET Membership, NEW u, NEW s, NEW id, NEW role,
             NEW n \in ms
      PROVE  \E k \in SetRole(ms, u, s, id, role) : Names(k, n.user, n.server, n.id)
  <2> DEFINE k == IF Names(n, u, s, id) THEN [n EXCEPT !.role = role] ELSE n
  <2>1. k \in SetRole(ms, u, s, id, role)
    BY DEF SetRole
  <2>2. Names(k, n.user, n.server, n.id)
    BY DEF Names, Membership
  <2>3. QED
    BY <2>1, <2>2
<1>4. ASSUME NEW h, TargetStands(h), RemoveMembership(h)
      PROVE  m.role # Owner
  <2>1. Names(m, h.target, h.server, h.tid)
    BY <1>4 DEF RemoveMembership, Names
  <2>2. QED
    BY <1>1, <1>4, <2>1 DEF TargetStands, UniqueIn, Names
<1>5. CASE UNCHANGED members
  BY <1>2, <1>5
<1>6. CASE \E u \in Users, s \in Servers : CreateServer(u, s)
  BY <1>2, <1>6 DEF CreateServer, InsertMember
<1>7. ASSUME NEW r \in Requests, Start(r)
      PROVE  UNCHANGED members
  BY <1>7, StartOnlyReads DEF Documents
<1>8. ASSUME NEW r \in Requests, Continue(r)
      PROVE  server'[m.server].state = "deleted" \/ m.role # Owner
  <2> DEFINE h == req[r]
  <2>1. \A op, step : At(r, op, step) => ReadsStand(h) /\ h.op = op /\ h \in Handler
    BY <1>1, HandlerType DEF At
  <2>2. CASE JoinCheck(r) \/ GiveUp(r)
    BY <2>2, <1>5 DEF JoinCheck, GiveUp, Documents
  <2>3. CASE UnbanPull(r) \/ UnbanReread(r) \/ UnbanClear(r) \/ UnbanDelete(r)
    BY <2>3, <1>5 DEF UnbanPull, UnbanReread, UnbanClear, UnbanDelete, Documents
  <2>4. CASE JoinCommit(r)
    BY <2>4, <1>2 DEF JoinCommit, InsertMember
  <2>5. CASE LeaveCommit(r) \/ KickCommit(r) \/ BanCommit(r)
    <3>1. TargetStands(h) /\ RemoveMembership(h)
      BY <2>1, <2>5 DEF LeaveCommit, KickCommit, BanCommit, ReadsStand
    <3>2. QED
      BY <3>1, <1>4
  <2>6. CASE AssignSave(r)
    BY <2>6, <1>1, <1>3 DEF AssignSave
  <2>7. CASE TransferCommit(r)
    <3> DEFINE mid == SetRole(members, h.actor, h.server, h.aid, Member)
    <3>1. members' = SetRole(mid, h.target, h.server, h.tid, Owner)
      BY <2>7 DEF TransferCommit
    <3>2. mid \in SUBSET Membership
      <4>1. IsFiniteSet(members) /\ Member \in Roles
        BY <1>1 DEF TypeOK, Roles
      <4>2. QED
        BY <1>1, <4>1, SetRoleType
    <3>3. PICK k \in mid : Names(k, m.user, m.server, m.id)
      BY <1>1, <1>3
    <3> HIDE DEF mid
    <3>4. PICK n \in members' : Names(n, k.user, k.server, k.id)
      BY <3>1, <3>2, <1>3
    <3>5. QED
      BY <3>3, <3>4 DEF Names
  <2>8. CASE RemoveServerCommit(r)
    <3>1. m.server = h.server /\ h.server \in Servers
      BY <2>1, <2>8 DEF RemoveServerCommit, MembersOf, Names, Handler
    <3>2. server'[h.server].state = "deleted"
      BY <1>1, <2>8, <3>1 DEF RemoveServerCommit, TypeOK, ServerDoc
    <3>3. QED
      BY <3>1, <3>2
  <2>9. QED
    BY <1>8, <2>2, <2>3, <2>4, <2>5, <2>6, <2>7, <2>8 DEF Continue
<1>9. QED
  BY <1>5, <1>6, <1>7, <1>8 DEF Next, vars

(* With one request at a time, leaveServer and kickOrBan never remove the    *)
(* member with the OWNER role: only removeServer does, with the server.      *)
THEOREM OwnerStaysOneByOne ==
  ASSUME OneAtATime
  PROVE  Spec => OwnerNeverRemoved
<1>1. SerialInv /\ [Next]_vars =>
        [\A m \in members :
           m.role = Owner /\ (\A n \in members' : ~Names(n, m.user, m.server, m.id))
             => server'[m.server].state = "deleted"]_vars
  BY OnlyTargetsLeave
<1>2. QED
  BY <1>1, SerialAlways, PTL DEF Spec, OwnerNeverRemoved

(* With one request at a time, an unbanMember that runs to its end has taken *)
(* the server from the user's list and left is_banned telling whether        *)
(* another server's ban remains, whatever crashes of earlier ones left.      *)
THEOREM UnbanSettlesOneByOne ==
  ASSUME OneAtATime
  PROVE  Spec => UnbanSettles
<1>1. SerialInv /\ [Next]_vars =>
        [\A r \in Requests :
           LET s == req[r].server
               u == req[r].target IN
           At(r, "unban", "cleared") /\ req'[r] = Idle /\ <<s, u>> \notin banDocs'
             => s \notin bannedBy'[u] /\ isBanned'[u] = (bannedBy'[u] # {})]_vars
  <2> SUFFICES ASSUME SerialInv, Next, NEW r \in Requests,
                      At(r, "unban", "cleared"), req'[r] = Idle
               PROVE  /\ req[r].server \notin bannedBy'[req[r].target]
                      /\ isBanned'[req[r].target] = (bannedBy'[req[r].target] # {})
    OBVIOUS
  <2>1. /\ req[r] \in Handler /\ UnbanStands(req[r]) /\ req[r].step = "cleared"
        /\ req[r].target \in Users /\ isBanned \in [Users -> BOOLEAN]
        /\ req[r].op = "unban"
    BY HandlerType DEF SerialInv, TypeOK, ReadsStand, At, Handler
  <2>2. /\ req[r].server \notin bannedBy[req[r].target]
        /\ isBanned[req[r].target] = (bannedBy[req[r].target] # {})
    BY <2>1 DEF UnbanStands
  <2>3. \A q \in Requests : q = r
    BY DEF OneAtATime
  <2>4. UNCHANGED <<bannedBy, isBanned>>
    <3>1. CASE \E u \in Users, s \in Servers : CreateServer(u, s)
      BY <3>1 DEF CreateServer
    <3>2. CASE \E q \in Requests : Start(q)
      BY <3>2, StartOnlyReads DEF Bans
    <3>3. CASE Continue(r)
      BY <2>1, <3>3 DEF Continue, At, JoinCheck, JoinCommit, LeaveCommit, KickCommit,
           BanCommit, UnbanPull, UnbanReread, UnbanClear, UnbanDelete, AssignSave,
           TransferCommit, RemoveServerCommit, GiveUp, Bans
    <3>4. QED
      BY <2>3, <3>1, <3>2, <3>3 DEF Next
  <2>5. QED
    BY <2>2, <2>4
<1>2. QED
  BY <1>1, SerialAlways, PTL DEF Spec, UnbanSettles
-----------------------------------------------------------------------------
(* Every request is one decision of ServerRoster.  The rights a handler has  *)
(* checked are still those of its actor when it writes; leave, join and      *)
(* transfer need no more than ReadsStand says.                               *)
RightsStand(h) ==
  /\ h.op \in {"kick", "ban"} =>
       \E am, tm \in members :
         /\ am.user = h.actor /\ am.server = h.server
         /\ Names(tm, h.target, h.server, h.tid)
         /\ MayRemove(am, tm)
  /\ h.op = "unban" /\ h.step = "begun" =>
       \E am \in members : /\ am.user = h.actor /\ am.server = h.server
                           /\ am.role \in {Owner, Moderator}
  /\ h.op = "role" =>
       \E am \in members : am.user = h.actor /\ am.server = h.server /\ am.role = Owner
  /\ h.op = "remove" => server[h.server].owner_id = h.actor

(* The inductive invariant under which a request is one decision.            *)
RosterInv ==
  SerialInv /\ \A r \in Requests : req[r] # Idle => RightsStand(req[r])

LEMMA RightsSame ==
  ASSUME UNCHANGED <<server, members>>, NEW h, RightsStand(h)
  PROVE  RightsStand(h)'
BY DEF RightsStand

(* What a handler has checked of its actor when it begins.                   *)
LEMMA BeginningsRight ==
  ASSUME NEW r \in Requests, Start(r)
  PROVE  \E h : Begin(r, h) /\ RightsStand(h)
<1> DEFINE Right(h) == Begin(r, h) /\ RightsStand(h)
<1>1. PICK a \in Users, s \in Servers :
        \/ JoinBegin(r, a, s)
        \/ LeaveBegin(r, a, s)
        \/ RemoveServerBegin(r, a, s)
        \/ \E t \in Users :
             \/ \E op \in {"kick", "ban"} : KickOrBanBegin(r, op, a, t, s)
             \/ UnbanBegin(r, a, t, s)
             \/ TransferBegin(r, a, t, s)
             \/ \E role \in Roles : AssignBegin(r, a, t, s, role)
  BY DEF Start
<1>2. CASE JoinBegin(r, a, s)
  <2> DEFINE h == [Call("join", s, a, a) EXCEPT !.seen = s \in bannedBy[a]]
  <2>1. Begin(r, h) /\ h.op = "join"
    BY <1>2 DEF JoinBegin, Call
  <2> HIDE DEF h
  <2>2. QED
    BY <2>1 DEF RightsStand
<1>3. CASE LeaveBegin(r, a, s)
  <2>1. PICK m \in MembersOf(s) : Begin(r, [Call("leave", s, a, a) EXCEPT !.tid = m.id])
    BY <1>3 DEF LeaveBegin
  <2> DEFINE h == [Call("leave", s, a, a) EXCEPT !.tid = m.id]
  <2>2. Begin(r, h) /\ h.op = "leave"
    BY <2>1 DEF Call
  <2> HIDE DEF h
  <2>3. QED
    BY <2>2 DEF RightsStand
<1>4. CASE RemoveServerBegin(r, a, s)
  <2> DEFINE h == Call("remove", s, a, a)
  <2>1. /\ Begin(r, h) /\ server[s].owner_id = a
        /\ h.op = "remove" /\ h.server = s /\ h.actor = a
    BY <1>4 DEF RemoveServerBegin, Call
  <2> HIDE DEF h
  <2>2. QED
    BY <2>1 DEF RightsStand
<1>5. ASSUME NEW t \in Users, NEW op \in {"kick", "ban"},
             KickOrBanBegin(r, op, a, t, s)
      PROVE  \E h : Right(h)
  <2>1. PICK am, tm \in MembersOf(s) :
          /\ am.user = a /\ tm.user = t /\ MayRemove(am, tm)
          /\ Begin(r, [Call(op, s, a, t) EXCEPT !.tid = tm.id])
    BY <1>5 DEF KickOrBanBegin
  <2> DEFINE h == [Call(op, s, a, t) EXCEPT !.tid = tm.id]
  <2>2. h.op = op /\ h.server = s /\ h.actor = a /\ h.target = t /\ h.tid = tm.id
    BY DEF Call
  <2>3. Begin(r, h)
    BY <2>1
  <2> HIDE DEF h
  <2>4. RightsStand(h)
    BY <2>1, <2>2 DEF RightsStand, Names, MembersOf
  <2>5. QED
    BY <2>3, <2>4
<1>6. ASSUME NEW t \in Users, UnbanBegin(r, a, t, s)
      PROVE  \E h : Right(h)
  <2>1. PICK m \in MembersOf(s) : m.user = a /\ m.role \in {Owner, Moderator}
    BY <1>6 DEF UnbanBegin
  <2> DEFINE h == Call("unban", s, a, t)
  <2>2. Begin(r, h) /\ h.op = "unban" /\ h.server = s /\ h.actor = a
    BY <1>6 DEF UnbanBegin, Call
  <2> HIDE DEF h
  <2>3. RightsStand(h)
    BY <2>1, <2>2 DEF RightsStand, MembersOf
  <2>4. QED
    BY <2>2, <2>3
<1>7. ASSUME NEW t \in Users, TransferBegin(r, a, t, s)
      PROVE  \E h : Right(h)
  <2>1. PICK am, tm \in MembersOf(s) :
          Begin(r, [Call("transfer", s, a, t) EXCEPT !.tid = tm.id, !.aid = am.id])
    BY <1>7 DEF TransferBegin
  <2> DEFINE h == [Call("transfer", s, a, t) EXCEPT !.tid = tm.id, !.aid = am.id]
  <2>2. h.op = "transfer"
    BY DEF Call
  <2>3. Begin(r, h)
    BY <2>1
  <2> HIDE DEF h
  <2>4. QED
    BY <2>2, <2>3 DEF RightsStand
<1>8. ASSUME NEW t \in Users, NEW role \in Roles, AssignBegin(r, a, t, s, role)
      PROVE  \E h : Right(h)
  <2>1. PICK am, tm \in MembersOf(s) :
          /\ am.user = a /\ am.role = Owner
          /\ Begin(r, [Call("role", s, a, t) EXCEPT !.tid = tm.id, !.role = role])
    BY <1>8 DEF AssignBegin
  <2> DEFINE h == [Call("role", s, a, t) EXCEPT !.tid = tm.id, !.role = role]
  <2>2. h.op = "role" /\ h.server = s /\ h.actor = a
    BY DEF Call
  <2>3. Begin(r, h)
    BY <2>1
  <2> HIDE DEF h
  <2>4. RightsStand(h)
    BY <2>1, <2>2 DEF RightsStand, MembersOf
  <2>5. QED
    BY <2>3, <2>4
<1>9. QED
  BY <1>1, <1>2, <1>3, <1>4, <1>5, <1>6, <1>7, <1>8

LEMMA RosterStart ==
  ASSUME OneAtATime, RosterInv, NEW r \in Requests, Start(r), NEW q \in Requests
  PROVE  RightsStand(req[q])'
<1>1. PICK h : Begin(r, h) /\ RightsStand(h)
  BY BeginningsRight
<1>2. RightsStand(h)'
  BY <1>1, StartOnlyReads, RightsSame DEF Documents
<1>3. req'[q] = h
  BY <1>1 DEF Begin, OneAtATime, RosterInv, SerialInv, TypeOK
<1>4. QED
  BY <1>2, <1>3

(* The steps that do not end a handler are of operations, or of a part of    *)
(* unbanMember, whose rights are used up or none.                            *)
LEMMA RosterContinue ==
  ASSUME OneAtATime, RosterInv, NEW r \in Requests, Continue(r), NEW q \in Requests,
         req'[q] # Idle
  PROVE  RightsStand(req[q])'
<1>1. TypeOK
  BY DEF RosterInv, SerialInv
<1>2. ~Finish(r)
  BY <1>1, FinishStands
<1>3. JoinCheck(r) \/ UnbanPull(r) \/ UnbanReread(r) \/ UnbanClear(r)
  BY <1>2 DEF Continue, JoinCommit, LeaveCommit, KickCommit, BanCommit, UnbanDelete,
              AssignSave, TransferCommit, RemoveServerCommit, GiveUp
<1>4. q = r
  BY DEF OneAtATime
<1>5. \A op, step : At(r, op, step) => req[r] \in Handler
  BY <1>1, HandlerType
<1>6. req'[q].op = "join" \/ (req'[q].op = "unban" /\ req'[q].step # "begun")
  <2>1. CASE JoinCheck(r)
    BY <2>1, <1>1, <1>4, <1>5 DEF JoinCheck, At, Handler, TypeOK
  <2>2. CASE UnbanPull(r)
    BY <2>2, <1>1, <1>4, <1>5 DEF UnbanPull, At, Handler, TypeOK
  <2>3. CASE UnbanReread(r)
    BY <2>3, <1>1, <1>4, <1>5 DEF UnbanReread, At, Handler, TypeOK
  <2>4. CASE UnbanClear(r)
    BY <2>4, <1>1, <1>4, <1>5 DEF UnbanClear, At, Handler, TypeOK
  <2>5. QED
    BY <1>3, <2>1, <2>2, <2>3, <2>4
<1>7. QED
  BY <1>6 DEF RightsStand

LEMMA RosterCreate ==
  ASSUME RosterInv, NEW u \in Users, NEW s \in Servers, CreateServer(u, s),
         NEW r \in Requests, req[r] # Idle
  PROVE  RightsStand(req[r])'
<1>1. PICK h : h = req[r] /\ h \in Handler /\ RightsStand(h) /\ ReadsStand(h)
  BY DEF RosterInv, SerialInv, TypeOK
<1>2. members \subseteq members' /\ req'[r] = h
  BY <1>1 DEF CreateServer, InsertMember
<1>3. h.op = "remove" => server'[h.server].owner_id = server[h.server].owner_id
  BY <1>1 DEF ReadsStand, Live, CreateServer, RosterInv, SerialInv, TypeOK, Handler
<1>4. RightsStand(h)'
  BY <1>1, <1>2, <1>3 DEF RightsStand
<1>5. QED
  BY <1>2, <1>4

LEMMA RosterNext ==
  ASSUME OneAtATime
  PROVE  RosterInv /\ [Next]_vars => RosterInv'
<1> SUFFICES ASSUME RosterInv, [Next]_vars PROVE RosterInv'
  OBVIOUS
<1>1. SerialInv'
  BY SerialNext DEF RosterInv
<1>2. ASSUME NEW q \in Requests, req'[q] # Idle
      PROVE  RightsStand(req[q])'
  <2>1. CASE \E u \in Users, s \in Servers : CreateServer(u, s)
    BY <1>2, <2>1, RosterCreate DEF CreateServer
  <2>2. CASE \E r \in Requests : Start(r)
    BY <2>2, RosterStart
  <2>3. CASE \E r \in Requests : Continue(r)
    BY <1>2, <2>3, RosterContinue
  <2>4. CASE UNCHANGED vars
    <3>1. PICK h : h = req[q] /\ RightsStand(h) /\ req'[q] = h
      BY <1>2, <2>4 DEF RosterInv, vars
    <3>2. RightsStand(h)'
      BY <2>4, <3>1, RightsSame DEF vars
    <3>3. QED
      BY <3>1, <3>2
  <2>5. QED
    BY <2>1, <2>2, <2>3, <2>4 DEF Next
<1>3. QED
  BY <1>1, <1>2 DEF RosterInv

LEMMA RosterAlways ==
  ASSUME OneAtATime
  PROVE  Spec => []RosterInv
<1>1. Init => RosterInv
  BY SerialInit DEF RosterInv, Init
<1>2. RosterInv /\ [Next]_vars => RosterInv'
  BY RosterNext
<1>3. QED
  BY <1>1, <1>2, PTL DEF Spec
-----------------------------------------------------------------------------
(* The people a collection of memberships stands for.                        *)
People(ms) == {<<m.server, m.user, m.role>> : m \in ms}

LEMMA PeopleAdd ==
  ASSUME NEW ms, NEW m
  PROVE  People(ms \cup {m}) = People(ms) \cup {<<m.server, m.user, m.role>>}
BY DEF People

LEMMA PeopleDrop ==
  ASSUME NEW ms, UniqueIn(ms), NEW m \in ms
  PROVE  People(ms \ {m}) = People(ms) \ {<<m.server, m.user, m.role>>}
BY DEF People, UniqueIn

LEMMA PeopleSwap ==
  ASSUME NEW ms \in SUBSET Membership, UniqueIn(ms), NEW m \in ms, NEW role
  PROVE  People(SetRole(ms, m.user, m.server, m.id, role)) =
           (People(ms) \ {<<m.server, m.user, m.role>>})
             \cup {<<m.server, m.user, role>>}
<1> DEFINE n == [m EXCEPT !.role = role]
<1>1. n.server = m.server /\ n.user = m.user /\ n.role = role
  BY DEF Membership
<1> HIDE DEF n
<1>2. SetRole(ms, m.user, m.server, m.id, role) = (ms \ {m}) \cup {n}
  BY SetRoleOne DEF n
<1>3. People(ms \ {m}) = People(ms) \ {<<m.server, m.user, m.role>>}
  BY PeopleDrop
<1>4. People((ms \ {m}) \cup {n}) =
        People(ms \ {m}) \cup {<<n.server, n.user, n.role>>}
  BY PeopleAdd
<1>5. QED
  BY <1>1, <1>2, <1>3, <1>4

LEMMA RosterIsPeople ==
  /\ Roster = People(members) /\ Roster' = People(members')
  /\ \A s, u, role : Decided!Is(s, u, role) <=>
       \E m \in members : m.server = s /\ m.user = u /\ m.role = role
BY DEF Roster, People, Decided!Is

LEMMA UnseenSteps ==
  /\ UNCHANGED bannedBy => UNCHANGED BansInForce
  /\ UNCHANGED members => UNCHANGED Roster
  /\ (\A s \in Servers : server'[s].state = server[s].state) => UNCHANGED States
BY DEF BansInForce, Roster, States

LEMMA BansAre ==
  /\ \A b \in BansInForce : \E s \in Servers, u \in Users : b = <<s, u>>
  /\ \A s \in Servers, u \in Users : <<s, u>> \in BansInForce <=> s \in bannedBy[u]
BY DEF BansInForce

LEMMA BansAreNext ==
  /\ \A b \in BansInForce' : \E s \in Servers, u \in Users : b = <<s, u>>
  /\ \A s \in Servers, u \in Users : <<s, u>> \in BansInForce' <=> s \in bannedBy'[u]
BY DEF BansInForce

(* The removal that leaveServer, kick and ban share.                         *)
LEMMA RemovalIsDrop ==
  ASSUME SerialInv, NEW h \in Handler, RemoveMembership(h), NEW tm \in members,
         Names(tm, h.target, h.server, h.tid)
  PROVE  Decided!Drop(h.server, h.target, tm.role)
<1>1. TypeOK /\ UniqueIn(members) /\ h.server \in Servers
  BY DEF SerialInv, Handler
<1>2. tm.user = h.target /\ tm.server = h.server /\ tm.id = h.tid
  BY DEF Names
<1>3. members' = members \ {tm}
  BY <1>1, <1>2, RemoveOne DEF RemoveMembership
<1>4. Roster' = Roster \ {<<h.server, h.target, tm.role>>}
  BY <1>1, <1>2, <1>3, PeopleDrop, RosterIsPeople
<1>5. Decided!Is(h.server, h.target, tm.role)
  BY <1>2, RosterIsPeople
<1>6. UNCHANGED States
  BY <1>1, UnseenSteps DEF RemoveMembership, IncMembers, TypeOK, ServerDoc
<1>7. QED
  BY <1>4, <1>5, <1>6 DEF Decided!Drop

LEMMA LeaveIsDecided ==
  ASSUME SerialInv, NEW h \in Handler, TargetStands(h), RemoveMembership(h),
         UNCHANGED bannedBy
  PROVE  Decided!Leave(h.server, h.target)
<1>1. PICK m \in members : Names(m, h.target, h.server, h.tid) /\ m.role # Owner
  BY DEF TargetStands
<1>2. m.role \in Decided!Lower
  BY <1>1 DEF Decided!Lower, SerialInv, TypeOK, Membership, Roles
<1>3. Decided!Drop(h.server, h.target, m.role)
  BY <1>1, RemovalIsDrop
<1>4. QED
  BY <1>2, <1>3, UnseenSteps DEF Decided!Leave

LEMMA ExpelIsDecided ==
  ASSUME SerialInv, NEW h \in Handler, h.op \in {"kick", "ban"}, RightsStand(h),
         RemoveMembership(h)
  PROVE  Decided!Expel(h.server, h.actor, h.target)
<1>1. PICK am, tm \in members : /\ am.user = h.actor /\ am.server = h.server
                                /\ Names(tm, h.target, h.server, h.tid)
                                /\ MayRemove(am, tm)
  BY DEF RightsStand
<1>2. Decided!Drop(h.server, h.target, tm.role)
  BY <1>1, RemovalIsDrop
<1>3. Decided!Is(h.server, h.actor, am.role)
  BY <1>1, RosterIsPeople
<1>4. tm.role \in {Moderator, Member}
  BY <1>1 DEF MayRemove, SerialInv, TypeOK, Membership, Roles
<1>5. am.role \in {Owner, Moderator} /\ (tm.role = Moderator => am.role = Owner)
  BY <1>1 DEF MayRemove
<1>6. CASE tm.role = Member
  BY <1>2, <1>3, <1>5, <1>6 DEF Decided!Expel, Decided!Staff
<1>7. CASE tm.role = Moderator
  BY <1>2, <1>3, <1>5, <1>7 DEF Decided!Expel
<1>8. QED
  BY <1>4, <1>6, <1>7

LEMMA BanIsDecided ==
  ASSUME RosterInv, NEW r \in Requests, BanCommit(r)
  PROVE  Decided!Ban(req[r].server, req[r].actor, req[r].target)
<1> DEFINE h == req[r]
<1>1. /\ SerialInv /\ TypeOK /\ h \in Handler /\ h.op = "ban" /\ RightsStand(h)
      /\ h.target \in Users /\ h.server \in Servers
  BY HandlerType DEF RosterInv, SerialInv, BanCommit, At, Handler
<1>2. Decided!Expel(h.server, h.actor, h.target)
  BY <1>1, ExpelIsDecided DEF BanCommit
<1>3. \A v \in Users : bannedBy'[v] = IF v = h.target THEN bannedBy[v] \cup {h.server}
                                                      ELSE bannedBy[v]
  BY <1>1 DEF BanCommit, TypeOK
<1> HIDE DEF h
<1>4. BansInForce' = BansInForce \cup {<<h.server, h.target>>}
  <2> DEFINE after == BansInForce \cup {<<h.server, h.target>>}
  <2>1. \A s \in Servers, u \in Users : <<s, u>> \in BansInForce' <=> <<s, u>> \in after
    <3> TAKE s \in Servers, u \in Users
    <3>1. <<s, u>> \in BansInForce' <=> s \in bannedBy[u] \/ (u = h.target /\ s = h.server)
      BY <1>3, BansAreNext
    <3>2. <<s, u>> \in after <=> <<s, u>> \in BansInForce \/ (u = h.target /\ s = h.server)
      OBVIOUS
    <3>3. QED
      BY <3>1, <3>2, BansAre
  <2>2. \A b \in after : \E s \in Servers, u \in Users : b = <<s, u>>
    BY <1>1, BansAre
  <2> HIDE DEF after
  <2>3. \A b : b \in BansInForce' <=> b \in after
    BY <2>1, <2>2, BansAreNext
  <2>4. QED
    BY <2>3 DEF after
<1>5. QED
  BY <1>2, <1>4 DEF Decided!Ban, h

LEMMA UnbanIsDecided ==
  ASSUME RosterInv, NEW r \in Requests, UnbanPull(r)
  PROVE  Decided!Unban(req[r].server, req[r].actor, req[r].target)
<1> DEFINE h == req[r]
<1>1. /\ TypeOK /\ h \in Handler /\ h.op = "unban" /\ h.step = "begun" /\ RightsStand(h)
      /\ h.target \in Users /\ h.server \in Servers
  BY HandlerType DEF RosterInv, SerialInv, UnbanPull, At, Handler
<1>2. PICK am \in members : /\ am.user = h.actor /\ am.server = h.server
                            /\ am.role \in {Owner, Moderator}
  BY <1>1 DEF RightsStand
<1>3. Decided!Staff(h.server, h.actor)
  BY <1>2, RosterIsPeople DEF Decided!Staff
<1>4. \A v \in Users : bannedBy'[v] = IF v = h.target THEN bannedBy[v] \ {h.server}
                                                      ELSE bannedBy[v]
  BY <1>1 DEF UnbanPull, TypeOK
<1>5. UNCHANGED <<States, Roster>>
  BY UnseenSteps DEF UnbanPull, Documents
<1> HIDE DEF h
<1>6. BansInForce' = BansInForce \ {<<h.server, h.target>>}
  <2> DEFINE after == BansInForce \ {<<h.server, h.target>>}
  <2>1. \A s \in Servers, u \in Users : <<s, u>> \in BansInForce' <=> <<s, u>> \in after
    BY <1>1, <1>4, BansAre, BansAreNext
  <2>2. \A b \in after : \E s \in Servers, u \in Users : b = <<s, u>>
    BY <1>1, BansAre
  <2> HIDE DEF after
  <2>3. \A b : b \in BansInForce' <=> b \in after
    BY <2>1, <2>2, BansAreNext
  <2>4. QED
    BY <2>3 DEF after
<1>7. QED
  BY <1>3, <1>5, <1>6 DEF Decided!Unban, h

LEMMA JoinIsDecided ==
  ASSUME RosterInv, NEW r \in Requests, JoinCommit(r)
  PROVE  Decided!Join(req[r].server, req[r].actor)
<1> DEFINE s == req[r].server
           u == req[r].actor
<1>1. /\ TypeOK /\ JoinStands(req[r]) /\ req[r].step = "checked"
      /\ s \in Servers /\ u \in Users
  BY HandlerType DEF RosterInv, SerialInv, JoinCommit, At, Handler, ReadsStand
<1>2. Live(s) /\ s \notin bannedBy[u]
  BY <1>1 DEF JoinStands
<1>3. \A m \in MembersOf(s) : m.user # u
  BY DEF JoinCommit
<1>4. PICK m : m.server = s /\ m.user = u /\ m.role = Member /\ members' = members \cup {m}
  <2> DEFINE n == [id |-> CHOOSE id \in FreshIds(u, s) : TRUE,
                   user |-> u, server |-> s, role |-> Member]
  <2>1. members' = members \cup {n}
    BY DEF JoinCommit, InsertMember
  <2>2. n.server = s /\ n.user = u /\ n.role = Member
    OBVIOUS
  <2> HIDE DEF n
  <2>3. QED
    BY <2>1, <2>2
<1>5. UNCHANGED States /\ UNCHANGED BansInForce
  BY <1>1, UnseenSteps DEF JoinCommit, IncMembers, TypeOK, ServerDoc, Bans
<1>6. States[s] = "live"
  BY <1>1, <1>2 DEF States, Live
<1> HIDE DEF s, u
<1>7. Roster' = Roster \cup {<<s, u, Member>>}
  BY <1>4, PeopleAdd, RosterIsPeople
<1>8. ~Decided!Belongs(s, u)
  BY <1>3, RosterIsPeople DEF Decided!Belongs, MembersOf
<1>9. <<s, u>> \notin BansInForce
  BY <1>2 DEF BansInForce
<1>10. QED
  BY <1>5, <1>6, <1>7, <1>8, <1>9 DEF Decided!Join, s, u

LEMMA FoundIsDecided ==
  ASSUME SerialInv, NEW u \in Users, NEW s \in Servers, CreateServer(u, s)
  PROVE  Decided!Found(s, u)
<1>1. PICK m : m.server = s /\ m.user = u /\ m.role = Owner /\ members' = members \cup {m}
  <2> DEFINE n == [id |-> CHOOSE id \in FreshIds(u, s) : TRUE,
                   user |-> u, server |-> s, role |-> Owner]
  <2>1. members' = members \cup {n}
    BY DEF CreateServer, InsertMember
  <2>2. n.server = s /\ n.user = u /\ n.role = Owner
    OBVIOUS
  <2> HIDE DEF n
  <2>3. QED
    BY <2>1, <2>2
<1>2. Roster' = Roster \cup {<<s, u, Owner>>}
  BY <1>1, PeopleAdd, RosterIsPeople
<1>3. \A x \in Servers : server'[x].state = IF x = s THEN "live" ELSE server[x].state
  BY DEF CreateServer, SerialInv, TypeOK
<1>4. States[s] = "unborn" /\ States' = [States EXCEPT ![s] = "live"]
  BY <1>3 DEF States, CreateServer
<1>5. UNCHANGED BansInForce
  BY UnseenSteps DEF CreateServer
<1>6. QED
  BY <1>2, <1>4, <1>5 DEF Decided!Found

LEMMA AssignIsDecided ==
  ASSUME RosterInv, NEW r \in Requests, AssignSave(r)
  PROVE  /\ Decided!Assign(req[r].server, req[r].actor, req[r].target, req[r].role)
         /\ req[r].role \in Decided!Lower
<1> DEFINE h == req[r]
<1>1. /\ UniqueIn(members) /\ members \in SUBSET Membership
      /\ TargetStands(h) /\ RightsStand(h) /\ h.op = "role" /\ h.role \in Roles \ {Owner}
  BY HandlerType DEF RosterInv, SerialInv, TypeOK, AssignSave, At, Handler, ReadsStand
<1>2. PICK tm \in members : /\ tm.user = h.target /\ tm.server = h.server
                            /\ tm.id = h.tid /\ tm.role # Owner
  BY <1>1 DEF TargetStands, Names
<1>3. PICK am \in members : am.user = h.actor /\ am.server = h.server /\ am.role = Owner
  BY <1>1 DEF RightsStand
<1>4. tm.role \in Decided!Lower /\ h.role \in Decided!Lower
  BY <1>1, <1>2 DEF Membership, Roles, Decided!Lower
<1>5. members' = SetRole(members, tm.user, tm.server, tm.id, h.role)
  BY <1>2 DEF AssignSave
<1>6. UNCHANGED States /\ UNCHANGED BansInForce
  BY UnseenSteps DEF AssignSave, Bans
<1> HIDE DEF h
<1>7. Roster' = (Roster \ {<<h.server, h.target, tm.role>>})
                  \cup {<<h.server, h.target, h.role>>}
  BY <1>1, <1>2, <1>5, PeopleSwap, RosterIsPeople
<1>8. Decided!Is(h.server, h.actor, Owner) /\ Decided!Is(h.server, h.target, tm.role)
  BY <1>2, <1>3, RosterIsPeople
<1>9. QED
  BY <1>4, <1>6, <1>7, <1>8 DEF Decided!Assign, h

LEMMA TransferIsDecided ==
  ASSUME RosterInv, NEW r \in Requests, TransferCommit(r)
  PROVE  Decided!Transfer(req[r].server, req[r].actor, req[r].target)
<1> DEFINE h == req[r]
           mid == SetRole(members, h.actor, h.server, h.aid, Member)
<1>1. /\ TypeOK /\ UniqueIn(members) /\ members \in SUBSET Membership
      /\ IsFiniteSet(members) /\ Member \in Roles /\ h.server \in Servers
      /\ TargetStands(h) /\ OwnerStands(h)
  BY HandlerType DEF RosterInv, SerialInv, TypeOK, TransferCommit, At, Handler,
                     ReadsStand, Roles
<1>2. PICK tm \in members : /\ tm.user = h.target /\ tm.server = h.server
                            /\ tm.id = h.tid /\ tm.role # Owner
  BY <1>1 DEF TargetStands, Names
<1>3. PICK am \in members : /\ am.user = h.actor /\ am.server = h.server
                            /\ am.id = h.aid /\ am.role = Owner
  BY <1>1 DEF OwnerStands, Names
<1>4. tm.role \in Decided!Lower /\ am.user # tm.user
  BY <1>1, <1>2, <1>3 DEF Membership, Roles, Decided!Lower, UniqueIn
<1>5. mid \in SUBSET Membership /\ UniqueIn(mid)
  BY <1>1, RolesKeepCards
<1>6. tm \in mid
  BY <1>1, <1>2, <1>3, SetRoleOne
<1>7. members' = SetRole(mid, tm.user, tm.server, tm.id, Owner)
  BY <1>2 DEF TransferCommit
<1>8. mid = SetRole(members, am.user, am.server, am.id, Member)
  BY <1>3
<1>9. UNCHANGED States /\ UNCHANGED BansInForce
  BY <1>1, UnseenSteps DEF TransferCommit, TypeOK, ServerDoc, Bans
<1> HIDE DEF h, mid
<1>10. People(mid) = (Roster \ {<<h.server, h.actor, Owner>>})
                       \cup {<<h.server, h.actor, Member>>}
  BY <1>1, <1>3, <1>8, PeopleSwap, RosterIsPeople
<1>11. Roster' = (People(mid) \ {<<h.server, h.target, tm.role>>})
                   \cup {<<h.server, h.target, Owner>>}
  BY <1>2, <1>5, <1>6, <1>7, PeopleSwap, RosterIsPeople
<1>12. h.actor # h.target
  BY <1>2, <1>3, <1>4
<1>13. Roster' = (Roster \ {<<h.server, h.actor, Owner>>, <<h.server, h.target, tm.role>>})
                   \cup {<<h.server, h.actor, Member>>, <<h.server, h.target, Owner>>}
  BY <1>10, <1>11, <1>12
<1>14. Decided!Is(h.server, h.actor, Owner) /\ Decided!Is(h.server, h.target, tm.role)
  BY <1>2, <1>3, RosterIsPeople
<1>15. QED
  BY <1>4, <1>9, <1>13, <1>14 DEF Decided!Transfer, h

LEMMA CloseIsDecided ==
  ASSUME RosterInv, NEW r \in Requests, RemoveServerCommit(r)
  PROVE  Decided!Close(req[r].server, req[r].actor)
<1> DEFINE s == req[r].server
           a == req[r].actor
<1>1. /\ TypeOK /\ LiveAndOwned /\ s \in Servers
      /\ Live(s) /\ server[s].owner_id = a
  BY HandlerType DEF RosterInv, SerialInv, RemoveServerCommit, At, Handler, ReadsStand,
                     RightsStand
<1>2. PICK m \in members : m.server = s /\ m.role = Owner /\ m.user = a
  BY <1>1 DEF LiveAndOwned, MembersOf
<1>3. members' = {n \in members : n.server # s}
  BY DEF RemoveServerCommit, MembersOf
<1>4. \A x \in Servers : server'[x].state = IF x = s THEN "deleted" ELSE server[x].state
  BY <1>1 DEF RemoveServerCommit, TypeOK, ServerDoc
<1>5. UNCHANGED BansInForce
  BY UnseenSteps DEF RemoveServerCommit, Bans
<1> HIDE DEF s, a
<1>6. States[s] = "live" /\ States' = [States EXCEPT ![s] = "deleted"]
  BY <1>1, <1>4 DEF States, Live
<1>7. Roster' = {x \in Roster : x[1] # s}
  BY <1>3, RosterIsPeople DEF People
<1>8. Decided!Is(s, a, Owner)
  BY <1>2, RosterIsPeople
<1>9. QED
  BY <1>5, <1>6, <1>7, <1>8 DEF Decided!Close, s, a

Unseen == UNCHANGED <<States, Roster, BansInForce>>

(* Every step of a handler is a decision or is not seen in the roster.       *)
LEMMA HandlerDecides ==
  ASSUME RosterInv, NEW r \in Requests, Continue(r)
  PROVE  Decided!Next \/ Unseen
<1> DEFINE h == req[r]
<1>1. SerialInv
  BY DEF RosterInv
<1>2. \A op, step : At(r, op, step) =>
        /\ h \in Handler /\ h.op = op /\ ReadsStand(h) /\ RightsStand(h)
        /\ h.server \in Servers /\ h.actor \in Users /\ h.target \in Users
  BY HandlerType DEF RosterInv, SerialInv, At, Handler
<1>3. CASE JoinCheck(r) \/ GiveUp(r) \/ UnbanReread(r)
  BY <1>3, UnseenSteps DEF JoinCheck, GiveUp, UnbanReread, Documents, Bans, Unseen
<1>4. CASE UnbanClear(r) \/ UnbanDelete(r)
  BY <1>4, UnseenSteps DEF UnbanClear, UnbanDelete, Documents, Unseen
<1>5. CASE JoinCommit(r)
  BY <1>2, <1>5, JoinIsDecided DEF JoinCommit, Decided!Next
<1>6. CASE LeaveCommit(r)
  <2>1. h \in Handler /\ TargetStands(h) /\ RemoveMembership(h) /\ UNCHANGED bannedBy
    BY <1>2, <1>6 DEF LeaveCommit, ReadsStand, Bans
  <2>2. Decided!Leave(h.server, h.target)
    BY <1>1, <2>1, LeaveIsDecided
  <2>3. QED
    BY <1>2, <1>6, <2>2 DEF LeaveCommit, Decided!Next
<1>7. CASE KickCommit(r)
  <2>1. /\ h \in Handler /\ h.op = "kick" /\ RightsStand(h)
        /\ RemoveMembership(h) /\ UNCHANGED bannedBy
    BY <1>2, <1>7 DEF KickCommit, Bans
  <2>2. Decided!Kick(h.server, h.actor, h.target)
    BY <1>1, <2>1, ExpelIsDecided, UnseenSteps DEF Decided!Kick
  <2>3. QED
    BY <1>2, <1>7, <2>2 DEF KickCommit, Decided!Next
<1>8. CASE BanCommit(r)
  BY <1>2, <1>8, BanIsDecided DEF BanCommit, Decided!Next
<1>9. CASE UnbanPull(r)
  BY <1>2, <1>9, UnbanIsDecided DEF UnbanPull, Decided!Next
<1>10. CASE AssignSave(r)
  BY <1>2, <1>10, AssignIsDecided DEF AssignSave, Decided!Next
<1>11. CASE TransferCommit(r)
  BY <1>2, <1>11, TransferIsDecided DEF TransferCommit, Decided!Next
<1>12. CASE RemoveServerCommit(r)
  BY <1>2, <1>12, CloseIsDecided DEF RemoveServerCommit, Decided!Next
<1>13. QED
  BY <1>3, <1>4, <1>5, <1>6, <1>7, <1>8, <1>9, <1>10, <1>11, <1>12 DEF Continue

LEMMA StepDecides ==
  ASSUME RosterInv, [Next]_vars
  PROVE  Decided!Next \/ Unseen
<1>1. CASE \E u \in Users, s \in Servers : CreateServer(u, s)
  BY <1>1, FoundIsDecided DEF RosterInv, Decided!Next
<1>2. CASE \E r \in Requests : Start(r)
  BY <1>2, StartOnlyReads, UnseenSteps DEF Documents, Bans, Unseen
<1>3. CASE \E r \in Requests : Continue(r)
  BY <1>3, HandlerDecides
<1>4. CASE UNCHANGED vars
  BY <1>4, UnseenSteps DEF vars, Unseen
<1>5. QED
  BY <1>1, <1>2, <1>3, <1>4 DEF Next

LEMMA RosterBegins == Init => Decided!Init
BY DEF Init, Decided!Init, States, Roster, BansInForce

(* With one request at a time, every handler is one step of ServerRoster: a  *)
(* join, a leave, a kick, a ban, an unban, a role, a transfer or a removal,  *)
(* by somebody who has the role for it when it is written and not only when  *)
(* the handler checked it; the other steps change neither who is in a        *)
(* server, nor a role, nor a ban in force.                                   *)
THEOREM RequestsAreDecisions ==
  ASSUME OneAtATime
  PROVE  Spec => FollowsRoster
<1>1. RosterInv /\ [Next]_vars => [Decided!Next]_<<States, Roster, BansInForce>>
  BY StepDecides DEF Unseen
<1>2. QED
  BY <1>1, RosterBegins, RosterAlways, PTL
     DEF Spec, FollowsRoster, Decided!Spec, Decided!vars
=============================================================================
