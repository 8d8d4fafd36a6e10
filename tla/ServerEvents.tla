------------------------------- MODULE ServerEvents -------------------------------
(***************************************************************************)
(* The rooms of ServerEventsGateway: a socket identifies, enters the room  *)
(* of one server at a time, and the room is told who comes and who goes.   *)
(* A handler takes a step per answer it awaits from MongoDB.               *)
(***************************************************************************)
EXTENDS Integers, FiniteSets

CONSTANTS
  Sockets, Users, Servers,
  Events,      \* events in flight
  MaxSockets,  \* bounds how many connections are opened
  None

VARIABLES
  online,      \* sockets that are connected
  userId,      \* client.data.userId, None before the identity
  rooms,       \* the server rooms a socket is in
  tracked,     \* client.data.servers: the servers it has ever entered
  event,       \* event[e]: a handler that awaits an answer
  listed,      \* <<user, server>>: the room was last told that the user came
  untrue,      \* history: pairs of which the room was last told an untruth
  opened       \* history: connections opened

eventsVars == <<online, userId, rooms, tracked, event, listed, untrue, opened>>

Event == [kind : {"identity", "join", "joined"}, sock : Sockets,
          user : Users, server : Servers \cup {None}]

EventsTypeOK ==
  /\ online \subseteq Sockets
  /\ userId \in [Sockets -> Users \cup {None}]
  /\ rooms \in [Sockets -> SUBSET Servers] /\ tracked \in [Sockets -> SUBSET Servers]
  /\ event \in [Events -> Event \cup {None}]
  /\ listed \subseteq Users \X Servers /\ untrue \subseteq Users \X Servers
  /\ opened \in 0 .. MaxSockets

EventsInit ==
  /\ online = {}
  /\ userId = [s \in Sockets |-> None]
  /\ rooms = [s \in Sockets |-> {}] /\ tracked = [s \in Sockets |-> {}]
  /\ event = [e \in Events |-> None]
  /\ listed = {} /\ untrue = {}
  /\ opened = 0

InRoom(user, sockRooms) ==
  {<<user[s], v>> : s \in online, v \in Servers} \cap
    UNION {{<<user[s], v>> : v \in sockRooms[s]} : s \in online}

(* The rooms are told that the pairs in came have come and those in went     *)
(* have gone, while the pairs in there are the truth; of the unsaid ones     *)
(* nothing is told though something changed.                                 *)
TellOf(came, went, there, unsaid) ==
  /\ listed' = (listed \cup came) \ went
  /\ untrue' = (untrue \ (came \cup went)) \cup (came \ there) \cup (went \cap there)
                                           \cup unsaid
Tell(came, went, there) == TellOf(came, went, there, {})

-----------------------------------------------------------------------------
HandleConnection(s) ==
  /\ s \notin online /\ opened < MaxSockets
  /\ \A e \in Events : event[e] # None => event[e].sock # s
  /\ online' = online \cup {s} /\ opened' = opened + 1
  /\ userId' = [userId EXCEPT ![s] = None]
  /\ tracked' = [tracked EXCEPT ![s] = {}]
  /\ rooms' = [rooms EXCEPT ![s] = {}]
  /\ UNCHANGED <<event, listed, untrue>>

Await(e, kind, s, u, v) ==
  /\ event[e] = None /\ s \in online
  /\ event' = [event EXCEPT ![e] = [kind |-> kind, sock |-> s, user |-> u, server |-> v]]
  /\ UNCHANGED <<online, userId, rooms, tracked, listed, untrue, opened>>

HandleIdentity(e, s, u) == Await(e, "identity", s, u, None)
(* Faulty: the socket for the server.                                        *)
HandleJoinSwapped(e, s, v) == userId[s] # None /\ Await(e, "join", s, userId[s], s)

HandleJoinServer(e, s, v) == userId[s] # None /\ Await(e, "join", s, userId[s], v)

(* The user exists: the socket is theirs, in whichever rooms it already is.  *)
Identified(e) ==
  LET s == event[e].sock IN
  /\ event[e] # None /\ event[e].kind = "identity"
  /\ userId' = [userId EXCEPT ![s] = event[e].user]
  /\ untrue' = IF userId[s] \in {None, event[e].user} THEN untrue
               ELSE untrue \cup {<<u, v>> : u \in {userId[s], event[e].user}, v \in tracked[s]}
  /\ event' = [event EXCEPT ![e] = None]
  /\ UNCHANGED <<online, rooms, tracked, listed, opened>>

(* No such user, or not a member: for the membership application to say.     *)
Refuse(e) ==
  /\ event[e] # None /\ event[e].kind \in {"identity", "join"}
  /\ event' = [event EXCEPT ![e] = None]
  /\ UNCHANGED <<online, userId, rooms, tracked, listed, untrue, opened>>

(* A member's socket leaves the other server rooms, each of which is told,   *)
(* and enters this one.                                                      *)
JoinChecked(e) ==
  LET s == event[e].sock  u == event[e].user  v == event[e].server
      left == rooms[s] \ {v}
      entered == [rooms EXCEPT ![s] = (rooms[s] \ left) \cup {v}]
  IN
  /\ event[e] # None /\ event[e].kind = "join"
  /\ rooms' = entered
  /\ tracked' = [tracked EXCEPT ![s] = @ \cup {v}]
  /\ TellOf({}, {<<u, w>> : w \in left}, InRoom(userId, entered),
            IF userId[s] = u THEN {} ELSE {<<userId[s], w>> : w \in left \cup {v}})
  /\ event' = [event EXCEPT ![e].kind = "joined"]
  /\ UNCHANGED <<online, userId, opened>>

(* notifyMemberJoined has read the user's profile: the room is told.         *)
AnnounceJoined(e) ==
  /\ event[e] # None /\ event[e].kind = "joined"
  /\ Tell({<<event[e].user, event[e].server>>}, {}, InRoom(userId, rooms))
  /\ event' = [event EXCEPT ![e] = None]
  /\ UNCHANGED <<online, userId, rooms, tracked, opened>>

(* Faulty: the rooms to tell are those the socket is still in, which is none.*)
HandleDisconnectSilent(s) ==
  /\ s \in online
  /\ online' = online \ {s}
  /\ rooms' = [rooms EXCEPT ![s] = {}]
  /\ UNCHANGED <<userId, tracked, event, listed, untrue, opened>>

(* socket.io takes the socket out of its rooms, and every server it has ever *)
(* entered is told that its user has gone.                                   *)
HandleDisconnect(s) ==
  /\ s \in online
  /\ online' = online \ {s}
  /\ rooms' = [rooms EXCEPT ![s] = {}]
  /\ IF userId[s] = None THEN UNCHANGED <<listed, untrue>>
     ELSE Tell({}, {<<userId[s], v>> : v \in tracked[s]},
               InRoom(userId, [rooms EXCEPT ![s] = {}]))
  /\ UNCHANGED <<userId, tracked, event, opened>>

EventsNext ==
  \/ \E s \in Sockets : HandleConnection(s) \/ HandleDisconnect(s)
  \/ \E e \in Events :
       \/ \E s \in Sockets :
            \/ \E u \in Users : HandleIdentity(e, s, u)
            \/ \E v \in Servers : HandleJoinServer(e, s, v)
       \/ Identified(e) \/ Refuse(e) \/ JoinChecked(e) \/ AnnounceJoined(e)

-----------------------------------------------------------------------------
(* member:joined and member:left: what a room was last told of a user is     *)
(* what the sockets say, unless it was untrue when it was told (the profile  *)
(* read of a join outlived the visit, or another device stayed) or a socket  *)
(* changed its user.                                                         *)
RoomsKnowWhoIsThere ==
  \A p \in (Users \X Servers) \ untrue :
    (\A e \in Events : event[e] # None /\ event[e].kind = "joined"
                         => <<event[e].user, event[e].server>> # p)
    => (p \in listed <=> p \in InRoom(userId, rooms))
=============================================================================
