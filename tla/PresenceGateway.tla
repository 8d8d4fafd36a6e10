------------------------------- MODULE PresenceGateway -------------------------------
(***************************************************************************)
(* Who is online: UserStatusGateway's sockets and the two places           *)
(* setUserOnline and setUserOffline write a status to, the user_statuses   *)
(* document and then the key user:status:<id> in redis.  An identity event *)
(* takes one of three ways, and a handler takes a step per await.          *)
(***************************************************************************)
EXTENDS Integers, FiniteSets

CONSTANTS
  Users, Sockets,
  Account,      \* Account[s]: the user who identifies on s
  Handlers,     \* identity and disconnect events in flight
  MaxEvents,    \* bounds the connections and identity events
  MaxRestarts,  \* bounds how often the process is restarted
  None

ASSUME PresenceAssumption ==
  /\ Account \in [Sockets -> Users]
  /\ MaxEvents \in Nat /\ MaxRestarts \in Nat

VARIABLES
  open,        \* sockets that are connected
  meta,        \* meta[s]: the user s is identified as, "nobody" or None
  mongo,       \* mongo[u]: status in user_statuses, None before the first
  hot,         \* hot[u]: status in user:status:<u>, None when expired
  identifying, \* identifyInProgress[u]: the handler of the full identify
  recent,      \* users with a lastIdentifyTime, which may be 3 s ago or more
  handler,     \* handler[h]: an event in flight
  unsure,      \* history: users with no event since that ran alone and ended
  events, restarts  \* history: connections and identity events, restarts

presenceVars == <<open, meta, mongo, hot, identifying, recent, handler,
                  unsure, events, restarts>>

Status == {"online", "offline"}
Handler == [step : {"reuse", "creds", "mongo", "hot", "tell", "close"},
            way : {"full", "fast", "reuse", "left"},
            sock : Sockets, user : Users,
            awaits : Handlers \cup {None}]

PresenceTypeOK ==
  /\ open \subseteq Sockets
  /\ meta \in [Sockets -> Users \cup {"nobody", None}]
  /\ mongo \in [Users -> Status \cup {None}]
  /\ hot \in [Users -> Status \cup {None}]
  /\ identifying \in [Users -> Handlers \cup {None}]
  /\ recent \subseteq Users
  /\ handler \in [Handlers -> Handler \cup {None}]
  /\ unsure \subseteq Users
  /\ events \in 0 .. MaxEvents /\ restarts \in 0 .. MaxRestarts

PresenceInit ==
  /\ open = {}
  /\ meta = [s \in Sockets |-> None]
  /\ mongo = [u \in Users |-> None] /\ hot = [u \in Users |-> None]
  /\ identifying = [u \in Users |-> None]
  /\ recent = {}
  /\ handler = [h \in Handlers |-> None]
  /\ unsure = {}
  /\ events = 0 /\ restarts = 0

HandlerAt(h, step) == handler[h] # None /\ handler[h].step = step
Handling(u) == {h \in Handlers : handler[h] # None /\ handler[h].user = u}
SocketsOf(u) == {s \in open : meta[s] = u}

(* An event of u that meets no other event of u settles the status of u.     *)
Meets(u, others) ==
  unsure' = IF Handling(u) = {} /\ others = {} THEN unsure \ {u} ELSE unsure \cup {u}

Start(h, step, way, s, other) ==
  handler' = [handler EXCEPT ![h] =
    [step |-> step, way |-> way, sock |-> s, user |-> Account[s], awaits |-> other]]
Proceed(h, step) == handler' = [handler EXCEPT ![h].step = step]
StatusOf(h) == IF handler[h].way = "left" THEN "offline" ELSE "online"

-----------------------------------------------------------------------------
HandleConnection(s) ==
  /\ s \notin open /\ meta[s] = None /\ events < MaxEvents
  /\ \A h \in Handlers : handler[h] # None => handler[h].sock # s
  /\ open' = open \cup {s}
  /\ meta' = [meta EXCEPT ![s] = "nobody"]
  /\ events' = events + 1
  /\ UNCHANGED <<mongo, hot, identifying, recent, handler, unsure, restarts>>

(* identity: verify in full, unless a full identify of the user is running   *)
(* (wait for it) or ended less than three seconds ago (go online at once).   *)
HandleIdentity(h, s) ==
  LET u == Account[s] IN
  /\ handler[h] = None /\ s \in open /\ events < MaxEvents
  /\ events' = events + 1
  /\ Meets(u, {})
  /\ IF identifying[u] # None
     THEN /\ Start(h, "reuse", "reuse", s, identifying[u])
          /\ UNCHANGED <<meta, identifying>>
     ELSE /\ meta' = [meta EXCEPT ![s] = u]
          /\ \/ u \in recent /\ Start(h, "mongo", "fast", s, None) /\ UNCHANGED identifying
             \/ /\ Start(h, "creds", "full", s, None)
                /\ identifying' = [identifying EXCEPT ![u] = h]
  /\ UNCHANGED <<open, mongo, hot, recent, restarts>>

(* Faulty: keyed by the user.                                                *)
ReuseIdentifySwapped(h) ==
  /\ HandlerAt(h, "reuse") /\ handler[h].awaits = None
  /\ meta' = [meta EXCEPT ![handler[h].sock] = handler[h].sock]
  /\ Proceed(h, "mongo")
  /\ UNCHANGED <<open, mongo, hot, identifying, recent, unsure, events, restarts>>

(* The awaited identify has ended: the socket goes online, closed or not.    *)
ReuseIdentify(h) ==
  /\ HandlerAt(h, "reuse") /\ handler[h].awaits = None
  /\ meta' = [meta EXCEPT ![handler[h].sock] = handler[h].user]
  /\ Proceed(h, "mongo")
  /\ UNCHANGED <<open, mongo, hot, identifying, recent, unsure, events, restarts>>

(* saveFingerprintToRedis, findUserSessionFromRedis                          *)
ReadCredentials(h) ==
  /\ HandlerAt(h, "creds")
  /\ Proceed(h, "mongo")
  /\ UNCHANGED <<open, meta, mongo, hot, identifying, recent, unsure, events, restarts>>

WriteMongo(h) ==
  /\ HandlerAt(h, "mongo")
  /\ mongo' = [mongo EXCEPT ![handler[h].user] = StatusOf(h)]
  /\ Proceed(h, "hot")
  /\ UNCHANGED <<open, meta, hot, identifying, recent, unsure, events, restarts>>

WriteHot(h) ==
  /\ HandlerAt(h, "hot")
  /\ hot' = [hot EXCEPT ![handler[h].user] = StatusOf(h)]
  /\ Proceed(h, IF handler[h].way \in {"full", "left"} THEN "tell" ELSE "close")
  /\ UNCHANGED <<open, meta, mongo, identifying, recent, unsure, events, restarts>>

(* The list of who is to be told comes from another service.                 *)
TellFollowers(h) ==
  /\ HandlerAt(h, "tell")
  /\ Proceed(h, "close")
  /\ UNCHANGED <<open, meta, mongo, hot, identifying, recent, unsure, events, restarts>>

(* The identify promise of handler h settles: who waits for it goes on.      *)
Settle(h) ==
  handler' = [g \in Handlers |->
    IF g = h THEN None
    ELSE IF handler[g] # None /\ handler[g].awaits = h
         THEN [handler[g] EXCEPT !.awaits = None] ELSE handler[g]]

(* finally: identifyInProgress is deleted, whoever has set it.               *)
FinishIdentity(h) ==
  /\ HandlerAt(h, "close") /\ handler[h].way # "left"
  /\ identifying' = [identifying EXCEPT ![handler[h].user] = None]
  /\ recent' = IF handler[h].way = "full" THEN recent \cup {handler[h].user} ELSE recent
  /\ Settle(h)
  /\ UNCHANGED <<open, meta, mongo, hot, unsure, events, restarts>>

FinishDisconnect(h) ==
  /\ HandlerAt(h, "close") /\ handler[h].way = "left"
  /\ meta' = [meta EXCEPT ![handler[h].sock] = None]
  /\ Settle(h)
  /\ UNCHANGED <<open, mongo, hot, identifying, recent, unsure, events, restarts>>

(* MongoDB or redis fails in one of the two writes: an identify ends in an   *)
(* error, and the ones that wait for it with it; a disconnect goes on.       *)
StatusWriteFails(h) ==
  /\ handler[h] # None /\ handler[h].step \in {"mongo", "hot"}
  /\ unsure' = unsure \cup {handler[h].user}
  /\ IF handler[h].way = "left"
     THEN Proceed(h, "close") /\ UNCHANGED identifying
     ELSE /\ identifying' = [identifying EXCEPT ![handler[h].user] = None]
          /\ handler' = [g \in Handlers |->
               IF g = h \/ (handler[g] # None /\ handler[g].awaits = h) THEN None
               ELSE handler[g]]
  /\ UNCHANGED <<open, meta, mongo, hot, recent, events, restarts>>

(* Faulty: the entry is deleted before it is read.                           *)
HandleDisconnectForgotten(h, s) ==
  /\ handler[h] = None /\ s \in open
  /\ open' = open \ {s}
  /\ meta' = [meta EXCEPT ![s] = None]
  /\ UNCHANGED <<mongo, hot, identifying, recent, handler, unsure, events, restarts>>

(* The socket closes: a user who is identified on it is set offline, before  *)
(* the socket is forgotten and whatever other sockets the user has.          *)
HandleDisconnect(h, s) ==
  /\ handler[h] = None /\ s \in open
  /\ open' = open \ {s}
  /\ IF meta[s] \in Users
     THEN /\ Start(h, "mongo", "left", s, None)
          /\ Meets(meta[s], SocketsOf(meta[s]) \ {s})
          /\ UNCHANGED meta
     ELSE /\ meta' = [meta EXCEPT ![s] = None]
          /\ unsure' = unsure \cup {handler[g].user : g \in {g \in Handlers :
                                   handler[g] # None /\ handler[g].sock = s}}
          /\ UNCHANGED handler
  /\ UNCHANGED <<mongo, hot, identifying, recent, events, restarts>>

(* An hour after the last write, while the user is still connected.          *)
HotExpires(u) ==
  /\ hot[u] # None
  /\ hot' = [hot EXCEPT ![u] = None]
  /\ UNCHANGED <<open, meta, mongo, identifying, recent, handler, unsure, events, restarts>>

(* The process restarts: no one is set offline.                              *)
Restart ==
  /\ restarts < MaxRestarts
  /\ restarts' = restarts + 1
  /\ open' = {} /\ recent' = {}
  /\ meta' = [s \in Sockets |-> None]
  /\ identifying' = [u \in Users |-> None]
  /\ handler' = [h \in Handlers |-> None]
  /\ unsure' = Users
  /\ UNCHANGED <<mongo, hot, events>>

HandlerStep(h) ==
  \/ ReuseIdentify(h) \/ ReadCredentials(h) \/ WriteMongo(h) \/ WriteHot(h)
  \/ TellFollowers(h) \/ FinishIdentity(h) \/ FinishDisconnect(h)

PresenceStep ==
  \/ \E s \in Sockets : HandleConnection(s)
  \/ \E h \in Handlers, s \in Sockets : HandleIdentity(h, s) \/ HandleDisconnect(h, s)
  \/ \E h \in Handlers : HandlerStep(h) \/ StatusWriteFails(h)
  \/ \E u \in Users : HotExpires(u)
==========================================================================
