---------------------------------- MODULE ChannelCall ----------------------------------
(***************************************************************************)
(* Voice channels: ChannelCallService, its WebSocket gateway and its REST  *)
(* controller.  A channel has a channel_calls document that stays          *)
(* CONNECTED for ever and counts the channel's channel_participants        *)
(* documents.  No transaction ties the two collections: each await of      *)
(* joinChannel, leaveChannel and handleUserDisconnect is a step.           *)
(***************************************************************************)
EXTENDS Integers, FiniteSets, FiniteSetsExt

CONSTANTS
  Users, Channels,
  Calls,     \* ids of channel_calls documents; bounds how many are created
  Places,    \* ids of channel_participants documents stored at a time
  Sockets,   \* connections of the gateway
  Account,   \* Account[s]: the user who logs in on socket s
  Tasks,     \* service calls in flight
  RestUsers, \* users who also call the REST controller
  Crossed,   \* may an event be handled while another one is in flight?
  MaxDrift,  \* bounds how far below zero a count goes before no one joins
  None       \* no document, channel, socket or service call

ASSUME ChannelAssumption ==
  /\ Account \in [Sockets -> Users]
  /\ RestUsers \subseteq Users
  /\ Crossed \in BOOLEAN
  /\ MaxDrift \in Nat
  /\ Calls \cap Channels = {}  \* ObjectIds of different documents
  /\ None \notin Channels \cup Calls \cup Places \cup Sockets

VARIABLES
  voice,  \* voice[c]: channel_id and current_participants of document c
  part,   \* part[p]: channel_id and user_id of participant document p
  meta,   \* meta[s]: the SocketMeta of s; serverId is only set or not
  task    \* task[t]: a service call in flight, with what it has read

vars == <<voice, part, meta, task>>

Voice == [channel : Channels, count : Int]
Participant == [channel : Channels, user : Users]
Meta == [state : {"closed", "open", "identified", "joined"},
         channelId : Channels \cup {None}]
Task == [step : {"find", "create", "look", "insert", "count",  \* joinChannel
                 "leave", "delete", "uncount",                 \* leaveChannel
                 "list", "sweep", "drop"},                     \* disconnect
         user : Users, channel : Channels \cup {None},
         next : Channels \cup {None},   \* joined after the one that is left
         sock : Sockets \cup {None},
         call : Calls \cup {None}, part : Places \cup {None},
         rest : SUBSET (Places \X Channels)]

ASSUME NoneAssumption == None \notin Voice /\ None \notin Participant /\ None \notin Task

TypeOK ==
  /\ voice \in [Calls -> Voice \cup {None}]
  /\ part \in [Places -> Participant \cup {None}]
  /\ meta \in [Sockets -> Meta]
  /\ task \in [Tasks -> Task \cup {None}]

Closed == [state |-> "closed", channelId |-> None]

Init ==
  /\ voice = [c \in Calls |-> None]
  /\ part = [p \in Places |-> None]
  /\ meta = [s \in Sockets |-> Closed]
  /\ task = [t \in Tasks |-> None]

-----------------------------------------------------------------------------
Busy == {t \in Tasks : task[t] # None}
Quiet == Busy = {}

CallsOf(ch) == {c \in Calls : voice[c] # None /\ voice[c].channel = ch}
PartsIn(ch) == {p \in Places : part[p] # None /\ part[p].channel = ch}
PartsOf(ch, u) == {p \in PartsIn(ch) : part[p].user = u}

(* A document inserted now is none of those a service call remembers.        *)
FreshPlaces ==
  {p \in Places : part[p] = None /\ \A t \in Busy :
     task[t].part # p /\ \A ch \in Channels : <<p, ch>> \notin task[t].rest}

At(t, step) == task[t] # None /\ task[t].step = step

Call(step, u, ch, next, s) ==
  [step |-> step, user |-> u, channel |-> ch, next |-> next, sock |-> s,
   call |-> None, part |-> None, rest |-> {}]

Begin(t, h) ==
  /\ Crossed \/ Quiet
  /\ task[t] = None
  /\ task' = [task EXCEPT ![t] = h]

DriftBounded == \A c \in Calls : voice[c] # None => voice[c].count >= -MaxDrift

Goto(t, step) == task' = [task EXCEPT ![t].step = step]
Finish(t) == task' = [task EXCEPT ![t] = None]

(* What the gateway does when the service call returns; a socket that is     *)
(* closed has lost its entry.                                                *)
SetChannel(t, ch) ==
  LET s == task[t].sock IN
  meta' = IF s = None \/ meta[s].state = "closed" THEN meta
          ELSE [meta EXCEPT ![s].channelId = ch]

-----------------------------------------------------------------------------
HandleConnection(s) ==
  /\ meta[s].state = "closed"
  /\ \A t \in Busy : task[t].sock # s  \* a new connection is a new socket
  /\ meta' = [meta EXCEPT ![s].state = "open"]
  /\ UNCHANGED <<voice, part, task>>

HandleIdentity(s) ==
  /\ meta[s].state = "open"
  /\ meta' = [meta EXCEPT ![s].state = "identified"]
  /\ UNCHANGED <<voice, part, task>>

HandleJoinServer(s) ==
  /\ meta[s].state = "identified"
  /\ meta' = [meta EXCEPT ![s].state = "joined"]
  /\ UNCHANGED <<voice, part, task>>

(* The previous channel of the socket is left before the new one is joined.  *)
HandleJoinChannel(t, s, ch) ==
  LET old == meta[s].channelId
      u == Account[s] IN
  /\ meta[s].state = "joined"
  /\ DriftBounded
  /\ Begin(t, IF old \in {None, ch} THEN Call("find", u, ch, None, s)
                                    ELSE Call("leave", u, old, ch, s))
  /\ UNCHANGED <<voice, part, meta>>

HandleLeaveChannel(t, s, ch) ==
  /\ meta[s].state \in {"identified", "joined"}
  /\ Begin(t, Call("leave", Account[s], ch, None, s))
  /\ UNCHANGED <<voice, part, meta>>

(* The service call is not awaited: the entry is deleted at once.            *)
HandleDisconnect(t, s) ==
  LET ch == meta[s].channelId IN
  /\ meta[s].state \in {"identified", "joined"}
  /\ Begin(t, Call(IF ch = None THEN "list" ELSE "drop", Account[s], ch,
                   None, None))
  /\ meta' = [meta EXCEPT ![s] = Closed]
  /\ UNCHANGED <<voice, part>>

DisconnectAnonymous(s) ==
  /\ meta[s].state = "open"
  /\ meta' = [meta EXCEPT ![s] = Closed]
  /\ UNCHANGED <<voice, part, task>>

RestJoin(t, u, ch) ==
  /\ u \in RestUsers
  /\ DriftBounded
  /\ Begin(t, Call("find", u, ch, None, None))
  /\ UNCHANGED <<voice, part, meta>>

RestLeave(t, u, ch) ==
  /\ u \in RestUsers
  /\ Begin(t, Call("leave", u, ch, None, None))
  /\ UNCHANGED <<voice, part, meta>>

-----------------------------------------------------------------------------
(* joinChannel: the call found or created, no participant yet, the           *)
(* participant saved, the count incremented.                                 *)
JoinFind(t) ==
  LET found == CallsOf(task[t].channel) IN
  /\ At(t, "find")
  /\ IF found = {} THEN Goto(t, "create")
     ELSE \E c \in found :
            task' = [task EXCEPT ![t] = [@ EXCEPT !.step = "look", !.call = c]]
  /\ UNCHANGED <<voice, part, meta>>

(* Faulty: the document is created for its first participant and says 1.     *)
JoinCreateOne(t) ==
  /\ At(t, "create")
  /\ \E c \in {d \in Calls : voice[d] = None} :
       /\ voice' = [voice EXCEPT ![c] = [channel |-> task[t].channel, count |-> 1]]
       /\ task' = [task EXCEPT ![t] = [@ EXCEPT !.step = "look", !.call = c]]
  /\ UNCHANGED <<part, meta>>

JoinCreate(t) ==
  /\ At(t, "create")
  /\ \E c \in {d \in Calls : voice[d] = None} :
       /\ voice' = [voice EXCEPT ![c] = [channel |-> task[t].channel, count |-> 0]]
       /\ task' = [task EXCEPT ![t] = [@ EXCEPT !.step = "look", !.call = c]]
  /\ UNCHANGED <<part, meta>>

(* Faulty: the existing participant is not looked for.                       *)
JoinLookBlind(t) ==
  /\ At(t, "look")
  /\ Goto(t, "insert")
  /\ UNCHANGED <<voice, part, meta>>

(* Faulty: the participant found is counted once more.                       *)
JoinLookCounts(t) ==
  /\ At(t, "look")
  /\ Goto(t, IF PartsOf(task[t].channel, task[t].user) = {} THEN "insert" ELSE "count")
  /\ UNCHANGED <<voice, part, meta>>

JoinLook(t) ==
  /\ At(t, "look")
  /\ IF PartsOf(task[t].channel, task[t].user) = {}
     THEN Goto(t, "insert") /\ UNCHANGED meta
     ELSE Finish(t) /\ SetChannel(t, task[t].channel)
  /\ UNCHANGED <<voice, part>>

JoinInsert(t) ==
  /\ At(t, "insert")
  /\ \E p \in FreshPlaces :
       part' = [part EXCEPT ![p] = [channel |-> task[t].channel,
                                    user |-> task[t].user]]
  /\ Goto(t, "count")
  /\ UNCHANGED <<voice, meta>>

JoinCount(t) ==
  /\ At(t, "count")
  /\ voice' = [voice EXCEPT ![task[t].call].count = @ + 1]
  /\ Finish(t)
  /\ SetChannel(t, task[t].channel)
  /\ UNCHANGED part

(* leaveChannel: the call and the participant found, the participant deleted *)
(* by id if it is still there, the count decremented in any case.            *)
LeaveFind(t) ==
  /\ At(t, "leave")
  /\ \E c \in CallsOf(task[t].channel), p \in PartsOf(task[t].channel, task[t].user) :
       task' = [task EXCEPT ![t] =
                  [@ EXCEPT !.step = "delete", !.call = c, !.part = p]]
  /\ UNCHANGED <<voice, part, meta>>

(* A NotFoundException: nothing is joined either, and channelId stays.       *)
LeaveNotFound(t) ==
  /\ At(t, "leave")
  /\ CallsOf(task[t].channel) = {} \/ PartsOf(task[t].channel, task[t].user) = {}
  /\ Finish(t)
  /\ UNCHANGED <<voice, part, meta>>

Delete(t) ==
  /\ At(t, "delete")
  /\ part' = [part EXCEPT ![task[t].part] = None]
  /\ task' = [task EXCEPT ![t] = [@ EXCEPT !.step = "uncount", !.part = None]]
  /\ UNCHANGED <<voice, meta>>

(* Faulty: the entry of the socket keeps the channel.                        *)
UncountKeeping(t) ==
  LET h == task[t] IN
  /\ At(t, "uncount")
  /\ voice' = [voice EXCEPT ![h.call].count = @ - 1]
  /\ IF h.channel = None THEN Goto(t, "sweep")
     ELSE IF h.next = None THEN Finish(t)
     ELSE task' = [task EXCEPT ![t] = Call("find", h.user, h.next, None, h.sock)]
  /\ UNCHANGED <<part, meta>>

(* Then the new channel is joined, the next document swept, or all is done.  *)
Uncount(t) ==
  LET h == task[t] IN
  /\ At(t, "uncount")
  /\ voice' = [voice EXCEPT ![h.call].count = @ - 1]
  /\ IF h.channel = None
     THEN Goto(t, "sweep") /\ UNCHANGED meta
     ELSE IF h.next # None
     THEN /\ task' = [task EXCEPT ![t] = Call("find", h.user, h.next, None, h.sock)]
          /\ UNCHANGED meta
     ELSE Finish(t) /\ SetChannel(t, None)
  /\ UNCHANGED part

(* handleUserDisconnect with a channel looks among the participants for one  *)
(* whose channel_id is the id of the call document.                          *)
Drop(t) ==
  /\ At(t, "drop")
  /\ IF \E c \in CallsOf(task[t].channel) : PartsOf(c, task[t].user) # {}
     THEN \E c \in CallsOf(task[t].channel) : \E p \in PartsOf(c, task[t].user) :
            task' = [task EXCEPT ![t] =
                       [@ EXCEPT !.step = "delete", !.call = c, !.part = p]]
     ELSE Finish(t)
  /\ UNCHANGED <<voice, part, meta>>

(* Without one it lists the user's participants and takes them one by one.   *)
SweepList(t) ==
  /\ At(t, "list")
  /\ task' = [task EXCEPT ![t] = [@ EXCEPT !.step = "sweep", !.rest =
       {x \in Places \X Channels : x[1] \in PartsOf(x[2], task[t].user)}]]
  /\ UNCHANGED <<voice, part, meta>>

SweepOne(t) ==
  /\ At(t, "sweep")
  /\ \E x \in task[t].rest : \E c \in CallsOf(x[2]) :
       task' = [task EXCEPT ![t] = [@ EXCEPT !.step = "delete", !.call = c, !.part = x[1],
                                             !.rest = task[t].rest \ {x}]]
  /\ UNCHANGED <<voice, part, meta>>

SweepEnd(t) ==
  /\ At(t, "sweep") /\ task[t].rest = {}
  /\ Finish(t)
  /\ UNCHANGED <<voice, part, meta>>

-----------------------------------------------------------------------------
Handle(t) ==
  \/ \E s \in Sockets, ch \in Channels :
       HandleJoinChannel(t, s, ch) \/ HandleLeaveChannel(t, s, ch)
  \/ \E s \in Sockets : HandleDisconnect(t, s)
  \/ \E u \in Users, ch \in Channels : RestJoin(t, u, ch) \/ RestLeave(t, u, ch)

Proceed(t) ==
  \/ JoinFind(t) \/ JoinCreate(t) \/ JoinLook(t) \/ JoinInsert(t) \/ JoinCount(t)
  \/ LeaveFind(t) \/ LeaveNotFound(t) \/ Delete(t) \/ Uncount(t)
  \/ Drop(t) \/ SweepList(t) \/ SweepOne(t) \/ SweepEnd(t)

Next ==
  \/ \E s \in Sockets :
       \/ HandleConnection(s) \/ HandleIdentity(s)
       \/ HandleJoinServer(s) \/ DisconnectAnonymous(s)
  \/ \E t \in Tasks : Handle(t) \/ Proceed(t)

Spec == Init /\ [][Next]_vars

-----------------------------------------------------------------------------
Counted(ch) == MapThenSumSet(LAMBDA c : voice[c].count, CallsOf(ch))
Gone(u) == \A s \in Sockets : Account[s] = u => meta[s].state = "closed"

(* When nothing is in flight, current_participants is the number of the      *)
(* channel's participants: what joinChannel, leaveChannel and                *)
(* handleUserDisconnect maintain with $inc when they run one at a time.      *)
CountsMatch == Quiet => \A ch \in Channels : Counted(ch) = Cardinality(PartsIn(ch))

(* A user has at most one participant in a channel, and a channel at most    *)
(* one CONNECTED call: no index says so, only the look-ups of joinChannel.   *)
NoDoubles ==
  \A ch \in Channels :
    /\ Cardinality(CallsOf(ch)) <= 1
    /\ \A u \in Users : Cardinality(PartsOf(ch, u)) <= 1

(* When nothing is in flight, a socket that holds a channel belongs to a     *)
(* participant of it: the auto-leave of handleJoinChannel throws otherwise,  *)
(* and the socket can never join another channel.                            *)
MetaIsTrue ==
  Quiet => \A s \in Sockets :
    meta[s].channelId # None => PartsOf(meta[s].channelId, Account[s]) # {}

(* However the events overlap, a channel's counts never add up to more than  *)
(* its participants: a participant is stored before it is counted, and two   *)
(* leaves of one participant both subtract.                                  *)
NeverOvercounted ==
  Quiet => \A ch \in Channels : Counted(ch) <= Cardinality(PartsIn(ch))

(* A user all of whose sockets have disconnected is in no channel: what      *)
(* handleUserDisconnect is called for.                                       *)
GhostsLeave ==
  Quiet => \A u \in Users : Gone(u) => \A ch \in Channels : PartsOf(ch, u) = {}
============================================================================
