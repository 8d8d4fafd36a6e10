--------------------------------- MODULE MessageEvents ---------------------------------
(***************************************************************************)
(* What the open clients are shown of messages: ChatGateway tells a        *)
(* server's room, DirectMessageGateway the rooms of the two users.  A      *)
(* handler has the message written (MessageWrites has the caches of that), *)
(* looks up where to tell it and by whom it is, and broadcasts.            *)
(***************************************************************************)
EXTENDS Integers, FiniteSets

CONSTANTS
  Gateways,  \* a subset of {"channel", "direct"}
  Sockets, Users, Servers, Messages,
  Parties,   \* the two users of the direct conversation
  Handlers,  \* events in flight
  MaxText,   \* bounds how often a message is edited
  None

VARIABLES
  gateway,     \* which of the two this is
  meta,        \* meta[s]: userDehiveId, None before the identity
  rooms,       \* the rooms a connected socket is in
  stored,      \* stored[m]: the document, None when there is none
  handler,     \* handler[h]: an event in flight
  shown,       \* shown[s][m]: what the client of s was last shown of m
  home,        \* home[m]: the server whose channel m is in
  overtaken    \* history: messages rewritten behind a payload, or never told

gatewayVars == <<gateway, meta, rooms, stored, handler, shown, home, overtaken>>

Text == [text : 0 .. MaxText, gone : BOOLEAN]
Handler == [op : {"send", "edit", "delete"}, step : {"save", "reread", "locate", "tell"},
            msg : Messages, doc : Text]

MessageEventsTypeOK ==
  /\ gateway \in Gateways
  /\ meta \in [Sockets -> Users \cup {None}]
  /\ rooms \in [Sockets -> SUBSET (Users \cup Servers)]
  /\ stored \in [Messages -> Text \cup {None}]
  /\ handler \in [Handlers -> Handler \cup {None}]
  /\ shown \in [Sockets -> [Messages -> Text \cup {None}]]
  /\ home \in [Messages -> Servers]
  /\ overtaken \subseteq Messages

MessageEventsInit ==
  /\ gateway \in Gateways
  /\ meta = [s \in Sockets |-> None] /\ rooms = [s \in Sockets |-> {}]
  /\ stored = [m \in Messages |-> None]
  /\ handler = [h \in Handlers |-> None]
  /\ shown = [s \in Sockets |-> [m \in Messages |-> None]]
  /\ home \in [Messages -> Servers]
  /\ overtaken = {}

Audience(m) == IF gateway = "channel" THEN {home[m]} ELSE Parties
Hears(s, m) == rooms[s] \cap Audience(m) # {}

(* A client that enters a room lists its messages, and shows those.          *)
Enter(s, entered) ==
  /\ rooms' = [rooms EXCEPT ![s] = entered]
  /\ shown' = [shown EXCEPT ![s] =
       [m \in Messages |-> IF entered \cap Audience(m) # {} THEN stored[m] ELSE None]]

-----------------------------------------------------------------------------
ChannelIdentity(s, u) ==
  /\ gateway = "channel"
  /\ meta' = [meta EXCEPT ![s] = u]
  /\ UNCHANGED <<gateway, rooms, stored, handler, shown, home, overtaken>>

(* A direct socket is put in its user's room, and stays in earlier ones.     *)
DirectIdentity(s, u) ==
  /\ gateway = "direct"
  /\ meta' = [meta EXCEPT ![s] = u]
  /\ Enter(s, rooms[s] \cup {u})
  /\ UNCHANGED <<gateway, stored, handler, home, overtaken>>

HandleJoinServer(s, v) ==
  /\ gateway = "channel" /\ meta[s] # None
  /\ Enter(s, {v})
  /\ UNCHANGED <<gateway, meta, stored, handler, home, overtaken>>

(* Another connection of the client is another socket: Sockets is reused.    *)
HandleDisconnect(s) ==
  /\ meta[s] # None
  /\ meta' = [meta EXCEPT ![s] = None]
  /\ Enter(s, {})
  /\ UNCHANGED <<gateway, stored, handler, home, overtaken>>

-----------------------------------------------------------------------------
HandlerAt(h, step) == handler[h] # None /\ handler[h].step = step
Begin(h, op, m, step, doc) ==
  /\ handler[h] = None
  /\ handler' = [handler EXCEPT ![h] = [op |-> op, step |-> step, msg |-> m, doc |-> doc]]

(* The sender has identified; a direct one is of the two.                    *)
SomeAuthor == \E s \in Sockets : meta[s] # None /\ (gateway = "direct" => meta[s] \in Parties)

(* The document is inserted, and read back with what it replies to.          *)
Insert(h, m) ==
  LET new == [text |-> 0, gone |-> FALSE] IN
  /\ SomeAuthor
  /\ stored[m] = None /\ stored' = [stored EXCEPT ![m] = new]
  /\ Begin(h, "send", m, "reread", new)
  /\ UNCHANGED <<gateway, meta, rooms, shown, home, overtaken>>

HandleMessage(h, m) == gateway = "channel" /\ Insert(h, m)
HandleSendMessage(h, m) == gateway = "direct" /\ Insert(h, m)

(* The message is read and the write prepared on it.                         *)
Prepare(h, op, m, doc) ==
  /\ SomeAuthor /\ stored[m] # None
  /\ Begin(h, op, m, "save", doc)
  /\ UNCHANGED <<gateway, meta, rooms, stored, shown, home, overtaken>>

ChannelEdit(h, m, text) ==
  gateway = "channel" /\ Prepare(h, "edit", m, [stored[m] EXCEPT !.text = text])
ChannelDelete(h, m) ==
  gateway = "channel" /\ Prepare(h, "delete", m, [text |-> 0, gone |-> TRUE])

(* The direct service refuses to edit a deleted message, and answers a       *)
(* second delete with the document as it is.                                 *)
DirectEdit(h, m, text) ==
  /\ gateway = "direct" /\ stored[m] # None /\ ~stored[m].gone
  /\ Prepare(h, "edit", m, [stored[m] EXCEPT !.text = text])
DirectDelete(h, m) ==
  /\ gateway = "direct" /\ stored[m] # None
  /\ IF ~stored[m].gone
     THEN Prepare(h, "delete", m, [text |-> 0, gone |-> TRUE])
     ELSE /\ SomeAuthor
          /\ Begin(h, "delete", m, "locate", stored[m])
          /\ UNCHANGED <<gateway, meta, rooms, stored, shown, home, overtaken>>

(* The other handlers that have read m, and will tell what they have read.   *)
HasRead(h, m) ==
  /\ handler[h] # None /\ handler[h].msg = m
  /\ handler[h].step \in IF gateway = "channel" THEN {"locate", "tell"}
                          ELSE {"save", "locate", "tell"}

(* save() writes the fields that were set; the channel service then reads    *)
(* the document again, the direct one answers with the one it holds.         *)
SaveWrite(h) ==
  LET m == handler[h].msg  doc == handler[h].doc IN
  /\ HandlerAt(h, "save")
  /\ stored' = [stored EXCEPT ![m].text = doc.text, ![m].gone = @ \/ doc.gone]
  /\ handler' = [handler EXCEPT ![h].step = IF gateway = "channel" THEN "reread" ELSE "locate"]
  /\ overtaken' = IF \E g \in Handlers \ {h} : HasRead(g, m) THEN overtaken \cup {m}
                  ELSE overtaken
  /\ UNCHANGED <<gateway, meta, rooms, shown, home>>

(* Faulty: the service answers with the document it holds.                   *)
RereadNothing(h) ==
  /\ HandlerAt(h, "reread")
  /\ handler' = [handler EXCEPT ![h].step = "locate"]
  /\ UNCHANGED <<gateway, meta, rooms, stored, shown, home, overtaken>>

Reread(h) ==
  /\ HandlerAt(h, "reread")
  /\ handler' = [handler EXCEPT ![h].step = "locate", ![h].doc = stored[handler[h].msg]]
  /\ UNCHANGED <<gateway, meta, rooms, stored, shown, home, overtaken>>

(* The channel and its category, or the conversation, and the profile.       *)
Locate(h) ==
  /\ HandlerAt(h, "locate")
  /\ handler' = [handler EXCEPT ![h].step = "tell"]
  /\ UNCHANGED <<gateway, meta, rooms, stored, shown, home, overtaken>>

(* They are gone, the profile is not cached (channels), MongoDB or the       *)
(* process fails: the write stays, and the room is not told of it.           *)
NeverTold(h) ==
  /\ handler[h] # None /\ handler[h].step # "save"
  /\ handler' = [handler EXCEPT ![h] = None]
  /\ overtaken' = overtaken \cup {handler[h].msg}
  /\ UNCHANGED <<gateway, meta, rooms, stored, shown, home>>

(* messageDeleted says isDeleted whatever the document says.                 *)
Payload(h) == [handler[h].doc EXCEPT !.gone = @ \/ handler[h].op = "delete"]

(* newMessage, messageEdited, messageDeleted.                                *)
Tell(h) ==
  LET m == handler[h].msg IN
  /\ HandlerAt(h, "tell")
  /\ shown' = [s \in Sockets |->
       IF Hears(s, m) THEN [shown[s] EXCEPT ![m] = Payload(h)] ELSE shown[s]]
  /\ handler' = [handler EXCEPT ![h] = None]
  /\ UNCHANGED <<gateway, meta, rooms, stored, home, overtaken>>

MessageEventsNext ==
  \/ \E s \in Sockets :
       \/ \E u \in Users : ChannelIdentity(s, u) \/ DirectIdentity(s, u)
       \/ \E v \in Servers : HandleJoinServer(s, v)
       \/ HandleDisconnect(s)
  \/ \E h \in Handlers :
       \/ \E m \in Messages :
            \/ HandleMessage(h, m) \/ HandleSendMessage(h, m)
            \/ ChannelDelete(h, m) \/ DirectDelete(h, m)
            \/ \E t \in 1 .. MaxText : ChannelEdit(h, m, t) \/ DirectEdit(h, m, t)
       \/ SaveWrite(h) \/ Reread(h) \/ Locate(h) \/ NeverTold(h) \/ Tell(h)

-----------------------------------------------------------------------------
(* handleMessage, handleEditMessage, handleDeleteMessage: an open client of  *)
(* the room shows what is stored, once nobody has yet to tell of a write,    *)
(* however the handlers of both overlapped; excepted are a write behind the  *)
(* back of a payload already read, and one whose broadcast failed.           *)
ViewersAgree ==
  \A m \in Messages \ overtaken :
    (\A h \in Handlers : handler[h] # None /\ handler[h].msg = m => handler[h].step = "save")
    => \A s \in Sockets : Hears(s, m) => shown[s][m] = stored[m]
=============================================================================
