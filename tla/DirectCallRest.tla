-------------------------------- MODULE DirectCallRest --------------------------------
(***************************************************************************)
(* DirectCallService, the REST side of direct calls: start, accept,        *)
(* decline and end work on RINGING calls of their own, in the same         *)
(* dm_calls collection as the gateway.  Each request reads, decides, and   *)
(* saves in a later step.  The redis entry call:<id> is written and never  *)
(* read, so it is left out; so are the system messages, which read the     *)
(* call and change none.                                                   *)
(***************************************************************************)
EXTENDS DmCalls

CONSTANTS
  Requests,    \* requests in flight at the same time
  NoRequest,   \* a request slot with no handler running
  RestCrossed  \* may a request begin while another one is in flight?

VARIABLES
  request,   \* request[r]: the running handler, with what it has read
  alarm,     \* alarm[c]: the 30 s setTimeout of REST call c
  contended, \* history: calls held by requests that were in flight together
  rushed     \* history: callers two of whose starts, or of whose call's
             \* requests, were in flight together

restVars == <<request, alarm, contended, rushed>>

Request == [op : {"start", "accept", "decline", "end"}, user : Users,
            peer : Users, found : Calls \cup {NoCall}]

RestTypeOK ==
  /\ CallsTypeOK
  /\ request \in [Requests -> Request \cup {NoRequest}]
  /\ alarm \in [Calls -> {"unset", "set", "fired"}]
  /\ contended \subseteq Calls /\ rushed \subseteq Users

RestInit ==
  /\ request = [r \in Requests |-> NoRequest]
  /\ alarm = [c \in Calls |-> "unset"]
  /\ contended = {} /\ rushed = {}

Answered == \A r \in Requests : request[r] = NoRequest

InHand(r, op) == request[r] # NoRequest /\ request[r].op = op

Holders(c) == {r \in Requests : request[r] # NoRequest /\ request[r].found = c}
Starting(u) == {r \in Requests : InHand(r, "start") /\ request[r].user = u}

Enter(r, q) ==
  LET doubled == {c \in Calls : c = q.found /\ Holders(c) # {}} IN
  /\ RestCrossed \/ Answered
  /\ request[r] = NoRequest
  /\ request' = [request EXCEPT ![r] = q]
  /\ contended' = contended \cup doubled
  /\ rushed' = rushed \cup {call[c].caller : c \in doubled}
                \cup {u \in Users : q.op = "start" /\ q.user = u /\ Starting(u) # {}}
  /\ UNCHANGED <<call, alarm>>

(* A call is contended until none of the requests that met over it is left.  *)
Leave(r) ==
  /\ request' = [request EXCEPT ![r] = NoRequest]
  /\ contended' = {c \in contended : Holders(c) \ {r} # {}}
  /\ UNCHANGED rushed

-----------------------------------------------------------------------------
(* Faulty: an answered call does not count.                                  *)
CheckRingingOnly(u) ==
  {c \in Calls : call[c].caller = u /\ call[c].status = "ringing"} = {}

(* checkAntiAbuse, which the rate limit may also refuse: RestFail.           *)
CheckAntiAbuse(u) ==
  {c \in Calls : call[c].caller = u
                 /\ call[c].status \in {"ringing", "connected"}} = {}

RestStart(r, u, peer) ==
  /\ u # peer
  /\ CheckAntiAbuse(u)
  /\ Enter(r, [op |-> "start", user |-> u, peer |-> peer, found |-> NoCall])

RestStartSave(r) ==
  LET q == request[r] IN
  /\ InHand(r, "start")
  /\ \E c \in Unborn :
       /\ call' = [call EXCEPT ![c] = [status |-> "ringing", caller |-> q.user,
                                       callee |-> q.peer]]
       /\ alarm' = [alarm EXCEPT ![c] = "set"]
  /\ Leave(r)

(* Faulty: finds the call of the conversation in any state.                  *)
RestAnswerAny(r, op, u, peer) ==
  \E c \in InConversation({u, peer}, Status \ {"none"}) :
    /\ call[c].callee = u
    /\ Enter(r, [op |-> op, user |-> u, peer |-> peer, found |-> c])

(* acceptCall and declineCall: a RINGING call directed to the user.          *)
RestAnswer(r, op, u, peer) ==
  \E c \in InConversation({u, peer}, {"ringing"}) :
    /\ call[c].callee = u
    /\ Enter(r, [op |-> op, user |-> u, peer |-> peer, found |-> c])

(* endCall: a CONNECTED call the user is a part of.                          *)
RestEnd(r, u, peer) ==
  \E c \in InConversation({u, peer}, {"connected"}) :
    /\ u \in Parties(c)
    /\ Enter(r, [op |-> "end", user |-> u, peer |-> peer, found |-> c])

Outcome(op) == [accept |-> "connected", decline |-> "declined",
                end |-> "ended"][op]

(* The status was read as another one, so save() writes it, by _id.          *)
RestSave(r) ==
  /\ \E op \in {"accept", "decline", "end"} :
       /\ InHand(r, op)
       /\ SetStatus(request[r].found, Outcome(op))
  /\ Leave(r)
  /\ UNCHANGED alarm

RestFail(r) ==
  /\ request[r] # NoRequest
  /\ Leave(r)
  /\ UNCHANGED <<call, alarm>>

(* The 30 s callback hands endCall the id of the call document, where        *)
(* endCall looks for a conversation of that id.                              *)
AlarmFire(c) ==
  LET hit == InConversation(c, {"connected"}) IN
  /\ alarm[c] = "set"
  /\ alarm' = [alarm EXCEPT ![c] = "fired"]
  /\ IF call[c].status = "ringing" /\ hit # {}
     THEN \E d \in hit : SetStatus(d, "ended")
     ELSE UNCHANGED call
  /\ UNCHANGED <<request, contended, rushed>>

-----------------------------------------------------------------------------
RestClient(r) ==
  \E u, peer \in Users :
    \/ RestStart(r, u, peer)
    \/ \E op \in {"accept", "decline"} : RestAnswer(r, op, u, peer)
    \/ RestEnd(r, u, peer)

RestWork(r) == RestStartSave(r) \/ RestSave(r) \/ RestFail(r)

RestNext ==
  \/ \E r \in Requests : RestClient(r) \/ RestWork(r)
  \/ \E c \in Calls : AlarmFire(c)

RestAloneInit == CallsInit /\ RestInit
RestSpec == RestAloneInit /\ [][RestNext]_<<call, restVars>>

-----------------------------------------------------------------------------
(* "You already have an active call in progress": nobody is the caller of    *)
(* two active calls, unless two of his starts checked for one together, or   *)
(* two requests answered one call of his together and one revived it.        *)
CallerHasOneCall ==
  \A c, d \in Calls :
    /\ {call[c].status, call[d].status}
         \subseteq {"calling", "ringing", "connected"}
    /\ call[c].caller = call[d].caller /\ call[c].caller \notin rushed
    => c = d

(* Requests saving at any moment what they decided on an earlier read, the   *)
(* documents go through the states of CallLifecycle, in which RINGING is     *)
(* their calling, and none rings a second time.  The late save of a request  *)
(* that shared its call with another in flight may take a call anywhere: an  *)
(* accept that comes after a decline revives it.  That is over with those    *)
(* requests: what is over once they are answered stays over.                 *)
RestPhase ==
  [c \in Calls |-> IF call[c].status = "ringing" THEN "calling" ELSE call[c].status]

Story == INSTANCE CallLifecycle WITH
  Pairs <- Calls, Free <- {"none"}, Over <- Finished, phase <- RestPhase

LateSave(c) ==
  \E s \in {"connected", "declined", "ended"} :
    Story!Move(c, Finished \cup {"calling", "connected"}, s)

MovesOn ==
  Story!Next \/ (\E c \in contended : LateSave(c)) \/ UNCHANGED RestPhase
=============================================================================
