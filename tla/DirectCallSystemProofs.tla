----------------------------- MODULE DirectCallSystemProofs -----------------------------
(***************************************************************************)
(* What the gateway relies on survives the REST service beside it: its     *)
(* requests write the same documents, by ids it has read some awaits ago,  *)
(* and create documents of their own.  They change the status of a         *)
(* document and never whose it is, which is all DirectCallProofs asks of a *)
(* step.                                                                   *)
(***************************************************************************)
EXTENDS DirectCallSystem, DirectCallProofs

RestTyped == request \in [Requests -> Request \cup {NoRequest}]
SystemInv == CallIdInv /\ StrayInv /\ RestTyped

-----------------------------------------------------------------------------
(* A step that keeps the documents' owners and touches nothing of the        *)
(* gateway keeps its invariants.                                             *)
LEMMA OutsideStep ==
  ASSUME CallIdInv, StrayInv, UNCHANGED gatewayVars, call' \in [Calls -> CallDoc], Keeps
  PROVE  CallIdInv' /\ StrayInv'
  <1>1. sock' = sock /\ task' = task /\ timer' = timer /\ strayed' = strayed
    BY DEF gatewayVars, history
  <1>2. HoldInv'
    BY <1>1, QuietStep DEF CallIdInv, HoldInv, DocTypes
  <1>. QED BY <1>1, <1>2, StrayAside DEF CallIdInv, TimersTyped

(* save() of a status: of a document that exists, or of none.                *)
LEMMA StatusSaved ==
  ASSUME DocTypes, NEW c, NEW s \in Status \ {"none"}, SetStatus(c, s)
  PROVE  call' \in [Calls -> CallDoc] /\ Keeps
  <1>1. CASE c \in Calls
    BY <1>1, SetStatusKeeps
  <1>2. CASE c \notin Calls
    <2>1. call' = call
      BY <1>2 DEF SetStatus, DocTypes
    <2>. QED BY <2>1, UnchangedKeeps
  <1>. QED BY <1>1, <1>2

LEMMA RequestsEnter ==
  ASSUME RestTyped, NEW r \in Requests, RestClient(r)
  PROVE  RestTyped' /\ call' = call
  <1>1. ASSUME NEW q \in Request, Enter(r, q) PROVE RestTyped' /\ call' = call
    BY <1>1 DEF RestTyped, Enter
  <1>2. PICK u \in Users, peer \in Users :
          \/ RestStart(r, u, peer)
          \/ \E op \in {"accept", "decline"} : RestAnswer(r, op, u, peer)
          \/ RestEnd(r, u, peer)
    BY DEF RestClient
  <1>3. CASE RestStart(r, u, peer)
    <2>1. [op |-> "start", user |-> u, peer |-> peer, found |-> NoCall] \in Request
      BY DEF Request
    <2>. QED BY <1>1, <1>3, <2>1 DEF RestStart
  <1>4. ASSUME NEW op \in {"accept", "decline"}, RestAnswer(r, op, u, peer)
        PROVE  RestTyped' /\ call' = call
    <2>1. PICK c \in InConversation({u, peer}, {"ringing"}) :
            Enter(r, [op |-> op, user |-> u, peer |-> peer, found |-> c])
      BY <1>4 DEF RestAnswer
    <2>2. [op |-> op, user |-> u, peer |-> peer, found |-> c] \in Request
      BY DEF Request, InConversation
    <2>. QED BY <1>1, <2>1, <2>2
  <1>5. CASE RestEnd(r, u, peer)
    <2>1. PICK c \in InConversation({u, peer}, {"connected"}) :
            Enter(r, [op |-> "end", user |-> u, peer |-> peer, found |-> c])
      BY <1>5 DEF RestEnd
    <2>2. [op |-> "end", user |-> u, peer |-> peer, found |-> c] \in Request
      BY DEF Request, InConversation
    <2>. QED BY <1>1, <2>1, <2>2
  <1>. QED BY <1>2, <1>3, <1>4, <1>5

LEMMA RequestsWork ==
  ASSUME RestTyped, DocTypes, NEW r \in Requests, RestWork(r)
  PROVE  RestTyped' /\ call' \in [Calls -> CallDoc] /\ Keeps
  <1>1. RestTyped'
    BY DEF RestWork, RestStartSave, RestSave, RestFail, Leave, RestTyped
  <1>2. CASE RestStartSave(r)
    <2>. DEFINE d == [status |-> "ringing", caller |-> request[r].user,
                      callee |-> request[r].peer]
    <2>1. d \in CallDoc
      BY <1>2 DEF RestStartSave, InHand, RestTyped, Request, CallDoc, Status
    <2>2. PICK c \in Unborn : call' = [call EXCEPT ![c] = d]
      BY <1>2 DEF RestStartSave
    <2>. HIDE DEF d
    <2>3. call' \in [Calls -> CallDoc]
      BY <2>1, <2>2 DEF DocTypes
    <2>4. \A e \in Calls : call[e].status # "none" => call'[e] = call[e]
      BY <2>2 DEF DocTypes, Unborn
    <2>. QED BY <1>1, <2>3, <2>4 DEF Keeps, Parties, Born
  <1>3. CASE RestSave(r)
    <2>1. PICK op \in {"accept", "decline", "end"} : SetStatus(request[r].found, Outcome(op))
      BY <1>3 DEF RestSave
    <2>2. Outcome(op) \in Status \ {"none"}
      BY DEF Outcome, Status
    <2>. QED BY <1>1, <2>1, <2>2, StatusSaved
  <1>4. CASE RestFail(r)
    BY <1>1, <1>4, UnchangedKeeps DEF RestFail
  <1>. QED BY <1>2, <1>3, <1>4 DEF RestWork

LEMMA AlarmsFire ==
  ASSUME RestTyped, DocTypes, NEW c \in Calls, AlarmFire(c)
  PROVE  RestTyped' /\ call' \in [Calls -> CallDoc] /\ Keeps
  <1>1. RestTyped'
    BY DEF AlarmFire, RestTyped
  <1>2. call' = call \/ \E d \in Calls : SetStatus(d, "ended")
    BY DEF AlarmFire, InConversation
  <1>. QED BY <1>1, <1>2, UnchangedKeeps, StatusSaved DEF Status

LEMMA RestKeeps ==
  ASSUME SystemInv, RestNext, UNCHANGED gatewayVars
  PROVE  SystemInv'
  <1>1. CallIdInv /\ StrayInv /\ RestTyped /\ DocTypes
    BY DEF SystemInv, CallIdInv, HoldInv
  <1>2. RestTyped' /\ call' \in [Calls -> CallDoc] /\ Keeps
    BY <1>1, RequestsEnter, RequestsWork, AlarmsFire, UnchangedKeeps DEF RestNext
  <1>. QED BY <1>1, <1>2, OutsideStep DEF SystemInv

LEMMA SystemKeeps == SystemInv /\ [SystemNext]_systemVars => SystemInv'
  <1>. SUFFICES ASSUME SystemInv, [SystemNext]_systemVars PROVE SystemInv'
    OBVIOUS
  <1>1. CASE GatewayNext /\ UNCHANGED restVars
    BY <1>1, NextHolds, StrayStep DEF restVars, RestTyped, SystemInv
  <1>2. CASE RestNext /\ UNCHANGED gatewayVars
    BY <1>2, RestKeeps
  <1>3. CASE UNCHANGED systemVars
    BY <1>3, NextHolds, StrayStep DEF systemVars, restVars, RestTyped, SystemInv
  <1>. QED BY <1>1, <1>2, <1>3 DEF SystemNext

(* With the REST service writing the same collection, the call that a socket *)
(* remembers, and its disconnect ends, is still one of its own user's, unless *)
(* that socket has accepted a call between others or changed its account.    *)
THEOREM EndsOnlyOwnCallsBesideRest == SystemSpec => []CallIdIsOwn
  <1>1. SystemInit => SystemInv
    BY CallIdStart DEF SystemInit, RestInit, RestTyped, SystemInv
  <1>2. SystemInv => CallIdIsOwn
    BY StrayTells DEF SystemInv
  <1>. QED BY <1>1, <1>2, SystemKeeps, PTL DEF SystemSpec
=============================================================================
