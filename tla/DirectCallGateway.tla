------------------------------ MODULE DirectCallGateway ------------------------------
(***************************************************************************)
(* The WebSocket gateway of direct calls: sockets with their meta record,  *)
(* the handlers of startCall, acceptCall, declineCall and endCall, the     *)
(* 60 s timer of a call and the disconnect handler.                        *)
(*                                                                         *)
(* The process is single-threaded and yields at every await, so a handler  *)
(* is one action up to the await whose result it uses next; the write that *)
(* ends a handler and the synchronous code after it are one step.          *)
(***************************************************************************)
EXTENDS DmCalls, Sequences, SequencesExt

CONSTANTS
  Sockets,      \* connections; an id is used again once nothing refers to it
  Accounts,     \* Accounts[s]: the users socket s identifies as, in any order
  NoUser,       \* the user of a socket that has not identified
  Tasks,        \* event handlers in flight
  Timers,       \* pending setTimeout callbacks; bounds the armed ones
  NoTask, NoTimer,
  Offered,      \* the events clients send
  Overlapping   \* may an event be handled while another one is in flight?

Events == {"start", "accept", "decline", "end"}

ASSUME GatewayAssumption ==
  /\ Accounts \in [Sockets -> SUBSET Users]
  /\ NoUser \notin Users
  /\ Offered \subseteq Events
  /\ Overlapping \in BOOLEAN
  /\ NoTimer \notin Timers

VARIABLES
  sock,   \* sock[s]: the SocketMeta of s and the progress of its disconnect
  conn,   \* the sockets of the meta map, in insertion order
  task,   \* task[t]: an event handler in flight, with what it has read
  timer,  \* timer[k]: a setTimeout callback
  ring,   \* history: ring[c] is the timer set by the latest start of call c
  strayed \* history: open sockets that have accepted a call between others,
          \* or changed their account

history == <<ring, strayed>>
gatewayVars == <<sock, conn, task, timer, history>>
vars == <<call, gatewayVars>>

Meta == [state : {"closed", "open", "ending", "marking"}, user : Users \cup {NoUser},
         callId : Calls \cup {NoCall}, callTimeout : Timers \cup {NoTimer},
         found : Calls \cup {NoCall}]
Task == [op : Events, step : {"begun", "free", "found"},
         sock : Sockets, me : Users, peer : Users,
         call : Calls \cup {NoCall}, writes : SUBSET {"status", "parties"}]
Timer == [state : {"free", "armed", "writing"}, call : Calls]

TypeOK ==
  /\ CallsTypeOK
  /\ sock \in [Sockets -> Meta]
  /\ IsInjective(conn) /\ ToSet(conn) = {s \in Sockets : sock[s].state # "closed"}
  /\ task \in [Tasks -> Task \cup {NoTask}]
  /\ timer \in [Timers -> Timer]
  /\ ring \in [Calls -> Timers \cup {NoTimer}]
  /\ strayed \subseteq Sockets

NewMeta == [state |-> "open", user |-> NoUser, callId |-> NoCall,
            callTimeout |-> NoTimer, found |-> NoCall]
Closed == [NewMeta EXCEPT !.state = "closed"]

GatewayInit ==
  /\ sock = [s \in Sockets |-> Closed]
  /\ conn = <<>>
  /\ task = [t \in Tasks |-> NoTask]
  /\ \E c \in Calls : timer = [k \in Timers |-> [state |-> "free", call |-> c]]
  /\ ring = [c \in Calls |-> NoTimer]
  /\ strayed = {}

-----------------------------------------------------------------------------
Quiet ==
  /\ \A t \in Tasks : task[t] = NoTask
  /\ \A s \in Sockets : sock[s].state \in {"open", "closed"}
  /\ \A k \in Timers : timer[k].state # "writing"

MayRun == Overlapping \/ Quiet

Running(t, op, step) ==
  task[t] # NoTask /\ task[t].op = op /\ task[t].step = step

Done(t) == task' = [task EXCEPT ![t] = NoTask]

Pair(t) == {task[t].me, task[t].peer}

(* findSocketByUserId: the user's first socket of the map, if any. *)
FirstSocket(u) ==
  LET mine == {s \in Sockets : sock[s].user = u}
  IN {s \in mine : \E i \in DOMAIN conn :
        conn[i] = s /\ \A j \in 1..(i - 1) : conn[j] \notin mine}

(* clearTimeout(meta.callTimeout) of the sockets S: a callback that has      *)
(* already fired is not stopped.                                             *)
ClearTimeout(S) ==
  LET K == {sock[s].callTimeout : s \in S}
  IN timer' = [k \in Timers |-> IF k \in K /\ timer[k].state = "armed"
                                THEN [timer[k] EXCEPT !.state = "free"]
                                ELSE timer[k]]

Forget(S) ==
  [s \in Sockets |-> IF s \in S THEN [sock[s] EXCEPT !.callTimeout = NoTimer]
                                ELSE sock[s]]

(* meta.callId = c; a meta record already deleted from the map is unreachable *)
SetCallId(m, s, c) ==
  IF m[s].state = "closed" THEN m ELSE [m EXCEPT ![s].callId = c]

FreeTimers ==
  {k \in Timers : timer[k].state = "free"
                  /\ \A s \in Sockets : sock[s].callTimeout # k}

-----------------------------------------------------------------------------
HandleConnection(s) ==
  /\ sock[s].state = "closed"
  /\ \A t \in Tasks : task[t] # NoTask => task[t].sock # s
  /\ sock' = [sock EXCEPT ![s] = NewMeta]
  /\ conn' = Append(conn, s)
  /\ UNCHANGED <<call, task, timer, history>>

(* The user exists: meta.userDehiveId, which may be set already, is his; the *)
(* meta record's call and timer stay what they were.                         *)
HandleIdentity(s, u) ==
  /\ MayRun
  /\ sock[s].state # "closed"
  /\ u \in Accounts[s] \ {sock[s].user}
  /\ sock' = [sock EXCEPT ![s].user = u]
  /\ strayed' = IF sock[s].user = NoUser THEN strayed ELSE strayed \cup {s}
  /\ UNCHANGED <<call, conn, task, timer, ring>>

(* An event of an identified socket starts the handler h.                    *)
Event(t, h) ==
  /\ MayRun
  /\ h.op \in Offered
  /\ task[t] = NoTask
  /\ sock[h.sock].state = "open" /\ h.me = sock[h.sock].user /\ h.me # NoUser
  /\ task' = [task EXCEPT ![t] = h]
  /\ strayed' = IF h.op = "accept" /\ h.me \notin Parties(h.call)
                THEN strayed \cup {h.sock} ELSE strayed
  /\ UNCHANGED <<call, sock, conn, timer, ring>>

(* Clients call somebody else.                                               *)
HandleStartCall(t, s, peer) ==
  /\ peer # sock[s].user
  /\ Event(t, [op |-> "start", step |-> "begun", sock |-> s, me |-> sock[s].user,
               peer |-> peer, call |-> NoCall, writes |-> {"status", "parties"}])

(* findOrCreateCall: no active call, then any call of the conversation, then *)
(* the document created or written over.  A saved document writes only the   *)
(* paths whose value differs from the one read.                              *)
StartLookup(t) ==
  /\ Running(t, "start", "begun")
  /\ InConversation(Pair(t), {"calling", "connected"}) = {}
  /\ task' = [task EXCEPT ![t].step = "free"]
  /\ UNCHANGED <<call, sock, conn, timer, history>>

(* Faulty: looks for no document to write over.                              *)
StartPickNone(t) ==
  /\ Running(t, "start", "free")
  /\ task' = [task EXCEPT ![t].step = "found"]
  /\ UNCHANGED <<call, sock, conn, timer, history>>

(* Faulty: any finished document will do, of whichever conversation.         *)
StartPickAny(t) ==
  /\ Running(t, "start", "free")
  /\ \/ task' = [task EXCEPT ![t].step = "found"]
     \/ \E c \in Calls \ Unborn :
          task' = [task EXCEPT ![t] = [@ EXCEPT !.step = "found", !.call = c]]
  /\ UNCHANGED <<call, sock, conn, timer, history>>

StartPick(t) ==
  LET docs == InConversation(Pair(t), Status \ {"none"}) IN
  /\ Running(t, "start", "free")
  /\ IF docs = {}
     THEN task' = [task EXCEPT ![t].step = "found"]
     ELSE \E c \in docs :
            task' = [task EXCEPT ![t] =
              [@ EXCEPT !.step = "found", !.call = c,
                        !.writes = {p \in {"status", "parties"} :
                                      IF p = "status"
                                      THEN call[c].status # "calling"
                                      ELSE call[c].caller # task[t].me}]]
  /\ UNCHANGED <<call, sock, conn, timer, history>>

Save(d, t) ==
  LET parties == "parties" \in task[t].writes IN
  [status |-> IF "status" \in task[t].writes THEN "calling" ELSE d.status,
   caller |-> IF parties THEN task[t].me ELSE d.caller,
   callee |-> IF parties THEN task[t].peer ELSE d.callee]

(* The save, meta.callId, setTimeout and meta.callTimeout, whose old value   *)
(* is dropped without clearTimeout.                                          *)
StartCommit(t) ==
  LET h == task[t] IN
  /\ Running(t, "start", "found")
  /\ \E c \in IF h.call = NoCall THEN Unborn ELSE {h.call}, k \in FreeTimers :
       /\ call' = [call EXCEPT ![c] = Save(@, t)]
       /\ timer' = [timer EXCEPT ![k] = [state |-> "armed", call |-> c]]
       /\ sock' = IF sock[h.sock].state = "closed" THEN sock
                  ELSE [sock EXCEPT ![h.sock] =
                          [@ EXCEPT !.callId = c, !.callTimeout = k]]
       /\ ring' = [ring EXCEPT ![c] = k]
  /\ Done(t)
  /\ UNCHANGED <<conn, strayed>>

(* acceptCall and declineCall find a CALLING call of the conversation they   *)
(* are given, whoever its parties are, then await two profiles.              *)
HandleAnswer(t, op, s) ==
  \E c \in Calls :
    /\ call[c].status = "calling"
    /\ Event(t, [op |-> op, step |-> "found", sock |-> s, me |-> sock[s].user,
                 peer |-> call[c].caller, call |-> c, writes |-> {}])

(* After the profiles: the timer of the caller's first socket is cleared and *)
(* the document updated by id, whatever its status has become.               *)
AcceptCommit(t) ==
  LET S == FirstSocket(task[t].peer) IN
  /\ Running(t, "accept", "found")
  /\ ClearTimeout(S)
  /\ SetStatus(task[t].call, "connected")
  /\ sock' = SetCallId(Forget(S), task[t].sock, task[t].call)
  /\ Done(t)
  /\ UNCHANGED <<conn, history>>

DeclineCommit(t) ==
  LET S == FirstSocket(task[t].peer) IN
  /\ Running(t, "decline", "found")
  /\ ClearTimeout(S)
  /\ SetStatus(task[t].call, "declined")
  /\ sock' = Forget(S)
  /\ Done(t)
  /\ UNCHANGED <<conn, history>>

(* endCall as well; whoever is not the caller takes the caller for the other *)
(* party.                                                                    *)
HandleEndCall(t, s) ==
  \E c \in Calls :
    LET me == sock[s].user
        other == IF call[c].caller = me THEN call[c].callee ELSE call[c].caller
    IN /\ call[c].status \in {"calling", "connected"}
       /\ Event(t, [op |-> "end", step |-> "found", sock |-> s, me |-> me,
                    peer |-> other, call |-> c, writes |-> {}])

EndCommit(t) ==
  LET S == {task[t].sock} \cup FirstSocket(task[t].peer) IN
  /\ Running(t, "end", "found")
  /\ ClearTimeout(S)
  /\ SetStatus(task[t].call, "ended")
  /\ sock' = Forget(S)
  /\ Done(t)
  /\ UNCHANGED <<conn, history>>

(* An error answer: a lookup that failed, a profile that was not found.      *)
GiveUp(t) ==
  /\ task[t] # NoTask
  /\ Done(t)
  /\ UNCHANGED <<call, sock, conn, timer, history>>

(* Faulty: the callback takes the call for still unanswered.                 *)
TimerFireBlind(k) ==
  /\ MayRun
  /\ timer[k].state = "armed"
  /\ timer' = [timer EXCEPT ![k].state = "writing"]
  /\ UNCHANGED <<call, sock, conn, task, history>>

(* Faulty: the callback knows the REST status only.                          *)
TimerFireRingingOnly(k) ==
  /\ MayRun
  /\ timer[k].state = "armed"
  /\ timer' = [timer EXCEPT ![k].state =
                 IF call[timer[k].call].status = "ringing"
                 THEN "writing" ELSE "free"]
  /\ UNCHANGED <<call, sock, conn, task, history>>

(* The timeout callback: findById, then findByIdAndUpdate.                   *)
TimerFire(k) ==
  /\ MayRun
  /\ timer[k].state = "armed"
  /\ timer' = [timer EXCEPT ![k].state =
                 IF call[timer[k].call].status \in {"calling", "ringing"}
                 THEN "writing" ELSE "free"]
  /\ UNCHANGED <<call, sock, conn, task, history>>

TimerWrite(k) ==
  /\ timer[k].state = "writing"
  /\ SetStatus(timer[k].call, "timeout")
  /\ timer' = [timer EXCEPT ![k].state = "free"]
  /\ UNCHANGED <<sock, conn, task, history>>

(* handleDisconnect: the timer, then ONE active call of the user, then the   *)
(* call of meta.callId whatever its status, then the meta entry.             *)
HandleDisconnect(s) ==
  LET active == {c \in Calls : /\ call[c].status \in {"calling", "connected"}
                               /\ sock[s].user \in Parties(c)} IN
  /\ MayRun
  /\ sock[s].state = "open" /\ sock[s].user # NoUser
  /\ ClearTimeout({s})
  /\ \E c \in IF active = {} THEN {NoCall} ELSE active :
       sock' = [sock EXCEPT ![s] = [@ EXCEPT !.state = "ending", !.found = c,
                                             !.callTimeout = NoTimer]]
  /\ UNCHANGED <<call, conn, task, history>>

(* Faulty: the active call found is not saved.                               *)
DisconnectSaveNothing(s) ==
  /\ sock[s].state = "ending"
  /\ sock' = [sock EXCEPT ![s].state = "marking"]
  /\ UNCHANGED <<call, conn, task, timer, history>>

DisconnectSave(s) ==
  /\ sock[s].state = "ending"
  /\ IF sock[s].found = NoCall THEN UNCHANGED call
                               ELSE SetStatus(sock[s].found, "ended")
  /\ sock' = [sock EXCEPT ![s].state = "marking"]
  /\ UNCHANGED <<conn, task, timer, history>>

DisconnectMark(s) ==
  /\ sock[s].state = "marking"
  /\ IF sock[s].callId = NoCall THEN UNCHANGED call
                                ELSE SetStatus(sock[s].callId, "ended")
  /\ sock' = [sock EXCEPT ![s] = Closed]
  /\ conn' = Remove(conn, s)
  /\ strayed' = strayed \ {s}
  /\ UNCHANGED <<task, timer, ring>>

DisconnectAnonymous(s) ==
  /\ sock[s].state = "open" /\ sock[s].user = NoUser
  /\ sock' = [sock EXCEPT ![s] = Closed]
  /\ conn' = Remove(conn, s)
  /\ UNCHANGED <<call, task, timer, history>>

-----------------------------------------------------------------------------
ClientNext ==
  \/ \E s \in Sockets : \/ HandleConnection(s)
                        \/ \E u \in Users : HandleIdentity(s, u)
                        \/ HandleDisconnect(s)
                        \/ DisconnectAnonymous(s)
  \/ \E t \in Tasks, s \in Sockets :
       \/ \E peer \in Users : HandleStartCall(t, s, peer)
       \/ \E op \in {"accept", "decline"} : HandleAnswer(t, op, s)
       \/ HandleEndCall(t, s)

TaskNext(t) ==
  \/ StartLookup(t) \/ StartPick(t) \/ StartCommit(t)
  \/ AcceptCommit(t) \/ DeclineCommit(t) \/ EndCommit(t)
  \/ GiveUp(t)

TimerNext(k) == TimerFire(k) \/ TimerWrite(k)
DisconnectNext(s) == DisconnectSave(s) \/ DisconnectMark(s)

GatewayNext ==
  \/ ClientNext
  \/ \E t \in Tasks : TaskNext(t)
  \/ \E k \in Timers : TimerNext(k)
  \/ \E s \in Sockets : DisconnectNext(s)

Init == CallsInit /\ GatewayInit
Spec == Init /\ [][GatewayNext]_vars

(* What the process itself goes on with: handlers, timers, disconnects.      *)
(* Nothing obliges a client to do anything, and no stream of client events   *)
(* keeps the event loop from running a due timer, hence SF: without          *)
(* Overlapping, TimerFire waits for the handler in flight.                   *)
FairSpec ==
  /\ Spec
  /\ \A t \in Tasks : WF_vars(TaskNext(t))
  /\ \A k \in Timers : SF_vars(TimerNext(k))
  /\ \A s \in Sockets : WF_vars(DisconnectNext(s))
-----------------------------------------------------------------------------
(* Whatever other clients do, the meta.callId of a socket that keeps its     *)
(* account and accepts calls of its own names a call of its user, so that    *)
(* handleUserDisconnect ends nobody else's: although the document of a       *)
(* conversation is written over by every new call, in either direction, and  *)
(* anybody may answer it or end it.                                          *)
CallIdIsOwn ==
  \A s \in Sockets \ strayed :
    sock[s].callId # NoCall => sock[s].user \in Parties(sock[s].callId)

(* Between events, a conversation has at most one call document: every call  *)
(* after the first reuses it ("There is already an active call").            *)
OneDocument ==
  Quiet => \A c, d \in Calls \ Unborn : Parties(c) = Parties(d) => c = d

(* "There is already an active call for this conversation": no conversation  *)
(* has two.                                                                  *)
OneActiveCall ==
  \A c, d \in Calls :
    /\ {call[c].status, call[d].status} \subseteq {"calling", "connected"}
    /\ Parties(c) = Parties(d)
    => c = d

(* Between events, a CALLING call has a timer that will end it.              *)
CallingIsTimed ==
  Quiet => \A c \in Calls : call[c].status = "calling" =>
             \E k \in Timers : timer[k].state = "armed" /\ timer[k].call = c

(* With one conversation and one event at a time, a user whose socket has    *)
(* disconnected is left in no active call: whichever tab is closed, caller's *)
(* or callee's, before or after the answer, the call is over for both.       *)
DisconnectEndsCalls ==
  [][\A s \in Sockets :
       sock[s].state = "marking" /\ sock'[s].state = "closed" =>
         \A c \in Calls : sock[s].user \in Parties(c) =>
           call'[c].status \notin {"calling", "connected"}]_vars

(* A call is timed out only by the timer its own latest startCall set, not   *)
(* by one left over from an earlier call of the same conversation.           *)
TimedOutByOwnTimer ==
  [][\A k \in Timers :
       LET c == timer[k].call IN
       timer[k].state = "writing" /\ timer'[k].state = "free"
         /\ call[c].status = "calling" => ring[c] = k]_vars

(* "Set timeout for call (60 seconds)": a call does not ring for ever.       *)
CallingEnds ==
  \A c \in Calls : call[c].status = "calling" ~> call[c].status # "calling"

(* One event at a time, the documents of a conversation tell its clients the *)
(* story of CallLifecycle: the one that is not over speaks for the rest.     *)
Conversations == {p \in SUBSET Users : Cardinality(p) = 2}

PhaseOf(p) ==
  LET docs == {c \in Calls : Parties(c) = p /\ call[c].status # "none"}
      live == {c \in docs : call[c].status \notin Finished}
  IN IF docs = {} THEN "none"
     ELSE call[CHOOSE c \in docs : live = {} \/ c \in live].status

Phase == [p \in Conversations |-> PhaseOf(p)]

Lifecycle == INSTANCE CallLifecycle WITH
  Pairs <- Conversations, Free <- {"none"} \cup Finished, Over <- Finished,
  phase <- Phase

FollowsLifecycle == Lifecycle!Spec
============================================================================
