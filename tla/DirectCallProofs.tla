-------------------------------- MODULE DirectCallProofs --------------------------------
(***************************************************************************)
(* Proofs about the gateway of direct calls, for every number of users,    *)
(* sockets, calls, handlers in flight and timers, and however they         *)
(* interleave.                                                             *)
(*                                                                         *)
(* CallIdIsOwn is not inductive: meta.callId is set by a handler that read *)
(* the document some awaits earlier, and a document is written over by     *)
(* later calls.  It needs that what a handler or a socket refers to is a   *)
(* document that exists, that a document, once created, keeps its          *)
(* conversation whoever calls whom in it, and that a handler in flight     *)
(* still speaks for the user of its socket, unless that user has changed.  *)
(***************************************************************************)
EXTENDS DirectCallGateway, FiniteSetTheorems, TLAPS

Born(c) == call[c].status # "none"

DocTypes ==
  /\ call \in [Calls -> CallDoc]
  /\ sock \in [Sockets -> Meta]
  /\ task \in [Tasks -> Task \cup {NoTask}]

MetaHolds ==
  \A s \in Sockets : sock[s].callId # NoCall => Born(sock[s].callId)

TaskHolds ==
  \A t \in Tasks : task[t] # NoTask =>
    /\ task[t].call # NoCall => Born(task[t].call)
    /\ IF task[t].op = "start"
       THEN IF task[t].call = NoCall
            THEN task[t].writes = {"status", "parties"}
            ELSE Parties(task[t].call) = Pair(t)
       ELSE task[t].call # NoCall

HoldInv == DocTypes /\ MetaHolds /\ TaskHolds

(* A step takes no document that exists away from its two people.            *)
Keeps ==
  \A c \in Calls : Born(c) => Born(c)' /\ Parties(c)' = Parties(c)

-----------------------------------------------------------------------------
LEMMA InitHolds == Init => HoldInv
  <1>. SUFFICES ASSUME Init PROVE HoldInv
    OBVIOUS
  <1>1. call \in [Calls -> CallDoc]
    BY DEF Init, CallsInit, CallDoc, Status
  <1>2. Closed \in Meta /\ Closed.callId = NoCall
    BY DEF Meta, Closed, NewMeta
  <1>3. sock \in [Sockets -> Meta] /\ task \in [Tasks -> Task \cup {NoTask}]
    BY <1>2 DEF Init, GatewayInit
  <1>4. MetaHolds
    BY <1>2 DEF Init, GatewayInit, MetaHolds
  <1>5. TaskHolds
    BY DEF Init, GatewayInit, TaskHolds
  <1>. QED BY <1>1, <1>3, <1>4, <1>5 DEF HoldInv, DocTypes

LEMMA SetStatusKeeps ==
  ASSUME NEW c \in Calls, NEW s \in Status \ {"none"}, DocTypes, SetStatus(c, s)
  PROVE  call' \in [Calls -> CallDoc] /\ Keeps
  <1>1. call' \in [Calls -> CallDoc]
    BY DEF DocTypes, SetStatus, CallDoc
  <1>2. Keeps
    BY DEF DocTypes, SetStatus, CallDoc, Keeps, Parties, Born
  <1>. QED BY <1>1, <1>2

LEMMA TasksKeep ==
  ASSUME HoldInv, Keeps, \A t \in Tasks : task'[t] \in {task[t], NoTask}
  PROVE  TaskHolds'
  BY DEF HoldInv, DocTypes, TaskHolds, Keeps, Born, Task, Pair

(* A step that keeps the documents, changes no callId and no handler but to  *)
(* end one.                                                                  *)
LEMMA QuietStep ==
  ASSUME HoldInv, call' \in [Calls -> CallDoc], Keeps,
         sock' \in [Sockets -> Meta],
         \A s \in Sockets : sock'[s].callId \in {sock[s].callId, NoCall},
         task' \in [Tasks -> Task \cup {NoTask}],
         \A t \in Tasks : task'[t] \in {task[t], NoTask}
  PROVE  HoldInv'
  <1>1. MetaHolds'
    BY DEF HoldInv, DocTypes, MetaHolds, Keeps, Born, Meta
  <1>. QED BY <1>1, TasksKeep DEF HoldInv, DocTypes

LEMMA UnchangedKeeps == ASSUME DocTypes, call' = call
                        PROVE  call' \in [Calls -> CallDoc] /\ Keeps
  BY DEF DocTypes, Keeps, Parties, Born

(* An event starts a handler that holds no document, or one it has found.    *)
LEMMA EventStep ==
  ASSUME HoldInv, NEW t \in Tasks, NEW h \in Task, Event(t, h),
         h.call # NoCall => Born(h.call),
         IF h.op = "start"
         THEN h.call = NoCall /\ h.writes = {"status", "parties"}
         ELSE h.call # NoCall
  PROVE  HoldInv'
  <1>1. DocTypes' /\ Keeps
    BY UnchangedKeeps DEF HoldInv, DocTypes, Event
  <1>2. MetaHolds'
    BY DEF HoldInv, MetaHolds, Event, Born
  <1>3. TaskHolds'
    <2>. SUFFICES ASSUME NEW i \in Tasks, task'[i] # NoTask
                  PROVE /\ (task[i].call # NoCall => Born(task[i].call))'
                        /\ (IF task[i].op = "start"
                            THEN IF task[i].call = NoCall
                                 THEN task[i].writes = {"status", "parties"}
                                 ELSE Parties(task[i].call) = Pair(i)
                            ELSE task[i].call # NoCall)'
      BY DEF TaskHolds
    <2>1. CASE i = t
      BY <2>1 DEF HoldInv, DocTypes, Event, Born
    <2>2. CASE i # t
      <3>1. task'[i] = task[i]
        BY <2>2 DEF HoldInv, DocTypes, Event
      <3>. QED BY <3>1 DEF HoldInv, TaskHolds, Event, Born, Pair, Parties
    <2>. QED BY <2>1, <2>2
  <1>. QED BY <1>1, <1>2, <1>3 DEF HoldInv

(* What an event is: startCall of somebody else, an answer to a CALLING      *)
(* call, the end of an active one.  Its handler is given the account of the  *)
(* socket and what it has found.                                             *)
LEMMA EventKinds ==
  ASSUME DocTypes, NEW t \in Tasks, NEW s \in Sockets,
         \/ \E peer \in Users : HandleStartCall(t, s, peer)
         \/ \E op \in {"accept", "decline"} : HandleAnswer(t, op, s)
         \/ HandleEndCall(t, s)
  PROVE  \E h \in Task :
           /\ Event(t, h) /\ h.sock = s /\ h.me = sock[s].user
           /\ \/ h.op = "start" /\ h.call = NoCall /\ h.writes = {"status", "parties"}
                 /\ h.peer # h.me /\ h.step = "begun"
              \/ h.op \in {"accept", "decline"} /\ h.call \in Calls
                 /\ call[h.call].status = "calling" /\ h.peer = call[h.call].caller
              \/ h.op = "end" /\ h.call \in Calls
                 /\ call[h.call].status \in {"calling", "connected"} /\ h.peer \in Parties(h.call)
  <1>0. ASSUME NEW h, Event(t, h), h.sock = s PROVE h.me \in Users
    BY <1>0 DEF DocTypes, Event, Meta
  <1>1. ASSUME NEW peer \in Users, HandleStartCall(t, s, peer)
        PROVE  \E h \in Task :
                 /\ Event(t, h) /\ h.sock = s /\ h.me = sock[s].user
                 /\ h.op = "start" /\ h.call = NoCall /\ h.writes = {"status", "parties"}
                 /\ h.peer # h.me /\ h.step = "begun"
    <2>1. PICK h : h = [op |-> "start", step |-> "begun", sock |-> s, me |-> sock[s].user,
                        peer |-> peer, call |-> NoCall, writes |-> {"status", "parties"}]
      OBVIOUS
    <2>2. Event(t, h) /\ peer # sock[s].user
      BY <1>1, <2>1 DEF HandleStartCall
    <2>3. h \in Task
      BY <1>0, <2>1, <2>2 DEF Task, Events
    <2>. QED BY <2>1, <2>2, <2>3
  <1>2. ASSUME NEW op \in {"accept", "decline"}, HandleAnswer(t, op, s)
        PROVE  \E h \in Task :
                 /\ Event(t, h) /\ h.sock = s /\ h.me = sock[s].user
                 /\ h.op = op /\ h.call \in Calls
                 /\ call[h.call].status = "calling" /\ h.peer = call[h.call].caller
    <2>1. PICK c \in Calls :
            /\ call[c].status = "calling"
            /\ Event(t, [op |-> op, step |-> "found", sock |-> s, me |-> sock[s].user,
                         peer |-> call[c].caller, call |-> c, writes |-> {}])
      BY <1>2 DEF HandleAnswer
    <2>2. PICK h : h = [op |-> op, step |-> "found", sock |-> s, me |-> sock[s].user,
                        peer |-> call[c].caller, call |-> c, writes |-> {}]
      OBVIOUS
    <2>3. Event(t, h)
      BY <2>1, <2>2
    <2>4. h \in Task
      BY <1>0, <2>2, <2>3 DEF Task, Events, DocTypes, CallDoc
    <2>. QED BY <2>1, <2>2, <2>3, <2>4
  <1>3. ASSUME HandleEndCall(t, s)
        PROVE  \E h \in Task :
                 /\ Event(t, h) /\ h.sock = s /\ h.me = sock[s].user
                 /\ h.op = "end" /\ h.call \in Calls
                 /\ call[h.call].status \in {"calling", "connected"} /\ h.peer \in Parties(h.call)
    <2>. DEFINE other(c) == IF call[c].caller = sock[s].user THEN call[c].callee ELSE call[c].caller
    <2>1. PICK c \in Calls :
            /\ call[c].status \in {"calling", "connected"}
            /\ Event(t, [op |-> "end", step |-> "found", sock |-> s, me |-> sock[s].user,
                         peer |-> other(c), call |-> c, writes |-> {}])
      BY <1>3 DEF HandleEndCall
    <2>2. PICK o : o = other(c) /\ o \in Parties(c) /\ o \in Users
      BY DEF Parties, DocTypes, CallDoc
    <2>3. PICK h : h = [op |-> "end", step |-> "found", sock |-> s, me |-> sock[s].user,
                        peer |-> o, call |-> c, writes |-> {}]
      OBVIOUS
    <2>4. Event(t, h)
      BY <2>1, <2>2, <2>3
    <2>5. h \in Task
      BY <1>0, <2>2, <2>3, <2>4 DEF Task, Events
    <2>. QED BY <2>1, <2>2, <2>3, <2>4, <2>5
  <1>. QED BY <1>1, <1>2, <1>3

(* The handlers' first steps.                                                *)
LEMMA EventsHolds ==
  ASSUME HoldInv, NEW t \in Tasks, NEW s \in Sockets,
         \/ \E peer \in Users : HandleStartCall(t, s, peer)
         \/ \E op \in {"accept", "decline"} : HandleAnswer(t, op, s)
         \/ HandleEndCall(t, s)
  PROVE  HoldInv' /\ Keeps
  <1>1. PICK h \in Task :
          /\ Event(t, h)
          /\ \/ h.op = "start" /\ h.call = NoCall /\ h.writes = {"status", "parties"}
             \/ h.op # "start" /\ h.call \in Calls /\ Born(h.call)
    BY EventKinds DEF HoldInv, Born
  <1>2. Keeps
    BY <1>1, UnchangedKeeps DEF HoldInv, Event
  <1>. QED BY <1>1, <1>2, EventStep, CallsAssumption

-----------------------------------------------------------------------------
(* The last steps of a handler, of a timer and of a disconnect.              *)
LEMMA ForgetType ==
  ASSUME DocTypes, NEW S
  PROVE  /\ Forget(S) \in [Sockets -> Meta]
         /\ \A s \in Sockets : Forget(S)[s].callId = sock[s].callId
  BY DEF DocTypes, Forget, Meta

LEMMA DoneType ==
  ASSUME DocTypes, NEW t \in Tasks, Done(t)
  PROVE  /\ task' \in [Tasks -> Task \cup {NoTask}]
         /\ \A i \in Tasks : task'[i] \in {task[i], NoTask}
  BY DEF DocTypes, Done

LEMMA RunningTask ==
  ASSUME HoldInv, NEW t \in Tasks, NEW op, NEW step, Running(t, op, step)
  PROVE  task[t] \in Task /\ task[t].op = op /\ task[t].sock \in Sockets
  BY DEF HoldInv, DocTypes, Running, Task

LEMMA AnswerOrEndHolds ==
  ASSUME HoldInv, NEW t \in Tasks, task[t] \in Task, task[t] # NoTask,
         task[t].call # NoCall,
         NEW s \in Status \ {"none"}, SetStatus(task[t].call, s), Done(t),
         NEW S,
         sock' \in {Forget(S), SetCallId(Forget(S), task[t].sock, task[t].call)}
  PROVE  HoldInv' /\ Keeps
  <1>. DEFINE c == task[t].call  i == task[t].sock
  <1>1. c \in Calls /\ i \in Sockets /\ Born(c)
    BY DEF Task, HoldInv, TaskHolds
  <1>2. call' \in [Calls -> CallDoc] /\ Keeps
    BY <1>1, SetStatusKeeps DEF HoldInv
  <1>3. /\ task' \in [Tasks -> Task \cup {NoTask}]
        /\ \A j \in Tasks : task'[j] \in {task[j], NoTask}
    BY DoneType DEF HoldInv
  <1>4. /\ Forget(S) \in [Sockets -> Meta]
        /\ \A j \in Sockets : Forget(S)[j].callId = sock[j].callId
    BY ForgetType DEF HoldInv
  <1>5. CASE sock' = Forget(S)
    BY <1>2, <1>3, <1>4, <1>5, QuietStep
  <1>6. CASE sock' = SetCallId(Forget(S), i, c)
    <2>1. /\ sock' \in [Sockets -> Meta]
          /\ \A j \in Sockets :
               sock'[j].callId = sock[j].callId \/ (j = i /\ sock'[j].callId = c)
      BY <1>1, <1>4, <1>6 DEF SetCallId, Meta
    <2>2. MetaHolds'
      BY <2>1, <1>1, <1>2 DEF HoldInv, DocTypes, MetaHolds, Keeps, Born, Meta
    <2>3. TaskHolds'
      BY <1>2, <1>3, TasksKeep
    <2>. QED BY <1>2, <1>3, <2>1, <2>2, <2>3 DEF HoldInv, DocTypes
  <1>. QED BY <1>2, <1>5, <1>6

LEMMA AnswersHolds ==
  ASSUME HoldInv, NEW t \in Tasks,
         \/ AcceptCommit(t) \/ DeclineCommit(t) \/ EndCommit(t)
  PROVE  HoldInv' /\ Keeps
  <1>. DEFINE found == task[t].call # NoCall
  <1>0. ASSUME task[t] # NoTask, task[t].op # "start" PROVE found
    BY <1>0 DEF HoldInv, TaskHolds
  <1>1. CASE AcceptCommit(t)
    BY <1>0, <1>1, RunningTask, AnswerOrEndHolds DEF AcceptCommit, Running, Status
  <1>2. CASE DeclineCommit(t)
    BY <1>0, <1>2, RunningTask, AnswerOrEndHolds DEF DeclineCommit, Running, Status
  <1>3. CASE EndCommit(t)
    BY <1>0, <1>3, RunningTask, AnswerOrEndHolds DEF EndCommit, Running, Status
  <1>. QED BY <1>1, <1>2, <1>3

LEMMA GiveUpHolds ==
  ASSUME HoldInv, NEW t \in Tasks, GiveUp(t)
  PROVE  HoldInv' /\ Keeps
  <1>1. call' \in [Calls -> CallDoc] /\ Keeps
    BY UnchangedKeeps DEF HoldInv, GiveUp
  <1>2. /\ task' \in [Tasks -> Task \cup {NoTask}]
        /\ \A j \in Tasks : task'[j] \in {task[j], NoTask}
    BY DoneType DEF HoldInv, GiveUp
  <1>. QED BY <1>1, <1>2, QuietStep DEF HoldInv, DocTypes, GiveUp

-----------------------------------------------------------------------------
(* findOrCreateCall.  Only here does a document change its parties, and only *)
(* to the pair that it already had or, unborn, that nobody holds yet.        *)
LEMMA SameTasks ==
  ASSUME HoldInv, call' = call,
         \A i \in Tasks : task'[i] # NoTask =>
           /\ task[i] # NoTask
           /\ task'[i].op = task[i].op /\ task'[i].call = task[i].call
           /\ task'[i].me = task[i].me /\ task'[i].peer = task[i].peer
           /\ task'[i].writes = task[i].writes
  PROVE  TaskHolds'
  BY DEF HoldInv, TaskHolds, Born, Parties, Pair

LEMMA LookupHolds ==
  ASSUME HoldInv, NEW t \in Tasks, StartLookup(t)
  PROVE  HoldInv' /\ Keeps
  <1>1. task' = [task EXCEPT ![t].step = "free"]
    BY DEF StartLookup
  <1>2. task[t] \in Task
    BY RunningTask DEF StartLookup
  <1>3. DocTypes'
    BY <1>1, <1>2 DEF HoldInv, DocTypes, StartLookup, Task
  <1>4. MetaHolds'
    BY DEF HoldInv, MetaHolds, StartLookup, Born
  <1>5. \A i \in Tasks : task'[i] # NoTask =>
          /\ task[i] # NoTask
          /\ task'[i].op = task[i].op /\ task'[i].call = task[i].call
          /\ task'[i].me = task[i].me /\ task'[i].peer = task[i].peer
          /\ task'[i].writes = task[i].writes
    BY <1>1, <1>2 DEF HoldInv, DocTypes, Task, StartLookup, Running
  <1>6. TaskHolds'
    BY <1>5, SameTasks DEF StartLookup
  <1>7. Keeps
    BY UnchangedKeeps DEF HoldInv, StartLookup
  <1>. QED BY <1>3, <1>4, <1>6, <1>7 DEF HoldInv

LEMMA PickHolds ==
  ASSUME HoldInv, NEW t \in Tasks, StartPick(t)
  PROVE  HoldInv' /\ Keeps
  <1>. DEFINE docs == InConversation(Pair(t), Status \ {"none"})
  <1>1. task[t] \in Task /\ task[t].op = "start" /\ task[t] # NoTask
    BY RunningTask DEF StartPick, Running
  <1>2. MetaHolds' /\ Keeps
    BY UnchangedKeeps DEF HoldInv, MetaHolds, StartPick, Born
  <1>3. CASE docs = {}
    <2>1. task' = [task EXCEPT ![t].step = "found"]
      BY <1>3 DEF StartPick
    <2>2. DocTypes'
      BY <2>1, <1>1 DEF HoldInv, DocTypes, StartPick, Task
    <2>3. \A i \in Tasks : task'[i] # NoTask =>
            /\ task[i] # NoTask
            /\ task'[i].op = task[i].op /\ task'[i].call = task[i].call
            /\ task'[i].me = task[i].me /\ task'[i].peer = task[i].peer
            /\ task'[i].writes = task[i].writes
      BY <2>1, <1>1 DEF HoldInv, DocTypes, Task
    <2>4. TaskHolds'
      BY <2>3, SameTasks DEF StartPick
    <2>. QED BY <1>2, <2>2, <2>4 DEF HoldInv
  <1>4. CASE docs # {}
    <2>1. PICK c \in docs, W \in SUBSET {"status", "parties"} :
            task' = [task EXCEPT ![t] =
                       [@ EXCEPT !.step = "found", !.call = c, !.writes = W]]
      BY <1>4 DEF StartPick
    <2>2. /\ c \in Calls /\ Parties(c) = Pair(t)
          /\ Born(c) /\ c # NoCall
      BY CallsAssumption DEF InConversation, Born
    <2>3. DocTypes'
      BY <2>1, <2>2, <1>1 DEF HoldInv, DocTypes, StartPick, Task
    <2>4. \A i \in Tasks \ {t} : task'[i] = task[i]
      BY <2>1 DEF HoldInv, DocTypes
    <2>5. /\ task'[t].op = "start" /\ task'[t].call = c
          /\ task'[t].me = task[t].me /\ task'[t].peer = task[t].peer
      BY <2>1, <1>1 DEF HoldInv, DocTypes, Task
    <2>6. ASSUME NEW i \in Tasks, task'[i] # NoTask
          PROVE  /\ (task[i].call # NoCall => Born(task[i].call))'
                 /\ (IF task[i].op = "start"
                     THEN IF task[i].call = NoCall
                          THEN task[i].writes = {"status", "parties"}
                          ELSE Parties(task[i].call) = Pair(i)
                     ELSE task[i].call # NoCall)'
      <3>1. CASE i = t
        BY <3>1, <2>2, <2>5 DEF StartPick, Born, Parties, Pair
      <3>2. CASE i # t
        BY <3>2, <2>4, <2>6 DEF HoldInv, TaskHolds, StartPick, Born, Parties, Pair
      <3>. QED BY <3>1, <3>2
    <2>7. TaskHolds'
      BY <2>6 DEF TaskHolds
    <2>. QED BY <1>2, <2>3, <2>7 DEF HoldInv
  <1>. QED BY <1>3, <1>4

LEMMA CommitHolds ==
  ASSUME HoldInv, NEW t \in Tasks, StartCommit(t)
  PROVE  /\ HoldInv' /\ Keeps
         /\ \E c \in Calls :
              /\ Parties(c)' = Pair(t)
              /\ \A s \in Sockets :
                   /\ sock'[s].state = sock[s].state /\ sock'[s].user = sock[s].user
                   /\ \/ sock'[s].callId = sock[s].callId
                      \/ s = task[t].sock /\ sock[s].state # "closed" /\ sock'[s].callId = c
  <1>. DEFINE h == task[t]
  <1>1. h \in Task /\ h.op = "start" /\ h.sock \in Sockets /\ h # NoTask
    BY RunningTask DEF StartCommit, Running
  <1>2. PICK c \in IF h.call = NoCall THEN Unborn ELSE {h.call}, k \in FreeTimers :
          /\ call' = [call EXCEPT ![c] = Save(@, t)]
          /\ sock' = IF sock[h.sock].state = "closed" THEN sock
                     ELSE [sock EXCEPT ![h.sock] =
                             [@ EXCEPT !.callId = c, !.callTimeout = k]]
    BY DEF StartCommit
  <1>3. c \in Calls /\ k \in Timers
    BY <1>1 DEF Unborn, FreeTimers, Task
  <1>4. h.me \in Users /\ h.peer \in Users
    BY <1>1 DEF Task
  <1>5. call' \in [Calls -> CallDoc]
    BY <1>2, <1>3, <1>4 DEF HoldInv, DocTypes, Save, CallDoc, Status
  <1>6. Parties(c)' = Pair(t) /\ Born(c)'
    <2>1. call'[c] = Save(call[c], t)
      BY <1>2, <1>3 DEF HoldInv, DocTypes
    <2>2. CASE h.call = NoCall
      <3>1. h.writes = {"status", "parties"}
        BY <2>2, <1>1 DEF HoldInv, TaskHolds
      <3>. QED BY <2>1, <3>1 DEF Save, Parties, Pair, Born
    <2>3. CASE h.call # NoCall
      <3>1. call[c].status # "none" /\ Parties(c) = Pair(t)
        BY <2>3, <1>1, <1>2 DEF HoldInv, TaskHolds, Born
      <3>. QED BY <2>1, <3>1 DEF Save, Parties, Pair, Born
    <2>. QED BY <2>2, <2>3
  <1>7. Keeps
    <2>1. call[c].status # "none" => Parties(c) = Pair(t)
      BY <1>1, <1>2 DEF HoldInv, TaskHolds, Unborn
    <2>2. \A d \in Calls \ {c} : call'[d] = call[d]
      BY <1>2, <1>3 DEF HoldInv, DocTypes
    <2>. QED BY <1>6, <2>1, <2>2 DEF Keeps, Parties, Born
  <1>8. /\ sock' \in [Sockets -> Meta]
        /\ \A s \in Sockets :
             /\ sock'[s].state = sock[s].state /\ sock'[s].user = sock[s].user
             /\ \/ sock'[s].callId = sock[s].callId
                \/ s = h.sock /\ sock[s].state # "closed" /\ sock'[s].callId = c
    <2>1. PICK m : m = [sock[h.sock] EXCEPT !.callId = c, !.callTimeout = k]
      OBVIOUS
    <2>2. /\ sock \in [Sockets -> Meta] /\ m \in Meta /\ m.callId = c
          /\ m.state = sock[h.sock].state /\ m.user = sock[h.sock].user
      BY <1>1, <1>3, <2>1 DEF HoldInv, DocTypes, Meta
    <2>3. \/ sock' = sock
          \/ sock[h.sock].state # "closed" /\ sock' = [sock EXCEPT ![h.sock] = m]
      BY <1>2, <2>1
    <2>. QED BY <1>1, <2>2, <2>3
  <1>9. MetaHolds'
    <2> SUFFICES ASSUME NEW s \in Sockets, sock'[s].callId # NoCall
                 PROVE  Born(sock[s].callId)'
      BY DEF MetaHolds
    <2>1. PICK d : d = sock'[s].callId
      OBVIOUS
    <2>2. Born(d)'
      <3>1. CASE d = c
        BY <1>6, <3>1
      <3>2. CASE d = sock[s].callId
        <4>1. d \in Calls
          BY <2>1, <3>2 DEF HoldInv, DocTypes, Meta
        <4>2. Born(d)
          BY <2>1, <3>2 DEF HoldInv, MetaHolds
        <4>. QED BY <1>7, <4>1, <4>2 DEF Keeps
      <3>. QED BY <1>8, <2>1, <3>1, <3>2
    <2>. QED BY <2>1, <2>2 DEF Born
  <1>10. /\ task' \in [Tasks -> Task \cup {NoTask}]
         /\ \A j \in Tasks : task'[j] \in {task[j], NoTask}
    BY DoneType DEF HoldInv, StartCommit
  <1>11. TaskHolds'
    BY <1>7, <1>10, TasksKeep
  <1>. QED BY <1>3, <1>5, <1>6, <1>7, <1>8, <1>9, <1>10, <1>11 DEF HoldInv, DocTypes

-----------------------------------------------------------------------------
LEMMA TimerHolds ==
  ASSUME HoldInv, NEW k \in Timers, timer \in [Timers -> Timer], TimerNext(k)
  PROVE  HoldInv' /\ Keeps
  <1>1. CASE TimerFire(k)
    <2>1. call' = call /\ sock' = sock /\ task' = task
      BY <1>1 DEF TimerFire
    <2>2. call' \in [Calls -> CallDoc] /\ Keeps
      BY <2>1, UnchangedKeeps DEF HoldInv
    <2>. QED BY <2>1, <2>2, QuietStep DEF HoldInv, DocTypes
  <1>2. CASE TimerWrite(k)
    <2>1. timer[k].call \in Calls /\ "timeout" \in Status \ {"none"}
      BY DEF Timer, Status
    <2>2. call' \in [Calls -> CallDoc] /\ Keeps
      BY <1>2, <2>1, SetStatusKeeps DEF HoldInv, TimerWrite
    <2>. QED BY <1>2, <2>2, QuietStep DEF HoldInv, DocTypes, TimerWrite
  <1>. QED BY <1>1, <1>2 DEF TimerNext

(* A socket that opens or is closed has no callId.                           *)
LEMMA SocketHolds ==
  ASSUME HoldInv, NEW s \in Sockets,
         \/ HandleConnection(s) \/ (\E u \in Users : HandleIdentity(s, u))
         \/ HandleDisconnect(s) \/ DisconnectAnonymous(s)
         \/ DisconnectNext(s)
  PROVE  HoldInv' /\ Keeps
  <1>. DEFINE Only(m) == sock' = [sock EXCEPT ![s] = m]
  <1>1. Closed \in Meta /\ Closed.callId = NoCall
        /\ NewMeta \in Meta /\ NewMeta.callId = NoCall
    BY DEF Meta, Closed, NewMeta
  <1>2. sock' \in [Sockets -> Meta]
        /\ \A i \in Sockets : sock'[i].callId \in {sock[i].callId, NoCall}
    <2>1. PICK m \in Meta : Only(m) /\ m.callId \in {sock[s].callId, NoCall}
      <3>1. CASE HandleConnection(s)
        BY <3>1, <1>1 DEF HandleConnection
      <3>2. ASSUME NEW u \in Users, HandleIdentity(s, u)
            PROVE  \E m \in Meta : Only(m) /\ m.callId \in {sock[s].callId, NoCall}
        <4>. DEFINE m == [sock[s] EXCEPT !.user = u]
        <4>1. m \in Meta /\ m.callId = sock[s].callId
          BY DEF HoldInv, DocTypes, Meta
        <4>. QED BY <3>2, <4>1 DEF HandleIdentity
      <3>3. CASE HandleDisconnect(s)
        <4>. DEFINE m(c) == [sock[s] EXCEPT !.state = "ending", !.found = c,
                                            !.callTimeout = NoTimer]
        <4>1. PICK c \in Calls \cup {NoCall} : Only(m(c))
          BY <3>3 DEF HandleDisconnect
        <4>2. sock[s] \in Meta
          BY DEF HoldInv, DocTypes
        <4>3. m(c) \in Meta /\ m(c).callId = sock[s].callId
          BY <4>2 DEF Meta
        <4>. QED BY <4>1, <4>3
      <3>4. CASE DisconnectAnonymous(s)
        BY <3>4, <1>1 DEF DisconnectAnonymous
      <3>5. CASE DisconnectSave(s)
        <4>. DEFINE m == [sock[s] EXCEPT !.state = "marking"]
        <4>1. m \in Meta /\ m.callId = sock[s].callId
          BY DEF HoldInv, DocTypes, Meta
        <4>. QED BY <3>5, <4>1 DEF DisconnectSave
      <3>6. CASE DisconnectMark(s)
        BY <3>6, <1>1 DEF DisconnectMark
      <3>. QED BY <3>1, <3>2, <3>3, <3>4, <3>5, <3>6 DEF DisconnectNext
    <2>. QED BY <2>1 DEF HoldInv, DocTypes
  <1>3. call' \in [Calls -> CallDoc] /\ Keeps
    <2>1. CASE call' = call
      BY <2>1, UnchangedKeeps DEF HoldInv
    <2>2. CASE \E c \in Calls : SetStatus(c, "ended")
      BY <2>2, SetStatusKeeps DEF HoldInv, Status
    <2>3. sock[s].found \in Calls \cup {NoCall} /\ sock[s].callId \in Calls \cup {NoCall}
      BY DEF HoldInv, DocTypes, Meta
    <2>. QED BY <2>1, <2>2, <2>3
         DEF HandleConnection, HandleIdentity, HandleDisconnect,
             DisconnectAnonymous, DisconnectNext, DisconnectSave, DisconnectMark
  <1>4. task' = task
    BY DEF HandleConnection, HandleIdentity, HandleDisconnect,
           DisconnectAnonymous, DisconnectNext, DisconnectSave, DisconnectMark
  <1>. QED BY <1>2, <1>3, <1>4, QuietStep DEF HoldInv, DocTypes

TimersTyped == timer \in [Timers -> Timer]

LEMMA ClearTimeoutType ==
  ASSUME TimersTyped, NEW S, ClearTimeout(S)
  PROVE  TimersTyped'
  BY DEF TimersTyped, ClearTimeout, Timer

LEMMA TimersStayTyped ==
  ASSUME HoldInv, TimersTyped, GatewayNext
  PROVE  TimersTyped'
  <1>1. CASE UNCHANGED timer
    BY <1>1 DEF TimersTyped
  <1>2. CASE \E S : ClearTimeout(S)
    BY <1>2, ClearTimeoutType
  <1>3. ASSUME NEW t \in Tasks, StartCommit(t) PROVE TimersTyped'
    <2>1. PICK c \in IF task[t].call = NoCall THEN Unborn ELSE {task[t].call},
               k \in FreeTimers :
            timer' = [timer EXCEPT ![k] = [state |-> "armed", call |-> c]]
      BY <1>3 DEF StartCommit
    <2>2. task[t] \in Task
      BY <1>3, RunningTask DEF StartCommit
    <2>3. c \in Calls
      BY <2>1, <2>2 DEF Unborn, Task
    <2>. QED BY <2>1, <2>3 DEF TimersTyped, Timer
  <1>4. ASSUME NEW k \in Timers, TimerNext(k) PROVE TimersTyped'
    <2>1. CASE TimerFire(k)
      BY <2>1 DEF TimerFire, TimersTyped, Timer
    <2>2. CASE TimerWrite(k)
      BY <2>2 DEF TimerWrite, TimersTyped, Timer
    <2>. QED BY <1>4, <2>1, <2>2 DEF TimerNext
  <1>5. ASSUME NEW t \in Tasks, TaskNext(t) PROVE TimersTyped'
    <2>1. CASE StartLookup(t) \/ StartPick(t) \/ GiveUp(t)
      BY <1>1, <2>1 DEF StartLookup, StartPick, GiveUp
    <2>2. CASE AcceptCommit(t) \/ DeclineCommit(t) \/ EndCommit(t)
      BY <1>2, <2>2 DEF AcceptCommit, DeclineCommit, EndCommit
    <2>. QED BY <1>3, <1>5, <2>1, <2>2 DEF TaskNext
  <1>6. ASSUME NEW t \in Tasks, NEW h, Event(t, h) PROVE TimersTyped'
    BY <1>1, <1>6 DEF Event
  <1>7. ASSUME NEW s \in Sockets,
               \/ HandleConnection(s) \/ (\E u \in Users : HandleIdentity(s, u))
               \/ HandleDisconnect(s) \/ DisconnectAnonymous(s)
               \/ DisconnectNext(s)
        PROVE  TimersTyped'
    <2>1. CASE HandleDisconnect(s)
      BY <1>2, <2>1 DEF HandleDisconnect
    <2>2. CASE DisconnectNext(s)
      BY <1>1, <2>2 DEF DisconnectNext, DisconnectSave, DisconnectMark
    <2>. QED BY <1>1, <1>7, <2>1, <2>2
         DEF HandleConnection, HandleIdentity, DisconnectAnonymous
  <1>8. CASE ClientNext
    BY <1>6, <1>7, <1>8 DEF ClientNext, HandleStartCall, HandleAnswer, HandleEndCall
  <1>. QED BY <1>4, <1>5, <1>7, <1>8 DEF GatewayNext
-----------------------------------------------------------------------------
(* The inductive invariant: types of what the argument reads, and ownership. *)
CallIdInv == HoldInv /\ TimersTyped

LEMMA NextKeeps == CallIdInv /\ [GatewayNext]_vars => CallIdInv' /\ Keeps
  <1>. SUFFICES ASSUME CallIdInv, [GatewayNext]_vars PROVE CallIdInv' /\ Keeps
    OBVIOUS
  <1>0. HoldInv /\ TimersTyped
    BY DEF CallIdInv
  <1>1. CASE UNCHANGED vars
    <2>1. /\ call' = call /\ sock' = sock /\ task' = task /\ timer' = timer
      BY <1>1 DEF vars, gatewayVars
    <2>2. call' \in [Calls -> CallDoc] /\ Keeps
      BY <1>0, <2>1, UnchangedKeeps DEF HoldInv
    <2>3. HoldInv'
      BY <1>0, <2>1, <2>2, QuietStep DEF HoldInv, DocTypes
    <2>. QED BY <1>0, <2>1, <2>2, <2>3 DEF CallIdInv, TimersTyped
  <1>2. CASE ClientNext
    <2>1. HoldInv' /\ Keeps
      BY <1>0, <1>2, SocketHolds, EventsHolds DEF ClientNext
    <2>. QED BY <1>0, <1>2, <2>1, TimersStayTyped DEF GatewayNext, CallIdInv
  <1>3. CASE \E t \in Tasks : TaskNext(t)
    <2>1. HoldInv' /\ Keeps
      BY <1>0, <1>3, LookupHolds, PickHolds, CommitHolds, AnswersHolds, GiveUpHolds DEF TaskNext
    <2>. QED BY <1>0, <1>3, <2>1, TimersStayTyped DEF GatewayNext, CallIdInv
  <1>4. CASE \E k \in Timers : TimerNext(k)
    BY <1>0, <1>4, TimerHolds, TimersStayTyped DEF TimersTyped, GatewayNext, CallIdInv
  <1>5. CASE \E s \in Sockets : DisconnectNext(s)
    BY <1>0, <1>5, SocketHolds, TimersStayTyped DEF GatewayNext, CallIdInv
  <1>. QED BY <1>1, <1>2, <1>3, <1>4, <1>5 DEF GatewayNext

LEMMA NextHolds == CallIdInv /\ [GatewayNext]_vars => CallIdInv'
  BY NextKeeps

-----------------------------------------------------------------------------
(* Whose call a socket remembers, and for whom its handlers speak.  acceptCall *)
(* of a call between others and a second identity make the socket strayed;   *)
(* all others are kept by what the handlers themselves do.                   *)
Remembers(s) ==
  sock[s].callId # NoCall =>
    sock[s].user # NoUser /\ (s \notin strayed => sock[s].user \in Parties(sock[s].callId))

Speaks(t) ==
  task[t] # NoTask /\ sock[task[t].sock].state # "closed" =>
    /\ sock[task[t].sock].user # NoUser
    /\ task[t].sock \notin strayed =>
         /\ task[t].me = sock[task[t].sock].user
         /\ task[t].op = "accept" => task[t].me \in Parties(task[t].call)

StrayInv == (\A s \in Sockets : Remembers(s)) /\ (\A t \in Tasks : Speaks(t))

(* What a step does to a socket that changes no account: it closes, forgets  *)
(* its call, or remembers one of its user's.                                 *)
Steady(s) ==
  \/ sock'[s].state = "closed" /\ sock'[s].callId = NoCall
  \/ /\ sock'[s].state # "closed" => sock[s].state # "closed"
     /\ sock'[s].user = sock[s].user /\ (s \in strayed => s \in strayed')
     /\ \/ sock'[s].callId \in {sock[s].callId, NoCall}
        \/ \E d \in Calls : /\ sock'[s].callId = d /\ sock[s].user # NoUser
                            /\ s \notin strayed => sock[s].user \in Parties(d)'

(* A handler goes on, or ends.                                               *)
GoesOn(t) ==
  task'[t] # NoTask =>
    /\ task[t] # NoTask
    /\ task'[t].sock = task[t].sock /\ task'[t].me = task[t].me /\ task'[t].op = task[t].op
    /\ task[t].op = "accept" => task'[t].call = task[t].call

LEMMA StrayKept ==
  ASSUME CallIdInv, StrayInv, Keeps, \A s \in Sockets : Steady(s), \A t \in Tasks : GoesOn(t)
  PROVE  StrayInv'
  <1>1. ASSUME NEW s \in Sockets PROVE Remembers(s)'
    <2>. SUFFICES ASSUME sock'[s].callId # NoCall
                  PROVE  /\ sock'[s].user # NoUser
                         /\ s \notin strayed' => sock'[s].user \in Parties(sock[s].callId)'
      BY DEF Remembers
    <2>1. PICK c : c = sock'[s].callId
      OBVIOUS
    <2>2. sock'[s].user = sock[s].user /\ (s \in strayed => s \in strayed')
      BY DEF Steady
    <2>3. CASE c = sock[s].callId
      <3>1. c \in Calls /\ Born(c)
        BY <2>1, <2>3 DEF CallIdInv, HoldInv, DocTypes, Meta, MetaHolds
      <3>2. sock[s].user # NoUser /\ (s \notin strayed => sock[s].user \in Parties(c))
        BY <2>1, <2>3 DEF StrayInv, Remembers
      <3>3. Parties(c)' = Parties(c)
        BY <3>1 DEF Keeps
      <3>. QED BY <2>1, <2>2, <3>2, <3>3 DEF Parties
    <2>4. CASE c # sock[s].callId
      <3>1. PICK d \in Calls : /\ c = d /\ sock[s].user # NoUser
                               /\ s \notin strayed => sock[s].user \in Parties(d)'
        BY <2>1, <2>4 DEF Steady
      <3>. QED BY <2>1, <2>2, <3>1 DEF Parties
    <2>. QED BY <2>3, <2>4
  <1>2. ASSUME NEW t \in Tasks PROVE Speaks(t)'
    <2>. SUFFICES ASSUME task'[t] # NoTask, sock'[task'[t].sock].state # "closed"
                  PROVE  /\ sock'[task'[t].sock].user # NoUser
                         /\ task'[t].sock \notin strayed' =>
                              /\ task'[t].me = sock'[task'[t].sock].user
                              /\ task'[t].op = "accept" => task'[t].me \in Parties(task[t].call)'
      BY DEF Speaks
    <2>1. PICK h, s : h = task[t] /\ s = h.sock
      OBVIOUS
    <2>2. /\ h # NoTask /\ task'[t].sock = s /\ task'[t].me = h.me /\ task'[t].op = h.op
          /\ h.op = "accept" => task'[t].call = h.call
      BY <2>1 DEF GoesOn
    <2>3. h \in Task /\ s \in Sockets
      BY <2>1, <2>2 DEF CallIdInv, HoldInv, DocTypes, Task
    <2>4. /\ sock[s].state # "closed" /\ sock'[s].user = sock[s].user
          /\ s \in strayed => s \in strayed'
      BY <2>2, <2>3 DEF Steady
    <2>5. /\ sock[s].user # NoUser
          /\ s \notin strayed => /\ h.me = sock[s].user
                                 /\ h.op = "accept" => h.me \in Parties(h.call)
      BY <2>1, <2>2, <2>4 DEF StrayInv, Speaks
    <2>6. h.op = "accept" => Parties(h.call)' = Parties(h.call)
      <3>1. h.op = "accept" => h.call \in Calls /\ Born(h.call)
        BY <2>1, <2>2, <2>3 DEF CallIdInv, HoldInv, TaskHolds, Task
      <3>. QED BY <3>1 DEF Keeps
    <2>. QED BY <2>2, <2>4, <2>5, <2>6 DEF Parties
  <1>. QED BY <1>1, <1>2 DEF StrayInv

LEMMA StrayEvents ==
  ASSUME CallIdInv, StrayInv, NEW t \in Tasks, NEW h, Event(t, h)
  PROVE  StrayInv'
  <1>1. ASSUME NEW s \in Sockets PROVE Remembers(s)'
    BY DEF StrayInv, Remembers, Event, Parties
  <1>2. task'[t] = h /\ \A i \in Tasks \ {t} : task'[i] = task[i]
    BY DEF Event, CallIdInv, HoldInv, DocTypes
  <1>3. ASSUME NEW i \in Tasks PROVE Speaks(i)'
    <2>1. CASE i = t
      BY <1>2, <2>1 DEF Speaks, Event, Parties
    <2>2. CASE i # t
      BY <1>2, <2>2 DEF StrayInv, Speaks, Event, Parties
    <2>. QED BY <2>1, <2>2
  <1>. QED BY <1>1, <1>3 DEF StrayInv

(* A socket that takes its first account has neither a call nor handlers; one *)
(* that takes another is strayed.                                            *)
LEMMA StrayOpens ==
  ASSUME CallIdInv, StrayInv, NEW s \in Sockets,
         HandleConnection(s) \/ \E u \in Users : HandleIdentity(s, u)
  PROVE  StrayInv'
  <1>1. UNCHANGED <<call, task>> /\ strayed \subseteq strayed'
    BY DEF HandleConnection, HandleIdentity, history
  <1>2. \A r \in Sockets \ {s} : sock'[r] = sock[r] /\ (r \in strayed <=> r \in strayed')
    BY DEF HandleConnection, HandleIdentity, history, CallIdInv, HoldInv, DocTypes
  <1>3. \/ /\ sock'[s].callId = NoCall
           /\ \A t \in Tasks : task[t] # NoTask => task[t].sock # s
        \/ /\ sock[s].state # "closed" /\ sock'[s].callId = sock[s].callId
           /\ sock'[s].user # NoUser /\ (sock[s].user # NoUser => s \in strayed')
    <2>1. CASE HandleConnection(s)
      BY <2>1 DEF HandleConnection, NewMeta, CallIdInv, HoldInv, DocTypes
    <2>2. ASSUME NEW u \in Users, HandleIdentity(s, u)
          PROVE  /\ sock[s].state # "closed" /\ sock'[s].callId = sock[s].callId
                 /\ sock'[s].user # NoUser /\ (sock[s].user # NoUser => s \in strayed')
      BY <2>2, GatewayAssumption DEF HandleIdentity, CallIdInv, HoldInv, DocTypes, Meta
    <2>. QED BY <2>1, <2>2
  <1>4. ASSUME NEW r \in Sockets PROVE Remembers(r)'
    <2>1. CASE r = s
      BY <1>1, <1>3, <2>1 DEF StrayInv, Remembers, Parties
    <2>2. CASE r # s
      BY <1>1, <1>2, <2>2 DEF StrayInv, Remembers, Parties
    <2>. QED BY <2>1, <2>2
  <1>5. ASSUME NEW t \in Tasks PROVE Speaks(t)'
    <2>1. task[t] # NoTask => task[t].sock \in Sockets
      BY DEF CallIdInv, HoldInv, DocTypes, Task
    <2>2. CASE task[t] # NoTask /\ task[t].sock = s
      BY <1>1, <1>3, <2>2 DEF StrayInv, Speaks
    <2>3. CASE task[t] # NoTask /\ task[t].sock # s
      BY <1>1, <1>2, <2>1, <2>3 DEF StrayInv, Speaks, Parties
    <2>4. CASE task[t] = NoTask
      BY <1>1, <2>4 DEF Speaks
    <2>. QED BY <2>2, <2>3, <2>4
  <1>. QED BY <1>4, <1>5 DEF StrayInv

LEMMA StrayCloses ==
  ASSUME CallIdInv, StrayInv, Keeps, NEW s \in Sockets,
         HandleDisconnect(s) \/ DisconnectAnonymous(s) \/ DisconnectNext(s)
  PROVE  StrayInv'
  <1>0. DocTypes
    BY DEF CallIdInv, HoldInv
  <1>1. task' = task
    BY DEF HandleDisconnect, DisconnectAnonymous, DisconnectNext, DisconnectSave, DisconnectMark
  <1>2. \A r \in Sockets \ {s} : sock'[r] = sock[r] /\ (r \in strayed => r \in strayed')
    BY <1>0 DEF HandleDisconnect, DisconnectAnonymous, DisconnectNext, DisconnectSave, DisconnectMark,
                history, DocTypes
  <1>3. Steady(s)
    <2>1. CASE HandleDisconnect(s)
      <3>1. PICK c : sock' = [sock EXCEPT ![s] = [@ EXCEPT !.state = "ending", !.found = c,
                                                           !.callTimeout = NoTimer]]
        BY <2>1 DEF HandleDisconnect
      <3>2. /\ sock'[s].user = sock[s].user /\ sock'[s].callId = sock[s].callId
            /\ sock[s].state # "closed" /\ strayed' = strayed
        BY <1>0, <2>1, <3>1 DEF HandleDisconnect, history, DocTypes, Meta
      <3>. QED BY <3>2 DEF Steady
    <2>2. CASE DisconnectSave(s)
      BY <1>0, <2>2 DEF DisconnectSave, history, DocTypes, Meta, Steady
    <2>3. CASE DisconnectMark(s) \/ DisconnectAnonymous(s)
      BY <1>0, <2>3 DEF DisconnectMark, DisconnectAnonymous, DocTypes, Closed, NewMeta, Steady
    <2>. QED BY <2>1, <2>2, <2>3 DEF DisconnectNext
  <1>4. \A r \in Sockets : Steady(r)
    BY <1>2, <1>3 DEF Steady
  <1>. QED BY <1>1, <1>4, StrayKept DEF GoesOn

LEMMA StrayTasks ==
  ASSUME CallIdInv, StrayInv, Keeps, NEW t \in Tasks, TaskNext(t)
  PROVE  StrayInv'
  <1>0. DocTypes /\ HoldInv /\ strayed' = strayed
    BY DEF CallIdInv, HoldInv, TaskNext, StartLookup, StartPick, StartCommit, AcceptCommit,
           DeclineCommit, EndCommit, GiveUp, history
  <1>1. CASE StartLookup(t) \/ StartPick(t)
    <2>1. task[t] \in Task /\ task[t].op = "start" /\ task[t] # NoTask
      BY <1>0, <1>1, RunningTask DEF StartLookup, StartPick, Running
    <2>2. \E h : /\ task' = [task EXCEPT ![t] = h]
                 /\ h.sock = task[t].sock /\ h.me = task[t].me /\ h.op = task[t].op
      <3>1. \A c, W, step :
              /\ [task[t] EXCEPT !.step = step].sock = task[t].sock
              /\ [task[t] EXCEPT !.step = step].me = task[t].me
              /\ [task[t] EXCEPT !.step = step].op = task[t].op
              /\ [task[t] EXCEPT !.step = step, !.call = c, !.writes = W].sock = task[t].sock
              /\ [task[t] EXCEPT !.step = step, !.call = c, !.writes = W].me = task[t].me
              /\ [task[t] EXCEPT !.step = step, !.call = c, !.writes = W].op = task[t].op
        BY <2>1 DEF Task
      <3>2. CASE StartLookup(t)
        BY <1>0, <3>1, <3>2 DEF StartLookup, DocTypes
      <3>3. CASE StartPick(t)
        <4>1. \/ task' = [task EXCEPT ![t].step = "found"]
              \/ \E c, W : task' = [task EXCEPT ![t] =
                               [@ EXCEPT !.step = "found", !.call = c, !.writes = W]]
          BY <3>3, Zenon DEF StartPick
        <4>2. CASE task' = [task EXCEPT ![t].step = "found"]
          BY <1>0, <3>1, <4>2 DEF DocTypes
        <4>3. ASSUME NEW c, NEW W, task' = [task EXCEPT ![t] =
                       [@ EXCEPT !.step = "found", !.call = c, !.writes = W]]
              PROVE  \E h : /\ task' = [task EXCEPT ![t] = h]
                            /\ h.sock = task[t].sock /\ h.me = task[t].me /\ h.op = task[t].op
          <5>1. PICK h : h = [task[t] EXCEPT !.step = "found", !.call = c, !.writes = W]
            OBVIOUS
          <5>2. h.sock = task[t].sock /\ h.me = task[t].me /\ h.op = task[t].op
            BY <3>1, <5>1
          <5>. QED BY <4>3, <5>1, <5>2
        <4>. QED BY <4>1, <4>2, <4>3
      <3>. QED BY <1>1, <3>2, <3>3
    <2>3. \A i \in Tasks : GoesOn(i)
      BY <1>0, <2>1, <2>2 DEF DocTypes, GoesOn
    <2>4. \A s \in Sockets : Steady(s)
      BY <1>0, <1>1 DEF StartLookup, StartPick, Steady
    <2>. QED BY <2>3, <2>4, StrayKept
  <1>2. CASE ~(StartLookup(t) \/ StartPick(t))
    <2>1. \A i \in Tasks : GoesOn(i)
      <3>1. \A i \in Tasks : task'[i] \in {task[i], NoTask}
        BY <1>0, <1>2, DoneType DEF TaskNext, StartCommit, AcceptCommit, DeclineCommit, EndCommit, GiveUp
      <3>. QED BY <3>1 DEF GoesOn
    <2>2. \A S : /\ Forget(S) \in [Sockets -> Meta]
                 /\ \A s \in Sockets : /\ Forget(S)[s].state = sock[s].state
                                       /\ Forget(S)[s].user = sock[s].user
                                       /\ Forget(S)[s].callId = sock[s].callId
      <3>1. \A x \in Meta : /\ [x EXCEPT !.callTimeout = NoTimer] \in Meta
                            /\ [x EXCEPT !.callTimeout = NoTimer].state = x.state
                            /\ [x EXCEPT !.callTimeout = NoTimer].user = x.user
                            /\ [x EXCEPT !.callTimeout = NoTimer].callId = x.callId
        BY DEF Meta
      <3>. QED BY <1>0, <3>1 DEF DocTypes, Forget
    <2>3. CASE DeclineCommit(t) \/ EndCommit(t) \/ GiveUp(t)
      <3>1. \A s \in Sockets : /\ sock'[s].state = sock[s].state /\ sock'[s].user = sock[s].user
                               /\ sock'[s].callId = sock[s].callId
        BY <2>2, <2>3 DEF DeclineCommit, EndCommit, GiveUp
      <3>. QED BY <1>0, <2>1, <3>1, StrayKept DEF Steady
    <2>4. ASSUME task[t] # NoTask, task[t].sock \in Sockets, NEW c \in Calls,
                 sock[task[t].sock].state # "closed" /\ task[t].sock \notin strayed =>
                   sock[task[t].sock].user \in Parties(c)',
                 \A s \in Sockets :
                   /\ sock'[s].state = sock[s].state /\ sock'[s].user = sock[s].user
                   /\ \/ sock'[s].callId = sock[s].callId
                      \/ s = task[t].sock /\ sock[s].state # "closed" /\ sock'[s].callId = c
          PROVE  StrayInv'
      <3>1. sock[task[t].sock].state # "closed" => sock[task[t].sock].user # NoUser
        BY <2>4 DEF StrayInv, Speaks
      <3>2. \A s \in Sockets : Steady(s)
        BY <1>0, <2>4, <3>1 DEF Steady
      <3>. QED BY <2>1, <3>2, StrayKept
    <2>5. CASE StartCommit(t)
      <3>1. task[t] # NoTask /\ task[t].sock \in Sockets
        BY <1>0, <2>5, RunningTask DEF StartCommit, Running
      <3>2. PICK c \in Calls :
              /\ Parties(c)' = Pair(t)
              /\ \A s \in Sockets :
                   /\ sock'[s].state = sock[s].state /\ sock'[s].user = sock[s].user
                   /\ \/ sock'[s].callId = sock[s].callId
                      \/ s = task[t].sock /\ sock[s].state # "closed" /\ sock'[s].callId = c
        BY <1>0, <2>5, CommitHolds
      <3>3. sock[task[t].sock].state # "closed" /\ task[t].sock \notin strayed =>
              sock[task[t].sock].user \in Parties(c)'
        BY <3>1, <3>2 DEF StrayInv, Speaks, Pair
      <3>. QED BY <2>4, <3>1, <3>2, <3>3
    <2>6. CASE AcceptCommit(t)
      <3>1. task[t] # NoTask /\ task[t].op = "accept" /\ task[t] \in Task /\ task[t].sock \in Sockets
        BY <1>0, <2>6, RunningTask DEF AcceptCommit, Running
      <3>2. PICK c \in Calls : c = task[t].call /\ Born(c)
        BY <1>0, <3>1 DEF HoldInv, TaskHolds, Task
      <3>3. Parties(c)' = Parties(c)
        BY <3>2 DEF Keeps
      <3>4. PICK m, i : /\ m = Forget(FirstSocket(task[t].peer)) /\ i = task[t].sock
                       /\ sock' = SetCallId(m, i, c)
        BY <2>6, <3>2 DEF AcceptCommit
      <3>5. m \in [Sockets -> Meta] /\ \A s \in Sockets : m[s].state = sock[s].state
                                     /\ m[s].user = sock[s].user /\ m[s].callId = sock[s].callId
        BY <2>2, <3>4
      <3>6. \A s \in Sockets :
              /\ sock'[s].state = sock[s].state /\ sock'[s].user = sock[s].user
              /\ \/ sock'[s].callId = sock[s].callId
                 \/ s = task[t].sock /\ sock[s].state # "closed" /\ sock'[s].callId = c
        BY <3>1, <3>4, <3>5 DEF SetCallId, Meta
      <3>7. sock[task[t].sock].state # "closed" /\ task[t].sock \notin strayed =>
              sock[task[t].sock].user \in Parties(c)'
        BY <3>1, <3>2, <3>3 DEF StrayInv, Speaks
      <3>. QED BY <2>4, <3>1, <3>6, <3>7
    <2>. QED BY <1>2, <2>3, <2>5, <2>6 DEF TaskNext
  <1>. QED BY <1>1, <1>2

(* A step that touches nothing of the gateway and keeps the documents.       *)
LEMMA StrayAside ==
  ASSUME CallIdInv, StrayInv, Keeps, UNCHANGED <<sock, task, strayed>>
  PROVE  StrayInv'
  BY StrayKept DEF Steady, GoesOn

LEMMA StrayStep == CallIdInv /\ StrayInv /\ [GatewayNext]_vars => StrayInv'
  <1>. SUFFICES ASSUME CallIdInv, StrayInv, [GatewayNext]_vars PROVE StrayInv'
    OBVIOUS
  <1>0. Keeps
    BY NextKeeps
  <1>1. CASE UNCHANGED vars \/ \E k \in Timers : TimerNext(k)
    BY <1>0, <1>1, StrayAside DEF vars, gatewayVars, history, TimerNext, TimerFire, TimerWrite
  <1>2. CASE ClientNext
    BY <1>0, <1>2, StrayEvents, StrayOpens, StrayCloses
       DEF ClientNext, HandleStartCall, HandleAnswer, HandleEndCall
  <1>3. CASE \E t \in Tasks : TaskNext(t)
    BY <1>0, <1>3, StrayTasks
  <1>4. CASE \E s \in Sockets : DisconnectNext(s)
    BY <1>0, <1>4, StrayCloses
  <1>. QED BY <1>1, <1>2, <1>3, <1>4 DEF GatewayNext

LEMMA CallIdStart == Init => CallIdInv /\ StrayInv
  <1>1. Init => CallIdInv
    BY InitHolds DEF Init, GatewayInit, TimersTyped, Timer, CallIdInv
  <1>2. Init => StrayInv
    BY DEF Init, GatewayInit, StrayInv, Remembers, Speaks, Closed, NewMeta
  <1>. QED BY <1>1, <1>2

LEMMA StrayTells == StrayInv => CallIdIsOwn
  BY DEF StrayInv, Remembers, CallIdIsOwn

(* meta.callId, by which a disconnect ends a call without looking at it,     *)
(* names a call of the user who disconnects, unless that socket has accepted *)
(* a call between others or has changed its account: whoever else answers,   *)
(* ends or starts calls over it, and whatever is in flight.                  *)
THEOREM EndsOnlyOwnCalls == Spec => []CallIdIsOwn
  BY CallIdStart, NextHolds, StrayStep, StrayTells, PTL DEF Spec

-----------------------------------------------------------------------------
(* One handler at a time: no event is handled while another one is in        *)
(* flight, or there is one handler to handle them.  Timers and disconnects   *)
(* still run between its steps in the second case.  Then what startCall      *)
(* looked up still holds when it saves, and a conversation has one document. *)
OneHandler == ~Overlapping \/ \A t, r \in Tasks : t = r

(* Nothing a step does creates a document or changes whose it is.            *)
Frozen ==
  \A c \in Calls : /\ Born(c)' <=> Born(c)
                   /\ call'[c].caller = call[c].caller /\ call'[c].callee = call[c].callee

Lone == \A t, r \in Tasks : task[t] # NoTask /\ task[r] # NoTask => t = r

Unique ==
  \A c, d \in Calls : Born(c) /\ Born(d) /\ Parties(c) = Parties(d) => c = d

TwoParties == \A c \in Calls : Born(c) => call[c].caller # call[c].callee

(* What a handler of startCall has found out.                                *)
Knows(h) ==
  h.op = "start" =>
    /\ h.peer # h.me
    /\ h.step = "found" /\ h.call = NoCall =>
         \A c \in Calls : Born(c) => Parties(c) # {h.me, h.peer}

Refers ==
  /\ \A s \in Sockets : sock[s].state = "ending" /\ sock[s].found # NoCall => Born(sock[s].found)
  /\ \A k \in Timers : timer[k].state # "free" => Born(timer[k].call)

DocInv ==
  /\ Lone /\ Unique /\ TwoParties /\ Refers
  /\ \A t \in Tasks : task[t] # NoTask => Knows(task[t])

LEMMA StatusFreezes ==
  ASSUME DocTypes, NEW c \in Calls, Born(c), NEW s \in Status \ {"none"}, SetStatus(c, s)
  PROVE  Frozen /\ call'[c].status = s
  BY DEF DocTypes, SetStatus, CallDoc, Frozen, Born

(* A step that creates nothing and starts no handler.                        *)
LEMMA DocKept ==
  ASSUME CallIdInv, DocInv, Frozen, \A t \in Tasks : task'[t] \in {task[t], NoTask},
         \A s \in Sockets : sock'[s].state = "ending" =>
           sock'[s].found = NoCall \/ (sock'[s].found \in Calls /\ Born(sock'[s].found)),
         \A k \in Timers : timer'[k].state # "free" =>
             timer[k].state # "free" /\ timer'[k].call = timer[k].call
  PROVE  DocInv'
  <1>1. \A c \in Calls : (Born(c)' <=> Born(c)) /\ Parties(c)' = Parties(c)
    BY DEF Frozen, Parties
  <1>2. Lone' /\ Unique' /\ TwoParties'
    BY <1>1 DEF DocInv, Lone, Unique, TwoParties, Frozen
  <1>3. Refers'
    <2>1. \A k \in Timers : timer[k].call \in Calls
      BY DEF CallIdInv, TimersTyped, Timer
    <2>2. \A c \in Calls : Born(c) => call'[c].status # "none"
      BY <1>1 DEF Born
    <2>3. \A s \in Sockets : sock'[s].state = "ending" /\ sock'[s].found # NoCall =>
            call'[sock'[s].found].status # "none"
      BY <2>2
    <2>4. \A k \in Timers : timer'[k].state # "free" => call'[timer'[k].call].status # "none"
      BY <2>1, <2>2 DEF DocInv, Refers
    <2>. QED BY <2>3, <2>4 DEF Refers, Born
  <1>4. ASSUME NEW t \in Tasks, task'[t] # NoTask PROVE Knows(task[t])'
    <2>1. task'[t] = task[t] /\ Knows(task[t])
      BY <1>4 DEF DocInv
    <2>. QED BY <1>1, <2>1 DEF Knows
  <1>. QED BY <1>2, <1>3, <1>4 DEF DocInv

LEMMA SameFrozen == ASSUME call' = call PROVE Frozen
  BY DEF Frozen, Born

LEMMA ClearedKept ==
  ASSUME TimersTyped, NEW S, ClearTimeout(S)
  PROVE  \A k \in Timers : /\ timer'[k].call = timer[k].call
                           /\ timer'[k].state # "free" => timer'[k].state = timer[k].state
  BY DEF TimersTyped, Timer, ClearTimeout

LEMMA RefersOf ==
  ASSUME CallIdInv, DocInv
  PROVE  /\ \A s \in Sockets : sock[s].state = "ending" =>
              sock[s].found = NoCall \/ (sock[s].found \in Calls /\ Born(sock[s].found))
         /\ \A s \in Sockets : sock[s].callId # NoCall =>
              sock[s].callId \in Calls /\ Born(sock[s].callId)
         /\ \A k \in Timers : timer[k].state # "free" =>
              timer[k].call \in Calls /\ Born(timer[k].call)
         /\ \A t \in Tasks : task[t] # NoTask /\ task[t].call # NoCall =>
              task[t].call \in Calls /\ Born(task[t].call)
  BY DEF CallIdInv, HoldInv, DocTypes, MetaHolds, TaskHolds, Born, DocInv, Refers,
         Meta, Task, TimersTyped, Timer

(* acceptCall, declineCall, endCall and an error answer.                     *)
LEMMA DocAnswers ==
  ASSUME CallIdInv, DocInv, NEW t \in Tasks,
         AcceptCommit(t) \/ DeclineCommit(t) \/ EndCommit(t) \/ GiveUp(t)
  PROVE  DocInv'
  <1>0. HoldInv /\ DocTypes /\ TimersTyped
    BY DEF CallIdInv, HoldInv
  <1>1. \A i \in Tasks : task'[i] \in {task[i], NoTask}
    BY <1>0, DoneType DEF AcceptCommit, DeclineCommit, EndCommit, GiveUp
  <1>2. CASE GiveUp(t)
    BY <1>1, <1>2, SameFrozen, RefersOf, DocKept DEF GiveUp
  <1>3. CASE AcceptCommit(t) \/ DeclineCommit(t) \/ EndCommit(t)
    <2>1. PICK st \in Status \ {"none"} : SetStatus(task[t].call, st)
      BY <1>3 DEF AcceptCommit, DeclineCommit, EndCommit, Status
    <2>2. task[t].call \in Calls /\ Born(task[t].call) /\ task[t].sock \in Sockets
      <3>1. task[t] # NoTask /\ task[t].op # "start" /\ task[t] \in Task
        BY <1>0, <1>3, RunningTask DEF AcceptCommit, DeclineCommit, EndCommit, Running
      <3>2. task[t].call # NoCall
        BY <1>0, <3>1 DEF HoldInv, TaskHolds
      <3>. QED BY <3>1, <3>2, RefersOf DEF Task
    <2>3. Frozen
      BY <1>0, <2>1, <2>2, StatusFreezes
    <2>4. PICK S : /\ ClearTimeout(S)
                   /\ sock' \in {Forget(S), SetCallId(Forget(S), task[t].sock, task[t].call)}
      BY <1>3 DEF AcceptCommit, DeclineCommit, EndCommit
    <2>5. \A s \in Sockets : sock'[s].state = sock[s].state /\ sock'[s].found = sock[s].found
      BY <1>0, <2>2, <2>4 DEF DocTypes, Meta, Forget, SetCallId
    <2>6. \A k \in Timers : timer'[k].state # "free" =>
            timer[k].state # "free" /\ timer'[k].call = timer[k].call
      BY <1>0, <2>4, ClearedKept
    <2>. QED BY <1>1, <2>3, <2>5, <2>6, RefersOf, DocKept
  <1>. QED BY <1>2, <1>3

LEMMA DocTimers ==
  ASSUME CallIdInv, DocInv, NEW k \in Timers, TimerNext(k)
  PROVE  DocInv'
  <1>0. DocTypes /\ TimersTyped
    BY DEF CallIdInv, HoldInv
  <1>1. UNCHANGED <<sock, task>>
    BY DEF TimerNext, TimerFire, TimerWrite
  <1>2. Frozen
    <2>1. CASE TimerFire(k)
      BY <2>1, SameFrozen DEF TimerFire
    <2>2. CASE TimerWrite(k)
      <3>1. timer[k].call \in Calls /\ Born(timer[k].call) /\ "timeout" \in Status \ {"none"}
        BY <2>2, RefersOf DEF TimerWrite, Status
      <3>. QED BY <1>0, <2>2, <3>1, StatusFreezes DEF TimerWrite
    <2>. QED BY <2>1, <2>2 DEF TimerNext
  <1>3. \A i \in Timers : timer'[i].state # "free" =>
          timer[i].state # "free" /\ timer'[i].call = timer[i].call
    BY <1>0 DEF TimerNext, TimerFire, TimerWrite, TimersTyped, Timer
  <1>. QED BY <1>1, <1>2, <1>3, RefersOf, DocKept

LEMMA DocSockets ==
  ASSUME CallIdInv, DocInv, NEW s \in Sockets,
         \/ HandleConnection(s) \/ (\E u \in Users : HandleIdentity(s, u))
         \/ HandleDisconnect(s) \/ DisconnectAnonymous(s)
         \/ DisconnectNext(s)
  PROVE  DocInv'
  <1>0. DocTypes /\ TimersTyped
    BY DEF CallIdInv, HoldInv
  <1>1. task' = task
    BY DEF HandleConnection, HandleIdentity, HandleDisconnect, DisconnectAnonymous,
           DisconnectNext, DisconnectSave, DisconnectMark
  <1>2. Frozen
    <2>1. CASE call' = call
      BY <2>1, SameFrozen
    <2>2. ASSUME NEW c \in Calls, Born(c), SetStatus(c, "ended") PROVE Frozen
      BY <1>0, <2>2, StatusFreezes DEF Status
    <2>. QED BY <2>1, <2>2, RefersOf
         DEF HandleConnection, HandleIdentity, HandleDisconnect,
             DisconnectAnonymous, DisconnectNext, DisconnectSave, DisconnectMark
  <1>3. \A k \in Timers : timer'[k].state # "free" =>
          timer[k].state # "free" /\ timer'[k].call = timer[k].call
    <2>1. timer' = timer \/ \E S : ClearTimeout(S)
      BY DEF HandleConnection, HandleIdentity, HandleDisconnect, DisconnectAnonymous,
             DisconnectNext, DisconnectSave, DisconnectMark
    <2>. QED BY <1>0, <2>1, ClearedKept
  <1>4. \A r \in Sockets \ {s} : sock'[r] = sock[r]
    BY <1>0 DEF DocTypes, HandleConnection, HandleIdentity, HandleDisconnect,
            DisconnectAnonymous, DisconnectNext, DisconnectSave, DisconnectMark
  <1>5. sock'[s].state = "ending" =>
          sock'[s].found = NoCall \/ (sock'[s].found \in Calls /\ Born(sock'[s].found))
    <2>1. CASE HandleDisconnect(s)
      <3>1. PICK c : /\ c = NoCall \/ (c \in Calls /\ Born(c))
                     /\ sock' = [sock EXCEPT ![s] = [@ EXCEPT !.state = "ending", !.found = c,
                                                              !.callTimeout = NoTimer]]
        BY <2>1 DEF HandleDisconnect, Born
      <3>. QED BY <1>0, <3>1 DEF DocTypes, Meta
    <2>2. ASSUME NEW u \in Users, HandleIdentity(s, u)
          PROVE  sock'[s].state = sock[s].state /\ sock'[s].found = sock[s].found
      BY <1>0, <2>2 DEF HandleIdentity, DocTypes, Meta
    <2>3. CASE HandleConnection(s) \/ DisconnectAnonymous(s) \/ DisconnectNext(s)
      BY <1>0, <2>3 DEF DocTypes, Meta, HandleConnection, DisconnectAnonymous, DisconnectNext,
                        DisconnectSave, DisconnectMark, Closed, NewMeta
    <2>. QED BY <2>1, <2>2, <2>3, RefersOf
  <1>. QED BY <1>1, <1>2, <1>3, <1>4, <1>5, RefersOf, DocKept

(* A handler starts, or goes on without writing.                             *)
LEMMA DocTask ==
  ASSUME CallIdInv, DocInv, NEW t \in Tasks, NEW h, task' = [task EXCEPT ![t] = h], Knows(h),
         UNCHANGED <<call, sock, timer>>, \A r \in Tasks \ {t} : task[r] = NoTask
  PROVE  DocInv'
  <1>1. task'[t] = h /\ \A r \in Tasks \ {t} : task'[r] = NoTask
    BY DEF CallIdInv, HoldInv, DocTypes
  <1>2. Lone' /\ Unique' /\ TwoParties' /\ Refers'
    BY <1>1 DEF DocInv, Lone, Unique, TwoParties, Refers, Born, Parties
  <1>3. Knows(h)'
    BY DEF Knows, Born, Parties
  <1>4. \A i \in Tasks : task'[i] # NoTask => i = t
    BY <1>1
  <1>5. Knows(task[t])'
    BY <1>1, <1>3 DEF Knows
  <1>6. \A i \in Tasks : task'[i] # NoTask => Knows(task[i])'
    BY <1>4, <1>5
  <1>. QED BY <1>2, <1>6 DEF DocInv

LEMMA DocEvents ==
  ASSUME OneHandler, CallIdInv, DocInv, NEW t \in Tasks, NEW s \in Sockets,
         \/ \E peer \in Users : HandleStartCall(t, s, peer)
         \/ \E op \in {"accept", "decline"} : HandleAnswer(t, op, s)
         \/ HandleEndCall(t, s)
  PROVE  DocInv'
  <1>1. PICK h \in Task :
          /\ Event(t, h)
          /\ h.op = "start" => h.peer # h.me /\ h.step = "begun"
    BY EventKinds DEF CallIdInv, HoldInv
  <1>2. Knows(h)
    BY <1>1 DEF Knows
  <1>3. task[t] = NoTask /\ task' = [task EXCEPT ![t] = h] /\ UNCHANGED <<call, sock, timer>>
    BY <1>1 DEF Event
  <1>4. \A r \in Tasks \ {t} : task[r] = NoTask
    BY <1>1 DEF OneHandler, Event, MayRun, Quiet
  <1>. QED BY <1>2, <1>3, <1>4, DocTask

LEMMA DocLooks ==
  ASSUME CallIdInv, DocInv, NEW t \in Tasks, StartLookup(t) \/ StartPick(t)
  PROVE  DocInv'
  <1>. DEFINE docs == InConversation(Pair(t), Status \ {"none"})
  <1>0. HoldInv /\ DocTypes
    BY DEF CallIdInv, HoldInv
  <1>1. PICK h : h = task[t]
    OBVIOUS
  <1>2. /\ h \in Task /\ h.op = "start" /\ h # NoTask /\ Knows(h)
        /\ UNCHANGED <<call, sock, timer>>
    BY <1>0, <1>1, RunningTask DEF StartLookup, StartPick, Running, DocInv
  <1>3. \A r \in Tasks \ {t} : task[r] = NoTask
    BY <1>1, <1>2 DEF DocInv, Lone
  <1>4. ASSUME NEW step \in {"free", "found"}, task' = [task EXCEPT ![t].step = step],
               step = "found" => docs = {}
        PROVE  DocInv'
    <2>1. PICK y : y = [h EXCEPT !.step = step]
      OBVIOUS
    <2>2. y.step = step /\ y.me = h.me /\ y.peer = h.peer /\ y.op = h.op /\ y.call = h.call
      BY <1>2, <2>1 DEF Task
    <2>3. task' = [task EXCEPT ![t] = y]
      BY <1>1, <1>4, <2>1
    <2>4. docs = {} => \A c \in Calls : Born(c) => Parties(c) # Pair(t)
      BY <1>0 DEF DocTypes, CallDoc, InConversation, Born
    <2>5. Knows(y)
      BY <1>1, <1>2, <1>4, <2>2, <2>4 DEF Knows, Pair
    <2>. QED BY <1>2, <1>3, <2>3, <2>5, DocTask
  <1>5. CASE StartLookup(t)
    BY <1>4, <1>5 DEF StartLookup
  <1>6. CASE StartPick(t) /\ docs = {}
    BY <1>4, <1>6 DEF StartPick
  <1>7. CASE StartPick(t) /\ docs # {}
    <2>1. PICK c \in docs, W \in SUBSET {"status", "parties"} :
            task' = [task EXCEPT ![t] =
                       [@ EXCEPT !.step = "found", !.call = c, !.writes = W]]
      BY <1>7 DEF StartPick
    <2>2. PICK y : y = [h EXCEPT !.step = "found", !.call = c, !.writes = W]
      OBVIOUS
    <2>3. y.me = h.me /\ y.peer = h.peer /\ y.op = h.op /\ y.call = c
      BY <1>2, <2>2 DEF Task
    <2>4. task' = [task EXCEPT ![t] = y]
      BY <1>1, <2>1, <2>2
    <2>5. Knows(y)
      BY <1>2, <2>3, CallsAssumption DEF Knows, InConversation
    <2>. QED BY <1>2, <1>3, <2>4, <2>5, DocTask
  <1>. QED BY <1>5, <1>6, <1>7

(* The document created or written over.                                     *)
LEMMA Committed ==
  ASSUME CallIdInv, DocInv, NEW t \in Tasks, StartCommit(t)
  PROVE  \E c \in Calls, k \in Timers :
           /\ Born(c)' /\ Parties(c)' = Pair(t)
           /\ Born(c) => Parties(c) = Pair(t)
           /\ ~Born(c) => \A d \in Calls : Born(d) => Parties(d) # Pair(t)
           /\ \A d \in Calls \ {c} : call'[d] = call[d]
           /\ timer[k].state = "free" /\ timer' = [timer EXCEPT ![k] = [state |-> "armed", call |-> c]]
           /\ \A s \in Sockets : sock'[s].state = sock[s].state /\ sock'[s].found = sock[s].found
           /\ task[t] # NoTask /\ task[t].peer # task[t].me /\ task' = [task EXCEPT ![t] = NoTask]
  <1>. DEFINE h == task[t]
  <1>0. HoldInv /\ DocTypes /\ TimersTyped
    BY DEF CallIdInv, HoldInv
  <1>1. h \in Task /\ h.op = "start" /\ h.sock \in Sockets /\ h # NoTask /\ h.step = "found"
    BY <1>0, RunningTask DEF StartCommit, Running
  <1>2. PICK c \in IF h.call = NoCall THEN Unborn ELSE {h.call}, k \in FreeTimers :
          /\ call' = [call EXCEPT ![c] = Save(@, t)]
          /\ timer' = [timer EXCEPT ![k] = [state |-> "armed", call |-> c]]
          /\ sock' = IF sock[h.sock].state = "closed" THEN sock
                     ELSE [sock EXCEPT ![h.sock] =
                             [@ EXCEPT !.callId = c, !.callTimeout = k]]
    BY DEF StartCommit
  <1>3. c \in Calls /\ k \in Timers /\ timer[k].state = "free"
    BY <1>1, <1>2 DEF Unborn, FreeTimers, Task
  <1>4. Knows(h)
    BY <1>1 DEF DocInv
  <1>5. /\ Born(c) => Parties(c) = Pair(t)
        /\ ~Born(c) => \A d \in Calls : Born(d) => Parties(d) # Pair(t)
    BY <1>0, <1>1, <1>2, <1>4 DEF HoldInv, TaskHolds, Unborn, Born, Knows, Pair
  <1>6. Born(c)' /\ Parties(c)' = Pair(t)
    <2>1. call'[c] = Save(call[c], t)
      BY <1>0, <1>2, <1>3 DEF DocTypes
    <2>2. CASE h.call = NoCall
      <3>1. h.writes = {"status", "parties"}
        BY <1>0, <2>2, <1>1 DEF HoldInv, TaskHolds
      <3>. QED BY <2>1, <3>1 DEF Save, Parties, Pair, Born
    <2>3. CASE h.call # NoCall
      <3>1. call[c].status # "none" /\ Parties(c) = Pair(t)
        BY <1>0, <2>3, <1>1, <1>2 DEF HoldInv, TaskHolds, Born
      <3>. QED BY <2>1, <3>1 DEF Save, Parties, Pair, Born
    <2>. QED BY <2>2, <2>3
  <1>7. \A d \in Calls \ {c} : call'[d] = call[d]
    BY <1>0, <1>2, <1>3 DEF DocTypes
  <1>8. \A s \in Sockets : sock'[s].state = sock[s].state /\ sock'[s].found = sock[s].found
    BY <1>0, <1>1, <1>2 DEF DocTypes, Meta
  <1>9. h.peer # h.me /\ task' = [task EXCEPT ![t] = NoTask]
    BY <1>1, <1>4 DEF Knows, StartCommit, Done
  <1>. QED BY <1>1, <1>2, <1>3, <1>5, <1>6, <1>7, <1>8, <1>9

LEMMA DocCommits ==
  ASSUME CallIdInv, DocInv, NEW t \in Tasks, StartCommit(t)
  PROVE  DocInv'
  <1>0. HoldInv /\ DocTypes /\ TimersTyped
    BY DEF CallIdInv, HoldInv
  <1>1. PICK c \in Calls, k \in Timers :
           /\ Born(c)' /\ Parties(c)' = Pair(t)
           /\ Born(c) => Parties(c) = Pair(t)
           /\ ~Born(c) => \A d \in Calls : Born(d) => Parties(d) # Pair(t)
           /\ \A d \in Calls \ {c} : call'[d] = call[d]
           /\ timer[k].state = "free" /\ timer' = [timer EXCEPT ![k] = [state |-> "armed", call |-> c]]
           /\ \A s \in Sockets : sock'[s].state = sock[s].state /\ sock'[s].found = sock[s].found
           /\ task[t] # NoTask /\ task[t].peer # task[t].me /\ task' = [task EXCEPT ![t] = NoTask]
    BY Committed
  <1>2. \A d \in Calls \ {c} : (Born(d)' <=> Born(d)) /\ Parties(d)' = Parties(d)
    BY <1>1 DEF Born, Parties
  <1>3. \A d \in Calls \ {c} : Born(d) => Parties(d) # Pair(t)
    BY <1>1 DEF DocInv, Unique
  <1>4. Unique'
    BY <1>1, <1>2, <1>3 DEF DocInv, Unique
  <1>5. TwoParties'
    <2>1. call'[c].caller # call'[c].callee
      BY <1>1 DEF Parties, Pair
    <2>. QED BY <1>1, <1>2, <2>1 DEF DocInv, TwoParties, Born
  <1>6. \A i \in Tasks : task'[i] = NoTask
    BY <1>0, <1>1 DEF DocInv, Lone, DocTypes
  <1>7. \A d \in Calls : Born(d) => call'[d].status # "none"
    BY <1>1 DEF Born
  <1>8. \A s \in Sockets : sock'[s].state = "ending" /\ sock'[s].found # NoCall =>
          call'[sock'[s].found].status # "none"
    BY <1>1, <1>7, RefersOf
  <1>9. \A i \in Timers : timer'[i].state # "free" => call'[timer'[i].call].status # "none"
    <2>1. call'[c].status # "none"
      BY <1>1 DEF Born
    <2>2. timer'[k].call = c /\ \A i \in Timers \ {k} : timer'[i] = timer[i]
      BY <1>0, <1>1 DEF TimersTyped, Timer
    <2>. QED BY <1>7, <2>1, <2>2, RefersOf
  <1>10. Refers'
    BY <1>8, <1>9 DEF Refers, Born
  <1>. QED BY <1>4, <1>5, <1>6, <1>10 DEF DocInv, Lone

LEMMA DocStep ==
  ASSUME OneHandler, CallIdInv, DocInv, [GatewayNext]_vars
  PROVE  DocInv'
  <1>1. CASE UNCHANGED vars
    <2>1. UNCHANGED <<call, sock, task, timer>>
      BY <1>1 DEF vars, gatewayVars
    <2>. QED BY <2>1, SameFrozen, RefersOf, DocKept
  <1>2. CASE ClientNext
    BY <1>2, DocSockets, DocEvents DEF ClientNext
  <1>3. CASE \E t \in Tasks : TaskNext(t)
    BY <1>3, DocLooks, DocCommits, DocAnswers DEF TaskNext
  <1>4. CASE \E k \in Timers : TimerNext(k)
    BY <1>4, DocTimers
  <1>5. CASE \E s \in Sockets : DisconnectNext(s)
    BY <1>5, DocSockets
  <1>. QED BY <1>1, <1>2, <1>3, <1>4, <1>5 DEF GatewayNext

LEMMA DocStart == Init => DocInv
  BY DEF Init, CallsInit, GatewayInit, DocInv, Lone, Unique, TwoParties, Refers, Born,
         Closed, NewMeta

(* One handler at a time, a conversation has at most one document, whatever  *)
(* timers and disconnects run between the steps of startCall: no unique      *)
(* index says so, only the two look-ups of findOrCreateCall.                 *)
THEOREM OneDocumentOneByOne ==
  ASSUME OneHandler
  PROVE  Spec => []OneDocument
  <1>1. Init => CallIdInv /\ DocInv
    BY CallIdStart, DocStart
  <1>2. CallIdInv /\ DocInv /\ [GatewayNext]_vars => (CallIdInv /\ DocInv)'
    BY NextHolds, DocStep
  <1>3. DocInv => OneDocument
    BY DEF DocInv, Unique, Born, OneDocument, Unborn
  <1>. QED BY <1>1, <1>2, <1>3, PTL DEF Spec

-----------------------------------------------------------------------------
(* Whatever will end a CALLING call: its timer, or the disconnect that has    *)
(* just found it.                                                            *)
Active == {"calling", "connected"}
Ticks(k, c) == timer[k].state \in {"armed", "writing"} /\ timer[k].call = c
Ending(s, c) == sock[s].state = "ending" /\ sock[s].found = c

Timed(c) == (\E k \in Timers : Ticks(k, c)) \/ (\E s \in Sockets : Ending(s, c))
TimedInv == \A c \in Calls : call[c].status = "calling" => Timed(c)

(* A step that starts no call.                                               *)
Starts == \E c \in Calls : call'[c].status = "calling" /\ call[c].status # "calling"

LEMMA TimedKept ==
  ASSUME TimedInv, ~Starts,
         \A c \in Calls : call'[c].status = "calling" =>
           /\ \A k \in Timers : Ticks(k, c) => Ticks(k, c)'
           /\ \A s \in Sockets : Ending(s, c) => Ending(s, c)'
  PROVE  TimedInv'
  <1>. SUFFICES ASSUME NEW c \in Calls, call'[c].status = "calling" PROVE Timed(c)'
    BY DEF TimedInv
  <1>1. Timed(c)
    BY DEF TimedInv, Starts
  <1>. QED BY <1>1 DEF Timed

(* A step that touches neither calls nor sockets nor timers.                 *)
LEMMA TimedAside == ASSUME TimedInv, UNCHANGED <<call, sock, timer>> PROVE TimedInv'
  BY TimedKept DEF Starts, Ticks, Ending

(* startCall's save sets the timer of its call, whoever holds it.            *)
LEMMA TimedStart ==
  ASSUME CallIdInv, DocInv, TimedInv, NEW t \in Tasks, StartCommit(t)
  PROVE  TimedInv'
  <1>0. TimersTyped
    BY DEF CallIdInv
  <1>1. PICK c \in Calls, k \in Timers :
           /\ \A d \in Calls \ {c} : call'[d] = call[d]
           /\ timer[k].state = "free" /\ timer' = [timer EXCEPT ![k] = [state |-> "armed", call |-> c]]
           /\ \A s \in Sockets : sock'[s].state = sock[s].state /\ sock'[s].found = sock[s].found
    BY Committed
  <1>2. timer'[k].state = "armed" /\ timer'[k].call = c /\ \A i \in Timers \ {k} : timer'[i] = timer[i]
    BY <1>0, <1>1 DEF TimersTyped
  <1>3. ASSUME NEW d \in Calls, call'[d].status = "calling" PROVE Timed(d)'
    <2>1. CASE d = c
      BY <1>2, <2>1 DEF Timed, Ticks
    <2>2. CASE d # c
      <3>1. Timed(d)
        BY <1>1, <1>3, <2>2 DEF TimedInv
      <3>2. \A i \in Timers : Ticks(i, d) => Ticks(i, d)'
        BY <1>1, <1>2 DEF Ticks
      <3>3. \A s \in Sockets : Ending(s, d) => Ending(s, d)'
        BY <1>1 DEF Ending
      <3>. QED BY <3>1, <3>2, <3>3 DEF Timed
    <2>. QED BY <2>1, <2>2
  <1>. QED BY <1>3 DEF TimedInv

LEMMA TimedTimers ==
  ASSUME CallIdInv, DocInv, TimedInv, NEW k \in Timers, TimerNext(k)
  PROVE  TimedInv'
  <1>0. DocTypes /\ TimersTyped
    BY DEF CallIdInv, HoldInv
  <1>1. /\ sock' = sock /\ \A i \in Timers \ {k} : timer'[i] = timer[i]
        /\ timer[k].state # "free" /\ timer'[k].call = timer[k].call
    BY <1>0 DEF TimerNext, TimerFire, TimerWrite, TimersTyped, Timer
  <1>2. ~Starts
    <2>1. CASE TimerFire(k)
      BY <2>1 DEF TimerFire, Starts
    <2>2. CASE TimerWrite(k)
      <3>1. PICK d \in Calls : d = timer[k].call /\ SetStatus(d, "timeout")
        BY <1>1, <2>2, RefersOf DEF TimerWrite
      <3>. QED BY <1>0, <3>1 DEF Starts, SetStatus, DocTypes, CallDoc
    <2>. QED BY <2>1, <2>2 DEF TimerNext
  <1>3. ASSUME NEW c \in Calls, call'[c].status = "calling", NEW i \in Timers, Ticks(i, c)
        PROVE  Ticks(i, c)'
    <2>1. CASE i # k
      BY <1>1, <1>3, <2>1 DEF Ticks
    <2>2. CASE i = k /\ TimerFire(k)
      BY <1>0, <1>1, <1>3, <2>2 DEF Ticks, TimerFire, TimersTyped, Timer
    <2>3. CASE i = k /\ TimerWrite(k)
      <3>1. call'[c].status = "timeout"
        BY <1>0, <1>3, <2>3 DEF Ticks, TimerWrite, SetStatus, DocTypes, CallDoc
      <3>. QED BY <1>3, <3>1
    <2>. QED BY <2>1, <2>2, <2>3 DEF TimerNext
  <1>. QED BY <1>1, <1>2, <1>3, TimedKept DEF Ending

LEMMA TimedSockets ==
  ASSUME CallIdInv, DocInv, TimedInv, NEW s \in Sockets,
         \/ HandleConnection(s) \/ (\E u \in Users : HandleIdentity(s, u))
         \/ DisconnectAnonymous(s) \/ DisconnectNext(s)
  PROVE  TimedInv'
  <1>0. DocTypes
    BY DEF CallIdInv, HoldInv
  <1>1. timer' = timer /\ \A r \in Sockets \ {s} : sock'[r] = sock[r]
    BY <1>0 DEF HandleConnection, HandleIdentity, DisconnectAnonymous, DisconnectNext, DisconnectSave,
                DisconnectMark, DocTypes
  <1>2. CASE HandleConnection(s) \/ DisconnectAnonymous(s) \/ \E u \in Users : HandleIdentity(s, u)
    <2>1. call' = call /\ \A c \in Calls : Ending(s, c) => Ending(s, c)'
      BY <1>0, <1>2 DEF HandleConnection, HandleIdentity, DisconnectAnonymous, Ending, DocTypes, Meta
    <2>. QED BY <1>1, <2>1, TimedKept DEF Starts, Ticks, Ending
  <1>3. ASSUME NEW d \in Calls, SetStatus(d, "ended"), \A c \in Calls : Ending(s, c) => c = d
        PROVE  TimedInv'
    <2>1. call'[d].status = "ended" /\ \A c \in Calls \ {d} : call'[c] = call[c]
      BY <1>0, <1>3 DEF SetStatus, DocTypes, CallDoc
    <2>. QED BY <1>1, <1>3, <2>1, TimedKept DEF Starts, Ticks, Ending
  <1>4. ASSUME call' = call, \A c \in Calls : ~Ending(s, c) PROVE TimedInv'
    BY <1>1, <1>4, TimedKept DEF Starts, Ticks, Ending
  <1>5. CASE DisconnectSave(s)
    BY <1>3, <1>4, <1>5, RefersOf, CallsAssumption DEF DisconnectSave, Ending
  <1>6. CASE DisconnectMark(s)
    BY <1>3, <1>4, <1>6, RefersOf DEF DisconnectMark, Ending
  <1>. QED BY <1>2, <1>5, <1>6 DEF DisconnectNext

Couple == \E p, q : Users = {p, q}

(* Two people have one conversation and so one document.                     *)
LEMMA CoupleSingle ==
  ASSUME Couple, CallIdInv, DocInv
  PROVE  /\ \A c \in Calls : Born(c) => Parties(c) = Users
         /\ \A c, d \in Calls : Born(c) /\ Born(d) => c = d
  <1>1. PICK p, q : Users = {p, q}
    BY DEF Couple
  <1>2. ASSUME NEW c \in Calls, Born(c) PROVE Parties(c) = Users
    <2>1. call[c] \in CallDoc /\ call[c].caller # call[c].callee
      BY <1>2 DEF CallIdInv, HoldInv, DocTypes, DocInv, TwoParties
    <2>. QED BY <1>1, <2>1 DEF CallDoc, Parties
  <1>. QED BY <1>2 DEF DocInv, Unique

(* An answer, an end and a disconnect clear timers of the couple's one call  *)
(* only when they bring it to an end themselves.                             *)
LEMMA TimedAnswers ==
  ASSUME Couple, CallIdInv, DocInv, TimedInv, NEW t \in Tasks,
         AcceptCommit(t) \/ DeclineCommit(t) \/ EndCommit(t)
  PROVE  TimedInv'
  <1>0. HoldInv /\ DocTypes
    BY DEF CallIdInv, HoldInv
  <1>1. PICK st \in Status \ {"none", "calling"} : SetStatus(task[t].call, st)
    BY DEF AcceptCommit, DeclineCommit, EndCommit, Status
  <1>2. task[t] # NoTask /\ task[t].op # "start"
    BY DEF AcceptCommit, DeclineCommit, EndCommit, Running
  <1>3. PICK d \in Calls : d = task[t].call /\ Born(d)
    BY <1>0, <1>2, RefersOf DEF HoldInv, TaskHolds
  <1>4. call'[d].status # "calling" /\ \A c \in Calls \ {d} : call'[c] = call[c]
    BY <1>0, <1>1, <1>3 DEF SetStatus, DocTypes, CallDoc
  <1>5. \A c \in Calls \ {d} : ~Born(c)
    BY <1>3, CoupleSingle
  <1>. QED BY <1>4, <1>5 DEF TimedInv, Born

LEMMA TimedDisconnect ==
  ASSUME Couple, CallIdInv, DocInv, TimedInv, NEW s \in Sockets, HandleDisconnect(s)
  PROVE  TimedInv'
  <1>0. DocTypes
    BY DEF CallIdInv, HoldInv
  <1>. DEFINE active == {c \in Calls : /\ call[c].status \in {"calling", "connected"}
                                       /\ sock[s].user \in Parties(c)}
  <1>1. PICK f \in IF active = {} THEN {NoCall} ELSE active :
          sock' = [sock EXCEPT ![s] = [@ EXCEPT !.state = "ending", !.found = f,
                                                !.callTimeout = NoTimer]]
    BY DEF HandleDisconnect
  <1>2. call' = call /\ sock'[s].state = "ending" /\ sock'[s].found = f
    BY <1>0, <1>1 DEF HandleDisconnect, DocTypes, Meta
  <1>3. sock[s].user \in Users
    BY <1>0 DEF HandleDisconnect, DocTypes, Meta
  <1>4. ASSUME NEW c \in Calls, call[c].status = "calling" PROVE Timed(c)'
    <2>1. Born(c) /\ c \in active
      BY <1>3, <1>4, CoupleSingle DEF Born
    <2>2. f \in active
      BY <1>1, <2>1
    <2>3. Born(f) /\ f \in Calls
      BY <2>2 DEF Born
    <2>4. c = f
      BY <2>1, <2>3, CoupleSingle
    <2>. QED BY <1>2, <2>4 DEF Timed, Ending
  <1>. QED BY <1>2, <1>4 DEF TimedInv

LEMMA TimedStep ==
  ASSUME Couple, CallIdInv, DocInv, TimedInv, [GatewayNext]_vars
  PROVE  TimedInv'
  <1>1. CASE UNCHANGED vars
    BY <1>1, TimedAside DEF vars, gatewayVars
  <1>2. ASSUME NEW t \in Tasks, NEW h, Event(t, h) PROVE TimedInv'
    BY <1>2, TimedAside DEF Event
  <1>3. CASE ClientNext
    BY <1>2, <1>3, TimedSockets, TimedDisconnect
       DEF ClientNext, HandleStartCall, HandleAnswer, HandleEndCall
  <1>4. ASSUME NEW t \in Tasks, TaskNext(t) PROVE TimedInv'
    <2>1. CASE StartLookup(t) \/ StartPick(t) \/ GiveUp(t)
      BY <2>1, TimedAside DEF StartLookup, StartPick, GiveUp
    <2>. QED BY <1>4, <2>1, TimedStart, TimedAnswers DEF TaskNext
  <1>5. CASE \E k \in Timers : TimerNext(k)
    BY <1>5, TimedTimers
  <1>6. CASE \E s \in Sockets : DisconnectNext(s)
    BY <1>6, TimedSockets
  <1>. QED BY <1>1, <1>3, <1>4, <1>5, <1>6 DEF GatewayNext

(* Two people, one handler at a time, timers and disconnects between its     *)
(* steps: their CALLING call always has a timer between events, although a   *)
(* handler clears whatever timer a socket holds and a left-over timer of an  *)
(* earlier call runs on.  (With a third user it fails: whoever has two calls *)
(* at once, or ends a call between others, has the wrong timer cleared.)     *)
THEOREM CallingTimedOneByOne ==
  ASSUME OneHandler, Couple
  PROVE  Spec => []CallingIsTimed
  <1>1. Init => CallIdInv /\ DocInv /\ TimedInv
    <2>1. Init => TimedInv
      BY DEF Init, CallsInit, TimedInv
    <2>. QED BY <2>1, CallIdStart, DocStart
  <1>2. CallIdInv /\ DocInv /\ TimedInv /\ [GatewayNext]_vars => (CallIdInv /\ DocInv /\ TimedInv)'
    BY NextHolds, DocStep, TimedStep
  <1>3. TimedInv => CallingIsTimed
    BY DEF TimedInv, Timed, Ticks, Ending, CallingIsTimed, Quiet
  <1>. QED BY <1>1, <1>2, <1>3, PTL DEF Spec
-----------------------------------------------------------------------------
(* One event, timer or disconnect at a time, its steps not overlapped by     *)
(* another's: what each has read of a call's status still holds when it      *)
(* writes.                                                                   *)
Calm(s) == sock[s].state \in {"open", "closed"}

Exclusive ==
  /\ \A t \in Tasks : task[t] # NoTask =>
       (\A s \in Sockets : Calm(s)) /\ \A k \in Timers : timer[k].state # "writing"
  /\ \A s \in Sockets : ~Calm(s) =>
       /\ \A k \in Timers : timer[k].state # "writing"
       /\ \A r \in Sockets : ~Calm(r) => r = s
  /\ \A k, m \in Timers : timer[k].state = "writing" /\ timer[m].state = "writing" => k = m

(* What a handler takes for granted of its call.                             *)
Meant(h) ==
  /\ h.op \in {"accept", "decline"} => call[h.call].status = "calling"
  /\ h.op = "end" => call[h.call].status \in Active
  /\ h.op = "start" /\ h.step # "begun" =>
       \A c \in Calls : Parties(c) = {h.me, h.peer} => call[c].status \notin Active
  /\ h.op = "start" /\ h.step = "found" /\ h.call # NoCall => "status" \in h.writes

LifeInv ==
  /\ Exclusive
  /\ \A c \in Calls : call[c].status # "ringing"
  /\ \A t \in Tasks : task[t] # NoTask => Meant(task[t])
  /\ \A s \in Sockets : sock[s].state = "ending" /\ sock[s].found # NoCall =>
       call[sock[s].found].status \in Active
  /\ \A k \in Timers : timer[k].state = "writing" => call[timer[k].call].status = "calling"

(* Nothing is under way.                                                     *)
LEMMA LifeIdle ==
  ASSUME \A t \in Tasks : task'[t] = NoTask, \A s \in Sockets : sock'[s].state \in {"open", "closed"},
         \A k \in Timers : timer'[k].state # "writing", \A c \in Calls : call'[c].status # "ringing"
  PROVE  LifeInv'
  BY DEF LifeInv, Exclusive, Calm

(* A handler starts, or goes on without writing.                             *)
LEMMA LifeTask ==
  ASSUME DocTypes, LifeInv, NEW t \in Tasks, NEW h, task' = [task EXCEPT ![t] = h], Meant(h),
         UNCHANGED <<call, sock, timer>>, \A r \in Tasks \ {t} : task[r] = NoTask,
         \A s \in Sockets : Calm(s), \A k \in Timers : timer[k].state # "writing"
  PROVE  LifeInv'
  <1>1. task'[t] = h /\ \A r \in Tasks \ {t} : task'[r] = NoTask
    BY DEF DocTypes
  <1>2. Exclusive'
    BY DEF Exclusive, Calm
  <1>3. Meant(h)'
    BY DEF Meant, Parties
  <1>4. \A i \in Tasks : task'[i] # NoTask => i = t
    BY <1>1
  <1>5. Meant(task[t])'
    BY <1>1, <1>3 DEF Meant
  <1>6. \A i \in Tasks : task'[i] # NoTask => Meant(task[i])'
    BY <1>4, <1>5
  <1>. QED BY <1>2, <1>6 DEF LifeInv, Calm

(* A socket comes or goes that has no call to end.                           *)
LEMMA LifeSocket ==
  ASSUME LifeInv, UNCHANGED <<call, task, timer>>,
         \A s \in Sockets : sock'[s] = sock[s] \/ (Calm(s) /\ Calm(s)')
  PROVE  LifeInv'
  <1>1. \A s \in Sockets : (Calm(s)' <=> Calm(s))
                          /\ (sock'[s].state = "ending" => sock'[s] = sock[s])
    BY DEF Calm
  <1>2. Exclusive'
    BY <1>1 DEF LifeInv, Exclusive
  <1>3. \A t \in Tasks : task'[t] # NoTask => Meant(task[t])'
    BY DEF LifeInv, Meant, Parties
  <1>. QED BY <1>1, <1>2, <1>3 DEF LifeInv

LEMMA LifeEvents ==
  ASSUME ~Overlapping, CallIdInv, LifeInv, NEW t \in Tasks, NEW s \in Sockets,
         \/ \E peer \in Users : HandleStartCall(t, s, peer)
         \/ \E op \in {"accept", "decline"} : HandleAnswer(t, op, s)
         \/ HandleEndCall(t, s)
  PROVE  LifeInv'
  <1>1. PICK h \in Task :
          /\ Event(t, h)
          /\ \/ h.op = "start" /\ h.step = "begun"
             \/ h.op \in {"accept", "decline"} /\ call[h.call].status = "calling"
             \/ h.op = "end" /\ call[h.call].status \in {"calling", "connected"}
    BY EventKinds DEF CallIdInv, HoldInv
  <1>2. Meant(h)
    BY <1>1 DEF Meant, Active
  <1>3. task' = [task EXCEPT ![t] = h] /\ UNCHANGED <<call, sock, timer>> /\ Quiet
    BY <1>1 DEF Event, MayRun
  <1>. QED BY <1>2, <1>3, LifeTask DEF CallIdInv, HoldInv, Quiet, Calm

LEMMA LifeLooks ==
  ASSUME CallIdInv, DocInv, LifeInv, NEW t \in Tasks, StartLookup(t) \/ StartPick(t)
  PROVE  LifeInv'
  <1>. DEFINE docs == InConversation(Pair(t), Status \ {"none"})
  <1>0. HoldInv /\ DocTypes
    BY DEF CallIdInv, HoldInv
  <1>1. PICK h : h = task[t]
    OBVIOUS
  <1>2. /\ h \in Task /\ h.op = "start" /\ h # NoTask /\ Meant(h)
        /\ UNCHANGED <<call, sock, timer>>
    BY <1>0, <1>1, RunningTask DEF StartLookup, StartPick, Running, LifeInv
  <1>3. /\ \A r \in Tasks \ {t} : task[r] = NoTask
        /\ \A s \in Sockets : Calm(s)
        /\ \A k \in Timers : timer[k].state # "writing"
    BY <1>1, <1>2 DEF DocInv, Lone, LifeInv, Exclusive
  <1>4. ASSUME NEW y \in Task, y.op = "start", y.me = h.me, y.peer = h.peer,
               task' = [task EXCEPT ![t] = y],
               \A c \in Calls : Parties(c) = Pair(t) => call[c].status \notin Active,
               y.step = "found" /\ y.call # NoCall => "status" \in y.writes
        PROVE  LifeInv'
    <2>1. Meant(y)
      BY <1>1, <1>4 DEF Meant, Pair
    <2>. QED BY <1>0, <1>2, <1>3, <1>4, <2>1, LifeTask
  <1>5. CASE StartLookup(t)
    <2>1. PICK y : y = [h EXCEPT !.step = "free"]
      OBVIOUS
    <2>2. y \in Task /\ y.op = "start" /\ y.me = h.me /\ y.peer = h.peer /\ y.step = "free"
      BY <1>2, <2>1 DEF Task
    <2>3. task' = [task EXCEPT ![t] = y]
      BY <1>1, <1>5, <2>1 DEF StartLookup
    <2>4. \A c \in Calls : Parties(c) = Pair(t) => call[c].status \notin Active
      BY <1>5 DEF StartLookup, InConversation, Active
    <2>. QED BY <1>4, <2>2, <2>3, <2>4
  <1>6. CASE StartPick(t)
    <2>1. h.step = "free"
      BY <1>1, <1>6 DEF StartPick, Running
    <2>2. \A c \in Calls : Parties(c) = Pair(t) => call[c].status \notin Active
      BY <1>1, <1>2, <2>1 DEF Meant, Pair
    <2>3. CASE docs = {}
      <3>1. PICK y : y = [h EXCEPT !.step = "found"]
        OBVIOUS
      <3>2. /\ y \in Task /\ y.op = "start" /\ y.me = h.me /\ y.peer = h.peer
            /\ y.step = "found" /\ y.call = h.call
        BY <1>2, <3>1 DEF Task
      <3>3. task' = [task EXCEPT ![t] = y]
        BY <1>1, <1>6, <2>3, <3>1 DEF StartPick
      <3>4. h.call = NoCall
        <4>1. h.call # NoCall => h.call \in Calls /\ Born(h.call) /\ Parties(h.call) = Pair(t)
          BY <1>0, <1>1, <1>2, RefersOf DEF HoldInv, TaskHolds
        <4>2. \A c \in Calls : Parties(c) = Pair(t) => ~Born(c)
          BY <1>0, <2>3 DEF InConversation, Born, DocTypes, CallDoc
        <4>. QED BY <4>1, <4>2
      <3>. QED BY <1>4, <2>2, <3>2, <3>3, <3>4
    <2>4. CASE docs # {}
      <3>1. PICK c \in docs, W \in SUBSET {"status", "parties"} :
              /\ W = {p \in {"status", "parties"} : IF p = "status"
                                                    THEN call[c].status # "calling"
                                                    ELSE call[c].caller # task[t].me}
              /\ task' = [task EXCEPT ![t] =
                         [@ EXCEPT !.step = "found", !.call = c, !.writes = W]]
        BY <1>6, <2>4 DEF StartPick
      <3>2. PICK y : y = [h EXCEPT !.step = "found", !.call = c, !.writes = W]
        OBVIOUS
      <3>3. c \in Calls /\ Parties(c) = Pair(t)
        BY DEF InConversation
      <3>4. "status" \in W /\ W \in SUBSET {"status", "parties"}
        BY <2>2, <3>1, <3>3 DEF Active
      <3>5. /\ y \in Task /\ y.op = "start" /\ y.me = h.me /\ y.peer = h.peer /\ y.writes = W
        BY <1>2, <3>2, <3>3, <3>4 DEF Task
      <3>6. task' = [task EXCEPT ![t] = y]
        BY <1>1, <3>1, <3>2
      <3>. QED BY <1>4, <2>2, <3>4, <3>5, <3>6
    <2>. QED BY <2>3, <2>4
  <1>. QED BY <1>5, <1>6

LEMMA LifeCommits ==
  ASSUME CallIdInv, DocInv, LifeInv, NEW t \in Tasks, StartCommit(t)
  PROVE  LifeInv' /\ \E c \in Calls :
           /\ Born(c)' /\ Parties(c)' = Pair(t)
           /\ Born(c) => Parties(c) = Pair(t)
           /\ ~Born(c) => \A d \in Calls : Born(d) => Parties(d) # Pair(t)
           /\ \A d \in Calls \ {c} : call'[d] = call[d]
           /\ call[c].status \in {"none"} \cup Finished /\ call'[c].status = "calling"
  <1>0. HoldInv /\ DocTypes /\ TimersTyped
    BY DEF CallIdInv, HoldInv
  <1>1. PICK h : h = task[t]
    OBVIOUS
  <1>2. h \in Task /\ h.op = "start" /\ h # NoTask /\ h.step = "found" /\ Meant(h)
    BY <1>0, <1>1, RunningTask DEF StartCommit, Running, LifeInv
  <1>3. PICK c \in Calls, k \in Timers :
          /\ Born(c)' /\ Parties(c)' = Pair(t)
          /\ Born(c) => Parties(c) = Pair(t)
          /\ ~Born(c) => \A d \in Calls : Born(d) => Parties(d) # Pair(t)
          /\ \A d \in Calls \ {c} : call'[d] = call[d]
          /\ timer[k].state = "free" /\ timer' = [timer EXCEPT ![k] = [state |-> "armed", call |-> c]]
          /\ \A s \in Sockets : sock'[s].state = sock[s].state /\ sock'[s].found = sock[s].found
          /\ task[t] # NoTask /\ task[t].peer # task[t].me /\ task' = [task EXCEPT ![t] = NoTask]
    BY Committed
  <1>4. PICK d \in IF h.call = NoCall THEN Unborn ELSE {h.call} :
          call' = [call EXCEPT ![d] = Save(@, t)]
    BY <1>1 DEF StartCommit
  <1>5. d \in Calls /\ call'[d] = Save(call[d], t)
    BY <1>0, <1>2, <1>4 DEF Unborn, Task, DocTypes
  <1>6. "status" \in h.writes
    BY <1>0, <1>1, <1>2 DEF Meant, HoldInv, TaskHolds
  <1>7. call'[d].status = "calling"
    BY <1>1, <1>5, <1>6 DEF Save
  <1>8. call[d].status \in {"none"} \cup Finished
    <2>1. CASE h.call = NoCall
      BY <1>4, <2>1 DEF Unborn
    <2>2. CASE h.call # NoCall
      <3>1. Parties(d) = Pair(t)
        BY <1>0, <1>1, <1>2, <1>4, <2>2 DEF HoldInv, TaskHolds
      <3>2. call[d].status \notin Active
        BY <1>1, <1>2, <1>5, <3>1 DEF Meant, Pair
      <3>3. call[d].status \in Status /\ call[d].status # "ringing"
        BY <1>0, <1>5 DEF DocTypes, CallDoc, LifeInv
      <3>. QED BY <3>2, <3>3 DEF Status, Active, Finished
    <2>. QED BY <2>1, <2>2
  <1>9. c = d
    BY <1>3, <1>5, <1>7, <1>8 DEF Finished
  <1>10. \A i \in Tasks : task'[i] = NoTask
    BY <1>0, <1>3 DEF DocInv, Lone, DocTypes
  <1>11. \A s \in Sockets : sock'[s].state \in {"open", "closed"}
    BY <1>3 DEF LifeInv, Exclusive, Calm
  <1>12. \A i \in Timers : timer'[i].state # "writing"
    BY <1>0, <1>3 DEF LifeInv, Exclusive, TimersTyped, Timer
  <1>13. \A i \in Calls : call'[i].status # "ringing"
    BY <1>3, <1>7, <1>9 DEF LifeInv
  <1>14. LifeInv'
    BY <1>10, <1>11, <1>12, <1>13, LifeIdle
  <1>. QED BY <1>3, <1>7, <1>8, <1>9, <1>14

(* The steps that write the status of one call, and what it was.             *)
Writes(c, from, to) ==
  c \in Calls /\ Born(c) /\ call[c].status \in from /\ SetStatus(c, to)

LEMMA RinglessStatus ==
  ASSUME DocTypes, LifeInv, NEW c \in Calls, NEW st \in Status \ {"none", "ringing"}, SetStatus(c, st)
  PROVE  \A d \in Calls : call'[d].status # "ringing"
  BY DEF DocTypes, SetStatus, CallDoc, LifeInv

LEMMA LifeAnswers ==
  ASSUME CallIdInv, DocInv, LifeInv, NEW t \in Tasks,
         AcceptCommit(t) \/ DeclineCommit(t) \/ EndCommit(t) \/ GiveUp(t)
  PROVE  /\ LifeInv'
         /\ \/ call' = call
            \/ \E c : \/ Writes(c, {"calling"}, "connected")
                      \/ Writes(c, {"calling"}, "declined")
                      \/ Writes(c, Active, "ended")
  <1>0. HoldInv /\ DocTypes /\ TimersTyped
    BY DEF CallIdInv, HoldInv
  <1>1. task[t] # NoTask /\ task' = [task EXCEPT ![t] = NoTask]
    BY DEF AcceptCommit, DeclineCommit, EndCommit, GiveUp, Running, Done
  <1>2. /\ \A i \in Tasks : task'[i] = NoTask
        /\ \A s \in Sockets : sock[s].state \in {"open", "closed"}
        /\ \A k \in Timers : timer[k].state # "writing"
    BY <1>0, <1>1 DEF DocInv, Lone, DocTypes, LifeInv, Exclusive, Calm
  <1>3. CASE GiveUp(t)
    BY <1>2, <1>3, LifeIdle DEF GiveUp, LifeInv
  <1>4. CASE AcceptCommit(t) \/ DeclineCommit(t) \/ EndCommit(t)
    <2>1. PICK h : h = task[t]
      OBVIOUS
    <2>2. h \in Task /\ h.op # "start" /\ h # NoTask /\ Meant(h)
      BY <1>0, <1>4, <2>1, RunningTask
         DEF AcceptCommit, DeclineCommit, EndCommit, Running, LifeInv
    <2>3. PICK c \in Calls : c = h.call /\ Born(c)
      BY <1>0, <2>1, <2>2, RefersOf DEF HoldInv, TaskHolds
    <2>4. \/ Writes(c, {"calling"}, "connected")
          \/ Writes(c, {"calling"}, "declined")
          \/ Writes(c, Active, "ended")
      BY <1>4, <2>1, <2>2, <2>3 DEF AcceptCommit, DeclineCommit, EndCommit, Running, Meant, Writes
    <2>5. \A d \in Calls : call'[d].status # "ringing"
      BY <1>0, <2>3, <2>4, RinglessStatus DEF Writes, Status
    <2>6. PICK S : /\ ClearTimeout(S)
                   /\ sock' \in {Forget(S), SetCallId(Forget(S), task[t].sock, task[t].call)}
      BY <1>4 DEF AcceptCommit, DeclineCommit, EndCommit
    <2>7. \A s \in Sockets : sock'[s].state = sock[s].state /\ sock'[s].found = sock[s].found
      <3>1. task[t].call \in Calls /\ task[t].sock \in Sockets
        BY <2>1, <2>2, <2>3 DEF Task
      <3>2. /\ Forget(S) \in [Sockets -> Meta]
            /\ \A s \in Sockets : /\ Forget(S)[s].state = sock[s].state
                                  /\ Forget(S)[s].found = sock[s].found
        BY <1>0 DEF DocTypes, Meta, Forget
      <3>3. CASE sock' = Forget(S)
        BY <3>2, <3>3
      <3>4. CASE sock' = SetCallId(Forget(S), task[t].sock, task[t].call)
        BY <3>1, <3>2, <3>4 DEF Meta, SetCallId
      <3>. QED BY <2>6, <3>3, <3>4
    <2>8. \A k \in Timers : timer'[k].state # "writing"
      BY <1>0, <1>2, <2>6, ClearedKept
    <2>9. LifeInv'
      BY <1>2, <2>5, <2>7, <2>8, LifeIdle
    <2>. QED BY <2>4, <2>9
  <1>. QED BY <1>3, <1>4

LEMMA LifeTimers ==
  ASSUME ~Overlapping, CallIdInv, DocInv, LifeInv, NEW k \in Timers, TimerNext(k)
  PROVE  LifeInv' /\ (call' = call \/ \E c : Writes(c, {"calling"}, "timeout"))
  <1>0. HoldInv /\ DocTypes /\ TimersTyped
    BY DEF CallIdInv, HoldInv
  <1>1. CASE TimerFire(k)
    <2>1. Quiet /\ UNCHANGED <<call, sock, task>>
      BY <1>1 DEF TimerFire, MayRun
    <2>2. \A m \in Timers \ {k} : timer'[m].state # "writing"
      BY <1>0, <1>1, <2>1 DEF TimerFire, Quiet, TimersTyped
    <2>3. timer'[k].state = "writing" =>
            call[timer[k].call].status = "calling" /\ timer'[k].call = timer[k].call
      BY <1>0, <1>1 DEF TimerFire, TimersTyped, Timer, LifeInv
    <2>4. Exclusive'
      BY <2>1, <2>2 DEF Quiet, Exclusive, Calm
    <2>5. \A m \in Timers : timer'[m].state = "writing" => call'[timer'[m].call].status = "calling"
      BY <2>1, <2>2, <2>3
    <2>6. \A t \in Tasks : task'[t] = NoTask
      BY <2>1 DEF Quiet
    <2>7. \A s \in Sockets : sock'[s].state # "ending"
      BY <2>1 DEF Quiet
    <2>. QED BY <2>1, <2>4, <2>5, <2>6, <2>7 DEF LifeInv
  <1>2. CASE TimerWrite(k)
    <2>1. PICK c \in Calls : c = timer[k].call /\ Born(c)
      BY <1>2, RefersOf DEF TimerWrite
    <2>2. Writes(c, {"calling"}, "timeout")
      BY <1>2, <2>1 DEF TimerWrite, LifeInv, Writes
    <2>3. \A d \in Calls : call'[d].status # "ringing"
      BY <1>0, <2>1, <2>2, RinglessStatus DEF Writes, Status
    <2>4. \A m \in Timers : timer'[m].state # "writing"
      BY <1>0, <1>2 DEF TimerWrite, TimersTyped, Timer, LifeInv, Exclusive
    <2>5. /\ \A t \in Tasks : task'[t] = NoTask
          /\ \A s \in Sockets : sock'[s].state \in {"open", "closed"}
      BY <1>2 DEF TimerWrite, LifeInv, Exclusive, Calm
    <2>. QED BY <2>2, <2>3, <2>4, <2>5, LifeIdle
  <1>. QED BY <1>1, <1>2 DEF TimerNext

LEMMA LifeSockets ==
  ASSUME ~Overlapping, CallIdInv, DocInv, LifeInv, NEW s \in Sockets,
         \/ HandleConnection(s) \/ (\E u \in Users : HandleIdentity(s, u))
         \/ HandleDisconnect(s) \/ DisconnectAnonymous(s)
         \/ DisconnectNext(s)
  PROVE  LifeInv' /\ (call' = call \/ \E c : Writes(c, Active \cup Finished, "ended"))
  <1>0. HoldInv /\ DocTypes /\ TimersTyped
    BY DEF CallIdInv, HoldInv
  <1>1. CASE HandleConnection(s) \/ DisconnectAnonymous(s) \/ \E u \in Users : HandleIdentity(s, u)
    <2>1. UNCHANGED <<call, task, timer>>
      BY <1>1 DEF HandleConnection, HandleIdentity, DisconnectAnonymous
    <2>2. \A r \in Sockets : sock'[r] = sock[r] \/ (Calm(r) /\ Calm(r)')
      BY <1>0, <1>1 DEF HandleConnection, HandleIdentity, DisconnectAnonymous, DocTypes, Meta,
                        Calm, Closed, NewMeta, MayRun, Quiet
    <2>. QED BY <2>1, <2>2, LifeSocket
  <1>2. CASE HandleDisconnect(s)
    <2>. DEFINE active == {c \in Calls : /\ call[c].status \in {"calling", "connected"}
                                         /\ sock[s].user \in Parties(c)}
    <2>1. PICK f \in IF active = {} THEN {NoCall} ELSE active :
            sock' = [sock EXCEPT ![s] = [@ EXCEPT !.state = "ending", !.found = f,
                                                  !.callTimeout = NoTimer]]
      BY <1>2 DEF HandleDisconnect
    <2>2. f # NoCall => call[f].status \in Active
      BY <2>1 DEF Active
    <2>3. /\ sock'[s].state = "ending" /\ sock'[s].found = f
          /\ \A r \in Sockets \ {s} : sock'[r] = sock[r]
      BY <1>0, <2>1 DEF DocTypes, Meta
    <2>4. Quiet /\ UNCHANGED <<call, task>> /\ ClearTimeout({s})
      BY <1>2 DEF HandleDisconnect, MayRun
    <2>5. \A k \in Timers : timer'[k].state # "writing"
      BY <1>0, <2>4, ClearedKept DEF Quiet
    <2>6. \A t \in Tasks : task'[t] = NoTask
      BY <2>4 DEF Quiet
    <2>7. \A r \in Sockets : sock'[r].state \notin {"open", "closed"} => r = s
      BY <2>3, <2>4 DEF Quiet
    <2>8. Exclusive'
      BY <2>5, <2>6, <2>7 DEF Exclusive, Calm
    <2>9. \A r \in Sockets : sock'[r].state = "ending" /\ sock'[r].found # NoCall =>
            call'[sock'[r].found].status \in Active
      BY <2>2, <2>3, <2>4, <2>7
    <2>. QED BY <2>4, <2>5, <2>6, <2>8, <2>9 DEF LifeInv
  <1>3. CASE DisconnectSave(s) \/ DisconnectMark(s)
    <2>1. sock[s].state \in {"ending", "marking"} /\ UNCHANGED <<task, timer>>
      BY <1>3 DEF DisconnectSave, DisconnectMark
    <2>2. /\ \A t \in Tasks : task'[t] = NoTask
          /\ \A k \in Timers : timer'[k].state # "writing"
          /\ \A r \in Sockets \ {s} : sock[r].state \in {"open", "closed"}
      BY <2>1 DEF LifeInv, Exclusive, Calm
    <2>3. call' = call \/ \E c : Writes(c, Active \cup Finished, "ended")
      <3>1. ASSUME NEW c \in Calls, Born(c), SetStatus(c, "ended")
            PROVE  \E d : Writes(d, Active \cup Finished, "ended")
        <4>1. call[c].status \in Status \ {"none", "ringing"}
          BY <1>0, <3>1 DEF DocTypes, CallDoc, LifeInv, Born
        <4>2. Writes(c, Active \cup Finished, "ended")
          BY <3>1, <4>1 DEF Writes, Status, Active, Finished
        <4>. QED BY <4>2
      <3>. QED BY <1>3, <3>1, RefersOf DEF DisconnectSave, DisconnectMark
    <2>4. \A d \in Calls : call'[d].status # "ringing"
      <3>1. ASSUME NEW c, Writes(c, Active \cup Finished, "ended")
            PROVE  \A d \in Calls : call'[d].status # "ringing"
        BY <1>0, <3>1, RinglessStatus DEF Writes, Status
      <3>. QED BY <2>3, <3>1 DEF LifeInv
    <2>5. /\ \A r \in Sockets \ {s} : sock'[r] = sock[r]
          /\ sock'[s].state \in {"marking", "closed"}
      BY <1>0, <1>3 DEF DisconnectSave, DisconnectMark, DocTypes, Meta, Closed, NewMeta
    <2>6. Exclusive'
      BY <2>2, <2>5 DEF Exclusive, Calm
    <2>7. \A r \in Sockets : sock'[r].state # "ending"
      BY <2>2, <2>5
    <2>. QED BY <2>2, <2>3, <2>4, <2>6, <2>7 DEF LifeInv
  <1>. QED BY <1>1, <1>2, <1>3 DEF DisconnectNext

LEMMA LifeStart == Init => LifeInv
  BY DEF Init, CallsInit, GatewayInit, LifeInv, Exclusive, Calm, Closed, NewMeta

LEMMA LifeStep ==
  ASSUME ~Overlapping, CallIdInv, DocInv, LifeInv, [GatewayNext]_vars
  PROVE  LifeInv'
  <1>1. CASE UNCHANGED vars
    <2>1. UNCHANGED <<call, task, timer>>
      BY <1>1 DEF vars, gatewayVars
    <2>2. \A s \in Sockets : sock'[s] = sock[s] \/ (Calm(s) /\ Calm(s)')
      BY <1>1 DEF vars, gatewayVars
    <2>. QED BY <2>1, <2>2, LifeSocket
  <1>2. CASE ClientNext
    BY <1>2, LifeSockets, LifeEvents DEF ClientNext
  <1>3. ASSUME NEW t \in Tasks, TaskNext(t) PROVE LifeInv'
    <2>1. CASE StartCommit(t)
      BY <2>1, LifeCommits
    <2>2. CASE StartLookup(t) \/ StartPick(t)
      BY <2>2, LifeLooks
    <2>3. CASE AcceptCommit(t) \/ DeclineCommit(t) \/ EndCommit(t) \/ GiveUp(t)
      BY <2>3, LifeAnswers
    <2>. QED BY <1>3, <2>1, <2>2, <2>3 DEF TaskNext
  <1>4. CASE \E k \in Timers : TimerNext(k)
    BY <1>4, LifeTimers
  <1>5. CASE \E s \in Sockets : DisconnectNext(s)
    BY <1>5, LifeSockets
  <1>. QED BY <1>1, <1>2, <1>3, <1>4, <1>5 DEF GatewayNext

-----------------------------------------------------------------------------
(* The phase of a conversation is the status of its one document.            *)
PhaseTold ==
  \A p : /\ \A c \in Calls : Born(c) /\ Parties(c) = p => PhaseOf(p) = call[c].status
         /\ (\A c \in Calls : Born(c) => Parties(c) # p) => PhaseOf(p) = "none"

LEMMA UniqueTells == Unique => PhaseTold
  <1>. SUFFICES ASSUME Unique, NEW p
                PROVE  /\ \A c \in Calls : Born(c) /\ Parties(c) = p => PhaseOf(p) = call[c].status
                       /\ (\A c \in Calls : Born(c) => Parties(c) # p) => PhaseOf(p) = "none"
    BY DEF PhaseTold
  <1>. DEFINE docs == {c \in Calls : Parties(c) = p /\ call[c].status # "none"}
              live == {c \in docs : call[c].status \notin Finished}
  <1>1. PhaseOf(p) = IF docs = {} THEN "none"
                     ELSE call[CHOOSE c \in docs : live = {} \/ c \in live].status
    BY DEF PhaseOf
  <1>2. ASSUME NEW c \in Calls, Born(c), Parties(c) = p PROVE PhaseOf(p) = call[c].status
    <2>1. docs = {c}
      BY <1>2 DEF Unique, Born
    <2>2. live = {} \/ c \in live
      BY <2>1
    <2>. HIDE DEF docs, live
    <2>3. (CHOOSE d \in docs : live = {} \/ d \in live) = c
      BY <2>1, <2>2
    <2>. QED BY <1>1, <2>1, <2>3
  <1>3. ASSUME \A c \in Calls : Born(c) => Parties(c) # p PROVE PhaseOf(p) = "none"
    <2>1. docs = {}
      BY <1>3 DEF Born
    <2>. QED BY <1>1, <2>1
  <1>. QED BY <1>2, <1>3

LEMMA UniqueTellsNext == Unique' => PhaseTold'
  BY UniqueTells, PTL

LEMMA PairsAreConversations ==
  ASSUME NEW a \in Users, NEW b \in Users, a # b
  PROVE  {a, b} \in Conversations
  <1>1. IsFiniteSet({a}) /\ Cardinality({a}) = 1
    BY FS_Singleton
  <1>2. Cardinality({a} \cup {b}) = Cardinality({a}) + 1
    BY <1>1, FS_AddElement
  <1>3. {a} \cup {b} = {a, b}
    OBVIOUS
  <1>. QED BY <1>1, <1>2, <1>3 DEF Conversations

(* A step that writes one document moves its conversation and no other.      *)
LEMMA PhaseMoves ==
  ASSUME PhaseTold, PhaseTold', DocTypes', TwoParties', NEW c \in Calls, NEW p,
         Born(c)', Parties(c)' = p, Born(c) => Parties(c) = p,
         ~Born(c) => \A d \in Calls : Born(d) => Parties(d) # p,
         \A d \in Calls \ {c} : call'[d] = call[d]
  PROVE  p \in Conversations /\ Phase[p] = call[c].status
         /\ Phase' = [Phase EXCEPT ![p] = call'[c].status]
  <1>1. p \in Conversations
    <2>1. PICK a, b : a = call'[c].caller /\ b = call'[c].callee
      OBVIOUS
    <2>2. a \in Users /\ b \in Users /\ a # b /\ p = {a, b}
      BY <2>1 DEF DocTypes, CallDoc, TwoParties, Parties
    <2>. QED BY <2>2, PairsAreConversations
  <1>2. PhaseOf(p) = call[c].status
    <2>1. CASE Born(c)
      BY <2>1, Zenon DEF PhaseTold
    <2>2. CASE ~Born(c)
      <3>1. PhaseOf(p) = "none"
        BY <2>2, Zenon DEF PhaseTold
      <3>. QED BY <2>2, <3>1 DEF Born
    <2>. QED BY <2>1, <2>2
  <1>3. PhaseOf(p)' = call'[c].status
    BY Zenon DEF PhaseTold
  <1>4. ASSUME NEW q, q # p PROVE PhaseOf(q)' = PhaseOf(q)
    <2>1. CASE \E d \in Calls : Born(d) /\ Parties(d) = q
      <3>1. PICK d \in Calls : Born(d) /\ Parties(d) = q
        BY <2>1
      <3>2. d # c
        BY <1>4, <3>1
      <3>3. Born(d)' /\ Parties(d)' = q /\ call'[d].status = call[d].status
        BY <3>1, <3>2 DEF Born, Parties
      <3>4. PhaseOf(q) = call[d].status
        BY <3>1, Zenon DEF PhaseTold
      <3>5. PhaseOf(q)' = call'[d].status
        BY <3>3, Zenon DEF PhaseTold
      <3>. QED BY <3>3, <3>4, <3>5
    <2>2. CASE \A d \in Calls : Born(d) => Parties(d) # q
      <3>1. \A d \in Calls : Born(d)' => Parties(d)' # q
        BY <1>4, <2>2 DEF Born, Parties
      <3>2. PhaseOf(q) = "none" /\ PhaseOf(q)' = "none"
        BY <2>2, <3>1, Zenon DEF PhaseTold
      <3>. QED BY <3>2
    <2>. QED BY <2>1, <2>2
  <1>5. \A q \in Conversations : PhaseOf(q)' = IF q = p THEN call'[c].status ELSE PhaseOf(q)
    BY <1>3, <1>4
  <1>. QED BY <1>1, <1>2, <1>5 DEF Phase

LEMMA WritesMove ==
  ASSUME CallIdInv, DocInv, DocInv', CallIdInv', NEW c, NEW from, NEW to \in Status \ {"none"},
         Writes(c, from, to)
  PROVE  \E p \in Conversations : Lifecycle!Move(p, from, to)
  <1>0. DocTypes /\ DocTypes' /\ TwoParties' /\ PhaseTold /\ PhaseTold'
    BY UniqueTells, UniqueTellsNext DEF CallIdInv, HoldInv, DocInv
  <1>1. c \in Calls /\ Born(c) /\ call[c].status \in from /\ SetStatus(c, to)
    BY DEF Writes
  <1>2. Frozen /\ call'[c].status = to
    BY <1>0, <1>1, StatusFreezes
  <1>3. Born(c)' /\ Parties(c)' = Parties(c) /\ \A d \in Calls \ {c} : call'[d] = call[d]
    BY <1>0, <1>1, <1>2 DEF Frozen, Parties, SetStatus, DocTypes
  <1>4. PICK p : p = Parties(c)
    OBVIOUS
  <1>5. p \in Conversations /\ Phase[p] = call[c].status
        /\ Phase' = [Phase EXCEPT ![p] = call'[c].status]
    BY <1>0, <1>1, <1>3, <1>4, PhaseMoves
  <1>. QED BY <1>1, <1>2, <1>5 DEF Lifecycle!Move

LEMMA PhaseStep ==
  ASSUME ~Overlapping, CallIdInv, DocInv, LifeInv, [GatewayNext]_vars
  PROVE  [Lifecycle!Next]_Phase
  <1>0. CallIdInv' /\ DocInv'
    BY NextHolds, DocStep DEF OneHandler
  <1>1. CASE call' = call
    BY <1>1 DEF Phase, PhaseOf, Parties
  <1>2. ASSUME NEW c, NEW from, NEW to, Writes(c, from, to),
               \/ from = {"calling"} /\ to \in {"connected", "declined", "timeout"}
               \/ from = Active /\ to = "ended"
               \/ from = Active \cup Finished /\ to = "ended"
        PROVE  Lifecycle!Next
    <2>1. to \in Status \ {"none"}
      BY <1>2 DEF Status
    <2>2. PICK p \in Conversations : Lifecycle!Move(p, from, to)
      BY <1>0, <1>2, <2>1, WritesMove
    <2>3. \/ Lifecycle!Move(p, {"calling"}, to) /\ to \in {"connected", "declined", "timeout"}
          \/ to = "ended" /\ \/ Lifecycle!Move(p, {"calling"}, "ended")
                             \/ Lifecycle!Move(p, {"connected"}, "ended")
                             \/ Lifecycle!Move(p, Finished, "ended")
      BY <1>2, <2>2 DEF Lifecycle!Move, Active
    <2>4. \/ Lifecycle!Answer(p) \/ Lifecycle!Decline(p) \/ Lifecycle!TimeOut(p)
          \/ Lifecycle!Cancel(p) \/ Lifecycle!HangUp(p) \/ Lifecycle!MarkAgain(p)
      BY <2>3 DEF Lifecycle!Answer, Lifecycle!Decline, Lifecycle!TimeOut, Lifecycle!Cancel,
                  Lifecycle!HangUp, Lifecycle!MarkAgain
    <2>. QED BY <2>4 DEF Lifecycle!Next, Lifecycle!StopRinging
  <1>3. ASSUME NEW t \in Tasks, StartCommit(t) PROVE Lifecycle!Next
    <2>1. PICK c \in Calls :
            /\ Born(c)' /\ Parties(c)' = Pair(t)
            /\ Born(c) => Parties(c) = Pair(t)
            /\ ~Born(c) => \A d \in Calls : Born(d) => Parties(d) # Pair(t)
            /\ \A d \in Calls \ {c} : call'[d] = call[d]
            /\ call[c].status \in {"none"} \cup Finished /\ call'[c].status = "calling"
      BY <1>3, LifeCommits
    <2>2. PICK p : p = Pair(t)
      OBVIOUS
    <2>3. DocTypes' /\ TwoParties' /\ PhaseTold /\ PhaseTold'
      BY <1>0, UniqueTells, UniqueTellsNext DEF CallIdInv, HoldInv, DocInv
    <2>4. p \in Conversations /\ Phase[p] = call[c].status
          /\ Phase' = [Phase EXCEPT ![p] = call'[c].status]
      BY <2>1, <2>2, <2>3, PhaseMoves
    <2>5. Lifecycle!Ring(p)
      BY <2>1, <2>4 DEF Lifecycle!Ring, Lifecycle!Move
    <2>. QED BY <2>4, <2>5 DEF Lifecycle!Next
  <1>4. CASE UNCHANGED vars
    BY <1>1, <1>4 DEF vars
  <1>5. CASE ClientNext
    <2>1. ASSUME NEW t \in Tasks, NEW h, Event(t, h) PROVE call' = call
      BY <2>1 DEF Event
    <2>. QED BY <1>1, <1>2, <1>5, <2>1, LifeSockets
         DEF ClientNext, HandleStartCall, HandleAnswer, HandleEndCall
  <1>6. ASSUME NEW t \in Tasks, TaskNext(t) PROVE [Lifecycle!Next]_Phase
    <2>1. CASE StartLookup(t) \/ StartPick(t)
      BY <1>1, <2>1 DEF StartLookup, StartPick
    <2>2. CASE AcceptCommit(t) \/ DeclineCommit(t) \/ EndCommit(t) \/ GiveUp(t)
      BY <1>1, <1>2, <2>2, LifeAnswers
    <2>. QED BY <1>3, <1>6, <2>1, <2>2 DEF TaskNext
  <1>7. CASE \E k \in Timers : TimerNext(k)
    BY <1>1, <1>2, <1>7, LifeTimers
  <1>8. CASE \E s \in Sockets : DisconnectNext(s)
    BY <1>1, <1>2, <1>8, LifeSockets
  <1>. QED BY <1>4, <1>5, <1>6, <1>7, <1>8 DEF GatewayNext

(* Events one at a time, the gateway goes through the states of a call as    *)
(* CallLifecycle has them, for any number of users, sockets, conversations   *)
(* and timers: the part of FollowsLifecycle that is about what may happen.   *)
THEOREM LifecycleOneByOne ==
  ASSUME ~Overlapping
  PROVE  Spec => Lifecycle!Init /\ [][Lifecycle!Next]_Phase
  <1>1. Init => CallIdInv /\ DocInv /\ LifeInv
    BY CallIdStart, DocStart, LifeStart
  <1>2. CallIdInv /\ DocInv /\ LifeInv /\ [GatewayNext]_vars => (CallIdInv /\ DocInv /\ LifeInv)'
    BY NextHolds, DocStep, LifeStep DEF OneHandler
  <1>3. Init => Lifecycle!Init
    BY DEF Init, CallsInit, Lifecycle!Init, Phase, PhaseOf
  <1>4. CallIdInv /\ DocInv /\ LifeInv /\ [GatewayNext]_vars => [Lifecycle!Next]_Phase
    BY PhaseStep
  <1>. QED BY <1>1, <1>2, <1>3, <1>4, PTL DEF Spec

-----------------------------------------------------------------------------
(* Nobody is in two active calls, which the gateway does not see to: it asks *)
(* for an active call of the conversation only.                              *)
Apart ==
  \A c, d \in Calls :
    {call[c].status, call[d].status} \subseteq Active /\ Parties(c) \cap Parties(d) # {}
      => c = d

LEMMA CoupleApart == ASSUME Couple, CallIdInv, DocInv PROVE Apart
  BY CoupleSingle DEF Apart, Active, Born

(* What a disconnect in flight has still to end: the call it found, then     *)
(* nothing.  While nobody is in two active calls that one is all of them.    *)
EndsInv ==
  \A s \in Sockets :
    /\ sock[s].state = "ending" =>
         \A c \in Calls : sock[s].user \in Parties(c) /\ call[c].status \in Active => c = sock[s].found
    /\ sock[s].state = "marking" =>
         \A c \in Calls : sock[s].user \in Parties(c) => call[c].status \notin Active

LeavesNone ==
  \A s \in Sockets :
    sock[s].state = "marking" /\ sock'[s].state = "closed" =>
      \A c \in Calls : sock[s].user \in Parties(c) => call'[c].status \notin Active

(* A step that no disconnect in flight takes part in.                        *)
LEMMA EndsAside ==
  ASSUME EndsInv, call' = call, \A s \in Sockets : sock'[s] = sock[s] \/ (Calm(s) /\ Calm(s)')
  PROVE  EndsInv' /\ LeavesNone
  <1>1. \A s \in Sockets : sock'[s].state \in {"ending", "marking"} => sock'[s] = sock[s]
    BY DEF Calm
  <1>2. \A c \in Calls : Parties(c)' = Parties(c)
    BY DEF Parties
  <1>3. \A s \in Sockets : sock[s].state = "marking" => sock'[s] = sock[s]
    BY DEF Calm
  <1>. QED BY <1>1, <1>2, <1>3 DEF EndsInv, LeavesNone

(* No disconnect is in flight before the step nor after it.                  *)
LEMMA EndsAbsent ==
  ASSUME \A s \in Sockets : Calm(s) /\ sock'[s].state = sock[s].state
  PROVE  EndsInv' /\ LeavesNone
  BY DEF EndsInv, LeavesNone, Calm

LEMMA EndsDisconnect ==
  ASSUME ~Overlapping, Apart, CallIdInv, DocInv, LifeInv, EndsInv, NEW s \in Sockets,
         HandleDisconnect(s) \/ DisconnectNext(s)
  PROVE  EndsInv' /\ LeavesNone
  <1>0. DocTypes /\ HoldInv
    BY DEF CallIdInv, HoldInv
  <1>1. CASE HandleDisconnect(s)
    <2>. DEFINE active == {c \in Calls : /\ call[c].status \in {"calling", "connected"}
                                         /\ sock[s].user \in Parties(c)}
    <2>1. PICK f \in IF active = {} THEN {NoCall} ELSE active :
            sock' = [sock EXCEPT ![s] = [@ EXCEPT !.state = "ending", !.found = f,
                                                  !.callTimeout = NoTimer]]
      BY <1>1 DEF HandleDisconnect
    <2>2. /\ sock'[s].state = "ending" /\ sock'[s].found = f /\ sock'[s].user = sock[s].user
          /\ \A r \in Sockets \ {s} : sock'[r] = sock[r]
      BY <1>0, <2>1 DEF DocTypes, Meta
    <2>3. Quiet /\ call' = call
      BY <1>1 DEF HandleDisconnect, MayRun
    <2>4. ASSUME NEW c \in Calls, sock[s].user \in Parties(c), call[c].status \in Active PROVE c = f
      <3>1. c \in active /\ f \in active
        BY <2>1, <2>4 DEF Active
      <3>. QED BY <3>1, <2>4 DEF Apart, Active
    <2>5. \A c \in Calls : Parties(c)' = Parties(c)
      BY <2>3 DEF Parties
    <2>6. \A r \in Sockets \ {s} : sock'[r].state \in {"open", "closed"}
      BY <2>2, <2>3 DEF Quiet
    <2>7. EndsInv'
      BY <2>2, <2>3, <2>4, <2>5, <2>6 DEF EndsInv
    <2>8. LeavesNone
      BY <2>3 DEF LeavesNone, Quiet
    <2>. QED BY <2>7, <2>8
  <1>2. CASE DisconnectSave(s) \/ DisconnectMark(s)
    <2>1. /\ \A r \in Sockets \ {s} : sock'[r] = sock[r] /\ sock[r].state \in {"open", "closed"}
          /\ DisconnectSave(s) => /\ sock[s].state = "ending" /\ sock'[s].state = "marking"
                                /\ sock'[s].user = sock[s].user
          /\ DisconnectMark(s) => sock[s].state = "marking" /\ sock'[s].state = "closed"
      BY <1>0, <1>2 DEF DisconnectSave, DisconnectMark, LifeInv, Exclusive, Calm, DocTypes, Meta,
                        Closed, NewMeta
    <2>2. ASSUME NEW d \in Calls, Born(d), SetStatus(d, "ended")
          PROVE  /\ call'[d].status = "ended" /\ \A c \in Calls \ {d} : call'[c] = call[c]
                 /\ \A c \in Calls : Parties(c)' = Parties(c)
      <3>1. Frozen /\ call'[d].status = "ended"
        BY <1>0, <2>2, StatusFreezes DEF Status
      <3>2. \A c \in Calls \ {d} : call'[c] = call[c]
        BY <1>0, <2>2 DEF SetStatus, DocTypes
      <3>. QED BY <3>1, <3>2 DEF Frozen, Parties
    <2>3. CASE DisconnectSave(s)
      <3>1. ASSUME NEW c \in Calls, sock[s].user \in Parties(c)' PROVE call'[c].status \notin Active
        <4>1. CASE sock[s].found = NoCall
          <5>1. call' = call /\ Parties(c)' = Parties(c) /\ c # NoCall
            BY <2>3, <4>1, CallsAssumption DEF DisconnectSave, Parties
          <5>. QED BY <2>1, <2>3, <3>1, <4>1, <5>1 DEF EndsInv
        <4>2. CASE sock[s].found # NoCall
          <5>1. PICK d : d = sock[s].found
            OBVIOUS
          <5>2. d \in Calls /\ Born(d) /\ SetStatus(d, "ended")
            BY <2>1, <2>3, <4>2, <5>1, RefersOf DEF DisconnectSave
          <5>3. CASE c = d
            BY <2>2, <5>2, <5>3 DEF Active
          <5>4. CASE c # d
            BY <2>1, <2>2, <2>3, <3>1, <5>1, <5>2, <5>4 DEF EndsInv
          <5>. QED BY <5>3, <5>4
        <4>. QED BY <4>1, <4>2
      <3>2. EndsInv'
        BY <2>1, <2>3, <3>1 DEF EndsInv
      <3>. QED BY <2>1, <2>3, <3>2 DEF LeavesNone
    <2>4. CASE DisconnectMark(s)
      <3>1. EndsInv'
        BY <2>1, <2>4 DEF EndsInv
      <3>2. ASSUME NEW c \in Calls, sock[s].user \in Parties(c) PROVE call'[c].status \notin Active
        <4>1. call[c].status \notin Active
          BY <2>1, <2>4, <3>2 DEF EndsInv
        <4>2. CASE sock[s].callId = NoCall
          BY <2>4, <4>1, <4>2 DEF DisconnectMark
        <4>3. CASE sock[s].callId # NoCall
          <5>1. PICK d : d = sock[s].callId
            OBVIOUS
          <5>2. d \in Calls /\ Born(d) /\ SetStatus(d, "ended")
            BY <2>1, <2>4, <4>3, <5>1, RefersOf DEF DisconnectMark
          <5>3. call'[c].status = "ended" \/ call'[c] = call[c]
            BY <2>2, <5>2
          <5>. QED BY <4>1, <5>3 DEF Active
        <4>. QED BY <4>2, <4>3
      <3>. QED BY <2>1, <3>1, <3>2 DEF LeavesNone
    <2>. QED BY <1>2, <2>3, <2>4
  <1>. QED BY <1>1, <1>2 DEF DisconnectNext

(* A handler or a timer about to write: no disconnect is in flight.          *)
LEMMA EndsWaiting ==
  ASSUME ~Overlapping, CallIdInv, LifeInv,
         \/ \E t \in Tasks : TaskNext(t)
         \/ \E k \in Timers : TimerNext(k)
  PROVE  EndsInv' /\ LeavesNone
  <1>0. DocTypes
    BY DEF CallIdInv, HoldInv
  <1>1. \A s \in Sockets : Calm(s)
    <2>1. ASSUME NEW t \in Tasks, TaskNext(t) PROVE \A s \in Sockets : Calm(s)
      BY <2>1 DEF LifeInv, Exclusive, TaskNext, StartLookup, StartPick, StartCommit, AcceptCommit,
                  DeclineCommit, EndCommit, GiveUp, Running
    <2>2. ASSUME NEW k \in Timers, TimerNext(k) PROVE \A s \in Sockets : Calm(s)
      BY <2>2 DEF LifeInv, Exclusive, TimerNext, TimerFire, TimerWrite, MayRun, Quiet, Calm
    <2>. QED BY <2>1, <2>2
  <1>2. \A s \in Sockets : sock'[s].state = sock[s].state
    <2>1. ASSUME NEW t \in Tasks, StartCommit(t) PROVE \A s \in Sockets : sock'[s].state = sock[s].state
      BY <1>0, <2>1 DEF StartCommit, DocTypes, Meta
    <2>2. \A S : \A s \in Sockets : Forget(S)[s].state = sock[s].state
      BY <1>0 DEF Forget, DocTypes, Meta
    <2>3. ASSUME NEW t \in Tasks, AcceptCommit(t) PROVE \A s \in Sockets : sock'[s].state = sock[s].state
      <3>1. PICK m, r, c : m = Forget(FirstSocket(task[t].peer)) /\ sock' = SetCallId(m, r, c)
        BY <2>3 DEF AcceptCommit
      <3>2. m \in [Sockets -> Meta]
        <4>1. \A x \in Meta : [x EXCEPT !.callTimeout = NoTimer] \in Meta
          BY DEF Meta
        <4>. QED BY <1>0, <3>1, <4>1 DEF Forget, DocTypes
      <3>3. \A s \in Sockets : sock'[s].state = m[s].state
        BY <3>1, <3>2 DEF SetCallId, Meta
      <3>. QED BY <2>2, <3>1, <3>3
    <2>4. ASSUME NEW t \in Tasks, TaskNext(t) PROVE \A s \in Sockets : sock'[s].state = sock[s].state
      BY <2>1, <2>2, <2>3, <2>4 DEF TaskNext, StartLookup, StartPick, DeclineCommit, EndCommit, GiveUp
    <2>. QED BY <2>4 DEF TimerNext, TimerFire, TimerWrite
  <1>. QED BY <1>1, <1>2, EndsAbsent

LEMMA EndsStep ==
  ASSUME ~Overlapping, Apart, CallIdInv, DocInv, LifeInv, EndsInv, [GatewayNext]_vars
  PROVE  EndsInv' /\ LeavesNone
  <1>1. CASE UNCHANGED vars
    BY <1>1, EndsAside DEF vars, gatewayVars
  <1>2. ASSUME NEW s \in Sockets,
               HandleConnection(s) \/ DisconnectAnonymous(s) \/ \E u \in Users : HandleIdentity(s, u)
        PROVE  EndsInv' /\ LeavesNone
    <2>1. call' = call
      BY <1>2 DEF HandleConnection, HandleIdentity, DisconnectAnonymous
    <2>2. \A r \in Sockets : sock'[r] = sock[r] \/ (Calm(r) /\ Calm(r)')
      BY <1>2 DEF HandleConnection, HandleIdentity, DisconnectAnonymous, CallIdInv, HoldInv, DocTypes,
                  Meta, Calm, Closed, NewMeta, MayRun, Quiet
    <2>. QED BY <2>1, <2>2, EndsAside
  <1>3. ASSUME NEW t \in Tasks, NEW h, Event(t, h) PROVE EndsInv' /\ LeavesNone
    BY <1>3, EndsAside DEF Event
  <1>4. CASE ClientNext
    BY <1>2, <1>3, <1>4, EndsDisconnect
       DEF ClientNext, HandleStartCall, HandleAnswer, HandleEndCall
  <1>. QED BY <1>1, <1>4, EndsDisconnect, EndsWaiting DEF GatewayNext

(* Events one at a time, for any number of users, and as long as nobody is   *)
(* in two active calls (which the gateway does not see to): whoever's socket *)
(* has disconnected, the caller's or the callee's, before the answer or      *)
(* after it, is left in no active call, whichever tab it was.                *)
THEOREM DisconnectEndsApart ==
  ASSUME ~Overlapping
  PROVE  Spec /\ []Apart => DisconnectEndsCalls
  <1>1. Init => CallIdInv /\ DocInv /\ LifeInv /\ EndsInv
    <2>1. Init => EndsInv
      BY DEF Init, GatewayInit, EndsInv, Closed, NewMeta
    <2>. QED BY <2>1, CallIdStart, DocStart, LifeStart
  <1>2. CallIdInv /\ DocInv /\ LifeInv /\ EndsInv /\ Apart /\ [GatewayNext]_vars =>
          (CallIdInv /\ DocInv /\ LifeInv /\ EndsInv)' /\ LeavesNone
    BY NextHolds, DocStep, LifeStep, EndsStep DEF OneHandler
  <1>3. LeavesNone => [\A s \in Sockets :
          sock[s].state = "marking" /\ sock'[s].state = "closed" =>
            \A c \in Calls : sock[s].user \in Parties(c) =>
              call'[c].status \notin {"calling", "connected"}]_vars
    BY DEF LeavesNone, Active
  <1>. QED BY <1>1, <1>2, <1>3, PTL DEF Spec, DisconnectEndsCalls

(* Two people, events one at a time, are never in two calls: the disconnect  *)
(* of a socket of either leaves both in no active call.                      *)
THEOREM DisconnectEndsOneByOne ==
  ASSUME ~Overlapping, Couple
  PROVE  Spec => DisconnectEndsCalls
  <1>1. Init => CallIdInv /\ DocInv
    BY CallIdStart, DocStart
  <1>2. CallIdInv /\ DocInv /\ [GatewayNext]_vars => (CallIdInv /\ DocInv)'
    BY NextHolds, DocStep DEF OneHandler
  <1>3. CallIdInv /\ DocInv => Apart
    BY CoupleApart
  <1>. QED BY <1>1, <1>2, <1>3, DisconnectEndsApart, PTL DEF Spec
=============================================================================
