--------------------------------- MODULE MCChannelCall ---------------------------------
(* Small instances of voice channels: named users and the socket each opens.  *)
(* Calm: two channels and two sockets, one service call at a time, no REST.   *)
(* Otherwise: one channel, one socket, a user on REST, two calls interleaved. *)
EXTENDS ChannelCall, TLC

CONSTANTS ann, bob, ann1, bob1,
  Scenes,  \* the values calm has
  x        \* the channel of the instance that is not calm

VARIABLE calm

OneSocketEach == ann1 :> ann @@ bob1 :> bob
AnnOnly == ann1 :> ann

ByRest == \E t \in Tasks, u \in Users, ch \in Channels : RestJoin(t, u, ch) \/ RestLeave(t, u, ch)

Small ==
  /\ meta[bob1] = Closed
  /\ \A c \in Calls : voice[c] # None => voice[c].channel = x
  /\ \A t \in Busy : {task[t].channel, task[t].next} \subseteq {x, None}

SceneInit == Init /\ calm \in Scenes

SceneNext ==
  /\ Next
  /\ UNCHANGED calm
  /\ IF calm THEN Cardinality(Busy') <= 1 /\ ~ByRest ELSE Small'

SceneSpec == SceneInit /\ [][SceneNext]_<<vars, calm>>

Symmetry == Permutations(Tasks) \cup Permutations(Calls) \cup Permutations(Places)

-----------------------------------------------------------------------------
(* joinChannel, leaveChannel, handleUserDisconnect, one at a time: the count *)
(* of a channel is that of its participants.                                 *)
CalmCountsMatch == calm => CountsMatch

(* joinChannel, one at a time: one call a channel, one participant a user.   *)
CalmNoDoubles == calm => NoDoubles

(* handleJoinChannel, handleLeaveChannel, one event at a time: a socket that *)
(* holds a channel belongs to a participant of it.                           *)
CalmMetaIsTrue == calm => MetaIsTrue
==========================================================================
