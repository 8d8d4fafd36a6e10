--------------------------------- MODULE CallLifecycle ---------------------------------
(***************************************************************************)
(* What a direct call promises its two parties: a conversation has one     *)
(* call at a time, which rings until it is answered, declined, hung up or  *)
(* timed out, and is hung up only once it is answered.  This is the chain  *)
(* of states of enum CallStatus that the gateway's clients see.            *)
(***************************************************************************)
CONSTANTS
  Pairs,  \* the conversations, or the documents of the calls
  Free,   \* the states from which a call may ring
  Over    \* the states of a call that is over

VARIABLE phase  \* phase[p]: the state of the call of conversation p

Init == phase = [p \in Pairs |-> "none"]

Move(p, from, to) ==
  /\ phase[p] \in from
  /\ phase' = [phase EXCEPT ![p] = to]

Ring(p) == Move(p, Free, "calling")
Answer(p) == Move(p, {"calling"}, "connected")
Decline(p) == Move(p, {"calling"}, "declined")
TimeOut(p) == Move(p, {"calling"}, "timeout")
Cancel(p) == Move(p, {"calling"}, "ended")
HangUp(p) == Move(p, {"connected"}, "ended")

(* A party that disconnects, or hangs up, later has the finished call marked *)
(* "ended" once more, whatever it ended with.                                *)
MarkAgain(p) == Move(p, Over, "ended")

StopRinging(p) == Answer(p) \/ Decline(p) \/ TimeOut(p) \/ Cancel(p)

Next ==
  \E p \in Pairs : Ring(p) \/ StopRinging(p) \/ HangUp(p) \/ MarkAgain(p)

(* Ringing does not go on for ever; nothing obliges a party to hang up.      *)
Spec ==
  Init /\ [][Next]_phase /\ \A p \in Pairs : WF_phase(StopRinging(p))
===========================================================================
