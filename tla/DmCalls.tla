---------------------------------- MODULE DmCalls ----------------------------------
(* The dm_calls collection, shared by the WebSocket gateway and the REST       *)
(* service of the direct-calling application.                                  *)
EXTENDS Naturals, FiniteSets

CONSTANTS
  Users,   \* people who call each other
  Calls,   \* ids of call documents; bounds how many are ever created
  NoCall   \* the absent call id

ASSUME CallsAssumption == NoCall \notin Calls /\ Cardinality(Users) >= 2

(* enum CallStatus; "none" is a document not yet created. *)
Status == {"none", "calling", "ringing", "connected",
           "ended", "timeout", "declined"}
Finished == {"ended", "timeout", "declined"}

VARIABLE call  \* call[c]: status, caller_id and callee_id of document c

CallDoc == [status : Status, caller : Users, callee : Users]
CallsTypeOK == call \in [Calls -> CallDoc]

CallsInit ==
  \E u \in Users :
    call = [c \in Calls |-> [status |-> "none", caller |-> u, callee |-> u]]

Parties(c) == {call[c].caller, call[c].callee}

(* find({conversation_id, status: {$in: S}}): the unordered pair of users    *)
(* stands for the conversation, which is unique for it.                      *)
InConversation(pair, S) ==
  {c \in Calls : call[c].status \in S /\ Parties(c) = pair}

SetStatus(c, s) == call' = [call EXCEPT ![c].status = s]

Unborn == {c \in Calls : call[c].status = "none"}
============================================================================
