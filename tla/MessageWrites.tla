-------------------------------- MODULE MessageWrites --------------------------------
(***************************************************************************)
(* A send, an edit or a delete on its way through a messaging service: the *)
(* read that allows it, the write to MongoDB and the invalidation of the   *)
(* cached pages.  Every await is a step.  What differs between the two     *)
(* services is in ChannelMessages and DirectMessages; what is broadcast    *)
(* afterwards is in MessageEvents.                                         *)
(***************************************************************************)
EXTENDS MessageCache

CONSTANTS Writers  \* sends, edits and deletes in flight

VARIABLES
  op,    \* op[w]: the write in flight
  edits  \* history: how many edits and deletes have begun

writeVars == <<op, edits>>

Op == [step : {"invalidate", "save", "keys", "del"},
       does : {"send", "edit", "delete"}, msg : 1 .. MaxMessages,
       text : 0 .. Deleted,
       keys : SUBSET ({"page", "lock"} \X Pages)]

ASSUME NoneAssumption == None \notin Op

WritesTypeOK ==
  /\ op \in [Writers -> Op \cup {None}]
  /\ edits \in 0 .. MaxEdits

WritesInit ==
  /\ op = [w \in Writers |-> None]
  /\ edits = 0

OpAt(w, step) == op[w] # None /\ op[w].step = step

-----------------------------------------------------------------------------
(* The new document; what it replies to and its attachments were checked.    *)
InsertMessage(w) ==
  /\ op[w] = None /\ Len(message) < MaxMessages
  /\ \E t \in 1 .. MaxTime :
       /\ message # << >> => t >= Last(message).at
       /\ message' = Append(message, [at |-> t, text |-> 0, gone |-> FALSE])
  /\ op' = [op EXCEPT ![w] = [step |-> "invalidate", does |-> "send",
       msg |-> Len(message) + 1, text |-> 0, keys |-> {}]]
  /\ req' = Behind({0})
  /\ UNCHANGED <<entry, lock, edits>>

InvalidateFirstPage(w) ==
  /\ OpAt(w, "invalidate")
  /\ InvalidatePage(0)
  /\ op' = [op EXCEPT ![w] = None]
  /\ UNCHANGED <<message, lock, req, edits>>

(* findById: the sender's own message.                                       *)
FindMessage(w, m, does) ==
  /\ op[w] = None /\ m \in DOMAIN message /\ edits < MaxEdits
  /\ op' = [op EXCEPT ![w] = [step |-> "save", does |-> does, msg |-> m,
       text |-> IF does = "delete" THEN Deleted ELSE edits + 1, keys |-> {}]]
  /\ edits' = edits + 1
  /\ UNCHANGED <<message, entry, lock, req>>

(* save() writes the fields the write has set: an edit leaves isDeleted.     *)
SaveMessage(w) ==
  /\ OpAt(w, "save")
  /\ message' = [message EXCEPT ![op[w].msg].text = op[w].text,
       ![op[w].msg].gone = @ \/ op[w].does = "delete"]
  /\ req' = Behind(Pages)
  /\ op' = [op EXCEPT ![w].step = "keys"]
  /\ UNCHANGED <<entry, lock, edits>>

ListKeys(w) ==
  /\ OpAt(w, "keys")
  /\ op' = [op EXCEPT ![w] = IF KeysOfRoom = {} THEN None
                             ELSE [@ EXCEPT !.step = "del", !.keys = KeysOfRoom]]
  /\ UNCHANGED <<message, entry, lock, req, edits>>

DropKeys(w) ==
  /\ OpAt(w, "del")
  /\ DeleteKeys(op[w].keys)
  /\ op' = [op EXCEPT ![w] = None]
  /\ UNCHANGED <<message, edits>>

(* Pages that the write has made out of date and not yet dropped.            *)
Outdates(w) ==
  IF op[w] = None \/ op[w].step = "save" THEN {}
  ELSE IF op[w].does = "send" THEN {0} ELSE Pages

LeaveBehind(pages) ==
  entry' = [p \in Pages |-> IF p \in pages /\ entry[p] # None
                            THEN [entry[p] EXCEPT !.behind = TRUE] ELSE entry[p]]

(* A redis call of the invalidation fails: it is logged, the write goes on,  *)
(* and the pages it should have dropped stay.                                *)
InvalidationFails(w) ==
  /\ Outdates(w) # {}
  /\ LeaveBehind(Outdates(w))
  /\ op' = [op EXCEPT ![w] = None]
  /\ UNCHANGED <<message, lock, req, edits>>

Invalidating(w) ==
  \/ InvalidateFirstPage(w) \/ ListKeys(w) \/ DropKeys(w) \/ InvalidationFails(w)

(* The process dies with all that is in flight; MongoDB and redis stay.      *)
Crash ==
  /\ op' = [w \in Writers |-> None]
  /\ req' = [r \in Requests |-> None]
  /\ LeaveBehind(UNION {Outdates(w) : w \in Writers})
  /\ UNCHANGED <<message, lock, edits>>
==========================================================================
