-------------------------------- MODULE Conversations --------------------------------
(***************************************************************************)
(* createOrGetConversation: the conversation of two users is found, in     *)
(* either order of the two, or created.  The schema puts the smaller id    *)
(* first when it is saved, and has a unique index on the ordered pair.     *)
(***************************************************************************)
EXTENDS Integers, FiniteSets

CONSTANTS
  Ids,     \* ids of users: numbers, for their order
  Calls,   \* requests in flight
  None

VARIABLES
  pairs,   \* the documents: <<userA, userB, n>>, the n-th created of them
  ask,     \* ask[r]: a request in flight
  given    \* given[p]: the documents that {a, b} = p were answered with

conversationVars == <<pairs, ask, given>>

BothWays(a, b) == {<<a, b>>, <<b, a>>}
(* Faulty: the pair is stored as it was asked for.                           *)
OrderedAsAsked(a, b) == <<a, b>>

Ordered(a, b) == IF a > b THEN <<b, a>> ELSE <<a, b>>
AtMostTwo == {{a, b} : a, b \in Ids}

ConversationsTypeOK ==
  /\ pairs \subseteq Ids \X Ids \X Nat
  /\ ask \in [Calls -> (Ids \X Ids) \cup {None}]
  /\ given \in [AtMostTwo -> SUBSET pairs]

ConversationsInit ==
  /\ pairs = {}
  /\ ask = [r \in Calls |-> None]
  /\ given = [p \in AtMostTwo |-> {}]

Answer(a, b, doc) == given' = [given EXCEPT ![{a, b}] = @ \cup {doc}]
Existing(a, b) == {d \in pairs : <<d[1], d[2]>> \in BothWays(a, b)}

-----------------------------------------------------------------------------
FindConversation(r, a, b) ==
  /\ ask[r] = None
  /\ IF Existing(a, b) # {}
     THEN \E d \in Existing(a, b) : Answer(a, b, d) /\ UNCHANGED ask
     ELSE ask' = [ask EXCEPT ![r] = <<a, b>>] /\ UNCHANGED given
  /\ UNCHANGED pairs

(* pre("save"), then the insert: a duplicate key is the caller's error.      *)
CreateConversation(r) ==
  LET a == ask[r][1]  b == ask[r][2]  pair == Ordered(a, b) IN
  /\ ask[r] # None
  /\ \/ /\ \A d \in pairs : <<d[1], d[2]>> # pair
        /\ LET doc == <<pair[1], pair[2], Cardinality(pairs)>>
           IN  pairs' = pairs \cup {doc} /\ Answer(a, b, doc)
     \/ (\E d \in pairs : <<d[1], d[2]>> = pair) /\ UNCHANGED <<pairs, given>>
  /\ ask' = [ask EXCEPT ![r] = None]

ConversationsNext ==
  \E r \in Calls :
    CreateConversation(r) \/ \E a, b \in Ids : FindConversation(r, a, b)

-----------------------------------------------------------------------------
(* createOrGetConversation: whoever of the two asks, and whenever, they are  *)
(* given the same conversation, so their messages meet in it.                *)
OneConversation == \A p \in AtMostTwo : Cardinality(given[p]) <= 1
=============================================================================
