--------------------------------- MODULE MCApplications ---------------------------------
(***************************************************************************)
(* Small instances of the components that share nothing with one another   *)
(* but ids.  A behaviour is of one of them, the scene, and leaves the      *)
(* variables of the others at None, so that one run checks them all.       *)
(***************************************************************************)
EXTENDS Integers, FiniteSets, TLC

CONSTANTS
  Scenes,      \* the scenes of this run
  Users, Pair, \* people, and two of them
  ann, bob,    \* the owner of a server, and its moderator
  Servers, FewServers,  \* ids of servers, and those of the scenes that need one
  Documents, FewDocuments, Channels,  \* of categories and channels, or of calls
  Requests, r3,         \* requests in flight, and one more
  Readers,     \* listings of members in flight
  Ids,         \* ids of users, in order
  Sockets, socket, Messages, Contents,
  MaxNames, MaxStops,  \* bound how often a name changes and the process stops
  MaxChanges,  \* bounds how often a membership changes
  MaxSockets,  \* bounds how many connections are opened
  MaxText,     \* bounds how often a message is edited
  None

Owners ==
  [u \in Users |-> CASE u = ann -> "owner" [] u = bob -> "moderator" [] OTHER -> "member"]

VARIABLES
  scene,
  servers, node, edit, told, ended, stray, born, crossed, stops,
  online, userId, rooms, tracked, event, listed, untrue, opened,
  gateway, meta, stored, handler, shown, home, overtaken,
  storage, unique, added, disk, lock, task, document,
  pairs, ask, given,
  member, list, listing, change, changes,
  call, request, alarm, contended, rushed

(* Two servers and the moves between their categories; categories and a      *)
(* channel renamed in a server; a process that stops and restarts.           *)
Trees == {"tree", "names", "stops"}
TreeServers(sc) == IF sc = "tree" THEN Servers ELSE FewServers
TreeCategories(sc) == IF sc = "stops" THEN FewDocuments ELSE Documents
TreeNames(sc) == [category |-> IF sc = "stops" THEN MaxNames ELSE 0,
                  channel |-> IF sc = "tree" THEN 0 ELSE MaxNames]
TreeStops(sc) == IF sc = "stops" THEN MaxStops ELSE 0
Tree(sc) == INSTANCE ServerStructure
  WITH Servers <- TreeServers(sc), Categories <- TreeCategories(sc),
       Edits <- Requests, Role <- Owners, MaxName <- TreeNames(sc), MaxStops <- TreeStops(sc)
Rooms == INSTANCE ServerEvents
  WITH Users <- Pair, Events <- Requests
Chat == INSTANCE MessageEvents
  WITH Gateways <- {"channel", "direct"}, Sockets <- {socket}, Parties <- Pair,
       Handlers <- Requests
Files == INSTANCE Uploads WITH Uploads <- Requests \cup {r3}
Pairs == INSTANCE Conversations WITH Calls <- Requests
Members == INSTANCE MemberList
  WITH People <- Users, Changes <- Requests
Rest == INSTANCE DirectCallRest
  WITH Calls <- Documents, NoRequest <- None, NoCall <- None,
       RestCrossed <- TRUE

(* Ids of users are numbers; an id is of one kind; None is nothing else.     *)
ASSUME IdsAssumption == Ids \subseteq Int
ASSUME BoundsAssumption ==
  MaxStops \in Nat /\ MaxChanges \in Nat /\ MaxSockets \in Nat /\ MaxText \in Nat
ASSUME KindsApart ==
  \A sc \in Trees :
    TreeServers(sc) \cap Tree(sc)!Nodes = {} /\ TreeCategories(sc) \cap Channels = {}
ASSUME NoneAssumption ==
  /\ \A sc \in Trees : None \notin Tree(sc)!Doc \cup Tree(sc)!Edit
  /\ None \notin Pair \cup Rooms!Event
  /\ None \notin Chat!Text \cup Chat!Handler
  /\ None \notin Requests \cup {r3} \cup Contents \cup Files!Task \cup Documents
  /\ None \notin Members!Roles

treeVars == <<servers, node, edit, told, ended, stray, born, crossed, stops>>
roomVars == <<online, userId, tracked, event, listed, untrue, opened>>
chatVars == <<gateway, meta, stored, handler, shown, home, overtaken>>
fileVars == <<storage, unique, added, disk, lock, task, document>>
pairVars == <<pairs, ask, given>>
memberVars == <<member, list, listing, change, changes>>
restVars == <<call, request, alarm, contended, rushed>>
vars == <<scene, rooms, treeVars, roomVars, chatVars, fileVars, pairVars, memberVars, restVars>>

NoTree ==
  /\ servers = None /\ node = None /\ edit = None /\ told = None /\ ended = None
  /\ stray = None /\ born = None /\ crossed = None /\ stops = None
NoRoom ==
  /\ online = None /\ userId = None /\ tracked = None /\ event = None
  /\ listed = None /\ untrue = None /\ opened = None
NoChat ==
  /\ gateway = None /\ meta = None /\ stored = None /\ handler = None
  /\ shown = None /\ home = None /\ overtaken = None
NoFile ==
  /\ storage = None /\ unique = None /\ added = None /\ disk = None
  /\ lock = None /\ task = None /\ document = None
NoPair == pairs = None /\ ask = None /\ given = None
NoMember == member = None /\ list = None /\ listing = None /\ change = None /\ changes = None
NoRest ==
  /\ call = None /\ request = None /\ alarm = None
  /\ contended = None /\ rushed = None

Init ==
  /\ scene \in Scenes
  /\ IF scene \in Trees THEN \E sc \in Trees : scene = sc /\ Tree(sc)!StructureInit ELSE NoTree
  /\ IF scene = "rooms" THEN Rooms!EventsInit ELSE NoRoom
  /\ IF scene = "chat" THEN Chat!MessageEventsInit ELSE NoChat
  /\ scene \notin {"rooms", "chat"} => rooms = None
  /\ IF scene = "files" THEN Files!UploadsInit ELSE NoFile
  /\ IF scene = "pairs" THEN Pairs!ConversationsInit ELSE NoPair
  /\ IF scene = "members" THEN Members!MemberListInit ELSE NoMember
  /\ IF scene = "rest" THEN Rest!RestAloneInit ELSE NoRest

Next ==
  /\ UNCHANGED scene
  /\ \/ \E sc \in Trees : scene = sc /\ Tree(sc)!StructureNext
     \/ scene \notin Trees /\ UNCHANGED treeVars
  /\ \/ scene = "rooms" /\ Rooms!EventsNext
     \/ scene # "rooms" /\ UNCHANGED roomVars
  /\ \/ scene = "chat" /\ Chat!MessageEventsNext
     \/ scene # "chat" /\ UNCHANGED chatVars
  /\ scene \notin {"rooms", "chat"} => UNCHANGED rooms
  /\ \/ scene = "files" /\ Files!UploadsNext
     \/ scene # "files" /\ UNCHANGED fileVars
  /\ \/ scene = "pairs" /\ Pairs!ConversationsNext
     \/ scene # "pairs" /\ UNCHANGED pairVars
  /\ \/ scene = "members" /\ Members!MemberListNext
     \/ scene # "members" /\ UNCHANGED memberVars
  /\ \/ scene = "rest" /\ Rest!RestNext
     \/ scene # "rest" /\ UNCHANGED restVars

Spec == Init /\ [][Next]_vars

Symmetry ==
  Permutations(Requests) \cup Permutations(Servers) \cup Permutations(Pair)
    \cup Permutations(Documents) \cup Permutations(Sockets)

-----------------------------------------------------------------------------
(* The variables of the scene have their types.                              *)
TypeOK ==
  /\ \A sc \in Trees : scene = sc => Tree(sc)!StructureTypeOK
  /\ scene = "rooms" => Rooms!EventsTypeOK
  /\ scene = "chat" => Chat!MessageEventsTypeOK
  /\ scene = "files" => Files!UploadsTypeOK
  /\ scene = "pairs" => Pairs!ConversationsTypeOK
  /\ scene = "members" => Members!MemberListTypeOK
  /\ scene = "rest" => Rest!RestTypeOK

(* removeCategory, removeServer: no document is left without its parent.     *)
NothingAstray == \A sc \in Trees : scene = sc => Tree(sc)!NothingAstray

(* The category and channel events add up to the stored tree.                *)
EventsTellTheTree == \A sc \in Trees : scene = sc => Tree(sc)!EventsTellTheTree

(* member:joined and member:left add up to who is in the room.               *)
RoomsKnowWhoIsThere == scene = "rooms" => Rooms!RoomsKnowWhoIsThere

(* newMessage, messageEdited and messageDeleted add up to what is stored.    *)
ViewersAgree == scene = "chat" => Chat!ViewersAgree

(* handleUpload: one upload at a time adds a content to IPFS.                *)
OneAddsAContent == scene = "files" => Files!OneAddsAContent

(* handleUpload: a stored document says where its file is.                   *)
FilesAreSomewhere == scene = "files" => Files!FilesAreSomewhere

(* createOrGetConversation: two users are given one conversation.            *)
OneConversation == scene = "pairs" => Pairs!OneConversation

(* getMembersInServer: the cached list is that of the members.               *)
ListTrue == scene = "members" => Members!ListTrue

(* DirectCallService.startCall: nobody is the caller of two active calls, if *)
(* no two starts of his, or requests on a call of his, met in flight.        *)
CallerHasOneCall == scene = "rest" => Rest!CallerHasOneCall

(* DirectCallService: requests in flight together, a call goes through the   *)
(* states of CallLifecycle but for the late saves of those that shared it.   *)
CallsMoveOn == [][scene = "rest" => Rest!MovesOn]_vars
==========================================================================
