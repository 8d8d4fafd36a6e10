------------------------------- MODULE ServerStructure -------------------------------
(***************************************************************************)
(* The categories and channels of servers, as ServerService keeps them,    *)
(* and what the clients in the server's room are told of them.  A request  *)
(* reads, checks, writes and then broadcasts: a step each.  The removals   *)
(* are transactions: they see what was there when they began, and hold     *)
(* what they will delete until they commit.                                *)
(***************************************************************************)
EXTENDS Integers, FiniteSets

CONSTANTS
  Servers, Categories, Channels,  \* ids the documents are created with
  Users, Role,   \* Role[u]: owner_id is u ("owner"), or the role of u's membership
  Edits,         \* requests in flight
  MaxName,       \* MaxName.category, MaxName.channel: bounds how often a name changes
  MaxStops,      \* bounds how often the process stops
  None

Nodes == Categories \cup Channels

VARIABLES
  servers,   \* server documents there are
  node,      \* node[n]: the category or channel document n, None when absent
  edit,      \* edit[r]: a request in flight
  told,      \* told[n]: what the last broadcasts said of n
  ended,     \* servers whose members were told server:deleted
  stray,     \* history: written into something that was being removed
  born,      \* history: ids that documents were created with
  crossed,   \* history: written again before its broadcast, or never broadcast
  stops      \* history: how often the process stopped

structureVars == <<servers, node, edit, told, ended, stray, born, crossed, stops>>

Doc == [in : Servers \cup Categories, name : Nat]
Edit == [op : {"create", "rename", "move", "remove", "removeServer"},
         step : {"write", "commit", "tell"},
         on : Nodes \cup Servers,
         doc : Doc \cup {None},     \* what is written, and broadcast
         victims : SUBSET (Nodes \cup Servers)]

StructureTypeOK ==
  /\ servers \subseteq Servers
  /\ node \in [Nodes -> Doc \cup {None}]
  /\ edit \in [Edits -> Edit \cup {None}]
  /\ told \in [Nodes -> Doc \cup {None}]
  /\ ended \subseteq Servers
  /\ stray \subseteq Nodes /\ born \subseteq Nodes /\ crossed \subseteq Nodes \cup Servers
  /\ stops \in 0 .. MaxStops

StructureInit ==
  /\ servers = Servers
  /\ node = [n \in Nodes |-> None] /\ told = [n \in Nodes |-> None]
  /\ edit = [r \in Edits |-> None]
  /\ ended = {} /\ stray = {} /\ born = {} /\ crossed = {}
  /\ stops = 0

Exists(n) == IF n \in Servers THEN n \in servers ELSE node[n] # None
Under(n) == {m \in Nodes : node[m] # None /\ node[m].in = n}
ServerOf(n) == IF n \in Categories THEN node[n].in ELSE node[node[n].in].in
EditAt(r, step) == edit[r] # None /\ edit[r].step = step

(* findById of the document, of the category around a channel, of the server *)
Found(n) ==
  /\ Exists(n)
  /\ n \in Channels => Exists(node[n].in)
  /\ ServerOf(n) \in servers

IsOwner(u) == Role[u] = "owner"
MayManage(u) == Role[u] \in {"owner", "moderator"}

BeginEdit(r, op, n, doc) ==
  /\ edit[r] = None
  /\ op = "create" => n \notin born
  /\ born' = IF op = "create" THEN born \cup {n} ELSE born
  /\ edit' = [edit EXCEPT ![r] = [op |-> op, step |-> "write", on |-> n,
                                  doc |-> doc, victims |-> {}]]
  /\ UNCHANGED <<servers, node, told, ended, stray, crossed, stops>>

-----------------------------------------------------------------------------
CreateCategory(r, u, c, s) ==
  /\ s \in servers /\ IsOwner(u)
  /\ BeginEdit(r, "create", c, [in |-> s, name |-> 0])

CreateChannel(r, u, ch, c) ==
  /\ Found(c) /\ MayManage(u)
  /\ BeginEdit(r, "create", ch, [in |-> c, name |-> 0])

UpdateCategory(r, u, c) ==
  /\ Found(c) /\ IsOwner(u) /\ node[c].name < MaxName.category
  /\ BeginEdit(r, "rename", c, [node[c] EXCEPT !.name = @ + 1])

UpdateChannel(r, u, ch) ==
  /\ Found(ch) /\ MayManage(u) /\ node[ch].name < MaxName.channel
  /\ BeginEdit(r, "rename", ch, [node[ch] EXCEPT !.name = @ + 1])

(* The new category belongs to the server of the old one, and is another.    *)
MoveChannel(r, u, ch, c) ==
  /\ Found(ch) /\ MayManage(u)
  /\ Exists(c) /\ ServerOf(c) = ServerOf(ch) /\ node[ch].in # c
  /\ BeginEdit(r, "move", ch, [node[ch] EXCEPT !.in = c])

RemoveCategory(r, u, c) == Found(c) /\ IsOwner(u) /\ BeginEdit(r, "remove", c, None)
RemoveChannel(r, u, ch) == Found(ch) /\ MayManage(u) /\ BeginEdit(r, "remove", ch, None)
RemoveServer(r, u, s) == s \in servers /\ IsOwner(u) /\ BeginEdit(r, "removeServer", s, None)

-----------------------------------------------------------------------------
Held == UNION {edit[r].victims : r \in {r \in Edits : EditAt(r, "commit")}}
Untold(ns) == {edit[r].on : r \in {r \in Edits : EditAt(r, "tell")}} \cap ns
IsGoing(c) == ~Exists(c) \/ c \in Held

(* Faulty: the document as it was read is written back whole.                *)
WrittenBack(r) == edit[r].doc

(* The documents written with edit[r].doc: all of it on a create, one field  *)
(* of what is there now on the others.                                       *)
Written(r) ==
  LET n == edit[r].on  new == edit[r].doc IN
  CASE edit[r].op = "create" -> new
    [] edit[r].op = "rename" -> [node[n] EXCEPT !.name = new.name]
    [] edit[r].op = "move"   -> [node[n] EXCEPT !.in = new.in]

WriteEdit(r) ==
  LET n == edit[r].on IN
  /\ EditAt(r, "write") /\ edit[r].op \in {"create", "rename", "move"}
  /\ edit[r].op # "create" => node[n] # None /\ n \notin Held
  /\ node' = [node EXCEPT ![n] = Written(r)]
  /\ edit' = [edit EXCEPT ![r].step = "tell", ![r].doc = Written(r)]
  /\ crossed' = crossed \cup Untold({n})
  /\ stray' = IF edit[r].op # "rename" /\ IsGoing(edit[r].doc.in) THEN stray \cup {n} ELSE stray
  /\ UNCHANGED <<servers, told, ended, born, stops>>

(* Faulty: the channels of a server's categories are left.                   *)
InsideOnly(n) == Under(n)

(* What a removal deletes: the document, what is in it and what is in that.  *)
Inside(n) == Under(n) \cup UNION {Under(m) : m \in Under(n)}
Removed(n) == {n} \cup Inside(n)

(* The document is gone, or another transaction holds what this one needs.   *)
EditFails(r) ==
  /\ EditAt(r, "write")
  /\ IF edit[r].op \in {"remove", "removeServer"}
     THEN Removed(edit[r].on) \cap Held # {} \/ ~Exists(edit[r].on)
     ELSE edit[r].op # "create" /\ node[edit[r].on] = None
  /\ edit' = [edit EXCEPT ![r] = None]
  /\ UNCHANGED <<servers, node, told, ended, stray, born, crossed, stops>>

BeginRemoval(r) ==
  LET n == edit[r].on IN
  /\ EditAt(r, "write") /\ edit[r].op \in {"remove", "removeServer"}
  /\ Exists(n) /\ Removed(n) \cap Held = {}
  /\ edit' = [edit EXCEPT ![r].step = "commit", ![r].victims = Removed(n)]
  /\ UNCHANGED <<servers, node, told, ended, stray, born, crossed, stops>>

CommitRemoval(r) ==
  LET gone == edit[r].victims IN
  /\ EditAt(r, "commit")
  /\ servers' = servers \ gone
  /\ node' = [n \in Nodes |-> IF n \in gone THEN None ELSE node[n]]
  /\ edit' = [edit EXCEPT ![r].step = "tell", ![r].victims = {}]
  /\ crossed' = crossed \cup Untold(gone)
  /\ UNCHANGED <<told, ended, stray, born, stops>>

AbortRemoval(r) ==
  /\ EditAt(r, "commit")
  /\ edit' = [edit EXCEPT ![r] = None]
  /\ UNCHANGED <<servers, node, told, ended, stray, born, crossed, stops>>

(* category:created, channel:created, channel:moved say where it is; the     *)
(* updated events carry the name alone; the deleted ones, the id.            *)
Broadcast(r) ==
  LET n == edit[r].on  doc == edit[r].doc IN
  /\ EditAt(r, "tell")
  /\ IF edit[r].op = "removeServer"
     THEN ended' = ended \cup {n} /\ UNCHANGED told
     ELSE /\ UNCHANGED ended
          /\ told' = [told EXCEPT ![n] =
               IF edit[r].op \in {"create", "move", "remove"} THEN doc
               ELSE IF @ = None THEN None ELSE [@ EXCEPT !.name = doc.name]]
  /\ edit' = [edit EXCEPT ![r] = None]
  /\ UNCHANGED <<servers, node, stray, born, crossed, stops>>

(* The process stops: transactions abort, what was not broadcast never is.   *)
Stop ==
  /\ stops < MaxStops /\ edit # [r \in Edits |-> None]
  /\ stops' = stops + 1
  /\ crossed' = crossed \cup Untold(Nodes \cup Servers)
  /\ edit' = [r \in Edits |-> None]
  /\ UNCHANGED <<servers, node, told, ended, stray, born>>

Request(r, u) ==
  \/ \E c \in Categories :
       \/ \E s \in Servers : CreateCategory(r, u, c, s)
       \/ UpdateCategory(r, u, c) \/ RemoveCategory(r, u, c)
       \/ \E ch \in Channels : CreateChannel(r, u, ch, c) \/ MoveChannel(r, u, ch, c)
  \/ \E ch \in Channels : UpdateChannel(r, u, ch) \/ RemoveChannel(r, u, ch)
  \/ \E s \in Servers : RemoveServer(r, u, s)

StructureNext ==
  \/ \E r \in Edits :
       \/ \E u \in Users : Request(r, u)
       \/ WriteEdit(r) \/ EditFails(r) \/ BeginRemoval(r) \/ CommitRemoval(r)
       \/ AbortRemoval(r) \/ Broadcast(r)
  \/ Stop

-----------------------------------------------------------------------------
(* removeCategory, removeServer: a channel has its category and a category   *)
(* its server, except for one that was written while its parent was being    *)
(* removed (nothing reads the parent again before the write).                *)
NothingAstray ==
  \A n \in Nodes \ stray : node[n] # None => Exists(node[n].in)

Shown(n) ==
  LET inCategory(c) == told[c] # None /\ told[c].in \notin ended IN
  told[n] # None /\ IF n \in Categories THEN inCategory(n) ELSE inCategory(told[n].in)

Within(n) == {n} \cup (IF told[n] = None THEN {} ELSE {told[n].in} \cup
                (IF n \in Channels /\ told[told[n].in] # None THEN {told[told[n].in].in} ELSE {}))

(* The broadcasts add up to the tree: when none is due, a client that has    *)
(* followed them knows every category and channel, its place and its name,   *)
(* whichever requests overlapped; only what is within a document that two    *)
(* requests wrote before the first was broadcast, or whose broadcast a stop  *)
(* cut short, is excepted.                                                   *)
EventsTellTheTree ==
  (\A r \in Edits : ~EditAt(r, "tell")) =>
    \A n \in Nodes : Within(n) \cap (stray \cup crossed) = {} =>
      /\ Shown(n) <=> node[n] # None
      /\ Shown(n) => told[n] = node[n]
=============================================================================
