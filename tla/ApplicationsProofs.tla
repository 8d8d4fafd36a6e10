------------------------------ MODULE ApplicationsProofs ------------------------------
(***************************************************************************)
(* Theorems about the components that MCApplications runs side by side,    *)
(* for any servers, documents, users and requests in flight.  A behaviour  *)
(* is of one scene; each invariant is that of the scene's own variables.   *)
(***************************************************************************)
EXTENDS MCApplications, FiniteSetTheorems, TLAPS

(* A step stays in its scene, and is a step of the scene or a stutter.       *)
LEMMA SceneStays ==
  ASSUME [Next]_vars PROVE scene' = scene
BY DEF Next, vars

-----------------------------------------------------------------------------
(* A document that may be n: a category's is in a server, a channel's in a   *)
(* category.                                                                 *)
Fits(sc, n, doc) ==
  /\ doc \in Tree(sc)!Doc /\ n \in Tree(sc)!Nodes
  /\ n \in TreeCategories(sc) => doc.in \in TreeServers(sc)
  /\ n \in Channels => doc.in \in TreeCategories(sc)

Writes == {"create", "rename", "move"}
NodesFit(sc) == \A n \in Tree(sc)!Nodes : node[n] # None => Fits(sc, n, node[n])
EditFits(sc, e) ==
  /\ e.op \in Writes => Fits(sc, e.on, e.doc)
  /\ e.op = "removeServer" => e.on \in TreeServers(sc)
EditsFit(sc) == \A r \in Requests : edit[r] # None => EditFits(sc, edit[r])

(* What a removal deletes is whole: what is in it is of it, but for what was *)
(* written into it since it began.                                           *)
Whole(sc, gone) ==
  \A m \in Tree(sc)!Nodes \ stray : node[m] # None /\ node[m].in \in gone => m \in gone
RemovalsWhole(sc) ==
  \A r \in Requests : Tree(sc)!EditAt(r, "commit") => Whole(sc, edit[r].victims)

TreeInv(sc) ==
  /\ Tree(sc)!StructureTypeOK /\ NodesFit(sc) /\ EditsFit(sc)
  /\ RemovalsWhole(sc) /\ Tree(sc)!NothingAstray

(* x is there, of the servers ss and the documents nn.                       *)
Standing(sc, x, ss, nn) == IF x \in TreeServers(sc) THEN x \in ss ELSE nn[x] # None

LEMMA TreeBegins ==
  ASSUME NEW sc \in Trees, Tree(sc)!StructureInit PROVE TreeInv(sc)
<1>1. TreeStops(sc) \in Nat
  BY BoundsAssumption DEF TreeStops
<1> QED
  BY <1>1 DEF Tree!StructureInit, TreeInv, Tree!StructureTypeOK, NodesFit, EditsFit, RemovalsWhole,
     Tree!NothingAstray, Tree!EditAt

(* One request in flight becomes another, which fits; the tree is the same.  *)
LEMMA EditReplaced ==
  ASSUME NEW sc \in Trees, TreeInv(sc), NEW r \in Requests,
         NEW e \in Tree(sc)!Edit \cup {None}, edit' = [edit EXCEPT ![r] = e],
         UNCHANGED <<servers, node, stray, stops>>,
         told' \in [Tree(sc)!Nodes -> Tree(sc)!Doc \cup {None}],
         ended' \subseteq TreeServers(sc), born' \subseteq Tree(sc)!Nodes,
         crossed' \subseteq Tree(sc)!Nodes \cup TreeServers(sc),
         e # None => EditFits(sc, e),
         e # None /\ e.step = "commit" => Whole(sc, e.victims)
  PROVE  TreeInv(sc)'
<1>1. edit \in [Requests -> Tree(sc)!Edit \cup {None}]
  BY DEF TreeInv, Tree!StructureTypeOK
<1>2. edit'[r] = e /\ \A s \in Requests : s # r => edit'[s] = edit[s]
  BY <1>1
<1>3. Tree(sc)!StructureTypeOK'
  BY <1>1 DEF TreeInv, Tree!StructureTypeOK
<1>4. NodesFit(sc)' /\ Tree(sc)!NothingAstray'
  BY DEF TreeInv, NodesFit, Fits, Tree!NothingAstray, Tree!Exists
<1>5. EditsFit(sc)'
  BY <1>2 DEF TreeInv, EditsFit, EditFits, Fits
<1>6. RemovalsWhole(sc)'
  BY <1>2 DEF TreeInv, RemovalsWhole, Whole, Tree!EditAt
<1> QED
  BY <1>3, <1>4, <1>5, <1>6 DEF TreeInv

LEMMA EditBegins ==
  ASSUME NEW sc \in Trees, TreeInv(sc), NEW r \in Requests, NEW op, NEW n, NEW doc,
         op \in {"create", "rename", "move", "remove", "removeServer"},
         n \in Tree(sc)!Nodes \cup TreeServers(sc), doc \in Tree(sc)!Doc \cup {None},
         op \in Writes => Fits(sc, n, doc), op = "removeServer" => n \in TreeServers(sc),
         Tree(sc)!BeginEdit(r, op, n, doc)
  PROVE  TreeInv(sc)'
<1> DEFINE e == [op |-> op, step |-> "write", on |-> n, doc |-> doc, victims |-> {}]
<1>1. e \in Tree(sc)!Edit /\ e.step = "write" /\ EditFits(sc, e)
  BY DEF Tree!Edit, EditFits
<1>2. /\ edit' = [edit EXCEPT ![r] = e]
      /\ UNCHANGED <<servers, node, told, ended, stray, crossed, stops>>
      /\ born' = IF op = "create" THEN born \cup {n} ELSE born
  BY DEF Tree!BeginEdit
<1>3. born' \subseteq Tree(sc)!Nodes
  BY <1>2 DEF TreeInv, Tree!StructureTypeOK, Fits, Writes
<1> HIDE DEF e
<1> QED
  BY <1>1, <1>2, <1>3, EditReplaced DEF TreeInv, Tree!StructureTypeOK

LEMMA RequestMade ==
  ASSUME NEW sc \in Trees, TreeInv(sc), NEW r \in Requests, NEW u \in Users,
         Tree(sc)!Request(r, u)
  PROVE  TreeInv(sc)'
<1>k. /\ TreeServers(sc) \cap Tree(sc)!Nodes = {} /\ TreeCategories(sc) \cap Channels = {}
      /\ Tree(sc)!Nodes = TreeCategories(sc) \cup Channels
  BY KindsApart DEF Tree!Nodes
<1>f. ASSUME NEW n \in Tree(sc)!Nodes, Tree(sc)!Found(n)
      PROVE  Fits(sc, n, node[n])
  BY <1>f, <1>k DEF Tree!Found, Tree!Exists, TreeInv, NodesFit
<1>n. ASSUME NEW n \in Tree(sc)!Nodes, Fits(sc, n, node[n])
      PROVE  Fits(sc, n, [node[n] EXCEPT !.name = @ + 1])
  BY <1>n DEF Fits, Tree!Doc
<1>1. ASSUME NEW c \in TreeCategories(sc), NEW s \in TreeServers(sc),
             Tree(sc)!CreateCategory(r, u, c, s)
      PROVE  TreeInv(sc)'
  <2>1. Fits(sc, c, [in |-> s, name |-> 0])
    BY <1>k DEF Fits, Tree!Doc
  <2> QED
    BY <1>1, <1>k, <2>1, EditBegins DEF Tree!CreateCategory, Fits
<1>2. ASSUME NEW c \in TreeCategories(sc), Tree(sc)!UpdateCategory(r, u, c) PROVE TreeInv(sc)'
  <2>1. Fits(sc, c, [node[c] EXCEPT !.name = @ + 1])
    BY <1>2, <1>f, <1>k, <1>n DEF Tree!UpdateCategory
  <2> DEFINE d == [node[c] EXCEPT !.name = @ + 1]
  <2>2. Tree(sc)!BeginEdit(r, "rename", c, d) /\ Fits(sc, c, d)
    BY <1>2, <2>1 DEF Tree!UpdateCategory
  <2> HIDE DEF d
  <2> QED
    BY <1>k, <2>2, EditBegins DEF Fits
<1>3. ASSUME NEW c \in TreeCategories(sc), Tree(sc)!RemoveCategory(r, u, c) PROVE TreeInv(sc)'
  BY <1>3, <1>k, EditBegins DEF Tree!RemoveCategory, Writes
<1>4. ASSUME NEW c \in TreeCategories(sc), NEW ch \in Channels, Tree(sc)!CreateChannel(r, u, ch, c)
      PROVE  TreeInv(sc)'
  <2>1. Fits(sc, ch, [in |-> c, name |-> 0])
    BY <1>k DEF Fits, Tree!Doc
  <2> QED
    BY <1>4, <1>k, <2>1, EditBegins DEF Tree!CreateChannel, Fits
<1>5. ASSUME NEW c \in TreeCategories(sc), NEW ch \in Channels, Tree(sc)!MoveChannel(r, u, ch, c)
      PROVE  TreeInv(sc)'
  <2>1. Fits(sc, ch, node[ch])
    BY <1>5, <1>f, <1>k DEF Tree!MoveChannel
  <2>2. Fits(sc, ch, [node[ch] EXCEPT !.in = c])
    BY <1>k, <2>1 DEF Fits, Tree!Doc
  <2> DEFINE d == [node[ch] EXCEPT !.in = c]
  <2>3. Tree(sc)!BeginEdit(r, "move", ch, d) /\ Fits(sc, ch, d)
    BY <1>5, <2>2 DEF Tree!MoveChannel
  <2> HIDE DEF d
  <2> QED
    BY <1>k, <2>3, EditBegins DEF Fits
<1>6. ASSUME NEW ch \in Channels, Tree(sc)!UpdateChannel(r, u, ch) PROVE TreeInv(sc)'
  <2>1. Fits(sc, ch, [node[ch] EXCEPT !.name = @ + 1])
    BY <1>6, <1>f, <1>k, <1>n DEF Tree!UpdateChannel
  <2> DEFINE d == [node[ch] EXCEPT !.name = @ + 1]
  <2>2. Tree(sc)!BeginEdit(r, "rename", ch, d) /\ Fits(sc, ch, d)
    BY <1>6, <2>1 DEF Tree!UpdateChannel
  <2> HIDE DEF d
  <2> QED
    BY <1>k, <2>2, EditBegins DEF Fits
<1>7. ASSUME NEW ch \in Channels, Tree(sc)!RemoveChannel(r, u, ch) PROVE TreeInv(sc)'
  BY <1>7, <1>k, EditBegins DEF Tree!RemoveChannel, Writes
<1>8. ASSUME NEW s \in TreeServers(sc), Tree(sc)!RemoveServer(r, u, s) PROVE TreeInv(sc)'
  BY <1>8, EditBegins DEF Tree!RemoveServer, Writes
<1> QED
  BY <1>1, <1>2, <1>3, <1>4, <1>5, <1>6, <1>7, <1>8 DEF Tree!Request

(* What is written: all of it on a create, a field of it on the others.      *)
LEMMA WrittenFits ==
  ASSUME NEW sc \in Trees, TreeInv(sc), NEW r \in Requests, Tree(sc)!EditAt(r, "write"),
         edit[r].op \in Writes, edit[r].op # "create" => node[edit[r].on] # None
  PROVE  /\ Fits(sc, edit[r].on, Tree(sc)!Written(r))
         /\ edit[r].op = "rename" => Tree(sc)!Written(r).in = node[edit[r].on].in
         /\ edit[r].op # "rename" => Tree(sc)!Written(r).in = edit[r].doc.in
<1> DEFINE n == edit[r].on
<1>1. Fits(sc, n, edit[r].doc)
  BY DEF TreeInv, EditsFit, EditFits, Tree!EditAt
<1>2. node[n] # None => Fits(sc, n, node[n])
  BY <1>1 DEF TreeInv, NodesFit, Fits
<1>3. CASE edit[r].op = "create"
  BY <1>1, <1>3 DEF Tree!Written
<1>4. CASE edit[r].op = "rename"
  <2>1. Tree(sc)!Written(r) = [node[n] EXCEPT !.name = edit[r].doc.name]
    BY <1>4 DEF Tree!Written
  <2> QED
    BY <1>1, <1>2, <1>4, <2>1 DEF Fits, Tree!Doc
<1>5. CASE edit[r].op = "move"
  <2>1. Tree(sc)!Written(r) = [node[n] EXCEPT !.in = edit[r].doc.in]
    BY <1>5 DEF Tree!Written
  <2> QED
    BY <1>1, <1>2, <1>5, <2>1 DEF Fits, Tree!Doc
<1> QED
  BY <1>3, <1>4, <1>5 DEF Writes

LEMMA UntoldAreIds ==
  ASSUME NEW sc \in Trees, NEW ns PROVE Tree(sc)!Untold(ns) \subseteq ns
BY DEF Tree!Untold

LEMMA HeldByRemovals ==
  ASSUME NEW sc \in Trees, NEW r \in Requests, Tree(sc)!EditAt(r, "commit"),
         NEW x \in edit[r].victims
  PROVE  x \in Tree(sc)!Held
BY DEF Tree!Held

(* A document written into what is not going has its parent, and is in no    *)
(* removal's way.                                                            *)
LEMMA EditWritten ==
  ASSUME NEW sc \in Trees, TreeInv(sc), NEW r \in Requests, Tree(sc)!WriteEdit(r)
  PROVE  TreeInv(sc)'
<1> DEFINE n == edit[r].on
           w == Tree(sc)!Written(r)
           e == [edit[r] EXCEPT !.step = "tell", !.doc = w]
<1>1. /\ Tree(sc)!EditAt(r, "write") /\ edit[r].op \in Writes
      /\ edit[r].op # "create" => node[n] # None /\ n \notin Tree(sc)!Held
  BY DEF Tree!WriteEdit, Writes
<1>2. /\ Fits(sc, n, w) /\ n \in Tree(sc)!Nodes /\ w \in Tree(sc)!Doc
      /\ edit[r].op = "rename" => w.in = node[n].in
      /\ edit[r].op # "rename" => w.in = edit[r].doc.in
  BY <1>1, WrittenFits DEF Fits
<1>3. edit[r] \in Tree(sc)!Edit /\ edit[r] # None
  BY <1>1 DEF Tree!EditAt, TreeInv, Tree!StructureTypeOK
<1>4. /\ node' = [node EXCEPT ![n] = w] /\ UNCHANGED <<servers, told, ended, born, stops>>
      /\ crossed' = crossed \cup Tree(sc)!Untold({n})
      /\ stray' = IF edit[r].op # "rename" /\ Tree(sc)!IsGoing(edit[r].doc.in)
                  THEN stray \cup {n} ELSE stray
      /\ edit' = [edit EXCEPT ![r] = e]
  BY DEF Tree!WriteEdit
<1> HIDE DEF w
<1>5. e \in Tree(sc)!Edit /\ e.step = "tell" /\ e.op = edit[r].op /\ e.on = n /\ e.doc = w
  BY <1>2, <1>3 DEF Tree!Edit
<1> HIDE DEF e, n
<1>6. /\ servers \subseteq TreeServers(sc)
      /\ node \in [Tree(sc)!Nodes -> Tree(sc)!Doc \cup {None}]
      /\ edit \in [Requests -> Tree(sc)!Edit \cup {None}]
      /\ stray \subseteq Tree(sc)!Nodes /\ crossed \subseteq Tree(sc)!Nodes \cup TreeServers(sc)
  BY DEF TreeInv, Tree!StructureTypeOK
<1>7. /\ node'[n] = w /\ \A m \in Tree(sc)!Nodes : m # n => node'[m] = node[m]
      /\ edit'[r] = e /\ \A s \in Requests : s # r => edit'[s] = edit[s]
      /\ stray \subseteq stray' /\ stray' \subseteq Tree(sc)!Nodes
  BY <1>2, <1>4, <1>6
<1>8. Tree(sc)!StructureTypeOK'
  <2>1. crossed' \subseteq Tree(sc)!Nodes \cup TreeServers(sc)
    BY <1>2, <1>4, <1>6, UntoldAreIds
  <2>2. node' \in [Tree(sc)!Nodes -> Tree(sc)!Doc \cup {None}]
    BY <1>2, <1>4, <1>6
  <2>3. edit' \in [Requests -> Tree(sc)!Edit \cup {None}]
    BY <1>4, <1>5, <1>6
  <2> QED
    BY <1>4, <1>7, <2>1, <2>2, <2>3 DEF TreeInv, Tree!StructureTypeOK
<1>9. NodesFit(sc)'
  BY <1>2, <1>7 DEF TreeInv, NodesFit, Fits
<1>10. EditsFit(sc)'
  BY <1>1, <1>2, <1>5, <1>7 DEF TreeInv, EditsFit, EditFits, Fits, Writes
<1>11. n \notin stray' =>
         Tree(sc)!Exists(w.in) /\ \A s \in Requests : Tree(sc)!EditAt(s, "commit")
                                    /\ w.in \in edit[s].victims => n \in edit[s].victims
  <2> SUFFICES ASSUME n \notin stray' PROVE Tree(sc)!Exists(w.in) /\
        \A s \in Requests : Tree(sc)!EditAt(s, "commit") /\ w.in \in edit[s].victims
                              => n \in edit[s].victims
    OBVIOUS
  <2>1. CASE edit[r].op = "rename"
    <3>1. node[n] # None /\ n \in Tree(sc)!Nodes \ stray /\ w.in = node[n].in
      BY <1>1, <1>2, <1>7, <2>1 DEF n
    <3> QED
      BY <3>1 DEF TreeInv, Tree!NothingAstray, RemovalsWhole, Whole
  <2>2. CASE edit[r].op # "rename"
    <3>1. ~Tree(sc)!IsGoing(w.in)
      BY <1>2, <1>4, <2>2
    <3> QED
      BY <3>1, HeldByRemovals DEF Tree!IsGoing
  <2> QED
    BY <2>1, <2>2
<1>12. ASSUME NEW x \in Tree(sc)!Nodes \cup TreeServers(sc), Tree(sc)!Exists(x)
       PROVE  Standing(sc, x, servers', node')
  <2>1. CASE x \in TreeServers(sc)
    BY <1>4, <1>12, <2>1 DEF Tree!Exists, Standing
  <2>2. CASE x \notin TreeServers(sc)
    <3>1. node[x] # None /\ x \in Tree(sc)!Nodes
      BY <1>12, <2>2 DEF Tree!Exists
    <3>2. node'[x] # None
      BY <1>2, <1>7, <3>1, NoneAssumption
    <3> QED
      BY <2>2, <3>2 DEF Standing
  <2> QED
    BY <2>1, <2>2
<1>13. ASSUME NEW m \in Tree(sc)!Nodes, Fits(sc, m, node[m])
       PROVE  node[m].in \in Tree(sc)!Nodes \cup TreeServers(sc)
  BY <1>13 DEF Fits, Tree!Doc, Tree!Nodes
<1>14. w.in \in Tree(sc)!Nodes \cup TreeServers(sc)
  BY <1>2 DEF Tree!Doc, Tree!Nodes
<1>15. Tree(sc)!NothingAstray'
  <2> SUFFICES ASSUME NEW m \in Tree(sc)!Nodes, m \notin stray', node'[m] # None
               PROVE  Standing(sc, node'[m].in, servers', node')
    BY DEF Tree!NothingAstray, Tree!Exists, Standing
  <2>1. CASE m = n
    BY <1>7, <1>11, <1>12, <1>14, <2>1
  <2>2. CASE m # n
    <3>1. node'[m] = node[m] /\ m \notin stray
      BY <1>7, <2>2
    <3>2. Tree(sc)!Exists(node[m].in) /\ Fits(sc, m, node[m])
      BY <3>1 DEF TreeInv, Tree!NothingAstray, NodesFit
    <3> QED
      BY <1>12, <1>13, <3>1, <3>2
  <2> QED
    BY <2>1, <2>2
<1>16. RemovalsWhole(sc)'
  <2> SUFFICES ASSUME NEW s \in Requests, Tree(sc)!EditAt(s, "commit")',
                      NEW m \in Tree(sc)!Nodes, m \notin stray', node'[m] # None,
                      node'[m].in \in edit'[s].victims
               PROVE  m \in edit'[s].victims
    BY DEF RemovalsWhole, Whole
  <2>1. s # r /\ edit'[s] = edit[s] /\ Tree(sc)!EditAt(s, "commit")
    BY <1>5, <1>7 DEF Tree!EditAt
  <2>2. CASE m = n
    BY <1>7, <1>11, <2>1, <2>2
  <2>3. CASE m # n
    BY <1>7, <2>1, <2>3 DEF TreeInv, RemovalsWhole, Whole
  <2> QED
    BY <2>2, <2>3
<1> QED
  BY <1>8, <1>9, <1>10, <1>15, <1>16 DEF TreeInv

(* Nothing is created inside what a removal took while it is the one that    *)
(* takes it: below what it removes are two levels at most.                   *)
LEMMA RemovalIsWhole ==
  ASSUME NEW sc \in Trees, TreeInv(sc), NEW n
  PROVE  Whole(sc, Tree(sc)!Removed(n))
<1> SUFFICES ASSUME NEW m \in Tree(sc)!Nodes, node[m] # None,
                    node[m].in \in Tree(sc)!Removed(n)
             PROVE  m \in Tree(sc)!Removed(n)
  BY DEF Whole
<1>1. CASE node[m].in = n
  BY <1>1 DEF Tree!Removed, Tree!Inside, Tree!Under
<1>2. CASE node[m].in \in Tree(sc)!Under(n)
  BY <1>2 DEF Tree!Removed, Tree!Inside, Tree!Under
<1>3. ASSUME NEW y \in Tree(sc)!Under(n), node[m].in \in Tree(sc)!Under(y) PROVE FALSE
  <2> DEFINE x == node[m].in
  <2>1. /\ x \in Tree(sc)!Nodes /\ Fits(sc, x, node[x]) /\ node[x].in = y
        /\ y \in Tree(sc)!Nodes /\ Fits(sc, m, node[m])
    BY <1>3 DEF Tree!Under, TreeInv, NodesFit
  <2> HIDE DEF x
  <2>2. y \notin TreeServers(sc)
    BY <2>1, KindsApart
  <2>3. x \in Channels
    BY <2>1, <2>2 DEF Fits, Tree!Nodes
  <2>4. x \notin TreeServers(sc) /\ x \notin TreeCategories(sc)
    BY <2>1, <2>3, KindsApart
  <2> QED
    BY <2>1, <2>4 DEF Fits, Tree!Nodes, x
<1> QED
  BY <1>1, <1>2, <1>3 DEF Tree!Removed, Tree!Inside

LEMMA RemovalBegins ==
  ASSUME NEW sc \in Trees, TreeInv(sc), NEW r \in Requests, Tree(sc)!BeginRemoval(r)
  PROVE  TreeInv(sc)'
<1> DEFINE gone == Tree(sc)!Removed(edit[r].on)
           e == [edit[r] EXCEPT !.step = "commit", !.victims = gone]
<1>1. edit[r] \in Tree(sc)!Edit /\ edit[r].op \notin Writes /\ EditFits(sc, edit[r])
  BY DEF Tree!BeginRemoval, Tree!EditAt, TreeInv, Tree!StructureTypeOK, EditsFit, Writes
<1>2. edit[r].on \in Tree(sc)!Nodes \cup TreeServers(sc)
  BY <1>1 DEF Tree!Edit
<1>3. gone \subseteq Tree(sc)!Nodes \cup TreeServers(sc)
  BY <1>2 DEF Tree!Removed, Tree!Inside, Tree!Under
<1>4. Whole(sc, gone)
  BY RemovalIsWhole
<1>5. /\ edit' = [edit EXCEPT ![r] = e]
      /\ UNCHANGED <<servers, node, told, ended, stray, born, crossed, stops>>
  BY DEF Tree!BeginRemoval
<1> HIDE DEF gone
<1>6. e \in Tree(sc)!Edit /\ e.op = edit[r].op /\ e.on = edit[r].on /\ e.victims = gone
  BY <1>1, <1>3 DEF Tree!Edit
<1> HIDE DEF e
<1> QED
  BY <1>1, <1>4, <1>5, <1>6, EditReplaced DEF TreeInv, Tree!StructureTypeOK, EditFits

(* What is left of the tree after a removal is in nothing that is gone.      *)
LEMMA RemovalCommits ==
  ASSUME NEW sc \in Trees, TreeInv(sc), NEW r \in Requests, Tree(sc)!CommitRemoval(r)
  PROVE  TreeInv(sc)'
<1> DEFINE gone == edit[r].victims
           e == [edit[r] EXCEPT !.step = "tell", !.victims = {}]
<1>1. edit[r] \in Tree(sc)!Edit /\ edit[r] # None /\ Tree(sc)!EditAt(r, "commit")
  BY DEF Tree!CommitRemoval, Tree!EditAt, TreeInv, Tree!StructureTypeOK
<1>2. Whole(sc, gone) /\ gone \subseteq Tree(sc)!Nodes \cup TreeServers(sc)
  BY <1>1 DEF TreeInv, RemovalsWhole, Tree!Edit
<1>3. /\ servers' = servers \ gone /\ edit' = [edit EXCEPT ![r] = e]
      /\ node' = [n \in Tree(sc)!Nodes |-> IF n \in gone THEN None ELSE node[n]]
      /\ crossed' = crossed \cup Tree(sc)!Untold(gone)
      /\ UNCHANGED <<told, ended, stray, born, stops>>
  BY DEF Tree!CommitRemoval
<1> HIDE DEF gone
<1>4. e \in Tree(sc)!Edit /\ e.step = "tell" /\ e.op = edit[r].op /\ e.on = edit[r].on
      /\ e.doc = edit[r].doc
  BY <1>1 DEF Tree!Edit
<1> HIDE DEF e
<1>5. /\ node \in [Tree(sc)!Nodes -> Tree(sc)!Doc \cup {None}]
      /\ edit \in [Requests -> Tree(sc)!Edit \cup {None}]
  BY DEF TreeInv, Tree!StructureTypeOK
<1>6. /\ \A m \in Tree(sc)!Nodes : node'[m] # None => node'[m] = node[m] /\ m \notin gone
      /\ \A m \in Tree(sc)!Nodes : m \notin gone => node'[m] = node[m]
      /\ edit'[r] = e /\ \A s \in Requests : s # r => edit'[s] = edit[s]
  BY <1>3, <1>5
<1>7. Tree(sc)!StructureTypeOK'
  <2>1. crossed' \subseteq Tree(sc)!Nodes \cup TreeServers(sc)
    BY <1>2, <1>3, UntoldAreIds DEF TreeInv, Tree!StructureTypeOK
  <2>2. node' \in [Tree(sc)!Nodes -> Tree(sc)!Doc \cup {None}]
    BY <1>3, <1>5
  <2>3. edit' \in [Requests -> Tree(sc)!Edit \cup {None}]
    BY <1>3, <1>4, <1>5
  <2> QED
    BY <1>3, <2>1, <2>2, <2>3 DEF TreeInv, Tree!StructureTypeOK
<1>8. NodesFit(sc)'
  BY <1>6 DEF TreeInv, NodesFit, Fits
<1>9. EditsFit(sc)'
  BY <1>1, <1>4, <1>6 DEF TreeInv, EditsFit, EditFits, Fits
<1>10. RemovalsWhole(sc)'
  <2> SUFFICES ASSUME NEW s \in Requests, Tree(sc)!EditAt(s, "commit")',
                      NEW m \in Tree(sc)!Nodes, m \notin stray', node'[m] # None,
                      node'[m].in \in edit'[s].victims
               PROVE  m \in edit'[s].victims
    BY DEF RemovalsWhole, Whole
  <2>1. edit'[s] = edit[s] /\ Tree(sc)!EditAt(s, "commit")
    BY <1>4, <1>6 DEF Tree!EditAt
  <2> QED
    BY <1>3, <1>6, <2>1 DEF TreeInv, RemovalsWhole, Whole
<1>11. Tree(sc)!NothingAstray'
  <2> SUFFICES ASSUME NEW m \in Tree(sc)!Nodes, m \notin stray', node'[m] # None
               PROVE  Standing(sc, node'[m].in, servers', node')
    BY DEF Tree!NothingAstray, Tree!Exists, Standing
  <2>1. node'[m] = node[m] /\ m \notin gone /\ m \notin stray
    BY <1>3, <1>6
  <2>2. Tree(sc)!Exists(node[m].in) /\ Fits(sc, m, node[m])
    BY <2>1 DEF TreeInv, Tree!NothingAstray, NodesFit
  <2>3. node[m].in \notin gone
    BY <1>2, <2>1 DEF Whole
  <2>4. CASE node[m].in \in TreeServers(sc)
    BY <1>3, <2>1, <2>2, <2>3, <2>4 DEF Tree!Exists, Standing
  <2>5. CASE node[m].in \notin TreeServers(sc)
    <3>1. node[m].in \in Tree(sc)!Nodes
      BY <2>2, <2>5 DEF Fits, Tree!Doc, Tree!Nodes
    <3>2. node'[node[m].in] # None
      BY <1>6, <2>2, <2>3, <2>5, <3>1 DEF Tree!Exists
    <3> QED
      BY <2>1, <2>5, <3>2 DEF Standing
  <2> QED
    BY <2>4, <2>5
<1> QED
  BY <1>7, <1>8, <1>9, <1>10, <1>11 DEF TreeInv

LEMMA EditEnds ==
  ASSUME NEW sc \in Trees, TreeInv(sc), NEW r \in Requests, edit' = [edit EXCEPT ![r] = None],
         UNCHANGED <<servers, node, stray, born, crossed, stops>>,
         told' \in [Tree(sc)!Nodes -> Tree(sc)!Doc \cup {None}],
         ended' \subseteq TreeServers(sc)
  PROVE  TreeInv(sc)'
BY EditReplaced DEF TreeInv, Tree!StructureTypeOK

LEMMA EditTold ==
  ASSUME NEW sc \in Trees, TreeInv(sc), NEW r \in Requests, Tree(sc)!Broadcast(r)
  PROVE  TreeInv(sc)'
<1> DEFINE n == edit[r].on
           doc == edit[r].doc
<1>1. edit[r] \in Tree(sc)!Edit /\ edit[r] # None
  BY DEF Tree!Broadcast, Tree!EditAt, TreeInv, Tree!StructureTypeOK
<1>2. told \in [Tree(sc)!Nodes -> Tree(sc)!Doc \cup {None}] /\ ended \subseteq TreeServers(sc)
  BY DEF TreeInv, Tree!StructureTypeOK
<1>3. CASE edit[r].op = "removeServer"
  <2>1. ended' = ended \cup {n} /\ told' = told
    BY <1>3 DEF Tree!Broadcast
  <2>2. n \in TreeServers(sc)
    BY <1>1, <1>3 DEF TreeInv, EditsFit, EditFits
  <2> QED
    BY <1>2, <2>1, <2>2, EditEnds DEF Tree!Broadcast
<1>4. CASE edit[r].op # "removeServer"
  <2> DEFINE t == IF edit[r].op \in {"create", "move", "remove"} THEN doc
                  ELSE IF told[n] = None THEN None ELSE [told[n] EXCEPT !.name = doc.name]
  <2>1. ended' = ended /\ told' = [told EXCEPT ![n] = t]
    BY <1>4 DEF Tree!Broadcast
  <2>2. doc \in Tree(sc)!Doc \cup {None} /\ (edit[r].op = "rename" => doc \in Tree(sc)!Doc)
    BY <1>1 DEF Tree!Edit, TreeInv, EditsFit, EditFits, Writes, Fits
  <2>3. n \in Tree(sc)!Nodes => t \in Tree(sc)!Doc \cup {None}
    <3>1. CASE edit[r].op = "rename" /\ told[n] # None /\ n \in Tree(sc)!Nodes
      BY <1>2, <2>2, <3>1 DEF Tree!Doc
    <3> QED
      BY <1>1, <1>4, <2>2, <3>1 DEF Tree!Edit
  <2> HIDE DEF t, n
  <2>4. told' \in [Tree(sc)!Nodes -> Tree(sc)!Doc \cup {None}]
    BY <1>2, <2>1, <2>3
  <2> QED
    BY <1>2, <2>1, <2>4, EditEnds DEF Tree!Broadcast
<1> QED
  BY <1>3, <1>4

LEMMA ProcessStops ==
  ASSUME NEW sc \in Trees, TreeInv(sc), Tree(sc)!Stop
  PROVE  TreeInv(sc)'
<1>1. /\ edit' = [r \in Requests |-> None] /\ UNCHANGED <<servers, node, told, ended, stray, born>>
      /\ stops < TreeStops(sc) /\ stops' = stops + 1
      /\ crossed' = crossed \cup Tree(sc)!Untold(Tree(sc)!Nodes \cup TreeServers(sc))
  BY DEF Tree!Stop
<1>2. TreeStops(sc) \in Nat
  BY BoundsAssumption DEF TreeStops
<1>3. stops' \in 0 .. TreeStops(sc)
  BY <1>1, <1>2 DEF TreeInv, Tree!StructureTypeOK
<1>4. Tree(sc)!StructureTypeOK'
  BY <1>1, <1>3, UntoldAreIds DEF TreeInv, Tree!StructureTypeOK
<1>5. EditsFit(sc)' /\ RemovalsWhole(sc)'
  BY <1>1 DEF EditsFit, RemovalsWhole, Tree!EditAt
<1> QED
  BY <1>1, <1>4, <1>5 DEF TreeInv, NodesFit, Fits, Tree!NothingAstray, Tree!Exists

LEMMA TreeStep ==
  ASSUME NEW sc \in Trees, scene = sc, TreeInv(sc), [Next]_vars
  PROVE  TreeInv(sc)'
<1>1. Tree(sc)!StructureNext \/ UNCHANGED treeVars
  BY DEF Next, vars
<1>2. CASE UNCHANGED treeVars
  BY <1>2 DEF treeVars, TreeInv, Tree!StructureTypeOK, NodesFit, EditsFit, EditFits, Fits,
     RemovalsWhole, Whole, Tree!EditAt, Tree!NothingAstray, Tree!Exists
<1>3. ASSUME NEW r \in Requests, Tree(sc)!EditFails(r) \/ Tree(sc)!AbortRemoval(r)
      PROVE  TreeInv(sc)'
  BY <1>3, EditEnds DEF Tree!EditFails, Tree!AbortRemoval, TreeInv, Tree!StructureTypeOK
<1>4. CASE Tree(sc)!StructureNext
  BY <1>3, <1>4, RequestMade, EditWritten, RemovalBegins, RemovalCommits, EditTold, ProcessStops
  DEF Tree!StructureNext
<1> QED
  BY <1>1, <1>2, <1>4

LEMMA TreesAlways == Spec => [](\A sc \in Trees : scene = sc => TreeInv(sc))
<1> DEFINE I == \A sc \in Trees : scene = sc => TreeInv(sc)
<1>1. Init => I
  BY TreeBegins DEF Init
<1>2. I /\ [Next]_vars => I'
  BY SceneStays, TreeStep
<1> QED
  BY <1>1, <1>2, PTL DEF Spec

(* removeCategory and removeServer against everything that creates, renames, *)
(* moves and removes beside them, for any number of servers, categories,     *)
(* channels and requests in flight, and of stops: a document is left without *)
(* its parent only if it was written into one that was being removed.        *)
THEOREM NothingLeftAstray == Spec => []NothingAstray
<1>1. (\A sc \in Trees : scene = sc => TreeInv(sc)) => NothingAstray
  BY DEF TreeInv, NothingAstray
<1> QED
  BY <1>1, TreesAlways, PTL

-----------------------------------------------------------------------------
(* Requests at work on x: to create it, or to tell of it.                    *)
Creating(x) ==
  \E r \in Requests : edit[r] # None /\ edit[r].op = "create" /\ edit[r].step = "write"
                      /\ edit[r].on = x
Telling(x) == \E r \in Requests : edit[r] # None /\ edit[r].step = "tell" /\ edit[r].on = x

(* x was there and is gone for good.                                         *)
Gone(sc, x) ==
  IF x \in TreeServers(sc) THEN x \notin servers ELSE node[x] = None /\ x \in born /\ ~Creating(x)

(* An id is unknown before its document is created, and who creates it is    *)
(* alone with it until it has written.                                       *)
Unborn(sc) == \A n \in Tree(sc)!Nodes : n \notin born => node[n] = None /\ told[n] = None
EditsOfBorn(sc) ==
  \A r \in Requests : edit[r] # None /\ edit[r].on \in Tree(sc)!Nodes => edit[r].on \in born
CreatorsAlone ==
  \A r \in Requests : edit[r] # None /\ edit[r].op = "create" /\ edit[r].step = "write" =>
    /\ node[edit[r].on] = None /\ told[edit[r].on] = None
    /\ \A q \in Requests : q # r /\ edit[q] # None => edit[q].on # edit[r].on

(* What a removal holds is there, is of it, and is held by no other.         *)
RemovalsMarked(sc) ==
  \A r \in Requests : edit[r] # None =>
    /\ edit[r].op \notin Writes => edit[r].doc = None
    /\ edit[r].op = "remove" => edit[r].on \in Tree(sc)!Nodes
    /\ edit[r].step = "commit" => edit[r].op \notin Writes
VictimsHeld(sc) ==
  \A r \in Requests : edit[r] # None /\ edit[r].step = "commit" =>
    /\ edit[r].on \in edit[r].victims
    /\ \A m \in edit[r].victims :
         /\ Tree(sc)!Exists(m)
         /\ m # edit[r].on => m \in Tree(sc)!Nodes /\ node[m].in \in edit[r].victims
VictimsApart ==
  \A r, q \in Requests :
    r # q /\ edit[r] # None /\ edit[r].step = "commit" /\ edit[q] # None /\ edit[q].step = "commit"
      => edit[r].victims \cap edit[q].victims = {}

(* What is to be told is what is stored, unless it was crossed.              *)
TellsSound ==
  \A r \in Requests : edit[r] # None /\ edit[r].step = "tell" =>
    /\ edit[r].op = "removeServer" => edit[r].on \notin servers
    /\ edit[r].on \notin crossed =>
         /\ \A q \in Requests :
              q # r /\ edit[q] # None /\ edit[q].step = "tell" => edit[q].on # edit[r].on
         /\ edit[r].op # "removeServer" => edit[r].doc = node[edit[r].on]
         /\ edit[r].op = "rename" => /\ told[edit[r].on] # None
                                     /\ told[edit[r].on].in = node[edit[r].on].in
ToldFits(sc) == \A n \in Tree(sc)!Nodes : told[n] # None => Fits(sc, n, told[n])

(* What was told is what is stored, or was in what is gone.                  *)
NodeTold(sc, n) ==
  n \notin crossed /\ ~Telling(n) =>
    \/ told[n] = node[n]
    \/ node[n] = None /\ told[n] # None /\ Gone(sc, told[n].in)
ServerTold(s) ==
  /\ s \in ended => s \notin servers
  /\ s \notin crossed /\ ~Telling(s) /\ s \notin servers => s \in ended

TellInv(sc) ==
  /\ Unborn(sc) /\ EditsOfBorn(sc) /\ CreatorsAlone
  /\ RemovalsMarked(sc) /\ VictimsHeld(sc) /\ VictimsApart
  /\ TellsSound /\ ToldFits(sc)
  /\ \A n \in Tree(sc)!Nodes : NodeTold(sc, n)
  /\ \A s \in TreeServers(sc) : ServerTold(s)

LEMMA TellBegins ==
  ASSUME NEW sc \in Trees, Tree(sc)!StructureInit PROVE TellInv(sc)
BY DEF Tree!StructureInit, TellInv, Unborn, EditsOfBorn, CreatorsAlone, RemovalsMarked, VictimsHeld,
   VictimsApart, TellsSound, ToldFits, NodeTold, ServerTold, Telling

LEMMA NodesNotServers ==
  ASSUME NEW sc \in Trees
  PROVE  /\ TreeServers(sc) \cap Tree(sc)!Nodes = {} /\ TreeCategories(sc) \cap Channels = {}
         /\ Tree(sc)!Nodes = TreeCategories(sc) \cup Channels
BY KindsApart DEF Tree!Nodes

(* A request that is yet to write, or that gives up, tells nothing.          *)
LEMMA NothingTold ==
  ASSUME NEW sc \in Trees, TreeInv(sc), TellInv(sc), NEW r \in Requests,
         NEW e \in Tree(sc)!Edit \cup {None}, edit' = [edit EXCEPT ![r] = e],
         edit[r] # None => edit[r].step # "tell", e # None => e.step # "tell",
         UNCHANGED <<servers, node, told, ended, stray, crossed>>, born \subseteq born',
         e # None =>
           /\ e.on \in Tree(sc)!Nodes => e.on \in born'
           /\ e.op = "create" /\ e.step = "write" =>
                /\ e.on \notin born /\ node[e.on] = None /\ told[e.on] = None
                /\ \A q \in Requests : q # r /\ edit[q] # None => edit[q].on # e.on
           /\ \A q \in Requests : q # r /\ edit[q] # None /\ edit[q].op = "create"
                                    /\ edit[q].step = "write" => e.on # edit[q].on
           /\ e.op \notin Writes => e.doc = None
           /\ e.op = "remove" => e.on \in Tree(sc)!Nodes
           /\ e.step = "commit" =>
                /\ e.op \notin Writes /\ e.on \in e.victims
                /\ \A m \in e.victims :
                     /\ Tree(sc)!Exists(m)
                     /\ m # e.on => m \in Tree(sc)!Nodes /\ node[m].in \in e.victims
                /\ \A q \in Requests : q # r /\ edit[q] # None /\ edit[q].step = "commit"
                                         => e.victims \cap edit[q].victims = {}
  PROVE  TellInv(sc)'
<1>1. edit'[r] = e /\ \A q \in Requests : q # r => edit'[q] = edit[q]
  BY DEF TreeInv, Tree!StructureTypeOK
<1>2. Unborn(sc)' /\ ToldFits(sc)'
  BY DEF TellInv, Unborn, ToldFits, Fits
<1>3. EditsOfBorn(sc)'
  BY <1>1 DEF TellInv, EditsOfBorn
<1>4. CreatorsAlone'
  BY <1>1 DEF TellInv, CreatorsAlone
<1>5. RemovalsMarked(sc)'
  BY <1>1 DEF TellInv, RemovalsMarked
<1>6. VictimsHeld(sc)'
  BY <1>1 DEF TellInv, VictimsHeld, Tree!Exists
<1>7. VictimsApart'
  BY <1>1 DEF TellInv, VictimsApart
<1>8. TellsSound'
  BY <1>1 DEF TellInv, TellsSound
<1>9. \A x : Telling(x)' <=> Telling(x)
  BY <1>1 DEF Telling
<1>10. \A x : Gone(sc, x) => Gone(sc, x)'
  <2>1. \A x : x \in born /\ Creating(x)' => Creating(x)
    BY <1>1 DEF Creating
  <2> QED
    BY <2>1 DEF Gone
<1>11. ASSUME NEW n \in Tree(sc)!Nodes PROVE NodeTold(sc, n)'
  BY <1>9, <1>10 DEF TellInv, NodeTold
<1>12. ASSUME NEW s \in TreeServers(sc) PROVE ServerTold(s)'
  BY <1>9 DEF TellInv, ServerTold
<1> QED
  BY <1>2, <1>3, <1>4, <1>5, <1>6, <1>7, <1>8, <1>11, <1>12 DEF TellInv

LEMMA RequestTold ==
  ASSUME NEW sc \in Trees, TreeInv(sc), TellInv(sc), NEW r \in Requests, NEW op, NEW n, NEW doc,
         op \in {"create", "rename", "move", "remove", "removeServer"},
         doc \in Tree(sc)!Doc \cup {None}, op \notin Writes => doc = None,
         op = "removeServer" => n \in TreeServers(sc),
         op # "removeServer" => n \in Tree(sc)!Nodes /\ (op # "create" => node[n] # None),
         Tree(sc)!BeginEdit(r, op, n, doc)
  PROVE  TellInv(sc)'
<1> DEFINE e == [op |-> op, step |-> "write", on |-> n, doc |-> doc, victims |-> {}]
<1>1. /\ e \in Tree(sc)!Edit /\ e.step = "write" /\ e.op = op /\ e.on = n /\ e.doc = doc
  BY DEF Tree!Edit
<1>2. /\ edit[r] = None /\ edit' = [edit EXCEPT ![r] = e] /\ (op = "create" => n \notin born)
      /\ UNCHANGED <<servers, node, told, ended, stray, crossed>>
      /\ born' = IF op = "create" THEN born \cup {n} ELSE born
  BY DEF Tree!BeginEdit
<1> HIDE DEF e
<1>3. n \in Tree(sc)!Nodes => n \in born'
  <2>1. op = "removeServer" => n \notin Tree(sc)!Nodes
    BY NodesNotServers
  <2> QED
    BY <1>2, <2>1 DEF TellInv, Unborn
<1>4. op = "create" =>
        /\ n \notin born /\ node[n] = None /\ told[n] = None
        /\ \A q \in Requests : q # r /\ edit[q] # None => edit[q].on # n
  BY <1>2 DEF TellInv, Unborn, EditsOfBorn
<1>5. ASSUME NEW q \in Requests, q # r, edit[q] # None, edit[q].op = "create", edit[q].step = "write"
      PROVE  n # edit[q].on
  <2>1. edit[q].on \in Tree(sc)!Nodes /\ edit[q].on \in born /\ node[edit[q].on] = None
    BY <1>5 DEF TreeInv, EditsFit, EditFits, Fits, Writes, TellInv, EditsOfBorn, CreatorsAlone
  <2> QED
    BY <1>4, <2>1, NodesNotServers
<1> QED
  BY <1>1, <1>2, <1>3, <1>4, <1>5, NothingTold DEF Writes

LEMMA RequestMadeTold ==
  ASSUME NEW sc \in Trees, TreeInv(sc), TellInv(sc), NEW r \in Requests, NEW u \in Users,
         Tree(sc)!Request(r, u)
  PROVE  TellInv(sc)'
<1>f. ASSUME NEW n \in Tree(sc)!Nodes, Tree(sc)!Found(n)
      PROVE  node[n] # None /\ node[n] \in Tree(sc)!Doc
  BY <1>f, NodesNotServers DEF Tree!Found, Tree!Exists, TreeInv, NodesFit, Fits
<1>1. ASSUME NEW c \in TreeCategories(sc), NEW s \in TreeServers(sc),
             Tree(sc)!CreateCategory(r, u, c, s)
      PROVE  TellInv(sc)'
  <2>1. [in |-> s, name |-> 0] \in Tree(sc)!Doc
    BY DEF Tree!Doc
  <2> QED
    BY <1>1, <2>1, NodesNotServers, RequestTold DEF Tree!CreateCategory, Writes
<1>2. ASSUME NEW c \in TreeCategories(sc), Tree(sc)!UpdateCategory(r, u, c) PROVE TellInv(sc)'
  <2> DEFINE d == [node[c] EXCEPT !.name = @ + 1]
  <2>1. Tree(sc)!BeginEdit(r, "rename", c, d) /\ node[c] # None /\ c \in Tree(sc)!Nodes
    BY <1>2, <1>f, NodesNotServers DEF Tree!UpdateCategory
  <2>2. d \in Tree(sc)!Doc
    BY <1>2, <1>f, NodesNotServers DEF Tree!UpdateCategory, Tree!Doc
  <2> HIDE DEF d
  <2> QED
    BY <2>1, <2>2, RequestTold DEF Writes
<1>3. ASSUME NEW c \in TreeCategories(sc), Tree(sc)!RemoveCategory(r, u, c) PROVE TellInv(sc)'
  BY <1>3, <1>f, NodesNotServers, RequestTold DEF Tree!RemoveCategory, Writes
<1>4. ASSUME NEW c \in TreeCategories(sc), NEW ch \in Channels, Tree(sc)!CreateChannel(r, u, ch, c)
      PROVE  TellInv(sc)'
  <2>1. [in |-> c, name |-> 0] \in Tree(sc)!Doc
    BY DEF Tree!Doc
  <2> QED
    BY <1>4, <2>1, NodesNotServers, RequestTold DEF Tree!CreateChannel, Writes
<1>5. ASSUME NEW c \in TreeCategories(sc), NEW ch \in Channels, Tree(sc)!MoveChannel(r, u, ch, c)
      PROVE  TellInv(sc)'
  <2> DEFINE d == [node[ch] EXCEPT !.in = c]
  <2>1. Tree(sc)!BeginEdit(r, "move", ch, d) /\ node[ch] # None /\ ch \in Tree(sc)!Nodes
    BY <1>5, <1>f, NodesNotServers DEF Tree!MoveChannel
  <2>2. d \in Tree(sc)!Doc
    BY <1>5, <1>f, NodesNotServers DEF Tree!MoveChannel, Tree!Doc
  <2> HIDE DEF d
  <2> QED
    BY <2>1, <2>2, RequestTold DEF Writes
<1>6. ASSUME NEW ch \in Channels, Tree(sc)!UpdateChannel(r, u, ch) PROVE TellInv(sc)'
  <2> DEFINE d == [node[ch] EXCEPT !.name = @ + 1]
  <2>1. Tree(sc)!BeginEdit(r, "rename", ch, d) /\ node[ch] # None /\ ch \in Tree(sc)!Nodes
    BY <1>6, <1>f, NodesNotServers DEF Tree!UpdateChannel
  <2>2. d \in Tree(sc)!Doc
    BY <1>6, <1>f, NodesNotServers DEF Tree!UpdateChannel, Tree!Doc
  <2> HIDE DEF d
  <2> QED
    BY <2>1, <2>2, RequestTold DEF Writes
<1>7. ASSUME NEW ch \in Channels, Tree(sc)!RemoveChannel(r, u, ch) PROVE TellInv(sc)'
  BY <1>7, <1>f, NodesNotServers, RequestTold DEF Tree!RemoveChannel, Writes
<1>8. ASSUME NEW s \in TreeServers(sc), Tree(sc)!RemoveServer(r, u, s) PROVE TellInv(sc)'
  BY <1>8, RequestTold DEF Tree!RemoveServer, Writes
<1> QED
  BY <1>1, <1>2, <1>3, <1>4, <1>5, <1>6, <1>7, <1>8 DEF Tree!Request

LEMMA EditDropped ==
  ASSUME NEW sc \in Trees, TreeInv(sc), TellInv(sc), NEW r \in Requests,
         Tree(sc)!EditFails(r) \/ Tree(sc)!AbortRemoval(r)
  PROVE  TellInv(sc)'
<1>1. /\ edit[r] # None => edit[r].step # "tell"
      /\ edit' = [edit EXCEPT ![r] = None]
      /\ UNCHANGED <<servers, node, told, ended, stray, born, crossed>>
  BY DEF Tree!EditFails, Tree!AbortRemoval, Tree!EditAt
<1> QED
  BY <1>1, NothingTold

(* What a removal takes, no other has taken.                                 *)
LEMMA RemovalHolds ==
  ASSUME NEW sc \in Trees, TreeInv(sc), TellInv(sc), NEW r \in Requests, Tree(sc)!BeginRemoval(r)
  PROVE  TellInv(sc)'
<1> DEFINE n == edit[r].on
           gone == Tree(sc)!Removed(n)
           e == [edit[r] EXCEPT !.step = "commit", !.victims = gone]
<1>1. /\ edit[r] \in Tree(sc)!Edit /\ edit[r] # None /\ edit[r].step = "write"
      /\ edit[r].op \notin Writes /\ edit[r].op # "create"
      /\ n \in Tree(sc)!Nodes \cup TreeServers(sc)
      /\ Tree(sc)!Exists(n) /\ gone \cap Tree(sc)!Held = {}
  BY DEF Tree!BeginRemoval, Tree!EditAt, TreeInv, Tree!StructureTypeOK, Writes, Tree!Edit
<1>2. gone \subseteq Tree(sc)!Nodes \cup TreeServers(sc) /\ n \in gone
  BY <1>1 DEF Tree!Removed, Tree!Inside, Tree!Under
<1>3. ASSUME NEW m \in gone, m # n
      PROVE  m \in Tree(sc)!Nodes /\ Tree(sc)!Exists(m) /\ node[m].in \in gone
  <2>1. m \in Tree(sc)!Nodes /\ node[m] # None
    BY <1>3 DEF Tree!Removed, Tree!Inside, Tree!Under
  <2>2. m \notin TreeServers(sc)
    BY <2>1, NodesNotServers
  <2>3. node[m].in \in gone
    BY <1>3 DEF Tree!Removed, Tree!Inside, Tree!Under
  <2> QED
    BY <2>1, <2>2, <2>3 DEF Tree!Exists
<1>4. ASSUME NEW q \in Requests, edit[q] # None, edit[q].step = "commit"
      PROVE  gone \cap edit[q].victims = {}
  BY <1>1, <1>4, HeldByRemovals DEF Tree!EditAt
<1>5. /\ edit' = [edit EXCEPT ![r] = e]
      /\ UNCHANGED <<servers, node, told, ended, stray, born, crossed>>
  BY DEF Tree!BeginRemoval
<1> HIDE DEF gone
<1>6. /\ e \in Tree(sc)!Edit /\ e.step = "commit" /\ e.op = edit[r].op /\ e.on = n
      /\ e.doc = edit[r].doc /\ e.victims = gone
  BY <1>1, <1>2 DEF Tree!Edit
<1> HIDE DEF e, n
<1>7. /\ n \in Tree(sc)!Nodes => n \in born
      /\ e.op = "remove" => n \in Tree(sc)!Nodes
      /\ e.doc = None
      /\ \A q \in Requests : q # r /\ edit[q] # None /\ edit[q].op = "create"
                               /\ edit[q].step = "write" => n # edit[q].on
  BY <1>1, <1>6 DEF TellInv, EditsOfBorn, RemovalsMarked, CreatorsAlone, n
<1> QED
  BY <1>1, <1>2, <1>3, <1>4, <1>5, <1>6, <1>7, NothingTold

(* Who writes is the one who tells, or the document is crossed.              *)
LEMMA WriteIsTold ==
  ASSUME NEW sc \in Trees, TreeInv(sc), TellInv(sc), NEW r \in Requests, Tree(sc)!WriteEdit(r)
  PROVE  TellInv(sc)'
<1> DEFINE n == edit[r].on
           w == Tree(sc)!Written(r)
           e == [edit[r] EXCEPT !.step = "tell", !.doc = w]
<1>1. /\ Tree(sc)!EditAt(r, "write") /\ edit[r].op \in Writes
      /\ edit[r].op # "create" => node[n] # None /\ n \notin Tree(sc)!Held
  BY DEF Tree!WriteEdit, Writes
<1>2. /\ Fits(sc, n, w) /\ n \in Tree(sc)!Nodes /\ w \in Tree(sc)!Doc /\ w # None
      /\ edit[r].op = "rename" => w.in = node[n].in
  BY <1>1, WrittenFits, NoneAssumption DEF Fits
<1>3. edit[r] \in Tree(sc)!Edit /\ edit[r] # None /\ edit[r].step = "write"
  BY <1>1 DEF Tree!EditAt, TreeInv, Tree!StructureTypeOK
<1>4. /\ node' = [node EXCEPT ![n] = w] /\ UNCHANGED <<servers, told, ended, born, stops>>
      /\ crossed' = crossed \cup Tree(sc)!Untold({n}) /\ edit' = [edit EXCEPT ![r] = e]
  BY DEF Tree!WriteEdit
<1> HIDE DEF w
<1>5. e.step = "tell" /\ e.op = edit[r].op /\ e.on = n /\ e.doc = w /\ e \in Tree(sc)!Edit
  BY <1>2, <1>3 DEF Tree!Edit
<1>6. e # None
  BY <1>5, NoneAssumption
<1>7. Telling(n) => n \in crossed'
  BY <1>4 DEF Telling, Tree!Untold, Tree!EditAt
<1>8. edit[r].op = "create" =>
        /\ node[n] = None
        /\ \A q \in Requests : q # r /\ edit[q] # None => edit[q].on # n
  BY <1>3 DEF TellInv, CreatorsAlone
<1>9. n \in born /\ n \notin TreeServers(sc)
  BY <1>2, <1>3, NodesNotServers DEF TellInv, EditsOfBorn
<1>10. ~Gone(sc, n)
  BY <1>1, <1>3, <1>9 DEF Gone, Creating
<1>11. ASSUME NEW q \in Requests, edit[q] # None, edit[q].step = "commit" PROVE n \notin edit[q].victims
  <2>1. CASE edit[r].op = "create"
    <3>1. ~Tree(sc)!Exists(n)
      BY <1>8, <1>9, <2>1 DEF Tree!Exists
    <3> QED
      BY <1>11, <3>1 DEF TellInv, VictimsHeld
  <2>2. CASE edit[r].op # "create"
    BY <1>1, <1>11, <2>2, HeldByRemovals DEF Tree!EditAt
  <2> QED
    BY <2>1, <2>2
<1> HIDE DEF e, n
<1>12. /\ node'[n] = w /\ \A m \in Tree(sc)!Nodes : m # n => node'[m] = node[m]
       /\ edit'[r] = e /\ \A q \in Requests : q # r => edit'[q] = edit[q]
       /\ crossed \subseteq crossed'
  BY <1>2, <1>4 DEF TreeInv, Tree!StructureTypeOK
<1>13. Unborn(sc)' /\ ToldFits(sc)'
  BY <1>4, <1>9, <1>12 DEF TellInv, Unborn, ToldFits, Fits
<1>14. EditsOfBorn(sc)'
  BY <1>4, <1>5, <1>9, <1>12 DEF TellInv, EditsOfBorn
<1>15. CreatorsAlone'
  <2> SUFFICES ASSUME NEW q \in Requests, edit'[q] # None, edit'[q].op = "create",
                      edit'[q].step = "write"
               PROVE  /\ node'[edit'[q].on] = None /\ told'[edit'[q].on] = None
                      /\ \A p \in Requests : p # q /\ edit'[p] # None => edit'[p].on # edit'[q].on
    BY DEF CreatorsAlone
  <2>1. q # r /\ edit'[q] = edit[q] /\ edit[q].on \in Tree(sc)!Nodes
    BY <1>5, <1>12 DEF TreeInv, EditsFit, EditFits, Fits, Writes
  <2>2. /\ node[edit[q].on] = None /\ told[edit[q].on] = None
        /\ \A p \in Requests : p # q /\ edit[p] # None => edit[p].on # edit[q].on
    BY <2>1 DEF TellInv, CreatorsAlone
  <2>3. edit[q].on # n
    BY <1>3, <2>1, <2>2 DEF n
  <2> QED
    BY <1>4, <1>5, <1>12, <2>1, <2>2, <2>3
<1>16. RemovalsMarked(sc)'
  BY <1>1, <1>5, <1>12 DEF TellInv, RemovalsMarked, Writes
<1>17. VictimsHeld(sc)'
  <2> SUFFICES ASSUME NEW q \in Requests, edit'[q] # None, edit'[q].step = "commit"
               PROVE  /\ edit'[q].on \in edit'[q].victims
                      /\ \A m \in edit'[q].victims :
                           /\ Standing(sc, m, servers', node')
                           /\ m # edit'[q].on
                                => m \in Tree(sc)!Nodes /\ node'[m].in \in edit'[q].victims
    BY DEF VictimsHeld, Tree!Exists, Standing
  <2>1. q # r /\ edit'[q] = edit[q] /\ n \notin edit[q].victims /\ edit[q] \in Tree(sc)!Edit
    BY <1>5, <1>11, <1>12 DEF TreeInv, Tree!StructureTypeOK
  <2>2. \A m \in edit[q].victims :
          m \in Tree(sc)!Nodes \cup TreeServers(sc) /\ (m \in Tree(sc)!Nodes => node'[m] = node[m])
    BY <1>12, <2>1 DEF Tree!Edit
  <2> QED
    BY <1>4, <2>1, <2>2 DEF TellInv, VictimsHeld, Tree!Exists, Standing
<1>18. VictimsApart'
  BY <1>5, <1>12 DEF TellInv, VictimsApart
<1>19. TellsSound'
  <2>1. ASSUME n \notin crossed', edit[r].op = "rename"
        PROVE  told[n] # None /\ told[n].in = w.in
    <3>1. told[n] = node[n]
      BY <1>1, <1>2, <1>7, <1>12, <2>1 DEF TellInv, NodeTold
    <3> QED
      BY <1>1, <1>2, <2>1, <3>1
  <2>2. ASSUME NEW q \in Requests, edit'[q] # None, edit'[q].step = "tell"
        PROVE  /\ edit'[q].op = "removeServer" => edit'[q].on \notin servers'
               /\ edit'[q].on \notin crossed' =>
                    /\ \A p \in Requests : p # q /\ edit'[p] # None /\ edit'[p].step = "tell"
                                             => edit'[p].on # edit'[q].on
                    /\ edit'[q].op # "removeServer" => edit'[q].doc = node'[edit'[q].on]
                    /\ edit'[q].op = "rename" =>
                         told'[edit'[q].on] # None /\ told'[edit'[q].on].in = node'[edit'[q].on].in
    <3>1. CASE q = r
      <4>1. ASSUME n \notin crossed', NEW p \in Requests, p # r, edit'[p] # None,
                   edit'[p].step = "tell"
            PROVE  edit'[p].on # n
        BY <1>7, <1>12, <4>1 DEF Telling
      <4> QED
        BY <1>1, <1>4, <1>5, <1>12, <2>1, <3>1, <4>1 DEF Writes
    <3>2. CASE q # r
      <4>1. edit'[q] = edit[q] /\ edit[q] # None /\ edit[q].step = "tell"
        BY <1>12, <2>2, <3>2
      <4>2. edit[q].on \notin crossed' => edit[q].on # n /\ edit[q].on \notin crossed
        BY <1>7, <1>12, <4>1 DEF Telling
      <4>3. edit[q].op # "removeServer" => edit[q].on \in Tree(sc)!Nodes
        BY <4>1 DEF TellInv, RemovalsMarked, TreeInv, EditsFit, EditFits, Fits, Writes,
           Tree!StructureTypeOK, Tree!Edit
      <4>4. edit[q].op # "removeServer" /\ edit[q].on # n => node'[edit[q].on] = node[edit[q].on]
        BY <1>12, <4>3
      <4>5. \A p \in Requests : p # q /\ edit'[p] # None /\ edit'[p].step = "tell" /\ p # r
                                  => edit'[p] = edit[p]
        BY <1>12
      <4> QED
        BY <1>4, <1>5, <1>12, <4>1, <4>2, <4>4, <4>5 DEF TellInv, TellsSound
    <3> QED
      BY <3>1, <3>2
  <2> QED
    BY <2>2 DEF TellsSound
<1>20. \A x : x # n => (Telling(x)' <=> Telling(x))
  BY <1>3, <1>5, <1>6, <1>12 DEF Telling, n
<1>21. \A x : x = n => Telling(x)'
  BY <1>5, <1>6, <1>12 DEF Telling
<1>22. ASSUME NEW x \in Tree(sc)!Nodes \cup TreeServers(sc), Gone(sc, x)
       PROVE  Gone(sc, x)'
  <2>1. x # n /\ (x \in Tree(sc)!Nodes => node'[x] = node[x])
    BY <1>10, <1>12, <1>22
  <2>2. Creating(x)' => Creating(x)
    BY <1>5, <1>12 DEF Creating
  <2> QED
    BY <1>4, <1>22, <2>1, <2>2 DEF Gone
<1>23. ASSUME NEW m \in Tree(sc)!Nodes PROVE NodeTold(sc, m)'
  <2>1. CASE m = n
    BY <1>21, <2>1 DEF NodeTold
  <2>2. CASE m # n
    <3>1. told[m] # None => told[m].in \in Tree(sc)!Nodes \cup TreeServers(sc)
      BY DEF TellInv, ToldFits, Fits, Tree!Doc, Tree!Nodes
    <3>2. told[m] # None /\ Gone(sc, told[m].in) => Gone(sc, told[m].in)'
      <4>1. ASSUME NEW x \in Tree(sc)!Nodes \cup TreeServers(sc), Gone(sc, x), x = told[m].in
            PROVE  Gone(sc, told[m].in)'
        <5>1. told'[m].in = x /\ Gone(sc, x)'
          BY <1>4, <1>22, <4>1
        <5> QED
          BY <5>1 DEF Gone
      <4> QED
        BY <3>1, <4>1
    <3> QED
      BY <1>4, <1>12, <1>20, <2>2, <3>2 DEF TellInv, NodeTold
  <2> QED
    BY <2>1, <2>2
<1>24. ASSUME NEW s \in TreeServers(sc) PROVE ServerTold(s)'
  <2>1. s # n
    BY <1>9
  <2> QED
    BY <1>4, <1>12, <1>20, <2>1 DEF TellInv, ServerTold
<1> QED
  BY <1>13, <1>14, <1>15, <1>16, <1>17, <1>18, <1>19, <1>23, <1>24 DEF TellInv

(* What a removal deletes besides what it tells of was in what it deletes.   *)
LEMMA RemovalIsTold ==
  ASSUME NEW sc \in Trees, TreeInv(sc), TellInv(sc), NEW r \in Requests, Tree(sc)!CommitRemoval(r)
  PROVE  TellInv(sc)'
<1> DEFINE n == edit[r].on
           gone == edit[r].victims
           e == [edit[r] EXCEPT !.step = "tell", !.victims = {}]
<1>1. edit[r] \in Tree(sc)!Edit /\ edit[r] # None /\ edit[r].step = "commit"
  BY DEF Tree!CommitRemoval, Tree!EditAt, TreeInv, Tree!StructureTypeOK
<1>2. /\ edit[r].op \in {"remove", "removeServer"} /\ edit[r].doc = None
      /\ edit[r].op = "remove" => n \in Tree(sc)!Nodes
  BY <1>1 DEF TellInv, RemovalsMarked, Writes, Tree!Edit
<1>3. /\ n \in gone /\ gone \subseteq Tree(sc)!Nodes \cup TreeServers(sc)
      /\ \A m \in gone : /\ Tree(sc)!Exists(m)
                         /\ m # n => m \in Tree(sc)!Nodes /\ node[m].in \in gone
      /\ \A q \in Requests : q # r /\ edit[q] # None /\ edit[q].step = "commit"
                               => gone \cap edit[q].victims = {}
  BY <1>1 DEF TellInv, VictimsHeld, VictimsApart, Tree!Edit
<1>4. /\ servers' = servers \ gone /\ edit' = [edit EXCEPT ![r] = e]
      /\ node' = [m \in Tree(sc)!Nodes |-> IF m \in gone THEN None ELSE node[m]]
      /\ crossed' = crossed \cup Tree(sc)!Untold(gone)
      /\ UNCHANGED <<told, ended, stray, born, stops>>
  BY DEF Tree!CommitRemoval
<1>5. \A x \in gone : Telling(x) => x \in crossed'
  BY <1>4 DEF Telling, Tree!Untold, Tree!EditAt
<1>6. /\ e \in Tree(sc)!Edit /\ e.step = "tell" /\ e.op = edit[r].op /\ e.on = n
      /\ e.doc = edit[r].doc
  BY <1>1 DEF Tree!Edit
<1>7. e # None
  BY <1>6, NoneAssumption
<1> HIDE DEF gone, e, n
<1>8. /\ \A m \in Tree(sc)!Nodes : node'[m] = IF m \in gone THEN None ELSE node[m]
      /\ edit'[r] = e /\ \A q \in Requests : q # r => edit'[q] = edit[q]
      /\ crossed \subseteq crossed'
  BY <1>4 DEF TreeInv, Tree!StructureTypeOK
<1>9. Unborn(sc)' /\ ToldFits(sc)'
  BY <1>4, <1>8 DEF TellInv, Unborn, ToldFits, Fits
<1>10. EditsOfBorn(sc)'
  BY <1>1, <1>4, <1>6, <1>8 DEF TellInv, EditsOfBorn, n
<1>11. CreatorsAlone'
  <2> SUFFICES ASSUME NEW q \in Requests, edit'[q] # None, edit'[q].op = "create",
                      edit'[q].step = "write"
               PROVE  /\ node'[edit'[q].on] = None /\ told'[edit'[q].on] = None
                      /\ \A p \in Requests : p # q /\ edit'[p] # None => edit'[p].on # edit'[q].on
    BY DEF CreatorsAlone
  <2>1. q # r /\ edit'[q] = edit[q] /\ edit[q].on \in Tree(sc)!Nodes
    BY <1>6, <1>8 DEF TreeInv, EditsFit, EditFits, Fits, Writes
  <2>2. /\ node[edit[q].on] = None /\ told[edit[q].on] = None
        /\ \A p \in Requests : p # q /\ edit[p] # None => edit[p].on # edit[q].on
    BY <2>1 DEF TellInv, CreatorsAlone
  <2>3. edit[q].on # n
    BY <1>1, <2>1, <2>2 DEF n
  <2> QED
    BY <1>4, <1>6, <1>8, <2>1, <2>2, <2>3
<1>12. RemovalsMarked(sc)'
  BY <1>2, <1>6, <1>8 DEF TellInv, RemovalsMarked, Writes
<1>13. VictimsHeld(sc)'
  <2> SUFFICES ASSUME NEW q \in Requests, edit'[q] # None, edit'[q].step = "commit"
               PROVE  /\ edit'[q].on \in edit'[q].victims
                      /\ \A m \in edit'[q].victims :
                           /\ Standing(sc, m, servers', node')
                           /\ m # edit'[q].on
                                => m \in Tree(sc)!Nodes /\ node'[m].in \in edit'[q].victims
    BY DEF VictimsHeld, Tree!Exists, Standing
  <2>1. q # r /\ edit'[q] = edit[q] /\ edit[q] \in Tree(sc)!Edit
    BY <1>6, <1>8 DEF TreeInv, Tree!StructureTypeOK
  <2>2. \A m \in edit[q].victims :
          /\ m \in Tree(sc)!Nodes \cup TreeServers(sc) /\ m \notin gone
          /\ m \in Tree(sc)!Nodes => node'[m] = node[m]
    BY <1>3, <1>8, <2>1 DEF Tree!Edit
  <2> QED
    BY <1>4, <2>1, <2>2 DEF TellInv, VictimsHeld, Tree!Exists, Standing
<1>14. VictimsApart'
  BY <1>6, <1>8 DEF TellInv, VictimsApart
<1>15. TellsSound'
  <2>1. ASSUME NEW q \in Requests, edit'[q] # None, edit'[q].step = "tell"
        PROVE  /\ edit'[q].op = "removeServer" => edit'[q].on \notin servers'
               /\ edit'[q].on \notin crossed' =>
                    /\ \A p \in Requests : p # q /\ edit'[p] # None /\ edit'[p].step = "tell"
                                             => edit'[p].on # edit'[q].on
                    /\ edit'[q].op # "removeServer" => edit'[q].doc = node'[edit'[q].on]
                    /\ edit'[q].op = "rename" =>
                         told'[edit'[q].on] # None /\ told'[edit'[q].on].in = node'[edit'[q].on].in
    <3>1. CASE q = r
      <4>1. ASSUME n \notin crossed', NEW p \in Requests, p # r, edit'[p] # None,
                   edit'[p].step = "tell"
            PROVE  edit'[p].on # n
        BY <1>3, <1>5, <1>8, <4>1 DEF Telling
      <4>2. edit[r].op = "remove" => node'[n] = None
        BY <1>2, <1>3, <1>8
      <4> QED
        BY <1>2, <1>3, <1>4, <1>6, <1>8, <3>1, <4>1, <4>2
    <3>2. CASE q # r
      <4>1. edit'[q] = edit[q] /\ edit[q] # None /\ edit[q].step = "tell"
        BY <1>8, <2>1, <3>2
      <4>2. edit[q].on \notin crossed' => edit[q].on \notin gone /\ edit[q].on # n
                                          /\ edit[q].on \notin crossed
        BY <1>3, <1>5, <1>8, <4>1 DEF Telling
      <4>3. edit[q].op # "removeServer" => edit[q].on \in Tree(sc)!Nodes
        BY <4>1 DEF TellInv, RemovalsMarked, TreeInv, EditsFit, EditFits, Fits, Writes,
           Tree!StructureTypeOK, Tree!Edit
      <4>4. edit[q].op # "removeServer" /\ edit[q].on \notin gone
              => node'[edit[q].on] = node[edit[q].on]
        BY <1>8, <4>3
      <4>5. \A p \in Requests : p # q /\ edit'[p] # None /\ edit'[p].step = "tell" /\ p # r
                                  => edit'[p] = edit[p]
        BY <1>8
      <4> QED
        BY <1>4, <1>6, <1>8, <4>1, <4>2, <4>4, <4>5 DEF TellInv, TellsSound
    <3> QED
      BY <3>1, <3>2
  <2> QED
    BY <2>1 DEF TellsSound
<1>16. \A x : x # n => (Telling(x)' <=> Telling(x))
  BY <1>1, <1>6, <1>7, <1>8 DEF Telling, n
<1>17. \A x : x = n => Telling(x)'
  BY <1>6, <1>7, <1>8 DEF Telling
<1>18. \A x : Creating(x)' => Creating(x)
  BY <1>6, <1>8 DEF Creating
<1>19. ASSUME NEW x \in Tree(sc)!Nodes \cup TreeServers(sc), Gone(sc, x) \/ x \in gone
       PROVE  Gone(sc, x)'
  <2>1. CASE x \in TreeServers(sc)
    BY <1>4, <1>19, <2>1 DEF Gone
  <2>2. CASE x \notin TreeServers(sc) /\ Gone(sc, x)
    BY <1>4, <1>8, <1>18, <1>19, <2>2 DEF Gone
  <2>3. CASE x \notin TreeServers(sc) /\ x \in gone
    <3>1. node[x] # None /\ x \in Tree(sc)!Nodes
      BY <1>3, <1>19, <2>3 DEF Tree!Exists
    <3>2. x \in born /\ ~Creating(x)
      BY <3>1 DEF TellInv, Unborn, CreatorsAlone, Creating
    <3> QED
      BY <1>4, <1>8, <1>18, <2>3, <3>1, <3>2 DEF Gone
  <2> QED
    BY <1>19, <2>1, <2>2, <2>3
<1>20. ASSUME NEW m \in Tree(sc)!Nodes PROVE NodeTold(sc, m)'
  <2>1. CASE m = n
    BY <1>17, <2>1 DEF NodeTold
  <2>2. CASE m # n /\ m \in crossed'
    BY <2>2 DEF NodeTold
  <2>3. CASE m # n /\ m \notin crossed'
    <3>1. told[m] # None => told[m].in \in Tree(sc)!Nodes \cup TreeServers(sc)
      BY DEF TellInv, ToldFits, Fits, Tree!Doc, Tree!Nodes
    <3>2. ASSUME told[m] # None, Gone(sc, told[m].in) \/ told[m].in \in gone
          PROVE  Gone(sc, told[m].in)'
      <4>1. ASSUME NEW x \in Tree(sc)!Nodes \cup TreeServers(sc), Gone(sc, x) \/ x \in gone,
                   x = told[m].in
            PROVE  Gone(sc, told[m].in)'
        <5>1. told'[m].in = x /\ Gone(sc, x)'
          BY <1>4, <1>19, <4>1
        <5> QED
          BY <5>1 DEF Gone
      <4> QED
        BY <3>1, <3>2, <4>1
    <3>3. Telling(m)' <=> Telling(m)
      BY <1>16, <2>3
    <3>4. ASSUME m \in gone, ~Telling(m)
          PROVE  told[m] # None /\ told[m].in \in gone
      <4>1. node[m] # None /\ node[m].in \in gone
        BY <1>3, <2>3, <3>4, NodesNotServers DEF Tree!Exists
      <4>2. told[m] = node[m]
        BY <1>8, <2>3, <3>4, <4>1 DEF TellInv, NodeTold
      <4> QED
        BY <4>1, <4>2
    <3>5. CASE m \in gone
      BY <1>4, <1>8, <3>2, <3>3, <3>4, <3>5 DEF NodeTold
    <3>6. CASE m \notin gone
      BY <1>4, <1>8, <2>3, <3>2, <3>3, <3>6 DEF TellInv, NodeTold
    <3> QED
      BY <3>5, <3>6
  <2> QED
    BY <2>1, <2>2, <2>3
<1>21. ASSUME NEW s \in TreeServers(sc) PROVE ServerTold(s)'
  <2>1. s \in gone => s = n
    BY <1>3, NodesNotServers
  <2>2. CASE s = n
    BY <1>3, <1>4, <1>17, <2>2 DEF ServerTold
  <2>3. CASE s # n
    BY <1>4, <1>8, <1>16, <2>1, <2>3 DEF TellInv, ServerTold
  <2> QED
    BY <2>2, <2>3
<1> QED
  BY <1>9, <1>10, <1>11, <1>12, <1>13, <1>14, <1>15, <1>20, <1>21 DEF TellInv

(* The broadcast of what is not crossed says what is stored.                 *)
LEMMA BroadcastIsTrue ==
  ASSUME NEW sc \in Trees, TreeInv(sc), TellInv(sc), NEW r \in Requests, Tree(sc)!Broadcast(r)
  PROVE  TellInv(sc)'
<1> DEFINE n == edit[r].on
           doc == edit[r].doc
<1>1. edit[r] \in Tree(sc)!Edit /\ edit[r] # None /\ edit[r].step = "tell"
  BY DEF Tree!Broadcast, Tree!EditAt, TreeInv, Tree!StructureTypeOK
<1>2. /\ edit[r].op = "removeServer" => n \in TreeServers(sc) /\ n \notin servers
      /\ edit[r].op # "removeServer" => n \in Tree(sc)!Nodes /\ n \in born
  <2>1. edit[r].op # "removeServer" => n \in Tree(sc)!Nodes
    BY <1>1 DEF TellInv, RemovalsMarked, TreeInv, EditsFit, EditFits, Fits, Writes, Tree!Edit
  <2> QED
    BY <1>1, <2>1 DEF TreeInv, EditsFit, EditFits, TellInv, TellsSound, EditsOfBorn
<1>3. edit' = [edit EXCEPT ![r] = None] /\ UNCHANGED <<servers, node, stray, born, crossed, stops>>
  BY DEF Tree!Broadcast
<1>4. edit'[r] = None /\ \A q \in Requests : q # r => edit'[q] = edit[q]
  BY <1>3 DEF TreeInv, Tree!StructureTypeOK
<1>5. /\ \A x : Creating(x)' => Creating(x)
      /\ \A x : x # n => (Telling(x)' <=> Telling(x))
  BY <1>1, <1>4 DEF Creating, Telling
<1>6. \A x : Gone(sc, x) => Gone(sc, x)'
  BY <1>3, <1>5 DEF Gone
<1>7. /\ \A m \in Tree(sc)!Nodes : m # n => told'[m] = told[m]
      /\ edit[r].op = "removeServer" => told' = told
  BY DEF Tree!Broadcast, TreeInv, Tree!StructureTypeOK
<1>8. edit[r].op # "removeServer" =>
        /\ Fits(sc, n, told'[n]) \/ told'[n] = None
        /\ n \notin crossed => told'[n] = node[n]
  <2> SUFFICES ASSUME edit[r].op # "removeServer"
               PROVE  /\ Fits(sc, n, told'[n]) \/ told'[n] = None
                      /\ n \notin crossed => told'[n] = node[n]
    OBVIOUS
  <2>1. told'[n] = IF edit[r].op \in {"create", "move", "remove"} THEN doc
                   ELSE IF told[n] = None THEN None ELSE [told[n] EXCEPT !.name = doc.name]
    BY <1>2 DEF Tree!Broadcast, TreeInv, Tree!StructureTypeOK
  <2>2. CASE edit[r].op = "rename"
    <3>1. Fits(sc, n, doc)
      BY <1>1, <2>2 DEF TreeInv, EditsFit, EditFits, Writes
    <3>2. CASE told[n] = None
      <4>1. n \in crossed
        BY <1>1, <2>2, <3>2 DEF TellInv, TellsSound
      <4> QED
        BY <2>1, <2>2, <3>2, <4>1
    <3>3. CASE told[n] # None
      <4>1. Fits(sc, n, told[n]) /\ told'[n] = [told[n] EXCEPT !.name = doc.name]
        BY <1>2, <2>1, <2>2, <3>3 DEF TellInv, ToldFits
      <4>2. Fits(sc, n, told'[n]) /\ told'[n].in = told[n].in /\ told'[n].name = doc.name
        BY <3>1, <4>1 DEF Fits, Tree!Doc
      <4>3. ASSUME n \notin crossed PROVE told'[n] = node[n]
        <5>1. doc = node[n] /\ told[n].in = node[n].in
          BY <1>1, <2>2, <4>3 DEF TellInv, TellsSound
        <5> QED
          BY <3>1, <4>2, <5>1 DEF Fits, Tree!Doc
      <4> QED
        BY <4>2, <4>3
    <3> QED
      BY <3>2, <3>3
  <2>3. CASE edit[r].op # "rename"
    <3>1. told'[n] = doc
      BY <1>1, <2>1, <2>3 DEF Tree!Edit
    <3>2. Fits(sc, n, doc) \/ doc = None
      BY <1>1 DEF TreeInv, EditsFit, EditFits, TellInv, RemovalsMarked
    <3>3. n \notin crossed => doc = node[n]
      BY <1>1 DEF TellInv, TellsSound
    <3> QED
      BY <3>1, <3>2, <3>3
  <2> QED
    BY <2>2, <2>3
<1>9. ended' = IF edit[r].op = "removeServer" THEN ended \cup {n} ELSE ended
  BY DEF Tree!Broadcast
<1> HIDE DEF n, doc
<1>10. Unborn(sc)' /\ EditsOfBorn(sc)'
  BY <1>2, <1>3, <1>4, <1>7 DEF TellInv, Unborn, EditsOfBorn
<1>11. CreatorsAlone'
  <2> SUFFICES ASSUME NEW q \in Requests, edit'[q] # None, edit'[q].op = "create",
                      edit'[q].step = "write"
               PROVE  /\ node'[edit'[q].on] = None /\ told'[edit'[q].on] = None
                      /\ \A p \in Requests : p # q /\ edit'[p] # None => edit'[p].on # edit'[q].on
    BY DEF CreatorsAlone
  <2>1. q # r /\ edit'[q] = edit[q] /\ edit[q].on \in Tree(sc)!Nodes
    BY <1>4 DEF TreeInv, EditsFit, EditFits, Fits, Writes
  <2>2. /\ node[edit[q].on] = None /\ told[edit[q].on] = None
        /\ \A p \in Requests : p # q /\ edit[p] # None => edit[p].on # edit[q].on
    BY <2>1 DEF TellInv, CreatorsAlone
  <2>3. edit[q].on # n
    BY <1>1, <2>1, <2>2 DEF n
  <2> QED
    BY <1>3, <1>4, <1>7, <2>1, <2>2, <2>3
<1>12. RemovalsMarked(sc)' /\ VictimsHeld(sc)' /\ VictimsApart'
  BY <1>3, <1>4 DEF TellInv, RemovalsMarked, VictimsHeld, VictimsApart, Tree!Exists
<1>13. TellsSound'
  <2>1. ASSUME NEW q \in Requests, edit'[q] # None, edit'[q].step = "tell"
        PROVE  /\ edit'[q].op = "removeServer" => edit'[q].on \notin servers'
               /\ edit'[q].on \notin crossed' =>
                    /\ \A p \in Requests : p # q /\ edit'[p] # None /\ edit'[p].step = "tell"
                                             => edit'[p].on # edit'[q].on
                    /\ edit'[q].op # "removeServer" => edit'[q].doc = node'[edit'[q].on]
                    /\ edit'[q].op = "rename" =>
                         told'[edit'[q].on] # None /\ told'[edit'[q].on].in = node'[edit'[q].on].in
    <3>1. q # r /\ edit'[q] = edit[q]
      BY <1>4, <2>1
    <3>2. edit[q].on \notin crossed => edit[q].on # n
      BY <1>1, <2>1, <3>1 DEF TellInv, TellsSound, n
    <3>3. edit[q].op = "rename" => edit[q].on \in Tree(sc)!Nodes
      BY <2>1, <3>1 DEF TreeInv, EditsFit, EditFits, Fits, Writes
    <3>4. edit[q].op = "rename" /\ edit[q].on \notin crossed => told'[edit[q].on] = told[edit[q].on]
      BY <1>7, <3>2, <3>3
    <3>5. \A p \in Requests : edit'[p] # None => edit'[p] = edit[p]
      BY <1>4
    <3> QED
      BY <1>3, <2>1, <3>1, <3>4, <3>5 DEF TellInv, TellsSound
  <2> QED
    BY <2>1 DEF TellsSound
<1>14. ToldFits(sc)'
  BY <1>2, <1>7, <1>8 DEF TellInv, ToldFits, Fits
<1>15. ASSUME NEW m \in Tree(sc)!Nodes PROVE NodeTold(sc, m)'
  <2>1. CASE m = n
    <3>1. edit[r].op # "removeServer"
      BY <1>2, <2>1, NodesNotServers
    <3> QED
      BY <1>3, <1>8, <2>1, <3>1 DEF NodeTold
  <2>2. CASE m # n
    <3>1. ASSUME NEW x, Gone(sc, x), x = told[m].in PROVE Gone(sc, told[m].in)'
      <4>1. told'[m].in = x /\ Gone(sc, x)'
        BY <1>6, <1>7, <2>2, <3>1
      <4> QED
        BY <4>1 DEF Gone
    <3> QED
      BY <1>3, <1>5, <1>7, <2>2, <3>1 DEF TellInv, NodeTold
  <2> QED
    BY <2>1, <2>2
<1>16. ASSUME NEW s \in TreeServers(sc) PROVE ServerTold(s)'
  <2>1. CASE s = n
    <3>1. edit[r].op = "removeServer"
      BY <1>2, <2>1, NodesNotServers
    <3> QED
      BY <1>2, <1>3, <1>9, <2>1, <3>1 DEF ServerTold
  <2>2. CASE s # n
    BY <1>3, <1>5, <1>9, <2>2 DEF TellInv, ServerTold
  <2> QED
    BY <2>1, <2>2
<1> QED
  BY <1>10, <1>11, <1>12, <1>13, <1>14, <1>15, <1>16 DEF TellInv

LEMMA StopIsCrossed ==
  ASSUME NEW sc \in Trees, TreeInv(sc), TellInv(sc), Tree(sc)!Stop
  PROVE  TellInv(sc)'
<1>1. /\ edit' = [r \in Requests |-> None] /\ UNCHANGED <<servers, node, told, ended, stray, born>>
      /\ crossed' = crossed \cup Tree(sc)!Untold(Tree(sc)!Nodes \cup TreeServers(sc))
  BY DEF Tree!Stop
<1>2. \A r \in Requests : edit'[r] = None
  BY <1>1
<1>3. \A x \in Tree(sc)!Nodes \cup TreeServers(sc) : Telling(x) => x \in crossed'
  BY <1>1 DEF Telling, Tree!Untold, Tree!EditAt
<1>4. crossed \subseteq crossed' /\ \A x : Gone(sc, x) => Gone(sc, x)'
  BY <1>1, <1>2 DEF Gone, Creating
<1>5. /\ EditsOfBorn(sc)' /\ CreatorsAlone' /\ RemovalsMarked(sc)' /\ VictimsHeld(sc)'
      /\ VictimsApart' /\ TellsSound'
  BY <1>2 DEF EditsOfBorn, CreatorsAlone, RemovalsMarked, VictimsHeld, VictimsApart, TellsSound
<1>6. Unborn(sc)' /\ ToldFits(sc)'
  BY <1>1 DEF TellInv, Unborn, ToldFits, Fits
<1>7. ASSUME NEW m \in Tree(sc)!Nodes PROVE NodeTold(sc, m)'
  <2>1. ASSUME NEW x, Gone(sc, x), x = told[m].in PROVE Gone(sc, told[m].in)'
    <3>1. told'[m].in = x /\ Gone(sc, x)'
      BY <1>1, <1>4, <2>1
    <3> QED
      BY <3>1 DEF Gone
  <2> QED
    BY <1>1, <1>3, <1>4, <2>1 DEF TellInv, NodeTold
<1>8. ASSUME NEW s \in TreeServers(sc) PROVE ServerTold(s)'
  BY <1>1, <1>3, <1>4 DEF TellInv, ServerTold
<1> QED
  BY <1>5, <1>6, <1>7, <1>8 DEF TellInv

LEMMA TellStep ==
  ASSUME NEW sc \in Trees, scene = sc, TreeInv(sc), TellInv(sc), [Next]_vars
  PROVE  TellInv(sc)'
<1>1. Tree(sc)!StructureNext \/ UNCHANGED treeVars
  BY DEF Next, vars
<1>2. CASE UNCHANGED treeVars
  <2>1. UNCHANGED <<servers, node, edit, told, ended, born, crossed>>
    BY <1>2 DEF treeVars
  <2>2. /\ Unborn(sc)' /\ EditsOfBorn(sc)' /\ CreatorsAlone' /\ RemovalsMarked(sc)'
        /\ VictimsHeld(sc)' /\ VictimsApart' /\ TellsSound' /\ ToldFits(sc)'
    BY <2>1 DEF TellInv, Unborn, EditsOfBorn, CreatorsAlone, RemovalsMarked, VictimsHeld, VictimsApart,
       TellsSound, ToldFits, Fits, Tree!Exists
  <2>3. ASSUME NEW n \in Tree(sc)!Nodes PROVE NodeTold(sc, n)'
    BY <2>1 DEF TellInv, NodeTold, Telling, Gone, Creating
  <2>4. ASSUME NEW s \in TreeServers(sc) PROVE ServerTold(s)'
    BY <2>1 DEF TellInv, ServerTold, Telling
  <2> QED
    BY <2>2, <2>3, <2>4 DEF TellInv
<1>3. CASE Tree(sc)!StructureNext
  BY <1>3, RequestMadeTold, WriteIsTold, EditDropped, RemovalHolds, RemovalIsTold, BroadcastIsTrue,
     StopIsCrossed DEF Tree!StructureNext
<1> QED
  BY <1>1, <1>2, <1>3

(* When nothing is due, what was told of a document and of what it is in is  *)
(* what is stored, or says that it went with what it was in.                 *)
LEMMA TellsAddUp ==
  ASSUME NEW sc \in Trees, TreeInv(sc), TellInv(sc)
  PROVE  Tree(sc)!EventsTellTheTree
<1> SUFFICES ASSUME \A r \in Requests : ~Tree(sc)!EditAt(r, "tell"), NEW n \in Tree(sc)!Nodes,
                    Tree(sc)!Within(n) \cap (stray \cup crossed) = {}
             PROVE  /\ Tree(sc)!Shown(n) <=> node[n] # None
                    /\ Tree(sc)!Shown(n) => told[n] = node[n]
  BY DEF Tree!EventsTellTheTree
<1>1. \A x : ~Telling(x)
  BY DEF Telling, Tree!EditAt
<1>2. /\ n \notin stray \cup crossed
      /\ told[n] # None => told[n].in \notin stray \cup crossed
      /\ n \in Channels /\ told[n] # None /\ told[told[n].in] # None
           => told[told[n].in].in \notin stray \cup crossed
  BY DEF Tree!Within
<1>3. \A s \in TreeServers(sc) : (s \in ended => s \notin servers)
                                 /\ (s \notin crossed /\ s \notin servers => s \in ended)
  BY <1>1 DEF TellInv, ServerTold
<1>4. ASSUME NEW m \in Tree(sc)!Nodes, m \notin crossed
      PROVE  told[m] = node[m] \/ (node[m] = None /\ told[m] # None /\ Gone(sc, told[m].in))
  BY <1>1, <1>4 DEF TellInv, NodeTold
<1>5. ASSUME NEW m \in Tree(sc)!Nodes, m \notin stray, node[m] # None
      PROVE  Tree(sc)!Exists(node[m].in)
  BY <1>5 DEF TreeInv, Tree!NothingAstray
<1>6. ASSUME NEW c \in TreeCategories(sc), c \notin stray \cup crossed,
             told[c] # None => told[c].in \notin crossed
      PROVE  (told[c] # None /\ told[c].in \notin ended) <=> node[c] # None
  <2>1. c \in Tree(sc)!Nodes /\ (told[c] # None => told[c].in \in TreeServers(sc))
    BY NodesNotServers DEF TellInv, ToldFits, Fits
  <2>2. CASE told[c] = node[c]
    BY <1>3, <1>5, <1>6, <2>1, <2>2 DEF Tree!Exists
  <2>3. CASE node[c] = None /\ told[c] # None /\ Gone(sc, told[c].in)
    BY <1>3, <1>6, <2>1, <2>3 DEF Gone
  <2> QED
    BY <1>4, <1>6, <2>1, <2>2, <2>3
<1>7. CASE n \in TreeCategories(sc)
  <2>1. Tree(sc)!Shown(n) <=> node[n] # None
    BY <1>2, <1>6, <1>7 DEF Tree!Shown
  <2> QED
    BY <1>2, <1>4, <2>1
<1>8. CASE n \in Channels
  <2>1. n \notin TreeCategories(sc) /\ (told[n] # None => told[n].in \in TreeCategories(sc))
    BY <1>8, NodesNotServers DEF TellInv, ToldFits, Fits
  <2>2. told[n] # None =>
          (told[told[n].in] # None /\ told[told[n].in].in \notin ended <=> node[told[n].in] # None)
    BY <1>2, <1>6, <1>8, <2>1
  <2>3. Tree(sc)!Shown(n) <=> told[n] # None /\ node[told[n].in] # None
    BY <2>1, <2>2 DEF Tree!Shown
  <2>4. told[n] # None => told[n].in \notin TreeServers(sc)
    BY <2>1, NodesNotServers
  <2>5. CASE told[n] = node[n]
    BY <1>2, <1>5, <2>3, <2>4, <2>5 DEF Tree!Exists
  <2>6. CASE node[n] = None /\ told[n] # None /\ Gone(sc, told[n].in)
    BY <2>3, <2>4, <2>6 DEF Gone
  <2> QED
    BY <1>2, <1>4, <2>5, <2>6
<1> QED
  BY <1>7, <1>8, NodesNotServers

(* What ServerService broadcasts of categories and channels adds up to what  *)
(* is stored once nothing is due, whichever requests overlapped: an id has   *)
(* one creator, a removal deletes what it holds, and what is told of a       *)
(* document that nothing crossed is what was last written.                   *)
THEOREM EventsDoTellTheTree == Spec => []EventsTellTheTree
<1> DEFINE I == \A sc \in Trees : scene = sc => TreeInv(sc) /\ TellInv(sc)
<1>1. Init => I
  BY TreeBegins, TellBegins DEF Init
<1>2. I /\ [Next]_vars => I'
  BY SceneStays, TreeStep, TellStep
<1>3. I => EventsTellTheTree
  BY TellsAddUp DEF EventsTellTheTree
<1> QED
  BY <1>1, <1>2, <1>3, PTL DEF Spec

-----------------------------------------------------------------------------
(* Conversations extends FiniteSets, and so has a Cardinality of its own.    *)
LEMMA SameCardinality == \A S : Pairs!Cardinality(S) = Cardinality(S)
BY DEF Cardinality, Pairs!Cardinality

(* A document has the smaller id first, no other has the same two, and it    *)
(* was given only to those two.                                              *)
PairsTyped ==
  /\ pairs \subseteq Ids \X Ids \X Nat /\ IsFiniteSet(pairs)
  /\ ask \in [Requests -> (Ids \X Ids) \cup {None}]
  /\ given \in [Pairs!AtMostTwo -> SUBSET pairs]
SmallerFirst == \A d \in pairs : d[1] <= d[2]
OneOfTwo == \A d, e \in pairs : d[1] = e[1] /\ d[2] = e[2] => d = e
GivenToTheTwo == \A p \in Pairs!AtMostTwo : \A d \in given[p] : p = {d[1], d[2]}
PairInv == PairsTyped /\ SmallerFirst /\ OneOfTwo /\ GivenToTheTwo

LEMMA PairsBegin ==
  ASSUME Pairs!ConversationsInit PROVE PairInv
BY FS_EmptySet DEF Pairs!ConversationsInit, PairInv, PairsTyped, SmallerFirst, OneOfTwo, GivenToTheTwo

LEMMA PairsFound ==
  ASSUME PairInv, NEW r \in Requests, NEW a \in Ids, NEW b \in Ids,
         Pairs!FindConversation(r, a, b)
  PROVE  PairInv'
<1>1. pairs' = pairs
  BY DEF Pairs!FindConversation
<1>2. {a, b} \in Pairs!AtMostTwo
  BY DEF Pairs!AtMostTwo
<1>3. CASE Pairs!Existing(a, b) # {}
  <2>1. PICK d \in Pairs!Existing(a, b) : Pairs!Answer(a, b, d) /\ ask' = ask
    BY <1>3 DEF Pairs!FindConversation
  <2>2. d \in pairs /\ {d[1], d[2]} = {a, b}
    BY <2>1 DEF Pairs!Existing, Pairs!BothWays
  <2>3. given' = [given EXCEPT ![{a, b}] = @ \cup {d}]
    BY <2>1 DEF Pairs!Answer
  <2>4. PairsTyped'
    BY <1>1, <1>2, <2>1, <2>2, <2>3 DEF PairInv, PairsTyped
  <2>5. GivenToTheTwo'
    BY <1>2, <2>2, <2>3 DEF PairInv, PairsTyped, GivenToTheTwo
  <2> QED
    BY <1>1, <2>4, <2>5 DEF PairInv, SmallerFirst, OneOfTwo
<1>4. CASE Pairs!Existing(a, b) = {}
  <2>1. ask' = [ask EXCEPT ![r] = <<a, b>>] /\ given' = given
    BY <1>4 DEF Pairs!FindConversation
  <2> QED
    BY <1>1, <2>1 DEF PairInv, PairsTyped, SmallerFirst, OneOfTwo, GivenToTheTwo
<1> QED
  BY <1>3, <1>4

LEMMA PairsCreated ==
  ASSUME PairInv, NEW r \in Requests, Pairs!CreateConversation(r)
  PROVE  PairInv'
<1> DEFINE a == ask[r][1]
           b == ask[r][2]
           pair == Pairs!Ordered(a, b)
           doc == <<pair[1], pair[2], Cardinality(pairs)>>
<1>1. a \in Ids /\ b \in Ids
  BY DEF Pairs!CreateConversation, PairInv, PairsTyped
<1>3. ask' = [ask EXCEPT ![r] = None]
  BY DEF Pairs!CreateConversation
<1>4. \/ /\ \A d \in pairs : <<d[1], d[2]>> # pair
         /\ pairs' = pairs \cup {doc} /\ given' = [given EXCEPT ![{a, b}] = @ \cup {doc}]
      \/ UNCHANGED <<pairs, given>>
  BY SameCardinality DEF Pairs!CreateConversation, Pairs!Answer
<1> HIDE DEF a, b
<1>5. {a, b} \in Pairs!AtMostTwo
  BY <1>1 DEF Pairs!AtMostTwo
<1>2. pair = <<pair[1], pair[2]>> /\ pair[1] \in Ids /\ pair[2] \in Ids
      /\ pair[1] <= pair[2] /\ {pair[1], pair[2]} = {a, b}
  <2>1. a \in Int /\ b \in Int
    BY <1>1, IdsAssumption
  <2>2. (pair = <<a, b>> /\ a <= b) \/ (pair = <<b, a>> /\ b <= a)
    BY <2>1 DEF Pairs!Ordered
  <2> HIDE DEF pair
  <2> QED
    BY <1>1, <2>2
<1> HIDE DEF pair
<1>6. CASE UNCHANGED <<pairs, given>>
  BY <1>3, <1>6 DEF PairInv, PairsTyped, SmallerFirst, OneOfTwo, GivenToTheTwo
<1>7. CASE /\ \A d \in pairs : <<d[1], d[2]>> # pair
           /\ pairs' = pairs \cup {doc} /\ given' = [given EXCEPT ![{a, b}] = @ \cup {doc}]
  <2>1. Cardinality(pairs) \in Nat /\ IsFiniteSet(pairs')
    BY <1>7, FS_CardinalityType, FS_AddElement DEF PairInv, PairsTyped
  <2>2. doc[1] = pair[1] /\ doc[2] = pair[2] /\ doc \in Ids \X Ids \X Nat
    BY <1>2, <2>1
  <2> HIDE DEF doc
  <2>3. PairsTyped'
    BY <1>3, <1>5, <1>7, <2>1, <2>2 DEF PairInv, PairsTyped
  <2>4. SmallerFirst'
    BY <1>2, <1>7, <2>2 DEF PairInv, SmallerFirst
  <2>5. \A d \in pairs : ~(d[1] = doc[1] /\ d[2] = doc[2])
    BY <1>2, <1>7, <2>2
  <2>6. OneOfTwo'
    BY <1>7, <2>5 DEF PairInv, OneOfTwo
  <2>7. {doc[1], doc[2]} = {a, b}
    BY <1>2, <2>2
  <2>8. GivenToTheTwo'
    BY <1>5, <1>7, <2>7 DEF PairInv, PairsTyped, GivenToTheTwo
  <2> QED
    BY <2>3, <2>4, <2>6, <2>8 DEF PairInv
<1> QED
  BY <1>4, <1>6, <1>7

LEMMA PairsStep ==
  ASSUME scene = "pairs", PairInv, [Next]_vars
  PROVE  PairInv'
<1>1. Pairs!ConversationsNext \/ UNCHANGED <<pairs, ask, given>>
  BY DEF Next, vars, pairVars
<1>2. CASE UNCHANGED <<pairs, ask, given>>
  BY <1>2 DEF PairInv, PairsTyped, SmallerFirst, OneOfTwo, GivenToTheTwo
<1>3. CASE Pairs!ConversationsNext
  BY <1>3, PairsFound, PairsCreated DEF Pairs!ConversationsNext
<1> QED
  BY <1>1, <1>2, <1>3

(* Two documents given to the same two have the same ids in the same order.  *)
LEMMA OneWasGiven ==
  ASSUME PairInv PROVE Pairs!OneConversation
<1> SUFFICES ASSUME NEW p \in Pairs!AtMostTwo PROVE Cardinality(given[p]) <= 1
  BY SameCardinality DEF Pairs!OneConversation
<1>1. ASSUME NEW d \in given[p], NEW e \in given[p] PROVE d = e
  <2>1. d \in pairs /\ e \in pairs /\ {d[1], d[2]} = {e[1], e[2]}
    BY <1>1 DEF PairInv, PairsTyped, GivenToTheTwo
  <2>2. d[1] \in Int /\ d[2] \in Int /\ e[1] \in Int /\ e[2] \in Int
    BY <2>1, IdsAssumption DEF PairInv, PairsTyped
  <2>3. d[1] <= d[2] /\ e[1] <= e[2]
    BY <2>1 DEF PairInv, SmallerFirst
  <2>4. d[1] = e[1] /\ d[2] = e[2]
    BY <2>1, <2>2, <2>3
  <2> QED
    BY <2>1, <2>4 DEF PairInv, OneOfTwo
<1>2. CASE given[p] = {}
  BY <1>2, FS_EmptySet
<1>3. CASE given[p] # {}
  <2>1. PICK d : given[p] = {d}
    BY <1>1, <1>3
  <2>2. Cardinality({d}) = 1
    BY FS_Singleton
  <2> QED
    BY <2>1, <2>2
<1> QED
  BY <1>2, <1>3

LEMMA PairsAlways == Spec => [](scene = "pairs" => PairInv)
<1> DEFINE I == scene = "pairs" => PairInv
<1>1. Init => I
  BY PairsBegin DEF Init
<1>2. I /\ [Next]_vars => I'
  BY SceneStays, PairsStep
<1> QED
  BY <1>1, <1>2, PTL DEF Spec

(* createOrGetConversation, for any number of users and of requests that     *)
(* overlap, from either of the two: they are given one conversation.         *)
THEOREM OneConversationForTwo == Spec => []OneConversation
<1>1. (scene = "pairs" => PairInv) => OneConversation
  BY OneWasGiven DEF OneConversation
<1> QED
  BY <1>1, PairsAlways, PTL

-----------------------------------------------------------------------------
(* A list agrees with the memberships: no one but members, nobody left out   *)
(* but those whose profile was not found, the owner and no one else as such. *)
Agree(l) ==
  \A p \in Users :
    /\ l.of[p] # None => member[p] # None
    /\ ~l.short /\ member[p] # None => l.of[p] # None
    /\ l.of[p] # None => (l.of[p] = "owner" <=> member[p] = "owner")

ListsTyped ==
  /\ member \in Members!Roster
  /\ list \in Members!List \cup {None}
  /\ listing \in [Readers -> Members!List \cup {None}]
  /\ change \in [Requests -> BOOLEAN]
ReadersAgree == \A r \in Readers : listing[r] # None /\ ~listing[r].behind => Agree(listing[r])
Settled == member # Members!Empty /\ \A c \in Requests : ~change[c]
CacheAgrees == list # None /\ ~list.behind /\ Settled => Agree(list)
ListInv == ListsTyped /\ ReadersAgree /\ CacheAgrees

LEMMA MembersBegin ==
  ASSUME Members!MemberListInit PROVE ListInv
BY DEF Members!MemberListInit, ListInv, ListsTyped, ReadersAgree, CacheAgrees, Members!List

(* What a listing in hand becomes when a membership changes.                 *)
Overtaken ==
  listing' = [r \in Readers |->
    IF listing[r] = None THEN None ELSE [listing[r] EXCEPT !.behind = TRUE]]

LEMMA ReadersOvertaken ==
  ASSUME ListsTyped, Overtaken
  PROVE  listing' \in [Readers -> Members!List \cup {None}] /\ ReadersAgree'
<1>1. ASSUME NEW r \in Readers, listing[r] # None
      PROVE  /\ [listing[r] EXCEPT !.behind = TRUE] \in Members!List
             /\ [listing[r] EXCEPT !.behind = TRUE].behind
  <2>1. listing[r] \in Members!List
    BY <1>1 DEF ListsTyped
  <2> QED
    BY <2>1 DEF Members!List
<1>2. \A r \in Readers : listing'[r] \in Members!List \cup {None}
  BY <1>1 DEF Overtaken
<1>3. listing' \in [Readers -> Members!List \cup {None}]
  BY <1>2 DEF Overtaken
<1>4. ReadersAgree'
  BY <1>1 DEF Overtaken, ReadersAgree
<1> QED
  BY <1>3, <1>4

LEMMA MembershipsRead ==
  ASSUME ListInv, NEW r \in Readers, Members!FindMemberships(r)
  PROVE  ListInv'
<1> DEFINE l == [of |-> member, behind |-> FALSE, short |-> FALSE]
<1>1. l \in Members!List /\ Agree(l)
  BY DEF ListInv, ListsTyped, Members!List, Agree
<1>2. listing' = [listing EXCEPT ![r] = l] /\ UNCHANGED <<member, list, change>>
  BY DEF Members!FindMemberships
<1> HIDE DEF l
<1>3. ListsTyped'
  BY <1>1, <1>2 DEF ListInv, ListsTyped
<1>4. ReadersAgree'
  BY <1>1, <1>2 DEF ListInv, ListsTyped, ReadersAgree, Agree
<1>5. CacheAgrees'
  BY <1>2 DEF ListInv, CacheAgrees, Settled, Agree
<1> QED
  BY <1>3, <1>4, <1>5 DEF ListInv

LEMMA ProfileLost ==
  ASSUME ListInv, NEW r \in Readers, NEW p \in Users, Members!EnrichFails(r, p)
  PROVE  ListInv'
<1> DEFINE l == [listing[r] EXCEPT !.of = [@ EXCEPT ![p] = None], !.short = TRUE]
<1>1. listing[r] \in Members!List
  BY DEF Members!EnrichFails, ListInv, ListsTyped
<1>2. /\ l \in Members!List /\ l.behind = listing[r].behind /\ l.short
      /\ l.of = [listing[r].of EXCEPT ![p] = None]
  BY <1>1 DEF Members!List, Members!Roster
<1>3. listing' = [listing EXCEPT ![r] = l] /\ UNCHANGED <<member, list, change>>
  BY DEF Members!EnrichFails
<1> HIDE DEF l
<1>4. \A q \in Users : l.of[q] = (IF q = p THEN None ELSE listing[r].of[q])
  BY <1>1, <1>2 DEF Members!List, Members!Roster
<1>5. ASSUME ~l.behind PROVE Agree(l)
  <2>1. Agree(listing[r])
    BY <1>2, <1>5 DEF ListInv, ReadersAgree, Members!EnrichFails
  <2> QED
    BY <1>2, <1>4, <2>1 DEF Agree
<1>6. ListsTyped'
  BY <1>2, <1>3 DEF ListInv, ListsTyped
<1>7. ReadersAgree'
  BY <1>3, <1>5 DEF ListInv, ListsTyped, ReadersAgree, Agree
<1>8. CacheAgrees'
  BY <1>3 DEF ListInv, CacheAgrees, Settled, Agree
<1> QED
  BY <1>6, <1>7, <1>8 DEF ListInv

LEMMA ListStored ==
  ASSUME ListInv, NEW r \in Readers, Members!StoreList(r)
  PROVE  ListInv'
<1>1. /\ listing[r] # None /\ list' = listing[r]
      /\ listing' = [listing EXCEPT ![r] = None] /\ UNCHANGED <<member, change>>
  BY DEF Members!StoreList
<1>2. ListsTyped'
  BY <1>1 DEF ListInv, ListsTyped
<1>3. ReadersAgree'
  BY <1>1 DEF ListInv, ListsTyped, ReadersAgree, Agree
<1>4. CacheAgrees'
  BY <1>1 DEF ListInv, ReadersAgree, CacheAgrees, Agree
<1> QED
  BY <1>2, <1>3, <1>4 DEF ListInv

(* A change that will drop the list, and until then is not settled.          *)
LEMMA ChangeIsHeard ==
  ASSUME ListInv, NEW c \in Requests, change' = [change EXCEPT ![c] = TRUE],
         list' = list, Overtaken, member' \in Members!Roster
  PROVE  ListInv'
<1>1. ListsTyped'
  BY ReadersOvertaken DEF ListInv, ListsTyped
<1>2. change'[c]
  BY DEF ListInv, ListsTyped
<1>3. CacheAgrees'
  BY <1>2 DEF CacheAgrees, Settled
<1> QED
  BY <1>1, <1>3, ReadersOvertaken DEF ListInv

LEMMA Committed ==
  ASSUME ListInv, NEW c \in Requests, NEW p \in Users, NEW role \in Members!Roles \cup {None},
         Members!Commit(c, p, role)
  PROVE  ListInv'
<1>1. member' = [member EXCEPT ![p] = role] /\ Overtaken
  BY DEF Members!Commit, Members!Changed, Overtaken
<1>2. member' \in Members!Roster
  BY <1>1 DEF ListInv, ListsTyped, Members!Roster
<1> QED
  BY <1>1, <1>2, ChangeIsHeard DEF Members!Commit

LEMMA Transferred ==
  ASSUME ListInv, NEW c \in Requests, NEW p \in Users, NEW q \in Users,
         Members!TransferOwnership(c, p, q)
  PROVE  ListInv'
<1>1. member' = [member EXCEPT ![p] = "member", ![q] = "owner"] /\ Overtaken
  BY DEF Members!TransferOwnership, Overtaken
<1>2. member' \in Members!Roster
  BY <1>1 DEF ListInv, ListsTyped, Members!Roster, Members!Roles
<1> QED
  BY <1>1, <1>2, ChangeIsHeard DEF Members!TransferOwnership

(* The list is not dropped: nobody comes, goes or becomes the owner.         *)
LEMMA RoleAssigned ==
  ASSUME ListInv, NEW p \in Users, NEW role \in Members!Roles, Members!AssignRole(p, role)
  PROVE  ListInv'
<1>1. /\ member' = [member EXCEPT ![p] = role] /\ Overtaken
      /\ member[p] \notin {"owner", None} /\ role \notin {"owner", None}
      /\ list' = list /\ change' = change
  BY NoneAssumption DEF Members!AssignRole, Members!Changed, Overtaken
<1>2. member' \in Members!Roster
  BY <1>1 DEF ListInv, ListsTyped, Members!Roster
<1>3. ListsTyped'
  BY <1>1, <1>2, ReadersOvertaken DEF ListInv, ListsTyped
<1>4. \A q \in Users : /\ member'[q] # None <=> member[q] # None
                       /\ member'[q] = "owner" <=> member[q] = "owner"
  BY <1>1 DEF ListInv, ListsTyped, Members!Roster
<1>5. member # Members!Empty
  BY <1>1 DEF Members!Empty
<1>6. CacheAgrees'
  BY <1>1, <1>4, <1>5 DEF ListInv, CacheAgrees, Settled, Agree
<1> QED
  BY <1>1, <1>3, <1>6, ReadersOvertaken DEF ListInv

LEMMA ServerRemoved ==
  ASSUME ListInv, Members!RemoveServer PROVE ListInv'
<1>1. member' = Members!Empty /\ Overtaken /\ list' = list /\ change' = change
  BY DEF Members!RemoveServer, Overtaken
<1>2. member' \in Members!Roster
  BY <1>1 DEF Members!Empty, Members!Roster
<1>3. ListsTyped'
  BY <1>1, <1>2, ReadersOvertaken DEF ListInv, ListsTyped
<1>4. CacheAgrees'
  BY <1>1 DEF CacheAgrees, Settled, Members!Empty
<1> QED
  BY <1>1, <1>3, <1>4, ReadersOvertaken DEF ListInv

(* The list is dropped, or left behind: nothing is claimed of it.            *)
LEMMA ListDropped ==
  ASSUME ListInv, UNCHANGED <<member, listing>>, change' \in [Requests -> BOOLEAN],
         \/ list' = None
         \/ list # None /\ list' = [list EXCEPT !.behind = TRUE]
  PROVE  ListInv'
<1>1. ASSUME list # None
      PROVE  [list EXCEPT !.behind = TRUE] \in Members!List /\ [list EXCEPT !.behind = TRUE].behind
  <2>1. list \in Members!List
    BY <1>1 DEF ListInv, ListsTyped
  <2> QED
    BY <2>1 DEF Members!List
<1>2. ListsTyped' /\ CacheAgrees'
  BY <1>1 DEF ListInv, ListsTyped, CacheAgrees
<1> QED
  BY <1>2 DEF ListInv, ReadersAgree, Agree

LEMMA MembersStep ==
  ASSUME scene = "members", ListInv, [Next]_vars
  PROVE  ListInv'
<1>1. Members!MemberListNext \/ UNCHANGED <<member, list, listing, change, changes>>
  BY DEF Next, vars, memberVars
<1>2. CASE UNCHANGED <<member, list, listing, change, changes>>
  BY <1>2 DEF ListInv, ListsTyped, ReadersAgree, CacheAgrees, Settled, Agree
<1>3. ASSUME NEW c \in Requests,
             Members!InvalidateMemberListCache(c) \/ Members!NotInvalidated(c)
      PROVE  ListInv'
  <2>1. change' \in [Requests -> BOOLEAN]
    BY <1>3 DEF Members!InvalidateMemberListCache, Members!NotInvalidated, ListInv, ListsTyped
  <2> QED
    BY <1>3, <2>1, ListDropped DEF Members!InvalidateMemberListCache, Members!NotInvalidated
<1>4. CASE Members!ListExpires
  BY <1>4, ListDropped DEF Members!ListExpires, ListInv, ListsTyped
<1>5. CASE Members!MemberListNext
  BY <1>3, <1>4, <1>5, MembershipsRead, ProfileLost, ListStored, Committed, Transferred,
     RoleAssigned, ServerRemoved DEF Members!MemberListNext
<1> QED
  BY <1>1, <1>2, <1>5

LEMMA CacheIsTrue ==
  ASSUME ListInv PROVE Members!ListTrue
BY DEF ListInv, CacheAgrees, Settled, Agree, Members!ListTrue, Members!Listed

LEMMA MembersAlways == Spec => [](scene = "members" => ListInv)
<1> DEFINE I == scene = "members" => ListInv
<1>1. Init => I
  BY MembersBegin DEF Init
<1>2. I /\ [Next]_vars => I'
  BY SceneStays, MembersStep
<1> QED
  BY <1>1, <1>2, PTL DEF Spec

(* getMembersInServer, for any number of people, listings and changes in     *)
(* flight: a list that a listing stored and no change has overtaken names    *)
(* the members, and the owner as the owner, once every change that was       *)
(* committed has dropped the list.                                           *)
THEOREM CachedListIsTrue == Spec => []ListTrue
<1>1. (scene = "members" => ListInv) => ListTrue
  BY CacheIsTrue DEF ListTrue
<1> QED
  BY <1>1, MembersAlways, PTL

-----------------------------------------------------------------------------
CallIds == Documents
Active == {"ringing", "connected"}

(* The gateway is not running: no call is calling.                           *)
RestTyped ==
  /\ call \in [CallIds -> Rest!CallDoc]
  /\ request \in [Requests -> Rest!Request \cup {None}]
  /\ alarm \in [CallIds -> {"unset", "set", "fired"}]
  /\ contended \subseteq CallIds /\ rushed \subseteq Users
NoneCalls == \A c \in CallIds : call[c].status # "calling"

(* Requests that hold one call contend for it, and starts of one user rush.  *)
Holds(r, c) == request[r] # None /\ request[r].found = c
Starts(r, u) == Rest!InHand(r, "start") /\ request[r].user = u
HoldersContend ==
  \A r, s \in Requests, c \in CallIds : Holds(r, c) /\ Holds(s, c) /\ r # s => c \in contended
StartersRush ==
  \A r, s \in Requests, u \in Users : Starts(r, u) /\ Starts(s, u) /\ r # s => u \in rushed
ContendedRush ==
  \A c \in contended : call[c].status # "none" /\ call[c].caller \in rushed

(* What a request has read still is: of the caller's other calls, unless he  *)
(* rushed, and of its own call, unless it is contended, or is one to hang up *)
(* that the 30 s callback may have ended.                                    *)
Idle(u) == \A c \in CallIds : ~(call[c].caller = u /\ call[c].status \in Active)
Awaits(op, status) ==
  IF op = "end" THEN status \in {"connected", "ended"} ELSE status = "ringing"
StillAsRead(r) ==
  /\ Rest!InHand(r, "start") /\ request[r].user \notin rushed => Idle(request[r].user)
  /\ request[r] # None /\ request[r].op # "start" =>
       LET c == request[r].found IN
       /\ c \in CallIds /\ call[c].status # "none"
       /\ c \notin contended => Awaits(request[r].op, call[c].status)
RestInv ==
  /\ RestTyped /\ NoneCalls /\ HoldersContend /\ StartersRush /\ ContendedRush
  /\ \A r \in Requests : StillAsRead(r)
  /\ Rest!CallerHasOneCall

(* The status of a call that exists is another, and the rest is as it was.   *)
LEMMA StatusSet ==
  ASSUME RestTyped, NEW c \in CallIds, NEW s \in Rest!Status, Rest!SetStatus(c, s)
  PROVE  /\ call' \in [CallIds -> Rest!CallDoc]
         /\ call'[c].status = s /\ call'[c].caller = call[c].caller
         /\ \A d \in CallIds : d # c => call'[d] = call[d]
<1>1. call[c] \in Rest!CallDoc
  BY DEF RestTyped
<1> QED
  BY <1>1 DEF RestTyped, Rest!SetStatus, Rest!CallDoc

(* What a step of the service may do to the status of a call.                *)
Moves(from, to) ==
  \/ from = "none" /\ to = "ringing"
  \/ from = "ringing" /\ to \in {"connected", "declined"}
  \/ from \in {"connected", "ended"} /\ to = "ended"

(* Such a step is one of CallLifecycle.                                      *)
LEMMA MoveIsTold ==
  ASSUME call \in [CallIds -> Rest!CallDoc], NEW c \in CallIds,
         Moves(call[c].status, call'[c].status),
         \A d \in CallIds : d # c => call'[d] = call[d]
  PROVE  Rest!MovesOn
<1> DEFINE from == Rest!RestPhase[c]
           to == Rest!RestPhase'[c]
<1>1. Rest!RestPhase' = [Rest!RestPhase EXCEPT ![c] = to]
  BY DEF Rest!RestPhase, CallIds
<1>2. \/ from = "none" /\ to = "calling"
      \/ from = "calling" /\ to \in {"connected", "declined"}
      \/ from \in {"connected", "ended"} /\ to = "ended"
  BY DEF Rest!RestPhase, Moves, CallIds
<1> HIDE DEF from, to
<1>3. \/ Rest!Story!Ring(c) \/ Rest!Story!Answer(c) \/ Rest!Story!Decline(c)
      \/ Rest!Story!HangUp(c) \/ Rest!Story!MarkAgain(c)
  BY <1>1, <1>2 DEF Rest!Story!Ring, Rest!Story!Answer, Rest!Story!Decline, Rest!Story!HangUp,
     Rest!Story!MarkAgain, Rest!Story!Move, Rest!Finished, from
<1> QED
  BY <1>3 DEF Rest!MovesOn, Rest!Story!Next, Rest!Story!StopRinging, CallIds

(* A save of a contended call, whatever the call has come to meanwhile.      *)
LEMMA LateIsTold ==
  ASSUME call \in [CallIds -> Rest!CallDoc], NEW c \in contended, c \in CallIds,
         call[c].status \notin {"none", "calling"},
         call'[c].status \in {"connected", "declined", "ended"},
         \A d \in CallIds : d # c => call'[d] = call[d]
  PROVE  Rest!MovesOn
<1> DEFINE from == Rest!RestPhase[c]
           to == Rest!RestPhase'[c]
<1>1. Rest!RestPhase' = [Rest!RestPhase EXCEPT ![c] = to]
  BY DEF Rest!RestPhase, CallIds
<1>2. /\ from \in Rest!Finished \cup {"calling", "connected"}
      /\ to \in {"connected", "declined", "ended"}
  BY DEF Rest!RestPhase, Rest!Finished, Rest!CallDoc, Rest!Status, CallIds
<1> HIDE DEF to
<1>3. Rest!LateSave(c)
  BY <1>1, <1>2 DEF Rest!LateSave, Rest!Story!Move
<1> QED
  BY <1>3 DEF Rest!MovesOn

LEMMA CallsRest ==
  ASSUME UNCHANGED call PROVE Rest!MovesOn
BY DEF Rest!MovesOn, Rest!RestPhase

LEMMA RestBegins ==
  ASSUME Rest!RestAloneInit PROVE RestInv
BY DEF Rest!RestAloneInit, Rest!CallsInit, Rest!RestInit, RestInv, RestTyped, NoneCalls,
   HoldersContend, StartersRush, ContendedRush, Holds, Starts, StillAsRead, Rest!InHand,
   Rest!CallerHasOneCall, Rest!CallDoc, Rest!Status, CallIds

(* A request begins with what it has read; it may meet others.               *)
LEMMA RequestBegins ==
  ASSUME RestInv, NEW r \in Requests, NEW q \in Rest!Request, Rest!Enter(r, q),
         q.op = "start" => q.found \notin CallIds /\ Idle(q.user),
         q.op # "start" => q.found \in CallIds /\ call[q.found].status # "none"
                             /\ Awaits(q.op, call[q.found].status)
  PROVE  RestInv' /\ Rest!MovesOn
<1>1. /\ request[r] = None
      /\ request' = [request EXCEPT ![r] = q] /\ UNCHANGED <<call, alarm>>
  BY DEF Rest!Enter
<1>2. /\ request'[r] = q /\ \A s \in Requests : s # r => request'[s] = request[s]
      /\ request' \in [Requests -> Rest!Request \cup {None}]
  BY <1>1 DEF RestInv, RestTyped
<1>3. /\ contended \subseteq contended' /\ rushed \subseteq rushed'
      /\ contended' \subseteq CallIds /\ rushed' \subseteq Users
      /\ \A c \in contended' : c \in contended \/ (c = q.found /\ call[c].caller \in rushed')
      /\ \A s \in Requests, c \in CallIds : Holds(s, c) /\ c = q.found => c \in contended'
      /\ \A s \in Requests, u \in Users :
           Starts(s, u) /\ q.op = "start" /\ q.user = u => u \in rushed'
  <2> DEFINE doubled == {c \in CallIds : c = q.found /\ Rest!Holders(c) # {}}
  <2>1. /\ contended' = contended \cup doubled
        /\ rushed' = rushed \cup {call[c].caller : c \in doubled}
             \cup {u \in Users : q.op = "start" /\ q.user = u /\ Rest!Starting(u) # {}}
    BY DEF Rest!Enter, CallIds
  <2>2. \A c \in CallIds : call[c].caller \in Users
    BY DEF RestInv, RestTyped, Rest!CallDoc
  <2>3. \A s \in Requests, c \in CallIds : Holds(s, c) /\ c = q.found => c \in doubled
    BY DEF Holds, Rest!Holders
  <2>4. \A s \in Requests, u \in Users : Starts(s, u) => Rest!Starting(u) # {}
    BY DEF Starts, Rest!Starting
  <2>5. doubled \subseteq CallIds /\ \A c \in doubled : c = q.found
    OBVIOUS
  <2>6. contended \subseteq CallIds /\ rushed \subseteq Users
    BY DEF RestInv, RestTyped
  <2> HIDE DEF doubled
  <2> QED
    BY <2>1, <2>2, <2>3, <2>4, <2>5, <2>6
<1>4. RestTyped' /\ NoneCalls'
  BY <1>1, <1>2, <1>3 DEF RestInv, RestTyped, NoneCalls
<1>5. HoldersContend'
  <2> SUFFICES ASSUME NEW s \in Requests, NEW t \in Requests, NEW c \in CallIds,
                      Holds(s, c)', Holds(t, c)', s # t
               PROVE  c \in contended'
    BY DEF HoldersContend
  <2> QED
    BY <1>2, <1>3 DEF RestInv, HoldersContend, Holds
<1>6. StartersRush'
  <2> SUFFICES ASSUME NEW s \in Requests, NEW t \in Requests, NEW u \in Users,
                      Starts(s, u)', Starts(t, u)', s # t
               PROVE  u \in rushed'
    BY DEF StartersRush
  <2> QED
    BY <1>2, <1>3 DEF RestInv, StartersRush, Starts, Rest!InHand
<1>8. ContendedRush'
  BY <1>1, <1>3 DEF RestInv, ContendedRush
<1>9. \A s \in Requests : StillAsRead(s)'
  BY <1>1, <1>2, <1>3 DEF RestInv, StillAsRead, Idle, Rest!InHand
<1>10. Rest!CallerHasOneCall'
  BY <1>1, <1>3 DEF RestInv, Rest!CallerHasOneCall
<1>11. Rest!MovesOn
  BY <1>1, CallsRest
<1> QED
  BY <1>4, <1>5, <1>6, <1>8, <1>9, <1>10, <1>11 DEF RestInv

LEMMA ClientAsks ==
  ASSUME RestInv, NEW r \in Requests, Rest!RestClient(r)
  PROVE  RestInv' /\ Rest!MovesOn
<1>1. PICK u \in Users, peer \in Users :
        \/ Rest!RestStart(r, u, peer)
        \/ \E op \in {"accept", "decline"} : Rest!RestAnswer(r, op, u, peer)
        \/ Rest!RestEnd(r, u, peer)
  BY DEF Rest!RestClient
<1>2. CASE Rest!RestStart(r, u, peer)
  <2> DEFINE q == [op |-> "start", user |-> u, peer |-> peer, found |-> None]
  <2>1. q \in Rest!Request /\ q.op = "start" /\ q.user = u /\ q.found = None
    BY DEF Rest!Request
  <2>2. Idle(u)
    BY <1>2 DEF Rest!RestStart, Rest!CheckAntiAbuse, CallIds, Active, Idle
  <2>3. Rest!Enter(r, q)
    BY <1>2 DEF Rest!RestStart
  <2>4. None \notin CallIds
    BY NoneAssumption DEF CallIds
  <2> HIDE DEF q
  <2> QED
    BY <2>1, <2>2, <2>3, <2>4, RequestBegins
<1>3. ASSUME NEW op \in {"accept", "decline"}, Rest!RestAnswer(r, op, u, peer)
      PROVE  RestInv' /\ Rest!MovesOn
  <2>1. PICK c \in Rest!InConversation({u, peer}, {"ringing"}) :
          Rest!Enter(r, [op |-> op, user |-> u, peer |-> peer, found |-> c])
    BY <1>3 DEF Rest!RestAnswer
  <2> DEFINE q == [op |-> op, user |-> u, peer |-> peer, found |-> c]
  <2>2. c \in CallIds /\ call[c].status = "ringing"
    BY DEF Rest!InConversation, CallIds
  <2>3. q \in Rest!Request /\ q.op = op /\ q.found = c
    BY <2>2 DEF Rest!Request, CallIds
  <2>4. Rest!Enter(r, q)
    BY <2>1
  <2>5. op # "start" /\ Awaits(op, call[c].status)
    BY <2>2 DEF Awaits
  <2> HIDE DEF q
  <2> QED
    BY <2>2, <2>3, <2>4, <2>5, RequestBegins
<1>4. CASE Rest!RestEnd(r, u, peer)
  <2>1. PICK c \in Rest!InConversation({u, peer}, {"connected"}) :
          Rest!Enter(r, [op |-> "end", user |-> u, peer |-> peer, found |-> c])
    BY <1>4 DEF Rest!RestEnd
  <2> DEFINE q == [op |-> "end", user |-> u, peer |-> peer, found |-> c]
  <2>2. c \in CallIds /\ call[c].status = "connected"
    BY DEF Rest!InConversation, CallIds
  <2>3. q \in Rest!Request /\ q.op = "end" /\ q.found = c
    BY <2>2 DEF Rest!Request, CallIds
  <2>4. Rest!Enter(r, q)
    BY <2>1
  <2>5. Awaits("end", call[c].status)
    BY <2>2 DEF Awaits
  <2> HIDE DEF q
  <2> QED
    BY <2>2, <2>3, <2>4, <2>5, RequestBegins
<1> QED
  BY <1>1, <1>2, <1>3, <1>4

(* The others go on with what they have, and still contend for it.           *)
LEMMA RequestLeaves ==
  ASSUME RestInv, NEW r \in Requests, request[r] # None, Rest!Leave(r)
  PROVE  /\ request' \in [Requests -> Rest!Request \cup {None}]
         /\ request'[r] = None /\ \A s \in Requests : s # r => request'[s] = request[s]
         /\ contended' \subseteq contended /\ rushed' = rushed
         /\ \A s \in Requests, c \in contended : Holds(s, c)' => c \in contended'
         /\ HoldersContend' /\ StartersRush'
<1>1. /\ request' \in [Requests -> Rest!Request \cup {None}]
      /\ request'[r] = None /\ \A s \in Requests : s # r => request'[s] = request[s]
  BY DEF Rest!Leave, RestInv, RestTyped
<1>2. contended' \subseteq contended /\ rushed' = rushed
  BY DEF Rest!Leave
<1>3. \A s \in Requests, c \in contended : Holds(s, c)' => c \in contended'
  BY <1>1 DEF Rest!Leave, Rest!Holders, Holds
<1>4. HoldersContend'
  BY <1>1, <1>3 DEF RestInv, HoldersContend, Holds
<1>5. StartersRush'
  BY <1>1, <1>2 DEF RestInv, StartersRush, Starts, Rest!InHand
<1> QED
  BY <1>1, <1>2, <1>3, <1>4, <1>5

LEMMA CallStarted ==
  ASSUME RestInv, NEW r \in Requests, Rest!RestStartSave(r)
  PROVE  RestInv' /\ Rest!MovesOn
<1> DEFINE d == [status |-> "ringing", caller |-> request[r].user, callee |-> request[r].peer]
<1>1. request[r] \in Rest!Request /\ Rest!InHand(r, "start") /\ request[r] # None
  BY DEF Rest!RestStartSave, Rest!InHand, RestInv, RestTyped
<1>2. /\ d \in Rest!CallDoc /\ d.status = "ringing" /\ d.caller = request[r].user
      /\ d.caller \in Users
  BY <1>1 DEF Rest!Request, Rest!CallDoc, Rest!Status
<1>3. PICK c \in Rest!Unborn :
        call' = [call EXCEPT ![c] = d] /\ alarm' = [alarm EXCEPT ![c] = "set"]
  BY DEF Rest!RestStartSave
<1>4. c \in CallIds /\ call[c].status = "none"
  BY DEF Rest!Unborn, CallIds
<1> HIDE DEF d
<1>5. /\ request' \in [Requests -> Rest!Request \cup {None}]
      /\ request'[r] = None /\ \A s \in Requests : s # r => request'[s] = request[s]
      /\ contended' \subseteq contended /\ rushed' = rushed
      /\ \A s \in Requests, e \in contended : Holds(s, e)' => e \in contended'
      /\ HoldersContend' /\ StartersRush'
  BY <1>1, RequestLeaves DEF Rest!RestStartSave
<1>6. RestTyped'
  BY <1>2, <1>3, <1>4, <1>5 DEF RestInv, RestTyped
<1>7. call'[c] = d /\ \A e \in CallIds : e # c => call'[e] = call[e]
  BY <1>3, <1>4 DEF RestInv, RestTyped
<1>8. NoneCalls' /\ ContendedRush'
  BY <1>2, <1>4, <1>5, <1>7 DEF RestInv, NoneCalls, ContendedRush, RestTyped, CallIds
<1>9. d.caller \notin rushed => Idle(d.caller)
  BY <1>1, <1>2 DEF RestInv, StillAsRead
<1>10. ASSUME NEW s \in Requests PROVE StillAsRead(s)'
  <2>1. CASE s = r
    BY <1>5, <2>1 DEF StillAsRead, Rest!InHand
  <2>2. CASE s # r
    <3>1. StillAsRead(s) /\ request'[s] = request[s]
      BY <1>5, <2>2 DEF RestInv
    <3>2. ASSUME Rest!InHand(s, "start"), request[s].user \notin rushed
          PROVE  Idle(request[s].user)'
      <4>1. request[s].user # d.caller
        BY <1>1, <1>2, <2>2, <3>2 DEF RestInv, StartersRush, Starts
      <4> QED
        BY <1>7, <3>1, <3>2, <4>1 DEF StillAsRead, Idle
    <3>3. ASSUME request[s] # None, request[s].op # "start", NEW e, e = request[s].found
          PROVE  /\ e \in CallIds /\ call'[e].status # "none"
                 /\ e \notin contended' => Awaits(request[s].op, call'[e].status)
      <4>1. e \in CallIds /\ call[e].status # "none" /\ call'[e] = call[e]
        BY <1>4, <1>7, <3>1, <3>3 DEF StillAsRead
      <4>2. e \in contended => e \in contended'
        BY <1>5, <3>1, <3>3 DEF Holds
      <4> QED
        BY <3>1, <3>3, <4>1, <4>2 DEF StillAsRead
    <3> QED
      BY <1>5, <3>1, <3>2, <3>3 DEF StillAsRead, Rest!InHand
  <2> QED
    BY <2>1, <2>2
<1>11. Rest!CallerHasOneCall'
  BY <1>2, <1>5, <1>7, <1>8, <1>9
  DEF RestInv, NoneCalls, Rest!CallerHasOneCall, Idle, Active, CallIds
<1>12. Rest!MovesOn
  BY <1>2, <1>4, <1>7, MoveIsTold DEF Moves, RestInv, RestTyped
<1> QED
  BY <1>5, <1>6, <1>8, <1>10, <1>11, <1>12 DEF RestInv

(* A status saved of a call: one it may move to, or any if it is contended.  *)
LEMMA StatusMovesOn ==
  ASSUME RestInv, NEW c \in CallIds, NEW s \in {"connected", "declined", "ended"},
         Rest!SetStatus(c, s), call[c].status # "none",
         c \notin contended => Moves(call[c].status, s)
  PROVE  /\ call' \in [CallIds -> Rest!CallDoc] /\ NoneCalls' /\ Rest!MovesOn
         /\ call'[c].status = s /\ call'[c].caller = call[c].caller
         /\ \A d \in CallIds : d # c => call'[d] = call[d]
         /\ \A u \in Users : u \notin rushed /\ Idle(u) => Idle(u)'
         /\ rushed' = rushed => Rest!CallerHasOneCall'
<1>1. /\ call' \in [CallIds -> Rest!CallDoc]
      /\ call'[c].status = s /\ call'[c].caller = call[c].caller
      /\ \A d \in CallIds : d # c => call'[d] = call[d]
  BY StatusSet DEF RestInv, Rest!Status
<1>2. NoneCalls'
  BY <1>1 DEF RestInv, NoneCalls, CallIds
<1>3. \A d \in CallIds :
        /\ call'[d].caller = call[d].caller
        /\ call'[d].status \in Active /\ call[d].caller \notin rushed => call[d].status \in Active
  BY <1>1 DEF RestInv, ContendedRush, Moves, Active
<1>4. \A u \in Users : u \notin rushed /\ Idle(u) => Idle(u)'
  BY <1>3 DEF Idle
<1>5. rushed' = rushed => Rest!CallerHasOneCall'
  BY <1>2, <1>3 DEF RestInv, NoneCalls, Rest!CallerHasOneCall, Active, CallIds
<1>6. CASE c \notin contended
  BY <1>1, <1>2, <1>4, <1>5, <1>6, MoveIsTold DEF RestInv, RestTyped
<1>7. CASE c \in contended
  <2>1. call[c].status \notin {"none", "calling"}
    BY DEF RestInv, NoneCalls
  <2> QED
    BY <1>1, <1>2, <1>4, <1>5, <1>7, <2>1, LateIsTold DEF RestInv, RestTyped
<1> QED
  BY <1>6, <1>7

LEMMA AnswerSaved ==
  ASSUME RestInv, NEW r \in Requests, Rest!RestSave(r)
  PROVE  RestInv' /\ Rest!MovesOn
<1>1. PICK op \in {"accept", "decline", "end"} :
        Rest!InHand(r, op) /\ Rest!SetStatus(request[r].found, Rest!Outcome(op))
  BY DEF Rest!RestSave
<1> DEFINE c == request[r].found
           s == Rest!Outcome(op)
<1>2. request[r] # None /\ request[r].op = op /\ StillAsRead(r)
  BY <1>1 DEF RestInv, Rest!InHand
<1>3. /\ c \in CallIds /\ call[c].status # "none"
      /\ c \notin contended => Awaits(op, call[c].status)
  BY <1>2 DEF StillAsRead
<1>4. s = IF op = "accept" THEN "connected" ELSE IF op = "decline" THEN "declined" ELSE "ended"
  BY DEF Rest!Outcome
<1>5. Rest!SetStatus(c, s) /\ Holds(r, c)
  BY <1>1, <1>2 DEF Holds
<1> HIDE DEF c, s
<1>6. s \in {"connected", "declined", "ended"} /\ (c \notin contended => Moves(call[c].status, s))
  BY <1>3, <1>4 DEF Moves, Awaits
<1>7. /\ call' \in [CallIds -> Rest!CallDoc] /\ NoneCalls' /\ Rest!MovesOn
      /\ call'[c].status = s /\ call'[c].caller = call[c].caller
      /\ \A d \in CallIds : d # c => call'[d] = call[d]
      /\ \A u \in Users : u \notin rushed /\ Idle(u) => Idle(u)'
      /\ rushed' = rushed => Rest!CallerHasOneCall'
  BY <1>3, <1>5, <1>6, StatusMovesOn
<1>8. /\ request' \in [Requests -> Rest!Request \cup {None}]
      /\ request'[r] = None /\ \A t \in Requests : t # r => request'[t] = request[t]
      /\ contended' \subseteq contended /\ rushed' = rushed
      /\ \A t \in Requests, e \in contended : Holds(t, e)' => e \in contended'
      /\ HoldersContend' /\ StartersRush'
  BY <1>2, RequestLeaves DEF Rest!RestSave
<1>9. alarm' = alarm
  BY DEF Rest!RestSave
<1>10. RestTyped'
  BY <1>7, <1>8, <1>9 DEF RestInv, RestTyped
<1>11. ContendedRush'
  BY <1>3, <1>6, <1>7, <1>8 DEF RestInv, RestTyped, ContendedRush
<1>12. ASSUME NEW t \in Requests PROVE StillAsRead(t)'
  <2>1. CASE t = r
    BY <1>8, <2>1 DEF StillAsRead, Rest!InHand
  <2>2. CASE t # r
    <3>1. StillAsRead(t) /\ request'[t] = request[t] /\ request[t] \in Rest!Request \cup {None}
      BY <1>8, <2>2 DEF RestInv, RestTyped
    <3>2. ASSUME Rest!InHand(t, "start"), request[t].user \notin rushed
          PROVE  Idle(request[t].user)'
      <4>1. PICK u \in Users : u = request[t].user
        BY <3>1, <3>2 DEF Rest!InHand, Rest!Request
      <4>2. Idle(u)'
        BY <1>7, <3>1, <3>2, <4>1 DEF StillAsRead
      <4> QED
        BY <3>1, <4>1, <4>2 DEF Idle
    <3>3. ASSUME request[t] # None, request[t].op # "start", NEW e, e = request[t].found
          PROVE  /\ e \in CallIds /\ call'[e].status # "none"
                 /\ e \notin contended' => Awaits(request[t].op, call'[e].status)
      <4>1. e \in CallIds /\ call[e].status # "none"
        BY <3>1, <3>3 DEF StillAsRead
      <4>2. Holds(t, e) /\ Holds(t, e)'
        BY <3>1, <3>3 DEF Holds
      <4>3. e \in contended => e \in contended'
        BY <1>8, <4>2
      <4>4. e = c => e \in contended
        BY <1>3, <1>5, <2>2, <4>2 DEF RestInv, HoldersContend
      <4> QED
        BY <1>6, <1>7, <3>1, <3>3, <4>1, <4>3, <4>4 DEF StillAsRead
    <3> QED
      BY <1>8, <3>1, <3>2, <3>3 DEF StillAsRead, Rest!InHand
  <2> QED
    BY <2>1, <2>2
<1> QED
  BY <1>7, <1>8, <1>10, <1>11, <1>12 DEF RestInv

LEMMA RequestFails ==
  ASSUME RestInv, NEW r \in Requests, Rest!RestFail(r)
  PROVE  RestInv' /\ Rest!MovesOn
<1>1. UNCHANGED <<call, alarm>>
  BY DEF Rest!RestFail
<1>2. /\ request' \in [Requests -> Rest!Request \cup {None}]
      /\ request'[r] = None /\ \A s \in Requests : s # r => request'[s] = request[s]
      /\ contended' \subseteq contended /\ rushed' = rushed
      /\ \A s \in Requests, c \in contended : Holds(s, c)' => c \in contended'
      /\ HoldersContend' /\ StartersRush'
  BY RequestLeaves DEF Rest!RestFail
<1>3. ASSUME NEW s \in Requests PROVE StillAsRead(s)'
  <2>1. CASE s = r
    BY <1>2, <2>1 DEF StillAsRead, Rest!InHand
  <2>2. CASE s # r
    <3>1. StillAsRead(s) /\ request'[s] = request[s]
      BY <1>2, <2>2 DEF RestInv
    <3>2. request[s] # None /\ request[s].op # "start" /\ request[s].found \in contended
            => request[s].found \in contended'
      BY <1>2, <3>1 DEF Holds
    <3> QED
      BY <1>1, <1>2, <3>1, <3>2 DEF StillAsRead, Rest!InHand, Idle
  <2> QED
    BY <2>1, <2>2
<1>4. RestTyped' /\ NoneCalls' /\ ContendedRush' /\ Rest!CallerHasOneCall'
  BY <1>1, <1>2 DEF RestInv, RestTyped, NoneCalls, ContendedRush, Rest!CallerHasOneCall
<1> QED
  BY <1>1, <1>2, <1>3, <1>4, CallsRest DEF RestInv

(* What the callback ends, if anything, is a call that had been answered.    *)
LEMMA AlarmGoesOff ==
  ASSUME RestInv, NEW c \in CallIds, Rest!AlarmFire(c)
  PROVE  RestInv' /\ Rest!MovesOn
<1>1. /\ alarm' \in [CallIds -> {"unset", "set", "fired"}]
      /\ UNCHANGED <<request, contended, rushed>>
  BY DEF Rest!AlarmFire, RestInv, RestTyped
<1>2. HoldersContend' /\ StartersRush'
  BY <1>1 DEF RestInv, HoldersContend, StartersRush, Holds, Starts, Rest!InHand
<1>3. CASE UNCHANGED call
  BY <1>1, <1>2, <1>3, CallsRest DEF RestInv, RestTyped, NoneCalls, ContendedRush, StillAsRead,
     Idle, Rest!InHand, Rest!CallerHasOneCall
<1>4. CASE \E d \in Rest!InConversation(c, {"connected"}) : Rest!SetStatus(d, "ended")
  <2>1. PICK d \in Rest!InConversation(c, {"connected"}) : Rest!SetStatus(d, "ended")
    BY <1>4
  <2>2. d \in CallIds /\ call[d].status = "connected"
    BY DEF Rest!InConversation, CallIds
  <2>3. Moves(call[d].status, "ended")
    BY <2>2 DEF Moves
  <2>4. /\ call' \in [CallIds -> Rest!CallDoc] /\ NoneCalls' /\ Rest!MovesOn
        /\ call'[d].status = "ended" /\ call'[d].caller = call[d].caller
        /\ \A e \in CallIds : e # d => call'[e] = call[e]
        /\ \A u \in Users : u \notin rushed /\ Idle(u) => Idle(u)'
        /\ rushed' = rushed => Rest!CallerHasOneCall'
    BY <2>1, <2>2, <2>3, StatusMovesOn
  <2>5. RestTyped' /\ ContendedRush'
    BY <1>1, <2>4 DEF RestInv, RestTyped, ContendedRush
  <2>6. ASSUME NEW r \in Requests PROVE StillAsRead(r)'
    <3>1. StillAsRead(r) /\ request[r] \in Rest!Request \cup {None}
      BY DEF RestInv, RestTyped
    <3>2. ASSUME Rest!InHand(r, "start"), request[r].user \notin rushed
          PROVE  Idle(request[r].user)'
      <4>1. PICK u \in Users : u = request[r].user
        BY <3>1, <3>2 DEF Rest!InHand, Rest!Request
      <4>2. Idle(u)'
        BY <2>4, <3>1, <3>2, <4>1 DEF StillAsRead
      <4> QED
        BY <1>1, <4>1, <4>2 DEF Idle
    <3>3. ASSUME request[r] # None, request[r].op # "start", NEW e, e = request[r].found
          PROVE  /\ e \in CallIds /\ call'[e].status # "none"
                 /\ e \notin contended => Awaits(request[r].op, call'[e].status)
      BY <2>2, <2>4, <3>1, <3>3 DEF StillAsRead, Awaits
    <3> QED
      BY <1>1, <3>2, <3>3 DEF StillAsRead, Rest!InHand
  <2> QED
    BY <1>1, <1>2, <2>4, <2>5, <2>6 DEF RestInv
<1> QED
  BY <1>3, <1>4 DEF Rest!AlarmFire

LEMMA RestStep ==
  ASSUME scene = "rest", RestInv, [Next]_vars
  PROVE  RestInv' /\ Rest!MovesOn
<1>1. Rest!RestNext \/ UNCHANGED restVars
  BY DEF Next, vars
<1>2. CASE UNCHANGED restVars
  <2>1. UNCHANGED <<call, request, alarm, contended, rushed>>
    BY <1>2 DEF restVars
  <2> QED
    BY <2>1, CallsRest DEF RestInv, RestTyped, NoneCalls, HoldersContend, StartersRush,
       ContendedRush, Holds, Starts, StillAsRead, Idle, Rest!InHand, Rest!CallerHasOneCall
<1>3. CASE Rest!RestNext
  BY <1>3, ClientAsks, CallStarted, AnswerSaved, RequestFails, AlarmGoesOff
  DEF Rest!RestNext, Rest!RestWork, CallIds
<1> QED
  BY <1>1, <1>2, <1>3

LEMMA RestAlways == Spec => [](scene = "rest" => RestInv)
<1>1. Init => (scene = "rest" => RestInv)
  BY RestBegins DEF Init
<1>2. (scene = "rest" => RestInv) /\ [Next]_vars => (scene = "rest" => RestInv)'
  BY SceneStays, RestStep
<1> QED
  BY <1>1, <1>2, PTL DEF Spec

(* DirectCallService, for any number of users, calls and requests in flight  *)
(* together: nobody is the caller of two active calls whose starts did not   *)
(* meet between checkAntiAbuse and save, and of whose calls none was held by *)
(* two requests at once.                                                     *)
THEOREM OneCallOfACaller == Spec => []CallerHasOneCall
<1>1. (scene = "rest" => RestInv) => CallerHasOneCall
  BY DEF RestInv, CallerHasOneCall
<1> QED
  BY <1>1, RestAlways, PTL

(* DirectCallService, for any number of users, calls and requests in flight  *)
(* together, startCall, acceptCall, declineCall and endCall saving what they *)
(* decided on an earlier read, and whatever the 30 s callbacks do: every     *)
(* document goes through the states of CallLifecycle, but for late saves of  *)
(* requests that held it together.  Whatever such a save made of it, none    *)
(* comes once they have been answered.                                       *)
THEOREM RestFollowsLifecycle ==
  Spec => (scene = "rest" => Rest!Story!Init) /\ CallsMoveOn
<1>1. (scene = "rest" => RestInv) /\ [Next]_vars => [scene = "rest" => Rest!MovesOn]_vars
  BY RestStep
<1>2. Init => (scene = "rest" => Rest!Story!Init)
  BY DEF Init, Rest!RestAloneInit, Rest!CallsInit, Rest!Story!Init, Rest!RestPhase
<1> QED
  BY <1>1, <1>2, RestAlways, PTL DEF Spec, CallsMoveOn

-----------------------------------------------------------------------------
(* What UploadsProofs proves of the uploads, of those of the scene.  Its     *)
(* Uploads are the scene's, definition by definition.                        *)
FilesIn == INSTANCE UploadsProofs WITH Uploads <- Requests \cup {r3}

LEMMA SameUploads ==
  ASSUME Files!UploadsNext PROVE FilesIn!UploadsNext
<1>1. ASSUME NEW u, NEW c, Files!HandleUpload(u, c) PROVE FilesIn!HandleUpload(u, c)
  BY <1>1 DEF Files!HandleUpload, FilesIn!HandleUpload
<1>2. ASSUME NEW u, Files!FindExisting(u) PROVE FilesIn!FindExisting(u)
  BY <1>2 DEF Files!FindExisting, FilesIn!FindExisting,
     Files!At, FilesIn!At, Files!Content, FilesIn!Content, Files!Go, FilesIn!Go,
     Files!Known, FilesIn!Known
<1>3. ASSUME NEW u, Files!AcquireLock(u) PROVE FilesIn!AcquireLock(u)
  BY <1>3 DEF Files!AcquireLock, FilesIn!AcquireLock,
     Files!At, FilesIn!At, Files!Content, FilesIn!Content, Files!Go, FilesIn!Go,
     Files!Known, FilesIn!Known
<1>4. ASSUME NEW u, Files!GiveUpLock(u) PROVE FilesIn!GiveUpLock(u)
  BY <1>4 DEF Files!GiveUpLock, FilesIn!GiveUpLock,
     Files!At, FilesIn!At, Files!Content, FilesIn!Content, Files!Go, FilesIn!Go,
     Files!Known, FilesIn!Known
<1>5. ASSUME NEW u, Files!Recheck(u) PROVE FilesIn!Recheck(u)
  BY <1>5 DEF Files!Recheck, FilesIn!Recheck,
     Files!At, FilesIn!At, Files!Content, FilesIn!Content, Files!Go, FilesIn!Go,
     Files!Known, FilesIn!Known
<1>6. ASSUME NEW u, Files!AddFile(u) PROVE FilesIn!AddFile(u)
  BY <1>6 DEF Files!AddFile, FilesIn!AddFile,
     Files!At, FilesIn!At, Files!Content, FilesIn!Content, Files!Go, FilesIn!Go,
     Files!Known, FilesIn!Known
<1>7. ASSUME NEW u, Files!ReleaseLock(u) PROVE FilesIn!ReleaseLock(u)
  BY <1>7 DEF Files!ReleaseLock, FilesIn!ReleaseLock,
     Files!At, FilesIn!At, Files!Content, FilesIn!Content, Files!Go, FilesIn!Go,
     Files!Known, FilesIn!Known
<1>8. ASSUME NEW u, Files!DedupeFails(u) PROVE FilesIn!DedupeFails(u)
  BY <1>8 DEF Files!DedupeFails, FilesIn!DedupeFails,
     Files!At, FilesIn!At, Files!Content, FilesIn!Content, Files!Go, FilesIn!Go,
     Files!Known, FilesIn!Known
<1>9. ASSUME NEW u, Files!AddAgain(u) PROVE FilesIn!AddAgain(u)
  BY <1>9 DEF Files!AddAgain, FilesIn!AddAgain,
     Files!At, FilesIn!At, Files!Content, FilesIn!Content, Files!Go, FilesIn!Go,
     Files!Known, FilesIn!Known
<1>10. ASSUME NEW u, Files!CreateDocument(u) PROVE FilesIn!CreateDocument(u)
  BY <1>10 DEF Files!CreateDocument, FilesIn!CreateDocument,
     Files!At, FilesIn!At, Files!Content, FilesIn!Content, Files!Go, FilesIn!Go,
     Files!Known, FilesIn!Known
<1>11. ASSUME NEW c, Files!LockExpires(c) PROVE FilesIn!LockExpires(c)
  BY <1>11 DEF Files!LockExpires, FilesIn!LockExpires
<1> QED
  BY <1>1, <1>2, <1>3, <1>4, <1>5, <1>6, <1>7, <1>8, <1>9, <1>10, <1>11
  DEF Files!UploadsNext, FilesIn!UploadsNext

LEMMA NoneIsNoTask == None \notin FilesIn!Task
BY NoneAssumption DEF Files!Task, FilesIn!Task, Files!Steps, FilesIn!Steps

FileSceneInv == FilesIn!TypeInv /\ FilesIn!LockInv /\ FilesIn!FileInv

LEMMA FilesBegin ==
  ASSUME Files!UploadsInit PROVE FileSceneInv
<1>1. FilesIn!UploadsInit
  BY DEF Files!UploadsInit, FilesIn!UploadsInit
<1>2. FilesIn!TypeInv
  BY <1>1, NoneAssumption, FilesIn!UploadsInitType
<1>3. FilesIn!LockInv
  BY <1>1 DEF FilesIn!UploadsInit, FilesIn!LockInv, FilesIn!Keeper, FilesIn!Guarded, FilesIn!At
<1>4. FilesIn!FileInv
  BY <1>1, NoneIsNoTask DEF FilesIn!UploadsInit, FilesIn!FileInv, FilesIn!Kept, FilesIn!Placed
<1> QED
  BY <1>2, <1>3, <1>4 DEF FileSceneInv

LEMMA FilesStep ==
  ASSUME scene = "files", FileSceneInv, [Next]_vars
  PROVE  FileSceneInv'
<1>1. Files!UploadsNext \/ UNCHANGED fileVars
  BY DEF Next, vars
<1>2. [FilesIn!UploadsNext]_FilesIn!uploadVars
  BY <1>1, SameUploads DEF fileVars, FilesIn!uploadVars
<1> QED
  BY <1>2, NoneIsNoTask, NoneAssumption, FilesIn!UploadsNextType, FilesIn!LockStep, FilesIn!FileStep
  DEF FileSceneInv

LEMMA FilesAlways == Spec => [](scene = "files" => FileSceneInv)
<1>1. Init => (scene = "files" => FileSceneInv)
  BY FilesBegin DEF Init
<1>2. (scene = "files" => FileSceneInv) /\ [Next]_vars => (scene = "files" => FileSceneInv)'
  BY SceneStays, FilesStep
<1> QED
  BY <1>1, <1>2, PTL DEF Spec

(* handleUpload in the scene, for any number of contents and of uploads: two *)
(* of them add one content to IPFS at the same time only if one had given    *)
(* the lock up or lost it to its 10 seconds or to another's release.         *)
THEOREM OneUploadOfAContent == Spec => []OneAddsAContent
<1>1. FileSceneInv => Files!OneAddsAContent
  BY DEF FileSceneInv, FilesIn!LockInv, FilesIn!Keeper, FilesIn!Guarded, FilesIn!At, FilesIn!Content,
     Files!OneAddsAContent, Files!At, Files!Content
<1>2. (scene = "files" => FileSceneInv) => OneAddsAContent
  BY <1>1 DEF OneAddsAContent
<1> QED
  BY <1>2, FilesAlways, PTL

(* handleUpload's fallbacks in the scene, in either storage and with or      *)
(* without the unique index: the file of a stored document is in IPFS if the *)
(* document says so and on the disk otherwise, but where dedupe and node     *)
(* both failed.                                                              *)
THEOREM FilesOfDocumentsExist == Spec => []FilesAreSomewhere
<1>1. FileSceneInv => Files!FilesAreSomewhere
  BY DEF FileSceneInv, FilesIn!FileInv, FilesIn!Kept, FilesIn!Placed, Files!FilesAreSomewhere
<1>2. (scene = "files" => FileSceneInv) => FilesAreSomewhere
  BY <1>1 DEF FilesAreSomewhere
<1> QED
  BY <1>2, FilesAlways, PTL

-----------------------------------------------------------------------------
(* A socket is in rooms it is known to have entered, and in none before it   *)
(* has identified; who joins has identified.                                 *)
RoomsTracked == \A s \in Sockets : rooms[s] \subseteq tracked[s]
StrangersOut == \A s \in online : userId[s] = None => rooms[s] = {}
JoinersKnown ==
  \A e \in Requests : event[e] # None =>
    /\ event[e].kind = "join" => userId[event[e].sock] # None
    /\ event[e].kind \in {"join", "joined"} => event[e].server \in Servers

(* The pairs of a user and a server of whom some open socket of the user is  *)
(* in the server's room.                                                     *)
Present(p, on, user, in) == \E s \in on : user[s] = p[1] /\ p[2] \in in[s]

LEMMA InRoomPresent ==
  ASSUME NEW user, NEW in \in [Sockets -> SUBSET Servers], NEW p \in Pair \X Servers
  PROVE  p \in Rooms!InRoom(user, in) <=> Present(p, online, user, in)
<1>1. p = <<p[1], p[2]>> /\ p[2] \in Servers
  OBVIOUS
<1>2. ASSUME p \in Rooms!InRoom(user, in) PROVE Present(p, online, user, in)
  <2>1. PICK s \in online : p \in {<<user[s], v>> : v \in in[s]}
    BY <1>2 DEF Rooms!InRoom
  <2> QED
    BY <2>1 DEF Present
<1>3. ASSUME Present(p, online, user, in) PROVE p \in Rooms!InRoom(user, in)
  <2>1. PICK s \in online : user[s] = p[1] /\ p[2] \in in[s]
    BY <1>3 DEF Present
  <2>2. p = <<user[s], p[2]>>
    BY <1>1, <2>1
  <2>3. p \in {<<user[t], v>> : t \in online, v \in Servers}
    BY <1>1, <2>2
  <2>4. p \in {<<user[s], v>> : v \in in[s]}
    BY <2>1, <2>2
  <2> QED
    BY <2>3, <2>4 DEF Rooms!InRoom
<1> QED
  BY <1>2, <1>3

(* What the property says of a pair, with the sockets spelt out.             *)
Announced(p) ==
  \E e \in Requests : event[e] # None /\ event[e].kind = "joined"
                      /\ <<event[e].user, event[e].server>> = p
ToldTrue(p) ==
  p \notin untrue /\ ~Announced(p) => (p \in listed <=> Present(p, online, userId, rooms))
RoomInv ==
  /\ Rooms!EventsTypeOK /\ RoomsTracked /\ StrangersOut /\ JoinersKnown
  /\ \A p \in Pair \X Servers : ToldTrue(p)

LEMMA RoomsKnowIff ==
  ASSUME Rooms!EventsTypeOK
  PROVE  Rooms!RoomsKnowWhoIsThere <=> \A p \in Pair \X Servers : ToldTrue(p)
<1>1. \A p \in Pair \X Servers :
        p \in Rooms!InRoom(userId, rooms) <=> Present(p, online, userId, rooms)
  BY InRoomPresent DEF Rooms!EventsTypeOK
<1> QED
  BY <1>1 DEF Rooms!RoomsKnowWhoIsThere, ToldTrue, Announced

LEMMA RoomsBegin ==
  ASSUME Rooms!EventsInit PROVE RoomInv
BY BoundsAssumption DEF Rooms!EventsInit, RoomInv, Rooms!EventsTypeOK, RoomsTracked, StrangersOut,
   JoinersKnown, ToldTrue, Present

(* An event of a socket begins, or is refused: nobody comes or goes.         *)
LEMMA EventReplaced ==
  ASSUME RoomInv, NEW e \in Requests, NEW q \in Rooms!Event \cup {None},
         event' = [event EXCEPT ![e] = q],
         UNCHANGED <<online, userId, rooms, tracked, listed, untrue, opened>>,
         q # None /\ q.kind = "join" => userId[q.sock] # None /\ q.server \in Servers,
         q # None => q.kind # "joined",
         event[e] # None => event[e].kind # "joined"
  PROVE  RoomInv'
<1>1. event'[e] = q /\ \A f \in Requests : f # e => event'[f] = event[f]
  BY DEF RoomInv, Rooms!EventsTypeOK
<1>2. Rooms!EventsTypeOK'
  BY DEF RoomInv, Rooms!EventsTypeOK
<1>3. RoomsTracked' /\ StrangersOut'
  BY DEF RoomInv, RoomsTracked, StrangersOut
<1>4. JoinersKnown'
  BY <1>1 DEF RoomInv, JoinersKnown
<1>5. ASSUME NEW p \in Pair \X Servers PROVE ToldTrue(p)'
  <2>1. Announced(p) => Announced(p)'
    BY <1>1 DEF Announced
  <2>2. Present(p, online, userId, rooms)' <=> Present(p, online, userId, rooms)
    BY DEF Present
  <2> QED
    BY <2>1, <2>2 DEF RoomInv, ToldTrue
<1> QED
  BY <1>2, <1>3, <1>4, <1>5 DEF RoomInv

LEMMA SocketOpens ==
  ASSUME RoomInv, NEW s \in Sockets, Rooms!HandleConnection(s)
  PROVE  RoomInv'
<1>1. /\ s \notin online /\ online' = online \cup {s}
      /\ \A e \in Requests : event[e] # None => event[e].sock # s
      /\ userId' = [userId EXCEPT ![s] = None] /\ tracked' = [tracked EXCEPT ![s] = {}]
      /\ rooms' = [rooms EXCEPT ![s] = {}] /\ UNCHANGED <<event, listed, untrue>>
      /\ opened < MaxSockets /\ opened' = opened + 1
  BY DEF Rooms!HandleConnection
<1>2. /\ userId \in [Sockets -> Pair \cup {None}] /\ online \subseteq Sockets
      /\ rooms \in [Sockets -> SUBSET Servers] /\ tracked \in [Sockets -> SUBSET Servers]
  BY DEF RoomInv, Rooms!EventsTypeOK
<1>3. opened' \in 0 .. MaxSockets
  BY <1>1, BoundsAssumption DEF RoomInv, Rooms!EventsTypeOK
<1>4. Rooms!EventsTypeOK'
  BY <1>1, <1>2, <1>3 DEF RoomInv, Rooms!EventsTypeOK
<1>5. RoomsTracked' /\ StrangersOut'
  BY <1>1, <1>2 DEF RoomInv, RoomsTracked, StrangersOut
<1>6. JoinersKnown'
  BY <1>1, <1>2 DEF RoomInv, JoinersKnown, Rooms!EventsTypeOK, Rooms!Event
<1>7. ASSUME NEW p \in Pair \X Servers PROVE ToldTrue(p)'
  <2>1. Announced(p)' <=> Announced(p)
    BY <1>1 DEF Announced
  <2>2. Present(p, online, userId, rooms)' <=> Present(p, online, userId, rooms)
    BY <1>1, <1>2 DEF Present
  <2> QED
    BY <1>1, <2>1, <2>2 DEF RoomInv, ToldTrue
<1> QED
  BY <1>4, <1>5, <1>6, <1>7 DEF RoomInv

LEMMA EventAwaits ==
  ASSUME RoomInv, NEW e \in Requests, NEW s \in Sockets, NEW kind \in {"identity", "join"},
         NEW w \in Pair, NEW x \in Servers \cup {None}, Rooms!Await(e, kind, s, w, x),
         kind = "join" => userId[s] # None /\ x \in Servers
  PROVE  RoomInv'
<1> DEFINE q == [kind |-> kind, sock |-> s, user |-> w, server |-> x]
<1>1. q \in Rooms!Event /\ q.kind = kind /\ q.sock = s /\ q.server = x
  BY DEF Rooms!Event
<1>2. /\ event[e] = None /\ event' = [event EXCEPT ![e] = q]
      /\ UNCHANGED <<online, userId, rooms, tracked, listed, untrue, opened>>
  BY DEF Rooms!Await
<1> HIDE DEF q
<1> QED
  BY <1>1, <1>2, EventReplaced

LEMMA IdentityAsked ==
  ASSUME RoomInv, NEW e \in Requests, NEW s \in Sockets, NEW u \in Pair,
         Rooms!HandleIdentity(e, s, u)
  PROVE  RoomInv'
BY EventAwaits DEF Rooms!HandleIdentity

LEMMA JoinAsked ==
  ASSUME RoomInv, NEW e \in Requests, NEW s \in Sockets, NEW v \in Servers,
         Rooms!HandleJoinServer(e, s, v)
  PROVE  RoomInv'
<1>1. userId[s] \in Pair /\ userId[s] # None
  BY NoneAssumption DEF Rooms!HandleJoinServer, RoomInv, Rooms!EventsTypeOK
<1> QED
  BY <1>1, EventAwaits DEF Rooms!HandleJoinServer

LEMMA EventRefused ==
  ASSUME RoomInv, NEW e \in Requests, Rooms!Refuse(e)
  PROVE  RoomInv'
BY EventReplaced DEF Rooms!Refuse

(* Of a socket that changes its user, the pairs it may be in are not claimed.*)
LEMMA SocketIdentified ==
  ASSUME RoomInv, NEW e \in Requests, Rooms!Identified(e)
  PROVE  RoomInv'
<1> DEFINE s == event[e].sock
           u == event[e].user
<1>1. /\ event[e] \in Rooms!Event /\ s \in Sockets /\ u \in Pair /\ u # None
      /\ event[e].kind = "identity" /\ event[e] # None
  BY NoneAssumption DEF Rooms!Identified, RoomInv, Rooms!EventsTypeOK, Rooms!Event
<1>2. /\ userId' = [userId EXCEPT ![s] = u] /\ event' = [event EXCEPT ![e] = None]
      /\ untrue' = IF userId[s] \in {None, u} THEN untrue
                   ELSE untrue \cup {<<w, v>> : w \in {userId[s], u}, v \in tracked[s]}
      /\ UNCHANGED <<online, rooms, tracked, listed, opened>>
  BY DEF Rooms!Identified
<1> HIDE DEF s, u
<1>3. /\ userId \in [Sockets -> Pair \cup {None}] /\ online \subseteq Sockets
      /\ rooms \in [Sockets -> SUBSET Servers] /\ tracked \in [Sockets -> SUBSET Servers]
      /\ event \in [Requests -> Rooms!Event \cup {None}]
  BY DEF RoomInv, Rooms!EventsTypeOK
<1>4. /\ userId'[s] = u /\ \A t \in Sockets : t # s => userId'[t] = userId[t]
      /\ event'[e] = None /\ \A f \in Requests : f # e => event'[f] = event[f]
  BY <1>1, <1>2, <1>3
<1>5. Rooms!EventsTypeOK'
  <2>1. ASSUME userId[s] \notin {None, u}
        PROVE  {<<w, v>> : w \in {userId[s], u}, v \in tracked[s]} \subseteq Pair \X Servers
    BY <1>1, <1>3, <2>1
  <2>2. untrue' \subseteq Pair \X Servers
    BY <1>2, <2>1 DEF RoomInv, Rooms!EventsTypeOK
  <2> QED
    BY <1>1, <1>2, <1>3, <2>2 DEF RoomInv, Rooms!EventsTypeOK
<1>6. RoomsTracked' /\ StrangersOut'
  BY <1>1, <1>2, <1>3, <1>4 DEF RoomInv, RoomsTracked, StrangersOut
<1>7. JoinersKnown'
  BY <1>1, <1>3, <1>4 DEF RoomInv, JoinersKnown, Rooms!Event
<1>8. ASSUME NEW p \in Pair \X Servers PROVE ToldTrue(p)'
  <2>1. Announced(p) => Announced(p)'
    BY <1>1, <1>4 DEF Announced
  <2>2. p = <<p[1], p[2]>>
    OBVIOUS
  <2>3. CASE s \in online /\ p[2] \in rooms[s] /\ userId[s] \notin {None, u} /\ p[1] \in {userId[s], u}
    <3>1. p[2] \in tracked[s]
      BY <1>1, <2>3 DEF RoomInv, RoomsTracked
    <3>2. p \in untrue'
      BY <1>2, <2>2, <2>3, <3>1
    <3> QED
      BY <3>2 DEF ToldTrue
  <2>4. CASE ~(s \in online /\ p[2] \in rooms[s] /\ userId[s] \notin {None, u} /\ p[1] \in {userId[s], u})
    <3>1. s \in online /\ userId[s] = None => rooms[s] = {}
      BY DEF RoomInv, StrangersOut
    <3>2. Present(p, online, userId, rooms)' <=> Present(p, online, userId, rooms)
      BY <1>1, <1>2, <1>3, <1>4, <2>4, <3>1 DEF Present
    <3> QED
      BY <1>2, <2>1, <3>2 DEF RoomInv, ToldTrue
  <2> QED
    BY <2>3, <2>4
<1> QED
  BY <1>5, <1>6, <1>7, <1>8 DEF RoomInv

(* The rooms it leaves are told; the one it enters will be; and if the       *)
(* socket's user is another by now, nothing is claimed of them.              *)
LEMMA JoinIsChecked ==
  ASSUME RoomInv, NEW e \in Requests, Rooms!JoinChecked(e)
  PROVE  RoomInv'
<1> DEFINE s == event[e].sock
           u == event[e].user
           v == event[e].server
           left == rooms[s] \ {v}
           went == {<<u, w>> : w \in left}
           unsaid == IF userId[s] = u THEN {} ELSE {<<userId[s], w>> : w \in left \cup {v}}
           q == [event[e] EXCEPT !.kind = "joined"]
<1>1. /\ event[e] \in Rooms!Event /\ event[e] # None /\ event[e].kind = "join"
      /\ s \in Sockets /\ u \in Pair /\ v \in Servers \cup {None} /\ userId[s] # None
  BY DEF Rooms!JoinChecked, RoomInv, Rooms!EventsTypeOK, Rooms!Event, JoinersKnown
<1>2. /\ userId \in [Sockets -> Pair \cup {None}] /\ online \subseteq Sockets
      /\ rooms \in [Sockets -> SUBSET Servers] /\ tracked \in [Sockets -> SUBSET Servers]
      /\ event \in [Requests -> Rooms!Event \cup {None}]
      /\ listed \subseteq Pair \X Servers /\ untrue \subseteq Pair \X Servers
  BY DEF RoomInv, Rooms!EventsTypeOK
<1>3. v \in Servers
  BY <1>1 DEF RoomInv, JoinersKnown
<1>4. /\ rooms' = [rooms EXCEPT ![s] = (rooms[s] \ left) \cup {v}]
      /\ tracked' = [tracked EXCEPT ![s] = tracked[s] \cup {v}]
      /\ listed' = (listed \cup {}) \ went
      /\ untrue' = (untrue \ ({} \cup went)) \cup ({} \ Rooms!InRoom(userId, rooms'))
                     \cup (went \cap Rooms!InRoom(userId, rooms')) \cup unsaid
      /\ event' = [event EXCEPT ![e] = q] /\ UNCHANGED <<online, userId, opened>>
  BY DEF Rooms!JoinChecked, Rooms!TellOf
<1>5. q \in Rooms!Event /\ q # None /\ q.kind = "joined" /\ q.user = u /\ q.server = v /\ q.sock = s
  BY <1>1, NoneAssumption DEF Rooms!Event
<1>6. /\ left \subseteq rooms[s] /\ rooms[s] \ left \subseteq {v}
      /\ \A w : <<u, w>> \in went <=> w \in left
      /\ went \subseteq Pair \X Servers
      /\ unsaid \subseteq Pair \X Servers
  BY <1>1, <1>2, <1>3
<1>7. \A p \in Pair \X Servers :
        p[1] = userId[s] /\ userId[s] # u /\ p[2] \in left \cup {v} => p \in unsaid
  BY <1>1
<1>8. \A p \in Pair \X Servers : p \in went <=> p[1] = u /\ p[2] \in left
  BY <1>1
<1> HIDE DEF s, u, v, left, went, unsaid, q
<1>9. /\ rooms' \in [Sockets -> SUBSET Servers] /\ rooms'[s] = (rooms[s] \ left) \cup {v}
      /\ \A t \in Sockets : t # s => rooms'[t] = rooms[t]
      /\ event'[e] = q /\ \A f \in Requests : f # e => event'[f] = event[f]
  BY <1>1, <1>2, <1>3, <1>4
<1>10. Rooms!EventsTypeOK'
  <2>1. listed' \subseteq Pair \X Servers /\ untrue' \subseteq Pair \X Servers
    BY <1>2, <1>4, <1>6
  <2>2. event' \in [Requests -> Rooms!Event \cup {None}]
    BY <1>2, <1>4, <1>5
  <2>3. tracked' \in [Sockets -> SUBSET Servers]
    BY <1>1, <1>2, <1>3, <1>4
  <2> QED
    BY <1>4, <1>9, <2>1, <2>2, <2>3 DEF RoomInv, Rooms!EventsTypeOK
<1>11. RoomsTracked'
  BY <1>1, <1>2, <1>4, <1>9 DEF RoomInv, RoomsTracked
<1>12. StrangersOut'
  BY <1>1, <1>2, <1>4, <1>9 DEF RoomInv, StrangersOut
<1>13. JoinersKnown'
  BY <1>4, <1>5, <1>9 DEF RoomInv, JoinersKnown
<1>14. ASSUME NEW p \in Pair \X Servers PROVE ToldTrue(p)'
  <2> SUFFICES ASSUME p \notin untrue', ~Announced(p)'
               PROVE  p \in listed' <=> Present(p, online, userId, rooms)'
    BY DEF ToldTrue
  <2>1. p = <<p[1], p[2]>> /\ p # <<u, v>>
    BY <1>5, <1>9 DEF Announced
  <2>2. ~Announced(p)
    BY <1>1, <1>9 DEF Announced
  <2>3. p \notin unsaid /\ (p \in Rooms!InRoom(userId, rooms') => p \notin went)
    BY <1>4
  <2>4. p \in Rooms!InRoom(userId, rooms') <=> Present(p, online, userId, rooms')
    BY <1>9, InRoomPresent
  <2>5. Present(p, online, userId, rooms') <=> Present(p, online, userId, rooms)'
    BY <1>4 DEF Present
  <2>6. CASE p \in went
    BY <1>4, <2>3, <2>4, <2>5, <2>6
  <2>7. CASE p \notin went
    <3>1. p \in listed' <=> p \in listed
      BY <1>4, <2>7
    <3>2. p \notin untrue
      BY <1>4, <2>7
    <3>3. userId[s] = p[1] => (p[2] \in rooms'[s] <=> p[2] \in rooms[s])
      <4>1. CASE userId[s] = u
        <5>1. userId[s] = p[1] => p[2] \notin left /\ p[2] # v
          BY <1>8, <2>1, <2>7, <4>1
        <5> QED
          BY <1>9, <5>1
      <4>2. CASE userId[s] # u
        <5>1. userId[s] = p[1] => p[2] \notin left \cup {v}
          BY <1>7, <2>3, <4>2
        <5> QED
          BY <1>9, <5>1
      <4> QED
        BY <4>1, <4>2
    <3>4. Present(p, online, userId, rooms)' <=> Present(p, online, userId, rooms)
      BY <1>2, <1>4, <1>9, <3>3 DEF Present
    <3> QED
      BY <2>2, <3>1, <3>2, <3>4 DEF RoomInv, ToldTrue
  <2> QED
    BY <2>6, <2>7
<1> QED
  BY <1>10, <1>11, <1>12, <1>13, <1>14 DEF RoomInv

LEMMA JoinAnnounced ==
  ASSUME RoomInv, NEW e \in Requests, Rooms!AnnounceJoined(e)
  PROVE  RoomInv'
<1> DEFINE pair == <<event[e].user, event[e].server>>
<1>1. event[e] \in Rooms!Event /\ event[e] # None /\ event[e].kind = "joined"
  BY DEF Rooms!AnnounceJoined, RoomInv, Rooms!EventsTypeOK
<1>2. pair \in Pair \X Servers
  BY <1>1 DEF RoomInv, JoinersKnown, Rooms!Event
<1>3. /\ listed' = (listed \cup {pair}) \ {}
      /\ untrue' = (untrue \ ({pair} \cup {})) \cup ({pair} \ Rooms!InRoom(userId, rooms))
                     \cup ({} \cap Rooms!InRoom(userId, rooms)) \cup {}
      /\ event' = [event EXCEPT ![e] = None] /\ UNCHANGED <<online, userId, rooms, tracked, opened>>
  BY DEF Rooms!AnnounceJoined, Rooms!Tell, Rooms!TellOf
<1>5. event'[e] = None /\ \A f \in Requests : f # e => event'[f] = event[f]
  BY <1>3 DEF RoomInv, Rooms!EventsTypeOK
<1>6. ASSUME NEW p \in Pair \X Servers, p # pair PROVE Announced(p) => Announced(p)'
  BY <1>5, <1>6 DEF Announced
<1> HIDE DEF pair
<1>7. Rooms!EventsTypeOK'
  BY <1>2, <1>3 DEF RoomInv, Rooms!EventsTypeOK
<1>8. RoomsTracked' /\ StrangersOut'
  BY <1>3 DEF RoomInv, RoomsTracked, StrangersOut
<1>9. JoinersKnown'
  BY <1>3, <1>5 DEF RoomInv, JoinersKnown
<1>10. ASSUME NEW p \in Pair \X Servers PROVE ToldTrue(p)'
  <2>1. Present(p, online, userId, rooms)' <=> Present(p, online, userId, rooms)
    BY <1>3 DEF Present
  <2>2. CASE p = pair
    <3>1. p \in Rooms!InRoom(userId, rooms) <=> Present(p, online, userId, rooms)
      BY InRoomPresent DEF RoomInv, Rooms!EventsTypeOK
    <3> QED
      BY <1>3, <2>1, <2>2, <3>1 DEF ToldTrue
  <2>3. CASE p # pair
    BY <1>3, <1>6, <2>1, <2>3 DEF RoomInv, ToldTrue
  <2> QED
    BY <2>2, <2>3
<1> QED
  BY <1>7, <1>8, <1>9, <1>10 DEF RoomInv

(* Every server it was ever in is told, those it is in among them.           *)
LEMMA SocketCloses ==
  ASSUME RoomInv, NEW s \in Sockets, Rooms!HandleDisconnect(s)
  PROVE  RoomInv'
<1> DEFINE went == {<<userId[s], v>> : v \in tracked[s]}
<1>1. /\ s \in online /\ online' = online \ {s} /\ rooms' = [rooms EXCEPT ![s] = {}]
      /\ UNCHANGED <<userId, tracked, event, opened>>
      /\ userId[s] = None => UNCHANGED <<listed, untrue>>
      /\ userId[s] # None =>
           /\ listed' = (listed \cup {}) \ went
           /\ untrue' = (untrue \ ({} \cup went)) \cup ({} \ Rooms!InRoom(userId, rooms'))
                          \cup (went \cap Rooms!InRoom(userId, rooms')) \cup {}
  BY DEF Rooms!HandleDisconnect, Rooms!Tell, Rooms!TellOf
<1>2. /\ userId \in [Sockets -> Pair \cup {None}] /\ online \subseteq Sockets
      /\ rooms \in [Sockets -> SUBSET Servers] /\ tracked \in [Sockets -> SUBSET Servers]
      /\ listed \subseteq Pair \X Servers /\ untrue \subseteq Pair \X Servers
  BY DEF RoomInv, Rooms!EventsTypeOK
<1>3. userId[s] # None => went \subseteq Pair \X Servers
  BY <1>2
<1>4. \A p \in Pair \X Servers : p \in went <=> p[1] = userId[s] /\ p[2] \in tracked[s]
  OBVIOUS
<1> HIDE DEF went
<1>5. /\ rooms' \in [Sockets -> SUBSET Servers] /\ rooms'[s] = {}
      /\ \A t \in Sockets : t # s => rooms'[t] = rooms[t]
  BY <1>1, <1>2
<1>6. Rooms!EventsTypeOK'
  <2>1. listed' \subseteq Pair \X Servers /\ untrue' \subseteq Pair \X Servers
    BY <1>1, <1>2, <1>3
  <2> QED
    BY <1>1, <1>2, <1>5, <2>1 DEF RoomInv, Rooms!EventsTypeOK
<1>7. RoomsTracked' /\ StrangersOut'
  BY <1>1, <1>2, <1>5 DEF RoomInv, RoomsTracked, StrangersOut
<1>8. JoinersKnown'
  BY <1>1 DEF RoomInv, JoinersKnown
<1>9. ASSUME NEW p \in Pair \X Servers PROVE ToldTrue(p)'
  <2>1. Announced(p)' <=> Announced(p)
    BY <1>1 DEF Announced
  <2>2. Present(p, online, userId, rooms)' <=> Present(p, online, userId, rooms')
    <3>1. ~(p[2] \in rooms'[s])
      BY <1>5
    <3> QED
      BY <1>1, <3>1 DEF Present
  <2>3. p \in Rooms!InRoom(userId, rooms') <=> Present(p, online, userId, rooms')
    BY <1>5, InRoomPresent
  <2>4. CASE userId[s] # None /\ p \in went
    BY <1>1, <2>2, <2>3, <2>4 DEF ToldTrue
  <2>5. CASE userId[s] = None \/ p \notin went
    <3>1. userId[s] = p[1] => p[2] \notin rooms[s]
      <4>1. userId[s] = None => rooms[s] = {}
        BY <1>1 DEF RoomInv, StrangersOut
      <4>2. rooms[s] \subseteq tracked[s]
        BY DEF RoomInv, RoomsTracked
      <4> QED
        BY <1>4, <2>5, <4>1, <4>2
    <3>2. Present(p, online, userId, rooms)' <=> Present(p, online, userId, rooms)
      BY <1>1, <1>2, <1>5, <3>1 DEF Present
    <3>3. (p \in listed' <=> p \in listed) /\ (p \notin untrue' => p \notin untrue)
      BY <1>1, <2>5
    <3> QED
      BY <2>1, <3>2, <3>3 DEF RoomInv, ToldTrue
  <2> QED
    BY <2>4, <2>5
<1> QED
  BY <1>6, <1>7, <1>8, <1>9 DEF RoomInv

LEMMA RoomsStep ==
  ASSUME scene = "rooms", RoomInv, [Next]_vars
  PROVE  RoomInv'
<1>1. Rooms!EventsNext \/ UNCHANGED <<rooms, roomVars>>
  BY DEF Next, vars
<1>2. CASE UNCHANGED <<rooms, roomVars>>
  <2>1. UNCHANGED <<online, userId, rooms, tracked, event, listed, untrue, opened>>
    BY <1>2 DEF roomVars
  <2>2. \A p \in Pair \X Servers : ToldTrue(p)' <=> ToldTrue(p)
    BY <2>1 DEF ToldTrue, Announced, Present
  <2> QED
    BY <2>1, <2>2 DEF RoomInv, Rooms!EventsTypeOK, RoomsTracked, StrangersOut, JoinersKnown
<1>3. ASSUME NEW s \in Sockets, Rooms!HandleConnection(s) \/ Rooms!HandleDisconnect(s)
      PROVE  RoomInv'
  BY <1>3, SocketOpens, SocketCloses
<1>4. ASSUME NEW e \in Requests, NEW s \in Sockets, NEW u \in Pair, Rooms!HandleIdentity(e, s, u)
      PROVE  RoomInv'
  BY <1>4, IdentityAsked
<1>5. ASSUME NEW e \in Requests, NEW s \in Sockets, NEW v \in Servers,
             Rooms!HandleJoinServer(e, s, v)
      PROVE  RoomInv'
  BY <1>5, JoinAsked
<1>6. ASSUME NEW e \in Requests,
             \/ Rooms!Identified(e) \/ Rooms!Refuse(e) \/ Rooms!JoinChecked(e)
             \/ Rooms!AnnounceJoined(e)
      PROVE  RoomInv'
  BY <1>6, SocketIdentified, EventRefused, JoinIsChecked, JoinAnnounced
<1> QED
  BY <1>1, <1>2, <1>3, <1>4, <1>5, <1>6 DEF Rooms!EventsNext

LEMMA RoomsAlways == Spec => [](scene = "rooms" => RoomInv)
<1> DEFINE I == scene = "rooms" => RoomInv
<1>1. Init => I
  BY RoomsBegin DEF Init
<1>2. I /\ [Next]_vars => I'
  BY SceneStays, RoomsStep
<1> QED
  BY <1>1, <1>2, PTL DEF Spec

(* handleJoinServer, handleDisconnect and identity, for any number of        *)
(* sockets, servers and events in flight: what a room was last told of a     *)
(* user is what the sockets say, but for what was untrue when it was told.   *)
THEOREM RoomsKnow == Spec => []RoomsKnowWhoIsThere
<1>1. (scene = "rooms" => RoomInv) => RoomsKnowWhoIsThere
  BY RoomsKnowIff DEF RoomInv, RoomsKnowWhoIsThere
<1> QED
  BY <1>1, RoomsAlways, PTL

-----------------------------------------------------------------------------
(* What a handler holds and what is stored of its message: the message is    *)
(* there; a delete has marked it, or will; what is to be told is what is     *)
(* stored, unless it was overtaken; a direct write takes back no delete.     *)
Said(q) == [q.doc EXCEPT !.gone = @ \/ q.op = "delete"]
Sound(q, gw, doc, late) ==
  /\ doc # None
  /\ q.op = "delete" => IF q.step = "save" THEN q.doc.gone ELSE doc.gone
  /\ ~late /\ q.step \in {"locate", "tell"} => Said(q) = doc
  /\ ~late /\ q.step = "save" /\ gw = "direct" => (doc.gone => q.doc.gone)
HandlersSound ==
  \A h \in Requests :
    handler[h] # None => Sound(handler[h], gateway, stored[handler[h].msg], handler[h].msg \in overtaken)

(* What the property says of a message.                                      *)
Quiet(m) ==
  \A h \in Requests : handler[h] # None /\ handler[h].msg = m => handler[h].step = "save"
Agreed(m) ==
  m \notin overtaken /\ Quiet(m)
    => \A s \in {socket} : Chat!Hears(s, m) => shown[s][m] = stored[m]
ChatInv ==
  Chat!MessageEventsTypeOK /\ HandlersSound /\ \A m \in Messages : Agreed(m)

LEMMA ViewersAgreeIff == Chat!ViewersAgree <=> \A m \in Messages : Agreed(m)
BY DEF Chat!ViewersAgree, Agreed, Quiet

LEMMA ChatBegins ==
  ASSUME Chat!MessageEventsInit PROVE ChatInv
BY DEF Chat!MessageEventsInit, ChatInv, Chat!MessageEventsTypeOK, HandlersSound, Agreed, Chat!Hears

(* What is told of a document.                                               *)
LEMMA TextEqual ==
  ASSUME NEW d \in Chat!Text, NEW e \in Chat!Text, d.text = e.text, d.gone <=> e.gone
  PROVE  d = e
<1>1. d = [text |-> d.text, gone |-> d.gone] /\ e = [text |-> e.text, gone |-> e.gone]
  BY DEF Chat!Text
<1>2. d.gone \in BOOLEAN /\ e.gone \in BOOLEAN
  BY DEF Chat!Text
<1>3. d.gone = e.gone
  BY <1>2
<1> QED
  BY <1>1, <1>3

LEMMA SaidIs ==
  ASSUME NEW q \in Chat!Handler
  PROVE  /\ Said(q) \in Chat!Text /\ Said(q).text = q.doc.text
         /\ Said(q).gone <=> q.doc.gone \/ q.op = "delete"
BY DEF Said, Chat!Handler, Chat!Text

(* A handler begins or goes on, and neither writes nor tells.                *)
LEMMA HandlerMoves ==
  ASSUME ChatInv, NEW h \in Requests, NEW q \in Chat!Handler,
         handler' = [handler EXCEPT ![h] = q],
         UNCHANGED <<gateway, meta, rooms, stored, shown, home, overtaken>>,
         Sound(q, gateway, stored[q.msg], q.msg \in overtaken),
         handler[h] # None => q.msg = handler[h].msg /\ (q.step = "save" => handler[h].step = "save")
  PROVE  ChatInv'
<1>1. handler'[h] = q /\ \A g \in Requests : g # h => handler'[g] = handler[g]
  BY DEF ChatInv, Chat!MessageEventsTypeOK
<1>2. Chat!MessageEventsTypeOK'
  BY DEF ChatInv, Chat!MessageEventsTypeOK
<1>3. HandlersSound'
  BY <1>1 DEF ChatInv, HandlersSound
<1>4. q # None
  BY NoneAssumption
<1>5. ASSUME NEW m \in Messages PROVE Agreed(m)'
  <2>1. Quiet(m)' => Quiet(m)
    BY <1>1, <1>4 DEF Quiet
  <2>2. \A s \in {socket} : Chat!Hears(s, m)' <=> Chat!Hears(s, m)
    BY DEF Chat!Hears, Chat!Audience
  <2> QED
    BY <2>1, <2>2 DEF ChatInv, Agreed
<1> QED
  BY <1>2, <1>3, <1>5 DEF ChatInv

(* A client identifies, enters or goes: it lists what is stored.             *)
LEMMA ClientEnters ==
  ASSUME ChatInv, NEW s \in {socket}, NEW in \in SUBSET (Users \cup Servers), Chat!Enter(s, in),
         meta' \in [{socket} -> Users \cup {None}],
         UNCHANGED <<gateway, stored, handler, home, overtaken>>
  PROVE  ChatInv'
<1>1. /\ rooms' = [rooms EXCEPT ![s] = in]
      /\ shown' = [shown EXCEPT ![s] =
           [m \in Messages |-> IF in \cap Chat!Audience(m) # {} THEN stored[m] ELSE None]]
  BY DEF Chat!Enter
<1>2. Chat!MessageEventsTypeOK'
  <2>1. [m \in Messages |-> IF in \cap Chat!Audience(m) # {} THEN stored[m] ELSE None]
          \in [Messages -> Chat!Text \cup {None}]
    BY DEF ChatInv, Chat!MessageEventsTypeOK
  <2> QED
    BY <1>1, <2>1 DEF ChatInv, Chat!MessageEventsTypeOK
<1>3. HandlersSound'
  BY DEF ChatInv, HandlersSound
<1>4. ASSUME NEW m \in Messages PROVE Agreed(m)'
  <2>1. Chat!Hears(s, m)' => in \cap Chat!Audience(m) # {}
    BY <1>1 DEF Chat!Hears, Chat!Audience, ChatInv, Chat!MessageEventsTypeOK
  <2>2. in \cap Chat!Audience(m) # {} => shown'[s][m] = stored'[m]
    BY <1>1 DEF ChatInv, Chat!MessageEventsTypeOK
  <2> QED
    BY <2>1, <2>2 DEF Agreed
<1> QED
  BY <1>2, <1>3, <1>4 DEF ChatInv

LEMMA ClientsCome ==
  ASSUME ChatInv, NEW s \in {socket}, NEW u \in Users,
         Chat!ChannelIdentity(s, u) \/ Chat!DirectIdentity(s, u)
  PROVE  ChatInv'
<1>1. CASE Chat!ChannelIdentity(s, u)
  <2>1. UNCHANGED <<gateway, rooms, stored, handler, shown, home, overtaken>>
    BY <1>1 DEF Chat!ChannelIdentity
  <2>2. Chat!MessageEventsTypeOK'
    BY <1>1 DEF Chat!ChannelIdentity, ChatInv, Chat!MessageEventsTypeOK
  <2>3. HandlersSound'
    BY <2>1 DEF ChatInv, HandlersSound
  <2>4. ASSUME NEW m \in Messages PROVE Agreed(m)'
    BY <2>1 DEF ChatInv, Agreed, Quiet, Chat!Hears, Chat!Audience
  <2> QED
    BY <2>2, <2>3, <2>4 DEF ChatInv
<1>2. CASE Chat!DirectIdentity(s, u)
  <2>1. rooms[s] \cup {u} \in SUBSET (Users \cup Servers)
    BY DEF ChatInv, Chat!MessageEventsTypeOK
  <2>2. meta' \in [{socket} -> Users \cup {None}]
    BY <1>2 DEF Chat!DirectIdentity, ChatInv, Chat!MessageEventsTypeOK
  <2> QED
    BY <1>2, <2>1, <2>2, ClientEnters DEF Chat!DirectIdentity
<1> QED
  BY <1>1, <1>2

LEMMA ClientJoins ==
  ASSUME ChatInv, NEW s \in {socket}, NEW v \in Servers, Chat!HandleJoinServer(s, v)
  PROVE  ChatInv'
<1>1. meta' \in [{socket} -> Users \cup {None}] /\ {v} \in SUBSET (Users \cup Servers)
  BY DEF Chat!HandleJoinServer, ChatInv, Chat!MessageEventsTypeOK
<1> QED
  BY <1>1, ClientEnters DEF Chat!HandleJoinServer

LEMMA ClientGoes ==
  ASSUME ChatInv, NEW s \in {socket}, Chat!HandleDisconnect(s)
  PROVE  ChatInv'
<1>1. meta' \in [{socket} -> Users \cup {None}] /\ {} \in SUBSET (Users \cup Servers)
  BY DEF Chat!HandleDisconnect, ChatInv, Chat!MessageEventsTypeOK
<1> QED
  BY <1>1, ClientEnters DEF Chat!HandleDisconnect

(* A message that was not there has no handlers but the one that sends it.   *)
LEMMA MessageInserted ==
  ASSUME ChatInv, NEW h \in Requests, NEW m \in Messages, Chat!Insert(h, m)
  PROVE  ChatInv'
<1> DEFINE new == [text |-> 0, gone |-> FALSE]
           q == [op |-> "send", step |-> "reread", msg |-> m, doc |-> new]
<1>1. /\ stored[m] = None /\ stored' = [stored EXCEPT ![m] = new]
      /\ handler[h] = None /\ handler' = [handler EXCEPT ![h] = q]
      /\ UNCHANGED <<gateway, meta, rooms, shown, home, overtaken>>
  BY DEF Chat!Insert, Chat!Begin
<1>2. new \in Chat!Text
  BY BoundsAssumption DEF Chat!Text
<1>3. /\ q \in Chat!Handler /\ q.msg = m /\ q.step = "reread" /\ q.op = "send"
      /\ q # None /\ new # None
  <2>1. q \in Chat!Handler /\ q.msg = m /\ q.step = "reread" /\ q.op = "send"
    BY <1>2 DEF Chat!Handler
  <2> QED
    BY <1>2, <2>1, NoneAssumption
<1> HIDE DEF new, q
<1>4. /\ handler'[h] = q /\ \A g \in Requests : g # h => handler'[g] = handler[g]
      /\ stored'[m] = new /\ \A n \in Messages : n # m => stored'[n] = stored[n]
  BY <1>1 DEF ChatInv, Chat!MessageEventsTypeOK
<1>5. Chat!MessageEventsTypeOK'
  BY <1>1, <1>2, <1>3 DEF ChatInv, Chat!MessageEventsTypeOK
<1>6. \A g \in Requests : handler[g] # None => handler[g].msg \in Messages /\ handler[g].msg # m
  BY <1>1 DEF ChatInv, HandlersSound, Sound, Chat!MessageEventsTypeOK, Chat!Handler
<1>7. HandlersSound'
  <2>1. Sound(q, gateway, stored'[m], m \in overtaken)
    BY <1>2, <1>3, <1>4 DEF Sound
  <2>2. ASSUME NEW g \in Requests, handler'[g] # None
        PROVE  Sound(handler'[g], gateway, stored'[handler'[g].msg], handler'[g].msg \in overtaken)
    <3>1. CASE g = h
      BY <1>3, <1>4, <2>1, <3>1
    <3>2. CASE g # h
      BY <1>4, <1>6, <2>2, <3>2 DEF ChatInv, HandlersSound
    <3> QED
      BY <3>1, <3>2
  <2> QED
    BY <1>1, <2>2 DEF HandlersSound
<1>8. ASSUME NEW n \in Messages PROVE Agreed(n)'
  <2>1. ~Quiet(m)'
    BY <1>3, <1>4 DEF Quiet
  <2>2. n # m => (Quiet(n)' => Quiet(n))
    BY <1>1, <1>4 DEF Quiet
  <2>3. \A s \in {socket} : Chat!Hears(s, n)' <=> Chat!Hears(s, n)
    BY <1>1 DEF Chat!Hears, Chat!Audience
  <2> QED
    BY <1>1, <1>4, <2>1, <2>2, <2>3 DEF ChatInv, Agreed
<1> QED
  BY <1>5, <1>7, <1>8 DEF ChatInv

(* The message is read and its write prepared, or a second delete of it is   *)
(* answered.                                                                 *)
LEMMA WritePrepared ==
  ASSUME ChatInv, NEW h \in Requests, NEW m \in Messages, NEW op \in {"edit", "delete"},
         NEW doc \in Chat!Text, Chat!Prepare(h, op, m, doc), op = "delete" => doc.gone,
         gateway = "direct" => (stored[m].gone => doc.gone)
  PROVE  ChatInv'
<1> DEFINE q == [op |-> op, step |-> "save", msg |-> m, doc |-> doc]
<1>1. q \in Chat!Handler /\ q.msg = m /\ q.step = "save" /\ q.op = op /\ q.doc = doc
  BY DEF Chat!Handler
<1>2. /\ stored[m] # None /\ handler[h] = None /\ handler' = [handler EXCEPT ![h] = q]
      /\ UNCHANGED <<gateway, meta, rooms, stored, shown, home, overtaken>>
  BY DEF Chat!Prepare, Chat!Begin
<1> HIDE DEF q
<1>3. Sound(q, gateway, stored[m], m \in overtaken)
  BY <1>1, <1>2 DEF Sound
<1> QED
  BY <1>1, <1>2, <1>3, HandlerMoves

LEMMA EditPrepared ==
  ASSUME ChatInv, NEW h \in Requests, NEW m \in Messages, NEW t \in 1 .. MaxText,
         Chat!ChannelEdit(h, m, t) \/ Chat!DirectEdit(h, m, t)
  PROVE  ChatInv'
<1> DEFINE doc == [stored[m] EXCEPT !.text = t]
<1>1. Chat!Prepare(h, "edit", m, doc) /\ (gateway = "direct" => ~stored[m].gone)
  BY DEF Chat!ChannelEdit, Chat!DirectEdit
<1>2. stored[m] # None
  BY <1>1 DEF Chat!Prepare
<1>3. doc \in Chat!Text
  BY <1>2, BoundsAssumption DEF ChatInv, Chat!MessageEventsTypeOK, Chat!Text
<1> QED
  BY <1>1, <1>3, WritePrepared

LEMMA ChannelDeletePrepared ==
  ASSUME ChatInv, NEW h \in Requests, NEW m \in Messages, Chat!ChannelDelete(h, m)
  PROVE  ChatInv'
<1> DEFINE doc == [text |-> 0, gone |-> TRUE]
<1>1. Chat!Prepare(h, "delete", m, doc)
  BY DEF Chat!ChannelDelete
<1>2. doc \in Chat!Text /\ doc.gone
  BY BoundsAssumption DEF Chat!Text
<1> QED
  BY <1>1, <1>2, WritePrepared

LEMMA DirectDeletePrepared ==
  ASSUME ChatInv, NEW h \in Requests, NEW m \in Messages, Chat!DirectDelete(h, m)
  PROVE  ChatInv'
<1>1. CASE ~stored[m].gone
  <2> DEFINE doc == [text |-> 0, gone |-> TRUE]
  <2>1. Chat!Prepare(h, "delete", m, doc)
    BY <1>1 DEF Chat!DirectDelete
  <2>2. doc \in Chat!Text /\ doc.gone
    BY BoundsAssumption DEF Chat!Text
  <2> QED
    BY <2>1, <2>2, WritePrepared
<1>2. CASE stored[m].gone
  <2> DEFINE q == [op |-> "delete", step |-> "locate", msg |-> m, doc |-> stored[m]]
  <2>1. /\ stored[m] # None /\ handler[h] = None /\ handler' = [handler EXCEPT ![h] = q]
        /\ UNCHANGED <<gateway, meta, rooms, stored, shown, home, overtaken>>
    BY <1>2 DEF Chat!DirectDelete, Chat!Begin
  <2>2. stored[m] \in Chat!Text
    BY <2>1 DEF ChatInv, Chat!MessageEventsTypeOK
  <2>3. /\ q \in Chat!Handler /\ q.msg = m /\ q.step = "locate" /\ q.op = "delete"
        /\ q.doc = stored[m]
    BY <2>2 DEF Chat!Handler
  <2> HIDE DEF q
  <2>4. Said(q) = stored[m]
    BY <1>2, <2>2, <2>3, SaidIs, TextEqual
  <2>5. Sound(q, gateway, stored[m], m \in overtaken)
    BY <1>2, <2>1, <2>3, <2>4 DEF Sound
  <2> QED
    BY <2>1, <2>3, <2>5, HandlerMoves
<1> QED
  BY <1>1, <1>2

(* The document is read again, and where to tell it is found.                *)
LEMMA DocumentReread ==
  ASSUME ChatInv, NEW h \in Requests, Chat!Reread(h)
  PROVE  ChatInv'
<1> DEFINE o == handler[h]
           q == [o EXCEPT !.step = "locate", !.doc = stored[o.msg]]
<1>1. o # None /\ o \in Chat!Handler /\ o.step = "reread" /\ o.msg \in Messages
  BY DEF Chat!Reread, Chat!HandlerAt, ChatInv, Chat!MessageEventsTypeOK, Chat!Handler
<1>2. /\ handler' = [handler EXCEPT ![h] = q]
      /\ UNCHANGED <<gateway, meta, rooms, stored, shown, home, overtaken>>
  BY DEF Chat!Reread
<1>3. Sound(o, gateway, stored[o.msg], o.msg \in overtaken)
  BY <1>1 DEF ChatInv, HandlersSound
<1>4. stored[o.msg] \in Chat!Text /\ stored[o.msg] # None
  BY <1>1, <1>3 DEF Sound, ChatInv, Chat!MessageEventsTypeOK
<1>5. /\ q \in Chat!Handler /\ q.msg = o.msg /\ q.step = "locate" /\ q.op = o.op
      /\ q.doc = stored[o.msg]
  BY <1>1, <1>4 DEF Chat!Handler
<1>6. o.op = "delete" => stored[o.msg].gone
  BY <1>1, <1>3 DEF Sound
<1> HIDE DEF q
<1>7. Said(q) = stored[o.msg]
  BY <1>4, <1>5, <1>6, SaidIs, TextEqual
<1>8. Sound(q, gateway, stored[q.msg], q.msg \in overtaken)
  BY <1>4, <1>5, <1>6, <1>7 DEF Sound
<1> QED
  BY <1>1, <1>2, <1>5, <1>8, HandlerMoves

LEMMA RoomLocated ==
  ASSUME ChatInv, NEW h \in Requests, Chat!Locate(h)
  PROVE  ChatInv'
<1> DEFINE o == handler[h]
           q == [o EXCEPT !.step = "tell"]
<1>1. o # None /\ o \in Chat!Handler /\ o.step = "locate"
  BY DEF Chat!Locate, Chat!HandlerAt, ChatInv, Chat!MessageEventsTypeOK
<1>2. /\ handler' = [handler EXCEPT ![h] = q]
      /\ UNCHANGED <<gateway, meta, rooms, stored, shown, home, overtaken>>
  BY DEF Chat!Locate
<1>3. Sound(o, gateway, stored[o.msg], o.msg \in overtaken)
  BY <1>1 DEF ChatInv, HandlersSound
<1>4. q \in Chat!Handler /\ q.msg = o.msg /\ q.step = "tell" /\ q.op = o.op /\ q.doc = o.doc
  BY <1>1 DEF Chat!Handler
<1> HIDE DEF q
<1>5. Said(q) = Said(o)
  BY <1>4 DEF Said
<1>6. Sound(q, gateway, stored[q.msg], q.msg \in overtaken)
  BY <1>1, <1>3, <1>4, <1>5 DEF Sound
<1> QED
  BY <1>1, <1>2, <1>4, <1>6, HandlerMoves

(* The write is seen by no other handler of the message, or overtakes it.    *)
LEMMA MessageSaved ==
  ASSUME ChatInv, NEW h \in Requests, Chat!SaveWrite(h)
  PROVE  ChatInv'
<1> DEFINE o == handler[h]
           m == o.msg
           new == [stored[m] EXCEPT !.text = o.doc.text, !.gone = @ \/ o.doc.gone]
           next == IF gateway = "channel" THEN "reread" ELSE "locate"
           q == [o EXCEPT !.step = next]
<1>1. /\ o # None /\ o \in Chat!Handler /\ o.step = "save" /\ m \in Messages /\ o.doc \in Chat!Text
      /\ gateway \in {"channel", "direct"}
  BY DEF Chat!SaveWrite, Chat!HandlerAt, ChatInv, Chat!MessageEventsTypeOK, Chat!Handler
<1>2. /\ stored' = [stored EXCEPT ![m] = new] /\ handler' = [handler EXCEPT ![h] = q]
      /\ overtaken' = IF \E g \in Requests \ {h} : Chat!HasRead(g, m) THEN overtaken \cup {m}
                      ELSE overtaken
      /\ UNCHANGED <<gateway, meta, rooms, shown, home>>
  BY DEF Chat!SaveWrite
<1>3. Sound(o, gateway, stored[m], m \in overtaken)
  BY <1>1 DEF ChatInv, HandlersSound
<1>4. stored[m] \in Chat!Text /\ stored[m] # None
  BY <1>1, <1>3 DEF Sound, ChatInv, Chat!MessageEventsTypeOK
<1>5. /\ new \in Chat!Text /\ new.text = o.doc.text
      /\ new.gone <=> stored[m].gone \/ o.doc.gone
  BY <1>1, <1>4 DEF Chat!Text
<1>6. q \in Chat!Handler /\ q.msg = m /\ q.step = next /\ q.op = o.op /\ q.doc = o.doc
  BY <1>1 DEF Chat!Handler
<1>7. new # None /\ q # None /\ next # "save"
  BY <1>5, <1>6, NoneAssumption
<1>8. next = "locate" => gateway = "direct"
  BY <1>1
<1>9. next \in {"reread", "locate"}
  OBVIOUS
<1> HIDE DEF m, new, q, next
<1>10. /\ handler'[h] = q /\ \A g \in Requests : g # h => handler'[g] = handler[g]
       /\ stored'[m] = new /\ \A n \in Messages : n # m => stored'[n] = stored[n]
  BY <1>1, <1>2 DEF ChatInv, Chat!MessageEventsTypeOK
<1>11. Chat!MessageEventsTypeOK'
  BY <1>1, <1>2, <1>5, <1>6 DEF ChatInv, Chat!MessageEventsTypeOK
<1>12. overtaken \subseteq overtaken' /\ (\A n \in Messages : n # m => (n \in overtaken' <=> n \in overtaken))
  BY <1>2
<1>13. Sound(q, gateway, new, m \in overtaken')
  <2>1. o.op = "delete" => o.doc.gone
    BY <1>1, <1>3 DEF Sound
  <2>2. ASSUME m \notin overtaken', next = "locate" PROVE Said(q) = new
    <3>1. stored[m].gone => o.doc.gone
      BY <1>1, <1>3, <1>8, <1>12, <2>2 DEF Sound
    <3> QED
      BY <1>5, <1>6, <2>1, <3>1, SaidIs, TextEqual
  <2>3. q.op = "delete" => new.gone
    BY <1>5, <1>6, <2>1
  <2> QED
    BY <1>6, <1>7, <1>9, <2>2, <2>3 DEF Sound
<1>14. ASSUME NEW g \in Requests, g # h, handler[g] # None, handler[g].msg = m
       PROVE  Sound(handler[g], gateway, new, m \in overtaken')
  <2>1. Sound(handler[g], gateway, stored[m], m \in overtaken)
    BY <1>14 DEF ChatInv, HandlersSound
  <2>2. Chat!HasRead(g, m) => m \in overtaken'
    BY <1>2, <1>14
  <2>3. handler[g].step \in {"locate", "tell"} => m \in overtaken'
    BY <1>1, <1>14, <2>2 DEF Chat!HasRead
  <2>4. handler[g].step = "save" /\ gateway = "direct" => m \in overtaken'
    BY <1>1, <1>14, <2>2 DEF Chat!HasRead
  <2> QED
    BY <1>5, <1>7, <2>1, <2>3, <2>4 DEF Sound
<1>15. HandlersSound'
  <2>1. ASSUME NEW g \in Requests, handler'[g] # None
        PROVE  Sound(handler'[g], gateway, stored'[handler'[g].msg], handler'[g].msg \in overtaken')
    <3>1. CASE g = h
      BY <1>6, <1>10, <1>13, <3>1
    <3>2. CASE g # h /\ handler[g].msg = m
      BY <1>10, <1>14, <2>1, <3>2
    <3>3. CASE g # h /\ handler[g].msg # m
      <4>1. handler[g] # None /\ handler[g].msg \in Messages
        BY <1>10, <2>1, <3>3 DEF ChatInv, Chat!MessageEventsTypeOK, Chat!Handler
      <4>2. Sound(handler[g], gateway, stored[handler[g].msg], handler[g].msg \in overtaken)
        BY <4>1 DEF ChatInv, HandlersSound
      <4>3. handler[g].msg \in overtaken' <=> handler[g].msg \in overtaken
        BY <1>12, <3>3, <4>1
      <4> QED
        BY <1>10, <3>3, <4>1, <4>2, <4>3 DEF Sound
    <3> QED
      BY <3>1, <3>2, <3>3
  <2> QED
    BY <1>2, <2>1 DEF HandlersSound
<1>16. ASSUME NEW n \in Messages PROVE Agreed(n)'
  <2>1. n = m => ~Quiet(n)'
    BY <1>6, <1>7, <1>10 DEF Quiet
  <2>2. n # m => (Quiet(n)' => Quiet(n))
    <3>1. n # m => \A g \in Requests : handler[g] # None /\ handler[g].msg = n => g # h
      BY DEF m
    <3> QED
      BY <1>10, <3>1 DEF Quiet
  <2>3. \A s \in {socket} : Chat!Hears(s, n)' <=> Chat!Hears(s, n)
    BY <1>2 DEF Chat!Hears, Chat!Audience
  <2> QED
    BY <1>2, <1>10, <1>12, <2>1, <2>2, <2>3 DEF ChatInv, Agreed
<1> QED
  BY <1>11, <1>15, <1>16 DEF ChatInv

(* A handler that ends has told its message, or the message is overtaken.    *)
LEMMA HandlerEnds ==
  ASSUME ChatInv, NEW h \in Requests, Chat!NeverTold(h) \/ Chat!Tell(h)
  PROVE  ChatInv'
<1> DEFINE o == handler[h]
           m == o.msg
<1>1. o # None /\ o \in Chat!Handler /\ o.step # "save" /\ m \in Messages
  BY DEF Chat!NeverTold, Chat!Tell, Chat!HandlerAt, ChatInv, Chat!MessageEventsTypeOK, Chat!Handler
<1>2. handler' = [handler EXCEPT ![h] = None] /\ UNCHANGED <<gateway, meta, rooms, stored, home>>
  BY DEF Chat!NeverTold, Chat!Tell
<1>3. handler'[h] = None /\ \A g \in Requests : g # h => handler'[g] = handler[g]
  BY <1>2 DEF ChatInv, Chat!MessageEventsTypeOK
<1>4. /\ overtaken \subseteq overtaken' /\ overtaken' \subseteq Messages
      /\ \A n \in Messages : n # m => (n \in overtaken' <=> n \in overtaken)
  BY <1>1 DEF Chat!NeverTold, Chat!Tell, ChatInv, Chat!MessageEventsTypeOK
<1>5. Sound(o, gateway, stored[m], m \in overtaken)
  BY <1>1 DEF ChatInv, HandlersSound
<1>6. /\ shown' \in [{socket} -> [Messages -> Chat!Text \cup {None}]]
      /\ \A s \in {socket}, n \in Messages : n # m => shown'[s][n] = shown[s][n]
      /\ m \notin overtaken' => \A s \in {socket} : Chat!Hears(s, m) => shown'[s][m] = stored[m]
  <2>1. shown \in [{socket} -> [Messages -> Chat!Text \cup {None}]]
    BY DEF ChatInv, Chat!MessageEventsTypeOK
  <2>2. CASE Chat!NeverTold(h)
    BY <1>1, <2>1, <2>2 DEF Chat!NeverTold
  <2>3. CASE Chat!Tell(h)
    <3>1. /\ o.step = "tell" /\ overtaken' = overtaken
          /\ shown' = [s \in {socket} |->
               IF Chat!Hears(s, m) THEN [shown[s] EXCEPT ![m] = Said(o)] ELSE shown[s]]
      BY <2>3 DEF Chat!Tell, Chat!HandlerAt, Chat!Payload, Said
    <3>2. Said(o) \in Chat!Text
      BY <1>1, SaidIs
    <3>3. m \notin overtaken' => Said(o) = stored[m]
      BY <1>5, <3>1 DEF Sound
    <3> HIDE DEF m, o
    <3>4. shown' \in [{socket} -> [Messages -> Chat!Text \cup {None}]]
      BY <1>1, <2>1, <3>1, <3>2
    <3>5. \A s \in {socket}, n \in Messages : n # m => shown'[s][n] = shown[s][n]
      BY <1>1, <2>1, <3>1
    <3>6. \A s \in {socket} : Chat!Hears(s, m) => shown'[s][m] = Said(o)
      BY <1>1, <2>1, <3>1
    <3> QED
      BY <3>3, <3>4, <3>5, <3>6
  <2> QED
    BY <2>2, <2>3
<1>7. Chat!MessageEventsTypeOK'
  BY <1>2, <1>4, <1>6 DEF ChatInv, Chat!MessageEventsTypeOK
<1>8. HandlersSound'
  <2>1. ASSUME NEW g \in Requests, handler'[g] # None
        PROVE  Sound(handler'[g], gateway, stored[handler'[g].msg], handler'[g].msg \in overtaken')
    <3>1. handler'[g] = handler[g] /\ handler[g] # None
      BY <1>3, <2>1
    <3>2. Sound(handler[g], gateway, stored[handler[g].msg], handler[g].msg \in overtaken)
      BY <3>1 DEF ChatInv, HandlersSound
    <3> QED
      BY <1>4, <3>1, <3>2 DEF Sound
  <2> QED
    BY <1>2, <2>1 DEF HandlersSound
<1>9. ASSUME NEW n \in Messages PROVE Agreed(n)'
  <2>1. n # m => (Quiet(n)' => Quiet(n))
    <3>1. n # m => \A g \in Requests : handler[g] # None /\ handler[g].msg = n => g # h
      OBVIOUS
    <3> QED
      BY <1>3, <3>1 DEF Quiet
  <2>2. \A s \in {socket} : Chat!Hears(s, n)' <=> Chat!Hears(s, n)
    BY <1>2 DEF Chat!Hears, Chat!Audience
  <2>3. CASE n = m
    BY <1>2, <1>6, <2>2, <2>3 DEF Agreed
  <2>4. CASE n # m
    BY <1>2, <1>4, <1>6, <2>1, <2>2, <2>4 DEF ChatInv, Agreed
  <2> QED
    BY <2>3, <2>4
<1> QED
  BY <1>7, <1>8, <1>9 DEF ChatInv

LEMMA ChatStep ==
  ASSUME scene = "chat", ChatInv, [Next]_vars
  PROVE  ChatInv'
<1>1. Chat!MessageEventsNext \/ UNCHANGED <<rooms, chatVars>>
  BY DEF Next, vars
<1>2. CASE UNCHANGED <<rooms, chatVars>>
  <2>1. UNCHANGED <<gateway, meta, rooms, stored, handler, shown, home, overtaken>>
    BY <1>2 DEF chatVars
  <2>2. Chat!MessageEventsTypeOK' /\ HandlersSound'
    BY <2>1 DEF ChatInv, Chat!MessageEventsTypeOK, HandlersSound
  <2>3. ASSUME NEW m \in Messages PROVE Agreed(m)'
    BY <2>1 DEF ChatInv, Agreed, Quiet, Chat!Hears, Chat!Audience
  <2> QED
    BY <2>2, <2>3 DEF ChatInv
<1>3. ASSUME NEW s \in {socket}, NEW u \in Users,
             Chat!ChannelIdentity(s, u) \/ Chat!DirectIdentity(s, u)
      PROVE  ChatInv'
  BY <1>3, ClientsCome
<1>4. ASSUME NEW s \in {socket}, NEW v \in Servers, Chat!HandleJoinServer(s, v)
      PROVE  ChatInv'
  BY <1>4, ClientJoins
<1>5. ASSUME NEW s \in {socket}, Chat!HandleDisconnect(s) PROVE ChatInv'
  BY <1>5, ClientGoes
<1>6. ASSUME NEW h \in Requests, NEW m \in Messages,
             Chat!HandleMessage(h, m) \/ Chat!HandleSendMessage(h, m)
      PROVE  ChatInv'
  BY <1>6, MessageInserted DEF Chat!HandleMessage, Chat!HandleSendMessage
<1>7. ASSUME NEW h \in Requests, NEW m \in Messages,
             Chat!ChannelDelete(h, m) \/ Chat!DirectDelete(h, m)
      PROVE  ChatInv'
  BY <1>7, ChannelDeletePrepared, DirectDeletePrepared
<1>8. ASSUME NEW h \in Requests, NEW m \in Messages, NEW t \in 1 .. MaxText,
             Chat!ChannelEdit(h, m, t) \/ Chat!DirectEdit(h, m, t)
      PROVE  ChatInv'
  BY <1>8, EditPrepared
<1>9. ASSUME NEW h \in Requests,
             \/ Chat!SaveWrite(h) \/ Chat!Reread(h) \/ Chat!Locate(h)
             \/ Chat!NeverTold(h) \/ Chat!Tell(h)
      PROVE  ChatInv'
  BY <1>9, MessageSaved, DocumentReread, RoomLocated, HandlerEnds
<1> QED
  BY <1>1, <1>2, <1>3, <1>4, <1>5, <1>6, <1>7, <1>8, <1>9 DEF Chat!MessageEventsNext

LEMMA ChatAlways == Spec => [](scene = "chat" => ChatInv)
<1> DEFINE I == scene = "chat" => ChatInv
<1>1. Init => I
  BY ChatBegins DEF Init
<1>2. I /\ [Next]_vars => I'
  BY SceneStays, ChatStep
<1> QED
  BY <1>1, <1>2, PTL DEF Spec

(* ChatGateway and DirectMessageGateway, for any messages, handlers in       *)
(* flight and edits: a client of the room shows what is stored of a message  *)
(* once every write of it is told, but for the messages overtaken.           *)
THEOREM ViewersDoAgree == Spec => []ViewersAgree
<1>1. (scene = "chat" => ChatInv) => ViewersAgree
  BY ViewersAgreeIff DEF ChatInv, ViewersAgree
<1> QED
  BY <1>1, ChatAlways, PTL

-----------------------------------------------------------------------------
LEMMA ChangesAlways == Spec => [](scene = "members" => changes \in 0 .. MaxChanges)
<1> DEFINE I == scene = "members" => changes \in 0 .. MaxChanges
<1>1. Init => I
  BY BoundsAssumption DEF Init, Members!MemberListInit
<1>2. I /\ [Next]_vars => I'
  <2> SUFFICES ASSUME I, [Next]_vars, scene = "members" PROVE changes' \in 0 .. MaxChanges
    BY SceneStays
  <2>1. Members!MemberListNext \/ UNCHANGED changes
    BY DEF Next, vars, memberVars
  <2>2. changes' = changes \/ (changes < MaxChanges /\ changes' = changes + 1)
    BY <2>1 DEF Members!MemberListNext, Members!FindMemberships, Members!StoreList,
       Members!EnrichFails, Members!Commit, Members!Changed, Members!TransferOwnership,
       Members!InvalidateMemberListCache, Members!NotInvalidated, Members!AssignRole,
       Members!RemoveServer, Members!ListExpires
  <2> QED
    BY <2>2, BoundsAssumption
<1> QED
  BY <1>1, <1>2, PTL DEF Spec

(* The variables of each component have their types, whatever the instance:  *)
(* what the actions of its operations assign stays within the schemas.       *)
THEOREM ScenesTyped == Spec => []TypeOK
<1>1. (\A sc \in Trees : scene = sc => TreeInv(sc))
        => \A sc \in Trees : scene = sc => Tree(sc)!StructureTypeOK
  BY DEF TreeInv
<1>2. RoomInv => Rooms!EventsTypeOK
  BY DEF RoomInv
<1>3. ChatInv => Chat!MessageEventsTypeOK
  BY DEF ChatInv
<1>4. FileSceneInv => Files!UploadsTypeOK
  BY DEF FileSceneInv, FilesIn!TypeInv, FilesIn!UploadsTypeOK, Files!UploadsTypeOK, FilesIn!Task,
     Files!Task, FilesIn!Steps, Files!Steps
<1>5. PairInv => Pairs!ConversationsTypeOK
  BY DEF PairInv, PairsTyped, Pairs!ConversationsTypeOK
<1>6. ListInv /\ changes \in 0 .. MaxChanges => Members!MemberListTypeOK
  BY DEF ListInv, ListsTyped, Members!MemberListTypeOK
<1>7. RestInv => Rest!RestTypeOK
  BY DEF RestInv, RestTyped, Rest!RestTypeOK, Rest!CallsTypeOK, CallIds
<1>8. /\ \A sc \in Trees : scene = sc => TreeInv(sc)
      /\ scene = "rooms" => RoomInv
      /\ scene = "chat" => ChatInv
      /\ scene = "files" => FileSceneInv
      /\ scene = "pairs" => PairInv
      /\ scene = "members" => ListInv
      /\ scene = "members" => changes \in 0 .. MaxChanges
      /\ scene = "rest" => RestInv
      => TypeOK
  BY <1>1, <1>2, <1>3, <1>4, <1>5, <1>6, <1>7 DEF TypeOK
<1> QED
  BY <1>8, TreesAlways, RoomsAlways, ChatAlways, FilesAlways, PairsAlways, MembersAlways,
     ChangesAlways, RestAlways, PTL
=============================================================================
