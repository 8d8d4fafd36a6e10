------------------------------ MODULE UploadsProofs ------------------------------
(* Theorems about Uploads for any number of contents and of uploads in       *)
(* flight, in either storage and with either index.                          *)
EXTENDS Uploads, TLAPS

(* Who has the key of a content has begun: LockExpires and ReleaseLock write *)
(* to the record of the one they take it from.                               *)
HoldersWork == \A c \in Contents : lock[c] \in Uploads => task[lock[c]] \in Task
TypeInv == UploadsTypeOK /\ HoldersWork

(* A record whose fields were replaced by others of their types.             *)
LEMMA TaskFields ==
  ASSUME NEW t \in Task, NEW step \in Steps, NEW found \in Contents \cup {None},
         NEW a \in BOOLEAN, NEW b \in BOOLEAN
  PROVE  /\ [t EXCEPT !.step = step] \in Task
         /\ [t EXCEPT !.step = step, !.found = found] \in Task
         /\ [t EXCEPT !.step = step, !.holds = a] \in Task
         /\ [t EXCEPT !.step = step, !.late = a] \in Task
         /\ [t EXCEPT !.step = step, !.holds = a, !.failed = b] \in Task
         /\ [t EXCEPT !.late = a] \in Task
BY DEF Task

LEMMA LateField ==
  ASSUME NEW t \in Task
  PROVE  /\ [t EXCEPT !.late = TRUE].late
         /\ [t EXCEPT !.step = "recheck", !.late = TRUE].late
BY DEF Task

(* Of the records one is replaced: the table keeps its type.                 *)
LEMMA OneTask ==
  ASSUME TypeInv, NEW u \in Uploads, NEW t \in Task, task' = [task EXCEPT ![u] = t]
  PROVE  /\ task' \in [Uploads -> Task \cup {None}]
         /\ \A v \in Uploads : task[v] \in Task => task'[v] \in Task
BY DEF TypeInv, UploadsTypeOK

(* The upload at u gives its key up, which another may hold by now.          *)
LEMMA KeyGivenUp ==
  ASSUME TypeInv, NEW u \in Uploads, NEW t \in Task, task[u] \in Task,
         lock' = IF task[u].holds THEN [lock EXCEPT ![Content(u)] = None] ELSE lock,
         task' = [v \in Uploads |->
           IF v = u THEN t
           ELSE IF task[u].holds /\ lock[Content(u)] = v THEN [task[v] EXCEPT !.late = TRUE]
           ELSE task[v]]
  PROVE  /\ lock' \in [Contents -> Uploads \cup {None}]
         /\ task' \in [Uploads -> Task \cup {None}]
         /\ \A v \in Uploads : task[v] \in Task => task'[v] \in Task
         /\ \A c \in Contents : lock'[c] \in {lock[c], None}
<1>1. Content(u) \in Contents
  BY DEF Content, Task
<1>2. ASSUME NEW v \in Uploads, lock[Content(u)] = v
      PROVE  [task[v] EXCEPT !.late = TRUE] \in Task
  BY <1>1, <1>2 DEF TypeInv, HoldersWork, Task
<1>3. \A v \in Uploads : task'[v] \in Task \cup {None}
  BY <1>2 DEF TypeInv, UploadsTypeOK
<1>4. \A v \in Uploads : task[v] \in Task => task'[v] \in Task
  BY <1>2
<1>5. task' \in [Uploads -> Task \cup {None}]
  BY <1>3
<1> QED
  BY <1>1, <1>4, <1>5 DEF TypeInv, UploadsTypeOK

(* Keys are only given up: who still has one has a record.                   *)
LEMMA KeysFree ==
  ASSUME None \notin Uploads,
         TypeInv, UNCHANGED <<storage, unique, added, disk, document>>,
         lock' \in [Contents -> Uploads \cup {None}],
         task' \in [Uploads -> Task \cup {None}],
         \A v \in Uploads : task[v] \in Task => task'[v] \in Task,
         \A c \in Contents : lock'[c] \in {lock[c], None}
  PROVE  TypeInv'
<1>1. HoldersWork'
  BY DEF TypeInv, HoldersWork
<1> QED
  BY <1>1 DEF TypeInv, UploadsTypeOK

(* Every upload step keeps the types and the holders.                        *)
LEMMA UploadsInitType ==
  ASSUME None \notin Uploads, UploadsInit PROVE TypeInv
BY DEF UploadsInit, TypeInv, UploadsTypeOK, HoldersWork

LEMMA StepType ==
  ASSUME TypeInv, NEW u \in Uploads, NEW t \in Task, task' = [task EXCEPT ![u] = t],
         lock' = lock, UNCHANGED <<storage, unique>>,
         added' \subseteq Contents, disk' \subseteq Uploads,
         document' \in [Uploads -> [content : Contents, ipfsHash : Contents \cup {None}] \cup {None}]
  PROVE  TypeInv'
<1>1. HoldersWork'
  BY OneTask DEF TypeInv, HoldersWork
<1> QED
  BY <1>1, OneTask DEF TypeInv, UploadsTypeOK

LEMMA InFlight ==
  ASSUME TypeInv, NEW u \in Uploads, NEW step, At(u, step)
  PROVE  /\ task[u] \in Task /\ task[u].step = step
         /\ Content(u) \in Contents /\ task[u].found \in Contents \cup {None}
BY DEF TypeInv, UploadsTypeOK, At, Content, Task

LEMMA UploadsNextType ==
  ASSUME None \notin Uploads, TypeInv, [UploadsNext]_uploadVars
  PROVE  TypeInv'
<1>t. /\ added \subseteq Contents /\ disk \subseteq Uploads
      /\ document \in [Uploads -> [content : Contents, ipfsHash : Contents \cup {None}] \cup {None}]
      /\ task \in [Uploads -> Task \cup {None}] /\ lock \in [Contents -> Uploads \cup {None}]
  BY DEF TypeInv, UploadsTypeOK
<1>s. Steps = {"look", "lock", "recheck", "add", "release", "again", "create", "stored", "refused"}
  BY DEF Steps
<1>1. ASSUME NEW u \in Uploads, NEW c \in Contents, HandleUpload(u, c) PROVE TypeInv'
  <2> DEFINE t == [content |-> c, step |-> IF storage = "ipfs" THEN "look" ELSE "create",
                   found |-> None, holds |-> FALSE, late |-> FALSE, failed |-> FALSE]
  <2>1. t \in Task
    BY <1>s DEF Task
  <2>2. /\ task' = [task EXCEPT ![u] = t] /\ lock' = lock /\ UNCHANGED <<storage, unique>>
        /\ added' = added /\ document' = document /\ disk' \subseteq Uploads
    BY <1>1, <1>t DEF HandleUpload
  <2> HIDE DEF t
  <2> QED
    BY <2>1, <2>2, <1>t, StepType
<1>2. ASSUME NEW u \in Uploads, FindExisting(u) PROVE TypeInv'
  <2> DEFINE step == IF Known(Content(u)) # {} THEN "create" ELSE "lock"
             found == IF Known(Content(u)) # {} THEN Content(u) ELSE None
             t == [task[u] EXCEPT !.step = step, !.found = found]
  <2>1. task[u] \in Task /\ Content(u) \in Contents
    BY <1>2, InFlight DEF FindExisting
  <2>2. step \in Steps /\ found \in Contents \cup {None}
    BY <1>s, <2>1
  <2>3. /\ task' = [task EXCEPT ![u] = t] /\ lock' = lock /\ UNCHANGED <<storage, unique>>
        /\ added' = added /\ document' = document /\ disk' = disk
    BY <1>2 DEF FindExisting
  <2> HIDE DEF step, found
  <2>4. t \in Task
    BY <2>1, <2>2, TaskFields
  <2> QED
    BY <2>3, <2>4, <1>t, StepType
<1>3. ASSUME NEW u \in Uploads, AcquireLock(u) PROVE TypeInv'
  <2> DEFINE t == [task[u] EXCEPT !.step = "recheck", !.holds = TRUE]
  <2>1. task[u] \in Task /\ Content(u) \in Contents
    BY <1>3, InFlight DEF AcquireLock
  <2>2. t \in Task
    BY <2>1, <1>s, TaskFields
  <2>3. task' = [task EXCEPT ![u] = t]
    BY <1>3 DEF AcquireLock
  <2> HIDE DEF t
  <2>4. /\ task' \in [Uploads -> Task \cup {None}] /\ task'[u] \in Task
        /\ \A v \in Uploads : task[v] \in Task => task'[v] \in Task
    BY <2>2, <2>3, <1>t, OneTask
  <2>5. lock' = [lock EXCEPT ![Content(u)] = u]
    BY <1>3 DEF AcquireLock
  <2>6. HoldersWork'
    BY <2>4, <2>5, <1>t DEF TypeInv, HoldersWork
  <2>7. lock' \in [Contents -> Uploads \cup {None}]
    BY <2>5, <1>t
  <2> QED
    BY <1>3, <2>4, <2>6, <2>7 DEF AcquireLock, TypeInv, UploadsTypeOK
<1>4. ASSUME NEW u \in Uploads, GiveUpLock(u) PROVE TypeInv'
  <2> DEFINE t == [task[u] EXCEPT !.step = "recheck", !.late = TRUE]
  <2>1. task[u] \in Task
    BY <1>4, InFlight DEF GiveUpLock
  <2>2. t \in Task
    BY <2>1, <1>s, TaskFields
  <2> QED
    BY <1>4, <2>2, <1>t, StepType DEF GiveUpLock
<1>5. ASSUME NEW u \in Uploads, Recheck(u) PROVE TypeInv'
  <2> DEFINE step == IF Known(Content(u)) # {} THEN "release" ELSE "add"
             found == IF Known(Content(u)) # {} THEN Content(u) ELSE None
             t == [task[u] EXCEPT !.step = step, !.found = found]
  <2>1. task[u] \in Task /\ Content(u) \in Contents
    BY <1>5, InFlight DEF Recheck
  <2>2. step \in Steps /\ found \in Contents \cup {None}
    BY <1>s, <2>1
  <2>3. /\ task' = [task EXCEPT ![u] = t] /\ lock' = lock /\ UNCHANGED <<storage, unique>>
        /\ added' = added /\ document' = document /\ disk' = disk
    BY <1>5 DEF Recheck
  <2> HIDE DEF step, found
  <2>4. t \in Task
    BY <2>1, <2>2, TaskFields
  <2> QED
    BY <2>3, <2>4, <1>t, StepType
<1>6. ASSUME NEW u \in Uploads, AddFile(u) PROVE TypeInv'
  <2>1. task[u] \in Task /\ Content(u) \in Contents
    BY <1>6, InFlight DEF AddFile
  <2>2. PICK y \in Task : task' = [task EXCEPT ![u] = y]
    <3>1. PICK a, b : /\ a = [task[u] EXCEPT !.step = "release", !.found = Content(u)]
                      /\ b = [task[u] EXCEPT !.step = "release"]
      OBVIOUS
    <3>2. a \in Task /\ b \in Task
      BY <2>1, <3>1, <1>s, TaskFields
    <3> QED
      BY <1>6, <3>1, <3>2 DEF AddFile, Go
  <2>3. /\ lock' = lock /\ UNCHANGED <<storage, unique, document>>
        /\ added' \subseteq Contents /\ disk' \subseteq Uploads
    BY <1>6, <2>1, <1>t DEF AddFile
  <2> QED
    BY <2>2, <2>3, <1>t, StepType
<1>7. ASSUME NEW u \in Uploads, ReleaseLock(u) PROVE TypeInv'
  <2> DEFINE t == [task[u] EXCEPT !.step = "create", !.holds = FALSE]
  <2>1. task[u] \in Task
    BY <1>7, InFlight DEF ReleaseLock
  <2>2. t \in Task
    BY <2>1, <1>s, TaskFields
  <2> HIDE DEF t
  <2>3. /\ lock' \in [Contents -> Uploads \cup {None}]
        /\ task' \in [Uploads -> Task \cup {None}]
        /\ \A v \in Uploads : task[v] \in Task => task'[v] \in Task
        /\ \A c \in Contents : lock'[c] \in {lock[c], None}
    BY <1>7, <2>1, <2>2, KeyGivenUp DEF ReleaseLock, t
  <2> QED
    BY <1>7, <2>3, KeysFree DEF ReleaseLock
<1>8. ASSUME NEW u \in Uploads, DedupeFails(u) PROVE TypeInv'
  <2> DEFINE t == [task[u] EXCEPT !.step = "again", !.holds = FALSE, !.failed = TRUE]
  <2>1. task[u] \in Task
    BY <1>8, InFlight DEF DedupeFails
  <2>2. t \in Task
    BY <2>1, <1>s, TaskFields
  <2> HIDE DEF t
  <2>3. /\ lock' \in [Contents -> Uploads \cup {None}]
        /\ task' \in [Uploads -> Task \cup {None}]
        /\ \A v \in Uploads : task[v] \in Task => task'[v] \in Task
        /\ \A c \in Contents : lock'[c] \in {lock[c], None}
    BY <1>8, <2>1, <2>2, KeyGivenUp DEF DedupeFails, t
  <2> QED
    BY <1>8, <2>3, KeysFree DEF DedupeFails
<1>9. ASSUME NEW u \in Uploads, AddAgain(u) PROVE TypeInv'
  <2>1. task[u] \in Task /\ Content(u) \in Contents
    BY <1>9, InFlight DEF AddAgain
  <2>2. PICK y \in Task : task' = [task EXCEPT ![u] = y]
    <3>1. PICK a, b : /\ a = [task[u] EXCEPT !.step = "create", !.found = Content(u)]
                      /\ b = [task[u] EXCEPT !.step = "create"]
      OBVIOUS
    <3>2. a \in Task /\ b \in Task
      BY <2>1, <3>1, <1>s, TaskFields
    <3> QED
      BY <1>9, <3>1, <3>2 DEF AddAgain, Go
  <2>3. /\ lock' = lock /\ UNCHANGED <<storage, unique, document>>
        /\ added' \subseteq Contents /\ disk' \subseteq Uploads
    BY <1>9, <2>1, <1>t DEF AddAgain
  <2> QED
    BY <2>2, <2>3, <1>t, StepType
<1>10. ASSUME NEW u \in Uploads, CreateDocument(u) PROVE TypeInv'
  <2> DEFINE d == [content |-> Content(u), ipfsHash |-> task[u].found]
  <2>1. /\ task[u] \in Task /\ Content(u) \in Contents
        /\ task[u].found \in Contents \cup {None}
    BY <1>10, InFlight DEF CreateDocument
  <2>2. [task[u] EXCEPT !.step = "stored"] \in Task /\ [task[u] EXCEPT !.step = "refused"] \in Task
    BY <2>1, <1>s, TaskFields
  <2>3. d \in [content : Contents, ipfsHash : Contents \cup {None}]
    BY <2>1
  <2>4. document' = document \/ document' = [document EXCEPT ![u] = d]
    BY <1>10 DEF CreateDocument
  <2> HIDE DEF d
  <2>5. document' \in [Uploads -> [content : Contents, ipfsHash : Contents \cup {None}] \cup {None}]
    BY <2>3, <2>4, <1>t
  <2>6. \/ task' = [task EXCEPT ![u] = [task[u] EXCEPT !.step = "stored"]]
        \/ task' = [task EXCEPT ![u] = [task[u] EXCEPT !.step = "refused"]]
    BY <1>10 DEF CreateDocument, Go
  <2> QED
    BY <1>10, <2>2, <2>5, <2>6, <1>t, StepType DEF CreateDocument
<1>11. ASSUME NEW c \in Contents, LockExpires(c) PROVE TypeInv'
  <2> DEFINE t == [task[lock[c]] EXCEPT !.late = TRUE]
  <2>1. lock[c] \in Uploads
    BY <1>11, <1>t DEF LockExpires
  <2>2. task[lock[c]] \in Task
    BY <2>1 DEF TypeInv, HoldersWork
  <2>3. t \in Task
    BY <2>2 DEF Task
  <2>4. task' = [task EXCEPT ![lock[c]] = t]
    BY <1>11 DEF LockExpires
  <2> HIDE DEF t
  <2>5. /\ task' \in [Uploads -> Task \cup {None}]
        /\ \A v \in Uploads : task[v] \in Task => task'[v] \in Task
    BY <2>1, <2>3, <2>4, OneTask
  <2>6. lock' = [lock EXCEPT ![c] = None]
    BY <1>11 DEF LockExpires
  <2>7. lock' \in [Contents -> Uploads \cup {None}] /\ \A k \in Contents : lock'[k] \in {lock[k], None}
    BY <2>6, <1>t
  <2> QED
    BY <1>11, <2>5, <2>7, KeysFree DEF LockExpires
<1>12. CASE UNCHANGED uploadVars
  BY <1>12 DEF uploadVars, TypeInv, UploadsTypeOK, HoldersWork
<1> QED
  BY <1>1, <1>2, <1>3, <1>4, <1>5, <1>6, <1>7, <1>8, <1>9, <1>10, <1>11, <1>12 DEF UploadsNext

(* The types, the holders included, of every upload.                         *)
THEOREM UploadsTyped ==
  ASSUME None \notin Uploads
  PROVE  UploadsSpec => []TypeInv
<1>1. UploadsInit => TypeInv
  BY UploadsInitType
<1>2. TypeInv /\ [UploadsNext]_uploadVars => TypeInv'
  BY UploadsNextType
<1> QED
  BY <1>1, <1>2, PTL DEF UploadsSpec

-----------------------------------------------------------------------------
(* An upload past the lock holds it, or is late.                             *)
Guarded(u) == At(u, "recheck") \/ At(u, "add") \/ At(u, "release")
Keeper(u) == Guarded(u) => task[u].late \/ (task[u].holds /\ lock[Content(u)] = u)
LockInv == \A u \in Uploads : Keeper(u)

LEMMA SameKeeper ==
  ASSUME NEW u, Keeper(u), task'[u] = task[u],
         task[u] # None => lock'[Content(u)] = lock[Content(u)] \/ lock[Content(u)] # u
  PROVE  Keeper(u)'
BY DEF Keeper, Guarded, At, Content

LEMMA LockStep ==
  ASSUME None \notin Uploads, TypeInv, LockInv, [UploadsNext]_uploadVars
  PROVE  LockInv'
<1>t. task \in [Uploads -> Task \cup {None}] /\ lock \in [Contents -> Uploads \cup {None}]
  BY DEF TypeInv, UploadsTypeOK
<1>o. ASSUME NEW u \in Uploads, NEW t, task' = [task EXCEPT ![u] = t], lock' = lock, Keeper(u)'
      PROVE  LockInv'
  <2> SUFFICES ASSUME NEW v \in Uploads PROVE Keeper(v)'
    BY DEF LockInv
  <2>1. CASE v = u
    BY <1>o, <2>1
  <2>2. CASE v # u
    BY <1>o, <1>t, <2>2, SameKeeper DEF LockInv
  <2> QED
    BY <2>1, <2>2
<1>1. ASSUME NEW u \in Uploads, NEW c \in Contents, HandleUpload(u, c) PROVE LockInv'
  <2>1. Keeper(u)'
    BY <1>1, <1>t DEF HandleUpload, Keeper, Guarded, At
  <2> QED
    BY <1>1, <2>1, <1>o DEF HandleUpload
<1>2. ASSUME NEW u \in Uploads, FindExisting(u) PROVE LockInv'
  <2>1. task[u] \in Task
    BY <1>2, InFlight DEF FindExisting
  <2>2. Keeper(u)'
    BY <1>2, <2>1, <1>t DEF FindExisting, Keeper, Guarded, At, Task
  <2> QED
    BY <1>2, <2>2, <1>o DEF FindExisting
<1>3. ASSUME NEW u \in Uploads, AcquireLock(u) PROVE LockInv'
  <2>1. task[u] \in Task /\ Content(u) \in Contents
    BY <1>3, InFlight DEF AcquireLock
  <2>2. /\ lock' = [lock EXCEPT ![Content(u)] = u] /\ lock[Content(u)] = None
        /\ task' = [task EXCEPT ![u] = [task[u] EXCEPT !.step = "recheck", !.holds = TRUE]]
    BY <1>3 DEF AcquireLock
  <2>3. Keeper(u)'
    BY <2>1, <2>2, <1>t DEF Keeper, Content, Task
  <2>4. ASSUME NEW v \in Uploads, v # u PROVE Keeper(v)'
    <3>1. task'[v] = task[v]
      BY <2>2, <2>4, <1>t
    <3>2. task[v] # None => Content(v) \in Contents
      BY <1>t DEF Content, Task
    <3>3. task[v] # None => lock'[Content(v)] = lock[Content(v)] \/ lock[Content(v)] # v
      BY <2>2, <2>4, <3>2, <1>t
    <3> QED
      BY <3>1, <3>3, SameKeeper DEF LockInv
  <2> QED
    BY <2>3, <2>4 DEF LockInv
<1>4. ASSUME NEW u \in Uploads, GiveUpLock(u) PROVE LockInv'
  <2>1. task[u] \in Task
    BY <1>4, InFlight DEF GiveUpLock
  <2>2. task'[u] = [task[u] EXCEPT !.step = "recheck", !.late = TRUE]
    BY <1>4, <1>t DEF GiveUpLock
  <2>3. task'[u].late
    BY <2>1, <2>2, LateField
  <2>4. Keeper(u)'
    BY <2>3 DEF Keeper
  <2> QED
    BY <1>4, <2>4, <1>o DEF GiveUpLock
<1>5. ASSUME NEW u \in Uploads, Recheck(u) PROVE LockInv'
  <2>1. task[u] \in Task
    BY <1>5, InFlight DEF Recheck
  <2>2. task[u].late \/ (task[u].holds /\ lock[Content(u)] = u)
    BY <1>5 DEF Recheck, LockInv, Keeper, Guarded
  <2>3. /\ task'[u].late = task[u].late /\ task'[u].holds = task[u].holds
        /\ task'[u].content = task[u].content /\ lock' = lock
    BY <1>5, <2>1, <1>t DEF Recheck, Task
  <2>4. Keeper(u)'
    BY <2>2, <2>3 DEF Keeper, Content
  <2> QED
    BY <1>5, <2>4, <1>o DEF Recheck
<1>6. ASSUME NEW u \in Uploads, AddFile(u) PROVE LockInv'
  <2>1. task[u] \in Task
    BY <1>6, InFlight DEF AddFile
  <2>2. task[u].late \/ (task[u].holds /\ lock[Content(u)] = u)
    BY <1>6 DEF AddFile, LockInv, Keeper, Guarded
  <2>3. /\ task'[u].late = task[u].late /\ task'[u].holds = task[u].holds
        /\ task'[u].content = task[u].content /\ lock' = lock
    <3>1. \/ task'[u] = [task[u] EXCEPT !.step = "release", !.found = Content(u)]
          \/ task'[u] = [task[u] EXCEPT !.step = "release"]
      BY <1>6, <1>t DEF AddFile, Go
    <3>2. lock' = lock
      BY <1>6 DEF AddFile
    <3> QED
      BY <2>1, <3>1, <3>2 DEF Task
  <2>4. Keeper(u)'
    BY <2>2, <2>3 DEF Keeper, Content
  <2> QED
    BY <1>6, <2>4, <1>o DEF AddFile, Go
<1>g. ASSUME NEW u \in Uploads, NEW t, task[u] \in Task, t.step \in {"create", "again"},
             lock' = IF task[u].holds THEN [lock EXCEPT ![Content(u)] = None] ELSE lock,
             task' = [v \in Uploads |->
               IF v = u THEN t
               ELSE IF task[u].holds /\ lock[Content(u)] = v THEN [task[v] EXCEPT !.late = TRUE]
               ELSE task[v]]
      PROVE  LockInv'
  <2> SUFFICES ASSUME NEW v \in Uploads PROVE Keeper(v)'
    BY DEF LockInv
  <2>0. Content(u) \in Contents
    BY <1>g DEF Content, Task
  <2>1. CASE v = u
    BY <1>g, <2>1 DEF Keeper, Guarded, At
  <2>2. CASE v # u /\ task[u].holds /\ lock[Content(u)] = v
    <3>1. task[v] \in Task
      BY <2>0, <2>2 DEF TypeInv, HoldersWork
    <3>2. task'[v] = [task[v] EXCEPT !.late = TRUE]
      BY <1>g, <2>2
    <3>3. task'[v].late
      BY <3>1, <3>2, LateField
    <3> QED
      BY <3>3 DEF Keeper
  <2>3. CASE v # u /\ ~(task[u].holds /\ lock[Content(u)] = v)
    <3>1. task'[v] = task[v]
      BY <1>g, <2>3
    <3>2. task[v] # None => Content(v) \in Contents
      BY <1>t DEF Content, Task
    <3>3. task[v] # None => lock'[Content(v)] = lock[Content(v)] \/ lock[Content(v)] # v
      BY <1>g, <2>0, <2>3, <3>2, <1>t
    <3> QED
      BY <3>1, <3>3, SameKeeper DEF LockInv
  <2> QED
    BY <2>1, <2>2, <2>3
<1>7. ASSUME NEW u \in Uploads, ReleaseLock(u) PROVE LockInv'
  <2> DEFINE t == [task[u] EXCEPT !.step = "create", !.holds = FALSE]
  <2>1. task[u] \in Task
    BY <1>7, InFlight DEF ReleaseLock
  <2>2. t.step \in {"create", "again"}
    BY <2>1 DEF Task
  <2> QED
    BY <1>7, <2>1, <2>2, <1>g DEF ReleaseLock
<1>8. ASSUME NEW u \in Uploads, DedupeFails(u) PROVE LockInv'
  <2> DEFINE t == [task[u] EXCEPT !.step = "again", !.holds = FALSE, !.failed = TRUE]
  <2>1. task[u] \in Task
    BY <1>8, InFlight DEF DedupeFails
  <2>2. t.step \in {"create", "again"}
    BY <2>1 DEF Task
  <2> QED
    BY <1>8, <2>1, <2>2, <1>g DEF DedupeFails
<1>9. ASSUME NEW u \in Uploads, AddAgain(u) PROVE LockInv'
  <2>1. task[u] \in Task
    BY <1>9, InFlight DEF AddAgain
  <2>2. task'[u].step = "create"
    <3>1. PICK a, b : /\ a = [task[u] EXCEPT !.step = "create", !.found = Content(u)]
                      /\ b = [task[u] EXCEPT !.step = "create"]
      OBVIOUS
    <3>2. a.step = "create" /\ b.step = "create"
      BY <2>1, <3>1 DEF Task
    <3>3. task' = [task EXCEPT ![u] = a] \/ task' = [task EXCEPT ![u] = b]
      BY <1>9, <3>1 DEF AddAgain, Go
    <3> QED
      BY <3>2, <3>3, <1>t
  <2>3. Keeper(u)'
    BY <2>2 DEF Keeper, Guarded, At
  <2> QED
    BY <1>9, <2>3, <1>o DEF AddAgain, Go
<1>10. ASSUME NEW u \in Uploads, CreateDocument(u) PROVE LockInv'
  <2>1. task[u] \in Task
    BY <1>10, InFlight DEF CreateDocument
  <2>2. task'[u].step \in {"stored", "refused"}
    BY <1>10, <2>1, <1>t DEF CreateDocument, Go, Task
  <2>3. Keeper(u)'
    BY <2>2 DEF Keeper, Guarded, At
  <2> QED
    BY <1>10, <2>3, <1>o DEF CreateDocument, Go
<1>11. ASSUME NEW c \in Contents, LockExpires(c) PROVE LockInv'
  <2>1. lock[c] \in Uploads /\ task[lock[c]] \in Task
    BY <1>11, <1>t DEF LockExpires, TypeInv, HoldersWork
  <2> SUFFICES ASSUME NEW v \in Uploads PROVE Keeper(v)'
    BY DEF LockInv
  <2>2. CASE v = lock[c]
    <3>1. task'[v] = [task[v] EXCEPT !.late = TRUE]
      BY <1>11, <2>1, <2>2, <1>t DEF LockExpires
    <3>2. task'[v].late
      BY <2>1, <2>2, <3>1, LateField
    <3> QED
      BY <3>2 DEF Keeper
  <2>3. CASE v # lock[c]
    <3>1. task'[v] = task[v]
      BY <1>11, <2>1, <2>3, <1>t DEF LockExpires
    <3>2. task[v] # None => Content(v) \in Contents
      BY <1>t DEF Content, Task
    <3>3. task[v] # None => lock'[Content(v)] = lock[Content(v)] \/ lock[Content(v)] # v
      BY <1>11, <2>3, <3>2, <1>t DEF LockExpires
    <3> QED
      BY <3>1, <3>3, SameKeeper DEF LockInv
  <2> QED
    BY <2>2, <2>3
<1>12. CASE UNCHANGED uploadVars
  BY <1>12 DEF uploadVars, LockInv, Keeper, Guarded, At, Content
<1> QED
  BY <1>1, <1>2, <1>3, <1>4, <1>5, <1>6, <1>7, <1>8, <1>9, <1>10, <1>11, <1>12 DEF UploadsNext

(* However many uploads of however many contents there are, two add a content*)
(* at once only if one of them goes on without the lock it waited for or has *)
(* lost.                                                                     *)
THEOREM OneUploadAdds ==
  ASSUME None \notin Uploads
  PROVE  UploadsSpec => []OneAddsAContent
<1>1. UploadsInit => LockInv
  BY DEF UploadsInit, LockInv, Keeper, Guarded, At
<1>2. TypeInv /\ LockInv /\ [UploadsNext]_uploadVars => LockInv'
  BY LockStep
<1>3. LockInv => OneAddsAContent
  BY DEF LockInv, Keeper, Guarded, OneAddsAContent
<1> QED
  BY <1>1, <1>2, <1>3, UploadsTyped, PTL DEF UploadsSpec

-----------------------------------------------------------------------------
(* What an upload has found is where its file is; it has found nothing before*)
(* it added, and what found nothing and is about to be stored is on the disk *)
(* or failed.                                                                *)
Early == {"look", "lock", "recheck", "add", "again"}
FoundIn(t, files) ==
  /\ t.found = None \/ (t.found = t.content /\ t.content \in files)
  /\ t.step \in Early => t.found = None
  /\ t.step = "again" => t.failed
FoundWell(t) == FoundIn(t, added)
KeptWell(u) ==
  task[u].step \in {"release", "create"} /\ task[u].found = None
    => u \in disk \/ task[u].failed
Placed(u) ==
  document[u] # None =>
    /\ task[u] \in Task /\ task[u].step = "stored"
    /\ \/ document[u].ipfsHash = document[u].content /\ document[u].content \in added
       \/ document[u].ipfsHash = None /\ (u \in disk \/ task[u].failed)
Kept(u) == (task[u] \in Task => FoundWell(task[u]) /\ KeptWell(u)) /\ Placed(u)
FileInv == \A u \in Uploads : Kept(u)

(* What is known of a content was added.                                     *)
LEMMA KnownAdded ==
  ASSUME FileInv, NEW c, Known(c) # {}
  PROVE  c \in added
BY DEF FileInv, Kept, Placed, Known

(* Nothing is forgotten of the other uploads.                                *)
LEMMA OthersKept ==
  ASSUME NEW u, Kept(u), task'[u] = task[u], document'[u] = document[u],
         added \subseteq added', disk \subseteq disk'
  PROVE  Kept(u)'
BY DEF Kept, FoundWell, FoundIn, KeptWell, Placed

(* A record that loses its key is otherwise what it was.                     *)
LEMMA LateKept ==
  ASSUME NEW u, task[u] \in Task, Kept(u), document' = document,
         task'[u] = [task[u] EXCEPT !.late = TRUE],
         added' = added, disk' = disk
  PROVE  Kept(u)'
<1>1. /\ task'[u].step = task[u].step /\ task'[u].found = task[u].found
      /\ task'[u].failed = task[u].failed /\ task'[u].content = task[u].content
  BY DEF Task
<1>2. task'[u] \in Task
  BY DEF Task
<1> QED
  BY <1>1, <1>2 DEF Kept, FoundWell, FoundIn, KeptWell, Placed

(* Once the others are as they were, it is the upload that moved that counts.*)
LEMMA OneKept ==
  ASSUME TypeInv, FileInv, NEW u \in Uploads, NEW t, task' = [task EXCEPT ![u] = t],
         \A v \in Uploads : v # u => document'[v] = document[v],
         added \subseteq added', disk \subseteq disk', Kept(u)'
  PROVE  FileInv'
<1> SUFFICES ASSUME NEW v \in Uploads, v # u PROVE Kept(v)'
  BY DEF FileInv
<1>1. task'[v] = task[v]
  BY DEF TypeInv, UploadsTypeOK
<1> QED
  BY <1>1, OthersKept DEF FileInv

(* A step of an upload that has stored nothing yet.                          *)
LEMMA MovedKept ==
  ASSUME TypeInv, FileInv, NEW u \in Uploads, task[u] \in Task, task[u].step # "stored",
         document' = document,
         task'[u] \in Task => FoundWell(task[u])' /\ KeptWell(u)'
  PROVE  Kept(u)'
BY DEF FileInv, Kept, Placed

LEMMA FileStep ==
  ASSUME None \notin Uploads, None \notin Contents, None \notin Task,
         TypeInv, FileInv, [UploadsNext]_uploadVars
  PROVE  FileInv'
<1>t. task \in [Uploads -> Task \cup {None}] /\ document \in [Uploads ->
        [content : Contents, ipfsHash : Contents \cup {None}] \cup {None}]
  BY DEF TypeInv, UploadsTypeOK
<1>f. \A u \in Uploads : task[u] \in Task => FoundWell(task[u]) /\ KeptWell(u)
  BY DEF FileInv, Kept
<1>1. ASSUME NEW u \in Uploads, NEW c \in Contents, HandleUpload(u, c) PROVE FileInv'
  <2> DEFINE step == IF storage = "ipfs" THEN "look" ELSE "create"
             t == [content |-> c, step |-> step,
                   found |-> None, holds |-> FALSE, late |-> FALSE, failed |-> FALSE]
  <2>1. task' = [task EXCEPT ![u] = t] /\ task[u] = None
        /\ document' = document /\ added' = added
    BY <1>1 DEF HandleUpload
  <2>2. disk \subseteq disk' /\ (step = "create" => u \in disk')
    BY <1>1 DEF HandleUpload, TypeInv, UploadsTypeOK
  <2>3. document[u] = None
    BY <2>1 DEF FileInv, Kept, Placed
  <2>4. task'[u] = t
    BY <2>1, <1>t
  <2>5. step \in {"look", "create"}
    OBVIOUS
  <2> HIDE DEF step
  <2>6. Kept(u)'
    BY <2>1, <2>2, <2>3, <2>4, <2>5 DEF Kept, FoundWell, FoundIn, KeptWell, Placed, Early
  <2> HIDE DEF t
  <2> QED
    BY <2>1, <2>2, <2>6, OneKept
<1>m. ASSUME NEW u \in Uploads, NEW t, task[u] \in Task, task[u].step # "stored",
             task' = [task EXCEPT ![u] = t], document' = document,
             added \subseteq added', disk \subseteq disk',
             FoundIn(t, added'), t.step \in {"release", "create"} /\ t.found = None
               => u \in disk' \/ t.failed
      PROVE  FileInv'
  <2>1. task'[u] = t
    BY <1>m, <1>t
  <2>2. FoundWell(task[u])' /\ KeptWell(u)'
    BY <1>m, <2>1 DEF FoundWell, FoundIn, KeptWell
  <2>3. Kept(u)'
    BY <1>m, <2>2, MovedKept
  <2> QED
    BY <1>m, <2>3, OneKept
<1>2. ASSUME NEW u \in Uploads, FindExisting(u) PROVE FileInv'
  <2> DEFINE step == IF Known(Content(u)) # {} THEN "create" ELSE "lock"
             found == IF Known(Content(u)) # {} THEN Content(u) ELSE None
             t == [task[u] EXCEPT !.step = step, !.found = found]
  <2>1. task[u] \in Task /\ task[u].step = "look"
    BY <1>2, InFlight DEF FindExisting
  <2>2. /\ task' = [task EXCEPT ![u] = t] /\ document' = document
        /\ added' = added /\ disk' = disk
    BY <1>2 DEF FindExisting
  <2>3. \/ step = "create" /\ found = task[u].content /\ task[u].content \in added
        \/ step = "lock" /\ found = None
    BY KnownAdded DEF Content
  <2>4. t.step = step /\ t.found = found /\ t.content = task[u].content
    BY <2>1 DEF Task
  <2>5. task[u].content \in Contents
    BY <2>1 DEF Task
  <2> HIDE DEF step, found, t
  <2>6. FoundIn(t, added') /\ (t.step \in {"release", "create"} /\ t.found = None
               => u \in disk' \/ t.failed)
    BY <2>2, <2>3, <2>4, <2>5 DEF FoundWell, FoundIn, Early
  <2> QED
    BY <2>1, <2>2, <2>6, <1>m
<1>3. ASSUME NEW u \in Uploads, AcquireLock(u) PROVE FileInv'
  <2> DEFINE t == [task[u] EXCEPT !.step = "recheck", !.holds = TRUE]
  <2>1. task[u] \in Task /\ task[u].step = "lock"
    BY <1>3, InFlight DEF AcquireLock
  <2>2. task' = [task EXCEPT ![u] = t] /\ UNCHANGED <<document, added, disk>>
    BY <1>3 DEF AcquireLock
  <2>3. t.step = "recheck" /\ t.found = task[u].found /\ t.content = task[u].content
    BY <2>1 DEF Task
  <2> HIDE DEF t
  <2>4. FoundIn(t, added')
    BY <1>f, <2>1, <2>2, <2>3 DEF FoundWell, FoundIn, Early
  <2> QED
    BY <2>1, <2>2, <2>3, <2>4, <1>m
<1>4. ASSUME NEW u \in Uploads, GiveUpLock(u) PROVE FileInv'
  <2> DEFINE t == [task[u] EXCEPT !.step = "recheck", !.late = TRUE]
  <2>1. task[u] \in Task /\ task[u].step = "lock"
    BY <1>4, InFlight DEF GiveUpLock
  <2>2. task' = [task EXCEPT ![u] = t] /\ UNCHANGED <<document, added, disk>>
    BY <1>4 DEF GiveUpLock
  <2>3. t.step = "recheck" /\ t.found = task[u].found /\ t.content = task[u].content
    BY <2>1 DEF Task
  <2> HIDE DEF t
  <2>4. FoundIn(t, added')
    BY <1>f, <2>1, <2>2, <2>3 DEF FoundWell, FoundIn, Early
  <2> QED
    BY <2>1, <2>2, <2>3, <2>4, <1>m
<1>5. ASSUME NEW u \in Uploads, Recheck(u) PROVE FileInv'
  <2> DEFINE step == IF Known(Content(u)) # {} THEN "release" ELSE "add"
             found == IF Known(Content(u)) # {} THEN Content(u) ELSE None
             t == [task[u] EXCEPT !.step = step, !.found = found]
  <2>1. task[u] \in Task /\ task[u].step = "recheck"
    BY <1>5, InFlight DEF Recheck
  <2>2. /\ task' = [task EXCEPT ![u] = t] /\ document' = document
        /\ added' = added /\ disk' = disk
    BY <1>5 DEF Recheck
  <2>3. \/ step = "release" /\ found = task[u].content /\ task[u].content \in added
        \/ step = "add" /\ found = None
    BY KnownAdded DEF Content
  <2>4. t.step = step /\ t.found = found /\ t.content = task[u].content
    BY <2>1 DEF Task
  <2>5. task[u].content \in Contents
    BY <2>1 DEF Task
  <2> HIDE DEF step, found, t
  <2>6. FoundIn(t, added') /\ (t.step \in {"release", "create"} /\ t.found = None
               => u \in disk' \/ t.failed)
    BY <2>2, <2>3, <2>4, <2>5 DEF FoundWell, FoundIn, Early
  <2> QED
    BY <2>1, <2>2, <2>6, <1>m
<1>6. ASSUME NEW u \in Uploads, AddFile(u) PROVE FileInv'
  <2>1. task[u] \in Task /\ task[u].step = "add" /\ task[u].content \in Contents
    BY <1>6, InFlight DEF AddFile, Content
  <2>2. CASE /\ task' = [task EXCEPT ![u] = [task[u] EXCEPT !.step = "release", !.found = Content(u)]]
             /\ added' = added \cup {Content(u)} /\ disk' = disk
    <3> DEFINE t == [task[u] EXCEPT !.step = "release", !.found = Content(u)]
    <3>1. /\ t.step = "release" /\ t.found = task[u].content /\ t.content = task[u].content
      BY <2>1 DEF Task, Content
    <3> HIDE DEF t
    <3>2. FoundIn(t, added') /\ t.found # None /\ added \subseteq added'
      BY <2>1, <2>2, <3>1 DEF FoundWell, FoundIn, Early, Content
    <3>3. task' = [task EXCEPT ![u] = t] /\ document' = document
      BY <1>6, <2>2 DEF AddFile, t
    <3> QED
      BY <2>1, <2>2, <3>2, <3>3, <1>m
  <2>3. CASE /\ task' = [task EXCEPT ![u] = [task[u] EXCEPT !.step = "release"]]
             /\ added' = added /\ disk' = disk \cup {u}
    <3> DEFINE t == [task[u] EXCEPT !.step = "release"]
    <3>1. /\ t.step = "release" /\ t.found = task[u].found /\ t.content = task[u].content
      BY <2>1 DEF Task
    <3> HIDE DEF t
    <3>2. FoundIn(t, added') /\ u \in disk' /\ disk \subseteq disk'
      BY <1>f, <2>1, <2>3, <3>1 DEF FoundWell, FoundIn, Early
    <3>3. task' = [task EXCEPT ![u] = t] /\ document' = document
      BY <1>6, <2>3 DEF AddFile, t
    <3> QED
      BY <2>1, <2>3, <3>2, <3>3, <1>m
  <2> QED
    BY <1>6, <2>2, <2>3 DEF AddFile, Go
<1>g. ASSUME NEW u \in Uploads, NEW t \in Task, task[u] \in Task, task[u].step # "stored",
             UNCHANGED <<added, disk, document>>,
             FoundWell(t), t.step \in {"release", "create"} /\ t.found = None
               => u \in disk \/ t.failed,
             task' = [v \in Uploads |->
               IF v = u THEN t
               ELSE IF task[u].holds /\ lock[Content(u)] = v THEN [task[v] EXCEPT !.late = TRUE]
               ELSE task[v]]
      PROVE  FileInv'
  <2> SUFFICES ASSUME NEW v \in Uploads PROVE Kept(v)'
    BY DEF FileInv
  <2>1. CASE v = u
    <3>1. task'[u] = t
      BY <1>g
    <3>2. FoundWell(task[u])' /\ KeptWell(u)'
      BY <1>g, <3>1 DEF FoundWell, FoundIn, KeptWell
    <3> QED
      BY <1>g, <2>1, <3>2, MovedKept
  <2>2. CASE v # u /\ task[u].holds /\ lock[Content(u)] = v
    <3>1. Content(u) \in Contents
      BY <1>g DEF Content, Task
    <3>2. task[v] \in Task
      BY <2>2, <3>1 DEF TypeInv, HoldersWork
    <3>3. task'[v] = [task[v] EXCEPT !.late = TRUE]
      BY <1>g, <2>2
    <3> QED
      BY <1>g, <3>2, <3>3, LateKept DEF FileInv
  <2>3. CASE v # u /\ ~(task[u].holds /\ lock[Content(u)] = v)
    <3>1. task'[v] = task[v]
      BY <1>g, <2>3
    <3> QED
      BY <1>g, <3>1, OthersKept DEF FileInv
  <2> QED
    BY <2>1, <2>2, <2>3
<1>7. ASSUME NEW u \in Uploads, ReleaseLock(u) PROVE FileInv'
  <2> DEFINE t == [task[u] EXCEPT !.step = "create", !.holds = FALSE]
  <2>1. task[u] \in Task /\ task[u].step = "release"
    BY <1>7, InFlight DEF ReleaseLock
  <2>2. t \in Task /\ t.step = "create" /\ t.found = task[u].found
        /\ t.content = task[u].content /\ t.failed = task[u].failed
    BY <2>1 DEF Task, Steps
  <2>3. /\ task' = [v \in Uploads |->
             IF v = u THEN t
             ELSE IF task[u].holds /\ lock[Content(u)] = v THEN [task[v] EXCEPT !.late = TRUE]
             ELSE task[v]]
        /\ UNCHANGED <<added, disk, document>>
    BY <1>7 DEF ReleaseLock
  <2> HIDE DEF t
  <2>4. FoundWell(t) /\ (t.found = None => u \in disk \/ t.failed)
    BY <1>f, <2>1, <2>2 DEF FoundWell, FoundIn, KeptWell, Early
  <2> QED
    BY <2>1, <2>2, <2>3, <2>4, <1>g
<1>8. ASSUME NEW u \in Uploads, DedupeFails(u) PROVE FileInv'
  <2> DEFINE t == [task[u] EXCEPT !.step = "again", !.holds = FALSE, !.failed = TRUE]
  <2>1. task[u] \in Task /\ task[u].step \in {"look", "lock", "recheck", "add"}
    BY <1>8, InFlight DEF DedupeFails
  <2>2. t \in Task /\ t.step = "again" /\ t.found = task[u].found
        /\ t.content = task[u].content /\ t.failed
    BY <2>1 DEF Task, Steps
  <2>3. /\ task' = [v \in Uploads |->
             IF v = u THEN t
             ELSE IF task[u].holds /\ lock[Content(u)] = v THEN [task[v] EXCEPT !.late = TRUE]
             ELSE task[v]]
        /\ UNCHANGED <<added, disk, document>>
    BY <1>8 DEF DedupeFails
  <2> HIDE DEF t
  <2>4. FoundWell(t)
    BY <1>f, <2>1, <2>2 DEF FoundWell, FoundIn, Early
  <2> QED
    BY <2>1, <2>2, <2>3, <2>4, <1>g
<1>9. ASSUME NEW u \in Uploads, AddAgain(u) PROVE FileInv'
  <2>1. task[u] \in Task /\ task[u].step = "again" /\ task[u].content \in Contents
    BY <1>9, InFlight DEF AddAgain, Content
  <2>2. CASE /\ task' = [task EXCEPT ![u] = [task[u] EXCEPT !.step = "create", !.found = Content(u)]]
             /\ added' = added \cup {Content(u)}
    <3> DEFINE t == [task[u] EXCEPT !.step = "create", !.found = Content(u)]
    <3>1. /\ t.step = "create" /\ t.found = task[u].content /\ t.content = task[u].content
      BY <2>1 DEF Task, Content
    <3> HIDE DEF t
    <3>2. FoundIn(t, added') /\ t.found # None /\ added \subseteq added'
      BY <2>1, <2>2, <3>1 DEF FoundWell, FoundIn, Early, Content
    <3>3. task' = [task EXCEPT ![u] = t] /\ document' = document /\ disk' = disk
      BY <1>9, <2>2 DEF AddAgain, t
    <3> QED
      BY <2>1, <3>2, <3>3, <1>m
  <2>3. CASE /\ task' = [task EXCEPT ![u] = [task[u] EXCEPT !.step = "create"]]
             /\ added' = added
    <3> DEFINE t == [task[u] EXCEPT !.step = "create"]
    <3>1. /\ t.step = "create" /\ t.found = task[u].found /\ t.content = task[u].content
          /\ t.failed = task[u].failed
      BY <2>1 DEF Task
    <3> HIDE DEF t
    <3>2. FoundIn(t, added') /\ t.failed
      BY <1>f, <2>1, <2>3, <3>1 DEF FoundWell, FoundIn, Early
    <3>3. task' = [task EXCEPT ![u] = t] /\ document' = document /\ disk' = disk
      BY <1>9, <2>3 DEF AddAgain, t
    <3> QED
      BY <2>1, <2>3, <3>2, <3>3, <1>m
  <2> QED
    BY <1>9, <2>2, <2>3 DEF AddAgain, Go
<1>10. ASSUME NEW u \in Uploads, CreateDocument(u) PROVE FileInv'
  <2>1. task[u] \in Task /\ task[u].step = "create"
    BY <1>10, InFlight DEF CreateDocument
  <2>2. CASE /\ task' = [task EXCEPT ![u] = [task[u] EXCEPT !.step = "refused"]]
             /\ document' = document
    <3> DEFINE t == [task[u] EXCEPT !.step = "refused"]
    <3>1. t.step = "refused" /\ t.found = task[u].found /\ t.content = task[u].content
      BY <2>1 DEF Task
    <3> HIDE DEF t
    <3>2. added' = added /\ disk' = disk /\ task' = [task EXCEPT ![u] = t]
      BY <1>10, <2>2 DEF CreateDocument, t
    <3>3. FoundIn(t, added')
      BY <1>f, <2>1, <3>1, <3>2 DEF FoundWell, FoundIn, Early
    <3> QED
      BY <2>1, <2>2, <3>1, <3>2, <3>3, <1>m
  <2>3. CASE /\ task' = [task EXCEPT ![u] = [task[u] EXCEPT !.step = "stored"]]
             /\ document' = [document EXCEPT ![u] =
                  [content |-> Content(u), ipfsHash |-> task[u].found]]
    <3> DEFINE t == [task[u] EXCEPT !.step = "stored"]
               d == [content |-> Content(u), ipfsHash |-> task[u].found]
    <3>1. t.step = "stored" /\ t.found = task[u].found /\ t.content = task[u].content
          /\ t.failed = task[u].failed /\ t \in Task
      BY <2>1 DEF Task, Steps
    <3>2. d.content = task[u].content /\ d.ipfsHash = task[u].found
      BY DEF Content
    <3> HIDE DEF t, d
    <3>3. added' = added /\ disk' = disk /\ task' = [task EXCEPT ![u] = t]
          /\ document' = [document EXCEPT ![u] = d]
      BY <1>10, <2>3 DEF CreateDocument, t, d
    <3>4. task'[u] = t /\ document'[u] = d
      BY <3>3, <1>t
    <3>5. FoundWell(task[u]) /\ KeptWell(u)
      BY <1>f, <2>1
    <3>6. FoundWell(task[u])' /\ KeptWell(u)'
      BY <3>1, <3>3, <3>4, <3>5 DEF FoundWell, FoundIn, KeptWell, Early
    <3>7. Placed(u)'
      BY <2>1, <3>1, <3>2, <3>3, <3>4, <3>5 DEF FoundWell, FoundIn, KeptWell, Placed
    <3>8. \A v \in Uploads : v # u => document'[v] = document[v]
      BY <3>3, <1>t
    <3> QED
      BY <3>3, <3>6, <3>7, <3>8, OneKept DEF Kept
  <2> QED
    BY <1>10, <2>2, <2>3 DEF CreateDocument, Go
<1>11. ASSUME NEW c \in Contents, LockExpires(c) PROVE FileInv'
  <2>1. lock[c] \in Uploads /\ task[lock[c]] \in Task
    BY <1>11 DEF LockExpires, TypeInv, UploadsTypeOK, HoldersWork
  <2> SUFFICES ASSUME NEW v \in Uploads PROVE Kept(v)'
    BY DEF FileInv
  <2>2. UNCHANGED <<added, disk, document>>
    BY <1>11 DEF LockExpires
  <2>3. CASE v = lock[c]
    <3>1. task'[v] = [task[v] EXCEPT !.late = TRUE]
      BY <1>11, <2>1, <2>3, <1>t DEF LockExpires
    <3> QED
      BY <2>1, <2>2, <2>3, <3>1, LateKept DEF FileInv
  <2>4. CASE v # lock[c]
    <3>1. task'[v] = task[v]
      BY <1>11, <2>1, <2>4, <1>t DEF LockExpires
    <3> QED
      BY <2>2, <3>1, OthersKept DEF FileInv
  <2> QED
    BY <2>3, <2>4
<1>12. CASE UNCHANGED uploadVars
  BY <1>12 DEF uploadVars, FileInv, Kept, FoundWell, FoundIn, KeptWell, Placed
<1> QED
  BY <1>1, <1>2, <1>3, <1>4, <1>5, <1>6, <1>7, <1>8, <1>9, <1>10, <1>11, <1>12 DEF UploadsNext

(* However many uploads overlap, fail or lose their locks: a document that   *)
(* names a file of IPFS names one that was added there, and a document that  *)
(* names none has its file on the disk, unless the dedupe and then the node  *)
(* failed.                                                                   *)
THEOREM StoredFilesExist ==
  ASSUME None \notin Uploads, None \notin Contents, None \notin Task
  PROVE  UploadsSpec => []FilesAreSomewhere
<1>1. UploadsInit => FileInv
  BY DEF UploadsInit, FileInv, Kept, Placed
<1>2. TypeInv /\ FileInv /\ [UploadsNext]_uploadVars => FileInv'
  BY FileStep
<1>3. FileInv => FilesAreSomewhere
  BY DEF FileInv, Kept, Placed, FilesAreSomewhere
<1> QED
  BY <1>1, <1>2, <1>3, UploadsTyped, PTL DEF UploadsSpec
=============================================================================
