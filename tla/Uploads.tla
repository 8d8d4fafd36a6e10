---------------------------------- MODULE Uploads ----------------------------------
(***************************************************************************)
(* handleUpload of the two messaging services, STORAGE=ipfs or local: a    *)
(* file is added to IPFS once per content (the sha256 of its bytes), under *)
(* a redis lock that outlives neither 10 seconds nor 8 tries of 150 ms of  *)
(* those who wait for it, and a document then says where it is.            *)
(***************************************************************************)
EXTENDS Integers, FiniteSets

CONSTANTS
  Contents,   \* what files may contain
  Uploads,    \* requests; each stores at most one document
  None

VARIABLES
  storage,   \* "ipfs" or "local", as configured
  unique,    \* does the database have the unique index on contentHash?
  added,     \* contents the IPFS node has
  disk,      \* uploads whose file was written to the uploads directory
  lock,      \* lock[c]: the upload that holds ipfs:lock:<c>, None when free
  task,      \* task[u]: a request in flight, or what became of it
  document   \* document[u]: the ipfsHash of u's document, None when there is none

uploadVars == <<storage, unique, added, disk, lock, task, document>>

Steps == {"look", "lock", "recheck", "add", "release", "again", "create", "stored", "refused"}
Task == [content : Contents, step : Steps, found : Contents \cup {None},
         holds : BOOLEAN,   \* lockAcquired
         late : BOOLEAN,    \* it went on without the lock, or its key has expired
         failed : BOOLEAN]  \* the catch around the dedupe was taken

UploadsTypeOK ==
  /\ storage \in {"ipfs", "local"} /\ unique \in BOOLEAN
  /\ added \subseteq Contents /\ disk \subseteq Uploads
  /\ lock \in [Contents -> Uploads \cup {None}]
  /\ task \in [Uploads -> Task \cup {None}]
  /\ document \in [Uploads -> [content : Contents, ipfsHash : Contents \cup {None}] \cup {None}]

UploadsInit ==
  /\ storage \in {"ipfs", "local"} /\ unique \in BOOLEAN
  /\ added = {} /\ disk = {}
  /\ lock = [c \in Contents |-> None]
  /\ task = [u \in Uploads |-> None] /\ document = [u \in Uploads |-> None]

At(u, step) == task[u] # None /\ task[u].step = step
Content(u) == task[u].content
Go(u, step) == task' = [task EXCEPT ![u].step = step]

(* findOne of a document with this content and an ipfsHash.                  *)
Known(c) == {d \in {document[u] : u \in Uploads} \ {None} : d.content = c /\ d.ipfsHash # None}

-----------------------------------------------------------------------------
(* Who may upload was checked; without IPFS the file goes to the disk.       *)
HandleUpload(u, c) ==
  /\ task[u] = None
  /\ task' = [task EXCEPT ![u] =
       [content |-> c, step |-> IF storage = "ipfs" THEN "look" ELSE "create",
        found |-> None, holds |-> FALSE, late |-> FALSE, failed |-> FALSE]]
  /\ disk' = IF storage = "local" THEN disk \cup {u} ELSE disk
  /\ UNCHANGED <<storage, unique, added, lock, document>>

FindExisting(u) ==
  /\ At(u, "look")
  /\ task' = [task EXCEPT ![u] = [@ EXCEPT
       !.step = IF Known(Content(u)) # {} THEN "create" ELSE "lock",
       !.found = IF Known(Content(u)) # {} THEN Content(u) ELSE None]]
  /\ UNCHANGED <<storage, unique, added, disk, lock, document>>

(* Faulty: SET without NX.                                                   *)
AcquireLockAnyway(u) ==
  /\ At(u, "lock")
  /\ lock' = [lock EXCEPT ![Content(u)] = u]
  /\ task' = [task EXCEPT ![u] = [@ EXCEPT !.step = "recheck", !.holds = TRUE]]
  /\ UNCHANGED <<storage, unique, added, disk, document>>

AcquireLock(u) ==
  /\ At(u, "lock") /\ lock[Content(u)] = None
  /\ lock' = [lock EXCEPT ![Content(u)] = u]
  /\ task' = [task EXCEPT ![u] = [@ EXCEPT !.step = "recheck", !.holds = TRUE]]
  /\ UNCHANGED <<storage, unique, added, disk, document>>

(* The eighth try found it taken too: the upload goes on without it.         *)
GiveUpLock(u) ==
  /\ At(u, "lock") /\ lock[Content(u)] # None
  /\ task' = [task EXCEPT ![u] = [@ EXCEPT !.step = "recheck", !.late = TRUE]]
  /\ UNCHANGED <<storage, unique, added, disk, lock, document>>

Recheck(u) ==
  /\ At(u, "recheck")
  /\ task' = [task EXCEPT ![u] = [@ EXCEPT
       !.step = IF Known(Content(u)) # {} THEN "release" ELSE "add",
       !.found = IF Known(Content(u)) # {} THEN Content(u) ELSE None]]
  /\ UNCHANGED <<storage, unique, added, disk, lock, document>>

(* Faulty: a file that the node does not take is not kept.                   *)
AddFileOrNone(u) ==
  /\ At(u, "add")
  /\ \/ /\ added' = added \cup {Content(u)}
        /\ task' = [task EXCEPT ![u] = [@ EXCEPT !.step = "release", !.found = Content(u)]]
     \/ Go(u, "release") /\ UNCHANGED added
  /\ UNCHANGED <<storage, unique, disk, lock, document>>

(* ipfsService.uploadFile answers null when the node does not take the file  *)
(* within 60 seconds: it then goes to the disk.                              *)
AddFile(u) ==
  /\ At(u, "add")
  /\ \/ /\ added' = added \cup {Content(u)}
        /\ task' = [task EXCEPT ![u] = [@ EXCEPT !.step = "release", !.found = Content(u)]]
        /\ UNCHANGED disk
     \/ /\ disk' = disk \cup {u}
        /\ Go(u, "release")
        /\ UNCHANGED added
  /\ UNCHANGED <<storage, unique, lock, document>>

(* finally: the key is deleted by one who has taken it, whoever has it now.  *)
ReleaseLock(u) ==
  /\ At(u, "release")
  /\ lock' = IF task[u].holds THEN [lock EXCEPT ![Content(u)] = None] ELSE lock
  /\ task' = [v \in Uploads |->
       IF v = u THEN [task[u] EXCEPT !.step = "create", !.holds = FALSE]
       ELSE IF task[u].holds /\ lock[Content(u)] = v THEN [task[v] EXCEPT !.late = TRUE]
       ELSE task[v]]
  /\ UNCHANGED <<storage, unique, added, disk, document>>

(* MongoDB, redis or the disk throws: the file is added after all, and when  *)
(* the node does not take it then, it is kept nowhere.                       *)
DedupeFails(u) ==
  /\ \E step \in {"look", "lock", "recheck", "add"} : At(u, step)
  /\ lock' = IF task[u].holds THEN [lock EXCEPT ![Content(u)] = None] ELSE lock
  /\ task' = [v \in Uploads |->
       IF v = u THEN [task[u] EXCEPT !.step = "again", !.holds = FALSE, !.failed = TRUE]
       ELSE IF task[u].holds /\ lock[Content(u)] = v THEN [task[v] EXCEPT !.late = TRUE]
       ELSE task[v]]
  /\ UNCHANGED <<storage, unique, added, disk, document>>

AddAgain(u) ==
  /\ At(u, "again")
  /\ \/ /\ added' = added \cup {Content(u)}
        /\ task' = [task EXCEPT ![u] = [@ EXCEPT !.step = "create", !.found = Content(u)]]
     \/ Go(u, "create") /\ UNCHANGED added
  /\ UNCHANGED <<storage, unique, disk, lock, document>>

(* The document carries its contentHash, in either storage.  The schema asks *)
(* for two indexes of one name on it, one of them unique: which of them      *)
(* there is depends on which the database was given first.                   *)
CreateDocument(u) ==
  /\ At(u, "create")
  /\ IF unique /\ \E v \in Uploads : document[v] # None /\ document[v].content = Content(u)
     THEN Go(u, "refused") /\ UNCHANGED document
     ELSE /\ document' = [document EXCEPT ![u] =
               [content |-> Content(u), ipfsHash |-> task[u].found]]
          /\ Go(u, "stored")
  /\ UNCHANGED <<storage, unique, added, disk, lock>>

(* PX 10000 runs out while its holder still works.                           *)
LockExpires(c) ==
  /\ lock[c] # None
  /\ lock' = [lock EXCEPT ![c] = None]
  /\ task' = [task EXCEPT ![lock[c]].late = TRUE]
  /\ UNCHANGED <<storage, unique, added, disk, document>>

UploadsNext ==
  \/ \E u \in Uploads :
       \/ \E c \in Contents : HandleUpload(u, c)
       \/ FindExisting(u) \/ AcquireLock(u) \/ GiveUpLock(u) \/ Recheck(u)
       \/ AddFile(u) \/ ReleaseLock(u) \/ DedupeFails(u) \/ AddAgain(u)
       \/ CreateDocument(u)
  \/ \E c \in Contents : LockExpires(c)

UploadsSpec == UploadsInit /\ [][UploadsNext]_uploadVars

-----------------------------------------------------------------------------
(* handleUpload: the lock is there "to avoid concurrent uploads for same     *)
(* hash", and does, except among those of whom one waited in vain or lost it *)
(* (to its 10 seconds, or to the DEL of another that had lost it).           *)
OneAddsAContent ==
  \A u, v \in Uploads :
    u # v /\ At(u, "add") /\ At(v, "add") /\ Content(u) = Content(v)
      => task[u].late \/ task[v].late

(* handleUpload: a document's file is where it says (its ipfsHash, or none:  *)
(* the disk), whoever added it, unless dedupe and the node both failed.      *)
FilesAreSomewhere ==
  \A u \in Uploads : document[u] # None =>
    \/ document[u].ipfsHash = document[u].content /\ document[u].content \in added
    \/ document[u].ipfsHash = None /\ (u \in disk \/ task[u].failed)
=============================================================================
