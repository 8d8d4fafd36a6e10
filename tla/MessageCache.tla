-------------------------------- MODULE MessageCache --------------------------------
(***************************************************************************)
(* The page cache in redis that the two messaging services put before      *)
(* MongoDB (each has its copy of redis-cache.service.ts), and a list       *)
(* request on its way through it: GET, SET NX, a second GET, the read of   *)
(* MongoDB with the profiles it needs, SETEX, DEL of the lock.  One room   *)
(* is modelled; a page key names the page and not the limit it was filled  *)
(* with.  Contents are numbers: 0 as sent, n by the n-th edit, Deleted.    *)
(***************************************************************************)
EXTENDS MessageListing

CONSTANTS
  Requests,      \* list requests in flight
  Pages, Limits, \* what a client may ask for
  PrewarmLimit,  \* 10 in the code: the limit a prewarmed page is filled with
  MaxMessages, MaxEdits, MaxTime,  \* bounds on the room's history
  None

ASSUME CacheAssumption ==
  /\ Pages \subseteq Nat /\ 0 \in Pages
  /\ Limits \subseteq Nat \ {0} /\ PrewarmLimit \in Nat \ {0}
  /\ MaxMessages \in Nat /\ MaxEdits \in Nat /\ MaxTime \in Nat

VARIABLES
  message,  \* the room's documents: a history in the sense of MessageListing
  entry,    \* entry[p]: the cached page, its age and the limit it was filled with
  lock,     \* lock[p]: the lock key of page p is set
  req       \* req[r]: a list request, a refresh or a prewarm

cacheVars == <<message, entry, lock, req>>

Deleted == MaxEdits + 1
Message == [at : 1 .. MaxTime, text : 0 .. Deleted, gone : BOOLEAN]
Items == Seq((1 .. MaxMessages) \X (0 .. Deleted))
Entry == [items : Items, limit : Limits \cup {PrewarmLimit},
          age : {"fresh", "stale"},
          behind : BOOLEAN]  \* history: why it may differ is known, see Behind
Request == [step : {"lock", "check", "fetch", "store", "release", "wait"},
            page : Pages, limit : Limits \cup {PrewarmLimit},
            items : Items,
            holds : BOOLEAN,   \* it set the lock and will delete it
            lost : BOOLEAN,    \* history: the key went while it held it
            behind : BOOLEAN]  \* history: the room changed since it read it

CacheTypeOK ==
  /\ message \in Seq(Message) /\ Len(message) <= MaxMessages
  /\ entry \in [Pages -> Entry \cup {None}]
  /\ lock \in [Pages -> BOOLEAN]
  /\ req \in [Requests -> Request \cup {None}]

CacheInit ==
  /\ message = << >>
  /\ entry = [p \in Pages |-> None]
  /\ lock = [p \in Pages |-> FALSE]
  /\ req = [r \in Requests |-> None]

At(r, step) == req[r] # None /\ req[r].step = step
GoTo(r, step) == req' = [req EXCEPT ![r].step = step]
Done(r) == req' = [req EXCEPT ![r] = None]
Begin(r, step, p, l) ==
  req' = [req EXCEPT ![r] =
    [step |-> step, page |-> p, limit |-> l, items |-> << >>,
     holds |-> FALSE, lost |-> FALSE, behind |-> FALSE]]

Shown(order) == [k \in DOMAIN order |-> <<order[k], message[order[k]].text>>]
Fresh(p) == entry[p] # None /\ entry[p].age = "fresh"
Stale(p) == entry[p] # None /\ entry[p].age = "stale"

(* The lock key of page p is deleted: whoever believed it held it does not.  *)
LoseLocks(pages, rs) ==
  [r \in Requests |->
     IF rs[r] # None /\ rs[r].holds /\ rs[r].page \in pages
     THEN [rs[r] EXCEPT !.lost = TRUE] ELSE rs[r]]

-----------------------------------------------------------------------------
(* Faulty: the pages are counted from one.                                   *)
GetPageFromOne(r, p, l) ==
  /\ req[r] = None /\ ~Fresh(p)
  /\ Begin(r, IF Stale(p) THEN "fetch" ELSE "lock", p + 1, l)
  /\ UNCHANGED <<message, entry, lock>>

(* A fresh page is answered and nothing changes; a stale one is answered and *)
(* refreshed in the background, without the lock; a missing one is fetched.  *)
GetPage(r, p, l) ==
  /\ req[r] = None /\ ~Fresh(p)
  /\ Begin(r, IF Stale(p) THEN "fetch" ELSE "lock", p, l)
  /\ UNCHANGED <<message, entry, lock>>

(* Faulty: SET without NX.                                                   *)
AcquireLockAnyway(r) ==
  /\ At(r, "lock")
  /\ lock' = [lock EXCEPT ![req[r].page] = TRUE]
  /\ req' = [req EXCEPT ![r] = [@ EXCEPT !.step = "check", !.holds = TRUE]]
  /\ UNCHANGED <<message, entry>>

AcquireLock(r) ==
  /\ At(r, "lock")
  /\ LET p == req[r].page IN
     IF lock[p]
     THEN GoTo(r, "wait") /\ UNCHANGED lock
     ELSE /\ lock' = [lock EXCEPT ![p] = TRUE]
          /\ req' = [req EXCEPT ![r] = [@ EXCEPT !.step = "check", !.holds = TRUE]]
  /\ UNCHANGED <<message, entry>>

DoubleCheck(r) ==
  /\ At(r, "check")
  /\ GoTo(r, IF Fresh(req[r].page) THEN "release" ELSE "fetch")
  /\ UNCHANGED <<message, entry, lock>>

(* order: the whole room as MongoDB sorts it.                                *)
FetchFromDB(r, order) ==
  /\ At(r, "fetch")
  /\ req' = [req EXCEPT ![r] = [@ EXCEPT !.step = "store",
       !.items = Shown(Slice(order, req[r].page, req[r].limit))]]
  /\ UNCHANGED <<message, entry, lock>>

(* MongoDB fails: the lock is released; the read without cache that follows  *)
(* answers or fails, and nothing else changes.                               *)
FetchFails(r) ==
  /\ At(r, "fetch")
  /\ IF req[r].holds THEN GoTo(r, "release") ELSE Done(r)
  /\ UNCHANGED <<message, entry, lock>>

AfterFetch(r) == IF req[r].holds THEN GoTo(r, "release") ELSE Done(r)

SetCachedMessages(r) ==
  /\ At(r, "store")
  /\ entry' = [entry EXCEPT ![req[r].page] =
       [items |-> req[r].items, limit |-> req[r].limit, age |-> "fresh",
        behind |-> req[r].behind]]
  /\ AfterFetch(r)
  /\ UNCHANGED <<message, lock>>

NotCached(r) ==
  /\ At(r, "store")
  /\ AfterFetch(r)
  /\ UNCHANGED <<message, entry, lock>>

(* DEL of the lock key, whoever has set it in the meantime.                  *)
ReleaseLock(r) ==
  /\ At(r, "release")
  /\ lock' = [lock EXCEPT ![req[r].page] = FALSE]
  /\ req' = LoseLocks({req[r].page}, [req EXCEPT ![r] = None])
  /\ UNCHANGED <<message, entry>>

(* waitForCache polls for a fresh page and gives up after five seconds.      *)
WaitHit(r) ==
  /\ At(r, "wait") /\ Fresh(req[r].page)
  /\ Done(r)
  /\ UNCHANGED <<message, entry, lock>>

(* Faulty: it polls on.                                                      *)
WaitForEver(r) == At(r, "wait") /\ UNCHANGED cacheVars

WaitTimeout(r) ==
  /\ At(r, "wait")
  /\ GoTo(r, "fetch")
  /\ UNCHANGED <<message, entry, lock>>

(* Page 0 is fetched and stored without looking at the cache or the lock.    *)
Prewarm(r) ==
  /\ req[r] = None
  /\ Begin(r, "fetch", 0, PrewarmLimit)
  /\ UNCHANGED <<message, entry, lock>>

(* Time: an hour for a page to go stale, a minute more for its key to expire.*)
GoStale(p) ==
  /\ Fresh(p)
  /\ entry' = [entry EXCEPT ![p].age = "stale"]
  /\ UNCHANGED <<message, lock, req>>

(* Faulty: SET without EX.                                                   *)
StayStale(p) == Stale(p) /\ UNCHANGED cacheVars

Expire(p) ==
  /\ Stale(p)
  /\ entry' = [entry EXCEPT ![p] = None]
  /\ UNCHANGED <<message, lock, req>>

LockExpires(p) ==
  /\ lock[p]
  /\ lock' = [lock EXCEPT ![p] = FALSE]
  /\ req' = LoseLocks({p}, req)
  /\ UNCHANGED <<message, entry>>

RequestStep(r) ==
  \/ AcquireLock(r) \/ DoubleCheck(r) \/ SetCachedMessages(r) \/ ReleaseLock(r)
  \/ WaitHit(r) \/ WaitTimeout(r)
Clock(p) == GoStale(p) \/ Expire(p) \/ LockExpires(p)

-----------------------------------------------------------------------------
(* What the writers of the two services do to the cache.                     *)

(* The room changes under the requests that have read it but not stored.     *)
Behind(pages) ==
  [r \in Requests |-> IF At(r, "store") /\ req[r].page \in pages
                      THEN [req[r] EXCEPT !.behind = TRUE] ELSE req[r]]

InvalidatePage(p) == entry' = [entry EXCEPT ![p] = None]

(* Faulty: the keys of the first page alone.                                 *)
KeysOfFirstPage ==
  {<<"page", p>> : p \in {q \in {0} : entry[q] # None}}
  \cup {<<"lock", p>> : p \in {q \in {0} : lock[q]}}

(* KEYS page:* also matches the lock keys, which end in page:<n>:lock.       *)
KeysOfRoom ==
  {<<"page", p>> : p \in {q \in Pages : entry[q] # None}}
  \cup {<<"lock", p>> : p \in {q \in Pages : lock[q]}}

DeleteKeys(keys) ==
  LET locks == {p \in Pages : <<"lock", p>> \in keys} IN
  /\ entry' = [p \in Pages |-> IF <<"page", p>> \in keys THEN None ELSE entry[p]]
  /\ lock' = [p \in Pages |-> lock[p] /\ p \notin locks]
  /\ req' = LoseLocks(locks, req)
==========================================================================
