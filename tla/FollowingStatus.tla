------------------------------- MODULE FollowingStatus -------------------------------
(***************************************************************************)
(* UserStatusService's page 0 of the users one viewer follows: the page in *)
(* redis (240 s fresh, 60 s stale) behind a lock of two seconds that no    *)
(* one releases, the copy in memory (30 s) and the fetch that concurrent   *)
(* calls share.  A fetch also writes user:status:<id> of everyone it read. *)
(***************************************************************************)
EXTENDS PresenceGateway

CONSTANTS
  Calls,        \* calls of the service in flight
  MaxCalls,     \* bounds how many calls are made
  MaxFollows    \* bounds how often the list of followed users changes

ASSUME FollowingAssumption == MaxCalls \in Nat /\ MaxFollows \in Nat

VARIABLES
  follows,      \* the users the viewer follows, kept by direct-messaging
  page,         \* the cached page, None when there is none
  lock,         \* the lock key of the page exists
  memory,       \* the list of the copy in memory, None when there is none
  fetch,        \* prewarmInProgress: the call that fetches, None when none does
  call,         \* call[c]: a call in flight
  calls, changes  \* history: calls made, changes of the list

followingVars == <<follows, page, lock, memory, fetch, call, calls, changes>>

PageOf == [age : {"fresh", "stale"}, list : SUBSET Users]
CallStep == {"lock", "wait", "again", "share", "follow", "read", "store", "hot", "keys", "drop"}
Call == [step : CallStep, list : SUBSET Users,
         seen : UNION {[S -> Status] : S \in SUBSET Users},  \* what it read of them
         keys : SUBSET {"page", "lock"}]                      \* what it will delete

FollowingTypeOK ==
  /\ follows \subseteq Users
  /\ page \in PageOf \cup {None}
  /\ lock \in BOOLEAN
  /\ memory \in (SUBSET Users) \cup {None}
  /\ fetch \in Calls \cup {None}
  /\ call \in [Calls -> Call \cup {None}]
  /\ calls \in 0 .. MaxCalls /\ changes \in 0 .. MaxFollows

FollowingInit ==
  /\ follows = Users
  /\ page = None /\ lock = FALSE /\ memory = None
  /\ fetch = None
  /\ call = [c \in Calls |-> None]
  /\ calls = 0 /\ changes = 0

NoOne == [u \in {} |-> "offline"]
CallAt(c, step) == call[c] # None /\ call[c].step = step
Advance(c, step) == call' = [call EXCEPT ![c].step = step]
Return(c) == call' = [call EXCEPT ![c] = None]
StatusInDb(u) == IF mongo[u] = None THEN "offline" ELSE mongo[u]

(* fetchAndCacheFollowingStatus begins with the copy in memory.              *)
Entry == IF memory = None THEN "again" ELSE "answered"
Begin(c, step) ==
  call' = [call EXCEPT ![c] = IF step = "answered" THEN None
                              ELSE [step |-> step, list |-> {}, seen |-> NoOne, keys |-> {}]]

NewCall(c) == call[c] = None /\ calls < MaxCalls /\ calls' = calls + 1

-----------------------------------------------------------------------------
(* A fresh page answers, a stale one answers and is fetched behind the       *)
(* answer, and without a page the caller goes for the lock.                  *)
GetFollowingUsersStatus(c) ==
  /\ NewCall(c)
  /\ IF page = None THEN Begin(c, "lock")
     ELSE IF page.age = "stale" THEN Begin(c, Entry)
     ELSE Begin(c, "answered")
  /\ UNCHANGED <<follows, page, lock, memory, fetch, changes>>

PrewarmFollowingCache(c) ==
  /\ NewCall(c)
  /\ Begin(c, IF fetch = None THEN Entry ELSE "answered")
  /\ UNCHANGED <<follows, page, lock, memory, fetch, changes>>

(* set NX EX 2; nobody deletes the lock.                                     *)
AcquirePageLock(c) ==
  /\ CallAt(c, "lock")
  /\ lock' = TRUE
  /\ IF lock THEN Advance(c, "wait") ELSE Begin(c, Entry)
  /\ UNCHANGED <<follows, page, memory, fetch, calls, changes>>

WaitForPage(c) ==
  /\ CallAt(c, "wait") /\ page # None
  /\ Return(c)
  /\ UNCHANGED <<follows, page, lock, memory, fetch, calls, changes>>

WaitForPageTimeout(c) ==
  /\ CallAt(c, "wait") /\ page = None
  /\ Begin(c, Entry)
  /\ UNCHANGED <<follows, page, lock, memory, fetch, calls, changes>>

(* Faulty: whether a fetch is in progress is not asked.                      *)
FetchAnyway(c) ==
  /\ CallAt(c, "again")
  /\ Advance(c, "follow") /\ fetch' = c
  /\ UNCHANGED <<follows, page, lock, memory, calls, changes>>

(* Redis is asked once more, and only then whether a fetch is in progress.   *)
FetchOnce(c) ==
  /\ CallAt(c, "again")
  /\ IF page # None /\ page.age = "fresh"
     THEN memory' = page.list /\ Return(c) /\ UNCHANGED fetch
     ELSE /\ UNCHANGED memory
          /\ IF fetch # None
             THEN Advance(c, "share") /\ UNCHANGED fetch
             ELSE Advance(c, "follow") /\ fetch' = c
  /\ UNCHANGED <<follows, page, lock, calls, changes>>

(* Faulty: the promise never settles for the others.                         *)
EndFetchAlone(c) ==
  /\ fetch' = IF fetch = c THEN None ELSE fetch
  /\ Return(c)

(* The promise of the fetch settles: everyone who shares it is answered.     *)
EndFetch(c) ==
  /\ fetch' = IF fetch = c THEN None ELSE fetch
  /\ call' = [d \in Calls |-> IF d = c \/ CallAt(d, "share") THEN None ELSE call[d]]

GetUserFollowing(c) ==
  /\ CallAt(c, "follow")
  /\ call' = [call EXCEPT ![c] =
       [@ EXCEPT !.step = IF follows = {} THEN "store" ELSE "read", !.list = follows]]
  /\ UNCHANGED <<follows, page, lock, memory, fetch, calls, changes>>

(* user_statuses, then the profiles of another service.                      *)
GetBulkUserStatus(c) ==
  /\ CallAt(c, "read")
  /\ call' = [call EXCEPT ![c] =
       [@ EXCEPT !.step = "store", !.seen = [u \in call[c].list |-> StatusInDb(u)]]]
  /\ UNCHANGED <<follows, page, lock, memory, fetch, calls, changes>>

FetchThrows(c) ==
  /\ CallAt(c, "follow") \/ CallAt(c, "read")
  /\ EndFetch(c)
  /\ UNCHANGED <<follows, page, lock, memory, calls, changes>>

SetCachedFollowingStatus(c) ==
  /\ CallAt(c, "store")
  /\ page' = [age |-> "fresh", list |-> call[c].list]
  /\ IF call[c].list = {} THEN EndFetch(c) ELSE Advance(c, "hot") /\ UNCHANGED fetch
  /\ UNCHANGED <<follows, lock, memory, calls, changes>>

(* Faulty: who is on the page is written as online.                          *)
SynchronizeOnline(c) ==
  /\ CallAt(c, "hot")
  /\ hot' = [u \in Users |-> IF u \in call[c].list THEN "online" ELSE hot[u]]
  /\ EndFetch(c)
  /\ UNCHANGED <<unsure, follows, page, lock, memory, calls, changes>>

(* One multi: the keys of who left the page are deleted (the page it         *)
(* compares with is its own, or gone) and the keys of who is on it written.  *)
SynchronizeHotCache(c) ==
  LET left == IF page = None THEN {} ELSE page.list \ call[c].list
      seen == call[c].seen
  IN
  /\ CallAt(c, "hot")
  /\ hot' = [u \in Users |-> IF u \in DOMAIN seen THEN seen[u]
                             ELSE IF u \in left THEN None ELSE hot[u]]
  /\ unsure' = unsure \cup {u \in DOMAIN seen : seen[u] # StatusInDb(u)}
  /\ EndFetch(c)
  /\ UNCHANGED <<follows, page, lock, memory, calls, changes>>

-----------------------------------------------------------------------------
(* handleFollowingChanged: KEYS of the pages, which lists the lock key too,  *)
(* DEL of what it listed, and a prewarm.                                     *)
HandleFollowingChanged(c) ==
  /\ NewCall(c)
  /\ Begin(c, "keys")
  /\ UNCHANGED <<follows, page, lock, memory, fetch, changes>>

KeysOfPage == (IF page = None THEN {} ELSE {"page"}) \cup (IF lock THEN {"lock"} ELSE {})

ListPages(c) ==
  /\ CallAt(c, "keys")
  /\ call' = [call EXCEPT ![c] = [@ EXCEPT !.step = "drop", !.keys = KeysOfPage]]
  /\ UNCHANGED <<follows, page, lock, memory, fetch, calls, changes>>

DropPages(c) ==
  /\ CallAt(c, "drop")
  /\ page' = IF "page" \in call[c].keys THEN None ELSE page
  /\ lock' = (lock /\ "lock" \notin call[c].keys)
  /\ Begin(c, IF fetch = None THEN Entry ELSE "answered")
  /\ UNCHANGED <<follows, memory, fetch, calls, changes>>

(* Someone is followed or unfollowed, in another service.                    *)
FollowsChange ==
  /\ changes < MaxFollows
  /\ \E u \in Users :
       follows' = IF u \in follows THEN follows \ {u} ELSE follows \cup {u}
  /\ changes' = changes + 1
  /\ UNCHANGED <<page, lock, memory, fetch, call, calls>>

PageAges ==
  /\ page # None
  /\ page' = IF page.age = "fresh" THEN [page EXCEPT !.age = "stale"] ELSE None
  /\ UNCHANGED <<follows, lock, memory, fetch, call, calls, changes>>

MemoryExpires ==
  /\ memory # None
  /\ memory' = None
  /\ UNCHANGED <<follows, page, lock, fetch, call, calls, changes>>

PageLockExpires ==
  /\ lock
  /\ lock' = FALSE
  /\ UNCHANGED <<follows, page, memory, fetch, call, calls, changes>>

ServiceStep(c) ==
  \/ AcquirePageLock(c) \/ WaitForPage(c) \/ WaitForPageTimeout(c) \/ FetchOnce(c)
  \/ GetUserFollowing(c) \/ GetBulkUserStatus(c) \/ SetCachedFollowingStatus(c)
  \/ ListPages(c) \/ DropPages(c)

QuietStep ==
  \/ \E c \in Calls :
       \/ GetFollowingUsersStatus(c) \/ PrewarmFollowingCache(c)
       \/ HandleFollowingChanged(c)
       \/ ServiceStep(c) \/ FetchThrows(c)
  \/ FollowsChange \/ PageAges \/ MemoryExpires \/ PageLockExpires

FollowingNext ==
  \/ QuietStep /\ UNCHANGED presenceVars
  \/ \E c \in Calls :
       /\ SynchronizeHotCache(c)
       /\ UNCHANGED <<open, meta, mongo, identifying, recent, handler, events, restarts>>

(* A restart of the process ends every call and forgets what is in memory.   *)
ForgetCalls ==
  /\ memory' = None /\ fetch' = None
  /\ call' = [c \in Calls |-> None]
  /\ UNCHANGED <<follows, page, lock, calls, changes>>
==========================================================================
