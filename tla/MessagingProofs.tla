------------------------------- MODULE MessagingProofs -------------------------------
(***************************************************************************)
(* For any number of requests, writers and pages of a room of either kind: *)
(* what the lock of a page is worth, that the cache tells the truth, and   *)
(* that the pages from an anchor meet every message once.                  *)
(***************************************************************************)
EXTENDS Messaging, FiniteSetTheorems, SequenceTheorems, TLAPS

Steps == {"lock", "check", "fetch", "store", "release", "wait"}

(* A request, whatever the items it has read.                                *)
RecordOf(I) ==
  [step : Steps, page : Pages, limit : Limits \cup {PrewarmLimit}, items : I,
   holds : BOOLEAN, lost : BOOLEAN, behind : BOOLEAN]
IsRecord(x) == \E I : x \in RecordOf(I)

Shapes ==
  /\ req = [r \in Requests |-> req[r]]
  /\ \A r \in Requests : req[r] # None => IsRecord(req[r])
  /\ lock \in [Pages -> BOOLEAN]

(* Whoever holds the lock of a page and has not lost it: its key is set.     *)
HoldersKeys ==
  \A r \in Requests : req[r] # None /\ req[r].holds /\ ~req[r].lost => lock[req[r].page]

LockInv == Shapes /\ HoldersKeys /\ OneFillsAPage

(* A step of a request leaves what it does not write.                        *)
LEMMA StepOnly ==
  ASSUME NEW x, IsRecord(x), NEW s \in Steps
  PROVE  LET y == [x EXCEPT !.step = s] IN
         /\ IsRecord(y) /\ y.step = s
         /\ y.page = x.page /\ y.holds = x.holds /\ y.lost = x.lost
<1>1. PICK I : x \in RecordOf(I)
  BY DEF IsRecord
<1>2. [x EXCEPT !.step = s] \in RecordOf(I)
  BY <1>1 DEF RecordOf
<1> QED
  BY <1>1, <1>2 DEF IsRecord, RecordOf

LEMMA TakesLock ==
  ASSUME NEW x, IsRecord(x)
  PROVE  LET y == [x EXCEPT !.step = "check", !.holds = TRUE] IN
         IsRecord(y) /\ y.holds /\ y.page = x.page /\ y.lost = x.lost
<1>1. PICK I : x \in RecordOf(I)
  BY DEF IsRecord
<1>2. [x EXCEPT !.step = "check", !.holds = TRUE] \in RecordOf(I)
  BY <1>1 DEF RecordOf, Steps
<1> QED
  BY <1>1, <1>2 DEF IsRecord, RecordOf

LEMMA Reads ==
  ASSUME NEW x, IsRecord(x), NEW i
  PROVE  LET y == [x EXCEPT !.step = "store", !.items = i] IN
         /\ IsRecord(y)
         /\ y.page = x.page /\ y.holds = x.holds /\ y.lost = x.lost
<1>1. PICK I : x \in RecordOf(I)
  BY DEF IsRecord
<1>2. [x EXCEPT !.step = "store", !.items = i] \in RecordOf({i})
  BY <1>1 DEF RecordOf, Steps
<1> QED
  BY <1>1, <1>2 DEF IsRecord, RecordOf

LEMMA FallsBehind ==
  ASSUME NEW x, IsRecord(x)
  PROVE  LET y == [x EXCEPT !.behind = TRUE] IN
         /\ IsRecord(y)
         /\ y.page = x.page /\ y.holds = x.holds /\ y.lost = x.lost
<1>1. PICK I : x \in RecordOf(I)
  BY DEF IsRecord
<1>2. [x EXCEPT !.behind = TRUE] \in RecordOf(I)
  BY <1>1 DEF RecordOf
<1> QED
  BY <1>1, <1>2 DEF IsRecord, RecordOf

LEMMA LosesKey ==
  ASSUME NEW x, IsRecord(x)
  PROVE  LET y == [x EXCEPT !.lost = TRUE] IN
         IsRecord(y) /\ y.lost /\ y.page = x.page /\ y.holds = x.holds
<1>1. PICK I : x \in RecordOf(I)
  BY DEF IsRecord
<1>2. [x EXCEPT !.lost = TRUE] \in RecordOf(I)
  BY <1>1 DEF RecordOf
<1> QED
  BY <1>1, <1>2 DEF IsRecord, RecordOf

(* What every step does but the one that takes the key: the keys of ps are   *)
(* deleted, and those who held one know nothing of it but have lost it.      *)
Keeps(r, ps) ==
  \/ req'[r] = None
  \/ IsRecord(req'[r]) /\ ~req'[r].holds
  \/ /\ req[r] # None /\ IsRecord(req'[r])
     /\ req'[r].page = req[r].page /\ req'[r].holds = req[r].holds
     /\ req[r].lost \/ (req[r].holds /\ req[r].page \in ps) => req'[r].lost

LEMMA KeysDeleted ==
  ASSUME LockInv, NEW ps, req' = [r \in Requests |-> req'[r]], lock' \in [Pages -> BOOLEAN],
         \A r \in Requests : Keeps(r, ps), \A p \in Pages \ ps : lock'[p] = lock[p]
  PROVE  LockInv'
<1>r. \A r \in Requests : req[r] # None =>
        req[r].page \in Pages /\ req[r].holds \in BOOLEAN /\ req[r].lost \in BOOLEAN
  BY DEF LockInv, Shapes, IsRecord, RecordOf
<1>1. Shapes'
  BY DEF Shapes, Keeps
<1>2. HoldersKeys'
  BY <1>r DEF LockInv, HoldersKeys, Keeps
<1>3. OneFillsAPage'
  BY <1>r DEF LockInv, OneFillsAPage, Keeps
<1> QED
  BY <1>1, <1>2, <1>3 DEF LockInv

(* The ways in which the actions change the requests.                        *)
LEMMA OneRequest ==
  ASSUME LockInv, NEW r \in Requests, NEW x, req' = [req EXCEPT ![r] = x], lock' = lock,
         \/ x = None
         \/ IsRecord(x) /\ ~x.holds
         \/ /\ req[r] # None /\ IsRecord(x)
            /\ x.page = req[r].page /\ x.holds = req[r].holds /\ x.lost = req[r].lost
  PROVE  LockInv'
<1>1. req' = [q \in Requests |-> req'[q]] /\ req'[r] = x
        /\ \A q \in Requests \ {r} : req'[q] = req[q]
  BY DEF LockInv, Shapes
<1>2. \A q \in Requests \ {r} : Keeps(q, {})
  BY <1>1 DEF LockInv, Shapes, Keeps
<1>3. Keeps(r, {})
  BY <1>1 DEF Keeps
<1>4. \A q \in Requests : Keeps(q, {})
  BY <1>2, <1>3
<1>5. lock' \in [Pages -> BOOLEAN] /\ \A p \in Pages \ {} : lock'[p] = lock[p]
  BY DEF LockInv, Shapes
<1> QED
  BY <1>1, <1>4, <1>5, KeysDeleted

LEMMA Going ==
  ASSUME LockInv, NEW r \in Requests, req[r] # None, NEW s \in Steps, GoTo(r, s), lock' = lock
  PROVE  LockInv'
<1> DEFINE x == [req[r] EXCEPT !.step = s]
<1>1. IsRecord(req[r])
  BY DEF LockInv, Shapes
<1>2. /\ IsRecord(x)
      /\ x.page = req[r].page /\ x.holds = req[r].holds /\ x.lost = req[r].lost
  BY <1>1, StepOnly
<1>3. req' = [req EXCEPT ![r] = x]
  BY DEF GoTo
<1> HIDE DEF x
<1> QED
  BY <1>2, <1>3, OneRequest

LEMMA Ending ==
  ASSUME LockInv, NEW r \in Requests, Done(r), lock' = lock
  PROVE  LockInv'
BY OneRequest DEF Done

LEMMA Starting ==
  ASSUME LockInv, NEW r \in Requests, NEW s \in Steps, NEW p \in Pages,
         NEW l \in Limits \cup {PrewarmLimit}, Begin(r, s, p, l), lock' = lock
  PROVE  LockInv'
<1> DEFINE x == [step |-> s, page |-> p, limit |-> l, items |-> << >>,
                 holds |-> FALSE, lost |-> FALSE, behind |-> FALSE]
<1>1. x \in RecordOf({<< >>}) /\ ~x.holds
  BY DEF RecordOf
<1>2. req' = [req EXCEPT ![r] = x]
  BY DEF Begin
<1> HIDE DEF x
<1> QED
  BY <1>1, <1>2, OneRequest DEF IsRecord

(* The keys of ps are deleted, and those requests of which rs is what is left*)
(* learn nothing of it.                                                      *)
LEMMA Dropping ==
  ASSUME LockInv, NEW ps, NEW rs, req' = LoseLocks(ps, rs), lock' \in [Pages -> BOOLEAN],
         \A p \in Pages \ ps : lock'[p] = lock[p],
         \A r \in Requests : rs[r] = req[r] \/ rs[r] = None
  PROVE  LockInv'
<1>1. req' = [r \in Requests |-> req'[r]]
  BY DEF LoseLocks
<1>2. ASSUME NEW r \in Requests PROVE Keeps(r, ps)
  <2>1. CASE rs[r] = None
    BY <2>1 DEF LoseLocks, Keeps
  <2>2. CASE rs[r] = req[r] /\ rs[r] # None /\ rs[r].holds /\ rs[r].page \in ps
    <3>1. IsRecord(req[r])
      BY <2>2 DEF LockInv, Shapes
    <3>2. req'[r] = [req[r] EXCEPT !.lost = TRUE]
      BY <2>2 DEF LoseLocks
    <3> QED
      BY <2>2, <3>1, <3>2, LosesKey DEF Keeps
  <2>3. CASE rs[r] = req[r] /\ rs[r] # None /\ ~(rs[r].holds /\ rs[r].page \in ps)
    <3>1. IsRecord(req[r])
      BY <2>3 DEF LockInv, Shapes
    <3>2. req'[r] = req[r]
      BY <2>3 DEF LoseLocks
    <3> QED
      BY <2>3, <3>1, <3>2 DEF Keeps
  <2> QED
    BY <2>1, <2>2, <2>3
<1> QED
  BY <1>1, <1>2, KeysDeleted

LEMMA FallingBehind ==
  ASSUME LockInv, NEW ps, req' = Behind(ps), lock' = lock
  PROVE  LockInv'
<1>1. req' = [r \in Requests |-> req'[r]]
  BY DEF Behind
<1>2. ASSUME NEW r \in Requests PROVE Keeps(r, {})
  <2>1. CASE At(r, "store") /\ req[r].page \in ps
    <3>1. IsRecord(req[r]) /\ req[r] # None
      BY <2>1 DEF LockInv, Shapes, At
    <3>2. req'[r] = [req[r] EXCEPT !.behind = TRUE]
      BY <2>1 DEF Behind
    <3> QED
      BY <3>1, <3>2, FallsBehind DEF Keeps
  <2>2. CASE ~(At(r, "store") /\ req[r].page \in ps)
    <3>1. req'[r] = req[r]
      BY <2>2 DEF Behind
    <3> QED
      BY <3>1 DEF Keeps, LockInv, Shapes
  <2> QED
    BY <2>1, <2>2
<1>3. lock' \in [Pages -> BOOLEAN] /\ \A p \in Pages \ {} : lock'[p] = lock[p]
  BY DEF LockInv, Shapes
<1> QED
  BY <1>1, <1>2, <1>3, KeysDeleted

(* SET NX finds no key: whoever held the lock of this page has lost it.      *)
LEMMA Acquiring ==
  ASSUME LockInv, NEW r \in Requests, AcquireLock(r)
  PROVE  LockInv'
<1> DEFINE p == req[r].page
           x == [req[r] EXCEPT !.step = "check", !.holds = TRUE]
<1>1. req[r] # None /\ IsRecord(req[r])
  BY DEF AcquireLock, At, LockInv, Shapes
<1>2. CASE lock[p]
  <2>1. GoTo(r, "wait") /\ lock' = lock
    BY <1>2 DEF AcquireLock
  <2> QED
    BY <1>1, <2>1, Going DEF Steps
<1>3. CASE ~lock[p]
  <2>1. req' = [req EXCEPT ![r] = x] /\ lock' = [lock EXCEPT ![p] = TRUE]
    BY <1>3 DEF AcquireLock
  <2>2. p \in Pages
    BY <1>1 DEF IsRecord, RecordOf
  <2>3. IsRecord(x) /\ x.holds /\ x.page = p /\ x.lost = req[r].lost
    BY <1>1, TakesLock
  <2> HIDE DEF x
  <2>4. /\ req' = [q \in Requests |-> req'[q]] /\ req'[r] = x
        /\ \A q \in Requests \ {r} : req'[q] = req[q]
    BY <2>1 DEF LockInv, Shapes
  <2>5. /\ lock' \in [Pages -> BOOLEAN] /\ lock'[p]
        /\ \A q \in Pages : lock[q] => lock'[q]
    BY <2>1, <2>2 DEF LockInv, Shapes
  <2>6. \A q \in Requests : req[q] # None => req[q].page \in Pages
    BY DEF LockInv, Shapes, IsRecord, RecordOf
  <2> HIDE DEF p
  <2>7. Shapes'
    BY <2>3, <2>4, <2>5 DEF LockInv, Shapes
  <2>8. HoldersKeys'
    BY <2>3, <2>4, <2>5, <2>6 DEF LockInv, HoldersKeys
  <2>9. \A q \in Requests : req[q] # None /\ req[q].holds /\ req[q].page = p => req[q].lost
    BY <1>3 DEF LockInv, HoldersKeys
  <2>10. OneFillsAPage'
    BY <2>3, <2>4, <2>9 DEF LockInv, OneFillsAPage
  <2> QED
    BY <2>7, <2>8, <2>10 DEF LockInv
<1> QED
  BY <1>2, <1>3

LEMMA Releasing ==
  ASSUME LockInv, NEW r \in Requests, ReleaseLock(r)
  PROVE  LockInv'
<1> DEFINE ps == {req[r].page}
           rs == [req EXCEPT ![r] = None]
<1>1. lock' = [lock EXCEPT ![req[r].page] = FALSE] /\ req' = LoseLocks(ps, rs)
  BY DEF ReleaseLock
<1>2. lock' \in [Pages -> BOOLEAN] /\ \A p \in Pages \ ps : lock'[p] = lock[p]
  BY <1>1 DEF LockInv, Shapes
<1>3. \A q \in Requests : rs[q] = req[q] \/ rs[q] = None
  BY DEF LockInv, Shapes
<1> HIDE DEF ps, rs
<1> QED
  BY <1>1, <1>2, <1>3, Dropping, ZenonT(40)

(* Each action of a request.                                                 *)
LEMMA RequestsKeep ==
  ASSUME LockInv, NEW r \in Requests, RequestStep(r)
  PROVE  LockInv'
<1>1. CASE AcquireLock(r)
  BY <1>1, Acquiring
<1>2. CASE DoubleCheck(r)
  <2>1. \E s \in Steps : GoTo(r, s)
    BY <1>2 DEF DoubleCheck, Steps
  <2> QED
    BY <1>2, <2>1, Going DEF DoubleCheck, At
<1>3. CASE SetCachedMessages(r)
  <2>1. req[r] # None /\ lock' = lock /\ (GoTo(r, "release") \/ Done(r))
    BY <1>3 DEF SetCachedMessages, AfterFetch, At
  <2> QED
    BY <2>1, Going, Ending DEF Steps
<1>4. CASE ReleaseLock(r)
  BY <1>4, Releasing
<1>5. CASE WaitHit(r)
  BY <1>5, Ending DEF WaitHit
<1>6. CASE WaitTimeout(r)
  BY <1>6, Going DEF WaitTimeout, At, Steps
<1> QED
  BY <1>1, <1>2, <1>3, <1>4, <1>5, <1>6 DEF RequestStep

(* The read of MongoDB, in either service.                                   *)
LEMMA FetchesKeep ==
  ASSUME LockInv, NEW r \in Requests, ChannelFetching(r) \/ DirectFetch(r)
  PROVE  LockInv'
<1>1. ASSUME NEW order, FetchFromDB(r, order) PROVE LockInv'
  <2> DEFINE i == Shown(Slice(order, req[r].page, req[r].limit))
             x == [req[r] EXCEPT !.step = "store", !.items = i]
  <2>1. req[r] # None /\ lock' = lock /\ req' = [req EXCEPT ![r] = x]
    BY <1>1 DEF FetchFromDB, At
  <2>2. IsRecord(req[r])
    BY <2>1 DEF LockInv, Shapes
  <2> HIDE DEF i
  <2>3. /\ IsRecord(x)
        /\ x.page = req[r].page /\ x.holds = req[r].holds /\ x.lost = req[r].lost
    BY <2>2, Reads
  <2> HIDE DEF x
  <2> QED
    BY <2>1, <2>3, OneRequest
<1>2. CASE FetchFails(r)
  <2>1. req[r] # None /\ lock' = lock /\ (GoTo(r, "release") \/ Done(r))
    BY <1>2 DEF FetchFails, At
  <2> QED
    BY <2>1, Going, Ending DEF Steps
<1>3. CASE ChannelSkipStore(r)
  <2>1. req[r] # None /\ lock' = lock /\ (GoTo(r, "release") \/ Done(r))
    BY <1>3 DEF ChannelSkipStore, NotCached, AfterFetch, At
  <2> QED
    BY <2>1, Going, Ending DEF Steps
<1> QED
  BY <1>1, <1>2, <1>3 DEF ChannelFetching, ChannelFetch, DirectFetch

(* A request begins; pages are those it may ask for.                         *)
LEMMA AsksKeep ==
  ASSUME LockInv, NEW r \in Requests, NEW pages \in SUBSET Pages,
         ChannelRequest(r, pages) \/ DirectRequest(r, pages)
  PROVE  LockInv'
<1>1. ASSUME NEW p \in pages, NEW l \in Limits, GetPage(r, p, l) PROVE LockInv'
  <2>1. PICK s \in Steps : Begin(r, s, p, l)
    BY <1>1 DEF GetPage, Steps
  <2> QED
    BY <1>1, <2>1, Starting DEF GetPage
<1>2. CASE Prewarm(r)
  BY <1>2, Starting, CacheAssumption DEF Prewarm, Steps
<1> QED
  BY <1>1, <1>2 DEF ChannelRequest, DirectRequest, GetMessagesByChannelId, ListMessages,
    PrewarmChannelCache, PrewarmConversationCache

(* The invalidations of a write.                                             *)
LEMMA InvalidationsKeep ==
  ASSUME LockInv, NEW w \in Writers, Invalidating(w)
  PROVE  LockInv'
<1>1. CASE UNCHANGED <<lock, req>>
  BY <1>1 DEF LockInv, Shapes, IsRecord, RecordOf, HoldersKeys, OneFillsAPage
<1>2. CASE DropKeys(w)
  <2> DEFINE ps == {p \in Pages : <<"lock", p>> \in op[w].keys}
  <2>1. req' = LoseLocks(ps, req) /\ lock' = [p \in Pages |-> lock[p] /\ p \notin ps]
    BY <1>2 DEF DropKeys, DeleteKeys
  <2>2. lock' \in [Pages -> BOOLEAN] /\ \A p \in Pages \ ps : lock'[p] = lock[p]
    BY <2>1 DEF LockInv, Shapes
  <2> HIDE DEF ps
  <2> QED
    BY <2>1, <2>2, Dropping
<1> QED
  BY <1>1, <1>2 DEF Invalidating, InvalidateFirstPage, ListKeys, InvalidationFails

LEMMA WritesKeep ==
  ASSUME LockInv, NEW w \in Writers,
         ChannelWrite(w) \/ ChannelStep(w) \/ DirectWrite(w) \/ DirectStep(w)
  PROVE  LockInv'
<1>1. CASE InsertMessage(w)
  BY <1>1, FallingBehind DEF InsertMessage
<1>2. CASE SaveMessage(w)
  BY <1>2, FallingBehind DEF SaveMessage
<1>3. CASE Invalidating(w)
  BY <1>3, InvalidationsKeep
<1>4. CASE \E m \in DOMAIN message, does \in {"edit", "delete"} : FindMessage(w, m, does)
  BY <1>4 DEF FindMessage, LockInv, Shapes, IsRecord, RecordOf, HoldersKeys, OneFillsAPage
<1> QED
  BY <1>1, <1>2, <1>3, <1>4 DEF ChannelWrite, ChannelStep, DirectWrite, DirectStep,
    CreateMessage, SendMessage, ChannelEdit, ChannelDelete, DirectEdit, DirectDelete

(* Time and a crash.                                                         *)
LEMMA ClockKeeps ==
  ASSUME LockInv, NEW p \in Pages, Clock(p)
  PROVE  LockInv'
<1>1. CASE UNCHANGED <<lock, req>>
  BY <1>1 DEF LockInv, Shapes, IsRecord, RecordOf, HoldersKeys, OneFillsAPage
<1>2. CASE LockExpires(p)
  <2>1. req' = LoseLocks({p}, req) /\ lock' = [lock EXCEPT ![p] = FALSE]
    BY <1>2 DEF LockExpires
  <2>2. lock' \in [Pages -> BOOLEAN] /\ \A q \in Pages \ {p} : lock'[q] = lock[q]
    BY <2>1 DEF LockInv, Shapes
  <2> QED
    BY <2>1, <2>2, Dropping
<1> QED
  BY <1>1, <1>2 DEF Clock, GoStale, Expire

LEMMA CrashKeeps ==
  ASSUME LockInv, Crash
  PROVE  LockInv'
BY DEF Crash, LockInv, Shapes, HoldersKeys, OneFillsAPage

(* "Prevent cache stampede": however many requests and writes overlap, in    *)
(* whatever order keys expire and the process restarts, two requests fill    *)
(* one page at a time only after one of them has lost the key it had set.    *)
THEOREM OneRequestFills == Spec => []OneFillsAPage
<1> DEFINE Inv == LockInv /\ asks \in Readership
<1>1. Init => Inv
  BY DEF Init, CacheInit, LockInv, Shapes, HoldersKeys, OneFillsAPage
<1>2. Inv /\ [Next]_vars => Inv'
  <2> SUFFICES ASSUME Inv, [Next]_vars PROVE Inv'
    OBVIOUS
  <2>1. ASSUME NEW r \in Requests, Running(r) PROVE Inv'
    BY <2>1, RequestsKeep, FetchesKeep DEF Running
  <2>2. ASSUME NEW r \in Requests, Asking(r) PROVE Inv'
    <3>1. asks[r] \in SUBSET Pages
      BY ReadershipAssumption
    <3> QED
      BY <2>2, <3>1, AsksKeep DEF Asking
  <2>3. ASSUME NEW w \in Writers, Writing(w) PROVE Inv'
    BY <2>3, WritesKeep DEF Writing
  <2>4. ASSUME NEW p \in Pages, Ticking(p) PROVE Inv'
    BY <2>4, ClockKeeps DEF Ticking
  <2>5. CASE Restart
    BY <2>5, CrashKeeps DEF Restart
  <2>6. CASE UNCHANGED vars
    BY <2>6 DEF vars, cacheVars, LockInv, Shapes, IsRecord, RecordOf, HoldersKeys, OneFillsAPage
  <2> QED
    BY <2>1, <2>2, <2>3, <2>4, <2>5, <2>6 DEF Next
<1>3. Inv => OneFillsAPage
  BY DEF LockInv
<1> QED
  BY <1>1, <1>2, <1>3, PTL DEF Spec

-----------------------------------------------------------------------------
(* A history and some of its ids, or what is sooner in it.                   *)
IsHistory(h) == DOMAIN h \subseteq Nat /\ \A i \in DOMAIN h : h[i].at \in Nat

(* Sooner is a strict total order of a history.                              *)
LEMMA SoonerOrders ==
  ASSUME NEW h, IsHistory(h), NEW i \in DOMAIN h, NEW j \in DOMAIN h
  PROVE  /\ ~Sooner(h, i, i)
         /\ Sooner(h, i, j) => ~Sooner(h, j, i)
         /\ i # j => Sooner(h, i, j) \/ Sooner(h, j, i)
         /\ \A k \in DOMAIN h : Sooner(h, i, j) /\ Sooner(h, j, k) => Sooner(h, i, k)
<1>1. i \in Nat /\ j \in Nat /\ h[i].at \in Nat /\ h[j].at \in Nat
  BY DEF IsHistory
<1>2. \A k \in DOMAIN h : k \in Nat /\ h[k].at \in Nat
  BY DEF IsHistory
<1> QED
  BY <1>1, <1>2 DEF Sooner

-----------------------------------------------------------------------------
(* A relation that says of any two ids which comes first.                    *)
Ranks(ids, before) ==
  /\ \A i \in ids : <<i, i>> \notin before
  /\ \A i, j \in ids : i # j => <<i, j>> \in before \/ <<j, i>> \in before
  /\ \A i, j, k \in ids : <<i, j>> \in before /\ <<j, k>> \in before => <<i, k>> \in before
Below(ids, before, i) == {j \in ids : <<j, i>> \in before}

LEMMA RankRises ==
  ASSUME NEW ids, IsFiniteSet(ids), NEW before, Ranks(ids, before),
         NEW i \in ids, NEW j \in ids, <<i, j>> \in before
  PROVE  Cardinality(Below(ids, before, i)) < Cardinality(Below(ids, before, j))
<1>1. Below(ids, before, i) \subseteq Below(ids, before, j)
  BY DEF Below, Ranks
<1>2. i \in Below(ids, before, j) /\ i \notin Below(ids, before, i)
  BY DEF Below, Ranks
<1>3. IsFiniteSet(Below(ids, before, j)) /\ IsFiniteSet(Below(ids, before, i))
  BY FS_Subset DEF Below
<1>4. Cardinality(Below(ids, before, i)) # Cardinality(Below(ids, before, j))
  BY <1>1, <1>2, <1>3, FS_Subset
<1>5. Cardinality(Below(ids, before, i)) <= Cardinality(Below(ids, before, j))
  BY <1>1, <1>3, FS_Subset
<1> QED
  BY <1>3, <1>4, <1>5, FS_CardinalityType

(* InOrder lists each id once, in the order of the relation.                 *)
LEMMA InOrderSorts ==
  ASSUME NEW ids, IsFiniteSet(ids), NEW before, Ranks(ids, before),
         NEW s, s = InOrder(ids, before)
  PROVE  /\ s \in Seq(ids) /\ Len(s) = Cardinality(ids)
         /\ \A i \in ids : \E k \in 1 .. Len(s) : s[k] = i
         /\ \A k, m \in 1 .. Len(s) : k < m => <<s[k], s[m]>> \in before
<1> DEFINE n == Cardinality(ids)
           rank(i) == Cardinality(Below(ids, before, i))
           R == [i \in ids |-> rank(i)]
<1>1. n \in Nat
  BY FS_CardinalityType
<1>2. \A i \in ids : rank(i) \in 0 .. n - 1
  <2> SUFFICES ASSUME NEW i \in ids PROVE rank(i) \in 0 .. n - 1
    OBVIOUS
  <2>1. Below(ids, before, i) \subseteq ids \ {i}
    BY DEF Below, Ranks
  <2>2. IsFiniteSet(ids \ {i}) /\ Cardinality(ids \ {i}) = n - 1
    BY FS_RemoveElement
  <2> QED
    BY <1>1, <2>1, <2>2, FS_Subset, FS_CardinalityType
<1>3. \A i, j \in ids : rank(i) = rank(j) => i = j
  <2> SUFFICES ASSUME NEW i \in ids, NEW j \in ids, i # j PROVE rank(i) # rank(j)
    OBVIOUS
  <2>1. rank(i) \in Nat /\ rank(j) \in Nat
    BY <1>1, <1>2
  <2>2. <<i, j>> \in before \/ <<j, i>> \in before
    BY DEF Ranks
  <2>3. rank(i) < rank(j) \/ rank(j) < rank(i)
    BY <2>2, RankRises
  <2> QED
    BY <2>1, <2>3
<1>4. \A k \in 1 .. n : \E i \in ids : rank(i) = k - 1
  <2>1. R \in Injection(ids, 0 .. n - 1)
    BY <1>2, <1>3 DEF Injection, IsInjective
  <2>2. IsFiniteSet(0 .. n - 1) /\ Cardinality(0 .. n - 1) = n
    <3>1. PICK b \in Int : b = n - 1
      BY <1>1
    <3>2. IsFiniteSet(0 .. b) /\ Cardinality(0 .. b) = IF 0 > b THEN 0 ELSE (b - 0) + 1
      BY FS_Interval
    <3> QED
      BY <1>1, <3>1, <3>2
  <2>3. R \in Surjection(ids, 0 .. n - 1)
    BY <2>1, <2>2, FS_Injection
  <2>4. \A m \in 0 .. n - 1 : \E i \in ids : R[i] = m
    BY <2>3 DEF Surjection
  <2>5. \A i \in ids : R[i] = rank(i)
    OBVIOUS
  <2> HIDE DEF R, rank
  <2> QED
    BY <1>1, <2>4, <2>5
<1>5. s = [k \in 1 .. n |-> CHOOSE i \in ids : rank(i) = k - 1]
  BY DEF InOrder, Below
<1>6. \A k \in 1 .. n : s[k] \in ids /\ rank(s[k]) = k - 1
  BY <1>4, <1>5
<1>7. s \in Seq(ids) /\ Len(s) = n
  BY <1>1, <1>5, <1>6
<1>8. \A i \in ids : \E k \in 1 .. n : s[k] = i
  <2> SUFFICES ASSUME NEW i \in ids PROVE s[rank(i) + 1] = i /\ rank(i) + 1 \in 1 .. n
    OBVIOUS
  <2>1. rank(i) + 1 \in 1 .. n /\ (rank(i) + 1) - 1 = rank(i)
    BY <1>1, <1>2
  <2> QED
    BY <2>1, <1>3, <1>6
<1>9. \A k, m \in 1 .. n : k < m => <<s[k], s[m]>> \in before
  <2> SUFFICES ASSUME NEW k \in 1 .. n, NEW m \in 1 .. n, k < m PROVE <<s[k], s[m]>> \in before
    OBVIOUS
  <2>1. s[k] \in ids /\ s[m] \in ids /\ rank(s[k]) = k - 1 /\ rank(s[m]) = m - 1
    BY <1>6
  <2>2. ~(rank(s[m]) < rank(s[k])) /\ rank(s[k]) # rank(s[m])
    BY <1>1, <2>1
  <2>3. s[k] # s[m] /\ <<s[m], s[k]>> \notin before
    BY <2>1, <2>2, RankRises
  <2> QED
    BY <2>1, <2>3 DEF Ranks
<1> QED
  BY <1>7, <1>8, <1>9

(* Ascending lists each id once, the sooner ones first.                      *)
LEMMA AscendingSorts ==
  ASSUME NEW h, IsHistory(h), NEW ids \in SUBSET DOMAIN h, IsFiniteSet(ids),
         NEW s, s = Ascending(h, ids)
  PROVE  /\ s \in Seq(ids) /\ Len(s) = Cardinality(ids)
         /\ \A i \in ids : \E k \in 1 .. Len(s) : s[k] = i
         /\ \A k, m \in 1 .. Len(s) : k < m => Sooner(h, s[k], s[m])
<1>1. PICK before : before = {x \in ids \X ids : Sooner(h, x[1], x[2])}
  OBVIOUS
<1>2. \A i, j \in ids : <<i, j>> \in before <=> Sooner(h, i, j)
  BY <1>1
<1>3. Ranks(ids, before)
  BY <1>2, SoonerOrders DEF Ranks
<1>4. s = InOrder(ids, before)
  BY <1>1 DEF Ascending
<1>5. /\ s \in Seq(ids) /\ Len(s) = Cardinality(ids)
      /\ \A i \in ids : \E k \in 1 .. Len(s) : s[k] = i
      /\ \A k, m \in 1 .. Len(s) : k < m => <<s[k], s[m]>> \in before
  BY <1>3, <1>4, InOrderSorts
<1>6. ASSUME NEW k \in 1 .. Len(s), NEW m \in 1 .. Len(s), k < m PROVE Sooner(h, s[k], s[m])
  <2>1. s[k] \in ids /\ s[m] \in ids
    BY <1>5
  <2> QED
    BY <1>2, <1>5, <1>6, <2>1
<1> QED
  BY <1>5, <1>6

(* A page is a stretch of what it is cut from.                               *)
IsCut(S, s, page, limit, t) ==
  /\ page * limit \in Nat /\ t \in Seq(S)
  /\ Len(t) = IF Len(s) <= page * limit THEN 0
              ELSE IF Len(s) <= page * limit + limit THEN Len(s) - page * limit ELSE limit
  /\ \A k \in 1 .. Len(t) : page * limit + k \in 1 .. Len(s) /\ t[k] = s[page * limit + k]

LEMMA SliceCuts ==
  ASSUME NEW S, NEW s \in Seq(S), NEW page \in Nat, NEW limit \in Nat \ {0}
  PROVE  IsCut(S, s, page, limit, Slice(s, page, limit))
<1> DEFINE from == page * limit
           to == (page + 1) * limit
<1>1. from \in Nat /\ to = from + limit /\ Len(s) \in Nat
  OBVIOUS
<1>2. PICK n : n = Min({to, Len(s)})
  OBVIOUS
<1>3. n = IF Len(s) <= from + limit THEN Len(s) ELSE from + limit
  BY <1>1, <1>2 DEF Min
<1>4. Slice(s, page, limit) = SubSeq(s, from + 1, n)
  BY <1>2 DEF Slice
<1> HIDE DEF from, to
<1>5. \A i \in from + 1 .. n : s[i] \in S
  BY <1>1, <1>3
<1>6. PICK t : t = SubSeq(s, from + 1, n)
  OBVIOUS
<1>7. /\ t \in Seq(S) /\ Len(t) = IF from + 1 <= n THEN n - (from + 1) + 1 ELSE 0
      /\ \A i \in 1 .. n - (from + 1) + 1 : t[i] = s[from + 1 + i - 1]
  <2>1. PICK m \in Int : m = from + 1
    BY <1>1
  <2>2. n \in Int /\ \A i \in m .. n : s[i] \in S
    BY <1>1, <1>3, <1>5, <2>1
  <2>3. t = SubSeq(s, m, n)
    BY <1>6, <2>1
  <2>4. /\ t \in Seq(S) /\ Len(t) = IF m <= n THEN (n - m) + 1 ELSE 0
        /\ \A i \in 1 .. (n - m) + 1 : t[i] = s[(m + i) - 1]
    BY <2>2, <2>3, SubSeqProperties
  <2> QED
    BY <2>1, <2>4
<1>8. Len(t) = IF Len(s) <= from THEN 0
               ELSE IF Len(s) <= from + limit THEN Len(s) - from ELSE limit
  BY <1>1, <1>3, <1>7
<1>9. \A k \in 1 .. Len(t) : from + k \in 1 .. Len(s) /\ t[k] = s[from + k]
  BY <1>1, <1>3, <1>7, <1>8
<1> QED
  BY <1>1, <1>4, <1>6, <1>7, <1>8, <1>9 DEF from, IsCut

-----------------------------------------------------------------------------
EntryOf(I) ==
  [items : I, limit : Limits \cup {PrewarmLimit}, age : {"fresh", "stale"}, behind : BOOLEAN]

(* What a page may show: a document of the room, with a content it can have. *)
Refs == (DOMAIN message) \X (0 .. Deleted)

RoomTyped == message \in Seq(Message) /\ Len(message) <= MaxMessages
RequestsOf(I) == req \in [Requests -> RecordOf(I) \cup {None}]
EntriesOf(I) == entry \in [Pages -> EntryOf(I) \cup {None}]

WritesKnow ==
  /\ op \in [Writers -> Op \cup {None}] /\ edits \in 0 .. MaxEdits
  /\ \A w \in Writers : op[w] # None =>
       /\ op[w].msg \in DOMAIN message
       /\ op[w].does = "send" <=> op[w].step = "invalidate"

Typed ==
  /\ RoomTyped /\ RequestsOf(Seq(Refs)) /\ EntriesOf(Seq(Refs)) /\ WritesKnow
  /\ lock \in [Pages -> BOOLEAN]
  /\ kind \in {"channel", "direct"} /\ asks \in Readership /\ crashes \in 0 .. MaxCrashes

LEMMA MessageHistory ==
  ASSUME RoomTyped
  PROVE  /\ IsHistory(message) /\ Len(message) \in Nat /\ DOMAIN message = 1 .. Len(message)
         /\ IsFiniteSet(DOMAIN message) /\ DOMAIN message \subseteq 1 .. MaxMessages
         /\ \A i \in DOMAIN message : message[i] \in Message /\ message[i].text \in 0 .. Deleted
<1>1. Len(message) \in Nat /\ DOMAIN message = 1 .. Len(message)
        /\ message \in [1 .. Len(message) -> Message]
  BY LenProperties DEF RoomTyped
<1>2. \A i \in DOMAIN message : message[i] \in Message
  BY <1>1
<1>3. IsFiniteSet(DOMAIN message)
  BY <1>1, FS_Interval
<1> QED
  BY <1>1, <1>2, <1>3, CacheAssumption DEF IsHistory, Message, RoomTyped

(* Whatever order MongoDB answers in lists documents of the room.            *)
LEMMA OrdersList ==
  ASSUME RoomTyped, NEW order \in ByCreation(message) \cup ByCreationAndId(message)
  PROVE  order \in Seq(DOMAIN message)
<1>1. CASE order \in ByCreation(message)
  <2>1. PICK T \in SUBSET DOMAIN message : order \in SetToSeqs(T)
    BY <1>1 DEF ByCreation, SetToAllKPermutations
  <2>2. Cardinality(T) \in Nat
    BY <2>1, MessageHistory, FS_Subset, FS_CardinalityType
  <2>3. order \in [1 .. Cardinality(T) -> T]
    BY <2>1 DEF SetToSeqs
  <2> QED
    BY <2>2, <2>3
<1>2. CASE order \in ByCreationAndId(message)
  <2>1. PICK s : s = Ascending(message, DOMAIN message)
    OBVIOUS
  <2>2. s \in Seq(DOMAIN message)
    BY <2>1, MessageHistory, AscendingSorts
  <2>3. order = [i \in 1 .. Len(s) |-> s[(Len(s) - i) + 1]]
    BY <1>2, <2>1 DEF ByCreationAndId, Descending, Reverse
  <2>4. Len(s) \in Nat /\ \A i \in 1 .. Len(s) : s[(Len(s) - i) + 1] \in DOMAIN message
    BY <2>2
  <2> QED
    BY <2>3, <2>4
<1> QED
  BY <1>1, <1>2

LEMMA PagesList ==
  ASSUME RoomTyped, NEW order \in ByCreation(message) \cup ByCreationAndId(message),
         NEW p \in Nat, NEW l \in Nat \ {0}
  PROVE  Shown(Slice(order, p, l)) \in Seq(Refs)
<1>1. PICK s : s = Slice(order, p, l)
  OBVIOUS
<1>2. s \in Seq(DOMAIN message)
  BY <1>1, OrdersList, SliceCuts DEF IsCut
<1>3. Len(s) \in Nat /\ DOMAIN s = 1 .. Len(s) /\ \A k \in 1 .. Len(s) : s[k] \in DOMAIN message
  BY <1>2
<1>4. \A k \in 1 .. Len(s) : <<s[k], message[s[k]].text>> \in Refs
  BY <1>3, MessageHistory DEF Refs
<1>5. [k \in 1 .. Len(s) |-> <<s[k], message[s[k]].text>>] \in Seq(Refs)
  BY <1>3, <1>4
<1> QED
  BY <1>1, <1>3, <1>5 DEF Shown

(* The room only grows.                                                      *)
LEMMA RoomGrows ==
  ASSUME NEW I, NEW J, I \subseteq J
  PROVE  /\ Seq(I) \subseteq Seq(J)
         /\ RecordOf(Seq(I)) \subseteq RecordOf(Seq(J))
         /\ EntryOf(Seq(I)) \subseteq EntryOf(Seq(J))
<1>1. Seq(I) \subseteq Seq(J)
  BY SeqMonotonic
<1> QED
  BY <1>1 DEF RecordOf, EntryOf

-----------------------------------------------------------------------------
(* The types of what each action leaves.                                     *)
LEMMA GoingTyped ==
  ASSUME NEW I, RequestsOf(I), NEW r \in Requests, req[r] # None,
         Done(r) \/ \E s \in Steps : GoTo(r, s)
  PROVE  RequestsOf(I)'
BY DEF RequestsOf, RecordOf, Done, GoTo

LEMMA BeginTyped ==
  ASSUME NEW I, RequestsOf(Seq(I)), NEW r \in Requests, NEW s \in Steps, NEW p \in Pages,
         NEW l \in Limits \cup {PrewarmLimit}, Begin(r, s, p, l)
  PROVE  RequestsOf(Seq(I))'
BY EmptySeq DEF RequestsOf, RecordOf, Begin

LEMMA LosingTyped ==
  ASSUME NEW I, NEW rs \in [Requests -> RecordOf(I) \cup {None}], NEW ps,
         req' = LoseLocks(ps, rs)
  PROVE  RequestsOf(I)'
<1>1. \A x \in RecordOf(I) : [x EXCEPT !.lost = TRUE] \in RecordOf(I)
  BY DEF RecordOf
<1>2. \A r \in Requests : rs[r] \in RecordOf(I) \cup {None}
  OBVIOUS
<1> QED
  BY <1>1, <1>2 DEF RequestsOf, LoseLocks

LEMMA BehindTyped ==
  ASSUME NEW I, RequestsOf(I), NEW ps, req' = Behind(ps)
  PROVE  RequestsOf(I)'
<1>1. req' = [r \in Requests |-> req'[r]]
  BY DEF Behind
<1>2. \A r \in Requests : req'[r] \in RecordOf(I) \cup {None}
  BY DEF RequestsOf, RecordOf, Behind, At
<1> QED
  BY <1>1, <1>2 DEF RequestsOf

LEMMA RequestTyped ==
  ASSUME NEW I, RequestsOf(I), EntriesOf(I), lock \in [Pages -> BOOLEAN],
         NEW r \in Requests, RequestStep(r)
  PROVE  RequestsOf(I)' /\ EntriesOf(I)' /\ lock' \in [Pages -> BOOLEAN] /\ message' = message
<1>1. CASE AcquireLock(r)
  <2>1. req[r] \in RecordOf(I) /\ lock' \in [Pages -> BOOLEAN] /\ UNCHANGED <<entry, message>>
    BY <1>1 DEF AcquireLock, At, RequestsOf
  <2>2. CASE GoTo(r, "wait")
    BY <2>1, <2>2, <1>1, GoingTyped DEF Steps, AcquireLock, At, EntriesOf
  <2>3. CASE req' = [req EXCEPT ![r] = [@ EXCEPT !.step = "check", !.holds = TRUE]]
    <3>1. [req[r] EXCEPT !.step = "check", !.holds = TRUE] \in RecordOf(I)
      BY <2>1 DEF RecordOf, Steps
    <3>2. PICK x \in RecordOf(I) : req' = [req EXCEPT ![r] = x]
      BY <2>3, <3>1
    <3> QED
      BY <2>1, <3>2 DEF RequestsOf, EntriesOf
  <2> QED
    BY <1>1, <2>2, <2>3 DEF AcquireLock
<1>2. CASE DoubleCheck(r) \/ WaitTimeout(r) \/ WaitHit(r)
  <2>1. Done(r) \/ \E s \in Steps : GoTo(r, s)
    BY <1>2 DEF DoubleCheck, WaitTimeout, WaitHit, Steps
  <2> QED
    BY <1>2, <2>1, GoingTyped DEF DoubleCheck, WaitTimeout, WaitHit, At, EntriesOf
<1>3. CASE SetCachedMessages(r)
  <2>1. req[r] \in RecordOf(I) /\ UNCHANGED <<lock, message>>
    BY <1>3 DEF SetCachedMessages, At, RequestsOf
  <2>2. RequestsOf(I)'
    BY <1>3, GoingTyped DEF SetCachedMessages, AfterFetch, At, Steps
  <2>3. [items |-> req[r].items, limit |-> req[r].limit, age |-> "fresh",
         behind |-> req[r].behind] \in EntryOf(I)
    BY <2>1 DEF RecordOf, EntryOf
  <2>4. EntriesOf(I)'
    BY <1>3, <2>3 DEF SetCachedMessages, EntriesOf
  <2> QED
    BY <2>1, <2>2, <2>4
<1>4. CASE ReleaseLock(r)
  <2>1. [req EXCEPT ![r] = None] \in [Requests -> RecordOf(I) \cup {None}]
    BY DEF RequestsOf
  <2>2. RequestsOf(I)'
    BY <1>4, <2>1, LosingTyped DEF ReleaseLock
  <2> QED
    BY <1>4, <2>2 DEF ReleaseLock, EntriesOf
<1> QED
  BY <1>1, <1>2, <1>3, <1>4 DEF RequestStep

LEMMA FetchTyped ==
  ASSUME Typed, NEW r \in Requests,
         \/ kind = "channel" /\ ChannelFetching(r)
         \/ kind = "direct" /\ DirectFetch(r)
  PROVE  RequestsOf(Seq(Refs))' /\ UNCHANGED <<message, entry, lock>>
<1>0. UNCHANGED <<message, entry, lock>>
  BY DEF ChannelFetching, ChannelFetch, DirectFetch, ChannelSkipStore, FetchFromDB, FetchFails,
    NotCached
<1>1. Refs' = Refs
  BY <1>0 DEF Refs
<1>2. PICK I : I = Seq(Refs)
  OBVIOUS
<1>3. RequestsOf(I)
  BY <1>2 DEF Typed
<1>4. ASSUME NEW order \in ByCreation(message) \cup ByCreationAndId(message),
             FetchFromDB(r, order)
      PROVE  RequestsOf(I)'
  <2>1. req[r] \in RecordOf(I)
    BY <1>3, <1>4 DEF FetchFromDB, At, RequestsOf
  <2>2. PICK i : i = Shown(Slice(order, req[r].page, req[r].limit))
    OBVIOUS
  <2>3. req[r].page \in Nat /\ req[r].limit \in Nat \ {0}
    BY <2>1, CacheAssumption DEF RecordOf
  <2>4. i \in I
    BY <1>2, <2>2, <2>3, PagesList DEF Typed
  <2>5. PICK x : x = [req[r] EXCEPT !.step = "store", !.items = i]
    OBVIOUS
  <2>6. req' = [req EXCEPT ![r] = x]
    BY <1>4, <2>2, <2>5 DEF FetchFromDB
  <2>7. x \in RecordOf(I)
    BY <2>1, <2>4, <2>5 DEF RecordOf, Steps
  <2> QED
    BY <1>3, <2>6, <2>7 DEF RequestsOf
<1>5. ASSUME FetchFails(r) \/ ChannelSkipStore(r) PROVE RequestsOf(I)'
  BY <1>3, <1>5, GoingTyped
     DEF FetchFails, ChannelSkipStore, NotCached, AfterFetch, At, Steps
<1>6. \/ \E order \in ByCreation(message) \cup ByCreationAndId(message) : FetchFromDB(r, order)
      \/ FetchFails(r) \/ ChannelSkipStore(r)
  BY DEF ChannelFetching, ChannelFetch, DirectFetch
<1>7. RequestsOf(I)'
  BY <1>4, <1>5, <1>6
<1> QED
  BY <1>0, <1>1, <1>2, <1>7 DEF RequestsOf, RecordOf

LEMMA AskTyped ==
  ASSUME NEW I, RequestsOf(Seq(I)), NEW r \in Requests, NEW pages \in SUBSET Pages,
         ChannelRequest(r, pages) \/ DirectRequest(r, pages)
  PROVE  RequestsOf(Seq(I))' /\ UNCHANGED <<message, entry, lock>> /\ req[r] = None
           /\ \E s \in Steps \ {"store"}, p \in Pages, l \in Limits \cup {PrewarmLimit} :
                Begin(r, s, p, l)
<1>1. ASSUME NEW p \in pages, NEW l \in Limits, GetPage(r, p, l)
      PROVE  \E s \in Steps \ {"store"} : Begin(r, s, p, l)
  BY <1>1 DEF GetPage, Steps
<1>2. ASSUME Prewarm(r)
      PROVE  \E s \in Steps \ {"store"}, p \in Pages, l \in Limits \cup {PrewarmLimit} :
               Begin(r, s, p, l)
  BY <1>2, CacheAssumption DEF Prewarm, Steps
<1>3. PICK s \in Steps \ {"store"}, p \in Pages, l \in Limits \cup {PrewarmLimit} :
        Begin(r, s, p, l)
  BY <1>1, <1>2 DEF ChannelRequest, DirectRequest, GetMessagesByChannelId, ListMessages,
    PrewarmChannelCache, PrewarmConversationCache
<1>4. UNCHANGED <<message, entry, lock>> /\ req[r] = None
  BY DEF ChannelRequest, DirectRequest, GetMessagesByChannelId, ListMessages,
    PrewarmChannelCache, PrewarmConversationCache, GetPage, Prewarm
<1> QED
  BY <1>3, <1>4, BeginTyped

(* A write adds a document at most, and changes what one says.               *)
LEMMA WriteTyped ==
  ASSUME Typed, NEW w \in Writers,
         ChannelWrite(w) \/ ChannelStep(w) \/ DirectWrite(w) \/ DirectStep(w)
  PROVE  /\ RoomTyped' /\ DOMAIN message \subseteq DOMAIN message' /\ WritesKnow'
         /\ \A v \in Writers \ {w} : op'[v] = op[v]
         /\ lock' \in [Pages -> BOOLEAN]
         /\ \A I : RequestsOf(I) => RequestsOf(I)'
         /\ \A I : EntriesOf(I) => EntriesOf(I)'
<1> DEFINE Typing == /\ RoomTyped' /\ DOMAIN message \subseteq DOMAIN message' /\ WritesKnow'
                     /\ \A v \in Writers \ {w} : op'[v] = op[v]
                     /\ lock' \in [Pages -> BOOLEAN]
                     /\ \A I : RequestsOf(I) => RequestsOf(I)'
                     /\ \A I : EntriesOf(I) => EntriesOf(I)'
<1>0. RoomTyped /\ WritesKnow /\ lock \in [Pages -> BOOLEAN] /\ op[w] \in Op \cup {None}
  BY DEF Typed, WritesKnow
<1>s. /\ req' = req => \A I : RequestsOf(I) => RequestsOf(I)'
      /\ entry' = entry => \A I : EntriesOf(I) => EntriesOf(I)'
      /\ message' = message => RoomTyped' /\ DOMAIN message \subseteq DOMAIN message'
  BY <1>0 DEF RequestsOf, EntriesOf, RoomTyped
<1>o. ASSUME NEW x, op' = [op EXCEPT ![w] = x]
      PROVE  op'[w] = x /\ \A v \in Writers \ {w} : op'[v] = op[v]
  BY <1>0, <1>o DEF WritesKnow
<1>k. ASSUME NEW x \in Op \cup {None}, op' = [op EXCEPT ![w] = x], edits' \in 0 .. MaxEdits,
             DOMAIN message \subseteq DOMAIN message',
             x # None => x.msg \in DOMAIN message' /\ (x.does = "send" <=> x.step = "invalidate")
      PROVE  WritesKnow' /\ \A v \in Writers \ {w} : op'[v] = op[v]
  BY <1>0, <1>k DEF WritesKnow
<1>1. ASSUME InsertMessage(w) PROVE Typing
  <2>1. PICK t \in 1 .. MaxTime : message' = Append(message, [at |-> t, text |-> 0, gone |-> FALSE])
    BY <1>1 DEF InsertMessage
  <2>2. Len(message) < MaxMessages /\ Len(message) \in Nat
    BY <1>0, <1>1, MessageHistory DEF InsertMessage
  <2>3. [at |-> t, text |-> 0, gone |-> FALSE] \in Message
    BY CacheAssumption DEF Message, Deleted
  <2>4. /\ message' \in Seq(Message) /\ Len(message') = Len(message) + 1
        /\ DOMAIN message' = 1 .. Len(message) + 1 /\ DOMAIN message = 1 .. Len(message)
    BY <1>0, <2>1, <2>3 DEF RoomTyped
  <2>5. RoomTyped' /\ DOMAIN message \subseteq DOMAIN message'
    BY <2>2, <2>4, CacheAssumption DEF RoomTyped
  <2>6. PICK x : x = [step |-> "invalidate", does |-> "send", msg |-> Len(message) + 1,
                      text |-> 0, keys |-> {}]
    OBVIOUS
  <2>7. x \in Op /\ x.msg \in DOMAIN message' /\ (x.does = "send" <=> x.step = "invalidate")
    BY <2>2, <2>4, <2>6, CacheAssumption DEF Op, Deleted
  <2>8. op' = [op EXCEPT ![w] = x] /\ edits' = edits /\ UNCHANGED <<entry, lock>>
          /\ req' = Behind({0})
    BY <1>1, <2>6 DEF InsertMessage
  <2>9. WritesKnow' /\ \A v \in Writers \ {w} : op'[v] = op[v]
    BY <1>0, <1>k, <2>5, <2>7, <2>8 DEF WritesKnow
  <2> QED
    BY <1>0, <1>s, <2>5, <2>8, <2>9, BehindTyped
<1>2. ASSUME SaveMessage(w) PROVE Typing
  <2>1. PICK i, c, d : /\ i \in DOMAIN message /\ c \in 0 .. Deleted
                     /\ op[w].msg = i /\ op[w].text = c /\ d = op[w].does
    BY <1>0, <1>2 DEF SaveMessage, OpAt, Op, WritesKnow
  <2>2. message' = [message EXCEPT ![i].text = c, ![i].gone = @ \/ d = "delete"]
    BY <1>2, <2>1 DEF SaveMessage
  <2>3. message \in [1 .. Len(message) -> Message] /\ Len(message) \in Nat
           /\ DOMAIN message = 1 .. Len(message)
    BY <1>0, LenProperties DEF RoomTyped
  <2>4. message' \in [1 .. Len(message) -> Message]
    <3>1. PICK y : y = [message[i] EXCEPT !.text = c, !.gone = message[i].gone \/ d = "delete"]
      OBVIOUS
    <3>2. y \in Message
      BY <2>1, <2>3, <3>1 DEF Message
    <3>3. message' = [message EXCEPT ![i] = y]
      BY <2>1, <2>2, <2>3, <3>1
    <3> QED
      BY <2>1, <2>3, <3>2, <3>3
  <2>5. message' \in Seq(Message) /\ Len(message') = Len(message) /\ DOMAIN message' = DOMAIN message
    BY <2>3, <2>4
  <2>6. RoomTyped' /\ DOMAIN message \subseteq DOMAIN message'
    BY <1>0, <2>5 DEF RoomTyped
  <2>7. PICK x : x = [op[w] EXCEPT !.step = "keys"]
    OBVIOUS
  <2>8. x \in Op /\ x.msg \in DOMAIN message' /\ (x.does = "send" <=> x.step = "invalidate")
    BY <1>0, <1>2, <2>5, <2>7 DEF Op, SaveMessage, OpAt, WritesKnow
  <2>9. op' = [op EXCEPT ![w] = x] /\ edits' = edits /\ UNCHANGED <<entry, lock>>
          /\ req' = Behind(Pages)
    BY <1>2, <2>7 DEF SaveMessage
  <2>10. WritesKnow' /\ \A v \in Writers \ {w} : op'[v] = op[v]
    BY <1>0, <1>k, <2>6, <2>8, <2>9 DEF WritesKnow
  <2> QED
    BY <1>0, <1>s, <2>6, <2>9, <2>10, BehindTyped
<1>3. ASSUME NEW m \in DOMAIN message, NEW does \in {"edit", "delete"}, FindMessage(w, m, does)
      PROVE  Typing
  <2>1. PICK x : x = [step |-> "save", does |-> does, msg |-> m,
                      text |-> IF does = "delete" THEN Deleted ELSE edits + 1, keys |-> {}]
    OBVIOUS
  <2>2. edits \in 0 .. MaxEdits /\ edits < MaxEdits /\ edits' = edits + 1
    BY <1>0, <1>3 DEF FindMessage, WritesKnow
  <2>3. (IF does = "delete" THEN Deleted ELSE edits + 1) \in 0 .. Deleted
    BY <2>2, CacheAssumption DEF Deleted
  <2>4. x \in Op /\ x.msg \in DOMAIN message /\ (x.does = "send" <=> x.step = "invalidate")
    BY <1>0, <2>1, <2>3, MessageHistory DEF Op
  <2>5. op' = [op EXCEPT ![w] = x] /\ UNCHANGED <<message, entry, lock, req>>
    BY <1>3, <2>1 DEF FindMessage
  <2>6. edits' \in 0 .. MaxEdits
    BY <2>2, CacheAssumption
  <2>7. WritesKnow' /\ \A v \in Writers \ {w} : op'[v] = op[v]
    BY <1>k, <2>4, <2>5, <2>6
  <2> QED
    BY <1>0, <1>s, <2>5, <2>7
<1>4. ASSUME Invalidating(w) PROVE Typing
  <2>1. message' = message /\ edits' = edits
    BY <1>4 DEF Invalidating, InvalidateFirstPage, ListKeys, DropKeys, InvalidationFails
  <2>2. \E x \in Op \cup {None} :
          /\ op' = [op EXCEPT ![w] = x]
          /\ x # None => x.msg \in DOMAIN message' /\ (x.does = "send" <=> x.step = "invalidate")
    <3>1. CASE op' = [op EXCEPT ![w] = None]
      BY <3>1
    <3>2. CASE ListKeys(w) /\ KeysOfRoom # {}
      <4>1. PICK K : K = KeysOfRoom
        OBVIOUS
      <4>2. K \in SUBSET ({"page", "lock"} \X Pages)
        BY <4>1 DEF KeysOfRoom
      <4>3. PICK x : x = [op[w] EXCEPT !.step = "del", !.keys = K]
        OBVIOUS
      <4>4. x \in Op /\ x.msg \in DOMAIN message /\ (x.does = "send" <=> x.step = "invalidate")
        BY <1>0, <3>2, <4>2, <4>3 DEF Op, ListKeys, OpAt, WritesKnow
      <4>5. op' = [op EXCEPT ![w] = x]
        BY <3>2, <4>1, <4>3 DEF ListKeys
      <4> QED
        BY <2>1, <4>4, <4>5
    <3> QED
      BY <1>4, <3>1, <3>2
         DEF Invalidating, InvalidateFirstPage, ListKeys, DropKeys, InvalidationFails
  <2>3. WritesKnow' /\ \A v \in Writers \ {w} : op'[v] = op[v]
    BY <1>0, <1>k, <2>1, <2>2 DEF WritesKnow
  <2>4. lock' \in [Pages -> BOOLEAN] /\ \A I : RequestsOf(I) => RequestsOf(I)'
    <3>1. CASE DropKeys(w)
      <4>1. \E ps : req' = LoseLocks(ps, req) /\ lock' = [p \in Pages |-> lock[p] /\ p \notin ps]
        BY <3>1 DEF DropKeys, DeleteKeys
      <4>2. \A I : RequestsOf(I) => RequestsOf(I)'
        BY <4>1, LosingTyped DEF RequestsOf
      <4> QED
        BY <1>0, <4>1, <4>2
    <3> QED
      BY <1>0, <1>4, <1>s, <3>1 DEF Invalidating, InvalidateFirstPage, ListKeys, InvalidationFails
  <2>5. ASSUME NEW I, EntriesOf(I) PROVE EntriesOf(I)'
    <3>1. CASE InvalidateFirstPage(w) \/ ListKeys(w)
      BY <2>5, <3>1 DEF InvalidateFirstPage, InvalidatePage, ListKeys, EntriesOf
    <3>2. CASE DropKeys(w)
      BY <2>5, <3>2 DEF DropKeys, DeleteKeys, EntriesOf
    <3>3. CASE InvalidationFails(w)
      <4>1. \A x \in EntryOf(I) : [x EXCEPT !.behind = TRUE] \in EntryOf(I)
        BY DEF EntryOf
      <4> QED
        BY <2>5, <3>3, <4>1 DEF InvalidationFails, LeaveBehind, EntriesOf
    <3> QED
      BY <1>4, <3>1, <3>2, <3>3 DEF Invalidating
  <2> QED
    BY <1>s, <2>1, <2>3, <2>4, <2>5
<1> HIDE DEF Typing
<1>5. Typing
  BY <1>1, <1>2, <1>3, <1>4 DEF ChannelWrite, ChannelStep, DirectWrite, DirectStep,
    CreateMessage, SendMessage, ChannelEdit, ChannelDelete, DirectEdit, DirectDelete
<1> QED
  BY <1>5 DEF Typing

LEMMA ClockTyped ==
  ASSUME NEW I, RequestsOf(I), EntriesOf(I), lock \in [Pages -> BOOLEAN],
         NEW p \in Pages, Clock(p)
  PROVE  RequestsOf(I)' /\ EntriesOf(I)' /\ lock' \in [Pages -> BOOLEAN] /\ message' = message
<1>1. CASE GoStale(p) \/ Expire(p)
  BY <1>1 DEF GoStale, Expire, Fresh, Stale, EntriesOf, EntryOf, RequestsOf
<1>2. CASE LockExpires(p)
  <2>1. RequestsOf(I)'
    BY <1>2, LosingTyped DEF LockExpires, RequestsOf
  <2> QED
    BY <1>2, <2>1 DEF LockExpires, EntriesOf
<1> QED
  BY <1>1, <1>2 DEF Clock

LEMMA CrashTyped ==
  ASSUME NEW I, RequestsOf(I), EntriesOf(I), WritesKnow, Crash
  PROVE  RequestsOf(I)' /\ EntriesOf(I)' /\ WritesKnow' /\ UNCHANGED <<message, lock>>
<1>1. UNCHANGED <<message, lock, edits>> /\ op' = [w \in Writers |-> None]
        /\ req' = [r \in Requests |-> None]
  BY DEF Crash
<1>2. EntriesOf(I)'
  BY DEF Crash, LeaveBehind, EntriesOf, EntryOf
<1> QED
  BY <1>1, <1>2 DEF RequestsOf, WritesKnow

LEMMA TypedStep ==
  ASSUME Typed, [Next]_vars
  PROVE  Typed' /\ DOMAIN message \subseteq DOMAIN message'
<1> DEFINE Rest == kind' \in {"channel", "direct"} /\ asks' \in Readership
                     /\ crashes' \in 0 .. MaxCrashes
<1>0. PICK I : I = Refs
  OBVIOUS
<1>1. RequestsOf(Seq(I)) /\ EntriesOf(Seq(I))
  BY <1>0 DEF Typed
<1>2. ASSUME message' = message, RequestsOf(Seq(I))', EntriesOf(Seq(I))', WritesKnow',
             lock' \in [Pages -> BOOLEAN], Rest
      PROVE  Typed' /\ DOMAIN message \subseteq DOMAIN message'
  <2>1. Refs' = I /\ RoomTyped'
    BY <1>0, <1>2 DEF Refs, Typed, RoomTyped
  <2>2. req' \in [Requests -> RecordOf(Seq(Refs')) \cup {None}]
          /\ entry' \in [Pages -> EntryOf(Seq(Refs')) \cup {None}]
    BY <1>2, <2>1 DEF RequestsOf, EntriesOf
  <2>3. RequestsOf(Seq(Refs))' /\ EntriesOf(Seq(Refs))'
    BY <2>2 DEF RequestsOf, EntriesOf, RecordOf, EntryOf
  <2> QED
    BY <1>2, <2>1, <2>3 DEF Typed
<1> HIDE DEF Rest
<1>3. ASSUME UNCHANGED <<kind, asks, crashes>> PROVE Rest
  BY <1>3 DEF Typed, Rest
<1>4. ASSUME NEW r \in Requests, Running(r) PROVE Typed' /\ DOMAIN message \subseteq DOMAIN message'
  <2>1. UNCHANGED <<writeVars, kind, asks, crashes>>
    BY <1>4 DEF Running
  <2>2. WritesKnow'
    <3>1. CASE message' = message
      BY <2>1, <3>1 DEF Typed, WritesKnow, writeVars
    <3> QED
      BY <1>1, <1>4, <3>1, RequestTyped, FetchTyped DEF Typed, Running
  <2>3. CASE RequestStep(r)
    BY <1>1, <1>2, <1>3, <2>1, <2>2, <2>3, RequestTyped DEF Typed
  <2>4. CASE ~RequestStep(r)
    <3>1. UNCHANGED <<message, entry, lock>> /\ RequestsOf(Seq(Refs))'
      BY <1>4, <2>4, FetchTyped DEF Running
    <3>2. RequestsOf(Seq(I))'
      <4>1. Refs' = I
        BY <1>0, <3>1 DEF Refs
      <4> QED
        BY <3>1, <4>1 DEF RequestsOf, RecordOf
    <3>3. EntriesOf(Seq(I))' /\ lock' \in [Pages -> BOOLEAN]
      BY <1>1, <3>1 DEF EntriesOf, Typed
    <3> QED
      BY <1>2, <1>3, <2>1, <2>2, <3>1, <3>2, <3>3
  <2> QED
    BY <2>3, <2>4
<1>5. ASSUME NEW r \in Requests, Asking(r) PROVE Typed' /\ DOMAIN message \subseteq DOMAIN message'
  <2>1. asks[r] \in SUBSET Pages
    BY ReadershipAssumption DEF Typed
  <2>2. RequestsOf(Seq(I))' /\ UNCHANGED <<message, entry, lock>>
    BY <1>1, <1>5, <2>1, AskTyped DEF Asking
  <2>3. UNCHANGED <<writeVars, kind, asks, crashes>>
    BY <1>5 DEF Asking
  <2>4. EntriesOf(Seq(I))' /\ lock' \in [Pages -> BOOLEAN] /\ WritesKnow'
    BY <1>1, <2>2, <2>3 DEF EntriesOf, Typed, WritesKnow, writeVars
  <2> QED
    BY <1>2, <1>3, <2>2, <2>3, <2>4
<1>6. ASSUME NEW w \in Writers, Writing(w) PROVE Typed' /\ DOMAIN message \subseteq DOMAIN message'
  <2>1. /\ RoomTyped' /\ DOMAIN message \subseteq DOMAIN message' /\ WritesKnow'
        /\ lock' \in [Pages -> BOOLEAN] /\ UNCHANGED <<kind, asks, crashes>>
        /\ RequestsOf(Seq(I))' /\ EntriesOf(Seq(I))'
    BY <1>1, <1>6, WriteTyped DEF Writing
  <2>2. PICK J : J = Refs'
    OBVIOUS
  <2>3. I \subseteq J
    BY <1>0, <2>1, <2>2 DEF Refs
  <2>4. req' \in [Requests -> RecordOf(Seq(J)) \cup {None}]
          /\ entry' \in [Pages -> EntryOf(Seq(J)) \cup {None}]
    BY <2>1, <2>3, RoomGrows DEF RequestsOf, EntriesOf
  <2>5. RequestsOf(Seq(Refs))' /\ EntriesOf(Seq(Refs))'
    BY <2>2, <2>4 DEF RequestsOf, EntriesOf, RecordOf, EntryOf
  <2> QED
    BY <1>3, <2>1, <2>5 DEF Typed, Rest
<1>7. ASSUME NEW p \in Pages, Ticking(p) PROVE Typed' /\ DOMAIN message \subseteq DOMAIN message'
  <2>1. RequestsOf(Seq(I))' /\ EntriesOf(Seq(I))' /\ lock' \in [Pages -> BOOLEAN]
          /\ message' = message
    BY <1>1, <1>7, ClockTyped DEF Ticking, Typed
  <2>2. UNCHANGED <<writeVars, kind, asks, crashes>>
    BY <1>7 DEF Ticking
  <2>3. WritesKnow'
    BY <2>1, <2>2 DEF Typed, WritesKnow, writeVars
  <2> QED
    BY <1>2, <1>3, <2>1, <2>2, <2>3
<1>8. ASSUME Restart PROVE Typed' /\ DOMAIN message \subseteq DOMAIN message'
  <2>1. RequestsOf(Seq(I))' /\ EntriesOf(Seq(I))' /\ WritesKnow' /\ UNCHANGED <<message, lock>>
    BY <1>1, <1>8, CrashTyped DEF Restart, Typed
  <2>2. Rest
    BY <1>8, ReadershipAssumption DEF Restart, Typed, Rest
  <2>3. lock' \in [Pages -> BOOLEAN]
    BY <2>1 DEF Typed
  <2> QED
    BY <1>2, <2>1, <2>2, <2>3
<1>9. ASSUME UNCHANGED vars PROVE Typed' /\ DOMAIN message \subseteq DOMAIN message'
  <2>1. UNCHANGED <<message, entry, lock, req, op, edits, kind, asks, crashes>>
    BY <1>9 DEF vars, cacheVars, writeVars
  <2>2. RequestsOf(Seq(I))' /\ EntriesOf(Seq(I))' /\ WritesKnow' /\ lock' \in [Pages -> BOOLEAN]
    BY <1>1, <2>1 DEF RequestsOf, EntriesOf, WritesKnow, Typed
  <2> QED
    BY <1>2, <1>3, <2>1, <2>2
<1> QED
  BY <1>4, <1>5, <1>6, <1>7, <1>8, <1>9 DEF Next

LEMMA TypedStart == Init => Typed
<1> SUFFICES ASSUME Init PROVE Typed
  OBVIOUS
<1>1. RoomTyped /\ WritesKnow
  BY CacheAssumption, EmptySeq
     DEF Init, CacheInit, WritesInit, RoomTyped, WritesKnow
<1>2. RequestsOf(Seq(Refs)) /\ EntriesOf(Seq(Refs)) /\ lock \in [Pages -> BOOLEAN]
  BY DEF Init, CacheInit, RequestsOf, EntriesOf
<1> QED
  BY <1>1, <1>2, ReadershipAssumption DEF Init, Typed

-----------------------------------------------------------------------------
(* What the cache says is true.  A page or an answer on its way into the      *)
(* cache is current if MongoDB would give it again.                          *)
Current(p, l, s) ==
  IF p = 0 THEN s \in PageOf(0, l)
  ELSE \A k \in DOMAIN s : s[k][2] = message[s[k][1]].text

(* w will drop page p: unless it has listed the keys and p's is not among    *)
(* them, because the page was not there, or only came afterwards.            *)
Owes(w, p) ==
  p \in Outdates(w) /\ (op[w].step = "del" => <<"page", p>> \in op[w].keys)

PagesOwed ==
  \A p \in Pages :
    entry[p] # None /\ ~Current(p, entry[p].limit, entry[p].items) =>
      entry[p].behind \/ \E w \in Writers : Owes(w, p)

AnswersCurrent ==
  \A r \in Requests :
    At(r, "store") /\ ~req[r].behind => Current(req[r].page, req[r].limit, req[r].items)

TruthInv == Typed /\ PagesOwed /\ AnswersCurrent

LEMMA SameOrders ==
  ASSUME UNCHANGED <<message, kind>>, NEW p, NEW l, NEW s
  PROVE  Current(p, l, s)' <=> Current(p, l, s)
<1>1. Orders' = Orders
  BY DEF Orders
<1>2. \A order : Shown(order)' = Shown(order)
  BY DEF Shown
<1>3. PageOf(0, l)' = PageOf(0, l)
  <2>1. PICK P : P = Orders
    OBVIOUS
  <2>2. \A order : Shown(Slice(order, 0, l))' = Shown(Slice(order, 0, l))
    BY DEF Shown
  <2> QED
    BY <1>1, <2>1, <2>2, Zenon DEF PageOf
<1> QED
  BY <1>3 DEF Current

(* The room does not change, and neither does what is being stored.          *)
LEMMA AnswersStay ==
  ASSUME AnswersCurrent, UNCHANGED <<message, kind>>,
         \A r \in Requests :
           \/ req'[r] = None \/ req'[r].step # "store"
           \/ /\ At(r, "store") /\ req'[r].page = req[r].page /\ req'[r].limit = req[r].limit
              /\ req'[r].items = req[r].items /\ req'[r].behind = req[r].behind
  PROVE  AnswersCurrent'
<1> SUFFICES ASSUME NEW r \in Requests, At(r, "store")', ~req'[r].behind
             PROVE  Current(req[r].page, req[r].limit, req[r].items)'
  BY DEF AnswersCurrent
<1>1. /\ At(r, "store") /\ ~req[r].behind /\ req'[r].page = req[r].page
      /\ req'[r].limit = req[r].limit /\ req'[r].items = req[r].items
  BY DEF At
<1>2. PICK p, l, s : p = req[r].page /\ l = req[r].limit /\ s = req[r].items
  OBVIOUS
<1>3. Current(p, l, s)
  BY <1>1, <1>2 DEF AnswersCurrent
<1>4. Current(p, l, s)'
  BY <1>3, SameOrders
<1> QED
  BY <1>1, <1>2, <1>4 DEF Current, PageOf, Shown, Orders

(* Pages stay or go, or what is not dropped is known to be behind.           *)
LEMMA PagesStay ==
  ASSUME PagesOwed, UNCHANGED <<message, kind>>,
         \A p \in Pages :
           \/ entry'[p] = None
           \/ /\ entry[p] # None
              /\ entry'[p].items = entry[p].items /\ entry'[p].limit = entry[p].limit
              /\ entry[p].behind => entry'[p].behind
              /\ \A w \in Writers : Owes(w, p) => entry'[p].behind \/ Owes(w, p)'
  PROVE  PagesOwed'
<1> SUFFICES ASSUME NEW p \in Pages, entry'[p] # None,
                    ~Current(p, entry[p].limit, entry[p].items)'
             PROVE  entry'[p].behind \/ \E w \in Writers : Owes(w, p)'
  BY DEF PagesOwed
<1>1. /\ entry[p] # None /\ entry'[p].items = entry[p].items /\ entry'[p].limit = entry[p].limit
      /\ entry[p].behind => entry'[p].behind
      /\ \A w \in Writers : Owes(w, p) => entry'[p].behind \/ Owes(w, p)'
  OBVIOUS
<1>2. PICK l, s : l = entry[p].limit /\ s = entry[p].items
  OBVIOUS
<1>3. ~Current(p, l, s)'
  BY <1>1, <1>2 DEF Current, PageOf, Shown, Orders
<1>4. ~Current(p, l, s)
  BY <1>3, SameOrders
<1> QED
  BY <1>1, <1>2, <1>4 DEF PagesOwed

(* The pages and the writes are left alone.                                  *)
LEMMA PagesAlone ==
  ASSUME PagesOwed, UNCHANGED <<message, kind, entry, op>>
  PROVE  PagesOwed'
<1>1. \A w \in Writers : \A p : Owes(w, p)' <=> Owes(w, p)
  BY DEF Owes, Outdates
<1> QED
  BY <1>1, PagesStay

LEMMA LosingStays ==
  ASSUME NEW I, NEW rs \in [Requests -> RecordOf(I) \cup {None}], NEW ps,
         req' = LoseLocks(ps, rs)
  PROVE  \A r \in Requests :
           \/ req'[r] = rs[r]
           \/ /\ rs[r] # None /\ req'[r].step = rs[r].step /\ req'[r].page = rs[r].page
              /\ req'[r].limit = rs[r].limit /\ req'[r].items = rs[r].items
              /\ req'[r].behind = rs[r].behind
<1> SUFFICES ASSUME NEW r \in Requests, rs[r] # None, req'[r] # rs[r]
             PROVE  /\ req'[r].step = rs[r].step /\ req'[r].page = rs[r].page
                    /\ req'[r].limit = rs[r].limit /\ req'[r].items = rs[r].items
                    /\ req'[r].behind = rs[r].behind
  BY DEF LoseLocks
<1>1. req'[r] = [rs[r] EXCEPT !.lost = TRUE] /\ rs[r] \in RecordOf(I)
  BY DEF LoseLocks
<1> QED
  BY <1>1 DEF RecordOf

LEMMA GoingStays ==
  ASSUME NEW I, RequestsOf(I), NEW r \in Requests, req[r] # None,
         Done(r) \/ \E s \in Steps \ {"store"} : GoTo(r, s)
  PROVE  /\ req'[r] = None \/ req'[r].step # "store"
         /\ \A q \in Requests \ {r} : req'[q] = req[q]
BY DEF RequestsOf, RecordOf, Done, GoTo

LEMMA RequestTrue ==
  ASSUME TruthInv, NEW r \in Requests, RequestStep(r), UNCHANGED <<kind, op>>
  PROVE  PagesOwed' /\ AnswersCurrent'
<1>0. PICK I : I = Seq(Refs)
  OBVIOUS
<1>1. RequestsOf(I) /\ EntriesOf(I) /\ PagesOwed /\ AnswersCurrent
  BY <1>0 DEF TruthInv, Typed
<1>2. message' = message /\ req[r] # None
  BY DEF RequestStep, AcquireLock, DoubleCheck, SetCachedMessages, ReleaseLock, WaitHit,
    WaitTimeout, At
<1>3. ASSUME \A q \in Requests \ {r} : req'[q] = req[q], req'[r] = None \/ req'[r].step # "store"
      PROVE  AnswersCurrent'
  BY <1>1, <1>2, <1>3, AnswersStay DEF At
<1>4. CASE SetCachedMessages(r)
  <2>1. Done(r) \/ GoTo(r, "release")
    BY <1>4 DEF SetCachedMessages, AfterFetch
  <2>2. AnswersCurrent'
    BY <1>1, <1>2, <1>3, <2>1, GoingStays DEF Steps
  <2>3. PICK p, l, s, b : /\ p = req[r].page /\ l = req[r].limit /\ s = req[r].items
                          /\ b = req[r].behind
    OBVIOUS
  <2>4. entry' = [entry EXCEPT ![p] = [items |-> s, limit |-> l, age |-> "fresh", behind |-> b]]
    BY <1>4, <2>3 DEF SetCachedMessages
  <2>5. b \/ Current(p, l, s)'
    <3>1. b \/ Current(p, l, s)
      BY <1>1, <1>4, <2>3 DEF AnswersCurrent, SetCachedMessages
    <3> QED
      BY <1>2, <3>1, SameOrders
  <2>6. p \in Pages
    BY <1>1, <1>2, <2>3 DEF RequestsOf, RecordOf
  <2>7. entry'[p].items = s /\ entry'[p].limit = l /\ entry'[p].behind = b
    BY <1>1, <2>4, <2>6 DEF EntriesOf
  <2>8. ASSUME NEW q \in Pages, entry'[q] # None, ~Current(q, entry[q].limit, entry[q].items)'
        PROVE  entry'[q].behind \/ \E w \in Writers : Owes(w, q)'
    <3>1. CASE q = p
      <4>1. Current(p, l, s)' => Current(q, entry[q].limit, entry[q].items)'
        BY <2>7, <3>1 DEF Current, PageOf, Shown, Orders
      <4> QED
        BY <2>5, <2>7, <2>8, <3>1, <4>1
    <3>2. CASE q # p
      <4>1. PICK m, t : m = entry[q].limit /\ t = entry[q].items
        OBVIOUS
      <4>2. entry'[q] = entry[q]
        BY <1>1, <2>4, <3>2 DEF EntriesOf
      <4>3. ~Current(q, m, t)'
        BY <2>8, <4>1, <4>2 DEF Current, PageOf, Shown, Orders
      <4>4. ~Current(q, m, t)
        BY <1>2, <4>3, SameOrders
      <4>5. entry[q].behind \/ \E w \in Writers : Owes(w, q)
        BY <1>1, <2>8, <4>1, <4>2, <4>4 DEF PagesOwed
      <4> QED
        BY <4>2, <4>5 DEF Owes, Outdates
    <3> QED
      BY <3>1, <3>2
  <2>9. PagesOwed'
    BY <2>8 DEF PagesOwed
  <2> QED
    BY <2>2, <2>9
<1>5. ASSUME ~SetCachedMessages(r) PROVE PagesOwed'
  BY <1>1, <1>5, PagesAlone
     DEF RequestStep, AcquireLock, DoubleCheck, ReleaseLock, WaitHit, WaitTimeout
<1>6. CASE DoubleCheck(r) \/ WaitHit(r) \/ WaitTimeout(r)
  <2>1. Done(r) \/ \E s \in Steps \ {"store"} : GoTo(r, s)
    BY <1>6 DEF DoubleCheck, WaitHit, WaitTimeout, Steps
  <2>2. ~SetCachedMessages(r)
    BY <1>6 DEF DoubleCheck, WaitHit, WaitTimeout, SetCachedMessages, At
  <2> QED
    BY <1>1, <1>2, <1>3, <1>5, <2>1, <2>2, GoingStays
<1>7. CASE AcquireLock(r)
  <2>1. \/ GoTo(r, "wait")
        \/ req' = [req EXCEPT ![r] = [@ EXCEPT !.step = "check", !.holds = TRUE]]
    BY <1>7 DEF AcquireLock
  <2>2. req'[r].step # "store" /\ \A q \in Requests \ {r} : req'[q] = req[q]
    BY <1>1, <1>2, <2>1 DEF GoTo, RequestsOf, RecordOf
  <2>3. ~SetCachedMessages(r)
    BY <1>7 DEF AcquireLock, SetCachedMessages, At
  <2> QED
    BY <1>3, <1>5, <2>2, <2>3
<1>8. CASE ReleaseLock(r)
  <2>1. PICK rs : rs = [req EXCEPT ![r] = None]
    OBVIOUS
  <2>2. PICK ps : req' = LoseLocks(ps, rs)
    BY <1>8, <2>1 DEF ReleaseLock
  <2>3. /\ rs \in [Requests -> RecordOf(I) \cup {None}]
        /\ rs[r] = None /\ \A q \in Requests \ {r} : rs[q] = req[q]
    BY <1>1, <2>1 DEF RequestsOf
  <2>4. req'[r] = None
    BY <2>2, <2>3 DEF LoseLocks
  <2>5. \A q \in Requests :
          \/ req'[q] = rs[q]
          \/ /\ rs[q] # None /\ req'[q].step = rs[q].step /\ req'[q].page = rs[q].page
             /\ req'[q].limit = rs[q].limit /\ req'[q].items = rs[q].items
             /\ req'[q].behind = rs[q].behind
    BY <2>2, <2>3, LosingStays
  <2>6. AnswersCurrent'
    BY <1>1, <1>2, <2>3, <2>4, <2>5, AnswersStay DEF At
  <2>7. ~SetCachedMessages(r)
    BY <1>8 DEF ReleaseLock, SetCachedMessages, At
  <2> QED
    BY <1>5, <2>6, <2>7
<1> QED
  BY <1>4, <1>6, <1>7, <1>8 DEF RequestStep

LEMMA FetchTrue ==
  ASSUME TruthInv, NEW r \in Requests, UNCHANGED <<kind, op>>,
         \/ kind = "channel" /\ ChannelFetching(r)
         \/ kind = "direct" /\ DirectFetch(r)
  PROVE  PagesOwed' /\ AnswersCurrent'
<1>0. PICK I : I = Seq(Refs)
  OBVIOUS
<1>1. RequestsOf(I) /\ PagesOwed /\ AnswersCurrent /\ UNCHANGED <<message, entry, lock>>
  BY <1>0, FetchTyped DEF TruthInv, Typed
<1>2. PagesOwed'
  BY <1>1, PagesAlone
<1>3. ASSUME NEW order \in Orders, FetchFromDB(r, order) PROVE AnswersCurrent'
  <2>1. req[r] \in RecordOf(I)
    BY <1>1, <1>3 DEF FetchFromDB, At, RequestsOf
  <2>2. PICK p, l, s : p = req[r].page /\ l = req[r].limit /\ s = Shown(Slice(order, p, l))
    OBVIOUS
  <2>3. PICK x : x = [req[r] EXCEPT !.step = "store", !.items = s]
    OBVIOUS
  <2>4. req' = [req EXCEPT ![r] = x]
    BY <1>3, <2>2, <2>3 DEF FetchFromDB
  <2>5. req'[r] = x /\ \A q \in Requests \ {r} : req'[q] = req[q]
    BY <1>1, <2>4 DEF RequestsOf
  <2>6. x.page = p /\ x.limit = l /\ x.items = s
    BY <2>1, <2>2, <2>3 DEF RecordOf
  <2>7. Current(p, l, s)
    <3>1. CASE p = 0
      BY <2>2, <3>1 DEF Current, PageOf
    <3>2. CASE p # 0
      BY <2>2, <3>2 DEF Current, Shown
    <3> QED
      BY <3>1, <3>2
  <2>8. Current(p, l, s)'
    BY <1>1, <2>7, SameOrders
  <2>9. ASSUME NEW q \in Requests, At(q, "store")', ~req'[q].behind
        PROVE  Current(req[q].page, req[q].limit, req[q].items)'
    <3>1. CASE q = r
      BY <2>5, <2>6, <2>8, <3>1 DEF Current, PageOf, Shown, Orders
    <3>2. CASE q # r
      <4>1. PICK pp, ll, ss : pp = req[q].page /\ ll = req[q].limit /\ ss = req[q].items
        OBVIOUS
      <4>2. Current(pp, ll, ss)
        BY <1>1, <2>5, <2>9, <3>2, <4>1 DEF AnswersCurrent, At
      <4>3. Current(pp, ll, ss)'
        BY <1>1, <4>2, SameOrders
      <4> QED
        BY <2>5, <3>2, <4>1, <4>3 DEF Current, PageOf, Shown, Orders
    <3> QED
      BY <3>1, <3>2
  <2> QED
    BY <2>9 DEF AnswersCurrent
<1>4. ASSUME FetchFails(r) \/ ChannelSkipStore(r) PROVE AnswersCurrent'
  <2>1. req[r] # None /\ (Done(r) \/ \E s \in Steps \ {"store"} : GoTo(r, s))
    BY <1>4 DEF FetchFails, ChannelSkipStore, NotCached, AfterFetch, At, Steps
  <2> QED
    BY <1>1, <2>1, GoingStays, AnswersStay DEF At
<1>5. (\E order \in Orders : FetchFromDB(r, order)) \/ FetchFails(r) \/ ChannelSkipStore(r)
  BY DEF Orders, ChannelFetching, ChannelFetch, DirectFetch
<1> QED
  BY <1>2, <1>3, <1>4, <1>5

(* A send changes no text that a page can show.                              *)
LEMMA TextsStay ==
  ASSUME Typed, NEW x, message' = Append(message, x), NEW p, p # 0, NEW l, NEW s \in Seq(Refs)
  PROVE  Current(p, l, s)' <=> Current(p, l, s)
<1>1. \A i \in DOMAIN message : message'[i] = message[i]
  BY DEF Typed, RoomTyped
<1>2. \A k \in DOMAIN s : s[k][1] \in DOMAIN message
  <2>1. \A k \in DOMAIN s : s[k] \in Refs
    OBVIOUS
  <2> QED
    BY <2>1 DEF Refs
<1> QED
  BY <1>1, <1>2 DEF Current

LEMMA BehindStays ==
  ASSUME NEW I, RequestsOf(I), NEW ps, req' = Behind(ps), NEW r \in Requests,
         At(r, "store")', ~req'[r].behind
  PROVE  At(r, "store") /\ req'[r] = req[r] /\ req[r].page \notin ps /\ ~req[r].behind
<1>1. CASE At(r, "store") /\ req[r].page \in ps
  <2>1. req'[r] = [req[r] EXCEPT !.behind = TRUE] /\ req[r] \in RecordOf(I)
    BY <1>1 DEF Behind, RequestsOf, At
  <2>2. req'[r].behind
    BY <2>1 DEF RecordOf
  <2> QED
    BY <2>2
<1>2. CASE ~(At(r, "store") /\ req[r].page \in ps)
  <2>1. req'[r] = req[r]
    BY <1>2 DEF Behind, At
  <2> QED
    BY <1>2, <2>1 DEF At
<1> QED
  BY <1>1, <1>2

LEMMA InsertTrue ==
  ASSUME TruthInv, NEW w \in Writers, InsertMessage(w), kind' = kind
  PROVE  PagesOwed' /\ AnswersCurrent'
<1>0. PICK I : I = Seq(Refs)
  OBVIOUS
<1>1. Typed /\ RequestsOf(I) /\ EntriesOf(I) /\ PagesOwed /\ AnswersCurrent
  BY <1>0 DEF TruthInv, Typed
<1>2. PICK x : message' = Append(message, x)
  BY DEF InsertMessage
<1>3. op[w] = None /\ entry' = entry /\ req' = Behind({0})
  BY DEF InsertMessage
<1>4. /\ op'[w] # None /\ op'[w].step = "invalidate" /\ op'[w].does = "send"
      /\ \A v \in Writers \ {w} : op'[v] = op[v]
  <2>1. PICK h : h = [step |-> "invalidate", does |-> "send", msg |-> Len(message) + 1,
                      text |-> 0, keys |-> {}]
    OBVIOUS
  <2>2. op'[w] = h /\ \A v \in Writers \ {w} : op'[v] = op[v]
    BY <1>1, <2>1 DEF InsertMessage, Typed, WritesKnow
  <2>3. Len(message) \in Nat /\ Len(message) < MaxMessages
    BY <1>1, MessageHistory DEF Typed, InsertMessage
  <2>4. h \in Op
    BY <2>1, <2>3, CacheAssumption DEF Op, Deleted
  <2>5. h # None /\ h.step = "invalidate" /\ h.does = "send"
    BY <2>1, <2>4, NoneAssumption
  <2> QED
    BY <2>2, <2>5
<1>5. ASSUME NEW p \in Pages, entry[p] # None, ~Current(p, entry[p].limit, entry[p].items)'
      PROVE  entry[p].behind \/ \E v \in Writers : Owes(v, p)'
  <2>1. CASE p = 0
    <3>1. Owes(w, 0)'
      BY <1>4 DEF Owes, Outdates
    <3> QED
      BY <2>1, <3>1
  <2>2. CASE p # 0
    <3>1. PICK l, s : l = entry[p].limit /\ s = entry[p].items
      OBVIOUS
    <3>2. s \in Seq(Refs)
      BY <1>0, <1>1, <1>5, <3>1 DEF EntriesOf, EntryOf
    <3>3. ~Current(p, l, s)'
      BY <1>3, <1>5, <3>1 DEF Current, PageOf, Shown, Orders
    <3>4. ~Current(p, l, s)
      BY <1>1, <1>2, <2>2, <3>2, <3>3, TextsStay
    <3>5. entry[p].behind \/ \E v \in Writers : Owes(v, p)
      BY <1>1, <1>5, <3>1, <3>4 DEF PagesOwed
    <3>6. \A v \in Writers : Owes(v, p) => v # w
      BY <1>3 DEF Owes, Outdates
    <3> QED
      BY <1>4, <3>5, <3>6 DEF Owes, Outdates
  <2> QED
    BY <2>1, <2>2
<1>6. ASSUME NEW r \in Requests, At(r, "store")', ~req'[r].behind
      PROVE  Current(req[r].page, req[r].limit, req[r].items)'
  <2>1. PICK p, l, s : p = req[r].page /\ l = req[r].limit /\ s = req[r].items
    OBVIOUS
  <2>2. At(r, "store") /\ req'[r] = req[r] /\ p # 0 /\ ~req[r].behind
    BY <1>1, <1>3, <1>6, <2>1, BehindStays
  <2>3. s \in Seq(Refs)
    BY <1>0, <1>1, <2>1, <2>2 DEF RequestsOf, RecordOf, At
  <2>4. Current(p, l, s)
    BY <1>1, <2>1, <2>2 DEF AnswersCurrent
  <2>5. Current(p, l, s)'
    BY <1>1, <1>2, <2>2, <2>3, <2>4, TextsStay
  <2> QED
    BY <2>1, <2>2, <2>5 DEF Current, PageOf, Shown, Orders
<1> QED
  BY <1>3, <1>5, <1>6 DEF PagesOwed, AnswersCurrent

LEMMA SaveTrue ==
  ASSUME TruthInv, NEW w \in Writers, SaveMessage(w)
  PROVE  PagesOwed' /\ AnswersCurrent'
<1>0. PICK I : I = Seq(Refs)
  OBVIOUS
<1>1. RequestsOf(I) /\ WritesKnow
  BY <1>0 DEF TruthInv, Typed
<1>2. op[w] \in Op /\ op[w].does # "send" /\ op' = [op EXCEPT ![w].step = "keys"]
        /\ req' = Behind(Pages)
  BY <1>1 DEF SaveMessage, OpAt, WritesKnow
<1>3. op'[w] = [op[w] EXCEPT !.step = "keys"]
  BY <1>1, <1>2 DEF WritesKnow
<1>4. op'[w] # None /\ op'[w].step = "keys" /\ op'[w].does # "send"
  BY <1>2, <1>3, NoneAssumption DEF Op
<1>5. \A p \in Pages : Owes(w, p)'
  BY <1>4 DEF Owes, Outdates
<1>6. \A r \in Requests : ~(At(r, "store")' /\ ~req'[r].behind)
  <2> SUFFICES ASSUME NEW r \in Requests, At(r, "store")', ~req'[r].behind PROVE FALSE
    OBVIOUS
  <2>1. At(r, "store") /\ req[r].page \notin Pages
    BY <1>1, <1>2, BehindStays
  <2> QED
    BY <1>1, <2>1 DEF RequestsOf, RecordOf, At
<1> QED
  BY <1>5, <1>6 DEF PagesOwed, AnswersCurrent

LEMMA FindTrue ==
  ASSUME TruthInv, NEW w \in Writers, NEW m \in DOMAIN message, NEW does, FindMessage(w, m, does),
         kind' = kind
  PROVE  PagesOwed' /\ AnswersCurrent'
<1>1. WritesKnow /\ PagesOwed /\ AnswersCurrent /\ op[w] = None
        /\ UNCHANGED <<message, kind, entry, req>>
  BY DEF TruthInv, Typed, FindMessage
<1>2. \A v \in Writers \ {w} : op'[v] = op[v]
  BY <1>1 DEF FindMessage, WritesKnow
<1>3. \A v \in Writers, p \in Pages : Owes(v, p) => Owes(v, p)'
  BY <1>1, <1>2 DEF Owes, Outdates
<1>4. PagesOwed'
  BY <1>1, <1>3, PagesStay
<1>5. AnswersCurrent'
  BY <1>1, AnswersStay DEF At
<1> QED
  BY <1>4, <1>5

LEMMA InvalidationTrue ==
  ASSUME TruthInv, NEW w \in Writers, Invalidating(w), kind' = kind
  PROVE  PagesOwed' /\ AnswersCurrent'
<1>0. PICK I : I = Seq(Refs)
  OBVIOUS
<1>1. RequestsOf(I) /\ EntriesOf(I) /\ WritesKnow /\ PagesOwed /\ AnswersCurrent
        /\ message' = message
  BY <1>0 DEF TruthInv, Typed, Invalidating, InvalidateFirstPage, ListKeys, DropKeys,
    InvalidationFails
<1>2. \A v \in Writers \ {w} : op'[v] = op[v]
  BY <1>1 DEF Invalidating, InvalidateFirstPage, ListKeys, DropKeys, InvalidationFails, WritesKnow
<1>3. \A v \in Writers \ {w}, p \in Pages : Owes(v, p) => Owes(v, p)'
  BY <1>2 DEF Owes, Outdates
<1>4. ASSUME \A p \in Pages :
               \/ entry'[p] = None
               \/ /\ entry[p] # None
                  /\ entry'[p].items = entry[p].items /\ entry'[p].limit = entry[p].limit
                  /\ entry[p].behind => entry'[p].behind
                  /\ Owes(w, p) => entry'[p].behind \/ Owes(w, p)'
      PROVE  PagesOwed'
  BY <1>1, <1>3, <1>4, PagesStay
<1>5. ASSUME InvalidateFirstPage(w) PROVE PagesOwed' /\ AnswersCurrent'
  <2>1. \A p \in Pages : entry'[p] = IF p = 0 THEN None ELSE entry[p]
    BY <1>1, <1>5 DEF InvalidateFirstPage, InvalidatePage, EntriesOf
  <2>2. op[w] # None /\ op[w].step = "invalidate" /\ op[w].does = "send"
    BY <1>1, <1>5 DEF InvalidateFirstPage, OpAt, WritesKnow
  <2>3. \A p \in Pages \ {0} : ~Owes(w, p)
    BY <2>2 DEF Owes, Outdates
  <2> QED
    BY <1>1, <1>4, <1>5, <2>1, <2>3, AnswersStay DEF InvalidateFirstPage, At
<1>6. ASSUME ListKeys(w) PROVE PagesOwed' /\ AnswersCurrent'
  <2>1. op[w] # None /\ op[w] \in Op /\ op[w].step = "keys" /\ op[w].does # "send"
          /\ UNCHANGED <<entry, req>>
    BY <1>1, <1>6 DEF ListKeys, OpAt, WritesKnow
  <2>2. PICK K : K = KeysOfRoom
    OBVIOUS
  <2>3. \A p \in Pages : entry[p] # None => <<"page", p>> \in K
    BY <2>2 DEF KeysOfRoom
  <2>4. CASE K = {}
    BY <1>1, <1>4, <2>1, <2>3, <2>4, AnswersStay DEF At
  <2>5. CASE K # {}
    <3>1. K \in SUBSET ({"page", "lock"} \X Pages)
      BY <2>2 DEF KeysOfRoom
    <3>2. PICK x : x = [op[w] EXCEPT !.step = "del", !.keys = K]
      OBVIOUS
    <3>3. op' = [op EXCEPT ![w] = x]
      BY <1>6, <2>2, <2>5, <3>2 DEF ListKeys
    <3>4. op'[w] = x
      BY <1>1, <3>3 DEF WritesKnow
    <3>5. x \in Op /\ x.keys = K /\ x.does # "send" /\ x.step = "del"
      BY <2>1, <3>1, <3>2 DEF Op
    <3>6. op'[w] # None /\ op'[w].keys = K /\ op'[w].does # "send" /\ op'[w].step = "del"
      BY <3>4, <3>5, NoneAssumption
    <3>7. \A p \in Pages : entry[p] # None => Owes(w, p)'
      BY <2>3, <3>6 DEF Owes, Outdates
    <3> QED
      BY <1>1, <1>4, <2>1, <3>7, AnswersStay DEF At
  <2> QED
    BY <2>4, <2>5
<1>7. ASSUME DropKeys(w) PROVE PagesOwed' /\ AnswersCurrent'
  <2>1. op[w] # None /\ op[w].step = "del"
    BY <1>7 DEF DropKeys, OpAt
  <2>2. \A p \in Pages : entry'[p] = IF <<"page", p>> \in op[w].keys THEN None ELSE entry[p]
    BY <1>7 DEF DropKeys, DeleteKeys
  <2>3. \A p \in Pages : Owes(w, p) => entry'[p] = None
    BY <2>1, <2>2 DEF Owes
  <2>4. PagesOwed'
    BY <1>4, <2>2, <2>3
  <2>5. PICK ps, rs : rs = req /\ req' = LoseLocks(ps, rs)
    BY <1>7 DEF DropKeys, DeleteKeys
  <2>6. rs \in [Requests -> RecordOf(I) \cup {None}]
    BY <1>1, <2>5 DEF RequestsOf
  <2>7. \A r \in Requests :
          \/ req'[r] = rs[r]
          \/ /\ rs[r] # None /\ req'[r].step = rs[r].step /\ req'[r].page = rs[r].page
             /\ req'[r].limit = rs[r].limit /\ req'[r].items = rs[r].items
             /\ req'[r].behind = rs[r].behind
    BY <2>5, <2>6, LosingStays
  <2>8. AnswersCurrent'
    BY <1>1, <2>5, <2>7, AnswersStay DEF At
  <2> QED
    BY <2>4, <2>8
<1>8. ASSUME InvalidationFails(w) PROVE PagesOwed' /\ AnswersCurrent'
  <2>1. LeaveBehind(Outdates(w)) /\ req' = req
    BY <1>8 DEF InvalidationFails
  <2>2. \A p \in Pages : /\ entry[p] = None => entry'[p] = None
                         /\ entry[p] # None =>
                              /\ entry'[p].items = entry[p].items
                              /\ entry'[p].limit = entry[p].limit
                              /\ entry[p].behind \/ p \in Outdates(w) => entry'[p].behind
    BY <1>1, <2>1 DEF LeaveBehind, EntriesOf, EntryOf
  <2> QED
    BY <1>1, <1>4, <2>1, <2>2, AnswersStay DEF Owes, At
<1> QED
  BY <1>5, <1>6, <1>7, <1>8 DEF Invalidating

LEMMA ClockTrue ==
  ASSUME TruthInv, NEW p \in Pages, Clock(p), UNCHANGED <<kind, op>>
  PROVE  PagesOwed' /\ AnswersCurrent'
<1>0. PICK I : I = Seq(Refs)
  OBVIOUS
<1>1. RequestsOf(I) /\ EntriesOf(I) /\ PagesOwed /\ AnswersCurrent /\ message' = message
  BY <1>0 DEF TruthInv, Typed, Clock, GoStale, Expire, LockExpires
<1>2. CASE GoStale(p) \/ Expire(p)
  <2>1. \A q \in Pages : \/ entry'[q] = None
                         \/ /\ entry[q] # None /\ entry'[q].items = entry[q].items
                            /\ entry'[q].limit = entry[q].limit
                            /\ entry'[q].behind = entry[q].behind
    BY <1>1, <1>2 DEF GoStale, Expire, Fresh, Stale, EntriesOf, EntryOf
  <2>2. \A w \in Writers : \A q : Owes(w, q)' <=> Owes(w, q)
    BY DEF Owes, Outdates
  <2>3. PagesOwed'
    BY <1>1, <2>1, <2>2, PagesStay
  <2> QED
    BY <1>1, <1>2, <2>3, AnswersStay DEF GoStale, Expire, At
<1>3. CASE LockExpires(p)
  <2>1. PICK ps, rs : rs = req /\ req' = LoseLocks(ps, rs)
    BY <1>3 DEF LockExpires
  <2>2. rs \in [Requests -> RecordOf(I) \cup {None}]
    BY <1>1, <2>1 DEF RequestsOf
  <2>3. \A r \in Requests :
          \/ req'[r] = rs[r]
          \/ /\ rs[r] # None /\ req'[r].step = rs[r].step /\ req'[r].page = rs[r].page
             /\ req'[r].limit = rs[r].limit /\ req'[r].items = rs[r].items
             /\ req'[r].behind = rs[r].behind
    BY <2>1, <2>2, LosingStays
  <2>4. AnswersCurrent'
    BY <1>1, <2>1, <2>3, AnswersStay DEF At
  <2> QED
    BY <1>1, <1>3, <2>4, PagesAlone DEF LockExpires
<1> QED
  BY <1>2, <1>3 DEF Clock

LEMMA CrashTrue ==
  ASSUME TruthInv, Crash, kind' = kind
  PROVE  PagesOwed' /\ AnswersCurrent'
<1>0. PICK I : I = Seq(Refs)
  OBVIOUS
<1>1. EntriesOf(I) /\ PagesOwed /\ AnswersCurrent /\ message' = message
  BY <1>0 DEF TruthInv, Typed, Crash
<1>2. PICK ps : ps = UNION {Outdates(w) : w \in Writers}
  OBVIOUS
<1>3. \A p \in Pages : /\ entry[p] = None => entry'[p] = None
                       /\ entry[p] # None =>
                            /\ entry'[p].items = entry[p].items
                            /\ entry'[p].limit = entry[p].limit
                            /\ entry[p].behind \/ p \in ps => entry'[p].behind
  BY <1>1, <1>2 DEF Crash, LeaveBehind, EntriesOf, EntryOf
<1>4. \A w \in Writers, p \in Pages : Owes(w, p) => p \in ps
  BY <1>2 DEF Owes
<1>5. PagesOwed'
  BY <1>1, <1>3, <1>4, PagesStay
<1> QED
  BY <1>1, <1>5, AnswersStay DEF Crash

LEMMA TruthStep ==
  ASSUME TruthInv, [Next]_vars
  PROVE  TruthInv'
<1>0. Typed /\ PagesOwed /\ AnswersCurrent /\ Typed'
  BY TypedStep DEF TruthInv
<1>1. ASSUME NEW r \in Requests, Running(r) PROVE PagesOwed' /\ AnswersCurrent'
  BY <1>1, RequestTrue, FetchTrue DEF Running, writeVars
<1>2. ASSUME NEW r \in Requests, Asking(r) PROVE PagesOwed' /\ AnswersCurrent'
  <2>1. asks[r] \in SUBSET Pages
    BY <1>0, ReadershipAssumption DEF Typed
  <2>2. PICK I : I = Refs
    OBVIOUS
  <2>3. RequestsOf(Seq(I))
    BY <1>0, <2>2 DEF Typed
  <2>4. UNCHANGED <<message, entry, op, kind>> /\ req[r] = None
    BY <1>2, <2>1, <2>3, AskTyped DEF Asking, writeVars
  <2>5. PICK s, p, l : s \in Steps \ {"store"} /\ Begin(r, s, p, l)
    BY <1>2, <2>1, <2>3, AskTyped DEF Asking
  <2>6. req'[r].step = s /\ \A q \in Requests \ {r} : req'[q] = req[q]
    BY <2>3, <2>5 DEF Begin, RequestsOf
  <2>7. s # "store"
    BY <2>5
  <2>8. \A q \in Requests : At(q, "store")' => q # r /\ req'[q] = req[q]
    BY <2>6, <2>7 DEF At
  <2> QED
    BY <1>0, <2>4, <2>8, PagesAlone, AnswersStay DEF At
<1>3. ASSUME NEW w \in Writers, Writing(w) PROVE PagesOwed' /\ AnswersCurrent'
  <2>1. kind' = kind
    BY <1>3 DEF Writing
  <2>2. \/ InsertMessage(w) \/ SaveMessage(w) \/ Invalidating(w)
        \/ \E m \in DOMAIN message, does \in {"edit", "delete"} : FindMessage(w, m, does)
    BY <1>3 DEF Writing, ChannelWrite, ChannelStep, DirectWrite, DirectStep,
      CreateMessage, SendMessage, ChannelEdit, ChannelDelete, DirectEdit, DirectDelete
  <2> QED
    BY <2>1, <2>2, InsertTrue, SaveTrue, InvalidationTrue, FindTrue
<1>4. ASSUME NEW p \in Pages, Ticking(p) PROVE PagesOwed' /\ AnswersCurrent'
  BY <1>4, ClockTrue DEF Ticking, writeVars
<1>5. ASSUME Restart PROVE PagesOwed' /\ AnswersCurrent'
  BY <1>5, CrashTrue DEF Restart
<1>6. ASSUME UNCHANGED vars PROVE PagesOwed' /\ AnswersCurrent'
  BY <1>0, <1>6, PagesAlone, AnswersStay DEF vars, cacheVars, writeVars, At
<1> QED
  BY <1>0, <1>1, <1>2, <1>3, <1>4, <1>5, <1>6 DEF Next, TruthInv

(* The types of a room, its cache, and what is on its way between them.       *)
THEOREM RoomTypeCorrect == Spec => []TypeOK
<1>1. Typed /\ [Next]_vars => Typed'
  BY TypedStep
<1>2. Typed => TypeOK
  <2> SUFFICES ASSUME Typed PROVE TypeOK
    OBVIOUS
  <2>1. Refs \subseteq (1 .. MaxMessages) \X (0 .. Deleted)
    BY MessageHistory DEF Typed, Refs
  <2>2. PICK I, J : I = Refs /\ J = (1 .. MaxMessages) \X (0 .. Deleted)
    OBVIOUS
  <2>3. RecordOf(Seq(Refs)) \subseteq RecordOf(Items) /\ EntryOf(Seq(Refs)) \subseteq EntryOf(Items)
    BY <2>1, <2>2, RoomGrows DEF Items
  <2>4. RecordOf(Items) = Request /\ EntryOf(Items) = Entry
    BY DEF RecordOf, EntryOf, Request, Entry, Steps
  <2>5. CacheTypeOK
    BY <2>3, <2>4 DEF Typed, RoomTyped, RequestsOf, EntriesOf, CacheTypeOK
  <2> QED
    BY <2>5 DEF Typed, TypeOK, WritesTypeOK, WritesKnow
<1> QED
  BY TypedStart, <1>1, <1>2, PTL DEF Spec

(* However requests, writes, failures and restarts overlap, a cached page    *)
(* says what MongoDB says unless a write that will drop it is under way, or  *)
(* the page was read before a write and stored after it, or what should have *)
(* dropped it failed.                                                        *)
THEOREM CacheTellsTheTruth == Spec => []PagesTrue
<1>1. Init => TruthInv
  BY TypedStart
     DEF Init, CacheInit, TruthInv, PagesOwed, AnswersCurrent, At
<1>2. TruthInv /\ [Next]_vars => TruthInv'
  BY TruthStep
<1>3. TruthInv => PagesTrue
  BY DEF TruthInv, PagesOwed, PagesTrue, OutOfDate, Current, Owes
<1> QED
  BY <1>1, <1>2, <1>3, PTL DEF Spec
-----------------------------------------------------------------------------
(* Pages of a list, by arithmetic: position j is met as the k-th of page p.  *)
LEMMA PositionsArePaged ==
  ASSUME NEW l \in Nat \ {0}, NEW j \in Nat \ {0}
  PROVE  \E p \in 0 .. j - 1, k \in 1 .. l : j = p * l + k
<1>1. PICK p, m : p = (j - 1) \div l /\ m = (j - 1) % l
  OBVIOUS
<1>2. p \in Int /\ m \in 0 .. l - 1 /\ j - 1 = l * p + m
  BY <1>1
<1>3. p \in Nat
  BY <1>2
<1>4. p <= l * p
  BY <1>3
<1>5. p \in 0 .. j - 1 /\ m + 1 \in 1 .. l /\ j = p * l + (m + 1)
  BY <1>2, <1>3, <1>4
<1> QED
  BY <1>5

LEMMA NextPageBegins ==
  ASSUME NEW l \in Nat \ {0}, NEW p \in Nat, NEW q \in Nat, p < q
  PROVE  p * l + l <= q * l
<1>1. PICK d \in Nat : q = p + 1 + d
  <2>1. q = p + 1 + (q - p - 1) /\ q - p - 1 \in Nat
    OBVIOUS
  <2> QED
    BY <2>1
<1>2. q * l = p * l + l + d * l
  BY <1>1
<1>3. d * l \in Nat /\ p * l \in Nat
  OBVIOUS
<1> QED
  BY <1>2, <1>3

LEMMA PagesAreApart ==
  ASSUME NEW l \in Nat \ {0}, NEW p \in Nat, NEW q \in Nat, NEW k \in 1 .. l, NEW m \in 1 .. l,
         p * l + k = q * l + m
  PROVE  p = q /\ k = m
<1>1. PICK x \in Nat, y \in Nat : x = p * l /\ y = q * l
  OBVIOUS
<1>2. ~(p < q)
  <2> SUFFICES ASSUME p < q PROVE FALSE
    OBVIOUS
  <2>1. x + l <= y
    BY <1>1, NextPageBegins
  <2> QED
    BY <1>1, <2>1
<1>3. ~(q < p)
  <2> SUFFICES ASSUME q < p PROVE FALSE
    OBVIOUS
  <2>1. y + l <= x
    BY <1>1, NextPageBegins
  <2> QED
    BY <1>1, <2>1
<1>4. p = q
  BY <1>2, <1>3
<1>5. x = y
  BY <1>1, <1>4
<1> QED
  BY <1>1, <1>4, <1>5

LEMMA LastPageIsLast ==
  ASSUME NEW n \in Nat, NEW p \in Nat, NEW l \in Nat \ {0}
  PROVE  IsLastPage(n, p, l) <=> n <= (p + 1) * l
<1>1. PICK c, m : c = (n + l - 1) \div l /\ m = (n + l - 1) % l
  OBVIOUS
<1>2. c \in Int /\ m \in 0 .. l - 1 /\ n + l - 1 = l * c + m
  BY <1>1
<1>3. c \in Nat
  BY <1>2
<1>4. PICK M : M = Max({c, 1})
  OBVIOUS
<1>5. M = IF c >= 1 THEN c ELSE 1
  BY <1>3, <1>4 DEF Max
<1>6. IsLastPage(n, p, l) <=> p >= M - 1
  BY <1>1, <1>4 DEF IsLastPage, Ceil
<1>7. ASSUME p >= M - 1 PROVE n <= (p + 1) * l
  <2>1. c <= p + 1
    BY <1>3, <1>5, <1>7
  <2>2. c * l <= (p + 1) * l
    <3>1. CASE c = p + 1
      BY <3>1
    <3>2. CASE c < p + 1
      BY <1>3, <3>2, NextPageBegins
    <3> QED
      BY <1>3, <2>1, <3>1, <3>2
  <2>3. PICK x, y : x = c * l /\ y = (p + 1) * l /\ x \in Nat /\ y \in Nat
    BY <1>3
  <2>4. n + l - 1 = x + m
    BY <1>2, <1>3, <2>3
  <2> QED
    BY <1>2, <2>2, <2>3, <2>4
<1>8. ASSUME n <= (p + 1) * l PROVE p >= M - 1
  <2> SUFFICES ASSUME p < M - 1 PROVE FALSE
    BY <1>3, <1>5
  <2>1. p + 1 < c
    BY <1>3, <1>5
  <2>2. (p + 1) * l + l <= c * l
    BY <1>3, <2>1, NextPageBegins
  <2>3. PICK x, y : x = c * l /\ y = (p + 1) * l /\ x \in Nat /\ y \in Nat
    BY <1>3
  <2>4. n + l - 1 = x + m
    BY <1>2, <1>3, <2>3
  <2> QED
    BY <1>2, <1>8, <2>2, <2>3, <2>4
<1> QED
  BY <1>6, <1>7, <1>8

(* A list without repetition, cut into pages, is met once.                   *)
LEMMA ListPaged ==
  ASSUME NEW S, NEW s \in Seq(S), \A i, j \in 1 .. Len(s) : s[i] = s[j] => i = j,
         NEW l \in Nat \ {0}
  PROVE  /\ \A p \in Nat : /\ Slice(s, p, l) \in Seq(S) /\ Len(Slice(s, p, l)) <= Len(s)
                           /\ Len(Slice(s, p, l)) > 0 <=> p * l < Len(s)
         /\ \A j \in 1 .. Len(s) : \E p \in 0 .. j - 1 : \E k \in 1 .. Len(Slice(s, p, l)) :
              Slice(s, p, l)[k] = s[j]
         /\ \A p, q \in Nat :
              \A k \in 1 .. Len(Slice(s, p, l)), m \in 1 .. Len(Slice(s, q, l)) :
                Slice(s, p, l)[k] = Slice(s, q, l)[m] => p = q /\ k = m
<1>0. Len(s) \in Nat
  OBVIOUS
<1>1. \A p \in Nat :
        /\ p * l \in Nat /\ Slice(s, p, l) \in Seq(S)
        /\ Len(Slice(s, p, l)) = IF Len(s) <= p * l THEN 0
                     ELSE IF Len(s) <= p * l + l THEN Len(s) - p * l ELSE l
        /\ \A k \in 1 .. Len(Slice(s, p, l)) :
             p * l + k \in 1 .. Len(s) /\ Slice(s, p, l)[k] = s[p * l + k]
  BY SliceCuts DEF IsCut
<1>2. ASSUME NEW p \in Nat
      PROVE  /\ Len(Slice(s, p, l)) <= Len(s) /\ Len(Slice(s, p, l)) <= l
             /\ Len(Slice(s, p, l)) > 0 <=> p * l < Len(s)
  <2>1. PICK x, n : x \in Nat /\ x = p * l /\ n = Len(Slice(s, p, l))
    BY <1>1
  <2>2. n = IF Len(s) <= x THEN 0 ELSE IF Len(s) <= x + l THEN Len(s) - x ELSE l
    BY <1>1, <2>1
  <2> QED
    BY <1>0, <2>1, <2>2
<1>3. ASSUME NEW j \in 1 .. Len(s)
      PROVE  \E p \in 0 .. j - 1 : \E k \in 1 .. Len(Slice(s, p, l)) : Slice(s, p, l)[k] = s[j]
  <2>1. j \in Nat \ {0}
    BY <1>0
  <2>2. PICK p \in 0 .. j - 1, k \in 1 .. l : j = p * l + k
    BY <2>1, PositionsArePaged
  <2>3. p \in Nat
    BY <2>1
  <2>4. PICK x, u : x \in Nat /\ x = p * l /\ u = Slice(s, p, l)
    BY <1>1, <2>3
  <2>5. /\ Len(u) = IF Len(s) <= x THEN 0 ELSE IF Len(s) <= x + l THEN Len(s) - x ELSE l
        /\ \A i \in 1 .. Len(u) : u[i] = s[x + i]
    BY <1>1, <2>3, <2>4
  <2>6. k \in 1 .. Len(u) /\ j = x + k
    BY <1>0, <2>2, <2>4, <2>5
  <2> QED
    BY <2>4, <2>5, <2>6
<1>4. ASSUME NEW p \in Nat, NEW q \in Nat,
             NEW k \in 1 .. Len(Slice(s, p, l)), NEW m \in 1 .. Len(Slice(s, q, l)),
             Slice(s, p, l)[k] = Slice(s, q, l)[m]
      PROVE  p = q /\ k = m
  <2>1. PICK t, u : t = Slice(s, p, l) /\ u = Slice(s, q, l)
    OBVIOUS
  <2>2. /\ Len(t) \in Nat /\ Len(t) <= l /\ Len(u) \in Nat /\ Len(u) <= l
        /\ k \in 1 .. Len(t) /\ m \in 1 .. Len(u)
    <3>1. t \in Seq(S) /\ u \in Seq(S)
      BY <1>1, <2>1
    <3>2. Len(t) <= l /\ Len(u) <= l
      BY <1>2, <2>1
    <3> QED
      BY <2>1, <3>1, <3>2
  <2>3. p * l + k \in 1 .. Len(s) /\ t[k] = s[p * l + k]
    BY <1>1, <2>1
  <2>4. q * l + m \in 1 .. Len(s) /\ u[m] = s[q * l + m]
    BY <1>1, <2>1
  <2>5. p * l + k = q * l + m
    BY <1>4, <2>1, <2>3, <2>4
  <2>6. k \in 1 .. l /\ m \in 1 .. l
    BY <2>2
  <2>7. p \in Nat /\ q \in Nat
    BY <2>1
  <2>8. \A i, j \in Nat : \A v, w \in 1 .. l : i * l + v = j * l + w => i = j /\ v = w
    BY PagesAreApart
  <2> QED
    BY <2>5, <2>6, <2>7, <2>8
<1> QED
  BY <1>1, <1>2, <1>3, <1>4

-----------------------------------------------------------------------------
(* A history as the runs have it: a sequence of documents.                   *)
Documents == Seq([at : Nat])

LEMMA DocumentsAreHistories ==
  ASSUME NEW h \in Documents
  PROVE  /\ IsHistory(h) /\ Len(h) \in Nat /\ DOMAIN h = 1 .. Len(h) /\ IsFiniteSet(DOMAIN h)
         /\ Cardinality(DOMAIN h) = Len(h)
<1>1. Len(h) \in Nat /\ DOMAIN h = 1 .. Len(h) /\ \A i \in DOMAIN h : h[i] \in [at : Nat]
  <2>1. PICK D : D = [at : Nat]
    OBVIOUS
  <2>2. h \in Seq(D)
    BY <2>1 DEF Documents
  <2>3. \A i \in 1 .. Len(h) : h[i] \in D
    BY <2>2
  <2> QED
    BY <2>1, <2>2, <2>3, LenProperties
<1>2. PICK n \in Nat : n = Len(h)
  BY <1>1
<1>3. IsFiniteSet(1 .. n) /\ Cardinality(1 .. n) = n
  BY FS_Interval
<1> QED
  BY <1>1, <1>2, <1>3 DEF IsHistory

(* The two ways from an anchor.                                              *)
LEMMA TwoWays ==
  ASSUME NEW h \in Documents, NEW a \in DOMAIN h
  PROVE  /\ DOMAIN h = OlderThan(h, a) \cup {a} \cup NewerThan(h, a)
         /\ a \notin OlderThan(h, a) /\ a \notin NewerThan(h, a)
         /\ OlderThan(h, a) \cap NewerThan(h, a) = {}
         /\ IsFiniteSet(OlderThan(h, a)) /\ Cardinality(OlderThan(h, a)) \in 0 .. Len(h) - 1
         /\ IsFiniteSet(NewerThan(h, a)) /\ Cardinality(NewerThan(h, a)) \in 0 .. Len(h) - 1
<1> DEFINE older == OlderThan(h, a)
           newer == NewerThan(h, a)
<1>1. IsHistory(h) /\ Len(h) \in Nat /\ IsFiniteSet(DOMAIN h) /\ Cardinality(DOMAIN h) = Len(h)
  BY DocumentsAreHistories
<1>2. \A i \in DOMAIN h : i \in Nat /\ h[i].at \in Nat
  BY <1>1 DEF IsHistory
<1>3. /\ DOMAIN h = older \cup {a} \cup newer
      /\ a \notin older /\ a \notin newer /\ older \cap newer = {}
  <2>1. older \subseteq DOMAIN h /\ newer \subseteq DOMAIN h
    BY DEF OlderThan, NewerThan
  <2>2. \A i \in DOMAIN h : i \in older \/ i = a \/ i \in newer
    BY <1>2 DEF OlderThan, NewerThan
  <2>3. a \notin older /\ a \notin newer
    BY <1>2 DEF OlderThan, NewerThan
  <2>4. \A i \in DOMAIN h : ~(i \in older /\ i \in newer)
    BY <1>2 DEF OlderThan, NewerThan
  <2> HIDE DEF older, newer
  <2> QED
    BY <2>1, <2>2, <2>3, <2>4
<1>4. IsFiniteSet(DOMAIN h \ {a}) /\ Cardinality(DOMAIN h \ {a}) = Len(h) - 1
  BY <1>1, FS_RemoveElement
<1>5. older \subseteq DOMAIN h \ {a} /\ newer \subseteq DOMAIN h \ {a}
  BY <1>3
<1> HIDE DEF older, newer
<1>6. /\ IsFiniteSet(older) /\ Cardinality(older) <= Len(h) - 1
      /\ IsFiniteSet(newer) /\ Cardinality(newer) <= Len(h) - 1
  BY <1>4, <1>5, FS_Subset
<1>7. Cardinality(older) \in Nat /\ Cardinality(newer) \in Nat
  BY <1>6, FS_CardinalityType
<1> QED
  BY <1>1, <1>3, <1>6, <1>7 DEF older, newer

(* Both listings of some ids name each of them once.                         *)
LEMMA ListedOnce ==
  ASSUME NEW h, IsHistory(h), NEW ids \in SUBSET DOMAIN h, IsFiniteSet(ids),
         NEW s, s = Ascending(h, ids) \/ s = Descending(h, ids)
  PROVE  /\ s \in Seq(ids) /\ Len(s) = Cardinality(ids)
         /\ \A i, j \in 1 .. Len(s) : s[i] = s[j] => i = j
         /\ \A x \in ids : \E i \in 1 .. Len(s) : s[i] = x
<1>1. PICK t : t = Ascending(h, ids)
  OBVIOUS
<1>2. /\ t \in Seq(ids) /\ Len(t) = Cardinality(ids) /\ Len(t) \in Nat
      /\ \A i \in ids : \E k \in 1 .. Len(t) : t[k] = i
      /\ \A k, m \in 1 .. Len(t) : k < m => Sooner(h, t[k], t[m])
  <2>1. /\ t \in Seq(ids) /\ Len(t) = Cardinality(ids)
        /\ \A i \in ids : \E k \in 1 .. Len(t) : t[k] = i
        /\ \A k, m \in 1 .. Len(t) : k < m => Sooner(h, t[k], t[m])
    BY <1>1, AscendingSorts
  <2> QED
    BY <2>1
<1>3. \A i, j \in 1 .. Len(t) : t[i] = t[j] => i = j
  <2> SUFFICES ASSUME NEW i \in 1 .. Len(t), NEW j \in 1 .. Len(t), i # j PROVE t[i] # t[j]
    OBVIOUS
  <2>1. t[i] \in DOMAIN h /\ t[j] \in DOMAIN h
    BY <1>2
  <2>2. Sooner(h, t[i], t[j]) \/ Sooner(h, t[j], t[i])
    BY <1>2
  <2> QED
    BY <2>1, <2>2, SoonerOrders
<1>4. CASE s = t
  BY <1>2, <1>3, <1>4
<1>5. CASE s = Descending(h, ids)
  <2>1. s = [i \in 1 .. Len(t) |-> t[(Len(t) - i) + 1]]
    BY <1>1, <1>5 DEF Descending, Reverse
  <2>2. \A i \in 1 .. Len(t) : (Len(t) - i) + 1 \in 1 .. Len(t) /\ t[(Len(t) - i) + 1] \in ids
    BY <1>2
  <2>3. s \in Seq(ids) /\ Len(s) = Len(t)
    <3>1. PICK n \in Nat : n = Len(t)
      BY <1>2
    <3>2. s \in [1 .. n -> ids]
      BY <2>1, <2>2, <3>1
    <3> QED
      BY <3>1, <3>2
  <2>4. \A i, j \in 1 .. Len(t) : s[i] = s[j] => i = j
    BY <1>2, <1>3, <2>1, <2>2
  <2>5. \A x \in ids : \E i \in 1 .. Len(t) : s[i] = x
    <3> SUFFICES ASSUME NEW x \in ids PROVE \E i \in 1 .. Len(t) : s[i] = x
      OBVIOUS
    <3>1. PICK k \in 1 .. Len(t) : t[k] = x
      BY <1>2
    <3>2. (Len(t) - k) + 1 \in 1 .. Len(t) /\ (Len(t) - ((Len(t) - k) + 1)) + 1 = k
      BY <1>2
    <3> QED
      BY <2>1, <3>1, <3>2
  <2> QED
    BY <1>2, <2>3, <2>4, <2>5
<1> QED
  BY <1>1, <1>4, <1>5

-----------------------------------------------------------------------------
(* The pages one way from the anchor meet the ids of T, each once; n of them *)
(* are counted for is_last_page.                                             *)
Turns(h, a, way, l, T) ==
  /\ \A q \in Nat : /\ AnchorPage(h, a, way, q, l) \in Seq(T)
                    /\ Len(AnchorPage(h, a, way, q, l)) <= Len(h) + 1
  /\ \A x \in T : \E q \in 0 .. Len(h) :
       \E k \in 1 .. Len(AnchorPage(h, a, way, q, l)) : AnchorPage(h, a, way, q, l)[k] = x
  /\ \A p, q \in Nat :
       \A k \in 1 .. Len(AnchorPage(h, a, way, p, l)), m \in 1 .. Len(AnchorPage(h, a, way, q, l)) :
         AnchorPage(h, a, way, p, l)[k] = AnchorPage(h, a, way, q, l)[m] => p = q /\ k = m

(* A further page is there as long as there are ids left.                    *)
Ends(h, a, way, l) ==
  \E n \in 0 .. Len(h) - 1 :
    /\ \A q \in Nat \ {0} : Len(AnchorPage(h, a, way, q, l)) > 0 <=> q * l < n
    /\ \A q \in Nat : AnchorLast(h, a, way, q, l) <=> IsLastPage(n, q, l)

LEMMA DownTurns ==
  ASSUME NEW h \in Documents, NEW a \in DOMAIN h, NEW l \in Nat \ {0}
  PROVE  Turns(h, a, "down", l, NewerThan(h, a)) /\ Ends(h, a, "down", l)
<1>1. PICK T : T = NewerThan(h, a)
  OBVIOUS
<1>2. PICK s : s = Ascending(h, T)
  OBVIOUS
<1>3. IsHistory(h) /\ Len(h) \in Nat
  BY DocumentsAreHistories
<1>4. T \in SUBSET DOMAIN h /\ IsFiniteSet(T) /\ Cardinality(T) \in 0 .. Len(h) - 1
  <2>1. T \subseteq DOMAIN h
    BY <1>1 DEF NewerThan
  <2> QED
    BY <1>1, <2>1, TwoWays
<1>5. /\ s \in Seq(T) /\ Len(s) = Cardinality(T)
      /\ \A i, j \in 1 .. Len(s) : s[i] = s[j] => i = j
      /\ \A x \in T : \E i \in 1 .. Len(s) : s[i] = x
  <2>1. s = Ascending(h, T) \/ s = Descending(h, T)
    BY <1>2
  <2> QED
    <3>1. IsHistory(h) /\ T \in SUBSET DOMAIN h /\ IsFiniteSet(T)
      BY <1>3, <1>4
    <3>2. PICK ids : ids = T
      OBVIOUS
    <3>3. s \in Seq(ids)
      BY <3>1, <3>2, <2>1, ListedOnce
    <3>4. Len(s) = Cardinality(ids)
      BY <3>1, <3>2, <2>1, ListedOnce
    <3>5. \A i, j \in 1 .. Len(s) : s[i] = s[j] => i = j
      BY <3>1, <3>2, <2>1, ListedOnce
    <3>6. ASSUME NEW x \in ids PROVE \E i \in 1 .. Len(s) : s[i] = x
      BY <3>1, <3>2, <3>3, <2>1, ListedOnce
    <3> QED
      BY <3>2, <3>3, <3>4, <3>5, <3>6
<1>6. \A q : AnchorPage(h, a, "down", q, l) = Slice(s, q, l)
  BY <1>1, <1>2 DEF AnchorPage
<1>7. /\ \A p \in Nat : /\ Slice(s, p, l) \in Seq(T) /\ Len(Slice(s, p, l)) <= Len(s)
                        /\ Len(Slice(s, p, l)) > 0 <=> p * l < Len(s)
      /\ \A j \in 1 .. Len(s) : \E p \in 0 .. j - 1 : \E k \in 1 .. Len(Slice(s, p, l)) :
           Slice(s, p, l)[k] = s[j]
      /\ \A p, q \in Nat :
           \A k \in 1 .. Len(Slice(s, p, l)), m \in 1 .. Len(Slice(s, q, l)) :
             Slice(s, p, l)[k] = Slice(s, q, l)[m] => p = q /\ k = m
  BY <1>5, ListPaged
<1>8. \A q : AnchorLast(h, a, "down", q, l) <=> IsLastPage(Cardinality(T), q, l)
  BY <1>1 DEF AnchorLast
<1>9. ASSUME NEW q \in Nat
      PROVE  AnchorPage(h, a, "down", q, l) \in Seq(T)
               /\ Len(AnchorPage(h, a, "down", q, l)) <= Len(h) + 1
  <2>1. PICK t : t = Slice(s, q, l)
    OBVIOUS
  <2>2. t \in Seq(T) /\ Len(t) <= Len(s)
    BY <1>7, <2>1
  <2>3. Len(t) \in Nat
    BY <2>2
  <2> QED
    BY <1>3, <1>4, <1>5, <1>6, <2>1, <2>2, <2>3
<1>10. ASSUME NEW x \in T
       PROVE  \E q \in 0 .. Len(h) : \E k \in 1 .. Len(AnchorPage(h, a, "down", q, l)) :
                AnchorPage(h, a, "down", q, l)[k] = x
  <2>1. PICK j \in 1 .. Len(s) : s[j] = x
    BY <1>5
  <2>2. PICK p \in 0 .. j - 1 : \E k \in 1 .. Len(Slice(s, p, l)) : Slice(s, p, l)[k] = x
    BY <1>7, <2>1
  <2>3. p \in 0 .. Len(h)
    BY <1>3, <1>4, <1>5, <2>1
  <2> QED
    BY <1>6, <2>2, <2>3
<1>11. Turns(h, a, "down", l, T)
  <2>1. ASSUME NEW p \in Nat, NEW q \in Nat,
               NEW k \in 1 .. Len(AnchorPage(h, a, "down", p, l)),
               NEW m \in 1 .. Len(AnchorPage(h, a, "down", q, l)),
               AnchorPage(h, a, "down", p, l)[k] = AnchorPage(h, a, "down", q, l)[m]
        PROVE  p = q /\ k = m
    <3>1. /\ k \in 1 .. Len(Slice(s, p, l)) /\ m \in 1 .. Len(Slice(s, q, l))
          /\ Slice(s, p, l)[k] = Slice(s, q, l)[m]
      BY <1>6, <2>1
    <3>2. \A i, j \in Nat : \A x \in 1 .. Len(Slice(s, i, l)), y \in 1 .. Len(Slice(s, j, l)) :
            Slice(s, i, l)[x] = Slice(s, j, l)[y] => i = j /\ x = y
      BY <1>7
    <3> QED
      BY <3>1, <3>2
  <2> QED
    BY <1>9, <1>10, <2>1 DEF Turns
<1>12. Ends(h, a, "down", l)
  <2>1. \A q \in Nat \ {0} : Len(AnchorPage(h, a, "down", q, l)) > 0 <=> q * l < Cardinality(T)
    <3> SUFFICES ASSUME NEW q \in Nat \ {0}
                 PROVE  Len(Slice(s, q, l)) > 0 <=> q * l < Cardinality(T)
      BY <1>6
    <3>1. Len(Slice(s, q, l)) > 0 <=> q * l < Len(s)
      BY <1>7
    <3> QED
      BY <1>5, <3>1
  <2> QED
    BY <1>4, <1>8, <2>1 DEF Ends
<1> QED
  BY <1>1, <1>11, <1>12

(* The page next to the anchor is turned round and ends with it.             *)
LEMMA UpTurns ==
  ASSUME NEW h \in Documents, NEW a \in DOMAIN h, NEW l \in Nat \ {0}
  PROVE  /\ Turns(h, a, "up", l, OlderThan(h, a) \cup {a}) /\ Ends(h, a, "up", l)
         /\ Len(AnchorPage(h, a, "up", 0, l)) > 0
<1>1. PICK T : T = OlderThan(h, a)
  OBVIOUS
<1>2. PICK s : s = Descending(h, T)
  OBVIOUS
<1>3. IsHistory(h) /\ Len(h) \in Nat
  BY DocumentsAreHistories
<1>4. T \in SUBSET DOMAIN h /\ IsFiniteSet(T) /\ Cardinality(T) \in 0 .. Len(h) - 1 /\ a \notin T
  <2>1. T \subseteq DOMAIN h
    BY <1>1 DEF OlderThan
  <2> QED
    BY <1>1, <2>1, TwoWays
<1>5. /\ s \in Seq(T) /\ Len(s) = Cardinality(T)
      /\ \A i, j \in 1 .. Len(s) : s[i] = s[j] => i = j
      /\ \A x \in T : \E i \in 1 .. Len(s) : s[i] = x
  <2>1. s = Ascending(h, T) \/ s = Descending(h, T)
    BY <1>2
  <2> QED
    <3>1. IsHistory(h) /\ T \in SUBSET DOMAIN h /\ IsFiniteSet(T)
      BY <1>3, <1>4
    <3>2. PICK ids : ids = T
      OBVIOUS
    <3>3. s \in Seq(ids)
      BY <3>1, <3>2, <2>1, ListedOnce
    <3>4. Len(s) = Cardinality(ids)
      BY <3>1, <3>2, <2>1, ListedOnce
    <3>5. \A i, j \in 1 .. Len(s) : s[i] = s[j] => i = j
      BY <3>1, <3>2, <2>1, ListedOnce
    <3>6. ASSUME NEW x \in ids PROVE \E i \in 1 .. Len(s) : s[i] = x
      BY <3>1, <3>2, <3>3, <2>1, ListedOnce
    <3> QED
      BY <3>2, <3>3, <3>4, <3>5, <3>6
<1>6. /\ \A q : q # 0 => AnchorPage(h, a, "up", q, l) = Slice(s, q, l)
      /\ AnchorPage(h, a, "up", 0, l) = Reverse(Slice(s, 0, l)) \o <<a>>
  BY <1>1, <1>2 DEF AnchorPage, UpPage
<1>7. /\ \A p \in Nat : /\ Slice(s, p, l) \in Seq(T) /\ Len(Slice(s, p, l)) <= Len(s)
                        /\ Len(Slice(s, p, l)) > 0 <=> p * l < Len(s)
      /\ \A j \in 1 .. Len(s) : \E p \in 0 .. j - 1 : \E k \in 1 .. Len(Slice(s, p, l)) :
           Slice(s, p, l)[k] = s[j]
      /\ \A p, q \in Nat :
           \A k \in 1 .. Len(Slice(s, p, l)), m \in 1 .. Len(Slice(s, q, l)) :
             Slice(s, p, l)[k] = Slice(s, q, l)[m] => p = q /\ k = m
  BY <1>5, ListPaged
<1>8. \A q : AnchorLast(h, a, "up", q, l) <=> IsLastPage(Cardinality(T), q, l)
  BY <1>1 DEF AnchorLast
<1>9. PICK f, g : f = Slice(s, 0, l) /\ g = AnchorPage(h, a, "up", 0, l)
  OBVIOUS
<1>10. f \in Seq(T) /\ Len(f) \in Nat /\ Len(f) <= Len(s)
  BY <1>7, <1>9
<1>11. /\ g \in Seq(T \cup {a}) /\ Len(g) = Len(f) + 1 /\ g[Len(f) + 1] = a
       /\ \A k \in 1 .. Len(f) : g[k] = f[(Len(f) - k) + 1] /\ (Len(f) - k) + 1 \in 1 .. Len(f)
  <2>1. PICK n, r : n \in Nat /\ n = Len(f) /\ r = [i \in 1 .. n |-> f[(n - i) + 1]]
    BY <1>10
  <2>2. \A i \in 1 .. n : (n - i) + 1 \in 1 .. n /\ f[(n - i) + 1] \in T
    BY <1>10, <2>1
  <2>3. r \in [1 .. n -> T]
    BY <2>1, <2>2
  <2>4. r \in Seq(T \cup {a}) /\ Len(r) = n /\ <<a>> \in Seq(T \cup {a}) /\ Len(<<a>>) = 1
    BY <2>1, <2>3
  <2>5. g = r \o <<a>>
    BY <1>6, <1>9, <2>1 DEF Reverse
  <2>6. /\ g \in Seq(T \cup {a}) /\ Len(g) = n + 1
        /\ \A i \in 1 .. n + 1 : g[i] = IF i <= n THEN r[i] ELSE <<a>>[i - n]
    BY <2>4, <2>5, ConcatProperties
  <2>7. g[n + 1] = a
    BY <2>1, <2>6
  <2>8. \A k \in 1 .. n : g[k] = f[(n - k) + 1]
    BY <2>1, <2>6
  <2> QED
    BY <2>1, <2>2, <2>6, <2>7, <2>8
<1>12. ASSUME NEW q \in Nat
       PROVE  /\ AnchorPage(h, a, "up", q, l) \in Seq(T \cup {a})
              /\ Len(AnchorPage(h, a, "up", q, l)) <= Len(h) + 1
  <2>1. CASE q = 0
    BY <1>3, <1>4, <1>5, <1>9, <1>10, <1>11, <2>1
  <2>2. CASE q # 0
    <3>1. PICK t : t = Slice(s, q, l)
      OBVIOUS
    <3>2. t \in Seq(T) /\ Len(t) <= Len(s)
      BY <1>7, <3>1
    <3>3. t \in Seq(T \cup {a}) /\ Len(t) \in Nat
      BY <3>2, SeqMonotonic
    <3>4. Len(t) <= Len(h) + 1
      BY <1>3, <1>4, <1>5, <3>2, <3>3
    <3> QED
      BY <1>6, <2>2, <3>1, <3>3, <3>4
  <2> QED
    BY <2>1, <2>2
<1>13. ASSUME NEW x \in T \cup {a}
       PROVE  \E q \in 0 .. Len(h) : \E k \in 1 .. Len(AnchorPage(h, a, "up", q, l)) :
                AnchorPage(h, a, "up", q, l)[k] = x
  <2>1. CASE x = a
    <3>1. Len(f) + 1 \in 1 .. Len(g) /\ 0 \in 0 .. Len(h)
      BY <1>3, <1>10, <1>11
    <3> QED
      BY <1>9, <1>11, <2>1, <3>1
  <2>2. CASE x \in T
    <3>1. PICK j \in 1 .. Len(s) : s[j] = x
      BY <1>5, <2>2
    <3>2. PICK p \in 0 .. j - 1 : \E k \in 1 .. Len(Slice(s, p, l)) : Slice(s, p, l)[k] = x
      BY <1>7, <3>1
    <3>3. PICK k \in 1 .. Len(Slice(s, p, l)) : Slice(s, p, l)[k] = x
      BY <3>2
    <3>4. p \in 0 .. Len(h)
      BY <1>3, <1>4, <1>5, <3>1
    <3>5. CASE p = 0
      <4>1. k \in 1 .. Len(f) /\ f[k] = x
        BY <1>9, <3>3, <3>5
      <4>2. PICK m : m = (Len(f) - k) + 1
        OBVIOUS
      <4>3. m \in 1 .. Len(f) /\ (Len(f) - m) + 1 = k /\ m \in 1 .. Len(g)
        BY <1>10, <1>11, <4>1, <4>2
      <4>4. g[m] = x
        BY <1>11, <4>1, <4>3
      <4> QED
        BY <1>9, <3>4, <3>5, <4>3, <4>4
    <3>6. CASE p # 0
      BY <1>6, <3>3, <3>4, <3>6
    <3> QED
      BY <3>5, <3>6
  <2> QED
    BY <2>1, <2>2
<1>14. ASSUME NEW p \in Nat, NEW q \in Nat,
              NEW k \in 1 .. Len(AnchorPage(h, a, "up", p, l)),
              NEW m \in 1 .. Len(AnchorPage(h, a, "up", q, l)),
              AnchorPage(h, a, "up", p, l)[k] = AnchorPage(h, a, "up", q, l)[m]
       PROVE  p = q /\ k = m
  <2> DEFINE Where(i, j, x) ==
               \/ x = a /\ i = 0 /\ j = Len(f) + 1
               \/ /\ x \in T
                  /\ \E v \in 1 .. Len(Slice(s, i, l)) :
                       /\ Slice(s, i, l)[v] = x
                       /\ j = IF i = 0 THEN (Len(f) - v) + 1 ELSE v
  <2>1. ASSUME NEW i \in Nat, NEW j \in 1 .. Len(AnchorPage(h, a, "up", i, l)),
               NEW x, x = AnchorPage(h, a, "up", i, l)[j]
        PROVE  Where(i, j, x)
    <3>1. CASE i = 0 /\ j = Len(f) + 1
      BY <1>9, <1>11, <2>1, <3>1
    <3>2. CASE i = 0 /\ j # Len(f) + 1
      <4>1. j \in 1 .. Len(f)
        BY <1>9, <1>10, <1>11, <3>2
      <4>2. PICK v : v = (Len(f) - j) + 1
        OBVIOUS
      <4>3. v \in 1 .. Len(f) /\ x = f[v] /\ j = (Len(f) - v) + 1
        <5>1. x = g[j]
          BY <1>9, <2>1, <3>2
        <5>2. g[j] = f[v] /\ v \in 1 .. Len(f)
          BY <1>11, <4>1, <4>2
        <5>3. j = (Len(f) - v) + 1
          BY <1>10, <4>1, <4>2
        <5> QED
          BY <5>1, <5>2, <5>3
      <4>4. x \in T
        BY <1>10, <4>3
      <4> QED
        BY <1>9, <3>2, <4>3, <4>4
    <3>3. CASE i # 0
      <4>1. PICK t : t = Slice(s, i, l)
        OBVIOUS
      <4>2. t \in Seq(T) /\ j \in 1 .. Len(t) /\ x = t[j]
        BY <1>6, <1>7, <2>1, <3>3, <4>1
      <4>3. x \in T
        BY <4>2
      <4> QED
        BY <3>3, <4>1, <4>2, <4>3
    <3> QED
      BY <3>1, <3>2, <3>3
  <2>2. PICK x : x = AnchorPage(h, a, "up", p, l)[k] /\ x = AnchorPage(h, a, "up", q, l)[m]
    BY <1>14
  <2> HIDE DEF Where
  <2>3. Where(p, k, x) /\ Where(q, m, x)
    BY <2>1, <2>2
  <2>4. CASE x = a
    BY <1>4, <2>3, <2>4 DEF Where
  <2>5. CASE x # a
    <3>1. PICK v \in 1 .. Len(Slice(s, p, l)) :
            Slice(s, p, l)[v] = x /\ k = IF p = 0 THEN (Len(f) - v) + 1 ELSE v
      BY <2>3, <2>5 DEF Where
    <3>2. PICK w \in 1 .. Len(Slice(s, q, l)) :
            Slice(s, q, l)[w] = x /\ m = IF q = 0 THEN (Len(f) - w) + 1 ELSE w
      BY <2>3, <2>5 DEF Where
    <3>3. Slice(s, p, l)[v] = Slice(s, q, l)[w]
      BY <3>1, <3>2
    <3>4. p = q /\ v = w
      <4>1. \A i, j \in Nat : \A y \in 1 .. Len(Slice(s, i, l)), z \in 1 .. Len(Slice(s, j, l)) :
              Slice(s, i, l)[y] = Slice(s, j, l)[z] => i = j /\ y = z
        BY <1>7
      <4> QED
        BY <3>3, <4>1
    <3> QED
      BY <3>1, <3>2, <3>4
  <2> QED
    BY <2>4, <2>5
<1>15. Turns(h, a, "up", l, T \cup {a})
  BY <1>12, <1>13, <1>14 DEF Turns
<1>16. Ends(h, a, "up", l)
  <2>1. \A q \in Nat \ {0} : Len(AnchorPage(h, a, "up", q, l)) > 0 <=> q * l < Cardinality(T)
    <3> SUFFICES ASSUME NEW q \in Nat \ {0}
                 PROVE  Len(Slice(s, q, l)) > 0 <=> q * l < Cardinality(T)
      BY <1>6
    <3>1. Len(Slice(s, q, l)) > 0 <=> q * l < Len(s)
      BY <1>7
    <3> QED
      BY <1>5, <3>1
  <2> QED
    BY <1>4, <1>8, <2>1 DEF Ends
<1>17. Len(AnchorPage(h, a, "up", 0, l)) > 0
  BY <1>9, <1>10, <1>11
<1> QED
  BY <1>1, <1>15, <1>16, <1>17

(* Both ways together: every message of the history once, and the last page  *)
(* of each way said to be the last.                                          *)
LEMMA AnchorPagesMeet ==
  ASSUME NEW h \in Documents, NEW a \in DOMAIN h, NEW l \in Nat \ {0}
  PROVE  LET side(d) == {x \in {d} \X (0 .. Len(h)) \X (1 .. Len(h) + 1) :
                           x[3] \in DOMAIN AnchorPage(h, a, d, x[2], l)}
             met == side("up") \cup side("down")
         IN  /\ {AnchorPage(h, a, x[1], x[2], l)[x[3]] : x \in met} = DOMAIN h
             /\ Cardinality(met) = Len(h)
             /\ \A way \in {"up", "down"}, p \in 0 .. Len(h) :
                  AnchorLast(h, a, way, p, l) <=> \A x \in side(way) : x[2] <= p
<1> DEFINE side(d) == {x \in {d} \X (0 .. Len(h)) \X (1 .. Len(h) + 1) :
                         x[3] \in DOMAIN AnchorPage(h, a, d, x[2], l)}
           met == side("up") \cup side("down")
           Ways == {"up", "down"}
<1>1. Len(h) \in Nat /\ IsFiniteSet(DOMAIN h) /\ Cardinality(DOMAIN h) = Len(h)
  BY DocumentsAreHistories
<1>2. PICK pg : \A d \in Ways, q \in Nat : pg[d][q] = AnchorPage(h, a, d, q, l)
  <2>1. PICK g : g = [d \in Ways |-> [q \in Nat |-> AnchorPage(h, a, d, q, l)]]
    OBVIOUS
  <2>2. \A d \in Ways, q \in Nat : g[d][q] = AnchorPage(h, a, d, q, l)
    BY <2>1
  <2> QED
    BY <2>2
<1>3. PICK of : of["up"] = OlderThan(h, a) \cup {a} /\ of["down"] = NewerThan(h, a)
  <2>1. PICK g : g = [d \in Ways |-> IF d = "up" THEN OlderThan(h, a) \cup {a} ELSE NewerThan(h, a)]
    OBVIOUS
  <2>2. g["up"] = OlderThan(h, a) \cup {a} /\ g["down"] = NewerThan(h, a)
    BY <2>1
  <2> QED
    BY <2>2
<1>4. of["up"] \cup of["down"] = DOMAIN h /\ of["up"] \cap of["down"] = {}
  <2>1. PICK older, newer : older = OlderThan(h, a) /\ newer = NewerThan(h, a)
    OBVIOUS
  <2>2. /\ DOMAIN h = older \cup {a} \cup newer
        /\ a \notin newer /\ older \cap newer = {}
    BY <2>1, TwoWays
  <2>3. of["up"] = older \cup {a} /\ of["down"] = newer
    BY <1>3, <2>1
  <2> QED
    BY <2>2, <2>3
<1>5. \A d \in Ways : Turns(h, a, d, l, of[d]) /\ Ends(h, a, d, l)
  BY <1>3, DownTurns, UpTurns
<1>6. /\ \A d \in Ways : \A q \in Nat : pg[d][q] \in Seq(of[d]) /\ Len(pg[d][q]) <= Len(h) + 1
      /\ \A d \in Ways : \A y \in of[d] : \E q \in 0 .. Len(h) :
           \E k \in 1 .. Len(pg[d][q]) : pg[d][q][k] = y
      /\ \A d \in Ways : \A p, q \in Nat :
           \A k \in 1 .. Len(pg[d][p]), m \in 1 .. Len(pg[d][q]) :
             pg[d][p][k] = pg[d][q][m] => p = q /\ k = m
  <2>1. ASSUME NEW d \in Ways, NEW q \in Nat
        PROVE  pg[d][q] \in Seq(of[d]) /\ Len(pg[d][q]) <= Len(h) + 1
    <3>1. \A r \in Nat : /\ AnchorPage(h, a, d, r, l) \in Seq(of[d])
                         /\ Len(AnchorPage(h, a, d, r, l)) <= Len(h) + 1
      BY <1>5 DEF Turns
    <3>2. pg[d][q] = AnchorPage(h, a, d, q, l)
      BY <1>2
    <3> QED
      BY <3>1, <3>2, Zenon
  <2>2. ASSUME NEW d \in Ways, NEW y \in of[d]
        PROVE  \E q \in 0 .. Len(h) : \E k \in 1 .. Len(pg[d][q]) : pg[d][q][k] = y
    <3>1. PICK q \in 0 .. Len(h) : \E k \in 1 .. Len(AnchorPage(h, a, d, q, l)) :
            AnchorPage(h, a, d, q, l)[k] = y
      BY <1>5 DEF Turns
    <3>2. PICK k \in 1 .. Len(AnchorPage(h, a, d, q, l)) : AnchorPage(h, a, d, q, l)[k] = y
      BY <3>1
    <3>3. q \in Nat
      BY <1>1
    <3>4. pg[d][q] = AnchorPage(h, a, d, q, l)
      BY <1>2, <3>3
    <3>5. k \in 1 .. Len(pg[d][q]) /\ pg[d][q][k] = y
      BY <3>2, <3>4
    <3> QED
      BY <3>5
  <2>3. ASSUME NEW d \in Ways, NEW p \in Nat, NEW q \in Nat,
               NEW k \in 1 .. Len(pg[d][p]), NEW m \in 1 .. Len(pg[d][q]),
               pg[d][p][k] = pg[d][q][m]
        PROVE  p = q /\ k = m
    <3>1. /\ k \in 1 .. Len(AnchorPage(h, a, d, p, l)) /\ m \in 1 .. Len(AnchorPage(h, a, d, q, l))
          /\ AnchorPage(h, a, d, p, l)[k] = AnchorPage(h, a, d, q, l)[m]
      BY <1>2, <2>3
    <3>2. \A i, j \in Nat :
            \A x \in 1 .. Len(AnchorPage(h, a, d, i, l)), y \in 1 .. Len(AnchorPage(h, a, d, j, l)) :
              AnchorPage(h, a, d, i, l)[x] = AnchorPage(h, a, d, j, l)[y] => i = j /\ x = y
      BY <1>5 DEF Turns
    <3> QED
      BY <3>1, <3>2
  <2> QED
    BY <2>1, <2>2, <2>3
<1>7. \A d \in Ways : \A x :
        x \in side(d) <=> \E q \in 0 .. Len(h) : \E k \in 1 .. Len(pg[d][q]) : x = <<d, q, k>>
  <2> SUFFICES ASSUME NEW d \in Ways, NEW x
               PROVE  x \in side(d) <=>
                        \E q \in 0 .. Len(h) : \E k \in 1 .. Len(pg[d][q]) : x = <<d, q, k>>
    OBVIOUS
  <2>1. \A q \in 0 .. Len(h) : /\ q \in Nat /\ DOMAIN pg[d][q] = 1 .. Len(pg[d][q])
                               /\ Len(pg[d][q]) \in Nat /\ Len(pg[d][q]) <= Len(h) + 1
                               /\ pg[d][q] = AnchorPage(h, a, d, q, l)
    <3> SUFFICES ASSUME NEW q \in 0 .. Len(h)
                 PROVE  /\ q \in Nat /\ DOMAIN pg[d][q] = 1 .. Len(pg[d][q])
                        /\ Len(pg[d][q]) \in Nat /\ Len(pg[d][q]) <= Len(h) + 1
                        /\ pg[d][q] = AnchorPage(h, a, d, q, l)
      OBVIOUS
    <3>1. q \in Nat
      BY <1>1
    <3>2. pg[d][q] \in Seq(of[d]) /\ Len(pg[d][q]) <= Len(h) + 1
      BY <1>6, <3>1
    <3> QED
      BY <1>2, <3>1, <3>2
  <2>2. ASSUME x \in side(d)
        PROVE  \E q \in 0 .. Len(h) : \E k \in 1 .. Len(pg[d][q]) : x = <<d, q, k>>
    <3>1. /\ x = <<d, x[2], x[3]>> /\ x[2] \in 0 .. Len(h)
          /\ x[3] \in DOMAIN AnchorPage(h, a, d, x[2], l)
      BY <2>2
    <3> QED
      BY <2>1, <3>1
  <2>3. ASSUME NEW q \in 0 .. Len(h), NEW k \in 1 .. Len(pg[d][q]), x = <<d, q, k>>
        PROVE  x \in side(d)
    <3>1. k \in 1 .. Len(h) + 1 /\ k \in DOMAIN AnchorPage(h, a, d, q, l)
      BY <1>1, <2>1
    <3> QED
      BY <2>3, <3>1
  <2> HIDE DEF side
  <2> QED
    BY <2>2, <2>3
<1> HIDE DEF side
<1>8. \A x : x \in met <=> \E d \in Ways : \E q \in 0 .. Len(h) :
                            \E k \in 1 .. Len(pg[d][q]) : x = <<d, q, k>>
  BY <1>7
<1> HIDE DEF met
<1>9. ASSUME NEW d \in Ways, NEW q \in 0 .. Len(h), NEW k \in 1 .. Len(pg[d][q])
      PROVE  pg[d][q][k] \in of[d] /\ pg[d][q][k] \in DOMAIN h /\ q \in Nat
             /\ AnchorPage(h, a, d, q, l)[k] = pg[d][q][k]
  <2>1. q \in Nat
    BY <1>1
  <2>2. PICK t : t = pg[d][q]
    OBVIOUS
  <2>3. t \in Seq(of[d]) /\ k \in 1 .. Len(t)
    BY <1>6, <2>1, <2>2
  <2>4. t[k] \in of[d]
    BY <2>3
  <2> QED
    BY <1>2, <1>4, <2>1, <2>2, <2>4
<1>10. PICK G : G = [x \in met |-> AnchorPage(h, a, x[1], x[2], l)[x[3]]]
  OBVIOUS
<1>11. ASSUME NEW d \in Ways, NEW q \in 0 .. Len(h), NEW k \in 1 .. Len(pg[d][q])
       PROVE  <<d, q, k>> \in met /\ G[<<d, q, k>>] = pg[d][q][k]
  <2>1. <<d, q, k>> \in met
    BY <1>8
  <2>2. G[<<d, q, k>>] = AnchorPage(h, a, d, q, l)[k]
    BY <1>10, <2>1
  <2> QED
    BY <1>9, <2>1, <2>2
<1>12. \A x \in met : G[x] \in DOMAIN h
  <2> SUFFICES ASSUME NEW x \in met PROVE G[x] \in DOMAIN h
    OBVIOUS
  <2>1. PICK d \in Ways, q \in 0 .. Len(h) : \E k \in 1 .. Len(pg[d][q]) : x = <<d, q, k>>
    BY <1>8
  <2>2. PICK k \in 1 .. Len(pg[d][q]) : x = <<d, q, k>>
    BY <2>1
  <2>3. pg[d][q][k] \in DOMAIN h
    BY <1>9
  <2>4. G[<<d, q, k>>] = pg[d][q][k]
    BY <1>11
  <2> QED
    BY <2>2, <2>3, <2>4
<1>13. \A y \in DOMAIN h : \E x \in met : G[x] = y
  <2> SUFFICES ASSUME NEW y \in DOMAIN h PROVE \E x \in met : G[x] = y
    OBVIOUS
  <2>1. PICK d \in Ways : y \in of[d]
    BY <1>4
  <2>2. PICK q \in 0 .. Len(h) : \E k \in 1 .. Len(pg[d][q]) : pg[d][q][k] = y
    <3>1. \A e \in Ways : \A z \in of[e] : \E q \in 0 .. Len(h) :
            \E k \in 1 .. Len(pg[e][q]) : pg[e][q][k] = z
      BY <1>6
    <3> HIDE DEF Ways
    <3> QED
      BY <2>1, <3>1, Zenon
  <2>3. PICK k \in 1 .. Len(pg[d][q]) : pg[d][q][k] = y
    BY <2>2
  <2> QED
    BY <1>11, <2>3
<1>14. \A x, y \in met : G[x] = G[y] => x = y
  <2> SUFFICES ASSUME NEW x \in met, NEW y \in met, G[x] = G[y] PROVE x = y
    OBVIOUS
  <2>1. PICK d \in Ways, q \in 0 .. Len(h) : \E k \in 1 .. Len(pg[d][q]) : x = <<d, q, k>>
    BY <1>8
  <2>2. PICK k \in 1 .. Len(pg[d][q]) : x = <<d, q, k>>
    BY <2>1
  <2>3. PICK e \in Ways, r \in 0 .. Len(h) : \E m \in 1 .. Len(pg[e][r]) : y = <<e, r, m>>
    BY <1>8
  <2>4. PICK m \in 1 .. Len(pg[e][r]) : y = <<e, r, m>>
    BY <2>3
  <2>5. pg[d][q][k] = pg[e][r][m] /\ q \in Nat /\ r \in Nat
    BY <1>9, <1>11, <2>2, <2>4
  <2>6. pg[d][q][k] \in of[d] /\ pg[e][r][m] \in of[e]
    BY <1>9
  <2>7. d = e
    BY <1>4, <2>5, <2>6
  <2>8. q = r /\ k = m
    <3>1. \A i, j \in Nat : \A v \in 1 .. Len(pg[d][i]), w \in 1 .. Len(pg[d][j]) :
            pg[d][i][v] = pg[d][j][w] => i = j /\ v = w
      BY <1>6
    <3> QED
      BY <2>5, <2>7, <3>1
  <2> QED
    BY <2>2, <2>4, <2>7, <2>8
<1>15. {AnchorPage(h, a, x[1], x[2], l)[x[3]] : x \in met} = DOMAIN h
  BY <1>10, <1>12, <1>13
<1>16. Cardinality(met) = Len(h)
  <2>1. G \in [met -> DOMAIN h]
    BY <1>10, <1>12
  <2>2. G \in Injection(met, DOMAIN h)
    BY <1>14, <2>1 DEF Injection, IsInjective
  <2>3. G \in Surjection(met, DOMAIN h)
    BY <1>13, <2>1 DEF Surjection
  <2>4. Cardinality(met) = Cardinality(DOMAIN h)
    BY <1>1, <2>2, <2>3, FS_Injection
  <2> QED
    BY <1>1, <2>4
<1>17. ASSUME NEW way \in Ways, NEW p \in 0 .. Len(h)
       PROVE  AnchorLast(h, a, way, p, l) <=> \A x \in side(way) : x[2] <= p
  <2>1. PICK n \in 0 .. Len(h) - 1 :
          /\ \A q \in Nat \ {0} : Len(AnchorPage(h, a, way, q, l)) > 0 <=> q * l < n
          /\ \A q \in Nat : AnchorLast(h, a, way, q, l) <=> IsLastPage(n, q, l)
    BY <1>5 DEF Ends
  <2>2. n \in Nat /\ n < Len(h) /\ p \in Nat
    BY <1>1
  <2>3. AnchorLast(h, a, way, p, l) <=> n <= (p + 1) * l
    BY <2>1, <2>2, LastPageIsLast
  <2>4. ASSUME n <= (p + 1) * l, NEW x \in side(way) PROVE x[2] <= p
    <3>1. PICK q \in 0 .. Len(h) : \E k \in 1 .. Len(pg[way][q]) : x = <<way, q, k>>
      BY <1>7
    <3>2. PICK k \in 1 .. Len(pg[way][q]) : x = <<way, q, k>>
      BY <3>1
    <3> SUFFICES ASSUME q > p PROVE FALSE
      BY <1>1, <2>2, <3>2
    <3>3. q \in Nat \ {0} /\ p + 1 \in Nat /\ (p + 1 = q \/ p + 1 < q)
      BY <1>1, <2>2
    <3>4. Len(AnchorPage(h, a, way, q, l)) > 0
      <4>1. PICK t : t = pg[way][q]
        OBVIOUS
      <4>2. t \in Seq(of[way]) /\ k \in 1 .. Len(t) /\ t = AnchorPage(h, a, way, q, l)
        BY <1>2, <1>6, <3>3, <4>1
      <4>3. Len(t) > 0
        BY <4>2
      <4> QED
        BY <4>2, <4>3
    <3>5. q * l < n
      BY <2>1, <3>3, <3>4
    <3>6. (p + 1) * l <= q * l
      <4>1. CASE p + 1 = q
        BY <3>3, <4>1
      <4>2. CASE p + 1 < q
        BY <3>3, <4>2, NextPageBegins
      <4> QED
        BY <3>3, <4>1, <4>2
    <3> QED
      BY <2>2, <2>4, <3>3, <3>5, <3>6
  <2>5. ASSUME ~(n <= (p + 1) * l) PROVE ~ \A x \in side(way) : x[2] <= p
    <3>1. PICK q : q = p + 1
      OBVIOUS
    <3>2. q \in Nat \ {0} /\ q * l < n
      BY <2>2, <2>5, <3>1
    <3>3. Len(AnchorPage(h, a, way, q, l)) > 0
      BY <2>1, <3>2
    <3>4. q <= q * l
      BY <3>2
    <3>5. q \in 0 .. Len(h)
      BY <1>1, <2>2, <3>2, <3>4
    <3>6. 1 \in 1 .. Len(pg[way][q])
      <4>1. PICK t : t = pg[way][q]
        OBVIOUS
      <4>2. t \in Seq(of[way]) /\ t = AnchorPage(h, a, way, q, l)
        BY <1>2, <1>6, <3>2, <4>1
      <4>3. Len(t) \in Nat /\ Len(t) > 0
        BY <3>3, <4>2
      <4> QED
        BY <4>1, <4>3
    <3>7. <<way, q, 1>> \in side(way)
      BY <1>7, <3>5, <3>6
    <3> QED
      BY <2>2, <3>1, <3>7
  <2> QED
    BY <2>3, <2>4, <2>5
<1>18. \A way \in {"up", "down"}, p \in 0 .. Len(h) :
         AnchorLast(h, a, way, p, l) <=> \A x \in side(way) : x[2] <= p
  BY <1>17
<1> QED
  BY <1>15, <1>16, <1>18 DEF side, met

(* From any message of any room, the pages up and the pages down meet every  *)
(* message once and say which is the last (AnchorPagesCover of Messaging,    *)
(* listMessagesFromAnchor of both services), however long the history.       *)
THEOREM AnchorPagesMeetAll == Spec => []AnchorPagesCover
<1>1. MessagesMetOnce
  <2> SUFFICES ASSUME NEW h \in Histories, NEW a \in DOMAIN h, NEW l \in Limits \cup {PrewarmLimit}
               PROVE  LET side(d) == {x \in {d} \X (0 .. Len(h)) \X (1 .. Len(h) + 1) :
                                        x[3] \in DOMAIN AnchorPage(h, a, d, x[2], l)}
                          met == side("up") \cup side("down")
                      IN  /\ {AnchorPage(h, a, x[1], x[2], l)[x[3]] : x \in met} = DOMAIN h
                          /\ Cardinality(met) = Len(h)
                          /\ \A way \in {"up", "down"}, p \in 0 .. Len(h) :
                               AnchorLast(h, a, way, p, l) <=> \A x \in side(way) : x[2] <= p
    BY Zenon DEF MessagesMetOnce
  <2>1. h \in Documents /\ l \in Nat \ {0}
    BY CacheAssumption, HistoriesAssumption DEF Documents
  <2> QED
    BY <2>1, AnchorPagesMeet, Zenon
<1>2. AnchorPagesCover
  BY <1>1 DEF AnchorPagesCover
<1>3. Init => AnchorPagesCover
  BY <1>2
<1>4. AnchorPagesCover /\ [Next]_vars => AnchorPagesCover'
  BY <1>1 DEF AnchorPagesCover
<1> QED
  BY <1>3, <1>4, PTL DEF Spec

-----------------------------------------------------------------------------
(* The listing of followed people and its pages.                             *)
IsFollowing(f) == f \in Seq([name : Nat, last : Nat])

LEMMA FollowingShape ==
  ASSUME NEW f, IsFollowing(f)
  PROVE  /\ Len(f) \in Nat /\ DOMAIN f = 1 .. Len(f)
         /\ IsFiniteSet(DOMAIN f) /\ Cardinality(DOMAIN f) = Len(f)
         /\ \A u \in DOMAIN f : u \in Nat /\ f[u].last \in Nat /\ f[u].name \in Nat
<1>1. PICK D, n : D = [name : Nat, last : Nat] /\ n = Len(f)
  OBVIOUS
<1>2. f \in Seq(D)
  BY <1>1 DEF IsFollowing
<1>3. n \in Nat /\ DOMAIN f = 1 .. n /\ \A u \in 1 .. n : f[u] \in D
  <2>1. \A u \in 1 .. Len(f) : f[u] \in D
    BY <1>2
  <2> QED
    BY <1>1, <1>2, <2>1, LenProperties
<1>4. IsFiniteSet(1 .. n) /\ Cardinality(1 .. n) = n
  BY <1>3, FS_Interval
<1> QED
  BY <1>1, <1>3, <1>4

LEMMA PrecedesRanks ==
  ASSUME NEW f, IsFollowing(f),
         NEW before, before = {x \in (DOMAIN f) \X (DOMAIN f) : Precedes(f, x[1], x[2])}
  PROVE  Ranks(DOMAIN f, before)
<1>1. \A u \in DOMAIN f : u \in Nat /\ f[u].last \in Nat /\ f[u].name \in Nat
  BY FollowingShape
<1>2. \A u, v \in DOMAIN f : <<u, v>> \in before <=> Precedes(f, u, v)
  OBVIOUS
<1>3. \A u \in DOMAIN f : ~Precedes(f, u, u)
  BY <1>1 DEF Precedes
<1>4. \A u, v \in DOMAIN f : u # v => Precedes(f, u, v) \/ Precedes(f, v, u)
  BY <1>1 DEF Precedes
<1>5. \A u, v, w \in DOMAIN f : Precedes(f, u, v) /\ Precedes(f, v, w) => Precedes(f, u, w)
  BY <1>1 DEF Precedes
<1> QED
  BY <1>2, <1>3, <1>4, <1>5 DEF Ranks

(* Everyone followed is listed once, in the order of the sort.               *)
LEMMA FollowedSorts ==
  ASSUME NEW f, IsFollowing(f), NEW s, s = Followed(f)
  PROVE  /\ s \in Seq(DOMAIN f) /\ Len(s) = Len(f)
         /\ \A u \in DOMAIN f : \E j \in 1 .. Len(f) : s[j] = u
         /\ \A i, j \in 1 .. Len(f) : i < j => Precedes(f, s[i], s[j])
         /\ \A i, j \in 1 .. Len(f) : Precedes(f, s[i], s[j]) => i < j
<1>1. PICK before : before = {x \in (DOMAIN f) \X (DOMAIN f) : Precedes(f, x[1], x[2])}
  OBVIOUS
<1>2. \A u, v \in DOMAIN f : <<u, v>> \in before <=> Precedes(f, u, v)
  BY <1>1
<1>3. Ranks(DOMAIN f, before)
  BY <1>1, PrecedesRanks
<1>4. Len(f) \in Nat /\ IsFiniteSet(DOMAIN f) /\ Cardinality(DOMAIN f) = Len(f)
  BY FollowingShape
<1>5. s = InOrder(DOMAIN f, before)
  BY <1>1 DEF Followed
<1>6. /\ s \in Seq(DOMAIN f) /\ Len(s) = Len(f)
      /\ \A u \in DOMAIN f : \E j \in 1 .. Len(f) : s[j] = u
      /\ \A i, j \in 1 .. Len(f) : i < j => <<s[i], s[j]>> \in before
  <2>1. /\ s \in Seq(DOMAIN f) /\ Len(s) = Cardinality(DOMAIN f)
        /\ \A u \in DOMAIN f : \E j \in 1 .. Len(s) : s[j] = u
        /\ \A i, j \in 1 .. Len(s) : i < j => <<s[i], s[j]>> \in before
    BY <1>3, <1>4, <1>5, InOrderSorts
  <2> QED
    BY <1>4, <2>1
<1>7. \A i \in 1 .. Len(f) : s[i] \in DOMAIN f
  <2>1. PICK D, n : D = DOMAIN f /\ n = Len(f)
    OBVIOUS
  <2>2. s \in Seq(D) /\ Len(s) = n
    BY <1>6, <2>1
  <2>3. \A i \in 1 .. n : s[i] \in D
    BY <2>2
  <2> QED
    BY <2>1, <2>3
<1>8. \A i, j \in 1 .. Len(f) : i < j => Precedes(f, s[i], s[j])
  BY <1>2, <1>6, <1>7
<1>9. ASSUME NEW i \in 1 .. Len(f), NEW j \in 1 .. Len(f), Precedes(f, s[i], s[j]) PROVE i < j
  <2>1. CASE i = j
    BY <1>2, <1>3, <1>7, <1>9, <2>1 DEF Ranks
  <2>2. CASE j < i
    <3>1. Precedes(f, s[j], s[i])
      BY <1>8, <2>2
    <3>2. <<s[i], s[j]>> \in before /\ <<s[j], s[i]>> \in before
      BY <1>2, <1>7, <1>9, <3>1
    <3> QED
      BY <1>3, <1>7, <3>2 DEF Ranks
  <2> QED
    BY <2>1, <2>2
<1> QED
  BY <1>6, <1>8, <1>9

(* The k-th of page p is the one at position p * l + k of the listing.       *)
IsKth(f, l, s, p, k) ==
  /\ k \in DOMAIN FollowingPage(f, p, l) <=> k <= l /\ p * l + k <= Len(f)
  /\ k \in DOMAIN FollowingPage(f, p, l) => FollowingPage(f, p, l)[k] = s[p * l + k]

LEMMA FollowingPageCuts ==
  ASSUME NEW f, IsFollowing(f), NEW l \in Nat \ {0}, NEW s, s = Followed(f),
         NEW p \in Nat, NEW k \in Nat \ {0}
  PROVE  IsKth(f, l, s, p, k)
<1>1. s \in Seq(DOMAIN f) /\ Len(s) = Len(f) /\ Len(f) \in Nat
  <2>1. s \in Seq(DOMAIN f) /\ Len(s) = Len(f)
    BY FollowedSorts
  <2> QED
    BY <2>1
<1>2. PICK t, x : t = FollowingPage(f, p, l) /\ x = p * l
  OBVIOUS
<1>3. t = Slice(s, p, l)
  BY <1>2 DEF FollowingPage
<1>4. /\ x \in Nat /\ t \in Seq(DOMAIN f)
      /\ Len(t) = IF Len(s) <= x THEN 0 ELSE IF Len(s) <= x + l THEN Len(s) - x ELSE l
      /\ \A j \in 1 .. Len(t) : t[j] = s[x + j]
  <2>1. IsCut(DOMAIN f, s, p, l, t)
    BY <1>1, <1>3, SliceCuts
  <2> QED
    BY <1>2, <2>1 DEF IsCut
<1>5. DOMAIN t = 1 .. Len(t)
  BY <1>4
<1>6. k \in DOMAIN t <=> k <= l /\ x + k <= Len(f)
  BY <1>1, <1>4, <1>5
<1>7. k \in DOMAIN t => t[k] = s[x + k]
  BY <1>4, <1>5
<1> QED
  BY <1>2, <1>6, <1>7 DEF IsKth

(* Positions of different pages are in the order of the pages.               *)
LEMMA PagesInOrder ==
  ASSUME NEW l \in Nat \ {0}, NEW p \in Nat, NEW q \in Nat, NEW k \in 1 .. l, NEW m \in 1 .. l,
         p * l + k < q * l + m
  PROVE  p < q \/ (p = q /\ k < m)
<1>1. PICK x \in Nat, y \in Nat : x = p * l /\ y = q * l
  OBVIOUS
<1>2. CASE q < p
  <2>1. y + l <= x
    BY <1>1, <1>2, NextPageBegins
  <2> QED
    BY <1>1, <2>1
<1>3. CASE p = q
  <2>1. x = y
    BY <1>1, <1>3
  <2> QED
    BY <1>1, <1>3, <2>1
<1> QED
  BY <1>2, <1>3

LEMMA FollowingLastIsLast ==
  ASSUME NEW f, IsFollowing(f), NEW p \in Nat, NEW l \in Nat \ {0}
  PROVE  FollowingLast(f, p, l) <=> Len(f) <= (p + 1) * l
<1>1. PICK n \in Nat : n = Len(f) /\ n = Cardinality(DOMAIN f)
  BY FollowingShape
<1>2. FollowingLast(f, p, l) <=> IsLastPage(n, p, l)
  <2>1. PICK c : c = Ceil(n, l)
    OBVIOUS
  <2>2. c \in Int
    <3>1. n + l - 1 \in Int
      OBVIOUS
    <3> QED
      BY <2>1, <3>1 DEF Ceil
  <2>3. Max({c, 1}) = IF c >= 1 THEN c ELSE 1
    BY <2>2 DEF Max
  <2>4. FollowingLast(f, p, l) <=> p >= c - 1
    BY <1>1, <2>1 DEF FollowingLast
  <2>5. IsLastPage(n, p, l) <=> p >= (IF c >= 1 THEN c ELSE 1) - 1
    BY <2>1, <2>3 DEF IsLastPage
  <2> QED
    BY <2>2, <2>4, <2>5
<1>3. IsLastPage(n, p, l) <=> n <= (p + 1) * l
  BY LastPageIsLast
<1> QED
  BY <1>1, <1>2, <1>3

(* The pages and positions at which somebody is met.                         *)
MetIn(f, l) == {x \in (0 .. Len(f)) \X (1 .. Len(f)) : x[2] \in DOMAIN FollowingPage(f, x[1], l)}

(* They are the positions of the listing, page by page.                      *)
Places(f, l, s, where, met, n) ==
  /\ where \in [met -> 1 .. n]
  /\ \A x \in met : /\ x[1] \in Nat /\ x[2] \in 1 .. l /\ where[x] = x[1] * l + x[2]
                   /\ FollowingPage(f, x[1], l)[x[2]] = s[where[x]]
  /\ \A p \in Nat, k \in 1 .. l : p * l + k <= n => <<p, k>> \in met /\ where[<<p, k>>] = p * l + k
  /\ \A x, y \in met : where[x] = where[y] => x = y
  /\ \A j \in 1 .. n : \E x \in met : where[x] = j

LEMMA MetPositions ==
  ASSUME NEW f, IsFollowing(f), NEW l \in Nat \ {0}, NEW s, s = Followed(f)
  PROVE  \E where : Places(f, l, s, where, MetIn(f, l), Len(f))
<1>1. PICK n \in Nat : n = Len(f)
  BY FollowingShape
<1>2. PICK met : met = MetIn(f, l)
  OBVIOUS
<1>3. \A x \in met : /\ x = <<x[1], x[2]>> /\ x[1] \in 0 .. n /\ x[2] \in 1 .. n
                     /\ x[2] \in DOMAIN FollowingPage(f, x[1], l)
  BY <1>1, <1>2 DEF MetIn
<1>4. ASSUME NEW x \in met
      PROVE  /\ x[1] \in Nat /\ x[2] \in 1 .. l /\ x[1] * l + x[2] \in 1 .. n
             /\ FollowingPage(f, x[1], l)[x[2]] = s[x[1] * l + x[2]]
  <2>1. PICK p, k : p = x[1] /\ k = x[2]
    OBVIOUS
  <2>2. p \in Nat /\ k \in Nat \ {0} /\ k \in DOMAIN FollowingPage(f, p, l)
    BY <1>1, <1>3, <2>1
  <2>3. k <= l /\ p * l + k <= Len(f) /\ FollowingPage(f, p, l)[k] = s[p * l + k]
    <3>1. IsKth(f, l, s, p, k)
      BY <2>2, FollowingPageCuts
    <3> QED
      BY <2>2, <3>1 DEF IsKth
  <2>4. PICK j : j = p * l + k
    OBVIOUS
  <2>5. p * l \in Nat /\ j \in Nat \ {0} /\ j <= n
    BY <1>1, <2>2, <2>3, <2>4
  <2>6. k \in 1 .. l /\ j \in 1 .. n
    BY <1>1, <2>2, <2>3, <2>5
  <2> QED
    BY <2>1, <2>2, <2>3, <2>4, <2>6
<1>5. PICK where : where = [x \in met |-> x[1] * l + x[2]]
  OBVIOUS
<1>6. where \in [met -> 1 .. n] /\ \A x \in met : where[x] = x[1] * l + x[2]
  BY <1>4, <1>5
<1>7. ASSUME NEW p \in Nat, NEW k \in 1 .. l, p * l + k <= n
      PROVE  <<p, k>> \in met /\ where[<<p, k>>] = p * l + k
  <2>1. p * l \in Nat /\ p <= p * l /\ k \in Nat \ {0} /\ k <= l
    OBVIOUS
  <2>2. k \in DOMAIN FollowingPage(f, p, l)
    <3>1. IsKth(f, l, s, p, k)
      BY <2>1, FollowingPageCuts
    <3> QED
      BY <1>1, <1>7, <2>1, <3>1 DEF IsKth
  <2>3. p \in 0 .. n /\ k \in 1 .. n
    BY <1>1, <1>7, <2>1
  <2>4. <<p, k>> \in met
    BY <1>1, <1>2, <2>2, <2>3 DEF MetIn
  <2> QED
    BY <1>6, <2>4
<1>8. ASSUME NEW x \in met, NEW y \in met, where[x] = where[y] PROVE x = y
  <2>1. x[1] * l + x[2] = y[1] * l + y[2]
    BY <1>6, <1>8
  <2>2. PICK p, q, k, m : p = x[1] /\ q = y[1] /\ k = x[2] /\ m = y[2]
    OBVIOUS
  <2>3. p \in Nat /\ q \in Nat /\ k \in 1 .. l /\ m \in 1 .. l
    <3>1. x[1] \in Nat /\ x[2] \in 1 .. l
      BY <1>4
    <3>2. y[1] \in Nat /\ y[2] \in 1 .. l
      BY <1>4
    <3> QED
      BY <2>2, <3>1, <3>2
  <2>4. p * l + k = q * l + m
    BY <2>1, <2>2
  <2>5. p = q /\ k = m
    BY <2>3, <2>4, PagesAreApart
  <2> QED
    BY <1>3, <2>2, <2>5
<1>9. ASSUME NEW j \in 1 .. n PROVE \E x \in met : where[x] = j
  <2>1. j \in Nat \ {0}
    BY <1>1
  <2>2. PICK p \in 0 .. j - 1, k \in 1 .. l : j = p * l + k
    BY <2>1, PositionsArePaged
  <2>3. p \in Nat /\ p * l + k <= n
    BY <1>1, <2>2
  <2> QED
    BY <1>7, <2>2, <2>3
<1>10. Places(f, l, s, where, met, n)
  BY <1>4, <1>6, <1>7, <1>8, <1>9 DEF Places
<1> QED
  BY <1>1, <1>2, <1>10

LEMMA FollowedPagesMeet ==
  ASSUME NEW f, IsFollowing(f), NEW l \in Nat \ {0}
  PROVE  LET met == {x \in (0 .. Len(f)) \X (1 .. Len(f)) : x[2] \in DOMAIN FollowingPage(f, x[1], l)}
             who(x) == FollowingPage(f, x[1], l)[x[2]]
         IN  /\ {who(x) : x \in met} = DOMAIN f
             /\ Cardinality(met) = Len(f)
             /\ \A x, y \in met :
                  \/ f[who(x)].last > f[who(y)].last
                  \/ f[who(x)].last = 0 /\ f[who(y)].last = 0 /\ f[who(x)].name < f[who(y)].name
                  => x[1] < y[1] \/ (x[1] = y[1] /\ x[2] < y[2])
             /\ \A p \in 0 .. Len(f) : FollowingLast(f, p, l) <=> \A x \in met : x[1] <= p
<1> DEFINE met == MetIn(f, l)
           who(x) == FollowingPage(f, x[1], l)[x[2]]
<1>1. PICK n \in Nat : n = Len(f) /\ DOMAIN f = 1 .. n
  BY FollowingShape
<1>2. PICK s : s = Followed(f)
  OBVIOUS
<1>3. /\ \A j \in 1 .. n : s[j] \in DOMAIN f
      /\ \A u \in DOMAIN f : \E j \in 1 .. n : s[j] = u
      /\ \A i, j \in 1 .. n : Precedes(f, s[i], s[j]) => i < j
  <2>1. PICK D : D = DOMAIN f
    OBVIOUS
  <2>2. /\ s \in Seq(D) /\ Len(s) = n
        /\ \A u \in D : \E j \in 1 .. n : s[j] = u
        /\ \A i, j \in 1 .. n : Precedes(f, s[i], s[j]) => i < j
    BY <1>1, <1>2, <2>1, FollowedSorts
  <2>3. \A j \in 1 .. n : s[j] \in D
    BY <2>2
  <2> QED
    BY <2>1, <2>2, <2>3
<1>4. PICK where :
        /\ where \in [met -> 1 .. n]
        /\ \A x \in met : /\ x[1] \in Nat /\ x[2] \in 1 .. l /\ where[x] = x[1] * l + x[2]
                         /\ who(x) = s[where[x]]
        /\ \A p \in Nat, k \in 1 .. l :
             p * l + k <= n => <<p, k>> \in met /\ where[<<p, k>>] = p * l + k
        /\ \A x, y \in met : where[x] = where[y] => x = y
        /\ \A j \in 1 .. n : \E x \in met : where[x] = j
  <2>1. PICK where : Places(f, l, s, where, met, n)
    BY <1>1, <1>2, MetPositions
  <2> HIDE DEF met
  <2> QED
    BY <2>1 DEF Places
<1>5. PICK named : named = [x \in met |-> who(x)]
  OBVIOUS
<1>6. \A x \in met : named[x] = who(x) /\ named[x] = s[where[x]] /\ named[x] \in DOMAIN f
  BY <1>3, <1>4, <1>5
<1>7. {who(x) : x \in met} = DOMAIN f
  <2>1. ASSUME NEW u \in DOMAIN f PROVE \E x \in met : named[x] = u
    <3>1. PICK j \in 1 .. n : s[j] = u
      BY <1>3
    <3>2. PICK x \in met : where[x] = j
      BY <1>4
    <3> QED
      BY <1>6, <3>1, <3>2
  <2> HIDE DEF met, who
  <2>2. {who(x) : x \in met} = {named[x] : x \in met}
    BY <1>6
  <2>3. \A u : u \in {named[x] : x \in met} <=> u \in DOMAIN f
    BY <1>6, <2>1
  <2> QED
    BY <2>2, <2>3
<1>8. Cardinality(met) = n
  <2>1. where \in Injection(met, 1 .. n)
    BY <1>4 DEF Injection, IsInjective
  <2>2. where \in Surjection(met, 1 .. n)
    BY <1>4 DEF Surjection
  <2>3. IsFiniteSet(1 .. n) /\ Cardinality(1 .. n) = n
    BY FS_Interval
  <2> QED
    BY <2>1, <2>2, <2>3, FS_Injection
<1>9. ASSUME NEW x \in met, NEW y \in met,
             \/ f[who(x)].last > f[who(y)].last
             \/ f[who(x)].last = 0 /\ f[who(y)].last = 0 /\ f[who(x)].name < f[who(y)].name
      PROVE  x[1] < y[1] \/ (x[1] = y[1] /\ x[2] < y[2])
  <2>1. Precedes(f, who(x), who(y))
    BY <1>9 DEF Precedes
  <2>2. where[x] < where[y]
    BY <1>3, <1>4, <2>1
  <2>3. PICK p \in Nat, q \in Nat, k \in 1 .. l, m \in 1 .. l :
          p = x[1] /\ k = x[2] /\ q = y[1] /\ m = y[2]
    <3>1. x[1] \in Nat /\ y[1] \in Nat /\ x[2] \in 1 .. l /\ y[2] \in 1 .. l
      BY <1>4
    <3> HIDE DEF met, who
    <3> QED
      BY <3>1, Zenon
  <2>4. p * l + k < q * l + m
    BY <1>4, <2>2, <2>3
  <2>5. p < q \/ (p = q /\ k < m)
    BY <2>4, PagesInOrder
  <2> QED
    BY <2>3, <2>5
<1>10. ASSUME NEW p \in 0 .. n
       PROVE  FollowingLast(f, p, l) <=> \A x \in met : x[1] <= p
  <2>1. p \in Nat /\ (FollowingLast(f, p, l) <=> n <= (p + 1) * l)
    BY <1>1, FollowingLastIsLast
  <2>2. ASSUME n <= (p + 1) * l, NEW x \in met PROVE x[1] <= p
    <3> SUFFICES ASSUME p < x[1] PROVE FALSE
      BY <1>4, <2>1
    <3>1. PICK q \in Nat : q = x[1]
      BY <1>4
    <3>2. PICK a \in Nat, b \in Nat : a = p * l /\ b = q * l
      BY <2>1
    <3>3. a + l <= b
      BY <2>1, <3>1, <3>2, NextPageBegins
    <3>4. (p + 1) * l = a + l
      BY <2>1, <3>2
    <3>5. where[x] = b + x[2] /\ where[x] \in 1 .. n /\ x[2] \in 1 .. l
      BY <1>4, <3>1, <3>2
    <3> QED
      BY <2>2, <3>2, <3>3, <3>4, <3>5
  <2>3. ASSUME ~(n <= (p + 1) * l) PROVE ~ \A x \in met : x[1] <= p
    <3>1. PICK q : q = p + 1
      OBVIOUS
    <3>2. q \in Nat /\ q * l \in Nat /\ q * l + 1 <= n /\ 1 \in 1 .. l
      BY <2>1, <2>3, <3>1
    <3>3. <<q, 1>> \in met
      BY <1>4, <3>2
    <3> QED
      BY <2>1, <3>1, <3>3
  <2> QED
    BY <2>1, <2>2, <2>3
<1> QED
  BY <1>1, <1>7, <1>8, <1>9, <1>10 DEF MetIn

(* However many people are followed and whatever the page size, turning the  *)
(* pages of getFollowingWithMessages meets each of them once, who wrote      *)
(* later first and the silent by username, and the page said to be the last  *)
(* is the last (FollowingPagesCover of Messaging).                           *)
THEOREM FollowedPagesMeetAll == Spec => []FollowingPagesCover
<1>1. FollowedMetOnce
  <2> SUFFICES ASSUME NEW f \in Followings, NEW l \in Limits \cup {PrewarmLimit}
               PROVE  LET met == {x \in (0 .. Len(f)) \X (1 .. Len(f)) :
                                    x[2] \in DOMAIN FollowingPage(f, x[1], l)}
                          who(x) == FollowingPage(f, x[1], l)[x[2]]
                      IN  /\ {who(x) : x \in met} = DOMAIN f
                          /\ Cardinality(met) = Len(f)
                          /\ \A x, y \in met :
                               \/ f[who(x)].last > f[who(y)].last
                               \/ /\ f[who(x)].last = 0 /\ f[who(y)].last = 0
                                  /\ f[who(x)].name < f[who(y)].name
                               => x[1] < y[1] \/ (x[1] = y[1] /\ x[2] < y[2])
                          /\ \A p \in 0 .. Len(f) : FollowingLast(f, p, l) <=> \A x \in met : x[1] <= p
    BY Zenon DEF FollowedMetOnce
  <2>1. IsFollowing(f) /\ l \in Nat \ {0}
    BY CacheAssumption, FollowingsAssumption DEF IsFollowing
  <2> QED
    BY <2>1, FollowedPagesMeet, Zenon
<1>2. FollowingPagesCover
  BY <1>1 DEF FollowingPagesCover
<1>3. Init => FollowingPagesCover
  BY <1>2
<1>4. FollowingPagesCover /\ [Next]_vars => FollowingPagesCover'
  BY <1>1 DEF FollowingPagesCover
<1> QED
  BY <1>3, <1>4, PTL DEF Spec
=============================================================================
