----------------------------- MODULE UserPresenceProofs -----------------------------
(* Theorems about the user-status application for any number of users,       *)
(* sockets, events and calls in flight.                                      *)
EXTENDS UserPresence, FiniteSetTheorems, TLAPS

-----------------------------------------------------------------------------
(* Types: the gateway.                                                       *)

(* A handler's record after a step of it.                                    *)
LEMMA HandlerMoves ==
  ASSUME NEW x \in Handler, NEW s \in {"reuse", "creds", "mongo", "hot", "tell", "close"}
  PROVE  LET y == [x EXCEPT !.step = s] IN
         y \in Handler /\ y.way = x.way /\ y.user = x.user /\ y.awaits = x.awaits
BY DEF Handler

(* A handler's record once the identify it waits for has ended.              *)
LEMMA HandlerWakes ==
  ASSUME NEW x \in Handler
  PROVE  LET y == [x EXCEPT !.awaits = None] IN
         y \in Handler /\ y.way = x.way /\ y.user = x.user /\ y.awaits = None
BY DEF Handler

(* Who is in flight has a record.                                            *)
LEMMA HandlerTyped ==
  ASSUME PresenceTypeOK, NEW h \in Handlers, handler[h] # None
  PROVE  /\ handler[h] \in Handler /\ handler[h].user \in Users
         /\ handler[h].sock \in Sockets /\ handler[h].awaits \in Handlers \cup {None}
         /\ StatusOf(h) \in Status
BY DEF PresenceTypeOK, Handler, StatusOf, Status

(* A handler moves to its next step.                                         *)
LEMMA ProceedTyped ==
  ASSUME PresenceTypeOK, NEW h \in Handlers, handler[h] # None,
         NEW s \in {"reuse", "creds", "mongo", "hot", "tell", "close"}, Proceed(h, s)
  PROVE  handler' \in [Handlers -> Handler \cup {None}]
<1>1. [handler[h] EXCEPT !.step = s] \in Handler
  BY HandlerTyped, HandlerMoves
<1> QED
  BY <1>1 DEF Proceed, PresenceTypeOK

(* An event gets its handler.                                                *)
LEMMA StartTyped ==
  ASSUME PresenceTypeOK, NEW h \in Handlers, NEW t \in Sockets,
         NEW s \in {"reuse", "creds", "mongo", "hot", "tell", "close"},
         NEW w \in {"full", "fast", "reuse", "left"}, NEW o \in Handlers \cup {None},
         Start(h, s, w, t, o)
  PROVE  /\ handler' \in [Handlers -> Handler \cup {None}]
         /\ handler'[h] # None /\ handler'[h].way = w
         /\ handler'[h].user = Account[t] /\ handler'[h].awaits = o
         /\ \A g \in Handlers \ {h} : handler'[g] = handler[g]
<1>1. [step |-> s, way |-> w, sock |-> t, user |-> Account[t], awaits |-> o] \in Handler
  BY PresenceAssumption DEF Handler
<1> QED
  BY <1>1, NoneAssumption DEF Start, PresenceTypeOK

(* A promise settles: who waited for it is woken.                            *)
LEMMA SettleTyped ==
  ASSUME PresenceTypeOK, NEW h \in Handlers, Settle(h)
  PROVE  handler' \in [Handlers -> Handler \cup {None}]
<1>1. ASSUME NEW g \in Handlers, handler[g] # None
      PROVE  [handler[g] EXCEPT !.awaits = None] \in Handler
  BY <1>1, HandlerTyped, HandlerWakes
<1> QED
  BY <1>1 DEF Settle, PresenceTypeOK

LEMMA MeetsTyped ==
  ASSUME PresenceTypeOK, NEW u \in Users, NEW others, Meets(u, others)
  PROVE  unsure' \subseteq Users
BY DEF PresenceTypeOK, Meets

(* Every event of the gateway keeps the types.                               *)
LEMMA PresenceStepTyped ==
  ASSUME PresenceTypeOK, PresenceStep
  PROVE  PresenceTypeOK'
<1> USE PresenceAssumption
<1>1. ASSUME NEW s \in Sockets, HandleConnection(s) PROVE PresenceTypeOK'
  BY <1>1 DEF HandleConnection, PresenceTypeOK
<1>2. ASSUME NEW h \in Handlers, NEW s \in Sockets, HandleIdentity(h, s)
      PROVE  PresenceTypeOK'
  <2>1. Account[s] \in Users /\ identifying[Account[s]] \in Handlers \cup {None}
    BY DEF PresenceTypeOK
  <2>2. /\ meta' \in [Sockets -> Users \cup {"nobody", None}]
        /\ identifying' \in [Users -> Handlers \cup {None}]
    BY <1>2, <2>1 DEF HandleIdentity, PresenceTypeOK
  <2>3. handler' \in [Handlers -> Handler \cup {None}]
    BY <1>2, <2>1, StartTyped DEF HandleIdentity
  <2>4. unsure' \subseteq Users
    BY <1>2, <2>1, MeetsTyped DEF HandleIdentity
  <2>5. events' \in 0 .. MaxEvents
    BY <1>2 DEF HandleIdentity, PresenceTypeOK
  <2> QED
    BY <1>2, <2>2, <2>3, <2>4, <2>5 DEF HandleIdentity, PresenceTypeOK
<1>3. ASSUME NEW h \in Handlers, NEW s \in Sockets, HandleDisconnect(h, s)
      PROVE  PresenceTypeOK'
  <2>1. CASE meta[s] \in Users
    <3>1. handler' \in [Handlers -> Handler \cup {None}]
      BY <1>3, <2>1, StartTyped DEF HandleDisconnect
    <3>2. unsure' \subseteq Users
      BY <1>3, <2>1, MeetsTyped DEF HandleDisconnect
    <3> QED
      BY <1>3, <2>1, <3>1, <3>2 DEF HandleDisconnect, PresenceTypeOK
  <2>2. CASE meta[s] \notin Users
    <3>1. \A g \in Handlers : handler[g] # None => handler[g].user \in Users
      BY HandlerTyped
    <3> QED
      BY <1>3, <2>2, <3>1 DEF HandleDisconnect, PresenceTypeOK
  <2> QED
    BY <2>1, <2>2
<1>4. ASSUME NEW h \in Handlers, HandlerStep(h) PROVE PresenceTypeOK'
  <2>1. CASE ReuseIdentify(h)
    BY <2>1, HandlerTyped, ProceedTyped DEF ReuseIdentify, HandlerAt, PresenceTypeOK
  <2>2. CASE ReadCredentials(h)
    BY <2>2, ProceedTyped DEF ReadCredentials, HandlerAt, PresenceTypeOK
  <2>3. CASE WriteMongo(h)
    BY <2>3, HandlerTyped, ProceedTyped DEF WriteMongo, HandlerAt, PresenceTypeOK
  <2>4. CASE WriteHot(h)
    BY <2>4, HandlerTyped, ProceedTyped DEF WriteHot, HandlerAt, PresenceTypeOK
  <2>5. CASE TellFollowers(h)
    BY <2>5, ProceedTyped DEF TellFollowers, HandlerAt, PresenceTypeOK
  <2>6. CASE FinishIdentity(h)
    BY <2>6, HandlerTyped, SettleTyped DEF FinishIdentity, HandlerAt, PresenceTypeOK
  <2>7. CASE FinishDisconnect(h)
    BY <2>7, HandlerTyped, SettleTyped DEF FinishDisconnect, HandlerAt, PresenceTypeOK
  <2> QED
    BY <1>4, <2>1, <2>2, <2>3, <2>4, <2>5, <2>6, <2>7 DEF HandlerStep
<1>5. ASSUME NEW h \in Handlers, StatusWriteFails(h) PROVE PresenceTypeOK'
  <2>1. handler[h] # None /\ handler[h].user \in Users
    BY <1>5, HandlerTyped DEF StatusWriteFails
  <2>2. CASE handler[h].way = "left"
    BY <1>5, <2>1, <2>2, ProceedTyped DEF StatusWriteFails, PresenceTypeOK
  <2>3. CASE handler[h].way # "left"
    BY <1>5, <2>1, <2>3 DEF StatusWriteFails, PresenceTypeOK
  <2> QED
    BY <2>2, <2>3
<1>6. ASSUME NEW u \in Users, HotExpires(u) PROVE PresenceTypeOK'
  BY <1>6 DEF HotExpires, PresenceTypeOK
<1> QED
  BY <1>1, <1>2, <1>3, <1>4, <1>5, <1>6 DEF PresenceStep

-----------------------------------------------------------------------------
(* Types: the service.                                                       *)

(* A call's record after a step of it.                                       *)
LEMMA CallMoves ==
  ASSUME NEW x \in Call, NEW s \in CallStep
  PROVE  [x EXCEPT !.step = s] \in Call /\ [x EXCEPT !.step = s].step = s
BY DEF Call

LEMMA CallReadsList ==
  ASSUME NEW x \in Call, NEW s \in CallStep, NEW l \in SUBSET Users
  PROVE  LET y == [x EXCEPT !.step = s, !.list = l] IN y \in Call /\ y.step = s
BY DEF Call

LEMMA CallReadsStatus ==
  ASSUME NEW x \in Call, NEW f \in [x.list -> Status]
  PROVE  LET y == [x EXCEPT !.step = "store", !.seen = f] IN y \in Call /\ y.step = "store"
<1>1. x.list \in SUBSET Users
  BY DEF Call
<1>2. f \in UNION {[S -> Status] : S \in SUBSET Users}
  BY <1>1
<1> DEFINE seen == UNION {[S -> Status] : S \in SUBSET Users}
<1>3. Call = [step : CallStep, list : SUBSET Users, seen : seen, keys : SUBSET {"page", "lock"}]
  BY DEF Call
<1>4. f \in seen
  BY <1>2
<1> HIDE DEF seen
<1> QED
  BY <1>3, <1>4 DEF CallStep

LEMMA CallListsKeys ==
  ASSUME NEW x \in Call, NEW k \in SUBSET {"page", "lock"}
  PROVE  LET y == [x EXCEPT !.step = "drop", !.keys = k] IN y \in Call /\ y.step = "drop"
BY DEF Call, CallStep

LEMMA CallTyped ==
  ASSUME FollowingTypeOK, NEW c \in Calls, call[c] # None
  PROVE  /\ call[c] \in Call /\ call[c].list \subseteq Users
         /\ call[c].keys \subseteq {"page", "lock"}
BY DEF FollowingTypeOK, Call

LEMMA SeenTyped ==
  ASSUME FollowingTypeOK, NEW c \in Calls, call[c] # None
  PROVE  \A u \in DOMAIN call[c].seen : call[c].seen[u] \in Status
<1>1. call[c].seen \in UNION {[S -> Status] : S \in SUBSET Users}
  BY CallTyped DEF Call
<1>2. PICK S \in SUBSET Users : call[c].seen \in [S -> Status]
  BY <1>1
<1> QED
  BY <1>2

LEMMA BeginTyped ==
  ASSUME FollowingTypeOK, NEW c \in Calls, NEW s \in CallStep \cup {"answered"}, Begin(c, s)
  PROVE  /\ call' \in [Calls -> Call \cup {None}]
         /\ s = "answered" => call'[c] = None
         /\ s # "answered" => call'[c] # None /\ call'[c].step = s
         /\ \A d \in Calls \ {c} : call'[d] = call[d]
<1> DEFINE x == [step |-> s, list |-> {}, seen |-> NoOne, keys |-> {}]
<1>1. ASSUME s # "answered" PROVE x \in Call
  <2>1. NoOne \in [{} -> Status]
    BY DEF NoOne
  <2>2. NoOne \in UNION {[S -> Status] : S \in SUBSET Users}
    BY <2>1
  <2> DEFINE seen == UNION {[S -> Status] : S \in SUBSET Users}
  <2>3. Call = [step : CallStep, list : SUBSET Users, seen : seen, keys : SUBSET {"page", "lock"}]
    BY DEF Call
  <2>4. NoOne \in seen
    BY <2>2
  <2> HIDE DEF seen
  <2> QED
    BY <1>1, <2>3, <2>4
<1>2. call' = [call EXCEPT ![c] = IF s = "answered" THEN None ELSE x]
  BY DEF Begin
<1>3. x.step = s
  OBVIOUS
<1> HIDE DEF x
<1> QED
  BY <1>1, <1>2, <1>3, NoneAssumption DEF FollowingTypeOK

LEMMA AdvanceTyped ==
  ASSUME FollowingTypeOK, NEW c \in Calls, call[c] # None, NEW s \in CallStep, Advance(c, s)
  PROVE  /\ call' \in [Calls -> Call \cup {None}]
         /\ call'[c] # None /\ call'[c].step = s
         /\ \A d \in Calls \ {c} : call'[d] = call[d]
<1>1. call[c] \in Call
  BY CallTyped
<1> DEFINE x == [call[c] EXCEPT !.step = s]
<1>2. x \in Call /\ x.step = s
  BY <1>1, CallMoves
<1>3. call' = [call EXCEPT ![c] = x]
  BY DEF Advance
<1> HIDE DEF x
<1> QED
  BY <1>2, <1>3, NoneAssumption DEF FollowingTypeOK

LEMMA EndTyped ==
  ASSUME FollowingTypeOK, NEW c \in Calls, EndFetch(c)
  PROVE  /\ call' \in [Calls -> Call \cup {None}] /\ fetch' \in Calls \cup {None}
         /\ \A d \in Calls : call'[d] \in {call[d], None}
BY DEF FollowingTypeOK, EndFetch

LEMMA EntrySteps == Entry \in {"again", "answered"}
BY DEF Entry
(* Every step of the service keeps its types.                                *)
LEMMA QuietStepTyped ==
  ASSUME PresenceTypeOK, FollowingTypeOK, QuietStep
  PROVE  FollowingTypeOK'
<1> USE FollowingAssumption
<1>s. CallStep = {"lock", "wait", "again", "share", "follow", "read", "store", "hot", "keys", "drop"}
  BY DEF CallStep
<1>1. ASSUME NEW c \in Calls, GetFollowingUsersStatus(c) PROVE FollowingTypeOK'
  BY <1>1, <1>s, BeginTyped, EntrySteps DEF GetFollowingUsersStatus, NewCall, FollowingTypeOK
<1>2. ASSUME NEW c \in Calls, PrewarmFollowingCache(c) PROVE FollowingTypeOK'
  BY <1>2, <1>s, BeginTyped, EntrySteps DEF PrewarmFollowingCache, NewCall, FollowingTypeOK
<1>3. ASSUME NEW c \in Calls, HandleFollowingChanged(c) PROVE FollowingTypeOK'
  BY <1>3, <1>s, BeginTyped DEF HandleFollowingChanged, NewCall, FollowingTypeOK
<1>4. ASSUME NEW c \in Calls, AcquirePageLock(c) PROVE FollowingTypeOK'
  <2>1. call' \in [Calls -> Call \cup {None}]
    BY <1>4, <1>s, BeginTyped, AdvanceTyped, EntrySteps DEF AcquirePageLock, CallAt
  <2> QED
    BY <1>4, <2>1 DEF AcquirePageLock, FollowingTypeOK
<1>5. ASSUME NEW c \in Calls, WaitForPage(c) PROVE FollowingTypeOK'
  BY <1>5 DEF WaitForPage, Return, FollowingTypeOK
<1>6. ASSUME NEW c \in Calls, WaitForPageTimeout(c) PROVE FollowingTypeOK'
  BY <1>6, <1>s, BeginTyped, EntrySteps DEF WaitForPageTimeout, FollowingTypeOK
<1>7. ASSUME NEW c \in Calls, FetchOnce(c) PROVE FollowingTypeOK'
  <2>1. call[c] # None /\ {"share", "follow"} \subseteq CallStep
    BY <1>7, <1>s DEF FetchOnce, CallAt
  <2>2. CASE page # None /\ page.age = "fresh"
    BY <1>7, <2>2 DEF FetchOnce, Return, FollowingTypeOK, PageOf
  <2>3. CASE ~(page # None /\ page.age = "fresh")
    BY <1>7, <2>1, <2>3, AdvanceTyped DEF FetchOnce, FollowingTypeOK
  <2> QED
    BY <2>2, <2>3
<1>8. ASSUME NEW c \in Calls, GetUserFollowing(c) PROVE FollowingTypeOK'
  <2> DEFINE x == [call[c] EXCEPT !.step = IF follows = {} THEN "store" ELSE "read",
                                  !.list = follows]
  <2>1. call[c] \in Call /\ follows \in SUBSET Users
    BY <1>8, CallTyped DEF GetUserFollowing, CallAt, FollowingTypeOK
  <2>2. (IF follows = {} THEN "store" ELSE "read") \in CallStep
    BY <1>s
  <2>3. x \in Call
    BY <2>1, <2>2, CallReadsList
  <2>4. call' = [call EXCEPT ![c] = x]
    BY <1>8 DEF GetUserFollowing
  <2> HIDE DEF x
  <2> QED
    BY <1>8, <2>3, <2>4 DEF GetUserFollowing, FollowingTypeOK
<1>9. ASSUME NEW c \in Calls, GetBulkUserStatus(c) PROVE FollowingTypeOK'
  <2> DEFINE f == [u \in call[c].list |-> StatusInDb(u)]
             x == [call[c] EXCEPT !.step = "store", !.seen = f]
  <2>1. call[c] \in Call /\ call[c].list \subseteq Users
    BY <1>9, CallTyped DEF GetBulkUserStatus, CallAt
  <2>2. f \in [call[c].list -> Status]
    BY <2>1 DEF StatusInDb, PresenceTypeOK, Status
  <2>3. call' = [call EXCEPT ![c] = x]
    BY <1>9 DEF GetBulkUserStatus
  <2> HIDE DEF f
  <2>4. x \in Call
    BY <2>1, <2>2, CallReadsStatus
  <2> HIDE DEF x
  <2> QED
    BY <1>9, <2>3, <2>4 DEF GetBulkUserStatus, FollowingTypeOK
<1>10. ASSUME NEW c \in Calls, SetCachedFollowingStatus(c) PROVE FollowingTypeOK'
  <2>1. call[c] # None /\ call[c].list \subseteq Users
    BY <1>10, CallTyped DEF SetCachedFollowingStatus, CallAt
  <2>2. call' \in [Calls -> Call \cup {None}] /\ fetch' \in Calls \cup {None}
    BY <1>10, <1>s, <2>1, EndTyped, AdvanceTyped DEF SetCachedFollowingStatus, FollowingTypeOK
  <2>3. page' \in PageOf
    BY <1>10, <2>1 DEF SetCachedFollowingStatus, PageOf
  <2> QED
    BY <1>10, <2>2, <2>3 DEF SetCachedFollowingStatus, FollowingTypeOK
<1>11. ASSUME NEW c \in Calls, ListPages(c) PROVE FollowingTypeOK'
  <2> DEFINE x == [call[c] EXCEPT !.step = "drop", !.keys = KeysOfPage]
  <2>1. call[c] \in Call
    BY <1>11, CallTyped DEF ListPages, CallAt
  <2>2. x \in Call
    BY <2>1, CallListsKeys DEF KeysOfPage
  <2>3. call' = [call EXCEPT ![c] = x]
    BY <1>11 DEF ListPages
  <2> HIDE DEF x
  <2> QED
    BY <1>11, <2>2, <2>3 DEF ListPages, FollowingTypeOK
<1>12. ASSUME NEW c \in Calls, DropPages(c) PROVE FollowingTypeOK'
  <2>1. call' \in [Calls -> Call \cup {None}]
    BY <1>12, <1>s, BeginTyped, EntrySteps DEF DropPages
  <2>2. lock' \in BOOLEAN
    BY <1>12 DEF DropPages
  <2>3. page' \in PageOf \cup {None}
    BY <1>12 DEF DropPages, FollowingTypeOK
  <2> QED
    BY <1>12, <2>1, <2>2, <2>3 DEF DropPages, FollowingTypeOK
<1>13. ASSUME NEW c \in Calls, FetchThrows(c) PROVE FollowingTypeOK'
  BY <1>13, EndTyped DEF FetchThrows, FollowingTypeOK
<1>14. CASE FollowsChange
  BY <1>14 DEF FollowsChange, FollowingTypeOK
<1>15. CASE PageAges
  BY <1>15 DEF PageAges, FollowingTypeOK, PageOf
<1>16. CASE MemoryExpires \/ PageLockExpires
  BY <1>16 DEF MemoryExpires, PageLockExpires, FollowingTypeOK
<1> QED
  BY <1>1, <1>2, <1>3, <1>4, <1>5, <1>6, <1>7, <1>8, <1>9, <1>10, <1>11, <1>12, <1>13,
     <1>14, <1>15, <1>16 DEF QuietStep, ServiceStep

LEMMA SynchronizeTyped ==
  ASSUME PresenceTypeOK, FollowingTypeOK, NEW c \in Calls, SynchronizeHotCache(c),
         UNCHANGED <<open, meta, mongo, identifying, recent, handler, events, restarts>>
  PROVE  PresenceTypeOK' /\ FollowingTypeOK'
<1>1. call[c] # None /\ call[c].list \subseteq Users
  BY CallTyped DEF SynchronizeHotCache, CallAt
<1>2. \A u \in DOMAIN call[c].seen : call[c].seen[u] \in Status
  BY <1>1, SeenTyped
<1>3. hot' \in [Users -> Status \cup {None}]
  BY <1>2 DEF SynchronizeHotCache, PresenceTypeOK
<1>4. DOMAIN call[c].seen \subseteq Users
  <2>1. call[c].seen \in UNION {[S -> Status] : S \in SUBSET Users}
    BY <1>1, CallTyped DEF Call
  <2>2. PICK S \in SUBSET Users : call[c].seen \in [S -> Status]
    BY <2>1
  <2> QED
    BY <2>2
<1>5. unsure' \subseteq Users
  BY <1>4 DEF SynchronizeHotCache, PresenceTypeOK
<1>6. PresenceTypeOK'
  BY <1>3, <1>5 DEF PresenceTypeOK
<1>7. FollowingTypeOK'
  BY EndTyped DEF SynchronizeHotCache, FollowingTypeOK
<1> QED
  BY <1>6, <1>7

(* Every step of the application keeps the types.                            *)
LEMMA NextTyped ==
  ASSUME TypeOK, [Next]_vars
  PROVE  TypeOK'
<1> USE DEF TypeOK
<1>1. CASE PresenceStep /\ UNCHANGED followingVars
  BY <1>1, PresenceStepTyped DEF followingVars, FollowingTypeOK
<1>2. CASE Restart /\ ForgetCalls
  <2>1. PresenceTypeOK'
    BY <1>2, PresenceAssumption DEF Restart, PresenceTypeOK
  <2>2. FollowingTypeOK'
    BY <1>2 DEF ForgetCalls, FollowingTypeOK
  <2> QED
    BY <2>1, <2>2
<1>3. CASE QuietStep /\ UNCHANGED presenceVars
  <2>1. PresenceTypeOK'
    BY <1>3 DEF presenceVars, PresenceTypeOK
  <2> QED
    BY <1>3, <2>1, QuietStepTyped
<1>4. ASSUME NEW c \in Calls, SynchronizeHotCache(c),
             UNCHANGED <<open, meta, mongo, identifying, recent, handler, events, restarts>>
      PROVE  TypeOK'
  BY <1>4, SynchronizeTyped
<1>5. CASE UNCHANGED vars
  BY <1>5 DEF vars, presenceVars, followingVars, PresenceTypeOK, FollowingTypeOK
<1> QED
  BY <1>1, <1>2, <1>3, <1>4, <1>5 DEF Next, FollowingNext

LEMMA InitTyped ==
  ASSUME Init PROVE TypeOK
<1>1. PresenceTypeOK
  BY PresenceAssumption DEF Init, PresenceInit, PresenceTypeOK
<1>2. /\ follows \subseteq Users /\ page \in PageOf \cup {None}
      /\ memory \in (SUBSET Users) \cup {None} /\ fetch \in Calls \cup {None}
      /\ call \in [Calls -> Call \cup {None}]
      /\ calls \in 0 .. MaxCalls /\ changes \in 0 .. MaxFollows
  BY FollowingAssumption DEF Init, FollowingInit
<1>3. lock \in BOOLEAN
  BY DEF Init, FollowingInit
<1> QED
  BY <1>1, <1>2, <1>3 DEF TypeOK, FollowingTypeOK

(* Every document, key, socket and call of the application has its type.     *)
THEOREM PresenceTyped == Spec => []TypeOK
BY InitTyped, NextTyped, PTL DEF Spec
-----------------------------------------------------------------------------
(* The fetch that calls share.                                               *)

Busy(c) == call[c] # None /\ call[c].step \in FetchSteps

(* The call named in prewarmInProgress is the one that fetches, and calls    *)
(* share a fetch only while there is one.                                    *)
FetchInv ==
  /\ fetch # None => Busy(fetch)
  /\ \A c \in Calls : Busy(c) => fetch = c
  /\ \A c \in Calls : CallAt(c, "share") => fetch # None

(* A call that keeps fetching, or keeps away from the fetch.                 *)
LEMMA OneCallMoves ==
  ASSUME FollowingTypeOK, FetchInv, NEW c \in Calls, fetch' = fetch,
         \A d \in Calls \ {c} : call'[d] = call[d],
         Busy(c)' <=> Busy(c), ~CallAt(c, "share")'
  PROVE  FetchInv'
<1>1. \A d \in Calls \ {c} : (Busy(d)' <=> Busy(d)) /\ (CallAt(d, "share")' <=> CallAt(d, "share"))
  BY DEF Busy, CallAt
<1>2. fetch # None => fetch \in Calls
  BY DEF FollowingTypeOK
<1>3. fetch' # None => Busy(fetch)'
  <2>1. CASE fetch = c
    BY <2>1 DEF FetchInv, Busy
  <2>2. CASE fetch # c
    BY <1>2, <2>2 DEF FetchInv, Busy
  <2> QED
    BY <2>1, <2>2
<1>4. \A d \in Calls : Busy(d)' => fetch' = d
  BY <1>1 DEF FetchInv
<1>5. \A d \in Calls : CallAt(d, "share")' => fetch' # None
  BY <1>1 DEF FetchInv
<1> QED
  BY <1>3, <1>4, <1>5 DEF FetchInv

(* A call that begins goes for the lock, the keys or the fetch, or is over.  *)
LEMMA BeginKeeps ==
  ASSUME FollowingTypeOK, FetchInv, NEW c \in Calls, ~Busy(c), fetch' = fetch,
         NEW s \in {"lock", "keys", "again", "answered"}, Begin(c, s)
  PROVE  FetchInv'
<1>1. s \in CallStep \cup {"answered"}
  BY DEF CallStep
<1>2. /\ s = "answered" => call'[c] = None
      /\ s # "answered" => call'[c] # None /\ call'[c].step = s
      /\ \A d \in Calls \ {c} : call'[d] = call[d]
  BY <1>1, BeginTyped
<1>3. ~Busy(c)' /\ ~CallAt(c, "share")'
  BY <1>2 DEF Busy, CallAt, FetchSteps
<1> QED
  BY <1>2, <1>3, OneCallMoves

(* The step of a call that is its next one in, or away from, the fetch.      *)
LEMMA AdvanceKeeps ==
  ASSUME FollowingTypeOK, FetchInv, NEW c \in Calls, fetch' = fetch,
         call[c] # None, call'[c] # None,
         \A d \in Calls \ {c} : call'[d] = call[d],
         call[c].step \in FetchSteps <=> call'[c].step \in FetchSteps,
         call'[c].step # "share"
  PROVE  FetchInv'
<1>1. ~CallAt(c, "share")'
  BY DEF CallAt
<1>2. Busy(c)' <=> Busy(c)
  BY DEF Busy
<1> QED
  BY <1>1, <1>2, OneCallMoves

(* The fetch ends, and with it the calls that share it.                      *)
LEMMA EndKeeps ==
  ASSUME FollowingTypeOK, FetchInv, NEW c \in Calls, Busy(c), EndFetch(c)
  PROVE  FetchInv'
<1>1. fetch = c /\ fetch' = None
  BY DEF FetchInv, EndFetch
<1>2. ASSUME NEW d \in Calls PROVE ~Busy(d)' /\ ~CallAt(d, "share")'
  BY <1>1 DEF EndFetch, FetchInv, Busy, CallAt
<1> QED
  BY <1>1, <1>2 DEF FetchInv

(* A call takes or joins the fetch: the second look and the map's entry are  *)
(* one step.                                                                 *)
LEMMA FetchOnceKeeps ==
  ASSUME FollowingTypeOK, FetchInv, NEW c \in Calls, FetchOnce(c)
  PROVE  FetchInv'
<1>1. call[c] # None /\ call[c].step = "again" /\ ~Busy(c)
  BY DEF FetchOnce, CallAt, Busy, FetchSteps
<1>2. CASE page # None /\ page.age = "fresh"
  <2>1. fetch' = fetch /\ call'[c] = None /\ \A d \in Calls \ {c} : call'[d] = call[d]
    BY <1>2 DEF FetchOnce, Return, FollowingTypeOK
  <2>2. ~Busy(c)' /\ ~CallAt(c, "share")'
    BY <2>1 DEF Busy, CallAt
  <2> QED
    BY <1>1, <2>1, <2>2, OneCallMoves
<1>3. CASE ~(page # None /\ page.age = "fresh") /\ fetch # None
  <2>1. fetch' = fetch /\ Advance(c, "share")
    BY <1>3 DEF FetchOnce
  <2>2. /\ call'[c] # None /\ call'[c].step = "share"
        /\ \A d \in Calls \ {c} : call'[d] = call[d]
    BY <1>1, <2>1, AdvanceTyped DEF CallStep
  <2>3. fetch \in Calls /\ fetch # c
    BY <1>1, <1>3 DEF FollowingTypeOK, FetchInv
  <2>4. ~Busy(c)' /\ \A d \in Calls \ {c} : (Busy(d)' <=> Busy(d))
    BY <2>2 DEF Busy, FetchSteps
  <2>5. Busy(fetch)'
    BY <1>3, <2>3, <2>1, <2>4 DEF FetchInv, Busy
  <2>6. \A d \in Calls : Busy(d)' => fetch' = d
    BY <2>1, <2>4 DEF FetchInv
  <2> QED
    BY <1>3, <2>1, <2>5, <2>6 DEF FetchInv
<1>4. CASE ~(page # None /\ page.age = "fresh") /\ fetch = None
  <2>1. fetch' = c /\ Advance(c, "follow")
    BY <1>4 DEF FetchOnce
  <2>2. /\ call'[c] # None /\ call'[c].step = "follow"
        /\ \A d \in Calls \ {c} : call'[d] = call[d]
    BY <1>1, <2>1, AdvanceTyped DEF CallStep
  <2>3. c # None
    BY NoneAssumption
  <2>4. \A d \in Calls : ~Busy(d)
    BY <1>4, NoneAssumption DEF FetchInv
  <2>5. Busy(c)' /\ \A d \in Calls \ {c} : ~Busy(d)'
    BY <2>2, <2>4 DEF Busy, FetchSteps
  <2>6. fetch' # None
    BY <2>1, <2>3
  <2>7. Busy(fetch)'
    BY <2>1, <2>5 DEF Busy
  <2> QED
    BY <2>1, <2>5, <2>6, <2>7 DEF FetchInv
<1> QED
  BY <1>2, <1>3, <1>4
(* Calls that begin.                                                         *)
LEMMA CallsBegin ==
  ASSUME FollowingTypeOK, FetchInv, NEW c \in Calls,
         \/ GetFollowingUsersStatus(c) \/ PrewarmFollowingCache(c) \/ HandleFollowingChanged(c)
  PROVE  FetchInv'
<1>1. ~Busy(c) /\ fetch' = fetch
  BY DEF GetFollowingUsersStatus, PrewarmFollowingCache, HandleFollowingChanged, NewCall, Busy
<1>2. \E s \in {"lock", "keys", "again", "answered"} : Begin(c, s)
  BY EntrySteps DEF GetFollowingUsersStatus, PrewarmFollowingCache, HandleFollowingChanged
<1> QED
  BY <1>1, <1>2, BeginKeeps

(* Calls on their way to the fetch, or past it.                              *)
LEMMA CallsWait ==
  ASSUME FollowingTypeOK, FetchInv, NEW c \in Calls,
         \/ AcquirePageLock(c) \/ WaitForPage(c) \/ WaitForPageTimeout(c)
         \/ ListPages(c) \/ DropPages(c)
  PROVE  FetchInv'
<1>1. /\ call[c] # None /\ call[c].step \in {"lock", "wait", "keys", "drop"}
      /\ ~Busy(c) /\ fetch' = fetch
  BY DEF AcquirePageLock, WaitForPage, WaitForPageTimeout, ListPages, DropPages,
         CallAt, Busy, FetchSteps
<1>2. ASSUME NEW s \in {"lock", "keys", "again", "answered"}, Begin(c, s) PROVE FetchInv'
  BY <1>1, <1>2, BeginKeeps
<1>3. CASE AcquirePageLock(c)
  <2>1. CASE lock
    <3>1. Advance(c, "wait")
      BY <1>3, <2>1 DEF AcquirePageLock
    <3>2. /\ call'[c] # None /\ call'[c].step = "wait"
          /\ \A d \in Calls \ {c} : call'[d] = call[d]
      BY <1>1, <3>1, AdvanceTyped DEF CallStep
    <3>3. call[c].step \notin FetchSteps /\ call'[c].step \notin FetchSteps
      BY <1>1, <3>2 DEF FetchSteps
    <3> QED
      BY <1>1, <3>2, <3>3, AdvanceKeeps
  <2>2. CASE ~lock
    BY <1>2, <1>3, <2>2, EntrySteps DEF AcquirePageLock
  <2> QED
    BY <2>1, <2>2
<1>4. CASE WaitForPage(c)
  <2>1. call'[c] = None /\ \A d \in Calls \ {c} : call'[d] = call[d]
    BY <1>4 DEF WaitForPage, Return, FollowingTypeOK
  <2>2. ~Busy(c)' /\ ~CallAt(c, "share")'
    BY <2>1 DEF Busy, CallAt
  <2> QED
    BY <1>1, <2>1, <2>2, OneCallMoves
<1>5. CASE WaitForPageTimeout(c)
  BY <1>2, <1>5, EntrySteps DEF WaitForPageTimeout
<1>6. CASE ListPages(c)
  <2> DEFINE x == [call[c] EXCEPT !.step = "drop", !.keys = KeysOfPage]
  <2>1. call[c] \in Call
    BY <1>1, CallTyped
  <2>k. KeysOfPage \in SUBSET {"page", "lock"}
    BY DEF KeysOfPage
  <2>2. x \in Call /\ x.step = "drop"
    BY <2>1, <2>k, CallListsKeys
  <2>3. call' = [call EXCEPT ![c] = x]
    BY <1>6 DEF ListPages
  <2> HIDE DEF x
  <2>4. /\ call'[c] # None /\ call'[c].step = "drop"
        /\ \A d \in Calls \ {c} : call'[d] = call[d]
    BY <2>2, <2>3, NoneAssumption DEF FollowingTypeOK
  <2>5. call[c].step \notin FetchSteps /\ call'[c].step \notin FetchSteps
    BY <1>1, <2>4 DEF FetchSteps
  <2> QED
    BY <1>1, <2>4, <2>5, AdvanceKeeps
<1>7. CASE DropPages(c)
  BY <1>2, <1>7, EntrySteps DEF DropPages
<1> QED
  BY <1>3, <1>4, <1>5, <1>6, <1>7

(* The call that fetches goes on to its next step.                           *)
LEMMA FetchGoesOn ==
  ASSUME PresenceTypeOK, FollowingTypeOK, FetchInv, NEW c \in Calls,
         GetUserFollowing(c) \/ GetBulkUserStatus(c) \/ SetCachedFollowingStatus(c)
  PROVE  FetchInv'
<1>1. call[c] # None /\ call[c] \in Call /\ call[c].step \in FetchSteps /\ Busy(c)
  BY CallTyped
     DEF GetUserFollowing, GetBulkUserStatus, SetCachedFollowingStatus, CallAt, Busy, FetchSteps
<1>2. ASSUME NEW x \in Call, x.step \in FetchSteps, call' = [call EXCEPT ![c] = x],
             fetch' = fetch
      PROVE  FetchInv'
  <2>1. call'[c] = x /\ call'[c] # None /\ \A d \in Calls \ {c} : call'[d] = call[d]
    BY <1>2, NoneAssumption DEF FollowingTypeOK
  <2>2. x.step # "share"
    BY <1>2 DEF FetchSteps
  <2> QED
    BY <1>1, <1>2, <2>1, <2>2, AdvanceKeeps
<1>3. CASE GetUserFollowing(c)
  <2> DEFINE s == IF follows = {} THEN "store" ELSE "read"
             x == [call[c] EXCEPT !.step = s, !.list = follows]
  <2>1. s \in CallStep /\ s \in FetchSteps /\ follows \in SUBSET Users
    BY DEF CallStep, FetchSteps, FollowingTypeOK
  <2>2. call' = [call EXCEPT ![c] = x] /\ fetch' = fetch
    BY <1>3 DEF GetUserFollowing
  <2> HIDE DEF s
  <2>3. x \in Call /\ x.step = s
    BY <1>1, <2>1, CallReadsList
  <2> HIDE DEF x
  <2> QED
    BY <1>2, <2>1, <2>2, <2>3
<1>4. CASE GetBulkUserStatus(c)
  <2> DEFINE f == [u \in call[c].list |-> StatusInDb(u)]
             x == [call[c] EXCEPT !.step = "store", !.seen = f]
  <2>1. call[c].list \subseteq Users
    BY <1>1, CallTyped
  <2>2. f \in [call[c].list -> Status]
    BY <2>1 DEF StatusInDb, PresenceTypeOK, Status
  <2>3. call' = [call EXCEPT ![c] = x] /\ fetch' = fetch
    BY <1>4 DEF GetBulkUserStatus
  <2> HIDE DEF f
  <2>4. x \in Call /\ x.step = "store"
    BY <1>1, <2>2, CallReadsStatus
  <2> HIDE DEF x
  <2> QED
    BY <1>2, <2>3, <2>4 DEF FetchSteps
<1>5. CASE SetCachedFollowingStatus(c)
  <2>1. CASE call[c].list = {}
    BY <1>1, <1>5, <2>1, EndKeeps DEF SetCachedFollowingStatus
  <2>2. CASE call[c].list # {}
    <3> DEFINE x == [call[c] EXCEPT !.step = "hot"]
    <3>1. call' = [call EXCEPT ![c] = x] /\ fetch' = fetch
      BY <1>5, <2>2 DEF SetCachedFollowingStatus, Advance
    <3>2. x \in Call /\ x.step = "hot"
      BY <1>1, CallMoves DEF CallStep
    <3> HIDE DEF x
    <3> QED
      BY <1>2, <3>1, <3>2 DEF FetchSteps
  <2> QED
    BY <2>1, <2>2
<1> QED
  BY <1>3, <1>4, <1>5

(* Every step keeps one fetch.                                               *)
LEMMA FetchKept ==
  ASSUME TypeOK, FetchInv, [Next]_vars
  PROVE  FetchInv'
<1> USE DEF TypeOK
<1>0. CASE UNCHANGED <<fetch, call>>
  BY <1>0 DEF FetchInv, Busy, CallAt
<1>1. CASE PresenceStep /\ UNCHANGED followingVars
  BY <1>0, <1>1 DEF followingVars
<1>2. CASE Restart /\ ForgetCalls
  BY <1>2 DEF ForgetCalls, FetchInv, Busy, CallAt
<1>3. ASSUME NEW c \in Calls, FetchThrows(c) PROVE FetchInv'
  <2>1. Busy(c)
    BY <1>3 DEF FetchThrows, CallAt, Busy, FetchSteps
  <2> QED
    BY <1>3, <2>1, EndKeeps DEF FetchThrows
<1>4. ASSUME NEW c \in Calls, SynchronizeHotCache(c) PROVE FetchInv'
  <2>1. Busy(c) /\ EndFetch(c)
    BY <1>4 DEF SynchronizeHotCache, CallAt, Busy, FetchSteps
  <2> QED
    BY <2>1, EndKeeps
<1>5. CASE FollowsChange \/ PageAges \/ MemoryExpires \/ PageLockExpires
  BY <1>0, <1>5 DEF FollowsChange, PageAges, MemoryExpires, PageLockExpires
<1>6. CASE UNCHANGED vars
  BY <1>0, <1>6 DEF vars, followingVars
<1>7. CASE QuietStep
  BY <1>3, <1>5, <1>7, CallsBegin, CallsWait, FetchOnceKeeps, FetchGoesOn
     DEF QuietStep, ServiceStep
<1> QED
  BY <1>1, <1>2, <1>4, <1>6, <1>7 DEF Next, FollowingNext

(* However many calls of the service overlap, fail, find the page stale or   *)
(* gone, or lose its lock: one of them at a time fetches it.                 *)
THEOREM OneCallFetches == Spec => []OneFetches
<1>1. Init => FetchInv
  BY DEF Init, FollowingInit, FetchInv, Busy, CallAt
<1>2. TypeOK /\ FetchInv => OneFetches
  <2> SUFFICES ASSUME TypeOK, FetchInv PROVE OneFetches
    OBVIOUS
  <2> DEFINE C == {c \in Calls : \E s \in FetchSteps : CallAt(c, s)}
  <2>1. \A c \in C : fetch = c
    BY DEF FetchInv, Busy, CallAt
  <2>2. C = {} \/ C = {fetch}
    BY <2>1
  <2>3. Cardinality({}) = 0 /\ Cardinality({fetch}) = 1
    BY FS_EmptySet, FS_Singleton
  <2> HIDE DEF C
  <2>4. Cardinality(C) <= 1
    BY <2>2, <2>3
  <2> USE DEF C
  <2> QED
    BY <2>4 DEF OneFetches
<1> QED
  BY <1>1, <1>2, FetchKept, PresenceTyped, PTL DEF Spec
-----------------------------------------------------------------------------
(* The identify that events wait for.                                        *)

(* Handler g runs the full identify of u.                                    *)
Serves(g, u) == handler[g] # None /\ handler[g].way = "full" /\ handler[g].user = u

(* identifyInProgress names a full identify that runs, and whoever waits     *)
(* waits for one and is not one.                                             *)
IdentifyInv ==
  /\ \A u \in Users : identifying[u] # None => Serves(identifying[u], u)
  /\ \A h \in Handlers : handler[h] # None /\ handler[h].awaits # None =>
       handler[h].way = "reuse" /\ Serves(handler[h].awaits, handler[h].user)

(* A handler moves on and nobody notices.                                    *)
LEMMA OneHandlerMoves ==
  ASSUME PresenceTypeOK, IdentifyInv, NEW h \in Handlers, handler[h] # None,
         NEW s \in {"reuse", "creds", "mongo", "hot", "tell", "close"}, Proceed(h, s),
         identifying' = identifying
  PROVE  IdentifyInv'
<1> DEFINE x == [handler[h] EXCEPT !.step = s]
<1>1. /\ x \in Handler /\ x.way = handler[h].way /\ x.user = handler[h].user
      /\ x.awaits = handler[h].awaits
  BY HandlerTyped, HandlerMoves
<1>2. handler' = [handler EXCEPT ![h] = x]
  BY DEF Proceed
<1> HIDE DEF x
<1>3. \A g \in Handlers :
        /\ handler'[g] # None <=> handler[g] # None
        /\ handler[g] # None => /\ handler'[g].way = handler[g].way
                                /\ handler'[g].user = handler[g].user
                                /\ handler'[g].awaits = handler[g].awaits
  BY <1>1, <1>2, NoneAssumption DEF PresenceTypeOK
<1>4. ASSUME NEW g \in Handlers, NEW u, Serves(g, u) PROVE Serves(g, u)'
  BY <1>3, <1>4 DEF Serves
<1>5. \A u \in Users : identifying'[u] # None => Serves(identifying[u], u)'
  BY <1>4 DEF IdentifyInv, PresenceTypeOK
<1>6. ASSUME NEW g \in Handlers, handler'[g] # None, handler'[g].awaits # None
      PROVE  handler'[g].way = "reuse" /\ Serves(handler[g].awaits, handler[g].user)'
  <2>1. handler[g] # None /\ handler[g].awaits \in Handlers
    BY <1>3, <1>6, HandlerTyped
  <2>2. handler[g].way = "reuse" /\ Serves(handler[g].awaits, handler[g].user)
    BY <1>3, <1>6, <2>1 DEF IdentifyInv
  <2> QED
    BY <1>3, <1>4, <2>1, <2>2 DEF Serves
<1> QED
  BY <1>5, <1>6 DEF IdentifyInv

(* An event gets a handler: those in flight are as they were.                *)
LEMMA OthersServe ==
  ASSUME PresenceTypeOK, IdentifyInv, NEW h \in Handlers, handler[h] = None,
         \A g \in Handlers \ {h} : handler'[g] = handler[g]
  PROVE  /\ \A u \in Users : identifying[u] # None =>
               handler'[identifying[u]] # None /\ handler'[identifying[u]].way = "full"
               /\ handler'[identifying[u]].user = u
         /\ \A g \in Handlers \ {h} : handler'[g] # None /\ handler'[g].awaits # None =>
               handler'[g].way = "reuse" /\ Serves(handler[g].awaits, handler[g].user)'
<1>1. ASSUME NEW g \in Handlers, NEW u, Serves(g, u)
      PROVE  handler'[g] # None /\ handler'[g].way = "full" /\ handler'[g].user = u
  BY <1>1 DEF Serves
<1>2. ASSUME NEW g \in Handlers \ {h}, handler'[g] # None, handler'[g].awaits # None
      PROVE  handler'[g].way = "reuse" /\ Serves(handler[g].awaits, handler[g].user)'
  <2>1. handler'[g] = handler[g] /\ handler[g].awaits \in Handlers
    BY <1>2, HandlerTyped
  <2>2. handler[g].way = "reuse" /\ Serves(handler[g].awaits, handler[g].user)
    BY <1>2, <2>1 DEF IdentifyInv
  <2> QED
    BY <1>1, <2>1, <2>2 DEF Serves
<1> QED
  BY <1>1, <1>2 DEF IdentifyInv, PresenceTypeOK

(* A handler ends: if it ran the identify named for its user, it is named no *)
(* longer, and who waited for it is woken or ends with it.                   *)
LEMMA HandlerEnds ==
  ASSUME PresenceTypeOK, IdentifyInv, NEW h \in Handlers, handler[h] # None,
         \A u \in Users : identifying'[u] \in {identifying[u], None},
         handler[h].way # "left" => identifying'[handler[h].user] = None,
         \A g \in Handlers :
           \/ handler'[g] = None
           \/ g # h /\ handler'[g] = handler[g] /\ (handler[g] # None => handler[g].awaits # h)
           \/ /\ g # h /\ handler[g] # None /\ handler[g].awaits = h
              /\ handler'[g] = [handler[g] EXCEPT !.awaits = None],
         \A g \in Handlers : g # h /\ handler'[g] = None =>
           handler[g] = None \/ handler[g].awaits = h
  PROVE  IdentifyInv'
<1>1. ASSUME NEW g \in Handlers, NEW u, Serves(g, u), g # h PROVE Serves(g, u)'
  <2>1. handler[g] # None /\ handler[g].way = "full" /\ handler[g].user = u
    BY <1>1 DEF Serves
  <2>2. handler[g].awaits = None
    BY <2>1 DEF IdentifyInv
  <2>3. handler[g].awaits # h
    BY <2>2, NoneAssumption
  <2>4. handler'[g] = handler[g]
    BY <1>1, <2>1, <2>3
  <2> QED
    BY <2>1, <2>4 DEF Serves
<1>2. ASSUME NEW u \in Users, identifying'[u] # None PROVE Serves(identifying[u], u)'
  <2>1. identifying'[u] = identifying[u] /\ identifying[u] \in Handlers
    BY <1>2 DEF PresenceTypeOK
  <2>2. Serves(identifying[u], u)
    BY <1>2, <2>1 DEF IdentifyInv
  <2>3. identifying[u] # h
    <3>1. ASSUME identifying[u] = h PROVE FALSE
      <4>1. handler[h].way = "full" /\ handler[h].user = u
        BY <2>2, <3>1 DEF Serves
      <4> QED
        BY <1>2, <4>1
    <3> QED
      BY <3>1
  <2>4. Serves(identifying[u], u)' <=>
          /\ handler'[identifying'[u]] # None /\ handler'[identifying'[u]].way = "full"
          /\ handler'[identifying'[u]].user = u
    BY DEF Serves
  <2>5. /\ handler'[identifying[u]] # None /\ handler'[identifying[u]].way = "full"
        /\ handler'[identifying[u]].user = u
    BY <1>1, <2>1, <2>2, <2>3 DEF Serves
  <2> QED
    BY <2>1, <2>4, <2>5
<1>3. ASSUME NEW g \in Handlers, handler'[g] # None, handler'[g].awaits # None
      PROVE  handler'[g].way = "reuse" /\ Serves(handler[g].awaits, handler[g].user)'
  <2>1. g # h /\ handler'[g] = handler[g] /\ handler[g] # None /\ handler[g].awaits # h
    <3>1. ASSUME handler[g] # None, handler'[g] = [handler[g] EXCEPT !.awaits = None]
          PROVE  FALSE
      BY <1>3, <3>1, HandlerTyped, HandlerWakes
    <3> QED
      BY <1>3, <3>1
  <2>2. handler[g].awaits \in Handlers
    BY <1>3, <2>1, HandlerTyped
  <2>3. handler[g].way = "reuse" /\ Serves(handler[g].awaits, handler[g].user)
    BY <1>3, <2>1 DEF IdentifyInv
  <2> QED
    BY <1>1, <2>1, <2>2, <2>3 DEF Serves
<1> QED
  BY <1>2, <1>3 DEF IdentifyInv
(* identity: the event runs the identify itself or waits for who runs it.    *)
LEMMA IdentityKeeps ==
  ASSUME PresenceTypeOK, IdentifyInv, NEW h \in Handlers, NEW s \in Sockets,
         HandleIdentity(h, s)
  PROVE  IdentifyInv'
<1> DEFINE u == Account[s]
<1>1. u \in Users /\ identifying[u] \in Handlers \cup {None} /\ handler[h] = None
  BY PresenceAssumption DEF PresenceTypeOK, HandleIdentity
<1>2. CASE identifying[u] # None
  <2>1. Start(h, "reuse", "reuse", s, identifying[u]) /\ identifying' = identifying
    BY <1>2 DEF HandleIdentity
  <2>2. /\ handler'[h].way = "reuse" /\ handler'[h].user = u
        /\ handler'[h].awaits = identifying[u]
        /\ \A g \in Handlers \ {h} : handler'[g] = handler[g]
    BY <1>1, <2>1, StartTyped
  <2>3. \A v \in Users : identifying'[v] # None => Serves(identifying[v], v)'
    BY <1>1, <2>1, <2>2, OthersServe DEF Serves
  <2>4. \A g \in Handlers \ {h} : handler'[g] # None /\ handler'[g].awaits # None =>
          handler'[g].way = "reuse" /\ Serves(handler[g].awaits, handler[g].user)'
    BY <1>1, <2>2, OthersServe
  <2>5. Serves(handler[h].awaits, handler[h].user)'
    BY <1>1, <1>2, <2>2, OthersServe DEF Serves
  <2> QED
    BY <2>2, <2>3, <2>4, <2>5 DEF IdentifyInv
<1>3. CASE identifying[u] = None
  <2>1. \/ Start(h, "mongo", "fast", s, None) /\ identifying' = identifying
        \/ Start(h, "creds", "full", s, None) /\ identifying' = [identifying EXCEPT ![u] = h]
    BY <1>3 DEF HandleIdentity
  <2>2. /\ handler'[h] # None /\ handler'[h].user = u /\ handler'[h].awaits = None
        /\ \A g \in Handlers \ {h} : handler'[g] = handler[g]
    BY <2>1, StartTyped
  <2>3. \A g \in Handlers : handler'[g] # None /\ handler'[g].awaits # None =>
          handler'[g].way = "reuse" /\ Serves(handler[g].awaits, handler[g].user)'
    BY <1>1, <2>2, OthersServe
  <2>4. \A v \in Users : identifying[v] # None =>
          /\ handler'[identifying[v]] # None /\ handler'[identifying[v]].way = "full"
          /\ handler'[identifying[v]].user = v
    BY <1>1, <2>2, OthersServe
  <2>5. CASE identifying' = identifying
    <3>1. \A v \in Users : identifying'[v] # None => Serves(identifying[v], v)'
      BY <2>4, <2>5 DEF Serves
    <3> QED
      BY <2>3, <3>1 DEF IdentifyInv
  <2>6. CASE Start(h, "creds", "full", s, None) /\ identifying' = [identifying EXCEPT ![u] = h]
    <3>1. handler'[h].way = "full"
      BY <2>6, StartTyped
    <3>2. identifying'[u] = h /\ \A v \in Users \ {u} : identifying'[v] = identifying[v]
      BY <1>1, <2>6 DEF PresenceTypeOK
    <3>3. Serves(identifying[u], u)'
      BY <2>2, <3>1, <3>2 DEF Serves
    <3>4. \A v \in Users \ {u} : identifying'[v] # None => Serves(identifying[v], v)'
      BY <2>4, <3>2 DEF Serves
    <3>5. \A v \in Users : identifying'[v] # None => Serves(identifying[v], v)'
      BY <3>3, <3>4
    <3> QED
      BY <2>3, <3>5 DEF IdentifyInv
  <2> QED
    BY <2>1, <2>5, <2>6
<1> QED
  BY <1>2, <1>3

(* A socket closes: the handler it gets waits for no one.                    *)
LEMMA DisconnectKeeps ==
  ASSUME PresenceTypeOK, IdentifyInv, NEW h \in Handlers, NEW s \in Sockets,
         HandleDisconnect(h, s)
  PROVE  IdentifyInv'
<1>1. identifying' = identifying /\ handler[h] = None
  BY DEF HandleDisconnect
<1>2. CASE meta[s] \in Users
  <2>1. Start(h, "mongo", "left", s, None)
    BY <1>2 DEF HandleDisconnect
  <2>2. handler'[h].awaits = None /\ \A g \in Handlers \ {h} : handler'[g] = handler[g]
    BY <2>1, StartTyped
  <2>3. \A v \in Users : identifying'[v] # None => Serves(identifying[v], v)'
    BY <1>1, <2>2, OthersServe DEF Serves
  <2>4. \A g \in Handlers : handler'[g] # None /\ handler'[g].awaits # None =>
          handler'[g].way = "reuse" /\ Serves(handler[g].awaits, handler[g].user)'
    BY <1>1, <2>2, OthersServe
  <2> QED
    BY <2>3, <2>4 DEF IdentifyInv
<1>3. CASE meta[s] \notin Users
  BY <1>1, <1>3 DEF HandleDisconnect, IdentifyInv, Serves
<1> QED
  BY <1>2, <1>3

(* Handlers that end, in one way or another.                                 *)
LEMMA EndingsKeep ==
  ASSUME PresenceTypeOK, IdentifyInv, NEW h \in Handlers,
         \/ FinishIdentity(h)
         \/ FinishDisconnect(h)
         \/ StatusWriteFails(h) /\ handler[h].way # "left"
  PROVE  IdentifyInv'
<1>1. handler[h] # None /\ handler[h].user \in Users
  BY HandlerTyped DEF FinishIdentity, FinishDisconnect, StatusWriteFails, HandlerAt
<1>2. /\ \A u \in Users : identifying'[u] \in {identifying[u], None}
      /\ handler[h].way # "left" => identifying'[handler[h].user] = None
  BY <1>1 DEF FinishIdentity, FinishDisconnect, StatusWriteFails, PresenceTypeOK
<1>3. CASE Settle(h)
  <2>1. ASSUME NEW g \in Handlers, handler[g] # None
        PROVE  [handler[g] EXCEPT !.awaits = None] # None
    BY <2>1, HandlerTyped, HandlerWakes, NoneAssumption
  <2>2. \A g \in Handlers :
          \/ handler'[g] = None
          \/ g # h /\ handler'[g] = handler[g] /\ (handler[g] # None => handler[g].awaits # h)
          \/ /\ g # h /\ handler[g] # None /\ handler[g].awaits = h
             /\ handler'[g] = [handler[g] EXCEPT !.awaits = None]
    BY <1>3 DEF Settle
  <2>3. \A g \in Handlers : g # h /\ handler'[g] = None =>
          handler[g] = None \/ handler[g].awaits = h
    BY <1>3, <2>1 DEF Settle
  <2> QED
    BY <1>1, <1>2, <2>2, <2>3, HandlerEnds
<1>4. CASE StatusWriteFails(h) /\ handler[h].way # "left"
  <2>1. handler' = [g \in Handlers |->
               IF g = h \/ (handler[g] # None /\ handler[g].awaits = h) THEN None
               ELSE handler[g]]
    BY <1>4 DEF StatusWriteFails
  <2>2. \A g \in Handlers :
          \/ handler'[g] = None
          \/ g # h /\ handler'[g] = handler[g] /\ (handler[g] # None => handler[g].awaits # h)
          \/ /\ g # h /\ handler[g] # None /\ handler[g].awaits = h
             /\ handler'[g] = [handler[g] EXCEPT !.awaits = None]
    BY <2>1
  <2>3. \A g \in Handlers : g # h /\ handler'[g] = None =>
          handler[g] = None \/ handler[g].awaits = h
    BY <2>1
  <2> QED
    BY <1>1, <1>2, <2>2, <2>3, HandlerEnds
<1> QED
  BY <1>3, <1>4 DEF FinishIdentity, FinishDisconnect

(* Handlers that go on.                                                      *)
LEMMA HandlersGoOn ==
  ASSUME PresenceTypeOK, IdentifyInv, NEW h \in Handlers,
         \/ ReuseIdentify(h) \/ ReadCredentials(h) \/ WriteMongo(h) \/ WriteHot(h)
         \/ TellFollowers(h) \/ (StatusWriteFails(h) /\ handler[h].way = "left")
  PROVE  IdentifyInv'
<1>1. handler[h] # None /\ identifying' = identifying
  BY DEF ReuseIdentify, ReadCredentials, WriteMongo, WriteHot, TellFollowers,
         StatusWriteFails, HandlerAt
<1>2. \E s \in {"mongo", "hot", "tell", "close"} : Proceed(h, s)
  BY DEF ReuseIdentify, ReadCredentials, WriteMongo, WriteHot, TellFollowers, StatusWriteFails
<1> QED
  BY <1>1, <1>2, OneHandlerMoves

LEMMA IdentifyKept ==
  ASSUME TypeOK, IdentifyInv, [Next]_vars
  PROVE  IdentifyInv'
<1> USE DEF TypeOK
<1>0. CASE UNCHANGED <<identifying, handler>>
  BY <1>0 DEF IdentifyInv, Serves
<1>1. ASSUME NEW s \in Sockets, HandleConnection(s) PROVE IdentifyInv'
  BY <1>0, <1>1 DEF HandleConnection
<1>2. ASSUME NEW u \in Users, HotExpires(u) PROVE IdentifyInv'
  BY <1>0, <1>2 DEF HotExpires
<1>3. ASSUME NEW h \in Handlers, HandlerStep(h) \/ StatusWriteFails(h) PROVE IdentifyInv'
  BY <1>3, HandlersGoOn, EndingsKeep DEF HandlerStep
<1>4. CASE PresenceStep
  BY <1>1, <1>2, <1>3, <1>4, IdentityKeeps, DisconnectKeeps DEF PresenceStep
<1>5. CASE Restart
  BY <1>5 DEF Restart, IdentifyInv
<1>6. CASE FollowingNext
  BY <1>0, <1>6 DEF FollowingNext, presenceVars
<1>7. CASE UNCHANGED vars
  BY <1>0, <1>7 DEF vars, presenceVars
<1> QED
  BY <1>4, <1>5, <1>6, <1>7 DEF Next

(* No event waits for an identify that has ended or that is another user's,  *)
(* and no call shares a fetch that nobody makes, whatever fails or restarts. *)
THEOREM NobodyWaitsInVain == Spec => []WaitersAreServed
<1>1. Init => FetchInv /\ IdentifyInv
  BY DEF Init, FollowingInit, PresenceInit, FetchInv, Busy, CallAt, IdentifyInv
<1>2. TypeOK /\ FetchInv /\ IdentifyInv => WaitersAreServed
  <2> SUFFICES ASSUME TypeOK, FetchInv, IdentifyInv PROVE WaitersAreServed
    OBVIOUS
  <2>1. ASSUME NEW h \in Handlers, handler[h] # None, handler[h].awaits # None
        PROVE  Serves(handler[h].awaits, handler[h].user)
    BY <2>1 DEF IdentifyInv
  <2>2. ASSUME NEW c \in Calls, CallAt(c, "share")
        PROVE  fetch # None /\ fetch # c /\ Busy(fetch)
    BY <2>2 DEF FetchInv, Busy, CallAt, FetchSteps
  <2> QED
    BY <2>1, <2>2 DEF WaitersAreServed, Serves, Busy
<1> QED
  BY <1>1, <1>2, FetchKept, IdentifyKept, PresenceTyped, PTL DEF Spec
-----------------------------------------------------------------------------
(* What the two stores say of a user.                                        *)

(* No event of u runs, and none overlapped another since one ran alone.      *)
Told(u) ==
  /\ mongo[u] = "online" <=> SocketsOf(u) # {}
  /\ hot[u] # None => hot[u] = StatusInDb(u)

(* How far the one event of its user has come that met no other.             *)
Underway(h) ==
  LET x == handler[h] IN
  /\ x.step # "reuse"
  /\ IF x.way = "left" THEN SocketsOf(x.user) = {} ELSE x.sock \in SocketsOf(x.user)
  /\ x.step \in {"hot", "tell", "close"} => mongo[x.user] = StatusOf(h)
  /\ x.step \in {"tell", "close"} => hot[x.user] \in {None, StatusOf(h)}

UserInv(u) ==
  /\ Handling(u) = {} => Told(u)
  /\ \A h \in Handling(u) : Handling(u) = {h} /\ Underway(h)

(* Sockets are used by the account they belong to, and one whose disconnect  *)
(* is being handled is closed.                                               *)
SocketInv ==
  /\ \A s \in Sockets : meta[s] \in Users => meta[s] = Account[s]
  /\ \A h \in Handlers : handler[h] # None =>
       /\ handler[h].user = Account[handler[h].sock]
       /\ handler[h].way = "left" => handler[h].sock \notin open

StatusInv == SocketInv /\ \A u \in Users \ unsure : UserInv(u)

(* What a step does to handler g, as far as user u is concerned.             *)
SameFor(u, g) ==
  \/ /\ handler[g] # None /\ handler'[g] # None
     /\ handler'[g].user = handler[g].user /\ handler'[g].way = handler[g].way
     /\ handler'[g].step = handler[g].step /\ handler'[g].sock = handler[g].sock
  \/ /\ handler[g] # None => handler[g].user # u
     /\ handler'[g] # None => handler'[g].user # u

(* A step that concerns other users.                                         *)
LEMMA OthersKept ==
  ASSUME PresenceTypeOK, NEW u \in Users, UserInv(u),
         \A g \in Handlers : SameFor(u, g),
         SocketsOf(u)' = SocketsOf(u),
         mongo'[u] = mongo[u], hot'[u] \in {hot[u], None, StatusInDb(u)}
  PROVE  UserInv(u)'
<1>1. Handling(u)' = Handling(u)
  BY DEF Handling, SameFor
<1>2. StatusInDb(u)' = StatusInDb(u)
  BY DEF StatusInDb
<1>3. CASE Handling(u) = {}
  BY <1>1, <1>2, <1>3 DEF UserInv, Told
<1>4. ASSUME NEW h \in Handling(u)
      PROVE  Underway(h)'
  <2>1. /\ handler[h] # None /\ handler[h].user = u /\ Underway(h)
        /\ handler'[h].user = u /\ handler'[h].way = handler[h].way
        /\ handler'[h].step = handler[h].step /\ handler'[h].sock = handler[h].sock
    BY <1>4 DEF Handling, SameFor, UserInv
  <2>2. StatusOf(h)' = StatusOf(h) /\ StatusOf(h) \in Status
    BY <2>1 DEF StatusOf, Status
  <2>3. handler[h].step \in {"hot", "tell", "close"} => StatusInDb(u) = StatusOf(h)
    BY <2>1, <2>2, NoneAssumption DEF Underway, StatusInDb
  <2> QED
    BY <2>1, <2>2, <2>3 DEF Underway
<1> QED
  BY <1>1, <1>3, <1>4 DEF UserInv

(* The fields a handler starts with, and the ones a step keeps.              *)
LEMMA StartSays ==
  ASSUME PresenceTypeOK, NEW h \in Handlers, NEW t \in Sockets,
         NEW s, NEW w, NEW o, Start(h, s, w, t, o), handler'[h] # None
  PROVE  /\ handler'[h].step = s /\ handler'[h].way = w
         /\ handler'[h].sock = t /\ handler'[h].user = Account[t]
         /\ \A g \in Handlers \ {h} : handler'[g] = handler[g]
BY DEF Start, PresenceTypeOK

LEMMA ProceedSays ==
  ASSUME PresenceTypeOK, NEW h \in Handlers, handler[h] # None,
         NEW s \in {"reuse", "creds", "mongo", "hot", "tell", "close"}, Proceed(h, s)
  PROVE  /\ handler'[h] # None /\ handler'[h].step = s
         /\ handler'[h].way = handler[h].way /\ handler'[h].user = handler[h].user
         /\ handler'[h].sock = handler[h].sock
         /\ \A g \in Handlers \ {h} : handler'[g] = handler[g]
<1> DEFINE y == [handler[h] EXCEPT !.step = s]
<1>1. handler[h] \in Handler
  BY HandlerTyped
<1>2. /\ y \in Handler /\ y.step = s /\ y.way = handler[h].way
      /\ y.user = handler[h].user /\ y.sock = handler[h].sock
  BY <1>1 DEF Handler
<1>3. handler' = [handler EXCEPT ![h] = y]
  BY DEF Proceed
<1> HIDE DEF y
<1> QED
  BY <1>2, <1>3, NoneAssumption DEF PresenceTypeOK

LEMMA SettleSays ==
  ASSUME PresenceTypeOK, NEW h \in Handlers, Settle(h)
  PROVE  /\ handler'[h] = None
         /\ \A g \in Handlers \ {h} :
              /\ handler[g] = None => handler'[g] = None
              /\ handler[g] # None =>
                   /\ handler'[g] # None /\ handler'[g].step = handler[g].step
                   /\ handler'[g].way = handler[g].way
                   /\ handler'[g].user = handler[g].user
                   /\ handler'[g].sock = handler[g].sock
<1>1. handler'[h] = None
  BY DEF Settle
<1>2. ASSUME NEW g \in Handlers \ {h}, handler[g] = None
      PROVE  handler'[g] = None
  BY <1>2 DEF Settle
<1>3. ASSUME NEW g \in Handlers \ {h}, handler[g] # None
      PROVE  /\ handler'[g] # None /\ handler'[g].step = handler[g].step
             /\ handler'[g].way = handler[g].way
             /\ handler'[g].user = handler[g].user
             /\ handler'[g].sock = handler[g].sock
  <2> DEFINE y == [handler[g] EXCEPT !.awaits = None]
  <2>1. handler[g] \in Handler
    BY <1>3, HandlerTyped
  <2>2. /\ y \in Handler /\ y.step = handler[g].step /\ y.way = handler[g].way
        /\ y.user = handler[g].user /\ y.sock = handler[g].sock
    BY <2>1 DEF Handler
  <2>3. handler'[g] \in {y, handler[g]}
    BY <1>3 DEF Settle
  <2> HIDE DEF y
  <2> QED
    BY <1>3, <2>2, <2>3, NoneAssumption
<1> QED
  BY <1>1, <1>2, <1>3

(* The one event of a user who is sure to have met no other.                 *)
LEMMA Alone ==
  ASSUME PresenceTypeOK, StatusInv, NEW h \in Handlers, handler[h] # None,
         handler[h].user \notin unsure
  PROVE  Handling(handler[h].user) = {h} /\ Underway(h)
<1>1. handler[h].user \in Users /\ h \in Handling(handler[h].user)
  BY HandlerTyped DEF Handling
<1> QED
  BY <1>1 DEF StatusInv, UserInv

(* Which sockets show a user once one socket has changed hands.              *)
LEMMA SocketsSame ==
  ASSUME PresenceTypeOK, NEW u, NEW s \in Sockets,
         \A t \in Sockets \ {s} : (t \in open' <=> t \in open) /\ meta'[t] = meta[t],
         open' \subseteq Sockets,
         (s \in open' /\ meta'[s] = u) <=> (s \in open /\ meta[s] = u)
  PROVE  SocketsOf(u)' = SocketsOf(u)
<1>1. open \subseteq Sockets
  BY DEF PresenceTypeOK
<1>2. \A t \in Sockets : (t \in open' /\ meta'[t] = u) <=> (t \in open /\ meta[t] = u)
  OBVIOUS
<1>3. SocketsOf(u)' = {t \in open' : meta'[t] = u}
  BY DEF SocketsOf
<1> QED
  BY <1>1, <1>2, <1>3 DEF SocketsOf

(* A handler takes a step and no socket opens, closes or changes hands.      *)
LEMMA OneSteps ==
  ASSUME PresenceTypeOK, StatusInv, NEW h \in Handlers, handler[h] # None,
         NEW s \in {"reuse", "creds", "mongo", "hot", "tell", "close"}, Proceed(h, s),
         UNCHANGED <<open, meta>>, unsure \subseteq unsure',
         \A v \in Users \ {handler[h].user} : mongo'[v] = mongo[v] /\ hot'[v] = hot[v],
         handler[h].user \notin unsure' /\ Underway(h) => Underway(h)'
  PROVE  StatusInv'
<1> DEFINE x == handler[h].user
<1>1. /\ handler'[h] # None /\ handler'[h].step = s
      /\ handler'[h].way = handler[h].way /\ handler'[h].user = handler[h].user
      /\ handler'[h].sock = handler[h].sock
      /\ \A g \in Handlers \ {h} : handler'[g] = handler[g]
  BY ProceedSays
<1>2. SocketInv'
  BY <1>1 DEF StatusInv, SocketInv
<1>3. \A v : SocketsOf(v)' = SocketsOf(v)
  BY DEF SocketsOf
<1>4. ASSUME NEW v \in Users \ unsure', v # x
      PROVE  UserInv(v)'
  <2>1. \A g \in Handlers : SameFor(v, g)
    BY <1>1, <1>4 DEF SameFor
  <2>2. UserInv(v) /\ mongo'[v] = mongo[v] /\ hot'[v] = hot[v]
    BY <1>4 DEF StatusInv
  <2> QED
    BY <1>3, <2>1, <2>2, OthersKept
<1>5. CASE x \notin unsure'
  <2>1. Handling(x) = {h} /\ Underway(h)
    BY <1>5, Alone
  <2>2. PICK w \in Users : w = x
    BY HandlerTyped
  <2>3. Handling(w)' = {h}
    BY <1>1, <2>1, <2>2 DEF Handling
  <2>4. Underway(h)'
    BY <1>5, <2>1
  <2>5. UserInv(w)'
    BY <2>3, <2>4 DEF UserInv
  <2> QED
    BY <1>2, <1>4, <2>2, <2>5 DEF StatusInv
<1>6. CASE x \in unsure'
  BY <1>2, <1>4, <1>6 DEF StatusInv
<1> QED
  BY <1>5, <1>6

(* A handler ends after its last step.                                       *)
LEMMA OneEnds ==
  ASSUME PresenceTypeOK, StatusInv, NEW h \in Handlers, HandlerAt(h, "close"),
         Settle(h), UNCHANGED <<open, mongo, hot, unsure>>,
         \A v \in Users : SocketsOf(v)' = SocketsOf(v),
         \A s \in Sockets : meta'[s] \in {meta[s], None}
  PROVE  StatusInv'
<1> DEFINE x == handler[h].user
<1>h. handler[h] # None /\ handler[h].step = "close"
  BY DEF HandlerAt
<1>1. /\ handler'[h] = None
      /\ \A g \in Handlers \ {h} :
           /\ handler[g] = None => handler'[g] = None
           /\ handler[g] # None =>
                /\ handler'[g] # None /\ handler'[g].step = handler[g].step
                /\ handler'[g].way = handler[g].way
                /\ handler'[g].user = handler[g].user
                /\ handler'[g].sock = handler[g].sock
  BY SettleSays
<1>2. SocketInv'
  BY <1>1, NoneAssumption DEF StatusInv, SocketInv
<1>3. x \in Users /\ StatusOf(h) \in Status
  BY <1>h, HandlerTyped
<1>4. ASSUME NEW v \in Users \ unsure', v # x
      PROVE  UserInv(v)'
  <2>1. \A g \in Handlers : SameFor(v, g)
    BY <1>1, <1>4 DEF SameFor
  <2>2. UserInv(v)
    BY <1>4 DEF StatusInv
  <2> QED
    BY <2>1, <2>2, OthersKept
<1>5. ASSUME NEW v \in Users \ unsure', v = x
      PROVE  UserInv(v)'
  <2>1. Handling(v) = {h} /\ Underway(h)
    BY <1>h, <1>5, Alone
  <2>2. Handling(v)' = {}
    BY <1>1, <2>1 DEF Handling
  <2>3. /\ mongo[v] = StatusOf(h) /\ hot[v] \in {None, StatusOf(h)}
        /\ IF handler[h].way = "left" THEN SocketsOf(v) = {} ELSE handler[h].sock \in SocketsOf(v)
    BY <1>h, <1>5, <2>1 DEF Underway
  <2>4. mongo[v] = "online" <=> SocketsOf(v) # {}
    BY <2>3 DEF StatusOf
  <2>5. hot[v] # None => hot[v] = StatusInDb(v)
    BY <1>3, <2>3, NoneAssumption DEF StatusInDb
  <2>6. Told(v)'
    BY <2>4, <2>5 DEF Told, StatusInDb
  <2> QED
    BY <2>2, <2>6 DEF UserInv
<1> QED
  BY <1>2, <1>4, <1>5 DEF StatusInv

LEMMA StepsKeepStatus ==
  ASSUME PresenceTypeOK, StatusInv, NEW h \in Handlers, HandlerStep(h)
  PROVE  StatusInv'
<1>1. \A v : UNCHANGED <<open, meta>> => SocketsOf(v)' = SocketsOf(v)
  BY DEF SocketsOf
<1>h. handler[h] # None => /\ handler[h].user \in Users /\ handler[h].sock \in Sockets
                           /\ StatusOf(h) \in Status
  BY HandlerTyped
<1>s. /\ mongo \in [Users -> Status \cup {None}] /\ hot \in [Users -> Status \cup {None}]
      /\ meta \in [Sockets -> Users \cup {"nobody", None}]
  BY DEF PresenceTypeOK
<1>2. CASE ReadCredentials(h)
  <2>1. handler[h] # None /\ Proceed(h, "mongo")
    BY <1>2 DEF ReadCredentials, HandlerAt
  <2>2. /\ handler'[h].step = "mongo" /\ handler'[h].way = handler[h].way
        /\ handler'[h].user = handler[h].user /\ handler'[h].sock = handler[h].sock
    BY <2>1, ProceedSays
  <2>3. Underway(h) => Underway(h)'
    BY <1>1, <1>2, <2>2 DEF ReadCredentials, Underway
  <2> QED
    BY <1>2, <2>1, <2>3, OneSteps DEF ReadCredentials
<1>3. CASE WriteMongo(h)
  <2>1. handler[h] # None /\ Proceed(h, "hot")
    BY <1>3 DEF WriteMongo, HandlerAt
  <2>2. /\ handler'[h].step = "hot" /\ handler'[h].way = handler[h].way
        /\ handler'[h].user = handler[h].user /\ handler'[h].sock = handler[h].sock
    BY <2>1, ProceedSays
  <2>3. /\ mongo'[handler[h].user] = StatusOf(h) /\ StatusOf(h)' = StatusOf(h)
        /\ \A v \in Users \ {handler[h].user} : mongo'[v] = mongo[v]
    BY <1>3, <1>h, <1>s, <2>1, <2>2 DEF WriteMongo, StatusOf
  <2>4. Underway(h) => Underway(h)'
    BY <1>1, <1>3, <2>2, <2>3 DEF WriteMongo, Underway
  <2> QED
    BY <1>3, <2>1, <2>3, <2>4, OneSteps DEF WriteMongo
<1>4. CASE WriteHot(h)
  <2>1. PICK s \in {"tell", "close"} : Proceed(h, s)
    BY <1>4 DEF WriteHot
  <2>2. handler[h] # None /\ handler[h].step = "hot"
    BY <1>4 DEF WriteHot, HandlerAt
  <2>3. /\ handler'[h].step = s /\ handler'[h].way = handler[h].way
        /\ handler'[h].user = handler[h].user /\ handler'[h].sock = handler[h].sock
    BY <2>1, <2>2, ProceedSays
  <2>4. /\ hot'[handler[h].user] = StatusOf(h) /\ StatusOf(h)' = StatusOf(h)
        /\ \A v \in Users \ {handler[h].user} : hot'[v] = hot[v]
    BY <1>4, <1>h, <1>s, <2>2, <2>3 DEF WriteHot, StatusOf
  <2>5. Underway(h) => Underway(h)'
    BY <1>1, <1>4, <2>2, <2>3, <2>4 DEF WriteHot, Underway
  <2> QED
    BY <1>4, <2>1, <2>2, <2>4, <2>5, OneSteps DEF WriteHot
<1>5. CASE TellFollowers(h)
  <2>1. handler[h] # None /\ handler[h].step = "tell" /\ Proceed(h, "close")
    BY <1>5 DEF TellFollowers, HandlerAt
  <2>2. /\ handler'[h].step = "close" /\ handler'[h].way = handler[h].way
        /\ handler'[h].user = handler[h].user /\ handler'[h].sock = handler[h].sock
    BY <2>1, ProceedSays
  <2>3. Underway(h) => Underway(h)'
    BY <1>1, <1>5, <2>1, <2>2 DEF TellFollowers, Underway, StatusOf
  <2> QED
    BY <1>5, <2>1, <2>3, OneSteps DEF TellFollowers
<1>6. CASE FinishIdentity(h)
  BY <1>1, <1>6, OneEnds DEF FinishIdentity
<1>7. CASE FinishDisconnect(h)
  <2>1. /\ handler[h] # None /\ handler[h].way = "left" /\ HandlerAt(h, "close") /\ Settle(h)
        /\ meta' = [meta EXCEPT ![handler[h].sock] = None]
        /\ UNCHANGED <<open, mongo, hot, unsure>>
    BY <1>7 DEF FinishDisconnect, HandlerAt
  <2>2. handler[h].sock \notin open
    BY <2>1 DEF StatusInv, SocketInv
  <2>3. \A v \in Users : SocketsOf(v)' = SocketsOf(v)
    BY <1>h, <1>s, <2>1, <2>2 DEF SocketsOf, PresenceTypeOK
  <2>4. \A s \in Sockets : meta'[s] \in {meta[s], None}
    BY <1>s, <2>1
  <2> QED
    BY <2>1, <2>3, <2>4, OneEnds
<1>8. CASE ReuseIdentify(h)
  <2> DEFINE x == handler[h].user
             k == handler[h].sock
  <2>1. /\ handler[h] # None /\ handler[h].step = "reuse" /\ Proceed(h, "mongo")
        /\ meta' = [meta EXCEPT ![k] = x]
        /\ UNCHANGED <<open, mongo, hot, unsure>>
    BY <1>8 DEF ReuseIdentify, HandlerAt
  <2>2. x \in unsure
    BY <2>1, Alone DEF Underway
  <2>3. /\ \A g \in Handlers \ {h} : handler'[g] = handler[g]
        /\ handler'[h] # None /\ handler'[h].user = x
        /\ handler'[h].way = handler[h].way /\ handler'[h].sock = k
    BY <2>1, ProceedSays
  <2>4. x = Account[k] /\ x \in Users /\ k \in Sockets /\ (meta[k] \in Users => meta[k] = x)
    BY <1>h, <2>1 DEF StatusInv, SocketInv
  <2> HIDE DEF x, k
  <2>5. SocketInv'
    BY <1>s, <2>1, <2>3, <2>4 DEF StatusInv, SocketInv, x, k
  <2>6. ASSUME NEW v \in Users \ unsure'
        PROVE  UserInv(v)'
    <3>1. v # x /\ UserInv(v)
      BY <2>1, <2>2, <2>6 DEF StatusInv
    <3>2. SocketsOf(v)' = SocketsOf(v)
      BY <1>s, <2>1, <2>4, <3>1 DEF SocketsOf, PresenceTypeOK
    <3>3. \A g \in Handlers : SameFor(v, g)
      BY <2>3, <3>1 DEF SameFor, x
    <3> QED
      BY <2>1, <3>1, <3>2, <3>3, OthersKept
  <2> QED
    BY <2>5, <2>6 DEF StatusInv
<1> QED
  BY <1>2, <1>3, <1>4, <1>5, <1>6, <1>7, <1>8 DEF HandlerStep

(* A socket opens, with no one identified on it.                             *)
LEMMA ConnectionKeepsStatus ==
  ASSUME PresenceTypeOK, StatusInv, NEW s \in Sockets, HandleConnection(s)
  PROVE  StatusInv'
<1>1. /\ meta \in [Sockets -> Users \cup {"nobody", None}] /\ open \subseteq Sockets
      /\ s \notin open /\ open' = open \cup {s} /\ meta' = [meta EXCEPT ![s] = "nobody"]
      /\ \A h \in Handlers : handler[h] # None => handler[h].sock # s
      /\ UNCHANGED <<mongo, hot, handler, unsure>>
  BY DEF HandleConnection, PresenceTypeOK
<1>2. SocketInv'
  BY <1>1, NoneAssumption DEF StatusInv, SocketInv
<1>3. ASSUME NEW v \in Users \ unsure'
      PROVE  UserInv(v)'
  <2>1. SocketsOf(v)' = SocketsOf(v)
    BY <1>1, NoneAssumption, SocketsSame
  <2>2. UserInv(v) /\ \A g \in Handlers : SameFor(v, g)
    BY <1>1, <1>3 DEF StatusInv, SameFor
  <2> QED
    BY <1>1, <2>1, <2>2, OthersKept
<1> QED
  BY <1>2, <1>3 DEF StatusInv

(* An event of user u gets handler h: what that does to the other users.     *)
LEMMA OthersStart ==
  ASSUME PresenceTypeOK, StatusInv, NEW h \in Handlers, NEW u \in Users,
         handler[h] = None, handler'[h] # None, handler'[h].user = u,
         \A g \in Handlers \ {h} : handler'[g] = handler[g],
         mongo' = mongo, hot' = hot,
         NEW v \in Users, v \notin unsure, v # u, SocketsOf(v)' = SocketsOf(v)
  PROVE  UserInv(v)'
<1>1. \A g \in Handlers : SameFor(v, g)
  BY DEF SameFor
<1>2. UserInv(v)
  BY DEF StatusInv
<1> QED
  BY <1>1, <1>2, OthersKept

(* ... and to the user, who has no other event in flight.                    *)
LEMMA OneStarts ==
  ASSUME PresenceTypeOK, NEW h \in Handlers, NEW u \in Users, Handling(u) = {},
         handler'[h] # None, handler'[h].user = u,
         \A g \in Handlers \ {h} : handler'[g] = handler[g],
         Underway(h)'
  PROVE  UserInv(u)'
<1>1. Handling(u)' = {h}
  BY DEF Handling
<1> QED
  BY <1>1 DEF UserInv

(* An identity event: who waits for an identify has met one.                 *)
LEMMA IdentityKeepsStatus ==
  ASSUME PresenceTypeOK, StatusInv, IdentifyInv, NEW h \in Handlers, NEW s \in Sockets,
         HandleIdentity(h, s)
  PROVE  StatusInv'
<1>p. PICK u \in Users : u = Account[s]
  BY PresenceAssumption
<1>1. /\ meta \in [Sockets -> Users \cup {"nobody", None}] /\ open \subseteq Sockets
      /\ handler[h] = None /\ s \in open /\ Meets(u, {})
      /\ UNCHANGED <<open, mongo, hot>>
      /\ meta[s] \in Users => meta[s] = u
  BY <1>p DEF HandleIdentity, PresenceTypeOK, StatusInv, SocketInv
<1>2. CASE identifying[u] # None
  <2>1. Start(h, "reuse", "reuse", s, identifying[u]) /\ UNCHANGED meta
    BY <1>2, <1>p DEF HandleIdentity
  <2>2. identifying[u] \in Handlers /\ Serves(identifying[u], u)
    BY <1>2 DEF IdentifyInv, PresenceTypeOK
  <2>3. Handling(u) # {}
    BY <2>2 DEF Serves, Handling
  <2>4. unsure' = unsure \cup {u}
    BY <1>1, <2>3 DEF Meets
  <2>5. handler'[h] # None
    BY <2>1, <2>2, StartTyped
  <2>6. /\ handler'[h].way = "reuse" /\ handler'[h].sock = s /\ handler'[h].user = u
        /\ \A g \in Handlers \ {h} : handler'[g] = handler[g]
    BY <1>p, <2>1, <2>5, StartSays
  <2>7. SocketInv'
    BY <1>1, <1>p, <2>1, <2>6 DEF StatusInv, SocketInv
  <2>8. ASSUME NEW v \in Users \ unsure'
        PROVE  UserInv(v)'
    <3>1. SocketsOf(v)' = SocketsOf(v)
      BY <1>1, <2>1 DEF SocketsOf
    <3> QED
      BY <1>1, <2>4, <2>5, <2>6, <2>8, <3>1, OthersStart
  <2> QED
    BY <2>7, <2>8 DEF StatusInv
<1>3. CASE identifying[u] = None
  <2>1. /\ meta' = [meta EXCEPT ![s] = u]
        /\ \/ Start(h, "mongo", "fast", s, None)
           \/ Start(h, "creds", "full", s, None)
    BY <1>3, <1>p DEF HandleIdentity
  <2>2. handler'[h] # None
    BY <2>1, StartTyped
  <2>3. /\ handler'[h].step \in {"mongo", "creds"} /\ handler'[h].way \in {"fast", "full"}
        /\ handler'[h].sock = s /\ handler'[h].user = u
        /\ \A g \in Handlers \ {h} : handler'[g] = handler[g]
    BY <1>p, <2>1, <2>2, StartSays
  <2>4. SocketInv'
    BY <1>1, <1>p, <2>1, <2>3 DEF StatusInv, SocketInv
  <2>5. unsure \subseteq unsure' \cup {u} /\ (u \notin unsure' => Handling(u) = {})
    BY <1>1 DEF Meets
  <2>6. ASSUME NEW v \in Users \ unsure', v # u
        PROVE  UserInv(v)'
    <3>1. SocketsOf(v)' = SocketsOf(v)
      BY <1>1, <2>1, <2>6, SocketsSame
    <3> QED
      BY <1>1, <2>2, <2>3, <2>5, <2>6, <3>1, OthersStart
  <2>7. ASSUME u \notin unsure'
        PROVE  UserInv(u)'
    <3>1. s \in SocketsOf(u)'
      BY <1>1, <2>1 DEF SocketsOf
    <3>2. Underway(h)'
      BY <2>3, <3>1 DEF Underway
    <3> QED
      BY <2>2, <2>3, <2>5, <2>7, <3>2, OneStarts
  <2> QED
    BY <2>4, <2>6, <2>7 DEF StatusInv
<1> QED
  BY <1>2, <1>3

(* A socket closes: if a user was identified on it and has no other, an      *)
(* event that meets no other sets the user offline.                          *)
LEMMA DisconnectKeepsStatus ==
  ASSUME PresenceTypeOK, StatusInv, NEW h \in Handlers, NEW s \in Sockets,
         HandleDisconnect(h, s)
  PROVE  StatusInv'
<1>p. PICK u \in Users : u = Account[s]
  BY PresenceAssumption
<1>1. /\ meta \in [Sockets -> Users \cup {"nobody", None}] /\ open \subseteq Sockets
      /\ handler[h] = None /\ s \in open /\ open' = open \ {s}
      /\ UNCHANGED <<mongo, hot>>
      /\ meta[s] \in Users => meta[s] = u
  BY <1>p DEF HandleDisconnect, PresenceTypeOK, StatusInv, SocketInv
<1>2. CASE meta[s] \in Users
  <2>1. /\ meta[s] = u /\ UNCHANGED meta
        /\ Start(h, "mongo", "left", s, None) /\ Meets(u, SocketsOf(u) \ {s})
    BY <1>1, <1>2 DEF HandleDisconnect
  <2>2. handler'[h] # None
    BY <2>1, StartTyped
  <2>3. /\ handler'[h].step = "mongo" /\ handler'[h].way = "left"
        /\ handler'[h].sock = s /\ handler'[h].user = u
        /\ \A g \in Handlers \ {h} : handler'[g] = handler[g]
    BY <1>p, <2>1, <2>2, StartSays
  <2>4. SocketInv'
    BY <1>1, <1>p, <2>1, <2>3 DEF StatusInv, SocketInv
  <2>5. /\ unsure \subseteq unsure' \cup {u}
        /\ u \notin unsure' => Handling(u) = {} /\ SocketsOf(u) \ {s} = {}
    BY <2>1 DEF Meets
  <2>6. ASSUME NEW v \in Users \ unsure', v # u
        PROVE  UserInv(v)'
    <3>1. SocketsOf(v)' = SocketsOf(v)
      BY <1>1, <2>1, <2>6, SocketsSame
    <3> QED
      BY <1>1, <2>2, <2>3, <2>5, <2>6, <3>1, OthersStart
  <2>7. ASSUME u \notin unsure'
        PROVE  UserInv(u)'
    <3>1. SocketsOf(u)' = {}
      BY <1>1, <2>1, <2>5, <2>7 DEF SocketsOf
    <3>2. Underway(h)'
      BY <2>3, <3>1 DEF Underway
    <3> QED
      BY <2>2, <2>3, <2>5, <2>7, <3>2, OneStarts
  <2> QED
    BY <2>4, <2>6, <2>7 DEF StatusInv
<1>3. CASE meta[s] \notin Users
  <2>1. meta' = [meta EXCEPT ![s] = None] /\ UNCHANGED handler /\ unsure \subseteq unsure'
    BY <1>3 DEF HandleDisconnect
  <2>2. SocketInv'
    BY <1>1, <2>1, NoneAssumption DEF StatusInv, SocketInv
  <2>3. ASSUME NEW v \in Users \ unsure'
        PROVE  UserInv(v)'
    <3>1. SocketsOf(v)' = SocketsOf(v)
      BY <1>1, <1>3, <2>1, SocketsSame
    <3>2. UserInv(v) /\ \A g \in Handlers : SameFor(v, g)
      BY <2>1, <2>3 DEF StatusInv, SameFor
    <3> QED
      BY <1>1, <3>1, <3>2, OthersKept
  <2> QED
    BY <2>2, <2>3 DEF StatusInv
<1> QED
  BY <1>2, <1>3

(* One of the two writes fails: the user is unsure, and whoever ends with    *)
(* the identify waited for it on behalf of the same user.                    *)
LEMMA FailureKeepsStatus ==
  ASSUME PresenceTypeOK, StatusInv, IdentifyInv, NEW h \in Handlers, StatusWriteFails(h)
  PROVE  StatusInv'
<1>1. /\ handler[h] # None /\ unsure' = unsure \cup {handler[h].user}
      /\ UNCHANGED <<open, meta, mongo, hot>>
  BY DEF StatusWriteFails
<1>2. CASE handler[h].way = "left"
  BY <1>1, <1>2, OneSteps DEF StatusWriteFails
<1>3. CASE handler[h].way # "left"
  <2>1. handler' = [g \in Handlers |->
          IF g = h \/ (handler[g] # None /\ handler[g].awaits = h) THEN None ELSE handler[g]]
    BY <1>3 DEF StatusWriteFails
  <2>2. ASSUME NEW g \in Handlers, handler[g] # None, handler[g].awaits = h
        PROVE  handler[g].user = handler[h].user
    <3>1. h # None
      BY NoneAssumption
    <3> QED
      BY <2>2, <3>1 DEF IdentifyInv, Serves
  <2>3. SocketInv'
    BY <1>1, <2>1 DEF StatusInv, SocketInv
  <2>4. ASSUME NEW v \in Users \ unsure'
        PROVE  UserInv(v)'
    <3>1. v # handler[h].user /\ UserInv(v)
      BY <1>1, <2>4 DEF StatusInv
    <3>2. \A g \in Handlers : SameFor(v, g)
      BY <2>1, <2>2, <3>1 DEF SameFor
    <3>3. SocketsOf(v)' = SocketsOf(v)
      BY <1>1 DEF SocketsOf
    <3> QED
      BY <1>1, <3>1, <3>2, <3>3, OthersKept
  <2> QED
    BY <2>3, <2>4 DEF StatusInv
<1> QED
  BY <1>2, <1>3

(* The key of a user expires, or a page that was fetched writes it.          *)
LEMMA KeysKeepStatus ==
  ASSUME PresenceTypeOK, StatusInv, UNCHANGED <<open, meta, mongo, handler>>,
         unsure \subseteq unsure',
         \A v \in Users \ unsure' : hot'[v] \in {hot[v], None, StatusInDb(v)}
  PROVE  StatusInv'
<1>1. SocketInv'
  BY DEF StatusInv, SocketInv
<1>2. ASSUME NEW v \in Users \ unsure'
      PROVE  UserInv(v)'
  <2>1. SocketsOf(v)' = SocketsOf(v)
    BY DEF SocketsOf
  <2>2. UserInv(v) /\ \A g \in Handlers : SameFor(v, g)
    BY <1>2 DEF StatusInv, SameFor
  <2> QED
    BY <1>2, <2>1, <2>2, OthersKept
<1> QED
  BY <1>1, <1>2 DEF StatusInv

LEMMA StatusKept ==
  ASSUME TypeOK, IdentifyInv, StatusInv, [Next]_vars
  PROVE  StatusInv'
<1> USE DEF TypeOK
<1>1. CASE PresenceStep
  <2>1. ASSUME NEW u \in Users, HotExpires(u) PROVE StatusInv'
    <3>1. \A v \in Users : hot'[v] \in {hot[v], None, StatusInDb(v)}
      BY <2>1 DEF HotExpires, PresenceTypeOK
    <3> QED
      BY <2>1, <3>1, KeysKeepStatus DEF HotExpires
  <2> QED
    BY <1>1, <2>1, ConnectionKeepsStatus, IdentityKeepsStatus, DisconnectKeepsStatus,
       StepsKeepStatus, FailureKeepsStatus DEF PresenceStep
<1>2. CASE Restart
  <2>1. unsure' = Users /\ \A s \in Sockets : meta'[s] \notin Users
    BY <1>2, NoneAssumption DEF Restart
  <2>2. \A h \in Handlers : handler'[h] = None
    BY <1>2 DEF Restart
  <2> QED
    BY <2>1, <2>2 DEF StatusInv, SocketInv
<1>3. CASE UNCHANGED presenceVars
  BY <1>3, KeysKeepStatus DEF presenceVars
<1>4. ASSUME NEW c \in Calls, SynchronizeHotCache(c),
             UNCHANGED <<open, meta, mongo, identifying, recent, handler, events, restarts>>
      PROVE  StatusInv'
  <2>1. \A v \in Users \ unsure' : hot'[v] \in {hot[v], None, StatusInDb(v)}
    BY <1>4 DEF SynchronizeHotCache
  <2>2. unsure \subseteq unsure'
    BY <1>4 DEF SynchronizeHotCache
  <2> QED
    BY <1>4, <2>1, <2>2, KeysKeepStatus
<1>5. CASE UNCHANGED vars
  BY <1>3, <1>5 DEF vars
<1> QED
  BY <1>1, <1>2, <1>3, <1>4, <1>5 DEF Next, FollowingNext

LEMMA StatusStarts ==
  ASSUME Init PROVE IdentifyInv /\ StatusInv
<1>1. IdentifyInv
  BY DEF Init, PresenceInit, IdentifyInv
<1>2. SocketInv
  BY NoneAssumption DEF Init, PresenceInit, SocketInv
<1>3. ASSUME NEW u \in Users PROVE UserInv(u)
  <2>1. Handling(u) = {} /\ SocketsOf(u) = {}
    BY DEF Init, PresenceInit, Handling, SocketsOf
  <2>2. mongo[u] = None /\ hot[u] = None /\ None # "online"
    BY NoneAssumption DEF Init, PresenceInit, Status
  <2> QED
    BY <2>1, <2>2 DEF UserInv, Told
<1> QED
  BY <1>1, <1>2, <1>3 DEF StatusInv

LEMMA StatusAlways == Spec => [](TypeOK /\ StatusInv)
BY StatusStarts, StatusKept, IdentifyKept, PresenceTyped, PTL DEF Spec

(* setUserOnline, setUserOffline: once the last event of a user that met no  *)
(* other event of the user has ended, the document says online exactly when  *)
(* the user is identified on a socket that is open.                          *)
THEOREM StatusIsTrue == Spec => []StatusTrue
<1>1. TypeOK /\ StatusInv => StatusTrue
  BY DEF TypeOK, PresenceTypeOK, StatusInv, UserInv, Told, StatusTrue, Settled
<1> QED
  BY <1>1, StatusAlways, PTL

(* ... and the key in redis, if it is there, says what the document says,    *)
(* whoever wrote it last: an event or the page of a viewer.                  *)
THEOREM StoresNeverContradict == Spec => []StoresAgree
<1>1. TypeOK /\ StatusInv => StoresAgree
  BY DEF TypeOK, PresenceTypeOK, StatusInv, UserInv, Told, StoresAgree, Settled
<1> QED
  BY <1>1, StatusAlways, PTL
=============================================================================
