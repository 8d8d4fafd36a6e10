---------------------------------- MODULE Messaging ----------------------------------
(***************************************************************************)
(* One room of either kind, its readers and its writers: a channel of a    *)
(* server or a conversation of two.  The two services share no document    *)
(* and no cache key, so a room is of one kind for ever.                    *)
(***************************************************************************)
EXTENDS ChannelMessages, DirectMessages

CONSTANTS
  Readership,   \* which pages each request may ask for, one of these at a time
  MaxCrashes,   \* bounds how often the process is restarted
  Histories,    \* histories whose paging is checked
  Followings    \* followed people, likewise

ASSUME ReadershipAssumption ==
  Readership \subseteq [Requests -> SUBSET Pages] /\ MaxCrashes \in Nat
ASSUME HistoriesAssumption == Histories \subseteq Seq([at : Nat])
ASSUME FollowingsAssumption == Followings \subseteq Seq([name : Nat, last : Nat])

VARIABLES
  kind,    \* "channel" or "direct"
  asks,    \* asks[r]: the pages r may ask for
  crashes  \* history: restarts so far

vars == <<cacheVars, writeVars, kind, asks, crashes>>

TypeOK ==
  /\ CacheTypeOK /\ WritesTypeOK
  /\ kind \in {"channel", "direct"}
  /\ asks \in Readership
  /\ crashes \in 0 .. MaxCrashes

Init ==
  /\ CacheInit /\ WritesInit
  /\ kind \in {"channel", "direct"}
  /\ asks \in Readership
  /\ crashes = 0

Running(r) ==
  /\ \/ RequestStep(r)
     \/ kind = "channel" /\ ChannelFetching(r)
     \/ kind = "direct" /\ DirectFetch(r)
  /\ UNCHANGED <<writeVars, kind, asks, crashes>>

Asking(r) ==
  /\ \/ kind = "channel" /\ ChannelRequest(r, asks[r])
     \/ kind = "direct" /\ DirectRequest(r, asks[r])
  /\ UNCHANGED <<writeVars, kind, asks, crashes>>

Writing(w) ==
  /\ \/ kind = "channel" /\ (ChannelWrite(w) \/ ChannelStep(w))
     \/ kind = "direct" /\ (DirectWrite(w) \/ DirectStep(w))
  /\ UNCHANGED <<kind, asks, crashes>>

Ticking(p) == Clock(p) /\ UNCHANGED <<writeVars, kind, asks, crashes>>

Restart ==
  /\ crashes < MaxCrashes
  /\ crashes' = crashes + 1
  /\ Crash
  /\ UNCHANGED <<kind, asks>>

Next ==
  \/ \E r \in Requests : Running(r) \/ Asking(r)
  \/ \E w \in Writers : Writing(w)
  \/ \E p \in Pages : Ticking(p)
  \/ Restart

(* The awaits of a call end, and time passes; nobody has to ask or write.    *)
Fairness ==
  /\ \A r \in Requests : WF_vars(Running(r))
  /\ \A p \in Pages : WF_vars(Ticking(p))

Spec == Init /\ [][Next]_vars /\ Fairness

-----------------------------------------------------------------------------
Orders == IF kind = "channel" THEN ByCreation(message) ELSE ByCreationAndId(message)
PageOf(p, l) == {Shown(Slice(order, p, l)) : order \in Orders}

OutOfDate(p) ==
  /\ entry[p] # None
  /\ IF p = 0 THEN entry[p].items \notin PageOf(0, entry[p].limit)
     ELSE \E k \in DOMAIN entry[p].items :
            entry[p].items[k][2] # message[entry[p].items[k][1]].text

(* A cached page says what MongoDB says, except while a write is between its *)
(* save and its invalidation, or when the page was read before such a write  *)
(* and stored after it, or the invalidation failed.  Of a later page only    *)
(* the contents are claimed: a send drops the first page alone, though it    *)
(* shifts them all (createMessage, editMessage, deleteMessage).              *)
PagesTrue ==
  \A p \in Pages : OutOfDate(p) =>
    entry[p].behind \/ \E w \in Writers : p \in Outdates(w)

(* "Prevent cache stampede": two requests fill one page under its lock only  *)
(* after one of them has lost the key, to its TTL, to KEYS and DEL of an     *)
(* edit, or to the DEL of a holder that had lost it before.                  *)
OneFillsAPage ==
  \A r, q \in Requests :
    r # q /\ req[r] # None /\ req[q] # None /\ req[r].page = req[q].page
      /\ req[r].holds /\ req[q].holds => req[r].lost \/ req[q].lost

(* Whatever happens to the lock it waits for, a request ends.                *)
RequestsEnd == \A r \in Requests : req[r] # None ~> req[r] = None

(* No page stays out of date: a fill that lost the race is gone after its TTL.*)
PagesCatchUp == \A p \in Pages : OutOfDate(p) ~> ~OutOfDate(p)

FollowedMetOnce ==
  \A f \in Followings, l \in Limits \cup {PrewarmLimit} :
    LET met == {x \in (0 .. Len(f)) \X (1 .. Len(f)) : x[2] \in DOMAIN FollowingPage(f, x[1], l)}
        who(x) == FollowingPage(f, x[1], l)[x[2]]
    IN  /\ {who(x) : x \in met} = DOMAIN f
        /\ Cardinality(met) = Len(f)
        /\ \A x, y \in met :
             \/ f[who(x)].last > f[who(y)].last
             \/ f[who(x)].last = 0 /\ f[who(y)].last = 0 /\ f[who(x)].name < f[who(y)].name
             => x[1] < y[1] \/ (x[1] = y[1] /\ x[2] < y[2])
        /\ \A p \in 0 .. Len(f) : FollowingLast(f, p, l) <=> \A x \in met : x[1] <= p

MessagesMetOnce ==
  \A h \in Histories : \A a \in DOMAIN h, l \in Limits \cup {PrewarmLimit} :
    LET side(d) == {x \in {d} \X (0 .. Len(h)) \X (1 .. Len(h) + 1) :
                      x[3] \in DOMAIN AnchorPage(h, a, d, x[2], l)}
        met == side("up") \cup side("down")
    IN  /\ {AnchorPage(h, a, x[1], x[2], l)[x[3]] : x \in met} = DOMAIN h
        /\ Cardinality(met) = Len(h)
        /\ \A way \in {"up", "down"}, p \in 0 .. Len(h) :
             AnchorLast(h, a, way, p, l) <=> \A x \in side(way) : x[2] <= p

(* getFollowingWithMessages: turning the pages until is_last_page is said    *)
(* meets everyone followed once, who wrote later before who wrote earlier or *)
(* not at all, the silent by username; it is said neither early nor late.    *)
FollowingPagesCover == kind = "direct" => FollowedMetOnce

(* listMessagesFromAnchor of both services: from any message, the pages up   *)
(* and the pages down meet every message of the room once, the anchor        *)
(* included, and is_last_page is said of the last one and of none before it, *)
(* equal creation times or not.                                              *)
AnchorPagesCover == kind \in {"channel", "direct"} => MessagesMetOnce
==========================================================================
