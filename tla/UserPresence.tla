------------------------------- MODULE UserPresence -------------------------------
(***************************************************************************)
(* The user-status application: the gateway's events, which write the      *)
(* status of a user to both stores, and the calls about the page of a      *)
(* viewer, which read one store and write the other.                       *)
(***************************************************************************)
EXTENDS FollowingStatus

CONSTANT MaxTotal  \* bounds events, restarts, calls and changes together

ASSUME NoneAssumption ==
  /\ None \notin Handlers \cup Calls /\ None \notin Handler /\ None \notin Call
  /\ None \notin Status /\ {None, "nobody"} \cap Users = {}

vars == <<presenceVars, followingVars>>

Init == PresenceInit /\ FollowingInit

Next ==
  /\ \/ PresenceStep /\ UNCHANGED followingVars
     \/ Restart /\ ForgetCalls
     \/ FollowingNext
  /\ events' + restarts' + calls' + changes' <= MaxTotal

Spec == Init /\ [][Next]_vars

-----------------------------------------------------------------------------
TypeOK == PresenceTypeOK /\ FollowingTypeOK

Settled(u) == u \notin unsure /\ Handling(u) = {}

(* setUserOnline, setUserOffline: once an event of a user that met no other  *)
(* has ended, the document says whether the user has an identified socket    *)
(* open, whatever overlapped, failed or was cut by a restart before it.      *)
StatusTrue ==
  \A u \in Users :
    Settled(u) => (mongo[u] = "online" <=> SocketsOf(u) # {})

(* The key other services read never contradicts the document once the       *)
(* events of the user have settled: the pages write it too, but only what    *)
(* the document still says.                                                  *)
StoresAgree ==
  \A u \in Users :
    Settled(u) /\ hot[u] # None => hot[u] = StatusInDb(u)

FetchSteps == {"follow", "read", "store", "hot"}

(* fetchAndCacheFollowingStatus: however calls, refreshes and prewarms       *)
(* overlap, the other service is asked for one page by one call at a time.   *)
OneFetches ==
  Cardinality({c \in Calls : \E s \in FetchSteps : CallAt(c, s)}) <= 1

(* Who waits is waiting for someone: an identity event for a full identify   *)
(* that is still running, a call for a fetch that is still in progress, so   *)
(* no failure, clean-up or crossing leaves a client without an answer.       *)
WaitersAreServed ==
  /\ \A h \in Handlers :
       handler[h] # None /\ handler[h].awaits # None =>
         LET g == handler[h].awaits IN
         handler[g] # None /\ handler[g].way = "full" /\ handler[g].user = handler[h].user
  /\ \A c \in Calls : CallAt(c, "share") =>
       fetch # None /\ fetch # c /\ call[fetch] # None
                    /\ call[fetch].step \in FetchSteps
=============================================================================
