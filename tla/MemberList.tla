---------------------------------- MODULE MemberList ----------------------------------
(***************************************************************************)
(* getMembersInServer: the member list of a server, cached in redis for    *)
(* five minutes.  A join, a leave, a kick, a ban and a transfer drop it    *)
(* after their transaction; assignRole and updateNotification do not.      *)
(***************************************************************************)
EXTENDS Integers, FiniteSets

CONSTANTS
  People, Readers, Changes,  \* users, listings and changes in flight
  MaxChanges,                \* bounds how often a membership changes
  None

VARIABLES
  member,   \* member[p]: the role in p's membership document, None when absent
  list,     \* server_members:<id>
  listing,  \* listing[r]: a request that missed, with what it has read
  change,   \* change[c]: committed and yet to drop the list
  changes   \* history: how many changes there have been

memberListVars == <<member, list, listing, change, changes>>

Roles == {"owner", "moderator", "member"}
Roster == [People -> Roles \cup {None}]
List == [of : Roster,
         behind : BOOLEAN,   \* a change has come between its read and now, unheard
         short : BOOLEAN]    \* a profile was not found: its member was left out

MemberListTypeOK ==
  /\ member \in Roster
  /\ list \in List \cup {None}
  /\ listing \in [Readers -> List \cup {None}]
  /\ change \in [Changes -> BOOLEAN]
  /\ changes \in 0 .. MaxChanges

MemberListInit ==
  /\ member \in Roster /\ \E p \in People : member[p] = "owner"
  /\ \A p, q \in People : member[p] = "owner" /\ member[q] = "owner" => p = q
  /\ list = None
  /\ listing = [r \in Readers |-> None]
  /\ change = [c \in Changes |-> FALSE]
  /\ changes = 0

Empty == [p \in People |-> None]

-----------------------------------------------------------------------------
(* The redis get missed, however long ago, and the memberships are read; an  *)
(* empty list is answered and not cached.                                    *)
FindMemberships(r) ==
  /\ listing[r] = None /\ member # Empty
  /\ listing' = [listing EXCEPT ![r] = [of |-> member, behind |-> FALSE, short |-> FALSE]]
  /\ UNCHANGED <<member, list, change, changes>>

(* Decode or MongoDB does not know the user: null, and filtered out.         *)
EnrichFails(r, p) ==
  /\ listing[r] # None /\ listing[r].of[p] # None
  /\ listing' = [listing EXCEPT ![r].of[p] = None, ![r].short = TRUE]
  /\ UNCHANGED <<member, list, change, changes>>

StoreList(r) ==
  /\ listing[r] # None
  /\ list' = listing[r]
  /\ listing' = [listing EXCEPT ![r] = None]
  /\ UNCHANGED <<member, change, changes>>

ListExpires == list' = None /\ UNCHANGED <<member, listing, change, changes>>

Changed(p, role) ==
  /\ changes < MaxChanges /\ changes' = changes + 1
  /\ member' = [member EXCEPT ![p] = role]
  /\ listing' = [r \in Readers |->
       IF listing[r] = None THEN None ELSE [listing[r] EXCEPT !.behind = TRUE]]

(* joinServer; leaveServer and kickOrBan (of anyone but the owner): the      *)
(* commit, and the del that follows it.                                      *)
Commit(c, p, role) ==
  /\ ~change[c] /\ member # Empty /\ member[p] # "owner" /\ role \in {"member", None}
  /\ (member[p] = None) # (role = None)
  /\ Changed(p, role)
  /\ change' = [change EXCEPT ![c] = TRUE]
  /\ UNCHANGED list

TransferOwnership(c, p, q) ==
  /\ ~change[c] /\ member[p] = "owner" /\ member[q] \notin {"owner", None}
  /\ changes < MaxChanges /\ changes' = changes + 1
  /\ member' = [member EXCEPT ![p] = "member", ![q] = "owner"]
  /\ listing' = [r \in Readers |->
       IF listing[r] = None THEN None ELSE [listing[r] EXCEPT !.behind = TRUE]]
  /\ change' = [change EXCEPT ![c] = TRUE]
  /\ UNCHANGED list

(* assignRole ends with its save.                                            *)
AssignRole(p, role) ==
  /\ member[p] \notin {"owner", None} /\ role \in Roles \ {"owner", member[p]}
  /\ Changed(p, role)
  /\ UNCHANGED <<list, change>>

(* Of the application beside this one: it knows nothing of the list.         *)
RemoveServer ==
  /\ member # Empty
  /\ member' = Empty
  /\ listing' = [r \in Readers |->
       IF listing[r] = None THEN None ELSE [listing[r] EXCEPT !.behind = TRUE]]
  /\ UNCHANGED <<list, change, changes>>

(* Faulty: another key is deleted.                                           *)
InvalidateOther(c) ==
  /\ change[c]
  /\ change' = [change EXCEPT ![c] = FALSE]
  /\ UNCHANGED <<member, list, listing, changes>>

InvalidateMemberListCache(c) ==
  /\ change[c]
  /\ change' = [change EXCEPT ![c] = FALSE]
  /\ list' = None
  /\ UNCHANGED <<member, listing, changes>>

(* The audit log or the redis call before it throws, or the process dies.    *)
NotInvalidated(c) ==
  /\ change[c]
  /\ change' = [change EXCEPT ![c] = FALSE]
  /\ list' = IF list = None THEN None ELSE [list EXCEPT !.behind = TRUE]
  /\ UNCHANGED <<member, listing, changes>>

MemberListNext ==
  \/ \E r \in Readers :
       FindMemberships(r) \/ StoreList(r) \/ \E p \in People : EnrichFails(r, p)
  \/ \E c \in Changes :
       \/ \E p \in People, role \in Roles \cup {None} : Commit(c, p, role)
       \/ \E p, q \in People : TransferOwnership(c, p, q)
       \/ InvalidateMemberListCache(c) \/ NotInvalidated(c)
  \/ \E p \in People, role \in Roles : AssignRole(p, role)
  \/ RemoveServer \/ ListExpires

-----------------------------------------------------------------------------
Listed(l) == {p \in People : l.of[p] # None}

(* getMembersInServer: the cached list names the members and no one else,    *)
(* and the owner as the owner, once every change has dropped it; excepted    *)
(* are a list read before a change and stored after it, one a failed call    *)
(* left behind, members whose profile could not be read, and the last list   *)
(* of a server that was removed.                                             *)
ListTrue ==
  list # None /\ ~list.behind /\ member # Empty /\ (\A c \in Changes : ~change[c]) =>
    /\ Listed(list) \subseteq Listed([of |-> member])
    /\ ~list.short => Listed(list) = Listed([of |-> member])
    /\ \A p \in Listed(list) : list.of[p] = "owner" <=> member[p] = "owner"
=============================================================================
