------------------------------- MODULE MessageListing -------------------------------
(***************************************************************************)
(* How both messaging services cut the history of a room into pages.       *)
(* A history is a sequence of documents in insertion order: its index is   *)
(* the _id order, at is createdAt, and two documents may share an at.      *)
(***************************************************************************)
EXTENDS Integers, Sequences, FiniteSets, SequencesExt, FiniteSetsExt

Sooner(h, i, j) == h[i].at < h[j].at \/ (h[i].at = h[j].at /\ i < j)

(* Faulty: equal creation times are not told apart.                          *)
OlderByTime(h, a) == {i \in DOMAIN h : h[i].at < h[a].at}

(* The two $or comparators of listMessagesFromAnchor.                        *)
OlderThan(h, a) == {i \in DOMAIN h : h[i].at < h[a].at \/ (h[i].at = h[a].at /\ i < a)}
NewerThan(h, a) == {i \in DOMAIN h : h[i].at > h[a].at \/ (h[i].at = h[a].at /\ i > a)}

(* Sorted, the k-th has k - 1 before it; before is a set of pairs.           *)
InOrder(ids, before) ==
  [k \in 1 .. Cardinality(ids) |->
     CHOOSE i \in ids : Cardinality({j \in ids : <<j, i>> \in before}) = k - 1]
Ascending(h, ids) == InOrder(ids, {x \in ids \X ids : Sooner(h, x[1], x[2])})
Descending(h, ids) == Reverse(Ascending(h, ids))

(* skip(page * limit).limit(limit)                                           *)
Slice(s, page, limit) ==
  SubSeq(s, page * limit + 1, Min({(page + 1) * limit, Len(s)}))

Ceil(n, d) == (n + d - 1) \div d
IsLastPage(n, page, limit) == page >= Max({Ceil(n, limit), 1}) - 1

(* sort({createdAt: -1}) leaves documents with one createdAt in any order;   *)
(* sort({createdAt: -1, _id: -1}) has one result.                            *)
ByCreation(h) ==
  {s \in SetToAllKPermutations(DOMAIN h) :
     Len(s) = Len(h) /\ \A k \in 1 .. Len(s) - 1 : h[s[k]].at >= h[s[k + 1]].at}
ByCreationAndId(h) == {Descending(h, DOMAIN h)}

(* Upwards the page nearest to the anchor ends with it, oldest first; the    *)
(* further ones stay newest first.                                           *)
UpPage(h, a, page, limit) ==
  LET up == Slice(Descending(h, OlderThan(h, a)), page, limit)
  IN  IF page = 0 THEN Reverse(up) \o <<a>> ELSE up

(* The ids one call of listMessagesFromAnchor answers with, in both services.*)
AnchorPage(h, a, direction, page, limit) ==
  IF direction = "up" THEN UpPage(h, a, page, limit)
  ELSE Slice(Ascending(h, NewerThan(h, a)), page, limit)

AnchorLast(h, a, direction, page, limit) ==
  IsLastPage(Cardinality(IF direction = "up" THEN OlderThan(h, a) ELSE NewerThan(h, a)),
             page, limit)

(* getFollowingWithMessages: people with a conversation that has a message   *)
(* come first, the latest message first; the others by username.             *)
(* f[u] = [name, last], last = 0 when nothing was said.                      *)
Precedes(f, u, v) ==
  \/ f[u].last > f[v].last
  \/ f[u].last = f[v].last /\ f[u].last > 0 /\ u < v
  \/ f[u].last = 0 /\ f[v].last = 0
       /\ (f[u].name < f[v].name \/ (f[u].name = f[v].name /\ u < v))

Followed(f) ==
  InOrder(DOMAIN f, {x \in (DOMAIN f) \X (DOMAIN f) : Precedes(f, x[1], x[2])})
FollowingPage(f, page, limit) == Slice(Followed(f), page, limit)

(* Faulty: the pages are counted as if the first one were page 1.            *)
FollowingLastByOne(f, page, limit) == page >= Ceil(Cardinality(DOMAIN f), limit)

FollowingLast(f, page, limit) == page >= Ceil(Cardinality(DOMAIN f), limit) - 1
==========================================================================
