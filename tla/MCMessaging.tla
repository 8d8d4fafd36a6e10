--------------------------------- MODULE MCMessaging ---------------------------------
(* A room with two messages and two readers: both at its first page, or one  *)
(* who turns the pages.  Paging is checked over all histories of at most     *)
(* four messages at three moments.                                           *)
EXTENDS Messaging, TLC

CONSTANTS r1, r2

TwoReaders ==
  {r1 :> {0} @@ r2 :> {0}, r1 :> {0, 1} @@ r2 :> {}, r1 :> {} @@ r2 :> {0, 1}}
BothFirst == {r1 :> {0} @@ r2 :> {0}}
Readers == Permutations(Requests)

ShortHistories ==
  {h \in UNION {[1 .. n -> [at : 1 .. 3]] : n \in 0 .. 4} :
     \A i, j \in DOMAIN h : i < j => h[i].at <= h[j].at}

SomeFollowed ==
  UNION {[1 .. n -> [name : 1 .. 2, last : 0 .. 2]] : n \in 0 .. 3}
==========================================================================
