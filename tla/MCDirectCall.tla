--------------------------------- MODULE MCDirectCall ---------------------------------
(* Small instances of the gateway: named users, and the accounts each socket  *)
(* identifies as.                                                             *)
EXTENDS DirectCallGateway, TLC

CONSTANTS ann, bob, cat, ann1, ann2, bob1, cat1

OneSocketEach == ann1 :> {ann} @@ bob1 :> {bob}
TwoTabs == ann1 :> {ann} @@ ann2 :> {ann, bob} @@ bob1 :> {bob}

Symmetry == Permutations(Tasks) \cup Permutations(Calls) \cup Permutations(Timers)
==========================================================================
