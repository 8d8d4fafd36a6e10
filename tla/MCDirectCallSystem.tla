------------------------------ MODULE MCDirectCallSystem ------------------------------
(* Small instances of the application: named users and the sockets each opens. *)
EXTENDS DirectCallSystem, TLC

CONSTANTS ann, bob, cat, ann1, bob1

AnnOnly == ann1 :> {ann}

Symmetry == Permutations(Calls)
==========================================================================
