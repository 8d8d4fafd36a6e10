--------------------------- MODULE MCServerMembership ---------------------------
(* Small instances of ServerMembership: users and requests are               *)
(* interchangeable, so states are counted up to a permutation of them.       *)
EXTENDS ServerMembership, TLC

Symmetry == Permutations(Users) \cup Permutations(Requests)
=============================================================================
