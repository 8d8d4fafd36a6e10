------------------------------- MODULE MCUserPresence -------------------------------
EXTENDS UserPresence, TLC

CONSTANTS u1, s1, s2

OneAccount == [s \in Sockets |-> u1]
Devices == Permutations(Sockets) \cup Permutations(Handlers) \cup Permutations(Calls)
=============================================================================
