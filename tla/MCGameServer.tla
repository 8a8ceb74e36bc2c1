---------------------------- MODULE MCGameServer ----------------------------
(* Named clients and rooms for GameServer, and the symmetry between them.   *)
EXTENDS GameServer, TLC

Symmetry == Permutations(Clients) \cup Permutations(Rooms)
=============================================================================
