------------------------------- MODULE MCOmok -------------------------------
(* Named clients and rooms for Omok.  Three clients are two in a game and   *)
(* one to take the seat of whoever leaves.                                  *)
EXTENDS Omok, TLC

Symmetry == Permutations(Clients) \cup Permutations(Rooms)
=============================================================================
