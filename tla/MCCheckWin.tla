----------------------------- MODULE MCCheckWin -----------------------------
(* A board of four lines where three in a row win: every game of up to six  *)
(* stones of either colour, in any order.  A line of four (too long to      *)
(* win), lines ending at every edge and corner, wins in all four            *)
(* directions, and lines cut by the other colour are all reached.  No       *)
(* definition tells black from white, so the two are interchangeable.       *)
EXTENDS CheckWin, TLC

Symmetry == Permutations({Black, White})
=============================================================================
