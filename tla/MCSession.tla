------------------------------ MODULE MCSession ------------------------------
(***************************************************************************)
(* Instances of Session for TLC.  Three workers are as many as one session *)
(* can occupy with completions (a receive, a send and a disconnection are  *)
(* posted at most).  All workers are alike, so they may be permuted in the *)
(* runs that check no liveness property.                                   *)
(***************************************************************************)
EXTENDS Session, TLC

CONSTANTS w1, w2, w3, main, app

TwoWorkers   == {w1, w2}
ThreeWorkers == {w1, w2, w3}
MainOnly     == {main}
MainAndApp   == {main, app}
WorkerSymmetry == Permutations(Workers)
=============================================================================
