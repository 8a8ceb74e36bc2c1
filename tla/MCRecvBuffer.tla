---------------------------- MODULE MCRecvBuffer ----------------------------
(***************************************************************************)
(* A small receive buffer: sizes repeat with a period that is prime to     *)
(* most packet sizes, so that all orders of sizes occur in some stream.    *)
(***************************************************************************)
EXTENDS RecvBuffer

Period == 5
MCStreams ==
  {[b \in 0..Total |-> f[b % Period]] : f \in [0..Period - 1 -> Sizes]}
=============================================================================
