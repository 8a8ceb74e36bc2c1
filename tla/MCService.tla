----------------------------- MODULE MCService -----------------------------
(* Fewer accept events than clients, so that events must be armed again.   *)
EXTENDS Service

CONSTANTS w1, w2, main

MCWorkers == {w1, w2}
=============================================================================
