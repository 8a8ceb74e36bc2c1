--------------------------- MODULE MCUnitySession ---------------------------
(* A small receive buffer.  The sizes of the stream repeat: a packet       *)
(* without a body, the smallest with one, and one that fills the buffer.   *)
EXTENDS UnitySession

Period == 3
MCSizes == {HeaderSize, HeaderSize + 1, BufferSize}
MCStreams == {[b \in 0..Total |-> f[b % Period]] : f \in [0..Period - 1 -> MCSizes]}
=============================================================================
