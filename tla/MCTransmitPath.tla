---------------------------- MODULE MCTransmitPath ----------------------------
(* Instances of TransmitPath for TLC; the values are in the cfg files. *)
EXTENDS TransmitPath, TLC

\* A burst is only a name for a heap object.
BurstSymmetry == Permutations(Bursts)
=============================================================================
