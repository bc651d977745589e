--------------------------- MODULE MCRadioReceive ---------------------------
(* Instances of RadioReceive for TLC; the values are in the cfg files. *)
EXTENDS RadioReceive
=============================================================================
