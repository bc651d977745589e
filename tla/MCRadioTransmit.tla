--------------------------- MODULE MCRadioTransmit ---------------------------
(* Instances of RadioTransmit for TLC; the values are in the cfg files. *)
EXTENDS RadioTransmit
=============================================================================
