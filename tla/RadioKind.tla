------------------------------ MODULE RadioKind ------------------------------
(***************************************************************************)
(* The radio interface that runTransceiver made: what RadioSend and         *)
(* RadioReceive, its two halves, share.  Nothing changes it.                *)
(***************************************************************************)
EXTENDS RadioFormat

VARIABLES
  type,  \* the class, and for RadioInterfaceResamp the device's clock
  sps    \* samples per symbol towards the device
=============================================================================
