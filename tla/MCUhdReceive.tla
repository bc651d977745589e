---------------------------- MODULE MCUhdReceive ----------------------------
(* UhdReceive on a ring of a few samples. *)
EXTENDS UhdReceive
=============================================================================
