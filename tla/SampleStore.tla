----------------------------- MODULE SampleStore -----------------------------
(***************************************************************************)
(* What the receive side of the device promises the radio interface: chunks *)
(* follow each other in time, a chunk is handed out when the time of its     *)
(* last sample has been received, and each of its samples that was received  *)
(* is in its own place.  In place of samples the device lost it may hold      *)
(* anything.                                                                *)
(***************************************************************************)
EXTENDS Integers

CONSTANT ReadLen

VARIABLES
  next,     \* timestamp of the next chunk
  store,    \* timestamps received and not handed out
  chunk     \* the chunk handed out last

vars == <<next, store, chunk>>

Init == next \in Nat /\ store = {} /\ chunk = [k \in 0 .. ReadLen - 1 |-> -1]

Receive ==
  /\ store \subseteq store' /\ \A t \in store' \ store : t >= next
  /\ UNCHANGED <<next, chunk>>

Deliver ==
  /\ \E t \in store : t >= next + ReadLen - 1
  /\ DOMAIN chunk' = 0 .. ReadLen - 1
  /\ \A k \in 0 .. ReadLen - 1 : next + k \in store => chunk'[k] = next + k
  /\ next' = next + ReadLen
  /\ store' = {t \in store : t >= next'}

Next == Receive \/ Deliver

Spec == Init /\ [][Next]_vars
=============================================================================
