-------------------------- MODULE TransmitSchedule --------------------------
(***************************************************************************)
(* What the transmit path promises, without threads, queue or filler table: *)
(* the slots are served one after the other, none skipped and none twice;   *)
(* a booked burst leaves on the air in its own slot and in no other; and    *)
(* the only other way to lose a booking is to be late for the slot.         *)
(***************************************************************************)
EXTENDS GsmTime

CONSTANT Bursts

VARIABLES
  slot,     \* the timeslot that is served next
  booked    \* a function from the bursts that wait to the slots they are for

vars == <<slot, booked>>

Without(S) == [b \in DOMAIN booked \ S |-> booked[b]]

Init ==
  /\ \E fn \in Frames : slot = Time(fn, 0)
  /\ booked = [b \in {} |-> slot]

Book(b, t) ==
  /\ b \notin DOMAIN booked
  /\ booked' = [c \in DOMAIN booked \cup {b} |-> IF c = b THEN t ELSE booked[c]]
  /\ UNCHANGED slot

Retire(b) ==
  /\ Lt(booked[b], slot)
  /\ booked' = Without({b})
  /\ UNCHANGED slot

Transmit(S) ==
  /\ \A b \in S : booked[b] = slot
  /\ booked' = Without(S)
  /\ slot' = IncTN(slot, 1)

Next ==
  \/ \E b \in Bursts, t \in Times : Book(b, t)
  \/ \E b \in DOMAIN booked : Retire(b)
  \/ \E S \in SUBSET DOMAIN booked : Transmit(S)

Spec == Init /\ [][Next]_vars
=============================================================================
