----------------------------- MODULE GsmTimeWalk -----------------------------
(***************************************************************************)
(* Two frame clocks moved by the operations of GsmTime, next to the plain   *)
(* integer they should stand for: "distance" is the number of timeslots by  *)
(* which "later" is ahead of "base", counted without any modulus.  The      *)
(* comparisons of the code are right when they agree with that integer      *)
(* wherever the hyperframe happens to wrap.                                 *)
(***************************************************************************)
EXTENDS GsmTime

CONSTANT Window   \* bound on |distance|, in timeslots

ASSUME WindowAssumption ==
  Window \in Nat /\ Window < (HalfModulus - 1) * GMaxTimeslots

VARIABLES base, later, distance

vars == <<base, later, distance>>

Moved(slots) == 
  /\ distance' = distance + slots
  /\ distance' \in -Window .. Window

Init ==
  /\ base \in Times
  /\ later = base
  /\ distance = 0

\* incTN on either clock.
AdvanceLater == \E step \in 1 .. GMaxTimeslots :
  /\ later' = IncTN(later, step) /\ Moved(step) /\ UNCHANGED base

AdvanceBase == \E step \in 1 .. GMaxTimeslots :
  /\ base' = IncTN(base, step) /\ Moved(-step) /\ UNCHANGED later

\* operator++ and operator+(uint32_t).
PassFrame ==
  /\ later' = IncFN(later) /\ Moved(GMaxTimeslots) /\ UNCHANGED base

SkipFrames == \E step \in 1 .. 2 :
  /\ later' = AddFrames(later, step) /\ Moved(step * GMaxTimeslots)
  /\ UNCHANGED base

\* operator+(const GsmTime &), used to look a latency ahead.
AddLatency == \E latency \in [fn : 0 .. 1, tn : Timeslots] :
  /\ later' = AddTime(later, latency)
  /\ Moved(latency.fn * GMaxTimeslots + latency.tn)
  /\ UNCHANGED base

\* rollForward moves on to the frame with a given position in a multiframe.
RollLater == \E modulus \in 1 .. 3 : \E fn \in 0 .. modulus - 1 :
  LET rolled == RollForward(later, fn, modulus)
  IN /\ later' = rolled
     /\ Moved(((rolled.fn - later.fn) % GMaxFrames) * GMaxTimeslots)
     /\ UNCHANGED base

\* decTN that stays within the frame: no borrow is needed.
RetreatInFrame == \E step \in 1 .. GMaxTimeslots - 1 :
  /\ step <= later.tn
  /\ later' = DecTN(later, step) /\ Moved(-step) /\ UNCHANGED base

\* operator-(uint32_t), as long as it stays within the hyperframe.
SubtractFrames == \E step \in 1 .. 2 :
  /\ step <= later.fn
  /\ later' = SubFrames(later, step) /\ Moved(-step * GMaxTimeslots) /\ UNCHANGED base

Next == AdvanceLater \/ AdvanceBase \/ PassFrame \/ SkipFrames \/ AddLatency \/ RollLater
        \/ RetreatInFrame \/ SubtractFrames

Spec == Init /\ [][Next]_vars

-----------------------------------------------------------------------------
\* The fields hold what their types allow (gsmtime.h, the two members).
TypeOK ==
  /\ base \in RawTimes /\ later \in RawTimes
  /\ distance \in -Window .. Window

\* Within the window the four comparison operators and == order two times as
\* the number of timeslots between them does, across the wrap of the frame
\* number, and operator-(const GsmTime &), by which channel estimates are
\* aged, gives the whole frames of that number (gsmtime.h, FNDelta).
OrderIsDistance ==
  /\ Lt(base, later) <=> distance > 0
  /\ Gt(base, later) <=> distance < 0
  /\ Le(base, later) <=> distance >= 0
  /\ Ge(base, later) <=> distance <= 0
  /\ base = later <=> distance = 0
  /\ FNDelta(later.fn, base.fn) = (base.tn + distance) \div GMaxTimeslots
=============================================================================
