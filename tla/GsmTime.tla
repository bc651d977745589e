------------------------------- MODULE GsmTime -------------------------------
(***************************************************************************)
(* The GSM frame clock value of gsmtime.h: a frame number that cycles       *)
(* through the hyperframe and a timeslot number.  Both fields are unsigned  *)
(* in the code, so every operation is given with the width of its field.    *)
(* The literals 8 and 7 of the code are GMaxTimeslots and GMaxTimeslots-1.  *)
(* A definition marked "Fault" is what a plausible mistake would make of    *)
(* the definition after it; no specification uses it.                       *)
(***************************************************************************)
EXTENDS Integers

CONSTANTS
  GMaxFrames,     \* g_max_frames, 26 * 51 * 2048 in the code
  GMaxTimeslots,  \* g_max_timeslots, 8 in the code
  TNWord,         \* number of values of m_timeslot_number (uint8_t): 2^8
  FNWord          \* number of values of m_frame_number (uint32_t): 2^32

ASSUME GsmTimeAssumption ==
  /\ GMaxFrames \in Nat /\ GMaxFrames >= 2 /\ GMaxFrames % 2 = 0
  /\ GMaxTimeslots \in Nat /\ GMaxTimeslots >= 1
  /\ TNWord \in Nat /\ TNWord >= 2 * GMaxTimeslots
  /\ TNWord % GMaxTimeslots = 0
  /\ FNWord \in Nat /\ FNWord >= 2 * GMaxFrames

Frames == 0 .. GMaxFrames - 1
Timeslots == 0 .. GMaxTimeslots - 1

\* What the two fields can hold, and the times the GSM standard knows.
RawTimes == [fn : Frames, tn : 0 .. TNWord - 1]
Times == [fn : Frames, tn : Timeslots]

Time(fn, tn) == [fn |-> fn, tn |-> tn]

NextFrame(fn) == (fn + 1) % GMaxFrames

(***************************************************************************)
(* incTN and decTN.  m_timeslot_number is unsigned: the test "< 0" with     *)
(* which decTN looks for a borrow never holds.                              *)
(***************************************************************************)
\* Fault: the carry into the frame number is forgotten.
IncTNNoCarry(t, step) == Time(t.fn, (t.tn + step) % GMaxTimeslots)

\* Fault: the carry comes one timeslot late.
IncTNLateCarry(t, step) ==
  LET tn == (t.tn + step) % TNWord
  IN IF tn > GMaxTimeslots
     THEN Time(NextFrame(t.fn), tn - GMaxTimeslots)
     ELSE Time(t.fn, tn)

IncTN(t, step) ==
  LET tn == (t.tn + step) % TNWord
  IN IF tn > GMaxTimeslots - 1
     THEN Time(NextFrame(t.fn), tn - GMaxTimeslots)
     ELSE Time(t.fn, tn)

\* Fault: whole frames are taken off instead of timeslots.
DecTNFrames(t, step) == Time((t.fn - step) % GMaxFrames, t.tn)

DecTN(t, step) == Time(t.fn, (t.tn - step) % TNWord)

\* operator++ and the two operators that take a number of frames; "- step"
\* is the unsigned negation of step.
IncFN(t) == Time(NextFrame(t.fn), t.tn)
AddFrames(t, step) == Time(((t.fn + step) % FNWord) % GMaxFrames, t.tn)
SubFrames(t, step) == AddFrames(t, (-step) % FNWord)

\* operator+(const GsmTime &): the carry of the timeslots goes to the frame.
AddTime(t, u) ==
  LET tn == t.tn + u.tn
  IN Time((t.fn + u.fn + tn \div GMaxTimeslots) % GMaxFrames, tn % GMaxTimeslots)

\* The first frame at or after t whose number is fn modulo modulus.
RollForward(t, fn, modulus) ==
  LET hits == {k \in Frames : ((t.fn + k) % GMaxFrames) % modulus = fn}
      wait == CHOOSE k \in hits : \A j \in hits : k <= j
  IN Time((t.fn + wait) % GMaxFrames, t.tn)

(***************************************************************************)
(* Differences and comparisons.  Frame numbers are cyclic: the sign of a    *)
(* difference is taken within half a hyperframe.                            *)
(***************************************************************************)
HalfModulus == GMaxFrames \div 2

\* Faults: no correction at all, and only the one for large differences.
FNDeltaLinear(v1, v2) == v1 - v2

FNDeltaOneSided(v1, v2) ==
  IF v1 - v2 >= HalfModulus THEN v1 - v2 - GMaxFrames ELSE v1 - v2

FNDelta(v1, v2) ==
  LET delta == v1 - v2
  IN IF delta >= HalfModulus THEN delta - GMaxFrames
     ELSE IF delta < -HalfModulus THEN delta + GMaxFrames
     ELSE delta

FNCompare(v1, v2) ==
  LET delta == FNDelta(v1, v2)
  IN IF delta > 0 THEN 1 ELSE IF delta < 0 THEN -1 ELSE 0

\* Timeslots from u to t, as far as frame numbers can tell.
SlotsBetween(t, u) == FNDelta(t.fn, u.fn) * GMaxTimeslots + t.tn - u.tn

Lt(t, u) == IF t.fn = u.fn THEN t.tn < u.tn ELSE FNCompare(t.fn, u.fn) < 0
Gt(t, u) == IF t.fn = u.fn THEN t.tn > u.tn ELSE FNCompare(t.fn, u.fn) > 0
Le(t, u) == IF t.fn = u.fn THEN t.tn <= u.tn ELSE FNCompare(t.fn, u.fn) <= 0
Ge(t, u) == IF t.fn = u.fn THEN t.tn >= u.tn ELSE FNCompare(t.fn, u.fn) >= 0
=============================================================================
