---------------------------- MODULE GsmTimeProofs ----------------------------
(***************************************************************************)
(* Facts about the frame clock arithmetic of GsmTime that hold for every    *)
(* hyperframe, number of timeslots and field width.                         *)
(***************************************************************************)
EXTENDS GsmTime, WellFoundedInduction, TLAPS

\* Every set of natural numbers has a least one.
LEMMA LeastNatural ==
  ASSUME NEW S, S \subseteq Nat, S # {} PROVE \E n \in S : \A m \in S : n <= m
<1>1. PICK n \in S : \A m \in S : ~(<<m, n>> \in OpToRel(<, Nat))
  BY NatLessThanWellFounded, WFMin, Zenon
<1>2. ASSUME NEW m \in S PROVE n <= m
  <2>1. <<m, n>> \in OpToRel(<, Nat) <=> m < n  BY DEF OpToRel
  <2>2. ~(m < n)  BY <1>1, <2>1
  <2>3. QED  BY <2>2
<1>3. QED  BY <1>2

\* A remainder is smaller than its divisor, and a number that already is
\* smaller is its own remainder.
LEMMA ModIsBelow == ASSUME NEW a \in Int, NEW n \in Nat, n > 0
                    PROVE  a % n \in 0 .. n - 1
  OBVIOUS

LEMMA FramesWrap == ASSUME NEW a \in Int PROVE a % GMaxFrames \in Frames
<1>1. GMaxFrames \in Nat /\ GMaxFrames > 0  BY GsmTimeAssumption
<1>2. QED  BY <1>1, ModIsBelow DEF Frames

\* operator++ and the carry of incTN stay in the hyperframe.
LEMMA NextFrameType == ASSUME NEW fn \in Frames PROVE NextFrame(fn) \in Frames
<1>1. fn + 1 \in Int  BY GsmTimeAssumption DEF Frames
<1>2. QED  BY <1>1, FramesWrap DEF NextFrame

\* incTN by one takes a time of the standard to a time of the standard
\* (gsmtime.h incTN).
THEOREM IncTNType == ASSUME NEW t \in Times PROVE IncTN(t, 1) \in Times
<1>1. /\ t.fn \in Frames /\ t.tn \in 0 .. GMaxTimeslots - 1
      /\ GMaxTimeslots \in Nat /\ GMaxTimeslots >= 1
      /\ TNWord \in Nat /\ TNWord >= 2 * GMaxTimeslots
  BY GsmTimeAssumption DEF Times, Timeslots
<1>2. t.tn + 1 \in 0 .. TNWord - 1  BY <1>1
<1>3. (t.tn + 1) % TNWord = t.tn + 1  BY <1>1, <1>2
<1>4. NextFrame(t.fn) \in Frames  BY <1>1, NextFrameType
<1>5. CASE t.tn + 1 > GMaxTimeslots - 1
  <2>1. IncTN(t, 1) = Time(NextFrame(t.fn), t.tn + 1 - GMaxTimeslots)
    BY <1>1, <1>3, <1>5 DEF IncTN
  <2>2. t.tn + 1 - GMaxTimeslots \in Timeslots  BY <1>1, <1>5 DEF Timeslots
  <2>3. QED  BY <2>1, <2>2, <1>4 DEF Time, Times
<1>6. CASE ~(t.tn + 1 > GMaxTimeslots - 1)
  <2>1. IncTN(t, 1) = Time(t.fn, t.tn + 1)  BY <1>1, <1>3, <1>6 DEF IncTN
  <2>2. t.tn + 1 \in Timeslots  BY <1>1, <1>6 DEF Timeslots
  <2>3. QED  BY <2>1, <2>2, <1>1 DEF Time, Times
<1>7. QED  BY <1>5, <1>6

\* operator+ with another time ends in the standard's range, whatever the
\* timeslot field of its operands holds (gsmtime.h operator+).
THEOREM AddTimeType == ASSUME NEW t \in RawTimes, NEW u \in RawTimes
                       PROVE  AddTime(t, u) \in Times
<1>1. /\ t.fn \in Int /\ u.fn \in Int /\ t.tn \in Int /\ u.tn \in Int
      /\ GMaxTimeslots \in Nat /\ GMaxTimeslots > 0
  BY GsmTimeAssumption DEF RawTimes, Frames
<1> DEFINE tn == t.tn + u.tn
           fn == t.fn + u.fn + tn \div GMaxTimeslots
<1>2. tn \in Int /\ tn \div GMaxTimeslots \in Int  BY <1>1
<1>3. fn \in Int  BY <1>1, <1>2
<1>4. fn % GMaxFrames \in Frames  BY <1>3, FramesWrap
<1>5. tn % GMaxTimeslots \in Timeslots  BY <1>1, <1>2, ModIsBelow DEF Timeslots
<1>6. QED  BY <1>4, <1>5 DEF AddTime, Time, Times

\* The timeslots of the standard fit into the field.
LEMMA TimesAreRaw == ASSUME NEW t \in Times PROVE t \in RawTimes
  BY GsmTimeAssumption DEF Times, RawTimes, Timeslots

\* decTN leaves the frame number alone and keeps within the width of the
\* timeslot field, which is all that can be said of it (gsmtime.h decTN).
LEMMA DecTNType == ASSUME NEW t \in RawTimes, NEW step \in Nat
                   PROVE  DecTN(t, step) \in RawTimes
<1>1. t.tn - step \in Int /\ TNWord \in Nat /\ TNWord > 0 /\ t.fn \in Frames
  BY GsmTimeAssumption DEF RawTimes
<1>2. (t.tn - step) % TNWord \in 0 .. TNWord - 1  BY <1>1, ModIsBelow
<1>3. QED  BY <1>1, <1>2 DEF DecTN, Time, RawTimes

\* The difference of two frame numbers is taken within half a hyperframe and
\* is zero for equal frame numbers only (gsmtime.cpp FNDelta).
THEOREM FNDeltaRange == ASSUME NEW v1 \in Frames, NEW v2 \in Frames
                        PROVE  /\ FNDelta(v1, v2) \in -HalfModulus .. HalfModulus - 1
                               /\ FNDelta(v1, v2) = 0 <=> v1 = v2
<1>1. /\ GMaxFrames \in Nat /\ GMaxFrames >= 2
      /\ GMaxFrames = 2 * HalfModulus /\ HalfModulus \in Nat
  BY GsmTimeAssumption DEF HalfModulus
<1>2. /\ v1 \in Int /\ v2 \in Int
      /\ 0 <= v1 /\ v1 < GMaxFrames /\ 0 <= v2 /\ v2 < GMaxFrames
  BY <1>1 DEF Frames
<1> DEFINE d == v1 - v2
<1>3. d \in Int /\ -GMaxFrames < d /\ d < GMaxFrames /\ (d = 0 <=> v1 = v2)
  BY <1>1, <1>2
<1>4. CASE d >= HalfModulus
  <2>1. FNDelta(v1, v2) = d - GMaxFrames  BY <1>4 DEF FNDelta
  <2>2. QED  BY <2>1, <1>1, <1>3, <1>4
<1>5. CASE d < -HalfModulus
  <2>1. FNDelta(v1, v2) = d + GMaxFrames  BY <1>1, <1>5, <1>3 DEF FNDelta
  <2>2. QED  BY <2>1, <1>1, <1>3, <1>5
<1>6. CASE ~(d >= HalfModulus) /\ ~(d < -HalfModulus)
  <2>1. FNDelta(v1, v2) = d  BY <1>6 DEF FNDelta
  <2>2. QED  BY <2>1, <1>1, <1>3, <1>6
<1>7. QED  BY <1>4, <1>5, <1>6

\* Of two different times one is before the other, whether or not the
\* hyperframe wraps between them (gsmtime.h operator< and operator>).
THEOREM Comparable == ASSUME NEW t \in Times, NEW u \in Times, t # u
                      PROVE  Lt(t, u) \/ Gt(t, u)
<1>1. t.fn \in Frames /\ u.fn \in Frames  BY DEF Times
<1>2. CASE t.fn = u.fn
  <2>1. t.tn # u.tn  BY <1>2 DEF Times
  <2>2. t.tn \in Int /\ u.tn \in Int  BY GsmTimeAssumption DEF Times, Timeslots
  <2>3. QED  BY <1>2, <2>1, <2>2 DEF Lt, Gt
<1>3. CASE t.fn # u.fn
  <2>1. FNDelta(t.fn, u.fn) # 0 /\ FNDelta(t.fn, u.fn) \in Int
    BY <1>1, <1>3, FNDeltaRange
  <2>2. FNCompare(t.fn, u.fn) > 0 \/ FNCompare(t.fn, u.fn) < 0
    BY <2>1 DEF FNCompare
  <2>3. QED  BY <1>3, <2>2 DEF Lt, Gt
<1>4. QED  BY <1>2, <1>3

-----------------------------------------------------------------------------
(* Differences of frame numbers as distances: the hyperframe does not show  *)
(* as long as a distance is less than half of it.                           *)

LEMMA Halves == /\ GMaxFrames \in Nat /\ HalfModulus \in Nat /\ HalfModulus >= 1
                /\ GMaxFrames = 2 * HalfModulus
  BY GsmTimeAssumption DEF HalfModulus

\* FNDelta is the representative, within half a hyperframe, of the difference
\* (gsmtime.cpp FNDelta).
LEMMA DeltaIs ==
  ASSUME NEW a \in Frames, NEW b \in Frames, NEW n \in Int,
         NEW x \in -HalfModulus .. HalfModulus - 1, a - b = x + n * GMaxFrames
  PROVE  FNDelta(a, b) = x
<1> DEFINE G == GMaxFrames
<1>1. /\ a \in Int /\ b \in Int /\ a - b > -G /\ a - b < G /\ G \in Nat
      /\ HalfModulus \in Nat /\ HalfModulus >= 1 /\ G = 2 * HalfModulus
  BY Halves DEF Frames
<1>2. CASE n >= 2
  <2>1. n * G >= 2 * G  BY <1>1, <1>2
  <2>2. QED  BY <1>1, <2>1
<1>3. CASE n <= -2
  <2>1. n * G <= -2 * G  BY <1>1, <1>3
  <2>2. QED  BY <1>1, <2>1
<1>4. CASE n \in {-1, 0, 1}
  <2>1. a - b = x - G \/ a - b = x \/ a - b = x + G  BY <1>1, <1>4
  <2>2. QED  BY <1>1, <2>1 DEF FNDelta
<1>5. QED  BY <1>2, <1>3, <1>4

\* A difference of frame numbers, in terms of the numbers themselves.
LEMMA DeltaOf ==
  ASSUME NEW a \in Frames, NEW b \in Frames
  PROVE  \E n \in Int : a - b = FNDelta(a, b) + n * GMaxFrames
<1>1. a \in Int /\ b \in Int /\ GMaxFrames \in Nat /\ HalfModulus \in Nat  BY Halves DEF Frames
<1>2. \/ a - b = FNDelta(a, b) + (-1) * GMaxFrames
      \/ a - b = FNDelta(a, b) + 0 * GMaxFrames
      \/ a - b = FNDelta(a, b) + 1 * GMaxFrames
  BY <1>1 DEF FNDelta
<1>3. QED  BY <1>2

\* A number and its remainder.
LEMMA Division == ASSUME NEW a \in Int, NEW n \in Nat, n > 0
                  PROVE  a \div n \in Int /\ a % n \in 0 .. n - 1 /\ a = n * (a \div n) + (a % n)
  OBVIOUS

\* When a frame number moves by k, its difference to another does.
LEMMA DeltaMoves ==
  ASSUME NEW a \in Frames, NEW b \in Frames, NEW k \in Int,
         FNDelta(a, b) + k \in -HalfModulus .. HalfModulus - 1
  PROVE  FNDelta((a + k) % GMaxFrames, b) = FNDelta(a, b) + k
<1> DEFINE G == GMaxFrames  q == (a + k) \div G  r == (a + k) % G
<1>1. G \in Nat /\ G > 0 /\ a \in Int /\ b \in Int /\ a + k \in Int  BY Halves DEF Frames
<1>2. q \in Int /\ a + k = G * q + r /\ r \in Frames  BY <1>1, Division DEF Frames
<1> HIDE DEF q, r
<1>3. PICK n \in Int : a - b = FNDelta(a, b) + n * G  BY DeltaOf
<1>4. FNDelta(a, b) \in Int  BY FNDeltaRange, Halves
<1>5. r - b = (FNDelta(a, b) + k) + (n - q) * G
  <2> DEFINE x == n * G  y == G * q
  <2>1. r \in Int /\ x \in Int /\ y \in Int  BY <1>1, <1>2 DEF Frames
  <2>2. (n - q) * G = x - y  BY <1>1, <1>2
  <2>3. a + k = y + r /\ a - b = FNDelta(a, b) + x  BY <1>2, <1>3
  <2> HIDE DEF x, y
  <2>4. r - b = (FNDelta(a, b) + k) + (x - y)  BY <1>1, <1>4, <2>1, <2>3
  <2>5. QED  BY <2>2, <2>4
<1>6. n - q \in Int  BY <1>2
<1>7. QED  BY <1>2, <1>5, <1>6, DeltaIs DEF r

\* ... and, seen from the other one, by as much the other way.
LEMMA DeltaMovesBack ==
  ASSUME NEW a \in Frames, NEW b \in Frames, NEW k \in Int,
         FNDelta(b, a) - k \in -HalfModulus .. HalfModulus - 1
  PROVE  FNDelta(b, (a + k) % GMaxFrames) = FNDelta(b, a) - k
<1> DEFINE G == GMaxFrames  q == (a + k) \div G  r == (a + k) % G
<1>1. G \in Nat /\ G > 0 /\ a \in Int /\ b \in Int /\ a + k \in Int  BY Halves DEF Frames
<1>2. q \in Int /\ a + k = G * q + r /\ r \in Frames  BY <1>1, Division DEF Frames
<1> HIDE DEF q, r
<1>3. PICK n \in Int : b - a = FNDelta(b, a) + n * G  BY DeltaOf
<1>4. FNDelta(b, a) \in Int  BY FNDeltaRange, Halves
<1>5. b - r = (FNDelta(b, a) - k) + (n + q) * G
  <2> DEFINE x == n * G  y == G * q
  <2>1. r \in Int /\ x \in Int /\ y \in Int  BY <1>1, <1>2 DEF Frames
  <2>2. (n + q) * G = x + y  BY <1>1, <1>2
  <2>3. a + k = y + r /\ b - a = FNDelta(b, a) + x  BY <1>2, <1>3
  <2> HIDE DEF x, y
  <2>4. b - r = (FNDelta(b, a) - k) + (x + y)  BY <1>1, <1>4, <2>1, <2>3
  <2>5. QED  BY <2>2, <2>4
<1>6. n + q \in Int  BY <1>2
<1>7. QED  BY <1>2, <1>5, <1>6, DeltaIs DEF r

-----------------------------------------------------------------------------
(* The same for times: timeslots between two times.                         *)

\* Distances below half a hyperframe, with a frame to spare.
Near == -((HalfModulus - 1) * GMaxTimeslots) .. (HalfModulus - 1) * GMaxTimeslots

LEMMA TimesAreInts ==
  ASSUME NEW t \in Times
  PROVE  /\ t.fn \in Frames /\ t.tn \in Int /\ 0 <= t.tn /\ t.tn < GMaxTimeslots
         /\ GMaxTimeslots \in Nat /\ GMaxTimeslots >= 1
  BY GsmTimeAssumption DEF Times, Timeslots

LEMMA SlotsAreInts ==
  ASSUME NEW t \in Times, NEW u \in Times PROVE SlotsBetween(t, u) \in Int
<1>1. FNDelta(t.fn, u.fn) \in Int  BY FNDeltaRange, TimesAreInts, Halves
<1>2. FNDelta(t.fn, u.fn) * GMaxTimeslots \in Int  BY <1>1, TimesAreInts
<1>3. QED  BY <1>2, TimesAreInts DEF SlotsBetween

\* A number of whole frames and what is left over.
LEMMA FramesAreFew ==
  ASSUME NEW m \in Int, NEW rest \in Int, NEW T \in Nat, T >= 1, NEW h \in Int,
         rest > -T, rest < T,
         m * T + rest <= (h - 1) * T, m * T + rest >= -((h - 1) * T)
  PROVE  m < h /\ m > -h
<1>1. CASE m >= h
  <2>1. m * T >= h * T  BY <1>1
  <2>2. (h - 1) * T = h * T - T  OBVIOUS
  <2>3. m * T \in Int /\ h * T \in Int  OBVIOUS
  <2>4. QED  BY <2>1, <2>2, <2>3
<1>2. CASE m <= -h
  <2>1. m * T <= -(h * T)  BY <1>2
  <2>2. (h - 1) * T = h * T - T  OBVIOUS
  <2>3. m * T \in Int /\ h * T \in Int  OBVIOUS
  <2>4. QED  BY <2>1, <2>2, <2>3
<1>3. QED  BY <1>1, <1>2

\* A time that moves by n timeslots, over k frame boundaries, is n timeslots
\* further from any other.
LEMMA SlotsMove ==
  ASSUME NEW t \in Times, NEW u \in Times, NEW v \in Times, NEW k \in Int, NEW n \in Int,
         v.fn = (t.fn + k) % GMaxFrames, n = k * GMaxTimeslots + v.tn - t.tn,
         SlotsBetween(t, u) + n \in Near
  PROVE  SlotsBetween(v, u) = SlotsBetween(t, u) + n
<1> DEFINE T == GMaxTimeslots  d == FNDelta(t.fn, u.fn)  rest == v.tn - u.tn
           near == (HalfModulus - 1) * T
<1>1. /\ d \in Int /\ d * T \in Int /\ k * T \in Int /\ T \in Nat /\ T >= 1 /\ near \in Int
      /\ v.tn \in Int /\ t.tn \in Int /\ u.tn \in Int
      /\ rest \in Int /\ rest > -T /\ rest < T
  BY FNDeltaRange, TimesAreInts, Halves
<1>2. (d + k) * T = d * T + k * T  BY <1>1
<1>3. SlotsBetween(t, u) + n = (d + k) * T + rest  BY <1>1, <1>2 DEF SlotsBetween
<1>4. (d + k) * T + rest <= near /\ (d + k) * T + rest >= -near  BY <1>1, <1>3 DEF Near
<1>5. d + k < HalfModulus /\ d + k > -HalfModulus  BY <1>1, <1>4, FramesAreFew, Halves
<1>6. FNDelta(v.fn, u.fn) = d + k  BY <1>1, <1>5, DeltaMoves, TimesAreInts, Halves
<1>7. QED  BY <1>3, <1>6 DEF SlotsBetween

LEMMA SlotsMoveBack ==
  ASSUME NEW t \in Times, NEW u \in Times, NEW v \in Times, NEW k \in Int, NEW n \in Int,
         v.fn = (t.fn + k) % GMaxFrames, n = k * GMaxTimeslots + v.tn - t.tn,
         SlotsBetween(u, t) - n \in Near
  PROVE  SlotsBetween(u, v) = SlotsBetween(u, t) - n
<1> DEFINE T == GMaxTimeslots  d == FNDelta(u.fn, t.fn)  rest == u.tn - v.tn
           near == (HalfModulus - 1) * T
<1>1. /\ d \in Int /\ d * T \in Int /\ k * T \in Int /\ T \in Nat /\ T >= 1 /\ near \in Int
      /\ v.tn \in Int /\ t.tn \in Int /\ u.tn \in Int
      /\ rest \in Int /\ rest > -T /\ rest < T
  BY FNDeltaRange, TimesAreInts, Halves
<1>2. (d - k) * T = d * T - k * T  BY <1>1
<1>3. SlotsBetween(u, t) - n = (d - k) * T + rest  BY <1>1, <1>2 DEF SlotsBetween
<1>4. (d - k) * T + rest <= near /\ (d - k) * T + rest >= -near  BY <1>1, <1>3 DEF Near
<1>5. d - k < HalfModulus /\ d - k > -HalfModulus  BY <1>1, <1>4, FramesAreFew, Halves
<1>6. FNDelta(u.fn, v.fn) = d - k  BY <1>1, <1>5, DeltaMovesBack, TimesAreInts, Halves
<1>7. QED  BY <1>3, <1>6 DEF SlotsBetween

\* Seen from the other frame number a difference is its negative, but for
\* half a hyperframe, which is negative from both sides.
LEMMA DeltaTurns ==
  ASSUME NEW a \in Frames, NEW b \in Frames, FNDelta(a, b) # -HalfModulus
  PROVE  FNDelta(b, a) = -FNDelta(a, b)
<1>1. FNDelta(a, b) \in -HalfModulus .. HalfModulus - 1  BY FNDeltaRange
<1>2. -FNDelta(a, b) \in -HalfModulus .. HalfModulus - 1  BY <1>1, Halves
<1>3. PICK n \in Int : a - b = FNDelta(a, b) + n * GMaxFrames  BY DeltaOf
<1>4. /\ a \in Int /\ b \in Int /\ n * GMaxFrames \in Int /\ FNDelta(a, b) \in Int
      /\ (-n) * GMaxFrames = -(n * GMaxFrames)
  BY <1>1, Halves DEF Frames
<1>5. b - a = -FNDelta(a, b) + (-n) * GMaxFrames  BY <1>3, <1>4
<1>6. QED  BY <1>2, <1>5, DeltaIs

\* Within half a hyperframe the comparison operators order two times as the
\* number of timeslots between them does (gsmtime.h, its operators).
LEMMA SlotsOrder ==
  ASSUME NEW t \in Times, NEW u \in Times, SlotsBetween(t, u) \in Near
  PROVE  /\ Gt(t, u) <=> SlotsBetween(t, u) > 0
         /\ Lt(t, u) <=> SlotsBetween(t, u) < 0
         /\ Ge(t, u) <=> SlotsBetween(t, u) >= 0
         /\ Le(t, u) <=> SlotsBetween(t, u) <= 0
         /\ t = u <=> SlotsBetween(t, u) = 0
         /\ SlotsBetween(u, t) = -SlotsBetween(t, u)
         /\ FNDelta(t.fn, u.fn) = (u.tn + SlotsBetween(t, u)) \div GMaxTimeslots
<1> DEFINE T == GMaxTimeslots  d == FNDelta(t.fn, u.fn)  rest == t.tn - u.tn
           near == (HalfModulus - 1) * T  s == SlotsBetween(t, u)
<1>1. /\ d \in Int /\ d * T \in Int /\ T \in Nat /\ T >= 1 /\ near \in Int
      /\ t.tn \in Int /\ u.tn \in Int /\ 0 <= t.tn /\ t.tn < T
      /\ rest \in Int /\ rest > -T /\ rest < T
  BY FNDeltaRange, TimesAreInts, Halves
<1>2. s = d * T + rest /\ s \in Int  BY <1>1 DEF SlotsBetween
<1>3. d < HalfModulus /\ d > -HalfModulus
  BY <1>1, <1>2, FramesAreFew, Halves DEF Near
<1>4. d = 0 <=> t.fn = u.fn  BY FNDeltaRange, TimesAreInts
<1>5. t = u <=> t.fn = u.fn /\ t.tn = u.tn  BY DEF Times
<1>6. FNDelta(u.fn, t.fn) = -d  BY <1>1, <1>3, DeltaTurns, TimesAreInts, Halves
<1>7. SlotsBetween(u, t) = -s
  <2>1. (-d) * T = -(d * T)  BY <1>1
  <2>2. QED  BY <1>1, <1>2, <1>6, <2>1 DEF SlotsBetween
<1>8. d = (u.tn + s) \div T
  <2>1. u.tn + s = d * T + t.tn  BY <1>1, <1>2
  <2>2. (d * T + t.tn) \div T = d  BY <1>1
  <2>3. QED  BY <2>1, <2>2
<1>9. /\ d > 0 => s > 0
      /\ d < 0 => s < 0
      /\ d = 0 => s = rest
  <2>1. d > 0 => d * T >= T  BY <1>1
  <2>2. d < 0 => d * T <= -T  BY <1>1
  <2>3. d = 0 => d * T = 0  BY <1>1
  <2>4. QED  BY <1>1, <1>2, <2>1, <2>2, <2>3
<1>10. CASE d = 0
  <2>1. t.fn = u.fn /\ s = rest /\ (t = u <=> rest = 0)  BY <1>1, <1>4, <1>5, <1>9, <1>10
  <2>2. /\ Gt(t, u) <=> rest > 0
        /\ Lt(t, u) <=> rest < 0
        /\ Ge(t, u) <=> rest >= 0
        /\ Le(t, u) <=> rest <= 0
    BY <1>1, <2>1 DEF Gt, Lt, Ge, Le
  <2>3. QED  BY <1>7, <1>8, <2>1, <2>2
<1>11. CASE d > 0
  <2>1. FNCompare(t.fn, u.fn) = 1  BY <1>11 DEF FNCompare
  <2>2. t.fn # u.fn /\ t # u /\ s > 0  BY <1>1, <1>4, <1>5, <1>9, <1>11
  <2>3. Gt(t, u) /\ ~Lt(t, u) /\ Ge(t, u) /\ ~Le(t, u)  BY <2>1, <2>2 DEF Gt, Lt, Ge, Le
  <2>4. QED  BY <1>2, <1>7, <1>8, <2>2, <2>3
<1>12. CASE d < 0
  <2>1. FNCompare(t.fn, u.fn) = -1  BY <1>1, <1>12 DEF FNCompare
  <2>2. QED  BY <1>1, <1>2, <1>4, <1>5, <1>7, <1>8, <1>9, <1>12, <2>1 DEF Gt, Lt, Ge, Le
<1>13. QED  BY <1>1, <1>10, <1>11, <1>12

-----------------------------------------------------------------------------
(* The operations as movements by a number of timeslots.                    *)

\* v is n timeslots after t (before it, if n is negative), up to whole
\* hyperframes; Moves: and v is a time of the standard.
Shifts(t, v, n) ==
  \E k \in Int : v.fn = (t.fn + k) % GMaxFrames /\ n = k * GMaxTimeslots + v.tn - t.tn

Moves(t, v, n) == v \in Times /\ Shifts(t, v, n)

LEMMA MovesAway ==
  ASSUME NEW t \in Times, NEW u \in Times, NEW v, NEW n \in Int, Moves(t, v, n),
         SlotsBetween(t, u) + n \in Near
  PROVE  v \in Times /\ SlotsBetween(v, u) = SlotsBetween(t, u) + n
  BY SlotsMove DEF Moves, Shifts

LEMMA MovesCloser ==
  ASSUME NEW t \in Times, NEW u \in Times, NEW v, NEW n \in Int, Moves(t, v, n),
         SlotsBetween(u, t) - n \in Near
  PROVE  v \in Times /\ SlotsBetween(u, v) = SlotsBetween(u, t) - n
  BY SlotsMoveBack DEF Moves, Shifts

LEMMA FrameIsItself == ASSUME NEW fn \in Frames PROVE fn % GMaxFrames = fn
  BY Halves DEF Frames

\* incTN (gsmtime.h), in steps of at most a frame.
LEMMA IncTNMoves ==
  ASSUME NEW t \in Times, NEW step \in 1 .. GMaxTimeslots
  PROVE  Moves(t, IncTN(t, step), step)
<1> DEFINE T == GMaxTimeslots  tn == t.tn + step
<1>1. /\ t.fn \in Frames /\ t.tn \in Int /\ 0 <= t.tn /\ t.tn < T /\ T \in Nat /\ T >= 1
      /\ TNWord \in Nat /\ TNWord >= 2 * T /\ step \in Int /\ 1 <= step /\ step <= T
  BY TimesAreInts, GsmTimeAssumption
<1>2. tn \in 0 .. TNWord - 1 /\ tn % TNWord = tn  BY <1>1
<1>3. CASE tn > T - 1
  <2>1. IncTN(t, step) = Time(NextFrame(t.fn), tn - T)  BY <1>2, <1>3 DEF IncTN
  <2>2. IncTN(t, step) \in Times
    BY <1>1, <1>3, <2>1, NextFrameType DEF Times, Time, Timeslots
  <2>3. /\ IncTN(t, step).fn = (t.fn + 1) % GMaxFrames
        /\ step = 1 * T + IncTN(t, step).tn - t.tn
    BY <1>1, <2>1 DEF Time, NextFrame
  <2>4. QED  BY <2>2, <2>3 DEF Moves, Shifts
<1>4. CASE ~(tn > T - 1)
  <2>1. IncTN(t, step) = Time(t.fn, tn)  BY <1>2, <1>4 DEF IncTN
  <2>2. IncTN(t, step) \in Times  BY <1>1, <1>4, <2>1 DEF Times, Time, Timeslots
  <2>3. t.fn + 0 = t.fn  BY <1>1, Halves DEF Frames
  <2>4. /\ IncTN(t, step).fn = (t.fn + 0) % GMaxFrames
        /\ step = 0 * T + IncTN(t, step).tn - t.tn
    BY <1>1, <2>1, <2>3, FrameIsItself DEF Time
  <2>5. QED  BY <2>2, <2>4 DEF Moves, Shifts
<1>5. QED  BY <1>3, <1>4

\* A term moved across a sum.
LEMMA SumMoved ==
  ASSUME NEW a \in Int, NEW b \in Int, NEW x \in Int, NEW y \in Int, NEW z \in Int,
         a + b = y + z
  PROVE  x + b = (x + y) + z - a
OBVIOUS

\* operator+ with another time (gsmtime.h).
LEMMA AddTimeMoves ==
  ASSUME NEW t \in Times, NEW u \in RawTimes
  PROVE  Moves(t, AddTime(t, u), u.fn * GMaxTimeslots + u.tn)
<1> DEFINE T == GMaxTimeslots  tn == t.tn + u.tn  q == tn \div T  r == tn % T
<1>1. /\ t.fn \in Int /\ t.tn \in Int /\ T \in Nat /\ T > 0 /\ u.fn \in Int /\ u.tn \in Int
  BY TimesAreInts, GsmTimeAssumption DEF RawTimes, Frames
<1>2. q \in Int /\ r \in Int /\ tn = T * q + r
  <2>1. tn \in Int  BY <1>1
  <2>2. q \in Int /\ r \in 0 .. T - 1 /\ tn = T * q + r  BY <1>1, <2>1, Division
  <2>3. r \in Int  BY <1>1, <2>2
  <2>4. QED  BY <2>2, <2>3
<1>3. AddTime(t, u) \in Times  BY AddTimeType, TimesAreRaw
<1>4. AddTime(t, u).fn = (t.fn + u.fn + q) % GMaxFrames /\ AddTime(t, u).tn = r
  BY DEF AddTime, Time
<1> HIDE DEF q, r
<1>5. t.fn + u.fn + q = t.fn + (u.fn + q)  BY <1>1, <1>2
<1>6. u.fn * T + u.tn = (u.fn + q) * T + r - t.tn
  <2> DEFINE x == u.fn * T  y == T * q
  <2>1. (u.fn + q) * T = x + y /\ x \in Int /\ y \in Int  BY <1>1, <1>2
  <2>2. t.tn + u.tn = y + r  BY <1>2, Zenon
  <2>3. t.tn \in Int /\ u.tn \in Int /\ r \in Int  BY <1>1, <1>2
  <2>4. x \in Int /\ y \in Int  BY <2>1
  <2> HIDE DEF x, y
  <2>5. x + u.tn = (x + y) + r - t.tn  BY <2>2, <2>3, <2>4, SumMoved
  <2>6. QED  BY <2>1, <2>5 DEF x
<1>7. u.fn + q \in Int  BY <1>1, <1>2
<1>8. QED  BY <1>3, <1>4, <1>5, <1>6, <1>7 DEF Moves, Shifts

\* operator++ and operator+(uint32_t), where the sum fits the field, and
\* operator-(uint32_t) that stays in the hyperframe (gsmtime.h).
LEMMA IncFNMoves == ASSUME NEW t \in Times PROVE Moves(t, IncFN(t), GMaxTimeslots)
<1>1. IncFN(t) \in Times  BY NextFrameType DEF IncFN, Time, Times
<1>2. IncFN(t).fn = (t.fn + 1) % GMaxFrames /\ GMaxTimeslots = 1 * GMaxTimeslots + IncFN(t).tn - t.tn
  BY TimesAreInts DEF IncFN, Time, NextFrame
<1>3. QED  BY <1>1, <1>2 DEF Moves, Shifts

LEMMA AddFramesMoves ==
  ASSUME NEW t \in Times, NEW step \in Nat, step <= GMaxFrames
  PROVE  Moves(t, AddFrames(t, step), step * GMaxTimeslots)
<1>1. t.fn \in Int /\ t.fn >= 0 /\ t.fn < GMaxFrames /\ t.tn \in Int  BY TimesAreInts, Halves DEF Frames
<1>2. (t.fn + step) % FNWord = t.fn + step  BY <1>1, GsmTimeAssumption
<1>3. AddFrames(t, step).fn = (t.fn + step) % GMaxFrames /\ AddFrames(t, step).tn = t.tn
  BY <1>2 DEF AddFrames, Time
<1>4. AddFrames(t, step) \in Times
  BY <1>1, <1>2, FramesWrap, TimesAreInts DEF AddFrames, Time, Times
<1>5. step * GMaxTimeslots \in Int  BY TimesAreInts
<1>6. step * GMaxTimeslots = step * GMaxTimeslots + AddFrames(t, step).tn - t.tn  BY <1>1, <1>3, <1>5
<1>7. QED  BY <1>3, <1>4, <1>6 DEF Moves, Shifts

LEMMA SubFramesMoves ==
  ASSUME NEW t \in Times, NEW step \in Nat, step <= t.fn, step >= 1
  PROVE  Moves(t, SubFrames(t, step), (-step) * GMaxTimeslots)
<1>1. t.fn \in Int /\ t.fn >= 0 /\ t.fn < GMaxFrames /\ t.tn \in Int  BY TimesAreInts, Halves DEF Frames
<1>2. FNWord \in Nat /\ FNWord >= 2 * GMaxFrames /\ GMaxFrames \in Nat  BY GsmTimeAssumption
<1>3. (-step) % FNWord = FNWord - step  BY <1>1, <1>2
<1>4. (t.fn + (FNWord - step)) % FNWord = t.fn - step  BY <1>1, <1>2
<1>5. t.fn - step = t.fn + (-step) /\ -step \in Int /\ t.fn - step \in Frames  BY <1>1, <1>2 DEF Frames
<1>6. SubFrames(t, step) = Time((t.fn + (-step)) % GMaxFrames, t.tn)
  BY <1>3, <1>4, <1>5 DEF SubFrames, AddFrames
<1>7. SubFrames(t, step) \in Times
  BY <1>5, <1>6, FramesWrap, TimesAreInts DEF Time, Times, Frames
<1>8. (-step) * GMaxTimeslots \in Int  BY TimesAreInts
<1>9. (-step) * GMaxTimeslots = (-step) * GMaxTimeslots + SubFrames(t, step).tn - t.tn
  BY <1>1, <1>6, <1>8 DEF Time
<1>10. SubFrames(t, step).fn = (t.fn + (-step)) % GMaxFrames  BY <1>6 DEF Time
<1>11. QED  BY <1>5, <1>7, <1>9, <1>10 DEF Moves, Shifts

\* The quotient and the remainder are the only numbers that make up a.
LEMMA DivisionIsUnique ==
  ASSUME NEW n \in Nat, n > 0, NEW q \in Int, NEW r \in 0 .. n - 1, NEW a, a = n * q + r
  PROVE  a % n = r /\ a \div n = q
<1> DEFINE d == a \div n - q
<1>1. a \in Int /\ n * q \in Int  BY DEF d
<1>2. a \div n \in Int /\ a % n \in 0 .. n - 1 /\ a = n * (a \div n) + (a % n)
  BY <1>1, Division
<1>3. d \in Int /\ n * d = n * (a \div n) - n * q  BY <1>2
<1>4. n * (a \div n) \in Int  BY <1>2
<1>5. n * d = r - (a % n)  BY <1>1, <1>2, <1>3, <1>4
<1> HIDE DEF d
<1>6. n * d < n /\ n * d > -n  BY <1>2, <1>5
<1>7. CASE d >= 1
  <2>1. n * d >= n  BY <1>3, <1>7
  <2>2. QED  BY <1>3, <1>6, <2>1
<1>8. CASE d <= -1
  <2>1. n * d <= -n  BY <1>3, <1>8
  <2>2. QED  BY <1>3, <1>6, <2>1
<1>9. CASE d = 0
  <2>1. n * d = 0  BY <1>9
  <2>2. QED  BY <1>2, <1>5, <1>9, <2>1 DEF d
<1>10. QED  BY <1>3, <1>7, <1>8, <1>9

LEMMA SmallDivision ==
  ASSUME NEW n \in Nat, n > 0, NEW a \in 0 .. n - 1 PROVE a % n = a /\ a \div n = 0
<1>1. a = n * 0 + a /\ 0 \in Int  OBVIOUS
<1>2. QED  BY <1>1, DivisionIsUnique

\* Whole multiples do not show in a remainder.
LEMMA ModForgets ==
  ASSUME NEW n \in Nat, n > 0, NEW a \in Int, NEW k \in Int
  PROVE  (a + n * k) % n = a % n
<1> DEFINE q == a \div n  r == a % n
<1>1. q \in Int /\ r \in 0 .. n - 1 /\ a = n * q + r  BY Division
<1> HIDE DEF q, r
<1>2. n * (q + k) = n * q + n * k /\ n * q \in Int /\ n * k \in Int  BY <1>1
<1>3. a + n * k = n * (q + k) + r
  <2> DEFINE x == n * q  y == n * k
  <2>1. n * (q + k) = x + y /\ x \in Int /\ y \in Int /\ a = x + r /\ r \in Int  BY <1>1, <1>2
  <2> HIDE DEF x, y
  <2>2. a + y = (x + y) + r  BY <2>1
  <2>3. QED  BY <2>1, <2>2 DEF y
<1>4. q + k \in Int  BY <1>1
<1> DEFINE b == a + n * k  p == q + k
<1>5. b = n * p + r /\ p \in Int  BY <1>3, <1>4
<1> HIDE DEF b, p
<1>6. b % n = r  BY <1>1, <1>5, DivisionIsUnique
<1>7. QED  BY <1>6 DEF b, r

\* What a remainder forgets, as a multiple that is added.
LEMMA ModIsSum ==
  ASSUME NEW n \in Nat, n > 0, NEW a \in Int
  PROVE  a % n \in Int /\ \E e \in Int : a % n = a + n * e
<1> DEFINE q == a \div n  r == a % n
<1>1. q \in Int /\ r \in 0 .. n - 1 /\ a = n * q + r  BY Division
<1> HIDE DEF q, r
<1>2. n * (-q) = -(n * q) /\ n * q \in Int /\ -q \in Int  BY <1>1
<1> DEFINE x == n * q
<1>3. a = x + r /\ r \in Int /\ x \in Int  BY <1>1, <1>2
<1> HIDE DEF x
<1>4. r = a + (-x)  BY <1>3
<1>5. r = a + n * (-q)  BY <1>2, <1>4 DEF x
<1>6. r \in Int /\ \E e \in Int : r = a + n * e  BY <1>2, <1>3, <1>5
<1>7. QED  BY <1>6 DEF r

\* A sum of two times shifts by what its parts shift by (gsmtime.h operator+).
LEMMA SumsShift ==
  ASSUME NEW t \in RawTimes, NEW v \in RawTimes, NEW u \in RawTimes, NEW w \in RawTimes,
         NEW n \in Int, NEW m \in Int, Shifts(t, v, n), Shifts(u, w, m)
  PROVE  Moves(AddTime(t, u), AddTime(v, w), n + m)
<1> DEFINE G == GMaxFrames  T == GMaxTimeslots
           a == AddTime(t, u)  b == AddTime(v, w)
           q == (t.tn + u.tn) \div T  r == (t.tn + u.tn) % T
           p == (v.tn + w.tn) \div T  s == (v.tn + w.tn) % T
<1>1. /\ G \in Nat /\ G > 0 /\ T \in Nat /\ T > 0
      /\ t.fn \in Int /\ u.fn \in Int /\ v.fn \in Int /\ w.fn \in Int
      /\ t.tn \in Int /\ u.tn \in Int /\ v.tn \in Int /\ w.tn \in Int
  BY GsmTimeAssumption DEF RawTimes, Frames
<1>2. PICK k \in Int : v.fn = (t.fn + k) % G /\ n = k * T + v.tn - t.tn  BY DEF Shifts
<1>3. PICK j \in Int : w.fn = (u.fn + j) % G /\ m = j * T + w.tn - u.tn  BY DEF Shifts
<1>4. a \in Times /\ b \in Times  BY AddTimeType
<1>5. /\ q \in Int /\ r \in Int /\ t.tn + u.tn = T * q + r
      /\ p \in Int /\ s \in Int /\ v.tn + w.tn = T * p + s
  <2>1. t.tn + u.tn \in Int /\ v.tn + w.tn \in Int  BY <1>1
  <2>2. /\ q \in Int /\ r \in 0 .. T - 1 /\ t.tn + u.tn = T * q + r
        /\ p \in Int /\ s \in 0 .. T - 1 /\ v.tn + w.tn = T * p + s
    BY <1>1, <2>1, Division
  <2>3. r \in Int /\ s \in Int  BY <1>1, <2>2
  <2>4. QED  BY <2>2, <2>3
<1>6. /\ a.fn = (t.fn + u.fn + q) % G /\ a.tn = r
      /\ b.fn = (v.fn + w.fn + p) % G /\ b.tn = s
  BY DEF AddTime, Time
<1> HIDE DEF q, r, p, s, a, b
<1> DEFINE step == k + j + p - q
<1>7. b.fn = (a.fn + step) % G
  <2> DEFINE tk == t.fn + k  uj == u.fn + j  tu == t.fn + u.fn + q
  <2>a. tk \in Int /\ uj \in Int /\ tu \in Int  BY <1>1, <1>5
  <2>b. v.fn = tk % G /\ w.fn = uj % G /\ a.fn = tu % G  BY <1>2, <1>3, <1>6
  <2> HIDE DEF tk, uj, tu
  <2>c. /\ \E e \in Int : tk % G = tk + G * e
        /\ \E e \in Int : uj % G = uj + G * e
        /\ tu % G \in Int /\ \E e \in Int : tu % G = tu + G * e
    <3> HIDE DEF G
    <3>1. \E e \in Int : tk % G = tk + G * e  BY <1>1, <2>a, ModIsSum
    <3>2. \E e \in Int : uj % G = uj + G * e  BY <1>1, <2>a, ModIsSum
    <3>3. tu % G \in Int /\ \E e \in Int : tu % G = tu + G * e  BY <1>1, <2>a, ModIsSum
    <3>4. QED  BY <3>1, <3>2, <3>3
  <2>1. PICK c \in Int : v.fn = tk + G * c  BY <2>b, <2>c
  <2>2. PICK d \in Int : w.fn = uj + G * d  BY <2>b, <2>c
  <2>4. a.fn \in Int /\ \E e \in Int : a.fn = tu + G * e  BY <2>b, <2>c
  <2>5. PICK e \in Int : a.fn = tu + G * e  BY <2>4
  <2> DEFINE x == G * c  y == G * d  z == G * e  f == c + d - e
  <2>6. x \in Int /\ y \in Int /\ z \in Int /\ G * f = x + y - z /\ f \in Int  BY <1>1
  <2>7. v.fn = (t.fn + k) + x /\ w.fn = (u.fn + j) + y /\ a.fn = (t.fn + u.fn + q) + z
    BY <2>1, <2>2, <2>5 DEF tk, uj, tu
  <2> HIDE DEF x, y, z
  <2>8. v.fn + w.fn + p = (a.fn + step) + (x + y - z)
    BY <1>1, <1>5, <2>4, <2>6, <2>7
  <2> DEFINE new == v.fn + w.fn + p  old == a.fn + step
  <2>9. old \in Int  BY <1>5, <2>4
  <2>10. f \in Int /\ new = old + G * f  BY <2>6, <2>8
  <2> HIDE DEF f, new, old
  <2>12. new % G = old % G  BY <1>1, <2>9, <2>10, ModForgets
  <2>11. QED  BY <1>6, <2>12 DEF new, old
<1>8. n + m = step * T + b.tn - a.tn
  <2> DEFINE x == k * T  y == j * T  z == T * p  o == T * q
  <2>1. x \in Int /\ y \in Int /\ z \in Int /\ o \in Int /\ step * T = x + y + z - o
    BY <1>1, <1>5
  <2>2. /\ n = x + v.tn - t.tn /\ m = y + w.tn - u.tn
        /\ t.tn + u.tn = o + r /\ v.tn + w.tn = z + s /\ r \in Int /\ s \in Int
    BY <1>2, <1>3, <1>5
  <2> HIDE DEF x, y, z, o
  <2>3. n + m = (x + y + z - o) + s - r  BY <1>1, <2>1, <2>2
  <2>4. QED  BY <1>6, <2>1, <2>3
<1>9. step \in Int  BY <1>5
<1>10. QED  BY <1>4, <1>7, <1>8, <1>9 DEF Moves, Shifts, a, b
=============================================================================
