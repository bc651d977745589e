---------------------------- MODULE SignalFilter ----------------------------
(***************************************************************************)
(* The filters of sigProcLib.cpp: convolve pads its input and calls a       *)
(* kernel of convolve.c, and delayVector is built on it.  The values of the *)
(* input name their own places and the filter is one unit tap, so that the  *)
(* output says which sample every tap meets; by linearity that decides the  *)
(* result for all data.  What the library was last asked, and its answer,   *)
(* are the state.                                                           *)
(***************************************************************************)
EXTENDS Convolve, Sequences

CONSTANTS
  FilterUses,     \* the filters the program applies, see FilterUse
  Delays          \* whole samples that delayVector is asked to shift by

VARIABLE filter

unfiltered == [op |-> "idle"]

\* real, aligned: isRealOnly and isAligned of the filter h; stuffed: every
\* step-th tap only can differ from zero; y_len = 0: no output is passed.
FilterUse ==
  [real : BOOLEAN, aligned : BOOLEAN, h_len : Nat, x_len : Nat, y_len : Nat,
   span : {"START_ONLY", "NO_DELAY", "CUSTOM"}, start : Int, len : Nat, step : Nat]

ASSUME FilterAssumption ==
  FilterUses \subseteq FilterUse /\ Delays \subseteq Int

-----------------------------------------------------------------------------
Samples(n) == [f \in 0 .. 2 * n - 1 |-> f + 1]
UnitTap(h_len, f) == [g \in 0 .. 2 * h_len - 1 |-> IF g = f THEN 1 ELSE 0]

\* The signalVector with room for head samples before and tail after.
Padded(x, x_len, head, tail) ==
  [f \in -2 * head .. 2 * (x_len + tail) - 1 |-> IF f \in DOMAIN x THEN x[f] ELSE 0]

\* Fault: the room before the input is a sample short.
PaddingShort(u) ==
  CASE u.span = "START_ONLY" -> [start |-> 0, head |-> u.h_len - 2, tail |-> 0, len |-> u.x_len]
    [] u.span = "NO_DELAY" ->
         LET half == u.h_len \div 2
         IN [start |-> half, head |-> half, tail |-> half, len |-> u.x_len]
    [] OTHER ->
         [start |-> u.start, len |-> u.len, head |-> 0, tail |-> 0]

\* start is compared as an unsigned number with the size of h.
Padding(u) ==
  CASE u.span = "START_ONLY" -> [start |-> 0, head |-> u.h_len, tail |-> 0, len |-> u.x_len]
    [] u.span = "NO_DELAY" ->
         LET half == u.h_len \div 2
         IN [start |-> half, head |-> half, tail |-> half, len |-> u.x_len]
    [] OTHER ->
         [start |-> u.start, len |-> u.len,
          head |-> IF u.start \in 0 .. u.h_len - 2 THEN u.h_len - u.start ELSE 0,
          tail |-> IF u.start + u.len > u.x_len THEN u.start + u.len - u.x_len ELSE 0]

\* What the callers see to: the sizes pass the check of the kernels, and the
\* start that is compared unsigned is not negative.
Fits(u) ==
  LET p == Padding(u)
  IN /\ u.h_len >= 1 /\ u.step >= 1 /\ p.start >= 0 /\ p.len >= 1
     /\ u.h_len <= u.x_len + p.tail /\ (u.y_len = 0 \/ u.y_len >= p.len)

ASSUME UsesFit == \A u \in FilterUses : Fits(u)

convolve(u, x, h, sse) ==
  LET p == Padding(u)
      c == [x |-> Padded(x, u.x_len, p.head, p.tail), x_len |-> u.x_len + p.tail,
            h |-> h, h_len |-> u.h_len, start |-> p.start, len |-> p.len,
            y_len |-> IF u.y_len = 0 THEN p.len ELSE u.y_len,
            step |-> u.step, offset |-> 0]
  IN CASE p.len > c.y_len -> Refused
       [] u.aligned /\ u.real -> convolve_real(c, sse)
       [] u.aligned /\ ~u.real -> convolve_complex(c, sse)
       [] ~u.aligned /\ u.real -> base_convolve_real(c)
       [] OTHER -> base_convolve_complex(c)

-----------------------------------------------------------------------------
(* delayVector: a 20 tap sinc for the fraction, of which only the tap at    *)
(* the middle of the lobe is kept here, then a shift by whole samples.      *)

SincTaps == 20
SincUse(n) ==
  [real |-> TRUE, aligned |-> TRUE, h_len |-> SincTaps, x_len |-> n, y_len |-> 0,
   span |-> "NO_DELAY", start |-> 0, len |-> 0, step |-> 1]

\* The taps are stored from the last one: i = h_len / 2 is the middle.
MiddleTap == SincTaps - 1 - SincTaps \div 2

\* Fault: the samples that are shifted out come in again at the other end.
DelayedAround(y, n, whole) == [i \in 0 .. n - 1 |-> y[(i - whole) % n]]

Delayed(y, n, whole) ==
  [i \in 0 .. n - 1 |-> IF i - whole \in 0 .. n - 1 THEN y[i - whole] ELSE <<0, 0>>]

delayVector(n, whole, fraction, sse) ==
  LET x == Samples(n)
      y == IF fraction
           THEN convolve(SincUse(n), x, UnitTap(SincTaps, 2 * MiddleTap), sse)
           ELSE [i \in 0 .. n - 1 |-> <<x[2 * i], x[2 * i + 1]>>]
  IN Delayed(y, n, whole)

-----------------------------------------------------------------------------
FilterInit == filter = unfiltered

TapFloats(u) ==
  {f \in 0 .. 2 * u.h_len - 1 : (f \div 2) % u.step = 0 /\ (u.real => f % 2 = 0)}

Convolving ==
  /\ filter = unfiltered
  /\ \E u \in FilterUses, sse \in BOOLEAN : \E tap \in TapFloats(u) :
       filter' = [op |-> "convolve", use |-> u, tap |-> tap,
                  out |-> convolve(u, Samples(u.x_len), UnitTap(u.h_len, tap), sse)]

Delaying ==
  /\ filter = unfiltered
  /\ \E whole \in Delays, fraction \in BOOLEAN, sse \in BOOLEAN :
       filter' = [op |-> "delay", whole |-> whole, n |-> SincTaps + 2,
                  out |-> delayVector(SincTaps + 2, whole, fraction, sse)]

Answered == filter # unfiltered /\ filter' = unfiltered

FilterNext == Convolving \/ Delaying \/ Answered

FilterSpec == FilterInit /\ [][FilterNext]_filter

-----------------------------------------------------------------------------
\* The reference: sample n of the input continued with zeros at both ends.
Sample(x, n) == IF 2 * n \in DOMAIN x THEN <<x[2 * n], x[2 * n + 1]>> ELSE <<0, 0>>

TimesI(s) == <<-s[2], s[1]>>

\* Every filter of the library is the convolution with its taps, whatever
\* the kernel that computes it: the SSE kernels and the plain ones, the
\* kernels that skip the taps between symbols, and the padding of the three
\* span types meet the same samples and read nothing but the input and its
\* padding.  A delay moves every sample by the whole part and nothing else
\* (sigProcLib.cpp convolve and delayVector, convolve.c).
FilterIsConvolution ==
  /\ filter.op = "convolve" =>
       LET u == filter.use
           p == Padding(u)
           x == Samples(u.x_len)
           start == CASE u.span = "START_ONLY" -> 0
                      [] u.span = "NO_DELAY" -> u.h_len \div 2
                      [] OTHER -> u.start
           len == IF u.span = "CUSTOM" THEN u.len ELSE u.x_len
           sample(i) == Sample(x, i + start - (u.h_len - 1) + filter.tap \div 2)
       IN filter.out = [i \in 0 .. len - 1 |->
                          IF filter.tap % 2 = 0 THEN sample(i) ELSE TimesI(sample(i))]
  /\ filter.op = "delay" =>
       filter.out = [i \in 0 .. filter.n - 1 |-> Sample(Samples(filter.n), i - filter.whole)]
=============================================================================
