----------------------------- MODULE SignalProofs -----------------------------
(***************************************************************************)
(* What holds of the signal processing for every filter, block and burst:   *)
(* Convert keeps samples in their places, BurstModem stays inside its       *)
(* bursts and measures delays, every kernel of SignalFilter convolves, and  *)
(* the blocks of Resampler join to one stream.                              *)
(***************************************************************************)
EXTENDS Convert, BurstModem, SignalFilter, Resampler, GsmTimeProofs, SequenceTheorems,
        FiniteSetTheorems

-----------------------------------------------------------------------------
(***************************************************************************)
(* Convert: the index arithmetic of the kernels, then rounding, clipping    *)
(* and truncation of one sample.                                            *)
(***************************************************************************)
\* Where a float of the whole blocks is in its block.
LEMMA InEight ==
  ASSUME NEW len \in Nat, NEW f \in 0 .. 8 * (len \div 8) - 1
  PROVE  /\ f \in 0 .. len - 1 /\ f \div 8 \in Nat /\ f % 8 \in 0 .. 7
         /\ f = 8 * (f \div 8) + (f % 8)
  OBVIOUS

LEMMA InSixteen ==
  ASSUME NEW len \in Nat, NEW f \in 0 .. 16 * (len \div 16) - 1
  PROVE  /\ f \in 0 .. len - 1 /\ f \div 16 \in Nat /\ f % 16 \in 0 .. 15
         /\ f = 16 * (f \div 16) + (f % 16)
         /\ f % 8 = IF f % 16 < 8 THEN f % 16 ELSE (f % 16) - 8
         /\ f = 8 * (f \div 8) + (f % 8)
  OBVIOUS

\* The range of a short.
Shorts ==
  /\ ShortMin \in Int /\ ShortMax \in Int /\ ShortMin < 0 /\ ShortMax >= 0
  /\ ShortMax = -ShortMin - 1 /\ ShortWidth = -2 * ShortMin

LEMMA ShortRange == Shorts
  BY ConvertAssumption DEF ShortMin, ShortMax, Shorts

\* Rounding and truncation are both within one step.
LEMMA Nearby == ASSUME NEW q \in Int PROVE Nearest(q) \in Int /\ 4 * Nearest(q) - q \in -2 .. 2
  BY DEF Nearest

\* n is the clipped conversion of the quarters q.
Clips(q, n) ==
  /\ q \in 4 * ShortMin .. 4 * ShortMax => 4 * n - q \in -3 .. 3
  /\ q \notin 4 * ShortMin .. 4 * ShortMax => n = IF q < 0 THEN ShortMin ELSE ShortMax

LEMMA RoundedClips == ASSUME NEW q \in Int PROVE Clips(q, Saturated(Nearest(q)))
<1>1. PICK n \in Int : n = Nearest(q) /\ 4 * n - q \in -2 .. 2  BY Nearby
<1>2. CASE n < ShortMin
  <2>1. Saturated(n) = ShortMin  BY <1>1, <1>2, ShortRange DEF Saturated, Shorts
  <2>2. QED  BY <1>1, <1>2, <2>1, ShortRange DEF Shorts, Clips
<1>3. CASE n > ShortMax
  <2>1. Saturated(n) = ShortMax  BY <1>1, <1>3, ShortRange DEF Saturated, Shorts
  <2>2. QED  BY <1>1, <1>3, <2>1, ShortRange DEF Shorts, Clips
<1>4. CASE n >= ShortMin /\ n <= ShortMax
  <2>1. Saturated(n) = n  BY <1>1, <1>4, ShortRange DEF Saturated, Shorts
  <2>2. QED  BY <1>1, <1>4, <2>1, ShortRange DEF Shorts, Clips
<1>5. QED  BY <1>1, <1>2, <1>3, <1>4, ShortRange DEF Shorts

LEMMA TruncatedFits ==
  ASSUME NEW q \in Int, q \in 4 * ShortMin .. 4 * ShortMax
  PROVE  4 * Truncated(q) - q \in -3 .. 3
<1>1. PICK n : n = IF q < 0 THEN -((-q) \div 4) ELSE q \div 4  OBVIOUS
<1>2. /\ n \in Int /\ 4 * n - q \in -3 .. 3
      /\ q < 0 => q <= 4 * n
      /\ q >= 0 => 4 * n <= q /\ n >= 0
  BY <1>1
<1>3. n \in ShortMin .. ShortMax  BY <1>2, ShortRange DEF Shorts
<1>4. PICK low \in Int : low = ShortMin BY ShortRange DEF Shorts
<1>5. n - low \in 0 .. ShortWidth - 1 /\ ShortWidth \in Nat
  BY <1>2, <1>3, <1>4, ShortRange DEF Shorts
<1>6. (n - low) % ShortWidth = n - low BY <1>2, <1>4, <1>5
<1>7. Truncated(q) = n  BY <1>1, <1>2, <1>4, <1>6 DEF Truncated
<1>8. QED  BY <1>2, <1>7

\* One pack of eight floats from "at" on.
LEMMA PackedInPlace ==
  ASSUME NEW in, NEW scale, NEW at \in Nat, NEW l \in 0 .. 7
  PROVE  packs(Scaled(in, at, scale), Scaled(in, at + 4, scale))[l]
           = Saturated(Nearest(in[at + l] * scale))
<1>1. CASE l < 4
  <2>1. Scaled(in, at, scale)[l] = Nearest(in[at + l] * scale)  BY <1>1 DEF Scaled, Quad
  <2>2. QED  BY <1>1, <2>1 DEF packs
<1>2. CASE ~(l < 4)
  <2>1. l - 4 \in 0 .. 3 /\ (at + 4) + (l - 4) = at + l  BY <1>2
  <2>2. Scaled(in, at + 4, scale)[l - 4] = Nearest(in[at + l] * scale)
    BY <2>1 DEF Scaled, Quad
  <2>3. QED  BY <1>2, <2>2 DEF packs
<1>3. QED  BY <1>1, <1>2

\* Every sample of whole blocks is rounded and clipped, in its own place.
LEMMA EightRound ==
  ASSUME NEW in, NEW scale, NEW len \in Nat, NEW out,
         out = _sse_convert_scale_ps_si16_8n(in, scale, len)
  PROVE  /\ DOMAIN out = 0 .. 8 * (len \div 8) - 1
         /\ \A f \in DOMAIN out : out[f] = Saturated(Nearest(in[f] * scale))
<1> DEFINE value(f) ==
      packs(Scaled(in, 8 * (f \div 8), scale), Scaled(in, 8 * (f \div 8) + 4, scale))[f % 8]
<1>1. out = [f \in 0 .. 8 * (len \div 8) - 1 |-> value(f)]
  BY Zenon DEF _sse_convert_scale_ps_si16_8n
<1>2. ASSUME NEW f \in 0 .. 8 * (len \div 8) - 1
      PROVE  value(f) = Saturated(Nearest(in[f] * scale))
  <2>1. PICK i \in Nat, l \in 0 .. 7 : i = f \div 8 /\ l = f % 8 /\ f = 8 * i + l
    BY InEight
  <2>2. value(f) = packs(Scaled(in, 8 * i, scale), Scaled(in, 8 * i + 4, scale))[l]
    BY <2>1
  <2>3. PICK at \in Nat : at = 8 * i  OBVIOUS
  <2>4. value(f) = packs(Scaled(in, at, scale), Scaled(in, at + 4, scale))[l] /\ at + l = f
    BY <2>1, <2>2, <2>3
  <2> HIDE DEF value
  <2>5. QED  BY <2>4, PackedInPlace
<1> HIDE DEF value
<1>3. QED  BY <1>1, <1>2

LEMMA SixteenRound ==
  ASSUME NEW in, NEW scale, NEW len \in Nat, NEW out,
         out = _sse_convert_scale_ps_si16_16n(in, scale, len)
  PROVE  /\ DOMAIN out = 0 .. 16 * (len \div 16) - 1
         /\ \A f \in DOMAIN out : out[f] = Saturated(Nearest(in[f] * scale))
<1> DEFINE m(f, n) == Scaled(in, 16 * (f \div 16) + 4 * n, scale)
           value(f) == IF f % 16 < 8 THEN packs(m(f, 0), m(f, 1))[f % 8]
                                     ELSE packs(m(f, 2), m(f, 3))[f % 8]
<1>1. out = [f \in 0 .. 16 * (len \div 16) - 1 |-> value(f)]
  BY Zenon DEF _sse_convert_scale_ps_si16_16n
<1>2. ASSUME NEW f \in 0 .. 16 * (len \div 16) - 1
      PROVE  value(f) = Saturated(Nearest(in[f] * scale))
  <2>1. PICK i \in Nat, s \in 0 .. 15, l \in 0 .. 7 :
           i = f \div 16 /\ s = f % 16 /\ l = f % 8 /\ f = 16 * i + s
           /\ l = IF s < 8 THEN s ELSE s - 8
    BY InSixteen
  <2>2. CASE s < 8
    <3>1. PICK at \in Nat : at = 16 * i  OBVIOUS
    <3>2. f = at + l /\ 16 * i + 4 * 0 = at /\ 16 * i + 4 * 1 = at + 4  BY <2>1, <2>2, <3>1
    <3>3. value(f) = packs(Scaled(in, at, scale), Scaled(in, at + 4, scale))[l]
      BY <2>1, <2>2, <3>2
    <3>4. QED  BY <3>2, <3>3, PackedInPlace
  <2>3. CASE ~(s < 8)
    <3>1. PICK at \in Nat : at = 16 * i + 8  OBVIOUS
    <3>2. f = at + l /\ 16 * i + 4 * 2 = at /\ 16 * i + 4 * 3 = at + 4  BY <2>1, <2>3, <3>1
    <3>3. value(f) = packs(Scaled(in, at, scale), Scaled(in, at + 4, scale))[l]
      BY <2>1, <2>3, <3>2
    <3>4. QED  BY <3>2, <3>3, PackedInPlace
  <2>4. QED  BY <2>2, <2>3
<1> HIDE DEF value
<1>3. QED  BY <1>1, <1>2

\* Whichever kernels handle a block.
LEMMA SendsInPlace ==
  ASSUME NEW len \in Nat, NEW in \in [0 .. len - 1 -> Int], NEW scale \in Nat,
         NEW sse \in BOOLEAN, NEW out, out = convert_float_short(in, scale, len, sse)
  PROVE  /\ DOMAIN out = 0 .. len - 1
         /\ \A f \in 0 .. len - 1 :
              \/ out[f] = Saturated(Nearest(in[f] * scale))
              \/ out[f] = Truncated(in[f] * scale) /\ ~(sse /\ len % 8 = 0)
<1>1. CASE ~sse
  <2>1. out = [f \in 0 .. len - 1 |-> Truncated(in[f] * scale)]
    BY <1>1 DEF convert_float_short
  <2>2. QED  BY <1>1, <2>1
<1>2. CASE sse /\ len % 16 = 0
  <2>1. out = _sse_convert_scale_ps_si16_16n(in, scale, len)  BY <1>2 DEF convert_float_short
  <2>2. 16 * (len \div 16) = len  BY <1>2
  <2>3. QED  BY <2>1, <2>2, SixteenRound
<1>3. CASE sse /\ len % 16 # 0 /\ len % 8 = 0
  <2>1. out = _sse_convert_scale_ps_si16_8n(in, scale, len)  BY <1>3 DEF convert_float_short
  <2>2. 8 * (len \div 8) = len  BY <1>3
  <2>3. DOMAIN out = 0 .. len - 1  BY <2>1, <2>2, EightRound
  <2>4. \A f \in DOMAIN out : out[f] = Saturated(Nearest(in[f] * scale))
    BY <2>1, EightRound
  <2>5. QED  BY <2>3, <2>4
<1>4. CASE sse /\ len % 16 # 0 /\ len % 8 # 0
  <2>1. out = _sse_convert_scale_ps_si16(in, scale, len)  BY <1>4 DEF convert_float_short
  <2>2. PICK start \in Nat : start = (len \div 8) * 8  OBVIOUS
  <2>3. start + (len % 8) = len /\ 8 * (len \div 8) = start  BY <2>2
  <2>4. PICK whole : whole = _sse_convert_scale_ps_si16_8n(in, scale, len)  OBVIOUS
  <2>5. out = [f \in 0 .. len - 1 |->
                 IF f < start THEN whole[f] ELSE Truncated(in[f] * scale)]
    BY <2>1, <2>2, <2>3, <2>4 DEF _sse_convert_scale_ps_si16
  <2>6. \A f \in 0 .. len - 1 : f < start => whole[f] = Saturated(Nearest(in[f] * scale))
    <3>1. DOMAIN whole = 0 .. start - 1
      <4>1. DOMAIN whole = 0 .. 8 * (len \div 8) - 1  BY <2>4, EightRound
      <4>2. QED  BY <2>3, <4>1
    <3>2. \A f \in DOMAIN whole : whole[f] = Saturated(Nearest(in[f] * scale))
      BY <2>4, EightRound
    <3>3. \A f \in 0 .. len - 1 : f < start => f \in 0 .. start - 1  OBVIOUS
    <3>4. QED  BY <3>1, <3>2, <3>3
  <2>7. QED  BY <1>4, <2>5, <2>6
<1>5. QED  BY <1>1, <1>2, <1>3, <1>4

LEMMA ReceivesInPlace ==
  ASSUME NEW len \in Nat, NEW in, NEW sse4 \in BOOLEAN
  PROVE  convert_short_float(in, len, sse4) = [f \in 0 .. len - 1 |-> in[f] * 4]
<1> DEFINE whole == _sse_convert_si16_ps_16n(in, len)
           value(f) == Widened(in, 8 * (f \div 8), f % 8 >= 4)[f % 4] * 4
<1>1. whole = [f \in 0 .. 16 * (len \div 16) - 1 |-> value(f)]
  BY Zenon DEF _sse_convert_si16_ps_16n
<1>2. ASSUME NEW f \in 0 .. 16 * (len \div 16) - 1 PROVE value(f) = in[f] * 4
  <2>1. PICK i \in Nat, l \in 0 .. 7, k \in 0 .. 3 :
           i = f \div 8 /\ l = f % 8 /\ k = f % 4 /\ f = 8 * i + l
           /\ l = IF l < 4 THEN k ELSE k + 4
    OBVIOUS
  <2>2. value(f) = Widened(in, 8 * i, l >= 4)[k] * 4  BY <2>1
  <2>3. CASE l < 4
    <3>1. Widened(in, 8 * i, FALSE)[k] = in[8 * i + k]  BY DEF Widened
    <3>2. (l >= 4) = FALSE /\ 8 * i + k = f  BY <2>1, <2>3
    <3> HIDE DEF value
    <3>3. QED  BY <2>2, <3>1, <3>2
  <2>4. CASE l >= 4
    <3>1. (k + 4) % 8 = l  BY <2>1, <2>4
    <3>2. Widened(in, 8 * i, TRUE)[k] = in[8 * i + l]  BY <3>1 DEF Widened
    <3>3. (l >= 4) = TRUE /\ 8 * i + l = f  BY <2>1, <2>4
    <3> HIDE DEF value
    <3>4. QED  BY <2>2, <3>2, <3>3
  <2>5. QED  BY <2>3, <2>4
<1> HIDE DEF value
<1>3. whole = [f \in 0 .. 16 * (len \div 16) - 1 |-> in[f] * 4]  BY <1>1, <1>2
<1>4. CASE ~sse4  BY <1>4 DEF convert_short_float
<1>5. CASE sse4 /\ len % 16 = 0
  <2>1. convert_short_float(in, len, sse4) = whole  BY <1>5 DEF convert_short_float
  <2>2. 16 * (len \div 16) = len  BY <1>5
  <2> HIDE DEF whole
  <2>3. QED  BY <1>3, <2>1, <2>2
<1>6. CASE sse4 /\ len % 16 # 0
  <2>1. PICK start \in Nat : start = (len \div 16) * 16  OBVIOUS
  <2>2. start + (len % 16) = len /\ 16 * (len \div 16) = start  BY <2>1
  <2>3. convert_short_float(in, len, sse4)
          = [f \in 0 .. len - 1 |-> IF f < start THEN whole[f] ELSE in[f] * 4]
    BY <1>6, <2>1, <2>2 DEF convert_short_float, _sse_convert_si16_ps
  <2> HIDE DEF whole
  <2>4. \A f \in 0 .. len - 1 : f < start => whole[f] = in[f] * 4  BY <1>3, <2>2
  <2>5. QED  BY <2>3, <2>4
<1>7. QED  BY <1>4, <1>5, <1>6

LEMMA NextConverts == ConvertsInPlace /\ [ConvertNext]_conversion => ConvertsInPlace'
<1> SUFFICES ASSUME ConvertsInPlace, [ConvertNext]_conversion PROVE ConvertsInPlace'
  OBVIOUS
<1>1. CASE Sending
  <2>1. PICK len \in Lengths, scale \in Scales, offset \in Offsets, sse \in BOOLEAN :
          LET in == [f \in 0 .. len - 1 |-> 5 * f + offset]
          IN conversion' = [op |-> "send", in |-> in, scale |-> scale, len |-> len, sse |-> sse,
                            out |-> convert_float_short(in, scale, len, sse)]
    BY <1>1 DEF Sending
  <2>2. len \in Nat /\ scale \in Nat /\ offset \in Int  BY ConvertAssumption
  <2>3. PICK in : in = [f \in 0 .. len - 1 |-> 5 * f + offset]  OBVIOUS
  <2>4. PICK out : out = convert_float_short(in, scale, len, sse)  OBVIOUS
  <2>5. conversion' = [op |-> "send", in |-> in, scale |-> scale, len |-> len, sse |-> sse,
                       out |-> out]
    BY <2>1, <2>3, <2>4
  <2>6. in \in [0 .. len - 1 -> Int]  BY <2>2, <2>3
  <2>7. /\ DOMAIN out = 0 .. len - 1
        /\ \A f \in 0 .. len - 1 :
              \/ out[f] = Saturated(Nearest(in[f] * scale))
              \/ out[f] = Truncated(in[f] * scale) /\ ~(sse /\ len % 8 = 0)
    BY <2>2, <2>4, <2>6, SendsInPlace
  <2>8. ASSUME NEW f \in 0 .. len - 1
        PROVE  CASE in[f] * scale \in 4 * ShortMin .. 4 * ShortMax ->
                      4 * out[f] - in[f] * scale \in -3 .. 3
                 [] in[f] * scale \notin 4 * ShortMin .. 4 * ShortMax /\ sse /\ len % 8 = 0 ->
                      out[f] = IF in[f] * scale < 0 THEN ShortMin ELSE ShortMax
                 [] OTHER -> TRUE
    <3>1. PICK q \in Int : q = in[f] * scale  BY <2>2, <2>6
    <3>2. CASE q \in 4 * ShortMin .. 4 * ShortMax
      <4>1. 4 * out[f] - q \in -3 .. 3
        BY <2>7, <3>1, <3>2, RoundedClips, TruncatedFits DEF Clips
      <4>2. QED  BY <3>1, <3>2, <4>1
    <3>3. CASE q \notin 4 * ShortMin .. 4 * ShortMax
      <4>1. sse /\ len % 8 = 0 => out[f] = IF q < 0 THEN ShortMin ELSE ShortMax
        BY <2>7, <3>1, <3>3, RoundedClips DEF Clips
      <4>2. QED  BY <3>1, <3>3, <4>1
    <3>4. QED  BY <3>2, <3>3
  <2>9. QED  BY <2>5, <2>7, <2>8 DEF ConvertsInPlace
<1>2. CASE Receiving
  <2>1. PICK len \in Lengths, sse4 \in BOOLEAN :
          LET in == [f \in 0 .. len - 1 |-> f + ShortMin]
          IN conversion' = [op |-> "receive", in |-> in, len |-> len,
                            out |-> convert_short_float(in, len, sse4)]
    BY <1>2 DEF Receiving
  <2>2. PICK in : in = [f \in 0 .. len - 1 |-> f + ShortMin]  OBVIOUS
  <2>3. len \in Nat  BY ConvertAssumption
  <2>4. PICK out : out = convert_short_float(in, len, sse4)  OBVIOUS
  <2>5. out = [f \in 0 .. len - 1 |-> in[f] * 4]  BY <2>3, <2>4, ReceivesInPlace
  <2>6. conversion' = [op |-> "receive", in |-> in, len |-> len, out |-> out]
    BY <2>1, <2>2, <2>4
  <2>7. \A f \in 0 .. len - 1 : in[f] * 4 = 4 * in[f]
    BY <2>2, <2>3, ShortRange DEF Shorts
  <2>8. QED  BY <2>5, <2>6, <2>7 DEF ConvertsInPlace
<1>3. CASE Converted
  BY <1>3 DEF Converted, unconverted, ConvertsInPlace
<1>4. CASE UNCHANGED conversion
  BY <1>4 DEF ConvertsInPlace
<1>5. QED  BY <1>1, <1>2, <1>3, <1>4 DEF ConvertNext

\* Samples are converted in place for every block length, scale and width of
\* a short, whichever kernels handle the block (convert.c).
THEOREM BlocksConvertInPlace == ConvertSpec => []ConvertsInPlace
<1>1. ConvertInit => ConvertsInPlace  BY DEF ConvertInit, unconverted, ConvertsInPlace
<1>2. QED  BY <1>1, NextConverts, PTL DEF ConvertSpec

-----------------------------------------------------------------------------
(***************************************************************************)
(* BurstModem: symbols in a burst, and peaks in a search window.            *)
(***************************************************************************)
\* Every sps-th of symbols * sps samples.
LEMMA EveryNth ==
  ASSUME NEW symbols \in Nat, NEW sps \in {1, 4}, NEW taken,
         taken = {n \in 0 .. symbols * sps - 1 : n % sps = 0}
  PROVE  Cardinality(taken) = symbols
<1> DEFINE f == [k \in 0 .. symbols - 1 |-> sps * k]
<1>1. IsFiniteSet(0 .. symbols - 1) /\ Cardinality(0 .. symbols - 1) = symbols
  BY FS_Interval
<1>2. \A k \in 0 .. symbols - 1 : sps * k \in taken
  <2>1. CASE sps = 1  BY <2>1
  <2>2. CASE sps = 4  BY <2>2
  <2>3. QED  BY <2>1, <2>2
<1>3. \A n \in taken : \E k \in 0 .. symbols - 1 : sps * k = n
  <2>1. CASE sps = 1  BY <2>1
  <2>2. CASE sps = 4
    <3>1. SUFFICES ASSUME NEW n \in taken PROVE \E k \in 0 .. symbols - 1 : 4 * k = n  BY <2>2
    <3>2. n \in Nat /\ n <= symbols * 4 - 1 /\ n % 4 = 0  BY <2>2
    <3>3. n \div 4 \in 0 .. symbols - 1 /\ 4 * (n \div 4) = n  BY <3>2
    <3>4. QED  BY <3>3
  <2>3. QED  BY <2>1, <2>2
<1>4. \A k, l \in 0 .. symbols - 1 : sps * k = sps * l => k = l  OBVIOUS
<1>5. f \in Bijection(0 .. symbols - 1, taken)
  BY <1>2, <1>3, <1>4 DEF Bijection, Injection, Surjection, IsInjective
<1>6. ExistsBijection(0 .. symbols - 1, taken)  BY <1>5 DEF ExistsBijection
<1>7. QED  BY <1>1, <1>6, FS_Bijection

\* Two different numbers of a finite set.
LEMMA AtLeastTwo ==
  ASSUME NEW S, IsFiniteSet(S), NEW a \in S, NEW b \in S, a # b
  PROVE  Cardinality(S) >= 2
<1>1. IsFiniteSet({a}) /\ Cardinality({a}) = 1  BY FS_Singleton
<1>2. Cardinality({a} \cup {b}) = 2  BY <1>1, FS_AddElement
<1>3. {a} \cup {b} \in SUBSET S  OBVIOUS
<1>4. Cardinality(S) \in Nat BY FS_CardinalityType
<1>5. Cardinality({a} \cup {b}) <= Cardinality(S)  BY <1>3, FS_Subset
<1>6. QED  BY <1>2, <1>4, <1>5

\* The ratio of a peak that is not cut off has samples to read.
LEMMA RatioHasSamples ==
  ASSUME NEW sps \in {1, 4}, NEW len \in Nat, NEW peak \in Nat, peak >= 3 * sps
  PROVE  RatioCount(peak, len, sps) \in Nat /\ RatioCount(peak, len, sps) >= 2
<1> DEFINE Before == {j \in 2 * sps .. 5 * sps : peak - j >= 0}
           After == {j \in 2 * sps .. 5 * sps : peak + j < len}
<1>1. IsFiniteSet(2 * sps .. 5 * sps)  BY FS_Interval
<1>2. IsFiniteSet(Before) /\ IsFiniteSet(After)  BY <1>1, FS_Subset
<1>3. 2 * sps \in Before /\ 2 * sps + 1 \in Before /\ 2 * sps # 2 * sps + 1  OBVIOUS
<1>4. RatioCount(peak, len, sps) = Cardinality(Before) + Cardinality(After)  BY DEF RatioCount
<1> HIDE DEF Before, After
<1>5. Cardinality(Before) \in Nat /\ Cardinality(After) \in Nat  BY <1>2, FS_CardinalityType
<1>6. Cardinality(Before) >= 2  BY <1>2, <1>3, AtLeastTwo
<1>7. QED  BY <1>4, <1>5, <1>6

\* Where a search looks.
LEMMA SearchIs ==
  ASSUME NEW kind \in {"RACH", "TSC"}, NEW sps \in {1, 4}, NEW maxDelay \in Nat, NEW s, NEW len,
         s = Search(kind, maxDelay), len = SearchWindow(s, sps).len
  PROVE  /\ len = (4 + s.tail) * sps /\ s.tail \in Nat /\ s.head = 4 /\ len \in Nat
         /\ kind = "RACH" => s.tail = 10
         /\ kind = "TSC" => s.tail = 4 + maxDelay
         /\ \A delay \in Int : PeakPlace(s, sps, delay) = 4 * sps + delay
  BY DEF Search, SearchWindow, PeakPlace

\* What a detector answers: it looks around a peak inside the window only, and
\* reports a strong one that is not cut off, less the head.
Detected(s, sps, peak, strong, move, out) ==
  LET len == (4 + s.tail) * sps
  IN /\ out.points \subseteq 0 .. len - 1
     /\ out.result.rc = 1 => /\ 3 * sps <= peak /\ peak <= len - 3 * sps
                             /\ out.result.toa = peak + move - 4 * sps
     /\ strong /\ 3 * sps <= peak /\ peak <= len - 3 * sps =>
          out.result.rc = 1 /\ out.result.toa = peak + move - 4 * sps

LEMMA DetectedIs ==
  ASSUME NEW kind \in {"RACH", "TSC"}, NEW sps \in {1, 4}, NEW maxDelay \in Nat,
         NEW strong \in BOOLEAN, NEW move \in Int, NEW peak \in Int, NEW s, NEW out,
         s = Search(kind, maxDelay), out = detectBurst(s, sps, peak, strong, move)
  PROVE  Detected(s, sps, peak, strong, move, out)
<1>1. PICK len : len = SearchWindow(s, sps).len  OBVIOUS
<1>2. len = (4 + s.tail) * sps /\ len \in Nat /\ s.head = 4  BY <1>1, SearchIs
<1>3. CASE EdgeRejected(peak, len, sps)
  <2>1. out.result.rc = 0 /\ out.points = {}  BY <1>1, <1>3 DEF detectBurst
  <2>2. ~(3 * sps <= peak /\ peak <= len - 3 * sps)  BY <1>2, <1>3 DEF EdgeRejected
  <2>3. QED  BY <1>2, <2>1, <2>2 DEF Detected
<1>4. CASE ~EdgeRejected(peak, len, sps)
  <2>1. 3 * sps <= peak /\ peak <= len - 3 * sps /\ peak \in Nat  BY <1>2, <1>4 DEF EdgeRejected
  <2>2. ~(RatioCount(peak, len, sps) < 2)
    <3>1. PICK n \in Nat : n = RatioCount(peak, len, sps) /\ n >= 2
      BY <1>2, <2>1, RatioHasSamples
    <3>2. QED  BY <3>1
  <2>3. CASE ~strong
    <3>1. out.result.rc = 0 /\ out.points = {}  BY <1>1, <1>4, <2>3 DEF detectBurst
    <3>2. QED  BY <1>2, <2>3, <3>1 DEF Detected
  <2>4. CASE strong
    <3>1. /\ out.result.rc = 1 /\ out.result.toa = peak + move - s.head * sps
          /\ out.points = UNION {InterpolationReads(w, len) : w \in peak - 2 .. peak + 1}
      BY <1>1, <1>4, <2>2, <2>4 DEF detectBurst
    <3>2. \A w \in Int : InterpolationReads(w, len) \subseteq 0 .. len - 1
      BY <1>2 DEF InterpolationReads
    <3>3. out.points \subseteq 0 .. len - 1  BY <2>1, <3>1, <3>2
    <3>4. QED  BY <1>2, <2>1, <2>4, <3>1, <3>3 DEF Detected
  <2>5. QED  BY <2>3, <2>4
<1>5. QED  BY <1>3, <1>4

ModemOK == BurstsStayInside /\ DelayIsMeasured

\* Symbols sps samples apart, in a burst that is long enough.
LEMMA SymbolsApart ==
  ASSUME NEW sps \in {1, 4}, NEW last \in Nat, NEW room \in Nat, last < room, NEW places,
         places = [k \in 0 .. last |-> sps * k]
  PROVE  /\ \A k, l \in DOMAIN places : k # l => places[k] # places[l]
         /\ \A k \in DOMAIN places : places[k] \in 0 .. sps * room - 1
<1>1. CASE sps = 1  BY <1>1
<1>2. CASE sps = 4  BY <1>2
<1>3. QED  BY <1>1, <1>2

\* The symbols of a modulated burst, and what the second component reads.
Inside(sps, len, places, phases) ==
  /\ \A k, l \in DOMAIN places : k # l => places[k] # places[l]
  /\ \A k \in DOMAIN places : places[k] \in 0 .. len - 1
  /\ phases \subseteq {places[k] : k \in DOMAIN places}
  /\ len <= RotationTable(sps)

LEMMA ModulatesInside ==
  ASSUME NEW empty \in BOOLEAN,
         NEW b \in IF empty THEN EmptyPulseBursts ELSE TxBursts \cup SyncBursts,
         NEW sps \in {1, 4}, NEW out, out = modulateBurst(b[1], b[2], sps, empty)
  PROVE  Inside(sps, out.len, out.places, out.phases)
<1>1. PICK bits \in Nat, guard \in Nat : b[1] = bits /\ b[2] = guard /\ bits + guard <= 157
           /\ bits >= 16 /\ bits + 4 <= 157
  BY DEF EmptyPulseBursts, TxBursts, SyncBursts, SlotBits
<1>2. CASE empty \/ sps = 1
  <2>1. out = [len |-> sps * (bits + guard), places |-> [k \in 0 .. bits - 1 |-> sps * k],
               phases |-> {}]
    BY <1>1, <1>2 DEF modulateBurst, rotateBurst, modulateBurstBasic
  <2>2. PICK places : places = [k \in 0 .. bits - 1 |-> sps * k]  OBVIOUS
  <2>3. out.places = places /\ out.len = sps * (bits + guard) /\ out.phases = {}
    BY <2>1, <2>2
  <2>4. bits - 1 \in Nat /\ bits + guard \in Nat /\ bits - 1 < bits + guard  BY <1>1
  <2>5. sps * (bits + guard) <= RotationTable(sps)
    BY <1>1 DEF RotationTable, TableSymbols
  <2>6. /\ \A k, l \in DOMAIN places : k # l => places[k] # places[l]
        /\ \A k \in DOMAIN places : places[k] \in 0 .. sps * (bits + guard) - 1
    BY <2>2, <2>4, SymbolsApart
  <2>7. Inside(sps, sps * (bits + guard), places, {})  BY <2>5, <2>6 DEF Inside
  <2>8. QED  BY <2>3, <2>7
<1>3. CASE ~empty /\ sps = 4
  <2>1. PICK room \in Nat :
          room = (IF guard < 4 THEN 4 ELSE guard) /\ room >= 4 /\ bits + room <= 157
    BY <1>1
  <2>2. out = [len |-> sps * (bits + room), places |-> [k \in 0 .. bits + 1 |-> sps * k],
               phases |-> {sps * k : k \in 2 .. bits + 1}]
    BY <1>1, <1>3, <2>1 DEF modulateBurst, modulateBurstLaurent
  <2>3. PICK places : places = [k \in 0 .. bits + 1 |-> sps * k]  OBVIOUS
  <2>4. /\ out.places = places /\ out.len = sps * (bits + room)
        /\ out.phases = {sps * k : k \in 2 .. bits + 1}
    BY <2>2, <2>3
  <2>5. bits + 1 \in Nat /\ bits + room \in Nat /\ bits + 1 < bits + room  BY <1>1, <2>1
  <2>6. /\ \A k, l \in DOMAIN places : k # l => places[k] # places[l]
        /\ \A k \in DOMAIN places : places[k] \in 0 .. sps * (bits + room) - 1
    BY <2>3, <2>5, SymbolsApart
  <2>7. \A k \in 2 .. bits + 1 : k \in DOMAIN places /\ places[k] = sps * k  BY <2>3
  <2>8. sps * (bits + room) <= RotationTable(sps)
    BY <1>1, <2>1 DEF RotationTable, TableSymbols
  <2>9. out.phases \subseteq {places[k] : k \in DOMAIN places}  BY <2>4, <2>7
  <2>10. Inside(sps, sps * (bits + room), places, out.phases)
    BY <2>6, <2>8, <2>9 DEF Inside
  <2>11. QED  BY <2>4, <2>10
<1>4. QED  BY <1>2, <1>3

LEMMA NextModem == ModemOK /\ [ModemNext]_modem => ModemOK'
<1> SUFFICES ASSUME ModemOK, [ModemNext]_modem PROVE ModemOK'
  OBVIOUS
<1>1. CASE Modulating
  <2>1. PICK empty \in BOOLEAN :
          \E b \in IF empty THEN EmptyPulseBursts ELSE TxBursts \cup SyncBursts,
             sps \in IF empty THEN RxSps ELSE TxSps \cup RxSps :
          modem' = [op |-> "modulate", sps |-> sps, out |-> modulateBurst(b[1], b[2], sps, empty)]
    BY <1>1 DEF Modulating
  <2>2. PICK b \in IF empty THEN EmptyPulseBursts ELSE TxBursts \cup SyncBursts,
             sps \in IF empty THEN RxSps ELSE TxSps \cup RxSps :
          modem' = [op |-> "modulate", sps |-> sps, out |-> modulateBurst(b[1], b[2], sps, empty)]
    BY <2>1
  <2>3. sps \in {1, 4}  BY ModemAssumption
  <2>4. PICK out : out = modulateBurst(b[1], b[2], sps, empty)  OBVIOUS
  <2>5. modem' = [op |-> "modulate", sps |-> sps, out |-> out]  BY <2>2, <2>4
  <2>6. Inside(sps, out.len, out.places, out.phases)
    BY <2>3, <2>4, ModulatesInside
  <2>7. QED  BY <2>5, <2>6 DEF Inside, ModemOK, BurstsStayInside, DelayIsMeasured
<1>2. CASE Demodulating
  <2>1. PICK symbols \in {156, 157}, sps \in RxSps :
          modem' = [op |-> "demodulate", sps |-> sps, size |-> symbols * sps,
                    out |-> decimateVector(symbols * sps, sps),
                    energy |-> EnergySamples(symbols * sps, 20 * sps)]
    BY <1>2 DEF Demodulating
  <2>2. sps \in {1, 4} /\ symbols \in Nat  BY ModemAssumption
  <2>3. PICK out : out = decimateVector(symbols * sps, sps)  OBVIOUS
  <2>4. out.len = symbols /\ Cardinality(out.taken) = symbols
    <3>1. out.len = (symbols * sps) \div sps  BY <2>3 DEF decimateVector
    <3>2. out.taken = {n \in 0 .. symbols * sps - 1 : n % sps = 0}
      BY <2>3 DEF decimateVector
    <3>3. (symbols * sps) \div sps = symbols  BY <2>2
    <3>4. QED  BY <2>2, <3>1, <3>2, <3>3, EveryNth
  <2>5. PICK energy : energy = EnergySamples(symbols * sps, 20 * sps)  OBVIOUS
  <2>6. energy \subseteq 0 .. symbols * sps - 1 /\ symbols * sps <= RotationTable(sps)
    BY <2>2, <2>5 DEF EnergySamples, RotationTable, TableSymbols
  <2>7. modem' = [op |-> "demodulate", sps |-> sps, size |-> symbols * sps,
                  out |-> out, energy |-> energy]
    BY <2>1, <2>3, <2>5
  <2>8. QED  BY <2>4, <2>6, <2>7 DEF ModemOK, BurstsStayInside, DelayIsMeasured
<1>3. CASE Detecting
  <2>1. PICK kind \in {"RACH", "TSC"}, sps \in RxSps, maxDelay \in MaxDelays :
          \E strong \in BOOLEAN, move \in {-1, 0, 1},
             peak \in -1 .. SearchWindow(Search(kind, maxDelay), sps).len - 1 :
          modem' = [op |-> "detect", kind |-> kind, sps |-> sps, maxDelay |-> maxDelay,
                    peak |-> peak, strong |-> strong,
                    out |-> detectBurst(Search(kind, maxDelay), sps, peak, strong, move)]
    BY <1>3 DEF Detecting
  <2>2. PICK strong \in BOOLEAN, move \in {-1, 0, 1},
             peak \in -1 .. SearchWindow(Search(kind, maxDelay), sps).len - 1 :
          modem' = [op |-> "detect", kind |-> kind, sps |-> sps, maxDelay |-> maxDelay,
                    peak |-> peak, strong |-> strong,
                    out |-> detectBurst(Search(kind, maxDelay), sps, peak, strong, move)]
    BY <2>1
  <2>3. sps \in {1, 4} /\ maxDelay \in Nat /\ peak \in Int  BY ModemAssumption
  <2>4. PICK s : s = Search(kind, maxDelay)  OBVIOUS
  <2>5. PICK out : out = detectBurst(s, sps, peak, strong, move)  OBVIOUS
  <2>6. modem' = [op |-> "detect", kind |-> kind, sps |-> sps, maxDelay |-> maxDelay,
                  peak |-> peak, strong |-> strong, out |-> out]
    BY <2>2, <2>4, <2>5
  <2>7. Detected(s, sps, peak, strong, move, out)  BY <2>3, <2>4, <2>5, DetectedIs
  <2>8. PICK len : len = SearchWindow(s, sps).len  OBVIOUS
  <2>9. /\ len = (4 + s.tail) * sps /\ s.tail \in Nat /\ len \in Nat
        /\ kind = "RACH" => s.tail = 10
        /\ kind = "TSC" => s.tail = 4 + maxDelay
        /\ \A delay \in Int : PeakPlace(s, sps, delay) = 4 * sps + delay
    BY <2>3, <2>4, <2>8, SearchIs
  <2>10. SearchOf(modem') = s /\ LenOf(modem') = len
    BY <2>4, <2>6, <2>8 DEF SearchOf, LenOf
  <2>11. BurstsStayInside'
    BY <2>6, <2>7, <2>9, <2>10 DEF BurstsStayInside, Detected
  <2>12. PICK expected \in Nat : expected = IF kind = "RACH" THEN s.tail - 3 ELSE maxDelay
    BY <2>3, <2>9
  <2>13. expected <= s.tail - 3  BY <2>3, <2>9, <2>12
  <2>14. ASSUME NEW delay \in 0 .. expected * sps, peak = PeakPlace(s, sps, delay), strong
         PROVE  out.result.rc = 1 /\ out.result.toa \in delay - 1 .. delay + 1
    <3>1. peak = 4 * sps + delay /\ delay \in Nat /\ delay <= (s.tail - 3) * sps
      BY <2>3, <2>9, <2>12, <2>13, <2>14
    <3>2. 3 * sps <= peak /\ peak <= (4 + s.tail) * sps - 3 * sps  BY <2>3, <2>9, <3>1
    <3>3. out.result.rc = 1 /\ out.result.toa = peak + move - 4 * sps
      BY <2>7, <2>14, <3>2 DEF Detected
    <3>4. QED  BY <2>3, <3>1, <3>3
  <2>15. ASSUME out.result.rc = 1
         PROVE  out.result.toa \in -sps - 1 .. (s.tail - 3) * sps + 1
    <3>1. 3 * sps <= peak /\ peak <= (4 + s.tail) * sps - 3 * sps
          /\ out.result.toa = peak + move - 4 * sps
      BY <2>7, <2>15 DEF Detected
    <3>2. QED  BY <2>3, <2>9, <3>1
  <2>16. DelayIsMeasured'
    BY <2>6, <2>10, <2>12, <2>14, <2>15 DEF DelayIsMeasured
  <2>17. QED  BY <2>11, <2>16 DEF ModemOK
<1>4. CASE Reported
  BY <1>4 DEF Reported, quiet, ModemOK, BurstsStayInside, DelayIsMeasured
<1>5. CASE UNCHANGED modem
  BY <1>5 DEF ModemOK, BurstsStayInside, DelayIsMeasured
<1>6. QED  BY <1>1, <1>2, <1>3, <1>4, <1>5 DEF ModemNext

LEMMA ModemHolds == ModemSpec => []ModemOK
<1>1. ModemInit => ModemOK
  BY DEF ModemInit, quiet, ModemOK, BurstsStayInside, DelayIsMeasured
<1>2. QED  BY <1>1, NextModem, PTL DEF ModemSpec

\* For either oversampling and every maximum delay, modulators, demodulators
\* and detectors stay inside their bursts and tables (sigProcLib.cpp).
THEOREM ModemStaysInside == ModemSpec => []BurstsStayInside
<1>1. ModemOK => BurstsStayInside  BY DEF ModemOK
<1>2. QED  BY <1>1, ModemHolds, PTL

\* A burst that is late by any delay up to the maximum is reported with that
\* delay (detectRACHBurst, analyzeTrafficBurst, detectBurst).
THEOREM ModemMeasuresDelay == ModemSpec => []DelayIsMeasured
<1>1. ModemOK => DelayIsMeasured  BY DEF ModemOK
<1>2. QED  BY <1>1, ModemHolds, PTL

-----------------------------------------------------------------------------
(* Sums over finite sets, of which one term counts.                         *)

\* SumFunction, as the fold over the subsets of the domain.
Folded(f, sum) ==
  sum = [s \in SUBSET DOMAIN f |->
           IF s = {} THEN 0 ELSE LET x == CHOOSE x \in s : TRUE IN f[x] + sum[s \ {x}]]

\* The fold, as far as sets of n members.
FoldedTo(f, n, sum) ==
  /\ sum \in [SUBSET DOMAIN f -> Int]
  /\ \A s \in SUBSET DOMAIN f : Cardinality(s) <= n =>
       sum[s] = IF s = {} THEN 0 ELSE LET x == CHOOSE x \in s : TRUE IN f[x] + sum[s \ {x}]

\* One member less.
LEMMA Removal ==
  ASSUME NEW D, IsFiniteSet(D), NEW s \in SUBSET D, s # {}, NEW x, x = CHOOSE y \in s : TRUE
  PROVE  /\ x \in s /\ s \ {x} \in SUBSET D /\ s \ {x} # s
         /\ Cardinality(s) \in Nat /\ Cardinality(s \ {x}) = Cardinality(s) - 1
         /\ Cardinality(s \ {x}) \in Nat
<1>1. x \in s  OBVIOUS
<1>2. IsFiniteSet(s)  BY FS_Subset
<1>3. QED  BY <1>1, <1>2, FS_RemoveElement, FS_CardinalityType

\* A fold that is right for n members makes one that is right for n + 1.
LEMMA FoldExtends ==
  ASSUME NEW f, IsFiniteSet(DOMAIN f), \A k \in DOMAIN f : f[k] \in Int,
         NEW n \in Nat, NEW g, FoldedTo(f, n, g)
  PROVE  \E h : FoldedTo(f, n + 1, h)
<1> DEFINE D == DOMAIN f
           next(s) == LET x == CHOOSE x \in s : TRUE IN f[x] + g[s \ {x}]
<1>1. PICK h : h = [s \in SUBSET D |-> IF Cardinality(s) <= n THEN g[s] ELSE next(s)]
  OBVIOUS
<1>2. \A s \in SUBSET D : Cardinality(s) \in Nat  BY FS_Subset, FS_CardinalityType
<1>3. ASSUME NEW s \in SUBSET D, s # {} PROVE next(s) \in Int
  <2>1. PICK x : x = CHOOSE y \in s : TRUE  OBVIOUS
  <2>2. x \in s /\ s \ {x} \in SUBSET D  BY <1>3, <2>1, Removal
  <2>3. f[x] \in Int /\ g[s \ {x}] \in Int  BY <2>2 DEF FoldedTo
  <2>4. next(s) = f[x] + g[s \ {x}]  BY <2>1
  <2>5. QED  BY <2>3, <2>4
<1>4. Cardinality({}) = 0  BY FS_EmptySet
<1>5. h \in [SUBSET D -> Int]
  <2>1. ASSUME NEW s \in SUBSET D PROVE h[s] \in Int
    <3>1. CASE Cardinality(s) <= n  BY <1>1, <3>1 DEF FoldedTo
    <3>2. CASE ~(Cardinality(s) <= n)
      <4>1. s # {}  BY <1>4, <3>2
      <4> HIDE DEF next
      <4>2. QED  BY <1>1, <1>3, <3>2, <4>1
    <3>3. QED  BY <3>1, <3>2
  <2> HIDE DEF next
  <2>2. QED  BY <1>1, <2>1
<1>6. ASSUME NEW s \in SUBSET D, Cardinality(s) <= n + 1, s # {}, NEW x, x = CHOOSE y \in s : TRUE
      PROVE  h[s] = f[x] + h[s \ {x}]
  <2>1. s \ {x} \in SUBSET D /\ Cardinality(s \ {x}) = Cardinality(s) - 1 /\ Cardinality(s) \in Nat
    BY <1>6, Removal
  <2>2. h[s \ {x}] = g[s \ {x}]  BY <1>1, <1>6, <2>1
  <2>3. next(s) = f[x] + g[s \ {x}]  BY <1>6
  <2>4. g[s] = next(s) \/ ~(Cardinality(s) <= n)  BY <1>6 DEF FoldedTo
  <2>5. h[s] = next(s)
    <3> HIDE DEF next
    <3>1. QED  BY <1>1, <2>4
  <2>6. QED  BY <2>2, <2>3, <2>5
<1>7. h[{}] = 0
  <2>1. g[{}] = 0  BY <1>4 DEF FoldedTo
  <2>2. QED  BY <1>1, <1>4, <2>1
<1>8. FoldedTo(f, n + 1, h)  BY <1>5, <1>6, <1>7 DEF FoldedTo
<1>9. QED  BY <1>8

\* The fold is a function: CHOOSE finds one.
LEMMA FoldExists ==
  ASSUME NEW f, IsFiniteSet(DOMAIN f), \A k \in DOMAIN f : f[k] \in Int
  PROVE  \E sum : Folded(f, sum) /\ sum \in [SUBSET DOMAIN f -> Int]
<1> DEFINE Missing == {n \in Nat : ~\E g : FoldedTo(f, n, g)}
<1>1. ASSUME Missing # {} PROVE FALSE
  <2>1. PICK n \in Missing : \A m \in Missing : n <= m
    <3>1. Missing \subseteq Nat  OBVIOUS
    <3> HIDE DEF Missing
    <3>2. QED  BY <1>1, <3>1, LeastNatural
  <2>2. CASE n = 0
    <3>1. PICK g : g = [s \in SUBSET DOMAIN f |-> 0]  OBVIOUS
    <3>2. \A s \in SUBSET DOMAIN f : Cardinality(s) <= 0 => s = {}
      BY FS_Subset, FS_CardinalityType, FS_EmptySet
    <3>3. FoldedTo(f, 0, g)  BY <3>1, <3>2 DEF FoldedTo
    <3>4. QED  BY <2>2, <3>3
  <2>3. CASE n # 0
    <3>1. n - 1 \in Nat /\ ~(n <= n - 1) /\ (n - 1) + 1 = n  BY <2>3
    <3>2. PICK g : FoldedTo(f, n - 1, g)  BY <2>1, <3>1
    <3>3. \E h : FoldedTo(f, (n - 1) + 1, h)  BY <3>1, <3>2, FoldExtends
    <3>4. QED  BY <2>1, <3>1, <3>3
  <2>4. QED  BY <2>2, <2>3
<1>2. PICK n \in Nat : n = Cardinality(DOMAIN f)  BY FS_CardinalityType
<1>3. PICK g : FoldedTo(f, n, g)  BY <1>1
<1>4. \A s \in SUBSET DOMAIN f : Cardinality(s) <= n  BY <1>2, FS_Subset
<1>5. g = [s \in SUBSET DOMAIN f |->
             IF s = {} THEN 0 ELSE LET x == CHOOSE x \in s : TRUE IN f[x] + g[s \ {x}]]
  BY <1>3, <1>4 DEF FoldedTo
<1>6. QED  BY <1>3, <1>5 DEF Folded, FoldedTo

\* SumFunction of the community modules is that fold.
LEMMA SumIsFolded ==
  ASSUME NEW f, IsFiniteSet(DOMAIN f), \A k \in DOMAIN f : f[k] \in Int
  PROVE  \E sum : Folded(f, sum) /\ SumFunction(f) = sum[DOMAIN f]
<1> DEFINE sum == CHOOSE h : h = [s \in SUBSET DOMAIN f |->
             IF s = {} THEN 0 ELSE LET x == CHOOSE x \in s : TRUE IN f[x] + h[s \ {x}]]
<1>1. SumFunction(f) = sum[DOMAIN f]
  BY Zenon DEF SumFunction, SumFunctionOnSet, FoldFunctionOnSet, MapThenFoldSet
<1>2. Folded(f, sum)
  <2>1. \E h : h = [s \in SUBSET DOMAIN f |->
             IF s = {} THEN 0 ELSE LET x == CHOOSE x \in s : TRUE IN f[x] + h[s \ {x}]]
    <3>1. PICK h : Folded(f, h)  BY FoldExists
    <3>2. QED  BY <3>1, Zenon DEF Folded
  <2>2. QED  BY <2>1, Zenon DEF Folded
<1> HIDE DEF sum
<1>3. QED  BY <1>1, <1>2

\* A sum of which only one term can differ from zero.
LEMMA SumOfOne ==
  ASSUME NEW f, IsFiniteSet(DOMAIN f), \A k \in DOMAIN f : f[k] \in Int, NEW t,
         \A k \in DOMAIN f : k # t => f[k] = 0
  PROVE  SumFunction(f) = IF t \in DOMAIN f THEN f[t] ELSE 0
<1>1. PICK sum : Folded(f, sum) /\ SumFunction(f) = sum[DOMAIN f]  BY SumIsFolded
<1> DEFINE D == DOMAIN f
           Right(s) == sum[s] = IF t \in s THEN f[t] ELSE 0
           Wrong == {n \in Nat : \E s \in SUBSET D : Cardinality(s) = n /\ ~Right(s)}
<1>2. ASSUME Wrong # {} PROVE FALSE
  <2>1. PICK n \in Wrong : \A m \in Wrong : n <= m
    <3>1. Wrong \subseteq Nat  OBVIOUS
    <3> HIDE DEF Wrong
    <3>2. QED  BY <1>2, <3>1, LeastNatural
  <2>2. PICK s \in SUBSET D : Cardinality(s) = n /\ ~Right(s)  BY <2>1
  <2>3. sum[{}] = 0  BY <1>1 DEF Folded
  <2>4. s # {}  BY <2>2, <2>3
  <2>5. PICK x : x = CHOOSE y \in s : TRUE  OBVIOUS
  <2>6. /\ x \in s /\ s \ {x} \in SUBSET D /\ n \in Nat
        /\ Cardinality(s \ {x}) = n - 1 /\ Cardinality(s \ {x}) \in Nat
    <3>1. n \in Nat /\ s \in SUBSET D /\ IsFiniteSet(D)  BY <2>1
    <3> HIDE DEF D, Right, Wrong
    <3>2. QED  BY <2>2, <2>4, <2>5, <3>1, Removal
  <2>7. Right(s \ {x})
    <3>1. n - 1 \in Nat /\ ~(n <= n - 1)  BY <2>6
    <3>2. n - 1 \notin Wrong  BY <2>1, <3>1
    <3> HIDE DEF Right
    <3>3. QED  BY <2>6, <3>1, <3>2
  <2>8. sum[s] = f[x] + sum[s \ {x}]  BY <1>1, <2>4, <2>5 DEF Folded
  <2>9. f[x] \in Int  BY <2>6
  <2>10. CASE x = t
    <3>1. sum[s \ {x}] = 0  BY <2>7, <2>10
    <3>2. QED  BY <2>2, <2>6, <2>8, <2>9, <2>10, <3>1
  <2>11. CASE x # t
    <3>1. f[x] = 0  BY <2>6, <2>11
    <3>2. sum[s \ {x}] = IF t \in s THEN f[t] ELSE 0  BY <2>7, <2>11
    <3>3. (IF t \in s THEN f[t] ELSE 0) \in Int  OBVIOUS
    <3>4. QED  BY <2>2, <2>8, <3>1, <3>2, <3>3
  <2>12. QED  BY <2>10, <2>11
<1>3. Cardinality(D) \in Nat  BY FS_CardinalityType
<1>4. Right(D)
  <2>1. Cardinality(D) \notin Wrong  BY <1>2
  <2> HIDE DEF Right
  <2>2. QED  BY <1>3, <2>1
<1>5. QED  BY <1>1, <1>4

-----------------------------------------------------------------------------
(* Convolve: a filter of one tap meets one sample, in every kernel.         *)

\* A read finds an integer, inside or outside.
Numbers(v) == \A f \in DOMAIN v : v[f] \in Int

LEMMA ReadIsInt == ASSUME NEW v, Numbers(v), NEW f PROVE Read(v, f) \in Int
  BY DEF Numbers, Read, Garbage

\* What the real taps of filter h, of which float tap is one, meet.
Meeting(x, i, tap) ==
  LET at == 2 * (i + (tap \div 2))
  IN IF tap % 2 = 0 THEN <<Read(x, at), Read(x, at + 1)>> ELSE <<-Read(x, at + 1), Read(x, at)>>

Answer(x, i, h_len, tap) ==
  IF tap \in 0 .. 2 * h_len - 1 THEN Meeting(x, i, tap) ELSE <<0, 0>>

\* The float that a lane of Reals has of the eight from its place on.
Off(l) == IF l = 0 THEN 2 ELSE IF l = 1 THEN 0 ELSE IF l = 2 THEN 6 ELSE 4

Quads(m) == {8 * n : n \in 0 .. m - 1}

\* The shuffles pick the real and the imaginary part of four samples.
LEMMA PartsAre ==
  ASSUME NEW v, NEW f \in Int, NEW l \in Lanes
  PROVE  Reals(v, f)[l] = Read(v, f + Off(l)) /\ Imags(v, f)[l] = Read(v, f + (Off(l) + 1))
<1>1. \A g \in Int : \A j \in Lanes : Load(v, g)[j] = Read(v, g + j)  BY DEF Load, Lanes
<1>2. /\ 0 \in Lanes /\ 1 \in Lanes /\ 2 \in Lanes /\ 3 \in Lanes
      /\ l = 0 \/ l = 1 \/ l = 2 \/ l = 3
  BY DEF Lanes
<1>3. /\ (f + 4) + 2 = f + 6 /\ (f + 4) + 0 = f + 4 /\ (f + 4) + 3 = f + 7
      /\ (f + 4) + 1 = f + 5 /\ f + 4 \in Int
  OBVIOUS
<1>4. /\ Reals(v, f)[0] = Load(v, f)[2] /\ Reals(v, f)[1] = Load(v, f)[0]
      /\ Reals(v, f)[2] = Load(v, f + 4)[2] /\ Reals(v, f)[3] = Load(v, f + 4)[0]
  BY <1>2 DEF Reals, Shuffle
<1>5. /\ Imags(v, f)[0] = Load(v, f)[3] /\ Imags(v, f)[1] = Load(v, f)[1]
      /\ Imags(v, f)[2] = Load(v, f + 4)[3] /\ Imags(v, f)[3] = Load(v, f + 4)[1]
  BY <1>2 DEF Imags, Shuffle
<1>6. Off(0) = 2 /\ Off(1) = 0 /\ Off(2) = 6 /\ Off(3) = 4  BY DEF Off
<1>7. QED  BY <1>1, <1>2, <1>3, <1>4, <1>5, <1>6

\* The sum of one lane, when the tap e is the only one that counts.
LEMMA LaneSums ==
  ASSUME NEW m \in Nat, NEW e \in Int, NEW l \in Lanes, NEW value \in Int, NEW f,
         DOMAIN f = Quads(m),
         \A o \in Quads(m) : f[o] = IF o + Off(l) = e THEN value ELSE 0
  PROVE  SumFunction(f) = IF e - Off(l) \in Quads(m) THEN value ELSE 0
<1>1. IsFiniteSet(Quads(m))
  <2>1. IsFiniteSet(0 .. 8 * m)  BY FS_Interval
  <2>2. Quads(m) \subseteq 0 .. 8 * m  BY DEF Quads
  <2>3. QED  BY <2>1, <2>2, FS_Subset
<1>2. PICK t \in Int : t = e - Off(l)  BY DEF Off
<1>3. Quads(m) \subseteq Int /\ Off(l) \in Int  BY DEF Quads, Off
<1>4. \A o \in Quads(m) : o + Off(l) = e <=> o = t  BY <1>2, <1>3
<1>5. (\A o \in DOMAIN f : f[o] \in Int) /\ \A o \in DOMAIN f : o # t => f[o] = 0  BY <1>4
<1>6. SumFunction(f) = IF t \in DOMAIN f THEN f[t] ELSE 0  BY <1>1, <1>5, SumOfOne
<1>7. QED  BY <1>2, <1>4, <1>6

\* One lane of one quad has the tap.
LEMMA LanesMeet ==
  ASSUME NEW m \in Nat, NEW e \in Int, e % 2 = 0, NEW u \in Int, NEW v \in Int, NEW re, NEW im,
         \A l \in Lanes : re[l] = IF e - Off(l) \in Quads(m) THEN u ELSE 0,
         \A l \in Lanes : im[l] = IF e - Off(l) \in Quads(m) THEN v ELSE 0
  PROVE  StoreSums(re, im) = IF e \in 0 .. 8 * m - 1 THEN <<u, v>> ELSE <<0, 0>>
<1>1. /\ 0 \in Lanes /\ 1 \in Lanes /\ 2 \in Lanes /\ 3 \in Lanes
      /\ Off(0) = 2 /\ Off(1) = 0 /\ Off(2) = 6 /\ Off(3) = 4
  BY DEF Lanes, Off
<1>2. StoreSums(re, im) = <<(re[0] + re[1]) + (re[2] + re[3]), (im[0] + im[1]) + (im[2] + im[3])>>
  BY <1>1 DEF StoreSums, HAdd, Shuffle
<1>3. \A g \in Int : g \in Quads(m) <=> g % 8 = 0 /\ 0 <= g /\ g < 8 * m
  <2>1. TAKE g \in Int
  <2>2. ASSUME g % 8 = 0, 0 <= g, g < 8 * m PROVE g \in Quads(m)
    <3>1. g \div 8 \in 0 .. m - 1 /\ 8 * (g \div 8) = g  BY <2>2
    <3>2. QED  BY <3>1 DEF Quads
  <2>3. ASSUME g \in Quads(m) PROVE g % 8 = 0 /\ 0 <= g /\ g < 8 * m
    BY <2>3 DEF Quads
  <2>4. QED  BY <2>2, <2>3
<1>4. PICK q \in Int : q = e \div 8 OBVIOUS
<1>5. e = 8 * q \/ e = 8 * q + 2 \/ e = 8 * q + 4 \/ e = 8 * q + 6  BY <1>4
<1>6. /\ e - 0 \in Quads(m) <=> e = 8 * q /\ e \in 0 .. 8 * m - 1
      /\ e - 2 \in Quads(m) <=> e = 8 * q + 2 /\ e \in 0 .. 8 * m - 1
      /\ e - 4 \in Quads(m) <=> e = 8 * q + 4 /\ e \in 0 .. 8 * m - 1
      /\ e - 6 \in Quads(m) <=> e = 8 * q + 6 /\ e \in 0 .. 8 * m - 1
  BY <1>3, <1>5
<1>7. CASE e \in 0 .. 8 * m - 1
  <2>1. (re[0] + re[1]) + (re[2] + re[3]) = u  BY <1>1, <1>5, <1>6, <1>7
  <2>2. (im[0] + im[1]) + (im[2] + im[3]) = v  BY <1>1, <1>5, <1>6, <1>7
  <2>3. QED  BY <1>2, <1>7, <2>1, <2>2
<1>8. CASE e \notin 0 .. 8 * m - 1
  <2>1. (re[0] + re[1]) + (re[2] + re[3]) = 0  BY <1>1, <1>6, <1>8
  <2>2. (im[0] + im[1]) + (im[2] + im[3]) = 0  BY <1>1, <1>6, <1>8
  <2>3. QED  BY <1>2, <1>8, <2>1, <2>2
<1>9. QED  BY <1>7, <1>8

\* What the lanes of a filter with the one tap hold.
LEMMA TapLanes ==
  ASSUME NEW m \in Nat, NEW tap \in Int, NEW o \in Quads(m), NEW l \in Lanes
  PROVE  /\ Reals(UnitTap(4 * m, tap), o)[l] = IF o + Off(l) = tap THEN 1 ELSE 0
         /\ Imags(UnitTap(4 * m, tap), o)[l] = IF o + Off(l) = tap - 1 THEN 1 ELSE 0
<1> DEFINE h == UnitTap(4 * m, tap)
<1>1. PICK n \in 0 .. m - 1 : o = 8 * n  BY DEF Quads
<1>2. Off(l) \in 0 .. 6  BY DEF Off
<1>3. o \in Int /\ o + Off(l) \in 0 .. 8 * m - 1 /\ o + (Off(l) + 1) \in 0 .. 8 * m - 1
  BY <1>1, <1>2
<1>4. \A g \in 0 .. 8 * m - 1 : Read(h, g) = IF g = tap THEN 1 ELSE 0
  <2>1. 2 * (4 * m) = 8 * m  OBVIOUS
  <2>2. QED  BY <2>1 DEF Read, UnitTap
<1>5. Reals(h, o)[l] = Read(h, o + Off(l)) /\ Imags(h, o)[l] = Read(h, o + (Off(l) + 1))
  BY <1>3, PartsAre
<1>6. o + (Off(l) + 1) = tap <=> o + Off(l) = tap - 1  BY <1>2, <1>3
<1> HIDE DEF h
<1>7. QED  BY <1>3, <1>4, <1>5, <1>6 DEF h

\* What the lanes of the samples hold.
LEMMA SampleLanes ==
  ASSUME NEW x, Numbers(x), NEW i \in Int, NEW m \in Nat, NEW o \in Quads(m), NEW l \in Lanes
  PROVE  /\ Reals(x, 2 * i + o)[l] \in Int /\ Imags(x, 2 * i + o)[l] \in Int
         /\ \A e \in Int : o + Off(l) = e =>
              /\ Reals(x, 2 * i + o)[l] = Read(x, 2 * i + e)
              /\ Imags(x, 2 * i + o)[l] = Read(x, 2 * i + e + 1)
<1>1. o \in Int /\ Off(l) \in Int  BY DEF Quads, Off
<1>2. /\ Reals(x, 2 * i + o)[l] = Read(x, 2 * i + o + Off(l))
      /\ Imags(x, 2 * i + o)[l] = Read(x, 2 * i + o + (Off(l) + 1))
  BY <1>1, PartsAre
<1>3. \A e \in Int : o + Off(l) = e =>
        2 * i + o + Off(l) = 2 * i + e /\ 2 * i + o + (Off(l) + 1) = 2 * i + e + 1
  BY <1>1
<1>4. QED  BY <1>2, <1>3, ReadIsInt

\* The SSE kernels of real filters, for any number of quads.
LEMMA RealTapsMeet ==
  ASSUME NEW x, Numbers(x), NEW i \in Int, NEW m \in Nat, NEW tap \in Int, tap % 2 = 0
  PROVE  RealTaps(x, UnitTap(4 * m, tap), i, Quads(m)) = Answer(x, i, 4 * m, tap)
<1> DEFINE h == UnitTap(4 * m, tap)
           Re(l) == [o \in Quads(m) |-> Mul(Reals(x, 2 * i + o), Reals(h, o))[l]]
           Im(l) == [o \in Quads(m) |-> Mul(Imags(x, 2 * i + o), Reals(h, o))[l]]
           u == Read(x, 2 * i + tap)
           v == Read(x, 2 * i + tap + 1)
           re == [l \in Lanes |-> SumFunction(Re(l))]
           im == [l \in Lanes |-> SumFunction(Im(l))]
<1>1. u \in Int /\ v \in Int  BY ReadIsInt
<1>2. ASSUME NEW l \in Lanes, NEW o \in Quads(m)
      PROVE  /\ Re(l)[o] = IF o + Off(l) = tap THEN u ELSE 0
             /\ Im(l)[o] = IF o + Off(l) = tap THEN v ELSE 0
  <2>1. Reals(h, o)[l] = IF o + Off(l) = tap THEN 1 ELSE 0  BY TapLanes
  <2>2. /\ Reals(x, 2 * i + o)[l] \in Int /\ Imags(x, 2 * i + o)[l] \in Int
        /\ o + Off(l) = tap => Reals(x, 2 * i + o)[l] = u /\ Imags(x, 2 * i + o)[l] = v
    BY SampleLanes
  <2>3. /\ Re(l)[o] = Reals(x, 2 * i + o)[l] * Reals(h, o)[l]
        /\ Im(l)[o] = Imags(x, 2 * i + o)[l] * Reals(h, o)[l]
    BY DEF Mul
  <2> HIDE DEF h, u, v, Re, Im
  <2>4. QED  BY <2>1, <2>2, <2>3
<1>3. \A l \in Lanes : /\ DOMAIN Re(l) = Quads(m) /\ DOMAIN Im(l) = Quads(m)
                       /\ re[l] = SumFunction(Re(l)) /\ im[l] = SumFunction(Im(l))
  OBVIOUS
<1>4. RealTaps(x, h, i, Quads(m)) = StoreSums(re, im)
  BY Zenon DEF RealTaps, LaneSum
<1> HIDE DEF Re, Im, re, im, u, v
<1>5. \A l \in Lanes : /\ re[l] = IF tap - Off(l) \in Quads(m) THEN u ELSE 0
                       /\ im[l] = IF tap - Off(l) \in Quads(m) THEN v ELSE 0
  <2>1. TAKE l \in Lanes
  <2>2. SumFunction(Re(l)) = IF tap - Off(l) \in Quads(m) THEN u ELSE 0
    BY <1>1, <1>2, <1>3, LaneSums
  <2>3. SumFunction(Im(l)) = IF tap - Off(l) \in Quads(m) THEN v ELSE 0
    BY <1>1, <1>2, <1>3, LaneSums
  <2>4. QED  BY <1>3, <2>2, <2>3
<1>6. StoreSums(re, im) = IF tap \in 0 .. 8 * m - 1 THEN <<u, v>> ELSE <<0, 0>>
  <2>1. \A l \in Lanes : re[l] = IF tap - Off(l) \in Quads(m) THEN u ELSE 0  BY <1>5
  <2>2. \A l \in Lanes : im[l] = IF tap - Off(l) \in Quads(m) THEN v ELSE 0  BY <1>5
  <2> HIDE DEF h
  <2>3. QED  BY <1>1, <2>1, <2>2, LanesMeet
<1>7. 2 * (i + (tap \div 2)) = 2 * i + tap /\ 2 * (4 * m) = 8 * m  OBVIOUS
<1>8. QED  BY <1>4, <1>6, <1>7 DEF Answer, Meeting, u, v

\* The SSE kernels of complex filters.
LEMMA ComplexTapsMeet ==
  ASSUME NEW x, Numbers(x), NEW i \in Int, NEW m \in Nat, NEW tap \in Int
  PROVE  ComplexTaps(x, UnitTap(4 * m, tap), i, Quads(m)) = Answer(x, i, 4 * m, tap)
<1> DEFINE h == UnitTap(4 * m, tap)
           Re(l) == [o \in Quads(m) |-> [k \in Lanes |-> Reals(h, o)[k] * Reals(x, 2 * i + o)[k]
                                           - Imags(h, o)[k] * Imags(x, 2 * i + o)[k]][l]]
           Im(l) == [o \in Quads(m) |-> [k \in Lanes |-> Reals(h, o)[k] * Imags(x, 2 * i + o)[k]
                                           + Imags(h, o)[k] * Reals(x, 2 * i + o)[k]][l]]
           e == IF tap % 2 = 0 THEN tap ELSE tap - 1
           a == Read(x, 2 * i + e)
           b == Read(x, 2 * i + e + 1)
           u == IF tap % 2 = 0 THEN a ELSE -b
           v == IF tap % 2 = 0 THEN b ELSE a
           re == [l \in Lanes |-> SumFunction(Re(l))]
           im == [l \in Lanes |-> SumFunction(Im(l))]
<1>1. a \in Int /\ b \in Int /\ u \in Int /\ v \in Int  BY ReadIsInt
<1>2. e \in Int /\ e % 2 = 0 /\ (tap % 2 # 0 => tap - 1 = e) /\ (tap % 2 = 0 => tap = e)
  OBVIOUS
<1>3. ASSUME NEW l \in Lanes, NEW o \in Quads(m)
      PROVE  /\ Re(l)[o] = IF o + Off(l) = e THEN u ELSE 0
             /\ Im(l)[o] = IF o + Off(l) = e THEN v ELSE 0
  <2>1. /\ Reals(h, o)[l] = IF o + Off(l) = tap THEN 1 ELSE 0
        /\ Imags(h, o)[l] = IF o + Off(l) = tap - 1 THEN 1 ELSE 0
    BY TapLanes
  <2>2. /\ Reals(x, 2 * i + o)[l] \in Int /\ Imags(x, 2 * i + o)[l] \in Int
        /\ o + Off(l) = e => Reals(x, 2 * i + o)[l] = a /\ Imags(x, 2 * i + o)[l] = b
    BY <1>2, SampleLanes
  <2>3. /\ Re(l)[o] = Reals(h, o)[l] * Reals(x, 2 * i + o)[l] - Imags(h, o)[l] * Imags(x, 2 * i + o)[l]
        /\ Im(l)[o] = Reals(h, o)[l] * Imags(x, 2 * i + o)[l] + Imags(h, o)[l] * Reals(x, 2 * i + o)[l]
    OBVIOUS
  <2>4. \E n \in 0 .. m - 1 : o = 8 * n /\ (Off(l) = 0 \/ Off(l) = 2 \/ Off(l) = 4 \/ Off(l) = 6)
    BY DEF Quads, Off
  <2>5. (o + Off(l)) % 2 = 0 /\ o + Off(l) \in Int  BY <2>4
  <2>6. /\ o + Off(l) = tap <=> o + Off(l) = e /\ tap % 2 = 0
        /\ o + Off(l) = tap - 1 <=> o + Off(l) = e /\ tap % 2 # 0
    BY <1>2, <2>5
  <2> HIDE DEF h, a, b, e, Re, Im
  <2>7. CASE o + Off(l) = e /\ tap % 2 = 0  BY <2>1, <2>2, <2>3, <2>6, <2>7, <1>1
  <2>8. CASE o + Off(l) = e /\ tap % 2 # 0  BY <2>1, <2>2, <2>3, <2>6, <2>8, <1>1
  <2>9. CASE o + Off(l) # e  BY <2>1, <2>2, <2>3, <2>6, <2>9
  <2>10. QED  BY <2>7, <2>8, <2>9
<1>4. \A l \in Lanes : /\ DOMAIN Re(l) = Quads(m) /\ DOMAIN Im(l) = Quads(m)
                       /\ re[l] = SumFunction(Re(l)) /\ im[l] = SumFunction(Im(l))
  OBVIOUS
<1>5. ComplexTaps(x, h, i, Quads(m)) = StoreSums(re, im)
  BY Zenon DEF ComplexTaps, LaneSum
<1> HIDE DEF Re, Im, re, im, u, v
<1>6. \A l \in Lanes : /\ re[l] = IF e - Off(l) \in Quads(m) THEN u ELSE 0
                       /\ im[l] = IF e - Off(l) \in Quads(m) THEN v ELSE 0
  <2> HIDE DEF e
  <2>1. TAKE l \in Lanes
  <2>2. SumFunction(Re(l)) = IF e - Off(l) \in Quads(m) THEN u ELSE 0
    BY <1>1, <1>2, <1>3, <1>4, LaneSums
  <2>3. SumFunction(Im(l)) = IF e - Off(l) \in Quads(m) THEN v ELSE 0
    BY <1>1, <1>2, <1>3, <1>4, LaneSums
  <2>4. QED  BY <1>4, <2>2, <2>3
<1>7. StoreSums(re, im) = IF e \in 0 .. 8 * m - 1 THEN <<u, v>> ELSE <<0, 0>>
  <2> HIDE DEF e
  <2>1. \A l \in Lanes : re[l] = IF e - Off(l) \in Quads(m) THEN u ELSE 0  BY <1>6
  <2>2. \A l \in Lanes : im[l] = IF e - Off(l) \in Quads(m) THEN v ELSE 0  BY <1>6
  <2>3. QED  BY <1>1, <1>2, <2>1, <2>2, LanesMeet
<1>8. 2 * (i + (tap \div 2)) = 2 * i + e /\ 2 * (4 * m) = 8 * m
  OBVIOUS
<1>9. e \in 0 .. 8 * m - 1 <=> tap \in 0 .. 8 * m - 1  BY <1>2
<1>10. QED
  <2> HIDE DEF e, h
  <2>1. CASE tap % 2 = 0  BY <1>5, <1>7, <1>8, <1>9, <2>1 DEF Answer, Meeting, u, v, h
  <2>2. CASE tap % 2 # 0  BY <1>5, <1>7, <1>8, <1>9, <2>2 DEF Answer, Meeting, u, v, h
  <2>3. QED  BY <2>1, <2>2

\* The taps of a kernel are finitely many numbers; one of them is the tap.
LEMMA TapsAre ==
  ASSUME NEW h_len \in Nat, NEW step \in Nat \ {0}, NEW tap \in Int,
         tap \in 0 .. 2 * h_len - 1 => (tap \div 2) % step = 0
  PROVE  /\ IsFiniteSet(TapsUsed(h_len, step, 0)) /\ TapsUsed(h_len, step, 0) \subseteq 0 .. h_len - 1
         /\ tap \div 2 \in TapsUsed(h_len, step, 0) <=> tap \in 0 .. 2 * h_len - 1
<1>1. TapsUsed(h_len, step, 0) \subseteq 0 .. h_len - 1  BY DEF TapsUsed
<1>2. IsFiniteSet(TapsUsed(h_len, step, 0))
  <2>1. IsFiniteSet(0 .. h_len - 1)  BY FS_Interval
  <2>2. QED  BY <1>1, <2>1, FS_Subset
<1>3. PICK t \in Int : t = tap \div 2  OBVIOUS
<1>4. t \in 0 .. h_len - 1 <=> tap \in 0 .. 2 * h_len - 1  BY <1>3
<1>5. t - 0 = t  OBVIOUS
<1>6. t \in TapsUsed(h_len, step, 0) <=> t \in 0 .. h_len - 1 /\ t % step = 0
  BY <1>5 DEF TapsUsed
<1>7. QED  BY <1>1, <1>2, <1>3, <1>4, <1>6

\* What a kernel without SSE reads of the filter with the one tap.
LEMMA TapReads ==
  ASSUME NEW h_len \in Nat, NEW tap \in Int, NEW k \in 0 .. h_len - 1
  PROVE  /\ Read(UnitTap(h_len, tap), 2 * k) = IF k = tap \div 2 /\ tap % 2 = 0 THEN 1 ELSE 0
         /\ Read(UnitTap(h_len, tap), 2 * k + 1) = IF k = tap \div 2 /\ tap % 2 # 0 THEN 1 ELSE 0
<1>1. \A g \in 0 .. 2 * h_len - 1 : Read(UnitTap(h_len, tap), g) = IF g = tap THEN 1 ELSE 0
  BY DEF Read, UnitTap
<1>2. 2 * k \in 0 .. 2 * h_len - 1 /\ 2 * k + 1 \in 0 .. 2 * h_len - 1  OBVIOUS
<1>3. 2 * k = tap <=> k = tap \div 2 /\ tap % 2 = 0  OBVIOUS
<1>4. 2 * k + 1 = tap <=> k = tap \div 2 /\ tap % 2 # 0  OBVIOUS
<1>5. QED  BY <1>1, <1>2, <1>3, <1>4

\* The kernel without SSE of a real filter.
LEMMA MacRealMeets ==
  ASSUME NEW x, Numbers(x), NEW i \in Int, NEW h_len \in Nat, NEW step \in Nat \ {0},
         NEW tap \in Int, tap % 2 = 0, tap \in 0 .. 2 * h_len - 1 => (tap \div 2) % step = 0
  PROVE  mac_real_vec_n(x, UnitTap(h_len, tap), i, TapsUsed(h_len, step, 0))
           = Answer(x, i, h_len, tap)
<1> DEFINE h == UnitTap(h_len, tap)
           taps == TapsUsed(h_len, step, 0)
           t == tap \div 2
           Re == [k \in taps |-> Read(x, 2 * (i + k)) * Read(h, 2 * k)]
           Im == [k \in taps |-> Read(x, 2 * (i + k) + 1) * Read(h, 2 * k)]
<1>1. /\ IsFiniteSet(taps) /\ taps \subseteq 0 .. h_len - 1
      /\ t \in taps <=> tap \in 0 .. 2 * h_len - 1
  BY TapsAre
<1>2. DOMAIN Re = taps /\ DOMAIN Im = taps  OBVIOUS
<1>3. ASSUME NEW k \in taps
      PROVE  /\ Re[k] = IF k = t THEN Read(x, 2 * (i + t)) ELSE 0
             /\ Im[k] = IF k = t THEN Read(x, 2 * (i + t) + 1) ELSE 0
  <2>1. Read(h, 2 * k) = IF k = t THEN 1 ELSE 0  BY <1>1, TapReads
  <2>2. Read(x, 2 * (i + k)) \in Int /\ Read(x, 2 * (i + k) + 1) \in Int  BY ReadIsInt
  <2>3. /\ Re[k] = Read(x, 2 * (i + k)) * Read(h, 2 * k)
        /\ Im[k] = Read(x, 2 * (i + k) + 1) * Read(h, 2 * k)
    OBVIOUS
  <2> HIDE DEF Re, Im, h, t, taps
  <2>4. QED  BY <2>1, <2>2, <2>3
<1>4. mac_real_vec_n(x, h, i, taps) = <<SumFunction(Re), SumFunction(Im)>>
  BY DEF mac_real_vec_n
<1>5. Read(x, 2 * (i + t)) \in Int /\ Read(x, 2 * (i + t) + 1) \in Int  BY ReadIsInt
<1> HIDE DEF Re, Im, h, t, taps
<1>6. /\ \A k \in DOMAIN Re : Re[k] \in Int /\ (k # t => Re[k] = 0)
      /\ \A k \in DOMAIN Im : Im[k] \in Int /\ (k # t => Im[k] = 0)
  BY <1>2, <1>3, <1>5
<1>7. SumFunction(Re) = IF t \in taps THEN Re[t] ELSE 0  BY <1>1, <1>2, <1>6, SumOfOne
<1>8. SumFunction(Im) = IF t \in taps THEN Im[t] ELSE 0  BY <1>1, <1>2, <1>6, SumOfOne
<1>9. QED  BY <1>1, <1>3, <1>4, <1>7, <1>8 DEF Answer, Meeting, h, t, taps

\* The kernel without SSE of a complex filter.
LEMMA MacComplexMeets ==
  ASSUME NEW x, Numbers(x), NEW i \in Int, NEW h_len \in Nat, NEW step \in Nat \ {0},
         NEW tap \in Int, tap \in 0 .. 2 * h_len - 1 => (tap \div 2) % step = 0
  PROVE  mac_cmplx_vec_n(x, UnitTap(h_len, tap), i, TapsUsed(h_len, step, 0))
           = Answer(x, i, h_len, tap)
<1> DEFINE h == UnitTap(h_len, tap)
           taps == TapsUsed(h_len, step, 0)
           t == tap \div 2
           a(k) == Read(x, 2 * (i + k))
           b(k) == Read(x, 2 * (i + k) + 1)
           u == IF tap % 2 = 0 THEN a(t) ELSE -b(t)
           v == IF tap % 2 = 0 THEN b(t) ELSE a(t)
           Re == [k \in taps |-> a(k) * Read(h, 2 * k) - b(k) * Read(h, 2 * k + 1)]
           Im == [k \in taps |-> a(k) * Read(h, 2 * k + 1) + b(k) * Read(h, 2 * k)]
<1>1. /\ IsFiniteSet(taps) /\ taps \subseteq 0 .. h_len - 1
      /\ t \in taps <=> tap \in 0 .. 2 * h_len - 1
  BY TapsAre
<1>2. DOMAIN Re = taps /\ DOMAIN Im = taps  OBVIOUS
<1>3. \A k : a(k) \in Int /\ b(k) \in Int  BY ReadIsInt
<1>4. ASSUME NEW k \in taps
      PROVE  /\ Re[k] = IF k = t THEN u ELSE 0
             /\ Im[k] = IF k = t THEN v ELSE 0
  <2>1. /\ Read(h, 2 * k) = IF k = t /\ tap % 2 = 0 THEN 1 ELSE 0
        /\ Read(h, 2 * k + 1) = IF k = t /\ tap % 2 # 0 THEN 1 ELSE 0
    BY <1>1, TapReads
  <2>2. /\ Re[k] = a(k) * Read(h, 2 * k) - b(k) * Read(h, 2 * k + 1)
        /\ Im[k] = a(k) * Read(h, 2 * k + 1) + b(k) * Read(h, 2 * k)
    OBVIOUS
  <2> HIDE DEF Re, Im, h, t, taps, a, b
  <2>3. CASE k = t /\ tap % 2 = 0  BY <1>3, <2>1, <2>2, <2>3
  <2>4. CASE k = t /\ tap % 2 # 0  BY <1>3, <2>1, <2>2, <2>4
  <2>5. CASE k # t  BY <1>3, <2>1, <2>2, <2>5
  <2>6. QED  BY <2>3, <2>4, <2>5
<1>5. mac_cmplx_vec_n(x, h, i, taps) = <<SumFunction(Re), SumFunction(Im)>>
  BY Zenon DEF mac_cmplx_vec_n
<1>6. u \in Int /\ v \in Int
  <2> HIDE DEF a, b
  <2>1. QED  BY <1>3
<1> HIDE DEF Re, Im, h, t, taps, u, v
<1>7. /\ \A k \in DOMAIN Re : Re[k] \in Int /\ (k # t => Re[k] = 0)
      /\ \A k \in DOMAIN Im : Im[k] \in Int /\ (k # t => Im[k] = 0)
  BY <1>2, <1>4, <1>6
<1>8. SumFunction(Re) = IF t \in taps THEN Re[t] ELSE 0  BY <1>1, <1>2, <1>7, SumOfOne
<1>9. SumFunction(Im) = IF t \in taps THEN Im[t] ELSE 0  BY <1>1, <1>2, <1>7, SumOfOne
<1>10. QED  BY <1>1, <1>4, <1>5, <1>8, <1>9 DEF Answer, Meeting, h, t, taps, u, v

\* The kernels of fixed length take every quad once.
LEMMA QuadsOfKernels ==
  /\ Quads(1) = {0} /\ Quads(2) = {0, 8} /\ Quads(3) = {0, 8, 16}
  /\ Quads(4) = {0, 8, 16, 24} /\ Quads(5) = {0, 8, 16, 24, 32}
<1>1. /\ 0 .. 0 = {0} /\ 0 .. 1 = {0, 1} /\ 0 .. 2 = {0, 1, 2} /\ 0 .. 3 = {0, 1, 2, 3}
      /\ 0 .. 4 = {0, 1, 2, 3, 4}
  OBVIOUS
<1>2. 1 - 1 = 0 /\ 2 - 1 = 1 /\ 3 - 1 = 2 /\ 4 - 1 = 3 /\ 5 - 1 = 4  OBVIOUS
<1>3. QED  BY <1>1, <1>2 DEF Quads

\* So does the one that takes two quads a turn.
LEMMA QuadsInTurns ==
  ASSUME NEW n \in Nat
  PROVE  UNION {{16 * k, 16 * k + 8} : k \in 0 .. n - 1} = Quads(2 * n)
<1>1. ASSUME NEW k \in 0 .. n - 1 PROVE 16 * k \in Quads(2 * n) /\ 16 * k + 8 \in Quads(2 * n)
  <2>1. /\ 2 * k \in 0 .. 2 * n - 1 /\ 16 * k = 8 * (2 * k)
        /\ 2 * k + 1 \in 0 .. 2 * n - 1 /\ 16 * k + 8 = 8 * (2 * k + 1)
    OBVIOUS
  <2>2. QED  BY <2>1 DEF Quads
<1>2. ASSUME NEW o \in Quads(2 * n)
      PROVE  \E k \in 0 .. n - 1 : o = 16 * k \/ o = 16 * k + 8
  <2>1. PICK j \in 0 .. 2 * n - 1 : o = 8 * j  BY DEF Quads
  <2>2. j \div 2 \in 0 .. n - 1 /\ (o = 16 * (j \div 2) \/ o = 16 * (j \div 2) + 8)  BY <2>1
  <2>3. QED  BY <2>2
<1>3. QED  BY <1>1, <1>2

\* A call of a kernel with one tap that passes the check of its bounds.
TapCall(c, tap) ==
  /\ c.h_len \in Nat \ {0} /\ c.step \in Nat \ {0} /\ c.start \in Int /\ c.len \in Int
  /\ c.offset = 0 /\ c.h = UnitTap(c.h_len, tap) /\ Numbers(c.x) /\ DOMAIN c.x \subseteq Int
  /\ bounds_check(c)
  /\ tap \in 0 .. 2 * c.h_len - 1 => (tap \div 2) % c.step = 0

Answers(c, tap) == [i \in 0 .. c.len - 1 |-> Answer(FirstMet(c), i, c.h_len, tap)]

\* A kernel reads the input from the sample that meets tap 0.
LEMMA FirstMetReads ==
  ASSUME NEW c, c.start \in Int, c.h_len \in Int, Numbers(c.x), DOMAIN c.x \subseteq Int
  PROVE  /\ Numbers(FirstMet(c))
         /\ \A f \in Int : Read(FirstMet(c), f) = Read(c.x, f + 2 * (c.start - (c.h_len - 1)))
<1>1. PICK first \in Int : first = 2 * (c.start - (c.h_len - 1))  OBVIOUS
<1> DEFINE D == {g - first : g \in DOMAIN c.x}
<1>2. FirstMet(c) = [f \in D |-> c.x[f + first]]  BY <1>1 DEF FirstMet
<1>3. \A f \in Int : f \in D <=> f + first \in DOMAIN c.x
  <2>1. TAKE f \in Int
  <2>2. ASSUME f \in D PROVE f + first \in DOMAIN c.x
    <3>1. PICK g \in DOMAIN c.x : f = g - first  BY <2>2
    <3>2. f + first = g  BY <3>1, <1>1
    <3>3. QED  BY <3>2
  <2>3. ASSUME f + first \in DOMAIN c.x PROVE f \in D
    <3>1. f = (f + first) - first  OBVIOUS
    <3>2. QED  BY <2>3, <3>1
  <2>4. QED  BY <2>2, <2>3
<1>4. D \subseteq Int  OBVIOUS
<1> HIDE DEF D
<1>5. Numbers(FirstMet(c))  BY <1>2, <1>3, <1>4 DEF Numbers
<1>6. \A f \in Int : Read(FirstMet(c), f) = Read(c.x, f + first)  BY <1>2, <1>3 DEF Read
<1>7. QED  BY <1>1, <1>5, <1>6

\* The entry points: whatever kernel they choose.
LEMMA PlainReal ==
  ASSUME NEW c, NEW tap \in Int, tap % 2 = 0, TapCall(c, tap)
  PROVE  base_convolve_real(c) = Answers(c, tap)
<1>1. PICK x : x = FirstMet(c) /\ Numbers(x)  BY FirstMetReads DEF TapCall
<1>2. \A i \in 0 .. c.len - 1 :
        mac_real_vec_n(x, c.h, i, TapsUsed(c.h_len, c.step, c.offset)) = Answer(x, i, c.h_len, tap)
  <2>1. TAKE i \in 0 .. c.len - 1
  <2>2. /\ c.h_len \in Nat /\ c.step \in Nat \ {0} /\ i \in Int /\ c.offset = 0
        /\ c.h = UnitTap(c.h_len, tap)
        /\ tap \in 0 .. 2 * c.h_len - 1 => (tap \div 2) % c.step = 0
    BY DEF TapCall
  <2>3. mac_real_vec_n(x, UnitTap(c.h_len, tap), i, TapsUsed(c.h_len, c.step, 0))
          = Answer(x, i, c.h_len, tap)
    BY <1>1, <2>2, MacRealMeets, SMTT(30)
  <2>4. QED  BY <2>2, <2>3
<1>3. bounds_check(c)  BY DEF TapCall
<1>4. QED  BY <1>1, <1>2, <1>3 DEF base_convolve_real, Output, Answers

LEMMA PlainComplex ==
  ASSUME NEW c, NEW tap \in Int, TapCall(c, tap)
  PROVE  base_convolve_complex(c) = Answers(c, tap)
<1>1. PICK x : x = FirstMet(c) /\ Numbers(x)  BY FirstMetReads DEF TapCall
<1>2. \A i \in 0 .. c.len - 1 :
        mac_cmplx_vec_n(x, c.h, i, TapsUsed(c.h_len, c.step, c.offset)) = Answer(x, i, c.h_len, tap)
  <2>1. TAKE i \in 0 .. c.len - 1
  <2>2. /\ c.h_len \in Nat /\ c.step \in Nat \ {0} /\ i \in Int /\ c.offset = 0
        /\ c.h = UnitTap(c.h_len, tap)
        /\ tap \in 0 .. 2 * c.h_len - 1 => (tap \div 2) % c.step = 0
    BY DEF TapCall
  <2>3. mac_cmplx_vec_n(x, UnitTap(c.h_len, tap), i, TapsUsed(c.h_len, c.step, 0))
          = Answer(x, i, c.h_len, tap)
    BY <1>1, <2>2, MacComplexMeets
  <2>4. QED  BY <2>2, <2>3
<1>3. bounds_check(c)  BY DEF TapCall
<1>4. QED  BY <1>1, <1>2, <1>3 DEF base_convolve_complex, Output, Answers

LEMMA RealAnswers ==
  ASSUME NEW c, NEW tap \in Int, tap % 2 = 0, TapCall(c, tap), NEW sse \in BOOLEAN
  PROVE  convolve_real(c, sse) = Answers(c, tap)
<1>1. CASE ~(sse /\ c.step <= 4 /\ c.h_len % 4 = 0)
  <2>1. convolve_real(c, sse) = base_convolve_real(c)  BY <1>1, Zenon DEF convolve_real
  <2>2. QED  BY <2>1, PlainReal
<1>2. CASE sse /\ c.step <= 4 /\ c.h_len % 4 = 0
  <2>1. PICK m \in Nat : m = c.h_len \div 4 /\ c.h_len = 4 * m  BY <1>2 DEF TapCall
  <2>2. PICK x : x = FirstMet(c) /\ Numbers(x)  BY FirstMetReads DEF TapCall
  <2>3. \A i \in 0 .. c.len - 1 : RealTaps(x, c.h, i, Quads(m)) = Answer(x, i, c.h_len, tap)
    <3>1. TAKE i \in 0 .. c.len - 1
    <3>2. i \in Int /\ c.h = UnitTap(c.h_len, tap)  BY DEF TapCall
    <3>3. RealTaps(x, UnitTap(4 * m, tap), i, Quads(m)) = Answer(x, i, 4 * m, tap)
      BY <2>1, <2>2, <3>2, RealTapsMeet
    <3>4. QED  BY <2>1, <3>2, <3>3
  <2>4. bounds_check(c)  BY DEF TapCall
  <2> DEFINE n == c.h_len
  <2>5. /\ n = 4 => m = 1
        /\ n = 8 => m = 2
        /\ n = 12 => m = 3
        /\ n = 16 => m = 4
        /\ n = 20 => m = 5
    BY <2>1
  <2>7. CASE n = 4
    <3>1. \A i : sse_conv_real4(x, c.h, i) = RealTaps(x, c.h, i, Quads(m))
      BY <2>5, <2>7, QuadsOfKernels DEF sse_conv_real4
    <3>2. convolve_real(c, sse) = [i \in 0 .. c.len - 1 |-> sse_conv_real4(x, c.h, i)]
      BY <1>2, <2>2, <2>4, <2>7 DEF convolve_real, Output
    <3>3. QED  BY <2>2, <2>3, <3>1, <3>2 DEF Answers
  <2>8. CASE n = 8
    <3>1. \A i : sse_conv_real8(x, c.h, i) = RealTaps(x, c.h, i, Quads(m))
      BY <2>5, <2>8, QuadsOfKernels DEF sse_conv_real8
    <3>2. convolve_real(c, sse) = [i \in 0 .. c.len - 1 |-> sse_conv_real8(x, c.h, i)]
      BY <1>2, <2>2, <2>4, <2>8 DEF convolve_real, Output
    <3>3. QED  BY <2>2, <2>3, <3>1, <3>2 DEF Answers
  <2>9. CASE n = 12
    <3>1. \A i : sse_conv_real12(x, c.h, i) = RealTaps(x, c.h, i, Quads(m))
      BY <2>5, <2>9, QuadsOfKernels DEF sse_conv_real12
    <3>2. convolve_real(c, sse) = [i \in 0 .. c.len - 1 |-> sse_conv_real12(x, c.h, i)]
      BY <1>2, <2>2, <2>4, <2>9 DEF convolve_real, Output
    <3>3. QED  BY <2>2, <2>3, <3>1, <3>2 DEF Answers
  <2>10. CASE n = 16
    <3>1. \A i : sse_conv_real16(x, c.h, i) = RealTaps(x, c.h, i, Quads(m))
      BY <2>5, <2>10, QuadsOfKernels DEF sse_conv_real16
    <3>2. convolve_real(c, sse) = [i \in 0 .. c.len - 1 |-> sse_conv_real16(x, c.h, i)]
      BY <1>2, <2>2, <2>4, <2>10 DEF convolve_real, Output
    <3>3. QED  BY <2>2, <2>3, <3>1, <3>2 DEF Answers
  <2>11. CASE n = 20
    <3>1. \A i : sse_conv_real20(x, c.h, i) = RealTaps(x, c.h, i, Quads(m))
      BY <2>5, <2>11, QuadsOfKernels DEF sse_conv_real20
    <3>2. convolve_real(c, sse) = [i \in 0 .. c.len - 1 |-> sse_conv_real20(x, c.h, i)]
      BY <1>2, <2>2, <2>4, <2>11 DEF convolve_real, Output
    <3>3. QED  BY <2>2, <2>3, <3>1, <3>2 DEF Answers
  <2>12. CASE n \notin {4, 8, 12, 16, 20}
    <3>1. \A i : sse_conv_real4n(x, c.h, n, i) = RealTaps(x, c.h, i, Quads(m))
      BY <2>1 DEF sse_conv_real4n, Quads
    <3>2. convolve_real(c, sse) = [i \in 0 .. c.len - 1 |-> sse_conv_real4n(x, c.h, n, i)]
      BY <1>2, <2>2, <2>4, <2>12 DEF convolve_real, Output
    <3>3. QED  BY <2>2, <2>3, <3>1, <3>2 DEF Answers
  <2>13. QED  BY <2>7, <2>8, <2>9, <2>10, <2>11, <2>12
<1>3. QED  BY <1>1, <1>2

LEMMA ComplexAnswers ==
  ASSUME NEW c, NEW tap \in Int, TapCall(c, tap), NEW sse \in BOOLEAN
  PROVE  convolve_complex(c, sse) = Answers(c, tap)
<1>1. CASE ~(sse /\ c.step <= 4 /\ c.h_len % 4 = 0)
  <2>1. convolve_complex(c, sse) = base_convolve_complex(c)  BY <1>1, Zenon DEF convolve_complex
  <2>2. QED  BY <2>1, PlainComplex
<1>2. CASE sse /\ c.step <= 4 /\ c.h_len % 4 = 0
  <2>1. PICK m \in Nat : m = c.h_len \div 4 /\ c.h_len = 4 * m  BY <1>2 DEF TapCall
  <2>2. PICK x : x = FirstMet(c) /\ Numbers(x)  BY FirstMetReads DEF TapCall
  <2>3. \A i \in 0 .. c.len - 1 : ComplexTaps(x, c.h, i, Quads(m)) = Answer(x, i, c.h_len, tap)
    <3>1. TAKE i \in 0 .. c.len - 1
    <3>2. i \in Int /\ c.h = UnitTap(c.h_len, tap)  BY DEF TapCall
    <3>3. ComplexTaps(x, UnitTap(4 * m, tap), i, Quads(m)) = Answer(x, i, 4 * m, tap)
      BY <2>1, <2>2, <3>2, ComplexTapsMeet
    <3>4. QED  BY <2>1, <3>2, <3>3
  <2>4. bounds_check(c)  BY DEF TapCall
  <2>5. Output(c, LAMBDA i : ComplexTaps(x, c.h, i, Quads(m))) = Answers(c, tap)
    BY <2>2, <2>3, <2>4 DEF Output, Answers
  <2>6. CASE c.h_len % 8 = 0
    <3>1. PICK n \in Nat : n = c.h_len \div 8 /\ m = 2 * n  BY <2>1, <2>6
    <3>2. UNION {{16 * k, 16 * k + 8} : k \in 0 .. n - 1} = Quads(m)  BY <3>1, QuadsInTurns
    <3>3. QED  BY <1>2, <2>2, <2>5, <2>6, <3>1, <3>2 DEF convolve_complex, Output, sse_conv_cmplx_8n
  <2>7. CASE c.h_len % 8 # 0
    BY <1>2, <2>1, <2>2, <2>5, <2>7 DEF convolve_complex, Output, sse_conv_cmplx_4n, Quads
  <2>8. QED  BY <2>6, <2>7
<1>3. QED  BY <1>1, <1>2

-----------------------------------------------------------------------------
(* SignalFilter: the padding is enough, and what is read is the convolution.*)

\* The room at both ends holds every sample that a tap meets.
LEMMA PaddingIsEnough ==
  ASSUME NEW u \in FilterUse, Fits(u), NEW p, p = Padding(u)
  PROVE  /\ p.head \in Nat /\ p.tail \in Nat /\ p.start \in Nat /\ p.len \in Nat \ {0}
         /\ p.start + p.len <= u.x_len + p.tail /\ p.start - (u.h_len - 1) >= -p.head
         /\ u.h_len \in Nat \ {0} /\ u.step \in Nat \ {0} /\ u.x_len \in Nat
         /\ u.h_len <= u.x_len + p.tail /\ u.y_len \in Nat /\ (u.y_len = 0 \/ u.y_len >= p.len)
<1>1. /\ u.h_len \in Nat /\ u.x_len \in Nat /\ u.y_len \in Nat /\ u.len \in Nat
      /\ u.step \in Nat /\ u.start \in Int
      /\ u.span \in {"START_ONLY", "NO_DELAY", "CUSTOM"}
  BY DEF FilterUse
<1>2. /\ u.h_len >= 1 /\ u.step >= 1 /\ p.start >= 0 /\ p.len >= 1
      /\ u.h_len <= u.x_len + p.tail /\ (u.y_len = 0 \/ u.y_len >= p.len)
  BY DEF Fits
<1>3. CASE u.span = "START_ONLY"
  <2>1. p = [start |-> 0, head |-> u.h_len, tail |-> 0, len |-> u.x_len]  BY <1>3 DEF Padding
  <2>2. QED  BY <1>1, <1>2, <2>1
<1>4. CASE u.span = "NO_DELAY"
  <2>1. PICK half \in Int : half = u.h_len \div 2  BY <1>1
  <2>2. p = [start |-> half, head |-> half, tail |-> half, len |-> u.x_len]
    BY <1>4, <2>1 DEF Padding
  <2>3. QED  BY <1>1, <1>2, <2>1, <2>2
<1>5. CASE u.span = "CUSTOM"
  <2>1. p = [start |-> u.start, len |-> u.len,
             head |-> IF u.start \in 0 .. u.h_len - 2 THEN u.h_len - u.start ELSE 0,
             tail |-> IF u.start + u.len > u.x_len THEN u.start + u.len - u.x_len ELSE 0]
    BY <1>5 DEF Padding
  <2>2. /\ p.start = u.start /\ p.len = u.len
        /\ p.head = IF u.start \in 0 .. u.h_len - 2 THEN u.h_len - u.start ELSE 0
        /\ p.tail = IF u.start + u.len > u.x_len THEN u.start + u.len - u.x_len ELSE 0
    BY <2>1
  <2>3. QED  BY <1>1, <1>2, <2>2
<1>6. QED  BY <1>1, <1>3, <1>4, <1>5

\* From sample "from" on and before "to", v holds the input x and zeros.
Continues(v, x, from, to) ==
  \A k \in Int : from <= k /\ k < to =>
    Read(v, 2 * k) = Sample(x, k)[1] /\ Read(v, 2 * k + 1) = Sample(x, k)[2]

\* Within the room, a read finds the input continued with zeros.
LEMMA PaddedReads ==
  ASSUME NEW n \in Nat, NEW head \in Nat, NEW tail \in Nat, NEW x, x = Samples(n),
         NEW v, v = Padded(x, n, head, tail)
  PROVE  Numbers(v) /\ DOMAIN v \subseteq Int /\ Continues(v, x, -head, n + tail)
<1> DEFINE D == -2 * head .. 2 * (n + tail) - 1
<1>1. DOMAIN x = 0 .. 2 * n - 1 /\ \A f \in DOMAIN x : x[f] \in Int  BY DEF Samples
<1>2. DOMAIN v = D /\ \A f \in D : v[f] = IF f \in DOMAIN x THEN x[f] ELSE 0  BY DEF Padded
<1>3. D \subseteq Int  OBVIOUS
<1>4. ASSUME NEW k \in Int, -head <= k, k < n + tail
      PROVE  Read(v, 2 * k) = Sample(x, k)[1] /\ Read(v, 2 * k + 1) = Sample(x, k)[2]
  <2>1. 2 * k \in D /\ 2 * k + 1 \in D  BY <1>4
  <2>2. 2 * k \in DOMAIN x <=> 2 * k + 1 \in DOMAIN x  BY <1>1
  <2>3. Read(v, 2 * k) = v[2 * k] /\ Read(v, 2 * k + 1) = v[2 * k + 1]
    BY <1>2, <2>1 DEF Read
  <2>4. Sample(x, k) = IF 2 * k \in DOMAIN x THEN <<x[2 * k], x[2 * k + 1]>> ELSE <<0, 0>>
    BY DEF Sample
  <2> HIDE DEF D
  <2>5. QED  BY <1>2, <2>1, <2>2, <2>3, <2>4
<1>5. Numbers(v)
  <2> HIDE DEF D
  <2>1. QED  BY <1>1, <1>2 DEF Numbers
<1>6. QED  BY <1>2, <1>3, <1>4, <1>5 DEF Continues

\* What convolve returns for an input that names its places and one tap.
LEMMA ConvolveMeets ==
  ASSUME NEW u \in FilterUse, Fits(u), NEW tap \in TapFloats(u), NEW sse \in BOOLEAN,
         NEW p, p = Padding(u), NEW x, x = Samples(u.x_len)
  PROVE  convolve(u, x, UnitTap(u.h_len, tap), sse) =
           [i \in 0 .. p.len - 1 |->
              IF tap % 2 = 0 THEN Sample(x, i + p.start - (u.h_len - 1) + tap \div 2)
              ELSE TimesI(Sample(x, i + p.start - (u.h_len - 1) + tap \div 2))]
<1> DEFINE v == Padded(x, u.x_len, p.head, p.tail)
           c == [x |-> v, x_len |-> u.x_len + p.tail,
                 h |-> UnitTap(u.h_len, tap), h_len |-> u.h_len, start |-> p.start, len |-> p.len,
                 y_len |-> IF u.y_len = 0 THEN p.len ELSE u.y_len,
                 step |-> u.step, offset |-> 0]
           first == p.start - (u.h_len - 1)
<1>1. /\ p.head \in Nat /\ p.tail \in Nat /\ p.start \in Nat /\ p.len \in Nat \ {0}
      /\ p.start + p.len <= u.x_len + p.tail /\ first >= -p.head
      /\ u.h_len \in Nat \ {0} /\ u.step \in Nat \ {0} /\ u.x_len \in Nat
      /\ u.h_len <= u.x_len + p.tail /\ u.y_len \in Nat /\ (u.y_len = 0 \/ u.y_len >= p.len)
  BY PaddingIsEnough
<1>2. /\ tap \in Int /\ tap \in 0 .. 2 * u.h_len - 1 /\ (tap \div 2) % u.step = 0
      /\ u.real => tap % 2 = 0
  BY <1>1 DEF TapFloats
<1>3. Numbers(v) /\ DOMAIN v \subseteq Int /\ Continues(v, x, -p.head, u.x_len + p.tail)
  BY <1>1, PaddedReads
<1> HIDE DEF v
<1>4. bounds_check(c)  BY <1>1 DEF bounds_check
<1>5. TapCall(c, tap)  BY <1>1, <1>2, <1>3, <1>4 DEF TapCall
<1>6. convolve(u, x, UnitTap(u.h_len, tap), sse) = Answers(c, tap)
  <2>1. ~(p.len > c.y_len)  BY <1>1
  <2>2. u.real \in BOOLEAN /\ u.aligned \in BOOLEAN  BY DEF FilterUse
  <2>3. convolve(u, x, UnitTap(u.h_len, tap), sse) =
          CASE p.len > c.y_len -> Refused
            [] u.aligned /\ u.real -> convolve_real(c, sse)
            [] u.aligned /\ ~u.real -> convolve_complex(c, sse)
            [] ~u.aligned /\ u.real -> base_convolve_real(c)
            [] OTHER -> base_convolve_complex(c)
    BY Zenon DEF convolve, v
  <2> HIDE DEF c
  <2>4. /\ u.real => convolve_real(c, sse) = Answers(c, tap)
        /\ u.real => base_convolve_real(c) = Answers(c, tap)
        /\ convolve_complex(c, sse) = Answers(c, tap)
        /\ base_convolve_complex(c) = Answers(c, tap)
    BY <1>2, <1>5, RealAnswers, PlainReal, ComplexAnswers, PlainComplex
  <2>5. QED  BY <2>1, <2>2, <2>3, <2>4
<1>7. \A i \in 0 .. p.len - 1 :
        Answer(FirstMet(c), i, u.h_len, tap) =
          IF tap % 2 = 0 THEN Sample(x, i + first + tap \div 2)
          ELSE TimesI(Sample(x, i + first + tap \div 2))
  <2>1. TAKE i \in 0 .. p.len - 1
  <2>2. PICK k \in Int : k = i + first + tap \div 2  BY <1>1, <1>2
  <2>3. -p.head <= k /\ k < u.x_len + p.tail  BY <1>1, <1>2, <2>2
  <2>4. PICK at \in Int : at = 2 * (i + (tap \div 2))  BY <1>1, <1>2
  <2>5. at + 2 * first = 2 * k /\ at + 1 + 2 * first = 2 * k + 1  BY <1>1, <1>2, <2>2, <2>4
  <2>6. \A f \in Int : Read(FirstMet(c), f) = Read(v, f + 2 * first)
    <3>1. /\ c.start = p.start /\ c.h_len = u.h_len /\ c.x = v
          /\ c.start \in Int /\ c.h_len \in Int
      BY <1>1
    <3> HIDE DEF c
    <3>2. QED  BY <1>3, <3>1, FirstMetReads
  <2>7. Read(FirstMet(c), at) = Sample(x, k)[1] /\ Read(FirstMet(c), at + 1) = Sample(x, k)[2]
    <3> HIDE DEF c, first
    <3>1. QED  BY <1>3, <2>3, <2>5, <2>6 DEF Continues
  <2>8. Sample(x, k) = <<Sample(x, k)[1], Sample(x, k)[2]>>  BY DEF Sample
  <2> HIDE DEF c, first
  <2>9. QED  BY <1>2, <2>2, <2>4, <2>7, <2>8 DEF Answer, Meeting, TimesI
<1>8. c.len = p.len /\ c.h_len = u.h_len  OBVIOUS
<1> HIDE DEF c
<1>9. QED  BY <1>6, <1>7, <1>8 DEF Answers

\* A filter that is applied answers as the convolution.
LEMMA ConvolvingIsRight == Convolving => FilterIsConvolution'
<1> SUFFICES ASSUME Convolving PROVE FilterIsConvolution'  OBVIOUS
<1>1. PICK u \in FilterUses, sse \in BOOLEAN : \E tap \in TapFloats(u) :
        filter' = [op |-> "convolve", use |-> u, tap |-> tap,
                   out |-> convolve(u, Samples(u.x_len), UnitTap(u.h_len, tap), sse)]
  BY DEF Convolving
<1>2. PICK tap \in TapFloats(u) :
        filter' = [op |-> "convolve", use |-> u, tap |-> tap,
                   out |-> convolve(u, Samples(u.x_len), UnitTap(u.h_len, tap), sse)]
  BY <1>1
<1>3. u \in FilterUse /\ Fits(u)  BY FilterAssumption, UsesFit
<1>4. PICK p : p = Padding(u)  OBVIOUS
<1>5. PICK x : x = Samples(u.x_len)  OBVIOUS
<1>6. convolve(u, x, UnitTap(u.h_len, tap), sse) =
        [i \in 0 .. p.len - 1 |->
           IF tap % 2 = 0 THEN Sample(x, i + p.start - (u.h_len - 1) + tap \div 2)
           ELSE TimesI(Sample(x, i + p.start - (u.h_len - 1) + tap \div 2))]
  BY <1>3, <1>4, <1>5, ConvolveMeets
<1>7. /\ filter'.op = "convolve" /\ filter'.use = u /\ filter'.tap = tap
      /\ filter'.out = convolve(u, x, UnitTap(u.h_len, tap), sse)
  BY <1>2, <1>5
<1>8. /\ p.start = CASE u.span = "START_ONLY" -> 0
                     [] u.span = "NO_DELAY" -> u.h_len \div 2
                     [] OTHER -> u.start
      /\ p.len = IF u.span = "CUSTOM" THEN u.len ELSE u.x_len
  <2>1. u.span \in {"START_ONLY", "NO_DELAY", "CUSTOM"}  BY <1>3 DEF FilterUse
  <2>2. CASE u.span = "START_ONLY"  BY <1>4, <2>2 DEF Padding
  <2>3. CASE u.span = "NO_DELAY"  BY <1>4, <2>3 DEF Padding
  <2>4. CASE u.span = "CUSTOM"  BY <1>4, <2>4 DEF Padding
  <2>5. QED  BY <2>1, <2>2, <2>3, <2>4
<1>9. QED  BY <1>5, <1>6, <1>7, <1>8, Zenon DEF FilterIsConvolution

\* The middle tap of the sinc leaves the samples where they are.
LEMMA SincLeavesSamples ==
  ASSUME NEW n \in Nat, n >= 20, NEW sse \in BOOLEAN, NEW x, x = Samples(n)
  PROVE  convolve(SincUse(n), x, UnitTap(SincTaps, 2 * MiddleTap), sse)
           = [i \in 0 .. n - 1 |-> Sample(x, i)]
<1> DEFINE u == SincUse(n)
           p == Padding(u)
<1>1. u = [real |-> TRUE, aligned |-> TRUE, h_len |-> 20, x_len |-> n, y_len |-> 0,
           span |-> "NO_DELAY", start |-> 0, len |-> 0, step |-> 1]
  BY DEF SincUse, SincTaps
<1>2. u \in FilterUse  BY <1>1 DEF FilterUse
<1>3. p = [start |-> 10, head |-> 10, tail |-> 10, len |-> n]
  <2>1. u.span = "NO_DELAY" /\ u.h_len = 20 /\ u.x_len = n /\ 20 \div 2 = 10  BY <1>1
  <2> HIDE DEF u
  <2>2. QED  BY <2>1 DEF Padding
<1>4. Fits(u)  BY <1>1, <1>3 DEF Fits
<1>5. 2 * MiddleTap = 18 /\ SincTaps = 20  BY DEF MiddleTap, SincTaps
<1>6. 18 \in TapFloats(u)  BY <1>1 DEF TapFloats
<1>7. convolve(u, x, UnitTap(20, 18), sse) =
        [i \in 0 .. p.len - 1 |->
           IF 18 % 2 = 0 THEN Sample(x, i + p.start - (20 - 1) + 18 \div 2)
           ELSE TimesI(Sample(x, i + p.start - (20 - 1) + 18 \div 2))]
  <2>1. u.h_len = 20 /\ u.x_len = n  BY <1>1
  <2>2. PICK tap : tap = 18  OBVIOUS
  <2>3. tap \in TapFloats(u)  BY <1>6, <2>2
  <2> HIDE DEF u
  <2>4. x = Samples(u.x_len)  BY <2>1
  <2> HIDE DEF p
  <2>5. p = Padding(u)  BY DEF p
  <2>6. convolve(u, x, UnitTap(u.h_len, tap), sse) =
          [i \in 0 .. p.len - 1 |->
             IF tap % 2 = 0 THEN Sample(x, i + p.start - (u.h_len - 1) + tap \div 2)
             ELSE TimesI(Sample(x, i + p.start - (u.h_len - 1) + tap \div 2))]
    BY <1>2, <1>4, <2>3, <2>4, <2>5, ConvolveMeets
  <2>7. QED  BY <2>1, <2>2, <2>6, Zenon
<1>8. 18 % 2 = 0 /\ p.len = n /\ p.start = 10 /\ 18 \div 2 = 9  BY <1>3
<1> HIDE DEF u, p
<1>9. \A i \in 0 .. n - 1 : i + 10 - (20 - 1) + 9 = i  OBVIOUS
<1>10. QED  BY <1>5, <1>7, <1>8, <1>9 DEF u

\* A delay moves every sample by its whole part.
LEMMA DelayingIsRight == Delaying => FilterIsConvolution'
<1> SUFFICES ASSUME Delaying PROVE FilterIsConvolution'  OBVIOUS
<1> DEFINE n == SincTaps + 2
<1>1. PICK whole \in Delays, fraction \in BOOLEAN, sse \in BOOLEAN :
        filter' = [op |-> "delay", whole |-> whole, n |-> SincTaps + 2,
                   out |-> delayVector(SincTaps + 2, whole, fraction, sse)]
  BY DEF Delaying
<1>2. n \in Nat /\ n >= 20 /\ whole \in Int  BY FilterAssumption DEF SincTaps
<1> HIDE DEF n
<1>3. PICK x : x = Samples(n)  OBVIOUS
<1>4. \A k \in Int :
        Sample(x, k) = IF k \in 0 .. n - 1 THEN <<x[2 * k], x[2 * k + 1]>> ELSE <<0, 0>>
  <2>1. DOMAIN x = 0 .. 2 * n - 1  BY <1>3 DEF Samples
  <2>2. \A k \in Int : 2 * k \in DOMAIN x <=> k \in 0 .. n - 1  BY <1>2, <2>1
  <2>3. QED  BY <2>2 DEF Sample
<1>5. PICK y : /\ y = IF fraction
                      THEN convolve(SincUse(n), x, UnitTap(SincTaps, 2 * MiddleTap), sse)
                      ELSE [i \in 0 .. n - 1 |-> <<x[2 * i], x[2 * i + 1]>>]
               /\ delayVector(n, whole, fraction, sse) = Delayed(y, n, whole)
  BY <1>3 DEF delayVector
<1>6. \A k \in 0 .. n - 1 : y[k] = Sample(x, k)
  <2>1. CASE fraction
    <3>1. y = [i \in 0 .. n - 1 |-> Sample(x, i)]  BY <1>2, <1>3, <1>5, <2>1, SincLeavesSamples
    <3>2. QED  BY <3>1
  <2>2. CASE ~fraction
    <3>1. y = [i \in 0 .. n - 1 |-> <<x[2 * i], x[2 * i + 1]>>]  BY <1>5, <2>2
    <3>2. \A k \in 0 .. n - 1 : Sample(x, k) = <<x[2 * k], x[2 * k + 1]>>  BY <1>2, <1>4
    <3>3. QED  BY <3>1, <3>2
  <2>3. fraction \in BOOLEAN  BY <1>1
  <2>4. QED  BY <2>1, <2>2, <2>3
<1>7. Delayed(y, n, whole) = [i \in 0 .. n - 1 |-> Sample(x, i - whole)]
  <2>1. \A i \in 0 .. n - 1 :
          (IF i - whole \in 0 .. n - 1 THEN y[i - whole] ELSE <<0, 0>>) = Sample(x, i - whole)
    BY <1>2, <1>4, <1>6
  <2>2. QED  BY <2>1 DEF Delayed
<1>8. /\ filter'.op = "delay" /\ filter'.n = n /\ filter'.whole = whole
      /\ filter'.out = Delayed(y, n, whole)
  BY <1>1, <1>5 DEF n
<1>9. QED  BY <1>3, <1>7, <1>8 DEF FilterIsConvolution

\* Whatever filters the program applies, with whatever sizes, spans, starts
\* and steps that pass the check, and with or without SSE, every kernel
\* gives the convolution, and a delay moves the samples by the whole part
\* (sigProcLib.cpp convolve and delayVector, convolve.c).
THEOREM FiltersConvolve == FilterSpec => []FilterIsConvolution
<1>1. FilterInit => FilterIsConvolution
  BY DEF FilterInit, FilterIsConvolution, unfiltered
<1>2. FilterIsConvolution /\ [FilterNext]_filter => FilterIsConvolution'
  <2>1. Answered => FilterIsConvolution'
    BY DEF Answered, FilterIsConvolution, unfiltered
  <2>2. FilterIsConvolution /\ UNCHANGED filter => FilterIsConvolution'
    BY Zenon DEF FilterIsConvolution
  <2>3. QED  BY <2>1, <2>2, ConvolvingIsRight, DelayingIsRight DEF FilterNext
<1>3. QED  BY <1>1, <1>2, PTL DEF FilterSpec

-----------------------------------------------------------------------------
(* Resampler.                                                               *)

\* The output of a tap that meets the impulse of the stream, or does not.
Impulse(met) == [i \in 0 .. 0 |-> <<IF met THEN 1 ELSE 0, 0>>]

\* Whether output sample i of a block that starts at sample "from" has the
\* impulse.
Met(r, from, i) ==
  /\ r.tap % r.p = (r.q * i) % r.p
  /\ (r.q * i) \div r.p - r.tap \div r.p = r.at - from

\* What the resampler remembers of the stream that it has taken.
Remembered(r, taken) ==
  [f \in Floats(HistLen) |-> IF f = 2 * (r.at - taken + HistLen) THEN 1 ELSE 0]

\* A resampler that is made.
Working(r) ==
  /\ <<r.p, r.q>> \in Ratios /\ r.at \in Nat /\ r.tap \in 0 .. r.p * FiltLen - 1
  /\ r.sse \in BOOLEAN /\ r.taken \in Nat /\ r.history = Remembered(r, r.taken)

\* The numbers of a resampler that is made.
LEMMA WorkingIs ==
  ASSUME NEW r, Working(r)
  PROVE  /\ r.p \in Nat \ {0} /\ r.q \in Nat \ {0} /\ FiltLen \in Nat \ {0} /\ HistLen \in Nat
         /\ HistLen = FiltLen - 1 /\ r.tap \in Nat /\ r.tap \div r.p \in 0 .. FiltLen - 1
         /\ r.tap % r.p \in 0 .. r.p - 1
<1>1. /\ r.p \in Nat \ {0} /\ r.q \in Nat \ {0} /\ FiltLen \in Nat \ {0} /\ HistLen \in Nat
      /\ HistLen = FiltLen - 1
  BY ResamplerAssumption DEF Working, HistLen
<1>2. PICK p, t \in Nat : p = r.p /\ t = r.tap /\ p \in Nat \ {0}  BY <1>1 DEF Working
<1>3. p * FiltLen \in Nat  BY <1>1, <1>2
<1>4. t < p * FiltLen  BY <1>2, <1>3 DEF Working
<1> DEFINE d == t \div p  m == t % p
<1>5. d \in Int /\ m \in 0 .. p - 1 /\ t = p * d + m
  <2>1. p \in Nat /\ p > 0 /\ t \in Int  BY <1>2
  <2>2. QED  BY <2>1, Division
<1> HIDE DEF d, m
<1>6. ASSUME d <= -1 PROVE FALSE
  <2>1. p * d <= -p  BY <1>2, <1>5, <1>6
  <2>2. p * d \in Int  BY <1>2, <1>5
  <2>3. QED  BY <1>2, <1>5, <2>1, <2>2
<1>7. ASSUME d >= FiltLen PROVE FALSE
  <2>1. p * d >= p * FiltLen  BY <1>1, <1>2, <1>5, <1>7
  <2>2. p * d \in Int  BY <1>2, <1>5
  <2>3. QED  BY <1>3, <1>4, <1>5, <2>1, <2>2
<1>8. d \in 0 .. FiltLen - 1  BY <1>1, <1>5, <1>6, <1>7
<1>9. QED  BY <1>1, <1>2, <1>5, <1>8 DEF d, m

\* The stream from the samples that are remembered to the end of the block.
Around(r, len, x) ==
  /\ DOMAIN x = -2 * HistLen .. 2 * len - 1
  /\ \A f \in DOMAIN x : x[f] = IF f = 2 * (r.at - r.taken) THEN 1 ELSE 0

\* The block with the history in front of it is the stream around the block.
LEMMA HistoryJoins ==
  ASSUME NEW r, Working(r), NEW len \in Nat, NEW in,
         in = [f \in Floats(len) |-> IF f = 2 * (r.at - r.taken) THEN 1 ELSE 0],
         NEW x, x = WithHistory(in, len, r.history)
  PROVE  Around(r, len, x) /\ HistoryAfter(x, len) = Remembered(r, r.taken + len)
<1>1. HistLen \in Nat /\ r.at \in Nat /\ r.taken \in Nat  BY WorkingIs DEF Working
<1>2. x = [f \in -2 * HistLen .. 2 * len - 1 |-> IF f < 0 THEN r.history[f + 2 * HistLen] ELSE in[f]]
  BY DEF WithHistory
<1>3. ASSUME NEW f \in -2 * HistLen .. 2 * len - 1
      PROVE  x[f] = IF f = 2 * (r.at - r.taken) THEN 1 ELSE 0
  <2>1. CASE f < 0
    <3>1. f + 2 * HistLen \in Floats(HistLen)  BY <1>1, <2>1 DEF Floats
    <3>2. r.history[f + 2 * HistLen] = IF f + 2 * HistLen = 2 * (r.at - r.taken + HistLen) THEN 1 ELSE 0
      BY <3>1 DEF Working, Remembered
    <3>3. f + 2 * HistLen = 2 * (r.at - r.taken + HistLen) <=> f = 2 * (r.at - r.taken)
      BY <1>1
    <3>4. QED  BY <1>2, <2>1, <3>2, <3>3
  <2>2. CASE ~(f < 0)
    <3>1. f \in Floats(len)  BY <1>1, <2>2 DEF Floats
    <3>2. QED  BY <1>2, <2>2, <3>1
  <2>3. QED  BY <2>1, <2>2
<1>4. DOMAIN x = -2 * HistLen .. 2 * len - 1  BY <1>2
<1>5. HistoryAfter(x, len) = Remembered(r, r.taken + len)
  <2>1. ASSUME NEW f \in Floats(HistLen)
        PROVE  x[2 * (len - HistLen) + f]
                 = IF f = 2 * (r.at - (r.taken + len) + HistLen) THEN 1 ELSE 0
    <3>1. PICK g \in Int : g = 2 * (len - HistLen) + f  BY <1>1 DEF Floats
    <3>2. g \in -2 * HistLen .. 2 * len - 1  BY <1>1, <3>1 DEF Floats
    <3>3. g = 2 * (r.at - r.taken) <=> f = 2 * (r.at - (r.taken + len) + HistLen)
      <4>1. PICK a, t, h \in Int : a = r.at /\ t = r.taken /\ h = HistLen  BY <1>1
      <4>2. f \in Int /\ g = 2 * (len - h) + f  BY <3>1, <4>1 DEF Floats
      <4>3. g = 2 * (a - t) <=> f = 2 * (a - (t + len) + h)  BY <4>1, <4>2
      <4>4. QED  BY <4>1, <4>3
    <3>4. QED  BY <1>3, <3>1, <3>2, <3>3
  <2>2. QED  BY <2>1 DEF HistoryAfter, Remembered
<1>6. QED  BY <1>3, <1>4, <1>5 DEF Around

\* A partition has one tap of the prototype, or none.
LEMMA PartitionIs ==
  ASSUME NEW p \in Nat \ {0}, NEW n \in Int, NEW tap \in Nat, NEW d, d = tap \div p, d \in 0 .. FiltLen - 1,
         FiltLen \in Nat
  PROVE  Partition(p, n, tap) =
           UnitTap(FiltLen, IF tap % p = n THEN 2 * (FiltLen - 1 - d) ELSE -2)
<1>1. ASSUME NEW f \in 0 .. 2 * FiltLen - 1
      PROVE  (tap % p = n /\ f = 2 * (FiltLen - 1 - tap \div p))
               <=> f = IF tap % p = n THEN 2 * (FiltLen - 1 - d) ELSE -2
  <2>1. f # -2  OBVIOUS
  <2>2. QED  BY <2>1
<1>2. QED  BY <1>1 DEF Partition, UnitTap

\* One output sample: the tap that its partition has meets the stream.
LEMMA SampleMeets ==
  ASSUME NEW r, Working(r), NEW len \in Nat, FiltLen <= len, NEW in,
         in = [f \in Floats(len) |-> IF f = 2 * (r.at - r.taken) THEN 1 ELSE 0],
         NEW i \in Nat, NEW y_len \in Nat, y_len >= 1, (r.q * i) \div r.p \in 0 .. len - 1,
         NEW c, c = [x |-> WithHistory(in, len, r.history), x_len |-> len,
                     h |-> Partition(r.p, OutPath(r.p, r.q, i), r.tap), h_len |-> FiltLen,
                     y_len |-> y_len, start |-> InIndex(r.p, r.q, i),
                     len |-> 1, step |-> 1, offset |-> 0]
  PROVE  convolve_real(c, r.sse) = Impulse(Met(r, r.taken, i))
<1> DEFINE x == WithHistory(in, len, r.history)
           d == r.tap \div r.p
           start == (r.q * i) \div r.p
           n == (r.q * i) % r.p
           meets == r.tap % r.p = n
           e == IF meets THEN 2 * (FiltLen - 1 - d) ELSE -2
           far == r.at - r.taken
<1>1. /\ r.p \in Nat \ {0} /\ r.q \in Nat \ {0} /\ FiltLen \in Nat \ {0} /\ r.tap \in Nat
      /\ d \in 0 .. FiltLen - 1 /\ HistLen = FiltLen - 1 /\ far \in Int /\ r.sse \in BOOLEAN
  BY WorkingIs DEF Working
<1>2. r.q * i \in Int  BY <1>1
<1>3. n \in Int /\ start \in 0 .. len - 1
  <2>1. PICK p, a \in Int : p = r.p /\ a = r.q * i /\ p \in Nat /\ p > 0  BY <1>1, <1>2
  <2>2. a % p \in Int  BY <2>1
  <2>3. QED  BY <2>1, <2>2
<1>4. /\ DOMAIN x = -2 * HistLen .. 2 * len - 1
      /\ \A f \in DOMAIN x : x[f] = IF f = 2 * far THEN 1 ELSE 0
  <2>1. x = WithHistory(in, len, r.history)  OBVIOUS
  <2> HIDE DEF x
  <2>2. Around(r, len, x)  BY <2>1, HistoryJoins
  <2>3. QED  BY <2>2 DEF Around
<1>5. c.h = UnitTap(FiltLen, e)
  <2>1. c.h = Partition(r.p, n, r.tap)  BY DEF OutPath
  <2>2. PICK p, tap, o, b : p = r.p /\ tap = r.tap /\ o = n /\ b = d  OBVIOUS
  <2>3. /\ p \in Nat \ {0} /\ o \in Int /\ tap \in Nat /\ b = tap \div p
        /\ b \in 0 .. FiltLen - 1 /\ FiltLen \in Nat
    BY <1>1, <1>3, <2>2
  <2>4. Partition(p, o, tap) = UnitTap(FiltLen, IF tap % p = o THEN 2 * (FiltLen - 1 - b) ELSE -2)
    BY <2>3, PartitionIs
  <2>5. QED  BY <2>1, <2>2, <2>4
<1>6. /\ c.x = x /\ c.x_len = len /\ c.h_len = FiltLen /\ c.y_len = y_len /\ c.start = start
      /\ c.len = 1 /\ c.step = 1 /\ c.offset = 0
  BY DEF InIndex
<1> HIDE DEF x, d, start, n, meets
<1>7. /\ e \in Int /\ e % 2 = 0 /\ (e \div 2) % 1 = 0
      /\ meets => e \in 0 .. 2 * FiltLen - 1 /\ e \div 2 = FiltLen - 1 - d
      /\ ~meets => e \notin 0 .. 2 * FiltLen - 1
  BY <1>1
<1> HIDE DEF e, far
<1>8. Numbers(x) /\ DOMAIN x \subseteq Int  BY <1>1, <1>4 DEF Numbers
<1>9. bounds_check(c)  BY <1>1, <1>3, <1>6 DEF bounds_check
<1>10. TapCall(c, e)  BY <1>1, <1>3, <1>5, <1>6, <1>7, <1>8, <1>9 DEF TapCall
<1>11. convolve_real(c, r.sse) = Answers(c, e)  BY <1>1, <1>7, <1>10, RealAnswers
<1>12. Answers(c, e) = [j \in 0 .. 0 |-> Answer(FirstMet(c), j, FiltLen, e)]
  BY <1>6 DEF Answers
<1>13. Answer(FirstMet(c), 0, FiltLen, e) = <<IF meets /\ start - d = far THEN 1 ELSE 0, 0>>
  <2>1. CASE ~meets  BY <1>7, <2>1 DEF Answer
  <2>2. CASE meets
    <3>1. e \in 0 .. 2 * FiltLen - 1 /\ 2 * (0 + (e \div 2)) = 2 * (FiltLen - 1 - d)
      BY <1>7, <2>2
    <3>2. PICK at \in Int : at = 2 * (FiltLen - 1 - d)  BY <1>1
    <3>3. \A f \in Int : Read(FirstMet(c), f) = Read(x, f + 2 * (start - (FiltLen - 1)))
      BY <1>1, <1>3, <1>6, <1>8, FirstMetReads
    <3>4. /\ at + 2 * (start - (FiltLen - 1)) = 2 * (start - d)
          /\ at + 1 + 2 * (start - (FiltLen - 1)) = 2 * (start - d) + 1
      BY <1>1, <1>3, <3>2
    <3>5. 2 * (start - d) \in DOMAIN x /\ 2 * (start - d) + 1 \in DOMAIN x
      BY <1>1, <1>3, <1>4
    <3>6. /\ 2 * (start - d) = 2 * far <=> start - d = far
          /\ 2 * (start - d) + 1 # 2 * far
      BY <1>1, <1>3
    <3>7. /\ Read(x, 2 * (start - d)) = IF start - d = far THEN 1 ELSE 0
          /\ Read(x, 2 * (start - d) + 1) = 0
      BY <1>4, <3>5, <3>6 DEF Read
    <3>8. /\ Read(FirstMet(c), at) = IF start - d = far THEN 1 ELSE 0
          /\ Read(FirstMet(c), at + 1) = 0
      BY <3>2, <3>3, <3>4, <3>7
    <3>9. QED  BY <1>7, <2>2, <3>1, <3>2, <3>8 DEF Answer, Meeting
  <2>3. QED  BY <2>1, <2>2 DEF meets
<1>14. Met(r, r.taken, i) <=> meets /\ start - d = far  BY DEF Met, meets, start, d, far, n
<1>15. \A j \in 0 .. 0 : j = 0  OBVIOUS
<1>16. QED  BY <1>11, <1>12, <1>13, <1>14, <1>15 DEF Impulse

\* Output sample i of n * p takes its input from within the n * q samples.
LEMMA StartsInside ==
  ASSUME NEW p \in Nat \ {0}, NEW q \in Nat \ {0}, NEW n \in Nat, NEW i \in 0 .. n * p - 1
  PROVE  (q * i) \div p \in 0 .. n * q - 1
<1> DEFINE a == q * i  d == a \div p  len == n * q
<1>1. n * p \in Nat /\ len \in Nat /\ i \in Nat /\ a \in Int /\ p \in Nat /\ p > 0 /\ q \in Nat /\ q > 0
  OBVIOUS
<1>2. a >= 0  BY <1>1
<1>3. a < p * len
  <2>1. q * i <= q * (n * p - 1)
    <3>1. i <= n * p - 1 /\ n * p - 1 \in Int  BY <1>1
    <3>2. PICK m \in Int : m = n * p - 1  BY <3>1
    <3>3. q * i <= q * m  BY <1>1, <3>1, <3>2
    <3>4. QED  BY <3>2, <3>3
  <2>2. q * (n * p - 1) = p * len - q  BY <1>1
  <2>3. p * len \in Int  BY <1>1
  <2>4. QED  BY <1>1, <2>1, <2>2, <2>3
<1> HIDE DEF a, len
<1>4. d \in Int /\ a % p \in 0 .. p - 1 /\ a = p * d + (a % p)  BY <1>1, Division
<1> HIDE DEF d
<1>5. p * d \in Int /\ p * len \in Int  BY <1>1, <1>4
<1>6. ASSUME d <= -1 PROVE FALSE
  <2>1. p * d <= -p  BY <1>1, <1>4, <1>6
  <2>2. QED  BY <1>1, <1>2, <1>4, <1>5, <2>1
<1>7. ASSUME d >= len PROVE FALSE
  <2>1. p * d >= p * len  BY <1>1, <1>4, <1>7
  <2>2. QED  BY <1>1, <1>3, <1>4, <1>5, <2>1
<1>8. d \in 0 .. len - 1  BY <1>1, <1>4, <1>6, <1>7
<1>9. QED  BY <1>8 DEF a, d, len

\* The path of an output sample is that of its place in the whole stream.
LEMMA PathsGoOn ==
  ASSUME NEW p \in Nat \ {0}, NEW q \in Nat \ {0}, NEW k \in Nat, NEW i \in Nat
  PROVE  /\ (q * (p * k + i)) % p = (q * i) % p
         /\ (q * (p * k + i)) \div p = q * k + (q * i) \div p
<1> DEFINE a == q * i  d == a \div p  m == a % p  b == q * (p * k + i)
<1>1. a \in Int /\ p \in Nat /\ p > 0 /\ q * k \in Int /\ p * k \in Int  OBVIOUS
<1>2. b = p * (q * k) + a  OBVIOUS
<1> HIDE DEF a, b
<1>3. d \in Int /\ m \in 0 .. p - 1 /\ a = p * d + m  BY <1>1, Division
<1> HIDE DEF d, m
<1>4. p * (q * k + d) = p * (q * k) + p * d /\ p * (q * k) \in Int /\ p * d \in Int
      /\ q * k + d \in Int
  BY <1>1, <1>3
<1>5. b = p * (q * k + d) + m  BY <1>2, <1>3, <1>4
<1>6. b % p = m /\ b \div p = q * k + d  BY <1>1, <1>3, <1>4, <1>5, DivisionIsUnique
<1>7. QED  BY <1>6 DEF a, b, d, m

\* Whole chunks pass the check of the lengths.
LEMMA ChunksPass ==
  ASSUME NEW p \in Nat \ {0}, NEW q \in Nat \ {0}, NEW n \in Nat, n * p <= MAX_OUTPUT_LEN
  PROVE  check_vec_len(n * q, n * p, p, q)
<1>1. ASSUME NEW k \in Nat \ {0} PROVE (n * k) % k = 0 /\ (n * k) \div k = n
  <2>1. n * k = k * n + 0 /\ k > 0 /\ 0 \in 0 .. k - 1  OBVIOUS
  <2>2. QED  BY <2>1, DivisionIsUnique
<1>2. QED  BY <1>1 DEF check_vec_len

\* A block of n chunks gives n * p outputs and the history of its tail.
LEMMA RotateIs ==
  ASSUME NEW r, Working(r), NEW n \in Nat \ {0}, n * r.p <= MAX_OUTPUT_LEN, FiltLen <= n * r.q,
         NEW in, in = [f \in Floats(n * r.q) |-> IF f = 2 * (r.at - r.taken) THEN 1 ELSE 0]
  PROVE  rotate(r, in, n * r.q, n * r.p, r.sse) =
           [out |-> [i \in 1 .. n * r.p |-> Impulse(Met(r, r.taken, i - 1))],
            history |-> Remembered(r, r.taken + n * r.q)]
<1>1. PICK p \in Nat \ {0}, q \in Nat \ {0} : p = r.p /\ q = r.q  BY WorkingIs
<1>2. PICK len \in Nat, size \in Nat : len = n * q /\ size = n * p  BY <1>1
<1> DEFINE x == WithHistory(in, len, r.history)
           c(i) == [x |-> x, x_len |-> len, h |-> Partition(r.p, OutPath(r.p, r.q, i), r.tap),
                    h_len |-> FiltLen, y_len |-> size - i, start |-> InIndex(r.p, r.q, i),
                    len |-> 1, step |-> 1, offset |-> 0]
<1>3. check_vec_len(len, size, r.p, r.q)  BY <1>1, <1>2, ChunksPass
<1>4. rotate(r, in, len, size, r.sse) =
        [out |-> [i \in 1 .. size |-> convolve_real(c(i - 1), r.sse)],
         history |-> HistoryAfter(x, len)]
  BY <1>3, Zenon DEF rotate
<1>5. in = [f \in Floats(len) |-> IF f = 2 * (r.at - r.taken) THEN 1 ELSE 0] /\ FiltLen <= len
  BY <1>1, <1>2
<1>6. HistoryAfter(x, len) = Remembered(r, r.taken + len)
  <2>1. x = WithHistory(in, len, r.history)  OBVIOUS
  <2> HIDE DEF x
  <2>2. QED  BY <1>5, <2>1, HistoryJoins
<1>7. ASSUME NEW i \in 1 .. size
      PROVE  convolve_real(c(i - 1), r.sse) = Impulse(Met(r, r.taken, i - 1))
  <2>1. PICK j \in Nat : j = i - 1 /\ j \in 0 .. n * p - 1  BY <1>2
  <2>2. (r.q * j) \div r.p \in 0 .. len - 1  BY <1>1, <1>2, <2>1, StartsInside
  <2>3. PICK y_len \in Nat : y_len = size - j /\ y_len >= 1  BY <1>2, <2>1
  <2>4. PICK d : d = c(j)  OBVIOUS
  <2>5. d = [x |-> WithHistory(in, len, r.history), x_len |-> len,
             h |-> Partition(r.p, OutPath(r.p, r.q, j), r.tap), h_len |-> FiltLen,
             y_len |-> y_len, start |-> InIndex(r.p, r.q, j), len |-> 1, step |-> 1, offset |-> 0]
    BY <2>3, <2>4
  <2> HIDE DEF c
  <2>6. convolve_real(d, r.sse) = Impulse(Met(r, r.taken, j))
    BY <1>5, <2>2, <2>3, <2>5, SampleMeets
  <2>7. QED  BY <2>1, <2>4, <2>6
<1> HIDE DEF c, x
<1>8. QED  BY <1>1, <1>2, <1>4, <1>6, <1>7

-----------------------------------------------------------------------------
Outputs == {Impulse(met) : met \in BOOLEAN}

ResamplerType ==
  [p : Nat, q : Nat, at : Nat, tap : Nat, sse : BOOLEAN, taken : Nat, blocks : Nat,
   out : Seq(Outputs), history : [Floats(HistLen) -> {0, 1}]]

\* What was taken and what was given are as many chunks, the history holds
\* the end of what was taken, and every output so far is right.
Streams(r) ==
  /\ Working(r) /\ r \in ResamplerType
  /\ \E k \in Nat : r.taken = r.q * k /\ Len(r.out) = r.p * k
  /\ \A j \in 1 .. Len(r.out) : r.out[j] = Impulse(Met(r, 0, j - 1))

ResamplerInv == resampler = unmade \/ Streams(resampler)

\* Nothing is taken yet and the history is silent.
LEMMA MakeStreams == Make => ResamplerInv'
<1> SUFFICES ASSUME Make PROVE Streams(resampler')  BY DEF ResamplerInv
<1>1. PICK ratio \in Ratios, at \in {0, 1, ChunkOf} :
        \E tap \in 0 .. ratio[1] * FiltLen - 1, sse \in BOOLEAN :
          resampler' = [p |-> ratio[1], q |-> ratio[2], at |-> at, tap |-> tap, sse |-> sse,
                        taken |-> 0, blocks |-> 0, out |-> <<>>,
                        history |-> [f \in Floats(HistLen) |-> 0]]
  BY DEF Make
<1>2. PICK tap \in 0 .. ratio[1] * FiltLen - 1, sse \in BOOLEAN :
          resampler' = [p |-> ratio[1], q |-> ratio[2], at |-> at, tap |-> tap, sse |-> sse,
                        taken |-> 0, blocks |-> 0, out |-> <<>>,
                        history |-> [f \in Floats(HistLen) |-> 0]]
  BY <1>1
<1> DEFINE r == resampler'
<1>3. /\ ratio = <<ratio[1], ratio[2]>> /\ ratio[1] \in Nat /\ ratio[2] \in Nat /\ at \in Nat
      /\ FiltLen \in Nat \ {0} /\ HistLen \in Nat
  BY ResamplerAssumption DEF HistLen
<1>4. /\ r.p = ratio[1] /\ r.q = ratio[2] /\ r.at = at /\ r.tap = tap /\ r.sse = sse /\ r.taken = 0
      /\ r.out = <<>> /\ r.history = [f \in Floats(HistLen) |-> 0]
  BY <1>2
<1>5. tap \in Nat  OBVIOUS
<1>6. r \in ResamplerType  BY <1>2, <1>3, <1>5 DEF ResamplerType
<1> HIDE DEF r
<1>7. r.history = Remembered(r, r.taken)
  <2>1. \A f \in Floats(HistLen) : f # 2 * (r.at - r.taken + HistLen)  BY <1>3, <1>4 DEF Floats
  <2>2. QED  BY <1>4, <2>1 DEF Remembered
<1>8. Working(r)  BY <1>1, <1>2, <1>3, <1>4, <1>7 DEF Working
<1>9. Len(r.out) = 0 /\ r.taken = r.q * 0 /\ 0 = r.p * 0  BY <1>3, <1>4
<1>10. QED  BY <1>6, <1>8, <1>9 DEF Streams, r

\* A block keeps what was given and adds what comes next.
LEMMA RotateStreams == ResamplerInv /\ Rotate => ResamplerInv'
<1> SUFFICES ASSUME ResamplerInv, Rotate PROVE Streams(resampler')  BY DEF ResamplerInv
<1> DEFINE r == resampler  s == resampler'
<1>1. Streams(r)  BY DEF Rotate, ResamplerInv
<1>2. PICK chunks \in Chunks :
        LET in_len == chunks * ChunkOf * r.q
            in == [f \in Floats(in_len) |-> IF f = 2 * (r.at - r.taken) THEN 1 ELSE 0]
            done == rotate(r, in, in_len, chunks * ChunkOf * r.p, r.sse)
        IN resampler' = [r EXCEPT !.taken = @ + in_len, !.blocks = @ + 1,
                                  !.out = @ \o done.out, !.history = done.history]
  BY DEF Rotate
<1>3. /\ Working(r) /\ r \in ResamplerType
      /\ \A j \in 1 .. Len(r.out) : r.out[j] = Impulse(Met(r, 0, j - 1))
  BY <1>1 DEF Streams
<1>4. PICK k \in Nat : r.taken = r.q * k /\ Len(r.out) = r.p * k  BY <1>1 DEF Streams
<1>5. PICK n \in Nat \ {0} : n = chunks * ChunkOf  BY ResamplerAssumption
<1>6. PICK p \in Nat \ {0}, q \in Nat \ {0} : p = r.p /\ q = r.q  BY <1>3, WorkingIs
<1>7. n * p <= MAX_OUTPUT_LEN /\ FiltLen <= n * q
  <2>1. <<p, q>> \in Ratios  BY <1>3, <1>6 DEF Working
  <2>2. <<p, q>>[1] = p /\ <<p, q>>[2] = q  OBVIOUS
  <2>3. QED  BY <1>5, <2>1, <2>2, BlocksFit
<1> DEFINE in == [f \in Floats(n * r.q) |-> IF f = 2 * (r.at - r.taken) THEN 1 ELSE 0]
           more == [i \in 1 .. n * r.p |-> Impulse(Met(r, r.taken, i - 1))]
<1>8. rotate(r, in, n * r.q, n * r.p, r.sse) =
        [out |-> more, history |-> Remembered(r, r.taken + n * r.q)]
  BY <1>3, <1>6, <1>7, RotateIs
<1>9. s = [r EXCEPT !.taken = @ + n * r.q, !.blocks = @ + 1,
                    !.out = @ \o more, !.history = Remembered(r, r.taken + n * r.q)]
  <2>1. PICK done : done = rotate(r, in, n * r.q, n * r.p, r.sse)  OBVIOUS
  <2>2. s = [r EXCEPT !.taken = @ + n * r.q, !.blocks = @ + 1,
                      !.out = @ \o done.out, !.history = done.history]
    BY <1>2, <1>5, <2>1, Zenon
  <2> HIDE DEF more, s, in
  <2>3. done.out = more /\ done.history = Remembered(r, r.taken + n * r.q)  BY <1>8, <2>1
  <2>4. QED  BY <2>2, <2>3
<1> HIDE DEF s, in
<1>10. /\ s.p = p /\ s.q = q /\ s.at = r.at /\ s.tap = r.tap /\ s.sse = r.sse
       /\ s.taken = r.taken + n * q /\ s.out = r.out \o more
       /\ s.history = Remembered(r, r.taken + n * q)
  BY <1>3, <1>6, <1>9 DEF ResamplerType
<1>11. more \in Seq(Outputs) /\ Len(more) = n * p
  <2>1. PICK size \in Nat : size = n * r.p /\ size = n * p  BY <1>6
  <2>2. \A met : Impulse(met) \in Outputs  BY DEF Outputs, Impulse
  <2>3. more = [i \in 1 .. size |-> Impulse(Met(r, r.taken, i - 1))]  BY <2>1
  <2> HIDE DEF more
  <2>4. more \in Seq(Outputs) /\ Len(more) = size  BY <2>2, <2>3
  <2>5. QED  BY <2>1, <2>4
<1>12. r.out \in Seq(Outputs) /\ r.taken \in Nat /\ r.blocks \in Nat  BY <1>3 DEF ResamplerType
<1> HIDE DEF more
<1>13. s.out \in Seq(Outputs) /\ Len(s.out) = Len(r.out) + n * p
  <2>1. PICK u, v : u = r.out /\ v = more  OBVIOUS
  <2>2. u \in Seq(Outputs) /\ v \in Seq(Outputs) /\ s.out = u \o v  BY <1>10, <1>11, <1>12, <2>1
  <2>3. u \o v \in Seq(Outputs) /\ Len(u \o v) = Len(u) + Len(v)  BY <2>2, ConcatProperties
  <2>4. QED  BY <1>11, <2>1, <2>2, <2>3
<1>14. s.taken = q * (k + n) /\ Len(s.out) = p * (k + n) /\ s.taken \in Nat
  <2>1. q * k + n * q = q * (k + n) /\ p * k + n * p = p * (k + n) /\ q * (k + n) \in Nat
    OBVIOUS
  <2>2. QED  BY <1>4, <1>6, <1>10, <1>13, <2>1
<1>15. Remembered(s, s.taken) = s.history /\ s.history \in [Floats(HistLen) -> {0, 1}]
  BY <1>10 DEF Remembered
<1>16. Working(s)  BY <1>3, <1>6, <1>10, <1>14, <1>15 DEF Working
<1>17. s \in ResamplerType
  <2>1. s.blocks = r.blocks + 1 /\ DOMAIN s = DOMAIN r  BY <1>3, <1>9 DEF ResamplerType
  <2>2. PICK taken, blocks, out, hist :
          /\ s = [r EXCEPT !.taken = taken, !.blocks = blocks, !.out = out, !.history = hist]
          /\ taken = s.taken /\ blocks = r.blocks + 1 /\ out = s.out /\ hist = s.history
    BY <1>3, <1>6, <1>9, <1>10
  <2>3. /\ taken \in Nat /\ blocks \in Nat /\ out \in Seq(Outputs)
        /\ hist \in [Floats(HistLen) -> {0, 1}]
    <3>1. blocks \in Nat  BY <1>12, <2>2
    <3>2. out \in Seq(Outputs)  BY <1>13, <2>2
    <3>3. taken \in Nat /\ hist \in [Floats(HistLen) -> {0, 1}]  BY <1>14, <1>15, <2>2
    <3>4. QED  BY <3>1, <3>2, <3>3
  <2>4. QED  BY <1>3, <2>2, <2>3 DEF ResamplerType
<1>18. ASSUME NEW j \in 1 .. Len(s.out) PROVE s.out[j] = Impulse(Met(s, 0, j - 1))
  <2>1. Met(s, 0, j - 1) = Met(r, 0, j - 1)  BY <1>6, <1>10 DEF Met
  <2>2. p * k \in Nat /\ n * p \in Nat /\ Len(r.out) = p * k  BY <1>4, <1>6
  <2>3. CASE j <= p * k
    <3>1. s.out[j] = r.out[j] /\ j \in 1 .. Len(r.out)
      BY <1>10, <1>11, <1>12, <2>2, <2>3, ConcatProperties
    <3>2. QED  BY <1>3, <2>1, <3>1
  <2>4. CASE j > p * k
    <3>1. PICK i \in Nat : j = p * k + (i + 1) /\ i + 1 \in 1 .. n * p
      <4>1. j - p * k - 1 \in Nat /\ j <= p * k + n * p  BY <1>13, <2>2, <2>4
      <4>2. j = p * k + ((j - p * k - 1) + 1) /\ (j - p * k - 1) + 1 \in 1 .. n * p
        BY <2>2, <4>1
      <4>3. QED  BY <4>1, <4>2
    <3>2. s.out[j] = more[i + 1]
      <4>1. PICK a, b \in Nat : a = Len(r.out) /\ b = Len(more) /\ a = p * k /\ b = n * p
        BY <1>11, <2>2
      <4>2. j \in 1 .. a + b /\ j > a /\ j - a = i + 1  BY <2>4, <3>1, <4>1
      <4>3. PICK u, v \in Seq(Outputs) : u = r.out /\ v = more  BY <1>11, <1>12
      <4>4. j \in 1 .. Len(u) + Len(v) /\ ~(j <= Len(u)) /\ j - Len(u) = i + 1
        <5>1. Len(u) = a /\ Len(v) = b  BY <4>1, <4>3
        <5>2. ~(j <= a) /\ a \in Nat /\ j \in Int  BY <4>1, <4>2
        <5>3. QED  BY <4>2, <5>1, <5>2
      <4>5. (u \o v)[j] = v[j - Len(u)]  BY <4>3, <4>4, ConcatProperties
      <4>6. QED  BY <1>10, <4>3, <4>4, <4>5
    <3>3. more[i + 1] = Impulse(Met(r, r.taken, i))
      <4>1. (i + 1) - 1 = i  OBVIOUS
      <4>2. QED  BY <1>6, <3>1, <4>1 DEF more
    <3>4. Met(r, r.taken, i) <=> Met(r, 0, j - 1)
      <4>1. j - 1 = p * k + i  BY <2>2, <3>1
      <4>2. /\ (q * (p * k + i)) % p = (q * i) % p
            /\ (q * (p * k + i)) \div p = q * k + (q * i) \div p
        BY PathsGoOn
      <4>3. q * k \in Int /\ r.at \in Int /\ r.tap \div p \in Int /\ (q * i) \div p \in Int
        <5>1. r.tap \div p \in Int /\ r.at \in Int  BY <1>3, <1>6, WorkingIs DEF Working
        <5>2. q * i \in Int /\ p \in Nat /\ p > 0  OBVIOUS
        <5>3. QED  BY <5>1, <5>2, Division
      <4>4. (q * k + (q * i) \div p) - r.tap \div p = r.at - 0
              <=> (q * i) \div p - r.tap \div p = r.at - q * k
        <5>1. PICK a, b, c, d \in Int :
                a = q * k /\ b = (q * i) \div p /\ c = r.tap \div p /\ d = r.at
          BY <4>3
        <5>2. (a + b) - c = d - 0 <=> b - c = d - a  OBVIOUS
        <5>3. QED  BY <5>1, <5>2
      <4>5. QED  BY <1>4, <1>6, <4>1, <4>2, <4>4 DEF Met
    <3>5. Impulse(Met(r, r.taken, i)) = Impulse(Met(s, 0, j - 1))
      BY <2>1, <3>4 DEF Impulse
    <3>6. QED  BY <3>2, <3>3, <3>5
  <2>5. QED  BY <2>2, <2>3, <2>4
<1>19. \E m \in Nat : s.taken = s.q * m /\ Len(s.out) = s.p * m
  <2>1. PICK m \in Nat : m = k + n  OBVIOUS
  <2>2. s.taken = s.q * m /\ Len(s.out) = s.p * m  BY <1>10, <1>14, <2>1
  <2>3. QED  BY <2>2
<1>20. QED  BY <1>16, <1>17, <1>18, <1>19 DEF Streams, s

\* For every ratio, partition length and sequence of block lengths, the
\* blocks join to the output of one filter over the whole stream, and as
\* many chunks are given as are taken (Resampler.cpp rotate).
THEOREM ResamplerStreams == ResamplerSpec => []ResamplesStream
<1>1. ResamplerInit => ResamplerInv  BY DEF ResamplerInit, ResamplerInv
<1>2. ResamplerInv /\ [ResamplerNext]_resampler => ResamplerInv'
  <2>1. Release => ResamplerInv'  BY DEF Release, ResamplerInv
  <2>2. ResamplerInv /\ UNCHANGED resampler => ResamplerInv'  BY Zenon DEF ResamplerInv
  <2>3. QED  BY <2>1, <2>2, MakeStreams, RotateStreams DEF ResamplerNext
<1>3. ResamplerInv => ResamplesStream
  <2> SUFFICES ASSUME Streams(resampler) PROVE ResamplesStream  BY DEF ResamplerInv, ResamplesStream
  <2> DEFINE r == resampler
  <2>1. PICK k \in Nat : r.taken = r.q * k /\ Len(r.out) = r.p * k  BY DEF Streams
  <2>2. r.p \in Nat /\ r.q \in Nat /\ r.at \in Int  BY WorkingIs DEF Streams, Working
  <2>3. Len(r.out) * r.q = r.taken * r.p
    <3>1. PICK p, q \in Nat : p = r.p /\ q = r.q  BY <2>2
    <3>2. (p * k) * q = (q * k) * p  OBVIOUS
    <3>3. QED  BY <2>1, <3>1, <3>2
  <2>4. DOMAIN r.out = 1 .. Len(r.out)  BY DEF Streams, ResamplerType
  <2>5. \A j \in DOMAIN r.out : r.out[j] = Impulse(Met(r, 0, j - 1))  BY <2>4 DEF Streams
  <2>6. r.at - 0 = r.at  BY <2>2
  <2> HIDE DEF r
  <2>7. QED  BY <2>3, <2>5, <2>6, Zenon DEF ResamplesStream, Impulse, Met, r
<1>4. QED  BY <1>1, <1>2, <1>3, PTL DEF ResamplerSpec
=============================================================================
