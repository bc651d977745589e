------------------------------ MODULE Convert ------------------------------
(***************************************************************************)
(* convert.c: sample blocks between the floats of the signal processing and *)
(* the short integers of the device.  A float is a number of quarters, so   *)
(* that the rounding of the SSE kernels and the truncation of the plain     *)
(* loop after them come out different; the input names its own places.      *)
(***************************************************************************)
EXTENDS Integers

CONSTANTS
  Lengths,      \* lengths of the blocks
  Scales,       \* whole scale factors
  Offsets,      \* quarters that the first float of a block is away from zero
  ShortWidth    \* values of a short: 2^16

ASSUME ConvertAssumption ==
  /\ Lengths \subseteq Nat /\ Scales \subseteq Nat /\ Offsets \subseteq Int
  /\ ShortWidth \in Nat /\ ShortWidth % 2 = 0 /\ ShortWidth > 0

VARIABLE conversion

unconverted == [op |-> "idle"]

-----------------------------------------------------------------------------
ShortMin == -(ShortWidth \div 2)
ShortMax == ShortWidth \div 2 - 1

Quad(in, at) == [l \in 0 .. 3 |-> in[at + l]]

\* _mm_cvtps_epi32 rounds to the nearest, and a tie to the even number.
Nearest(q) ==
  LET below == q \div 4
  IN CASE q % 4 < 2 -> below
       [] q % 4 > 2 -> below + 1
       [] OTHER -> below + (below % 2)

Scaled(in, at, scale) == [l \in 0 .. 3 |-> Nearest(Quad(in, at)[l] * scale)]

Saturated(n) == CASE n < ShortMin -> ShortMin [] n > ShortMax -> ShortMax [] OTHER -> n

packs(a, b) == [l \in 0 .. 7 |-> Saturated(IF l < 4 THEN a[l] ELSE b[l - 4])]

\* The conversion of C: towards zero, and the low bits of what does not fit.
Truncated(q) ==
  LET n == IF q < 0 THEN -((-q) \div 4) ELSE q \div 4
  IN ((n - ShortMin) % ShortWidth) + ShortMin

_sse_convert_scale_ps_si16_8n(in, scale, len) ==
  [f \in 0 .. 8 * (len \div 8) - 1 |->
     LET i == f \div 8
     IN packs(Scaled(in, 8 * i, scale), Scaled(in, 8 * i + 4, scale))[f % 8]]

_sse_convert_scale_ps_si16_16n(in, scale, len) ==
  [f \in 0 .. 16 * (len \div 16) - 1 |->
     LET m(n) == Scaled(in, 16 * (f \div 16) + 4 * n, scale)
     IN IF f % 16 < 8 THEN packs(m(0), m(1))[f % 8] ELSE packs(m(2), m(3))[f % 8]]

\* Fault: the remainder begins where a block of 16 would.
RemainderAt16(in, scale, len) ==
  LET start == (len \div 16) * 16
      whole == _sse_convert_scale_ps_si16_8n(in, scale, len)
  IN [f \in DOMAIN whole \cup (start .. start + (len % 8) - 1) |->
        IF f >= start /\ f < start + (len % 8) THEN Truncated(in[f] * scale) ELSE whole[f]]

_sse_convert_scale_ps_si16(in, scale, len) ==
  LET start == (len \div 8) * 8
      whole == _sse_convert_scale_ps_si16_8n(in, scale, len)
  IN [f \in 0 .. start + (len % 8) - 1 |->
        IF f < start THEN whole[f] ELSE Truncated(in[f] * scale)]

convert_float_short(in, scale, len, sse) ==
  CASE ~sse -> [f \in 0 .. len - 1 |-> Truncated(in[f] * scale)]
    [] sse /\ len % 16 = 0 -> _sse_convert_scale_ps_si16_16n(in, scale, len)
    [] sse /\ len % 16 # 0 /\ len % 8 = 0 -> _sse_convert_scale_ps_si16_8n(in, scale, len)
    [] OTHER -> _sse_convert_scale_ps_si16(in, scale, len)

\* Eight shorts are loaded at a time; the low four are widened, then the
\* high four, which the shuffle has brought down.
Widened(in, at, high) ==
  LET m == [l \in 0 .. 7 |-> in[at + l]]
      shuffled == [l \in 0 .. 7 |-> m[(l + 4) % 8]]
  IN [l \in 0 .. 3 |-> IF high THEN shuffled[l] ELSE m[l]]

_sse_convert_si16_ps_16n(in, len) ==
  [f \in 0 .. 16 * (len \div 16) - 1 |->
     Widened(in, 8 * (f \div 8), f % 8 >= 4)[f % 4] * 4]

_sse_convert_si16_ps(in, len) ==
  LET start == (len \div 16) * 16
      whole == _sse_convert_si16_ps_16n(in, len)
  IN [f \in 0 .. start + (len % 16) - 1 |-> IF f < start THEN whole[f] ELSE in[f] * 4]

convert_short_float(in, len, sse4) ==
  CASE ~sse4 -> [f \in 0 .. len - 1 |-> in[f] * 4]
    [] sse4 /\ len % 16 = 0 -> _sse_convert_si16_ps_16n(in, len)
    [] OTHER -> _sse_convert_si16_ps(in, len)

-----------------------------------------------------------------------------
ConvertInit == conversion = unconverted

\* Neighbouring floats are five quarters apart.
Sending ==
  /\ conversion = unconverted
  /\ \E len \in Lengths, scale \in Scales, offset \in Offsets, sse \in BOOLEAN :
       LET in == [f \in 0 .. len - 1 |-> 5 * f + offset]
       IN conversion' = [op |-> "send", in |-> in, scale |-> scale, len |-> len, sse |-> sse,
                         out |-> convert_float_short(in, scale, len, sse)]

Receiving ==
  /\ conversion = unconverted
  /\ \E len \in Lengths, sse4 \in BOOLEAN :
       LET in == [f \in 0 .. len - 1 |-> f + ShortMin]
       IN conversion' = [op |-> "receive", in |-> in, len |-> len,
                         out |-> convert_short_float(in, len, sse4)]

Converted == conversion # unconverted /\ conversion' = unconverted

ConvertNext == Sending \/ Receiving \/ Converted

ConvertSpec == ConvertInit /\ [][ConvertNext]_conversion

-----------------------------------------------------------------------------
\* Every sample of a block is converted once and to its own place, for every
\* length, whichever of the 16, 8 and 1 sample kernels handle it: a received
\* sample exactly, a sent one to within one step where the scaled value fits
\* a short.  Where it does not fit, blocks of a multiple of eight are clipped
\* by the SSE kernels (convert.c).
ConvertsInPlace ==
  /\ conversion.op = "send" =>
       LET exact(f) == conversion.in[f] * conversion.scale
           out == conversion.out
       IN /\ DOMAIN out = 0 .. conversion.len - 1
          /\ \A f \in DOMAIN out :
               CASE exact(f) \in 4 * ShortMin .. 4 * ShortMax ->
                      4 * out[f] - exact(f) \in -3 .. 3
                 [] exact(f) \notin 4 * ShortMin .. 4 * ShortMax
                      /\ conversion.sse /\ conversion.len % 8 = 0 ->
                      out[f] = IF exact(f) < 0 THEN ShortMin ELSE ShortMax
                 [] OTHER -> TRUE
  /\ conversion.op = "receive" =>
       conversion.out = [f \in 0 .. conversion.len - 1 |-> 4 * conversion.in[f]]
=============================================================================
