------------------------------ MODULE Convolve ------------------------------
(***************************************************************************)
(* The convolution kernels of convolve.c.  A float array is a function from *)
(* indices to integers: real and imaginary parts alternate.  The kernels    *)
(* multiply and add only, so which sample meets which tap decides the       *)
(* result; the rounding of the sums is left out.  A read outside the array  *)
(* finds whatever is there: Garbage.                                        *)
(* A definition marked "Fault" is what a plausible mistake would make of    *)
(* the definition after it; no specification uses it.                       *)
(***************************************************************************)
EXTENDS Integers, Functions

Garbage == 1000003

Read(v, f) == IF f \in DOMAIN v THEN v[f] ELSE Garbage

-----------------------------------------------------------------------------
(* The SSE instructions: registers of four lanes.                           *)

Lanes == 0 .. 3

Load(v, f) == [l \in Lanes |-> Read(v, f + l)]

\* _mm_shuffle_ps(a, b, _MM_SHUFFLE(s3, s2, s1, s0))
Shuffle(a, b, s3, s2, s1, s0) ==
  [l \in Lanes |-> CASE l = 0 -> a[s0] [] l = 1 -> a[s1] [] l = 2 -> b[s2] [] OTHER -> b[s3]]

Mul(a, b) == [l \in Lanes |-> a[l] * b[l]]

HAdd(a, b) ==
  [l \in Lanes |-> CASE l = 0 -> a[0] + a[1] [] l = 1 -> a[2] + a[3]
                     [] l = 2 -> b[0] + b[1] [] OTHER -> b[2] + b[3]]

\* The real and the imaginary parts of the four samples from float f on.
\* Fault: the mask of the real parts picks the third lane of the second half.
RealsCrossed(v, f) == Shuffle(Load(v, f), Load(v, f + 4), 0, 3, 0, 2)

Reals(v, f) == Shuffle(Load(v, f), Load(v, f + 4), 0, 2, 0, 2)
Imags(v, f) == Shuffle(Load(v, f), Load(v, f + 4), 1, 3, 1, 3)

\* Two horizontal additions; the sum of re is in lane 0, that of im in lane
\* 1, which a last shuffle brings to lane 0 for the second store.
StoreSums(re, im) ==
  LET once == HAdd(re, im)
      twice == HAdd(once, once)
  IN <<twice[0], Shuffle(twice, twice, 0, 3, 2, 1)[0]>>

\* Lane-wise sum of a product over quads of taps, given by their first float.
LaneSum(product(_), quads) ==
  [l \in Lanes |-> SumFunction([o \in quads |-> product(o)[l]])]

-----------------------------------------------------------------------------
(* Output sample i of each kernel: x points to the sample that meets tap 0. *)

RealTaps(x, h, i, quads) ==
  StoreSums(LaneSum(LAMBDA o : Mul(Reals(x, 2 * i + o), Reals(h, o)), quads),
            LaneSum(LAMBDA o : Mul(Imags(x, 2 * i + o), Reals(h, o)), quads))

sse_conv_real4(x, h, i) == RealTaps(x, h, i, {0})
sse_conv_real8(x, h, i) == RealTaps(x, h, i, {0, 8})
sse_conv_real12(x, h, i) == RealTaps(x, h, i, {0, 8, 16})
sse_conv_real16(x, h, i) == RealTaps(x, h, i, {0, 8, 16, 24})

\* Fault: the last eight taps start where the first twelve end, less four.
sse_conv_real20Overlaps(x, h, i) == RealTaps(x, h, i, {0, 8, 16, 24})

sse_conv_real20(x, h, i) == RealTaps(x, h, i, {0, 8, 16, 24, 32})

sse_conv_real4n(x, h, h_len, i) ==
  RealTaps(x, h, i, {8 * n : n \in 0 .. (h_len \div 4) - 1})

ComplexTaps(x, h, i, quads) ==
  LET re(o) == [l \in Lanes |-> Reals(h, o)[l] * Reals(x, 2 * i + o)[l]
                                - Imags(h, o)[l] * Imags(x, 2 * i + o)[l]]
      im(o) == [l \in Lanes |-> Reals(h, o)[l] * Imags(x, 2 * i + o)[l]
                                + Imags(h, o)[l] * Reals(x, 2 * i + o)[l]]
  IN StoreSums(LaneSum(re, quads), LaneSum(im, quads))

sse_conv_cmplx_4n(x, h, h_len, i) ==
  ComplexTaps(x, h, i, {8 * n : n \in 0 .. (h_len \div 4) - 1})

\* Two quads a turn.
sse_conv_cmplx_8n(x, h, h_len, i) ==
  ComplexTaps(x, h, i, UNION {{16 * n, 16 * n + 8} : n \in 0 .. (h_len \div 8) - 1})

-----------------------------------------------------------------------------
(* The kernels without SSE; they use every step-th tap from offset on.      *)

TapsUsed(h_len, step, offset) == {k \in offset .. h_len - 1 : (k - offset) % step = 0}

mac_real_vec_n(x, h, i, taps) ==
  <<SumFunction([k \in taps |-> Read(x, 2 * (i + k)) * Read(h, 2 * k)]),
    SumFunction([k \in taps |-> Read(x, 2 * (i + k) + 1) * Read(h, 2 * k)])>>

mac_cmplx_vec_n(x, h, i, taps) ==
  <<SumFunction([k \in taps |-> Read(x, 2 * (i + k)) * Read(h, 2 * k)
                                - Read(x, 2 * (i + k) + 1) * Read(h, 2 * k + 1)]),
    SumFunction([k \in taps |-> Read(x, 2 * (i + k)) * Read(h, 2 * k + 1)
                                + Read(x, 2 * (i + k) + 1) * Read(h, 2 * k)])>>

-----------------------------------------------------------------------------
(* The entry points.  A call c has the two arrays x and h, their sizes and  *)
(* that of the output in samples, and the start, len, step and offset.      *)

bounds_check(c) ==
  /\ c.x_len >= 1 /\ c.h_len >= 1 /\ c.y_len >= 1 /\ c.len >= 1 /\ c.step >= 1
  /\ c.start + c.len <= c.x_len /\ c.len <= c.y_len /\ c.x_len >= c.h_len

\* &x[2 * (start - (h_len - 1))]
FirstMet(c) ==
  LET base == 2 * (c.start - (c.h_len - 1))
  IN [f \in {g - base : g \in DOMAIN c.x} |-> c.x[f + base]]

Refused == <<>>

Output(c, kernel(_)) ==
  IF bounds_check(c) THEN [i \in 0 .. c.len - 1 |-> kernel(i)] ELSE Refused

base_convolve_real(c) ==
  LET x == FirstMet(c)
  IN Output(c, LAMBDA i : mac_real_vec_n(x, c.h, i, TapsUsed(c.h_len, c.step, c.offset)))

base_convolve_complex(c) ==
  LET x == FirstMet(c)
  IN Output(c, LAMBDA i : mac_cmplx_vec_n(x, c.h, i, TapsUsed(c.h_len, c.step, c.offset)))

\* sse: the program was built with HAVE_SSE3.
convolve_real(c, sse) ==
  LET x == FirstMet(c)
  IN IF sse /\ c.step <= 4 /\ c.h_len % 4 = 0
     THEN CASE c.h_len = 4 -> Output(c, LAMBDA i : sse_conv_real4(x, c.h, i))
            [] c.h_len = 8 -> Output(c, LAMBDA i : sse_conv_real8(x, c.h, i))
            [] c.h_len = 12 -> Output(c, LAMBDA i : sse_conv_real12(x, c.h, i))
            [] c.h_len = 16 -> Output(c, LAMBDA i : sse_conv_real16(x, c.h, i))
            [] c.h_len = 20 -> Output(c, LAMBDA i : sse_conv_real20(x, c.h, i))
            [] OTHER -> Output(c, LAMBDA i : sse_conv_real4n(x, c.h, c.h_len, i))
     ELSE base_convolve_real(c)

convolve_complex(c, sse) ==
  LET x == FirstMet(c)
  IN IF sse /\ c.step <= 4 /\ c.h_len % 4 = 0
     THEN IF c.h_len % 8 = 0
          THEN Output(c, LAMBDA i : sse_conv_cmplx_8n(x, c.h, c.h_len, i))
          ELSE Output(c, LAMBDA i : sse_conv_cmplx_4n(x, c.h, c.h_len, i))
     ELSE base_convolve_complex(c)
=============================================================================
