------------------------------ MODULE Resampler ------------------------------
(***************************************************************************)
(* The polyphase resampler of Resampler.cpp: P output samples for Q input   *)
(* samples, block after block of a stream.  The samples before a block are  *)
(* copied in front of it from the history of the block before.  The stream  *)
(* and the prototype filter are unit impulses, so that the output says      *)
(* which tap meets which sample; by linearity that decides every output.    *)
(***************************************************************************)
EXTENDS Convolve, Sequences

CONSTANTS
  Ratios,        \* the pairs <<p, q>> of the resamplers that are made
  FiltLen,       \* taps of each partition: 16
  Chunks,        \* blocks are that many times q * ChunkOf samples long
  ChunkOf,       \* 4 in RadioInterfaceResamp
  MaxBlocks      \* bound: blocks of the stream

MAX_OUTPUT_LEN == 4096

ASSUME ResamplerAssumption ==
  /\ Ratios \subseteq (Nat \ {0}) \X (Nat \ {0}) /\ FiltLen \in Nat \ {0}
  /\ Chunks \subseteq Nat \ {0} /\ ChunkOf \in Nat \ {0} /\ MaxBlocks \in Nat

\* What the callers see to: a block is no longer than the indices that were
\* computed, and no shorter than a partition.
ASSUME BlocksFit ==
  \A ratio \in Ratios, chunks \in Chunks :
    /\ chunks * ChunkOf * ratio[1] <= MAX_OUTPUT_LEN
    /\ FiltLen <= chunks * ChunkOf * ratio[2]

VARIABLE resampler

unmade == [p |-> 0]

HistLen == FiltLen - 1

-----------------------------------------------------------------------------
\* initFilters: partition n holds every p-th tap of the prototype from tap n
\* on, the last of them first; real taps, so every second float is zero.
\* Fault: the taps are left in their order.
PartitionForward(p, n, proto) ==
  [f \in 0 .. 2 * FiltLen - 1 |-> IF f = 2 * ((proto - n) \div p) /\ proto % p = n THEN 1 ELSE 0]

Partition(p, n, proto) ==
  [f \in 0 .. 2 * FiltLen - 1 |->
     IF proto % p = n /\ f = 2 * (FiltLen - 1 - proto \div p) THEN 1 ELSE 0]

\* computePath
InIndex(p, q, i) == (q * i) \div p
OutPath(p, q, i) == (q * i) % p

check_vec_len(in_len, out_len, p, q) ==
  /\ in_len % q = 0 /\ out_len % p = 0
  /\ in_len \div q = out_len \div p /\ out_len <= MAX_OUTPUT_LEN

Floats(n) == 0 .. 2 * n - 1

\* The block with the history in front of it.
WithHistory(in, in_len, history) ==
  [f \in -2 * HistLen .. 2 * in_len - 1 |->
     IF f < 0 THEN history[f + 2 * HistLen] ELSE in[f]]

\* Fault: the history ends with the first sample of the block's tail.
HistoryLate(x, in_len) == [f \in Floats(HistLen) |-> x[2 * (in_len - HistLen - 1) + f]]

HistoryAfter(x, in_len) == [f \in Floats(HistLen) |-> x[2 * (in_len - HistLen) + f]]

rotate(r, in, in_len, out_len, sse) ==
  LET x == WithHistory(in, in_len, r.history)
      sample(i) ==
        convolve_real([x |-> x, x_len |-> in_len,
                       h |-> Partition(r.p, OutPath(r.p, r.q, i), r.tap), h_len |-> FiltLen,
                       y_len |-> out_len - i, start |-> InIndex(r.p, r.q, i),
                       len |-> 1, step |-> 1, offset |-> 0], sse)
  IN IF check_vec_len(in_len, out_len, r.p, r.q)
     THEN [out |-> [i \in 1 .. out_len |-> sample(i - 1)], history |-> HistoryAfter(x, in_len)]
     ELSE [out |-> <<>>, history |-> r.history]

-----------------------------------------------------------------------------
ResamplerInit == resampler = unmade

\* The constructor and init; the impulse is at sample "at" of the stream.
Make ==
  /\ resampler = unmade
  /\ \E ratio \in Ratios, at \in {0, 1, ChunkOf} :
     \E tap \in 0 .. ratio[1] * FiltLen - 1, sse \in BOOLEAN :
       resampler' = [p |-> ratio[1], q |-> ratio[2], at |-> at, tap |-> tap, sse |-> sse,
                     taken |-> 0, blocks |-> 0, out |-> <<>>,
                     history |-> [f \in Floats(HistLen) |-> 0]]

\* A block of the stream is resampled; its output joins that of the others.
Rotate ==
  /\ resampler # unmade /\ resampler.blocks < MaxBlocks
  /\ \E chunks \in Chunks :
       LET r == resampler
           in_len == chunks * ChunkOf * r.q
           in == [f \in Floats(in_len) |-> IF f = 2 * (r.at - r.taken) THEN 1 ELSE 0]
           done == rotate(r, in, in_len, chunks * ChunkOf * r.p, r.sse)
       IN resampler' = [r EXCEPT !.taken = @ + in_len, !.blocks = @ + 1,
                                 !.out = @ \o done.out, !.history = done.history]

Release ==
  /\ resampler # unmade
  /\ resampler' = unmade

ResamplerNext == Make \/ Rotate \/ Release

ResamplerSpec == ResamplerInit /\ [][ResamplerNext]_resampler

-----------------------------------------------------------------------------
\* The output is that of one filter run over the whole stream, as if it had
\* come in one block: output sample j takes tap t = (q j) mod p + p k of the
\* prototype from input sample (q j) div p - k.  No sample is lost, doubled
\* or read from outside at a block boundary, for blocks of any length
\* (Resampler.cpp rotate, whose callers give it blocks of one or more chunks).
ResamplesStream ==
  resampler # unmade =>
    LET r == resampler
        met(j) == (r.q * j) \div r.p - r.tap \div r.p
        unit(j) == r.tap % r.p = (r.q * j) % r.p /\ met(j) = r.at
    IN /\ Len(r.out) * r.q = r.taken * r.p
       /\ \A j \in DOMAIN r.out :
            r.out[j] = [i \in 0 .. 0 |-> <<IF unit(j - 1) THEN 1 ELSE 0, 0>>]
=============================================================================
