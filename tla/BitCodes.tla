------------------------------ MODULE BitCodes ------------------------------
(***************************************************************************)
(* BitVector.cpp: bit vectors and their serial forms.  A vector has one     *)
(* char per bit, of which the lowest bit counts; a soft vector has halves,  *)
(* 1 for "unknown".  What was last coded, and what came back when it was    *)
(* decoded, are the state.                                                  *)
(***************************************************************************)
EXTENDS Integers, FiniteSets

CONSTANTS
  FieldSize,      \* size of the vectors that fields are written into
  PackWords,      \* the vectors that are packed
  DataSizes,      \* sizes of the data words that are reordered and protected
  Generators      \* coefficients, the lowest first, and parity size

Indices(n) == 0 .. n - 1
Words(n) == [Indices(n) -> {0, 1}]
Size(v) == IF DOMAIN v = {} THEN 0 ELSE 1 + (CHOOSE i \in DOMAIN v : i + 1 \notin DOMAIN v)
bit(v, i) == v[i] % 2

ASSUME CodesAssumption ==
  /\ FieldSize \in Nat /\ DataSizes \subseteq Nat
  /\ \A v \in PackWords : Size(v) \in Nat /\ v \in Words(Size(v))
  /\ \A g \in Generators : g.len \in 1 .. 63 /\ g.coeff \in Words(g.len)

VARIABLE coding

uncoded == [op |-> "idle"]

-----------------------------------------------------------------------------
(* Fields: 64 bit numbers, the highest bit first unless "reversed".         *)

\* 1 << n; a shift to the right by n divides by it.
Pow2[n \in Nat] == IF n = 0 THEN 1 ELSE 2 * Pow2[n - 1]

\* accum of one bit after the other.
Accumulated(bits, length) ==
  LET accum[n \in 0 .. length] == IF n = 0 THEN 0 ELSE 2 * accum[n - 1] + bits[n - 1]
  IN accum[length]

peekField(v, at, length) ==
  Accumulated([i \in Indices(length) |-> bit(v, at + i)], length)

peekFieldReversed(v, at, length) ==
  Accumulated([i \in Indices(length) |-> bit(v, at + length - 1 - i)], length)

\* Fault: the field ends one place further on.
fillFieldLate(v, at, value, length) ==
  [i \in DOMAIN v |->
     IF i > at /\ i <= at + length THEN (value \div Pow2[at + length - i]) % 2 ELSE v[i]]

fillField(v, at, value, length) ==
  [i \in DOMAIN v |->
     IF i >= at /\ i < at + length THEN (value \div Pow2[at + length - 1 - i]) % 2 ELSE v[i]]

fillFieldReversed(v, at, value, length) ==
  [i \in DOMAIN v |->
     IF i >= at /\ i < at + length THEN (value \div Pow2[i - at]) % 2 ELSE v[i]]

\* pack and unpack: the last byte has what remains in its highest bits.
pack(v) ==
  LET bytes == Size(v) \div 8
      rem == Size(v) % 8
  IN [i \in Indices(bytes + IF rem = 0 THEN 0 ELSE 1) |->
        IF i < bytes THEN peekField(v, 8 * i, 8)
        ELSE peekField(v, 8 * bytes, rem) * Pow2[8 - rem]]

unpack(size, src) ==
  [i \in Indices(size) |->
     LET whole == size \div 8
         rem == size % 8
     IN IF i < 8 * whole THEN fillField([j \in 0 .. 7 |-> 0], 0, src[i \div 8], 8)[i % 8]
        ELSE fillField([j \in Indices(rem) |-> 0], 0, src[whole] \div Pow2[8 - rem], rem)[i % 8]]

\* hex leaves out what remains, unhex reads another digit for it.
hex(v) == [i \in Indices(Size(v) \div 4) |-> peekField(v, 4 * i, 4)]

unhex(size, src) ==
  [i \in Indices(size) |->
     LET rem == size - 4 * (size \div 4)
         length == IF i < size - rem THEN 4 ELSE rem
     IN fillField([j \in Indices(length) |-> 0], 0, src[i \div 4], length)[i % 4]]

-----------------------------------------------------------------------------
(* Reordering.                                                              *)

reverse8(v, at, i) == v[2 * at + 7 - i]

LSB8MSB(v) ==
  [i \in DOMAIN v |->
     IF i < 8 * (Size(v) \div 8) THEN reverse8(v, 8 * (i \div 8), i) ELSE v[i]]

map(v, places, dest) ==
  [i \in DOMAIN dest |-> IF i \in DOMAIN places THEN v[places[i]] ELSE dest[i]]

unmap(v, places, dest) ==
  [i \in DOMAIN dest |->
     IF \E j \in DOMAIN places : places[j] = i
     THEN v[CHOOSE j \in DOMAIN places : places[j] = i] ELSE dest[i]]

\* The chars of an inverted vector are not 0 and 1 any more.
invert(v) == [i \in DOMAIN v |-> 255 - v[i]]

soft(v) == [i \in DOMAIN v |-> 2 * bit(v, i)]
sliced(s) == [i \in DOMAIN s |-> IF s[i] > 1 THEN 1 ELSE 0]

\* How many places before i are copied: the place of i among them.
Copied(puncture, i) == Cardinality(Indices(i) \ puncture)

copyPunctured(v, puncture) ==
  [j \in Indices(Copied(puncture, Size(v))) |->
     v[CHOOSE i \in DOMAIN v \ puncture : Copied(puncture, i) = j]]

copyUnPunctured(s, puncture, size) ==
  [i \in Indices(size) |-> IF i \in puncture THEN 1 ELSE s[Copied(puncture, i)]]

-----------------------------------------------------------------------------
(* Shift registers; only the bits that state() shows are kept, since the    *)
(* ones above them are never fed back.                                      *)

Shifted(state, g, in, fb) ==
  [i \in Indices(g.len) |-> ((IF i = 0 THEN in ELSE state[i - 1]) + fb * g.coeff[i]) % 2]

syndromeShift(state, g, in) == Shifted(state, g, in, state[g.len - 1])

\* Fault: the bit that comes in is not part of the feedback.
encoderShiftBlind(state, g, in) == Shifted(state, g, 0, state[g.len - 1])

encoderShift(state, g, in) == Shifted(state, g, 0, (state[g.len - 1] + in) % 2)

Through(v, g, Step(_, _, _)) ==
  LET after[n \in 0 .. Size(v)] ==
        IF n = 0 THEN [i \in Indices(g.len) |-> 0] ELSE Step(after[n - 1], g, bit(v, n - 1))
  IN after[Size(v)]

Number(state, g) == peekFieldReversed(state, 0, g.len)

syndrome(v, g) == Number(Through(v, g, syndromeShift), g)
parity(v, g) == Number(Through(v, g, encoderShift), g)

\* The parity word follows the data; by default it is sent inverted.
writeParityWord(v, g, inverted) ==
  LET p == parity(v, g)
      word == IF inverted THEN Pow2[g.len] - 1 - p ELSE p
      target == fillField([i \in Indices(g.len) |-> 0], 0, word, g.len)
  IN [i \in Indices(Size(v) + g.len) |-> IF i < Size(v) THEN v[i] ELSE target[i - Size(v)]]

-----------------------------------------------------------------------------
CodesInit == coding = uncoded

\* The vector is all ones or all zeros before a field is written into it.
Fielding ==
  \E at \in Indices(FieldSize), filled \in {0, 1}, reversed \in BOOLEAN :
  \E length \in 0 .. FieldSize - at :
  \E value \in Indices(Pow2[length]) :
    LET v == [i \in Indices(FieldSize) |-> filled]
        w == IF reversed THEN fillFieldReversed(v, at, value, length)
             ELSE fillField(v, at, value, length)
    IN coding' = [op |-> "field", at |-> at, length |-> length, value |-> value,
                  filled |-> filled, out |-> w,
                  back |-> IF reversed THEN peekFieldReversed(w, at, length)
                           ELSE peekField(w, at, length)]

Serial(v, back) == coding' = [op |-> "serial", in |-> v, back |-> back]

Packing == \E v \in PackWords : Serial(v, unpack(Size(v), pack(v)))

Hexing == \E v \in PackWords : Size(v) % 4 = 0 /\ Serial(v, unhex(Size(v), hex(v)))

Reversing == \E v \in PackWords : Serial(v, LSB8MSB(LSB8MSB(v)))

Inverting == \E v \in PackWords : Serial(v, invert(invert(v)))

\* The destination has a place more than the map, which is never written.
Mapping ==
  \E n \in DataSizes : \E v \in Words(n), places \in [Indices(n) -> Indices(n + 1)] :
    /\ \A i, j \in Indices(n) : places[i] = places[j] => i = j
    /\ LET dest == [i \in Indices(n + 1) |-> 0]
       IN Serial(v, map(unmap(v, places, dest), places, [i \in Indices(n) |-> 0]))

Puncturing ==
  \E n \in DataSizes : \E v \in Words(n), puncture \in SUBSET Indices(n) :
    coding' = [op |-> "puncture", in |-> v, puncture |-> puncture,
               out |-> copyUnPunctured(soft(copyPunctured(v, puncture)), puncture, n),
               back |-> sliced(soft(v))]

\* A codeword is sent, and one bit or none comes in wrong.
Protecting ==
  \E n \in DataSizes, g \in Generators, inverted \in BOOLEAN :
  \E v \in Words(n) : \E wrong \in -1 .. n + g.len - 1 :
    LET sent == writeParityWord(v, g, inverted)
    IN coding' = [op |-> "parity", inverted |-> inverted, wrong |-> wrong, g |-> g,
                  syndrome |-> syndrome([i \in DOMAIN sent |->
                                           IF i = wrong THEN 1 - sent[i] ELSE sent[i]], g)]

Coding ==
  coding = uncoded /\ (Fielding \/ Packing \/ Hexing \/ Reversing \/ Inverting \/ Mapping
                       \/ Puncturing \/ Protecting)

Decoded == coding # uncoded /\ coding' = uncoded

CodesNext == Coding \/ Decoded

CodesSpec == CodesInit /\ [][CodesNext]_coding

-----------------------------------------------------------------------------
\* What is coded can be read back: fields in both directions without touching
\* their neighbours, whole vectors packed with a last byte that is not full,
\* hexadecimal digits, byte reversal, reordered and punctured vectors.  A
\* codeword with its parity has the syndrome zero, or all ones when the parity
\* is sent inverted; with a single wrong bit it has not, if the generator has a
\* constant term (BitVector.cpp, BitVector.h Generator).
CodesInvert ==
  /\ coding.op = "field" =>
       /\ coding.back = coding.value
       /\ \A i \in DOMAIN coding.out :
            i \notin coding.at .. coding.at + coding.length - 1 => coding.out[i] = coding.filled
  /\ coding.op = "serial" => coding.back = coding.in
  /\ coding.op = "puncture" =>
       /\ coding.back = coding.in
       /\ \A i \in DOMAIN coding.in :
            coding.out[i] = IF i \in coding.puncture THEN 1 ELSE 2 * coding.in[i]
  /\ coding.op = "parity" =>
       LET right == IF coding.inverted THEN Pow2[coding.g.len] - 1 ELSE 0
       IN /\ coding.wrong = -1 => coding.syndrome = right
          /\ coding.wrong # -1 /\ coding.g.coeff[0] = 1 => coding.syndrome # right
=============================================================================
