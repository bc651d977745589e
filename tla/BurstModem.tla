----------------------------- MODULE BurstModem -----------------------------
(***************************************************************************)
(* The bursts of sigProcLib.cpp: where a modulator puts the symbols of a    *)
(* burst, which samples a demodulator takes, and where the detectors look   *)
(* for the known sequence.  Positions are samples from the start of the     *)
(* burst or of the correlation; the waveform is left out.                   *)
(* What the library was last asked, and the positions it touched, are the   *)
(* state.                                                                   *)
(***************************************************************************)
EXTENDS Integers, FiniteSets

CONSTANTS
  TxSps, RxSps,   \* samples per symbol that the transceiver may be given
  MaxDelays       \* the values of SETMAXDLY, in symbols

ASSUME ModemAssumption ==
  TxSps \subseteq {1, 4} /\ RxSps \subseteq {1, 4} /\ MaxDelays \subseteq Nat

VARIABLE modem

quiet == [op |-> "idle"]

SlotBits == 148           \* gSlotLen
TableSymbols == 157       \* symbols in the GMSK rotation tables

\* Bits and guard symbols of the bursts that are modulated: those of the
\* core and the fillers, the training sequences and the access sequence.
TxBursts == {<<SlotBits, 8>>, <<SlotBits, 9>>}
SyncBursts == {<<26, 0>>, <<41, 0>>}
EmptyPulseBursts == {<<16, 0>>, <<40, 0>>}

-----------------------------------------------------------------------------
(* Modulators: len samples; places[k] is the sample of symbol k; phases has *)
(* the places where the second Laurent component reads the first.           *)

rotateBurst(bits, guard, sps) ==
  [len |-> sps * (bits + guard), places |-> [k \in 0 .. bits - 1 |-> sps * k], phases |-> {}]

modulateBurstBasic(bits, guard, sps) ==
  [len |-> sps * (bits + guard), places |-> [k \in 0 .. bits - 1 |-> sps * k], phases |-> {}]

\* Fault: the padding bits are not given room.
LaurentUnpadded(bits, guard, sps) ==
  [len |-> sps * (bits + guard),
   places |-> [k \in 0 .. bits + 1 |-> sps * k],
   phases |-> {sps * k : k \in 2 .. bits + 1}]

\* A start bit before the burst and an end bit after it.
modulateBurstLaurent(bits, guard, sps) ==
  [len |-> sps * (bits + IF guard < 4 THEN 4 ELSE guard),
   places |-> [k \in 0 .. bits + 1 |-> sps * k],
   phases |-> {sps * k : k \in 2 .. bits + 1}]

modulateBurst(bits, guard, sps, emptyPulse) ==
  CASE emptyPulse -> rotateBurst(bits, guard, sps)
    [] ~emptyPulse /\ sps = 4 -> modulateBurstLaurent(bits, guard, sps)
    [] OTHER -> modulateBurstBasic(bits, guard, sps)

\* GMSKRotate and GMSKReverseRotate walk a table along the whole burst.
RotationTable(sps) == TableSymbols * sps

\* demodulateBurst: every sps-th sample of the delayed burst is a soft bit;
\* decimateVector allocates for size / factor of them.
decimateVector(size, factor) ==
  [len |-> size \div factor, taken |-> {n \in 0 .. size - 1 : n % factor = 0}]

\* energyDetect takes every fourth sample.
EnergySamples(size, window) ==
  {4 * i : i \in 0 .. (IF window > size THEN size ELSE window) - 1}

-----------------------------------------------------------------------------
(* Detectors.  The sequence that is looked for ends in symbol target of a   *)
(* burst that is not delayed; head symbols before that are searched, and    *)
(* tail symbols after it.                                                   *)

Search(kind, maxDelay) ==
  IF kind = "RACH" THEN [target |-> 8 + 40, head |-> 4, tail |-> 10, symbols |-> 40]
                   ELSE [target |-> 3 + 58 + 16 + 5, head |-> 4, tail |-> 4 + maxDelay,
                         symbols |-> 16]

\* Fault: the correlation starts at the sample after the head.
SearchWindowLate(s, sps) == [start |-> (s.target - s.head) * sps, len |-> (s.head + s.tail) * sps]

SearchWindow(s, sps) == [start |-> (s.target - s.head) * sps - 1, len |-> (s.head + s.tail) * sps]

\* Sample i of the correlation lays the last tap on sample start + i: the
\* place where a burst that is late by delay samples has its peak.
PeakPlace(s, sps, delay) ==
  LET first == (s.target - s.symbols) * sps + delay
  IN first + s.symbols * sps - 1 - SearchWindow(s, sps).start

\* computePeakRatio: the samples it adds up, on either side of the peak; the
\* address that is read is the one after the peak in both cases.
RatioReads(peak, len, sps) ==
  {peak + i : i \in {j \in 2 * sps .. 5 * sps : peak - j >= 0}}
  \cup {peak + i : i \in {j \in 2 * sps .. 5 * sps : peak + j < len}}

RatioCount(peak, len, sps) ==
  Cardinality({j \in 2 * sps .. 5 * sps : peak - j >= 0})
  + Cardinality({j \in 2 * sps .. 5 * sps : peak + j < len})

\* interpolatePoint at a place between samples whole and whole + 1.
InterpolationReads(whole, len) ==
  LET first == IF whole - 10 < 0 THEN 0 ELSE whole - 10
      last == IF whole + 11 > len - 1 THEN len - 1 ELSE whole + 11
  IN first .. last - 1

\* fastPeakDetect has no peak (-1) in a correlation of zeros only; peakDetect
\* moves the peak by less than a sample, and looks one sample around it.
\* Fault: peaks at the edge of the window pass.
EdgeRejectedNot(peak, len, sps) == peak < 0 \/ peak > len

EdgeRejected(peak, len, sps) == peak < 3 * sps \/ peak > len - 3 * sps

detectBurst(s, sps, peak, strong, move) ==
  LET len == SearchWindow(s, sps).len
      nothing == [rc |-> 0, toa |-> 0]
  IN CASE EdgeRejected(peak, len, sps) ->
            [result |-> nothing, ratio |-> {}, points |-> {}]
       [] ~EdgeRejected(peak, len, sps) /\ (RatioCount(peak, len, sps) < 2 \/ ~strong) ->
            [result |-> nothing, ratio |-> RatioReads(peak, len, sps), points |-> {}]
       [] OTHER ->
            [result |-> [rc |-> 1, toa |-> peak + move - s.head * sps],
             ratio |-> RatioReads(peak, len, sps),
             points |-> UNION {InterpolationReads(w, len) : w \in peak - 2 .. peak + 1}]

-----------------------------------------------------------------------------
ModemInit == modem = quiet

Modulating ==
  /\ modem = quiet
  /\ \E empty \in BOOLEAN :
     \E b \in IF empty THEN EmptyPulseBursts ELSE TxBursts \cup SyncBursts,
        sps \in IF empty THEN RxSps ELSE TxSps \cup RxSps :
       modem' = [op |-> "modulate", sps |-> sps, out |-> modulateBurst(b[1], b[2], sps, empty)]

\* A received burst is 156 or 157 symbols long.
Demodulating ==
  /\ modem = quiet
  /\ \E symbols \in {156, 157}, sps \in RxSps :
       modem' = [op |-> "demodulate", sps |-> sps, size |-> symbols * sps,
                 out |-> decimateVector(symbols * sps, sps),
                 energy |-> EnergySamples(symbols * sps, 20 * sps)]

Detecting ==
  /\ modem = quiet
  /\ \E kind \in {"RACH", "TSC"}, sps \in RxSps, maxDelay \in MaxDelays :
     \E strong \in BOOLEAN, move \in {-1, 0, 1},
        peak \in -1 .. SearchWindow(Search(kind, maxDelay), sps).len - 1 :
       modem' = [op |-> "detect", kind |-> kind, sps |-> sps, maxDelay |-> maxDelay,
                 peak |-> peak, strong |-> strong,
                 out |-> detectBurst(Search(kind, maxDelay), sps, peak, strong, move)]

Reported == modem # quiet /\ modem' = quiet

ModemNext == Modulating \/ Demodulating \/ Detecting \/ Reported

ModemSpec == ModemInit /\ [][ModemNext]_modem

-----------------------------------------------------------------------------
SearchOf(m) == Search(m.kind, m.maxDelay)
LenOf(m) == SearchWindow(SearchOf(m), m.sps).len

\* Modulators and demodulators stay inside their bursts and their tables,
\* with every symbol in a place of its own: the pulses of Laurent's two
\* components and the padding bits around them, the rotation tables of 157
\* symbols, the decimated soft bits, the energy samples, the interpolation
\* around a peak (sigProcLib.cpp).
BurstsStayInside ==
  /\ modem.op = "modulate" =>
       LET out == modem.out
       IN /\ \A k, l \in DOMAIN out.places : k # l => out.places[k] # out.places[l]
          /\ \A k \in DOMAIN out.places : out.places[k] \in 0 .. out.len - 1
          /\ out.phases \subseteq {out.places[k] : k \in DOMAIN out.places}
          /\ out.len <= RotationTable(modem.sps)
  /\ modem.op = "demodulate" =>
       /\ Cardinality(modem.out.taken) = modem.out.len
       /\ modem.size <= RotationTable(modem.sps)
       /\ modem.energy \subseteq 0 .. modem.size - 1
  /\ modem.op = "detect" => modem.out.points \subseteq 0 .. LenOf(modem) - 1

\* A burst is reported with its own delay: the search windows, the offset of
\* the correlation and the head that is subtracted at the end fit each other,
\* and every delay up to the maximum expected one is inside the part of the
\* window that is not cut off (detectRACHBurst, analyzeTrafficBurst,
\* detectBurst).
DelayIsMeasured ==
  modem.op = "detect" =>
    LET s == SearchOf(modem)
        expected == IF modem.kind = "RACH" THEN s.tail - 3 ELSE modem.maxDelay
    IN /\ \A delay \in 0 .. expected * modem.sps :
            modem.peak = PeakPlace(s, modem.sps, delay) /\ modem.strong =>
              /\ modem.out.result.rc = 1
              /\ modem.out.result.toa \in delay - 1 .. delay + 1
       /\ modem.out.result.rc = 1 =>
            modem.out.result.toa \in -modem.sps - 1 .. (s.tail - 3) * modem.sps + 1

\* The peak-to-average ratio reads samples of the correlation only, before
\* the peak and after it (computePeakRatio, whose commented-out first version
\* reads "(peak - i)").
RatioReadsCorrelation ==
  modem.op = "detect" => modem.out.ratio \subseteq 0 .. LenOf(modem) - 1
=============================================================================
