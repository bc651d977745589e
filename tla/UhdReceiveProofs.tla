-------------------------- MODULE UhdReceiveProofs --------------------------
(***************************************************************************)
(* What holds of the receive side of the device and its sample buffer for   *)
(* every ring size, chunk, packet size, offset and length of a gap that fit *)
(* together as ReceiveAssumption says.                                      *)
(***************************************************************************)
EXTENDS UhdReceive, TLAPS

-----------------------------------------------------------------------------
(* Remainders: the ring's index arithmetic.                                 *)

LEMMA Division == ASSUME NEW a \in Int, NEW n \in Nat \ {0}
                  PROVE  /\ a \div n \in Int /\ a % n \in 0 .. n - 1
                         /\ a = n * (a \div n) + (a % n)
  BY Z3

LEMMA RemainderIs == ASSUME NEW a \in Int, NEW q \in Int, NEW n \in Nat \ {0},
                            NEW r \in 0 .. n - 1, a = n * q + r
                     PROVE  a % n = r
  BY Z3

LEMMA Distribute == ASSUME NEW n \in Int, NEW p \in Int, NEW q \in Int
                    PROVE  n * p + n * q = n * (p + q) /\ n * p - n * q = n * (p - q)
  BY Z3

\* Whole laps do not count.
LEMMA Periodic == ASSUME NEW a \in Int, NEW q \in Int, NEW n \in Nat \ {0}
                  PROVE  (n * q + a) % n = a % n
<1>1. PICK p \in Int, r \in 0 .. n - 1 : a = n * p + r /\ r = a % n  BY Division
<1>2. n * q \in Int /\ n * p \in Int /\ n * (q + p) \in Int  BY Z3
<1>3. n * q + n * p = n * (q + p)  BY Distribute
<1>4. n * q + a = n * (q + p) + r  BY <1>1, <1>2, <1>3
<1>5. n * q + a \in Int /\ q + p \in Int  BY <1>2
<1> QED  BY <1>1, <1>4, <1>5, RemainderIs

LEMMA AddToRemainder == ASSUME NEW a \in Int, NEW b \in Int, NEW n \in Nat \ {0}
                        PROVE  ((a % n) + b) % n = (a + b) % n
<1>1. PICK p \in Int, r \in 0 .. n - 1 : a = n * p + r /\ r = a % n  BY Division
<1>2. n * p \in Int  BY Z3
<1>3. a + b = n * p + (r + b) /\ r + b \in Int  BY <1>1, <1>2
<1>4. (n * p + (r + b)) % n = (r + b) % n  BY <1>3, Periodic
<1> QED  BY <1>1, <1>3, <1>4

LEMMA RemainderDifference == ASSUME NEW a \in Int, NEW b \in Int, NEW n \in Nat \ {0}
                             PROVE  ((a % n) - (b % n)) % n = (a - b) % n
<1>1. PICK p \in Int, r \in 0 .. n - 1 : a = n * p + r /\ r = a % n  BY Division
<1>2. PICK q \in Int, s \in 0 .. n - 1 : b = n * q + s /\ s = b % n  BY Division
<1>3. n * p \in Int /\ n * q \in Int /\ n * (p - q) \in Int  BY Z3
<1>4. n * p - n * q = n * (p - q)  BY Distribute
<1>5. a - b = n * (p - q) + (r - s)  BY <1>1, <1>2, <1>3, <1>4
<1>6. p - q \in Int /\ r - s \in Int  OBVIOUS
<1>7. (n * (p - q) + (r - s)) % n = (r - s) % n  BY <1>6, Periodic
<1> QED  BY <1>1, <1>2, <1>5, <1>7

LEMMA SmallRemainder == ASSUME NEW n \in Nat \ {0}, NEW a \in 0 .. n - 1
                        PROVE  a % n = a
<1>1. a = n * 0 + a  BY Z3
<1> QED  BY <1>1, RemainderIs

LEMMA NegativeRemainder == ASSUME NEW n \in Nat \ {0}, NEW a \in Int, -n <= a, a < 0
                           PROVE  a % n = a + n
<1>1. a + n \in 0 .. n - 1  OBVIOUS
<1>2. a = n * (-1) + (a + n)  BY Z3
<1> QED  BY <1>1, <1>2, RemainderIs

-----------------------------------------------------------------------------
\* The buffer begins at the time to be read next, except before the first
\* read, which leaves out the first TsOffset samples.
StartsAtReadTime == timeStart = IF readTimestamp = 0 THEN 0 ELSE ReadTime

\* The time between the buffer's ends fits the ring; the device is at most
\* one gap ahead of the buffer; no accepted packet began after its end.
WindowFits ==
  /\ timeStart <= timeEnd /\ timeEnd - timeStart <= BufLen
  /\ deviceTime <= timeEnd + MaxGap /\ prevTs <= timeEnd

\* RingHoldsReceived, the index being the remainder of the timestamp; the
\* last sample before the buffer's end is always a received one.
CellsHoldReceived ==
  /\ \A t \in received : data[t % BufLen] = t
  /\ timeEnd > ReadTime => timeEnd - 1 \in received

Inv == TypeOK /\ IndexIsTime /\ StartsAtReadTime /\ WindowFits /\ CellsHoldReceived

\* What the assumptions say of the ring.
LEMMA Sizes ==
  /\ BufLen \in Nat \ {0} /\ ReadLen \in Nat \ {0} /\ MaxPacket \in Nat \ {0}
  /\ TsOffset \in Nat /\ MaxGap \in Nat /\ MaxJumps \in Nat /\ LastTime \in Nat
  /\ TsOffset + ReadLen + MaxPacket + MaxGap <= BufLen
  BY ReceiveAssumption, BufferAssumption

\* The same lemmas for the ring.
LEMMA RingAdd == \A a, b \in Int : ((a % BufLen) + b) % BufLen = (a + b) % BufLen
  BY BufferAssumption, AddToRemainder

LEMMA RingDifference ==
  \A a, b \in Int : ((a % BufLen) - (b % BufLen)) % BufLen = (a - b) % BufLen
  BY BufferAssumption, RemainderDifference

LEMMA RingIndex == \A a \in Int : a % BufLen \in Cells /\ a % BufLen \in Nat
  BY BufferAssumption, Division DEF Cells

THEOREM InitInv == Init => Inv
<1> SUFFICES ASSUME Init PROVE Inv  OBVIOUS
<1>1. 0 % BufLen = 0  BY Sizes, SmallRemainder
<1>2. TypeOK  BY Sizes DEF Init, BufferInit, TypeOK, Cells, Unset, ReadTime
<1> QED  BY <1>1, <1>2, Sizes DEF Init, BufferInit, Inv, IndexIsTime, StartsAtReadTime,
                                 WindowFits, CellsHoldReceived, ReadTime
-----------------------------------------------------------------------------
(* A write.                                                                 *)

LEMMA WriteIndex == ASSUME NEW ts \in Nat, NEW len \in Nat, TypeOK, IndexIsTime
                    PROVE  /\ WriteStart(ts) = ts % BufLen
                           /\ EndOfWrite(len, ts) = (ts + len) % BufLen
<1>1. /\ timeStart \in Nat /\ dataStart = timeStart % BufLen
      /\ ts - timeStart \in Int /\ timeStart + (ts - timeStart) = ts
  BY DEF TypeOK, IndexIsTime
<1>2. ((timeStart % BufLen) + (ts - timeStart)) % BufLen = (timeStart + (ts - timeStart)) % BufLen
  BY <1>1, RingAdd
<1>3. WriteStart(ts) = ts % BufLen
  <2>1. (timeStart + (ts - timeStart)) % BufLen = ts % BufLen  BY <1>1
  <2> QED  BY <1>1, <1>2, <2>1 DEF WriteStart
<1>4. ((ts % BufLen) + len) % BufLen = (ts + len) % BufLen  BY RingAdd
<1> QED  BY <1>3, <1>4 DEF EndOfWrite

\* Where a timestamp's cell is in relation to the samples written.
LEMMA WrittenCell ==
  ASSUME NEW ts \in Nat, NEW len \in Nat, NEW t \in Nat, TypeOK, IndexIsTime
  PROVE  Written(len, ts)[t % BufLen] =
           IF (t - ts) % BufLen < len THEN ts + ((t - ts) % BufLen) ELSE data[t % BufLen]
<1>1. WriteStart(ts) = ts % BufLen  BY WriteIndex
<1>2. ((t % BufLen) - (ts % BufLen)) % BufLen = (t - ts) % BufLen  BY RingDifference
<1>3. t % BufLen \in Cells  BY RingIndex
<1> QED  BY <1>1, <1>2, <1>3 DEF Written

LEMMA AcceptInv == ASSUME NEW len \in 1 .. MaxPacket, Inv, Avail(ReadTime) < ReadLen,
                          pc = "loop", Accept(len), UNCHANGED <<readTimestamp, chunk, jumps>>
                   PROVE  Inv'
<1> DEFINE ts == deviceTime
<1>1. /\ ts \in Nat /\ len \in Nat /\ len > 0 /\ len < BufLen /\ prevTs' = ts
      /\ deviceTime' = ts + len /\ ReadTime' = ReadTime /\ ReadTime \in Nat
  BY Sizes DEF Inv, TypeOK, Accept, ReadTime
<1>2. timeStart <= ReadTime /\ ReadTime <= timeStart + TsOffset /\ timeStart \in Nat /\ timeEnd \in Nat
  BY <1>1, Sizes DEF Inv, StartsAtReadTime, TypeOK, ReadTime
<1>3. timeEnd < ReadTime + ReadLen  BY <1>1, <1>2, Sizes DEF Avail
<1>4. CASE WriteRefused(len, ts)
  <2>1. UNCHANGED bufferVars /\ received' = received  BY <1>4 DEF Accept, Write
  <2>2. ts + len <= timeEnd  BY <1>1, <1>4, Sizes DEF WriteRefused
  <2>3. pc' \in {"idle", "loop"}  BY DEF Accept
  <2>4. TypeOK'  BY <1>1, <2>1, <2>3 DEF Inv, TypeOK, bufferVars, Cells
  <2> QED  BY <1>1, <1>2, <2>1, <2>2, <2>4, Sizes
         DEF Inv, bufferVars, IndexIsTime, StartsAtReadTime, WindowFits, CellsHoldReceived
<1>5. CASE ~WriteRefused(len, ts)
  <2>1. /\ data' = Written(len, ts) /\ dataEnd' = EndOfWrite(len, ts) /\ timeEnd' = ts + len
        /\ UNCHANGED <<timeStart, dataStart>>
        /\ received' = received \cup {t \in ts .. ts + len - 1 : t >= ReadTime}
    BY <1>5 DEF Accept, Write
  <2>2. ts + len > timeEnd  BY <1>1, <1>2, <1>5 DEF WriteRefused
  <2>3. timeEnd' - timeStart <= BufLen
    BY <1>1, <1>2, <1>3, <2>1, Sizes DEF Inv, WindowFits
  <2>4. TypeOK'
    <3>1. data' \in [Cells -> Nat \cup {Unset}]
      <4>1. \A i \in Cells : (i - WriteStart(ts)) % BufLen \in Nat
        <5>1. \A i \in Cells : i - WriteStart(ts) \in Int
          BY <1>1, WriteIndex, RingIndex DEF Cells, Inv
        <5> QED  BY <5>1, RingIndex
      <4> QED  BY <1>1, <2>1, <4>1 DEF Written, Inv, TypeOK
    <3>2. dataEnd' \in Cells
      <4>1. ts + len \in Int  BY <1>1
      <4> QED  BY <1>1, <2>1, <4>1, WriteIndex, RingIndex DEF Inv
    <3>3. received' \subseteq ReadTime' .. timeEnd' - 1
      <4>1. received \subseteq ReadTime .. timeEnd - 1  BY DEF Inv, TypeOK
      <4>2. \A t \in received : t \in Int /\ ReadTime <= t /\ t < ts + len
        BY <1>1, <1>2, <2>2, <4>1
      <4>3. \A t \in received' : t \in Int /\ ReadTime <= t /\ t < ts + len
        BY <1>1, <2>1, <4>2
      <4> QED  BY <1>1, <2>1, <4>3
    <3>4. pc' \in {"idle", "loop"}  BY DEF Accept
    <3> QED  BY <1>1, <2>1, <3>1, <3>2, <3>3, <3>4 DEF Inv, TypeOK
  <2>5. IndexIsTime'  BY <1>1, <2>1, WriteIndex DEF Inv, IndexIsTime
  <2>6. StartsAtReadTime'  BY <1>1, <2>1 DEF Inv, StartsAtReadTime
  <2>7. WindowFits'  BY <1>1, <1>2, <2>1, <2>2, <2>3, Sizes DEF Inv, WindowFits
  <2>8. CellsHoldReceived'
    <3>1. ASSUME NEW t \in received' PROVE data'[t % BufLen] = t
      <4>1. t \in Nat /\ ReadTime <= t /\ t < ts + len
        BY <1>1, <1>2, <2>1, <2>2 DEF Inv, TypeOK
      <4>2. data'[t % BufLen] =
              IF (t - ts) % BufLen < len THEN ts + ((t - ts) % BufLen) ELSE data[t % BufLen]
        BY <1>1, <2>1, <4>1, WrittenCell DEF Inv
      <4>3. CASE ts <= t
        <5>1. t - ts \in 0 .. BufLen - 1  BY <1>1, <4>1, <4>3, Sizes
        <5>2. (t - ts) % BufLen = t - ts  BY <5>1, Sizes, SmallRemainder
        <5> QED  BY <1>1, <4>1, <4>2, <4>3, <5>2
      <4>4. CASE t < ts
        <5>1. t \in received  BY <1>1, <2>1, <4>1, <4>4
        <5>2. -BufLen <= t - ts /\ t - ts < 0 /\ t - ts \in Int
          BY <1>1, <1>2, <2>1, <2>3, <4>1, <4>4, Sizes
        <5>3. (t - ts) % BufLen = t - ts + BufLen  BY <5>2, Sizes, NegativeRemainder
        <5>4. ~((t - ts) % BufLen < len)  BY <1>1, <1>2, <2>1, <2>3, <4>1, <5>3, Sizes
        <5> QED  BY <4>2, <5>1, <5>4 DEF Inv, CellsHoldReceived
      <4> QED  BY <1>1, <4>1, <4>3, <4>4
    <3>2. timeEnd' > ReadTime => timeEnd' - 1 \in received'  BY <1>1, <2>1
    <3> QED  BY <1>1, <3>1, <3>2 DEF CellsHoldReceived
  <2> QED  BY <2>4, <2>5, <2>6, <2>7, <2>8 DEF Inv
<1> QED  BY <1>4, <1>5

LEMMA RestartInv == ASSUME Inv, Restart, UNCHANGED <<readTimestamp, chunk, jumps>>
                    PROVE  Inv'
<1>1. UNCHANGED <<bufferVars, readTimestamp, chunk, jumps, pc, prevTs, received>>
      /\ deviceTime' \in Nat /\ deviceTime' <= timeEnd + MaxGap
  BY Sizes DEF Restart, RestartTime, Inv, TypeOK
<1> QED  BY <1>1 DEF Inv, TypeOK, IndexIsTime, StartsAtReadTime, WindowFits, CellsHoldReceived,
                     bufferVars, ReadTime, Cells

-----------------------------------------------------------------------------
(* A read.                                                                  *)

LEMMA FinishReadInv == ASSUME Inv, FinishRead PROVE Inv'
<1>1. /\ timeStart \in Nat /\ timeEnd \in Nat /\ ReadTime \in Nat /\ readTimestamp \in Nat
      /\ timeStart <= ReadTime /\ dataStart = timeStart % BufLen
  BY Sizes DEF Inv, TypeOK, ReadTime, StartsAtReadTime, IndexIsTime
<1>2. ReadTime + ReadLen <= timeEnd
  BY <1>1, Sizes DEF FinishRead, Enough, Avail, ErrorTimestamp
<1>3. /\ dataStart' = AfterRead(ReadLen, ReadTime) /\ timeStart' = ReadTime + ReadLen
      /\ UNCHANGED <<data, timeEnd, dataEnd, prevTs, deviceTime, jumps>>
      /\ chunk' = ReadOut(ReadLen, ReadTime) /\ readTimestamp' = readTimestamp + ReadLen
      /\ received' = {t \in received : t >= ReadTime + ReadLen} /\ pc' = "idle"
  BY DEF FinishRead, Read, TimeAfterRead
<1>4. ReadTime' = ReadTime + ReadLen /\ readTimestamp' \in Nat \ {0}
  BY <1>1, <1>3, Sizes DEF ReadTime
<1>5. AfterRead(ReadLen, ReadTime) = (ReadTime + ReadLen) % BufLen
  <2>1. ReadStart(ReadTime) + ReadLen = (timeStart % BufLen) + (ReadTime + ReadLen - timeStart)
    <3>1. dataStart \in Int  BY DEF Inv, TypeOK, Cells
    <3>2. ReadStart(ReadTime) + ReadLen = dataStart + (ReadTime + ReadLen - timeStart)
      <4>1. ReadTime \in Int /\ timeStart \in Int /\ ReadLen \in Int  BY <1>1, Sizes
      <4> HIDE <1>1
      <4> QED  BY <3>1, <4>1 DEF ReadStart
    <3> QED  BY <1>1, <3>2
  <2>2. ((timeStart % BufLen) + (ReadTime + ReadLen - timeStart)) % BufLen
          = (timeStart + (ReadTime + ReadLen - timeStart)) % BufLen
    <3>1. ReadTime + ReadLen - timeStart \in Int  BY <1>1, Sizes
    <3> QED  BY <1>1, <3>1, RingAdd
  <2>3. timeStart + (ReadTime + ReadLen - timeStart) = ReadTime + ReadLen  BY <1>1, Sizes
  <2> QED  BY <2>1, <2>2, <2>3 DEF AfterRead
<1>6. TypeOK'
  <2>1. dataStart' \in Cells
    <3>1. ReadTime + ReadLen \in Int  BY <1>1, Sizes
    <3> QED  BY <1>3, <1>5, <3>1, RingIndex
  <2>2. chunk' \in [0 .. ReadLen - 1 -> Nat \cup {Unset}]
    <3>1. \A k \in 0 .. ReadLen - 1 : (ReadStart(ReadTime) + k) % BufLen \in Cells
      <4>1. ReadStart(ReadTime) \in Int  BY <1>1, RingIndex DEF ReadStart
      <4> QED  BY <4>1, RingIndex
    <3> QED  BY <1>3, <3>1 DEF ReadOut, Inv, TypeOK
  <2>3. received' \subseteq ReadTime' .. timeEnd' - 1
    <3>1. received \subseteq ReadTime .. timeEnd - 1  BY DEF Inv, TypeOK
    <3>2. \A t \in received' : t \in received /\ t >= ReadTime + ReadLen  BY <1>3
    <3>3. \A t \in received' : t \in Int /\ t >= ReadTime + ReadLen /\ t <= timeEnd - 1
      <4>1. \A t \in received : t \in Int /\ t <= timeEnd - 1  BY <1>1, <3>1
      <4> QED  BY <3>2, <4>1
    <3>4. ReadTime + ReadLen \in Int /\ timeEnd - 1 \in Int  BY <1>1, Sizes
    <3> QED  BY <1>3, <1>4, <3>3, <3>4
  <2>4. timeStart' \in Nat  BY <1>1, <1>3, Sizes
  <2> QED  BY <1>3, <1>4, <2>1, <2>2, <2>3, <2>4 DEF Inv, TypeOK, Cells
<1>7. IndexIsTime'  BY <1>3, <1>5 DEF Inv, IndexIsTime
<1>8. StartsAtReadTime'  BY <1>3, <1>4 DEF StartsAtReadTime
<1>9. WindowFits'  BY <1>1, <1>2, <1>3, Sizes DEF Inv, WindowFits
<1>10. CellsHoldReceived'
  <2>1. \A t \in received' : data'[t % BufLen] = t  BY <1>3 DEF Inv, CellsHoldReceived
  <2>2. timeEnd' > ReadTime' => timeEnd' - 1 \in received'
    BY <1>1, <1>2, <1>3, <1>4, Sizes DEF Inv, CellsHoldReceived
  <2> QED  BY <2>1, <2>2 DEF CellsHoldReceived
<1> QED  BY <1>6, <1>7, <1>8, <1>9, <1>10 DEF Inv

-----------------------------------------------------------------------------
THEOREM NextInv == Inv /\ [Next]_vars => Inv'
<1> SUFFICES ASSUME Inv, [Next]_vars PROVE Inv'  OBVIOUS
<1>1. CASE Packet  BY <1>1, AcceptInv, RestartInv DEF Packet
<1>2. CASE FinishRead  BY <1>2, FinishReadInv
<1>3. CASE ReadSamples \/ Unrecoverable
  <2>1. /\ UNCHANGED <<bufferVars, readTimestamp, prevTs, deviceTime, chunk, received, jumps>>
        /\ pc' \in {"idle", "loop", "exited"}
    BY <1>3 DEF ReadSamples, Unrecoverable
  <2> QED  BY <2>1 DEF Inv, TypeOK, IndexIsTime, StartsAtReadTime, WindowFits,
                       CellsHoldReceived, bufferVars, ReadTime, Cells
<1>4. CASE EmptyPacket \/ ClockJump
  <2>1. /\ UNCHANGED <<bufferVars, pc, readTimestamp, prevTs, chunk, received>>
        /\ jumps' \in 0 .. MaxJumps
        /\ deviceTime' \in Nat /\ deviceTime' <= timeEnd + MaxGap
    BY <1>4, Sizes DEF EmptyPacket, Lost, ClockJump, Inv, TypeOK, WindowFits
  <2> QED  BY <2>1 DEF Inv, TypeOK, IndexIsTime, StartsAtReadTime, WindowFits,
                       CellsHoldReceived, bufferVars, ReadTime, Cells
<1>5. CASE UNCHANGED vars
  BY <1>5 DEF vars, Inv, TypeOK, IndexIsTime, StartsAtReadTime, WindowFits,
              CellsHoldReceived, bufferVars, ReadTime, Cells
<1> QED  BY <1>1, <1>2, <1>3, <1>4, <1>5 DEF Next

THEOREM Invariance == Spec => []Inv
  BY InitInv, NextInv, PTL DEF Spec

\* The received window lies between the next read and the end of the buffer
\* (TypeOK), on a ring of any length.
THEOREM TypeCorrect == Spec => []TypeOK
<1>1. Inv => TypeOK  BY DEF Inv
<1> QED  BY Invariance, <1>1, PTL

\* No write passes over a sample that was received and not read yet, for every
\* ring that has room for a chunk, a packet and the longest gap.
THEOREM RingIsIntact == Spec => []RingHoldsReceived
<1>1. Inv => RingHoldsReceived
  <2> SUFFICES ASSUME Inv, NEW t \in received
               PROVE  data[(dataStart + (t - timeStart)) % BufLen] = t
    BY DEF RingHoldsReceived
  <2>1. /\ timeStart \in Nat /\ t \in Int /\ dataStart = timeStart % BufLen
        /\ t - timeStart \in Int /\ timeStart + (t - timeStart) = t
    BY DEF Inv, TypeOK, IndexIsTime
  <2>2. ((timeStart % BufLen) + (t - timeStart)) % BufLen = (timeStart + (t - timeStart)) % BufLen
    BY <2>1, RingAdd
  <2>3. (timeStart + (t - timeStart)) % BufLen = t % BufLen  BY <2>1
  <2> QED  BY <2>1, <2>2, <2>3 DEF Inv, CellsHoldReceived
<1> QED  BY Invariance, <1>1, PTL

\* readSamples never asks for a time the buffer refuses, nor for an index
\* beyond the ring.
THEOREM ReadsAreValid == Spec => []ReadIsValid
<1>1. Inv => ReadIsValid
  <2> SUFFICES ASSUME Inv PROVE ReadIsValid  OBVIOUS
  <2>1. /\ timeStart \in Nat /\ readTimestamp \in Nat /\ dataStart \in 0 .. BufLen - 1
        /\ dataStart = timeStart % BufLen
    BY DEF Inv, TypeOK, IndexIsTime, Cells
  <2>2. 0 % BufLen = 0  BY Sizes, SmallRemainder
  <2>3. timeStart = 0 => dataStart = 0  BY <2>1, <2>2
  <2> QED  BY <2>1, <2>3, Sizes DEF Inv, StartsAtReadTime, ReadIsValid, ReadStart, ReadTime
<1> QED  BY Invariance, <1>1, PTL
-----------------------------------------------------------------------------
(* The store that is looked up by timestamp.                                *)

LEMMA DeliverStep == ASSUME Inv, FinishRead PROVE Store!Deliver
<1>1. /\ timeStart \in Nat /\ timeEnd \in Nat /\ ReadTime \in Nat
      /\ timeStart <= ReadTime /\ dataStart = timeStart % BufLen
      /\ received \subseteq ReadTime .. timeEnd - 1
  BY Sizes DEF Inv, TypeOK, ReadTime, StartsAtReadTime, IndexIsTime
<1>2. ReadTime + ReadLen <= timeEnd
  BY <1>1, Sizes DEF FinishRead, Enough, Avail, ErrorTimestamp
<1>3. /\ chunk' = ReadOut(ReadLen, ReadTime) /\ readTimestamp' = readTimestamp + ReadLen
      /\ received' = {t \in received : t >= ReadTime + ReadLen}
  BY DEF FinishRead
<1>4. ReadTime' = ReadTime + ReadLen  BY <1>3, Sizes DEF Inv, TypeOK, ReadTime
<1>5. \E t \in received : t >= ReadTime + ReadLen - 1
  <2>1. timeEnd - 1 \in received  BY <1>1, <1>2, Sizes DEF Inv, CellsHoldReceived
  <2>2. timeEnd - 1 >= ReadTime + ReadLen - 1  BY <1>1, <1>2, Sizes
  <2> QED  BY <2>1, <2>2
<1>6. DOMAIN chunk' = 0 .. ReadLen - 1  BY <1>3 DEF ReadOut
<1>7. ASSUME NEW k \in 0 .. ReadLen - 1, ReadTime + k \in received
      PROVE  chunk'[k] = ReadTime + k
  <2>1. /\ ReadTime + k \in Int /\ ReadTime + k - timeStart \in Int
        /\ timeStart + (ReadTime + k - timeStart) = ReadTime + k
    BY <1>1
  <2>2. ReadStart(ReadTime) + k = dataStart + (ReadTime + k - timeStart)
    <3>1. dataStart \in Int /\ timeStart \in Int  BY DEF Inv, TypeOK, Cells
    <3>2. ReadTime \in Int  BY <1>1
    <3> HIDE <1>1
    <3> QED  BY <3>1, <3>2 DEF ReadStart
  <2>3. ((timeStart % BufLen) + (ReadTime + k - timeStart)) % BufLen
          = (timeStart + (ReadTime + k - timeStart)) % BufLen
    BY <1>1, <2>1, RingAdd
  <2>4. (ReadStart(ReadTime) + k) % BufLen = (ReadTime + k) % BufLen
    BY <1>1, <2>1, <2>2, <2>3
  <2>5. chunk'[k] = data[(ReadTime + k) % BufLen]  BY <1>3, <2>4 DEF ReadOut
  <2> QED  BY <1>7, <2>5 DEF Inv, CellsHoldReceived
<1> QED  BY <1>3, <1>4, <1>5, <1>6, <1>7 DEF Store!Deliver

LEMMA PacketStep == ASSUME Inv, Packet PROVE Store!Receive \/ UNCHANGED Store!vars
<1>1. ReadTime' = ReadTime /\ chunk' = chunk  BY DEF Packet, ReadTime
<1>2. CASE Restart  BY <1>1, <1>2 DEF Restart, Store!vars
<1>3. ASSUME NEW len \in 1 .. MaxPacket, Accept(len)
      PROVE  Store!Receive \/ UNCHANGED Store!vars
  <2>1. CASE received' = received  BY <1>1, <2>1 DEF Store!vars
  <2>2. CASE received' = received \cup {t \in deviceTime .. deviceTime + len - 1 : t >= ReadTime}
    BY <1>1, <2>2 DEF Store!Receive
  <2> QED  BY <1>3, <2>1, <2>2 DEF Accept
<1> QED  BY <1>2, <1>3 DEF Packet

\* The receive side hands out chunks as if it kept every received sample under
\* its timestamp: rings, cursors, refused packets and restarts do not show.
THEOREM ReceiveImplementsStore == Spec => ImplementsStore
<1>1. Init => Store!Init
  <2> SUFFICES ASSUME Init PROVE Store!Init  OBVIOUS
  <2> QED  BY Sizes DEF Init, Store!Init, ReadTime, Unset
<1>2. Inv /\ [Next]_vars => [Store!Next]_(Store!vars)
  <2> SUFFICES ASSUME Inv, [Next]_vars PROVE Store!Next \/ UNCHANGED Store!vars  OBVIOUS
  <2>1. CASE Packet  BY <2>1, PacketStep DEF Store!Next
  <2>2. CASE FinishRead  BY <2>2, DeliverStep DEF Store!Next
  <2>3. CASE ReadSamples \/ Unrecoverable \/ EmptyPacket \/ ClockJump \/ UNCHANGED vars
    BY <2>3 DEF ReadSamples, Unrecoverable, EmptyPacket, ClockJump, vars, Store!vars, ReadTime
  <2> QED  BY <2>1, <2>2, <2>3 DEF Next
<1> QED  BY <1>1, <1>2, Invariance, PTL DEF Spec, Store!Spec, ImplementsStore
=============================================================================
