----------------------------- MODULE RadioProofs -----------------------------
(***************************************************************************)
(* What holds of both halves of the radio interface.                        *)
(* The transmit half: the device's resynchronization for every number of    *)
(* dropped packets, first of UhdTransmit alone and then under the send      *)
(* buffer of RadioTransmit, each step of which is a step of UhdTransmit or  *)
(* leaves it alone; and the send buffer itself.                             *)
(* The receive half: for every hyperframe, width of the timeslot field,     *)
(* receive offset and FIFO limit, and for every radio type.                 *)
(***************************************************************************)
EXTENDS RadioTransmit, RadioReceive, GsmTimeProofs

USE DropAssumption

\* How far the resynchronization is: the count of packets, what is on the
\* air and the gap belong together.
Phases ==
  /\ aligned => dropCnt = 0
  /\ tx # "send" /\ aligned => onAir
  /\ tx # "send" /\ dropCnt > 0 => ~onAir /\ gap = dropCnt - 1
  /\ tx = "align" => dropCnt = DropPackets - 1 /\ mark = "start"
  /\ tx = "send" /\ mark = "middle" => dropCnt = 0 /\ onAir
  /\ tx = "send" /\ mark = "stop" => dropCnt = 1
  /\ tx = "send" /\ mark = "start" => dropCnt = 0 /\ ~onAir /\ gap = DropPackets - 2

\* An error that left the transmitter aligned is served by the burst that
\* is about to begin.
ErrorsAreServed == aligned /\ unserved => tx = "send" /\ mark = "start"

DeviceInv == TypeOK /\ Phases /\ ErrorsAreServed

LEMMA InitDeviceInv == Init => DeviceInv
<1> SUFFICES ASSUME Init PROVE DeviceInv
  OBVIOUS
<1> USE DEF Init
<1>1. TypeOK
  <2>1. pull \in [pc : {"read", "store"}, value : BOOLEAN]  OBVIOUS
  <2>2. dropCnt \in 0 .. DropPackets - 1 /\ gap \in Nat  OBVIOUS
  <2>3. QED  BY <2>1, <2>2 DEF TypeOK
<1>2. Phases  BY DEF Phases
<1>3. ErrorsAreServed  BY DEF ErrorsAreServed
<1>4. QED  BY <1>1, <1>2, <1>3 DEF DeviceInv

LEMMA TxDeviceInv == DeviceInv /\ TxNext => DeviceInv'
<1> SUFFICES ASSUME DeviceInv, TxNext PROVE DeviceInv'
  OBVIOUS
<1> USE DEF DeviceInv, TypeOK, Phases, ErrorsAreServed, deviceVars
<1>1. CASE AskUnderrun  BY <1>1 DEF AskUnderrun
<1>2. CASE ClearUnderrun  BY <1>2 DEF ClearUnderrun
<1>3. CASE PushNothing  BY <1>3 DEF PushNothing
<1>4. CASE WriteSamples  BY <1>4 DEF WriteSamples
<1>5. CASE WriteAligned  BY <1>5 DEF WriteAligned
<1>6. CASE WriteStop  BY <1>6 DEF WriteStop, CountAfterStop
<1>7. CASE WriteDrop
  <2>1. dropCnt + 1 \in 0 .. DropPackets - 1  BY <1>7 DEF WriteDrop, StillDropping
  <2>2. QED  BY <1>7, <2>1 DEF WriteDrop
<1>8. CASE WriteStart
  <2>1. dropCnt = DropPackets - 1  BY <1>8 DEF WriteStart, StillDropping
  <2>2. QED  BY <1>8, <2>1 DEF WriteStart
<1>9. CASE SetAligned
  <2> USE <1>9 DEF SetAligned, CountAfterStart
  <2>1. tx' = "send" /\ mark' = "start" /\ dropCnt' = 0  OBVIOUS
  <2>2. ~onAir' /\ gap' = DropPackets - 2  OBVIOUS
  <2>3. TypeOK'  BY <2>1, <2>2
  <2>4. Phases'  BY <2>1, <2>2
  <2>5. ErrorsAreServed'  BY <2>1
  <2>6. QED  BY <2>3, <2>4, <2>5
<1>10. CASE Send
  <2> USE <1>10 DEF Send
  <2>1. CASE mark = "stop"
    <3>1. ~onAir' /\ gap' = 0 /\ unserved' = unserved  BY <2>1
    <3>2. QED  BY <2>1, <3>1
  <2>2. CASE mark = "middle"
    <3>1. onAir' /\ gap' = gap /\ unserved' = unserved  BY <2>2
    <3>2. QED  BY <2>2, <3>1
  <2>3. CASE mark = "start"
    <3>1. onAir' /\ gap' = 0 /\ ~unserved'  BY <2>3
    <3>2. QED  BY <2>3, <3>1
  <2>4. QED  BY <2>1, <2>2, <2>3
<1>11. QED
  BY <1>1, <1>2, <1>3, <1>4, <1>5, <1>6, <1>7, <1>8, <1>9, <1>10 DEF TxNext

LEMMA NextDeviceInv == DeviceInv /\ [Next]_vars => DeviceInv'
<1> SUFFICES ASSUME DeviceInv, [Next]_vars PROVE DeviceInv'
  OBVIOUS
<1>1. CASE TxNext  BY <1>1, TxDeviceInv
<1> USE DEF DeviceInv, TypeOK, Phases, ErrorsAreServed, deviceVars
<1>2. CASE RxLoad
  <2>1. TypeOK'  BY <1>2 DEF RxLoad
  <2>2. Phases' /\ ErrorsAreServed'  BY <1>2 DEF RxLoad
  <2>3. QED  BY <2>1, <2>2
<1>3. CASE RxStore
  <2>1. TypeOK'  BY <1>3 DEF RxStore
  <2>2. Phases' /\ ErrorsAreServed'  BY <1>3 DEF RxStore
  <2>3. QED  BY <2>1, <2>2
<1>4. CASE ErrorEvent
  <2>1. TypeOK'  BY <1>4 DEF ErrorEvent, Misalign
  <2>2. Phases'  BY <1>4 DEF ErrorEvent, Misalign
  <2>3. ErrorsAreServed'  BY <1>4 DEF ErrorEvent, Misalign
  <2>4. QED  BY <2>1, <2>2, <2>3
<1>5. CASE UNCHANGED vars  BY <1>5 DEF vars
<1>6. QED  BY <1>1, <1>2, <1>3, <1>4, <1>5 DEF Next

\* Types, phases and served errors hold in every state of the device.
THEOREM DeviceInvariance == Spec => []DeviceInv
<1>1. QED  BY InitDeviceInv, NextDeviceInv, PTL DEF Spec

\* Every step of the radio's transmit way is a step of the device model or
\* leaves it alone (pushBuffer, writeSamples).
THEOREM RadioDrivesDevice == RadioSpec => Spec
<1>1. RadioInit => Init  BY DEF RadioInit
<1>2. [RadioNext]_radioVars => [Next]_vars
  <2> SUFFICES ASSUME [RadioNext]_radioVars PROVE [Next]_vars
    OBVIOUS
  <2>1. CASE TransmitThread
    BY <2>1 DEF TransmitThread, Ask, PushBurst, PushTooLittle, BeginBlock, Align,
                DropBlock, SendBlock, Next, TxNext
  <2>2. CASE OtherThreads  BY <2>2 DEF OtherThreads, Next
  <2>3. CASE UNCHANGED radioVars  BY <2>3 DEF radioVars
  <2>4. QED  BY <2>1, <2>2, <2>3 DEF RadioNext
<1>3. QED  BY <1>1, <1>2, PTL DEF RadioSpec, Spec

\* The device sees whole bursts, whenever errors arrive (writeSamples,
\* recv_async_msg).
THEOREM WholeBursts == RadioSpec => []BurstsAreWhole
<1>1. DeviceInv => BurstsAreWhole  BY DEF DeviceInv, Phases, BurstsAreWhole
<1>2. QED  BY <1>1, DeviceInvariance, RadioDrivesDevice, PTL

\* The gap between two bursts has its length, wherever errors fall in it
\* (writeSamples).
THEOREM FixedGap == RadioSpec => []GapIsFixed
<1>1. DeviceInv => GapIsFixed  BY DEF DeviceInv, Phases, GapIsFixed
<1>2. QED  BY <1>1, DeviceInvariance, RadioDrivesDevice, PTL

\* After an error nothing is sent in the middle of a burst before a new one
\* has begun (recv_async_msg, writeSamples).
THEOREM EveryErrorResynchronizes == RadioSpec => ErrorResynchronizes
<1>1. DeviceInv => [WriteAligned => ~unserved]_vars
  BY DEF DeviceInv, ErrorsAreServed, WriteAligned
<1>2. QED  BY <1>1, DeviceInvariance, RadioDrivesDevice, PTL DEF ErrorResynchronizes

-----------------------------------------------------------------------------
(* The send buffer.  The sizes are the code's own, so that each leaf below  *)
(* is arithmetic about one radio type, oversampling or slot.                *)

\* What waits is less than a chunk, and one burst more during a push.  With
\* one sample per symbol and 625 samples in the buffer it is the bursts since
\* the last fourth slot, and they fill the buffer exactly.
Waiting ==
  /\ cursor < Air!Chunk(type) + IF pushing THEN 628 ELSE 0
  /\ type = "NORMAL" /\ sps = 1 =>
       cursor = IF slot % 4 = 0 THEN (IF pushing THEN 625 ELSE 0) ELSE 156 * (slot % 4) + 1

AirInv == Air!TypeOK /\ SendFollowsSlots /\ Waiting

LEMMA Chunks ==
  ASSUME NEW t \in Air!RadioTypes
  PROVE  Air!Chunk(t) = CASE t = "NORMAL" -> 625 [] t = "RESAMP_64M" -> 260 [] OTHER -> 208
  BY DEF Air!RadioTypes, Air!Chunk, Air!InRate

LEMMA FrameLength == Air!FrameSymbols = 1250
  BY DEF Air!FrameSymbols, Air!SlotStart, Air!SlotsPerFrame, Air!SymbolsPerSlot

LEMMA InitAirInv == Air!Init => AirInv
<1> SUFFICES ASSUME Air!Init  PROVE AirInv
  OBVIOUS
<1>1. Air!Chunk(type) \in Nat /\ Air!Chunk(type) > 0  BY Chunks DEF Air!Init, Air!RadioTypes
<1>2. Air!TypeOK
  <2>1. sps = 1 \/ sps = 4  BY DEF Air!Init, Air!TxOversampling
  <2>2. 0 \in 0 .. sps * Air!FrameSymbols - 1  BY <2>1, FrameLength
  <2>3. 0 \in 0 .. Air!SlotsPerFrame - 1  BY DEF Air!SlotsPerFrame
  <2>4. QED  BY <2>2, <2>3 DEF Air!Init, Air!TypeOK
<1>3. SendFollowsSlots
  BY FrameLength DEF Air!Init, SendFollowsSlots, Air!SendFollowsSlots, Air!SlotStart,
                     Air!SymbolsPerSlot, Air!TxOversampling
<1>4. Waiting
  <2>1. slot = 0 /\ cursor = 0 /\ ~pushing /\ 0 % 4 = 0  BY DEF Air!Init
  <2>2. QED  BY <1>1, <2>1 DEF Waiting
<1>5. QED  BY <1>2, <1>3, <1>4 DEF AirInv

LEMMA AppendKeeps == AirInv /\ Air!AppendBurst => AirInv'
<1> SUFFICES ASSUME AirInv, Air!AppendBurst  PROVE AirInv'
  OBVIOUS
<1> DEFINE d == sps * (156 + IF slot % 4 = 0 THEN 1 ELSE 0)
<1>1. /\ ~pushing /\ pushing' /\ cursor' = cursor + d /\ slot' = (slot + 1) % 8
      /\ type' = type /\ sps' = sps /\ writePos' = writePos
  BY DEF Air!AppendBurst, Air!BurstSamples, Air!SlotSymbols, Air!SymbolsPerSlot, Air!NextSlot,
         Air!SlotsPerFrame
<1>2. /\ type \in Air!RadioTypes /\ sps \in {1, 4} /\ slot \in 0 .. 7 /\ cursor \in Nat
      /\ writePos \in 0 .. sps * 1250 - 1
  BY FrameLength DEF AirInv, Air!TypeOK, Air!SlotsPerFrame, Air!TxOversampling
<1>3. d \in Nat /\ d <= 628  BY <1>2
<1>4. Air!TypeOK'
  BY <1>1, <1>2, <1>3, FrameLength DEF Air!TypeOK, Air!SlotsPerFrame, Air!TxOversampling
<1>5. SendFollowsSlots'
  <2>1. (writePos + cursor) % (sps * 1250) = sps * (slot * 156 + (slot + 3) \div 4)
    BY FrameLength DEF AirInv, SendFollowsSlots, Air!SendFollowsSlots, Air!SlotStart,
                       Air!SymbolsPerSlot
  <2>2. (writePos + cursor + d) % (sps * 1250) = sps * (slot' * 156 + (slot' + 3) \div 4)
    <3>1. CASE sps = 1  BY <1>1, <1>2, <2>1, <3>1
    <3>2. CASE sps = 4  BY <1>1, <1>2, <2>1, <3>2
    <3>3. QED  BY <1>2, <3>1, <3>2
  <2>3. writePos' + cursor' = writePos + cursor + d  BY <1>1, <1>2, <1>3
  <2>4. QED  BY <1>1, <2>2, <2>3, FrameLength
             DEF SendFollowsSlots, Air!SendFollowsSlots, Air!SlotStart, Air!SymbolsPerSlot
<1>6. Waiting'
  <2>1. Air!Chunk(type) \in Nat /\ Air!Chunk(type)' = Air!Chunk(type)
    BY <1>1, <1>2, Chunks DEF Air!RadioTypes, Air!Chunk, Air!InRate
  <2>2. cursor' < Air!Chunk(type)' + 628  BY <1>1, <1>2, <1>3, <2>1 DEF AirInv, Waiting
  <2>3. type = "NORMAL" /\ sps = 1 =>
          cursor' = IF slot' % 4 = 0 THEN 625 ELSE 156 * (slot' % 4) + 1
    BY <1>1, <1>2 DEF AirInv, Waiting
  <2>4. QED  BY <1>1, <2>2, <2>3 DEF Waiting
<1>7. QED  BY <1>4, <1>5, <1>6 DEF AirInv

LEMMA PushKeeps == AirInv /\ Air!PushBuffer => AirInv'
<1> SUFFICES ASSUME AirInv, Air!PushBuffer  PROVE AirInv'
  OBVIOUS
<1> DEFINE n == Air!Sendable
<1>1. /\ pushing /\ pushing' = FALSE /\ cursor' = cursor - n /\ slot' = slot
      /\ type' = type /\ sps' = sps /\ writePos' = (writePos + n) % (sps * 1250)
  BY FrameLength DEF Air!PushBuffer
<1>2. /\ type \in Air!RadioTypes /\ sps \in {1, 4} /\ slot \in 0 .. 7 /\ cursor \in Nat
      /\ writePos \in 0 .. sps * 1250 - 1
  BY FrameLength DEF AirInv, Air!TypeOK, Air!SlotsPerFrame, Air!TxOversampling
<1>3. n \in 0 .. cursor /\ cursor - n < Air!Chunk(type)
  BY <1>2, Chunks DEF Air!Sendable, Air!Ready, Air!RadioTypes
<1> HIDE DEF n
<1>4. Air!TypeOK'
  <2>1. writePos' \in 0 .. sps * 1250 - 1
    <3>1. CASE sps = 1  BY <1>1, <1>2, <1>3, <3>1
    <3>2. CASE sps = 4  BY <1>1, <1>2, <1>3, <3>2
    <3>3. QED  BY <1>2, <3>1, <3>2
  <2>2. cursor' \in Nat  BY <1>1, <1>2, <1>3
  <2>3. writePos' \in 0 .. sps' * Air!FrameSymbols - 1  BY <1>1, <2>1, FrameLength
  <2>4. slot' \in 0 .. Air!SlotsPerFrame - 1  BY <1>1, <1>2 DEF Air!SlotsPerFrame
  <2>5. type' \in Air!RadioTypes /\ sps' \in Air!TxOversampling /\ pushing' \in BOOLEAN
    BY <1>1, <1>2 DEF Air!TxOversampling
  <2>6. QED  BY <2>2, <2>3, <2>4, <2>5 DEF Air!TypeOK
<1>5. SendFollowsSlots'
  <2>1. (writePos' + cursor') % (sps * 1250) = (writePos + cursor) % (sps * 1250)
    <3>1. CASE sps = 1  BY <1>1, <1>2, <1>3, <3>1
    <3>2. CASE sps = 4  BY <1>1, <1>2, <1>3, <3>2
    <3>3. QED  BY <1>2, <3>1, <3>2
  <2>2. QED  BY <1>1, <2>1, FrameLength
             DEF AirInv, SendFollowsSlots, Air!SendFollowsSlots, Air!SlotStart
<1>6. Waiting'
  <2>1. Air!Chunk(type)' = Air!Chunk(type)  BY <1>1 DEF Air!Chunk, Air!InRate
  <2>2. cursor' < Air!Chunk(type)'  BY <1>1, <1>3, <2>1
  <2>3. ASSUME type = "NORMAL", sps = 1
        PROVE  cursor' = IF slot % 4 = 0 THEN 0 ELSE 156 * (slot % 4) + 1
    <3>1. Air!Chunk(type) = 625  BY <1>2, <2>3, Chunks
    <3>2. n = IF cursor >= 625 THEN cursor ELSE 0
      BY <2>3, <3>1 DEF n, Air!Sendable, Air!Ready
    <3>3. cursor = IF slot % 4 = 0 THEN 625 ELSE 156 * (slot % 4) + 1
      BY <1>1, <2>3 DEF AirInv, Waiting
    <3>4. QED  BY <1>1, <1>2, <3>2, <3>3
  <2>4. Air!Chunk(type) \in Nat  BY <1>2, Chunks DEF Air!RadioTypes
  <2>5. cursor' < Air!Chunk(type)' + IF pushing' THEN 628 ELSE 0
    BY <1>1, <1>2, <1>3, <2>1, <2>2, <2>4
  <2>6. QED  BY <1>1, <2>3, <2>5 DEF Waiting
<1>7. QED  BY <1>4, <1>5, <1>6 DEF AirInv

LEMMA AirFits == AirInv => SendFits
<1> SUFFICES ASSUME AirInv  PROVE Air!SendFits
  BY DEF SendFits
<1>1. type \in Air!RadioTypes /\ sps \in {1, 4} /\ slot \in 0 .. 7 /\ cursor \in Nat
  BY DEF AirInv, Air!TypeOK, Air!SlotsPerFrame, Air!TxOversampling
<1>2. cursor < Air!Chunk(type) + 628  BY <1>1, Chunks DEF AirInv, Waiting, Air!RadioTypes
<1>3. CASE type = "NORMAL"
  <2>1. Air!Chunk(type) = 625  BY <1>1, <1>3, Chunks
  <2>2. cursor <= sps * 625
    <3>1. CASE sps = 1  BY <1>1, <1>3, <3>1 DEF AirInv, Waiting
    <3>2. CASE sps = 4  BY <1>1, <1>2, <2>1, <3>2
    <3>3. QED  BY <1>1, <3>1, <3>2
  <2>3. QED  BY <1>3, <2>1, <2>2 DEF Air!SendFits, Air!SendSize
<1>4. CASE type = "RESAMP_64M"
  <2>1. Air!Chunk(type) = 260 /\ Air!ChunkOut(type) = 384
    BY <1>1, <1>4, Chunks DEF Air!ChunkOut, Air!OutRate
  <2>2. Air!BlockLen <= 4096
    BY <1>1, <1>2, <1>4, <2>1 DEF Air!BlockLen, Air!Sendable, Air!Ready
  <2>3. QED  BY <1>1, <1>2, <1>4, <2>1, <2>2 DEF Air!SendFits, Air!SendSize, Air!MaxOutputLen
<1>5. CASE type = "RESAMP_100M"
  <2>1. Air!Chunk(type) = 208 /\ Air!ChunkOut(type) = 300
    BY <1>1, <1>5, Chunks DEF Air!ChunkOut, Air!OutRate
  <2>2. Air!BlockLen <= 4096
    BY <1>1, <1>2, <1>5, <2>1 DEF Air!BlockLen, Air!Sendable, Air!Ready
  <2>3. QED  BY <1>1, <1>2, <1>5, <2>1, <2>2 DEF Air!SendFits, Air!SendSize, Air!MaxOutputLen
<1>6. QED  BY <1>1, <1>3, <1>4, <1>5 DEF Air!RadioTypes

THEOREM AirInvariance == RadioSpec => []AirInv
<1>1. RadioInit => AirInv  BY InitAirInv DEF RadioInit
<1>2. ASSUME AirInv, [RadioNext]_radioVars  PROVE AirInv'
  <2>1. CASE Air!AppendBurst  BY <1>2, <2>1, AppendKeeps
  <2>2. CASE Air!PushBuffer  BY <1>2, <2>2, PushKeeps
  <2>3. CASE UNCHANGED sendVars
    BY <1>2, <2>3
    DEF sendVars, AirInv, Waiting, SendFollowsSlots, Air!TypeOK, Air!SendFollowsSlots, Air!Chunk,
        Air!InRate
  <2>4. Air!AppendBurst \/ Air!PushBuffer \/ UNCHANGED sendVars
    BY <1>2 DEF RadioNext, TransmitThread, OtherThreads, Ask, PushBurst, PushTooLittle, BeginBlock,
                Align, DropBlock, SendBlock, radioVars
  <2>5. QED  BY <2>1, <2>2, <2>3, <2>4
<1>3. QED  BY <1>1, <1>2, PTL DEF RadioSpec

\* The samples that wait fit in the send buffer and a block in the tables of
\* the resampler, for each radio type and oversampling, for ever.
THEOREM BufferHoldsBursts == RadioSpec => []SendFits
<1>1. QED  BY AirFits, AirInvariance, PTL

\* Bursts stay where their timeslots begin, however many blocks the device
\* dropped and however often the frame of the write position wrapped.
THEOREM BurstsFollowSlots == RadioSpec => []SendFollowsSlots
<1>1. AirInv => SendFollowsSlots  BY DEF AirInv
<1>2. QED  BY <1>1, AirInvariance, PTL

-----------------------------------------------------------------------------
(* The receive half.                                                        *)

USE ReceiveAssumption

LEMMA SlotStartType == ASSUME NEW tn \in Int PROVE SlotStart(tn) \in Int
  BY DEF SlotStart, SymbolsPerSlot

LEMMA Sizes ==
  /\ FrameSymbols = 1250
  /\ \A t \in RadioTypes : Chunk(t) \in 1 .. 625
  BY DEF FrameSymbols, SlotStart, SlotsPerFrame, SymbolsPerSlot, RadioTypes,
         Chunk, InRate

\* A buffer has room for a chunk behind what a pass of the loop can leave.
LEMMA BufferSizes == ASSUME NEW t \in RadioTypes, NEW s \in TxOversampling
                     PROVE  RecvSize(t, s) \in Nat /\ RecvSize(t, s) >= Chunk(t) + 157
<1>1. CASE t = "NORMAL"  BY <1>1 DEF RecvSize, Chunk
<1>2. CASE t = "RESAMP_64M" /\ s = 1  BY <1>2 DEF RecvSize, Chunk, InRate
<1>3. CASE t = "RESAMP_64M" /\ s = 4  BY <1>3 DEF RecvSize, Chunk, InRate
<1>4. CASE t = "RESAMP_100M" /\ s = 1  BY <1>4 DEF RecvSize, Chunk, InRate
<1>5. CASE t = "RESAMP_100M" /\ s = 4  BY <1>5 DEF RecvSize, Chunk, InRate
<1>6. QED  BY <1>1, <1>2, <1>3, <1>4, <1>5 DEF RadioTypes, TxOversampling

\* A slot has 156 or 157 symbols, whatever its number.
LEMMA SlotLength == ASSUME NEW tn \in Int
                    PROVE  SlotSymbols(tn) \in {156, 157}
  BY DEF SlotSymbols, SymbolsPerSlot

\* A slot ends where the next one begins, across the end of a frame as well.
LEMMA NextSlotStart == ASSUME NEW k \in 0 .. 7
                       PROVE  SlotStart((k + 1) % 8) = (SlotStart(k) + SlotSymbols(k)) % 1250
<1>1. CASE k = 0  BY <1>1 DEF SlotStart, SlotSymbols, SymbolsPerSlot
<1>2. CASE k = 1  BY <1>2 DEF SlotStart, SlotSymbols, SymbolsPerSlot
<1>3. CASE k = 2  BY <1>3 DEF SlotStart, SlotSymbols, SymbolsPerSlot
<1>4. CASE k = 3  BY <1>4 DEF SlotStart, SlotSymbols, SymbolsPerSlot
<1>5. CASE k = 4  BY <1>5 DEF SlotStart, SlotSymbols, SymbolsPerSlot
<1>6. CASE k = 5  BY <1>6 DEF SlotStart, SlotSymbols, SymbolsPerSlot
<1>7. CASE k = 6  BY <1>7 DEF SlotStart, SlotSymbols, SymbolsPerSlot
<1>8. CASE k = 7  BY <1>8 DEF SlotStart, SlotSymbols, SymbolsPerSlot
<1>9. QED  BY <1>1, <1>2, <1>3, <1>4, <1>5, <1>6, <1>7, <1>8

\* Reduction modulo a frame of samples may be done before an addition.
LEMMA FrameMod == ASSUME NEW a \in Int, NEW b \in Int
                  PROVE  ((a % 1250) + b) % 1250 = (a + b) % 1250
  OBVIOUS

\* Timeslots that agree modulo 8 agree modulo 4, and so do their neighbours.
LEMMA SlotMod == ASSUME NEW a \in Int, NEW b \in Int, NEW d \in Int, a % 8 = b % 8
                 PROVE  a % 4 = b % 4 /\ (a + d) % 8 = (b + d) % 8
<1>1. a % 4 = (a % 8) % 4 /\ b % 4 = (b % 8) % 4  OBVIOUS
<1>2. (a + d) % 8 = ((a % 8) + d) % 8 /\ (b + d) % 8 = ((b % 8) + d) % 8  OBVIOUS
<1>3. QED  BY <1>1, <1>2

\* Where a slot of the stream begins depends on its number in the frame only.
LEMMA StreamOfSlot == ASSUME NEW tn \in Int
                      PROVE  StreamStart(tn) = StreamStart(tn % 8)
<1>1. (tn % 8) % 8 = tn % 8  OBVIOUS
<1>2. GMaxTimeslots = 8  BY DEF SlotsPerFrame
<1>3. QED  BY <1>1, <1>2 DEF StreamStart

\* Where the slots of the stream begin depends on the slot's number in its
\* frame only, and one begins where the one before ends.
LEMMA StreamOrder == ASSUME NEW tn \in Int
  PROVE  /\ StreamStart(tn) \in 0 .. 1249
         /\ StreamStart(tn) = StreamStart(tn % 8)
         /\ StreamStart(tn + 1) = (StreamStart(tn) + SlotSymbols(tn)) % 1250
<1> DEFINE k == tn % 8
           f == SlotStart(FirstSlot)
<1>1. k \in 0 .. 7 /\ k % 8 = k /\ (tn + 1) % 8 = (k + 1) % 8 /\ tn % 4 = k % 4  OBVIOUS
<1>2. GMaxTimeslots = 8  BY DEF SlotsPerFrame
<1>3. FirstSlot \in 0 .. 7  BY <1>2 DEF FirstSlot, Timeslots
<1>4. f \in Int /\ SlotStart(k) \in Int /\ FrameSymbols = 1250  BY <1>1, <1>3, SlotStartType, Sizes
<1>5. StreamStart(tn) = (SlotStart(k) - f) % 1250  BY <1>2, <1>4 DEF StreamStart
<1>6. StreamStart(k) = (SlotStart(k) - f) % 1250  BY <1>1, <1>2, <1>4 DEF StreamStart
<1>7. SlotSymbols(tn) = SlotSymbols(k) /\ SlotSymbols(k) \in Int
  BY <1>1, SlotLength DEF SlotSymbols
<1>8. StreamStart(tn + 1) = (SlotStart((k + 1) % 8) - f) % 1250
  BY <1>1, <1>2, <1>4 DEF StreamStart
<1>9. StreamStart(tn + 1) = (((SlotStart(k) + SlotSymbols(k)) % 1250) - f) % 1250
  BY <1>1, <1>8, NextSlotStart
<1> HIDE DEF k, f
<1>10. (((SlotStart(k) + SlotSymbols(k)) % 1250) + (-f)) % 1250
         = (SlotStart(k) + SlotSymbols(k) - f) % 1250
  BY <1>4, <1>7, FrameMod
<1>11. (((SlotStart(k) - f) % 1250) + SlotSymbols(k)) % 1250
         = (SlotStart(k) - f + SlotSymbols(k)) % 1250
  BY <1>4, <1>7, FrameMod
<1>12. ((SlotStart(k) + SlotSymbols(k)) % 1250) - f = ((SlotStart(k) + SlotSymbols(k)) % 1250) + (-f)
  BY <1>4, <1>7
<1>13. SlotStart(k) + SlotSymbols(k) - f = SlotStart(k) - f + SlotSymbols(k)
  BY <1>4, <1>7
<1>14. StreamStart(tn + 1) = (StreamStart(tn) + SlotSymbols(tn)) % 1250
  BY <1>5, <1>7, <1>9, <1>10, <1>11, <1>12, <1>13
<1>15. (SlotStart(k) - f) % 1250 \in 0 .. 1249  BY <1>4
<1>16. QED  BY <1>5, <1>6, <1>14, <1>15 DEF k


\* The timeslot field of the code: 8 timeslots, a width that 8 divides.
LEMMA Widths == /\ GMaxTimeslots = 8 /\ Timeslots = 0 .. 7
                /\ TNWord \in Nat /\ TNWord >= 16 /\ TNWord % 8 = 0
                /\ ReceiveOffset \in 0 .. 7
  BY GsmTimeAssumption DEF Timeslots, SlotsPerFrame

\* decTN and incTN move the timeslot by their step modulo 8, also on values
\* that are no timeslots of the standard.
LEMMA DecTNSlot == ASSUME NEW t \in Times
                   PROVE  DecTN(t, ReceiveOffset).tn % 8 = (t.tn - ReceiveOffset) % 8
<1>1. t.tn \in 0 .. 7  BY Widths DEF Times
<1> DEFINE d == t.tn - ReceiveOffset
<1>2. d \in -7 .. 7  BY <1>1, Widths
<1>3. d % TNWord = IF d < 0 THEN d + TNWord ELSE d  BY <1>2, Widths
<1>4. (d + TNWord) % 8 = d % 8  BY <1>2, Widths
<1>5. QED  BY <1>3, <1>4 DEF DecTN, Time

LEMMA IncTNSlot == ASSUME NEW t \in RawTimes
                   PROVE  /\ IncTN(t, 1) \in RawTimes
                          /\ IncTN(t, 1).tn % 8 = (t.tn + 1) % 8
<1>1. t.fn \in Frames /\ t.tn \in 0 .. TNWord - 1 /\ TNWord \in Nat /\ TNWord >= 16
      /\ TNWord % 8 = 0
  BY Widths DEF RawTimes
<1> DEFINE tn == (t.tn + 1) % TNWord
<1>2. tn = IF t.tn = TNWord - 1 THEN 0 ELSE t.tn + 1  BY <1>1
<1>3. tn \in 0 .. TNWord - 1 /\ tn % 8 = (t.tn + 1) % 8  BY <1>1, <1>2
<1> HIDE DEF tn
<1>4. NextFrame(t.fn) \in Frames  BY <1>1, NextFrameType
<1>5. CASE tn > 7
  <2>1. IncTN(t, 1) = Time(NextFrame(t.fn), tn - 8)  BY <1>5, Widths DEF IncTN, tn
  <2>2. tn - 8 \in 0 .. TNWord - 1 /\ (tn - 8) % 8 = tn % 8  BY <1>1, <1>3, <1>5
  <2>3. QED  BY <2>1, <2>2, <1>3, <1>4 DEF Time, RawTimes
<1>6. CASE ~(tn > 7)
  <2>1. IncTN(t, 1) = Time(t.fn, tn)  BY <1>6, Widths DEF IncTN, tn
  <2>2. QED  BY <2>1, <1>1, <1>3 DEF Time, RawTimes
<1>7. QED  BY <1>5, <1>6

-----------------------------------------------------------------------------
(* The buffers: counts alone, without the position in the stream.           *)

\* A pass of the loop puts at most one burst per 156 samples into the FIFO,
\* of which it starts with at most FifoLimit.
BoundInv ==
  /\ rx.pc # "form" => recvCursor <= 157 /\ rx.readSz = 0
  /\ rx.pc = "form" => /\ recvCursor <= 157 + Chunk(type) /\ rx.readSz <= recvCursor
                       /\ 156 * Len(fifo) <= 156 * FifoLimit + rx.readSz
  /\ 156 * Len(fifo) <= 156 * FifoLimit + Chunk(type) + 157

\* The timeslot of the burst being cut is the radio clock's, moved back.
SlotsAgree == rx.pc = "form" => rx.rcvClock.tn % 8 = (clock.tn - ReceiveOffset) % 8

ReceiveInv == ReceiveTypeOK /\ BoundInv /\ SlotsAgree /\ ClockFollowsSamples /\ SamplesMatchSlot

LEMMA InitReceiveInv == ReceiveInit => ReceiveInv
<1> SUFFICES ASSUME ReceiveInit PROVE ReceiveInv
  OBVIOUS
<1> USE DEF ReceiveInit
<1>1. clock \in Times /\ clock.tn = 0  BY Widths DEF Times, Time
<1>2. clock \in RawTimes  BY <1>1, TimesAreRaw
<1>3. Chunk(type) \in 1 .. 625  BY Sizes
<1>4. fifo = << >> /\ Len(fifo) = 0  OBVIOUS
<1>5. ReceiveTypeOK
  <2>1. rx \in [pc : {"drive", "get", "form"}, rcvClock : RawTimes, readSz : Nat]
    BY <1>2
  <2>2. recvCursor \in Nat /\ readPos \in 0 .. FrameSymbols - 1  BY Sizes
  <2>3. QED  BY <1>1, <1>4, <2>1, <2>2 DEF ReceiveTypeOK
<1>6. BoundInv
  <2>1. rx.pc = "drive" /\ rx.readSz = 0 /\ recvCursor = 0  OBVIOUS
  <2>2. FifoLimit \in Nat  OBVIOUS
  <2> HIDE DEF ReceiveInit
  <2>3. 156 * Len(fifo) = 0 /\ 156 * FifoLimit \in Nat  BY <1>4, <2>2
  <2>4. Chunk(type) \in Nat  BY <1>3
  <2>5. QED  BY <2>1, <2>3, <2>4 DEF BoundInv
<1>7. SlotsAgree  BY DEF SlotsAgree
<1>8. ClockFollowsSamples
  <2>1. StreamStart(clock.tn - ReceiveOffset) = 0
    <3>1. FirstSlot = (0 - ReceiveOffset) % 8 /\ FirstSlot \in 0 .. 7  
      BY Widths, ModIsBelow DEF FirstSlot
    <3>2. (clock.tn - ReceiveOffset) % 8 = FirstSlot /\ clock.tn - ReceiveOffset = 0 - ReceiveOffset
      BY <1>1, <3>1, Widths
    <3>3. SlotStart(FirstSlot) \in Int  BY <3>1, SlotStartType
    <3>4. QED  BY <3>1, <3>2, <3>3, Widths, Sizes DEF StreamStart
  <2>2. QED  BY <2>1, Sizes DEF ClockFollowsSamples
<1>9. SamplesMatchSlot  BY <1>4 DEF SamplesMatchSlot
<1>10. QED  BY <1>5, <1>6, <1>7, <1>8, <1>9 DEF ReceiveInv
\* What the parts of the invariant say of the types of the state.
LEMMA StateTypes == ASSUME ReceiveInv
  PROVE  /\ type \in RadioTypes /\ sps \in TxOversampling
         /\ clock \in Times /\ clock \in RawTimes /\ clock.tn \in 0 .. 7
         /\ recvCursor \in Nat /\ readPos \in 0 .. 1249 /\ Len(fifo) \in Nat
         /\ rx.rcvClock \in RawTimes /\ rx.rcvClock.tn \in Int /\ rx.readSz \in Nat
         /\ rx = [pc |-> rx.pc, rcvClock |-> rx.rcvClock, readSz |-> rx.readSz]
         /\ Chunk(type) \in 1 .. 625
         /\ FifoLimit \in Nat /\ ReceiveOffset \in 0 .. 7
<1>1. clock.tn \in 0 .. 7  BY Widths DEF ReceiveInv, ReceiveTypeOK, Times
<1>2. clock \in RawTimes  BY TimesAreRaw DEF ReceiveInv, ReceiveTypeOK
<1>3. rx.rcvClock.tn \in Int  BY Widths DEF ReceiveInv, ReceiveTypeOK, RawTimes
<1>4. Chunk(type) \in 1 .. 625 /\ FrameSymbols = 1250
  <2>1. type \in RadioTypes  BY DEF ReceiveInv, ReceiveTypeOK
  <2>2. QED  BY <2>1, Sizes
<1>5. rx = [pc |-> rx.pc, rcvClock |-> rx.rcvClock, readSz |-> rx.readSz]
  BY DEF ReceiveInv, ReceiveTypeOK
<1>6. QED  BY <1>1, <1>2, <1>3, <1>4, <1>5, Widths DEF ReceiveInv, ReceiveTypeOK

LEMMA RxFullInv == ReceiveInv /\ RxFull => ReceiveInv'
<1> SUFFICES ASSUME ReceiveInv, RxFull PROVE ReceiveInv'
  OBVIOUS
<1> USE DEF ReceiveInv, RxFull
<1>1. rx' = [pc |-> "get", rcvClock |-> rx.rcvClock, readSz |-> 0]
  BY StateTypes DEF BoundInv
<1>2. ReceiveTypeOK'  BY <1>1, StateTypes DEF ReceiveTypeOK
<1>3. BoundInv'  BY <1>1 DEF BoundInv
<1>4. SlotsAgree'  BY <1>1 DEF SlotsAgree
<1>5. ClockFollowsSamples'  BY <1>1 DEF ClockFollowsSamples, BoundInv
<1>6. SamplesMatchSlot'  BY DEF SamplesMatchSlot
<1>7. QED  BY <1>2, <1>3, <1>4, <1>5, <1>6

LEMMA PullInv == ASSUME ReceiveInv, NEW received, received = 0 \/ received = Chunk(type),
                        Pull(received)
                 PROVE  ReceiveInv'
<1>a. Chunk(type) \in 1 .. 625 /\ recvCursor \in Nat /\ readPos \in 0 .. 1249
  BY StateTypes
<1>1. received \in Nat /\ received <= Chunk(type)  BY <1>a
<1> USE DEF Pull, ReadPosAfter
<1> DEFINE moved == DecTN(clock, ReceiveOffset)
<1>2. moved \in RawTimes  BY StateTypes, DecTNType
<1> HIDE DEF moved
<1>3. rx' = [pc |-> "form", rcvClock |-> moved, readSz |-> 0]  BY DEF moved
<1>4. readPos' = (readPos + received) % 1250 /\ readPos' \in 0 .. 1249
  <2>1. FrameSymbols = 1250  BY Sizes
  <2>2. QED  BY <1>a, <1>1, <2>1
<1>5. ReceiveTypeOK'
  <2>1. rx' \in [pc : {"drive", "get", "form"}, rcvClock : RawTimes, readSz : Nat]
    BY <1>2, <1>3
  <2>2. recvCursor' \in Nat /\ readPos' \in 0 .. FrameSymbols - 1
    BY <1>1, <1>4, StateTypes, Sizes
  <2>3. QED  BY <2>1, <2>2 DEF ReceiveInv, ReceiveTypeOK
<1>6. BoundInv'
  <2>1. recvCursor' <= 157 + Chunk(type)
    <3>1. recvCursor <= 157  BY DEF ReceiveInv, BoundInv
    <3>2. QED  BY <3>1, <1>a, <1>1
  <2>2. recvCursor' \in Nat  BY <1>a, <1>1
  <2>3. Len(fifo) <= FifoLimit  BY StateTypes DEF FifoFull
  <2>4. 156 * Len(fifo) <= 156 * FifoLimit  BY <2>3, StateTypes
  <2>5. rx'.pc = "form" /\ rx'.readSz = 0  BY <1>3
  <2>6. QED  BY <2>1, <2>2, <2>4, <2>5, StateTypes DEF ReceiveInv, BoundInv
<1>7. SlotsAgree'  BY <1>3, DecTNSlot, StateTypes DEF SlotsAgree, moved
<1>8. ClockFollowsSamples'
  <2>1. rx.readSz = 0 /\ rx'.readSz = 0  BY <1>3 DEF ReceiveInv, BoundInv
  <2>2. (readPos - recvCursor + 0) % 1250 = StreamStart(clock.tn - ReceiveOffset)
    BY <2>1, Sizes DEF ReceiveInv, ClockFollowsSamples
  <2> DEFINE a == readPos + received
             b == -(recvCursor + received)
  <2>3. a \in Int /\ b \in Int /\ a + b = readPos - recvCursor + 0  BY <1>a, <1>1
  <2>4. readPos' - recvCursor' + 0 = (a % 1250) + b  BY <1>a, <1>1, <1>4
  <2> HIDE DEF a, b
  <2>5. (readPos' - recvCursor' + 0) % 1250 = (a + b) % 1250  BY <2>3, <2>4, FrameMod
  <2>6. (a + b) % 1250 = (readPos - recvCursor + 0) % 1250  BY <2>3
  <2>7. (readPos' - recvCursor' + rx'.readSz) % 1250 = StreamStart(clock.tn - ReceiveOffset)
    BY <2>1, <2>2, <2>5, <2>6
  <2>8. clock' = clock  OBVIOUS
  <2> HIDE DEF Pull
  <2>9. FrameSymbols = 1250  BY Sizes
  <2>10. QED  BY <2>7, <2>8, <2>9 DEF ClockFollowsSamples
<1>9. SamplesMatchSlot'  BY DEF ReceiveInv, SamplesMatchSlot
<1>10. QED  BY <1>5, <1>6, <1>7, <1>8, <1>9 DEF ReceiveInv

\* A burst is cut: its samples begin where its timeslot begins, and the next
\* one begins where it ends.
LEMMA RxFormInv == ReceiveInv /\ RxForm => ReceiveInv'
<1> SUFFICES ASSUME ReceiveInv, RxForm PROVE ReceiveInv'
  OBVIOUS
<1> DEFINE start == readPos - recvCursor + rx.readSz
           next == IncTN(rx.rcvClock, 1)
           burst == [time |-> rx.rcvClock, at |-> start % FrameSymbols]
<1>a. /\ Chunk(type) \in 1 .. 625 /\ recvCursor \in Nat /\ readPos \in 0 .. 1249
      /\ rx.readSz \in Nat /\ clock.tn \in 0 .. 7 /\ rx.rcvClock.tn \in Int
      /\ ReceiveOffset \in 0 .. 7
  BY StateTypes
<1>b. clock \in Times /\ clock \in RawTimes /\ rx.rcvClock \in RawTimes  BY StateTypes
<1>c. FrameSymbols = 1250  BY Sizes
<1>d. start \in Int /\ start % 1250 \in 0 .. 1249
  <2>1. start \in Int  BY <1>a
  <2> HIDE DEF start
  <2>2. QED  BY <2>1
<1>e. FormLength \in {156, 157}  BY <1>a, SlotLength DEF FormLength
<1>1. rx.pc = "form" /\ recvCursor - rx.readSz > FormLength  BY DEF RxForm
<1>2. fifo' = Append(fifo, burst) /\ clock' = IncTN(clock, 1)  BY DEF RxForm
<1>3. rx' = [pc |-> "form", rcvClock |-> next, readSz |-> rx.readSz + FormLength]
  <2>1. rx' = [rx EXCEPT !.rcvClock = next, !.readSz = @ + FormLength]  BY DEF RxForm
  <2>2. rx = [pc |-> rx.pc, rcvClock |-> rx.rcvClock, readSz |-> rx.readSz]  BY StateTypes
  <2>3. QED  BY <1>1, <2>1, <2>2
<1>4. /\ type' = type /\ sps' = sps /\ recvCursor' = recvCursor /\ readPos' = readPos
  BY DEF RxForm
<1>5. next \in RawTimes /\ next.tn % 8 = (rx.rcvClock.tn + 1) % 8  BY <1>b, IncTNSlot
<1>6. clock' \in Times /\ clock'.tn % 8 = (clock.tn + 1) % 8
  BY <1>2, <1>b, IncTNType, IncTNSlot
<1>7. clock'.tn \in Int  BY <1>6, Widths DEF Times
<1>8. burst \in [time : RawTimes, at : 0 .. 1249]  BY <1>b, <1>c, <1>d
<1>9. rx.rcvClock.tn % 8 = (clock.tn - ReceiveOffset) % 8
  BY <1>1 DEF ReceiveInv, SlotsAgree
<1> DEFINE c == clock.tn - ReceiveOffset
<1>10. c \in Int /\ c + 1 \in Int /\ (clock'.tn - ReceiveOffset) % 8 = (c + 1) % 8
  <2>1. clock.tn + 1 \in Int /\ -ReceiveOffset \in Int  BY <1>a
  <2>2. (clock'.tn + (-ReceiveOffset)) % 8 = (clock.tn + 1 + (-ReceiveOffset)) % 8
    BY <1>6, <1>7, <2>1, SlotMod
  <2>3. clock'.tn + (-ReceiveOffset) = clock'.tn - ReceiveOffset
        /\ clock.tn + 1 + (-ReceiveOffset) = c + 1
    BY <1>a, <1>7
  <2>4. QED  BY <1>a, <2>2, <2>3
<1>11. StreamStart(c) = start % 1250
  BY <1>c DEF ReceiveInv, ClockFollowsSamples
<1>12. SlotSymbols(c) = FormLength
  <2>1. c % 4 = rx.rcvClock.tn % 4
    <3>1. PICK a \in Int, b \in Int : a = c /\ b = rx.rcvClock.tn /\ a % 8 = b % 8
      BY <1>9, <1>10, <1>a
    <3>2. 0 \in Int  OBVIOUS
    <3>3. a % 4 = b % 4  BY <3>1, <3>2, SlotMod
    <3>4. QED  BY <3>1, <3>3
  <2> HIDE DEF c
  <2>2. QED  BY <2>1, Zenon DEF FormLength, SlotSymbols
<1> HIDE DEF start, next, burst, c
<1>13. ReceiveTypeOK'
  <2>1. rx' \in [pc : {"drive", "get", "form"}, rcvClock : RawTimes, readSz : Nat]
    BY <1>3, <1>5, <1>a, <1>e
  <2>2. fifo' \in Seq([time : RawTimes, at : 0 .. FrameSymbols - 1])
    BY <1>2, <1>8, <1>c DEF ReceiveInv, ReceiveTypeOK
  <2>3. QED  BY <1>4, <1>6, <2>1, <2>2 DEF ReceiveInv, ReceiveTypeOK
<1>14. BoundInv'
  <2> DEFINE n == Len(fifo)
  <2>1. n \in Nat /\ FifoLimit \in Nat  BY StateTypes
  <2>2. Len(fifo') = n + 1  BY <1>2 DEF ReceiveInv, ReceiveTypeOK
  <2>3. 156 * n <= 156 * FifoLimit + rx.readSz /\ recvCursor <= 157 + Chunk(type)
    BY <1>1 DEF ReceiveInv, BoundInv
  <2> HIDE DEF n
  <2>4. 156 * (n + 1) <= 156 * FifoLimit + (rx.readSz + FormLength)
    BY <2>1, <2>3, <1>a, <1>e
  <2>5. rx.readSz + FormLength <= recvCursor  BY <1>1, <1>a, <1>e
  <2>6. 156 * (n + 1) <= 156 * FifoLimit + Chunk(type) + 157
    BY <2>1, <2>3, <2>4, <2>5, <1>a, <1>e
  <2>7. rx'.pc = "form" /\ rx'.readSz = rx.readSz + FormLength  BY <1>3
  <2>8. QED  BY <1>4, <2>2, <2>3, <2>4, <2>5, <2>6, <2>7 DEF BoundInv
<1>15. SlotsAgree'
  <2>1. next.tn % 8 = (c + 1) % 8  BY <1>5, <1>9, <1>10, <1>a DEF c
  <2>2. rx'.rcvClock = next  BY <1>3
  <2>3. QED  BY <2>1, <2>2, <1>10 DEF SlotsAgree
<1>16. ClockFollowsSamples'
  <2>1. StreamStart(clock'.tn - ReceiveOffset) = StreamStart(c + 1)
    <3>1. StreamStart(clock'.tn - ReceiveOffset) = StreamStart((clock'.tn - ReceiveOffset) % 8)
      BY <1>7, <1>a, StreamOfSlot
    <3>2. StreamStart(c + 1) = StreamStart((c + 1) % 8)  BY <1>10, StreamOfSlot
    <3>3. QED  BY <3>1, <3>2, <1>10
  <2>2. StreamStart(c + 1) = ((start % 1250) + FormLength) % 1250
    BY <1>10, <1>11, <1>12, StreamOrder
  <2>3. ((start % 1250) + FormLength) % 1250 = (start + FormLength) % 1250
    BY <1>d, <1>e, FrameMod
  <2>4. readPos' - recvCursor' + rx'.readSz = start + FormLength
    BY <1>3, <1>4, <1>a, <1>e DEF start
  <2>5. QED  BY <2>1, <2>2, <2>3, <2>4, <1>c DEF ClockFollowsSamples
<1>17. SamplesMatchSlot'
  <2> SUFFICES ASSUME NEW i \in 1 .. Len(fifo')
               PROVE  fifo'[i].at = StreamStart(fifo'[i].time.tn)
    BY DEF SamplesMatchSlot
  <2>1. CASE i \in 1 .. Len(fifo)
    <3>1. fifo'[i] = fifo[i]  BY <1>2, <2>1 DEF ReceiveInv, ReceiveTypeOK
    <3>2. QED  BY <3>1, <2>1 DEF ReceiveInv, SamplesMatchSlot
  <2>2. CASE i = Len(fifo) + 1
    <3>1. fifo'[i] = burst  BY <1>2, <2>2 DEF ReceiveInv, ReceiveTypeOK
    <3>2. StreamStart(rx.rcvClock.tn) = StreamStart(rx.rcvClock.tn % 8)
      BY <1>a, StreamOfSlot
    <3>3. StreamStart(c) = StreamStart(c % 8)  BY <1>10, StreamOfSlot
    <3>4. rx.rcvClock.tn % 8 = c % 8  BY <1>9 DEF c
    <3>5. QED  BY <3>1, <3>2, <3>3, <3>4, <1>11, <1>c DEF burst
  <2>3. Len(fifo') = Len(fifo) + 1 /\ Len(fifo) \in Nat
    BY <1>2 DEF ReceiveInv, ReceiveTypeOK
  <2>4. QED  BY <2>1, <2>2, <2>3
<1>18. QED  BY <1>13, <1>14, <1>15, <1>16, <1>17 DEF ReceiveInv

\* What is left moves to the start of the buffer.
LEMMA RxShiftInv == ReceiveInv /\ RxShift => ReceiveInv'
<1> SUFFICES ASSUME ReceiveInv, RxShift PROVE ReceiveInv'
  OBVIOUS
<1>a. /\ Chunk(type) \in 1 .. 625 /\ recvCursor \in Nat /\ readPos \in 0 .. 1249
      /\ rx.readSz \in Nat /\ rx.rcvClock.tn \in Int
  BY StateTypes
<1>1. FormLength \in {156, 157}  BY <1>a, SlotLength DEF FormLength
<1>2. rx.pc = "form" /\ recvCursor - rx.readSz <= FormLength  BY DEF RxShift
<1>3. recvCursor' = recvCursor - rx.readSz  BY DEF RxShift, LeftAfterForming
<1>4. rx' = [pc |-> "get", rcvClock |-> rx.rcvClock, readSz |-> 0]
  <2>1. rx = [pc |-> rx.pc, rcvClock |-> rx.rcvClock, readSz |-> rx.readSz]  BY StateTypes
  <2>2. rx' = [rx EXCEPT !.pc = "get", !.readSz = 0]  BY DEF RxShift
  <2>3. QED  BY <2>1, <2>2
<1>5. UNCHANGED <<type, sps, clock, readPos, fifo>>  BY DEF RxShift
<1>6. rx.readSz <= recvCursor  BY <1>2 DEF ReceiveInv, BoundInv
<1>7. recvCursor' \in Nat /\ recvCursor' <= 157  BY <1>1, <1>2, <1>3, <1>6, <1>a
<1>8. ReceiveTypeOK'
  <2>1. rx' \in [pc : {"drive", "get", "form"}, rcvClock : RawTimes, readSz : Nat]
    BY <1>4, StateTypes
  <2>2. QED  BY <1>5, <1>7, <2>1 DEF ReceiveInv, ReceiveTypeOK
<1>9. BoundInv'  BY <1>4, <1>5, <1>7 DEF ReceiveInv, BoundInv
<1>10. SlotsAgree'  BY <1>4 DEF SlotsAgree
<1>11. ClockFollowsSamples'
  <2>1. readPos' - recvCursor' + rx'.readSz = readPos - recvCursor + rx.readSz
    BY <1>3, <1>4, <1>5, <1>a
  <2>2. QED  BY <2>1, <1>5 DEF ReceiveInv, ClockFollowsSamples
<1>12. SamplesMatchSlot'  BY <1>5 DEF ReceiveInv, SamplesMatchSlot
<1>13. QED  BY <1>8, <1>9, <1>10, <1>11, <1>12 DEF ReceiveInv

\* One burst is taken from the FIFO; the others move up.
LEMMA RxGetInv == ReceiveInv /\ RxGet => ReceiveInv'
<1> SUFFICES ASSUME ReceiveInv, RxGet PROVE ReceiveInv'
  OBVIOUS
<1>1. rx' = [pc |-> "drive", rcvClock |-> rx.rcvClock, readSz |-> rx.readSz] /\ rx.pc = "get"
  BY StateTypes DEF RxGet
<1>2. UNCHANGED <<type, sps, clock, recvCursor, readPos>>  BY DEF RxGet
<1>3. rx.readSz = 0 /\ recvCursor <= 157  BY <1>1 DEF ReceiveInv, BoundInv
<1>4. fifo \in Seq([time : RawTimes, at : 0 .. FrameSymbols - 1])  BY DEF ReceiveInv, ReceiveTypeOK
<1>5. /\ fifo' \in Seq([time : RawTimes, at : 0 .. FrameSymbols - 1])
      /\ Len(fifo') \in Nat /\ Len(fifo) \in Nat /\ Len(fifo') <= Len(fifo)
      /\ \A i \in 1 .. Len(fifo') : \E j \in 1 .. Len(fifo) : fifo'[i] = fifo[j]
  <2>1. CASE fifo = << >>
    <3>1. fifo' = fifo  BY <2>1 DEF RxGet
    <3>2. QED  BY <3>1, <1>4
  <2>2. CASE fifo # << >>
    <3>1. fifo' = Tail(fifo)  BY <2>2 DEF RxGet
    <3>2. Len(fifo) \in Nat /\ Len(fifo) > 0 /\ Len(fifo') = Len(fifo) - 1
          /\ fifo' \in Seq([time : RawTimes, at : 0 .. FrameSymbols - 1])
      BY <1>4, <2>2, <3>1
    <3>3. \A i \in 1 .. Len(fifo') : fifo'[i] = fifo[i + 1]  BY <1>4, <2>2, <3>1
    <3> DEFINE n == Len(fifo)
               m == Len(fifo')
    <3>a. n \in Nat /\ n > 0 /\ m = n - 1  BY <3>2
    <3> HIDE DEF n, m
    <3>b. \A i \in 1 .. m : i + 1 \in 1 .. n  BY <3>a
    <3>4. \A i \in 1 .. Len(fifo') : i + 1 \in 1 .. Len(fifo)  BY <3>b DEF n, m
    <3>5. QED  BY <3>2, <3>3, <3>4
  <2>3. QED  BY <2>1, <2>2
<1>6. ReceiveTypeOK'
  <2>1. rx' \in [pc : {"drive", "get", "form"}, rcvClock : RawTimes, readSz : Nat]
    BY <1>1, StateTypes
  <2>2. QED  BY <1>2, <1>5, <2>1 DEF ReceiveInv, ReceiveTypeOK
<1>7. BoundInv'
  <2> DEFINE n == Len(fifo)
             m == Len(fifo')
  <2>1. n \in Nat /\ m \in Nat /\ m <= n  BY <1>5
  <2>2. 156 * n <= 156 * FifoLimit + Chunk(type) + 157  BY DEF ReceiveInv, BoundInv
  <2>a. FifoLimit \in Nat /\ Chunk(type) \in 1 .. 625  BY StateTypes
  <2>3. FifoLimit \in Nat /\ Chunk(type) \in Nat  BY <2>a
  <2> HIDE DEF n, m
  <2>4. 156 * m <= 156 * FifoLimit + Chunk(type) + 157  BY <2>1, <2>2, <2>3
  <2>5. rx'.pc = "drive" /\ rx'.readSz = 0  BY <1>1, <1>3
  <2>6. QED  BY <1>2, <1>3, <2>4, <2>5 DEF BoundInv, m
<1>8. SlotsAgree'  BY <1>1 DEF SlotsAgree
<1>9. ClockFollowsSamples'  BY <1>1, <1>2 DEF ReceiveInv, ClockFollowsSamples
<1>10. SamplesMatchSlot'  BY <1>5 DEF ReceiveInv, SamplesMatchSlot
<1>11. QED  BY <1>6, <1>7, <1>8, <1>9, <1>10 DEF ReceiveInv

LEMMA NextReceiveInv == ReceiveInv /\ [ReceiveNext]_receiveVars => ReceiveInv'
<1> SUFFICES ASSUME ReceiveInv, [ReceiveNext]_receiveVars PROVE ReceiveInv'
  OBVIOUS
<1>1. CASE RxFull  BY <1>1, RxFullInv
<1>2. CASE RxPull  BY <1>2, PullInv DEF RxPull
<1>3. CASE RxPullNothing  BY <1>3, PullInv DEF RxPullNothing
<1>4. CASE RxForm  BY <1>4, RxFormInv
<1>5. CASE RxShift  BY <1>5, RxShiftInv
<1>6. CASE RxGet  BY <1>6, RxGetInv
<1>7. CASE UNCHANGED receiveVars
  BY <1>7 DEF receiveVars, ReceiveInv, ReceiveTypeOK, BoundInv, SlotsAgree, ClockFollowsSamples, SamplesMatchSlot
<1>8. QED  BY <1>1, <1>2, <1>3, <1>4, <1>5, <1>6, <1>7 DEF ReceiveNext

-----------------------------------------------------------------------------
\* The invariant of the receive path: types, the counts of the buffers, the
\* timeslot being cut, and the position in the stream (driveReceiveRadio).
THEOREM ReceiveInvariance == ReceiveSpec => []ReceiveInv
  BY InitReceiveInv, NextReceiveInv, PTL DEF ReceiveSpec

\* The radio clock stays a time of the standard however the burst clock
\* that decTN makes of it looks, and the state keeps its types.
THEOREM ReceiveTypeCorrect == ReceiveSpec => []ReceiveTypeOK
<1>1. ReceiveInv => ReceiveTypeOK  BY DEF ReceiveInv
<1>2. QED  BY <1>1, ReceiveInvariance, PTL

\* Every burst in the FIFO was cut at the boundary of its own timeslot, for
\* every receive offset, radio type and pattern of failed reads.
THEOREM SamplesAreCut == ReceiveSpec => []SamplesMatchSlot
<1>1. ReceiveInv => SamplesMatchSlot  BY DEF ReceiveInv
<1>2. QED  BY <1>1, ReceiveInvariance, PTL

\* The radio clock stays the sample count for ever, although failed reads,
\* full FIFOs and two slot lengths come in any order.
THEOREM ClockIsSampleCount == ReceiveSpec => []ClockFollowsSamples
<1>1. ReceiveInv => ClockFollowsSamples  BY DEF ReceiveInv
<1>2. QED  BY <1>1, ReceiveInvariance, PTL

\* A chunk always has room behind what the loop leaves: the test of
\* pullBuffer for that room never fails (pullBuffer, driveReceiveRadio).
THEOREM BufferFits == ReceiveSpec => []RecvBufferFits
<1>1. ReceiveInv => RecvBufferFits
  <2> SUFFICES ASSUME ReceiveInv PROVE RecvBufferFits
    OBVIOUS
  <2>1. RecvSize(type, sps) \in Nat /\ RecvSize(type, sps) >= Chunk(type) + 157
    BY StateTypes, BufferSizes
  <2>2. recvCursor \in Nat /\ Chunk(type) \in 1 .. 625  BY StateTypes
  <2>3. CASE rx.pc = "form"
    <3>1. recvCursor <= 157 + Chunk(type)  BY <2>3 DEF ReceiveInv, BoundInv
    <3>2. QED  BY <2>1, <2>2, <2>3, <3>1 DEF RecvBufferFits
  <2>4. CASE rx.pc # "form"
    <3>1. recvCursor <= 157  BY <2>4 DEF ReceiveInv, BoundInv
    <3>2. QED  BY <2>1, <2>2, <3>1 DEF RecvBufferFits, SymbolsPerSlot
  <2>5. QED  BY <2>3, <2>4
<1>2. QED  BY <1>1, ReceiveInvariance, PTL

\* The FIFO never holds more than its limit and one pull's bursts
\* (driveReceiveRadio).
THEOREM FifoIsBounded == ReceiveSpec => []FifoBounded
<1>1. ReceiveInv => FifoBounded
  <2> SUFFICES ASSUME ReceiveInv PROVE FifoBounded
    OBVIOUS
  <2> DEFINE n == Len(fifo)
             c == Chunk(type)
  <2>1. n \in Nat /\ FifoLimit \in Nat /\ c \in 1 .. 625  BY StateTypes
  <2>2. 156 * n <= 156 * FifoLimit + c + 157  BY DEF ReceiveInv, BoundInv
  <2> HIDE DEF n, c
  <2>3. n <= FifoLimit + (c + 157) \div 156
    <3> DEFINE q == (c + 157) \div 156
    <3>1. q \in Int /\ c + 157 < 156 * q + 156  BY <2>1
    <3> HIDE DEF q
    <3>2. n <= FifoLimit + q  BY <2>1, <2>2, <3>1
    <3>3. QED  BY <3>2 DEF q
  <2>4. (c + SymbolsPerSlot + 1) \div SymbolsPerSlot = (c + 157) \div 156
    <3>1. SymbolsPerSlot = 156 /\ c + 156 + 1 = c + 157  BY <2>1 DEF SymbolsPerSlot
    <3>2. QED  BY <3>1
  <2>5. n <= FifoLimit + (c + SymbolsPerSlot + 1) \div SymbolsPerSlot  BY <2>3, <2>4
  <2>6. QED  BY <2>5 DEF FifoBounded, n, c
<1>2. QED  BY <1>1, ReceiveInvariance, PTL
=============================================================================
