------------------------------ MODULE RadioSend ------------------------------
(***************************************************************************)
(* The transmit side of radioInterface.cpp and radioInterfaceResamp.cpp:    *)
(* the transmit thread lays the bursts of consecutive timeslots one behind  *)
(* the other in the send buffer and hands what has gathered to the device.  *)
(* Samples are counted, never looked at.                                    *)
(* A definition marked "Fault" is what a plausible mistake would make of    *)
(* the definition after it; no specification uses it.                       *)
(***************************************************************************)
EXTENDS RadioKind

VARIABLES
  slot,      \* timeslot of the next burst: the deadline's
  cursor,    \* m_send_cursor: samples in m_send_buffer
  writePos,  \* samples taken from the send buffer, modulo a frame: what
             \* m_write_timestamp counts, before the resampler
  pushing    \* driveTransmitRadio has copied a burst, pushBuffer follows

vars == <<type, sps, slot, cursor, writePos, pushing>>

\* The deadline starts at timeslot 0 of a frame.
Init ==
  /\ type \in RadioTypes /\ sps \in TxOversampling
  /\ slot = 0 /\ cursor = 0 /\ writePos = 0 /\ pushing = FALSE

BurstSamples == sps * SlotSymbols(slot)

NextSlot == (slot + 1) % SlotsPerFrame

\* driveTransmitRadio: a burst is copied behind the samples that wait.
AppendBurst ==
  /\ ~pushing
  /\ cursor' = cursor + BurstSamples
  /\ slot' = NextSlot
  /\ pushing' = TRUE
  /\ UNCHANGED <<type, sps, writePos>>

\* Fault: half a buffer is gathered before a block is sent.
ReadyAtHalf == cursor >= SendSize(type, sps) \div 2

Ready == cursor >= Chunk(type)

\* Fault: the buffer is only emptied when there is more than a chunk.
SendableLate == IF cursor > Chunk(type) THEN cursor ELSE 0

Sendable ==
  IF ~Ready THEN 0
  ELSE IF type # "NORMAL" THEN (cursor \div Chunk(type)) * Chunk(type) ELSE cursor

\* Samples that the device gets for them.
BlockLen == (Sendable \div Chunk(type)) * ChunkOut(type)

\* pushBuffer: all samples are sent, or the whole chunks among them; what is
\* left moves to the start of the buffer.
PushBuffer ==
  /\ pushing
  /\ writePos' = (writePos + Sendable) % (sps * FrameSymbols)
  /\ cursor' = cursor - Sendable
  /\ pushing' = FALSE
  /\ UNCHANGED <<type, sps, slot>>

Next == AppendBurst \/ PushBuffer

Spec == Init /\ [][Next]_vars

-----------------------------------------------------------------------------
\* Types.
TypeOK ==
  /\ type \in RadioTypes /\ sps \in TxOversampling
  /\ slot \in 0 .. SlotsPerFrame - 1 /\ cursor \in Nat
  /\ writePos \in 0 .. sps * FrameSymbols - 1 /\ pushing \in BOOLEAN

\* The samples that wait never reach beyond the send buffer, also before
\* pushBuffer tests for it, which is after the copy; and no block is longer
\* than the resampler's tables, which rotate would answer by sending what the
\* buffer held before.  With one sample per symbol the buffer holds four
\* slots and no more: it fits only because the deadline starts at a long slot
\* (driveTransmitRadio, pushBuffer, init).
SendFits ==
  /\ cursor <= SendSize(type, sps)
  /\ pushing /\ type # "NORMAL" => BlockLen <= MaxOutputLen

\* Each burst begins on the air where its timeslot begins, for as long as
\* the radio runs: the samples sent and those that wait are all the bursts
\* so far (driveTransmitRadio, pushBuffer).
SendFollowsSlots ==
  (writePos + cursor) % (sps * FrameSymbols) = sps * SlotStart(slot)
=============================================================================
