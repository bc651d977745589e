----------------------------- MODULE UhdReceive -----------------------------
(***************************************************************************)
(* The receive side of uhd_device: readSamples, called by pullBuffer of the *)
(* radio interface for one chunk after another, with the sample buffer and   *)
(* the restart of the device when its time runs backwards.  One iteration    *)
(* of the loop of readSamples is one action: recv hands over one packet.     *)
(* A definition marked "Fault" is what a plausible mistake would make of    *)
(* the definition after it; no specification uses it.                       *)
(***************************************************************************)
EXTENDS SampleBuffer

CONSTANTS
  ReadLen,      \* len: the chunk that pullBuffer asks for
  MaxPacket,    \* rx_spp
  TsOffset      \* ts_offset

CONSTANTS       \* bounds of the model
  MaxGap,       \* samples the device may lose in a row
  MaxJumps,     \* times its clock jumps back
  LastTime      \* no packet ends after this time

ASSUME ReceiveAssumption ==
  /\ ReadLen \in Nat \ {0} /\ MaxPacket \in Nat \ {0} /\ TsOffset \in Nat
  /\ MaxGap \in Nat /\ MaxJumps \in Nat /\ LastTime \in Nat
  /\ TsOffset + ReadLen + MaxPacket + MaxGap <= BufLen

VARIABLES
  pc,             \* readSamples: "idle" outside, "loop", "exited" the process
  readTimestamp,  \* RadioInterface::m_read_timestamp
  prevTs,         \* prev_ts
  deviceTime,     \* timestamp of the device's next sample
  chunk,          \* the chunk given to the radio interface last
  received,       \* history: timestamps written and still to be read
  jumps           \* times the device's clock jumped

vars == <<bufferVars, pc, readTimestamp, prevTs, deviceTime, chunk, received, jumps>>

\* timestamp, shifted "with respect to transmit clock"
ReadTime == readTimestamp + TsOffset

\* start() ends with restart(0): the first sample comes some time later.
Init ==
  /\ BufferInit
  /\ pc = "idle" /\ readTimestamp = 0 /\ prevTs = 0
  /\ deviceTime \in 0 .. MaxGap
  /\ chunk = [k \in 0 .. ReadLen - 1 |-> Unset]
  /\ received = {} /\ jumps = 0

-----------------------------------------------------------------------------
(* The device, as far as readSamples sees it.                               *)

\* The loss that an overflow or another message without samples stands for.
Lost == {n \in 1 .. MaxGap : deviceTime + n <= timeEnd + MaxGap}

\* recv returns no samples, and no timeout: ERROR_UNHANDLED, try again.
EmptyPacket ==
  /\ pc = "loop" /\ Avail(ReadTime) < ReadLen
  /\ \E n \in Lost : deviceTime' = deviceTime + n
  /\ UNCHANGED <<bufferVars, pc, readTimestamp, prevTs, chunk, received, jumps>>

\* The device's time is set back, for whatever reason.
ClockJump ==
  /\ jumps < MaxJumps /\ jumps' = jumps + 1
  /\ deviceTime' \in 0 .. prevTs - 1
  /\ UNCHANGED <<bufferVars, pc, readTimestamp, prevTs, chunk, received>>

-----------------------------------------------------------------------------
\* pullBuffer calls; readSamples refuses a time that was read before.
ReadSamples ==
  /\ pc = "idle"
  /\ pc' = IF Avail(ReadTime) < 0 THEN "idle" ELSE "loop"
  /\ UNCHANGED <<bufferVars, readTimestamp, prevTs, deviceTime, chunk, received, jumps>>

\* Fault: the device starts again from zero.
RestartTimeZero == 0

RestartTime == prevTs

\* ERROR_TIMING: the packet is dropped and restart sets the device's time.
Restart ==
  /\ deviceTime < prevTs
  /\ deviceTime' \in {t \in RestartTime .. RestartTime + MaxGap : t <= timeEnd + MaxGap}
  /\ UNCHANGED <<bufferVars, pc, prevTs, received>>

\* The packet is written; only an overflow lets the loop go on after an error.
Accept(len) ==
  /\ deviceTime >= prevTs /\ deviceTime + len <= LastTime
  /\ prevTs' = deviceTime /\ deviceTime' = deviceTime + len
  /\ Write(len, deviceTime)
  /\ received' = IF WriteRefused(len, deviceTime) THEN received
                 ELSE received \cup {t \in deviceTime .. deviceTime + len - 1 : t >= ReadTime}
  /\ LET rc == WriteResult(len, deviceTime)
     IN  pc' = IF rc < 0 /\ rc # ErrorOverflow THEN "idle" ELSE "loop"

Packet ==
  /\ pc = "loop" /\ Avail(ReadTime) < ReadLen
  /\ Restart \/ \E len \in 1 .. MaxPacket : Accept(len)
  /\ UNCHANGED <<readTimestamp, chunk, jumps>>

\* A timeout or a packet without a timestamp ends the program.
Unrecoverable ==
  /\ pc = "loop" /\ Avail(ReadTime) < ReadLen
  /\ pc' = "exited"
  /\ UNCHANGED <<bufferVars, readTimestamp, prevTs, deviceTime, chunk, received, jumps>>

\* Fault: whatever is available will do.
EnoughAny == Avail(ReadTime) > 0

Enough == Avail(ReadTime) >= ReadLen

\* The loop ends; pullBuffer moves its timestamp by what it got.
FinishRead ==
  /\ pc = "loop" /\ Enough
  /\ Read(ReadLen, ReadTime)
  /\ chunk' = ReadOut(ReadLen, ReadTime)
  /\ readTimestamp' = readTimestamp + ReadLen
  /\ received' = {t \in received : t >= ReadTime + ReadLen}
  /\ pc' = "idle"
  /\ UNCHANGED <<prevTs, deviceTime, jumps>>

Next == \/ ReadSamples \/ Packet \/ FinishRead \/ Unrecoverable
        \/ EmptyPacket \/ ClockJump

Spec == Init /\ [][Next]_vars

\* The receive thread calls again and again, and the device sends packets.
FairSpec == Spec /\ WF_vars(ReadSamples) /\ WF_vars(Packet) /\ WF_vars(FinishRead)

-----------------------------------------------------------------------------
\* Types, and the window of time that the ring covers.
TypeOK ==
  /\ data \in [Cells -> Nat \cup {Unset}]
  /\ timeStart \in Nat /\ timeEnd \in Nat
  /\ dataStart \in Cells /\ dataEnd \in Cells
  /\ pc \in {"idle", "loop", "exited"}
  /\ readTimestamp \in Nat /\ prevTs \in Nat /\ deviceTime \in Nat
  /\ chunk \in [0 .. ReadLen - 1 -> Nat \cup {Unset}]
  /\ received \subseteq ReadTime .. timeEnd - 1
  /\ jumps \in 0 .. MaxJumps

\* The index of a sample is its timestamp's remainder, wherever the cursors
\* are: writes by timestamp and reads by index mean the same cell (smplbuf.cpp).
IndexIsTime == dataStart = timeStart % BufLen /\ dataEnd = timeEnd % BufLen

\* Every sample that was received and not yet read is still in the ring, and
\* under its own index: no write passes over it, however packets, losses and
\* restarts follow each other (smpl_buf::write, uhd_device::readSamples).
RingHoldsReceived ==
  \A t \in received : data[(dataStart + (t - timeStart)) % BufLen] = t

\* readSamples never asks for a time before the buffer's, which would be
\* refused for ever as pullBuffer repeats it, nor for one so far behind its
\* start that the unreduced index leaves the ring (smpl_buf::read).
ReadIsValid == timeStart <= ReadTime /\ ReadStart(ReadTime) < BufLen

\* The receive thread gets every chunk the device has samples for, also after
\* the device was restarted and repeats times that the buffer refuses
\* (uhd_device::restart): in the end nothing but an incomplete chunk is left.
ReadsGoOn == <>(pc = "exited" \/ ReadTime + ReadLen + MaxGap > LastTime)

\* The ring with its cursors implements a store that is looked up by
\* timestamp (SampleStore).
Store == INSTANCE SampleStore WITH next <- ReadTime, store <- received

ImplementsStore == Store!Spec
=============================================================================
