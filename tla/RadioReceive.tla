---------------------------- MODULE RadioReceive ----------------------------
(***************************************************************************)
(* The receive side of radioInterface.cpp and radioInterfaceResamp.cpp,     *)
(* with the receive loop of Transceiver.cpp on top: the receive thread cuts *)
(* the sample stream of the device into bursts of two lengths and moves the *)
(* radio clock by one timeslot for each.  Samples are counted, never looked *)
(* at.  The clock has a lock and only this thread writes it.                *)
(* A definition marked "Fault" is what a plausible mistake would make of    *)
(* the definition after it; no specification uses it.                       *)
(***************************************************************************)
EXTENDS GsmTime, RadioKind, Sequences

CONSTANTS
  ReceiveOffset,  \* m_receive_offset, in timeslots
  FifoLimit       \* the receive loop stops reading above this: 8

ASSUME ReceiveAssumption ==
  /\ GMaxTimeslots = SlotsPerFrame
  /\ ReceiveOffset \in Timeslots /\ FifoLimit \in Nat

VARIABLES
  clock,       \* m_clock
  recvCursor,  \* m_recv_cursor: samples in m_recv_buffer
  readPos,     \* m_read_timestamp, modulo a frame of samples
  fifo,        \* m_receive_fifo: the time of each burst, and "at", the
               \* position modulo a frame of its first sample in the stream
  rx           \* receive thread: pc and the locals rcvClock and readSz

receiveVars == <<type, sps, clock, recvCursor, readPos, fifo, rx>>

ReceiveInit ==
  /\ type \in RadioTypes /\ sps \in TxOversampling
  /\ \E fn \in Frames : clock = Time(fn, 0)
  /\ recvCursor = 0 /\ readPos = 0 /\ fifo = << >>
  /\ rx = [pc |-> "drive", rcvClock |-> clock, readSz |-> 0]

-----------------------------------------------------------------------------
\* Fault: the timestamp moves on although no samples were stored.
ReadPosAfterBlind(received) == (readPos + Chunk(type)) % FrameSymbols

ReadPosAfter(received) == (readPos + received) % FrameSymbols

\* Fault: the limit of the FIFO is not tested.
FifoFullNever == FALSE

FifoFull == Len(fifo) > FifoLimit

\* Fault: the loop starts over and takes no burst either.
RxFullStays ==
  /\ rx.pc = "drive" /\ FifoFull
  /\ UNCHANGED receiveVars

\* The FIFO is full: nothing is read, and the radio clock stands still.
RxFull ==
  /\ rx.pc = "drive" /\ FifoFull
  /\ rx' = [rx EXCEPT !.pc = "get"]
  /\ UNCHANGED <<type, sps, clock, recvCursor, readPos, fifo>>

RoomForChunk == recvCursor <= RecvSize(type, sps) - Chunk(type)

\* pullBuffer: a chunk is stored behind the samples that wait, unless there
\* is no room for it, or the device returns another count: then the same
\* samples are asked for again later.
Pull(received) ==
  /\ rx.pc = "drive" /\ ~FifoFull
  /\ recvCursor' = recvCursor + received
  /\ readPos' = ReadPosAfter(received)
  /\ rx' = [pc |-> "form", rcvClock |-> DecTN(clock, ReceiveOffset), readSz |-> 0]
  /\ UNCHANGED <<type, sps, clock, fifo>>

RxPull == RoomForChunk /\ Pull(Chunk(type))

RxPullNothing == Pull(0)

\* Fault: the length of a burst is taken from the radio clock's timeslot.
FormLengthOfClock == SlotSymbols(clock.tn)

FormLength == SlotSymbols(rx.rcvClock.tn)

\* One pass of the loop: a burst goes to the FIFO and the clock moves on.
RxForm ==
  /\ rx.pc = "form" /\ recvCursor - rx.readSz > FormLength
  /\ fifo' = Append(fifo, [time |-> rx.rcvClock,
                           at |-> (readPos - recvCursor + rx.readSz) % FrameSymbols])
  /\ clock' = IncTN(clock, 1)
  /\ rx' = [rx EXCEPT !.rcvClock = IncTN(@, 1), !.readSz = @ + FormLength]
  /\ UNCHANGED <<type, sps, recvCursor, readPos>>

\* Fault: the samples are moved, the cursor is not.
LeftAfterFormingStays == recvCursor

LeftAfterForming == recvCursor - rx.readSz

\* The samples that are left move to the start of the buffer.
RxShift ==
  /\ rx.pc = "form" /\ recvCursor - rx.readSz <= FormLength
  /\ recvCursor' = LeftAfterForming
  /\ rx' = [rx EXCEPT !.pc = "get", !.readSz = 0]
  /\ UNCHANGED <<type, sps, clock, readPos, fifo>>

\* pullRadioVector takes one burst, if there is one.
RxGet ==
  /\ rx.pc = "get"
  /\ fifo' = IF fifo = << >> THEN fifo ELSE Tail(fifo)
  /\ rx' = [rx EXCEPT !.pc = "drive"]
  /\ UNCHANGED <<type, sps, clock, recvCursor, readPos>>

ReceiveNext == RxFull \/ RxPull \/ RxPullNothing \/ RxForm \/ RxShift \/ RxGet

ReceiveSpec == ReceiveInit /\ [][ReceiveNext]_receiveVars

\* The receive thread runs, and not every read fails for ever.
ReceiveFairness == WF_receiveVars(ReceiveNext) /\ SF_receiveVars(RxPull)

ReceiveFairSpec == ReceiveSpec /\ ReceiveFairness

-----------------------------------------------------------------------------
\* The timeslot that the first sample of the stream belongs to.
FirstSlot == (0 - ReceiveOffset) % GMaxTimeslots

\* Position, relative to the first sample, of the start of a timeslot.
StreamStart(tn) == (SlotStart(tn % GMaxTimeslots) - SlotStart(FirstSlot)) % FrameSymbols

\* Types: the radio clock stays a time of the standard, while the times of
\* bursts may leave it.
ReceiveTypeOK ==
  /\ type \in RadioTypes /\ sps \in TxOversampling
  /\ clock \in Times /\ recvCursor \in Nat
  /\ readPos \in 0 .. FrameSymbols - 1
  /\ fifo \in Seq([time : RawTimes, at : 0 .. FrameSymbols - 1])
  /\ rx \in [pc : {"drive", "form", "get"}, rcvClock : RawTimes, readSz : Nat]

\* A burst holds exactly the samples of its timeslot for as long as the
\* radio runs: the stream is cut at slot boundaries, no sample is skipped or
\* used twice, whichever reads fail (driveReceiveRadio, pullBuffer).
SamplesMatchSlot ==
  \A i \in 1 .. Len(fifo) : fifo[i].at = StreamStart(fifo[i].time.tn)

\* "It operates the basestation clock based upon the sample count of
\* received USRP samples" (README): the samples that are not cut yet begin
\* with the slot that lies ReceiveOffset before the radio clock.
ClockFollowsSamples ==
  (readPos - recvCursor + rx.readSz) % FrameSymbols = StreamStart(clock.tn - ReceiveOffset)

\* The receive buffer never overflows, and what a pull leaves behind is
\* less than the next burst needs (pullBuffer, driveReceiveRadio).
RecvBufferFits ==
  /\ recvCursor <= RecvSize(type, sps)
  /\ rx.pc # "form" => recvCursor <= SymbolsPerSlot + 1

\* The receive FIFO is bounded: by its limit and the bursts of one pull.
FifoBounded == Len(fifo) <= FifoLimit + (Chunk(type) + SymbolsPerSlot + 1) \div SymbolsPerSlot

\* A received burst is in one of the eight timeslots: "The mHandoverActive
\* array holds eight booleans" (Transceiver.cpp, expectedCorrType, which
\* indexes that array with this timeslot).
RxTimeslotInRange == \A i \in 1 .. Len(fifo) : fifo[i].time.tn \in Timeslots

\* Reception never stops: neither a full FIFO nor a full buffer is final
\* (driveReceiveRadio, pullBuffer, pullRadioVector).
ClockGoesOn == \A tn \in Timeslots : clock.tn = tn ~> clock.tn # tn
=============================================================================
