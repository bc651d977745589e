----------------------------- MODULE RadioFormat -----------------------------
(***************************************************************************)
(* Sizes of the radio interface, in samples: the bursts of a frame in "the  *)
(* 157-156-156-156 symbols per timeslot format", and the buffers that       *)
(* RadioInterface::init and RadioInterfaceResamp::init allocate.            *)
(***************************************************************************)
EXTENDS Integers

SlotsPerFrame == 8
SymbolsPerSlot == 156    \* gSlotLen + 8

SlotSymbols(tn) == SymbolsPerSlot + IF tn % 4 = 0 THEN 1 ELSE 0

\* The symbols of a frame before slot tn, and of a whole frame.
SlotStart(tn) == tn * SymbolsPerSlot + (tn + 3) \div 4
FrameSymbols == SlotStart(SlotsPerFrame)

\* What a device asks for, and the samples per symbol it transmits with:
\* "Other values are invalid" (runTransceiver.cpp).
RadioTypes == {"NORMAL", "RESAMP_64M", "RESAMP_100M"}
TxOversampling == {1, 4}

InRate(type) == IF type = "RESAMP_64M" THEN 65 ELSE 52
OutRate(type) == IF type = "RESAMP_64M" THEN 96 ELSE 75

\* CHUNK, or resamp_inchunk and resamp_outchunk.
Chunk(type) == IF type = "NORMAL" THEN 625 ELSE 4 * InRate(type)
ChunkOut(type) == IF type = "NORMAL" THEN 625 ELSE 4 * OutRate(type)

\* m_recv_buffer and m_send_buffer.
RecvSize(type, sps) ==
  IF type = "NORMAL" THEN 4 * Chunk(type) ELSE (24 * Chunk(type)) \div sps

SendSize(type, sps) ==
  IF type = "NORMAL" THEN sps * Chunk(type) ELSE 24 * Chunk(type)

\* MAX_OUTPUT_LEN of the resampler.
MaxOutputLen == 4096
=============================================================================
