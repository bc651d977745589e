----------------------------- MODULE UhdTransmit -----------------------------
(***************************************************************************)
(* Underruns, from the device to the transmit loop.  The asynchronous event *)
(* thread of UHDDevice.cpp marks the transmitter as misaligned; the next    *)
(* writeSamples ends the burst on the air and reports an underrun, a fixed  *)
(* number of packets is dropped, and a new burst begins.  The report goes   *)
(* to RadioInterface::m_underrun, which the receive thread updates as well  *)
(* and isUnderrun reads and clears.  Neither variable has a lock, so an     *)
(* action is one access to one of them.                                     *)
(* A definition marked "Fault" is what a plausible mistake would make of    *)
(* the definition after it; no specification uses it.                       *)
(***************************************************************************)
EXTENDS Naturals

CONSTANT DropPackets   \* 30, the magic value of writeSamples

ASSUME DropAssumption == DropPackets \in Nat /\ DropPackets >= 2

VARIABLES
  aligned,   \* uhd_device::aligned
  dropCnt,   \* uhd_device::drop_cnt
  underrun,  \* RadioInterface::m_underrun
  tx,        \* transmit thread
  mark,      \* what writeSamples is about to send: a packet in the "middle"
             \* of a burst, one that ends it ("stop") or begins it ("start")
  pull,      \* receive thread: pc and the value of m_underrun it has loaded
  onAir,     \* the device is inside a burst
  gap,       \* packets dropped since the burst ended
  unserved,  \* an error has been handled and no burst begun since
  reported   \* writeSamples has reported an underrun, isUnderrun has not run

deviceVars == <<aligned, dropCnt, mark, onAir, gap, unserved>>
vars == <<deviceVars, underrun, tx, pull, reported>>

Init ==
  /\ aligned = FALSE /\ dropCnt = 0 /\ underrun = FALSE
  /\ tx = "ask" /\ mark = "middle"
  /\ pull = [pc |-> "read", value |-> FALSE]
  /\ onAir = FALSE /\ gap = 0 /\ unserved = FALSE /\ reported = FALSE

-----------------------------------------------------------------------------
(* The transmit thread: isUnderrun before a burst is pushed (the loop asks  *)
(* only for a device whose latency is adapted) ...                          *)

AskUnderrun ==
  /\ tx = "ask"
  /\ tx' = "clear" /\ reported' = FALSE
  /\ UNCHANGED <<deviceVars, underrun, pull>>

ClearUnderrun ==
  /\ tx = "clear"
  /\ underrun' = FALSE /\ tx' = "push"
  /\ UNCHANGED <<deviceVars, pull, reported>>

\* ... then pushBuffer, which may have too little to send (see RadioTransmit).
PushNothing ==
  /\ tx = "push" /\ tx' = "ask"
  /\ UNCHANGED <<deviceVars, underrun, pull, reported>>

\* writeSamples begins with "*underrun = false".
WriteSamples ==
  /\ tx = "push"
  /\ underrun' = FALSE /\ tx' = "check"
  /\ UNCHANGED <<deviceVars, pull, reported>>

WriteAligned ==
  /\ tx = "check" /\ aligned
  /\ mark' = "middle" /\ tx' = "send"
  /\ UNCHANGED <<aligned, dropCnt, onAir, gap, unserved, underrun, pull, reported>>

\* Fault: the packet that ends the burst is not counted.
CountAfterStopKept == dropCnt

CountAfterStop == dropCnt + 1

\* The first packet of a misaligned transmitter ends the burst.
WriteStop ==
  /\ tx = "check" /\ ~aligned /\ dropCnt = 0
  /\ dropCnt' = CountAfterStop
  /\ underrun' = TRUE /\ reported' = TRUE
  /\ mark' = "stop" /\ tx' = "send"
  /\ UNCHANGED <<aligned, onAir, gap, unserved, pull>>

\* Fault: the count is compared before it is raised.
StillDroppingLate == dropCnt <= DropPackets

StillDropping == dropCnt + 1 < DropPackets

WriteDrop ==
  /\ tx = "check" /\ ~aligned /\ dropCnt > 0 /\ StillDropping
  /\ dropCnt' = dropCnt + 1 /\ gap' = gap + 1
  /\ tx' = "ask"
  /\ UNCHANGED <<aligned, mark, onAir, unserved, underrun, pull, reported>>

\* Fault: the count is not reset, so the next resynchronisation is skipped.
CountAfterStartKept == dropCnt

CountAfterStart == 0

WriteStart ==
  /\ tx = "check" /\ ~aligned /\ dropCnt > 0 /\ ~StillDropping
  /\ mark' = "start" /\ tx' = "align"
  /\ UNCHANGED <<aligned, dropCnt, onAir, gap, unserved, underrun, pull, reported>>

\* The error that arrives between the test of the flag and this write is
\* overwritten.
SetAligned ==
  /\ tx = "align"
  /\ aligned' = TRUE /\ dropCnt' = CountAfterStart /\ tx' = "send"
  /\ UNCHANGED <<mark, onAir, gap, unserved, underrun, pull, reported>>

\* tx_stream->send: all samples, or the program exits.
Send ==
  /\ tx = "send"
  /\ onAir' = (mark # "stop")
  /\ gap' = IF mark = "middle" THEN gap ELSE 0
  /\ unserved' = IF mark = "start" THEN FALSE ELSE unserved
  /\ tx' = "ask"
  /\ UNCHANGED <<aligned, dropCnt, mark, underrun, pull, reported>>

TxNext == AskUnderrun \/ ClearUnderrun \/ PushNothing \/ WriteSamples
          \/ WriteAligned \/ WriteStop \/ WriteDrop \/ WriteStart \/ SetAligned \/ Send

-----------------------------------------------------------------------------
\* pullBuffer: "m_underrun |= local_underrun" with the FALSE that readSamples
\* of this device always gives is a load and a store.
RxLoad ==
  /\ pull.pc = "read"
  /\ pull' = [pc |-> "store", value |-> underrun]
  /\ UNCHANGED <<deviceVars, underrun, tx, reported>>

RxStore ==
  /\ pull.pc = "store"
  /\ underrun' = pull.value
  /\ pull' = [pc |-> "read", value |-> FALSE]
  /\ UNCHANGED <<deviceVars, tx, reported>>

\* Fault: the error is logged, the flag is left alone.
MisalignNever == aligned

Misalign == FALSE

\* recv_async_msg with any event but a burst's acknowledgement, and restart,
\* which the receive thread calls when the device's time went back.
ErrorEvent ==
  /\ aligned' = Misalign
  /\ unserved' = TRUE
  /\ UNCHANGED <<dropCnt, mark, onAir, gap, underrun, tx, pull, reported>>

Next == TxNext \/ RxLoad \/ RxStore \/ ErrorEvent

Spec == Init /\ [][Next]_vars

-----------------------------------------------------------------------------
\* Types.
TypeOK ==
  /\ aligned \in BOOLEAN /\ dropCnt \in 0 .. DropPackets - 1 /\ underrun \in BOOLEAN
  /\ tx \in {"ask", "clear", "push", "check", "align", "send"}
  /\ mark \in {"middle", "stop", "start"}
  /\ pull \in [pc : {"read", "store"}, value : BOOLEAN]
  /\ onAir \in BOOLEAN /\ gap \in Nat /\ unserved \in BOOLEAN /\ reported \in BOOLEAN

\* The device sees whole bursts: samples in the middle of a burst only while
\* one is on the air, and a beginning only while none is, whenever errors
\* arrive (writeSamples, recv_async_msg).
BurstsAreWhole ==
  tx = "send" => /\ mark = "middle" => onAir
                 /\ mark = "start" => ~onAir

\* "Drop a fixed number of packets (magic value)": errors that arrive in the
\* gap neither shorten nor lengthen it (writeSamples).
GapIsFixed == tx = "send" /\ mark = "start" => gap = DropPackets - 2

\* "Assume that any error requires resynchronization" (recv_async_msg): after
\* an error no packet is sent in the middle of a burst before a new burst has
\* begun, not even when the error was overwritten by SetAligned.
ErrorResynchronizes == [][WriteAligned => ~unserved]_vars

\* isUnderrun is to "check for underrun" (radioInterface.h) and the latency
\* is adapted "when underruns are reported" (README): what writeSamples has
\* reported is what the next isUnderrun returns.
UnderrunIsSeen == [][AskUnderrun /\ reported => underrun]_vars
=============================================================================
