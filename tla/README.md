# A TLA+ model of the OpenBTS transceiver (transceiver52M)

The transceiver sits between the GSM core (three UDP sockets: clock, control,
data) and a radio.  It keeps the GSM frame clock, turns bursts of the core into
samples that leave the radio in their own timeslot, puts filler where the core
sent nothing, and turns received samples into bursts for the core.

This directory models its control: threads, shared variables, queues, clocks
and buffers; and of its signal processing where the samples go: which tap of a
filter meets which sample, where the symbols of a burst lie, what a block boundary
does.  The values of samples are left out: a sample is the name of its place.

- [Inventory](#inventory) of the program
- [Modules](#modules) and how they correspond to the code
- [Runs](#runs), their bounds and what they show
- [Fairness](#fairness)
- [Proofs](#proofs)
- [Disagreements](#disagreements-found-while-modelling) between code and comments
- [What is not modelled](#what-is-not-modelled)
- [Plan](#plan)

## Inventory

What runs: the main thread builds a `RadioDevice` (UHD), a `RadioInterface` or
`RadioInterfaceResamp`, and a `Transceiver`, then sleeps until a signal.
`Transceiver::start` starts the control thread.  POWERON starts the radio (and
with it the device's event thread) and the three service threads: receive,
transmit, priority queue.  The only locks are inside the transmit priority
queue and the radio clock; every other shared variable is accessed without one.

| Component | State | Operations | Hard because |
|---|---|---|---|
| `GsmTime` | frame number (`uint32_t`), timeslot (`uint8_t`) | increments, sums, differences, comparisons | cyclic order, unsigned fields, no atomicity |
| Transceiver, transmit | deadline clock, latency, last updates, priority queue, filler table, channel types, moduli | `driveTransmitFIFO`, `pushRadioVector`, `setFiller`, `writeClockInterface`, `driveTransmitPriorityQueue` | three threads without locks; ownership of bursts; stale arrivals; latency adaptation |
| Transceiver, control | frequencies, power, TSC, handover flags, `mOn` | `driveControl`, one command per packet | early returns, replies, commands that race with service threads |
| Transceiver, receive | channel estimates, noise, receive FIFO | `driveReceiveFIFO`, `pullRadioVector`, `expectedCorrType` | burst times index arrays; FIFO limit |
| `RadioInterface` | receive/send buffer cursors, timestamps, radio clock, underrun flag | `driveReceiveRadio`, `pullBuffer`, `driveTransmitRadio`, `pushBuffer` | sample accounting with bursts of two sizes, short reads, unlocked underrun flag |
| `RadioInterfaceResamp` | the same, plus chunked inner/outer buffers | `pullBuffer`, `pushBuffer` | chunk rounding |
| `RadioClock` | clock value, mutex, signal | `set`, `incTN`, `get`, `wait` | wait with timeout |
| `smpl_buf` | ring of samples with start/end timestamps | `write`, `read`, `avail_smpls` | wrap-around, overflow, gaps |
| `uhd_device` | aligned flag, drop count, previous timestamp | `readSamples`, `writeSamples`, `recv_async_msg`, `restart` | event thread races the writer; errors and restarts |
| `DummyLoad` | simulated time, underrun flag | `readSamples`, `writeSamples` | timing rules; nothing creates one |
| Filters (`convolve.c`, `convolve` and `delayVector` of `sigProcLib`) | none | kernels for 4 to 20 taps and for any multiple of 4, plain loops, padding | several kernels for one result; reads before the input |
| Bursts (`sigProcLib`) | tables of pulses and rotations | modulators, demodulator, detectors | positions in samples against positions in symbols |
| `Resampler` | history, partitions | `rotate` | boundaries of blocks |
| `convert.c` | none | to and from short integers | SSE blocks and remainders |
| `BitVector`, `Generator` | bits, shift register | fields, packing, puncturing, parity | bit orders, bytes that are not full |
| `Vector` | block, owner or alias | copies, shifts, assignments | who deletes the block |
| Interthread containers | queue, lock, signal | `read`, `write`, `iqConnect`, ... | shared locks, waiting |
| Locks and threads | owner, counts | `ScopedLockMultiple`, `Signal`, `Thread::start` | back-off, lost signals |
| `PointerFIFO` | list, tail, free list | `put`, `get`, `push_front` | node reuse |
| `Timeval` | seconds, microseconds | `future`, `passed`, `remaining` | normalisation |
| Program | the objects and their threads | start, shutdown | order of destruction |

How they interact:

- core -> priority queue thread -> `mTransmitPriorityQueue` or `fillerTable`
  -> transmit thread -> `RadioInterface` -> device;
- device -> receive thread -> receive FIFO -> core, and each received slot
  moves the radio clock, which is what lets the transmit loop go on;
- core -> control thread -> channel types, moduli, gains, power: read by both
  service threads;
- the deadline clock is announced to the core by the priority queue thread and
  by the control thread while the transmit thread increments it;
- an underrun is reported by device calls of both the receive and the transmit
  thread in one flag that the transmit thread reads and clears.

What makes each part correct: times compare like the real time they stand for;
every burst has one owner and is freed once; bursts leave in their slot or are
dropped late, never early, never twice; slots are pushed in order and only
within the latency window; filler entries exist when they are used; samples
are neither skipped nor repeated between radio and bursts; queues and buffers
keep their bounds; each command has one reply; what is queued is eventually
handled.

## Modules

| Module | Models | Role |
|---|---|---|
| `GsmTime` | `gsmtime.h`, `gsmtime.cpp` | operators, with the width of each field |
| `GsmTimeWalk` | two clocks moved by these operators next to the integer distance they stand for | reference check of the arithmetic |
| `TransmitPath` | transmit, priority queue and control thread, with the receive thread as the ticking radio clock | the core component |
| `TransmitSchedule` | what the transmit path promises | abstract specification |
| `ReceivePath` | `driveControl`, `expectedCorrType`, the transceiver's `pullRadioVector`, `noiseVector::insert` | control and receive thread |
| `RadioFormat` | burst lengths, chunk and buffer sizes of the three radio types | operators |
| `RadioKind` | the radio type and the samples per symbol | the variables the two directions share |
| `RadioReceive` | `driveReceiveRadio`, `pullBuffer`, `pullRadioVector`, the receive loop | receive thread |
| `RadioSend` | `driveTransmitRadio`, `pushBuffer` | the send buffer |
| `UhdTransmit` | `writeSamples`, `recv_async_msg`, `restart`, `isUnderrun` | device and underrun flag |
| `RadioTransmit` | `RadioSend` on top of `UhdTransmit` | composition: one call chain of the transmit thread |
| `SampleBuffer` | `smpl_buf`: the ring with its cursors | operators on the ring's variables |
| `UhdReceive` | `readSamples`, `restart`, the device's packets | receive side of the device, on top of `SampleBuffer` |
| `SampleStore` | what the receive side promises the radio interface | abstract specification |
| `Convolve` | `convolve.c`: the SSE kernels, the plain loops, the choice between them | operators |
| `SignalFilter` | `convolve` and `delayVector` of `sigProcLib.cpp` | the filters as the library uses them, on top of `Convolve` |
| `BurstModem` | `modulateBurst`, `demodulateBurst`, `detectRACHBurst`, `analyzeTrafficBurst` | positions of symbols, correlations and peaks |
| `Resampler` | `Resampler.cpp` | the stream of blocks, on top of `Convolve` |
| `Convert` | `convert.c` | sample conversion |
| `BitCodes` | `BitVector.cpp`, `Generator` and `Parity` | bit vectors and back |
| `VectorMemory` | `Vector.h`, `BitVector.h` | ownership of memory |
| `PointerFifo` | `LinkedLists.cpp`, `VectorFIFO` | list, tail and free list |
| `Fifo` | what `PointerFIFO` promises | abstract specification |
| `Interthread` | `Interthread.h`, `Signal`, the deadlines of `Timeval` | queues, map and semaphore between threads |
| `ScopedLocks` | `ScopedLockMultiple` | three mutexes by try and back-off |
| `GsmTimeProofs`, `TransmitPathProofs`, `RadioProofs`, `UhdReceiveProofs`, `ReceivePathProofs`, `LibraryProofs`, `SignalProofs`, `CodeProofs` | | theorems for all constants |
| `MCRadio` | `RadioReceive` and `RadioTransmit` side by side | one run for both halves: the initial state chooses the half that runs, the other rests |
| `MCLibrary` | the library modules | one run for the libraries: the initial state chooses one of them, which then runs alone |
| other `MC*` | | instances for TLC |

In every module a definition whose comment begins with "Fault" is what a
plausible mistake would make of the definition after it.  No specification uses
it; put in place of that definition it makes a property fail, which shows that
the property depends on the code it is about.

### GsmTime

The literals 8 and 7 of the code are `GMaxTimeslots`, 2715648 is `GMaxFrames`;
`TNWord` and `FNWord` are the numbers of values the two fields hold (2^8 and
2^32).  `DecTN` and `SubFrames` are what the unsigned fields make of the code:
their tests `< 0` never hold, so there is no borrow.

`GsmTimeWalk` keeps the true distance of two clocks as a plain integer and moves
the clocks by every operation.  Comparisons and `FNDelta` must then agree with
that integer wherever the hyperframe wraps, within `Window` timeslots (less
than half a hyperframe, beyond which a cyclic order means nothing).

### TransmitPath

One action is one access to shared state, because there are no locks.  The
variables carry the names of the comment next to their declaration.

| Thread | Code | Actions |
|---|---|---|
| tx | `driveTransmitFIFO` loop | `TxDue`, `TxAdaptLatency`, `TxSend`, `TxWrap`, `TxCarry` |
| tx | `pushRadioVector` | `TxDumpStale`, `TxNoStale`, `TxTakeCurrent`, `TxCombine`, `TxNoCurrent`, `TxCopyFiller`, `TxSend` |
| tx, pq | `setFiller` | `BeginSetFiller`/`CallOn`, `DeleteOldFiller`, `StoreNewFiller` |
| pq | `driveTransmitPriorityQueue` and its loop | `PqMalformed`, `PqReceive`, `PqStore`, `PqStored` |
| pq, ctl | `writeClockInterface` | `FormatIndication`, `SendIndication` |
| ctl | `driveControl`: POWERON, SETSLOT, any other command | `CtlCommand`, `CtlOtherCommand`, `CtlStartThreads`, `CtlTurnOn`, `CtlSetType`, `CtlSetModulus` |
| receive | `m_clock.incTN`, `m_underrun \|= ...` | `Tick`, `ReportUnderrun` |

Points a reader may stumble over:

- *The torn deadline.*  At the end of a frame `incTN` (`gsmtime.h:93`) stores the
  timeslot 8 in `mTransmitDeadlineClock`, then subtracts 8, then stores the frame.  The
  two threads that read the clock may see (frame, 8) or (frame, 0), and, as an optimised
  build may leave out the first store and exchange the other two, also (next frame, 7).
  `TxSend` stores one of these `HalfAdvanced` values, `TxWrap` and `TxCarry` complete the
  write.  What `writeClockInterface` copies meanwhile into `lastUpdate` stays there, so
  both clocks are `HalfTimes`: a time, or the timeslot behind the last one.  `DueSlot` is
  the slot meant meanwhile.
- *Heap and owners.*  `heap[b]` is the time of burst object `b`, or `Freed` if the name
  stands for no burst.  What is given to the filler table is known by its entry from then
  on, and its name is free again.  The entry is "set", or "deleted" between `delete` and
  the assignment.  So `BurstOwnership` has two parts: `HeldOnce` (outside the table every
  burst has one owner and nobody owns a deleted one) and `TableOwnership` (an entry is
  deleted while it is set, and stored while it is not, so none is deleted twice and none
  is leaked).  The second part fails when two threads are in `setFiller` for the same
  entry, which filler frames from the core bring about (`transmit_filler_race`); it is
  checked and proved without them.
- *The queue* is a set; `Top` are the bursts a `priority_queue` ordered by
  `operator>` may have at its head (ties are open).
- *The underrun flag* is read and written by two threads without a lock; either
  may undo the other's write, so every report leaves either value.
- *mix* remembers bursts added into the vector under construction, for the
  refinement only: they are freed in `TxCombine`, yet are on the air only when
  `TxSend` happens.  `PqStore` does not reuse their names until then; objects of
  the same slot have distinct names.

`TransmitSchedule` knows only the slot to be served and the booked bursts.  It
books, retires (only when late) and transmits (only in the own slot, all slots
in order).  `TransmitPath` implements it under the mapping in `Schedule`.

### ReceivePath

| Thread | Code | Actions |
|---|---|---|
| ctl | `driveControl` reads a packet | `CtlRead` |
| ctl | its branches | `CtlPowerOff`, `CtlPowerOn` and `CtlTurnOn`, `CtlMaxDelay`, `CtlTune` (SETRXGAIN, RXTUNE, TXTUNE), `CtlNoiseLevel`, `CtlPower` (SETPOWER, ADJPOWER), `CtlSetTsc`, `CtlHandover` (both), `CtlSetSlot`, `CtlNothing` |
| ctl | `generateMidamble` replaces the sequence | `CtlSetTsc` (delete), `CtlGenerate` (store) |
| ctl | the response is sent | `CtlRespond` |
| receive | `driveReceiveFIFO`, `pullRadioVector` take a burst | `RxTake` |
| receive | `expectedCorrType` | `RxReadHandover`, `RxReadType` |
| receive | the rest of `pullRadioVector` | `RxReadSettings`, `RxCorrelate`, `RxCrash` (a missing sequence is dereferenced), `RxReport` |

- *Burst times that are no timeslots* (`radio_slot`, below) index
  `mHandoverActive` and `mChanType` outside the arrays.  `BadSlot` stands for them,
  and a read with it may give any value.  The properties that relate a burst to the
  settings of its slot are about real timeslots.
- *Uninitialised*: `mTSC` has no value until SETTSC, so `Init` gives it any code.
  If that code has a sequence, none was generated, and the correlator dereferences
  a null pointer: `RxCrash`.  `SequenceInPlace` says that this ends with the first
  answer to SETTSC.
- *Results*: `Results` are the signs that the two detectors return.  The noise level
  is the average of the ring; the model keeps the ring it was taken of.
- *Left out*: channel estimates and the equaliser (`needDFE` is the constant
  false), and the clock indication of each command, which is in `TransmitPath`.
- `acked`, `asked` and `recent` are histories and steer nothing: what the core was told;
  the setting of the slot of the burst that is being classified, as it was when the burst
  was taken and as it is now, with the number of its changes in between; and the last
  noises.  `CorrelatedAsAsked` is about the command that comes between the two reads of
  `expectedCorrType`: with one change the burst must be correlated as before or as
  after it, never by a mixture.

### RadioReceive

Samples are counted and never looked at.  `clock` is the radio clock, which the
receive thread alone writes and which has a lock, so a call of it is one step.
`readPos` is the device timestamp modulo a frame of 1250 symbols; the position of
a burst in the stream is kept with it in the FIFO (`at`), so that a property can
compare it with the place where its timeslot begins.

| Code | Actions |
|---|---|
| the loop of `driveReceiveFIFO`: read the radio unless the FIFO holds more than 8, then take one burst | `RxFull`, `RxGet` |
| `pullBuffer` of both interfaces: a chunk arrives, or the device returns another count and nothing changes | `RxPull`, `RxPullNothing` |
| the loop of `driveReceiveRadio`: cut one burst, advance both clocks | `RxForm` |
| what is left moves to the start of the buffer | `RxShift` |

- *Offset.*  The burst clock is the radio clock moved back by
  `m_receive_offset` (3) timeslots with `DecTN`, so sample 0 of the stream belongs
  to timeslot 5.  Since the field is unsigned its value may be 253 to 255; these
  agree with 5 to 7 modulo 8 and modulo 4, which is why the burst lengths are right
  even when the timeslot is not.
- *Sizes* are the real ones: chunks of 625 samples, or 260 and 208 behind the
  resampler, buffers of 2500 samples and of 24 chunks over the samples per symbol.
- `RoomForChunk` is the test of `pullBuffer` that the buffer has room.  It is always
  true (`RecvBufferFits`), so its branch is never taken.

### RadioSend, UhdTransmit, RadioTransmit

`RadioSend` lays bursts of consecutive timeslots into the send buffer and takes
whole chunks (or, without a resampler, everything once there is a chunk) out of
it.  `UhdTransmit` is one access to `aligned` or `m_underrun` per action: the event
thread writes the first, the receive thread loads and stores the second
(`m_underrun |= local_underrun`), neither under a lock.  `RadioTransmit` joins their
steps where the code's calls join them:

| Code | Action | Parts |
|---|---|---|
| `isUnderrun` | `Ask` | `AskUnderrun`, then `ClearUnderrun` |
| `driveTransmitRadio` copies the burst | `PushBurst` | `Air!AppendBurst` |
| `pushBuffer` has less than a chunk | `PushTooLittle` | `PushNothing` and `Air!PushBuffer` |
| `pushBuffer` calls `writeSamples` | `BeginBlock`, `Align` | `WriteSamples`; `WriteAligned`, `WriteStop`, `WriteStart`, `SetAligned` |
| the block is sent | `SendBlock` | `Send` and `Air!PushBuffer` |
| the block is dropped, with its full length as the result | `DropBlock` | `WriteDrop` and `Air!PushBuffer` |

- `isUnderrun` is asked in every iteration only for a device whose latency is
  adapted; the model asks always, which is the order the flag's property is about.
- `m_radio_on` is set before the threads start, so its tests are left out.
- `gap`, `unserved`, `reported` and `writePos` remember what happened and steer nothing.

### SampleBuffer, UhdReceive, SampleStore

A sample is named by the timestamp it was written with, so that a property can
say of any cell which sample it should hold.  The cursors and times are the
code's own; only the width of timestamps is dropped, because the ring's length
divides 2^64 and an index is the same with either difference.

| Code | Actions |
|---|---|
| `pullBuffer` calls `readSamples`, which refuses a time already read | `ReadSamples` |
| one iteration of its loop: `recv`, the test of the timestamp, `write` | `Packet`: `Restart` (time runs backwards, the packet is dropped) or `Accept` |
| `recv` returns no samples after an overflow or another message | `EmptyPacket` |
| a timeout or a packet without a timestamp: the process exits | `Unrecoverable` |
| the loop ends, `smpl_buf::read`, `m_read_timestamp` moves | `FinishRead` |
| the device's clock goes back (outside this program) | `ClockJump` |

- `ReceiveAssumption` says that the offset, one chunk, one packet and the longest
  gap of lost samples fit in the ring.  The ring holds 2^20 samples, so the
  assumption is about a gap of some second; the code does not test for a longer
  one, which would let a write pass over samples not yet read.
- `avail_smpls` counts time, not samples: in a gap a chunk holds what the ring held
  before.  `SampleStore` therefore promises the samples that were received and
  nothing of the others.
- `received` remembers what was written and not yet read, and steers nothing.

### Convolve, SignalFilter, Resampler

A convolution is linear in its filter and in its input, so it is known for all data
once it is known for one tap at a time.  The input's floats are named by their
places (or are one impulse), the filter is a unit tap, and the output then says
which sample each tap meets.  A read outside an array yields `Garbage`, a value
that no output of a right filter contains.

`Convolve` has the kernels as the code has them: quads of lanes, shuffles into real
and imaginary parts, horizontal sums (`RealTaps`, `ComplexTaps`), and the dispatch by
filter length and step.  The intrinsics are external operators.  `SignalFilter` adds
the padding of each span type, and the shift of `delayVector`.  Its actions:
`Convolving`, `Delaying`, and `Answered` when the caller has the result.  `FilterUses` takes
each kernel of `convolve.c` at its own length (4 to 24 taps, and the 20 of the sinc
through `delayVector`), the span types, real and complex taps, an output of the
caller's, a step over symbols, and a span that leaves the input on both sides.

`Resampler`: `Make` is the constructor and `init`, `Rotate` one call of `rotate` on the
next block of the stream, `Release` the destructor.  The reference is one filter over
the whole stream, so history, partitions, paths and blocks of different lengths have
to fit each other.

### BurstModem

| Code | Actions |
|---|---|
| `modulateBurst` | `Modulating` |
| `demodulateBurst`, `energyDetect` | `Demodulating` |
| `detectRACHBurst`, `analyzeTrafficBurst` with `detectBurst`, `computePeakRatio`, `interpolatePoint` | `Detecting` |

Every place at which a peak can be found, and a missing peak, are inputs; so are the
outcome of the ratio test and the part of a sample by which `peakDetect` moves the
peak.  `DelayIsMeasured` puts the peak where a burst that is late by some samples
has it (`PeakPlace`) and asks for that delay in return, to within a sample.

### Convert, BitCodes

A float of `Convert` is a number of quarters, so that the rounding of the SSE
kernels and the truncation of the loops differ; a short has 64 values in place of 2^16,
so that clipping happens.  What the plain loop makes of a value that fits no short is
not looked at.

The actions of `BitCodes` write a value, vector or code word and read it back:
`Fielding`, `Packing`, `Hexing`, `Reversing`, `Inverting`, `Mapping`, `Puncturing`, and
`Protecting` with at most one wrong bit.  A generator is given by its coefficients below the
highest; a wrong bit shows if the lowest of them is set (a generator without it forgets what
is shifted out, and `CodesInvert` says nothing of its wrong bits).  Numbers are built from `Accumulated` bits and `Pow2`, recursive functions in
place of the shifts; `Through` is the loop over the bits of a word.

### VectorMemory

One action per constructor, assignment and destructor.  `Vector(Vector &)` and the
assignment from a `Vector &` shift ownership (`CopyShift`, `shiftMem`), from a
`const Vector &` they copy (`CopyClone`); a `BitVector` copies an owner and aliases
an alias (`CopyOrAlias`).  Freed addresses return.  That no alias is used after its
block's owner is left to the caller by the code, and is `Readable` in the model.

### PointerFifo, Fifo

The list with the real links: a node from the free list still has its old link, and
`put`, `push_front` and `get` must set head, tail and links in the right order.  It
implements `Fifo` with `Represented`: the values along the list (`Contents`), as long as
every node is in one list (`NodesInOneList`).  A list is given by its nodes in their order
(`NodeLists`) and what their links must be (`Linked`), not by a walk along the links, so
that it can be reasoned about.

### Interthread

What a method does under the lock is one step; waiting, and the signal sent after
the lock was released, are steps of their own.  A call has an `op`, a place (`runs`,
`asleep`, `signal`, `spins`) and, if it is timed, a deadline that `Expire` passes.

| Code | Actions |
|---|---|
| `read`, `readNoBlock` of the queues | `ReadItem`, then `Succeed`, `Sleep` or `GiveUp` |
| `write`, `write_front` | `Write`, then `SendSignal` |
| `iqWaitForEither` of connected queues | `iqWaitForEither`, then `Succeed` or `Sleep`, or `Spin` past its deadline |
| `wait` for the low water mark | `WaitLowWater` |
| `InterthreadMap`: `get`, `read`, `getNoBlock`, `write` | `GetKey`, `WriteKey` |
| `Semaphore`: `get`, `semtry`, `post` | `GetFlag`, `Post` |
| `clear`, `flushNoDelete` | `Clear` |
| a wait that returns without a signal, or because its deadline is not normalised | `WakeSpuriously` |

- Connected queues have one waiting thread, as their comment says
  (`Interthread.h:118`); with two the single signal can go to the wrong one.
- Any number of threads may `wait` for a low water mark, and a read wakes one of them.
  With different marks that may be one whose mark is not reached, and another sleeps on.
  The history `alone` remembers whether no other thread has waited beside this one;
  `NoWakeupLost` and `CallsEnd` speak of the low water mark only for a waiter that is
  alone, because the code promises no more.
- A timed `iqWaitForEither` past its deadline does not end: `Signal::wait` returns at once
  without releasing the lock, so the loop spins with it (`Spin`), and every step that
  needs the lock stops (`Unlocked`).  `CallsEnd` says that this is the only way for a timed
  call not to end.

### ScopedLocks

The three rounds of `_lockAll` with each `lock`, `trylock` and `unlock` a step, and the
caller's own mutex that may be locked on entry.  All threads pass the mutexes in the
same order and own at most one of them.

## Runs

Bounds common to the transmit runs: `GMaxTimeslots = 2` and 4 or 6 frames, so
that a carry comes with every second slot and the hyperframe wraps several
times; filler moduli 1, 1, 1 or 1, 2, 2 in place of 26, 51, 102, so that rows
differ between moduli where the channel type matters and the table stays small;
a pool of one or two `Bursts` (two are what combining and overtaking need);
`BurstBehind`/`BurstAhead` 1: a burst arrives stale, due or early; `MaxLag`: how
many slots the transmit loop may be behind the radio; `MaxArrivals`: packets
accepted while one slot is due, without which a core faster than the stale loop
could keep the transmit thread in that loop for ever; `MaxLatency`: underruns are
reported below that many frames.  `CommandSlots` limits SETSLOT to timeslot 0:
timeslots do not share state with each other.

Bounds of the runs of `RadioReceive` and `RadioTransmit`: none but the number of frames.  All sizes are the
code's, all three radio types and both oversampling factors are initial states,
positions are modulo a frame of samples, and the state spaces are finite without
further bounds.  `radio` uses a hyperframe of 2 frames, as only the timeslot
matters to the sample stream, and the code's FIFO limit.  It drops 4
packets in place of 30: the count only has to be larger than the two packets
(stop and start) that frame the gap; `radio_underrun` uses 30, and the theorems
hold for any number.  The two halves share only the radio type and the sampling
rate, so they are run one next to the other and not interleaved (`HalvesSpec`).

Bounds of `uhd_receive`: a ring of 9 samples, chunks of 3, packets of 1 or 2, an
offset of 1, gaps of up to 3 (the tightest the assumption admits), one clock jump,
and time up to 20, in which the ring is passed twice.  The theorems hold for
every ring.

Bounds of `receive_path`: one timeslot and the number that is none; a combination
that mixes access and normal bursts over the frames and one that has idle frames,
with one frame of each kind (`CorrOf` is a table over the others); a training
sequence code that exists and one that does not; a ring of two noises, the shortest
one in which the order of noises matters; one value of each argument that no
property tells apart.  The theorems hold for all combinations, slots and rings.

Bounds of `library`, where one library runs at a time:

- clocks: 12 frames of 8 timeslots, distances up to 39 timeslots;
- filters: each kernel of the dispatch, with 2 to 10 samples of output, every tap;
  delays on both sides of zero and beyond the burst's length;
- bursts: both sampling rates, every peak position, maximum delays 0 and 5;
- resampler: 4 taps per partition in place of 16, ratios up and down, three blocks of
  one or two chunks, an impulse on either side of a block boundary, every tap;
- conversion: lengths around every multiple of 8 and 16, on both sides of the range;
- bit codes: every field of a vector of 5 bits; packed vectors of sizes with and without a
  remainder, with one or two bits set (bytes do not depend on each other);
  two generators with a constant term and one without, with every data word and every
  wrong bit;
- vectors: three, and three addresses, the least in which an address returns while
  two others are aliased;
- FIFO: four nodes and two values; containers: three threads, two keys, two items,
  so that two threads wait while one writes; locks: three threads, three mutexes.

| Run | Question | Result |
|---|---|---|
| `transmit_queue` | two bursts, filler and malformed packets, three threads: are slots served in order, none early, and misses only behind a stale burst; is the schedule implemented? | yes |
| `transmit_slots` | two bursts while the channel type changes, also to GPRS: has every burst and every table entry one owner, is no deleted entry used, do rows stay inside the table and clocks in range while half written (no filler packets)? | yes |
| `transmit_latency` | latency adaptation with underruns (USRP1 window): the deadline stays within clock + latency, up to one slot; every queued burst leaves the queue | yes |
| `radio` | is the sample stream cut at slot boundaries whichever reads fail, does the radio clock follow it, do buffers and FIFO keep their bounds; do bursts begin on the air with their timeslots, in blocks the resampler can hold, while errors interrupt the device; are its bursts whole, its gaps constant, its errors all served; do both directions go on? | yes |
| `uhd_receive` | does the ring keep every sample received and not yet read under the index of its time, through packets of all sizes, losses and restarts; are reads valid; is every chunk delivered in the end; does it implement the timed store? | yes |
| `receive_path` | do answers and settings agree after any sequence of commands, are bursts correlated as the core asked before or after a command that comes in between, does the training sequence stay while it is in use, does the noise ring hold the last noises, while both threads run? | yes |
| `library` | do times compare as real time does (`OrderIsDistance`); is every filter the convolution with its taps; do bursts stay inside their vectors and is their delay what is measured; is the resampled stream one filter over all blocks; is every sample converted once; does everything coded come back; has every block one owner; is no wake-up lost and does every timed call end; do the locks never deadlock; is the list a FIFO? | yes |
| `transmit_filler_race` | is a filler entry always present when used, with filler packets? | no: finding |
| `radio_slot` | is a received burst in one of the eight timeslots? | no: finding |
| `radio_underrun` | does `isUnderrun` return what `writeSamples` reported? | no: finding |
| `receive_error` | is a burst that is reported to the core one that a correlator found? | no: finding |
| `peak_window` | does the peak-to-average ratio read the correlation only? | no: finding |

Deadlock is checked in every passing run but `uhd_receive`, where the process exits
after a timeout and time ends at its bound.

## Fairness

Five specifications check liveness, in four runs.

- `transmit_latency` (`TransmitPath!FairSpec`): the three threads take steps when they
  can (they loop for ever and the operating system schedules them; in the code
  they block only in socket reads, in the queue's short critical sections, and in
  `RadioClock::wait`, which has a timeout of one millisecond and is followed by a
  test of the clock), and the radio clock keeps ticking (the device delivers
  samples).  Nothing is assumed about the core: reading a packet or a command
  carries no fairness.
- `radio`, the receive half (`RadioReceive!ReceiveFairSpec`): the receive thread is scheduled, and
  not every read fails for ever: strong fairness of `RxPull`, because a read that
  fails is followed by a new one at once and a success is possible again and
  again, not continuously.
- `radio`, the send half (`RadioTransmit!RadioFairSpec`): the transmit thread is
  scheduled.  Error events and the receive thread carry no fairness and may come
  as often as they like.
- `uhd_receive` (`UhdReceive!FairSpec`): the receive thread calls and finishes reads,
  and the device goes on sending packets.  Losses, clock jumps and unrecoverable
  errors carry no fairness.
- `library` (`Interthread!InterFairness`): a thread that runs inside a method is
  scheduled, a signal that is due is sent, and deadlines pass.  Calls carry no
  fairness, and which of several sleeping threads a signal wakes is open.

## Proofs

All theorems are checked by TLAPS for every value of the constants that the named
assumptions admit.

- `GsmTimeProofs` (from `GsmTimeAssumption`: any hyperframe of even length, any
  number of timeslots, any field widths that hold them): type facts of each
  operator, the range of `FNDelta` (`FNDeltaRange`), comparability of different times
  (`Comparable`); by how many timeslots each operator moves a time (`Moves`), and what the
  comparisons say of that number (`SlotsOrder`), also across the wrap.
- `TransmitPathProofs` (also `TransmitAssumption`: any moduli, number of bursts,
  window type, inputs and bounds): `HeapInvariance` shows `Spec => []HeapInv` with
  `HeapInv == TypeOK /\ HoldingDiscipline /\ HeldOnce`, one lemma per action.
  The conjunction is needed: types alone are not inductive, because that a burst
  in `queue` or held by a thread has a time at all (and not `Freed`) is a fact of
  ownership; ownership is not inductive, because what a thread may do with its
  burst depends on its step (`HoldingDiscipline`).  From it: `TypeCorrect`
  and the action property `MissesAreBehindStale`: when
  `TxNoCurrent` passes over a due burst, the head of the queue is another one, and
  of two different times one is before the other (`Comparable`); the head is a
  minimum of the queue, so it is the stale one.
  `FillersArePresent` and `BurstsAreOwned` (with its part `TableOwnership`) need that only
  the transmit thread is ever inside `setFiller`, and have the hypothesis that the core
  sends no filler frames: with them both are false (`transmit_filler_race`).
  `DeadlinesAreWithinLatency` rests on `LagInv`, the number of timeslots between the
  deadline and the radio clock plus the latency at each step of a push.  Numbers of
  timeslots only make sense while all clocks stay within half a hyperframe, and
  `LatencyIsShort` says that the bound on the lag, the jump of `decTN` without a borrow and
  the two adaptation intervals leave room for that; it holds of `transmit_latency` and of
  the numbers in the code (3 frames, 255 timeslots, 10 and 216 frames in 1357824).
  `ScheduleIsImplemented` maps every step to one of `TransmitSchedule` or a stutter.
  `MixInv` is what that needs beyond `HeapInv`: a burst that was combined into another is
  deleted, and stays booked for the slot that is due until that vector is sent.
- `RadioProofs`, the receive half (from `GsmTimeAssumption` and `ReceiveAssumption`: eight
  timeslots, any receive offset, hyperframe and FIFO limit; the three radio types
  are not constants but initial states): `ReceiveInvariance` shows
  `ReceiveSpec => []ReceiveInv`, the conjunction of `ReceiveTypeOK`, `BoundInv`, `SlotsAgree`,
  `ClockFollowsSamples` and `SamplesMatchSlot`.  `SlotsAgree` is what makes the cut
  inductive: the burst clock and the radio clock are different variables, one of
  them with values that are no timeslots, and they agree only modulo 8.
  `StreamOrder` is the arithmetic behind it: a slot begins where the slot before it
  ends, across the end of the frame.  `BoundInv` pays for each burst in the FIFO
  with 156 samples of the pull that brought it; the bounds of the FIFO and of the
  buffer follow (`FifoIsBounded`, `BufferFits`).
- `RadioProofs`, the transmit half (from `DropAssumption`): `DeviceInvariance` for `UhdTransmit`,
  with a phase for each value of the drop count, and the fact that an error
  written over by `SetAligned` is one for which a burst begins afterwards.
  `RadioDrivesDevice` shows that every step of the composition is a step of the
  device or leaves it alone, so that `WholeBursts`, `FixedGap` and
  `EveryErrorResynchronizes` hold of the composition.  `AirInvariance` is the other
  half: types of the send buffer, `SendFollowsSlots`, and `Waiting`, the bound on what
  waits in the buffer at each step of the thread, without which the room for the next
  burst is not known.  From it `BufferHoldsBursts` (`SendFits`) and `BurstsFollowSlots`,
  for the real sizes of all three radio types, at every place of the stream.
- `UhdReceiveProofs` (from `BufferAssumption` and `ReceiveAssumption`): the conjunction
  of `TypeOK`, `IndexIsTime`, `StartsAtReadTime`, `WindowFits` and `CellsHoldReceived` is
  inductive.  The ring's own claim, that samples sit where the cursors say, is not:
  that a write does not pass over a sample follows from the difference of two
  times being less than the ring's length (`WindowFits`, from the bound on gaps), and
  only after both are known to be remainders of times (`IndexIsTime`).  The lemmas at
  the start are the arithmetic of remainders by an arbitrary length.  From it
  `RingIsIntact`, `ReadsAreValid`, and `ReceiveImplementsStore`: every step of the device
  is a step of `SampleStore` or leaves it alone.
- `ReceivePathProofs` (from `ReceivePathAssumption`: any settings, slots, codes and
  ring length): `PathInvariance` shows `Spec => []PathInv`, the conjunction of `TypeOK`
  and three parts.  `ControlInv` says what is in force at each step of a command:
  before its effect what was acknowledged, after it what the answer will
  acknowledge (`Told`), so that `AckedInForce` follows when the answer is sent.
  `SequenceInv` ties the sequence of a correlation to `mTSC`, and `mTSC` to the table,
  through the fact that once the threads run SETTSC is refused; without the
  former, `SequenceInPlace` is not inductive.  `AskedInv` adds to `CorrelatedAsAsked` what
  the history knows of the slot while the burst is classified (`SlotKnown`): its last entry
  is what is in force; one change alters the handover flag or the type and not both
  (`OneOfTwo`), so that a flag that was read belongs to either end.  From these
  `AnswersAreTrue`, `SequenceStays` and `BurstsAreTakenAsAsked`.  The ring is a separate
  argument (`InsertKeepsRing`): an index at most one lap ahead is reduced by one
  subtraction (`Around`), so each noise but the newest keeps its cell while its age
  moves by one (`NoisesAreRecent`).

- `LibraryProofs`, one section for each library:
  - `LocksNeverDeadlock` (from `LockerAssumption`: any number of threads) from an invariant
    that says which mutexes a thread holds at each step of its round; in every set of
    threads that wait for each other somebody waits for a mutex that nobody in the set can
    hold.
  - `MemoryHasOneOwner` (from `MemoryAssumption`: any vectors, any addresses); its only
    strengthening is the types and that a vector without memory owns nothing.
  - `ClocksCompareAsTime` (`OrderIsDistance`, from `GsmTimeAssumption` and
    `WindowAssumption`): the distance that is counted is the number of timeslots between the
    two times as long as it is less than half a hyperframe, so every operator need only be
    shown to move a time by what is counted.
  - `ListIsFifo` (`ImplementsFifo`, from `FifoAssumption`: any nodes and values).  `FifoInv`
    splits the nodes into the list and the free list.  `LinkedIsUnique` is the induction: the
    first node and the links leave one list only, so that the contents, which are chosen
    among all lists, are those of the list that the invariant has.  `ListShrinks` and
    `ListGrows` are what a step does to either list.
  - `WakeupsReachWaiters` (`NoWakeupLost`, from `InterthreadAssumption`: any finite set of
    threads, any keys, marks and bound on items): `WakeInv` is `Shaped` (types, and which
    calls fit which kind of container), `GetsWake`, `EithersWake` and `WaitsWake`.
    `GetsWake` counts: if a reader sleeps, there are no more items than threads that are
    about to signal or to read.  The signal wakes one thread of those that may be asleep
    for other keys, so it is `OneBlocks`, one waiting thread at connected queues and at most
    one that is `alone`, that makes the count go up when it must.  `WaitsWake` is about a
    thread that is alone in waiting for the low water mark.  The counts are
    cardinalities, so the lemmas say how each step moves a set that only one thread
    enters or leaves.
- `SignalProofs`, one section for each part of the signal processing:
  - `BlocksConvertInPlace` (`ConvertsInPlace`, from `ConvertAssumption`: any length, scale
    and width of a short).  `SendsInPlace` and `ReceivesInPlace` hold of every input, not only
    of the one that `Sending` makes.
  - `ModemStaysInside` and `ModemMeasuresDelay` (from `ModemAssumption`: one or four samples
    per symbol, any maximum delay): what a detector answers is `Detected`, and a peak that
    is not cut off always has samples for its ratio (`RatioHasSamples`).
  - `FiltersConvolve` (`FilterIsConvolution`, from `FilterAssumption` and `UsesFit`: any
    sizes, span, start and step that pass `bounds_check`).  The sums of the kernels are folds
    over finite sets; `SumIsFolded` shows that the fold is well defined, and `SumOfOne` that a
    sum of which one term counts is that term.  With it `RealTapsMeet` and `ComplexTapsMeet`
    say which sample a tap meets in any number of quads, through the lanes of the shuffles,
    and `MacRealMeets` and `MacComplexMeets` say the same of the plain kernels.  So whatever
    kernel `convolve_real` or `convolve_complex` chooses, it gives `Answers`.
    `PaddingIsEnough` keeps every read inside the room that `Padding` makes.
  - `ResamplerStreams` (`ResamplesStream`, from `ResamplerAssumption` and `BlocksFit`: any
    ratios, partition length and block lengths, as long as a block has at most
    `MAX_OUTPUT_LEN` outputs and is no shorter than a partition).  `Streams` adds to the
    property what the history holds, as a function of what was taken (`Remembered`), and that
    what was taken and given are as many chunks.  `PathsGoOn` joins the paths of a block to
    those of the stream.  The kernel is the one of `RealAnswers`.

- `CodeProofs`: `CodesComeBack` (`CodesInvert`, from `CodesAssumption`: any vectors, sizes, maps,
  puncturings, and generators with up to 63 bits).  The invariant is its own strengthening,
  since each coding starts anew; the work is what the recursive functions compute.
  - `RecursionExists` builds a recursive function from its finite beginnings, so that the
    `CHOOSE` behind each recursive definition is known to choose something; `PowersOfTwo`,
    `AccumulatedRuns`, `SyndromeRuns` and `EncoderRuns` apply it to `Pow2`, `Accumulated` and
    the two shift registers.
  - `BitsOfAccumulated` and `AccumulatedBits` make numbers and words of bits the same thing;
    fields, packed vectors and hexadecimal digits follow (`FieldComesBack`, `PackComesBack`,
    `HexComesBack`).
  - The two registers differ: the encoder feeds a bit in at the end, the syndrome register at
    the front.  `EncodedIsTurned` relates them: the parity is the syndrome register turned
    once more for each of its bits (`Turnings`), because turning is linear (`ShiftIsLinear`,
    `TurningsAdd`) and turns a bit at the front into the coefficients (`WhereTurnsEnd`).
    While the parity comes in the register is the sum of its turns and of what has come in
    (`AfterTail`), so zeros or ones are left (`CodewordEnds`).
  - `ShiftTells` is why a wrong bit is not forgotten: with a constant term a shift can be
    undone, so two registers that differ go on to differ (`WrongBitShows`), and `NumberIs` tells
    them apart in the number that is returned.

Induction is by least counterexample (`LeastNatural`, and `Induction` of `CodeProofs` for
sets), since the induction rules of the library have operators as parameters.

Only model-checked: liveness (`QueueDrains`, `ReceptionGoesOn`, `TransmissionResumes`,
`ReadsGoOn`, `CallsEnd`), which is out of the prover's reach.  Every invariant, action property
and refinement that a passing run checks is also stated by a theorem.

## Disagreements found while modelling

1. `setFiller` deletes and assigns a shared entry without a lock
   (`transmit_filler_race`).
2. The time of a received burst is the radio clock moved back with `decTN`
   (`gsmtime.h:81`), whose test for a borrow is on an unsigned field and never
   holds: bursts carry timeslots 253 to 255, which index arrays of eight
   (`radio_slot`).
3. The receive thread's `m_underrun |= ...` is a load and a store without a lock;
   when `writeSamples` reports an underrun between them, the store undoes the report
   before `isUnderrun` has read it (`radio_underrun`).
4. `pullRadioVector` takes any nonzero result of `analyzeTrafficBurst` for a
   detection, but a negative one is an error (`sigProcLib.h:239`): with a training
   sequence code that does not exist, bursts that nothing was correlated with are
   demodulated and sent to the core (`receive_error`).
5. `computePeakRatio` (`sigProcLib.cpp:1149`) tests that `peak - i` lies in the
   correlation and then reads `*(peak + i)`: the samples before the peak are never
   averaged, those after it twice, and near the end of the window it reads behind
   the correlation.  The commented-out line above it reads `(peak - i)`
   (`peak_window`).

Read in the code, and without a run of their own:

- `setFiller` tests the channel type before it replaces the entry, so a replacement
  that is late undoes the static filler of a timeslot that has become a GPRS one.
- ADJPOWER changes `mPower` and answers with it, but does not tell the radio, which
  keeps the attenuation of the last SETPOWER (the comment at `Transceiver.cpp:557`
  says "adjust power in dB steps").  POWEROFF answers 0 and does nothing (its comment:
  "turn off transmitter/demod").
- SETTSC answers 0 whatever `generateMidamble` returns; SETSLOT with a bad timeslot
  formats an answer and does not send it; an unknown command sends an uninitialised
  buffer; NOISELEV before the first noise converts an infinity to `int`.
- A stale burst queued between the two loops of `pushRadioVector` hides the due
  one, which is then dumped as stale.  `MissOnlyBehindStale` says that this is the
  only way to miss a burst.
- `operator-(uint32_t)` and `+=` with a negative step (`gsmtime.h:104`) reduce from
  2^32, which is no multiple of the hyperframe.  Nothing in the program subtracts
  frames across frame 0; the walk stays within the hyperframe.
- `IND CLOCK` announces the deadline's frame plus 2 without reducing it, so the last
  frames of a hyperframe are announced as 2715648 and 2715649.
- `iqWaitForEither` with a timeout does not end at its deadline: `Signal::wait`
  returns at once for a time that is over, and the loop goes on with the lock held
  (`Spin` in `Interthread`), so that no other thread can write what it waits for.
  `qGetLock` and the iterators of a connected queue use its own mutex, not the shared
  one (`Interthread.h:130`).  `InterthreadMap1::size` declares a variable named
  `mLock` where it means to lock (`Interthread.h:598`).  Of two threads
  that wait for low water marks of one queue, a read may wake the one whose mark is not
  reached (`Interthread.h:429`); the model has them, and its properties speak only of a waiter
  that is alone.
- With filler frames two threads in `setFiller` may `delete` the same table entry
  (`Transceiver.cpp:172`): the same race as that of `transmit_filler_race`.
- Two commands between the two reads of `expectedCorrType` (a handover command and a
  SETSLOT) can make it answer by a mixture of what held before and after: the flag of one
  and the combination of the other.
- `Timeval::future` leaves 1000000 microseconds as they are (`Timeval.cpp:41`), which the
  library refuses as a deadline: the wait returns at once, and the loop around it
  runs until the time is over.
- `ScopedLockMultiple` frees of deadlock only callers that pass the mutexes in the
  same order: two of them with opposite orders, each owning one on entry, can wait
  for each other.
- `BitVector::invert` leaves bits 0xFE and 0xFF, of which only the lowest counts, but
  `operator==` compares whole chars.  `hex` leaves out the bits of a last digit that is
  not full, which `unhex` expects.
- "drop transmit latency by a timeslot" (`Transceiver.cpp:790`): `decTN` takes a latency
  of whole frames, such as the initial one, to timeslot 255 of the same frame.  It
  becomes 255 timeslots longer, falls back to where it was in as many seconds, and
  starts again; the whole frames that underruns added are never given back.
  `DeadlineWithinLatency` holds all the same, because it follows whatever the latency
  has become.  For the same reason the latency never falls to `USB_LATENCY_MIN` (one
  frame and one timeslot, as long as the build does not define `USE_UHD`), so its last
  change is never long ago while the transmitter runs.

## What is not modelled

`PROJECT.json` lists every part with its status.

- Values of samples: pulse shapes, power, gain and phase, the trigonometric tables,
  decibels, the noise level as a number.  Floating point is beyond TLC, and no
  property of the control depends on it.  The equalizer (`designDFE`,
  `equalizeBurst`) is called only if `needDFE`, which is the constant false.
- The device's setup in `UHDDevice.cpp` (opening, rates, gains, tuning, clock
  source): each reads or sets the library once and keeps what it was told.
- Start and shutdown (`runTransceiver.cpp`): the objects are deleted while their
  threads still run.  The life time of every object would have to be part of every
  other module.
- `DummyLoad`: built, but nothing creates one.  `TransceiverRAD1`: in no build rule, and
  written against an interface the other sources no longer have.
- Sockets: blocking reads and writes; what they deliver are the inputs of the models.
- `Threads.cpp`: the creation of threads, `RWLock`, and the reports of who holds a lock.

## Plan

The control, the radio and device in both directions, and the libraries are done.
Next, in this order:

1. The adaptation of the latency joined with `RadioTransmit`, where the underrun flag
   comes from.
2. Shutdown: the life times of transceiver, radio and device against the threads.
